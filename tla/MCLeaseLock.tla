---------------------------- MODULE MCLeaseLock ----------------------------
(* Instances of LeaseLock: attempts are interchangeable. *)
EXTENDS LeaseLock, TLC

Attempts == Permutations(Token)
=============================================================================
