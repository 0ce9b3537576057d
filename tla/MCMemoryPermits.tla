--------------------------- MODULE MCMemoryPermits ---------------------------
(* An instance of MemoryPermits for TLC: two light and two heavy calls; the handle of one declares another limit. *)
EXTENDS MemoryPermits

CONSTANTS c1, c2, c3, c4

LightAndHeavy == (c1 :> 1) @@ (c2 :> 1) @@ (c3 :> 2) @@ (c4 :> 2)
TwoLimits == (c1 :> 2) @@ (c2 :> 3) @@ (c3 :> 3) @@ (c4 :> 3)
=============================================================================
