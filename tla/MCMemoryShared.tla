--------------------------- MODULE MCMemoryShared ---------------------------
(* Instances of MemoryShared for TLC: readers r1, r2 and writers w1, w2 on one key. *)
EXTENDS MemoryShared

CONSTANTS r1, r2, w1, w2

Sides == [c \in Caller |-> IF c \in {r1, r2} THEN "read" ELSE "write"]
=============================================================================
