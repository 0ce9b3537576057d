------------------------------ MODULE FifoLock ------------------------------
(***************************************************************************)
(* What the in-process mutex promises (header of                           *)
(* packages/lock/src/memory.ts): one owner at a time, and contended work   *)
(* runs first come, first served.  A caller takes a free lock only when no *)
(* one waits or when it is the first that waits; a waiter may stop waiting *)
(* at any time without disturbing the others.                              *)
(***************************************************************************)
EXTENDS Naturals, Sequences, SequencesExt

CONSTANTS Caller, Nobody

VARIABLES owner,  \* the caller that owns the lock, or Nobody
          queue   \* the callers that wait, first come first

vars == <<owner, queue>>

Init == owner = Nobody /\ queue = <<>>

Enter(c) == /\ queue' = Append(queue, c)
            /\ UNCHANGED owner

Take(c) == /\ owner = Nobody
           /\ owner' = c
           /\ \/ queue = <<>> /\ queue' = queue
              \/ queue # <<>> /\ Head(queue) = c /\ queue' = Tail(queue)

Quit == /\ \E i \in 1..Len(queue) : queue' = RemoveAt(queue, i)
        /\ UNCHANGED owner

Free == /\ owner # Nobody
        /\ owner' = Nobody
        /\ UNCHANGED queue

Next == Quit \/ Free \/ \E c \in Caller : Enter(c) \/ Take(c)

Spec == Init /\ [][Next]_vars
=============================================================================
