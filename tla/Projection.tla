------------------------------ MODULE Projection ------------------------------
(***************************************************************************)
(* An async projection (createCatchUp in packages/journal/src/worker.ts)   *)
(* on the built-in event log (createBuiltInEventLog in store.ts), beside   *)
(* the writers that append to it (write.ts).                               *)
(*                                                                         *)
(* A write takes the append lock, draws its seqs from a sequence that no   *)
(* rollback gives back, and holds the lock until its transaction ends.  A  *)
(* batch locks the projection's cursor row, reads the log's top, then the  *)
(* next rows up to it, applies them and moves the cursor, all in one       *)
(* transaction.  One step is one statement under READ COMMITTED, so        *)
(* commits land between a batch's two reads.  A Batcher is a worker's pass *)
(* or a journal.catchUp by hand; one that dies in a batch rolls back.      *)
(***************************************************************************)
EXTENDS Naturals, FiniteSets

CONSTANTS Writer,     \* transactions that write
          Batcher,    \* the callers of batchFor
          Nobody,     \* holds the cursor row when no batch does
          BatchSize,  \* events per batch
          MaxSeq      \* bound on the seqs drawn

ASSUME ProjectionAssumption == /\ Nobody \notin Batcher
                               /\ BatchSize \in Nat \ {0} /\ MaxSeq \in Nat

VARIABLES seq,      \* the events table's sequence
          log,      \* seqs of the committed events
          open,     \* the seqs each writer's transaction has drawn; {} outside one
          cursor,   \* the projection's position, 0 for null
          lockedBy, \* who holds the cursor row
          pc,       \* where each batch is: none, locked, topped, read
          top,      \* the top each batch read
          rows,     \* the rows each batch read, to be applied in seq order
          applied   \* the read model: how often each event was applied to it

vars == <<seq, log, open, cursor, lockedBy, pc, top, rows, applied>>
writers == <<seq, log, open>>

Seqs == 1..MaxSeq
MaxOf(S) == IF S = {} THEN 0 ELSE CHOOSE n \in S : \A m \in S : m <= n
First(n, S) == {s \in S : Cardinality({r \in S : r <= s}) <= n}   \* order by seq limit n
Cleared == [s \in Seqs |-> 0]

\* Typing of the log, the cursor row and the batches' local variables.
TypeOK == /\ seq \in 0..MaxSeq /\ log \subseteq Seqs /\ open \in [Writer -> SUBSET Seqs]
          /\ cursor \in 0..MaxSeq /\ lockedBy \in Batcher \cup {Nobody}
          /\ pc \in [Batcher -> {"none", "locked", "topped", "read"}]
          /\ top \in [Batcher -> 0..MaxSeq] /\ rows \in [Batcher -> SUBSET Seqs]
          /\ applied \in [Seqs -> Nat]

Init == /\ seq = 0 /\ log = {} /\ open = [w \in Writer |-> {}]
        /\ cursor = 0 /\ lockedBy = Nobody
        /\ pc = [b \in Batcher |-> "none"]
        /\ top = [b \in Batcher |-> 0] /\ rows = [b \in Batcher |-> {}]
        /\ applied = Cleared
-----------------------------------------------------------------------------
(* Writers *)

\* Mutant: no append lock.
WriteUnlocked(w) == /\ seq < MaxSeq
                    /\ seq' = seq + 1 /\ open' = [open EXCEPT ![w] = @ \cup {seq + 1}]
                    /\ UNCHANGED <<log, cursor, lockedBy, pc, top, rows, applied>>

\* write: the append lock (re-entrant in one transaction), then a stamp.
Write(w) == /\ seq < MaxSeq /\ \A v \in Writer \ {w} : open[v] = {}
            /\ seq' = seq + 1 /\ open' = [open EXCEPT ![w] = @ \cup {seq + 1}]
            /\ UNCHANGED <<log, cursor, lockedBy, pc, top, rows, applied>>

Commit(w) == /\ open[w] # {}
             /\ log' = log \cup open[w] /\ open' = [open EXCEPT ![w] = {}]
             /\ UNCHANGED <<seq, cursor, lockedBy, pc, top, rows, applied>>

\* The seqs are spent: the log has a gap there for good.
Rollback(w) == /\ open[w] # {}
               /\ open' = [open EXCEPT ![w] = {}]
               /\ UNCHANGED <<seq, log, cursor, lockedBy, pc, top, rows, applied>>
-----------------------------------------------------------------------------
(* batchFor *)

\* lockCursor: the row, for this transaction.
LockCursor(b) == /\ pc[b] = "none" /\ lockedBy = Nobody
                 /\ lockedBy' = b /\ pc' = [pc EXCEPT ![b] = "locked"]
                 /\ UNCHANGED <<writers, cursor, top, rows, applied>>

\* after: the log's top first.
ReadTop(b) == /\ pc[b] = "locked"
              /\ top' = [top EXCEPT ![b] = MaxOf(log)] /\ pc' = [pc EXCEPT ![b] = "topped"]
              /\ UNCHANGED <<writers, cursor, lockedBy, rows, applied>>

\* Mutant: up to that top, exclusive.
ReadRowsBelowTop(b) ==
    /\ pc[b] = "topped"
    /\ rows' = [rows EXCEPT ![b] = First(BatchSize, {s \in log : s > cursor /\ s < top[b]})]
    /\ pc' = [pc EXCEPT ![b] = "read"]
    /\ UNCHANGED <<writers, cursor, lockedBy, top, applied>>

\* after: the next rows, up to that top.
ReadRows(b) ==
    /\ pc[b] = "topped"
    /\ rows' = [rows EXCEPT ![b] = First(BatchSize, {s \in log : s > cursor /\ s <= top[b]})]
    /\ pc' = [pc EXCEPT ![b] = "read"]
    /\ UNCHANGED <<writers, cursor, lockedBy, top, applied>>

\* after's `next`: the last row of a full batch, else the top.
NextPosition(b) == IF Cardinality(rows[b]) = BatchSize THEN MaxOf(rows[b]) ELSE top[b]

EndBatch(b) == /\ lockedBy' = Nobody /\ pc' = [pc EXCEPT ![b] = "none"]
               /\ top' = [top EXCEPT ![b] = 0] /\ rows' = [rows EXCEPT ![b] = {}]

\* The projection's writes and the cursor commit together; an empty scan changes nothing.
CommitBatch(b) == /\ pc[b] = "read"
                  /\ applied' = [s \in Seqs |-> IF s \in rows[b] THEN applied[s] + 1 ELSE applied[s]]
                  /\ cursor' = IF rows[b] = {} THEN cursor ELSE NextPosition(b)
                  /\ EndBatch(b) /\ UNCHANGED writers

\* A handler throws or the process dies: the batch rolls back.
FailBatch(b) == pc[b] # "none" /\ EndBatch(b) /\ UNCHANGED <<writers, cursor, applied>>

\* reset: the row locked, the read model cleared, the cursor rewound, in one transaction.
Reset == /\ lockedBy = Nobody
         /\ applied' = Cleared /\ cursor' = 0
         /\ UNCHANGED <<writers, lockedBy, pc, top, rows>>

Next == \/ \E w \in Writer : Write(w) \/ Commit(w) \/ Rollback(w)
        \/ \E b \in Batcher : LockCursor(b) \/ ReadTop(b) \/ ReadRows(b) \/ CommitBatch(b) \/ FailBatch(b)
        \/ Reset

\* A caller passes again and again, and no failure strikes the same step of its batches for ever.
Fairness == \A b \in Batcher : /\ SF_vars(LockCursor(b)) /\ SF_vars(ReadTop(b))
                               /\ SF_vars(ReadRows(b)) /\ SF_vars(CommitBatch(b))

Spec == Init /\ [][Next]_vars /\ Fairness
-----------------------------------------------------------------------------
\* The read model holds every committed event up to the cursor exactly once and none beyond it: no
\* commit lands behind the cursor, no batch is applied twice or half, and a reset leaves nothing over.
ReadModelIsExact == \A s \in Seqs : applied[s] = IF s \in log /\ s <= cursor THEN 1 ELSE 0

\* What a batch has read is just what follows the read model up to where it will move the cursor,
\* whatever committed since it looked.
BatchIsNext == \A b \in Batcher : pc[b] = "read" /\ rows[b] # {} =>
                 /\ NextPosition(b) > cursor
                 /\ rows[b] = {s \in log : s > cursor /\ s <= NextPosition(b)}

\* A projection catches up: an event once committed is in the read model at last, unless it is
\* reset for ever.
CatchesUp == []<><<Reset>>_vars \/ \A s \in Seqs : s \in log ~> s <= cursor
=============================================================================
