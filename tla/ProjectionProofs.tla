--------------------------- MODULE ProjectionProofs ---------------------------
(***************************************************************************)
(* The read model of an async projection is exact for any number of        *)
(* writers and batches, any batch size and any length of the log.          *)
(*                                                                         *)
(* The append lock makes seq order commit order (Drawn, Turns): what       *)
(* commits later lies above everything committed, so above the cursor and  *)
(* above the top a batch has read (Marks).  The cursor's row lock keeps    *)
(* batches and resets apart (Locked), so that what a batch has read stays  *)
(* what follows the cursor (BatchIsNext) until it commits.                 *)
(***************************************************************************)
EXTENDS Projection, FiniteSetTheorems, WellFoundedInduction, TLAPS

(* The operators: order by, limit, max *)

\* Seqs are naturals.
LEMMA SeqsNat == \A s \in Seqs : s \in Nat /\ s # 0 /\ s <= MaxSeq /\ MaxSeq - s \in Nat
  BY ProjectionAssumption, SMT DEF Seqs

\* A nonempty set of naturals has a least element.
LEMMA LeastElement ==
    ASSUME NEW S \in SUBSET Nat, S # {}
    PROVE  \E n \in S : \A m \in S : n <= m
<1> DEFINE R == OpToRel(<, Nat)
<1>1. IsWellFoundedOn(R, Nat)
  BY NatLessThanWellFounded
<1>2. \A a, b \in Nat : a < b => <<a, b>> \in R
  BY DEF OpToRel
<1> HIDE DEF R
<1>3. PICK n \in S : \A m \in S : ~ (<<m, n>> \in R)
  BY <1>1, WFMin
<1>4. ASSUME NEW m \in S PROVE n <= m
  <2>1. m \in Nat /\ n \in Nat
    OBVIOUS
  <2>2. ~ (m < n)
    BY <1>2, <1>3, <2>1, Zenon
  <2> QED
    BY <2>1, <2>2
<1> QED
  BY <1>4

\* topSeq: MaxOf is the greatest element of a nonempty set of seqs.
LEMMA GreatestElement ==
    ASSUME NEW S \in SUBSET Seqs, S # {}
    PROVE  MaxOf(S) \in S /\ \A m \in S : m <= MaxOf(S)
<1> DEFINE D == {MaxSeq - n : n \in S}
<1>1. D \subseteq Nat /\ D # {}
  BY SeqsNat
<1> HIDE DEF D
<1>2. PICK d \in D : \A e \in D : d <= e
  BY <1>1, LeastElement
<1> USE DEF D
<1>3. PICK n \in S : d = MaxSeq - n
  BY <1>2
<1>4. \A m \in S : m <= n
  <2> SUFFICES ASSUME NEW m \in S PROVE m <= n
    OBVIOUS
  <2>1. MaxSeq - m \in D
    OBVIOUS
  <2>2. MaxSeq - n <= MaxSeq - m
    BY <1>2, <1>3, <2>1
  <2> QED
    BY <2>2, SeqsNat, ProjectionAssumption
<1> QED
  BY <1>4 DEF MaxOf

\* A set of seqs is finite.
LEMMA SeqsFinite ==
    ASSUME NEW S \in SUBSET Seqs
    PROVE  IsFiniteSet(S) /\ Cardinality(S) \in Nat
<1>1. IsFiniteSet(Seqs)
  BY FS_Interval, ProjectionAssumption DEF Seqs
<1>2. IsFiniteSet(S)
  BY <1>1, FS_Subset
<1> QED
  BY <1>2, FS_CardinalityType

\* after's rows: the limit takes a beginning of the rows in seq order, and takes all unless it is
\* reached.
LEMMA FirstRows ==
    ASSUME NEW N \in Nat \ {0}, NEW S \in SUBSET Seqs
    PROVE  /\ First(N, S) \in SUBSET S
           /\ \A s \in First(N, S), r \in S : r <= s => r \in First(N, S)
           /\ Cardinality(First(N, S)) # N => First(N, S) = S
<1> DEFINE F == First(N, S)
           Below(s) == {r \in S : r <= s}
<1>1. F \in SUBSET S /\ F \in SUBSET Seqs
  BY DEF First
<1>2. \A s \in S : s \in F <=> Cardinality(Below(s)) <= N
  BY DEF First
<1> HIDE DEF F
<1>3. ASSUME NEW s \in F, NEW r \in S, r <= s PROVE r \in F
  <2>1. /\ Below(s) \in SUBSET Seqs
        /\ Below(r) \in SUBSET Seqs
        /\ Below(r) \in SUBSET Below(s)
    <3>1. \A q \in Below(r) : q \in Below(s)
      BY <1>1, <1>3, SeqsNat
    <3> QED
      BY <3>1
  <2>2. Cardinality(Below(r)) <= Cardinality(Below(s))
    BY <2>1, SeqsFinite, FS_Subset
  <2>3. Cardinality(Below(r)) \in Nat /\ Cardinality(Below(s)) \in Nat
    BY <2>1, SeqsFinite
  <2>4. Cardinality(Below(s)) <= N
    BY <1>1, <1>2
  <2>5. Cardinality(Below(r)) <= N
    BY <2>2, <2>3, <2>4
  <2> QED
    BY <1>2, <2>5
<1>4. ASSUME Cardinality(F) # N, F # S PROVE FALSE
  <2>1. S \ F \subseteq Nat /\ S \ F # {}
    BY <1>1, <1>4, SeqsNat
  <2>2. PICK d \in S \ F : \A e \in S \ F : d <= e
    BY <2>1, LeastElement
  <2>3. Below(d) = F \cup {d}
    <3>1. ASSUME NEW r \in Below(d), r # d PROVE r \in F
      BY <2>2, <3>1, <1>1, SeqsNat
    <3>2. ASSUME NEW r \in F PROVE r <= d
      <4>1. r \in S /\ r \in Nat /\ d \in Nat
        BY <1>1, SeqsNat
      <4>2. ~(d <= r)
        BY <1>3, <2>2
      <4> QED
        BY <4>1, <4>2
    <3>3. d \in Below(d)
      BY <2>1
    <3> QED
      BY <1>1, <3>1, <3>2, <3>3
  <2>4. IsFiniteSet(F) /\ Cardinality(F) \in Nat
    BY <1>1, SeqsFinite
  <2>5. Cardinality(Below(d)) = Cardinality(F) + 1
    BY <2>2, <2>3, <2>4, FS_AddElement
  <2>6. Cardinality(F) > N
    <3>1. ~(Cardinality(Below(d)) <= N)
      BY <1>2, <2>2
    <3> QED
      BY <1>4, <2>4, <2>5, <3>1
  <2>7. F # {}
    BY <2>6, FS_EmptySet
  <2>8. MaxOf(F) \in F /\ \A m \in F : m <= MaxOf(F)
    BY <1>1, <2>7, GreatestElement
  <2>9. Below(MaxOf(F)) = F
    BY <1>1, <1>3, <2>8
  <2>10. Cardinality(F) <= N
    BY <1>1, <1>2, <2>8, <2>9
  <2> QED
    BY <2>4, <2>6, <2>10
<1> QED
  BY <1>1, <1>3, <1>4 DEF F
-----------------------------------------------------------------------------
(* The inductive invariant *)

\* What is drawn and not yet committed lies above all that is committed.
Drawn == /\ \A s \in log : s <= seq
         /\ \A w \in Writer : \A s \in open[w] : s <= seq /\ \A r \in log : r < s

\* One transaction at a time has drawn seqs.
Turns == \A v, w \in Writer : open[v] # {} /\ open[w] # {} => v = w

\* The cursor, and the top and the rows a batch has read, are committed.
Marks == /\ cursor \in log \cup {0}
         /\ \A b \in Batcher : /\ pc[b] \in {"topped", "read"} => top[b] \in log \cup {0}
                               /\ pc[b] = "read" => rows[b] \subseteq log

\* Whoever is in a batch holds the cursor row.
Locked == \A b \in Batcher : pc[b] # "none" => lockedBy = b

IndInv == TypeOK /\ Drawn /\ Turns /\ Marks /\ Locked /\ BatchIsNext /\ ReadModelIsExact

\* The top of a log of seqs is one of them, or 0.
LEMMA TopOfLog ==
    ASSUME NEW S \in SUBSET Seqs
    PROVE  MaxOf(S) \in S \cup {0} /\ MaxOf(S) \in 0..MaxSeq
<1>1. CASE S = {}
  BY <1>1, ProjectionAssumption DEF MaxOf
<1>2. CASE S # {}
  <2>1. MaxOf(S) \in S
    BY <1>2, GreatestElement
  <2> QED
    BY <2>1, SeqsNat, ProjectionAssumption
<1> QED
  BY <1>1, <1>2

\* after's `next` is a committed seq, or 0.
LEMMA NextIsCommitted ==
    ASSUME TypeOK, Marks, NEW b \in Batcher, pc[b] = "read", rows[b] # {}
    PROVE  NextPosition(b) \in log \cup {0} /\ NextPosition(b) \in 0..MaxSeq
<1>1. rows[b] \in SUBSET Seqs /\ rows[b] \subseteq log /\ top[b] \in log \cup {0} /\ top[b] \in 0..MaxSeq
  BY DEF TypeOK, Marks
<1>2. MaxOf(rows[b]) \in rows[b]
  BY <1>1, GreatestElement
<1>3. MaxOf(rows[b]) \in log /\ MaxOf(rows[b]) \in 0..MaxSeq
  BY <1>1, <1>2, SeqsNat, ProjectionAssumption
<1> QED
  BY <1>1, <1>3 DEF NextPosition

\* Nothing is committed, nobody is in a batch.
LEMMA InitInv == Init => IndInv
<1> SUFFICES ASSUME Init PROVE IndInv
  OBVIOUS
<1>1. TypeOK
  BY ProjectionAssumption DEF Init, TypeOK, Cleared
<1>2. Drawn /\ Turns /\ Marks /\ Locked /\ BatchIsNext
  BY DEF Init, Drawn, Turns, Marks, Locked, BatchIsNext
<1>3. ReadModelIsExact
  BY DEF Init, ReadModelIsExact, Cleared
<1> QED
  BY <1>1, <1>2, <1>3 DEF IndInv
-----------------------------------------------------------------------------
(* The writers *)

\* A write draws the next seq, above all others.
LEMMA WriteInv == ASSUME IndInv, NEW w \in Writer, Write(w) PROVE IndInv'
<1> USE DEF IndInv
<1>1. seq + 1 \in Seqs /\ seq \in Nat /\ seq' = seq + 1
  BY ProjectionAssumption DEF TypeOK, Write, Seqs
<1>2. /\ open' = [open EXCEPT ![w] = @ \cup {seq + 1}]
      /\ \A v \in Writer \ {w} : open[v] = {}
      /\ UNCHANGED <<log, cursor, lockedBy, pc, top, rows, applied>>
  BY DEF Write
<1>3. TypeOK'
  BY <1>1, <1>2, ProjectionAssumption DEF TypeOK, Seqs
<1>4. Drawn'
  <2>1. \A s \in log : s \in Nat /\ s <= seq
    BY SeqsNat DEF TypeOK, Drawn
  <2>2. \A v \in Writer : \A s \in open[v] : s \in Nat
    BY SeqsNat DEF TypeOK
  <2>3. ASSUME NEW v \in Writer, NEW s \in open'[v] PROVE s <= seq' /\ \A r \in log : r < s
    <3>1. s \in open[v] \/ s = seq + 1
      BY <1>2 DEF TypeOK
    <3>2. CASE s \in open[v]
      BY <1>1, <2>1, <2>2, <3>2 DEF Drawn
    <3>3. CASE s = seq + 1
      BY <1>1, <2>1, <3>3
    <3> QED
      BY <3>1, <3>2, <3>3
  <2>4. \A s \in log : s <= seq'
    BY <1>1, <2>1
  <2> QED
    BY <1>2, <2>3, <2>4 DEF Drawn
<1>5. Turns'
  BY <1>2 DEF Turns, TypeOK
<1>6. Marks' /\ Locked'
  BY <1>2 DEF Marks, Locked
<1>7. BatchIsNext' /\ ReadModelIsExact'
  BY <1>2 DEF BatchIsNext, ReadModelIsExact, NextPosition
<1> QED
  BY <1>3, <1>4, <1>5, <1>6, <1>7

\* What commits lies beyond the cursor and beyond where an open batch will move it.
LEMMA CommitInv == ASSUME IndInv, NEW w \in Writer, Commit(w) PROVE IndInv'
<1> USE DEF IndInv
<1>1. /\ log' = log \cup open[w] /\ open' = [open EXCEPT ![w] = {}] /\ open[w] # {}
      /\ UNCHANGED <<seq, cursor, lockedBy, pc, top, rows, applied>>
  BY DEF Commit
<1>2. open[w] \subseteq Seqs /\ log \subseteq Seqs /\ \A v \in Writer \ {w} : open'[v] = {}
  BY <1>1 DEF TypeOK, Turns
<1>3. open'[w] = {}
  BY <1>1 DEF TypeOK
<1>4. TypeOK'
  BY <1>1, <1>2 DEF TypeOK
<1>5. Drawn' /\ Turns'
  <2>1. \A s \in log' : s <= seq
    BY <1>1 DEF Drawn
  <2>2. \A v \in Writer : open'[v] = {}
    BY <1>2, <1>3
  <2> QED
    BY <1>1, <2>1, <2>2 DEF Drawn, Turns
<1>6. Marks' /\ Locked'
  BY <1>1 DEF Marks, Locked
<1>7. \A m \in log \cup {0}, s \in open[w] : m \in Nat /\ s \in Nat /\ m < s
  BY <1>2, SeqsNat DEF Drawn
<1>8. BatchIsNext'
  <2> SUFFICES ASSUME NEW b \in Batcher, pc[b] = "read", rows[b] # {}
               PROVE  /\ NextPosition(b) > cursor
                      /\ rows[b] = {s \in log' : s > cursor /\ s <= NextPosition(b)}
    BY <1>1 DEF BatchIsNext, NextPosition
  <2>1. /\ NextPosition(b) > cursor
        /\ rows[b] = {s \in log : s > cursor /\ s <= NextPosition(b)}
    BY DEF BatchIsNext
  <2>2. NextPosition(b) \in log \cup {0}
    BY NextIsCommitted
  <2>3. \A s \in open[w] : ~(s <= NextPosition(b))
    BY <1>7, <2>2
  <2> QED
    BY <1>1, <2>1, <2>3
<1>9. ReadModelIsExact'
  <2>1. \A s \in open[w] : ~(s <= cursor)
    BY <1>7 DEF Marks
  <2> QED
    BY <1>1, <2>1 DEF ReadModelIsExact
<1> QED
  BY <1>4, <1>5, <1>6, <1>8, <1>9

\* A rollback leaves a gap and nothing else.
LEMMA RollbackInv == ASSUME IndInv, NEW w \in Writer, Rollback(w) PROVE IndInv'
<1> USE DEF IndInv
<1>1. /\ open' = [open EXCEPT ![w] = {}]
      /\ UNCHANGED <<seq, log, cursor, lockedBy, pc, top, rows, applied>>
  BY DEF Rollback
<1>2. \A v \in Writer : open'[v] \subseteq open[v]
  BY <1>1 DEF TypeOK
<1>3. TypeOK'
  BY <1>1 DEF TypeOK
<1>4. Drawn' /\ Turns'
  BY <1>1, <1>2 DEF Drawn, Turns
<1>5. Marks' /\ Locked' /\ BatchIsNext' /\ ReadModelIsExact'
  BY <1>1 DEF Marks, Locked, BatchIsNext, ReadModelIsExact, NextPosition
<1> QED
  BY <1>3, <1>4, <1>5
-----------------------------------------------------------------------------
(* The batches *)

\* A batch takes the cursor row.
LEMMA LockCursorInv == ASSUME IndInv, NEW b \in Batcher, LockCursor(b) PROVE IndInv'
<1> USE DEF IndInv
<1>1. /\ pc' = [pc EXCEPT ![b] = "locked"] /\ lockedBy = Nobody /\ lockedBy' = b
      /\ UNCHANGED <<seq, log, open, cursor, top, rows, applied>>
  BY DEF LockCursor, writers
<1>2. \A c \in Batcher : pc[c] = "none"
  BY <1>1, ProjectionAssumption DEF Locked
<1>3. \A c \in Batcher : pc'[c] = IF c = b THEN "locked" ELSE "none"
  BY <1>1, <1>2 DEF TypeOK
<1>4. TypeOK'
  BY <1>1 DEF TypeOK
<1>5. Drawn' /\ Turns' /\ ReadModelIsExact'
  BY <1>1 DEF Drawn, Turns, ReadModelIsExact
<1>6. Marks' /\ Locked' /\ BatchIsNext'
  BY <1>1, <1>3 DEF Marks, Locked, BatchIsNext
<1> QED
  BY <1>4, <1>5, <1>6

\* The other batches are outside while one is in.
LEMMA OthersOutside ==
    ASSUME Locked, NEW b \in Batcher, pc[b] # "none"
    PROVE  lockedBy = b /\ \A c \in Batcher \ {b} : pc[c] = "none"
  BY DEF Locked

\* A batch reads the top.
LEMMA ReadTopInv == ASSUME IndInv, NEW b \in Batcher, ReadTop(b) PROVE IndInv'
<1> USE DEF IndInv
<1>1. /\ pc[b] = "locked" /\ pc' = [pc EXCEPT ![b] = "topped"]
      /\ top' = [top EXCEPT ![b] = MaxOf(log)]
      /\ UNCHANGED <<seq, log, open, cursor, lockedBy, rows, applied>>
  BY DEF ReadTop, writers
<1>2. lockedBy = b /\ \A c \in Batcher \ {b} : pc[c] = "none"
  BY <1>1, OthersOutside
<1>3. \A c \in Batcher : pc'[c] = IF c = b THEN "topped" ELSE "none"
  BY <1>1, <1>2 DEF TypeOK
<1>4. MaxOf(log) \in log \cup {0} /\ MaxOf(log) \in 0..MaxSeq
  BY TopOfLog DEF TypeOK
<1>5. top'[b] = MaxOf(log)
  BY <1>1 DEF TypeOK
<1>6. TypeOK'
  BY <1>1, <1>4 DEF TypeOK
<1>7. Drawn' /\ Turns' /\ ReadModelIsExact'
  BY <1>1 DEF Drawn, Turns, ReadModelIsExact
<1>8. Marks' /\ Locked' /\ BatchIsNext'
  BY <1>1, <1>2, <1>3, <1>4, <1>5 DEF Marks, Locked, BatchIsNext
<1> QED
  BY <1>6, <1>7, <1>8

\* A batch reads the rows: a beginning of what follows the cursor, up to the top or to the limit.
LEMMA ReadRowsInv == ASSUME IndInv, NEW b \in Batcher, ReadRows(b) PROVE IndInv'
<1> USE DEF IndInv
<1> DEFINE S == {s \in log : s > cursor /\ s <= top[b]}
           F == First(BatchSize, S)
<1>1. /\ pc[b] = "topped" /\ pc' = [pc EXCEPT ![b] = "read"]
      /\ rows' = [rows EXCEPT ![b] = F]
      /\ UNCHANGED <<seq, log, open, cursor, lockedBy, top, applied>>
  BY DEF ReadRows, writers
<1>2. lockedBy = b /\ \A c \in Batcher \ {b} : pc[c] = "none"
  BY <1>1, OthersOutside
<1>3. \A c \in Batcher : pc'[c] = IF c = b THEN "read" ELSE "none"
  BY <1>1, <1>2 DEF TypeOK
<1>4. S \in SUBSET Seqs /\ S \in SUBSET log
  BY DEF TypeOK
<1>5. BatchSize \in Nat \ {0}
  BY ProjectionAssumption
<1>6. /\ F \in SUBSET S
      /\ \A s \in F, r \in S : r <= s => r \in F
      /\ Cardinality(F) # BatchSize => F = S
  BY <1>4, <1>5, FirstRows
<1>7. \A s \in S : s \in log /\ s \in Nat /\ s > cursor /\ s <= top[b]
  BY <1>4, SeqsNat
<1>8. \A s \in log : s \in Nat /\ (s > cursor /\ s <= top[b] => s \in S)
  BY SeqsNat DEF TypeOK
<1>9. cursor \in Nat /\ top[b] \in Nat
  BY ProjectionAssumption DEF TypeOK
<1> HIDE DEF S, F
<1>10. rows'[b] = F
  BY <1>1 DEF TypeOK
<1>11. TypeOK'
  BY <1>1, <1>4, <1>6 DEF TypeOK
<1>12. Drawn' /\ Turns' /\ ReadModelIsExact'
  BY <1>1 DEF Drawn, Turns, ReadModelIsExact
<1>13. Marks' /\ Locked'
  <2>1. top[b] \in log \cup {0} /\ cursor \in log \cup {0}
    BY <1>1 DEF Marks
  <2>2. F \subseteq log
    BY <1>4, <1>6
  <2> QED
    BY <1>1, <1>2, <1>3, <1>10, <2>1, <2>2 DEF Marks, Locked
<1>14. BatchIsNext'
  <2> DEFINE N == IF Cardinality(F) = BatchSize THEN MaxOf(F) ELSE top[b]
  <2> SUFFICES ASSUME F # {} PROVE N > cursor /\ F = {s \in log : s > cursor /\ s <= N}
    <3>1. NextPosition(b)' = N
      BY <1>1, <1>10 DEF NextPosition
    <3>2. \A c \in Batcher : pc'[c] = "read" => c = b
      BY <1>3
    <3> HIDE DEF N
    <3> QED
      BY <1>1, <1>10, <3>1, <3>2 DEF BatchIsNext
  <2>1. PICK f \in F : TRUE
    OBVIOUS
  <2>2. CASE Cardinality(F) = BatchSize
    <3>1. MaxOf(F) \in F /\ \A m \in F : m <= MaxOf(F)
      BY <1>4, <1>6, GreatestElement
    <3>2. MaxOf(F) \in S
      BY <1>6, <3>1
    <3>3. MaxOf(F) \in Nat /\ MaxOf(F) > cursor /\ MaxOf(F) <= top[b]
      BY <1>7, <3>2
    <3>4. ASSUME NEW s \in log, s > cursor, s <= MaxOf(F) PROVE s \in F
      <4>1. s \in S
        BY <1>8, <1>9, <3>3, <3>4
      <4> QED
        BY <1>6, <3>1, <3>4, <4>1
    <3>5. ASSUME NEW s \in F PROVE s \in log /\ s > cursor /\ s <= MaxOf(F)
      BY <1>6, <1>7, <3>1
    <3>6. F = {s \in log : s > cursor /\ s <= MaxOf(F)}
      BY <3>4, <3>5
    <3> QED
      BY <2>2, <3>3, <3>6
  <2>3. CASE Cardinality(F) # BatchSize
    <3>1. F = S
      BY <1>6, <2>3
    <3>2. top[b] > cursor
      BY <1>7, <1>9, <2>1, <3>1
    <3>3. F = {s \in log : s > cursor /\ s <= top[b]}
      BY <3>1 DEF S
    <3> QED
      BY <1>9, <2>3, <3>2, <3>3
  <2> QED
    BY <2>2, <2>3
<1> QED
  BY <1>11, <1>12, <1>13, <1>14

\* The end of a batch, whichever way: nobody is in one.
LEMMA EndBatchClears ==
    ASSUME TypeOK, Locked, NEW b \in Batcher, pc[b] # "none", EndBatch(b)
    PROVE  /\ \A c \in Batcher : pc'[c] = "none"
           /\ lockedBy' \in Batcher \cup {Nobody}
           /\ pc' \in [Batcher -> {"none", "locked", "topped", "read"}]
           /\ top' \in [Batcher -> 0..MaxSeq] /\ rows' \in [Batcher -> SUBSET Seqs]
<1>1. /\ lockedBy' = Nobody /\ pc' = [pc EXCEPT ![b] = "none"]
      /\ top' = [top EXCEPT ![b] = 0] /\ rows' = [rows EXCEPT ![b] = {}]
  BY DEF EndBatch
<1>2. \A c \in Batcher : pc'[c] = "none"
  BY <1>1, OthersOutside DEF TypeOK
<1>3. 0 \in 0..MaxSeq
  BY ProjectionAssumption
<1> QED
  BY <1>1, <1>2, <1>3 DEF TypeOK

\* A batch commits: what it applied is what lies between the old cursor and the new.
LEMMA CommitBatchInv == ASSUME IndInv, NEW b \in Batcher, CommitBatch(b) PROVE IndInv'
<1> USE DEF IndInv
<1>1. /\ pc[b] = "read" /\ EndBatch(b) /\ UNCHANGED <<seq, log, open>>
      /\ applied' = [s \in Seqs |-> IF s \in rows[b] THEN applied[s] + 1 ELSE applied[s]]
      /\ cursor' = IF rows[b] = {} THEN cursor ELSE NextPosition(b)
  BY DEF CommitBatch, writers
<1>2. /\ \A c \in Batcher : pc'[c] = "none"
      /\ lockedBy' \in Batcher \cup {Nobody}
      /\ pc' \in [Batcher -> {"none", "locked", "topped", "read"}]
      /\ top' \in [Batcher -> 0..MaxSeq] /\ rows' \in [Batcher -> SUBSET Seqs]
  BY <1>1, EndBatchClears
<1>3. cursor' \in log \cup {0} /\ cursor' \in 0..MaxSeq
  <2>1. cursor \in log \cup {0} /\ cursor \in 0..MaxSeq
    BY DEF Marks, TypeOK
  <2>2. rows[b] # {} => NextPosition(b) \in log \cup {0} /\ NextPosition(b) \in 0..MaxSeq
    BY <1>1, NextIsCommitted
  <2> QED
    BY <1>1, <2>1, <2>2
<1>4. TypeOK'
  <2>1. applied' \in [Seqs -> Nat]
    BY <1>1 DEF TypeOK
  <2> QED
    BY <1>1, <1>2, <1>3, <2>1 DEF TypeOK
<1>5. Drawn' /\ Turns'
  BY <1>1 DEF Drawn, Turns
<1>6. Marks' /\ Locked' /\ BatchIsNext'
  BY <1>1, <1>2, <1>3 DEF Marks, Locked, BatchIsNext
<1>7. ReadModelIsExact'
  <2> SUFFICES ASSUME NEW s \in Seqs
               PROVE  applied'[s] = IF s \in log /\ s <= cursor' THEN 1 ELSE 0
    BY <1>1 DEF ReadModelIsExact
  <2>1. applied[s] = IF s \in log /\ s <= cursor THEN 1 ELSE 0
    BY DEF ReadModelIsExact
  <2>2. applied'[s] = IF s \in rows[b] THEN applied[s] + 1 ELSE applied[s]
    BY <1>1
  <2>3. CASE rows[b] = {}
    BY <1>1, <2>1, <2>2, <2>3
  <2>4. CASE rows[b] # {}
    <3>1. /\ cursor' > cursor
          /\ rows[b] = {r \in log : r > cursor /\ r <= cursor'}
      BY <1>1, <2>4 DEF BatchIsNext
    <3>2. s \in Nat /\ cursor \in Nat /\ cursor' \in Nat
      BY <1>3, SeqsNat, ProjectionAssumption DEF TypeOK
    <3>3. CASE s \in rows[b]
      BY <2>1, <2>2, <3>1, <3>2, <3>3
    <3>4. CASE s \notin rows[b]
      BY <2>1, <2>2, <3>1, <3>2, <3>4
    <3> QED
      BY <3>3, <3>4
  <2> QED
    BY <2>3, <2>4
<1> QED
  BY <1>4, <1>5, <1>6, <1>7

\* A batch that fails leaves the read model and the cursor as they were.
LEMMA FailBatchInv == ASSUME IndInv, NEW b \in Batcher, FailBatch(b) PROVE IndInv'
<1> USE DEF IndInv
<1>1. pc[b] # "none" /\ EndBatch(b) /\ UNCHANGED <<seq, log, open, cursor, applied>>
  BY DEF FailBatch, writers
<1>2. /\ \A c \in Batcher : pc'[c] = "none"
      /\ lockedBy' \in Batcher \cup {Nobody}
      /\ pc' \in [Batcher -> {"none", "locked", "topped", "read"}]
      /\ top' \in [Batcher -> 0..MaxSeq] /\ rows' \in [Batcher -> SUBSET Seqs]
  BY <1>1, EndBatchClears
<1>3. TypeOK'
  BY <1>1, <1>2 DEF TypeOK
<1>4. Drawn' /\ Turns' /\ ReadModelIsExact'
  BY <1>1 DEF Drawn, Turns, ReadModelIsExact
<1>5. Marks' /\ Locked' /\ BatchIsNext'
  BY <1>1, <1>2 DEF Marks, Locked, BatchIsNext
<1> QED
  BY <1>3, <1>4, <1>5

\* A reset finds no batch under way.
LEMMA ResetInv == ASSUME IndInv, Reset PROVE IndInv'
<1> USE DEF IndInv
<1>1. /\ lockedBy = Nobody /\ applied' = [s \in Seqs |-> 0] /\ cursor' = 0
      /\ UNCHANGED <<seq, log, open, lockedBy, pc, top, rows>>
  BY DEF Reset, Cleared, writers
<1>2. \A c \in Batcher : pc'[c] = "none"
  BY <1>1, ProjectionAssumption DEF Locked
<1>3. TypeOK'
  BY <1>1, ProjectionAssumption DEF TypeOK
<1>4. Drawn' /\ Turns'
  BY <1>1 DEF Drawn, Turns
<1>5. Marks' /\ Locked' /\ BatchIsNext'
  BY <1>1, <1>2 DEF Marks, Locked, BatchIsNext
<1>6. ReadModelIsExact'
  <2>1. \A s \in Seqs : applied'[s] = 0 /\ ~(s <= cursor')
    BY <1>1, SeqsNat
  <2> QED
    BY <2>1 DEF ReadModelIsExact
<1> QED
  BY <1>3, <1>4, <1>5, <1>6

\* Every step keeps the invariant.
LEMMA NextInv == IndInv /\ [Next]_vars => IndInv'
<1> SUFFICES ASSUME IndInv, [Next]_vars PROVE IndInv'
  OBVIOUS
<1>1. ASSUME NEW w \in Writer, Write(w) \/ Commit(w) \/ Rollback(w) PROVE IndInv'
  BY <1>1, WriteInv, CommitInv, RollbackInv
<1>2. ASSUME NEW b \in Batcher,
             LockCursor(b) \/ ReadTop(b) \/ ReadRows(b) \/ CommitBatch(b) \/ FailBatch(b)
      PROVE  IndInv'
  BY <1>2, LockCursorInv, ReadTopInv, ReadRowsInv, CommitBatchInv, FailBatchInv
<1>3. CASE Reset
  BY <1>3, ResetInv
<1>4. CASE UNCHANGED vars
  BY <1>4 DEF vars, IndInv, TypeOK, Drawn, Turns, Marks, Locked, BatchIsNext, ReadModelIsExact,
              NextPosition
<1> QED
  BY <1>1, <1>2, <1>3, <1>4 DEF Next
-----------------------------------------------------------------------------
\* The inductive invariant of the projection, the log and the writers, for any number of each.
THEOREM Invariance == Spec => []IndInv
<1>1. Init => IndInv
  BY InitInv
<1>2. IndInv /\ [Next]_vars => IndInv'
  BY NextInv
<1> QED
  BY <1>1, <1>2, PTL DEF Spec

\* The log, the cursor row and the batches' variables keep their types.
THEOREM Typing == Spec => []TypeOK
<1>1. IndInv => TypeOK
  BY DEF IndInv
<1> QED
  BY <1>1, Invariance, PTL

\* Every committed event up to the cursor is in the read model exactly once and none beyond it,
\* whatever commits, fails or is reset meanwhile (createCatchUp on the built-in log).
THEOREM ReadModelExact == Spec => []ReadModelIsExact
<1>1. IndInv => ReadModelIsExact
  BY DEF IndInv
<1> QED
  BY <1>1, Invariance, PTL

\* What a batch has read stays what follows the cursor until it commits (after, batchFor).
THEOREM BatchesAreNext == Spec => []BatchIsNext
<1>1. IndInv => BatchIsNext
  BY DEF IndInv
<1> QED
  BY <1>1, Invariance, PTL

\* Only a reset moves the cursor back, so that with ReadModelExact no event leaves the read model otherwise.
THEOREM OnlyResetRewinds == Spec => [][cursor' >= cursor \/ Reset]_vars
<1>1. IndInv /\ [Next]_vars => [cursor' >= cursor \/ Reset]_vars
  <2> SUFFICES ASSUME IndInv, Next PROVE cursor' >= cursor \/ Reset
    OBVIOUS
  <2>1. cursor \in Nat
    BY ProjectionAssumption DEF IndInv, TypeOK
  <2>2. ASSUME NEW b \in Batcher, CommitBatch(b) PROVE cursor' >= cursor
    <3>1. CASE rows[b] = {}
      BY <2>1, <2>2, <3>1 DEF CommitBatch
    <3>2. CASE rows[b] # {}
      <4>1. pc[b] = "read" /\ cursor' = NextPosition(b)
        BY <2>2, <3>2 DEF CommitBatch
      <4>2. NextPosition(b) > cursor /\ NextPosition(b) \in 0..MaxSeq
        BY <3>2, <4>1, NextIsCommitted DEF IndInv, BatchIsNext
      <4> QED
        BY <2>1, <4>1, <4>2, ProjectionAssumption
    <3> QED
      BY <3>1, <3>2
  <2>3. ASSUME NEW b \in Batcher, LockCursor(b) \/ ReadTop(b) \/ ReadRows(b) \/ FailBatch(b)
        PROVE  cursor' = cursor
    BY <2>3 DEF LockCursor, ReadTop, ReadRows, FailBatch
  <2>4. ASSUME NEW w \in Writer, Write(w) \/ Commit(w) \/ Rollback(w) PROVE cursor' = cursor
    BY <2>4 DEF Write, Commit, Rollback
  <2> QED
    BY <2>1, <2>2, <2>3, <2>4 DEF Next
<1> QED
  BY <1>1, Invariance, PTL DEF Spec
=============================================================================
