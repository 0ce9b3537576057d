--------------------------- MODULE ForwardLaneProofs ---------------------------
(***************************************************************************)
(* The forward lane keeps its promises for any number of workers, writes   *)
(* and faults and any batch size: in every circumstance the log has no     *)
(* hole and no committed version is lost; where operators and others keep  *)
(* off, the log is a prefix of what was committed, whole writes only.      *)
(*                                                                         *)
(* Appends are fenced by versions, not by leases: what a stale worker      *)
(* appends is either the next batch or already there (Numbered, WorkOK).   *)
(* In the lane that is kept to itself the jobs in the table are the last   *)
(* writes, only the first of them may be in the log already (TableIsTail), *)
(* and so whatever a create reads, jobs first and then the log, is where   *)
(* the history ends (WriterSees).                                          *)
(***************************************************************************)
EXTENDS ForwardLane, SequenceTheorems, WellFoundedInduction, TLAPS

\* Nobody but writers, workers and retrying operators touches the lane.
Kept == odd \subseteq {"legacy"}

\* Where the committed history ends.
End == IF history = <<>> THEN 0 ELSE Ends(Len(history))

\* The log holds the versions from 1 up to its top.
Numbered == NoHole /\ LogTop \in Nat

\* A writer that has begun may commit; once it has read the log it knows a version.
WriterOK == /\ writer.step # "idle" => MayWrite
            /\ writer.step = "log" => writer.seen # None

\* What a worker has learnt of the log stays true.
WorkOK == \A w \in Worker :
    /\ work[w].job = 0 <=> work[w].step = "idle"
    /\ work[w].step = "clear" => history[work[w].job].base <= LogTop
    /\ work[w].step = "landed" => Carries(work[w].job) \subseteq Versions

\* Each write follows the one before it.
InTurn == /\ \A i, j \in 1..Len(history) : i < j => Ends(i) <= history[j].base
          /\ \A i \in 2..Len(history) : history[i].base = Ends(i - 1)

\* A row that was written is at the end of the history.
RowIsEnd == \/ row = NoRow
            \/ row = 0 /\ history = <<>>
            \/ row = End /\ history # <<>>

\* A writer saw the end of the history, or is about to read it in the log.
WriterSees == writer.step # "idle" =>
                 \/ writer.seen = End
                 \/ writer.step = "jobs" /\ writer.seen = None /\ hot = {}

\* The jobs in the table are the last writes; only the first of them may have landed, and no worker runs a later one.
TableIsTail == /\ \A i \in hot, j \in 1..Len(history) : i < j => j \in hot
               /\ \A i, j \in hot : i < j => LogTop <= history[j].base
               /\ \A w \in Worker, j \in hot : work[w].job <= j

\* The log holds whole writes only, each event under its own version, and no append is ever refused.
Whole == /\ LogTop <= End
         /\ \A i \in 1..Len(history) : LogTop <= history[i].base \/ Ends(i) <= LogTop
         /\ \A e \in log : e.write # 0 /\ e.version \in Carries(e.write)
         /\ \A w \in Worker : work[w].step # "diverged"

Lane == InTurn /\ RowIsEnd /\ WriterSees /\ TableIsTail /\ Whole
IndInv == TypeOK /\ WriterOK /\ WorkOK /\ Numbered /\ NothingLost /\ (Kept => Lane)
-----------------------------------------------------------------------------
(* Greatest elements *)

\* A nonempty set of naturals has a least element.
LEMMA LeastElement ==
    ASSUME NEW S \in SUBSET Nat, S # {}
    PROVE  \E n \in S : \A m \in S : n <= m
<1> DEFINE R == OpToRel(<, Nat)
<1>1. IsWellFoundedOn(R, Nat)
  BY NatLessThanWellFounded
<1>2. \A a, b \in Nat : a < b => <<a, b>> \in R
  BY DEF OpToRel
<1> HIDE DEF R
<1>3. PICK n \in S : \A m \in S : ~ (<<m, n>> \in R)
  BY <1>1, WFMin
<1>4. ASSUME NEW m \in S PROVE n <= m
  <2>1. m \in Nat /\ n \in Nat
    OBVIOUS
  <2>2. ~ (m < n)
    BY <1>2, <1>3, <2>1, Zenon
  <2> QED
    BY <2>1, <2>2
<1> QED
  BY <1>4

\* Induction over the naturals, for a set.
LEMMA SetInduction ==
    ASSUME NEW S \in SUBSET Nat, 0 \in S, \A n \in S : n + 1 \in S
    PROVE  \A n \in Nat : n \in S
<1> SUFFICES ASSUME Nat \ S # {} PROVE FALSE
  OBVIOUS
<1>1. PICK n \in Nat \ S : \A m \in Nat \ S : n <= m
  BY LeastElement
<1>2. n # 0 /\ n \in Nat /\ n - 1 \in Nat /\ ~(n <= n - 1)
  BY <1>1
<1>3. n - 1 \in S
  BY <1>1, <1>2
<1>4. (n - 1) + 1 = n
  BY <1>2
<1> QED
  BY <1>1, <1>3, <1>4

\* A nonempty bounded set of naturals has a greatest element.
LEMMA GreatestElement ==
    ASSUME NEW S \in SUBSET Nat, S # {}, NEW b \in Nat, \A n \in S : n <= b
    PROVE  \E n \in S : \A m \in S : m <= n
<1> DEFINE D == {b - n : n \in S}
<1>0. \A n \in S : b - n \in Nat
  OBVIOUS
<1>1. D \subseteq Nat /\ D # {}
  BY <1>0
<1> HIDE DEF D
<1>2. PICK d \in D : \A e \in D : d <= e
  BY <1>1, LeastElement
<1> USE DEF D
<1>3. PICK n \in S : d = b - n
  BY <1>2
<1>4. ASSUME NEW m \in S PROVE m <= n
  <2>1. b - m \in D
    OBVIOUS
  <2>2. b - n <= b - m /\ n \in Nat /\ m \in Nat
    BY <1>2, <1>3, <2>1
  <2> QED
    BY <2>2
<1> QED
  BY <1>4

\* Max is the greatest element where there is one.
LEMMA MaxIs ==
    ASSUME NEW S \in SUBSET Int, NEW n \in S, \A m \in S : m <= n
    PROVE  Max(S) = n
<1>1. \A y \in S : n >= y
  OBVIOUS
<1>2. Max(S) \in S /\ \A y \in S : Max(S) >= y
  BY <1>1 DEF Max
<1>3. Max(S) \in Int /\ n \in Int /\ Max(S) >= n /\ Max(S) <= n
  BY <1>2
<1> QED
  BY <1>3
-----------------------------------------------------------------------------
(* The log and the history *)

\* highestVersion of a log without holes.
LEMMA TopIs ==
    ASSUME NEW n \in Nat, Versions = 1..n
    PROVE  LogTop = n
<1>1. Versions \cup {0} \in SUBSET Int /\ n \in Versions \cup {0} /\ \A m \in Versions \cup {0} : m <= n
  OBVIOUS
<1> QED
  BY <1>1, MaxIs DEF LogTop

\* The same after a step.
LEMMA TopIsNext ==
    ASSUME NEW n \in Nat, Versions' = 1..n
    PROVE  LogTop' = n
<1>1. (Versions \cup {0})' \in SUBSET Int /\ n \in (Versions \cup {0})' /\ \A m \in (Versions \cup {0})' : m <= n
  OBVIOUS
<1>2. Max((Versions \cup {0})') = n
  BY <1>1, MaxIs
<1> QED
  BY <1>2 DEF LogTop

\* A write's versions.
LEMMA WriteFacts ==
    ASSUME TypeOK, NEW i \in 1..Len(history)
    PROVE  /\ history[i].base \in Nat /\ history[i].size \in Nat \ {0} /\ history[i].size \in 1..MaxBatch
           /\ Ends(i) = history[i].base + history[i].size
           /\ Ends(i) \in Nat \ {0} /\ history[i].base < Ends(i)
           /\ Carries(i) = (history[i].base + 1)..Ends(i)
           /\ Ends(i) \in Carries(i) /\ Carries(i) \subseteq Nat \ {0}
           /\ i \in Write
<1>1. history[i] \in [base : Nat, size : 1..MaxBatch]
  BY ElementOfSeq DEF TypeOK
<1>2. history[i].base \in Nat /\ history[i].size \in Nat \ {0} /\ history[i].size \in 1..MaxBatch
  BY <1>1, LaneAssumption
<1>3. i \in Write
  BY LaneAssumption DEF TypeOK, Write
<1> QED
  BY <1>2, <1>3 DEF Ends, Carries

\* pendingTop is None when nothing is pending, else where some pending job ends.
LEMMA PendingTopFacts ==
    ASSUME TypeOK
    PROVE  /\ hot = {} => PendingTop = None
           /\ hot # {} => \E i \in hot : PendingTop = Ends(i) /\ \A j \in hot : Ends(j) <= Ends(i)
<1> DEFINE E == {Ends(i) : i \in hot}
<1>1. CASE hot = {}
  <2>1. E \cup {None} = {None} /\ None \in Int
    BY <1>1 DEF None
  <2>2. Max({None}) = None
    BY <2>1, MaxIs
  <2> QED
    BY <1>1, <2>1, <2>2 DEF PendingTop
<1>2. CASE hot # {}
  <2>1. \A i \in hot : i \in 1..Len(history) /\ Ends(i) \in Nat
    BY WriteFacts DEF TypeOK
  <2>2. Len(history) \in Nat
    BY LenProperties DEF TypeOK
  <2> DEFINE B == {n \in Nat : \E b \in Nat : \A i \in hot : i <= n => Ends(i) <= b}
  <2>3. 0 \in B
    BY <2>1, <2>2
  <2>4. ASSUME NEW n \in B PROVE n + 1 \in B
    <3>1. PICK b \in Nat : \A i \in hot : i <= n => Ends(i) <= b
      BY <2>4
    <3>2. CASE n + 1 \in hot
      <4>1. b + Ends(n + 1) \in Nat
        BY <2>1, <3>2
      <4>2. ASSUME NEW i \in hot, i <= n + 1 PROVE Ends(i) <= b + Ends(n + 1)
        <5>1. CASE i = n + 1
          BY <2>1, <3>2, <5>1
        <5>2. CASE i # n + 1
          <6>1. i <= n
            BY <2>1, <2>2, <4>2, <5>2
          <6> QED
            BY <2>1, <3>1, <3>2, <6>1
        <5> QED
          BY <5>1, <5>2
      <4> QED
        BY <4>1, <4>2
    <3>3. CASE n + 1 \notin hot
      <4>1. \A i \in hot : i <= n + 1 => i <= n
        BY <2>1, <2>2, <3>3
      <4> QED
        BY <3>1, <4>1
    <3> QED
      BY <3>2, <3>3
  <2> HIDE DEF B
  <2>5. Len(history) \in B
    BY <2>2, <2>3, <2>4, SetInduction DEF B
  <2>6. PICK b \in Nat : \A i \in hot : i <= Len(history) => Ends(i) <= b
    BY <2>5 DEF B
  <2>7. E \in SUBSET Nat /\ E # {} /\ \A n \in E : n <= b
    BY <1>2, <2>1, <2>2, <2>6
  <2>8. PICK n \in E : \A m \in E : m <= n
    BY <2>7, GreatestElement
  <2>9. /\ E \cup {None} \in SUBSET Int /\ n \in E \cup {None}
        /\ \A m \in E \cup {None} : m <= n
    BY <2>7, <2>8 DEF None
  <2>10. PendingTop = n
    BY <2>9, MaxIs DEF PendingTop
  <2> QED
    BY <2>8, <2>10, <1>2
<1> QED
  BY <1>1, <1>2
-----------------------------------------------------------------------------
(* Frames *)

\* What depends on the history and the circumstances only.
LEMMA SameHistory ==
    ASSUME UNCHANGED <<history, odd>>
    PROVE  /\ \A i : Ends(i)' = Ends(i)
           /\ \A i : Carries(i)' = Carries(i)
           /\ MayWrite' <=> MayWrite
           /\ End' = End
           /\ Kept' <=> Kept
           /\ InTurn' <=> InTurn
BY DEF Ends, Carries, MayWrite, End, Kept, InTurn

\* What depends on the log only.
LEMMA SameLog ==
    ASSUME UNCHANGED log
    PROVE  Versions' = Versions /\ LogTop' = LogTop /\ (NoHole' <=> NoHole)
BY DEF Versions, LogTop, NoHole

\* A version is in a log without holes when it is not above the top.
LEMMA InLog ==
    ASSUME Numbered, NEW n \in Nat \ {0}
    PROVE  n \in Versions <=> n <= LogTop
BY DEF Numbered, NoHole

\* A step of workers or operators that moves neither jobs nor events: only their own progress is at stake.
LEMMA LaneStays ==
    ASSUME IndInv, UNCHANGED <<row, writer, history, hot, archive, log, odd>>, TypeOK', WorkOK',
           Kept => \A w \in Worker : /\ \A j \in hot : work'[w].job <= j
                                     /\ work'[w].step # "diverged"
    PROVE  IndInv'
<1> USE DEF IndInv
<1>1. WriterOK'
  BY SameHistory DEF WriterOK
<1>2. Numbered'
  BY SameLog DEF Numbered
<1>3. NothingLost'
  BY SameLog, SameHistory DEF NothingLost
<1>4. ASSUME Kept PROVE Lane'
  <2>1. Lane
    BY <1>4
  <2>2. InTurn'
    BY <2>1, SameHistory DEF Lane
  <2>3. RowIsEnd' /\ WriterSees'
    BY <2>1, SameHistory DEF Lane, RowIsEnd, WriterSees
  <2>4. TableIsTail'
    BY <2>1, <1>4, SameLog DEF Lane, TableIsTail
  <2>5. Whole'
    BY <2>1, <1>4, SameLog, SameHistory DEF Lane, Whole
  <2> QED
    BY <2>2, <2>3, <2>4, <2>5 DEF Lane
<1> QED
  BY <1>1, <1>2, <1>3, <1>4, SameHistory

\* A job leaves the table: its events are in the log, or it was purged.
LEMMA LaneLeave ==
    ASSUME IndInv, UNCHANGED <<row, writer, history, log, odd>>, TypeOK', WorkOK',
           NEW i \in hot, hot' = hot \ {i}, archive' = archive \cup {i},
           Carries(i) \subseteq Versions \/ "purges" \in odd,
           \A w \in Worker : work'[w] \in {work[w], Idle}
    PROVE  IndInv'
<1> USE DEF IndInv
<1>1. WriterOK'
  BY SameHistory DEF WriterOK
<1>2. Numbered'
  BY SameLog DEF Numbered
<1>3. NothingLost'
  <2> SUFFICES ASSUME NEW k \in 1..Len(history)
               PROVE  k \in hot' \/ Carries(k) \subseteq Versions \/ ("purges" \in odd /\ k \in archive')
    BY SameHistory, SameLog DEF NothingLost
  <2> QED
    BY DEF NothingLost
<1>4. ASSUME Kept PROVE Lane'
  <2>1. Lane /\ Carries(i) \subseteq Versions
    BY <1>4 DEF Kept
  <2>2. InTurn'
    BY <2>1, SameHistory DEF Lane
  <2>3. RowIsEnd' /\ WriterSees'
    BY <2>1, SameHistory DEF Lane, RowIsEnd, WriterSees
  <2>4. \A k \in hot : k \in 1..Len(history) /\ k \in Nat
    BY LenProperties DEF TypeOK
  <2>5. Ends(i) <= LogTop /\ ~(LogTop <= history[i].base)
    <3>1. Ends(i) \in Versions /\ Ends(i) \in Nat \ {0} /\ history[i].base < Ends(i) /\ history[i].base \in Nat
      BY <2>1, <2>4, WriteFacts
    <3> QED
      BY <3>1, InLog DEF Numbered
  <2>6. \A k \in hot : i <= k
    BY <2>1, <2>4, <2>5 DEF Lane, TableIsTail
  <2>7. TableIsTail'
    <3>1. ASSUME NEW k \in hot', NEW j \in 1..Len(history), k < j PROVE j \in hot'
      <4>1. j \in hot /\ i <= k /\ k \in hot /\ i \in Nat /\ k \in Nat /\ j \in Nat
        BY <2>1, <2>4, <2>6, <3>1 DEF Lane, TableIsTail
      <4> QED
        BY <4>1, <3>1
    <3>2. \A k, j \in hot' : k < j => LogTop <= history[j].base
      BY <2>1 DEF Lane, TableIsTail
    <3>3. ASSUME NEW w \in Worker, NEW j \in hot' PROVE work'[w].job <= j
      BY <2>1, <2>4, <3>3 DEF Lane, TableIsTail, Idle
    <3> QED
      BY <3>1, <3>2, <3>3, SameLog DEF TableIsTail
  <2>8. Whole'
    <3>1. \A w \in Worker : work'[w].step # "diverged"
      BY <2>1 DEF Lane, Whole, Idle
    <3> QED
      BY <2>1, <3>1, SameLog, SameHistory DEF Lane, Whole
  <2> QED
    BY <2>2, <2>3, <2>7, <2>8 DEF Lane
<1> QED
  BY <1>1, <1>2, <1>3, <1>4, SameHistory
-----------------------------------------------------------------------------
(* Writers *)

\* A commit adds one write and leaves the earlier ones as they were.
LEMMA CommitHistory ==
    ASSUME TypeOK, MayWrite, NEW base \in Nat, NEW n \in 1..MaxBatch,
           history' = Append(history, [base |-> base, size |-> n])
    PROVE  /\ Len(history) \in Nat /\ Len(history') = Len(history) + 1 /\ Len(history') \in Write
           /\ history' \in Seq([base : Nat, size : 1..MaxBatch]) /\ history' # <<>>
           /\ history'[Len(history) + 1].base = base
           /\ \A i : i = Len(history) + 1 => Ends(i)' = base + n /\ Carries(i)' = (base + 1)..(base + n)
           /\ \A i \in 1..Len(history) : /\ history'[i] = history[i]
                                         /\ Ends(i)' = Ends(i) /\ Carries(i)' = Carries(i)
           /\ End' = base + n
<1> DEFINE h == [base |-> base, size |-> n]
<1>1. h \in [base : Nat, size : 1..MaxBatch] /\ history \in Seq([base : Nat, size : 1..MaxBatch])
  BY DEF TypeOK
<1>2. Len(history) \in Nat
  BY <1>1, LenProperties
<1>3. /\ history' \in Seq([base : Nat, size : 1..MaxBatch]) /\ Len(history') = Len(history) + 1
      /\ \A i \in 1..Len(history) : history'[i] = history[i]
      /\ history'[Len(history) + 1] = h
  BY <1>1, AppendProperties
<1>4. history' # <<>>
  BY <1>2, <1>3, EmptySeq
<1>5. Len(history') \in Write
  BY <1>2, <1>3, LaneAssumption DEF MayWrite, Write
<1>6. \A i : i = Len(history) + 1 => Ends(i)' = base + n /\ Carries(i)' = (base + 1)..(base + n)
  BY <1>3 DEF Ends, Carries
<1>7. \A i \in 1..Len(history) : Ends(i)' = Ends(i) /\ Carries(i)' = Carries(i)
  BY <1>3 DEF Ends, Carries
<1>8. End' = base + n
  BY <1>3, <1>4, <1>6 DEF End, Ends
<1> QED
  BY <1>2, <1>3, <1>4, <1>5, <1>6, <1>7, <1>8

\* A commit keeps the lane when it follows the end of the history.
LEMMA CommitStep ==
    ASSUME IndInv, MayWrite, NEW base \in Nat, NEW n \in 1..MaxBatch, NEW gone \in BOOLEAN,
           Commit(base, n, gone), writer' \in {writer, Quiet}, writer'.step = "idle",
           Kept => history = <<>> \/ base = End
    PROVE  IndInv'
<1> USE DEF IndInv
<1> DEFINE l == Len(history)
<1>h. /\ l \in Nat /\ Len(history') = l + 1 /\ Len(history') \in Write
      /\ history' \in Seq([base : Nat, size : 1..MaxBatch]) /\ history' # <<>>
      /\ history'[l + 1].base = base
      /\ \A i : i = l + 1 => Ends(i)' = base + n /\ Carries(i)' = (base + 1)..(base + n)
      /\ \A i \in 1..l : history'[i] = history[i] /\ Ends(i)' = Ends(i) /\ Carries(i)' = Carries(i)
      /\ End' = base + n
  BY CommitHistory DEF Commit
<1>n. n \in Nat \ {0}
  BY LaneAssumption
<1>log. Versions' = Versions /\ LogTop' = LogTop /\ (NoHole' <=> NoHole)
  BY SameLog DEF Commit
<1>in. \A i \in 1..Len(history') : i \in 1..l \/ i = l + 1
  BY <1>h
<1>1. TypeOK'
  <2>1. row' \in Nat \cup {NoRow}
    BY <1>n DEF Commit, NoRow
  <2>2. writer' \in [step : {"idle", "jobs", "log"}, adopts : BOOLEAN, seen : Nat \cup {None}]
    <3>1. Quiet \in [step : {"idle", "jobs", "log"}, adopts : BOOLEAN, seen : Nat \cup {None}]
      BY DEF Quiet
    <3> QED
      BY <3>1 DEF TypeOK
  <2>3. hot' \subseteq 1..Len(history') /\ dead' \subseteq hot' /\ archive' \subseteq 1..Len(history')
    <3>1. 1..l \subseteq 1..Len(history') /\ l + 1 \in 1..Len(history')
      BY <1>h
    <3> QED
      BY <3>1 DEF TypeOK, Commit
  <2>4. log' \subseteq [version : Nat \ {0}, write : 0..Len(history')]
    <3>1. 0..l \subseteq 0..Len(history')
      BY <1>h
    <3> QED
      BY <3>1 DEF TypeOK, Commit
  <2>5. work' \in [Worker -> [job : 0..Len(history'),
                              step : {"idle", "claimed", "clear", "landed", "behind", "diverged", "failed"}]]
    <3>1. 0..l \subseteq 0..Len(history')
      BY <1>h
    <3> QED
      BY <3>1 DEF TypeOK, Commit
  <2>6. /\ lease' \in [Write -> Worker \cup {Nobody}]
        /\ lapsed' \subseteq {i \in Write : lease'[i] # Nobody}
        /\ {i \in Write : lease'[i] # Nobody} \subseteq hot' \ dead'
        /\ odd' \in Circumstances /\ faults' \in 0..MaxFaults
    BY DEF TypeOK, Commit
  <2> QED
    BY <1>h, <2>1, <2>2, <2>3, <2>4, <2>5, <2>6 DEF TypeOK
<1>2. WriterOK'
  BY DEF WriterOK
<1>3. WorkOK'
  <2> SUFFICES ASSUME NEW w \in Worker, NEW k, k = work[w].job
               PROVE  /\ k = 0 <=> work[w].step = "idle"
                      /\ work[w].step = "clear" => history'[k].base <= LogTop
                      /\ work[w].step = "landed" => Carries(k)' \subseteq Versions
    BY <1>log DEF WorkOK, Commit
  <2>1. k \in 0..l
    BY DEF TypeOK
  <2>2. /\ k = 0 <=> work[w].step = "idle"
        /\ work[w].step = "clear" => history[k].base <= LogTop
        /\ work[w].step = "landed" => Carries(k) \subseteq Versions
    BY DEF WorkOK
  <2>3. CASE k = 0
    BY <2>2, <2>3
  <2>4. CASE k # 0
    <3>1. k \in 1..l
      BY <1>h, <2>1, <2>4
    <3> QED
      BY <1>h, <2>2, <3>1
  <2> QED
    BY <2>3, <2>4
<1>4. Numbered'
  BY <1>log DEF Numbered
<1>5. NothingLost'
  BY <1>h, <1>log, <1>in DEF NothingLost, Commit
<1>6. ASSUME Kept PROVE Lane'
  <2>1. Lane /\ (history = <<>> \/ base = End)
    BY <1>6
  <2>2. LogTop <= base /\ LogTop \in Nat
    BY <2>1 DEF Lane, Whole, End, Numbered
  <2>3. \A i \in 1..l : Ends(i) <= base
    <3> SUFFICES ASSUME NEW i \in 1..l PROVE Ends(i) <= base
      OBVIOUS
    <3>1. base = Ends(l)
      BY <2>1, <1>h DEF End
    <3>2. l \in 1..l /\ i \in Nat
      BY <1>h
    <3>3. Ends(i) \in Nat /\ Ends(l) \in Nat /\ history[l].base < Ends(l) /\ history[l].base \in Nat
      BY <3>2, WriteFacts
    <3>4. CASE i = l
      BY <3>1, <3>3, <3>4
    <3>5. CASE i # l
      <4>1. i < l
        BY <3>2, <3>5, <1>h
      <4>2. Ends(i) <= history[l].base
        BY <2>1, <3>2, <4>1 DEF Lane, InTurn
      <4> QED
        BY <3>1, <3>3, <4>2
    <3> QED
      BY <3>4, <3>5
  <2>4. InTurn'
    <3>1. ASSUME NEW i \in 1..Len(history'), NEW j \in 1..Len(history'), i < j
          PROVE  Ends(i)' <= history'[j].base
      <4>1. i \in 1..l
        BY <1>h, <3>1
      <4>2. CASE j \in 1..l
        BY <1>h, <2>1, <3>1, <4>1, <4>2 DEF Lane, InTurn
      <4>3. CASE j = l + 1
        BY <1>h, <2>3, <4>1, <4>3
      <4> QED
        BY <1>in, <4>2, <4>3
    <3>2. ASSUME NEW i \in 2..Len(history') PROVE history'[i].base = Ends(i - 1)'
      <4>1. CASE i \in 2..l
        <5>1. i \in 1..l /\ i - 1 \in 1..l
          BY <1>h, <4>1
        <5> QED
          BY <1>h, <2>1, <4>1, <5>1 DEF Lane, InTurn
      <4>2. CASE i = l + 1
        <5>1. i - 1 = l /\ l \in 1..l /\ l # 0
          BY <1>h, <4>2
        <5>2. history # <<>>
          BY <5>1, EmptySeq
        <5> QED
          BY <1>h, <2>1, <4>2, <5>1, <5>2 DEF End
      <4> QED
        BY <1>h, <4>1, <4>2
    <3> QED
      BY <3>1, <3>2 DEF InTurn
  <2>5. RowIsEnd' /\ WriterSees'
    BY <1>h DEF RowIsEnd, WriterSees, Commit
  <2>6. TableIsTail'
    <3>1. \A i \in hot : i \in 1..l /\ i \in Nat
      BY <1>h DEF TypeOK
    <3>2. hot' = hot \cup {l + 1}
      BY DEF Commit
    <3>3. ASSUME NEW i \in hot', NEW j \in 1..Len(history'), i < j PROVE j \in hot'
      <4>1. CASE j = l + 1
        BY <3>2, <4>1
      <4>2. CASE j \in 1..l
        <5>1. i \in hot
          BY <1>h, <3>2, <3>3, <4>2
        <5> QED
          BY <2>1, <3>2, <3>3, <4>2, <5>1 DEF Lane, TableIsTail
      <4> QED
        BY <1>in, <4>1, <4>2
    <3>4. ASSUME NEW i \in hot', NEW j \in hot', i < j PROVE LogTop <= history'[j].base
      <4>1. i \in hot /\ (j \in hot \/ j = l + 1)
        BY <1>h, <3>1, <3>2, <3>4
      <4> QED
        BY <1>h, <2>1, <2>2, <3>1, <3>4, <4>1 DEF Lane, TableIsTail
    <3>5. ASSUME NEW w \in Worker, NEW j \in hot' PROVE work[w].job <= j
      <4>1. work[w].job \in 0..l
        BY DEF TypeOK
      <4>2. CASE j \in hot
        BY <2>1, <4>2 DEF Lane, TableIsTail
      <4>3. CASE j = l + 1
        BY <1>h, <4>1, <4>3
      <4> QED
        BY <3>2, <4>2, <4>3
    <3> QED
      BY <3>3, <3>4, <3>5, <1>log DEF TableIsTail, Commit
  <2>7. Whole'
    <3>1. LogTop <= End'
      BY <1>h, <1>n, <2>2
    <3>2. \A i \in 1..Len(history') : LogTop <= history'[i].base \/ Ends(i)' <= LogTop
      BY <1>h, <1>in, <2>1, <2>2 DEF Lane, Whole
    <3>3. ASSUME NEW e \in log PROVE e.write # 0 /\ e.version \in Carries(e.write)'
      <4>1. e.write \in 0..l /\ e.write # 0 /\ e.version \in Carries(e.write)
        BY <2>1 DEF TypeOK, Lane, Whole
      <4>2. e.write \in 1..l
        BY <1>h, <4>1
      <4> QED
        BY <1>h, <4>1, <4>2
    <3> QED
      BY <2>1, <3>1, <3>2, <3>3, <1>log DEF Lane, Whole, Commit
  <2> QED
    BY <2>4, <2>5, <2>6, <2>7 DEF Lane
<1>7. Kept' <=> Kept
  BY DEF Kept, Commit
<1> QED
  BY <1>1, <1>2, <1>3, <1>4, <1>5, <1>6, <1>7

\* The history ends at a version, and only without a write at 0.
LEMMA EndFacts ==
    ASSUME TypeOK
    PROVE  /\ End \in Nat /\ Len(history) \in Nat
           /\ history = <<>> => End = 0
           /\ history # <<>> => Len(history) \in 1..Len(history) /\ End = Ends(Len(history)) /\ End # 0
<1>1. Len(history) \in Nat /\ (history # <<>> => Len(history) # 0)
  BY LenProperties, EmptySeq DEF TypeOK
<1>2. CASE history = <<>>
  BY <1>1, <1>2 DEF End
<1>3. CASE history # <<>>
  <2>1. Len(history) \in 1..Len(history)
    BY <1>1, <1>3
  <2> QED
    BY <1>1, <1>3, <2>1, WriteFacts DEF End
<1> QED
  BY <1>2, <1>3

\* A write to a journalled row keeps the lane.
LEMMA UpdateStep == ASSUME IndInv, Update PROVE IndInv'
<1>1. PICK n \in 1..MaxBatch, gone \in BOOLEAN : Commit(row, n, gone)
  BY DEF Update
<1>2. row \in Nat
  BY DEF IndInv, TypeOK, Update, NoRow
<1>3. Kept => row = End
  BY <1>2 DEF IndInv, Lane, RowIsEnd, Update, NoRow
<1>4. MayWrite /\ writer' \in {writer, Quiet} /\ writer'.step = "idle"
  BY DEF Update
<1> QED
  BY <1>1, <1>2, <1>3, <1>4, CommitStep

\* A create, a first write to an older row and an adopt keep the lane.
LEMMA CreateStep == ASSUME IndInv, Create PROVE IndInv'
<1>1. MayWrite /\ writer.seen \in Nat
  BY DEF IndInv, TypeOK, WriterOK, Create
<1>2. writer' \in {writer, Quiet} /\ writer'.step = "idle"
  BY DEF Create, Quiet
<1>3. Kept => writer.seen = End
  BY DEF IndInv, Lane, WriterSees, Create
<1>4. Kept /\ writer.seen = 0 => history = <<>>
  BY <1>3, EndFacts DEF IndInv
<1>5. CASE writer.adopts /\ writer.seen = 0 /\ Commit(0, 1, FALSE)
  <2>1. 1 \in 1..MaxBatch
    BY LaneAssumption
  <2> QED
    BY <1>1, <1>2, <1>4, <1>5, <2>1, CommitStep
<1>6. CASE \E n \in 1..MaxBatch, gone \in BOOLEAN : Commit(writer.seen, n, gone)
  BY <1>1, <1>2, <1>3, <1>6, CommitStep
<1>7. CASE writer.seen = 0 /\ \E n \in 1..MaxBatch, gone \in BOOLEAN : Commit(1, n, gone)
  BY <1>1, <1>2, <1>4, <1>7, CommitStep
<1> QED
  BY <1>5, <1>6, <1>7 DEF Create

\* A step of a writer that has not committed: what it saw is at stake.
LEMMA WriterStays ==
    ASSUME IndInv, UNCHANGED <<row, history, table, log, work, odd, faults>>,
           writer' \in [step : {"idle", "jobs", "log"}, adopts : BOOLEAN, seen : Nat \cup {None}],
           WriterOK', Kept => WriterSees'
    PROVE  IndInv'
<1> USE DEF IndInv
<1>1. TypeOK'
  BY DEF TypeOK, table
<1>2. WorkOK'
  BY SameHistory, SameLog DEF WorkOK
<1>3. Numbered'
  BY SameLog DEF Numbered
<1>4. NothingLost'
  BY SameLog, SameHistory DEF NothingLost, table
<1>5. ASSUME Kept PROVE Lane'
  <2>1. Lane
    BY <1>5
  <2>2. InTurn' /\ RowIsEnd'
    BY <2>1, SameHistory DEF Lane, RowIsEnd
  <2>3. TableIsTail'
    BY <2>1, SameLog DEF Lane, TableIsTail, table
  <2>4. Whole'
    BY <2>1, SameLog, SameHistory DEF Lane, Whole
  <2> QED
    BY <1>5, <2>2, <2>3, <2>4 DEF Lane
<1> QED
  BY <1>1, <1>2, <1>3, <1>4, <1>5, SameHistory

\* The pending jobs, when there are any, end where the history ends.
LEMMA ReadJobsStep == ASSUME IndInv, ReadJobs PROVE IndInv'
<1> USE DEF IndInv
<1>1. PICK adopts \in BOOLEAN : writer' = [step |-> "jobs", adopts |-> adopts, seen |-> PendingTop]
  BY DEF ReadJobs
<1>2. \A i \in hot : i \in 1..Len(history) /\ Ends(i) \in Nat
  BY WriteFacts DEF TypeOK
<1>3. PendingTop \in Nat \cup {None}
  BY <1>2, PendingTopFacts
<1>4. UNCHANGED <<row, history, table, log, work, odd, faults>> /\ MayWrite
  BY DEF ReadJobs
<1>5. WriterOK'
  BY <1>1, <1>4, SameHistory DEF WriterOK
<1>6. ASSUME Kept PROVE WriterSees'
  <2>1. CASE hot = {}
    BY <1>1, <1>4, <2>1, PendingTopFacts DEF WriterSees, table
  <2>2. CASE hot # {}
    <3> DEFINE l == Len(history)
    <3>1. PICK i \in hot : PendingTop = Ends(i) /\ \A j \in hot : Ends(j) <= Ends(i)
      BY <2>2, PendingTopFacts
    <3>2. i \in 1..l /\ l \in Nat /\ i \in Nat
      BY <1>2, EndFacts
    <3>3. l \in 1..l /\ history # <<>>
      BY <3>2
    <3>4. CASE i < l
      <4>1. l \in hot
        BY <1>6, <3>3, <3>4 DEF Lane, TableIsTail
      <4>2. Ends(i) <= history[l].base
        BY <1>6, <3>2, <3>3, <3>4 DEF Lane, InTurn
      <4>3. /\ history[l].base \in Nat /\ Ends(l) \in Nat /\ Ends(i) \in Nat
            /\ history[l].base < Ends(l)
        BY <3>2, <3>3, WriteFacts
      <4> QED
        BY <3>1, <4>1, <4>2, <4>3
    <3>5. CASE i = l
      <4>1. End = Ends(i)
        BY <3>3, <3>5, EndFacts
      <4> QED
        BY <1>1, <1>4, <3>1, <4>1, SameHistory DEF WriterSees
    <3> QED
      BY <3>2, <3>4, <3>5
  <2> QED
    BY <2>1, <2>2
<1> QED
  BY <1>1, <1>3, <1>4, <1>5, <1>6, WriterStays

\* Without a pending job the log holds the whole history.
LEMMA ReadLogStep == ASSUME IndInv, ReadLog PROVE IndInv'
<1> USE DEF IndInv
<1>1. LogTop \in Nat
  BY DEF Numbered
<1>2. UNCHANGED <<row, history, table, log, work, odd, faults>>
  BY DEF ReadLog
<1>3. /\ writer' \in [step : {"idle", "jobs", "log"}, adopts : BOOLEAN, seen : Nat \cup {None}]
      /\ writer'.seen # None /\ writer'.seen = IF writer.seen = None THEN LogTop ELSE writer.seen
  <2> DEFINE v == IF writer.seen = None THEN LogTop ELSE writer.seen
  <2>1. writer \in [step : {"idle", "jobs", "log"}, adopts : BOOLEAN, seen : Nat \cup {None}]
    BY DEF TypeOK
  <2>2. v \in Nat /\ v # None
    BY <1>1, <2>1 DEF None
  <2>3. writer' = [writer EXCEPT !.step = "log", !.seen = v]
    BY DEF ReadLog
  <2> HIDE DEF v
  <2>4. writer' = [step |-> "log", adopts |-> writer.adopts, seen |-> v]
    BY <2>1, <2>3
  <2>5. writer' \in [step : {"idle", "jobs", "log"}, adopts : BOOLEAN, seen : Nat \cup {None}] /\ writer'.seen = v
    BY <2>1, <2>2, <2>4
  <2> QED
    BY <2>2, <2>5 DEF v
<1>4. WriterOK'
  BY <1>2, <1>3, SameHistory DEF WriterOK, ReadLog
<1>5. ASSUME Kept PROVE WriterSees'
  <2>1. CASE writer.seen # None
    BY <1>2, <1>3, <1>5, <2>1, SameHistory DEF Lane, WriterSees, ReadLog
  <2>2. CASE writer.seen = None
    <3>1. End \in Nat /\ End # None
      BY EndFacts DEF None
    <3>2. hot = {}
      BY <1>5, <2>2, <3>1 DEF Lane, WriterSees, ReadLog
    <3>3. LogTop <= End
      BY <1>5 DEF Lane, Whole
    <3>4. CASE history = <<>>
      <4>1. LogTop = End
        BY <1>1, <3>3, <3>4, EndFacts
      <4> QED
        BY <1>2, <1>3, <2>2, <4>1, SameHistory DEF WriterSees
    <3>5. CASE history # <<>>
      <4>1. Len(history) \in 1..Len(history) /\ End = Ends(Len(history))
        BY <3>5, EndFacts
      <4>2. Carries(Len(history)) \subseteq Versions
        BY <1>5, <3>2, <4>1 DEF NothingLost, Kept
      <4>3. End \in Versions /\ End \in Nat \ {0}
        BY <4>1, <4>2, WriteFacts
      <4>4. LogTop = End
        BY <1>1, <3>1, <3>3, <4>3, InLog
      <4> QED
        BY <1>2, <1>3, <2>2, <4>4, SameHistory DEF WriterSees
    <3> QED
      BY <3>4, <3>5
  <2> QED
    BY <2>1, <2>2
<1> QED
  BY <1>2, <1>3, <1>4, <1>5, WriterStays

\* A transaction that fails leaves nothing.
LEMMA RollbackStep == ASSUME IndInv, Rollback PROVE IndInv'
<1>1. /\ Quiet \in [step : {"idle", "jobs", "log"}, adopts : BOOLEAN, seen : Nat \cup {None}]
      /\ Quiet.step = "idle"
  BY DEF Quiet
<1>2. writer' = Quiet /\ UNCHANGED <<row, history, table, log, work, odd, faults>>
  BY DEF Rollback
<1> QED
  BY <1>1, <1>2, WriterStays DEF WriterOK, WriterSees
-----------------------------------------------------------------------------
(* Workers *)

Steps == {"idle", "claimed", "clear", "landed", "behind", "diverged", "failed"}

\* A worker's next step leaves its job and the others alone.
LEMMA StayFacts ==
    ASSUME TypeOK, NEW w \in Worker, NEW s \in Steps, Stay(w, s)
    PROVE  /\ work' \in [Worker -> [job : 0..Len(history), step : Steps]]
           /\ work'[w].job = work[w].job /\ work'[w].step = s
           /\ \A v \in Worker : v # w => work'[v] = work[v]
           /\ \A v \in Worker : work'[v].job = work[v].job
BY DEF TypeOK, Stay, Steps

\* So does a worker that is done.
LEMMA RestFacts ==
    ASSUME TypeOK, NEW w \in Worker, Rest(w)
    PROVE  /\ work' \in [Worker -> [job : 0..Len(history), step : Steps]]
           /\ work'[w] = Idle /\ Idle.job = 0 /\ Idle.step = "idle"
           /\ \A v \in Worker : v # w => work'[v] = work[v]
           /\ \A v \in Worker : work'[v] \in {work[v], Idle}
<1>1. Len(history) \in Nat
  BY EndFacts
<1>2. Idle \in [job : 0..Len(history), step : Steps]
  BY <1>1 DEF Idle, Steps
<1> QED
  BY <1>2 DEF TypeOK, Rest, Steps, Idle

\* A worker that is not idle has a job of the history.
LEMMA JobFacts ==
    ASSUME IndInv, NEW w \in Worker, work[w].step # "idle"
    PROVE  work[w].job \in 1..Len(history) /\ work[w].job \in Write
<1>1. work[w].job \in 0..Len(history) /\ work[w].job # 0 /\ Len(history) \in Nat
  BY EndFacts DEF IndInv, TypeOK, WorkOK
<1>2. work[w].job \in 1..Len(history)
  BY <1>1
<1> QED
  BY <1>2, WriteFacts DEF IndInv

\* Typing after a step that leaves the jobs alone.
LEMMA TypeStays ==
    ASSUME TypeOK, UNCHANGED <<row, writer, history, table, odd>>,
           log' \subseteq [version : Nat \ {0}, write : 0..Len(history)],
           work' \in [Worker -> [job : 0..Len(history), step : Steps]], faults' \in 0..MaxFaults
    PROVE  TypeOK'
BY DEF TypeOK, table, Steps

\* Counting one fault.
LEMMA FaultCounted ==
    ASSUME TypeOK, faults < MaxFaults, faults' = faults + 1
    PROVE  faults' \in 0..MaxFaults
BY LaneAssumption DEF TypeOK

\* A worker that learns nothing of the log.
LEMMA WorkStays ==
    ASSUME IndInv, UNCHANGED <<history, log, odd>>, NEW w \in Worker,
           \A v \in Worker : v # w => work'[v] = work[v],
           work'[w].job = 0 <=> work'[w].step = "idle", work'[w].step \notin {"clear", "landed"}
    PROVE  WorkOK'
<1> SUFFICES ASSUME NEW v \in Worker, NEW k, k = work'[v].job
             PROVE  /\ k = 0 <=> work'[v].step = "idle"
                    /\ work'[v].step = "clear" => history[k].base <= LogTop
                    /\ work'[v].step = "landed" => Carries(k) \subseteq Versions
  BY SameHistory, SameLog DEF WorkOK
<1>1. CASE v = w
  BY <1>1
<1>2. CASE v # w
  BY <1>2 DEF IndInv, WorkOK
<1> QED
  BY <1>1, <1>2

\* A failing call moves nothing but the worker.
LEMMA CallFailsStep == ASSUME IndInv, NEW w \in Worker, CallFails(w) PROVE IndInv'
<1>1. "failed" \in Steps /\ Stay(w, "failed") /\ work[w].step # "idle" /\ TypeOK
  BY DEF Steps, CallFails, IndInv
<1>2. /\ work' \in [Worker -> [job : 0..Len(history), step : Steps]]
      /\ work'[w].job = work[w].job /\ work'[w].step = "failed"
      /\ \A v \in Worker : v # w => work'[v] = work[v]
      /\ \A v \in Worker : work'[v].job = work[v].job
  BY <1>1, StayFacts
<1>3. UNCHANGED <<row, writer, history, table, log, odd>> /\ faults' \in 0..MaxFaults
  BY <1>1, FaultCounted DEF CallFails
<1>4. TypeOK'
  BY <1>1, <1>2, <1>3, TypeStays DEF TypeOK
<1>5. work[w].job # 0
  BY <1>1 DEF IndInv, WorkOK
<1>6. WorkOK'
  BY <1>2, <1>3, <1>5, WorkStays
<1>7. Kept => \A v \in Worker : (\A j \in hot : work'[v].job <= j) /\ work'[v].step # "diverged"
  BY <1>2 DEF IndInv, Lane, TableIsTail, Whole
<1> QED
  BY <1>3, <1>4, <1>6, <1>7, LaneStays DEF table

\* A crash moves nothing but the worker.
LEMMA CrashStep == ASSUME IndInv, NEW w \in Worker, Crash(w) PROVE IndInv'
<1>1. Rest(w) /\ TypeOK
  BY DEF Crash, IndInv
<1>2. /\ work' \in [Worker -> [job : 0..Len(history), step : Steps]]
      /\ work'[w] = Idle /\ Idle.job = 0 /\ Idle.step = "idle"
      /\ \A v \in Worker : v # w => work'[v] = work[v]
  BY <1>1, RestFacts
<1>3. UNCHANGED <<row, writer, history, table, log, odd>> /\ faults' \in 0..MaxFaults
  BY <1>1, FaultCounted DEF Crash
<1>4. TypeOK'
  BY <1>1, <1>2, <1>3, TypeStays DEF TypeOK
<1>6. WorkOK'
  BY <1>2, <1>3, WorkStays
<1>7. \A j \in hot : 0 <= j
  BY <1>1, EndFacts DEF TypeOK
<1>8. Kept => \A v \in Worker : (\A j \in hot : work'[v].job <= j) /\ work'[v].step # "diverged"
  BY <1>2, <1>7 DEF IndInv, Lane, TableIsTail, Whole
<1> QED
  BY <1>3, <1>4, <1>6, <1>8, LaneStays DEF table

\* In the lane that is kept, the head of the stream is the first job of the table.
LEMMA ClaimStep == ASSUME IndInv, NEW w \in Worker, NEW i \in hot, Claim(w, i) PROVE IndInv'
<1> USE DEF IndInv
<1>1. i \in 1..Len(history) /\ i \in hot \ dead /\ i \in Write /\ Len(history) \in Nat /\ i # 0
  <2>1. TypeOK /\ i \in 1..Len(history) /\ i \in hot \ dead
    BY DEF Claim, Claimable, TypeOK
  <2> QED
    BY <2>1, WriteFacts, EndFacts
<1>2. [job |-> i, step |-> "claimed"] \in [job : 0..Len(history), step : Steps]
  BY <1>1 DEF Steps
<1>3. work' = [work EXCEPT ![w] = [job |-> i, step |-> "claimed"]]
  BY DEF Claim
<1>4. /\ work' \in [Worker -> [job : 0..Len(history), step : Steps]]
      /\ work'[w].job = i /\ work'[w].step = "claimed"
      /\ \A v \in Worker : v # w => work'[v] = work[v]
  BY <1>2, <1>3 DEF TypeOK, Steps
<1>5. TypeOK'
  <2>1. lease' = [lease EXCEPT ![i] = w] /\ lapsed' = lapsed \ {i} /\ w # Nobody
    BY LaneAssumption DEF Claim
  <2>2. UNCHANGED <<row, writer, history, hot, dead, archive, log, odd, faults>>
    BY DEF Claim
  <2>3. lease' \in [Write -> Worker \cup {Nobody}]
    BY <2>1 DEF TypeOK
  <2>4. lapsed' \subseteq {k \in Write : lease'[k] # Nobody}
    BY <2>1, <1>1 DEF TypeOK
  <2>5. {k \in Write : lease'[k] # Nobody} \subseteq hot \ dead
    BY <2>1, <1>1 DEF TypeOK
  <2> QED
    BY <1>4, <2>2, <2>3, <2>4, <2>5 DEF TypeOK, Steps
<1>6. UNCHANGED <<row, writer, history, hot, archive, log, odd>>
  BY DEF Claim
<1>7. WorkOK'
  BY <1>1, <1>4, <1>6, WorkStays
<1>8. ASSUME Kept PROVE \A j \in hot : i <= j
  <2> SUFFICES ASSUME NEW j \in hot, j < i PROVE FALSE
    BY <1>1, EndFacts DEF TypeOK
  <2>1. j \in 1..Len(history)
    BY DEF TypeOK
  <2>2. Ends(j) <= history[i].base
    BY <1>1, <1>8, <2>1 DEF Lane, InTurn
  <2>3. history[j].base >= history[i].base
    BY DEF Claim, Claimable
  <2>4. Ends(j) \in Nat /\ history[j].base \in Nat /\ history[i].base \in Nat /\ history[j].base < Ends(j)
    BY <1>1, <2>1, WriteFacts
  <2> QED
    BY <2>2, <2>3, <2>4
<1>9. ASSUME Kept, NEW v \in Worker PROVE (\A j \in hot : work'[v].job <= j) /\ work'[v].step # "diverged"
  <2>1. CASE v = w
    BY <1>4, <1>8, <1>9, <2>1
  <2>2. CASE v # w
    BY <1>4, <1>9, <2>2 DEF Lane, TableIsTail, Whole
  <2> QED
    BY <2>1, <2>2
<1> QED
  BY <1>5, <1>6, <1>7, <1>9, LaneStays

\* A worker looks at the log's top before it appends.
LEMMA ReadTopStep == ASSUME IndInv, NEW w \in Worker, ReadTop(w) PROVE IndInv'
<1> USE DEF IndInv
<1> DEFINE k == work[w].job
           s == IF LogTop < history[k].base THEN "behind" ELSE "clear"
<1>1. s \in Steps /\ Stay(w, s) /\ k \in 1..Len(history)
  BY JobFacts DEF Steps, ReadTop
<1>2. /\ work' \in [Worker -> [job : 0..Len(history), step : Steps]]
      /\ work'[w].job = k /\ work'[w].step = s
      /\ \A v \in Worker : v # w => work'[v] = work[v]
      /\ \A v \in Worker : work'[v].job = work[v].job
  BY <1>1, StayFacts
<1>3. UNCHANGED <<row, writer, history, table, log, odd, faults>>
  BY DEF ReadTop
<1>4. TypeOK'
  BY <1>2, <1>3, TypeStays DEF TypeOK
<1>5. k # 0 /\ (s = "clear" => history[k].base <= LogTop)
  <2>1. history[k].base \in Nat /\ LogTop \in Nat /\ k # 0
    BY <1>1, WriteFacts DEF Numbered
  <2> QED
    BY <2>1
<1>6. WorkOK'
  <2> SUFFICES ASSUME NEW v \in Worker, NEW j, j = work[v].job
               PROVE  /\ j = 0 <=> work'[v].step = "idle"
                      /\ work'[v].step = "clear" => history[j].base <= LogTop
                      /\ work'[v].step = "landed" => Carries(j) \subseteq Versions
    BY <1>2, <1>3, SameHistory, SameLog DEF WorkOK
  <2>1. CASE v = w
    BY <1>2, <1>5, <2>1
  <2>2. CASE v # w
    BY <1>2, <2>2 DEF WorkOK
  <2> QED
    BY <2>1, <2>2
<1>7. Kept => \A v \in Worker : (\A j \in hot : work'[v].job <= j) /\ work'[v].step # "diverged"
  BY <1>2 DEF Lane, TableIsTail, Whole
<1> QED
  BY <1>3, <1>4, <1>6, <1>7, LaneStays DEF table

\* A batch that finds its versions free begins right behind the log's top.
LEMMA FreeBatch ==
    ASSUME TypeOK, Numbered, NEW k \in 1..Len(history), history[k].base <= LogTop,
           \A e \in Events(k) : e.version \notin Versions, log' = log \cup Events(k)
    PROVE  /\ history[k].base = LogTop /\ LogTop \in Nat
           /\ Versions' = Versions \cup Carries(k) /\ Versions' = 1..Ends(k) /\ LogTop' = Ends(k)
<1> DEFINE b == history[k].base
<1>1. /\ b \in Nat /\ Ends(k) \in Nat \ {0} /\ b < Ends(k)
      /\ Carries(k) = (b + 1)..Ends(k)
  BY WriteFacts
<1>2. LogTop \in Nat /\ Versions = 1..LogTop
  BY DEF Numbered, NoHole
<1>3. b + 1 \notin Versions
  <2>1. b + 1 \in Carries(k)
    BY <1>1
  <2>2. [version |-> b + 1, write |-> k] \in Events(k)
    BY <2>1 DEF Events
  <2> QED
    BY <2>2
<1>4. b = LogTop
  BY <1>1, <1>2, <1>3
<1>5. Versions' = Versions \cup Carries(k)
  <2>1. \A v \in Carries(k) : [version |-> v, write |-> k] \in Events(k) /\ [version |-> v, write |-> k].version = v
    BY DEF Events
  <2>2. \A e \in Events(k) : e.version \in Carries(k)
    BY DEF Events
  <2>3. Versions' = {e.version : e \in log \cup Events(k)}
    BY DEF Versions
  <2> QED
    BY <2>1, <2>2, <2>3 DEF Versions
<1>6. Versions' = 1..Ends(k)
  BY <1>1, <1>2, <1>4, <1>5
<1>7. LogTop' = Ends(k)
  BY <1>1, <1>6, TopIsNext
<1> QED
  BY <1>2, <1>4, <1>5, <1>6, <1>7

\* In the lane that is kept, versions that are taken are taken by these same events.
LEMMA SameEvents ==
    ASSUME TypeOK, Numbered, InTurn, Whole, NEW k \in 1..Len(history),
           ~ \A e \in Events(k) : e.version \notin Versions
    PROVE  Events(k) \subseteq log
<1>1. /\ history[k].base \in Nat /\ Ends(k) \in Nat /\ history[k].base < Ends(k)
      /\ Carries(k) = (history[k].base + 1)..Ends(k) /\ Carries(k) \subseteq Nat \ {0}
  BY WriteFacts
<1>2. LogTop \in Nat /\ Versions = 1..LogTop
  BY DEF Numbered, NoHole
<1>3. PICK d \in Events(k) : d.version \in Versions
  OBVIOUS
<1>4. d.version \in Carries(k)
  BY <1>3 DEF Events
<1>5. ~(LogTop <= history[k].base)
  BY <1>1, <1>2, <1>3, <1>4
<1>6. Ends(k) <= LogTop
  BY <1>5 DEF Whole
<1>7. Carries(k) \subseteq Versions
  BY <1>1, <1>2, <1>6
<1> SUFFICES ASSUME NEW e \in Events(k) PROVE e \in log
  OBVIOUS
<1>8. e.version \in Carries(k) /\ e = [version |-> e.version, write |-> k]
  BY DEF Events
<1>9. PICK f \in log : f.version = e.version
  BY <1>7, <1>8 DEF Versions
<1>10. f = [version |-> f.version, write |-> f.write] /\ f.write \in 0..Len(history)
  BY DEF TypeOK
<1>11. f.write # 0 /\ f.version \in Carries(f.write)
  BY DEF Whole
<1>12. f.write \in 1..Len(history) /\ f.write \in Nat /\ k \in Nat
  BY <1>10, <1>11, EndFacts
<1>13. /\ history[f.write].base \in Nat /\ Ends(f.write) \in Nat
       /\ Carries(f.write) = (history[f.write].base + 1)..Ends(f.write)
  BY <1>12, WriteFacts
<1>14. ~(f.write < k)
  <2> SUFFICES ASSUME f.write < k PROVE FALSE
    OBVIOUS
  <2>1. Ends(f.write) <= history[k].base
    BY <1>12 DEF InTurn
  <2> QED
    BY <1>1, <1>8, <1>9, <1>11, <1>13, <2>1
<1>15. ~(k < f.write)
  <2> SUFFICES ASSUME k < f.write PROVE FALSE
    OBVIOUS
  <2>1. Ends(k) <= history[f.write].base
    BY <1>12 DEF InTurn
  <2> QED
    BY <1>1, <1>8, <1>9, <1>11, <1>13, <2>1
<1>16. f.write = k
  BY <1>12, <1>14, <1>15
<1> QED
  BY <1>8, <1>9, <1>10, <1>16

\* An append leaves the log without a hole whoever makes it, and a lane that is kept whole.
LEMMA AppendStep == ASSUME IndInv, NEW w \in Worker, AppendBatch(w) PROVE IndInv'
<1> USE DEF IndInv
<1> DEFINE k == work[w].job
           free == \A e \in Events(k) : e.version \notin Versions
           s == work'[w].step
<1>1. work[w].step = "clear" /\ k \in 1..Len(history) /\ history[k].base <= LogTop
  BY JobFacts DEF AppendBatch, WorkOK
<1>2. /\ history[k].base \in Nat /\ Ends(k) \in Nat /\ history[k].base < Ends(k)
      /\ Carries(k) = (history[k].base + 1)..Ends(k) /\ Carries(k) \subseteq Nat \ {0}
  BY <1>1, WriteFacts
<1>3. PICK t \in Steps : /\ Stay(w, t)
                         /\ t \in {"landed", "diverged", "failed"}
                         /\ t = "landed" => free \/ Events(k) \subseteq log
                         /\ t = "diverged" => ~free /\ ~(Events(k) \subseteq log)
                         /\ faults' \in 0..MaxFaults
  <2>1. CASE Stay(w, IF free \/ Events(k) \subseteq log THEN "landed" ELSE "diverged") /\ UNCHANGED faults
    BY <2>1 DEF Steps, TypeOK
  <2>2. CASE faults < MaxFaults /\ faults' = faults + 1 /\ Stay(w, "failed")
    <3>1. faults' \in 0..MaxFaults
      BY <2>2, FaultCounted
    <3> QED
      BY <2>2, <3>1 DEF Steps
  <2> QED
    BY <2>1, <2>2 DEF AppendBatch
<1>4. /\ work' \in [Worker -> [job : 0..Len(history), step : Steps]]
      /\ work'[w].job = k /\ s = t
      /\ \A v \in Worker : v # w => work'[v] = work[v]
      /\ \A v \in Worker : work'[v].job = work[v].job
  BY <1>3, StayFacts
<1>5. UNCHANGED <<row, writer, history, table, odd>> /\ log' = IF free THEN log \cup Events(k) ELSE log
  BY DEF AppendBatch
<1>6. k # 0 /\ Len(history) \in Nat
  BY <1>1, EndFacts
<1>7. \A e \in Events(k) : /\ e \in [version : Nat \ {0}, write : 0..Len(history)]
                           /\ e.write = k /\ e.version \in Carries(k)
  <2>1. k \in 0..Len(history)
    BY <1>1, <1>6
  <2> QED
    BY <1>2, <2>1 DEF Events
<1>8. TypeOK'
  <2>1. log' \subseteq [version : Nat \ {0}, write : 0..Len(history)]
    BY <1>5, <1>7 DEF TypeOK
  <2> QED
    BY <1>3, <1>4, <1>5, <2>1, TypeStays
<1>9. Events(k) \subseteq log => Carries(k) \subseteq Versions
  <2> SUFFICES ASSUME Events(k) \subseteq log, NEW v \in Carries(k) PROVE v \in Versions
    OBVIOUS
  <2>1. [version |-> v, write |-> k] \in Events(k) /\ [version |-> v, write |-> k].version = v
    BY DEF Events
  <2> QED
    BY <2>1 DEF Versions
<1> HIDE DEF free, k, s
<1>10. CASE free
  <2>1. /\ history[k].base = LogTop /\ LogTop \in Nat
        /\ Versions' = Versions \cup Carries(k) /\ Versions' = 1..Ends(k) /\ LogTop' = Ends(k)
    BY <1>1, <1>5, <1>10, FreeBatch DEF free
  <2>2. Numbered'
    BY <1>2, <2>1 DEF Numbered, NoHole
  <2>3. LogTop <= LogTop' /\ Versions \subseteq Versions'
    BY <1>2, <2>1
  <2>4. WorkOK'
    <3> SUFFICES ASSUME NEW v \in Worker, NEW j, j = work[v].job
                 PROVE  /\ j = 0 <=> work'[v].step = "idle"
                        /\ work'[v].step = "clear" => history[j].base <= LogTop'
                        /\ work'[v].step = "landed" => Carries(j) \subseteq Versions'
      BY <1>4, <1>5, SameHistory DEF WorkOK
    <3>1. CASE v = w
      BY <1>3, <1>4, <1>6, <2>1, <3>1 DEF k, s
    <3>2. CASE v # w
      <4>1. work'[v] = work[v]
        BY <1>4, <3>2
      <4>2. /\ j = 0 <=> work[v].step = "idle"
            /\ work[v].step = "clear" => history[j].base <= LogTop
            /\ work[v].step = "landed" => Carries(j) \subseteq Versions
        BY DEF WorkOK
      <4>3. CASE work[v].step = "clear"
        <5>1. j \in 1..Len(history)
          BY <4>3, JobFacts
        <5>2. history[j].base \in Nat /\ LogTop' \in Nat
          BY <1>2, <2>1, <5>1, WriteFacts
        <5> QED
          BY <2>1, <2>3, <4>1, <4>2, <4>3, <5>2
      <4>4. CASE work[v].step # "clear"
        BY <2>3, <4>1, <4>2, <4>4
      <4> QED
        BY <4>3, <4>4
    <3> QED
      BY <3>1, <3>2
  <2>5. NothingLost'
    BY <1>5, <2>3, SameHistory DEF NothingLost, table
  <2>6. WriterOK'
    BY <1>5, SameHistory DEF WriterOK
  <2>7. ASSUME Kept PROVE Lane'
    <3>1. Lane /\ InTurn /\ TableIsTail /\ Whole
      BY <2>7 DEF Lane
    <3>2. InTurn' /\ RowIsEnd' /\ WriterSees'
      BY <1>5, <3>1, SameHistory DEF Lane, RowIsEnd, WriterSees, table
    <3>3. \A j \in 1..Len(history) : k < j => Ends(k) <= history[j].base
      BY <1>1, <3>1 DEF InTurn
    <3>4. TableIsTail'
      <4>1. ASSUME NEW i \in hot, NEW j \in hot, i < j PROVE Ends(k) <= history[j].base
        <5>1. k <= i /\ i \in 1..Len(history) /\ j \in 1..Len(history) /\ k \in 1..Len(history)
          BY <1>1, <3>1 DEF TableIsTail, TypeOK, k
        <5>2. k < j
          BY <1>6, <4>1, <5>1
        <5> QED
          BY <3>3, <5>1, <5>2
      <4> QED
        BY <1>4, <1>5, <2>1, <3>1, <4>1 DEF TableIsTail, table
    <3>5. Whole'
      <4>1. Ends(k) <= End
        <5>1. /\ Len(history) \in 1..Len(history) /\ End = Ends(Len(history))
          BY <1>1, <1>6, EndFacts
        <5>2. CASE k = Len(history)
          BY <1>2, <5>1, <5>2
        <5>3. CASE k # Len(history)
          <6>1. k < Len(history)
            BY <1>1, <1>6, <5>3
          <6>2. Ends(k) <= history[Len(history)].base
            BY <3>3, <5>1, <6>1
          <6>3. /\ history[Len(history)].base \in Nat /\ End \in Nat
                /\ history[Len(history)].base < End
            BY <5>1, WriteFacts
          <6> QED
            BY <1>2, <6>2, <6>3
        <5> QED
          BY <5>2, <5>3
      <4>2. ASSUME NEW i \in 1..Len(history) PROVE Ends(k) <= history[i].base \/ Ends(i) <= Ends(k)
        <5>1. CASE k < i
          BY <3>3, <5>1
        <5>2. CASE k = i
          BY <1>2, <5>2
        <5>3. CASE i < k
          <6>1. Ends(i) <= history[k].base /\ Ends(i) \in Nat
            BY <1>1, <3>1, <5>3, WriteFacts DEF InTurn
          <6> QED
            BY <1>2, <6>1
        <5> QED
          BY <1>1, <1>6, <5>1, <5>2, <5>3
      <4>3. \A e \in log' : e.write # 0 /\ e.version \in Carries(e.write)
        BY <1>5, <1>6, <1>7, <1>10, <3>1 DEF Whole
      <4>4. \A v \in Worker : work'[v].step # "diverged"
        BY <1>3, <1>4, <1>10, <3>1 DEF Whole, s
      <4> QED
        BY <1>5, <2>1, <4>1, <4>2, <4>3, <4>4, SameHistory DEF Whole
    <3> QED
      BY <3>2, <3>4, <3>5 DEF Lane
  <2> QED
    BY <1>5, <1>8, <2>2, <2>4, <2>5, <2>6, <2>7, SameHistory
<1>11. CASE ~free
  <2>1. log' = log
    BY <1>5, <1>11
  <2>2. WorkOK'
    <3> SUFFICES ASSUME NEW v \in Worker, NEW j, j = work[v].job
                 PROVE  /\ j = 0 <=> work'[v].step = "idle"
                        /\ work'[v].step = "clear" => history[j].base <= LogTop
                        /\ work'[v].step = "landed" => Carries(j) \subseteq Versions
      BY <1>4, <1>5, <2>1, SameHistory, SameLog DEF WorkOK
    <3>1. CASE v = w
      BY <1>3, <1>4, <1>6, <1>9, <1>11, <3>1 DEF k, s
    <3>2. CASE v # w
      BY <1>4, <3>2 DEF WorkOK
    <3> QED
      BY <3>1, <3>2
  <2>3. ASSUME Kept, NEW v \in Worker PROVE (\A j \in hot : work'[v].job <= j) /\ work'[v].step # "diverged"
    <3>1. Lane /\ InTurn /\ TableIsTail /\ Whole
      BY <2>3 DEF Lane
    <3>2. Events(k) \subseteq log
      BY <1>1, <1>11, <3>1, SameEvents DEF free
    <3>3. CASE v = w
      BY <1>3, <1>4, <3>1, <3>2, <3>3 DEF TableIsTail, s
    <3>4. CASE v # w
      BY <1>4, <3>1, <3>4 DEF TableIsTail, Whole
    <3> QED
      BY <3>3, <3>4
  <2> QED
    BY <1>5, <1>8, <2>1, <2>2, <2>3, LaneStays DEF table
<1> QED
  BY <1>10, <1>11

\* Only a job of the table that is not dead has a lease.
LEMMA Leased ==
    ASSUME TypeOK, NEW i \in Write, lease[i] # Nobody
    PROVE  i \in hot /\ i \notin dead
BY DEF TypeOK

\* A job that is acked has landed; an ack under a lost lease does nothing.
LEMMA AckStep == ASSUME IndInv, NEW w \in Worker, Ack(w) PROVE IndInv'
<1> USE DEF IndInv
<1> DEFINE i == work[w].job
<1>1. work[w].step = "landed" /\ i \in 1..Len(history) /\ i \in Write /\ Carries(i) \subseteq Versions
  BY JobFacts DEF Ack, WorkOK
<1>2. /\ work' \in [Worker -> [job : 0..Len(history), step : Steps]]
      /\ work'[w] = Idle /\ Idle.job = 0 /\ Idle.step = "idle"
      /\ \A v \in Worker : v # w => work'[v] = work[v]
      /\ \A v \in Worker : work'[v] \in {work[v], Idle}
  BY RestFacts DEF Ack
<1>3. UNCHANGED <<row, writer, history, dead, log, odd, faults>>
  BY DEF Ack
<1>4. WorkOK'
  BY <1>2, <1>3, WorkStays
<1>5. CASE Holds(w)
  <2>1. /\ hot' = hot \ {i} /\ archive' = archive \cup {i}
        /\ lease' = [lease EXCEPT ![i] = Nobody] /\ lapsed' = lapsed \ {i}
    BY <1>5 DEF Ack
  <2>2. i \in hot /\ i \notin dead
    BY <1>1, <1>5, Leased, LaneAssumption DEF Holds
  <2>3. lease' \in [Write -> Worker \cup {Nobody}]
    BY <2>1 DEF TypeOK
  <2>4. /\ lapsed' \subseteq {k \in Write : lease'[k] # Nobody}
        /\ {k \in Write : lease'[k] # Nobody} \subseteq hot' \ dead
    BY <1>1, <2>1 DEF TypeOK
  <2>5. TypeOK'
    BY <1>1, <1>2, <1>3, <2>1, <2>2, <2>3, <2>4 DEF TypeOK, Steps
  <2> QED
    BY <1>1, <1>2, <1>3, <1>4, <2>1, <2>2, <2>5, LaneLeave
<1>6. CASE ~Holds(w)
  <2>1. UNCHANGED <<hot, archive, lease, lapsed>>
    BY <1>6 DEF Ack
  <2>2. TypeOK'
    BY <1>2, <1>3, <2>1, TypeStays DEF TypeOK, table
  <2>3. \A j \in hot : 0 <= j
    BY EndFacts DEF TypeOK
  <2>4. Kept => \A v \in Worker : (\A j \in hot : work'[v].job <= j) /\ work'[v].step # "diverged"
    BY <1>2, <2>3 DEF Lane, TableIsTail, Whole
  <2> QED
    BY <1>3, <1>4, <2>1, <2>2, <2>4, LaneStays
<1> QED
  BY <1>5, <1>6

\* A failure frees the job or lets it die where it is.
LEMMA FailStep == ASSUME IndInv, NEW w \in Worker, Fail(w) PROVE IndInv'
<1> USE DEF IndInv
<1> DEFINE i == work[w].job
<1>1. work[w].step # "idle" /\ i \in 1..Len(history) /\ i \in Write
  BY JobFacts DEF Fail
<1>2. /\ work' \in [Worker -> [job : 0..Len(history), step : Steps]]
      /\ work'[w] = Idle /\ Idle.job = 0 /\ Idle.step = "idle"
      /\ \A v \in Worker : v # w => work'[v] = work[v]
  BY RestFacts DEF Fail
<1>3. UNCHANGED <<row, writer, history, hot, archive, log, odd, faults>>
  BY DEF Fail
<1>4. WorkOK'
  BY <1>2, <1>3, WorkStays
<1>5. TypeOK'
  <2>1. CASE Holds(w)
    <3>1. lease' = [lease EXCEPT ![i] = Nobody] /\ lapsed' = lapsed \ {i} /\ dead' \in {dead, dead \cup {i}}
      BY <2>1 DEF Fail
    <3>2. i \in hot
      BY <1>1, <2>1, Leased, LaneAssumption DEF Holds
    <3>3. lease' \in [Write -> Worker \cup {Nobody}] /\ dead' \subseteq hot
      BY <3>1, <3>2 DEF TypeOK
    <3>4. /\ lapsed' \subseteq {k \in Write : lease'[k] # Nobody}
          /\ {k \in Write : lease'[k] # Nobody} \subseteq hot \ dead'
      BY <1>1, <3>1 DEF TypeOK
    <3> QED
      BY <1>2, <1>3, <3>3, <3>4 DEF TypeOK, Steps
  <2>2. CASE ~Holds(w)
    <3>1. UNCHANGED <<dead, lease, lapsed>>
      BY <2>2 DEF Fail
    <3> QED
      BY <1>2, <1>3, <3>1, TypeStays DEF TypeOK, table
  <2> QED
    BY <2>1, <2>2
<1>6. \A j \in hot : 0 <= j
  BY EndFacts DEF TypeOK
<1>7. Kept => \A v \in Worker : (\A j \in hot : work'[v].job <= j) /\ work'[v].step # "diverged"
  BY <1>2, <1>6 DEF Lane, TableIsTail, Whole
<1> QED
  BY <1>3, <1>4, <1>5, <1>7, LaneStays

\* A lease runs out.
LEMMA LapseStep == ASSUME IndInv, NEW i \in 1..Len(history), Lapse(i) PROVE IndInv'
<1> USE DEF IndInv
<1>1. UNCHANGED <<row, writer, history, hot, dead, lease, archive, log, work, odd>>
  BY DEF Lapse
<1>2. i \in Write /\ lease[i] # Nobody /\ lapsed' = lapsed \cup {i}
  BY WriteFacts DEF Lapse
<1>3. faults' \in 0..MaxFaults
  BY FaultCounted DEF Lapse, TypeOK
<1>4. TypeOK'
  BY <1>1, <1>2, <1>3 DEF TypeOK
<1>5. WorkOK'
  BY <1>1, SameHistory, SameLog DEF WorkOK
<1>6. Kept => \A v \in Worker : (\A j \in hot : work'[v].job <= j) /\ work'[v].step # "diverged"
  BY <1>1 DEF Lane, TableIsTail, Whole
<1> QED
  BY <1>1, <1>4, <1>5, <1>6, LaneStays
-----------------------------------------------------------------------------
(* Operators *)

\* retry
LEMMA RetryStep == ASSUME IndInv, NEW i \in 1..Len(history), Retry(i) PROVE IndInv'
<1> USE DEF IndInv
<1>1. UNCHANGED <<row, writer, history, hot, lease, lapsed, archive, log, work, odd, faults>> /\ dead' = dead \ {i}
  BY DEF Retry
<1>2. TypeOK'
  BY <1>1 DEF TypeOK
<1>3. WorkOK'
  BY <1>1, SameHistory, SameLog DEF WorkOK
<1>4. Kept => \A v \in Worker : (\A j \in hot : work'[v].job <= j) /\ work'[v].step # "diverged"
  BY <1>1 DEF Lane, TableIsTail, Whole
<1> QED
  BY <1>1, <1>2, <1>3, <1>4, LaneStays

\* discard asks the log, purgeDead does not.
LEMMA RemoveStep ==
    ASSUME IndInv, NEW i \in 1..Len(history), Discard(i) \/ PurgeDead(i)
    PROVE  IndInv'
<1> USE DEF IndInv
<1>1. /\ UNCHANGED <<row, writer, history, lease, lapsed, log, work, odd, faults>> /\ i \in dead
      /\ hot' = hot \ {i} /\ dead' = dead \ {i} /\ archive' = archive \cup {i}
  BY DEF Discard, PurgeDead
<1>2. TypeOK' /\ i \in hot
  BY <1>1 DEF TypeOK
<1>3. WorkOK'
  BY <1>1, SameHistory, SameLog DEF WorkOK
<1>4. Carries(i) \subseteq Versions \/ "purges" \in odd
  <2>1. CASE Discard(i)
    <3>1. LogTop >= Ends(i)
      BY <2>1 DEF Discard, ForwardLanded
    <3>2. /\ history[i].base \in Nat /\ Ends(i) \in Nat /\ Carries(i) = (history[i].base + 1)..Ends(i)
          /\ LogTop \in Nat /\ Versions = 1..LogTop
      BY WriteFacts DEF Numbered, NoHole
    <3> QED
      BY <3>1, <3>2
  <2>2. CASE PurgeDead(i)
    BY <2>2 DEF PurgeDead
  <2> QED
    BY <2>1, <2>2
<1> QED
  BY <1>1, <1>2, <1>3, <1>4, LaneLeave

\* replay belongs to a lane that is not kept.
LEMMA ReplayStep == ASSUME IndInv, NEW i \in 1..Len(history), Replay(i) PROVE IndInv'
<1> USE DEF IndInv
<1>1. /\ UNCHANGED <<row, writer, history, dead, lease, lapsed, archive, log, work, odd, faults>>
      /\ hot' = hot \cup {i} /\ "replays" \in odd
  BY DEF Replay
<1>2. TypeOK'
  BY <1>1 DEF TypeOK
<1>3. WriterOK' /\ WorkOK' /\ Numbered'
  BY <1>1, SameHistory, SameLog DEF WriterOK, WorkOK, Numbered
<1>4. NothingLost'
  BY <1>1, SameHistory, SameLog DEF NothingLost
<1>5. ~Kept'
  BY <1>1 DEF Kept
<1> QED
  BY <1>2, <1>3, <1>4, <1>5

\* So does a foreign event, which still leaves no hole.
LEMMA ForeignStep == ASSUME IndInv, ForeignAppend PROVE IndInv'
<1> USE DEF IndInv
<1> DEFINE f == [version |-> LogTop + 1, write |-> 0]
<1>1. UNCHANGED <<row, writer, history, table, work, odd, faults>> /\ log' = log \cup {f} /\ "foreign" \in odd
  BY DEF ForeignAppend
<1>2. LogTop \in Nat /\ Versions = 1..LogTop
  BY DEF Numbered, NoHole
<1>3. Versions' = Versions \cup {LogTop + 1}
  <2>1. Versions' = {e.version : e \in log \cup {f}} /\ f.version = LogTop + 1
    BY <1>1 DEF Versions
  <2> QED
    BY <2>1 DEF Versions
<1>4. Versions' = 1..(LogTop + 1)
  BY <1>2, <1>3
<1>5. LogTop' = LogTop + 1
  BY <1>2, <1>4, TopIsNext
<1>6. TypeOK'
  <2>1. f \in [version : Nat \ {0}, write : 0..Len(history)]
    BY <1>2, EndFacts
  <2> QED
    BY <1>1, <2>1, TypeStays DEF TypeOK, Steps
<1>7. Numbered'
  BY <1>2, <1>4, <1>5 DEF Numbered, NoHole
<1>8. WriterOK'
  BY <1>1, SameHistory DEF WriterOK
<1>9. WorkOK'
  <2> SUFFICES ASSUME NEW v \in Worker, NEW j, j = work[v].job
               PROVE  /\ j = 0 <=> work[v].step = "idle"
                      /\ work[v].step = "clear" => history[j].base <= LogTop + 1
                      /\ work[v].step = "landed" => Carries(j) \subseteq Versions'
    BY <1>1, <1>5, SameHistory DEF WorkOK
  <2>1. CASE work[v].step = "clear"
    <3>1. j \in 1..Len(history) /\ history[j].base <= LogTop
      BY <2>1, JobFacts DEF WorkOK
    <3>2. history[j].base \in Nat
      BY <3>1, WriteFacts
    <3> QED
      BY <1>2, <2>1, <3>1, <3>2 DEF WorkOK
  <2>2. CASE work[v].step # "clear"
    BY <1>3, <2>2 DEF WorkOK
  <2> QED
    BY <2>1, <2>2
<1>10. NothingLost'
  BY <1>1, <1>3, SameHistory DEF NothingLost, table
<1>11. ~Kept'
  BY <1>1 DEF Kept
<1> QED
  BY <1>6, <1>7, <1>8, <1>9, <1>10, <1>11
-----------------------------------------------------------------------------
(* The invariant *)

\* Nothing is written yet.
LEMMA InitHolds == Init => IndInv
<1> SUFFICES ASSUME Init PROVE IndInv
  OBVIOUS
<1> USE DEF Init
<1>1. Versions = {} /\ Versions = 1..0
  BY DEF Versions
<1>2. LogTop = 0
  BY <1>1, TopIs
<1>3. history = <<>> /\ Len(history) = 0 /\ history \in Seq([base : Nat, size : 1..MaxBatch])
  BY EmptySeq
<1>4. TypeOK
  <2>1. row \in Nat \cup {NoRow}
    OBVIOUS
  <2>2. writer \in [step : {"idle", "jobs", "log"}, adopts : BOOLEAN, seen : Nat \cup {None}]
    BY DEF Quiet
  <2>3. Idle \in [job : 0..Len(history), step : Steps]
    BY <1>3 DEF Idle, Steps
  <2>4. faults \in 0..MaxFaults
    BY LaneAssumption
  <2> QED
    BY <1>3, <2>1, <2>2, <2>3, <2>4 DEF TypeOK, Steps
<1>5. WriterOK
  BY DEF WriterOK, Quiet
<1>6. WorkOK
  BY DEF WorkOK, Idle
<1>7. Numbered
  BY <1>1, <1>2 DEF Numbered, NoHole
<1>8. NothingLost
  BY <1>3 DEF NothingLost
<1>9. Lane
  <2>1. InTurn
    BY <1>3 DEF InTurn
  <2>2. RowIsEnd /\ WriterSees
    BY <1>3 DEF RowIsEnd, WriterSees, Quiet
  <2>3. TableIsTail
    BY DEF TableIsTail
  <2>4. Whole
    BY <1>2, <1>3 DEF Whole, End, Idle
  <2> QED
    BY <2>1, <2>2, <2>3, <2>4 DEF Lane
<1> QED
  BY <1>4, <1>5, <1>6, <1>7, <1>8, <1>9 DEF IndInv

\* Every step of writers, workers, operators and others keeps the invariant.
LEMMA NextHolds == IndInv /\ [Next]_vars => IndInv'
<1> SUFFICES ASSUME IndInv, [Next]_vars PROVE IndInv'
  OBVIOUS
<1>1. CASE UNCHANGED vars
  <2>1. UNCHANGED <<row, writer, history, table, log, work, odd, faults>>
    BY <1>1 DEF vars, table
  <2>2. WriterOK' /\ (Kept => WriterSees')
    BY <2>1, SameHistory DEF IndInv, WriterOK, Lane, WriterSees, table
  <2> QED
    BY <2>1, <2>2, WriterStays DEF IndInv, TypeOK
<1>2. CASE Update \/ ReadJobs \/ ReadLog \/ Create \/ Rollback
  BY <1>2, UpdateStep, ReadJobsStep, ReadLogStep, CreateStep, RollbackStep
<1>3. ASSUME NEW w \in Worker, NEW i \in hot, Claim(w, i) PROVE IndInv'
  BY <1>3, ClaimStep
<1>4. ASSUME NEW w \in Worker, Step(w) \/ CallFails(w) \/ Crash(w) PROVE IndInv'
  BY <1>4, ReadTopStep, AppendStep, AckStep, FailStep, CallFailsStep, CrashStep DEF Step
<1>5. ASSUME NEW i \in 1..Len(history),
             Lapse(i) \/ Retry(i) \/ Discard(i) \/ PurgeDead(i) \/ Replay(i)
      PROVE  IndInv'
  BY <1>5, LapseStep, RetryStep, RemoveStep, ReplayStep
<1>6. CASE ForeignAppend
  BY <1>6, ForeignStep
<1> QED
  BY <1>1, <1>2, <1>3, <1>4, <1>5, <1>6 DEF Next

\* The invariant holds in every reachable state.
THEOREM Invariance == Spec => []IndInv
<1>1. Init => IndInv
  BY InitHolds
<1>2. IndInv /\ [Next]_vars => IndInv'
  BY NextHolds
<1> QED
  BY <1>1, <1>2, PTL DEF Spec

\* Jobs, leases, workers and events stay what they are declared to be.
THEOREM Typing == Spec => []TypeOK
<1>1. IndInv => TypeOK
  BY DEF IndInv
<1> QED
  BY <1>1, Invariance, PTL

\* A committed version is in the log, on its way there, or in the archive as a job that was purged
\* before its turn: whatever workers and operators do and however often they fail (assertForwardLanded, ack).
THEOREM NoVersionIsLost == Spec => []NothingLost
<1>1. IndInv => NothingLost
  BY DEF IndInv
<1> QED
  BY <1>1, Invariance, PTL

\* A write continues the version count of the one before it although it reads jobs and log one after the
\* other while workers move events from one to the other (pendingTop before highestVersion).
THEOREM VersionsContinue == Spec => []HistoryContinues
<1>1. IndInv => HistoryContinues
  BY DEF IndInv, Kept, Lane, InTurn, HistoryContinues
<1> QED
  BY <1>1, Invariance, PTL

\* The log has no hole in any circumstance, and in a lane that is kept it holds exactly the first events
\* that were committed (runForward's look at the top, append's contract).
THEOREM LogIsWhatWasCommitted == Spec => []LogIsPrefix
<1>1. ASSUME IndInv, Kept
      PROVE  log = UNION {{e \in Events(i) : e.version <= LogTop} : i \in 1..Len(history)}
  <2> USE DEF IndInv
  <2>1. InTurn /\ Whole /\ TypeOK /\ Numbered
    BY <1>1 DEF Lane
  <2>2. ASSUME NEW e \in log PROVE \E i \in 1..Len(history) : e \in Events(i) /\ e.version <= LogTop
    <3>1. /\ e = [version |-> e.version, write |-> e.write] /\ e.version \in Nat \ {0}
          /\ e.write \in 0..Len(history) /\ e.write # 0 /\ e.version \in Carries(e.write)
      BY <2>1 DEF TypeOK, Whole
    <3>2. e.write \in 1..Len(history)
      BY <2>1, <3>1, EndFacts
    <3>3. e \in Events(e.write)
      BY <3>1 DEF Events
    <3>4. e.version \in Versions
      BY DEF Versions
    <3> QED
      BY <2>1, <3>1, <3>2, <3>3, <3>4, InLog
  <2>3. ASSUME NEW i \in 1..Len(history), NEW e \in Events(i), e.version <= LogTop PROVE e \in log
    <3>1. e.version \in Carries(i)
      BY DEF Events
    <3>2. e.version \in Nat \ {0}
      BY <2>1, <3>1, WriteFacts
    <3>3. e.version \in Versions
      BY <2>1, <2>3, <3>2, InLog
    <3>4. Events(i) \subseteq log
      BY <2>1, <3>3, SameEvents
    <3> QED
      BY <3>4
  <2> QED
    BY <2>2, <2>3
<1>2. IndInv => LogIsPrefix
  BY <1>1 DEF LogIsPrefix, Kept, IndInv, Numbered
<1> QED
  BY <1>2, Invariance, PTL

\* No worker's append is ever refused as somebody else's events where only the lane writes to the log.
NoConflict == odd \subseteq {"legacy"} => \A w \in Worker : work[w].step # "diverged"

\* A stale worker, a repeated append or a late answer never makes log.append answer CONFLICT, and so no
\* forward job of a kept lane dies of one (runForward's "diverged").
THEOREM AppendsNeverConflict == Spec => []NoConflict
<1>1. IndInv => NoConflict
  BY DEF IndInv, Kept, Lane, Whole, NoConflict
<1> QED
  BY <1>1, Invariance, PTL

\* A worker runs the head of the lane or a job that has left it.
HeadFirst == odd \subseteq {"legacy"} => \A w \in Worker, j \in hot : work[w].job <= j

\* No two forward jobs of a stream are under way in the wrong order, however many leases lapse (streamHead).
THEOREM OnlyTheHeadRuns == Spec => []HeadFirst
<1>1. IndInv => HeadFirst
  BY DEF IndInv, Kept, Lane, TableIsTail, HeadFirst
<1> QED
  BY <1>1, Invariance, PTL
=============================================================================
