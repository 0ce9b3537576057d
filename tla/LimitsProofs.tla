----------------------------- MODULE LimitsProofs -----------------------------
(***************************************************************************)
(* The gate and the queue of the workflow limits, for any workflows,       *)
(* limits, keys and caps, any number of runs, verbs and tries.             *)
(*                                                                         *)
(* That no run waits for a free slot is not inductive: while a promotion   *)
(* is open its runs may well fit.  NoneIdle adds those that hold a limit   *)
(* the open promotion looks at, and BlocksHold says why it may skip the    *)
(* ones behind a block: whatever frees them meanwhile has its own look to  *)
(* come.  That is so only because an override that runs out leaves a timer *)
(* (OverridesAreTimed).                                                    *)
(***************************************************************************)
EXTENDS Limits, FiniteSetTheorems, WellFoundedInduction, TLAPS

Free(r) == Blocking(wf[r], key[r]) = {}

\* A limit of r is about to be looked at: its timer saw a queued run, or has an override that ran out.
Due(r) == \E l \in Held(wf[r]) : \/ l \in looking
                                  \/ \E k \in Key : <<l, k>> \in timers /\ keys[l][k] = NoCap

\* The last look at a limit of r ran out of tries, or overlooked a run.
Known(r) == Held(wf[r]) \cap (cut \cup missed) # {}

\* The open promotion looks at a limit of r.
Among(r) == tx.op = "promote" /\ Held(wf[r]) \cap tx.among # {}

\* A key's override has its timer.
OverridesAreTimed == \A l \in Limit, k \in Key : keys[l][k] # NoCap => <<l, k>> \in timers

\* A promotion's last round is about no key, and the runs it passes over are stranded.
Shape == tx.op = "promote" => (tx.rest \/ tx.key = NoKey) /\ tx.ids \subseteq stranded

NoneIdle == \A r \in Run : Waiting(r) /\ Free(r) => Due(r) \/ Known(r) \/ Among(r)

\* Who is behind a block of the open promotion has no room, or somebody else is about to look.
BlocksHold == tx.op = "promote" => \A b \in tx.blocks, r \in Run :
    Waiting(r) /\ b.limit \in Held(wf[r]) /\ b.key \in {NoKey, key[r]} => ~Free(r) \/ Due(r)

IndInv == TypeOK /\ OverridesAreTimed /\ Shape /\ NoneIdle /\ BlocksHold
-----------------------------------------------------------------------------
(* The operators *)

StartTx == [op : {"start"}, run : Run]
PromoteTx == [op : {"promote"}, among : SUBSET Limit, key : Key \cup {NoKey}, rest : BOOLEAN,
              tried : 0..PromoteTries, ids : SUBSET Run, blocks : SUBSET Block, taken : SUBSET Run]

\* The open transaction's kind is its op.
LEMMA TxKinds ==
    ASSUME TypeOK
    PROVE  /\ tx = NoTx <=> tx.op = "none"
           /\ tx.op = "start" => tx \in StartTx
           /\ tx.op = "promote" => tx \in PromoteTx
           /\ tx.op \in {"none", "start", "promote"}
<1>1. tx \in {NoTx} \cup StartTx \cup PromoteTx
  BY Zenon DEF TypeOK, StartTx, PromoteTx
<1> QED
  BY <1>1 DEF NoTx, StartTx, PromoteTx

\* A fresh promotion is one.
LEMMA PromotionType ==
    ASSUME NEW a \in SUBSET Limit, NEW k \in Key \cup {NoKey}, NEW b \in BOOLEAN
    PROVE  /\ Promotion(a, k, b) \in PromoteTx
           /\ Promotion(a, k, b).among = a /\ Promotion(a, k, b).op = "promote"
           /\ Promotion(a, k, b).blocks = {} /\ Promotion(a, k, b).ids = {}
           /\ Promotion(a, k, b).key = k /\ Promotion(a, k, b).rest = b
  BY LimitsAssumption DEF Promotion, PromoteTx

LEMMA LookAtOne ==
    ASSUME NEW l \in Limit
    PROVE  LET p == Promotion({l}, NoKey, FALSE)
           IN  /\ p \in PromoteTx /\ p.op = "promote"
               /\ p.among = {l} /\ p.blocks = {} /\ p.ids = {} /\ p.key = NoKey
  BY LimitsAssumption DEF Promotion, PromoteTx

\* The limits of a workflow.
LEMMA HeldType == \A w \in Workflow : Held(w) \subseteq Limit /\ Own[w] \in Held(w)
BY LimitsAssumption DEF Held

Room(l, k) == l \notin paused /\ ~KeyFull(l, k) /\ ~Full(l, NoKey, total[l])

\* `check` returns no block when every limit of the run has room for it.
LEMMA FreeMeans ==
    ASSUME NEW r \in Run
    PROVE  /\ Free(r) <=> \A l \in Held(wf[r]) : Room(l, key[r])
           /\ Free(r)' <=> (\A l \in Held(wf[r]) : Room(l, key[r]))'
  BY DEF Free, Blocking, Room, Held

LEMMA NoBlockMeansRoom ==
    ASSUME NEW w, NEW k, Blocking(w, k) = {}
    PROVE  \A l \in Held(w) : Room(l, k)
  BY DEF Blocking, Room, Held

\* A block names a limit of the run that is paused or full, or full for its key.
LEMMA BlockMeans ==
    ASSUME NEW r \in Run, NEW b \in Blocking(wf[r], key[r])
    PROVE  /\ b.limit \in Held(wf[r])
           /\ \/ b.key = NoKey /\ ~Room(b.limit, key[r]) /\ (b.limit \in paused \/ Full(b.limit, NoKey, total[b.limit]))
              \/ b.key = key[r] /\ KeyFull(b.limit, key[r])
  BY DEF Blocking, Room, Held

\* The runs that hold a limit can be counted, and more of them count more.
LEMMA HoldingIsFinite ==
    ASSUME NEW l, NEW k
    PROVE  /\ IsFiniteSet(Holding(l, k)) /\ Cardinality(Holding(l, k)) \in Nat
           /\ IsFiniteSet(Holding(l, k)') /\ Cardinality(Holding(l, k)') \in Nat
<1>1. IsFiniteSet(Run)
  BY LimitsAssumption, FS_Interval DEF Run
<1>2. Holding(l, k) \subseteq Run /\ Holding(l, k)' \subseteq Run
  BY DEF Holding, Live
<1> QED
  BY <1>1, <1>2, FS_Subset, FS_CardinalityType

LEMMA HoldingGrows ==
    ASSUME NEW l, NEW k, Holding(l, k) \subseteq Holding(l, k)'
    PROVE  Cardinality(Holding(l, k)) <= Cardinality(Holding(l, k)')
  BY HoldingIsFinite, FS_Subset

\* No run gains room by a step that takes no holder, no pause and no cap off its limits.
LEMMA LessRoom ==
    ASSUME TypeOK, TypeOK', NEW r \in Run, UNCHANGED <<wf[r], key[r]>>, Free(r)',
           \A l \in Held(wf[r]) :
             /\ Holding(l, NoKey) \subseteq Holding(l, NoKey)'
             /\ Holding(l, key[r]) \subseteq Holding(l, key[r])'
             /\ l \in paused => l \in paused'
             /\ total'[l] <= total[l]
             /\ key[r] # NoKey => PerKeyOf(l, key[r])' <= PerKeyOf(l, key[r])
    PROVE  Free(r)
<1> SUFFICES ASSUME NEW l \in Held(wf[r]) PROVE Room(l, key[r])
  BY FreeMeans
<1>1. Room(l, key[r])'
  BY FreeMeans
<1>2. l \in Limit /\ key[r] \in Key \cup {NoKey}
  BY HeldType DEF TypeOK
<1>3. l \notin paused
  BY <1>1 DEF Room
<1>4. ~Full(l, NoKey, total[l])
  <2>1. ~(Cardinality(Holding(l, NoKey)') >= total'[l])
    BY <1>1 DEF Room, Full
  <2>2. total[l] \in Nat /\ total'[l] \in Nat
    BY <1>2, LimitsAssumption DEF TypeOK, Value
  <2>3. Cardinality(Holding(l, NoKey)) <= Cardinality(Holding(l, NoKey)') /\ total'[l] <= total[l]
    BY HoldingGrows
  <2>4. Cardinality(Holding(l, NoKey)) \in Nat /\ Cardinality(Holding(l, NoKey)') \in Nat
    BY HoldingIsFinite
  <2> QED
    BY <2>1, <2>2, <2>3, <2>4 DEF Full
<1>5. ~KeyFull(l, key[r])
  <2> SUFFICES ASSUME key[r] # NoKey PROVE ~Full(l, key[r], PerKeyOf(l, key[r]))
    BY DEF KeyFull
  <2> DEFINE k == key[r]
  <2>1. k \in Key /\ key'[r] = k
    BY <1>2
  <2>2. PerKeyOf(l, k) \in Nat /\ PerKeyOf(l, key[r])' \in Nat
    BY <1>2, <2>1, LimitsAssumption DEF TypeOK, Value, PerKeyOf, NoCap
  <2>3. ~(Cardinality(Holding(l, key[r])') >= PerKeyOf(l, key[r])')
    BY <1>1, <2>1 DEF Room, KeyFull, Full
  <2>4. PerKeyOf(l, key[r])' <= PerKeyOf(l, k)
    OBVIOUS
  <2>5. Cardinality(Holding(l, k)) \in Nat /\ Cardinality(Holding(l, k)) <= Cardinality(Holding(l, key[r])')
        /\ Cardinality(Holding(l, key[r])') \in Nat
    <3>1. Holding(l, k) \subseteq Run /\ Holding(l, key[r])' \subseteq Run /\ Holding(l, k) \subseteq Holding(l, key[r])'
      BY DEF Holding, Live
    <3>2. IsFiniteSet(Run)
      BY LimitsAssumption, FS_Interval DEF Run
    <3> QED
      BY <3>1, <3>2, FS_Subset, FS_CardinalityType
  <2> QED
    BY <2>2, <2>3, <2>4, <2>5 DEF Full
<1> QED
  BY <1>3, <1>4, <1>5 DEF Room

\* Oldest is a candidate, and none is older.
LEMMA OldestIsLeast ==
    ASSUME Candidates # {}
    PROVE  Oldest \in Candidates /\ \A q \in Candidates : Oldest <= q
<1>1. Candidates \subseteq Nat
  BY LimitsAssumption DEF Candidates, Queued, Run
<1>2. \A a, b \in Nat : a < b => <<a, b>> \in OpToRel(<, Nat)
  BY DEF OpToRel
<1>3. PICK r \in Candidates : \A q \in Candidates : ~ (<<q, r>> \in OpToRel(<, Nat))
  BY <1>1, NatLessThanWellFounded, WFMin
<1>4. ASSUME NEW q \in Candidates PROVE r <= q
  <2>1. r \in Nat /\ q \in Nat
    BY <1>1
  <2>2. ~ (q < r)
    BY <1>2, <1>3, <2>1, Zenon
  <2> QED
    BY <2>1, <2>2
<1> QED
  BY <1>4 DEF Oldest
-----------------------------------------------------------------------------
(* Typing *)

LEMMA TypeInit == Init => TypeOK
<1> SUFFICES ASSUME Init PROVE TypeOK
  OBVIOUS
<1>1. (CHOOSE w \in Workflow : TRUE) \in Workflow
  BY LimitsAssumption
<1> QED
  BY <1>1, LimitsAssumption DEF Init, TypeOK, NoTx, Value, NoCap

\* The step of a promotion on one candidate, field by field.
LEMMA TryEffects ==
    ASSUME TypeOK, PromoteTry
    PROVE  /\ tx \in PromoteTx /\ tx' \in PromoteTx /\ Oldest \in Candidates
           /\ UNCHANGED <<wf, key, past, stranded, rows, timers, looking, cut, missed, verbs>>
           /\ tx'.among = tx.among /\ tx'.key = tx.key /\ tx'.rest = tx.rest
           /\ \/ /\ UNCHANGED state /\ tx'.blocks = tx.blocks
                 /\ Oldest \in stranded /\ tx'.ids = tx.ids \cup {Oldest}
              \/ /\ UNCHANGED state /\ tx'.ids = tx.ids
                 /\ \E b \in Blocking(wf[Oldest], key[Oldest]) : tx'.blocks = tx.blocks \cup {b}
              \/ /\ Blocking(wf[Oldest], key[Oldest]) = {} /\ state' = [state EXCEPT ![Oldest] = "live"]
                 /\ tx'.blocks = tx.blocks /\ tx'.ids = tx.ids
<1>1. tx \in PromoteTx /\ tx.tried < PromoteTries /\ Candidates # {}
  BY TxKinds DEF PromoteTry
<1>2. Oldest \in Candidates
  BY <1>1, OldestIsLeast
<1>3. Oldest \in Run /\ wf[Oldest] \in Workflow /\ key[Oldest] \in Key \cup {NoKey}
  BY <1>2 DEF Candidates, Queued, TypeOK
<1>4. \A b \in Blocking(wf[Oldest], key[Oldest]) : b \in Block
  BY <1>3, HeldType DEF Blocking, Block, Held
<1>5. tx.tried + 1 \in 0..PromoteTries
  BY <1>1, LimitsAssumption DEF PromoteTx
<1>6. UNCHANGED <<wf, key, past, stranded, rows, timers, looking, cut, missed, verbs>>
  BY DEF PromoteTry
<1>7. CASE Oldest \in stranded /\ tx' = [tx EXCEPT !.tried = @ + 1, !.ids = @ \cup {Oldest}] /\ UNCHANGED state
  BY <1>1, <1>2, <1>3, <1>5, <1>6, <1>7 DEF PromoteTx
<1>8. ASSUME NEW b \in Blocking(wf[Oldest], key[Oldest]),
             tx' = [tx EXCEPT !.tried = @ + 1, !.blocks = @ \cup {b}] /\ UNCHANGED state
      PROVE  /\ tx' \in PromoteTx
             /\ tx'.among = tx.among /\ tx'.key = tx.key /\ tx'.rest = tx.rest /\ tx'.ids = tx.ids
             /\ tx'.blocks = tx.blocks \cup {b}
  BY <1>1, <1>4, <1>5, <1>8 DEF PromoteTx
<1>9. CASE /\ Blocking(wf[Oldest], key[Oldest]) = {} /\ state' = [state EXCEPT ![Oldest] = "live"]
           /\ tx' = [tx EXCEPT !.tried = @ + 1, !.taken = @ \cup {Oldest}]
  BY <1>1, <1>2, <1>3, <1>5, <1>6, <1>9 DEF PromoteTx
<1> QED
  BY <1>1, <1>2, <1>6, <1>7, <1>8, <1>9 DEF PromoteTry

\* The end of a promotion's round.
LEMMA EndEffects ==
    ASSUME TypeOK, PromoteEnd
    PROVE  /\ tx \in PromoteTx
           /\ UNCHANGED <<state, wf, key, past, stranded, rows, timers, looking, verbs>>
           /\ \/ /\ tx' \in PromoteTx /\ tx'.among = tx.among /\ tx'.ids = tx.ids /\ tx'.blocks = tx.blocks
                 /\ tx'.key = NoKey /\ UNCHANGED <<cut, missed>>
              \/ /\ ~tx.rest /\ tx' = NoTx
                 /\ \/ Candidates = {} /\ cut' = cut \ tx.among /\ missed' = missed \ tx.among
                    \/ Candidates # {} /\ cut' = cut \cup tx.among /\ missed' = missed
<1>1. tx \in PromoteTx
  BY TxKinds DEF PromoteEnd
<1>2. CASE tx.rest
  <2>1. /\ tx' = [tx EXCEPT !.key = NoKey, !.rest = FALSE, !.tried = 0] /\ UNCHANGED <<cut, missed>>
        /\ UNCHANGED <<state, wf, key, past, stranded, rows, timers, looking, verbs>>
    BY <1>2, Zenon DEF PromoteEnd
  <2>2. /\ tx'.among = tx.among /\ tx'.ids = tx.ids /\ tx'.blocks = tx.blocks /\ tx'.key = NoKey
    BY <1>1, <2>1 DEF PromoteTx
  <2>3. tx' \in PromoteTx
    <3>1. 0 \in 0..PromoteTries
      BY LimitsAssumption
    <3> QED
      BY <1>1, <2>1, <3>1, Zenon DEF PromoteTx
  <2> QED
    BY <1>1, <2>1, <2>2, <2>3
<1>3. CASE ~tx.rest
  BY <1>1, <1>3 DEF PromoteEnd
<1> QED
  BY <1>2, <1>3

\* Every step keeps the types.
LEMMA TypeStep == TypeOK /\ [Next]_vars => TypeOK'
<1> SUFFICES ASSUME TypeOK, [Next]_vars PROVE TypeOK'
  OBVIOUS
<1>1. ASSUME NEW w \in Workflow, NEW k \in Key \cup {NoKey}, Start(w, k) PROVE TypeOK'
  <2>1. PICK r \in Run : /\ state' = [state EXCEPT ![r] = IF Blocking(w, k) = {} THEN "live" ELSE "queued"]
                         /\ wf' = [wf EXCEPT ![r] = w] /\ key' = [key EXCEPT ![r] = k]
                         /\ tx' = [op |-> "start", run |-> r]
                         /\ UNCHANGED <<past, stranded, rows, timers, looking, cut, missed, verbs>>
    BY <1>1 DEF Start
  <2>2. tx' \in StartTx
    BY <2>1 DEF StartTx
  <2> QED
    BY <2>1, <2>2 DEF TypeOK, StartTx, rows
<1>2. CASE Commit
  BY <1>2 DEF Commit, TypeOK, rows
<1>3. CASE PromoteTry
  <2>1. state' \in [Run -> {"none", "queued", "live", "completed", "undoing", "over"}]
    BY <1>3, TryEffects DEF TypeOK
  <2>2. /\ tx' \in PromoteTx
        /\ UNCHANGED <<wf, key, past, stranded, rows, timers, looking, cut, missed, verbs>>
    BY <1>3, TryEffects
  <2> QED
    BY <2>1, <2>2 DEF TypeOK, PromoteTx, rows
<1>4. CASE PromoteEnd
  <2>1. /\ tx' \in PromoteTx \cup {NoTx} /\ cut' \subseteq Limit /\ missed' \subseteq Limit
        /\ UNCHANGED <<state, wf, key, past, stranded, rows, timers, looking, verbs>>
    BY <1>4, EndEffects DEF TypeOK, PromoteTx
  <2> QED
    BY <2>1 DEF TypeOK, PromoteTx, rows
<1>5. ASSUME NEW r \in Run, End(r) PROVE TypeOK'
  <2>1. /\ state' \in [Run -> {"none", "queued", "live", "completed", "undoing", "over"}] /\ past' \subseteq Run
        /\ UNCHANGED <<wf, key, stranded, rows, timers, looking, cut, missed, verbs>>
    BY <1>5 DEF End, TypeOK
  <2>2. tx' \in PromoteTx
    BY <1>5, PromotionType, HeldType DEF End, AfterEnd, TypeOK
  <2> QED
    BY <2>1, <2>2 DEF TypeOK, PromoteTx, rows
<1>6. ASSUME NEW r \in Run, Reopen(r) \/ TtlPasses(r) \/ Reschedule(r) \/ Strand(r) PROVE TypeOK'
  <2>1. state' \in [Run -> {"none", "queued", "live", "completed", "undoing", "over"}]
    BY <1>6 DEF Reopen, TtlPasses, Reschedule, Strand, TypeOK
  <2>2. past' \subseteq Run /\ stranded' \subseteq Run
    BY <1>6 DEF Reopen, TtlPasses, Reschedule, Strand, TypeOK
  <2>3. missed' \subseteq Limit
    BY <1>6, HeldType DEF Reopen, TtlPasses, Reschedule, Strand, TypeOK
  <2>4. UNCHANGED <<wf, key, rows, timers, looking, cut, verbs, tx>>
    BY <1>6 DEF Reopen, TtlPasses, Reschedule, Strand
  <2> QED
    BY <2>1, <2>2, <2>3, <2>4 DEF TypeOK, rows
<1>7. ASSUME NEW l \in Touched, Change(l), 
             paused' \subseteq Limit, total' \in [Limit -> Value], perKey' \in [Limit -> Value],
             keys' \in [Limit -> [Key -> Value \cup {NoCap}]], timers' \subseteq Limit \X Key
      PROVE  TypeOK'
  <2>1. verbs' \in 0..MaxVerbs
    BY <1>7, LimitsAssumption DEF Change, TypeOK
  <2>2. tx' \in PromoteTx
    BY <1>7, LookAtOne, LimitsAssumption DEF Change
  <2> QED
    BY <1>7, <2>1, <2>2 DEF Change, TypeOK, PromoteTx
<1>8. ASSUME NEW l \in Touched, NEW v \in Pairs, Override(l, v[1], v[2]) PROVE TypeOK'
  <2>1. v[1] \in Value /\ v[2] \in Value /\ l \in Limit
    BY LimitsAssumption
  <2> QED
    BY <1>7, <1>8, <2>1 DEF Override, TypeOK
<1>9. ASSUME NEW l \in Touched, NEW k \in Key, NEW n \in Values, OverrideKey(l, k, n) PROVE TypeOK'
  <2>1. n \in Value /\ l \in Limit
    BY LimitsAssumption
  <2>2. keys' \in [Limit -> [Key -> Value \cup {NoCap}]]
    BY <1>9, <2>1 DEF OverrideKey, TypeOK
  <2> QED
    BY <1>7, <1>9, <2>1, <2>2 DEF OverrideKey, TypeOK
<1>10. ASSUME NEW l \in Touched, Reset(l) PROVE TypeOK'
  <2>1. l \in Limit /\ Total[l] \in Value /\ PerKey[l] \in Value
    BY LimitsAssumption
  <2>2. keys' \in [Limit -> [Key -> Value \cup {NoCap}]]
    BY <1>10, <2>1 DEF Reset, TypeOK
  <2> QED
    BY <1>7, <1>10, <2>1, <2>2 DEF Reset, TypeOK
<1>11. ASSUME NEW l \in Touched, NEW k \in Key, ResetKey(l, k) PROVE TypeOK'
  <2>1. l \in Limit
    BY LimitsAssumption
  <2>2. keys' \in [Limit -> [Key -> Value \cup {NoCap}]]
    BY <1>11, <2>1 DEF ResetKey, TypeOK
  <2> QED
    BY <1>7, <1>11, <2>1, <2>2 DEF ResetKey, TypeOK
<1>12. ASSUME NEW l \in Touched, Resume(l) PROVE TypeOK'
  BY <1>7, <1>12 DEF Resume, TypeOK
<1>13. ASSUME NEW l \in Touched, Pause(l) PROVE TypeOK'
  BY <1>13, LimitsAssumption DEF Pause, TypeOK
<1>14. ASSUME NEW l \in Touched, NEW k \in Key, Expire(l, k) PROVE TypeOK'
  <2>1. l \in Limit
    BY LimitsAssumption
  <2>2. keys' \in [Limit -> [Key -> Value \cup {NoCap}]]
    BY <1>14, <2>1 DEF Expire, TypeOK
  <2> QED
    BY <1>14, <2>2 DEF Expire, TypeOK
<1>15. ASSUME NEW l \in Touched, NEW k \in Key, Look(l, k) PROVE TypeOK'
  <2>1. /\ timers' \subseteq Limit \X Key /\ looking' \subseteq Limit /\ missed' \subseteq Limit
        /\ UNCHANGED <<state, wf, key, past, stranded, rows, cut, verbs, tx>>
    BY <1>15, LimitsAssumption DEF Look, TypeOK
  <2> QED
    BY <2>1 DEF TypeOK, rows
<1>16. ASSUME NEW l \in Touched, PromoteLimit(l) PROVE TypeOK'
  <2>1. tx' \in PromoteTx
    BY <1>16, LookAtOne, LimitsAssumption DEF PromoteLimit
  <2> QED
    BY <1>16, <2>1 DEF PromoteLimit, TypeOK, PromoteTx, rows
<1>17. CASE UNCHANGED vars
  BY <1>17 DEF vars, TypeOK
<1> QED
  BY <1>1, <1>2, <1>3, <1>4, <1>5, <1>6, <1>8, <1>9, <1>10, <1>11, <1>12, <1>13, <1>14, <1>15, <1>16, <1>17 DEF Next

\* The types hold in every reachable state.
THEOREM Typing == Spec => []TypeOK
BY TypeInit, TypeStep, PTL DEF Spec
-----------------------------------------------------------------------------
(* No idle slot *)

\* With the same runs and the same caps a run fits as before.
LEMMA SameRoom ==
    ASSUME NEW r \in Run, UNCHANGED <<state, wf, key, rows>>
    PROVE  Free(r)' <=> Free(r)
<1>1. \A l, k : Holding(l, k)' = Holding(l, k)
  BY DEF Holding, Live
<1> QED
  BY <1>1 DEF Free, Blocking, Full, KeyFull, PerKeyOf, rows

\* More live runs leave less room.
LEMMA MoreLive ==
    ASSUME TypeOK, TypeOK', UNCHANGED <<wf, key, rows>>, Live \subseteq Live', NEW r \in Run, Free(r)'
    PROVE  Free(r)
<1>1. \A l, k : Holding(l, k) \subseteq Holding(l, k)'
  BY DEF Holding
<1>2. \A l \in Held(wf[r]) : Holding(l, key[r]) \subseteq Holding(l, key[r])'
  BY <1>1 DEF Holding
<1>3. \A l \in Held(wf[r]) : total'[l] <= total[l]
  BY HeldType, LimitsAssumption DEF TypeOK, Value, rows
<1>4. ASSUME NEW l \in Held(wf[r]), key[r] # NoKey
      PROVE  PerKeyOf(l, key[r])' <= PerKeyOf(l, key[r])
  <2>1. l \in Limit /\ key[r] \in Key
    BY <1>4, HeldType DEF TypeOK
  <2>2. PerKeyOf(l, key[r])' = PerKeyOf(l, key[r]) /\ PerKeyOf(l, key[r]) \in Nat
    BY <2>1, LimitsAssumption DEF PerKeyOf, TypeOK, Value, NoCap, rows
  <2> QED
    BY <2>2
<1>5. UNCHANGED <<wf[r], key[r]>> /\ UNCHANGED paused
  BY DEF rows
<1> QED
  BY <1>1, <1>2, <1>3, <1>4, <1>5, LessRoom

\* Who is due stays due while no timer is taken off and no look begins.
LEMMA DueStays ==
    ASSUME NEW r \in Run, Due(r), UNCHANGED <<wf, looking, timers, keys>>
    PROVE  Due(r)'
BY DEF Due

\* A start: who queues has no room, who goes live leaves less.
LEMMA StartKeeps ==
    ASSUME IndInv, TypeOK', NEW w \in Workflow, NEW k \in Key \cup {NoKey}, Start(w, k)
    PROVE  IndInv'
<1>1. PICK r0 \in Run : /\ tx = NoTx /\ state[r0] = "none"
                        /\ state' = [state EXCEPT ![r0] = IF Blocking(w, k) = {} THEN "live" ELSE "queued"]
                        /\ wf' = [wf EXCEPT ![r0] = w] /\ key' = [key EXCEPT ![r0] = k]
                        /\ tx' = [op |-> "start", run |-> r0]
                        /\ UNCHANGED <<past, stranded, rows, timers, looking, cut, missed, verbs>>
  BY DEF Start
<1> USE DEF IndInv
<1>2. OverridesAreTimed' /\ Shape' /\ BlocksHold'
  BY <1>1 DEF OverridesAreTimed, Shape, BlocksHold, rows
<1>3. ASSUME NEW r \in Run, Waiting(r)', Free(r)' PROVE Due(r)' \/ Known(r)'
  <2>1. r0 \notin Live /\ \A q \in Live : q \in Live' /\ wf'[q] = wf[q] /\ key'[q] = key[q]
    BY <1>1 DEF Live, TypeOK
  <2>2. \A l, kk : Holding(l, kk) \subseteq Holding(l, kk)'
    BY <2>1 DEF Holding
  <2>3. CASE r = r0
    <3>1. Blocking(w, k) # {} /\ wf'[r] = w /\ key'[r] = k
      BY <1>1, <1>3, <2>3 DEF Waiting, Queued, TypeOK
    <3>2. Live' = Live
      BY <1>1, <3>1 DEF Live, TypeOK
    <3>3. \A l, kk : Holding(l, kk)' = Holding(l, kk)
      BY <2>1, <3>2 DEF Holding
    <3>4. Blocking(w, k)' = Blocking(w, k)
      BY <1>1, <3>3 DEF Blocking, Full, KeyFull, PerKeyOf, rows
    <3>5. Blocking(w, k)' = {}
      BY <1>3, <3>1 DEF Free
    <3> QED
      BY <3>1, <3>4, <3>5
  <2>4. CASE r # r0
    <3>1. wf'[r] = wf[r] /\ key'[r] = key[r] /\ state'[r] = state[r]
      BY <1>1, <2>4 DEF TypeOK
    <3>2. Waiting(r)
      BY <1>1, <1>3, <3>1 DEF Waiting, Queued
    <3>3. Free(r)
      <4>1. \A l \in Held(wf[r]) : Holding(l, key[r]) \subseteq Holding(l, key[r])'
        BY <2>1, <3>1 DEF Holding
      <4>2. \A l \in Held(wf[r]) : total'[l] <= total[l] /\ l \in Limit
        BY <1>1, HeldType, LimitsAssumption DEF TypeOK, Value, rows
      <4>3. ASSUME NEW l \in Held(wf[r]), key[r] # NoKey
            PROVE  PerKeyOf(l, key[r])' <= PerKeyOf(l, key[r])
        <5>1. l \in Limit /\ key[r] \in Key
          BY <4>2, <4>3 DEF TypeOK
        <5>2. PerKeyOf(l, key[r])' = PerKeyOf(l, key[r]) /\ PerKeyOf(l, key[r]) \in Nat
          BY <1>1, <3>1, <5>1, LimitsAssumption DEF PerKeyOf, TypeOK, Value, NoCap, rows
        <5> QED
          BY <5>2
      <4> QED
        BY <1>1, <1>3, <2>2, <3>1, <4>1, <4>2, <4>3, LessRoom DEF rows
    <3>4. ~Among(r)
      BY <1>1 DEF Among, NoTx
    <3>5. Due(r) \/ Known(r)
      BY <3>2, <3>3, <3>4 DEF NoneIdle
    <3> QED
      BY <1>1, <3>1, <3>5 DEF Due, Known, rows
  <2> QED
    BY <2>3, <2>4
<1> QED
  BY <1>2, <1>3 DEF NoneIdle

\* A promotion's candidate: one more live run leaves less room, and a block it meets is one for all behind it.
LEMMA TryKeeps ==
    ASSUME IndInv, TypeOK', PromoteTry
    PROVE  IndInv'
<1> USE DEF IndInv
<1>1. /\ tx \in PromoteTx /\ tx' \in PromoteTx /\ Oldest \in Candidates /\ Oldest \in Run
      /\ UNCHANGED <<wf, key, past, stranded, rows, timers, looking, cut, missed>> /\ UNCHANGED keys
      /\ tx'.among = tx.among /\ tx'.key = tx.key /\ tx'.rest = tx.rest /\ tx.op = "promote" /\ tx'.op = "promote"
  BY TryEffects DEF PromoteTx, Candidates, Queued, rows
<1>2. tx'.ids \subseteq tx.ids \cup stranded
  BY TryEffects
<1>3. Live \subseteq Live' /\ Queued' \subseteq Queued
  BY <1>1, TryEffects DEF Live, Queued, TypeOK
<1>4. OverridesAreTimed' /\ Shape'
  BY <1>1, <1>2 DEF OverridesAreTimed, Shape, PromoteTx
<1>5. \A r \in Run : (Free(r)' => Free(r)) /\ (Waiting(r)' => Waiting(r))
  BY <1>1, <1>3, MoreLive DEF Waiting
<1>6. NoneIdle'
  BY <1>1, <1>5 DEF NoneIdle, Due, Known, Among
<1>7. ASSUME NEW b \in tx'.blocks, NEW r \in Run,
             Waiting(r)', b.limit \in Held(wf'[r]), b.key \in {NoKey, key'[r]}, Free(r)'
      PROVE  Due(r)'
  <2>1. Waiting(r) /\ Free(r) /\ wf'[r] = wf[r] /\ key'[r] = key[r]
    BY <1>1, <1>5, <1>7
  <2>2. CASE b \in tx.blocks
    <3>1. Due(r)
      BY <1>1, <1>7, <2>1, <2>2 DEF BlocksHold
    <3> QED
      BY <1>1, <3>1, DueStays
  <2>3. CASE b \in Blocking(wf[Oldest], key[Oldest])
    <3>1. \A l \in Held(wf[r]) : Room(l, key[r])
      BY <2>1, FreeMeans
    <3>2. Room(b.limit, key[r])
      BY <1>7, <2>1, <3>1
    <3> QED
      BY <1>1, <1>7, <2>1, <2>3, <3>2, BlockMeans DEF Room, KeyFull
  <2>4. b \in tx.blocks \/ b \in Blocking(wf[Oldest], key[Oldest])
    BY <1>7, TryEffects
  <2> QED
    BY <2>2, <2>3, <2>4
<1>8. BlocksHold'
  BY <1>7 DEF BlocksHold
<1> QED
  BY <1>4, <1>6, <1>8

\* The end of a promotion: whoever it passed over is stranded or behind a block, and a block frees nobody who
\* is not due.
LEMMA EndKeeps ==
    ASSUME IndInv, TypeOK', PromoteEnd
    PROVE  IndInv'
<1> USE DEF IndInv
<1>1. /\ tx \in PromoteTx /\ tx.op = "promote"
      /\ UNCHANGED <<state, wf, key, past, stranded, rows, timers, looking>> /\ UNCHANGED keys
  BY EndEffects DEF PromoteTx, rows
<1>2. \A r \in Run : (Free(r)' <=> Free(r)) /\ (Waiting(r)' <=> Waiting(r)) /\ (Due(r) => Due(r)')
  BY <1>1, SameRoom, DueStays DEF Waiting, Queued
<1>3. OverridesAreTimed'
  BY <1>1 DEF OverridesAreTimed
<1>4. CASE /\ tx' \in PromoteTx /\ tx'.among = tx.among /\ tx'.ids = tx.ids /\ tx'.blocks = tx.blocks
           /\ tx'.key = NoKey /\ UNCHANGED <<cut, missed>>
  <2>1. tx'.op = "promote"
    BY <1>4 DEF PromoteTx
  <2>2. Shape'
    BY <1>1, <1>4 DEF Shape
  <2>3. NoneIdle'
    BY <1>1, <1>2, <1>4, <2>1 DEF NoneIdle, Known, Among
  <2>4. BlocksHold'
    BY <1>1, <1>2, <1>4 DEF BlocksHold
  <2> QED
    BY <1>3, <2>2, <2>3, <2>4
<1>5. CASE ~tx.rest /\ tx' = NoTx /\ Candidates # {} /\ cut' = cut \cup tx.among /\ missed' = missed
  <2>1. Shape' /\ BlocksHold'
    BY <1>5 DEF Shape, BlocksHold, NoTx
  <2>2. NoneIdle'
    BY <1>1, <1>2, <1>5 DEF NoneIdle, Known, Among
  <2> QED
    BY <1>3, <2>1, <2>2
<1>6. CASE ~tx.rest /\ tx' = NoTx /\ Candidates = {} /\ cut' = cut \ tx.among /\ missed' = missed \ tx.among
  <2>1. Shape' /\ BlocksHold'
    BY <1>6 DEF Shape, BlocksHold, NoTx
  <2>2. ASSUME NEW r \in Run, Waiting(r), Free(r) PROVE Due(r) \/ Known(r)'
    <3>1. CASE Held(wf[r]) \cap tx.among = {}
      <4>1. Due(r) \/ Known(r)
        BY <2>2, <3>1 DEF NoneIdle, Among
      <4> QED
        BY <1>1, <1>6, <3>1, <4>1 DEF Known
    <3>2. CASE Held(wf[r]) \cap tx.among # {}
      <4>1. r \in Queued \ past /\ r \notin stranded /\ tx.key = NoKey /\ tx.ids \subseteq stranded
        BY <1>1, <1>6, <2>2 DEF Waiting, Shape
      <4>2. Skipped(r)
        BY <1>6, <3>2, <4>1 DEF Candidates
      <4>3. PICK b \in tx.blocks : b.limit \in Held(wf[r]) /\ (b.key = NoKey \/ b.key = key[r])
        BY <4>1, <4>2 DEF Skipped
      <4> QED
        BY <1>1, <2>2, <4>3 DEF BlocksHold
    <3> QED
      BY <3>1, <3>2
  <2>3. NoneIdle'
    BY <1>2, <2>2 DEF NoneIdle
  <2> QED
    BY <1>3, <2>1, <2>3
<1> QED
  BY <1>4, <1>5, <1>6, EndEffects

\* The caps a run is under, when no row of its limits changes.
LEMMA SameCaps ==
    ASSUME TypeOK, NEW r \in Run, NEW l \in Held(wf[r]), wf'[r] = wf[r], key'[r] = key[r],
           total'[l] = total[l], perKey'[l] = perKey[l], keys'[l] = keys[l]
    PROVE  /\ total'[l] <= total[l]
           /\ key[r] # NoKey => PerKeyOf(l, key[r])' <= PerKeyOf(l, key[r])
<1>1. l \in Limit /\ total[l] \in Nat
  BY HeldType, LimitsAssumption DEF TypeOK, Value
<1>2. ASSUME key[r] # NoKey PROVE PerKeyOf(l, key[r])' = PerKeyOf(l, key[r]) /\ PerKeyOf(l, key[r]) \in Nat
  BY <1>1, <1>2, LimitsAssumption DEF PerKeyOf, TypeOK, Value, NoCap
<1> QED
  BY <1>1, <1>2

\* A run ends: its promotion looks at all its limits, and at no other limit did a slot come free.
LEMMA RunEndKeeps ==
    ASSUME IndInv, TypeOK', NEW r0 \in Run, End(r0)
    PROVE  IndInv'
<1> USE DEF IndInv
<1>1. /\ tx = NoTx /\ past' = past \ {r0}
      /\ tx' = Promotion(Held(wf[r0]), key[r0], key[r0] # NoKey)
      /\ UNCHANGED <<wf, key, stranded, timers, looking, cut, missed>> /\ UNCHANGED <<paused, total, perKey, keys>>
  BY DEF End, AfterEnd, rows
<1>2. PICK s \in {"completed", "over"} : state' = [state EXCEPT ![r0] = s]
  BY DEF End
<1>3. /\ tx'.among = Held(wf[r0]) /\ tx'.op = "promote" /\ tx'.blocks = {} /\ tx'.ids = {}
      /\ tx'.rest \/ tx'.key = NoKey
  BY <1>1, Zenon DEF Promotion
<1>4. OverridesAreTimed' /\ Shape' /\ BlocksHold'
  BY <1>1, <1>3 DEF OverridesAreTimed, Shape, BlocksHold
<1>5. ASSUME NEW r \in Run, Waiting(r)', Free(r)', Held(wf[r]) \cap Held(wf[r0]) = {}
      PROVE  Due(r)' \/ Known(r)'
  <2>1. r # r0
    BY <1>5 DEF Held
  <2>2. Waiting(r)
    BY <1>1, <1>2, <1>5, <2>1 DEF Waiting, Queued, TypeOK
  <2>3. \A l \in Held(wf[r]) : Holding(l, NoKey) \subseteq Holding(l, NoKey)'
    BY <1>1, <1>2, <1>5 DEF Holding, Live, TypeOK
  <2>4. \A l \in Held(wf[r]) : Holding(l, key[r]) \subseteq Holding(l, key[r])'
    BY <1>1, <1>2, <1>5 DEF Holding, Live, TypeOK
  <2>5. Free(r)
    <3>1. /\ UNCHANGED <<wf[r], key[r]>>
          /\ \A l \in Held(wf[r]) : total'[l] = total[l] /\ perKey'[l] = perKey[l] /\ keys'[l] = keys[l]
      BY <1>1
    <3>2. ASSUME NEW l \in Held(wf[r])
          PROVE  /\ total'[l] <= total[l]
                 /\ key[r] # NoKey => PerKeyOf(l, key[r])' <= PerKeyOf(l, key[r])
      BY <3>1, SameCaps
    <3> QED
      BY <1>1, <1>5, <2>3, <2>4, <3>1, <3>2, LessRoom
  <2>6. ~Among(r)
    BY <1>1 DEF Among, NoTx
  <2>7. Due(r) \/ Known(r)
    BY <2>2, <2>5, <2>6 DEF NoneIdle
  <2> QED
    BY <1>1, <2>7, DueStays DEF Known
<1>6. NoneIdle'
  BY <1>1, <1>3, <1>5 DEF NoneIdle, Among
<1> QED
  BY <1>4, <1>6

\* A child reopened takes a slot; a ttl, a reschedule and a deploy change who waits.
LEMMA RunStepKeeps ==
    ASSUME IndInv, TypeOK', NEW r0 \in Run, Reopen(r0) \/ TtlPasses(r0) \/ Reschedule(r0) \/ Strand(r0)
    PROVE  IndInv'
<1> USE DEF IndInv
<1>1. /\ UNCHANGED <<wf, key, rows, timers, looking, cut, tx>> /\ UNCHANGED keys
      /\ missed \subseteq missed' /\ stranded \subseteq stranded'
  BY DEF Reopen, TtlPasses, Reschedule, Strand, rows
<1>2. Live \subseteq Live' /\ Queued' = Queued
  BY DEF Reopen, TtlPasses, Reschedule, Strand, Live, Queued, TypeOK
<1>3. \A r \in Run : Free(r)' => Free(r)
  BY <1>1, <1>2, MoreLive
<1>4. OverridesAreTimed' /\ Shape'
  BY <1>1 DEF OverridesAreTimed, Shape
<1>5. \A r \in Run : (Due(r)' <=> Due(r)) /\ (Among(r)' <=> Among(r)) /\ (Known(r) => Known(r)')
  BY <1>1 DEF Due, Among, Known
<1>6. CASE \A r \in Run : Waiting(r)' => Waiting(r)
  <2>1. NoneIdle'
    BY <1>3, <1>5, <1>6 DEF NoneIdle
  <2>2. BlocksHold'
    BY <1>1, <1>3, <1>5, <1>6 DEF BlocksHold
  <2> QED
    BY <1>4, <2>1, <2>2
<1>7. CASE Reschedule(r0)
  <2>1. tx = NoTx /\ past' = past \ {r0} /\ UNCHANGED <<state, stranded>>
    BY <1>7 DEF Reschedule
  <2>2. Free(r0) => Known(r0)'
    <3>1. ASSUME Free(r0) PROVE missed' = missed \cup Held(wf[r0])
      BY <1>7, <3>1 DEF Reschedule, Free
    <3> QED
      BY <1>1, <3>1 DEF Known, Held
  <2>3. \A r \in Run \ {r0} : Waiting(r)' => Waiting(r)
    BY <1>2, <2>1 DEF Waiting
  <2>4. NoneIdle'
    BY <1>3, <1>5, <2>2, <2>3 DEF NoneIdle
  <2>5. BlocksHold'
    BY <1>1, <2>1 DEF BlocksHold, NoTx
  <2> QED
    BY <1>4, <2>4, <2>5
<1>8. ~Reschedule(r0) => past \subseteq past'
  BY DEF Reopen, TtlPasses, Strand
<1> QED
  BY <1>1, <1>2, <1>6, <1>7, <1>8 DEF Waiting

\* A verb changes one limit's row and looks at that limit.
LEMMA ChangeKeeps ==
    ASSUME IndInv, TypeOK', NEW l \in Limit, Change(l), OverridesAreTimed', timers \subseteq timers',
           \A m \in Limit \ {l} : /\ m \in paused => m \in paused'
                                  /\ total'[m] = total[m] /\ perKey'[m] = perKey[m] /\ keys'[m] = keys[m]
    PROVE  IndInv'
<1> USE DEF IndInv
<1>1. tx = NoTx /\ tx' = Promotion({l}, NoKey, FALSE) /\ UNCHANGED <<state, wf, key, past, stranded, looking, cut, missed>>
  BY DEF Change
<1>2. tx'.among = {l} /\ tx'.op = "promote" /\ tx'.blocks = {} /\ tx'.ids = {} /\ tx'.key = NoKey
  BY <1>1, LookAtOne
<1>3. Shape' /\ BlocksHold'
  BY <1>2 DEF Shape, BlocksHold
<1>4. ASSUME NEW r \in Run, Waiting(r)', Free(r)', l \notin Held(wf[r]) PROVE Due(r)' \/ Known(r)'
  <2>1. Waiting(r) /\ wf'[r] = wf[r] /\ key'[r] = key[r] /\ Held(wf[r]) \subseteq Limit \ {l}
    BY <1>1, <1>4, HeldType DEF Waiting, Queued, TypeOK
  <2>2. ASSUME NEW m \in Held(wf[r])
        PROVE  /\ Holding(m, NoKey) \subseteq Holding(m, NoKey)' /\ Holding(m, key[r]) \subseteq Holding(m, key[r])'
               /\ m \in paused => m \in paused'
               /\ total'[m] <= total[m]
               /\ key[r] # NoKey => PerKeyOf(m, key[r])' <= PerKeyOf(m, key[r])
    <3>1. Holding(m, NoKey) \subseteq Holding(m, NoKey)' /\ Holding(m, key[r]) \subseteq Holding(m, key[r])'
      BY <1>1 DEF Holding, Live
    <3>2. m \in paused => m \in paused'
      BY <2>1
    <3>3. total'[m] = total[m] /\ perKey'[m] = perKey[m] /\ keys'[m] = keys[m]
      BY <2>1
    <3> QED
      BY <2>1, <3>1, <3>2, <3>3, SameCaps
  <2>3. Free(r)
    BY <1>4, <2>1, <2>2, LessRoom
  <2>4. Due(r) \/ Known(r)
    BY <1>1, <2>1, <2>3 DEF NoneIdle, Among, NoTx
  <2> QED
    BY <1>1, <2>1, <2>4 DEF Due, Known
<1>5. NoneIdle'
  BY <1>1, <1>2, <1>4 DEF NoneIdle, Among
<1> QED
  BY <1>3, <1>5

\* The verbs.
LEMMA VerbKeeps ==
    ASSUME IndInv, TypeOK', NEW l \in Touched,
           \/ \E v \in Pairs : Override(l, v[1], v[2])
           \/ \E k \in Key, n \in Values : OverrideKey(l, k, n)
           \/ \E k \in Key : ResetKey(l, k)
           \/ Reset(l) \/ Resume(l)
    PROVE  IndInv'
<1>1. l \in Limit /\ Change(l)
  BY LimitsAssumption DEF Override, OverrideKey, ResetKey, Reset, Resume
<1> USE <1>1 DEF TypeOK, OverridesAreTimed
<1>2. OverridesAreTimed /\ TypeOK
  BY DEF IndInv
<1>3. ASSUME NEW v \in Pairs, Override(l, v[1], v[2]) PROVE IndInv'
  BY <1>2, <1>3, ChangeKeeps DEF Override
<1>4. ASSUME NEW k \in Key, NEW n \in Values, OverrideKey(l, k, n) PROVE IndInv'
  BY <1>2, <1>4, ChangeKeeps DEF OverrideKey
<1>5. ASSUME NEW k \in Key, ResetKey(l, k) PROVE IndInv'
  BY <1>2, <1>5, ChangeKeeps DEF ResetKey
<1>6. ASSUME Reset(l) PROVE IndInv'
  BY <1>2, <1>6, ChangeKeeps DEF Reset
<1>7. ASSUME Resume(l) PROVE IndInv'
  BY <1>2, <1>7, ChangeKeeps DEF Resume
<1> QED
  BY <1>3, <1>4, <1>5, <1>6, <1>7

\* A pause takes room from everybody.
LEMMA PauseKeeps ==
    ASSUME IndInv, TypeOK', NEW l \in Limit, Pause(l)
    PROVE  IndInv'
<1> USE DEF IndInv
<1>1. /\ UNCHANGED <<state, wf, key, past, stranded, looking, cut, missed, total, perKey, keys, timers, tx>>
      /\ paused \subseteq paused' /\ tx = NoTx
  BY DEF Pause
<1>2. ASSUME NEW r \in Run, Free(r)' PROVE Free(r)
  <2>1. ASSUME NEW m \in Held(wf[r])
        PROVE  /\ Holding(m, NoKey) \subseteq Holding(m, NoKey)' /\ Holding(m, key[r]) \subseteq Holding(m, key[r])'
               /\ m \in paused => m \in paused'
    BY <1>1 DEF Holding, Live
  <2> QED
    BY <1>1, <1>2, <2>1, LessRoom, SameCaps
<1>3. OverridesAreTimed' /\ Shape' /\ BlocksHold'
  BY <1>1 DEF OverridesAreTimed, Shape, BlocksHold, NoTx
<1>4. NoneIdle'
  BY <1>1, <1>2 DEF NoneIdle, Waiting, Queued, Due, Known, Among
<1> QED
  BY <1>3, <1>4

\* An override runs out: who may gain room by it is due, for its timer has not run.
LEMMA ExpireKeeps ==
    ASSUME IndInv, TypeOK', NEW l \in Limit, NEW k \in Key, Expire(l, k)
    PROVE  IndInv'
<1> USE DEF IndInv
<1>1. /\ UNCHANGED <<state, wf, key, past, stranded, paused, total, perKey, timers, looking, cut, missed, tx>>
      /\ keys[l][k] # NoCap /\ keys' = [keys EXCEPT ![l][k] = NoCap]
  BY DEF Expire
<1>2. <<l, k>> \in timers /\ keys'[l][k] = NoCap /\ \A m \in Limit \ {l} : keys'[m] = keys[m]
  BY <1>1 DEF OverridesAreTimed, TypeOK
<1>3. \A m \in Limit, j \in Key : keys[m][j] = NoCap => keys'[m][j] = NoCap
  BY <1>1 DEF TypeOK
<1>4. OverridesAreTimed' /\ Shape'
  BY <1>1 DEF OverridesAreTimed, Shape, TypeOK
<1>5. ASSUME NEW r \in Run, Due(r) PROVE Due(r)'
  <2>1. PICK m \in Held(wf[r]) : m \in looking \/ \E j \in Key : <<m, j>> \in timers /\ keys[m][j] = NoCap
    BY <1>5 DEF Due
  <2>2. m \in Limit
    BY HeldType DEF TypeOK
  <2>3. m \in looking' \/ \E j \in Key : <<m, j>> \in timers' /\ keys'[m][j] = NoCap
    BY <1>1, <1>3, <2>1, <2>2
  <2>4. m \in Held(wf[r])'
    BY <1>1 DEF Held
  <2> QED
    BY <2>3, <2>4 DEF Due
<1>6. ASSUME NEW r \in Run, l \in Held(wf[r]) PROVE Due(r)'
  BY <1>1, <1>2, <1>6 DEF Due
<1>7. ASSUME NEW r \in Run, l \notin Held(wf[r]), Free(r)' PROVE Free(r)
  <2>1. Held(wf[r]) \subseteq Limit \ {l}
    BY <1>7, HeldType DEF TypeOK
  <2>2. ASSUME NEW m \in Held(wf[r])
        PROVE  /\ Holding(m, NoKey) \subseteq Holding(m, NoKey)' /\ Holding(m, key[r]) \subseteq Holding(m, key[r])'
               /\ m \in paused => m \in paused'
               /\ total'[m] <= total[m]
               /\ key[r] # NoKey => PerKeyOf(m, key[r])' <= PerKeyOf(m, key[r])
    <3>1. /\ Holding(m, NoKey) \subseteq Holding(m, NoKey)' /\ Holding(m, key[r]) \subseteq Holding(m, key[r])'
          /\ m \in paused => m \in paused'
      BY <1>1 DEF Holding, Live
    <3>2. total'[m] = total[m] /\ perKey'[m] = perKey[m] /\ keys'[m] = keys[m] /\ wf'[r] = wf[r] /\ key'[r] = key[r]
      BY <1>1, <1>2, <2>1
    <3> QED
      BY <3>1, <3>2, SameCaps
  <2> QED
    BY <1>1, <1>7, <2>2, LessRoom
<1>8. NoneIdle'
  BY <1>1, <1>5, <1>6, <1>7 DEF NoneIdle, Waiting, Queued, Known, Among
<1>9. BlocksHold'
  BY <1>1, <1>5, <1>6, <1>7 DEF BlocksHold, Waiting, Queued
<1> QED
  BY <1>4, <1>8, <1>9

\* The limit timer's look: it sees who waits, or misses a start that is still open and says so.
LEMMA LookKeeps ==
    ASSUME IndInv, TypeOK', NEW l \in Limit, NEW k \in Key, Look(l, k)
    PROVE  IndInv'
<1> USE DEF IndInv
<1>1. /\ UNCHANGED <<state, wf, key, past, stranded, rows, cut, tx>> /\ UNCHANGED keys /\ keys[l][k] = NoCap
      /\ timers' = timers \ {<<l, k>>} /\ looking \subseteq looking' /\ missed \subseteq missed'
  BY DEF Look, rows
<1>2. \A r \in Run : (Free(r)' <=> Free(r)) /\ (Waiting(r)' <=> Waiting(r))
  BY <1>1, SameRoom DEF Waiting, Queued
<1>3. OverridesAreTimed' /\ Shape'
  BY <1>1 DEF OverridesAreTimed, Shape
<1>4. ASSUME NEW r \in Run, Waiting(r), l \in Held(wf[r])
      PROVE  /\ l \in looking' \/ l \in missed'
             /\ r \in Seen => l \in looking'
  BY <1>4 DEF Look, Waiting
<1>5. ASSUME NEW r \in Run, Waiting(r), Due(r)
      PROVE  /\ Due(r)' \/ Known(r)'
             /\ r \in Seen => Due(r)'
  <2>1. PICK m \in Held(wf[r]) : m \in looking \/ \E j \in Key : <<m, j>> \in timers /\ keys[m][j] = NoCap
    BY <1>5 DEF Due
  <2>2. CASE m = l
    BY <1>1, <1>4, <1>5, <2>1, <2>2 DEF Due, Known
  <2>3. CASE m # l
    BY <1>1, <2>1, <2>3 DEF Due
  <2> QED
    BY <2>2, <2>3
<1>6. NoneIdle'
  BY <1>1, <1>2, <1>5 DEF NoneIdle, Known, Among
<1>7. tx.op = "promote" => Queued \subseteq Seen
  BY DEF Seen
<1>8. BlocksHold'
  <2> SUFFICES ASSUME tx.op = "promote", NEW b \in tx.blocks, NEW r \in Run,
                      Waiting(r), b.limit \in Held(wf[r]), b.key \in {NoKey, key[r]}, Free(r)
               PROVE  Due(r)'
    BY <1>1, <1>2 DEF BlocksHold
  <2>1. Due(r) /\ r \in Seen
    BY <1>7 DEF BlocksHold, Waiting
  <2> QED
    BY <1>5, <2>1
<1> QED
  BY <1>3, <1>6, <1>8

\* The look goes on to a promotion of the limit.
LEMMA PromoteLimitKeeps ==
    ASSUME IndInv, TypeOK', NEW l \in Limit, PromoteLimit(l)
    PROVE  IndInv'
<1> USE DEF IndInv
<1>1. /\ UNCHANGED <<state, wf, key, past, stranded, rows, timers, cut, missed>> /\ UNCHANGED keys
      /\ tx = NoTx /\ tx' = Promotion({l}, NoKey, FALSE) /\ looking' = looking \ {l}
  BY DEF PromoteLimit, rows
<1>2. tx'.among = {l} /\ tx'.op = "promote" /\ tx'.blocks = {} /\ tx'.ids = {} /\ tx'.key = NoKey
  BY <1>1, LookAtOne
<1>3. OverridesAreTimed' /\ Shape' /\ BlocksHold'
  BY <1>1, <1>2 DEF OverridesAreTimed, Shape, BlocksHold
<1>4. \A r \in Run : (Free(r)' <=> Free(r)) /\ (Waiting(r)' <=> Waiting(r))
  BY <1>1, SameRoom DEF Waiting, Queued
<1>5. \A r \in Run : l \in Held(wf[r]) => Among(r)'
  BY <1>1, <1>2 DEF Among
<1>6. \A r \in Run : l \notin Held(wf[r]) => (Due(r) => Due(r)')
  BY <1>1 DEF Due
<1>7. \A r \in Run : ~Among(r) /\ (Known(r) => Known(r)')
  BY <1>1 DEF Among, Known, NoTx
<1>8. NoneIdle'
  BY <1>4, <1>5, <1>6, <1>7 DEF NoneIdle
<1> QED
  BY <1>3, <1>8

LEMMA InitInv == Init => IndInv
<1> SUFFICES ASSUME Init PROVE IndInv
  OBVIOUS
<1>1. TypeOK
  BY TypeInit
<1>2. OverridesAreTimed /\ Shape /\ BlocksHold
  BY DEF Init, OverridesAreTimed, Shape, BlocksHold, NoTx
<1>3. NoneIdle
  BY DEF Init, NoneIdle, Waiting, Queued
<1> QED
  BY <1>1, <1>2, <1>3 DEF IndInv

\* Every step of every transaction, verb and timer keeps the invariant.
LEMMA NextInv == IndInv /\ [Next]_vars => IndInv'
<1> SUFFICES ASSUME IndInv, [Next]_vars PROVE IndInv'
  OBVIOUS
<1>1. TypeOK'
  BY TypeStep DEF IndInv
<1>2. Touched \subseteq Limit
  BY LimitsAssumption
<1>3. CASE Commit
  <2>1. /\ UNCHANGED <<state, wf, key, past, stranded, rows, timers, looking, cut, missed>> /\ UNCHANGED keys
        /\ tx.op = "start" /\ tx'.op = "none"
    BY <1>3 DEF Commit, NoTx, rows
  <2>2. \A r \in Run : /\ (Free(r)' <=> Free(r)) /\ (Waiting(r)' <=> Waiting(r))
                       /\ (Due(r) => Due(r)') /\ (Known(r) => Known(r)') /\ ~Among(r)
    BY <2>1, SameRoom, DueStays DEF Waiting, Queued, Known, Among
  <2>3. NoneIdle'
    BY <2>2 DEF IndInv, NoneIdle
  <2>4. OverridesAreTimed' /\ Shape' /\ BlocksHold'
    BY <2>1 DEF IndInv, OverridesAreTimed, Shape, BlocksHold
  <2> QED
    BY <1>1, <2>3, <2>4 DEF IndInv
<1>4. CASE UNCHANGED vars
  <2>1. UNCHANGED <<state, wf, key, past, stranded, rows, timers, looking, cut, missed, tx>> /\ UNCHANGED keys
    BY <1>4 DEF vars, rows
  <2>2. \A r \in Run : /\ (Free(r)' <=> Free(r)) /\ (Waiting(r)' <=> Waiting(r))
                       /\ (Due(r) => Due(r)') /\ (Known(r) => Known(r)') /\ (Among(r) => Among(r)')
    BY <2>1, SameRoom, DueStays DEF Waiting, Queued, Known, Among
  <2>3. NoneIdle'
    BY <2>2 DEF IndInv, NoneIdle
  <2>4. BlocksHold'
    BY <2>1, <2>2 DEF IndInv, BlocksHold
  <2>5. OverridesAreTimed' /\ Shape'
    BY <2>1 DEF IndInv, OverridesAreTimed, Shape
  <2> QED
    BY <1>1, <2>3, <2>4, <2>5 DEF IndInv
<1>5. ASSUME NEW w \in Workflow, NEW k \in Key \cup {NoKey}, Start(w, k) PROVE IndInv'
  BY <1>1, <1>5, StartKeeps
<1>6. CASE PromoteTry \/ PromoteEnd
  BY <1>1, <1>6, TryKeeps, EndKeeps
<1>7. ASSUME NEW r \in Run, End(r) \/ Reopen(r) \/ TtlPasses(r) \/ Reschedule(r) \/ Strand(r) PROVE IndInv'
  BY <1>1, <1>7, RunEndKeeps, RunStepKeeps
<1>8. ASSUME NEW l \in Touched,
             \/ \E v \in Pairs : Override(l, v[1], v[2])
             \/ \E k \in Key, n \in Values : OverrideKey(l, k, n)
             \/ \E k \in Key : ResetKey(l, k)
             \/ Reset(l) \/ Resume(l)
      PROVE  IndInv'
  BY <1>1, <1>8, VerbKeeps
<1>9. ASSUME NEW l \in Touched, Pause(l) \/ PromoteLimit(l) PROVE IndInv'
  BY <1>1, <1>2, <1>9, PauseKeeps, PromoteLimitKeeps
<1>10. ASSUME NEW l \in Touched, NEW k \in Key, Expire(l, k) \/ Look(l, k) PROVE IndInv'
  BY <1>1, <1>2, <1>10, ExpireKeeps, LookKeeps
<1> QED
  BY <1>3, <1>4, <1>5, <1>6, <1>7, <1>8, <1>9, <1>10 DEF Next

\* Every reachable state satisfies the inductive invariant.
THEOREM Invariance == Spec => []IndInv
BY InitInv, NextInv, PTL DEF Spec

\* No queued run that fits all its limits waits unless somebody is about to look, the last look ran out of
\* tries, or the code overlooked it in one of the two ways that `missed` records (runner.ts, promoteQueued).
THEOREM NobodyWaitsForAFreeSlot == Spec => []NoIdleSlot
<1>1. IndInv => NoIdleSlot
  <2> SUFFICES ASSUME IndInv, tx = NoTx, NEW r \in Run, Waiting(r), Blocking(wf[r], key[r]) = {}
               PROVE  Looked(r) \/ Held(wf[r]) \cap missed # {}
    BY DEF NoIdleSlot
  <2>1. Due(r) \/ Known(r)
    BY DEF IndInv, NoneIdle, Free, Among, NoTx
  <2> QED
    BY <2>1 DEF Due, Known, Looked
<1> QED
  BY <1>1, Invariance, PTL
-----------------------------------------------------------------------------
(* Admission *)

\* A run that becomes live when the gate has no block for it fits: each of its limits had a slot left.
LEMMA AdmittedFits ==
    ASSUME TypeOK, NEW r \in Run, r \notin Live, NEW w \in Workflow, NEW k \in Key \cup {NoKey},
           Blocking(w, k) = {}, wf'[r] = w, key'[r] = k, state' = [state EXCEPT ![r] = "live"],
           \A q \in Run \ {r} : wf'[q] = wf[q] /\ key'[q] = key[q],
           UNCHANGED rows
    PROVE  Fits(r)'
<1> SUFFICES ASSUME NEW l \in Held(w)
             PROVE  /\ l \notin paused' /\ Cardinality(Holding(l, NoKey)') <= total'[l]
                    /\ k = NoKey \/ Cardinality(Holding(l, k)') <= PerKeyOf(l, k)'
  BY DEF Fits
<1>1. Room(l, k)
  BY NoBlockMeansRoom
<1>2. l \in Limit /\ UNCHANGED <<paused, total, perKey, keys>>
  BY HeldType DEF rows
<1>3. ASSUME NEW kk, NEW n \in Nat, ~Full(l, kk, n) PROVE Cardinality(Holding(l, kk)') <= n
  <2>1. Live' = Live \cup {r}
    BY DEF Live, TypeOK
  <2>2. Holding(l, kk)' \subseteq Holding(l, kk) \cup {r}
    BY <2>1 DEF Holding, Live
  <2>3. r \notin Holding(l, kk)
    BY DEF Holding
  <2>4. IsFiniteSet(Holding(l, kk) \cup {r}) /\ Cardinality(Holding(l, kk) \cup {r}) = Cardinality(Holding(l, kk)) + 1
    BY <2>3, HoldingIsFinite, FS_AddElement
  <2>5. Cardinality(Holding(l, kk)') <= Cardinality(Holding(l, kk)) + 1
    BY <2>2, <2>4, FS_Subset
  <2>6. Cardinality(Holding(l, kk)) \in Nat /\ Cardinality(Holding(l, kk)') \in Nat
    BY HoldingIsFinite
  <2> QED
    BY <1>3, <2>5, <2>6 DEF Full
<1>4. total[l] \in Nat /\ (k # NoKey => PerKeyOf(l, k) \in Nat)
  BY <1>2, LimitsAssumption DEF TypeOK, Value, PerKeyOf, NoCap
<1>5. Cardinality(Holding(l, NoKey)') <= total[l]
  BY <1>1, <1>3, <1>4 DEF Room
<1>6. k = NoKey \/ Cardinality(Holding(l, k)') <= PerKeyOf(l, k)
  BY <1>1, <1>3, <1>4 DEF Room, KeyFull
<1>7. PerKeyOf(l, k)' = PerKeyOf(l, k)
  BY <1>2 DEF PerKeyOf
<1> QED
  BY <1>1, <1>2, <1>5, <1>6, <1>7 DEF Room

\* A run goes live from none or from the queue by a start, or as the oldest candidate of a promotion.
LEMMA GoesLive ==
    ASSUME TypeOK, Next, NEW r \in Run, state[r] # "live", state'[r] = "live"
    PROVE  \/ \E w \in Workflow, k \in Key \cup {NoKey} : Start(w, k)
           \/ PromoteTry
<1>1. \A l \in Touched :
        /\ \A v \in Pairs : ~Override(l, v[1], v[2])
        /\ \A k \in Key, n \in Values : ~OverrideKey(l, k, n)
        /\ \A k \in Key : ~ResetKey(l, k) /\ ~Expire(l, k) /\ ~Look(l, k)
        /\ ~Reset(l) /\ ~Pause(l) /\ ~Resume(l) /\ ~PromoteLimit(l)
  BY DEF Override, OverrideKey, ResetKey, Expire, Look, Reset, Pause, Resume, PromoteLimit, Change
<1>2. ~Commit /\ ~PromoteEnd
  BY DEF Commit, PromoteEnd
<1>3. \A q \in Run : ~Reopen(q) /\ ~TtlPasses(q) /\ ~Reschedule(q) /\ ~Strand(q)
  BY DEF Reopen, TtlPasses, Reschedule, Strand, TypeOK
<1>4. \A q \in Run : ~End(q)
  BY DEF End, TypeOK
<1> QED
  BY <1>1, <1>2, <1>3, <1>4 DEF Next

\* No start and no promotion overfills a limit or passes a pause.
THEOREM AdmissionWithinLimits == Spec => AdmitsWithinLimits
<1> DEFINE P == \A r \in Run : state[r] \in {"none", "queued"} /\ state'[r] = "live" => Fits(r)'
<1>1. TypeOK /\ [Next]_vars => [P]_vars
  <2> SUFFICES ASSUME TypeOK, Next, NEW r \in Run, state[r] \in {"none", "queued"}, state'[r] = "live"
               PROVE  Fits(r)'
    OBVIOUS
  <2>0. r \notin Live
    BY DEF Live
  <2>1. ASSUME NEW w \in Workflow, NEW k \in Key \cup {NoKey}, Start(w, k) PROVE Fits(r)'
    <3>1. PICK r0 \in Run : /\ state[r0] = "none" /\ UNCHANGED rows
                            /\ state' = [state EXCEPT ![r0] = IF Blocking(w, k) = {} THEN "live" ELSE "queued"]
                            /\ wf' = [wf EXCEPT ![r0] = w] /\ key' = [key EXCEPT ![r0] = k]
      BY <2>1 DEF Start
    <3>2. r = r0 /\ Blocking(w, k) = {}
      BY <3>1 DEF TypeOK
    <3>3. /\ wf'[r] = w /\ key'[r] = k /\ state' = [state EXCEPT ![r] = "live"]
          /\ UNCHANGED rows /\ Blocking(w, k) = {}
      BY <3>1, <3>2 DEF TypeOK
    <3>4. \A q \in Run \ {r} : wf'[q] = wf[q] /\ key'[q] = key[q]
      BY <3>1, <3>2 DEF TypeOK
    <3> QED
      BY <2>0, <3>3, <3>4, AdmittedFits, Zenon
  <2>2. CASE PromoteTry
    <3>1. UNCHANGED <<wf, key, rows>> /\ r = Oldest /\ Blocking(wf[Oldest], key[Oldest]) = {}
          /\ state' = [state EXCEPT ![Oldest] = "live"]
      BY <2>2, TryEffects DEF TypeOK
    <3>2. PICK w \in Workflow, k \in Key \cup {NoKey} : w = wf[r] /\ k = key[r]
      BY DEF TypeOK
    <3> QED
      BY <2>0, <3>1, <3>2, AdmittedFits
  <2> QED
    BY <2>1, <2>2, GoesLive
<1> QED
  BY <1>1, Typing, PTL DEF Spec, AdmitsWithinLimits

\* Of two waiting runs of one workflow and key the older one starts first.
THEOREM InQueueOrder == Spec => OrderedPerKey
<1> DEFINE P == \A r, q \in Run : Waiting(r) /\ Waiting(q) /\ r < q /\ wf[r] = wf[q] /\ key[r] = key[q] =>
                  ~(state'[q] = "live" /\ state'[r] = "queued")
<1>1. IndInv /\ [Next]_vars => [P]_vars
  <2> SUFFICES ASSUME IndInv, Next, NEW r \in Run, NEW q \in Run, Waiting(r), Waiting(q), r < q,
                      wf[r] = wf[q], key[r] = key[q], state'[q] = "live", state'[r] = "queued"
               PROVE  FALSE
    OBVIOUS
  <2>1. TypeOK /\ Shape /\ state[q] = "queued"
    BY DEF IndInv, Waiting, Queued
  <2>2. \A w \in Workflow, k \in Key \cup {NoKey} : ~Start(w, k)
    BY <2>1 DEF Start, TypeOK
  <2>3. PromoteTry
    BY <2>1, <2>2, GoesLive
  <2>4. q = Oldest /\ q \in Candidates /\ tx.ids \subseteq stranded
    BY <2>1, <2>3, TryEffects DEF TypeOK, Shape, PromoteTry
  <2>5. r \in Candidates
    BY <2>1, <2>4 DEF Candidates, Skipped, Waiting
  <2>6. q <= r
    BY <2>4, <2>5, OldestIsLeast
  <2> QED
    BY <2>6, LimitsAssumption DEF Run
<1> QED
  BY <1>1, Invariance, PTL DEF Spec, OrderedPerKey
=============================================================================
