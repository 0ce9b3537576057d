-------------------------------- MODULE Limits --------------------------------
(***************************************************************************)
(* The limits of workflow runs and the queue behind them                   *)
(* (packages/journal/src/workflow: limits.ts and the start gate, the       *)
(* promotion and the limit verbs of runner.ts).                            *)
(*                                                                         *)
(* A start holds limits: its workflow's own and the shared ones it lists.  *)
(* Each caps the unfinished runs that hold it (total) and those with one   *)
(* key (perKey); an operator overrides the values, for one key until the   *)
(* override runs out, or pauses it.  A start that a limit blocks queues;   *)
(* whatever may free a slot promotes the oldest queued runs that now fit.  *)
(*                                                                         *)
(* Every write takes the append lock first and holds it to the end of its  *)
(* transaction (tx), so transactions take turns and the gate's own locks   *)
(* are never found taken.  One step is a start's gate, a candidate of a    *)
(* promotion, or a commit; what does not wait for the lock is the clock    *)
(* and the limit timer's first look at the queue.  A transaction that      *)
(* rolls back is one that did not happen.  Runs are numbered in the order  *)
(* they commit; the code's order is startedAt, the caller's clock before   *)
(* the append lock, so two starts at once may rank the other way there.    *)
(***************************************************************************)
EXTENDS Naturals, FiniteSets

CONSTANTS Workflow, Limit, Key,
          NoKey,         \* no concurrency key: a run without one, a block or a look that is not about one
          Own,           \* each workflow's own limit
          Shared,        \* the shared limits each workflow lists
          KeysOf,        \* the keys its starts have: subsets of Key \cup {NoKey}
          Queues,        \* the workflows whose busy starts queue; the others refuse or join
          Total, PerKey, \* the values in code
          PromoteTries,  \* LIMIT_BOUNDS.promoteTries
          Child, Timed,  \* the runs that are a parent's child; the runs with a ttl
          MaxRuns,       \* bound on the runs; as a value, no cap at all
          MaxVerbs, Touched, \* bounds on the operator's verbs: how many, on which limits,
          Pairs, Values  \* to which pairs of total and perKey, to which values of one key

Run == 1..MaxRuns
Value == 0..MaxRuns

ASSUME LimitsAssumption ==
    /\ Workflow # {}
    /\ MaxRuns \in Nat \ {0} /\ MaxVerbs \in Nat /\ PromoteTries \in Nat \ {0} /\ NoKey \notin Key
    /\ Own \in [Workflow -> Limit] /\ Shared \in [Workflow -> SUBSET Limit]
    /\ KeysOf \in [Workflow -> SUBSET (Key \cup {NoKey})] /\ Queues \subseteq Workflow
    /\ Child \subseteq Run /\ Timed \subseteq Run /\ Touched \subseteq Limit /\ Values \subseteq Value /\ Pairs \subseteq Value \X Value
    /\ Total \in [Limit -> Value] /\ PerKey \in [Limit -> Value]

VARIABLES state,    \* each run: none, queued, live (running or parked), completed, undoing its completed work, over
          wf, key,  \* its workflow and its concurrency key
          past,     \* queued runs whose ttl_at has passed
          stranded, \* queued runs whose code is gone
          paused, total, perKey, \* the limits as they apply, an operator's changes included
          keys,     \* the live override of each limit and key, or NoCap
          timers,   \* the limit timers that have not run, by limit and key
          looking,  \* limits whose timer saw a queued run and waits to promote
          cut,      \* history: limits whose last promotion ran out of tries
          missed,   \* history: limits with a run that queued, or came back, behind the last look
          verbs,    \* how many operator verbs there were
          tx        \* the transaction that holds the append lock

vars == <<state, wf, key, past, stranded, paused, total, perKey, keys, timers, looking, cut, missed, verbs, tx>>
rows == <<paused, total, perKey, keys>>

NoCap == MaxRuns + 1   \* in keys: no override
NoTx == [op |-> "none"]
Held(w) == {Own[w]} \cup Shared[w]
Live == {r \in Run : state[r] \in {"live", "undoing"}}
Queued == {r \in Run : state[r] = "queued"}
Block == [limit : Limit, key : Key \cup {NoKey}]

\* Typing of the rows, the timers and the open transaction.
TypeOK == /\ state \in [Run -> {"none", "queued", "live", "completed", "undoing", "over"}]
          /\ wf \in [Run -> Workflow] /\ key \in [Run -> Key \cup {NoKey}]
          /\ past \subseteq Run /\ stranded \subseteq Run
          /\ paused \subseteq Limit /\ total \in [Limit -> Value] /\ perKey \in [Limit -> Value]
          /\ keys \in [Limit -> [Key -> Value \cup {NoCap}]]
          /\ timers \subseteq Limit \X Key /\ looking \subseteq Limit /\ cut \subseteq Limit /\ missed \subseteq Limit
          /\ verbs \in 0..MaxVerbs
          /\ tx \in {NoTx} \cup [op : {"start"}, run : Run]
                    \cup [op : {"promote"}, among : SUBSET Limit, key : Key \cup {NoKey}, rest : BOOLEAN,
                          tried : 0..PromoteTries, ids : SUBSET Run, blocks : SUBSET Block, taken : SUBSET Run]

Init == /\ state = [r \in Run |-> "none"]
        /\ wf = [r \in Run |-> CHOOSE w \in Workflow : TRUE] /\ key = [r \in Run |-> NoKey]
        /\ past = {} /\ stranded = {} /\ paused = {} /\ total = Total /\ perKey = PerKey
        /\ keys = [l \in Limit |-> [k \in Key |-> NoCap]]
        /\ timers = {} /\ looking = {} /\ cut = {} /\ missed = {} /\ verbs = 0 /\ tx = NoTx
-----------------------------------------------------------------------------
(* The gate *)

Holding(l, k) == {r \in Live : l \in Held(wf[r]) /\ (k = NoKey \/ key[r] = k)}
Full(l, k, n) == Cardinality(Holding(l, k)) >= n
PerKeyOf(l, k) == IF keys[l][k] # NoCap THEN keys[l][k] ELSE perKey[l]
KeyFull(l, k) == k # NoKey /\ Full(l, k, PerKeyOf(l, k))

\* check: what may block a start. A pause comes first, then the workflow's own perKey.
Blocking(w, k) ==
    LET pauses == {[limit |-> l, key |-> NoKey] : l \in Held(w) \cap paused}
        byKey  == {[limit |-> l, key |-> k] : l \in {m \in Held(w) : KeyFull(m, k)}}
        all    == {[limit |-> l, key |-> NoKey] : l \in {m \in Held(w) : Full(m, NoKey, total[m])}}
    IN IF pauses # {} THEN pauses
       ELSE IF KeyFull(Own[w], k) THEN {[limit |-> Own[w], key |-> k]}
       ELSE byKey \cup all
-----------------------------------------------------------------------------
(* Starts *)

\* startRun, admit: live if no limit blocks it, else queued. A refusal or a join changes nothing.
Start(w, k) ==
    \E r \in Run :
      /\ tx = NoTx /\ state[r] = "none" /\ \A q \in 1..(r - 1) : state[q] # "none"
      /\ k \in KeysOf[w] /\ (Blocking(w, k) = {} \/ w \in Queues)
      /\ state' = [state EXCEPT ![r] = IF Blocking(w, k) = {} THEN "live" ELSE "queued"]
      /\ wf' = [wf EXCEPT ![r] = w] /\ key' = [key EXCEPT ![r] = k]
      /\ tx' = [op |-> "start", run |-> r]
      /\ UNCHANGED <<past, stranded, rows, timers, looking, cut, missed, verbs>>

Commit == /\ tx.op = "start" /\ tx' = NoTx
          /\ UNCHANGED <<state, wf, key, past, stranded, rows, timers, looking, cut, missed, verbs>>
-----------------------------------------------------------------------------
(* promoteQueued *)

Promotion(among, k, rest) == [op |-> "promote", among |-> among, key |-> k, rest |-> rest,
                              tried |-> 0, ids |-> {}, blocks |-> {}, taken |-> {}]

Skipped(r) == \/ r \in tx.ids
              \/ \E b \in tx.blocks : b.limit \in Held(wf[r]) /\ (b.key = NoKey \/ b.key = key[r])

\* The queued runs that oldestQueued chooses from.
Candidates == {r \in Queued \ past : /\ Held(wf[r]) \cap tx.among # {}
                                     /\ tx.key = NoKey \/ key[r] = tx.key
                                     /\ ~Skipped(r)}

\* Mutant: the newest queued run first.
OldestLast == CHOOSE r \in Candidates : \A q \in Candidates : q <= r

\* The candidate that queued first.
Oldest == CHOOSE r \in Candidates : \A q \in Candidates : r <= q

\* Mutant: a candidate is checked against the limit that changed only.
PromoteTryAmong ==
    /\ tx.op = "promote" /\ tx.tried < PromoteTries /\ Candidates # {}
    /\ \/ /\ Oldest \in stranded
          /\ tx' = [tx EXCEPT !.tried = @ + 1, !.ids = @ \cup {Oldest}]
          /\ UNCHANGED state
       \/ /\ Oldest \notin stranded
          /\ \E b \in Blocking(wf[Oldest], key[Oldest]) :
               b.limit \in tx.among /\ tx' = [tx EXCEPT !.tried = @ + 1, !.blocks = @ \cup {b}]
          /\ UNCHANGED state
       \/ /\ Oldest \notin stranded
          /\ \A b \in Blocking(wf[Oldest], key[Oldest]) : b.limit \notin tx.among
          /\ state' = [state EXCEPT ![Oldest] = "live"]
          /\ tx' = [tx EXCEPT !.tried = @ + 1, !.taken = @ \cup {Oldest}]
    /\ UNCHANGED <<wf, key, past, stranded, rows, timers, looking, cut, missed, verbs>>

\* One candidate: it is stranded, or a limit blocks it and all it would block too, or it starts.
PromoteTry ==
    /\ tx.op = "promote" /\ tx.tried < PromoteTries /\ Candidates # {}
    /\ \/ /\ Oldest \in stranded
          /\ tx' = [tx EXCEPT !.tried = @ + 1, !.ids = @ \cup {Oldest}]
          /\ UNCHANGED state
       \/ /\ Oldest \notin stranded
          /\ \E b \in Blocking(wf[Oldest], key[Oldest]) :
               tx' = [tx EXCEPT !.tried = @ + 1, !.blocks = @ \cup {b}]
          /\ UNCHANGED state
       \/ /\ Oldest \notin stranded /\ Blocking(wf[Oldest], key[Oldest]) = {}
          /\ state' = [state EXCEPT ![Oldest] = "live"]
          /\ tx' = [tx EXCEPT !.tried = @ + 1, !.taken = @ \cup {Oldest}]
    /\ UNCHANGED <<wf, key, past, stranded, rows, timers, looking, cut, missed, verbs>>

\* The loop ends: after the ended run's key, all its limits are looked at; after that, the commit.
PromoteEnd ==
    /\ tx.op = "promote" /\ (tx.tried = PromoteTries \/ Candidates = {})
    /\ IF tx.rest
         THEN /\ tx' = [tx EXCEPT !.key = NoKey, !.rest = FALSE, !.tried = 0]
              /\ UNCHANGED <<cut, missed>>
         ELSE /\ tx' = NoTx
              /\ cut' = IF Candidates = {} THEN cut \ tx.among ELSE cut \cup tx.among
              /\ missed' = IF Candidates = {} THEN missed \ tx.among ELSE missed
    /\ UNCHANGED <<state, wf, key, past, stranded, rows, timers, looking, verbs>>
-----------------------------------------------------------------------------
(* Run ends *)

\* Mutant: only the ended run's key is looked at.
AfterEndKeyOnly(r) == Promotion(Held(wf[r]), key[r], FALSE)

\* promoteAfterEnd: the queued runs of its key, then any that hold one of its limits.
AfterEnd(r) == Promotion(Held(wf[r]), key[r], key[r] # NoKey)

\* A live run completes or ends otherwise; a queued one is cancelled, expires or passes its deadline.
\* Completed is told apart for a child only, which can be reopened.
End(r) == /\ tx = NoTx /\ r \in (Live \cup Queued) \ stranded
          /\ \E s \in {"completed", "over"} : (s = "completed" => state[r] = "live" /\ r \in Child) /\ state' = [state EXCEPT ![r] = s]
          /\ past' = past \ {r} /\ tx' = AfterEnd(r)
          /\ UNCHANGED <<wf, key, stranded, rows, timers, looking, cut, missed, verbs>>

\* compensateChild: a completed child is unfinished again while it undoes its work, past every gate.
Reopen(r) == /\ tx = NoTx /\ state[r] = "completed" /\ state' = [state EXCEPT ![r] = "undoing"]
             /\ UNCHANGED <<wf, key, past, stranded, rows, timers, looking, cut, missed, verbs, tx>>

TtlPasses(r) == /\ r \in (Queued \cap Timed) \ past /\ past' = past \cup {r}
                /\ UNCHANGED <<state, wf, key, stranded, rows, timers, looking, cut, missed, verbs, tx>>

\* reschedule, in the moment between a queued run's ttl and the timer that ends it: it looks at no queue.
Reschedule(r) == /\ tx = NoTx /\ r \in Queued \cap past /\ past' = past \ {r}
                 /\ missed' = IF Blocking(wf[r], key[r]) = {} THEN missed \cup Held(wf[r]) ELSE missed
                 /\ UNCHANGED <<state, wf, key, stranded, rows, timers, looking, cut, verbs, tx>>

\* A deploy drops the code of a queued run; here of one at most.
Strand(r) == /\ tx = NoTx /\ stranded = {} /\ r \in Queued /\ stranded' = stranded \cup {r}
             /\ UNCHANGED <<state, wf, key, past, rows, timers, looking, cut, missed, verbs, tx>>
-----------------------------------------------------------------------------
(* The operator's verbs: changeLimit *)

Change(l) == /\ tx = NoTx /\ verbs < MaxVerbs /\ verbs' = verbs + 1
             /\ tx' = Promotion({l}, NoKey, FALSE)
             /\ UNCHANGED <<state, wf, key, past, stranded, looking, cut, missed>>

Override(l, t, p) == /\ Change(l)
                     /\ total' = [total EXCEPT ![l] = t] /\ perKey' = [perKey EXCEPT ![l] = p]
                     /\ UNCHANGED <<paused, keys, timers>>

OverrideKey(l, k, n) == /\ Change(l)
                        /\ keys' = [keys EXCEPT ![l][k] = n] /\ timers' = timers \cup {<<l, k>>}
                        /\ UNCHANGED <<paused, total, perKey>>

\* Mutant: a reset promotes nobody.
ResetQuiet(l) == /\ tx = NoTx /\ verbs > 0 /\ verbs < MaxVerbs /\ verbs' = verbs + 1
                 /\ total' = [total EXCEPT ![l] = Total[l]] /\ perKey' = [perKey EXCEPT ![l] = PerKey[l]]
                 /\ keys' = [keys EXCEPT ![l] = [k \in Key |-> NoCap]]
                 /\ UNCHANGED <<state, wf, key, past, stranded, looking, cut, missed, paused, timers, tx>>

\* Before any verb there is no row, and nothing to reset (with several limits Touched, one row stands
\* for all).
Reset(l) == /\ Change(l) /\ verbs > 0
            /\ total' = [total EXCEPT ![l] = Total[l]] /\ perKey' = [perKey EXCEPT ![l] = PerKey[l]]
            /\ keys' = [keys EXCEPT ![l] = [k \in Key |-> NoCap]]
            /\ UNCHANGED <<paused, timers>>

ResetKey(l, k) == /\ Change(l) /\ keys[l][k] # NoCap /\ keys' = [keys EXCEPT ![l][k] = NoCap]
                  /\ UNCHANGED <<paused, total, perKey, timers>>

Pause(l) == /\ tx = NoTx /\ verbs < MaxVerbs /\ verbs' = verbs + 1
            /\ l \notin paused /\ paused' = paused \cup {l}
            /\ UNCHANGED <<state, wf, key, past, stranded, looking, cut, missed, total, perKey, keys, timers, tx>>

Resume(l) == /\ Change(l) /\ l \in paused /\ paused' = paused \ {l}
             /\ UNCHANGED <<total, perKey, keys, timers>>
-----------------------------------------------------------------------------
(* A key override runs out *)

Expire(l, k) == /\ keys[l][k] # NoCap /\ keys' = [keys EXCEPT ![l][k] = NoCap]
                /\ UNCHANGED <<state, wf, key, past, stranded, paused, total, perKey, timers, looking, cut, missed, verbs, tx>>

\* What a read outside the open transaction sees queued.
Seen == CASE tx.op = "start"   -> Queued \ {tx.run}
          [] tx.op = "promote" -> Queued \cup tx.taken
          [] OTHER             -> Queued

\* promoteLimit's first look, without a lock: nothing queued, nothing to do. A start that the override
\* queued may still be open.
Look(l, k) ==
    LET saw == \E r \in Seen \ past : l \in Held(wf[r]) IN
    /\ <<l, k>> \in timers /\ keys[l][k] = NoCap
    /\ timers' = timers \ {<<l, k>>}
    /\ looking' = IF saw THEN looking \cup {l} ELSE looking
    /\ missed' = IF ~saw /\ \E r \in Queued \ Seen : l \in Held(wf[r]) THEN missed \cup {l} ELSE missed
    /\ UNCHANGED <<state, wf, key, past, stranded, rows, cut, verbs, tx>>

\* It saw one: the promotion proper, under the lock.
PromoteLimit(l) == /\ tx = NoTx /\ l \in looking /\ looking' = looking \ {l}
                   /\ tx' = Promotion({l}, NoKey, FALSE)
                   /\ UNCHANGED <<state, wf, key, past, stranded, rows, timers, cut, missed, verbs>>
-----------------------------------------------------------------------------
Next == \/ \E w \in Workflow, k \in Key \cup {NoKey} : Start(w, k)
        \/ Commit \/ PromoteTry \/ PromoteEnd
        \/ \E r \in Run : End(r) \/ Reopen(r) \/ TtlPasses(r) \/ Reschedule(r) \/ Strand(r)
        \/ \E l \in Touched : \/ \E v \in Pairs : Override(l, v[1], v[2])
                              \/ \E k \in Key, n \in Values : OverrideKey(l, k, n)
                              \/ \E k \in Key : ResetKey(l, k) \/ Expire(l, k) \/ Look(l, k)
                              \/ Reset(l) \/ Pause(l) \/ Resume(l) \/ PromoteLimit(l)

\* Transactions commit, timers run, overrides run out, and live runs end.
Fairness == /\ WF_vars(Commit \/ PromoteTry \/ PromoteEnd)
            /\ WF_vars(\E r \in Live : End(r))
            /\ WF_vars(\E l \in Touched : PromoteLimit(l) \/ \E k \in Key : Expire(l, k) \/ Look(l, k))

Spec == Init /\ [][Next]_vars /\ Fairness
-----------------------------------------------------------------------------
Waiting(r) == r \in Queued \ (past \cup stranded)

Looked(r) == \E l \in Held(wf[r]) : \/ l \in looking \cup cut
                                     \/ \E k \in Key : <<l, k>> \in timers /\ keys[l][k] = NoCap

\* No run waits for a slot that is free: when a queued run fits all its limits, somebody is about to
\* look, or the last look ran out of tries and the next change will. What the code overlooks
\* (missed) waits for the next change too.
NoIdleSlot == tx = NoTx => \A r \in Run : Waiting(r) /\ Blocking(wf[r], key[r]) = {} =>
                Looked(r) \/ Held(wf[r]) \cap missed # {}

\* "a run queued after the override ran out was judged without it, so the look needs no lock first"
\* (runner.ts, promoteLimit): no look misses a run that has room.
NoRunMissed == tx = NoTx => \A r \in Run : Waiting(r) /\ Blocking(wf[r], key[r]) = {} => Looked(r)

Fits(r) == \A l \in Held(wf[r]) :
             /\ l \notin paused /\ Cardinality(Holding(l, NoKey)) <= total[l]
             /\ key[r] = NoKey \/ Cardinality(Holding(l, key[r])) <= PerKeyOf(l, key[r])

\* A start or a promotion never overfills a limit or passes a pause: when a run comes to hold its
\* limits, each has room for it, whichever of them freed the slot. Only a child reopened to undo its
\* work takes a slot past the gate.
AdmitsWithinLimits ==
    [][\A r \in Run : state[r] \in {"none", "queued"} /\ state'[r] = "live" => Fits(r)']_vars

\* Runs of one workflow and key start in the order they queued.
OrderedPerKey ==
    [][\A r, q \in Run : Waiting(r) /\ Waiting(q) /\ r < q /\ wf[r] = wf[q] /\ key[r] = key[q] =>
         ~(state'[q] = "live" /\ state'[r] = "queued")]_vars

\* Once operators leave every limit open, a queued run starts at last, or ends, or lost its code.
QueuedRunsStart ==
    <>[](paused = {} /\ cut = {} /\ missed = {} /\ \A l \in Limit : total[l] > 0 /\ perKey[l] > 0)
      => \A r \in Run : r \in Queued ~> r \notin Queued \/ r \in past \cup stranded
=============================================================================
