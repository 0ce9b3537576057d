------------------------------ MODULE LeaseLock ------------------------------
(***************************************************************************)
(* A mutex key of a lease store (pg, sqlite, redis) and the guards of the  *)
(* manager (makeHeld in packages/lock/src/locks.ts) that believe to hold   *)
(* it.  The store keeps one row: the owner's token, its expiry and the     *)
(* fence counter.  A guard trusts its lease until a local deadline counted *)
(* from the moment the request was sent, renews it, and gives it up when a *)
(* renewal is refused or the deadline timer fires.                         *)
(*                                                                         *)
(* A Token is one attempt: attemptOnce makes a fresh one each time, so it  *)
(* acquires at most once.  Calls travel to the store and answers travel    *)
(* back, in any order and as late as they like; a lost one is one that is  *)
(* never taken up.  A store client that reconnects (ioredis) sends a call  *)
(* again whose answer was lost.  Clocks run at the same rate: `now` is     *)
(* both the store's clock and every process's.                             *)
(***************************************************************************)
EXTENDS Integers, FiniteSets

CONSTANTS Token,     \* the attempts
          NoToken,   \* the row's token when the key is free
          TTL,       \* the lease length
          MaxTime,   \* bound on the clock
          MaxExtends,\* bound on one guard's renewals under way, awaited or given up
          Resends,   \* whether the store's client repeats a call whose answer was lost
          Stalls     \* whether an event loop may stall past a deadline timer

ASSUME LeaseAssumption == /\ NoToken \notin Token
                          /\ TTL \in Nat \ {0}
                          /\ MaxTime \in Nat /\ MaxExtends \in Nat
                          /\ Resends \in BOOLEAN /\ Stalls \in BOOLEAN

VARIABLES now,
          row,        \* [token, expires]: the store's row
          generation, \* the store's fence counter
          calls,      \* requests on their way to the store
          answers,    \* answers on their way back
          phase,      \* where each attempt is
          deadline,   \* until when its guard trusts the lease
          renewing,   \* the send time of the renewal it awaits, or None
          running,    \* whether its callback was started
          fence,      \* the fence it was granted
          overlapped  \* history: the store granted the key to another while this guard had not ended

vars == <<now, row, generation, calls, answers, phase, deadline,
          renewing, running, fence, overlapped>>
guards == <<phase, deadline, renewing, running, fence>>

None == -1
Time == 0..MaxTime

\*   new      not sent            asking   the acquire is in flight     gaveUp   timed out or aborted
\*   refused  not acquired        held     the guard has not ended      lost     ended by `lose`
\*   released ended by release    crashed  the process is gone
Phase == {"new", "asking", "gaveUp", "refused", "held", "lost", "released", "crashed"}

Acquire(t, s) == [op |-> "acquire", token |-> t, sent |-> s]
Extend(t, s) == [op |-> "extend", token |-> t, sent |-> s]
Free(t) == [op |-> "release", token |-> t, sent |-> None]

Call == [op : {"acquire", "extend"}, token : Token, sent : Time]
        \cup [op : {"release"}, token : Token, sent : {None}]
Answer == {a \in [op : {"acquire", "extend"}, token : Token, sent : Time, says : {"yes", "no"}, fence : Nat] :
             a.fence > 0 <=> a.op = "acquire" /\ a.says = "yes"}
Yes(a) == a.says = "yes"

\* Typing of the row, the messages and the guards; a grant always comes with a positive fence.
TypeOK == /\ now \in Time
          /\ row \in [token : Token \cup {NoToken}, expires : Nat]
          /\ generation \in Nat /\ (row.token # NoToken => generation > 0)
          /\ calls \subseteq Call /\ answers \subseteq Answer
          /\ phase \in [Token -> Phase]
          /\ deadline \in [Token -> Nat]
          /\ renewing \in [Token -> Time \cup {None}]
          /\ running \in [Token -> BOOLEAN]
          /\ fence \in [Token -> Nat]
          /\ overlapped \in [Token -> BOOLEAN]

Init == /\ now = 0
        /\ row = [token |-> NoToken, expires |-> 0] /\ generation = 0
        /\ calls = {} /\ answers = {}
        /\ phase = [t \in Token |-> "new"]
        /\ deadline = [t \in Token |-> 0]
        /\ renewing = [t \in Token |-> None]
        /\ running = [t \in Token |-> FALSE]
        /\ fence = [t \in Token |-> 0]
        /\ overlapped = [t \in Token |-> FALSE]
-----------------------------------------------------------------------------
(* The store *)

Reply(m, ok, f) ==
    [op |-> m.op, token |-> m.token, sent |-> m.sent, says |-> IF ok THEN "yes" ELSE "no", fence |-> f]

\* The store answers call m.
Answers(m, ok, f) == /\ calls' = calls \ {m}
                     /\ answers' = answers \cup {Reply(m, ok, f)}

\* Mutant: a takeover keeps the fence.
ExecuteAcquireNoBump(m) ==
    LET t == m.token
        free == row.token = NoToken \/ row.expires <= now
        own == ~free /\ row.token = t
    IN  /\ row' = IF free \/ own THEN [token |-> t, expires |-> now + TTL] ELSE row
        /\ generation' = IF row.token = NoToken THEN generation + 1 ELSE generation
        /\ Answers(m, free \/ own, IF free \/ own THEN generation' ELSE 0)
        /\ overlapped' = [u \in Token |-> overlapped[u] \/ (free /\ u # t /\ phase[u] = "held")]
        /\ UNCHANGED <<now, guards>>

\* store.acquire: a free or expired row goes to the caller with the next fence; a resent winner wins again.
ExecuteAcquire(m) ==
    LET t == m.token
        free == row.token = NoToken \/ row.expires <= now
        own == ~free /\ row.token = t
    IN  /\ row' = IF free \/ own THEN [token |-> t, expires |-> now + TTL] ELSE row
        /\ generation' = IF free THEN generation + 1 ELSE generation
        /\ Answers(m, free \/ own, IF free \/ own THEN generation' ELSE 0)
        /\ overlapped' = [u \in Token |-> overlapped[u] \/ (free /\ u # t /\ phase[u] = "held")]
        /\ UNCHANGED <<now, guards>>

\* store.extend: only the row's owner, and only while the lease has not expired.
ExecuteExtend(m) ==
    LET ok == row.token = m.token /\ row.expires > now
    IN  /\ row' = IF ok THEN [row EXCEPT !.expires = now + TTL] ELSE row
        /\ Answers(m, ok, 0)
        /\ UNCHANGED <<now, generation, overlapped, guards>>

\* Mutant: a release does not check the token.
ExecuteReleaseAny(m) ==
    /\ row' = [token |-> NoToken, expires |-> now]
    /\ calls' = calls \ {m}
    /\ UNCHANGED <<now, generation, answers, overlapped, guards>>

\* store.release: frees the row of its owner; its answer changes nothing for a guard that has ended.
ExecuteRelease(m) ==
    /\ row' = IF row.token = m.token THEN [token |-> NoToken, expires |-> now] ELSE row
    /\ calls' = calls \ {m}
    /\ UNCHANGED <<now, generation, answers, overlapped, guards>>

Execute == \E m \in calls : \/ m.op = "acquire" /\ ExecuteAcquire(m)
                            \/ m.op = "extend" /\ ExecuteExtend(m)
                            \/ m.op = "release" /\ ExecuteRelease(m)

\* The client reconnects after an answer was lost and sends its call again.
Resend == /\ Resends
          /\ \E a \in answers :
                /\ answers' = answers \ {a}
                /\ calls' = calls \cup {[op |-> a.op, token |-> a.token, sent |-> a.sent]}
          /\ UNCHANGED <<now, row, generation, overlapped, guards>>
-----------------------------------------------------------------------------
(* The manager *)

Live(t) == phase[t] = "held" /\ now < deadline[t]   \* guard.held

\* Unless its event loop stalls, a due deadline timer fires before anything else of t runs.
OnTime(t) == Stalls \/ phase[t] # "held" \/ now < deadline[t]

\* attemptOnce sends the acquire.
Ask(t) == /\ phase[t] = "new"
          /\ phase' = [phase EXCEPT ![t] = "asking"]
          /\ calls' = calls \cup {Acquire(t, now)}
          /\ UNCHANGED <<now, row, generation, answers, deadline, renewing, running, fence, overlapped>>

\* storeTimeout passed, the signal fired or the call failed: the attempt is given up, a grant may still come.
GiveUp(t) == /\ phase[t] = "asking"
             /\ phase' = [phase EXCEPT ![t] = "gaveUp"]
             /\ UNCHANGED <<now, row, generation, calls, answers, deadline, renewing,
                            running, fence, overlapped>>

\* The renew-at-once rule: less than a third of the lease is left.
RenewsFirst(d) == 3 * (d - now) < TTL

\* Mutant: the deadline counts from the answer.
LandFromAnswer(t, a) ==
    /\ phase' = [phase EXCEPT ![t] = "held"]
    /\ deadline' = [deadline EXCEPT ![t] = now + TTL]
    /\ fence' = [fence EXCEPT ![t] = a.fence]
    /\ running' = [running EXCEPT ![t] = TRUE]
    /\ UNCHANGED <<calls, renewing>>

\* A grant arrives in time: makeHeld sets the deadline; a short lease is renewed before the callback starts.
\* A grant that took a whole lease to arrive is stale and handed back.
LandGrant(t, a) ==
    \/ /\ now - a.sent >= TTL
       /\ phase' = [phase EXCEPT ![t] = "refused"]
       /\ calls' = calls \cup {Free(t)}
       /\ UNCHANGED <<deadline, renewing, running, fence>>
    \/ /\ now - a.sent < TTL
       /\ phase' = [phase EXCEPT ![t] = "held"]
       /\ deadline' = [deadline EXCEPT ![t] = a.sent + TTL]
       /\ fence' = [fence EXCEPT ![t] = a.fence]
       /\ LET first == RenewsFirst(a.sent + TTL) IN
          /\ renewing' = [renewing EXCEPT ![t] = IF first THEN now ELSE None]
          /\ running' = [running EXCEPT ![t] = ~first]
          /\ calls' = IF first THEN calls \cup {Extend(t, now)} ELSE calls

\* The answer to an acquire: refused, granted, or granted too late for an attempt that was given up.
AcquireAnswer(a) ==
    LET t == a.token IN
    /\ a.op = "acquire"
    /\ answers' = answers \ {a}
    /\ \/ /\ phase[t] = "asking" /\ ~Yes(a)
          /\ phase' = [phase EXCEPT ![t] = "refused"]
          /\ UNCHANGED <<calls, deadline, renewing, running, fence>>
       \/ /\ phase[t] = "asking" /\ Yes(a)
          /\ LandGrant(t, a)
       \/ /\ phase[t] = "gaveUp"
          /\ calls' = IF Yes(a) THEN calls \cup {Free(t)} ELSE calls
          /\ UNCHANGED <<phase, deadline, renewing, running, fence>>
    /\ UNCHANGED <<now, row, generation, overlapped>>

\* renewOnce sends a renewal: at a beat, or for guard.extend(), which does not refuse a released guard.
Renew(t) == /\ phase[t] \in {"held", "released"} /\ renewing[t] = None /\ running[t] /\ OnTime(t)
            /\ Cardinality({m \in calls \cup answers : m.op = "extend" /\ m.token = t}) < MaxExtends
            /\ renewing' = [renewing EXCEPT ![t] = now]
            /\ calls' = calls \cup {Extend(t, now)}
            /\ UNCHANGED <<now, row, generation, answers, phase, deadline, running, fence, overlapped>>

\* The answer renewOnce awaits: prolong the deadline, lose a refused lease, hand back one renewed after the guard ended.
RenewAnswer(a) ==
    LET t == a.token IN
    /\ a.op = "extend" /\ renewing[t] = a.sent /\ phase[t] # "crashed" /\ OnTime(t)
    /\ answers' = answers \ {a}
    /\ renewing' = [renewing EXCEPT ![t] = None]
    /\ phase' = [phase EXCEPT ![t] = IF @ = "held" /\ ~Yes(a) THEN "lost" ELSE @]
    /\ deadline' = [deadline EXCEPT ![t] = IF phase[t] = "held" /\ Yes(a) THEN a.sent + TTL ELSE @]
    /\ calls' = IF phase[t] # "held" /\ Yes(a) THEN calls \cup {Free(t)} ELSE calls
    /\ UNCHANGED <<now, row, generation, running, fence, overlapped>>

\* The answer to a renewal nobody awaits any more: a timed-out call's answer is dropped, whatever it says.
IgnoreAnswer(a) == /\ a.op = "extend" /\ renewing[a.token] # a.sent
                   /\ answers' = answers \ {a}
                   /\ UNCHANGED <<now, row, generation, calls, guards, overlapped>>

\* storeTimeout passed or the renewal failed: the next beat tries again.
RenewTimeout(t) == /\ renewing[t] # None /\ phase[t] # "crashed" /\ OnTime(t)
                   /\ renewing' = [renewing EXCEPT ![t] = None]
                   /\ UNCHANGED <<now, row, generation, calls, answers, phase, deadline,
                                  running, fence, overlapped>>

\* acquireHeld after renew-at-once: the guard is handed out unless it was lost meanwhile.
Start(t) == /\ phase[t] = "held" /\ renewing[t] = None /\ ~running[t] /\ OnTime(t)
            /\ running' = [running EXCEPT ![t] = TRUE]
            /\ UNCHANGED <<now, row, generation, calls, answers, phase, deadline,
                           renewing, fence, overlapped>>

\* The deadline timer fires.
DeadlineTimer(t) == /\ phase[t] = "held" /\ now >= deadline[t]
                    /\ phase' = [phase EXCEPT ![t] = "lost"]
                    /\ UNCHANGED <<now, row, generation, calls, answers, deadline, renewing,
                                   running, fence, overlapped>>

\* The callback settles and doRelease runs: the guard ends first, then the store is told.
Release(t) == /\ phase[t] = "held" /\ running[t] /\ OnTime(t)
              /\ phase' = [phase EXCEPT ![t] = "released"]
              /\ calls' = calls \cup {Free(t)}
              /\ UNCHANGED <<now, row, generation, answers, deadline, renewing, running, fence, overlapped>>

\* The holder's process dies; what it sent is still on its way. (Any other process that dies just stops.)
Crash(t) == /\ phase[t] = "held"
            /\ phase' = [phase EXCEPT ![t] = "crashed"]
            /\ UNCHANGED <<now, row, generation, calls, answers, deadline, renewing,
                           running, fence, overlapped>>

\* Time goes on; without stalls no due deadline timer is left behind.
Tick == /\ now < MaxTime
        /\ \A t \in Token : OnTime(t)
        /\ now' = now + 1
        /\ UNCHANGED <<row, generation, calls, answers, guards, overlapped>>

Next == \/ Execute \/ Resend \/ Tick
        \/ \E t \in Token : \/ Ask(t) \/ GiveUp(t) \/ Renew(t) \/ RenewTimeout(t) \/ Start(t)
                            \/ DeadlineTimer(t) \/ Release(t) \/ Crash(t)
        \/ \E a \in answers : AcquireAnswer(a) \/ RenewAnswer(a) \/ IgnoreAnswer(a)

Spec == Init /\ [][Next]_vars
-----------------------------------------------------------------------------
(* Properties *)

\* Two guards never answer `held` at once, whatever is late, lost, repeated or stalled (guard.held in makeHeld).
MutualExclusion == \A t, u \in Token : Live(t) /\ Live(u) => t = u

\* While a guard answers `held` the store's row is its own and outlives its deadline: "the deadline is
\* counted from the time the request was sent, so it is never after the store's expiry" (README).
DeadlineWithinLease == \A t \in Token :
    Live(t) => row.token = t /\ row.expires >= deadline[t]

NewestFence == \A t \in Token : Live(t) => fence[t] = generation
FenceIsUnique == \A t, u \in Token : fence[t] = fence[u] /\ fence[t] # 0 => t = u

\* A fence is a fencing token: no two attempts are given the same one, though calls are resent, and a guard
\* that answers `held` carries the newest the store has given out (store.acquire).
FencesOrderGrants == NewestFence /\ FenceIsUnique

\* A callback starts only under a live lease: a short or stale grant is renewed or handed back first (acquireHeld).
StartsLive == [][\A t \in Token : running'[t] /\ ~running[t] => Live(t)']_vars

\* "A lost lock returns `LockLost` by default" (README): run gives the callback's value only when the key
\* was granted to nobody else between its grant and its release.
ValueMeansExclusive == \A t \in Token : phase[t] = "released" => ~overlapped[t]
=============================================================================
