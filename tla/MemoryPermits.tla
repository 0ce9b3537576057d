---------------------------- MODULE MemoryPermits ----------------------------
(***************************************************************************)
(* A semaphore key of the in-process store (packages/lock/src/memory.ts)   *)
(* and the callers of it.  A pool holds up to `limit` permits; a release   *)
(* reserves permits, in queue order, for every waiter that now fits, so a  *)
(* light waiter may pass a heavy one.  The pool, and with it the limit, is *)
(* forgotten when its last hold and reservation are gone.                  *)
(*                                                                         *)
(* `limit` is 0 when pools.get(full) is undefined.  `inUse` and            *)
(* `reservedPermits` are the pool's counters inUse and reserved, kept      *)
(* apart from `holders` and the sessions they count.                       *)
(***************************************************************************)
EXTENDS AcquireLoop, Integers, FiniteSets

CONSTANTS Weight,   \* the permits each call asks for
          Limit     \* the limit each call's handle was declared with

ASSUME PermitAssumption == /\ Weight \in [Caller -> Nat \ {0}]
                           /\ Limit \in [Caller -> Nat \ {0}]
                           /\ \A c \in Caller : Weight[c] <= Limit[c]

VARIABLES limit, inUse, reservedPermits, holders, permitLine

pool == <<limit, inUse, reservedPermits, holders>>
permitStore == <<limit, inUse, reservedPermits, holders, permitLine>>
permitVars == <<pc, session, aborted, watchers, limit, inUse, reservedPermits, holders, permitLine>>

\* Typing of the tables of memory.ts; no counter of a pool goes below zero.
PermitTypeOK == /\ LoopTypeOK
                /\ limit \in Nat /\ inUse \in Nat /\ reservedPermits \in Nat
                /\ holders \subseteq Caller
                /\ permitLine \in Seq(Caller) /\ IsInjective(permitLine)

PermitInit == /\ LoopInit
              /\ limit = 0 /\ inUse = 0 /\ reservedPermits = 0
              /\ holders = {} /\ permitLine = <<>>
-----------------------------------------------------------------------------
(* The store *)

NoPool == limit = 0

\* The permits the calls of S ask for, counted one by one.
Permits(S) == Cardinality(UNION {{c} \X (1..Weight[c]) : c \in S})

\* Mutant: the permits a waiter takes are not counted while the line is served.
ServeUncounted(done, c) ==
    IF done.inUse + Weight[c] <= limit THEN [done EXCEPT !.who = @ \cup {c}]
                                       ELSE [done EXCEPT !.line = Append(@, c)]

\* One turn of dispatchPermits' loop: c is served if it fits in what is left, else it keeps its place.
Serve(done, c) ==
    IF done.inUse + Weight[c] <= limit THEN [done EXCEPT !.inUse = @ + Weight[c], !.who = @ \cup {c}]
                                       ELSE [done EXCEPT !.line = Append(@, c)]

\* The loop over the line l when u permits are in use: first fit, in queue order.
Served(l, u) ==
    LET after[i \in 0..Len(l)] == IF i = 0 THEN [inUse |-> u, who |-> {}, line |-> <<>>]
                                           ELSE Serve(after[i - 1], l[i])
    IN  after[Len(l)]

\* dispatchPermits on a pool that now has holders h and u permits in use, r of them reserved.
DispatchPermits(h, u, r, l, s, p) ==
    LET served == IF NoPool THEN [inUse |-> u, who |-> {}, line |-> l] ELSE Served(l, u)
        taken == served.inUse - u
        gone == h = {} /\ r + taken = 0
    IN  /\ holders' = h
        /\ limit' = IF gone THEN 0 ELSE limit
        /\ inUse' = IF gone THEN 0 ELSE served.inUse
        /\ reservedPermits' = r + taken
        /\ permitLine' = served.line
        /\ session' = [c \in Caller |-> IF c \in served.who THEN "reserved" ELSE s[c]]
        /\ pc' = [c \in Caller |-> IF c \in served.who /\ p[c] = "paused" THEN "woken" ELSE p[c]]
        /\ watchers' = IF gone THEN {} ELSE watchers

\* Mutant: a closing session keeps the permits reserved for it.
PermitCloseKeeping(c, p) ==
    LET s == [session EXCEPT ![c] = "none"] IN
    IF session[c] \in {"queued", "reserved"}
    THEN DispatchPermits(holders, inUse, reservedPermits, Without(permitLine, c), s, p)
    ELSE session' = s /\ pc' = p /\ UNCHANGED <<permitStore, watchers>>

\* Session.close by c: a queued waiter leaves the line, a reservation gives its permits back.
PermitClose(c, p) ==
    LET s == [session EXCEPT ![c] = "none"]
        back == IF session[c] = "reserved" THEN Weight[c] ELSE 0
    IN  IF session[c] \in {"queued", "reserved"}
        THEN DispatchPermits(holders, inUse - back, reservedPermits - back, Without(permitLine, c), s, p)
        ELSE session' = s /\ pc' = p /\ UNCHANGED <<permitStore, watchers>>

\* A key held with one limit refuses another with a config error.
WrongLimit(c) == ~NoPool /\ limit # Limit[c]

\* permits.acquire turns the permits reserved for c into a hold, or finds room for them.
PermitRedeems(c) == ~NoPool /\ session[c] = "reserved"
HasRoom(c) == inUse + Weight[c] <= Limit[c]

\* queueRefused: a refused waiter whose session is in no line joins it.
QueuePermitRefused(c) ==
    IF session[c] = "idle"
    THEN permitLine' = Append(permitLine, c) /\ session' = [session EXCEPT ![c] = "queued"]
    ELSE UNCHANGED <<permitLine, session>>

\* permits.waiter after c's first refusal: nothing on a free key, else reserve what fits or join the line.
NewPermitWaiter(c) ==
    \/ /\ NoPool
       /\ session' = [session EXCEPT ![c] = "idle"]
       /\ UNCHANGED permitStore
    \/ /\ ~NoPool /\ inUse + Weight[c] <= limit
       /\ session' = [session EXCEPT ![c] = "reserved"]
       /\ inUse' = inUse + Weight[c]
       /\ reservedPermits' = reservedPermits + Weight[c]
       /\ UNCHANGED <<limit, holders, permitLine>>
    \/ /\ ~NoPool /\ inUse + Weight[c] > limit
       /\ session' = [session EXCEPT ![c] = "queued"]
       /\ permitLine' = Append(permitLine, c)
       /\ UNCHANGED pool
-----------------------------------------------------------------------------
(* The callers *)

PermitGrant(c) == /\ MayAttempt(c) /\ ~WrongLimit(c)
                  /\ \/ /\ PermitRedeems(c)
                        /\ session' = [session EXCEPT ![c] = "idle"]
                        /\ reservedPermits' = reservedPermits - Weight[c]
                        /\ UNCHANGED <<limit, inUse>>
                     \/ /\ ~PermitRedeems(c) /\ HasRoom(c)
                        /\ inUse' = inUse + Weight[c]
                        /\ limit' = Limit[c]
                        /\ UNCHANGED <<session, reservedPermits>>
                  /\ holders' = holders \cup {c}
                  /\ pc' = [pc EXCEPT ![c] = "granted"]
                  /\ UNCHANGED <<aborted, permitLine, watchers>>

PermitRefuse(c) == /\ MayAttempt(c) /\ ~WrongLimit(c)
                   /\ ~PermitRedeems(c) /\ ~HasRoom(c)
                   /\ QueuePermitRefused(c)
                   /\ pc' = [pc EXCEPT ![c] = "refused"]
                   /\ UNCHANGED <<aborted, watchers, pool>>

\* The store rejects the attempt and the loop ends with the error.
RejectLimit(c) == /\ MayAttempt(c) /\ WrongLimit(c)
                  /\ pc' = [pc EXCEPT ![c] = "leaving"]
                  /\ UNCHANGED <<session, aborted, watchers, permitStore>>

PermitLand(c) == /\ pc[c] = "granted" /\ ~aborted[c]
                 /\ PermitClose(c, [pc EXCEPT ![c] = "held"])
                 /\ UNCHANGED aborted

PermitGiveBack(c) == /\ pc[c] = "granted" /\ aborted[c]
                     /\ DispatchPermits(holders \ {c}, inUse - Weight[c], reservedPermits, permitLine, session,
                                        [pc EXCEPT ![c] = "leaving"])
                     /\ UNCHANGED aborted

\* Mutant: a waiter that was served before it went to sleep sleeps all the same.
PermitPauseBlindly(c) == /\ pc[c] = "refused"
                         /\ IF session[c] = "none" THEN NewPermitWaiter(c) ELSE UNCHANGED <<permitStore, session>>
                         /\ pc' = [pc EXCEPT ![c] = IF aborted[c] THEN "woken" ELSE "paused"]
                         /\ UNCHANGED <<aborted, watchers>>

\* pause: a waiter that is queued sleeps, any other goes on at once.
PermitPause(c) == /\ pc[c] = "refused"
                  /\ IF session[c] = "none" THEN NewPermitWaiter(c) ELSE UNCHANGED <<permitStore, session>>
                  /\ pc' = [pc EXCEPT ![c] =
                              IF session'[c] = "queued" /\ ~aborted[c] THEN "paused" ELSE "woken"]
                  /\ UNCHANGED <<aborted, watchers>>

PermitLeave(c) == /\ MayLeave(c)
                  /\ PermitClose(c, [pc EXCEPT ![c] = "idle"])
                  /\ aborted' = [aborted EXCEPT ![c] = FALSE]

PermitRelease(c) == /\ pc[c] = "held"
                    /\ DispatchPermits(holders \ {c}, inUse - Weight[c], reservedPermits, permitLine, session,
                                       [pc EXCEPT ![c] = "idle"])
                    /\ UNCHANGED aborted

PermitNext == \/ \E c \in Caller : \/ PermitGrant(c) \/ PermitRefuse(c) \/ RejectLimit(c) \/ PermitLand(c)
                                   \/ PermitGiveBack(c) \/ PermitPause(c) \/ PermitLeave(c) \/ PermitRelease(c)
                                   \/ Abort(c) /\ UNCHANGED permitStore
                                   \/ PauseTimer(c) /\ UNCHANGED permitStore
              \/ \E w \in Watcher : (Watch(w, NoPool) \/ StopWatch(w)) /\ UNCHANGED permitStore

PermitSpec == PermitInit /\ [][PermitNext]_permitVars
-----------------------------------------------------------------------------
(* Properties *)

\* The callers that hold never use more permits than the limit each of them was granted under,
\* whatever limits later callers bring (memory.ts permits.acquire).
Capacity == \A c \in Caller : Holds(c) => Permits({d \in Caller : Holds(d)}) <= Limit[c]

\* The pool's counters are what the holds and reservations add up to, and the pool lives exactly
\* as long as there is one of either: no abort, give-back or departure leaks a permit.
CountersAgree ==
    LET waiting == {c \in Caller : session[c] = "reserved"}
    IN  /\ holders = {c \in Caller : Holds(c)}
        /\ reservedPermits = Permits(waiting)
        /\ inUse = Permits(holders) + reservedPermits
        /\ NoPool <=> holders \cup waiting = {}

\* "Anyone queued who fits was served by the last release" (memory.ts:400): nobody in permitLine fits in the
\* permits that are left, a key without a pool has nobody in line and nobody watching, and permits are never
\* reserved for a caller that is asleep or gone. It needs every call to fit in the smallest limit declared
\* for the key: a pool of a smaller one is forgotten with heavier calls in line.
NoIdleFit ==
    /\ \A i \in 1..Len(permitLine) : ~NoPool /\ inUse + Weight[permitLine[i]] > limit
    /\ NoPool => watchers = {}
    /\ \A c \in Caller : session[c] = "reserved" => pc[c] \in {"woken", "refused", "leaving"}
=============================================================================
