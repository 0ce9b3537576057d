----------------------------- MODULE MemoryMutex -----------------------------
(***************************************************************************)
(* A mutex key of the in-process store (packages/lock/src/memory.ts) and   *)
(* the callers of it.  A release does not free a key someone waits for: it *)
(* reserves it for the waiter at the head of the line and wakes that one,  *)
(* whose next attempt turns the reservation into a hold.                   *)
(*                                                                         *)
(* `holder` and `reserved` are the fields of MutexState (a deleted entry   *)
(* is both Nobody) and `line` is lines.get(full).  A caller has at most    *)
(* one hold, so it stands for its attempt's token.                         *)
(***************************************************************************)
EXTENDS AcquireLoop

VARIABLES holder, reserved, line

store == <<holder, reserved, line>>
vars == <<pc, session, aborted, watchers, holder, reserved, line>>

\* Typing of the tables of memory.ts; a session is linked into the line at most once.
TypeOK == /\ LoopTypeOK
          /\ holder \in Caller \cup {Nobody}
          /\ reserved \in Caller \cup {Nobody}
          /\ line \in Seq(Caller) /\ IsInjective(line)

Init == /\ LoopInit
        /\ holder = Nobody /\ reserved = Nobody
        /\ line = <<>>
-----------------------------------------------------------------------------
(* The store *)

IsFree == holder = Nobody /\ reserved = Nobody

\* dispatchMutex on a table that now reads h, r, l: hand a free key to the head, or wake the watchers.
DispatchMutex(h, r, l, s, p) ==
    /\ holder' = h
    /\ IF h = Nobody /\ r = Nobody /\ l # <<>>
       THEN /\ reserved' = Head(l)
            /\ line' = Tail(l)
            /\ session' = [s EXCEPT ![Head(l)] = "reserved"]
            /\ pc' = Wake(p, Head(l))
            /\ UNCHANGED watchers
       ELSE /\ reserved' = r
            /\ line' = l
            /\ session' = s
            /\ pc' = p
            /\ watchers' = IF h = Nobody /\ r = Nobody THEN {} ELSE watchers

\* Mutant: a closing session gives up its place or reservation without dispatching.
CloseQuietly(c, p) ==
    /\ session' = [session EXCEPT ![c] = "none"]
    /\ pc' = p
    /\ reserved' = IF reserved = c THEN Nobody ELSE reserved
    /\ line' = Without(line, c)
    /\ UNCHANGED <<holder, watchers>>

\* Session.close by c, whose loop ends with program counters p.
Close(c, p) ==
    LET s == [session EXCEPT ![c] = "none"] IN
    IF session[c] \in {"queued", "reserved"}
    THEN DispatchMutex(holder, IF reserved = c THEN Nobody ELSE reserved,
                       Without(line, c), s, p)
    ELSE session' = s /\ pc' = p /\ UNCHANGED <<store, watchers>>

\* Mutants: a reservation does not keep newcomers out; the holder is not checked.
GrantableByBarging(c) == holder = Nobody
GrantableWhileHeld(c) == (reserved = c /\ session[c] = "reserved") \/ reserved = Nobody

\* store.acquire lets c in: its own reservation, or a free key.
Grantable(c) == \/ reserved = c /\ session[c] = "reserved"
                \/ IsFree

\* queueRefused: a refused session that is not in line yet joins it.
QueueRefused(c) ==
    IF session[c] = "idle"
    THEN line' = Append(line, c) /\ session' = [session EXCEPT ![c] = "queued"]
    ELSE UNCHANGED <<line, session>>

\* store.waiter after c's first refusal: join the line, or reserve a key freed meanwhile.
NewWaiter(c) ==
    IF IsFree
    THEN /\ reserved' = c
         /\ session' = [session EXCEPT ![c] = "reserved"]
         /\ UNCHANGED line
    ELSE /\ line' = Append(line, c)
         /\ session' = [session EXCEPT ![c] = "queued"]
         /\ UNCHANGED reserved
-----------------------------------------------------------------------------
(* The callers *)

Grant(c) == /\ MayAttempt(c) /\ Grantable(c)
            /\ holder' = c
            /\ reserved' = Nobody
            /\ session' = [session EXCEPT ![c] = IF @ = "reserved" THEN "idle" ELSE @]
            /\ pc' = [pc EXCEPT ![c] = "granted"]
            /\ UNCHANGED <<aborted, line, watchers>>

Refuse(c) == /\ MayAttempt(c) /\ ~Grantable(c)
             /\ QueueRefused(c)
             /\ pc' = [pc EXCEPT ![c] = "refused"]
             /\ UNCHANGED <<aborted, holder, reserved, watchers>>

\* The continuation of a granted attempt: the guard is returned and the session closed.
Land(c) == /\ pc[c] = "granted" /\ ~aborted[c]
           /\ Close(c, [pc EXCEPT ![c] = "held"])
           /\ UNCHANGED aborted

\* Mutant: nobody hands the late grant back.
LeakGrant(c) == /\ pc[c] = "granted" /\ aborted[c]
                /\ pc' = [pc EXCEPT ![c] = "leaving"]
                /\ UNCHANGED <<session, aborted, watchers, store>>

\* The signal fired while the grant was landing: the late grant is handed back.
GiveBack(c) == /\ pc[c] = "granted" /\ aborted[c]
               /\ DispatchMutex(Nobody, reserved, line, session,
                                [pc EXCEPT ![c] = "leaving"])
               /\ UNCHANGED aborted

\* The wait after a refusal; a session that is not queued, or a fired signal, ends it at once.
Pause(c) == /\ pc[c] = "refused"
            /\ IF session[c] = "none" THEN NewWaiter(c) ELSE UNCHANGED <<reserved, line, session>>
            /\ pc' = [pc EXCEPT ![c] =
                        IF session'[c] = "queued" /\ ~aborted[c] THEN "paused" ELSE "woken"]
            /\ UNCHANGED <<aborted, holder, watchers>>

Leave(c) == /\ MayLeave(c)
            /\ Close(c, [pc EXCEPT ![c] = "idle"])
            /\ aborted' = [aborted EXCEPT ![c] = FALSE]

Release(c) == /\ pc[c] = "held"
              /\ DispatchMutex(Nobody, reserved, line, session, [pc EXCEPT ![c] = "idle"])
              /\ UNCHANGED aborted

\* What the event loop owes a caller: its continuations run, and a holder releases.
Proceed(c) == \/ pc[c] = "woken" /\ (Grant(c) \/ Refuse(c))
              \/ Land(c) \/ GiveBack(c) \/ Pause(c) \/ Leave(c) \/ Release(c)

Next == \/ \E c \in Caller : \/ Grant(c) \/ Refuse(c) \/ Land(c) \/ GiveBack(c)
                             \/ Pause(c) \/ Leave(c) \/ Release(c)
                             \/ Abort(c) /\ UNCHANGED store
                             \/ PauseTimer(c) /\ UNCHANGED store
        \/ \E w \in Watcher : (Watch(w, IsFree) \/ StopWatch(w)) /\ UNCHANGED store

Spec == Init /\ [][Next]_vars
FairSpec == Spec /\ \A c \in Caller : WF_vars(Proceed(c))
-----------------------------------------------------------------------------
(* Properties *)

\* Two callers never hold the key at once, not even while a late grant is being handed back (memory.ts acquire).
MutualExclusion == \A c, d \in Caller : Holds(c) /\ Holds(d) => c = d

NoSleepOnFree == IsFree => line = <<>> /\ watchers = {}
ReservationIsAwake == \A c \in Caller :
    /\ reserved = c => pc[c] \in {"woken", "refused"}
    /\ session[c] = "reserved" <=> reserved = c

\* No release, abort or departure forgets a waiter: a free key has nobody in line and nobody watching (memory.ts
\* waiter: "Nobody is queued on a free key, so this waiter is first"), and a key is never reserved for a caller
\* that is asleep or gone, even when handTo falls between the caller's refusal and its next pause.
NobodySleepsInVain == NoSleepOnFree /\ ReservationIsAwake

\* The hand-over protocol implements a first come, first served lock: a reserved caller is the head of the queue.
Queue == IF reserved = Nobody THEN line ELSE <<reserved>> \o line
Fifo == INSTANCE FifoLock WITH owner <- holder, queue <- Queue
ImplementsFifo == Fifo!Spec

\* A caller in line gets the key or stops waiting, without ever needing the pause timer to poll.
EveryWaiterIsServed == \A c \in Caller :
    session[c] = "queued" ~> pc[c] \in {"held", "idle"}
=============================================================================
