----------------------------- MODULE AcquireLoop -----------------------------
(***************************************************************************)
(* The lock manager's side of one key of the in-process store: the loop of *)
(* `acquireHeld` (packages/lock/src/locks.ts) run by each caller, and the  *)
(* life of the waiter session (`Session` in memory.ts) that the caller     *)
(* keeps from its first refusal until its loop ends.                       *)
(*                                                                         *)
(* JavaScript runs one continuation at a time, so a step below is the code *)
(* between two awaits.  MemoryMutex, MemoryPermits and MemoryShared extend *)
(* this module with the store's tables and say what each step does there.  *)
(*                                                                         *)
(*   idle     not in a call                                                *)
(*   granted  the store granted the attempt; its continuation has not run  *)
(*   refused  the store refused the attempt; its continuation has not run  *)
(*   paused   asleep in `pause`                                            *)
(*   woken    out of `pause`, about to attempt again                       *)
(*   held     the guard was returned to the caller                         *)
(*   leaving  the loop ended with an error; its `finally` has not run      *)
(***************************************************************************)
EXTENDS Naturals, Sequences, SequencesExt

CONSTANTS Caller,   \* the concurrent calls on the key
          Nobody,   \* no caller
          Watcher   \* callers of the store's plain waitFor

ASSUME NobodyAssumption == Nobody \notin Caller

VARIABLES pc,       \* where each caller is in acquireHeld
          session,  \* the state of its waiter session, "none" before the first refusal
          aborted,  \* whether its AbortSignal has fired
          watchers  \* the waitFor callers that are asleep

PC == {"idle", "granted", "refused", "paused", "woken", "held", "leaving"}
SessionState == {"none", "idle", "queued", "reserved"}

LoopTypeOK == /\ pc \in [Caller -> PC]
              /\ session \in [Caller -> SessionState]
              /\ aborted \in [Caller -> BOOLEAN]
              /\ watchers \subseteq Watcher

LoopInit == /\ pc = [c \in Caller |-> "idle"]
            /\ session = [c \in Caller |-> "none"]
            /\ aborted = [c \in Caller |-> FALSE]
            /\ watchers = {}

\* The store counts c as a holder: from the grant until the release or give-back.
Holds(c) == pc[c] \in {"granted", "held"}

\* Session.wake: ends the pending waitFor, if there is one.
Wake(p, c) == [p EXCEPT ![c] = IF @ = "paused" THEN "woken" ELSE @]

\* attemptOnce asks the store when the call starts and after each pause, unless its signal fired.
MayAttempt(c) == pc[c] = "idle" \/ (pc[c] = "woken" /\ ~aborted[c])

\* The loop ends with nothing held: tryRun was refused, the wait ran out, or the signal fired.
MayLeave(c) == \/ pc[c] \in {"refused", "leaving"}
               \/ pc[c] = "woken" /\ aborted[c]

\* The caller's AbortSignal fires; a pause ends at once.
Abort(c) == /\ pc[c] \in {"granted", "refused", "paused", "woken"}
            /\ ~aborted[c]
            /\ aborted' = [aborted EXCEPT ![c] = TRUE]
            /\ pc' = Wake(pc, c)
            /\ UNCHANGED <<session, watchers>>

\* The timer of a pause (at most BACKOFF_MAX_MS) ends it.
PauseTimer(c) == /\ pc[c] = "paused"
                 /\ pc' = Wake(pc, c)
                 /\ UNCHANGED <<session, aborted, watchers>>

\* The store's waitFor on a key that is not free (on a free one it returns at once), and its abort.
Watch(w, free) == /\ ~free /\ w \notin watchers
                  /\ watchers' = watchers \cup {w}
                  /\ UNCHANGED <<pc, session, aborted>>

StopWatch(w) == /\ w \in watchers
                /\ watchers' = watchers \ {w}
                /\ UNCHANGED <<pc, session, aborted>>

\* Leaving a line keeps the order of the others.
Without(l, c) ==
    IF \E i \in 1..Len(l) : l[i] = c
    THEN RemoveAt(l, CHOOSE i \in 1..Len(l) : l[i] = c)
    ELSE l
=============================================================================
