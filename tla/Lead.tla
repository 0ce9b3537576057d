-------------------------------- MODULE Lead --------------------------------
(***************************************************************************)
(* Leader election (packages/lock/src/lead.ts): each candidate runs the    *)
(* loop of `lead` on one mutex key of a lease store.  It tries for the     *)
(* lease, runs `fn` while it leads, steps down, waits a beat and tries     *)
(* again.  The acquire travels to the store, so a signal or a timeout may  *)
(* end the attempt while a grant is on its way; that grant is handed back. *)
(*                                                                         *)
(* The lease is abstract: the store lets one go only when its guard no     *)
(* longer trusts it, which is LeaseLock's DeadlineWithinLease.             *)
(***************************************************************************)
EXTENDS Naturals

CONSTANTS Candidate,
          Nobody,   \* the lease's owner when the key is free
          MayFail   \* whether store calls and `fn` may fail and leases may be lost

ASSUME LeadAssumption == Nobody \notin Candidate /\ MayFail \in BOOLEAN

VARIABLES st,       \* where each loop is
          aborted,  \* whether its opts.signal has aborted
          call,     \* its acquire at the store
          guard,    \* "live" while it trusts a lease, "lost" once the lease was lost
          failed,   \* whether fn threw or returned a failure in this term
          mayWake,  \* whether the wait listens to the store's wake-up hook
          lease,    \* the store's row
          rested    \* history: a whole beat passed since its last term

leadVars == <<st, aborted, call, guard, failed, mayWake, lease, rested>>

\*   asking   tryAcquire is under way     granted  its guard waits for the loop's continuation
\*   leading  fn runs                     stepping the release is under way
\*   ended    lead has returned           crashed  the process is gone
State == {"campaign", "asking", "granted", "leading", "stepping", "waiting", "ended", "crashed"}

\* Typing of the loop's state. Nobody listens to the hook who has an acquire under way.
LeadTypeOK == /\ st \in [Candidate -> State]
              /\ aborted \in [Candidate -> BOOLEAN]
              /\ call \in [Candidate -> {"none", "sent", "granted", "refused"}]
              /\ guard \in [Candidate -> {"none", "live", "lost"}]
              /\ failed \in [Candidate -> BOOLEAN]
              /\ mayWake \in [Candidate -> BOOLEAN]
              /\ lease \in Candidate \cup {Nobody}
              /\ rested \in [Candidate -> BOOLEAN]
              /\ \A c \in Candidate : st[c] = "waiting" => call[c] = "none" /\ guard[c] = "none"

LeadInit == /\ st = [c \in Candidate |-> "campaign"]
            /\ aborted = [c \in Candidate |-> FALSE]
            /\ call = [c \in Candidate |-> "none"]
            /\ guard = [c \in Candidate |-> "none"]
            /\ failed = [c \in Candidate |-> FALSE]
            /\ mayWake = [c \in Candidate |-> FALSE]
            /\ lease = Nobody
            /\ rested = [c \in Candidate |-> TRUE]

Goto(c, s) == st' = [st EXCEPT ![c] = s]
WaitsFor(c, wake) == Goto(c, "waiting") /\ mayWake' = [mayWake EXCEPT ![c] = wake]
-----------------------------------------------------------------------------
(* CAMPAIGN *)

\* The head of the loop: stop, or call tryAcquire.
Campaign(c) == /\ st[c] = "campaign"
               /\ \/ aborted[c] /\ Goto(c, "ended") /\ UNCHANGED call
                  \/ ~aborted[c] /\ Goto(c, "asking") /\ call' = [call EXCEPT ![c] = "sent"]
               /\ UNCHANGED <<aborted, guard, failed, mayWake, lease, rested>>

\* The store decides an acquire, whether or not its caller still waits for it.
Decide(c) == /\ call[c] = "sent"
             /\ \/ /\ lease = Nobody
                   /\ lease' = c /\ call' = [call EXCEPT ![c] = "granted"]
                \/ /\ lease # Nobody
                   /\ call' = [call EXCEPT ![c] = "refused"] /\ UNCHANGED lease
             /\ UNCHANGED <<st, aborted, guard, failed, mayWake, rested>>

\* tryAcquire gives a guard; refused, or granted by a lease that has run out meanwhile, it gives nothing.
Answered(c) == /\ st[c] = "asking" /\ call[c] \in {"granted", "refused"} /\ ~aborted[c]
               /\ call' = [call EXCEPT ![c] = "none"]
               /\ \/ /\ call[c] = "granted" /\ lease = c
                     /\ Goto(c, "granted")
                     /\ guard' = [guard EXCEPT ![c] = "live"]
                     /\ UNCHANGED mayWake
                  \/ /\ call[c] = "refused" \/ lease # c
                     /\ WaitsFor(c, TRUE)
                     /\ UNCHANGED guard
               /\ UNCHANGED <<aborted, failed, lease, rested>>

\* tryAcquire throws: the signal aborted, or the store failed or timed out. Either way lead returns.
AttemptThrows(c) == /\ st[c] = "asking" /\ (aborted[c] \/ MayFail)
                    /\ Goto(c, "ended")
                    /\ UNCHANGED <<aborted, call, guard, failed, mayWake, lease, rested>>

\* attemptOnce hands back a grant that lands after the attempt was given up.
LateAnswer(c) == /\ st[c] = "ended" /\ call[c] \in {"granted", "refused"}
                 /\ call' = [call EXCEPT ![c] = "none"]
                 /\ lease' = IF lease = c THEN Nobody ELSE lease
                 /\ UNCHANGED <<st, aborted, guard, failed, mayWake, rested>>

\* acquireHeld's renew-at-once finds the lease gone: never acquired.
GrantLost(c) == /\ st[c] = "granted" /\ guard[c] = "lost"
                /\ guard' = [guard EXCEPT ![c] = "none"]
                /\ WaitsFor(c, TRUE)
                /\ UNCHANGED <<aborted, call, failed, lease, rested>>
-----------------------------------------------------------------------------
(* LEAD and STEP DOWN *)

\* The continuation of tryAcquire: run fn, unless opts.signal aborted while the grant landed.
Begin(c) == /\ st[c] = "granted" /\ guard[c] = "live"
            /\ \/ /\ ~aborted[c]
                  /\ Goto(c, "leading")
                  /\ rested' = [rested EXCEPT ![c] = FALSE]
                  /\ UNCHANGED guard
               \/ /\ aborted[c]
                  /\ Goto(c, "stepping")
                  /\ guard' = [guard EXCEPT ![c] = "none"]
                  /\ UNCHANGED rested
            /\ UNCHANGED <<aborted, call, failed, mayWake, lease>>

\* fn settles, well or with a failure; the guard ends before the store hears of it, so it cannot be lost any more.
Settle(c) == /\ st[c] = "leading"
             /\ Goto(c, "stepping")
             /\ failed' \in {[failed EXCEPT ![c] = f] : f \in IF MayFail THEN BOOLEAN ELSE {FALSE}}
             /\ guard' = [guard EXCEPT ![c] = IF @ = "live" THEN "none" ELSE @]
             /\ UNCHANGED <<aborted, call, mayWake, lease, rested>>

\* Mutants: the wait after a term listens to the hook; the key is freed whoever owns it.
StepDownListening(c) ==
    /\ st[c] = "stepping"
    /\ lease' = IF lease = c /\ guard[c] = "none" THEN Nobody ELSE lease
    /\ guard' = [guard EXCEPT ![c] = "none"]
    /\ IF failed[c] \/ guard[c] = "lost" THEN Goto(c, "ended") /\ UNCHANGED mayWake ELSE WaitsFor(c, TRUE)
    /\ failed' = [failed EXCEPT ![c] = FALSE]
    /\ UNCHANGED <<aborted, call, rested>>

StepDownForAll(c) ==
    /\ st[c] = "stepping"
    /\ lease' = Nobody
    /\ guard' = [guard EXCEPT ![c] = "none"]
    /\ IF failed[c] \/ guard[c] = "lost" THEN Goto(c, "ended") /\ UNCHANGED mayWake ELSE WaitsFor(c, FALSE)
    /\ failed' = [failed EXCEPT ![c] = FALSE]
    /\ UNCHANGED <<aborted, call, rested>>

\* The release is answered, or fails and is only logged (the lease then runs out); a lost lease is not released.
\* A failure of fn or a loss ends the loop, otherwise the loop waits a beat without the hook.
StepDown(c) ==
    /\ st[c] = "stepping"
    /\ \/ lease' = IF lease = c /\ guard[c] = "none" THEN Nobody ELSE lease
       \/ MayFail /\ UNCHANGED lease
    /\ guard' = [guard EXCEPT ![c] = "none"]
    /\ IF failed[c] \/ guard[c] = "lost" THEN Goto(c, "ended") /\ UNCHANGED mayWake ELSE WaitsFor(c, FALSE)
    /\ failed' = [failed EXCEPT ![c] = FALSE]
    /\ UNCHANGED <<aborted, call, rested>>
-----------------------------------------------------------------------------
(* WAIT *)

\* Mutant: a wait that listens to the hook has neither timer nor abort listener.
BeatUnlessListening(c) == /\ st[c] = "waiting" /\ ~mayWake[c]
                          /\ Goto(c, "campaign")
                          /\ rested' = [rested EXCEPT ![c] = TRUE]
                          /\ UNCHANGED <<aborted, call, guard, failed, mayWake, lease>>

\* The beat timer fires, or the signal had aborted.
Beat(c) == /\ st[c] = "waiting"
           /\ Goto(c, "campaign")
           /\ rested' = [rested EXCEPT ![c] = TRUE]
           /\ mayWake' = [mayWake EXCEPT ![c] = FALSE]
           /\ UNCHANGED <<aborted, call, guard, failed, lease>>

\* The store's waitFor reports the key free.
WakeUp(c) == /\ st[c] = "waiting" /\ mayWake[c] /\ lease = Nobody
             /\ Goto(c, "campaign")
             /\ mayWake' = [mayWake EXCEPT ![c] = FALSE]
             /\ UNCHANGED <<aborted, call, guard, failed, lease, rested>>
-----------------------------------------------------------------------------
(* The environment *)

Abort(c) == /\ ~aborted[c] /\ st[c] \notin {"ended", "crashed"}
            /\ aborted' = [aborted EXCEPT ![c] = TRUE]
            /\ UNCHANGED <<st, call, guard, failed, mayWake, lease, rested>>

CrashLoop(c) == /\ st[c] \notin {"ended", "crashed"}
                /\ Goto(c, "crashed")
                /\ guard' = [guard EXCEPT ![c] = "none"]
                /\ UNCHANGED <<aborted, call, failed, mayWake, lease, rested>>

\* A renewal is refused or the deadline passes: the guard's signal aborts.
Lose(c) == /\ MayFail /\ guard[c] = "live"
           /\ guard' = [guard EXCEPT ![c] = "lost"]
           /\ UNCHANGED <<st, aborted, call, failed, mayWake, lease, rested>>

\* The store lets a lease go that its guard no longer trusts, or whose grant nobody has taken up yet.
Expire == /\ lease # Nobody
          /\ guard[lease] # "live"
          /\ lease' = Nobody
          /\ UNCHANGED <<st, aborted, call, guard, failed, mayWake, rested>>
-----------------------------------------------------------------------------
LeadNext == \/ \E c \in Candidate :
                  \/ Campaign(c) \/ Decide(c) \/ Answered(c) \/ AttemptThrows(c) \/ LateAnswer(c) \/ GrantLost(c)
                  \/ Begin(c) \/ Settle(c) \/ StepDown(c) \/ Beat(c) \/ WakeUp(c)
                  \/ Abort(c) \/ CrashLoop(c) \/ Lose(c)
            \/ Expire

LeadSpec == LeadInit /\ [][LeadNext]_leadVars

\* Continuations, timers and store calls go on, and a lease nobody trusts runs out. fn settles once its
\* signal has aborted ("fn must honour its signal"). Not every grant comes after its lease ran out: a loop that is
\* granted again and again takes one up in time (the strong fairness).
Fairness == /\ WF_leadVars(Expire)
            /\ \A c \in Candidate :
                  /\ WF_leadVars(Campaign(c) \/ Answered(c) \/ GrantLost(c) \/ Begin(c) \/ StepDown(c) \/ Beat(c))
                  /\ SF_leadVars(lease = c /\ call[c] = "granted" /\ Answered(c)) /\ SF_leadVars(Begin(c))
                  /\ WF_leadVars(Decide(c))
                  /\ WF_leadVars(LateAnswer(c))
                  /\ WF_leadVars(aborted[c] /\ AttemptThrows(c))
                  /\ WF_leadVars((aborted[c] \/ guard[c] = "lost") /\ Settle(c))

FairSpec == LeadSpec /\ Fairness
-----------------------------------------------------------------------------
(* Properties *)

Leads(c) == st[c] = "leading" /\ guard[c] = "live"
Over(c) == st[c] \in {"ended", "crashed"}

\* At most one candidate runs fn with a signal no loss has aborted, whatever grants and releases are under way.
OneLeader == \A c, d \in Candidate : Leads(c) /\ Leads(d) => c = d

\* fn is never started under a signal that has aborted: a grant that lands too late is handed back (lead.ts).
NoLateTerm == [][\A c \in Candidate : st[c] # "leading" /\ st'[c] = "leading" => ~aborted[c] /\ Leads(c)']_leadVars

\* "After any term, the old leader waits one full beat before it campaigns again" (README).
RestsBetweenTerms == [][\A c \in Candidate : st[c] # "leading" /\ st'[c] = "leading" => rested[c]]_leadVars

\* "opts.signal aborting in any state ends the loop after the step down" (lead.ts).
AbortEndsLoop == \A c \in Candidate : aborted[c] ~> Over(c)

\* Where grants do not always come too late, somebody leads again and again as long as one candidate is in its loop: a lease
\* left by a crash, a failed release or an attempt that was given up does not block the key for good.
KeyIsLedAgain == \A c \in Candidate : []<>(Over(c) \/ \E d \in Candidate : st[d] = "leading")
=============================================================================
