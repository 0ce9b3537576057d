-------------------------------- MODULE Worker --------------------------------
(***************************************************************************)
(* The worker of a journal (createWorkers in packages/journal/src/         *)
(* worker.ts): a loop of passes (drain, then catchUp) that sleeps when a   *)
(* pass found nothing, the retention sweeper beside it, the LISTEN channel *)
(* whose payloads wake the loop and queue tap dispatches, and start() and  *)
(* stop() called while all of these are awaiting.                          *)
(*                                                                         *)
(* One step is the code between two awaits.  Work is a number of due jobs  *)
(* and of unprojected events (JournalJobs and Projection model what is     *)
(* done with them).  The n-th start() to get through begins the n-th run:  *)
(* its listener, its loop and its sweeper.  Every worker here has `listen`,*)
(* taps and a sweep; an `unlisten` that fails is left out.                 *)
(***************************************************************************)
EXTENDS Naturals

CONSTANTS MaxStarts, MaxStops, MaxCommits, \* bounds on the calls and on the commits
          Overlap                          \* a call may come while another is still awaiting

ASSUME WorkerAssumption == /\ MaxStarts \in Nat /\ MaxStops \in Nat /\ MaxCommits \in Nat
                           /\ Overlap \in BOOLEAN

None == 0
Run == 1..MaxStarts
Stop == 1..MaxStops

VARIABLES commits,   \* how many commits there were, here or in another process
          jobs, lag, \* due jobs; committed events the projections have not applied
          waking,    \* commits of this process whose wakeAll is still to come
          running, woken, \* worker's variables (the signal is aborted exactly while not running)
          pc,        \* each run's loop: none, draining, drained, catching, passed, asleep, resuming, done
          sweeper,   \* each run's sweep loop: none, asleep, resuming, sweeping, done
          processed, \* a pass of this loop did something
          aborted,   \* the signal this loop's pass carries is aborted
          failed,    \* history: this loop's last pass failed somewhere
          endSleep, endSweepSleep, \* the run whose sleep these end, or None
          starting,  \* each start(): idle, listening, registered, done, failed
          stopping,  \* each stop(): [at |-> idle, unlistening, dispatching, looping, sweeping, done,
                     \*               on |-> what it awaits there]
          channel,   \* notifications on the way to each run's listener
          listeners, \* the runs whose listener is registered
          unlisten, loop, sweeping, \* the run whose listener, loop or sweeper these hold, or None
          arrived, dispatched       \* the dispatching chain: payloads chained to it, and done

backlog == <<commits, jobs, lag, waking>>
sleeps == <<endSleep, endSweepSleep>>
passing == <<processed, aborted, failed>>
wires == <<channel, listeners, arrived, dispatched>>
calls == <<starting, stopping, unlisten, loop, sweeping>>
workerVars == <<backlog, running, woken, pc, sweeper, sleeps, passing, wires, calls>>

\* Typing of worker's variables and of the awaiting calls.
WorkerTypeOK == /\ commits \in 0..MaxCommits /\ jobs \in 0..MaxCommits /\ lag \in 0..MaxCommits
                /\ waking \in 0..MaxCommits /\ running \in BOOLEAN /\ woken \in BOOLEAN
                /\ pc \in [Run -> {"none", "draining", "drained", "catching", "passed", "asleep", "resuming", "done"}]
                /\ sweeper \in [Run -> {"none", "asleep", "resuming", "sweeping", "done"}]
                /\ processed \in [Run -> BOOLEAN] /\ aborted \in [Run -> BOOLEAN] /\ failed \in [Run -> BOOLEAN]
                /\ endSleep \in Run \cup {None} /\ endSweepSleep \in Run \cup {None}
                /\ starting \in [Run -> {"idle", "listening", "registered", "done", "failed"}]
                /\ stopping \in [Stop -> [at : {"idle", "unlistening", "dispatching", "looping", "sweeping", "done"},
                                          on : Nat]]
                /\ channel \in [Run -> 0..MaxCommits] /\ listeners \subseteq Run
                /\ unlisten \in Run \cup {None} /\ loop \in Run \cup {None} /\ sweeping \in Run \cup {None}
                /\ arrived \in Nat /\ dispatched \in Nat /\ dispatched <= arrived

WorkerInit == /\ commits = 0 /\ jobs = 0 /\ lag = 0 /\ waking = 0 /\ running = FALSE /\ woken = FALSE
              /\ pc = [r \in Run |-> "none"] /\ sweeper = [r \in Run |-> "none"]
              /\ processed = [r \in Run |-> FALSE] /\ aborted = [r \in Run |-> FALSE]
              /\ failed = [r \in Run |-> FALSE]
              /\ endSleep = None /\ endSweepSleep = None
              /\ starting = [r \in Run |-> "idle"] /\ stopping = [s \in Stop |-> [at |-> "idle", on |-> None]]
              /\ channel = [r \in Run |-> 0] /\ listeners = {}
              /\ unlisten = None /\ loop = None /\ sweeping = None
              /\ arrived = 0 /\ dispatched = 0
-----------------------------------------------------------------------------
(* Commits and wake-ups *)

Roused(f, r) == IF r = None THEN f ELSE [f EXCEPT ![r] = "resuming"]   \* the sleep of r resolves

Wake == IF running THEN woken' = TRUE /\ endSleep' = None /\ pc' = Roused(pc, endSleep)
                   ELSE UNCHANGED <<woken, endSleep, pc>>

\* A commit records an event and perhaps a job; its NOTIFY goes to every listener there is by then.
Commit(here) ==
    /\ commits < MaxCommits /\ commits' = commits + 1
    /\ \E j \in {0, 1} : jobs' = jobs + j
    /\ lag' = lag + 1
    /\ waking' = IF here THEN waking + 1 ELSE waking
    /\ channel' = [r \in Run |-> IF r \in listeners THEN channel[r] + 1 ELSE channel[r]]
    /\ UNCHANGED <<running, woken, pc, sweeper, sleeps, passing, listeners, arrived, dispatched, calls>>

\* wakeAll, after the commit returned. A worker is in `wakers` just while it is running.
WakeAll == /\ waking > 0 /\ waking' = waking - 1 /\ Wake
           /\ UNCHANGED <<commits, jobs, lag, running, sweeper, endSweepSleep, passing, wires, calls>>

\* The listener's callback: wake, then chain the dispatch of this payload's taps.
Notified(r) == /\ r \in listeners /\ channel[r] > 0
               /\ channel' = [channel EXCEPT ![r] = @ - 1] /\ arrived' = arrived + 1 /\ Wake
               /\ UNCHANGED <<backlog, running, sweeper, endSweepSleep, passing, listeners, dispatched, calls>>

\* The next dispatch in the chain ends; its failure was logged.
Dispatch == /\ dispatched < arrived /\ dispatched' = dispatched + 1
            /\ UNCHANGED <<backlog, running, woken, pc, sweeper, sleeps, passing, channel, listeners, arrived, calls>>
-----------------------------------------------------------------------------
(* run, the loop of passes *)

\* Mutant: the head does not ask whether the worker still runs.
LoopHeadAlways(r) == /\ pc' = [pc EXCEPT ![r] = "draining"] /\ woken' = FALSE
                     /\ processed' = [processed EXCEPT ![r] = FALSE]
                     /\ failed' = [failed EXCEPT ![r] = FALSE]
                     /\ aborted' = [aborted EXCEPT ![r] = ~running]

\* while (isRunning()): the head of the loop up to drain's first await.
LoopHead(r) == /\ pc' = [pc EXCEPT ![r] = IF running THEN "draining" ELSE "done"]
               /\ woken' = IF running THEN FALSE ELSE woken
               /\ processed' = [processed EXCEPT ![r] = FALSE]
               /\ failed' = [failed EXCEPT ![r] = FALSE]
               /\ aborted' = [aborted EXCEPT ![r] = ~running]

\* drain: some of the due jobs, if there are any, and none once the signal is aborted.
Drain(r) == /\ pc[r] = "draining"
            /\ \E n \in IF jobs = 0 THEN {0} ELSE IF aborted[r] THEN 0..jobs ELSE 1..jobs :
                 jobs' = jobs - n /\ processed' = [processed EXCEPT ![r] = n > 0]
            /\ pc' = [pc EXCEPT ![r] = "drained"]
            /\ UNCHANGED <<commits, lag, waking, running, woken, sweeper, sleeps, aborted, failed, wires, calls>>

\* drain refuses or throws: no catchUp in this pass.
DrainFails(r) == /\ pc[r] = "draining"
                 /\ pc' = [pc EXCEPT ![r] = "passed"] /\ failed' = [failed EXCEPT ![r] = TRUE]
                 /\ UNCHANGED <<backlog, running, woken, sweeper, sleeps, processed, aborted, wires, calls>>

\* Mutant: catch up only after a drain that ran something.
DrainedIfBusy(r) == /\ pc[r] = "drained"
                    /\ pc' = [pc EXCEPT ![r] = IF running /\ processed[r] THEN "catching" ELSE "passed"]
                    /\ UNCHANGED <<backlog, running, woken, sweeper, sleeps, passing, wires, calls>>

\* drain returned: catchUp follows if the worker still runs.
Drained(r) == /\ pc[r] = "drained"
              /\ pc' = [pc EXCEPT ![r] = IF running THEN "catching" ELSE "passed"]
              /\ UNCHANGED <<backlog, running, woken, sweeper, sleeps, passing, wires, calls>>

\* catchUp: a batch of the events there are.
CatchUp(r) == /\ pc[r] = "catching"
              /\ \E n \in IF lag = 0 THEN {0} ELSE 1..lag :
                   lag' = lag - n /\ processed' = [processed EXCEPT ![r] = @ \/ n > 0]
              /\ pc' = [pc EXCEPT ![r] = "passed"]
              /\ UNCHANGED <<commits, jobs, waking, running, woken, sweeper, sleeps, aborted, failed, wires, calls>>

\* A projection's batch fails and is logged, or catchUp throws: nothing was scanned.
CatchUpFails(r) == /\ pc[r] = "catching"
                   /\ pc' = [pc EXCEPT ![r] = "passed"] /\ failed' = [failed EXCEPT ![r] = TRUE]
                   /\ UNCHANGED <<backlog, running, woken, sweeper, sleeps, processed, aborted, wires, calls>>

\* Mutant: a wake-up during the pass is forgotten.
PassedForgetful(r) ==
    /\ pc[r] = "passed"
    /\ IF running /\ ~processed[r]
         THEN /\ pc' = [pc EXCEPT ![r] = "asleep"] /\ endSleep' = r
              /\ UNCHANGED <<woken, passing>>
         ELSE LoopHead(r) /\ UNCHANGED endSleep
    /\ UNCHANGED <<backlog, running, sweeper, endSweepSleep, wires, calls>>

\* The end of a pass: sleep if it did nothing and no wake-up came meanwhile, else the next one.
Passed(r) ==
    /\ pc[r] = "passed"
    /\ IF running /\ ~processed[r] /\ ~woken
         THEN /\ pc' = [pc EXCEPT ![r] = "asleep"] /\ endSleep' = r
              /\ UNCHANGED <<woken, passing>>
         ELSE LoopHead(r) /\ UNCHANGED endSleep
    /\ UNCHANGED <<backlog, running, sweeper, endSweepSleep, wires, calls>>

\* The poll timer fires.
Poll(r) == /\ pc[r] = "asleep" /\ pc' = [pc EXCEPT ![r] = "resuming"] /\ endSleep' = None
           /\ UNCHANGED <<backlog, running, woken, sweeper, endSweepSleep, passing, wires, calls>>

Resume(r) == /\ pc[r] = "resuming" /\ LoopHead(r)
             /\ UNCHANGED <<backlog, running, sweeper, sleeps, wires, calls>>
-----------------------------------------------------------------------------
(* sweepLoop *)

SweepTimer(r) == /\ sweeper[r] = "asleep"
                 /\ sweeper' = [sweeper EXCEPT ![r] = "resuming"] /\ endSweepSleep' = None
                 /\ UNCHANGED <<backlog, running, woken, pc, endSleep, passing, wires, calls>>

\* Out of the sleep: run the sweep, or leave the loop.
SweepResume(r) == /\ sweeper[r] = "resuming"
                  /\ sweeper' = [sweeper EXCEPT ![r] = IF running THEN "sweeping" ELSE "done"]
                  /\ UNCHANGED <<backlog, running, woken, pc, sleeps, passing, wires, calls>>

\* The sweep returns or throws; back to the loop's head.
SweepEnds(r) == /\ sweeper[r] = "sweeping"
                /\ sweeper' = [sweeper EXCEPT ![r] = IF running THEN "asleep" ELSE "done"]
                /\ endSweepSleep' = IF running THEN r ELSE endSweepSleep
                /\ UNCHANGED <<backlog, running, woken, pc, endSleep, passing, wires, calls>>
-----------------------------------------------------------------------------
(* start *)

Pending == \/ \E r \in Run : starting[r] \in {"listening", "registered"}
           \/ \E s \in Stop : stopping[s].at \notin {"idle", "done"}

\* A start() that finds the worker running returns at once, and changes nothing.
CallStart(r) == /\ starting[r] = "idle" /\ \A q \in 1..(r - 1) : starting[q] # "idle"
                /\ Overlap \/ ~Pending
                /\ ~running /\ running' = TRUE
                /\ starting' = [starting EXCEPT ![r] = "listening"]
                /\ UNCHANGED <<backlog, woken, pc, sweeper, sleeps, passing, wires, stopping, unlisten, loop, sweeping>>

Listen(r) == /\ starting[r] = "listening"
             /\ starting' = [starting EXCEPT ![r] = "registered"] /\ listeners' = listeners \cup {r}
             /\ UNCHANGED <<backlog, running, woken, pc, sweeper, sleeps, passing, channel, arrived, dispatched,
                            stopping, unlisten, loop, sweeping>>

\* listen rejects and so does start(): the worker is left running, with no loop.
ListenFails(r) == /\ starting[r] = "listening"
                  /\ starting' = [starting EXCEPT ![r] = "failed"]
                  /\ UNCHANGED <<backlog, running, woken, pc, sweeper, sleeps, passing, wires,
                                 stopping, unlisten, loop, sweeping>>

\* listen returned: keep unlisten, begin the loop and the sweeper.
Listened(r) == /\ starting[r] = "registered" /\ starting' = [starting EXCEPT ![r] = "done"]
               /\ unlisten' = r /\ loop' = r /\ sweeping' = r
               /\ LoopHead(r)
               /\ sweeper' = [sweeper EXCEPT ![r] = IF running THEN "asleep" ELSE "done"]
               /\ endSweepSleep' = IF running THEN r ELSE endSweepSleep
               /\ UNCHANGED <<backlog, running, endSleep, wires, stopping>>
-----------------------------------------------------------------------------
(* stop *)

At(s, where, what) == stopping' = [stopping EXCEPT ![s] = [at |-> where, on |-> what]]

\* All that stop() does before its first await, the call of unlisten included.
CallStop(s) == /\ stopping[s].at = "idle" /\ \A q \in 1..(s - 1) : stopping[q].at # "idle"
               /\ Overlap \/ ~Pending
               /\ running' = FALSE /\ aborted' = [r \in Run |-> TRUE]
               /\ pc' = Roused(pc, endSleep) /\ endSleep' = None
               /\ sweeper' = Roused(sweeper, endSweepSleep) /\ endSweepSleep' = None
               /\ At(s, "unlistening", unlisten)
               /\ UNCHANGED <<backlog, woken, processed, failed, wires, starting, unlisten, loop, sweeping>>

\* Mutant: stop() returns without awaiting the dispatches.
UnlistenedAtOnce(s) == /\ stopping[s].at = "unlistening"
                       /\ listeners' = listeners \ {stopping[s].on}
                       /\ channel' = [r \in Run |-> IF r = stopping[s].on THEN 0 ELSE channel[r]]
                       /\ unlisten' = None /\ At(s, "looping", loop)
                       /\ UNCHANGED <<backlog, running, woken, pc, sweeper, sleeps, passing, arrived, dispatched,
                                      starting, loop, sweeping>>

\* unlisten returned; await the dispatches chained by now.
Unlistened(s) == /\ stopping[s].at = "unlistening"
                 /\ listeners' = listeners \ {stopping[s].on}
                 /\ channel' = [r \in Run |-> IF r = stopping[s].on THEN 0 ELSE channel[r]]
                 /\ unlisten' = None /\ At(s, "dispatching", arrived)
                 /\ UNCHANGED <<backlog, running, woken, pc, sweeper, sleeps, passing, arrived, dispatched,
                                starting, loop, sweeping>>

Settled(f, r) == IF r = None THEN TRUE ELSE f[r] = "done"   \* the promise of run r's loop or sweeper

\* The three other awaits, each on what its variable holds when it is reached.
Awaited(s) == /\ \/ stopping[s].at = "dispatching" /\ dispatched >= stopping[s].on /\ At(s, "looping", loop)
                 \/ /\ stopping[s].at = "looping"
                    /\ Settled(pc, stopping[s].on)
                    /\ At(s, "sweeping", sweeping)
                 \/ /\ stopping[s].at = "sweeping"
                    /\ Settled(sweeper, stopping[s].on)
                    /\ At(s, "done", None)
              /\ UNCHANGED <<backlog, running, woken, pc, sweeper, sleeps, passing, wires, starting, unlisten, loop, sweeping>>
-----------------------------------------------------------------------------
WorkerNext == \/ \E here \in BOOLEAN : Commit(here)
              \/ WakeAll \/ Dispatch
              \/ \E r \in Run : \/ Notified(r)
                                \/ Drain(r) \/ DrainFails(r) \/ Drained(r) \/ CatchUp(r) \/ CatchUpFails(r)
                                \/ Passed(r) \/ Poll(r) \/ Resume(r)
                                \/ SweepTimer(r) \/ SweepResume(r) \/ SweepEnds(r)
                                \/ CallStart(r) \/ Listen(r) \/ ListenFails(r) \/ Listened(r)
              \/ \E s \in Stop : CallStop(s) \/ Unlistened(s) \/ Awaited(s)

\* Every await resolves, every timer fires, and passes do not fail for ever. Nobody need commit,
\* start or stop, no wake-up need arrive, and the sweep's interval may be long: only its other steps
\* are fair.
WorkerFairness == /\ WF_workerVars(Dispatch)
                  /\ SF_workerVars(\E r \in Run : Drain(r)) /\ SF_workerVars(\E r \in Run : CatchUp(r))
                  /\ WF_workerVars(\E r \in Run : Drained(r) \/ Passed(r) \/ Poll(r) \/ Resume(r))
                  /\ WF_workerVars(\E r \in Run : SweepResume(r) \/ SweepEnds(r))
                  /\ WF_workerVars(\E r \in Run : Listen(r) \/ ListenFails(r) \/ Listened(r))
                  /\ WF_workerVars(\E s \in Stop : Unlistened(s) \/ Awaited(s))

WorkerSpec == WorkerInit /\ [][WorkerNext]_workerVars /\ WorkerFairness
-----------------------------------------------------------------------------
\* A loop sleeps on committed work only while the wake-up for it is on its way, or after a pass that
\* failed: no commit slips in between a pass's look and the sleep after it.
NoSleepOnWork == \A r \in Run : pc[r] = "asleep" /\ ~failed[r] /\ (jobs > 0 \/ lag > 0) =>
                   waking > 0 \/ \E q \in listeners : channel[q] > 0

\* After stop() nothing runs: no loop, no sweep, no dispatch, and no listener is left registered.
StopIsQuiet == ~running /\ ~Pending /\ (\E s \in Stop : stopping[s].at = "done") =>
                 /\ \A r \in Run : pc[r] \in {"none", "done"} /\ sweeper[r] \in {"none", "done"}
                 /\ dispatched = arrived /\ listeners = {}

\* stop() resolves, once what is running returns.
StopEnds == \A s \in Stop : stopping[s].at # "idle" ~> stopping[s].at = "done"

\* While a worker's loop is up, what was committed is drained and projected, lost wake-ups and failed
\* passes or not.
WorkIsDone == \A r \in Run : pc[r] \notin {"none", "done"} ~> ~running \/ (jobs = 0 /\ lag = 0)
=============================================================================
