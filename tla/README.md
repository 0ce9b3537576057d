# TLA+ models of Arki's locks and journal

Arki is a TypeScript monorepo of some fifty packages. Most of them are pure
libraries, adapters or user interface. The packages whose correctness depends on
concurrency, failure and ordering are `lock` (mutual exclusion in one process and
across processes, leader election) and `journal` (event-sourced writes, an outbox
of jobs, workers that drain it, projections, durable workflows). This directory models the core
of these two, checks the models with TLC and proves the most important theorems
with TLAPS. Paths below are relative to `src/packages/`.

`PROJECT.json` lists every component, run, mutant, hazard and theorem, and for
each definition the source lines it stands for.

## 1. Inventory

### lock

| part | source | state | operations |
|---|---|---|---|
| manager and acquire loop | `lock/src/locks.ts`, `wait.ts` | per call: attempt token, waiter session, abort signal; per guard: deadline, beat timer, ended flag | `run`, `tryRun`, `acquire`, `tryAcquire`; `attemptOnce`, `pause`, `makeHeld`, `renewOnce`, `lose`, `doRelease` |
| in-process store | `lock/src/memory.ts` | per key: mutex entry, permit pool or read/write entry; lines of waiters; watchers | `acquire`, `release`, `waiter`, `waitFor`; `dispatchMutex`, `dispatchPermits`, `dispatchShared`, `Session.close` |
| lease stores | `lock/src/pg/lease.ts`, `redis/`, `sqlite/` | per key: token, expiry, fence counter | `acquire`, `extend`, `release`, wake channel |
| file store | `lock/src/file/index.ts` | per key: a directory with its owner's token and an mtime; guards of dead locks | `acquire` (`place`, `reap`, `takeOver`, `remove`), `extend`, `release` |
| hold store | `lock/src/pg/index.ts` | an advisory lock on a connection | `acquire`, `release` |
| leader election | `lock/src/lead.ts` | the loop's state, the guard of a term | campaign, lead, step down, wait |

*Interactions.* The manager calls the store asynchronously and races each call with
the caller's signal and `storeTimeout`; a grant that arrives after the race was lost
is handed back. In the in-process store a release reserves the key for a waiter and
wakes it; the waiter's next attempt turns the reservation into a hold. On a lease
store, the file store among them, the guard trusts a local deadline. `lead` runs on
`tryAcquire`.

*What is hard.* Everything between two awaits of a caller may be interleaved with
other callers, aborts and timers. A wake-up may fall between the refusal and the
sleep. A waiter may leave while it is being served. A message to a lease store may
be late, lost or repeated. A callback may settle while its lease is running out. Between
any two file-system calls of one process others may take, move or delete the same path.

*What makes it correct.* Exclusion (one holder; permits within the limit; a writer
alone), nothing leaked (the tables name exactly the holders and reservations), no
lost wake-up, the promised order (first come first served, writer preference),
fences that order the grants, at most one leader, and that the key is available
again after any failure.

### journal

| part | source | state | operations |
|---|---|---|---|
| writes | `journal/src/write.ts`, `command.ts` | entity row and version, events, receipts | `create`, `update`, `adopt`, commands |
| job tables | `journal/src/outbox.ts`, `store.ts`, `pg.ts` | hot jobs, attempt rows, archive | enqueue, claim, ack, `recordFailure`, `retry`, `retryDead`, `discard`, `cancel`, `purgeDead`, `replay`, `exportArchive`, `pruneArchive` |
| workers | `journal/src/worker.ts` | the claimed job and its lease; the loop with its `woken` flag | `drain`, `runForward`, `renewWhile`, `start`, `stop`, `wake` |
| event logs | `journal/src/postgres.ts`, `kurrentdb.ts` | a stream per entity | `append`, `highestVersion` |
| worker loop | `journal/src/worker.ts` | `running`, `woken`, the sleeps, the loop's and the sweeper's promises, the listener | `start`, `stop`, `wake`, passes, sweeps, dispatch of taps |
| projections | `journal/src/projection.ts`, `worker.ts`, `store.ts` | a cursor row per projection, its read model | `catchUp`, `reset` |
| workflows: limits | `journal/src/workflow/limits.ts`, `runner.ts` | unfinished and queued runs, a row per changed limit, limit timers | the start gate, promotion, `override`, `reset`, `pause`, `resume`, `reschedule` |
| workflows: runs | `journal/src/workflow/` | nodes, timers, child runs on jobs and events | `runner`, `settle` |

*Interactions.* A write commits its row and its jobs in one transaction. Workers claim
jobs under a lease token and run handlers, which issue commands that the journal
fences by the attempt row. Forward jobs copy events into a log in another store.
Operators retry, discard, purge and replay jobs at any time. A commit wakes the workers of
its process and notifies the others; a pass of a worker drains jobs and catches projections
up. A workflow run that ends, or an operator who changes a limit, starts the queued runs
that now fit, in the same transaction.

*What is hard.* A worker that lost its lease goes on running. An ack may fail after it
committed. Events move from the job table to the log while a create reads both. An
operator's verb falls between two steps of a worker. A wake-up falls between a pass and
the sleep after it, a commit between a batch's two reads, `stop` into any await. What frees
a slot may free it for a run of another workflow or key, or be no event at all: a key's
override runs out.

*What makes it correct.* Jobs complete only when a handler succeeded under the last
claim; the lease and the attempt rows agree; a stale worker commits nothing; a log
is the exact prefix of what was committed; nothing is lost; jobs settle and events
land. A projection applies each event exactly once; no worker sleeps on work, and a stopped
one is quiet; limits are never overfilled, and no run waits for a free slot.

The other packages (queue, schedule, offline, live, pubsub, kv, payments, auth, mail,
and the libraries and user interface packages) are in `PROJECT.json` under
`components` with the reason they are not modelled.

## 2. Modules

```
AcquireLoop   the caller's loop and waiter session
  +- MemoryMutex    a mutex key     --refines--> FifoLock
  |    +- MemoryMutexProofs
  +- MemoryShared   a read/write key    (MCMemoryShared)
  +- MemoryPermits  a semaphore key     (MCMemoryPermits)
       +- MemorySharedProofs   of both
LeaseLock     a lease row, its messages and guards   (MCLeaseLock)
Lead          leader election over an abstract lease
  +- LeaseLockProofs   of both
FileLock      a lock directory, the guards of dead locks and their takers   (MCFileLock)
  +- FileLockProofs
ForwardLane   one entity's forward jobs and its external log
  +- ForwardLaneProofs
JournalJobs   the job, attempt and archive tables, workers, operators
Worker        a worker's loop, sweeper, listener, start and stop
  +- JournalJobsProofs   of both
Projection    an async projection's cursor and batches beside the writers
  +- ProjectionProofs
Limits        workflow limits, queued runs, promotion and the limit verbs   (MCLimits)
  +- LimitsProofs
```

Where one module holds the proofs of two components, the second one's definitions bear names of
their own (`PermitSpec` and the actions `Permit...` of `MemoryPermits`, `LeadSpec` of `Lead`,
`WorkerSpec` of `Worker`), since both are extended.

The journal's modules meet at their edges: what `Worker` calls a drained job is a claim of
`JournalJobs` or `ForwardLane`, its `CatchUp` is a batch of `Projection`, and the append lock
under which `Projection` writes is the one that makes the transactions of `Limits` take turns.

Operators introduced as "Mutant" in the modules are not part of the specifications.
Each is a mapped definition with a plausible bug in it; substituting it must violate
the property that `PROJECT.json` pairs it with.

### AcquireLoop, MemoryMutex, MemoryPermits, MemoryShared

JavaScript runs one continuation at a time, so a step is the code between two awaits.
`pc[c]` says at which await a caller of `acquireHeld` is, `session[c]` is the state of its
`Session` (memory.ts:146-193), `aborted[c]` its signal. `Grant`, `Refuse` (in `MemoryPermits`
`PermitGrant`, `PermitRefuse` and so on) and `RejectLimit` are the synchronous body of the store's `acquire`; `Land` and `GiveBack`
are its continuation in `attemptOnce`, where a signal that fired in between turns the
grant into a give-back; `Pause` creates the waiter session after the first refusal and
sleeps if it is queued; `Leave` is the `finally` of the loop. `Release`, `GiveBack` and the
closing of a session all end in the store's dispatch, which is part of the same action
because the code runs it in the same turn. `Watch` is the store's plain `waitFor`.

`MemoryMutex` keeps `holder`, `reserved` and the line; its lock and line implement
`FifoLock`, with a reserved caller read as the head of the queue. `MemoryPermits` keeps
the pool's counters next to the sets they count, and calls with different declared
limits; `Serve` is one turn of the loop of `dispatchPermits`, `Served` the loop. `MemoryShared` keeps readers, writer, both reservations and both lines.

A caller takes part in one call at a time and calls again after it ends; calls use the
same key. Line nodes are sequences instead of linked nodes.

### LeaseLock

One key of a lease store. A `Token` is one attempt. `calls` and `answers` are sets of
messages in flight: they may be delayed and reordered at will, a lost one is never taken
up, and `Resend` repeats a call whose answer was lost, as ioredis does after a
reconnect. `ExecuteAcquire` follows the redis script (which lets a repeated call of the
owner win again with the same fence), `ExecuteExtend` and `ExecuteRelease` follow
pg/lease.ts; the stores agree on these where they are compared by the shared store
tests. The guard is `phase`, `deadline`, `renewing`, `running`, `fence`. `OnTime` says that a
due deadline timer runs before the guard's other continuations; with `Stalls` it may not.

`now` is the clock of the store and of every process. The guard measures durations only
(from the send to the deadline), so an offset between clocks does not matter; that they
run at the same rate is an assumption of the model. The models of permit and read/write rows of the
lease stores, and of their wake channels, are not written yet.

### FileLock

One key of the file store; one step is one file-system call. `lock` is the directory at the
key's path, `guards` the `.reap-` directories, `at[t]` the next call of an attempt's `acquire` with
its local variables, and then its guard. Ages (clock minus mtime) stop counting one past `stale`.
`PlaceLock` and `PlaceGuard` are the renames of `place`; the mtime they carry was written at some
moment since the building began. `Move` and `Restore` rename the lock aside and back, `Sweep` and
`Unguard` delete guards by path.

`calls[t]` are the calls of the manager's guard and of its renewal, which do not wait for each
other. `Release` begins when the callback settles, whatever the renewal is doing; the guard may
also be lost meanwhile (`Lose`). `Utimes` stamps whatever lies at the path by then, and
`RenewalAnswers` is what `renewOnce` makes of the answer: while the guard is live a success moves
the deadline (`trust` is the age of the request it counts from) and a refusal loses the lease; once
the guard has ended a success is handed back with a release of its own, the second one if the
callback had settled (locks.ts:553-556). A grant that arrives after its ttl is given back as well
(`Granted`). `Release*(t, h)` are the steps of `store.release` in either thread; of two by one token
the second finds the `.dead-` name of the first in use while that one looks at what it moved.

The store's rules hold while nobody acts on a look that is out of date, and `Circumstance` names the
six ways in which somebody may:

* `dead guard`: a taker is at work and its guard is older than `stale`;
* `no victim`: a taker read no owner, and at its second look finds a lock that came and died since;
* `dead release`: a release read its own token, and the lock has died;
* `dead renewal`: a renewal found the lock alive, and it has died: its `utimes` would revive it;
* `old clock`: a clock reading that got old is about to be written to another's lock (README:406 of
  the lock package names this one);
* `two releases`: both releases of an attempt read its token before either moved the lock. This one
  needs no expiry, only a callback that settles while a renewal is in flight.

After a step into one of them (`exposed`) the properties promise nothing; the model follows the
removes under way to their end and no further. None is there for convenience: with any one
left out of `Counted` a property fails (section 5). The proof showed the need for `no victim`, which
takes four attempts.

Only the attempts of `Renewers` renew. A renewal has no timeout of its own in the model: with
`storeTimeout` no less than `stale`, as by default (10 s both), its guard is lost before it times out,
and the beat sends no other. A smaller `storeTimeout`, with which the calls of two renewals can
overlap, is not modelled; nor are half-deleted directories, errors other than a missing path
and `waitFor` (a hint beside a timer).

### Lead

The loop of lead.ts on an abstract lease: `Expire` lets the store drop a lease whose
guard no longer trusts it, which is what `LeaseLock!DeadlineWithinLease` shows of the
detailed one. `rested` is a history variable: a whole beat has passed since the last term.

### ForwardLane

One entity whose log is in another store. `history` is the sequence of committed
writes; a job is named by its write. A create, a first write to a legacy row or an adopt
reads the pending jobs and then the log (`ReadJobs`, `ReadLog`, `Create`), with workers and
operators in between; writers exclude each other from the append lock to the commit,
as `seq.lock` makes them. `AppendBatch` is the contract of `log.append`: all or nothing,
idempotent for the same events, a conflict for others. `faults` counts crashes, stalls and
failing calls. `odd` says which unusual circumstances a behaviour has (a row from before the
journal, purges, replays, a foreign event); with any of them fewer writes are made.

### JournalJobs

One row per job with its lease token, try counter, attempt rows and archive row.
Tokens are counted per job so that each claim has its own. `committed` and `succeeded` are
history variables. Priorities and delays only choose among the jobs that may be
claimed, so `Claim` takes any. The retention policy keeps finished jobs and has a sink.
A job stands for both kinds. The code fences the commands of a workflow's own effects only
(worker.ts:303); the plain verbs refuse those jobs, and they are retried by `retryStep`, with the same
`retry` underneath (runner.ts:3454). A job of the model takes the steps of both, so what is shown of it
holds of each. The other moves of workflow jobs, bulk limits and the operation log are left out.

### Worker

The closure of `createWorkers`, one step per piece of code between two awaits. The n-th
`start` to get through begins the n-th run: its listener, its loop (`pc`), its sweeper.
`endSleep` and `endSweepSleep` hold the run whose sleep they end; `unlisten`, `loop` and
`sweeping` the run whose listener or promise they hold, so that an overlapping call finds
the wrong one, as in the code. `CallStop` is all that `stop` does before its first await, the
call of `unlisten` included; `Awaited` takes up each later variable when it is reached.
`Commit(here)` notifies the listeners there are at that moment, and `here` also wakes the
workers of this process once the command has returned. Work is a number of due jobs and of
unprojected events. A failing `listen` leaves `running` set with no loop, as the code does; a
failing `unlisten` is left out. Jobs that become due later are found by the poll only.

### Projection

`seq` is the events table's sequence, `open` the seqs that uncommitted writers drew, `log` the
committed ones; rollbacks leave gaps. A batch is `LockCursor`, `ReadTop`, `ReadRows`,
`CommitBatch`, each a statement under READ COMMITTED, so commits land in between. `applied`
counts how often the read model took each event. `Reset` is one step: it holds the cursor's
row lock from its first statement on; it is called with a `clear`. The event types a
projection does not want are scanned and skipped, which changes nothing here.

### Limits

A run is `queued`, `live` (running or parked), `completed`, `undoing` (a completed child reopened
by its parent) or `over`; it holds its workflow's own limit and the shared ones. Every write
of the journal takes the append lock first (write.ts:188), so transactions take turns: `tx`
is the one that is open, and the try-locks of a promotion are never refused (the code's
`'locked'` answer cannot occur). `Blocking` is `check`; which of several full limits is found
first depends on their names, so it is a choice. `PromoteTry` is one candidate of
`promoteQueued`: stranded, blocked (and with it all that the same block would refuse) or
started. `AfterEnd` looks at the ended run's key first and then at all its limits. What does
not wait for the lock is the clock (`Expire`, `TtlPasses`) and the limit timer's first look at
the queue (`Look`), which sees committed rows only.

Runs are numbered in the order they commit. The code orders queued runs by `startedAt` and then id
(limits.ts:302), a clock read before the append lock (runner.ts:2679): of two starts at once the later
commit may carry the earlier time, and `OrderedPerKey` says nothing of that case. An override
that was replaced shares its key's timer with the one that replaced it; an override that ran
out counts as gone from its row. Limits change by verbs only, not by a deploy. `cut` and `missed`
are history: a promotion that ran out of tries, a run that the code overlooks (see findings).

## 3. Runs

| run | instance | states | shows |
|---|---|---|---|
| `memory_mutex` | 3 callers, 1 watcher | 7 k | exclusion, no lost wake-up, refinement of `FifoLock`, every waiter is served |
| `memory_permits` | 2 light and 2 heavy calls, limits 2 and 3, 1 watcher | 155 k | capacity, counters, nobody who fits is left asleep |
| `memory_shared` | 2 readers, 2 writers, 1 watcher | 106 k | a writer is alone, reservations never leak, admission in order, a writer is served |
| `lease_lock` | 2 attempts, lease 4, time 0..5, resends, punctual timers | 699 k | deadlines within the lease, fences, a callback's value means it ran alone |
| `file_lock` | 3 attempts, 1 of them renews, `stale` 1, 1 crash | 267 k | the owner stays in place, only the judged lock is moved, a dead lock is taken |
| `lead` | 2 candidates, failures on | 8 k | one leader, rests, the key is led again |
| `forward_lane` | 4 writes of 1 or 2 events, 2 workers, 2 faults; 2 writes with a legacy row, with purges and a foreign event, with purges and replays | 197 k | versions continue, the log is a prefix, nothing is lost, events land |
| `journal_jobs` | 1 job, 2 workers, 2 tries, 1 operator retry, 2 faults | 718 k | lease and attempts agree, completion, sink, fence, every job settles |
| `journal_jobs_stale` | the same with 1 fault | | **violated**: see findings |
| `worker` | 2 starts, 1 stop, 2 commits | 86 k | no sleep on work, a stop is quiet and ends, work is done |
| `projection` | 2 writers, 2 batchers, 5 seqs, batches of 3 | 5 k | the read model is exact and catches up |
| `limits` | 3 runs of 2 workflows, 1 key, 1 shared slot, 2 verbs, 2 tries per promotion | 252 k | admissions within limits, no idle slot, order per key, queued runs start |

The type invariants (`TypeOK` of each module) and the properties only the proofs state
(`MutualExclusion` and `StartsLive` of `LeaseLock`, `NoLateTerm` of `Lead`) hold on the same instances and are
left out of the runs.

*Bounds.* Three mutex callers give a holder, a reserved caller and a line behind it,
which is every case the dispatch distinguishes; the proofs cover any number. Two light
and two heavy calls are enough for a light one to pass a heavy one and for a pool to be
forgotten with calls in line. Two readers are a batch, two writers an order. A lease of
4 has a last third in which a grant is renewed first; time 5 lets one lease expire and a
second attempt take over while messages of the first are in flight (any number and any
length in the proofs). Four writes allow create, update, delete and create again; two
workers and two faults give a stale worker and a takeover whose own call fails. One job
is enough for `journal_jobs`: jobs share nothing but the workers, and a second worker is
the one that takes over. Two tries and one retry make try numbers repeat. Three file
attempts are an owner and two takers of its dead lock, or a taker that died in its guard, the
one that steps past it and a rival; one that renews, releases beside it and hands its renewal back
meets the other two as takers, releasers and successors. The inductive invariant was checked with all
three renewing as well (413 k states up to symmetry). `stale` 1 already lets a clock reading be fresh,
due and dead. Two starts and a stop give a run, its end and a run after it; two commits give a wake-up
for work that a pass has taken already. Five seqs with batches of three give full and short batches, gaps
and commits between the reads. Three runs and one slot are a holder, one that waits for the slot
and one that waits for its key; two verbs close and reopen a limit; two tries are fewer
than the runs that can be queued.

Deadlock is not checked where the system may stop: when every lease attempt is used up,
every candidate has ended, every write, job and run is done, or a stopped worker is not
started again. The in-process stores have
no such end and are checked for deadlock. Symmetry is used only in the lease runs,
which check no liveness.

*Fairness.* In-process (`Proceed`): continuations run, and a holder releases. No
fairness on the backoff timer or on new calls, so service does not depend on polling.
`Lead`: continuations, timers and store calls go on, an unused lease expires, `fn` settles
once its signal has aborted (the README asks that of `fn`). Strong fairness on taking up a
grant says that not every grant arrives after its lease ran out; without it no loop over
an asynchronous store leads. `ForwardLane` and `JournalJobs`: workers poll and finish their
steps, handlers settle, and the lease of a worker that is gone runs out; faults are
finitely many. There is no fairness on operators. `FileLock`: time passes and some process
runs on (weak fairness of the calls together, not of each process), which is why the key
is taken by somebody, not by everybody. `Worker`: awaits resolve and the poll timer fires (the steps of the loops together, as of one event loop);
strong fairness on `Drain` and `CatchUp` says that passes do not fail for ever. Nobody need
commit, start or stop, no wake-up need arrive, and the sweep's timer need not fire. `Projection`: callers pass again
and again and no failure strikes the same step for ever; resets may come for ever, and
`CatchesUp` says so. `Limits`: transactions commit, timers run, overrides run out and live runs
end; queued runs start once operators leave the limits open (`QueuedRunsStart` names it).

## 4. Proofs

All proofs hold for every value of the constants under the named assumptions of the
modules: `NobodyAssumption` (the null caller is no caller), `LeaseAssumption` (a null token,
a positive lease, bounds are naturals), `LeadAssumption`, `ProjectionAssumption` (a positive
batch size, a null batcher), `ModeAssumption` (a caller reads or writes), `FileAssumption` (a null
token, a positive `stale`), `JobsAssumption` and `LaneAssumption` (positive tries and batches, bounds
are naturals), `PermitAssumption` (weights and limits are positive, and a call fits in its own limit, as
the manager checks), `WorkerAssumption` and `LimitsAssumption` (bounds are naturals, a null key,
every workflow has a limit of its own and there is a workflow). No set of callers, attempts, workers or
jobs need be finite. Some theorems have a hypothesis of their own, named with them below.

**MemoryMutexProofs.** `Invariance`, `Typing`, `Exclusion`, `NobodyForgotten` and `Refinement`.
Neither exclusion nor the absence of lost wake-ups is inductive: whether a grant is
safe depends on `reserved` and `holder` agreeing with the sessions and program counters.
`IndInv` says so (`Consistent`: a session is queued exactly when it is in the line, once; it
is reserved exactly when the key is reserved for it; the holder is exactly who holds) and
adds `NoSleepOnFree`. It is stated over the values that the dispatch works on, so that
one lemma about `DispatchMutex` serves release, give-back and departure. `Refinement` maps
`queue` to the reserved caller followed by the line; dispatch then leaves the queue as it
is, a departure is `Quit`, a grant `Take`. The first lemmas are facts about `Append`, `Tail`,
`RemoveAt` and injectivity in a line.

**MemorySharedProofs.** `Invariance`, `Typing`, `WriterAlone`, `EntryIsExact`, `NobodyForgotten`, and
`InOrder` for the action property. The entry counts the woken readers and does not name them, so
exclusion rests on the count being the number of sessions reserved for reading (`Agrees`); each
step that wakes, redeems or gives back must change both alike, and the count of a set that gains or
loses one member comes from the library's cardinality theorems. `Alone` says what may be taken or
promised together. As in the mutex the invariant is stated of the entry before `dispatchShared`
has run, and `NoneLeft` is what the dispatch restores. The line lemmas are those of the mutex.

Of the semaphore: `PoolInvariance`, `PermitTyping`, `WithinCapacity`, `PoolIsExact` and
`NobodyWaitsForFreePermits`. `Permits(S)` counts the tickets of the calls of `S` (a call and a number
up to its weight), so a sum over calls is a cardinality, and one call more or less changes it by
that call's weight (`PermitsAdd`, `PermitsRemove`). The loop of `dispatchPermits` is a recursive function over
the line: `LoopDefined` shows that it has a solution and `ServedFacts` what it returns (part of the line, in use
never past the limit, nobody left who fits), both by the least turn at which the claim would fail.
`PoolInv` says that the counters are what the holds and reservations add up to, that nothing exceeds the
limit and that every holder was granted under it; `Pooled` is the part of it that release and
departure leave to the dispatch. `NobodyWaitsForFreePermits` assumes `AllFit`, every call fits in every limit
declared for the key: without it a pool of a small limit is forgotten with a heavier call in line
(section 5). Its invariant `FitInv` is kept apart from `PoolInv`, which needs no such thing: then a
call may even be granted while it is in line, and the counters still agree.

**FileLockProofs.** `Typing` for any timing; `Invariance`, `OwnerStays` and `JudgedIsMoved` where all six
circumstances count (`Counted = Circumstance`), that is until one of them comes about. The invariant
is `IndInv == TypeOK /\ (~exposed => Good)`. `Placed` says whose directory lies at the path: the one
that trusts it, the victim of a taker about to move it. `InTime` says the same of the holder's
calls: a release that read its own token still finds its own lock, in either thread, and a
renewal that its guard waits for writes to its own. A renewal whose guard has ended may write to a
successor's lock, with a fresh reading (an old one is `old clock`), which does no harm; the
release that follows it reads the owner and leaves. A taker relies on its guard only while its
victim's lock is in place (`Covered`: its guard is there, and those it stepped past are there and
dead); guards are deleted by path, but once the victim's lock is gone it never comes back, since a
token acquires once (`Judged`: a victim is not `Fresh`). From this `OneTaker`: of the takers of the lock in
place at most one is between its judgement and its move, as the lower of two guards would be dead with
its taker still in it. `Sheltered` turns each circumstance around: a dead lock is looked at by no
release or renewal, so nobody makes it young again and its taker alone moves it, and of an attempt's two
releases one is past the move or has not read the owner. Each action has its lemma
(`MoveKeepsGood`, `UtimesKeepsGood`, `ReleaseKeepsGood`, ...); `CallEffects`, `ReapEffects`,
`AnswersEffects` and `TickEffects` first say what it does to an attempt's records, field by field.

**LeaseLockProofs.** `Typing`, `DeadlineHolds`, `Exclusion`, `FencesOrdered` for any delays,
losses, resends and stalls; `StartsUnderLease` and `ValueIsExclusive` where no event loop
stalls (`Stalls = FALSE`). The argument: `Messages` ties every call and answer in flight to
the phase of its attempt (a release is in flight only after the guard ended or the attempt
was given up, so it cannot free a live guard's row). `Backed` says that a positive answer
in flight, or a held guard, promises no time that the row does not have: either the row
is the attempt's own and expires no earlier than the promise, or the promised time is
over. `Fenced` carries the newest fence along. `FenceInv` (no fence ahead of the counter,
each fence with one attempt, the newest with the owner of the row) gives uniqueness.
`Overtaken` says that a guard whose key went to another is past its deadline or ended as
lost or crashed, never released.

Of the leader election: `AtMostOneLeader`, `LeadTyping`, `NoTermAfterAbort`, `RestsAfterTerm`. The invariant `LeadOwned`
says a live guard's lease is in the store and that its loop is in a term. `Debts` says that a loop
that has not rested since its term leads, steps down, has stopped or waits without the hook.

**JournalJobsProofs.** `LeaseAndAttempts`, `CompletedByItsClaim`, `PrunedIsExported`, `LeaseIsExclusive`,
`Typing`, and `CommandsAreFenced` for the action property. A job's token is the number of its newest
claim or none, and its tries are at most its claims (`Counted`); a worker's copy of a job bears a
claim that was given out, and no two workers bear the same (`Copies`, `Distinct`); no attempt of a
job in the table is ok (`Unsettled`). So whoever acknowledges, or records a failure, under the
token is the one worker whose attempt is open. `CommandsAreFenced` holds for as long as tries and
claims agree, which is until an operator retries: just the case that `JournalJobsStale` shows.

Of the worker's loop: `LoopTyping`, `LoopInvariance`, `StoppedIsQuiet`, `NeverSleepsOnWork`, the last three
where no `start` or `stop` is called while another is under way (`~Overlap`; `WorkerOverlap` shows what
happens otherwise). The variables `loop`, `sweeping` and `unlisten` are what a `stop` awaits, and nothing says that
they are all there is: `OneCall`, `OwnRun`, `Openings` and `Listening` say that the run they
hold is the only one with a loop, a sweeper or a listener, and `Closings` what is over already at each await of
a `stop`, so that at its end nothing is left (`AtRest`). For the sleep, `Seen` follows a pass: from
its look at the jobs to the sleep, work it has not seen has set `woken`, or its wake-up is still
to come.

**ForwardLaneProofs.** `NoVersionIsLost`, `VersionsContinue`, `LogIsWhatWasCommitted`,
`AppendsNeverConflict`, `OnlyTheHeadRuns`, `Typing`. In every circumstance the log has no hole
(`Numbered`), a worker past its look holds a batch that continues the log or is in it already
(`WorkOK`), and nothing is lost. In a lane that operators and others keep off (`Kept`) the jobs
in the table are the last writes, of which only the first can be in the log already
(`TableIsTail`), and the log holds whole writes in turn (`InTurn`, `Whole`). That is why a create
that reads the pending jobs first and the log after them finds where the history ends
(`WriterSees`); in the other order it would not. Least and greatest elements of sets of versions come from
the well-foundedness of the naturals.

**ProjectionProofs.** `ReadModelExact`, `BatchesAreNext`, `OnlyResetRewinds`, `Typing`, for any number of
writers and callers, any batch size and any length of the log. That the read model is exact
is not inductive: a commit below the cursor, or below the top a batch has read, would break
it. `IndInv` rules both out. `Turns` and `Drawn` say what the append lock gives: what is drawn
and not committed lies above all that is committed. `Marks` says that the cursor, a batch's
top and its rows are committed, so later commits lie above them; `Locked` that the cursor row
keeps batches and resets apart; `BatchIsNext` that a batch's rows are just what lies between
the cursor and its next position. `FirstRows` (a limit takes a beginning, and all of it unless
it is reached) and `GreatestElement` rest on the well-foundedness of the naturals.

**LimitsProofs.** `Typing`, `Invariance`, `NobodyWaitsForAFreeSlot`, and `AdmissionWithinLimits` and
`InQueueOrder` for the action properties. That no run waits for a free slot is not inductive: while a promotion is
open, runs it has not reached may fit. `NoneIdle` allows for those that hold a limit the open
promotion looks at; `BlocksHold` says why it may pass over the ones behind a block, which have no room, or
whatever gave them room since has a look of its own to come. What gives room without being an event is an
override that runs out, so every override must have its timer (`OverridesAreTimed`). A limit's count
only grows while runs go live (`MoreLive`, `LessRoom`), from the library's cardinality theorems; the oldest
of the candidates exists by the well-foundedness of the naturals (`OldestIsLeast`).

*Only model-checked.* All liveness properties, as the prover has no rules for fairness. Every invariant and every action
property of the passing runs is a theorem, under the hypotheses named above.

## 5. Findings

`journal_jobs_stale` is a run of the project; the other configurations are kept beside it
and are run by hand (`tlc -config LimitsLook.cfg MCLimits`). Each is violated by what the code does.

| configuration | property | what happens |
|---|---|---|
| `JournalJobsStale` | `NoStaleCommit` | `retry` sets the try counter back (outbox.ts:542), so a worker that lost its lease in try 1 passes the fence of the retried job's try 1 and commits. journal README:1177 says "A worker whose lease ran out cannot commit a checkpoint". |
| `LeaseLockStall` | `ValueMeansExclusive` | A callback settles after the deadline, but before the overdue deadline timer ran: its value is returned although another caller held the key meanwhile (locks.ts:460-488). lock README:424 says "A lost lock returns `LockLost` by default". |
| `ForwardLanePurged` | `LeavesAfterAppend` | `purgeDead` archives the last dead forward job of a stream without asking the log (outbox.ts:787-797). outbox.ts:579 says "A dead forward job may leave only once its log holds every version it carries". |
| `ForwardLaneLegacy` | `EveryEventLands` | The first write to a row from before the journal starts at version 2 and `runForward` waits for version 1, which nobody writes: the job neither lands nor dies. journal README:306 says "The worker appends them to the log after the commit". |
| `FileLockRelease` | `MovesOnlyTheJudged` | Without `dead release`: `release` reads the owner (file/index.ts:333) before the age (337). If the lock expires and is taken over in between, the fresh age is the successor's, whose lock is moved aside; a third attempt can take the key before it is put back. file/index.ts:24 says "An owner only releases a lock that is still fresh". |
| `FileLockTwice` | `OwnerInPlace` | Without `two releases`, and with no expiry at all: a callback settles during a renewal, the renewal succeeds, and the guard's release (locks.ts:473) and the one that hands the renewal back (555) both read the owner and a fresh age. One frees the key and another attempt takes it; the other moves that live lock aside, and a third attempt can take the key before it is put back. lock README:677 lists the contract case "acquire racing release and extend never gives two holders". |
| `FileLockRevive` | `OwnerInPlace` | Without `dead renewal`: a renewal finds its lock fresh, the lock expires and the guard is lost, a taker judges the lock dead, and the `utimes` of the renewal makes it young again. The release that hands it back reads its own token and a fresh age, the taker moves the dead lock and makes its own, and the release moves that. file/index.ts:312 says "Expired is expired: a late heartbeat never revives a lease". |
| `FileLockBlind` | `MovesOnlyTheJudged` | Without `no victim`: a taker whose first `readOwner` finds no directory takes `''` for its victim (file/index.ts:244-245), and its guard is named after nobody. If a new lock comes and dies before it judges, and another taker moves that one before it reads the owner again (275), `''` equals `''`, and `remove` moves whatever lies there next, the live lock of a third. file/index.ts:20 says "Only takers holding the guard of one dead lock may move that lock". |
| `WorkerOverlap` | `StopIsQuiet` | `stop` while `start` still awaits its listener finds no `unlisten` to call; the listener that registers afterwards stays, and goes on dispatching taps. drain.test.ts:414 says "After stop nothing runs", journal README:605 that the client is closed on `stop()`. |
| `LimitsLook` | `NoRunMissed` | A start judged under a key's override commits after the override ran out and after the limit timer found the queue empty: it stays queued with room for it until the next run end or verb. runner.ts:3923 says "a run queued after the override ran out was judged without it, so the look needs no lock first". |

The hazards of these configurations are excluded from the passing runs (by `Stalls`, `Overlap`,
`exposed`, `missed`), and only the configurations meet them. Of the two other circumstances of `FileLock`,
leaving out `dead guard` or `old clock` violates `OwnerInPlace` too.

More disagreements were met while modelling and have no configuration of their own:

* A failing `fn`, a lost lease or a failing store call ends the loop of `lead`, where its
  comment says it campaigns until the signal aborts (lead.ts:83).
* With mixed limits on one semaphore key, a pool of a small limit can be forgotten while a
  heavier call waits in line, against memory.ts:400; that call is then served by its backoff
  timer (the comment of `NoIdleFit` names the condition).
* A replayed forward job counts in `pendingTop` (outbox.ts:825), so a create while it waits
  can be given a base below the log's top.
* The header of the file store says that a guard is never removed by anyone but its maker
  (file/index.ts:20) and the lock README that stepped-past guards are never swept (README:405);
  `takeOver` removes by path the guards it stepped past (279).
* A `listen` that fails leaves the worker `running` with no loop: the next `start` returns at
  once (worker.ts:938).
* Rescheduling a queued run whose ttl has passed, before its timer ends it, brings it back into
  the queue without a look at its limits (runner.ts:3699-3784): it may have room and wait for
  the next change.
* Runs of one key start in the order they queued (journal README:1640) per workflow only: of two
  workflows with the same key, a run that also waits for another limit is overtaken.
* A completed child that its parent reopens takes a slot past the gate (machine.ts:365), so a
  limit can be overfilled that way and no other (`AdmitsWithinLimits`).

## 6. Not modelled, and the plan

Not modelled: validation, schemas, error wording, telemetry, rendering and wiring;
clock drift between processes; the Postgres hold store; the wake channels of the lease
stores and their permit and read/write rows; inline projections; receipts of commands; the
nodes of a workflow run; the other packages.

Order of the work ahead:

1. Workflow runs: a run's steps, retries, timers, waits and compensation on top of `JournalJobs`.
2. Wake channels of the lease stores (LISTEN and pub/sub against the first attempt), the
   Postgres hold store with connection loss, permit and read/write rows.
3. Command receipts, and inline projections.
4. The schedule and offline packages: missed ticks and overlap, replay of a persisted queue.
