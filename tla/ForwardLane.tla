----------------------------- MODULE ForwardLane -----------------------------
(***************************************************************************)
(* The forward lane of one entity (packages/journal/src): its event log    *)
(* lives in another store, so a write commits the row and a `forward` job  *)
(* that carries its events, and workers append the jobs' events to the log *)
(* in version order, at least once.                                        *)
(*                                                                         *)
(* A write is named by its place in `history`, and so is its job: the      *)
(* table holds at most one job of it at a time.  An event is               *)
(* [version, write]; one that something else appended is from write 0.     *)
(* Writers of one journal exclude each other from the append lock to the   *)
(* commit (seq.lock), workers and operators run in between.                *)
(***************************************************************************)
EXTENDS Integers, Sequences, FiniteSets, FiniteSetsExt

CONSTANTS Worker,
          Nobody,     \* no worker
          MaxWrites,  \* bound on the writes
          MaxWritesOdd, \* the same where circumstances are not plain
          MaxBatch,   \* bound on the events of one write
          MaxFaults,  \* bound on crashes, stalled workers and failing calls
          Circumstances \* the sets of odd circumstances to look at, see Odd

\*   legacy    the entity's row was there before the journal
\*   purges    dead jobs grow old enough for purgeDead
\*   replays   operators replay archived jobs
\*   foreign   something else may write to the log
Odd == {"legacy", "purges", "replays", "foreign"}

ASSUME LaneAssumption ==
    /\ Nobody \notin Worker
    /\ MaxWrites \in Nat /\ MaxWritesOdd \in Nat /\ MaxBatch \in Nat \ {0} /\ MaxFaults \in Nat
    /\ Circumstances # {} /\ Circumstances \subseteq SUBSET Odd

VARIABLES row,      \* the row's version, or NoRow
          writer,   \* the transaction that holds the append lock
          history,  \* the committed writes: the version each follows and how many events it has
          hot,      \* the jobs in journal_jobs
          dead,     \* the ones with dead_at set
          lease,    \* the worker whose token each job's row has
          lapsed,   \* the jobs whose lease_until has passed
          archive,  \* the jobs in journal_job_archive
          log,      \* the events in the entity's log
          work,     \* each worker's copy of the job it runs, and how far it is
          odd,      \* the odd circumstances, which do not change
          faults

vars == <<row, writer, history, hot, dead, lease, lapsed, archive, log, work, odd, faults>>
table == <<hot, dead, lease, lapsed, archive>>

NoRow == -1
None == -1
Write == 1..(IF MaxWrites < MaxWritesOdd THEN MaxWritesOdd ELSE MaxWrites)
Idle == [job |-> 0, step |-> "idle"]
Quiet == [step |-> "idle", adopts |-> FALSE, seen |-> None]

Ends(i) == history[i].base + history[i].size
Carries(i) == (history[i].base + 1)..Ends(i)
Events(i) == [version : Carries(i), write : {i}]
Versions == {e.version : e \in log}
LogTop == Max(Versions \cup {0})    \* log.highestVersion
MayWrite == Len(history) < IF odd = {} THEN MaxWrites ELSE MaxWritesOdd

\* Typing of the tables and of the copies workers hold; only a job of the table is dead or leased.
TypeOK ==
    /\ row \in Nat \cup {NoRow}
    /\ writer \in [step : {"idle", "jobs", "log"}, adopts : BOOLEAN, seen : Nat \cup {None}]
    /\ history \in Seq([base : Nat, size : 1..MaxBatch]) /\ Len(history) \in Write \cup {0}
    /\ hot \subseteq 1..Len(history) /\ dead \subseteq hot /\ archive \subseteq 1..Len(history)
    /\ lease \in [Write -> Worker \cup {Nobody}]
    /\ lapsed \subseteq {i \in Write : lease[i] # Nobody}
    /\ {i \in Write : lease[i] # Nobody} \subseteq hot \ dead
    /\ log \subseteq [version : Nat \ {0}, write : 0..Len(history)]
    /\ work \in [Worker -> [job : 0..Len(history),
                            step : {"idle", "claimed", "clear", "landed", "behind", "diverged", "failed"}]]
    /\ odd \in Circumstances /\ faults \in 0..MaxFaults

Init == /\ odd \in Circumstances
        /\ row = IF "legacy" \in odd THEN 0 ELSE NoRow
        /\ writer = Quiet
        /\ history = <<>>
        /\ hot = {} /\ dead = {} /\ archive = {}
        /\ lease = [i \in Write |-> Nobody] /\ lapsed = {}
        /\ log = {}
        /\ work = [w \in Worker |-> Idle]
        /\ faults = 0
-----------------------------------------------------------------------------
(* Writes *)

PendingTopAlive == Max({Ends(i) : i \in hot \ dead} \cup {None})   \* Mutant: dead jobs are not counted.

\* jobs.pendingTop: where the pending jobs end, dead ones included; None when there is none.
PendingTop == Max({Ends(i) : i \in hot} \cup {None})

\* The savepoint commits: the row, and one job at the version the events follow (unique per stream).
Commit(base, n, gone) ==
    /\ \A i \in hot : history[i].base # base
    /\ history' = Append(history, [base |-> base, size |-> n])
    /\ row' = IF gone THEN NoRow ELSE base + n
    /\ hot' = hot \cup {Len(history) + 1}
    /\ UNCHANGED <<dead, lease, lapsed, archive, log, work, odd, faults>>

\* A write to a journalled row: its own version is the base.
Update == /\ writer.step = "idle" /\ row > 0 /\ MayWrite
          /\ \E n \in 1..MaxBatch, gone \in BOOLEAN : Commit(row, n, gone)
          /\ UNCHANGED writer

\* A create, the first write to a row from before the journal, or an adopt reads the pending jobs first ...
ReadJobs == /\ writer.step = "idle" /\ MayWrite
            /\ \E adopts \in BOOLEAN :
                  /\ IF adopts THEN row # NoRow ELSE row \in {NoRow, 0}
                  /\ writer' = [step |-> "jobs", adopts |-> adopts, seen |-> PendingTop]
            /\ UNCHANGED <<row, history, table, log, work, odd, faults>>

\* ... and then, when none is pending, the log.
ReadLog == /\ writer.step = "jobs"
           /\ writer' = [writer EXCEPT !.step = "log", !.seen = IF @ = None THEN LogTop ELSE @]
           /\ UNCHANGED <<row, history, table, log, work, odd, faults>>

\* A row at version 0, and an adopted one, must have no history yet.
Create == /\ writer.step = "log"
          /\ \/ /\ writer.adopts /\ writer.seen = 0
                /\ Commit(0, 1, FALSE)
             \/ /\ ~writer.adopts /\ row = NoRow
                /\ \E n \in 1..MaxBatch, gone \in BOOLEAN : (gone => n > 1) /\ Commit(writer.seen, n, gone)
             \/ /\ ~writer.adopts /\ row = 0 /\ writer.seen = 0
                /\ \E n \in 1..MaxBatch, gone \in BOOLEAN : Commit(1, n, gone)
          /\ writer' = Quiet

\* CONFLICT, a refusal of the caller's rules or a failing transaction: nothing is written.
Rollback == /\ writer.step # "idle"
            /\ writer' = Quiet
            /\ UNCHANGED <<row, history, table, log, work, odd, faults>>
-----------------------------------------------------------------------------
(* Workers *)

Stay(w, s) == work' = [work EXCEPT ![w].step = s]
Rest(w) == work' = [work EXCEPT ![w] = Idle]
Holds(w) == lease[work[w].job] = w

\* Mutant: a lease that ran out is not taken over.
ClaimableUnleased(i) == /\ i \in hot \ dead /\ lease[i] = Nobody
                        /\ \A j \in hot : history[j].base >= history[i].base

\* claimOne and streamHead: a waiting job whose lease is free or ran out, at the head of the stream.
Claimable(i) == /\ i \in hot \ dead
                /\ lease[i] = Nobody \/ i \in lapsed
                /\ \A j \in hot : history[j].base >= history[i].base

Claim(w, i) == /\ work[w] = Idle /\ Claimable(i)
               /\ lease' = [lease EXCEPT ![i] = w]
               /\ lapsed' = lapsed \ {i}
               /\ work' = [work EXCEPT ![w] = [job |-> i, step |-> "claimed"]]
               /\ UNCHANGED <<row, writer, history, hot, dead, archive, log, odd, faults>>

\* Mutant: the log's top is not looked at.
ReadTopBlindly(w) == /\ work[w].step = "claimed"
                     /\ Stay(w, "clear")
                     /\ UNCHANGED <<row, writer, history, table, log, odd, faults>>

\* runForward: a log below the version the events follow lacks an earlier batch.
ReadTop(w) == /\ work[w].step = "claimed"
              /\ Stay(w, IF LogTop < history[work[w].job].base THEN "behind" ELSE "clear")
              /\ UNCHANGED <<row, writer, history, table, log, odd, faults>>

\* log.append, all or nothing: free versions are taken, the same events again are a success, others a CONFLICT.
\* The answer may get lost either way.
AppendBatch(w) ==
    LET events == Events(work[w].job)
        free == \A e \in events : e.version \notin Versions
    IN  /\ work[w].step = "clear"
        /\ log' = IF free THEN log \cup events ELSE log
        /\ \/ /\ Stay(w, IF free \/ events \subseteq log THEN "landed" ELSE "diverged")
              /\ UNCHANGED faults
           \/ /\ faults < MaxFaults /\ faults' = faults + 1
              /\ Stay(w, "failed")
        /\ UNCHANGED <<row, writer, history, table, odd>>

\* A call to the log or the ack fails before it does anything.
CallFails(w) == /\ work[w].step \in {"claimed", "clear", "landed"}
                /\ faults < MaxFaults /\ faults' = faults + 1
                /\ Stay(w, "failed")
                /\ UNCHANGED <<row, writer, history, table, log, odd>>

\* ack: one fenced statement moves the job to the archive; under a lost lease it does nothing.
Ack(w) == LET i == work[w].job IN
          /\ work[w].step = "landed"
          /\ IF Holds(w)
             THEN /\ hot' = hot \ {i} /\ archive' = archive \cup {i}
                  /\ lease' = [lease EXCEPT ![i] = Nobody] /\ lapsed' = lapsed \ {i}
             ELSE UNCHANGED <<hot, archive, lease, lapsed>>
          /\ Rest(w)
          /\ UNCHANGED <<row, writer, history, dead, log, odd, faults>>

\* recordFailure, fenced: a diverged job dies, a waiting one never does, another may. A stopped worker's
\* releaseInterrupted leaves the job as a retry does.
Fail(w) == LET i == work[w].job IN
           /\ work[w].step \in {"behind", "diverged", "failed"}
           /\ IF Holds(w)
              THEN /\ lease' = [lease EXCEPT ![i] = Nobody] /\ lapsed' = lapsed \ {i}
                   /\ \/ work[w].step # "behind" /\ dead' = dead \cup {i}
                      \/ work[w].step # "diverged" /\ UNCHANGED dead
              ELSE UNCHANGED <<dead, lease, lapsed>>
           /\ Rest(w)
           /\ UNCHANGED <<row, writer, history, hot, archive, log, odd, faults>>

\* The lease of a worker that is gone, or of one that stalls, runs out.
Lapse(i) == /\ lease[i] # Nobody /\ i \notin lapsed
            /\ \/ work[lease[i]].job # i /\ UNCHANGED faults
               \/ work[lease[i]].job = i /\ faults < MaxFaults /\ faults' = faults + 1
            /\ lapsed' = lapsed \cup {i}
            /\ UNCHANGED <<row, writer, history, hot, dead, lease, archive, log, work, odd>>

\* A worker's process dies and starts again.
Crash(w) == /\ work[w] # Idle
            /\ faults < MaxFaults /\ faults' = faults + 1
            /\ Rest(w)
            /\ UNCHANGED <<row, writer, history, table, log, odd>>
-----------------------------------------------------------------------------
(* Operators *)

\* retry: dead to pending.
Retry(i) == /\ i \in dead
            /\ dead' = dead \ {i}
            /\ UNCHANGED <<row, writer, history, hot, lease, lapsed, archive, log, work, odd, faults>>

LandedAnyway(i) == TRUE   \* Mutant: a dead job may leave whatever the log holds.

\* assertForwardLanded: the log reaches the last version the job carries.
ForwardLanded(i) == LogTop >= Ends(i)

\* discard: a dead job leaves, once its versions are in the log.
Discard(i) == /\ i \in dead /\ ForwardLanded(i)
              /\ hot' = hot \ {i} /\ dead' = dead \ {i} /\ archive' = archive \cup {i}
              /\ UNCHANGED <<row, writer, history, lease, lapsed, log, work, odd, faults>>

\* purgeDead: an old dead job leaves unless later jobs of its stream wait behind it.
PurgeDead(i) == /\ "purges" \in odd /\ i \in dead
                /\ \A j \in hot : history[j].base <= history[i].base
                /\ hot' = hot \ {i} /\ dead' = dead \ {i} /\ archive' = archive \cup {i}
                /\ UNCHANGED <<row, writer, history, lease, lapsed, log, work, odd, faults>>

\* replay: an archived job is queued again in its place, under a new id.
Replay(i) == /\ "replays" \in odd /\ i \in archive
             /\ \A j \in hot : history[j].base # history[i].base
             /\ hot' = hot \cup {i}
             /\ UNCHANGED <<row, writer, history, dead, lease, lapsed, archive, log, work, odd, faults>>

\* Something else appends the next version to the log, once.
ForeignAppend == /\ "foreign" \in odd /\ \A e \in log : e.write # 0
                 /\ log' = log \cup {[version |-> LogTop + 1, write |-> 0]}
                 /\ UNCHANGED <<row, writer, history, table, work, odd, faults>>
-----------------------------------------------------------------------------
Step(w) == ReadTop(w) \/ AppendBatch(w) \/ Ack(w) \/ Fail(w)

Next == \/ Update \/ ReadJobs \/ ReadLog \/ Create \/ Rollback
        \/ \E w \in Worker : \/ \E i \in hot : Claim(w, i)
                             \/ Step(w) \/ CallFails(w) \/ Crash(w)
        \/ \E i \in 1..Len(history) : Lapse(i) \/ Retry(i) \/ Discard(i) \/ PurgeDead(i) \/ Replay(i)
        \/ ForeignAppend

Spec == Init /\ [][Next]_vars

\* Workers go on, poll for jobs, and the lease of a worker that is gone runs out.
Fairness == /\ \A w \in Worker : WF_vars(Step(w))
            /\ WF_vars(\E w \in Worker, i \in hot : Claim(w, i))
            /\ WF_vars(\E i \in 1..Len(history) : Lapse(i))
FairSpec == Spec /\ Fairness
-----------------------------------------------------------------------------
(* Properties *)

\* A write continues the version count of the one before it, also across deletes and however the jobs and the
\* log are read while workers move events from one to the other (write.ts, pendingTop). A job purged before its
\* turn, one replayed out of its turn, or a foreign event does move the count.
HistoryContinues == odd \subseteq {"legacy"} => \A i \in 2..Len(history) : history[i].base = Ends(i - 1)

\* "so the log never gets a hole" (README): not even under purges, replays and foreign events.
NoHole == Versions = 1..LogTop

\* And where operators and others keep off, the log holds exactly the first events that were committed,
\* each under its own version: repeats, stale workers and retries neither reorder nor double nor skip
\* one (runForward and the append contract).
LogIsPrefix == /\ NoHole
               /\ odd \subseteq {"legacy"} =>
                    log = UNION {{e \in Events(i) : e.version <= LogTop} : i \in 1..Len(history)}

\* "A dead forward job may leave only once its log holds every version it carries" (outbox.ts:579): a committed
\* version is in the log or on its way there; a job purged before its turn is still in the archive.
NothingLost == \A i \in 1..Len(history) :
    i \in hot \/ Carries(i) \subseteq Versions \/ ("purges" \in odd /\ i \in archive)

\* "A job leaves this table only after its append" (write.ts:229).
LeavesAfterAppend == \A i \in 1..Len(history) : i \in hot \/ Carries(i) \subseteq Versions

\* "The worker appends them to the log after the commit" (README): unless a job dies, every event lands.
Lands(i) == i \in hot ~> (i <= Len(history) /\ Carries(i) \subseteq Versions) \/ dead # {}
EveryEventLands == \A i \in Write : Lands(i)

\* It does for an entity that began with the journal, whose operators and log keep to the lane.
EventsLand == odd = {} => EveryEventLands
=============================================================================
