----------------------------- MODULE JournalJobs -----------------------------
(***************************************************************************)
(* The outbox of the journal (packages/journal/src): the hot job table,    *)
(* the attempt rows, the archive, the workers that drain jobs under a      *)
(* lease (worker.ts) and the operators' verbs (outbox.ts).                 *)
(*                                                                         *)
(* A claim gives the job a fresh lease token and an attempt row numbered   *)
(* by the job's try counter.  The token fences the ack and the failure     *)
(* record; the attempt row fences the commands the handler runs.  Tokens   *)
(* are counted per job.  Priorities and delays only choose among jobs that *)
(* may be claimed, so a claim here takes any of them.  The retention       *)
(* policy keeps finished jobs and has a sink.                              *)
(*                                                                         *)
(* A Job stands for both kinds: an effect of a workflow, whose commands    *)
(* are fenced and which the workflow's verbs retry (retryStep calls the    *)
(* same `retry`), and any other, which the plain verbs move.  Its steps    *)
(* are those of both, so what holds of it holds of each.                   *)
(***************************************************************************)
EXTENDS Naturals, Sequences, FiniteSets, SequencesExt

CONSTANTS Job,
          Worker,
          NoJob,
          MaxTries,   \* the retry policy's tries
          MaxRetries, \* bound on the operators' retries of dead jobs
          MaxFaults   \* bound on crashes, stalls, interruptions and failing acks

ASSUME JobsAssumption == /\ NoJob \notin Job
                         /\ MaxTries \in Nat \ {0} /\ MaxRetries \in Nat /\ MaxFaults \in Nat

VARIABLES state,     \* of the job's row: "none" before and after its life in the table
          token,     \* its lease token, 0 when free
          live,      \* whether lease_until lies ahead
          tries,     \* its `attempts` column
          attempts,  \* its attempt rows
          archive,   \* its archive row: where it is in retention, its outcome and its attempt log
          sink,      \* the archive rows the sink has been given
          work,      \* the job each worker runs: its copy of the row, and how far it is
          claims,    \* the tokens given out so far
          committed, \* history: the claims whose commands committed
          succeeded, \* history: the claims whose handler succeeded
          retries, faults

vars == <<state, token, live, tries, attempts, archive, sink, work, claims, committed, succeeded, retries, faults>>
rows == <<state, token, live, tries, attempts>>
kept == <<archive, sink>>
past == <<claims, committed, succeeded, retries>>

Attempt == [no : Nat, claim : Nat, outcome : {"open", "ok", "retry", "dead", "superseded"}]
Idle == [job |-> NoJob, claim |-> 0, no |-> 0, stage |-> "idle"]
Nowhere == [at |-> "none", outcome |-> "none", log |-> <<>>]

Open(j) == {i \in 1..Len(attempts[j]) : attempts[j][i].outcome = "open"}

\* Typing of the tables; a job is in the hot table or in the archive, never in both.
TypeOK == /\ state \in [Job -> {"none", "waiting", "dead"}]
          /\ token \in [Job -> Nat] /\ claims \in [Job -> Nat]
          /\ live \in [Job -> BOOLEAN]
          /\ tries \in [Job -> Nat]
          /\ attempts \in [Job -> Seq(Attempt)]
          /\ archive \in [Job -> [at : {"none", "kept", "exporting", "exported", "pruned"},
                                  outcome : {"none", "completed", "dead", "discarded", "cancelled"},
                                  log : Seq(Attempt)]]
          /\ \A j \in Job : archive[j].at # "none" => state[j] = "none"
          /\ sink \subseteq Job
          /\ work \in [Worker -> [job : Job \cup {NoJob}, claim : Nat, no : Nat,
                                  stage : {"idle", "running", "done", "failing"}]]
          /\ committed \in [Job -> SUBSET (Nat)] /\ succeeded \in [Job -> SUBSET (Nat)]
          /\ retries \in 0..MaxRetries /\ faults \in 0..MaxFaults

Init == /\ state = [j \in Job |-> "none"]
        /\ token = [j \in Job |-> 0] /\ live = [j \in Job |-> FALSE] /\ tries = [j \in Job |-> 0]
        /\ attempts = [j \in Job |-> <<>>]
        /\ archive = [j \in Job |-> Nowhere] /\ sink = {}
        /\ work = [w \in Worker |-> Idle]
        /\ claims = [j \in Job |-> 0]
        /\ committed = [j \in Job |-> {}] /\ succeeded = [j \in Job |-> {}]
        /\ retries = 0 /\ faults = 0
-----------------------------------------------------------------------------
(* The tables *)

\* Attempt rows with every open one closed as o.
Closed(s, o) == [i \in DOMAIN s |-> IF s[i].outcome = "open" THEN [s[i] EXCEPT !.outcome = o] ELSE s[i]]

\* The row loses its lease.
Unlease(j) == token' = [token EXCEPT ![j] = 0] /\ live' = [live EXCEPT ![j] = FALSE]

\* The job leaves the hot table; its attempts are folded into the archive row and go with it.
MoveToArchive(j, outcome, o) ==
    /\ state' = [state EXCEPT ![j] = "none"]
    /\ Unlease(j)
    /\ attempts' = [attempts EXCEPT ![j] = <<>>]
    /\ archive' = [archive EXCEPT ![j] = [at |-> "kept", outcome |-> outcome, log |-> Closed(attempts[j], o)]]
    /\ UNCHANGED <<tries, sink>>

FreeUnleased(j) == token[j] = 0   \* Mutant: a lease that ran out is not taken over.

\* No worker holds a lease that has not run out.
Free(j) == token[j] = 0 \/ ~live[j]
Holds(w) == work[w].job # NoJob /\ state[work[w].job] = "waiting" /\ token[work[w].job] = work[w].claim
Stay(w, s) == work' = [work EXCEPT ![w].stage = s]
Rest(w) == work' = [work EXCEPT ![w] = Idle]
Faulty == faults < MaxFaults /\ faults' = faults + 1
-----------------------------------------------------------------------------
(* Workers *)

\* A write or queue.add commits the job.
Enqueue(j) == /\ state[j] = "none" /\ archive[j] = Nowhere
              /\ state' = [state EXCEPT ![j] = "waiting"]
              /\ UNCHANGED <<token, live, tries, attempts, kept, work, past, faults>>

\* Mutant: the attempt of the worker that lost its lease stays open.
ClaimLeavingOpen(w, j) ==
    /\ work[w] = Idle /\ state[j] = "waiting" /\ Free(j)
    /\ claims' = [claims EXCEPT ![j] = @ + 1]
    /\ token' = [token EXCEPT ![j] = claims[j] + 1] /\ live' = [live EXCEPT ![j] = TRUE]
    /\ tries' = [tries EXCEPT ![j] = @ + 1]
    /\ attempts' = [attempts EXCEPT ![j] = Append(@, [no |-> tries[j] + 1, claim |-> claims[j] + 1, outcome |-> "open"])]
    /\ work' = [work EXCEPT ![w] = [job |-> j, claim |-> claims[j] + 1, no |-> tries[j] + 1, stage |-> "running"]]
    /\ UNCHANGED <<state, kept, committed, succeeded, retries, faults>>

\* claimOne: a waiting job that is free gets a new token and a new attempt; one still open is superseded.
Claim(w, j) ==
    /\ work[w] = Idle /\ state[j] = "waiting" /\ Free(j)
    /\ claims' = [claims EXCEPT ![j] = @ + 1]
    /\ token' = [token EXCEPT ![j] = claims[j] + 1] /\ live' = [live EXCEPT ![j] = TRUE]
    /\ tries' = [tries EXCEPT ![j] = @ + 1]
    /\ attempts' = [attempts EXCEPT ![j] = Append(Closed(@, "superseded"),
                        [no |-> tries[j] + 1, claim |-> claims[j] + 1, outcome |-> "open"])]
    /\ work' = [work EXCEPT ![w] = [job |-> j, claim |-> claims[j] + 1, no |-> tries[j] + 1, stage |-> "running"]]
    /\ UNCHANGED <<state, kept, committed, succeeded, retries, faults>>

\* renewWhile, every half lease: pushes the lease out unless the token changed, then the handler's signal aborts.
Renew(w) == /\ Holds(w) /\ ~live[work[w].job]
            /\ live' = [live EXCEPT ![work[w].job] = TRUE]
            /\ UNCHANGED <<state, token, tries, attempts, kept, work, past, faults>>

\* The lease of a worker that is gone, or of one that stalls, runs out.
Lapse(j) == /\ token[j] # 0 /\ live[j]
            /\ \/ (\A w \in Worker : ~(work[w].job = j /\ Holds(w))) /\ UNCHANGED faults
               \/ (\E w \in Worker : work[w].job = j /\ Holds(w)) /\ Faulty
            /\ live' = [live EXCEPT ![j] = FALSE]
            /\ UNCHANGED <<state, token, tries, attempts, kept, work, past>>

FenceOpen(w) == TRUE   \* Mutant: commands are not fenced.

\* The fence of attemptOn: the attempt row of this job and number is open.
Fence(w) == LET j == work[w].job IN \E i \in Open(j) : attempts[j][i].no = work[w].no

\* The handler of a workflow's effect runs a command: it commits under the fence, else it is refused
\* with LEASE_LOST and the try fails.
Command(w) == LET j == work[w].job IN
    /\ work[w].stage = "running"
    /\ \/ /\ Fence(w)
          /\ committed' = [committed EXCEPT ![j] = @ \cup {work[w].claim}]
          /\ UNCHANGED work
       \/ /\ ~Fence(w)
          /\ Stay(w, "failing")
          /\ UNCHANGED committed
    /\ UNCHANGED <<rows, kept, claims, succeeded, retries, faults>>

\* The handler settles.
Settle(w) == /\ work[w].stage = "running"
             /\ \/ /\ Stay(w, "done")
                   /\ succeeded' = [succeeded EXCEPT ![work[w].job] = @ \cup {work[w].claim}]
                \/ Stay(w, "failing") /\ UNCHANGED succeeded
             /\ UNCHANGED <<rows, kept, claims, committed, retries, faults>>

\* Mutant: the ack looks for the job's id only.
AckAnyway(w) == /\ work[w].stage = "done"
                /\ IF state[work[w].job] = "waiting" THEN MoveToArchive(work[w].job, "completed", "ok")
                   ELSE UNCHANGED <<rows, kept>>
                /\ Rest(w)
                /\ UNCHANGED <<past, faults>>

\* ack, fenced by the token. A failing ack may have committed; either way the failure is recorded next.
Ack(w) == /\ work[w].stage = "done"
          /\ \/ /\ IF Holds(w) THEN MoveToArchive(work[w].job, "completed", "ok") ELSE UNCHANGED <<rows, kept>>
                /\ \/ Rest(w) /\ UNCHANGED faults
                   \/ Stay(w, "failing") /\ Faulty
             \/ /\ Stay(w, "failing") /\ Faulty
                /\ UNCHANGED <<rows, kept>>
          /\ UNCHANGED past

\* recordFailure, fenced: the retry policy gives the job another try or lets it die, by its try number or the reason.
\* A stopped worker's releaseInterrupted gives it back whatever its tries.
Fail(w) == LET j == work[w].job IN
    /\ work[w].stage = "failing"
    /\ IF Holds(w)
       THEN /\ Unlease(j) /\ UNCHANGED tries
            /\ \/ /\ (work[w].no < MaxTries /\ UNCHANGED faults) \/ Faulty
                  /\ attempts' = [attempts EXCEPT ![j] = Closed(@, "retry")]
                  /\ UNCHANGED state
               \/ /\ state' = [state EXCEPT ![j] = "dead"]
                  /\ attempts' = [attempts EXCEPT ![j] = Closed(@, "dead")]
                  /\ UNCHANGED faults
       ELSE UNCHANGED <<rows, faults>>
    /\ Rest(w)
    /\ UNCHANGED <<kept, past>>

\* The worker's process dies and starts again.
Crash(w) == /\ work[w] # Idle /\ Faulty
            /\ Rest(w)
            /\ UNCHANGED <<rows, kept, past>>
-----------------------------------------------------------------------------
(* Operators and retention *)

\* Dead to pending under the same id; the try counter starts again and the attempt rows stay.
Requeue(S) == /\ retries < MaxRetries /\ retries' = retries + 1
              /\ S # {} /\ \A j \in S : state[j] = "dead"
              /\ state' = [j \in Job |-> IF j \in S THEN "waiting" ELSE state[j]]
              /\ tries' = [j \in Job |-> IF j \in S THEN 0 ELSE tries[j]]
              /\ token' = [j \in Job |-> IF j \in S THEN 0 ELSE token[j]]
              /\ live' = [j \in Job |-> j \notin S /\ live[j]]
              /\ UNCHANGED <<attempts, kept, work, claims, committed, succeeded, faults>>

\* retryDead takes jobs all or none; retry takes one.
RetryDead(S) == Requeue(S)

\* Both take dead jobs only.
Discard(j) == state[j] = "dead" /\ MoveToArchive(j, "discarded", "superseded") /\ UNCHANGED <<work, past, faults>>
PurgeDead(j) == state[j] = "dead" /\ MoveToArchive(j, "dead", "superseded") /\ UNCHANGED <<work, past, faults>>

\* cancel takes a waiting job no worker holds.
Cancel(j) == /\ state[j] = "waiting" /\ Free(j)
             /\ MoveToArchive(j, "cancelled", "superseded")
             /\ UNCHANGED <<work, past, faults>>

Retained(j, from, to) == /\ archive[j].at = from
                         /\ archive' = [archive EXCEPT ![j].at = to]
                         /\ UNCHANGED <<rows, work, past, faults>>

\* exportArchive locks rows, gives them to the sink and then marks them; if the sink fails or the process dies
\* before the commit the rows stay unexported, whether the sink has them or not.
Export(j) == Retained(j, "kept", "exporting") /\ UNCHANGED sink
WriteToSink(j) == /\ archive[j].at = "exporting" /\ j \notin sink
                  /\ sink' = sink \cup {j}
                  /\ UNCHANGED <<rows, archive, work, past, faults>>
Exported(j) == j \in sink /\ Retained(j, "exporting", "exported") /\ UNCHANGED sink
ExportFails(j) == Retained(j, "exporting", "kept") /\ UNCHANGED sink

\* Mutant: rows go whether or not they were exported.
PruneUnexported(j) == \E from \in {"kept", "exported"} : Retained(j, from, "pruned") /\ UNCHANGED sink

\* pruneArchive deletes exported rows that nobody has locked.
PruneArchive(j) == Retained(j, "exported", "pruned") /\ UNCHANGED sink
-----------------------------------------------------------------------------
Proceed(w) == Settle(w) \/ Ack(w) \/ Fail(w)

Next == \/ \E S \in SUBSET Job : RetryDead(S)
        \/ \E j \in Job : \/ Enqueue(j) \/ Lapse(j) \/ Discard(j) \/ PurgeDead(j) \/ Cancel(j)
                          \/ Export(j) \/ WriteToSink(j) \/ Exported(j) \/ ExportFails(j) \/ PruneArchive(j)
        \/ \E w \in Worker : \/ \E j \in Job : Claim(w, j)
                             \/ Renew(w) \/ Command(w) \/ Proceed(w) \/ Crash(w)

Spec == Init /\ [][Next]_vars

\* Workers poll, handlers settle, and the lease of a worker that is gone runs out.
Fairness == /\ \A w \in Worker : WF_vars(Proceed(w))
            /\ \A j \in Job : WF_vars(\E w \in Worker : Claim(w, j)) /\ WF_vars(Lapse(j))
FairSpec == Spec /\ Fairness
-----------------------------------------------------------------------------
(* Properties *)

\* The lease and the attempt rows tell the same story: a leased job has one open attempt, the last one, made by the
\* claim whose token it bears and numbered by its try counter; a job without a lease has none (worker.ts).
AttemptsAgree == \A j \in Job :
    IF token[j] = 0 THEN Open(j) = {}
    ELSE /\ state[j] = "waiting"
         /\ Open(j) = {Len(attempts[j])}
         /\ Last(attempts[j]).claim = token[j] /\ Last(attempts[j]).no = tries[j]

\* A job is archived as completed only when the claim its log calls ok succeeded, and that claim is its last:
\* a worker that lost its lease never acknowledges another worker's try.
CompletedMeansOk == \A j \in Job : archive[j].outcome = "completed" =>
    /\ Last(archive[j].log).outcome = "ok"
    /\ Last(archive[j].log).claim \in succeeded[j]
    /\ \A i \in 1..(Len(archive[j].log) - 1) : archive[j].log[i].outcome # "ok"

\* "A worker whose lease ran out cannot commit a checkpoint" (README): a command commits only under the claim
\* that holds the job now.
NoStaleCommit == [][\A j \in Job : committed'[j] \subseteq committed[j] \cup {token[j]}]_vars

\* It holds until an operator retries the job, for then its tries have the numbers of its claims.
FenceHolds == [][\A j \in Job : tries[j] = claims[j] => committed'[j] \subseteq committed[j] \cup {token[j]}]_vars

\* "An unexported row is never deleted while a sink exists" (outbox.ts), also when exports fail half way.
SinkHasIt == \A j \in Job : archive[j].at = "pruned" => j \in sink

\* Crashes, stalls and stops are finitely many: then every job completes, is taken by an operator, or dies.
EveryJobSettles == \A j \in Job : state[j] = "waiting" ~> state[j] # "waiting"
=============================================================================
