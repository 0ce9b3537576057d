--------------------------- MODULE JournalJobsProofs ---------------------------
(***************************************************************************)
(* The outbox keeps its books for any number of jobs and workers, any      *)
(* retry policy, any number of operators' retries and any faults.          *)
(*                                                                         *)
(* A job's token is the number of its newest claim or 0 (Counted), a       *)
(* worker's copy never bears a claim that was not given out, nor another   *)
(* worker's (Copies, Distinct), and no attempt in the hot table is ok      *)
(* (Unsettled): so whoever acknowledges or records under the token is the  *)
(* one worker whose attempt is open.                                       *)
(***************************************************************************)
EXTENDS JournalJobs, Worker, SequenceTheorems, TLAPS

\* The tries of a job are some of its claims; its token is the newest one, or none.
Counted == \A j \in Job : tries[j] <= claims[j] /\ token[j] \in {0, claims[j]}

\* A worker's copy of the row: a claim given out, its try number, and whether its handler succeeded.
Copies == \A w \in Worker :
    /\ work[w].job = NoJob <=> work[w].stage = "idle"
    /\ work[w].job # NoJob =>
         /\ work[w].claim # 0 /\ work[w].no <= work[w].claim /\ work[w].claim <= claims[work[w].job]
         /\ work[w].stage = "done" => work[w].claim \in succeeded[work[w].job]

\* No two workers have the same claim of a job.
Distinct == \A v, w \in Worker :
    v # w /\ work[v].job = work[w].job /\ work[v].job # NoJob => work[v].claim # work[w].claim

\* A job whose attempt is ok has left the table.
Unsettled == \A j \in Job : \A i \in 1..Len(attempts[j]) : attempts[j][i].outcome # "ok"

\* What is marked as exported is in the sink.
Retention == \A j \in Job : archive[j].at \in {"exported", "pruned"} => j \in sink

Books == Counted /\ Unsettled /\ Retention /\ AttemptsAgree /\ CompletedMeansOk
IndInv == TypeOK /\ Copies /\ Distinct /\ Books
-----------------------------------------------------------------------------
(* The operators *)

Outcome == {"open", "ok", "retry", "dead", "superseded"}

\* closeAttempts: the open rows get the outcome, nothing else changes.
LEMMA ClosedFacts ==
    ASSUME NEW s \in Seq(Attempt), NEW o \in Outcome
    PROVE  /\ Closed(s, o) \in Seq(Attempt) /\ Len(Closed(s, o)) = Len(s)
           /\ \A i \in 1..Len(s) :
                /\ Closed(s, o)[i].claim = s[i].claim /\ Closed(s, o)[i].no = s[i].no
                /\ Closed(s, o)[i].outcome = IF s[i].outcome = "open" THEN o ELSE s[i].outcome
<1> DEFINE e(i) == IF s[i].outcome = "open" THEN [s[i] EXCEPT !.outcome = o] ELSE s[i]
<1>1. Len(s) \in Nat /\ DOMAIN s = 1..Len(s) /\ \A i \in 1..Len(s) : s[i] \in Attempt
  BY ElementOfSeq, LenProperties
<1>2. ASSUME NEW i \in 1..Len(s)
      PROVE  /\ e(i) \in Attempt /\ e(i).claim = s[i].claim /\ e(i).no = s[i].no
             /\ e(i).outcome = IF s[i].outcome = "open" THEN o ELSE s[i].outcome
  BY <1>1 DEF Attempt, Outcome
<1>3. Closed(s, o) = [i \in 1..Len(s) |-> e(i)]
  BY <1>1 DEF Closed
<1> HIDE DEF e
<1>4. [i \in 1..Len(s) |-> e(i)] \in Seq(Attempt)
  BY <1>1, <1>2, IsASeq
<1>5. Len([i \in 1..Len(s) |-> e(i)]) = Len(s)
  BY <1>1, <1>4, LenProperties
<1> QED
  BY <1>2, <1>3, <1>4, <1>5

\* A job's attempts and what AttemptsAgree says of them.
LEMMA OpenFacts ==
    ASSUME TypeOK, AttemptsAgree, NEW j \in Job
    PROVE  /\ attempts[j] \in Seq(Attempt) /\ Len(attempts[j]) \in Nat
           /\ token[j] = 0 => \A i \in 1..Len(attempts[j]) : attempts[j][i].outcome # "open"
           /\ token[j] # 0 =>
                /\ state[j] = "waiting" /\ Len(attempts[j]) \in 1..Len(attempts[j])
                /\ \A i \in 1..Len(attempts[j]) : attempts[j][i].outcome = "open" <=> i = Len(attempts[j])
                /\ attempts[j][Len(attempts[j])].claim = token[j]
                /\ attempts[j][Len(attempts[j])].no = tries[j]
<1>1. attempts[j] \in Seq(Attempt) /\ Len(attempts[j]) \in Nat
  BY LenProperties DEF TypeOK
<1>2. CASE token[j] = 0
  BY <1>1, <1>2 DEF AttemptsAgree, Open
<1>3. CASE token[j] # 0
  BY <1>1, <1>3 DEF AttemptsAgree, Open, Last
<1> QED
  BY <1>1, <1>2, <1>3
-----------------------------------------------------------------------------
(* The tables *)

\* A job leaves the table with its attempts: as completed only by the claim that succeeded.
LEMMA MoveFacts ==
    ASSUME TypeOK, Books, NEW j \in Job, state[j] # "none",
           NEW outcome \in {"completed", "dead", "discarded", "cancelled"}, NEW o \in {"ok", "superseded"},
           MoveToArchive(j, outcome, o), UNCHANGED <<claims, succeeded>>,
           outcome = "completed" => o = "ok" /\ token[j] # 0 /\ token[j] \in succeeded[j]
    PROVE  /\ Books'
           /\ state' \in [Job -> {"none", "waiting", "dead"}]
           /\ token' \in [Job -> Nat] /\ live' \in [Job -> BOOLEAN] /\ UNCHANGED <<tries, sink>>
           /\ attempts' \in [Job -> Seq(Attempt)]
           /\ archive' \in [Job -> [at : {"none", "kept", "exporting", "exported", "pruned"},
                                    outcome : {"none", "completed", "dead", "discarded", "cancelled"},
                                    log : Seq(Attempt)]]
           /\ \A i \in Job : archive'[i].at # "none" => state'[i] = "none"
<1> USE DEF Books
<1> DEFINE l == Closed(attempts[j], o)
           row == [at |-> "kept", outcome |-> outcome, log |-> l]
<1>1. /\ state' = [state EXCEPT ![j] = "none"]
      /\ token' = [token EXCEPT ![j] = 0] /\ live' = [live EXCEPT ![j] = FALSE]
      /\ attempts' = [attempts EXCEPT ![j] = <<>>] /\ archive' = [archive EXCEPT ![j] = row]
      /\ UNCHANGED <<tries, sink>>
  BY DEF MoveToArchive, Unlease
<1>2. /\ attempts[j] \in Seq(Attempt) /\ Len(attempts[j]) \in Nat
      /\ token[j] # 0 =>
           /\ Len(attempts[j]) \in 1..Len(attempts[j])
           /\ \A i \in 1..Len(attempts[j]) : attempts[j][i].outcome = "open" <=> i = Len(attempts[j])
           /\ attempts[j][Len(attempts[j])].claim = token[j]
  BY OpenFacts
<1>3. /\ l \in Seq(Attempt) /\ Len(l) = Len(attempts[j])
      /\ \A i \in 1..Len(attempts[j]) :
           /\ l[i].claim = attempts[j][i].claim
           /\ l[i].outcome = IF attempts[j][i].outcome = "open" THEN o ELSE attempts[j][i].outcome
  BY <1>2, ClosedFacts DEF Outcome
<1> HIDE DEF l
<1>4. /\ state' \in [Job -> {"none", "waiting", "dead"}]
      /\ token' \in [Job -> Nat] /\ live' \in [Job -> BOOLEAN]
  BY <1>1 DEF TypeOK
<1>5. attempts' \in [Job -> Seq(Attempt)] /\ attempts'[j] = <<>>
  BY <1>1, EmptySeq DEF TypeOK
<1>6. archive' \in [Job -> [at : {"none", "kept", "exporting", "exported", "pruned"},
                            outcome : {"none", "completed", "dead", "discarded", "cancelled"},
                            log : Seq(Attempt)]]
  BY <1>1, <1>3 DEF TypeOK
<1>7. \A i \in Job : archive'[i].at # "none" => state'[i] = "none"
  BY <1>1 DEF TypeOK
<1>8. Counted'
  BY <1>1 DEF Counted, TypeOK
<1>9. Unsettled'
  BY <1>1, <1>5 DEF Unsettled, TypeOK
<1>10. Retention'
  BY <1>1 DEF Retention, TypeOK
<1>11. AttemptsAgree'
  <2> SUFFICES ASSUME NEW i \in Job
               PROVE  IF token'[i] = 0 THEN Open(i)' = {}
                      ELSE /\ state'[i] = "waiting" /\ Open(i)' = {Len(attempts'[i])}
                           /\ Last(attempts'[i]).claim = token'[i] /\ Last(attempts'[i]).no = tries'[i]
    BY DEF AttemptsAgree
  <2>1. CASE i = j
    BY <1>1, <1>5, <2>1 DEF TypeOK, Open
  <2>2. CASE i # j
    BY <1>1, <2>2 DEF TypeOK, AttemptsAgree, Open
  <2> QED
    BY <2>1, <2>2
<1>12. CompletedMeansOk'
  <2> SUFFICES ASSUME NEW i \in Job, archive'[i].outcome = "completed"
               PROVE  /\ Last(archive'[i].log).outcome = "ok"
                      /\ Last(archive'[i].log).claim \in succeeded[i]
                      /\ \A k \in 1..(Len(archive'[i].log) - 1) : archive'[i].log[k].outcome # "ok"
    BY DEF CompletedMeansOk
  <2>1. CASE i = j
    <3>1. archive'[i].log = l /\ outcome = "completed"
      BY <1>1, <2>1 DEF TypeOK
    <3>2. l[Len(l)].outcome = "ok" /\ l[Len(l)].claim \in succeeded[j]
      BY <1>2, <1>3, <3>1
    <3>3. ASSUME NEW k \in 1..(Len(l) - 1) PROVE l[k].outcome # "ok"
      <4>1. k \in 1..Len(attempts[j]) /\ k # Len(attempts[j])
        BY <1>2, <1>3
      <4> QED
        BY <1>2, <1>3, <3>1, <4>1 DEF Unsettled
    <3> QED
      BY <2>1, <3>1, <3>2, <3>3 DEF Last
  <2>2. CASE i # j
    <3>1. archive'[i] = archive[i]
      BY <1>1, <2>2 DEF TypeOK
    <3> QED
      BY <3>1 DEF CompletedMeansOk
  <2> QED
    BY <2>1, <2>2
<1> QED
  BY <1>1, <1>4, <1>5, <1>6, <1>7, <1>8, <1>9, <1>10, <1>11, <1>12

\* What the steps that leave the books alone need: the same rows, and no success forgotten.
LEMMA SameBooks ==
    ASSUME Books, UNCHANGED <<state, token, tries, attempts, archive, sink, claims>>,
           \A j \in Job : succeeded[j] \subseteq succeeded'[j]
    PROVE  Books'
<1> USE DEF Books
<1>1. Counted' /\ Unsettled' /\ Retention' /\ AttemptsAgree'
  BY DEF Counted, Unsettled, Retention, AttemptsAgree, Open
<1>2. CompletedMeansOk'
  BY DEF CompletedMeansOk
<1> QED
  BY <1>1, <1>2

\* A worker's copy changes to another stage, its handler's success recorded if it has one, or it rests.
LEMMA CopyFacts ==
    ASSUME TypeOK, Copies, Distinct, UNCHANGED claims, NEW w \in Worker,
           \/ Rest(w) /\ UNCHANGED succeeded
           \/ \E s \in {"running", "done", "failing"} :
                /\ work[w].stage # "idle" /\ Stay(w, s)
                /\ succeeded' \in [Job -> SUBSET Nat]
                /\ \A j \in Job : succeeded[j] \subseteq succeeded'[j]
                /\ s = "done" => work[w].claim \in succeeded'[work[w].job]
    PROVE  /\ work' \in [Worker -> [job : Job \cup {NoJob}, claim : Nat, no : Nat,
                                    stage : {"idle", "running", "done", "failing"}]]
           /\ Copies' /\ Distinct'
<1>1. CASE Rest(w) /\ UNCHANGED succeeded
  <2>1. work' \in [Worker -> [job : Job \cup {NoJob}, claim : Nat, no : Nat,
                               stage : {"idle", "running", "done", "failing"}]]
    BY <1>1 DEF Rest, Idle, TypeOK
  <2>2. work'[w] = Idle /\ \A v \in Worker \ {w} : work'[v] = work[v]
    BY <1>1 DEF Rest, TypeOK
  <2>3. Copies'
    BY <1>1, <2>2, JobsAssumption DEF Copies, Idle
  <2>4. Distinct'
    BY <2>2 DEF Distinct, Idle
  <2> QED
    BY <2>1, <2>3, <2>4
<1>2. ASSUME NEW s \in {"running", "done", "failing"}, work[w].stage # "idle", Stay(w, s),
             \A j \in Job : succeeded[j] \subseteq succeeded'[j],
             s = "done" => work[w].claim \in succeeded'[work[w].job]
      PROVE  /\ work' \in [Worker -> [job : Job \cup {NoJob}, claim : Nat, no : Nat,
                                      stage : {"idle", "running", "done", "failing"}]]
             /\ Copies' /\ Distinct'
  <2>1. work' \in [Worker -> [job : Job \cup {NoJob}, claim : Nat, no : Nat,
                               stage : {"idle", "running", "done", "failing"}]]
    <3>1. work[w] \in [job : Job \cup {NoJob}, claim : Nat, no : Nat,
                       stage : {"idle", "running", "done", "failing"}]
      BY DEF TypeOK
    <3>2. [work[w] EXCEPT !.stage = s] \in [job : Job \cup {NoJob}, claim : Nat, no : Nat,
                                            stage : {"idle", "running", "done", "failing"}]
      BY <3>1
    <3>3. work' = [work EXCEPT ![w] = [work[w] EXCEPT !.stage = s]]
      BY <1>2 DEF Stay
    <3> QED
      BY <3>2, <3>3 DEF TypeOK
  <2>2. /\ work'[w].job = work[w].job /\ work'[w].claim = work[w].claim
        /\ work'[w].no = work[w].no /\ work'[w].stage = s
        /\ \A v \in Worker \ {w} : work'[v] = work[v]
    BY <1>2 DEF Stay, TypeOK
  <2>3. \A v \in Worker : work[v].job # NoJob => work[v].job \in Job
    BY DEF TypeOK
  <2>4. Copies'
    <3> SUFFICES ASSUME NEW v \in Worker
                 PROVE  /\ work'[v].job = NoJob <=> work'[v].stage = "idle"
                        /\ work'[v].job # NoJob =>
                             /\ work'[v].claim # 0 /\ work'[v].no <= work'[v].claim
                             /\ work'[v].claim <= claims[work'[v].job]
                             /\ work'[v].stage = "done" => work'[v].claim \in succeeded'[work'[v].job]
      BY DEF Copies
    <3>1. CASE v = w
      BY <1>2, <2>2, <3>1 DEF Copies
    <3>2. CASE v # w
      BY <1>2, <2>2, <2>3, <3>2 DEF Copies
    <3> QED
      BY <3>1, <3>2
  <2>5. Distinct'
    BY <2>2 DEF Distinct
  <2> QED
    BY <2>1, <2>4, <2>5
<1> QED
  BY <1>1, <1>2
-----------------------------------------------------------------------------
(* The steps *)

\* Nothing is enqueued.
LEMMA InitInv == Init => IndInv
<1> SUFFICES ASSUME Init PROVE IndInv
  OBVIOUS
<1>1. TypeOK
  <2>1. <<>> \in Seq(Attempt)
    BY EmptySeq
  <2> QED
    BY <2>1, JobsAssumption DEF Init, TypeOK, Idle, Nowhere
<1>2. Copies /\ Distinct
  BY JobsAssumption DEF Init, Copies, Distinct, Idle
<1>3. Books
  <2>1. Counted /\ Unsettled /\ Retention
    BY JobsAssumption DEF Init, Counted, Unsettled, Retention, Nowhere
  <2>2. AttemptsAgree /\ CompletedMeansOk
    BY DEF Init, AttemptsAgree, CompletedMeansOk, Open, Nowhere
  <2> QED
    BY <2>1, <2>2 DEF Books
<1> QED
  BY <1>1, <1>2, <1>3 DEF IndInv

\* Only the state of a job that is in neither table changes.
LEMMA EnqueueInv == ASSUME IndInv, NEW j \in Job, Enqueue(j) PROVE IndInv'
<1> USE DEF IndInv, Books
<1>1. /\ state[j] = "none" /\ archive[j].at = "none" /\ state' = [state EXCEPT ![j] = "waiting"]
      /\ UNCHANGED <<token, live, tries, attempts, archive, sink, work, claims, committed, succeeded,
                     retries, faults>>
  BY DEF Enqueue, kept, past, Nowhere
<1>2. TypeOK'
  BY <1>1 DEF TypeOK
<1>3. Copies' /\ Distinct'
  BY <1>1 DEF Copies, Distinct
<1>4. Counted' /\ Unsettled' /\ Retention' /\ CompletedMeansOk'
  BY <1>1 DEF Counted, Unsettled, Retention, CompletedMeansOk
<1>5. AttemptsAgree'
  <2>1. \A i \in Job : token[i] # 0 => state'[i] = "waiting"
    BY <1>1 DEF AttemptsAgree, TypeOK
  <2> QED
    BY <1>1, <2>1 DEF AttemptsAgree, Open
<1> QED
  BY <1>2, <1>3, <1>4, <1>5

\* A claim takes a number nobody has and opens the only open attempt.
LEMMA ClaimInv == ASSUME IndInv, NEW w \in Worker, NEW j \in Job, Claim(w, j) PROVE IndInv'
<1> USE DEF IndInv, Books
<1> DEFINE n == claims[j] + 1
           a == [no |-> tries[j] + 1, claim |-> n, outcome |-> "open"]
           l == Closed(attempts[j], "superseded")
           c == [job |-> j, claim |-> n, no |-> tries[j] + 1, stage |-> "running"]
<1>1. /\ work[w] = Idle /\ state[j] = "waiting"
      /\ claims' = [claims EXCEPT ![j] = n] /\ token' = [token EXCEPT ![j] = n]
      /\ live' = [live EXCEPT ![j] = TRUE] /\ tries' = [tries EXCEPT ![j] = tries[j] + 1]
      /\ attempts' = [attempts EXCEPT ![j] = Append(l, a)] /\ work' = [work EXCEPT ![w] = c]
      /\ UNCHANGED <<state, archive, sink, committed, succeeded, retries, faults>>
  BY DEF Claim, kept
<1>2. claims[j] \in Nat /\ tries[j] \in Nat /\ tries[j] <= claims[j] /\ n \in Nat
  BY DEF TypeOK, Counted
<1>3. a \in Attempt
  BY <1>2 DEF Attempt
<1>4. /\ attempts[j] \in Seq(Attempt) /\ Len(attempts[j]) \in Nat
  BY OpenFacts
<1>5. /\ l \in Seq(Attempt) /\ Len(l) = Len(attempts[j])
      /\ \A i \in 1..Len(attempts[j]) :
           l[i].outcome = IF attempts[j][i].outcome = "open" THEN "superseded" ELSE attempts[j][i].outcome
  BY <1>4, ClosedFacts DEF Outcome
<1>6. \A i \in 1..Len(l) : l[i].outcome \notin {"open", "ok"}
  BY <1>5 DEF Unsettled
<1> HIDE DEF l
<1>7. /\ Append(l, a) \in Seq(Attempt) /\ Len(Append(l, a)) = Len(l) + 1 /\ Len(l) \in Nat
      /\ Append(l, a)[Len(l) + 1] = a /\ \A i \in 1..Len(l) : Append(l, a)[i] = l[i]
  BY <1>3, <1>4, <1>5, AppendProperties
<1>8. attempts' \in [Job -> Seq(Attempt)] /\ attempts'[j] = Append(l, a)
  BY <1>1, <1>7 DEF TypeOK
<1>9. TypeOK'
  <2>1. work' \in [Worker -> [job : Job \cup {NoJob}, claim : Nat, no : Nat,
                               stage : {"idle", "running", "done", "failing"}]]
    BY <1>1, <1>2 DEF TypeOK
  <2> QED
    BY <1>1, <1>2, <1>8, <2>1 DEF TypeOK
<1>10. work'[w] = c /\ \A v \in Worker \ {w} : work'[v] = work[v]
  BY <1>1 DEF TypeOK
<1>11. claims'[j] = n /\ \A i \in Job \ {j} : claims'[i] = claims[i]
  BY <1>1 DEF TypeOK
<1>12. Copies'
  <2> SUFFICES ASSUME NEW v \in Worker
               PROVE  /\ work'[v].job = NoJob <=> work'[v].stage = "idle"
                      /\ work'[v].job # NoJob =>
                           /\ work'[v].claim # 0 /\ work'[v].no <= work'[v].claim
                           /\ work'[v].claim <= claims'[work'[v].job]
                           /\ work'[v].stage = "done" => work'[v].claim \in succeeded[work'[v].job]
    BY <1>1 DEF Copies
  <2>1. CASE v = w
    BY <1>2, <1>10, <1>11, <2>1, JobsAssumption
  <2>2. CASE v # w
    <3>1. work[v].job \in Job \cup {NoJob} /\ work[v].claim \in Nat
      BY DEF TypeOK
    <3>2. work[v].job = j => work[v].claim <= claims[j]
      BY JobsAssumption DEF Copies
    <3>3. work[v].job = j => work[v].claim <= claims'[j]
      BY <1>2, <1>11, <3>1, <3>2
    <3> QED
      BY <1>10, <1>11, <2>2, <3>1, <3>3 DEF Copies
  <2> QED
    BY <2>1, <2>2
<1>13. Distinct'
  <2>1. ASSUME NEW v \in Worker, v # w, work[v].job = j PROVE work[v].claim # n
    <3>1. work[v].claim \in Nat /\ work[v].claim <= claims[j]
      BY <2>1, JobsAssumption DEF Copies, TypeOK
    <3> QED
      BY <1>2, <3>1
  <2> QED
    BY <1>10, <2>1 DEF Distinct
<1>14. Counted'
  BY <1>1, <1>2 DEF Counted, TypeOK
<1>15. Unsettled'
  <2>1. \A i \in 1..Len(Append(l, a)) : Append(l, a)[i].outcome # "ok"
    BY <1>6, <1>7
  <2>2. \A i \in Job \ {j} : attempts'[i] = attempts[i]
    BY <1>1 DEF TypeOK
  <2> QED
    BY <1>8, <2>1, <2>2 DEF Unsettled
<1>16. Retention' /\ CompletedMeansOk'
  BY <1>1 DEF Retention, CompletedMeansOk
<1>17. AttemptsAgree'
  <2> SUFFICES ASSUME NEW i \in Job
               PROVE  IF token'[i] = 0 THEN Open(i)' = {}
                      ELSE /\ state'[i] = "waiting" /\ Open(i)' = {Len(attempts'[i])}
                           /\ Last(attempts'[i]).claim = token'[i] /\ Last(attempts'[i]).no = tries'[i]
    BY DEF AttemptsAgree
  <2>1. CASE i = j
    <3>1. Open(j)' = {Len(Append(l, a))}
      BY <1>6, <1>7, <1>8 DEF Open
    <3>2. token'[j] = n /\ tries'[j] = tries[j] + 1 /\ state'[j] = "waiting" /\ n # 0
      BY <1>1, <1>2 DEF TypeOK
    <3> QED
      BY <1>7, <1>8, <2>1, <3>1, <3>2 DEF Last
  <2>2. CASE i # j
    <3>1. attempts'[i] = attempts[i] /\ token'[i] = token[i] /\ tries'[i] = tries[i] /\ state'[i] = state[i]
      BY <1>1, <2>2 DEF TypeOK
    <3> QED
      BY <3>1 DEF AttemptsAgree, Open
  <2> QED
    BY <2>1, <2>2
<1> QED
  BY <1>9, <1>12, <1>13, <1>14, <1>15, <1>16, <1>17

\* Renewals and lapses touch the lease's end only.
LEMMA LeaseInv == ASSUME IndInv, (\E w \in Worker : Renew(w)) \/ (\E j \in Job : Lapse(j)) PROVE IndInv'
<1> USE DEF IndInv
<1> DEFINE OnlyTheEnd ==
             /\ live' \in [Job -> BOOLEAN] /\ faults' \in 0..MaxFaults
             /\ UNCHANGED <<state, token, tries, attempts, archive, sink, work, claims, committed, succeeded, retries>>
<1>1. OnlyTheEnd
  <2>1. ASSUME NEW w \in Worker, Renew(w) PROVE OnlyTheEnd
    BY <2>1 DEF Renew, kept, past, TypeOK
  <2>2. ASSUME NEW j \in Job, Lapse(j) PROVE OnlyTheEnd
    <3>1. faults' \in 0..MaxFaults
      BY <2>2, JobsAssumption DEF Lapse, Faulty, TypeOK
    <3> QED
      BY <2>2, <3>1 DEF Lapse, kept, past, TypeOK
  <2> QED
    BY <2>1, <2>2
<1>2. TypeOK'
  BY <1>1 DEF TypeOK
<1>3. Copies' /\ Distinct'
  BY <1>1 DEF Copies, Distinct
<1>4. Books'
  BY <1>1, SameBooks
<1> QED
  BY <1>2, <1>3, <1>4

\* A command commits, or the try fails.
LEMMA CommandInv == ASSUME IndInv, NEW w \in Worker, Command(w) PROVE IndInv'
<1> USE DEF IndInv
<1>1. /\ work[w].stage = "running" /\ work[w].job \in Job /\ work[w].claim \in Nat
      /\ UNCHANGED <<state, token, live, tries, attempts, archive, sink, claims, succeeded, retries, faults>>
  BY DEF Command, rows, kept, Copies, TypeOK
<1>2. committed' \in [Job -> SUBSET Nat]
  <2>1. CASE Fence(w)
    <3>1. committed' = [committed EXCEPT ![work[w].job] = @ \cup {work[w].claim}]
      BY <2>1 DEF Command
    <3> QED
      BY <1>1, <3>1 DEF TypeOK
  <2>2. CASE ~Fence(w)
    BY <2>2 DEF Command, TypeOK
  <2> QED
    BY <2>1, <2>2
<1>3. UNCHANGED work \/ Stay(w, "failing")
  BY DEF Command
<1>4. /\ work' \in [Worker -> [job : Job \cup {NoJob}, claim : Nat, no : Nat,
                                stage : {"idle", "running", "done", "failing"}]]
      /\ Copies' /\ Distinct'
  <2>1. CASE UNCHANGED work
    BY <1>1, <2>1 DEF TypeOK, Copies, Distinct
  <2>2. CASE Stay(w, "failing")
    BY <1>1, <2>2, CopyFacts DEF TypeOK
  <2> QED
    BY <1>3, <2>1, <2>2
<1>5. TypeOK'
  BY <1>1, <1>2, <1>4 DEF TypeOK
<1>6. Books'
  BY <1>1, SameBooks
<1> QED
  BY <1>4, <1>5, <1>6

\* The handler settles; a success is remembered.
LEMMA SettleInv == ASSUME IndInv, NEW w \in Worker, Settle(w) PROVE IndInv'
<1> USE DEF IndInv
<1> DEFINE j == work[w].job
<1>1. /\ work[w].stage = "running" /\ j \in Job /\ work[w].claim \in Nat
      /\ UNCHANGED <<state, token, live, tries, attempts, archive, sink, claims, committed, retries, faults>>
  BY DEF Settle, rows, kept, Copies, TypeOK
<1>2. \/ Stay(w, "done") /\ succeeded' = [succeeded EXCEPT ![j] = @ \cup {work[w].claim}]
      \/ Stay(w, "failing") /\ UNCHANGED succeeded
  BY DEF Settle
<1> HIDE DEF j
<1>3. /\ succeeded' \in [Job -> SUBSET Nat]
      /\ \A i \in Job : succeeded[i] \subseteq succeeded'[i]
  <2>1. CASE succeeded' = [succeeded EXCEPT ![j] = @ \cup {work[w].claim}]
    BY <1>1, <2>1 DEF TypeOK
  <2>2. CASE UNCHANGED succeeded
    BY <2>2 DEF TypeOK
  <2> QED
    BY <1>2, <2>1, <2>2
<1>4. /\ work' \in [Worker -> [job : Job \cup {NoJob}, claim : Nat, no : Nat,
                                stage : {"idle", "running", "done", "failing"}]]
      /\ Copies' /\ Distinct'
  <2>1. CASE Stay(w, "done") /\ succeeded' = [succeeded EXCEPT ![j] = @ \cup {work[w].claim}]
    <3>1. work[w].claim \in succeeded'[j]
      BY <1>1, <2>1 DEF TypeOK
    <3> QED
      BY <1>1, <1>3, <2>1, <3>1, CopyFacts DEF j
  <2>2. CASE Stay(w, "failing")
    BY <1>1, <1>3, <2>2, CopyFacts
  <2> QED
    BY <1>2, <2>1, <2>2
<1>5. TypeOK'
  BY <1>1, <1>3, <1>4 DEF TypeOK
<1>6. Books'
  BY <1>1, <1>3, SameBooks
<1> QED
  BY <1>4, <1>5, <1>6

\* The ack, with the token or without, answered or not.
LEMMA AckInv == ASSUME IndInv, NEW w \in Worker, Ack(w) PROVE IndInv'
<1> USE DEF IndInv
<1> DEFINE j == work[w].job
<1>1. /\ work[w].stage = "done" /\ j \in Job /\ work[w].claim # 0 /\ work[w].claim \in succeeded[j]
      /\ UNCHANGED <<claims, committed, succeeded, retries>>
  BY DEF Ack, past, Copies, TypeOK
<1>2. Rest(w) \/ Stay(w, "failing")
  BY DEF Ack
<1>3. /\ work' \in [Worker -> [job : Job \cup {NoJob}, claim : Nat, no : Nat,
                                stage : {"idle", "running", "done", "failing"}]]
      /\ Copies' /\ Distinct'
  <2>1. CASE Rest(w)
    BY <1>1, <2>1, CopyFacts
  <2>2. CASE Stay(w, "failing")
    BY <1>1, <2>2, CopyFacts DEF TypeOK
  <2> QED
    BY <1>2, <2>1, <2>2
<1>4. faults' \in 0..MaxFaults
  BY JobsAssumption DEF Ack, Faulty, TypeOK
<1>5. \/ Holds(w) /\ MoveToArchive(j, "completed", "ok")
      \/ UNCHANGED <<state, token, live, tries, attempts, archive, sink>>
  BY DEF Ack, rows, kept
<1>6. CASE Holds(w) /\ MoveToArchive(j, "completed", "ok")
  <2>1. token[j] = work[w].claim /\ state[j] # "none"
    BY <1>6 DEF Holds
  <2>2. /\ Books'
        /\ state' \in [Job -> {"none", "waiting", "dead"}]
        /\ token' \in [Job -> Nat] /\ live' \in [Job -> BOOLEAN] /\ UNCHANGED <<tries, sink>>
        /\ attempts' \in [Job -> Seq(Attempt)]
        /\ archive' \in [Job -> [at : {"none", "kept", "exporting", "exported", "pruned"},
                                  outcome : {"none", "completed", "dead", "discarded", "cancelled"},
                                  log : Seq(Attempt)]]
        /\ \A i \in Job : archive'[i].at # "none" => state'[i] = "none"
    BY <1>1, <1>6, <2>1, MoveFacts
  <2>3. TypeOK'
    BY <1>1, <1>3, <1>4, <2>2 DEF TypeOK
  <2> QED
    BY <1>3, <2>2, <2>3
<1>7. CASE UNCHANGED <<state, token, live, tries, attempts, archive, sink>>
  <2>1. TypeOK'
    BY <1>1, <1>3, <1>4, <1>7 DEF TypeOK
  <2>2. Books'
    BY <1>1, <1>7, SameBooks
  <2> QED
    BY <1>3, <2>1, <2>2
<1> QED
  BY <1>5, <1>6, <1>7

\* The failure is recorded under the token: the attempt closes and the lease ends with it.
LEMMA FailInv == ASSUME IndInv, NEW w \in Worker, Fail(w) PROVE IndInv'
<1> USE DEF IndInv
<1> DEFINE j == work[w].job
<1>1. /\ work[w].stage = "failing" /\ j \in Job /\ Rest(w)
      /\ UNCHANGED <<archive, sink, claims, committed, succeeded, retries>>
  BY DEF Fail, kept, past, Copies, TypeOK
<1>2. /\ work' \in [Worker -> [job : Job \cup {NoJob}, claim : Nat, no : Nat,
                                stage : {"idle", "running", "done", "failing"}]]
      /\ Copies' /\ Distinct'
  BY <1>1, CopyFacts
<1>3. CASE ~Holds(w)
  <2>1. UNCHANGED <<state, token, live, tries, attempts, faults>>
    BY <1>3 DEF Fail, rows
  <2>2. TypeOK'
    BY <1>1, <1>2, <2>1 DEF TypeOK
  <2>3. Books'
    BY <1>1, <2>1, SameBooks
  <2> QED
    BY <1>2, <2>2, <2>3
<1>4. CASE Holds(w)
  <2>1. /\ token' = [token EXCEPT ![j] = 0] /\ live' = [live EXCEPT ![j] = FALSE] /\ UNCHANGED tries
        /\ UNCHANGED faults \/ Faulty
        /\ \E o \in {"retry", "dead"} : attempts' = [attempts EXCEPT ![j] = Closed(attempts[j], o)]
        /\ UNCHANGED state \/ state' = [state EXCEPT ![j] = "dead"]
    BY <1>4 DEF Fail, Unlease
  <2>2. PICK o \in {"retry", "dead"} : attempts' = [attempts EXCEPT ![j] = Closed(attempts[j], o)]
    BY <2>1
  <2>3. state[j] = "waiting"
    BY <1>4 DEF Holds
  <2> DEFINE l == Closed(attempts[j], o)
  <2>4. attempts[j] \in Seq(Attempt) /\ Len(attempts[j]) \in Nat
    BY <1>1, OpenFacts DEF Books
  <2>5. /\ l \in Seq(Attempt) /\ Len(l) = Len(attempts[j])
        /\ \A i \in 1..Len(attempts[j]) :
             l[i].outcome = IF attempts[j][i].outcome = "open" THEN o ELSE attempts[j][i].outcome
    <3>1. o \in Outcome
      BY DEF Outcome
    <3> QED
      BY <2>4, <3>1, ClosedFacts
  <2>6. \A i \in 1..Len(l) : l[i].outcome \notin {"open", "ok"}
    BY <1>1, <2>5 DEF Unsettled, Books
  <2> HIDE DEF l, j
  <2>7. /\ attempts' \in [Job -> Seq(Attempt)] /\ attempts'[j] = l
        /\ \A i \in Job \ {j} : attempts'[i] = attempts[i]
    BY <1>1, <2>2, <2>5 DEF TypeOK, l
  <2>8. /\ token' \in [Job -> Nat] /\ live' \in [Job -> BOOLEAN] /\ token'[j] = 0
        /\ \A i \in Job \ {j} : token'[i] = token[i] /\ state'[i] = state[i]
    BY <1>1, <2>1 DEF TypeOK
  <2>9. state' \in [Job -> {"none", "waiting", "dead"}] /\ \A i \in Job : state[i] = "none" => state'[i] = "none"
    BY <1>1, <2>1, <2>3 DEF TypeOK
  <2>10. faults' \in 0..MaxFaults
    BY <2>1, JobsAssumption DEF TypeOK, Faulty
  <2>11. TypeOK'
    BY <1>1, <1>2, <2>1, <2>7, <2>8, <2>9, <2>10 DEF TypeOK
  <2>12. Counted'
    BY <1>1, <2>1, <2>8 DEF Counted, Books, TypeOK
  <2>13. Unsettled'
    BY <2>6, <2>7 DEF Unsettled, Books
  <2>14. Retention' /\ CompletedMeansOk'
    BY <1>1 DEF Retention, CompletedMeansOk, Books
  <2>15. AttemptsAgree'
    <3> SUFFICES ASSUME NEW i \in Job
                 PROVE  IF token'[i] = 0 THEN Open(i)' = {}
                        ELSE /\ state'[i] = "waiting" /\ Open(i)' = {Len(attempts'[i])}
                             /\ Last(attempts'[i]).claim = token'[i] /\ Last(attempts'[i]).no = tries'[i]
      BY DEF AttemptsAgree
    <3>1. CASE i = j
      BY <2>6, <2>7, <2>8, <3>1 DEF Open
    <3>2. CASE i # j
      BY <2>1, <2>7, <2>8, <3>2 DEF AttemptsAgree, Open, Books
    <3> QED
      BY <3>1, <3>2
  <2> QED
    BY <1>2, <2>11, <2>12, <2>13, <2>14, <2>15 DEF Books
<1> QED
  BY <1>3, <1>4

\* A crash loses the worker's copy.
LEMMA CrashInv == ASSUME IndInv, NEW w \in Worker, Crash(w) PROVE IndInv'
<1> USE DEF IndInv
<1>1. /\ Rest(w) /\ faults' \in 0..MaxFaults
      /\ UNCHANGED <<state, token, live, tries, attempts, archive, sink, claims, committed, succeeded, retries>>
  BY JobsAssumption DEF Crash, Faulty, rows, kept, past, TypeOK
<1>2. /\ work' \in [Worker -> [job : Job \cup {NoJob}, claim : Nat, no : Nat,
                                stage : {"idle", "running", "done", "failing"}]]
      /\ Copies' /\ Distinct'
  BY <1>1, CopyFacts
<1>3. TypeOK'
  BY <1>1, <1>2 DEF TypeOK
<1>4. Books'
  BY <1>1, SameBooks
<1> QED
  BY <1>2, <1>3, <1>4

\* Dead jobs have no lease, so that starting their tries again contradicts no attempt.
LEMMA RequeueInv == ASSUME IndInv, NEW S \in SUBSET Job, RetryDead(S) PROVE IndInv'
<1> USE DEF IndInv
<1>1. /\ retries < MaxRetries /\ retries' = retries + 1 /\ \A j \in S : state[j] = "dead"
      /\ state' = [j \in Job |-> IF j \in S THEN "waiting" ELSE state[j]]
      /\ tries' = [j \in Job |-> IF j \in S THEN 0 ELSE tries[j]]
      /\ token' = [j \in Job |-> IF j \in S THEN 0 ELSE token[j]]
      /\ live' = [j \in Job |-> j \notin S /\ live[j]]
      /\ UNCHANGED <<attempts, archive, sink, work, claims, committed, succeeded, faults>>
  BY DEF RetryDead, Requeue, kept
<1>2. \A j \in S : token[j] = 0
  BY <1>1 DEF AttemptsAgree, Books
<1>3. TypeOK'
  <2>1. retries' \in 0..MaxRetries
    BY <1>1, JobsAssumption DEF TypeOK
  <2>2. live' \in [Job -> BOOLEAN]
    BY <1>1 DEF TypeOK
  <2>3. \A j \in Job : archive[j].at # "none" => state'[j] = "none"
    BY <1>1 DEF TypeOK
  <2> QED
    BY <1>1, <2>1, <2>2, <2>3 DEF TypeOK
<1>4. Copies' /\ Distinct'
  BY <1>1 DEF Copies, Distinct
<1>5. Counted'
  BY <1>1 DEF Counted, Books, TypeOK
<1>6. Unsettled' /\ Retention' /\ CompletedMeansOk'
  BY <1>1 DEF Unsettled, Retention, CompletedMeansOk, Books
<1>7. AttemptsAgree'
  <2>1. \A j \in Job : /\ token'[j] = token[j]
                       /\ token[j] # 0 => state'[j] = state[j] /\ tries'[j] = tries[j]
    BY <1>1, <1>2
  <2>2. ASSUME NEW j \in Job
        PROVE  IF token'[j] = 0 THEN Open(j)' = {}
               ELSE /\ state'[j] = "waiting" /\ Open(j)' = {Len(attempts'[j])}
                    /\ Last(attempts'[j]).claim = token'[j] /\ Last(attempts'[j]).no = tries'[j]
    <3>1. attempts'[j] = attempts[j] /\ Open(j)' = Open(j)
      BY <1>1 DEF Open
    <3>2. IF token[j] = 0 THEN Open(j) = {}
          ELSE /\ state[j] = "waiting" /\ Open(j) = {Len(attempts[j])}
               /\ Last(attempts[j]).claim = token[j] /\ Last(attempts[j]).no = tries[j]
      BY DEF AttemptsAgree, Books
    <3>3. CASE token[j] = 0
      BY <2>1, <3>1, <3>2, <3>3
    <3>4. CASE token[j] # 0
      BY <2>1, <3>1, <3>2, <3>4
    <3> QED
      BY <3>3, <3>4
  <2> QED
    BY <2>2 DEF AttemptsAgree
<1> QED
  BY <1>3, <1>4, <1>5, <1>6, <1>7 DEF Books

\* An operator or the age limit takes a job out of the table.
LEMMA TakeOutInv == ASSUME IndInv, NEW j \in Job, Discard(j) \/ PurgeDead(j) \/ Cancel(j) PROVE IndInv'
<1> USE DEF IndInv
<1>1. /\ state[j] # "none" /\ UNCHANGED <<work, claims, committed, succeeded, retries, faults>>
      /\ \E outcome \in {"dead", "discarded", "cancelled"} : MoveToArchive(j, outcome, "superseded")
  BY DEF Discard, PurgeDead, Cancel, past
<1>2. /\ Books'
      /\ state' \in [Job -> {"none", "waiting", "dead"}]
      /\ token' \in [Job -> Nat] /\ live' \in [Job -> BOOLEAN] /\ UNCHANGED <<tries, sink>>
      /\ attempts' \in [Job -> Seq(Attempt)]
      /\ archive' \in [Job -> [at : {"none", "kept", "exporting", "exported", "pruned"},
                                outcome : {"none", "completed", "dead", "discarded", "cancelled"},
                                log : Seq(Attempt)]]
      /\ \A i \in Job : archive'[i].at # "none" => state'[i] = "none"
  BY <1>1, MoveFacts
<1>3. TypeOK'
  BY <1>1, <1>2 DEF TypeOK
<1>4. Copies' /\ Distinct'
  BY <1>1 DEF Copies, Distinct
<1> QED
  BY <1>2, <1>3, <1>4

\* Retention moves archive rows on, and marks as exported what the sink has.
LEMMA RetentionInv ==
    ASSUME IndInv, NEW j \in Job,
           Export(j) \/ WriteToSink(j) \/ Exported(j) \/ ExportFails(j) \/ PruneArchive(j)
    PROVE  IndInv'
<1> USE DEF IndInv
<1>1. UNCHANGED <<state, token, live, tries, attempts, work, claims, committed, succeeded, retries, faults>>
  BY DEF Export, WriteToSink, Exported, ExportFails, PruneArchive, Retained, rows, past
<1>2. Copies' /\ Distinct' /\ (Counted /\ Unsettled /\ AttemptsAgree)'
  <2>1. Copies' /\ Distinct'
    BY <1>1 DEF Copies, Distinct, Open, Books
  <2>2. (Counted /\ Unsettled /\ AttemptsAgree)'
    BY <1>1 DEF Counted, Unsettled, AttemptsAgree, Open, Books
  <2> QED
    BY <2>1, <2>2
<1>3. CASE WriteToSink(j)
  <2>1. sink' = sink \cup {j} /\ UNCHANGED archive
    BY <1>3 DEF WriteToSink
  <2>2. TypeOK' /\ Retention' /\ CompletedMeansOk'
    <3>1. TypeOK'
      BY <1>1, <2>1 DEF TypeOK
    <3>2. Retention' /\ CompletedMeansOk'
      BY <1>1, <2>1 DEF Retention, CompletedMeansOk, Books
    <3> QED
      BY <3>1, <3>2
  <2> QED
    BY <1>2, <2>2 DEF Books
<1>4. CASE ~WriteToSink(j)
  <2>1. PICK to \in {"kept", "exporting", "exported", "pruned"} :
          /\ archive' = [archive EXCEPT ![j].at = to] /\ archive[j].at # "none" /\ UNCHANGED sink
          /\ to \in {"exported", "pruned"} => j \in sink \/ archive[j].at = "exported"
    BY <1>4 DEF Export, Exported, ExportFails, PruneArchive, Retained
  <2> DEFINE row == [archive[j] EXCEPT !.at = to]
  <2>2. archive' = [archive EXCEPT ![j] = row]
    BY <2>1
  <2>3. /\ row \in [at : {"none", "kept", "exporting", "exported", "pruned"},
                     outcome : {"none", "completed", "dead", "discarded", "cancelled"}, log : Seq(Attempt)]
        /\ row.at = to /\ row.outcome = archive[j].outcome /\ row.log = archive[j].log
    <3>1. archive[j] \in [at : {"none", "kept", "exporting", "exported", "pruned"},
                          outcome : {"none", "completed", "dead", "discarded", "cancelled"},
                          log : Seq(Attempt)]
      BY DEF TypeOK
    <3> QED
      BY <3>1
  <2> HIDE DEF row
  <2>4. archive'[j] = row /\ \A i \in Job \ {j} : archive'[i] = archive[i]
    BY <2>2 DEF TypeOK
  <2>5. TypeOK'
    <3>1. archive' \in [Job -> [at : {"none", "kept", "exporting", "exported", "pruned"},
                                outcome : {"none", "completed", "dead", "discarded", "cancelled"},
                                log : Seq(Attempt)]]
      BY <2>2, <2>3 DEF TypeOK
    <3>2. \A i \in Job : archive'[i].at # "none" => state[i] = "none"
      BY <2>1, <2>4 DEF TypeOK
    <3> QED
      BY <1>1, <2>1, <3>1, <3>2 DEF TypeOK
  <2>6. Retention'
    BY <2>1, <2>3, <2>4 DEF Retention, Books
  <2>7. CompletedMeansOk'
    <3>1. \A i \in Job : archive'[i].outcome = archive[i].outcome /\ archive'[i].log = archive[i].log
      BY <2>3, <2>4
    <3> QED
      BY <1>1, <3>1 DEF CompletedMeansOk, Books
  <2> QED
    BY <1>2, <2>5, <2>6, <2>7 DEF Books
<1> QED
  BY <1>3, <1>4

\* Every step keeps the invariant.
LEMMA NextInv == IndInv /\ [Next]_vars => IndInv'
<1> SUFFICES ASSUME IndInv, [Next]_vars PROVE IndInv'
  OBVIOUS
<1>1. ASSUME NEW S \in SUBSET Job, RetryDead(S) PROVE IndInv'
  BY <1>1, RequeueInv
<1>2. ASSUME NEW j \in Job,
             \/ Enqueue(j) \/ Lapse(j) \/ Discard(j) \/ PurgeDead(j) \/ Cancel(j)
             \/ Export(j) \/ WriteToSink(j) \/ Exported(j) \/ ExportFails(j) \/ PruneArchive(j)
      PROVE  IndInv'
  BY <1>2, EnqueueInv, LeaseInv, TakeOutInv, RetentionInv
<1>3. ASSUME NEW w \in Worker,
             (\E j \in Job : Claim(w, j)) \/ Renew(w) \/ Command(w) \/ Proceed(w) \/ Crash(w)
      PROVE  IndInv'
  BY <1>3, ClaimInv, LeaseInv, CommandInv, SettleInv, AckInv, FailInv, CrashInv DEF Proceed
<1>4. CASE UNCHANGED vars
  <2>1. TypeOK' /\ Copies' /\ Distinct'
    BY <1>4 DEF vars, IndInv, TypeOK, Copies, Distinct
  <2>2. Books'
    BY <1>4, SameBooks DEF vars, IndInv
  <2> QED
    BY <2>1, <2>2 DEF IndInv
<1> QED
  BY <1>1, <1>2, <1>3, <1>4 DEF Next
-----------------------------------------------------------------------------
\* The books of the outbox balance, for any number of jobs, workers, retries and faults.
THEOREM Invariance == Spec => []IndInv
<1>1. Init => IndInv
  BY InitInv
<1>2. IndInv /\ [Next]_vars => IndInv'
  BY NextInv
<1> QED
  BY <1>1, <1>2, PTL DEF Spec

\* The tables keep their types, and a job is never in the hot table and in the archive at once.
THEOREM Typing == Spec => []TypeOK
<1>1. IndInv => TypeOK
  BY DEF IndInv
<1> QED
  BY <1>1, Invariance, PTL

\* The lease and the attempt rows tell the same story (claimOne, ack, recordFailure).
THEOREM LeaseAndAttempts == Spec => []AttemptsAgree
<1>1. IndInv => AttemptsAgree
  BY DEF IndInv, Books
<1> QED
  BY <1>1, Invariance, PTL

\* A job is archived as completed only by the claim that succeeded (ack).
THEOREM CompletedByItsClaim == Spec => []CompletedMeansOk
<1>1. IndInv => CompletedMeansOk
  BY DEF IndInv, Books
<1> QED
  BY <1>1, Invariance, PTL

\* No archive row is pruned that the sink was not given (exportArchive, pruneArchive).
THEOREM PrunedIsExported == Spec => []SinkHasIt
<1>1. IndInv => SinkHasIt
  BY DEF IndInv, Books, Retention, SinkHasIt
<1> QED
  BY <1>1, Invariance, PTL

\* At most one worker holds a job's lease, however many have lost it (claimOne).
OneHolder == \A v, w \in Worker : Holds(v) /\ Holds(w) /\ work[v].job = work[w].job => v = w

\* At most one worker at a time can acknowledge a job or record its failure.
THEOREM LeaseIsExclusive == Spec => []OneHolder
<1>1. IndInv => OneHolder
  BY DEF IndInv, Distinct, OneHolder, Holds
<1> QED
  BY <1>1, Invariance, PTL

\* Until an operator retries the job, a command commits only under the claim that holds it (attemptOn): the
\* fence compares try numbers, which are the numbers of the claims just so long.
THEOREM CommandsAreFenced == Spec => FenceHolds
<1> DEFINE Fenced == \A j \in Job : tries[j] = claims[j] => committed'[j] \subseteq committed[j] \cup {token[j]}
<1>1. IndInv /\ [Next]_vars => [Fenced]_vars
  <2> SUFFICES ASSUME IndInv, Next, NEW j \in Job, tries[j] = claims[j]
               PROVE  committed'[j] \subseteq committed[j] \cup {token[j]}
    OBVIOUS
  <2>1. ASSUME NEW w \in Worker, Command(w), Fence(w)
        PROVE  committed'[j] \subseteq committed[j] \cup {token[j]}
    <3> DEFINE k == work[w].job
    <3>1. committed' = [committed EXCEPT ![k] = @ \cup {work[w].claim}] /\ k \in Job
      BY <2>1 DEF Command, IndInv, Copies, TypeOK
    <3>2. CASE k # j
      BY <3>1, <3>2 DEF IndInv, TypeOK
    <3>3. CASE k = j
      <4>1. PICK i \in 1..Len(attempts[j]) : attempts[j][i].outcome = "open" /\ attempts[j][i].no = work[w].no
        BY <2>1, <3>3 DEF Fence, Open
      <4>2. token[j] # 0 /\ work[w].no = tries[j]
        BY <4>1, OpenFacts DEF IndInv, Books
      <4>3. token[j] = claims[j]
        BY <4>2 DEF IndInv, Books, Counted
      <4>4. work[w].no <= work[w].claim /\ work[w].claim <= claims[j]
        BY <3>1, <3>3, JobsAssumption DEF IndInv, Copies
      <4>5. work[w].claim = token[j]
        BY <4>2, <4>3, <4>4 DEF IndInv, TypeOK
      <4> QED
        BY <3>1, <3>3, <4>5 DEF IndInv, TypeOK
    <3> QED
      BY <3>2, <3>3
  <2>2. ASSUME NEW w \in Worker, Command(w), ~Fence(w) PROVE UNCHANGED committed
    BY <2>2 DEF Command
  <2>3. (~\E w \in Worker : Command(w)) => UNCHANGED committed
    <3>1. ASSUME NEW S \in SUBSET Job, RetryDead(S) PROVE UNCHANGED committed
      BY <3>1 DEF RetryDead, Requeue
    <3>2. ASSUME NEW i \in Job,
                 \/ Enqueue(i) \/ Lapse(i) \/ Discard(i) \/ PurgeDead(i) \/ Cancel(i)
                 \/ Export(i) \/ WriteToSink(i) \/ Exported(i) \/ ExportFails(i) \/ PruneArchive(i)
          PROVE  UNCHANGED committed
      BY <3>2 DEF Enqueue, Lapse, Discard, PurgeDead, Cancel, Export, WriteToSink, Exported, ExportFails,
                  PruneArchive, Retained, past
    <3>3. ASSUME NEW w \in Worker, (\E i \in Job : Claim(w, i)) \/ Renew(w) \/ Proceed(w) \/ Crash(w)
          PROVE  UNCHANGED committed
      BY <3>3 DEF Claim, Renew, Proceed, Settle, Ack, Fail, Crash, past
    <3> QED
      BY <3>1, <3>2, <3>3 DEF Next
  <2> QED
    BY <2>1, <2>2, <2>3
<1> QED
  BY <1>1, Invariance, PTL DEF Spec, FenceHolds
-----------------------------------------------------------------------------
(***************************************************************************)
(* The loop that drains these jobs (Worker), for any number of starts,     *)
(* stops and commits.                                                      *)
(*                                                                         *)
(* At most one start() or stop() is awaiting (OneCall), and what the       *)
(* worker's variables hold is the one run that is up (OwnRun), so a stop() *)
(* waits for the loop, the sweeper and the dispatches there are (Closings) *)
(* and leaves nothing behind (AtRest).  Seen says what a pass knows: work  *)
(* that came after its look has set `woken`, or its wake-up is on its way. *)
(***************************************************************************)

Active(r) == pc[r] \notin {"none", "done"}
Sweeps(r) == sweeper[r] \notin {"none", "done"}
Opening(r) == starting[r] \in {"listening", "registered"}
Closing(s) == stopping[s].at \notin {"idle", "done"}
Still == \A r \in Run : ~Active(r) /\ ~Sweeps(r)
Quiet == Still /\ dispatched = arrived /\ listeners = {}

\* A wake-up is on its way.
Coming == waking > 0 \/ \E q \in listeners : channel[q] > 0

\* Nothing is counted that no commit made.
FromCommits == /\ jobs <= commits /\ lag <= commits /\ waking <= commits
               /\ \A r \in Run : channel[r] <= commits

\* No two calls are under way; a start() is while the worker runs, a stop() while it does not.
OneCall == /\ \A r \in Run : Opening(r) => /\ running /\ \A q \in Run \ {r} : ~Opening(q)
                                           /\ \A s \in Stop : ~Closing(s)
           /\ \A s \in Stop : Closing(s) => ~running /\ \A t \in Stop \ {s} : ~Closing(t)

\* Whose loop, sweeper and sleep the worker's variables hold.
OwnRun == \A r \in Run : /\ Active(r) => loop = r
                         /\ Sweeps(r) => sweeping = r
                         /\ endSleep = r <=> pc[r] = "asleep"
                         /\ endSweepSleep = r => sweeper[r] = "asleep"
                         /\ pc[r] = "asleep" => ~woken /\ running
                         /\ running /\ Active(r) => r \in listeners /\ ~aborted[r]

\* A start() finds nothing running, and nobody listens but the listener it registers.
Openings == \A r \in Run : /\ starting[r] = "listening" => Quiet /\ unlisten = None
                           /\ starting[r] = "registered" => Still /\ listeners = {r}
Listening == (\A r \in Run : ~Opening(r)) => listeners \subseteq {unlisten}

\* What a stop() awaits is all there is, and what it has awaited is over.
Closings == \A s \in Stop :
    /\ stopping[s].at = "unlistening" => stopping[s].on = unlisten
    /\ stopping[s].at \in {"dispatching", "looping", "sweeping"} => listeners = {} /\ unlisten = None
    /\ stopping[s].at = "dispatching" => stopping[s].on = arrived
    /\ stopping[s].at \in {"looping", "sweeping"} => dispatched = arrived
    /\ stopping[s].at = "looping" => stopping[s].on = loop
    /\ stopping[s].at = "sweeping" => (\A r \in Run : ~Active(r)) /\ stopping[s].on = sweeping
AtRest == ~running /\ ~Pending => Quiet /\ unlisten = None

\* A pass that found nothing has seen all the work there is, or will hear of it.
SeenBy(r) ==
    /\ pc[r] \in {"drained", "catching"} /\ ~processed[r] /\ jobs > 0 => woken \/ Coming
    /\ pc[r] = "passed" /\ ~processed[r] /\ ~failed[r] /\ (jobs > 0 \/ lag > 0) => woken \/ Coming
    /\ pc[r] = "asleep" /\ ~failed[r] /\ (jobs > 0 \/ lag > 0) => Coming
Seen == running => \A r \in Run : SeenBy(r)

LoopBooks == WorkerTypeOK /\ FromCommits
LoopCalls == OneCall /\ OwnRun /\ Openings /\ Listening /\ Closings /\ AtRest
LoopInv == LoopBooks /\ LoopCalls /\ Seen

LEMMA LoopBooksInit == ASSUME WorkerInit PROVE LoopBooks
<1>1. jobs \in 0..MaxCommits /\ 0 \in Nat /\ MaxCommits \in Nat
  BY WorkerAssumption DEF WorkerAssumption, WorkerInit
<1>2. /\ commits \in 0..MaxCommits /\ jobs \in 0..MaxCommits /\ lag \in 0..MaxCommits /\ waking \in 0..MaxCommits
      /\ channel \in [Run -> 0..MaxCommits] /\ arrived \in Nat /\ dispatched \in Nat /\ dispatched <= arrived
  BY <1>1 DEF WorkerInit
<1>3. /\ running \in BOOLEAN /\ woken \in BOOLEAN
      /\ processed \in [Run -> BOOLEAN] /\ aborted \in [Run -> BOOLEAN] /\ failed \in [Run -> BOOLEAN]
  BY Zenon DEF WorkerInit
<1>4. stopping \in [Stop -> [at : {"idle", "unlistening", "dispatching", "looping", "sweeping", "done"}, on : Nat]]
  BY DEF WorkerInit, None
<1>5. WorkerTypeOK
  BY <1>2, <1>3, <1>4 DEF WorkerInit, WorkerTypeOK
<1>6. FromCommits
  BY DEF WorkerInit, FromCommits
<1> QED
  BY <1>5, <1>6 DEF LoopBooks

\* The head of the loop: the next pass, or the end.
LEMMA HeadEffects ==
    ASSUME LoopBooks, NEW r \in Run, LoopHead(r)
    PROVE  /\ pc' = [pc EXCEPT ![r] = IF running THEN "draining" ELSE "done"]
           /\ woken' \in BOOLEAN /\ (running => ~woken') /\ (~running => woken' = woken)
           /\ processed' \in [Run -> BOOLEAN] /\ failed' \in [Run -> BOOLEAN] /\ aborted' \in [Run -> BOOLEAN]
           /\ running => ~aborted'[r]
           /\ \A q \in Run \ {r} : aborted'[q] = aborted[q] /\ failed'[q] = failed[q] /\ processed'[q] = processed[q]
<1>1. /\ processed \in [Run -> BOOLEAN] /\ failed \in [Run -> BOOLEAN] /\ aborted \in [Run -> BOOLEAN]
      /\ running \in BOOLEAN /\ woken \in BOOLEAN
  BY DEF LoopBooks, WorkerTypeOK
<1>2. pc' = [pc EXCEPT ![r] = IF running THEN "draining" ELSE "done"]
  BY DEF LoopHead
<1>3. woken' \in BOOLEAN /\ (running => ~woken') /\ (~running => woken' = woken)
  BY <1>1, Zenon DEF LoopHead
<1>4. processed' = [processed EXCEPT ![r] = FALSE] /\ failed' = [failed EXCEPT ![r] = FALSE]
      /\ aborted' = [aborted EXCEPT ![r] = ~running]
  BY DEF LoopHead
<1>5. processed' \in [Run -> BOOLEAN] /\ failed' \in [Run -> BOOLEAN] /\ aborted' \in [Run -> BOOLEAN]
  BY <1>1, <1>4, Zenon
<1>6. running => ~aborted'[r]
  BY <1>1, <1>4, Zenon
<1>7. \A q \in Run \ {r} : aborted'[q] = aborted[q] /\ failed'[q] = failed[q] /\ processed'[q] = processed[q]
  BY <1>1, <1>4
<1> QED
  BY <1>2, <1>3, <1>5, <1>6, <1>7

\* wake: the loop's sleep ends.
LEMMA WakeEffects ==
    ASSUME LoopBooks, Wake
    PROVE  /\ woken' \in BOOLEAN /\ endSleep' \in Run \cup {None}
           /\ \/ /\ running /\ woken' /\ endSleep' = None
                 /\ \/ endSleep = None /\ pc' = pc
                    \/ endSleep \in Run /\ pc' = [pc EXCEPT ![endSleep] = "resuming"]
              \/ ~running /\ UNCHANGED <<woken, endSleep, pc>>
<1>1. endSleep \in Run \cup {None} /\ woken \in BOOLEAN
  BY DEF LoopBooks, WorkerTypeOK
<1>2. CASE running
  BY <1>1, <1>2 DEF Wake, Roused
<1>3. CASE ~running
  BY <1>1, <1>3 DEF Wake
<1> QED
  BY <1>2, <1>3

\* drain: a pass that did nothing and was not aborted found no due job.
LEMMA DrainEffects ==
    ASSUME LoopBooks, NEW r \in Run, Drain(r)
    PROVE  /\ jobs' \in 0..MaxCommits /\ jobs' <= jobs
           /\ processed' \in [Run -> BOOLEAN] /\ \A q \in Run \ {r} : processed'[q] = processed[q]
           /\ ~processed'[r] /\ ~aborted[r] => jobs' = 0
<1> DEFINE Takes == IF jobs = 0 THEN {0} ELSE IF aborted[r] THEN 0..jobs ELSE 1..jobs
<1>1. PICK n \in Takes : jobs' = jobs - n /\ processed' = [processed EXCEPT ![r] = n > 0]
  BY Zenon DEF Drain
<1>2. jobs \in Nat /\ MaxCommits \in Nat /\ jobs <= MaxCommits /\ processed \in [Run -> BOOLEAN]
  BY WorkerAssumption DEF LoopBooks, WorkerTypeOK, WorkerAssumption
<1>3. n \in 0..jobs
  BY <1>2
<1>4. n = 0 /\ ~aborted[r] => jobs = 0
  BY <1>2
<1>5. /\ processed' \in [Run -> BOOLEAN] /\ \A q \in Run \ {r} : processed'[q] = processed[q]
      /\ ~processed'[r] => ~(n > 0)
  <2>1. (n > 0) = TRUE \/ (n > 0) = FALSE
    OBVIOUS
  <2>2. CASE (n > 0) = TRUE
    <3>1. processed' = [processed EXCEPT ![r] = TRUE]
      BY <1>1, <2>2, Zenon
    <3> QED
      BY <1>2, <3>1, Zenon
  <2>3. CASE (n > 0) = FALSE
    <3>1. processed' = [processed EXCEPT ![r] = FALSE]
      BY <1>1, <2>3, Zenon
    <3> QED
      BY <1>2, <2>3, <3>1, Zenon
  <2> QED
    BY <2>1, <2>2, <2>3
<1> QED
  BY <1>1, <1>2, <1>3, <1>4, <1>5

\* catchUp: a pass that did nothing found no event either.
LEMMA CatchUpEffects ==
    ASSUME LoopBooks, NEW r \in Run, CatchUp(r)
    PROVE  /\ lag' \in 0..MaxCommits /\ lag' <= lag
           /\ processed' \in [Run -> BOOLEAN] /\ \A q \in Run \ {r} : processed'[q] = processed[q]
           /\ ~processed'[r] => lag' = 0 /\ ~processed[r]
<1> DEFINE Takes == IF lag = 0 THEN {0} ELSE 1..lag
<1>1. PICK n \in Takes : lag' = lag - n /\ processed' = [processed EXCEPT ![r] = @ \/ n > 0]
  BY Zenon DEF CatchUp
<1>2. lag \in Nat /\ MaxCommits \in Nat /\ lag <= MaxCommits /\ processed \in [Run -> BOOLEAN]
  BY WorkerAssumption DEF LoopBooks, WorkerTypeOK, WorkerAssumption
<1>3. n \in 0..lag /\ (n = 0 => lag = 0)
  BY <1>2
<1>5. /\ processed' \in [Run -> BOOLEAN] /\ \A q \in Run \ {r} : processed'[q] = processed[q]
      /\ ~processed'[r] => ~(n > 0) /\ ~processed[r]
  BY <1>1, <1>2, Zenon
<1> QED
  BY <1>1, <1>2, <1>3, <1>5

\* Every step keeps the types, and no count passes the number of commits.
LEMMA LoopBooksStep == ASSUME LoopBooks, [WorkerNext]_workerVars PROVE LoopBooks'
<1> USE DEF LoopBooks, WorkerTypeOK, FromCommits, backlog, sleeps, passing, wires, calls
<1>0. /\ Run \subseteq Nat /\ Stop \subseteq Nat /\ None = 0 /\ None \in Nat
      /\ MaxStarts \in Nat /\ MaxStops \in Nat /\ MaxCommits \in Nat
  BY WorkerAssumption DEF Run, Stop, None, WorkerAssumption
<1> USE <1>0
<1>1. ASSUME NEW here \in BOOLEAN, Commit(here) PROVE LoopBooks'
  BY <1>1 DEF Commit
<1>2. CASE WakeAll
  BY <1>2, WakeEffects DEF WakeAll
<1>3. CASE Dispatch
  BY <1>3 DEF Dispatch
<1>4. ASSUME NEW r \in Run, Notified(r) PROVE LoopBooks'
  <2>1. /\ channel' = [channel EXCEPT ![r] = @ - 1] /\ channel[r] > 0 /\ arrived' = arrived + 1
        /\ UNCHANGED <<backlog, running, sweeper, endSweepSleep, passing, listeners, dispatched, calls>>
    BY <1>4 DEF Notified
  <2>2. woken' \in BOOLEAN /\ endSleep' \in Run \cup {None}
    BY <1>4, WakeEffects DEF Notified
  <2>3. pc' \in [Run -> {"none", "draining", "drained", "catching", "passed", "asleep", "resuming", "done"}]
    BY <1>4, WakeEffects DEF Notified
  <2>4. channel' \in [Run -> 0..MaxCommits] /\ \A q \in Run : channel'[q] <= commits
    BY <2>1
  <2> QED
    BY <2>1, <2>2, <2>3, <2>4
<1>5. ASSUME NEW r \in Run, Drain(r) PROVE LoopBooks'
  <2>1. jobs' \in 0..MaxCommits /\ jobs' <= jobs /\ processed' \in [Run -> BOOLEAN]
    BY <1>5, DrainEffects
  <2>2. /\ pc' = [pc EXCEPT ![r] = "drained"]
        /\ UNCHANGED <<commits, lag, waking, running, woken, sweeper, sleeps, aborted, failed, wires, calls>>
    BY <1>5 DEF Drain
  <2> QED
    BY <2>1, <2>2
<1>6. ASSUME NEW r \in Run, DrainFails(r) \/ Drained(r) \/ CatchUpFails(r) PROVE LoopBooks'
  <2>1. /\ pc' \in [Run -> {"none", "draining", "drained", "catching", "passed", "asleep", "resuming", "done"}]
        /\ UNCHANGED <<backlog, running, woken, sweeper, sleeps, processed, aborted, wires, calls>>
    BY <1>6 DEF DrainFails, Drained, CatchUpFails
  <2>2. failed' \in [Run -> BOOLEAN]
    BY <1>6, Zenon DEF DrainFails, Drained, CatchUpFails
  <2> QED
    BY <2>1, <2>2
<1>7. ASSUME NEW r \in Run, CatchUp(r) PROVE LoopBooks'
  <2>1. lag' \in 0..MaxCommits /\ lag' <= lag /\ processed' \in [Run -> BOOLEAN]
    BY <1>7, CatchUpEffects
  <2>2. /\ pc' = [pc EXCEPT ![r] = "passed"]
        /\ UNCHANGED <<commits, jobs, waking, running, woken, sweeper, sleeps, aborted, failed, wires, calls>>
    BY <1>7 DEF CatchUp
  <2> QED
    BY <2>1, <2>2
<1>8. ASSUME NEW r \in Run, Passed(r) PROVE LoopBooks'
  <2>1. UNCHANGED <<backlog, running, sweeper, endSweepSleep, wires, calls>>
    BY <1>8 DEF Passed
  <2>2. CASE pc' = [pc EXCEPT ![r] = "asleep"] /\ endSleep' = r /\ UNCHANGED <<woken, passing>>
    BY <2>1, <2>2
  <2>3. CASE LoopHead(r) /\ UNCHANGED endSleep
    <3>1. /\ pc' = [pc EXCEPT ![r] = IF running THEN "draining" ELSE "done"] /\ woken' \in BOOLEAN
          /\ processed' \in [Run -> BOOLEAN] /\ failed' \in [Run -> BOOLEAN] /\ aborted' \in [Run -> BOOLEAN]
      BY <2>3, HeadEffects
    <3> QED
      BY <2>1, <2>3, <3>1
  <2> QED
    BY <1>8, <2>2, <2>3, Zenon DEF Passed
<1>9. ASSUME NEW r \in Run, Poll(r) PROVE LoopBooks'
  BY <1>9 DEF Poll
<1>10. ASSUME NEW r \in Run, Resume(r) PROVE LoopBooks'
  <2>1. /\ pc' = [pc EXCEPT ![r] = IF running THEN "draining" ELSE "done"] /\ woken' \in BOOLEAN
        /\ processed' \in [Run -> BOOLEAN] /\ failed' \in [Run -> BOOLEAN] /\ aborted' \in [Run -> BOOLEAN]
    BY <1>10, HeadEffects DEF Resume
  <2> QED
    BY <1>10, <2>1 DEF Resume
<1>11. ASSUME NEW r \in Run, SweepTimer(r) \/ SweepResume(r) \/ SweepEnds(r) PROVE LoopBooks'
  <2>1. /\ sweeper' \in [Run -> {"none", "asleep", "resuming", "sweeping", "done"}] /\ endSweepSleep' \in Run \cup {None}
        /\ UNCHANGED <<backlog, running, woken, pc, endSleep, passing, wires, calls>>
    BY <1>11 DEF SweepTimer, SweepResume, SweepEnds
  <2> QED
    BY <2>1
<1>12. ASSUME NEW r \in Run, CallStart(r) \/ Listen(r) \/ ListenFails(r) PROVE LoopBooks'
  <2>1. CASE CallStart(r)
    BY <2>1 DEF CallStart
  <2>2. CASE Listen(r)
    BY <2>2 DEF Listen
  <2>3. CASE ListenFails(r)
    BY <2>3 DEF ListenFails
  <2> QED
    BY <1>12, <2>1, <2>2, <2>3
<1>13. ASSUME NEW r \in Run, Listened(r) PROVE LoopBooks'
  <2>1. /\ pc' = [pc EXCEPT ![r] = IF running THEN "draining" ELSE "done"] /\ woken' \in BOOLEAN
        /\ processed' \in [Run -> BOOLEAN] /\ failed' \in [Run -> BOOLEAN] /\ aborted' \in [Run -> BOOLEAN]
    BY <1>13, HeadEffects DEF Listened
  <2>2. sweeper' \in [Run -> {"none", "asleep", "resuming", "sweeping", "done"}] /\ endSweepSleep' \in Run \cup {None}
    BY <1>13 DEF Listened
  <2>3. /\ starting' = [starting EXCEPT ![r] = "done"] /\ unlisten' = r /\ loop' = r /\ sweeping' = r
        /\ UNCHANGED <<backlog, running, endSleep, wires, stopping>>
    BY <1>13 DEF Listened
  <2> QED
    BY <2>1, <2>2, <2>3
<1>14. ASSUME NEW s \in Stop, NEW where \in {"unlistening", "dispatching", "looping", "sweeping", "done"},
              NEW what \in Nat, At(s, where, what)
       PROVE  stopping' \in [Stop -> [at : {"idle", "unlistening", "dispatching", "looping", "sweeping", "done"}, on : Nat]]
  BY <1>14 DEF At
<1>15. ASSUME NEW s \in Stop, CallStop(s) PROVE LoopBooks'
  <2>1. pc' \in [Run -> {"none", "draining", "drained", "catching", "passed", "asleep", "resuming", "done"}]
    BY <1>15 DEF CallStop, Roused
  <2>2. sweeper' \in [Run -> {"none", "asleep", "resuming", "sweeping", "done"}]
    BY <1>15 DEF CallStop, Roused
  <2>3. /\ running' = FALSE /\ endSleep' = None /\ endSweepSleep' = None /\ At(s, "unlistening", unlisten)
        /\ UNCHANGED <<backlog, woken, processed, failed, wires, starting, unlisten, loop, sweeping>>
    BY <1>15 DEF CallStop
  <2>4. aborted' \in [Run -> BOOLEAN]
    BY <1>15, Zenon DEF CallStop
  <2>5. unlisten \in Nat
    OBVIOUS
  <2>6. stopping' \in [Stop -> [at : {"idle", "unlistening", "dispatching", "looping", "sweeping", "done"}, on : Nat]]
    BY <1>14, <2>3, <2>5
  <2> QED
    BY <2>1, <2>2, <2>3, <2>4, <2>6
<1>16. ASSUME NEW s \in Stop, Unlistened(s) PROVE LoopBooks'
  <2>1. /\ listeners' = listeners \ {stopping[s].on}
        /\ channel' = [r \in Run |-> IF r = stopping[s].on THEN 0 ELSE channel[r]]
        /\ unlisten' = None /\ At(s, "dispatching", arrived)
        /\ UNCHANGED <<backlog, running, woken, pc, sweeper, sleeps, passing, arrived, dispatched, starting, loop, sweeping>>
    BY <1>16 DEF Unlistened
  <2>2. stopping' \in [Stop -> [at : {"idle", "unlistening", "dispatching", "looping", "sweeping", "done"}, on : Nat]]
    BY <1>14, <2>1
  <2>3. channel' \in [Run -> 0..MaxCommits] /\ \A r \in Run : channel'[r] <= commits
    BY <2>1
  <2> QED
    BY <2>1, <2>2, <2>3
<1>17. ASSUME NEW s \in Stop, Awaited(s) PROVE LoopBooks'
  <2>1. UNCHANGED <<backlog, running, woken, pc, sweeper, sleeps, passing, wires, starting, unlisten, loop, sweeping>>
    BY <1>17 DEF Awaited
  <2>2. loop \in Nat /\ sweeping \in Nat
    OBVIOUS
  <2>3. stopping' \in [Stop -> [at : {"idle", "unlistening", "dispatching", "looping", "sweeping", "done"}, on : Nat]]
    BY <1>14, <1>17, <2>2 DEF Awaited
  <2> QED
    BY <2>1, <2>3
<1>18. CASE UNCHANGED workerVars
  BY <1>18 DEF workerVars
<1> QED
  BY <1>1, <1>2, <1>3, <1>4, <1>5, <1>6, <1>7, <1>8, <1>9, <1>10, <1>11, <1>12, <1>13, <1>15, <1>16, <1>17, <1>18
     DEF WorkerNext

LEMMA CallsInit == ASSUME WorkerInit PROVE LoopCalls
<1>1. Run \subseteq Nat \ {0} /\ None = 0
  BY DEF Run, None
<1> QED
  BY <1>1 DEF WorkerInit, LoopCalls, OneCall, OwnRun, Openings, Listening, Closings, AtRest, Active, Sweeps, Opening, Closing, Still, Quiet

\* No run is number None.
LEMMA NoneIsNoRun == None \notin Run
BY DEF None, Run

\* While a loop is up, no start() is under way, no stop() has seen the loop end, and the worker is not at rest.
LEMMA WhileActive ==
    ASSUME LoopCalls, NEW r \in Run, Active(r)
    PROVE  /\ \A q \in Run : ~Opening(q) /\ (q # r => ~Active(q))
           /\ running \/ Pending
           /\ \A s \in Stop : stopping[s].at # "sweeping"
<1>1. \A q \in Run : ~Opening(q)
  BY DEF LoopCalls, Openings, Quiet, Still, Opening
<1>2. \A q \in Run : q # r => ~Active(q)
  BY DEF LoopCalls, OwnRun
<1>3. running \/ Pending
  BY DEF LoopCalls, AtRest, Quiet, Still
<1>4. \A s \in Stop : stopping[s].at # "sweeping"
  BY DEF LoopCalls, Closings
<1> QED
  BY <1>1, <1>2, <1>3, <1>4

\* A step of the one loop that is up, between two of its awaits.
LEMMA LoopStepKeeps ==
    ASSUME LoopBooks, LoopCalls, NEW r \in Run, Active(r),
           NEW p \in {"draining", "drained", "catching", "passed", "asleep", "resuming", "done"},
           pc' = [pc EXCEPT ![r] = p],
           \/ p = "asleep" /\ running /\ ~woken' /\ endSleep' = r
           \/ p # "asleep" /\ pc[r] = "asleep" /\ endSleep' = None
           \/ p # "asleep" /\ pc[r] # "asleep" /\ endSleep' = endSleep,
           running => ~aborted'[r],
           arrived' = arrived \/ listeners # {},
           UNCHANGED <<running, sweeper, endSweepSleep, starting, stopping, listeners, unlisten, loop, sweeping, dispatched>>
    PROVE  LoopCalls'
<1>1. /\ \A q \in Run : ~Opening(q) /\ (q # r => ~Active(q))
      /\ running \/ Pending
      /\ \A s \in Stop : stopping[s].at # "sweeping"
  BY WhileActive
<1>2. pc'[r] = p /\ \A q \in Run : q # r => pc'[q] = pc[q]
  BY DEF LoopBooks, WorkerTypeOK
<1>3. (\A q \in Run : Opening(q)' <=> Opening(q)) /\ (\A s \in Stop : Closing(s)' <=> Closing(s)) /\ (Pending' <=> Pending)
  BY DEF Opening, Closing, Pending
<1>4. OneCall'
  BY <1>3 DEF LoopCalls, OneCall
<1>5. OwnRun'
  <2> SUFFICES ASSUME NEW q \in Run
               PROVE  (/\ Active(q) => loop = q
                       /\ Sweeps(q) => sweeping = q
                       /\ endSleep = q <=> pc[q] = "asleep"
                       /\ endSweepSleep = q => sweeper[q] = "asleep"
                       /\ pc[q] = "asleep" => ~woken /\ running
                       /\ running /\ Active(q) => q \in listeners /\ ~aborted[q])'
    BY DEF OwnRun
  <2>1. OwnRun
    BY DEF LoopCalls
  <2>2. CASE q = r
    BY <1>2, <2>1, <2>2, NoneIsNoRun DEF OwnRun, Active, Sweeps
  <2>3. CASE q # r
    <3>1. pc'[q] = pc[q] /\ pc[q] \in {"none", "done"}
      BY <1>1, <1>2, <2>3 DEF Active
    <3> QED
      BY <2>1, <2>3, <3>1, NoneIsNoRun DEF OwnRun, Active, Sweeps
  <2> QED
    BY <2>2, <2>3
<1>6. Openings'
  BY <1>1, <1>3 DEF Openings, Opening
<1>7. Listening'
  BY <1>1, <1>3 DEF LoopCalls, Listening
<1>8. Closings'
  BY <1>1 DEF LoopCalls, Closings
<1>9. AtRest'
  BY <1>1, <1>3 DEF AtRest
<1> QED
  BY <1>4, <1>5, <1>6, <1>7, <1>8, <1>9 DEF LoopCalls

\* A step of the sweeper.
LEMMA SweepStepKeeps ==
    ASSUME LoopBooks, LoopCalls, NEW r \in Run, SweepTimer(r) \/ SweepResume(r) \/ SweepEnds(r)
    PROVE  LoopCalls'
<1>0. /\ UNCHANGED <<running, woken, pc, endSleep, aborted, starting, stopping, listeners, unlisten, loop, sweeping, arrived, dispatched>>
      /\ Sweeps(r)
  BY DEF SweepTimer, SweepResume, SweepEnds, passing, wires, calls, sleeps, Sweeps
<1>1. (\A q \in Run : ~Opening(q)) /\ (running \/ Pending)
  BY <1>0 DEF LoopCalls, Openings, AtRest, Quiet, Still, Opening
<1>2. PICK p \in {"asleep", "resuming", "sweeping", "done"} : sweeper' = [sweeper EXCEPT ![r] = p]
  BY DEF SweepTimer, SweepResume, SweepEnds
<1>3. sweeper'[r] = p /\ \A q \in Run : q # r => sweeper'[q] = sweeper[q] /\ ~Sweeps(q)
  BY <1>0, <1>2 DEF LoopBooks, WorkerTypeOK, LoopCalls, OwnRun
<1>4. endSweepSleep' = r => sweeper'[r] = "asleep"
  BY <1>0, <1>2, NoneIsNoRun DEF SweepTimer, SweepResume, SweepEnds, sleeps, LoopBooks, WorkerTypeOK, LoopCalls, OwnRun
<1>5. endSweepSleep' \in {endSweepSleep, None, r}
  BY DEF SweepTimer, SweepResume, SweepEnds, sleeps
<1>6. (\A q \in Run : Opening(q)' <=> Opening(q)) /\ (\A s \in Stop : Closing(s)' <=> Closing(s)) /\ (Pending' <=> Pending)
  BY <1>0 DEF Opening, Closing, Pending
<1>7. OneCall'
  BY <1>0, <1>6 DEF LoopCalls, OneCall
<1>8. OwnRun'
  <2> SUFFICES ASSUME NEW q \in Run
               PROVE  (/\ Active(q) => loop = q
                       /\ Sweeps(q) => sweeping = q
                       /\ endSleep = q <=> pc[q] = "asleep"
                       /\ endSweepSleep = q => sweeper[q] = "asleep"
                       /\ pc[q] = "asleep" => ~woken /\ running
                       /\ running /\ Active(q) => q \in listeners /\ ~aborted[q])'
    BY DEF OwnRun
  <2>1. OwnRun
    BY DEF LoopCalls
  <2>2. CASE q = r
    BY <1>0, <1>3, <1>4, <2>1, <2>2 DEF OwnRun, Active, Sweeps
  <2>3. CASE q # r
    BY <1>0, <1>3, <1>5, <2>1, <2>3, NoneIsNoRun DEF OwnRun, Active, Sweeps
  <2> QED
    BY <2>2, <2>3
<1>9. Openings' /\ AtRest'
  BY <1>0, <1>1, <1>6 DEF Openings, AtRest, Opening
<1>10. Listening'
  BY <1>0, <1>6 DEF LoopCalls, Listening
<1>11. Closings'
  BY <1>0 DEF LoopCalls, Closings, Active
<1> QED
  BY <1>7, <1>8, <1>9, <1>10, <1>11 DEF LoopCalls
\* A step that moves no loop: a commit, a wake-up of nobody, a dispatch.
LEMMA StandingKeeps ==
    ASSUME LoopCalls, woken' = woken \/ endSleep = None,
           arrived' = arrived \/ listeners # {}, dispatched' = dispatched \/ dispatched # arrived,
           UNCHANGED <<pc, endSleep, running, sweeper, endSweepSleep, aborted, starting, stopping, listeners,
                       unlisten, loop, sweeping>>
    PROVE  LoopCalls'
<1>1. (\A q \in Run : Opening(q)' <=> Opening(q)) /\ (\A s \in Stop : Closing(s)' <=> Closing(s)) /\ (Pending' <=> Pending)
  BY DEF Opening, Closing, Pending
<1>2. (\A q \in Run : (Active(q)' <=> Active(q)) /\ (Sweeps(q)' <=> Sweeps(q))) /\ (Still' <=> Still) /\ (Quiet => Quiet')
  BY DEF Active, Sweeps, Still, Quiet
<1>3. OneCall'
  BY <1>1 DEF LoopCalls, OneCall
<1>4. OwnRun'
  BY <1>2, NoneIsNoRun DEF LoopCalls, OwnRun
<1>5. Openings'
  BY <1>2 DEF LoopCalls, Openings
<1>6. Listening'
  BY <1>1 DEF LoopCalls, Listening
<1>7. Closings'
  BY <1>2 DEF LoopCalls, Closings
<1>8. AtRest'
  BY <1>1, <1>2 DEF LoopCalls, AtRest
<1> QED
  BY <1>3, <1>4, <1>5, <1>6, <1>7, <1>8 DEF LoopCalls

\* wake ends the sleep of the loop that is up, if it sleeps.
LEMMA WakeKeeps ==
    ASSUME LoopBooks, LoopCalls, Wake, arrived' = arrived \/ listeners # {},
           UNCHANGED <<running, sweeper, endSweepSleep, aborted, starting, stopping, listeners, unlisten, loop, sweeping, dispatched>>
    PROVE  LoopCalls'
<1>1. CASE running /\ woken' /\ endSleep' = None /\ endSleep = None /\ pc' = pc
  BY <1>1, StandingKeeps
<1>2. CASE running /\ endSleep' = None /\ endSleep \in Run /\ pc' = [pc EXCEPT ![endSleep] = "resuming"]
  <2>1. pc[endSleep] = "asleep" /\ Active(endSleep) /\ ~aborted[endSleep]
    BY <1>2 DEF LoopCalls, OwnRun, Active
  <2> QED
    BY <1>2, <2>1, LoopStepKeeps
<1>3. CASE UNCHANGED <<woken, endSleep, pc>>
  BY <1>3, StandingKeeps
<1> QED
  BY <1>1, <1>2, <1>3, WakeEffects

\* Steps beside the loop: commits, wake-ups and dispatches.
LEMMA WireStepKeeps ==
    ASSUME LoopBooks, LoopCalls,
           \/ \E here \in BOOLEAN : Commit(here)
           \/ WakeAll \/ Dispatch \/ \E r \in Run : Notified(r)
    PROVE  LoopCalls'
<1>1. ASSUME NEW here \in BOOLEAN, Commit(here) PROVE LoopCalls'
  BY <1>1, StandingKeeps DEF Commit, sleeps, passing, calls
<1>2. CASE WakeAll
  BY <1>2, WakeKeeps DEF WakeAll, passing, wires, calls
<1>3. CASE Dispatch
  <2>1. dispatched # arrived
    BY <1>3 DEF Dispatch, LoopBooks, WorkerTypeOK
  <2> QED
    BY <1>3, <2>1, StandingKeeps DEF Dispatch, sleeps, passing, calls
<1>4. ASSUME NEW r \in Run, Notified(r) PROVE LoopCalls'
  BY <1>4, WakeKeeps DEF Notified, passing, calls
<1> QED
  BY <1>1, <1>2, <1>3, <1>4

\* The steps of the loop.
LEMMA PassStepKeeps ==
    ASSUME LoopBooks, LoopCalls, NEW r \in Run,
           \/ Drain(r) \/ DrainFails(r) \/ Drained(r) \/ CatchUp(r) \/ CatchUpFails(r)
           \/ Passed(r) \/ Poll(r) \/ Resume(r)
    PROVE  LoopCalls'
<1>0. running /\ Active(r) => ~aborted[r]
  BY DEF LoopCalls, OwnRun
<1>1. CASE Drain(r) \/ DrainFails(r) \/ Drained(r) \/ CatchUp(r) \/ CatchUpFails(r)
  <2>1. /\ pc[r] \in {"draining", "drained", "catching"} /\ aborted' = aborted
        /\ UNCHANGED <<running, sweeper, sleeps, wires, calls>>
        /\ \E p \in {"drained", "catching", "passed"} : pc' = [pc EXCEPT ![r] = p]
    <3>1. CASE Drain(r) \/ CatchUp(r)
      BY <3>1 DEF Drain, CatchUp
    <3>2. CASE DrainFails(r) \/ Drained(r) \/ CatchUpFails(r)
      BY <3>2 DEF DrainFails, Drained, CatchUpFails, passing
    <3> QED
      BY <1>1, <3>1, <3>2
  <2>2. PICK p \in {"drained", "catching", "passed"} : pc' = [pc EXCEPT ![r] = p]
    BY <2>1
  <2> QED
    BY <1>0, <2>1, <2>2, LoopStepKeeps DEF Active, sleeps, wires, calls
<1>2. CASE Passed(r)
  <2>1. pc[r] = "passed" /\ UNCHANGED <<running, sweeper, endSweepSleep, wires, calls>>
    BY <1>2 DEF Passed
  <2>2. CASE running /\ ~woken /\ pc' = [pc EXCEPT ![r] = "asleep"] /\ endSleep' = r /\ UNCHANGED <<woken, passing>>
    BY <1>0, <2>1, <2>2, LoopStepKeeps DEF Active, passing, wires, calls
  <2>3. CASE LoopHead(r) /\ UNCHANGED endSleep
    <3>1. pc' = [pc EXCEPT ![r] = IF running THEN "draining" ELSE "done"] /\ (running => ~aborted'[r])
      BY <2>3, HeadEffects
    <3>2. PICK p \in {"draining", "done"} : pc' = [pc EXCEPT ![r] = p]
      BY <3>1
    <3> QED
      BY <2>1, <2>3, <3>1, <3>2, LoopStepKeeps DEF Active, wires, calls
  <2> QED
    BY <1>2, <2>2, <2>3, Zenon DEF Passed
<1>3. CASE Poll(r)
  BY <1>0, <1>3, LoopStepKeeps DEF Poll, Active, passing, wires, calls
<1>4. CASE Resume(r)
  <2>1. pc' = [pc EXCEPT ![r] = IF running THEN "draining" ELSE "done"] /\ (running => ~aborted'[r])
    BY <1>4, HeadEffects DEF Resume
  <2>2. PICK p \in {"draining", "done"} : pc' = [pc EXCEPT ![r] = p]
    BY <2>1
  <2> QED
    BY <1>4, <2>1, <2>2, LoopStepKeeps DEF Resume, Active, sleeps, wires, calls
<1> QED
  BY <1>1, <1>2, <1>3, <1>4
\* start() is called while nothing runs.
LEMMA CallStartKeeps == ASSUME ~Overlap, LoopBooks, LoopCalls, NEW r \in Run, CallStart(r) PROVE LoopCalls'
<1>1. /\ ~running /\ ~Pending /\ running' /\ starting' = [starting EXCEPT ![r] = "listening"]
      /\ UNCHANGED <<woken, pc, sweeper, endSleep, endSweepSleep, aborted, arrived, dispatched, listeners, stopping, unlisten, loop, sweeping>>
  BY DEF CallStart, sleeps, passing, wires
<1>2. Quiet /\ unlisten = None /\ (\A q \in Run : ~Opening(q)) /\ (\A s \in Stop : ~Closing(s))
  BY <1>1 DEF LoopCalls, AtRest, Pending, Opening, Closing
<1>3. /\ \A q \in Run : Opening(q)' <=> q = r
      /\ \A s \in Stop : ~Closing(s)'
      /\ \A q \in Run : q # r => starting'[q] = starting[q]
  BY <1>1, <1>2 DEF Opening, Closing, LoopBooks, WorkerTypeOK
<1>4. Quiet' /\ unlisten' = None
  BY <1>1, <1>2 DEF Quiet, Still, Active, Sweeps
<1>5. OneCall'
  BY <1>1, <1>3 DEF OneCall
<1>6. OwnRun'
  BY <1>1, <1>2 DEF LoopCalls, OwnRun, Quiet, Still, Active, Sweeps
<1>7. Openings'
  BY <1>3, <1>4, <1>2, <1>1 DEF Openings, Opening, LoopBooks, WorkerTypeOK
<1>8. Listening' /\ AtRest'
  BY <1>1, <1>3 DEF Listening, AtRest
<1>9. Closings'
  BY <1>1, <1>2 DEF Closings, Closing
<1> QED
  BY <1>5, <1>6, <1>7, <1>8, <1>9 DEF LoopCalls

\* listen registers the listener, or fails.
LEMMA ListenKeeps == ASSUME LoopBooks, LoopCalls, NEW r \in Run, Listen(r) \/ ListenFails(r) PROVE LoopCalls'
<1>1. /\ starting[r] = "listening"
      /\ UNCHANGED <<running, woken, pc, sweeper, endSleep, endSweepSleep, aborted, arrived, dispatched, stopping, unlisten, loop, sweeping>>
  BY DEF Listen, ListenFails, sleeps, passing, wires
<1>2. /\ running /\ Quiet /\ unlisten = None /\ (\A q \in Run \ {r} : ~Opening(q)) /\ \A s \in Stop : ~Closing(s)
  BY <1>1 DEF LoopCalls, OneCall, Openings, Opening
<1>3. \/ starting' = [starting EXCEPT ![r] = "registered"] /\ listeners' = {r}
      \/ starting' = [starting EXCEPT ![r] = "failed"] /\ listeners' = {}
  BY <1>2 DEF Listen, ListenFails, wires, Quiet
<1>4. /\ (starting'[r] = "registered" /\ listeners' = {r}) \/ (starting'[r] = "failed" /\ listeners' = {})
      /\ \A q \in Run : q # r => starting'[q] = starting[q]
  BY <1>3 DEF LoopBooks, WorkerTypeOK
<1>5. Still' /\ running' /\ (\A q \in Run \ {r} : ~Opening(q)') /\ (\A s \in Stop : ~Closing(s)')
  BY <1>1, <1>2, <1>4 DEF Quiet, Still, Active, Sweeps, Opening, Closing
<1>6. OneCall'
  BY <1>5 DEF OneCall
<1>7. OwnRun'
  BY <1>1, <1>2 DEF LoopCalls, OwnRun, Quiet, Still, Active, Sweeps
<1>8. Openings'
  BY <1>4, <1>5 DEF Openings, Opening
<1>9. Listening' /\ AtRest'
  BY <1>4, <1>5 DEF Listening, AtRest, Opening
<1>10. Closings'
  BY <1>5 DEF Closings, Closing
<1> QED
  BY <1>6, <1>7, <1>8, <1>9, <1>10 DEF LoopCalls

\* start() begins the one loop and the one sweeper.
LEMMA ListenedKeeps == ASSUME LoopBooks, LoopCalls, NEW r \in Run, Listened(r) PROVE LoopCalls'
<1>1. /\ starting[r] = "registered" /\ starting' = [starting EXCEPT ![r] = "done"]
      /\ unlisten' = r /\ loop' = r /\ sweeping' = r
      /\ UNCHANGED <<running, endSleep, arrived, dispatched, listeners, stopping>>
  BY DEF Listened, wires
<1>2. running /\ Still /\ listeners = {r} /\ (\A q \in Run \ {r} : ~Opening(q)) /\ \A s \in Stop : ~Closing(s)
  BY <1>1 DEF LoopCalls, OneCall, Openings, Opening
<1>3. pc' = [pc EXCEPT ![r] = "draining"] /\ ~aborted'[r]
  BY <1>2, HeadEffects DEF Listened
<1>4. sweeper' = [sweeper EXCEPT ![r] = "asleep"] /\ endSweepSleep' = r
  BY <1>2 DEF Listened
<1>5. /\ pc'[r] = "draining" /\ sweeper'[r] = "asleep" /\ starting'[r] = "done"
      /\ \A q \in Run : q # r => pc'[q] = pc[q] /\ sweeper'[q] = sweeper[q] /\ starting'[q] = starting[q]
  BY <1>1, <1>3, <1>4 DEF LoopBooks, WorkerTypeOK
<1>6. (\A q \in Run : ~Opening(q)') /\ (\A s \in Stop : ~Closing(s)')
  BY <1>1, <1>2, <1>5 DEF Opening, Closing
<1>7. OneCall'
  BY <1>6 DEF OneCall
<1>8. OwnRun'
  <2> SUFFICES ASSUME NEW q \in Run
               PROVE  (/\ Active(q) => loop = q
                       /\ Sweeps(q) => sweeping = q
                       /\ endSleep = q <=> pc[q] = "asleep"
                       /\ endSweepSleep = q => sweeper[q] = "asleep"
                       /\ pc[q] = "asleep" => ~woken /\ running
                       /\ running /\ Active(q) => q \in listeners /\ ~aborted[q])'
    BY DEF OwnRun
  <2>1. ~Active(q) /\ ~Sweeps(q) /\ endSleep # q
    BY <1>2 DEF Still, LoopCalls, OwnRun, Active
  <2>2. CASE q = r
    BY <1>1, <1>2, <1>3, <1>4, <1>5, <2>1, <2>2 DEF Active, Sweeps
  <2>3. CASE q # r
    BY <1>1, <1>2, <1>4, <1>5, <2>1, <2>3 DEF Active, Sweeps
  <2> QED
    BY <2>2, <2>3
<1>9. Openings'
  BY <1>6 DEF Openings, Opening
<1>10. Listening' /\ AtRest'
  BY <1>1, <1>2 DEF Listening, AtRest
<1>11. Closings'
  BY <1>6 DEF Closings, Closing
<1> QED
  BY <1>7, <1>8, <1>9, <1>10, <1>11 DEF LoopCalls

\* stop() is called while no other call awaits: both sleeps end.
LEMMA CallStopKeeps == ASSUME ~Overlap, LoopBooks, LoopCalls, NEW s \in Stop, CallStop(s) PROVE LoopCalls'
<1>1. /\ ~Pending /\ ~running' /\ endSleep' = None /\ endSweepSleep' = None
      /\ stopping' = [stopping EXCEPT ![s] = [at |-> "unlistening", on |-> unlisten]]
      /\ pc' = Roused(pc, endSleep) /\ sweeper' = Roused(sweeper, endSweepSleep)
      /\ UNCHANGED <<woken, arrived, dispatched, listeners, starting, unlisten, loop, sweeping>>
  BY DEF CallStop, At, wires
<1>2. (\A q \in Run : ~Opening(q)) /\ (\A t \in Stop : ~Closing(t))
  BY <1>1 DEF Pending, Opening, Closing
<1>3. /\ stopping'[s] = [at |-> "unlistening", on |-> unlisten] /\ \A t \in Stop : t # s => stopping'[t] = stopping[t]
  BY <1>1 DEF LoopBooks, WorkerTypeOK
<1>4. (\A q \in Run : ~Opening(q)') /\ Closing(s)' /\ \A t \in Stop : t # s => ~Closing(t)'
  BY <1>1, <1>2, <1>3 DEF Opening, Closing
<1>5. \A q \in Run : /\ pc'[q] # "asleep" /\ (Active(q)' => Active(q)) /\ (Sweeps(q)' => Sweeps(q))
  <2> TAKE q \in Run
  <2>1. pc'[q] = (IF endSleep = q THEN "resuming" ELSE pc[q]) /\ (endSleep = q <=> pc[q] = "asleep")
    BY <1>1, NoneIsNoRun DEF Roused, LoopBooks, WorkerTypeOK, LoopCalls, OwnRun
  <2>2. sweeper'[q] = (IF endSweepSleep = q THEN "resuming" ELSE sweeper[q]) /\ (endSweepSleep = q => sweeper[q] = "asleep")
    BY <1>1, NoneIsNoRun DEF Roused, LoopBooks, WorkerTypeOK, LoopCalls, OwnRun
  <2> QED
    BY <2>1, <2>2 DEF Active, Sweeps
<1>6. OneCall'
  BY <1>1, <1>4 DEF OneCall
<1>7. OwnRun'
  BY <1>1, <1>5, NoneIsNoRun DEF LoopCalls, OwnRun
<1>8. Openings'
  BY <1>4 DEF Openings, Opening
<1>9. Listening'
  BY <1>1, <1>2 DEF LoopCalls, Listening
<1>10. Closings'
  BY <1>1, <1>3, <1>4 DEF Closings, Closing
<1>11. AtRest'
  BY <1>4 DEF AtRest, Pending, Closing
<1> QED
  BY <1>6, <1>7, <1>8, <1>9, <1>10, <1>11 DEF LoopCalls

\* A step of the one stop() that is under way: what it awaited has ended.
LEMMA StopStepKeeps == ASSUME LoopBooks, LoopCalls, NEW s \in Stop, Unlistened(s) \/ Awaited(s) PROVE LoopCalls'
<1>1. /\ UNCHANGED <<running, woken, pc, sweeper, endSleep, endSweepSleep, aborted, arrived, dispatched, starting, loop, sweeping>>
      /\ Closing(s) /\ ~running
  <2>1. Closing(s)
    BY DEF Unlistened, Awaited, Closing
  <2> QED
    BY <2>1 DEF Unlistened, Awaited, sleeps, passing, wires, LoopCalls, OneCall
<1>2. (\A t \in Stop : t # s => ~Closing(t)) /\ \A q \in Run : ~Opening(q)
  BY <1>1 DEF LoopCalls, OneCall
<1>3. stopping[s].at \in {"unlistening", "dispatching", "looping", "sweeping"}
  BY DEF Unlistened, Awaited
<1>4. listeners' = {} /\ unlisten' = None
  <2>1. CASE Unlistened(s)
    <3>1. stopping[s].on = unlisten /\ listeners \subseteq {unlisten}
      BY <1>2, <2>1 DEF Unlistened, LoopCalls, Closings, Listening
    <3> QED
      BY <2>1, <3>1 DEF Unlistened
  <2>2. CASE Awaited(s)
    BY <2>2 DEF Awaited, wires, LoopCalls, Closings
  <2> QED
    BY <2>1, <2>2
<1>5. /\ \A t \in Stop : t # s => stopping'[t] = stopping[t]
      /\ \/ stopping'[s] = [at |-> "dispatching", on |-> arrived]
         \/ stopping'[s] = [at |-> "looping", on |-> loop] /\ dispatched = arrived
         \/ stopping'[s] = [at |-> "sweeping", on |-> sweeping] /\ dispatched = arrived /\ \A q \in Run : ~Active(q)
         \/ stopping'[s] = [at |-> "done", on |-> None] /\ dispatched = arrived /\ Still
  <2>1. CASE Unlistened(s)
    BY <2>1 DEF Unlistened, At, LoopBooks, WorkerTypeOK
  <2>2. CASE stopping[s].at = "dispatching" /\ dispatched >= stopping[s].on /\ At(s, "looping", loop)
    <3>1. stopping[s].on = arrived
      BY <2>2 DEF LoopCalls, Closings
    <3>2. dispatched = arrived
      BY <2>2, <3>1 DEF LoopBooks, WorkerTypeOK
    <3> QED
      BY <2>2, <3>2 DEF At, LoopBooks, WorkerTypeOK
  <2>3. CASE stopping[s].at = "looping" /\ Settled(pc, stopping[s].on) /\ At(s, "sweeping", sweeping)
    <3>1. dispatched = arrived /\ stopping[s].on = loop
      BY <2>3 DEF LoopCalls, Closings
    <3>2. \A q \in Run : ~Active(q)
      BY <2>3, <3>1, NoneIsNoRun DEF Settled, LoopCalls, OwnRun, Active
    <3> QED
      BY <2>3, <3>1, <3>2 DEF At, LoopBooks, WorkerTypeOK
  <2>4. CASE stopping[s].at = "sweeping" /\ Settled(sweeper, stopping[s].on) /\ At(s, "done", None)
    <3>1. dispatched = arrived /\ stopping[s].on = sweeping /\ \A q \in Run : ~Active(q)
      BY <2>4 DEF LoopCalls, Closings
    <3>2. \A q \in Run : ~Sweeps(q)
      BY <2>4, <3>1, NoneIsNoRun DEF Settled, LoopCalls, OwnRun, Sweeps
    <3> QED
      BY <2>4, <3>1, <3>2 DEF At, LoopBooks, WorkerTypeOK, Still
  <2> QED
    BY <2>1, <2>2, <2>3, <2>4 DEF Awaited
<1>6. /\ \A q \in Run : ~Opening(q)' /\ (Active(q)' <=> Active(q)) /\ (Sweeps(q)' <=> Sweeps(q))
      /\ \A t \in Stop : t # s => ~Closing(t)'
      /\ Still' <=> Still
  BY <1>1, <1>2, <1>5 DEF Opening, Closing, Active, Sweeps, Still
<1>7. OneCall'
  BY <1>1, <1>6 DEF OneCall
<1>8. OwnRun'
  BY <1>1, <1>6 DEF LoopCalls, OwnRun
<1>9. Openings'
  BY <1>6 DEF Openings, Opening
<1>10. Listening'
  BY <1>4 DEF Listening
<1>11. Closings'
  <2> SUFFICES ASSUME NEW t \in Stop
               PROVE  (/\ stopping[t].at = "unlistening" => stopping[t].on = unlisten
                       /\ stopping[t].at \in {"dispatching", "looping", "sweeping"} => listeners = {} /\ unlisten = None
                       /\ stopping[t].at = "dispatching" => stopping[t].on = arrived
                       /\ stopping[t].at \in {"looping", "sweeping"} => dispatched = arrived
                       /\ stopping[t].at = "looping" => stopping[t].on = loop
                       /\ stopping[t].at = "sweeping" => (\A r \in Run : ~Active(r)) /\ stopping[t].on = sweeping)'
    BY DEF Closings
  <2>1. CASE t = s
    BY <1>1, <1>4, <1>5, <1>6, <2>1
  <2>2. CASE t # s
    BY <1>6, <2>2 DEF Closing
  <2> QED
    BY <2>1, <2>2
<1>12. AtRest'
  <2>1. CASE stopping'[s].at = "done"
    BY <1>1, <1>4, <1>5, <1>6, <2>1 DEF AtRest, Quiet
  <2>2. CASE stopping'[s].at # "done"
    BY <1>5, <2>2 DEF AtRest, Pending
  <2> QED
    BY <2>1, <2>2
<1> QED
  BY <1>7, <1>8, <1>9, <1>10, <1>11, <1>12 DEF LoopCalls

\* Every step keeps the calls in order.
LEMMA CallsStep == ASSUME ~Overlap, LoopBooks, LoopCalls, [WorkerNext]_workerVars PROVE LoopCalls'
<1>1. CASE UNCHANGED workerVars
  BY <1>1, StandingKeeps DEF workerVars, sleeps, passing, wires, calls
<1>2. CASE WorkerNext
  BY <1>2, WireStepKeeps, PassStepKeeps, SweepStepKeeps, CallStartKeeps, ListenKeeps, ListenedKeeps, CallStopKeeps,
     StopStepKeeps DEF WorkerNext
<1> QED
  BY <1>1, <1>2
\* A loop that is not between a look and the end of its sleep owes nothing.
LEMMA NothingOwed ==
    ASSUME NEW r \in Run, pc'[r] \notin {"drained", "catching", "passed", "asleep"}
    PROVE  SeenBy(r)'
BY DEF SeenBy

\* A commit is heard by the loop that is up, for its listener is registered.
LEMMA CommitSeen == ASSUME LoopBooks, LoopCalls, Seen, NEW here \in BOOLEAN, Commit(here) PROVE Seen'
<1> SUFFICES ASSUME running', NEW r \in Run PROVE SeenBy(r)'
  BY DEF Seen
<1>1. /\ pc' = pc /\ running' = running /\ listeners' = listeners
      /\ channel' = [q \in Run |-> IF q \in listeners THEN channel[q] + 1 ELSE channel[q]]
  BY DEF Commit
<1>2. CASE ~Active(r)
  BY <1>1, <1>2, NothingOwed DEF Active
<1>3. CASE Active(r)
  <2>1. r \in listeners
    BY <1>1, <1>3 DEF LoopCalls, OwnRun
  <2>2. r \in listeners' /\ channel'[r] > 0
    BY <1>1, <2>1 DEF LoopBooks, WorkerTypeOK
  <2> QED
    BY <2>2 DEF SeenBy, Coming
<1> QED
  BY <1>2, <1>3

\* A wake-up that arrives is noted, and ends the sleep.
LEMMA WakeSeen == ASSUME LoopBooks, LoopCalls, Seen, Wake, running' = running PROVE Seen'
<1> SUFFICES ASSUME running', NEW r \in Run PROVE SeenBy(r)'
  BY DEF Seen
<1>1. /\ woken'
      /\ (endSleep = None /\ pc' = pc) \/ (endSleep \in Run /\ pc' = [pc EXCEPT ![endSleep] = "resuming"])
  BY WakeEffects
<1>2. pc'[r] # "asleep"
  BY <1>1, NoneIsNoRun DEF LoopBooks, WorkerTypeOK, LoopCalls, OwnRun
<1> QED
  BY <1>1, <1>2 DEF SeenBy

\* Steps that leave the loops and their work alone.
LEMMA SameSeen ==
    ASSUME Seen, UNCHANGED <<jobs, lag, waking, running, woken, pc, processed, failed, channel, listeners>>
    PROVE  Seen'
BY DEF Seen, SeenBy, Coming

\* What a pass that did nothing has looked at is empty, or came after the look.
LEMMA PassSeen ==
    ASSUME LoopBooks, LoopCalls, Seen, NEW r \in Run,
           \/ Drain(r) \/ DrainFails(r) \/ Drained(r) \/ CatchUp(r) \/ CatchUpFails(r)
           \/ Passed(r) \/ Poll(r) \/ Resume(r)
    PROVE  Seen'
<1>0. UNCHANGED <<running, waking, channel, listeners>> /\ Active(r)
  BY DEF Drain, DrainFails, Drained, CatchUp, CatchUpFails, Passed, Poll, Resume, Active, backlog, wires
<1>1. \E p \in {"draining", "drained", "catching", "passed", "asleep", "resuming", "done"} : pc' = [pc EXCEPT ![r] = p]
  BY DEF Drain, DrainFails, Drained, CatchUp, CatchUpFails, Passed, Poll, Resume, LoopHead
<1> SUFFICES ASSUME running', NEW q \in Run PROVE SeenBy(q)'
  BY DEF Seen
<1>2. running /\ SeenBy(r) /\ ~aborted[r] /\ (Coming' <=> Coming)
  BY <1>0 DEF Seen, LoopCalls, OwnRun, Coming
<1>3. CASE q # r
  <2>1. pc'[q] = pc[q] /\ ~Active(q)
    BY <1>0, <1>1, <1>3, WhileActive DEF LoopBooks, WorkerTypeOK
  <2> QED
    BY <2>1, NothingOwed DEF Active
<1>4. CASE q = r
  <2>0. pc \in [Run -> {"none", "draining", "drained", "catching", "passed", "asleep", "resuming", "done"}]
    BY DEF LoopBooks, WorkerTypeOK
  <2>1. CASE Drain(r)
    <3>1. pc'[r] = "drained"
      BY <2>0, <2>1 DEF Drain
    <3>2. ~processed'[r] => jobs' = 0
      BY <1>2, <2>1, DrainEffects
    <3> QED
      BY <1>4, <3>1, <3>2 DEF SeenBy
  <2>2. CASE DrainFails(r) \/ CatchUpFails(r)
    <3>1. pc'[r] = "passed"
      BY <2>0, <2>2 DEF DrainFails, CatchUpFails
    <3>2. failed'[r]
      <4>1. failed \in [Run -> BOOLEAN] /\ failed' = [failed EXCEPT ![r] = TRUE]
        BY <2>2 DEF LoopBooks, WorkerTypeOK, DrainFails, CatchUpFails
      <4> QED
        BY <4>1, Zenon
    <3> QED
      BY <1>4, <3>1, <3>2 DEF SeenBy
  <2>3. CASE Drained(r)
    <3>1. pc[r] = "drained" /\ pc'[r] = "catching" /\ UNCHANGED <<jobs, woken, processed>>
      BY <1>2, <2>0, <2>3 DEF Drained, backlog, passing
    <3> QED
      BY <1>2, <1>4, <3>1 DEF SeenBy
  <2>4. CASE CatchUp(r)
    <3>1. pc[r] = "catching" /\ pc'[r] = "passed" /\ UNCHANGED <<jobs, woken, failed>>
      BY <2>0, <2>4 DEF CatchUp
    <3>2. ~processed'[r] => lag' = 0 /\ ~processed[r]
      BY <2>4, CatchUpEffects
    <3> QED
      BY <1>2, <1>4, <3>1, <3>2 DEF SeenBy
  <2>5. CASE Passed(r)
    <3>1. CASE ~processed[r] /\ ~woken /\ pc' = [pc EXCEPT ![r] = "asleep"] /\ UNCHANGED <<woken, passing>>
      <4>1. pc[r] = "passed" /\ pc'[r] = "asleep" /\ UNCHANGED <<jobs, lag, failed>>
        BY <2>0, <2>5, <3>1 DEF Passed, backlog, passing
      <4> QED
        BY <1>2, <1>4, <3>1, <4>1 DEF SeenBy
    <3>2. CASE LoopHead(r)
      <4>1. pc'[r] = "draining"
        BY <1>2, <2>0, <3>2 DEF LoopHead
      <4> QED
        BY <1>4, <4>1, NothingOwed
    <3> QED
      BY <2>5, <3>1, <3>2, Zenon DEF Passed
  <2>6. CASE Poll(r) \/ Resume(r)
    <3>1. pc'[r] \in {"resuming", "draining"}
      BY <1>2, <2>0, <2>6 DEF Poll, Resume, LoopHead
    <3> QED
      BY <1>4, <3>1, NothingOwed
  <2> QED
    BY <2>1, <2>2, <2>3, <2>4, <2>5, <2>6
<1> QED
  BY <1>3, <1>4

\* A start() meets no loop, and a stop() ends the worker's running.
LEMMA CallSeen ==
    ASSUME ~Overlap, LoopBooks, LoopCalls,
           \/ \E r \in Run : CallStart(r) \/ Listen(r) \/ ListenFails(r) \/ Listened(r)
           \/ \E s \in Stop : CallStop(s) \/ Unlistened(s) \/ Awaited(s)
    PROVE  Seen'
<1>1. ASSUME NEW r \in Run, CallStart(r) \/ Listen(r) \/ ListenFails(r) PROVE Seen'
  <2>1. Still
    BY <1>1 DEF CallStart, Listen, ListenFails, LoopCalls, AtRest, Openings, Quiet
  <2>2. pc' = pc
    BY <1>1 DEF CallStart, Listen, ListenFails
  <2> QED
    BY <2>1, <2>2, NothingOwed DEF Seen, Still, Active
<1>2. ASSUME NEW r \in Run, Listened(r) PROVE Seen'
  <2>1. Still /\ pc' = [pc EXCEPT ![r] = IF running THEN "draining" ELSE "done"]
    BY <1>2 DEF Listened, LoopCalls, Openings, LoopHead
  <2>2. \A q \in Run : pc'[q] \notin {"drained", "catching", "passed", "asleep"}
    BY <2>1 DEF Still, Active, LoopBooks, WorkerTypeOK
  <2> QED
    BY <2>2, NothingOwed DEF Seen
<1>3. ASSUME NEW s \in Stop, CallStop(s) PROVE Seen'
  BY <1>3 DEF CallStop, Seen
<1>4. ASSUME NEW s \in Stop, Unlistened(s) \/ Awaited(s) PROVE Seen'
  <2>1. Closing(s) /\ running' = running
    BY <1>4 DEF Unlistened, Awaited, Closing
  <2> QED
    BY <2>1 DEF LoopCalls, OneCall, Seen
<1> QED
  BY <1>1, <1>2, <1>3, <1>4

LEMMA SeenStep == ASSUME ~Overlap, LoopBooks, LoopCalls, Seen, [WorkerNext]_workerVars PROVE Seen'
<1>1. ASSUME NEW here \in BOOLEAN, Commit(here) PROVE Seen'
  BY <1>1, CommitSeen
<1>2. ASSUME WakeAll \/ \E r \in Run : Notified(r) PROVE Seen'
  BY <1>2, WakeSeen DEF WakeAll, Notified
<1>3. CASE Dispatch
  BY <1>3, SameSeen DEF Dispatch, backlog, passing
<1>4. ASSUME NEW r \in Run, SweepTimer(r) \/ SweepResume(r) \/ SweepEnds(r) PROVE Seen'
  BY <1>4, SameSeen DEF SweepTimer, SweepResume, SweepEnds, backlog, passing, wires
<1>5. CASE UNCHANGED workerVars
  BY <1>5, SameSeen DEF workerVars, backlog, passing, wires
<1> QED
  BY <1>1, <1>2, <1>3, <1>4, <1>5, PassSeen, CallSeen DEF WorkerNext

\* The worker's variables keep their types, and no count of jobs, events or wake-ups exceeds the commits,
\* whether or not start() and stop() overlap.
THEOREM LoopTyping == WorkerSpec => []WorkerTypeOK
<1>1. WorkerInit => LoopBooks
  BY LoopBooksInit
<1>2. LoopBooks /\ [WorkerNext]_workerVars => LoopBooks'
  BY LoopBooksStep
<1>3. LoopBooks => WorkerTypeOK
  BY DEF LoopBooks
<1> QED
  BY <1>1, <1>2, <1>3, PTL DEF WorkerSpec

\* While no start() or stop() is called before the last one returned, every reachable state satisfies the
\* inductive invariant of the loop.
THEOREM LoopInvariance == ASSUME ~Overlap PROVE WorkerSpec => []LoopInv
<1>1. WorkerInit => LoopInv
  <2>1. WorkerInit => Seen
    BY DEF WorkerInit, Seen
  <2> QED
    BY <2>1, LoopBooksInit, CallsInit DEF LoopInv
<1>2. LoopInv /\ [WorkerNext]_workerVars => LoopInv'
  BY LoopBooksStep, CallsStep, SeenStep DEF LoopInv
<1> QED
  BY <1>1, <1>2, PTL DEF WorkerSpec

\* Once a stop() of worker.ts has returned, and nothing was started since, no loop, no sweep and no dispatch runs and
\* no listener is registered: what stop() awaits is everything there was.
THEOREM StoppedIsQuiet == ASSUME ~Overlap PROVE WorkerSpec => []StopIsQuiet
<1>1. LoopInv => StopIsQuiet
  BY DEF LoopInv, LoopCalls, AtRest, Quiet, Still, Active, Sweeps, StopIsQuiet
<1> QED
  BY <1>1, LoopInvariance, PTL

\* The loop of worker.ts never sleeps on committed work without a wake-up on its way, unless its last pass failed: a
\* commit between a pass's look and the sleep after it either set `woken`, which the loop reads before it sleeps, or
\* its notification is still to come.
THEOREM NeverSleepsOnWork == ASSUME ~Overlap PROVE WorkerSpec => []NoSleepOnWork
<1>1. LoopInv => NoSleepOnWork
  <2> SUFFICES ASSUME LoopInv, NEW r \in Run, pc[r] = "asleep", ~failed[r], jobs > 0 \/ lag > 0
               PROVE  waking > 0 \/ \E q \in listeners : channel[q] > 0
    BY DEF NoSleepOnWork
  <2>1. running
    BY DEF LoopInv, LoopCalls, OwnRun
  <2> QED
    BY <2>1 DEF LoopInv, Seen, SeenBy, Coming
<1> QED
  BY <1>1, LoopInvariance, PTL
=============================================================================
