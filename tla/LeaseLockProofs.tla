--------------------------- MODULE LeaseLockProofs ---------------------------
(***************************************************************************)
(* Proofs about LeaseLock, for any set of attempts, any lease length and   *)
(* any bounds, with or without resent calls and stalled event loops.       *)
(*                                                                         *)
(* MutualExclusion is not inductive: an answer on its way may turn into    *)
(* trust.  The invariant therefore also says what each message under way   *)
(* stands for (Messages) and that every grant or renewal that would still  *)
(* be trusted on arrival is backed by the row (Backed).                    *)
(***************************************************************************)
EXTENDS LeaseLock, Lead, TLAPS

Had == {"held", "lost", "released", "crashed"}

\* An acquire is under way only for an attempt that has not been answered, and only once.
AcquirePhase == /\ \A m \in calls : m.op = "acquire" => phase[m.token] \in {"asking", "gaveUp"}
                /\ \A a \in answers : a.op = "acquire" => phase[a.token] \in {"asking", "gaveUp"}
OneAcquire == /\ \A m, n \in calls : m.op = "acquire" /\ n.op = "acquire" /\ m.token = n.token => m = n
              /\ \A a, b \in answers : a.op = "acquire" /\ b.op = "acquire" /\ a.token = b.token => a = b
              /\ \A m \in calls, a \in answers : m.op = "acquire" /\ a.op = "acquire" => m.token # a.token

\* A renewal is under way only for a guard that was made, a release only for one that has ended.
ExtendPhase == /\ \A m \in calls : m.op = "extend" => phase[m.token] \in Had
               /\ \A a \in answers : a.op = "extend" => phase[a.token] \in Had
               /\ \A t \in Token : renewing[t] # None => phase[t] \in Had
ReleasePhase == \A m \in calls : m.op = "release" => phase[m.token] \notin {"new", "asking", "held"}

SentInPast == (\A m \in calls : m.sent <= now) /\ (\A a \in answers : a.sent <= now)

Messages == AcquirePhase /\ OneAcquire /\ ExtendPhase /\ ReleasePhase /\ SentInPast

\* t may trust a lease until d: the row is its own and lasts at least that long.
Backs(t, d) == now < d => row.token = t /\ row.expires >= d

Backed == /\ row.expires <= now + TTL
          /\ \A t \in Token : phase[t] = "held" => Backs(t, deadline[t])
          /\ \A a \in answers : a.op = "acquire" /\ Yes(a) /\ phase[a.token] = "asking" => Backs(a.token, a.sent + TTL)
          /\ \A a \in answers : a.op = "extend" /\ Yes(a) /\ phase[a.token] = "held" => Backs(a.token, a.sent + TTL)

\* The row's owner was granted the newest fence.
Fenced == /\ \A t \in Token : phase[t] = "held" /\ row.token = t => fence[t] = generation
          /\ \A a \in answers : a.op = "acquire" /\ Yes(a) /\ row.token = a.token => a.fence = generation

IndInv == TypeOK /\ Messages /\ Backed /\ Fenced
-----------------------------------------------------------------------------
USE DEF None

\* The fields of a call and of an answer.
LEMMA CallFacts ==
    ASSUME NEW m \in Call
    PROVE  /\ m.op \in {"acquire", "extend", "release"} /\ m.token \in Token
           /\ m.op # "release" => m.sent \in Time
           /\ m.op = "release" => m.sent = None
BY DEF Call

LEMMA AnswerFacts ==
    ASSUME NEW a \in Answer
    PROVE  /\ a.op \in {"acquire", "extend"} /\ a.token \in Token
           /\ a.sent \in Time /\ a.says \in {"yes", "no"} /\ a.fence \in Nat
           /\ (a.fence > 0 <=> a.op = "acquire" /\ Yes(a))
BY DEF Answer, Yes

LEMMA InitInv == Init => IndInv
BY LeaseAssumption DEF Init, IndInv, TypeOK, Messages, AcquirePhase, OneAcquire, ExtendPhase, ReleasePhase,
       SentInPast, Backed, Backs, Fenced, Time, Phase

\* Every step keeps the types.
LEMMA TypeStep == TypeOK /\ [Next]_vars => TypeOK'
<1> SUFFICES ASSUME TypeOK, [Next]_vars PROVE TypeOK'
    OBVIOUS
<1> USE LeaseAssumption DEF TypeOK, Time, Phase
<1>1. CASE Execute
  <2> PICK m \in calls : \/ m.op = "acquire" /\ ExecuteAcquire(m)
                         \/ m.op = "extend" /\ ExecuteExtend(m)
                         \/ m.op = "release" /\ ExecuteRelease(m)
      BY <1>1 DEF Execute
  <2>1. m \in Call /\ m.token \in Token /\ m.sent \in Time \cup {None} /\ (m.op # "release" => m.sent \in Time)
    BY CallFacts DEF Call
  <2>2. CASE m.op = "acquire" /\ ExecuteAcquire(m)
    <3> DEFINE free == row.token = NoToken \/ row.expires <= now
               own == ~free /\ row.token = m.token
               f == IF free \/ own THEN generation' ELSE 0
    <3>1. /\ row' = IF free \/ own THEN [token |-> m.token, expires |-> now + TTL] ELSE row
          /\ generation' = IF free THEN generation + 1 ELSE generation
          /\ Answers(m, free \/ own, f)
          /\ overlapped' = [u \in Token |-> overlapped[u] \/ (free /\ u # m.token /\ phase[u] = "held")]
          /\ UNCHANGED <<now, guards>>
      BY <2>2 DEF ExecuteAcquire
    <3>2. generation' \in Nat /\ (row'.token # NoToken => generation' > 0)
      BY <3>1, <2>1
    <3>3. Reply(m, free \/ own, f) \in Answer
      BY <3>1, <3>2, <2>1, <2>2 DEF Reply, Answer
    <3>4. overlapped' \in [Token -> BOOLEAN]
      BY <3>1, Zenon
    <3>5. row' \in [token : Token \cup {NoToken}, expires : Nat]
      BY <3>1, <2>1
    <3> QED BY <3>1, <3>2, <3>3, <3>4, <3>5 DEF Answers, guards
  <2>3. CASE m.op = "extend" /\ ExecuteExtend(m)
    BY <2>1, <2>3 DEF ExecuteExtend, Answers, Reply, Answer, guards
  <2>4. CASE m.op = "release" /\ ExecuteRelease(m)
    BY <2>1, <2>4 DEF ExecuteRelease, guards
  <2> QED BY <2>2, <2>3, <2>4
<1>2. CASE Resend
  BY <1>2, AnswerFacts DEF Resend, guards, Call
<1>3. CASE Tick
  BY <1>3 DEF Tick, guards
<1>4. ASSUME NEW t \in Token, Ask(t) PROVE TypeOK'
  BY <1>4 DEF Ask, Acquire, Call
<1>5. ASSUME NEW t \in Token, GiveUp(t) PROVE TypeOK'
  BY <1>5 DEF GiveUp
<1>6. ASSUME NEW t \in Token, Renew(t) PROVE TypeOK'
  BY <1>6 DEF Renew, Extend, Call
<1>7. ASSUME NEW t \in Token, RenewTimeout(t) PROVE TypeOK'
  BY <1>7 DEF RenewTimeout
<1>8. ASSUME NEW t \in Token, Start(t) PROVE TypeOK'
  BY <1>8 DEF Start
<1>9. ASSUME NEW t \in Token, DeadlineTimer(t) PROVE TypeOK'
  BY <1>9 DEF DeadlineTimer
<1>10. ASSUME NEW t \in Token, Release(t) PROVE TypeOK'
  BY <1>10 DEF Release, Free, Call
<1>11. ASSUME NEW t \in Token, Crash(t) PROVE TypeOK'
  BY <1>11 DEF Crash
<1>12. ASSUME NEW a \in answers, AcquireAnswer(a) PROVE TypeOK'
  <2>1. a.token \in Token /\ a.sent \in Time /\ a.fence \in Nat
    BY AnswerFacts
  <2>2. answers' = answers \ {a} /\ UNCHANGED <<now, row, generation, overlapped>>
    BY <1>12 DEF AcquireAnswer
  <2>3. CASE phase[a.token] = "asking" /\ Yes(a) /\ LandGrant(a.token, a)
    <3>1. CASE now - a.sent >= TTL
      BY <2>1, <2>2, <2>3, <3>1 DEF LandGrant, Free, Call
    <3>2. CASE now - a.sent < TTL
      <4> DEFINE first == RenewsFirst(a.sent + TTL)
      <4>1. /\ phase' = [phase EXCEPT ![a.token] = "held"]
            /\ deadline' = [deadline EXCEPT ![a.token] = a.sent + TTL]
            /\ fence' = [fence EXCEPT ![a.token] = a.fence]
            /\ renewing' = [renewing EXCEPT ![a.token] = IF first THEN now ELSE None]
            /\ running' = [running EXCEPT ![a.token] = ~first]
            /\ calls' = IF first THEN calls \cup {Extend(a.token, now)} ELSE calls
        BY <2>1, <2>3, <3>2 DEF LandGrant
      <4>2. running' \in [Token -> BOOLEAN]
        BY <2>1, <4>1, Zenon
      <4> HIDE DEF first
      <4> QED BY <2>1, <2>2, <4>1, <4>2 DEF Extend, Call
    <3> QED BY <3>1, <3>2, <2>1
  <2>4. CASE phase' = [phase EXCEPT ![a.token] = "refused"] /\ UNCHANGED <<calls, deadline, renewing, running, fence>>
    BY <2>1, <2>2, <2>4
  <2>5. CASE /\ calls' = IF Yes(a) THEN calls \cup {Free(a.token)} ELSE calls
             /\ UNCHANGED <<phase, deadline, renewing, running, fence>>
    BY <2>1, <2>2, <2>5 DEF Free, Call
  <2> QED BY <1>12, <2>3, <2>4, <2>5 DEF AcquireAnswer
<1>13. ASSUME NEW a \in answers, RenewAnswer(a) PROVE TypeOK'
  <2>1. a.token \in Token /\ a.sent \in Time
    BY AnswerFacts
  <2> QED BY <1>13, <2>1 DEF RenewAnswer, Free, Call
<1>14. ASSUME NEW a \in answers, IgnoreAnswer(a) PROVE TypeOK'
  BY <1>14 DEF IgnoreAnswer, guards
<1>15. CASE UNCHANGED vars
  BY <1>15 DEF vars
<1> QED
  BY <1>1, <1>2, <1>3, <1>4, <1>5, <1>6, <1>7, <1>8, <1>9, <1>10, <1>11, <1>12, <1>13, <1>14, <1>15 DEF Next

\* Every step keeps what is known of the messages under way.
LEMMA MessagesStep == IndInv /\ [Next]_vars => Messages'
<1> SUFFICES ASSUME IndInv, [Next]_vars PROVE Messages'
    OBVIOUS
<1> USE LeaseAssumption DEF IndInv, TypeOK, Messages, AcquirePhase, OneAcquire, ExtendPhase, ReleasePhase, SentInPast, Had
<1>a. \A m \in calls : m \in Call /\ m.token \in Token /\ m.op \in {"acquire", "extend", "release"}
                         /\ m.sent \in Int
  BY CallFacts DEF Call, Time
<1>b. \A a \in answers : a \in Answer /\ a.token \in Token /\ a.op \in {"acquire", "extend"} /\ a.sent \in Nat
                           /\ a.fence \in Nat
  BY AnswerFacts DEF Time
<1>c. now \in Nat
  BY DEF Time
<1>1. CASE Execute
  <2> PICK m \in calls : \/ m.op = "acquire" /\ ExecuteAcquire(m)
                         \/ m.op = "extend" /\ ExecuteExtend(m)
                         \/ m.op = "release" /\ ExecuteRelease(m)
      BY <1>1 DEF Execute
  <2>2. CASE m.op = "acquire" /\ ExecuteAcquire(m)
    BY <1>a, <1>b, <1>c, <2>2 DEF ExecuteAcquire, Answers, Reply, Yes, guards
  <2>3. CASE m.op = "extend" /\ ExecuteExtend(m)
    BY <1>a, <1>b, <1>c, <2>3 DEF ExecuteExtend, Answers, Reply, Yes, guards
  <2>4. CASE m.op = "release" /\ ExecuteRelease(m)
    BY <1>a, <1>b, <1>c, <2>4 DEF ExecuteRelease, guards
  <2> QED BY <2>2, <2>3, <2>4
<1>2. CASE Resend
  BY <1>2, <1>a, <1>b, <1>c DEF Resend, guards
<1>3. CASE Tick
  BY <1>3, <1>a, <1>b, <1>c DEF Tick, guards
<1>4. ASSUME NEW t \in Token, Ask(t) PROVE Messages'
  BY <1>4, <1>a, <1>b, <1>c DEF Ask, Acquire
<1>5. ASSUME NEW t \in Token, GiveUp(t) PROVE Messages'
  BY <1>5, <1>a, <1>b, <1>c DEF GiveUp
<1>6. ASSUME NEW t \in Token, Renew(t) PROVE Messages'
  BY <1>6, <1>a, <1>b, <1>c DEF Renew, Extend
<1>7. ASSUME NEW t \in Token, RenewTimeout(t) PROVE Messages'
  BY <1>7, <1>a, <1>b, <1>c DEF RenewTimeout
<1>8. ASSUME NEW t \in Token, Start(t) PROVE Messages'
  BY <1>8, <1>a, <1>b, <1>c DEF Start
<1>9. ASSUME NEW t \in Token, DeadlineTimer(t) PROVE Messages'
  BY <1>9, <1>a, <1>b, <1>c DEF DeadlineTimer
<1>10. ASSUME NEW t \in Token, Release(t) PROVE Messages'
  BY <1>10, <1>a, <1>b, <1>c DEF Release, Free
<1>11. ASSUME NEW t \in Token, Crash(t) PROVE Messages'
  BY <1>11, <1>a, <1>b, <1>c DEF Crash
<1>12. ASSUME NEW a \in answers, AcquireAnswer(a) PROVE Messages'
  BY <1>12, <1>a, <1>b, <1>c DEF AcquireAnswer, LandGrant, Extend, Free
<1>13. ASSUME NEW a \in answers, RenewAnswer(a) PROVE Messages'
  BY <1>13, <1>a, <1>b, <1>c DEF RenewAnswer, Free
<1>14. ASSUME NEW a \in answers, IgnoreAnswer(a) PROVE Messages'
  BY <1>14, <1>a, <1>b, <1>c DEF IgnoreAnswer, guards
<1>15. CASE UNCHANGED vars
  BY <1>15 DEF vars
<1> QED
  BY <1>1, <1>2, <1>3, <1>4, <1>5, <1>6, <1>7, <1>8, <1>9, <1>10, <1>11, <1>12, <1>13, <1>14, <1>15 DEF Next

\* Every step keeps each trusted lease backed by the row.
LEMMA BackedStep == IndInv /\ [Next]_vars => Backed'
<1> SUFFICES ASSUME IndInv, [Next]_vars PROVE Backed'
    OBVIOUS
<1> USE LeaseAssumption DEF IndInv, TypeOK, Messages, AcquirePhase, OneAcquire, ExtendPhase, ReleasePhase, SentInPast, Had, Backed, Backs
<1>a. \A m \in calls : m \in Call /\ m.token \in Token /\ m.op \in {"acquire", "extend", "release"}
                         /\ m.sent \in Int
  BY CallFacts DEF Call, Time
<1>b. \A a \in answers : a \in Answer /\ a.token \in Token /\ a.op \in {"acquire", "extend"} /\ a.sent \in Nat
                           /\ a.fence \in Nat
  BY AnswerFacts DEF Time
<1>c. now \in Nat
  BY DEF Time
<1>1. CASE Execute
  <2> PICK m \in calls : \/ m.op = "acquire" /\ ExecuteAcquire(m)
                         \/ m.op = "extend" /\ ExecuteExtend(m)
                         \/ m.op = "release" /\ ExecuteRelease(m)
      BY <1>1 DEF Execute
  <2>2. CASE m.op = "acquire" /\ ExecuteAcquire(m)
    BY <1>a, <1>b, <1>c, <2>2 DEF ExecuteAcquire, Answers, Reply, Yes, guards
  <2>3. CASE m.op = "extend" /\ ExecuteExtend(m)
    BY <1>a, <1>b, <1>c, <2>3 DEF ExecuteExtend, Answers, Reply, Yes, guards
  <2>4. CASE m.op = "release" /\ ExecuteRelease(m)
    BY <1>a, <1>b, <1>c, <2>4 DEF ExecuteRelease, guards
  <2> QED BY <2>2, <2>3, <2>4
<1>2. CASE Resend
  BY <1>2, <1>a, <1>b, <1>c DEF Resend, guards
<1>3. CASE Tick
  BY <1>3, <1>a, <1>b, <1>c DEF Tick, guards
<1>4. ASSUME NEW t \in Token, Ask(t) PROVE Backed'
  BY <1>4, <1>a, <1>b, <1>c DEF Ask, Acquire
<1>5. ASSUME NEW t \in Token, GiveUp(t) PROVE Backed'
  BY <1>5, <1>a, <1>b, <1>c DEF GiveUp
<1>6. ASSUME NEW t \in Token, Renew(t) PROVE Backed'
  BY <1>6, <1>a, <1>b, <1>c DEF Renew, Extend
<1>7. ASSUME NEW t \in Token, RenewTimeout(t) PROVE Backed'
  BY <1>7, <1>a, <1>b, <1>c DEF RenewTimeout
<1>8. ASSUME NEW t \in Token, Start(t) PROVE Backed'
  BY <1>8, <1>a, <1>b, <1>c DEF Start
<1>9. ASSUME NEW t \in Token, DeadlineTimer(t) PROVE Backed'
  BY <1>9, <1>a, <1>b, <1>c DEF DeadlineTimer
<1>10. ASSUME NEW t \in Token, Release(t) PROVE Backed'
  BY <1>10, <1>a, <1>b, <1>c DEF Release, Free
<1>11. ASSUME NEW t \in Token, Crash(t) PROVE Backed'
  BY <1>11, <1>a, <1>b, <1>c DEF Crash
<1>12. ASSUME NEW a \in answers, AcquireAnswer(a) PROVE Backed'
  BY <1>12, <1>a, <1>b, <1>c DEF AcquireAnswer, LandGrant, Extend, Free
<1>13. ASSUME NEW a \in answers, RenewAnswer(a) PROVE Backed'
  BY <1>13, <1>a, <1>b, <1>c DEF RenewAnswer, Free
<1>14. ASSUME NEW a \in answers, IgnoreAnswer(a) PROVE Backed'
  BY <1>14, <1>a, <1>b, <1>c DEF IgnoreAnswer, guards
<1>15. CASE UNCHANGED vars
  BY <1>15 DEF vars
<1> QED
  BY <1>1, <1>2, <1>3, <1>4, <1>5, <1>6, <1>7, <1>8, <1>9, <1>10, <1>11, <1>12, <1>13, <1>14, <1>15 DEF Next

\* Every step keeps the newest fence with the owner of the row.
LEMMA FencedStep == IndInv /\ [Next]_vars => Fenced'
<1> SUFFICES ASSUME IndInv, [Next]_vars PROVE Fenced'
    OBVIOUS
<1> USE LeaseAssumption DEF IndInv, TypeOK, Messages, AcquirePhase, OneAcquire, ExtendPhase, ReleasePhase, Had, Fenced
<1>a. \A m \in calls : m \in Call /\ m.token \in Token /\ m.op \in {"acquire", "extend", "release"}
                         /\ m.sent \in Int
  BY CallFacts DEF Call, Time
<1>b. \A a \in answers : a \in Answer /\ a.token \in Token /\ a.op \in {"acquire", "extend"} /\ a.sent \in Nat
                           /\ a.fence \in Nat
  BY AnswerFacts DEF Time
<1>c. now \in Nat
  BY DEF Time
<1>1. CASE Execute
  <2> PICK m \in calls : \/ m.op = "acquire" /\ ExecuteAcquire(m)
                         \/ m.op = "extend" /\ ExecuteExtend(m)
                         \/ m.op = "release" /\ ExecuteRelease(m)
      BY <1>1 DEF Execute
  <2>2. CASE m.op = "acquire" /\ ExecuteAcquire(m)
    BY <1>a, <1>b, <1>c, <2>2 DEF ExecuteAcquire, Answers, Reply, Yes, guards
  <2>3. CASE m.op = "extend" /\ ExecuteExtend(m)
    BY <1>a, <1>b, <1>c, <2>3 DEF ExecuteExtend, Answers, Reply, Yes, guards
  <2>4. CASE m.op = "release" /\ ExecuteRelease(m)
    BY <1>a, <1>b, <1>c, <2>4 DEF ExecuteRelease, guards
  <2> QED BY <2>2, <2>3, <2>4
<1>2. CASE Resend
  BY <1>2, <1>a, <1>b, <1>c DEF Resend, guards
<1>3. CASE Tick
  BY <1>3, <1>a, <1>b, <1>c DEF Tick, guards
<1>4. ASSUME NEW t \in Token, Ask(t) PROVE Fenced'
  BY <1>4, <1>a, <1>b, <1>c DEF Ask, Acquire
<1>5. ASSUME NEW t \in Token, GiveUp(t) PROVE Fenced'
  BY <1>5, <1>a, <1>b, <1>c DEF GiveUp
<1>6. ASSUME NEW t \in Token, Renew(t) PROVE Fenced'
  BY <1>6, <1>a, <1>b, <1>c DEF Renew, Extend
<1>7. ASSUME NEW t \in Token, RenewTimeout(t) PROVE Fenced'
  BY <1>7, <1>a, <1>b, <1>c DEF RenewTimeout
<1>8. ASSUME NEW t \in Token, Start(t) PROVE Fenced'
  BY <1>8, <1>a, <1>b, <1>c DEF Start
<1>9. ASSUME NEW t \in Token, DeadlineTimer(t) PROVE Fenced'
  BY <1>9, <1>a, <1>b, <1>c DEF DeadlineTimer
<1>10. ASSUME NEW t \in Token, Release(t) PROVE Fenced'
  BY <1>10, <1>a, <1>b, <1>c DEF Release, Free
<1>11. ASSUME NEW t \in Token, Crash(t) PROVE Fenced'
  BY <1>11, <1>a, <1>b, <1>c DEF Crash
<1>12. ASSUME NEW a \in answers, AcquireAnswer(a) PROVE Fenced'
  BY <1>12, <1>a, <1>b, <1>c DEF AcquireAnswer, LandGrant, Extend, Free
<1>13. ASSUME NEW a \in answers, RenewAnswer(a) PROVE Fenced'
  BY <1>13, <1>a, <1>b, <1>c DEF RenewAnswer, Free
<1>14. ASSUME NEW a \in answers, IgnoreAnswer(a) PROVE Fenced'
  BY <1>14, <1>a, <1>b, <1>c DEF IgnoreAnswer, guards
<1>15. CASE UNCHANGED vars
  BY <1>15 DEF vars
<1> QED
  BY <1>1, <1>2, <1>3, <1>4, <1>5, <1>6, <1>7, <1>8, <1>9, <1>10, <1>11, <1>12, <1>13, <1>14, <1>15 DEF Next
-----------------------------------------------------------------------------
\* Every reachable state satisfies the inductive invariant.
THEOREM Invariance == Spec => []IndInv
<1>1. IndInv /\ [Next]_vars => IndInv'
  BY TypeStep, MessagesStep, BackedStep, FencedStep DEF IndInv
<1> QED BY InitInv, <1>1, PTL DEF Spec

\* The row, the messages and the guards are well typed, and every grant comes with a fence.
THEOREM Typing == Spec => []TypeOK
<1>1. IndInv => TypeOK
  BY DEF IndInv
<1> QED BY Invariance, <1>1, PTL

LEMMA BackedMeansDeadline == IndInv => DeadlineWithinLease
BY DEF IndInv, Backed, Backs, DeadlineWithinLease, Live

\* While a guard answers `held`, the store's row is its own and outlives its deadline.
THEOREM DeadlineHolds == Spec => []DeadlineWithinLease
BY Invariance, BackedMeansDeadline, PTL

\* Two guards never answer `held` at once, with calls resent and event loops stalled.
THEOREM Exclusion == Spec => []MutualExclusion
<1>1. IndInv => MutualExclusion
  BY BackedMeansDeadline DEF DeadlineWithinLease, MutualExclusion
<1> QED BY Invariance, <1>1, PTL
-----------------------------------------------------------------------------
(* A fence names one grant *)

\* No fence is ahead of the store's counter.
Counted == /\ \A t \in Token : fence[t] <= generation
           /\ \A a \in answers : a.fence <= generation

\* A fence belongs to one attempt, and the newest one to the owner of the row.
Distinct == /\ \A t, u \in Token : fence[t] = fence[u] /\ fence[t] # 0 => t = u
            /\ \A a \in answers : a.fence # 0 => \A t \in Token : fence[t] = a.fence => t = a.token
            /\ \A a, b \in answers : a.fence # 0 /\ a.fence = b.fence => a.token = b.token
            /\ \A t \in Token : row.token # NoToken /\ fence[t] = generation => t = row.token
            /\ \A a \in answers : row.token # NoToken /\ a.fence = generation => a.token = row.token

FenceInv == Counted /\ Distinct

\* Every step keeps the fences apart: a new one is ahead of all, a resent winner gets its own again.
LEMMA FenceStep == TypeOK /\ FenceInv /\ [Next]_vars => FenceInv'
<1> SUFFICES ASSUME TypeOK, FenceInv, [Next]_vars PROVE FenceInv'
    OBVIOUS
<1> USE LeaseAssumption DEF TypeOK, FenceInv, Counted, Distinct
<1>a. \A m \in calls : m \in Call /\ m.token \in Token /\ m.op \in {"acquire", "extend", "release"}
  BY CallFacts
<1>b. \A a \in answers : a \in Answer /\ a.token \in Token /\ a.op \in {"acquire", "extend"} /\ a.sent \in Nat
                           /\ a.fence \in Nat /\ (a.fence > 0 <=> a.op = "acquire" /\ Yes(a))
  BY AnswerFacts DEF Time
<1>c. now \in Nat
  BY DEF Time
<1>1. CASE Execute
  <2> PICK m \in calls : \/ m.op = "acquire" /\ ExecuteAcquire(m)
                         \/ m.op = "extend" /\ ExecuteExtend(m)
                         \/ m.op = "release" /\ ExecuteRelease(m)
      BY <1>1 DEF Execute
  <2>2. CASE m.op = "acquire" /\ ExecuteAcquire(m)
    BY <1>a, <1>b, <1>c, <2>2 DEF ExecuteAcquire, Answers, Reply, guards
  <2>3. CASE m.op = "extend" /\ ExecuteExtend(m)
    BY <1>a, <1>b, <1>c, <2>3 DEF ExecuteExtend, Answers, Reply, guards
  <2>4. CASE m.op = "release" /\ ExecuteRelease(m)
    BY <1>a, <1>b, <1>c, <2>4 DEF ExecuteRelease, guards
  <2> QED BY <2>2, <2>3, <2>4
<1>2. CASE Resend
  BY <1>2, <1>a, <1>b, <1>c DEF Resend, guards
<1>3. CASE Tick
  BY <1>3, <1>a, <1>b, <1>c DEF Tick, guards
<1>4. ASSUME NEW t \in Token, Ask(t) PROVE FenceInv'
  BY <1>4, <1>a, <1>b, <1>c DEF Ask, Acquire
<1>5. ASSUME NEW t \in Token, GiveUp(t) PROVE FenceInv'
  BY <1>5, <1>a, <1>b, <1>c DEF GiveUp
<1>6. ASSUME NEW t \in Token, Renew(t) PROVE FenceInv'
  BY <1>6, <1>a, <1>b, <1>c DEF Renew, Extend
<1>7. ASSUME NEW t \in Token, RenewTimeout(t) PROVE FenceInv'
  BY <1>7, <1>a, <1>b, <1>c DEF RenewTimeout
<1>8. ASSUME NEW t \in Token, Start(t) PROVE FenceInv'
  BY <1>8, <1>a, <1>b, <1>c DEF Start
<1>9. ASSUME NEW t \in Token, DeadlineTimer(t) PROVE FenceInv'
  BY <1>9, <1>a, <1>b, <1>c DEF DeadlineTimer
<1>10. ASSUME NEW t \in Token, Release(t) PROVE FenceInv'
  BY <1>10, <1>a, <1>b, <1>c DEF Release, Free
<1>11. ASSUME NEW t \in Token, Crash(t) PROVE FenceInv'
  BY <1>11, <1>a, <1>b, <1>c DEF Crash
<1>12. ASSUME NEW a \in answers, AcquireAnswer(a) PROVE FenceInv'
  BY <1>12, <1>a, <1>b, <1>c DEF AcquireAnswer, LandGrant, Extend, Free
<1>13. ASSUME NEW a \in answers, RenewAnswer(a) PROVE FenceInv'
  BY <1>13, <1>a, <1>b, <1>c DEF RenewAnswer, Free
<1>14. ASSUME NEW a \in answers, IgnoreAnswer(a) PROVE FenceInv'
  BY <1>14, <1>a, <1>b, <1>c DEF IgnoreAnswer, guards
<1>15. CASE UNCHANGED vars
  BY <1>15 DEF vars
<1> QED
  BY <1>1, <1>2, <1>3, <1>4, <1>5, <1>6, <1>7, <1>8, <1>9, <1>10, <1>11, <1>12, <1>13, <1>14, <1>15 DEF Next

\* Fences order the grants: no two attempts are ever given the same one, and a guard that answers `held`
\* carries the newest the store has given out.
THEOREM FencesOrdered == Spec => []FencesOrderGrants
<1>1. Init => FenceInv
  BY DEF Init, FenceInv, Counted, Distinct
<1>2. FenceInv => FenceIsUnique
  BY DEF FenceInv, Distinct, FenceIsUnique
<1>3. IndInv => NewestFence
  BY BackedMeansDeadline DEF IndInv, Fenced, DeadlineWithinLease, NewestFence, Live
<1>4. IndInv /\ FenceInv => FencesOrderGrants
  BY <1>2, <1>3 DEF FencesOrderGrants
<1> QED BY <1>1, <1>4, FenceStep, Typing, Invariance, PTL DEF Spec
-----------------------------------------------------------------------------
(* Where no event loop stalls past a deadline timer *)

\* A callback starts only under a live lease: a short grant is renewed first, a stale one handed back.
THEOREM StartsUnderLease == ASSUME Stalls = FALSE PROVE Spec => StartsLive
<1> DEFINE P == \A t \in Token : running'[t] /\ ~running[t] => Live(t)'
<1>1. TypeOK /\ [Next]_vars => [P]_vars
  <2> SUFFICES ASSUME TypeOK, Next, NEW u \in Token, running'[u], ~running[u] PROVE Live(u)'
      BY DEF StartsLive
  <2> USE DEF TypeOK
  <2>1. ASSUME NEW t \in Token, Start(t) PROVE Live(u)'
    <3>1. running' = [running EXCEPT ![t] = TRUE] /\ UNCHANGED <<now, phase, deadline>>
      BY <2>1 DEF Start
    <3>2. u = t
      BY <3>1, Zenon
    <3> QED BY <2>1, <3>1, <3>2 DEF Start, OnTime, Live
  <2>2. ASSUME NEW a \in answers, AcquireAnswer(a) PROVE Live(u)'
    <3>1. a.token \in Token /\ a.sent \in Nat
      BY AnswerFacts DEF Time
    <3>2. LandGrant(a.token, a) /\ ~UNCHANGED running /\ UNCHANGED now
      BY <2>2, Zenon DEF AcquireAnswer
    <3>3. /\ phase' = [phase EXCEPT ![a.token] = "held"]
          /\ deadline' = [deadline EXCEPT ![a.token] = a.sent + TTL]
          /\ running' = [running EXCEPT ![a.token] = ~RenewsFirst(a.sent + TTL)]
          /\ now - a.sent < TTL
      BY <3>2 DEF LandGrant
    <3>4. u = a.token
      BY <3>3, Zenon
    <3> QED BY <3>1, <3>2, <3>3, <3>4, LeaseAssumption DEF Live, Time
  <2>3. Execute \/ Resend \/ Tick => UNCHANGED running
    BY DEF Execute, ExecuteAcquire, ExecuteExtend, ExecuteRelease, Resend, Tick, guards
  <2>4. \A t \in Token : Ask(t) \/ GiveUp(t) \/ Renew(t) \/ RenewTimeout(t) \/ DeadlineTimer(t) \/ Release(t)
                          \/ Crash(t) => UNCHANGED running
    BY DEF Ask, GiveUp, Renew, RenewTimeout, DeadlineTimer, Release, Crash
  <2>5. \A a \in answers : RenewAnswer(a) \/ IgnoreAnswer(a) => UNCHANGED running
    BY DEF RenewAnswer, IgnoreAnswer, guards
  <2> QED BY <2>1, <2>2, <2>3, <2>4, <2>5 DEF Next
<1> QED BY Typing, <1>1, PTL DEF Spec, StartsLive

\* A guard the store has passed over no longer answers `held`, and cannot be released any more.
Overtaken == \A t \in Token : overlapped[t] => \/ phase[t] = "held" /\ deadline[t] <= now
                                              \/ phase[t] \in {"lost", "crashed"}

LEMMA OvertakenStep == ASSUME Stalls = FALSE PROVE IndInv /\ Overtaken /\ [Next]_vars => Overtaken'
<1> SUFFICES ASSUME IndInv, Overtaken, [Next]_vars PROVE Overtaken'
    OBVIOUS
<1> USE LeaseAssumption DEF IndInv, TypeOK, Backed, Backs, Overtaken
<1>a. \A m \in calls : m \in Call /\ m.token \in Token /\ m.op \in {"acquire", "extend", "release"}
  BY CallFacts
<1>b. \A a \in answers : a \in Answer /\ a.token \in Token /\ a.op \in {"acquire", "extend"} /\ a.sent \in Nat
                           /\ a.fence \in Nat /\ (a.fence > 0 <=> a.op = "acquire" /\ Yes(a))
  BY AnswerFacts DEF Time
<1>c. now \in Nat
  BY DEF Time
<1>1. CASE Execute
  <2> PICK m \in calls : \/ m.op = "acquire" /\ ExecuteAcquire(m)
                         \/ m.op = "extend" /\ ExecuteExtend(m)
                         \/ m.op = "release" /\ ExecuteRelease(m)
      BY <1>1 DEF Execute
  <2>2. CASE m.op = "acquire" /\ ExecuteAcquire(m)
    BY <1>a, <1>b, <1>c, <2>2 DEF ExecuteAcquire, Answers, Reply, guards
  <2>3. CASE m.op = "extend" /\ ExecuteExtend(m)
    BY <1>a, <1>b, <1>c, <2>3 DEF ExecuteExtend, Answers, Reply, guards
  <2>4. CASE m.op = "release" /\ ExecuteRelease(m)
    BY <1>a, <1>b, <1>c, <2>4 DEF ExecuteRelease, guards
  <2> QED BY <2>2, <2>3, <2>4
<1>2. CASE Resend
  BY <1>2, <1>a, <1>b, <1>c DEF Resend, guards
<1>3. CASE Tick
  BY <1>3, <1>a, <1>b, <1>c DEF Tick, guards
<1>4. ASSUME NEW t \in Token, Ask(t) PROVE Overtaken'
  BY <1>4, <1>a, <1>b, <1>c DEF Ask, Acquire, OnTime
<1>5. ASSUME NEW t \in Token, GiveUp(t) PROVE Overtaken'
  BY <1>5, <1>a, <1>b, <1>c DEF GiveUp, OnTime
<1>6. ASSUME NEW t \in Token, Renew(t) PROVE Overtaken'
  BY <1>6, <1>a, <1>b, <1>c DEF Renew, Extend, OnTime
<1>7. ASSUME NEW t \in Token, RenewTimeout(t) PROVE Overtaken'
  BY <1>7, <1>a, <1>b, <1>c DEF RenewTimeout, OnTime
<1>8. ASSUME NEW t \in Token, Start(t) PROVE Overtaken'
  BY <1>8, <1>a, <1>b, <1>c DEF Start, OnTime
<1>9. ASSUME NEW t \in Token, DeadlineTimer(t) PROVE Overtaken'
  BY <1>9, <1>a, <1>b, <1>c DEF DeadlineTimer, OnTime
<1>10. ASSUME NEW t \in Token, Release(t) PROVE Overtaken'
  BY <1>10, <1>a, <1>b, <1>c DEF Release, Free, OnTime
<1>11. ASSUME NEW t \in Token, Crash(t) PROVE Overtaken'
  BY <1>11, <1>a, <1>b, <1>c DEF Crash, OnTime
<1>12. ASSUME NEW a \in answers, AcquireAnswer(a) PROVE Overtaken'
  BY <1>12, <1>a, <1>b, <1>c DEF AcquireAnswer, LandGrant, Extend, Free, OnTime
<1>13. ASSUME NEW a \in answers, RenewAnswer(a) PROVE Overtaken'
  BY <1>13, <1>a, <1>b, <1>c DEF RenewAnswer, Free, OnTime
<1>14. ASSUME NEW a \in answers, IgnoreAnswer(a) PROVE Overtaken'
  BY <1>14, <1>a, <1>b, <1>c DEF IgnoreAnswer, guards, OnTime
<1>15. CASE UNCHANGED vars
  BY <1>15 DEF vars
<1> QED
  BY <1>1, <1>2, <1>3, <1>4, <1>5, <1>6, <1>7, <1>8, <1>9, <1>10, <1>11, <1>12, <1>13, <1>14, <1>15 DEF Next

\* `run` gives the callback's value only when the key was granted to nobody else meanwhile.
THEOREM ValueIsExclusive == ASSUME Stalls = FALSE PROVE Spec => []ValueMeansExclusive
<1>1. Init => Overtaken
  BY DEF Init, Overtaken
<1>2. Overtaken => ValueMeansExclusive
  BY DEF Overtaken, ValueMeansExclusive
<1> QED BY <1>1, <1>2, OvertakenStep, Invariance, PTL DEF Spec
-----------------------------------------------------------------------------
(***************************************************************************)
(* The election loops (Lead) that run over such leases, for any set of     *)
(* candidates.  OneLeader is inductive once it is said that a live guard   *)
(* owns the store's lease and that a candidate with a guard has no acquire *)
(* under way.                                                              *)
(***************************************************************************)

\* A live guard owns the lease, and only the loop that waits for it or leads has one.
LeadOwned == \A c \in Candidate : guard[c] = "live" => lease = c /\ st[c] \in {"granted", "leading"}

\* A guard belongs to a term; an acquire is under way only outside of one.
LeadTerms == \A c \in Candidate :
            /\ guard[c] # "none" => st[c] \in {"granted", "leading", "stepping"}
            /\ call[c] # "none" => st[c] \in {"asking", "ended", "crashed"}

LeadInv == LeadTypeOK /\ LeadOwned /\ LeadTerms

LEMMA LeadInitInv == LeadInit => LeadInv
BY LeadAssumption DEF LeadInit, LeadInv, LeadTypeOK, State, LeadOwned, LeadTerms

\* Every step of every loop, the store and the environment keeps the invariant.
LEMMA LeadNextInv == LeadInv /\ [LeadNext]_leadVars => LeadInv'
<1> SUFFICES ASSUME LeadInv, [LeadNext]_leadVars PROVE LeadInv'
    OBVIOUS
<1> USE LeadAssumption DEF LeadInv, LeadTypeOK, State, LeadOwned, LeadTerms, Goto, WaitsFor
<1>1. ASSUME NEW c \in Candidate, Campaign(c) PROVE LeadInv'
  BY <1>1 DEF Campaign
<1>2. ASSUME NEW c \in Candidate, Decide(c) PROVE LeadInv'
  BY <1>2 DEF Decide
<1>3. ASSUME NEW c \in Candidate, Answered(c) PROVE LeadInv'
  <2>1. /\ st[c] = "asking" /\ call' = [call EXCEPT ![c] = "none"]
        /\ UNCHANGED <<aborted, failed, lease, rested>>
    BY <1>3 DEF Answered
  <2>2. CASE lease = c /\ Goto(c, "granted") /\ guard' = [guard EXCEPT ![c] = "live"] /\ UNCHANGED mayWake
    BY <2>1, <2>2
  <2>3. CASE WaitsFor(c, TRUE) /\ UNCHANGED guard
    BY <2>1, <2>3
  <2> QED BY <1>3, <2>2, <2>3, Zenon DEF Answered
<1>4. ASSUME NEW c \in Candidate, AttemptThrows(c) PROVE LeadInv'
  BY <1>4 DEF AttemptThrows
<1>5. ASSUME NEW c \in Candidate, LateAnswer(c) PROVE LeadInv'
  BY <1>5 DEF LateAnswer
<1>6. ASSUME NEW c \in Candidate, GrantLost(c) PROVE LeadInv'
  BY <1>6 DEF GrantLost
<1>7. ASSUME NEW c \in Candidate, Begin(c) PROVE LeadInv'
  <2>1. CASE Goto(c, "leading") /\ rested' = [rested EXCEPT ![c] = FALSE] /\ UNCHANGED <<guard, aborted, call, failed, mayWake, lease>>
    BY <1>7, <2>1 DEF Begin
  <2>2. CASE /\ Goto(c, "stepping")
             /\ guard' = [guard EXCEPT ![c] = "none"]
             /\ UNCHANGED <<rested, aborted, call, failed, mayWake, lease>>
    BY <1>7, <2>2 DEF Begin
  <2> QED BY <1>7, <2>1, <2>2, Zenon DEF Begin
<1>8. ASSUME NEW c \in Candidate, Settle(c) PROVE LeadInv'
  <2>1. /\ st[c] = "leading" /\ st' = [st EXCEPT ![c] = "stepping"]
        /\ UNCHANGED <<aborted, call, mayWake, lease, rested>>
    BY <1>8, Zenon DEF Settle
  <2>2. failed' \in [Candidate -> BOOLEAN]
    <3>1. PICK f \in BOOLEAN : failed' = [failed EXCEPT ![c] = f]
      <4>1. PICK f \in IF MayFail THEN BOOLEAN ELSE {FALSE} : failed' = [failed EXCEPT ![c] = f]
        BY <1>8, Zenon DEF Settle
      <4> QED BY <4>1
    <3> QED BY <3>1
  <2>3. guard' = [guard EXCEPT ![c] = IF guard[c] = "live" THEN "none" ELSE guard[c]]
    BY <1>8, Zenon DEF Settle
  <2>4. LeadTypeOK'
    BY <2>1, <2>2, <2>3
  <2>5. LeadOwned' /\ LeadTerms'
    BY <2>1, <2>3
  <2> QED BY <2>4, <2>5
<1>9. ASSUME NEW c \in Candidate, StepDown(c) PROVE LeadInv'
  <2>1. /\ st[c] = "stepping" /\ guard' = [guard EXCEPT ![c] = "none"] /\ UNCHANGED <<aborted, call, rested>>
        /\ failed' = [failed EXCEPT ![c] = FALSE]
        /\ lease' = lease \/ (lease = c /\ lease' = Nobody)
        /\ (Goto(c, "ended") /\ UNCHANGED mayWake) \/ WaitsFor(c, FALSE)
    BY <1>9, Zenon DEF StepDown
  <2>2. LeadTypeOK'
    BY <2>1
  <2>3. LeadOwned' /\ LeadTerms'
    BY <2>1
  <2> QED BY <2>2, <2>3
<1>10. ASSUME NEW c \in Candidate, Beat(c) PROVE LeadInv'
  BY <1>10 DEF Beat
<1>11. ASSUME NEW c \in Candidate, WakeUp(c) PROVE LeadInv'
  BY <1>11 DEF WakeUp
<1>12. ASSUME NEW c \in Candidate, Abort(c) PROVE LeadInv'
  BY <1>12 DEF Abort
<1>13. ASSUME NEW c \in Candidate, CrashLoop(c) PROVE LeadInv'
  BY <1>13 DEF CrashLoop
<1>14. ASSUME NEW c \in Candidate, Lose(c) PROVE LeadInv'
  BY <1>14 DEF Lose
<1>15. CASE Expire
  BY <1>15 DEF Expire
<1>16. CASE UNCHANGED leadVars
  BY <1>16 DEF leadVars
<1> QED
  BY <1>1, <1>2, <1>3, <1>4, <1>5, <1>6, <1>7, <1>8, <1>9, <1>10, <1>11, <1>12, <1>13, <1>14, <1>15, <1>16 DEF LeadNext

\* Every reachable state satisfies the inductive invariant.
THEOREM LeadInvariance == LeadSpec => []LeadInv
BY LeadInitInv, LeadNextInv, PTL DEF LeadSpec

\* At most one candidate runs fn with a signal no loss has aborted.
THEOREM AtMostOneLeader == LeadSpec => []OneLeader
<1>1. LeadInv => OneLeader
  BY DEF LeadInv, LeadOwned, OneLeader, Leads
<1> QED BY LeadInvariance, <1>1, PTL

\* The loops are well typed, and a loop that waits has neither a guard nor an acquire under way.
THEOREM LeadTyping == LeadSpec => []LeadTypeOK
<1>1. LeadInv => LeadTypeOK
  BY DEF LeadInv
<1> QED BY LeadInvariance, <1>1, PTL

\* A term begins by Begin and by nothing else.
LEMMA LeadsByBegin ==
    ASSUME LeadInv, LeadNext, NEW d \in Candidate, st[d] # "leading", st'[d] = "leading"
    PROVE  \E c \in Candidate : Begin(c)
<1> USE DEF LeadInv, LeadTypeOK, Goto, WaitsFor
<1>1. \A c \in Candidate : ~Campaign(c) /\ ~Decide(c) /\ ~Answered(c) /\ ~AttemptThrows(c) /\ ~LateAnswer(c)
  BY DEF Campaign, Decide, Answered, AttemptThrows, LateAnswer
<1>2. \A c \in Candidate : ~GrantLost(c) /\ ~Beat(c) /\ ~WakeUp(c)
  BY DEF GrantLost, Beat, WakeUp
<1>3. \A c \in Candidate : ~Settle(c)
  <2> SUFFICES ASSUME NEW c \in Candidate, Settle(c) PROVE FALSE
    OBVIOUS
  <2>1. st' = [st EXCEPT ![c] = "stepping"]
    BY Zenon DEF Settle
  <2> QED
    BY <2>1
<1>4. \A c \in Candidate : ~StepDown(c)
  <2> SUFFICES ASSUME NEW c \in Candidate, StepDown(c) PROVE FALSE
    OBVIOUS
  <2>1. Goto(c, "ended") \/ Goto(c, "waiting")
    BY Zenon DEF StepDown, WaitsFor
  <2> QED
    BY <2>1
<1>5. \A c \in Candidate : ~Abort(c) /\ ~CrashLoop(c) /\ ~Lose(c)
  BY DEF Abort, CrashLoop, Lose
<1>6. ~Expire
  BY DEF Expire
<1> QED
  BY <1>1, <1>2, <1>3, <1>4, <1>5, <1>6, Zenon DEF LeadNext

\* fn is never started under a signal that has aborted.
THEOREM NoTermAfterAbort == LeadSpec => NoLateTerm
<1> DEFINE P == \A c \in Candidate : st[c] # "leading" /\ st'[c] = "leading" => ~aborted[c] /\ Leads(c)'
<1>1. LeadInv /\ [LeadNext]_leadVars => [P]_leadVars
  <2> SUFFICES ASSUME LeadInv, LeadNext, NEW d \in Candidate, st[d] # "leading", st'[d] = "leading"
               PROVE  ~aborted[d] /\ Leads(d)'
    OBVIOUS
  <2>1. PICK c \in Candidate : Begin(c)
    BY LeadsByBegin
  <2>2. d = c
    BY <2>1 DEF Begin, Goto, LeadInv, LeadTypeOK
  <2>3. ~aborted[c] /\ guard[c] = "live" /\ UNCHANGED guard
    BY <2>1, <2>2 DEF Begin, Goto, LeadInv, LeadTypeOK
  <2> QED
    BY <2>2, <2>3 DEF Leads
<1> QED
  BY <1>1, LeadInvariance, PTL DEF LeadSpec, NoLateTerm

\* A loop that has not rested since its term is still on its way out of it: it leads, steps down, has stopped, or
\* waits without the store's hook.
Owes(c) == \/ st[c] \in {"leading", "stepping", "ended", "crashed"}
           \/ st[c] = "waiting" /\ ~mayWake[c]
Debts == \A c \in Candidate : rested[c] \/ Owes(c)

LEMMA DebtsKept == LeadInv /\ Debts /\ [LeadNext]_leadVars => Debts'
<1> SUFFICES ASSUME LeadInv, Debts, [LeadNext]_leadVars, NEW d \in Candidate PROVE (rested[d] \/ Owes(d))'
  BY DEF Debts
<1>1. /\ st \in [Candidate -> State] /\ mayWake \in [Candidate -> BOOLEAN] /\ rested \in [Candidate -> BOOLEAN]
      /\ rested[d] \/ Owes(d)
  BY DEF LeadInv, LeadTypeOK, Debts
<1> USE DEF Goto, WaitsFor, Owes
<1>2. ASSUME NEW c \in Candidate,
             Campaign(c) \/ Decide(c) \/ Answered(c) \/ AttemptThrows(c) \/ LateAnswer(c) \/ GrantLost(c)
      PROVE  (rested[d] \/ Owes(d))'
  BY <1>1, <1>2 DEF Campaign, Decide, Answered, AttemptThrows, LateAnswer, GrantLost
<1>3. ASSUME NEW c \in Candidate, Begin(c) PROVE (rested[d] \/ Owes(d))'
  BY <1>1, <1>3 DEF Begin
<1>4. ASSUME NEW c \in Candidate, Settle(c) PROVE (rested[d] \/ Owes(d))'
  <2>1. st' = [st EXCEPT ![c] = "stepping"] /\ UNCHANGED <<mayWake, rested>> /\ st[c] = "leading"
    BY <1>4, Zenon DEF Settle
  <2> QED
    BY <1>1, <2>1
<1>5. ASSUME NEW c \in Candidate, StepDown(c) PROVE (rested[d] \/ Owes(d))'
  <2>1. UNCHANGED rested /\ ((Goto(c, "ended") /\ UNCHANGED mayWake) \/ WaitsFor(c, FALSE))
    BY <1>5, Zenon DEF StepDown
  <2> QED
    BY <1>1, <2>1
<1>6. ASSUME NEW c \in Candidate, Beat(c) \/ WakeUp(c) PROVE (rested[d] \/ Owes(d))'
  BY <1>1, <1>6 DEF Beat, WakeUp
<1>7. ASSUME NEW c \in Candidate, Abort(c) \/ CrashLoop(c) \/ Lose(c) PROVE (rested[d] \/ Owes(d))'
  BY <1>1, <1>7 DEF Abort, CrashLoop, Lose
<1>8. CASE Expire \/ UNCHANGED leadVars
  BY <1>1, <1>8 DEF Expire, leadVars
<1> QED
  BY <1>2, <1>3, <1>4, <1>5, <1>6, <1>7, <1>8 DEF LeadNext

\* After a term a candidate waits a whole beat before it leads again: neither the store's wake-up hook, nor a lost
\* grant, nor a refused attempt shortens the wait (the `mayWake` of lead.ts).
THEOREM RestsAfterTerm == LeadSpec => RestsBetweenTerms
<1> DEFINE P == \A c \in Candidate : st[c] # "leading" /\ st'[c] = "leading" => rested[c]
<1>1. LeadInit => Debts
  BY DEF LeadInit, Debts
<1>2. LeadInv /\ Debts /\ [LeadNext]_leadVars => [P]_leadVars
  <2> SUFFICES ASSUME LeadInv, Debts, LeadNext, NEW d \in Candidate, st[d] # "leading", st'[d] = "leading"
               PROVE  rested[d]
    OBVIOUS
  <2>1. PICK c \in Candidate : Begin(c)
    BY LeadsByBegin
  <2>2. d = c /\ st[c] = "granted"
    BY <2>1 DEF Begin, Goto, LeadInv, LeadTypeOK
  <2> QED
    BY <2>2 DEF Debts, Owes
<1> QED
  BY <1>1, <1>2, LeadInvariance, DebtsKept, PTL DEF LeadSpec, RestsBetweenTerms
=============================================================================
