---------------------------- MODULE FileLockProofs ----------------------------
(***************************************************************************)
(* Proofs about FileLock, for any number of attempts and crashes and any   *)
(* `stale`.                                                                *)
(*                                                                         *)
(* That the owner's directory stays in place rests on two things.  Takers  *)
(* only move a lock that is dead, and nobody makes a dead lock young again *)
(* or releases it; and of the takers of one dead lock at most one is       *)
(* between its judgement and its move.  Guards alone do not give that, for *)
(* they are removed by path and stepped past: a taker relies on its guard  *)
(* only while its victim's lock is still in place, and once it is gone it  *)
(* never comes back, because the victim's token acquires no second time.   *)
(* A holder's own calls keep to the same rule: a release about to move     *)
(* finds its own lock, and a renewal that its guard waits for writes to    *)
(* its own.  All of it holds while no attempt was Exposed.                 *)
(***************************************************************************)
EXTENDS FileLock, TLAPS

\* An attempt that has not placed the lock yet.
Fresh(a) == a.pc \notin {"held", "ended", "crashed"} /\ a.try # "won"

\* Guarded, of an attempt's record.
InGuard(a) == \/ a.try \in {"guarded", "won"}
              \/ a.try = "guard" /\ a.pc \in {"judge", "check", "move", "identify", "restore", "sweep", "unguard"}

\* What each call of acquire works for, and what its local variables say of each other.
Shaped(a) ==
    /\ a.pc \in {"new", "stat", "owner", "held", "ended", "crashed"} => a.try = "first"
    /\ a.pc = "place" => a.try \in {"first", "second", "guard", "guarded"}
    /\ a.pc \in {"statGuard", "judge", "check", "move", "identify", "sweep"} => a.try = "guard"
    /\ a.pc = "unguard" => a.try \in {"guard", "guarded", "won"}
    /\ a.pc # "restore"
    /\ a.try \in {"first", "second"} => a.passed = {} /\ a.step = 0
    /\ a.try = "guard" /\ a.pc \in {"place", "statGuard", "judge", "check", "move"} =>
         \A s \in Nat : s < a.step => s \in a.passed
    /\ a.pc \in {"check", "move", "identify", "sweep"} => a.victim # NoToken
    /\ a.pc = "identify" => a.moved.owner = a.victim
    /\ a.built <= a.sent \/ a.sent >= Stale

\* Whose the lock is: the one that trusts it; and a taker about to move it has its victim's, dead.
Placed(t, a, l) ==
    /\ Fresh(a) => l.owner # t
    /\ a.pc = "held" /\ a.trust < Stale => l.owner = t /\ l.age <= a.trust
    /\ a.try = "won" /\ a.sent < Stale => l.owner = t /\ l.age <= a.sent
    /\ a.pc \in {"identify", "sweep"} => l.owner # a.victim
    /\ a.pc = "move" => l.owner = a.victim
    /\ a.pc \in {"check", "move"} /\ l.owner = a.victim => Dead(l.age)

\* While its victim's lock is in place, a taker's guard is there and the ones it stepped past are dead.
Covered(t, a, l, gs) ==
    l.owner = a.victim /\ a.victim # NoToken =>
      /\ InGuard(a) => \E g \in gs : g.victim = a.victim /\ g.step = a.step /\ g.owner = t
      /\ \A s \in a.passed : \E g \in gs : g.victim = a.victim /\ g.step = s /\ Dead(g.age)

\* A victim acquires no more.
Judged(a, v) == a.victim # NoToken => ~Fresh(v)

\* The calls of the guard and of the renewal: a release that read its own token still finds its own
\* lock, and a renewal the guard still waits for is about to write to its own.
InTime(t, a, cs, l) ==
    /\ a.pc \notin {"held", "ended"} => \A h \in Thread : cs[h].pc = "none"
    /\ a.pc = "held" => /\ cs["guard"].pc = "none" /\ cs["renewal"].pc \in {"none"} \cup Extending
                        /\ cs["renewal"].pc \in {"extClock", "utimes"} => l.owner = t
                        /\ cs["renewal"].pc \in Extending => cs["renewal"].built <= cs["renewal"].sent \/ cs["renewal"].sent >= Stale
    /\ \A h \in Thread : /\ Looked(cs[h]) => l.owner = t
                         /\ cs[h].pc # "restore"
                         /\ cs[h].pc = "identify" => cs[h].moved.owner = t

\* One guard per path.
Single(gs) == \A g, h \in gs : g.victim = h.victim /\ g.step = h.step => g = h

\* No circumstance applies.
Sheltered(t) == /\ ~DeadGuard(t) /\ ~NoVictim(t) /\ ~DeadRelease(t)
                /\ ~DeadRenewal(t) /\ ~OldClock(t) /\ ~TwoReleases(t)

Good == /\ \A t \in Token : /\ Shaped(at[t]) /\ Placed(t, at[t], lock)
                            /\ Covered(t, at[t], lock, guards)
                            /\ Judged(at[t], at[at[t].victim])
                            /\ InTime(t, at[t], calls[t], lock)
        /\ Single(guards)
        /\ \A t \in Token : Sheltered(t)

IndInv == TypeOK /\ (~exposed => Good)
-----------------------------------------------------------------------------
(* The attempts' records *)

Try == {"first", "second", "guard", "guarded", "won"}

\* The record b, field by field.
Has(b, p, w, bu, v, s, ps, m, se, tr) ==
    /\ b \in Attempt
    /\ b.pc = p /\ b.try = w /\ b.built = bu /\ b.victim = v /\ b.step = s /\ b.passed = ps
    /\ b.moved = m /\ b.sent = se /\ b.trust = tr

\* The step gives t's record these fields, keeps `sent` and `trust`, and touches no other attempt.
Sets(t, p, w, bu, v, s, ps, m) ==
    /\ at' \in [Token -> Attempt] /\ \A u \in Token : u # t => at'[u] = at[u]
    /\ Has(at'[t], p, w, bu, v, s, ps, m, at[t].sent, at[t].trust)

LEMMA BlankHas == ASSUME NEW l \in PC PROVE Has(Blank(l), l, "first", 0, NoToken, 0, {}, Absent, 0, 0)
BY FileAssumption DEF Has, Blank, Absent, Attempt, Lock, Age

LEMMA HolderHas == ASSUME NEW a \in Age PROVE Has(Holder(a), "held", "first", 0, NoToken, 0, {}, Absent, 0, a)
BY FileAssumption DEF Has, Holder, Blank, Absent, Attempt, Lock, Age, PC

LEMMA OlderFacts ==
    ASSUME NEW a \in Age
    PROVE  /\ a \in Nat /\ Older(a) \in Age /\ Older(a) \in Nat /\ a <= Older(a) /\ Older(a) > 0
           /\ a < Stale => Older(a) = a + 1
           /\ Later(a) \in Age /\ Later(a) \in Nat
           /\ \A b \in Age : a <= b \/ b >= Stale => Older(a) <= Later(b) \/ Later(b) >= Stale
           /\ \A b \in Age : a <= b \/ b >= Stale => a <= Later(b) \/ Later(b) >= Stale
           /\ Later(a) < Stale => a < Stale /\ \A b \in Age : b <= a => Older(b) <= Later(a)
BY FileAssumption DEF Older, Later, Age

\* One attempt's record is replaced.
LEMMA BecomesFacts ==
    ASSUME at \in [Token -> Attempt], NEW t \in Token, NEW a \in Attempt, Becomes(t, a)
    PROVE  at' \in [Token -> Attempt] /\ at'[t] = a /\ \A u \in Token : u # t => at'[u] = at[u]
BY DEF Becomes

LEMMA GotoSets ==
    ASSUME at \in [Token -> Attempt], NEW t \in Token, NEW l \in PC, Goto(t, l)
    PROVE  Sets(t, l, at[t].try, at[t].built, at[t].victim, at[t].step, at[t].passed, at[t].moved)
BY DEF Goto, Sets, Has, Attempt

LEMMA PcTry ==
    ASSUME NEW a \in Attempt, NEW p \in PC, NEW w \in Try
    PROVE  Has([a EXCEPT !.pc = p, !.try = w], p, w, a.built, a.victim, a.step, a.passed, a.moved, a.sent, a.trust)
<1> DEFINE b == [a EXCEPT !.pc = p]
<1>1. Has(b, p, a.try, a.built, a.victim, a.step, a.passed, a.moved, a.sent, a.trust)
  BY DEF Has, Attempt
<1> HIDE DEF b
<1>2. Has([b EXCEPT !.try = w], p, w, a.built, a.victim, a.step, a.passed, a.moved, a.sent, a.trust)
  BY <1>1 DEF Has, Attempt, Try
<1> QED
  BY <1>2, Zenon DEF b

LEMMA PcTryBuilt ==
    ASSUME NEW a \in Attempt, NEW p \in PC, NEW w \in Try
    PROVE  Has([a EXCEPT !.pc = p, !.try = w, !.built = 0],
               p, w, 0, a.victim, a.step, a.passed, a.moved, a.sent, a.trust)
<1> DEFINE b == [a EXCEPT !.pc = p, !.try = w]
<1>1. Has(b, p, w, a.built, a.victim, a.step, a.passed, a.moved, a.sent, a.trust)
  BY PcTry
<1> HIDE DEF b
<1>2. Has([b EXCEPT !.built = 0], p, w, 0, a.victim, a.step, a.passed, a.moved, a.sent, a.trust)
  BY <1>1, FileAssumption DEF Has, Attempt, Age
<1> QED
  BY <1>2, Zenon DEF b

LEMMA PcTryVictim ==
    ASSUME NEW a \in Attempt, NEW p \in PC, NEW w \in Try, NEW v \in Token \cup {NoToken}
    PROVE  Has([a EXCEPT !.pc = p, !.try = w, !.victim = v],
               p, w, a.built, v, a.step, a.passed, a.moved, a.sent, a.trust)
<1> DEFINE b == [a EXCEPT !.pc = p, !.try = w]
<1>1. Has(b, p, w, a.built, a.victim, a.step, a.passed, a.moved, a.sent, a.trust)
  BY PcTry
<1> HIDE DEF b
<1>2. Has([b EXCEPT !.victim = v], p, w, a.built, v, a.step, a.passed, a.moved, a.sent, a.trust)
  BY <1>1 DEF Has, Attempt
<1> QED
  BY <1>2, Zenon DEF b

LEMMA PcBuilt ==
    ASSUME NEW a \in Attempt, NEW p \in PC
    PROVE  Has([a EXCEPT !.pc = p, !.built = 0], p, a.try, 0, a.victim, a.step, a.passed, a.moved, a.sent, a.trust)
<1> DEFINE b == [a EXCEPT !.pc = p]
<1>1. Has(b, p, a.try, a.built, a.victim, a.step, a.passed, a.moved, a.sent, a.trust) /\ 0 \in Age
  BY FileAssumption DEF Has, Attempt, Age
<1> HIDE DEF b
<1>2. Has([b EXCEPT !.built = 0], p, a.try, 0, a.victim, a.step, a.passed, a.moved, a.sent, a.trust)
  BY <1>1 DEF Has, Attempt
<1> QED
  BY <1>2, Zenon DEF b

LEMMA PcMoved ==
    ASSUME NEW a \in Attempt, NEW p \in PC, NEW m \in Lock
    PROVE  Has([a EXCEPT !.pc = p, !.moved = m], p, a.try, a.built, a.victim, a.step, a.passed, m, a.sent, a.trust)
<1> DEFINE b == [a EXCEPT !.pc = p]
<1>1. Has(b, p, a.try, a.built, a.victim, a.step, a.passed, a.moved, a.sent, a.trust)
  BY DEF Has, Attempt
<1> HIDE DEF b
<1>2. Has([b EXCEPT !.moved = m], p, a.try, a.built, a.victim, a.step, a.passed, m, a.sent, a.trust)
  BY <1>1 DEF Has, Attempt
<1> QED
  BY <1>2, Zenon DEF b

LEMMA PcStepPassed ==
    ASSUME NEW a \in Attempt, NEW p \in PC, NEW s \in Nat, NEW ps \in SUBSET Nat
    PROVE  Has([a EXCEPT !.pc = p, !.step = s, !.passed = ps],
               p, a.try, a.built, a.victim, s, ps, a.moved, a.sent, a.trust)
<1> DEFINE b == [a EXCEPT !.pc = p]
           d == [b EXCEPT !.step = s]
<1>1. Has(b, p, a.try, a.built, a.victim, a.step, a.passed, a.moved, a.sent, a.trust)
  BY DEF Has, Attempt
<1> HIDE DEF b
<1>2. Has(d, p, a.try, a.built, a.victim, s, a.passed, a.moved, a.sent, a.trust)
  BY <1>1 DEF Has, Attempt
<1> HIDE DEF d
<1>3. Has([d EXCEPT !.passed = ps], p, a.try, a.built, a.victim, s, ps, a.moved, a.sent, a.trust)
  BY <1>2 DEF Has, Attempt
<1> QED
  BY <1>3, Zenon DEF b, d

LEMMA PlaceForSets ==
    ASSUME at \in [Token -> Attempt], NEW t \in Token, NEW w \in Try, PlaceFor(t, w)
    PROVE  Sets(t, "place", w, at[t].built, at[t].victim, at[t].step, at[t].passed, at[t].moved)
<1> DEFINE a == [at[t] EXCEPT !.pc = "place", !.try = w]
<1>1. Becomes(t, a)
  BY DEF PlaceFor, Becomes
<1>2. Has(a, "place", w, at[t].built, at[t].victim, at[t].step, at[t].passed, at[t].moved, at[t].sent, at[t].trust)
  BY PcTry DEF PC
<1> HIDE DEF a
<1> QED
  BY <1>1, <1>2, BecomesFacts DEF Sets, Has

\* What each call of acquire does to the attempt that makes it.
LEMMA CallEffects ==
    ASSUME TypeOK, NEW t \in Token
    PROVE  LET b == at[t]
               Stays(p, w, bu) == Sets(t, p, w, bu, b.victim, b.step, b.passed, b.moved)
           IN
           /\ Ask(t) => Stays("place", "first", b.built)
           /\ Stat(t) => Stays("place", "second", b.built) \/ Becomes(t, Blank("new")) \/ Stays("owner", b.try, b.built)
           /\ ReadVictim(t) => Sets(t, "place", "guard", b.built, lock.owner, b.step, b.passed, b.moved)
           /\ PlaceGuard(t) => Stays(IF GuardAt(b.victim, b.step) = {} THEN "judge" ELSE "statGuard", b.try, 0)
           /\ Judge(t) => \/ Stays("place", "guarded", b.built) /\ lock.owner = NoToken
                          \/ Stays("unguard", b.try, b.built)
                          \/ Stays("check", b.try, b.built) /\ lock.owner # NoToken /\ Dead(lock.age)
           /\ Check(t) => Stays(IF lock.owner = b.victim THEN "move" ELSE "unguard", b.try, b.built)
<1> DEFINE b == at[t]
           Stays(p, w, bu) == Sets(t, p, w, bu, b.victim, b.step, b.passed, b.moved)
<1>1. at \in [Token -> Attempt] /\ b \in Attempt /\ b.try \in Try /\ lock.owner \in Token \cup {NoToken}
  BY DEF TypeOK, Attempt, Lock, Try
<1>2. ASSUME NEW w \in Try, PlaceFor(t, w) PROVE Stays("place", w, b.built)
  BY <1>1, <1>2, PlaceForSets
<1>3. ASSUME NEW l \in PC, Goto(t, l) PROVE Stays(l, b.try, b.built)
  BY <1>1, <1>3, GotoSets
<1> HIDE DEF b
<1>4. Ask(t) => Stays("place", "first", b.built)
  BY <1>2 DEF Ask, Try
<1>5. Stat(t) => Stays("place", "second", b.built) \/ Becomes(t, Blank("new")) \/ Stays("owner", b.try, b.built)
  BY <1>2, <1>3 DEF Stat, Try, PC
<1>6. ASSUME ReadVictim(t) PROVE Sets(t, "place", "guard", b.built, lock.owner, b.step, b.passed, b.moved)
  <2> DEFINE a == [at[t] EXCEPT !.pc = "place", !.try = "guard", !.victim = lock.owner]
  <2>1. Becomes(t, a)
    BY <1>6 DEF ReadVictim, Becomes
  <2>2. Has(a, "place", "guard", b.built, lock.owner, b.step, b.passed, b.moved, b.sent, b.trust)
    BY <1>1, PcTryVictim DEF PC, Try, b
  <2> HIDE DEF a
  <2> QED
    BY <1>1, <2>1, <2>2, BecomesFacts DEF Sets, Has, b
<1>7. ASSUME PlaceGuard(t) PROVE Stays(IF GuardAt(b.victim, b.step) = {} THEN "judge" ELSE "statGuard", b.try, 0)
  <2> DEFINE l == IF GuardAt(at[t].victim, at[t].step) = {} THEN "judge" ELSE "statGuard"
             a == [at[t] EXCEPT !.pc = l, !.built = 0]
  <2>1. Becomes(t, a)
    BY <1>7 DEF PlaceGuard, Becomes
  <2>2. Has(a, l, b.try, 0, b.victim, b.step, b.passed, b.moved, b.sent, b.trust)
    <3>1. l \in PC
      BY DEF PC
    <3> HIDE DEF l
    <3> QED
      BY <1>1, <3>1, PcBuilt DEF b
  <2> HIDE DEF a, l
  <2>3. Stays(l, b.try, 0)
    BY <1>1, <2>1, <2>2, BecomesFacts DEF Sets, Has, b
  <2> QED
    BY <2>3 DEF l, b
<1>8. Judge(t) => \/ Stays("place", "guarded", b.built) /\ lock.owner = NoToken
                  \/ Stays("unguard", b.try, b.built)
                  \/ Stays("check", b.try, b.built) /\ lock.owner # NoToken /\ Dead(lock.age)
  BY <1>2, <1>3 DEF Judge, Try, PC
<1>9. ASSUME Check(t) PROVE Stays(IF lock.owner = b.victim THEN "move" ELSE "unguard", b.try, b.built)
  <2> DEFINE l == IF lock.owner = at[t].victim THEN "move" ELSE "unguard"
  <2>1. Goto(t, l) /\ l \in PC
    BY <1>9 DEF Check, PC
  <2> HIDE DEF l
  <2>2. Stays(l, b.try, b.built)
    BY <1>3, <2>1
  <2> QED
    BY <2>2 DEF l, b
<1> QED
  BY <1>4, <1>5, <1>6, <1>7, <1>8, <1>9 DEF b

CallPC == {"none", "relOwner", "relStat", "move", "identify", "restore"} \cup Extending

LEMMA CallingHas ==
    ASSUME NEW l \in CallPC
    PROVE  /\ Calling(l) \in Call /\ Calling(l).pc = l /\ Calling(l).built = 0 /\ Calling(l).sent = 0
           /\ Absent \in Lock /\ Calling(l).moved = Absent
BY FileAssumption DEF Calling, Call, CallPC, Absent, Lock, Age

\* The step makes c of t's call in thread h, and touches no other call.
OneCall(t, h, c) ==
    /\ calls' \in [Token -> [Thread -> Call]] /\ calls'[t][h] = c
    /\ \A k \in Thread : k # h => calls'[t][k] = calls[t][k]
    /\ \A u \in Token : u # t => calls'[u] = calls[u]

LEMMA CallsFacts ==
    ASSUME calls \in [Token -> [Thread -> Call]], NEW t \in Token, NEW h \in Thread, NEW c \in Call, Calls(t, h, c)
    PROVE  OneCall(t, h, c)
<1> DEFINE f == [calls[t] EXCEPT ![h] = c]
<1>1. calls' = [calls EXCEPT ![t] = f]
  BY DEF Calls
<1>2. f \in [Thread -> Call] /\ f[h] = c /\ \A k \in Thread : k # h => f[k] = calls[t][k]
  OBVIOUS
<1> HIDE DEF f
<1> QED
  BY <1>1, <1>2 DEF OneCall

LEMMA CallGoes ==
    ASSUME calls \in [Token -> [Thread -> Call]], NEW t \in Token, NEW h \in Thread, NEW l \in CallPC,
           calls' = [calls EXCEPT ![t][h].pc = l]
    PROVE  LET b == calls[t][h] IN
           \E c \in Call : /\ OneCall(t, h, c)
                           /\ c.pc = l /\ c.built = b.built /\ c.sent = b.sent /\ c.moved = b.moved
<1> DEFINE c == [calls[t][h] EXCEPT !.pc = l]
<1>1. calls[t][h] \in Call
  OBVIOUS
<1>2. /\ c \in Call /\ c.pc = l /\ c.built = calls[t][h].built /\ c.sent = calls[t][h].sent
      /\ c.moved = calls[t][h].moved
  BY <1>1 DEF Call, CallPC
<1>3. Calls(t, h, c)
  BY DEF Calls
<1> HIDE DEF c
<1>4. OneCall(t, h, c)
  BY <1>2, <1>3, CallsFacts
<1> QED
  BY <1>2, <1>4

\* The manager has a grant: it holds, or it gives a stale one back.
LEMMA GrantedEffects ==
    ASSUME TypeOK, NEW t \in Token, Granted(t)
    PROVE  /\ at' \in [Token -> Attempt] /\ \A u \in Token : u # t => at'[u] = at[u]
           /\ \/ /\ at[t].sent < Stale /\ UNCHANGED calls
                 /\ Has(at'[t], "held", "first", 0, NoToken, 0, {}, Absent, 0, at[t].sent)
              \/ /\ at[t].sent >= Stale /\ OneCall(t, "guard", Calling("relOwner"))
                 /\ Has(at'[t], "ended", "first", 0, NoToken, 0, {}, Absent, 0, 0)
<1>1. at \in [Token -> Attempt] /\ at[t].sent \in Age /\ calls \in [Token -> [Thread -> Call]]
      /\ "ended" \in PC /\ "relOwner" \in CallPC /\ "guard" \in Thread /\ Stale \in Nat /\ at[t].sent \in Nat
  BY FileAssumption DEF TypeOK, Attempt, PC, CallPC, Thread, Age
<1>2. CASE at[t].sent < Stale
  <2>1. Becomes(t, Holder(at[t].sent)) /\ UNCHANGED calls
    BY <1>2 DEF Granted
  <2>2. Has(Holder(at[t].sent), "held", "first", 0, NoToken, 0, {}, Absent, 0, at[t].sent)
    BY <1>1, HolderHas
  <2>3. Holder(at[t].sent) \in Attempt
    BY <2>2 DEF Has
  <2> QED
    BY <1>1, <1>2, <2>1, <2>2, <2>3, BecomesFacts
<1>3. CASE ~(at[t].sent < Stale)
  <2>1. Becomes(t, Blank("ended")) /\ Calls(t, "guard", Calling("relOwner"))
    BY <1>3 DEF Granted
  <2>2. Has(Blank("ended"), "ended", "first", 0, NoToken, 0, {}, Absent, 0, 0)
    BY <1>1, BlankHas
  <2>3. Blank("ended") \in Attempt
    BY <2>2 DEF Has
  <2>4. OneCall(t, "guard", Calling("relOwner"))
    BY <1>1, <2>1, CallsFacts, CallingHas
  <2> QED
    BY <1>1, <1>3, <2>1, <2>2, <2>3, <2>4, BecomesFacts
<1> QED
  BY <1>2, <1>3

LEMMA PlaceEffects ==
    ASSUME TypeOK, NEW t \in Token, PlaceLock(t)
    PROVE  LET b == at[t]
               Stays(p, w) == Sets(t, p, w, 0, b.victim, b.step, b.passed, b.moved)
           IN
           \/ /\ lock.owner = NoToken /\ \E age \in 0..b.built : lock' = [owner |-> t, age |-> age]
              /\ \/ b.try = "guarded" /\ Stays("unguard", "won") /\ UNCHANGED calls
                 \/ b.try # "guarded" /\ Granted(t)
           \/ /\ lock.owner # NoToken /\ UNCHANGED <<lock, calls>>
              /\ \/ b.try = "first" /\ Stays("stat", b.try)
                 \/ b.try = "guarded" /\ Stays("unguard", b.try)
                 \/ Becomes(t, Blank("new"))
<1> DEFINE b == at[t]
           Stays(p, w) == Sets(t, p, w, 0, b.victim, b.step, b.passed, b.moved)
<1>1. at \in [Token -> Attempt] /\ b \in Attempt /\ b.try \in Try /\ "won" \in Try
  BY DEF TypeOK, Attempt, Try
<1>2. ASSUME NEW p \in PC, Becomes(t, [at[t] EXCEPT !.pc = p, !.built = 0]) PROVE Stays(p, b.try)
  <2> DEFINE a == [at[t] EXCEPT !.pc = p, !.built = 0]
  <2>1. Has(a, p, b.try, 0, b.victim, b.step, b.passed, b.moved, b.sent, b.trust)
    BY <1>1, PcBuilt
  <2>2. Becomes(t, a)
    BY <1>2
  <2> HIDE DEF a
  <2> QED
    BY <1>1, <2>1, <2>2, BecomesFacts DEF Sets, Has
<1>3. ASSUME Becomes(t, [at[t] EXCEPT !.pc = "unguard", !.try = "won", !.built = 0]) PROVE Stays("unguard", "won")
  <2> DEFINE a == [at[t] EXCEPT !.pc = "unguard", !.try = "won", !.built = 0]
  <2>1. Has(a, "unguard", "won", 0, b.victim, b.step, b.passed, b.moved, b.sent, b.trust)
    BY <1>1, PcTryBuilt DEF PC
  <2>2. Becomes(t, a)
    BY <1>3
  <2> HIDE DEF a
  <2> QED
    BY <1>1, <2>1, <2>2, BecomesFacts DEF Sets, Has
<1>4. CASE lock.owner = NoToken
  <2>1. \E age \in 0..b.built : lock' = [owner |-> t, age |-> age]
    BY <1>4 DEF PlaceLock
  <2>2. CASE b.try = "guarded"
    <3>1. Becomes(t, [at[t] EXCEPT !.pc = "unguard", !.try = "won", !.built = 0]) /\ UNCHANGED calls
      BY <1>4, <2>2, Zenon DEF PlaceLock
    <3> QED
      BY <1>3, <1>4, <2>1, <2>2, <3>1
  <2>3. CASE b.try # "guarded"
    <3>1. Granted(t)
      BY <1>4, <2>3, Zenon DEF PlaceLock
    <3> QED
      BY <1>4, <2>1, <2>3, <3>1
  <2> QED
    BY <2>2, <2>3
<1>5. CASE lock.owner # NoToken
  <2>1. UNCHANGED <<lock, calls>>
    BY <1>5 DEF PlaceLock
  <2> DEFINE x == [at[t] EXCEPT !.pc = "stat", !.built = 0]
             y == [at[t] EXCEPT !.pc = "unguard", !.built = 0]
  <2>2. Becomes(t, CASE b.try = "first" -> x [] b.try = "guarded" -> y [] OTHER -> Blank("new"))
    BY <1>5, Zenon DEF PlaceLock
  <2>3. (b.try = "first" /\ Becomes(t, x)) \/ (b.try = "guarded" /\ Becomes(t, y)) \/ Becomes(t, Blank("new"))
    <3> HIDE DEF x, y
    <3> QED
      BY <2>2
  <2>4. "stat" \in PC /\ "unguard" \in PC
    BY DEF PC
  <2> QED
    BY <1>2, <1>5, <2>1, <2>3, <2>4
<1> QED
  BY <1>4, <1>5

LEMMA NotRemovedEffects ==
    ASSUME TypeOK, NEW t \in Token, Becomes(t, NotRemoved(t))
    PROVE  LET b == at[t] IN Sets(t, "unguard", b.try, b.built, b.victim, b.step, b.passed, Absent)
<1> DEFINE b == at[t]
           a == [at[t] EXCEPT !.pc = "unguard", !.moved = Absent]
<1>1. at \in [Token -> Attempt] /\ b \in Attempt /\ Absent \in Lock /\ "unguard" \in PC
  BY FileAssumption DEF TypeOK, Absent, Lock, Age, PC
<1>2. Becomes(t, a)
  BY Zenon DEF NotRemoved
<1>3. Has(a, "unguard", b.try, b.built, b.victim, b.step, b.passed, Absent, b.sent, b.trust)
  BY <1>1, PcMoved
<1> HIDE DEF a
<1> QED
  BY <1>1, <1>2, <1>3, BecomesFacts DEF Sets, Has

LEMMA ReapEffects ==
    ASSUME TypeOK, NEW t \in Token
    PROVE  LET b == at[t] IN
           /\ StatGuard(t) =>
                IF \E g \in GuardAt(b.victim, b.step) : Dead(g.age)
                THEN Sets(t, "place", b.try, b.built, b.victim, b.step + 1, b.passed \cup {b.step}, b.moved)
                ELSE Becomes(t, Blank("new"))
           /\ Move(t) =>
                \/ lock.owner = NoToken /\ Becomes(t, NotRemoved(t)) /\ UNCHANGED lock
                \/ /\ lock.owner # NoToken /\ lock' = Absent
                   /\ Sets(t, "identify", b.try, b.built, b.victim, b.step, b.passed, lock)
           /\ Identify(t) =>
                IF b.moved.owner # b.victim
                THEN Sets(t, "restore", b.try, b.built, b.victim, b.step, b.passed, b.moved)
                ELSE Sets(t, "sweep", b.try, b.built, b.victim, b.step, b.passed, Absent)
           /\ Sweep(t) =>
                \/ /\ b.passed = {} /\ UNCHANGED guards
                   /\ Sets(t, "place", "guarded", b.built, b.victim, b.step, b.passed, b.moved)
                \/ \E s \in b.passed : /\ guards' = guards \ GuardAt(b.victim, s)
                                       /\ Sets(t, "sweep", b.try, b.built, b.victim, b.step, b.passed \ {s}, b.moved)
<1> DEFINE b == at[t]
<1>1. /\ at \in [Token -> Attempt] /\ b \in Attempt /\ lock \in Lock
      /\ b.step \in Nat /\ b.passed \subseteq Nat /\ Absent \in Lock
  BY FileAssumption DEF TypeOK, Attempt, Absent, Lock, Age
<1>2. ASSUME StatGuard(t)
      PROVE  IF \E g \in GuardAt(b.victim, b.step) : Dead(g.age)
             THEN Sets(t, "place", b.try, b.built, b.victim, b.step + 1, b.passed \cup {b.step}, b.moved)
             ELSE Becomes(t, Blank("new"))
  <2>1. CASE \E g \in GuardAt(b.victim, b.step) : Dead(g.age)
    <3> DEFINE s == b.step + 1
               ps == b.passed \cup {b.step}
               a == [at[t] EXCEPT !.pc = "place", !.step = s, !.passed = ps]
    <3>1. Becomes(t, a)
      BY <1>2, <2>1 DEF StatGuard, Becomes
    <3>2. s \in Nat /\ ps \in SUBSET Nat /\ "place" \in PC
      BY <1>1 DEF PC
    <3> HIDE DEF s, ps
    <3>3. Has(a, "place", b.try, b.built, b.victim, s, ps, b.moved, b.sent, b.trust)
      BY <1>1, <3>2, PcStepPassed
    <3> HIDE DEF a
    <3>4. Sets(t, "place", b.try, b.built, b.victim, s, ps, b.moved)
      BY <1>1, <3>1, <3>3, BecomesFacts DEF Sets, Has
    <3> QED
      BY <2>1, <3>4 DEF s, ps
  <2>2. CASE ~\E g \in GuardAt(b.victim, b.step) : Dead(g.age)
    BY <1>2, <2>2 DEF StatGuard
  <2> QED
    BY <2>1, <2>2
<1>3. ASSUME Move(t)
      PROVE  \/ lock.owner = NoToken /\ Becomes(t, NotRemoved(t)) /\ UNCHANGED lock
             \/ /\ lock.owner # NoToken /\ lock' = Absent
                /\ Sets(t, "identify", b.try, b.built, b.victim, b.step, b.passed, lock)
  <2>1. CASE lock.owner = NoToken
    BY <1>3, <2>1 DEF Move
  <2>2. CASE lock.owner # NoToken
    <3> DEFINE a == [at[t] EXCEPT !.pc = "identify", !.moved = lock]
    <3>1. Becomes(t, a) /\ lock' = Absent
      BY <1>3, <2>2 DEF Move, Becomes
    <3>2. Has(a, "identify", b.try, b.built, b.victim, b.step, b.passed, lock, b.sent, b.trust)
      BY <1>1, PcMoved DEF PC
    <3> HIDE DEF a
    <3>3. Sets(t, "identify", b.try, b.built, b.victim, b.step, b.passed, lock)
      BY <1>1, <3>1, <3>2, BecomesFacts DEF Sets, Has
    <3> QED
      BY <2>2, <3>1, <3>3
  <2> QED
    BY <2>1, <2>2
<1>4. ASSUME Identify(t)
      PROVE  IF b.moved.owner # b.victim
             THEN Sets(t, "restore", b.try, b.built, b.victim, b.step, b.passed, b.moved)
             ELSE Sets(t, "sweep", b.try, b.built, b.victim, b.step, b.passed, Absent)
  <2> DEFINE x == [at[t] EXCEPT !.pc = "restore"]
             y == [at[t] EXCEPT !.pc = "sweep", !.moved = Absent]
  <2>1. Becomes(t, IF b.moved.owner = b.victim THEN y ELSE x)
    BY <1>4, Zenon DEF Identify
  <2>2. Has(x, "restore", b.try, b.built, b.victim, b.step, b.passed, b.moved, b.sent, b.trust)
    BY <1>1 DEF Has, Attempt, PC
  <2>3. Has(y, "sweep", b.try, b.built, b.victim, b.step, b.passed, Absent, b.sent, b.trust)
    BY <1>1, PcMoved DEF PC
  <2> HIDE DEF x, y
  <2>4. CASE b.moved.owner # b.victim
    <3>1. Becomes(t, x)
      BY <2>1, <2>4
    <3> QED
      BY <1>1, <2>2, <2>4, <3>1, BecomesFacts DEF Sets, Has
  <2>5. CASE b.moved.owner = b.victim
    <3>1. Becomes(t, y)
      BY <2>1, <2>5
    <3> QED
      BY <1>1, <2>3, <2>5, <3>1, BecomesFacts DEF Sets, Has
  <2> QED
    BY <2>4, <2>5
<1>5. ASSUME Sweep(t)
      PROVE  \/ /\ b.passed = {} /\ UNCHANGED guards
                /\ Sets(t, "place", "guarded", b.built, b.victim, b.step, b.passed, b.moved)
             \/ \E s \in b.passed : /\ guards' = guards \ GuardAt(b.victim, s)
                                    /\ Sets(t, "sweep", b.try, b.built, b.victim, b.step, b.passed \ {s}, b.moved)
  <2>1. CASE b.passed = {} /\ PlaceFor(t, "guarded") /\ UNCHANGED guards
    BY <1>1, <2>1, PlaceForSets DEF Try
  <2>2. ASSUME NEW s \in b.passed, at' = [at EXCEPT ![t].passed = @ \ {s}]
        PROVE  Sets(t, "sweep", b.try, b.built, b.victim, b.step, b.passed \ {s}, b.moved)
    <3>1. b.pc = "sweep"
      BY <1>5 DEF Sweep, At
    <3> QED
      BY <1>1, <2>2, <3>1 DEF Sets, Has, Attempt
  <2> QED
    BY <1>5, <2>1, <2>2 DEF Sweep
<1> QED
  BY <1>2, <1>3, <1>4, <1>5

\* What a tick does to an attempt's record and to a call.
LEMMA AgedHas ==
    ASSUME NEW b \in Attempt
    PROVE  Has(AgedAttempt(b), b.pc, b.try, IF b.pc = "place" THEN Older(b.built) ELSE b.built,
               b.victim, b.step, b.passed, Aged(b.moved), IF b.pc \in Idle THEN b.sent ELSE Later(b.sent),
               IF b.pc = "held" THEN Later(b.trust) ELSE b.trust)
<1> DEFINE bu == IF b.pc = "place" THEN Older(b.built) ELSE b.built
           se == IF b.pc \in Idle THEN b.sent ELSE Later(b.sent)
           tr == IF b.pc = "held" THEN Later(b.trust) ELSE b.trust
           mo == Aged(b.moved)
<1>1. bu \in Age /\ se \in Age /\ tr \in Age
  BY OlderFacts DEF Attempt
<1>2. mo \in Lock
  BY OlderFacts DEF Attempt, Aged, Lock
<1>3. AgedAttempt(b) = [b EXCEPT !.built = bu, !.sent = se, !.trust = tr, !.moved = mo]
  BY DEF AgedAttempt
<1> DEFINE x == [b EXCEPT !.built = bu]
           y == [x EXCEPT !.sent = se]
           z == [y EXCEPT !.trust = tr]
           w == [z EXCEPT !.moved = mo]
<1> HIDE DEF bu, se, tr, mo
<1>4. Has(x, b.pc, b.try, bu, b.victim, b.step, b.passed, b.moved, b.sent, b.trust)
  BY <1>1 DEF Has, Attempt
<1> HIDE DEF x
<1>5. Has(y, b.pc, b.try, bu, b.victim, b.step, b.passed, b.moved, se, b.trust)
  BY <1>1, <1>4 DEF Has, Attempt
<1> HIDE DEF y
<1>6. Has(z, b.pc, b.try, bu, b.victim, b.step, b.passed, b.moved, se, tr)
  BY <1>1, <1>5 DEF Has, Attempt
<1> HIDE DEF z
<1>7. Has(w, b.pc, b.try, bu, b.victim, b.step, b.passed, mo, se, tr)
  BY <1>2, <1>6 DEF Has, Attempt
<1>8. AgedAttempt(b) = w
  BY <1>3, Zenon DEF x, y, z, w
<1> QED
  BY <1>7, <1>8, Zenon DEF bu, se, tr, mo

LEMMA AgedCallHas ==
    ASSUME NEW c \in Call
    PROVE  /\ AgedCall(c) \in Call /\ AgedCall(c).pc = c.pc /\ AgedCall(c).moved = Aged(c.moved)
           /\ AgedCall(c).built = IF c.pc = "utimes" THEN Older(c.built) ELSE c.built
           /\ AgedCall(c).sent = IF c.pc \in Extending THEN Later(c.sent) ELSE c.sent
<1> DEFINE bu == IF c.pc = "utimes" THEN Older(c.built) ELSE c.built
           se == IF c.pc \in Extending THEN Later(c.sent) ELSE c.sent
           mo == Aged(c.moved)
<1>1. bu \in Age /\ se \in Age
  BY OlderFacts DEF Call
<1>2. mo \in Lock
  BY OlderFacts DEF Call, Aged, Lock
<1>3. AgedCall(c) = [c EXCEPT !.built = bu, !.sent = se, !.moved = mo]
  BY DEF AgedCall
<1> HIDE DEF bu, se, mo
<1>4. /\ AgedCall(c) \in Call /\ AgedCall(c).pc = c.pc /\ AgedCall(c).moved = mo
      /\ AgedCall(c).built = bu /\ AgedCall(c).sent = se
  BY <1>1, <1>2, <1>3 DEF Call
<1> QED
  BY <1>4 DEF bu, se, mo

LEMMA TickEffects ==
    ASSUME TypeOK, Tick
    PROVE  /\ at' \in [Token -> Attempt] /\ \A t \in Token : at'[t] = AgedAttempt(at[t])
           /\ calls' \in [Token -> [Thread -> Call]]
           /\ \A t \in Token, h \in Thread : calls'[t][h] = AgedCall(calls[t][h])
<1>1. \A t \in Token : at[t] \in Attempt /\ \A h \in Thread : calls[t][h] \in Call
  BY DEF TypeOK
<1>2. \A t \in Token : AgedAttempt(at[t]) \in Attempt /\ \A h \in Thread : AgedCall(calls[t][h]) \in Call
  BY <1>1, AgedHas, AgedCallHas DEF Has
<1> QED
  BY <1>2 DEF Tick
-----------------------------------------------------------------------------
(* The steps of a guard *)

LEMMA GoesEffects ==
    ASSUME TypeOK, NEW t \in Token, NEW l \in Extending, RenewalGoes(t, l)
    PROVE  /\ at' = at
           /\ LET b == calls[t]["renewal"] IN
              \E c \in Call : OneCall(t, "renewal", c) /\ c.pc = l /\ c.built = b.built /\ c.sent = b.sent
<1> DEFINE h == "renewal"
           b == calls[t][h]
           c == [b EXCEPT !.pc = l]
<1>1. l \in CallPC /\ h \in Thread /\ calls \in [Token -> [Thread -> Call]] /\ b \in Call
  BY DEF CallPC, Thread, TypeOK
<1>2. Calls(t, h, c) /\ at' = at
  BY DEF RenewalGoes, Calls
<1>3. c \in Call /\ c.pc = l /\ c.built = b.built /\ c.sent = b.sent
  <2> HIDE DEF b
  <2> QED
    BY <1>1 DEF Call, CallPC
<1>4. OneCall(t, h, c)
  <2> HIDE DEF c, h
  <2> QED
    BY <1>1, <1>2, <1>3, CallsFacts
<1> HIDE DEF c
<1> QED
  BY <1>2, <1>3, <1>4

LEMMA AnswersEffects ==
    ASSUME TypeOK, NEW t \in Token, NEW ok \in BOOLEAN, RenewalAnswers(t, ok)
    PROVE  /\ at' \in [Token -> Attempt] /\ \A u \in Token : u # t => at'[u] = at[u]
           /\ \/ /\ at[t].pc = "held" /\ OneCall(t, "renewal", Calling("none"))
                 /\ IF ok THEN Has(at'[t], "held", "first", 0, NoToken, 0, {}, Absent, 0, calls[t]["renewal"].sent)
                          ELSE Becomes(t, Blank("ended"))
              \/ /\ at[t].pc # "held" /\ at' = at
                 /\ OneCall(t, "renewal", Calling(IF ok THEN "relOwner" ELSE "none"))
<1>1. /\ "renewal" \in Thread /\ calls \in [Token -> [Thread -> Call]] /\ at \in [Token -> Attempt]
      /\ calls[t]["renewal"] \in Call /\ calls[t]["renewal"].sent \in Age /\ "ended" \in PC
  BY DEF Thread, TypeOK, Call, PC
<1>2. ASSUME NEW l \in {"none", "relOwner"}, Calls(t, "renewal", Calling(l)) PROVE OneCall(t, "renewal", Calling(l))
  <2>1. Calling(l) \in Call
    BY CallingHas DEF CallPC
  <2> QED
    BY <1>1, <1>2, <2>1, CallsFacts
<1>3. CASE at[t].pc = "held"
  <2> DEFINE r == IF ok THEN Holder(calls[t]["renewal"].sent) ELSE Blank("ended")
  <2>1. Becomes(t, r) /\ Calls(t, "renewal", Calling("none"))
    BY <1>3, Zenon DEF RenewalAnswers, At
  <2>2. /\ Has(Blank("ended"), "ended", "first", 0, NoToken, 0, {}, Absent, 0, 0)
        /\ Has(Holder(calls[t]["renewal"].sent), "held", "first", 0, NoToken, 0, {}, Absent, 0, calls[t]["renewal"].sent)
    BY <1>1, BlankHas, HolderHas
  <2>3. r \in Attempt
    BY <2>2 DEF Has
  <2>4. at' \in [Token -> Attempt] /\ at'[t] = r /\ \A u \in Token : u # t => at'[u] = at[u]
    <3> HIDE DEF r
    <3> QED
      BY <1>1, <2>1, <2>3, BecomesFacts
  <2>5. OneCall(t, "renewal", Calling("none"))
    BY <1>2, <2>1
  <2>6. CASE ok
    <3>1. at'[t] = Holder(calls[t]["renewal"].sent)
      BY <2>4, <2>6
    <3> QED
      BY <1>3, <2>2, <2>4, <2>5, <2>6, <3>1
  <2>7. CASE ~ok
    <3>1. Becomes(t, Blank("ended"))
      BY <2>1, <2>7
    <3> QED
      BY <1>3, <2>4, <2>5, <2>7, <3>1
  <2> QED
    BY <2>6, <2>7
<1>4. CASE at[t].pc # "held"
  <2> DEFINE l == IF ok THEN "relOwner" ELSE "none"
  <2>1. Calls(t, "renewal", Calling(l)) /\ at' = at /\ l \in {"none", "relOwner"}
    BY <1>4 DEF RenewalAnswers, At
  <2> HIDE DEF l
  <2>2. OneCall(t, "renewal", Calling(l))
    BY <1>2, <2>1
  <2> QED
    BY <1>1, <1>4, <2>1, <2>2 DEF l
<1> QED
  BY <1>3, <1>4

\* A renewal's call goes on to the next one or answers.
LEMMA ExtendEffects ==
    ASSUME TypeOK, NEW t \in Token, Extends(t)
    PROVE  \/ Lose(t)
           \/ ExtendStat(t) /\ RenewalGoes(t, "extOwner") /\ ~Dead(lock.age)
           \/ ExtendOwner(t) /\ RenewalGoes(t, "extClock") /\ lock.owner = t
           \/ ExtendClock(t) /\ RenewalGoes(t, "utimes")
           \/ UNCHANGED <<lock, guards>> /\ RenewalAnswers(t, FALSE)
           \/ Utimes(t) /\ lock.owner # NoToken /\ RenewalAnswers(t, TRUE)
<1>1. CASE ExtendStat(t)
  BY <1>1 DEF ExtendStat
<1>2. CASE ExtendOwner(t)
  BY <1>2 DEF ExtendOwner
<1>3. CASE ExtendClock(t)
  BY <1>3 DEF ExtendClock
<1>4. CASE Utimes(t)
  <2>1. CASE lock.owner = NoToken
    <3>1. (lock.owner # NoToken) = FALSE
      BY <2>1
    <3> QED
      BY <1>4, <2>1, <3>1 DEF Utimes
  <2>2. CASE lock.owner # NoToken
    <3>1. (lock.owner # NoToken) = TRUE
      BY <2>2
    <3> QED
      BY <1>4, <2>2, <3>1 DEF Utimes
  <2> QED
    BY <2>1, <2>2
<1> QED
  BY <1>1, <1>2, <1>3, <1>4 DEF Extends

\* A release's call goes on or ends; only its move and its restore touch the lock.
LEMMA ReleaseEffects ==
    ASSUME TypeOK, NEW t \in Token, NEW h \in Thread, Releases(t, h)
    PROVE  /\ at' = at /\ guards' = guards
           /\ \E c \in Call :
                /\ OneCall(t, h, c)
                /\ \/ UNCHANGED lock /\ c.pc = "none"
                   \/ ReleaseOwner(t, h) /\ UNCHANGED lock /\ c.pc = "relStat" /\ lock.owner = t
                   \/ ReleaseStat(t, h) /\ UNCHANGED lock /\ c.pc = "move" /\ lock.owner # NoToken
                   \/ ReleaseMove(t, h) /\ lock' = Absent /\ lock.owner # NoToken /\ c.pc = "identify" /\ c.moved = lock
                   \/ ReleaseIdentify(t, h) /\ UNCHANGED lock /\ c.pc = "restore" /\ calls[t][h].moved.owner # t
                   \/ ReleaseRestore(t, h) /\ c.pc = "none"
<1>1. calls \in [Token -> [Thread -> Call]] /\ lock \in Lock
  BY DEF TypeOK
<1>2. ASSUME NEW l \in {"none", "relStat", "move"}, Calls(t, h, Calling(l))
      PROVE  Calling(l) \in Call /\ Calling(l).pc = l /\ OneCall(t, h, Calling(l))
  <2>1. Calling(l) \in Call /\ Calling(l).pc = l
    BY CallingHas DEF CallPC
  <2> QED
    BY <1>1, <1>2, <2>1, CallsFacts
<1>3. CASE ReleaseOwner(t, h)
  <2> DEFINE l == IF lock.owner = t THEN "relStat" ELSE "none"
  <2>1. Calls(t, h, Calling(l)) /\ l \in {"none", "relStat", "move"} /\ UNCHANGED <<lock, guards, at>>
    BY <1>3 DEF ReleaseOwner
  <2>2. (l = "relStat" /\ lock.owner = t) \/ l = "none"
    OBVIOUS
  <2> HIDE DEF l
  <2> QED
    BY <1>2, <1>3, <2>1, <2>2
<1>4. CASE ReleaseStat(t, h)
  <2> DEFINE l == IF lock.owner = NoToken \/ Dead(lock.age) THEN "none" ELSE "move"
  <2>1. Calls(t, h, Calling(l)) /\ l \in {"none", "relStat", "move"} /\ UNCHANGED <<lock, guards, at>>
    BY <1>4 DEF ReleaseStat
  <2>2. (l = "move" /\ lock.owner # NoToken) \/ l = "none"
    OBVIOUS
  <2> HIDE DEF l
  <2> QED
    BY <1>2, <1>4, <2>1, <2>2
<1>5. CASE ReleaseMove(t, h)
  <2>1. UNCHANGED <<guards, at>>
    BY <1>5 DEF ReleaseMove
  <2>2. CASE Calls(t, h, Calling("none")) /\ UNCHANGED lock
    BY <1>2, <2>1, <2>2
  <2>3. CASE ~(Calls(t, h, Calling("none")) /\ UNCHANGED lock)
    <3> DEFINE c == [Calling("identify") EXCEPT !.moved = lock]
    <3>1. lock.owner # NoToken /\ Calls(t, h, c) /\ lock' = Absent
      BY <1>5, <2>3 DEF ReleaseMove
    <3>2. c \in Call /\ c.pc = "identify" /\ c.moved = lock
      <4>1. Calling("identify") \in Call /\ Calling("identify").pc = "identify"
        BY CallingHas DEF CallPC
      <4> QED
        BY <1>1, <4>1 DEF Call
    <3> HIDE DEF c
    <3>3. OneCall(t, h, c)
      BY <1>1, <3>1, <3>2, CallsFacts
    <3> QED
      BY <1>5, <2>1, <3>1, <3>2, <3>3
  <2> QED
    BY <2>2, <2>3
<1>6. CASE ReleaseIdentify(t, h)
  <2>1. UNCHANGED <<lock, guards, at>>
    BY <1>6 DEF ReleaseIdentify
  <2>2. CASE calls[t][h].moved.owner = t
    BY <1>2, <1>6, <2>1, <2>2 DEF ReleaseIdentify
  <2>3. CASE calls[t][h].moved.owner # t
    <3>1. calls' = [calls EXCEPT ![t][h].pc = "restore"] /\ "restore" \in CallPC
      BY <1>6, <2>3 DEF ReleaseIdentify, CallPC
    <3>2. PICK c \in Call : OneCall(t, h, c) /\ c.pc = "restore"
      BY <1>1, <3>1, CallGoes
    <3> QED
      BY <1>6, <2>1, <2>3, <3>2
  <2> QED
    BY <2>2, <2>3
<1>7. CASE ReleaseRestore(t, h)
  <2>1. Calls(t, h, Calling("none")) /\ UNCHANGED <<guards, at>>
    BY <1>7 DEF ReleaseRestore
  <2> QED
    BY <1>2, <1>7, <2>1
<1> QED
  BY <1>3, <1>4, <1>5, <1>6, <1>7 DEF Releases
-----------------------------------------------------------------------------
(* Typing *)

\* The result of a call that replaces the attempt's record by one without live local variables.
LEMMA EndTyped ==
    ASSUME TypeOK, NEW t \in Token, NEW l \in PC, Becomes(t, Blank(l))
    PROVE  at' \in [Token -> Attempt]
BY BlankHas, BecomesFacts DEF TypeOK, Has

LEMMA AcquiresTyped ==
    ASSUME TypeOK, NEW t \in Token, Acquires(t)
    PROVE  /\ at' \in [Token -> Attempt] /\ calls' \in [Token -> [Thread -> Call]]
           /\ lock' \in Lock /\ guards' \subseteq Guard
<1> DEFINE b == at[t]
<1>1. /\ at \in [Token -> Attempt] /\ b \in Attempt /\ lock \in Lock /\ guards \subseteq Guard
      /\ b.sent \in Age /\ b.built \in Age /\ b.victim \in Token \cup {NoToken} /\ b.moved \in Lock /\ b.step \in Nat
      /\ Absent \in Lock /\ calls \in [Token -> [Thread -> Call]]
  BY FileAssumption DEF TypeOK, Attempt, Absent, Lock, Age
<1>2. "new" \in PC /\ 0 \in Age
  BY FileAssumption DEF PC, Age
<1>3. ASSUME NEW p, NEW w, NEW bu, NEW v, NEW s, NEW ps, NEW m, Sets(t, p, w, bu, v, s, ps, m)
      PROVE  at' \in [Token -> Attempt]
  BY <1>3 DEF Sets
<1>4. Granted(t) => at' \in [Token -> Attempt] /\ calls' \in [Token -> [Thread -> Call]]
  BY <1>1, GrantedEffects DEF OneCall
<1> HIDE DEF b
<1>5. CASE Ask(t) \/ Stat(t) \/ ReadVictim(t) \/ Judge(t) \/ Check(t)
  <2>1. at' \in [Token -> Attempt]
    BY <1>1, <1>2, <1>3, <1>5, CallEffects, EndTyped
  <2>2. UNCHANGED <<lock, guards, calls>>
    BY <1>5 DEF Ask, Stat, ReadVictim, Judge, Check
  <2> QED
    BY <1>1, <2>1, <2>2
<1>6. CASE PlaceLock(t)
  <2>1. at' \in [Token -> Attempt] /\ calls' \in [Token -> [Thread -> Call]]
    BY <1>1, <1>2, <1>3, <1>4, <1>6, PlaceEffects, EndTyped DEF b
  <2>2. lock' \in Lock
    <3>1. \A age \in 0..b.built : age \in Age
      BY <1>1, FileAssumption DEF Age
    <3> QED
      BY <1>1, <1>6, <3>1, PlaceEffects DEF Lock, b
  <2>3. UNCHANGED guards
    BY <1>6 DEF PlaceLock
  <2> QED
    BY <1>1, <2>1, <2>2, <2>3
<1>7. CASE PlaceGuard(t)
  <2>1. at' \in [Token -> Attempt]
    BY <1>3, <1>7, CallEffects
  <2>2. PICK age \in 0..b.built : /\ UNCHANGED <<lock, calls>>
                                  /\ guards' = guards \/ guards' = guards \cup {Mine(t, age)}
    BY <1>7 DEF PlaceGuard, b
  <2>3. Mine(t, age) \in Guard
    <3>1. b.victim \in Token \cup {NoToken} /\ age \in Age
      BY <1>1, FileAssumption DEF Age
    <3> QED
      BY <1>1, <3>1 DEF Mine, Guard, b
  <2> QED
    BY <1>1, <2>1, <2>2, <2>3
<1>8. CASE StatGuard(t) \/ Move(t) \/ Identify(t) \/ Sweep(t)
  <2>1. at' \in [Token -> Attempt]
    <3>1. CASE StatGuard(t)
      BY <1>1, <1>2, <1>3, <3>1, ReapEffects, EndTyped
    <3>2. CASE Move(t)
      BY <1>1, <1>2, <1>3, <3>2, ReapEffects, NotRemovedEffects, EndTyped
    <3>3. CASE Identify(t)
      BY <1>1, <1>2, <1>3, <3>3, ReapEffects, EndTyped
    <3>4. CASE Sweep(t)
      BY <1>1, <1>2, <1>3, <3>4, ReapEffects
    <3> QED
      BY <1>8, <3>1, <3>2, <3>3, <3>4
  <2>2. lock' \in Lock
    BY <1>1, <1>8 DEF StatGuard, Move, Identify, Sweep
  <2>3. guards' \subseteq guards /\ UNCHANGED calls
    BY <1>8 DEF StatGuard, Move, Identify, Sweep
  <2> QED
    BY <1>1, <2>1, <2>2, <2>3
<1>9. CASE Restore(t)
  <2>1. at' \in [Token -> Attempt]
    BY <1>1, <1>2, <1>3, <1>9, NotRemovedEffects, EndTyped DEF Restore
  <2> QED
    BY <1>1, <1>9, <2>1 DEF Restore, b
<1>10. CASE Unguard(t)
  <2>1. at' \in [Token -> Attempt] /\ calls' \in [Token -> [Thread -> Call]]
    BY <1>1, <1>2, <1>4, <1>10, EndTyped DEF Unguard, b
  <2> QED
    BY <1>1, <1>10, <2>1 DEF Unguard
<1> QED
  BY <1>5, <1>6, <1>7, <1>8, <1>9, <1>10 DEF Acquires

LEMMA ExtendsTyped ==
    ASSUME TypeOK, NEW t \in Token, Extends(t)
    PROVE  /\ at' \in [Token -> Attempt] /\ calls' \in [Token -> [Thread -> Call]]
           /\ lock' \in Lock /\ guards' = guards
<1>1. at \in [Token -> Attempt] /\ calls \in [Token -> [Thread -> Call]] /\ calls[t]["renewal"].built \in Age
  BY DEF TypeOK, Call, Thread
<1>2. lock' \in Lock /\ guards' = guards
  <2>1. CASE Utimes(t)
    BY <1>1, <2>1 DEF Utimes, TypeOK, Lock
  <2>2. CASE ~Utimes(t)
    BY <2>2 DEF Extends, ExtendStat, ExtendOwner, ExtendClock, Lose, TypeOK
  <2> QED
    BY <2>1, <2>2
<1>3. ASSUME NEW l \in Extending, RenewalGoes(t, l)
      PROVE  at' \in [Token -> Attempt] /\ calls' \in [Token -> [Thread -> Call]]
  BY <1>1, <1>3, GoesEffects DEF OneCall
<1>4. ASSUME NEW ok \in BOOLEAN, RenewalAnswers(t, ok)
      PROVE  at' \in [Token -> Attempt] /\ calls' \in [Token -> [Thread -> Call]]
  BY <1>4, AnswersEffects DEF OneCall
<1>5. Lose(t) => at' \in [Token -> Attempt] /\ calls' \in [Token -> [Thread -> Call]]
  BY <1>1, EndTyped DEF Lose, PC
<1> QED
  BY <1>2, <1>3, <1>4, <1>5, ExtendEffects DEF Extending

\* A process dies: every call of its guard is gone.
LEMMA CrashEffects ==
    ASSUME TypeOK, NEW t \in Token, Crash(t)
    PROVE  /\ at' \in [Token -> Attempt] /\ \A u \in Token : u # t => at'[u] = at[u]
           /\ Has(at'[t], "crashed", "first", 0, NoToken, 0, {}, Absent, 0, 0)
           /\ calls' \in [Token -> [Thread -> Call]] /\ \A u \in Token : u # t => calls'[u] = calls[u]
           /\ \A h \in Thread : calls'[t][h] = Calling("none")
<1>1. Has(Blank("crashed"), "crashed", "first", 0, NoToken, 0, {}, Absent, 0, 0)
  BY BlankHas DEF PC
<1>2. Blank("crashed") \in Attempt /\ Becomes(t, Blank("crashed"))
  BY <1>1 DEF Has, Crash
<1>3. Calling("none") \in Call
  BY CallingHas DEF CallPC
<1>4. calls \in [Token -> [Thread -> Call]] /\ calls' = [calls EXCEPT ![t] = [h \in Thread |-> Calling("none")]]
  BY DEF TypeOK, Crash
<1>5. /\ calls' \in [Token -> [Thread -> Call]] /\ \A u \in Token : u # t => calls'[u] = calls[u]
      /\ \A h \in Thread : calls'[t][h] = Calling("none")
  BY <1>3, <1>4
<1> QED
  BY <1>1, <1>2, <1>5, BecomesFacts DEF TypeOK

\* The callback settles: the guard ends and releases.
LEMMA ReleaseBegins ==
    ASSUME TypeOK, NEW t \in Token, Release(t)
    PROVE  /\ at' \in [Token -> Attempt] /\ \A u \in Token : u # t => at'[u] = at[u]
           /\ Has(at'[t], "ended", "first", 0, NoToken, 0, {}, Absent, 0, 0)
           /\ OneCall(t, "guard", Calling("relOwner")) /\ Calling("relOwner").pc = "relOwner"
<1>1. Has(Blank("ended"), "ended", "first", 0, NoToken, 0, {}, Absent, 0, 0)
  BY BlankHas DEF PC
<1>2. Blank("ended") \in Attempt /\ Becomes(t, Blank("ended")) /\ Calls(t, "guard", Calling("relOwner"))
  BY <1>1 DEF Has, Release
<1>3. Calling("relOwner") \in Call /\ Calling("relOwner").pc = "relOwner" /\ "guard" \in Thread
  BY CallingHas DEF CallPC, Thread
<1>4. OneCall(t, "guard", Calling("relOwner"))
  BY <1>2, <1>3, CallsFacts DEF TypeOK
<1> QED
  BY <1>1, <1>2, <1>3, <1>4, BecomesFacts DEF TypeOK

LEMMA NextTyped == TypeOK /\ [Next]_vars => TypeOK'
<1> SUFFICES ASSUME TypeOK, [Next]_vars PROVE TypeOK'
  OBVIOUS
<1>1. at \in [Token -> Attempt] /\ lock \in Lock /\ guards \subseteq Guard /\ calls \in [Token -> [Thread -> Call]]
  BY DEF TypeOK
<1>2. CASE UNCHANGED vars
  BY <1>2 DEF vars, TypeOK
<1>3. CASE Next
  <2>1. exposed' \in BOOLEAN
    BY <1>3 DEF Next, Remember, TypeOK
  <2>2. ASSUME NEW t \in Token, Extend(t) \/ Release(t) \/ Crash(t)
        PROVE  TypeOK'
    <3>1. CASE Extend(t)
      <4>1. Calls(t, "renewal", Calling("extStat")) /\ UNCHANGED <<lock, guards, at>>
        BY <3>1 DEF Extend
      <4>2. Calling("extStat") \in Call /\ "renewal" \in Thread
        BY CallingHas DEF CallPC, Thread, Extending
      <4>3. calls' \in [Token -> [Thread -> Call]]
        BY <1>1, <4>1, <4>2, CallsFacts DEF OneCall
      <4> QED
        BY <1>1, <2>1, <4>1, <4>3 DEF TypeOK
    <3>2. CASE Release(t)
      <4>1. UNCHANGED <<lock, guards>>
        BY <3>2 DEF Release
      <4> QED
        BY <1>1, <2>1, <3>2, <4>1, ReleaseBegins DEF TypeOK, OneCall
    <3>3. CASE Crash(t)
      <4>1. UNCHANGED <<lock, guards>>
        BY <3>3 DEF Crash
      <4> QED
        BY <1>1, <2>1, <3>3, <4>1, CrashEffects DEF TypeOK
    <3> QED
      BY <2>2, <3>1, <3>2, <3>3
  <2>3. CASE Tick
    <3>1. lock' \in Lock
      BY <1>1, <2>3, OlderFacts DEF Tick, Aged, Lock
    <3>2. ASSUME NEW g \in guards PROVE [g EXCEPT !.age = Older(@)] \in Guard
      BY <1>1, OlderFacts DEF Guard
    <3>3. guards' \subseteq Guard
      BY <2>3, <3>2 DEF Tick
    <3> QED
      BY <2>1, <2>3, <3>1, <3>3, TickEffects DEF TypeOK
  <2>4. ASSUME NEW t \in Token, Proceed(t) PROVE TypeOK'
    <3>1. CASE Acquires(t)
      BY <2>1, <3>1, AcquiresTyped DEF TypeOK
    <3>2. CASE Extends(t)
      BY <1>1, <2>1, <3>2, ExtendsTyped DEF TypeOK
    <3>3. ASSUME NEW h \in Thread, Releases(t, h) PROVE TypeOK'
      <4>1. at' = at /\ guards' = guards /\ calls' \in [Token -> [Thread -> Call]]
        BY <3>3, ReleaseEffects DEF OneCall
      <4>2. Absent \in Lock /\ calls[t][h].moved \in Lock
        BY <1>1, CallingHas DEF Call, CallPC
      <4>3. lock' \in Lock
        BY <1>1, <3>3, <4>2 DEF Releases, ReleaseOwner, ReleaseStat, ReleaseMove, ReleaseIdentify, ReleaseRestore
      <4> QED
        BY <1>1, <2>1, <4>1, <4>3 DEF TypeOK
    <3> QED
      BY <2>4, <3>1, <3>2, <3>3 DEF Proceed
  <2>5. ASSUME NEW t \in Token, Removes(t) PROVE Proceed(t)
    BY <2>5 DEF Removes, Proceed, Acquires, Releases
  <2> QED
    BY <1>3, <2>2, <2>3, <2>4, <2>5 DEF Next
<1> QED
  BY <1>2, <1>3
-----------------------------------------------------------------------------
(* How a step keeps the invariant while nobody is exposed *)

LEMMA FieldTypes ==
    ASSUME NEW b \in Attempt
    PROVE  /\ b.pc \in PC /\ b.try \in Try /\ b.victim \in Token \cup {NoToken}
           /\ b.built \in Nat /\ b.sent \in Nat /\ b.trust \in Nat
           /\ b.built \in Age /\ b.sent \in Age /\ b.trust \in Age
           /\ b.step \in Nat /\ b.passed \subseteq Nat /\ b.moved \in Lock
BY FileAssumption DEF Attempt, Age, Try

\* A step of t: the others keep their records and calls, and the victims that no longer acquire stay so.
LEMMA StepKeepsGood ==
    ASSUME Good, TypeOK, NEW t \in Token,
           at' \in [Token -> Attempt], \A u \in Token : u # t => at'[u] = at[u] /\ calls'[u] = calls[u],
           Fresh(at'[t]) => Fresh(at[t]),
           Shaped(at'[t]), Placed(t, at'[t], lock'), Covered(t, at'[t], lock', guards'),
           Judged(at'[t], at[at'[t].victim]), InTime(t, at'[t], calls'[t], lock'),
           \A u \in Token : u # t => /\ Placed(u, at[u], lock') /\ Covered(u, at[u], lock', guards')
                                     /\ InTime(u, at[u], calls[u], lock'),
           Single(guards'), \A u \in Token : Sheltered(u)'
    PROVE  Good'
<1>1. ASSUME NEW u \in Token, Judged(at'[u], at[at'[u].victim]) PROVE Judged(at'[u], at'[at'[u].victim])
  <2>1. CASE at'[u].victim = NoToken
    BY <2>1 DEF Judged
  <2>2. CASE at'[u].victim # NoToken
    <3>1. at'[u].victim \in Token
      BY <2>2, FieldTypes
    <3>2. CASE at'[u].victim # t
      BY <1>1, <3>1, <3>2
    <3>3. CASE at'[u].victim = t
      BY <1>1, <3>3 DEF Judged
    <3> QED
      BY <3>2, <3>3
  <2> QED
    BY <2>1, <2>2
<1>2. ASSUME NEW u \in Token
      PROVE  /\ Shaped(at'[u]) /\ Placed(u, at'[u], lock') /\ Covered(u, at'[u], lock', guards')
             /\ Judged(at'[u], at'[at'[u].victim]) /\ InTime(u, at'[u], calls'[u], lock')
  <2>1. Judged(at'[u], at[at'[u].victim])
    BY DEF Good
  <2>2. Judged(at'[u], at'[at'[u].victim])
    BY <1>1, <2>1
  <2>3. CASE u = t
    BY <2>2, <2>3
  <2>4. CASE u # t
    BY <2>2, <2>4 DEF Good
  <2> QED
    BY <2>3, <2>4
<1> QED
  BY <1>2 DEF Good

\* An attempt that makes no call of its guard is in time, wherever the lock is.
LEMMA NoCalls ==
    ASSUME NEW t, NEW b, NEW cs, NEW l, NEW a, NEW m, InTime(t, b, cs, l), b.pc \notin {"held", "ended"}
    PROVE  InTime(t, a, cs, m) /\ \A h \in Thread : cs[h].pc = "none"
BY DEF InTime, Looked, Thread, Extending

\* A step of t's acquire that changes nothing but its own record.
LEMMA LocalKeepsGood ==
    ASSUME Good, TypeOK, NEW t \in Token, UNCHANGED <<lock, guards, calls>>, at[t].pc \notin {"held", "ended"},
           at' \in [Token -> Attempt], \A u \in Token : u # t => at'[u] = at[u],
           Fresh(at'[t]) => Fresh(at[t]),
           Shaped(at'[t]), Placed(t, at'[t], lock), Covered(t, at'[t], lock, guards),
           Judged(at'[t], at[at'[t].victim]),
           \A u \in Token : Sheltered(u)'
    PROVE  Good'
<1>1. lock' = lock /\ guards' = guards /\ calls' = calls
  OBVIOUS
<1>2. InTime(t, at'[t], calls'[t], lock')
  <2>1. InTime(t, at[t], calls[t], lock)
    BY DEF Good
  <2> QED
    BY <1>1, <2>1, NoCalls
<1>3. \A u \in Token : /\ Placed(u, at[u], lock') /\ Covered(u, at[u], lock', guards')
                       /\ InTime(u, at[u], calls[u], lock')
  BY <1>1 DEF Good
<1>4. Single(guards')
  BY <1>1 DEF Good
<1> QED
  BY <1>1, <1>2, <1>3, <1>4, StepKeepsGood

\* Of two takers of the lock in place, neither stepped past the other's guard.
LEMMA NotSteppedPast ==
    ASSUME Good, TypeOK, NEW t \in Token, NEW u \in Token, InGuard(at[t]),
           at[u].try = "guard", at[u].pc \in {"judge", "check", "move"},
           at[t].victim = lock.owner, at[u].victim = lock.owner, lock.owner # NoToken
    PROVE  ~(at[t].step < at[u].step)
<1> SUFFICES ASSUME at[t].step < at[u].step PROVE FALSE
  OBVIOUS
<1>1. at[t].step \in at[u].passed
  BY FieldTypes DEF Good, Shaped, TypeOK
<1>2. PICK g \in guards : g.victim = at[t].victim /\ g.step = at[t].step /\ g.owner = t
  BY DEF Good, Covered
<1>3. PICK h \in guards : h.victim = at[u].victim /\ h.step = at[t].step /\ Dead(h.age)
  BY <1>1 DEF Good, Covered
<1>4. g = h
  BY <1>2, <1>3 DEF Good, Single
<1>5. Guarded(t)
  BY DEF Guarded, InGuard
<1>6. DeadGuard(t)
  BY <1>2, <1>3, <1>4, <1>5 DEF DeadGuard, GuardAt
<1> QED
  BY <1>6 DEF Good, Sheltered

\* So there is one at most.
LEMMA OneTaker ==
    ASSUME Good, TypeOK, NEW t \in Token, NEW u \in Token,
           at[t].try = "guard", at[t].pc \in {"judge", "check", "move"},
           at[u].try = "guard", at[u].pc \in {"judge", "check", "move"},
           at[t].victim = lock.owner, at[u].victim = lock.owner, lock.owner # NoToken
    PROVE  t = u
<1>1. InGuard(at[t]) /\ InGuard(at[u])
  BY DEF InGuard
<1>2. at[t].step = at[u].step
  <2>1. at[t].step \in Nat /\ at[u].step \in Nat
    BY FieldTypes DEF TypeOK
  <2> QED
    BY <1>1, <2>1, NotSteppedPast
<1>3. PICK g \in guards : g.victim = at[t].victim /\ g.step = at[t].step /\ g.owner = t
  BY <1>1 DEF Good, Covered
<1>4. PICK h \in guards : h.victim = at[u].victim /\ h.step = at[u].step /\ h.owner = u
  BY <1>1 DEF Good, Covered
<1>5. g = h
  BY <1>2, <1>3, <1>4 DEF Good, Single
<1> QED
  BY <1>3, <1>4, <1>5

\* A step while nobody is exposed, before it and after it.
Calm == Good /\ TypeOK /\ \A u \in Token : Sheltered(u)'

\* What the invariant says of one attempt.
LEMMA AboutOne ==
    ASSUME Good, TypeOK, NEW t \in Token
    PROVE  /\ Shaped(at[t]) /\ Placed(t, at[t], lock) /\ Covered(t, at[t], lock, guards)
           /\ Judged(at[t], at[at[t].victim]) /\ InTime(t, at[t], calls[t], lock) /\ Sheltered(t)
           /\ at[t] \in Attempt /\ calls[t] \in [Thread -> Call]
           /\ at[t].pc \in PC /\ at[t].try \in Try /\ at[t].victim \in Token \cup {NoToken}
           /\ at[t].built \in Nat /\ at[t].sent \in Nat /\ at[t].trust \in Nat
           /\ at[t].step \in Nat /\ at[t].passed \subseteq Nat
BY FieldTypes DEF Good, TypeOK

\* An attempt without live local variables, before it asks or after its guard ended.
LEMMA BlankIsGood ==
    ASSUME NEW t \in Token, NEW a, NEW v, NEW l \in {"new", "ended", "crashed"},
           Has(a, l, "first", 0, NoToken, 0, {}, Absent, 0, 0), l = "new" => lock.owner # t
    PROVE  Shaped(a) /\ Placed(t, a, lock) /\ Covered(t, a, lock, guards) /\ Judged(a, v)
<1>1. Shaped(a)
  BY DEF Shaped, Has
<1>2. Placed(t, a, lock)
  BY DEF Placed, Fresh, Has
<1> QED
  BY <1>1, <1>2 DEF Covered, Judged, Has

\* An attempt that has not placed the lock gives up.
LEMMA GiveUpKeepsGood ==
    ASSUME Calm, NEW t \in Token, Becomes(t, Blank("new")), UNCHANGED <<lock, guards, calls>>,
           Fresh(at[t])
    PROVE  Good'
<1> DEFINE a == at'[t]
<1>1. /\ at' \in [Token -> Attempt] /\ \A u \in Token : u # t => at'[u] = at[u]
      /\ Has(a, "new", "first", 0, NoToken, 0, {}, Absent, 0, 0)
  <2>1. "new" \in PC
    BY DEF PC
  <2>2. Has(Blank("new"), "new", "first", 0, NoToken, 0, {}, Absent, 0, 0)
    BY <2>1, BlankHas
  <2>3. Blank("new") \in Attempt
    BY <2>2 DEF Has
  <2> QED
    BY <2>2, <2>3, BecomesFacts DEF Calm, TypeOK
<1>2. lock.owner # t
  BY AboutOne DEF Calm, Placed
<1> HIDE DEF a
<1>3. Shaped(a) /\ Placed(t, a, lock) /\ Covered(t, a, lock, guards) /\ Judged(a, at[a.victim])
  BY <1>1, <1>2, BlankIsGood
<1>4. at[t].pc \notin {"held", "ended"}
  BY DEF Fresh
<1> QED
  BY <1>1, <1>3, <1>4, LocalKeepsGood DEF Calm, a

\* A guard ends, by a timer, an answer, a release or a death; its threads go on with what they have.
LEMMA OverKeepsGood ==
    ASSUME Calm, NEW t \in Token, NEW l \in {"ended", "crashed"}, UNCHANGED <<lock, guards>>,
           at' \in [Token -> Attempt], \A u \in Token : u # t => at'[u] = at[u] /\ calls'[u] = calls[u],
           Has(at'[t], l, "first", 0, NoToken, 0, {}, Absent, 0, 0),
           \A h \in Thread : calls'[t][h].pc \in {"none", "relOwner"} \/ calls'[t][h] = calls[t][h],
           l = "crashed" => \A h \in Thread : calls'[t][h].pc = "none"
    PROVE  Good'
<1> DEFINE a == at'[t]
<1>1. lock' = lock /\ guards' = guards
  OBVIOUS
<1>2. Shaped(a) /\ Placed(t, a, lock) /\ Covered(t, a, lock, guards) /\ Judged(a, at[a.victim]) /\ ~Fresh(a)
  <2> HIDE DEF a
  <2>1. Has(a, l, "first", 0, NoToken, 0, {}, Absent, 0, 0)
    BY DEF a
  <2>2. ~Fresh(a)
    BY <2>1 DEF Fresh, Has
  <2> QED
    BY <2>1, <2>2, BlankIsGood
<1>3. InTime(t, a, calls'[t], lock)
  <2>1. InTime(t, at[t], calls[t], lock)
    BY AboutOne DEF Calm
  <2>2. a.pc = l
    BY DEF Has
  <2> HIDE DEF a
  <2>3. l = "ended" \/ l = "crashed"
    OBVIOUS
  <2>4. ASSUME NEW h \in Thread
        PROVE  /\ Looked(calls'[t][h]) => lock.owner = t
               /\ calls'[t][h].pc # "restore"
               /\ calls'[t][h].pc = "identify" => calls'[t][h].moved.owner = t
    BY <2>1 DEF InTime, Looked
  <2> QED
    BY <2>2, <2>3, <2>4 DEF InTime
<1>4. \A u \in Token : u # t => /\ Placed(u, at[u], lock') /\ Covered(u, at[u], lock', guards')
                                /\ InTime(u, at[u], calls[u], lock')
  BY <1>1, AboutOne DEF Calm
<1>5. Single(guards')
  BY <1>1 DEF Calm, Good
<1> QED
  BY <1>1, <1>2, <1>3, <1>4, <1>5, StepKeepsGood DEF Calm, a

\* The first look at the lock.
LEMMA LookKeepsGood ==
    ASSUME Calm, NEW t \in Token, Ask(t) \/ Stat(t) \/ ReadVictim(t)
    PROVE  Good'
<1> DEFINE a == at'[t]
           b == at[t]
<1>1. /\ Shaped(b) /\ Placed(t, b, lock) /\ b.built \in Nat /\ b.sent \in Nat
      /\ Judged(b, at[b.victim]) /\ Covered(t, b, lock, guards)
  BY AboutOne DEF Calm
<1>2. UNCHANGED <<lock, guards, calls>> /\ b.pc \in {"new", "stat", "owner"}
  BY DEF Ask, Stat, ReadVictim, At
<1>3. b.try = "first" /\ b.passed = {} /\ b.step = 0 /\ Fresh(b) /\ b.pc \notin {"held", "ended"}
  BY <1>1, <1>2 DEF Shaped, Fresh
<1>4. CASE Becomes(t, Blank("new"))
  BY <1>2, <1>3, <1>4, GiveUpKeepsGood
<1>5. CASE ~Becomes(t, Blank("new"))
  <2>1. PICK p \in {"place", "owner"}, w \in {"first", "second", "guard"}, v \in {b.victim, lock.owner} :
           /\ Sets(t, p, w, b.built, v, b.step, b.passed, b.moved)
           /\ p = "owner" => w = "first"
           /\ v = b.victim \/ w = "guard"
    BY <1>3, <1>5, CallEffects, Zenon DEF Calm
  <2>2. /\ at' \in [Token -> Attempt] /\ \A u \in Token : u # t => at'[u] = at[u]
        /\ Has(a, p, w, b.built, v, 0, {}, b.moved, b.sent, b.trust)
    BY <1>3, <2>1 DEF Sets
  <2> HIDE DEF a, b
  <2>3. Fresh(a) => Fresh(b)
    BY <1>3
  <2>4. Shaped(a)
    BY <1>1, <2>1, <2>2 DEF Shaped, Has
  <2>5. Placed(t, a, lock)
    BY <1>1, <1>3, <2>1, <2>2 DEF Placed, Has
  <2>6. Covered(t, a, lock, guards)
    BY <2>1, <2>2 DEF Covered, Has, InGuard
  <2>7. Judged(a, at[a.victim])
    <3>1. lock.owner # NoToken => ~Fresh(at[lock.owner])
      BY DEF Calm, Good, TypeOK, Lock, Placed
    <3> QED
      BY <1>1, <2>1, <2>2, <3>1 DEF Judged, Has
  <2> QED
    BY <1>2, <1>3, <2>2, <2>3, <2>4, <2>5, <2>6, <2>7, LocalKeepsGood DEF Calm, a, b
<1> QED
  BY <1>4, <1>5

\* A guard is placed, or another one is in the way.
LEMMA PlaceGuardKeepsGood ==
    ASSUME Calm, NEW t \in Token, PlaceGuard(t)
    PROVE  Good'
<1> DEFINE a == at'[t]
           b == at[t]
           free == GuardAt(b.victim, b.step) = {}
<1>1. /\ Shaped(b) /\ Placed(t, b, lock) /\ b.built \in Nat /\ b.sent \in Nat
      /\ Judged(b, at[b.victim]) /\ Covered(t, b, lock, guards) /\ InTime(t, b, calls[t], lock)
  BY AboutOne DEF Calm
<1>2. b.pc = "place" /\ b.try = "guard" /\ lock' = lock /\ calls' = calls
  BY DEF PlaceGuard, At
<1>3. /\ at' \in [Token -> Attempt] /\ \A u \in Token : u # t => at'[u] = at[u]
      /\ Has(a, IF free THEN "judge" ELSE "statGuard", b.try, 0, b.victim, b.step, b.passed, b.moved, b.sent, b.trust)
  BY CallEffects DEF Calm, Sets
<1>4. PICK age : guards' = IF free THEN guards \cup {Mine(t, age)} ELSE guards
  BY DEF PlaceGuard
<1>5. Mine(t, age).victim = b.victim /\ Mine(t, age).step = b.step /\ Mine(t, age).owner = t
  BY DEF Mine
<1>6. Single(guards) /\ \A g \in guards : free => ~(g.victim = b.victim /\ g.step = b.step)
  BY DEF Calm, Good, GuardAt
<1> HIDE DEF a, b, free
<1>7. Single(guards')
  BY <1>4, <1>5, <1>6 DEF Single
<1>8. Fresh(b)
  BY <1>2 DEF Fresh
<1>9. Shaped(a)
  BY <1>1, <1>2, <1>3 DEF Shaped, Has
<1>10. Placed(t, a, lock)
  BY <1>1, <1>2, <1>3, <1>8 DEF Placed, Has
<1>11. Covered(t, a, lock, guards')
  BY <1>1, <1>2, <1>3, <1>4, <1>5 DEF Covered, Has, InGuard
<1>12. Judged(a, at[a.victim])
  BY <1>1, <1>3 DEF Judged, Has
<1>13. InTime(t, a, calls[t], lock)
  BY <1>1, <1>2, NoCalls
<1>14. ASSUME NEW u \in Token
       PROVE  Placed(u, at[u], lock) /\ Covered(u, at[u], lock, guards') /\ InTime(u, at[u], calls[u], lock)
  <2>1. Covered(u, at[u], lock, guards) /\ \A g \in guards : g \in guards'
    BY <1>4 DEF Calm, Good
  <2>2. Covered(u, at[u], lock, guards')
    BY <2>1 DEF Covered
  <2> QED
    BY <2>2, AboutOne DEF Calm
<1> QED
  BY <1>2, <1>3, <1>7, <1>8, <1>9, <1>10, <1>11, <1>12, <1>13, <1>14, StepKeepsGood DEF Calm, a, b

\* A dead guard is stepped past.
LEMMA StatGuardKeepsGood ==
    ASSUME Calm, NEW t \in Token, StatGuard(t)
    PROVE  Good'
<1> DEFINE a == at'[t]
           b == at[t]
           dead == \E g \in GuardAt(b.victim, b.step) : Dead(g.age)
<1>1. /\ Shaped(b) /\ Placed(t, b, lock) /\ b.built \in Nat /\ b.sent \in Nat /\ b.step \in Nat
      /\ Judged(b, at[b.victim]) /\ Covered(t, b, lock, guards)
  BY AboutOne DEF Calm
<1>2. b.pc = "statGuard" /\ UNCHANGED <<lock, guards, calls>>
  BY DEF StatGuard, At
<1>3. b.try = "guard" /\ Fresh(b)
  BY <1>1, <1>2 DEF Shaped, Fresh
<1>4. CASE ~dead
  <2>1. Becomes(t, Blank("new"))
    BY <1>4, ReapEffects DEF Calm
  <2> QED
    BY <1>2, <1>3, <2>1, GiveUpKeepsGood
<1>5. CASE dead
  <2>1. /\ at' \in [Token -> Attempt] /\ \A u \in Token : u # t => at'[u] = at[u]
        /\ Has(a, "place", b.try, b.built, b.victim, b.step + 1, b.passed \cup {b.step}, b.moved, b.sent, b.trust)
    BY <1>5, ReapEffects DEF Calm, Sets
  <2>2. \E g \in guards : g.victim = b.victim /\ g.step = b.step /\ Dead(g.age)
    BY <1>5 DEF GuardAt
  <2> HIDE DEF a, b
  <2>3. Shaped(a)
    <3>1. \A s \in Nat : s < b.step + 1 => s \in b.passed \cup {b.step}
      BY <1>1, <1>2, <1>3 DEF Shaped
    <3> QED
      BY <1>1, <1>3, <2>1, <3>1 DEF Shaped, Has
  <2>4. Placed(t, a, lock)
    BY <1>1, <1>3, <2>1 DEF Placed, Has
  <2>5. Covered(t, a, lock, guards)
    BY <1>1, <1>3, <2>1, <2>2 DEF Covered, Has, InGuard
  <2>6. Judged(a, at[a.victim])
    BY <1>1, <2>1 DEF Judged, Has
  <2> QED
    BY <1>2, <1>3, <2>1, <2>3, <2>4, <2>5, <2>6, LocalKeepsGood DEF Calm, a, b
<1> QED
  BY <1>4, <1>5

\* The lock is judged inside the guard.
LEMMA JudgeKeepsGood ==
    ASSUME Calm, NEW t \in Token, Judge(t) \/ Check(t)
    PROVE  Good'
<1> DEFINE a == at'[t]
           b == at[t]
<1>1. /\ Shaped(b) /\ Placed(t, b, lock) /\ b.built \in Nat /\ b.sent \in Nat
      /\ Judged(b, at[b.victim]) /\ Covered(t, b, lock, guards) /\ b \in Attempt
  BY AboutOne DEF Calm
<1>2. b.pc \in {"judge", "check"} /\ UNCHANGED <<lock, guards, calls>>
  BY DEF Judge, Check, At
<1>3. b.try = "guard" /\ Fresh(b)
  BY <1>1, <1>2 DEF Shaped, Fresh
<1>4. PICK p \in {"place", "unguard", "check", "move"} :
        /\ Sets(t, p, IF p = "place" THEN "guarded" ELSE "guard", b.built, b.victim, b.step, b.passed, b.moved)
        /\ p = "place" => lock.owner = NoToken
        /\ p = "check" => lock.owner # NoToken /\ Dead(lock.age)
        /\ p = "move" => b.pc = "check" /\ lock.owner = b.victim
  <2>1. CASE Judge(t)
    BY <1>3, <2>1, CallEffects DEF Calm
  <2>2. CASE Check(t)
    BY <1>3, <2>2, CallEffects DEF Calm, Check, At
  <2> QED
    BY <2>1, <2>2
<1>5. /\ at' \in [Token -> Attempt] /\ \A u \in Token : u # t => at'[u] = at[u]
      /\ Has(a, p, IF p = "place" THEN "guarded" ELSE "guard", b.built, b.victim, b.step, b.passed, b.moved, b.sent, b.trust)
  BY <1>4 DEF Sets
<1>6. p \in {"check", "move"} => b.victim # NoToken
  <2>1. CASE p = "check"
    <3>1. ~NoVictim(t)'
      BY DEF Calm, Sheltered
    <3> QED
      BY <1>5, <2>1, <3>1 DEF NoVictim, At, Has
  <2>2. CASE p = "move"
    BY <1>1, <1>4, <2>2 DEF Shaped
  <2> QED
    BY <2>1, <2>2
<1> HIDE DEF a, b
<1>7. p = "move" => Dead(lock.age)
  BY <1>1, <1>4 DEF Placed
<1>8. Shaped(a)
  BY <1>1, <1>2, <1>3, <1>5, <1>6 DEF Shaped, Has
<1>9. Placed(t, a, lock)
  BY <1>1, <1>3, <1>4, <1>5, <1>7 DEF Placed, Has
<1>10. Covered(t, a, lock, guards)
  BY <1>1, <1>2, <1>3, <1>4, <1>5 DEF Covered, Has, InGuard
<1>11. Judged(a, at[a.victim])
  BY <1>1, <1>5 DEF Judged, Has
<1> QED
  BY <1>2, <1>3, <1>5, <1>8, <1>9, <1>10, <1>11, LocalKeepsGood DEF Calm, a, b

\* A victim is never an attempt that has not placed the lock yet.
LEMMA VictimNotFresh ==
    ASSUME Good, TypeOK, NEW t \in Token, NEW u \in Token, Fresh(at[t])
    PROVE  at[u].victim # t
BY FileAssumption DEF Good, Judged

\* The lock is placed where none was.
LEMMA PlacedKeepsGood ==
    ASSUME Calm, NEW t \in Token, PlaceLock(t), lock.owner = NoToken
    PROVE  Good'
<1> DEFINE a == at'[t]
           b == at[t]
           Stays(p, w) == Sets(t, p, w, 0, b.victim, b.step, b.passed, b.moved)
<1>1. /\ Shaped(b) /\ b.built \in Nat /\ b.sent \in Nat /\ b.sent \in Age /\ Stale \in Nat
      /\ Judged(b, at[b.victim]) /\ InTime(t, b, calls[t], lock) /\ b \in Attempt
  BY AboutOne, FieldTypes, FileAssumption DEF Calm
<1>2. b.pc = "place" /\ b.try # "guard" /\ guards' = guards
  BY DEF PlaceLock, At
<1>3. b.try \in {"first", "second", "guarded"} /\ Fresh(b) /\ \A h \in Thread : calls[t][h].pc = "none"
  BY <1>1, <1>2, NoCalls DEF Shaped, Fresh
<1>4. /\ \E age \in 0..b.built : lock' = [owner |-> t, age |-> age]
      /\ (b.try = "guarded" /\ Stays("unguard", "won") /\ UNCHANGED calls) \/ (b.try # "guarded" /\ Granted(t))
  BY PlaceEffects DEF Calm
<1>5. lock'.age <= b.sent \/ b.sent >= Stale
  <2>1. PICK age \in 0..b.built : lock' = [owner |-> t, age |-> age]
    BY <1>4
  <2>2. b.built <= b.sent \/ b.sent >= Stale
    BY <1>1 DEF Shaped
  <2> QED
    BY <1>1, <2>1, <2>2
<1>6. lock'.owner = t
  BY <1>4
<1>7. /\ at' \in [Token -> Attempt] /\ \A u \in Token : u # t => at'[u] = at[u] /\ calls'[u] = calls[u]
      /\ \/ b.try = "guarded" /\ Has(a, "unguard", "won", 0, b.victim, b.step, b.passed, b.moved, b.sent, b.trust)
         \/ b.sent < Stale /\ Has(a, "held", "first", 0, NoToken, 0, {}, Absent, 0, b.sent)
         \/ Has(a, "ended", "first", 0, NoToken, 0, {}, Absent, 0, 0)
      /\ a.pc # "ended" => calls'[t] = calls[t]
      /\ \A h \in Thread : calls'[t][h].pc \in {"none", "relOwner"}
  <2>1. CASE b.try = "guarded"
    BY <1>3, <1>4, <2>1 DEF Sets
  <2>2. CASE b.try # "guarded"
    <3>1. Calling("relOwner").pc = "relOwner" /\ "guard" \in Thread
      BY CallingHas DEF CallPC, Thread
    <3>2. Granted(t)
      BY <1>4, <2>2
    <3> QED
      BY <1>3, <3>1, <3>2, GrantedEffects DEF Calm, Has, OneCall
  <2> QED
    BY <2>1, <2>2
<1>8. \A u \in Token : at[u].victim # t
  BY <1>3, VictimNotFresh DEF Calm
<1>9. a.victim # t
  BY <1>7, <1>8, FileAssumption DEF Has
<1>10. ASSUME NEW u \in Token, u # t
       PROVE  Placed(u, at[u], lock') /\ Covered(u, at[u], lock', guards') /\ InTime(u, at[u], calls[u], lock')
  <2>1. Shaped(at[u]) /\ Placed(u, at[u], lock) /\ InTime(u, at[u], calls[u], lock) /\ at[u].victim # t
    BY <1>8 DEF Calm, Good
  <2>2. u # NoToken
    BY FileAssumption
  <2>3. Placed(u, at[u], lock')
    BY <1>6, <1>10, <2>1, <2>2 DEF Placed, Shaped
  <2>4. Covered(u, at[u], lock', guards')
    BY <1>6, <2>1 DEF Covered
  <2>5. InTime(u, at[u], calls[u], lock')
    BY <2>1, <2>2 DEF InTime
  <2> QED
    BY <2>3, <2>4, <2>5
<1> HIDE DEF a, b
<1>11. ~Fresh(a)
  BY <1>7 DEF Fresh, Has
<1>12. Shaped(a)
  BY <1>1, <1>7 DEF Shaped, Has
<1>13. Placed(t, a, lock')
  BY <1>1, <1>5, <1>6, <1>7, <1>11 DEF Placed, Has
<1>14. Covered(t, a, lock', guards')
  BY <1>6, <1>9 DEF Covered
<1>15. Judged(a, at[a.victim])
  BY <1>1, <1>7 DEF Judged, Has
<1>16. InTime(t, a, calls'[t], lock')
  <2>1. CASE a.pc = "ended"
    BY <1>7, <2>1 DEF InTime, Looked
  <2>2. CASE a.pc # "ended"
    BY <1>1, <1>2, <1>7, <2>2, NoCalls
  <2> QED
    BY <2>1, <2>2
<1>17. Single(guards')
  BY <1>2 DEF Calm, Good
<1> QED
  BY <1>7, <1>10, <1>11, <1>12, <1>13, <1>14, <1>15, <1>16, <1>17, StepKeepsGood DEF Calm, a, b

\* The place is taken.
LEMMA RefusedKeepsGood ==
    ASSUME Calm, NEW t \in Token, PlaceLock(t), lock.owner # NoToken
    PROVE  Good'
<1> DEFINE a == at'[t]
           b == at[t]
<1>1. /\ Shaped(b) /\ Placed(t, b, lock) /\ b.built \in Nat /\ b.sent \in Nat
      /\ Judged(b, at[b.victim]) /\ Covered(t, b, lock, guards)
  BY AboutOne DEF Calm
<1>2. b.pc = "place" /\ b.try # "guard" /\ UNCHANGED <<lock, guards, calls>>
  BY PlaceEffects DEF Calm, PlaceLock, At
<1>3. Fresh(b)
  BY <1>1, <1>2 DEF Shaped, Fresh
<1>4. CASE Becomes(t, Blank("new"))
  BY <1>2, <1>3, <1>4, GiveUpKeepsGood
<1>5. CASE ~Becomes(t, Blank("new"))
  <2>1. PICK p \in {"stat", "unguard"} :
          /\ Sets(t, p, b.try, 0, b.victim, b.step, b.passed, b.moved)
          /\ b.try = IF p = "stat" THEN "first" ELSE "guarded"
    BY <1>5, PlaceEffects DEF Calm
  <2>2. /\ at' \in [Token -> Attempt] /\ \A u \in Token : u # t => at'[u] = at[u]
        /\ Has(a, p, b.try, 0, b.victim, b.step, b.passed, b.moved, b.sent, b.trust)
    BY <2>1 DEF Sets
  <2> HIDE DEF a, b
  <2>3. Shaped(a)
    BY <1>1, <2>1, <2>2 DEF Shaped, Has
  <2>4. Placed(t, a, lock)
    BY <1>1, <1>3, <2>1, <2>2 DEF Placed, Has
  <2>5. Covered(t, a, lock, guards)
    BY <1>1, <2>1, <2>2 DEF Covered, Has, InGuard
  <2>6. Judged(a, at[a.victim])
    BY <1>1, <2>2 DEF Judged, Has
  <2> QED
    BY <1>2, <1>3, <2>2, <2>3, <2>4, <2>5, <2>6, LocalKeepsGood DEF Calm, a, b
<1> QED
  BY <1>4, <1>5

\* A dead lock is moved aside: nobody trusts it, and neither a release nor a renewal is about to touch it.
LEMMA MoveKeepsGood ==
    ASSUME Calm, NEW t \in Token, Move(t)
    PROVE  Good'
<1> DEFINE a == at'[t]
           b == at[t]
<1>1. /\ Shaped(b) /\ Placed(t, b, lock) /\ b.built \in Nat /\ b.sent \in Nat
      /\ Judged(b, at[b.victim]) /\ InTime(t, b, calls[t], lock) /\ b \in Attempt
  BY AboutOne DEF Calm
<1>2. b.pc = "move" /\ guards' = guards /\ calls' = calls
  BY DEF Move, At
<1>3. b.try = "guard" /\ lock.owner = b.victim /\ b.victim # NoToken /\ Dead(lock.age)
  BY <1>1, <1>2 DEF Shaped, Placed
<1>4. /\ lock' = Absent /\ at' \in [Token -> Attempt] /\ \A u \in Token : u # t => at'[u] = at[u]
      /\ Has(a, "identify", b.try, b.built, b.victim, b.step, b.passed, lock, b.sent, b.trust)
  BY <1>3, ReapEffects DEF Calm, Sets
<1>5. lock'.owner = NoToken
  BY <1>4 DEF Absent
<1>6. InTime(t, a, calls[t], lock')
  BY <1>1, <1>2, NoCalls
<1>7. ASSUME NEW u \in Token, u # t
      PROVE  Placed(u, at[u], lock') /\ Covered(u, at[u], lock', guards') /\ InTime(u, at[u], calls[u], lock')
  <2>1. /\ Shaped(at[u]) /\ Placed(u, at[u], lock) /\ InTime(u, at[u], calls[u], lock) /\ Sheltered(u)
        /\ u # NoToken /\ at[u].trust \in Nat /\ at[u].sent \in Nat /\ Stale \in Nat /\ lock.age \in Nat
    BY AboutOne, FileAssumption DEF Calm, TypeOK, Lock, Age
  <2>2. ~(at[u].pc = "held" /\ at[u].trust < Stale) /\ ~(at[u].try = "won" /\ at[u].sent < Stale)
    BY <1>3, <2>1 DEF Placed, Dead
  <2>3. at[u].pc # "move"
    <3>1. at[u].pc = "move" => at[u].try = "guard" /\ at[u].victim = lock.owner
      BY <2>1 DEF Placed, Shaped
    <3> QED
      BY <1>2, <1>3, <1>7, <3>1, OneTaker DEF Calm
  <2>4. Placed(u, at[u], lock')
    BY <1>5, <2>1, <2>2, <2>3 DEF Placed, Shaped
  <2>5. calls[u]["renewal"].pc \notin {"extClock", "utimes"} /\ \A h \in Thread : ~Looked(calls[u][h])
    BY <1>3, <2>1 DEF Sheltered, DeadRenewal, DeadRelease
  <2>6. InTime(u, at[u], calls[u], lock')
    BY <2>1, <2>5 DEF InTime
  <2> QED
    BY <1>5, <2>4, <2>6 DEF Covered
<1> HIDE DEF a, b
<1>8. Fresh(b)
  BY <1>2, <1>3 DEF Fresh
<1>9. Shaped(a)
  BY <1>1, <1>3, <1>4 DEF Shaped, Has
<1>10. Placed(t, a, lock')
  BY <1>3, <1>4, <1>5, FileAssumption DEF Placed, Has
<1>11. Covered(t, a, lock', guards') /\ Judged(a, at[a.victim])
  BY <1>1, <1>4, <1>5 DEF Covered, Judged, Has
<1>12. Single(guards')
  BY <1>2 DEF Calm, Good
<1> QED
  BY <1>2, <1>4, <1>6, <1>7, <1>8, <1>9, <1>10, <1>11, <1>12, StepKeepsGood DEF Calm, a, b

\* What was moved is the victim's.
LEMMA IdentifyKeepsGood ==
    ASSUME Calm, NEW t \in Token, Identify(t)
    PROVE  Good'
<1> DEFINE a == at'[t]
           b == at[t]
<1>1. /\ Shaped(b) /\ Placed(t, b, lock) /\ b.built \in Nat /\ b.sent \in Nat
      /\ Judged(b, at[b.victim])
  BY AboutOne DEF Calm
<1>2. b.pc = "identify" /\ UNCHANGED <<lock, guards, calls>>
  BY DEF Identify, At
<1>3. b.try = "guard" /\ b.moved.owner = b.victim /\ lock.owner # b.victim /\ Fresh(b)
  BY <1>1, <1>2 DEF Shaped, Placed, Fresh
<1>4. /\ at' \in [Token -> Attempt] /\ \A u \in Token : u # t => at'[u] = at[u]
      /\ Has(a, "sweep", "guard", b.built, b.victim, b.step, b.passed, Absent, b.sent, b.trust)
  BY <1>3, ReapEffects DEF Calm, Sets
<1> HIDE DEF a, b
<1>5. Shaped(a)
  BY <1>1, <1>2, <1>4 DEF Shaped, Has
<1>6. Placed(t, a, lock)
  BY <1>1, <1>3, <1>4 DEF Placed, Has
<1>7. Covered(t, a, lock, guards) /\ Judged(a, at[a.victim])
  BY <1>1, <1>3, <1>4 DEF Covered, Judged, Has
<1> QED
  BY <1>2, <1>3, <1>4, <1>5, <1>6, <1>7, LocalKeepsGood DEF Calm, a, b

\* The guards that were stepped past protect no lock any more.
LEMMA SweepKeepsGood ==
    ASSUME Calm, NEW t \in Token, Sweep(t)
    PROVE  Good'
<1> DEFINE a == at'[t]
           b == at[t]
<1>1. /\ Shaped(b) /\ Placed(t, b, lock) /\ b.built \in Nat /\ b.sent \in Nat
      /\ Judged(b, at[b.victim]) /\ InTime(t, b, calls[t], lock)
  BY AboutOne DEF Calm
<1>2. b.pc = "sweep" /\ lock' = lock /\ calls' = calls
  BY DEF Sweep, At
<1>3. b.try = "guard" /\ lock.owner # b.victim
  BY <1>1, <1>2 DEF Shaped, Placed
<1>4. PICK p \in {"place", "sweep"}, ps \in SUBSET b.passed :
        /\ Sets(t, p, IF p = "place" THEN "guarded" ELSE "guard", b.built, b.victim, b.step, ps, b.moved)
        /\ guards' = guards \/ \E s : guards' = guards \ GuardAt(b.victim, s)
  <2>1. CASE b.passed = {} /\ UNCHANGED guards /\ Sets(t, "place", "guarded", b.built, b.victim, b.step, b.passed, b.moved)
    BY <2>1
  <2>2. CASE \E s \in b.passed : /\ guards' = guards \ GuardAt(b.victim, s)
                                 /\ Sets(t, "sweep", b.try, b.built, b.victim, b.step, b.passed \ {s}, b.moved)
    BY <1>3, <2>2
  <2> QED
    BY <2>1, <2>2, ReapEffects DEF Calm
<1>5. /\ at' \in [Token -> Attempt] /\ \A u \in Token : u # t => at'[u] = at[u]
      /\ Has(a, p, IF p = "place" THEN "guarded" ELSE "guard", b.built, b.victim, b.step, ps, b.moved, b.sent, b.trust)
  BY <1>4 DEF Sets
<1>6. guards' \subseteq guards /\ \A g \in guards : g.victim # b.victim => g \in guards'
  BY <1>4 DEF GuardAt
<1>7. Single(guards')
  BY <1>6 DEF Calm, Good, Single
<1>8. ASSUME NEW u \in Token
      PROVE  Placed(u, at[u], lock) /\ Covered(u, at[u], lock, guards') /\ InTime(u, at[u], calls[u], lock)
  <2>1. Placed(u, at[u], lock) /\ Covered(u, at[u], lock, guards) /\ InTime(u, at[u], calls[u], lock)
    BY DEF Calm, Good
  <2> HIDE DEF b
  <2>2. Covered(u, at[u], lock, guards')
    BY <1>3, <1>6, <2>1 DEF Covered
  <2> QED
    BY <2>1, <2>2
<1>9. InTime(t, a, calls[t], lock)
  BY <1>1, <1>2, NoCalls
<1> HIDE DEF a, b
<1>10. Fresh(b)
  BY <1>2, <1>3 DEF Fresh
<1>11. Shaped(a)
  BY <1>1, <1>2, <1>5 DEF Shaped, Has
<1>12. Placed(t, a, lock)
  BY <1>1, <1>3, <1>5, <1>10 DEF Placed, Has
<1>13. Covered(t, a, lock, guards') /\ Judged(a, at[a.victim])
  BY <1>1, <1>3, <1>5 DEF Covered, Judged, Has
<1> QED
  BY <1>2, <1>5, <1>7, <1>8, <1>9, <1>10, <1>11, <1>12, <1>13, StepKeepsGood DEF Calm, a, b

\* A taker's own guard goes; it hides nobody else's and nobody stepped past it.
LEMMA UnguardKeepsGood ==
    ASSUME Calm, NEW t \in Token, Unguard(t)
    PROVE  Good'
<1> DEFINE a == at'[t]
           b == at[t]
<1>1. /\ Shaped(b) /\ Placed(t, b, lock) /\ Covered(t, b, lock, guards) /\ InTime(t, b, calls[t], lock)
      /\ b \in Attempt /\ b.sent \in Age /\ b.sent \in Nat
  BY AboutOne, FieldTypes DEF Calm
<1>2. b.pc = "unguard" /\ lock' = lock /\ guards' = guards \ GuardAt(b.victim, b.step)
  BY DEF Unguard, At
<1>3. b.try \in {"guard", "guarded", "won"} /\ InGuard(b) /\ \A h \in Thread : calls[t][h].pc = "none"
  BY <1>1, <1>2, NoCalls DEF Shaped, InGuard
<1>4. /\ at' \in [Token -> Attempt] /\ \A u \in Token : u # t => at'[u] = at[u] /\ calls'[u] = calls[u]
      /\ \/ b.try # "won" /\ Has(a, "new", "first", 0, NoToken, 0, {}, Absent, 0, 0)
         \/ b.try = "won" /\ Has(a, "held", "first", 0, NoToken, 0, {}, Absent, 0, b.sent)
         \/ b.try = "won" /\ Has(a, "ended", "first", 0, NoToken, 0, {}, Absent, 0, 0)
      /\ a.pc # "ended" => calls'[t] = calls[t]
      /\ \A h \in Thread : calls'[t][h].pc \in {"none", "relOwner"}
  <2>1. CASE b.try = "won"
    <3>1. Calling("relOwner").pc = "relOwner" /\ "guard" \in Thread
      BY CallingHas DEF CallPC, Thread
    <3>2. Granted(t)
      BY <2>1 DEF Unguard
    <3> QED
      BY <1>3, <2>1, <3>1, <3>2, GrantedEffects DEF Calm, Has, OneCall
  <2>2. CASE b.try # "won"
    <3>1. Has(Blank("new"), "new", "first", 0, NoToken, 0, {}, Absent, 0, 0)
      BY BlankHas DEF PC
    <3>2. Blank("new") \in Attempt
      BY <3>1 DEF Has
    <3>3. Becomes(t, Blank("new")) /\ calls' = calls
      BY <2>2 DEF Unguard
    <3>4. /\ at' \in [Token -> Attempt] /\ \A u \in Token : u # t => at'[u] = at[u]
          /\ Has(a, "new", "first", 0, NoToken, 0, {}, Absent, 0, 0)
      BY <3>1, <3>2, <3>3, BecomesFacts DEF Calm, TypeOK
    <3> QED
      BY <1>3, <2>2, <3>3, <3>4
  <2> QED
    BY <2>1, <2>2
<1>5. Single(guards')
  BY <1>2 DEF Calm, Good, Single
<1>6. ASSUME NEW u \in Token, u # t, lock.owner = at[u].victim, at[u].victim # NoToken, NEW g \in guards,
             g.victim = at[u].victim, g.owner = u \/ Dead(g.age)
      PROVE  g \in guards'
  <2> SUFFICES ASSUME g.victim = b.victim, g.step = b.step PROVE FALSE
    BY <1>2 DEF GuardAt
  <2>1. PICK h \in guards : h.victim = b.victim /\ h.step = b.step /\ h.owner = t
    BY <1>1, <1>3, <1>6 DEF Covered
  <2>2. g = h
    BY <2>1 DEF Calm, Good, Single
  <2>3. Dead(g.age) => DeadGuard(t)
    BY <1>3 DEF DeadGuard, Guarded, InGuard, GuardAt
  <2> QED
    BY <1>6, <2>1, <2>2, <2>3 DEF Calm, Good, Sheltered
<1>7. ASSUME NEW u \in Token, u # t
      PROVE  Placed(u, at[u], lock) /\ Covered(u, at[u], lock, guards') /\ InTime(u, at[u], calls[u], lock)
  <2>1. Placed(u, at[u], lock) /\ Covered(u, at[u], lock, guards) /\ InTime(u, at[u], calls[u], lock)
    BY DEF Calm, Good
  <2>2. Covered(u, at[u], lock, guards')
    BY <1>6, <1>7, <2>1 DEF Covered
  <2> QED
    BY <2>1, <2>2
<1> HIDE DEF a, b
<1>8. Fresh(a) => Fresh(b)
  BY <1>2, <1>4 DEF Fresh, Has
<1>9. Shaped(a)
  BY <1>4 DEF Shaped, Has
<1>10. Placed(t, a, lock)
  BY <1>1, <1>4, <1>8 DEF Placed, Has
<1>11. Covered(t, a, lock, guards') /\ Judged(a, at[a.victim])
  BY <1>4 DEF Covered, Judged, Has
<1>12. InTime(t, a, calls'[t], lock)
  <2>1. CASE a.pc = "ended"
    BY <1>4, <2>1 DEF InTime, Looked
  <2>2. CASE a.pc # "ended"
    BY <1>1, <1>2, <1>4, <2>2, NoCalls
  <2> QED
    BY <2>1, <2>2
<1> QED
  BY <1>2, <1>4, <1>5, <1>7, <1>8, <1>9, <1>10, <1>11, <1>12, StepKeepsGood DEF Calm, a, b

\* A step of t's guard or renewal that touches neither the directories nor the guard's own record.
LEMMA CallKeepsGood ==
    ASSUME Calm, NEW t \in Token, NEW h \in Thread, NEW c \in Call, UNCHANGED <<lock, guards, at>>,
           OneCall(t, h, c), InTime(t, at[t], calls'[t], lock)
    PROVE  Good'
<1>1. /\ lock' = lock /\ guards' = guards /\ at' = at
      /\ \A u \in Token : u # t => calls'[u] = calls[u]
  BY DEF OneCall
<1>2. \A u \in Token : /\ Shaped(at[u]) /\ Placed(u, at[u], lock) /\ Covered(u, at[u], lock, guards)
                       /\ Judged(at[u], at[at[u].victim]) /\ InTime(u, at[u], calls[u], lock)
  BY DEF Calm, Good
<1>3. Single(guards) /\ at \in [Token -> Attempt]
  BY DEF Calm, Good, TypeOK
<1> QED
  BY <1>1, <1>2, <1>3, StepKeepsGood DEF Calm

\* A call of the renewal's own thread, while the guard waits for it or after it ended.
LEMMA RenewalInTime ==
    ASSUME Calm, NEW t \in Token, NEW c, calls'[t]["renewal"] = c, calls'[t]["guard"] = calls[t]["guard"],
           at[t].pc \in {"held", "ended"},
           \/ c.pc \in {"none"} \cup Extending
           \/ c.pc = "relOwner" /\ at[t].pc = "ended",
           at[t].pc = "held" =>
             /\ c.pc \in {"extClock", "utimes"} => lock.owner = t
             /\ c.pc \in Extending => c.built <= c.sent \/ c.sent >= Stale
    PROVE  InTime(t, at[t], calls'[t], lock)
<1>1. InTime(t, at[t], calls[t], lock)
  BY AboutOne DEF Calm
<1>2. c.pc \notin {"relStat", "move", "restore", "identify"}
  BY DEF Extending
<1>3. ASSUME NEW h \in Thread
      PROVE  /\ Looked(calls'[t][h]) => lock.owner = t
             /\ calls'[t][h].pc # "restore"
             /\ calls'[t][h].pc = "identify" => calls'[t][h].moved.owner = t
  <2>1. CASE h = "guard"
    BY <1>1, <2>1 DEF InTime, Thread
  <2>2. CASE h = "renewal"
    BY <1>2, <2>2 DEF Looked
  <2> QED
    BY <2>1, <2>2 DEF Thread
<1>4. at[t].pc = "held" => calls[t]["guard"].pc = "none"
  BY <1>1 DEF InTime
<1> QED
  BY <1>3, <1>4 DEF InTime

\* extend, up to the write.
LEMMA ExtendKeepsGood ==
    ASSUME Calm, NEW t \in Token,
           \/ Extend(t)
           \/ Lose(t)
           \/ ExtendStat(t) /\ RenewalGoes(t, "extOwner")
           \/ ExtendOwner(t) /\ RenewalGoes(t, "extClock") /\ lock.owner = t
           \/ ExtendClock(t) /\ RenewalGoes(t, "utimes")
           \/ /\ UNCHANGED <<lock, guards>> /\ calls[t]["renewal"].pc # "none"
              /\ RenewalAnswers(t, FALSE)
    PROVE  Good'
<1> DEFINE r == calls[t]["renewal"]
<1>1. /\ InTime(t, at[t], calls[t], lock) /\ "renewal" \in Thread /\ "guard" \in Thread /\ at[t].pc \in PC
      /\ "renewal" # "guard"
  BY AboutOne DEF Calm, Thread
<1>2. r.pc # "none" => at[t].pc \in {"held", "ended"}
  BY <1>1 DEF InTime
<1>3. CASE Lose(t)
  <2>1. Has(Blank("ended"), "ended", "first", 0, NoToken, 0, {}, Absent, 0, 0)
    BY BlankHas DEF PC
  <2>2. Blank("ended") \in Attempt /\ Becomes(t, Blank("ended")) /\ UNCHANGED <<lock, guards, calls>>
    BY <1>3, <2>1 DEF Has, Lose
  <2>3. /\ at' \in [Token -> Attempt] /\ \A u \in Token : u # t => at'[u] = at[u]
        /\ Has(at'[t], "ended", "first", 0, NoToken, 0, {}, Absent, 0, 0)
    BY <2>1, <2>2, BecomesFacts DEF Calm, TypeOK
  <2> QED
    BY <2>2, <2>3, OverKeepsGood
<1>4. CASE Extend(t)
  <2>1. /\ UNCHANGED <<lock, guards, at>> /\ at[t].pc = "held" /\ Calls(t, "renewal", Calling("extStat"))
    BY <1>4 DEF Extend, At
  <2>2. /\ Calling("extStat") \in Call /\ Calling("extStat").pc = "extStat"
        /\ Calling("extStat").built = 0 /\ Calling("extStat").sent = 0
    BY CallingHas DEF CallPC, Extending
  <2>3. OneCall(t, "renewal", Calling("extStat"))
    BY <1>1, <2>1, <2>2, CallsFacts DEF Calm, TypeOK
  <2>4. InTime(t, at[t], calls'[t], lock)
    BY <1>1, <2>1, <2>2, <2>3, RenewalInTime DEF OneCall, Extending
  <2> QED
    BY <1>1, <2>1, <2>2, <2>3, <2>4, CallKeepsGood
<1>5. ASSUME NEW l \in {"extOwner", "extClock", "utimes"}, RenewalGoes(t, l), UNCHANGED <<lock, guards>>,
             r.pc \in Extending, l = "extClock" => lock.owner = t, l = "utimes" => r.pc = "extClock"
      PROVE  Good'
  <2>1. l \in Extending
    BY <1>5 DEF Extending
  <2>2. PICK c \in Call : OneCall(t, "renewal", c) /\ c.pc = l /\ c.built = r.built /\ c.sent = r.sent
    BY <1>5, <2>1, GoesEffects DEF Calm
  <2>3. at' = at
    BY <1>5 DEF RenewalGoes
  <2>4. at[t].pc \in {"held", "ended"}
    BY <1>2, <1>5 DEF Extending
  <2>5. at[t].pc = "held" => /\ l \in {"extClock", "utimes"} => lock.owner = t
                             /\ r.built <= r.sent \/ r.sent >= Stale
    BY <1>1, <1>5 DEF InTime
  <2>6. InTime(t, at[t], calls'[t], lock)
    BY <1>1, <2>1, <2>2, <2>4, <2>5, RenewalInTime DEF OneCall
  <2> QED
    BY <1>1, <1>5, <2>2, <2>3, <2>6, CallKeepsGood
<1>6. CASE UNCHANGED <<lock, guards>> /\ r.pc # "none" /\ RenewalAnswers(t, FALSE)
  <2>1. Calling("none") \in Call /\ Calling("none").pc = "none" /\ "ended" \in PC
    BY CallingHas DEF CallPC, PC
  <2>2. OneCall(t, "renewal", Calling("none"))
    BY <1>6, AnswersEffects DEF Calm
  <2>3. CASE at[t].pc = "held"
    <3>1. Has(Blank("ended"), "ended", "first", 0, NoToken, 0, {}, Absent, 0, 0)
      BY <2>1, BlankHas
    <3>2. Blank("ended") \in Attempt /\ Becomes(t, Blank("ended"))
      BY <1>6, <2>3, <3>1, AnswersEffects DEF Calm, Has
    <3>3. /\ at' \in [Token -> Attempt] /\ \A u \in Token : u # t => at'[u] = at[u]
          /\ Has(at'[t], "ended", "first", 0, NoToken, 0, {}, Absent, 0, 0)
      BY <3>1, <3>2, BecomesFacts DEF Calm, TypeOK
    <3> QED
      BY <1>6, <2>1, <2>2, <3>3, OverKeepsGood DEF OneCall
  <2>4. CASE at[t].pc # "held"
    <3>1. at' = at
      BY <1>6, <2>4, AnswersEffects DEF Calm
    <3>2. InTime(t, at[t], calls'[t], lock)
      BY <1>1, <1>2, <1>6, <2>1, <2>2, <2>4, RenewalInTime DEF OneCall, Extending
    <3> QED
      BY <1>1, <1>6, <2>1, <2>2, <3>1, <3>2, CallKeepsGood
  <2> QED
    BY <2>3, <2>4
<1> QED
  BY <1>3, <1>4, <1>5, <1>6 DEF ExtendStat, ExtendOwner, ExtendClock, On, Extending

\* extend's write: it revives no dead lock, and makes another's no older than it is.
LEMMA UtimesKeepsGood ==
    ASSUME Calm, NEW t \in Token, Utimes(t), lock.owner # NoToken, RenewalAnswers(t, TRUE)
    PROVE  Good'
<1> DEFINE a == at'[t]
           b == at[t]
           r == calls[t]["renewal"]
<1>1. /\ Shaped(b) /\ Placed(t, b, lock) /\ Covered(t, b, lock, guards) /\ Judged(b, at[b.victim])
      /\ InTime(t, b, calls[t], lock) /\ Sheltered(t) /\ b \in Attempt /\ b.pc \in PC
      /\ r \in Call /\ r.built \in Nat /\ r.sent \in Nat /\ r.sent \in Age
      /\ lock.age \in Nat /\ Stale \in Nat
      /\ "renewal" \in Thread /\ "guard" \in Thread /\ "guard" # "renewal"
  BY AboutOne, FileAssumption DEF Calm, Thread, TypeOK, Call, Age, Lock
<1>2. r.pc = "utimes" /\ guards' = guards /\ lock'.owner = lock.owner /\ lock'.age = r.built
  BY DEF Utimes, On, Calm, TypeOK, Lock
<1>3. ~Dead(lock.age)
  BY <1>1, <1>2 DEF Sheltered, DeadRenewal
<1>4. lock.owner # t => r.built = 0
  <2>1. ~(lock.owner # t /\ r.built > 0)
    BY <1>1, <1>2 DEF Sheltered, OldClock, On
  <2> QED
    BY <1>1, <2>1
<1>5. b.pc \in {"held", "ended"}
  BY <1>1, <1>2 DEF InTime
<1>6. b.pc = "held" => lock.owner = t /\ (r.built <= r.sent \/ r.sent >= Stale) /\ calls[t]["guard"].pc = "none"
  BY <1>1, <1>2 DEF InTime, Extending
<1>7. ASSUME NEW u \in Token, u # t
      PROVE  Placed(u, at[u], lock') /\ Covered(u, at[u], lock', guards') /\ InTime(u, at[u], calls[u], lock')
  <2>1. /\ Placed(u, at[u], lock) /\ Covered(u, at[u], lock, guards) /\ InTime(u, at[u], calls[u], lock)
        /\ at[u].trust \in Nat /\ at[u].sent \in Nat
    BY AboutOne DEF Calm
  <2>2. lock.owner = u => lock'.age = 0
    BY <1>2, <1>4, <1>7
  <2>3. ~(at[u].pc \in {"check", "move"} /\ lock'.owner = at[u].victim) /\ at[u].pc # "move"
    BY <1>2, <1>3, <2>1 DEF Placed
  <2>4. Placed(u, at[u], lock')
    BY <1>2, <2>1, <2>2, <2>3 DEF Placed
  <2> QED
    BY <1>2, <2>1, <2>4 DEF Covered, InTime
<1>8. /\ at' \in [Token -> Attempt]
      /\ \A u \in Token : u # t => at'[u] = at[u] /\ calls'[u] = calls[u]
      /\ calls'[t]["guard"] = calls[t]["guard"]
      /\ \/ b.pc = "held" /\ Has(a, "held", "first", 0, NoToken, 0, {}, Absent, 0, r.sent) /\ calls'[t]["renewal"].pc = "none"
         \/ b.pc = "ended" /\ a = b /\ calls'[t]["renewal"].pc = "relOwner"
  <2>1. Calling("none").pc = "none" /\ Calling("relOwner").pc = "relOwner"
    BY CallingHas DEF CallPC
  <2>2. CASE b.pc = "held"
    BY <1>1, <2>1, <2>2, AnswersEffects DEF Calm, OneCall
  <2>3. CASE b.pc = "ended"
    BY <1>1, <2>1, <2>3, AnswersEffects DEF Calm, OneCall
  <2> QED
    BY <1>5, <2>2, <2>3
<1> HIDE DEF a, b, r
<1>9. CASE b.pc = "held"
  <2>1. Has(a, "held", "first", 0, NoToken, 0, {}, Absent, 0, r.sent) /\ calls'[t]["renewal"].pc = "none"
    BY <1>8, <1>9
  <2>2. ~Fresh(a)
    BY <2>1 DEF Fresh, Has
  <2>3. Shaped(a)
    BY <1>1, <2>1 DEF Shaped, Has
  <2>4. Placed(t, a, lock')
    BY <1>1, <1>2, <1>6, <1>9, <2>1, <2>2 DEF Placed, Has
  <2>5. Covered(t, a, lock', guards') /\ Judged(a, at[a.victim])
    BY <2>1 DEF Covered, Judged, Has
  <2>6. InTime(t, a, calls'[t], lock')
    BY <1>6, <1>8, <1>9, <2>1 DEF InTime, Has, Looked, Thread, Extending
  <2>7. Single(guards')
    BY <1>2 DEF Calm, Good
  <2> QED
    BY <1>7, <1>8, <2>2, <2>3, <2>4, <2>5, <2>6, <2>7, StepKeepsGood DEF Calm, a
<1>10. CASE b.pc = "ended"
  <2>1. a = b /\ calls'[t]["renewal"].pc = "relOwner"
    BY <1>8, <1>10
  <2>2. ~Fresh(a)
    BY <1>10, <2>1 DEF Fresh
  <2>3. Placed(t, a, lock') /\ Covered(t, a, lock', guards')
    BY <1>1, <1>2, <1>10, <2>1, <2>2 DEF Placed, Covered, Shaped
  <2>4. InTime(t, a, calls'[t], lock')
    BY <1>1, <1>2, <1>8, <1>10, <2>1 DEF InTime, Looked, Thread
  <2>5. Single(guards')
    BY <1>2 DEF Calm, Good
  <2>6. Shaped(a) /\ Judged(a, at[a.victim])
    BY <1>1, <2>1
  <2> QED
    BY <1>7, <1>8, <2>2, <2>3, <2>4, <2>5, <2>6, StepKeepsGood DEF Calm, a
<1> QED
  BY <1>5, <1>9, <1>10

\* The callback settles, or the process dies.
LEMMA EndKeepsGood ==
    ASSUME Calm, NEW t \in Token, Release(t) \/ Crash(t)
    PROVE  Good'
<1>1. CASE Release(t)
  <2>1. UNCHANGED <<lock, guards>>
    BY <1>1 DEF Release
  <2> QED
    BY <1>1, <2>1, ReleaseBegins, OverKeepsGood DEF Calm, OneCall
<1>2. CASE Crash(t)
  <2>1. UNCHANGED <<lock, guards>> /\ Calling("none").pc = "none"
    BY <1>2, CallingHas DEF Crash, CallPC
  <2> QED
    BY <1>2, <2>1, CrashEffects, OverKeepsGood DEF Calm
<1> QED
  BY <1>1, <1>2

\* release: what it judged is what it moves, and only one of two releases gets there.
LEMMA ReleaseKeepsGood ==
    ASSUME Calm, NEW t \in Token, NEW h \in Thread, Releases(t, h)
    PROVE  Good'
<1> DEFINE b == at[t]
<1>1. /\ Shaped(b) /\ Placed(t, b, lock) /\ Covered(t, b, lock, guards) /\ Judged(b, at[b.victim])
      /\ InTime(t, b, calls[t], lock) /\ Sheltered(t) /\ b.pc \in PC /\ t # NoToken
  BY AboutOne, FileAssumption DEF Calm
<1>2. calls[t][h].pc \in {"relOwner", "relStat", "move", "identify", "restore"}
  BY DEF Releases, ReleaseOwner, ReleaseStat, ReleaseMove, ReleaseIdentify, ReleaseRestore, On
<1>3. b.pc = "ended"
  BY <1>1, <1>2 DEF InTime, Thread, Extending
<1>4. calls[t][h].pc # "restore" /\ (calls[t][h].pc = "identify" => calls[t][h].moved.owner = t)
  BY <1>1 DEF InTime
<1>5. PICK c \in Call :
        /\ OneCall(t, h, c) /\ at' = at /\ guards' = guards
        /\ \/ UNCHANGED lock /\ c.pc = "none"
           \/ UNCHANGED lock /\ c.pc \in {"relStat", "move"} /\ lock.owner = t
           \/ /\ calls[t][h].pc = "move" /\ lock' = Absent /\ lock.owner # NoToken
              /\ c.pc = "identify" /\ c.moved = lock
  <2>1. PICK c \in Call :
          /\ OneCall(t, h, c) /\ at' = at /\ guards' = guards
          /\ \/ UNCHANGED lock /\ c.pc = "none"
             \/ ReleaseOwner(t, h) /\ UNCHANGED lock /\ c.pc = "relStat" /\ lock.owner = t
             \/ ReleaseStat(t, h) /\ UNCHANGED lock /\ c.pc = "move" /\ lock.owner # NoToken
             \/ ReleaseMove(t, h) /\ lock' = Absent /\ lock.owner # NoToken /\ c.pc = "identify" /\ c.moved = lock
    BY <1>4, ReleaseEffects DEF Calm, ReleaseIdentify, ReleaseRestore, On
  <2>2. ReleaseStat(t, h) => lock.owner = t
    BY <1>1 DEF ReleaseStat, On, InTime, Looked
  <2>3. ReleaseMove(t, h) => calls[t][h].pc = "move"
    BY DEF ReleaseMove, On
  <2> QED
    BY <2>1, <2>2, <2>3
<1>6. \A k \in Thread : k # h => calls'[t][k] = calls[t][k]
  BY <1>5 DEF OneCall
<1>7. CASE UNCHANGED lock
  <2>1. c.pc \in {"none", "relStat", "move"} /\ (c.pc # "none" => lock.owner = t)
    BY <1>5, <1>7, FileAssumption DEF Absent
  <2>2. calls'[t][h] = c
    BY <1>5 DEF OneCall
  <2>3. InTime(t, b, calls'[t], lock)
    BY <1>1, <1>3, <1>6, <2>1, <2>2 DEF InTime, Looked
  <2> QED
    BY <1>5, <1>7, <2>3, CallKeepsGood
<1>8. CASE ~UNCHANGED lock
  <2>1. calls[t][h].pc = "move" /\ lock' = Absent /\ c.pc = "identify" /\ c.moved = lock
    BY <1>5, <1>8
  <2>2. lock'.owner = NoToken
    BY <2>1 DEF Absent
  <2>3. lock.owner = t /\ ~Dead(lock.age)
    BY <1>1, <2>1 DEF InTime, Sheltered, DeadRelease, Looked
  <2>4. \A k \in Thread : k # h => ~Looked(calls[t][k])
    BY <1>1, <2>1 DEF Sheltered, TwoReleases, Looked, Thread
  <2>5. calls'[t][h] = c
    BY <1>5 DEF OneCall
  <2>6. InTime(t, b, calls'[t], lock')
    <3>1. ASSUME NEW k \in Thread
          PROVE  /\ Looked(calls'[t][k]) => lock'.owner = t
                 /\ calls'[t][k].pc # "restore"
                 /\ calls'[t][k].pc = "identify" => calls'[t][k].moved.owner = t
      <4>1. CASE k = h
        BY <2>1, <2>3, <2>5, <4>1 DEF Looked
      <4>2. CASE k # h
        BY <1>1, <1>6, <2>4, <4>2 DEF InTime
      <4> QED
        BY <4>1, <4>2
    <3> QED
      BY <1>3, <3>1 DEF InTime
  <2>7. ASSUME NEW u \in Token, u # t
        PROVE  Placed(u, at[u], lock') /\ Covered(u, at[u], lock', guards') /\ InTime(u, at[u], calls[u], lock')
    <3>1. /\ Shaped(at[u]) /\ Placed(u, at[u], lock) /\ InTime(u, at[u], calls[u], lock) /\ u # NoToken
      BY AboutOne, FileAssumption DEF Calm
    <3>2. at[u].pc # "move"
      BY <2>3, <3>1 DEF Placed
    <3>3. Placed(u, at[u], lock')
      BY <2>2, <2>3, <2>7, <3>1, <3>2 DEF Placed, Shaped
    <3>4. InTime(u, at[u], calls[u], lock')
      BY <2>3, <2>7, <3>1 DEF InTime
    <3> QED
      BY <2>2, <3>3, <3>4 DEF Covered
  <2>8. Placed(t, b, lock') /\ Covered(t, b, lock', guards')
    BY <1>1, <1>3, <2>2 DEF Placed, Covered, Fresh, Shaped
  <2>9. at'[t] = b /\ at' \in [Token -> Attempt] /\ \A u \in Token : u # t => at'[u] = at[u] /\ calls'[u] = calls[u]
    BY <1>5 DEF Calm, TypeOK, OneCall
  <2>10. Single(guards')
    BY <1>5 DEF Calm, Good
  <2> HIDE DEF b
  <2> QED
    BY <1>1, <2>6, <2>7, <2>8, <2>9, <2>10, StepKeepsGood DEF Calm, b
<1> QED
  BY <1>7, <1>8

\* Time passes for everybody.
LEMMA TickKeepsGood ==
    ASSUME Calm, Tick
    PROVE  Good'
<1> DEFINE Old(g) == [g EXCEPT !.age = Older(@)]
<1>1. guards' = {Old(g) : g \in guards} /\ lock \in Lock /\ guards \subseteq Guard /\ Stale \in Nat
  BY FileAssumption DEF Tick, Calm, TypeOK
<1>2. /\ lock'.owner = lock.owner
      /\ lock.owner # NoToken => lock'.age = Older(lock.age)
      /\ lock.age \in Age
  BY <1>1 DEF Tick, Aged, Lock
<1>3. ASSUME NEW g \in guards
      PROVE  /\ Old(g) \in guards' /\ Old(g).victim = g.victim /\ Old(g).step = g.step /\ Old(g).owner = g.owner
             /\ Dead(g.age) => Dead(Old(g).age)
  <2>1. g \in Guard /\ g.age \in Age
    BY <1>1 DEF Guard
  <2>2. Old(g).victim = g.victim /\ Old(g).step = g.step /\ Old(g).owner = g.owner /\ Old(g).age = Older(g.age)
    BY <2>1 DEF Guard
  <2> QED
    BY <1>1, <2>1, <2>2, OlderFacts DEF Dead
<1>4. Single(guards')
  <2>1. ASSUME NEW g \in guards, NEW h \in guards, Old(g).victim = Old(h).victim, Old(g).step = Old(h).step
        PROVE  Old(g) = Old(h)
    <3>1. g = h
      BY <1>3, <2>1 DEF Calm, Good, Single
    <3> QED
      BY <3>1
  <2> HIDE DEF Old
  <2> QED
    BY <1>1, <2>1 DEF Single
<1> HIDE DEF Old
<1>5. ASSUME NEW t \in Token
      PROVE  /\ at'[t].pc = at[t].pc /\ at'[t].try = at[t].try /\ at'[t].victim = at[t].victim
             /\ at'[t].step = at[t].step /\ at'[t].passed = at[t].passed
             /\ at'[t].moved.owner = at[t].moved.owner
             /\ at'[t].built = IF at[t].pc = "place" THEN Older(at[t].built) ELSE at[t].built
             /\ at'[t].sent = IF at[t].pc \in Idle THEN at[t].sent ELSE Later(at[t].sent)
             /\ at'[t].trust = IF at[t].pc = "held" THEN Later(at[t].trust) ELSE at[t].trust
  <2>1. at[t].moved \in Lock
    BY FieldTypes DEF Calm, TypeOK
  <2>2. Aged(at[t].moved).owner = at[t].moved.owner
    BY <2>1 DEF Aged, Lock
  <2>3. Has(at'[t], at[t].pc, at[t].try, IF at[t].pc = "place" THEN Older(at[t].built) ELSE at[t].built,
            at[t].victim, at[t].step, at[t].passed, Aged(at[t].moved),
            IF at[t].pc \in Idle THEN at[t].sent ELSE Later(at[t].sent),
            IF at[t].pc = "held" THEN Later(at[t].trust) ELSE at[t].trust)
    BY TickEffects, AgedHas DEF Calm, TypeOK
  <2> QED
    BY <2>2, <2>3 DEF Has
<1>6. ASSUME NEW t \in Token, NEW h \in Thread
      PROVE  LET c == calls[t][h] IN
             /\ calls'[t][h].pc = c.pc /\ calls'[t][h].moved.owner = c.moved.owner
             /\ calls'[t][h].built = IF c.pc = "utimes" THEN Older(c.built) ELSE c.built
             /\ calls'[t][h].sent = IF c.pc \in Extending THEN Later(c.sent) ELSE c.sent
  <2>1. calls[t][h] \in Call /\ calls[t][h].moved \in Lock
    BY DEF Calm, TypeOK, Call
  <2>2. Aged(calls[t][h].moved).owner = calls[t][h].moved.owner
    BY <2>1 DEF Aged, Lock
  <2> QED
    BY <2>1, <2>2, TickEffects, AgedCallHas DEF Calm
<1>7. \A t \in Token : Fresh(at'[t]) => Fresh(at[t])
  BY <1>5 DEF Fresh
<1>8. ASSUME NEW t \in Token
      PROVE  /\ Shaped(at'[t]) /\ Placed(t, at'[t], lock') /\ Covered(t, at'[t], lock', guards')
             /\ Judged(at'[t], at'[at'[t].victim])
  <2> DEFINE a == at'[t]
             b == at[t]
  <2>1. /\ Shaped(b) /\ Placed(t, b, lock) /\ Covered(t, b, lock, guards) /\ Judged(b, at[b.victim])
        /\ b.pc \in PC /\ b.try \in Try /\ b.built \in Age /\ b.sent \in Age /\ b.trust \in Age /\ t # NoToken
        /\ b.victim \in Token \cup {NoToken}
    BY AboutOne, FieldTypes, FileAssumption DEF Calm
  <2>2. /\ a.pc = b.pc /\ a.try = b.try /\ a.victim = b.victim /\ a.step = b.step /\ a.passed = b.passed
        /\ a.moved.owner = b.moved.owner
        /\ a.built = IF b.pc = "place" THEN Older(b.built) ELSE b.built
        /\ a.sent = IF b.pc \in Idle THEN b.sent ELSE Later(b.sent)
        /\ a.trust = IF b.pc = "held" THEN Later(b.trust) ELSE b.trust
    BY <1>5
  <2>3. Fresh(a) => Fresh(b)
    BY <1>7
  <2>4. b.victim \in Token => (Fresh(at'[b.victim]) => Fresh(at[b.victim]))
    BY <1>7
  <2> HIDE DEF a, b
  <2>5. Shaped(a)
    <3>1. a.built <= a.sent \/ a.sent >= Stale
      <4>1. b.built <= b.sent \/ b.sent >= Stale
        BY <2>1 DEF Shaped
      <4>2. CASE b.pc \in Idle
        BY <2>2, <4>1, <4>2 DEF Idle
      <4>3. CASE b.pc \notin Idle
        BY <2>1, <2>2, <4>1, <4>3, OlderFacts
      <4> QED
        BY <4>2, <4>3
    <3> QED
      BY <2>1, <2>2, <3>1 DEF Shaped
  <2>6. Placed(t, a, lock')
    <3>1. ASSUME a.pc = "held", a.trust < Stale PROVE lock'.owner = t /\ lock'.age <= a.trust
      <4>1. b.pc = "held" /\ a.trust = Later(b.trust)
        BY <2>2, <3>1
      <4>2. b.trust < Stale
        BY <2>1, <3>1, <4>1, OlderFacts
      <4>3. lock.owner = t /\ lock.age <= b.trust
        BY <2>1, <4>1, <4>2 DEF Placed
      <4> QED
        BY <1>2, <2>1, <3>1, <4>1, <4>3, OlderFacts
    <3>2. ASSUME a.try = "won", a.sent < Stale PROVE lock'.owner = t /\ lock'.age <= a.sent
      <4>1. b.pc \notin Idle /\ b.try = "won"
        BY <2>1, <2>2, <3>2 DEF Shaped, Idle
      <4>2. a.sent = Later(b.sent)
        BY <2>2, <4>1
      <4>3. b.sent < Stale
        BY <2>1, <3>2, <4>2, OlderFacts
      <4>4. lock.owner = t /\ lock.age <= b.sent
        BY <2>1, <4>1, <4>3 DEF Placed
      <4> QED
        BY <1>2, <2>1, <3>2, <4>2, <4>4, OlderFacts
    <3>3. a.pc \in {"check", "move"} /\ lock'.owner = a.victim => Dead(lock'.age)
      <4>1. SUFFICES ASSUME a.pc \in {"check", "move"}, lock'.owner = a.victim PROVE Dead(lock'.age)
        OBVIOUS
      <4>2. Dead(lock.age) /\ lock.owner # NoToken
        BY <1>2, <2>1, <2>2, <4>1 DEF Placed, Shaped
      <4> QED
        BY <1>1, <1>2, <4>2, OlderFacts DEF Dead
    <3> QED
      BY <1>2, <2>1, <2>2, <2>3, <3>1, <3>2, <3>3 DEF Placed
  <2>7. Covered(t, a, lock', guards')
    <3> SUFFICES ASSUME lock.owner = b.victim, b.victim # NoToken
                 PROVE  Covered(t, a, lock', guards')
      BY <1>2, <2>2 DEF Covered
    <3>1. InGuard(a) => \E g \in guards' : g.victim = b.victim /\ g.step = b.step /\ g.owner = t
      <4>1. InGuard(a) => InGuard(b)
        BY <2>2 DEF InGuard
      <4>2. InGuard(b) => \E g \in guards : g.victim = b.victim /\ g.step = b.step /\ g.owner = t
        BY <2>1 DEF Covered
      <4> QED
        BY <1>3, <4>1, <4>2
    <3>2. ASSUME NEW s \in b.passed PROVE \E g \in guards' : g.victim = b.victim /\ g.step = s /\ Dead(g.age)
      <4>1. PICK g \in guards : g.victim = b.victim /\ g.step = s /\ Dead(g.age)
        BY <2>1, <3>2 DEF Covered
      <4> QED
        BY <1>3, <4>1
    <3> QED
      BY <2>2, <3>1, <3>2 DEF Covered
  <2>8. Judged(a, at'[a.victim])
    BY <2>1, <2>2, <2>4 DEF Judged
  <2> QED
    BY <2>5, <2>6, <2>7, <2>8 DEF a
<1>9. ASSUME NEW t \in Token PROVE InTime(t, at'[t], calls'[t], lock')
  <2> DEFINE c == calls[t]["renewal"]
             d == calls'[t]["renewal"]
  <2>1. /\ InTime(t, at[t], calls[t], lock) /\ at'[t].pc = at[t].pc /\ "renewal" \in Thread /\ "guard" \in Thread
        /\ c.built \in Age /\ c.sent \in Age
    BY <1>5, AboutOne DEF Calm, Thread, Call
  <2>2. /\ d.pc = c.pc /\ d.built = IF c.pc = "utimes" THEN Older(c.built) ELSE c.built
        /\ d.sent = IF c.pc \in Extending THEN Later(c.sent) ELSE c.sent
        /\ calls'[t]["guard"].pc = calls[t]["guard"].pc
    BY <1>6, <2>1
  <2> HIDE DEF c, d
  <2>3. c.pc \in Extending /\ (c.built <= c.sent \/ c.sent >= Stale) => d.built <= d.sent \/ d.sent >= Stale
    BY <2>1, <2>2, OlderFacts
  <2>4. ASSUME NEW h \in Thread
        PROVE  /\ Looked(calls'[t][h]) => lock'.owner = t
               /\ calls'[t][h].pc # "restore"
               /\ calls'[t][h].pc = "identify" => calls'[t][h].moved.owner = t
    BY <1>2, <1>6, <2>1 DEF InTime, Looked
  <2>5. at'[t].pc \notin {"held", "ended"} => \A h \in Thread : calls'[t][h].pc = "none"
    BY <1>6, <2>1 DEF InTime
  <2>6. at'[t].pc = "held" =>
          /\ calls'[t]["guard"].pc = "none" /\ d.pc \in {"none"} \cup Extending
          /\ d.pc \in {"extClock", "utimes"} => lock'.owner = t
          /\ d.pc \in Extending => d.built <= d.sent \/ d.sent >= Stale
    BY <1>2, <2>1, <2>2, <2>3 DEF InTime, c
  <2> QED
    BY <2>4, <2>5, <2>6 DEF InTime, d
<1> QED
  BY <1>4, <1>8, <1>9 DEF Good, Calm
-----------------------------------------------------------------------------
(* The theorems *)

LEMMA InitGood == Init => IndInv
<1> SUFFICES ASSUME Init PROVE IndInv
  OBVIOUS
<1>1. "new" \in PC /\ Has(Blank("new"), "new", "first", 0, NoToken, 0, {}, Absent, 0, 0) /\ Stale \in Nat
  BY BlankHas, FileAssumption DEF PC
<1>2. Calling("none") \in Call /\ Calling("none").pc = "none" /\ Absent \in Lock
  BY CallingHas DEF CallPC
<1>3. \A t \in Token : at[t] = Blank("new") /\ \A h \in Thread : calls[t][h] = Calling("none")
  BY DEF Init
<1> HIDE DEF Blank, Calling
<1>4. TypeOK
  <2>1. Blank("new") \in Attempt
    BY <1>1 DEF Has
  <2> QED
    BY <1>2, <2>1 DEF Init, TypeOK
<1>5. ASSUME NEW t \in Token
      PROVE  /\ Shaped(at[t]) /\ Placed(t, at[t], lock) /\ Covered(t, at[t], lock, guards)
             /\ Judged(at[t], at[at[t].victim]) /\ InTime(t, at[t], calls[t], lock) /\ Sheltered(t)
  <2> DEFINE a == at[t]
  <2>1. Has(a, "new", "first", 0, NoToken, 0, {}, Absent, 0, 0) /\ lock.owner = NoToken /\ t # NoToken
    BY <1>1, <1>3, FileAssumption DEF Init, Absent
  <2>2. \A h \in Thread : calls[t][h].pc = "none"
    BY <1>2, <1>3
  <2> HIDE DEF a
  <2>3. Shaped(a) /\ Placed(t, a, lock) /\ Covered(t, a, lock, guards) /\ Judged(a, at[a.victim])
    BY <2>1, BlankIsGood
  <2>4. InTime(t, a, calls[t], lock)
    BY <2>1, <2>2 DEF InTime, Has, Looked
  <2>5. Sheltered(t)
    BY <2>1, <2>2 DEF Sheltered, DeadGuard, NoVictim, DeadRelease, DeadRenewal, OldClock, TwoReleases,
                      Guarded, At, On, Looked, Has, Thread, a
  <2> QED
    BY <2>3, <2>4, <2>5 DEF a
<1>6. Single(guards)
  BY DEF Init, Single
<1> QED
  BY <1>4, <1>5, <1>6 DEF IndInv, Good

LEMMA NextGood ==
    ASSUME Counted = Circumstance
    PROVE  IndInv /\ [Next]_vars => IndInv'
<1> SUFFICES ASSUME IndInv, [Next]_vars PROVE IndInv'
  OBVIOUS
<1>1. TypeOK'
  BY NextTyped DEF IndInv
<1>2. CASE UNCHANGED vars
  <2>1. Good => Good'
    BY <1>2 DEF vars, Good, Sheltered, DeadGuard, NoVictim, DeadRelease, DeadRenewal, OldClock, TwoReleases,
                Guarded, GuardAt, At, On
  <2> QED
    BY <1>1, <1>2, <2>1 DEF IndInv, vars
<1>3. CASE Next
  <2> SUFFICES ASSUME ~exposed' PROVE Good'
    BY <1>1 DEF IndInv
  <2>1. Calm /\ ~exposed
    <3>1. ~exposed /\ ~\E t \in Token : Exposed(t)'
      BY <1>3 DEF Next, Remember, IndInv, TypeOK
    <3>2. ASSUME NEW t \in Token PROVE Sheltered(t)'
      BY <3>1 DEF Exposed, Sheltered, Circumstance
    <3> QED
      BY <3>1, <3>2 DEF Calm, IndInv
  <2>2. ASSUME NEW t \in Token, Acquires(t) PROVE Good'
    <3>1. ~Restore(t)
      BY <2>1 DEF Restore, At, Calm, Good, Shaped
    <3>2. CASE PlaceLock(t)
      BY <2>1, <3>2, PlacedKeepsGood, RefusedKeepsGood
    <3>3. CASE Ask(t) \/ Stat(t) \/ ReadVictim(t) \/ PlaceGuard(t) \/ StatGuard(t)
      BY <2>1, <3>3, LookKeepsGood, PlaceGuardKeepsGood, StatGuardKeepsGood
    <3>4. CASE Judge(t) \/ Check(t) \/ Move(t) \/ Identify(t) \/ Sweep(t) \/ Unguard(t)
      BY <2>1, <3>4, JudgeKeepsGood, MoveKeepsGood, IdentifyKeepsGood, SweepKeepsGood, UnguardKeepsGood
    <3> QED
      BY <2>2, <3>1, <3>2, <3>3, <3>4 DEF Acquires
  <2>3. ASSUME NEW t \in Token, Extends(t) PROVE Good'
    <3>1. Lose(t) \/ calls[t]["renewal"].pc # "none"
      BY <2>3 DEF Extends, ExtendStat, ExtendOwner, ExtendClock, Utimes, On
    <3> QED
      BY <2>1, <2>3, <3>1, ExtendEffects, ExtendKeepsGood, UtimesKeepsGood DEF Calm
  <2>4. ASSUME NEW t \in Token, Extend(t) \/ Release(t) \/ Crash(t) PROVE Good'
    BY <2>1, <2>4, ExtendKeepsGood, EndKeepsGood
  <2>5. ASSUME NEW t \in Token, NEW h \in Thread, Releases(t, h) PROVE Good'
    BY <2>1, <2>5, ReleaseKeepsGood
  <2> QED
    BY <1>3, <2>1, <2>2, <2>3, <2>4, <2>5, TickKeepsGood DEF Next, Proceed
<1> QED
  BY <1>2, <1>3

\* Whatever the timing, the directories and the local variables of the calls keep their types.
THEOREM Typing == Spec => []TypeOK
<1>1. Init => TypeOK
  BY InitGood DEF IndInv
<1> QED
  BY <1>1, NextTyped, PTL DEF Spec

\* The invariant of the guards and the calls holds until one of the six circumstances comes about:
\* a taker at work whose guard died, a taker without a victim at its check, a release or a renewal
\* that looked at a lock that has died since, a renewal about to write an old clock reading to
\* another's lock, two releases of one attempt that both read its token.
THEOREM Invariance ==
    ASSUME Counted = Circumstance
    PROVE  Spec => []IndInv
BY InitGood, NextGood, PTL DEF Spec

\* Mutual exclusion of the file store: until one of the six circumstances comes about, the
\* directory at the path belongs to every attempt that trusts its lease, although guards release
\* while they renew, late renewals and stale grants are given back, and processes die (acquire,
\* extend, release and remove of file/index.ts, makeHeld of locks.ts).
THEOREM OwnerStays ==
    ASSUME Counted = Circumstance
    PROVE  Spec => []OwnerInPlace
<1>1. IndInv => OwnerInPlace
  BY DEF IndInv, Good, Placed, OwnerInPlace, Trusting, At
<1> QED
  BY <1>1, Invariance, PTL

\* `remove`, a taker's or either release's, moves the lock it judged and no other until one of the
\* six circumstances comes about, so it never has one to restore.
THEOREM JudgedIsMoved ==
    ASSUME Counted = Circumstance
    PROVE  Spec => []MovesOnlyTheJudged
<1>1. IndInv => MovesOnlyTheJudged
  BY DEF IndInv, Good, Shaped, InTime, MovesOnlyTheJudged, At, On
<1> QED
  BY <1>1, Invariance, PTL
=============================================================================
