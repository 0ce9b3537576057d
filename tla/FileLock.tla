------------------------------- MODULE FileLock -------------------------------
(***************************************************************************)
(* One key of the file store (packages/lock/src/file/index.ts).  The lock  *)
(* is a directory that holds its owner's token; its mtime is the           *)
(* heartbeat, and it is dead once older than `stale`.  A taker of a dead   *)
(* lock first places a guard named after the victim, judges the lock       *)
(* again, moves it aside and only then deletes it.                         *)
(*                                                                         *)
(* The manager's guard of a lease (makeHeld of locks.ts) calls extend and  *)
(* release side by side: it does not wait for a renewal when the callback  *)
(* settles, and a renewal that succeeds after the guard ended releases the *)
(* lease itself, perhaps a second time.  So an attempt that got the lock   *)
(* makes its calls in two threads.  There is one renewal at a time: where  *)
(* storeTimeout is no less than `stale`, as by default, a guard is lost    *)
(* before its renewal times out, and no other is sent.                     *)
(*                                                                         *)
(* One step is one file-system call: other processes may run, and time may *)
(* pass, between any two.  Ages stand for clock minus mtime, or time since *)
(* a request; they stop counting where a lock is dead or a lease over.  A  *)
(* directory under a private name (.tmp-, .dead-) is touched by its maker  *)
(* only, so deleting it takes no step.                                     *)
(*                                                                         *)
(* A Token is one attempt and acquires at most once.  A refused attempt    *)
(* leaves nothing with its name behind, so the same Token also stands for  *)
(* the fresh ones of the later tries.                                      *)
(***************************************************************************)
EXTENDS Naturals, FiniteSets

CONSTANTS Token,       \* the attempts
          NoToken,     \* the owner that is read where no lock directory is
          Stale,       \* the `stale` option, in ticks
          Counted,     \* the circumstances that count as exposed, all but for a demonstration
          Renewers,    \* the attempts whose holder works long enough to renew
          MaxCrashes   \* bound on the processes that die

\* The circumstances that the store's rules do not cover; each is defined below.
Circumstance == {"dead guard", "no victim", "dead release", "dead renewal", "old clock", "two releases"}

ASSUME FileAssumption == /\ NoToken \notin Token
                         /\ Stale \in Nat \ {0}
                         /\ Counted \subseteq Circumstance
                         /\ Renewers \subseteq Token /\ MaxCrashes \in Nat

VARIABLES lock,    \* the lock directory: [owner, age]
          guards,  \* the .reap directories: [victim, step, owner, age]
          at,      \* each attempt: the next call of its acquire with its local variables, then its guard
          calls,   \* the calls of its guard and of its renewal: extend and release
          exposed  \* history: some attempt was Exposed

vars == <<lock, guards, at, calls, exposed>>

Age == 0..(Stale + 1)
Older(a) == IF a > Stale THEN a ELSE a + 1
Dead(a) == a > Stale
Later(a) == IF a >= Stale THEN a ELSE a + 1     \* of a request: its lease is over at Stale

Absent == [owner |-> NoToken, age |-> 0]
Lock == [owner : Token \cup {NoToken}, age : Age]
Guard == [victim : Token \cup {NoToken}, step : Nat, owner : Token, age : Age]
GuardAt(v, s) == {g \in guards : g.victim = v /\ g.step = s}

\* acquire: place stat owner statGuard judge check move identify restore sweep unguard; then its guard.
PC == {"new", "place", "stat", "owner", "statGuard", "judge", "check", "move", "identify",
       "restore", "sweep", "unguard", "held", "ended", "crashed"}

Attempt == [pc     : PC,
            try    : {"first", "second", "guard", "guarded", "won"}, \* what `place` is for
            built  : Age,                       \* time since it began to build
            victim : Token \cup {NoToken},      \* the token it judged dead
            step   : Nat, passed : SUBSET Nat,  \* the guard it is on, the guards it stepped past
            moved  : Lock,                      \* the lock it moved aside
            sent   : Age,                       \* age of its request
            trust  : Age]                       \* age of the request its guard counts the lease from

\* An attempt outside acquire: no local variable lives.
Blank(l) == [pc |-> l, try |-> "first", built |-> 0, victim |-> NoToken, step |-> 0, passed |-> {},
             moved |-> Absent, sent |-> 0, trust |-> 0]
Holder(age) == [Blank("held") EXCEPT !.trust = age]

\* A guard releases; a renewal extends, and releases when the guard has ended meanwhile.
Thread == {"guard", "renewal"}
Extending == {"extStat", "extOwner", "extClock", "utimes"}
Call == [pc    : {"none", "relOwner", "relStat", "move", "identify", "restore"} \cup Extending,
         built : Age,     \* time since it read the clock
         sent  : Age,     \* age of its request
         moved : Lock]    \* the lock it moved aside
Calling(l) == [pc |-> l, built |-> 0, sent |-> 0, moved |-> Absent]

\* Typing of the directories and of the local variables.
TypeOK == /\ lock \in Lock /\ guards \subseteq Guard
          /\ at \in [Token -> Attempt] /\ calls \in [Token -> [Thread -> Call]]
          /\ exposed \in BOOLEAN

Init == /\ lock = Absent /\ guards = {}
        /\ at = [t \in Token |-> Blank("new")]
        /\ calls = [t \in Token |-> [h \in Thread |-> Calling("none")]]
        /\ exposed = FALSE

At(t, l) == at[t].pc = l
Goto(t, l) == at' = [at EXCEPT ![t].pc = l]
PlaceFor(t, what) == at' = [at EXCEPT ![t].pc = "place", ![t].try = what]
Becomes(t, a) == at' = [at EXCEPT ![t] = a]
On(t, h, l) == calls[t][h].pc = l
Calls(t, h, c) == calls' = [calls EXCEPT ![t][h] = c]
-----------------------------------------------------------------------------
(* acquire *)

\* store.acquire is called; its first `create` follows.
Ask(t) == At(t, "new") /\ PlaceFor(t, "first") /\ UNCHANGED <<lock, guards, calls>>

\* The manager takes a grant up, unless it arrives after its ttl: then it is given back.  (One whose
\* caller gave up is given back too; that is a Release at once.)
Granted(t) ==
    IF at[t].sent < Stale
    THEN Becomes(t, Holder(at[t].sent)) /\ UNCHANGED calls
    ELSE Becomes(t, Blank("ended")) /\ Calls(t, "guard", Calling("relOwner"))

\* place, on the lock's path: the rename succeeds only when nothing is there.  The mtime was
\* written at some moment since the directory was begun.
PlaceLock(t) ==
    /\ At(t, "place") /\ at[t].try # "guard"
    /\ \/ /\ lock.owner = NoToken
          /\ \E age \in 0..at[t].built : lock' = [owner |-> t, age |-> age]
          /\ IF at[t].try = "guarded"
             THEN Becomes(t, [at[t] EXCEPT !.pc = "unguard", !.try = "won", !.built = 0]) /\ UNCHANGED calls
             ELSE Granted(t)
       \/ /\ lock.owner # NoToken
          /\ Becomes(t, CASE at[t].try = "first"   -> [at[t] EXCEPT !.pc = "stat", !.built = 0]
                          [] at[t].try = "guarded" -> [at[t] EXCEPT !.pc = "unguard", !.built = 0]
                          [] OTHER                 -> Blank("new"))
          /\ UNCHANGED <<lock, calls>>
    /\ UNCHANGED guards

\* acquire after a refused create: gone by now, alive, or dead.
Stat(t) == /\ At(t, "stat")
           /\ \/ lock.owner = NoToken /\ PlaceFor(t, "second")
              \/ lock.owner # NoToken /\ ~Dead(lock.age) /\ Becomes(t, Blank("new"))
              \/ lock.owner # NoToken /\ Dead(lock.age) /\ Goto(t, "owner")
           /\ UNCHANGED <<lock, guards, calls>>

\* reap: the victim is whoever owns the lock now.
ReadVictim(t) == /\ At(t, "owner")
                 /\ at' = [at EXCEPT ![t].pc = "place", ![t].try = "guard", ![t].victim = lock.owner]
                 /\ UNCHANGED <<lock, guards, calls>>

Mine(t, age) == [victim |-> at[t].victim, step |-> at[t].step, owner |-> t, age |-> age]

\* Mutant: a guard is no obstacle.
PlaceGuardAnyway(t) ==
    /\ At(t, "place") /\ at[t].try = "guard"
    /\ \E age \in 0..at[t].built : guards' = guards \cup {Mine(t, age)}
    /\ at' = [at EXCEPT ![t].pc = "judge", ![t].built = 0]
    /\ UNCHANGED <<lock, calls>>

\* reap: one taker at a time gets the guard.
PlaceGuard(t) ==
    /\ At(t, "place") /\ at[t].try = "guard"
    /\ LET free == GuardAt(at[t].victim, at[t].step) = {}
       IN  /\ \E age \in 0..at[t].built : guards' = IF free THEN guards \cup {Mine(t, age)} ELSE guards
           /\ at' = [at EXCEPT ![t].pc = IF free THEN "judge" ELSE "statGuard", ![t].built = 0]
    /\ UNCHANGED <<lock, calls>>

\* Mutant: a dead guard is waited for like a live one.
StatGuardNoStep(t) == At(t, "statGuard") /\ Becomes(t, Blank("new")) /\ UNCHANGED <<lock, guards, calls>>

\* reap: a guard in the way is alive (come back later) or its maker crashed (step to the next).
StatGuard(t) ==
    /\ At(t, "statGuard")
    /\ IF \E g \in GuardAt(at[t].victim, at[t].step) : Dead(g.age)
       THEN at' = [at EXCEPT ![t].pc = "place", ![t].step = @ + 1, ![t].passed = @ \cup {at[t].step}]
       ELSE Becomes(t, Blank("new"))
    /\ UNCHANGED <<lock, guards, calls>>

\* Mutant: what looked dead before the guard counts as dead inside it.
JudgeNot(t) == /\ At(t, "judge")
               /\ IF lock.owner = NoToken THEN PlaceFor(t, "guarded") ELSE Goto(t, "check")
               /\ UNCHANGED <<lock, guards, calls>>

\* takeOver: judged again inside the guard.
Judge(t) == /\ At(t, "judge")
            /\ \/ lock.owner = NoToken /\ PlaceFor(t, "guarded")
               \/ lock.owner # NoToken /\ ~Dead(lock.age) /\ Goto(t, "unguard")
               \/ lock.owner # NoToken /\ Dead(lock.age) /\ Goto(t, "check")
            /\ UNCHANGED <<lock, guards, calls>>

\* takeOver: still the victim's?
Check(t) == /\ At(t, "check")
            /\ Goto(t, IF lock.owner = at[t].victim THEN "move" ELSE "unguard")
            /\ UNCHANGED <<lock, guards, calls>>

\* What a `remove` that did not remove returns to.
NotRemoved(t) == [at[t] EXCEPT !.pc = "unguard", !.moved = Absent]

\* remove: the lock, whoever's it is by now, is moved aside.
Move(t) == /\ At(t, "move")
           /\ IF lock.owner = NoToken
              THEN Becomes(t, NotRemoved(t)) /\ UNCHANGED lock
              ELSE at' = [at EXCEPT ![t].pc = "identify", ![t].moved = lock] /\ lock' = Absent
           /\ UNCHANGED <<guards, calls>>

\* remove: the mover looks whose lock it moved, and deletes the victim's only.
Identify(t) == /\ At(t, "identify")
               /\ Becomes(t, IF at[t].moved.owner = at[t].victim
                             THEN [at[t] EXCEPT !.pc = "sweep", !.moved = Absent]
                             ELSE [at[t] EXCEPT !.pc = "restore"])
               /\ UNCHANGED <<lock, guards, calls>>

\* remove: somebody else's lock is put back, unless yet another is in its place.
Restore(t) == /\ At(t, "restore")
              /\ lock' = IF lock.owner = NoToken THEN at[t].moved ELSE lock
              /\ Becomes(t, NotRemoved(t))
              /\ UNCHANGED <<guards, calls>>

\* takeOver: the guards stepped past are removed by path, in any order; then the new lock is made.
Sweep(t) ==
    /\ At(t, "sweep")
    /\ \/ at[t].passed = {} /\ PlaceFor(t, "guarded") /\ UNCHANGED guards
       \/ \E s \in at[t].passed : /\ guards' = guards \ GuardAt(at[t].victim, s)
                                  /\ at' = [at EXCEPT ![t].passed = @ \ {s}]
    /\ UNCHANGED <<lock, calls>>

\* reap's `finally`: the guard goes, by path, and acquire returns.
Unguard(t) == /\ At(t, "unguard")
              /\ guards' = guards \ GuardAt(at[t].victim, at[t].step)
              /\ IF at[t].try = "won" THEN Granted(t) ELSE Becomes(t, Blank("new")) /\ UNCHANGED calls
              /\ UNCHANGED lock
-----------------------------------------------------------------------------
(* extend *)

\* The manager's beat, or a holder, renews the lease; one renewal at a time.
Extend(t) == /\ t \in Renewers /\ At(t, "held") /\ On(t, "renewal", "none")
             /\ Calls(t, "renewal", Calling("extStat"))
             /\ UNCHANGED <<lock, guards, at>>

RenewalGoes(t, l) == calls' = [calls EXCEPT ![t]["renewal"].pc = l] /\ UNCHANGED at

\* renewOnce: a success moves the deadline, a refusal loses the lease; where the guard ended
\* meanwhile, a success is handed back and a refusal changes nothing.
RenewalAnswers(t, ok) ==
    \/ /\ At(t, "held")
       /\ Becomes(t, IF ok THEN Holder(calls[t]["renewal"].sent) ELSE Blank("ended"))
       /\ Calls(t, "renewal", Calling("none"))
    \/ /\ ~At(t, "held")
       /\ Calls(t, "renewal", Calling(IF ok THEN "relOwner" ELSE "none"))
       /\ UNCHANGED at

\* extend: expired is expired.
ExtendStat(t) == /\ On(t, "renewal", "extStat")
                 /\ IF lock.owner = NoToken \/ Dead(lock.age) THEN RenewalAnswers(t, FALSE) ELSE RenewalGoes(t, "extOwner")
                 /\ UNCHANGED <<lock, guards>>

\* extend: only the owner renews.
ExtendOwner(t) == /\ On(t, "renewal", "extOwner")
                  /\ IF lock.owner = t THEN RenewalGoes(t, "extClock") ELSE RenewalAnswers(t, FALSE)
                  /\ UNCHANGED <<lock, guards>>

\* touch: the clock is read ...
ExtendClock(t) == /\ On(t, "renewal", "extClock") /\ RenewalGoes(t, "utimes")
                  /\ UNCHANGED <<lock, guards>>

\* ... and written, to whatever lies at the path now.
Utimes(t) == /\ On(t, "renewal", "utimes")
             /\ lock' = IF lock.owner = NoToken THEN lock ELSE [lock EXCEPT !.age = calls[t]["renewal"].built]
             /\ RenewalAnswers(t, lock.owner # NoToken)
             /\ UNCHANGED guards

\* The deadline timer of the manager's guard.
Lose(t) == /\ At(t, "held") /\ at[t].trust >= Stale
           /\ Becomes(t, Blank("ended")) /\ UNCHANGED <<lock, guards, calls>>
-----------------------------------------------------------------------------
(* release *)

\* doRelease: the guard ends and store.release is called, whatever its renewal is doing.
Release(t) == /\ At(t, "held")
              /\ Becomes(t, Blank("ended")) /\ Calls(t, "guard", Calling("relOwner"))
              /\ UNCHANGED <<lock, guards>>

\* release: whose is it?
ReleaseOwner(t, h) == /\ On(t, h, "relOwner")
                      /\ Calls(t, h, Calling(IF lock.owner = t THEN "relStat" ELSE "none"))
                      /\ UNCHANGED <<lock, guards, at>>

\* release: an expired lock belongs to its takers.
ReleaseStat(t, h) == /\ On(t, h, "relStat")
                     /\ Calls(t, h, Calling(IF lock.owner = NoToken \/ Dead(lock.age) THEN "none" ELSE "move"))
                     /\ UNCHANGED <<lock, guards, at>>

\* remove: as a taker's; of two releases of one token the second finds its .dead- name in use
\* while the first still looks at what it moved.
ReleaseMove(t, h) == /\ On(t, h, "move")
                     /\ IF lock.owner = NoToken \/ \E k \in Thread : On(t, k, "identify") \/ On(t, k, "restore")
                        THEN Calls(t, h, Calling("none")) /\ UNCHANGED lock
                        ELSE Calls(t, h, [Calling("identify") EXCEPT !.moved = lock]) /\ lock' = Absent
                     /\ UNCHANGED <<guards, at>>

ReleaseIdentify(t, h) == /\ On(t, h, "identify")
                         /\ IF calls[t][h].moved.owner = t
                            THEN Calls(t, h, Calling("none"))
                            ELSE calls' = [calls EXCEPT ![t][h].pc = "restore"]
                         /\ UNCHANGED <<lock, guards, at>>

ReleaseRestore(t, h) == /\ On(t, h, "restore")
                        /\ lock' = IF lock.owner = NoToken THEN calls[t][h].moved ELSE lock
                        /\ Calls(t, h, Calling("none"))
                        /\ UNCHANGED <<guards, at>>
-----------------------------------------------------------------------------
(* Time and death *)

Idle == {"new", "held", "ended", "crashed"}

\* The lock's mtime, the guards' and the local clock readings get older.
Aged(l) == IF l.owner = NoToken THEN l ELSE [l EXCEPT !.age = Older(@)]
AgedAttempt(a) == [a EXCEPT !.built = IF a.pc = "place" THEN Older(@) ELSE @,
                            !.sent  = IF a.pc \in Idle THEN @ ELSE Later(@),
                            !.trust = IF a.pc = "held" THEN Later(@) ELSE @,
                            !.moved = Aged(@)]
AgedCall(c) == [c EXCEPT !.built = IF c.pc = "utimes" THEN Older(@) ELSE @,
                         !.sent  = IF c.pc \in Extending THEN Later(@) ELSE @,
                         !.moved = Aged(@)]
Tick == /\ lock' = Aged(lock)
        /\ guards' = {[g EXCEPT !.age = Older(@)] : g \in guards}
        /\ at' = [t \in Token |-> AgedAttempt(at[t])]
        /\ calls' = [t \in Token |-> [h \in Thread |-> AgedCall(calls[t][h])]]

\* A process dies, and with it whatever it was calling.
Crash(t) == /\ ~At(t, "crashed") /\ (At(t, "ended") => \E h \in Thread : ~On(t, h, "none"))
            /\ Cardinality({u \in Token : At(u, "crashed")}) < MaxCrashes
            /\ Becomes(t, Blank("crashed"))
            /\ calls' = [calls EXCEPT ![t] = [h \in Thread |-> Calling("none")]]
            /\ UNCHANGED <<lock, guards>>

\* The calls that one await after another makes; a live process gets through them.
Acquires(t) == \/ Ask(t) \/ PlaceLock(t) \/ Stat(t) \/ ReadVictim(t) \/ PlaceGuard(t)
               \/ StatGuard(t) \/ Judge(t) \/ Check(t) \/ Move(t) \/ Identify(t) \/ Restore(t)
               \/ Sweep(t) \/ Unguard(t)
Extends(t) == ExtendStat(t) \/ ExtendOwner(t) \/ ExtendClock(t) \/ Utimes(t) \/ Lose(t)
Releases(t, h) == \/ ReleaseOwner(t, h) \/ ReleaseStat(t, h)
                  \/ ReleaseMove(t, h) \/ ReleaseIdentify(t, h) \/ ReleaseRestore(t, h)
Proceed(t) == Acquires(t) \/ Extends(t) \/ \E h \in Thread : Releases(t, h)
-----------------------------------------------------------------------------
(* What the store's rules do not cover *)

\* Between placing its guard and removing it.
Guarded(t) == \/ at[t].try \in {"guarded", "won"}
              \/ at[t].try = "guard" /\ at[t].pc \in {"judge", "check", "move", "identify", "restore", "sweep", "unguard"}

\* A taker still at work whose guard died.
DeadGuard(t) == Guarded(t) /\ \E g \in GuardAt(at[t].victim, at[t].step) : Dead(g.age)

\* A taker that read no owner and finds a lock that came and died since.
NoVictim(t) == At(t, "check") /\ at[t].victim = NoToken

\* A release that read its own token, and the lock is dead.
Looked(c) == c.pc \in {"relStat", "move"}
DeadRelease(t) == Dead(lock.age) /\ \E h \in Thread : Looked(calls[t][h])

\* A renewal that found the lock alive, and the lock is dead: its utimes would revive what takers judged.
DeadRenewal(t) == Dead(lock.age) /\ calls[t]["renewal"].pc \in {"extOwner", "extClock", "utimes"}

\* A renewal whose clock reading got old, and the lock is another's.
OldClock(t) == On(t, "renewal", "utimes") /\ lock.owner # t /\ calls[t]["renewal"].built > 0

\* Both releases of an attempt read its token before either moved the lock.  No time need pass for
\* this one: the callback settles while a renewal is under way, and the renewal succeeds.
TwoReleases(t) == \A h \in Thread : Looked(calls[t][h])

Exposed(t) == \/ "dead guard" \in Counted /\ DeadGuard(t)
              \/ "no victim" \in Counted /\ NoVictim(t)
              \/ "dead release" \in Counted /\ DeadRelease(t)
              \/ "dead renewal" \in Counted /\ DeadRenewal(t)
              \/ "old clock" \in Counted /\ OldClock(t)
              \/ "two releases" \in Counted /\ TwoReleases(t)
Remember == exposed' = (exposed \/ \E t \in Token : Exposed(t)')

\* A `remove` that began its move.
Removes(t) == \/ Move(t) \/ Identify(t) \/ Restore(t)
              \/ \E h \in Thread : ReleaseMove(t, h) \/ ReleaseIdentify(t, h) \/ ReleaseRestore(t, h)

\* Once an attempt was exposed the removes under way are followed to their end, and nothing else.
Next == /\ \/ ~exposed /\ (Tick \/ \E t \in Token : Proceed(t) \/ Extend(t) \/ Release(t) \/ Crash(t))
           \/ exposed /\ \E t \in Token : Removes(t)
        /\ Remember

Spec == /\ Init /\ [][Next]_vars
        /\ WF_vars(~exposed /\ Tick /\ Remember)
        /\ WF_vars(~exposed /\ \E t \in Token : Proceed(t) /\ Remember)
-----------------------------------------------------------------------------
Trusting(t) == At(t, "held") /\ at[t].trust < Stale
Waiting(t) == at[t].pc \notin {"held", "ended", "crashed"}

\* While nobody was Exposed, an attempt that trusts its lease finds its own directory at the path:
\* no taker, no release, late renewal or stale grant handed back takes it away.  Two such attempts
\* would both own the one directory, so this is mutual exclusion too.
OwnerInPlace == ~exposed => \A t \in Token : Trusting(t) => lock.owner = t

\* And a mover, taker or releaser, only ever catches the lock it judged, so `restoring` is never needed.
MovesOnlyTheJudged ==
    ~exposed => \A t \in Token : /\ At(t, "identify") => at[t].moved.owner = at[t].victim
                                 /\ \A h \in Thread : On(t, h, "identify") => calls[t][h].moved.owner = t

\* A dead lock, with whatever guards crashed takers left around it, never blocks the key for good:
\* while an attempt is waiting somebody gets the lock, even if only some live process runs on.
SomebodyWaits == \E t \in Token : Waiting(t)
KeyIsTakenAgain == SomebodyWaits ~> (~SomebodyWaits \/ exposed \/ \E u \in Token : At(u, "held"))
=============================================================================
