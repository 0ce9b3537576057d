---------------------------- MODULE MemoryShared ----------------------------
(***************************************************************************)
(* A read/write key of the in-process store (packages/lock/src/memory.ts)  *)
(* and the callers of it.  Readers overlap, a writer excludes everyone,    *)
(* and waiting writers go first: while one waits no reader is let in, and  *)
(* only when no writer waits does a release admit the queued readers, all  *)
(* of them at once.                                                        *)
(*                                                                         *)
(* `readers`, `writer`, `unclaimed` (reservedReaders) and `reserved`       *)
(* (reservedWriter) are the fields of Shared; a deleted entry has them     *)
(* empty.  Writers and readers wait in separate lines.                     *)
(***************************************************************************)
EXTENDS AcquireLoop, Integers, FiniteSets

CONSTANT Mode   \* "read" or "write": the side of the key each call uses

ASSUME ModeAssumption == Mode \in [Caller -> {"read", "write"}]

VARIABLES readers, writer, unclaimed, reserved, line, readerLine

entry == <<readers, writer, unclaimed, reserved>>
lines == <<line, readerLine>>
store == <<readers, writer, unclaimed, reserved, line, readerLine>>
vars == <<pc, session, aborted, watchers, readers, writer, unclaimed, reserved, line, readerLine>>

\* Typing of the tables of memory.ts: each waiter stands in the line of its mode, once.
TypeOK == /\ LoopTypeOK
          /\ readers \subseteq Caller
          /\ writer \in Caller \cup {Nobody}
          /\ reserved \in Caller \cup {Nobody}
          /\ unclaimed \in Nat
          /\ line \in Seq({c \in Caller : Mode[c] = "write"}) /\ IsInjective(line)
          /\ readerLine \in Seq({c \in Caller : Mode[c] = "read"}) /\ IsInjective(readerLine)

Init == /\ LoopInit
        /\ readers = {} /\ writer = Nobody
        /\ unclaimed = 0 /\ reserved = Nobody
        /\ line = <<>> /\ readerLine = <<>>
-----------------------------------------------------------------------------
(* The store *)

WriterIn == writer # Nobody \/ reserved # Nobody
ReadersIn == readers # {} \/ unclaimed > 0
IsFree == ~WriterIn /\ ~ReadersIn

\* Mutant: waiting writers do not keep new readers out.
BlockedByHoldersOnly(c) == WriterIn \/ (Mode[c] = "write" /\ ReadersIn)

\* Mutant: a reader that was woken but has not taken its hold yet does not block a writer.
BlockedByTakenHolds(c) == WriterIn \/ (IF Mode[c] = "read" THEN line # <<>> ELSE readers # {})

\* sharedBlocked: a new hold of c's mode is refused now.
SharedBlocked(c) == WriterIn \/ (IF Mode[c] = "read" THEN line # <<>> ELSE ReadersIn)

LastWriter(l) == Last(l)   \* Mutant: the newest writer goes first.
NextWriter(l) == Head(l)

\* dispatchShared on an entry that now reads rs, w, u, r, with lines l and rl.
DispatchShared(rs, w, u, r, l, rl, s, p) ==
    LET writerIn == w # Nobody \/ r # Nobody
        readersIn == rs # {} \/ u > 0
        toWriter == ~writerIn /\ l # <<>> /\ ~readersIn
        toReaders == ~writerIn /\ l = <<>> /\ rl # <<>>
        served == IF toWriter THEN {NextWriter(l)} ELSE IF toReaders THEN Range(rl) ELSE {}
    IN  /\ readers' = rs /\ writer' = w
        /\ reserved' = IF toWriter THEN NextWriter(l) ELSE r
        /\ unclaimed' = IF toReaders THEN u + Len(rl) ELSE u
        /\ line' = IF toWriter THEN Without(l, NextWriter(l)) ELSE l
        /\ readerLine' = IF toReaders THEN <<>> ELSE rl
        /\ session' = [c \in Caller |-> IF c \in served THEN "reserved" ELSE s[c]]
        /\ pc' = [c \in Caller |-> IF c \in served /\ p[c] = "paused" THEN "woken" ELSE p[c]]
        /\ watchers' = IF ~writerIn /\ ~readersIn /\ l = <<>> /\ rl = <<>> THEN {} ELSE watchers

\* Mutant: only a closing reservation is dispatched, not a writer that leaves the line.
CloseQuietly(c, p) ==
    LET s == [session EXCEPT ![c] = "none"] IN
    IF session[c] = "reserved"
    THEN DispatchShared(readers, writer, IF Mode[c] = "read" THEN unclaimed - 1 ELSE unclaimed,
                        IF reserved = c THEN Nobody ELSE reserved, line, readerLine, s, p)
    ELSE /\ session' = s /\ pc' = p
         /\ line' = Without(line, c) /\ readerLine' = Without(readerLine, c)
         /\ UNCHANGED <<entry, watchers>>

\* Mutant: a reader that leaves with a reservation is counted on.
CloseCounted(c, p) ==
    LET s == [session EXCEPT ![c] = "none"] IN
    IF session[c] \in {"queued", "reserved"}
    THEN DispatchShared(readers, writer, unclaimed, IF reserved = c THEN Nobody ELSE reserved,
                        Without(line, c), Without(readerLine, c), s, p)
    ELSE session' = s /\ pc' = p /\ UNCHANGED <<store, watchers>>

\* Session.close by c: a queued writer that leaves may let readers in, a reservation is given back.
Close(c, p) ==
    LET s == [session EXCEPT ![c] = "none"] IN
    IF session[c] \in {"queued", "reserved"}
    THEN DispatchShared(readers, writer,
                        IF session[c] = "reserved" /\ Mode[c] = "read" THEN unclaimed - 1 ELSE unclaimed,
                        IF reserved = c THEN Nobody ELSE reserved,
                        Without(line, c), Without(readerLine, c), s, p)
    ELSE session' = s /\ pc' = p /\ UNCHANGED <<store, watchers>>

\* join: a waiter stands in the line of its mode.
Join(c) == /\ session' = [session EXCEPT ![c] = "queued"]
           /\ IF Mode[c] = "read"
              THEN readerLine' = Append(readerLine, c) /\ UNCHANGED line
              ELSE line' = Append(line, c) /\ UNCHANGED readerLine

\* queueRefused: a refused waiter whose session is in no line joins it.
QueueRefused(c) == IF session[c] = "idle" THEN Join(c) ELSE UNCHANGED <<lines, session>>

\* shared.waiter after c's first refusal: join a line, or reserve a hold that is free for c's mode.
NewWaiter(c) ==
    \/ SharedBlocked(c) /\ Join(c) /\ UNCHANGED entry
    \/ /\ ~SharedBlocked(c)
       /\ session' = [session EXCEPT ![c] = "reserved"]
       /\ IF Mode[c] = "read"
          THEN unclaimed' = unclaimed + 1 /\ UNCHANGED reserved
          ELSE reserved' = c /\ UNCHANGED unclaimed
       /\ UNCHANGED <<readers, writer, lines>>
-----------------------------------------------------------------------------
(* The callers *)

Redeems(c) == session[c] = "reserved"

Grant(c) == /\ MayAttempt(c)
            /\ Redeems(c) \/ ~SharedBlocked(c)
            /\ session' = [session EXCEPT ![c] = IF Redeems(c) THEN "idle" ELSE @]
            /\ IF Mode[c] = "read"
               THEN /\ readers' = readers \cup {c}
                    /\ unclaimed' = IF Redeems(c) THEN unclaimed - 1 ELSE unclaimed
                    /\ UNCHANGED <<writer, reserved>>
               ELSE /\ writer' = c
                    /\ reserved' = IF Redeems(c) THEN Nobody ELSE reserved
                    /\ UNCHANGED <<readers, unclaimed>>
            /\ pc' = [pc EXCEPT ![c] = "granted"]
            /\ UNCHANGED <<aborted, watchers, lines>>

Refuse(c) == /\ MayAttempt(c)
             /\ ~Redeems(c) /\ SharedBlocked(c)
             /\ QueueRefused(c)
             /\ pc' = [pc EXCEPT ![c] = "refused"]
             /\ UNCHANGED <<aborted, watchers, entry>>

\* shared.release by c, whose loop goes on with program counters p.
ReleaseShared(c, p) ==
    DispatchShared(readers \ {c}, IF writer = c THEN Nobody ELSE writer, unclaimed, reserved,
                   line, readerLine, session, p)

Land(c) == /\ pc[c] = "granted" /\ ~aborted[c]
           /\ Close(c, [pc EXCEPT ![c] = "held"])
           /\ UNCHANGED aborted

GiveBack(c) == /\ pc[c] = "granted" /\ aborted[c]
               /\ ReleaseShared(c, [pc EXCEPT ![c] = "leaving"])
               /\ UNCHANGED aborted

Pause(c) == /\ pc[c] = "refused"
            /\ IF session[c] = "none" THEN NewWaiter(c) ELSE UNCHANGED <<store, session>>
            /\ pc' = [pc EXCEPT ![c] =
                        IF session'[c] = "queued" /\ ~aborted[c] THEN "paused" ELSE "woken"]
            /\ UNCHANGED <<aborted, watchers>>

Leave(c) == /\ MayLeave(c)
            /\ Close(c, [pc EXCEPT ![c] = "idle"])
            /\ aborted' = [aborted EXCEPT ![c] = FALSE]

Release(c) == /\ pc[c] = "held"
              /\ ReleaseShared(c, [pc EXCEPT ![c] = "idle"])
              /\ UNCHANGED aborted

Proceed(c) == \/ pc[c] = "woken" /\ (Grant(c) \/ Refuse(c))
              \/ Land(c) \/ GiveBack(c) \/ Pause(c) \/ Leave(c) \/ Release(c)

Next == \/ \E c \in Caller : \/ Grant(c) \/ Refuse(c) \/ Land(c) \/ GiveBack(c)
                             \/ Pause(c) \/ Leave(c) \/ Release(c)
                             \/ Abort(c) /\ UNCHANGED store
                             \/ PauseTimer(c) /\ UNCHANGED store
        \/ \E w \in Watcher : (Watch(w, IsFree) \/ StopWatch(w)) /\ UNCHANGED store

Spec == Init /\ [][Next]_vars
FairSpec == Spec /\ \A c \in Caller : WF_vars(Proceed(c))
-----------------------------------------------------------------------------
(* Properties *)

\* A writer holds the key alone: no other writer, no reader, no late grant on its way back (memory.ts shared.acquire).
WriterExcludes == \A c, d \in Caller :
    Holds(c) /\ Holds(d) /\ Mode[c] = "write" => c = d

\* The entry names exactly the callers that hold, and counts exactly the readers that were woken
\* and have not taken their hold: no abort or departure leaks a reader.
EntryAgrees ==
    /\ readers = {c \in Caller : Holds(c) /\ Mode[c] = "read"}
    /\ \A c \in Caller : Mode[c] = "write" => (Holds(c) <=> writer = c)
    /\ unclaimed = Cardinality({c \in Caller : session[c] = "reserved" /\ Mode[c] = "read"})

\* Whoever is in line is blocked by someone who will dispatch again: a writer by a hold or reservation, a
\* reader also by a waiting writer, a watcher by a key that is not free. Nobody reserved is asleep.
NobodySleepsInVain ==
    /\ line # <<>> => WriterIn \/ ReadersIn
    /\ readerLine # <<>> => WriterIn \/ line # <<>>
    /\ IsFree => watchers = {}
    /\ \A c \in Caller : session[c] = "reserved" => pc[c] \in {"woken", "refused"}

Admitted(c) == Holds(c) \/ session[c] = "reserved"

\* Admission is in order (memory.ts header): no step lets a reader in while a writer is still in line after it,
\* and no step hands the key to a writer while one that queued before it waits on.
AdmissionInOrder ==
    [][/\ \A c \in Caller : Mode[c] = "read" /\ ~Admitted(c) /\ Admitted(c)' => line' = <<>>
       /\ \A i, j \in 1..Len(line) : i < j /\ reserved' = line[j] => ~Contains(line', line[i])]_vars

\* A writer in line gets the key or stops waiting, without polling, however many readers come and go.
WriterIsServed == \A c \in Caller :
    Mode[c] = "write" => (session[c] = "queued" ~> pc[c] \in {"held", "idle"})
=============================================================================
