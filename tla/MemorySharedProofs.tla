-------------------------- MODULE MemorySharedProofs --------------------------
(***************************************************************************)
(* Proofs about the two counting locks of memory.ts: MemoryShared, for any *)
(* number of readers, writers and watchers, and MemoryPermits, for any     *)
(* number of calls with any weights and limits.  They are kept together    *)
(* because both count waiters and give a line back without duplicates.     *)
(*                                                                         *)
(* That a writer holds alone needs the entry to agree with the callers     *)
(* (Agrees), which counts woken readers by number and not by name: every   *)
(* step that wakes, redeems or gives back must change the set and the      *)
(* count alike.  Consistent states this of an entry before dispatchShared  *)
(* has run, since release and close change it first and dispatch last;     *)
(* IndInv adds what dispatchShared restores.                               *)
(*                                                                         *)
(* The semaphore's Pooled plays the same part for dispatchPermits and      *)
(* PoolInv adds that the pool lives as long as it is used.  Its loop is a  *)
(* recursion over the line: LoopDefined and ServedFacts are inductions     *)
(* over the turns, by way of the least turn at which the claim would fail. *)
(* FitInv, that nobody in line fits, holds when every call fits in every   *)
(* limit declared for the key.                                             *)
(***************************************************************************)
EXTENDS MemoryShared, MemoryPermits, SequenceTheorems, FiniteSetTheorems, WellFoundedInduction, TLAPS

InLine(l, c) == \E i \in 1..Len(l) : l[i] = c
-----------------------------------------------------------------------------
(* The lines: joining at the tail, serving the head and leaving from       *)
(* anywhere keep the members of a line without duplicates                  *)

\* Joining at the tail: one more element, still no duplicate.
LEMMA AppendFacts ==
    ASSUME NEW S, NEW l \in Seq(S), IsInjective(l), NEW c \in S, ~InLine(l, c)
    PROVE  /\ Append(l, c) \in Seq(S)
           /\ IsInjective(Append(l, c))
           /\ \A d : InLine(Append(l, c), d) <=> InLine(l, d) \/ d = c
<1> DEFINE m == Append(l, c)
<1>1. m \in Seq(S) /\ Len(m) = Len(l) + 1 /\ Len(l) \in Nat
  OBVIOUS
<1>2. /\ \A i \in 1..Len(l) : m[i] = l[i]
      /\ m[Len(l) + 1] = c
  OBVIOUS
<1>3. IsInjective(m)
  BY <1>1, <1>2 DEF IsInjective, InLine
<1>4. \A d : InLine(m, d) <=> InLine(l, d) \/ d = c
  BY <1>1, <1>2 DEF InLine
<1> QED BY <1>1, <1>3, <1>4

\* Serving the head: everyone else stays.
LEMMA TailFacts ==
    ASSUME NEW S, NEW l \in Seq(S), IsInjective(l), l # <<>>
    PROVE  /\ Head(l) \in S /\ InLine(l, Head(l))
           /\ Tail(l) \in Seq(S)
           /\ IsInjective(Tail(l))
           /\ \A d : InLine(Tail(l), d) <=> InLine(l, d) /\ d # Head(l)
<1> DEFINE m == Tail(l)
<1>1. m \in Seq(S) /\ Len(m) = Len(l) - 1 /\ Len(l) \in Nat /\ Len(l) > 0
  OBVIOUS
<1>2. Head(l) = l[1] /\ \A i \in 1..Len(m) : m[i] = l[i + 1]
  OBVIOUS
<1>3. IsInjective(m)
  <2> SUFFICES ASSUME NEW i \in 1..Len(m), NEW j \in 1..Len(m), m[i] = m[j] PROVE i = j
    BY <1>1 DEF IsInjective
  <2> QED BY <1>1, <1>2 DEF IsInjective
<1>4. ASSUME NEW d PROVE InLine(m, d) <=> InLine(l, d) /\ d # Head(l)
  <2>1. ASSUME InLine(m, d) PROVE InLine(l, d) /\ d # Head(l)
    <3>1. PICK i \in 1..Len(m) : m[i] = d
      BY <2>1 DEF InLine
    <3>2. i + 1 \in 1..Len(l) /\ l[i + 1] = d
      BY <1>1, <1>2, <3>1
    <3> QED BY <3>2, <1>1, <1>2 DEF InLine, IsInjective
  <2>2. ASSUME InLine(l, d), d # Head(l) PROVE InLine(m, d)
    <3>1. PICK i \in 1..Len(l) : l[i] = d
      BY <2>2 DEF InLine
    <3>2. i - 1 \in 1..Len(m) /\ m[i - 1] = d
      BY <1>1, <1>2, <2>2, <3>1
    <3> QED BY <3>2 DEF InLine
  <2> QED BY <2>1, <2>2
<1>5. Head(l) \in S /\ InLine(l, Head(l))
  BY <1>1, <1>2 DEF InLine
<1> QED BY <1>1, <1>3, <1>4, <1>5

\* Taking the k-th element out shifts the later ones by one.
LEMMA RemoveAtFacts ==
    ASSUME NEW S, NEW l \in Seq(S), NEW k \in 1..Len(l)
    PROVE  /\ RemoveAt(l, k) \in Seq(S)
           /\ Len(RemoveAt(l, k)) = Len(l) - 1
           /\ \A i \in 1..(Len(l) - 1) : RemoveAt(l, k)[i] = IF i < k THEN l[i] ELSE l[i + 1]
<1> DEFINE a == SubSeq(l, 1, k - 1)
           b == SubSeq(l, k + 1, Len(l))
<1>1. /\ a \in Seq(S) /\ Len(a) = k - 1
      /\ \A i \in 1..(k - 1) : a[i] = l[i]
  OBVIOUS
<1>2. /\ b \in Seq(S) /\ Len(b) = Len(l) - k
      /\ \A i \in 1..(Len(l) - k) : b[i] = l[i + k]
  OBVIOUS
<1>3. RemoveAt(l, k) = a \o b
  BY DEF RemoveAt
<1>4. k \in Nat /\ Len(l) \in Nat /\ 1 <= k /\ k <= Len(l)
  OBVIOUS
<1> HIDE DEF a, b
<1>5. /\ a \o b \in Seq(S)
      /\ Len(a \o b) = Len(a) + Len(b)
      /\ \A i \in 1..Len(a) + Len(b) : (a \o b)[i] = IF i <= Len(a) THEN a[i] ELSE b[i - Len(a)]
  BY <1>1, <1>2, ConcatProperties
<1>6. Len(a \o b) = Len(l) - 1
  BY <1>1, <1>2, <1>4, <1>5
<1>7. ASSUME NEW i \in 1..(Len(l) - 1) PROVE (a \o b)[i] = IF i < k THEN l[i] ELSE l[i + 1]
  <2>1. CASE i < k
    BY <2>1, <1>1, <1>2, <1>4, <1>5
  <2>2. CASE ~(i < k)
    <3>1. (a \o b)[i] = b[i - (k - 1)]
      BY <2>2, <1>1, <1>2, <1>4, <1>5
    <3>2. i - (k - 1) \in 1..(Len(l) - k)
      BY <2>2, <1>4
    <3>3. b[i - (k - 1)] = l[(i - (k - 1)) + k]
      BY <3>2, <1>2
    <3>4. (i - (k - 1)) + k = i + 1
      BY <1>4
    <3> QED BY <3>1, <3>3, <3>4, <2>2, <1>4
  <2> QED BY <2>1, <2>2
<1> QED BY <1>3, <1>5, <1>6, <1>7

\* Leaving from anywhere: everyone else stays.
LEMMA WithoutFacts ==
    ASSUME NEW S, NEW l \in Seq(S), IsInjective(l), NEW c
    PROVE  /\ Without(l, c) \in Seq(S)
           /\ IsInjective(Without(l, c))
           /\ \A d : InLine(Without(l, c), d) <=> InLine(l, d) /\ d # c
<1>1. CASE ~InLine(l, c)
  BY <1>1 DEF InLine, Without
<1>2. CASE InLine(l, c)
  <2>1. PICK k \in 1..Len(l) : l[k] = c /\ Without(l, c) = RemoveAt(l, k)
    BY <1>2 DEF InLine, Without
  <2> DEFINE m == RemoveAt(l, k)
  <2>2. /\ m \in Seq(S) /\ Len(m) = Len(l) - 1
        /\ \A i \in 1..(Len(l) - 1) : m[i] = IF i < k THEN l[i] ELSE l[i + 1]
    BY RemoveAtFacts
  <2> HIDE DEF m
  <2>3. Len(l) \in Nat /\ \A i, j \in 1..Len(l) : l[i] = l[j] => i = j
    BY DEF IsInjective
  <2>4. IsInjective(m)
    <3> SUFFICES ASSUME NEW i \in 1..Len(m), NEW j \in 1..Len(m), m[i] = m[j] PROVE i = j
      BY <2>2 DEF IsInjective
    <3> QED BY <2>2, <2>3
  <2>5. ASSUME NEW d PROVE InLine(m, d) <=> InLine(l, d) /\ d # c
    <3>1. ASSUME InLine(m, d) PROVE InLine(l, d) /\ d # c
      <4>1. PICK i \in 1..Len(m) : m[i] = d
        BY <3>1 DEF InLine
      <4>2. PICK j \in 1..Len(l) : l[j] = d /\ j # k
        BY <2>2, <2>3, <4>1
      <4> QED BY <4>2, <2>1, <2>3 DEF InLine
    <3>2. ASSUME InLine(l, d), d # c PROVE InLine(m, d)
      <4>1. PICK j \in 1..Len(l) : l[j] = d /\ j # k
        BY <3>2, <2>1 DEF InLine
      <4>2. PICK i \in 1..Len(m) : m[i] = d
        <5>1. CASE j < k
          BY <4>1, <5>1, <2>2, <2>3
        <5>2. CASE j > k
          <6>1. j - 1 \in 1..(Len(l) - 1) /\ m[j - 1] = l[j]
            BY <4>1, <5>2, <2>2, <2>3
          <6> QED BY <6>1, <4>1, <2>2
        <5> QED BY <5>1, <5>2, <4>1, <2>3
      <4> QED BY <4>2 DEF InLine
    <3> QED BY <3>1, <3>2
  <2> QED BY <2>1, <2>2, <2>4, <2>5 DEF m
<1> QED BY <1>1, <1>2
-----------------------------------------------------------------------------
(* The entry and the callers *)

Write(c) == Mode[c] = "write"
Read(c) == Mode[c] = "read"

\* The readers that were woken and have not taken their hold.
Woken(s) == {c \in Caller : s[c] = "reserved" /\ Read(c)}

Typed(rs, w, u, r, l, rl, s, p) ==
    /\ rs \subseteq Caller
    /\ w \in Caller \cup {Nobody} /\ r \in Caller \cup {Nobody} /\ u \in Nat
    /\ l \in Seq({c \in Caller : Mode[c] = "write"}) /\ IsInjective(l)
    /\ rl \in Seq({c \in Caller : Mode[c] = "read"}) /\ IsInjective(rl)
    /\ s \in [Caller -> SessionState] /\ p \in [Caller -> PC]

\* The entry names who holds and who is to hold, the lines name who waits.
Agrees(rs, w, u, r, l, rl, s, p) ==
    /\ \A c \in Caller : /\ c \in rs <=> Read(c) /\ p[c] \in {"granted", "held"}
                         /\ w = c <=> Write(c) /\ p[c] \in {"granted", "held"}
                         /\ r = c <=> Write(c) /\ s[c] = "reserved"
                         /\ InLine(l, c) <=> Write(c) /\ s[c] = "queued"
                         /\ InLine(rl, c) <=> Read(c) /\ s[c] = "queued"
                         /\ s[c] = "reserved" => p[c] \in {"woken", "refused"}
                         /\ s[c] = "queued" => p[c] \in {"paused", "woken", "refused"}
    /\ IsFiniteSet(Woken(s)) /\ u = Cardinality(Woken(s))

\* A writer that holds or is to hold is alone.
Alone(rs, w, u, r) == /\ w # Nobody => r = Nobody
                      /\ w # Nobody \/ r # Nobody => rs = {} /\ u = 0

Consistent(rs, w, u, r, l, rl, s, p) ==
    Typed(rs, w, u, r, l, rl, s, p) /\ Agrees(rs, w, u, r, l, rl, s, p) /\ Alone(rs, w, u, r)

\* What dispatchShared restores: nobody waits for a hold that could be had.
NoneLeft == /\ line # <<>> => WriterIn \/ ReadersIn
            /\ readerLine # <<>> => WriterIn \/ line # <<>>
            /\ IsFree => watchers = {}

IndInv == /\ Consistent(readers, writer, unclaimed, reserved, line, readerLine, session, pc)
          /\ aborted \in [Caller -> BOOLEAN]
          /\ watchers \subseteq Watcher
          /\ NoneLeft
-----------------------------------------------------------------------------
(* Counting *)

\* A line of readers has as many members as places.
LEMMA LineCount ==
    ASSUME NEW S, NEW l \in Seq(S), IsInjective(l)
    PROVE  /\ IsFiniteSet(Range(l)) /\ Cardinality(Range(l)) = Len(l) /\ Len(l) \in Nat
           /\ \A c : c \in Range(l) <=> InLine(l, c)
<1>1. Len(l) \in Nat /\ DOMAIN l = 1..Len(l)
  OBVIOUS
<1>2. \A c : c \in Range(l) <=> InLine(l, c)
  BY <1>1 DEF Range, InLine
<1>3. l \in [1..Len(l) -> Range(l)]
  BY <1>1 DEF Range
<1>4. ExistsBijection(1..Len(l), Range(l))
  <2>1. l \in Injection(1..Len(l), Range(l))
    BY <1>1, <1>3 DEF Injection, IsInjective
  <2>2. l \in Surjection(1..Len(l), Range(l))
    BY <1>1, <1>3 DEF Surjection, Range
  <2> QED
    BY <2>1, <2>2 DEF ExistsBijection, Bijection
<1>5. IsFiniteSet(Range(l)) /\ Cardinality(Range(l)) = Len(l)
  <2>1. IsFiniteSet(1..Len(l))
    BY <1>1, FS_Interval
  <2> QED
    BY <1>1, <1>4, <2>1, FS_Bijection, FS_CountingElements
<1> QED
  BY <1>1, <1>2, <1>5

\* Waking a whole line of others adds its length to the count.
LEMMA CountUnion ==
    ASSUME NEW S, NEW T, IsFiniteSet(S), IsFiniteSet(T), S \cap T = {}
    PROVE  IsFiniteSet(S \cup T) /\ Cardinality(S \cup T) = Cardinality(S) + Cardinality(T)
<1>1. Cardinality(S) \in Nat /\ Cardinality(T) \in Nat /\ Cardinality(S \cap T) = 0
  BY FS_CardinalityType, FS_EmptySet
<1>2. /\ IsFiniteSet(S \cup T)
      /\ Cardinality(S \cup T) = Cardinality(S) + Cardinality(T) - Cardinality(S \cap T)
  BY FS_Union
<1> QED
  BY <1>1, <1>2

\* A session that changes for one caller changes the set of woken readers by that caller.
LEMMA WokenChange ==
    ASSUME NEW s \in [Caller -> SessionState], NEW c \in Caller, NEW v \in SessionState,
           IsFiniteSet(Woken(s))
    PROVE  LET n == [s EXCEPT ![c] = v] IN
           /\ IsFiniteSet(Woken(n)) /\ Cardinality(Woken(s)) \in Nat
           /\ Write(c) \/ (s[c] = "reserved" <=> v = "reserved") => Woken(n) = Woken(s)
           /\ Read(c) /\ s[c] # "reserved" /\ v = "reserved" =>
                Cardinality(Woken(n)) = Cardinality(Woken(s)) + 1
           /\ Read(c) /\ s[c] = "reserved" /\ v # "reserved" =>
                Cardinality(Woken(n)) = Cardinality(Woken(s)) - 1 /\ Cardinality(Woken(s)) # 0
<1> DEFINE n == [s EXCEPT ![c] = v]
<1>1. n[c] = v /\ \A d \in Caller : d # c => n[d] = s[d]
  OBVIOUS
<1>2. Cardinality(Woken(s)) \in Nat
  BY FS_CardinalityType
<1>3. Write(c) => ~Read(c)
  BY DEF Write, Read
<1> HIDE DEF n
<1>4. CASE Write(c) \/ (s[c] = "reserved" <=> v = "reserved")
  <2>1. Woken(n) = Woken(s)
    BY <1>1, <1>3, <1>4 DEF Woken
  <2> QED
    BY <1>2, <1>3, <1>4, <2>1 DEF n
<1>5. CASE Read(c) /\ s[c] # "reserved" /\ v = "reserved"
  <2>1. Woken(n) = Woken(s) \cup {c} /\ c \notin Woken(s)
    BY <1>1, <1>5 DEF Woken
  <2>2. IsFiniteSet(Woken(n)) /\ Cardinality(Woken(n)) = Cardinality(Woken(s)) + 1
    BY <2>1, FS_AddElement
  <2> QED
    BY <1>2, <1>3, <1>5, <2>2 DEF n
<1>6. CASE Read(c) /\ s[c] = "reserved" /\ v # "reserved"
  <2>1. Woken(n) = Woken(s) \ {c} /\ c \in Woken(s)
    BY <1>1, <1>6 DEF Woken
  <2>2. Cardinality(Woken(s)) # 0
    BY <2>1, FS_EmptySet
  <2>3. IsFiniteSet(Woken(n)) /\ Cardinality(Woken(n)) = Cardinality(Woken(s)) - 1
    BY <2>1, FS_RemoveElement
  <2> QED
    BY <1>2, <1>3, <1>6, <2>2, <2>3 DEF n
<1>7. Read(c) \/ Write(c)
  BY ModeAssumption DEF Read, Write
<1> QED
  BY <1>4, <1>5, <1>6, <1>7
-----------------------------------------------------------------------------
(* The store's helpers *)

\* What Agrees says of one caller.
AgreesFor(c, rs, w, r, l, rl, s, p) ==
    /\ c \in rs <=> Read(c) /\ p[c] \in {"granted", "held"}
    /\ w = c <=> Write(c) /\ p[c] \in {"granted", "held"}
    /\ r = c <=> Write(c) /\ s[c] = "reserved"
    /\ InLine(l, c) <=> Write(c) /\ s[c] = "queued"
    /\ InLine(rl, c) <=> Read(c) /\ s[c] = "queued"
    /\ s[c] = "reserved" => p[c] \in {"woken", "refused"}
    /\ s[c] = "queued" => p[c] \in {"paused", "woken", "refused"}

\* dispatchShared turns a consistent entry into one where nobody waits for a hold that could be had.
LEMMA DispatchKeepsInv ==
    ASSUME NEW rs, NEW w, NEW u, NEW r, NEW l, NEW rl, NEW s, NEW p,
           Consistent(rs, w, u, r, l, rl, s, p), DispatchShared(rs, w, u, r, l, rl, s, p),
           watchers \subseteq Watcher, aborted' \in [Caller -> BOOLEAN]
    PROVE  IndInv'
<1> USE NobodyAssumption
<1>1. /\ Typed(rs, w, u, r, l, rl, s, p) /\ Alone(rs, w, u, r)
      /\ \A c \in Caller : AgreesFor(c, rs, w, r, l, rl, s, p)
      /\ IsFiniteSet(Woken(s)) /\ u = Cardinality(Woken(s)) /\ u \in Nat
  BY DEF Consistent, Agrees, AgreesFor, Typed
<1>2. readers' = rs /\ writer' = w /\ watchers' \subseteq Watcher
  BY DEF DispatchShared
<1>m. \A c \in Caller : ~(Read(c) /\ Write(c)) /\ (Read(c) \/ Write(c))
  BY ModeAssumption DEF Read, Write
<1>s. SUFFICES /\ Typed(rs, w, unclaimed', reserved', line', readerLine', session', pc')
               /\ Alone(rs, w, unclaimed', reserved')
               /\ \A c \in Caller : AgreesFor(c, rs, w, reserved', line', readerLine', session', pc')
               /\ IsFiniteSet(Woken(session')) /\ unclaimed' = Cardinality(Woken(session'))
               /\ NoneLeft'
  <2>1. Woken(session)' = Woken(session')
    BY DEF Woken, Read
  <2>2. Consistent(readers, writer, unclaimed, reserved, line, readerLine, session, pc)'
    BY <1>2, <1>s, <2>1 DEF Consistent, Agrees, AgreesFor, Typed, Alone, InLine, Read, Write
  <2> QED
    BY <1>2, <1>s, <2>2 DEF IndInv
<1> DEFINE writerIn == w # Nobody \/ r # Nobody
           readersIn == rs # {} \/ u > 0
<1>3. CASE ~writerIn /\ l # <<>> /\ ~readersIn
  <2> DEFINE d == Head(l)
             W == {c \in Caller : Mode[c] = "write"}
  <2>1. /\ d \in W /\ InLine(l, d)
        /\ Without(l, d) \in Seq(W) /\ IsInjective(Without(l, d))
        /\ \A c : InLine(Without(l, d), c) <=> InLine(l, c) /\ c # d
    BY <1>1, <1>3, TailFacts, WithoutFacts DEF Typed
  <2> HIDE DEF d
  <2>2. /\ reserved' = d /\ unclaimed' = u /\ line' = Without(l, d) /\ readerLine' = rl
        /\ session' = [c \in Caller |-> IF c \in {d} THEN "reserved" ELSE s[c]]
        /\ pc' = [c \in Caller |-> IF c \in {d} /\ p[c] = "paused" THEN "woken" ELSE p[c]]
    BY <1>3 DEF DispatchShared, NextWriter, d
  <2>3. d \in Caller /\ Write(d) /\ s[d] = "queued" /\ p[d] \in {"paused", "woken", "refused"}
    BY <1>1, <2>1 DEF AgreesFor, Write
  <2>4. /\ session'[d] = "reserved" /\ pc'[d] \in {"woken", "refused"}
        /\ \A c \in Caller : c # d => session'[c] = s[c] /\ pc'[c] = p[c]
        /\ session' \in [Caller -> SessionState] /\ pc' \in [Caller -> PC]
    BY <1>1, <2>2, <2>3 DEF Typed, SessionState, PC
  <2>5. Typed(rs, w, unclaimed', reserved', line', readerLine', session', pc')
    BY <1>1, <2>1, <2>2, <2>3, <2>4 DEF Typed
  <2>6. rs = {} /\ u = 0 /\ w = Nobody /\ r = Nobody
    BY <1>1, <1>3
  <2>7. Alone(rs, w, unclaimed', reserved')
    BY <2>2, <2>6 DEF Alone
  <2>8. ASSUME NEW c \in Caller PROVE AgreesFor(c, rs, w, reserved', line', readerLine', session', pc')
    <3>1. CASE c = d
      BY <1>1, <1>m, <2>1, <2>2, <2>3, <2>4, <2>6, <3>1 DEF AgreesFor
    <3>2. CASE c # d
      BY <1>1, <2>1, <2>2, <2>4, <2>6, <3>2 DEF AgreesFor
    <3> QED
      BY <3>1, <3>2
  <2>9. Woken(session') = Woken(s)
    BY <1>m, <2>3, <2>4 DEF Woken
  <2>10. NoneLeft'
    BY <2>2, <2>3 DEF NoneLeft, WriterIn, IsFree
  <2> QED
    BY <1>1, <2>2, <2>5, <2>7, <2>8, <2>9, <2>10
<1>4. CASE ~writerIn /\ l = <<>> /\ rl # <<>>
  <2> DEFINE R == Range(rl)
             Q == {c \in Caller : Mode[c] = "read"}
  <2>1. IsFiniteSet(R) /\ Cardinality(R) = Len(rl) /\ Len(rl) \in Nat /\ \A c : c \in R <=> InLine(rl, c)
    BY <1>1, LineCount DEF Typed
  <2>2. R \subseteq Caller
    BY <1>1 DEF Typed, Range
  <2> HIDE DEF R
  <2>3. /\ reserved' = r /\ unclaimed' = u + Len(rl) /\ line' = l /\ readerLine' = <<>>
        /\ session' = [c \in Caller |-> IF c \in R THEN "reserved" ELSE s[c]]
        /\ pc' = [c \in Caller |-> IF c \in R /\ p[c] = "paused" THEN "woken" ELSE p[c]]
    BY <1>4 DEF DispatchShared, R
  <2>4. \A c \in R : Read(c) /\ s[c] = "queued" /\ p[c] \in {"paused", "woken", "refused"}
    BY <1>1, <2>1, <2>2 DEF AgreesFor
  <2>5. /\ \A c \in R : session'[c] = "reserved" /\ pc'[c] \in {"woken", "refused"}
        /\ \A c \in Caller : c \notin R => session'[c] = s[c] /\ pc'[c] = p[c]
        /\ session' \in [Caller -> SessionState] /\ pc' \in [Caller -> PC]
    BY <1>1, <2>2, <2>3, <2>4 DEF Typed, SessionState, PC
  <2>6. <<>> \in Seq(Q) /\ IsInjective(<<>>) /\ \A c : ~InLine(<<>>, c)
    BY DEF IsInjective, InLine
  <2>7. Typed(rs, w, unclaimed', reserved', line', readerLine', session', pc')
    BY <1>1, <2>1, <2>3, <2>5, <2>6 DEF Typed
  <2>8. Alone(rs, w, unclaimed', reserved')
    BY <1>4, <2>3 DEF Alone
  <2>9. ASSUME NEW c \in Caller PROVE AgreesFor(c, rs, w, reserved', line', readerLine', session', pc')
    <3>1. CASE c \in R
      <4>1. /\ c \in rs <=> Read(c) /\ pc'[c] \in {"granted", "held"}
            /\ w = c <=> Write(c) /\ pc'[c] \in {"granted", "held"}
        BY <1>1, <2>4, <2>5, <3>1 DEF AgreesFor
      <4>2. ~Write(c) /\ r # c /\ ~InLine(l, c)
        BY <1>1, <1>m, <2>4, <3>1 DEF AgreesFor
      <4> QED
        BY <2>3, <2>5, <2>6, <3>1, <4>1, <4>2 DEF AgreesFor
    <3>2. CASE c \notin R
      BY <1>1, <2>1, <2>3, <2>5, <2>6, <3>2 DEF AgreesFor
    <3> QED
      BY <3>1, <3>2
  <2>10. Woken(session') = Woken(s) \cup R /\ Woken(s) \cap R = {}
    BY <2>2, <2>4, <2>5 DEF Woken
  <2>11. IsFiniteSet(Woken(session')) /\ unclaimed' = Cardinality(Woken(session'))
    BY <1>1, <2>1, <2>3, <2>10, CountUnion
  <2>12. unclaimed' > 0
    <3>1. Len(rl) # 0
      BY <1>1, <1>4, EmptySeq DEF Typed
    <3> QED
      BY <1>1, <2>1, <2>3, <3>1
  <2>13. NoneLeft'
    BY <1>4, <2>3, <2>12 DEF NoneLeft, ReadersIn, IsFree
  <2> QED
    BY <2>7, <2>8, <2>9, <2>11, <2>13
<1>5. CASE ~(~writerIn /\ l # <<>> /\ ~readersIn) /\ ~(~writerIn /\ l = <<>> /\ rl # <<>>)
  <2>1. reserved' = r /\ unclaimed' = u /\ line' = l /\ readerLine' = rl
    BY <1>5 DEF DispatchShared
  <2>2. /\ session' = [c \in Caller |-> IF c \in {} THEN "reserved" ELSE s[c]]
        /\ pc' = [c \in Caller |-> IF c \in {} /\ p[c] = "paused" THEN "woken" ELSE p[c]]
        /\ watchers' = IF ~writerIn /\ ~readersIn /\ l = <<>> /\ rl = <<>> THEN {} ELSE watchers
    BY <1>5 DEF DispatchShared
  <2>3. session' = s /\ pc' = p
    BY <1>1, <2>2 DEF Typed
  <2>4. NoneLeft'
    BY <1>2, <1>5, <2>1, <2>2 DEF NoneLeft, WriterIn, ReadersIn, IsFree
  <2> QED
    BY <1>1, <2>1, <2>3, <2>4
<1> QED
  BY <1>3, <1>4, <1>5

\* The invariant, caller by caller.
LEMMA Unfolded ==
    ASSUME IndInv
    PROVE  /\ Typed(readers, writer, unclaimed, reserved, line, readerLine, session, pc)
           /\ Alone(readers, writer, unclaimed, reserved)
           /\ \A c \in Caller : AgreesFor(c, readers, writer, reserved, line, readerLine, session, pc)
           /\ IsFiniteSet(Woken(session)) /\ unclaimed = Cardinality(Woken(session))
           /\ aborted \in [Caller -> BOOLEAN] /\ watchers \subseteq Watcher
           /\ \A c \in Caller : ~(Read(c) /\ Write(c)) /\ (Read(c) \/ Write(c))
           /\ NoneLeft
BY ModeAssumption DEF IndInv, Consistent, Agrees, AgreesFor, Read, Write

\* The same after a step.
LEMMA Folded ==
    ASSUME Typed(readers', writer', unclaimed', reserved', line', readerLine', session', pc'),
           Alone(readers', writer', unclaimed', reserved'),
           \A c \in Caller : AgreesFor(c, readers', writer', reserved', line', readerLine', session', pc'),
           IsFiniteSet(Woken(session')), unclaimed' = Cardinality(Woken(session')),
           aborted' \in [Caller -> BOOLEAN], watchers' \subseteq Watcher, NoneLeft'
    PROVE  IndInv'
<1>1. Woken(session)' = Woken(session')
  BY DEF Woken, Read
<1>2. Consistent(readers, writer, unclaimed, reserved, line, readerLine, session, pc)'
  BY <1>1 DEF Consistent, Agrees, AgreesFor, Typed, Alone, InLine, Read, Write
<1> QED
  BY <1>2 DEF IndInv

\* Closing c's session, whose loop ends holding nothing new, keeps the invariant.
LEMMA CloseKeepsInv ==
    ASSUME NEW c \in Caller, NEW q \in PC, IndInv,
           q \in {"granted", "held"} <=> Holds(c),
           Close(c, [pc EXCEPT ![c] = q]), aborted' \in [Caller -> BOOLEAN]
    PROVE  IndInv'
<1> USE NobodyAssumption
<1> DEFINE s == [session EXCEPT ![c] = "none"]
           p == [pc EXCEPT ![c] = q]
           u == IF session[c] = "reserved" /\ Mode[c] = "read" THEN unclaimed - 1 ELSE unclaimed
           r == IF reserved = c THEN Nobody ELSE reserved
           l == Without(line, c)
           rl == Without(readerLine, c)
<1>1. /\ Typed(readers, writer, unclaimed, reserved, line, readerLine, session, pc)
      /\ Alone(readers, writer, unclaimed, reserved)
      /\ \A d \in Caller : AgreesFor(d, readers, writer, reserved, line, readerLine, session, pc)
      /\ IsFiniteSet(Woken(session)) /\ unclaimed = Cardinality(Woken(session))
      /\ watchers \subseteq Watcher
      /\ \A d \in Caller : ~(Read(d) /\ Write(d)) /\ (Read(d) \/ Write(d))
      /\ NoneLeft
  BY Unfolded
<1>2. /\ s \in [Caller -> SessionState] /\ s[c] = "none" /\ \A d \in Caller : d # c => s[d] = session[d]
      /\ p \in [Caller -> PC] /\ p[c] = q /\ \A d \in Caller : d # c => p[d] = pc[d]
  BY <1>1 DEF Typed, SessionState
<1>3. /\ l \in Seq({d \in Caller : Mode[d] = "write"}) /\ IsInjective(l)
      /\ \A d : InLine(l, d) <=> InLine(line, d) /\ d # c
      /\ rl \in Seq({d \in Caller : Mode[d] = "read"}) /\ IsInjective(rl)
      /\ \A d : InLine(rl, d) <=> InLine(readerLine, d) /\ d # c
  BY <1>1, WithoutFacts DEF Typed
<1>4. /\ IsFiniteSet(Woken(s)) /\ u = Cardinality(Woken(s)) /\ u \in Nat /\ (unclaimed = 0 => u = 0)
  <2>1. "none" \in SessionState /\ session \in [Caller -> SessionState] /\ (Read(c) <=> Mode[c] = "read")
    BY <1>1 DEF Typed, SessionState, Read
  <2>2. /\ IsFiniteSet(Woken(s)) /\ Cardinality(Woken(session)) \in Nat
        /\ Write(c) \/ session[c] # "reserved" => Woken(s) = Woken(session)
        /\ Read(c) /\ session[c] = "reserved" =>
             Cardinality(Woken(s)) = Cardinality(Woken(session)) - 1 /\ Cardinality(Woken(session)) # 0
    BY <1>1, <2>1, WokenChange
  <2>3. CASE session[c] = "reserved" /\ Mode[c] = "read"
    <3>1. u = unclaimed - 1
      BY <2>3
    <3> HIDE DEF u, s
    <3> QED
      BY <1>1, <2>1, <2>2, <2>3, <3>1
  <2>4. CASE ~(session[c] = "reserved" /\ Mode[c] = "read")
    <3>1. u = unclaimed
      BY <2>4
    <3> HIDE DEF u, s
    <3> QED
      BY <1>1, <2>1, <2>2, <2>4, <3>1
  <2> QED
    BY <2>3, <2>4
<1> HIDE DEF l, rl, u, s, p
<1>5. Typed(readers, writer, u, r, l, rl, s, p)
  BY <1>1, <1>2, <1>3, <1>4 DEF Typed
<1>6. Alone(readers, writer, u, r)
  BY <1>1, <1>4 DEF Alone
<1>7. ASSUME NEW d \in Caller PROVE AgreesFor(d, readers, writer, r, l, rl, s, p)
  <2>1. CASE d = c
    BY <1>1, <1>2, <1>3, <2>1 DEF AgreesFor, Holds
  <2>2. CASE d # c
    BY <1>1, <1>2, <1>3, <2>2 DEF AgreesFor
  <2> QED
    BY <2>1, <2>2
<1>8. CASE session[c] \in {"queued", "reserved"}
  <2>1. Consistent(readers, writer, u, r, l, rl, s, p)
    BY <1>4, <1>5, <1>6, <1>7 DEF Consistent, Agrees, AgreesFor
  <2>2. DispatchShared(readers, writer, u, r, l, rl, s, p)
    BY <1>8 DEF Close, l, rl, u, s, p
  <2> QED
    BY <1>1, <2>1, <2>2, DispatchKeepsInv
<1>9. CASE session[c] \notin {"queued", "reserved"}
  <2>1. session' = s /\ pc' = p /\ UNCHANGED <<store, watchers>>
    BY <1>9 DEF Close, s, p
  <2>2. reserved # c /\ ~InLine(line, c) /\ ~InLine(readerLine, c)
    BY <1>1, <1>9 DEF AgreesFor
  <2>3. l = line /\ rl = readerLine /\ r = reserved /\ u = unclaimed
    BY <1>9, <2>2 DEF l, rl, u, Without, InLine
  <2>4. NoneLeft'
    BY <1>1, <2>1 DEF NoneLeft, WriterIn, ReadersIn, IsFree, store
  <2> QED
    BY <1>1, <1>4, <1>5, <1>6, <1>7, <2>1, <2>3, <2>4, Folded DEF store
<1> QED
  BY <1>8, <1>9

\* Giving up a hold keeps the invariant.
LEMMA ReleaseKeepsInv ==
    ASSUME NEW c \in Caller, NEW q \in PC \ {"granted", "held"}, IndInv, Holds(c),
           ReleaseShared(c, [pc EXCEPT ![c] = q]), UNCHANGED aborted
    PROVE  IndInv'
<1> USE NobodyAssumption
<1> DEFINE p == [pc EXCEPT ![c] = q]
           rs == readers \ {c}
           w == IF writer = c THEN Nobody ELSE writer
<1>1. /\ Typed(readers, writer, unclaimed, reserved, line, readerLine, session, pc)
      /\ Alone(readers, writer, unclaimed, reserved)
      /\ \A d \in Caller : AgreesFor(d, readers, writer, reserved, line, readerLine, session, pc)
      /\ IsFiniteSet(Woken(session)) /\ unclaimed = Cardinality(Woken(session))
      /\ aborted \in [Caller -> BOOLEAN] /\ watchers \subseteq Watcher
  BY Unfolded
<1>2. p \in [Caller -> PC] /\ p[c] = q /\ \A d \in Caller : d # c => p[d] = pc[d]
  BY <1>1 DEF Typed
<1> HIDE DEF p
<1>3. Typed(rs, w, unclaimed, reserved, line, readerLine, session, p)
  BY <1>1, <1>2 DEF Typed
<1>4. Alone(rs, w, unclaimed, reserved)
  BY <1>1 DEF Alone
<1>5. ASSUME NEW d \in Caller PROVE AgreesFor(d, rs, w, reserved, line, readerLine, session, p)
  <2>1. CASE d = c
    BY <1>1, <1>2, <2>1 DEF AgreesFor, Holds
  <2>2. CASE d # c
    BY <1>1, <1>2, <2>2 DEF AgreesFor
  <2> QED
    BY <2>1, <2>2
<1>6. Consistent(rs, w, unclaimed, reserved, line, readerLine, session, p)
  BY <1>1, <1>3, <1>4, <1>5 DEF Consistent, Agrees, AgreesFor
<1>7. DispatchShared(rs, w, unclaimed, reserved, line, readerLine, session, p)
  BY DEF ReleaseShared, p
<1> QED
  BY <1>1, <1>6, <1>7, DispatchKeepsInv
-----------------------------------------------------------------------------
(* The inductive invariant *)

LEMMA InitInv == Init => IndInv
<1> SUFFICES ASSUME Init PROVE IndInv
  OBVIOUS
<1>1. Woken(session) = {}
  BY DEF Init, LoopInit, Woken
<1>2. IsFiniteSet(Woken(session)) /\ unclaimed = Cardinality(Woken(session))
  BY <1>1, FS_EmptySet DEF Init
<1>3. Typed(readers, writer, unclaimed, reserved, line, readerLine, session, pc)
  BY DEF Init, LoopInit, Typed, SessionState, PC, IsInjective
<1>4. \A c \in Caller : AgreesFor(c, readers, writer, reserved, line, readerLine, session, pc)
  BY NobodyAssumption DEF Init, LoopInit, AgreesFor, InLine
<1>5. Alone(readers, writer, unclaimed, reserved) /\ NoneLeft
  BY DEF Init, LoopInit, Alone, NoneLeft
<1> QED
  BY <1>2, <1>3, <1>4, <1>5 DEF IndInv, Consistent, Agrees, AgreesFor, Init, LoopInit

\* A caller that moves on and holds nothing, before or after.
LEMMA MoveKeepsInv ==
    ASSUME IndInv, NEW c \in Caller, NEW q \in PC \ {"granted", "held"}, ~Holds(c),
           pc' = [pc EXCEPT ![c] = q], UNCHANGED <<store, session, watchers>>,
           session[c] = "reserved" => q \in {"woken", "refused"},
           session[c] = "queued" => q \in {"paused", "woken", "refused"},
           aborted' \in [Caller -> BOOLEAN]
    PROVE  IndInv'
<1>1. /\ Typed(readers, writer, unclaimed, reserved, line, readerLine, session, pc)
      /\ Alone(readers, writer, unclaimed, reserved)
      /\ \A d \in Caller : AgreesFor(d, readers, writer, reserved, line, readerLine, session, pc)
      /\ IsFiniteSet(Woken(session)) /\ unclaimed = Cardinality(Woken(session))
      /\ watchers \subseteq Watcher /\ NoneLeft
  BY Unfolded
<1>2. pc' \in [Caller -> PC] /\ pc'[c] = q /\ \A d \in Caller : d # c => pc'[d] = pc[d]
  BY <1>1 DEF Typed
<1>3. Typed(readers, writer, unclaimed, reserved, line, readerLine, session, pc')
  BY <1>1, <1>2 DEF Typed
<1>4. ASSUME NEW d \in Caller PROVE AgreesFor(d, readers, writer, reserved, line, readerLine, session, pc')
  <2>1. CASE d = c
    BY <1>1, <1>2, <2>1 DEF AgreesFor, Holds
  <2>2. CASE d # c
    BY <1>1, <1>2, <2>2 DEF AgreesFor
  <2> QED
    BY <2>1, <2>2
<1>5. NoneLeft'
  BY <1>1 DEF NoneLeft, WriterIn, ReadersIn, IsFree, store
<1> QED
  BY <1>1, <1>3, <1>4, <1>5, Folded DEF store

\* A blocked caller joins the line of its mode.
LEMMA JoinKeepsInv ==
    ASSUME IndInv, NEW c \in Caller, NEW q \in {"paused", "woken", "refused"}, ~Holds(c),
           Join(c), SharedBlocked(c), session[c] \in {"none", "idle"},
           pc' = [pc EXCEPT ![c] = q], UNCHANGED <<entry, watchers, aborted>>
    PROVE  IndInv'
<1> USE NobodyAssumption
<1>1. /\ Typed(readers, writer, unclaimed, reserved, line, readerLine, session, pc)
      /\ Alone(readers, writer, unclaimed, reserved)
      /\ \A d \in Caller : AgreesFor(d, readers, writer, reserved, line, readerLine, session, pc)
      /\ IsFiniteSet(Woken(session)) /\ unclaimed = Cardinality(Woken(session))
      /\ aborted \in [Caller -> BOOLEAN] /\ watchers \subseteq Watcher
      /\ \A d \in Caller : ~(Read(d) /\ Write(d)) /\ (Read(d) \/ Write(d))
      /\ NoneLeft
  BY Unfolded
<1>2. pc' \in [Caller -> PC] /\ pc'[c] = q /\ \A d \in Caller : d # c => pc'[d] = pc[d]
  BY <1>1 DEF Typed, PC
<1>3. /\ session' = [session EXCEPT ![c] = "queued"]
      /\ session' \in [Caller -> SessionState] /\ session'[c] = "queued"
      /\ \A d \in Caller : d # c => session'[d] = session[d]
  BY <1>1 DEF Typed, Join, SessionState
<1>4. Woken(session') = Woken(session)
  BY <1>3 DEF Woken
<1>5. ~InLine(line, c) /\ ~InLine(readerLine, c) /\ reserved # c /\ c \notin readers /\ writer # c
  BY <1>1 DEF AgreesFor, Holds
<1>6. UNCHANGED <<readers, writer, unclaimed, reserved>>
  BY DEF entry
<1>7. CASE Read(c)
  <2>1. readerLine' = Append(readerLine, c) /\ line' = line
    BY <1>7 DEF Join, Read
  <2>2. /\ readerLine' \in Seq({d \in Caller : Mode[d] = "read"}) /\ IsInjective(readerLine')
        /\ \A d : InLine(readerLine', d) <=> InLine(readerLine, d) \/ d = c
    <3>1. c \in {d \in Caller : Mode[d] = "read"}
      BY <1>7 DEF Read
    <3> QED
      BY <1>1, <1>5, <2>1, <3>1, AppendFacts DEF Typed
  <2>3. Typed(readers, writer, unclaimed, reserved, line', readerLine', session', pc')
    BY <1>1, <1>2, <1>3, <2>1, <2>2 DEF Typed
  <2>4. ASSUME NEW d \in Caller PROVE AgreesFor(d, readers, writer, reserved, line', readerLine', session', pc')
    <3>1. CASE d = c
      BY <1>1, <1>2, <1>3, <1>5, <1>7, <2>1, <2>2, <3>1 DEF AgreesFor
    <3>2. CASE d # c
      BY <1>1, <1>2, <1>3, <2>1, <2>2, <3>2 DEF AgreesFor
    <3> QED
      BY <3>1, <3>2
  <2>5. WriterIn \/ line # <<>>
    BY <1>7 DEF SharedBlocked, Read
  <2>6. NoneLeft'
    BY <1>1, <1>6, <2>1, <2>5 DEF NoneLeft, WriterIn, ReadersIn, IsFree
  <2> QED
    BY <1>1, <1>4, <1>6, <2>3, <2>4, <2>6, Folded
<1>8. CASE Write(c)
  <2>1. line' = Append(line, c) /\ readerLine' = readerLine
    BY <1>8 DEF Join, Write
  <2>2. /\ line' \in Seq({d \in Caller : Mode[d] = "write"}) /\ IsInjective(line')
        /\ \A d : InLine(line', d) <=> InLine(line, d) \/ d = c
    <3>1. c \in {d \in Caller : Mode[d] = "write"}
      BY <1>8 DEF Write
    <3> QED
      BY <1>1, <1>5, <2>1, <3>1, AppendFacts DEF Typed
  <2>3. Typed(readers, writer, unclaimed, reserved, line', readerLine', session', pc')
    BY <1>1, <1>2, <1>3, <2>1, <2>2 DEF Typed
  <2>4. ASSUME NEW d \in Caller PROVE AgreesFor(d, readers, writer, reserved, line', readerLine', session', pc')
    <3>1. CASE d = c
      BY <1>1, <1>2, <1>3, <1>5, <1>8, <2>1, <2>2, <3>1 DEF AgreesFor
    <3>2. CASE d # c
      BY <1>1, <1>2, <1>3, <2>1, <2>2, <3>2 DEF AgreesFor
    <3> QED
      BY <3>1, <3>2
  <2>5. WriterIn \/ ReadersIn
    BY <1>8 DEF SharedBlocked, Write
  <2>6. line' # <<>>
    BY <1>1, <2>1 DEF Typed
  <2>7. NoneLeft'
    BY <1>1, <1>6, <2>1, <2>5, <2>6 DEF NoneLeft, WriterIn, ReadersIn, IsFree
  <2> QED
    BY <1>1, <1>4, <1>6, <2>3, <2>4, <2>7, Folded
<1> QED
  BY <1>1, <1>7, <1>8

\* A caller in line is blocked: a hold that could be had is never passed by.
LEMMA QueuedIsBlocked ==
    ASSUME IndInv, NEW c \in Caller, session[c] = "queued"
    PROVE  SharedBlocked(c)
<1>1. /\ AgreesFor(c, readers, writer, reserved, line, readerLine, session, pc)
      /\ (Read(c) \/ Write(c)) /\ NoneLeft
  BY Unfolded
<1>2. CASE Read(c)
  <2>1. readerLine # <<>>
    BY <1>1, <1>2 DEF AgreesFor, InLine
  <2> QED
    BY <1>1, <1>2, <2>1 DEF NoneLeft, SharedBlocked, Read
<1>3. CASE Write(c)
  <2>1. line # <<>>
    BY <1>1, <1>3 DEF AgreesFor, InLine
  <2> QED
    BY <1>1, <1>3, <2>1 DEF NoneLeft, SharedBlocked, Write
<1> QED
  BY <1>1, <1>2, <1>3

\* A grant keeps the invariant, whether it redeems a reservation or finds the key free for its mode.
LEMMA GrantKeepsInv == ASSUME IndInv, NEW c \in Caller, Grant(c) PROVE IndInv'
<1> USE NobodyAssumption
<1>1. /\ Typed(readers, writer, unclaimed, reserved, line, readerLine, session, pc)
      /\ Alone(readers, writer, unclaimed, reserved)
      /\ \A d \in Caller : AgreesFor(d, readers, writer, reserved, line, readerLine, session, pc)
      /\ IsFiniteSet(Woken(session)) /\ unclaimed = Cardinality(Woken(session))
      /\ aborted \in [Caller -> BOOLEAN] /\ watchers \subseteq Watcher
      /\ \A d \in Caller : ~(Read(d) /\ Write(d)) /\ (Read(d) \/ Write(d))
      /\ NoneLeft
  BY Unfolded
<1> DEFINE v == IF session[c] = "reserved" THEN "idle" ELSE session[c]
<1>2. /\ pc[c] \in {"idle", "woken"} /\ (session[c] = "reserved" \/ ~SharedBlocked(c))
      /\ session' = [session EXCEPT ![c] = v] /\ pc' = [pc EXCEPT ![c] = "granted"]
      /\ UNCHANGED <<aborted, watchers, line, readerLine>>
  BY DEF Grant, MayAttempt, Redeems, lines
<1>3. session[c] # "queued"
  BY <1>2, QueuedIsBlocked
<1>4. /\ pc' \in [Caller -> PC] /\ pc'[c] = "granted" /\ \A d \in Caller : d # c => pc'[d] = pc[d]
      /\ v \in SessionState /\ v \notin {"queued", "reserved"}
      /\ session' \in [Caller -> SessionState] /\ session'[c] = v
      /\ \A d \in Caller : d # c => session'[d] = session[d]
  BY <1>1, <1>2, <1>3 DEF Typed, PC, SessionState
<1>5. /\ IsFiniteSet(Woken(session')) /\ Cardinality(Woken(session)) \in Nat
      /\ Write(c) \/ session[c] # "reserved" => Woken(session') = Woken(session)
      /\ Read(c) /\ session[c] = "reserved" =>
           Cardinality(Woken(session')) = Cardinality(Woken(session)) - 1 /\ Cardinality(Woken(session)) # 0
  <2>1. session \in [Caller -> SessionState] /\ (v = "reserved" <=> FALSE)
    BY <1>1, <1>4 DEF Typed
  <2> HIDE DEF v
  <2>2. LET n == [session EXCEPT ![c] = v] IN
        /\ IsFiniteSet(Woken(n)) /\ Cardinality(Woken(session)) \in Nat
        /\ Write(c) \/ (session[c] = "reserved" <=> v = "reserved") => Woken(n) = Woken(session)
        /\ Read(c) /\ session[c] = "reserved" /\ v # "reserved" =>
             Cardinality(Woken(n)) = Cardinality(Woken(session)) - 1 /\ Cardinality(Woken(session)) # 0
    BY <1>1, <1>4, <2>1, WokenChange
  <2>3. v # "reserved"
    BY <1>4
  <2> QED
    BY <1>2, <2>2, <2>3
<1>6. ~InLine(line, c) /\ ~InLine(readerLine, c) /\ c \notin readers /\ writer # c
  BY <1>1, <1>2, <1>3 DEF AgreesFor
<1> HIDE DEF v
<1>7. CASE Read(c)
  <2>1. /\ readers' = readers \cup {c} /\ writer' = writer /\ reserved' = reserved
        /\ unclaimed' = IF session[c] = "reserved" THEN unclaimed - 1 ELSE unclaimed
    BY <1>7 DEF Grant, Redeems, Read
  <2>2. unclaimed' = Cardinality(Woken(session')) /\ unclaimed' \in Nat
    BY <1>1, <1>5, <1>7, <2>1
  <2>3. writer = Nobody /\ reserved = Nobody
    <3>1. CASE session[c] = "reserved"
      BY <1>1, <1>5, <1>7, <3>1 DEF Alone
    <3>2. CASE ~SharedBlocked(c)
      BY <3>2 DEF SharedBlocked, WriterIn
    <3> QED
      BY <1>2, <3>1, <3>2
  <2>4. Typed(readers', writer', unclaimed', reserved', line', readerLine', session', pc')
    BY <1>1, <1>2, <1>4, <2>1, <2>2 DEF Typed
  <2>5. Alone(readers', writer', unclaimed', reserved')
    BY <2>1, <2>3 DEF Alone
  <2>6. ASSUME NEW d \in Caller
        PROVE  AgreesFor(d, readers', writer', reserved', line', readerLine', session', pc')
    <3>1. CASE d = c
      BY <1>1, <1>2, <1>4, <1>6, <1>7, <2>1, <2>3, <3>1 DEF AgreesFor
    <3>2. CASE d # c
      BY <1>1, <1>2, <1>4, <2>1, <3>2 DEF AgreesFor
    <3> QED
      BY <3>1, <3>2
  <2>7. NoneLeft'
    BY <1>1, <1>2, <2>1, <2>3 DEF NoneLeft, WriterIn, ReadersIn, IsFree
  <2> QED
    BY <1>1, <1>2, <1>5, <2>2, <2>4, <2>5, <2>6, <2>7, Folded
<1>8. CASE Write(c)
  <2>1. /\ writer' = c /\ readers' = readers /\ unclaimed' = unclaimed
        /\ reserved' = IF session[c] = "reserved" THEN Nobody ELSE reserved
    BY <1>8 DEF Grant, Redeems, Write
  <2>2. readers = {} /\ unclaimed = 0 /\ writer = Nobody /\ reserved' = Nobody
    <3>1. CASE session[c] = "reserved"
      <4>1. reserved = c
        BY <1>1, <1>8, <3>1 DEF AgreesFor
      <4> QED
        BY <1>1, <2>1, <3>1, <4>1 DEF Alone
    <3>2. CASE session[c] # "reserved"
      <4>1. ~WriterIn /\ ~ReadersIn
        BY <1>2, <1>8, <3>2 DEF SharedBlocked, Write
      <4> QED
        BY <1>1, <2>1, <3>2, <4>1 DEF WriterIn, ReadersIn, Typed
    <3> QED
      BY <3>1, <3>2
  <2>3. Typed(readers', writer', unclaimed', reserved', line', readerLine', session', pc')
    BY <1>1, <1>2, <1>4, <2>1, <2>2 DEF Typed
  <2>4. Alone(readers', writer', unclaimed', reserved')
    BY <2>1, <2>2 DEF Alone
  <2>5. \A d \in Caller : d # c => reserved # d
    BY <1>1, <1>8, <2>1, <2>2 DEF AgreesFor
  <2>6. ASSUME NEW d \in Caller
        PROVE  AgreesFor(d, readers', writer', reserved', line', readerLine', session', pc')
    <3>1. CASE d = c
      BY <1>1, <1>2, <1>4, <1>6, <1>8, <2>1, <2>2, <3>1 DEF AgreesFor
    <3>2. CASE d # c
      BY <1>1, <1>2, <1>4, <2>1, <2>2, <2>5, <3>2 DEF AgreesFor
    <3> QED
      BY <3>1, <3>2
  <2>7. NoneLeft'
    BY <2>1 DEF NoneLeft, WriterIn, IsFree
  <2> QED
    BY <1>1, <1>2, <1>5, <1>8, <2>1, <2>3, <2>4, <2>6, <2>7, Folded
<1> QED
  BY <1>1, <1>7, <1>8

\* A caller that finds the key free for its mode reserves a hold.
LEMMA ReserveKeepsInv ==
    ASSUME IndInv, NEW c \in Caller, pc[c] = "refused", session[c] = "none", ~SharedBlocked(c),
           session' = [session EXCEPT ![c] = "reserved"], pc' = [pc EXCEPT ![c] = "woken"],
           IF Mode[c] = "read" THEN unclaimed' = unclaimed + 1 /\ UNCHANGED reserved
                               ELSE reserved' = c /\ UNCHANGED unclaimed,
           UNCHANGED <<readers, writer, lines, watchers, aborted>>
    PROVE  IndInv'
<1> USE NobodyAssumption
<1>1. /\ Typed(readers, writer, unclaimed, reserved, line, readerLine, session, pc)
      /\ Alone(readers, writer, unclaimed, reserved)
      /\ \A d \in Caller : AgreesFor(d, readers, writer, reserved, line, readerLine, session, pc)
      /\ IsFiniteSet(Woken(session)) /\ unclaimed = Cardinality(Woken(session))
      /\ aborted \in [Caller -> BOOLEAN] /\ watchers \subseteq Watcher
      /\ \A d \in Caller : ~(Read(d) /\ Write(d)) /\ (Read(d) \/ Write(d))
      /\ NoneLeft
  BY Unfolded
<1>2. UNCHANGED <<readers, writer, line, readerLine, watchers, aborted>>
  BY DEF lines
<1>3. /\ pc' \in [Caller -> PC] /\ pc'[c] = "woken" /\ \A d \in Caller : d # c => pc'[d] = pc[d]
      /\ session' \in [Caller -> SessionState] /\ session'[c] = "reserved"
      /\ \A d \in Caller : d # c => session'[d] = session[d]
  BY <1>1 DEF Typed, PC, SessionState
<1>4. ~InLine(line, c) /\ ~InLine(readerLine, c) /\ c \notin readers /\ writer # c
  BY <1>1 DEF AgreesFor
<1>5. writer = Nobody /\ reserved = Nobody
  BY DEF SharedBlocked, WriterIn
<1>6. /\ IsFiniteSet(Woken(session')) /\ Cardinality(Woken(session)) \in Nat
      /\ Write(c) => Woken(session') = Woken(session)
      /\ Read(c) => Cardinality(Woken(session')) = Cardinality(Woken(session)) + 1
  <2>1. session \in [Caller -> SessionState] /\ "reserved" \in SessionState
    BY <1>1 DEF Typed, SessionState
  <2> QED
    BY <1>1, <2>1, WokenChange
<1>7. CASE Read(c)
  <2>1. unclaimed' = unclaimed + 1 /\ reserved' = reserved
    BY <1>7 DEF Read
  <2>2. unclaimed' = Cardinality(Woken(session')) /\ unclaimed' \in Nat /\ unclaimed' > 0
    BY <1>1, <1>6, <1>7, <2>1
  <2>3. Typed(readers', writer', unclaimed', reserved', line', readerLine', session', pc')
    BY <1>1, <1>2, <1>3, <2>1, <2>2 DEF Typed
  <2>4. Alone(readers', writer', unclaimed', reserved')
    BY <1>2, <1>5, <2>1 DEF Alone
  <2>5. ASSUME NEW d \in Caller
        PROVE  AgreesFor(d, readers', writer', reserved', line', readerLine', session', pc')
    <3>1. CASE d = c
      BY <1>1, <1>2, <1>3, <1>4, <1>5, <1>7, <2>1, <3>1 DEF AgreesFor
    <3>2. CASE d # c
      BY <1>1, <1>2, <1>3, <2>1, <3>2 DEF AgreesFor
    <3> QED
      BY <3>1, <3>2
  <2>6. NoneLeft'
    BY <1>1, <1>2, <2>1, <2>2 DEF NoneLeft, WriterIn, ReadersIn, IsFree
  <2> QED
    BY <1>1, <1>2, <1>6, <2>2, <2>3, <2>4, <2>5, <2>6, Folded
<1>8. CASE Write(c)
  <2>1. reserved' = c /\ unclaimed' = unclaimed
    BY <1>8 DEF Write
  <2>2. readers = {} /\ unclaimed = 0
    BY <1>1, <1>8 DEF SharedBlocked, ReadersIn, Write, Typed
  <2>3. Typed(readers', writer', unclaimed', reserved', line', readerLine', session', pc')
    BY <1>1, <1>2, <1>3, <2>1 DEF Typed
  <2>4. Alone(readers', writer', unclaimed', reserved')
    BY <1>2, <1>5, <2>1, <2>2 DEF Alone
  <2>5. ASSUME NEW d \in Caller
        PROVE  AgreesFor(d, readers', writer', reserved', line', readerLine', session', pc')
    <3>1. CASE d = c
      BY <1>1, <1>2, <1>3, <1>4, <1>5, <1>8, <2>1, <3>1 DEF AgreesFor
    <3>2. CASE d # c
      BY <1>1, <1>2, <1>3, <1>5, <2>1, <3>2 DEF AgreesFor
    <3> QED
      BY <3>1, <3>2
  <2>6. NoneLeft'
    BY <2>1 DEF NoneLeft, WriterIn, IsFree
  <2> QED
    BY <1>1, <1>2, <1>6, <1>8, <2>1, <2>3, <2>4, <2>5, <2>6, Folded
<1> QED
  BY <1>1, <1>7, <1>8

\* Each step of a caller keeps the invariant.
LEMMA CallerKeepsInv ==
    ASSUME IndInv, NEW c \in Caller,
           Grant(c) \/ Refuse(c) \/ Land(c) \/ GiveBack(c) \/ Pause(c) \/ Leave(c) \/ Release(c)
    PROVE  IndInv'
<1>1. aborted \in [Caller -> BOOLEAN] /\ session \in [Caller -> SessionState]
  BY Unfolded DEF Typed
<1>2. CASE Refuse(c)
  <2>1. /\ pc[c] \in {"idle", "woken"} /\ session[c] # "reserved" /\ SharedBlocked(c) /\ QueueRefused(c)
        /\ pc' = [pc EXCEPT ![c] = "refused"] /\ UNCHANGED <<aborted, watchers, entry>>
    BY <1>2 DEF Refuse, MayAttempt, Redeems
  <2>2. ~Holds(c) /\ "refused" \in PC \ {"granted", "held"}
    BY <2>1 DEF Holds, PC
  <2>3. CASE session[c] = "idle"
    BY <2>1, <2>2, <2>3, JoinKeepsInv DEF QueueRefused
  <2>4. CASE session[c] # "idle"
    <3>1. UNCHANGED <<store, session, watchers>>
      BY <2>1, <2>4 DEF QueueRefused, store, entry, lines
    <3> QED
      BY <1>1, <2>1, <2>2, <3>1, MoveKeepsInv
  <2> QED
    BY <2>3, <2>4
<1>3. CASE Land(c)
  BY <1>1, <1>3, CloseKeepsInv DEF Land, Holds, PC
<1>4. CASE Leave(c)
  <2>1. ~Holds(c) /\ aborted' \in [Caller -> BOOLEAN]
    BY <1>1, <1>4 DEF Leave, MayLeave, Holds
  <2> QED
    BY <1>4, <2>1, CloseKeepsInv DEF Leave, PC
<1>5. CASE GiveBack(c)
  BY <1>5, ReleaseKeepsInv DEF GiveBack, Holds, PC
<1>6. CASE Release(c)
  BY <1>6, ReleaseKeepsInv DEF Release, Holds, PC
<1>7. CASE Pause(c)
  <2>1. /\ pc[c] = "refused" /\ ~Holds(c) /\ UNCHANGED <<aborted, watchers>>
        /\ pc' = [pc EXCEPT ![c] = IF session'[c] = "queued" /\ ~aborted[c] THEN "paused" ELSE "woken"]
    BY <1>7 DEF Pause, Holds
  <2>2. CASE session[c] # "none"
    <3>1. UNCHANGED <<store, session>>
      BY <1>7, <2>2 DEF Pause
    <3> DEFINE q == IF session[c] = "queued" /\ ~aborted[c] THEN "paused" ELSE "woken"
    <3>2. q \in PC \ {"granted", "held"} /\ pc' = [pc EXCEPT ![c] = q]
      BY <2>1, <3>1 DEF PC
    <3>3. /\ session[c] = "reserved" => q \in {"woken", "refused"}
          /\ session[c] = "queued" => q \in {"paused", "woken", "refused"}
      OBVIOUS
    <3> HIDE DEF q
    <3> QED
      BY <1>1, <2>1, <3>1, <3>2, <3>3, MoveKeepsInv
  <2>3. CASE session[c] = "none" /\ SharedBlocked(c)
    <3>1. Join(c) /\ UNCHANGED entry
      BY <1>7, <2>3 DEF Pause, NewWaiter
    <3> DEFINE q == IF session'[c] = "queued" /\ ~aborted[c] THEN "paused" ELSE "woken"
    <3>2. q \in {"paused", "woken", "refused"} /\ pc' = [pc EXCEPT ![c] = q]
      BY <2>1
    <3> HIDE DEF q
    <3> QED
      BY <2>1, <2>3, <3>1, <3>2, JoinKeepsInv
  <2>4. CASE session[c] = "none" /\ ~SharedBlocked(c)
    <3>1. /\ session' = [session EXCEPT ![c] = "reserved"]
          /\ IF Mode[c] = "read" THEN unclaimed' = unclaimed + 1 /\ UNCHANGED reserved
                                 ELSE reserved' = c /\ UNCHANGED unclaimed
          /\ UNCHANGED <<readers, writer, lines>>
      BY <1>7, <2>4 DEF Pause, NewWaiter
    <3>2. pc' = [pc EXCEPT ![c] = "woken"]
      BY <1>1, <2>1, <3>1
    <3> QED
      BY <2>1, <2>4, <3>1, <3>2, ReserveKeepsInv
  <2> QED
    BY <2>2, <2>3, <2>4
<1> QED
  BY <1>2, <1>3, <1>4, <1>5, <1>6, <1>7, GrantKeepsInv

LEMMA NextInv == IndInv /\ [Next]_vars => IndInv'
<1> SUFFICES ASSUME IndInv, [Next]_vars PROVE IndInv'
  OBVIOUS
<1>1. /\ Typed(readers, writer, unclaimed, reserved, line, readerLine, session, pc)
      /\ Alone(readers, writer, unclaimed, reserved)
      /\ \A d \in Caller : AgreesFor(d, readers, writer, reserved, line, readerLine, session, pc)
      /\ IsFiniteSet(Woken(session)) /\ unclaimed = Cardinality(Woken(session))
      /\ aborted \in [Caller -> BOOLEAN] /\ watchers \subseteq Watcher /\ NoneLeft
  BY Unfolded
<1>2. ASSUME NEW c \in Caller, (Abort(c) \/ PauseTimer(c)) /\ UNCHANGED store PROVE IndInv'
  <2>1. /\ pc' = Wake(pc, c) /\ UNCHANGED <<store, session, watchers>>
        /\ aborted' \in [Caller -> BOOLEAN] /\ pc[c] \in {"granted", "refused", "paused", "woken"}
    BY <1>1, <1>2 DEF Abort, PauseTimer
  <2>2. CASE pc[c] = "paused"
    <3>1. pc' = [pc EXCEPT ![c] = "woken"] /\ ~Holds(c) /\ "woken" \in PC \ {"granted", "held"}
      BY <2>1, <2>2 DEF Wake, Holds, PC
    <3> QED
      BY <2>1, <3>1, MoveKeepsInv
  <2>3. CASE pc[c] # "paused"
    <3>1. pc' = pc
      BY <1>1, <2>1, <2>3 DEF Wake, Typed
    <3>2. NoneLeft'
      BY <1>1, <2>1 DEF NoneLeft, WriterIn, ReadersIn, IsFree, store
    <3> QED
      BY <1>1, <2>1, <3>1, <3>2, Folded DEF store
  <2> QED
    BY <2>2, <2>3
<1>3. ASSUME NEW w \in Watcher, (Watch(w, IsFree) \/ StopWatch(w)) /\ UNCHANGED store PROVE IndInv'
  <2>1. UNCHANGED <<store, pc, session, aborted>> /\ watchers' \subseteq Watcher
    BY <1>1, <1>3 DEF Watch, StopWatch
  <2>2. NoneLeft'
    BY <1>1, <1>3, <2>1 DEF NoneLeft, WriterIn, ReadersIn, IsFree, store, Watch, StopWatch
  <2> QED
    BY <1>1, <2>1, <2>2, Folded DEF store
<1>4. CASE UNCHANGED vars
  <2>1. NoneLeft'
    BY <1>1, <1>4 DEF NoneLeft, WriterIn, ReadersIn, IsFree, vars
  <2> QED
    BY <1>1, <1>4, <2>1, Folded DEF vars
<1> QED
  BY <1>2, <1>3, <1>4, CallerKeepsInv DEF Next
-----------------------------------------------------------------------------
(* The order of admission *)

\* Whoever stood before the new head of a line that c may have left is in that line no more.
LEMMA BeforeTheHead ==
    ASSUME NEW S, NEW l \in Seq(S), IsInjective(l), NEW c, NEW m \in {l, Without(l, c)}, m # <<>>,
           NEW i \in 1..Len(l), NEW j \in 1..Len(l), i < j, Head(m) = l[j]
    PROVE  ~InLine(m, l[i])
<1>1. Len(l) \in Nat
  OBVIOUS
<1>2. Head(l) # l[j]
  <2>1. Head(l) = l[1] /\ 1 \in 1..Len(l) /\ j # 1
    BY <1>1
  <2> QED
    BY <2>1 DEF IsInjective
<1>3. PICK k \in 1..Len(l) : l[k] = c /\ m = RemoveAt(l, k)
  <2>1. m = Without(l, c) /\ m # l
    BY <1>2
  <2> QED
    BY <2>1 DEF Without
<1>4. /\ m \in Seq(S) /\ Len(m) = Len(l) - 1
      /\ \A n \in 1..(Len(l) - 1) : m[n] = IF n < k THEN l[n] ELSE l[n + 1]
  BY <1>3, RemoveAtFacts
<1>5. Head(m) = m[1] /\ 1 \in 1..(Len(l) - 1)
  BY <1>1, <1>4
<1>6. k = 1
  <2>1. k # 1 => Head(m) = l[1]
    BY <1>4, <1>5
  <2>2. Head(l) = l[1]
    BY <1>1
  <2> QED
    BY <1>2, <2>1, <2>2
<1>7. Head(m) = l[2] /\ 2 \in 1..Len(l)
  BY <1>1, <1>4, <1>5, <1>6
<1>8. j = 2
  BY <1>7 DEF IsInjective
<1>9. i = 1
  BY <1>8
<1>10. m = Without(l, c)
  BY <1>2
<1> QED
  BY <1>3, <1>6, <1>9, <1>10, WithoutFacts

OrderStep == /\ \A c \in Caller : Mode[c] = "read" /\ ~Admitted(c) /\ Admitted(c)' => line' = <<>>
             /\ \A i, j \in 1..Len(line) : i < j /\ reserved' = line[j] => ~Contains(line', line[i])

\* A step that lets no reader in past a writer, and reserves the key for nobody in line.
LEMMA QuietStep ==
    ASSUME IndInv, reserved' \in {reserved, Nobody} \/ ~InLine(line, reserved'),
           \A d \in Caller : Mode[d] = "read" /\ ~Admitted(d) /\ Admitted(d)' => line' = <<>>
    PROVE  OrderStep
<1>1. ASSUME NEW j \in 1..Len(line) PROVE reserved' # line[j]
  <2>1. line[j] \in Caller /\ InLine(line, line[j])
    BY Unfolded DEF Typed, InLine
  <2>2. session[line[j]] = "queued" /\ reserved # line[j]
    BY <2>1, Unfolded DEF AgreesFor
  <2> QED
    BY <2>1, <2>2, NobodyAssumption
<1> QED
  BY <1>1 DEF OrderStep

\* dispatchShared serves in order, also after a caller left the line or its reservation.
LEMMA DispatchInOrder ==
    ASSUME IndInv, NEW rs, NEW w, NEW u, NEW r \in {reserved, Nobody}, NEW c, NEW l \in {line, Without(line, c)},
           NEW rl, NEW s, NEW p, DispatchShared(rs, w, u, r, l, rl, s, p),
           \A d \in Caller : s[d] = "reserved" => session[d] = "reserved",
           \A d \in Caller : p[d] \in {"granted", "held"} => Holds(d)
    PROVE  OrderStep
<1> DEFINE W == {d \in Caller : Mode[d] = "write"}
           toWriter == ~(w # Nobody \/ r # Nobody) /\ l # <<>> /\ ~(rs # {} \/ u > 0)
           toReaders == ~(w # Nobody \/ r # Nobody) /\ l = <<>> /\ rl # <<>>
           served == IF toWriter THEN {Head(l)} ELSE IF toReaders THEN Range(rl) ELSE {}
<1>1. /\ reserved' = IF toWriter THEN Head(l) ELSE r
      /\ line' = IF toWriter THEN Without(l, Head(l)) ELSE l
      /\ session' = [d \in Caller |-> IF d \in served THEN "reserved" ELSE s[d]]
      /\ pc' = [d \in Caller |-> IF d \in served /\ p[d] = "paused" THEN "woken" ELSE p[d]]
  BY DEF DispatchShared, NextWriter
<1>2. line \in Seq(W) /\ IsInjective(line) /\ l \in Seq(W) /\ IsInjective(l)
  BY Unfolded, WithoutFacts DEF Typed
<1>3. ASSUME NEW d \in Caller, Mode[d] = "read", ~Admitted(d), Admitted(d)' PROVE line' = <<>>
  <2>1. p[d] \notin {"granted", "held"} /\ s[d] # "reserved"
    BY <1>3 DEF Admitted
  <2>2. pc'[d] \in {"granted", "held"} \/ session'[d] = "reserved"
    BY <1>3 DEF Admitted, Holds
  <2>3. d \in served
    <3> HIDE DEF served
    <3> QED BY <1>1, <2>1, <2>2
  <2>4. toWriter => Mode[Head(l)] = "write"
    BY <1>2
  <2>5. toReaders /\ ~toWriter
    BY <1>3, <2>3, <2>4
  <2> QED
    BY <1>1, <2>5
<1>4. CASE toWriter
  <2>1. ASSUME NEW i \in 1..Len(line), NEW j \in 1..Len(line), i < j, reserved' = line[j]
        PROVE  ~Contains(line', line[i])
    <3>1. Head(l) = line[j] /\ line' = Without(l, Head(l)) /\ l # <<>>
      BY <1>1, <1>4, <2>1
    <3>2. ~InLine(l, line[i])
      BY <1>2, <2>1, <3>1, BeforeTheHead
    <3>3. ~InLine(Without(l, Head(l)), line[i])
      BY <1>2, <3>2, WithoutFacts
    <3> QED
      BY <3>1, <3>3 DEF InLine, Contains
  <2> QED
    BY <1>3, <2>1 DEF OrderStep
<1>5. CASE ~toWriter
  BY <1>1, <1>3, <1>5, QuietStep
<1> QED
  BY <1>4, <1>5

\* Each step of a caller admits in order.
LEMMA CallerInOrder ==
    ASSUME IndInv, NEW c \in Caller,
           Grant(c) \/ Refuse(c) \/ Land(c) \/ GiveBack(c) \/ Pause(c) \/ Leave(c) \/ Release(c)
    PROVE  OrderStep
<1>1. /\ pc \in [Caller -> PC] /\ session \in [Caller -> SessionState]
      /\ \A d \in Caller : AgreesFor(d, readers, writer, reserved, line, readerLine, session, pc)
  BY Unfolded DEF Typed
<1>2. CASE Grant(c)
  <2>1. /\ reserved' \in {reserved, Nobody} /\ line' = line
        /\ pc' = [pc EXCEPT ![c] = "granted"] /\ (session[c] = "reserved" \/ ~SharedBlocked(c))
        /\ session' = [session EXCEPT ![c] = IF Redeems(c) THEN "idle" ELSE @]
    BY <1>2 DEF Grant, Redeems, lines
  <2>2. ASSUME NEW d \in Caller, Mode[d] = "read", ~Admitted(d), Admitted(d)' PROVE line' = <<>>
    <3>1. d = c
      BY <1>1, <2>1, <2>2 DEF Admitted, Holds
    <3> QED
      BY <2>1, <2>2, <3>1 DEF Admitted, SharedBlocked
  <2> QED
    BY <2>1, <2>2, QuietStep
<1>3. CASE Refuse(c)
  <2>1. /\ reserved' = reserved /\ pc' = [pc EXCEPT ![c] = "refused"]
        /\ session' = session \/ session' = [session EXCEPT ![c] = "queued"]
    BY <1>3 DEF Refuse, QueueRefused, Join, entry
  <2>2. ASSUME NEW d \in Caller, ~Admitted(d) PROVE ~Admitted(d)'
    BY <1>1, <2>1, <2>2 DEF Admitted, Holds
  <2> QED
    BY <2>1, <2>2, QuietStep
<1>4. ASSUME NEW q \in PC, q \in {"granted", "held"} => Holds(c), Close(c, [pc EXCEPT ![c] = q])
      PROVE  OrderStep
  <2> DEFINE s == [session EXCEPT ![c] = "none"]
             p == [pc EXCEPT ![c] = q]
  <2>1. /\ \A d \in Caller : s[d] = "reserved" => session[d] = "reserved"
        /\ \A d \in Caller : p[d] \in {"granted", "held"} => Holds(d)
    BY <1>1, <1>4 DEF Holds
  <2> HIDE DEF s, p
  <2>2. CASE session[c] \in {"queued", "reserved"}
    <3>1. PICK u, r, rl : /\ r \in {reserved, Nobody}
                          /\ DispatchShared(readers, writer, u, r, Without(line, c), rl, s, p)
      BY <1>4, <2>2 DEF Close, s, p
    <3> QED
      BY <2>1, <3>1, DispatchInOrder
  <2>3. CASE session[c] \notin {"queued", "reserved"}
    <3>1. session' = s /\ pc' = p /\ reserved' = reserved
      BY <1>4, <2>3 DEF Close, s, p, store
    <3>2. ASSUME NEW d \in Caller, ~Admitted(d) PROVE ~Admitted(d)'
      BY <2>1, <3>1, <3>2 DEF Admitted, Holds
    <3> QED
      BY <3>1, <3>2, QuietStep
  <2> QED
    BY <2>2, <2>3
<1>5. CASE Land(c)
  BY <1>4, <1>5 DEF Land, Holds, PC
<1>6. CASE Leave(c)
  BY <1>4, <1>6 DEF Leave, PC
<1>7. ASSUME NEW q \in PC \ {"granted", "held"}, ReleaseShared(c, [pc EXCEPT ![c] = q]) PROVE OrderStep
  <2> DEFINE p == [pc EXCEPT ![c] = q]
  <2>1. \A d \in Caller : p[d] \in {"granted", "held"} => Holds(d)
    BY <1>1 DEF Holds
  <2> HIDE DEF p
  <2>2. PICK rs, w : DispatchShared(rs, w, unclaimed, reserved, line, readerLine, session, p)
    BY <1>7 DEF ReleaseShared, p
  <2> QED
    BY <2>1, <2>2, DispatchInOrder
<1>8. CASE GiveBack(c)
  BY <1>7, <1>8 DEF GiveBack, PC
<1>9. CASE Release(c)
  BY <1>7, <1>9 DEF Release, PC
<1>10. CASE Pause(c)
  <2>1. pc[c] = "refused" /\ \E q \in {"paused", "woken"} : pc' = [pc EXCEPT ![c] = q]
    BY <1>10 DEF Pause
  <2>2. \A d \in Caller : pc'[d] \in {"granted", "held"} => Holds(d)
    BY <1>1, <2>1 DEF Holds
  <2>3. CASE session[c] # "none" \/ SharedBlocked(c)
    <3>1. reserved' = reserved /\ (session' = session \/ session' = [session EXCEPT ![c] = "queued"])
      BY <1>10, <2>3 DEF Pause, NewWaiter, Join, entry, store
    <3>2. ASSUME NEW d \in Caller, ~Admitted(d) PROVE ~Admitted(d)'
      BY <1>1, <2>2, <3>1, <3>2 DEF Admitted, Holds
    <3> QED
      BY <3>1, <3>2, QuietStep
  <2>4. CASE session[c] = "none" /\ ~SharedBlocked(c)
    <3>1. /\ session' = [session EXCEPT ![c] = "reserved"] /\ line' = line
          /\ reserved' \in {reserved, c} /\ (Mode[c] = "read" => line = <<>>)
      BY <1>10, <2>4 DEF Pause, NewWaiter, SharedBlocked, lines
    <3>2. ~InLine(line, c)
      BY <1>1, <2>4 DEF AgreesFor
    <3>3. ASSUME NEW d \in Caller, Mode[d] = "read", ~Admitted(d), Admitted(d)' PROVE line' = <<>>
      <4>1. d = c
        BY <1>1, <2>2, <3>1, <3>3 DEF Admitted, Holds
      <4> QED
        BY <3>1, <3>3, <4>1
    <3> QED
      BY <3>1, <3>2, <3>3, QuietStep
  <2> QED
    BY <2>3, <2>4
<1> QED
  BY <1>2, <1>3, <1>5, <1>6, <1>8, <1>9, <1>10
-----------------------------------------------------------------------------
(* Theorems *)

\* Every behaviour of the in-process read/write lock and its callers satisfies the inductive invariant.
THEOREM Invariance == Spec => []IndInv
<1> QED BY InitInv, NextInv, PTL DEF Spec

\* The tables of memory.ts keep their types, every waiter stands once in the line of its mode, and the count of
\* woken readers never goes below zero.
THEOREM Typing == Spec => []TypeOK
<1>1. IndInv => TypeOK
  BY DEF IndInv, Consistent, Typed, TypeOK, LoopTypeOK
<1> QED BY <1>1, Invariance, PTL

\* However readers and writers attempt, wait, abort and release, a writer holds alone (memory.ts shared.acquire).
THEOREM WriterAlone == Spec => []WriterExcludes
<1>1. ASSUME IndInv, NEW c \in Caller, NEW d \in Caller, Holds(c), Holds(d), Mode[c] = "write" PROVE c = d
  <2>1. /\ Alone(readers, writer, unclaimed, reserved) /\ (Read(d) \/ Write(d))
        /\ AgreesFor(c, readers, writer, reserved, line, readerLine, session, pc)
        /\ AgreesFor(d, readers, writer, reserved, line, readerLine, session, pc)
    BY <1>1, Unfolded
  <2>2. writer = c
    BY <1>1, <2>1 DEF AgreesFor, Holds, Write
  <2>3. d \in readers \/ writer = d
    BY <1>1, <2>1 DEF AgreesFor, Holds
  <2> QED
    BY <2>1, <2>2, <2>3, NobodyAssumption DEF Alone
<1>2. IndInv => WriterExcludes
  BY <1>1 DEF WriterExcludes
<1> QED BY <1>2, Invariance, PTL

\* The entry of a key names its holders and counts its woken readers exactly, through every abort, give-back and
\* departure (memory.ts reservedReaders).
THEOREM EntryIsExact == Spec => []EntryAgrees
<1>1. ASSUME IndInv PROVE EntryAgrees
  <2>1. /\ Typed(readers, writer, unclaimed, reserved, line, readerLine, session, pc)
        /\ \A c \in Caller : AgreesFor(c, readers, writer, reserved, line, readerLine, session, pc)
        /\ unclaimed = Cardinality(Woken(session))
    BY <1>1, Unfolded
  <2>2. readers = {c \in Caller : Holds(c) /\ Mode[c] = "read"}
    BY <2>1 DEF AgreesFor, Typed, Holds, Read
  <2>3. \A c \in Caller : Mode[c] = "write" => (Holds(c) <=> writer = c)
    BY <2>1 DEF AgreesFor, Holds, Write
  <2> QED
    BY <2>1, <2>2, <2>3 DEF EntryAgrees, Woken, Read
<1> QED BY <1>1, Invariance, PTL

\* No release, hand-back, abort or departure leaves a waiter behind that could hold (memory.ts dispatchShared).
THEOREM NobodyForgotten == Spec => []NobodySleepsInVain
<1>1. ASSUME IndInv PROVE NobodySleepsInVain
  <2>1. /\ NoneLeft
        /\ \A c \in Caller : AgreesFor(c, readers, writer, reserved, line, readerLine, session, pc)
    BY <1>1, Unfolded
  <2> QED
    BY <2>1 DEF NobodySleepsInVain, NoneLeft, AgreesFor
<1> QED BY <1>1, Invariance, PTL

\* No step lets a reader in past a waiting writer or hands the key to a writer ahead of one that queued before
\* it, whoever aborts or leaves in between (memory.ts dispatchShared, sharedBlocked).
THEOREM InOrder == Spec => AdmissionInOrder
<1>1. IndInv /\ [Next]_vars => [OrderStep]_vars
  <2> SUFFICES ASSUME IndInv, Next PROVE OrderStep
    OBVIOUS
  <2>1. ASSUME NEW c \in Caller, (Abort(c) \/ PauseTimer(c)) /\ UNCHANGED store PROVE OrderStep
    <3>1. pc' = Wake(pc, c) /\ session' = session /\ reserved' = reserved
      BY <2>1 DEF Abort, PauseTimer, store
    <3>2. ASSUME NEW d \in Caller, ~Admitted(d) PROVE ~Admitted(d)'
      BY <3>1, <3>2, Unfolded DEF Admitted, Holds, Wake, Typed
    <3> QED
      BY <3>1, <3>2, QuietStep
  <2>2. ASSUME NEW w \in Watcher, (Watch(w, IsFree) \/ StopWatch(w)) /\ UNCHANGED store PROVE OrderStep
    <3>1. pc' = pc /\ session' = session /\ reserved' = reserved
      BY <2>2 DEF Watch, StopWatch, store
    <3> QED
      BY <3>1, QuietStep DEF Admitted, Holds
  <2> QED
    BY <2>1, <2>2, CallerInOrder DEF Next
<1> QED
  BY <1>1, Invariance, PTL DEF Spec, AdmissionInOrder, OrderStep
-----------------------------------------------------------------------------
(***************************************************************************)
(* The semaphore (MemoryPermits), for any calls, weights and limits.       *)
(***************************************************************************)

Tickets(S) == UNION {{c} \X (1..Weight[c]) : c \in S}

\* Counting permits: none for nobody, and the sum for two groups of calls.
LEMMA NoPermits == IsFiniteSet(Tickets({})) /\ Permits({}) = 0
<1>1. Tickets({}) = {}
  BY DEF Tickets
<1> QED
  BY <1>1, FS_EmptySet DEF Permits, Tickets

LEMMA PermitsType == ASSUME NEW S, IsFiniteSet(Tickets(S)) PROVE Permits(S) \in Nat
BY FS_CardinalityType DEF Permits, Tickets

LEMMA PermitsUnion ==
    ASSUME NEW S, NEW T, IsFiniteSet(Tickets(S)), IsFiniteSet(Tickets(T)), S \cap T = {}
    PROVE  IsFiniteSet(Tickets(S \cup T)) /\ Permits(S \cup T) = Permits(S) + Permits(T)
<1>1. Tickets(S \cup T) = Tickets(S) \cup Tickets(T)
  BY DEF Tickets
<1>2. Tickets(S) \cap Tickets(T) = {}
  BY DEF Tickets
<1>3. \A U : Permits(U) = Cardinality(Tickets(U))
  BY DEF Permits, Tickets
<1> QED
  BY <1>1, <1>2, <1>3, CountUnion

\* One call more.
LEMMA PermitsAdd ==
    ASSUME NEW S, NEW c \in Caller, c \notin S, IsFiniteSet(Tickets(S))
    PROVE  IsFiniteSet(Tickets(S \cup {c})) /\ Permits(S \cup {c}) = Permits(S) + Weight[c]
<1>1. Weight[c] \in Nat
  BY PermitAssumption
<1>2. Tickets({c}) = {c} \X (1..Weight[c])
  BY DEF Tickets
<1>3. IsFiniteSet({c}) /\ Cardinality({c}) = 1 /\ IsFiniteSet(1..Weight[c]) /\ Cardinality(1..Weight[c]) = Weight[c]
  <2>1. 1 \in Int /\ Weight[c] \in Int
    BY <1>1
  <2>2. IsFiniteSet(1..Weight[c]) /\ Cardinality(1..Weight[c]) = IF 1 > Weight[c] THEN 0 ELSE Weight[c] - 1 + 1
    BY <2>1, FS_Interval, Zenon
  <2>3. (IF 1 > Weight[c] THEN 0 ELSE Weight[c] - 1 + 1) = Weight[c]
    BY <1>1
  <2> QED
    BY <2>2, <2>3, FS_Singleton, Zenon
<1>4. IsFiniteSet({c} \X (1..Weight[c])) /\ Cardinality({c} \X (1..Weight[c])) = Weight[c]
  <2>1. /\ IsFiniteSet({c} \X (1..Weight[c]))
        /\ Cardinality({c} \X (1..Weight[c])) = Cardinality({c}) * Cardinality(1..Weight[c])
    BY <1>3, FS_Product
  <2> QED
    BY <1>1, <1>3, <2>1
<1>5. IsFiniteSet(Tickets({c})) /\ Permits({c}) = Weight[c]
  BY <1>1, <1>2, <1>4 DEF Permits, Tickets
<1> QED
  BY <1>5, PermitsUnion

\* One call less.
LEMMA PermitsRemove ==
    ASSUME NEW S, NEW c \in Caller, c \in S, IsFiniteSet(Tickets(S))
    PROVE  /\ IsFiniteSet(Tickets(S \ {c})) /\ Permits(S \ {c}) \in Nat
           /\ Permits(S \ {c}) = Permits(S) - Weight[c] /\ Permits(S) >= Weight[c] /\ Permits(S) > 0
<1> DEFINE R == S \ {c}
<1>1. S = R \cup {c} /\ c \notin R
  OBVIOUS
<1>2. Tickets(R) \in SUBSET Tickets(S)
  BY DEF Tickets
<1>3. IsFiniteSet(Tickets(R))
  BY <1>2, FS_Subset
<1>4. Permits(R) \in Nat /\ Permits(S) \in Nat
  BY <1>3, PermitsType
<1> HIDE DEF R
<1>5. Permits(S) = Permits(R) + Weight[c]
  BY <1>1, <1>3, PermitsAdd
<1>6. Weight[c] \in Nat \ {0}
  BY PermitAssumption
<1> QED
  BY <1>3, <1>4, <1>5, <1>6 DEF R

\* Whoever asks for permits asks for one at least.
LEMMA PermitsZero ==
    ASSUME NEW S \in SUBSET Caller, IsFiniteSet(Tickets(S)), Permits(S) = 0 PROVE S = {}
<1> SUFFICES ASSUME NEW c \in S PROVE FALSE
  OBVIOUS
<1>1. Permits(S) > 0
  BY PermitsRemove
<1> QED
  BY <1>1

\* A nonempty set of naturals has a least element.
LEMMA LeastElement ==
    ASSUME NEW S \in SUBSET Nat, S # {}
    PROVE  \E n \in S : \A m \in S : n <= m
<1> DEFINE R == OpToRel(<, Nat)
<1>1. IsWellFoundedOn(R, Nat)
  BY NatLessThanWellFounded
<1>2. \A a, b \in Nat : a < b => <<a, b>> \in R
  BY DEF OpToRel
<1> HIDE DEF R
<1>3. PICK n \in S : \A m \in S : ~ (<<m, n>> \in R)
  BY <1>1, WFMin
<1>4. ASSUME NEW m \in S PROVE n <= m
  <2>1. m \in Nat /\ n \in Nat
    OBVIOUS
  <2>2. ~ (m < n)
    BY <1>2, <1>3, <2>1, Zenon
  <2> QED
    BY <2>1, <2>2
<1> QED
  BY <1>4

\* Induction over the places of a line, for a set of them.
LEMMA PlaceInduction ==
    ASSUME NEW n \in Nat, NEW S, 0 \in S, \A k \in 0..(n - 1) : k \in S => k + 1 \in S
    PROVE  \A k \in 0..n : k \in S
<1> SUFFICES ASSUME NEW k \in 0..n, k \notin S PROVE FALSE
  OBVIOUS
<1> DEFINE out == {i \in 0..n : i \notin S}
<1>0. out \in SUBSET Nat /\ out # {}
  OBVIOUS
<1>1. PICK m \in out : \A i \in out : m <= i
  BY <1>0, LeastElement, Zenon
<1>2. m # 0 /\ m \in 0..n /\ m \notin S
  BY <1>1
<1>3. m - 1 \in 0..(n - 1) /\ m - 1 \in 0..n /\ (m - 1) + 1 = m /\ ~(m <= m - 1)
  BY <1>2
<1>4. m - 1 \in S
  BY <1>1, <1>3
<1> QED
  BY <1>2, <1>3, <1>4
-----------------------------------------------------------------------------
(* dispatchPermits' loop *)

\* f records the loop over l turn by turn.
Turns(f, l, u) == f = [i \in 0..Len(l) |-> IF i = 0 THEN [inUse |-> u, who |-> {}, line |-> <<>>]
                                                   ELSE Serve(f[i - 1], l[i])]

\* The loop's recursion has a solution.
LEMMA LoopDefined ==
    ASSUME NEW l \in Seq(Caller), NEW u
    PROVE  \E f : Served(l, u) = f[Len(l)] /\ Turns(f, l, u)
<1> DEFINE base == [inUse |-> u, who |-> {}, line |-> <<>>]
           Eq(f, n) == f = [i \in 0..n |-> IF i = 0 THEN base ELSE Serve(f[i - 1], l[i])]
           S == {n \in Nat : \E f : Eq(f, n)}
<1>0. Len(l) \in Nat
  OBVIOUS
<1>1. 0 \in S
  <2> DEFINE f == [i \in 0..0 |-> base]
  <2>1. Eq(f, 0)
    OBVIOUS
  <2> QED
    BY <2>1
<1>2. ASSUME NEW k \in 0..(Len(l) - 1), k \in S PROVE k + 1 \in S
  <2>0. k \in Nat
    BY <1>0
  <2>1. PICK f : Eq(f, k)
    BY <1>2
  <2> DEFINE g == [i \in 0..(k + 1) |-> IF i <= k THEN f[i] ELSE Serve(f[k], l[k + 1])]
  <2>2. ASSUME NEW i \in 0..(k + 1) PROVE g[i] = IF i = 0 THEN base ELSE Serve(g[i - 1], l[i])
    <3>1. CASE i = 0
      <4>1. g[i] = f[0] /\ 0 \in 0..k
        BY <2>0, <3>1
      <4>2. f[0] = base
        BY <2>1, <4>1, Zenon
      <4> QED
        BY <3>1, <4>1, <4>2
    <3>2. CASE i # 0 /\ i <= k
      <4>1. g[i] = f[i] /\ i - 1 \in 0..(k + 1) /\ g[i - 1] = f[i - 1] /\ i \in 0..k
        BY <2>0, <3>2
      <4>2. f[i] = Serve(f[i - 1], l[i])
        BY <2>1, <3>2, <4>1, Zenon
      <4> QED
        BY <3>2, <4>1, <4>2
    <3>3. CASE i = k + 1
      <4>1. g[i] = Serve(f[k], l[k + 1]) /\ g[i - 1] = f[k] /\ i # 0
        BY <2>0, <3>3
      <4> QED
        BY <3>3, <4>1
    <3> QED
      BY <2>0, <3>1, <3>2, <3>3
  <2>3. Eq(g, k + 1)
    <3>1. [i \in 0..(k + 1) |-> g[i]] = [i \in 0..(k + 1) |-> IF i = 0 THEN base ELSE Serve(g[i - 1], l[i])]
      BY <2>2
    <3>2. g = [i \in 0..(k + 1) |-> g[i]]
      OBVIOUS
    <3> QED
      BY <3>1, <3>2, Zenon
  <2>4. k + 1 \in Nat
    BY <2>0
  <2> QED
    BY <2>3, <2>4, Zenon
<1> HIDE DEF S
<1>3. Len(l) \in S
  <2>1. \A k \in 0..(Len(l) - 1) : k \in S => k + 1 \in S
    BY <1>2
  <2>2. \A k \in 0..Len(l) : k \in S
    BY <1>0, <1>1, <2>1, PlaceInduction, Zenon
  <2> QED
    BY <1>0, <2>2
<1>4. \E f : Eq(f, Len(l))
  BY <1>3 DEF S
<1>5. Served(l, u) = (CHOOSE f : Eq(f, Len(l)))[Len(l)]
  BY DEF Served
<1> QED
  BY <1>4, <1>5, Zenon DEF Turns

\* What n turns of the loop over l have done when u permits were in use before it.
Turned(d, l, n, u) ==
    /\ d \in [inUse : Nat, who : SUBSET Caller, line : Seq(Caller)]
    /\ IsInjective(d.line) /\ IsFiniteSet(Tickets(d.who))
    /\ \A c : (\E i \in 1..n : l[i] = c) <=> (c \in d.who \/ InLine(d.line, c))
    /\ \A c : ~(c \in d.who /\ InLine(d.line, c))
    /\ d.inUse = u + Permits(d.who) /\ d.inUse <= limit
    /\ \A c : InLine(d.line, c) => d.inUse + Weight[c] > limit

LEMMA OneTurn ==
    ASSUME limit \in Nat, NEW u \in Nat, NEW l \in Seq(Caller), IsInjective(l),
           NEW n \in 0..(Len(l) - 1), NEW d, Turned(d, l, n, u)
    PROVE  Turned(Serve(d, l[n + 1]), l, n + 1, u)
<1> DEFINE c == l[n + 1]
           e == Serve(d, c)
<1>0. Len(l) \in Nat /\ n \in Nat /\ n + 1 \in 1..Len(l) /\ c \in Caller
  OBVIOUS
<1>1. Weight[c] \in Nat \ {0}
  BY <1>0, PermitAssumption
<1>2. /\ d \in [inUse : Nat, who : SUBSET Caller, line : Seq(Caller)]
      /\ IsInjective(d.line) /\ IsFiniteSet(Tickets(d.who))
      /\ d.inUse = u + Permits(d.who) /\ d.inUse <= limit
  BY DEF Turned
<1>3. \A x : (\E i \in 1..n : l[i] = x) <=> (x \in d.who \/ InLine(d.line, x))
  BY DEF Turned
<1>4. /\ \A x : ~(x \in d.who /\ InLine(d.line, x))
      /\ \A x : InLine(d.line, x) => d.inUse + Weight[x] > limit
  BY DEF Turned
<1>5. ~(\E i \in 1..n : l[i] = c)
  BY <1>0 DEF IsInjective
<1>6. c \notin d.who /\ ~InLine(d.line, c)
  BY <1>3, <1>5, Zenon
<1>7. ASSUME NEW x PROVE (\E i \in 1..(n + 1) : l[i] = x) <=> ((\E i \in 1..n : l[i] = x) \/ x = c)
  <2>1. \A i \in 1..(n + 1) : i \in 1..n \/ i = n + 1
    BY <1>0
  <2>2. \A i \in 1..n : i \in 1..(n + 1)
    BY <1>0
  <2>3. n + 1 \in 1..(n + 1)
    BY <1>0
  <2> QED
    BY <2>1, <2>2, <2>3, Zenon
<1>8. Permits(d.who) \in Nat
  BY <1>2, PermitsType
<1> HIDE DEF c
<1>9. CASE d.inUse + Weight[c] <= limit
  <2>1. e = [inUse |-> d.inUse + Weight[c], who |-> d.who \cup {c}, line |-> d.line]
    BY <1>2, <1>9 DEF Serve
  <2>2. e.inUse = d.inUse + Weight[c] /\ e.who = d.who \cup {c} /\ e.line = d.line
    BY <2>1
  <2> HIDE DEF e
  <2>3. e \in [inUse : Nat, who : SUBSET Caller, line : Seq(Caller)]
    BY <1>0, <1>1, <1>2, <2>1
  <2>4. IsFiniteSet(Tickets(d.who \cup {c})) /\ Permits(d.who \cup {c}) = Permits(d.who) + Weight[c]
    BY <1>0, <1>2, <1>6, PermitsAdd
  <2>5. e.inUse = u + Permits(e.who) /\ e.inUse <= limit
    BY <1>1, <1>2, <1>8, <1>9, <2>2, <2>4
  <2>6. ASSUME NEW x PROVE (\E i \in 1..(n + 1) : l[i] = x) <=> (x \in e.who \/ InLine(e.line, x))
    BY <1>3, <1>7, <2>2
  <2>7. ASSUME NEW x PROVE ~(x \in e.who /\ InLine(e.line, x))
    BY <1>4, <1>6, <2>2
  <2>8. ASSUME NEW x, InLine(e.line, x) PROVE e.inUse + Weight[x] > limit
    <3>1. x \in Caller
      BY <1>2, <2>2, <2>8 DEF InLine
    <3>2. Weight[x] \in Nat /\ d.inUse + Weight[x] > limit
      BY <1>4, <2>2, <2>8, <3>1, PermitAssumption
    <3> QED
      BY <1>1, <1>2, <2>2, <3>2
  <2> QED
    BY <1>2, <2>2, <2>3, <2>4, <2>5, <2>6, <2>7, <2>8 DEF Turned, e, c
<1>10. CASE ~(d.inUse + Weight[c] <= limit)
  <2>1. e = [inUse |-> d.inUse, who |-> d.who, line |-> Append(d.line, c)]
    BY <1>2, <1>10 DEF Serve
  <2>2. e.inUse = d.inUse /\ e.who = d.who /\ e.line = Append(d.line, c)
    BY <2>1
  <2> HIDE DEF e
  <2>3. /\ e.line \in Seq(Caller) /\ IsInjective(e.line)
        /\ \A x : InLine(e.line, x) <=> InLine(d.line, x) \/ x = c
    <3>1. d.line \in Seq(Caller)
      BY <1>2
    <3> QED
      BY <1>0, <1>2, <1>6, <2>2, <3>1, AppendFacts
  <2>4. e \in [inUse : Nat, who : SUBSET Caller, line : Seq(Caller)]
    BY <1>2, <2>1, <2>2, <2>3
  <2>5. ASSUME NEW x PROVE (\E i \in 1..(n + 1) : l[i] = x) <=> (x \in e.who \/ InLine(e.line, x))
    BY <1>3, <1>7, <2>2, <2>3
  <2>6. ASSUME NEW x PROVE ~(x \in e.who /\ InLine(e.line, x))
    BY <1>4, <1>6, <2>2, <2>3
  <2>7. ASSUME NEW x, InLine(e.line, x) PROVE e.inUse + Weight[x] > limit
    BY <1>1, <1>2, <1>4, <1>10, <2>2, <2>3, <2>7
  <2> QED
    BY <1>2, <2>2, <2>3, <2>4, <2>5, <2>6, <2>7 DEF Turned, e, c
<1> QED
  BY <1>9, <1>10 DEF c

\* The loop serves part of the line, within the limit, and leaves nobody who fits.
LEMMA ServedFacts ==
    ASSUME limit \in Nat, NEW u \in Nat, u <= limit, NEW l \in Seq(Caller), IsInjective(l)
    PROVE  Turned(Served(l, u), l, Len(l), u)
<1> DEFINE base == [inUse |-> u, who |-> {}, line |-> <<>>]
<1>0. Len(l) \in Nat /\ Len(l) \in 0..Len(l)
  OBVIOUS
<1>1. PICK f : Served(l, u) = f[Len(l)] /\ Turns(f, l, u)
  BY LoopDefined
<1> DEFINE S == {n \in 0..Len(l) : Turned(f[n], l, n, u)}
<1>2. 0 \in S
  <2>1. f[0] = base /\ 0 \in 0..Len(l)
    <3>1. 0 \in 0..Len(l)
      BY <1>0
    <3>2. f[0] = IF 0 = 0 THEN base ELSE Serve(f[0 - 1], l[0])
      BY <1>1, <3>1, Zenon DEF Turns
    <3> QED
      BY <3>1, <3>2
  <2>2. base.inUse = u /\ base.who = {} /\ base.line = <<>>
    OBVIOUS
  <2>3. base \in [inUse : Nat, who : SUBSET Caller, line : Seq(Caller)]
    OBVIOUS
  <2>4. IsInjective(<<>>) /\ \A c : ~InLine(<<>>, c)
    BY DEF IsInjective, InLine
  <2>5. \A c : ~(\E i \in 1..0 : l[i] = c)
    OBVIOUS
  <2> HIDE DEF base
  <2>6. Turned(base, l, 0, u)
    BY <2>2, <2>3, <2>4, <2>5, NoPermits DEF Turned
  <2> QED
    BY <2>1, <2>6
<1>3. ASSUME NEW k \in 0..(Len(l) - 1), k \in S PROVE k + 1 \in S
  <2>1. k + 1 \in 0..Len(l) /\ k + 1 # 0 /\ (k + 1) - 1 = k
    BY <1>0
  <2>2. f[k + 1] = IF k + 1 = 0 THEN base ELSE Serve(f[(k + 1) - 1], l[k + 1])
    BY <1>1, <2>1, Zenon DEF Turns
  <2>3. f[k + 1] = Serve(f[k], l[k + 1])
    BY <2>1, <2>2
  <2>4. Turned(f[k], l, k, u)
    BY <1>3
  <2>5. Turned(f[k + 1], l, k + 1, u)
    BY <2>3, <2>4, OneTurn
  <2> QED
    BY <2>1, <2>5
<1>4. Len(l) \in S
  <2>1. \A k \in 0..(Len(l) - 1) : k \in S => k + 1 \in S
    BY <1>3
  <2> HIDE DEF S
  <2>2. \A k \in 0..Len(l) : k \in S
    BY <1>0, <1>2, <2>1, PlaceInduction, Zenon
  <2> QED
    BY <1>0, <2>2
<1> QED
  BY <1>1, <1>4
-----------------------------------------------------------------------------
(* The pool and the callers *)

\* The calls permits are reserved for.
Promised(s) == {c \in Caller : s[c] = "reserved"}

PermitTyped(h, u, r, l, s, p) ==
    /\ h \in SUBSET Caller /\ u \in Nat /\ r \in Nat
    /\ l \in Seq(Caller) /\ IsInjective(l)
    /\ s \in [Caller -> SessionState] /\ p \in [Caller -> PC]

\* The counters u and r of a pool of b permits are what its holds h and its reservations add up to.
Counted(h, u, r, s, b) ==
    /\ IsFiniteSet(Tickets(h)) /\ IsFiniteSet(Tickets(Promised(s)))
    /\ r = Permits(Promised(s)) /\ u = Permits(h) + r /\ u <= b
    /\ \A c \in h : Limit[c] = b

\* The tables know each call for what it is.
Known(h, l, s, p) ==
    \A c \in Caller : /\ c \in h <=> p[c] \in {"granted", "held"}
                      /\ InLine(l, c) <=> s[c] = "queued"

Declared(b) == b = 0 \/ \E d \in Caller : b = Limit[d]

\* What release and close leave to dispatchPermits.
Pooled(h, u, r, l, s, p, b) ==
    /\ PermitTyped(h, u, r, l, s, p) /\ Counted(h, u, r, s, b) /\ Known(h, l, s, p) /\ Declared(b)

PoolInv == /\ Pooled(holders, inUse, reservedPermits, permitLine, session, pc, limit)
           /\ NoPool <=> holders = {} /\ Promised(session) = {}
           /\ aborted \in [Caller -> BOOLEAN] /\ watchers \subseteq Watcher

\* The invariant after a step.
LEMMA PoolFolded ==
    ASSUME PermitTyped(holders', inUse', reservedPermits', permitLine', session', pc'),
           Counted(holders', inUse', reservedPermits', session', limit'),
           Known(holders', permitLine', session', pc'), Declared(limit'),
           limit' = 0 <=> holders' = {} /\ Promised(session') = {},
           aborted' \in [Caller -> BOOLEAN], watchers' \subseteq Watcher
    PROVE  PoolInv'
<1>1. Promised(session)' = Promised(session')
  BY DEF Promised
<1>2. Pooled(holders, inUse, reservedPermits, permitLine, session, pc, limit)'
  <2>1. /\ PermitTyped(holders, inUse, reservedPermits, permitLine, session, pc)'
        /\ Known(holders, permitLine, session, pc)' /\ Declared(limit)'
    BY DEF PermitTyped, Known, Declared, InLine
  <2>2. Counted(holders, inUse, reservedPermits, session, limit)'
    BY <1>1 DEF Counted, Permits, Tickets
  <2> QED
    BY <2>1, <2>2 DEF Pooled
<1> QED
  BY <1>1, <1>2 DEF PoolInv, NoPool

LEMMA DeclaredNat == ASSUME NEW b, Declared(b) PROVE b \in Nat
BY PermitAssumption DEF Declared

\* A pool that counts nothing has neither holds nor reservations.
LEMMA NothingCounted ==
    ASSUME NEW h \in SUBSET Caller, NEW u, NEW r, NEW s, NEW b, Counted(h, u, r, s, b), u = 0
    PROVE  h = {} /\ Promised(s) = {} /\ r = 0
<1>1. Permits(h) \in Nat /\ Permits(Promised(s)) \in Nat
  BY PermitsType DEF Counted
<1>2. Permits(h) = 0 /\ Permits(Promised(s)) = 0 /\ r = 0
  BY <1>1 DEF Counted
<1>3. Promised(s) \in SUBSET Caller
  BY DEF Promised
<1> QED
  BY <1>2, <1>3, PermitsZero DEF Counted

\* dispatchPermits reserves t permits for the calls of W and leaves the line m.
Dispatches(W, t, m, h, u, r, s, p) ==
    /\ holders' = h /\ permitLine' = m /\ reservedPermits' = r + t
    /\ session' = [c \in Caller |-> IF c \in W THEN "reserved" ELSE s[c]]
    /\ pc' = [c \in Caller |-> IF c \in W /\ p[c] = "paused" THEN "woken" ELSE p[c]]
    /\ IF h = {} /\ r + t = 0 THEN limit' = 0 /\ inUse' = 0 /\ watchers' = {}
                              ELSE limit' = limit /\ inUse' = u + t /\ watchers' = watchers

\* W are the calls of the line l that fitted one after another, m the others.
Splits(W, t, m, l, u, b) ==
    /\ W \in SUBSET Caller /\ IsFiniteSet(Tickets(W)) /\ t = Permits(W) /\ t \in Nat
    /\ m \in Seq(Caller) /\ IsInjective(m)
    /\ \A c \in W : InLine(l, c)
    /\ \A c : InLine(m, c) <=> InLine(l, c) /\ c \notin W
    /\ u + t <= b
    /\ b # 0 => \A c : InLine(m, c) => u + t + Weight[c] > b

LEMMA DispatchFacts ==
    ASSUME NEW h, NEW u, NEW r, NEW l, NEW s, NEW p, Pooled(h, u, r, l, s, p, limit),
           DispatchPermits(h, u, r, l, s, p)
    PROVE  \E W, t, m : Splits(W, t, m, l, u, limit) /\ Dispatches(W, t, m, h, u, r, s, p)
<1> DEFINE done == IF NoPool THEN [inUse |-> u, who |-> {}, line |-> l] ELSE Served(l, u)
           W == done.who
           t == done.inUse - u
           m == done.line
<1>1. limit \in Nat
  BY DeclaredNat DEF Pooled
<1>2. u \in Nat /\ r \in Nat /\ l \in Seq(Caller) /\ IsInjective(l) /\ u <= limit
  BY DEF Pooled, PermitTyped, Counted
<1>3. Splits(W, t, m, l, u, limit) /\ done.inUse = u + t
  <2>1. CASE NoPool
    <3>1. W = {} /\ t = 0 /\ m = l /\ done.inUse = u
      BY <1>2, <2>1
    <3> HIDE DEF done
    <3> QED
      BY <1>1, <1>2, <2>1, <3>1, NoPermits DEF Splits, NoPool
  <2>2. CASE ~NoPool
    <3>1. done = Served(l, u)
      BY <2>2
    <3> HIDE DEF done
    <3>2. Turned(done, l, Len(l), u)
      BY <1>1, <1>2, <3>1, ServedFacts
    <3>3. /\ done.inUse \in Nat /\ W \in SUBSET Caller /\ m \in Seq(Caller)
          /\ IsInjective(m) /\ IsFiniteSet(Tickets(W))
          /\ done.inUse = u + Permits(W) /\ done.inUse <= limit
      BY <3>2 DEF Turned
    <3>4. Permits(W) \in Nat
      BY <3>3, PermitsType
    <3>5. t = Permits(W) /\ done.inUse = u + t
      BY <1>2, <3>3, <3>4
    <3>6. \A c : InLine(l, c) <=> (c \in W \/ InLine(m, c))
      BY <3>2 DEF Turned, InLine
    <3>7. \A c : ~(c \in W /\ InLine(m, c))
      BY <3>2 DEF Turned
    <3>8. \A c : InLine(m, c) => done.inUse + Weight[c] > limit
      BY <3>2 DEF Turned
    <3> HIDE DEF W, t, m
    <3> QED
      BY <3>3, <3>4, <3>5, <3>6, <3>7, <3>8 DEF Splits
  <2> QED
    BY <2>1, <2>2
<1>4. Dispatches(W, t, m, h, u, r, s, p)
  BY <1>3 DEF DispatchPermits, Dispatches
<1> QED
  BY <1>3, <1>4

\* dispatchPermits gives back a pool whose counters agree with its calls.
LEMMA DispatchPools ==
    ASSUME NEW h, NEW u, NEW r, NEW l, NEW s, NEW p, Pooled(h, u, r, l, s, p, limit),
           DispatchPermits(h, u, r, l, s, p),
           aborted' \in [Caller -> BOOLEAN], watchers \subseteq Watcher
    PROVE  PoolInv'
<1>1. PICK W, t, m : Splits(W, t, m, l, u, limit) /\ Dispatches(W, t, m, h, u, r, s, p)
  BY DispatchFacts
<1>2. /\ h \in SUBSET Caller /\ u \in Nat /\ r \in Nat /\ limit \in Nat
      /\ s \in [Caller -> SessionState] /\ p \in [Caller -> PC]
  BY DeclaredNat DEF Pooled, PermitTyped
<1>3. /\ IsFiniteSet(Tickets(h)) /\ IsFiniteSet(Tickets(Promised(s)))
      /\ r = Permits(Promised(s)) /\ u = Permits(h) + r /\ u <= limit
      /\ \A c \in h : Limit[c] = limit
  BY DEF Pooled, Counted
<1>4. \A c \in Caller : /\ c \in h <=> p[c] \in {"granted", "held"}
                        /\ InLine(l, c) <=> s[c] = "queued"
  BY DEF Pooled, Known
<1>5. /\ W \in SUBSET Caller /\ IsFiniteSet(Tickets(W)) /\ t = Permits(W) /\ t \in Nat /\ u + t <= limit
      /\ m \in Seq(Caller) /\ IsInjective(m)
  BY <1>1 DEF Splits
<1>6. /\ \A c \in W : InLine(l, c)
      /\ \A c : InLine(m, c) <=> InLine(l, c) /\ c \notin W
  BY <1>1 DEF Splits
<1>7. /\ holders' = h /\ permitLine' = m /\ reservedPermits' = r + t
      /\ session' = [c \in Caller |-> IF c \in W THEN "reserved" ELSE s[c]]
      /\ pc' = [c \in Caller |-> IF c \in W /\ p[c] = "paused" THEN "woken" ELSE p[c]]
  BY <1>1 DEF Dispatches
<1>8. IF h = {} /\ r + t = 0 THEN limit' = 0 /\ inUse' = 0 /\ watchers' = {}
                             ELSE limit' = limit /\ inUse' = u + t /\ watchers' = watchers
  BY <1>1 DEF Dispatches
<1>9. /\ session' \in [Caller -> SessionState] /\ pc' \in [Caller -> PC]
      /\ \A c \in Caller : /\ session'[c] = IF c \in W THEN "reserved" ELSE s[c]
                           /\ pc'[c] \in {"granted", "held"} <=> p[c] \in {"granted", "held"}
  BY <1>2, <1>7 DEF PC, SessionState
<1>10. Known(holders', permitLine', session', pc')
  BY <1>4, <1>6, <1>7, <1>9 DEF Known
<1>11. Promised(session') = Promised(s) \cup W /\ Promised(s) \cap W = {}
  BY <1>4, <1>5, <1>6, <1>9 DEF Promised
<1>12. IsFiniteSet(Tickets(Promised(session'))) /\ r + t = Permits(Promised(session'))
  BY <1>3, <1>5, <1>11, PermitsUnion
<1>13. Permits(h) \in Nat
  BY <1>3, PermitsType
<1>14. CASE h = {} /\ r + t = 0
  <2>1. limit' = 0 /\ inUse' = 0 /\ watchers' = {}
    BY <1>8, <1>14
  <2>2. Permits(h) = 0
    BY <1>14, NoPermits
  <2>3. Promised(session') \in SUBSET Caller
    BY DEF Promised
  <2>4. Promised(session') = {}
    BY <1>12, <1>14, <2>3, PermitsZero
  <2>5. Counted(holders', inUse', reservedPermits', session', limit')
    BY <1>3, <1>7, <1>12, <1>14, <2>1, <2>2 DEF Counted
  <2>6. PermitTyped(holders', inUse', reservedPermits', permitLine', session', pc')
    BY <1>2, <1>5, <1>7, <1>9, <2>1 DEF PermitTyped
  <2>7. Declared(limit')
    BY <2>1 DEF Declared
  <2> QED
    BY <1>7, <1>10, <1>14, <2>1, <2>4, <2>5, <2>6, <2>7, PoolFolded
<1>15. CASE ~(h = {} /\ r + t = 0)
  <2>1. limit' = limit /\ inUse' = u + t /\ watchers' = watchers
    BY <1>8, <1>15
  <2>2. Counted(holders', inUse', reservedPermits', session', limit')
    <3>1. u + t = Permits(h) + (r + t)
      BY <1>2, <1>3, <1>5, <1>13
    <3> QED
      BY <1>3, <1>5, <1>7, <1>12, <2>1, <3>1 DEF Counted
  <2>3. PermitTyped(holders', inUse', reservedPermits', permitLine', session', pc')
    BY <1>2, <1>5, <1>7, <1>9, <2>1 DEF PermitTyped
  <2>4. Declared(limit')
    BY <2>1 DEF Pooled
  <2>5. limit' # 0
    <3> SUFFICES ASSUME limit = 0 PROVE FALSE
      BY <2>1
    <3>1. Permits(h) = 0 /\ r + t = 0
      BY <1>2, <1>3, <1>5, <1>13
    <3>2. h = {}
      BY <1>2, <1>3, <3>1, PermitsZero
    <3> QED
      BY <1>15, <3>1, <3>2
  <2>6. ~(holders' = {} /\ Promised(session') = {})
    BY <1>7, <1>12, <1>15, NoPermits
  <2> QED
    BY <1>10, <2>1, <2>2, <2>3, <2>4, <2>5, <2>6, PoolFolded
<1> QED
  BY <1>14, <1>15

\* Every call fits in every limit declared for the key.
AllFit == \A c, d \in Caller : Weight[c] <= Limit[d]

\* A call in line or with a reservation still runs its loop, and is awake if permits are reserved for it.
Waits(c, s, p) == /\ s[c] = "queued" => p[c] \in {"paused", "woken", "refused", "leaving"}
                  /\ s[c] = "reserved" => p[c] \in {"woken", "refused", "leaving"}

FitInv == /\ \A c \in Caller : InLine(permitLine, c) => ~NoPool /\ inUse + Weight[c] > limit
          /\ NoPool => watchers = {}
          /\ \A c \in Caller : Waits(c, session, pc)

\* The invariant after a step.
LEMMA FitFolded ==
    ASSUME \A c \in Caller : InLine(permitLine', c) => limit' # 0 /\ inUse' + Weight[c] > limit',
           limit' = 0 => watchers' = {},
           \A c \in Caller : Waits(c, session', pc')
    PROVE  FitInv'
BY DEF FitInv, NoPool, Waits, InLine

\* dispatchPermits leaves nobody in line who fits, and wakes whom it serves.
LEMMA DispatchFits ==
    ASSUME NEW h, NEW u, NEW r, NEW l, NEW s, NEW p, Pooled(h, u, r, l, s, p, limit),
           DispatchPermits(h, u, r, l, s, p),
           AllFit, limit # 0, \A c \in Caller : Waits(c, s, p)
    PROVE  FitInv'
<1>1. PICK W, t, m : Splits(W, t, m, l, u, limit) /\ Dispatches(W, t, m, h, u, r, s, p)
  BY DispatchFacts
<1>2. /\ u \in Nat /\ r \in Nat /\ limit \in Nat /\ t \in Nat
      /\ s \in [Caller -> SessionState] /\ p \in [Caller -> PC]
  BY <1>1, DeclaredNat DEF Pooled, PermitTyped, Splits
<1>3. /\ \A c \in W : InLine(l, c)
      /\ \A c : InLine(m, c) => u + t + Weight[c] > limit
  BY <1>1 DEF Splits
<1>4. \A c \in Caller : InLine(l, c) <=> s[c] = "queued"
  BY DEF Pooled, Known
<1>5. /\ permitLine' = m
      /\ session' = [c \in Caller |-> IF c \in W THEN "reserved" ELSE s[c]]
      /\ pc' = [c \in Caller |-> IF c \in W /\ p[c] = "paused" THEN "woken" ELSE p[c]]
  BY <1>1 DEF Dispatches
<1>6. IF h = {} /\ r + t = 0 THEN limit' = 0 /\ inUse' = 0 /\ watchers' = {}
                             ELSE limit' = limit /\ inUse' = u + t /\ watchers' = watchers
  BY <1>1 DEF Dispatches
<1>7. ASSUME NEW c \in Caller PROVE Waits(c, session', pc')
  <2>1. /\ session'[c] = IF c \in W THEN "reserved" ELSE s[c]
        /\ pc'[c] = IF c \in W /\ p[c] = "paused" THEN "woken" ELSE p[c]
    BY <1>5
  <2> QED
    BY <1>3, <1>4, <2>1 DEF Waits
<1>8. limit' = 0 => watchers' = {}
  BY <1>6
<1>9. ASSUME NEW c \in Caller, InLine(permitLine', c)
      PROVE  limit' # 0 /\ inUse' + Weight[c] > limit'
  <2>1. u + t + Weight[c] > limit
    BY <1>3, <1>5, <1>9
  <2>2. ~(h = {} /\ r + t = 0)
    <3> SUFFICES ASSUME h = {}, r + t = 0 PROVE FALSE
      OBVIOUS
    <3>1. u = 0 /\ t = 0
      BY <1>2, NoPermits DEF Pooled, Counted
    <3>2. PICK d \in Caller : limit = Limit[d]
      BY DEF Pooled, Declared
    <3>3. Weight[c] <= limit /\ Weight[c] \in Nat
      BY <3>2, PermitAssumption DEF AllFit
    <3> QED
      BY <1>2, <2>1, <3>1, <3>3
  <2> QED
    BY <1>6, <2>1, <2>2
<1> QED
  BY <1>7, <1>8, <1>9, FitFolded
-----------------------------------------------------------------------------
(* The store's helpers *)

\* The invariant, part by part.
LEMMA PoolUnfolded ==
    ASSUME PoolInv
    PROVE  /\ holders \in SUBSET Caller /\ inUse \in Nat /\ reservedPermits \in Nat /\ limit \in Nat
           /\ permitLine \in Seq(Caller) /\ IsInjective(permitLine)
           /\ session \in [Caller -> SessionState] /\ pc \in [Caller -> PC]
           /\ IsFiniteSet(Tickets(holders)) /\ IsFiniteSet(Tickets(Promised(session)))
           /\ Permits(holders) \in Nat /\ reservedPermits = Permits(Promised(session))
           /\ inUse = Permits(holders) + reservedPermits /\ inUse <= limit
           /\ \A c \in holders : Limit[c] = limit
           /\ \A c \in Caller : /\ c \in holders <=> pc[c] \in {"granted", "held"}
                                /\ InLine(permitLine, c) <=> session[c] = "queued"
           /\ Declared(limit)
           /\ limit = 0 <=> holders = {} /\ Promised(session) = {}
           /\ aborted \in [Caller -> BOOLEAN] /\ watchers \subseteq Watcher
<1>1. Permits(holders) \in Nat
  BY PermitsType DEF PoolInv, Pooled, Counted
<1>2. limit \in Nat
  BY DeclaredNat DEF PoolInv, Pooled
<1> QED
  BY <1>1, <1>2 DEF PoolInv, Pooled, PermitTyped, Counted, Known, NoPool

\* A session that changes for one call changes the calls with a reservation by that call.
LEMMA PromisedChange ==
    ASSUME NEW s \in [Caller -> SessionState], NEW c \in Caller, NEW v \in SessionState,
           IsFiniteSet(Tickets(Promised(s)))
    PROVE  LET n == [s EXCEPT ![c] = v] IN
           /\ IsFiniteSet(Tickets(Promised(n)))
           /\ (s[c] = "reserved" <=> v = "reserved") => Promised(n) = Promised(s)
           /\ s[c] # "reserved" /\ v = "reserved" => Permits(Promised(n)) = Permits(Promised(s)) + Weight[c]
           /\ s[c] = "reserved" /\ v # "reserved" =>
                /\ Permits(Promised(n)) = Permits(Promised(s)) - Weight[c]
                /\ Permits(Promised(s)) >= Weight[c]
<1> DEFINE n == [s EXCEPT ![c] = v]
<1>1. n[c] = v /\ \A d \in Caller : d # c => n[d] = s[d]
  OBVIOUS
<1> HIDE DEF n
<1>2. CASE s[c] = "reserved" <=> v = "reserved"
  <2>1. Promised(n) = Promised(s)
    BY <1>1, <1>2 DEF Promised
  <2> QED
    BY <1>2, <2>1 DEF n
<1>3. CASE s[c] # "reserved" /\ v = "reserved"
  <2>1. Promised(n) = Promised(s) \cup {c} /\ c \notin Promised(s)
    BY <1>1, <1>3 DEF Promised
  <2>2. IsFiniteSet(Tickets(Promised(n))) /\ Permits(Promised(n)) = Permits(Promised(s)) + Weight[c]
    BY <2>1, PermitsAdd
  <2> QED
    BY <1>3, <2>2 DEF n
<1>4. CASE s[c] = "reserved" /\ v # "reserved"
  <2>1. Promised(n) = Promised(s) \ {c} /\ c \in Promised(s)
    BY <1>1, <1>4 DEF Promised
  <2>2. /\ IsFiniteSet(Tickets(Promised(n))) /\ Permits(Promised(n)) = Permits(Promised(s)) - Weight[c]
        /\ Permits(Promised(s)) >= Weight[c]
    BY <2>1, PermitsRemove
  <2> QED
    BY <1>4, <2>2 DEF n
<1> QED
  BY <1>2, <1>3, <1>4

\* Whoever does not fit fits no better when a more permits are taken.
LEMMA FitsNoBetter ==
    ASSUME NEW u \in Nat, NEW a \in Nat, NEW w \in Nat, NEW n \in Nat, u + w > n
    PROVE  (u + a) + w > n
OBVIOUS

\* Closing c's session, whether or not it waits, leaves a pool to dispatch.
LEMMA ClosePools ==
    ASSUME PoolInv, NEW c \in Caller, NEW q \in PC, q \in {"granted", "held"} <=> Holds(c), NEW b,
           b = IF session[c] = "reserved" THEN Weight[c] ELSE 0
    PROVE  Pooled(holders, inUse - b, reservedPermits - b, Without(permitLine, c),
                  [session EXCEPT ![c] = "none"], [pc EXCEPT ![c] = q], limit)
<1> DEFINE s == [session EXCEPT ![c] = "none"]
           p == [pc EXCEPT ![c] = q]
           l == Without(permitLine, c)
<1>1. /\ holders \in SUBSET Caller /\ inUse \in Nat /\ reservedPermits \in Nat /\ limit \in Nat
      /\ permitLine \in Seq(Caller) /\ IsInjective(permitLine)
      /\ session \in [Caller -> SessionState] /\ pc \in [Caller -> PC]
  BY PoolUnfolded
<1>2. /\ IsFiniteSet(Tickets(holders)) /\ IsFiniteSet(Tickets(Promised(session)))
      /\ Permits(holders) \in Nat /\ reservedPermits = Permits(Promised(session))
      /\ inUse = Permits(holders) + reservedPermits /\ inUse <= limit
      /\ \A d \in holders : Limit[d] = limit
  BY PoolUnfolded
<1>3. \A d \in Caller : /\ d \in holders <=> pc[d] \in {"granted", "held"}
                        /\ InLine(permitLine, d) <=> session[d] = "queued"
  BY PoolUnfolded
<1>4. Weight[c] \in Nat /\ b \in Nat
  BY PermitAssumption
<1>5. /\ l \in Seq(Caller) /\ IsInjective(l)
      /\ \A d : InLine(l, d) <=> InLine(permitLine, d) /\ d # c
  BY <1>1, WithoutFacts
<1>6. /\ s \in [Caller -> SessionState] /\ p \in [Caller -> PC]
      /\ s[c] = "none" /\ p[c] = q
      /\ \A d \in Caller : d # c => s[d] = session[d] /\ p[d] = pc[d]
  BY <1>1 DEF SessionState
<1>7. /\ IsFiniteSet(Tickets(Promised(s)))
      /\ Permits(Promised(s)) = reservedPermits - b /\ b <= reservedPermits
  <2>1. "none" \in SessionState /\ "none" # "reserved"
    BY DEF SessionState
  <2>2. /\ IsFiniteSet(Tickets(Promised(s)))
        /\ session[c] # "reserved" => Promised(s) = Promised(session)
        /\ session[c] = "reserved" => /\ Permits(Promised(s)) = Permits(Promised(session)) - Weight[c]
                                      /\ Permits(Promised(session)) >= Weight[c]
    BY <1>1, <1>2, <2>1, PromisedChange
  <2> HIDE DEF s
  <2>3. CASE session[c] = "reserved"
    BY <1>1, <1>2, <1>4, <2>2, <2>3
  <2>4. CASE session[c] # "reserved"
    BY <1>1, <1>2, <1>4, <2>2, <2>4
  <2> QED
    BY <2>3, <2>4
<1> HIDE DEF s, p, l
<1>8. /\ reservedPermits - b \in Nat /\ inUse - b \in Nat /\ inUse - b <= limit
      /\ inUse - b = Permits(holders) + (reservedPermits - b)
  <2>1. /\ Permits(holders) \in Nat /\ reservedPermits \in Nat /\ inUse \in Nat /\ limit \in Nat /\ b \in Nat
        /\ inUse = Permits(holders) + reservedPermits /\ inUse <= limit /\ b <= reservedPermits
    BY <1>1, <1>2, <1>4, <1>7
  <2> QED
    BY <2>1
<1>9. Known(holders, l, s, p)
  BY <1>3, <1>5, <1>6 DEF Known, Holds
<1>10. Counted(holders, inUse - b, reservedPermits - b, s, limit)
  BY <1>2, <1>7, <1>8 DEF Counted
<1>11. PermitTyped(holders, inUse - b, reservedPermits - b, l, s, p)
  BY <1>1, <1>5, <1>6, <1>8 DEF PermitTyped
<1> QED
  BY <1>9, <1>10, <1>11, PoolUnfolded DEF Pooled, s, p, l

LEMMA CloseKeepsPool ==
    ASSUME PoolInv, NEW c \in Caller, NEW q \in PC, q \in {"granted", "held"} <=> Holds(c),
           PermitClose(c, [pc EXCEPT ![c] = q]), aborted' \in [Caller -> BOOLEAN]
    PROVE  PoolInv'
<1> DEFINE b == IF session[c] = "reserved" THEN Weight[c] ELSE 0
           s == [session EXCEPT ![c] = "none"]
           p == [pc EXCEPT ![c] = q]
<1>1. Pooled(holders, inUse - b, reservedPermits - b, Without(permitLine, c), s, p, limit)
  BY ClosePools
<1>2. watchers \subseteq Watcher
  BY DEF PoolInv
<1>3. CASE session[c] \in {"queued", "reserved"}
  <2>1. DispatchPermits(holders, inUse - b, reservedPermits - b, Without(permitLine, c), s, p)
    BY <1>3 DEF PermitClose
  <2> HIDE DEF b, s, p
  <2> QED
    BY <1>1, <1>2, <2>1, DispatchPools
<1>4. CASE session[c] \notin {"queued", "reserved"}
  <2>1. session' = s /\ pc' = p /\ UNCHANGED <<permitStore, watchers>>
    BY <1>4 DEF PermitClose
  <2>2. b = 0 /\ inUse \in Nat /\ reservedPermits \in Nat /\ ~InLine(permitLine, c)
    BY <1>4, PoolUnfolded
  <2>3. Without(permitLine, c) = permitLine
    BY <2>2 DEF Without, InLine
  <2>4. inUse - b = inUse /\ reservedPermits - b = reservedPermits
    BY <2>2
  <2>5. Promised(s) = Promised(session)
    BY <1>4, PoolUnfolded DEF Promised, SessionState
  <2> HIDE DEF b, s, p
  <2>6. Pooled(holders', inUse', reservedPermits', permitLine', session', pc', limit')
    BY <1>1, <2>1, <2>3, <2>4 DEF permitStore
  <2>7. limit' = 0 <=> holders' = {} /\ Promised(session') = {}
    BY <2>1, <2>5, PoolUnfolded DEF permitStore
  <2> QED
    BY <1>2, <2>1, <2>6, <2>7, PoolFolded DEF Pooled, permitStore
<1> QED
  BY <1>3, <1>4

LEMMA CloseKeepsFit ==
    ASSUME AllFit, PoolInv, FitInv, NEW c \in Caller, NEW q \in PC, q \in {"granted", "held"} <=> Holds(c),
           PermitClose(c, [pc EXCEPT ![c] = q])
    PROVE  FitInv'
<1> DEFINE b == IF session[c] = "reserved" THEN Weight[c] ELSE 0
           s == [session EXCEPT ![c] = "none"]
           p == [pc EXCEPT ![c] = q]
<1>1. Pooled(holders, inUse - b, reservedPermits - b, Without(permitLine, c), s, p, limit)
  BY ClosePools
<1>2. \A d \in Caller : Waits(d, s, p)
  BY PoolUnfolded DEF FitInv, Waits, SessionState
<1>3. CASE session[c] \in {"queued", "reserved"}
  <2>1. DispatchPermits(holders, inUse - b, reservedPermits - b, Without(permitLine, c), s, p)
    BY <1>3 DEF PermitClose
  <2>2. limit # 0
    <3>1. CASE session[c] = "queued"
      BY <3>1, PoolUnfolded DEF FitInv, NoPool
    <3>2. CASE session[c] = "reserved"
      BY <3>2, PoolUnfolded DEF Promised
    <3> QED
      BY <1>3, <3>1, <3>2
  <2> HIDE DEF b, s, p
  <2> QED
    BY <1>1, <1>2, <2>1, <2>2, DispatchFits
<1>4. CASE session[c] \notin {"queued", "reserved"}
  <2>1. session' = s /\ pc' = p /\ UNCHANGED <<permitStore, watchers>>
    BY <1>4 DEF PermitClose
  <2> HIDE DEF b, s, p
  <2> QED
    BY <1>2, <2>1, FitFolded DEF FitInv, permitStore, NoPool
<1> QED
  BY <1>3, <1>4

\* A hold that is given back leaves a pool to dispatch.
LEMMA GoPools ==
    ASSUME PoolInv, NEW c \in Caller, Holds(c), NEW q \in PC, q \notin {"granted", "held"}
    PROVE  /\ Pooled(holders \ {c}, inUse - Weight[c], reservedPermits, permitLine, session,
                     [pc EXCEPT ![c] = q], limit)
           /\ limit # 0
<1> DEFINE p == [pc EXCEPT ![c] = q]
           h == holders \ {c}
<1>1. /\ holders \in SUBSET Caller /\ inUse \in Nat /\ reservedPermits \in Nat /\ limit \in Nat
      /\ permitLine \in Seq(Caller) /\ IsInjective(permitLine)
      /\ session \in [Caller -> SessionState] /\ pc \in [Caller -> PC]
  BY PoolUnfolded
<1>2. /\ IsFiniteSet(Tickets(holders)) /\ IsFiniteSet(Tickets(Promised(session)))
      /\ Permits(holders) \in Nat /\ reservedPermits = Permits(Promised(session))
      /\ inUse = Permits(holders) + reservedPermits /\ inUse <= limit
      /\ \A d \in holders : Limit[d] = limit
  BY PoolUnfolded
<1>3. \A d \in Caller : /\ d \in holders <=> pc[d] \in {"granted", "held"}
                        /\ InLine(permitLine, d) <=> session[d] = "queued"
  BY PoolUnfolded
<1>4. c \in holders /\ limit # 0
  BY <1>3, PoolUnfolded DEF Holds
<1>5. Weight[c] \in Nat
  BY PermitAssumption
<1>6. /\ IsFiniteSet(Tickets(h)) /\ Permits(h) \in Nat
      /\ Permits(h) = Permits(holders) - Weight[c] /\ Permits(holders) >= Weight[c]
  BY <1>2, <1>4, PermitsRemove
<1>7. p \in [Caller -> PC] /\ p[c] = q /\ \A d \in Caller : d # c => p[d] = pc[d]
  BY <1>1
<1>8. h \in SUBSET Caller /\ \A d : d \in h <=> d \in holders /\ d # c
  BY <1>1
<1> HIDE DEF p, h
<1>9. inUse - Weight[c] \in Nat /\ inUse - Weight[c] = Permits(h) + reservedPermits /\ inUse - Weight[c] <= limit
  <2>1. /\ inUse \in Nat /\ reservedPermits \in Nat /\ limit \in Nat /\ Permits(holders) \in Nat
        /\ inUse = Permits(holders) + reservedPermits /\ inUse <= limit
    BY <1>1, <1>2
  <2> QED
    BY <1>5, <1>6, <2>1
<1>10. Known(h, permitLine, session, p)
  BY <1>3, <1>7, <1>8 DEF Known
<1>11. Counted(h, inUse - Weight[c], reservedPermits, session, limit)
  BY <1>2, <1>6, <1>8, <1>9 DEF Counted
<1>12. PermitTyped(h, inUse - Weight[c], reservedPermits, permitLine, session, p)
  BY <1>1, <1>7, <1>8, <1>9 DEF PermitTyped
<1> QED
  BY <1>4, <1>10, <1>11, <1>12, PoolUnfolded DEF Pooled, p, h

LEMMA GoKeepsPool ==
    ASSUME PoolInv, NEW c \in Caller, Holds(c), NEW q \in PC, q \notin {"granted", "held"},
           DispatchPermits(holders \ {c}, inUse - Weight[c], reservedPermits, permitLine, session,
                           [pc EXCEPT ![c] = q]),
           UNCHANGED aborted
    PROVE  PoolInv' /\ (AllFit /\ FitInv => FitInv')
<1> DEFINE p == [pc EXCEPT ![c] = q]
<1>1. Pooled(holders \ {c}, inUse - Weight[c], reservedPermits, permitLine, session, p, limit) /\ limit # 0
  BY GoPools
<1>2. aborted' \in [Caller -> BOOLEAN] /\ watchers \subseteq Watcher
  BY DEF PoolInv
<1>3. FitInv => \A d \in Caller : Waits(d, session, p)
  BY PoolUnfolded DEF FitInv, Waits, Holds
<1> HIDE DEF p
<1>4. PoolInv'
  BY <1>1, <1>2, DispatchPools DEF p
<1>5. ASSUME AllFit, FitInv PROVE FitInv'
  BY <1>1, <1>3, <1>5, DispatchFits DEF p
<1> QED
  BY <1>4, <1>5
-----------------------------------------------------------------------------
(* The steps *)

\* c moves on in its loop and the store is left alone.
LEMMA MoveKeepsPool ==
    ASSUME PoolInv, NEW c \in Caller, NEW q \in PC, q \in {"granted", "held"} <=> Holds(c),
           NEW v \in SessionState, v = "queued" <=> session[c] = "queued",
           v = "reserved" <=> session[c] = "reserved",
           pc' = [pc EXCEPT ![c] = q], session' = [session EXCEPT ![c] = v],
           UNCHANGED <<permitStore, watchers>>, aborted' \in [Caller -> BOOLEAN]
    PROVE  PoolInv' /\ (FitInv /\ Waits(c, session', pc') => FitInv')
<1>1. /\ session' \in [Caller -> SessionState] /\ pc' \in [Caller -> PC]
      /\ session'[c] = v /\ pc'[c] = q
      /\ \A d \in Caller : d # c => session'[d] = session[d] /\ pc'[d] = pc[d]
  BY PoolUnfolded
<1>2. Promised(session') = Promised(session)
  BY <1>1 DEF Promised
<1>3. Known(holders', permitLine', session', pc')
  BY <1>1, PoolUnfolded DEF Known, permitStore, Holds
<1>4. Counted(holders', inUse', reservedPermits', session', limit')
  BY <1>2 DEF PoolInv, Pooled, Counted, permitStore
<1>5. PermitTyped(holders', inUse', reservedPermits', permitLine', session', pc')
  BY <1>1, PoolUnfolded DEF PermitTyped, permitStore
<1>6. /\ limit' = 0 <=> holders' = {} /\ Promised(session') = {}
      /\ Declared(limit') /\ watchers' \subseteq Watcher
  BY <1>2, PoolUnfolded DEF permitStore
<1>7. PoolInv'
  BY <1>3, <1>4, <1>5, <1>6, PoolFolded
<1>8. ASSUME FitInv, Waits(c, session', pc') PROVE FitInv'
  <2>1. \A d \in Caller : Waits(d, session', pc')
    BY <1>1, <1>8 DEF FitInv, Waits
  <2> QED
    BY <1>8, <2>1, FitFolded DEF FitInv, permitStore, NoPool
<1> QED
  BY <1>7, <1>8

\* c joins the line.
LEMMA JoinKeepsPool ==
    ASSUME PoolInv, NEW c \in Caller, session[c] \in {"none", "idle"}, ~Holds(c),
           NEW q \in PC, q \notin {"granted", "held"},
           pc' = [pc EXCEPT ![c] = q], session' = [session EXCEPT ![c] = "queued"],
           permitLine' = Append(permitLine, c), UNCHANGED <<aborted, watchers, pool>>
    PROVE  /\ PoolInv'
           /\ FitInv /\ q \in {"paused", "woken", "refused"} /\ limit # 0 /\ inUse + Weight[c] > limit => FitInv'
<1>1. /\ session' \in [Caller -> SessionState] /\ pc' \in [Caller -> PC]
      /\ session'[c] = "queued" /\ pc'[c] = q
      /\ \A d \in Caller : d # c => session'[d] = session[d] /\ pc'[d] = pc[d]
  BY PoolUnfolded DEF SessionState
<1>2. Promised(session') = Promised(session)
  BY <1>1 DEF Promised
<1>3. /\ permitLine' \in Seq(Caller) /\ IsInjective(permitLine')
      /\ \A d : InLine(permitLine', d) <=> InLine(permitLine, d) \/ d = c
  BY PoolUnfolded, AppendFacts
<1>4. Known(holders', permitLine', session', pc')
  BY <1>1, <1>3, PoolUnfolded DEF Known, pool, Holds
<1>5. Counted(holders', inUse', reservedPermits', session', limit')
  BY <1>2 DEF PoolInv, Pooled, Counted, pool
<1>6. PermitTyped(holders', inUse', reservedPermits', permitLine', session', pc')
  BY <1>1, <1>3, PoolUnfolded DEF PermitTyped, pool
<1>7. /\ limit' = 0 <=> holders' = {} /\ Promised(session') = {}
      /\ Declared(limit') /\ watchers' \subseteq Watcher /\ aborted' \in [Caller -> BOOLEAN]
  BY <1>2, PoolUnfolded DEF pool
<1>8. PoolInv'
  BY <1>4, <1>5, <1>6, <1>7, PoolFolded
<1>9. ASSUME FitInv, q \in {"paused", "woken", "refused"}, limit # 0, inUse + Weight[c] > limit PROVE FitInv'
  <2>1. \A d \in Caller : Waits(d, session', pc')
    BY <1>1, <1>9 DEF FitInv, Waits
  <2> QED
    BY <1>3, <1>9, <2>1, FitFolded DEF FitInv, pool, NoPool
<1> QED
  BY <1>8, <1>9

\* Permits are reserved for c before it goes to sleep.
LEMMA ReserveKeepsPool ==
    ASSUME PoolInv, NEW c \in Caller, session[c] = "none", ~Holds(c), limit # 0, inUse + Weight[c] <= limit,
           pc' = [pc EXCEPT ![c] = "woken"], session' = [session EXCEPT ![c] = "reserved"],
           inUse' = inUse + Weight[c], reservedPermits' = reservedPermits + Weight[c],
           UNCHANGED <<aborted, watchers, limit, holders, permitLine>>
    PROVE  PoolInv' /\ (FitInv => FitInv')
<1>0. Weight[c] \in Nat
  BY PermitAssumption
<1>1. /\ session' \in [Caller -> SessionState] /\ pc' \in [Caller -> PC]
      /\ session'[c] = "reserved" /\ pc'[c] = "woken"
      /\ \A d \in Caller : d # c => session'[d] = session[d] /\ pc'[d] = pc[d]
  BY PoolUnfolded DEF SessionState, PC
<1>2. IsFiniteSet(Tickets(Promised(session'))) /\ Permits(Promised(session')) = reservedPermits + Weight[c]
  <2>1. "reserved" \in SessionState /\ session \in [Caller -> SessionState] /\ IsFiniteSet(Tickets(Promised(session)))
    BY PoolUnfolded DEF SessionState
  <2> QED
    BY <2>1, PromisedChange, PoolUnfolded
<1>3. Known(holders', permitLine', session', pc')
  BY <1>1, PoolUnfolded DEF Known, Holds
<1>4. /\ inUse + Weight[c] \in Nat /\ reservedPermits + Weight[c] \in Nat
      /\ inUse + Weight[c] = Permits(holders) + (reservedPermits + Weight[c])
  <2>1. /\ inUse \in Nat /\ reservedPermits \in Nat /\ Permits(holders) \in Nat
        /\ inUse = Permits(holders) + reservedPermits
    BY PoolUnfolded
  <2> QED
    BY <1>0, <2>1
<1>5. Counted(holders', inUse', reservedPermits', session', limit')
  BY <1>2, <1>4, PoolUnfolded DEF Counted
<1>6. PermitTyped(holders', inUse', reservedPermits', permitLine', session', pc')
  BY <1>1, <1>4, PoolUnfolded DEF PermitTyped
<1>7. c \in Promised(session')
  BY <1>1 DEF Promised
<1>8. PoolInv'
  BY <1>3, <1>5, <1>6, <1>7, PoolUnfolded, PoolFolded
<1>9. ASSUME FitInv PROVE FitInv'
  <2>1. \A d \in Caller : Waits(d, session', pc')
    BY <1>1, <1>9 DEF FitInv, Waits
  <2>2. ASSUME NEW d \in Caller, InLine(permitLine, d) PROVE inUse' + Weight[d] > limit
    <3>1. inUse + Weight[d] > limit /\ Weight[d] \in Nat
      BY <1>9, <2>2, PermitAssumption DEF FitInv
    <3>2. inUse \in Nat /\ limit \in Nat
      BY PoolUnfolded
    <3> QED
      BY <1>0, <3>1, <3>2, FitsNoBetter
  <2> QED
    BY <2>1, <2>2, FitFolded
<1> QED
  BY <1>8, <1>9

\* A grant redeems a reservation or finds room: the pool counts the hold.
LEMMA GrantKeepsPool ==
    ASSUME PoolInv, NEW c \in Caller, PermitGrant(c)
    PROVE  PoolInv' /\ (FitInv => FitInv')
<1>0. Weight[c] \in Nat \ {0} /\ Limit[c] \in Nat \ {0}
  BY PermitAssumption
<1>1. /\ pc[c] \in {"idle", "woken"} /\ ~(limit # 0 /\ limit # Limit[c])
      /\ holders' = holders \cup {c} /\ pc' = [pc EXCEPT ![c] = "granted"]
      /\ UNCHANGED <<aborted, permitLine, watchers>>
  BY DEF PermitGrant, MayAttempt, WrongLimit, NoPool
<1>2. /\ pc' \in [Caller -> PC] /\ pc'[c] = "granted"
      /\ \A d \in Caller : d # c => pc'[d] = pc[d]
  BY <1>1, PoolUnfolded DEF PC
<1>3. c \notin holders /\ holders' \in SUBSET Caller /\ holders' # {}
  BY <1>1, PoolUnfolded
<1>4. IsFiniteSet(Tickets(holders')) /\ Permits(holders') = Permits(holders) + Weight[c]
  BY <1>1, <1>3, PoolUnfolded, PermitsAdd
<1>5. aborted' \in [Caller -> BOOLEAN] /\ watchers' \subseteq Watcher
  BY <1>1, PoolUnfolded
<1>6. CASE PermitRedeems(c)
  <2>1. /\ session[c] = "reserved" /\ limit # 0 /\ limit = Limit[c]
        /\ session' = [session EXCEPT ![c] = "idle"] /\ reservedPermits' = reservedPermits - Weight[c]
        /\ UNCHANGED <<limit, inUse>>
    BY <1>1, <1>6 DEF PermitGrant, PermitRedeems, NoPool
  <2>2. /\ session' \in [Caller -> SessionState] /\ session'[c] = "idle"
        /\ \A d \in Caller : d # c => session'[d] = session[d]
    BY <2>1, PoolUnfolded DEF SessionState
  <2>3. /\ IsFiniteSet(Tickets(Promised(session')))
        /\ Permits(Promised(session')) = Permits(Promised(session)) - Weight[c]
        /\ Permits(Promised(session)) >= Weight[c]
    <3>1. "idle" \in SessionState /\ "idle" # "reserved"
      BY DEF SessionState
    <3>2. session \in [Caller -> SessionState] /\ IsFiniteSet(Tickets(Promised(session)))
      BY PoolUnfolded
    <3> QED
      BY <2>1, <3>1, <3>2, PromisedChange
  <2>4. /\ reservedPermits - Weight[c] \in Nat
        /\ inUse = Permits(holders') + (reservedPermits - Weight[c])
    BY <1>0, <1>4, <2>3, PoolUnfolded
  <2>5. Known(holders', permitLine', session', pc')
    BY <1>1, <1>2, <2>1, <2>2, PoolUnfolded DEF Known
  <2>6. \A d \in holders' : Limit[d] = limit'
    BY <1>1, <2>1, PoolUnfolded
  <2>7. Counted(holders', inUse', reservedPermits', session', limit')
    BY <1>4, <2>1, <2>3, <2>4, <2>6, PoolUnfolded DEF Counted
  <2>8. PermitTyped(holders', inUse', reservedPermits', permitLine', session', pc')
    BY <1>1, <1>2, <1>3, <2>1, <2>2, <2>4, PoolUnfolded DEF PermitTyped
  <2>9. Declared(limit') /\ limit' # 0
    BY <2>1, PoolUnfolded
  <2>10. PoolInv'
    BY <1>3, <1>5, <2>5, <2>7, <2>8, <2>9, PoolFolded
  <2>11. ASSUME FitInv PROVE FitInv'
    <3>1. \A d \in Caller : Waits(d, session', pc')
      BY <1>2, <2>2, <2>11 DEF FitInv, Waits
    <3> QED
      BY <1>1, <2>1, <2>11, <3>1, FitFolded DEF FitInv, NoPool
  <2> QED
    BY <2>10, <2>11
<1>7. CASE ~PermitRedeems(c)
  <2>1. /\ HasRoom(c) /\ inUse' = inUse + Weight[c] /\ limit' = Limit[c]
        /\ UNCHANGED <<session, reservedPermits>>
    BY <1>7 DEF PermitGrant
  <2>2. inUse' <= limit' /\ inUse' \in Nat /\ inUse' = Permits(holders') + reservedPermits'
    BY <1>0, <1>4, <2>1, PoolUnfolded DEF HasRoom
  <2>3. session[c] # "reserved"
    BY <1>7, PoolUnfolded DEF PermitRedeems, NoPool, Promised
  <2>4. Known(holders', permitLine', session', pc')
    BY <1>1, <1>2, <2>1, PoolUnfolded DEF Known
  <2>5. \A d \in holders' : Limit[d] = limit'
    BY <1>1, <2>1, PoolUnfolded
  <2>6. Counted(holders', inUse', reservedPermits', session', limit')
    BY <1>4, <2>1, <2>2, <2>5, PoolUnfolded DEF Counted
  <2>7. PermitTyped(holders', inUse', reservedPermits', permitLine', session', pc')
    BY <1>1, <1>2, <1>3, <2>1, <2>2, PoolUnfolded DEF PermitTyped
  <2>8. Declared(limit') /\ limit' # 0
    BY <1>0, <2>1 DEF Declared
  <2>9. PoolInv'
    BY <1>3, <1>5, <2>4, <2>6, <2>7, <2>8, PoolFolded
  <2>10. ASSUME FitInv PROVE FitInv'
    <3>1. ~InLine(permitLine, c)
      <4> SUFFICES ASSUME InLine(permitLine, c) PROVE FALSE
        OBVIOUS
      <4>1. limit = Limit[c] /\ inUse + Weight[c] > limit
        BY <1>1, <2>10 DEF FitInv, NoPool
      <4> QED
        BY <1>0, <2>1, <4>1, PoolUnfolded DEF HasRoom
    <3>2. \A d \in Caller : Waits(d, session', pc')
      BY <1>2, <2>1, <2>3, <2>10, <3>1, PoolUnfolded DEF FitInv, Waits
    <3>3. ASSUME NEW d \in Caller, InLine(permitLine', d) PROVE inUse' + Weight[d] > limit'
      <4>1. limit' = limit /\ inUse + Weight[d] > limit /\ Weight[d] \in Nat
        BY <1>1, <2>1, <2>10, <3>3, PermitAssumption DEF FitInv, NoPool
      <4>2. inUse \in Nat /\ limit \in Nat /\ Weight[c] \in Nat
        BY <1>0, PoolUnfolded
      <4> QED
        BY <2>1, <4>1, <4>2, FitsNoBetter
    <3> QED
      BY <2>8, <3>2, <3>3, FitFolded
  <2> QED
    BY <2>9, <2>10
<1> QED
  BY <1>6, <1>7

\* A refused call whose session is in no line joins it: it did not fit.
LEMMA RefuseKeepsPool ==
    ASSUME PoolInv, NEW c \in Caller, PermitRefuse(c)
    PROVE  PoolInv' /\ (FitInv => FitInv')
<1>1. /\ pc[c] \in {"idle", "woken"} /\ ~(limit # 0 /\ limit # Limit[c]) /\ ~HasRoom(c)
      /\ QueuePermitRefused(c) /\ pc' = [pc EXCEPT ![c] = "refused"]
      /\ UNCHANGED <<aborted, watchers, pool>>
  BY DEF PermitRefuse, MayAttempt, WrongLimit, NoPool
<1>2. ~Holds(c) /\ "refused" \in PC /\ pc \in [Caller -> PC] /\ session \in [Caller -> SessionState]
  BY <1>1, PoolUnfolded DEF Holds, PC
<1>3. limit # 0 /\ inUse + Weight[c] > limit
  <2>1. Weight[c] \in Nat /\ Limit[c] \in Nat /\ Weight[c] <= Limit[c]
    BY PermitAssumption
  <2>2. inUse + Weight[c] > Limit[c] /\ inUse \in Nat /\ inUse <= limit /\ limit \in Nat
    BY <1>1, <2>1, PoolUnfolded DEF HasRoom
  <2> QED
    BY <1>1, <2>1, <2>2
<1>4. CASE session[c] = "idle"
  <2>1. permitLine' = Append(permitLine, c) /\ session' = [session EXCEPT ![c] = "queued"]
    BY <1>1, <1>4 DEF QueuePermitRefused
  <2> QED
    BY <1>1, <1>2, <1>3, <1>4, <2>1, JoinKeepsPool
<1>5. CASE session[c] # "idle"
  <2>1. UNCHANGED permitStore /\ UNCHANGED <<session, watchers, aborted>>
    BY <1>1, <1>5 DEF QueuePermitRefused, permitStore, pool
  <2>2. session' = [session EXCEPT ![c] = session[c]] /\ session[c] \in SessionState
    BY <1>2, <2>1
  <2>3. pc'[c] = "refused"
    BY <1>1, <1>2
  <2>4. Waits(c, session', pc')
    BY <2>3 DEF Waits
  <2>5. aborted' \in [Caller -> BOOLEAN]
    BY <2>1, PoolUnfolded
  <2> QED
    BY <1>1, <1>2, <2>1, <2>2, <2>4, <2>5, MoveKeepsPool
<1> QED
  BY <1>4, <1>5

\* Going to sleep, with a new session after the first refusal.
LEMMA PauseKeepsPool ==
    ASSUME PoolInv, NEW c \in Caller, PermitPause(c)
    PROVE  PoolInv' /\ (FitInv => FitInv')
<1>1. /\ pc[c] = "refused" /\ UNCHANGED <<aborted, watchers>>
      /\ IF session[c] = "none" THEN NewPermitWaiter(c) ELSE UNCHANGED <<permitStore, session>>
      /\ pc' = [pc EXCEPT ![c] = IF session'[c] = "queued" /\ ~aborted[c] THEN "paused" ELSE "woken"]
  BY DEF PermitPause
<1>2. /\ ~Holds(c) /\ pc \in [Caller -> PC] /\ session \in [Caller -> SessionState]
      /\ aborted' \in [Caller -> BOOLEAN]
      /\ {"paused", "woken"} \subseteq PC /\ {"idle", "queued", "reserved"} \subseteq SessionState
  BY <1>1, PoolUnfolded DEF Holds, PC, SessionState
<1>3. PICK q \in {"paused", "woken"} : pc' = [pc EXCEPT ![c] = q] /\ (session'[c] # "queued" => q = "woken")
  BY <1>1
<1>4. pc'[c] = q
  BY <1>2, <1>3
<1>5. q \in PC /\ q \notin {"granted", "held"}
  BY <1>2
<1>6. CASE session[c] # "none"
  <2>1. UNCHANGED <<permitStore, watchers>> /\ session' = session
    BY <1>1, <1>6
  <2>2. session' = [session EXCEPT ![c] = session[c]] /\ session[c] \in SessionState
    BY <1>2, <2>1
  <2>3. Waits(c, session', pc')
    BY <1>3, <1>4 DEF Waits
  <2> QED
    BY <1>2, <1>3, <1>5, <2>1, <2>2, <2>3, MoveKeepsPool
<1>7. CASE session[c] = "none" /\ NoPool
  <2>1. UNCHANGED <<permitStore, watchers>> /\ session' = [session EXCEPT ![c] = "idle"]
    BY <1>1, <1>7 DEF NewPermitWaiter
  <2>2. Waits(c, session', pc')
    BY <1>3, <1>4 DEF Waits
  <2> QED
    BY <1>2, <1>3, <1>5, <1>7, <2>1, <2>2, MoveKeepsPool
<1>8. CASE session[c] = "none" /\ ~NoPool /\ inUse + Weight[c] <= limit
  <2>1. /\ session' = [session EXCEPT ![c] = "reserved"]
        /\ inUse' = inUse + Weight[c] /\ reservedPermits' = reservedPermits + Weight[c]
        /\ UNCHANGED <<limit, holders, permitLine>>
    <3>1. ~(inUse + Weight[c] > limit)
      <4>1. Weight[c] \in Nat
        BY PermitAssumption
      <4> QED
        BY <1>8, <4>1, PoolUnfolded
    <3> QED
      BY <1>1, <1>8, <3>1 DEF NewPermitWaiter
  <2>2. session'[c] = "reserved"
    BY <1>2, <2>1
  <2>3. q = "woken"
    BY <1>3, <2>2
  <2> QED
    BY <1>1, <1>2, <1>3, <1>8, <2>1, <2>3, ReserveKeepsPool DEF NoPool
<1>9. CASE session[c] = "none" /\ ~NoPool /\ ~(inUse + Weight[c] <= limit)
  <2>1. Weight[c] \in Nat
    BY PermitAssumption
  <2>2. inUse + Weight[c] > limit
    BY <1>9, <2>1, PoolUnfolded
  <2>3. /\ session' = [session EXCEPT ![c] = "queued"]
        /\ permitLine' = Append(permitLine, c) /\ UNCHANGED pool
    BY <1>1, <1>9 DEF NewPermitWaiter
  <2> QED
    BY <1>1, <1>2, <1>3, <1>5, <1>9, <2>2, <2>3, JoinKeepsPool DEF NoPool
<1> QED
  BY <1>6, <1>7, <1>8, <1>9

\* Steps of a call's loop that do not touch the store.
LEMMA LoopKeepsPool ==
    ASSUME PoolInv, NEW c \in Caller, RejectLimit(c) \/ ((Abort(c) \/ PauseTimer(c)) /\ UNCHANGED permitStore)
    PROVE  PoolInv' /\ (FitInv => FitInv')
<1>1. pc \in [Caller -> PC] /\ session \in [Caller -> SessionState] /\ aborted \in [Caller -> BOOLEAN]
  BY PoolUnfolded
<1>2. session' = session /\ UNCHANGED <<permitStore, watchers>> /\ aborted' \in [Caller -> BOOLEAN]
  BY <1>1 DEF RejectLimit, Abort, PauseTimer
<1>3. session' = [session EXCEPT ![c] = session[c]] /\ session[c] \in SessionState
  BY <1>1, <1>2
<1>4. PICK q \in PC : /\ pc' = [pc EXCEPT ![c] = q]
                      /\ q \in {"granted", "held"} <=> Holds(c)
                      /\ q # pc[c] => q \in {"woken", "leaving"}
  BY <1>1 DEF RejectLimit, Abort, PauseTimer, Wake, MayAttempt, Holds, PC
<1>5. pc'[c] = q
  BY <1>1, <1>4
<1>6. FitInv => Waits(c, session', pc')
  BY <1>2, <1>4, <1>5 DEF FitInv, Waits
<1> QED
  BY <1>2, <1>3, <1>4, <1>6, MoveKeepsPool

\* A watcher comes only to a key that is not free, or goes.
LEMMA WatchKeepsPool ==
    ASSUME PoolInv, NEW w \in Watcher, Watch(w, NoPool) \/ StopWatch(w), UNCHANGED permitStore
    PROVE  PoolInv' /\ (FitInv => FitInv')
<1>1. UNCHANGED <<pc, session, aborted, limit, inUse, reservedPermits, holders, permitLine>>
  BY DEF Watch, StopWatch, permitStore
<1>2. watchers' \subseteq Watcher
  BY PoolUnfolded DEF Watch, StopWatch
<1>3. NoPool /\ watchers = {} => watchers' = {}
  BY DEF Watch, StopWatch
<1>4. PoolInv'
  <2>1. /\ PermitTyped(holders', inUse', reservedPermits', permitLine', session', pc')
        /\ Counted(holders', inUse', reservedPermits', session', limit')
        /\ Known(holders', permitLine', session', pc') /\ Declared(limit')
    BY <1>1 DEF PoolInv, Pooled
  <2> QED
    BY <1>1, <1>2, <2>1, PoolFolded, PoolUnfolded
<1>5. FitInv => FitInv'
  BY <1>1, <1>3, FitFolded DEF FitInv, NoPool
<1> QED
  BY <1>4, <1>5

LEMMA PermitInitInv == PermitInit => PoolInv /\ FitInv
<1> SUFFICES ASSUME PermitInit PROVE PoolInv /\ FitInv
  OBVIOUS
<1>1. /\ pc \in [Caller -> PC] /\ session \in [Caller -> SessionState] /\ aborted \in [Caller -> BOOLEAN]
      /\ \A c \in Caller : pc[c] = "idle" /\ session[c] = "none"
      /\ watchers = {}
  BY DEF PermitInit, LoopInit, PC, SessionState
<1>2. limit = 0 /\ inUse = 0 /\ reservedPermits = 0 /\ holders = {} /\ permitLine = <<>>
  BY DEF PermitInit
<1>3. permitLine \in Seq(Caller) /\ IsInjective(permitLine) /\ \A c : ~InLine(permitLine, c)
  BY <1>2 DEF IsInjective, InLine
<1>4. Promised(session) = {}
  BY <1>1 DEF Promised
<1>5. Counted(holders, inUse, reservedPermits, session, limit)
  BY <1>2, <1>4, NoPermits DEF Counted
<1>6. PermitTyped(holders, inUse, reservedPermits, permitLine, session, pc)
  BY <1>1, <1>2, <1>3 DEF PermitTyped
<1>7. Known(holders, permitLine, session, pc) /\ Declared(limit)
  BY <1>1, <1>2, <1>3 DEF Known, Declared
<1>8. PoolInv
  BY <1>1, <1>2, <1>4, <1>5, <1>6, <1>7 DEF PoolInv, Pooled, NoPool
<1>9. FitInv
  BY <1>1, <1>3 DEF FitInv, Waits
<1> QED
  BY <1>8, <1>9

LEMMA PermitNextInv ==
    ASSUME PoolInv, [PermitNext]_permitVars PROVE PoolInv' /\ (AllFit /\ FitInv => FitInv')
<1>1. ASSUME NEW c \in Caller, PermitLand(c) PROVE PoolInv' /\ (AllFit /\ FitInv => FitInv')
  <2>1. /\ "held" \in PC /\ Holds(c) /\ PermitClose(c, [pc EXCEPT ![c] = "held"])
        /\ aborted' \in [Caller -> BOOLEAN]
    BY <1>1, PoolUnfolded DEF PermitLand, Holds, PC
  <2> QED
    BY <2>1, CloseKeepsPool, CloseKeepsFit
<1>2. ASSUME NEW c \in Caller, PermitLeave(c) PROVE PoolInv' /\ (AllFit /\ FitInv => FitInv')
  <2>1. /\ "idle" \in PC /\ ~Holds(c) /\ PermitClose(c, [pc EXCEPT ![c] = "idle"])
        /\ aborted' \in [Caller -> BOOLEAN]
    BY <1>2, PoolUnfolded DEF PermitLeave, MayLeave, Holds, PC
  <2> QED
    BY <2>1, CloseKeepsPool, CloseKeepsFit
<1>3. ASSUME NEW c \in Caller, PermitGiveBack(c) PROVE PoolInv' /\ (AllFit /\ FitInv => FitInv')
  <2>1. "leaving" \in PC /\ Holds(c)
    BY <1>3 DEF PermitGiveBack, Holds, PC
  <2> QED
    BY <1>3, <2>1, GoKeepsPool DEF PermitGiveBack
<1>4. ASSUME NEW c \in Caller, PermitRelease(c) PROVE PoolInv' /\ (AllFit /\ FitInv => FitInv')
  <2>1. "idle" \in PC /\ Holds(c)
    BY <1>4 DEF PermitRelease, Holds, PC
  <2> QED
    BY <1>4, <2>1, GoKeepsPool DEF PermitRelease
<1>5. ASSUME NEW c \in Caller, PermitGrant(c) \/ PermitRefuse(c) \/ PermitPause(c)
      PROVE  PoolInv' /\ (AllFit /\ FitInv => FitInv')
  BY <1>5, GrantKeepsPool, RefuseKeepsPool, PauseKeepsPool
<1>6. ASSUME NEW c \in Caller, RejectLimit(c) \/ ((Abort(c) \/ PauseTimer(c)) /\ UNCHANGED permitStore)
      PROVE  PoolInv' /\ (AllFit /\ FitInv => FitInv')
  BY <1>6, LoopKeepsPool
<1>7. ASSUME NEW w \in Watcher, (Watch(w, NoPool) \/ StopWatch(w)) /\ UNCHANGED permitStore
      PROVE  PoolInv' /\ (AllFit /\ FitInv => FitInv')
  BY <1>7, WatchKeepsPool
<1>8. CASE UNCHANGED permitVars
  <2>1. UNCHANGED <<pc, session, aborted, watchers, limit, inUse, reservedPermits, holders, permitLine>>
    BY <1>8 DEF permitVars
  <2>2. PoolInv'
    <3>1. /\ PermitTyped(holders', inUse', reservedPermits', permitLine', session', pc')
          /\ Counted(holders', inUse', reservedPermits', session', limit')
          /\ Known(holders', permitLine', session', pc') /\ Declared(limit')
      BY <2>1 DEF PoolInv, Pooled
    <3> QED
      BY <2>1, <3>1, PoolFolded, PoolUnfolded
  <2>3. FitInv => FitInv'
    BY <2>1, FitFolded DEF FitInv, NoPool
  <2> QED
    BY <2>2, <2>3
<1>9. CASE \E c \in Caller : \/ PermitGrant(c) \/ PermitRefuse(c) \/ RejectLimit(c) \/ PermitLand(c)
                             \/ PermitGiveBack(c) \/ PermitPause(c) \/ PermitLeave(c) \/ PermitRelease(c)
                             \/ Abort(c) /\ UNCHANGED permitStore
                             \/ PauseTimer(c) /\ UNCHANGED permitStore
  BY <1>1, <1>2, <1>3, <1>4, <1>5, <1>6, <1>9
<1>10. CASE \E w \in Watcher : (Watch(w, NoPool) \/ StopWatch(w)) /\ UNCHANGED permitStore
  BY <1>7, <1>10, Zenon
<1> QED
  BY <1>8, <1>9, <1>10 DEF PermitNext
-----------------------------------------------------------------------------
(* Theorems of the semaphore *)

\* The pool's counters agree with its calls in every reachable state.
THEOREM PoolInvariance == PermitSpec => []PoolInv
<1>1. PermitInit => PoolInv
  BY PermitInitInv
<1>2. PoolInv /\ [PermitNext]_permitVars => PoolInv'
  BY PermitNextInv
<1> QED
  BY <1>1, <1>2, PTL DEF PermitSpec

\* The tables of a semaphore key stay typed: no sequence of grants, reservations and give-backs takes a counter
\* of the pool below zero, or lists a waiter twice.
THEOREM PermitTyping == PermitSpec => []PermitTypeOK
<1>1. PoolInv => PermitTypeOK
  BY PoolUnfolded DEF PermitTypeOK, LoopTypeOK
<1> QED
  BY <1>1, PoolInvariance, PTL

\* The holders of a semaphore key never use more permits than the limit any of them was granted under
\* (permits.acquire), with any weights and limits.
THEOREM WithinCapacity == PermitSpec => []Capacity
<1>1. ASSUME PoolInv PROVE Capacity
  <2>1. holders = {d \in Caller : Holds(d)}
    BY <1>1, PoolUnfolded DEF Holds
  <2>2. ASSUME NEW c \in holders PROVE Permits(holders) <= Limit[c]
    BY <1>1, PoolUnfolded
  <2> QED
    BY <2>1, <2>2 DEF Capacity
<1> QED
  BY <1>1, PoolInvariance, PTL

\* The pool's counters are what its holds and reservations add up to, and the pool lives as long as there is
\* one of either (permits.acquire, dispatchPermits, Session.close): no permit leaks.
THEOREM PoolIsExact == PermitSpec => []CountersAgree
<1>1. ASSUME PoolInv PROVE CountersAgree
  <2>1. holders = {c \in Caller : Holds(c)}
    BY <1>1, PoolUnfolded DEF Holds
  <2>2. Promised(session) = {c \in Caller : session[c] = "reserved"}
    BY DEF Promised
  <2>3. NoPool <=> holders \cup {c \in Caller : session[c] = "reserved"} = {}
    BY <1>1, <2>2, PoolUnfolded DEF NoPool
  <2> QED
    BY <1>1, <2>1, <2>2, <2>3, PoolUnfolded DEF CountersAgree
<1> QED
  BY <1>1, PoolInvariance, PTL

\* "Anyone queued who fits was served by the last release" (memory.ts:400), when every call fits in every limit
\* declared for the key: nobody waits for permits that are free, and permits are reserved only for calls that
\* will take or return them.
THEOREM NobodyWaitsForFreePermits == ASSUME AllFit PROVE PermitSpec => []NoIdleFit
<1>1. PermitInit => PoolInv /\ FitInv
  BY PermitInitInv
<1>2. (PoolInv /\ FitInv) /\ [PermitNext]_permitVars => (PoolInv /\ FitInv)'
  BY PermitNextInv
<1>3. ASSUME PoolInv, FitInv PROVE NoIdleFit
  <2>1. ASSUME NEW i \in 1..Len(permitLine) PROVE permitLine[i] \in Caller /\ InLine(permitLine, permitLine[i])
    BY <1>3, PoolUnfolded DEF InLine
  <2> QED
    BY <1>3, <2>1 DEF FitInv, Waits, NoIdleFit
<1> QED
  BY <1>1, <1>2, <1>3, PTL DEF PermitSpec
=============================================================================
