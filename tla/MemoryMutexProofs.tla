-------------------------- MODULE MemoryMutexProofs --------------------------
(***************************************************************************)
(* Proofs about MemoryMutex, for any number of callers and watchers.       *)
(*                                                                         *)
(* MutualExclusion needs the agreement of the store's table with the       *)
(* callers' program counters (a caller holds exactly when the table names  *)
(* it), and NoSleepOnFree needs the line to contain exactly the queued     *)
(* sessions.  Consistent states both of a table before dispatchMutex has   *)
(* run, since release and close change the table first and dispatch last;  *)
(* IndInv adds what dispatchMutex restores.                                *)
(***************************************************************************)
EXTENDS MemoryMutex, SequenceTheorems, TLAPS

InLine(l, c) == \E i \in 1..Len(l) : l[i] = c
-----------------------------------------------------------------------------
(* The line: joining at the tail, serving the head and leaving from        *)
(* anywhere keep the order and the members of a line without duplicates    *)

\* Joining at the tail: one more element, still no duplicate.
LEMMA AppendFacts ==
    ASSUME NEW S, NEW l \in Seq(S), IsInjective(l), NEW c \in S, ~InLine(l, c)
    PROVE  /\ Append(l, c) \in Seq(S)
           /\ IsInjective(Append(l, c))
           /\ \A d : InLine(Append(l, c), d) <=> InLine(l, d) \/ d = c
<1> DEFINE m == Append(l, c)
<1>1. m \in Seq(S) /\ Len(m) = Len(l) + 1 /\ Len(l) \in Nat
  OBVIOUS
<1>2. /\ \A i \in 1..Len(l) : m[i] = l[i]
      /\ m[Len(l) + 1] = c
  OBVIOUS
<1>3. IsInjective(m)
  BY <1>1, <1>2 DEF IsInjective, InLine
<1>4. \A d : InLine(m, d) <=> InLine(l, d) \/ d = c
  BY <1>1, <1>2 DEF InLine
<1> QED BY <1>1, <1>3, <1>4

\* Serving the head: everyone else stays.
LEMMA TailFacts ==
    ASSUME NEW S, NEW l \in Seq(S), IsInjective(l), l # <<>>
    PROVE  /\ Head(l) \in S /\ InLine(l, Head(l))
           /\ Tail(l) \in Seq(S)
           /\ IsInjective(Tail(l))
           /\ \A d : InLine(Tail(l), d) <=> InLine(l, d) /\ d # Head(l)
<1> DEFINE m == Tail(l)
<1>1. m \in Seq(S) /\ Len(m) = Len(l) - 1 /\ Len(l) \in Nat /\ Len(l) > 0
  OBVIOUS
<1>2. Head(l) = l[1] /\ \A i \in 1..Len(m) : m[i] = l[i + 1]
  OBVIOUS
<1>3. IsInjective(m)
  <2> SUFFICES ASSUME NEW i \in 1..Len(m), NEW j \in 1..Len(m), m[i] = m[j] PROVE i = j
    BY <1>1 DEF IsInjective
  <2> QED BY <1>1, <1>2 DEF IsInjective
<1>4. ASSUME NEW d PROVE InLine(m, d) <=> InLine(l, d) /\ d # Head(l)
  <2>1. ASSUME InLine(m, d) PROVE InLine(l, d) /\ d # Head(l)
    <3>1. PICK i \in 1..Len(m) : m[i] = d
      BY <2>1 DEF InLine
    <3>2. i + 1 \in 1..Len(l) /\ l[i + 1] = d
      BY <1>1, <1>2, <3>1
    <3> QED BY <3>2, <1>1, <1>2 DEF InLine, IsInjective
  <2>2. ASSUME InLine(l, d), d # Head(l) PROVE InLine(m, d)
    <3>1. PICK i \in 1..Len(l) : l[i] = d
      BY <2>2 DEF InLine
    <3>2. i - 1 \in 1..Len(m) /\ m[i - 1] = d
      BY <1>1, <1>2, <2>2, <3>1
    <3> QED BY <3>2 DEF InLine
  <2> QED BY <2>1, <2>2
<1>5. Head(l) \in S /\ InLine(l, Head(l))
  BY <1>1, <1>2 DEF InLine
<1> QED BY <1>1, <1>3, <1>4, <1>5

\* Taking the k-th element out shifts the later ones by one.
LEMMA RemoveAtFacts ==
    ASSUME NEW S, NEW l \in Seq(S), NEW k \in 1..Len(l)
    PROVE  /\ RemoveAt(l, k) \in Seq(S)
           /\ Len(RemoveAt(l, k)) = Len(l) - 1
           /\ \A i \in 1..(Len(l) - 1) : RemoveAt(l, k)[i] = IF i < k THEN l[i] ELSE l[i + 1]
<1> DEFINE a == SubSeq(l, 1, k - 1)
           b == SubSeq(l, k + 1, Len(l))
<1>1. /\ a \in Seq(S) /\ Len(a) = k - 1
      /\ \A i \in 1..(k - 1) : a[i] = l[i]
  OBVIOUS
<1>2. /\ b \in Seq(S) /\ Len(b) = Len(l) - k
      /\ \A i \in 1..(Len(l) - k) : b[i] = l[i + k]
  OBVIOUS
<1>3. RemoveAt(l, k) = a \o b
  BY DEF RemoveAt
<1>4. k \in Nat /\ Len(l) \in Nat /\ 1 <= k /\ k <= Len(l)
  OBVIOUS
<1> HIDE DEF a, b
<1>5. /\ a \o b \in Seq(S)
      /\ Len(a \o b) = Len(a) + Len(b)
      /\ \A i \in 1..Len(a) + Len(b) : (a \o b)[i] = IF i <= Len(a) THEN a[i] ELSE b[i - Len(a)]
  BY <1>1, <1>2, ConcatProperties
<1>6. Len(a \o b) = Len(l) - 1
  BY <1>1, <1>2, <1>4, <1>5
<1>7. ASSUME NEW i \in 1..(Len(l) - 1) PROVE (a \o b)[i] = IF i < k THEN l[i] ELSE l[i + 1]
  <2>1. CASE i < k
    BY <2>1, <1>1, <1>2, <1>4, <1>5
  <2>2. CASE ~(i < k)
    <3>1. (a \o b)[i] = b[i - (k - 1)]
      BY <2>2, <1>1, <1>2, <1>4, <1>5
    <3>2. i - (k - 1) \in 1..(Len(l) - k)
      BY <2>2, <1>4
    <3>3. b[i - (k - 1)] = l[(i - (k - 1)) + k]
      BY <3>2, <1>2
    <3>4. (i - (k - 1)) + k = i + 1
      BY <1>4
    <3> QED BY <3>1, <3>3, <3>4, <2>2, <1>4
  <2> QED BY <2>1, <2>2
<1> QED BY <1>3, <1>5, <1>6, <1>7

\* Leaving from anywhere: everyone else stays.
LEMMA WithoutFacts ==
    ASSUME NEW S, NEW l \in Seq(S), IsInjective(l), NEW c
    PROVE  /\ Without(l, c) \in Seq(S)
           /\ IsInjective(Without(l, c))
           /\ \A d : InLine(Without(l, c), d) <=> InLine(l, d) /\ d # c
<1>1. CASE ~InLine(l, c)
  BY <1>1 DEF InLine, Without
<1>2. CASE InLine(l, c)
  <2>1. PICK k \in 1..Len(l) : l[k] = c /\ Without(l, c) = RemoveAt(l, k)
    BY <1>2 DEF InLine, Without
  <2> DEFINE m == RemoveAt(l, k)
  <2>2. /\ m \in Seq(S) /\ Len(m) = Len(l) - 1
        /\ \A i \in 1..(Len(l) - 1) : m[i] = IF i < k THEN l[i] ELSE l[i + 1]
    BY RemoveAtFacts
  <2> HIDE DEF m
  <2>3. Len(l) \in Nat /\ \A i, j \in 1..Len(l) : l[i] = l[j] => i = j
    BY DEF IsInjective
  <2>4. IsInjective(m)
    <3> SUFFICES ASSUME NEW i \in 1..Len(m), NEW j \in 1..Len(m), m[i] = m[j] PROVE i = j
      BY <2>2 DEF IsInjective
    <3> QED BY <2>2, <2>3
  <2>5. ASSUME NEW d PROVE InLine(m, d) <=> InLine(l, d) /\ d # c
    <3>1. ASSUME InLine(m, d) PROVE InLine(l, d) /\ d # c
      <4>1. PICK i \in 1..Len(m) : m[i] = d
        BY <3>1 DEF InLine
      <4>2. PICK j \in 1..Len(l) : l[j] = d /\ j # k
        BY <2>2, <2>3, <4>1
      <4> QED BY <4>2, <2>1, <2>3 DEF InLine
    <3>2. ASSUME InLine(l, d), d # c PROVE InLine(m, d)
      <4>1. PICK j \in 1..Len(l) : l[j] = d /\ j # k
        BY <3>2, <2>1 DEF InLine
      <4>2. PICK i \in 1..Len(m) : m[i] = d
        <5>1. CASE j < k
          BY <4>1, <5>1, <2>2, <2>3
        <5>2. CASE j > k
          <6>1. j - 1 \in 1..(Len(l) - 1) /\ m[j - 1] = l[j]
            BY <4>1, <5>2, <2>2, <2>3
          <6> QED BY <6>1, <4>1, <2>2
        <5> QED BY <5>1, <5>2, <4>1, <2>3
      <4> QED BY <4>2 DEF InLine
    <3> QED BY <3>1, <3>2
  <2> QED BY <2>1, <2>2, <2>4, <2>5 DEF m
<1> QED BY <1>1, <1>2

\* A line with r in front of it: its head, its tail, and r taken out again.
LEMMA FrontFacts ==
    ASSUME NEW S, NEW l \in Seq(S), NEW r \in S
    PROVE  /\ <<r>> \o l \in Seq(S) /\ <<r>> \o l # <<>>
           /\ Head(<<r>> \o l) = r /\ Tail(<<r>> \o l) = l
           /\ RemoveAt(<<r>> \o l, 1) = l
<1> DEFINE f == <<r>> \o l
<1>1. /\ f \in Seq(S) /\ Len(f) = Len(l) + 1 /\ Len(l) \in Nat
      /\ f[1] = r /\ \A i \in 1..Len(l) : f[i + 1] = l[i]
  OBVIOUS
<1> HIDE DEF f
<1>2. f # <<>> /\ Head(f) = r
  BY <1>1
<1>3. Tail(f) = l
  <2>1. Tail(f) \in Seq(S) /\ Len(Tail(f)) = Len(l) /\ \A i \in 1..Len(l) : Tail(f)[i] = l[i]
    BY <1>1
  <2> QED BY <2>1, SeqEqual
<1>4. RemoveAt(f, 1) = l
  <2>1. /\ RemoveAt(f, 1) \in Seq(S) /\ Len(RemoveAt(f, 1)) = Len(l)
        /\ \A i \in 1..Len(l) : RemoveAt(f, 1)[i] = l[i]
    <3>1. 1 \in 1..Len(f) /\ Len(f) - 1 = Len(l)
      BY <1>1
    <3>2. /\ RemoveAt(f, 1) \in Seq(S) /\ Len(RemoveAt(f, 1)) = Len(f) - 1
          /\ \A i \in 1..(Len(f) - 1) : RemoveAt(f, 1)[i] = IF i < 1 THEN f[i] ELSE f[i + 1]
      BY <1>1, <3>1, RemoveAtFacts
    <3> QED BY <1>1, <3>1, <3>2
  <2> QED BY <2>1, SeqEqual
<1> QED BY <1>1, <1>2, <1>3, <1>4 DEF f

\* Taking an element out behind r takes it out of the line.
LEMMA FrontRemove ==
    ASSUME NEW S, NEW l \in Seq(S), NEW r \in S, NEW k \in 1..Len(l)
    PROVE  RemoveAt(<<r>> \o l, k + 1) = <<r>> \o RemoveAt(l, k)
<1> DEFINE f == <<r>> \o l
<1>1. /\ f \in Seq(S) /\ Len(f) = Len(l) + 1 /\ Len(l) \in Nat
      /\ f[1] = r /\ \A i \in 1..Len(l) : f[i + 1] = l[i]
  OBVIOUS
<1> HIDE DEF f
<1>2. RemoveAt(f, k + 1) = <<r>> \o RemoveAt(l, k)
  <2> DEFINE a == RemoveAt(f, k + 1)
             b == RemoveAt(l, k)
             g == <<r>> \o b
  <2>1. /\ a \in Seq(S) /\ Len(a) = Len(l)
        /\ \A i \in 1..Len(l) : a[i] = IF i < k + 1 THEN f[i] ELSE f[i + 1]
    <3>1. k + 1 \in 1..Len(f) /\ Len(f) - 1 = Len(l)
      BY <1>1
    <3> QED BY <1>1, <3>1, RemoveAtFacts
  <2>2. /\ b \in Seq(S) /\ Len(b) = Len(l) - 1
        /\ \A i \in 1..(Len(l) - 1) : b[i] = IF i < k THEN l[i] ELSE l[i + 1]
    BY RemoveAtFacts
  <2> HIDE DEF a, b
  <2>3. /\ g \in Seq(S) /\ Len(g) = Len(l)
        /\ g[1] = r /\ \A i \in 1..(Len(l) - 1) : g[i + 1] = b[i]
    BY <1>1, <2>2
  <2> HIDE DEF g
  <2>4. ASSUME NEW i \in 1..Len(l) PROVE a[i] = g[i]
    <3>1. CASE i = 1
      BY <1>1, <2>1, <2>3, <3>1
    <3>2. CASE i # 1
      <4>1. i - 1 \in 1..(Len(l) - 1) /\ (i - 1) + 1 = i
        BY <1>1, <3>2
      <4>2. g[i] = b[i - 1]
        BY <2>3, <4>1
      <4>3. b[i - 1] = IF i - 1 < k THEN l[i - 1] ELSE l[(i - 1) + 1]
        BY <2>2, <4>1
      <4>4. f[i] = l[i - 1] /\ f[i + 1] = l[i]
        <5>1. f[(i - 1) + 1] = l[i - 1]
          BY <1>1, <4>1
        <5> QED BY <1>1, <4>1, <5>1
      <4>5. i - 1 < k <=> i < k + 1
        BY <1>1
      <4> QED BY <2>1, <4>1, <4>2, <4>3, <4>4, <4>5
    <3> QED BY <3>1, <3>2
  <2>5. a = g
    BY <2>1, <2>3, <2>4, SeqEqual
  <2> QED BY <2>5 DEF a, b, g
<1> QED BY <1>2 DEF f

\* Joining behind r joins the line.
LEMMA FrontAppend ==
    ASSUME NEW S, NEW l \in Seq(S), NEW r \in S, NEW c \in S
    PROVE  Append(<<r>> \o l, c) = <<r>> \o Append(l, c)
OBVIOUS

\* A line is its head in front of its tail.
LEMMA HeadFrontOfTail ==
    ASSUME NEW S, NEW l \in Seq(S), l # <<>>
    PROVE  <<Head(l)>> \o Tail(l) = l
OBVIOUS
-----------------------------------------------------------------------------
(* The table and the callers *)

Typed(h, r, l, s, p) ==
    /\ h \in Caller \cup {Nobody}
    /\ r \in Caller \cup {Nobody}
    /\ l \in Seq(Caller) /\ IsInjective(l)
    /\ s \in [Caller -> SessionState]
    /\ p \in [Caller -> PC]

Consistent(h, r, l, s, p) ==
    /\ Typed(h, r, l, s, p)
    /\ \A c \in Caller : p[c] \in {"granted", "held"} <=> h = c
    /\ r # Nobody => h = Nobody
    /\ \A c \in Caller : /\ s[c] = "reserved" <=> r = c
                         /\ s[c] = "queued" <=> InLine(l, c)
                         /\ s[c] = "reserved" => p[c] \in {"woken", "refused"}
                         /\ s[c] = "queued" => p[c] \in {"paused", "woken", "refused"}

IndInv == /\ Consistent(holder, reserved, line, session, pc)
          /\ aborted \in [Caller -> BOOLEAN]
          /\ watchers \subseteq Watcher
          /\ NoSleepOnFree
-----------------------------------------------------------------------------
(* The store's helpers *)

\* dispatchMutex turns a consistent table into one where nobody sleeps on a free key.
LEMMA DispatchKeepsInv ==
    ASSUME NEW h, NEW r, NEW l, NEW s, NEW p,
           Consistent(h, r, l, s, p), DispatchMutex(h, r, l, s, p),
           IndInv, aborted' \in [Caller -> BOOLEAN]
    PROVE  IndInv'
<1> USE NobodyAssumption
<1>1. Typed(h, r, l, s, p)
  BY DEF Consistent
<1>2. CASE h = Nobody /\ r = Nobody /\ l # <<>>
  <2> DEFINE d == Head(l)
  <2>1. /\ d \in Caller /\ InLine(l, d)
        /\ Tail(l) \in Seq(Caller) /\ IsInjective(Tail(l))
        /\ \A c : InLine(Tail(l), c) <=> InLine(l, c) /\ c # d
    BY <1>1, <1>2, TailFacts DEF Typed
  <2> HIDE DEF d
  <2>2. /\ holder' = h /\ reserved' = d /\ line' = Tail(l)
        /\ session' = [s EXCEPT ![d] = "reserved"]
        /\ pc' = Wake(p, d) /\ watchers' = watchers
    BY <1>2 DEF DispatchMutex, d
  <2>3. s[d] = "queued" /\ p[d] \in {"paused", "woken", "refused"}
    BY <2>1 DEF Consistent
  <2>4. /\ pc' \in [Caller -> PC] /\ pc'[d] \in {"woken", "refused"}
        /\ \A c \in Caller : c # d => pc'[c] = p[c]
    BY <1>1, <2>1, <2>2, <2>3 DEF Wake, Typed, PC
  <2>5. Typed(holder, reserved, line, session, pc)'
    BY <1>1, <2>1, <2>2, <2>4 DEF Typed, SessionState
  <2>6. ASSUME NEW c \in Caller
        PROVE  /\ pc'[c] \in {"granted", "held"} <=> holder' = c
               /\ session'[c] = "reserved" <=> reserved' = c
               /\ session'[c] = "queued" <=> InLine(line', c)
               /\ session'[c] = "reserved" => pc'[c] \in {"woken", "refused"}
               /\ session'[c] = "queued" => pc'[c] \in {"paused", "woken", "refused"}
    <3>1. CASE c = d
      BY <1>1, <1>2, <2>1, <2>2, <2>4, <3>1 DEF Typed
    <3>2. CASE c # d
      BY <1>1, <1>2, <2>1, <2>2, <2>4, <3>2 DEF Typed, Consistent
    <3> QED BY <3>1, <3>2
  <2>7. Consistent(holder, reserved, line, session, pc)'
    BY <1>2, <2>2, <2>5, <2>6 DEF Consistent, InLine
  <2>8. NoSleepOnFree' /\ watchers' \subseteq Watcher
    BY <2>1, <2>2 DEF NoSleepOnFree, IsFree, IndInv
  <2> QED BY <2>7, <2>8 DEF IndInv
<1>3. CASE ~(h = Nobody /\ r = Nobody /\ l # <<>>)
  <2>1. /\ holder' = h /\ reserved' = r /\ line' = l /\ session' = s /\ pc' = p
        /\ watchers' = IF h = Nobody /\ r = Nobody THEN {} ELSE watchers
    BY <1>3 DEF DispatchMutex
  <2>2. Consistent(holder, reserved, line, session, pc)'
    BY <2>1 DEF Consistent, Typed, InLine
  <2>3. NoSleepOnFree' /\ watchers' \subseteq Watcher
    BY <1>3, <2>1 DEF NoSleepOnFree, IsFree, IndInv
  <2> QED BY <2>2, <2>3 DEF IndInv
<1> QED BY <1>2, <1>3

\* Closing c's session, whose loop ends holding nothing new, keeps the invariant.
LEMMA CloseKeepsInv ==
    ASSUME NEW c \in Caller, NEW q \in PC, IndInv,
           q \in {"granted", "held"} <=> Holds(c),
           Close(c, [pc EXCEPT ![c] = q]), aborted' \in [Caller -> BOOLEAN]
    PROVE  IndInv'
<1> USE NobodyAssumption
<1> DEFINE s == [session EXCEPT ![c] = "none"]
           p == [pc EXCEPT ![c] = q]
           r == IF reserved = c THEN Nobody ELSE reserved
           l == Without(line, c)
<1>1. Consistent(holder, reserved, line, session, pc) /\ Typed(holder, reserved, line, session, pc)
  BY DEF IndInv, Consistent
<1>2. l \in Seq(Caller) /\ IsInjective(l) /\ \A d : InLine(l, d) <=> InLine(line, d) /\ d # c
  BY <1>1, WithoutFacts DEF Typed
<1> HIDE DEF l
<1>3. Typed(holder, r, l, s, p)
  BY <1>1, <1>2 DEF Typed, SessionState
<1>4. ASSUME NEW d \in Caller
      PROVE  /\ p[d] \in {"granted", "held"} <=> holder = d
             /\ s[d] = "reserved" <=> r = d
             /\ s[d] = "queued" <=> InLine(l, d)
             /\ s[d] = "reserved" => p[d] \in {"woken", "refused"}
             /\ s[d] = "queued" => p[d] \in {"paused", "woken", "refused"}
  <2>1. CASE d = c
    BY <1>1, <1>2, <2>1 DEF Typed, Consistent, Holds
  <2>2. CASE d # c
    BY <1>1, <1>2, <2>2 DEF Typed, Consistent
  <2> QED BY <2>1, <2>2
<1>5. Consistent(holder, r, l, s, p)
  BY <1>1, <1>3, <1>4 DEF Consistent
<1>6. CASE session[c] \in {"queued", "reserved"}
  BY <1>5, <1>6, DispatchKeepsInv DEF Close, l
<1>7. CASE session[c] \notin {"queued", "reserved"}
  <2>1. session' = s /\ pc' = p /\ UNCHANGED <<store, watchers>>
    BY <1>7 DEF Close
  <2>2. reserved # c /\ ~InLine(line, c)
    BY <1>1, <1>7 DEF Consistent
  <2>3. l = line /\ r = reserved
    BY <2>2 DEF l, Without, InLine
  <2>4. Consistent(holder, reserved, line, session, pc)'
    BY <1>5, <2>1, <2>3 DEF Consistent, Typed, InLine, store
  <2> QED BY <2>1, <2>4 DEF IndInv, NoSleepOnFree, IsFree, store
<1> QED BY <1>6, <1>7
-----------------------------------------------------------------------------
(* The inductive invariant *)

LEMMA InitInv == Init => IndInv
BY NobodyAssumption DEF Init, LoopInit, IndInv, Consistent, Typed, PC, SessionState,
   NoSleepOnFree, IsInjective, InLine

\* A caller's own step outside dispatch: only c's entries change.
LEMMA CallerKeepsInv ==
    ASSUME IndInv, NEW c \in Caller,
           Grant(c) \/ Refuse(c) \/ Land(c) \/ GiveBack(c) \/ Pause(c) \/ Leave(c) \/ Release(c)
    PROVE  IndInv'
<1> USE NobodyAssumption
<1>1. /\ Consistent(holder, reserved, line, session, pc)
      /\ Typed(holder, reserved, line, session, pc)
      /\ aborted \in [Caller -> BOOLEAN]
  BY DEF IndInv, Consistent
<1>2. ~InLine(line, c) => /\ Append(line, c) \in Seq(Caller) /\ IsInjective(Append(line, c))
                          /\ \A d : InLine(Append(line, c), d) <=> InLine(line, d) \/ d = c
                          /\ Append(line, c) # <<>>
  BY <1>1, AppendFacts DEF Typed
<1>3. CASE Grant(c)
  <2>1. /\ holder' = c /\ reserved' = Nobody /\ line' = line /\ watchers' = watchers
        /\ session' = [session EXCEPT ![c] = IF @ = "reserved" THEN "idle" ELSE @]
        /\ pc' = [pc EXCEPT ![c] = "granted"] /\ aborted' = aborted
    BY <1>3 DEF Grant
  <2>2. pc[c] \in {"idle", "woken"} /\ holder = Nobody /\ reserved \in {c, Nobody}
    BY <1>1, <1>3 DEF Grant, MayAttempt, Grantable, IsFree, Consistent
  <2>3. session[c] # "queued"
    <3>1. CASE reserved = c
      BY <1>1, <3>1 DEF Consistent
    <3>2. CASE reserved = Nobody
      <4>1. line = <<>>
        BY <2>2, <3>2 DEF IndInv, NoSleepOnFree, IsFree
      <4>2. ~InLine(line, c)
        BY <4>1 DEF InLine
      <4> QED BY <1>1, <4>2 DEF Consistent
    <3> QED BY <2>2, <3>1, <3>2
  <2>4. Typed(holder, reserved, line, session, pc)'
    BY <1>1, <2>1 DEF Typed, PC, SessionState
  <2>5. Consistent(holder, reserved, line, session, pc)'
    BY <1>1, <2>1, <2>2, <2>3, <2>4 DEF Consistent, Typed, InLine
  <2> QED BY <1>1, <2>1, <2>5 DEF IndInv, NoSleepOnFree, IsFree
<1>4. CASE Refuse(c)
  <2>1. /\ holder' = holder /\ reserved' = reserved /\ watchers' = watchers
        /\ pc' = [pc EXCEPT ![c] = "refused"] /\ aborted' = aborted /\ QueueRefused(c)
        /\ pc[c] \in {"idle", "woken"} /\ ~IsFree
    BY <1>4 DEF Refuse, MayAttempt, Grantable
  <2>2. CASE session[c] = "idle"
    <3>1. line' = Append(line, c) /\ session' = [session EXCEPT ![c] = "queued"]
      BY <2>1, <2>2 DEF QueueRefused
    <3>2. ~InLine(line, c)
      BY <1>1, <2>2 DEF Consistent
    <3>3. Typed(holder, reserved, line, session, pc)'
      BY <1>1, <1>2, <2>1, <3>1, <3>2 DEF Typed, PC, SessionState
    <3>4. \A d : InLine(line', d) <=> InLine(line, d) \/ d = c
      BY <1>2, <3>1, <3>2
    <3>5. Consistent(holder, reserved, line, session, pc)'
      BY <1>1, <2>1, <2>2, <3>1, <3>3, <3>4 DEF Consistent, Typed, InLine
    <3> QED BY <1>1, <2>1, <3>5 DEF IndInv, NoSleepOnFree, IsFree
  <2>3. CASE session[c] # "idle"
    <3>1. line' = line /\ session' = session
      BY <2>1, <2>3 DEF QueueRefused
    <3>2. Consistent(holder, reserved, line, session, pc)'
      BY <1>1, <2>1, <3>1 DEF Consistent, Typed, InLine, PC
    <3> QED BY <1>1, <2>1, <3>1, <3>2 DEF IndInv, NoSleepOnFree, IsFree
  <2> QED BY <2>2, <2>3
<1>5. CASE Land(c)
  BY <1>1, <1>5, CloseKeepsInv DEF Land, Holds, PC
<1>6. CASE Leave(c)
  <2>1. ~Holds(c) /\ aborted' \in [Caller -> BOOLEAN]
    BY <1>1, <1>6 DEF Leave, MayLeave, Holds
  <2> QED BY <1>6, <2>1, CloseKeepsInv DEF Leave, PC
<1>7. ASSUME NEW q \in PC \ {"granted", "held"}, Holds(c),
             DispatchMutex(Nobody, reserved, line, session, [pc EXCEPT ![c] = q]),
             UNCHANGED aborted
      PROVE  IndInv'
  <2>1. holder = c /\ session[c] \notin {"queued", "reserved"}
    BY <1>1, <1>7 DEF Consistent, Holds
  <2>2. Consistent(Nobody, reserved, line, session, [pc EXCEPT ![c] = q])
    BY <1>1, <1>7, <2>1 DEF Consistent, Typed
  <2> QED BY <1>1, <1>7, <2>2, DispatchKeepsInv
<1>8. CASE GiveBack(c)
  BY <1>7, <1>8 DEF GiveBack, Holds, PC
<1>9. CASE Release(c)
  BY <1>7, <1>9 DEF Release, Holds, PC
<1>10. CASE Pause(c)
  <2>1. /\ pc[c] = "refused" /\ holder' = holder /\ watchers' = watchers /\ aborted' = aborted
        /\ pc' = [pc EXCEPT ![c] = IF session'[c] = "queued" /\ ~aborted[c] THEN "paused" ELSE "woken"]
    BY <1>10 DEF Pause
  <2>2. pc' \in [Caller -> PC] /\ pc'[c] \in {"paused", "woken"} /\ (session'[c] # "queued" => pc'[c] = "woken")
        /\ \A d \in Caller : d # c => pc'[d] = pc[d]
    BY <1>1, <2>1 DEF Typed, PC
  <2>3. CASE session[c] # "none"
    <3>1. reserved' = reserved /\ line' = line /\ session' = session
      BY <1>10, <2>3 DEF Pause
    <3>2. Typed(holder, reserved, line, session, pc)'
      BY <1>1, <2>1, <2>2, <3>1 DEF Typed
    <3>3. Consistent(holder, reserved, line, session, pc)'
      BY <1>1, <2>1, <2>2, <3>1, <3>2 DEF Consistent, InLine
    <3> QED BY <1>1, <2>1, <3>1, <3>3 DEF IndInv, NoSleepOnFree, IsFree
  <2>4. CASE session[c] = "none" /\ IsFree
    <3>1. reserved' = c /\ line' = line /\ session' = [session EXCEPT ![c] = "reserved"]
      BY <1>10, <2>4 DEF Pause, NewWaiter
    <3>2. Typed(holder, reserved, line, session, pc)'
      BY <1>1, <2>1, <2>2, <3>1 DEF Typed, SessionState
    <3>3. session' \in [Caller -> SessionState] /\ session'[c] = "reserved"
          /\ \A d \in Caller : d # c => session'[d] = session[d]
      BY <1>1, <3>1 DEF Typed, SessionState
    <3>4. Consistent(holder, reserved, line, session, pc)'
      BY <1>1, <2>1, <2>2, <2>4, <3>1, <3>2, <3>3 DEF Consistent, InLine, IsFree
    <3> QED BY <1>1, <2>1, <3>1, <3>4 DEF IndInv, NoSleepOnFree, IsFree
  <2>5. CASE session[c] = "none" /\ ~IsFree
    <3>1. reserved' = reserved /\ line' = Append(line, c) /\ session' = [session EXCEPT ![c] = "queued"]
      BY <1>10, <2>5 DEF Pause, NewWaiter
    <3>2. ~InLine(line, c)
      BY <1>1, <2>5 DEF Consistent
    <3>3. Typed(holder, reserved, line, session, pc)'
      BY <1>1, <1>2, <2>1, <2>2, <3>1, <3>2 DEF Typed, SessionState
    <3>4. session'[c] = "queued" /\ \A d \in Caller : d # c => session'[d] = session[d]
      BY <1>1, <3>1 DEF Typed
    <3>5. \A d : InLine(line', d) <=> InLine(line, d) \/ d = c
      BY <1>2, <3>1, <3>2
    <3>6. reserved # c
      BY <1>1, <2>5 DEF Consistent
    <3>7. Consistent(holder, reserved, line, session, pc)'
      BY <1>1, <2>1, <2>2, <3>1, <3>3, <3>4, <3>5, <3>6 DEF Consistent, InLine
    <3> QED BY <1>1, <2>1, <2>5, <3>1, <3>7 DEF IndInv, NoSleepOnFree, IsFree
  <2> QED BY <2>3, <2>4, <2>5
<1> QED BY <1>3, <1>4, <1>5, <1>6, <1>8, <1>9, <1>10

LEMMA NextInv == IndInv /\ [Next]_vars => IndInv'
<1> SUFFICES ASSUME IndInv, [Next]_vars PROVE IndInv'
  OBVIOUS
<1>1. Consistent(holder, reserved, line, session, pc) /\ aborted \in [Caller -> BOOLEAN]
  BY DEF IndInv
<1>2. ASSUME NEW c \in Caller, (Abort(c) \/ PauseTimer(c)) /\ UNCHANGED store PROVE IndInv'
  <2>1. /\ pc' = Wake(pc, c) /\ session' = session /\ UNCHANGED <<store, watchers>>
        /\ aborted' \in [Caller -> BOOLEAN]
    BY <1>1, <1>2 DEF Abort, PauseTimer
  <2>2. /\ pc' \in [Caller -> PC]
        /\ \A d \in Caller : pc'[d] = pc[d] \/ (pc[d] = "paused" /\ pc'[d] = "woken")
    BY <1>1, <2>1 DEF Wake, Consistent, Typed, PC
  <2>3. Consistent(holder, reserved, line, session, pc)'
    BY <1>1, <2>1, <2>2 DEF Consistent, Typed, store, InLine
  <2> QED BY <2>1, <2>3 DEF IndInv, NoSleepOnFree, IsFree, store
<1>3. ASSUME NEW w \in Watcher, (Watch(w, IsFree) \/ StopWatch(w)) /\ UNCHANGED store PROVE IndInv'
  BY <1>1, <1>3 DEF Watch, StopWatch, store, IndInv, Consistent, Typed, InLine, NoSleepOnFree, IsFree
<1>4. CASE UNCHANGED vars
  BY <1>1, <1>4 DEF vars, IndInv, Consistent, Typed, InLine, NoSleepOnFree, IsFree
<1> QED BY <1>2, <1>3, <1>4, CallerKeepsInv DEF Next
-----------------------------------------------------------------------------
(* Theorems *)

\* Every behaviour of the in-process mutex and its callers satisfies the inductive invariant.
THEOREM Invariance == Spec => []IndInv
<1> QED BY InitInv, NextInv, PTL DEF Spec

\* The tables of memory.ts keep their types and no session is linked into a line twice.
THEOREM Typing == Spec => []TypeOK
<1>1. IndInv => TypeOK
  BY DEF IndInv, Consistent, Typed, TypeOK, LoopTypeOK
<1> QED BY <1>1, Invariance, PTL

\* However many callers attempt, wait, abort and release, at most one holds the key (memory.ts acquire).
THEOREM Exclusion == Spec => []MutualExclusion
<1>1. IndInv => MutualExclusion
  BY DEF IndInv, Consistent, MutualExclusion, Holds
<1> QED BY <1>1, Invariance, PTL

\* No release, hand-back, abort or departure leaves a waiter behind on a free key (memory.ts dispatchMutex), and
\* a handed-over key always waits for a caller that is awake and will attempt again (memory.ts handTo).
THEOREM NobodyForgotten == Spec => []NobodySleepsInVain
<1>1. IndInv => NoSleepOnFree
  BY DEF IndInv
<1>2. IndInv => ReservationIsAwake
  BY NobodyAssumption DEF IndInv, Consistent, ReservationIsAwake
<1>3. IndInv => NobodySleepsInVain
  BY <1>1, <1>2 DEF NobodySleepsInVain
<1> QED BY <1>3, Invariance, PTL
-----------------------------------------------------------------------------
(* The refinement of FifoLock *)

QueueOf(r, l) == IF r = Nobody THEN l ELSE <<r>> \o l

\* dispatchMutex leaves the queue as it is: the handed-over caller is still its head.
LEMMA DispatchKeepsQueue ==
    ASSUME NEW h, NEW r \in Caller \cup {Nobody}, NEW l \in Seq(Caller), NEW s, NEW p,
           DispatchMutex(h, r, l, s, p)
    PROVE  holder' = h /\ Queue' = QueueOf(r, l)
<1> USE NobodyAssumption
<1>1. CASE h = Nobody /\ r = Nobody /\ l # <<>>
  <2>1. reserved' = Head(l) /\ line' = Tail(l) /\ holder' = h /\ Head(l) \in Caller
    BY <1>1 DEF DispatchMutex
  <2>2. <<Head(l)>> \o Tail(l) = l
    BY <1>1, HeadFrontOfTail
  <2> QED BY <1>1, <2>1, <2>2 DEF Queue, QueueOf
<1>2. CASE ~(h = Nobody /\ r = Nobody /\ l # <<>>)
  BY <1>2 DEF DispatchMutex, Queue, QueueOf
<1> QED BY <1>1, <1>2

\* A closing session takes its caller out of the queue, or changes nothing.
LEMMA CloseQuits ==
    ASSUME IndInv, NEW c \in Caller, NEW p, Close(c, p)
    PROVE  holder' = holder /\ (Queue' = Queue \/ \E i \in 1..Len(Queue) : Queue' = RemoveAt(Queue, i))
<1> USE NobodyAssumption
<1>1. Consistent(holder, reserved, line, session, pc) /\ Typed(holder, reserved, line, session, pc)
  BY DEF IndInv, Consistent
<1>2. CASE session[c] = "reserved"
  <2>1. reserved = c /\ ~InLine(line, c)
    BY <1>1, <1>2 DEF Consistent
  <2>2. Without(line, c) = line
    BY <2>1 DEF Without, InLine
  <2>3. holder' = holder /\ Queue' = line
    <3>1. DispatchMutex(holder, Nobody, line, [session EXCEPT ![c] = "none"], p)
      BY <1>2, <2>1, <2>2 DEF Close
    <3>2. holder' = holder /\ Queue' = QueueOf(Nobody, line)
      BY <1>1, <3>1, DispatchKeepsQueue DEF Typed
    <3> QED BY <3>2 DEF QueueOf
  <2>4. Queue = <<c>> \o line
    BY <2>1 DEF Queue
  <2>5. RemoveAt(Queue, 1) = line /\ 1 \in 1..Len(Queue)
    <3>1. line \in Seq(Caller)
      BY <1>1 DEF Typed
    <3>2. RemoveAt(<<c>> \o line, 1) = line
      BY <3>1, FrontFacts
    <3>3. 1 \in 1..Len(<<c>> \o line)
      BY <3>1
    <3> QED BY <2>4, <3>2, <3>3
  <2> QED BY <2>3, <2>5
<1>3. CASE session[c] = "queued"
  <2>1. reserved # c /\ InLine(line, c)
    BY <1>1, <1>3 DEF Consistent
  <2>2. PICK k \in 1..Len(line) : Without(line, c) = RemoveAt(line, k)
    BY <2>1 DEF Without, InLine
  <2>3. RemoveAt(line, k) \in Seq(Caller)
    BY <1>1, RemoveAtFacts DEF Typed
  <2>4. holder' = holder /\ Queue' = QueueOf(reserved, RemoveAt(line, k))
    BY <1>1, <1>3, <2>1, <2>2, <2>3, DispatchKeepsQueue DEF Close, Typed
  <2>5. CASE reserved = Nobody
    BY <2>4, <2>5 DEF Queue, QueueOf
  <2>6. CASE reserved # Nobody
    <3>1. Queue' = <<reserved>> \o RemoveAt(line, k) /\ Queue = <<reserved>> \o line
      BY <2>4, <2>6 DEF Queue, QueueOf
    <3>2. RemoveAt(<<reserved>> \o line, k + 1) = <<reserved>> \o RemoveAt(line, k)
      <4>1. reserved \in Caller /\ line \in Seq(Caller)
        BY <1>1, <2>6 DEF Typed
      <4> QED BY <4>1, FrontRemove, Zenon
    <3>3. k + 1 \in 1..Len(Queue)
      BY <1>1, <2>6, <3>1 DEF Typed
    <3> QED BY <2>4, <3>1, <3>2, <3>3
  <2> QED BY <2>5, <2>6
<1>4. CASE session[c] \notin {"queued", "reserved"}
  BY <1>4 DEF Close, store, Queue
<1> QED BY <1>2, <1>3, <1>4

\* Every step of the store and its callers is a step of the queue lock, or leaves it unchanged.
LEMMA StepRefines == IndInv /\ [Next]_vars => [Fifo!Next]_(Fifo!vars)
<1> USE NobodyAssumption
<1> SUFFICES ASSUME IndInv, [Next]_vars
             PROVE  \/ Fifo!Quit \/ Fifo!Free
                    \/ \E c \in Caller : Fifo!Enter(c) \/ Fifo!Take(c)
                    \/ holder' = holder /\ Queue' = Queue
  BY DEF Fifo!Next, Fifo!vars
<1>1. Consistent(holder, reserved, line, session, pc) /\ Typed(holder, reserved, line, session, pc)
  BY DEF IndInv, Consistent
<1>2. ASSUME NEW c \in Caller, holder' = holder,
             \/ line' = Append(line, c) /\ reserved' = reserved
             \/ IsFree /\ reserved' = c /\ line' = line
      PROVE  Fifo!Enter(c)
  <2>1. CASE line' = Append(line, c) /\ reserved' = reserved
    <3>1. CASE reserved = Nobody
      BY <1>2, <2>1, <3>1 DEF Fifo!Enter, Queue
    <3>2. CASE reserved # Nobody
      <4>1. Append(<<reserved>> \o line, c) = <<reserved>> \o Append(line, c)
        <5>1. reserved \in Caller /\ line \in Seq(Caller)
          BY <1>1, <3>2 DEF Typed
        <5> QED BY <5>1, FrontAppend, Zenon
      <4> QED BY <1>2, <2>1, <3>2, <4>1 DEF Fifo!Enter, Queue
    <3> QED BY <3>1, <3>2
  <2>2. CASE IsFree /\ reserved' = c /\ line' = line
    <3>1. line = <<>> /\ reserved = Nobody
      BY <2>2 DEF IndInv, NoSleepOnFree, IsFree
    <3>2. Queue = <<>> /\ Queue' = <<c>> \o <<>>
      BY <2>2, <3>1 DEF Queue
    <3>3. <<c>> \o <<>> = Append(<<>>, c)
      OBVIOUS
    <3> QED BY <1>2, <3>2, <3>3 DEF Fifo!Enter
  <2> QED BY <1>2, <2>1, <2>2
<1>3. ASSUME NEW c \in Caller, Grant(c) PROVE Fifo!Take(c)
  <2>1. holder' = c /\ reserved' = Nobody /\ line' = line
    BY <1>3 DEF Grant
  <2>2. holder = Nobody
    BY <1>1, <1>3 DEF Grant, Grantable, IsFree, Consistent
  <2>3. CASE reserved = c
    <3>1. Queue = <<c>> \o line /\ Queue' = line
      BY <2>1, <2>3 DEF Queue
    <3>2. <<c>> \o line # <<>> /\ Head(<<c>> \o line) = c /\ Tail(<<c>> \o line) = line
      BY <1>1, FrontFacts DEF Typed
    <3> QED BY <2>1, <2>2, <3>1, <3>2 DEF Fifo!Take
  <2>4. CASE IsFree
    <3>1. line = <<>> /\ reserved = Nobody
      BY <2>4 DEF IndInv, NoSleepOnFree, IsFree
    <3> QED BY <2>1, <2>2, <3>1 DEF Fifo!Take, Queue
  <2> QED BY <1>3, <2>3, <2>4 DEF Grant, Grantable
<1>4. ASSUME NEW c \in Caller, Refuse(c)
      PROVE  Fifo!Enter(c) \/ (holder' = holder /\ Queue' = Queue)
  BY <1>2, <1>4 DEF Refuse, QueueRefused, Queue
<1>5. ASSUME NEW c \in Caller, Pause(c)
      PROVE  Fifo!Enter(c) \/ (holder' = holder /\ Queue' = Queue)
  BY <1>2, <1>5 DEF Pause, NewWaiter, Queue
<1>6. ASSUME NEW c \in Caller, Land(c) \/ Leave(c)
      PROVE  Fifo!Quit \/ (holder' = holder /\ Queue' = Queue)
  <2>1. holder' = holder /\ (Queue' = Queue \/ \E i \in 1..Len(Queue) : Queue' = RemoveAt(Queue, i))
    BY <1>6, CloseQuits DEF Land, Leave
  <2> QED BY <2>1 DEF Fifo!Quit, Fifo!RemoveAt, RemoveAt
<1>7. ASSUME NEW c \in Caller, GiveBack(c) \/ Release(c) PROVE Fifo!Free
  <2>1. holder = c
    BY <1>1, <1>7 DEF GiveBack, Release, Consistent
  <2>2. holder' = Nobody /\ Queue' = QueueOf(reserved, line)
    BY <1>1, <1>7, DispatchKeepsQueue DEF GiveBack, Release, Typed
  <2> QED BY <2>1, <2>2 DEF Fifo!Free, Queue, QueueOf
<1>8. ASSUME UNCHANGED store PROVE holder' = holder /\ Queue' = Queue
  BY <1>8 DEF store, Queue
<1>9. UNCHANGED vars => UNCHANGED store
  BY DEF vars, store
<1> QED BY <1>3, <1>4, <1>5, <1>6, <1>7, <1>8, <1>9 DEF Next

\* The hand-over of memory.ts implements a first come, first served lock: nobody barges past a waiter.
THEOREM Refinement == Spec => ImplementsFifo
<1>1. Init => Fifo!Init
  BY DEF Init, Fifo!Init, Queue
<1> QED BY <1>1, StepRefines, Invariance, PTL DEF Spec, ImplementsFifo, Fifo!Spec
=============================================================================
