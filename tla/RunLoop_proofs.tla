---------------------------- MODULE RunLoop_proofs ----------------------------
(***************************************************************************)
(* RunLoop for every number of streams, window, queue capacity and bound:  *)
(* the queues stay sound, each item once; whatever waits on one has notified *)
(* the loop, unless a datagram took the pass that was woken for it, and then *)
(* the datagram's wake is still to come; a stream with something to send is *)
(* on the trigger, parked, or behind a packet in flight.                   *)
(*                                                                         *)
(* Then MTUTracker, whose deadline and probes the loop serves, for every   *)
(* base, ceiling and bound: the search range stays right above the estimate *)
(* and is never left inverted, a tracker that waits has a probe to wait for, *)
(* and a search that ended is timed, whatever order probes are answered, lost *)
(* and forgotten in; and the estimate rises only to a size that crossed.   *)
(***************************************************************************)
EXTENDS RunLoop, MTUTracker, SequenceTheorems, FiniteSetTheorems, TLAPS

-----------------------------------------------------------------------------
(* The trigger queues *)

\* A queue of streams, each on it once; one that is empty or notified.
Sound(q) ==
    /\ q \in [queue : Seq(Streams), note : BOOLEAN]
    /\ IsInjective(q.queue)

Woken(q) == q.queue = <<>> \/ q.note

LEMMA PushFacts ==
    ASSUME NEW q, Sound(q), NEW x \in Streams
    PROVE  /\ Sound(Push(q, x)) /\ (Woken(q) => Woken(Push(q, x)))
           /\ ToSet(Push(q, x).queue) = ToSet(q.queue) \cup {x}
<1> DEFINE s == q.queue
<1>1. CASE x \in ToSet(s)
  BY <1>1 DEF Push
<1>2. CASE x \notin ToSet(s)
  <2> DEFINE a == Append(s, x)
  <2>1. s \in Seq(Streams)
    BY DEF Sound
  <2>2. Push(q, x) = [queue |-> a, note |-> TRUE]
    BY <1>2 DEF Push
  <2>3. /\ a \in Seq(Streams) /\ Len(s) \in Nat
        /\ DOMAIN a = 1 .. Len(s) + 1 /\ DOMAIN s = 1 .. Len(s)
        /\ a[Len(s) + 1] = x /\ \A i \in 1 .. Len(s) : a[i] = s[i]
    BY <2>1
  <2> HIDE DEF a
  <2>4. \A i \in 1 .. Len(s) + 1 : i \in 1 .. Len(s) \/ i = Len(s) + 1
    BY <2>3
  <2>5. IsInjective(a)
    <3> SUFFICES ASSUME NEW i \in 1 .. Len(s) + 1, NEW j \in 1 .. Len(s) + 1, a[i] = a[j]
                 PROVE  i = j
      BY <2>3 DEF IsInjective
    <3>1. \A k \in 1 .. Len(s) : a[k] # x
      BY <1>2, <2>3 DEF ToSet
    <3> QED BY <3>1, <2>3, <2>4 DEF Sound, IsInjective
  <2>6. ToSet(a) = ToSet(s) \cup {x}
    <3>1. ToSet(a) \subseteq ToSet(s) \cup {x}
      BY <2>3, <2>4 DEF ToSet
    <3>2. ToSet(s) \cup {x} \subseteq ToSet(a)
      <4>1. Len(s) + 1 \in DOMAIN a /\ \A i \in DOMAIN s : i \in DOMAIN a
        BY <2>3
      <4> QED BY <4>1, <2>3 DEF ToSet
    <3> QED BY <3>1, <3>2
  <2>7. Push(q, x).queue = a /\ Push(q, x).note = TRUE
        /\ Push(q, x) \in [queue : Seq(Streams), note : BOOLEAN]
    BY <2>2, <2>3
  <2> QED BY <2>5, <2>6, <2>7 DEF Sound, Woken
<1> QED BY <1>1, <1>2

\* Whatever is left after Pop is notified of; only the first item is gone.
LEMMA PopFacts ==
    ASSUME NEW q, Sound(q)
    PROVE  /\ Sound(Pop(q)) /\ Woken(Pop(q))
           /\ First(q) \in Streams \cup {none} /\ (First(q) = none <=> q.queue = <<>>)
           /\ ToSet(Pop(q).queue) \subseteq ToSet(q.queue)
           /\ ToSet(q.queue) \subseteq ToSet(Pop(q).queue) \cup {First(q)}
<1> DEFINE s == q.queue
<1>1. s \in Seq(Streams) /\ q.note \in BOOLEAN /\ IsInjective(s)
  BY DEF Sound
<1>2. CASE s = <<>>
  BY <1>2, LoopAssumption DEF Pop, First, Woken, ToSet
<1>3. CASE s # <<>>
  <2> DEFINE t == Tail(s)
  <2>1. Pop(q) = [queue |-> t, note |-> q.note \/ Len(s) > 1] /\ First(q) = Head(s)
    BY <1>3 DEF Pop, First
  <2>2. /\ t \in Seq(Streams) /\ Len(s) \in Nat /\ Len(s) >= 1 /\ Len(t) = Len(s) - 1
        /\ DOMAIN t = 1 .. Len(s) - 1 /\ DOMAIN s = 1 .. Len(s)
        /\ Head(s) = s[1] /\ Head(s) \in Streams
        /\ \A i \in 1 .. Len(s) - 1 : t[i] = s[i + 1]
    BY <1>1, <1>3
  <2> HIDE DEF t
  <2>3. Pop(q).queue = t /\ Pop(q).note = (q.note \/ Len(s) > 1)
    BY <2>1
  <2>4. Pop(q) \in [queue : Seq(Streams), note : BOOLEAN]
    <3>1. (q.note \/ Len(s) > 1) \in BOOLEAN
      OBVIOUS
    <3> QED BY <3>1, <2>1, <2>2
  <2>5. IsInjective(t)
    <3> SUFFICES ASSUME NEW i \in 1 .. Len(s) - 1, NEW j \in 1 .. Len(s) - 1, t[i] = t[j]
                 PROVE  i = j
      BY <2>2 DEF IsInjective
    <3>1. i + 1 \in DOMAIN s /\ j + 1 \in DOMAIN s /\ s[i + 1] = s[j + 1]
      BY <2>2
    <3>2. i + 1 = j + 1
      BY <3>1, <1>1 DEF IsInjective
    <3> QED BY <3>2
  <2>6. t = <<>> \/ Len(s) > 1
    BY <2>2
  <2>7. ToSet(t) \subseteq ToSet(s)
    <3> SUFFICES ASSUME NEW i \in 1 .. Len(s) - 1 PROVE t[i] \in ToSet(s)
      BY <2>2 DEF ToSet
    <3>1. i + 1 \in DOMAIN s /\ t[i] = s[i + 1]
      BY <2>2
    <3> QED BY <3>1 DEF ToSet
  <2>8. ToSet(s) \subseteq ToSet(t) \cup {Head(s)}
    <3> SUFFICES ASSUME NEW i \in 1 .. Len(s), i # 1 PROVE s[i] \in ToSet(t)
      BY <2>2 DEF ToSet
    <3>1. i - 1 \in DOMAIN t /\ t[i - 1] = s[i]
      BY <2>2
    <3> QED BY <3>1 DEF ToSet
  <2>9. Head(s) # none
    BY <2>2, LoopAssumption
  <2>10. Woken(Pop(q))
    BY <2>3, <2>6 DEF Woken
  <2> QED BY <1>3, <2>1, <2>2, <2>3, <2>4, <2>5, <2>7, <2>8, <2>9, <2>10 DEF Sound
<1> QED BY <1>2, <1>3

\* A finite set, put in some order.
LEMMA InSomeOrder ==
    ASSUME NEW S, IsFiniteSet(S)
    PROVE  /\ SetToSeq(S) \in [1 .. Cardinality(S) -> S] /\ Cardinality(S) \in Nat
           /\ IsInjective(SetToSeq(S))
           /\ \A x \in S : \E i \in 1 .. Cardinality(S) : SetToSeq(S)[i] = x
<1> DEFINE n == Cardinality(S)
           f == SetToSeq(S)
<1>1. n \in Nat /\ ExistsBijection(1 .. n, S)
  BY FS_CardinalityType
<1>2. \E g \in [1 .. n -> S] : IsInjective(g)
  BY <1>1 DEF ExistsBijection, Bijection, Injection
<1>3. f \in [1 .. n -> S] /\ IsInjective(f)
  BY <1>2 DEF SetToSeq
<1>4. f \in Injection(1 .. n, S)
  BY <1>3 DEF Injection
<1>5. Cardinality(1 .. n) = n
  <2>1. 1 \in Int /\ n \in Int
    BY <1>1
  <2>2. Cardinality(1 .. n) = IF 1 > n THEN 0 ELSE n - 1 + 1
    BY <2>1, FS_Interval
  <2> QED BY <2>2, <1>1
<1> HIDE DEF f
<1>6. f \in Surjection(1 .. n, S)
  BY <1>4, <1>5, FS_Injection
<1>7. \A x \in S : \E i \in 1 .. n : f[i] = x
  BY <1>6 DEF Surjection
<1> QED BY <1>1, <1>3, <1>7 DEF f

LEMMA PushAllFacts ==
    ASSUME NEW q, Sound(q), NEW xs \in SUBSET Streams, IsFiniteSet(xs)
    PROVE  /\ Sound(PushAll(q, xs)) /\ (Woken(q) => Woken(PushAll(q, xs)))
           /\ ToSet(PushAll(q, xs).queue) = ToSet(q.queue) \cup xs
<1> DEFINE s == q.queue
           new == xs \ ToSet(s)
           o == SetToSeq(new)
           n == Cardinality(new)
<1>1. CASE new = {}
  <2>1. PushAll(q, xs) = q
    BY <1>1 DEF PushAll
  <2> QED BY <1>1, <2>1
<1>2. CASE new # {}
  <2>1. IsFiniteSet(new)
    BY FS_Subset
  <2>2. PushAll(q, xs) = [queue |-> s \o o, note |-> TRUE]
    BY <1>2 DEF PushAll
  <2>3. new \subseteq Streams /\ \A x \in new : x \notin ToSet(s)
    OBVIOUS
  <2> HIDE DEF new
  <2>4. /\ o \in [1 .. n -> new] /\ n \in Nat /\ IsInjective(o)
        /\ \A x \in new : \E i \in 1 .. n : o[i] = x
    BY <2>1, InSomeOrder
  <2> HIDE DEF o, n
  <2>5. s \in Seq(Streams) /\ Len(s) \in Nat /\ IsInjective(s) /\ DOMAIN s = 1 .. Len(s)
    BY DEF Sound
  <2>6. o \in Seq(Streams) /\ Len(o) = n /\ DOMAIN o = 1 .. n
    BY <2>3, <2>4
  <2> DEFINE a == s \o o
  <2>7. /\ a \in Seq(Streams) /\ DOMAIN a = 1 .. Len(s) + n
        /\ \A i \in 1 .. Len(s) : a[i] = s[i]
        /\ \A i \in 1 .. n : a[Len(s) + i] = o[i]
    BY <2>4, <2>5, <2>6
  <2> HIDE DEF a
  <2>8. \A i \in 1 .. Len(s) + n : i \in 1 .. Len(s) \/ \E j \in 1 .. n : i = Len(s) + j
    <3> SUFFICES ASSUME NEW i \in 1 .. Len(s) + n, i \notin 1 .. Len(s)
                 PROVE  \E j \in 1 .. n : i = Len(s) + j
      OBVIOUS
    <3>1. i - Len(s) \in 1 .. n /\ i = Len(s) + (i - Len(s))
      BY <2>4, <2>5
    <3> QED BY <3>1
  <2>9. ASSUME NEW i \in 1 .. Len(s), NEW j \in 1 .. n PROVE s[i] # o[j]
    BY <2>3, <2>4, <2>5 DEF ToSet
  <2>10. IsInjective(a)
    <3> SUFFICES ASSUME NEW i \in DOMAIN a, NEW j \in DOMAIN a, a[i] = a[j] PROVE i = j
      BY DEF IsInjective
    <3>1. CASE i \in 1 .. Len(s) /\ j \in 1 .. Len(s)
      BY <3>1, <2>5, <2>7 DEF IsInjective
    <3>2. CASE i \in 1 .. Len(s) /\ j \notin 1 .. Len(s)
      BY <3>2, <2>7, <2>8, <2>9
    <3>3. CASE i \notin 1 .. Len(s) /\ j \in 1 .. Len(s)
      BY <3>3, <2>7, <2>8, <2>9
    <3>4. CASE i \notin 1 .. Len(s) /\ j \notin 1 .. Len(s)
      <4>1. PICK k \in 1 .. n, l \in 1 .. n : i = Len(s) + k /\ j = Len(s) + l
        BY <3>4, <2>7, <2>8
      <4>2. o[k] = o[l]
        BY <4>1, <2>7
      <4> QED BY <4>1, <4>2, <2>4, <2>6 DEF IsInjective
    <3> QED BY <3>1, <3>2, <3>3, <3>4
  <2>11. ToSet(a) = ToSet(s) \cup xs
    <3>1. ASSUME NEW i \in DOMAIN a PROVE a[i] \in ToSet(s) \cup xs
      <4>1. CASE i \in 1 .. Len(s)
        BY <4>1, <2>5, <2>7 DEF ToSet
      <4>2. CASE i \notin 1 .. Len(s)
        <5>1. PICK j \in 1 .. n : i = Len(s) + j
          BY <4>2, <2>7, <2>8
        <5>2. a[i] = o[j] /\ o[j] \in new
          BY <5>1, <2>4, <2>7
        <5> QED BY <5>2 DEF new
      <4> QED BY <4>1, <4>2
    <3>2. ASSUME NEW x \in ToSet(s) PROVE x \in ToSet(a)
      <4>1. PICK i \in 1 .. Len(s) : x = s[i]
        BY <2>5 DEF ToSet
      <4>2. i \in DOMAIN a /\ a[i] = x
        BY <4>1, <2>4, <2>5, <2>7
      <4> QED BY <4>2 DEF ToSet
    <3>3. ASSUME NEW x \in new PROVE x \in ToSet(a)
      <4>1. PICK i \in 1 .. n : o[i] = x
        BY <2>4
      <4>2. a[Len(s) + i] = x
        BY <4>1, <2>7
      <4>3. Len(s) + i \in 1 .. Len(s) + n
        BY <2>4, <2>5
      <4> QED BY <4>2, <4>3, <2>7 DEF ToSet
    <3>4. ToSet(a) \subseteq ToSet(s) \cup xs
      BY <3>1 DEF ToSet
    <3> QED BY <3>2, <3>3, <3>4 DEF new
  <2>12. PushAll(q, xs).queue = a /\ PushAll(q, xs).note = TRUE
         /\ PushAll(q, xs) \in [queue : Seq(Streams), note : BOOLEAN]
    BY <2>2, <2>7 DEF a
  <2> QED BY <2>10, <2>11, <2>12 DEF Sound, Woken
<1> QED BY <1>1, <1>2

-----------------------------------------------------------------------------
(* The packets outstanding *)

\* The elements of a finite set of numbers, counted from below.
LEMMA Ranked ==
    ASSUME NEW I \in SUBSET Nat, IsFiniteSet(I)
    PROVE  /\ Cardinality(I) \in Nat
           /\ \A n \in 1 .. Cardinality(I) : \E i \in I : Cardinality({j \in I : j <= i}) = n
           /\ \A i \in I : Cardinality({j \in I : j <= i}) \in 1 .. Cardinality(I)
           /\ \A i, k \in I : Cardinality({j \in I : j <= i}) = Cardinality({j \in I : j <= k}) => i = k
<1> DEFINE N == Cardinality(I)
           below(i) == {j \in I : j <= i}
           rank == [i \in I |-> Cardinality(below(i))]
<1>1. N \in Nat
  BY FS_CardinalityType
<1>2. ASSUME NEW i \in I
      PROVE  IsFiniteSet(below(i)) /\ Cardinality(below(i)) \in 1 .. N
  <2>1. IsFiniteSet(below(i)) /\ Cardinality(below(i)) <= N
    BY FS_Subset
  <2>2. Cardinality(below(i)) \in Nat
    BY <2>1, FS_CardinalityType
  <2>3. i \in below(i)
    OBVIOUS
  <2>4. Cardinality(below(i)) # 0
    BY <2>1, <2>3, FS_EmptySet
  <2> QED BY <2>1, <2>2, <2>4, <1>1
<1>3. ASSUME NEW i \in I, NEW k \in I, i < k PROVE Cardinality(below(i)) # Cardinality(below(k))
  <2>0. k <= k /\ ~(k <= i) /\ \A j \in I : j <= i => j <= k
    BY <1>3
  <2>1. below(i) \subseteq below(k)
    BY <2>0, Zenon
  <2>3. k \in below(k) /\ k \notin below(i)
    BY <2>0, Zenon
  <2>2. below(k) # below(i)
    BY <2>3
  <2> HIDE DEF below
  <2> QED BY <1>2, <2>1, <2>2, FS_Subset
<1>4. \A i, k \in I : Cardinality(below(i)) = Cardinality(below(k)) => i = k
  <2> SUFFICES ASSUME NEW i \in I, NEW k \in I, i # k
               PROVE  Cardinality(below(i)) # Cardinality(below(k))
    OBVIOUS
  <2>1. i < k \/ k < i
    OBVIOUS
  <2> HIDE DEF below
  <2> QED BY <2>1, <1>3
<1> HIDE DEF below
<1>5. rank \in Injection(I, 1 .. N)
  <2>1. rank \in [I -> 1 .. N]
    BY <1>2
  <2>2. IsInjective(rank)
    BY <1>4 DEF IsInjective
  <2> QED BY <2>1, <2>2 DEF Injection
<1>6. IsFiniteSet(1 .. N) /\ Cardinality(1 .. N) = N
  <2>1. 1 \in Int /\ N \in Int
    BY <1>1
  <2>2. IsFiniteSet(1 .. N) /\ Cardinality(1 .. N) = IF 1 > N THEN 0 ELSE N - 1 + 1
    BY <2>1, FS_Interval
  <2> QED BY <2>2, <1>1
<1>7. rank \in Surjection(I, 1 .. N)
  <2> HIDE DEF rank
  <2> QED BY <1>5, <1>6, FS_Injection
<1>8. \A n \in 1 .. N : \E i \in I : Cardinality(below(i)) = n
  <2> SUFFICES ASSUME NEW n \in 1 .. N PROVE \E i \in I : Cardinality(below(i)) = n
    OBVIOUS
  <2>1. PICK i \in I : rank[i] = n
    BY <1>7 DEF Surjection
  <2> QED BY <2>1
<1> QED BY <1>1, <1>2, <1>4, <1>8 DEF below

LEMMA WithoutFacts ==
    ASSUME NEW T, NEW s \in Seq(T), IsInjective(s), NEW S
    PROVE  /\ Without(s, S) \in Seq(T) /\ IsInjective(Without(s, S))
           /\ ToSet(Without(s, S)) = ToSet(s) \ S
<1> DEFINE I == {i \in DOMAIN s : s[i] \notin S}
           count(i) == Cardinality({j \in I : j <= i})
           nth(n) == CHOOSE i \in I : count(i) = n
           N == Cardinality(I)
           w == Without(s, S)
<1>1. DOMAIN s = 1 .. Len(s) /\ Len(s) \in Nat
  OBVIOUS
<1>2. I \in SUBSET Nat /\ IsFiniteSet(I)
  <2>1. IsFiniteSet(1 .. Len(s))
    BY <1>1, FS_Interval
  <2>2. I \in SUBSET (1 .. Len(s))
    BY <1>1
  <2> QED BY <1>1, <2>1, <2>2, FS_Subset
<1>3. w = [n \in 1 .. N |-> s[nth(n)]]
  BY DEF Without
<1>4. \A i \in I : i \in DOMAIN s /\ s[i] \notin S
  OBVIOUS
<1>5. \A x \in ToSet(s) \ S : \E i \in I : s[i] = x
  BY DEF ToSet
<1> HIDE DEF I, w
<1>6. /\ N \in Nat
      /\ \A n \in 1 .. N : \E i \in I : count(i) = n
      /\ \A i \in I : count(i) \in 1 .. N
      /\ \A i, k \in I : count(i) = count(k) => i = k
  BY <1>2, Ranked
<1> HIDE DEF N, count
<1>7. ASSUME NEW n \in 1 .. N PROVE nth(n) \in I /\ count(nth(n)) = n
  BY <1>6
<1> HIDE DEF nth
<1>8. DOMAIN w = 1 .. N /\ \A n \in 1 .. N : w[n] = s[nth(n)]
  BY <1>3
<1>9. w \in Seq(T)
  <2>1. \A n \in 1 .. N : s[nth(n)] \in T
    BY <1>1, <1>4, <1>7
  <2>2. w \in [1 .. N -> T]
    BY <1>3, <2>1
  <2> QED BY <2>2, <1>6
<1>10. IsInjective(w)
  <2> SUFFICES ASSUME NEW n \in 1 .. N, NEW m \in 1 .. N, w[n] = w[m] PROVE n = m
    BY <1>8 DEF IsInjective
  <2>1. nth(n) = nth(m)
    BY <1>4, <1>7, <1>8 DEF IsInjective
  <2> QED BY <2>1, <1>7
<1>11. ToSet(w) \subseteq ToSet(s) \ S
  BY <1>4, <1>7, <1>8 DEF ToSet
<1>12. ASSUME NEW x \in ToSet(s) \ S PROVE x \in ToSet(w)
  <2>1. PICK i \in I : s[i] = x
    BY <1>5
  <2>2. count(i) \in 1 .. N /\ nth(count(i)) = i
    BY <1>6, <1>7
  <2>3. w[count(i)] = x
    BY <2>1, <2>2, <1>8
  <2> QED BY <2>2, <2>3, <1>8 DEF ToSet
<1> QED BY <1>9, <1>10, <1>11, <1>12 DEF w

-----------------------------------------------------------------------------
(* The inductive invariant *)

\* A packet that is sent again if lost names a stream.
Sent == [kind : {"data", "window", "cancel"}, id : Streams, k : Int]
          \cup [kind : {"datagram", "uncontrolled", "probe"}, id : {none}, k : Int]

Datagram == [kind : {"datagram", "uncontrolled"}, id : {none}, k : Int]

QueueInv == Sound(sendTrigger) /\ Sound(updateWindow) /\ Sound(cancelTrigger)

FlightInv == outstanding \in Seq(Sent) /\ IsInjective(outstanding)

DatagramInv ==
    /\ datagramSend \in Seq(Datagram) /\ Len(datagramSend) <= DatagramQueue
    /\ datagrams \in Nat /\ Len(datagramSend) <= datagrams /\ datagrams <= MaxDatagrams

StreamInv ==
    /\ written \in [Streams -> Nat] /\ buffered \in [Streams -> Nat]
    /\ retransmit \in [Streams -> SUBSET Int] /\ unacked \in [Streams -> SUBSET Int]
    /\ congestionBlocked \subseteq Streams /\ removed \subseteq Streams

PhaseInv ==
    /\ pc \in {"top", "select", "woken", "half", "pop", "probe"}
    /\ expired \in BOOLEAN /\ isPTO \in BOOLEAN /\ pacing \in BOOLEAN

AllWoken == Woken(sendTrigger) /\ Woken(updateWindow) /\ Woken(cancelTrigger)

\* Until two datagrams share a notification: outside a pass every queue that holds
\* something has notified, but for a pass that a datagram cut short, and then the
\* datagram's own wake is still to come.
WakeInv ==
    ~ shared =>
        /\ pc \in {"top", "select", "probe"} => AllWoken \/ (datagramNote /\ datagramSend = <<>>)
        /\ datagramSend # <<>> => datagramNote \/ (pc \in {"woken", "half"} /\ AllWoken)
        /\ Len(datagramSend) <= 1

\* Every step but the passing of the MTU tracker's deadline, which no part of the
\* invariant reads.
Moves == Others \/ Loop

\* What the loop looked at before it parked: received packets, parked streams.
ParkInv ==
    pc = "select" =>
        /\ recv.queue # <<>> => recv.note
        /\ congestionBlocked = {} \/ outstanding # <<>>

\* An owed ACK has its wake before it, or is taken in this pass.
OwedInv == ackOwed => ptNote \/ pc \in {"woken", "half"}

LoopInv ==
    /\ QueueInv /\ FlightInv /\ DatagramInv /\ StreamInv /\ PhaseInv
    /\ ParkInv /\ OwedInv /\ NothingOrphaned

-----------------------------------------------------------------------------
(* What is sent, and what is lost *)

LEMMA OnSentFacts ==
    ASSUME FlightInv, NEW p \in Sent, OnSent(p)
    PROVE  /\ FlightInv' /\ outstanding' # <<>>
           /\ ToSet(outstanding)' = ToSet(outstanding) \cup {p}
           /\ pacing \in BOOLEAN => pacing' \in BOOLEAN
<1> DEFINE w == Without(outstanding, {p})
           a == Append(w, p)
<1>1. w \in Seq(Sent) /\ IsInjective(w) /\ ToSet(w) = ToSet(outstanding) \ {p}
  BY WithoutFacts DEF FlightInv
<1>2. outstanding' = a /\ (pacing' = pacing \/ pacing' \in BOOLEAN)
  BY DEF OnSent
<1> HIDE DEF w
<1>3. /\ a \in Seq(Sent) /\ Len(w) \in Nat /\ a # <<>>
      /\ DOMAIN a = 1 .. Len(w) + 1 /\ DOMAIN w = 1 .. Len(w)
      /\ a[Len(w) + 1] = p /\ \A i \in 1 .. Len(w) : a[i] = w[i]
  BY <1>1
<1> HIDE DEF a
<1>4. \A i \in 1 .. Len(w) + 1 : i \in 1 .. Len(w) \/ i = Len(w) + 1
  BY <1>3
<1>5. \A i \in 1 .. Len(w) : a[i] # p
  BY <1>1, <1>3 DEF ToSet
<1>6. IsInjective(a)
  <2> SUFFICES ASSUME NEW i \in 1 .. Len(w) + 1, NEW j \in 1 .. Len(w) + 1, a[i] = a[j]
               PROVE  i = j
    BY <1>3 DEF IsInjective
  <2> QED BY <1>1, <1>3, <1>4, <1>5 DEF IsInjective
<1>7. ToSet(a) \subseteq ToSet(w) \cup {p}
  BY <1>3, <1>4 DEF ToSet
<1>8. ToSet(w) \cup {p} \subseteq ToSet(a)
  <2>1. Len(w) + 1 \in DOMAIN a /\ \A i \in DOMAIN w : i \in DOMAIN a
    BY <1>3
  <2> QED BY <2>1, <1>3 DEF ToSet
<1>9. ToSet(outstanding)' = ToSet(outstanding) \cup {p}
  BY <1>1, <1>2, <1>7, <1>8
<1> QED BY <1>2, <1>3, <1>6, <1>9 DEF FlightInv

\* The packets outstanding are finitely many, and so are the streams they name.
LEMMA FiniteFlight ==
    ASSUME FlightInv, NEW lost \in SUBSET ToSet(outstanding)
    PROVE  IsFiniteSet({p.id : p \in lost})
<1> DEFINE n == Len(outstanding)
           out == [i \in 1 .. n |-> outstanding[i]]
           ids == {p.id : p \in lost}
           id == [p \in lost |-> p.id]
<1>1. n \in Nat /\ DOMAIN outstanding = 1 .. n
  BY DEF FlightInv
<1>2. IsFiniteSet(1 .. n)
  BY <1>1, FS_Interval
<1>3. out \in Surjection(1 .. n, ToSet(outstanding))
  BY <1>1 DEF ToSet, Surjection
<1>4. IsFiniteSet(ToSet(outstanding))
  <2> HIDE DEF out, n
  <2> QED BY <1>2, <1>3, FS_Surjection
<1>5. IsFiniteSet(lost)
  BY <1>4, FS_Subset
<1>6. id \in Surjection(lost, ids)
  BY DEF Surjection
<1> HIDE DEF id, ids
<1>7. IsFiniteSet(ids)
  BY <1>5, <1>6, FS_Surjection
<1> QED BY <1>7 DEF ids

LEMMA OnLossesFacts ==
    ASSUME QueueInv, FlightInv, StreamInv, NEW lost \in SUBSET ToSet(outstanding),
           NEW acked \in SUBSET Streams, IsFiniteSet(acked), OnLosses(lost, acked)
    PROVE  /\ QueueInv' /\ (AllWoken => AllWoken')
           /\ retransmit' \in [Streams -> SUBSET Int]
           /\ ToSet(sendTrigger.queue) \cup acked \subseteq ToSet(sendTrigger.queue)'
           /\ \A p \in lost : p.kind = "data" => p.id \in ToSet(sendTrigger.queue)'
           /\ \A s \in Streams : retransmit'[s] = retransmit[s] \/ s \in ToSet(sendTrigger.queue)'
<1> DEFINE of(kind) == {q \in lost : q.kind = kind}
           ids(kind) == {p.id : p \in of(kind)}
<1>1. \A p \in lost : p \in Sent
  BY DEF FlightInv, ToSet
<1>2. ASSUME NEW kind \in {"data", "window", "cancel"}
      PROVE  ids(kind) \subseteq Streams /\ IsFiniteSet(ids(kind))
  <2>1. of(kind) \in SUBSET ToSet(outstanding)
    OBVIOUS
  <2>2. \A p \in of(kind) : p.id \in Streams
    BY <1>1 DEF Sent
  <2> HIDE DEF of
  <2> QED BY <2>1, <2>2, FiniteFlight
<1>3. ids("data") \subseteq Streams /\ IsFiniteSet(ids("data"))
  BY <1>2
<1>4. ids("window") \ recvEOF \subseteq Streams /\ IsFiniteSet(ids("window") \ recvEOF)
  BY <1>2, FS_Subset
<1>5. ids("cancel") \ recvEOF \subseteq Streams /\ IsFiniteSet(ids("cancel") \ recvEOF)
  BY <1>2, FS_Subset
<1>6. IsFiniteSet(acked \cup ids("data")) /\ acked \cup ids("data") \subseteq Streams
  <2> HIDE DEF ids
  <2> QED BY <1>3, FS_Union
<1>7. /\ sendTrigger' = PushAll(sendTrigger, acked \cup ids("data"))
      /\ updateWindow' = PushAll(updateWindow, ids("window") \ recvEOF)
      /\ cancelTrigger' = PushAll(cancelTrigger, ids("cancel") \ recvEOF)
      /\ retransmit' = [s \in Streams |->
                           retransmit[s] \cup {p.k : p \in {q \in lost : q.kind = "data" /\ q.id = s}}]
  BY DEF OnLosses
<1>8. \A p \in lost : p.kind = "data" => p.id \in ids("data")
  OBVIOUS
<1>9. ASSUME NEW s \in Streams
      PROVE  /\ retransmit'[s] \in SUBSET Int
             /\ retransmit'[s] = retransmit[s] \/ s \in ids("data")
  <2>1. retransmit'[s] = retransmit[s] \cup {p.k : p \in {q \in lost : q.kind = "data" /\ q.id = s}}
    BY <1>7
  <2>2. \A p \in lost : p.k \in Int
    BY <1>1 DEF Sent
  <2>3. retransmit[s] \in SUBSET Int
    BY DEF StreamInv
  <2>4. CASE s \in ids("data")
    BY <2>1, <2>2, <2>3, <2>4
  <2>5. CASE s \notin ids("data")
    <3>1. {q \in lost : q.kind = "data" /\ q.id = s} = {}
      BY <2>5
    <3> QED BY <2>1, <2>3, <3>1
  <2> QED BY <2>4, <2>5
<1>10. retransmit' \in [Streams -> SUBSET Int]
  <2>1. retransmit' = [s \in Streams |-> retransmit'[s]]
    BY <1>7
  <2> QED BY <2>1, <1>9
<1> HIDE DEF ids
<1>11. /\ Sound(sendTrigger') /\ (Woken(sendTrigger) => Woken(sendTrigger'))
       /\ ToSet(sendTrigger'.queue) = ToSet(sendTrigger.queue) \cup (acked \cup ids("data"))
  BY <1>6, <1>7, PushAllFacts DEF QueueInv
<1>12. Sound(updateWindow') /\ (Woken(updateWindow) => Woken(updateWindow'))
  BY <1>4, <1>7, PushAllFacts DEF QueueInv
<1>13. Sound(cancelTrigger') /\ (Woken(cancelTrigger) => Woken(cancelTrigger'))
  BY <1>5, <1>7, PushAllFacts DEF QueueInv
<1> QED BY <1>8, <1>9, <1>10, <1>11, <1>12, <1>13 DEF QueueInv, AllWoken

-----------------------------------------------------------------------------
(* Every step keeps the queues sound *)

\* The packets an ACK or an expired timer gives up on, and the streams it names.
LEMMA LossesFacts ==
    ASSUME QueueInv, FlightInv, StreamInv, HandlePacket \/ OnTimeout
    PROVE  /\ QueueInv' /\ (AllWoken => AllWoken') /\ FlightInv'
           /\ retransmit' \in [Streams -> SUBSET Int] /\ unacked' \in [Streams -> SUBSET Int]
           /\ \A s \in Streams : unacked[s] = {} => unacked'[s] = {}
           /\ ToSet(sendTrigger.queue) \subseteq ToSet(sendTrigger.queue)'
           /\ \A p \in ToSet(outstanding) :
                 p.kind = "data" => p \in ToSet(outstanding)' \/ p.id \in ToSet(sendTrigger.queue)'
           /\ \A s \in Streams : retransmit'[s] = retransmit[s] \/ s \in ToSet(sendTrigger.queue)'
<1>1. outstanding \in Seq(Sent) /\ IsInjective(outstanding) /\ Len(outstanding) \in Nat
      /\ DOMAIN outstanding = 1 .. Len(outstanding) /\ \A p \in ToSet(outstanding) : p \in Sent
  BY DEF FlightInv, ToSet
<1>2. \A n \in 0 .. Len(outstanding) : {outstanding[i] : i \in 1 .. n} \in SUBSET ToSet(outstanding)
  BY <1>1 DEF ToSet
<1>3. CASE HandlePacket
  <2> DEFINE m == Head(recv.queue)
             acked == IF m.kind = "data" THEN {m.id} ELSE {}
  <2>1. CASE UNCHANGED <<outstanding, unacked, retransmit, queues>>
    <3>1. /\ outstanding' = outstanding /\ unacked' = unacked /\ retransmit' = retransmit
          /\ sendTrigger' = sendTrigger /\ updateWindow' = updateWindow
          /\ cancelTrigger' = cancelTrigger
      BY <2>1 DEF queues
    <3> QED BY <3>1 DEF QueueInv, FlightInv, StreamInv, AllWoken
  <2>2. CASE /\ m \in ToSet(outstanding)
             /\ \E n \in 0 .. Len(outstanding) :
                   LET lost == {outstanding[i] : i \in 1 .. n}
                   IN /\ outstanding' = Without(outstanding, lost \cup {m})
                      /\ OnLosses(lost, acked)
             /\ unacked' = IF m.kind = "data" THEN [unacked EXCEPT ![m.id] = @ \ {m.k}]
                                              ELSE unacked
    <3>1. PICK n \in 0 .. Len(outstanding) :
               /\ outstanding' = Without(outstanding, {outstanding[i] : i \in 1 .. n} \cup {m})
               /\ OnLosses({outstanding[i] : i \in 1 .. n}, acked)
      BY <2>2
    <3> DEFINE lost == {outstanding[i] : i \in 1 .. n}
    <3>2. lost \in SUBSET ToSet(outstanding)
      BY <1>2
    <3>3. acked \in SUBSET Streams /\ IsFiniteSet(acked)
      BY <1>1, <2>2, FS_Singleton, FS_EmptySet DEF Sent
    <3> HIDE DEF lost
    <3>4. /\ outstanding' \in Seq(Sent) /\ IsInjective(outstanding')
          /\ ToSet(outstanding)' = ToSet(outstanding) \ (lost \cup {m})
      BY <1>1, <3>1, WithoutFacts DEF lost
    <3> HIDE DEF acked
    <3>5. /\ QueueInv' /\ (AllWoken => AllWoken')
          /\ retransmit' \in [Streams -> SUBSET Int]
          /\ ToSet(sendTrigger.queue) \cup acked \subseteq ToSet(sendTrigger.queue)'
          /\ \A p \in lost : p.kind = "data" => p.id \in ToSet(sendTrigger.queue)'
          /\ \A s \in Streams : retransmit'[s] = retransmit[s] \/ s \in ToSet(sendTrigger.queue)'
      <4>1. OnLosses(lost, acked)
        BY <3>1 DEF lost
      <4> QED BY <3>2, <3>3, <4>1, OnLossesFacts
    <3>6. /\ unacked' \in [Streams -> SUBSET Int]
          /\ \A s \in Streams : unacked[s] = {} => unacked'[s] = {}
      BY <2>2 DEF StreamInv
    <3>7. m.kind = "data" => m.id \in ToSet(sendTrigger.queue)'
      BY <3>5 DEF acked
    <3> QED BY <3>4, <3>5, <3>6, <3>7 DEF FlightInv
  <2> QED BY <1>3, <2>1, <2>2 DEF HandlePacket
<1>4. CASE OnTimeout
  <2> DEFINE rest == Without(outstanding, {p \in ToSet(outstanding) : ~ Retransmittable(p)})
  <2>1. unacked' = unacked
    BY <1>4 DEF OnTimeout
  <2>2. CASE \E n \in 1 .. Len(outstanding) :
               /\ outstanding' = Without(outstanding, {outstanding[i] : i \in 1 .. n})
               /\ OnLosses({outstanding[i] : i \in 1 .. n}, {})
    <3>1. PICK n \in 1 .. Len(outstanding) :
               /\ outstanding' = Without(outstanding, {outstanding[i] : i \in 1 .. n})
               /\ OnLosses({outstanding[i] : i \in 1 .. n}, {})
      BY <2>2
    <3> DEFINE lost == {outstanding[i] : i \in 1 .. n}
    <3>2. lost \in SUBSET ToSet(outstanding)
      <4>1. n \in 0 .. Len(outstanding)
        BY <1>1
      <4> QED BY <1>2, <4>1
    <3>3. outstanding' = Without(outstanding, lost) /\ OnLosses(lost, {})
      BY <3>1
    <3> HIDE DEF lost
    <3>4. /\ outstanding' \in Seq(Sent) /\ IsInjective(outstanding')
          /\ ToSet(outstanding)' = ToSet(outstanding) \ lost
      BY <1>1, <3>3, WithoutFacts
    <3>5. /\ QueueInv' /\ (AllWoken => AllWoken')
          /\ retransmit' \in [Streams -> SUBSET Int]
          /\ ToSet(sendTrigger.queue) \subseteq ToSet(sendTrigger.queue)'
          /\ \A p \in lost : p.kind = "data" => p.id \in ToSet(sendTrigger.queue)'
          /\ \A s \in Streams : retransmit'[s] = retransmit[s] \/ s \in ToSet(sendTrigger.queue)'
      <4>1. {} \in SUBSET Streams /\ IsFiniteSet({})
        BY FS_EmptySet
      <4> QED BY <3>2, <3>3, <4>1, OnLossesFacts
    <3> QED BY <2>1, <3>4, <3>5 DEF FlightInv, StreamInv
  <2>3. CASE outstanding' = rest /\ OnLosses(IF rest = <<>> THEN {} ELSE {Head(rest)}, {})
    <3> DEFINE lost == IF rest = <<>> THEN {} ELSE {Head(rest)}
    <3>1. /\ rest \in Seq(Sent) /\ IsInjective(rest)
          /\ ToSet(rest) = ToSet(outstanding) \ {p \in ToSet(outstanding) : ~ Retransmittable(p)}
      BY <1>1, WithoutFacts
    <3>2. \A p \in ToSet(outstanding) : p.kind = "data" => p \in ToSet(rest)
      BY <3>1 DEF Retransmittable
    <3> HIDE DEF rest
    <3>3. lost \in SUBSET ToSet(outstanding)
      <4>1. rest # <<>> => Head(rest) = rest[1] /\ 1 \in DOMAIN rest
        BY <3>1
      <4>2. rest # <<>> => Head(rest) \in ToSet(rest)
        BY <4>1 DEF ToSet
      <4> QED BY <3>1, <4>2
    <3>4. OnLosses(lost, {})
      BY <2>3
    <3> HIDE DEF lost
    <3>5. /\ QueueInv' /\ (AllWoken => AllWoken')
          /\ retransmit' \in [Streams -> SUBSET Int]
          /\ ToSet(sendTrigger.queue) \subseteq ToSet(sendTrigger.queue)'
          /\ \A s \in Streams : retransmit'[s] = retransmit[s] \/ s \in ToSet(sendTrigger.queue)'
      <4>1. {} \in SUBSET Streams /\ IsFiniteSet({})
        BY FS_EmptySet
      <4> QED BY <3>3, <3>4, <4>1, OnLossesFacts
    <3>6. ToSet(outstanding)' = ToSet(rest)
      BY <2>3
    <3> QED BY <2>1, <2>3, <3>1, <3>2, <3>5, <3>6 DEF FlightInv, StreamInv
  <2> QED BY <1>4, <2>2, <2>3 DEF OnTimeout
<1> QED BY <1>3, <1>4

\* A pass that comes to the queues.
Pass == Blocked \/ SendCancel \/ SendWindow \/ (\E k \in 1 .. MaxData : SendRetransmission(k))
          \/ SendNewData \/ SendNoStream

LEMMA PassQueues ==
    ASSUME QueueInv, Pass
    PROVE  QueueInv' /\ AllWoken'
<1>1. /\ Sound(Pop(sendTrigger)) /\ Woken(Pop(sendTrigger))
      /\ Sound(Pop(updateWindow)) /\ Woken(Pop(updateWindow))
      /\ Sound(Pop(cancelTrigger)) /\ Woken(Pop(cancelTrigger))
  BY PopFacts DEF QueueInv
<1>2. /\ First(sendTrigger) \in Streams \cup {none}
      /\ First(updateWindow) \in Streams \cup {none}
      /\ First(cancelTrigger) \in Streams \cup {none}
  BY PopFacts DEF QueueInv
<1>3. PoppedStream # none => PoppedStream \in Streams
  BY <1>2 DEF PoppedStream
<1>4. /\ Live(First(updateWindow)) => First(updateWindow) \in Streams
      /\ Live(First(cancelTrigger)) => First(cancelTrigger) \in Streams
  BY <1>2 DEF Live
<1>5. \/ sendTrigger' = Pop(sendTrigger)
      \/ PoppedStream \in Streams /\ sendTrigger' = Push(Pop(sendTrigger), PoppedStream)
  <2>1. CASE Blocked \/ SendNoStream
    BY <2>1 DEF Blocked, SendNoStream
  <2>2. CASE SendCancel \/ SendWindow
    BY <2>2, <1>3 DEF SendCancel, SendWindow, PushIf
  <2>3. CASE \E k \in 1 .. MaxData : SendRetransmission(k)
    BY <2>3, <1>3 DEF SendRetransmission, PushIf
  <2>4. CASE SendNewData
    BY <2>4, <1>3 DEF SendNewData, PushIf
  <2> QED BY <2>1, <2>2, <2>3, <2>4 DEF Pass
<1>6. \/ updateWindow' = Pop(updateWindow)
      \/ First(updateWindow) \in Streams /\ updateWindow' = Push(Pop(updateWindow), First(updateWindow))
  <2>1. CASE Blocked
    BY <2>1, <1>4 DEF Blocked, PushIf
  <2>2. CASE SendCancel
    BY <2>2, <1>2 DEF SendCancel, PushIf
  <2>3. CASE SendWindow \/ StreamSlot
    BY <2>3 DEF SendWindow, StreamSlot
  <2> QED BY <2>1, <2>2, <2>3 DEF Pass, SendRetransmission, SendNewData, SendNoStream
<1>7. \/ cancelTrigger' = Pop(cancelTrigger)
      \/ First(cancelTrigger) \in Streams /\ cancelTrigger' = Push(Pop(cancelTrigger), First(cancelTrigger))
  <2>1. CASE Blocked
    BY <2>1, <1>4 DEF Blocked, PushIf
  <2>2. CASE SendCancel \/ SendWindow \/ StreamSlot
    BY <2>2 DEF SendCancel, SendWindow, StreamSlot
  <2> QED BY <2>1, <2>2 DEF Pass, SendRetransmission, SendNewData, SendNoStream
<1>8. Sound(sendTrigger') /\ Woken(sendTrigger')
  BY <1>1, <1>5, PushFacts
<1>9. Sound(updateWindow') /\ Woken(updateWindow')
  BY <1>1, <1>6, PushFacts
<1>10. Sound(cancelTrigger') /\ Woken(cancelTrigger')
  BY <1>1, <1>7, PushFacts
<1> QED BY <1>8, <1>9, <1>10 DEF QueueInv, AllWoken

LEMMA QueueStep ==
    ASSUME LoopInv, Moves
    PROVE  QueueInv' /\ (AllWoken => AllWoken' \/ (pc = "select" /\ pc' = "woken"))
<1>1. CASE UNCHANGED queues
  <2>1. /\ sendTrigger' = sendTrigger /\ updateWindow' = updateWindow
        /\ cancelTrigger' = cancelTrigger
    BY <1>1 DEF queues
  <2> QED BY <2>1 DEF LoopInv, QueueInv, AllWoken
<1>2. ASSUME NEW s \in Streams, AppendData(s) \/ Revive(s) PROVE QueueInv' /\ (AllWoken => AllWoken')
  <2>1. /\ sendTrigger' = Push(sendTrigger, s) /\ updateWindow' = updateWindow
        /\ cancelTrigger' = cancelTrigger
    BY <1>2 DEF AppendData, Revive
  <2> QED BY <2>1, PushFacts DEF LoopInv, QueueInv, AllWoken
<1>3. ASSUME NEW s \in Streams, AskWindow(s) PROVE QueueInv' /\ (AllWoken => AllWoken')
  <2>1. /\ sendTrigger' = sendTrigger /\ updateWindow' = Push(updateWindow, s)
        /\ cancelTrigger' = cancelTrigger
    BY <1>3 DEF AskWindow
  <2> QED BY <2>1, PushFacts DEF LoopInv, QueueInv, AllWoken
<1>4. ASSUME NEW s \in Streams, Cancel(s) PROVE QueueInv' /\ (AllWoken => AllWoken')
  <2>1. /\ sendTrigger' = sendTrigger /\ updateWindow' = updateWindow
        /\ cancelTrigger' = Push(cancelTrigger, s)
    BY <1>4 DEF Cancel
  <2> QED BY <2>1, PushFacts DEF LoopInv, QueueInv, AllWoken
<1>5. CASE HandlePacket \/ OnTimeout
  BY <1>5, LossesFacts DEF LoopInv
<1>6. CASE Pass
  BY <1>6, PassQueues DEF LoopInv
<1>7. CASE WakeToSend
  <2>1. ASSUME NEW q, Sound(q) PROVE Sound([q EXCEPT !.note = FALSE])
    BY <2>1 DEF Sound
  <2>2. pc = "select" /\ pc' = "woken"
    BY <1>7 DEF WakeToSend
  <2>3. /\ sendTrigger' = sendTrigger \/ sendTrigger' = [sendTrigger EXCEPT !.note = FALSE]
        /\ updateWindow' = updateWindow \/ updateWindow' = [updateWindow EXCEPT !.note = FALSE]
        /\ cancelTrigger' = cancelTrigger \/ cancelTrigger' = [cancelTrigger EXCEPT !.note = FALSE]
    BY <1>7 DEF WakeToSend
  <2> QED BY <2>1, <2>2, <2>3 DEF LoopInv, QueueInv
<1>8. CASE \/ \E s \in Streams : ReadEOF(s)
           \/ \E exempt \in BOOLEAN : SendDatagram(exempt)
           \/ PeerData \/ \E p \in ToSet(outstanding) : PeerACK(p)
  BY <1>8, <1>1 DEF ReadEOF, SendDatagram, PeerData, PeerACK
<1>9. CASE Park \/ WakeByTimer \/ WakeToResume \/ NotExpired \/ DatagramPass \/ DropDatagram
             \/ NoDatagram \/ SendProbe
  BY <1>9, <1>1 DEF Park, WakeByTimer, WakeToResume, NotExpired, DatagramPass, DropDatagram,
                    NoDatagram, SendProbe
<1> QED BY <1>2, <1>3, <1>4, <1>5, <1>6, <1>7, <1>8, <1>9
        DEF Moves, Others, Loop, SendHalf, Pass

-----------------------------------------------------------------------------
(* Every step keeps what is in flight, queued and counted *)

\* A step sends one packet, gives up on some, or leaves the flight alone.
LEMMA FlightFacts ==
    ASSUME LoopInv, Moves
    PROVE  \/ UNCHANGED <<outstanding, pacing>>
           \/ (HandlePacket \/ OnTimeout) /\ pacing' = pacing
           \/ \E p \in Sent : OnSent(p) /\ pc' # "select"
<1>1. CASE \/ \E s \in Streams : AppendData(s) \/ AskWindow(s) \/ Cancel(s) \/ ReadEOF(s)
           \/ \E exempt \in BOOLEAN : SendDatagram(exempt)
           \/ PeerData \/ \E p \in ToSet(outstanding) : PeerACK(p)
  BY <1>1 DEF AppendData, AskWindow, Cancel, ReadEOF, SendDatagram, PeerData, PeerACK
<1>2. CASE (\E s \in Streams : Revive(s)) \/ Park \/ WakeToSend \/ WakeByTimer \/ WakeToResume
             \/ NotExpired \/ DropDatagram \/ NoDatagram \/ Blocked \/ SendNoStream
  BY <1>2 DEF Revive, Park, WakeToSend, WakeByTimer, WakeToResume, NotExpired, DropDatagram,
              NoDatagram, Blocked, SendNoStream
<1>3. CASE HandlePacket \/ OnTimeout
  BY <1>3 DEF HandlePacket, OnTimeout
<1>4. CASE DatagramPass
  <2>1. OnSent(Head(datagramSend)) /\ pc' = "top" /\ datagramSend # <<>>
    BY <1>4 DEF DatagramPass
  <2>2. Head(datagramSend) \in Datagram
    BY <2>1 DEF LoopInv, DatagramInv
  <2> QED BY <2>1, <2>2 DEF Sent, Datagram
<1>5. /\ First(sendTrigger) \in Streams \cup {none}
      /\ First(updateWindow) \in Streams \cup {none}
      /\ First(cancelTrigger) \in Streams \cup {none}
  BY PopFacts DEF LoopInv, QueueInv
<1>6. PoppedStream \in Streams \cup {none}
  BY <1>5 DEF PoppedStream
<1>7. CASE SendCancel
  <2>1. OnSent(LoopPacket("cancel", First(cancelTrigger), 0)) /\ pc' = "top"
        /\ First(cancelTrigger) \in Streams
    BY <1>7, <1>5 DEF SendCancel, Live
  <2> QED BY <2>1 DEF Sent, LoopPacket
<1>8. CASE SendWindow
  <2>1. OnSent(LoopPacket("window", First(updateWindow), 0)) /\ pc' = "top"
        /\ First(updateWindow) \in Streams
    BY <1>8, <1>5 DEF SendWindow, Live
  <2> QED BY <2>1 DEF Sent, LoopPacket
<1>9. ASSUME NEW k \in 1 .. MaxData, SendRetransmission(k)
      PROVE  \E p \in Sent : OnSent(p) /\ pc' # "select"
  <2>1. OnSent(LoopPacket("data", PoppedStream, k)) /\ pc' = "probe" /\ PoppedStream \in Streams
    BY <1>9, <1>6 DEF SendRetransmission
  <2>2. LoopPacket("data", PoppedStream, k) \in Sent
    BY <2>1 DEF Sent, LoopPacket
  <2> QED BY <2>1, <2>2
<1>10. CASE SendNewData
  <2> DEFINE k == written[PoppedStream] - buffered[PoppedStream] + 1
  <2>1. OnSent(LoopPacket("data", PoppedStream, k)) /\ pc' = "probe" /\ PoppedStream \in Streams
    BY <1>10, <1>6 DEF SendNewData
  <2>2. k \in Int
    BY <2>1 DEF LoopInv, StreamInv
  <2> HIDE DEF k
  <2> QED BY <2>1, <2>2 DEF Sent, LoopPacket
<1>11. CASE SendProbe
  <2>1. pc' = "top" /\ (OnSent(LoopPacket("probe", none, 0)) \/ UNCHANGED <<outstanding, pacing>>)
    BY <1>11 DEF SendProbe
  <2> QED BY <2>1 DEF Sent, LoopPacket
<1> QED BY <1>1, <1>2, <1>3, <1>4, <1>7, <1>8, <1>9, <1>10, <1>11
        DEF Moves, Others, Loop, SendHalf

LEMMA FlightStep ==
    ASSUME LoopInv, Moves
    PROVE  FlightInv' /\ pacing' \in BOOLEAN
<1>1. FlightInv /\ pacing \in BOOLEAN
  BY DEF LoopInv, PhaseInv
<1>2. CASE UNCHANGED <<outstanding, pacing>>
  BY <1>1, <1>2 DEF FlightInv
<1>3. CASE (HandlePacket \/ OnTimeout) /\ pacing' = pacing
  BY <1>1, <1>3, LossesFacts DEF LoopInv
<1>4. CASE \E p \in Sent : OnSent(p)
  BY <1>1, <1>4, OnSentFacts
<1> QED BY <1>2, <1>3, <1>4, FlightFacts

LEMMA DatagramStep ==
    ASSUME LoopInv, Moves
    PROVE  DatagramInv'
<1>1. CASE UNCHANGED <<datagramSend, datagrams>>
  BY <1>1 DEF LoopInv, DatagramInv
<1>2. CASE \/ \E s \in Streams : AppendData(s) \/ AskWindow(s) \/ Cancel(s) \/ ReadEOF(s)
           \/ PeerData \/ \E p \in ToSet(outstanding) : PeerACK(p)
  BY <1>1, <1>2 DEF AppendData, AskWindow, Cancel, ReadEOF, PeerData, PeerACK, dgVars
<1>3. CASE (\E s \in Streams : Revive(s)) \/ HandlePacket \/ Park \/ WakeToSend \/ WakeByTimer
             \/ WakeToResume \/ NotExpired \/ OnTimeout \/ NoDatagram \/ SendProbe
  BY <1>1, <1>3 DEF Revive, HandlePacket, Park, WakeToSend, WakeByTimer, WakeToResume, NotExpired,
                    OnTimeout, NoDatagram, SendProbe, dgVars
<1>4. CASE Pass
  BY <1>1, <1>4 DEF Pass, Blocked, SendCancel, SendWindow, SendRetransmission, SendNewData,
                    SendNoStream, dgVars
<1>5. /\ datagramSend \in Seq(Datagram) /\ Len(datagramSend) <= DatagramQueue
      /\ datagrams \in Nat /\ Len(datagramSend) <= datagrams /\ datagrams <= MaxDatagrams
  BY DEF LoopInv, DatagramInv
<1>6. CASE DatagramPass \/ DropDatagram
  <2>1. datagramSend # <<>> /\ datagramSend' = Tail(datagramSend) /\ datagrams' = datagrams
    BY <1>6 DEF DatagramPass, DropDatagram
  <2>2. datagramSend' \in Seq(Datagram) /\ Len(datagramSend') = Len(datagramSend) - 1
    BY <1>5, <2>1
  <2> QED BY <1>5, <2>1, <2>2, LoopAssumption DEF DatagramInv
<1>7. ASSUME NEW exempt \in BOOLEAN, SendDatagram(exempt) PROVE DatagramInv'
  <2> DEFINE p == LoopPacket(IF exempt THEN "uncontrolled" ELSE "datagram", none, datagrams')
  <2>1. /\ Len(datagramSend) < DatagramQueue /\ datagrams < MaxDatagrams
        /\ datagrams' = datagrams + 1 /\ datagramSend' = Append(datagramSend, p)
    BY <1>7 DEF SendDatagram
  <2>2. p \in Datagram
    BY <1>5, <2>1 DEF Datagram, LoopPacket
  <2> HIDE DEF p
  <2>3. datagramSend' \in Seq(Datagram) /\ Len(datagramSend') = Len(datagramSend) + 1
    BY <1>5, <2>1, <2>2
  <2> QED BY <1>5, <2>1, <2>3, LoopAssumption DEF DatagramInv
<1> QED BY <1>2, <1>3, <1>4, <1>6, <1>7 DEF Moves, Others, Loop, SendHalf, Pass

LEMMA StreamStep ==
    ASSUME LoopInv, Moves
    PROVE  StreamInv'
<1>1. CASE UNCHANGED <<streamVars, congestionBlocked>>
  BY <1>1 DEF LoopInv, StreamInv, streamVars
<1>2. CASE \/ \E s \in Streams : AskWindow(s) \/ Cancel(s) \/ ReadEOF(s)
           \/ \E exempt \in BOOLEAN : SendDatagram(exempt)
           \/ PeerData \/ \E p \in ToSet(outstanding) : PeerACK(p)
  BY <1>1, <1>2 DEF AskWindow, Cancel, ReadEOF, SendDatagram, PeerData, PeerACK
<1>3. CASE Park \/ WakeToSend \/ WakeByTimer \/ WakeToResume \/ NotExpired \/ DatagramPass
             \/ DropDatagram \/ NoDatagram \/ SendProbe
  BY <1>1, <1>3 DEF Park, WakeToSend, WakeByTimer, WakeToResume, NotExpired, DatagramPass,
                    DropDatagram, NoDatagram, SendProbe
<1>4. /\ written \in [Streams -> Nat] /\ buffered \in [Streams -> Nat]
      /\ retransmit \in [Streams -> SUBSET Int] /\ unacked \in [Streams -> SUBSET Int]
      /\ congestionBlocked \subseteq Streams /\ removed \subseteq Streams
  BY DEF LoopInv, StreamInv
<1>5. ASSUME NEW s \in Streams, AppendData(s) \/ Revive(s) PROVE StreamInv'
  <2>1. CASE AppendData(s)
    BY <1>4, <2>1 DEF AppendData, StreamInv
  <2>2. CASE Revive(s)
    BY <1>4, <2>2 DEF Revive, StreamInv, streamVars
  <2> QED BY <1>5, <2>1, <2>2
<1>6. CASE HandlePacket \/ OnTimeout
  <2>1. retransmit' \in [Streams -> SUBSET Int] /\ unacked' \in [Streams -> SUBSET Int]
    BY <1>6, LossesFacts DEF LoopInv
  <2>2. UNCHANGED <<written, buffered, congestionBlocked, removed>>
    BY <1>6 DEF HandlePacket, OnTimeout
  <2> QED BY <1>4, <2>1, <2>2 DEF StreamInv
<1>7. /\ First(sendTrigger) \in Streams \cup {none}
      /\ PoppedStream \in Streams \cup {none} /\ Reaped \subseteq Streams
  <2>1. First(sendTrigger) \in Streams \cup {none}
    BY PopFacts DEF LoopInv, QueueInv
  <2> QED BY <2>1 DEF PoppedStream, Reaped
<1>8. CASE Blocked
  BY <1>4, <1>7, <1>8 DEF Blocked, StreamInv
<1>9. CASE SendCancel \/ SendWindow \/ SendNoStream
  BY <1>4, <1>7, <1>9 DEF SendCancel, SendWindow, SendNoStream, StreamSlot, StreamInv
<1>10. ASSUME NEW k \in 1 .. MaxData, SendRetransmission(k) PROVE StreamInv'
  <2>1. /\ retransmit' = [retransmit EXCEPT ![PoppedStream] = @ \ {k}]
        /\ removed' = removed \cup Reaped
        /\ UNCHANGED <<written, buffered, unacked, congestionBlocked>>
    BY <1>10 DEF SendRetransmission, StreamSlot
  <2> QED BY <1>4, <1>7, <2>1 DEF StreamInv
<1>11. CASE SendNewData
  <2> DEFINE s == PoppedStream
             k == written[s] - buffered[s] + 1
  <2>1. /\ s \in Streams /\ buffered[s] > 0
        /\ buffered' = [buffered EXCEPT ![s] = @ - 1]
        /\ unacked' = [unacked EXCEPT ![s] = @ \cup {k}]
        /\ removed' = removed \cup Reaped
        /\ UNCHANGED <<written, retransmit, congestionBlocked>>
    BY <1>7, <1>11 DEF SendNewData, StreamSlot
  <2>2. k \in Int /\ buffered[s] - 1 \in Nat
    BY <1>4, <2>1
  <2> HIDE DEF s, k
  <2>3. buffered' \in [Streams -> Nat]
    BY <1>4, <2>1, <2>2
  <2>4. unacked' \in [Streams -> SUBSET Int]
    BY <1>4, <2>1, <2>2
  <2> QED BY <1>4, <1>7, <2>1, <2>3, <2>4 DEF StreamInv
<1> QED BY <1>2, <1>3, <1>5, <1>6, <1>8, <1>9, <1>10, <1>11 DEF Moves, Others, Loop, SendHalf

LEMMA PhaseStep ==
    ASSUME LoopInv, Moves
    PROVE  PhaseInv'
<1>1. PhaseInv /\ pacing' \in BOOLEAN
  BY FlightStep DEF LoopInv
<1>2. CASE \/ \E s \in Streams : AppendData(s) \/ AskWindow(s) \/ Cancel(s) \/ ReadEOF(s)
           \/ \E exempt \in BOOLEAN : SendDatagram(exempt)
           \/ PeerData \/ \E p \in ToSet(outstanding) : PeerACK(p)
  BY <1>1, <1>2 DEF AppendData, AskWindow, Cancel, ReadEOF, SendDatagram, PeerData, PeerACK, PhaseInv
<1>3. CASE (\E s \in Streams : Revive(s)) \/ HandlePacket \/ Park \/ WakeToResume \/ NotExpired
  BY <1>1, <1>3 DEF Revive, HandlePacket, Park, WakeToResume, NotExpired, PhaseInv
<1>4. CASE WakeToSend \/ WakeByTimer
  <2>1. expired' \in BOOLEAN /\ pc' = "woken" /\ isPTO' = isPTO
    BY <1>4 DEF WakeToSend, WakeByTimer, LossTimer
  <2> QED BY <1>1, <2>1 DEF PhaseInv
<1>5. CASE OnTimeout
  <2>1. isPTO' \in BOOLEAN /\ expired' = FALSE /\ pc' = "half"
    BY <1>5 DEF OnTimeout
  <2> QED BY <1>1, <2>1 DEF PhaseInv
<1>6. CASE DatagramPass \/ DropDatagram \/ NoDatagram \/ SendProbe
  BY <1>1, <1>6 DEF DatagramPass, DropDatagram, NoDatagram, SendProbe, PhaseInv
<1>7. CASE Pass
  BY <1>1, <1>7 DEF Pass, Blocked, SendCancel, SendWindow, SendRetransmission, SendNewData,
                    SendNoStream, PhaseInv
<1> QED BY <1>2, <1>3, <1>4, <1>5, <1>6, <1>7 DEF Moves, Others, Loop, SendHalf, Pass

-----------------------------------------------------------------------------
(* Every step keeps the wakes *)

LEMMA OwedStep ==
    ASSUME LoopInv, Moves
    PROVE  OwedInv'
<1>1. OwedInv
  BY DEF LoopInv
<1>2. CASE \/ \E s \in Streams : AppendData(s) \/ AskWindow(s) \/ Cancel(s) \/ ReadEOF(s)
           \/ \E exempt \in BOOLEAN : SendDatagram(exempt)
           \/ PeerData \/ \E p \in ToSet(outstanding) : PeerACK(p)
  BY <1>1, <1>2 DEF AppendData, AskWindow, Cancel, ReadEOF, SendDatagram, PeerData, PeerACK,
                    ackVars, OwedInv
<1>3. CASE (\E s \in Streams : Revive(s)) \/ Park \/ WakeByTimer \/ WakeToResume \/ NotExpired
             \/ OnTimeout \/ SendProbe
  BY <1>1, <1>3 DEF Revive, Park, WakeByTimer, WakeToResume, NotExpired, OnTimeout, SendProbe,
                    ackVars, OwedInv
<1>4. CASE HandlePacket
  <2>1. pc' = pc /\ (ptNote' = TRUE \/ UNCHANGED <<ackOwed, ptNote>>)
    BY <1>4, Zenon DEF HandlePacket
  <2> QED BY <1>1, <2>1 DEF OwedInv
<1>5. CASE WakeToSend
  BY <1>5 DEF WakeToSend, OwedInv
<1>6. CASE DatagramPass \/ DropDatagram \/ NoDatagram
  BY <1>6 DEF DatagramPass, DropDatagram, NoDatagram, OwedInv
<1>7. CASE Pass
  BY <1>1, <1>7 DEF Pass, Blocked, SendCancel, SendWindow, StreamSlot, SendRetransmission,
                    SendNewData, SendNoStream, ackVars, OwedInv
<1> QED BY <1>2, <1>3, <1>4, <1>5, <1>6, <1>7 DEF Moves, Others, Loop, SendHalf, Pass

LEMMA ParkStep ==
    ASSUME LoopInv, Moves
    PROVE  ParkInv'
<1> SUFFICES ASSUME pc' = "select" PROVE ParkInv'
  BY DEF ParkInv
<1>1. ParkInv
  BY DEF LoopInv
<1>2. CASE Park
  <2>1. recv' = recv /\ recv.queue = <<>> /\ UNCHANGED <<congestionBlocked, outstanding>>
        /\ (congestionBlocked = {} \/ ~ CanSend)
    BY <1>2 DEF Park
  <2>2. ASSUME outstanding = <<>> PROVE CanSend
    <3>1. {p \in ToSet(outstanding) : ~ CongestionExempt(p)} = {}
      BY <2>2 DEF ToSet
    <3> QED BY <3>1, FS_EmptySet, LoopAssumption DEF CanSend
  <2> QED BY <2>1, <2>2 DEF ParkInv
<1>3. CASE \E s \in Streams : AppendData(s) \/ AskWindow(s) \/ Cancel(s) \/ ReadEOF(s)
  BY <1>1, <1>3 DEF AppendData, AskWindow, Cancel, ReadEOF, ParkInv
<1>4. CASE \E exempt \in BOOLEAN : SendDatagram(exempt)
  BY <1>1, <1>4 DEF SendDatagram, ParkInv
<1>5. CASE PeerData \/ \E p \in ToSet(outstanding) : PeerACK(p)
  <2>1. ASSUME NEW x, recv' = Push(recv, x)
        PROVE  recv' = recv \/ recv'.note = TRUE
    BY <2>1 DEF Push
  <2>2. pc' = pc /\ UNCHANGED <<congestionBlocked, outstanding>> /\ (recv' = recv \/ recv'.note = TRUE)
    BY <1>5, <2>1 DEF PeerData, PeerACK
  <2> QED BY <1>1, <2>2 DEF ParkInv
<1>6. CASE Loop /\ ~ Park
  BY <1>6 DEF Loop, Revive, HandlePacket, WakeToSend, WakeByTimer, WakeToResume, SendHalf,
              NotExpired, OnTimeout, DatagramPass, DropDatagram, NoDatagram, Blocked, SendCancel,
              SendWindow, SendRetransmission, SendNewData, SendNoStream, SendProbe
<1> QED BY <1>2, <1>3, <1>4, <1>5, <1>6 DEF Moves, Others

\* As long as no two datagrams share it, the wake of a datagram that cut a pass short
\* stays its own.
LEMMA WakeStep ==
    ASSUME LoopInv, WakeInv, Moves
    PROVE  WakeInv'
<1> SUFFICES ASSUME ~ shared' PROVE WakeInv'
  BY DEF WakeInv
<1>1. WakeInv /\ DatagramInv /\ DatagramInv'
  BY DatagramStep DEF LoopInv
<1>2. AllWoken => AllWoken' \/ (pc = "select" /\ pc' = "woken")
  BY QueueStep
<1>3. CASE \/ \E s \in Streams : AppendData(s) \/ AskWindow(s) \/ Cancel(s) \/ ReadEOF(s)
           \/ PeerData \/ \E p \in ToSet(outstanding) : PeerACK(p)
  <2>1. UNCHANGED <<pc, datagramSend, datagramNote, shared>>
    BY <1>3 DEF AppendData, AskWindow, Cancel, ReadEOF, PeerData, PeerACK, dgVars
  <2> QED BY <1>1, <1>2, <2>1 DEF WakeInv
<1>4. ASSUME NEW exempt \in BOOLEAN, SendDatagram(exempt) PROVE WakeInv'
  <2>1. /\ pc' = pc /\ datagramNote' = TRUE
        /\ ~ shared /\ ~ datagramNote /\ datagramSend = <<>>
    BY <1>4 DEF SendDatagram
  <2>2. Len(datagramSend') = 1
    <3>1. \E p : datagramSend' = Append(<<>>, p)
      BY <1>4, <2>1 DEF SendDatagram
    <3> QED BY <3>1
  <2> QED BY <1>1, <1>2, <2>1, <2>2 DEF WakeInv
<1>5. CASE (\E s \in Streams : Revive(s)) \/ HandlePacket \/ Park \/ WakeToResume \/ NotExpired
             \/ OnTimeout \/ SendProbe
  <2>1. /\ UNCHANGED <<datagramSend, datagramNote, shared>> /\ pc # "half"
        /\ (pc = "woken" /\ pc' = "half")
              \/ (pc \in {"top", "select", "probe"} /\ pc' \in {"top", "select", "probe"})
    BY <1>5 DEF Revive, HandlePacket, Park, WakeToResume, NotExpired, OnTimeout, SendProbe, dgVars
  <2> QED BY <1>1, <1>2, <2>1 DEF WakeInv
<1>6. CASE WakeByTimer
  <2>1. /\ UNCHANGED <<datagramSend, datagramNote, shared>>
        /\ pc = "select" /\ pc' = "woken"
    BY <1>6 DEF WakeByTimer, dgVars
  <2> QED BY <1>1, <2>1 DEF WakeInv
<1>7. CASE WakeToSend
  <2>1. /\ pc = "select" /\ pc' = "woken" /\ datagramSend' = datagramSend /\ shared' = shared
        /\ \/ datagramNote' = datagramNote
           \/ /\ datagramNote' = FALSE /\ sendTrigger' = sendTrigger
              /\ updateWindow' = updateWindow /\ cancelTrigger' = cancelTrigger
    BY <1>7 DEF WakeToSend
  <2>2. (datagramSend # <<>> => AllWoken /\ datagramNote) /\ Len(datagramSend) <= 1
    BY <1>1, <2>1 DEF WakeInv
  <2> QED BY <2>1, <2>2 DEF WakeInv, AllWoken
<1>8. CASE DatagramPass \/ DropDatagram
  <2>1. /\ datagramSend # <<>> /\ datagramSend' = Tail(datagramSend) /\ pc = "half"
        /\ datagramNote' = datagramNote /\ shared' = shared /\ pc' \in {"top", "pop"}
    BY <1>8 DEF DatagramPass, DropDatagram
  <2>2. datagramSend' = <<>> /\ Len(datagramSend') = 0
    <3>1. datagramSend \in Seq(Datagram) /\ Len(datagramSend) <= 1
      BY <1>1, <2>1 DEF DatagramInv, WakeInv
    <3>2. Len(datagramSend) \in Nat /\ Len(datagramSend) # 0
      BY <2>1, <3>1
    <3>3. Len(datagramSend) = 1
      BY <3>1, <3>2
    <3>4. datagramSend' \in Seq(Datagram) /\ Len(datagramSend') = 0
      BY <2>1, <3>1, <3>3
    <3> QED BY <3>4
  <2>3. datagramNote \/ AllWoken
    BY <1>1, <2>1 DEF WakeInv
  <2> QED BY <1>2, <2>1, <2>2, <2>3 DEF WakeInv
<1>9. CASE NoDatagram
  <2>1. datagramSend' = <<>> /\ pc' = "pop"
    BY <1>9 DEF NoDatagram, dgVars
  <2>2. Len(datagramSend') = 0
    BY <2>1
  <2> QED BY <2>1, <2>2 DEF WakeInv
<1>10. CASE Pass
  <2>1. /\ UNCHANGED <<datagramSend, datagramNote, shared>>
        /\ pc = "pop"
    BY <1>10 DEF Pass, Blocked, SendCancel, SendWindow, SendRetransmission, StreamSlot,
                 SendNewData, SendNoStream, dgVars
  <2>2. AllWoken'
    BY <1>10, PassQueues DEF LoopInv
  <2> QED BY <1>1, <2>1, <2>2 DEF WakeInv
<1> QED BY <1>3, <1>4, <1>5, <1>6, <1>7, <1>8, <1>9, <1>10
        DEF Moves, Others, Loop, SendHalf, Pass


-----------------------------------------------------------------------------
(* Every step keeps a stream with something to send where the loop finds it *)

Owes(s) == ~ Completed(s) /\ (buffered[s] > 0 \/ retransmit[s] # {})

Found(s) ==
    \/ s \in ToSet(sendTrigger.queue)
    \/ s \in congestionBlocked
    \/ \E p \in ToSet(outstanding) : p.kind = "data" /\ p.id = s

\* The stream a pass takes off the trigger is finished, parked, put back, or behind
\* the packet the pass sends.
LEMMA PassFinds ==
    ASSUME LoopInv, Moves, Pass, NEW s \in Streams, Owes(s) => Found(s)
    PROVE  Owes(s)' => Found(s)'
<1> DEFINE f == First(sendTrigger)
<1>1. /\ Sound(sendTrigger) /\ Sound(Pop(sendTrigger))
      /\ f \in Streams \cup {none}
      /\ ToSet(sendTrigger.queue) \subseteq ToSet(Pop(sendTrigger).queue) \cup {f}
  BY PopFacts DEF LoopInv, QueueInv
<1>2. /\ PoppedStream = none \/ PoppedStream = f
      /\ PoppedStream = none => f = none \/ Completed(f)
  BY <1>1, LoopAssumption DEF PoppedStream, Reaped
<1>3. PoppedStream # none => PoppedStream \in Streams
  BY <1>1, <1>2
<1>4. /\ written \in [Streams -> Nat] /\ buffered \in [Streams -> Nat]
      /\ retransmit \in [Streams -> SUBSET Int] /\ unacked \in [Streams -> SUBSET Int]
  BY DEF LoopInv, StreamInv
<1>5. ASSUME NEW x, x \in Streams,
             sendTrigger' = Pop(sendTrigger) \/ sendTrigger' = Push(Pop(sendTrigger), x)
      PROVE  ToSet(sendTrigger.queue) \subseteq ToSet(sendTrigger.queue)' \cup {f}
  <2>1. ToSet(Push(Pop(sendTrigger), x).queue) = ToSet(Pop(sendTrigger).queue) \cup {x}
    BY <1>1, <1>5, PushFacts
  <2>2. ToSet(Pop(sendTrigger).queue) \subseteq ToSet(sendTrigger'.queue)
    BY <1>5, <2>1
  <2> QED BY <1>1, <2>2
<1>6. FlightInv
  BY DEF LoopInv
<1>7. CASE Blocked
  <2>1. /\ sendTrigger' = Pop(sendTrigger) /\ outstanding' = outstanding
        /\ congestionBlocked' = congestionBlocked \cup ({PoppedStream} \ {none})
        /\ UNCHANGED <<written, buffered, retransmit, unacked>>
    BY <1>7 DEF Blocked
  <2>2. Owes(s)' <=> Owes(s)
    BY <2>1 DEF Owes, Completed, EofSent
  <2>3. CASE s = f
    <3>1. Completed(s) \/ s \in congestionBlocked'
      BY <1>2, <2>1, <2>3, LoopAssumption
    <3> QED BY <2>2, <3>1 DEF Owes, Found
  <2>4. CASE s # f
    <3>1. s \in ToSet(sendTrigger.queue) => s \in ToSet(sendTrigger.queue)'
      BY <1>1, <2>1, <2>4
    <3>2. Found(s) => Found(s)'
      BY <2>1, <3>1 DEF Found
    <3> QED BY <2>2, <3>2
  <2> QED BY <2>3, <2>4
<1>8. CASE SendCancel \/ SendWindow
  <2>1. /\ sendTrigger' = PushIf(Pop(sendTrigger), PoppedStream, PoppedStream # none)
        /\ UNCHANGED <<written, buffered, retransmit, unacked, congestionBlocked>>
    BY <1>8 DEF SendCancel, SendWindow
  <2>2. Owes(s)' <=> Owes(s)
    BY <2>1 DEF Owes, Completed, EofSent
  <2>3. ToSet(outstanding) \subseteq ToSet(outstanding)'
    <3>1. \E p \in Sent : OnSent(p)
      <4>1. First(cancelTrigger) \in Streams \cup {none} /\ First(updateWindow) \in Streams \cup {none}
        BY PopFacts DEF LoopInv, QueueInv
      <4>2. CASE SendCancel
        <5>1. /\ OnSent(LoopPacket("cancel", First(cancelTrigger), 0))
              /\ First(cancelTrigger) \in Streams
          BY <4>1, <4>2 DEF SendCancel, Live
        <5> QED BY <5>1 DEF Sent, LoopPacket
      <4>3. CASE SendWindow
        <5>1. /\ OnSent(LoopPacket("window", First(updateWindow), 0))
              /\ First(updateWindow) \in Streams
          BY <4>1, <4>3 DEF SendWindow, Live
        <5> QED BY <5>1 DEF Sent, LoopPacket
      <4> QED BY <1>8, <4>2, <4>3
    <3> QED BY <1>6, <3>1, OnSentFacts
  <2>4. CASE PoppedStream = none
    <3>1. sendTrigger' = Pop(sendTrigger)
      BY <2>1, <2>4 DEF PushIf
    <3>2. s = f => Completed(s)
      BY <1>2, <2>4, LoopAssumption
    <3>3. s # f => (s \in ToSet(sendTrigger.queue) => s \in ToSet(sendTrigger.queue)')
      BY <1>1, <3>1
    <3>4. s # f => (Found(s) => Found(s)')
      BY <2>1, <2>3, <3>3 DEF Found
    <3> QED BY <2>2, <3>2, <3>4 DEF Owes
  <2>5. CASE PoppedStream # none
    <3>1. sendTrigger' = Push(Pop(sendTrigger), f)
      BY <1>2, <2>1, <2>5 DEF PushIf
    <3>2. f \in Streams
      BY <1>2, <1>3, <2>5
    <3>3. ToSet(sendTrigger.queue) \subseteq ToSet(sendTrigger.queue)'
      BY <1>1, <3>1, <3>2, PushFacts
    <3>4. Found(s) => Found(s)'
      BY <2>1, <2>3, <3>3 DEF Found
    <3> QED BY <2>2, <3>4
  <2> QED BY <2>4, <2>5
<1>9. ASSUME NEW k \in Int, OnSent(LoopPacket("data", PoppedStream, k)), PoppedStream # none,
             sendTrigger' = Pop(sendTrigger) \/ sendTrigger' = Push(Pop(sendTrigger), PoppedStream),
             congestionBlocked' = congestionBlocked,
             s # PoppedStream => Owes(s)' = Owes(s)
      PROVE  Owes(s)' => Found(s)'
  <2> DEFINE p == LoopPacket("data", PoppedStream, k)
  <2>1. p \in Sent /\ p.kind = "data" /\ p.id = PoppedStream
    BY <1>3, <1>9 DEF Sent, LoopPacket
  <2> HIDE DEF p
  <2>2. ToSet(outstanding)' = ToSet(outstanding) \cup {p}
    <3>1. OnSent(p)
      BY <1>9 DEF p
    <3> QED BY <1>6, <2>1, <3>1, OnSentFacts
  <2>3. CASE s = PoppedStream
    BY <2>1, <2>2, <2>3 DEF Found
  <2>4. CASE s # PoppedStream
    <3>1. f = PoppedStream /\ PoppedStream \in Streams
      BY <1>2, <1>3, <1>9
    <3>2. s \in ToSet(sendTrigger.queue) => s \in ToSet(sendTrigger.queue)'
      BY <1>5, <1>9, <2>4, <3>1
    <3>3. Found(s) => Found(s)'
      BY <1>9, <2>2, <3>2 DEF Found
    <3> QED BY <1>9, <2>4, <3>3
  <2> QED BY <2>3, <2>4
<1>10. ASSUME NEW k \in 1 .. MaxData, SendRetransmission(k) PROVE Owes(s)' => Found(s)'
  <2>1. /\ OnSent(LoopPacket("data", PoppedStream, k)) /\ PoppedStream # none
        /\ sendTrigger' = Pop(sendTrigger) \/ sendTrigger' = Push(Pop(sendTrigger), PoppedStream)
        /\ retransmit' = [retransmit EXCEPT ![PoppedStream] = @ \ {k}]
        /\ UNCHANGED <<written, buffered, unacked, congestionBlocked>>
    BY <1>10 DEF SendRetransmission, PushIf
  <2>2. s # PoppedStream => retransmit'[s] = retransmit[s]
    BY <1>4, <2>1
  <2>3. s # PoppedStream => Owes(s)' = Owes(s)
    BY <2>1, <2>2 DEF Owes, Completed, EofSent
  <2>4. k \in Int
    OBVIOUS
  <2> QED BY <1>9, <2>1, <2>3, <2>4
<1>11. CASE SendNewData
  <2> DEFINE k == written[PoppedStream] - buffered[PoppedStream] + 1
  <2>1. /\ OnSent(LoopPacket("data", PoppedStream, k)) /\ PoppedStream # none
        /\ sendTrigger' = Pop(sendTrigger) \/ sendTrigger' = Push(Pop(sendTrigger), PoppedStream)
        /\ buffered' = [buffered EXCEPT ![PoppedStream] = @ - 1]
        /\ unacked' = [unacked EXCEPT ![PoppedStream] = @ \cup {k}]
        /\ UNCHANGED <<written, retransmit, congestionBlocked>>
    BY <1>11 DEF SendNewData, PushIf
  <2>2. k \in Int
    BY <1>3, <1>4, <2>1
  <2> HIDE DEF k
  <2>3. s # PoppedStream => buffered'[s] = buffered[s] /\ unacked'[s] = unacked[s]
    BY <1>4, <2>1
  <2>4. s # PoppedStream => Owes(s)' = Owes(s)
    BY <2>1, <2>3 DEF Owes, Completed, EofSent
  <2> QED BY <1>9, <2>1, <2>2, <2>4
<1>12. CASE SendNoStream
  <2>1. /\ sendTrigger' = Pop(sendTrigger) /\ outstanding' = outstanding
        /\ UNCHANGED <<written, buffered, retransmit, unacked, congestionBlocked>>
        /\ PoppedStream # none => retransmit[PoppedStream] = {} /\ buffered[PoppedStream] = 0
    BY <1>12 DEF SendNoStream
  <2>2. Owes(s)' <=> Owes(s)
    BY <2>1 DEF Owes, Completed, EofSent
  <2>3. CASE s = f
    <3>1. CASE PoppedStream = none
      <4>1. Completed(s)
        BY <1>2, <2>3, <3>1, LoopAssumption
      <4> QED BY <2>2, <4>1 DEF Owes
    <3>2. CASE PoppedStream # none
      <4>1. retransmit[s] = {} /\ ~ (buffered[s] > 0)
        BY <1>2, <2>1, <2>3, <3>2
      <4> QED BY <2>2, <4>1 DEF Owes
    <3> QED BY <3>1, <3>2
  <2>4. CASE s # f
    <3>1. s \in ToSet(sendTrigger.queue) => s \in ToSet(sendTrigger.queue)'
      BY <1>1, <2>1, <2>4
    <3>2. Found(s) => Found(s)'
      BY <2>1, <3>1 DEF Found
    <3> QED BY <2>2, <3>2
  <2> QED BY <2>3, <2>4
<1> QED BY <1>7, <1>8, <1>10, <1>11, <1>12 DEF Pass

LEMMA OrphanStep ==
    ASSUME LoopInv, Moves
    PROVE  NothingOrphaned'
<1>1. \A s \in Streams : Owes(s) => Found(s)
  BY DEF LoopInv, NothingOrphaned, Owes, Found
<1> SUFFICES ASSUME NEW s \in Streams PROVE Owes(s)' => Found(s)'
  BY DEF NothingOrphaned, Owes, Found
<1>2. CASE HandlePacket \/ OnTimeout
  <2>1. UNCHANGED <<written, buffered, congestionBlocked>>
    BY <1>2 DEF HandlePacket, OnTimeout
  <2>2. /\ unacked[s] = {} => unacked'[s] = {}
        /\ ToSet(sendTrigger.queue) \subseteq ToSet(sendTrigger.queue)'
        /\ \A p \in ToSet(outstanding) :
              p.kind = "data" => p \in ToSet(outstanding)' \/ p.id \in ToSet(sendTrigger.queue)'
        /\ retransmit'[s] = retransmit[s] \/ s \in ToSet(sendTrigger.queue)'
    BY <1>2, LossesFacts DEF LoopInv
  <2>3. Owes(s)' => Owes(s) \/ s \in ToSet(sendTrigger.queue)'
    BY <2>1, <2>2 DEF Owes, Completed, EofSent
  <2>4. Found(s) => Found(s)'
    BY <2>1, <2>2 DEF Found
  <2>5. s \in ToSet(sendTrigger.queue)' => Found(s)'
    BY DEF Found
  <2> QED BY <1>1, <2>3, <2>4, <2>5
<1>3. CASE Pass
  BY <1>1, <1>3, PassFinds
<1>4. CASE ~ (HandlePacket \/ OnTimeout) /\ ~ Pass
  <2>1. ToSet(outstanding) \subseteq ToSet(outstanding)'
    <3>1. CASE outstanding' = outstanding
      BY <3>1
    <3>2. CASE \E p \in Sent : OnSent(p)
      BY <3>2, OnSentFacts DEF LoopInv
    <3> QED BY <1>4, <3>1, <3>2, FlightFacts
  <2>2. ASSUME NEW t \in Streams, AppendData(t) PROVE Owes(s)' => Found(s)'
    <3>1. /\ written' = [written EXCEPT ![t] = @ + 1] /\ buffered' = [buffered EXCEPT ![t] = @ + 1]
          /\ sendTrigger' = Push(sendTrigger, t)
          /\ UNCHANGED <<retransmit, unacked, congestionBlocked>>
      BY <2>2 DEF AppendData
    <3>2. ToSet(sendTrigger.queue)' = ToSet(sendTrigger.queue) \cup {t}
      BY <3>1, PushFacts DEF LoopInv, QueueInv
    <3>3. s # t => written'[s] = written[s] /\ buffered'[s] = buffered[s]
      BY <3>1 DEF LoopInv, StreamInv
    <3>4. s # t => Owes(s)' = Owes(s)
      BY <3>1, <3>3 DEF Owes, Completed, EofSent
    <3>5. s = t => Found(s)'
      BY <3>2 DEF Found
    <3>6. Found(s) => Found(s)'
      BY <2>1, <3>1, <3>2 DEF Found
    <3> QED BY <1>1, <3>4, <3>5, <3>6
  <2>3. ASSUME NEW t \in Streams, Revive(t) PROVE Owes(s)' => Found(s)'
    <3>1. /\ sendTrigger' = Push(sendTrigger, t) /\ congestionBlocked' = congestionBlocked \ {t}
          /\ UNCHANGED <<written, buffered, retransmit, unacked>>
      BY <2>3 DEF Revive, streamVars
    <3>2. ToSet(sendTrigger.queue)' = ToSet(sendTrigger.queue) \cup {t}
      BY <3>1, PushFacts DEF LoopInv, QueueInv
    <3>3. Owes(s)' = Owes(s)
      BY <3>1 DEF Owes, Completed, EofSent
    <3>4. Found(s) => Found(s)'
      BY <2>1, <3>1, <3>2 DEF Found
    <3> QED BY <1>1, <3>3, <3>4
  <2>4. ASSUME UNCHANGED <<written, buffered, retransmit, unacked, congestionBlocked>>,
               sendTrigger'.queue = sendTrigger.queue
        PROVE  Owes(s)' => Found(s)'
    <3>1. Owes(s)' = Owes(s)
      BY <2>4 DEF Owes, Completed, EofSent
    <3>2. Found(s) => Found(s)'
      BY <2>1, <2>4 DEF Found
    <3> QED BY <1>1, <3>1, <3>2
  <2>5. CASE \/ \E t \in Streams : AskWindow(t) \/ Cancel(t) \/ ReadEOF(t)
             \/ \E exempt \in BOOLEAN : SendDatagram(exempt)
             \/ PeerData \/ \E p \in ToSet(outstanding) : PeerACK(p)
    <3>1. UNCHANGED <<written, buffered, retransmit, unacked, congestionBlocked, sendTrigger>>
      BY <2>5 DEF AskWindow, Cancel, ReadEOF, SendDatagram, PeerData, PeerACK, streamVars, queues
    <3> QED BY <2>4, <3>1
  <2>6. CASE Park \/ WakeToSend \/ WakeByTimer \/ WakeToResume \/ NotExpired
    <3>1. UNCHANGED <<written, buffered, retransmit, unacked, congestionBlocked>>
      BY <2>6 DEF Park, WakeToSend, WakeByTimer, WakeToResume, NotExpired, streamVars
    <3>2. sendTrigger' = sendTrigger \/ sendTrigger' = [sendTrigger EXCEPT !.note = FALSE]
      BY <2>6 DEF Park, WakeToSend, WakeByTimer, WakeToResume, NotExpired, queues
    <3>3. sendTrigger'.queue = sendTrigger.queue
      BY <3>2 DEF LoopInv, QueueInv, Sound
    <3> QED BY <2>4, <3>1, <3>3
  <2>7. CASE DatagramPass \/ DropDatagram \/ NoDatagram \/ SendProbe
    <3>1. UNCHANGED <<written, buffered, retransmit, unacked, congestionBlocked, sendTrigger>>
      BY <2>7 DEF DatagramPass, DropDatagram, NoDatagram, SendProbe, streamVars, queues
    <3> QED BY <2>4, <3>1
  <2> QED BY <1>4, <2>2, <2>3, <2>5, <2>6, <2>7 DEF Moves, Others, Loop, SendHalf, Pass
<1> QED BY <1>2, <1>3, <1>4

-----------------------------------------------------------------------------
(* The theorem *)

LEMMA LoopInvInit ==
    ASSUME LoopInit
    PROVE  LoopInv /\ WakeInv
<1>1. Sound(EmptyQueue) /\ Woken(EmptyQueue)
  <2>1. <<>> \in Seq(Streams) /\ IsInjective(<<>>)
    BY DEF IsInjective
  <2> QED BY <2>1 DEF Sound, Woken, EmptyQueue
<1>2. QueueInv /\ AllWoken
  BY <1>1 DEF LoopInit, QueueInv, AllWoken
<1>3. FlightInv
  BY DEF LoopInit, FlightInv, IsInjective
<1>4. DatagramInv
  BY LoopAssumption DEF LoopInit, DatagramInv
<1>5. StreamInv
  BY DEF LoopInit, StreamInv
<1>6. PhaseInv
  BY DEF LoopInit, PhaseInv
<1>7. WakeInv /\ ParkInv /\ OwedInv
  BY <1>2 DEF LoopInit, WakeInv, ParkInv, OwedInv
<1>8. NothingOrphaned
  BY DEF LoopInit, NothingOrphaned
<1> QED BY <1>2, <1>3, <1>4, <1>5, <1>6, <1>7, <1>8 DEF LoopInv

LEMMA LoopInvStutter ==
    ASSUME LoopInv, FallsDue \/ UNCHANGED loopVars
    PROVE  LoopInv' /\ (WakeInv => WakeInv')
<1>1. /\ UNCHANGED <<pc, expired, isPTO, recv, ackOwed, ptNote, congestionBlocked, outstanding, pacing>>
      /\ UNCHANGED <<sendTrigger, updateWindow, cancelTrigger>>
      /\ UNCHANGED <<datagramSend, datagramNote, datagrams, shared>>
      /\ UNCHANGED <<written, buffered, retransmit, unacked, removed>>
  BY DEF FallsDue, loopVars, queues, dgVars, ackVars, streamVars
<1>2. QueueInv' /\ FlightInv' /\ DatagramInv' /\ StreamInv' /\ PhaseInv'
  BY <1>1 DEF LoopInv, QueueInv, FlightInv, DatagramInv, StreamInv, PhaseInv
<1>3. (WakeInv => WakeInv') /\ ParkInv' /\ OwedInv'
  BY <1>1 DEF LoopInv, WakeInv, AllWoken, ParkInv, OwedInv
<1>4. NothingOrphaned'
  BY <1>1 DEF LoopInv, NothingOrphaned, Completed, EofSent
<1> QED BY <1>2, <1>3, <1>4 DEF LoopInv

LEMMA LoopInvSuffices ==
    ASSUME LoopInv
    PROVE  LoopTypeOK /\ AckIsPrompt /\ NothingOrphaned /\ (WakeInv => NothingStranded)
<1>1. LoopTypeOK
  <2>1. ASSUME NEW q, Sound(q)
        PROVE  q.note \in BOOLEAN /\ ToSet(q.queue) \subseteq Streams /\ IsInjective(q.queue)
    <3>1. q.queue \in Seq(Streams) /\ q.note \in BOOLEAN /\ IsInjective(q.queue)
      BY <2>1 DEF Sound
    <3> QED BY <3>1 DEF ToSet
  <2>2. \A q \in {sendTrigger, updateWindow, cancelTrigger} :
            q.note \in BOOLEAN /\ ToSet(q.queue) \subseteq Streams /\ IsInjective(q.queue)
    BY <2>1 DEF LoopInv, QueueInv
  <2> QED BY <2>2 DEF LoopInv, FlightInv, DatagramInv, StreamInv, PhaseInv, LoopTypeOK
<1>2. ASSUME WakeInv PROVE SleepsOnLittle
  <2> SUFFICES ASSUME Asleep
               PROVE  /\ shared \/ QueuesEmpty
                      /\ recv.queue = <<>> /\ congestionBlocked = {} /\ ~ ackOwed
    BY DEF SleepsOnLittle
  <2>1. /\ pc = "select" /\ outstanding = <<>>
        /\ ~ sendTrigger.note /\ ~ datagramNote /\ ~ updateWindow.note /\ ~ cancelTrigger.note
        /\ ~ ptNote /\ ~ recv.note
    BY DEF Asleep, Notified, DeadlineArmed, LossTimerArmed
  <2>2. shared \/ AllWoken
    BY <1>2, <2>1 DEF WakeInv
  <2>3. shared \/ QueuesEmpty
    BY <2>1, <2>2 DEF AllWoken, Woken, QueuesEmpty
  <2>4. recv.queue = <<>> /\ congestionBlocked = {}
    BY <2>1 DEF LoopInv, ParkInv
  <2>5. ~ ackOwed
    BY <2>1 DEF LoopInv, OwedInv
  <2> QED BY <2>3, <2>4, <2>5
<1>3. AckIsPrompt
  BY DEF LoopInv, OwedInv, AckIsPrompt
<1> QED BY <1>1, <1>2, <1>3 DEF LoopInv, NothingStranded

LEMMA LoopInvStep ==
    ASSUME LoopInv, [LoopNext]_loopVars
    PROVE  LoopInv'
<1>1. CASE Moves
  BY <1>1, QueueStep, FlightStep, DatagramStep, StreamStep, PhaseStep, ParkStep, OwedStep,
     OrphanStep DEF LoopInv
<1> QED BY <1>1, LoopInvStutter DEF LoopNext, Moves

\* For any number of streams, datagrams, losses and probes: the queues stay sound, a
\* parked loop that owes an ACK has its notification, and a stream with data or a
\* retransmission is on the trigger, parked, or behind a packet in flight.
THEOREM StreamsStayFound == LoopSpec => [](LoopTypeOK /\ AckIsPrompt /\ NothingOrphaned)
<1>1. LoopInit => LoopInv
  BY LoopInvInit
<1>2. LoopInv /\ [LoopNext]_loopVars => LoopInv'
  BY LoopInvStep
<1>3. LoopInv => LoopTypeOK /\ AckIsPrompt /\ NothingOrphaned
  BY LoopInvSuffices
<1> QED BY <1>1, <1>2, <1>3, PTL DEF LoopSpec

\* The run loop never sleeps on work, whatever the number of streams, datagrams, losses,
\* probes and requests, until two datagrams share a notification; and it never sleeps
\* on a received packet, a parked stream or an owed ACK, whatever they do.
THEOREM NeverSleepsOnWork == LoopSpec => []NothingStranded
<1>1. LoopInit => LoopInv /\ WakeInv
  BY LoopInvInit
<1>2. LoopInv /\ WakeInv /\ [LoopNext]_loopVars => (LoopInv /\ WakeInv)'
  BY LoopInvStep, LoopInvStutter, WakeStep DEF LoopNext, Moves
<1>3. LoopInv /\ WakeInv => NothingStranded
  BY LoopInvSuffices
<1> QED BY <1>1, <1>2, <1>3, PTL DEF LoopSpec

------------------------------------------------------------------------------
(* The MTU tracker *)

\* The estimate is at most the latest probe once there is one in flight, which is
\* what an acknowledgement sets the lower end of the range by.
ProbeAbove == Probing => lastProbe >= mtu

Inv == TypeOK /\ SearchRangeSound /\ WaitsForAProbe /\ ConvergedIsTimed /\ ProbeAbove

--------------------------------------------------------------------------------
(* What is in flight *)

\* Sending puts one packet of the given kind behind the others.
LEMMA SendFlight ==
    ASSUME TypeOK, NEW probe \in BOOLEAN, NEW size \in Nat, Send(probe, size)
    PROVE  /\ flight' \in Seq(Packet)
           /\ Probing' <=> Probing \/ probe
           /\ \A k \in DOMAIN flight : k \in DOMAIN flight' /\ flight'[k] = flight[k]
           /\ \E k \in DOMAIN flight' : flight'[k].probe = probe /\ flight'[k].size = size
           /\ path' = path /\ changes' = changes /\ losses' \in 0..MaxLosses
<1>1. PICK crosses \in BOOLEAN :
          /\ (size <= path /\ ~crosses) => losses < MaxLosses
          /\ losses' = IF size <= path /\ ~crosses THEN losses + 1 ELSE losses
          /\ flight' = Append(flight, [probe |-> probe, size |-> size, crosses |-> crosses])
  BY DEF Send
<1> DEFINE p == [probe |-> probe, size |-> size, crosses |-> crosses]
<1>2. p \in Packet /\ p.probe = probe /\ p.size = size
  BY DEF Packet
<1> HIDE DEF p
<1>3. flight \in Seq(Packet) /\ flight' = Append(flight, p)
  BY <1>1 DEF TypeOK, p
<1>4. flight' \in Seq(Packet) /\ Len(flight') = Len(flight) + 1
  BY <1>2, <1>3
<1>5. \A i \in 1..Len(flight) : flight'[i] = flight[i]
  BY <1>2, <1>3
<1>6. flight'[Len(flight) + 1] = p
  BY <1>2, <1>3
<1>7. DOMAIN flight = 1..Len(flight) /\ DOMAIN flight' = 1..Len(flight) + 1 /\ Len(flight) \in Nat
  BY <1>3, <1>4
<1>8. Probing' <=> Probing \/ probe
  <2>1. ASSUME Probing PROVE Probing'
    BY <2>1, <1>5, <1>7 DEF Probing
  <2>2. ASSUME probe PROVE Probing'
    <3>1. p.probe
      BY <2>2, <1>2, Zenon
    <3> QED BY <3>1, <1>6, <1>7 DEF Probing
  <2>3. ASSUME Probing', ~ probe PROVE Probing
    <3>1. ~ p.probe
      BY <2>3, <1>2, Zenon
    <3> QED BY <2>3, <3>1, <1>5, <1>6, <1>7 DEF Probing
  <2> QED BY <2>1, <2>2, <2>3
<1>9. losses' \in 0..MaxLosses
  BY <1>1, BoundsAssumption DEF TypeOK
<1>10. \A k \in DOMAIN flight : k \in DOMAIN flight' /\ flight'[k] = flight[k]
  BY <1>5, <1>7
<1>11. \E k \in DOMAIN flight' : flight'[k].probe = probe /\ flight'[k].size = size
  <2>1. Len(flight) + 1 \in DOMAIN flight'
    BY <1>7
  <2> QED BY <2>1, <1>2, <1>6
<1> QED BY <1>4, <1>8, <1>9, <1>10, <1>11 DEF Send

\* Taking a packet out leaves the others.
LEMMA ResolveFlight ==
    ASSUME TypeOK, NEW i \in DOMAIN flight, flight' = RemoveAt(flight, i)
    PROVE  /\ flight' \in Seq(Packet)
           /\ Probing' => Probing
           /\ \A k \in DOMAIN flight : k # i => \E j \in DOMAIN flight' : flight'[j] = flight[k]
           /\ Probing /\ ~ flight[i].probe => Probing'
<1> DEFINE n == Len(flight)
<1>1. flight \in Seq(Packet) /\ n \in Nat /\ DOMAIN flight = 1..n /\ i \in 1..n
  BY DEF TypeOK
<1> DEFINE a == SubSeq(flight, 1, i - 1)
           b == SubSeq(flight, i + 1, n)
<1>2. flight' = a \o b
  BY DEF RemoveAt
<1>3. /\ a \in Seq(Packet) /\ Len(a) = i - 1
      /\ b \in Seq(Packet) /\ Len(b) = n - i
      /\ \A j \in 1..i - 1 : a[j] = flight[j]
      /\ \A j \in 1..n - i : b[j] = flight[j + i]
  <2>1. /\ a \in Seq(Packet) /\ Len(a) = i - 1
        /\ \A j \in 1..i - 1 : a[j] = flight[j]
    BY <1>1
  <2>2. /\ b \in Seq(Packet) /\ Len(b) = n - i
        /\ \A j \in 1..n - i : b[j] = flight[j + i]
    BY <1>1
  <2> QED BY <2>1, <2>2
<1> HIDE DEF a, b
<1>4. flight' \in Seq(Packet) /\ Len(flight') = n - 1 /\ DOMAIN flight' = 1..n - 1
  <2>1. flight' \in Seq(Packet) /\ Len(flight') = Len(a) + Len(b)
    BY <1>2, <1>3, ConcatProperties
  <2> QED BY <2>1, <1>1, <1>3
<1>5. \A j \in 1..n - 1 : flight'[j] = IF j < i THEN flight[j] ELSE flight[j + 1]
  <2>1. \A j \in 1..Len(a) + Len(b) : flight'[j] = IF j <= Len(a) THEN a[j] ELSE b[j - Len(a)]
    <3>1. \A j \in 1..Len(a) + Len(b) : (a \o b)[j] = IF j <= Len(a) THEN a[j] ELSE b[j - Len(a)]
      BY <1>3, ConcatProperties, Zenon
    <3> QED BY <3>1, <1>2, Zenon
  <2> SUFFICES ASSUME NEW j \in 1..n - 1 PROVE flight'[j] = IF j < i THEN flight[j] ELSE flight[j + 1]
    OBVIOUS
  <2>2. CASE j < i
    <3>1. j \in 1..i - 1 /\ j \in 1..Len(a) + Len(b) /\ j <= Len(a)
      BY <2>2, <1>1, <1>3
    <3> QED BY <2>1, <2>2, <3>1, <1>3
  <2>3. CASE j >= i
    <3>1. flight'[j] = b[j - (i - 1)] /\ j - (i - 1) \in 1..n - i
      BY <2>1, <2>3, <1>1, <1>3
    <3>2. b[j - (i - 1)] = flight[j - (i - 1) + i] /\ j - (i - 1) + i = j + 1 /\ ~ (j < i)
      BY <3>1, <2>3, <1>1, <1>3
    <3> QED BY <3>1, <3>2
  <2> QED BY <2>2, <2>3, <1>1
<1>6. Probing' => Probing
  <2>1. ASSUME NEW j \in 1..n - 1 PROVE \E k \in DOMAIN flight : flight'[j] = flight[k]
    <3>1. j \in 1..n /\ j + 1 \in 1..n
      BY <1>1
    <3> QED BY <3>1, <1>1, <1>5
  <2> QED BY <2>1, <1>4 DEF Probing
<1>7. ASSUME NEW k \in DOMAIN flight, k # i PROVE \E j \in DOMAIN flight' : flight'[j] = flight[k]
  <2>1. CASE k < i
    <3>1. k \in 1..n - 1 /\ flight'[k] = flight[k]
      BY <2>1, <1>1, <1>5
    <3> QED BY <3>1, <1>4
  <2>2. CASE k > i
    <3>1. k - 1 \in 1..n - 1 /\ flight'[k - 1] = flight[k]
      BY <2>2, <1>1, <1>5
    <3> QED BY <3>1, <1>4
  <2> QED BY <2>1, <2>2, <1>1, <1>7
<1>8. Probing /\ ~ flight[i].probe => Probing'
  BY <1>7 DEF Probing
<1> QED BY <1>4, <1>6, <1>7, <1>8

--------------------------------------------------------------------------------
(* Steps *)

\* The tracker's own part of the invariant, which a fallback and the two answers of
\* a probe keep whatever becomes of the flight.
Tracker ==
    /\ mtu \in Sizes /\ low \in Nat /\ high \in Nat /\ lastProbe \in Nat
    /\ probeSent \in BOOLEAN /\ validating \in BOOLEAN
    /\ searchLossCount \in 0..2 /\ validationLossCount \in 0..2
    /\ lastProbeConverged \in Instant /\ lastValidation \in Instant
    /\ lastLargeACK \in Instant /\ lastAnyACK \in Instant /\ largeLostSeen \in BOOLEAN
    /\ SearchRangeSound /\ ConvergedIsTimed

LEMMA InitInv == Init => Inv
<1> SUFFICES ASSUME Init PROVE Inv
  OBVIOUS
<1>1. ~ Probing
  BY DEF Init, Probing
<1>2. flight \in Seq(Packet)
  BY DEF Init
<1>3. /\ mtu \in Sizes /\ low \in Nat /\ high \in Nat /\ lastProbe \in Nat
      /\ searchLossCount \in 0..2 /\ validationLossCount \in 0..2
      /\ SearchRangeSound /\ ~ (low > high)
      /\ losses \in 0..MaxLosses /\ changes \in 0..MaxChanges /\ path \in Nat
  BY SizesAssumption, BoundsAssumption DEF Init, Sizes, SearchRangeSound
<1>4. /\ lastProbeConverged \in Instant /\ lastValidation \in Instant
      /\ lastLargeACK \in Instant /\ lastAnyACK \in Instant
  BY DEF Init, Instant
<1>5. probeSent \in BOOLEAN /\ validating \in BOOLEAN /\ largeLostSeen \in BOOLEAN /\ ~ probeSent
  BY Zenon DEF Init
<1> QED BY <1>1, <1>2, <1>3, <1>4, <1>5 DEF Inv, TypeOK, WaitsForAProbe, ConvergedIsTimed, ProbeAbove

\* A step that sends a probe of size lastProbe, no smaller than the estimate.
LEMMA SentInv ==
    ASSUME Inv, Send(TRUE, lastProbe'), Tracker', lastProbe' >= mtu'
    PROVE  Inv'
<1>1. TypeOK /\ lastProbe' \in Nat
  BY DEF Inv, Tracker
<1>2. /\ flight' \in Seq(Packet) /\ Probing'
      /\ path' = path /\ changes' = changes /\ losses' \in 0..MaxLosses
  BY <1>1, SendFlight
<1> QED BY <1>2 DEF Inv, TypeOK, Tracker, WaitsForAProbe, ProbeAbove

\* A probe lies in the range it asks about, or is the estimate itself.
LEMMA ProbeInv == Inv /\ Probe => Inv'
<1> SUFFICES ASSUME Inv, Probe PROVE Inv'
  OBVIOUS
<1>1. Tracker /\ lastLargeACK' = lastLargeACK /\ lastAnyACK' = lastAnyACK
      /\ largeLostSeen' = largeLostSeen /\ mtu' = mtu /\ validationLossCount' = validationLossCount
  BY DEF Inv, TypeOK, Tracker, Probe, ProbeValidate, ProbeReopen, ProbeSearch, detector, counts
<1>2. probeSent' \in BOOLEAN /\ validating' \in BOOLEAN
  BY Zenon DEF Probe, ProbeValidate, ProbeReopen, ProbeSearch
<1>3. CASE ProbeValidate
  <2>1. /\ low' = low /\ high' = high /\ lastProbe' = mtu /\ searchLossCount' = searchLossCount
        /\ lastProbeConverged' = lastProbeConverged /\ lastValidation' = "fresh"
        /\ Send(TRUE, lastProbe')
    BY <1>3 DEF ProbeValidate, counts
  <2>2. lastProbe' \in Nat /\ SearchRangeSound' /\ lastProbe' >= mtu'
    BY <1>1, <2>1, SizesAssumption DEF SearchRangeSound, Tracker, Sizes
  <2>3. Tracker'
    BY <1>1, <1>2, <2>1, <2>2 DEF Tracker, ConvergedIsTimed, Instant
  <2> QED BY <2>1, <2>2, <2>3, SentInv
<1>4. CASE ProbeReopen
  <2>1. /\ low' = mtu + 1 /\ high' = MaxMTU /\ lastProbe' = (low' + high' + 1) \div 2
        /\ mtu < MaxMTU /\ searchLossCount' = 0
        /\ lastProbeConverged' = "zero" /\ lastValidation' = lastValidation
        /\ Send(TRUE, lastProbe')
    BY <1>4 DEF ProbeReopen
  <2>2. /\ lastProbe' \in Nat /\ lastProbe' > mtu /\ lastProbe' <= high'
        /\ high' \in Nat /\ low' \in Nat /\ low' <= high'
    BY <1>1, <2>1, SizesAssumption DEF Tracker, Sizes
  <2>3. SearchRangeSound' /\ lastProbe' >= mtu'
    BY <1>1, <2>1, <2>2, SizesAssumption DEF SearchRangeSound, Tracker, Sizes
  <2>4. Tracker'
    BY <1>1, <1>2, <2>1, <2>2, <2>3 DEF Tracker, ConvergedIsTimed, Instant
  <2> QED BY <2>1, <2>3, <2>4, SentInv
<1>5. CASE ProbeSearch
  <2>1. /\ low <= high /\ lastProbe' = (low + high + 1) \div 2 /\ low' = low /\ high' = high
        /\ searchLossCount' = searchLossCount
        /\ lastProbeConverged' = lastProbeConverged /\ lastValidation' = lastValidation
        /\ Send(TRUE, lastProbe')
    BY <1>5 DEF ProbeSearch, counts, timers
  <2>2. lastProbe' \in Nat /\ lastProbe' > mtu /\ lastProbe' <= high
    BY <1>1, <2>1, SizesAssumption DEF Tracker, Sizes, SearchRangeSound
  <2>3. SearchRangeSound' /\ lastProbe' >= mtu'
    BY <1>1, <2>1, <2>2, SizesAssumption DEF SearchRangeSound, Tracker, Sizes
  <2>4. Tracker'
    BY <1>1, <1>2, <2>1, <2>2, <2>3 DEF Tracker, ConvergedIsTimed
  <2> QED BY <2>1, <2>3, <2>4, SentInv
<1> QED BY <1>3, <1>4, <1>5 DEF Probe

LEMMA FallBackTracker ==
    ASSUME Tracker, fallBackToBase, lastAnyACK' = lastAnyACK
    PROVE  Tracker' /\ ~ probeSent' /\ lastProbe' >= mtu'
<1>1. /\ mtu' \in Sizes /\ low' \in Nat /\ high' \in Nat /\ lastProbe' \in Nat
      /\ searchLossCount' \in 0..2 /\ validationLossCount' \in 0..2
      /\ SearchRangeSound' /\ lastProbe' >= mtu' /\ ~ (low' > high')
  BY SizesAssumption DEF fallBackToBase, Sizes, SearchRangeSound
<1>2. probeSent' \in BOOLEAN /\ validating' \in BOOLEAN /\ largeLostSeen' \in BOOLEAN /\ ~ probeSent'
  BY Zenon DEF fallBackToBase
<1>3. /\ lastProbeConverged' \in Instant /\ lastValidation' \in Instant
      /\ lastLargeACK' \in Instant /\ lastAnyACK' \in Instant
  BY DEF fallBackToBase, Instant, Tracker
<1> QED BY <1>1, <1>2, <1>3 DEF Tracker, ConvergedIsTimed

LEMMA OnACKTracker ==
    ASSUME Tracker, lastProbe >= mtu, OnACK
    PROVE  Tracker' /\ ~ probeSent' /\ lastProbe' >= mtu'
<1>1. probeSent' \in BOOLEAN /\ validating' \in BOOLEAN /\ largeLostSeen' = largeLostSeen /\ ~ probeSent'
  BY Zenon DEF OnACK, detector
<1>2. lastLargeACK' = lastLargeACK /\ lastAnyACK' = lastAnyACK
  BY DEF OnACK, detector
<1>3. CASE validating
  BY <1>1, <1>2, <1>3 DEF OnACK, Tracker, SearchRangeSound, ConvergedIsTimed, timers
<1>4. CASE ~ validating
  <2>1. /\ searchLossCount' = 0 /\ validationLossCount' = validationLossCount
        /\ mtu' = lastProbe /\ low' = lastProbe + 1 /\ high' = high /\ lastProbe' = lastProbe
        /\ mayDetectConverged(lastProbe + 1, high)
    BY <1>4 DEF OnACK, Tracker, Sizes
  <2>2. /\ mtu' \in Sizes /\ low' \in Nat /\ high' \in Nat /\ lastProbe' \in Nat
        /\ searchLossCount' \in 0..2 /\ validationLossCount' \in 0..2
        /\ SearchRangeSound' /\ lastProbe' >= mtu'
    BY <2>1, SizesAssumption DEF Tracker, Sizes, SearchRangeSound
  <2>3. ConvergedIsTimed' /\ lastProbeConverged' \in Instant /\ lastValidation' \in Instant
    BY <2>1 DEF mayDetectConverged, ConvergedIsTimed, Tracker, Instant
  <2> QED BY <1>1, <1>2, <2>2, <2>3 DEF Tracker
<1> QED BY <1>3, <1>4

LEMMA OnLostTracker ==
    ASSUME Tracker, lastProbe >= mtu, OnLost
    PROVE  Tracker' /\ ~ probeSent' /\ lastProbe' >= mtu'
<1>1. CASE OnLostSearching
  <2>1. probeSent' \in BOOLEAN /\ validating' \in BOOLEAN /\ largeLostSeen' = largeLostSeen /\ ~ probeSent'
    BY <1>1, Zenon DEF OnLostSearching, detector
  <2>2. UNCHANGED <<mtu, low, lastProbe, lastLargeACK, lastAnyACK>>
    BY <1>1 DEF OnLostSearching, detector
  <2>3. \/ UNCHANGED <<high, lastProbeConverged, lastValidation>>
        \/ lastProbe > mtu /\ high' = lastProbe - 1 /\ mayDetectConverged(low, lastProbe - 1)
    BY <1>1 DEF OnLostSearching, timers
  <2>4. searchLossCount' \in 0..2 /\ validationLossCount' \in 0..2
    BY <1>1 DEF OnLostSearching, counts, Tracker
  <2>5. high' \in Nat /\ SearchRangeSound'
    BY <2>2, <2>3, SizesAssumption DEF Tracker, Sizes, SearchRangeSound
  <2>6. ConvergedIsTimed' /\ lastProbeConverged' \in Instant /\ lastValidation' \in Instant
    BY <2>2, <2>3 DEF mayDetectConverged, ConvergedIsTimed, Tracker, Instant
  <2> QED BY <2>1, <2>2, <2>4, <2>5, <2>6 DEF Tracker
<1>2. CASE OnLostValidating
  <2>1. CASE mtu > MinMTU /\ validationLossCount + 1 >= 3
    BY <1>2, <2>1, FallBackTracker, SizesAssumption DEF OnLostValidating, Tracker, Sizes
  <2>2. CASE ~ (mtu > MinMTU /\ validationLossCount + 1 >= 3)
    <3>1. /\ \/ validationLossCount' = validationLossCount + 1 /\ validationLossCount + 1 < 3
             \/ validationLossCount' = 0
          /\ probeSent' = FALSE /\ validating' = FALSE
          /\ UNCHANGED <<mtu, low, high, lastProbe, searchLossCount, timers, detector>>
      BY <1>2, <2>2, Zenon DEF OnLostValidating
    <3>2. validationLossCount' \in 0..2
      BY <3>1 DEF Tracker
    <3> QED BY <3>1, <3>2 DEF Tracker, SearchRangeSound, ConvergedIsTimed, timers, detector
  <2> QED BY <2>1, <2>2
<1> QED BY <1>1, <1>2 DEF OnLost

LEMMA LargeLostTracker ==
    Tracker /\ OnLargePacketLost
        => Tracker' /\ ((~ probeSent' /\ lastProbe' >= mtu')
                        \/ UNCHANGED <<probeSent, lastProbe, mtu>>)
<1> SUFFICES ASSUME Tracker, OnLargePacketLost
             PROVE  Tracker' /\ ((~ probeSent' /\ lastProbe' >= mtu')
                                 \/ UNCHANGED <<probeSent, lastProbe, mtu>>)
  OBVIOUS
<1>1. CASE fallBackToBase /\ lastAnyACK' = lastAnyACK
  BY <1>1, FallBackTracker
<1>2. CASE largeLostSeen' = TRUE /\ UNCHANGED <<search, counts, timers, lastLargeACK, lastAnyACK>>
  BY <1>2 DEF Tracker, SearchRangeSound, ConvergedIsTimed, search, counts, timers
<1> QED BY <1>1, <1>2 DEF OnLargePacketLost

LEMMA ResolveInv == ASSUME Inv, NEW i \in 1..MaxFlight, Resolve(i) PROVE Inv'
<1>1. /\ i \in DOMAIN flight /\ TypeOK /\ flight' = RemoveAt(flight, i)
      /\ path' = path /\ losses' = losses /\ changes' = changes
  BY DEF Resolve, Inv
<1>2. /\ flight' \in Seq(Packet)
      /\ Probing' => Probing
      /\ Probing /\ ~ flight[i].probe => Probing'
  BY <1>1, ResolveFlight
<1>3. Tracker
  BY DEF Inv, TypeOK, Tracker
<1>4. flight[i].probe => lastProbe >= mtu
  BY <1>1 DEF Inv, ProbeAbove, Probing
<1>5. ASSUME Tracker', ~ probeSent', lastProbe' >= mtu' PROVE Inv'
  BY <1>1, <1>2, <1>5 DEF Inv, TypeOK, Tracker, WaitsForAProbe, ProbeAbove
<1>6. ASSUME Tracker', UNCHANGED <<probeSent, lastProbe, mtu>>, ~ flight[i].probe PROVE Inv'
  BY <1>1, <1>2, <1>6 DEF Inv, TypeOK, Tracker, WaitsForAProbe, ProbeAbove
<1>7. CASE flight[i].probe /\ OnACK
  BY <1>3, <1>4, <1>5, <1>7, OnACKTracker
<1>8. CASE flight[i].probe /\ OnLost
  BY <1>3, <1>4, <1>5, <1>8, OnLostTracker
<1>9. CASE ~ flight[i].probe /\ OnLargePacketACKed
  <2>1. Tracker' /\ UNCHANGED <<probeSent, lastProbe, mtu>>
    BY <1>3, <1>9 DEF OnLargePacketACKed, Tracker, SearchRangeSound, ConvergedIsTimed,
                      search, counts, timers, Instant
  <2> QED BY <2>1, <1>6, <1>9
<1>10. CASE ~ flight[i].probe /\ OnLargePacketLost
  BY <1>3, <1>5, <1>6, <1>10, LargeLostTracker
<1> QED BY <1>7, <1>8, <1>9, <1>10 DEF Resolve

LEMMA SendLargeInv == Inv /\ SendLarge => Inv'
<1> SUFFICES ASSUME Inv, SendLarge PROVE Inv'
  OBVIOUS
<1>1. PICK size \in MinMTU + 1 .. mtu : Send(FALSE, size)
  BY DEF SendLarge
<1>2. size \in Nat /\ TypeOK
  BY SizesAssumption DEF Inv, TypeOK, Sizes
<1>3. /\ flight' \in Seq(Packet) /\ (Probing' <=> Probing)
      /\ path' = path /\ changes' = changes /\ losses' \in 0..MaxLosses
  BY <1>1, <1>2, SendFlight
<1> QED BY <1>3 DEF SendLarge, Inv, TypeOK, SearchRangeSound, WaitsForAProbe, ConvergedIsTimed,
                    ProbeAbove, search, counts, timers, detector

\* The clock, the peer and the path leave the search and the flight alone.
LEMMA OtherInv ==
    Inv /\ (OnPeerActivity \/ ValidationDue \/ ReprobeDue \/ LargeIsPast \/ AnyIsPast \/ PathChanges)
        => Inv'
<1> SUFFICES ASSUME Inv, OnPeerActivity \/ ValidationDue \/ ReprobeDue \/ LargeIsPast
                            \/ AnyIsPast \/ PathChanges
             PROVE  Inv'
  OBVIOUS
<1>1. UNCHANGED <<search, counts, flight, losses>>
  BY DEF OnPeerActivity, ValidationDue, ReprobeDue, LargeIsPast, AnyIsPast, PathChanges, environment
<1>2. (Probing' <=> Probing)
  BY <1>1 DEF Probing
<1>3. /\ lastProbeConverged' \in Instant /\ lastValidation' \in Instant
      /\ lastLargeACK' \in Instant /\ lastAnyACK' \in Instant /\ largeLostSeen' \in BOOLEAN
      /\ lastProbeConverged # "zero" => lastProbeConverged' # "zero"
      /\ lastValidation # "zero" => lastValidation' # "zero"
  BY DEF OnPeerActivity, ValidationDue, ReprobeDue, LargeIsPast, AnyIsPast, PathChanges,
         Inv, TypeOK, Instant, timers, detector, environment
<1>4. path' \in Nat /\ changes' \in 0..MaxChanges
  BY SizesAssumption, BoundsAssumption
     DEF OnPeerActivity, ValidationDue, ReprobeDue, LargeIsPast, AnyIsPast, PathChanges,
         Inv, TypeOK, environment
<1> QED BY <1>1, <1>2, <1>3, <1>4
        DEF Inv, TypeOK, SearchRangeSound, WaitsForAProbe, ConvergedIsTimed, ProbeAbove,
            search, counts

LEMMA StutterInv == Inv /\ UNCHANGED vars => Inv'
  BY DEF Inv, TypeOK, SearchRangeSound, WaitsForAProbe, ConvergedIsTimed, ProbeAbove, Probing,
         vars, search, counts, timers, detector, environment

--------------------------------------------------------------------------------
(* The tracker is sound for every path, loss and reordering. *)

\* The whole inductive invariant: however probes are sent, answered in any order,
\* lost, and forgotten by a fallback (Probe, OnACK, OnLost, fallBackToBase).
THEOREM MTUInvariance == Spec => []Inv
<1>1. Inv /\ [Next]_vars => Inv'
  <2> SUFFICES ASSUME Inv, [Next]_vars PROVE Inv'
    OBVIOUS
  <2> QED BY ProbeInv, ResolveInv, SendLargeInv, OtherInv, StutterInv DEF Next
<1> QED BY <1>1, InitInv, PTL DEF Spec

\* The tracker's fields keep their types, the loss counters below their thresholds.
THEOREM MTUTypeCorrect == Spec => []TypeOK
<1>1. Inv => TypeOK
  BY DEF Inv
<1> QED BY <1>1, MTUInvariance, PTL

\* The search range of OnACK, OnLost, Probe and fallBackToBase is never inverted and
\* never leaves the estimate, for every base and ceiling.
THEOREM MTURangeSound == Spec => []SearchRangeSound
<1>1. Inv => SearchRangeSound
  BY DEF Inv
<1> QED BY <1>1, MTUInvariance, PTL

\* The tracker never stops for good: probeSent, which silences Probe and NextDeadline,
\* implies a probe in flight, and both periods run once the search is over
\* (mayDetectConverged).
THEOREM MTUKeepsProbing == Spec => []KeepsProbing
<1>1. Inv => KeepsProbing
  BY DEF Inv, KeepsProbing
<1> QED BY <1>1, MTUInvariance, PTL
--------------------------------------------------------------------------------
(* The estimate rises to a size that crossed *)

\* The probe the tracker waits for is in flight, with the size it remembers: any
\* answer to a probe, be it a forgotten one's, ends the wait.
Awaited(k) == flight[k].probe /\ flight[k].size = lastProbe
AwaitedInv == probeSent => \E k \in DOMAIN flight : Awaited(k)

\* The answer to a probe ends the wait, and so does a fallback.
LEMMA AnswerEndsWait == ASSUME OnACK \/ OnLost PROVE ~ probeSent'
  BY Zenon DEF OnACK, OnLost, OnLostValidating, OnLostSearching, fallBackToBase

LEMMA NextAwaited == ASSUME Inv, AwaitedInv, [Next]_vars PROVE AwaitedInv'
<1>1. TypeOK
  BY DEF Inv
<1>2. ASSUME UNCHANGED <<probeSent, lastProbe>>,
             \A k \in DOMAIN flight : Awaited(k) =>
                 \E j \in DOMAIN flight' : flight'[j] = flight[k]
      PROVE  AwaitedInv'
  <2> SUFFICES ASSUME probeSent' PROVE \E j \in DOMAIN flight' : Awaited(j)'
    BY DEF AwaitedInv
  <2>1. PICK k \in DOMAIN flight : Awaited(k)
    BY <1>2 DEF AwaitedInv
  <2>2. PICK j \in DOMAIN flight' : flight'[j] = flight[k]
    BY <1>2, <2>1
  <2> QED BY <1>2, <2>1, <2>2 DEF Awaited
<1>3. CASE Probe
  <2>1. Send(TRUE, lastProbe') /\ mtu' = mtu
    BY <1>3 DEF Probe, ProbeValidate, ProbeReopen, ProbeSearch
  <2>2. lastProbe' \in Nat
    BY <1>3, ProbeInv DEF Inv, TypeOK
  <2>3. \E k \in DOMAIN flight' : flight'[k].probe = TRUE /\ flight'[k].size = lastProbe'
    BY <1>1, <2>1, <2>2, SendFlight
  <2> QED BY <2>3 DEF AwaitedInv, Awaited
<1>4. CASE SendLarge
  <2>1. PICK size \in MinMTU + 1 .. mtu : Send(FALSE, size)
    BY <1>4 DEF SendLarge
  <2>2. size \in Nat
    BY <1>1, SizesAssumption DEF TypeOK, Sizes
  <2>3. \A k \in DOMAIN flight : k \in DOMAIN flight' /\ flight'[k] = flight[k]
    BY <1>1, <2>1, <2>2, SendFlight
  <2>4. UNCHANGED <<probeSent, lastProbe>>
    BY <1>4 DEF SendLarge, search
  <2> QED BY <1>2, <2>3, <2>4
<1>5. ASSUME NEW i \in 1..MaxFlight, Resolve(i) PROVE AwaitedInv'
  <2>1. i \in DOMAIN flight /\ flight' = RemoveAt(flight, i)
    BY <1>5 DEF Resolve
  <2>2. CASE ~ probeSent'
    BY <2>2 DEF AwaitedInv
  <2>3. CASE ~ flight[i].probe /\ UNCHANGED <<probeSent, lastProbe>>
    <3>1. \A k \in DOMAIN flight : Awaited(k) => \E j \in DOMAIN flight' : flight'[j] = flight[k]
      BY <1>1, <2>1, <2>3, ResolveFlight DEF Awaited
    <3> QED BY <1>2, <2>3, <3>1
  <2>4. CASE flight[i].probe
    BY <1>5, <2>2, <2>4, AnswerEndsWait DEF Resolve
  <2>5. CASE ~ flight[i].probe
    <3>1. OnLargePacketACKed \/ OnLargePacketLost
      BY <1>5, <2>5 DEF Resolve
    <3>2. ~ probeSent' \/ UNCHANGED <<probeSent, lastProbe>>
      BY <3>1, Zenon DEF OnLargePacketACKed, OnLargePacketLost, fallBackToBase, search
    <3> QED BY <2>2, <2>3, <2>5, <3>2
  <2> QED BY <2>4, <2>5
<1>6. CASE \/ OnPeerActivity \/ ValidationDue \/ ReprobeDue \/ LargeIsPast \/ AnyIsPast
           \/ PathChanges \/ UNCHANGED vars
  <2>1. UNCHANGED <<probeSent, lastProbe, flight>>
    BY <1>6 DEF OnPeerActivity, ValidationDue, ReprobeDue, LargeIsPast, AnyIsPast, PathChanges,
                vars, search, environment
  <2> QED BY <1>2, <2>1
<1> QED BY <1>3, <1>4, <1>5, <1>6 DEF Next

\* With no forgotten probe about, a probe in flight is the only one, and awaited.
LEMMA ProbeIsAwaited ==
    ASSUME Inv, AwaitedInv, ~ Forgotten, NEW i \in DOMAIN flight, flight[i].probe
    PROVE  Awaited(i)
<1> DEFINE P == {k \in DOMAIN flight : flight[k].probe}
<1>1. IsFiniteSet(P) /\ Cardinality(P) \in Nat
  <2>1. Len(flight) \in Nat /\ DOMAIN flight = 1..Len(flight)
    BY DEF Inv, TypeOK
  <2>2. IsFiniteSet(1..Len(flight))
    BY <2>1, FS_Interval
  <2> QED BY <2>1, <2>2, FS_Subset, FS_CardinalityType
<1>2. i \in P
  OBVIOUS
<1>3. ~ (Cardinality(P) > IF probeSent THEN 1 ELSE 0)
  BY DEF Forgotten
<1> HIDE DEF P
<1>4. Cardinality(P) # 0
  BY <1>1, <1>2, FS_EmptySet
<1>5. probeSent /\ Cardinality(P) = 1
  BY <1>1, <1>3, <1>4
<1>6. PICK k \in DOMAIN flight : Awaited(k)
  BY <1>5 DEF AwaitedInv
<1>7. k \in P
  BY <1>6 DEF Awaited, P
<1>8. \E x : P = {x}
  BY <1>1, <1>5, FS_Singleton
<1> QED BY <1>2, <1>6, <1>7, <1>8

\* Only the acknowledgement of a search probe raises the estimate.
LEMMA RaisedByACK ==
    ASSUME Inv, [Next]_vars, mtu' > mtu
    PROVE  \E i \in DOMAIN flight : /\ flight[i].probe /\ flight[i].crosses
                                    /\ mtu' = lastProbe /\ flight' = RemoveAt(flight, i)
<1>1. mtu \in Nat /\ MinMTU <= mtu /\ ~ (mtu > mtu) /\ ~ (MinMTU > mtu)
  BY SizesAssumption DEF Inv, TypeOK, Sizes
<1>2. mtu' # mtu /\ mtu' # MinMTU
  BY <1>1
<1>3. PICK i \in 1..MaxFlight : Resolve(i)
  BY <1>2 DEF Next, Probe, ProbeValidate, ProbeReopen, ProbeSearch, SendLarge, OnPeerActivity,
         ValidationDue, ReprobeDue, LargeIsPast, AnyIsPast, PathChanges, vars, search
<1>4. ~ OnLost /\ ~ OnLargePacketACKed /\ ~ OnLargePacketLost
  BY <1>2 DEF OnLost, OnLostValidating, OnLostSearching, OnLargePacketACKed, OnLargePacketLost,
         fallBackToBase, search
<1>5. flight[i].probe /\ flight[i].crosses /\ OnACK /\ i \in DOMAIN flight
      /\ flight' = RemoveAt(flight, i)
  BY <1>3, <1>4 DEF Resolve
<1>6. mtu' = lastProbe
  BY <1>2, <1>5 DEF OnACK
<1> QED BY <1>5, <1>6

\* The estimate rises only to the size of the probe whose acknowledgement has just come
\* (OnACK), for every order of answers and losses, unless a fallback has left a probe
\* behind.
THEOREM MTURisesToProvenSize == Spec => RisesToProvenSize
<1> DEFINE Rises == mtu' > mtu /\ ~ Forgotten =>
                       \E i \in DOMAIN flight : /\ flight[i].probe /\ flight[i].crosses
                                                /\ flight[i].size = mtu'
                                                /\ flight' = RemoveAt(flight, i)
<1>1. Init => AwaitedInv
  BY Zenon DEF Init, AwaitedInv
<1>2. Inv /\ AwaitedInv /\ [Next]_vars => AwaitedInv'
  BY NextAwaited
<1>3. Inv /\ AwaitedInv /\ [Next]_vars => [Rises]_vars
  <2> SUFFICES ASSUME Inv, AwaitedInv, [Next]_vars, mtu' > mtu, ~ Forgotten
               PROVE  \E i \in DOMAIN flight : /\ flight[i].probe /\ flight[i].crosses
                                               /\ flight[i].size = mtu'
                                               /\ flight' = RemoveAt(flight, i)
    OBVIOUS
  <2>1. PICK i \in DOMAIN flight : /\ flight[i].probe /\ flight[i].crosses
                                   /\ mtu' = lastProbe /\ flight' = RemoveAt(flight, i)
    BY RaisedByACK
  <2>2. flight[i].size = lastProbe
    BY <2>1, ProbeIsAwaited DEF Awaited
  <2> QED BY <2>1, <2>2
<1>4. Spec => [][Rises]_vars
  BY <1>1, <1>2, <1>3, MTUInvariance, PTL DEF Spec
<1> QED BY <1>4 DEF RisesToProvenSize
==============================================================================
