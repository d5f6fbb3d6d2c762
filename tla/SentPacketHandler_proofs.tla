------------------------ MODULE SentPacketHandler_proofs ------------------------
(***************************************************************************)
(* The loss detector for every bound, every size and round trip estimate   *)
(* and every order of sends, ACKs, timeouts and clock ticks: its counters  *)
(* agree with the packets, its timer is armed while and only while it is   *)
(* needed, and every packet gets one verdict.                              *)
(***************************************************************************)
EXTENDS SentPacketHandler, SequenceTheorems, FiniteSetTheorems, WellFoundedInduction, TLAPS

--------------------------------------------------------------------------------
(* Induction over the natural numbers, for a set instead of a predicate *)

\* A set of natural numbers that is not empty has a least element.
LEMMA LeastNatural ==
    ASSUME NEW S \in SUBSET Nat, S # {}
    PROVE  \E n \in S : \A m \in S : n <= m
<1> DEFINE R == OpToRel(<, Nat)
<1>1. IsWellFoundedOn(R, Nat)
  BY NatLessThanWellFounded
<1>2. \A x, y \in Nat : x < y => <<x, y>> \in R
  BY DEF OpToRel
<1> HIDE DEF R
<1>3. PICK x \in S : \A y \in S : ~ (<<y, x>> \in R)
  BY <1>1, WFMin
<1>4. ASSUME NEW y \in S PROVE x <= y
  <2>1. x \in Nat /\ y \in Nat
    OBVIOUS
  <2>2. ~ (y < x)
    BY <1>2, <1>3, <2>1
  <2> QED BY <2>1, <2>2
<1> QED BY <1>4

\* What holds at the start of an interval and passes from each number to the next
\* holds throughout.
LEMMA IntervalInduction ==
    ASSUME NEW a \in Nat, NEW b \in Nat, NEW S, a \in S,
           \A n \in a .. b : n \in S /\ n < b => n + 1 \in S
    PROVE  \A n \in a .. b : n \in S
<1> DEFINE Bad == {n \in a .. b : n \notin S}
<1> SUFFICES ASSUME Bad # {} PROVE FALSE
  OBVIOUS
<1>1. Bad \in SUBSET Nat
  OBVIOUS
<1>2. PICK n \in Bad : \A m \in Bad : n <= m
  BY <1>1, LeastNatural
<1>3. n \in a .. b /\ n \notin S /\ n # a
  OBVIOUS
<1>4. n - 1 \in a .. b /\ n - 1 \notin Bad
  BY <1>2, <1>3
<1> QED BY <1>3, <1>4

--------------------------------------------------------------------------------
(* The bytes of a set of packets *)

\* A set whose bytes can be counted.
Sized(S) == IsFiniteSet(S) /\ \A p \in S : p.PacketSize \in Nat \ {0}

\* The sum over subsets that Size is the last value of.
SumStep(S, g) ==
    [s \in SUBSET S |->
        IF s = {} THEN 0
        ELSE (CHOOSE x \in s : TRUE).PacketSize + g[s \ {CHOOSE x \in s : TRUE}]]

LEMMA SizeUnfold ==
    ASSUME NEW S
    PROVE  Size(S) = (CHOOSE g : g = SumStep(S, g))[S]
BY DEF Size, MapThenSumSet, MapThenFoldSet, SumStep

\* Subsets and their cardinalities.
LEMMA Smaller ==
    ASSUME NEW S, IsFiniteSet(S), NEW s \in SUBSET S
    PROVE  /\ IsFiniteSet(s) /\ Cardinality(s) \in 0 .. Cardinality(S)
           /\ Cardinality(s) \in Nat /\ Cardinality(S) \in Nat
           /\ Cardinality(s) = 0 <=> s = {}
           /\ \A x \in s : s \ {x} \in SUBSET S /\ Cardinality(s \ {x}) = Cardinality(s) - 1
<1>1. IsFiniteSet(s) /\ Cardinality(s) <= Cardinality(S)
  BY FS_Subset
<1>2. Cardinality(s) \in Nat /\ Cardinality(S) \in Nat
  BY <1>1, FS_CardinalityType
<1>3. Cardinality(s) = 0 <=> s = {}
  BY <1>1, FS_EmptySet
<1>4. \A x \in s : Cardinality(s \ {x}) = Cardinality(s) - 1
  BY <1>1, FS_RemoveElement
<1> QED BY <1>1, <1>2, <1>3, <1>4

\* A collection of subsets has a smallest one: removing anything leaves the collection.
LEMMA SmallestSubset ==
    ASSUME NEW S, IsFiniteSet(S), NEW B \in SUBSET (SUBSET S), B # {}
    PROVE  \E T \in B : \A x \in T : T \ {x} \notin B
<1> DEFINE Sz == {Cardinality(s) : s \in B}
<1>1. \A s \in B : s \in SUBSET S
  OBVIOUS
<1>2. \A s \in B : Cardinality(s) \in Nat
  BY <1>1, Smaller
<1>3. Sz \in SUBSET Nat /\ Sz # {}
  BY <1>2
<1>4. PICK n \in Sz : \A m \in Sz : n <= m
  BY <1>3, LeastNatural
<1>5. PICK T \in B : Cardinality(T) = n
  OBVIOUS
<1>6. ASSUME NEW x \in T, T \ {x} \in B PROVE FALSE
  <2>1. Cardinality(T \ {x}) = Cardinality(T) - 1 /\ Cardinality(T) \in Nat
    BY <1>1, Smaller
  <2>2. Cardinality(T \ {x}) \in Sz
    BY <1>6
  <2>3. n <= Cardinality(T \ {x})
    BY <1>4, <2>2
  <2> HIDE DEF Sz
  <2> QED BY <1>5, <2>1, <2>3
<1> QED BY <1>6

\* There is such a sum, built up by the number of packets.
LEMMA SumExists ==
    ASSUME NEW S, Sized(S)
    PROVE  \E g \in [SUBSET S -> Nat] : g = SumStep(S, g)
<1> DEFINE K == Cardinality(S)
           Upto(n, g) == \A s \in SUBSET S : Cardinality(s) <= n => g[s] = SumStep(S, g)[s]
           Good == {n \in 0 .. K : \E g \in [SUBSET S -> Nat] : Upto(n, g)}
<1>1. IsFiniteSet(S) /\ \A p \in S : p.PacketSize \in Nat
  BY DEF Sized
<1>2. K \in Nat /\ \A s \in SUBSET S : Cardinality(s) \in 0 .. K /\ Cardinality(s) \in Nat
  BY <1>1, Smaller
<1>3. 0 \in Good
  <2> DEFINE g == [s \in SUBSET S |-> 0]
  <2>1. g \in [SUBSET S -> Nat]
    OBVIOUS
  <2>2. ASSUME NEW s \in SUBSET S, Cardinality(s) <= 0 PROVE g[s] = SumStep(S, g)[s]
    <3>1. s = {}
      BY <1>1, <1>2, <2>2, Smaller
    <3> QED BY <3>1 DEF SumStep
  <2> HIDE DEF g
  <2> QED BY <2>1, <2>2, <1>2
<1>4. ASSUME NEW n \in 0 .. K, n \in Good, n < K PROVE n + 1 \in Good
  <2>1. PICK g \in [SUBSET S -> Nat] : Upto(n, g)
    BY <1>4
  <2> DEFINE h == [s \in SUBSET S |-> IF Cardinality(s) <= n THEN g[s] ELSE SumStep(S, g)[s]]
  <2>2. ASSUME NEW s \in SUBSET S, s # {}
        PROVE  LET c == CHOOSE x \in s : TRUE
               IN  /\ c \in s /\ s \ {c} \in SUBSET S /\ c.PacketSize \in Nat
                   /\ Cardinality(s \ {c}) = Cardinality(s) - 1
    <3> DEFINE c == CHOOSE x \in s : TRUE
    <3>1. c \in s
      BY <2>2
    <3> HIDE DEF c
    <3>2. s \ {c} \in SUBSET S /\ Cardinality(s \ {c}) = Cardinality(s) - 1
      BY <3>1, <1>1, Smaller
    <3> QED BY <3>1, <3>2, <1>1 DEF c
  <2>3. h \in [SUBSET S -> Nat]
    <3>1. ASSUME NEW s \in SUBSET S PROVE SumStep(S, g)[s] \in Nat
      <4>1. CASE s = {}
        BY <4>1 DEF SumStep
      <4>2. CASE s # {}
        <5> DEFINE c == CHOOSE x \in s : TRUE
        <5>1. c.PacketSize \in Nat /\ s \ {c} \in SUBSET S
          BY <2>2, <4>2
        <5>2. SumStep(S, g)[s] = c.PacketSize + g[s \ {c}]
          BY <4>2 DEF SumStep
        <5> HIDE DEF c
        <5> QED BY <5>1, <5>2
      <4> QED BY <4>1, <4>2
    <3> QED BY <3>1
  <2>4. ASSUME NEW s \in SUBSET S, Cardinality(s) <= n + 1 PROVE h[s] = SumStep(S, h)[s]
    <3>1. CASE s = {}
      <4>1. Cardinality(s) <= n
        BY <3>1, FS_EmptySet
      <4> QED BY <3>1, <4>1, <2>1 DEF SumStep
    <3>2. CASE s # {}
      <4> DEFINE c == CHOOSE x \in s : TRUE
      <4>1. /\ s \ {c} \in SUBSET S /\ Cardinality(s \ {c}) = Cardinality(s) - 1
        BY <2>2, <3>2
      <4>2. /\ SumStep(S, g)[s] = c.PacketSize + g[s \ {c}]
            /\ SumStep(S, h)[s] = c.PacketSize + h[s \ {c}]
        BY <3>2 DEF SumStep
      <4> HIDE DEF c
      <4>3. Cardinality(s \ {c}) <= n
        BY <4>1, <2>4, <1>2
      <4>4. h[s \ {c}] = g[s \ {c}]
        BY <4>1, <4>3
      <4>5. h[s] = SumStep(S, g)[s]
        BY <2>1
      <4> QED BY <4>2, <4>4, <4>5
    <3> QED BY <3>1, <3>2
  <2>5. n + 1 \in 0 .. K
    BY <1>2, <1>4
  <2> HIDE DEF h
  <2> QED BY <2>3, <2>4, <2>5
<1>5. K \in Good
  <2>1. 0 \in Nat /\ K \in Nat /\ K \in 0 .. K
    BY <1>2
  <2> HIDE DEF Good
  <2> QED BY <1>3, <1>4, <2>1, IntervalInduction
<1>6. PICK g \in [SUBSET S -> Nat] : Upto(K, g)
  BY <1>5
<1>7. \A s \in SUBSET S : g[s] = SumStep(S, g)[s]
  BY <1>2, <1>6
<1>8. g = SumStep(S, g)
  BY <1>7 DEF SumStep
<1> QED BY <1>8

\* Two such sums agree on what both count.
LEMMA SumAgree ==
    ASSUME NEW S, Sized(S), NEW T \in SUBSET S,
           NEW g, g = SumStep(S, g), NEW h, h = SumStep(T, h)
    PROVE  \A s \in SUBSET T : g[s] = h[s]
<1> DEFINE Bad == {s \in SUBSET T : g[s] # h[s]}
<1> SUFFICES ASSUME Bad # {} PROVE FALSE
  OBVIOUS
<1>1. IsFiniteSet(S) /\ IsFiniteSet(T)
  BY FS_Subset DEF Sized
<1>2. Bad \in SUBSET (SUBSET T)
  OBVIOUS
<1>3. PICK s \in Bad : \A x \in s : s \ {x} \notin Bad
  BY <1>1, <1>2, SmallestSubset
<1>5. s \in SUBSET T /\ s \in SUBSET S /\ g[s] # h[s]
  OBVIOUS
<1>6. s # {}
  <2>1. SumStep(S, g)[{}] = 0 /\ SumStep(T, h)[{}] = 0
    BY DEF SumStep
  <2> QED BY <2>1, <1>5
<1> DEFINE c == CHOOSE x \in s : TRUE
<1>7. /\ SumStep(S, g)[s] = c.PacketSize + g[s \ {c}]
      /\ SumStep(T, h)[s] = c.PacketSize + h[s \ {c}]
  BY <1>5, <1>6 DEF SumStep
<1>8. c \in s
  BY <1>6
<1> HIDE DEF c
<1>9. s \ {c} \in SUBSET T /\ s \ {c} \notin Bad
  BY <1>3, <1>5, <1>8
<1> QED BY <1>5, <1>7, <1>9

\* Size as one sum for all the subsets of a set.
LEMMA SizeSum ==
    ASSUME NEW S, Sized(S)
    PROVE  \E g \in [SUBSET S -> Nat] : g = SumStep(S, g) /\ \A T \in SUBSET S : Size(T) = g[T]
<1>1. PICK g \in [SUBSET S -> Nat] : g = SumStep(S, g)
  BY SumExists
<1>2. ASSUME NEW T \in SUBSET S PROVE Size(T) = g[T]
  <2> DEFINE h == CHOOSE f : f = SumStep(T, f)
  <2>1. Sized(T)
    BY FS_Subset DEF Sized
  <2>2. h = SumStep(T, h)
    BY <2>1, SumExists
  <2>3. Size(T) = h[T]
    BY SizeUnfold
  <2> HIDE DEF h
  <2>4. \A s \in SUBSET T : g[s] = h[s]
    BY <1>1, <2>2, SumAgree
  <2> QED BY <2>3, <2>4
<1> QED BY <1>1, <1>2

\* The bytes of a set are a number, of nothing are none, and count each packet.
LEMMA SizeRemove ==
    ASSUME NEW S, Sized(S)
    PROVE  /\ Size(S) \in Nat /\ Size({}) = 0
           /\ \A T \in SUBSET S : Sized(T) /\ Size(T) \in Nat
           /\ \A T \in SUBSET S : \A x \in T : Size(T) = x.PacketSize + Size(T \ {x})
<1>1. PICK g \in [SUBSET S -> Nat] : g = SumStep(S, g) /\ \A T \in SUBSET S : Size(T) = g[T]
  BY SizeSum
<1>2. \A T \in SUBSET S : Sized(T) /\ Size(T) \in Nat
  BY <1>1, FS_Subset DEF Sized
<1>3. Size({}) = 0
  BY <1>1 DEF SumStep
<1>4. ASSUME NEW T \in SUBSET S, T # {}
      PROVE  \E c \in T : Size(T) = c.PacketSize + Size(T \ {c})
  <2> DEFINE c == CHOOSE x \in T : TRUE
  <2>1. SumStep(S, g)[T] = c.PacketSize + g[T \ {c}]
    BY <1>4 DEF SumStep
  <2>2. c \in T
    BY <1>4
  <2> HIDE DEF c
  <2>3. Size(T) = c.PacketSize + Size(T \ {c})
    BY <1>1, <2>1, <2>2
  <2> QED BY <2>2, <2>3
<1> DEFINE Bad == {T \in SUBSET S : \E x \in T : Size(T) # x.PacketSize + Size(T \ {x})}
<1>5. Bad = {}
  <2> SUFFICES ASSUME Bad # {} PROVE FALSE
    OBVIOUS
  <2>1. IsFiniteSet(S)
    BY DEF Sized
  <2>2. Bad \in SUBSET (SUBSET S)
    OBVIOUS
  <2>3. PICK T \in Bad : \A x \in T : T \ {x} \notin Bad
    BY <2>1, <2>2, SmallestSubset
  <2>5. PICK x \in T : Size(T) # x.PacketSize + Size(T \ {x})
    OBVIOUS
  <2>6. PICK c \in T : Size(T) = c.PacketSize + Size(T \ {c})
    BY <1>4
  <2>7. x # c
    BY <2>5, <2>6
  <2>8. T \ {x} \in SUBSET S /\ T \ {c} \in SUBSET S
    OBVIOUS
  <2>9. T \ {x} \notin Bad /\ T \ {c} \notin Bad
    BY <2>3
  <2>10. /\ Size(T \ {x}) = c.PacketSize + Size((T \ {x}) \ {c})
         /\ Size(T \ {c}) = x.PacketSize + Size((T \ {c}) \ {x})
    BY <2>7, <2>8, <2>9
  <2>11. (T \ {x}) \ {c} = (T \ {c}) \ {x} /\ (T \ {x}) \ {c} \in SUBSET S
    OBVIOUS
  <2>12. /\ Size((T \ {x}) \ {c}) \in Nat /\ x.PacketSize \in Nat /\ c.PacketSize \in Nat
    BY <1>2, <2>11 DEF Sized
  <2> DEFINE a == x.PacketSize
             b == c.PacketSize
             r == Size((T \ {x}) \ {c})
  <2>13. Size(T) = b + (a + r) /\ Size(T \ {x}) = b + r /\ Size(T) # a + Size(T \ {x})
    BY <2>5, <2>6, <2>10, <2>11
  <2>14. a \in Nat /\ b \in Nat /\ r \in Nat
    BY <2>12
  <2> HIDE DEF a, b, r, Bad
  <2>15. b + (a + r) # a + (b + r)
    BY <2>13
  <2> QED BY <2>14, <2>15
<1>6. S \in SUBSET S
  OBVIOUS
<1> QED BY <1>2, <1>3, <1>5, <1>6

\* The bytes of what leaves and of what stays add up.
LEMMA SizeSplit ==
    ASSUME NEW S, Sized(S), NEW A \in SUBSET S
    PROVE  Size(S) = Size(A) + Size(S \ A)
<1> DEFINE Bad == {T \in SUBSET S : Size(S) # Size(T) + Size(S \ T)}
<1> SUFFICES ASSUME Bad # {} PROVE FALSE
  OBVIOUS
<1>1. IsFiniteSet(S)
  BY DEF Sized
<1>2. Bad \in SUBSET (SUBSET S)
  OBVIOUS
<1>3. PICK T \in Bad : \A x \in T : T \ {x} \notin Bad
  BY <1>1, <1>2, SmallestSubset
<1>4. T \in SUBSET S /\ Size(S) # Size(T) + Size(S \ T)
  OBVIOUS
<1>5. T # {}
  <2>1. Size(S) \in Nat /\ Size({}) = 0 /\ S \ {} = S
    BY SizeRemove
  <2> QED BY <2>1
<1>6. PICK x \in T : TRUE
  BY <1>5
<1> DEFINE U == T \ {x}
<1>7. U \in SUBSET S /\ U \notin Bad
  BY <1>3
<1>9. Size(T) = x.PacketSize + Size(U)
  BY SizeRemove
<1>10. x \in S \ U /\ S \ U \in SUBSET S /\ (S \ U) \ {x} = S \ T
  OBVIOUS
<1>11. Size(S \ U) = x.PacketSize + Size(S \ T)
  <2>1. Size(S \ U) = x.PacketSize + Size((S \ U) \ {x})
    BY <1>10, SizeRemove
  <2> QED BY <2>1, <1>10
<1>12. Size(U) \in Nat /\ Size(S \ T) \in Nat /\ x.PacketSize \in Nat
  BY <1>7, SizeRemove DEF Sized
<1>13. Size(S) = Size(U) + Size(S \ U)
  BY <1>7
<1> QED BY <1>4, <1>9, <1>11, <1>12, <1>13

\* Only nothing weighs nothing.
LEMMA SizeZero ==
    ASSUME NEW S, Sized(S)
    PROVE  Size(S) = 0 <=> S = {}
<1>1. CASE S = {}
  BY <1>1, SizeRemove
<1>2. CASE S # {}
  <2>1. PICK x \in S : TRUE
    BY <1>2
  <2>2. Size(S) = x.PacketSize + Size(S \ {x}) /\ Size(S \ {x}) \in Nat
    BY SizeRemove
  <2>3. x.PacketSize \in Nat \ {0}
    BY DEF Sized
  <2> QED BY <1>2, <2>2, <2>3
<1> QED BY <1>1, <1>2

--------------------------------------------------------------------------------
(* Loops, as recursive functions over an interval *)

\* The steps of a loop of n rounds stay within X.
StaysWithin(n, X, body) == \A i \in 1 .. n, x \in X : body[<<i, x>>] \in X

\* There are values for such a loop to go through.
Runs(n, X, start, body) ==
    \E f \in [0 .. n -> X] : f[0] = start /\ \A i \in 1 .. n : f[i] = body[<<i, f[i - 1]>>]

\* A loop whose steps stay within a set has its values there.
LEMMA LoopExists ==
    ASSUME NEW n \in Nat, NEW X, NEW start \in X, NEW body, StaysWithin(n, X, body)
    PROVE  Runs(n, X, start, body)
<1> USE DEF StaysWithin, Runs
<1> DEFINE Good == {k \in 0 .. n : \E f \in [0 .. n -> X] :
                       f[0] = start /\ \A i \in 1 .. k : f[i] = body[<<i, f[i - 1]>>]}
<1>1. 0 \in Good
  <2> DEFINE f == [i \in 0 .. n |-> start]
  <2>1. f \in [0 .. n -> X] /\ f[0] = start
    OBVIOUS
  <2> HIDE DEF f
  <2> QED BY <2>1
<1>2. ASSUME NEW k \in 0 .. n, k \in Good, k < n PROVE k + 1 \in Good
  <2>1. PICK f \in [0 .. n -> X] : f[0] = start /\ \A i \in 1 .. k : f[i] = body[<<i, f[i - 1]>>]
    BY <1>2
  <2> DEFINE h == [f EXCEPT ![k + 1] = body[<<k + 1, f[k]>>]]
  <2>2. k + 1 \in 0 .. n /\ k + 1 \in 1 .. n /\ (k + 1) - 1 = k /\ k + 1 # 0
    BY <1>2
  <2>3. body[<<k + 1, f[k]>>] \in X
    BY <2>2
  <2>4. h \in [0 .. n -> X] /\ h[k + 1] = body[<<k + 1, f[k]>>] /\ \A i \in 0 .. k : h[i] = f[i]
    BY <2>2, <2>3
  <2> HIDE DEF h
  <2>5. ASSUME NEW i \in 1 .. k + 1 PROVE h[i] = body[<<i, h[i - 1]>>]
    <3>1. CASE i = k + 1
      <4>1. h[i - 1] = f[k]
        BY <3>1, <2>2, <2>4
      <4> QED BY <3>1, <4>1, <2>4
    <3>2. CASE i \in 1 .. k
      <4>1. i \in 0 .. k /\ i - 1 \in 0 .. k
        BY <3>2
      <4>2. h[i] = f[i] /\ h[i - 1] = f[i - 1]
        BY <4>1, <2>4
      <4> QED BY <3>2, <4>2, <2>1
    <3> QED BY <3>1, <3>2
  <2>6. h[0] = start
    BY <2>1, <2>4
  <2> QED BY <2>2, <2>4, <2>5, <2>6
<1>3. n \in Good
  <2>1. 0 \in Nat /\ n \in 0 .. n
    OBVIOUS
  <2> HIDE DEF Good
  <2> QED BY <1>1, <1>2, <2>1, IntervalInduction
<1> QED BY <1>3

\* The ring stays within its limit and gains at most one number per declared packet.
LEMMA RememberFacts ==
    ASSUME NEW S, NEW ring \in Seq(S), Len(ring) <= maxDeclaredLostTracked,
           NEW lost, Numbers(Evidence(lost)) \subseteq S, Numbers(Evidence(lost)) \subseteq 1 .. MaxSent
    PROVE  /\ Remember(ring, lost) \in Seq(S)
           /\ Len(Remember(ring, lost)) <= maxDeclaredLostTracked
           /\ Len(Remember(ring, lost)) <= Len(ring) + Cardinality(Numbers(Evidence(lost)))
<1> DEFINE declared == Numbers(Evidence(lost))
           max == maxDeclaredLostTracked
           Body(i, r) == IF i \in declared THEN rememberDeclaredLost(r, i) ELSE r
           Step(g) == [n \in 0 .. MaxSent |->
                         IF n = 0 THEN ring
                         ELSE IF n \in declared THEN rememberDeclaredLost(g[n - 1], n)
                         ELSE g[n - 1]]
           after == CHOOSE g : g = Step(g)
           upto(i) == declared \cap (1 .. i)
           X == {r \in Seq(S) : Len(r) <= max}
<1>1. MaxSent \in Nat /\ max \in Nat \ {0}
  BY HandlerAssumption
<1>2. Remember(ring, lost) = after[MaxSent]
  BY DEF Remember
<1>3. ASSUME NEW i \in 1 .. MaxSent, NEW r \in X, i \in declared
      PROVE  rememberDeclaredLost(r, i) \in X /\ Len(rememberDeclaredLost(r, i)) <= Len(r) + 1
  <2>1. r \in Seq(S) /\ Len(r) \in Nat /\ Len(r) <= max /\ i \in S
    BY <1>3
  <2>2. CASE Len(r) >= max
    <3>1. Len(r) # 0
      BY <1>1, <2>1, <2>2
    <3>2. Tail(r) \in Seq(S) /\ Len(Tail(r)) = Len(r) - 1
      BY <2>1, <3>1
    <3>3. rememberDeclaredLost(r, i) = Append(Tail(r), i)
      BY <2>2 DEF rememberDeclaredLost
    <3>4. Append(Tail(r), i) \in Seq(S) /\ Len(Append(Tail(r), i)) = Len(r)
      BY <2>1, <3>2
    <3> QED BY <2>1, <3>3, <3>4
  <2>3. CASE ~ (Len(r) >= max)
    <3>1. rememberDeclaredLost(r, i) = Append(r, i)
      BY <2>3 DEF rememberDeclaredLost
    <3>2. Append(r, i) \in Seq(S) /\ Len(Append(r, i)) = Len(r) + 1
      BY <2>1
    <3> QED BY <1>1, <2>1, <2>3, <3>1, <3>2
  <2> QED BY <2>2, <2>3
<1>4. ASSUME NEW i \in 1 .. MaxSent, NEW r \in X PROVE Body(i, r) \in X
  BY <1>3
<1>5. ring \in X
  OBVIOUS
<1> HIDE DEF X, declared
<1>6. after = Step(after) /\ \A i \in 0 .. MaxSent : after[i] \in X
  <2> DEFINE body == [p \in (1 .. MaxSent) \X X |-> Body(p[1], p[2])]
  <2>1. \A i \in 1 .. MaxSent, r \in X : body[<<i, r>>] \in X
    BY <1>4
  <2>2. \A i \in 1 .. MaxSent, r \in X : body[<<i, r>>] = Body(i, r)
    OBVIOUS
  <2> HIDE DEF body
  <2>3. PICK f \in [0 .. MaxSent -> X] :
            f[0] = ring /\ \A i \in 1 .. MaxSent : f[i] = body[<<i, f[i - 1]>>]
    <3>1. MaxSent \in Nat
      BY <1>1
    <3>2. StaysWithin(MaxSent, X, body)
      BY <2>1 DEF StaysWithin
    <3>3. Runs(MaxSent, X, ring, body)
      BY <1>5, <3>1, <3>2, LoopExists, Zenon
    <3> QED BY <3>3 DEF Runs
  <2>4. f = Step(f)
    <3>1. ASSUME NEW i \in 0 .. MaxSent PROVE f[i] = Step(f)[i]
      <4>1. CASE i = 0
        BY <4>1, <2>3
      <4>2. CASE i # 0
        <5>1. i \in 1 .. MaxSent /\ f[i - 1] \in X
          BY <4>2, <1>1
        <5>2. f[i] = body[<<i, f[i - 1]>>]
          BY <5>1, <2>3
        <5>3. f[i] = Body(i, f[i - 1])
          BY <5>1, <5>2, <2>2
        <5> QED BY <4>2, <5>3
      <4> QED BY <4>1, <4>2
    <3> QED BY <3>1
  <2>5. after = Step(after)
    BY <2>4
  <2> HIDE DEF after
  <2> DEFINE G == {i \in 0 .. MaxSent : after[i] \in X}
  <2>6. 0 \in G
    <3>1. after[0] = ring
      BY <2>5, <1>1
    <3> QED BY <3>1, <1>5, <1>1
  <2>7. ASSUME NEW i \in 0 .. MaxSent, i \in G, i < MaxSent PROVE i + 1 \in G
    <3>1. i + 1 \in 1 .. MaxSent /\ i + 1 \in 0 .. MaxSent /\ (i + 1) - 1 = i /\ i + 1 # 0
      BY <2>7, <1>1
    <3>2. after[i + 1] = Body(i + 1, after[i])
      BY <3>1, <2>5
    <3> QED BY <3>1, <3>2, <1>4, <2>7
  <2> HIDE DEF G
  <2>8. \A i \in 0 .. MaxSent : i \in G
    BY <2>6, <2>7, <1>1, IntervalInduction
  <2> QED BY <2>5, <2>8 DEF G
<1> HIDE DEF after
<1>7. \A i \in 0 .. MaxSent : IsFiniteSet(upto(i)) /\ Cardinality(upto(i)) \in Nat
  <2> SUFFICES ASSUME NEW i \in 0 .. MaxSent
               PROVE  IsFiniteSet(upto(i)) /\ Cardinality(upto(i)) \in Nat
    OBVIOUS
  <2>1. IsFiniteSet(1 .. i)
    BY FS_Interval
  <2>2. IsFiniteSet(upto(i))
    BY <2>1, FS_Subset
  <2> QED BY <2>2, FS_CardinalityType
<1>8. \A i \in 0 .. MaxSent : Len(after[i]) <= Len(ring) + Cardinality(upto(i))
  <2> DEFINE G == {i \in 0 .. MaxSent : Len(after[i]) <= Len(ring) + Cardinality(upto(i))}
  <2>1. 0 \in G
    <3>1. after[0] = ring
      BY <1>6, <1>1
    <3>2. 0 \in 0 .. MaxSent /\ Len(ring) \in Nat
      BY <1>1
    <3>3. Cardinality(upto(0)) \in Nat
      BY <1>7, <3>2
    <3> HIDE DEF upto
    <3> QED BY <3>1, <3>2, <3>3
  <2>2. ASSUME NEW i \in 0 .. MaxSent, i \in G, i < MaxSent PROVE i + 1 \in G
    <3>1. i + 1 \in 1 .. MaxSent /\ i + 1 \in 0 .. MaxSent /\ (i + 1) - 1 = i /\ i + 1 # 0
      BY <2>2, <1>1
    <3>2. after[i + 1] = Body(i + 1, after[i]) /\ after[i] \in X /\ after[i + 1] \in X
      BY <3>1, <1>6
    <3>3. Len(after[i]) \in Nat /\ Len(after[i + 1]) \in Nat /\ Len(ring) \in Nat
      BY <3>2 DEF X
    <3>4. Cardinality(upto(i)) \in Nat /\ Cardinality(upto(i + 1)) \in Nat
      BY <3>1, <1>7
    <3>5. CASE i + 1 \in declared
      <4>1. upto(i + 1) = upto(i) \cup {i + 1} /\ i + 1 \notin upto(i)
        BY <3>5, <3>1
      <4>2. Cardinality(upto(i + 1)) = Cardinality(upto(i)) + 1
        BY <4>1, <1>7, FS_AddElement
      <4>3. Len(after[i + 1]) <= Len(after[i]) + 1
        BY <3>1, <3>2, <3>5, <1>3
      <4> HIDE DEF upto
      <4> QED BY <2>2, <3>1, <3>3, <3>4, <4>2, <4>3
    <3>6. CASE i + 1 \notin declared
      <4>1. upto(i + 1) = upto(i)
        BY <3>6, <3>1
      <4>2. after[i + 1] = after[i]
        BY <3>2, <3>6
      <4> QED BY <2>2, <3>1, <4>1, <4>2
    <3> QED BY <3>5, <3>6
  <2> HIDE DEF G
  <2>3. \A i \in 0 .. MaxSent : i \in G
    BY <2>1, <2>2, <1>1, IntervalInduction
  <2> QED BY <2>3 DEF G
<1>9. upto(MaxSent) = declared
  BY DEF declared
<1>10. MaxSent \in 0 .. MaxSent
  BY <1>1
<1> QED BY <1>2, <1>6, <1>8, <1>9, <1>10 DEF X, declared

\* What an ACK leaves in the ring: numbers of the ring, and no more of them.
LEMMA VindicatedFacts ==
    ASSUME NEW S, declaredLost \in Seq(S), NEW ack
    PROVE  Vindicated(ack) \in Seq(S) /\ Len(Vindicated(ack)) <= Len(declaredLost)
<1> DEFINE ring == declaredLost
           L == Len(declaredLost)
           Body(i, r) == IF ring[i] \in ack THEN r ELSE Append(r, ring[i])
           Step(g) == [i \in 0 .. L |->
                         IF i = 0 THEN <<>>
                         ELSE IF declaredLost[i] \in ack THEN g[i - 1]
                         ELSE Append(g[i - 1], declaredLost[i])]
           remain == CHOOSE g : g = Step(g)
           X == Seq(S)
<1>1. L \in Nat /\ \A i \in 1 .. L : ring[i] \in S
  OBVIOUS
<1>2. Vindicated(ack) = remain[L]
  BY DEF Vindicated
<1>3. ASSUME NEW i \in 1 .. L, NEW r \in X
      PROVE  Body(i, r) \in X /\ Len(Body(i, r)) <= Len(r) + 1 /\ Len(r) \in Nat
  <2>1. ring[i] \in S
    BY <1>1
  <2>2. Append(r, ring[i]) \in X /\ Len(Append(r, ring[i])) = Len(r) + 1 /\ Len(r) \in Nat
    BY <2>1
  <2> QED BY <2>2
<1>4. <<>> \in X /\ Len(<<>>) = 0 /\ \A r \in X : Len(r) \in Nat
  OBVIOUS
<1> HIDE DEF X, L
<1>5. remain = Step(remain)
  <2> DEFINE body == [p \in (1 .. L) \X X |-> Body(p[1], p[2])]
  <2>1. StaysWithin(L, X, body)
    BY <1>3 DEF StaysWithin
  <2>2. \A i \in 1 .. L, r \in X : body[<<i, r>>] = Body(i, r)
    OBVIOUS
  <2> HIDE DEF body
  <2>3. Runs(L, X, <<>>, body)
    <3>1. L \in Nat /\ <<>> \in X
      BY <1>1, <1>4
    <3> QED BY <2>1, <3>1, LoopExists, Zenon
  <2>4. PICK f \in [0 .. L -> X] : f[0] = <<>> /\ \A i \in 1 .. L : f[i] = body[<<i, f[i - 1]>>]
    BY <2>3 DEF Runs
  <2>5. ASSUME NEW i \in 0 .. L PROVE f[i] = Step(f)[i]
    <3>1. CASE i = 0
      BY <3>1, <2>4
    <3>2. CASE i # 0
      <4>1. i \in 1 .. L /\ f[i - 1] \in X
        BY <3>2, <1>1
      <4>2. f[i] = body[<<i, f[i - 1]>>]
        BY <4>1, <2>4
      <4>3. f[i] = Body(i, f[i - 1])
        BY <4>1, <4>2, <2>2
      <4> QED BY <3>2, <4>3
    <3> QED BY <3>1, <3>2
  <2>6. f = Step(f)
    BY <2>5
  <2> QED BY <2>6
<1> HIDE DEF remain
<1> DEFINE G == {i \in 0 .. L : remain[i] \in X /\ Len(remain[i]) <= i}
<1>6. 0 \in G
  <2>1. remain[0] = <<>>
    BY <1>1, <1>5
  <2> QED BY <1>1, <1>4, <2>1
<1>7. ASSUME NEW i \in 0 .. L, i \in G, i < L PROVE i + 1 \in G
  <2>1. i + 1 \in 1 .. L /\ i + 1 \in 0 .. L /\ (i + 1) - 1 = i /\ i + 1 # 0
    BY <1>1, <1>7
  <2>2. remain[i + 1] = Body(i + 1, remain[i])
    BY <1>5, <2>1
  <2> HIDE DEF Body
  <2>3. remain[i + 1] \in X /\ Len(remain[i + 1]) <= Len(remain[i]) + 1 /\ Len(remain[i]) \in Nat
    BY <1>3, <1>7, <2>1, <2>2
  <2>4. Len(remain[i + 1]) \in Nat
    BY <1>4, <2>3
  <2> QED BY <1>7, <2>1, <2>3, <2>4
<1> HIDE DEF G
<1>8. \A i \in 0 .. L : i \in G
  BY <1>1, <1>6, <1>7, IntervalInduction
<1>9. L \in G
  BY <1>1, <1>8
<1> QED BY <1>2, <1>9 DEF G, X, L

--------------------------------------------------------------------------------
(* The inductive invariant *)

\* Finitely many packets are outstanding, each number once, in the order of their times.
Outstanding ==
    /\ IsFiniteSet(sentRanges)
    /\ \A p, q \in sentRanges : p.PacketNumber = q.PacketNumber => p = q
    /\ \A p, q \in sentRanges : p.PacketNumber < q.PacketNumber => p.SentTime <= q.SentTime

\* The history variables hold histories.
Histories ==
    /\ cong \in [sent : Nat, acked : Nat, lost : Nat]
    /\ verdicts \in [1 .. MaxSent -> Seq({"pto", "acked", "lost"})]

\* A loss timer is the timer; and there were no more PTOs than ticks of the clock, one
\* fewer when another is due, so the backoff stays within the clock's range.
TimerInv ==
    /\ TimerCoversOutstanding
    /\ lossTime # 0 => multiModalTimer = lossTime
    /\ ptoCount <= now
    /\ TimerFired => ptoCount < now

OnlyPTOs(told) == \A i \in 1 .. Len(told) : told[i] = "pto"
EndsInVerdict(told) ==
    /\ Len(told) # 0 /\ told[Len(told)] # "pto"
    /\ \A i \in 1 .. Len(told) - 1 : told[i] = "pto"

\* What a packet has heard, before it is sent, while it is outstanding and after.
Heard ==
    /\ \A n \in 1 .. MaxSent : n > largestSent => verdicts[n] = <<>>
    /\ \A p \in sentRanges : /\ OnlyPTOs(verdicts[p.PacketNumber])
                             /\ Retransmittable(p) \/ verdicts[p.PacketNumber] = <<>>
    /\ \A n \in 1 .. largestSent : n \in Numbers(sentRanges) \/ EndsInVerdict(verdicts[n])

Books == HandlerTypeOK /\ Outstanding /\ Histories /\ CountersExact /\ WindowConserved /\ SpuriousWasCounted
Inv == Books /\ TimerInv /\ LossTimeIsEarliest /\ Heard

--------------------------------------------------------------------------------
(* Facts about the packets, whatever the step *)

\* The counters of what stays are those of all less those of what leaves.
LEMMA Departed ==
    ASSUME NEW S, Sized(S), NEW G \in SUBSET S
    PROVE  /\ Size(Controlled(S \ G)) = Size(Controlled(S)) - Size(Controlled(G))
           /\ Size(Controlled(S \ G)) \in Nat /\ Size(Controlled(G)) \in Nat
           /\ Size(Controlled(S)) \in Nat
           /\ Cardinality(Exempt(S \ G)) = Cardinality(Exempt(S)) - Cardinality(Exempt(G))
           /\ Cardinality(Exempt(S \ G)) \in Nat
           /\ Cardinality(Probes(S \ G)) = Cardinality(Probes(S)) - Cardinality(Probes(G))
           /\ Cardinality(Probes(S \ G)) \in Nat
<1>1. Sized(Controlled(S)) /\ Controlled(G) \in SUBSET Controlled(S) /\ Controlled(S) \in SUBSET S
  <2>1. Controlled(G) \in SUBSET Controlled(S) /\ Controlled(S) \in SUBSET S
    BY DEF Controlled
  <2> QED BY <2>1, SizeRemove
<1>2. Controlled(S \ G) = Controlled(S) \ Controlled(G)
  BY DEF Controlled
<1>3. Size(Controlled(S)) = Size(Controlled(G)) + Size(Controlled(S) \ Controlled(G))
  BY <1>1, SizeSplit
<1>4. /\ Size(Controlled(S)) \in Nat /\ Size(Controlled(G)) \in Nat
      /\ Size(Controlled(S) \ Controlled(G)) \in Nat
  <2>1. Controlled(S) \ Controlled(G) \in SUBSET Controlled(S)
    OBVIOUS
  <2> QED BY <1>1, <2>1, SizeRemove
<1>5. ASSUME NEW T \in SUBSET S, NEW H \in SUBSET T
      PROVE  Cardinality(T \ H) = Cardinality(T) - Cardinality(H) /\ Cardinality(T \ H) \in Nat
  <2>1. IsFiniteSet(S)
    BY DEF Sized
  <2>2. IsFiniteSet(T) /\ IsFiniteSet(H)
    BY <2>1, FS_Subset
  <2>3. Cardinality(T \ H) = Cardinality(T) - Cardinality(T \cap H)
    BY <2>2, FS_Difference
  <2>4. T \cap H = H /\ T \ H \in SUBSET S
    OBVIOUS
  <2>5. Cardinality(T \ H) \in Nat
    BY <2>1, <2>4, Smaller
  <2> QED BY <2>3, <2>4, <2>5
<1>6. Exempt(S \ G) = Exempt(S) \ Exempt(G) /\ Exempt(S) \in SUBSET S /\ Exempt(G) \in SUBSET Exempt(S)
  BY DEF Exempt
<1>7. Probes(S \ G) = Probes(S) \ Probes(G) /\ Probes(S) \in SUBSET S /\ Probes(G) \in SUBSET Probes(S)
  BY DEF Probes
<1>8. /\ Cardinality(Exempt(S \ G)) = Cardinality(Exempt(S)) - Cardinality(Exempt(G))
      /\ Cardinality(Exempt(S \ G)) \in Nat
  BY <1>5, <1>6
<1>9. /\ Cardinality(Probes(S \ G)) = Cardinality(Probes(S)) - Cardinality(Probes(G))
      /\ Cardinality(Probes(S \ G)) \in Nat
  BY <1>5, <1>7
<1> QED BY <1>2, <1>3, <1>4, <1>8, <1>9

\* The counters are all zero when and only when nothing is outstanding.
LEMMA CountersZero ==
    ASSUME NEW S, Sized(S)
    PROVE  S = {} <=> /\ Size(Controlled(S)) = 0
                      /\ Cardinality(Probes(S)) = 0 /\ Cardinality(Exempt(S)) = 0
<1>1. /\ Controlled(S) \in SUBSET S /\ Exempt(S) \in SUBSET S /\ Probes(S) \in SUBSET S
      /\ S = Controlled(S) \cup Exempt(S)
  BY DEF Controlled, Exempt, Probes
<1>2. Sized(Controlled(S)) /\ IsFiniteSet(S)
  BY <1>1, SizeRemove DEF Sized
<1>3. Size(Controlled(S)) = 0 <=> Controlled(S) = {}
  BY <1>2, SizeZero
<1>4. Cardinality(Exempt(S)) = 0 <=> Exempt(S) = {}
  BY <1>1, <1>2, Smaller
<1>5. Cardinality(Probes(S)) = 0 <=> Probes(S) = {}
  BY <1>1, <1>2, Smaller
<1> QED BY <1>1, <1>3, <1>4, <1>5

LEMMA MinFacts ==
    ASSUME NEW T \in SUBSET Nat, T # {}
    PROVE  Min(T) \in T /\ \A y \in T : Min(T) <= y
<1>1. \E x \in T : \A y \in T : x <= y
  BY LeastNatural
<1> QED BY <1>1 DEF Min

LEMMA MaxFacts ==
    ASSUME NEW n \in Nat, NEW T \in SUBSET (0 .. n), T # {}
    PROVE  Max(T) \in T
<1> DEFINE D == {n - t : t \in T}
<1>1. D \in SUBSET Nat /\ D # {}
  <2>1. \A t \in T : t \in 0 .. n
    OBVIOUS
  <2>2. \A t \in T : n - t \in Nat
    BY <2>1
  <2> QED BY <2>2
<1>2. PICK d \in D : \A e \in D : d <= e
  BY <1>1, LeastNatural
<1>3. PICK t \in T : d = n - t
  OBVIOUS
<1>4. ASSUME NEW y \in T PROVE t >= y
  <2>1. n - y \in D
    OBVIOUS
  <2>2. n - t <= n - y
    BY <1>2, <1>3, <2>1
  <2>3. t \in 0 .. n /\ y \in 0 .. n
    OBVIOUS
  <2> HIDE DEF D
  <2> QED BY <2>2, <2>3
<1> QED BY <1>4 DEF Max

\* Ordered packets.
InOrder(ps) ==
    /\ \A p \in ps : p.PacketNumber \in Nat /\ p.SentTime \in Nat \ {0}
    /\ \A p, q \in ps : p.PacketNumber = q.PacketNumber => p = q
    /\ \A p, q \in ps : p.PacketNumber < q.PacketNumber => p.SentTime <= q.SentTime

\* The first suspect in sending order is the earliest one.
LEMMA FirstIsEarliest ==
    ASSUME NEW ps, InOrder(ps), NEW largest, NEW delay \in Nat,
           NEW suspects, suspects = {p \in ps : p.PacketNumber <= largest}
    PROVE  /\ suspects = {} => LossTimeOf(ps, largest, delay) = 0
           /\ suspects # {} =>
                 /\ LossTimeOf(ps, largest, delay) = Min({p.SentTime + delay : p \in suspects})
                 /\ LossTimeOf(ps, largest, delay) \in Nat \ {0}
<1>1. CASE suspects = {}
  BY <1>1 DEF LossTimeOf
<1>2. CASE suspects # {}
  <2> DEFINE ns == {p.PacketNumber : p \in suspects}
             ts == {p.SentTime + delay : p \in suspects}
             first == CHOOSE p \in suspects : \A q \in suspects : p.PacketNumber <= q.PacketNumber
  <2>1. \A p \in suspects : p \in ps /\ p.PacketNumber \in Nat /\ p.SentTime \in Nat \ {0}
    BY DEF InOrder
  <2>2. ns \in SUBSET Nat /\ ns # {} /\ ts \in SUBSET Nat /\ ts # {}
    BY <1>2, <2>1
  <2>3. \E n \in ns : \A m \in ns : n <= m
    BY <2>2, LeastNatural
  <2>4. \E p \in suspects : \A q \in suspects : p.PacketNumber <= q.PacketNumber
    BY <2>3
  <2>5. first \in suspects /\ \A q \in suspects : first.PacketNumber <= q.PacketNumber
    BY <2>4
  <2>6. LossTimeOf(ps, largest, delay) = first.SentTime + delay
    BY <1>2 DEF LossTimeOf
  <2> HIDE DEF first
  <2>7. ASSUME NEW q \in suspects PROVE first.SentTime <= q.SentTime
    <3>1. first \in ps /\ q \in ps /\ first.PacketNumber <= q.PacketNumber
      BY <2>1, <2>5
    <3>2. first.PacketNumber \in Nat /\ q.PacketNumber \in Nat /\ first.SentTime \in Nat
      BY <2>1, <2>5
    <3>3. CASE first.PacketNumber = q.PacketNumber
      <4>1. first = q
        BY <3>1, <3>3 DEF InOrder
      <4> QED BY <3>2, <4>1
    <3>4. CASE first.PacketNumber < q.PacketNumber
      BY <3>1, <3>4 DEF InOrder
    <3> QED BY <3>1, <3>2, <3>3, <3>4
  <2>8. \A y \in ts : first.SentTime + delay <= y
    BY <2>1, <2>5, <2>7
  <2>9. first.SentTime + delay \in ts /\ first.SentTime + delay \in Nat \ {0}
    BY <2>1, <2>5
  <2>10. Min(ts) \in ts /\ \A y \in ts : Min(ts) <= y
    BY <2>2, MinFacts
  <2>11. Min(ts) \in Nat
    BY <2>2, <2>10
  <2>12. Min(ts) = first.SentTime + delay
    <3> DEFINE a == first.SentTime + delay
               b == Min(ts)
    <3>1. a <= b /\ b <= a /\ a \in Nat /\ b \in Nat
      BY <2>8, <2>9, <2>10, <2>11
    <3> HIDE DEF a, b
    <3>2. a = b
      BY <3>1
    <3> QED BY <3>2 DEF a, b
  <2> QED BY <1>2, <2>6, <2>9, <2>12
<1> QED BY <1>1, <1>2

\* t is when the earliest suspect is lost, 0 without one.
EarliestLoss(t, ps, largest, delay) ==
    LET suspects == {p \in ps : p.PacketNumber <= largest}
    IN  /\ suspects = {} => t = 0
        /\ suspects # {} => t = Min({p.SentTime + delay : p \in suspects}) /\ t \in Nat \ {0}

LEMMA LossTimeFacts ==
    ASSUME NEW ps, InOrder(ps), NEW largest, NEW delay \in Nat
    PROVE  EarliestLoss(LossTimeOf(ps, largest, delay), ps, largest, delay)
BY FirstIsEarliest DEF EarliestLoss

\* As many numbers as packets, at most.
LEMMA NumbersCount ==
    ASSUME NEW ps, IsFiniteSet(ps)
    PROVE  Cardinality(Numbers(ps)) <= Cardinality(ps)
<1> DEFINE f == [p \in ps |-> p.PacketNumber]
<1>1. f \in Surjection(ps, Numbers(ps))
  BY DEF Surjection, Numbers
<1> QED BY <1>1, FS_Surjection

\* The type invariant says what the counting lemmas need.
LEMMA RangesFacts ==
    ASSUME HandlerTypeOK, Outstanding
    PROVE  /\ Sized(sentRanges) /\ InOrder(sentRanges) /\ Numbers(sentRanges) \subseteq 1 .. largestSent
           /\ \A p \in sentRanges : /\ p.PacketNumber \in 1 .. MaxSent /\ p.PacketNumber <= largestSent
                                    /\ p.SentTime \in 1 .. now
<1>1. /\ largestSent \in 0 .. MaxSent /\ MaxSent \in Nat /\ now \in 1 .. MaxTime /\ MaxTime \in Nat
      /\ Sizes \subseteq Nat \ {0}
  BY HandlerAssumption DEF HandlerTypeOK
<1>2. ASSUME NEW p \in sentRanges
      PROVE  p.PacketNumber \in 1 .. largestSent /\ p.PacketSize \in Sizes /\ p.SentTime \in 1 .. now
  <2>1. p \in [PacketNumber : 1 .. largestSent, PacketSize : Sizes, SentTime : 1 .. now, Kind : Kinds]
    BY DEF HandlerTypeOK
  <2> QED BY <2>1
<1>3. Sized(sentRanges)
  BY <1>1, <1>2 DEF Sized, Outstanding
<1>4. InOrder(sentRanges)
  <2>1. \A p \in sentRanges : p.PacketNumber \in Nat /\ p.SentTime \in Nat \ {0}
    BY <1>1, <1>2
  <2> QED BY <2>1 DEF InOrder, Outstanding
<1>5. Numbers(sentRanges) \subseteq 1 .. largestSent
  BY <1>2 DEF Numbers
<1>6. \A p \in sentRanges : p.PacketNumber \in 1 .. MaxSent /\ p.PacketNumber <= largestSent
  BY <1>1, <1>2
<1> QED BY <1>2, <1>3, <1>4, <1>5, <1>6

--------------------------------------------------------------------------------
(* The books *)

\* The bytes a departure tells the congestion controller of, and how many packets it may
\* have to take back.
LEMMA DepartureCounts ==
    ASSUME Books, NEW acked \in SUBSET sentRanges, NEW lost \in SUBSET (sentRanges \ acked)
    PROVE  /\ Size(Controlled(acked \cup lost)) = Size(Controlled(acked)) + Size(Controlled(lost))
           /\ Size(Controlled(acked)) \in Nat /\ Size(Controlled(lost)) \in Nat
           /\ Cardinality(Evidence(lost)) \in Nat
           /\ Numbers(Evidence(lost)) \subseteq 1 .. largestSent
           /\ Numbers(Evidence(lost)) \subseteq 1 .. MaxSent
           /\ Cardinality(Numbers(Evidence(lost))) \in Nat
           /\ Cardinality(Numbers(Evidence(lost))) <= Cardinality(Evidence(lost))
<1> DEFINE gone == acked \cup lost
<1>1. /\ Sized(sentRanges) /\ Numbers(sentRanges) \subseteq 1 .. largestSent
      /\ \A p \in sentRanges : p.PacketNumber \in 1 .. MaxSent
  BY RangesFacts DEF Books
<1>2. Sized(gone) /\ acked \in SUBSET gone /\ lost \in SUBSET gone /\ gone \ acked = lost
  <2>1. gone \in SUBSET sentRanges /\ acked \in SUBSET gone /\ gone \ acked = lost
    OBVIOUS
  <2> QED BY <1>1, <2>1, SizeRemove
<1> HIDE DEF gone
<1>3. /\ Size(Controlled(lost)) = Size(Controlled(gone)) - Size(Controlled(acked))
      /\ Size(Controlled(lost)) \in Nat /\ Size(Controlled(acked)) \in Nat
      /\ Size(Controlled(gone)) \in Nat
  BY <1>2, Departed
<1>4. Evidence(lost) \in SUBSET sentRanges /\ IsFiniteSet(sentRanges)
  BY <1>1 DEF Evidence, Sized
<1>5. IsFiniteSet(Evidence(lost)) /\ Cardinality(Evidence(lost)) \in Nat
  BY <1>4, Smaller
<1>6. Numbers(Evidence(lost)) \subseteq 1 .. largestSent /\ Numbers(Evidence(lost)) \subseteq 1 .. MaxSent
  BY <1>1, <1>4 DEF Numbers
<1>7. Cardinality(Numbers(Evidence(lost))) <= Cardinality(Evidence(lost))
  BY <1>5, NumbersCount
<1>8. Cardinality(Numbers(Evidence(lost))) \in Nat
  <2>1. MaxSent \in Nat
    BY HandlerAssumption
  <2>2. IsFiniteSet(1 .. MaxSent)
    BY <2>1, FS_Interval
  <2> QED BY <1>6, <2>2, FS_Subset, FS_CardinalityType
<1>9. Size(Controlled(gone)) = Size(Controlled(acked)) + Size(Controlled(lost))
  BY <1>3
<1> QED BY <1>3, <1>5, <1>6, <1>7, <1>8, <1>9 DEF gone

\* `acked' and `lost' leave, and `ring' is what the ACK left of the declared-lost ring.
Leaves(acked, lost, ring) ==
    /\ sentRanges' = sentRanges \ (acked \cup lost) /\ Uncount(acked \cup lost)
    /\ ring \in Seq(1 .. largestSent) /\ Len(ring) <= Len(declaredLost)
    /\ declaredLost' = Remember(ring, lost)
    /\ loss' = [Events   |-> loss.Events + LossEvent(lost),
                Packets  |-> loss.Packets + Cardinality(Evidence(lost)),
                Spurious |-> loss.Spurious + Len(declaredLost) - Len(ring)]
    /\ cong' = [sent  |-> cong.sent,
                acked |-> cong.acked + Size(Controlled(acked)),
                lost  |-> cong.lost + Size(Controlled(lost))]
    /\ now' = now /\ largestSent' = largestSent /\ largestAcked' \in 0 .. largestSent
    /\ rtt' \in RTTs /\ ptoCount' \in Nat /\ lossTime' \in Nat /\ multiModalTimer' \in Nat
    /\ verdicts' \in [1 .. MaxSent -> Seq({"pto", "acked", "lost"})]

\* Whatever packets leave, acknowledged or lost, the books balance afterwards.
LEMMA BooksAfterLeaving ==
    ASSUME Books,
           NEW acked \in SUBSET sentRanges, NEW lost \in SUBSET (sentRanges \ acked),
           NEW ring, Leaves(acked, lost, ring)
    PROVE  Books'
<1> DEFINE gone == acked \cup lost
<1>1. HandlerTypeOK /\ Outstanding /\ Histories /\ CountersExact /\ WindowConserved /\ SpuriousWasCounted
  BY DEF Books
<1>2. Sized(sentRanges) /\ gone \in SUBSET sentRanges
  BY <1>1, RangesFacts
<1>3. sentRanges' = sentRanges \ gone /\ sentRanges' \in SUBSET sentRanges
  BY DEF Leaves
<1>4. /\ Size(Controlled(gone)) = Size(Controlled(acked)) + Size(Controlled(lost))
      /\ Size(Controlled(acked)) \in Nat /\ Size(Controlled(lost)) \in Nat
      /\ Cardinality(Evidence(lost)) \in Nat
      /\ Numbers(Evidence(lost)) \subseteq 1 .. largestSent
      /\ Numbers(Evidence(lost)) \subseteq 1 .. MaxSent
      /\ Cardinality(Numbers(Evidence(lost))) \in Nat
      /\ Cardinality(Numbers(Evidence(lost))) <= Cardinality(Evidence(lost))
  BY DepartureCounts
<1>5. /\ Size(Controlled(sentRanges')) = Size(Controlled(sentRanges)) - Size(Controlled(gone))
      /\ Size(Controlled(sentRanges')) \in Nat /\ Size(Controlled(gone)) \in Nat
      /\ Cardinality(Exempt(sentRanges')) = Cardinality(Exempt(sentRanges)) - Cardinality(Exempt(gone))
      /\ Cardinality(Exempt(sentRanges')) \in Nat
      /\ Cardinality(Probes(sentRanges')) = Cardinality(Probes(sentRanges)) - Cardinality(Probes(gone))
      /\ Cardinality(Probes(sentRanges')) \in Nat
  BY <1>2, <1>3, Departed
<1>6. /\ bytesInFlight' = Size(Controlled(sentRanges'))
      /\ exemptOutstanding' = Cardinality(Exempt(sentRanges'))
      /\ mtuProbesOutstanding' = Cardinality(Probes(sentRanges'))
      /\ bytesInFlight' = bytesInFlight - Size(Controlled(gone))
  <2>1. Uncount(gone)
    BY DEF Leaves
  <2> HIDE DEF gone
  <2> QED BY <1>1, <1>5, <2>1 DEF Uncount, CountersExact
<1>7. /\ declaredLost' \in Seq(1 .. largestSent) /\ Len(declaredLost') <= maxDeclaredLostTracked
      /\ Len(declaredLost') <= Len(ring) + Cardinality(Numbers(Evidence(lost)))
  <2>1. Len(ring) <= maxDeclaredLostTracked
    <3>1. ring \in Seq(1 .. largestSent) /\ declaredLost \in Seq(1 .. largestSent)
      BY <1>1 DEF HandlerTypeOK, Leaves
    <3>3. Len(ring) \in Nat /\ Len(declaredLost) \in Nat /\ maxDeclaredLostTracked \in Nat
      BY <3>1, HandlerAssumption
    <3>4. Len(declaredLost) <= maxDeclaredLostTracked
      BY <1>1 DEF HandlerTypeOK
    <3>2. Len(ring) <= Len(declaredLost)
      BY DEF Leaves
    <3> QED BY <3>2, <3>3, <3>4
  <2>2. ring \in Seq(1 .. largestSent) /\ declaredLost' = Remember(ring, lost)
    BY DEF Leaves
  <2> QED BY <1>4, <2>1, <2>2, RememberFacts
<1>8. /\ loss'.Spurious = loss.Spurious + Len(declaredLost) - Len(ring)
      /\ loss'.Packets = loss.Packets + Cardinality(Evidence(lost))
      /\ loss'.Events = loss.Events + LossEvent(lost)
      /\ Len(ring) <= Len(declaredLost)
  BY DEF Leaves
<1>9. /\ loss.Spurious \in Nat /\ loss.Packets \in Nat /\ loss.Events \in Nat
      /\ Len(declaredLost) \in Nat /\ Len(ring) \in Nat /\ Len(declaredLost') \in Nat
      /\ LossEvent(lost) \in Nat
  <2>1. loss \in [Events : Nat, Packets : Nat, Spurious : Nat] /\ declaredLost \in Seq(1 .. largestSent)
    BY <1>1 DEF HandlerTypeOK
  <2>2. LossEvent(lost) \in Nat
    BY DEF LossEvent
  <2>3. ring \in Seq(1 .. largestSent)
    BY DEF Leaves
  <2> QED BY <1>7, <2>1, <2>2, <2>3
<1>10. /\ loss'.Spurious + Len(declaredLost') <= loss'.Packets
       /\ loss'.Spurious \in Nat /\ loss'.Packets \in Nat /\ loss'.Events \in Nat
  <2> DEFINE sp == loss.Spurious
             pk == loss.Packets
             ev == Cardinality(Evidence(lost))
             cn == Cardinality(Numbers(Evidence(lost)))
             d == Len(declaredLost)
             r == Len(ring)
             d1 == Len(declaredLost')
  <2>1. sp + d <= pk
    BY <1>1 DEF SpuriousWasCounted
  <2>2. d1 <= r + cn /\ cn <= ev /\ r <= d
    BY <1>4, <1>7, <1>8
  <2>3. sp \in Nat /\ pk \in Nat /\ ev \in Nat /\ cn \in Nat /\ d \in Nat /\ r \in Nat /\ d1 \in Nat
    BY <1>4, <1>9
  <2>4. loss'.Spurious = sp + d - r /\ loss'.Packets = pk + ev /\ loss'.Events \in Nat
    <3>1. loss.Events + LossEvent(lost) \in Nat
      BY <1>9
    <3> QED BY <1>8, <3>1
  <2> HIDE DEF sp, pk, ev, cn, d, r
  <2>5. (sp + d - r) + d1 <= pk + ev
    <3> HIDE DEF d1
    <3> QED BY <2>1, <2>2, <2>3
  <2>6. sp + d - r \in Nat /\ pk + ev \in Nat
    <3> HIDE DEF d1
    <3> QED BY <2>2, <2>3
  <2> QED BY <2>4, <2>5, <2>6
<1>11. /\ SpuriousWasCounted'
       /\ loss' \in [Events : Nat, Packets : Nat, Spurious : Nat]
  <2>1. loss' = [Events |-> loss'.Events, Packets |-> loss'.Packets, Spurious |-> loss'.Spurious]
    BY DEF Leaves
  <2> QED BY <1>10, <2>1 DEF SpuriousWasCounted
<1>12. /\ cong.sent \in Nat /\ cong.acked \in Nat /\ cong.lost \in Nat
  BY <1>1 DEF Histories
<1>13. WindowConserved'
  <2>1. cong.sent = cong.acked + cong.lost + bytesInFlight
    BY <1>1 DEF WindowConserved
  <2>2. /\ cong'.sent = cong.sent /\ cong'.acked = cong.acked + Size(Controlled(acked))
        /\ cong'.lost = cong.lost + Size(Controlled(lost))
    BY DEF Leaves
  <2>3. bytesInFlight \in Nat
    BY <1>1 DEF HandlerTypeOK
  <2>4. cong'.sent = cong'.acked + cong'.lost + bytesInFlight'
    BY <1>4, <1>6, <1>12, <2>1, <2>2, <2>3
  <2> QED BY <2>4 DEF WindowConserved
<1>14. Histories'
  <2>1. cong.acked + Size(Controlled(acked)) \in Nat /\ cong.lost + Size(Controlled(lost)) \in Nat
    BY <1>4, <1>12
  <2>2. cong' \in [sent : Nat, acked : Nat, lost : Nat]
    BY <1>12, <2>1 DEF Leaves
  <2> QED BY <2>2 DEF Histories, Leaves
<1>15. Outstanding'
  <2>1. IsFiniteSet(sentRanges')
    BY <1>1, <1>3, FS_Subset DEF Outstanding
  <2> QED BY <1>1, <1>3, <2>1 DEF Outstanding
<1>16. CountersExact'
  BY <1>6 DEF CountersExact
<1>17. HandlerTypeOK'
  <2>1. bytesInFlight' \in Nat /\ mtuProbesOutstanding' \in Nat /\ exemptOutstanding' \in Nat
    BY <1>5, <1>6
  <2>2. sentRanges' \subseteq [PacketNumber : 1 .. largestSent, PacketSize : Sizes,
                               SentTime : 1 .. now, Kind : Kinds]
    BY <1>1, <1>3 DEF HandlerTypeOK
  <2>3. now \in 1 .. MaxTime /\ largestSent \in 0 .. MaxSent
    BY <1>1 DEF HandlerTypeOK
  <2>4. /\ now' = now /\ largestSent' = largestSent /\ largestAcked' \in 0 .. largestSent
        /\ rtt' \in RTTs /\ ptoCount' \in Nat /\ lossTime' \in Nat /\ multiModalTimer' \in Nat
    BY DEF Leaves
  <2> QED BY <1>7, <1>11, <2>1, <2>2, <2>3, <2>4 DEF HandlerTypeOK
<1> QED BY <1>11, <1>13, <1>14, <1>15, <1>16, <1>17 DEF Books

--------------------------------------------------------------------------------
(* What the packets hear *)

Verdicts == {"pto", "acked", "lost"}

LEMMA HearsMore ==
    ASSUME NEW told \in Seq(Verdicts), OnlyPTOs(told), NEW w \in Verdicts
    PROVE  /\ Append(told, w) \in Seq(Verdicts)
           /\ w = "pto" => OnlyPTOs(Append(told, w))
           /\ w # "pto" => EndsInVerdict(Append(told, w))
<1> DEFINE t == Append(told, w)
           k == Len(told)
<1>1. /\ t \in Seq(Verdicts) /\ Len(t) = k + 1 /\ k \in Nat /\ t[k + 1] = w
      /\ \A i \in 1 .. k : t[i] = told[i]
  OBVIOUS
<1> HIDE DEF t
<1>2. \A i \in 1 .. k : t[i] = "pto"
  BY <1>1 DEF OnlyPTOs
<1> HIDE DEF k
<1>3. ASSUME w = "pto", NEW i \in 1 .. Len(t) PROVE t[i] = "pto"
  <2>1. i \in 1 .. k \/ i = k + 1
    BY <1>1, <1>3
  <2> QED BY <1>1, <1>2, <1>3, <2>1
<1>4. w = "pto" => OnlyPTOs(t)
  BY <1>3 DEF OnlyPTOs
<1>5. w # "pto" => EndsInVerdict(t)
  <2>1. Len(t) # 0 /\ Len(t) - 1 = k
    BY <1>1
  <2> QED BY <1>1, <1>2, <2>1 DEF EndsInVerdict
<1> QED BY <1>1, <1>4, <1>5 DEF t

\* The packets of `gone' hear their verdict, those of `again' of a PTO, the others nothing.
Hears(gone, again) ==
    /\ DOMAIN verdicts' = 1 .. MaxSent
    /\ verdicts' = [n \in 1 .. MaxSent |-> verdicts'[n]]
    /\ \A n \in 1 .. MaxSent :
          \/ /\ n \in Numbers(gone)
             /\ \E w \in {"acked", "lost"} : verdicts'[n] = Append(verdicts[n], w)
          \/ n \in Numbers(again) /\ verdicts'[n] = Append(verdicts[n], "pto")
          \/ n \notin Numbers(gone) /\ verdicts'[n] = verdicts[n]

LEMMA HeardAfterLeaving ==
    ASSUME HandlerTypeOK, Outstanding, Histories, Heard,
           NEW gone \in SUBSET sentRanges, NEW again \in SUBSET (sentRanges \ gone),
           \A p \in again : Retransmittable(p),
           sentRanges' = sentRanges \ gone, largestSent' = largestSent, Hears(gone, again)
    PROVE  Heard' /\ verdicts' \in [1 .. MaxSent -> Seq(Verdicts)]
<1>1. /\ \A p \in sentRanges : p.PacketNumber \in 1 .. MaxSent /\ p.PacketNumber <= largestSent
      /\ \A p, q \in sentRanges : p.PacketNumber = q.PacketNumber => p = q
  BY RangesFacts DEF Outstanding
<1>2. \A n \in 1 .. MaxSent : verdicts[n] \in Seq(Verdicts)
  BY DEF Histories, Verdicts
<1>3. largestSent \in 0 .. MaxSent /\ MaxSent \in Nat
  BY HandlerAssumption DEF HandlerTypeOK
<1>4. \A p \in sentRanges : OnlyPTOs(verdicts[p.PacketNumber])
  BY DEF Heard
<1>5. \A ps, n : n \in Numbers(ps) <=> \E p \in ps : p.PacketNumber = n
  BY DEF Numbers
<1>6. ASSUME NEW p \in gone
      PROVE  LET told == verdicts'[p.PacketNumber] IN told \in Seq(Verdicts) /\ EndsInVerdict(told)
  <2>1. p.PacketNumber \in 1 .. MaxSent /\ p.PacketNumber \in Numbers(gone)
    BY <1>1, <1>5
  <2>2. p.PacketNumber \notin Numbers(again)
    BY <1>1, <1>5
  <2>3. PICK w \in {"acked", "lost"} :
           verdicts'[p.PacketNumber] = Append(verdicts[p.PacketNumber], w)
    BY <2>1, <2>2 DEF Hears
  <2>4. w \in Verdicts /\ w # "pto" /\ verdicts[p.PacketNumber] \in Seq(Verdicts)
    BY <1>2, <2>1 DEF Verdicts
  <2> QED BY <1>4, <2>3, <2>4, HearsMore
<1>7. ASSUME NEW p \in again
      PROVE  LET told == verdicts'[p.PacketNumber] IN told \in Seq(Verdicts) /\ OnlyPTOs(told)
  <2>1. p.PacketNumber \in 1 .. MaxSent /\ p.PacketNumber \notin Numbers(gone)
    BY <1>1, <1>5
  <2>2. \/ verdicts'[p.PacketNumber] = Append(verdicts[p.PacketNumber], "pto")
        \/ verdicts'[p.PacketNumber] = verdicts[p.PacketNumber]
    BY <2>1 DEF Hears
  <2>3. "pto" \in Verdicts /\ verdicts[p.PacketNumber] \in Seq(Verdicts)
    BY <1>2, <2>1 DEF Verdicts
  <2>4. OnlyPTOs(verdicts[p.PacketNumber])
    BY <1>4
  <2> QED BY <2>2, <2>3, <2>4, HearsMore
<1>8. ASSUME NEW n \in 1 .. MaxSent, n \notin Numbers(gone), n \notin Numbers(again)
      PROVE  verdicts'[n] = verdicts[n]
  BY <1>8 DEF Hears
<1>9. verdicts' \in [1 .. MaxSent -> Seq(Verdicts)]
  <2>1. ASSUME NEW n \in 1 .. MaxSent PROVE verdicts'[n] \in Seq(Verdicts)
    <3>1. CASE n \in Numbers(gone)
      BY <1>5, <1>6, <3>1
    <3>2. CASE n \in Numbers(again)
      BY <1>5, <1>7, <3>2
    <3>3. CASE n \notin Numbers(gone) /\ n \notin Numbers(again)
      BY <1>2, <1>8, <3>3
    <3> QED BY <3>1, <3>2, <3>3
  <2>2. verdicts' = [n \in 1 .. MaxSent |-> verdicts'[n]]
    BY DEF Hears
  <2> QED BY <2>1, <2>2
<1>10. ASSUME NEW n \in 1 .. MaxSent, n > largestSent PROVE verdicts'[n] = <<>>
  <2>1. n \notin Numbers(gone) /\ n \notin Numbers(again)
    BY <1>1, <1>3, <1>5, <1>10
  <2>2. verdicts[n] = <<>>
    BY <1>10 DEF Heard
  <2> QED BY <1>8, <2>1, <2>2
<1>11. ASSUME NEW p \in sentRanges'
       PROVE  /\ OnlyPTOs(verdicts'[p.PacketNumber])
              /\ Retransmittable(p) \/ verdicts'[p.PacketNumber] = <<>>
  <2>1. p \in sentRanges /\ p \notin gone
    OBVIOUS
  <2>2. p.PacketNumber \notin Numbers(gone) /\ p.PacketNumber \in 1 .. MaxSent
    BY <1>1, <1>5, <2>1
  <2>3. CASE p \in again
    BY <1>7, <2>3
  <2>4. CASE p \notin again
    <3>1. p.PacketNumber \notin Numbers(again)
      BY <1>1, <1>5, <2>1, <2>4
    <3>2. verdicts'[p.PacketNumber] = verdicts[p.PacketNumber]
      BY <1>8, <2>2, <3>1
    <3> QED BY <2>1, <3>2 DEF Heard
  <2> QED BY <2>3, <2>4
<1>12. ASSUME NEW n \in 1 .. largestSent, n \notin Numbers(sentRanges')
       PROVE  EndsInVerdict(verdicts'[n])
  <2>1. n \in 1 .. MaxSent
    BY <1>3
  <2>2. CASE n \in Numbers(gone)
    BY <1>5, <1>6, <2>2
  <2>3. CASE n \notin Numbers(gone)
    <3>1. n \notin Numbers(sentRanges)
      BY <1>5, <1>12, <2>3
    <3>2. n \notin Numbers(again)
      BY <1>5, <3>1
    <3>3. verdicts'[n] = verdicts[n]
      BY <1>8, <2>1, <2>3, <3>2
    <3> QED BY <3>1, <3>3 DEF Heard
  <2> QED BY <2>2, <2>3
<1>13. Heard'
  BY <1>10, <1>11, <1>12 DEF Heard
<1> QED BY <1>9, <1>13

--------------------------------------------------------------------------------
(* The timer *)

\* Where the timer is set: at the loss time if there is one, else later than now.
LEMMA TimerSet ==
    ASSUME HandlerTypeOK, now' = now, lossTime' \in Nat, rtt' \in RTTs, ptoCount' \in 0 .. now,
           setLossDetectionTimer(now)
    PROVE  /\ multiModalTimer' \in Nat
           /\ lossTime' # 0 => multiModalTimer' = lossTime'
           /\ lossTime' = 0 =>
                 IF bytesInFlight' = 0 /\ mtuProbesOutstanding' = 0 /\ exemptOutstanding' = 0
                 THEN multiModalTimer' = 0 ELSE multiModalTimer' > now
<1>1. now \in 1 .. MaxTime /\ MaxTime \in Nat /\ rtt' \in Nat
  BY HandlerAssumption DEF HandlerTypeOK
<1>2. ptoCount' \in 0 .. MaxTime
  BY <1>1
<1>3. 2^(ptoCount') \in Nat \ {0}
  BY <1>2, BackoffAssumption
<1> DEFINE pw == 2^(ptoCount')
           at == now + (rtt' + pw)
<1>4. at \in Nat /\ at > now
  <2>1. pw \in Nat \ {0}
    BY <1>3
  <2>2. now \in Nat /\ rtt' \in Nat
    BY <1>1
  <2>3. \A a, b \in Nat, c \in Nat \ {0} : a + (b + c) \in Nat /\ a + (b + c) > a
    OBVIOUS
  <2> HIDE DEF pw
  <2> QED BY <2>1, <2>2, <2>3, Zenon
<1>5. now + PTO(ptoCount') = at
  BY DEF PTO
<1> HIDE DEF at
<1>6. CASE lossTime' # 0
  BY <1>6 DEF setLossDetectionTimer
<1>7. CASE /\ lossTime' = 0
           /\ bytesInFlight' = 0 /\ mtuProbesOutstanding' = 0 /\ exemptOutstanding' = 0
  BY <1>7 DEF setLossDetectionTimer
<1>8. CASE /\ lossTime' = 0
           /\ ~ (bytesInFlight' = 0 /\ mtuProbesOutstanding' = 0 /\ exemptOutstanding' = 0)
  <2>1. multiModalTimer' = at
    BY <1>5, <1>8 DEF setLossDetectionTimer
  <2> QED BY <1>4, <1>8, <2>1
<1> QED BY <1>6, <1>7, <1>8

\* A timer set from exact counters covers what is outstanding.
LEMMA TimerCovers ==
    ASSUME HandlerTypeOK, now' = now, lossTime' \in Nat, rtt' \in RTTs, ptoCount' \in 0 .. now,
           setLossDetectionTimer(now), Books', lossTime' # 0 => sentRanges' # {},
           lossTime' # 0 /\ now > lossTime' => ptoCount' < now
    PROVE  TimerInv'
<1>1. /\ multiModalTimer' \in Nat
      /\ lossTime' # 0 => multiModalTimer' = lossTime'
      /\ lossTime' = 0 =>
            IF bytesInFlight' = 0 /\ mtuProbesOutstanding' = 0 /\ exemptOutstanding' = 0
            THEN multiModalTimer' = 0 ELSE multiModalTimer' > now
  BY TimerSet
<1>2. now \in Nat /\ now > 0
  BY HandlerAssumption DEF HandlerTypeOK
<1>3. Sized(sentRanges')
  <2>1. (HandlerTypeOK /\ Outstanding => Sized(sentRanges))'
    BY RangesFacts, PTL
  <2> QED BY <2>1 DEF Books
<1>4. sentRanges' = {} <=>
         bytesInFlight' = 0 /\ mtuProbesOutstanding' = 0 /\ exemptOutstanding' = 0
  <2>1. /\ bytesInFlight' = Size(Controlled(sentRanges'))
        /\ exemptOutstanding' = Cardinality(Exempt(sentRanges'))
        /\ mtuProbesOutstanding' = Cardinality(Probes(sentRanges'))
    BY DEF Books, CountersExact
  <2> QED BY <1>3, <2>1, CountersZero
<1>5. TimerCoversOutstanding'
  BY <1>1, <1>2, <1>4 DEF TimerCoversOutstanding
<1>6. (TimerFired => ptoCount < now)'
  BY <1>1, <1>2 DEF TimerFired
<1> QED BY <1>1, <1>5, <1>6 DEF TimerInv

--------------------------------------------------------------------------------
(* The steps *)

\* The packets that stay are in order too.
LEMMA StillInOrder ==
    ASSUME NEW ps, InOrder(ps), NEW qs \in SUBSET ps
    PROVE  InOrder(qs)
BY DEF InOrder

\* Retiring packets, after an ACK or at the loss timer.
LEMMA RetireInv ==
    ASSUME Inv, NEW acked \in SUBSET sentRanges,
           NEW ring \in Seq(1 .. largestSent), Len(ring) <= Len(declaredLost),
           largestAcked' \in 0 .. largestSent, rtt' \in RTTs, ptoCount' \in 0 .. now, ptoCount' < now,
           now' = now, largestSent' = largestSent,
           Retire(acked, sentRanges \ acked, ring), setLossDetectionTimer(now)
    PROVE  Inv'
<1>1. /\ Books /\ HandlerTypeOK /\ Outstanding /\ Histories /\ Heard
      /\ InOrder(sentRanges)
  BY RangesFacts DEF Inv, Books
<1>2. PICK lost : lost = LostNow(sentRanges \ acked, largestAcked', lossDelay(rtt'))
  OBVIOUS
<1>3. lost \in SUBSET (sentRanges \ acked)
  BY <1>2 DEF LostNow
<1> DEFINE gone == acked \cup lost
<1>4. /\ sentRanges' = (sentRanges \ acked) \ lost
      /\ lossTime' = LossTimeOf((sentRanges \ acked) \ lost, largestAcked', lossDelay(rtt'))
      /\ Uncount(gone) /\ declaredLost' = Remember(ring, lost)
  BY <1>2 DEF Retire
<1>5. sentRanges' = sentRanges \ gone /\ gone \in SUBSET sentRanges /\ sentRanges' \in SUBSET sentRanges
  BY <1>3, <1>4
<1>6. EarliestLoss(lossTime', sentRanges', largestAcked', lossDelay(rtt'))
  <2>1. InOrder(sentRanges')
    BY <1>1, <1>5, StillInOrder
  <2>2. lossDelay(rtt') \in Nat
    BY HandlerAssumption DEF lossDelay
  <2>3. lossTime' = LossTimeOf(sentRanges', largestAcked', lossDelay(rtt'))
    BY <1>4
  <2> QED BY <2>1, <2>2, <2>3, LossTimeFacts, Zenon
<1>7. lossTime' \in Nat /\ (lossTime' # 0 => sentRanges' # {})
  BY <1>6 DEF EarliestLoss
<1>8. LossTimeIsEarliest'
  BY <1>6 DEF LossTimeIsEarliest, EarliestLoss
<1>9. verdicts' = [n \in 1 .. MaxSent |->
                     IF n \in Numbers(acked) THEN Append(verdicts[n], "acked")
                     ELSE IF n \in Numbers(lost) THEN Append(verdicts[n], "lost") ELSE verdicts[n]]
  BY <1>2 DEF Retire, Told
<1>10. Hears(gone, {})
  <2>1. \A n : n \in Numbers(gone) <=> n \in Numbers(acked) \/ n \in Numbers(lost)
    BY DEF Numbers
  <2>2. ASSUME NEW n \in 1 .. MaxSent
        PROVE  \/ /\ n \in Numbers(gone)
                  /\ \E w \in {"acked", "lost"} : verdicts'[n] = Append(verdicts[n], w)
               \/ n \notin Numbers(gone) /\ verdicts'[n] = verdicts[n]
    BY <1>9, <2>1
  <2>3. DOMAIN verdicts' = 1 .. MaxSent /\ verdicts' = [n \in 1 .. MaxSent |-> verdicts'[n]]
    BY <1>9
  <2> QED BY <2>2, <2>3 DEF Hears
<1>11. Heard' /\ verdicts' \in [1 .. MaxSent -> Seq(Verdicts)]
  BY <1>1, <1>5, <1>10, HeardAfterLeaving
<1>12. multiModalTimer' \in Nat
  BY <1>1, <1>7, TimerSet
<1>13. Leaves(acked, lost, ring)
  <2>1. /\ loss = [Events |-> loss.Events, Packets |-> loss.Packets, Spurious |-> loss.Spurious]
        /\ cong = [sent |-> cong.sent, acked |-> cong.acked, lost |-> cong.lost]
    BY <1>1 DEF HandlerTypeOK, Histories
  <2>2. loss' = [Events   |-> loss.Events + LossEvent(lost),
                 Packets  |-> loss.Packets + Cardinality(Evidence(lost)),
                 Spurious |-> loss.Spurious + Len(declaredLost) - Len(ring)]
    BY <1>2, <2>1 DEF Retire
  <2>3. cong' = [sent  |-> cong.sent,
                 acked |-> cong.acked + Size(Controlled(acked)),
                 lost  |-> cong.lost + Size(Controlled(lost))]
    BY <1>2, <2>1 DEF Retire
  <2>4. ptoCount' \in Nat /\ verdicts' \in [1 .. MaxSent -> Seq({"pto", "acked", "lost"})]
    BY <1>11 DEF Verdicts
  <2> QED BY <1>4, <1>5, <1>7, <1>12, <2>2, <2>3, <2>4 DEF Leaves
<1>14. Books'
  BY <1>1, <1>3, <1>13, BooksAfterLeaving
<1>15. TimerInv'
  BY <1>1, <1>7, <1>14, TimerCovers
<1> QED BY <1>8, <1>11, <1>14, <1>15 DEF Inv

\* The counters with one packet more.
LEMMA OneMore ==
    ASSUME NEW S, Sized(S), NEW p, p \notin S, p.PacketSize \in Nat \ {0}
    PROVE  /\ Sized(S \cup {p})
           /\ Size(Controlled(S \cup {p}))
                = Size(Controlled(S)) + (IF CongestionExempt(p) THEN 0 ELSE p.PacketSize)
           /\ Cardinality(Exempt(S \cup {p}))
                = Cardinality(Exempt(S)) + (IF CongestionExempt(p) THEN 1 ELSE 0)
           /\ Cardinality(Probes(S \cup {p}))
                = Cardinality(Probes(S)) + (IF IsMTUProbe(p) THEN 1 ELSE 0)
           /\ Size(Controlled(S)) \in Nat /\ Cardinality(Exempt(S)) \in Nat
           /\ Cardinality(Probes(S)) \in Nat
<1> DEFINE T == S \cup {p}
           One == {p}
<1>1. Sized(T) /\ Sized(One)
  BY FS_AddElement, FS_Singleton DEF Sized
<1>2. One \in SUBSET T /\ T \ One = S
  OBVIOUS
<1>3. Size({}) = 0 /\ Size(One) = p.PacketSize
  <2>1. Size({}) = 0 /\ Size(One) = p.PacketSize + Size(One \ {p})
    BY <1>1, SizeRemove
  <2>2. One \ {p} = {}
    OBVIOUS
  <2> QED BY <2>1, <2>2
<1>4. Cardinality({}) = 0 /\ Cardinality(One) = 1
  BY FS_EmptySet, FS_Singleton
<1>5. /\ Controlled(One) = (IF CongestionExempt(p) THEN {} ELSE One)
      /\ Exempt(One) = (IF CongestionExempt(p) THEN One ELSE {})
      /\ Probes(One) = (IF IsMTUProbe(p) THEN One ELSE {})
  BY DEF Controlled, Exempt, Probes
<1>6. /\ Size(Controlled(S)) = Size(Controlled(T)) - Size(Controlled(One))
      /\ Size(Controlled(S)) \in Nat /\ Size(Controlled(T)) \in Nat
      /\ Cardinality(Exempt(S)) = Cardinality(Exempt(T)) - Cardinality(Exempt(One))
      /\ Cardinality(Probes(S)) = Cardinality(Probes(T)) - Cardinality(Probes(One))
      /\ Cardinality(Exempt(S)) \in Nat /\ Cardinality(Probes(S)) \in Nat
  <2> HIDE DEF One
  <2>1. T \ One = S
    BY <1>2
  <2> HIDE DEF T
  <2> QED BY <1>1, <1>2, <2>1, Departed
<1>7. Cardinality(Exempt(T)) \in Nat /\ Cardinality(Probes(T)) \in Nat
  <2>1. Exempt(T) \in SUBSET T /\ Probes(T) \in SUBSET T /\ IsFiniteSet(T)
    BY <1>1 DEF Exempt, Probes, Sized
  <2> HIDE DEF T
  <2> QED BY <2>1, Smaller
<1> HIDE DEF T, One
<1>8. Size(Controlled(One)) = (IF CongestionExempt(p) THEN 0 ELSE p.PacketSize)
  BY <1>3, <1>5
<1>9. /\ Cardinality(Exempt(One)) = (IF CongestionExempt(p) THEN 1 ELSE 0)
      /\ Cardinality(Probes(One)) = (IF IsMTUProbe(p) THEN 1 ELSE 0)
  BY <1>4, <1>5
<1>10. Size(Controlled(T)) = Size(Controlled(S)) + (IF CongestionExempt(p) THEN 0 ELSE p.PacketSize)
  <2>1. CASE CongestionExempt(p)
    BY <1>6, <1>8, <2>1
  <2>2. CASE ~ CongestionExempt(p)
    BY <1>6, <1>8, <2>2
  <2> QED BY <2>1, <2>2
<1>11. Cardinality(Exempt(T)) = Cardinality(Exempt(S)) + (IF CongestionExempt(p) THEN 1 ELSE 0)
  BY <1>6, <1>7, <1>9
<1>12. Cardinality(Probes(T)) = Cardinality(Probes(S)) + (IF IsMTUProbe(p) THEN 1 ELSE 0)
  BY <1>6, <1>7, <1>9
<1> QED BY <1>1, <1>6, <1>10, <1>11, <1>12 DEF T

\* Without a suspect there is no loss time, and with one there is.
LEMMA NoSuspects ==
    ASSUME HandlerTypeOK, Outstanding, LossTimeIsEarliest
    PROVE  lossTime = 0 <=> {p \in sentRanges : p.PacketNumber <= largestAcked} = {}
<1> DEFINE suspects == {p \in sentRanges : p.PacketNumber <= largestAcked}
           ts == {p.SentTime + lossDelay(rtt) : p \in suspects}
<1>1. \A p \in sentRanges : p.SentTime \in Nat \ {0}
  BY RangesFacts DEF InOrder
<1>2. lossDelay(rtt) \in Nat
  BY HandlerAssumption DEF HandlerTypeOK, lossDelay
<1>3. CASE suspects = {}
  BY <1>3 DEF LossTimeIsEarliest
<1>4. CASE suspects # {}
  <2>1. \A t \in ts : t \in Nat /\ t # 0
    BY <1>1, <1>2
  <2>2. ts \in SUBSET Nat /\ ts # {}
    BY <1>4, <2>1
  <2>3. Min(ts) \in ts
    BY <2>2, MinFacts
  <2>4. lossTime = Min(ts)
    BY <1>4 DEF LossTimeIsEarliest
  <2> QED BY <1>4, <2>1, <2>3, <2>4
<1> QED BY <1>3, <1>4

LEMMA OnSentInv ==
    ASSUME Inv, NEW kind \in Kinds, NEW size \in Sizes, OnSent(kind, size)
    PROVE  Inv'
<1>1. /\ Books /\ HandlerTypeOK /\ Outstanding /\ Histories /\ CountersExact /\ WindowConserved
      /\ SpuriousWasCounted /\ TimerInv /\ LossTimeIsEarliest /\ Heard
  BY DEF Inv, Books
<1> DEFINE p == [PacketNumber |-> largestSent + 1, PacketSize |-> size,
                 SentTime |-> now, Kind |-> kind]
<1>2. /\ p.PacketNumber = largestSent + 1 /\ p.PacketSize = size /\ p.SentTime = now /\ p.Kind = kind
      /\ largestSent < MaxSent
      /\ sentRanges' = sentRanges \cup {p} /\ largestSent' = p.PacketNumber
      /\ mtuProbesOutstanding' = mtuProbesOutstanding + (IF IsMTUProbe(p) THEN 1 ELSE 0)
      /\ setLossDetectionTimer(now)
      /\ now' = now /\ largestAcked' = largestAcked /\ rtt' = rtt /\ ptoCount' = ptoCount
      /\ lossTime' = lossTime /\ loss' = loss /\ declaredLost' = declaredLost /\ verdicts' = verdicts
  BY DEF OnSent
<1>3. IF CongestionExempt(p)
      THEN /\ exemptOutstanding' = exemptOutstanding + 1
           /\ bytesInFlight' = bytesInFlight /\ cong' = cong
      ELSE /\ bytesInFlight' = bytesInFlight + size
           /\ cong' = [cong EXCEPT !.sent = @ + size]
           /\ exemptOutstanding' = exemptOutstanding
  BY DEF OnSent
<1>4. p \in [PacketNumber : 1 .. (largestSent + 1), PacketSize : Sizes, SentTime : 1 .. now, Kind : Kinds]
  BY <1>1, HandlerAssumption DEF HandlerTypeOK
<1> HIDE DEF p
<1>5. /\ largestSent \in Nat /\ MaxSent \in Nat /\ largestAcked \in 0 .. largestSent /\ now \in 1 .. MaxTime
      /\ MaxTime \in Nat /\ size \in Nat \ {0} /\ now \in Nat
  BY <1>1, HandlerAssumption DEF HandlerTypeOK
<1>6. /\ Sized(sentRanges)
      /\ \A q \in sentRanges : /\ q.PacketNumber \in 1 .. MaxSent /\ q.PacketNumber <= largestSent
                               /\ q.SentTime \in 1 .. now
  BY <1>1, RangesFacts
<1>7. \A q \in sentRanges : q.PacketNumber < p.PacketNumber /\ q.SentTime <= p.SentTime /\ q # p
  BY <1>2, <1>5, <1>6
<1>8. /\ Size(Controlled(sentRanges'))
           = Size(Controlled(sentRanges)) + (IF CongestionExempt(p) THEN 0 ELSE size)
      /\ Cardinality(Exempt(sentRanges'))
           = Cardinality(Exempt(sentRanges)) + (IF CongestionExempt(p) THEN 1 ELSE 0)
      /\ Cardinality(Probes(sentRanges'))
           = Cardinality(Probes(sentRanges)) + (IF IsMTUProbe(p) THEN 1 ELSE 0)
      /\ Size(Controlled(sentRanges)) \in Nat /\ Cardinality(Exempt(sentRanges)) \in Nat
      /\ Cardinality(Probes(sentRanges)) \in Nat
  <2>1. p \notin sentRanges /\ p.PacketSize \in Nat \ {0}
    BY <1>2, <1>5, <1>7
  <2> QED BY <1>2, <1>6, <2>1, OneMore
<1>9. /\ bytesInFlight = Size(Controlled(sentRanges)) /\ exemptOutstanding = Cardinality(Exempt(sentRanges))
      /\ mtuProbesOutstanding = Cardinality(Probes(sentRanges))
  BY <1>1 DEF CountersExact
<1>10. CountersExact' /\ bytesInFlight' \in Nat /\ exemptOutstanding' \in Nat /\ mtuProbesOutstanding' \in Nat
  <2>1. /\ bytesInFlight' = Size(Controlled(sentRanges')) /\ bytesInFlight' \in Nat
        /\ exemptOutstanding' = Cardinality(Exempt(sentRanges')) /\ exemptOutstanding' \in Nat
    <3>1. CASE CongestionExempt(p)
      BY <1>3, <1>8, <1>9, <3>1
    <3>2. CASE ~ CongestionExempt(p)
      BY <1>3, <1>5, <1>8, <1>9, <3>2
    <3> QED BY <3>1, <3>2
  <2>2. mtuProbesOutstanding' = Cardinality(Probes(sentRanges')) /\ mtuProbesOutstanding' \in Nat
    BY <1>2, <1>8, <1>9
  <2> QED BY <2>1, <2>2 DEF CountersExact
<1>11. cong \in [sent : Nat, acked : Nat, lost : Nat] /\ bytesInFlight \in Nat
  BY <1>1 DEF Histories, HandlerTypeOK
<1>12. WindowConserved' /\ Histories'
  <2>1. cong.sent = cong.acked + cong.lost + bytesInFlight
    BY <1>1 DEF WindowConserved
  <2>2. verdicts' \in [1 .. MaxSent -> Seq({"pto", "acked", "lost"})]
    BY <1>1, <1>2 DEF Histories
  <2>3. CASE CongestionExempt(p)
    BY <1>3, <1>11, <2>1, <2>2, <2>3 DEF WindowConserved, Histories
  <2>4. CASE ~ CongestionExempt(p)
    <3>1. /\ cong'.sent = cong.sent + size /\ cong'.acked = cong.acked /\ cong'.lost = cong.lost
          /\ cong' \in [sent : Nat, acked : Nat, lost : Nat]
      BY <1>3, <1>5, <1>11, <2>4
    <3>2. cong.sent \in Nat /\ cong.acked \in Nat /\ cong.lost \in Nat
      BY <1>11
    <3>3. bytesInFlight' = bytesInFlight + size
      BY <1>3, <2>4
    <3>4. cong'.sent = cong'.acked + cong'.lost + bytesInFlight'
      BY <1>5, <1>11, <2>1, <3>1, <3>2, <3>3
    <3> QED BY <2>2, <3>1, <3>4 DEF WindowConserved, Histories
  <2> QED BY <2>3, <2>4
<1>13. Outstanding'
  <2>1. IsFiniteSet(sentRanges')
    BY <1>1, <1>2, FS_AddElement DEF Outstanding
  <2>2. ASSUME NEW q \in sentRanges', NEW r \in sentRanges'
        PROVE  /\ q.PacketNumber = r.PacketNumber => q = r
               /\ q.PacketNumber < r.PacketNumber => q.SentTime <= r.SentTime
    <3>1. CASE q \in sentRanges /\ r \in sentRanges
      BY <1>1, <3>1 DEF Outstanding
    <3>2. CASE q = p /\ r \in sentRanges
      BY <1>2, <1>5, <1>6, <1>7, <3>2
    <3>3. CASE q \in sentRanges /\ r = p
      BY <1>2, <1>5, <1>6, <1>7, <3>3
    <3>4. CASE q = p /\ r = p
      BY <1>2, <1>5, <3>4
    <3> QED BY <1>2, <3>1, <3>2, <3>3, <3>4
  <2> QED BY <2>1, <2>2 DEF Outstanding
<1>14. SpuriousWasCounted'
  BY <1>1, <1>2 DEF SpuriousWasCounted
<1>15. multiModalTimer' \in Nat
  <2>1. ptoCount' \in 0 .. now /\ lossTime' \in Nat /\ rtt' \in RTTs
    BY <1>1, <1>2, <1>5 DEF HandlerTypeOK, TimerInv
  <2> QED BY <1>1, <1>2, <2>1, TimerSet
<1>16. HandlerTypeOK'
  <2>1. sentRanges' \subseteq [PacketNumber : 1 .. largestSent', PacketSize : Sizes,
                               SentTime : 1 .. now', Kind : Kinds]
    <3>1. ASSUME NEW q \in sentRanges
          PROVE  q \in [PacketNumber : 1 .. (largestSent + 1), PacketSize : Sizes,
                        SentTime : 1 .. now, Kind : Kinds]
      <4>1. q \in [PacketNumber : 1 .. largestSent, PacketSize : Sizes,
                   SentTime : 1 .. now, Kind : Kinds]
        BY <1>1 DEF HandlerTypeOK
      <4> QED BY <1>5, <4>1
    <3> QED BY <1>2, <1>4, <3>1
  <2>2. largestSent' \in 0 .. MaxSent /\ largestAcked' \in 0 .. largestSent'
    BY <1>2, <1>5
  <2>3. declaredLost' \in Seq(1 .. largestSent') /\ Len(declaredLost') <= maxDeclaredLostTracked
    <3>1. declaredLost \in Seq(1 .. largestSent) /\ Len(declaredLost) <= maxDeclaredLostTracked
      BY <1>1 DEF HandlerTypeOK
    <3>2. 1 .. largestSent \subseteq 1 .. (largestSent + 1)
      BY <1>5
    <3>3. declaredLost \in Seq(1 .. (largestSent + 1))
      BY <3>1, <3>2, SeqMonotonic, Zenon
    <3> QED BY <1>2, <3>1, <3>3
  <2>4. /\ now' \in 1 .. MaxTime /\ rtt' \in RTTs /\ ptoCount' \in Nat /\ lossTime' \in Nat
        /\ loss' \in [Events : Nat, Packets : Nat, Spurious : Nat]
    BY <1>1, <1>2 DEF HandlerTypeOK
  <2> QED BY <1>10, <1>15, <2>1, <2>2, <2>3, <2>4 DEF HandlerTypeOK
<1>17. Books'
  BY <1>10, <1>12, <1>13, <1>14, <1>16 DEF Books
<1>18. TimerInv'
  <2>1. ptoCount' \in 0 .. now /\ lossTime' \in Nat /\ rtt' \in RTTs
    BY <1>1, <1>2, <1>5 DEF HandlerTypeOK, TimerInv
  <2>2. sentRanges' # {}
    BY <1>2
  <2>3. lossTime' # 0 /\ now > lossTime' => ptoCount' < now
    BY <1>1, <1>2 DEF TimerInv, TimerFired
  <2> QED BY <1>1, <1>2, <1>17, <2>1, <2>2, <2>3, TimerCovers
<1>19. LossTimeIsEarliest'
  <2>1. {q \in sentRanges' : q.PacketNumber <= largestAcked'}
           = {q \in sentRanges : q.PacketNumber <= largestAcked}
    <3>1. ~ (p.PacketNumber <= largestAcked)
      BY <1>2, <1>5
    <3> QED BY <1>2, <3>1
  <2> QED BY <1>1, <1>2, <2>1 DEF LossTimeIsEarliest
<1>20. Heard'
  <2>1. ASSUME NEW n \in 1 .. MaxSent, n > largestSent' PROVE verdicts'[n] = <<>>
    BY <1>1, <1>2, <1>5, <2>1 DEF Heard
  <2>2. verdicts'[p.PacketNumber] = <<>>
    BY <1>1, <1>2, <1>5 DEF Heard
  <2>3. OnlyPTOs(<<>>)
    BY DEF OnlyPTOs
  <2>4. ASSUME NEW q \in sentRanges'
        PROVE  /\ OnlyPTOs(verdicts'[q.PacketNumber])
               /\ Retransmittable(q) \/ verdicts'[q.PacketNumber] = <<>>
    <3>1. CASE q = p
      BY <2>2, <2>3, <3>1
    <3>2. CASE q \in sentRanges
      BY <1>1, <1>2, <3>2 DEF Heard
    <3> QED BY <1>2, <3>1, <3>2
  <2>5. ASSUME NEW n \in 1 .. largestSent' PROVE n \in Numbers(sentRanges') \/ EndsInVerdict(verdicts'[n])
    <3>1. CASE n = p.PacketNumber
      BY <1>2, <3>1 DEF Numbers
    <3>2. CASE n # p.PacketNumber
      <4>1. n \in 1 .. largestSent
        BY <1>2, <1>5, <3>2
      <4>2. n \in Numbers(sentRanges) => n \in Numbers(sentRanges')
        BY <1>2 DEF Numbers
      <4> QED BY <1>1, <1>2, <4>1, <4>2 DEF Heard
    <3> QED BY <3>1, <3>2
  <2> QED BY <2>1, <2>4, <2>5 DEF Heard
<1> QED BY <1>17, <1>18, <1>19, <1>20 DEF Inv

LEMMA ReceiveACKInv ==
    ASSUME Inv, NEW ack \in SUBSET (1 .. largestSent), ack # {}, NEW sample \in RTTs,
           ReceiveACK(ack, sample)
    PROVE  Inv'
<1>1. HandlerTypeOK
  BY DEF Inv, Books
<1> DEFINE acked == {p \in sentRanges : p.PacketNumber \in ack}
<1>2. /\ Max(ack) <= largestSent /\ rtt' = sample /\ largestAcked' = Max({largestAcked, Max(ack)})
      /\ ptoCount' = 0 /\ Retire(acked, sentRanges \ acked, Vindicated(ack))
      /\ setLossDetectionTimer(now) /\ now' = now /\ largestSent' = largestSent
  BY DEF ReceiveACK
<1>3. /\ largestSent \in Nat /\ largestAcked \in 0 .. largestSent /\ now \in Nat /\ now > 0
      /\ declaredLost \in Seq(1 .. largestSent)
  BY <1>1, HandlerAssumption DEF HandlerTypeOK
<1>4. Max(ack) \in 1 .. largestSent
  <2>1. ack \in SUBSET (0 .. largestSent)
    BY <1>3
  <2>2. Max(ack) \in ack
    BY <1>3, <2>1, MaxFacts
  <2> QED BY <2>2
<1>5. largestAcked' \in 0 .. largestSent
  <2>1. {largestAcked, Max(ack)} \in SUBSET (0 .. largestSent) /\ {largestAcked, Max(ack)} # {}
    BY <1>3, <1>4
  <2> QED BY <1>2, <1>3, <2>1, MaxFacts
<1>6. PICK ring : ring = Vindicated(ack)
  OBVIOUS
<1>7. ring \in Seq(1 .. largestSent) /\ Len(ring) <= Len(declaredLost)
  BY <1>3, <1>6, VindicatedFacts
<1>8. Retire(acked, sentRanges \ acked, ring)
  BY <1>2, <1>6
<1>9. acked \in SUBSET sentRanges /\ rtt' \in RTTs /\ ptoCount' \in 0 .. now /\ ptoCount' < now
  BY <1>2, <1>3
<1> HIDE DEF acked
<1> QED BY <1>2, <1>5, <1>7, <1>8, <1>9, RetireInv

LEMMA OnLossTimeoutInv ==
    ASSUME Inv, OnLossTimeout
    PROVE  Inv'
<1>1. HandlerTypeOK /\ TimerInv
  BY DEF Inv, Books
<1>2. /\ TimerFired /\ now' = now /\ largestSent' = largestSent /\ largestAcked' = largestAcked
      /\ rtt' = rtt /\ ptoCount' = ptoCount
      /\ Retire({}, sentRanges, declaredLost) /\ setLossDetectionTimer(now)
  BY DEF OnLossTimeout
<1>3. PICK ring : ring = declaredLost
  OBVIOUS
<1>4. PICK acked : acked = {}
  OBVIOUS
<1>5. /\ ring \in Seq(1 .. largestSent) /\ Len(ring) <= Len(declaredLost)
  <2>1. ring \in Seq(1 .. largestSent)
    BY <1>1, <1>3 DEF HandlerTypeOK
  <2>2. Len(ring) \in Nat
    BY <2>1
  <2> QED BY <1>3, <2>1, <2>2
<1>6. acked \in SUBSET sentRanges /\ Retire(acked, sentRanges \ acked, ring)
  <2>1. sentRanges \ acked = sentRanges
    BY <1>4
  <2> QED BY <1>2, <1>3, <1>4, <2>1
<1>7. /\ largestAcked' \in 0 .. largestSent /\ rtt' \in RTTs
      /\ ptoCount' \in 0 .. now /\ ptoCount' < now
  BY <1>1, <1>2, HandlerAssumption DEF HandlerTypeOK, TimerInv
<1> QED BY <1>2, <1>5, <1>6, <1>7, RetireInv

LEMMA ReceiveStaleACKInv ==
    ASSUME Inv, NEW ack, ReceiveStaleACK(ack)
    PROVE  Inv'
<1>1. /\ HandlerTypeOK /\ Outstanding /\ Histories /\ CountersExact /\ WindowConserved
      /\ SpuriousWasCounted /\ TimerInv /\ LossTimeIsEarliest /\ Heard
  BY DEF Inv, Books
<1>2. /\ declaredLost' = Vindicated(ack)
      /\ loss' = [loss EXCEPT !.Spurious = @ + Len(declaredLost) - Len(declaredLost')]
      /\ now' = now /\ largestSent' = largestSent /\ largestAcked' = largestAcked
      /\ bytesInFlight' = bytesInFlight /\ mtuProbesOutstanding' = mtuProbesOutstanding
      /\ exemptOutstanding' = exemptOutstanding /\ sentRanges' = sentRanges /\ rtt' = rtt
      /\ ptoCount' = ptoCount /\ lossTime' = lossTime /\ multiModalTimer' = multiModalTimer
      /\ cong' = cong /\ verdicts' = verdicts
  BY DEF ReceiveStaleACK
<1>3. declaredLost \in Seq(1 .. largestSent) /\ Len(declaredLost) <= maxDeclaredLostTracked
  BY <1>1 DEF HandlerTypeOK
<1>4. declaredLost' \in Seq(1 .. largestSent) /\ Len(declaredLost') <= Len(declaredLost)
  BY <1>2, <1>3, VindicatedFacts
<1>5. Len(declaredLost) \in Nat /\ Len(declaredLost') \in Nat /\ maxDeclaredLostTracked \in Nat
  BY <1>3, <1>4, HandlerAssumption
<1>6. loss \in [Events : Nat, Packets : Nat, Spurious : Nat]
  BY <1>1 DEF HandlerTypeOK
<1>7. /\ loss'.Spurious = loss.Spurious + Len(declaredLost) - Len(declaredLost')
      /\ loss'.Packets = loss.Packets
      /\ loss' \in [Events : Nat, Packets : Nat, Spurious : Nat]
  <2>1. loss.Spurious + Len(declaredLost) - Len(declaredLost') \in Nat
    BY <1>4, <1>5, <1>6
  <2> QED BY <1>2, <1>6, <2>1
<1>8. SpuriousWasCounted'
  <2>1. loss.Spurious + Len(declaredLost) <= loss.Packets /\ loss.Spurious \in Nat /\ loss.Packets \in Nat
    BY <1>1, <1>6 DEF SpuriousWasCounted
  <2>2. loss'.Spurious + Len(declaredLost') = loss.Spurious + Len(declaredLost)
    BY <1>5, <1>7, <2>1
  <2>3. loss'.Spurious + Len(declaredLost') <= loss'.Packets
    BY <1>7, <2>1, <2>2
  <2> QED BY <2>3 DEF SpuriousWasCounted
<1>9. HandlerTypeOK'
  <2>1. Len(declaredLost') <= maxDeclaredLostTracked
    BY <1>3, <1>4, <1>5
  <2> QED BY <1>1, <1>2, <1>4, <1>7, <2>1 DEF HandlerTypeOK
<1>10. Outstanding' /\ Histories' /\ CountersExact' /\ WindowConserved'
  BY <1>1, <1>2 DEF Outstanding, Histories, CountersExact, WindowConserved
<1>11. TimerInv' /\ LossTimeIsEarliest' /\ Heard'
  BY <1>1, <1>2 DEF TimerInv, TimerCoversOutstanding, TimerFired, LossTimeIsEarliest, Heard
<1> QED BY <1>8, <1>9, <1>10, <1>11 DEF Inv, Books

LEMMA TickInv ==
    ASSUME Inv, Tick
    PROVE  Inv'
<1>1. /\ HandlerTypeOK /\ Outstanding /\ Histories /\ CountersExact /\ WindowConserved
      /\ SpuriousWasCounted /\ TimerInv /\ LossTimeIsEarliest /\ Heard
  BY DEF Inv, Books
<1>2. /\ now < MaxTime /\ now' = now + 1
      /\ largestSent' = largestSent /\ largestAcked' = largestAcked
      /\ bytesInFlight' = bytesInFlight /\ mtuProbesOutstanding' = mtuProbesOutstanding
      /\ exemptOutstanding' = exemptOutstanding /\ sentRanges' = sentRanges /\ rtt' = rtt
      /\ ptoCount' = ptoCount /\ lossTime' = lossTime /\ multiModalTimer' = multiModalTimer
      /\ cong' = cong /\ verdicts' = verdicts /\ declaredLost' = declaredLost /\ loss' = loss
  BY DEF Tick, handlerVars
<1>3. now \in Nat /\ now \in 1 .. MaxTime /\ MaxTime \in Nat /\ ptoCount \in Nat /\ multiModalTimer \in Nat
  BY <1>1, HandlerAssumption DEF HandlerTypeOK
<1>4. HandlerTypeOK'
  <2>1. sentRanges' \subseteq [PacketNumber : 1 .. largestSent', PacketSize : Sizes,
                               SentTime : 1 .. now', Kind : Kinds]
    <3>1. ASSUME NEW q \in sentRanges
          PROVE  q \in [PacketNumber : 1 .. largestSent, PacketSize : Sizes,
                        SentTime : 1 .. (now + 1), Kind : Kinds]
      <4>1. q \in [PacketNumber : 1 .. largestSent, PacketSize : Sizes,
                   SentTime : 1 .. now, Kind : Kinds]
        BY <1>1 DEF HandlerTypeOK
      <4> QED BY <1>3, <4>1
    <3> QED BY <1>2, <3>1
  <2>2. now' \in 1 .. MaxTime
    BY <1>2, <1>3
  <2> QED BY <1>1, <1>2, <2>1, <2>2 DEF HandlerTypeOK
<1>5. Outstanding' /\ Histories' /\ CountersExact' /\ WindowConserved' /\ SpuriousWasCounted'
  BY <1>1, <1>2 DEF Outstanding, Histories, CountersExact, WindowConserved, SpuriousWasCounted
<1>6. LossTimeIsEarliest' /\ Heard'
  BY <1>1, <1>2 DEF LossTimeIsEarliest, Heard
<1>7. TimerInv'
  <2>1. ptoCount' < now'
    BY <1>1, <1>2, <1>3 DEF TimerInv
  <2>2. ptoCount' <= now'
    BY <1>2, <1>3, <2>1
  <2> QED BY <1>1, <1>2, <2>1, <2>2 DEF TimerInv, TimerCoversOutstanding, TimerFired
<1> QED BY <1>4, <1>5, <1>6, <1>7 DEF Inv, Books

LEMMA OnPTOInv ==
    ASSUME Inv, OnPTO
    PROVE  Inv'
<1>1. /\ Books /\ HandlerTypeOK /\ Outstanding /\ Histories /\ TimerInv /\ LossTimeIsEarliest /\ Heard
  BY DEF Inv, Books
<1>2. PICK lost : lost = Unretransmittable
  OBVIOUS
<1>3. PICK acked : acked = {}
  OBVIOUS
<1>4. PICK ring : ring = declaredLost
  OBVIOUS
<1> DEFINE rest == sentRanges \ lost
           again == IF bytesInFlight' # 0 THEN PTOTarget(rest) ELSE {}
<1>5. /\ TimerFired /\ lossTime = 0
      /\ sentRanges' = rest /\ Uncount(lost) /\ declaredLost' = Remember(ring, lost)
      /\ loss' = [loss EXCEPT !.Events = @ + LossEvent(lost),
                              !.Packets = @ + Cardinality(Evidence(lost))]
      /\ cong' = [cong EXCEPT !.lost = @ + Size(Controlled(lost))]
      /\ ptoCount' = IF bytesInFlight' # 0 /\ rest # {} THEN ptoCount + 1 ELSE ptoCount
      /\ now' = now /\ largestSent' = largestSent /\ largestAcked' = largestAcked
      /\ rtt' = rtt /\ lossTime' = lossTime /\ setLossDetectionTimer(now)
  BY <1>2, <1>4 DEF OnPTO
<1>6. verdicts' = [n \in 1 .. MaxSent |->
                     IF bytesInFlight' # 0 /\ n \in Numbers(PTOTarget(rest))
                     THEN Append(verdicts[n], "pto")
                     ELSE IF n \in Numbers(lost) THEN Append(verdicts[n], "lost") ELSE verdicts[n]]
  BY <1>2 DEF OnPTO, Told
<1>7. /\ lost \in SUBSET sentRanges /\ again \in SUBSET (sentRanges \ lost)
      /\ \A p \in again : Retransmittable(p)
  BY <1>2 DEF Unretransmittable, PTOTarget
<1>8. now \in Nat /\ ptoCount \in Nat /\ ptoCount < now
  BY <1>1, <1>5, HandlerAssumption DEF HandlerTypeOK, TimerInv
<1>9. ptoCount' \in 0 .. now /\ ptoCount' \in Nat /\ lossTime' \in Nat /\ rtt' \in RTTs /\ lossTime' = 0
  BY <1>1, <1>5, <1>8 DEF HandlerTypeOK
<1>10. Hears(lost, again)
  <2>1. ASSUME NEW n \in 1 .. MaxSent
        PROVE  \/ /\ n \in Numbers(lost)
                  /\ \E w \in {"acked", "lost"} : verdicts'[n] = Append(verdicts[n], w)
               \/ n \in Numbers(again) /\ verdicts'[n] = Append(verdicts[n], "pto")
               \/ n \notin Numbers(lost) /\ verdicts'[n] = verdicts[n]
    BY <1>6
  <2>2. DOMAIN verdicts' = 1 .. MaxSent /\ verdicts' = [n \in 1 .. MaxSent |-> verdicts'[n]]
    BY <1>6
  <2> HIDE DEF again
  <2> QED BY <2>1, <2>2 DEF Hears
<1>11. PICK target : target = again
  OBVIOUS
<1>12. Heard' /\ verdicts' \in [1 .. MaxSent -> Seq(Verdicts)]
  <2>1. target \in SUBSET (sentRanges \ lost) /\ (\A p \in target : Retransmittable(p))
    BY <1>7, <1>11
  <2>2. Hears(lost, target)
    BY <1>10, <1>11
  <2> HIDE DEF again
  <2> QED BY <1>1, <1>5, <1>7, <2>1, <2>2, HeardAfterLeaving
<1>13. multiModalTimer' \in Nat
  BY <1>1, <1>5, <1>9, TimerSet
<1>14. Leaves(acked, lost, ring)
  <2>1. acked \cup lost = lost
    BY <1>3
  <2>2. ring \in Seq(1 .. largestSent) /\ Len(ring) <= Len(declaredLost) /\ Len(declaredLost) \in Nat
    <3>1. declaredLost \in Seq(1 .. largestSent)
      BY <1>1 DEF HandlerTypeOK
    <3>2. Len(declaredLost) \in Nat
      BY <3>1
    <3> QED BY <1>4, <3>1, <3>2
  <2>3. /\ loss \in [Events : Nat, Packets : Nat, Spurious : Nat]
        /\ cong \in [sent : Nat, acked : Nat, lost : Nat]
    BY <1>1 DEF HandlerTypeOK, Histories
  <2>4. loss.Spurious + Len(declaredLost) - Len(ring) = loss.Spurious
    BY <1>4, <2>2, <2>3
  <2>5. loss' = [Events   |-> loss.Events + LossEvent(lost),
                 Packets  |-> loss.Packets + Cardinality(Evidence(lost)),
                 Spurious |-> loss.Spurious + Len(declaredLost) - Len(ring)]
    BY <1>5, <2>3, <2>4
  <2>6. cong.acked + Size(Controlled(acked)) = cong.acked
    <3>1. Sized(sentRanges)
      BY <1>1, RangesFacts
    <3>2. Size({}) = 0
      BY <3>1, SizeRemove
    <3>3. Controlled(acked) = {}
      BY <1>3 DEF Controlled
    <3>4. cong.acked \in Nat
      BY <2>3
    <3> QED BY <3>2, <3>3, <3>4
  <2>7. cong' = [sent  |-> cong.sent,
                 acked |-> cong.acked + Size(Controlled(acked)),
                 lost  |-> cong.lost + Size(Controlled(lost))]
    BY <1>5, <2>3, <2>6
  <2>8. verdicts' \in [1 .. MaxSent -> Seq({"pto", "acked", "lost"})]
    BY <1>12 DEF Verdicts
  <2>9. largestAcked' \in 0 .. largestSent
    BY <1>1, <1>5 DEF HandlerTypeOK
  <2> QED BY <1>5, <1>9, <1>13, <2>1, <2>2, <2>5, <2>7, <2>8, <2>9 DEF Leaves
<1>15. Books'
  <2>1. acked \in SUBSET sentRanges /\ lost \in SUBSET (sentRanges \ acked)
    BY <1>3, <1>7
  <2> QED BY <1>1, <1>14, <2>1, BooksAfterLeaving
<1>16. TimerInv'
  BY <1>1, <1>5, <1>9, <1>15, TimerCovers
<1>17. LossTimeIsEarliest'
  <2>1. {p \in sentRanges : p.PacketNumber <= largestAcked} = {}
    BY <1>1, <1>5, NoSuspects
  <2>2. {p \in sentRanges' : p.PacketNumber <= largestAcked'} = {}
    BY <1>5, <2>1
  <2> QED BY <1>9, <2>2 DEF LossTimeIsEarliest
<1> QED BY <1>12, <1>15, <1>16, <1>17 DEF Inv

LEMMA InitInv == HandlerInit => Inv
<1> SUFFICES ASSUME HandlerInit PROVE Inv
  OBVIOUS
<1>1. /\ now = 1 /\ largestSent = 0 /\ largestAcked = 0
      /\ bytesInFlight = 0 /\ mtuProbesOutstanding = 0 /\ exemptOutstanding = 0
      /\ sentRanges = {} /\ rtt \in RTTs /\ ptoCount = 0 /\ lossTime = 0 /\ multiModalTimer = 0
      /\ loss = [Events |-> 0, Packets |-> 0, Spurious |-> 0]
      /\ declaredLost = <<>> /\ cong = [sent |-> 0, acked |-> 0, lost |-> 0]
      /\ verdicts = [n \in 1 .. MaxSent |-> <<>>]
  BY DEF HandlerInit
<1>2. HandlerTypeOK
  <2>1. declaredLost \in Seq(1 .. largestSent) /\ Len(declaredLost) = 0
    BY <1>1
  <2>2. now \in 1 .. MaxTime /\ largestSent \in 0 .. MaxSent /\ largestAcked \in 0 .. largestSent
    BY <1>1, HandlerAssumption
  <2>3. Len(declaredLost) <= maxDeclaredLostTracked
    BY <2>1, HandlerAssumption
  <2> QED BY <1>1, <2>1, <2>2, <2>3 DEF HandlerTypeOK
<1>3. Outstanding
  BY <1>1, FS_EmptySet DEF Outstanding
<1>4. Histories
  BY <1>1 DEF Histories
<1>5. CountersExact
  <2>1. Sized({})
    BY FS_EmptySet DEF Sized
  <2>2. Size({}) = 0 /\ Cardinality({}) = 0
    BY <2>1, SizeRemove, FS_EmptySet
  <2>3. Controlled({}) = {} /\ Exempt({}) = {} /\ Probes({}) = {}
    BY DEF Controlled, Exempt, Probes
  <2> QED BY <1>1, <2>2, <2>3 DEF CountersExact
<1>6. WindowConserved /\ SpuriousWasCounted
  BY <1>1 DEF WindowConserved, SpuriousWasCounted
<1>7. TimerInv /\ LossTimeIsEarliest
  BY <1>1 DEF TimerInv, TimerCoversOutstanding, TimerFired, LossTimeIsEarliest
<1>8. Heard
  BY <1>1 DEF Heard
<1> QED BY <1>2, <1>3, <1>4, <1>5, <1>6, <1>7, <1>8 DEF Inv, Books

\* The handler's invariant is inductive: every send, ACK, timeout and tick keeps it.
LEMMA HandlerInvariance == HandlerSpec => []Inv
<1>1. Inv /\ [HandlerNext]_detectorVars => Inv'
  <2> SUFFICES ASSUME Inv, [HandlerNext]_detectorVars PROVE Inv'
    OBVIOUS
  <2>1. ASSUME NEW kind \in Kinds, NEW size \in Sizes, OnSent(kind, size) PROVE Inv'
    BY <2>1, OnSentInv
  <2>2. ASSUME NEW ack \in (SUBSET (1 .. largestSent)) \ {{}}, NEW sample \in RTTs,
               ReceiveACK(ack, sample)
        PROVE  Inv'
    <3>1. ack \in SUBSET (1 .. largestSent) /\ ack # {}
      OBVIOUS
    <3> QED BY <2>2, <3>1, ReceiveACKInv
  <2>3. ASSUME NEW ack \in (SUBSET (1 .. largestSent)) \ {{}}, ReceiveStaleACK(ack) PROVE Inv'
    BY <2>3, ReceiveStaleACKInv
  <2>4. CASE OnLossTimeout
    BY <2>4, OnLossTimeoutInv
  <2>5. CASE OnPTO
    BY <2>5, OnPTOInv
  <2>6. CASE Tick
    BY <2>6, TickInv
  <2>7. CASE UNCHANGED detectorVars
    <3>1. HandlerTypeOK'
      BY <2>7 DEF detectorVars, handlerVars, Inv, Books, HandlerTypeOK
    <3>2. Outstanding' /\ Histories' /\ CountersExact'
      BY <2>7 DEF detectorVars, handlerVars, Inv, Books, Outstanding, Histories, CountersExact
    <3>3. WindowConserved' /\ SpuriousWasCounted'
      BY <2>7 DEF detectorVars, handlerVars, Inv, Books, WindowConserved, SpuriousWasCounted
    <3>4. TimerInv'
      BY <2>7 DEF detectorVars, handlerVars, Inv, TimerInv, TimerCoversOutstanding, TimerFired
    <3>5. LossTimeIsEarliest' /\ Heard'
      BY <2>7 DEF detectorVars, handlerVars, Inv, LossTimeIsEarliest, Heard
    <3> QED BY <3>1, <3>2, <3>3, <3>4, <3>5 DEF Inv, Books
  <2> QED BY <2>1, <2>2, <2>3, <2>4, <2>5, <2>6, <2>7 DEF HandlerNext
<1> QED BY <1>1, InitInv, PTL DEF HandlerSpec

--------------------------------------------------------------------------------
(* The theorems *)

\* In every behaviour of the loss detector, of any length and with any packets, the three
\* incremental counters agree with the packets they count, the congestion controller was
\* told of every controlled byte once on the way in and once on the way out, and a loss is
\* called spurious at most once and only after it was counted
\* (trsf/ack_handler.go: OnSent, ReceiveACK, detectLost, declareLostUnretransmittable).
THEOREM HandlerBooksBalance == HandlerSpec => []BooksBalance
<1>1. Inv => BooksBalance
  BY DEF Inv, Books, BooksBalance
<1> QED BY <1>1, HandlerInvariance, PTL

\* The timer is armed exactly while a packet is outstanding, the loss time is that of the
\* earliest suspect, and an OnTimeout always finds something to do
\* (trsf/ack_handler.go: setLossDetectionTimer, detectLost, OnTimeout).
THEOREM HandlerTimerSound == HandlerSpec => []TimerSound
<1>1. ASSUME Inv PROVE TimeoutHasWork
  <2>1. HandlerTypeOK /\ Outstanding /\ CountersExact /\ TimerCoversOutstanding
    BY <1>1 DEF Inv, Books, TimerInv
  <2>2. ASSUME TimerFired, bytesInFlight = 0 PROVE Unretransmittable # {}
    <3>1. PICK p \in sentRanges : TRUE
      BY <2>1, <2>2 DEF TimerFired, TimerCoversOutstanding
    <3>2. Sized(sentRanges) /\ Controlled(sentRanges) \in SUBSET sentRanges
      BY <2>1, RangesFacts DEF Controlled
    <3>3. Sized(Controlled(sentRanges)) /\ Size(Controlled(sentRanges)) = 0
      BY <2>1, <2>2, <3>2, SizeRemove DEF CountersExact
    <3>4. Controlled(sentRanges) = {}
      BY <3>3, SizeZero
    <3>5. ~ Retransmittable(p)
      BY <3>4 DEF Controlled, CongestionExempt, Retransmittable
    <3> QED BY <3>5 DEF Unretransmittable
  <2> QED BY <2>2 DEF TimeoutHasWork
<1>2. Inv => TimerSound
  BY <1>1 DEF Inv, TimerInv, TimerSound
<1> QED BY <1>2, HandlerInvariance, PTL

\* Every packet gets one verdict, acknowledged or lost, which is the last it hears of and
\* until which it is outstanding; only a packet that will be sent again hears of a PTO
\* (the callbacks of trsf/ack_handler.go's ReceiveACK, detectLost and OnTimeout).
THEOREM HandlerOneVerdict == HandlerSpec => []OneVerdict
<1>1. ASSUME Inv, NEW n \in 1 .. largestSent
      PROVE  LET told == verdicts[n]
                 final == {i \in DOMAIN told : told[i] # "pto"}
             IN /\ final \subseteq {Len(told)}
                /\ final = {} <=> n \in Numbers(sentRanges)
                /\ final = {} => told = <<>> \/ \E p \in sentRanges :
                                                   p.PacketNumber = n /\ Retransmittable(p)
  <2> DEFINE told == verdicts[n]
             final == {i \in DOMAIN told : told[i] # "pto"}
  <2>1. HandlerTypeOK /\ Histories /\ Heard
    BY <1>1 DEF Inv, Books
  <2>2. n \in 1 .. MaxSent
    BY <2>1, HandlerAssumption DEF HandlerTypeOK
  <2>3. told \in Seq({"pto", "acked", "lost"})
    BY <2>1, <2>2 DEF Histories
  <2>4. Len(told) \in Nat /\ DOMAIN told = 1 .. Len(told)
    BY <2>3
  <2>5. CASE n \in Numbers(sentRanges)
    <3>1. PICK p \in sentRanges : p.PacketNumber = n
      BY <2>5 DEF Numbers
    <3>2. OnlyPTOs(told) /\ (Retransmittable(p) \/ told = <<>>)
      BY <2>1, <3>1 DEF Heard
    <3>3. final = {}
      BY <2>4, <3>2 DEF OnlyPTOs
    <3> QED BY <2>5, <3>1, <3>2, <3>3
  <2>6. CASE n \notin Numbers(sentRanges)
    <3>1. EndsInVerdict(told)
      BY <2>1, <2>6 DEF Heard
    <3>2. Len(told) \in DOMAIN told /\ told[Len(told)] # "pto"
      BY <2>4, <3>1 DEF EndsInVerdict
    <3>3. \A i \in DOMAIN told : i # Len(told) => told[i] = "pto"
      <4>1. \A i \in 1 .. Len(told) : i # Len(told) => i \in 1 .. Len(told) - 1
        BY <2>4
      <4> QED BY <2>4, <3>1, <4>1 DEF EndsInVerdict
    <3>4. final = {Len(told)}
      BY <3>2, <3>3
    <3> QED BY <2>6, <3>4
  <2> QED BY <2>5, <2>6
<1>2. Inv => OneVerdict
  BY <1>1 DEF OneVerdict
<1> QED BY <1>2, HandlerInvariance, PTL

=================================================================================
