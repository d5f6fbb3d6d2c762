-------------------------- MODULE SecureChannel_proofs --------------------------
(***************************************************************************)
(* The secure channel for every bound, every policy and every order in     *)
(* which the network delivers, repeats and loses packets: the replay       *)
(* filter is exact, and one bit of the header and the packet number tell   *)
(* the keys apart.                                                         *)
(***************************************************************************)
EXTENDS SecureChannel, SequenceTheorems, FiniteSetTheorems, WellFoundedInduction, TLAPS

--------------------------------------------------------------------------------
(* Induction over the natural numbers, for a set instead of a predicate *)

\* A set of natural numbers that is not empty has a least element.
LEMMA LeastNatural ==
    ASSUME NEW S \in SUBSET Nat, S # {}
    PROVE  \E n \in S : \A m \in S : n <= m
<1> DEFINE R == OpToRel(<, Nat)
<1>1. IsWellFoundedOn(R, Nat)
  BY NatLessThanWellFounded
<1>2. \A x, y \in Nat : x < y => <<x, y>> \in R
  BY DEF OpToRel
<1> HIDE DEF R
<1>3. PICK x \in S : \A y \in S : ~ (<<y, x>> \in R)
  BY <1>1, WFMin
<1>4. ASSUME NEW y \in S PROVE x <= y
  <2>1. x \in Nat /\ y \in Nat
    OBVIOUS
  <2>2. ~ (y < x)
    BY <1>2, <1>3, <2>1
  <2> QED BY <2>1, <2>2
<1> QED BY <1>4

\* What holds at the start of an interval and passes from each number to the next
\* holds throughout.
LEMMA IntervalInduction ==
    ASSUME NEW a \in Nat, NEW b \in Nat, NEW S, a \in S,
           \A n \in a .. b : n \in S /\ n < b => n + 1 \in S
    PROVE  \A n \in a .. b : n \in S
<1> DEFINE Bad == {n \in a .. b : n \notin S}
<1> SUFFICES ASSUME Bad # {} PROVE FALSE
  OBVIOUS
<1>1. Bad \in SUBSET Nat
  OBVIOUS
<1>2. PICK n \in Bad : \A m \in Bad : n <= m
  BY <1>1, LeastNatural
<1>3. n \in a .. b /\ n \notin S /\ n # a
  OBVIOUS
<1>4. n - 1 \in a .. b /\ n - 1 \notin Bad
  BY <1>2, <1>3
<1> QED BY <1>3, <1>4

--------------------------------------------------------------------------------
(* Lists *)

\* What is left when an element is taken out of a list.
LEMMA RemoveAtFacts ==
    ASSUME NEW S, NEW s \in Seq(S), NEW i \in 1 .. Len(s)
    PROVE  /\ RemoveAt(s, i) \in Seq(S)
           /\ Len(RemoveAt(s, i)) = Len(s) - 1
           /\ \A j \in 1 .. Len(s) - 1 :
                 RemoveAt(s, i)[j] = IF j < i THEN s[j] ELSE s[j + 1]
<1> DEFINE a == SubSeq(s, 1, i - 1)  b == SubSeq(s, i + 1, Len(s))
<1>1. a \in Seq(S) /\ Len(a) = i - 1 /\ \A j \in 1 .. i - 1 : a[j] = s[j]
  OBVIOUS
<1>2. b \in Seq(S) /\ Len(b) = Len(s) - i /\ \A j \in 1 .. Len(s) - i : b[j] = s[i + j]
  OBVIOUS
<1>3. RemoveAt(s, i) = a \o b
  BY DEF RemoveAt
<1> HIDE DEF a, b
<1>4. /\ a \o b \in Seq(S) /\ Len(a \o b) = Len(s) - 1
      /\ \A j \in 1 .. Len(s) - 1 : (a \o b)[j] = IF j <= i - 1 THEN a[j] ELSE b[j - (i - 1)]
  <2>1. /\ a \o b \in Seq(S) /\ Len(a \o b) = Len(a) + Len(b)
        /\ \A j \in 1 .. Len(a) + Len(b) : (a \o b)[j] = IF j <= Len(a) THEN a[j] ELSE b[j - Len(a)]
    BY <1>1, <1>2, ConcatProperties, Zenon
  <2> QED BY <2>1, <1>1, <1>2
<1>5. ASSUME NEW j \in 1 .. Len(s) - 1
      PROVE  (a \o b)[j] = IF j < i THEN s[j] ELSE s[j + 1]
  <2>1. CASE j < i
    BY <2>1, <1>1, <1>4
  <2>2. CASE ~ (j < i)
    <3>1. (a \o b)[j] = b[j - (i - 1)]
      BY <2>2, <1>4
    <3>2. j - (i - 1) \in 1 .. Len(s) - i /\ i + (j - (i - 1)) = j + 1
      BY <2>2
    <3>3. b[j - (i - 1)] = s[j + 1]
      BY <3>2, <1>2
    <3> QED BY <3>1, <3>3, <2>2
  <2> QED BY <2>1, <2>2
<1> QED BY <1>3, <1>4, <1>5

\* A list with an element put in.
LEMMA InsertAtFacts ==
    ASSUME NEW S, NEW s \in Seq(S), NEW i \in 1 .. Len(s) + 1, NEW e \in S
    PROVE  /\ InsertAt(s, i, e) \in Seq(S)
           /\ Len(InsertAt(s, i, e)) = Len(s) + 1
           /\ \A j \in 1 .. Len(s) + 1 :
                 InsertAt(s, i, e)[j] = IF j < i THEN s[j] ELSE IF j = i THEN e ELSE s[j - 1]
<1> DEFINE a == SubSeq(s, 1, i - 1)  b == SubSeq(s, i, Len(s))  c == a \o <<e>>
<1>1. a \in Seq(S) /\ Len(a) = i - 1 /\ \A j \in 1 .. i - 1 : a[j] = s[j]
  OBVIOUS
<1>2. b \in Seq(S) /\ Len(b) = Len(s) - i + 1 /\ \A j \in 1 .. Len(s) - i + 1 : b[j] = s[i + j - 1]
  OBVIOUS
<1>3. InsertAt(s, i, e) = c \o b
  BY DEF InsertAt
<1> HIDE DEF a, b
<1>4. c \in Seq(S) /\ Len(c) = i /\ c[i] = e /\ \A j \in 1 .. i - 1 : c[j] = s[j]
  BY <1>1
<1> HIDE DEF c
<1>5. /\ c \o b \in Seq(S) /\ Len(c \o b) = Len(s) + 1
      /\ \A j \in 1 .. Len(s) + 1 : (c \o b)[j] = IF j <= i THEN c[j] ELSE b[j - i]
  <2>1. /\ c \o b \in Seq(S) /\ Len(c \o b) = Len(c) + Len(b)
        /\ \A j \in 1 .. Len(c) + Len(b) : (c \o b)[j] = IF j <= Len(c) THEN c[j] ELSE b[j - Len(c)]
    BY <1>2, <1>4, ConcatProperties, Zenon
  <2> QED BY <2>1, <1>2, <1>4
<1>6. ASSUME NEW j \in 1 .. Len(s) + 1
      PROVE  (c \o b)[j] = IF j < i THEN s[j] ELSE IF j = i THEN e ELSE s[j - 1]
  <2>1. CASE j <= i
    BY <2>1, <1>4, <1>5
  <2>2. CASE ~ (j <= i)
    <3>1. (c \o b)[j] = b[j - i]
      BY <2>2, <1>5
    <3>2. j - i \in 1 .. Len(s) - i + 1 /\ i + (j - i) - 1 = j - 1
      BY <2>2
    <3>3. b[j - i] = s[j - 1]
      BY <3>2, <1>2
    <3> QED BY <3>1, <3>3, <2>2
  <2> QED BY <2>1, <2>2
<1> QED BY <1>3, <1>5, <1>6

--------------------------------------------------------------------------------
(* The ranges of unused numbers *)

NonceRange == [start : Nat, end : Nat]

\* No range is empty, and between any two there is a number used.
Apart(u) ==
    /\ u \in Seq(NonceRange)
    /\ \A i \in 1 .. Len(u) : u[i].start <= u[i].end
    /\ \A i, j \in 1 .. Len(u) : i < j => u[i].end + 1 < u[j].start

\* A number is unused when it lies in some range.
Unused(u, m) == \E i \in 1 .. Len(u) : m \in u[i].start .. u[i].end

LEMMA ApartFacts ==
    ASSUME NEW u, Apart(u)
    PROVE  /\ u \in Seq(NonceRange) /\ Len(u) \in Nat /\ DOMAIN u = 1 .. Len(u)
           /\ \A i \in 1 .. Len(u) : /\ u[i] \in NonceRange
                                     /\ u[i].start \in Nat /\ u[i].end \in Nat
                                     /\ u[i].start <= u[i].end
           /\ \A i, j \in 1 .. Len(u) : i < j => u[i].end + 1 < u[j].start
<1>1. /\ u \in Seq(NonceRange)
      /\ \A i \in 1 .. Len(u) : u[i].start <= u[i].end
      /\ \A i, j \in 1 .. Len(u) : i < j => u[i].end + 1 < u[j].start
  BY DEF Apart
<1>2. Len(u) \in Nat /\ DOMAIN u = 1 .. Len(u) /\ \A i \in 1 .. Len(u) : u[i] \in NonceRange
  BY <1>1
<1>3. \A r \in NonceRange : r.start \in Nat /\ r.end \in Nat
  BY DEF NonceRange
<1> QED BY <1>1, <1>2, <1>3, Zenon

\* A range is replaced by a part of it.
LEMMA Shrunk ==
    ASSUME NEW u, Apart(u), NEW i \in 1 .. Len(u), NEW e \in NonceRange,
           u[i].start <= e.start, e.start <= e.end, e.end <= u[i].end
    PROVE  /\ Apart([u EXCEPT ![i] = e])
           /\ Len([u EXCEPT ![i] = e]) = Len(u)
           /\ [u EXCEPT ![i] = e][i] = e
           /\ \A j \in 1 .. Len(u) : j # i => [u EXCEPT ![i] = e][j] = u[j]
<1> DEFINE s == [u EXCEPT ![i] = e]
<1>1. /\ u \in Seq(NonceRange) /\ Len(u) \in Nat
      /\ \A k \in 1 .. Len(u) : /\ u[k].start \in Nat /\ u[k].end \in Nat
                                /\ u[k].start <= u[k].end
      /\ \A k, j \in 1 .. Len(u) : k < j => u[k].end + 1 < u[j].start
  BY ApartFacts
<1>2. /\ s \in Seq(NonceRange) /\ Len(s) = Len(u) /\ s[i] = e
      /\ \A j \in 1 .. Len(u) : j # i => s[j] = u[j]
  BY <1>1
<1>3. e.start \in Nat /\ e.end \in Nat
  BY DEF NonceRange
<1> HIDE DEF s
<1>4. ASSUME NEW j \in 1 .. Len(u) PROVE s[j].start <= s[j].end
  BY <1>1, <1>2
<1>5. ASSUME NEW j \in 1 .. Len(u), NEW k \in 1 .. Len(u), j < k
      PROVE  s[j].end + 1 < s[k].start
  <2>1. CASE j = i
    <3>1. s[j] = e /\ s[k] = u[k] /\ u[i].end + 1 < u[k].start
      BY <2>1, <1>1, <1>2, <1>5
    <3>2. u[i].end \in Nat /\ u[k].start \in Nat /\ e.end <= u[i].end
      BY <1>1
    <3>3. \A a, b, c \in Nat : a <= b /\ b + 1 < c => a + 1 < c
      OBVIOUS
    <3>4. e.end + 1 < u[k].start
      BY <3>1, <3>2, <3>3, <1>3
    <3> QED BY <3>1, <3>4
  <2>2. CASE k = i
    <3>1. s[k] = e /\ s[j] = u[j] /\ u[j].end + 1 < u[i].start
      BY <2>2, <1>1, <1>2, <1>5
    <3> QED BY <3>1, <1>1, <1>3
  <2>3. CASE j # i /\ k # i
    BY <2>3, <1>1, <1>2, <1>5
  <2> QED BY <2>1, <2>2, <2>3
<1>6. Apart(s)
  BY <1>2, <1>4, <1>5 DEF Apart
<1> QED BY <1>2, <1>6 DEF s

\* Taking a number out of the range that holds it takes out that number alone.
LEMMA TakeFromFacts ==
    ASSUME NEW u, Apart(u), NEW i \in 1 .. Len(u), NEW n \in u[i].start .. u[i].end
    PROVE  /\ Apart(TakeFrom(u, i, n))
           /\ \A m \in Nat : Unused(TakeFrom(u, i, n), m) <=> Unused(u, m) /\ m # n
<1> DEFINE L == Len(u)
           lower == [start |-> u[i].start, end |-> n - 1]
           upper == [start |-> n + 1, end |-> u[i].end]
           s == TakeFrom(u, i, n)
<1>1. /\ u \in Seq(NonceRange) /\ L \in Nat
      /\ \A k \in 1 .. L : /\ u[k].start \in Nat /\ u[k].end \in Nat /\ u[k].start <= u[k].end
                           /\ u[k] \in NonceRange
      /\ \A k, j \in 1 .. L : k < j => u[k].end + 1 < u[j].start
  BY ApartFacts
<1>2. u[i].start \in Nat /\ u[i].end \in Nat /\ n \in Nat /\ u[i].start <= n /\ n <= u[i].end
  BY <1>1
<1>3. \A k \in 1 .. L : k # i => n \notin u[k].start .. u[k].end
  <2>1. ASSUME NEW k \in 1 .. L, k # i PROVE n < u[k].start \/ n > u[k].end
    <3>1. CASE k < i
      <4>1. u[k].end + 1 < u[i].start
        BY <3>1, <1>1
      <4> QED BY <4>1, <1>1, <1>2
    <3>2. CASE i < k
      <4>1. u[i].end + 1 < u[k].start
        BY <3>2, <1>1
      <4> QED BY <4>1, <1>1, <1>2
    <3> QED BY <2>1, <3>1, <3>2, <1>1
  <2> QED BY <2>1, <1>1, <1>2
<1>4. s = CASE u[i].start = n /\ u[i].end = n -> RemoveAt(u, i)
            [] u[i].start = n /\ u[i].end # n -> [u EXCEPT ![i] = upper]
            [] u[i].start # n /\ u[i].end = n -> [u EXCEPT ![i] = lower]
            [] OTHER -> InsertAt([u EXCEPT ![i] = lower], i + 1, upper)
  BY Zenon DEF TakeFrom
<1>5. /\ lower.start = u[i].start /\ lower.end = n - 1
      /\ upper.start = n + 1 /\ upper.end = u[i].end
  OBVIOUS
<1>6. ASSUME u[i].start # n
      PROVE  lower \in NonceRange /\ lower.start <= lower.end
  BY <1>2, <1>6 DEF NonceRange
<1>7. ASSUME u[i].end # n
      PROVE  upper \in NonceRange /\ upper.start <= upper.end
  BY <1>2, <1>7 DEF NonceRange
<1> HIDE DEF lower, upper
<1>8. \A m \in Nat : (m \in u[i].start .. u[i].end /\ m # n)
                       <=> (u[i].start <= m /\ m <= n - 1) \/ (n + 1 <= m /\ m <= u[i].end)
  BY <1>2
<1>9. CASE u[i].start = n /\ u[i].end = n
  <2>1. s = RemoveAt(u, i)
    BY <1>4, <1>9
  <2>2. /\ s \in Seq(NonceRange) /\ Len(s) = L - 1
        /\ \A j \in 1 .. L - 1 : s[j] = IF j < i THEN u[j] ELSE u[j + 1]
    BY <2>1, <1>1, RemoveAtFacts
  <2> HIDE DEF s
  <2>3. ASSUME NEW j \in 1 .. L - 1
        PROVE  \E k \in 1 .. L : k # i /\ s[j] = u[k] /\ k = IF j < i THEN j ELSE j + 1
    <3>1. CASE j < i
      BY <3>1, <2>2, <1>1
    <3>2. CASE ~ (j < i)
      BY <3>2, <2>2, <1>1
    <3> QED BY <3>1, <3>2
  <2>4. Apart(s)
    <3>1. \A j \in 1 .. L - 1 : s[j].start <= s[j].end
      BY <2>3, <1>1
    <3>2. ASSUME NEW j \in 1 .. L - 1, NEW k \in 1 .. L - 1, j < k
          PROVE  s[j].end + 1 < s[k].start
      <4>1. PICK a \in 1 .. L : s[j] = u[a] /\ a = IF j < i THEN j ELSE j + 1
        BY <2>3
      <4>2. PICK b \in 1 .. L : s[k] = u[b] /\ b = IF k < i THEN k ELSE k + 1
        BY <2>3
      <4>3. a < b
        BY <4>1, <4>2, <3>2, <1>1
      <4> QED BY <4>1, <4>2, <4>3, <1>1
    <3> QED BY <2>2, <3>1, <3>2 DEF Apart
  <2>5. ASSUME NEW m \in Nat PROVE Unused(s, m) <=> Unused(u, m) /\ m # n
    <3>1. ASSUME NEW j \in 1 .. Len(s), m \in s[j].start .. s[j].end
          PROVE  Unused(u, m) /\ m # n
      <4>1. PICK k \in 1 .. L : k # i /\ s[j] = u[k]
        BY <2>2, <2>3
      <4> QED BY <3>1, <4>1, <1>3 DEF Unused
    <3>2. ASSUME NEW k \in 1 .. L, m \in u[k].start .. u[k].end, m # n
          PROVE  Unused(s, m)
      <4>1. k # i
        BY <3>2, <1>2, <1>9
      <4>2. CASE k < i
        <5>1. k \in 1 .. Len(s) /\ s[k] = u[k]
          BY <4>2, <2>2, <1>1
        <5> QED BY <5>1, <3>2 DEF Unused
      <4>3. CASE i < k
        <5>1. k - 1 \in 1 .. Len(s) /\ s[k - 1] = u[k]
          <6>1. k - 1 \in 1 .. L - 1 /\ ~ (k - 1 < i) /\ (k - 1) + 1 = k
            BY <4>3, <1>1
          <6> QED BY <6>1, <2>2
        <5> QED BY <5>1, <3>2 DEF Unused
      <4> QED BY <4>1, <4>2, <4>3, <1>1
    <3> QED BY <3>1, <3>2 DEF Unused
  <2> QED BY <2>4, <2>5 DEF s
<1>10. CASE u[i].start = n /\ u[i].end # n
  <2>1. s = [u EXCEPT ![i] = upper]
    BY <1>4, <1>10
  <2>2. /\ Apart(s) /\ Len(s) = L /\ s[i] = upper
        /\ \A j \in 1 .. L : j # i => s[j] = u[j]
    <3>1. upper \in NonceRange /\ u[i].start <= upper.start /\ upper.start <= upper.end /\ upper.end <= u[i].end
      BY <1>2, <1>5, <1>7, <1>10
    <3> HIDE DEF s
    <3> DEFINE v == [u EXCEPT ![i] = upper]
    <3>2. Apart(v) /\ Len(v) = L /\ v[i] = upper /\ \A j \in 1 .. L : j # i => v[j] = u[j]
      BY <3>1, Shrunk
    <3> QED BY <2>1, <3>2, Zenon
  <2> HIDE DEF s
  <2>3. ASSUME NEW m \in Nat PROVE Unused(s, m) <=> Unused(u, m) /\ m # n
    <3>1. \A j \in 1 .. L : m \in s[j].start .. s[j].end <=> m \in u[j].start .. u[j].end /\ m # n
      <4>1. m \in upper.start .. upper.end <=> m \in u[i].start .. u[i].end /\ m # n
        BY <1>2, <1>5, <1>10
      <4> QED BY <4>1, <2>2, <1>3
    <3> QED BY <3>1, <2>2 DEF Unused
  <2> QED BY <2>2, <2>3 DEF s
<1>11. CASE u[i].start # n /\ u[i].end = n
  <2>1. s = [u EXCEPT ![i] = lower]
    BY <1>4, <1>11
  <2>2. /\ Apart(s) /\ Len(s) = L /\ s[i] = lower
        /\ \A j \in 1 .. L : j # i => s[j] = u[j]
    <3>1. lower \in NonceRange /\ u[i].start <= lower.start /\ lower.start <= lower.end /\ lower.end <= u[i].end
      BY <1>2, <1>5, <1>6, <1>11
    <3> HIDE DEF s
    <3> DEFINE v == [u EXCEPT ![i] = lower]
    <3>2. Apart(v) /\ Len(v) = L /\ v[i] = lower /\ \A j \in 1 .. L : j # i => v[j] = u[j]
      BY <3>1, Shrunk
    <3> QED BY <2>1, <3>2, Zenon
  <2> HIDE DEF s
  <2>3. ASSUME NEW m \in Nat PROVE Unused(s, m) <=> Unused(u, m) /\ m # n
    <3>1. \A j \in 1 .. L : m \in s[j].start .. s[j].end <=> m \in u[j].start .. u[j].end /\ m # n
      <4>1. m \in lower.start .. lower.end <=> m \in u[i].start .. u[i].end /\ m # n
        BY <1>2, <1>5, <1>11
      <4> QED BY <4>1, <2>2, <1>3
    <3> QED BY <3>1, <2>2 DEF Unused
  <2> QED BY <2>2, <2>3 DEF s
<1>12. CASE u[i].start # n /\ u[i].end # n
  <2> DEFINE v == [u EXCEPT ![i] = lower]
  <2>1. s = InsertAt(v, i + 1, upper)
    BY <1>4, <1>12
  <2>2. /\ Apart(v) /\ Len(v) = L /\ v[i] = lower
        /\ \A j \in 1 .. L : j # i => v[j] = u[j]
    <3>1. lower \in NonceRange /\ u[i].start <= lower.start /\ lower.start <= lower.end /\ lower.end <= u[i].end
      BY <1>2, <1>5, <1>6, <1>12
    <3> QED BY <3>1, Shrunk
  <2> HIDE DEF v
  <2>3. /\ s \in Seq(NonceRange) /\ Len(s) = L + 1
        /\ \A j \in 1 .. L + 1 : s[j] = IF j < i + 1 THEN v[j] ELSE IF j = i + 1 THEN upper ELSE v[j - 1]
    <3>1. v \in Seq(NonceRange) /\ i + 1 \in 1 .. Len(v) + 1 /\ upper \in NonceRange
      BY <2>2, <1>1, <1>7, <1>12, ApartFacts
    <3>2. /\ InsertAt(v, i + 1, upper) \in Seq(NonceRange)
          /\ Len(InsertAt(v, i + 1, upper)) = Len(v) + 1
          /\ \A j \in 1 .. Len(v) + 1 : InsertAt(v, i + 1, upper)[j] =
                IF j < i + 1 THEN v[j] ELSE IF j = i + 1 THEN upper ELSE v[j - 1]
      BY SMTT(30), <3>1, InsertAtFacts
    <3> HIDE DEF s
    <3> QED BY <2>1, <2>2, <3>2, Zenon
  <2> HIDE DEF s
  <2>4. /\ \A j \in 1 .. L + 1 : j < i => j \in 1 .. L /\ s[j] = u[j]
        /\ s[i] = lower /\ s[i + 1] = upper
        /\ \A j \in 1 .. L + 1 : i + 1 < j => j - 1 \in 1 .. L /\ i < j - 1 /\ s[j] = u[j - 1]
    <3>1. ASSUME NEW j \in 1 .. L + 1, j < i PROVE j \in 1 .. L /\ s[j] = u[j]
      BY <3>1, <2>2, <2>3, <1>1
    <3>2. s[i] = lower
      BY <2>2, <2>3, <1>1
    <3>3. s[i + 1] = upper
      BY <2>3, <1>1
    <3>4. ASSUME NEW j \in 1 .. L + 1, i + 1 < j
          PROVE  j - 1 \in 1 .. L /\ i < j - 1 /\ s[j] = u[j - 1]
      <4>1. j - 1 \in 1 .. L /\ i < j - 1 /\ j - 1 # i /\ ~ (j < i + 1) /\ j # i + 1
        BY <3>4, <1>1
      <4> QED BY <4>1, <2>2, <2>3
    <3> QED BY <3>1, <3>2, <3>3, <3>4
  <2>5. Apart(s)
    <3>1. ASSUME NEW j \in 1 .. L + 1 PROVE s[j].start <= s[j].end
      <4>1. j < i \/ j = i \/ j = i + 1 \/ i + 1 < j
        BY <1>1
      <4> QED BY <4>1, <2>4, <1>1, <1>6, <1>7, <1>12
    <3>2. ASSUME NEW j \in 1 .. L + 1, NEW k \in 1 .. L + 1, j < k
          PROVE  s[j].end + 1 < s[k].start
      <4>1. CASE k < i
        <5>1. s[j] = u[j] /\ s[k] = u[k] /\ j \in 1 .. L /\ k \in 1 .. L
          BY <4>1, <3>2, <2>4, <1>1
        <5> QED BY <5>1, <3>2, <1>1
      <4>2. CASE k = i
        <5>1. s[j] = u[j] /\ j \in 1 .. L /\ u[j].end + 1 < u[i].start
          BY <4>2, <3>2, <2>4, <1>1
        <5> QED BY <5>1, <4>2, <2>4, <1>5
      <4>3. CASE k = i + 1 /\ j = i
        <5>1. (n - 1) + 1 < n + 1
          BY <1>2
        <5> QED BY <5>1, <4>3, <2>4, <1>5
      <4>4. CASE k = i + 1 /\ j < i
        <5>1. s[j] = u[j] /\ j \in 1 .. L /\ u[j].end + 1 < u[i].start
          BY <4>4, <3>2, <2>4, <1>1
        <5>2. u[j].end + 1 < n + 1
          BY <5>1, <1>1, <1>2
        <5> QED BY <5>1, <5>2, <4>4, <2>4, <1>5
      <4>5. CASE i + 1 < k /\ j < i
        <5>1. s[j] = u[j] /\ j \in 1 .. L
          BY <4>5, <2>4
        <5>2. s[k] = u[k - 1] /\ k - 1 \in 1 .. L /\ j < k - 1
          BY <4>5, <2>4, <1>1
        <5> QED BY <5>1, <5>2, <1>1
      <4>6. CASE i + 1 < k /\ j = i
        <5>1. s[k] = u[k - 1] /\ k - 1 \in 1 .. L /\ u[i].end + 1 < u[k - 1].start
          BY <4>6, <2>4, <1>1
        <5>2. (n - 1) + 1 < u[k - 1].start
          BY <5>1, <1>1, <1>2
        <5> QED BY <5>1, <5>2, <4>6, <2>4, <1>5
      <4>7. CASE i + 1 < k /\ j = i + 1
        <5>1. s[k] = u[k - 1] /\ k - 1 \in 1 .. L /\ u[i].end + 1 < u[k - 1].start
          BY <4>7, <2>4, <1>1
        <5> QED BY <5>1, <4>7, <2>4, <1>5
      <4>8. CASE i + 1 < j
        <5>1. s[k] = u[k - 1] /\ k - 1 \in 1 .. L
          BY <4>8, <3>2, <2>4, <1>1
        <5>2. s[j] = u[j - 1] /\ j - 1 \in 1 .. L /\ j - 1 < k - 1
          BY <4>8, <3>2, <2>4, <1>1
        <5> QED BY <5>1, <5>2, <1>1
      <4> QED BY <3>2, <4>1, <4>2, <4>3, <4>4, <4>5, <4>6, <4>7, <4>8, <1>1
    <3> QED BY <2>3, <3>1, <3>2 DEF Apart
  <2>6. ASSUME NEW m \in Nat PROVE Unused(s, m) <=> Unused(u, m) /\ m # n
    <3>1. ASSUME NEW j \in 1 .. Len(s), m \in s[j].start .. s[j].end
          PROVE  Unused(u, m) /\ m # n
      <4>1. j < i \/ j = i \/ j = i + 1 \/ i + 1 < j
        BY <1>1, <2>3
      <4>2. CASE j < i
        BY <4>2, <3>1, <2>3, <2>4, <1>3 DEF Unused
      <4>3. CASE j = i
        <5>1. u[i].start <= m /\ m <= n - 1
          BY <4>3, <3>1, <2>4, <1>2, <1>5
        <5> QED BY <5>1, <1>8 DEF Unused
      <4>4. CASE j = i + 1
        <5>1. n + 1 <= m /\ m <= u[i].end
          BY <4>4, <3>1, <2>4, <1>2, <1>5
        <5> QED BY <5>1, <1>8 DEF Unused
      <4>5. CASE i + 1 < j
        <5>1. j - 1 \in 1 .. L /\ j - 1 # i /\ s[j] = u[j - 1]
          BY <4>5, <2>3, <2>4
        <5> QED BY <5>1, <3>1, <1>3 DEF Unused
      <4> QED BY <4>1, <4>2, <4>3, <4>4, <4>5
    <3>2. ASSUME NEW k \in 1 .. L, m \in u[k].start .. u[k].end, m # n
          PROVE  Unused(s, m)
      <4>1. CASE k < i
        BY <4>1, <3>2, <2>3, <2>4, <1>1 DEF Unused
      <4>2. CASE k = i
        <5>1. m \in lower.start .. lower.end \/ m \in upper.start .. upper.end
          BY <4>2, <3>2, <1>2, <1>5
        <5>2. i \in 1 .. Len(s) /\ i + 1 \in 1 .. Len(s)
          BY <2>3, <1>1
        <5> QED BY <5>1, <5>2, <2>4 DEF Unused
      <4>3. CASE i < k
        <5>1. k + 1 \in 1 .. L + 1 /\ i + 1 < k + 1 /\ (k + 1) - 1 = k
          BY <4>3, <1>1
        <5>2. k + 1 \in 1 .. Len(s) /\ s[k + 1] = u[k]
          BY <5>1, <2>3, <2>4
        <5> QED BY <5>2, <3>2 DEF Unused
      <4> QED BY <4>1, <4>2, <4>3, <1>1
    <3> QED BY <3>1, <3>2 DEF Unused
  <2> QED BY <2>5, <2>6 DEF s
<1> QED BY <1>9, <1>10, <1>11, <1>12

\* Ranges that are apart are left as they are: there is nothing to join.
LEMMA JoinedFacts ==
    ASSUME NEW u, Apart(u)
    PROVE  Joined(u) = u
<1> DEFINE L == Len(u)
           Step(g) == [i \in 0 .. L |->
                         IF i = 0 THEN <<>>
                         ELSE IF g[i - 1] # <<>> /\ g[i - 1][Len(g[i - 1])].end + 1 = u[i].start
                              THEN [g[i - 1] EXCEPT ![Len(g[i - 1])].end = u[i].end]
                              ELSE Append(g[i - 1], u[i])]
           joined == CHOOSE g : g = Step(g)
           taken == [i \in 0 .. L |-> SubSeq(u, 1, i)]
<1>1. /\ u \in Seq(NonceRange) /\ L \in Nat
      /\ \A k \in 1 .. L : u[k] \in NonceRange /\ u[k].end \in Nat
      /\ \A k, j \in 1 .. L : k < j => u[k].end + 1 < u[j].start
      /\ \A k \in 1 .. L : u[k].start \in Nat
  BY ApartFacts
<1>2. Joined(u) = joined[L]
  BY DEF Joined
<1>3. ASSUME NEW i \in 1 .. L
      PROVE  /\ SubSeq(u, 1, i - 1) \in Seq(NonceRange) /\ Len(SubSeq(u, 1, i - 1)) = i - 1
             /\ i - 1 > 0 => SubSeq(u, 1, i - 1)[i - 1] = u[i - 1]
             /\ SubSeq(u, 1, i) = Append(SubSeq(u, 1, i - 1), u[i])
  <2> DEFINE a == SubSeq(u, 1, i - 1)
             b == SubSeq(u, 1, i)
  <2>1. a \in Seq(NonceRange) /\ Len(a) = i - 1 /\ \A j \in 1 .. i - 1 : a[j] = u[j]
    BY <1>1
  <2>2. b \in Seq(NonceRange) /\ Len(b) = i /\ \A j \in 1 .. i : b[j] = u[j]
    BY <1>1
  <2> HIDE DEF a, b
  <2>3. b = Append(a, u[i])
    <3> DEFINE c == Append(a, u[i])
    <3>1. c \in Seq(NonceRange) /\ Len(c) = i /\ c[i] = u[i] /\ \A j \in 1 .. i - 1 : c[j] = u[j]
      BY <2>1, <1>1
    <3> HIDE DEF c
    <3>2. \A j \in 1 .. i : b[j] = c[j]
      BY <2>2, <3>1, <1>1
    <3>3. Len(b) = Len(c) /\ \A j \in 1 .. Len(b) : b[j] = c[j]
      BY <2>2, <3>1, <3>2
    <3>4. b = c
      BY <2>2, <3>1, <3>3, SeqEqual, Zenon
    <3> QED BY <3>4 DEF c
  <2>4. i - 1 > 0 => a[i - 1] = u[i - 1]
    BY <2>1, <1>1
  <2> QED BY <2>1, <2>3, <2>4 DEF a, b
<1>4. ASSUME NEW i \in 1 .. L, NEW g, g[i - 1] = SubSeq(u, 1, i - 1)
      PROVE  /\ ~ (g[i - 1] # <<>> /\ g[i - 1][Len(g[i - 1])].end + 1 = u[i].start)
             /\ Append(g[i - 1], u[i]) = SubSeq(u, 1, i)
  <2>1. Append(g[i - 1], u[i]) = SubSeq(u, 1, i)
    BY <1>3, <1>4
  <2>2. ASSUME g[i - 1] # <<>>
        PROVE  g[i - 1][Len(g[i - 1])].end + 1 # u[i].start
    <3>1. i - 1 > 0
      <4>1. SubSeq(u, 1, i - 1) \in Seq(NonceRange) /\ Len(SubSeq(u, 1, i - 1)) = i - 1
        BY <1>3
      <4>2. SubSeq(u, 1, i - 1) # <<>>
        BY <2>2, <1>4
      <4> HIDE DEF L
      <4>3. i - 1 # 0
        BY <4>1, <4>2, EmptySeq
      <4> QED BY <4>3, <1>1
    <3>2. g[i - 1][Len(g[i - 1])] = u[i - 1]
      BY <3>1, <1>3, <1>4
    <3>3. u[i - 1].end + 1 < u[i].start /\ u[i - 1].end \in Nat /\ u[i].start \in Nat
      BY <3>1, <1>1
    <3> QED BY <3>2, <3>3
  <2> QED BY <2>1, <2>2
<1>5. SubSeq(u, 1, 0) = <<>> /\ SubSeq(u, 1, L) = u
  BY <1>1
<1>6. taken = Step(taken)
  <2>1. ASSUME NEW i \in 0 .. L PROVE taken[i] = Step(taken)[i]
    <3>1. CASE i = 0
      BY <3>1, <1>5, <1>1
    <3>2. CASE i # 0
      <4>1. i \in 1 .. L /\ i - 1 \in 0 .. L
        BY <3>2, <1>1
      <4>2. taken[i - 1] = SubSeq(u, 1, i - 1) /\ taken[i] = SubSeq(u, 1, i)
        BY <4>1
      <4> HIDE DEF taken
      <4>3. /\ ~ (taken[i - 1] # <<>> /\ taken[i - 1][Len(taken[i - 1])].end + 1 = u[i].start)
            /\ Append(taken[i - 1], u[i]) = SubSeq(u, 1, i)
        BY <4>1, <4>2, <1>4
      <4>4. Step(taken)[i] = Append(taken[i - 1], u[i])
        BY <3>2, <4>3
      <4> QED BY <4>2, <4>3, <4>4
    <3> QED BY <3>1, <3>2
  <2> QED BY <2>1
<1>7. joined = Step(joined)
  BY <1>6
<1> HIDE DEF joined
<1>8. \A i \in 0 .. L : joined[i] = SubSeq(u, 1, i)
  <2> DEFINE S == {i \in 0 .. L : joined[i] = SubSeq(u, 1, i)}
  <2>1. 0 \in S
    <3>1. 0 \in 0 .. L
      BY <1>1
    <3>2. joined[0] = <<>>
      BY <1>7, <3>1
    <3> QED BY <3>1, <3>2, <1>5
  <2>2. ASSUME NEW i \in 0 .. L, i \in S, i < L PROVE i + 1 \in S
    <3>1. i + 1 \in 1 .. L /\ i + 1 \in 0 .. L /\ (i + 1) - 1 = i /\ i + 1 # 0
      BY <2>2, <1>1
    <3>2. joined[(i + 1) - 1] = SubSeq(u, 1, (i + 1) - 1)
      BY <3>1, <2>2
    <3>3. /\ ~ (/\ joined[(i + 1) - 1] # <<>>
                /\ joined[(i + 1) - 1][Len(joined[(i + 1) - 1])].end + 1 = u[i + 1].start)
          /\ Append(joined[(i + 1) - 1], u[i + 1]) = SubSeq(u, 1, i + 1)
      BY <3>1, <3>2, <1>4
    <3>4. joined[i + 1] = Step(joined)[i + 1]
      BY <1>7
    <3>5. joined[i + 1] = Append(joined[(i + 1) - 1], u[i + 1])
      BY <3>1, <3>3, <3>4
    <3> QED BY <3>1, <3>3, <3>5
  <2>3. 0 \in Nat /\ L \in Nat
    BY <1>1
  <2> HIDE DEF S
  <2>4. \A i \in 0 .. L : i \in S
    BY <2>1, <2>2, <2>3, IntervalInduction
  <2> QED BY <2>4 DEF S
<1> QED BY <1>1, <1>2, <1>5, <1>8

--------------------------------------------------------------------------------
(* The replay filter *)

\* The tracker knows exactly which numbers were accepted.
Exact(t, acc) ==
    /\ t \in [largest : 0 .. MaxPN, unused : Seq(NonceRange)]
    /\ acc \in [Nonces -> {0, 1}]
    /\ Apart(t.unused)
    /\ \A m \in Nat : Unused(t.unused, m) <=> m \in 1 .. t.largest /\ acc[m] = 0
    /\ \A n \in Nonces : n > t.largest => acc[n] = 0
    /\ t.largest > 0 => acc[t.largest] = 1

\* A number above the largest may leave a gap behind, which is a range of its own:
\* the largest number itself was accepted.
LEMMA GapAppended ==
    ASSUME NEW u, Apart(u), NEW l \in Nat, NEW h \in Nat, l < h,
           \A m \in Nat : Unused(u, m) => m < l
    PROVE  /\ Apart(Append(u, [start |-> l + 1, end |-> h]))
           /\ \A m \in Nat : Unused(Append(u, [start |-> l + 1, end |-> h]), m)
                                <=> Unused(u, m) \/ m \in l + 1 .. h
<1> DEFINE gap == [start |-> l + 1, end |-> h]
           s == Append(u, gap)
           L == Len(u)
<1>1. /\ u \in Seq(NonceRange) /\ L \in Nat
      /\ \A k \in 1 .. L : /\ u[k].start \in Nat /\ u[k].end \in Nat /\ u[k].start <= u[k].end
      /\ \A k, j \in 1 .. L : k < j => u[k].end + 1 < u[j].start
  BY ApartFacts
<1>2. gap \in NonceRange /\ gap.start = l + 1 /\ gap.end = h /\ gap.start <= gap.end
  BY DEF NonceRange
<1>3. ASSUME NEW k \in 1 .. L PROVE u[k].end < l
  <2>1. u[k].end \in Nat /\ u[k].end \in u[k].start .. u[k].end
    BY <1>1
  <2> QED BY <2>1 DEF Unused
<1> HIDE DEF gap
<1>4. /\ s \in Seq(NonceRange) /\ Len(s) = L + 1 /\ s[L + 1] = gap
      /\ \A k \in 1 .. L : s[k] = u[k]
  BY <1>1, <1>2
<1> HIDE DEF s
<1>5. ASSUME NEW k \in 1 .. L + 1 PROVE k \in 1 .. L \/ k = L + 1
  BY <1>1
<1>6. Apart(s)
  <2>1. ASSUME NEW k \in 1 .. L + 1 PROVE s[k].start <= s[k].end
    BY <1>1, <1>2, <1>4, <1>5
  <2>2. ASSUME NEW j \in 1 .. L + 1, NEW k \in 1 .. L + 1, j < k
        PROVE  s[j].end + 1 < s[k].start
    <3>1. j \in 1 .. L /\ s[j] = u[j]
      BY <2>2, <1>1, <1>4
    <3>2. CASE k \in 1 .. L
      BY <3>1, <3>2, <2>2, <1>1, <1>4
    <3>3. CASE k = L + 1
      <4>1. u[j].end + 1 < l + 1
        BY <3>1, <1>1, <1>3
      <4> QED BY <3>1, <3>3, <4>1, <1>2, <1>4
    <3> QED BY <3>2, <3>3, <1>5
  <2> QED BY <2>1, <2>2, <1>4 DEF Apart
<1>7. ASSUME NEW m \in Nat PROVE Unused(s, m) <=> Unused(u, m) \/ m \in l + 1 .. h
  <2>1. ASSUME NEW k \in 1 .. L + 1, m \in s[k].start .. s[k].end
        PROVE  Unused(u, m) \/ m \in l + 1 .. h
    BY <2>1, <1>2, <1>4, <1>5 DEF Unused
  <2>2. ASSUME NEW k \in 1 .. L, m \in u[k].start .. u[k].end PROVE Unused(s, m)
    <3>1. k \in 1 .. Len(s) /\ s[k] = u[k]
      BY <1>1, <1>4
    <3> QED BY <2>2, <3>1 DEF Unused
  <2>3. ASSUME m \in l + 1 .. h PROVE Unused(s, m)
    <3>1. L + 1 \in 1 .. Len(s)
      BY <1>1, <1>4
    <3> QED BY <2>3, <3>1, <1>2, <1>4 DEF Unused
  <2> QED BY <2>1, <2>2, <2>3, <1>4 DEF Unused
<1> QED BY <1>6, <1>7 DEF s, gap

\* A number that is usable was never accepted, and entering it keeps the filter exact.
LEMMA InsertNonceFacts ==
    ASSUME NEW t, NEW acc, Exact(t, acc), NEW n \in Nonces, Usable(t, n)
    PROVE  acc[n] = 0 /\ Exact(InsertNonce(t, n), [acc EXCEPT ![n] = @ + 1])
<1> DEFINE now == [acc EXCEPT ![n] = 1]
           u == t.unused
<1>1. /\ t \in [largest : 0 .. MaxPN, unused : Seq(NonceRange)]
      /\ acc \in [Nonces -> {0, 1}] /\ Apart(u)
      /\ \A m \in Nat : Unused(u, m) <=> m \in 1 .. t.largest /\ acc[m] = 0
      /\ \A m \in Nonces : m > t.largest => acc[m] = 0
      /\ t.largest > 0 => acc[t.largest] = 1
  BY DEF Exact
<1>2. MaxPN \in Nat /\ n \in 1 .. MaxPN /\ n \in Nat /\ t.largest \in 0 .. MaxPN /\ t.largest \in Nat
  BY <1>1, NetworkAssumption DEF Nonces
<1>3. /\ now \in [Nonces -> {0, 1}] /\ now[n] = 1
      /\ \A m \in Nonces : m # n => now[m] = acc[m]
  BY <1>1
<1>4. CASE n > t.largest
  <2>1. acc[n] = 0
    BY <1>1, <1>4
  <2> DEFINE v == IF n > t.largest + 1
                  THEN Append(u, [start |-> t.largest + 1, end |-> n - 1]) ELSE u
  <2>2. InsertNonce(t, n) = [largest |-> n, unused |-> v]
    BY <1>4 DEF InsertNonce
  <2>3. \A m \in Nat : Unused(u, m) => m < t.largest
    BY <1>1, <1>2
  <2>4. Apart(v) /\ \A m \in Nat : Unused(v, m) <=> Unused(u, m) \/ m \in t.largest + 1 .. n - 1
    <3>1. CASE n > t.largest + 1
      <4>1. n - 1 \in Nat /\ t.largest < n - 1
        BY <3>1, <1>2
      <4>2. v = Append(u, [start |-> t.largest + 1, end |-> n - 1])
        BY <3>1
      <4> QED BY <4>1, <4>2, <2>3, <1>1, <1>2, GapAppended
    <3>2. CASE ~ (n > t.largest + 1)
      <4>1. v = u /\ \A m \in Nat : m \notin t.largest + 1 .. n - 1
        BY <3>2, <1>2
      <4> QED BY <4>1, <1>1
    <3> QED BY <3>1, <3>2
  <2> HIDE DEF v
  <2>5. ASSUME NEW m \in Nat PROVE Unused(v, m) <=> m \in 1 .. n /\ now[m] = 0
    <3>1. CASE m = n
      <4>1. ~ Unused(v, m)
        BY <3>1, <2>3, <2>4, <1>2, <1>4
      <4> QED BY <3>1, <4>1, <1>3
    <3>2. CASE m \in 1 .. MaxPN /\ m # n
      <4>1. now[m] = acc[m] /\ m \in Nonces
        BY <3>2, <1>3 DEF Nonces
      <4>2. m \in t.largest + 1 .. n - 1 => acc[m] = 0
        BY <4>1, <1>1, <1>2
      <4>3. m \in 1 .. n <=> m \in 1 .. t.largest \/ m \in t.largest + 1 .. n - 1
        BY <3>2, <1>2, <1>4
      <4>4. ~ (m \in 1 .. t.largest /\ m \in t.largest + 1 .. n - 1)
        BY <1>2
      <4> QED BY <2>4, <4>1, <4>2, <4>3, <4>4, <1>1
    <3>3. CASE m \notin 1 .. MaxPN
      <4>1. m \notin 1 .. n /\ m \notin 1 .. t.largest /\ m \notin t.largest + 1 .. n - 1
        BY <3>3, <1>2
      <4> QED BY <4>1, <2>4, <1>1
    <3> QED BY <3>1, <3>2, <3>3
  <2>6. ASSUME NEW m \in Nonces, m > n PROVE now[m] = 0
    <3>1. m # n /\ m > t.largest
      BY <2>6, <1>2, <1>4 DEF Nonces
    <3> QED BY <3>1, <1>1, <1>3
  <2>7. now = [acc EXCEPT ![n] = @ + 1]
    BY <2>1, <1>1
  <2>8. [largest |-> n, unused |-> v] \in [largest : 0 .. MaxPN, unused : Seq(NonceRange)]
    BY <2>4, <1>2 DEF Apart
  <2> HIDE DEF now
  <2>9. Exact([largest |-> n, unused |-> v], now)
    BY <2>4, <2>5, <2>6, <2>8, <1>3 DEF Exact
  <2> QED BY <2>1, <2>2, <2>7, <2>9
<1>5. CASE ~ (n > t.largest)
  <2> DEFINE i == CHOOSE k \in Holding(t, n) : TRUE
             v == TakeFrom(u, i, n)
  <2>1. i \in 1 .. Len(u) /\ n \in u[i].start .. u[i].end
    <3>1. Holding(t, n) # {}
      BY <1>5 DEF Usable
    <3>2. i \in Holding(t, n)
      BY <3>1
    <3>3. DOMAIN u = 1 .. Len(u)
      BY <1>1, ApartFacts
    <3> HIDE DEF i
    <3> QED BY <3>2, <3>3 DEF Holding
  <2>2. InsertNonce(t, n) = [t EXCEPT !.unused = Joined(v)]
    BY <1>5 DEF InsertNonce
  <2> HIDE DEF i
  <2>3. Apart(v) /\ \A m \in Nat : Unused(v, m) <=> Unused(u, m) /\ m # n
    BY <1>1, <2>1, TakeFromFacts
  <2>4. Joined(v) = v
    BY <2>3, JoinedFacts
  <2> HIDE DEF v
  <2>5. acc[n] = 0
    BY <2>1, <1>1, <1>2 DEF Unused
  <2>6. t.largest > 0 /\ t.largest # n
    BY <2>5, <1>1, <1>2, <1>5
  <2> DEFINE w == [t EXCEPT !.unused = v]
  <2>7. /\ w \in [largest : 0 .. MaxPN, unused : Seq(NonceRange)]
        /\ w.largest = t.largest /\ w.unused = v
    BY <2>3, <1>1 DEF Apart
  <2>8. now = [acc EXCEPT ![n] = @ + 1]
    BY <2>5, <1>1
  <2>9. ASSUME NEW m \in Nat PROVE Unused(v, m) <=> m \in 1 .. t.largest /\ now[m] = 0
    <3>1. CASE m = n
      BY <3>1, <2>3, <1>3
    <3>2. CASE m # n
      <4>1. m \in 1 .. t.largest => now[m] = acc[m]
        BY <3>2, <1>2, <1>3 DEF Nonces
      <4> QED BY <3>2, <4>1, <2>3, <1>1
    <3> QED BY <3>1, <3>2
  <2>10. ASSUME NEW m \in Nonces, m > t.largest PROVE now[m] = 0
    <3>1. m # n
      BY <2>10, <1>2, <1>5 DEF Nonces
    <3> QED BY <3>1, <2>10, <1>1, <1>3
  <2>11. now[t.largest] = 1
    <3>1. t.largest \in Nonces
      BY <2>6, <1>2 DEF Nonces
    <3> QED BY <3>1, <2>6, <1>1, <1>3
  <2> HIDE DEF now, w
  <2>12. Exact(w, now)
    BY <2>3, <2>7, <2>9, <2>10, <2>11, <1>3 DEF Exact
  <2> QED BY <2>2, <2>4, <2>5, <2>8, <2>12 DEF w
<1> QED BY <1>4, <1>5

--------------------------------------------------------------------------------
(* The channel *)

\* The sender: no phase begins without a number of its own but the first, a number is
\* sealed once, under a phase the sender has reached.
SenderInv ==
    /\ sentCounter \in 0 .. MaxPN /\ sendPhase \in Nat /\ sendPhaseFrom \in 0 .. sentCounter
    /\ sendPhase <= sendPhaseFrom + 1 /\ sendPhaseAged \in BOOLEAN /\ tidy \in BOOLEAN
    /\ reserved \subseteq 1 .. sentCounter /\ pings \in Nat
    /\ sealedAs \in [Nonces -> Phases \cup {Unsealed}]
    /\ \A n \in Nonces : sealedAs[n] # Unsealed => n <= sentCounter /\ n \notin reserved

\* The network holds only what was sealed.
NetworkInv ==
    /\ net \subseteq Nonces /\ \A n \in net : sealedAs[n] # Unsealed
    /\ losses \in 0 .. MaxLosses /\ repeats \in 0 .. MaxRepeats

\* The receiver: its phase began with a packet sealed under that phase.
ReceiverInv ==
    /\ prevKey \in {"none", "kept", "expired"}
    /\ \/ recvPhase = 0 /\ recvPhaseFrom = 0 /\ prevKey = "none"
       \/ /\ recvPhase \in Phases \ {0} /\ recvPhaseFrom \in Nonces
          /\ sealedAs[recvPhaseFrom] = recvPhase

Inv == SenderInv /\ NetworkInv /\ ReceiverInv /\ Exact(recvTracker, accepted)

\* Sealing a number that is new keeps the invariant.
LEMMA SealInv ==
    ASSUME SenderInv, NetworkInv, ReceiverInv, NEW n \in Nonces, sealedAs[n] = Unsealed,
           NEW counter \in 1 .. MaxPN, sentCounter <= counter, n <= counter,
           sentCounter' = counter, reserved' \subseteq reserved, n \notin reserved', pings' \in Nat, Seal(n, counter),
           UNCHANGED receiver
    PROVE  SenderInv' /\ NetworkInv' /\ ReceiverInv'
<1>1. MaxPN \in Nat /\ MinPacketsBetweenUpdates \in Nat \ {0}
  BY NetworkAssumption, PolicyAssumption
<1>2. /\ sentCounter \in 0 .. MaxPN /\ sendPhase \in Nat /\ sendPhaseFrom \in 0 .. sentCounter
      /\ sendPhase <= sendPhaseFrom + 1 /\ sendPhaseAged \in BOOLEAN /\ tidy \in BOOLEAN
      /\ reserved \subseteq 1 .. sentCounter
      /\ sealedAs \in [Nonces -> Phases \cup {Unsealed}]
      /\ \A m \in Nonces : sealedAs[m] # Unsealed => m <= sentCounter /\ m \notin reserved
  BY DEF SenderInv
<1>3. /\ sealedAs' = [sealedAs EXCEPT ![n] = sendPhase'] /\ net' = net \cup {n}
      /\ losses' = losses /\ repeats' = repeats
  BY DEF Seal
<1>4. /\ sendPhase' \in Nat /\ sendPhaseFrom' \in 0 .. counter
      /\ sendPhase' <= sendPhaseFrom' + 1 /\ sendPhaseAged' \in BOOLEAN /\ tidy' \in BOOLEAN
  <2>1. CASE /\ canUpdateLocked(counter) /\ ratchetSendLocked(counter)
             /\ tidy' = (tidy /\ reserved \subseteq {n} /\ pings = 0)
    <3>1. counter >= sendPhaseFrom + MinPacketsBetweenUpdates
      BY <2>1 DEF canUpdateLocked
    <3>2. sendPhase' = sendPhase + 1 /\ sendPhaseFrom' = counter /\ sendPhaseAged' = FALSE
      BY <2>1 DEF ratchetSendLocked
    <3>3. tidy' \in BOOLEAN
      BY <2>1
    <3>4. sendPhase + 1 \in Nat /\ counter \in 0 .. counter /\ sendPhase + 1 <= counter + 1
      BY <3>1, <1>1, <1>2
    <3> QED BY <3>2, <3>3, <3>4
  <2>2. CASE UNCHANGED <<sendPhase, sendPhaseFrom, sendPhaseAged, tidy>>
    BY <2>2, <1>1, <1>2
  <2> QED BY <2>1, <2>2 DEF Seal
<1>5. sendPhase' \in Phases /\ sendPhase' # Unsealed
  <2>1. sendPhase' \in 0 .. MaxPN + 1
    <3>1. sendPhase' \in Nat /\ sendPhaseFrom' \in 0 .. counter /\ sendPhase' <= sendPhaseFrom' + 1
      BY <1>4
    <3>2. \A p \in Nat, f \in 0 .. counter : p <= f + 1 => p \in 0 .. MaxPN + 1
      BY <1>1
    <3> QED BY <3>1, <3>2
  <2> QED BY <2>1 DEF Phases, Unsealed
<1>6. /\ sealedAs' \in [Nonces -> Phases \cup {Unsealed}] /\ sealedAs'[n] = sendPhase'
      /\ \A m \in Nonces : m # n => sealedAs'[m] = sealedAs[m]
  BY <1>2, <1>3, <1>5
<1>7. SenderInv'
  <2>1. ASSUME NEW m \in Nonces, sealedAs'[m] # Unsealed PROVE m <= counter /\ m \notin reserved'
    <3>1. CASE m = n
      BY <3>1
    <3>2. CASE m # n
      <4>1. m <= sentCounter /\ m \notin reserved
        BY <3>2, <2>1, <1>2, <1>6
      <4> QED BY <4>1, <1>1, <1>2 DEF Nonces
    <3> QED BY <3>1, <3>2
  <2>2. counter \in 0 .. MaxPN /\ reserved' \subseteq 1 .. counter
    BY <1>1, <1>2
  <2> QED BY <2>1, <2>2, <1>4, <1>6 DEF SenderInv
<1>8. NetworkInv'
  BY <1>3, <1>5, <1>6 DEF NetworkInv
<1>9. ReceiverInv'
  <2>1. UNCHANGED <<recvPhase, recvPhaseFrom, prevKey>>
    BY DEF receiver
  <2>2. CASE recvPhase = 0 /\ recvPhaseFrom = 0 /\ prevKey = "none"
    BY <2>1, <2>2 DEF ReceiverInv
  <2>3. CASE recvPhase \in Phases \ {0} /\ recvPhaseFrom \in Nonces /\ sealedAs[recvPhaseFrom] = recvPhase
    <3>1. recvPhaseFrom # n
      BY <2>3, <1>1 DEF Phases, Unsealed
    <3> QED BY <2>1, <2>3, <3>1, <1>6 DEF ReceiverInv
  <2> QED BY <2>2, <2>3 DEF ReceiverInv
<1> QED BY <1>7, <1>8, <1>9

\* A packet that arrives keeps the invariant, accepted or dropped.
LEMMA DeliverInv ==
    ASSUME Inv, NEW n \in Nonces, Deliver(n)
    PROVE  Inv'
<1>1. /\ n \in net /\ net' \subseteq net /\ repeats' \in 0 .. MaxRepeats
  BY NetworkAssumption DEF Inv, NetworkInv, Deliver
<1>2. UNCHANGED <<sentCounter, sendPhase, sendPhaseFrom, sendPhaseAged, reserved,
                  pings, sealedAs, tidy, losses>>
  BY DEF Deliver, sender
<1>3. SenderInv'
  BY <1>2 DEF Inv, SenderInv
<1>4. NetworkInv'
  BY <1>1, <1>2 DEF Inv, NetworkInv
<1>5. CASE receiveApplication(n)
  <2>1. /\ Usable(recvTracker, n) /\ Opens(n)
        /\ recvTracker' = InsertNonce(recvTracker, n)
        /\ accepted' = [accepted EXCEPT ![n] = @ + 1]
    BY <1>5 DEF receiveApplication
  <2>2. Exact(recvTracker', accepted')
    BY <2>1, InsertNonceFacts DEF Inv
  <2>3. ReceiverInv'
    <3>1. CASE KeyFor(n) = recvPhase + 1
      <4>1. recvPhase' = recvPhase + 1 /\ recvPhaseFrom' = n /\ prevKey' = "kept"
        BY <1>5, <3>1 DEF receiveApplication, commitRecvPhaseLocked
      <4>2. sealedAs[n] = recvPhase + 1
        BY <2>1, <3>1 DEF Opens
      <4>3. MaxPN \in Nat /\ recvPhase \in Nat /\ sealedAs[n] \in Phases \cup {Unsealed}
        BY NetworkAssumption DEF Inv, SenderInv, ReceiverInv, Phases
      <4>4. recvPhase + 1 \in Phases \ {0}
        BY <4>2, <4>3 DEF Phases, Unsealed
      <4> QED BY <4>1, <4>2, <4>4, <1>2 DEF ReceiverInv
    <3>2. CASE KeyFor(n) # recvPhase + 1
      <4>1. UNCHANGED <<recvPhase, recvPhaseFrom, prevKey>>
        BY <1>5, <3>2 DEF receiveApplication
      <4> QED BY <4>1, <1>2 DEF Inv, ReceiverInv
    <3> QED BY <3>1, <3>2
  <2> QED BY <2>2, <2>3, <1>3, <1>4 DEF Inv
<1>6. CASE receiveDropped(n)
  <2>1. UNCHANGED <<recvTracker, recvPhase, recvPhaseFrom, prevKey, accepted>>
    BY <1>6 DEF receiveDropped, receiver
  <2> QED BY <2>1, <1>2, <1>3, <1>4 DEF Inv, ReceiverInv
<1> QED BY <1>5, <1>6 DEF Deliver

\* The invariant holds in every reachable state.
LEMMA Invariance == Spec => []Inv
<1>1. Init => Inv
  <2> SUFFICES ASSUME Init PROVE Inv
    OBVIOUS
  <2>1. MaxPN \in Nat /\ MaxLosses \in Nat /\ MaxRepeats \in Nat
    BY NetworkAssumption
  <2>2. SenderInv
    <3>1. /\ 0 \in 0 .. MaxPN /\ 0 \in Nat /\ 0 \in 0 .. 0 /\ 0 <= 0 + 1
      BY <2>1
    <3>2. sealedAs \in [Nonces -> Phases \cup {Unsealed}] /\ \A n \in Nonces : sealedAs[n] = Unsealed
      BY DEF Init
    <3> QED BY <3>1, <3>2 DEF Init, SenderInv
  <2>3. NetworkInv
    BY <2>1 DEF Init, NetworkInv
  <2>4. ReceiverInv
    BY DEF Init, ReceiverInv
  <2>5. Exact(recvTracker, accepted)
    <3>1. recvTracker.largest = 0 /\ recvTracker.unused = <<>>
      BY DEF Init, FreshTracker
    <3>2. /\ recvTracker \in [largest : 0 .. MaxPN, unused : Seq(NonceRange)]
          /\ accepted \in [Nonces -> {0, 1}] /\ \A n \in Nonces : accepted[n] = 0
      BY <2>1 DEF Init, FreshTracker
    <3>3. Len(<<>>) = 0 /\ <<>> \in Seq(NonceRange)
      OBVIOUS
    <3>4. Apart(<<>>) /\ \A m \in Nat : ~ Unused(<<>>, m)
      BY <3>3 DEF Apart, Unused
    <3> QED BY <3>1, <3>2, <3>4 DEF Exact
  <2> QED BY <2>2, <2>3, <2>4, <2>5 DEF Inv
<1>2. Inv /\ [Next]_vars => Inv'
  <2> SUFFICES ASSUME Inv, [Next]_vars PROVE Inv'
    OBVIOUS
  <2>1. MaxPN \in Nat /\ sentCounter \in 0 .. MaxPN /\ reserved \subseteq 1 .. sentCounter
    BY NetworkAssumption DEF Inv, SenderInv
  <2>2. ASSUME UNCHANGED receiver, ReceiverInv' PROVE Exact(recvTracker, accepted)'
    BY <2>2 DEF Inv, receiver
  <2>3. sentCounter < MaxPN => /\ sentCounter + 1 \in Nonces /\ sentCounter + 1 \in 1 .. MaxPN
                               /\ sentCounter < sentCounter + 1
                               /\ sealedAs[sentCounter + 1] = Unsealed
                               /\ sentCounter + 1 \notin reserved
    BY <2>1 DEF Inv, SenderInv, Nonces
  <2>4. CASE ConsumePacketNumber
    <3>1. /\ sentCounter < MaxPN /\ sentCounter' = sentCounter + 1
          /\ reserved' = reserved \cup {sentCounter + 1}
          /\ UNCHANGED <<sendPhase, sendPhaseFrom, sendPhaseAged, pings, sealedAs, tidy>>
          /\ UNCHANGED <<recvTracker, recvPhase, recvPhaseFrom, prevKey, accepted>>
          /\ UNCHANGED <<net, losses, repeats>>
      BY <2>4 DEF ConsumePacketNumber, receiver, network
    <3>2. SenderInv'
      <4>1. /\ sentCounter + 1 \in 0 .. MaxPN /\ sendPhaseFrom \in 0 .. sentCounter + 1
            /\ reserved' \subseteq 1 .. sentCounter + 1
        BY <3>1, <2>1 DEF Inv, SenderInv
      <4>2. ASSUME NEW m \in Nonces, sealedAs[m] # Unsealed
            PROVE  m <= sentCounter + 1 /\ m \notin reserved'
        BY <4>2, <3>1, <2>1 DEF Inv, SenderInv, Nonces
      <4> QED BY <4>1, <4>2, <3>1 DEF Inv, SenderInv
    <3> QED BY <3>1, <3>2 DEF Inv, NetworkInv, ReceiverInv
  <2>5. CASE SendMessage
    <3>1. /\ sentCounter < MaxPN /\ sentCounter' = sentCounter + 1
          /\ Seal(sentCounter + 1, sentCounter + 1)
          /\ reserved' = reserved /\ pings' = pings /\ UNCHANGED receiver
      BY <2>5 DEF SendMessage
    <3>2. pings' \in Nat /\ sentCounter <= sentCounter + 1 /\ sentCounter + 1 <= sentCounter + 1
      BY <3>1, <2>1 DEF Inv, SenderInv
    <3>3. SenderInv' /\ NetworkInv' /\ ReceiverInv'
      BY <3>1, <3>2, <2>1, <2>3, SealInv DEF Inv
    <3> QED BY <3>1, <3>3, <2>2 DEF Inv
  <2>6. CASE UpdateKey
    <3>1. /\ sendPhase > 0 => canUpdateLocked(sentCounter)
          /\ sendPhase' = sendPhase + 1 /\ sendPhaseFrom' = sentCounter /\ sendPhaseAged' = FALSE
          /\ tidy' \in BOOLEAN /\ pings' = pings + 1
          /\ UNCHANGED <<sentCounter, reserved, sealedAs>>
          /\ UNCHANGED <<recvTracker, recvPhase, recvPhaseFrom, prevKey, accepted>>
          /\ UNCHANGED <<net, losses, repeats>>
      BY <2>6 DEF UpdateKey, ratchetSendLocked, receiver, network
    <3>2. sendPhase' <= sendPhaseFrom' + 1
      <4>1. CASE sendPhase = 0
        BY <4>1, <3>1, <2>1
      <4>2. CASE sendPhase > 0
        BY <4>2, <3>1, <2>1, PolicyAssumption DEF Inv, SenderInv, canUpdateLocked
      <4> QED BY <4>1, <4>2 DEF Inv, SenderInv
    <3>3. sendPhase' \in Nat /\ sendPhaseFrom' \in 0 .. sentCounter' /\ pings' \in Nat
      BY <3>1, <2>1 DEF Inv, SenderInv
    <3>4. SenderInv'
      BY <3>1, <3>2, <3>3 DEF Inv, SenderInv
    <3> QED BY <3>1, <3>4 DEF Inv, NetworkInv, ReceiverInv
  <2>7. CASE sendControl
    <3>1. /\ sentCounter < MaxPN /\ sentCounter' = sentCounter + 1
          /\ Seal(sentCounter + 1, sentCounter + 1) /\ pings > 0
          /\ reserved' = reserved /\ pings' = pings - 1 /\ UNCHANGED receiver
      BY <2>7 DEF sendControl
    <3>2. pings' \in Nat /\ sentCounter <= sentCounter + 1 /\ sentCounter + 1 <= sentCounter + 1
      BY <3>1, <2>1 DEF Inv, SenderInv
    <3>3. SenderInv' /\ NetworkInv' /\ ReceiverInv'
      BY <3>1, <3>2, <2>1, <2>3, SealInv DEF Inv
    <3> QED BY <3>1, <3>3, <2>2 DEF Inv
  <2>8. ASSUME NEW n \in Nonces, SendMessageWithPacketNumber(n) PROVE Inv'
    <3>1. /\ n \in reserved /\ reserved' = reserved \ {n} /\ Seal(n, sentCounter)
          /\ UNCHANGED <<sentCounter, pings, receiver>>
      BY <2>8 DEF SendMessageWithPacketNumber
    <3>2. /\ sealedAs[n] = Unsealed /\ sentCounter \in 1 .. MaxPN /\ n <= sentCounter
          /\ sentCounter <= sentCounter /\ pings' \in Nat
      BY <3>1, <2>1 DEF Inv, SenderInv
    <3>3. SenderInv' /\ NetworkInv' /\ ReceiverInv'
      BY <3>1, <3>2, SealInv DEF Inv
    <3> QED BY <3>1, <3>3, <2>2 DEF Inv
  <2>9. ASSUME NEW n \in Nonces, Deliver(n) PROVE Inv'
    BY <2>9, DeliverInv
  <2>10. ASSUME NEW n \in Nonces, Lose(n) PROVE Inv'
    <3>1. /\ losses < MaxLosses /\ losses' = losses + 1 /\ net' \subseteq net
          /\ UNCHANGED <<sentCounter, sendPhase, sendPhaseFrom, sendPhaseAged, reserved,
                         pings, sealedAs, tidy, repeats>>
          /\ UNCHANGED <<recvTracker, recvPhase, recvPhaseFrom, prevKey, accepted>>
      BY <2>10 DEF Lose, sender, receiver
    <3>2. losses' \in 0 .. MaxLosses
      BY <3>1, NetworkAssumption DEF Inv, NetworkInv
    <3>3. NetworkInv'
      BY <3>1, <3>2 DEF Inv, NetworkInv
    <3> QED BY <3>1, <3>3 DEF Inv, SenderInv, ReceiverInv
  <2>11. CASE PhaseAges
    BY <2>11 DEF PhaseAges, receiver, network, Inv, SenderInv, NetworkInv, ReceiverInv
  <2>12. CASE PrevKeyExpires
    BY <2>12 DEF PrevKeyExpires, sender, network, Inv, SenderInv, NetworkInv, ReceiverInv
  <2>13. CASE UNCHANGED vars
    BY <2>13 DEF vars, sender, receiver, network, Inv, SenderInv, NetworkInv, ReceiverInv
  <2> QED BY <2>4, <2>5, <2>6, <2>7, <2>8, <2>9, <2>10, <2>11, <2>12, <2>13 DEF Next
<1> QED BY <1>1, <1>2, PTL DEF Spec

\* The channel's variables have their types, no packet is accepted twice and no fresh
\* one refused, for every order, repetition and loss (InsertNonce, receiveApplication).
THEOREM ChannelReplayFilter == Spec => []ReplayFilterExact
<1>1. Inv => ReplayFilterExact
  <2> SUFFICES ASSUME Inv PROVE ReplayFilterExact
    OBVIOUS
  <2>1. MaxPN \in Nat
    BY NetworkAssumption
  <2>2. TypeOK
    <3>1. sendPhase \in Phases /\ sendPhaseFrom \in 0 .. MaxPN /\ sentCounter \in 0 .. MaxPN
      BY <2>1 DEF Inv, SenderInv, Phases
    <3>2. reserved \in SUBSET Nonces
      BY <2>1 DEF Inv, SenderInv, Nonces
    <3>3. recvPhase \in Phases /\ recvPhaseFrom \in 0 .. MaxPN
      BY <2>1 DEF Inv, ReceiverInv, Phases, Nonces
    <3> QED BY <3>1, <3>2, <3>3 DEF TypeOK, Inv, SenderInv, NetworkInv, ReceiverInv
  <2>3. AcceptedOnce
    BY DEF Inv, Exact, AcceptedOnce
  <2>4. TrackerExact
    <3> DEFINE u == recvTracker.unused
    <3>1. /\ Apart(u) /\ recvTracker.largest \in 0 .. MaxPN
          /\ \A m \in Nat : Unused(u, m) <=> m \in 1 .. recvTracker.largest /\ accepted[m] = 0
      BY DEF Inv, Exact
    <3>2. /\ DOMAIN u = 1 .. Len(u) /\ Len(u) \in Nat
          /\ \A i \in 1 .. Len(u) : u[i].start \in Nat /\ u[i].end \in Nat /\ u[i].start <= u[i].end
          /\ \A i, j \in 1 .. Len(u) : i < j => u[i].end + 1 < u[j].start
      BY <3>1, ApartFacts
    <3> HIDE DEF u
    <3>3. ASSUME NEW m
          PROVE  m \in UNION {u[i].start .. u[i].end : i \in DOMAIN u}
                   <=> m \in {n \in 1 .. recvTracker.largest : accepted[n] = 0}
      <4>1. m \in UNION {u[i].start .. u[i].end : i \in DOMAIN u} <=> Unused(u, m)
        BY <3>2 DEF Unused
      <4>2. Unused(u, m) => m \in Nat
        BY <3>2 DEF Unused
      <4>3. m \in 1 .. recvTracker.largest => m \in Nat
        BY <3>1, <2>1
      <4> QED BY <4>1, <4>2, <4>3, <3>1
    <3>4. \A i \in 1 .. Len(u) - 1 : u[i].end + 1 < u[i + 1].start
      <4>1. \A i \in 1 .. Len(u) - 1 : i \in 1 .. Len(u) /\ i + 1 \in 1 .. Len(u) /\ i < i + 1
        BY <3>2
      <4> QED BY <4>1, <3>2
    <3>5. UNION {u[i].start .. u[i].end : i \in DOMAIN u}
             = {n \in 1 .. recvTracker.largest : accepted[n] = 0}
      BY <3>3, Zenon
    <3> QED BY <3>2, <3>4, <3>5, Zenon DEF TrackerExact, u
  <2> QED BY <2>2, <2>3, <2>4 DEF ReplayFilterExact
<1> QED BY <1>1, Invariance, PTL

\* One bit of the header and the packet number name the right key, whatever the network
\* does and whenever the previous key is dropped (receiveApplication).
THEOREM ChannelKeyChosenRight == Spec => []KeyChosenRight
<1>1. Inv => KeyChosenRight
  <2> SUFFICES ASSUME Inv, SealedInOrder, NEW n \in net,
                      \/ sealedAs[n] \in {recvPhase, recvPhase + 1}
                      \/ sealedAs[n] = recvPhase - 1 /\ prevKey = "kept"
               PROVE  KeyFor(n) = sealedAs[n]
    BY DEF KeyChosenRight, Opens
  <2>1. /\ n \in Nonces /\ n \in Int /\ sealedAs[n] # Unsealed /\ recvPhase \in Nat
        /\ sealedAs[n] \in Nat
    BY NetworkAssumption DEF Inv, SenderInv, NetworkInv, ReceiverInv, Nonces, Phases
  <2>2. /\ (recvPhase + 1) % 2 # recvPhase % 2
        /\ (recvPhase - 1) % 2 # recvPhase % 2
    BY <2>1
  <2>3. CASE sealedAs[n] = recvPhase
    BY <2>3 DEF KeyFor
  <2>4. ASSUME recvPhase # 0
        PROVE  /\ recvPhaseFrom \in Nonces /\ recvPhaseFrom \in Int
               /\ sealedAs[recvPhaseFrom] = recvPhase /\ recvPhase # Unsealed
    BY <2>4, <2>1, NetworkAssumption DEF Inv, ReceiverInv, Nonces, Unsealed
  <2>5. prevKey = "kept" => recvPhase # 0
    BY <2>1 DEF Inv, ReceiverInv
  <2>6. CASE sealedAs[n] = recvPhase + 1
    <3>1. ~ (n < recvPhaseFrom /\ prevKey = "kept")
      <4> SUFFICES ASSUME n < recvPhaseFrom, prevKey = "kept" PROVE FALSE
        OBVIOUS
      <4>1. sealedAs[n] <= sealedAs[recvPhaseFrom]
        BY <2>1, <2>4, <2>5 DEF SealedInOrder
      <4> QED BY <4>1, <2>1, <2>4, <2>5, <2>6
    <3> QED BY <3>1, <2>2, <2>6 DEF KeyFor
  <2>7. CASE sealedAs[n] = recvPhase - 1 /\ prevKey = "kept"
    <3>1. n < recvPhaseFrom
      <4>1. n # recvPhaseFrom
        BY <2>1, <2>4, <2>5, <2>7
      <4>2. ~ (recvPhaseFrom < n)
        <5> SUFFICES ASSUME recvPhaseFrom < n PROVE FALSE
          OBVIOUS
        <5>1. sealedAs[recvPhaseFrom] <= sealedAs[n]
          BY <2>1, <2>4, <2>5, <2>7 DEF SealedInOrder
        <5> QED BY <5>1, <2>1, <2>4, <2>5, <2>7
      <4> QED BY <4>1, <4>2, <2>1, <2>4, <2>5, <2>7
    <3> QED BY <3>1, <2>2, <2>7 DEF KeyFor
  <2> QED BY <2>3, <2>6, <2>7
<1> QED BY <1>1, Invariance, PTL

--------------------------------------------------------------------------------
(* The receiver is not stranded *)

\* The numbers a phase has to itself: sealed under it and taken after it began.
Own(f, q) == {n \in Nonces : sealedAs[n] = q /\ n > f[q]}

\* Where each phase began (f) and which packets were lost, as far as the state still
\* tells: an earlier phase has no number above the beginning of a later one.
Story(f, lost) ==
    /\ f \in [Nat -> Nat] /\ f[sendPhase] = sendPhaseFrom
    /\ lost \subseteq Nonces /\ Cardinality(lost) <= losses
    /\ \A n \in Nonces : n <= sentCounter /\ n \notin reserved =>
          /\ sealedAs[n] \in 0 .. sendPhase
          /\ n > sendPhaseFrom => sealedAs[n] = sendPhase
    /\ \A n \in Nonces : accepted[n] # 0 => sealedAs[n] \in 0 .. recvPhase
    /\ \A q \in 1 .. sendPhase, n \in Nonces : sealedAs[n] \in 0 .. q - 1 => n <= f[q]

\* While no phase ended over numbers still unsealed: every phase that ended had as many
\* numbers of its own as the floor asks for, and of a phase the receiver has not
\* reached only the first few, as far as the network reorders, were dropped.
TidyStory(f, lost) ==
    /\ \A n \in reserved : n > sendPhaseFrom
    /\ \A q \in 1 .. sendPhase - 1 : Cardinality(Own(f, q)) >= MinPacketsBetweenUpdates
    /\ \A n \in Nonces : (/\ sealedAs[n] > recvPhase /\ accepted[n] = 0
                      /\ n \notin net /\ n \notin lost /\ n > f[sealedAs[n]])
                         => n <= f[sealedAs[n]] + ReorderWindow

StoryInv == \E f \in [Nat -> Nat], lost \in SUBSET Nonces :
                Story(f, lost) /\ (tidy => TidyStory(f, lost))

LEMMA SealedType ==
    ASSUME Inv, NEW f, NEW lost, Story(f, lost), NEW n \in Nonces, sealedAs[n] # Unsealed
    PROVE  sealedAs[n] \in 0 .. sendPhase /\ n <= sentCounter /\ n \notin reserved
BY DEF Inv, SenderInv, Story

\* The invariant says what it is for: losses and reordering together cannot account for
\* all the numbers the phase after the receiver's has to itself.
LEMMA StoryNotStranded ==
    ASSUME Inv, NEW f, NEW lost, Story(f, lost), TidyStory(f, lost),
           sendPhase > recvPhase + 1
    PROVE  \E n \in net : sealedAs[n] = recvPhase + 1 /\ accepted[n] = 0
<1> DEFINE p == recvPhase + 1
           T == Own(f, p)
           early == f[p] + 1 .. f[p] + ReorderWindow
<1> SUFFICES ASSUME \A n \in net : ~ (sealedAs[n] = p /\ accepted[n] = 0)
             PROVE  FALSE
  OBVIOUS
<1>1. /\ MaxPN \in Nat /\ ReorderWindow \in Nat /\ MaxLosses \in Nat
      /\ MinPacketsBetweenUpdates \in Nat /\ ReorderWindow + MaxLosses < MinPacketsBetweenUpdates
  BY NetworkAssumption, PolicyAssumption
<1>2. recvPhase \in Nat /\ sendPhase \in Nat /\ p \in Nat /\ p \in 1 .. sendPhase - 1 /\ f[p] \in Nat
  BY <1>1 DEF Inv, ReceiverInv, SenderInv, Phases, Story
<1>3. T \subseteq lost \cup early
  <2> SUFFICES ASSUME NEW n \in Nonces, sealedAs[n] = p, n > f[p], n \notin lost PROVE n \in early
    BY DEF Own
  <2>1. accepted[n] = 0
    BY <1>2 DEF Story
  <2>2. n \notin net
    BY <2>1
  <2>3. p > recvPhase
    BY <1>2
  <2>4. n <= f[p] + ReorderWindow
    BY <2>1, <2>2, <2>3 DEF TidyStory
  <2> QED BY <2>4, <1>1, <1>2 DEF Nonces
<1>4. IsFiniteSet(Nonces) /\ IsFiniteSet(lost) /\ Cardinality(lost) \in Nat /\ Cardinality(lost) <= MaxLosses
  <2>1. IsFiniteSet(Nonces)
    BY <1>1, FS_Interval DEF Nonces
  <2>2. IsFiniteSet(lost)
    BY <2>1, FS_Subset DEF Story
  <2>3. Cardinality(lost) \in Nat
    BY <2>2, FS_CardinalityType
  <2>4. Cardinality(lost) <= losses /\ losses \in 0 .. MaxLosses
    BY DEF Story, Inv, NetworkInv
  <2> QED BY <2>1, <2>2, <2>3, <2>4, <1>1
<1>5. IsFiniteSet(early) /\ Cardinality(early) = ReorderWindow
  <2>1. f[p] + 1 \in Int /\ f[p] + ReorderWindow \in Int
    BY <1>1, <1>2
  <2>2. /\ IsFiniteSet(early)
        /\ Cardinality(early) = IF f[p] + 1 > f[p] + ReorderWindow THEN 0
                                ELSE (f[p] + ReorderWindow) - (f[p] + 1) + 1
    BY <2>1, FS_Interval
  <2> QED BY <2>2, <1>1, <1>2
<1> HIDE DEF T, early, p
<1>6. /\ IsFiniteSet(lost \cup early)
      /\ Cardinality(lost \cup early) = Cardinality(lost) + Cardinality(early) - Cardinality(lost \cap early)
  BY <1>4, <1>5, FS_Union
<1>7. Cardinality(lost \cap early) \in Nat
  <2>1. IsFiniteSet(lost \cap early)
    BY <1>4, FS_Subset
  <2> QED BY <2>1, FS_CardinalityType
<1>8. Cardinality(T) <= Cardinality(lost \cup early)
  BY <1>3, <1>6, FS_Subset
<1>9. Cardinality(T) >= MinPacketsBetweenUpdates
  BY <1>2 DEF TidyStory, T
<1>10. IsFiniteSet(T) /\ Cardinality(T) \in Nat
  <2>1. IsFiniteSet(T)
    BY <1>3, <1>6, FS_Subset
  <2> QED BY <2>1, FS_CardinalityType
<1> QED BY <1>1, <1>4, <1>5, <1>6, <1>7, <1>8, <1>9, <1>10

\* A phase that ends tidily had its floor: every number taken in it but the one that
\* ends it is sealed under it.
LEMMA PhaseHadItsFloor ==
    ASSUME Inv, NEW f, NEW lost, Story(f, lost), NEW c \in 0 .. MaxPN, NEW n,
           \A m \in Nonces : m <= c /\ m # n => m <= sentCounter /\ m \notin reserved,
           \/ n \notin sendPhaseFrom + 1 .. c /\ c >= sendPhaseFrom + MinPacketsBetweenUpdates
           \/ c >= sendPhaseFrom + MinPacketsBetweenUpdates + 1
    PROVE  Cardinality(Own(f, sendPhase) \ {n}) >= MinPacketsBetweenUpdates
<1> DEFINE I == sendPhaseFrom + 1 .. c
           T == Own(f, sendPhase)
<1>1. /\ MaxPN \in Nat /\ c \in Nat /\ sendPhaseFrom \in Nat
      /\ MinPacketsBetweenUpdates \in Nat /\ MinPacketsBetweenUpdates > 0
  BY NetworkAssumption, PolicyAssumption DEF Inv, SenderInv
<1>2. I \ {n} \subseteq T \ {n}
  <2> SUFFICES ASSUME NEW m \in I, m # n PROVE m \in Nonces /\ sealedAs[m] = sendPhase /\ m > f[sendPhase]
    BY DEF Own
  <2>1. m \in Nonces /\ m <= c /\ m > sendPhaseFrom
    BY <1>1 DEF Nonces
  <2>2. m <= sentCounter /\ m \notin reserved
    BY <2>1
  <2> QED BY <2>1, <2>2 DEF Story
<1>3. IsFiniteSet(I) /\ Cardinality(I) = c - sendPhaseFrom
  <2>1. sendPhaseFrom + 1 \in Int /\ c \in Int /\ c > sendPhaseFrom
    BY <1>1
  <2>2. IsFiniteSet(I) /\ Cardinality(I) = IF sendPhaseFrom + 1 > c THEN 0 ELSE c - (sendPhaseFrom + 1) + 1
    BY <2>1, FS_Interval
  <2> QED BY <2>1, <2>2, <1>1
<1>4. Cardinality(I \ {n}) = IF n \in I THEN Cardinality(I) - 1 ELSE Cardinality(I)
  BY <1>3, FS_RemoveElement
<1>5. IsFiniteSet(T \ {n})
  <2>1. IsFiniteSet(Nonces) /\ T \ {n} \subseteq Nonces
    BY <1>1, FS_Interval DEF Nonces, Own
  <2> QED BY <2>1, FS_Subset
<1>6. Cardinality(I \ {n}) <= Cardinality(T \ {n})
  BY <1>2, <1>5, FS_Subset
<1>7. Cardinality(T \ {n}) \in Nat
  BY <1>5, FS_CardinalityType
<1>8. Cardinality(I \ {n}) >= MinPacketsBetweenUpdates /\ Cardinality(I \ {n}) \in Int
  BY <1>1, <1>3, <1>4
<1> HIDE DEF T, I
<1> QED BY <1>1, <1>6, <1>7, <1>8 DEF T

\* Sealing a number, with or without a new phase, continues the story.
LEMMA SealStory ==
    ASSUME Inv, NEW f, NEW lost, Story(f, lost), tidy => TidyStory(f, lost),
           NEW n \in Nonces, sealedAs[n] = Unsealed,
           NEW counter \in 1 .. MaxPN, n <= counter, sentCounter' = counter,
           \/ counter = sentCounter /\ n \in reserved
           \/ counter = sentCounter + 1 /\ n = counter,
           reserved' = reserved \ {n}, Seal(n, counter), UNCHANGED receiver
    PROVE  StoryInv'
<1>1. /\ MaxPN \in Nat /\ MinPacketsBetweenUpdates \in Nat \ {0} /\ KeyUpdatePackets \in Nat
      /\ KeyUpdatePackets > MinPacketsBetweenUpdates /\ 2^CounterWidth \in Nat /\ MaxPN < 2^CounterWidth
      /\ ReorderWindow \in Nat /\ n \in Nat /\ counter \in Nat /\ n \in 1 .. MaxPN
  BY NetworkAssumption, PolicyAssumption, CounterAssumption DEF Nonces
<1>2. /\ sentCounter \in 0 .. MaxPN /\ sendPhase \in Nat /\ sendPhaseFrom \in 0 .. sentCounter
      /\ sendPhaseFrom \in Nat /\ recvPhase \in Nat
      /\ sealedAs \in [Nonces -> Phases \cup {Unsealed}] /\ Unsealed \notin Nat /\ tidy \in BOOLEAN
  BY <1>1 DEF Inv, SenderInv, ReceiverInv, Phases, Unsealed
<1>3. /\ sealedAs' = [sealedAs EXCEPT ![n] = sendPhase'] /\ net' = net \cup {n} /\ losses' = losses
      /\ UNCHANGED <<recvTracker, recvPhase, recvPhaseFrom, prevKey, accepted>>
  BY DEF Seal, receiver
<1>4. /\ sealedAs'[n] = sendPhase'
      /\ \A m \in Nonces : m # n => sealedAs'[m] = sealedAs[m]
  BY <1>2, <1>3
<1>5. /\ f \in [Nat -> Nat] /\ f[sendPhase] = sendPhaseFrom
      /\ lost \subseteq Nonces /\ Cardinality(lost) <= losses
      /\ \A m \in Nonces : m <= sentCounter /\ m \notin reserved =>
            /\ sealedAs[m] \in 0 .. sendPhase
            /\ m > sendPhaseFrom => sealedAs[m] = sendPhase
      /\ \A m \in Nonces : accepted[m] # 0 => sealedAs[m] \in 0 .. recvPhase
      /\ \A q \in 1 .. sendPhase, m \in Nonces : sealedAs[m] \in 0 .. q - 1 => m <= f[q]
  BY DEF Story
<1>6. \A m \in Nonces : m # n /\ m <= counter => m <= sentCounter
  BY <1>1, <1>2 DEF Nonces
<1>7. \A m \in Nonces : m # n /\ m \notin reserved' => m \notin reserved
  OBVIOUS
<1>8. ASSUME NEW m \in Nonces, accepted[m] # 0 PROVE sealedAs'[m] \in 0 .. recvPhase
  <2>1. sealedAs[m] \in 0 .. recvPhase
    BY <1>5, <1>8
  <2>2. m # n
    BY <2>1, <1>2
  <2> QED BY <2>1, <2>2, <1>4
<1>9. tidy => n > sendPhaseFrom
  <2>1. CASE n \in reserved
    BY <2>1 DEF TidyStory
  <2>2. CASE n = counter /\ counter = sentCounter + 1
    BY <2>2, <1>2
  <2> QED BY <2>1, <2>2
<1>10. CASE /\ (n - sendPhaseFrom) % 2^CounterWidth >= KeyUpdatePackets
            /\ canUpdateLocked(counter) /\ ratchetSendLocked(counter)
            /\ tidy' = (tidy /\ reserved \subseteq {n} /\ pings = 0)
  <2>1. sendPhase' = sendPhase + 1 /\ sendPhaseFrom' = counter
    BY <1>10 DEF ratchetSendLocked
  <2>2. PICK g \in [Nat -> Nat] : /\ g[sendPhase + 1] = counter
                                 /\ \A q \in 0 .. sendPhase : g[q] = f[q]
    <3>1. f \in [Nat -> Nat] /\ sendPhase \in Nat /\ counter \in Nat
      BY <1>1, <1>2, <1>5
    <3>2. sendPhase + 1 \in Nat /\ \A q \in 0 .. sendPhase : q \in Nat /\ q # sendPhase + 1
      BY <3>1
    <3> DEFINE h == [f EXCEPT ![sendPhase + 1] = counter]
    <3>3. /\ h \in [Nat -> Nat] /\ h[sendPhase + 1] = counter
          /\ \A q \in 0 .. sendPhase : h[q] = f[q]
      BY <3>1, <3>2
    <3> HIDE DEF h
    <3> QED BY <3>3
  <2>3. ASSUME NEW m \in Nonces, m <= counter, m \notin reserved'
        PROVE  /\ sealedAs'[m] \in 0 .. sendPhase + 1
               /\ ~ (m > counter)
    <3>1. ~ (m > counter)
      BY <2>3, <1>1 DEF Nonces
    <3>2. CASE m = n
      BY <3>1, <3>2, <2>1, <1>2, <1>4
    <3>3. CASE m # n
      <4>1. sealedAs[m] \in 0 .. sendPhase
        BY <3>3, <2>3, <1>5, <1>6, <1>7
      <4> QED BY <3>1, <3>3, <4>1, <1>2, <1>4
    <3> QED BY <3>2, <3>3
  <2>4. ASSUME NEW q \in 1 .. sendPhase + 1, NEW m \in Nonces, sealedAs'[m] \in 0 .. q - 1
        PROVE  m <= g[q]
    <3>1. m # n
      BY <2>4, <2>1, <1>2, <1>4
    <3>2. sealedAs[m] \in 0 .. q - 1 /\ sealedAs[m] # Unsealed
      BY <3>1, <2>4, <1>2, <1>4
    <3>3. CASE q = sendPhase + 1
      <4>1. m <= sentCounter
        BY <3>2 DEF Inv, SenderInv
      <4> QED BY <4>1, <3>3, <2>2, <1>1, <1>2 DEF Nonces
    <3>4. CASE q \in 1 .. sendPhase
      <4>1. q \in 0 .. sendPhase
        BY <3>4, <1>2
      <4> QED BY <3>2, <3>4, <4>1, <2>2, <1>5
    <3> QED BY <3>3, <3>4, <1>2
  <2>5. Story(g, lost)'
    <3>1. 0 .. sendPhase' = 0 .. sendPhase + 1 /\ 1 .. sendPhase' = 1 .. sendPhase + 1
      BY <2>1
    <3> QED BY <2>1, <2>2, <2>3, <2>4, <3>1, <1>3, <1>5, <1>8 DEF Story
  <2>6. ASSUME tidy' PROVE TidyStory(g, lost)'
    <3>1. tidy /\ reserved \subseteq {n} /\ TidyStory(f, lost)
      BY <2>6, <1>2, <1>10
    <3>2. reserved' = {}
      BY <3>1
    <3>3. ASSUME NEW q \in 1 .. sendPhase - 1
          PROVE  Cardinality(Own(g, q)') >= MinPacketsBetweenUpdates
      <4>1. q \in 0 .. sendPhase /\ sendPhase + 1 # q /\ q \in Nat
        BY <1>2
      <4>2. ASSUME NEW m \in Nonces PROVE sealedAs'[m] = q <=> sealedAs[m] = q
        BY <4>1, <2>1, <1>2, <1>4
      <4>3. Own(g, q)' = Own(f, q)
        BY <4>1, <4>2, <2>2 DEF Own
      <4> QED BY <4>3, <3>1 DEF TidyStory
    <3>7. PICK p \in Nat : p = sendPhase
      BY <1>2
    <3>4. Cardinality(Own(g, p)') >= MinPacketsBetweenUpdates
      <4>1. \A m \in Nonces : m <= counter /\ m # n => m <= sentCounter /\ m \notin reserved
        BY <3>1, <1>6
      <4>2. n - sendPhaseFrom >= KeyUpdatePackets
        <5>1. n - sendPhaseFrom \in 0 .. MaxPN
          BY <3>1, <1>1, <1>2, <1>9
        <5>2. \A d \in 0 .. MaxPN : d % 2^CounterWidth = d
          <6> DEFINE w == 2^CounterWidth
          <6>1. w \in Nat /\ MaxPN < w
            BY <1>1
          <6> HIDE DEF w
          <6>2. \A d \in 0 .. MaxPN : d % w = d
            BY <6>1, <1>1
          <6> QED BY <6>2 DEF w
        <5> QED BY <5>1, <5>2, <1>10
      <4>3. counter >= sendPhaseFrom + MinPacketsBetweenUpdates + 1
        BY <4>2, <1>1, <1>2
      <4>4. Cardinality(Own(f, sendPhase) \ {n}) >= MinPacketsBetweenUpdates
        <5>1. counter \in 0 .. MaxPN
          BY <1>1
        <5> QED BY <4>1, <4>3, <5>1, PhaseHadItsFloor
      <4>5. Own(g, p)' = Own(f, p) \ {n}
        <5>1. sendPhase \in 0 .. sendPhase /\ sendPhase + 1 # sendPhase
          BY <1>2
        <5>2. ASSUME NEW m \in Nonces PROVE sealedAs'[m] = p <=> sealedAs[m] = p /\ m # n
          BY <5>1, <3>7, <2>1, <1>2, <1>4
        <5>3. g[p] = f[p]
          BY <5>1, <3>7, <2>2
        <5> QED BY <5>2, <5>3 DEF Own
      <4> QED BY <3>7, <4>4, <4>5
    <3>5. ASSUME NEW m \in Nonces, sealedAs'[m] > recvPhase, accepted[m] = 0, m \notin net',
                 m \notin lost, m > g[sealedAs'[m]]
          PROVE  m <= g[sealedAs'[m]] + ReorderWindow
      <4>1. m # n /\ m \notin net /\ sealedAs'[m] = sealedAs[m]
        BY <3>5, <1>3, <1>4
      <4>2. sealedAs[m] \in 0 .. sendPhase
        <5>1. sealedAs[m] # Unsealed
          BY <4>1, <3>5, <1>2 DEF Unsealed
        <5> QED BY <5>1, SealedType
      <4>3. g[sealedAs'[m]] = f[sealedAs[m]]
        BY <4>1, <4>2, <2>2
      <4> QED BY <4>1, <4>3, <3>1, <3>5 DEF TidyStory
    <3>6. ASSUME NEW q \in 1 .. sendPhase' - 1
          PROVE  Cardinality(Own(g, q)') >= MinPacketsBetweenUpdates
      <4>1. q = p \/ q \in 1 .. sendPhase - 1
        BY <2>1, <3>7, <1>2
      <4>2. CASE q = p
        BY <4>2, <3>4
      <4>3. CASE q \in 1 .. sendPhase - 1
        BY <4>3, <3>3
      <4> QED BY <4>1, <4>2, <4>3
    <3> QED BY <3>2, <3>5, <3>6, <1>3 DEF TidyStory
  <2> QED BY <2>2, <2>5, <2>6, <1>5 DEF StoryInv
<1>11. CASE UNCHANGED <<sendPhase, sendPhaseFrom, sendPhaseAged, tidy>>
  <2>1. sendPhase' = sendPhase /\ sendPhaseFrom' = sendPhaseFrom /\ tidy' = tidy
    BY <1>11
  <2>2. ASSUME NEW m \in Nonces, m <= counter, m \notin reserved'
        PROVE  /\ sealedAs'[m] \in 0 .. sendPhase
               /\ m > sendPhaseFrom => sealedAs'[m] = sendPhase
    <3>1. CASE m = n
      BY <3>1, <2>1, <1>2, <1>4
    <3>2. CASE m # n
      BY <3>2, <2>2, <1>4, <1>5, <1>6, <1>7
    <3> QED BY <3>1, <3>2
  <2>3. ASSUME NEW q \in 1 .. sendPhase, NEW m \in Nonces, sealedAs'[m] \in 0 .. q - 1
        PROVE  m <= f[q]
    <3>1. m # n
      BY <2>3, <2>1, <1>2, <1>4
    <3> QED BY <3>1, <2>3, <1>4, <1>5
  <2>4. Story(f, lost)'
    BY <2>1, <2>2, <2>3, <1>3, <1>5, <1>8 DEF Story
  <2>5. ASSUME tidy' PROVE TidyStory(f, lost)'
    <3>1. TidyStory(f, lost)
      BY <2>1, <2>5
    <3>2. ASSUME NEW q \in 1 .. sendPhase - 1
          PROVE  Cardinality(Own(f, q)') >= MinPacketsBetweenUpdates
      <4>1. q # sendPhase /\ q \in Nat
        BY <1>2
      <4>2. ASSUME NEW m \in Nonces PROVE sealedAs'[m] = q <=> sealedAs[m] = q
        BY <4>1, <2>1, <1>2, <1>4
      <4>3. Own(f, q)' = Own(f, q)
        BY <4>2 DEF Own
      <4> QED BY <4>3, <3>1 DEF TidyStory
    <3>3. ASSUME NEW m \in Nonces, sealedAs'[m] > recvPhase, accepted[m] = 0, m \notin net',
                 m \notin lost, m > f[sealedAs'[m]]
          PROVE  m <= f[sealedAs'[m]] + ReorderWindow
      <4>1. m \notin net /\ sealedAs'[m] = sealedAs[m]
        BY <3>3, <1>3, <1>4
      <4> QED BY <4>1, <3>1, <3>3 DEF TidyStory
    <3> QED BY <2>1, <3>1, <3>2, <3>3, <1>3 DEF TidyStory
  <2> QED BY <2>4, <2>5, <1>5 DEF StoryInv
<1> QED BY <1>10, <1>11 DEF Seal

\* A packet of a phase the receiver has not reached is dropped only among the first of
\* its phase: one of the phase in between is still on its way and was not overtaken
\* by more than the network reorders.
LEMMA DeliverStory ==
    ASSUME Inv, NEW f, NEW lost, Story(f, lost), tidy => TidyStory(f, lost),
           NEW n \in Nonces, Deliver(n)
    PROVE  StoryInv'
<1>1. /\ n \in net /\ net \ {n} \subseteq net' /\ net' \subseteq net
      /\ \A m \in net : accepted[m] = 0 => n - m <= ReorderWindow
      /\ UNCHANGED <<sentCounter, sendPhase, sendPhaseFrom, sendPhaseAged, reserved,
                     pings, sealedAs, tidy, losses>>
  BY DEF Deliver, sender
<1>2. /\ MaxPN \in Nat /\ ReorderWindow \in Nat /\ recvPhase \in Nat /\ sendPhase \in Nat
      /\ accepted \in [Nonces -> {0, 1}] /\ sealedAs[n] # Unsealed /\ n \in Nat
      /\ sealedAs[n] \in 0 .. sendPhase /\ sealedAs[n] \in Nat
  <2>1. sealedAs[n] # Unsealed
    BY <1>1 DEF Inv, NetworkInv
  <2>2. sealedAs[n] \in 0 .. sendPhase
    BY <2>1, SealedType
  <2> QED BY <2>1, <2>2, NetworkAssumption DEF Inv, SenderInv, ReceiverInv, Exact, Phases, Nonces
<1>3. /\ f \in [Nat -> Nat] /\ lost \subseteq Nonces
      /\ \A m \in Nonces : accepted[m] # 0 => sealedAs[m] \in 0 .. recvPhase
      /\ \A q \in 1 .. sendPhase, m \in Nonces : sealedAs[m] \in 0 .. q - 1 => m <= f[q]
  BY DEF Story
<1>4. ASSUME recvPhase' \in Nat, recvPhase <= recvPhase',
             \A m \in Nonces : accepted'[m] # 0 => sealedAs[m] \in 0 .. recvPhase'
      PROVE  Story(f, lost)'
  BY <1>1, <1>4 DEF Story
<1>5. CASE receiveApplication(n)
  <2>1. /\ Opens(n) /\ accepted' = [accepted EXCEPT ![n] = @ + 1]
        /\ \/ KeyFor(n) = recvPhase + 1 /\ recvPhase' = recvPhase + 1
           \/ KeyFor(n) # recvPhase + 1 /\ recvPhase' = recvPhase
    BY <1>5 DEF receiveApplication, commitRecvPhaseLocked
  <2>2. /\ recvPhase' \in Nat /\ recvPhase <= recvPhase' /\ sealedAs[n] <= recvPhase'
    <3>1. sealedAs[n] \in {recvPhase, recvPhase - 1, recvPhase + 1}
      BY <2>1 DEF Opens, KeyFor
    <3> QED BY <2>1, <3>1, <1>2 DEF Opens
  <2>3. /\ accepted'[n] # 0 /\ \A m \in Nonces : m # n => accepted'[m] = accepted[m]
    BY <2>1, <1>2
  <2>4. ASSUME NEW m \in Nonces, accepted'[m] # 0 PROVE sealedAs[m] \in 0 .. recvPhase'
    <3>1. CASE m = n
      BY <3>1, <2>2, <1>2
    <3>2. CASE m # n
      <4>1. sealedAs[m] \in 0 .. recvPhase
        BY <3>2, <2>3, <2>4, <1>3
      <4> QED BY <4>1, <2>2, <1>2
    <3> QED BY <3>1, <3>2
  <2>5. Story(f, lost)'
    BY <2>2, <2>4, <1>4
  <2>6. ASSUME tidy' PROVE TidyStory(f, lost)'
    <3>1. TidyStory(f, lost)
      BY <2>6, <1>1
    <3>2. ASSUME NEW m \in Nonces, sealedAs[m] > recvPhase', accepted'[m] = 0, m \notin net',
                 m \notin lost, m > f[sealedAs[m]]
          PROVE  m <= f[sealedAs[m]] + ReorderWindow
      <4>1. m # n /\ m \notin net /\ accepted[m] = 0
        BY <3>2, <2>3, <1>1
      <4>2. sealedAs[m] > recvPhase
        <5>1. sealedAs[m] \in Int
          BY <1>2 DEF Inv, SenderInv, Phases, Unsealed
        <5> QED BY <5>1, <3>2, <2>2, <1>2
      <4> QED BY <3>1, <3>2, <4>1, <4>2 DEF TidyStory
    <3>3. \A q : Own(f, q)' = Own(f, q)
      BY <1>1 DEF Own
    <3> QED BY <3>1, <3>2, <3>3, <1>1 DEF TidyStory
  <2> QED BY <2>5, <2>6, <1>3 DEF StoryInv
<1>6. CASE receiveDropped(n)
  <2>1. /\ ~ (Usable(recvTracker, n) /\ Opens(n))
        /\ UNCHANGED <<recvTracker, recvPhase, recvPhaseFrom, prevKey, accepted>>
    BY <1>6 DEF receiveDropped, receiver
  <2>2. Story(f, lost)'
    BY <2>1, <1>2, <1>3, <1>4
  <2>3. ASSUME tidy' PROVE TidyStory(f, lost)'
    <3>1. TidyStory(f, lost)
      BY <2>3, <1>1
    <3>2. ASSUME sealedAs[n] > recvPhase, accepted[n] = 0, n > f[sealedAs[n]]
          PROVE  n <= f[sealedAs[n]] + ReorderWindow
      <4> DEFINE q == sealedAs[n]
      <4>1. q \in 1 .. sendPhase /\ f[q] \in Nat
        BY <3>2, <1>2, <1>3
      <4>2. Usable(recvTracker, n)
        <5>1. /\ Apart(recvTracker.unused) /\ recvTracker.largest \in 0 .. MaxPN
              /\ \A m \in Nat : Unused(recvTracker.unused, m)
                                   <=> m \in 1 .. recvTracker.largest /\ accepted[m] = 0
          BY DEF Inv, Exact
        <5>2. DOMAIN recvTracker.unused = 1 .. Len(recvTracker.unused)
          BY <5>1, ApartFacts
        <5>3. CASE n > recvTracker.largest
          BY <5>3 DEF Usable
        <5>4. CASE ~ (n > recvTracker.largest)
          <6>1. n \in 1 .. recvTracker.largest
            BY <5>1, <5>4, <1>2 DEF Nonces
          <6>2. Unused(recvTracker.unused, n)
            BY <5>1, <6>1, <3>2, <1>2
          <6> QED BY <5>2, <6>2 DEF Usable, Holding, Unused
        <5> QED BY <5>3, <5>4
      <4>3. ~ Opens(n)
        BY <2>1, <4>2
      <4>4. CASE q = recvPhase + 1
        <5>1. (recvPhase + 1) % 2 # recvPhase % 2
          BY <1>2
        <5>2. ~ (n < recvPhaseFrom /\ prevKey = "kept")
          <6> SUFFICES ASSUME n < recvPhaseFrom, prevKey = "kept" PROVE FALSE
            OBVIOUS
          <6>1. recvPhaseFrom \in Nonces /\ sealedAs[recvPhaseFrom] = recvPhase
            BY DEF Inv, ReceiverInv
          <6>2. sealedAs[recvPhaseFrom] \in 0 .. q - 1
            BY <6>1, <4>4, <1>2
          <6>3. recvPhaseFrom <= f[q]
            BY <6>1, <6>2, <4>1, <1>3
          <6> QED BY <6>1, <6>3, <4>1, <3>2, <1>2 DEF Nonces
        <5>3. KeyFor(n) = recvPhase + 1
          BY <5>1, <5>2, <4>4 DEF KeyFor
        <5> QED BY <5>3, <4>3, <4>4 DEF Opens
      <4>5. CASE q # recvPhase + 1
        <5>1. sendPhase > recvPhase + 1 /\ recvPhase + 1 \in 0 .. q - 1
          BY <4>5, <3>2, <1>2
        <5>2. PICK m \in net : sealedAs[m] = recvPhase + 1 /\ accepted[m] = 0
          BY <5>1, <3>1, StoryNotStranded
        <5>3. m \in Nonces /\ m \in Nat /\ n - m <= ReorderWindow
          BY <5>2, <1>1 DEF Inv, NetworkInv, Nonces
        <5>4. m <= f[q]
          BY <5>1, <5>2, <5>3, <4>1, <1>3
        <5> QED BY <5>3, <5>4, <4>1, <1>2
      <4> QED BY <4>4, <4>5
    <3>3. ASSUME NEW m \in Nonces, sealedAs[m] > recvPhase, accepted[m] = 0, m \notin net',
                 m \notin lost, m > f[sealedAs[m]]
          PROVE  m <= f[sealedAs[m]] + ReorderWindow
      <4>1. CASE m = n
        BY <4>1, <3>2, <3>3
      <4>2. CASE m # n
        <5>1. m \notin net
          BY <4>2, <3>3, <1>1
        <5> QED BY <5>1, <3>1, <3>3 DEF TidyStory
      <4> QED BY <4>1, <4>2
    <3>4. \A q : Own(f, q)' = Own(f, q)
      BY <1>1 DEF Own
    <3> QED BY <3>1, <3>3, <3>4, <2>1, <1>1 DEF TidyStory
  <2> QED BY <2>2, <2>3, <1>3 DEF StoryInv
<1> QED BY <1>5, <1>6 DEF Deliver

\* UpdateKey begins a phase without sealing anything.
LEMMA UpdateKeyStory ==
    ASSUME Inv, NEW f, NEW lost, Story(f, lost), tidy => TidyStory(f, lost), UpdateKey
    PROVE  StoryInv'
<1>1. /\ sendPhase > 0 => canUpdateLocked(sentCounter)
      /\ sendPhase' = sendPhase + 1 /\ sendPhaseFrom' = sentCounter
      /\ tidy' = (tidy /\ reserved = {} /\ pings = 0)
      /\ UNCHANGED <<sentCounter, reserved, sealedAs, recvTracker, recvPhase, recvPhaseFrom,
                     prevKey, accepted, net, losses, repeats>>
  BY DEF UpdateKey, ratchetSendLocked, receiver, network
<1>2. /\ MaxPN \in Nat /\ sentCounter \in 0 .. MaxPN /\ sentCounter \in Nat /\ sendPhase \in Nat
      /\ sealedAs \in [Nonces -> Phases \cup {Unsealed}] /\ Unsealed \notin Nat /\ tidy \in BOOLEAN
      /\ \A m \in Nonces : sealedAs[m] # Unsealed => m <= sentCounter
      /\ recvPhase \in Nat
  BY NetworkAssumption DEF Inv, SenderInv, ReceiverInv, Phases, Unsealed
<1>3. /\ f \in [Nat -> Nat] /\ f[sendPhase] = sendPhaseFrom
      /\ lost \subseteq Nonces /\ Cardinality(lost) <= losses
      /\ \A m \in Nonces : m <= sentCounter /\ m \notin reserved => sealedAs[m] \in 0 .. sendPhase
      /\ \A m \in Nonces : accepted[m] # 0 => sealedAs[m] \in 0 .. recvPhase
      /\ \A q \in 1 .. sendPhase, m \in Nonces : sealedAs[m] \in 0 .. q - 1 => m <= f[q]
  BY DEF Story
<1>4. PICK g \in [Nat -> Nat] : /\ g[sendPhase + 1] = sentCounter
                               /\ \A q \in 0 .. sendPhase : g[q] = f[q]
  <2>1. sendPhase + 1 \in Nat /\ \A q \in 0 .. sendPhase : q \in Nat /\ q # sendPhase + 1
    BY <1>2
  <2> DEFINE h == [f EXCEPT ![sendPhase + 1] = sentCounter]
  <2>2. /\ h \in [Nat -> Nat] /\ h[sendPhase + 1] = sentCounter
        /\ \A q \in 0 .. sendPhase : h[q] = f[q]
    BY <1>2, <1>3, <2>1
  <2> HIDE DEF h
  <2> QED BY <2>2
<1>5. Story(g, lost)'
  <2>1. ASSUME NEW m \in Nonces, m <= sentCounter, m \notin reserved
        PROVE  sealedAs[m] \in 0 .. sendPhase + 1 /\ ~ (m > sentCounter)
    <3>1. sealedAs[m] \in 0 .. sendPhase
      BY <2>1, <1>3
    <3> QED BY <3>1, <2>1, <1>2 DEF Nonces
  <2>2. ASSUME NEW q \in 1 .. sendPhase + 1, NEW m \in Nonces, sealedAs[m] \in 0 .. q - 1
        PROVE  m <= g[q]
    <3>1. CASE q = sendPhase + 1
      <4>1. sealedAs[m] # Unsealed
        BY <2>2, <1>2
      <4> QED BY <4>1, <3>1, <1>2, <1>4
    <3>2. CASE q \in 1 .. sendPhase
      <4>1. q \in 0 .. sendPhase
        BY <3>2, <1>2
      <4> QED BY <3>2, <4>1, <2>2, <1>3, <1>4
    <3> QED BY <3>1, <3>2, <1>2
  <2> QED BY <2>1, <2>2, <1>1, <1>3, <1>4 DEF Story
<1>6. ASSUME tidy' PROVE TidyStory(g, lost)'
  <2>1. tidy /\ reserved = {} /\ TidyStory(f, lost)
    BY <1>1, <1>2, <1>6
  <2>2. PICK p \in Nat : p = sendPhase
    BY <1>2
  <2>3. ASSUME NEW q \in 0 .. p PROVE Own(g, q)' = Own(f, q)
    BY <2>2, <1>1, <1>4 DEF Own
  <2>4. ASSUME p > 0 PROVE Cardinality(Own(f, p)) >= MinPacketsBetweenUpdates
    <3>1. sentCounter >= sendPhaseFrom + MinPacketsBetweenUpdates
      BY <2>2, <2>4, <1>1 DEF canUpdateLocked
    <3>2. 0 \notin sendPhaseFrom + 1 .. sentCounter
      BY <1>2 DEF Inv, SenderInv
    <3>3. \A m \in Nonces : m <= sentCounter /\ m # 0 => m <= sentCounter /\ m \notin reserved
      BY <2>1
    <3>4. Cardinality(Own(f, sendPhase) \ {0}) >= MinPacketsBetweenUpdates
      BY <3>1, <3>2, <3>3, <1>2, PhaseHadItsFloor
    <3>5. Own(f, sendPhase) \ {0} = Own(f, p)
      BY <2>2 DEF Own, Nonces
    <3> QED BY <3>4, <3>5
  <2>5. ASSUME NEW q \in 1 .. sendPhase' - 1
        PROVE  Cardinality(Own(g, q)') >= MinPacketsBetweenUpdates
    <3>1. q \in 0 .. p /\ (q = p \/ q \in 1 .. sendPhase - 1)
      BY <2>2, <1>1, <1>2
    <3>2. CASE q = p
      <4>1. p > 0
        BY <3>2, <2>2, <1>1, <1>2
      <4> QED BY <3>1, <3>2, <4>1, <2>3, <2>4
    <3>3. CASE q \in 1 .. sendPhase - 1
      BY <3>1, <3>3, <2>1, <2>3 DEF TidyStory
    <3> QED BY <3>1, <3>2, <3>3
  <2>6. ASSUME NEW m \in Nonces, sealedAs[m] > recvPhase, accepted[m] = 0, m \notin net,
               m \notin lost, m > g[sealedAs[m]]
        PROVE  m <= g[sealedAs[m]] + ReorderWindow
    <3>1. sealedAs[m] # Unsealed
      BY <2>6, <1>2 DEF Unsealed
    <3>2. g[sealedAs[m]] = f[sealedAs[m]]
      BY <3>1, <1>4, SealedType
    <3> QED BY <3>2, <2>1, <2>6 DEF TidyStory
  <2> QED BY <2>1, <2>5, <2>6, <1>1 DEF TidyStory
<1> QED BY <1>3, <1>5, <1>6 DEF StoryInv

\* The story goes on whatever happens.
LEMMA StoryInvariance == Spec => []StoryInv
<1>1. Init => StoryInv
  <2> SUFFICES ASSUME Init PROVE StoryInv
    OBVIOUS
  <2> DEFINE f == [q \in Nat |-> 0]
  <2>1. f \in [Nat -> Nat] /\ f[0] = 0 /\ {} \in SUBSET Nonces /\ Cardinality({}) = 0
    BY FS_EmptySet
  <2>2. \A n \in Nonces : n \in Nat /\ n > 0 /\ sealedAs[n] = Unsealed /\ accepted[n] = 0 /\ Unsealed \notin Nat
    BY NetworkAssumption DEF Init, Nonces, Unsealed
  <2> HIDE DEF f
  <2>3. Story(f, {})
    BY <2>1, <2>2 DEF Init, Story
  <2>4. TidyStory(f, {})
    BY <2>1, <2>2 DEF Init, TidyStory, Unsealed
  <2> QED BY <2>1, <2>3, <2>4 DEF StoryInv
<1>2. Inv /\ StoryInv /\ [Next]_vars => StoryInv'
  <2> SUFFICES ASSUME Inv, StoryInv, [Next]_vars PROVE StoryInv'
    OBVIOUS
  <2>1. PICK f \in [Nat -> Nat], lost \in SUBSET Nonces :
              Story(f, lost) /\ (tidy => TidyStory(f, lost))
    BY DEF StoryInv
  <2>2. /\ MaxPN \in Nat /\ sentCounter \in 0 .. MaxPN /\ reserved \subseteq 1 .. sentCounter
        /\ sendPhaseFrom \in 0 .. sentCounter
    BY NetworkAssumption DEF Inv, SenderInv
  <2>3. sentCounter < MaxPN => /\ sentCounter + 1 \in Nonces /\ sentCounter + 1 \in 1 .. MaxPN
                               /\ sealedAs[sentCounter + 1] = Unsealed
                               /\ sentCounter + 1 \notin reserved
                               /\ sentCounter + 1 <= sentCounter + 1
    BY <2>2 DEF Inv, SenderInv, Nonces
  <2>4. ASSUME UNCHANGED <<sendPhase, sendPhaseFrom, sealedAs, tidy, recvPhase, accepted,
                           net, losses, reserved, sentCounter>>
        PROVE  StoryInv'
    <3>1. \A q : Own(f, q)' = Own(f, q)
      BY <2>4 DEF Own
    <3>2. Story(f, lost)'
      BY <2>1, <2>4 DEF Story
    <3>3. tidy' => TidyStory(f, lost)'
      BY <2>1, <2>4, <3>1 DEF TidyStory
    <3> QED BY <3>2, <3>3 DEF StoryInv
  <2>5. CASE ConsumePacketNumber
    <3>1. /\ sentCounter < MaxPN /\ sentCounter' = sentCounter + 1
          /\ reserved' = reserved \cup {sentCounter + 1}
          /\ UNCHANGED <<sendPhase, sendPhaseFrom, sealedAs, tidy, recvPhase, accepted, net, losses>>
      BY <2>5 DEF ConsumePacketNumber, receiver, network
    <3>2. \A m \in Nonces : m <= sentCounter + 1 /\ m \notin reserved' => m <= sentCounter /\ m \notin reserved
      BY <3>1, <2>2 DEF Nonces
    <3>3. Story(f, lost)'
      BY <3>1, <3>2, <2>1 DEF Story
    <3>4. ASSUME tidy' PROVE TidyStory(f, lost)'
      <4>1. TidyStory(f, lost)
        BY <3>1, <3>4, <2>1
      <4>2. \A q : Own(f, q)' = Own(f, q)
        BY <3>1 DEF Own
      <4>3. \A n \in reserved' : n > sendPhaseFrom
        BY <3>1, <4>1, <2>2 DEF TidyStory
      <4> QED BY <3>1, <4>1, <4>2, <4>3 DEF TidyStory
    <3> QED BY <3>3, <3>4 DEF StoryInv
  <2>6. CASE SendMessage
    <3>1. /\ sentCounter < MaxPN /\ sentCounter' = sentCounter + 1
          /\ Seal(sentCounter + 1, sentCounter + 1)
          /\ reserved' = reserved /\ UNCHANGED receiver
      BY <2>6 DEF SendMessage
    <3>2. reserved' = reserved \ {sentCounter + 1}
      BY <3>1, <2>3
    <3> QED BY <3>1, <3>2, <2>1, <2>3, SealStory
  <2>7. CASE UpdateKey
    BY <2>1, <2>7, UpdateKeyStory
  <2>8. CASE sendControl
    <3>1. /\ sentCounter < MaxPN /\ sentCounter' = sentCounter + 1
          /\ Seal(sentCounter + 1, sentCounter + 1)
          /\ reserved' = reserved /\ UNCHANGED receiver
      BY <2>8 DEF sendControl
    <3>2. reserved' = reserved \ {sentCounter + 1}
      BY <3>1, <2>3
    <3> QED BY <3>1, <3>2, <2>1, <2>3, SealStory
  <2>9. ASSUME NEW n \in Nonces, SendMessageWithPacketNumber(n) PROVE StoryInv'
    <3>1. /\ n \in reserved /\ reserved' = reserved \ {n} /\ Seal(n, sentCounter)
          /\ sentCounter' = sentCounter /\ UNCHANGED receiver
      BY <2>9 DEF SendMessageWithPacketNumber
    <3>2. /\ sealedAs[n] = Unsealed /\ sentCounter \in 1 .. MaxPN /\ n <= sentCounter
      BY <3>1, <2>2 DEF Inv, SenderInv
    <3> QED BY <3>1, <3>2, <2>1, SealStory
  <2>10. ASSUME NEW n \in Nonces, Deliver(n) PROVE StoryInv'
    BY <2>1, <2>10, DeliverStory
  <2>11. ASSUME NEW n \in Nonces, Lose(n) PROVE StoryInv'
    <3>1. /\ losses' = losses + 1 /\ net' = net \ {n}
          /\ UNCHANGED <<sendPhase, sendPhaseFrom, sealedAs, tidy, reserved, sentCounter>>
          /\ UNCHANGED <<recvPhase, accepted>>
      BY <2>11 DEF Lose, sender, receiver
    <3> DEFINE more == lost \cup {n}
    <3>2. more \in SUBSET Nonces /\ Cardinality(more) <= losses + 1
      <4>1. IsFiniteSet(Nonces)
        BY <2>2, FS_Interval DEF Nonces
      <4>2. IsFiniteSet(lost) /\ Cardinality(lost) \in Nat
        BY <4>1, FS_Subset, FS_CardinalityType
      <4>3. Cardinality(more) = IF n \in lost THEN Cardinality(lost) ELSE Cardinality(lost) + 1
        BY <4>2, FS_AddElement
      <4>4. Cardinality(lost) <= losses /\ losses \in Nat
        BY <2>1, NetworkAssumption DEF Story, Inv, NetworkInv
      <4> QED BY <4>2, <4>3, <4>4
    <3>3. \A m : m \notin more <=> m \notin lost /\ m # n
      OBVIOUS
    <3> HIDE DEF more
    <3>4. Story(f, more)'
      BY <3>1, <3>2, <2>1 DEF Story
    <3>5. ASSUME tidy' PROVE TidyStory(f, more)'
      <4>1. TidyStory(f, lost)
        BY <3>1, <3>5, <2>1
      <4>2. \A q : Own(f, q)' = Own(f, q)
        BY <3>1 DEF Own
      <4>3. \A m : m \notin net' /\ m \notin more => m \notin net /\ m \notin lost
        BY <3>1, <3>3
      <4> QED BY <3>1, <4>1, <4>2, <4>3 DEF TidyStory
    <3> QED BY <3>2, <3>4, <3>5 DEF StoryInv
  <2>12. CASE PhaseAges
    BY <2>4, <2>12 DEF PhaseAges, receiver, network
  <2>13. CASE PrevKeyExpires
    BY <2>4, <2>13 DEF PrevKeyExpires, sender, network
  <2>14. CASE UNCHANGED vars
    BY <2>4, <2>14 DEF vars, sender, receiver, network
  <2> QED BY <2>5, <2>6, <2>7, <2>8, <2>9, <2>10, <2>11, <2>12, <2>13, <2>14 DEF Next
<1> QED BY <1>1, <1>2, Invariance, PTL DEF Spec

\* The floor of numbers between two key updates keeps the receiver from being stranded,
\* for every floor, every window of reordering and every number of losses below it
\* (canUpdateLocked, sendApplicationFrame).
THEOREM ChannelNotStranded == Spec => []NotStranded
<1>1. Inv /\ StoryInv => NotStranded
  BY StoryNotStranded DEF StoryInv, NotStranded
<1> QED BY <1>1, Invariance, StoryInvariance, PTL

================================================================================
