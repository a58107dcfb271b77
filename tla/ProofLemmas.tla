----------------------------- MODULE ProofLemmas -----------------------------
(***************************************************************************)
(* Facts that the proofs about several modules need: about numbers, about  *)
(* sequences, and about the comparison with a wildcard pattern.            *)
(***************************************************************************)
EXTENDS Entries, WildMatch, SequenceTheorems, FiniteSetTheorems, TLAPS

(***************************************************************************)
(* Numbers                                                                 *)
(***************************************************************************)
\* A nonempty set of naturals has a least element.
LEMMA MinExists ==
    ASSUME NEW S \in SUBSET Nat, S # {}
    PROVE  \E x \in S : \A y \in S : x <= y
<1> DEFINE R == OpToRel(<, Nat)
<1>1. IsWellFoundedOn(R, Nat)
  BY NatLessThanWellFounded, Zenon
<1>2. R = {ss \in Nat \X Nat : ss[1] < ss[2]}
  BY Zenon DEF OpToRel
<1> HIDE DEF R
<1>3. PICK x \in S : \A y \in S : ~(<<y, x>> \in R)
  BY <1>1, WFMin, Zenon
<1>4. ASSUME NEW a \in Nat, NEW b \in Nat, ~(<<a, b>> \in R)
      PROVE  ~(a < b)
  <2>1. <<a, b>> \in Nat \X Nat
    OBVIOUS
  <2>2. <<a, b>>[1] = a /\ <<a, b>>[2] = b
    OBVIOUS
  <2> QED BY <1>2, <1>4, <2>1, <2>2, Zenon
<1>5. \A y \in S : ~(y < x)
  BY <1>3, <1>4
<1> QED BY <1>5

\* A nonempty set of numbers in an interval has a greatest element.
LEMMA MaxExists ==
    ASSUME NEW lo \in Nat, NEW hi \in Int, NEW S \in SUBSET (lo .. hi), S # {}
    PROVE  \E x \in S : \A y \in S : y <= x
<1> DEFINE T == {hi - i : i \in S}
<1>1. T \in SUBSET Nat /\ T # {}
  OBVIOUS
<1>2. PICK t \in T : \A u \in T : t <= u
  BY <1>1, MinExists
<1>3. PICK x \in S : t = hi - x
  BY <1>2
<1>4. \A y \in S : hi - x <= hi - y
  BY <1>2, <1>3
<1>5. \A y \in S : y <= x
  BY <1>4
<1> QED BY <1>5

\* A least and a greatest element are the ones Min and Max choose.
LEMMA MinIs ==
    ASSUME NEW S \in SUBSET Int, NEW n \in S, \A k \in S : n <= k
    PROVE  Min(S) = n
<1>1. \A x \in S : (\A k \in S : x <= k) => x = n
  OBVIOUS
<1> QED BY <1>1, Zenon DEF Min

LEMMA MaxIs ==
    ASSUME NEW S \in SUBSET Int, NEW n \in S, \A k \in S : k <= n
    PROVE  Max(S) = n
<1>1. \A k \in S : n >= k
  BY SMT
<1>2. \A x \in S : (\A k \in S : x >= k) => x = n
  OBVIOUS
<1> QED BY <1>1, <1>2, Zenon DEF Max

\* Induction up to a number, over a set.
LEMMA Upward ==
    ASSUME NEW n \in Nat, NEW A, 0 \in A, \A k \in 0 .. n : k \in A /\ k # n => k + 1 \in A
    PROVE  0 .. n \subseteq A
<1> DEFINE B == (0 .. n) \ A
<1> SUFFICES ASSUME B # {} PROVE FALSE
  OBVIOUS
<1>1. B \in SUBSET Nat
  OBVIOUS
<1>2. PICK m \in B : \A x \in B : m <= x
  BY <1>1, MinExists
<1>3. m \in 0 .. n /\ m \notin A /\ m # 0
  OBVIOUS
<1>4. m - 1 \in 0 .. n /\ m - 1 # n /\ ~(m <= m - 1) /\ (m - 1) + 1 = m
  BY <1>3
<1>5. m - 1 \in A
  BY <1>2, <1>4
<1> HIDE DEF B
<1> QED BY <1>3, <1>4, <1>5

\* A function defined by steps from one number to the next.
Stepped(f, n, x, step) == f[0] = x /\ \A k \in 1 .. n : f[k] = step[k][f[k - 1]]

LEMMA Stepwise ==
    ASSUME NEW n \in Nat, NEW S, NEW x \in S, NEW step \in [1 .. n -> [S -> S]]
    PROVE  \E f \in [0 .. n -> S] : Stepped(f, n, x, step)
<1> USE DEF Stepped
<1> DEFINE Up(f, m) == f[0] = x /\ \A k \in 1 .. m : f[k] = step[k][f[k - 1]]
           A == {m \in 0 .. n : \E f \in [0 .. m -> S] : Up(f, m)}
<1>1. 0 \in A
  <2> DEFINE e == [k \in 0 .. 0 |-> x]
  <2>1. e \in [0 .. 0 -> S] /\ Up(e, 0)
    OBVIOUS
  <2> HIDE DEF e, Up
  <2>2. 0 \in 0 .. n
    OBVIOUS
  <2> QED BY <2>1, <2>2
<1>2. ASSUME NEW m \in 0 .. n, m \in A, m # n PROVE m + 1 \in A
  <2>1. PICK g \in [0 .. m -> S] : Up(g, m)
    BY <1>2
  <2> DEFINE f == [k \in 0 .. m + 1 |-> IF k = m + 1 THEN step[m + 1][g[m]] ELSE g[k]]
  <2>2. m + 1 \in 1 .. n /\ g[m] \in S /\ m \in Nat
    BY <1>2
  <2>3. step[m + 1][g[m]] \in S
    BY <2>2
  <2>4. f \in [0 .. m + 1 -> S]
    BY <2>2, <2>3
  <2>5. \A k \in 0 .. m : f[k] = g[k]
    BY <2>2
  <2>6. f[m + 1] = step[m + 1][g[m]]
    BY <2>2
  <2> HIDE DEF f
  <2>7. ASSUME NEW k \in 1 .. m + 1 PROVE f[k] = step[k][f[k - 1]]
    <3>1. CASE k = m + 1
      BY <2>2, <2>5, <2>6, <3>1
    <3>2. CASE k # m + 1
      <4>1. k \in 1 .. m /\ k \in 0 .. m /\ k - 1 \in 0 .. m
        BY <2>2, <3>2
      <4> QED BY <2>1, <2>5, <4>1
    <3> QED BY <3>1, <3>2
  <2>8. f[0] = x
    BY <2>1, <2>2, <2>5
  <2> QED BY <2>2, <2>4, <2>7, <2>8
<1>3. 0 .. n \subseteq A
  <2> HIDE DEF A
  <2> QED BY <1>1, <1>2, Upward
<1>4. n \in 0 .. n
  OBVIOUS
<1> QED BY <1>3, <1>4

\* Every step goes up to the next place of a set, so every place above is reached.
Climbs(at, n, V) ==
    \A k \in 0 .. n - 1 : at[k] \in V =>
       /\ at[k + 1] \in V
       /\ \A v \in V : at[k] < v => at[k] < at[k + 1] /\ at[k + 1] <= v
Climbed(at, n, V, c) ==
    \A v \in V : at[c] <= v /\ c + v - at[c] <= n =>
       \E k \in c .. (c + v - at[c]) : at[k] = v

LEMMA Climb ==
    ASSUME NEW n \in Nat, NEW V \in SUBSET (1 .. n), NEW at, Climbs(at, n, V),
           NEW c \in Nat, at[c] \in V
    PROVE  Climbed(at, n, V, c)
<1> DEFINE a == at[c]
           Got(v) == \E k \in c .. (c + v - a) : at[k] = v
           Bad == {v \in V : a <= v /\ c + v - a <= n /\ ~Got(v)}
<1> SUFFICES ASSUME Bad # {} PROVE FALSE
  BY DEF Climbed
<1>0. a \in V /\ at[c] = a
  OBVIOUS
<1> HIDE DEF a
<1> HIDE DEF Got
<1>1. Bad \in SUBSET Nat
  <2>1. \A v \in V : v \in Nat
    OBVIOUS
  <2> QED BY <2>1, Zenon
<1>2. PICK v \in Bad : \A u \in Bad : v <= u
  <2> HIDE DEF Bad
  <2> QED BY <1>1, MinExists
<1>3. v \in V /\ v \in 1 .. n /\ a \in 1 .. n /\ a <= v /\ c + v - a <= n /\ ~Got(v)
  BY <1>0
<1> USE DEF Got
<1>4. a # v
  BY <1>0, <1>3
<1> HIDE DEF Got, Bad
<1> DEFINE Low == {u \in V : a <= u /\ u < v}
<1>5. Low \in SUBSET Nat /\ a \in Low /\ \A u \in Low : u <= n
  <2>1. \A u \in V : u \in Nat /\ u <= n
    OBVIOUS
  <2>2. a < v /\ a <= a
    BY <1>3, <1>4
  <2> QED BY <1>0, <2>1, <2>2
<1>6. PICK u \in Low : \A w \in Low : w <= u
  <2> HIDE DEF Low, Bad
  <2>1. Low # {} /\ Low \in SUBSET (0 .. n) /\ 0 \in Nat /\ n \in Int
    BY <1>5
  <2> QED BY <2>1, MaxExists, Zenon
<1>7. u \in V /\ u \in 1 .. n /\ a <= u /\ u < v
  BY <1>6
<1>8. Got(u)
  <2>1. c + u - a <= n
    BY <1>3, <1>7
  <2>2. ~(v <= u)
    BY <1>3, <1>7
  <2>3. u \notin Bad
    BY <1>2, <2>2, Zenon
  <2> QED BY <1>7, <2>1, <2>3, Zenon DEF Bad
<1>9. PICK k \in c .. (c + u - a) : at[k] = u
  BY <1>8 DEF Got
<1>10. k \in 0 .. n - 1 /\ k + 1 \in c .. (c + v - a)
  BY <1>3, <1>7
<1>11. /\ at[k + 1] \in V
       /\ u < at[k + 1] /\ at[k + 1] <= v
  BY <1>3, <1>7, <1>9, <1>10 DEF Climbs
<1>12. at[k + 1] = v
  <2> DEFINE w == at[k + 1]
  <2>1. w \in V /\ w \in 1 .. n /\ u < w /\ w <= v
    BY <1>11
  <2> HIDE DEF w
  <2>2. w \in Low => w <= u
    BY <1>6, Zenon
  <2>3. w < v => w \in Low
    BY <1>3, <1>7, <2>1
  <2>4. w = v
    BY <1>3, <1>7, <2>1, <2>2, <2>3
  <2> QED BY <2>4 DEF w
<1> QED BY <1>3, <1>10, <1>12, Zenon DEF Got

(***************************************************************************)
(* Sequences                                                               *)
(***************************************************************************)
\* The elements of a sequence.
LEMMA ToSetOfSeq ==
    ASSUME NEW S, NEW s \in Seq(S)
    PROVE  /\ ToSet(s) \subseteq S
           /\ \A i \in 1 .. Len(s) : s[i] \in ToSet(s)
           /\ \A x \in ToSet(s) : \E i \in 1 .. Len(s) : x = s[i]
<1>1. DOMAIN s = 1 .. Len(s)
  BY LenProperties
<1> QED BY <1>1 DEF ToSet

\* The elements of two sequences one after the other.
LEMMA ToSetOfConcat ==
    ASSUME NEW S, NEW s \in Seq(S), NEW t \in Seq(S)
    PROVE  ToSet(s \o t) = ToSet(s) \cup ToSet(t)
<1>1. /\ s \o t \in Seq(S) /\ Len(s \o t) = Len(s) + Len(t)
      /\ Len(s) \in Nat /\ Len(t) \in Nat
      /\ \A i \in 1 .. Len(s) : (s \o t)[i] = s[i]
      /\ \A i \in 1 .. Len(t) : (s \o t)[Len(s) + i] = t[i]
  OBVIOUS
<1>2. ASSUME NEW x \in ToSet(s \o t)
      PROVE  x \in ToSet(s) \cup ToSet(t)
  <2>1. PICK i \in 1 .. Len(s \o t) : x = (s \o t)[i]
    BY <1>1, ToSetOfSeq
  <2>2. CASE i <= Len(s)
    BY <1>1, <2>1, <2>2, ToSetOfSeq
  <2>3. CASE i > Len(s)
    <3>1. i - Len(s) \in 1 .. Len(t) /\ x = t[i - Len(s)]
      BY <1>1, <2>1, <2>3
    <3> QED BY <3>1, ToSetOfSeq
  <2> QED BY <1>1, <2>2, <2>3
<1>3. ASSUME NEW x \in ToSet(s)
      PROVE  x \in ToSet(s \o t)
  <2>1. PICK i \in 1 .. Len(s) : x = s[i]
    BY ToSetOfSeq
  <2>2. i \in 1 .. Len(s \o t) /\ x = (s \o t)[i]
    BY <1>1, <2>1
  <2> QED BY <1>1, <2>2, ToSetOfSeq
<1>4. ASSUME NEW x \in ToSet(t)
      PROVE  x \in ToSet(s \o t)
  <2>1. PICK i \in 1 .. Len(t) : x = t[i]
    BY ToSetOfSeq
  <2>2. Len(s) + i \in 1 .. Len(s \o t) /\ x = (s \o t)[Len(s) + i]
    BY <1>1, <2>1
  <2> QED BY <1>1, <2>2, ToSetOfSeq
<1> QED BY <1>2, <1>3, <1>4

\* A sequence put in the place of the first element of another.
LEMMA ReplaceHead ==
    ASSUME NEW S, NEW s \in Seq(S), NEW c \in Seq(S), c # << >>
    PROVE  /\ s \o Tail(c) \in Seq(S)
           /\ Len(s \o Tail(c)) = Len(s) + Len(c) - 1
           /\ \A i \in 1 .. Len(s) : (s \o Tail(c))[i] = s[i]
           /\ \A i \in 1 .. Len(s) + Len(c) - 1 : i > Len(s) =>
                 /\ i - Len(s) + 1 \in 2 .. Len(c)
                 /\ (s \o Tail(c))[i] = c[i - Len(s) + 1]
<1>1. /\ Tail(c) \in Seq(S) /\ Len(Tail(c)) = Len(c) - 1
      /\ Len(c) \in Nat /\ Len(c) >= 1 /\ Len(s) \in Nat
      /\ \A i \in 1 .. Len(Tail(c)) : Tail(c)[i] = c[i + 1]
  BY HeadTailProperties, EmptySeq
<1>2. /\ s \o Tail(c) \in Seq(S)
      /\ Len(s \o Tail(c)) = Len(s) + Len(Tail(c))
      /\ \A i \in 1 .. Len(s) + Len(Tail(c)) :
            (s \o Tail(c))[i] = IF i <= Len(s) THEN s[i] ELSE Tail(c)[i - Len(s)]
  BY <1>1, ConcatProperties
<1>3. ASSUME NEW i \in 1 .. Len(s) + Len(c) - 1, i > Len(s)
      PROVE  /\ i - Len(s) + 1 \in 2 .. Len(c)
             /\ (s \o Tail(c))[i] = c[i - Len(s) + 1]
  <2>1. /\ i - Len(s) + 1 \in 2 .. Len(c) /\ i - Len(s) \in 1 .. Len(c) - 1
        /\ ~(i <= Len(s)) /\ i \in 1 .. Len(s) + (Len(c) - 1)
    BY <1>1, <1>3
  <2>2. (s \o Tail(c))[i] = Tail(c)[i - Len(s)]
    BY <1>1, <1>2, <2>1
  <2>3. Tail(c)[i - Len(s)] = c[i - Len(s) + 1]
    BY <1>1, <2>1
  <2> QED BY <2>1, <2>2, <2>3
<1>4. \A i \in 1 .. Len(s) : (s \o Tail(c))[i] = s[i]
  BY <1>1, <1>2
<1>5. Len(s \o Tail(c)) = Len(s) + Len(c) - 1
  BY <1>1, <1>2
<1> QED BY <1>2, <1>3, <1>4, <1>5

\* An order of a finite set has each of its elements once.
LEMMA OrderOfSet ==
    ASSUME NEW S, IsFiniteSet(S), NEW s \in SetToSeqs(S)
    PROVE  /\ s \in Seq(S) /\ ToSet(s) = S
           /\ \A i, j \in 1 .. Len(s) : s[i] = s[j] => i = j
<1> DEFINE n == Cardinality(S)
<1>1. n \in Nat
  BY FS_CardinalityType
<1>2. s \in [1 .. n -> S] /\ \A i, j \in 1 .. n : i # j => s[i] # s[j]
  BY DEF SetToSeqs
<1>3. s \in Seq(S) /\ Len(s) = n
  BY <1>1, <1>2
<1>4. s \in Injection(1 .. n, S)
  BY <1>2 DEF Injection, IsInjective
<1>5. s \in Surjection(1 .. n, S)
  <2>1. IsFiniteSet(1 .. n) /\ Cardinality(1 .. n) = n
    BY <1>1, FS_Interval
  <2> QED BY <1>4, <2>1, FS_Injection
<1>6. \A x \in S : \E i \in 1 .. n : s[i] = x
  BY <1>5 DEF Surjection
<1>7. ToSet(s) = S
  <2> HIDE DEF n
  <2>1. /\ ToSet(s) \subseteq S /\ \A i \in 1 .. n : s[i] \in ToSet(s)
    BY <1>3, ToSetOfSeq
  <2> QED BY <1>6, <2>1
<1> QED BY <1>2, <1>3, <1>7

\* A finite set of numbers has an order in which they grow.  Of the subsets that
\* had none, take one with the fewest elements, and its least element away.
Growing(s) == \A i, j \in DOMAIN s : i < j => s[i] < s[j]

LEMMA GrowingPrepend ==
    ASSUME NEW T \in SUBSET Nat, IsFiniteSet(T), NEW m \in T, \A x \in T : m <= x,
           NEW s \in SetToSeqs(T \ {m}), Growing(s)
    PROVE  \E t \in SetToSeqs(T) : Growing(t)
<1> DEFINE n == Cardinality(T)
           t == [i \in 1 .. n |-> IF i = 1 THEN m ELSE s[i - 1]]
<1>1. /\ IsFiniteSet(T \ {m}) /\ n \in Nat
      /\ Cardinality(T \ {m}) = n - 1
  BY FS_RemoveElement, FS_CardinalityType
<1>2. n # 0
  BY FS_EmptySet
<1>3. /\ s \in [1 .. n - 1 -> T \ {m}]
      /\ \A i, j \in 1 .. n - 1 : i # j => s[i] # s[j]
  BY <1>1 DEF SetToSeqs
<1> HIDE DEF n
<1>4. ASSUME NEW i \in 2 .. n
      PROVE  i - 1 \in 1 .. n - 1 /\ t[i] = s[i - 1] /\ t[i] \in T \ {m}
  BY <1>1, <1>3
<1>5. t[1] = m
  BY <1>1, <1>2
<1>6. t \in [1 .. n -> T]
  <2>1. ASSUME NEW i \in 1 .. n
        PROVE  (IF i = 1 THEN m ELSE s[i - 1]) \in T
    <3>1. i = 1 \/ i - 1 \in 1 .. n - 1
      BY <1>1
    <3> QED BY <1>3, <3>1
  <2> QED BY <2>1
<1> HIDE DEF t
<1>7. ASSUME NEW i \in 1 .. n, NEW j \in 1 .. n, i < j
      PROVE  t[i] < t[j]
  <2>1. j \in 2 .. n
    BY <1>1, <1>7
  <2>2. CASE i = 1
    <3>1. m <= t[j] /\ m # t[j] /\ m \in Nat /\ t[j] \in Nat
      BY <1>4, <2>1
    <3> QED BY <1>5, <2>2, <3>1
  <2>3. CASE i # 1
    <3>1. i \in 2 .. n /\ i - 1 < j - 1
      BY <1>1, <1>7, <2>3
    <3> QED BY <1>3, <1>4, <2>1, <3>1 DEF Growing
  <2> QED BY <2>2, <2>3
<1>8. \A i, j \in 1 .. n : i # j => t[i] # t[j]
  <2> SUFFICES ASSUME NEW i \in 1 .. n, NEW j \in 1 .. n, i # j PROVE t[i] # t[j]
    OBVIOUS
  <2>1. t[i] \in Nat /\ t[j] \in Nat
    BY <1>6
  <2>2. i < j \/ j < i
    BY <1>1
  <2> QED BY <1>7, <2>1, <2>2
<1>9. t \in SetToSeqs(T)
  BY <1>6, <1>8 DEF SetToSeqs, n
<1>10. Growing(t)
  <2>1. DOMAIN t = 1 .. n
    BY <1>6
  <2> QED BY <1>7, <2>1 DEF Growing
<1> QED BY <1>9, <1>10

LEMMA GrowingOrder ==
    ASSUME NEW S \in SUBSET Nat, IsFiniteSet(S)
    PROVE  \E s \in SetToSeqs(S) : Growing(s)
<1> DEFINE Sorted(T) == \E s \in SetToSeqs(T) : Growing(s)
           B == {n \in Nat : \E T \in SUBSET S : Cardinality(T) = n /\ ~Sorted(T)}
<1> SUFFICES ASSUME ~Sorted(S) PROVE FALSE
  OBVIOUS
<1>1. Cardinality(S) \in B
  BY FS_CardinalityType
<1>2. B \in SUBSET Nat /\ B # {}
  BY <1>1
<1>3. PICK n \in B : \A k \in B : n <= k
  <2> HIDE DEF B
  <2> QED BY <1>2, MinExists
<1>4. PICK T \in SUBSET S : Cardinality(T) = n /\ ~Sorted(T)
  OBVIOUS
<1>5. IsFiniteSet(T) /\ n \in Nat
  BY FS_Subset
<1>6. T # {}
  <2> SUFFICES ASSUME T = {} PROVE FALSE
    OBVIOUS
  <2>1. Cardinality(T) = 0
    BY FS_EmptySet
  <2>2. << >> \in SetToSeqs(T)
    BY <2>1 DEF SetToSeqs
  <2>3. Growing(<< >>)
    BY DEF Growing
  <2> QED BY <1>4, <2>2, <2>3
<1>7. PICK m \in T : \A x \in T : m <= x
  BY <1>6, MinExists
<1>8. IsFiniteSet(T \ {m}) /\ Cardinality(T \ {m}) = n - 1
  BY <1>4, <1>5, <1>7, FS_RemoveElement
<1>9. n # 0
  BY <1>4, <1>5, <1>6, FS_EmptySet
<1>10. Sorted(T \ {m})
  <2>1. n - 1 \in Nat /\ ~(n <= n - 1)
    BY <1>5, <1>9
  <2>2. n - 1 \notin B
    BY <1>3, <2>1
  <2>3. T \ {m} \in SUBSET S
    OBVIOUS
  <2> HIDE DEF Sorted
  <2> QED BY <1>8, <2>1, <2>2, <2>3
<1>11. Sorted(T)
  BY <1>5, <1>7, <1>10, GrowingPrepend
<1> QED BY <1>4, <1>11

LEMMA InOrderOf ==
    ASSUME NEW S \in SUBSET Nat, IsFiniteSet(S)
    PROVE  /\ InOrder(S) \in Seq(S) /\ ToSet(InOrder(S)) = S
           /\ \A i, j \in 1 .. Len(InOrder(S)) : InOrder(S)[i] = InOrder(S)[j] => i = j
           /\ Growing(InOrder(S))
<1>1. \E s \in SetToSeqs(S) : \A i, j \in DOMAIN s : i < j => s[i] < s[j]
  BY GrowingOrder DEF Growing
<1>2. InOrder(S) \in SetToSeqs(S) /\ Growing(InOrder(S))
  BY <1>1, Zenon DEF InOrder, Growing
<1> QED BY <1>2, OrderOfSet

\* The entries of a list at some of its positions are a list of them in that order.
LEMMA EntriesOf ==
    ASSUME NEW S, NEW l \in Seq(S), NEW P \in SUBSET DOMAIN l
    PROVE  LET at == InOrder(P)
               m == EntriesAt(l, P)
           IN /\ m \in Seq(S) /\ Len(m) = Len(at)
              /\ \A k \in 1 .. Len(m) : at[k] \in P /\ at[k] \in 1 .. Len(l) /\ m[k] = l[at[k]]
              /\ \A i, j \in 1 .. Len(m) : at[i] = at[j] => i = j
              /\ \A i, j \in 1 .. Len(m) : i < j => at[i] < at[j]
              /\ ToSet(m) = {l[i] : i \in P}
<1> DEFINE at == InOrder(P)
           m == EntriesAt(l, P)
<1>1. DOMAIN l = 1 .. Len(l) /\ Len(l) \in Nat /\ \A i \in 1 .. Len(l) : l[i] \in S
  OBVIOUS
<1>2. P \in SUBSET Nat /\ IsFiniteSet(P)
  <2>1. IsFiniteSet(1 .. Len(l))
    BY <1>1, FS_Interval
  <2> QED BY <1>1, <2>1, FS_Subset
<1>3. /\ at \in Seq(P) /\ ToSet(at) = P
      /\ \A i, j \in 1 .. Len(at) : at[i] = at[j] => i = j
      /\ Growing(at)
  BY <1>2, InOrderOf
<1>4. m = [k \in DOMAIN at |-> l[at[k]]]
  BY DEF EntriesAt
<1> HIDE DEF at, m
<1>5. DOMAIN at = 1 .. Len(at) /\ Len(at) \in Nat /\ \A k \in 1 .. Len(at) : at[k] \in P
  BY <1>3
<1>6. \A k \in 1 .. Len(at) : at[k] \in 1 .. Len(l) /\ m[k] = l[at[k]] /\ m[k] \in S
  BY <1>1, <1>4, <1>5
<1>7. m \in Seq(S) /\ Len(m) = Len(at) /\ DOMAIN m = 1 .. Len(at)
  <2>1. m = [k \in 1 .. Len(at) |-> m[k]]
    BY <1>4, <1>5
  <2>2. m \in [1 .. Len(at) -> S]
    BY <1>6, <2>1
  <2> QED BY <1>5, <2>2
<1>8. \A i, j \in 1 .. Len(at) : i < j => at[i] < at[j]
  BY <1>3, <1>5 DEF Growing
<1>9. ToSet(m) = {l[i] : i \in P}
  <2>1. ToSet(m) = {m[k] : k \in 1 .. Len(at)}
    BY <1>7 DEF ToSet
  <2>2. P = {at[k] : k \in 1 .. Len(at)}
    BY <1>3, <1>5 DEF ToSet
  <2> QED BY <1>6, <2>1, <2>2
<1> QED BY <1>3, <1>5, <1>6, <1>7, <1>8, <1>9 DEF at, m

(***************************************************************************)
(* The wildcards                                                           *)
(***************************************************************************)
\* A string in lower case.
LEMMA LowerIs ==
    ASSUME NEW s \in Seq(Nat)
    PROVE  /\ Lower(s) \in Seq(Nat) /\ Len(Lower(s)) = Len(s)
           /\ \A i \in 1 .. Len(s) : Lower(s)[i] = LowerChar(s[i]) /\ LowerChar(s[i]) \in Nat
<1>1. DOMAIN s = 1 .. Len(s) /\ Len(s) \in Nat /\ \A i \in 1 .. Len(s) : s[i] \in Nat
  OBVIOUS
<1>2. \A i \in 1 .. Len(s) : LowerChar(s[i]) \in Nat
  BY <1>1 DEF LowerChar
<1>3. Lower(s) = [i \in 1 .. Len(s) |-> LowerChar(s[i])]
  BY <1>1 DEF Lower
<1>4. Lower(s) \in [1 .. Len(s) -> Nat]
  BY <1>2, <1>3
<1> QED BY <1>1, <1>2, <1>3, <1>4

\* Where in the string s a pattern may begin, of which the rest may begin at the places
\* of the set rest; p and s are in lower case.
Begins(c, rest, s) ==
    {j \in 1 .. Len(s) + 1 :
       IF c = Star THEN \E e \in rest : j <= e
       ELSE j + 1 \in rest /\ c \in {Question, s[j]}}
\* The places M[i] of the pattern from its i-th character on.
Rests(M, p, s) ==
    /\ M \in [1 .. Len(p) + 1 -> SUBSET (1 .. Len(s) + 1)]
    /\ M[Len(p) + 1] = {Len(s) + 1}
    /\ \A i \in 1 .. Len(p) : M[i] = Begins(p[i], M[i + 1], s)

LEMMA LowerCodes ==
    ASSUME NEW c \in Nat
    PROVE  /\ LowerChar(c) = Star <=> c = Star
           /\ LowerChar(c) = Question <=> c = Question
           /\ LowerChar(c) = 0 <=> c = 0
BY DEF LowerChar, Star, Question, Upper

LEMMA StandsByRests ==
    ASSUME NEW pattern \in Seq(Nat), NEW string \in Seq(Nat)
    PROVE  \E M : /\ Rests(M, Lower(pattern), Lower(string))
                  /\ Stands(pattern, string) <=> 1 \in M[1]
<1> DEFINE n == Len(pattern)
           m == Len(string)
           S == SUBSET (1 .. m + 1)
           Of(c, rest) == {j \in 1 .. Len(string) + 1 :
                             IF c = Star THEN \E e \in rest : j <= e
                             ELSE /\ j + 1 \in rest
                                  /\ c = Question \/ LowerChar(c) = LowerChar(string[j])}
           step == [k \in 1 .. n |-> [R \in S |-> Of(pattern[n + 1 - k], R)]]
           Is(f) == f = [k \in 0 .. Len(pattern) |->
                            IF k = 0 THEN {Len(string) + 1}
                            ELSE Of(pattern[Len(pattern) + 1 - k], f[k - 1])]
           F == CHOOSE f : Is(f)
<1>1. n \in Nat /\ m \in Nat /\ {m + 1} \in S
  OBVIOUS
<1>2. step \in [1 .. n -> [S -> S]]
  OBVIOUS
<1>3. PICK f \in [0 .. n -> S] : Stepped(f, n, {m + 1}, step)
  <2> HIDE DEF step, n, m, S
  <2> QED BY <1>1, <1>2, Stepwise
<1>4. f[0] = {m + 1} /\ \A k \in 1 .. n : f[k] = step[k][f[k - 1]]
  BY <1>3, Zenon DEF Stepped
<1>5. ASSUME NEW k \in 0 .. n
      PROVE  f[k] = IF k = 0 THEN {Len(string) + 1}
                    ELSE Of(pattern[Len(pattern) + 1 - k], f[k - 1])
  <2>1. CASE k = 0
    BY <1>4, <2>1
  <2>2. CASE k # 0
    <3>1. k \in 1 .. n /\ k - 1 \in 0 .. n
      BY <1>1, <2>2
    <3>2. f[k - 1] \in S
      <4> HIDE DEF S, n
      <4> QED BY <1>3, <3>1
    <3>3. step[k][f[k - 1]] = Of(pattern[n + 1 - k], f[k - 1])
      <4> HIDE DEF S, Of
      <4> QED BY <3>1, <3>2
    <3> HIDE DEF step, Of
    <3> QED BY <1>4, <2>2, <3>1, <3>3, Zenon
  <2> QED BY <2>1, <2>2
<1>6. Is(f)
  <2>1. f = [k \in 0 .. n |-> f[k]]
    BY <1>3, Zenon
  <2> HIDE DEF Of
  <2> QED BY <1>5, <2>1, Zenon
<1>7. Is(F)
  <2> HIDE DEF Is
  <2> QED BY <1>6, Zenon
<1>8. Stands(pattern, string) <=> 1 \in F[Len(pattern)]
  BY Zenon DEF Stands
<1>9. /\ F[0] = {m + 1}
      /\ \A k \in 1 .. n : F[k] = Of(pattern[n + 1 - k], F[k - 1])
  <2> HIDE DEF F, Of
  <2>1. F = [k \in 0 .. n |-> IF k = 0 THEN {m + 1} ELSE Of(pattern[n + 1 - k], F[k - 1])]
    BY <1>7, Zenon
  <2>2. 0 \in 0 .. n /\ \A k \in 1 .. n : k \in 0 .. n /\ k # 0
    BY <1>1
  <2> QED BY <2>1, <2>2, Zenon
<1> DEFINE M == [i \in 1 .. n + 1 |-> F[n + 1 - i]]
           p == Lower(pattern)
           s == Lower(string)
<1>10. /\ p \in Seq(Nat) /\ Len(p) = n /\ \A i \in 1 .. n : p[i] = LowerChar(pattern[i])
       /\ s \in Seq(Nat) /\ Len(s) = m /\ \A j \in 1 .. m : s[j] = LowerChar(string[j])
  BY LowerIs
<1>11. /\ \A i \in 1 .. n : pattern[i] \in Nat
       /\ \A j \in 1 .. m : string[j] \in Nat
  OBVIOUS
<1> HIDE DEF F, p, s
<1>12. \A i \in 1 .. n + 1 : M[i] = F[n + 1 - i] /\ n + 1 - i \in 0 .. n
  BY <1>1
<1>13. \A k \in 0 .. n : F[k] \in SUBSET (1 .. m + 1)
  <2>1. F[0] \in SUBSET (1 .. m + 1)
    BY <1>9, <1>1
  <2>2. \A k \in 1 .. n : F[k] \in SUBSET (1 .. m + 1)
    BY <1>9
  <2>3. \A k \in 0 .. n : k = 0 \/ k \in 1 .. n
    BY <1>1
  <2> QED BY <2>1, <2>2, <2>3
<1>14. M \in [1 .. Len(p) + 1 -> SUBSET (1 .. Len(s) + 1)]
  <2> HIDE DEF n, m
  <2> QED BY <1>10, <1>12, <1>13
<1>15. M[Len(p) + 1] = {Len(s) + 1}
  <2>1. n + 1 \in 1 .. n + 1 /\ n + 1 - (n + 1) = 0
    BY <1>1
  <2> HIDE DEF n, m, M
  <2> QED BY <1>9, <1>10, <1>12, <2>1
<1>16. ASSUME NEW i \in 1 .. n
       PROVE  M[i] = Begins(p[i], M[i + 1], s)
  <2>1. /\ n + 1 - i \in 1 .. n /\ n + 1 - (n + 1 - i) = i /\ (n + 1 - i) - 1 = n + 1 - (i + 1)
        /\ i + 1 \in 1 .. n + 1 /\ i \in 1 .. n + 1
    BY <1>1
  <2>2. M[i] = Of(pattern[i], M[i + 1])
    <3> HIDE DEF n, m, M, Of
    <3> QED BY <1>9, <1>12, <2>1
  <2>3. M[i + 1] \in SUBSET (1 .. m + 1)
    <3> HIDE DEF n, m, M
    <3> QED BY <1>12, <1>13, <2>1
  <2> DEFINE R == M[i + 1]
             c == pattern[i]
  <2>4. c \in Nat /\ p[i] = LowerChar(c)
    BY <1>10, <1>11
  <2>5. p[i] = Star <=> c = Star
    BY <2>4, LowerCodes
  <2>6. p[i] = Question <=> c = Question
    BY <2>4, LowerCodes
  <2> HIDE DEF R, c, M
  <2>7. ASSUME NEW j \in 1 .. m + 1, j + 1 \in R
        PROVE  (c = Question \/ LowerChar(c) = LowerChar(string[j])) <=> p[i] \in {Question, s[j]}
    <3>1. j \in 1 .. m
      BY <1>1, <2>3, <2>7 DEF R
    <3>2. s[j] = LowerChar(string[j])
      BY <1>10, <3>1
    <3> QED BY <2>4, <2>6, <3>2
  <2>8. Of(c, R) = Begins(p[i], R, s)
    BY <1>10, <2>5, <2>7 DEF Begins
  <2> QED BY <2>2, <2>8 DEF R, c
<1>17. Rests(M, p, s)
  <2> HIDE DEF M
  <2> QED BY <1>10, <1>14, <1>15, <1>16 DEF Rests
<1>18. M[1] = F[n]
  <2>1. 1 \in 1 .. n + 1 /\ n + 1 - 1 = n
    BY <1>1
  <2> HIDE DEF n, M
  <2> QED BY <1>12, <2>1
<1>19. Stands(pattern, string) <=> 1 \in M[1]
  <2> HIDE DEF M
  <2> QED BY <1>8, <1>18
<1> HIDE DEF M
<1> QED BY <1>17, <1>19 DEF p, s

OnlyStars(p, i) == \A k \in i .. Len(p) : p[k] = Star

\* The end of the string is reached when nothing but stars is left.
LEMMA StarsOnly ==
    ASSUME NEW p \in Seq(Nat), NEW s \in Seq(Nat), NEW M, Rests(M, p, s),
           NEW i \in 1 .. Len(p) + 1
    PROVE  Len(s) + 1 \in M[i] <=> OnlyStars(p, i)
<1> DEFINE n == Len(p)
           m == Len(s)
           Stars(x) == \A k \in x .. n : p[k] = Star
           A == {x \in 0 .. n : m + 1 \in M[n + 1 - x] <=> Stars(n + 1 - x)}
<1>1. n \in Nat /\ m \in Nat
  OBVIOUS
<1>2. /\ M[n + 1] = {m + 1}
      /\ \A x \in 1 .. n : M[x] = Begins(p[x], M[x + 1], s) /\ M[x + 1] \in SUBSET (1 .. m + 1)
  <2>1. \A x \in 1 .. n : x + 1 \in 1 .. n + 1
    BY <1>1
  <2> QED BY <2>1 DEF Rests
<1>3. 0 \in A
  BY <1>1, <1>2
<1>4. ASSUME NEW x \in 0 .. n, x \in A, x # n
      PROVE  x + 1 \in A
  <2> DEFINE y == n - x
  <2>1. y \in 1 .. n /\ n + 1 - x = y + 1 /\ n + 1 - (x + 1) = y /\ x + 1 \in 0 .. n
    <3>1. n \in Nat /\ x \in 0 .. n /\ x # n
      BY <1>1, <1>4
    <3> HIDE DEF n
    <3> QED BY ONLY <3>1 DEF y
  <2>2. m + 1 \in M[y + 1] <=> Stars(y + 1)
    BY <1>4, <2>1
  <2> HIDE DEF y
  <2>3. Stars(y) <=> p[y] = Star /\ Stars(y + 1)
    BY <1>1, <2>1, SMTT(30)
  <2>4. m + 1 \in M[y] <=> p[y] = Star /\ m + 1 \in M[y + 1]
    <3> DEFINE R == M[y + 1]
    <3>1. R \in SUBSET (1 .. m + 1) /\ M[y] = Begins(p[y], R, s)
      BY <1>2, <2>1
    <3> HIDE DEF R
    <3>2. m + 1 + 1 \notin R /\ (\A e \in R : m + 1 <= e => e = m + 1) /\ m + 1 \in 1 .. m + 1
      BY <1>1, <3>1
    <3>3. m + 1 <= m + 1
      BY <1>1
    <3>4. m + 1 \in Begins(p[y], R, s) <=> p[y] = Star /\ m + 1 \in R
      <4> HIDE DEF n
      <4> QED BY <3>2, <3>3 DEF Begins
    <3> QED BY <3>1, <3>4 DEF R
  <2> QED BY <2>1, <2>2, <2>3, <2>4
<1>5. 0 .. n \subseteq A
  <2> HIDE DEF A, n
  <2> QED BY <1>1, <1>3, <1>4, Upward
<1>6. n + 1 - i \in 0 .. n /\ n + 1 - (n + 1 - i) = i
  BY <1>1
<1>7. n + 1 - i \in A
  <2> HIDE DEF A
  <2> QED BY <1>5, <1>6
<1> QED BY <1>6, <1>7 DEF OnlyStars

\* As long as the pattern has no star, it and the string move together.
LEMMA MoveTogether ==
    ASSUME NEW p \in Seq(Nat), NEW s \in Seq(Nat), NEW M, Rests(M, p, s),
           NEW a \in 1 .. Len(p) + 1, NEW i \in a .. Len(p) + 1,
           \A k \in a .. i - 1 : p[k] # Star, NEW c \in M[a]
    PROVE  c + i - a \in M[i]
<1> DEFINE n == Len(p)
           d == i - a
           A == {x \in 0 .. d : c + x \in M[a + x]}
<1>1. n \in Nat /\ d \in Nat /\ c \in Nat
  <2>1. M[a] \in SUBSET (1 .. Len(s) + 1)
    BY DEF Rests
  <2> QED BY <2>1
<1>2. 0 \in A
  BY <1>1
<1>3. ASSUME NEW x \in 0 .. d, x \in A, x # d
      PROVE  x + 1 \in A
  <2>1. a + x \in 1 .. n /\ a + x \in a .. i - 1 /\ x + 1 \in 0 .. d /\ a + (x + 1) = a + x + 1
        /\ c + (x + 1) = c + x + 1
    BY <1>1, <1>3
  <2>2. c + x \in Begins(p[a + x], M[a + x + 1], s)
    BY <1>3, <2>1 DEF Rests
  <2>3. p[a + x] # Star
    BY <2>1
  <2>4. c + x + 1 \in M[a + x + 1]
    BY <2>2, <2>3 DEF Begins
  <2> QED BY <2>1, <2>4
<1>4. 0 .. d \subseteq A
  <2> HIDE DEF A, d
  <2> QED BY <1>1, <1>2, <1>3, Upward
<1>5. d \in 0 .. d /\ c + d = c + i - a /\ a + d = i
  BY <1>1
<1>6. d \in A
  <2> HIDE DEF A
  <2> QED BY <1>4, <1>5
<1> QED BY <1>5, <1>6

(***************************************************************************)
(* The walk                                                                *)
(***************************************************************************)
\* What a walk that is at w can still find: the rest from here, or from a later
\* place behind the last star.
Meets(M, w) == \/ w.j \in M[w.i]
               \/ w.mp # 0 /\ \E c \in M[w.mp] : w.cp <= c
CharAt(p, i) == IF i <= Len(p) THEN p[i] ELSE 0

LEMMA WalkType ==
    ASSUME NEW p \in Seq(Nat), NEW s \in Seq(Nat), NEW w \in Walks(p, s)
    PROVE  /\ Len(p) \in Nat /\ Len(s) \in Nat
           /\ w = [i |-> w.i, j |-> w.j, mp |-> w.mp, cp |-> w.cp]
           /\ w.i \in 1 .. Len(p) + 1 /\ w.j \in 1 .. Len(s) + 1
           /\ w.mp \in 0 .. Len(p) + 1 /\ w.cp \in 0 .. Len(s) + 2
           /\ w.mp # 0 => /\ w.mp <= w.i /\ w.cp # 0 /\ w.cp + w.i = w.mp + w.j + 1
                          /\ \A k \in w.mp .. w.i - 1 : p[k] # Star
BY DEF Walks

\* A place and where a walk goes on from it.
LEMMA InWalks ==
    ASSUME NEW p \in Seq(Nat), NEW s \in Seq(Nat),
           NEW i \in 1 .. Len(p) + 1, NEW j \in 1 .. Len(s) + 1,
           NEW b \in 0 .. Len(p) + 1, NEW c \in 0 .. Len(s) + 2,
           b # 0 => b <= i /\ c # 0 /\ c + i = b + j + 1 /\ \A k \in b .. i - 1 : p[k] # Star
    PROVE  [i |-> i, j |-> j, mp |-> b, cp |-> c] \in Walks(p, s)
BY DEF Walks

LEMMA WalkSteps ==
    ASSUME NEW p \in Seq(Nat), NEW s \in Seq(Nat), NEW w \in Walks(p, s),
           w.j <= Len(s), \A j \in 1 .. Len(s) : s[j] # 0
    PROVE  /\ CharAt(p, w.i) = Star => w.i <= Len(p) /\ PastStar(w) \in Walks(p, s)
           /\ CharAt(p, w.i) # Star /\ CharAt(p, w.i) \in {s[w.j], Question} =>
                 w.i <= Len(p) /\ Onward(w) \in Walks(p, s)
           /\ w.mp # 0 => Retry(w) \in Walks(p, s)
<1> DEFINE n == Len(p)
           m == Len(s)
           i == w.i
           j == w.j
           b == w.mp
           c == w.cp
<1>1. /\ n \in Nat /\ m \in Nat /\ i \in 1 .. n + 1 /\ j \in 1 .. m + 1
      /\ b \in 0 .. n + 1 /\ c \in 0 .. m + 2
      /\ b # 0 => /\ b <= i /\ c # 0 /\ c + i = b + j + 1
                  /\ \A k \in b .. i - 1 : p[k] # Star
  BY WalkType
<1>2. j \in 1 .. m /\ s[j] # 0
  BY <1>1
<1>3. (i <= n /\ CharAt(p, i) = p[i]) \/ (i = n + 1 /\ CharAt(p, i) = 0)
  BY <1>1 DEF CharAt
<1>4. ASSUME CharAt(p, i) = Star PROVE i <= n /\ PastStar(w) \in Walks(p, s)
  <2>1. i <= n
    BY <1>3, <1>4 DEF Star
  <2> HIDE DEF n, m, i, j
  <2>2. /\ i + 1 \in 1 .. n + 1 /\ j \in 1 .. m + 1 /\ i + 1 \in 0 .. n + 1 /\ j + 1 \in 0 .. m + 2
        /\ i + 1 <= i + 1 /\ j + 1 # 0 /\ (j + 1) + (i + 1) = (i + 1) + j + 1
        /\ \A k \in i + 1 .. (i + 1) - 1 : p[k] # Star
    BY ONLY <1>1, <1>2, <2>1
  <2>3. [i |-> i + 1, j |-> j, mp |-> i + 1, cp |-> j + 1] \in Walks(p, s)
    BY ONLY <2>2, InWalks, p \in Seq(Nat), s \in Seq(Nat) DEF n, m
  <2> QED BY <2>1, <2>3 DEF PastStar, i, j
<1>5. ASSUME CharAt(p, i) # Star, CharAt(p, i) \in {s[j], Question}
      PROVE  i <= n /\ Onward(w) \in Walks(p, s)
  <2>1. i <= n /\ p[i] # Star
    BY <1>2, <1>3, <1>5 DEF Question
  <2> HIDE DEF n, m, i, j, b, c
  <2>2. /\ i + 1 \in 1 .. n + 1 /\ j + 1 \in 1 .. m + 1
        /\ b # 0 => b <= i + 1 /\ c # 0 /\ c + (i + 1) = b + (j + 1) + 1
    BY ONLY <1>1, <1>2, <2>1
  <2>3. ASSUME b # 0 PROVE \A k \in b .. (i + 1) - 1 : p[k] # Star
    <3> SUFFICES ASSUME NEW k \in b .. (i + 1) - 1 PROVE p[k] # Star
      OBVIOUS
    <3>1. k \in b .. i - 1 \/ k = i
      BY ONLY <1>1, k \in b .. (i + 1) - 1
    <3> QED BY ONLY <1>1, <2>1, <2>3, <3>1, Zenon
  <2>4. [i |-> i + 1, j |-> j + 1, mp |-> b, cp |-> c] \in Walks(p, s)
    BY ONLY <1>1, <2>2, <2>3, InWalks, p \in Seq(Nat), s \in Seq(Nat) DEF n, m
  <2> QED BY <2>1, <2>4 DEF Onward, i, j, b, c
<1>6. ASSUME b # 0 PROVE Retry(w) \in Walks(p, s)
  <2> HIDE DEF n, m, i, j, b, c
  <2>1. /\ b \in 1 .. n + 1 /\ c \in 1 .. m + 1 /\ c + 1 \in 0 .. m + 2
        /\ b <= b /\ c + 1 # 0 /\ (c + 1) + b = b + c + 1
    BY ONLY <1>1, <1>2, <1>6
  <2>2. \A k \in b .. b - 1 : p[k] # Star
    BY ONLY <1>1
  <2>3. [i |-> b, j |-> c, mp |-> b, cp |-> c + 1] \in Walks(p, s)
    BY ONLY <1>1, <2>1, <2>2, InWalks, p \in Seq(Nat), s \in Seq(Nat) DEF n, m
  <2> QED BY <2>3 DEF Retry, b, c
<1> QED BY <1>4, <1>5, <1>6

\* Each round of the loop keeps what can be found.
LEMMA WalkKeeps ==
    ASSUME NEW p \in Seq(Nat), NEW s \in Seq(Nat), NEW M, Rests(M, p, s),
           NEW w \in Walks(p, s), \A j \in 1 .. Len(s) : s[j] # 0
    PROVE  /\ w.j > Len(s) => (Meets(M, w) <=> \A k \in w.i .. Len(p) : p[k] = Star)
           /\ w.j <= Len(s) /\ CharAt(p, w.i) = Star =>
                 (Meets(M, w) <=> w.i = Len(p) \/ Meets(M, PastStar(w)))
           /\ w.j <= Len(s) /\ CharAt(p, w.i) # Star /\ CharAt(p, w.i) \in {s[w.j], Question} =>
                 (Meets(M, w) <=> Meets(M, Onward(w)))
           /\ w.j <= Len(s) /\ CharAt(p, w.i) # Star /\ CharAt(p, w.i) \notin {s[w.j], Question} =>
                 (Meets(M, w) <=> w.mp # 0 /\ Meets(M, Retry(w)))
<1> DEFINE n == Len(p)
           m == Len(s)
           i == w.i
           j == w.j
           R == M[i + 1]
<1>1. /\ n \in Nat /\ m \in Nat /\ i \in 1 .. n + 1 /\ j \in 1 .. m + 1
      /\ w.mp \in 0 .. n + 1 /\ w.cp \in 0 .. m + 2
      /\ w.mp # 0 => /\ w.mp <= i /\ w.cp # 0 /\ w.cp + i = w.mp + j + 1
                     /\ \A k \in w.mp .. i - 1 : p[k] # Star
  BY WalkType
<1>2. /\ \A k \in 1 .. n + 1 : M[k] \in SUBSET (1 .. m + 1)
      /\ \A k \in 1 .. n : M[k] = Begins(p[k], M[k + 1], s)
      /\ M[n + 1] = {m + 1}
  BY DEF Rests
<1>3. /\ PastStar(w) = [i |-> i + 1, j |-> j, mp |-> i + 1, cp |-> j + 1]
      /\ Onward(w) = [i |-> i + 1, j |-> j + 1, mp |-> w.mp, cp |-> w.cp]
      /\ Retry(w) = [i |-> w.mp, j |-> w.cp, mp |-> w.mp, cp |-> w.cp + 1]
  BY DEF PastStar, Onward, Retry
<1>4. ASSUME w.mp # 0, NEW c \in M[w.mp], w.cp <= c
      PROVE  c + i - w.mp \in M[i] /\ j + 1 <= c + i - w.mp /\ j <= m
  <2>1. w.mp \in 1 .. n + 1 /\ i \in w.mp .. n + 1 /\ \A k \in w.mp .. i - 1 : p[k] # Star
    BY <1>1, <1>4
  <2>2. c + i - w.mp \in M[i]
    BY <2>1, MoveTogether
  <2>3. c \in 1 .. m + 1 /\ c + i - w.mp \in 1 .. m + 1
    BY <1>1, <1>2, <2>1, <2>2
  <2> DEFINE b == w.mp
  <2>4. c \in Nat /\ b \in Nat /\ i \in Nat /\ j \in Nat /\ m \in Nat /\ w.cp \in Nat
    BY <1>1, <2>3, SMTT(30)
  <2>5. w.cp + i = b + j + 1 /\ w.cp <= c /\ c + i - b <= m + 1
    BY <1>1, <1>4, <2>3
  <2> HIDE DEF b, i, j, m
  <2>6. j + 1 <= c + i - b /\ j <= m
    BY ONLY <2>4, <2>5
  <2> QED BY <2>2, <2>6 DEF b
<1>5. j > m => (Meets(M, w) <=> \A k \in i .. n : p[k] = Star)
  <2> SUFFICES ASSUME j > m PROVE Meets(M, w) <=> \A k \in i .. n : p[k] = Star
    OBVIOUS
  <2>1. j = m + 1
    BY <1>1
  <2>2. ~(w.mp # 0 /\ \E c \in M[w.mp] : w.cp <= c)
    BY <1>1, <1>4
  <2>3. m + 1 \in M[i] <=> \A k \in i .. n : p[k] = Star
    <3> DEFINE x == w.i
    <3>1. x \in 1 .. Len(p) + 1
      BY <1>1
    <3> HIDE DEF x
    <3>2. Len(s) + 1 \in M[x] <=> OnlyStars(p, x)
      BY <3>1, StarsOnly
    <3> QED BY <3>2 DEF x, OnlyStars
  <2> QED BY <2>1, <2>2, <2>3 DEF Meets
<1> HIDE DEF n, m, i, j
<1>6. ASSUME j <= m, CharAt(p, i) = Star
      PROVE  Meets(M, w) <=> i = n \/ Meets(M, PastStar(w))
  <2>1. i \in 1 .. n /\ p[i] = Star /\ i + 1 # 0 /\ i + 1 \in 1 .. n + 1
    BY <1>1, <1>6 DEF CharAt, Star, n
  <2>2. R \in SUBSET (1 .. m + 1) /\ M[i] = Begins(Star, R, s)
    BY <1>2, <2>1
  <2> HIDE DEF R
  <2>3. \A x \in 1 .. m + 1 : x \in M[i] <=> \E e \in R : x <= e
    BY <2>2 DEF Begins, m
  <2>4. j \in M[i] <=> \E e \in R : j <= e
    BY <1>1, <2>3
  <2>5. Meets(M, w) <=> j \in M[i]
    <3>1. ASSUME w.mp # 0, NEW c \in M[w.mp], w.cp <= c
          PROVE  j \in M[i]
      <4> DEFINE d == c + i - w.mp
      <4>1. d \in M[i] /\ j + 1 <= d
        BY <1>4, <3>1
      <4> HIDE DEF d
      <4>2. d \in 1 .. m + 1
        <5>1. i \in 1 .. n + 1
          BY <1>1
        <5> QED BY ONLY <1>2, <4>1, <5>1, Zenon
      <4>3. PICK e \in R : d <= e
        BY <2>3, <4>1, <4>2
      <4>4. e \in 1 .. m + 1
        BY <2>2
      <4>5. j <= e
        BY <1>1, <4>1, <4>2, <4>3, <4>4
      <4> QED BY <2>4, <4>5
    <3> QED BY <3>1 DEF Meets, i, j
  <2>6. Meets(M, PastStar(w)) <=> j \in R \/ \E e \in R : j + 1 <= e
    <3> DEFINE v == PastStar(w)
    <3>1. v.i = i + 1 /\ v.j = j /\ v.mp = i + 1 /\ v.cp = j + 1
      BY <1>3
    <3> HIDE DEF v
    <3> QED BY <2>1, <3>1 DEF Meets, R, v
  <2>7. (\E e \in R : j <= e) <=> j \in R \/ \E e \in R : j + 1 <= e
    <3>1. \A e \in R : e \in Nat
      BY <2>2
    <3>2. \A e \in Nat : j <= e <=> j = e \/ j + 1 <= e
      BY <1>1
    <3> QED BY <3>1, <3>2
  <2>8. i = n => j \in M[i]
    <3> SUFFICES ASSUME i = n PROVE j \in M[i]
      OBVIOUS
    <3>1. m + 1 \in R /\ j <= m + 1
      BY <1>1, <1>2, <1>6 DEF R
    <3> QED BY <2>4, <3>1
  <2> QED BY <2>4, <2>5, <2>6, <2>7, <2>8
<1>7. ASSUME j <= m, CharAt(p, i) # Star, CharAt(p, i) \in {s[j], Question}
      PROVE  Meets(M, w) <=> Meets(M, Onward(w))
  <2>1. s[j] # 0
    BY <1>1, <1>7 DEF m
  <2>2. i \in 1 .. n /\ p[i] # Star /\ p[i] \in {Question, s[j]}
    BY <1>1, <1>7, <2>1 DEF CharAt, Question, n
  <2>3. j \in M[i] <=> j + 1 \in M[i + 1]
    <3>1. M[i] = Begins(p[i], R, s) /\ j \in 1 .. m + 1
      BY <1>1, <1>2, <2>2
    <3> HIDE DEF R
    <3>2. j \in M[i] <=> j + 1 \in R
      BY <2>2, <3>1 DEF Begins, m
    <3> QED BY <3>2 DEF R
  <2> DEFINE v == Onward(w)
  <2>4. v.i = i + 1 /\ v.j = j + 1 /\ v.mp = w.mp /\ v.cp = w.cp
    BY <1>3
  <2> HIDE DEF v, R
  <2> QED BY <2>3, <2>4 DEF Meets, v, i, j
<1>8. ASSUME j <= m, CharAt(p, i) # Star, CharAt(p, i) \notin {s[j], Question}
      PROVE  Meets(M, w) <=> w.mp # 0 /\ Meets(M, Retry(w))
  <2>1. j \notin M[i]
    <3>1. CASE i \in 1 .. n
      <4>1. p[i] # Star /\ p[i] \notin {Question, s[j]}
        BY <1>8, <3>1 DEF CharAt, n
      <4>2. M[i] = Begins(p[i], R, s)
        BY <1>2, <3>1
      <4> HIDE DEF R
      <4> QED BY <4>1, <4>2 DEF Begins
    <3>2. CASE i = n + 1
      BY <1>1, <1>2, <1>8, <3>2
    <3> QED BY <1>1, <3>1, <3>2
  <2> DEFINE v == Retry(w)
             b == w.mp
  <2>2. v.i = b /\ v.j = w.cp /\ v.mp = b /\ v.cp = w.cp + 1
    BY <1>3
  <2>3. Meets(M, v) <=> w.cp \in M[b] \/ (b # 0 /\ \E c \in M[b] : w.cp + 1 <= c)
    <3> HIDE DEF v, b
    <3>1. v.j \in M[v.i] <=> w.cp \in M[b]
      BY ONLY <2>2
    <3>2. (v.mp # 0 /\ \E c \in M[v.mp] : v.cp <= c) <=> b # 0 /\ \E c \in M[b] : w.cp + 1 <= c
      BY ONLY <2>2
    <3> QED BY ONLY <3>1, <3>2, Zenon DEF Meets
  <2>4. Meets(M, w) <=> b # 0 /\ \E c \in M[b] : w.cp <= c
    BY <2>1 DEF Meets, i, j
  <2>5. b # 0 => ((\E c \in M[b] : w.cp <= c) <=> w.cp \in M[b] \/ \E c \in M[b] : w.cp + 1 <= c)
    <3> SUFFICES ASSUME b # 0
                 PROVE  (\E c \in M[b] : w.cp <= c) <=> w.cp \in M[b] \/ \E c \in M[b] : w.cp + 1 <= c
      OBVIOUS
    <3>1. b \in 1 .. n + 1 /\ \A c \in M[b] : c \in Nat
      <4>1. b \in 1 .. n + 1
        BY <1>1
      <4>2. M[b] \in SUBSET (1 .. m + 1)
        BY <1>2, <4>1
      <4> QED BY <4>1, <4>2
    <3>2. \A c \in Nat : w.cp <= c <=> w.cp = c \/ w.cp + 1 <= c
      BY <1>1
    <3> HIDE DEF b
    <3> QED BY <3>1, <3>2
  <2> DEFINE Far == \E c \in M[b] : w.cp <= c
             Next1 == w.cp \in M[b]
             More == \E c \in M[b] : w.cp + 1 <= c
  <2>6. /\ Meets(M, v) <=> Next1 \/ (b # 0 /\ More)
        /\ Meets(M, w) <=> b # 0 /\ Far
        /\ b # 0 => (Far <=> Next1 \/ More)
    BY ONLY <2>3, <2>4, <2>5
  <2> HIDE DEF v, b, Far, Next1, More
  <2>7. Meets(M, w) <=> b # 0 /\ Meets(M, v)
    BY ONLY <2>6, Zenon
  <2> QED BY ONLY <2>7, Zenon DEF v, b
<1> HIDE DEF R
<1> QED BY <1>1, <1>5, <1>6, <1>7, <1>8 DEF i, j, n, m

\* Among walks there is one with the last star furthest in the pattern, then with the
\* latest place to try again, then furthest in the string.
Furthest(w, B) ==
    \A v \in B : /\ v.mp <= w.mp
                 /\ v.mp = w.mp => v.cp <= w.cp
                 /\ v.mp = w.mp /\ v.cp = w.cp => v.j <= w.j

LEMMA FurthestWalk ==
    ASSUME NEW p \in Seq(Nat), NEW s \in Seq(Nat), NEW B \in SUBSET Walks(p, s), B # {}
    PROVE  \E w \in B : Furthest(w, B)
<1> DEFINE n == Len(p)
           m == Len(s)
           X == {w.mp : w \in B}
<1>1. /\ n \in Nat /\ m \in Nat
      /\ \A w \in B : w.mp \in 0 .. n + 1 /\ w.cp \in 0 .. m + 2 /\ w.j \in 0 .. m + 1
  BY SMTT(30) DEF Walks
<1> HIDE DEF n, m
<1>2. 0 \in Nat /\ n + 1 \in Int /\ m + 2 \in Int /\ m + 1 \in Int
  BY <1>1
<1>3. PICK x \in X : \A y \in X : y <= x
  <2>1. X \in SUBSET (0 .. n + 1) /\ X # {}
    BY <1>1
  <2> HIDE DEF X
  <2> QED BY <1>2, <2>1, MaxExists
<1> DEFINE C == {w \in B : w.mp = x}
           Y == {w.cp : w \in C}
<1>4. PICK y \in Y : \A z \in Y : z <= y
  <2>1. Y \in SUBSET (0 .. m + 2) /\ Y # {}
    BY <1>1
  <2> HIDE DEF Y
  <2> QED BY <1>2, <2>1, MaxExists
<1> DEFINE D == {w \in C : w.cp = y}
           Z == {w.j : w \in D}
<1>5. PICK z \in Z : \A v \in Z : v <= z
  <2>1. Z \in SUBSET (0 .. m + 1) /\ Z # {}
    BY <1>1
  <2> HIDE DEF Z
  <2> QED BY <1>2, <2>1, MaxExists
<1>6. PICK w \in D : w.j = z
  OBVIOUS
<1>7. w \in B /\ w.mp = x /\ w.cp = y
  OBVIOUS
<1>8. ASSUME NEW v \in B
      PROVE  /\ v.mp <= w.mp
             /\ v.mp = w.mp => v.cp <= w.cp
             /\ v.mp = w.mp /\ v.cp = w.cp => v.j <= w.j
  BY <1>3, <1>4, <1>5, <1>6, <1>7
<1> QED BY <1>7, <1>8 DEF Furthest

\* One round of the loop of WildMatch, from w, with run for the rest.
LoopRound(p, s, run, w) ==
    IF w.j > Len(s) THEN \A k \in w.i .. Len(p) : p[k] = Star
    ELSE IF CharAt(p, w.i) = Star THEN w.i = Len(p) \/ run[PastStar(w)]
    ELSE IF CharAt(p, w.i) \in {s[w.j], Question} THEN run[Onward(w)]
    ELSE w.mp # 0 /\ run[Retry(w)]

LEMMA WildMatchIs ==
    ASSUME NEW pattern \in Seq(Nat), NEW string \in Seq(Nat \ {0})
    PROVE  WildMatch(pattern, string) <=> Stands(pattern, string)
<1> DEFINE p == Lower(pattern)
           s == Lower(string)
           Ws == Walks(p, s)
           start == [i |-> 1, j |-> 1, mp |-> 0, cp |-> 0]
           Runs(r) == r = [w \in Ws |-> LoopRound(p, s, r, w)]
           F == CHOOSE r : Runs(r)
<1>1. WildMatch(pattern, string) <=> F[start]
  BY Zenon DEF WildMatch, LoopRound, CharAt
<1>2. string \in Seq(Nat) /\ \A j \in 1 .. Len(string) : string[j] \in Nat \ {0}
  OBVIOUS
<1>3. p \in Seq(Nat) /\ s \in Seq(Nat) /\ \A j \in 1 .. Len(s) : s[j] # 0
  <2>1. p \in Seq(Nat)
    BY LowerIs
  <2>2. /\ s \in Seq(Nat) /\ Len(s) = Len(string)
        /\ \A j \in 1 .. Len(string) : s[j] = LowerChar(string[j])
    BY <1>2, LowerIs
  <2> HIDE DEF s, p
  <2>3. \A j \in 1 .. Len(string) : LowerChar(string[j]) # 0
    BY <1>2, LowerCodes
  <2> QED BY <2>1, <2>2, <2>3
<1>4. PICK M : Rests(M, p, s) /\ (Stands(pattern, string) <=> 1 \in M[1])
  BY <1>2, StandsByRests
<1> HIDE DEF p, s
<1>5. ASSUME NEW w \in Ws
      PROVE  Meets(M, w) \in BOOLEAN
  BY Zenon DEF Meets
<1> DEFINE G == [w \in Ws |-> Meets(M, w)]
<1>6. ASSUME NEW w \in Ws, NEW r,
             w.j <= Len(s) /\ CharAt(p, w.i) = Star => (r[PastStar(w)] <=> Meets(M, PastStar(w))),
             w.j <= Len(s) /\ CharAt(p, w.i) # Star /\ CharAt(p, w.i) \in {s[w.j], Question} =>
                 (r[Onward(w)] <=> Meets(M, Onward(w))),
             w.mp # 0 /\ w.j <= Len(s) => (r[Retry(w)] <=> Meets(M, Retry(w)))
      PROVE  Meets(M, w) <=> LoopRound(p, s, r, w)
  <2>1. w.j > Len(s) \/ w.j <= Len(s)
    <3>1. w.j \in Nat /\ Len(s) \in Nat
      BY <1>3 DEF Walks
    <3> QED BY <3>1
  <2>2. /\ w.j > Len(s) => (Meets(M, w) <=> \A k \in w.i .. Len(p) : p[k] = Star)
        /\ w.j <= Len(s) /\ CharAt(p, w.i) = Star =>
              (Meets(M, w) <=> w.i = Len(p) \/ Meets(M, PastStar(w)))
        /\ w.j <= Len(s) /\ CharAt(p, w.i) # Star /\ CharAt(p, w.i) \in {s[w.j], Question} =>
              (Meets(M, w) <=> Meets(M, Onward(w)))
        /\ w.j <= Len(s) /\ CharAt(p, w.i) # Star /\ CharAt(p, w.i) \notin {s[w.j], Question} =>
              (Meets(M, w) <=> w.mp # 0 /\ Meets(M, Retry(w)))
    BY <1>3, <1>4, WalkKeeps
  <2>3. w.j <= Len(s) => ~(w.j > Len(s))
    <3>1. w.j \in Nat /\ Len(s) \in Nat
      BY <1>3 DEF Walks
    <3> QED BY <3>1
  <2> QED BY <1>6, <2>1, <2>2, <2>3, Zenon DEF LoopRound
<1>7. \A w \in Ws : w.j <= Len(s) =>
         /\ CharAt(p, w.i) = Star => PastStar(w) \in Ws
         /\ CharAt(p, w.i) # Star /\ CharAt(p, w.i) \in {s[w.j], Question} => Onward(w) \in Ws
         /\ w.mp # 0 => Retry(w) \in Ws
  BY <1>3, WalkSteps
<1>8. Runs(G)
  <2>1. ASSUME NEW w \in Ws PROVE Meets(M, w) <=> LoopRound(p, s, G, w)
    BY <1>6, <1>7, <2>1, Zenon
  <2>2. ASSUME NEW w \in Ws PROVE Meets(M, w) = LoopRound(p, s, G, w)
    <3>1. \A v \in Ws : G[v] \in BOOLEAN
      BY <1>5, Zenon
    <3> HIDE DEF G
    <3>2. CASE w.j > Len(s)
      BY <2>1, <3>2, Zenon DEF LoopRound, Meets
    <3>3. CASE ~(w.j > Len(s))
      <4>1. w.j <= Len(s)
        <5>1. w.j \in Nat /\ Len(s) \in Nat
          BY <1>3 DEF Walks
        <5> QED BY <3>3, <5>1
      <4>2. CASE CharAt(p, w.i) = Star
        BY <1>7, <2>1, <3>1, <3>3, <4>1, <4>2, Zenon DEF LoopRound, Meets
      <4>3. CASE CharAt(p, w.i) # Star /\ CharAt(p, w.i) \in {s[w.j], Question}
        <5>1. LoopRound(p, s, G, w) = G[Onward(w)]
          BY <3>3, <4>3, Zenon DEF LoopRound
        <5>2. LoopRound(p, s, G, w) \in BOOLEAN
          BY <1>7, <3>1, <4>1, <4>3, <5>1, Zenon
        <5> QED BY <1>5, <2>1, <5>2, Zenon
      <4>4. CASE CharAt(p, w.i) # Star /\ CharAt(p, w.i) \notin {s[w.j], Question}
        BY <2>1, <3>3, <4>4, Zenon DEF LoopRound, Meets
      <4> QED BY <4>2, <4>3, <4>4, Zenon
    <3> QED BY <3>2, <3>3, Zenon
  <2> QED BY <2>2, Zenon
<1>9. Runs(F)
  BY <1>8, Zenon
<1> HIDE DEF F
<1>10. \A w \in Ws : F[w] = LoopRound(p, s, F, w)
  BY <1>9, Zenon
<1> DEFINE B == {w \in Ws : ~(F[w] <=> Meets(M, w))}
<1>11. B = {}
  <2> SUFFICES ASSUME B # {} PROVE FALSE
    OBVIOUS
  <2>1. PICK w \in B : Furthest(w, B)
    <3>1. B \in SUBSET Walks(p, s)
      OBVIOUS
    <3> HIDE DEF B
    <3> QED BY <1>3, <3>1, FurthestWalk
  <2>2. w \in Ws /\ ~(F[w] <=> Meets(M, w))
    OBVIOUS
  <2>3. \A v \in Ws : v \notin B => (F[v] <=> Meets(M, v))
    BY Zenon
  <2>4. /\ w.i \in Nat /\ w.j \in Nat /\ w.mp \in Nat /\ w.cp \in Nat
        /\ w.mp # 0 => w.mp <= w.i
    BY <2>2 DEF Walks
  <2> HIDE DEF B
  <2>5. PastStar(w) \notin B
    <3>1. PastStar(w).mp = w.i + 1 /\ ~(w.i + 1 <= w.mp)
      BY <2>4 DEF PastStar
    <3> QED BY <2>1, <3>1 DEF Furthest
  <2>6. Onward(w) \notin B
    <3>1. /\ Onward(w).mp = w.mp /\ Onward(w).cp = w.cp /\ Onward(w).j = w.j + 1
          /\ ~(w.j + 1 <= w.j)
      BY <2>4 DEF Onward
    <3> QED BY <2>1, <3>1 DEF Furthest
  <2>7. Retry(w) \notin B
    <3>1. Retry(w).mp = w.mp /\ Retry(w).cp = w.cp + 1 /\ ~(w.cp + 1 <= w.cp)
      BY <2>4 DEF Retry
    <3> QED BY <2>1, <3>1 DEF Furthest
  <2>8. Meets(M, w) <=> LoopRound(p, s, F, w)
    BY <1>6, <1>7, <2>2, <2>3, <2>5, <2>6, <2>7, Zenon
  <2>9. F[w] = LoopRound(p, s, F, w)
    BY <1>10, <2>2
  <2> QED BY <2>2, <2>8, <2>9, Zenon
<1>12. start \in Ws /\ start.i = 1 /\ start.j = 1 /\ start.mp = 0
  BY <1>3 DEF Walks
<1> HIDE DEF start
<1>13. F[start] <=> Meets(M, start)
  BY <1>11, <1>12, Zenon
<1>14. Meets(M, start) <=> 1 \in M[1]
  BY <1>12 DEF Meets
<1> QED BY <1>1, <1>4, <1>13, <1>14, Zenon
=============================================================================
