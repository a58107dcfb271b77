--------------------------- MODULE FileGlobProofs ---------------------------
(***************************************************************************)
(* A proof about module FileGlob that holds for every tree of files and    *)
(* every pattern: the walk over the pattern finds what it stands for.      *)
(*                                                                         *)
(* A path is read along a pattern by how many of its names the first parts *)
(* are.  From this follows what a call of GlobHelper() does: what its      *)
(* pattern stands for is what it finds, with what the patterns of the      *)
(* calls it makes stand for.  The invariant adds this up over the calls    *)
(* still to come.  A pattern as it was written need not be one the walk    *)
(* can be followed through, so the last part is about the parts it is cut  *)
(* into.                                                                   *)
(***************************************************************************)
EXTENDS FileGlob, ProofLemmas

(***************************************************************************)
(* One part and one name                                                   *)
(***************************************************************************)
\* A part without a wildcard stands for its own name.
LEMMA StandsPlain ==
    ASSUME NEW x \in Seq(Nat), ~Wild(x), NEW s \in Seq(Nat)
    PROVE  Stands(x, s) <=> Lower(x) = Lower(s)
<1> DEFINE p == Lower(x)
           t == Lower(s)
           n == Len(p)
           m == Len(t)
<1>1. PICK M : Rests(M, p, t) /\ (Stands(x, s) <=> 1 \in M[1])
  BY StandsByRests
<1>2. /\ p \in Seq(Nat) /\ n = Len(x) /\ n \in Nat /\ \A i \in 1 .. n : p[i] = LowerChar(x[i])
      /\ t \in Seq(Nat) /\ m \in Nat /\ n = Len(p) /\ m = Len(t)
  BY LowerIs
<1>3. \A i \in 1 .. n : p[i] # Star /\ p[i] # Question
  <2> SUFFICES ASSUME NEW i \in 1 .. n PROVE p[i] # Star /\ p[i] # Question
    OBVIOUS
  <2>1. x[i] \in Nat /\ x[i] \in ToSet(x)
    BY <1>2, ToSetOfSeq
  <2>2. x[i] # Star /\ x[i] # Question
    BY <2>1 DEF Wild
  <2> HIDE DEF p, n
  <2> QED BY <1>2, <2>1, <2>2, LowerCodes
<1> HIDE DEF p, t
<1>11. n \in Nat /\ m \in Nat
  BY <1>2
<1>4. /\ M[n + 1] = {m + 1}
      /\ \A i \in 1 .. n : /\ M[i + 1] \in SUBSET (1 .. m + 1) /\ M[i] = Begins(p[i], M[i + 1], t)
  <2>1. \A i \in 1 .. n : i \in 1 .. n + 1 /\ i + 1 \in 1 .. n + 1
    BY <1>2
  <2> QED BY <1>1, <2>1 DEF Rests
<1> HIDE DEF n, m
<1>5. \A i \in 1 .. n, j \in 1 .. m + 1 : j \in M[i] <=> j + 1 \in M[i + 1] /\ p[i] = t[j]
  BY <1>2, <1>3, <1>4 DEF Begins
<1> DEFINE Same(i, j) == n - i = m - j /\ \A k \in 0 .. n - i : p[i + k] = t[j + k]
           A == {e \in 0 .. n : \A j \in 1 .. m + 1 : j \in M[n + 1 - e] <=> Same(n + 1 - e, j)}
<1>6. 0 \in A
  <2>1. n + 1 - 0 = n + 1 /\ n - (n + 1) = -1
    BY <1>11
  <2>2. \A j \in 1 .. m + 1 : j \in M[n + 1] <=> j = m + 1
    BY <1>4
  <2>3. \A j \in 1 .. m + 1 : Same(n + 1, j) <=> j = m + 1
    BY <1>11, <2>1
  <2> HIDE DEF Same
  <2> QED BY <1>11, <2>1, <2>2, <2>3
<1>7. ASSUME NEW e \in 0 .. n, e \in A, e # n PROVE e + 1 \in A
  <2> DEFINE i == n - e
  <2>1. /\ i \in 1 .. n /\ i + 1 \in 1 .. n + 1 /\ n + 1 - e = i + 1 /\ n + 1 - (e + 1) = i
        /\ e + 1 \in 0 .. n
    BY <1>11, <1>7
  <2> HIDE DEF i
  <2>2. ASSUME NEW j \in 1 .. m + 1 PROVE j \in M[i] <=> Same(i, j)
    <3>1. j \in M[i] <=> j + 1 \in M[i + 1] /\ p[i] = t[j]
      <4>1. i \in 1 .. n
        BY <2>1
      <4> HIDE DEF Same, A
      <4> QED BY <1>5, <4>1, Zenon
    <3>2. CASE j = m + 1
      <4>1. j \notin M[i]
        <5>1. j + 1 \notin 1 .. m + 1
          BY <1>11, <3>2
        <5>2. M[i + 1] \in SUBSET (1 .. m + 1)
          BY <1>4, <2>1
        <5> QED BY <3>1, <5>1, <5>2
      <4>2. ~Same(i, j)
        BY <1>11, <2>1, <3>2
      <4> QED BY <4>1, <4>2
    <3>3. CASE j # m + 1
      <4>1. j \in 1 .. m /\ j + 1 \in 1 .. m + 1 /\ j \in Nat /\ i \in Nat
        BY <1>11, <2>1, <3>3
      <4>2. j + 1 \in M[i + 1] <=> Same(i + 1, j + 1)
        <5> HIDE DEF Same
        <5> QED BY <1>7, <2>1, <4>1
      <4>3. ASSUME Same(i + 1, j + 1), p[i] = t[j] PROVE Same(i, j)
        <5>1. n - i = m - j
          <6>1. n - (i + 1) = m - (j + 1)
            BY <4>3, Zenon
          <6>2. n \in Nat /\ m \in Nat /\ i \in Nat /\ j \in Nat
            BY <1>11, <4>1
          <6> HIDE DEF Same, A
          <6> QED BY <6>1, <6>2
        <5>2. ASSUME NEW k \in 0 .. n - i PROVE p[i + k] = t[j + k]
          <6>1. CASE k = 0
            BY <4>1, <4>3, <6>1
          <6>2. CASE k # 0
            <7>1. k - 1 \in 0 .. n - (i + 1) /\ i + 1 + (k - 1) = i + k /\ j + 1 + (k - 1) = j + k
              BY <1>11, <4>1, <6>2
            <7>2. p[i + 1 + (k - 1)] = t[j + 1 + (k - 1)]
              BY <4>3, <7>1
            <7> QED BY <7>1, <7>2
          <6> QED BY <6>1, <6>2
        <5> QED BY <5>1, <5>2
      <4>4. ASSUME Same(i, j) PROVE Same(i + 1, j + 1) /\ p[i] = t[j]
        <5>1. n - (i + 1) = m - (j + 1)
          BY <1>11, <4>1, <4>4
        <5>2. ASSUME NEW k \in 0 .. n - (i + 1) PROVE p[i + 1 + k] = t[j + 1 + k]
          <6>1. k + 1 \in 0 .. n - i /\ i + (k + 1) = i + 1 + k /\ j + (k + 1) = j + 1 + k
            BY <1>11, <4>1
          <6>2. p[i + (k + 1)] = t[j + (k + 1)]
            BY <4>4, <6>1
          <6> QED BY <6>1, <6>2
        <5>3. p[i + 0] = t[j + 0] /\ i + 0 = i /\ j + 0 = j
          <6>1. 0 \in 0 .. n - i /\ i + 0 = i /\ j + 0 = j
            BY <1>11, <2>1, <4>1
          <6> QED BY <4>4, <6>1
        <5> QED BY <5>1, <5>2, <5>3
      <4> HIDE DEF Same
      <4> QED BY <3>1, <4>2, <4>3, <4>4
    <3> QED BY <3>2, <3>3
  <2> HIDE DEF Same
  <2> QED BY <2>1, <2>2
<1>8. 0 .. n \subseteq A
  <2> HIDE DEF A
  <2> QED BY <1>11, <1>6, <1>7, Upward
<1>9. 1 \in M[1] <=> Same(1, 1)
  <2>1. n \in 0 .. n /\ n + 1 - n = 1 /\ 1 \in 1 .. m + 1
    BY <1>11
  <2>2. n \in A
    <3> HIDE DEF A
    <3> QED BY <1>8, <2>1
  <2> HIDE DEF Same
  <2> QED BY <2>1, <2>2
<1>10. Same(1, 1) <=> p = t
  <2>1. ASSUME Same(1, 1) PROVE p = t
    <3>1. n = m
      BY <1>11, <2>1
    <3>2. ASSUME NEW k \in 1 .. n PROVE p[k] = t[k]
      <4>1. k \in Nat /\ k - 1 \in 0 .. n - 1 /\ 1 + (k - 1) = k
        BY <1>11
      <4>2. p[1 + (k - 1)] = t[1 + (k - 1)]
        BY <2>1, <4>1
      <4> QED BY <4>1, <4>2
    <3>3. DOMAIN p = 1 .. n /\ DOMAIN t = 1 .. n
      <4>1. DOMAIN p = 1 .. Len(p) /\ DOMAIN t = 1 .. Len(t)
        BY <1>2, LenProperties
      <4>2. Len(p) = n /\ Len(t) = n
        BY <1>2, <3>1
      <4> QED BY <4>1, <4>2
    <3>4. p = [k \in 1 .. n |-> p[k]] /\ t = [k \in 1 .. n |-> t[k]]
      <4>1. p = [k \in DOMAIN p |-> p[k]] /\ t = [k \in DOMAIN t |-> t[k]]
        BY <1>2
      <4> QED BY <3>3, <4>1, Zenon
    <3> QED BY <3>2, <3>4, Zenon
  <2>2. ASSUME p = t PROVE Same(1, 1)
    <3>1. n = m
      BY <1>2, <2>2
    <3> QED BY <1>11, <2>2, <3>1
  <2> QED BY <2>1, <2>2
<1> QED BY <1>1, <1>9, <1>10 DEF p, t

\* A star alone stands for every name.
LEMMA StandsStar ==
    ASSUME NEW s \in Seq(Nat)
    PROVE  Stands(<<Star>>, s)
<1> DEFINE p == Lower(<<Star>>)
           t == Lower(s)
<1>1. <<Star>> \in Seq(Nat) /\ Star \in Nat
  BY DEF Star
<1>2. PICK M : Rests(M, p, t) /\ (Stands(<<Star>>, s) <=> 1 \in M[1])
  BY <1>1, StandsByRests
<1>3. /\ p \in Seq(Nat) /\ Len(p) = 1 /\ p[1] = LowerChar(Star) /\ Len(t) \in Nat
  <2>1. Len(<<Star>>) = 1 /\ <<Star>>[1] = Star /\ 1 \in 1 .. 1
    OBVIOUS
  <2>2. Len(t) \in Nat
    BY LowerIs
  <2> QED BY <1>1, <2>1, <2>2, LowerIs
<1>4. p[1] = Star
  BY <1>1, <1>3, LowerCodes
<1> HIDE DEF p, t
<1>5. M[1 + 1] = {Len(t) + 1} /\ M[1] = Begins(Star, M[1 + 1], t)
  BY <1>2, <1>3, <1>4 DEF Rests
<1>6. 1 \in M[1]
  BY <1>3, <1>5 DEF Begins
<1> QED BY <1>2, <1>6

(***************************************************************************)
(* A path read along a pattern: m[i] of its names are the first i parts    *)
(***************************************************************************)
Fits(part, name) == (part = << >>) = (name = << >>) /\ Stands(part, name)
Reads(m, parts, path) ==
    /\ m \in [0 .. Len(parts) -> 0 .. Len(path)]
    /\ m[0] = 0
    /\ \A i \in 1 .. Len(parts) :
          IF parts[i] = DoubleStar THEN m[i - 1] <= m[i]
          ELSE m[i] = m[i - 1] + 1 /\ Fits(parts[i], path[m[i]])
IsRead(parts, path) == \E m : Reads(m, parts, path) /\ m[Len(parts)] = Len(path)

\* How many names the first i parts may be, from how many the parts before i may be.
Onwards(part, before, path) ==
    {j \in 0 .. Len(path) :
       IF part = DoubleStar THEN \E k \in before : k <= j
       ELSE j - 1 \in before /\ Fits(part, path[j])}
UpTo(U, parts, path) ==
    /\ U[0] = {0}
    /\ \A i \in 1 .. Len(parts) :
          U[i] = Onwards(parts[i], U[i - 1], path)

\* The sets of module FileGlob, without the function they are defined with.
LEMMA StandsByUpTo ==
    ASSUME NEW parts \in Seq(Seq(Nat)), NEW path \in Seq(Seq(Nat))
    PROVE  \E U : UpTo(U, parts, path) /\ (StandsForPath(parts, path) <=> Len(path) \in U[Len(parts)])
<1> DEFINE n == Len(parts)
           S == SUBSET (0 .. Len(path))
           Of(part, before) ==
               {j \in 0 .. Len(path) :
                  IF part = DoubleStar THEN \E k \in before : k <= j
                  ELSE /\ j - 1 \in before
                       /\ (part = << >>) = (path[j] = << >>) /\ Stands(part, path[j])}
           step == [i \in 1 .. n |-> [B \in S |-> Of(parts[i], B)]]
           Is(f) == f = [i \in 0 .. Len(parts) |->
                            IF i = 0 THEN {0} ELSE Of(parts[i], f[i - 1])]
           F == CHOOSE f : Is(f)
<1>1. n \in Nat /\ Len(path) \in Nat /\ {0} \in S
  OBVIOUS
<1>2. step \in [1 .. n -> [S -> S]]
  OBVIOUS
<1>3. PICK f \in [0 .. n -> S] : Stepped(f, n, {0}, step)
  <2> HIDE DEF step, n, S
  <2> QED BY <1>1, <1>2, Stepwise
<1>4. f[0] = {0} /\ \A k \in 1 .. n : f[k] = step[k][f[k - 1]]
  BY <1>3, Zenon DEF Stepped
<1>5. ASSUME NEW i \in 0 .. n
      PROVE  f[i] = IF i = 0 THEN {0} ELSE Of(parts[i], f[i - 1])
  <2>1. CASE i = 0
    BY <1>4, <2>1
  <2>2. CASE i # 0
    <3>1. i \in 1 .. n /\ i - 1 \in 0 .. n
      BY <1>1, <2>2
    <3>2. f[i - 1] \in S
      <4> HIDE DEF S, n
      <4> QED BY <1>3, <3>1
    <3>3. step[i][f[i - 1]] = Of(parts[i], f[i - 1])
      <4> HIDE DEF S, Of
      <4> QED BY <3>1, <3>2
    <3> HIDE DEF step, Of
    <3> QED BY <1>4, <2>2, <3>1, <3>3, Zenon
  <2> QED BY <2>1, <2>2
<1>6. Is(f)
  <2>1. f = [k \in 0 .. n |-> f[k]]
    BY <1>3, Zenon
  <2> HIDE DEF Of
  <2> QED BY <1>5, <2>1, Zenon
<1>7. Is(F)
  <2> HIDE DEF Is
  <2> QED BY <1>6, Zenon
<1>8. StandsForPath(parts, path) <=> Len(path) \in F[Len(parts)]
  BY Zenon DEF StandsForPath
<1>9. /\ F[0] = {0}
      /\ \A i \in 1 .. n : F[i] = Of(parts[i], F[i - 1])
  <2> HIDE DEF F, Of
  <2>1. F = [i \in 0 .. n |-> IF i = 0 THEN {0} ELSE Of(parts[i], F[i - 1])]
    BY <1>7, Zenon
  <2>2. 0 \in 0 .. n /\ \A k \in 1 .. n : k \in 0 .. n /\ k # 0
    BY <1>1
  <2> QED BY <2>1, <2>2, Zenon
<1>10. ASSUME NEW part, NEW B PROVE Of(part, B) = Onwards(part, B, path)
  BY Zenon DEF Onwards, Fits
<1>11. UpTo(F, parts, path)
  <2> HIDE DEF F, Of
  <2> QED BY <1>9, <1>10, Zenon DEF UpTo
<1> HIDE DEF F
<1> QED BY <1>8, <1>11

\* What a pattern stands for is what can be read along it.
LEMMA PathIsRead ==
    ASSUME NEW parts \in Seq(Seq(Nat)), NEW path \in Seq(Seq(Nat))
    PROVE  StandsForPath(parts, path) <=> IsRead(parts, path)
<1> DEFINE n == Len(parts)
           l == Len(path)
<1>1. n \in Nat /\ l \in Nat
  OBVIOUS
<1>2. PICK U : UpTo(U, parts, path) /\ (StandsForPath(parts, path) <=> l \in U[n])
  BY StandsByUpTo
<1>3. /\ U[0] = {0}
      /\ \A i \in 1 .. n : U[i] = Onwards(parts[i], U[i - 1], path)
  BY <1>2 DEF UpTo
\* Every number of names there may be belongs to a reading of the parts so far.
<1> DEFINE Good(m, i) ==
               IF parts[i] = DoubleStar THEN m[i - 1] <= m[i]
               ELSE m[i] = m[i - 1] + 1 /\ Fits(parts[i], path[m[i]])
           Some(i, j) == \E m \in [0 .. i -> 0 .. l] :
                            /\ m[0] = 0 /\ m[i] = j
                            /\ \A k \in 1 .. i : Good(m, k)
           A == {i \in 0 .. n : \A j \in U[i] : Some(i, j)}
           R == {i \in 0 .. n : \A m : Reads(m, parts, path) => m[i] \in U[i]}
<1>4. 0 \in A
  <2> DEFINE m == [k \in 0 .. 0 |-> 0]
  <2>1. m \in [0 .. 0 -> 0 .. l] /\ m[0] = 0
    BY <1>1
  <2>2. \A k \in 1 .. 0 : Good(m, k)
    OBVIOUS
  <2> HIDE DEF m, Good
  <2>3. Some(0, 0)
    BY <2>1, <2>2
  <2> HIDE DEF Some
  <2> QED BY <1>1, <1>3, <2>3
<1>5. ASSUME NEW i \in 0 .. n, i \in A, i # n PROVE i + 1 \in A
  <2>1. i + 1 \in 1 .. n /\ i + 1 \in 0 .. n /\ (i + 1) - 1 = i /\ i \in Nat
    BY <1>1, <1>5
  <2>2. SUFFICES ASSUME NEW j \in U[i + 1] PROVE Some(i + 1, j)
    <3> HIDE DEF Some
    <3> QED BY <2>1
  <2>3. U[i + 1] = Onwards(parts[i + 1], U[i], path)
    BY <1>3, <2>1
  <2>4. j \in 0 .. l
    BY <2>2, <2>3 DEF Onwards
  <2>5. PICK k \in U[i] : IF parts[i + 1] = DoubleStar THEN k <= j
                          ELSE j = k + 1 /\ Fits(parts[i + 1], path[j])
    <3>1. CASE parts[i + 1] = DoubleStar
      BY <2>2, <2>3, <3>1 DEF Onwards
    <3>2. CASE parts[i + 1] # DoubleStar
      <4>1. j - 1 \in U[i] /\ Fits(parts[i + 1], path[j])
        BY <2>2, <2>3, <3>2 DEF Onwards
      <4>2. j = (j - 1) + 1
        BY <1>1, <2>4
      <4> QED BY <3>2, <4>1, <4>2
    <3> QED BY <3>1, <3>2
  <2>6. PICK g \in [0 .. i -> 0 .. l] : g[0] = 0 /\ g[i] = k /\ \A x \in 1 .. i : Good(g, x)
    BY <1>5
  <2> DEFINE m == [x \in 0 .. i + 1 |-> IF x = i + 1 THEN j ELSE g[x]]
  <2>7. m \in [0 .. i + 1 -> 0 .. l]
    BY <2>1, <2>4
  <2>8. (\A x \in 0 .. i : m[x] = g[x]) /\ m[i + 1] = j
    BY <2>1
  <2> HIDE DEF m
  <2>9. ASSUME NEW x \in 1 .. i + 1 PROVE Good(m, x)
    <3>1. CASE x = i + 1
      <4>1. m[i] = k
        BY <2>1, <2>6, <2>8
      <4>2. m[x] = j /\ m[x - 1] = k
        BY <2>1, <2>8, <3>1, <4>1
      <4> QED BY <2>5, <3>1, <4>2
    <3>2. CASE x # i + 1
      <4>1. x \in 1 .. i /\ x \in 0 .. i /\ x - 1 \in 0 .. i
        <5>1. i \in Nat
          BY <2>1
        <5> HIDE DEF A, Good, Some, n
        <5> QED BY <3>2, <5>1
      <4>2. Good(g, x) /\ m[x] = g[x] /\ m[x - 1] = g[x - 1]
        BY <2>6, <2>8, <4>1
      <4> QED BY <4>2
    <3> QED BY <3>1, <3>2
  <2>10. m[0] = 0
    <3>1. 0 \in 0 .. i
      BY <2>1
    <3> QED BY <2>6, <2>8, <3>1
  <2> HIDE DEF Good
  <2> QED BY <2>7, <2>8, <2>9, <2>10
<1>6. 0 \in R
  BY <1>1, <1>3 DEF Reads
<1>7. ASSUME NEW i \in 0 .. n, i \in R, i # n PROVE i + 1 \in R
  <2>1. i + 1 \in 1 .. n /\ i + 1 \in 0 .. n /\ (i + 1) - 1 = i /\ i \in Nat
    BY <1>1, <1>7
  <2>2. SUFFICES ASSUME NEW m, Reads(m, parts, path) PROVE m[i + 1] \in U[i + 1]
    BY <2>1
  <2>3. m[i] \in U[i]
    BY <1>7, <2>2
  <2>4. m \in [0 .. n -> 0 .. l] /\ Good(m, i + 1)
    BY <2>1, <2>2 DEF Reads
  <2>5. m[i + 1] \in 0 .. l /\ m[i] \in 0 .. l
    BY <2>1, <2>4
  <2>6. U[i + 1] = Onwards(parts[i + 1], U[i], path)
    BY <1>3, <2>1
  <2>7. CASE parts[i + 1] = DoubleStar
    BY <2>1, <2>3, <2>4, <2>5, <2>6, <2>7 DEF Onwards
  <2>8. CASE parts[i + 1] # DoubleStar
    <3>1. m[i + 1] = m[i] + 1 /\ Fits(parts[i + 1], path[m[i + 1]])
      BY <2>1, <2>4, <2>8
    <3>2. m[i + 1] - 1 = m[i]
      BY <2>5, <3>1
    <3> QED BY <2>3, <2>5, <2>6, <2>8, <3>1, <3>2 DEF Onwards
  <2> QED BY <2>7, <2>8
<1>8. n \in A /\ n \in R
  <2>1. 0 .. n \subseteq A /\ 0 .. n \subseteq R
    <3> HIDE DEF A, R, n
    <3> QED BY <1>1, <1>4, <1>5, <1>6, <1>7, Upward
  <2> HIDE DEF A, R
  <2> QED BY <1>1, <2>1
<1>9. ASSUME l \in U[n] PROVE IsRead(parts, path)
  <2>1. PICK m \in [0 .. n -> 0 .. l] : m[0] = 0 /\ m[n] = l /\ \A k \in 1 .. n : Good(m, k)
    <3>1. Some(n, l)
      <4> HIDE DEF Some
      <4> QED BY <1>8, <1>9
    <3> QED BY <3>1
  <2>2. Reads(m, parts, path)
    BY <2>1 DEF Reads
  <2> QED BY <2>1, <2>2 DEF IsRead
<1>10. ASSUME IsRead(parts, path) PROVE l \in U[n]
  BY <1>8, <1>10 DEF IsRead
<1> QED BY <1>2, <1>9, <1>10

(***************************************************************************)
(* Patterns with a part replaced, put in or taken out                      *)
(***************************************************************************)
\* The first k elements, one more, and those from the l-th on.
Joined(s, k, x, l) == SubSeq(s, 1, k) \o <<x>> \o SubSeq(s, l, Len(s))

\* Its length and its elements.
LEMMA CutAndJoin ==
    ASSUME NEW S, NEW s \in Seq(S), NEW k \in 0 .. Len(s), NEW l \in 1 .. Len(s) + 1, NEW x \in S
    PROVE  /\ Joined(s, k, x, l) \in Seq(S)
           /\ Len(Joined(s, k, x, l)) = k + 1 + (Len(s) + 1 - l)
           /\ \A i \in 1 .. Len(Joined(s, k, x, l)) :
                 Joined(s, k, x, l)[i] = IF i <= k THEN s[i] ELSE IF i = k + 1 THEN x ELSE s[i - (k + 1) + (l - 1)]
<1> DEFINE n == Len(s)
           u == SubSeq(s, 1, k)
           v == SubSeq(s, l, n)
           y == u \o <<x>>
           z == y \o v
<1>1. n \in Nat /\ k \in Nat /\ k <= n /\ l \in Nat /\ l >= 1 /\ l <= n + 1
  OBVIOUS
<1>2. \A i \in 1 .. n : s[i] \in S
  OBVIOUS
<1>3. u \in Seq(S) /\ Len(u) = k /\ \A i \in 1 .. k : u[i] = s[i]
  <2> HIDE DEF n
  <2>1. (\A i \in 1 .. k : s[i] \in S) /\ 1 \in Int /\ k \in Int
    BY <1>1, <1>2
  <2>2. /\ u \in Seq(S) /\ Len(u) = IF 1 <= k THEN k - 1 + 1 ELSE 0
        /\ \A i \in 1 .. k - 1 + 1 : u[i] = s[1 + i - 1]
    BY <2>1, SubSeqProperties
  <2> HIDE DEF u
  <2> QED BY <1>1, <2>2
<1>4. v \in Seq(S) /\ Len(v) = n + 1 - l /\ \A i \in 1 .. n + 1 - l : v[i] = s[i + (l - 1)]
  <2> HIDE DEF n
  <2>1. (\A i \in l .. n : s[i] \in S) /\ l \in Int /\ n \in Int
    BY <1>1, <1>2
  <2>2. /\ v \in Seq(S) /\ Len(v) = IF l <= n THEN n - l + 1 ELSE 0
        /\ \A i \in 1 .. n - l + 1 : v[i] = s[l + i - 1]
    BY <2>1, SubSeqProperties
  <2>3. n - l + 1 = n + 1 - l /\ \A i \in 1 .. n + 1 - l : l + i - 1 = i + (l - 1)
    BY <1>1
  <2> HIDE DEF v
  <2> QED BY <1>1, <2>2, <2>3
<1> HIDE DEF u, v, n
<1>5. y \in Seq(S) /\ Len(y) = k + 1 /\ (\A i \in 1 .. k : y[i] = s[i]) /\ y[k + 1] = x
  <2>1. <<x>> \in Seq(S) /\ Len(<<x>>) = 1 /\ <<x>>[1] = x
    OBVIOUS
  <2> DEFINE o == <<x>>
  <2>2. o \in Seq(S) /\ Len(o) = 1 /\ o[1] = x
    BY <2>1
  <2> HIDE DEF o
  <2> DEFINE c == u \o o
  <2>3. /\ c \in Seq(S) /\ Len(c) = Len(u) + Len(o)
        /\ \A i \in 1 .. Len(u) + Len(o) : c[i] = IF i <= Len(u) THEN u[i] ELSE o[i - Len(u)]
    BY <1>3, <2>2, ConcatProperties, Zenon
  <2> HIDE DEF c
  <2>4. c \in Seq(S) /\ Len(c) = k + 1 /\ \A i \in 1 .. k + 1 : c[i] = IF i <= k THEN u[i] ELSE o[i - k]
    BY <1>3, <2>2, <2>3
  <2>5. (\A i \in 1 .. k : i \in 1 .. k + 1 /\ i <= k) /\ k + 1 \in 1 .. k + 1 /\ ~(k + 1 <= k) /\ k + 1 - k = 1
    BY <1>1
  <2>6. c \in Seq(S) /\ Len(c) = k + 1 /\ (\A i \in 1 .. k : c[i] = s[i]) /\ c[k + 1] = x
    BY <1>3, <2>2, <2>4, <2>5
  <2> QED BY <2>6, Zenon DEF c, o
<1> HIDE DEF y
<1>6. /\ z \in Seq(S) /\ Len(z) = Len(y) + Len(v)
      /\ \A i \in 1 .. Len(y) + Len(v) : z[i] = IF i <= Len(y) THEN y[i] ELSE v[i - Len(y)]
  BY <1>4, <1>5, ConcatProperties, Zenon
<1> DEFINE r == Joined(s, k, x, l)
<1>7. z = r
  BY Zenon DEF z, y, u, v, n, Joined
<1> HIDE DEF z, r
<1>8. Len(y) + Len(v) = k + 1 + (n + 1 - l)
  BY <1>4, <1>5
<1>9. /\ r \in Seq(S) /\ Len(r) = k + 1 + (n + 1 - l)
      /\ \A i \in 1 .. k + 1 + (n + 1 - l) : r[i] = IF i <= k + 1 THEN y[i] ELSE v[i - (k + 1)]
  BY <1>5, <1>6, <1>7, <1>8
<1>10. ASSUME NEW i \in 1 .. Len(r)
       PROVE  r[i] = IF i <= k THEN s[i] ELSE IF i = k + 1 THEN x ELSE s[i - (k + 1) + (l - 1)]
  <2>1. CASE i <= k
    <3>1. i \in 1 .. k /\ i <= k + 1
      BY <1>1, <1>9, <2>1
    <3> QED BY <1>5, <1>9, <2>1, <3>1
  <2>2. CASE i = k + 1
    <3>1. ~(i <= k) /\ i <= k + 1
      BY <1>1, <2>2
    <3> QED BY <1>5, <1>9, <2>2, <3>1
  <2>3. CASE ~(i <= k) /\ i # k + 1
    <3>1. ~(i <= k + 1) /\ i - (k + 1) \in 1 .. n + 1 - l
      BY <1>1, <1>9, <2>3
    <3> QED BY <1>4, <1>9, <2>3, <3>1
  <2> QED BY <2>1, <2>2, <2>3
<1>11. /\ r \in Seq(S) /\ Len(r) = k + 1 + (Len(s) + 1 - l)
       /\ \A i \in 1 .. Len(r) :
             r[i] = IF i <= k THEN s[i] ELSE IF i = k + 1 THEN x ELSE s[i - (k + 1) + (l - 1)]
  BY <1>9, <1>10 DEF n
<1> QED BY <1>11, Zenon DEF r

\* The pattern GlobHelper() goes on with in a directory it found.
Into(q, w, d) == SubSeq(q, 1, w - 1) \o <<d>> \o SubSeq(q, w + 1, Len(q))

\* A pattern with its w-th part made the name of a directory.
LEMMA IntoIs ==
    ASSUME NEW q \in Seq(Seq(Nat)), NEW w \in 1 .. Len(q), NEW d \in Seq(Nat)
    PROVE  /\ Into(q, w, d) \in Seq(Seq(Nat)) /\ Len(Into(q, w, d)) = Len(q)
           /\ \A i \in 1 .. Len(q) : Into(q, w, d)[i] = IF i = w THEN d ELSE q[i]
<1> DEFINE r == Into(q, w, d)
           k == w - 1
           l == w + 1
<1>1. k \in 0 .. Len(q) /\ l \in 1 .. Len(q) + 1 /\ Len(q) \in Nat /\ w \in Nat
  OBVIOUS
<1>2. r = Joined(q, k, d, l)
  BY Zenon DEF Into, Joined
<1> HIDE DEF r
<1>3. /\ r \in Seq(Seq(Nat)) /\ Len(r) = k + 1 + (Len(q) + 1 - l)
      /\ \A i \in 1 .. Len(r) :
            r[i] = IF i <= k THEN q[i] ELSE IF i = k + 1 THEN d ELSE q[i - (k + 1) + (l - 1)]
  <2> HIDE DEF k, l
  <2>1. /\ Joined(q, k, d, l) \in Seq(Seq(Nat))
        /\ Len(Joined(q, k, d, l)) = k + 1 + (Len(q) + 1 - l)
        /\ \A i \in 1 .. Len(Joined(q, k, d, l)) :
              Joined(q, k, d, l)[i] = IF i <= k THEN q[i] ELSE IF i = k + 1 THEN d
                                      ELSE q[i - (k + 1) + (l - 1)]
    BY <1>1, CutAndJoin
  <2> QED BY <1>2, <2>1, Zenon
<1>4. k + 1 = w /\ l - 1 = w /\ k + 1 + (Len(q) + 1 - l) = Len(q)
  BY <1>1
<1>5. \A i \in 1 .. Len(q) : i - (k + 1) + (l - 1) = i /\ (i <= k => i # w)
  BY <1>1
<1> HIDE DEF k, l
<1>6. /\ r \in Seq(Seq(Nat)) /\ Len(r) = Len(q)
      /\ \A i \in 1 .. Len(q) : r[i] = IF i = w THEN d ELSE q[i]
  BY <1>3, <1>4, <1>5
<1> QED BY <1>6, Zenon DEF r

\* A pattern with a "*" put before its w-th part.
LEMMA BelowIs ==
    ASSUME NEW p \in Seq(Seq(Nat)), NEW w \in 1 .. Len(p)
    PROVE  /\ Below(p, w) \in Seq(Seq(Nat)) /\ Len(Below(p, w)) = Len(p) + 1
           /\ \A i \in 1 .. Len(p) + 1 :
                 Below(p, w)[i] = IF i < w THEN p[i] ELSE IF i = w THEN <<Star>> ELSE p[i - 1]
<1> DEFINE r == Below(p, w)
           k == w - 1
           x == <<Star>>
<1>1. /\ k \in 0 .. Len(p) /\ w \in 1 .. Len(p) + 1 /\ Len(p) \in Nat /\ w \in Nat
      /\ x \in Seq(Nat)
  BY DEF Star
<1>2. r = Joined(p, k, x, w)
  BY Zenon DEF Below, Joined
<1> HIDE DEF r
<1>3. /\ r \in Seq(Seq(Nat)) /\ Len(r) = k + 1 + (Len(p) + 1 - w)
      /\ \A i \in 1 .. Len(r) :
            r[i] = IF i <= k THEN p[i] ELSE IF i = k + 1 THEN x ELSE p[i - (k + 1) + (w - 1)]
  <2> HIDE DEF k, x
  <2>1. /\ Joined(p, k, x, w) \in Seq(Seq(Nat))
        /\ Len(Joined(p, k, x, w)) = k + 1 + (Len(p) + 1 - w)
        /\ \A i \in 1 .. Len(Joined(p, k, x, w)) :
              Joined(p, k, x, w)[i] = IF i <= k THEN p[i] ELSE IF i = k + 1 THEN x
                                      ELSE p[i - (k + 1) + (w - 1)]
    BY <1>1, CutAndJoin
  <2> QED BY <1>2, <2>1, Zenon
<1>4. k + 1 = w /\ k + 1 + (Len(p) + 1 - w) = Len(p) + 1
  BY <1>1
<1>5. \A i \in 1 .. Len(p) + 1 : i - (k + 1) + (w - 1) = i - 1 /\ (i <= k <=> i < w)
  BY <1>1
<1> HIDE DEF k
<1> HIDE DEF x
<1>6. /\ r \in Seq(Seq(Nat)) /\ Len(r) = Len(p) + 1
      /\ \A i \in 1 .. Len(p) + 1 : r[i] = IF i < w THEN p[i] ELSE IF i = w THEN x ELSE p[i - 1]
  <2>1. r \in Seq(Seq(Nat)) /\ Len(r) = Len(p) + 1
    BY <1>3, <1>4
  <2>2. ASSUME NEW i \in 1 .. Len(p) + 1
        PROVE  r[i] = IF i < w THEN p[i] ELSE IF i = w THEN x ELSE p[i - 1]
    <3>1. i - (k + 1) + (w - 1) = i - 1 /\ (i <= k <=> i < w)
      BY <1>5
    <3>2. r[i] = IF i <= k THEN p[i] ELSE IF i = k + 1 THEN x ELSE p[i - (k + 1) + (w - 1)]
      BY <1>3, <2>1, <2>2
    <3> QED BY <1>4, <3>1, <3>2, Zenon
  <2> QED BY <2>1, <2>2
<1> QED BY <1>6, Zenon DEF r, x

\* A sequence without its w-th element.
LEMMA RemoveIs ==
    ASSUME NEW S, NEW p \in Seq(S), NEW w \in 1 .. Len(p)
    PROVE  /\ RemoveAt(p, w) \in Seq(S) /\ Len(RemoveAt(p, w)) = Len(p) - 1
           /\ \A i \in 1 .. Len(p) - 1 : RemoveAt(p, w)[i] = IF i < w THEN p[i] ELSE p[i + 1]
<1> DEFINE n == Len(p)
           u == SubSeq(p, 1, w - 1)
           v == SubSeq(p, w + 1, n)
           r == u \o v
<1>1. n \in Nat /\ w \in Nat /\ w >= 1 /\ w <= n
  OBVIOUS
<1>2. \A i \in 1 .. n : p[i] \in S
  OBVIOUS
<1>3. u \in Seq(S) /\ Len(u) = w - 1 /\ \A i \in 1 .. w - 1 : u[i] = p[i]
  <2> HIDE DEF n
  <2>1. (\A i \in 1 .. w - 1 : p[i] \in S) /\ 1 \in Int /\ w - 1 \in Int
    BY <1>1, <1>2
  <2>2. /\ u \in Seq(S) /\ Len(u) = IF 1 <= w - 1 THEN (w - 1) - 1 + 1 ELSE 0
        /\ \A i \in 1 .. (w - 1) - 1 + 1 : u[i] = p[1 + i - 1]
    BY <2>1, SubSeqProperties
  <2> HIDE DEF u
  <2> QED BY <1>1, <2>2
<1>4. v \in Seq(S) /\ Len(v) = n - w /\ \A i \in 1 .. n - w : v[i] = p[i + w]
  <2> HIDE DEF n
  <2>1. (\A i \in w + 1 .. n : p[i] \in S) /\ w + 1 \in Int /\ n \in Int
    BY <1>1, <1>2
  <2>2. /\ v \in Seq(S) /\ Len(v) = IF w + 1 <= n THEN n - (w + 1) + 1 ELSE 0
        /\ \A i \in 1 .. n - (w + 1) + 1 : v[i] = p[(w + 1) + i - 1]
    BY <2>1, SubSeqProperties
  <2>3. n - (w + 1) + 1 = n - w /\ \A i \in 1 .. n - w : (w + 1) + i - 1 = i + w
    BY <1>1
  <2> HIDE DEF v
  <2> QED BY <1>1, <2>2, <2>3
<1> HIDE DEF u, v, n
<1>5. /\ r \in Seq(S) /\ Len(r) = Len(u) + Len(v)
      /\ \A i \in 1 .. Len(u) + Len(v) : r[i] = IF i <= Len(u) THEN u[i] ELSE v[i - Len(u)]
  BY <1>3, <1>4, ConcatProperties, Zenon
<1> HIDE DEF r
<1>6. Len(u) = w - 1 /\ Len(u) + Len(v) = n - 1
  BY <1>1, <1>3, <1>4
<1>7. ASSUME NEW i \in 1 .. n - 1
      PROVE  r[i] = IF i < w THEN p[i] ELSE p[i + 1]
  <2>1. CASE i < w
    <3>1. i \in 1 .. w - 1 /\ i <= w - 1
      BY <1>1, <2>1
    <3> QED BY <1>3, <1>5, <1>6, <2>1, <3>1
  <2>2. CASE ~(i < w)
    <3>1. ~(i <= w - 1) /\ i - (w - 1) \in 1 .. n - w /\ i - (w - 1) + w = i + 1
      BY <1>1, <2>2
    <3> QED BY <1>4, <1>5, <1>6, <2>2, <3>1
  <2> QED BY <2>1, <2>2
<1>8. /\ r \in Seq(S) /\ Len(r) = n - 1
      /\ \A i \in 1 .. n - 1 : r[i] = IF i < w THEN p[i] ELSE p[i + 1]
  BY <1>5, <1>6, <1>7
<1> QED BY <1>8, Zenon DEF r, u, v, n, RemoveAt

(***************************************************************************)
(* The names and the paths there are                                       *)
(***************************************************************************)
\* The names there are, and those that are written as well.
Names == NamesIn(Tree)
Spelled == NamesIn(Tree \cup Written)

\* A name of a file has no wildcard.
LEMMA FileNameIs ==
    ASSUME NEW s, IsFileName(s)
    PROVE  s \in Seq(Nat) /\ s \in Seq(Nat \ {0}) /\ s # << >> /\ ~Wild(s)
<1>1. s \in Seq(Nat \ {0, Star, Question}) /\ s # << >>
  BY DEF IsFileName
<1>2. ~Wild(s)
  BY <1>1, ToSetOfSeq DEF Wild
<1>3. s \in Seq(Nat) /\ s \in Seq(Nat \ {0})
  BY <1>1
<1> QED BY <1>1, <1>2, <1>3

\* The path of a file.
LEMMA FileIs ==
    ASSUME NEW f \in Tree
    PROVE  /\ f \in Seq(Seq(Nat)) /\ Len(f) \in Nat \ {0}
           /\ \A i \in 1 .. Len(f) : IsFileName(f[i]) /\ f[i] \in Names
<1>1. f \in Seq(Seq(Nat)) /\ f # << >> /\ \A i \in DOMAIN f : IsFileName(f[i])
  BY TreeAssumption
<1>2. Len(f) \in Nat \ {0} /\ DOMAIN f = 1 .. Len(f)
  BY <1>1, EmptySeq, LenProperties
<1>3. \A i \in 1 .. Len(f) : f[i] \in ToSet(f)
  BY <1>1, ToSetOfSeq
<1>4. ToSet(f) \subseteq Names
  BY Zenon DEF Names, NamesIn
<1> QED BY <1>1, <1>2, <1>3, <1>4

\* A path begins with the names of a file, and ends with its name or, as the path of a
\* directory, with an empty name.
LEMMA PathIs ==
    ASSUME NEW path \in There
    PROVE  /\ path \in Seq(Seq(Nat)) /\ Len(path) \in Nat \ {0}
           /\ \A i \in 1 .. Len(path) :
                 path[i] # << >> => IsFileName(path[i]) /\ path[i] \in Names
           /\ \A i \in 1 .. Len(path) - 1 : path[i] # << >>
           /\ path[Len(path)] # << >> => path \in Tree
           /\ \E f \in Tree : /\ Len(path) <= Len(f)
                              /\ \A i \in 1 .. Len(path) - 1 : f[i] = path[i]
<1>1. CASE path \in Tree
  <2>1. /\ path \in Seq(Seq(Nat)) /\ Len(path) \in Nat \ {0}
        /\ \A i \in 1 .. Len(path) : IsFileName(path[i]) /\ path[i] \in Names
    BY <1>1, FileIs
  <2>2. \A i \in 1 .. Len(path) - 1 : path[i] # << >>
    <3>1. \A i \in 1 .. Len(path) - 1 : i \in 1 .. Len(path)
      BY <2>1
    <3> QED BY <2>1, <3>1, FileNameIs, Zenon
  <2>3. Len(path) <= Len(path)
    BY <2>1
  <2> QED BY <1>1, <2>1, <2>2, <2>3, Zenon
<1>2. CASE path \in Dirs
  <2>1. PICK f \in Tree : path \in {SubSeq(f, 1, n) \o Slash : n \in 1 .. Len(f) - 1}
    BY <1>2, Zenon DEF Dirs
  <2>2. PICK n \in 1 .. Len(f) - 1 : path = SubSeq(f, 1, n) \o Slash
    BY <2>1
  <2>3. /\ f \in Seq(Seq(Nat)) /\ Len(f) \in Nat \ {0}
        /\ \A i \in 1 .. Len(f) : IsFileName(f[i]) /\ f[i] \in Names
    BY FileIs
  <2> DEFINE u == SubSeq(f, 1, n)
             l == Len(f)
  <2>4. n \in Nat /\ n >= 1 /\ n < l /\ l \in Nat
    BY <2>3
  <2>5. u \in Seq(Seq(Nat)) /\ Len(u) = n /\ \A i \in 1 .. n : u[i] = f[i]
    <3>1. (\A i \in 1 .. n : f[i] \in Seq(Nat)) /\ 1 \in Int /\ n \in Int
      BY <2>3, <2>4
    <3>2. /\ u \in Seq(Seq(Nat)) /\ Len(u) = IF 1 <= n THEN n - 1 + 1 ELSE 0
          /\ \A i \in 1 .. n - 1 + 1 : u[i] = f[1 + i - 1]
      BY <3>1, SubSeqProperties
    <3> HIDE DEF u
    <3> QED BY <2>4, <3>2
  <2>6. Slash \in Seq(Seq(Nat)) /\ Len(Slash) = 1 /\ Slash[1] = << >>
    BY DEF Slash
  <2> HIDE DEF u, l
  <2> DEFINE z == u \o Slash
  <2>7. /\ z \in Seq(Seq(Nat)) /\ Len(z) = Len(u) + Len(Slash)
        /\ \A i \in 1 .. Len(u) + Len(Slash) : z[i] = IF i <= Len(u) THEN u[i] ELSE Slash[i - Len(u)]
    BY <2>5, <2>6, ConcatProperties, Zenon
  <2>8. z = path
    BY <2>2, Zenon DEF u
  <2> HIDE DEF z
  <2>9. /\ path \in Seq(Seq(Nat)) /\ Len(path) = n + 1
        /\ \A i \in 1 .. n + 1 : path[i] = IF i <= n THEN u[i] ELSE Slash[i - n]
    BY <2>5, <2>6, <2>7, <2>8
  <2>10. \A i \in 1 .. n : i \in 1 .. n + 1 /\ i <= n /\ i \in 1 .. l
    BY <2>4
  <2>11. \A i \in 1 .. n : path[i] = f[i]
    BY <2>5, <2>9, <2>10
  <2>12. path[n + 1] = << >>
    <3>1. n + 1 \in 1 .. n + 1 /\ ~(n + 1 <= n) /\ n + 1 - n = 1
      BY <2>4
    <3> QED BY <2>6, <2>9, <3>1
  <2>13. \A i \in 1 .. n : IsFileName(path[i]) /\ path[i] \in Names /\ path[i] # << >>
    <3>1. \A i \in 1 .. n : IsFileName(path[i]) /\ path[i] \in Names
      BY <2>3, <2>10, <2>11 DEF l
    <3> QED BY <3>1, FileNameIs, Zenon
  <2>14. /\ Len(path) \in Nat \ {0} /\ Len(path) - 1 = n /\ Len(path) <= l
         /\ \A i \in 1 .. Len(path) : i \in 1 .. n \/ i = n + 1
    BY <2>4, <2>9
  <2>15. path[Len(path)] = << >>
    BY <2>9, <2>12
  <2>16. \A i \in 1 .. Len(path) : path[i] # << >> => IsFileName(path[i]) /\ path[i] \in Names
    BY <2>12, <2>13, <2>14, Zenon
  <2>17. \A i \in 1 .. Len(path) - 1 : path[i] # << >> /\ f[i] = path[i]
    BY <2>11, <2>13, <2>14
  <2> QED BY <2>9, <2>14, <2>15, <2>16, <2>17, Zenon DEF l
<1> QED BY <1>1, <1>2, Zenon DEF There

\* A plain part fits its own name and no other.
LEMMA PlainFits ==
    ASSUME NEW x \in Seq(Nat), ~Wild(x), x # << >> => x \in Spelled,
           NEW s \in Seq(Nat), s # << >> => s \in Names
    PROVE  Fits(x, s) <=> x = s
<1>1. Stands(x, s) <=> Lower(x) = Lower(s)
  BY StandsPlain
<1>2. ASSUME Fits(x, s), x # << >> PROVE x = s
  BY <1>1, <1>2, SpellingAssumption, Zenon DEF Fits, Names, Spelled
<1>3. ASSUME x = s PROVE Fits(x, s)
  BY <1>1, <1>3, Zenon DEF Fits
<1>4. ASSUME Fits(x, s), x = << >> PROVE x = s
  BY <1>4, Zenon DEF Fits
<1> QED BY <1>2, <1>3, <1>4, Zenon

\* A directory or a file is taken by the code if it fits the part.
LEMMA NameFits ==
    ASSUME NEW x \in Seq(Nat), x # << >>, NEW s, IsFileName(s)
    PROVE  Fits(x, s) <=> WildMatch(x, s)
<1>1. s \in Seq(Nat \ {0}) /\ s # << >>
  BY FileNameIs
<1> QED BY <1>1, WildMatchIs, Zenon DEF Fits

(***************************************************************************)
(* The patterns the walk meets                                             *)
(***************************************************************************)
\* Only the last part may be empty, for a directory; a "**" is before a part of another kind.
IsGlob(p) ==
    /\ p \in Seq(Seq(Nat)) /\ Len(p) \in Nat \ {0}
    /\ p[Len(p)] # DoubleStar
    /\ \A i \in 1 .. Len(p) - 1 :
          p[i] # << >> /\ (p[i] = DoubleStar => p[i + 1] # << >> /\ p[i + 1] # DoubleStar)
    /\ \A i \in 1 .. Len(p) : ~Wild(p[i]) /\ p[i] # << >> => p[i] \in Spelled
\* The parts before w name directories.
PlainTo(p, w) == w \in 1 .. Len(p) /\ \A i \in 1 .. w - 1 : ~Wild(p[i])

\* What a pattern stands for.
Sem(p) == {path \in There : IsRead(p, path)}

\* The star and the two stars are wildcards, and are names.
LEMMA StarsWild ==
    /\ Wild(DoubleStar) /\ Wild(<<Star>>) /\ <<Star>> # DoubleStar
    /\ DoubleStar \in Seq(Nat) /\ <<Star>> \in Seq(Nat) /\ <<Star>> # << >> /\ DoubleStar # << >>
<1>1. Star \in ToSet(DoubleStar) /\ Star \in ToSet(<<Star>>)
  <2>1. DoubleStar \in Seq(Nat) /\ Len(DoubleStar) = 2 /\ DoubleStar[1] = Star
    BY DEF DoubleStar, Star
  <2>2. <<Star>> \in Seq(Nat) /\ Len(<<Star>>) = 1 /\ <<Star>>[1] = Star
    BY DEF Star
  <2>3. 1 \in 1 .. 2 /\ 1 \in 1 .. 1
    OBVIOUS
  <2> QED BY <2>1, <2>2, <2>3, ToSetOfSeq
<1> QED BY <1>1 DEF Wild, DoubleStar, Star

\* Later parts are never fewer names.
LEMMA ReadsGrow ==
    ASSUME NEW p \in Seq(Seq(Nat)), NEW path \in Seq(Seq(Nat)), NEW m, Reads(m, p, path)
    PROVE  \A i, j \in 0 .. Len(p) : i <= j => m[i] <= m[j]
<1> DEFINE n == Len(p)
           A == {j \in 0 .. n : \A i \in 0 .. j : m[i] <= m[j]}
<1>1. n \in Nat /\ Len(path) \in Nat /\ m \in [0 .. n -> 0 .. Len(path)]
  BY DEF Reads
<1>2. \A i \in 0 .. n : m[i] \in Nat
  <2>1. \A i \in 0 .. n : m[i] \in 0 .. Len(path)
    BY <1>1
  <2> QED BY <1>1, <2>1
<1>3. 0 \in A
  <2>1. m[0] <= m[0]
    BY <1>1, <1>2
  <2> QED BY <1>1, <2>1
<1>4. ASSUME NEW j \in 0 .. n, j \in A, j # n PROVE j + 1 \in A
  <2>1. j + 1 \in 1 .. n /\ j + 1 \in 0 .. n /\ (j + 1) - 1 = j /\ j \in Nat
    BY <1>1, <1>4
  <2>2. m[j] <= m[j + 1]
    <3>1. CASE p[j + 1] = DoubleStar
      BY <2>1, <3>1 DEF Reads
    <3>2. CASE p[j + 1] # DoubleStar
      <4>1. m[j + 1] = m[j] + 1
        BY <2>1, <3>2 DEF Reads
      <4> QED BY <1>2, <2>1, <4>1
    <3> QED BY <3>1, <3>2
  <2>3. ASSUME NEW i \in 0 .. j + 1 PROVE m[i] <= m[j + 1]
    <3>1. CASE i = j + 1
      BY <1>2, <2>1, <3>1
    <3>2. CASE i # j + 1
      <4>1. i \in 0 .. j /\ i \in 0 .. n
        BY <1>1, <2>1, <3>2
      <4>2. m[i] <= m[j]
        BY <1>4, <4>1
      <4> QED BY <1>2, <1>4, <2>1, <2>2, <4>1, <4>2
    <3> QED BY <3>1, <3>2
  <2> QED BY <2>1, <2>3
<1>5. 0 .. n \subseteq A
  <2> HIDE DEF A, n
  <2> QED BY <1>1, <1>3, <1>4, Upward
<1>6. ASSUME NEW i \in 0 .. n, NEW j \in 0 .. n, i <= j PROVE m[i] <= m[j]
  <2>1. i \in 0 .. j /\ j \in A
    BY <1>5, <1>6
  <2> QED BY <2>1
<1> QED BY <1>6

\* The last part is one name, so there is always a name left for it.
LEMMA NameLeft ==
    ASSUME NEW p, IsGlob(p), NEW path \in Seq(Seq(Nat)), NEW m, Reads(m, p, path),
           NEW i \in 0 .. Len(p) - 1
    PROVE  m[i] \in Nat /\ m[i] < m[Len(p)] /\ m[Len(p)] <= Len(path)
<1> DEFINE n == Len(p)
           k == n - 1
<1>1. p \in Seq(Seq(Nat)) /\ n \in Nat \ {0} /\ p[n] # DoubleStar
  BY DEF IsGlob
<1>2. Len(path) \in Nat /\ m \in [0 .. n -> 0 .. Len(path)]
  BY <1>1 DEF Reads
<1>3. /\ n \in 1 .. n /\ n \in 0 .. n /\ k \in 0 .. n /\ n - 1 = k /\ i <= k
      /\ i \in 0 .. n
  BY <1>1
<1>4. m[n] = m[k] + 1
  BY <1>1, <1>3 DEF Reads
<1> HIDE DEF k
<1>5. m[i] <= m[k]
  BY <1>1, <1>3, ReadsGrow
<1>6. m[i] \in Nat /\ m[k] \in Nat /\ m[n] \in Nat /\ m[n] <= Len(path)
  <2>1. m[i] \in 0 .. Len(path) /\ m[k] \in 0 .. Len(path) /\ m[n] \in 0 .. Len(path)
    BY <1>2, <1>3
  <2> QED BY <1>2, <2>1
<1> HIDE DEF n
<1>7. m[i] < m[n]
  BY <1>4, <1>5, <1>6
<1> QED BY <1>6, <1>7 DEF n

\* The plain parts at the beginning are the first names of the path.
LEMMA PlainHead ==
    ASSUME NEW p, IsGlob(p), NEW w, PlainTo(p, w), NEW path \in There,
           NEW m, Reads(m, p, path)
    PROVE  /\ \A i \in 0 .. w - 1 : m[i] = i
           /\ \A i \in 1 .. w - 1 : i <= Len(path) /\ path[i] = p[i]
<1> DEFINE n == Len(p)
           A == {i \in 0 .. w - 1 : m[i] = i /\ (i # 0 => i <= Len(path) /\ path[i] = p[i])}
<1>1. /\ p \in Seq(Seq(Nat)) /\ n \in Nat /\ w \in 1 .. n /\ w - 1 \in Nat
      /\ \A i \in 1 .. n : p[i] \in Seq(Nat)
  BY DEF IsGlob, PlainTo
<1>2. /\ path \in Seq(Seq(Nat)) /\ Len(path) \in Nat
      /\ \A i \in 1 .. Len(path) : path[i] \in Seq(Nat) /\ (path[i] # << >> => path[i] \in Names)
  <2>1. path \in Seq(Seq(Nat)) /\ Len(path) \in Nat
        /\ \A i \in 1 .. Len(path) : path[i] # << >> => path[i] \in Names
    BY PathIs
  <2> QED BY <2>1
<1>3. m \in [0 .. n -> 0 .. Len(path)] /\ m[0] = 0
  BY DEF Reads
<1>4. 0 \in A
  BY <1>1, <1>3
<1>5. ASSUME NEW i \in 0 .. w - 1, i \in A, i # w - 1 PROVE i + 1 \in A
  <2>1. /\ i + 1 \in 1 .. w - 1 /\ i + 1 \in 1 .. n /\ (i + 1) - 1 = i /\ i \in Nat
        /\ i + 1 \in 0 .. w - 1 /\ i + 1 \in 0 .. n /\ i + 1 # 0
    BY <1>1, <1>5
  <2> DEFINE x == p[i + 1]
             s == path[i + 1]
  <2>2. x \in Seq(Nat) /\ ~Wild(x) /\ (x # << >> => x \in Spelled)
    BY <1>1, <2>1 DEF IsGlob, PlainTo
  <2>3. x # DoubleStar
    BY <2>2, StarsWild
  <2>4. m[i] = i
    BY <1>5
  <2>5. m[i + 1] = i + 1 /\ Fits(x, s)
    BY <2>1, <2>3, <2>4 DEF Reads
  <2>6. i + 1 \in 1 .. Len(path) /\ i + 1 <= Len(path)
    <3>1. m[i + 1] \in 0 .. Len(path)
      BY <1>3, <2>1
    <3> QED BY <2>1, <2>5, <3>1
  <2>7. s \in Seq(Nat) /\ (s # << >> => s \in Names)
    BY <1>2, <2>6
  <2> HIDE DEF x, s
  <2>8. x = s
    BY <2>2, <2>5, <2>7, PlainFits
  <2>9. path[i + 1] = p[i + 1]
    BY <2>8 DEF x, s
  <2> QED BY <2>1, <2>5, <2>6, <2>9
<1>6. 0 .. w - 1 \subseteq A
  <2> HIDE DEF A
  <2> QED BY <1>1, <1>4, <1>5, Upward
<1>7. \A i \in 1 .. w - 1 : i \in 0 .. w - 1 /\ i # 0
  BY <1>1
<1> QED BY <1>6, <1>7

(***************************************************************************)
(* A part looked up                                                        *)
(***************************************************************************)
\* The w-th part is looked up next, among the names in the directory before it.
IsNext(q, w) == IsGlob(q) /\ PlainTo(q, w) /\ q[w] # DoubleStar /\ q[w] # << >>
Base(q, w) == SubSeq(q, 1, w - 1)
Fitting(names, part) == {n \in names : WildMatch(part, n)}

\* The parts before the w-th.
LEMMA BaseIs ==
    ASSUME NEW q \in Seq(Seq(Nat)), NEW w \in 1 .. Len(q)
    PROVE  /\ Base(q, w) \in Seq(Seq(Nat)) /\ Len(Base(q, w)) = w - 1
           /\ \A i \in 1 .. w - 1 : Base(q, w)[i] = q[i]
<1> DEFINE u == SubSeq(q, 1, w - 1)
<1>1. w \in Nat /\ w >= 1 /\ w - 1 \in Int /\ 1 \in Int /\ \A i \in 1 .. w - 1 : q[i] \in Seq(Nat)
  OBVIOUS
<1>2. /\ u \in Seq(Seq(Nat)) /\ Len(u) = IF 1 <= w - 1 THEN w - 1 - 1 + 1 ELSE 0
      /\ \A i \in 1 .. w - 1 - 1 + 1 : u[i] = q[1 + i - 1]
  BY <1>1, SubSeqProperties
<1> HIDE DEF u
<1>3. u \in Seq(Seq(Nat)) /\ Len(u) = w - 1 /\ \A i \in 1 .. w - 1 : u[i] = q[i]
  BY <1>1, <1>2
<1> QED BY <1>3, Zenon DEF u, Base

\* The part looked up is the name at its place.
LEMMA NextName ==
    ASSUME NEW q, NEW w, IsNext(q, w), NEW path \in There, NEW m, Reads(m, q, path)
    PROVE  /\ m[w] = w /\ w \in 1 .. Len(path) /\ Fits(q[w], path[w])
           /\ IsFileName(path[w]) /\ path[w] \in Names
           /\ \A i \in 1 .. w - 1 : path[i] = q[i]
           /\ w < Len(q) => w < Len(path)
<1>1. /\ IsGlob(q) /\ PlainTo(q, w) /\ q[w] # DoubleStar /\ q[w] # << >>
      /\ q \in Seq(Seq(Nat)) /\ Len(q) \in Nat /\ w \in 1 .. Len(q)
  BY DEF IsNext, IsGlob, PlainTo
<1>2. /\ path \in Seq(Seq(Nat)) /\ Len(path) \in Nat
      /\ \A i \in 1 .. Len(path) : path[i] # << >> => IsFileName(path[i]) /\ path[i] \in Names
  BY PathIs
<1>3. /\ \A i \in 0 .. w - 1 : m[i] = i
      /\ \A i \in 1 .. w - 1 : path[i] = q[i]
  BY <1>1, PlainHead
<1>4. w - 1 \in 0 .. w - 1 /\ w \in 0 .. Len(q) /\ (w - 1) + 1 = w /\ w \in Nat /\ w # 0
  BY <1>1
<1>5. m[w] = w /\ Fits(q[w], path[w])
  BY <1>1, <1>3, <1>4 DEF Reads
<1>6. w \in 1 .. Len(path)
  <2>1. m[w] \in 0 .. Len(path)
    BY <1>4 DEF Reads
  <2> QED BY <1>4, <1>5, <2>1
<1>7. path[w] # << >>
  BY <1>1, <1>5, Zenon DEF Fits
<1>8. ASSUME w < Len(q) PROVE w < Len(path)
  <2>1. w \in 0 .. Len(q) - 1
    BY <1>1, <1>4, <1>8
  <2>2. m[w] < m[Len(q)] /\ m[Len(q)] <= Len(path)
    BY <1>1, <1>2, <2>1, NameLeft
  <2>3. m[Len(q)] \in 0 .. Len(path)
    <3>1. Len(q) \in 0 .. Len(q)
      BY <1>1
    <3> QED BY <3>1 DEF Reads
  <2> QED BY <1>2, <1>4, <1>5, <2>2, <2>3
<1> QED BY <1>2, <1>3, <1>5, <1>6, <1>7, <1>8

\* The files found are the paths the pattern stands for.
LEMMA LookUpFiles ==
    ASSUME NEW q, NEW w, IsNext(q, w), w = Len(q)
    PROVE  Sem(q) = {Append(Base(q, w), f) : f \in Fitting(FilesIn(Base(q, w)), q[w])}
<1> DEFINE base == Base(q, w)
           x == q[w]
           finds == {Append(base, f) : f \in Fitting(FilesIn(base), x)}
<1>1. /\ IsGlob(q) /\ PlainTo(q, w) /\ x # DoubleStar /\ x # << >> /\ x \in Seq(Nat)
      /\ q \in Seq(Seq(Nat)) /\ Len(q) \in Nat /\ w \in 1 .. Len(q) /\ w \in Nat /\ w - 1 \in Nat
      /\ w - 1 + 1 = w
  BY DEF IsNext, IsGlob, PlainTo
<1>2. base \in Seq(Seq(Nat)) /\ Len(base) = w - 1 /\ \A i \in 1 .. w - 1 : base[i] = q[i]
  BY <1>1, BaseIs
<1> HIDE DEF base
<1>3. ASSUME NEW path \in Sem(q) PROVE path \in finds
  <2>1. path \in There
    BY <1>3 DEF Sem
  <2>2. PICK m : Reads(m, q, path) /\ m[Len(q)] = Len(path)
    BY <1>3 DEF Sem, IsRead
  <2>3. /\ m[w] = w /\ Fits(x, path[w]) /\ IsFileName(path[w]) /\ \A i \in 1 .. w - 1 : path[i] = q[i]
    BY <2>1, <2>2, NextName
  <2>4. Len(path) = w
    BY <2>2, <2>3
  <2>5. path \in Seq(Seq(Nat)) /\ path \in Tree
    <3>1. path[Len(path)] # << >>
      BY <2>3, <2>4, FileNameIs
    <3> QED BY <2>1, <3>1, PathIs
  <2> DEFINE s == path[w]
             front == SubSeq(path, 1, w - 1)
             joined == Append(base, s)
  <2>6. s \in Seq(Nat) /\ WildMatch(x, s)
    <3>1. s \in Seq(Nat)
      BY <2>3, FileNameIs
    <3> QED BY <1>1, <2>3, <3>1, NameFits
  <2>7. front = base
    <3>1. front = Base(path, w)
      BY Zenon DEF Base
    <3>2. w \in 1 .. Len(path)
      BY <1>1, <2>4
    <3>3. front \in Seq(Seq(Nat)) /\ Len(front) = w - 1 /\ \A i \in 1 .. w - 1 : front[i] = path[i]
      BY <2>5, <3>1, <3>2, BaseIs, Zenon
    <3> HIDE DEF front
    <3>4. Len(front) = Len(base) /\ \A i \in 1 .. Len(front) : front[i] = base[i]
      BY <1>2, <2>3, <3>3
    <3> QED BY <1>2, <3>3, <3>4, SeqEqual
  <2>8. s \in FilesIn(base)
    <3>1. Front(path) = base /\ Last(path) = s
      BY <2>4, <2>7, Zenon DEF Front, Last
    <3> QED BY <2>5, <3>1, Zenon DEF FilesIn
  <2>9. joined = path
    <3>1. /\ joined \in Seq(Seq(Nat)) /\ Len(joined) = w
          /\ (\A i \in 1 .. w - 1 : joined[i] = base[i]) /\ joined[w] = s
      BY <1>1, <1>2, <2>6, AppendProperties
    <3> HIDE DEF joined
    <3>2. \A i \in 1 .. w : i \in 1 .. w - 1 \/ i = w
      BY <1>1
    <3>3. Len(joined) = Len(path) /\ \A i \in 1 .. Len(joined) : joined[i] = path[i]
      BY <1>2, <2>3, <2>4, <3>1, <3>2 DEF s
    <3> QED BY <2>5, <3>1, <3>3, SeqEqual
  <2> QED BY <2>6, <2>8, <2>9, Zenon DEF Fitting
<1>4. ASSUME NEW f \in Fitting(FilesIn(base), x) PROVE Append(base, f) \in Sem(q)
  <2>1. f \in FilesIn(base) /\ WildMatch(x, f)
    BY <1>4, Zenon DEF Fitting
  <2>2. PICK g \in Tree : Front(g) = base /\ f = Last(g)
    BY <2>1, Zenon DEF FilesIn
  <2>3. /\ g \in Seq(Seq(Nat)) /\ Len(g) \in Nat \ {0}
        /\ \A i \in 1 .. Len(g) : IsFileName(g[i]) /\ g[i] \in Names
    BY FileIs
  <2>4. Len(g) = w /\ \A i \in 1 .. w - 1 : g[i] = q[i]
    <3> DEFINE l == Len(g)
               front == SubSeq(g, 1, l - 1)
    <3>1. front = Base(g, l) /\ l \in 1 .. Len(g)
      <4>1. l \in 1 .. Len(g)
        BY <2>3
      <4> QED BY <4>1, Zenon DEF Base
    <3>2. Len(front) = l - 1 /\ \A i \in 1 .. l - 1 : front[i] = g[i]
      BY <2>3, <3>1, BaseIs, Zenon
    <3>3. front = base
      BY <2>2, Zenon DEF Front
    <3> HIDE DEF front
    <3>4. l = w
      BY <1>1, <1>2, <2>3, <3>2, <3>3
    <3> QED BY <1>2, <3>2, <3>3, <3>4
  <2>5. f = g[w] /\ IsFileName(f) /\ f \in Seq(Nat)
    <3>1. f = g[w] /\ w \in 1 .. Len(g)
      BY <1>1, <2>2, <2>4 DEF Last
    <3> QED BY <2>3, <3>1, FileNameIs
  <2> DEFINE path == Append(base, f)
  <2>6. path = g
    <3>1. /\ path \in Seq(Seq(Nat)) /\ Len(path) = w
          /\ (\A i \in 1 .. w - 1 : path[i] = base[i]) /\ path[w] = f
      BY <1>1, <1>2, <2>5, AppendProperties
    <3> HIDE DEF path
    <3>2. \A i \in 1 .. w : i \in 1 .. w - 1 \/ i = w
      BY <1>1
    <3>3. Len(path) = Len(g)
      BY <2>4, <3>1
    <3>4. ASSUME NEW i \in 1 .. Len(path) PROVE path[i] = g[i]
      <4>1. CASE i = w
        BY <2>5, <3>1, <4>1
      <4>2. CASE i \in 1 .. w - 1
        BY <1>2, <2>4, <3>1, <4>2
      <4> QED BY <3>1, <3>2, <3>4, <4>1, <4>2
    <3> QED BY <2>3, <3>1, <3>3, <3>4, SeqEqual
  <2> DEFINE m == [i \in 0 .. w |-> i]
  <2>7. \A i \in 0 .. w : m[i] = i
    OBVIOUS
  <2>8. m \in [0 .. Len(q) -> 0 .. Len(g)]
    BY <2>4
  <2> HIDE DEF m
  <2>9. ASSUME NEW i \in 1 .. Len(q)
        PROVE  q[i] # DoubleStar /\ m[i] = m[i - 1] + 1 /\ Fits(q[i], g[m[i]])
    <3>1. m[i] = i /\ m[i - 1] = i - 1 /\ i = i - 1 + 1
      <4>1. i \in 0 .. w /\ i - 1 \in 0 .. w /\ i = i - 1 + 1
        BY <1>1
      <4> QED BY <2>7, <4>1
    <3>2. CASE i = w
      <4>1. Fits(x, f)
        BY <1>1, <2>1, <2>5, NameFits
      <4> QED BY <1>1, <2>5, <3>1, <3>2, <4>1
    <3>3. CASE i # w
      <4>1. i \in 1 .. w - 1 /\ i \in 1 .. Len(g)
        BY <1>1, <2>4, <3>3
      <4>2. ~Wild(q[i]) /\ g[i] = q[i] /\ q[i] \in Seq(Nat)
        BY <1>1, <2>4, <4>1 DEF PlainTo
      <4>3. q[i] # DoubleStar /\ (q[i] # << >> => q[i] \in Spelled)
        BY <1>1, <4>2, StarsWild DEF IsGlob
      <4>4. g[i] # << >> => g[i] \in Names
        BY <2>3, <4>1
      <4>5. Fits(q[i], g[i])
        BY <4>2, <4>3, <4>4, PlainFits, Zenon
      <4> QED BY <3>1, <4>3, <4>5
    <3> QED BY <3>2, <3>3
  <2>10. 0 \in 0 .. w /\ w \in 0 .. w
    BY <1>1
  <2>11. Reads(m, q, g) /\ m[Len(q)] = Len(g)
    BY <2>4, <2>7, <2>8, <2>9, <2>10 DEF Reads
  <2>12. g \in There
    BY DEF There
  <2>13. g \in Sem(q)
    BY <2>11, <2>12, Zenon DEF Sem, IsRead
  <2> QED BY <2>6, <2>13
<1>5. Sem(q) = finds
  <2>1. finds \subseteq Sem(q)
    <3> HIDE DEF x
    <3> QED BY <1>4, Zenon
  <2> HIDE DEF finds
  <2> QED BY <1>3, <2>1
<1> QED BY <1>5, Zenon DEF base

\* A part replaced by one that fits the same name.
LEMMA ReadsReplaced ==
    ASSUME NEW q \in Seq(Seq(Nat)), NEW r \in Seq(Seq(Nat)), Len(r) = Len(q),
           NEW w \in 1 .. Len(q), \A i \in 1 .. Len(q) : i # w => r[i] = q[i],
           q[w] # DoubleStar, r[w] # DoubleStar,
           NEW path, NEW m, Reads(m, q, path), Fits(r[w], path[m[w]])
    PROVE  Reads(m, r, path)
<1>1. m \in [0 .. Len(r) -> 0 .. Len(path)] /\ m[0] = 0
  BY DEF Reads
<1>2. ASSUME NEW i \in 1 .. Len(r)
      PROVE  IF r[i] = DoubleStar THEN m[i - 1] <= m[i]
             ELSE m[i] = m[i - 1] + 1 /\ Fits(r[i], path[m[i]])
  <2>1. IF q[i] = DoubleStar THEN m[i - 1] <= m[i]
        ELSE m[i] = m[i - 1] + 1 /\ Fits(q[i], path[m[i]])
    BY <1>2 DEF Reads
  <2>2. CASE i = w
    BY <2>1, <2>2
  <2>3. CASE i # w
    BY <1>2, <2>1, <2>3
  <2> QED BY <2>2, <2>3
<1> QED BY <1>1, <1>2 DEF Reads

\* The names of the directories below a directory.
LEMMA DirIs ==
    ASSUME NEW base, NEW d \in DirsIn(base)
    PROVE  \E g \in Tree : /\ Len(g) > Len(base) + 1 /\ IsPrefix(base, g)
                           /\ d = g[Len(base) + 1]
BY Zenon DEF DirsIn

\* The directories found, put in the place of the part that was looked up.
LEMMA IntoGlob ==
    ASSUME NEW q, NEW w, IsNext(q, w), w < Len(q), NEW d \in DirsIn(Base(q, w))
    PROVE  /\ IsFileName(d) /\ d \in Names
           /\ IsNext(Into(q, w, d), w)
           /\ Len(Into(q, w, d)) = Len(q) /\ Into(q, w, d)[w] = d
           /\ \A i \in 1 .. Len(q) : i # w => Into(q, w, d)[i] = q[i]
           /\ Last(Into(q, w, d)) = Last(q)
<1>1. /\ IsGlob(q) /\ PlainTo(q, w) /\ q[w] # DoubleStar /\ q[w] # << >>
      /\ q \in Seq(Seq(Nat)) /\ Len(q) \in Nat /\ w \in 1 .. Len(q) /\ w \in Nat
  BY DEF IsNext, IsGlob, PlainTo
<1> DEFINE base == Base(q, w)
           r == Into(q, w, d)
<1>2. Len(base) = w - 1
  BY <1>1, BaseIs
<1> HIDE DEF base
<1>3. PICK g \in Tree : Len(g) > Len(base) + 1 /\ d = g[Len(base) + 1]
  <2>1. d \in DirsIn(base)
    BY DEF base
  <2> QED BY <2>1, DirIs, Zenon
<1>4. IsFileName(d) /\ d \in Names
  <2>1. Len(g) \in Nat /\ \A i \in 1 .. Len(g) : IsFileName(g[i]) /\ g[i] \in Names
    BY FileIs
  <2>2. w \in 1 .. Len(g) /\ d = g[w]
    BY <1>1, <1>2, <1>3, <2>1
  <2> QED BY <2>1, <2>2
<1>5. d \in Seq(Nat) /\ d # << >> /\ ~Wild(d) /\ d # DoubleStar
  BY <1>4, FileNameIs, StarsWild
<1>6. /\ r \in Seq(Seq(Nat)) /\ Len(r) = Len(q) /\ r[w] = d
      /\ \A i \in 1 .. Len(q) : i # w => r[i] = q[i]
  <2>1. /\ r \in Seq(Seq(Nat)) /\ Len(r) = Len(q)
        /\ \A i \in 1 .. Len(q) : r[i] = IF i = w THEN d ELSE q[i]
    BY <1>1, <1>5, IntoIs, Zenon
  <2> HIDE DEF r
  <2> QED BY <1>1, <2>1
<1> HIDE DEF r
<1>7. Len(q) \in 1 .. Len(q) /\ Len(q) # w
  BY <1>1
<1>8. r[Len(r)] = q[Len(q)]
  BY <1>6, <1>7
<1>9. IsGlob(r)
  <2>1. Len(r) \in Nat \ {0} /\ r[Len(r)] # DoubleStar
    BY <1>1, <1>6, <1>8 DEF IsGlob
  <2>2. ASSUME NEW i \in 1 .. Len(r) - 1
        PROVE  r[i] # << >> /\ (r[i] = DoubleStar => r[i + 1] # << >> /\ r[i + 1] # DoubleStar)
    <3>1. i \in 1 .. Len(q) - 1 /\ i \in 1 .. Len(q) /\ i + 1 \in 1 .. Len(q)
      BY <1>1, <1>6
    <3>2. CASE i = w
      BY <1>5, <1>6, <3>2
    <3>3. CASE i # w
      <4>1. r[i] = q[i] /\ q[i] # << >>
            /\ (q[i] = DoubleStar => q[i + 1] # << >> /\ q[i + 1] # DoubleStar)
        BY <1>1, <1>6, <3>1, <3>3 DEF IsGlob
      <4>2. r[i + 1] = q[i + 1] \/ r[i + 1] = d
        BY <1>6, <3>1
      <4> QED BY <1>5, <4>1, <4>2
    <3> QED BY <3>2, <3>3
  <2>3. ASSUME NEW i \in 1 .. Len(r), ~Wild(r[i]), r[i] # << >> PROVE r[i] \in Spelled
    <3>1. CASE i = w
      <4>1. Names \subseteq Spelled
        BY Zenon DEF Names, Spelled, NamesIn
      <4> QED BY <1>4, <1>6, <3>1, <4>1
    <3>2. CASE i # w
      <4>1. r[i] = q[i] /\ i \in 1 .. Len(q)
        BY <1>6, <2>3, <3>2
      <4> QED BY <1>1, <2>3, <4>1 DEF IsGlob
    <3> QED BY <3>1, <3>2
  <2> QED BY <1>6, <2>1, <2>2, <2>3 DEF IsGlob
<1>10. PlainTo(r, w)
  <2>1. \A i \in 1 .. w - 1 : i \in 1 .. Len(q) /\ i # w
    BY <1>1
  <2>2. \A i \in 1 .. w - 1 : ~Wild(r[i])
    BY <1>1, <1>6, <2>1 DEF PlainTo
  <2> QED BY <1>1, <1>6, <2>2 DEF PlainTo
<1>11. IsNext(r, w)
  BY <1>5, <1>6, <1>9, <1>10 DEF IsNext
<1> QED BY <1>4, <1>6, <1>8, <1>11, Zenon DEF r, Last

\* A path the pattern stands for is below one of the directories found.
LEMMA LookUpDirs ==
    ASSUME NEW q, NEW w, IsNext(q, w), w < Len(q)
    PROVE  Sem(q) = UNION {Sem(Into(q, w, d)) : d \in Fitting(DirsIn(Base(q, w)), q[w])}
<1> DEFINE base == Base(q, w)
           x == q[w]
           D == Fitting(DirsIn(base), x)
<1>1. /\ IsGlob(q) /\ PlainTo(q, w) /\ x # DoubleStar /\ x # << >> /\ x \in Seq(Nat)
      /\ q \in Seq(Seq(Nat)) /\ Len(q) \in Nat /\ w \in 1 .. Len(q) /\ w \in Nat /\ w - 1 + 1 = w
  BY DEF IsNext, IsGlob, PlainTo
<1>2. base \in Seq(Seq(Nat)) /\ Len(base) = w - 1 /\ \A i \in 1 .. w - 1 : base[i] = q[i]
  BY <1>1, BaseIs
<1>3. ASSUME NEW d \in DirsIn(base)
      PROVE  /\ IsFileName(d) /\ d \in Names /\ IsNext(Into(q, w, d), w)
             /\ d # DoubleStar /\ d \in Seq(Nat) /\ ~Wild(d)
             /\ Into(q, w, d) \in Seq(Seq(Nat))
             /\ Len(Into(q, w, d)) = Len(q) /\ Into(q, w, d)[w] = d
             /\ \A i \in 1 .. Len(q) : i # w => Into(q, w, d)[i] = q[i]
  <2>1. /\ IsFileName(d) /\ d \in Names /\ IsNext(Into(q, w, d), w)
        /\ Len(Into(q, w, d)) = Len(q) /\ Into(q, w, d)[w] = d
        /\ \A i \in 1 .. Len(q) : i # w => Into(q, w, d)[i] = q[i]
    BY <1>3, IntoGlob
  <2>2. d \in Seq(Nat) /\ ~Wild(d) /\ d # DoubleStar
    BY <2>1, FileNameIs, StarsWild
  <2>3. Into(q, w, d) \in Seq(Seq(Nat))
    BY <2>1, Zenon DEF IsNext, IsGlob
  <2> QED BY <2>1, <2>2, <2>3, Zenon
<1> HIDE DEF base
<1>4. ASSUME NEW path \in Sem(q) PROVE \E d \in D : path \in Sem(Into(q, w, d))
  <2>1. path \in There
    BY <1>4 DEF Sem
  <2>2. PICK m : Reads(m, q, path) /\ m[Len(q)] = Len(path)
    BY <1>4 DEF Sem, IsRead
  <2> DEFINE d == path[w]
  <2>3. /\ m[w] = w /\ w \in 1 .. Len(path) /\ Fits(x, d) /\ IsFileName(d) /\ d \in Names
        /\ (\A i \in 1 .. w - 1 : path[i] = q[i]) /\ w < Len(path)
    BY <2>1, <2>2, NextName
  <2>4. path \in Seq(Seq(Nat)) /\ Len(path) \in Nat
    BY <2>1, PathIs
  <2>5. PICK f \in Tree : Len(path) <= Len(f) /\ \A i \in 1 .. Len(path) - 1 : f[i] = path[i]
    BY <2>1, PathIs
  <2>6. f \in Seq(Seq(Nat)) /\ Len(f) \in Nat
    BY FileIs
  <2>7. f[w] = d /\ w < Len(f) /\ w \in 1 .. Len(f) /\ \A i \in 1 .. w - 1 : f[i] = q[i]
    <3>1. w \in 1 .. Len(path) - 1 /\ \A i \in 1 .. w - 1 : i \in 1 .. Len(path) - 1
      BY <1>1, <2>3, <2>4
    <3>2. w < Len(f) /\ w \in 1 .. Len(f)
      <4> DEFINE a == Len(path)
                 b == Len(f)
      <4>1. w \in 1 .. a /\ w < a /\ a <= b /\ a \in Nat /\ b \in Nat
        BY <2>3, <2>4, <2>5, <2>6
      <4> HIDE DEF a, b, D
      <4>2. w < b /\ w \in 1 .. b
        BY <4>1
      <4> QED BY <4>2 DEF b
    <3> QED BY <2>3, <2>5, <3>1, <3>2
  <2> HIDE DEF d
  <2>8. IsPrefix(base, f)
    <3> DEFINE u == SubSeq(base, 1, w - 1)
               v == SubSeq(f, 1, w - 1)
    <3>1. v = Base(f, w)
      BY Zenon DEF Base
    <3>2. v \in Seq(Seq(Nat)) /\ Len(v) = w - 1 /\ \A i \in 1 .. w - 1 : v[i] = f[i]
      BY <2>6, <2>7, <3>1, BaseIs, Zenon
    <3> HIDE DEF v
    <3>3. v = base
      <4>1. Len(v) = Len(base) /\ \A i \in 1 .. Len(v) : v[i] = base[i]
        BY <1>2, <2>7, <3>2
      <4> QED BY <1>2, <3>2, <4>1, SeqEqual
    <3>4. u = base
      <4>1. SubSeq(base, 1, Len(base)) = base
        BY <1>2, SubSeqFull
      <4> QED BY <1>2, <4>1
    <3>5. Len(base) <= Len(f)
      BY <1>1, <1>2, <2>6, <2>7
    <3> HIDE DEF u
    <3>6. SubSeq(base, 1, Len(base)) = SubSeq(f, 1, Len(base))
      BY <1>2, <3>3, <3>4, Zenon DEF u, v
    <3> QED BY <3>5, <3>6, Zenon DEF IsPrefix
  <2>9. d \in DirsIn(base)
    <3>1. Len(f) > Len(base) + 1 /\ d = f[Len(base) + 1]
      BY <1>1, <1>2, <2>6, <2>7
    <3> QED BY <2>8, <3>1, Zenon DEF DirsIn
  <2>10. d \in D
    <3>1. WildMatch(x, d)
      BY <1>1, <2>3, NameFits
    <3> QED BY <2>9, <3>1, Zenon DEF Fitting
  <2> DEFINE r == Into(q, w, d)
  <2>11. /\ r \in Seq(Seq(Nat)) /\ Len(r) = Len(q) /\ r[w] = d /\ d # DoubleStar
         /\ \A i \in 1 .. Len(q) : i # w => r[i] = q[i]
    BY <1>3, <2>9, Zenon
  <2>12. Fits(d, d)
    <3>1. d \in Seq(Nat) /\ ~Wild(d) /\ d \in Spelled
      <4>1. Names \subseteq Spelled
        BY Zenon DEF Names, Spelled, NamesIn
      <4> QED BY <2>3, <4>1, FileNameIs
    <3> QED BY <2>3, <3>1, PlainFits
  <2> HIDE DEF r
  <2>13. Fits(r[w], path[m[w]])
    BY <2>3, <2>11, <2>12 DEF d
  <2>14. Reads(m, r, path)
    BY <1>1, <2>2, <2>11, <2>13, ReadsReplaced, Zenon
  <2>15. path \in Sem(r)
    BY <2>1, <2>2, <2>11, <2>14, Zenon DEF Sem, IsRead
  <2> QED BY <2>10, <2>15 DEF r
<1>5. ASSUME NEW d \in D, NEW path \in Sem(Into(q, w, d)) PROVE path \in Sem(q)
  <2> DEFINE r == Into(q, w, d)
  <2>1. path \in There
    BY <1>5 DEF Sem
  <2>2. d \in DirsIn(base) /\ WildMatch(x, d)
    BY <1>5, Zenon DEF Fitting
  <2>3. /\ IsFileName(d) /\ d \in Names /\ d \in Seq(Nat) /\ ~Wild(d) /\ IsNext(r, w)
        /\ r \in Seq(Seq(Nat)) /\ Len(r) = Len(q) /\ r[w] = d /\ d # DoubleStar
        /\ \A i \in 1 .. Len(q) : i # w => r[i] = q[i]
    BY <1>3, <2>2, Zenon
  <2>4. PICK m : Reads(m, r, path) /\ m[Len(r)] = Len(path)
    BY <1>5 DEF Sem, IsRead
  <2> HIDE DEF r
  <2>5. m[w] = w /\ Fits(d, path[w]) /\ IsFileName(path[w]) /\ path[w] \in Names
    BY <2>1, <2>3, <2>4, NextName
  <2>6. path[w] = d
    <3>1. path[w] \in Seq(Nat) /\ d \in Spelled
      <4>1. Names \subseteq Spelled
        BY Zenon DEF Names, Spelled, NamesIn
      <4> QED BY <2>3, <2>5, <4>1, FileNameIs
    <3> QED BY <2>3, <2>5, <3>1, PlainFits
  <2>7. Fits(x, path[m[w]])
    BY <1>1, <2>2, <2>3, <2>5, <2>6, NameFits
  <2>8. Reads(m, q, path)
    <3>1. Len(q) = Len(r) /\ w \in 1 .. Len(r) /\ \A i \in 1 .. Len(r) : i # w => q[i] = r[i]
      BY <1>1, <2>3
    <3>2. q[w] # DoubleStar /\ r[w] # DoubleStar /\ Fits(q[w], path[m[w]])
      BY <1>1, <2>3, <2>7
    <3> QED BY <1>1, <2>3, <2>4, <3>1, <3>2, ReadsReplaced, Zenon
  <2> QED BY <2>1, <2>3, <2>4, <2>8, Zenon DEF Sem, IsRead
<1>6. Sem(q) = UNION {Sem(Into(q, w, d)) : d \in D}
  <2> HIDE DEF D
  <2> QED BY <1>4, <1>5, Zenon
<1> QED BY <1>6, Zenon DEF base

(***************************************************************************)
(* A "**" taken out, or put below a directory                              *)
(***************************************************************************)
\* k names may be read with the part when j are read before it.
Follows(j, k, part, path) ==
    IF part = DoubleStar THEN j <= k ELSE k = j + 1 /\ Fits(part, path[k])

\* A path read along a pattern, one part after the other.
LEMMA ReadsIs ==
    ASSUME NEW m, NEW p, NEW path
    PROVE  Reads(m, p, path) <=>
              /\ m \in [0 .. Len(p) -> 0 .. Len(path)] /\ m[0] = 0
              /\ \A i \in 1 .. Len(p) : Follows(m[i - 1], m[i], p[i], path)
BY Zenon DEF Reads, Follows

\* A part more or less does not change what comes before and after it.
LEMMA DoubleStarOut ==
    ASSUME NEW p, IsGlob(p), NEW w, PlainTo(p, w), p[w] = DoubleStar
    PROVE  LET q == RemoveAt(p, w) IN
           /\ w \in 1 .. Len(p) - 1 /\ IsNext(q, w) /\ Last(q) = Last(p)
           /\ Len(q) = Len(p) - 1
           /\ \A i \in 1 .. Len(q) : q[i] = IF i < w THEN p[i] ELSE p[i + 1]
<1> DEFINE q == RemoveAt(p, w)
           n == Len(p)
<1>1. /\ p \in Seq(Seq(Nat)) /\ n \in Nat \ {0} /\ p[n] # DoubleStar
      /\ w \in 1 .. n /\ w \in Nat /\ n = Len(p)
  BY DEF IsGlob, PlainTo
<1>2. w \in 1 .. n - 1
  <2>1. w # n
    BY <1>1
  <2> QED BY <1>1, <2>1
<1>3. /\ q \in Seq(Seq(Nat)) /\ Len(q) = n - 1
      /\ \A i \in 1 .. n - 1 : q[i] = IF i < w THEN p[i] ELSE p[i + 1]
  BY <1>1, RemoveIs, Zenon
<1> HIDE DEF q, n
<1>0. n \in Nat /\ n - 1 \in Nat /\ w \in Nat /\ w \in 1 .. n - 1
  BY <1>1, <1>2
<1>4. p[w + 1] # << >> /\ p[w + 1] # DoubleStar
  BY <1>1, <1>2 DEF IsGlob
<1>5. q[n - 1] = p[n]
  <2>1. n - 1 \in 1 .. n - 1 /\ ~(n - 1 < w) /\ (n - 1) + 1 = n
    BY <1>1, <1>2
  <2> QED BY <1>3, <2>1
<1>6. IsGlob(q)
  <2>1. Len(q) \in Nat \ {0} /\ q[Len(q)] # DoubleStar
    <3>1. n - 1 \in Nat \ {0}
      BY <1>0
    <3>2. Len(q) = n - 1 /\ q[n - 1] # DoubleStar
      BY <1>1, <1>3, <1>5
    <3> QED BY <3>1, <3>2
  <2>2. ASSUME NEW i \in 1 .. Len(q) - 1
        PROVE  q[i] # << >> /\ (q[i] = DoubleStar => q[i + 1] # << >> /\ q[i + 1] # DoubleStar)
    <3>1. i \in 1 .. n - 1 /\ i + 1 \in 1 .. n - 1 /\ i + 1 \in 1 .. n /\ (i + 1) + 1 = i + 2
      BY <1>0, <1>3
    <3>2. CASE i < w
      <4>1. q[i] = p[i] /\ p[i] # << >>
        BY <1>1, <1>3, <3>1, <3>2 DEF IsGlob
      <4>2. ~Wild(p[i])
        <5>1. i \in 1 .. w - 1
          BY <1>1, <3>1, <3>2
        <5> QED BY <5>1 DEF PlainTo
      <4> QED BY <4>1, <4>2, StarsWild
    <3>3. CASE ~(i < w)
      <4>1. ~(i + 1 < w)
        BY <1>0, <3>1, <3>3
      <4>2. q[i] = p[i + 1] /\ q[i + 1] = p[(i + 1) + 1]
        BY <1>3, <3>1, <3>3, <4>1
      <4> QED BY <1>1, <3>1, <4>2 DEF IsGlob
    <3> QED BY <3>2, <3>3
  <2>3. ASSUME NEW i \in 1 .. Len(q), ~Wild(q[i]), q[i] # << >> PROVE q[i] \in Spelled
    <3>1. i \in 1 .. n - 1 /\ i \in 1 .. n /\ i + 1 \in 1 .. n
      BY <1>0, <1>3
    <3>2. q[i] = p[i] \/ q[i] = p[i + 1]
      BY <1>3, <3>1
    <3> QED BY <1>1, <2>3, <3>1, <3>2 DEF IsGlob
  <2> QED BY <1>3, <2>1, <2>2, <2>3 DEF IsGlob
<1>7. PlainTo(q, w)
  <2>1. \A i \in 1 .. w - 1 : i \in 1 .. n - 1 /\ i < w
    BY <1>1, <1>2
  <2>2. \A i \in 1 .. w - 1 : ~Wild(q[i])
    BY <1>3, <2>1 DEF PlainTo
  <2> QED BY <1>2, <1>3, <2>2 DEF PlainTo
<1>8. q[w] = p[w + 1]
  <2>1. ~(w < w)
    BY <1>1
  <2> QED BY <1>2, <1>3, <2>1
<1>9. IsNext(q, w) /\ Last(q) = Last(p)
  <2>1. Last(q) = Last(p)
    BY <1>1, <1>3, <1>5, Zenon DEF Last
  <2>2. IsNext(q, w)
    BY <1>4, <1>6, <1>7, <1>8, Zenon DEF IsNext
  <2> QED BY <2>1, <2>2
<1>10. \A i \in 1 .. Len(q) : q[i] = IF i < w THEN p[i] ELSE p[i + 1]
  BY <1>3
<1> QED BY <1>2, <1>3, <1>9, <1>10, Zenon DEF q, n

\* The pattern that goes on below every directory can be walked as well.
LEMMA DoubleStarBelow ==
    ASSUME NEW p, IsGlob(p), NEW w, PlainTo(p, w), p[w] = DoubleStar
    PROVE  LET b == Below(p, w) IN
           /\ IsGlob(b) /\ PlainTo(b, w) /\ Last(b) = Last(p) /\ Len(b) = Len(p) + 1
           /\ \A i \in 1 .. Len(p) + 1 :
                 b[i] = IF i < w THEN p[i] ELSE IF i = w THEN <<Star>> ELSE p[i - 1]
<1> DEFINE b == Below(p, w)
           n == Len(p)
           x == <<Star>>
<1>1. /\ p \in Seq(Seq(Nat)) /\ n \in Nat \ {0} /\ p[n] # DoubleStar
      /\ w \in 1 .. n /\ w \in Nat /\ n = Len(p)
  BY DEF IsGlob, PlainTo
<1>2. /\ b \in Seq(Seq(Nat)) /\ Len(b) = n + 1
      /\ \A i \in 1 .. n + 1 : b[i] = IF i < w THEN p[i] ELSE IF i = w THEN x ELSE p[i - 1]
  BY <1>1, BelowIs, Zenon
<1>3. x # << >> /\ Wild(x) /\ x # DoubleStar /\ DoubleStar # << >>
  BY StarsWild
<1> HIDE DEF b, x, n
<1>0. n \in Nat /\ n >= 1 /\ w \in Nat /\ w >= 1 /\ w <= n
  BY <1>1
<1>4. b[n + 1] = p[n]
  <2>1. n + 1 \in 1 .. n + 1 /\ ~(n + 1 < w) /\ n + 1 # w /\ (n + 1) - 1 = n
    BY <1>1
  <2> QED BY <1>2, <2>1
<1>5. IsGlob(b)
  <2>1. Len(b) \in Nat \ {0} /\ b[Len(b)] # DoubleStar
    BY <1>1, <1>2, <1>4
  <2>2. ASSUME NEW i \in 1 .. Len(b) - 1
        PROVE  b[i] # << >> /\ (b[i] = DoubleStar => b[i + 1] # << >> /\ b[i + 1] # DoubleStar)
    <3>1. i \in 1 .. n + 1 /\ i + 1 \in 1 .. n + 1 /\ i \in 1 .. n /\ (i + 1) - 1 = i
      BY <1>0, <1>2
    <3>2. CASE i < w
      <4>1. b[i] = p[i] /\ i \in 1 .. w - 1 /\ i \in 1 .. n - 1
        BY <1>1, <1>2, <3>1, <3>2
      <4>2. ~Wild(p[i]) /\ p[i] # << >>
        BY <1>1, <4>1 DEF PlainTo, IsGlob
      <4> QED BY <4>1, <4>2, StarsWild
    <3>3. CASE i = w
      <4>1. b[i] = x
        BY <1>1, <1>2, <3>1, <3>3
      <4> QED BY <1>3, <4>1
    <3>4. CASE ~(i < w) /\ i # w
      <4>1. /\ i - 1 \in 1 .. n - 1 /\ (i - 1) + 1 = i
            /\ ~(i + 1 < w) /\ i + 1 # w
        BY <1>1, <3>1, <3>4
      <4>2. b[i] = p[i - 1] /\ b[i + 1] = p[(i - 1) + 1]
        BY <1>2, <3>1, <3>4, <4>1
      <4> QED BY <1>1, <4>1, <4>2 DEF IsGlob
    <3> QED BY <3>2, <3>3, <3>4
  <2>3. ASSUME NEW i \in 1 .. Len(b), ~Wild(b[i]), b[i] # << >> PROVE b[i] \in Spelled
    <3>1. i \in 1 .. n + 1
      BY <1>2
    <3>2. \/ i \in 1 .. n /\ b[i] = p[i]
          \/ b[i] = x
          \/ i - 1 \in 1 .. n /\ b[i] = p[i - 1]
      <4>1. CASE i < w
        BY <1>0, <1>2, <3>1, <4>1
      <4>2. CASE i = w
        BY <1>0, <1>2, <3>1, <4>2
      <4>3. CASE ~(i < w) /\ i # w
        BY <1>0, <1>2, <3>1, <4>3
      <4> QED BY <4>1, <4>2, <4>3
    <3> QED BY <1>1, <1>3, <2>3, <3>2 DEF IsGlob
  <2> QED BY <1>2, <2>1, <2>2, <2>3 DEF IsGlob
<1>6. PlainTo(b, w)
  <2>1. \A i \in 1 .. w - 1 : i \in 1 .. n + 1 /\ i < w
    BY <1>1
  <2>2. \A i \in 1 .. w - 1 : ~Wild(b[i])
    BY <1>2, <2>1 DEF PlainTo
  <2>3. w \in 1 .. Len(b)
    BY <1>1, <1>2
  <2> QED BY <2>2, <2>3 DEF PlainTo
<1>7. Last(b) = Last(p)
  BY <1>1, <1>2, <1>4, Zenon DEF Last
<1> QED BY <1>2, <1>5, <1>6, <1>7, Zenon DEF b, x, n

\* "**" is no directory, or a directory and "**" below it.
LEMMA DoubleStarIs ==
    ASSUME NEW p, IsGlob(p), NEW w, PlainTo(p, w), p[w] = DoubleStar
    PROVE  Sem(p) = Sem(RemoveAt(p, w)) \cup Sem(Below(p, w))
<1> DEFINE q == RemoveAt(p, w)
           b == Below(p, w)
           n == Len(p)
           x == <<Star>>
<1>1. /\ w \in 1 .. n - 1 /\ IsNext(q, w) /\ Len(q) = n - 1
      /\ \A i \in 1 .. Len(q) : q[i] = IF i < w THEN p[i] ELSE p[i + 1]
  BY DoubleStarOut
<1>2. /\ IsGlob(b) /\ PlainTo(b, w) /\ Len(b) = n + 1
      /\ \A i \in 1 .. n + 1 : b[i] = IF i < w THEN p[i] ELSE IF i = w THEN x ELSE p[i - 1]
  BY DoubleStarBelow
<1>3. p \in Seq(Seq(Nat)) /\ n = Len(p) /\ n \in Nat
  BY DEF IsGlob
<1>4. n \in Nat /\ w \in Nat /\ w >= 1 /\ w <= n - 1
  BY <1>1, <1>3
<1>5. b \in Seq(Seq(Nat))
  BY <1>2 DEF IsGlob
<1>6. x \in Seq(Nat) /\ x # DoubleStar /\ x # << >>
  BY StarsWild
<1> HIDE DEF q, b, n, x
<1>7. ASSUME NEW path \in There, NEW m, Reads(m, p, path), m[n] = Len(path), m[w] = w - 1
      PROVE  IsRead(q, path)
  <2> DEFINE l == Len(path)
             g == [i \in 0 .. n - 1 |-> IF i < w THEN m[i] ELSE m[i + 1]]
  <2>1. /\ m \in [0 .. n -> 0 .. l] /\ m[0] = 0
        /\ \A i \in 1 .. n : Follows(m[i - 1], m[i], p[i], path)
    BY <1>3, <1>7, ReadsIs
  <2>2. m[w - 1] = w - 1
    <3>1. w - 1 \in 0 .. w - 1
      BY <1>4
    <3> QED BY <1>7, <3>1, PlainHead
  <2>3. \A i \in 0 .. n - 1 : i \in 0 .. n /\ i + 1 \in 0 .. n
    BY <1>4
  <2>4. g \in [0 .. n - 1 -> 0 .. l]
    <3> HIDE DEF l
    <3> QED BY <2>1, <2>3
  <2>5. \A i \in 0 .. n - 1 : g[i] = IF i < w THEN m[i] ELSE m[i + 1]
    OBVIOUS
  <2> HIDE DEF g, l
  <2>6. g[0] = 0
    <3>1. 0 \in 0 .. n - 1 /\ 0 < w
      BY <1>4
    <3> QED BY <2>1, <2>5, <3>1
  <2>7. ASSUME NEW i \in 1 .. n - 1 PROVE Follows(g[i - 1], g[i], q[i], path)
    <3>1. i \in 0 .. n - 1 /\ i - 1 \in 0 .. n - 1 /\ i \in 1 .. n /\ i + 1 \in 1 .. n
          /\ (i + 1) - 1 = i /\ (i - 1) + 1 = i
      BY <1>4
    <3>2. CASE i < w
      <4>1. i - 1 < w
        BY <1>4, <3>1, <3>2
      <4>2. g[i - 1] = m[i - 1] /\ g[i] = m[i] /\ q[i] = p[i]
        BY <1>1, <2>5, <3>1, <3>2, <4>1
      <4> QED BY <2>1, <3>1, <4>2
    <3>3. CASE i = w
      <4>1. i - 1 < w /\ ~(i < w)
        BY <1>4, <3>3
      <4>2. g[i - 1] = m[i - 1] /\ g[i] = m[i + 1] /\ q[i] = p[i + 1]
        BY <1>1, <2>5, <3>1, <4>1
      <4>3. m[i - 1] = m[i]
        BY <1>7, <2>2, <3>3
      <4>4. Follows(m[(i + 1) - 1], m[i + 1], p[i + 1], path)
        BY <2>1, <3>1
      <4> QED BY <3>1, <4>2, <4>3, <4>4
    <3>4. CASE ~(i < w) /\ i # w
      <4>1. ~(i - 1 < w)
        BY <1>4, <3>1, <3>4
      <4>2. g[i - 1] = m[(i - 1) + 1] /\ g[i] = m[i + 1] /\ q[i] = p[i + 1]
        BY <1>1, <2>5, <3>1, <3>4, <4>1
      <4>3. Follows(m[(i + 1) - 1], m[i + 1], p[i + 1], path)
        BY <2>1, <3>1
      <4> QED BY <3>1, <4>2, <4>3
    <3> QED BY <3>2, <3>3, <3>4
  <2>8. Reads(g, q, path)
    BY <1>1, <2>4, <2>6, <2>7, ReadsIs DEF l
  <2>9. g[n - 1] = l
    <3>1. n - 1 \in 0 .. n - 1 /\ ~(n - 1 < w) /\ (n - 1) + 1 = n
      BY <1>4
    <3> QED BY <1>7, <2>5, <3>1 DEF l
  <2> QED BY <1>1, <2>8, <2>9 DEF IsRead, l
<1>8. ASSUME NEW path \in There, NEW m, Reads(m, p, path), m[n] = Len(path), m[w] # w - 1
      PROVE  IsRead(b, path)
  <2> DEFINE l == Len(path)
             g == [i \in 0 .. n + 1 |-> IF i < w THEN m[i] ELSE IF i = w THEN w ELSE m[i - 1]]
  <2>1. /\ m \in [0 .. n -> 0 .. l] /\ m[0] = 0
        /\ \A i \in 1 .. n : Follows(m[i - 1], m[i], p[i], path)
    BY <1>3, <1>8, ReadsIs
  <2>2. m[w - 1] = w - 1
    <3>1. w - 1 \in 0 .. w - 1
      BY <1>4
    <3> QED BY <1>8, <3>1, PlainHead
  <2>3. path \in Seq(Seq(Nat)) /\ l \in Nat /\ \A i \in 1 .. l - 1 : path[i] # << >>
    BY PathIs
  <2>4. m[w] \in Nat /\ m[w] < l
    <3>1. w \in 0 .. n - 1
      BY <1>4
    <3> QED BY <1>3, <1>8, <2>3, <3>1, NameLeft
  <2>5. w <= m[w]
    <3>1. w \in 1 .. n
      BY <1>4
    <3>2. m[w - 1] <= m[w]
      BY <2>1, <3>1 DEF Follows
    <3> HIDE DEF l
    <3> QED BY <1>4, <1>8, <2>2, <2>4, <3>2
  <2>6. w \in 1 .. l /\ w \in 0 .. l /\ path[w] # << >> /\ path[w] \in Seq(Nat)
    <3>1. w \in 1 .. l - 1 /\ w \in 1 .. l /\ w \in 0 .. l
      BY <1>4, <2>3, <2>4, <2>5
    <3> QED BY <2>3, <3>1
  <2>7. Fits(x, path[w])
    <3>1. Stands(x, path[w])
      BY <2>6, StandsStar DEF x
    <3> QED BY <1>6, <2>6, <3>1, Zenon DEF Fits
  <2>8. \A i \in 0 .. n + 1 : (i < w => i \in 0 .. n) /\ (~(i < w) /\ i # w => i - 1 \in 0 .. n)
    BY <1>4
  <2>9. g \in [0 .. n + 1 -> 0 .. l]
    <3> HIDE DEF l
    <3> QED BY <2>1, <2>6, <2>8
  <2>10. \A i \in 0 .. n + 1 : g[i] = IF i < w THEN m[i] ELSE IF i = w THEN w ELSE m[i - 1]
    OBVIOUS
  <2> HIDE DEF g, l
  <2>11. g[0] = 0
    <3>1. 0 \in 0 .. n + 1 /\ 0 < w
      BY <1>4
    <3> QED BY <2>1, <2>10, <3>1
  <2>12. ASSUME NEW i \in 1 .. n + 1 PROVE Follows(g[i - 1], g[i], b[i], path)
    <3>1. i \in 0 .. n + 1 /\ i - 1 \in 0 .. n + 1
      BY <1>4
    <3>2. CASE i < w
      <4>1. i - 1 < w /\ i \in 1 .. n
        BY <1>4, <3>1, <3>2
      <4>2. g[i - 1] = m[i - 1] /\ g[i] = m[i] /\ b[i] = p[i]
        BY <1>2, <2>10, <3>1, <3>2, <4>1
      <4> QED BY <2>1, <4>1, <4>2
    <3>3. CASE i = w
      <4>1. i - 1 < w /\ ~(i < w) /\ w = w - 1 + 1
        BY <1>4, <3>3
      <4>2. g[i - 1] = w - 1 /\ g[i] = w /\ b[i] = x
        <5>1. g[i - 1] = m[i - 1]
          BY <2>10, <3>1, <4>1
        <5>2. g[i] = w /\ b[i] = x
          BY <1>2, <2>10, <3>1, <3>3, <4>1
        <5> QED BY <2>2, <3>3, <5>1, <5>2
      <4> QED BY <1>6, <2>7, <4>1, <4>2 DEF Follows
    <3>4. CASE ~(i < w) /\ i # w
      <4>1. i - 1 \in 1 .. n /\ ~(i - 1 < w) /\ (i - 1) - 1 = i - 2
        BY <1>4, <3>1, <3>4
      <4>2. g[i] = m[i - 1] /\ b[i] = p[i - 1]
        BY <1>2, <2>10, <3>1, <3>4
      <4>3. CASE i - 1 = w
        <5>1. g[i - 1] = w
          BY <2>10, <3>1, <4>1, <4>3
        <5> QED BY <2>5, <4>2, <4>3, <5>1 DEF Follows
      <4>4. CASE i - 1 # w
        <5>1. g[i - 1] = m[(i - 1) - 1]
          BY <2>10, <3>1, <4>1, <4>4
        <5>2. Follows(m[(i - 1) - 1], m[i - 1], p[i - 1], path)
          BY <2>1, <4>1
        <5> QED BY <4>2, <5>1, <5>2
      <4> QED BY <4>3, <4>4
    <3> QED BY <3>2, <3>3, <3>4
  <2>13. Reads(g, b, path)
    BY <1>2, <2>9, <2>11, <2>12, ReadsIs DEF l
  <2>14. g[n + 1] = l
    <3>1. n + 1 \in 0 .. n + 1 /\ ~(n + 1 < w) /\ n + 1 # w /\ (n + 1) - 1 = n
      BY <1>4
    <3> QED BY <1>8, <2>10, <3>1 DEF l
  <2> QED BY <1>2, <2>13, <2>14 DEF IsRead, l
<1>9. ASSUME NEW path \in There, IsRead(q, path) PROVE IsRead(p, path)
  <2> DEFINE l == Len(path)
  <2>1. PICK m : Reads(m, q, path) /\ m[n - 1] = l
    BY <1>1, <1>9 DEF IsRead
  <2>2. /\ m \in [0 .. n - 1 -> 0 .. l] /\ m[0] = 0
        /\ \A i \in 1 .. n - 1 : Follows(m[i - 1], m[i], q[i], path)
    BY <1>1, <2>1, ReadsIs
  <2> DEFINE g == [i \in 0 .. n |-> IF i < w THEN m[i] ELSE m[i - 1]]
  <2>3. m[w - 1] \in Nat
    <3>1. w - 1 \in 0 .. n - 1 /\ m[w - 1] \in 0 .. l
      BY <1>4, <2>2
    <3>2. l \in Nat
      BY PathIs
    <3> HIDE DEF l
    <3> QED BY <3>1, <3>2
  <2>4. \A i \in 0 .. n : (i < w => i \in 0 .. n - 1) /\ (~(i < w) => i - 1 \in 0 .. n - 1)
    BY <1>4
  <2>5. g \in [0 .. n -> 0 .. l]
    <3> HIDE DEF l
    <3> QED BY <2>2, <2>4
  <2>6. \A i \in 0 .. n : g[i] = IF i < w THEN m[i] ELSE m[i - 1]
    OBVIOUS
  <2> HIDE DEF g, l
  <2>7. g[0] = 0
    <3>1. 0 \in 0 .. n /\ 0 < w
      BY <1>4
    <3> QED BY <2>2, <2>6, <3>1
  <2>8. ASSUME NEW i \in 1 .. n PROVE Follows(g[i - 1], g[i], p[i], path)
    <3>1. i \in 0 .. n /\ i - 1 \in 0 .. n
      BY <1>4
    <3>2. CASE i < w
      <4>1. i - 1 < w /\ i \in 1 .. n - 1
        BY <1>4, <3>1, <3>2
      <4>2. g[i - 1] = m[i - 1] /\ g[i] = m[i] /\ q[i] = p[i]
        BY <1>1, <2>6, <3>1, <3>2, <4>1
      <4> QED BY <2>2, <4>1, <4>2
    <3>3. CASE i = w
      <4>1. i - 1 < w /\ ~(i < w)
        BY <1>4, <3>3
      <4>2. g[i - 1] = m[w - 1] /\ g[i] = m[w - 1]
        BY <2>6, <3>1, <3>3, <4>1
      <4>3. m[w - 1] <= m[w - 1]
        BY <2>3
      <4> QED BY <3>3, <4>2, <4>3 DEF Follows
    <3>4. CASE ~(i < w) /\ i # w
      <4>1. i - 1 \in 1 .. n - 1 /\ ~(i - 1 < w) /\ (i - 1) + 1 = i
        BY <1>4, <3>1, <3>4
      <4>2. g[i] = m[i - 1] /\ g[i - 1] = m[(i - 1) - 1] /\ q[i - 1] = p[i]
        BY <1>1, <2>6, <3>1, <3>4, <4>1
      <4>3. Follows(m[(i - 1) - 1], m[i - 1], q[i - 1], path)
        BY <2>2, <4>1
      <4> QED BY <4>2, <4>3
    <3> QED BY <3>2, <3>3, <3>4
  <2>9. Reads(g, p, path)
    BY <1>3, <2>5, <2>7, <2>8, ReadsIs DEF l
  <2>10. g[n] = l
    <3>1. n \in 0 .. n /\ ~(n < w)
      BY <1>4
    <3> QED BY <2>1, <2>6, <3>1 DEF l
  <2> QED BY <1>3, <2>9, <2>10 DEF IsRead, l
<1>10. ASSUME NEW path \in There, IsRead(b, path) PROVE IsRead(p, path)
  <2> DEFINE l == Len(path)
  <2>1. PICK m : Reads(m, b, path) /\ m[n + 1] = l
    BY <1>2, <1>10 DEF IsRead
  <2>2. /\ m \in [0 .. n + 1 -> 0 .. l] /\ m[0] = 0
        /\ \A i \in 1 .. n + 1 : Follows(m[i - 1], m[i], b[i], path)
    BY <1>2, <2>1, ReadsIs
  <2> DEFINE g == [i \in 0 .. n |-> IF i < w THEN m[i] ELSE m[i + 1]]
  <2>3. m[w - 1] <= m[w + 1]
    <3>1. w - 1 \in 0 .. Len(b) /\ w + 1 \in 0 .. Len(b) /\ w - 1 <= w + 1
      BY <1>2, <1>4
    <3>2. path \in Seq(Seq(Nat))
      BY PathIs
    <3> QED BY <1>5, <2>1, <3>1, <3>2, ReadsGrow
  <2>4. \A i \in 0 .. n : i \in 0 .. n + 1 /\ i + 1 \in 0 .. n + 1
    BY <1>4
  <2>5. g \in [0 .. n -> 0 .. l]
    <3> HIDE DEF l
    <3> QED BY <2>2, <2>4
  <2>6. \A i \in 0 .. n : g[i] = IF i < w THEN m[i] ELSE m[i + 1]
    OBVIOUS
  <2> HIDE DEF g, l
  <2>7. g[0] = 0
    <3>1. 0 \in 0 .. n /\ 0 < w
      BY <1>4
    <3> QED BY <2>2, <2>6, <3>1
  <2>8. ASSUME NEW i \in 1 .. n PROVE Follows(g[i - 1], g[i], p[i], path)
    <3>1. i \in 0 .. n /\ i - 1 \in 0 .. n /\ i \in 1 .. n + 1 /\ i + 1 \in 1 .. n + 1
          /\ (i + 1) - 1 = i /\ (i - 1) + 1 = i
      BY <1>4
    <3>2. CASE i < w
      <4>1. i - 1 < w
        BY <1>4, <3>1, <3>2
      <4>2. g[i - 1] = m[i - 1] /\ g[i] = m[i] /\ b[i] = p[i]
        BY <1>2, <2>6, <3>1, <3>2, <4>1
      <4> QED BY <2>2, <3>1, <4>2
    <3>3. CASE i = w
      <4>1. i - 1 < w /\ ~(i < w)
        BY <1>4, <3>3
      <4>2. g[i - 1] = m[w - 1] /\ g[i] = m[w + 1]
        BY <2>6, <3>1, <3>3, <4>1
      <4> QED BY <2>3, <3>3, <4>2 DEF Follows
    <3>4. CASE ~(i < w) /\ i # w
      <4>1. ~(i - 1 < w) /\ ~(i + 1 < w) /\ i + 1 # w
        BY <1>4, <3>1, <3>4
      <4>2. g[i] = m[i + 1] /\ g[i - 1] = m[(i - 1) + 1] /\ b[i + 1] = p[(i + 1) - 1]
        BY <1>2, <2>6, <3>1, <3>4, <4>1
      <4>3. Follows(m[(i + 1) - 1], m[i + 1], b[i + 1], path)
        BY <2>2, <3>1
      <4> QED BY <3>1, <4>2, <4>3
    <3> QED BY <3>2, <3>3, <3>4
  <2>9. Reads(g, p, path)
    BY <1>3, <2>5, <2>7, <2>8, ReadsIs DEF l
  <2>10. g[n] = l
    <3>1. n \in 0 .. n /\ ~(n < w)
      BY <1>4
    <3> QED BY <2>1, <2>6, <3>1 DEF l
  <2> QED BY <1>3, <2>9, <2>10 DEF IsRead, l
<1>11. ASSUME NEW path \in There, IsRead(p, path) PROVE IsRead(q, path) \/ IsRead(b, path)
  <2>1. PICK m : Reads(m, p, path) /\ m[n] = Len(path)
    BY <1>3, <1>11 DEF IsRead
  <2> QED BY <1>7, <1>8, <2>1
<1>12. Sem(p) = Sem(q) \cup Sem(b)
  BY <1>9, <1>10, <1>11, Zenon DEF Sem
<1> QED BY <1>12, Zenon DEF q, b

(***************************************************************************)
(* A step of the walk                                                      *)
(***************************************************************************)
\* The sequence made of a finite set.
LEMMA SetAsSeq ==
    ASSUME NEW S, IsFiniteSet(S)
    PROVE  SetToSeq(S) \in Seq(S) /\ ToSet(SetToSeq(S)) = S
<1> DEFINE n == Cardinality(S)
           s == SetToSeq(S)
<1>1. n \in Nat /\ \E f : f \in Bijection(1 .. n, S)
  BY FS_CardinalityType DEF ExistsBijection
<1>2. \E f \in [1 .. n -> S] : IsInjective(f)
  <2>1. PICK f : f \in Bijection(1 .. n, S)
    BY <1>1
  <2>2. f \in [1 .. n -> S] /\ \A i, j \in 1 .. n : f[i] = f[j] => i = j
    BY <2>1 DEF Bijection, Injection, IsInjective
  <2>3. IsInjective(f)
    BY <2>2 DEF IsInjective
  <2> QED BY <2>2, <2>3
<1>3. s \in [1 .. n -> S] /\ IsInjective(s)
  BY <1>2, Zenon DEF SetToSeq
<1> HIDE DEF s
<1>4. s \in SetToSeqs(S)
  <2>1. \A i, j \in 1 .. n : i # j => s[i] # s[j]
    BY <1>3 DEF IsInjective
  <2> QED BY <1>3, <2>1 DEF SetToSeqs
<1>5. s \in Seq(S) /\ ToSet(s) = S
  BY <1>4, OrderOfSet
<1> QED BY <1>5 DEF s

\* The directories of a directory are finitely many.
LEMMA DirsFinite ==
    ASSUME NEW base, NEW part, NEW q, NEW w
    PROVE  IsFiniteSet({Into(q, w, d) : d \in Fitting(DirsIn(base), part)})
<1> DEFINE T == {g \in Tree : Len(g) > Len(base) + 1 /\ IsPrefix(base, g)}
           D == DirsIn(base)
           E == Fitting(D, part)
           R == {Into(q, w, d) : d \in E}
           k == Len(base) + 1
           f == [g \in T |-> g[k]]
           h == [d \in E |-> Into(q, w, d)]
<1>1. IsFiniteSet(T)
  BY TreeAssumption, FS_Subset
<1>2. D = {g[k] : g \in T}
  BY Zenon DEF DirsIn
<1> HIDE DEF T, D, k
<1>3. f \in Surjection(T, D)
  BY <1>2 DEF Surjection
<1>4. IsFiniteSet(D)
  <2> HIDE DEF f
  <2> QED BY <1>1, <1>3, FS_Surjection
<1>5. IsFiniteSet(E)
  <2>1. E \subseteq D
    BY DEF Fitting
  <2> HIDE DEF E
  <2> QED BY <1>4, <2>1, FS_Subset
<1> HIDE DEF E
<1>6. h \in Surjection(E, R)
  BY DEF Surjection
<1>7. IsFiniteSet(R)
  <2> HIDE DEF h, R
  <2> QED BY <1>5, <1>6, FS_Surjection
<1> QED BY <1>7, Zenon DEF R, E, D

\* What a call with a wildcard does.
Found(q, w) ==
    IF w = Len(q) THEN {Append(Base(q, w), f) : f \in Fitting(FilesIn(Base(q, w)), q[w])} ELSE {}
Entered(q, w) ==
    IF w < Len(q) THEN SetToSeq({Into(q, w, d) : d \in Fitting(DirsIn(Base(q, w)), q[w])}) ELSE << >>

\* A call looks up the first part with a wildcard.
LEMMA GlobbedIs ==
    ASSUME NEW p, IsGlob(p), \E i \in DOMAIN p : Wild(p[i])
    PROVE  \E w \in 1 .. Len(p) :
              LET q == IF p[w] = DoubleStar THEN RemoveAt(p, w) ELSE p IN
              /\ PlainTo(p, w) /\ Wild(p[w])
              /\ Globbed(p).finds = Found(q, w)
              /\ Globbed(p).calls = Entered(q, w) \o (IF p[w] = DoubleStar THEN <<Below(p, w)>> ELSE << >>)
<1> DEFINE W == {i \in DOMAIN p : Wild(p[i])}
           w == Min(W)
           q == IF p[w] = DoubleStar THEN RemoveAt(p, w) ELSE p
<1>1. p \in Seq(Seq(Nat)) /\ DOMAIN p = 1 .. Len(p) /\ Len(p) \in Nat
  BY DEF IsGlob
<1>2. W \in SUBSET Nat /\ W # {} /\ W \in SUBSET Int
  BY <1>1
<1>3. PICK v \in W : \A k \in W : v <= k
  <2> HIDE DEF W
  <2> QED BY <1>2, MinExists
<1>4. w = v
  <2> HIDE DEF W
  <2> QED BY <1>2, <1>3, MinIs
<1>5. Globbed(p).finds = Found(q, w)
  BY Zenon DEF Globbed, Found, Fitting, Base
<1>6. Globbed(p).calls = Entered(q, w) \o (IF p[w] = DoubleStar THEN <<Below(p, w)>> ELSE << >>)
  BY Zenon DEF Globbed, Entered, Fitting, Base, Into
<1> HIDE DEF w
<1>7. w \in 1 .. Len(p) /\ Wild(p[w])
  BY <1>1, <1>3, <1>4
<1>8. PlainTo(p, w)
  <2>1. ASSUME NEW i \in 1 .. w - 1, Wild(p[i]) PROVE FALSE
    <3>1. i \in 1 .. Len(p) /\ ~(w <= i)
      BY <1>1, <1>7
    <3>2. i \in W
      BY <1>1, <2>1, <3>1
    <3> HIDE DEF W
    <3> QED BY <1>3, <1>4, <3>1, <3>2
  <2> QED BY <1>7, <2>1 DEF PlainTo
<1> QED BY <1>5, <1>6, <1>7, <1>8, Zenon

\* What a pattern with a wildcard stands for: what a call finds, and what the calls it
\* makes stand for.
LEMMA GlobbedStep ==
    ASSUME NEW p, IsGlob(p), \E i \in DOMAIN p : Wild(p[i])
    PROVE  LET g == Globbed(p) IN
           /\ g.calls \in Seq(Seq(Seq(Nat))) /\ \A c \in ToSet(g.calls) : IsGlob(c) /\ Last(c) = Last(p)
           /\ Sem(p) = g.finds \cup UNION {Sem(c) : c \in ToSet(g.calls)}
           /\ g.finds \subseteq There
<1>1. PICK w \in 1 .. Len(p) :
         LET q == IF p[w] = DoubleStar THEN RemoveAt(p, w) ELSE p IN
         /\ PlainTo(p, w) /\ Wild(p[w])
         /\ Globbed(p).finds = Found(q, w)
         /\ Globbed(p).calls = Entered(q, w) \o (IF p[w] = DoubleStar THEN <<Below(p, w)>> ELSE << >>)
  BY GlobbedIs
<1> DEFINE doubled == p[w] = DoubleStar
           q == IF doubled THEN RemoveAt(p, w) ELSE p
           again == IF doubled THEN <<Below(p, w)>> ELSE << >>
           finds == Globbed(p).finds
           calls == Globbed(p).calls
           B == IF doubled THEN Sem(Below(p, w)) ELSE {}
           C == Seq(Seq(Nat))
<1>2. /\ PlainTo(p, w) /\ Wild(p[w])
      /\ finds = Found(q, w) /\ calls = Entered(q, w) \o again
  BY <1>1
<1> HIDE DEF finds, calls
<1>3. IsNext(q, w) /\ Last(q) = Last(p) /\ Sem(p) = Sem(q) \cup B
  <2>1. CASE doubled
    <3>1. q = RemoveAt(p, w) /\ B = Sem(Below(p, w))
      BY <2>1, Zenon
    <3> HIDE DEF q, B
    <3> QED BY <1>2, <2>1, <3>1, DoubleStarOut, DoubleStarIs
  <2>2. CASE ~doubled
    <3>1. q = p /\ B = {}
      BY <2>2, Zenon
    <3>2. p[w] # << >>
      BY <1>2 DEF Wild, ToSet
    <3>3. IsNext(p, w)
      BY <1>2, <2>2, <3>2, Zenon DEF IsNext
    <3> HIDE DEF q, B
    <3> QED BY <3>1, <3>3
  <2> QED BY <2>1, <2>2
<1>4. /\ again \in Seq(C) /\ \A c \in ToSet(again) : IsGlob(c) /\ Last(c) = Last(p)
      /\ B = UNION {Sem(c) : c \in ToSet(again)}
  <2>1. CASE doubled
    <3>1. again = <<Below(p, w)>> /\ B = Sem(Below(p, w))
      BY <2>1, Zenon
    <3> DEFINE b == Below(p, w)
    <3>2. IsGlob(b) /\ Last(b) = Last(p)
      BY <1>2, <2>1, DoubleStarBelow
    <3>3. b \in C
      BY <3>2, Zenon DEF IsGlob
    <3> HIDE DEF b, C
    <3>4. <<b>> \in Seq(C) /\ ToSet(<<b>>) = {b}
      BY <3>3 DEF ToSet
    <3>5. again = <<b>> /\ B = Sem(b)
      BY <3>1, Zenon DEF b
    <3> HIDE DEF again, B
    <3> QED BY <3>2, <3>4, <3>5
  <2>2. CASE ~doubled
    <3>1. again = << >> /\ B = {}
      BY <2>2, Zenon
    <3>2. << >> \in Seq(C) /\ ToSet(<< >>) = {}
      BY DEF ToSet
    <3> HIDE DEF again, B, C
    <3> QED BY <3>1, <3>2
  <2> QED BY <2>1, <2>2
<1> HIDE DEF again, B, q
<1>5. q \in C /\ Len(q) \in Nat /\ w \in 1 .. Len(q)
  BY <1>3 DEF IsNext, IsGlob, PlainTo
<1> DEFINE D == Fitting(DirsIn(Base(q, w)), q[w])
           R == {Into(q, w, d) : d \in D}
           rest == Entered(q, w)
<1>6. /\ rest \in Seq(C) /\ \A c \in ToSet(rest) : IsGlob(c) /\ Last(c) = Last(p)
      /\ Sem(q) = finds \cup UNION {Sem(c) : c \in ToSet(rest)}
  <2>1. CASE w = Len(q)
    <3>1. finds = {Append(Base(q, w), f) : f \in Fitting(FilesIn(Base(q, w)), q[w])}
      BY <1>2, <2>1, Zenon DEF Found
    <3>2. finds = Sem(q)
      BY <1>3, <2>1, <3>1, LookUpFiles
    <3>3. rest = << >>
      <4>1. ~(w < Len(q))
        BY <1>5, <2>1
      <4> QED BY <4>1, Zenon DEF Entered
    <3>4. << >> \in Seq(C) /\ ToSet(<< >>) = {}
      BY DEF ToSet
    <3> HIDE DEF rest, C
    <3> QED BY <3>2, <3>3, <3>4
  <2>2. CASE w # Len(q)
    <3>1. w < Len(q)
      BY <1>5, <2>2
    <3>2. finds = {}
      BY <1>2, <2>2, Zenon DEF Found
    <3>3. rest = SetToSeq(R)
      BY <3>1, Zenon DEF Entered
    <3>4. IsFiniteSet(R)
      BY DirsFinite
    <3>5. ASSUME NEW c \in R PROVE c \in C /\ IsGlob(c) /\ Last(c) = Last(p)
      <4>1. PICK d \in DirsIn(Base(q, w)) : c = Into(q, w, d)
        <5>1. D \subseteq DirsIn(Base(q, w))
          BY DEF Fitting
        <5> HIDE DEF D
        <5> QED BY <3>5, <5>1
      <4>2. IsNext(c, w) /\ Last(c) = Last(q)
        BY <1>3, <3>1, <4>1, IntoGlob, Zenon
      <4> QED BY <1>3, <4>2 DEF IsNext, IsGlob
    <3>6. Sem(q) = UNION {Sem(Into(q, w, d)) : d \in D}
      BY <1>3, <3>1, LookUpDirs, Zenon
    <3>7. Sem(q) = UNION {Sem(c) : c \in R}
      <4> HIDE DEF D
      <4> QED BY <3>6, Zenon
    <3> HIDE DEF rest, R, D
    <3>8. rest \in Seq(R) /\ ToSet(rest) = R
      BY <3>3, <3>4, SetAsSeq
    <3>9. rest \in Seq(C)
      <4>1. R \subseteq C
        BY <3>5
      <4> HIDE DEF C
      <4> QED BY <3>8, <4>1
    <3> QED BY <3>2, <3>5, <3>7, <3>8, <3>9
  <2> QED BY <2>1, <2>2
<1> HIDE DEF rest, C
<1>7. calls \in Seq(C) /\ ToSet(calls) = ToSet(rest) \cup ToSet(again)
  <2> DEFINE z == rest \o again
  <2>1. z \in Seq(C) /\ ToSet(z) = ToSet(rest) \cup ToSet(again)
    <3>1. z \in Seq(C)
      BY <1>4, <1>6, ConcatProperties
    <3> QED BY <1>4, <1>6, <3>1, ToSetOfConcat
  <2>2. calls = z
    BY <1>2, Zenon DEF rest
  <2> HIDE DEF z
  <2> QED BY <2>1, <2>2
<1>8. \A c \in ToSet(calls) : IsGlob(c) /\ Last(c) = Last(p)
  BY <1>4, <1>6, <1>7, Zenon
<1>9. Sem(p) = finds \cup UNION {Sem(c) : c \in ToSet(calls)}
  BY <1>3, <1>4, <1>6, <1>7
<1>10. finds \subseteq There
  <2>1. finds \subseteq Sem(q)
    BY <1>6
  <2> QED BY <2>1 DEF Sem
<1> QED BY <1>7, <1>8, <1>9, <1>10, Zenon DEF finds, calls, C

\* A pattern without a wildcard stands for itself.
LEMMA PlainIs ==
    ASSUME NEW p, IsGlob(p), ~\E i \in DOMAIN p : Wild(p[i])
    PROVE  Sem(p) = {p} \cap There
<1> DEFINE n == Len(p)
<1>1. /\ p \in Seq(Seq(Nat)) /\ n \in Nat \ {0} /\ DOMAIN p = 1 .. n
      /\ \A i \in 1 .. n : p[i] \in Seq(Nat) /\ ~Wild(p[i]) /\ (p[i] # << >> => p[i] \in Spelled)
  BY DEF IsGlob
<1>2. \A i \in 1 .. n : p[i] # DoubleStar
  BY <1>1, StarsWild
<1>3. PlainTo(p, n)
  <2>1. n \in 1 .. n /\ \A i \in 1 .. n - 1 : i \in 1 .. n
    BY <1>1
  <2> QED BY <1>1, <2>1 DEF PlainTo
<1>4. ASSUME NEW path \in Sem(p) PROVE path = p
  <2>1. path \in There
    BY <1>4 DEF Sem
  <2>2. PICK m : Reads(m, p, path) /\ m[n] = Len(path)
    BY <1>4 DEF Sem, IsRead
  <2>3. /\ path \in Seq(Seq(Nat)) /\ Len(path) \in Nat \ {0}
        /\ \A i \in 1 .. Len(path) : path[i] # << >> => path[i] \in Names
    BY <2>1, PathIs
  <2>4. /\ \A i \in 0 .. n - 1 : m[i] = i
        /\ \A i \in 1 .. n - 1 : path[i] = p[i]
    BY <1>3, <2>1, <2>2, PlainHead
  <2>5. n \in 1 .. n /\ n - 1 \in 0 .. n - 1 /\ n - 1 + 1 = n
    BY <1>1
  <2>6. m[n] = n /\ Fits(p[n], path[n])
    BY <1>2, <2>2, <2>4, <2>5 DEF Reads
  <2>7. Len(path) = n /\ path[n] \in Seq(Nat) /\ (path[n] # << >> => path[n] \in Names)
    <3>1. Len(path) = n
      BY <2>2, <2>6
    <3> QED BY <2>3, <2>5, <3>1
  <2>8. path[n] = p[n]
    BY <1>1, <2>5, <2>6, <2>7, PlainFits, Zenon
  <2>9. \A i \in 1 .. Len(path) : path[i] = p[i]
    <3>1. n \in Nat
      BY <1>1
    <3> HIDE DEF n
    <3>2. \A i \in 1 .. n : i \in 1 .. n - 1 \/ i = n
      BY <3>1
    <3> QED BY <2>4, <2>7, <2>8, <3>2
  <2> QED BY <1>1, <2>3, <2>7, <2>9, SeqEqual
<1>5. ASSUME p \in There PROVE p \in Sem(p)
  <2> DEFINE m == [i \in 0 .. n |-> i]
  <2>1. m \in [0 .. n -> 0 .. n] /\ \A i \in 0 .. n : m[i] = i
    OBVIOUS
  <2> HIDE DEF m
  <2>2. \A i \in 1 .. n : p[i] # << >> => p[i] \in Names
    BY <1>5, PathIs
  <2>3. ASSUME NEW i \in 1 .. n
        PROVE  p[i] # DoubleStar /\ m[i] = m[i - 1] + 1 /\ Fits(p[i], p[m[i]])
    <3>1. i \in 0 .. n /\ i - 1 \in 0 .. n /\ i = i - 1 + 1
      BY <1>1
    <3>2. m[i] = i /\ m[i - 1] = i - 1
      BY <2>1, <3>1
    <3>3. Fits(p[i], p[i])
      BY <1>1, <2>2, PlainFits, Zenon
    <3> QED BY <1>2, <3>1, <3>2, <3>3
  <2>4. 0 \in 0 .. n /\ n \in 0 .. n
    BY <1>1
  <2>5. Reads(m, p, p) /\ m[n] = n
    BY <2>1, <2>3, <2>4 DEF Reads
  <2> QED BY <1>5, <2>5, Zenon DEF Sem, IsRead
<1>6. Sem(p) \subseteq There
  BY DEF Sem
<1> QED BY <1>4, <1>5, <1>6

(***************************************************************************)
(* The pattern that was written, cut into parts                            *)
(***************************************************************************)
\* A "**" is at the i-th character; what ExpandedPart() makes there of the parts that
\* come later.
Pieces == Seq(Seq(Nat)) \ {<< >>}
Doubled(part, i) == i < Len(part) /\ SubSeq(part, i, i + 1) = DoubleStar
Onto(name, parts) == <<name \o Head(parts)>> \o Tail(parts)
Twice(parts) == <<<<Star>>, DoubleStar>> \o parts
After(part, ends, i, later) ==
    IF i + 1 < Len(part) THEN Onto(<<Star>>, later) ELSE IF ends THEN <<<<Star>>>> ELSE << >>

\* A name put before the first part.
LEMMA OntoIs ==
    ASSUME NEW name \in Seq(Nat), NEW ps \in Pieces
    PROVE  /\ Onto(name, ps) \in Pieces /\ Len(Onto(name, ps)) = Len(ps)
           /\ Onto(name, ps)[1] = name \o ps[1]
           /\ \A k \in 2 .. Len(ps) : Onto(name, ps)[k] = ps[k]
<1> DEFINE h == name \o Head(ps)
           u == <<h>>
           t == Tail(ps)
           r == u \o t
           n == Len(ps)
<1>1. ps \in Seq(Seq(Nat)) /\ ps # << >> /\ n \in Nat \ {0} /\ n >= 1
  BY EmptySeq DEF Pieces
<1>2. Head(ps) \in Seq(Nat) /\ Head(ps) = ps[1]
  BY <1>1
<1>3. /\ t \in Seq(Seq(Nat)) /\ Len(t) = n - 1
      /\ \A k \in 1 .. n - 1 : t[k] = ps[k + 1]
  BY <1>1, HeadTailProperties
<1>4. h \in Seq(Nat) /\ h = name \o ps[1]
  BY <1>2, ConcatProperties
<1> HIDE DEF h, t
<1>5. u \in Seq(Seq(Nat)) /\ Len(u) = 1 /\ u[1] = h
  BY <1>4
<1> HIDE DEF u
<1>6. /\ r \in Seq(Seq(Nat)) /\ Len(r) = Len(u) + Len(t)
      /\ \A k \in 1 .. Len(u) + Len(t) : r[k] = IF k <= Len(u) THEN u[k] ELSE t[k - Len(u)]
  <2>1. u \in Seq(Seq(Nat)) /\ t \in Seq(Seq(Nat))
    BY <1>3, <1>5
  <2> QED BY <2>1, ConcatProperties, Zenon
<1> HIDE DEF r, n
<1>7. /\ r \in Seq(Seq(Nat)) /\ Len(r) = n
      /\ \A k \in 1 .. n : r[k] = IF k <= 1 THEN u[k] ELSE t[k - 1]
  <2>1. Len(u) = 1 /\ Len(u) + Len(t) = n
    BY <1>1, <1>3, <1>5
  <2> QED BY <1>6, <2>1
<1>8. r[1] = name \o ps[1]
  <2>1. 1 \in 1 .. n /\ 1 <= 1
    BY <1>1
  <2> QED BY <1>4, <1>5, <1>7, <2>1
<1>9. ASSUME NEW k \in 2 .. n PROVE r[k] = ps[k]
  <2>1. k \in 1 .. n /\ ~(k <= 1) /\ k - 1 \in 1 .. n - 1 /\ (k - 1) + 1 = k
    BY <1>1
  <2> QED BY <1>3, <1>7, <2>1
<1>10. r \in Pieces
  <2>1. r # << >>
    BY <1>1, <1>7
  <2> QED BY <1>7, <2>1 DEF Pieces
<1> QED BY <1>7, <1>8, <1>9, <1>10, Zenon DEF r, u, t, h, n, Onto

\* Two parts put before the others.
LEMMA TwiceIs ==
    ASSUME NEW ps \in Seq(Seq(Nat))
    PROVE  /\ Twice(ps) \in Pieces /\ Len(Twice(ps)) = Len(ps) + 2
           /\ Twice(ps)[1] = <<Star>> /\ Twice(ps)[2] = DoubleStar
           /\ \A k \in 1 .. Len(ps) : Twice(ps)[k + 2] = ps[k]
<1> DEFINE x == <<Star>>
           u == <<x, DoubleStar>>
           r == u \o ps
           n == Len(ps)
<1>1. x \in Seq(Nat) /\ DoubleStar \in Seq(Nat) /\ n \in Nat
  BY StarsWild
<1> HIDE DEF x
<1>2. u \in Seq(Seq(Nat)) /\ Len(u) = 2 /\ u[1] = x /\ u[2] = DoubleStar
  BY <1>1
<1> HIDE DEF u
<1>3. /\ r \in Seq(Seq(Nat)) /\ Len(r) = Len(u) + Len(ps)
      /\ \A k \in 1 .. Len(u) + Len(ps) : r[k] = IF k <= Len(u) THEN u[k] ELSE ps[k - Len(u)]
  BY <1>2, ConcatProperties, Zenon
<1> HIDE DEF r, n
<1>4. /\ r \in Seq(Seq(Nat)) /\ Len(r) = n + 2
      /\ \A k \in 1 .. n + 2 : r[k] = IF k <= 2 THEN u[k] ELSE ps[k - 2]
  <2>1. Len(u) = 2 /\ Len(u) + Len(ps) = n + 2
    BY <1>1, <1>2 DEF n
  <2> QED BY <1>3, <2>1
<1>5. r[1] = x /\ r[2] = DoubleStar
  <2>1. 1 \in 1 .. n + 2 /\ 1 <= 2 /\ 2 \in 1 .. n + 2 /\ 2 <= 2
    BY <1>1
  <2> QED BY <1>2, <1>4, <2>1
<1>6. ASSUME NEW k \in 1 .. n PROVE r[k + 2] = ps[k]
  <2>1. k + 2 \in 1 .. n + 2 /\ ~(k + 2 <= 2) /\ (k + 2) - 2 = k
    BY <1>1
  <2> QED BY <1>4, <2>1
<1>7. r \in Pieces
  <2>1. r # << >>
    BY <1>1, <1>4
  <2> QED BY <1>4, <2>1 DEF Pieces
<1> QED BY <1>4, <1>5, <1>6, <1>7, Zenon DEF r, u, x, n, Twice

\* A "**" in a part.
LEMMA DoubledIs ==
    ASSUME NEW part \in Seq(Nat), NEW i \in 1 .. Len(part)
    PROVE  Doubled(part, i) <=> i < Len(part) /\ part[i] = Star /\ part[i + 1] = Star
<1> DEFINE s == SubSeq(part, i, i + 1)
<1>1. i \in Nat /\ i >= 1 /\ Len(part) \in Nat
  OBVIOUS
<1>2. DoubleStar \in Seq(Nat) /\ Len(DoubleStar) = 2 /\ DoubleStar[1] = Star /\ DoubleStar[2] = Star
  BY DEF DoubleStar, Star
<1>3. ASSUME i < Len(part)
      PROVE  s = DoubleStar <=> part[i] = Star /\ part[i + 1] = Star
  <2> DEFINE j == i + 1
  <2>1. (\A k \in i .. j : part[k] \in Nat) /\ i \in Int /\ j \in Int
    BY <1>1, <1>3
  <2>3. /\ j - i + 1 = 2 /\ i <= j /\ i + 1 - 1 = i /\ i + 2 - 1 = j /\ 1 \in 1 .. 2 /\ 2 \in 1 .. 2
        /\ j = i + 1
    BY <1>1
  <2>2. /\ s \in Seq(Nat) /\ Len(s) = IF i <= j THEN j - i + 1 ELSE 0
        /\ \A k \in 1 .. j - i + 1 : s[k] = part[i + k - 1]
    <3> HIDE DEF j
    <3> QED BY <2>1, <2>3, SubSeqProperties
  <2> HIDE DEF s, j
  <2>4. s \in Seq(Nat) /\ Len(s) = 2 /\ s[1] = part[i] /\ s[2] = part[i + 1]
    BY <2>2, <2>3
  <2>5. ASSUME s[1] = Star, s[2] = Star PROVE s = DoubleStar
    <3>1. \A k \in 1 .. 2 : k = 1 \/ k = 2
      OBVIOUS
    <3>2. \A k \in 1 .. Len(s) : s[k] = DoubleStar[k]
      BY <1>2, <2>4, <2>5, <3>1
    <3> QED BY <1>2, <2>4, <3>2, SeqEqual
  <2> QED BY <1>2, <2>4, <2>5
<1> HIDE DEF s
<1> QED BY <1>3, Zenon DEF s, Doubled

\* The parts from the i-th character of a part on.
From(F, part, ends) ==
    /\ F \in [1 .. Len(part) + 1 -> Pieces]
    /\ F[Len(part) + 1] = <<<< >>>>
    /\ \A i \in 1 .. Len(part) :
          /\ ~Doubled(part, i) => F[i] = Onto(<<part[i]>>, F[i + 1])
          /\ Doubled(part, i) => F[i] = Twice(After(part, ends, i, F[i + 2]))

\* What follows a "**" is parts.
LEMMA AfterIs ==
    ASSUME NEW part \in Seq(Nat), NEW ends, NEW i, NEW later \in Pieces
    PROVE  After(part, ends, i, later) \in Seq(Seq(Nat))
<1> DEFINE x == <<Star>>
<1>1. x \in Seq(Nat)
  BY StarsWild
<1> HIDE DEF x
<1>2. Onto(x, later) \in Seq(Seq(Nat))
  BY <1>1, OntoIs DEF Pieces
<1>3. <<x>> \in Seq(Seq(Nat)) /\ << >> \in Seq(Seq(Nat))
  BY <1>1
<1> QED BY <1>2, <1>3, Zenon DEF After, x

\* A part expanded, without the function that ExpandedPart() is defined with.
LEMMA PartByFrom ==
    ASSUME NEW part \in Seq(Nat), NEW ends
    PROVE  \E F : /\ From(F, part, ends)
                  /\ ExpandedPart(part, ends) = IF Doubled(part, 1) THEN Tail(F[1]) ELSE F[1]
<1> DEFINE n == Len(part)
           none == <<<< >>>>
           Of(i, next, later) ==
               IF i > Len(part) THEN <<<< >>>>
               ELSE IF ~Doubled(part, i) THEN Onto(<<part[i]>>, next)
               ELSE Twice(After(part, ends, i, later))
           Is(f) == f = [i \in 1 .. Len(part) + 1 |-> Of(i, f[i + 1], f[i + 2])]
           F == CHOOSE f : Is(f)
           S == Pieces \X Pieces
           step == [k \in 1 .. n |-> [s \in S |-> <<Of(n + 1 - k, s[1], s[2]), s[1]>>]]
<1>1. n \in Nat /\ none \in Pieces
  BY DEF Pieces
<1>2. ASSUME NEW i \in 1 .. n, NEW u \in Pieces, NEW v \in Pieces
      PROVE  Of(i, u, v) \in Pieces
  <2>1. ~(i > n)
    BY <1>1
  <2>2. <<part[i]>> \in Seq(Nat)
    OBVIOUS
  <2>3. Onto(<<part[i]>>, u) \in Pieces
    BY <2>2, OntoIs
  <2>4. Twice(After(part, ends, i, v)) \in Pieces
    <3>1. After(part, ends, i, v) \in Seq(Seq(Nat))
      BY AfterIs
    <3> QED BY <3>1, TwiceIs
  <2> QED BY <2>1, <2>3, <2>4, Zenon
<1> HIDE DEF Of, none
<1>3. step \in [1 .. n -> [S -> S]]
  <2>1. ASSUME NEW k \in 1 .. n, NEW s \in S
        PROVE  <<Of(n + 1 - k, s[1], s[2]), s[1]>> \in S
    <3>1. n + 1 - k \in 1 .. n /\ s[1] \in Pieces /\ s[2] \in Pieces
      BY <1>1
    <3>2. Of(n + 1 - k, s[1], s[2]) \in Pieces
      <4> HIDE DEF n
      <4> QED BY <1>2, <3>1
    <3> QED BY <3>1, <3>2
  <2> HIDE DEF S, n
  <2> QED BY <2>1
<1>4. PICK f \in [0 .. n -> S] : Stepped(f, n, <<none, none>>, step)
  <2>1. <<none, none>> \in S
    BY <1>1
  <2> DEFINE x == <<none, none>>
  <2> HIDE DEF step, n, S, x
  <2> QED BY <1>1, <1>3, <2>1, Stepwise DEF x
<1>5. /\ f[0] = <<none, none>>
      /\ \A k \in 1 .. n : f[k] = <<Of(n + 1 - k, f[k - 1][1], f[k - 1][2]), f[k - 1][1]>>
  <2>1. f[0] = <<none, none>> /\ \A k \in 1 .. n : f[k] = step[k][f[k - 1]]
    BY <1>4, Zenon DEF Stepped
  <2>2. ASSUME NEW k \in 1 .. n PROVE step[k][f[k - 1]] = <<Of(n + 1 - k, f[k - 1][1], f[k - 1][2]), f[k - 1][1]>>
    <3>1. f[k - 1] \in S
      <4>1. k - 1 \in 0 .. n
        BY <1>1
      <4> HIDE DEF S, n
      <4> QED BY <1>4, <4>1
    <3> HIDE DEF S
    <3> QED BY <3>1
  <2> QED BY <2>1, <2>2
<1> DEFINE g == [i \in 1 .. n + 1 |-> f[n + 1 - i][1]]
<1>6. \A i \in 1 .. n + 1 : g[i] = f[n + 1 - i][1]
  OBVIOUS
<1>7. g[n + 1] = none
  <2>1. n + 1 \in 1 .. n + 1 /\ n + 1 - (n + 1) = 0
    BY <1>1
  <2> HIDE DEF g, n
  <2>2. g[n + 1] = f[0][1]
    BY <1>6, <2>1
  <2> QED BY <1>5, <2>2
<1>8. ASSUME NEW i \in 1 .. n PROVE g[i] = Of(i, g[i + 1], g[i + 2])
  <2>1. /\ n + 1 - i \in 1 .. n /\ (n + 1 - i) - 1 = n + 1 - (i + 1) /\ i \in 1 .. n + 1
        /\ i + 1 \in 1 .. n + 1 /\ n + 1 - (n + 1 - i) = i
    BY <1>1
  <2> HIDE DEF g, n
  <2>2. f[n + 1 - i] = <<Of(n + 1 - (n + 1 - i), f[(n + 1 - i) - 1][1], f[(n + 1 - i) - 1][2]), f[(n + 1 - i) - 1][1]>>
    BY <1>5, <2>1
  <2> DEFINE e == f[n + 1 - (i + 1)]
  <2>3. f[n + 1 - i] = <<Of(i, e[1], e[2]), e[1]>>
    BY <2>1, <2>2
  <2>4. g[i] = Of(i, e[1], e[2]) /\ g[i + 1] = e[1]
    <3>1. g[i] = f[n + 1 - i][1] /\ g[i + 1] = e[1]
      BY <1>6, <2>1
    <3> HIDE DEF e
    <3> QED BY <2>3, <3>1
  <2>5. CASE i = n
    <3>1. \A v : Of(i, e[1], v) = Of(i, e[1], e[2])
      <4>1. ~(i + 1 < Len(part))
        BY <1>1, <2>5 DEF n
      <4> QED BY <4>1, Zenon DEF Of, After
    <3> HIDE DEF e
    <3> QED BY <2>4, <3>1
  <2>6. CASE i # n
    <3>1. /\ n + 1 - (i + 1) \in 1 .. n /\ (n + 1 - (i + 1)) - 1 = n + 1 - (i + 2)
          /\ i + 2 \in 1 .. n + 1
      BY <1>1, <2>6
    <3>2. e[2] = f[n + 1 - (i + 2)][1]
      BY <1>5, <3>1
    <3>3. e[2] = g[i + 2]
      BY <1>6, <3>1, <3>2
    <3> HIDE DEF e
    <3> QED BY <2>4, <3>3
  <2> QED BY <2>5, <2>6
<1>9. Is(g)
  <2>1. ASSUME NEW i \in 1 .. n + 1 PROVE g[i] = Of(i, g[i + 1], g[i + 2])
    <3>1. CASE i = n + 1
      <4>1. i > Len(part)
        BY <1>1, <3>1 DEF n
      <4>2. Of(i, g[i + 1], g[i + 2]) = none
        BY <4>1, Zenon DEF Of, none
      <4> HIDE DEF g, n
      <4> QED BY <1>7, <3>1, <4>2
    <3>2. CASE i # n + 1
      <4>1. i \in 1 .. n
        BY <1>1, <3>2
      <4> HIDE DEF g, n
      <4> QED BY <1>8, <4>1
    <3> QED BY <3>1, <3>2
  <2>2. g = [i \in 1 .. n + 1 |-> g[i]]
    BY Zenon
  <2> HIDE DEF g
  <2> QED BY <2>1, <2>2, Zenon
<1>10. Is(F)
  <2> HIDE DEF Is, g
  <2> QED BY <1>9, Zenon
<1>11. ExpandedPart(part, ends) = IF Doubled(part, 1) THEN Tail(F[1]) ELSE F[1]
  BY Zenon DEF ExpandedPart, Doubled, Onto, Twice, After, Of
<1> HIDE DEF F, g
<1>12. \A i \in 1 .. n + 1 : F[i] = Of(i, F[i + 1], F[i + 2])
  BY <1>10
<1>13. DOMAIN F = 1 .. n + 1
  BY <1>10
<1>14. F[n + 1] = none
  <2>1. n + 1 \in 1 .. n + 1 /\ n + 1 > Len(part)
    BY <1>1
  <2> QED BY <1>12, <2>1, Zenon DEF Of, none
<1> DEFINE A == {e \in 0 .. n : F[n + 1 - e] \in Pieces /\ (e # 0 => F[n + 2 - e] \in Pieces)}
<1>15. 0 \in A
  <2>1. n + 1 - 0 = n + 1
    BY <1>1
  <2> HIDE DEF n
  <2> QED BY <1>1, <1>14, <2>1
<1>16. ASSUME NEW e \in 0 .. n, e \in A, e # n PROVE e + 1 \in A
  <2> DEFINE i == n - e
  <2>1. /\ i \in 1 .. n /\ n + 1 - (e + 1) = i /\ n + 2 - (e + 1) = i + 1 /\ n + 1 - e = i + 1
        /\ n + 2 - e = i + 2 /\ e + 1 \in 0 .. n /\ i \in 1 .. n + 1
    BY <1>1, <1>16
  <2> HIDE DEF i, n
  <2>2. F[i + 1] \in Pieces /\ (e # 0 => F[i + 2] \in Pieces)
    BY <1>16, <2>1
  <2>3. F[i] = Of(i, F[i + 1], F[i + 2])
    BY <1>12, <2>1
  <2>4. F[i] \in Pieces
    <3>1. CASE e # 0
      BY <1>2, <2>1, <2>2, <2>3, <3>1
    <3>2. CASE e = 0
      <4>1. ~(i + 1 < Len(part))
        BY <1>1, <2>1, <3>2 DEF n
      <4>2. Of(i, F[i + 1], F[i + 2]) = Of(i, F[i + 1], none)
        BY <4>1, Zenon DEF Of, After
      <4> QED BY <1>1, <1>2, <2>1, <2>2, <2>3, <4>2
    <3> QED BY <3>1, <3>2
  <2> QED BY <2>1, <2>2, <2>4
<1>17. 0 .. n \subseteq A
  <2> HIDE DEF A, n
  <2> QED BY <1>1, <1>15, <1>16, Upward
<1>18. \A i \in 1 .. n + 1 : F[i] \in Pieces
  <2>1. \A i \in 1 .. n + 1 : n + 1 - i \in 0 .. n /\ n + 1 - (n + 1 - i) = i
    BY <1>1
  <2> HIDE DEF n
  <2> QED BY <1>17, <2>1
<1>19. F \in [1 .. n + 1 -> Pieces]
  <2>1. F = [i \in 1 .. n + 1 |-> F[i]]
    BY <1>10, Zenon
  <2> QED BY <1>18, <2>1
<1>20. ASSUME NEW i \in 1 .. n
       PROVE  /\ ~Doubled(part, i) => F[i] = Onto(<<part[i]>>, F[i + 1])
              /\ Doubled(part, i) => F[i] = Twice(After(part, ends, i, F[i + 2]))
  <2>1. i \in 1 .. n + 1 /\ ~(i > Len(part))
    BY <1>1
  <2> QED BY <1>12, <2>1, Zenon DEF Of
<1>21. From(F, part, ends)
  BY <1>14, <1>19, <1>20, Zenon DEF From, none
<1> QED BY <1>11, <1>21

\* Nothing follows the part but, for a directory, a slash; a "**" does not come to the end.
Ending(s, ends) == ends /\ s[Len(s)] = DoubleStar => Len(s) >= 2 /\ s[Len(s) - 1] = DoubleStar
\* What is made of a part, from its i-th character on.
Cut(s, part, ends, i) ==
    /\ s \in Pieces
    /\ i <= Len(part) => s[1] # << >> /\ s[1][1] = part[i]
    /\ i > Len(part) => s[1] = << >>
    /\ s[1] # DoubleStar
    /\ \A k \in 2 .. Len(s) : s[k] # << >>
    /\ Ending(s, ends)
    /\ \/ Len(s) = 1 /\ s[1] = SubSeq(part, i, Len(part))
       \/ \A k \in 1 .. Len(s) : Wild(s[k])

\* A name with a wildcard before or after it has one.
LEMMA WildWith ==
    ASSUME NEW s \in Seq(Nat), NEW t \in Seq(Nat)
    PROVE  /\ Wild(s) \/ Wild(t) => Wild(s \o t)
           /\ Wild(<<Star>> \o t)
<1>1. ToSet(s \o t) = ToSet(s) \cup ToSet(t)
  BY ToSetOfConcat
<1>2. Wild(s) \/ Wild(t) => Wild(s \o t)
  BY <1>1 DEF Wild
<1> DEFINE x == <<Star>>
<1>3. x \in Seq(Nat) /\ Wild(x)
  BY StarsWild
<1> HIDE DEF x
<1>4. ToSet(x \o t) = ToSet(x) \cup ToSet(t)
  BY <1>3, ToSetOfConcat
<1>5. Wild(x \o t)
  BY <1>3, <1>4 DEF Wild
<1> QED BY <1>2, <1>5 DEF x

\* The first character of a name put before another, and a name of one character.
LEMMA Before ==
    ASSUME NEW c \in Nat, NEW t \in Seq(Nat)
    PROVE  /\ <<c>> \o t \in Seq(Nat) /\ <<c>> \o t # << >> /\ (<<c>> \o t)[1] = c
           /\ <<c>> \o t = DoubleStar => c = Star /\ t # << >> /\ t[1] = Star
<1> DEFINE o == <<c>>
           z == o \o t
<1>1. o \in Seq(Nat) /\ Len(o) = 1 /\ o[1] = c
  OBVIOUS
<1> HIDE DEF o
<1>2. /\ z \in Seq(Nat) /\ Len(z) = Len(o) + Len(t)
      /\ \A i \in 1 .. Len(o) + Len(t) : z[i] = IF i <= Len(o) THEN o[i] ELSE t[i - Len(o)]
  BY <1>1, ConcatProperties, Zenon
<1> HIDE DEF z
<1>3. Len(t) \in Nat
  OBVIOUS
<1>4. 1 \in 1 .. Len(o) + Len(t) /\ 1 <= Len(o)
  BY <1>1, <1>3
<1>5. z # << >> /\ z[1] = c
  BY <1>1, <1>2, <1>4
<1>6. ASSUME z = DoubleStar PROVE c = Star /\ t # << >> /\ t[1] = Star
  <2>1. Len(DoubleStar) = 2 /\ DoubleStar[1] = Star /\ DoubleStar[2] = Star
    BY DEF DoubleStar
  <2>2. Len(z) = 2 /\ z[1] = Star /\ z[2] = Star
    BY <1>6, <2>1, Zenon
  <2>7. Len(z) = Len(o) + Len(t) /\ Len(o) = 1
    BY <1>1, <1>2
  <2>3. Len(t) = 1 /\ c = Star
    <3>1. Len(t) = 1
      <4> DEFINE k == Len(t)
      <4>1. k \in Nat /\ 2 = 1 + k
        BY <1>3, <2>2, <2>7
      <4> HIDE DEF k
      <4>2. k = 1
        BY <4>1
      <4> QED BY <4>2 DEF k
    <3> QED BY <1>5, <2>2, <3>1
  <2>4. 2 \in 1 .. Len(o) + Len(t) /\ ~(2 <= Len(o)) /\ 2 - Len(o) = 1
    BY <1>1, <2>3
  <2>5. z[2] = t[2 - Len(o)]
    BY <1>2, <2>4
  <2>6. t[1] = Star
    BY <2>2, <2>4, <2>5
  <2>8. t # << >>
    <3>1. Len(t) # 0
      <4>1. 1 # 0
        OBVIOUS
      <4> QED BY <2>3, <4>1, Zenon
    <3>2. t = << >> => Len(t) = 0
      BY EmptySeq
    <3> QED BY <3>1, <3>2, Zenon
  <2> QED BY <2>3, <2>6, <2>8
<1>7. z \in Seq(Nat) /\ z # << >> /\ z[1] = c /\ (z = DoubleStar => c = Star /\ t # << >> /\ t[1] = Star)
  BY <1>2, <1>5, <1>6
<1> QED BY <1>7, Zenon DEF z, o

\* A character that begins no "**".
LEMMA CutOnto ==
    ASSUME NEW part \in Seq(Nat), NEW ends, NEW i \in 1 .. Len(part), ~Doubled(part, i),
           NEW s, Cut(s, part, ends, i + 1)
    PROVE  Cut(Onto(<<part[i]>>, s), part, ends, i)
<1> DEFINE c == part[i]
           o == <<c>>
           r == Onto(o, s)
           n == Len(s)
<1>1. c \in Nat /\ o \in Seq(Nat) /\ i \in Nat /\ i >= 1 /\ Len(part) \in Nat /\ i <= Len(part)
  OBVIOUS
<1>2. /\ s \in Pieces /\ s[1] # DoubleStar
      /\ \A k \in 2 .. n : s[k] # << >>
      /\ i + 1 <= Len(part) => s[1] # << >> /\ s[1][1] = part[i + 1]
  BY DEF Cut
<1>3. s \in Seq(Seq(Nat)) /\ n \in Nat /\ n >= 1 /\ s[1] \in Seq(Nat) /\ \A k \in 1 .. n : s[k] \in Seq(Nat)
  <2>1. s \in Seq(Seq(Nat)) /\ n \in Nat \ {0}
    BY <1>2, EmptySeq DEF Pieces
  <2> QED BY <2>1
<1>4. r \in Pieces /\ Len(r) = n /\ r[1] = o \o s[1] /\ \A k \in 2 .. n : r[k] = s[k]
  BY <1>1, <1>2, OntoIs
<1>5. /\ r[1] # << >> /\ r[1][1] = c
      /\ r[1] = DoubleStar => c = Star /\ s[1] # << >> /\ s[1][1] = Star
  <2> DEFINE h == s[1]
             z == o \o h
  <2>1. z # << >> /\ z[1] = c /\ (z = DoubleStar => c = Star /\ h # << >> /\ h[1] = Star)
    <3>1. c \in Nat /\ h \in Seq(Nat)
      BY <1>1, <1>3
    <3> HIDE DEF h, c
    <3> QED BY <3>1, Before, Zenon
  <2>2. r[1] = z
    BY <1>4
  <2> HIDE DEF z
  <2> QED BY <2>1, <2>2
<1> HIDE DEF r, n, o
<1>6. r[1] # DoubleStar
  <2> SUFFICES ASSUME r[1] = DoubleStar PROVE FALSE
    OBVIOUS
  <2>1. c = Star /\ s[1] # << >> /\ s[1][1] = Star
    BY <1>5
  <2>2. CASE i + 1 <= Len(part)
    <3>1. part[i + 1] = Star /\ i < Len(part)
      BY <1>1, <1>2, <2>1, <2>2
    <3> QED BY <2>1, <3>1, DoubledIs
  <2>3. CASE ~(i + 1 <= Len(part))
    <3>1. i + 1 > Len(part)
      BY <1>1, <2>3
    <3> QED BY <2>1, <3>1 DEF Cut
  <2> QED BY <2>2, <2>3
<1>7. Ending(r, ends)
  <2>0. SUFFICES ASSUME ends, r[Len(r)] = DoubleStar
                 PROVE  Len(r) >= 2 /\ r[Len(r) - 1] = DoubleStar
    BY Zenon DEF Ending
  <2>6. r[n] = DoubleStar /\ n \in Nat /\ n >= 1
    BY <1>3, <1>4, <2>0 DEF n
  <2>7. n # 1
    BY <1>6, <2>6
  <2>1. n \in 2 .. n
    BY <2>6, <2>7
  <2>2. s[n] = DoubleStar
    BY <1>4, <2>1, <2>6
  <2>3. n >= 2 /\ s[n - 1] = DoubleStar
    BY <2>0, <2>2, Zenon DEF Cut, Ending, n
  <2>4. n - 1 # 1
    BY <1>2, <2>3
  <2>5. n - 1 \in 2 .. n
    BY <1>3, <2>1, <2>4
  <2> QED BY <1>4, <2>3, <2>5
<1>8. \/ Len(r) = 1 /\ r[1] = SubSeq(part, i, Len(part))
      \/ \A k \in 1 .. Len(r) : Wild(r[k])
  <2>1. CASE n = 1 /\ s[1] = SubSeq(part, i + 1, Len(part))
    <3>1. SubSeq(part, i, Len(part)) = <<part[i]>> \o SubSeq(part, i + 1, Len(part))
      <4>1. Len(part) \in i .. Len(part)
        BY <1>1
      <4> QED BY <4>1, SubSeqRecursiveFirst
    <3> QED BY <1>4, <2>1, <3>1, Zenon DEF o
  <2>2. CASE \A k \in 1 .. n : Wild(s[k])
    <3>1. Wild(s[1])
      BY <1>3, <2>2
    <3>2. Wild(r[1])
      BY <1>1, <1>3, <1>4, <3>1, WildWith DEF o
    <3>3. ASSUME NEW k \in 1 .. n PROVE Wild(r[k])
      <4>1. k = 1 \/ k \in 2 .. n
        BY <1>3
      <4> QED BY <1>4, <2>2, <3>2, <4>1
    <3> QED BY <1>4, <3>3
  <2>3. \/ n = 1 /\ s[1] = SubSeq(part, i + 1, Len(part))
        \/ \A k \in 1 .. n : Wild(s[k])
    BY Zenon DEF Cut, n
  <2> QED BY <2>1, <2>2, <2>3
<1>9. \A k \in 2 .. Len(r) : r[k] # << >>
  BY <1>2, <1>4
<1>10. ~(i > Len(part))
  BY <1>1
<1>11. Cut(r, part, ends, i)
  BY <1>4, <1>5, <1>6, <1>7, <1>8, <1>9, <1>10, Zenon DEF Cut
<1> QED BY <1>11, Zenon DEF r, o

\* A "**" in a part.
LEMMA CutTwice ==
    ASSUME NEW part \in Seq(Nat), NEW ends, NEW i \in 1 .. Len(part), Doubled(part, i),
           NEW s, i + 1 < Len(part) => Cut(s, part, ends, i + 2)
    PROVE  Cut(Twice(After(part, ends, i, s)), part, ends, i)
<1> DEFINE x == <<Star>>
           a == After(part, ends, i, s)
           r == Twice(a)
           n == Len(a)
\* What follows the "**".
<1>1. /\ a \in Seq(Seq(Nat))
      /\ \A k \in 1 .. n : a[k] # << >> /\ Wild(a[k])
      /\ ends => n >= 1
      /\ ends /\ a[n] = DoubleStar => n = 1 \/ a[n - 1] = DoubleStar
  <2>0. x \in Seq(Nat) /\ x # << >> /\ Wild(x) /\ x # DoubleStar
    BY StarsWild
  <2>1. CASE i + 1 < Len(part)
    <3> DEFINE b == Onto(x, s)
               l == Len(s)
    <3>1. a = b
      BY <2>1, Zenon DEF After
    <3>2. s \in Pieces /\ s[1] # DoubleStar /\ \A k \in 2 .. l : s[k] # << >>
      BY <2>1 DEF Cut
    <3>3. s \in Seq(Seq(Nat)) /\ l \in Nat /\ l >= 1 /\ s[1] \in Seq(Nat)
      <4>1. s \in Seq(Seq(Nat)) /\ l \in Nat \ {0}
        BY <3>2, EmptySeq DEF Pieces
      <4> QED BY <4>1
    <3>4. b \in Pieces /\ Len(b) = l /\ b[1] = x \o s[1] /\ \A k \in 2 .. l : b[k] = s[k]
      BY <2>0, <3>2, OntoIs
    <3>5. b[1] # << >> /\ Wild(b[1])
      <4> DEFINE h == s[1]
                 z == x \o h
      <4>1. h \in Seq(Nat) /\ Star \in Nat
        BY <3>3 DEF Star
      <4>2. z # << >> /\ Wild(z)
        <5> HIDE DEF h
        <5> QED BY <4>1, Before, WildWith, Zenon
      <4>3. b[1] = z
        BY <3>4, Zenon
      <4> HIDE DEF z, b
      <4> QED BY <4>2, <4>3
    <3> HIDE DEF a, b, l, x
    <3>6. \A k \in 2 .. l : Wild(s[k])
      <4>1. l = 1 \/ \A k \in 1 .. l : Wild(s[k])
        BY <2>1, Zenon DEF Cut, l
      <4>2. \A k \in 2 .. l : k \in 1 .. l /\ l # 1
        BY <3>3
      <4> QED BY <4>1, <4>2
    <3>7. n = l
      BY <3>1, <3>4
    <3>8. ASSUME NEW k \in 1 .. l PROVE a[k] # << >> /\ Wild(a[k])
      <4>1. k = 1 \/ k \in 2 .. l
        BY <3>3
      <4> QED BY <3>1, <3>2, <3>4, <3>5, <3>6, <4>1
    <3>9. ASSUME a[l] = DoubleStar, l # 1, ends PROVE a[l - 1] = DoubleStar
      <4>1. l \in 2 .. l
        BY <3>3, <3>9
      <4>2. s[l] = DoubleStar
        BY <3>1, <3>4, <3>9, <4>1
      <4>3. s[l - 1] = DoubleStar
        BY <2>1, <3>9, <4>2, Zenon DEF Cut, Ending, l
      <4>4. l - 1 # 1
        BY <3>2, <4>3
      <4>5. l - 1 \in 2 .. l
        BY <3>3, <4>1, <4>4
      <4> QED BY <3>1, <3>4, <4>3, <4>5
    <3>10. a \in Seq(Seq(Nat)) /\ l >= 1
      BY <3>1, <3>3, <3>4 DEF Pieces
    <3> HIDE DEF n
    <3> QED BY <3>7, <3>8, <3>9, <3>10
  <2>2. CASE ~(i + 1 < Len(part)) /\ ends
    <3>1. a = <<x>>
      BY <2>2, Zenon DEF After
    <3> HIDE DEF a, x
    <3>2. a \in Seq(Seq(Nat)) /\ n = 1 /\ a[1] = x
      BY <2>0, <3>1
    <3> HIDE DEF n
    <3> QED BY <2>0, <3>2
  <2>3. CASE ~(i + 1 < Len(part)) /\ ~ends
    <3>1. a = << >>
      BY <2>3, Zenon DEF After
    <3> HIDE DEF a
    <3>2. a \in Seq(Seq(Nat)) /\ n = 0
      BY <3>1
    <3> HIDE DEF n
    <3> QED BY <2>3, <3>2
  <2> QED BY <2>1, <2>2, <2>3
<1>2. n \in Nat /\ Len(part) \in Nat /\ i \in Nat
  BY <1>1
<1>3. /\ r \in Pieces /\ Len(r) = n + 2 /\ r[1] = x /\ r[2] = DoubleStar
      /\ \A k \in 1 .. n : r[k + 2] = a[k]
  BY <1>1, TwiceIs
<1>4. /\ x # << >> /\ Wild(x) /\ x # DoubleStar /\ x[1] = Star
      /\ DoubleStar # << >> /\ Wild(DoubleStar)
  BY StarsWild
<1> HIDE DEF x, a, n, r
<1>5. ASSUME NEW k \in 2 .. Len(r) PROVE r[k] # << >> /\ Wild(r[k])
  <2>1. CASE k = 2
    BY <1>3, <1>4, <2>1
  <2>2. CASE k # 2
    <3>1. k - 2 \in 1 .. n /\ (k - 2) + 2 = k
      BY <1>2, <1>3, <2>2
    <3>2. r[k] = a[k - 2]
      BY <1>3, <3>1
    <3> QED BY <1>1, <3>1, <3>2
  <2> QED BY <2>1, <2>2
<1>6. ASSUME NEW k \in 1 .. Len(r) PROVE Wild(r[k])
  <2>1. k = 1 \/ k \in 2 .. Len(r)
    BY <1>2, <1>3
  <2> QED BY <1>3, <1>4, <1>5, <2>1
<1>7. Ending(r, ends)
  <2>1. SUFFICES ASSUME ends, r[Len(r)] = DoubleStar
                 PROVE  Len(r) >= 2 /\ r[Len(r) - 1] = DoubleStar
    BY Zenon DEF Ending
  <2>2. n \in 1 .. n /\ Len(r) = n + 2 /\ (n + 2) - 1 = n + 1 /\ n + 2 >= 2
    BY <1>1, <1>2, <1>3, <2>1
  <2>3. a[n] = DoubleStar
    BY <1>3, <2>1, <2>2
  <2>4. CASE n = 1
    BY <1>3, <2>2, <2>4
  <2>5. CASE n # 1
    <3>1. a[n - 1] = DoubleStar
      BY <1>1, <2>1, <2>3, <2>5
    <3>2. n - 1 \in 1 .. n /\ (n - 1) + 2 = n + 1
      BY <1>2, <2>2, <2>5
    <3>3. r[(n - 1) + 2] = a[n - 1]
      BY <1>3, <3>2
    <3> QED BY <2>2, <3>1, <3>2, <3>3
  <2> QED BY <2>4, <2>5
<1>8. part[i] = Star /\ ~(i > Len(part))
  BY <1>2, DoubledIs
<1>9. \A k \in 2 .. Len(r) : r[k] # << >>
  BY <1>5
<1>10. \A k \in 1 .. Len(r) : Wild(r[k])
  BY <1>6
<1>11. Cut(r, part, ends, i)
  BY <1>3, <1>4, <1>7, <1>8, <1>9, <1>10, Zenon DEF Cut
<1> QED BY <1>11, Zenon DEF r, a

\* A part expanded.
LEMMA ExpandedPartIs ==
    ASSUME NEW part \in Seq(Nat), NEW ends
    PROVE  LET e == ExpandedPart(part, ends) IN
           /\ e \in Seq(Seq(Nat)) /\ Len(e) >= 1
           /\ IF part = << >> THEN e = <<<< >>>> ELSE \A k \in 1 .. Len(e) : e[k] # << >>
           /\ Ending(e, ends)
           /\ \A k \in 1 .. Len(e) : Wild(e[k]) \/ e[k] = part
<1> DEFINE n == Len(part)
           e == ExpandedPart(part, ends)
<1>1. n \in Nat
  OBVIOUS
<1>2. PICK F : From(F, part, ends) /\ e = IF Doubled(part, 1) THEN Tail(F[1]) ELSE F[1]
  BY PartByFrom
<1>3. /\ F[n + 1] = <<<< >>>> /\ \A i \in 1 .. n + 1 : F[i] \in Pieces
      /\ \A i \in 1 .. n :
            /\ ~Doubled(part, i) => F[i] = Onto(<<part[i]>>, F[i + 1])
            /\ Doubled(part, i) => F[i] = Twice(After(part, ends, i, F[i + 2]))
  BY <1>2 DEF From
<1> HIDE DEF e
<1> DEFINE C(i) == Cut(F[i], part, ends, i)
           A == {k \in 0 .. n : C(n + 1 - k) /\ (k # 0 => C(n + 2 - k))}
<1>4. C(n + 1)
  <2> DEFINE s == <<<< >>>>
             z == << >>
  <2>1. s \in Pieces /\ Len(s) = 1 /\ s[1] = z
    BY DEF Pieces
  <2>2. z # DoubleStar /\ SubSeq(part, n + 1, n) = z
    BY <1>1, StarsWild, SubSeqEmpty
  <2> HIDE DEF s
  <2>3. ~(n + 1 <= n) /\ ~(1 >= 2) /\ \A k \in 2 .. 1 : FALSE
    BY <1>1
  <2>4. s[Len(s)] # DoubleStar
    BY <2>1, <2>2
  <2>5. Cut(s, part, ends, n + 1)
    BY <2>1, <2>2, <2>3, <2>4, Zenon DEF Cut, Ending
  <2> QED BY <1>3, <2>5, Zenon DEF s
<1>5. 0 \in A
  <2>1. n + 1 - 0 = n + 1
    BY <1>1
  <2> HIDE DEF C, n
  <2> QED BY <1>1, <1>4, <2>1
<1>6. ASSUME NEW k \in 0 .. n, k \in A, k # n PROVE k + 1 \in A
  <2> DEFINE i == n - k
  <2>1. /\ i \in 1 .. n /\ n + 1 - (k + 1) = i /\ n + 2 - (k + 1) = i + 1 /\ n + 1 - k = i + 1
        /\ n + 2 - k = i + 2 /\ k + 1 \in 0 .. n /\ (i + 1 < n => k # 0)
    BY <1>1, <1>6
  <2> HIDE DEF i, n
  <2>2. C(i + 1) /\ (k # 0 => C(i + 2))
    <3> HIDE DEF C
    <3> QED BY <1>6, <2>1
  <2>3. C(i)
    <3>1. CASE ~Doubled(part, i)
      <4>1. F[i] = Onto(<<part[i]>>, F[i + 1])
        BY <1>3, <2>1, <3>1, Zenon
      <4> QED BY <2>1, <2>2, <3>1, <4>1, CutOnto, Zenon DEF n
    <3>2. CASE Doubled(part, i)
      <4> DEFINE later == F[i + 2]
      <4>1. F[i] = Twice(After(part, ends, i, later))
        BY <1>3, <2>1, <3>2, Zenon
      <4>2. i + 1 < Len(part) => Cut(later, part, ends, i + 2)
        BY <2>1, <2>2, Zenon DEF n
      <4>3. i \in 1 .. Len(part)
        BY <2>1 DEF n
      <4> HIDE DEF later, C, A
      <4> QED BY <3>2, <4>1, <4>2, <4>3, CutTwice, Zenon DEF C
    <3> QED BY <3>1, <3>2
  <2> HIDE DEF C
  <2> QED BY <2>1, <2>2, <2>3
<1>7. C(1)
  <2>1. 0 .. n \subseteq A
    <3> HIDE DEF A, n
    <3> QED BY <1>1, <1>5, <1>6, Upward
  <2>2. n \in 0 .. n /\ n + 1 - n = 1
    BY <1>1
  <2> HIDE DEF C, n
  <2> QED BY <2>1, <2>2
<1> DEFINE s == F[1]
           l == Len(s)
<1>8. /\ s \in Pieces /\ s[1] # DoubleStar
      /\ (1 <= n => s[1] # << >>) /\ (1 > n => s[1] = << >>)
      /\ \A k \in 2 .. l : s[k] # << >>
      /\ Ending(s, ends)
      /\ \/ l = 1 /\ s[1] = part
         \/ \A k \in 1 .. l : Wild(s[k])
  <2>1. SubSeq(part, 1, n) = part
    BY SubSeqFull
  <2> QED BY <1>7, <2>1, Zenon DEF Cut
<1>9. s \in Seq(Seq(Nat)) /\ l \in Nat /\ l >= 1
  BY <1>8, EmptySeq DEF Pieces
<1> HIDE DEF s, n
<1>10. n = 0 <=> part = << >>
  BY DEF n
<1>11. CASE ~Doubled(part, 1)
  <2>1. e = s
    BY <1>2, <1>11 DEF s
  <2>2. CASE part = << >>
    <3>1. n + 1 = 1
      BY <1>10, <2>2
    <3>2. s = <<<< >>>>
      BY <1>3, <3>1 DEF s
    <3> DEFINE z == << >>
               o == <<z>>
    <3>3. o \in Seq(Seq(Nat)) /\ Len(o) = 1 /\ o[1] = z /\ z = part
      BY <2>2
    <3> HIDE DEF o, z
    <3>4. e = o
      BY <2>1, <3>2 DEF o, z
    <3>5. \A k \in 1 .. Len(e) : e[k] = part
      <4>1. \A k \in 1 .. 1 : k = 1
        OBVIOUS
      <4>2. Len(e) = 1 /\ e[1] = part
        BY <3>3, <3>4
      <4> QED BY <4>1, <4>2, Zenon
    <3>7. Ending(e, ends)
      BY <1>8, <2>1
    <3>8. e \in Seq(Seq(Nat)) /\ Len(e) = 1
      BY <3>3, <3>4
    <3>6. e \in Seq(Seq(Nat)) /\ Len(e) >= 1 /\ Ending(e, ends)
      BY <3>7, <3>8
    <3> QED BY <2>2, <3>4, <3>5, <3>6, Zenon DEF e, o, z
  <2>3. CASE part # << >>
    <3>1. 1 <= n
      BY <1>1, <1>10, <2>3 DEF n
    <3>2. \A k \in 1 .. l : k = 1 \/ k \in 2 .. l
      BY <1>9
    <3>3. \A k \in 1 .. l : s[k] # << >>
      BY <1>8, <3>1, <3>2, Zenon
    <3>4. \A k \in 1 .. l : Wild(s[k]) \/ s[k] = part
      BY <1>8, <1>9
    <3> QED BY <1>8, <1>9, <2>1, <2>3, <3>3, <3>4, Zenon DEF e
  <2> QED BY <2>2, <2>3
<1>12. CASE Doubled(part, 1)
  <2>1. e = Tail(s)
    BY <1>2, <1>12 DEF s
  <2>2. 1 \in 1 .. n /\ part # << >>
    <3>1. 1 < Len(part)
      BY <1>12, Zenon DEF Doubled
    <3> QED BY <1>1, <1>10, <3>1 DEF n
  <2>3. l >= 2
    <3>1. s = Twice(After(part, ends, 1, F[1 + 2]))
      BY <1>3, <1>12, <2>2 DEF s
    <3> DEFINE one == <<<< >>>>
    <3>2. one \in Pieces /\ 1 + 2 = 3
      BY DEF Pieces
    <3> HIDE DEF one
    <3>3. After(part, ends, 1, F[3]) \in Seq(Seq(Nat))
      <4>1. CASE n = 2
        <5>1. ~(1 + 1 < Len(part))
          BY <4>1 DEF n
        <5>2. After(part, ends, 1, F[3]) = After(part, ends, 1, one)
          BY <5>1, Zenon DEF After
        <5>3. After(part, ends, 1, one) \in Seq(Seq(Nat))
          BY <3>2, AfterIs, Zenon
        <5> QED BY <5>2, <5>3
      <4>2. CASE n # 2
        <5>1. 1 < n
          BY <1>12, Zenon DEF Doubled, n
        <5>2. 3 \in 1 .. n + 1
          BY <1>1, <4>2, <5>1
        <5>3. F[3] \in Pieces
          BY <1>3, <5>2
        <5> QED BY <5>3, AfterIs, Zenon
      <4> QED BY <4>1, <4>2
    <3> DEFINE a == After(part, ends, 1, F[3])
    <3>4. s = Twice(a)
      BY <3>1, <3>2
    <3>5. a \in Seq(Seq(Nat))
      BY <3>3
    <3> HIDE DEF a
    <3>6. Len(s) = Len(a) + 2 /\ Len(a) \in Nat
      BY <3>4, <3>5, TwiceIs
    <3> QED BY <3>6 DEF l
  <2>4. s # << >>
    BY <1>9, <2>3 DEF l
  <2>5. /\ e \in Seq(Seq(Nat)) /\ Len(e) = l - 1
        /\ \A k \in 1 .. l - 1 : e[k] = s[k + 1]
    BY <1>9, <2>1, <2>4, HeadTailProperties DEF l
  <2>6. \A k \in 1 .. l : Wild(s[k])
    <3>1. l # 1
      <4>1. l \in Nat /\ l >= 2
        BY <1>9, <2>3, Zenon
      <4> HIDE DEF l
      <4> QED BY <4>1
    <3> QED BY <1>8, <3>1, Zenon
  <2> HIDE DEF l
  <2>7. ASSUME NEW k \in 1 .. Len(e) PROVE e[k] # << >> /\ Wild(e[k])
    <3>1. k + 1 \in 2 .. l /\ k + 1 \in 1 .. l /\ k \in 1 .. l - 1
      BY <1>9, <2>5
    <3>2. s[k + 1] # << >> /\ Wild(s[k + 1])
      BY <1>8, <2>6, <3>1
    <3> QED BY <2>5, <3>1, <3>2
  <2>8. Len(e) >= 1
    BY <1>9, <2>3, <2>5
  <2>9. Ending(e, ends)
    <3>1. SUFFICES ASSUME ends, e[Len(e)] = DoubleStar
                   PROVE  Len(e) >= 2 /\ e[Len(e) - 1] = DoubleStar
      BY Zenon DEF Ending
    <3>2. l - 1 \in 1 .. l - 1 /\ (l - 1) + 1 = l
      BY <1>9, <2>3
    <3>3. s[l] = DoubleStar
      BY <2>5, <3>1, <3>2
    <3>4. s[l - 1] = DoubleStar
      BY <1>8, <3>1, <3>3 DEF Ending, l
    <3>5. l - 1 # 1
      BY <1>8, <3>4
    <3>6. l - 2 \in 1 .. l - 1 /\ (l - 2) + 1 = l - 1 /\ (l - 1) - 1 = l - 2 /\ l - 1 >= 2
      BY <1>9, <2>3, <3>5
    <3>7. e[l - 2] = s[l - 1]
      BY <2>5, <3>6
    <3> QED BY <2>5, <3>4, <3>6, <3>7
  <2>10. \A k \in 1 .. Len(e) : e[k] # << >>
    BY <2>7
  <2>11. \A k \in 1 .. Len(e) : Wild(e[k]) \/ e[k] = part
    BY <2>7
  <2> QED BY <2>2, <2>5, <2>8, <2>9, <2>10, <2>11, Zenon DEF e
<1> QED BY <1>11, <1>12, Zenon DEF e

\* What is made of the parts one after the other.
LEMMA FlattenIs ==
    ASSUME NEW T, NEW ss \in Seq(Seq(T)), ss # << >>
    PROVE  \E G : /\ G[0] = << >>
                  /\ \A i \in 1 .. Len(ss) : G[i] = G[i - 1] \o ss[i]
                  /\ FlattenSeq(ss) = G[Len(ss)]
<1> DEFINE n == Len(ss)
           S == Seq(T)
           step == [i \in 1 .. n |-> [s \in S |-> s \o ss[i]]]
           Is(f) == f = [i \in 1 .. Len(ss) |-> IF i = 1 THEN ss[i] ELSE f[i - 1] \o ss[i]]
           F == CHOOSE f : Is(f)
<1>1. n \in Nat /\ n # 0 /\ 1 \in 1 .. n
  BY EmptySeq
<1>2. FlattenSeq(ss) = F[n]
  BY <1>1, Zenon DEF FlattenSeq
<1>3. \A i \in 1 .. n : ss[i] \in S
  OBVIOUS
<1>4. step \in [1 .. n -> [S -> S]] /\ << >> \in S
  <2>1. ASSUME NEW i \in 1 .. n, NEW s \in S PROVE s \o ss[i] \in S
    BY <1>3, ConcatProperties, Zenon
  <2> HIDE DEF n, S
  <2> QED BY <2>1, EmptySeq DEF S
<1>5. PICK f \in [0 .. n -> S] : Stepped(f, n, << >>, step)
  <2> HIDE DEF step, n, S
  <2> QED BY <1>1, <1>4, Stepwise
<1>6. f[0] = << >> /\ \A k \in 1 .. n : f[k] = f[k - 1] \o ss[k]
  <2>1. f[0] = << >> /\ \A k \in 1 .. n : f[k] = step[k][f[k - 1]]
    BY <1>5, Zenon DEF Stepped
  <2>2. ASSUME NEW k \in 1 .. n PROVE step[k][f[k - 1]] = f[k - 1] \o ss[k]
    <3>1. f[k - 1] \in S
      <4>1. k - 1 \in 0 .. n
        BY <1>1
      <4> HIDE DEF S, n
      <4> QED BY <1>5, <4>1
    <3> HIDE DEF S
    <3> QED BY <3>1
  <2> QED BY <2>1, <2>2
<1> DEFINE g == [i \in 1 .. n |-> f[i]]
<1> HIDE DEF F, n
<1>7. Is(g)
  <2>1. ASSUME NEW i \in 1 .. n
        PROVE  g[i] = IF i = 1 THEN ss[i] ELSE g[i - 1] \o ss[i]
    <3>1. CASE i = 1
      <4>1. f[1] = << >> \o ss[1]
        <5>1. 1 - 1 = 0
          OBVIOUS
        <5> QED BY <1>1, <1>6, <5>1
      <4>2. << >> \o ss[1] = ss[1]
        BY <1>1, <1>3, ConcatEmptySeq
      <4>3. g[i] = f[1]
        BY <3>1
      <4> QED BY <3>1, <4>1, <4>2, <4>3, Zenon
    <3>2. CASE i # 1
      <4>1. i - 1 \in 1 .. n
        BY <1>1, <3>2
      <4>2. g[i] = f[i] /\ g[i - 1] = f[i - 1]
        BY <4>1
      <4> HIDE DEF g
      <4> QED BY <1>6, <3>2, <4>2
    <3> QED BY <3>1, <3>2
  <2>2. g = [i \in 1 .. n |-> g[i]]
    BY Zenon
  <2> HIDE DEF g
  <2> QED BY <2>1, <2>2, Zenon DEF n
<1>8. Is(F)
  <2> HIDE DEF Is, g
  <2> QED BY <1>7, Zenon DEF F
<1>9. \A i \in 1 .. n : F[i] = IF i = 1 THEN ss[i] ELSE F[i - 1] \o ss[i]
  BY <1>8 DEF n
<1> DEFINE G == [i \in 0 .. n |-> IF i = 0 THEN << >> ELSE F[i]]
<1>10. G[0] = << >> /\ \A i \in 1 .. n : G[i] = F[i]
  <2>1. 0 \in 0 .. n /\ \A i \in 1 .. n : i \in 0 .. n /\ i # 0
    BY <1>1
  <2> QED BY <2>1
<1> HIDE DEF G
<1>11. ASSUME NEW i \in 1 .. n PROVE G[i] = G[i - 1] \o ss[i]
  <2>1. CASE i = 1
    <3>1. << >> \o ss[1] = ss[1]
      BY <1>1, <1>3, ConcatEmptySeq
    <3>2. 1 - 1 = 0
      OBVIOUS
    <3> QED BY <1>1, <1>9, <1>10, <2>1, <3>1, <3>2
  <2>2. CASE i # 1
    <3>1. i - 1 \in 1 .. n
      BY <1>1, <2>2
    <3> QED BY <1>9, <1>10, <2>2, <3>1
  <2> QED BY <2>1, <2>2
<1>12. FlattenSeq(ss) = G[n]
  <2>1. n \in 1 .. n
    BY <1>1
  <2> QED BY <1>2, <1>10, <2>1
<1> QED BY <1>10, <1>11, <1>12 DEF n

\* No "**" follows another.
Single(s) == \A i \in 1 .. Len(s) - 1 : ~(s[i] = DoubleStar /\ s[i + 1] = DoubleStar)
EndsAt(p, k) == SubSeq(p, k + 1, Len(p)) \in {<< >>, Slash}
\* What is made of the first k parts of a pattern.
Made(s, p, k) ==
    /\ s \in Seq(Seq(Nat)) /\ (k # 0 => Len(s) # 0)
    /\ \A j \in 1 .. Len(s) : /\ Wild(s[j]) \/ s[j] \in ToSet(p)
                              /\ s[j] = << >> => j = Len(s) /\ k = Len(p)
    /\ Single(s) => /\ \A j \in 1 .. Len(s) - 1 : s[j] = DoubleStar => s[j + 1] # << >>
                    /\ Len(s) # 0 /\ EndsAt(p, k) => s[Len(s)] # DoubleStar

\* Two sequences of which none has a "**" after another.
LEMMA SingleParts ==
    ASSUME NEW s \in Seq(Seq(Nat)), NEW e \in Seq(Seq(Nat)), Single(s \o e)
    PROVE  Single(s) /\ Single(e)
<1> DEFINE r == s \o e
           m == Len(s)
           l == Len(e)
<1>1. /\ r \in Seq(Seq(Nat)) /\ Len(r) = Len(s) + Len(e)
      /\ \A k \in 1 .. Len(s) + Len(e) : r[k] = IF k <= Len(s) THEN s[k] ELSE e[k - Len(s)]
  BY ConcatProperties, Zenon
<1>2. m \in Nat /\ l \in Nat
  OBVIOUS
<1>3. Single(r)
  OBVIOUS
<1> HIDE DEF r, m, l
<1>4. Len(r) = m + l /\ \A k \in 1 .. m + l : r[k] = IF k <= m THEN s[k] ELSE e[k - m]
  BY <1>1 DEF m, l
<1>5. ASSUME NEW i \in 1 .. m - 1 PROVE ~(s[i] = DoubleStar /\ s[i + 1] = DoubleStar)
  <2>1. i \in 1 .. m + l /\ i + 1 \in 1 .. m + l /\ i <= m /\ i + 1 <= m /\ i \in 1 .. (m + l) - 1
    BY <1>2
  <2>2. r[i] = s[i] /\ r[i + 1] = s[i + 1]
    BY <1>4, <2>1
  <2> QED BY <1>3, <1>4, <2>1, <2>2, Zenon DEF Single
<1>6. ASSUME NEW i \in 1 .. l - 1 PROVE ~(e[i] = DoubleStar /\ e[i + 1] = DoubleStar)
  <2> DEFINE j == m + i
  <2>1. /\ j \in 1 .. m + l /\ j + 1 \in 1 .. m + l /\ ~(j <= m) /\ ~(j + 1 <= m)
        /\ j \in 1 .. (m + l) - 1 /\ j - m = i /\ (j + 1) - m = i + 1
    BY <1>2
  <2> HIDE DEF j
  <2>2. r[j] = e[i] /\ r[j + 1] = e[i + 1]
    BY <1>4, <2>1
  <2> QED BY <1>3, <1>4, <2>1, <2>2, Zenon DEF Single
<1> QED BY <1>5, <1>6, Zenon DEF Single, m, l

\* The next part of the pattern.
LEMMA MadeNext ==
    ASSUME NEW p \in Written, NEW k \in 1 .. Len(p), NEW s, Made(s, p, k - 1)
    PROVE  Made(s \o ExpandedPart(p[k], EndsAt(p, k)), p, k)
<1> DEFINE e == ExpandedPart(p[k], EndsAt(p, k))
           r == s \o e
           n == Len(p)
           m == Len(s)
           l == Len(e)
<1>1. p \in Seq(Seq(Nat)) /\ n \in Nat /\ \A i \in 1 .. n - 1 : p[i] # << >>
  BY PatternsAssumption
<1>2. p[k] \in Seq(Nat) /\ k \in 1 .. n /\ k \in Nat /\ p[k] \in ToSet(p)
  BY <1>1, ToSetOfSeq
<1>3. /\ e \in Seq(Seq(Nat)) /\ l >= 1
      /\ IF p[k] = << >> THEN e = <<<< >>>> ELSE \A j \in 1 .. l : e[j] # << >>
      /\ Ending(e, EndsAt(p, k))
      /\ \A j \in 1 .. l : Wild(e[j]) \/ e[j] = p[k]
  BY <1>2, ExpandedPartIs
<1>4. /\ s \in Seq(Seq(Nat))
      /\ \A j \in 1 .. m : Wild(s[j]) \/ s[j] \in ToSet(p)
      /\ \A j \in 1 .. m : s[j] # << >>
  <2>1. k - 1 # n
    BY <1>1, <1>2
  <2> QED BY <2>1, Zenon DEF Made
<1>5. /\ Single(s) => \A j \in 1 .. m - 1 : s[j] = DoubleStar => s[j + 1] # << >>
      /\ Single(s) /\ m # 0 /\ EndsAt(p, k - 1) => s[m] # DoubleStar
  BY Zenon DEF Made
<1> HIDE DEF e
<1>6. m \in Nat /\ l \in Nat
  BY <1>3, <1>4
<1>7. p[k] = << >> => k = n /\ l = 1 /\ EndsAt(p, k - 1)
  <2> SUFFICES ASSUME p[k] = << >> PROVE k = n /\ l = 1 /\ EndsAt(p, k - 1)
    OBVIOUS
  <2>1. k = n
    <3>1. ~(k \in 1 .. n - 1)
      BY <1>1
    <3> QED BY <1>1, <1>2, <3>1
  <2>2. l = 1
    <3>1. Len(<<<< >>>>) = 1
      OBVIOUS
    <3> QED BY <1>3, <3>1
  <2>3. EndsAt(p, k - 1)
    <3> DEFINE u == <<p[n]>>
               v == SubSeq(p, n, n)
    <3>1. (\A i \in n .. n : p[i] \in Seq(Nat)) /\ n \in Int
      BY <1>1, <1>2, <2>1
    <3>2. v \in Seq(Seq(Nat)) /\ Len(v) = 1 /\ v[1] = p[n]
      <4>1. /\ v \in Seq(Seq(Nat)) /\ Len(v) = IF n <= n THEN n - n + 1 ELSE 0
            /\ \A i \in 1 .. n - n + 1 : v[i] = p[n + i - 1]
        BY <3>1, SubSeqProperties
      <4>2. n - n + 1 = 1 /\ n <= n /\ 1 \in 1 .. 1 /\ n + 1 - 1 = n
        BY <1>1
      <4> HIDE DEF v, n
      <4> QED BY <4>1, <4>2
    <3>3. u \in Seq(Seq(Nat)) /\ Len(u) = 1 /\ u[1] = p[n]
      <4> DEFINE x == p[n]
      <4>1. x \in Seq(Nat)
        BY <1>2, <2>1
      <4>2. u = <<x>>
        OBVIOUS
      <4> HIDE DEF x, u
      <4>3. u \in Seq(Seq(Nat)) /\ Len(u) = 1 /\ u[1] = x
        BY <4>1, <4>2
      <4> QED BY <4>3 DEF x
    <3> HIDE DEF u, v
    <3>4. \A i \in 1 .. 1 : i = 1
      OBVIOUS
    <3>5. v = u
      <4>1. \A i \in 1 .. Len(v) : v[i] = u[i]
        BY <3>2, <3>3, <3>4
      <4> QED BY <3>2, <3>3, <4>1, SeqEqual
    <3>6. u = Slash
      BY <2>1 DEF u, Slash
    <3>7. (k - 1) + 1 = n
      BY <1>2, <2>1
    <3> QED BY <3>5, <3>6, <3>7 DEF v, EndsAt
  <2> QED BY <2>1, <2>2, <2>3
<1>8. /\ r \in Seq(Seq(Nat)) /\ Len(r) = m + l
      /\ \A j \in 1 .. m + l : r[j] = IF j <= m THEN s[j] ELSE e[j - m]
  BY <1>3, <1>4, ConcatProperties, Zenon
<1>9. Single(r) => Single(s) /\ Single(e)
  BY <1>3, <1>4, SingleParts
<1> HIDE DEF r, n, m, l
<1>10. \A j \in 1 .. m + l : \/ j \in 1 .. m /\ j <= m
                             \/ j - m \in 1 .. l /\ ~(j <= m)
  BY <1>6
<1>11. ASSUME NEW j \in 1 .. Len(r)
       PROVE  (Wild(r[j]) \/ r[j] \in ToSet(p)) /\ (r[j] = << >> => j = Len(r) /\ k = n)
  <2>1. CASE j \in 1 .. m /\ j <= m
    BY <1>4, <1>8, <2>1
  <2>2. CASE j - m \in 1 .. l /\ ~(j <= m)
    <3>1. r[j] = e[j - m]
      BY <1>8, <2>2
    <3>2. Wild(r[j]) \/ r[j] \in ToSet(p)
      BY <1>2, <1>3, <2>2, <3>1
    <3>3. ASSUME r[j] = << >> PROVE j = Len(r) /\ k = n
      <4>1. p[k] = << >>
        BY <1>3, <2>2, <3>1, <3>3
      <4>2. k = n /\ l = 1
        BY <1>7, <4>1
      <4>3. j = m + l
        BY <1>6, <2>2, <4>2
      <4> QED BY <1>8, <4>2, <4>3
    <3> QED BY <3>2, <3>3
  <2> QED BY <1>8, <1>10, <2>1, <2>2
<1>12. ASSUME Single(r), NEW j \in 1 .. Len(r) - 1, r[j] = DoubleStar
       PROVE  r[j + 1] # << >>
  <2>1. CASE j \in 1 .. m - 1
    <3>1. j \in 1 .. m + l /\ j + 1 \in 1 .. m + l /\ j <= m /\ j + 1 <= m
      BY <1>6, <2>1
    <3>2. r[j] = s[j] /\ r[j + 1] = s[j + 1]
      BY <1>8, <3>1
    <3> QED BY <1>5, <1>9, <1>12, <2>1, <3>2
  <2>2. CASE j = m
    <3>1. /\ m # 0 /\ m \in 1 .. m + l /\ m <= m /\ m + 1 \in 1 .. m + l /\ ~(m + 1 <= m)
          /\ (m + 1) - m = 1 /\ 1 \in 1 .. l
      BY <1>3, <1>6, <1>8, <2>2 DEF l
    <3>2. r[m] = s[m] /\ r[m + 1] = e[1]
      BY <1>8, <3>1
    <3>3. ~EndsAt(p, k - 1)
      BY <1>5, <1>9, <1>12, <2>2, <3>1, <3>2
    <3> QED BY <1>3, <1>7, <2>2, <3>1, <3>2, <3>3 DEF l
  <2>3. CASE j > m
    <3>1. /\ j \in 1 .. m + l /\ j + 1 \in 1 .. m + l /\ ~(j + 1 <= m)
          /\ (j + 1) - m \in 1 .. l /\ l # 1
      BY <1>6, <1>8, <2>3
    <3>2. r[j + 1] = e[(j + 1) - m]
      BY <1>8, <3>1
    <3> QED BY <1>3, <1>7, <3>1, <3>2 DEF l
  <2>4. j \in 1 .. m - 1 \/ j = m \/ j > m
    BY <1>6, <1>8
  <2> QED BY <2>1, <2>2, <2>3, <2>4
<1>13. ASSUME Single(r), EndsAt(p, k) PROVE r[Len(r)] # DoubleStar
  <2>1. m + l \in 1 .. m + l /\ ~(m + l <= m) /\ (m + l) - m = l
    BY <1>3, <1>6 DEF l
  <2>2. r[Len(r)] = e[l]
    BY <1>8, <2>1
  <2>3. ASSUME e[l] = DoubleStar PROVE FALSE
    <3>1. l >= 2 /\ e[l - 1] = DoubleStar
      BY <1>3, <1>13, <2>3, Zenon DEF Ending, l
    <3>2. l - 1 \in 1 .. l - 1 /\ (l - 1) + 1 = l
      BY <1>6, <3>1
    <3>3. ~(e[l - 1] = DoubleStar /\ e[(l - 1) + 1] = DoubleStar)
      BY <1>9, <1>13, <3>2 DEF Single, l
    <3> QED BY <2>3, <3>1, <3>2, <3>3
  <2> QED BY <2>2, <2>3
<1>14. Len(r) # 0
  BY <1>3, <1>6, <1>8 DEF l
<1>15. Made(r, p, k)
  BY <1>8, <1>11, <1>12, <1>13, <1>14 DEF Made, n
<1> QED BY <1>15 DEF r, e

\* The whole pattern: it is one the walk can be followed through.
LEMMA ExpandedIs ==
    ASSUME NEW p \in Written
    PROVE  /\ Expanded(p) \in Seq(Seq(Nat)) /\ Expanded(p) # << >>
           /\ Single(Expanded(p)) => IsGlob(Expanded(p))
<1> DEFINE n == Len(p)
           ss == [i \in DOMAIN p |-> ExpandedPart(p[i], SubSeq(p, i + 1, Len(p)) \in {<< >>, Slash})]
           s == Expanded(p)
<1>1. p \in Seq(Seq(Nat)) /\ n \in Nat /\ n # 0 /\ DOMAIN p = 1 .. n
  BY PatternsAssumption, EmptySeq
<1>2. ASSUME NEW i \in 1 .. n
      PROVE  ss[i] = ExpandedPart(p[i], EndsAt(p, i)) /\ ss[i] \in Seq(Seq(Nat))
  <2>1. p[i] \in Seq(Nat)
    BY <1>1
  <2>2. ss[i] = ExpandedPart(p[i], EndsAt(p, i))
    BY <1>1 DEF EndsAt
  <2>3. ExpandedPart(p[i], EndsAt(p, i)) \in Seq(Seq(Nat))
    BY <2>1, ExpandedPartIs
  <2> QED BY <2>2, <2>3
<1>3. DOMAIN ss = 1 .. n
  BY <1>1
<1>4. s = FlattenSeq(ss)
  BY Zenon DEF Expanded
<1> HIDE DEF ss, s, n
<1>5. ss \in Seq(Seq(Seq(Nat))) /\ Len(ss) = n /\ ss # << >>
  <2> DEFINE D == Seq(Seq(Nat))
  <2>1. ss \in [1 .. n -> D]
    <3>1. ss = [i \in 1 .. n |-> ss[i]]
      BY <1>1, <1>3 DEF ss
    <3>2. \A i \in 1 .. n : ss[i] \in D
      BY <1>2
    <3> HIDE DEF D
    <3> QED BY <3>1, <3>2
  <2> HIDE DEF D
  <2>2. ss \in Seq(D)
    BY <1>1, <2>1
  <2>3. Len(ss) = n
    BY <1>1, <1>3, <2>2
  <2> QED BY <1>1, <2>2, <2>3 DEF D
<1>6. PICK G : /\ G[0] = << >>
               /\ \A i \in 1 .. n : G[i] = G[i - 1] \o ss[i]
               /\ s = G[n]
  BY <1>4, <1>5, FlattenIs
<1> DEFINE A == {k \in 0 .. n : Made(G[k], p, k)}
<1>7. 0 \in A
  <2> DEFINE z == << >>
  <2>1. z \in Seq(Seq(Nat)) /\ Len(z) = 0
    OBVIOUS
  <2> HIDE DEF z
  <2>2. (\A j \in 1 .. 0 : FALSE) /\ (\A j \in 1 .. 0 - 1 : FALSE) /\ 0 \in 0 .. n
    BY <1>1
  <2>3. Made(z, p, 0)
    BY <2>1, <2>2 DEF Made
  <2> QED BY <1>6, <2>2, <2>3 DEF z
<1>8. ASSUME NEW k \in 0 .. n, k \in A, k # n PROVE k + 1 \in A
  <2> DEFINE j == k + 1
  <2>1. j \in 1 .. n /\ j - 1 = k /\ j \in 0 .. n
    BY <1>1, <1>8
  <2> HIDE DEF j
  <2>2. Made(G[j - 1], p, j - 1)
    BY <1>8, <2>1
  <2>3. Made(G[j - 1] \o ExpandedPart(p[j], EndsAt(p, j)), p, j)
    BY <2>1, <2>2, MadeNext, Zenon DEF n
  <2>4. G[j] = G[j - 1] \o ExpandedPart(p[j], EndsAt(p, j))
    BY <1>2, <1>6, <2>1, Zenon
  <2> QED BY <2>1, <2>3, <2>4 DEF j
<1>9. Made(s, p, n)
  <2>1. 0 .. n \subseteq A
    <3> HIDE DEF A
    <3> QED BY <1>1, <1>7, <1>8, Upward
  <2>2. n \in 0 .. n
    BY <1>1
  <2>3. n \in A
    <3> HIDE DEF A
    <3> QED BY <2>1, <2>2
  <2> QED BY <1>6, <2>3
<1> DEFINE l == Len(s)
<1>10. /\ s \in Seq(Seq(Nat)) /\ l # 0 /\ s # << >> /\ l \in Nat
       /\ \A j \in 1 .. l : /\ Wild(s[j]) \/ s[j] \in ToSet(p)
                            /\ s[j] = << >> => j = l
       /\ Single(s) => /\ \A j \in 1 .. l - 1 : s[j] = DoubleStar => s[j + 1] # << >>
                       /\ EndsAt(p, n) => s[l] # DoubleStar
  <2>1. s \in Seq(Seq(Nat)) /\ l # 0
    BY <1>1, <1>9 DEF Made
  <2>2. s # << >> /\ l \in Nat
    BY <2>1, EmptySeq
  <2> QED BY <1>9, <2>1, <2>2 DEF Made
<1>11. EndsAt(p, n)
  <2>1. SubSeq(p, n + 1, n) = << >>
    BY <1>1, SubSeqEmpty
  <2> QED BY <2>1 DEF EndsAt, n
<1> HIDE DEF l
<1>12. ASSUME NEW x \in ToSet(p) PROVE x \in Spelled
  BY Zenon DEF Spelled, NamesIn
<1>13. ASSUME Single(s) PROVE IsGlob(s)
  <2>1. ASSUME NEW i \in 1 .. l - 1
        PROVE  s[i] # << >> /\ (s[i] = DoubleStar => s[i + 1] # << >> /\ s[i + 1] # DoubleStar)
    <3>1. i \in 1 .. l /\ i # l
      BY <1>10
    <3>2. ~(s[i] = DoubleStar /\ s[i + 1] = DoubleStar)
      BY <1>13 DEF Single, l
    <3>3. s[i] # << >>
      BY <1>10, <3>1, Zenon
    <3>4. s[i] = DoubleStar => s[i + 1] # << >>
      BY <1>10, <1>13, Zenon
    <3> QED BY <3>2, <3>3, <3>4, Zenon
  <2>2. \A i \in 1 .. l : ~Wild(s[i]) /\ s[i] # << >> => s[i] \in Spelled
    BY <1>10, <1>12, Zenon
  <2>3. s[l] # DoubleStar /\ l \in Nat \ {0}
    BY <1>10, <1>11, <1>13
  <2> QED BY <1>10, <2>1, <2>2, <2>3, Zenon DEF IsGlob, l
<1> QED BY <1>10, <1>13 DEF s

\* The walk over a pattern: what was found, and what the calls to come stand for, make
\* up what the pattern stands for.
Walked(pat, calls, files) ==
    /\ calls \in Seq(Seq(Seq(Nat)))
    /\ \A p \in ToSet(calls) : IsGlob(p) /\ Last(p) = Last(pat)
    /\ (files \cap There) \cup UNION {Sem(p) : p \in ToSet(calls)} = Sem(pat)
    /\ Wild(Last(pat)) => files \subseteq There

GlobInv ==
    /\ pattern \in Written \cup {<< >>}
    /\ pattern = << >> => todo = << >> /\ found = {}
    /\ pattern # << >> /\ Single(Expanded(pattern)) => Walked(Expanded(pattern), todo, found)

\* The first call.
LEMMA WalkedFirst ==
    ASSUME NEW pat, IsGlob(pat)
    PROVE  Walked(pat, <<pat>>, {})
<1> DEFINE u == <<pat>>
<1>1. pat \in Seq(Seq(Nat))
  BY DEF IsGlob
<1>2. u \in Seq(Seq(Seq(Nat))) /\ ToSet(u) = {pat}
  <2>1. u \in Seq(Seq(Seq(Nat))) /\ Len(u) = 1 /\ u[1] = pat
    <3> DEFINE S == Seq(Seq(Nat))
    <3>1. pat \in S
      BY <1>1
    <3> HIDE DEF S
    <3>2. u \in Seq(S) /\ Len(u) = 1 /\ u[1] = pat
      BY <3>1
    <3> QED BY <3>2 DEF S
  <2> HIDE DEF u
  <2>2. \A i \in 1 .. 1 : i = 1
    OBVIOUS
  <2>3. 1 \in 1 .. Len(u)
    BY <2>1
  <2> QED BY <2>1, <2>2, <2>3, ToSetOfSeq
<1> HIDE DEF u
<1>3. UNION {Sem(p) : p \in ToSet(u)} = Sem(pat)
  BY <1>2
<1>4. ({} \cap There) \cup UNION {Sem(p) : p \in ToSet(u)} = Sem(pat)
  BY <1>3
<1> QED BY <1>2, <1>4 DEF Walked, u

\* A call, and the ones it makes.
LEMMA WalkedOn ==
    ASSUME NEW pat, NEW calls, NEW files, Walked(pat, calls, files), calls # << >>
    PROVE  LET p == Head(calls) IN
           IF \E i \in DOMAIN p : Wild(p[i])
           THEN Walked(pat, Globbed(p).calls \o Tail(calls), files \cup Globbed(p).finds)
           ELSE Walked(pat, Tail(calls), files \cup {p})
<1> DEFINE C == Seq(Seq(Nat))
           p == Head(calls)
           t == Tail(calls)
           S(x) == Sem(x)
<1>1. /\ calls \in Seq(C)
      /\ \A c \in ToSet(calls) : IsGlob(c) /\ Last(c) = Last(pat)
      /\ (files \cap There) \cup UNION {S(c) : c \in ToSet(calls)} = S(pat)
      /\ Wild(Last(pat)) => files \subseteq There
  BY DEF Walked
<1>2. p \in C /\ t \in Seq(C) /\ ToSet(calls) = {p} \cup ToSet(t)
  <2> HIDE DEF C
  <2>1. p \in C /\ t \in Seq(C) /\ p = calls[1] /\ Len(calls) \in Nat \ {0}
    BY <1>1
  <2>2. Len(t) = Len(calls) - 1 /\ \A i \in 1 .. Len(calls) - 1 : t[i] = calls[i + 1]
    BY <1>1, HeadTailProperties
  <2> HIDE DEF p, t
  <2>3. ASSUME NEW x \in ToSet(calls) PROVE x \in {p} \cup ToSet(t)
    <3>1. PICK i \in 1 .. Len(calls) : x = calls[i]
      BY <1>1, ToSetOfSeq
    <3>2. CASE i = 1
      BY <2>1, <3>1, <3>2
    <3>3. CASE i # 1
      <4>1. i - 1 \in 1 .. Len(t) /\ (i - 1) + 1 = i
        BY <2>1, <2>2, <3>3
      <4>2. t[i - 1] = x
        BY <2>2, <3>1, <4>1
      <4> QED BY <2>1, <4>1, <4>2, ToSetOfSeq
    <3> QED BY <3>2, <3>3
  <2>4. p \in ToSet(calls)
    <3>1. 1 \in 1 .. Len(calls)
      BY <2>1
    <3> QED BY <1>1, <2>1, <3>1, ToSetOfSeq
  <2>5. ASSUME NEW x \in ToSet(t) PROVE x \in ToSet(calls)
    <3>1. PICK i \in 1 .. Len(t) : x = t[i]
      BY <2>1, ToSetOfSeq
    <3>2. i + 1 \in 1 .. Len(calls) /\ x = calls[i + 1]
      BY <2>1, <2>2, <3>1
    <3> QED BY <1>1, <3>2, ToSetOfSeq
  <2> QED BY <2>1, <2>3, <2>4, <2>5
<1> HIDE DEF S, p, t
<1>3. IsGlob(p) /\ Last(p) = Last(pat) /\ \A c \in ToSet(t) : IsGlob(c) /\ Last(c) = Last(pat)
  BY <1>1, <1>2
<1>4. UNION {S(c) : c \in ToSet(calls)} = S(p) \cup UNION {S(c) : c \in ToSet(t)}
  BY <1>2
<1>5. CASE \E i \in DOMAIN p : Wild(p[i])
  <2> DEFINE g == Globbed(p)
             a == g.calls
             f == g.finds
             r == a \o t
  <2>1. /\ a \in Seq(C) /\ \A c \in ToSet(a) : IsGlob(c) /\ Last(c) = Last(p)
        /\ S(p) = f \cup UNION {S(c) : c \in ToSet(a)}
        /\ f \subseteq There
    BY <1>3, <1>5, GlobbedStep DEF S
  <2>2. r \in Seq(C) /\ ToSet(r) = ToSet(a) \cup ToSet(t)
    <3> HIDE DEF a, C
    <3>1. r \in Seq(C)
      BY <1>2, <2>1, ConcatProperties, Zenon
    <3> QED BY <1>2, <2>1, <3>1, ToSetOfConcat
  <2> HIDE DEF r, a, f, g
  <2>3. \A c \in ToSet(r) : IsGlob(c) /\ Last(c) = Last(pat)
    BY <1>3, <2>1, <2>2
  <2>4. UNION {S(c) : c \in ToSet(r)} = (UNION {S(c) : c \in ToSet(a)}) \cup (UNION {S(c) : c \in ToSet(t)})
    BY <2>2
  <2>5. ((files \cup f) \cap There) \cup UNION {S(c) : c \in ToSet(r)} = S(pat)
    <3> DEFINE UA == UNION {S(c) : c \in ToSet(a)}
               UT == UNION {S(c) : c \in ToSet(t)}
               UC == UNION {S(c) : c \in ToSet(calls)}
               UR == UNION {S(c) : c \in ToSet(r)}
    <3>4. UC = S(p) \cup UT
      BY <1>4, Zenon
    <3>5. S(p) = f \cup UA
      BY <2>1, Zenon
    <3>6. UR = UA \cup UT
      BY <2>4, Zenon
    <3>1. UC = (f \cup UA) \cup UT /\ UR = UA \cup UT
      BY <3>4, <3>5, <3>6, Zenon
    <3>2. (files \cap There) \cup UC = S(pat) /\ f \subseteq There
      BY <1>1, <2>1
    <3> HIDE DEF UA, UT, UC, UR
    <3>3. ((files \cup f) \cap There) \cup UR = S(pat)
      BY <3>1, <3>2
    <3> QED BY <3>3 DEF UR
  <2>6. Wild(Last(pat)) => files \cup f \subseteq There
    BY <1>1, <2>1
  <2>7. Walked(pat, r, files \cup f)
    BY <2>2, <2>3, <2>5, <2>6, Zenon DEF Walked, S, C
  <2> QED BY <1>5, <2>7 DEF r, a, f, g, p, t
<1>6. CASE ~\E i \in DOMAIN p : Wild(p[i])
  <2>1. S(p) = {p} \cap There
    BY <1>3, <1>6, PlainIs DEF S
  <2>2. ((files \cup {p}) \cap There) \cup UNION {S(c) : c \in ToSet(t)} = S(pat)
    <3> DEFINE UT == UNION {S(c) : c \in ToSet(t)}
               UC == UNION {S(c) : c \in ToSet(calls)}
    <3>1. UC = ({p} \cap There) \cup UT
      BY <1>4, <2>1
    <3>2. (files \cap There) \cup UC = S(pat)
      BY <1>1
    <3> HIDE DEF UT, UC
    <3>3. ((files \cup {p}) \cap There) \cup UT = S(pat)
      BY <3>1, <3>2
    <3> QED BY <3>3 DEF UT
  <2>3. ~Wild(Last(pat))
    <3>1. Len(p) \in DOMAIN p /\ Last(p) = p[Len(p)]
      BY <1>3 DEF IsGlob, Last
    <3> QED BY <1>3, <1>6, <3>1
  <2>4. Walked(pat, t, files \cup {p})
    BY <1>2, <1>3, <2>2, <2>3, Zenon DEF Walked, S, C
  <2> QED BY <1>6, <2>4 DEF p, t
<1> QED BY <1>5, <1>6 DEF p, t

\* No pattern at first.
LEMMA GlobInvInit == GlobInit => GlobInv
BY DEF GlobInit, GlobInv

\* Every step keeps the invariant.
LEMMA GlobInvNext == GlobInv /\ [GlobNext]_globVars => GlobInv'
<1> SUFFICES ASSUME GlobInv, [GlobNext]_globVars PROVE GlobInv'
  OBVIOUS
<1>1. ASSUME NEW p \in Written, MatchPattern(p) PROVE GlobInv'
  <2>1. pattern = << >> /\ found = {} /\ pattern' = p /\ todo' = <<Expanded(p)>> /\ found' = {}
    BY <1>1 DEF GlobInv, MatchPattern
  <2>2. p # << >>
    BY PatternsAssumption
  <2>3. Single(Expanded(p)) => Walked(Expanded(p), <<Expanded(p)>>, {})
    BY ExpandedIs, WalkedFirst
  <2>4. pattern' # << >> /\ pattern' \in Written \cup {<< >>}
    BY <2>1, <2>2
  <2>5. Single(Expanded(pattern')) => Walked(Expanded(pattern'), todo', found')
    BY <2>1, <2>3, Zenon
  <2> QED BY <2>4, <2>5, Zenon DEF GlobInv
<1>2. CASE GlobHelper
  <2>1. pattern # << >> /\ pattern' = pattern /\ pattern \in Written \cup {<< >>}
    BY <1>2 DEF GlobInv, GlobHelper
  <2>2. ASSUME Single(Expanded(pattern)) PROVE Walked(Expanded(pattern), todo', found')
    <3>1. Walked(Expanded(pattern), todo, found) /\ todo # << >>
      BY <1>2, <2>1, <2>2, Zenon DEF GlobInv, GlobHelper
    <3> DEFINE p == Head(todo)
    <3>2. CASE \E i \in DOMAIN p : Wild(p[i])
      <4>1. todo' = Globbed(p).calls \o Tail(todo) /\ found' = found \cup Globbed(p).finds
        BY <1>2, <3>2, Zenon DEF GlobHelper
      <4>2. Walked(Expanded(pattern), Globbed(p).calls \o Tail(todo), found \cup Globbed(p).finds)
        BY <3>1, <3>2, WalkedOn
      <4> QED BY <4>1, <4>2, Zenon
    <3>3. CASE ~\E i \in DOMAIN p : Wild(p[i])
      <4>1. todo' = Tail(todo) /\ found' = found \cup {p}
        BY <1>2, <3>3, Zenon DEF GlobHelper
      <4>2. Walked(Expanded(pattern), Tail(todo), found \cup {p})
        BY <3>1, <3>3, WalkedOn
      <4> QED BY <4>1, <4>2, Zenon
    <3> QED BY <3>2, <3>3
  <2>3. Single(Expanded(pattern')) => Walked(Expanded(pattern'), todo', found')
    BY <2>1, <2>2, Zenon
  <2> QED BY <2>1, <2>3, Zenon DEF GlobInv
<1>3. CASE GlobEnd
  <2>1. pattern' = << >> /\ todo' = << >> /\ found' = {}
    BY <1>3 DEF GlobEnd
  <2> QED BY <2>1 DEF GlobInv
<1>4. CASE UNCHANGED globVars
  BY <1>4, Zenon DEF GlobInv, globVars
<1> QED BY <1>1, <1>2, <1>3, <1>4 DEF GlobNext

\* When no call is left, what was found is what the pattern stands for.
LEMMA GlobInvFinds == GlobInv => GlobFindsAll
<1> DEFINE parts == Expanded(pattern)
<1> SUFFICES ASSUME GlobInv, pattern # << >>, todo = << >>, Single(parts)
             PROVE  /\ found \cap There = {path \in There : StandsForPath(parts, path)}
                    /\ Wild(Last(parts)) => found \subseteq There
  BY Zenon DEF GlobFindsAll, Single
<1>1. pattern \in Written
  BY DEF GlobInv
<1>2. parts \in Seq(Seq(Nat))
  BY <1>1, ExpandedIs
<1>3. Walked(parts, << >>, found)
  BY Zenon DEF GlobInv
<1> HIDE DEF parts
<1>4. ToSet(<< >>) = {}
  BY DEF ToSet
<1>5. found \cap There = Sem(parts)
  <2> DEFINE U == UNION {Sem(p) : p \in ToSet(<< >>)}
  <2>1. (found \cap There) \cup U = Sem(parts)
    BY <1>3, Zenon DEF Walked
  <2>2. U = {}
    BY <1>4
  <2> HIDE DEF U
  <2> QED BY <2>1, <2>2
<1>6. \A path \in There : StandsForPath(parts, path) <=> IsRead(parts, path)
  <2>1. \A path \in There : path \in Seq(Seq(Nat))
    BY PathIs
  <2> QED BY <1>2, <2>1, PathIsRead
<1>7. Sem(parts) = {path \in There : StandsForPath(parts, path)}
  BY <1>6, Zenon DEF Sem
<1> QED BY <1>3, <1>5, <1>7, Zenon DEF Walked

\* Every pattern finds all that it stands for.
THEOREM GlobbingFindsAll == GlobSpec => []GlobFindsAll
<1>1. GlobInit => GlobInv
  BY GlobInvInit
<1>2. GlobInv /\ [GlobNext]_globVars => GlobInv'
  BY GlobInvNext
<1>3. GlobInv => GlobFindsAll
  BY GlobInvFinds
<1> QED BY <1>1, <1>2, <1>3, PTL DEF GlobSpec
=============================================================================
