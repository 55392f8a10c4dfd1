----------------------------- MODULE DataFacts -----------------------------
(***************************************************************************)
(* What the proofs of the other modules share: what the operators on       *)
(* sequences that the code's lists become do to a sequence, element by     *)
(* element; counting; induction over the natural numbers; what the         *)
(* recursive functions of SExps, TreeHashes and ReadCacheLookup compute.   *)
(* s \in Seq(Range(s)) says that s is a sequence, whatever is in it.       *)
(***************************************************************************)
EXTENDS ReadCacheLookup, SequenceTheorems, FiniteSetTheorems, WellFoundedInduction, TLAPS

\* A sequence is a sequence of its own elements.
LEMMA SeqOfItsRange ==
    ASSUME NEW S, NEW s \in Seq(S)
    PROVE  s \in Seq(Range(s))
  <1>1. s \in [1..Len(s) -> S] /\ Len(s) \in Nat
    OBVIOUS
  <1>2. s \in [1..Len(s) -> Range(s)]
    BY <1>1 DEF Range
  <1> QED  BY <1>1, <1>2

\* What Append and the removal of the last element do, elementwise.
LEMMA AppendFacts ==
    ASSUME NEW s, s \in Seq(Range(s)), NEW x
    PROVE  /\ Append(s, x) \in Seq(Range(Append(s, x)))
           /\ Len(Append(s, x)) = Len(s) + 1
           /\ \A i \in 1..Len(s) : Append(s, x)[i] = s[i]
           /\ Append(s, x)[Len(s) + 1] = x
           /\ Len(s) \in Nat
  <1>1. s \in Seq(Range(s) \cup {x})
    <2>1. s \in [1..Len(s) -> Range(s)] /\ Len(s) \in Nat
      OBVIOUS
    <2>2. s \in [1..Len(s) -> Range(s) \cup {x}]
      BY <2>1
    <2> QED  BY <2>1, <2>2
  <1>2. Append(s, x) \in Seq(Range(s) \cup {x})
    BY <1>1
  <1>3. Append(s, x) \in Seq(Range(Append(s, x)))
    BY <1>2, SeqOfItsRange
  <1> QED  BY <1>1, <1>3

LEMMA FrontFacts ==
    ASSUME NEW s, s \in Seq(Range(s)), Len(s) > 0
    PROVE  /\ SubSeq(s, 1, Len(s) - 1) \in Seq(Range(SubSeq(s, 1, Len(s) - 1)))
           /\ Len(SubSeq(s, 1, Len(s) - 1)) = Len(s) - 1
           /\ \A i \in 1..(Len(s) - 1) : SubSeq(s, 1, Len(s) - 1)[i] = s[i]
           /\ Len(s) \in Nat \ {0}
  <1> DEFINE f == SubSeq(s, 1, Len(s) - 1)
  <1>1. Len(s) \in Nat \ {0}
    OBVIOUS
  <1>2. \A i \in 1..(Len(s) - 1) : s[i] \in Range(s)
    BY <1>1
  <1>3. /\ f \in Seq(Range(s))
        /\ Len(f) = IF 1 <= Len(s) - 1 THEN Len(s) - 1 - 1 + 1 ELSE 0
        /\ \A i \in 1..(Len(s) - 1 - 1 + 1) : f[i] = s[1 + i - 1]
    <2> DEFINE n == Len(s) - 1
    <2>1. n \in Int /\ 1 \in Int /\ \A i \in 1..n : s[i] \in Range(s)
      BY <1>1, <1>2
    <2> HIDE DEF n
    <2>2. /\ SubSeq(s, 1, n) \in Seq(Range(s))
          /\ Len(SubSeq(s, 1, n)) = IF 1 <= n THEN n - 1 + 1 ELSE 0
          /\ \A i \in 1..(n - 1 + 1) : SubSeq(s, 1, n)[i] = s[1 + i - 1]
      BY <2>1, SubSeqProperties
    <2> QED  BY <2>2 DEF n
  <1>4. Len(f) = Len(s) - 1 /\ \A i \in 1..(Len(s) - 1) : f[i] = s[i]
    <2> DEFINE n == Len(s)
    <2>1. n \in Nat \ {0} /\ Len(f) = IF 1 <= n - 1 THEN n - 1 - 1 + 1 ELSE 0
      BY <1>1, <1>3
    <2>2. ASSUME NEW i \in 1..(n - 1) PROVE f[i] = s[i]
      <3>1. i \in 1..(n - 1 - 1 + 1) /\ 1 + i - 1 = i
        BY <2>1
      <3> QED  BY <1>3, <3>1
    <2> HIDE DEF f, n
    <2>3. Len(f) = n - 1
      BY <2>1
    <2> QED  BY <2>2, <2>3 DEF n
  <1>5. f \in Seq(Range(f))
    BY <1>3, SeqOfItsRange
  <1> QED  BY <1>1, <1>4, <1>5

\* The first n elements of a sequence.
LEMMA PrefixFacts ==
    ASSUME NEW s, s \in Seq(Range(s)), NEW n \in 0..Len(s)
    PROVE  /\ SubSeq(s, 1, n) \in Seq(Range(SubSeq(s, 1, n)))
           /\ Len(SubSeq(s, 1, n)) = n
           /\ \A i \in 1..n : SubSeq(s, 1, n)[i] = s[i]
  <1>1. Len(s) \in Nat /\ n \in Int /\ 1 \in Int
    OBVIOUS
  <1>2. \A i \in 1..n : s[i] \in Range(s)
    BY <1>1
  <1>3. /\ SubSeq(s, 1, n) \in Seq(Range(s))
        /\ Len(SubSeq(s, 1, n)) = IF 1 <= n THEN n - 1 + 1 ELSE 0
        /\ \A i \in 1..(n - 1 + 1) : SubSeq(s, 1, n)[i] = s[1 + i - 1]
    BY <1>1, <1>2, SubSeqProperties
  <1>4. SubSeq(s, 1, n) \in Seq(Range(SubSeq(s, 1, n)))
    BY <1>3, SeqOfItsRange
  <1>5. n = n - 1 + 1 /\ \A i \in 1..n : 1 + i - 1 = i
    BY <1>1
  <1> QED  BY <1>1, <1>3, <1>4, <1>5

\* Elements pushed at once, up to four.
LEMMA Append4 ==
    ASSUME NEW s, s \in Seq(Range(s)), NEW a, NEW b, NEW c, NEW d
    PROVE  s \o <<a, b, c, d>> = Append(Append(Append(Append(s, a), b), c), d)
  <1>1. s \in Seq(Range(s) \cup {a, b, c, d})
    OBVIOUS
  <1> QED  BY <1>1

LEMMA Append3 ==
    ASSUME NEW s, s \in Seq(Range(s)), NEW a, NEW b, NEW c
    PROVE  s \o <<a, b, c>> = Append(Append(Append(s, a), b), c)
  <1>1. s \in Seq(Range(s) \cup {a, b, c})
    OBVIOUS
  <1> QED  BY <1>1

LEMMA Append2 ==
    ASSUME NEW s, s \in Seq(Range(s)), NEW a, NEW b
    PROVE  s \o <<a, b>> = Append(Append(s, a), b)
  <1>1. s \in Seq(Range(s) \cup {a, b})
    OBVIOUS
  <1> QED  BY <1>1

LEMMA Append1 ==
    ASSUME NEW s, s \in Seq(Range(s)), NEW a
    PROVE  s \o <<a>> = Append(s, a) /\ s \o <<>> = s
  <1>1. s \in Seq(Range(s) \cup {a})
    OBVIOUS
  <1> QED  BY <1>1

-----------------------------------------------------------------------------
(***************************************************************************)
(* Counting                                                                *)
(***************************************************************************)
\* How many numbers of I are at most i.
HowMany(I, i) == Cardinality({ j \in 1..i : j \in I })

LEMMA HowManyType ==
    ASSUME NEW I, NEW i \in Nat
    PROVE  IsFiniteSet({ j \in 1..i : j \in I }) /\ HowMany(I, i) \in Nat
  <1>1. IsFiniteSet(1..i)
    BY FS_Interval
  <1>2. { j \in 1..i : j \in I } \subseteq 1..i
    OBVIOUS
  <1>3. IsFiniteSet({ j \in 1..i : j \in I })
    BY <1>1, <1>2, FS_Subset
  <1> QED  BY <1>3, FS_CardinalityType DEF HowMany

LEMMA HowManyStep ==
    ASSUME NEW I, NEW i \in Nat
    PROVE  HowMany(I, i + 1) = HowMany(I, i) + (IF i + 1 \in I THEN 1 ELSE 0)
  <1> DEFINE C(n) == { j \in 1..n : j \in I }
  <1>1. IsFiniteSet(C(i)) /\ HowMany(I, i) \in Nat
    BY HowManyType
  <1>2. CASE i + 1 \in I
    <2>1. C(i + 1) = C(i) \cup {i + 1}
      BY <1>2
    <2>2. i + 1 \notin C(i)
      OBVIOUS
    <2> HIDE DEF C
    <2>3. Cardinality(C(i + 1)) = Cardinality(C(i)) + 1
      BY <1>1, <2>1, <2>2, FS_AddElement
    <2> QED  BY <1>2, <2>3 DEF HowMany, C
  <1>3. CASE i + 1 \notin I
    <2>1. C(i + 1) = C(i)
      BY <1>3
    <2>2. HowMany(I, i + 1) = HowMany(I, i)
      BY <2>1 DEF HowMany
    <2> QED  BY <1>1, <1>3, <2>2
  <1> QED  BY <1>2, <1>3

LEMMA HowManyGrows ==
    ASSUME NEW I, NEW m \in Nat, NEW i \in 0..m
    PROVE  HowMany(I, i) <= HowMany(I, m)
  <1>1. { j \in 1..i : j \in I } \subseteq { j \in 1..m : j \in I }
    OBVIOUS
  <1>2. IsFiniteSet({ j \in 1..m : j \in I })
    BY HowManyType
  <1> QED  BY <1>1, <1>2, FS_Subset DEF HowMany

LEMMA HowManyNone ==
    ASSUME NEW I
    PROVE  HowMany(I, 0) = 0
  <1>1. { j \in 1..0 : j \in I } = {}
    OBVIOUS
  <1> QED  BY <1>1, FS_EmptySet DEF HowMany

-----------------------------------------------------------------------------
(***************************************************************************)
(* Induction, on sets in place of predicates                               *)
(***************************************************************************)
LEMMA LeastOf ==
    ASSUME NEW S, S \subseteq Nat, S # {}
    PROVE  \E n \in S : \A m \in S : n <= m
  <1>1. IsWellFoundedOn(OpToRel(<, Nat), Nat)
    BY NatLessThanWellFounded
  <1> DEFINE R == OpToRel(<, Nat)
  <1>2. \A x, y \in Nat : <<x, y>> \in R <=> x < y
    BY DEF OpToRel
  <1> HIDE DEF R
  <1>3. \E x \in S : \A y \in S : ~ (<<y, x>> \in R)
    BY <1>1, WFMin DEF R
  <1>4. \A n, m \in S : ~(m < n) => n <= m
    OBVIOUS
  <1> QED  BY <1>2, <1>3, <1>4

\* If every number is in S as soon as the smaller ones are, all are.
LEMMA StrongInduction ==
    ASSUME NEW S, \A n \in Nat : (\A m \in 0..(n - 1) : m \in S) => n \in S
    PROVE  \A n \in Nat : n \in S
  <1> DEFINE T == Nat \ S
  <1> SUFFICES ASSUME T # {} PROVE FALSE
    OBVIOUS
  <1>1. PICK n \in T : \A m \in T : n <= m
    BY LeastOf
  <1>2. \A m \in 0..(n - 1) : m \in S
    BY <1>1
  <1> QED  BY <1>1, <1>2

LEMMA SetInduction ==
    ASSUME NEW S, 0 \in S, \A n \in Nat : n \in S => n + 1 \in S
    PROVE  \A n \in Nat : n \in S
  <1>1. ASSUME NEW n \in Nat, \A m \in 0..(n - 1) : m \in S
        PROVE  n \in S
    <2>1. CASE n = 0
      BY <2>1
    <2>2. CASE n # 0
      <3>1. n - 1 \in Nat /\ n - 1 \in 0..(n - 1)
        BY <2>2
      <3>2. n - 1 \in S
        BY <1>1, <3>1
      <3> QED  BY <3>1, <3>2
    <2> QED  BY <2>1, <2>2
  <1> QED  BY <1>1, StrongInduction

\* Up to a bound.
LEMMA BoundedInduction ==
    ASSUME NEW N \in Nat, NEW S, 0 \in S, \A n \in 0..(N - 1) : n \in S => n + 1 \in S
    PROVE  \A n \in 0..N : n \in S
  <1> DEFINE T == { n \in Nat : n <= N => n \in S }
  <1>1. 0 \in T
    OBVIOUS
  <1>2. \A n \in Nat : n \in T => n + 1 \in T
    OBVIOUS
  <1> HIDE DEF T
  <1>3. \A n \in Nat : n \in T
    BY <1>1, <1>2, SetInduction
  <1> QED  BY <1>3 DEF T

-----------------------------------------------------------------------------
(***************************************************************************)
(* Recursion: there is a function whose value at n is a, for n in Z, and   *)
(* otherwise what B makes of n and the function's value at D[n] < n.       *)
(***************************************************************************)
Solves(g, n, a, Z, D, B) ==
    \A m \in 0..n : g[m] = IF m \in Z THEN a ELSE B[m][g[D[m]]]

LEMMA RecursiveUpTo ==
    ASSUME NEW A, NEW a \in A, NEW Z, 0 \in Z, NEW D, NEW B, NEW N \in Nat,
           \A n \in 1..N : n \notin Z => D[n] \in 0..(n - 1),
           \A n \in 1..N, x \in A : n \notin Z => B[n][x] \in A
    PROVE  \E g \in [0..N -> A] : Solves(g, N, a, Z, D, B)
  <1> DEFINE S == { n \in 0..N : \E g \in [0..n -> A] : Solves(g, n, a, Z, D, B) }
  <1>1. 0 \in S
    <2> DEFINE g == [m \in 0..0 |-> a]
    <2>1. g \in [0..0 -> A] /\ Solves(g, 0, a, Z, D, B)
      BY DEF Solves
    <2> QED  BY <2>1
  <1>2. ASSUME NEW n \in 0..(N - 1), n \in S
        PROVE  n + 1 \in S
    <2>1. PICK g \in [0..n -> A] : Solves(g, n, a, Z, D, B)
      BY <1>2
    <2> DEFINE v == IF n + 1 \in Z THEN a ELSE B[n + 1][g[D[n + 1]]]
               e == [m \in 0..(n + 1) |-> IF m = n + 1 THEN v ELSE g[m]]
    <2>2. n + 1 \in 1..N
      OBVIOUS
    <2>3. v \in A
      <3>1. CASE n + 1 \in Z
        BY <3>1
      <3>2. CASE n + 1 \notin Z
        <4>1. D[n + 1] \in 0..n
          BY <2>2, <3>2
        <4>2. g[D[n + 1]] \in A
          BY <4>1
        <4> QED  BY <2>2, <3>2, <4>2
      <3> QED  BY <3>1, <3>2
    <2> HIDE DEF v
    <2>4. e \in [0..(n + 1) -> A]
      BY <2>3
    <2>5. ASSUME NEW m \in 0..(n + 1)
          PROVE  e[m] = IF m \in Z THEN a ELSE B[m][e[D[m]]]
      <3>1. CASE m = n + 1
        <4>1. CASE m \in Z
          BY <3>1, <4>1 DEF v
        <4>2. CASE m \notin Z
          <5>1. D[m] \in 0..n
            BY <2>2, <3>1, <4>2
          <5>2. e[D[m]] = g[D[m]]
            BY <5>1
          <5> QED  BY <3>1, <4>2, <5>2 DEF v
        <4> QED  BY <4>1, <4>2
      <3>2. CASE m # n + 1
        <4>1. m \in 0..n /\ e[m] = g[m]
          BY <3>2
        <4>2. g[m] = IF m \in Z THEN a ELSE B[m][g[D[m]]]
          BY <2>1, <4>1 DEF Solves
        <4>3. m \notin Z => e[D[m]] = g[D[m]]
          <5>1. m \notin Z => m \in 1..N /\ D[m] \in 0..(m - 1)
            BY <4>1
          <5> QED  BY <4>1, <5>1
        <4> HIDE DEF e
        <4> QED  BY <4>1, <4>2, <4>3
      <3> QED  BY <3>1, <3>2
    <2> HIDE DEF e
    <2>6. Solves(e, n + 1, a, Z, D, B)
      BY <2>5 DEF Solves
    <2> QED  BY <2>2, <2>4, <2>6
  <1> HIDE DEF S
  <1>3. N \in S
    BY <1>1, <1>2, BoundedInduction
  <1> QED  BY <1>3 DEF S

\* The solutions for two bounds agree.
LEMMA RecursiveUnique ==
    ASSUME NEW a, NEW Z, 0 \in Z, NEW D, NEW B, NEW N \in Nat, NEW M \in Nat,
           \A n \in Nat : n \notin Z => D[n] \in 0..(n - 1),
           NEW g, Solves(g, N, a, Z, D, B), NEW h, Solves(h, M, a, Z, D, B)
    PROVE  \A n \in Nat : n <= N /\ n <= M => g[n] = h[n]
  <1> DEFINE S == { n \in Nat : n <= N /\ n <= M => g[n] = h[n] }
  <1>1. ASSUME NEW n \in Nat, \A m \in 0..(n - 1) : m \in S
        PROVE  n \in S
    <2> SUFFICES ASSUME n <= N, n <= M PROVE g[n] = h[n]
      OBVIOUS
    <2>1. /\ g[n] = IF n \in Z THEN a ELSE B[n][g[D[n]]]
          /\ h[n] = IF n \in Z THEN a ELSE B[n][h[D[n]]]
      BY DEF Solves
    <2>2. n \notin Z => g[D[n]] = h[D[n]]
      BY <1>1
    <2> QED  BY <2>1, <2>2
  <1> HIDE DEF S
  <1>2. \A n \in Nat : n \in S
    BY <1>1, StrongInduction
  <1> QED  BY <1>2 DEF S

RecursesWithin(A, a, Z, D, B) ==
    /\ a \in A /\ 0 \in Z
    /\ \A n \in Nat : n \notin Z => D[n] \in 0..(n - 1)
    /\ \A n \in Nat, x \in A : n \notin Z => B[n][x] \in A

LEMMA RecursiveOnNat ==
    ASSUME NEW A, NEW a, NEW Z, NEW D, NEW B,
           RecursesWithin(A, a, Z, D, B)
    PROVE  \E g \in [Nat -> A] :
              \A n \in Nat : g[n] = IF n \in Z THEN a ELSE B[n][g[D[n]]]
  <1>a. /\ a \in A /\ 0 \in Z
        /\ \A n \in Nat : n \notin Z => D[n] \in 0..(n - 1)
        /\ \A n \in Nat, x \in A : n \notin Z => B[n][x] \in A
    BY DEF RecursesWithin
  <1> DEFINE G(n) == CHOOSE g \in [0..n -> A] : Solves(g, n, a, Z, D, B)
             f == [n \in Nat |-> G(n)[n]]
  <1>1. ASSUME NEW n \in Nat
        PROVE  G(n) \in [0..n -> A] /\ Solves(G(n), n, a, Z, D, B)
    <2>1. /\ \A m \in 1..n : m \notin Z => D[m] \in 0..(m - 1)
          /\ \A m \in 1..n, x \in A : m \notin Z => B[m][x] \in A
      BY <1>a
    <2> HIDE DEF f, G
    <2>2. \E g \in [0..n -> A] : Solves(g, n, a, Z, D, B)
      BY <1>a, <2>1, RecursiveUpTo
    <2> QED  BY <2>2 DEF G
  <1> HIDE DEF G
  <1>2. f \in [Nat -> A]
    BY <1>1
  <1>3. ASSUME NEW n \in Nat
        PROVE  f[n] = IF n \in Z THEN a ELSE B[n][f[D[n]]]
    <2>1. G(n)[n] = IF n \in Z THEN a ELSE B[n][G(n)[D[n]]]
      BY <1>1 DEF Solves
    <2>2. ASSUME n \notin Z PROVE f[D[n]] = G(n)[D[n]]
      <3>1. D[n] \in Nat /\ D[n] <= n
        BY <1>a, <2>2
      <3>2. G(D[n])[D[n]] = G(n)[D[n]]
        BY <1>a, <1>1, <3>1, RecursiveUnique
      <3> QED  BY <3>1, <3>2
    <2> QED  BY <2>1, <2>2
  <1> HIDE DEF f
  <1> QED  BY <1>2, <1>3

\* Up to a bound, step by step.
StepsWithin(A, a, B, N) == a \in A /\ \A n \in 1..N, x \in A : B[n][x] \in A

LEMMA StepsUpTo ==
    ASSUME NEW A, NEW a, NEW B, NEW N \in Nat, StepsWithin(A, a, B, N)
    PROVE  \E g \in [0..N -> A] : g[0] = a /\ \A n \in 1..N : g[n] = B[n][g[n - 1]]
  <1> DEFINE D == [n \in 1..N |-> n - 1]
             Z == {0}
  <1>1. \A n \in 1..N : D[n] = n - 1 /\ D[n] \in 0..(n - 1)
    OBVIOUS
  <1>2. 0 \in Z /\ \A n \in 1..N : n \notin Z
    OBVIOUS
  <1> HIDE DEF D, Z
  <1>3. PICK g \in [0..N -> A] : Solves(g, N, a, Z, D, B)
    BY <1>1, <1>2, RecursiveUpTo DEF StepsWithin
  <1>4. \A n \in 0..N : g[n] = IF n \in Z THEN a ELSE B[n][g[D[n]]]
    BY <1>3 DEF Solves
  <1>5. g[0] = a /\ \A n \in 1..N : g[n] = B[n][g[n - 1]]
    BY <1>1, <1>2, <1>4
  <1> QED  BY <1>5

\* What is left of a list after some of its pairs.
LEMMA TailFacts ==
    ASSUME NEW c, NEW n \in Nat, \A j \in 1..n : IsPair(c[j]) /\ Rest(c[j]) = c[j - 1],
           ~IsPair(c[0]), NEW k \in 0..n
    PROVE  Tail_(c[n], k) = c[n - k]
  <1> DEFINE Goes(y) == IF IsPair(y) THEN Rest(y) ELSE y
             IsT(g) == g = [j \in Nat |-> IF j = 0 THEN c[n] ELSE Goes(g[j - 1])]
             t == CHOOSE g : IsT(g)
             left(j) == IF j <= n THEN n - j ELSE 0
  <1>1. Tail_(c[n], k) = t[k]
    BY DEF Tail_
  <1>2. ASSUME NEW j \in Nat, j # 0 PROVE Goes(c[left(j - 1)]) = c[left(j)]
    <2>1. CASE j <= n
      <3>1. left(j - 1) \in 1..n /\ left(j) = left(j - 1) - 1
        BY <1>2, <2>1
      <3> HIDE DEF left
      <3> QED  BY <3>1
    <2>2. CASE ~(j <= n)
      <3>1. left(j - 1) = 0 /\ left(j) = 0
        BY <1>2, <2>2
      <3> HIDE DEF left
      <3> QED  BY <3>1
    <2> QED  BY <2>1, <2>2
  <1>a. left(0) = n /\ \A j \in 0..n : left(j) = n - j
    OBVIOUS
  <1> HIDE DEF Goes, left
  <1>3. IsT(t)
    <2> DEFINE g == [j \in Nat |-> c[left(j)]]
    <2>1. ASSUME NEW j \in Nat PROVE g[j] = IF j = 0 THEN c[n] ELSE Goes(g[j - 1])
      <3>1. CASE j = 0
        BY <3>1, <1>a
      <3>2. CASE j # 0
        <4>1. g[j] = c[left(j)] /\ g[j - 1] = c[left(j - 1)]
          BY <3>2
        <4> HIDE DEF g
        <4> QED  BY <1>2, <3>2, <4>1
      <3> QED  BY <3>1, <3>2
    <2>2. IsT(g)
      BY <2>1
    <2> HIDE DEF IsT, g
    <2> QED  BY <2>2
  <1> HIDE DEF t
  <1>4. \A j \in Nat : t[j] = IF j = 0 THEN c[n] ELSE Goes(t[j - 1])
    BY <1>3
  <1> DEFINE S == { j \in Nat : t[j] = c[left(j)] }
  <1>5. 0 \in S
    BY <1>4, <1>a
  <1>6. ASSUME NEW j \in Nat, j \in S PROVE j + 1 \in S
    <2>1. j + 1 \in Nat /\ j + 1 # 0 /\ (j + 1) - 1 = j
      OBVIOUS
    <2>2. t[j + 1] = Goes(t[j])
      BY <1>4, <2>1
    <2>3. t[j] = c[left((j + 1) - 1)]
      BY <1>6, <2>1
    <2>4. t[j + 1] = c[left(j + 1)]
      BY <1>2, <2>1, <2>2, <2>3
    <2> QED  BY <2>1, <2>4
  <1> HIDE DEF S
  <1>7. k \in S
    BY <1>5, <1>6, SetInduction
  <1>8. t[k] = c[left(k)]
    BY <1>7 DEF S
  <1> QED  BY <1>1, <1>8, <1>a

-----------------------------------------------------------------------------
(***************************************************************************)
(* Numbers, their bytes, and their legs                                    *)
(***************************************************************************)
LEMMA SeqIsFunction ==
    ASSUME NEW S, NEW s \in Seq(S)
    PROVE  s \in [1..Len(s) -> S] /\ Len(s) \in Nat
  OBVIOUS

\* The first n digits of s put together, for all n up to N: the recursive
\* functions of IntOf and PathNumber.
Digits(s, N, a, c) == CHOOSE v : v = [k \in 0..N |-> IF k = 0 THEN a ELSE c * v[k - 1] + s[k]]

LEMMA DigitsOfBytes ==
    ASSUME NEW N \in Nat, NEW s, \A k \in 1..N : s[k] \in Nat
    PROVE  LET v == Digits(s, N, 0, 256)
           IN  /\ v \in [0..N -> Nat]
               /\ v[0] = 0
               /\ \A k \in 1..N : v[k] = 256 * v[k - 1] + s[k]
  <1> DEFINE B == [k \in 1..N |-> [x \in Nat |-> 256 * x + s[k]]]
             IsV(g) == g = [k \in 0..N |-> IF k = 0 THEN 0 ELSE 256 * g[k - 1] + s[k]]
             v == Digits(s, N, 0, 256)
  <1>1. IsV(v)
    <2>1. \A k \in 1..N, x \in Nat : B[k][x] = 256 * x + s[k]
      OBVIOUS
    <2> HIDE DEF B, IsV
    <2> DEFINE A == Nat
               a == 0
    <2>2. a \in A /\ \A k \in 1..N, x \in A : B[k][x] \in A
      BY <2>1
    <2> HIDE DEF A, a
    <2>a. StepsWithin(A, a, B, N)
      BY <2>2 DEF StepsWithin
    <2>3. PICK g \in [0..N -> A] : g[0] = a /\ \A k \in 1..N : g[k] = B[k][g[k - 1]]
      BY <2>a, StepsUpTo
    <2> USE DEF A, a
    <2>4. ASSUME NEW k \in 0..N
          PROVE  g[k] = IF k = 0 THEN 0 ELSE 256 * g[k - 1] + s[k]
      <3>1. CASE k = 0
        BY <2>3, <3>1
      <3>2. CASE k # 0
        <4>1. k \in 1..N /\ g[k - 1] \in Nat
          BY <3>2
        <4> DEFINE x == g[k - 1]
        <4>a. x \in Nat
          BY <4>1
        <4> HIDE DEF x
        <4>b. B[k][x] = 256 * x + s[k]
          BY <2>1, <4>1, <4>a
        <4>2. B[k][g[k - 1]] = 256 * g[k - 1] + s[k]
          BY <4>b DEF x
        <4> QED  BY <2>3, <3>2, <4>1, <4>2
      <3> QED  BY <3>1, <3>2
    <2>5. IsV(g)
      BY <2>4 DEF IsV
    <2>6. v = CHOOSE h : IsV(h)
      BY DEF Digits, IsV
    <2> QED  BY <2>5, <2>6
  <1> HIDE DEF v
  <1>2. v[0] = 0 /\ \A k \in 1..N : v[k] = 256 * v[k - 1] + s[k]
    BY <1>1
  <1> DEFINE S == { k \in 0..N : v[k] \in Nat }
  <1>3. \A k \in 0..N : k \in S
    <2>1. 0 \in S
      BY <1>2
    <2>2. ASSUME NEW k \in 0..(N - 1), k \in S PROVE k + 1 \in S
      <3>1. k + 1 \in 1..N /\ (k + 1) - 1 = k
        OBVIOUS
      <3>2. v[k + 1] = 256 * v[k] + s[k + 1]
        BY <1>2, <3>1
      <3> QED  BY <2>2, <3>1, <3>2
    <2> HIDE DEF S
    <2> QED  BY <2>1, <2>2, BoundedInduction
  <1>4. v \in [0..N -> Nat]
    <2>1. \A k \in 0..N : v[k] \in Nat
      BY <1>3
    <2> QED  BY <1>1, <2>1
  <1> QED  BY <1>2, <1>4 DEF v

LEMMA DigitsOfPath ==
    ASSUME NEW N \in Nat, NEW s, \A k \in 1..N : s[k] \in Nat
    PROVE  LET v == Digits(s, N, 1, 2)
           IN  /\ v \in [0..N -> Nat]
               /\ v[0] = 1
               /\ \A k \in 1..N : v[k] = 2 * v[k - 1] + s[k]
  <1> DEFINE B == [k \in 1..N |-> [x \in Nat |-> 2 * x + s[k]]]
             IsV(g) == g = [k \in 0..N |-> IF k = 0 THEN 1 ELSE 2 * g[k - 1] + s[k]]
             v == Digits(s, N, 1, 2)
  <1>1. IsV(v)
    <2>1. \A k \in 1..N, x \in Nat : B[k][x] = 2 * x + s[k]
      OBVIOUS
    <2> HIDE DEF B, IsV
    <2> DEFINE A == Nat
               a == 1
    <2>2. a \in A /\ \A k \in 1..N, x \in A : B[k][x] \in A
      BY <2>1
    <2> HIDE DEF A, a
    <2>a. StepsWithin(A, a, B, N)
      BY <2>2 DEF StepsWithin
    <2>3. PICK g \in [0..N -> A] : g[0] = a /\ \A k \in 1..N : g[k] = B[k][g[k - 1]]
      BY <2>a, StepsUpTo
    <2> USE DEF A, a
    <2>4. ASSUME NEW k \in 0..N
          PROVE  g[k] = IF k = 0 THEN 1 ELSE 2 * g[k - 1] + s[k]
      <3>1. CASE k = 0
        BY <2>3, <3>1
      <3>2. CASE k # 0
        <4>1. k \in 1..N /\ g[k - 1] \in Nat
          BY <3>2
        <4>2. B[k][g[k - 1]] = 2 * g[k - 1] + s[k]
          BY <2>1, <4>1
        <4> QED  BY <2>3, <3>2, <4>1, <4>2
      <3> QED  BY <3>1, <3>2
    <2>5. IsV(g)
      BY <2>4 DEF IsV
    <2>6. v = CHOOSE h : IsV(h)
      BY DEF Digits, IsV
    <2> QED  BY <2>5, <2>6
  <1> HIDE DEF v
  <1>2. v[0] = 1 /\ \A k \in 1..N : v[k] = 2 * v[k - 1] + s[k]
    BY <1>1
  <1> DEFINE S == { k \in 0..N : v[k] \in Nat }
  <1>3. \A k \in 0..N : k \in S
    <2>1. 0 \in S
      BY <1>2
    <2>2. ASSUME NEW k \in 0..(N - 1), k \in S PROVE k + 1 \in S
      <3>1. k + 1 \in 1..N /\ (k + 1) - 1 = k
        OBVIOUS
      <3>2. v[k + 1] = 2 * v[k] + s[k + 1]
        BY <1>2, <3>1
      <3> QED  BY <2>2, <3>1, <3>2
    <2> HIDE DEF S
    <2> QED  BY <2>1, <2>2, BoundedInduction
  <1>4. v \in [0..N -> Nat]
    <2>1. \A k \in 0..N : v[k] \in Nat
      BY <1>3
    <2> QED  BY <1>1, <2>1
  <1> QED  BY <1>2, <1>4 DEF v

LEMMA NumbersAreDigits ==
    ASSUME NEW s
    PROVE  /\ IntOf(s) = Digits(s, Len(s), 0, 256)[Len(s)]
           /\ PathNumber(s) = Digits(s, Len(s), 1, 2)[Len(s)]
  BY DEF IntOf, PathNumber, Digits

\* One more digit.
LEMMA DigitsOfMore ==
    ASSUME NEW N \in Nat, NEW s, NEW t, NEW M \in Nat, N <= M,
           \A k \in 1..M : t[k] \in Nat, \A k \in 1..N : s[k] = t[k]
    PROVE  \A k \in 0..N : Digits(s, N, 0, 256)[k] = Digits(t, M, 0, 256)[k]
  <1> DEFINE u == Digits(s, N, 0, 256)
             v == Digits(t, M, 0, 256)
             S == { k \in 0..N : u[k] = v[k] }
  <1>1. u \in [0..N -> Nat] /\ u[0] = 0 /\ \A k \in 1..N : u[k] = 256 * u[k - 1] + s[k]
    <2>1. \A k \in 1..N : s[k] \in Nat
      OBVIOUS
    <2> QED  BY <2>1, DigitsOfBytes
  <1>2. v \in [0..M -> Nat] /\ v[0] = 0 /\ \A k \in 1..M : v[k] = 256 * v[k - 1] + t[k]
    BY DigitsOfBytes
  <1> HIDE DEF u, v
  <1>3. 0 \in S
    BY <1>1, <1>2
  <1>4. ASSUME NEW k \in 0..(N - 1), k \in S PROVE k + 1 \in S
    <2>1. k + 1 \in 1..N /\ k + 1 \in 1..M /\ (k + 1) - 1 = k
      OBVIOUS
    <2>2. u[k + 1] = 256 * u[k] + s[k + 1] /\ v[k + 1] = 256 * v[k] + t[k + 1]
      BY <1>1, <1>2, <2>1
    <2> QED  BY <1>4, <2>1, <2>2
  <1> HIDE DEF S
  <1>5. \A k \in 0..N : k \in S
    BY <1>3, <1>4, BoundedInduction
  <1> QED  BY <1>5 DEF S, u, v

\* The legs of a path are its bits, the lowest one first.
LEMMA LegsUnfold ==
    /\ \A m \in Nat : Legs(m) = IF m <= 1 THEN <<>> ELSE <<m % 2>> \o Legs(m \div 2)
    /\ \A m \in Nat : Legs(m) \in Seq({LEFT, RIGHT})
  <1> DEFINE A == Seq({LEFT, RIGHT})
             Z == {0, 1}
             D == [m \in Nat |-> m \div 2]
             B == [m \in Nat |-> [x \in A |-> <<m % 2>> \o x]]
             IsL(l) == l = [m \in Nat |-> IF m <= 1 THEN <<>> ELSE <<m % 2>> \o l[m \div 2]]
             l == CHOOSE g : IsL(g)
  <1>1. \A m \in Nat : m % 2 \in {LEFT, RIGHT}
    BY DEF LEFT, RIGHT
  <1>2. ASSUME NEW m \in Nat, NEW x \in A PROVE B[m][x] = <<m % 2>> \o x /\ B[m][x] \in A
    <2>1. <<m % 2>> \in Seq({LEFT, RIGHT})
      BY <1>1
    <2>2. <<m % 2>> \o x \in Seq({LEFT, RIGHT})
      BY <2>1
    <2> QED  BY <2>2
  <1>3. <<>> \in A
    OBVIOUS
  <1>4. 0 \in Z /\ \A m \in Nat : m \in Z <=> m <= 1
    OBVIOUS
  <1>5. \A m \in Nat : D[m] = m \div 2 /\ (m \notin Z => D[m] \in 0..(m - 1))
    OBVIOUS
  <1> HIDE DEF A, B, Z, D
  <1>6. RecursesWithin(A, <<>>, Z, D, B)
    BY <1>2, <1>3, <1>4, <1>5 DEF RecursesWithin
  <1>7. PICK g \in [Nat -> A] : \A m \in Nat : g[m] = IF m \in Z THEN <<>> ELSE B[m][g[D[m]]]
    BY <1>6, RecursiveOnNat
  <1>8. IsL(g)
    <2>1. ASSUME NEW m \in Nat
          PROVE  g[m] = IF m <= 1 THEN <<>> ELSE <<m % 2>> \o g[m \div 2]
      <3>1. CASE m <= 1
        BY <1>4, <1>7, <3>1
      <3>2. CASE ~(m <= 1)
        <4>1. m \div 2 \in Nat /\ m \notin Z /\ D[m] = m \div 2
          BY <1>4, <1>5, <3>2
        <4> DEFINE x == g[m \div 2]
        <4>2. x \in A
          BY <4>1
        <4>3. g[m] = B[m][x]
          BY <1>7, <4>1
        <4> HIDE DEF x
        <4>4. g[m] = <<m % 2>> \o x
          BY <1>2, <4>2, <4>3
        <4> QED  BY <3>2, <4>4 DEF x
      <3> QED  BY <3>1, <3>2
    <2> QED  BY <2>1
  <1>9. IsL(l)
    <2> HIDE DEF IsL
    <2> QED  BY <1>8
  <1>10. \A m \in Nat : Legs(m) = l[m]
    BY DEF Legs
  <1> HIDE DEF l
  <1>11. \A m \in Nat : l[m] = IF m <= 1 THEN <<>> ELSE <<m % 2>> \o l[m \div 2]
    BY <1>9
  <1>12. \A m \in Nat : m \div 2 \in Nat
    OBVIOUS
  <1> DEFINE S == { m \in Nat : l[m] \in A }
  <1>13. ASSUME NEW m \in Nat, \A k \in 0..(m - 1) : k \in S PROVE m \in S
    <2>1. CASE m <= 1
      BY <1>3, <1>11, <2>1
    <2>2. CASE ~(m <= 1)
      <3>1. m \div 2 \in 0..(m - 1)
        BY <2>2
      <3>2. l[m \div 2] \in A
        BY <1>13, <3>1
      <3>3. l[m] = <<m % 2>> \o l[m \div 2]
        BY <1>11, <2>2
      <3>4. l[m] \in A
        BY <1>2, <3>2, <3>3
      <3> QED  BY <3>4
    <2> QED  BY <2>1, <2>2
  <1> HIDE DEF S
  <1>14. \A m \in Nat : m \in S
    BY <1>13, StrongInduction
  <1>15. \A m \in Nat : l[m] \in Seq({LEFT, RIGHT})
    BY <1>14 DEF S, A
  <1> QED  BY <1>10, <1>11, <1>12, <1>15

LEMMA LegsOfLeaf ==
    ASSUME NEW m \in Nat, m <= 1
    PROVE  Legs(m) = <<>>
  <1>1. Legs(m) = IF m <= 1 THEN <<>> ELSE <<m % 2>> \o Legs(m \div 2)
    BY LegsUnfold, Zenon
  <1> QED  BY <1>1, Zenon

LEMMA LegsOfMore ==
    ASSUME NEW m \in Nat, ~(m <= 1)
    PROVE  Legs(m) = <<m % 2>> \o Legs(m \div 2)
  <1>1. Legs(m) = IF m <= 1 THEN <<>> ELSE <<m % 2>> \o Legs(m \div 2)
    BY LegsUnfold, Zenon
  <1> QED  BY <1>1, Zenon

LEMMA PrependFacts ==
    ASSUME NEW S, NEW s \in Seq(S), NEW x \in S
    PROVE  /\ Len(<<x>> \o s) = Len(s) + 1
           /\ (<<x>> \o s)[1] = x
           /\ \A i \in 1..Len(s) : (<<x>> \o s)[i + 1] = s[i]
           /\ Len(s) \in Nat
  OBVIOUS

\* s has the first k elements of path, the last one first.
IsReversed(s, path, k) == /\ s \in Seq({LEFT, RIGHT}) /\ Len(s) = k
                          /\ \A i \in 1..k : s[i] = path[k + 1 - i]

LEMMA ReversedStep ==
    ASSUME NEW path, NEW k \in Nat, NEW s, IsReversed(s, path, k), path[k + 1] \in {LEFT, RIGHT}
    PROVE  IsReversed(<<path[k + 1]>> \o s, path, k + 1)
  <1> DEFINE b == path[k + 1]
             t == <<b>> \o s
  <1>1. s \in Seq({LEFT, RIGHT}) /\ Len(s) = k /\ b \in {LEFT, RIGHT}
    BY DEF IsReversed
  <1> HIDE DEF b
  <1>2. /\ Len(t) = k + 1 /\ t[1] = b /\ \A i \in 1..k : t[i + 1] = s[i]
        /\ t \in Seq({LEFT, RIGHT})
    <2>1. t \in Seq({LEFT, RIGHT})
      BY <1>1
    <2> QED  BY <1>1, <2>1, PrependFacts
  <1> HIDE DEF t
  <1>3. \A i \in 1..k : s[i] = path[k + 1 - i]
    BY DEF IsReversed
  <1>4. ASSUME NEW i \in 1..(k + 1) PROVE t[i] = path[(k + 1) + 1 - i]
    <2>1. CASE i = 1
      BY <1>2, <2>1 DEF b
    <2>2. CASE i # 1
      <3>1. i - 1 \in 1..k /\ (i - 1) + 1 = i /\ k + 1 - (i - 1) = (k + 1) + 1 - i
        BY <2>2
      <3>2. t[i] = s[i - 1] /\ s[i - 1] = path[k + 1 - (i - 1)]
        BY <1>2, <1>3, <3>1
      <3> QED  BY <3>1, <3>2
    <2> QED  BY <2>1, <2>2
  <1>5. IsReversed(t, path, k + 1)
    BY <1>2, <1>4 DEF IsReversed
  <1> QED  BY <1>5 DEF t, b

LEMMA LegsOfDigits ==
    ASSUME NEW path, NEW L \in Nat, \A i \in 1..L : path[i] \in {LEFT, RIGHT}
    PROVE  LET n == Digits(path, L, 1, 2)[L]
           IN  n \in Nat /\ n # 0 /\ IsReversed(Legs(n), path, L)
  <1> DEFINE v == Digits(path, L, 1, 2)
             S == { k \in 0..L : v[k] >= 1 /\ IsReversed(Legs(v[k]), path, k) }
  <1>1. v \in [0..L -> Nat] /\ v[0] = 1 /\ \A k \in 1..L : v[k] = 2 * v[k - 1] + path[k]
    <2>1. \A i \in 1..L : path[i] \in Nat
      BY DEF LEFT, RIGHT
    <2> QED  BY <2>1, DigitsOfPath
  <1> HIDE DEF v
  <1>2. 0 \in S
    <2>1. Legs(1) = <<>>
      <3>1. 1 \in Nat /\ 1 <= 1
        OBVIOUS
      <3> QED  BY <3>1, LegsOfLeaf, Zenon
    <2>2. IsReversed(<<>>, path, 0)
      BY DEF IsReversed
    <2> QED  BY <1>1, <2>1, <2>2
  <1>3. ASSUME NEW k \in 0..(L - 1), k \in S PROVE k + 1 \in S
    <2> DEFINE b == path[k + 1]
               n == v[k]
               m == v[k + 1]
    <2>1. b \in {LEFT, RIGHT} /\ n \in Nat /\ n >= 1 /\ m = 2 * n + b /\ k + 1 \in 0..L
      <3>1. k + 1 \in 1..L /\ (k + 1) - 1 = k
        OBVIOUS
      <3>2. v[k + 1] = 2 * v[(k + 1) - 1] + path[k + 1]
        BY <1>1, <3>1
      <3> QED  BY <1>1, <1>3, <3>1, <3>2
    <2>2. IsReversed(Legs(n), path, k)
      BY <1>3
    <2> HIDE DEF n, m, S
    <2>3. m \in Nat /\ ~(m <= 1) /\ m % 2 = b /\ m \div 2 = n
      <3> HIDE DEF b
      <3> QED  BY <2>1 DEF LEFT, RIGHT
    <2>4. Legs(m) = <<b>> \o Legs(n)
      <3>1. Legs(m) = <<m % 2>> \o Legs(m \div 2)
        BY <2>3, LegsOfMore, Zenon
      <3> QED  BY <2>3, <3>1, Zenon
    <2>5. IsReversed(Legs(m), path, k + 1)
      <3> DEFINE s == Legs(n)
      <3>1. k \in Nat /\ IsReversed(s, path, k) /\ b \in {LEFT, RIGHT}
        BY <2>1, <2>2
      <3> HIDE DEF s
      <3>2. IsReversed(<<b>> \o s, path, k + 1)
        BY <3>1, ReversedStep, Zenon
      <3> QED  BY <2>4, <3>2, Zenon DEF s
    <2>6. m >= 1
      BY <2>3
    <2> QED  BY <2>1, <2>5, <2>6 DEF S, m
  <1> HIDE DEF S
  <1>4. L \in S
    BY <1>2, <1>3, BoundedInduction
  <1>5. v[L] \in Nat /\ v[L] >= 1 /\ IsReversed(Legs(v[L]), path, L)
    BY <1>1, <1>4 DEF S
  <1> HIDE DEF IsReversed
  <1> QED  BY <1>5 DEF v

\* Taking a path's number apart gives its legs in the other order: the search
\* goes from the object up, the reader from the root down.
LEMMA LegsOfPath ==
    ASSUME NEW path \in Seq({LEFT, RIGHT})
    PROVE  /\ PathNumber(path) \in Nat /\ PathNumber(path) # 0
           /\ IsReversed(Legs(PathNumber(path)), path, Len(path))
  <1>1. \A i \in 1..Len(path) : path[i] \in {LEFT, RIGHT}
    OBVIOUS
  <1>2. Len(path) \in Nat
    OBVIOUS
  <1> DEFINE n == Digits(path, Len(path), 1, 2)[Len(path)]
  <1>3. n \in Nat /\ n # 0 /\ IsReversed(Legs(n), path, Len(path))
    BY <1>1, <1>2, LegsOfDigits, Zenon
  <1>4. PathNumber(path) = n
    BY NumbersAreDigits, Zenon
  <1> HIDE DEF n
  <1> QED  BY <1>3, <1>4, Zenon

\* to_bytes and from_bytes.
LEMMA BytesUnfold ==
    /\ \A m \in Nat : BytesOf(m) = IF m = 0 THEN <<>> ELSE Append(BytesOf(m \div 256), m % 256)
    /\ \A m \in Nat : BytesOf(m) \in Seq(0..255)
  <1> DEFINE A == Seq(0..255)
             E == <<>>
             Z == {0}
             D == [m \in Nat |-> m \div 256]
             Put(x, m) == Append(x, m % 256)
             B == [m \in Nat |-> [x \in A |-> Put(x, m)]]
             IsL(l) == l = [m \in Nat |-> IF m = 0 THEN E ELSE Put(l[m \div 256], m)]
             l == CHOOSE g : IsL(g)
  <1>1. ASSUME NEW m \in Nat, NEW x \in A PROVE Put(x, m) \in A
    <2> DEFINE d == m % 256
    <2>1. d \in 0..255
      OBVIOUS
    <2> HIDE DEF d
    <2>2. Append(x, d) \in A
      BY <2>1
    <2> QED  BY <2>2 DEF d
  <1>2. E \in A
    OBVIOUS
  <1>10. \A m \in Nat : BytesOf(m) = l[m]
    BY DEF BytesOf
  <1> HIDE DEF A, E, Put
  <1>3. ASSUME NEW m \in Nat, NEW x \in A PROVE B[m][x] = Put(x, m) /\ B[m][x] \in A
    BY <1>1
  <1>4. 0 \in Z /\ \A m \in Nat : m \in Z <=> m = 0
    OBVIOUS
  <1>5. \A m \in Nat : D[m] = m \div 256 /\ (m \notin Z => D[m] \in 0..(m - 1))
    OBVIOUS
  <1> HIDE DEF B, Z, D
  <1>6. RecursesWithin(A, E, Z, D, B)
    BY <1>2, <1>3, <1>4, <1>5 DEF RecursesWithin
  <1>7. PICK g \in [Nat -> A] : \A m \in Nat : g[m] = IF m \in Z THEN E ELSE B[m][g[D[m]]]
    BY <1>6, RecursiveOnNat
  <1>8. IsL(g)
    <2>1. ASSUME NEW m \in Nat
          PROVE  g[m] = IF m = 0 THEN E ELSE Put(g[m \div 256], m)
      <3>1. CASE m = 0
        BY <1>4, <1>7, <3>1
      <3>2. CASE m # 0
        <4>1. m \div 256 \in Nat /\ m \notin Z /\ D[m] = m \div 256
          BY <1>4, <1>5, <3>2
        <4> DEFINE x == g[m \div 256]
        <4>2. x \in A
          BY <4>1
        <4>3. g[m] = B[m][x]
          BY <1>7, <4>1
        <4> HIDE DEF x
        <4>4. g[m] = Put(x, m)
          BY <1>3, <4>2, <4>3
        <4> QED  BY <3>2, <4>4 DEF x
      <3> QED  BY <3>1, <3>2
    <2> QED  BY <2>1
  <1>9. IsL(l)
    <2> HIDE DEF IsL
    <2> QED  BY <1>8
  <1> HIDE DEF l
  <1>11. \A m \in Nat : l[m] = IF m = 0 THEN E ELSE Put(l[m \div 256], m)
    BY <1>9
  <1>12. \A m \in Nat : m \div 256 \in Nat
    OBVIOUS
  <1> DEFINE S == { m \in Nat : l[m] \in A }
  <1>13. ASSUME NEW m \in Nat, \A k \in 0..(m - 1) : k \in S PROVE m \in S
    <2>1. CASE m = 0
      BY <1>2, <1>11, <2>1
    <2>2. CASE m # 0
      <3>1. m \div 256 \in 0..(m - 1)
        BY <2>2
      <3>2. l[m \div 256] \in A
        BY <1>13, <3>1
      <3>3. l[m] = Put(l[m \div 256], m)
        BY <1>11, <2>2
      <3>4. l[m] \in A
        BY <1>1, <3>2, <3>3
      <3> QED  BY <3>4
    <2> QED  BY <2>1, <2>2
  <1> HIDE DEF S
  <1>14. \A m \in Nat : m \in S
    BY <1>13, StrongInduction
  <1>15. \A m \in Nat : l[m] \in A
    BY <1>14 DEF S
  <1>16. \A m \in Nat : BytesOf(m) = IF m = 0 THEN E ELSE Put(BytesOf(m \div 256), m)
    BY <1>10, <1>11, <1>12
  <1>17. \A m \in Nat : BytesOf(m) \in A
    BY <1>10, <1>15
  <1> QED  BY <1>16, <1>17, Zenon DEF A, E, Put

LEMMA NoBytes ==
    BytesOf(0) = <<>>
  <1>1. BytesOf(0) = IF 0 = 0 THEN <<>> ELSE Append(BytesOf(0 \div 256), 0 % 256)
    BY BytesUnfold, 0 \in Nat, Zenon
  <1> QED  BY <1>1, Zenon

LEMMA BytesOfMore ==
    ASSUME NEW m \in Nat, m # 0
    PROVE  BytesOf(m) = Append(BytesOf(m \div 256), m % 256)
  <1>1. BytesOf(m) = IF m = 0 THEN <<>> ELSE Append(BytesOf(m \div 256), m % 256)
    BY BytesUnfold, Zenon
  <1> QED  BY <1>1, Zenon

\* One more byte.
IsLonger(t, s, N, b) == /\ N \in Nat /\ b \in Nat /\ t[N + 1] = b
                        /\ \A k \in 1..N : s[k] \in Nat /\ t[k] = s[k]

LEMMA DigitsAppend ==
    ASSUME NEW N, NEW s, NEW t, NEW b, IsLonger(t, s, N, b)
    PROVE  Digits(t, N + 1, 0, 256)[N + 1] = 256 * Digits(s, N, 0, 256)[N] + b
  <1> USE DEF IsLonger
  <1>1. \A k \in 1..(N + 1) : t[k] \in Nat
    <2>1. \A k \in 1..(N + 1) : k = N + 1 \/ k \in 1..N
      OBVIOUS
    <2> QED  BY <2>1
  <1>2. Digits(t, N + 1, 0, 256)[N] = Digits(s, N, 0, 256)[N]
    <2>1. N + 1 \in Nat /\ N <= N + 1 /\ N \in 0..N
      OBVIOUS
    <2> QED  BY <1>1, <2>1, DigitsOfMore
  <1>3. Digits(t, N + 1, 0, 256)[N + 1] = 256 * Digits(t, N + 1, 0, 256)[N] + t[N + 1]
    <2>1. N + 1 \in Nat /\ N + 1 \in 1..(N + 1) /\ (N + 1) - 1 = N
      OBVIOUS
    <2> DEFINE v == Digits(t, N + 1, 0, 256)
    <2>2. \A k \in 1..(N + 1) : v[k] = 256 * v[k - 1] + t[k]
      BY <1>1, <2>1, DigitsOfBytes
    <2> HIDE DEF v
    <2>3. v[N + 1] = 256 * v[(N + 1) - 1] + t[N + 1]
      BY <2>1, <2>2
    <2>4. v[N + 1] = 256 * v[N] + t[N + 1]
      BY <2>1, <2>3
    <2> QED  BY <2>4 DEF v
  <1> QED  BY <1>2, <1>3

LEMMA IntOfAppend ==
    ASSUME NEW s \in Seq(0..255), NEW b \in 0..255
    PROVE  IntOf(Append(s, b)) = 256 * IntOf(s) + b
  <1> DEFINE t == Append(s, b)
             N == Len(s)
  <1>1. Len(t) = N + 1 /\ t[N + 1] = b /\ N \in Nat /\ \A k \in 1..N : t[k] = s[k]
    OBVIOUS
  <1>2. s \in [1..N -> 0..255]
    BY SeqIsFunction
  <1>a. IntOf(t) = Digits(t, Len(t), 0, 256)[Len(t)] /\ IntOf(s) = Digits(s, N, 0, 256)[N]
    BY NumbersAreDigits, ZenonT(40)
  <1> HIDE DEF t, N
  <1>3. b \in Nat /\ \A k \in 1..N : s[k] \in Nat
    <2>1. \A n \in 0..255 : n \in Nat
      OBVIOUS
    <2>2. \A k \in 1..N : s[k] \in 0..255
      BY <1>2, Zenon
    <2> QED  BY <2>1, <2>2, Zenon
  <1>4. Digits(t, N + 1, 0, 256)[N + 1] = 256 * Digits(s, N, 0, 256)[N] + b
    <2>1. IsLonger(t, s, N, b)
      BY <1>1, <1>3, Zenon DEF IsLonger
    <2> QED  BY <2>1, DigitsAppend
  <1>b. Len(t) = N + 1
    BY <1>1, Zenon
  <1>c. IntOf(t) = Digits(t, N + 1, 0, 256)[N + 1]
    BY <1>a, <1>b, Zenon
  <1>d. IntOf(s) = Digits(s, N, 0, 256)[N]
    BY <1>a, Zenon
  <1> DEFINE x == Digits(t, N + 1, 0, 256)[N + 1]
             y == Digits(s, N, 0, 256)[N]
  <1>e. IntOf(t) = x /\ IntOf(s) = y /\ x = 256 * y + b
    BY <1>4, <1>c, <1>d, Zenon
  <1> HIDE DEF x, y
  <1>5. IntOf(t) = 256 * IntOf(s) + b
    BY <1>e, Zenon
  <1> QED  BY <1>5 DEF t

\* A number is what its bytes spell.
LEMMA NumberOfBytes ==
    ASSUME NEW n \in Nat
    PROVE  IntOf(BytesOf(n)) = n
  <1> DEFINE S == { m \in Nat : IntOf(BytesOf(m)) = m }
  <1>1. IntOf(<<>>) = 0
    <2>1. Digits(<<>>, 0, 0, 256)[0] = 0
      <3>1. \A k \in 1..0 : <<>>[k] \in Nat
        OBVIOUS
      <3> DEFINE e == <<>>
      <3>2. 0 \in Nat /\ \A k \in 1..0 : e[k] \in Nat
        BY <3>1
      <3> HIDE DEF e
      <3>3. Digits(e, 0, 0, 256)[0] = 0
        BY <3>2, DigitsOfBytes
      <3> QED  BY <3>3 DEF e
    <2>2. Len(<<>>) = 0
      OBVIOUS
    <2> QED  BY <2>1, <2>2, NumbersAreDigits
  <1>2. ASSUME NEW m \in Nat, \A k \in 0..(m - 1) : k \in S PROVE m \in S
    <2>1. CASE m = 0
      <3>1. IntOf(BytesOf(0)) = 0
        BY <1>1, NoBytes, Zenon
      <3> QED  BY <2>1, <3>1
    <2>2. CASE m # 0
      <3> DEFINE q == m \div 256
                 d == m % 256
      <3>1. q \in Nat /\ q \in 0..(m - 1) /\ d \in 0..255 /\ m = (256 * q) + d
        BY <2>2, SMTT(60)
      <3>2. BytesOf(m) = Append(BytesOf(q), d) /\ BytesOf(q) \in Seq(0..255)
        <4>1. BytesOf(m) = Append(BytesOf(m \div 256), m % 256)
          BY <2>2, BytesOfMore, Zenon
        <4>2. BytesOf(q) \in Seq(0..255)
          <5>1. q \in Nat
            BY <3>1, Zenon
          <5> HIDE DEF q
          <5> QED  BY <5>1, BytesUnfold, Zenon
        <4> QED  BY <4>1, <4>2, Zenon
      <3>3. IntOf(BytesOf(q)) = q
        BY <1>2, <3>1
      <3> HIDE DEF q, d
      <3>4. IntOf(BytesOf(m)) = 256 * IntOf(BytesOf(q)) + d
        <4>1. IntOf(Append(BytesOf(q), d)) = 256 * IntOf(BytesOf(q)) + d
          <5>1. d \in 0..255
            BY <3>1, Zenon
          <5> DEFINE bytes == BytesOf(q)
          <5>2. bytes \in Seq(0..255)
            BY <3>2, Zenon
          <5> HIDE DEF bytes
          <5>3. IntOf(Append(bytes, d)) = 256 * IntOf(bytes) + d
            BY <5>1, <5>2, IntOfAppend, ZenonT(40)
          <5> QED  BY <5>3 DEF bytes
        <4> QED  BY <4>1, <3>2, Zenon
      <3> QED  BY <3>1, <3>3, <3>4
    <2> QED  BY <2>1, <2>2
  <1> HIDE DEF S
  <1>3. \A m \in Nat : m \in S
    BY <1>2, StrongInduction
  <1> QED  BY <1>3 DEF S
-----------------------------------------------------------------------------
(***************************************************************************)
(* What the state changes do to the fields of the record                   *)
(***************************************************************************)
\* a ReadCacheLookup object whose Counter may have gone below zero
IsLookup(r) ==
    /\ r = [root_hash |-> r.root_hash, read_stack |-> r.read_stack,
            count |-> r.count, links |-> r.links]
    /\ r.count \in [DOMAIN r.count -> Int]
    /\ IsFiniteSet(DOMAIN r.count)

LEMMA BumpFacts ==
    ASSUME NEW r, IsLookup(r), NEW h, NEW d \in Int
    PROVE  LET b == Bump(r, h, d)
           IN  /\ IsLookup(b)
               /\ b.root_hash = r.root_hash
               /\ b.read_stack = r.read_stack
               /\ b.links = r.links
               /\ \A x : Count(b, x) = Count(r, x) + (IF x = h THEN d ELSE 0)
               /\ \A x : Count(r, x) \in Int
  <1> DEFINE b == Bump(r, h, d)
             f == [x \in DOMAIN r.count \cup {h} |-> Count(r, x) + (IF x = h THEN d ELSE 0)]
  <1>1. \A x : Count(r, x) \in Int
    BY DEF IsLookup, Count
  <1>2. /\ b = [root_hash |-> r.root_hash, read_stack |-> r.read_stack,
                count |-> f, links |-> r.links]
    BY DEF Bump, IsLookup
  <1>3. f \in [DOMAIN f -> Int]
    BY <1>1
  <1>4. IsLookup(b)
    <2>1. IsFiniteSet(DOMAIN f)
      BY FS_AddElement DEF IsLookup
    <2> HIDE DEF b, f
    <2> QED  BY <1>2, <1>3, <2>1 DEF IsLookup
  <1>5. ASSUME NEW x PROVE Count(b, x) = Count(r, x) + (IF x = h THEN d ELSE 0)
    <2>1. b.count = f
      BY <1>2
    <2>2. CASE x \in DOMAIN r.count \cup {h}
      BY <2>1, <2>2 DEF Count
    <2>3. CASE x \notin DOMAIN r.count \cup {h}
      BY <2>1, <2>3, <1>1 DEF Count
    <2> QED  BY <2>2, <2>3
  <1> HIDE DEF f
  <1> QED  BY <1>1, <1>2, <1>4, <1>5

\* What a state change counts, it has in its Counter from then on.
LEMMA BumpDomain ==
    ASSUME NEW r, IsLookup(r), NEW h, NEW d \in Int
    PROVE  DOMAIN Bump(r, h, d).count = DOMAIN r.count \cup {h}
  BY DEF Bump, IsLookup

LEMMA PushDomain ==
    ASSUME NEW r, IsLookup(r), NEW h
    PROVE  DOMAIN PushTo(r, h).count = DOMAIN r.count \cup {h, HashPair(h, r.root_hash)}
  <1> DEFINE new_root == HashPair(h, r.root_hash)
             b1 == Bump(r, h, 1)
             b2 == Bump(b1, new_root, 1)
  <1>1. IsLookup(b1) /\ DOMAIN b1.count = DOMAIN r.count \cup {h}
    BY BumpFacts, BumpDomain
  <1>2. IsLookup(b2) /\ DOMAIN b2.count = DOMAIN b1.count \cup {new_root}
    <2> HIDE DEF b1
    <2> QED  BY <1>1, BumpFacts, BumpDomain
  <1>3. PushTo(r, h) = [b2 EXCEPT
            !.read_stack = Append(r.read_stack, [obj |-> h, root |-> r.root_hash]),
            !.links      = r.links \cup { Link(h, new_root, LEFT),
                                          Link(r.root_hash, new_root, RIGHT) },
            !.root_hash  = new_root]
    BY DEF PushTo
  <1> HIDE DEF b1, b2, new_root
  <1>4. PushTo(r, h).count = b2.count
    BY <1>2, <1>3 DEF IsLookup
  <1> QED  BY <1>1, <1>2, <1>4 DEF new_root

LEMMA PopDomain ==
    ASSUME NEW r, IsLookup(r)
    PROVE  DOMAIN PopFrom(r).count = DOMAIN r.count \cup {Top(r).obj, r.root_hash}
  <1> DEFINE b1 == Bump(r, Top(r).obj, -1)
             b2 == Bump(b1, r.root_hash, -1)
             front == SubSeq(r.read_stack, 1, Len(r.read_stack) - 1)
  <1>1. IsLookup(b1) /\ DOMAIN b1.count = DOMAIN r.count \cup {Top(r).obj}
    BY BumpFacts, BumpDomain
  <1>2. IsLookup(b2) /\ DOMAIN b2.count = DOMAIN b1.count \cup {r.root_hash}
    <2> HIDE DEF b1
    <2> QED  BY <1>1, BumpFacts, BumpDomain
  <1>3. PopFrom(r) = [b2 EXCEPT !.read_stack = front, !.root_hash = Top(r).root]
    BY DEF PopFrom
  <1> HIDE DEF b1, b2, front
  <1>4. PopFrom(r).count = b2.count
    BY <1>2, <1>3 DEF IsLookup
  <1> QED  BY <1>1, <1>2, <1>4

LEMMA PushFacts ==
    ASSUME NEW r, IsLookup(r), NEW h
    PROVE  LET p == PushTo(r, h)
               new_root == HashPair(h, r.root_hash)
           IN  /\ IsLookup(p)
               /\ p.root_hash = new_root
               /\ p.read_stack = Append(r.read_stack, [obj |-> h, root |-> r.root_hash])
               /\ p.links = r.links \cup { Link(h, new_root, LEFT),
                                           Link(r.root_hash, new_root, RIGHT) }
               /\ \A x : Count(p, x) = Count(r, x) + (IF x = h THEN 1 ELSE 0)
                                                   + (IF x = new_root THEN 1 ELSE 0)
               /\ \A x : Count(r, x) \in Int
  <1> DEFINE new_root == HashPair(h, r.root_hash)
             b1 == Bump(r, h, 1)
             b2 == Bump(b1, new_root, 1)
             p  == PushTo(r, h)
  <1>1. /\ IsLookup(b1)
        /\ \A x : Count(b1, x) = Count(r, x) + (IF x = h THEN 1 ELSE 0)
        /\ \A x : Count(r, x) \in Int
    BY BumpFacts
  <1>2. /\ IsLookup(b2)
        /\ \A x : Count(b2, x) = Count(b1, x) + (IF x = new_root THEN 1 ELSE 0)
    <2> HIDE DEF b1
    <2> QED  BY <1>1, BumpFacts
  <1>3. p = [root_hash |-> new_root,
             read_stack |-> Append(r.read_stack, [obj |-> h, root |-> r.root_hash]),
             count |-> b2.count,
             links |-> r.links \cup { Link(h, new_root, LEFT), Link(r.root_hash, new_root, RIGHT) }]
    <2>1. p = [b2 EXCEPT
                !.read_stack = Append(r.read_stack, [obj |-> h, root |-> r.root_hash]),
                !.links      = r.links \cup { Link(h, new_root, LEFT),
                                              Link(r.root_hash, new_root, RIGHT) },
                !.root_hash  = new_root]
      BY DEF PushTo
    <2> HIDE DEF b2, p, new_root
    <2> QED  BY <2>1, <1>2 DEF IsLookup
  <1>4. \A x : Count(p, x) = Count(b2, x)
    <2> HIDE DEF b2, p, new_root
    <2> QED  BY <1>3 DEF Count
  <1>5. IsLookup(p)
    <2> HIDE DEF b2, p, new_root
    <2> QED  BY <1>3, <1>2 DEF IsLookup
  <1> HIDE DEF b1, b2, new_root, p
  <1>6. /\ p.root_hash = new_root
        /\ p.read_stack = Append(r.read_stack, [obj |-> h, root |-> r.root_hash])
        /\ p.links = r.links \cup { Link(h, new_root, LEFT), Link(r.root_hash, new_root, RIGHT) }
    BY <1>3
  <1>7. \A x : Count(p, x) = Count(r, x) + (IF x = h THEN 1 ELSE 0)
                                         + (IF x = new_root THEN 1 ELSE 0)
    BY <1>1, <1>2, <1>4
  <1> QED  BY <1>1, <1>5, <1>6, <1>7 DEF p, new_root

LEMMA PopFacts ==
    ASSUME NEW r, IsLookup(r)
    PROVE  LET p == PopFrom(r)
           IN  /\ IsLookup(p)
               /\ p.root_hash = Top(r).root
               /\ p.read_stack = SubSeq(r.read_stack, 1, Len(r.read_stack) - 1)
               /\ p.links = r.links
               /\ \A x : Count(p, x) = Count(r, x) - (IF x = Top(r).obj THEN 1 ELSE 0)
                                                   - (IF x = r.root_hash THEN 1 ELSE 0)
               /\ \A x : Count(r, x) \in Int
  <1> DEFINE b1 == Bump(r, Top(r).obj, -1)
             b2 == Bump(b1, r.root_hash, -1)
             p  == PopFrom(r)
             front == SubSeq(r.read_stack, 1, Len(r.read_stack) - 1)
  <1>1. /\ IsLookup(b1)
        /\ b1.links = r.links
        /\ \A x : Count(b1, x) = Count(r, x) + (IF x = Top(r).obj THEN -1 ELSE 0)
        /\ \A x : Count(r, x) \in Int
    BY BumpFacts
  <1>2. /\ IsLookup(b2)
        /\ b2.links = b1.links
        /\ \A x : Count(b2, x) = Count(b1, x) + (IF x = r.root_hash THEN -1 ELSE 0)
    <2> HIDE DEF b1
    <2> QED  BY <1>1, BumpFacts
  <1>3. p = [root_hash |-> Top(r).root, read_stack |-> front,
             count |-> b2.count, links |-> r.links]
    <2>1. p = [b2 EXCEPT !.read_stack = front, !.root_hash = Top(r).root]
      BY DEF PopFrom
    <2> HIDE DEF b1, b2, p, front
    <2> QED  BY <2>1, <1>1, <1>2 DEF IsLookup
  <1> HIDE DEF b1, b2, front, p
  <1>4. \A x : Count(p, x) = Count(b2, x)
    BY <1>3 DEF Count
  <1>5. IsLookup(p)
    BY <1>3, <1>2 DEF IsLookup
  <1>6. p.root_hash = Top(r).root /\ p.read_stack = front /\ p.links = r.links
    BY <1>3
  <1>7. \A x : Count(p, x) = Count(r, x) - (IF x = Top(r).obj THEN 1 ELSE 0)
                                         - (IF x = r.root_hash THEN 1 ELSE 0)
    BY <1>1, <1>2, <1>4
  <1> QED  BY <1>1, <1>5, <1>6, <1>7 DEF p, front

-----------------------------------------------------------------------------
(***************************************************************************)
(* The inductive invariant, on the record.  Covered is needed for every    *)
(* hash at once: what a pop uncovers may be any of them.                   *)
(***************************************************************************)
Good(r) == /\ ShapeOK(r)
           /\ Chained(r)
           /\ \A h : Covered(r, h)
           /\ \A l \in r.links : JoinsChild(r, l)

\* The index sets are finite, and counting an index more or less is +1 or -1.
LEMMA IndexSets ==
    ASSUME NEW r, Len(r.read_stack) \in Nat, NEW h
    PROVE  /\ IsFiniteSet(OnStack(r, h)) /\ Cardinality(OnStack(r, h)) \in Nat
           /\ IsFiniteSet(Spine(r, h)) /\ Cardinality(Spine(r, h)) \in Nat
  <1>1. IsFiniteSet(1..Len(r.read_stack))
    BY FS_Interval
  <1>2. OnStack(r, h) \subseteq 1..Len(r.read_stack) /\ Spine(r, h) \subseteq 1..Len(r.read_stack)
    BY DEF OnStack, Spine, StackIndices
  <1> QED  BY <1>1, <1>2, FS_Subset, FS_CardinalityType

LEMMA OneMore ==
    ASSUME NEW S, IsFiniteSet(S), NEW n, n \notin S, NEW P \in BOOLEAN
    PROVE  Cardinality(IF P THEN S \cup {n} ELSE S) = Cardinality(S) + (IF P THEN 1 ELSE 0)
  <1> USE FS_CardinalityType
  <1>1. CASE P
    BY <1>1, FS_AddElement
  <1>2. CASE ~P
    BY <1>2
  <1> QED  BY <1>1, <1>2

LEMMA OneLess ==
    ASSUME NEW S, IsFiniteSet(S), NEW n, NEW P \in BOOLEAN, n \in S <=> P
    PROVE  Cardinality(S \ {n}) = Cardinality(S) - (IF P THEN 1 ELSE 0)
  <1> USE FS_CardinalityType
  <1>1. CASE P
    BY <1>1, FS_RemoveElement
  <1>2. CASE ~P
    <2>1. S \ {n} = S
      BY <1>2
    <2> QED  BY <1>2, <2>1, SMTT(30)
  <1> QED  BY <1>1, <1>2

\* Covered counts are natural numbers.
LEMMA CoveredIsNat ==
    ASSUME NEW r, IsLookup(r), Len(r.read_stack) \in Nat, \A h : Covered(r, h)
    PROVE  r.count \in [DOMAIN r.count -> Nat]
  <1>1. ASSUME NEW h \in DOMAIN r.count PROVE r.count[h] \in Nat
    <2>1. Covered(r, h) /\ Count(r, h) = r.count[h] /\ r.count[h] \in Int
      BY <1>1 DEF Count, IsLookup
    <2>2. Cardinality(OnStack(r, h)) \in Nat /\ Cardinality(Spine(r, h)) \in Nat
      BY IndexSets
    <2> QED  BY <2>1, <2>2 DEF Covered
  <1> QED  BY <1>1 DEF IsLookup

LEMMA ShapeIsLookup ==
    ASSUME NEW r, ShapeOK(r)
    PROVE  IsLookup(r)
  BY DEF ShapeOK, IsLookup

\* The references to h beyond its places on the stack and the suffixes of the
\* stack that it is: those of the pairs it was consed into.
Extra(r, h) == Count(r, h) - Cardinality(OnStack(r, h)) - Cardinality(Spine(r, h))

LEMMA CoveredIsExtra ==
    ASSUME NEW r, IsLookup(r), Len(r.read_stack) \in Nat, NEW h
    PROVE  Extra(r, h) \in Int /\ (Covered(r, h) <=> Extra(r, h) >= 0)
  <1>1. Count(r, h) \in Int
    BY DEF IsLookup, Count
  <1>2. Cardinality(OnStack(r, h)) \in Nat /\ Cardinality(Spine(r, h)) \in Nat
    BY IndexSets
  <1> QED  BY <1>1, <1>2 DEF Covered, Extra

\* What a push does to the stack, and that it changes no Extra.
LEMMA PushStack ==
    ASSUME NEW r, Good(r), NEW h
    PROVE  LET p == PushTo(r, h)
               n == Len(r.read_stack)
               new_root == HashPair(h, r.root_hash)
           IN  /\ p.read_stack \in Seq(Range(p.read_stack))
               /\ Len(p.read_stack) = n + 1 /\ n \in Nat
               /\ \A i \in 1..n : p.read_stack[i] = r.read_stack[i]
               /\ p.read_stack[n + 1] = [obj |-> h, root |-> r.root_hash]
               /\ RootAfter(p, n + 1) = new_root
               /\ \A i \in 0..n : RootAfter(p, i) = RootAfter(r, i)
               /\ \A x : Extra(p, x) = Extra(r, x)
  <1> DEFINE p == PushTo(r, h)
             n == Len(r.read_stack)
             new_root == HashPair(h, r.root_hash)
             entry == [obj |-> h, root |-> r.root_hash]
  <1>1. /\ IsLookup(p)
        /\ p.root_hash = new_root
        /\ p.read_stack = Append(r.read_stack, entry)
        /\ p.links = r.links \cup { Link(h, new_root, LEFT), Link(r.root_hash, new_root, RIGHT) }
        /\ \A x : Count(p, x) = Count(r, x) + (IF x = h THEN 1 ELSE 0)
                                            + (IF x = new_root THEN 1 ELSE 0)
        /\ \A x : Count(r, x) \in Int
    BY ShapeIsLookup, PushFacts DEF Good
  <1> HIDE DEF p
  <1>2. /\ p.read_stack \in Seq(Range(p.read_stack))
        /\ Len(p.read_stack) = n + 1
        /\ \A i \in 1..n : p.read_stack[i] = r.read_stack[i]
        /\ p.read_stack[n + 1] = entry
        /\ n \in Nat
    <2>1. r.read_stack \in Seq(Range(r.read_stack))
      BY DEF Good, ShapeOK
    <2> HIDE DEF entry, n
    <2> QED  BY <1>1, <2>1, AppendFacts DEF n
  <1>3. /\ RootAfter(p, n + 1) = new_root
        /\ \A i \in 0..n : RootAfter(p, i) = RootAfter(r, i)
    <2>1. RootAfter(p, n + 1) = new_root
      BY <1>1, <1>2 DEF RootAfter
    <2>2. ASSUME NEW i \in 0..n PROVE RootAfter(p, i) = RootAfter(r, i)
      <3>1. CASE i = n
        BY <1>2, <3>1 DEF RootAfter
      <3>2. CASE i # n
        BY <1>2, <3>2, SMTT(30) DEF RootAfter
      <3> QED  BY <3>1, <3>2
    <2> QED  BY <2>1, <2>2
  <1>4. ASSUME NEW x PROVE Extra(p, x) = Extra(r, x)
    <2>1. OnStack(p, x) = IF x = h THEN OnStack(r, x) \cup {n + 1} ELSE OnStack(r, x)
      <3>1. p.read_stack[n + 1].obj = h
        BY <1>2
      <3> HIDE DEF n, entry
      <3> QED  BY <1>2, <3>1 DEF OnStack, StackIndices, n
    <2>2. Spine(p, x) = IF x = new_root THEN Spine(r, x) \cup {n + 1} ELSE Spine(r, x)
      <3> HIDE DEF n, entry, new_root
      <3> QED  BY <1>2, <1>3 DEF Spine, StackIndices, n
    <2>3. n + 1 \notin OnStack(r, x) /\ n + 1 \notin Spine(r, x)
      BY <1>2 DEF OnStack, Spine, StackIndices
    <2>4. /\ IsFiniteSet(OnStack(r, x)) /\ Cardinality(OnStack(r, x)) \in Nat
          /\ IsFiniteSet(Spine(r, x)) /\ Cardinality(Spine(r, x)) \in Nat
      BY <1>2, IndexSets
    <2>5. Cardinality(OnStack(p, x)) = Cardinality(OnStack(r, x)) + (IF x = h THEN 1 ELSE 0)
      BY <2>1, <2>3, <2>4, OneMore
    <2>6. Cardinality(Spine(p, x)) = Cardinality(Spine(r, x)) + (IF x = new_root THEN 1 ELSE 0)
      BY <2>2, <2>3, <2>4, OneMore
    <2>7. Count(r, x) \in Int /\ Count(p, x) = Count(r, x) + (IF x = h THEN 1 ELSE 0)
                                                         + (IF x = new_root THEN 1 ELSE 0)
      BY <1>1
    <2> HIDE DEF new_root, n, entry
    <2> QED  BY <2>4, <2>5, <2>6, <2>7 DEF Extra
  <1> HIDE DEF n, new_root
  <1>5. /\ p.read_stack[n + 1] = [obj |-> h, root |-> r.root_hash]
    BY <1>2 DEF entry
  <1> HIDE DEF entry
  <1> QED  BY <1>2, <1>3, <1>4, <1>5 DEF p, n, new_root

LEMMA PushKeepsGood ==
    ASSUME NEW r, Good(r), NEW h
    PROVE  Good(PushTo(r, h))
  <1> DEFINE p == PushTo(r, h)
             n == Len(r.read_stack)
             new_root == HashPair(h, r.root_hash)
             entry == [obj |-> h, root |-> r.root_hash]
  <1>1. /\ IsLookup(p)
        /\ p.root_hash = new_root
        /\ p.read_stack = Append(r.read_stack, entry)
        /\ p.links = r.links \cup { Link(h, new_root, LEFT), Link(r.root_hash, new_root, RIGHT) }
        /\ \A x : Count(p, x) = Count(r, x) + (IF x = h THEN 1 ELSE 0)
                                            + (IF x = new_root THEN 1 ELSE 0)
        /\ \A x : Count(r, x) \in Int
    BY ShapeIsLookup, PushFacts DEF Good
  <1> HIDE DEF p
  <1>2. /\ p.read_stack \in Seq(Range(p.read_stack))
        /\ Len(p.read_stack) = n + 1 /\ n \in Nat
        /\ \A i \in 1..n : p.read_stack[i] = r.read_stack[i]
        /\ p.read_stack[n + 1] = entry
        /\ \A x : Extra(p, x) = Extra(r, x)
    BY PushStack DEF p
  <1>3. /\ RootAfter(p, n + 1) = new_root
        /\ \A i \in 0..n : RootAfter(p, i) = RootAfter(r, i)
    BY PushStack DEF p
  <1>4. Chained(p)
    <2>1. RootAfter(p, 0) = HashAtom(<<>>)
      BY <1>2, <1>3 DEF Good, Chained
    <2>2. ASSUME NEW i \in 1..(n + 1)
          PROVE  RootAfter(p, i) = HashPair(p.read_stack[i].obj, RootAfter(p, i - 1))
      <3>1. CASE i = n + 1
        <4>1. RootAfter(p, i - 1) = r.root_hash
          BY <1>2, <1>3, <3>1 DEF RootAfter
        <4> QED  BY <1>2, <1>3, <3>1, <4>1
      <3>2. CASE i # n + 1
        <4>1. i \in 1..n /\ i \in 0..n /\ i - 1 \in 0..n
          BY <1>2, <3>2
        <4>2. RootAfter(r, i) = HashPair(r.read_stack[i].obj, RootAfter(r, i - 1))
          BY <4>1 DEF Good, Chained, StackIndices
        <4> QED  BY <1>2, <1>3, <4>1, <4>2
      <3> QED  BY <3>1, <3>2
    <2> HIDE DEF n
    <2> QED  BY <1>2, <2>1, <2>2 DEF Chained, StackIndices
  <1>5. ASSUME NEW x PROVE Covered(p, x)
    <2>1. Covered(r, x) /\ IsLookup(r)
      BY ShapeIsLookup DEF Good
    <2>2. Len(p.read_stack) \in Nat /\ Len(r.read_stack) \in Nat
      BY <1>2
    <2>3. Extra(r, x) >= 0 /\ Extra(p, x) = Extra(r, x)
      BY <1>2, <2>1, <2>2, CoveredIsExtra
    <2> QED  BY <1>1, <2>2, <2>3, CoveredIsExtra
  <1>6. ASSUME NEW l \in p.links
        PROVE  JoinsChild(p, l) /\ l = Link(l.child, l.parent, l.dir) /\ l.dir \in {LEFT, RIGHT}
    <2>1. /\ Link(h, new_root, LEFT) \in p.links
          /\ Link(r.root_hash, new_root, RIGHT) \in p.links
      BY <1>1
    <2>2. h \in { k.child : k \in p.links } /\ r.root_hash \in { k.child : k \in p.links }
      BY <2>1 DEF Link
    <2>3. CASE l \in r.links
      <3>1. JoinsChild(r, l) /\ l = Link(l.child, l.parent, l.dir) /\ l.dir \in {LEFT, RIGHT}
        BY <2>3 DEF Good, ShapeOK
      <3>2. { k.child : k \in r.links } \subseteq { k.child : k \in p.links }
        BY <1>1
      <3> QED  BY <3>1, <3>2 DEF JoinsChild
    <2>4. CASE l = Link(h, new_root, LEFT)
      BY <2>2, <2>4 DEF JoinsChild, Link, LEFT, RIGHT
    <2>5. CASE l = Link(r.root_hash, new_root, RIGHT)
      BY <2>2, <2>5 DEF JoinsChild, Link, LEFT, RIGHT
    <2> QED  BY <1>1, <2>3, <2>4, <2>5
  <1>7. p.count \in [DOMAIN p.count -> Nat]
    BY <1>1, <1>2, <1>5, CoveredIsNat
  <1>8. ShapeOK(p)
    BY <1>1, <1>2, <1>6, <1>7 DEF ShapeOK, IsLookup
  <1> QED  BY <1>4, <1>5, <1>6, <1>8 DEF Good, p

\* What a pop does to the stack, and that it changes no Extra.
LEMMA PopStack ==
    ASSUME NEW r, Good(r), Len(r.read_stack) > 0
    PROVE  LET p == PopFrom(r)
               n == Len(r.read_stack)
           IN  /\ p.read_stack \in Seq(Range(p.read_stack))
               /\ Len(p.read_stack) = n - 1 /\ n \in Nat \ {0}
               /\ \A i \in 1..(n - 1) : p.read_stack[i] = r.read_stack[i]
               /\ \A i \in 0..(n - 1) : RootAfter(p, i) = RootAfter(r, i)
               /\ \A x : Extra(p, x) = Extra(r, x)
  <1> DEFINE p == PopFrom(r)
             n == Len(r.read_stack)
  <1>1. /\ IsLookup(p)
        /\ p.root_hash = Top(r).root
        /\ p.read_stack = SubSeq(r.read_stack, 1, Len(r.read_stack) - 1)
        /\ p.links = r.links
        /\ \A x : Count(p, x) = Count(r, x) - (IF x = Top(r).obj THEN 1 ELSE 0)
                                            - (IF x = r.root_hash THEN 1 ELSE 0)
        /\ \A x : Count(r, x) \in Int
    BY ShapeIsLookup, PopFacts DEF Good
  <1> HIDE DEF p
  <1>2. /\ p.read_stack \in Seq(Range(p.read_stack))
        /\ Len(p.read_stack) = n - 1
        /\ \A i \in 1..(n - 1) : p.read_stack[i] = r.read_stack[i]
        /\ n \in Nat \ {0}
    <2>1. r.read_stack \in Seq(Range(r.read_stack))
      BY DEF Good, ShapeOK
    <2> QED  BY <1>1, <2>1, FrontFacts
  <1> HIDE DEF n
  <1>3. \A i \in 0..(n - 1) : RootAfter(p, i) = RootAfter(r, i)
    <2>1. ASSUME NEW i \in 0..(n - 1) PROVE RootAfter(p, i) = RootAfter(r, i)
      <3>1. CASE i = n - 1
        BY <1>1, <1>2, <3>1 DEF RootAfter, Top, n
      <3>2. CASE i # n - 1
        <4>1. i + 1 \in 1..(n - 1) /\ i # n
          BY <1>2, <3>2
        <4>2. p.read_stack[i + 1] = r.read_stack[i + 1]
          BY <1>2, <4>1
        <4> QED  BY <1>2, <3>2, <4>1, <4>2 DEF RootAfter, n
      <3> QED  BY <3>1, <3>2
    <2> QED  BY <2>1
  <1>4. ASSUME NEW x PROVE Extra(p, x) = Extra(r, x)
    <2>1. OnStack(p, x) = OnStack(r, x) \ {n}
      BY <1>2 DEF OnStack, StackIndices, n
    <2>2. Spine(p, x) = Spine(r, x) \ {n}
      BY <1>2, <1>3 DEF Spine, StackIndices, n
    <2>3. n \in OnStack(r, x) <=> (x = Top(r).obj)
      BY <1>2 DEF OnStack, StackIndices, Top, n
    <2>4. n \in Spine(r, x) <=> (x = r.root_hash)
      BY <1>2 DEF Spine, StackIndices, RootAfter, n
    <2>5. /\ IsFiniteSet(OnStack(r, x)) /\ Cardinality(OnStack(r, x)) \in Nat
          /\ IsFiniteSet(Spine(r, x)) /\ Cardinality(Spine(r, x)) \in Nat
      BY <1>2, IndexSets DEF n
    <2>6. Cardinality(OnStack(p, x)) = Cardinality(OnStack(r, x)) - (IF x = Top(r).obj THEN 1 ELSE 0)
      BY <2>1, <2>3, <2>5, OneLess
    <2>7. Cardinality(Spine(p, x)) = Cardinality(Spine(r, x)) - (IF x = r.root_hash THEN 1 ELSE 0)
      BY <2>2, <2>4, <2>5, OneLess
    <2>8. Count(r, x) \in Int /\ Count(p, x) = Count(r, x) - (IF x = Top(r).obj THEN 1 ELSE 0)
                                                         - (IF x = r.root_hash THEN 1 ELSE 0)
      BY <1>1
    <2> QED  BY <2>5, <2>6, <2>7, <2>8 DEF Extra
  <1> QED  BY <1>2, <1>3, <1>4 DEF p, n

LEMMA PopKeepsGood ==
    ASSUME NEW r, Good(r), Len(r.read_stack) > 0
    PROVE  Good(PopFrom(r))
  <1> DEFINE p == PopFrom(r)
             n == Len(r.read_stack)
  <1>1. /\ IsLookup(p)
        /\ p.root_hash = Top(r).root
        /\ p.read_stack = SubSeq(r.read_stack, 1, Len(r.read_stack) - 1)
        /\ p.links = r.links
        /\ \A x : Count(p, x) = Count(r, x) - (IF x = Top(r).obj THEN 1 ELSE 0)
                                            - (IF x = r.root_hash THEN 1 ELSE 0)
        /\ \A x : Count(r, x) \in Int
    BY ShapeIsLookup, PopFacts DEF Good
  <1> HIDE DEF p
  <1>2. /\ p.read_stack \in Seq(Range(p.read_stack))
        /\ Len(p.read_stack) = n - 1
        /\ \A i \in 1..(n - 1) : p.read_stack[i] = r.read_stack[i]
        /\ n \in Nat \ {0}
        /\ \A x : Extra(p, x) = Extra(r, x)
    BY PopStack DEF p
  <1>3. \A i \in 0..(n - 1) : RootAfter(p, i) = RootAfter(r, i)
    BY PopStack DEF p
  <1> HIDE DEF n
  <1>4. Chained(p)
    <2>1. RootAfter(p, 0) = HashAtom(<<>>)
      BY <1>2, <1>3 DEF Good, Chained
    <2>2. ASSUME NEW i \in 1..(n - 1)
          PROVE  RootAfter(p, i) = HashPair(p.read_stack[i].obj, RootAfter(p, i - 1))
      <3>1. i \in 1..n /\ i \in 0..(n - 1) /\ i - 1 \in 0..(n - 1)
        BY <1>2
      <3>2. RootAfter(r, i) = HashPair(r.read_stack[i].obj, RootAfter(r, i - 1))
        BY <3>1 DEF Good, Chained, StackIndices, n
      <3> QED  BY <1>2, <1>3, <3>1, <3>2
    <2> QED  BY <1>2, <2>1, <2>2 DEF Chained, StackIndices
  <1>5. ASSUME NEW x PROVE Covered(p, x)
    <2>1. Covered(r, x) /\ IsLookup(r)
      BY ShapeIsLookup DEF Good
    <2>2. Len(p.read_stack) \in Nat /\ Len(r.read_stack) \in Nat
      BY <1>2 DEF n
    <2>3. Extra(r, x) >= 0 /\ Extra(p, x) = Extra(r, x)
      BY <1>2, <2>1, <2>2, CoveredIsExtra
    <2> QED  BY <1>1, <2>2, <2>3, CoveredIsExtra
  <1>6. p.count \in [DOMAIN p.count -> Nat]
    BY <1>1, <1>2, <1>5, CoveredIsNat
  <1>7. ShapeOK(p) /\ \A l \in p.links : JoinsChild(p, l)
    BY <1>1, <1>2, <1>6 DEF ShapeOK, IsLookup, Good, JoinsChild
  <1> QED  BY <1>4, <1>5, <1>7 DEF Good, p

\* The middle of pop2_and_cons: the children of the new pair are counted, and
\* linked to it.
Linked(r, left, right) ==
    LET counted == Bump(Bump(r, left, 1), right, 1)
        cons    == HashPair(left, right)
    IN  [counted EXCEPT !.links = @ \cup { Link(left, cons, LEFT), Link(right, cons, RIGHT) }]

\* The stack is what it was; each child has one reference more.
LEMMA LinkStack ==
    ASSUME NEW r, Good(r), NEW left, NEW right
    PROVE  LET p == Linked(r, left, right)
               cons == HashPair(left, right)
           IN  /\ IsLookup(p)
               /\ p.root_hash = r.root_hash /\ p.read_stack = r.read_stack
               /\ p.links = r.links \cup { Link(left, cons, LEFT), Link(right, cons, RIGHT) }
               /\ \A i : RootAfter(p, i) = RootAfter(r, i)
               /\ \A x : Extra(p, x) = Extra(r, x) + (IF x = left THEN 1 ELSE 0)
                                                   + (IF x = right THEN 1 ELSE 0)
               /\ DOMAIN p.count = DOMAIN r.count \cup {left, right}
  <1> DEFINE b1 == Bump(r, left, 1)
             b2 == Bump(b1, right, 1)
             cons == HashPair(left, right)
             two == { Link(left, cons, LEFT), Link(right, cons, RIGHT) }
             p  == [b2 EXCEPT !.links = @ \cup two]
  <1>1. /\ IsLookup(b1)
        /\ b1.root_hash = r.root_hash /\ b1.read_stack = r.read_stack /\ b1.links = r.links
        /\ \A x : Count(b1, x) = Count(r, x) + (IF x = left THEN 1 ELSE 0)
        /\ \A x : Count(r, x) \in Int
        /\ DOMAIN b1.count = DOMAIN r.count \cup {left}
    BY ShapeIsLookup, BumpFacts, BumpDomain DEF Good
  <1> HIDE DEF b1
  <1>2. /\ IsLookup(b2)
        /\ b2.root_hash = b1.root_hash /\ b2.read_stack = b1.read_stack /\ b2.links = b1.links
        /\ \A x : Count(b2, x) = Count(b1, x) + (IF x = right THEN 1 ELSE 0)
        /\ DOMAIN b2.count = DOMAIN b1.count \cup {right}
    BY <1>1, BumpFacts, BumpDomain
  <1> HIDE DEF b2
  <1>3. p = [root_hash |-> r.root_hash, read_stack |-> r.read_stack,
             count |-> b2.count, links |-> r.links \cup two]
    <2> HIDE DEF two
    <2>1. b2 = [root_hash |-> r.root_hash, read_stack |-> r.read_stack,
                count |-> b2.count, links |-> r.links]
      BY <1>1, <1>2 DEF IsLookup
    <2>2. p = [b2 EXCEPT !.links = r.links \cup two]
      BY <1>1, <1>2
    <2> HIDE DEF p
    <2> QED  BY <2>1, <2>2
  <1> HIDE DEF p
  <1>4. IsLookup(p) /\ \A x : Count(p, x) = Count(b2, x)
    BY <1>2, <1>3 DEF IsLookup, Count
  <1>5. /\ p.root_hash = r.root_hash /\ p.read_stack = r.read_stack
        /\ p.links = r.links \cup two
    BY <1>3
  <1>6. Len(r.read_stack) \in Nat /\ r.read_stack \in Seq(Range(r.read_stack))
    BY DEF Good, ShapeOK
  <1>7. \A i : RootAfter(p, i) = RootAfter(r, i)
    BY <1>5 DEF RootAfter
  <1>8. ASSUME NEW x
        PROVE  Extra(p, x) = Extra(r, x) + (IF x = left THEN 1 ELSE 0) + (IF x = right THEN 1 ELSE 0)
    <2>1. OnStack(p, x) = OnStack(r, x) /\ Spine(p, x) = Spine(r, x)
      BY <1>5, <1>7 DEF OnStack, Spine, StackIndices
    <2>2. Cardinality(OnStack(r, x)) \in Nat /\ Cardinality(Spine(r, x)) \in Nat
      BY <1>6, IndexSets
    <2>3. Count(p, x) = Count(r, x) + (IF x = left THEN 1 ELSE 0) + (IF x = right THEN 1 ELSE 0)
      BY <1>1, <1>2, <1>4
    <2> QED  BY <1>1, <2>1, <2>2, <2>3 DEF Extra
  <1>9. DOMAIN p.count = DOMAIN r.count \cup {left, right}
    <2>1. p.count = b2.count
      BY <1>3
    <2> QED  BY <1>1, <1>2, <2>1
  <1>10. p = Linked(r, left, right)
    BY DEF p, b2, b1, Linked
  <1> QED  BY <1>4, <1>5, <1>7, <1>8, <1>9, <1>10

\* Counting more, and linking a pair to both of its children, keeps the
\* invariant: the stack is what it was.
LEMMA LinkKeepsGood ==
    ASSUME NEW r, Good(r), NEW left, NEW right
    PROVE  Good(Linked(r, left, right))
  <1> DEFINE p == Linked(r, left, right)
             cons == HashPair(left, right)
             two == { Link(left, cons, LEFT), Link(right, cons, RIGHT) }
  <1>1. /\ IsLookup(p)
        /\ p.root_hash = r.root_hash /\ p.read_stack = r.read_stack
        /\ p.links = r.links \cup two
        /\ \A i : RootAfter(p, i) = RootAfter(r, i)
        /\ \A x : Extra(p, x) = Extra(r, x) + (IF x = left THEN 1 ELSE 0)
                                            + (IF x = right THEN 1 ELSE 0)
    BY LinkStack
  <1> HIDE DEF p
  <1>2. Len(r.read_stack) \in Nat /\ r.read_stack \in Seq(Range(r.read_stack))
    BY DEF Good, ShapeOK
  <1>3. Chained(p)
    BY <1>1 DEF Good, Chained, StackIndices
  <1>4. ASSUME NEW x PROVE Covered(p, x)
    <2>1. Covered(r, x) /\ IsLookup(r)
      BY ShapeIsLookup DEF Good
    <2>2. Extra(r, x) \in Int /\ Extra(r, x) >= 0
      BY <1>2, <2>1, CoveredIsExtra
    <2>3. Extra(p, x) >= 0
      BY <1>1, <2>2
    <2>4. Len(p.read_stack) \in Nat
      BY <1>1, <1>2
    <2> QED  BY <1>1, <2>3, <2>4, CoveredIsExtra
  <1>5. ASSUME NEW l \in p.links
         PROVE  JoinsChild(p, l) /\ l = Link(l.child, l.parent, l.dir) /\ l.dir \in {LEFT, RIGHT}
    <2>1. left \in { k.child : k \in p.links } /\ right \in { k.child : k \in p.links }
      BY <1>1 DEF Link
    <2>2. CASE l \in r.links
      <3>1. JoinsChild(r, l) /\ l = Link(l.child, l.parent, l.dir) /\ l.dir \in {LEFT, RIGHT}
        BY <2>2 DEF Good, ShapeOK
      <3>2. { k.child : k \in r.links } \subseteq { k.child : k \in p.links }
        BY <1>1
      <3> QED  BY <3>1, <3>2 DEF JoinsChild
    <2>3. CASE l = Link(left, cons, LEFT)
      BY <2>1, <2>3 DEF JoinsChild, Link, LEFT, RIGHT
    <2>4. CASE l = Link(right, cons, RIGHT)
      BY <2>1, <2>4 DEF JoinsChild, Link, LEFT, RIGHT
    <2> QED  BY <1>1, <2>2, <2>3, <2>4
  <1>6. p.count \in [DOMAIN p.count -> Nat]
    BY <1>1, <1>2, <1>4, CoveredIsNat
  <1>7. ShapeOK(p)
    BY <1>1, <1>2, <1>5, <1>6 DEF ShapeOK, IsLookup
  <1>8. Good(p)
    BY <1>3, <1>4, <1>5, <1>7 DEF Good
  <1> QED  BY <1>8 DEF p

LEMMA Pop2AndConsKeepsGood ==
    ASSUME NEW r, Good(r), Len(r.read_stack) >= 2
    PROVE  Good(Pop2AndConsOn(r))
  <1> DEFINE right   == Top(r).obj
             left    == Top(PopFrom(r)).obj
             popped  == PopFrom(PopFrom(r))
             cons    == HashPair(left, right)
             linked  == Linked(popped, left, right)
  <1>1. Len(r.read_stack) \in Nat /\ r.read_stack \in Seq(Range(r.read_stack))
    BY DEF Good, ShapeOK
  <1>2. Good(PopFrom(r))
    BY <1>1, PopKeepsGood
  <1>3. PopFrom(r).read_stack = SubSeq(r.read_stack, 1, Len(r.read_stack) - 1)
    BY ShapeIsLookup, PopFacts DEF Good
  <1>4. Len(PopFrom(r).read_stack) = Len(r.read_stack) - 1
    BY <1>1, <1>3, FrontFacts
  <1>5. Good(popped)
    BY <1>1, <1>2, <1>4, PopKeepsGood
  <1>6. Good(linked)
    <2> HIDE DEF popped, left, right
    <2> QED  BY <1>5, LinkKeepsGood
  <1>7. Good(PushTo(linked, cons))
    <2> HIDE DEF linked, cons
    <2> QED  BY <1>6, PushKeepsGood
  <1> QED  BY <1>7 DEF Pop2AndConsOn, Linked

LEMMA NewIsGood == Good(NewLookup)
  <1> DEFINE r == NewLookup
  <1>1. r.read_stack = <<>> /\ r.links = {} /\ r.root_hash = HashAtom(<<>>) /\ DOMAIN r.count = {}
    BY DEF NewLookup
  <1>2. r.read_stack \in Seq(Range(r.read_stack)) /\ Len(r.read_stack) = 0
    BY <1>1
  <1>3. ShapeOK(r)
    <2>1. r.count \in [DOMAIN r.count -> Nat] /\ IsFiniteSet(DOMAIN r.count)
      BY <1>1, FS_EmptySet DEF NewLookup
    <2>2. r = [root_hash |-> r.root_hash, read_stack |-> r.read_stack,
               count |-> r.count, links |-> r.links]
      BY DEF NewLookup
    <2> HIDE DEF r
    <2> QED  BY <1>1, <1>2, <2>1, <2>2 DEF ShapeOK
  <1>4. Chained(r)
    BY <1>1, <1>2 DEF Chained, RootAfter, StackIndices
  <1>5. ASSUME NEW h PROVE Covered(r, h)
    <2>1. OnStack(r, h) = {} /\ Spine(r, h) = {}
      BY <1>2 DEF OnStack, Spine, StackIndices
    <2>2. Count(r, h) = 0
      BY <1>1 DEF Count
    <2> QED  BY <2>1, <2>2, FS_EmptySet DEF Covered
  <1> HIDE DEF r
  <1>6. Good(r)
    BY <1>1, <1>3, <1>4, <1>5 DEF Good
  <1> QED  BY <1>6 DEF r

-----------------------------------------------------------------------------
(***************************************************************************)
(* The search: every path it finds leads down from the root to the object. *)
(***************************************************************************)
\* q has the hashes that a path goes through, from h up to top.
IsTrail(q, h, path, top) ==
    /\ path \in Seq({LEFT, RIGHT})
    /\ q[0] = h /\ q[Len(path)] = top
    /\ \A i \in 1..Len(path) : IsPairHash(q[i]) /\ q[i].pair_hash[path[i] + 1] = q[i - 1]

HasTrail(h, path, top) == \E q : IsTrail(q, h, path, top)

LinksAreSound(r) == \A l \in r.links : JoinsChild(r, l) /\ l.dir \in {LEFT, RIGHT}

\* What the search may hold.  It leaves h only through an edge.
IsChild(r, h) == h \in { l.child : l \in r.links }
Nodes(r, h) == {h} \cup { l.parent : l \in r.links }
Climbs(r, h) == { p \in [node : Nodes(r, h), path : Seq({LEFT, RIGHT})] :
                     HasTrail(h, p.path, p.node) /\ (p.node = h \/ IsChild(r, h)) }
Arrivals(r, h) == { q \in Seq({LEFT, RIGHT}) :
                     HasTrail(h, q, r.root_hash) /\ (r.root_hash = h \/ IsChild(r, h)) }
SearchStates(r, h) == [partial : SUBSET Climbs(r, h), seen : SUBSET Nodes(r, h),
                       valid : SUBSET Arrivals(r, h)]

LEMMA LinkJoins ==
    ASSUME NEW r, LinksAreSound(r), NEW l \in r.links
    PROVE  IsPairHash(l.parent) /\ l.parent.pair_hash[l.dir + 1] = l.child /\ l.dir \in {LEFT, RIGHT}
  <1>1. JoinsChild(r, l) /\ l.dir \in {LEFT, RIGHT}
    BY DEF LinksAreSound
  <1>2. PICK other : l.parent = IF l.dir = LEFT THEN HashPair(l.child, other)
                                                ELSE HashPair(other, l.child)
    BY <1>1 DEF JoinsChild
  <1>3. CASE l.dir = LEFT
    BY <1>2, <1>3 DEF HashPair, IsPairHash, LEFT, RIGHT
  <1>4. CASE l.dir = RIGHT
    BY <1>2, <1>4 DEF HashPair, IsPairHash, LEFT, RIGHT
  <1> QED  BY <1>1, <1>3, <1>4

LEMMA TrailGrows ==
    ASSUME NEW h, NEW path, NEW c, HasTrail(h, path, c), NEW top, NEW d \in {LEFT, RIGHT},
           IsPairHash(top), top.pair_hash[d + 1] = c
    PROVE  HasTrail(h, Append(path, d), top)
  <1>1. PICK q : IsTrail(q, h, path, c)
    BY DEF HasTrail
  <1> DEFINE n == Len(path)
             t == [i \in 0..(n + 1) |-> IF i = n + 1 THEN top ELSE q[i]]
             longer == Append(path, d)
  <1>2. n \in Nat /\ path \in Seq({LEFT, RIGHT})
    BY <1>1 DEF IsTrail
  <1>3. /\ longer \in Seq({LEFT, RIGHT}) /\ Len(longer) = n + 1
        /\ \A i \in 1..n : longer[i] = path[i]
        /\ longer[n + 1] = d
    BY <1>2
  <1>a. q[0] = h /\ q[n] = c /\ \A i \in 1..n : IsPairHash(q[i]) /\ q[i].pair_hash[path[i] + 1] = q[i - 1]
    BY <1>1 DEF IsTrail
  <1> HIDE DEF longer, n
  <1>4. t[0] = h /\ t[n + 1] = top
    BY <1>2, <1>a
  <1>5. ASSUME NEW i \in 1..(n + 1)
        PROVE  IsPairHash(t[i]) /\ t[i].pair_hash[longer[i] + 1] = t[i - 1]
    <2>1. CASE i = n + 1
      <3>1. t[i] = top /\ t[i - 1] = c /\ longer[i] = d
        BY <1>2, <1>3, <1>a, <2>1
      <3> HIDE DEF t
      <3> QED  BY <3>1
    <2>2. CASE i # n + 1
      <3>1. i \in 1..n /\ t[i] = q[i] /\ t[i - 1] = q[i - 1] /\ longer[i] = path[i]
        BY <1>2, <1>3, <2>2
      <3> HIDE DEF t
      <3> QED  BY <1>a, <3>1
    <2> QED  BY <2>1, <2>2
  <1> HIDE DEF t
  <1>6. IsTrail(t, h, longer, top)
    BY <1>3, <1>4, <1>5 DEF IsTrail
  <1> QED  BY <1>6 DEF HasTrail, longer

LEMMA SearchStep ==
    ASSUME NEW r, LinksAreSound(r), NEW h, NEW m, NEW s \in SearchStates(r, h)
    PROVE  NextLevel(r, m, s) \in SearchStates(r, h)
  <1> DEFINE arrived  == { p \in s.partial : p.node = r.root_hash }
             climbing == s.partial \ arrived
             ups      == { pl \in climbing \X r.links : pl[2].child = pl[1].node }
             Grow(u)  == [node |-> u[2].parent, path |-> Append(u[1].path, u[2].dir)]
             grown    == { Grow(u) : u \in { v \in ups : /\ Count(r, v[2].parent) > 0
                                                         /\ v[2].parent \notin s.seen } }
             overflow == \E p \in grown : Len(p.path) > m
             found    == s.valid \cup { p.path : p \in arrived }
             next     == [ partial |-> IF overflow \/ found # {} THEN {} ELSE grown,
                           seen    |-> s.seen \cup { u[2].parent : u \in ups },
                           valid   |-> IF overflow THEN {} ELSE found ]
  <1>1. s.partial \subseteq Climbs(r, h) /\ s.seen \subseteq Nodes(r, h) /\ s.valid \subseteq Arrivals(r, h)
    BY DEF SearchStates
  <1>2. found \subseteq Arrivals(r, h)
    <2>1. ASSUME NEW p \in arrived PROVE p.path \in Arrivals(r, h)
      BY <1>1 DEF Climbs, Arrivals
    <2> QED  BY <1>1, <2>1
  <1>3. ASSUME NEW u \in ups
        PROVE  Grow(u) \in Climbs(r, h) /\ u[2].parent \in Nodes(r, h)
    <2> DEFINE p == u[1]
               l == u[2]
    <2>1. p \in Climbs(r, h) /\ l \in r.links /\ l.child = p.node
      BY <1>1
    <2>2. p.path \in Seq({LEFT, RIGHT}) /\ HasTrail(h, p.path, p.node)
      BY <2>1 DEF Climbs
    <2>a. IsChild(r, h)
      <3>1. p.node = h \/ IsChild(r, h)
        BY <2>1 DEF Climbs
      <3> QED  BY <2>1, <3>1 DEF IsChild
    <2> HIDE DEF p, l
    <2>3. IsPairHash(l.parent) /\ l.parent.pair_hash[l.dir + 1] = p.node /\ l.dir \in {LEFT, RIGHT}
      BY <2>1, LinkJoins
    <2>4. HasTrail(h, Append(p.path, l.dir), l.parent)
      BY <2>2, <2>3, TrailGrows
    <2>5. Append(p.path, l.dir) \in Seq({LEFT, RIGHT})
      BY <2>2, <2>3
    <2>6. l.parent \in Nodes(r, h)
      BY <2>1 DEF Nodes
    <2> DEFINE path == Append(p.path, l.dir)
               g == [node |-> l.parent, path |-> path]
    <2>7. g \in Climbs(r, h)
      <3> HIDE DEF path
      <3>1. path \in Seq({LEFT, RIGHT}) /\ HasTrail(h, path, l.parent)
        BY <2>4, <2>5 DEF path
      <3> QED  BY <2>6, <2>a, <3>1 DEF Climbs
    <2> QED  BY <2>6, <2>7 DEF p, l
  <1>4. grown \subseteq Climbs(r, h)
    <2> HIDE DEF ups, Grow
    <2> QED  BY <1>3
  <1>5. { u[2].parent : u \in ups } \subseteq Nodes(r, h)
    <2> HIDE DEF ups
    <2> QED  BY <1>3
  <1>6. NextLevel(r, m, s) = next
    BY DEF NextLevel
  <1> DEFINE more == { u[2].parent : u \in ups }
  <1> HIDE DEF overflow, found, grown, more
  <1>7. next \in SearchStates(r, h)
    BY <1>1, <1>2, <1>4, <1>5 DEF SearchStates, more
  <1> QED  BY <1>6, <1>7

MaxPath(n) == (n - 2) * 8 - 1
SearchStart(h) == [partial |-> {[node |-> h, path |-> <<>>]}, seen |-> {h}, valid |-> {}]
SearchTurn(r, m, s) == IF s.partial = {} THEN s ELSE NextLevel(r, m, s)

\* Sets of search states, one for each level, that the turns of the loop go
\* through: the search ends in the set of the last level.
LEMMA SearchReaches ==
    ASSUME NEW r, IsFiniteSet(DOMAIN r.count), NEW h, NEW n, ~(n < 3), NEW I,
           SearchStart(h) \in I[0],
           \A k \in Nat : \A s \in I[k] : SearchTurn(r, MaxPath(n), s) \in I[k + 1]
    PROVE  \E s \in I[Cardinality(DOMAIN r.count) + 2] : FindPaths(r, h, n) = s.valid
  <1> DEFINE m == MaxPath(n)
             start == SearchStart(h)
             S == UNION { I[k] : k \in Nat }
             Step(s) == SearchTurn(r, m, s)
             A == SUBSET S
             a == {start}
             IsL(l) == l = [k \in Nat |-> IF k = 0 THEN a ELSE { Step(s) : s \in l[k - 1] }]
             level == CHOOSE l : IsL(l)
             K == Cardinality(DOMAIN r.count) + 2
  <1>1. FindPaths(r, h, n) = UNION { s.valid : s \in level[K] }
    BY DEF FindPaths, MaxPath, SearchStart, SearchTurn
  <1>2. start \in S
    OBVIOUS
  <1>3. \A s \in S : Step(s) \in S
    <2>1. ASSUME NEW k \in Nat, NEW s \in I[k] PROVE Step(s) \in S
      <3>1. Step(s) \in I[k + 1] /\ k + 1 \in Nat
        OBVIOUS
      <3> QED  BY <3>1
    <2> QED  BY <2>1
  <1>4. K \in Nat
    BY FS_CardinalityType
  <1>a. start \in I[0] /\ \A k \in Nat : \A s \in I[k] : Step(s) \in I[k + 1]
    OBVIOUS
  <1> HIDE DEF m, start, S, Step, K
  <1>5. \A k \in Nat : level[k] = IF k = 0 THEN a ELSE { Step(s) : s \in level[k - 1] }
    <2> DEFINE B == [k \in Nat |-> [x \in A |-> { Step(s) : s \in x }]]
               D == [k \in Nat |-> k - 1]
               Z == {0}
    <2>1. ASSUME NEW x \in A PROVE { Step(s) : s \in x } \in A
      BY <1>3
    <2>2. \A k \in Nat, x \in A : B[k][x] = { Step(s) : s \in x } /\ B[k][x] \in A
      BY <2>1
    <2>3. a \in A
      BY <1>2
    <2>4. 0 \in Z /\ \A k \in Nat : k \in Z <=> k = 0
      OBVIOUS
    <2>5. \A k \in Nat : D[k] = k - 1 /\ (k \notin Z => D[k] \in 0..(k - 1))
      OBVIOUS
    <2> HIDE DEF A, B, D, Z, a
    <2>6. RecursesWithin(A, a, Z, D, B)
      BY <2>2, <2>3, <2>4, <2>5 DEF RecursesWithin
    <2>7. PICK g \in [Nat -> A] : \A k \in Nat : g[k] = IF k \in Z THEN a ELSE B[k][g[D[k]]]
      BY <2>6, RecursiveOnNat
    <2>8. ASSUME NEW k \in Nat
          PROVE  g[k] = IF k = 0 THEN a ELSE { Step(s) : s \in g[k - 1] }
      <3>1. CASE k = 0
        BY <2>4, <2>7, <3>1
      <3>2. CASE k # 0
        <4>1. k - 1 \in Nat
          BY <3>2
        <4>2. g[k - 1] \in A
          BY <4>1
        <4>3. B[k][g[k - 1]] = { Step(s) : s \in g[k - 1] }
          BY <2>2, <4>2
        <4>4. g[k] = B[k][g[k - 1]]
          BY <2>4, <2>5, <2>7, <3>2
        <4> QED  BY <3>2, <4>3, <4>4
      <3> QED  BY <3>1, <3>2
    <2>9. IsL(g)
      BY <2>8
    <2>10. IsL(level)
      <3> HIDE DEF IsL
      <3> QED  BY <2>9
    <2> HIDE DEF level
    <2>11. /\ level = [k \in Nat |-> level[k]]
           /\ \A k \in Nat : level[k] = IF k = 0 THEN a ELSE { Step(s) : s \in level[k - 1] }
      BY <2>10
    <2> QED  BY <2>11
  <1> HIDE DEF level
  <1> DEFINE T == { k \in Nat : \E s \in I[k] : level[k] = {s} }
  <1>6. 0 \in T
    BY <1>5, <1>a
  <1>7. ASSUME NEW k \in Nat, k \in T PROVE k + 1 \in T
    <2>1. k + 1 \in Nat /\ k + 1 # 0 /\ (k + 1) - 1 = k
      OBVIOUS
    <2>2. level[k + 1] = { Step(s) : s \in level[(k + 1) - 1] }
      BY <1>5, <2>1, Zenon
    <2>3. PICK s \in I[k] : level[k] = {s}
      BY <1>7
    <2>4. Step(s) \in I[k + 1] /\ level[k + 1] = {Step(s)}
      BY <1>a, <2>1, <2>2, <2>3
    <2> QED  BY <2>1, <2>4
  <1> HIDE DEF T
  <1>8. K \in T
    BY <1>4, <1>6, <1>7, SetInduction
  <1>9. PICK s \in I[K] : level[K] = {s}
    BY <1>8 DEF T
  <1>10. FindPaths(r, h, n) = s.valid
    BY <1>1, <1>9
  <1> QED  BY <1>9, <1>10 DEF K

LEMMA StartIsState ==
    ASSUME NEW r, NEW h
    PROVE  SearchStart(h) \in SearchStates(r, h)
  <1>1. IsTrail([i \in {0} |-> h], h, <<>>, h)
    BY DEF IsTrail
  <1>2. HasTrail(h, <<>>, h)
    BY <1>1 DEF HasTrail
  <1>3. h \in Nodes(r, h) /\ <<>> \in Seq({LEFT, RIGHT})
    BY DEF Nodes
  <1>4. [node |-> h, path |-> <<>>] \in Climbs(r, h)
    BY <1>2, <1>3 DEF Climbs
  <1> QED  BY <1>3, <1>4 DEF SearchStates, SearchStart

\* Every path that is found, for an object of any length, leads there.
LEMMA SearchFinds ==
    ASSUME NEW r, LinksAreSound(r), IsFiniteSet(DOMAIN r.count), NEW h, NEW n,
           NEW p \in FindPaths(r, h, n)
    PROVE  /\ HasTrail(h, p, r.root_hash) /\ p \in Seq({LEFT, RIGHT})
           /\ r.root_hash = h \/ IsChild(r, h)
  <1> DEFINE S == SearchStates(r, h)
             I == [k \in Nat |-> S]
  <1>1. ~(n < 3)
    BY DEF FindPaths
  <1>2. SearchStart(h) \in S
    BY StartIsState
  <1>3. \A s \in S : SearchTurn(r, MaxPath(n), s) \in S
    BY SearchStep DEF SearchTurn
  <1>4. Cardinality(DOMAIN r.count) + 2 \in Nat
    BY FS_CardinalityType
  <1> HIDE DEF S
  <1>5. SearchStart(h) \in I[0] /\ \A k \in Nat : \A s \in I[k] : SearchTurn(r, MaxPath(n), s) \in I[k + 1]
    BY <1>2, <1>3
  <1> HIDE DEF I
  <1>6. PICK s \in I[Cardinality(DOMAIN r.count) + 2] : FindPaths(r, h, n) = s.valid
    BY <1>1, <1>5, SearchReaches
  <1>7. s \in S
    BY <1>4 DEF I
  <1>8. p \in Arrivals(r, h)
    BY <1>6, <1>7 DEF S, SearchStates
  <1> QED  BY <1>8 DEF Arrivals

\* Going down the legs of a path's number meets the hashes of its trail.
LEMMA TrailLeads ==
    ASSUME NEW r, NEW h, NEW path, HasTrail(h, path, r.root_hash)
    PROVE  HashAt(r, Legs(PathNumber(path))) = h
  <1> DEFINE legs == Legs(PathNumber(path))
             L == Len(path)
             Goes(x, k) == IF IsPairHash(x) THEN x.pair_hash[legs[k] + 1] ELSE NoHash
             IsA(g) == g = [k \in 0..Len(legs) |-> IF k = 0 THEN r.root_hash ELSE Goes(g[k - 1], k)]
             at == CHOOSE g : IsA(g)
  <1>1. PICK q : IsTrail(q, h, path, r.root_hash)
    BY DEF HasTrail
  <1>2. path \in Seq({LEFT, RIGHT}) /\ L \in Nat
    BY <1>1 DEF IsTrail
  <1>3. IsReversed(legs, path, L)
    BY <1>2, LegsOfPath, Zenon
  <1>4. HashAt(r, legs) = at[Len(legs)]
    BY DEF HashAt
  <1> HIDE DEF legs, L
  <1>5. Len(legs) = L /\ \A i \in 1..L : legs[i] = path[L + 1 - i]
    BY <1>3 DEF IsReversed
  <1>6. /\ q[0] = h /\ q[L] = r.root_hash
        /\ \A i \in 1..L : IsPairHash(q[i]) /\ q[i].pair_hash[path[i] + 1] = q[i - 1]
    BY <1>1 DEF IsTrail, L
  <1>7. ASSUME NEW k \in 1..L PROVE Goes(q[L - (k - 1)], k) = q[L - k]
    <2> DEFINE i == L + 1 - k
    <2>1. i \in 1..L /\ L - (k - 1) = i /\ L - k = i - 1 /\ legs[k] = path[i]
      BY <1>2, <1>5
    <2> HIDE DEF i
    <2> QED  BY <1>6, <2>1
  <1> HIDE DEF Goes
  <1>8. IsA(at)
    <2> DEFINE g == [k \in 0..L |-> q[L - k]]
    <2>1. ASSUME NEW k \in 0..L
          PROVE  g[k] = IF k = 0 THEN r.root_hash ELSE Goes(g[k - 1], k)
      <3>1. CASE k = 0
        BY <1>2, <1>6, <3>1
      <3>2. CASE k # 0
        <4>1. k \in 1..L /\ g[k] = q[L - k] /\ g[k - 1] = q[L - (k - 1)]
          BY <1>2, <3>2
        <4> HIDE DEF g
        <4> QED  BY <1>7, <3>2, <4>1
      <3> QED  BY <3>1, <3>2
    <2>2. IsA(g)
      BY <1>5, <2>1
    <2> HIDE DEF IsA, g
    <2> QED  BY <2>2
  <1> HIDE DEF at
  <1>9. \A k \in 0..L : at[k] = IF k = 0 THEN r.root_hash ELSE Goes(at[k - 1], k)
    BY <1>5, <1>8
  <1> DEFINE S == { k \in 0..L : at[k] = q[L - k] }
  <1>10. 0 \in S
    BY <1>2, <1>6, <1>9
  <1>11. ASSUME NEW k \in 0..(L - 1), k \in S PROVE k + 1 \in S
    <2>1. k + 1 \in 1..L /\ k + 1 \in 0..L /\ k + 1 # 0 /\ (k + 1) - 1 = k
      BY <1>2
    <2>2. at[k + 1] = Goes(at[k], k + 1)
      BY <1>9, <2>1
    <2>3. at[k] = q[L - ((k + 1) - 1)]
      BY <1>11, <2>1
    <2>4. at[k + 1] = q[L - (k + 1)]
      BY <1>7, <2>1, <2>2, <2>3
    <2> QED  BY <2>1, <2>4
  <1> HIDE DEF S
  <1>12. L \in S
    <2>1. L \in Nat
      BY <1>2
    <2>2. \A k \in 0..L : k \in S
      BY <2>1, <1>10, <1>11, BoundedInduction
    <2> QED  BY <2>1, <2>2
  <1>13. at[L] = h
    BY <1>2, <1>6, <1>12 DEF S
  <1> QED  BY <1>4, <1>5, <1>13 DEF legs

\* ... and no path that is found is longer than the length allows.
LEMMA SearchIsBounded ==
    ASSUME NEW r, LinksAreSound(r), IsFiniteSet(DOMAIN r.count), NEW h, NEW n \in Nat,
           NEW p \in FindPaths(r, h, n)
    PROVE  Len(p) \in Nat /\ Len(p) <= MaxPath(n)
  <1> DEFINE m == MaxPath(n)
             Fits(s) == /\ \A x \in s.partial : ~(Len(x.path) > m)
                        /\ \A q \in s.valid : ~(Len(q) > m)
             S == { s \in SearchStates(r, h) : Fits(s) }
             I == [k \in Nat |-> S]
  <1>1. ~(n < 3)
    BY DEF FindPaths
  <1>2. SearchStart(h) \in S
    <2>1. SearchStart(h) \in SearchStates(r, h)
      BY StartIsState
    <2>2. /\ \A x \in SearchStart(h).partial : x.path = <<>>
          /\ SearchStart(h).valid = {}
      BY DEF SearchStart
    <2>3. ~(Len(<<>>) > m)
      BY <1>1 DEF MaxPath
    <2> HIDE DEF m
    <2> QED  BY <2>1, <2>2, <2>3, Zenon
  <1> HIDE DEF m
  <1>3. ASSUME NEW s \in S PROVE SearchTurn(r, m, s) \in S
    <2> DEFINE t == NextLevel(r, m, s)
               arrived  == { x \in s.partial : x.node = r.root_hash }
               climbing == s.partial \ arrived
               ups      == { pl \in climbing \X r.links : pl[2].child = pl[1].node }
               grown    == { [node |-> u[2].parent, path |-> Append(u[1].path, u[2].dir)] :
                               u \in { v \in ups : /\ Count(r, v[2].parent) > 0
                                                   /\ v[2].parent \notin s.seen } }
               overflow == \E x \in grown : Len(x.path) > m
               found    == s.valid \cup { x.path : x \in arrived }
    <2>1. t \in SearchStates(r, h)
      BY SearchStep
    <2>2. /\ t.partial = IF overflow \/ found # {} THEN {} ELSE grown
          /\ t.valid = IF overflow THEN {} ELSE found
      BY DEF NextLevel
    <2> HIDE DEF t, grown
    <2>3. Fits(t)
      BY <2>2
    <2>4. t \in S
      BY <2>1, <2>3
    <2> HIDE DEF S
    <2> QED  BY <2>4 DEF SearchTurn, t
  <1>4. Cardinality(DOMAIN r.count) + 2 \in Nat
    BY FS_CardinalityType
  <1> HIDE DEF S
  <1>5. SearchStart(h) \in I[0] /\ \A k \in Nat : \A s \in I[k] : SearchTurn(r, m, s) \in I[k + 1]
    BY <1>2, <1>3
  <1> HIDE DEF I
  <1>6. PICK s \in I[Cardinality(DOMAIN r.count) + 2] : FindPaths(r, h, n) = s.valid
    BY <1>1, <1>5, SearchReaches DEF m
  <1>7. s \in S
    BY <1>4 DEF I
  <1>8. ~(Len(p) > m)
    BY <1>6, <1>7 DEF S
  <1>9. Len(p) \in Nat
    <2>1. p \in Seq({LEFT, RIGHT})
      BY SearchFinds
    <2> QED  BY <2>1
  <1> QED  BY <1>8, <1>9 DEF m, MaxPath

\* One byte of a number has eight legs of its path.
LEMMA MoreLegs ==
    ASSUME NEW m \in Nat, m > 1
    PROVE  Len(Legs(m)) = Len(Legs(m \div 2)) + 1 /\ Len(Legs(m \div 2)) \in Nat /\ m \div 2 \in Nat
  <1>1. m \div 2 \in Nat
    OBVIOUS
  <1>2. m % 2 \in {LEFT, RIGHT}
    BY DEF LEFT, RIGHT
  <1>3. Legs(m \div 2) \in Seq({LEFT, RIGHT})
    BY <1>1, LegsUnfold
  <1>4. Legs(m) = <<m % 2>> \o Legs(m \div 2)
    <2>1. ~(m <= 1)
      OBVIOUS
    <2> QED  BY <2>1, LegsOfMore
  <1> DEFINE s == Legs(m \div 2)
             x == m % 2
  <1> HIDE DEF s, x
  <1>5. s \in Seq({LEFT, RIGHT}) /\ x \in {LEFT, RIGHT}
    BY <1>2, <1>3 DEF s, x
  <1>6. Len(<<x>> \o s) = Len(s) + 1 /\ Len(s) \in Nat
    BY <1>5, PrependFacts
  <1> QED  BY <1>1, <1>4, <1>6 DEF s, x

LEMMA EightLegs ==
    ASSUME NEW m \in Nat, m >= 256
    PROVE  Len(Legs(m)) = Len(Legs(m \div 256)) + 8
  <1> DEFINE L(k) == Len(Legs(k))
  <1>1. ASSUME NEW k \in Nat, k > 1 PROVE L(k) = L(k \div 2) + 1 /\ L(k \div 2) \in Nat /\ k \div 2 \in Nat
    BY <1>1, MoreLegs
  <1> DEFINE a == m \div 2
             b == a \div 2
             c == b \div 2
             d == c \div 2
             e == d \div 2
             g == e \div 2
             h == g \div 2
             i == h \div 2
  <1>2. a >= 128 /\ b >= 64 /\ c >= 32 /\ d >= 16 /\ e >= 8 /\ g >= 4 /\ h >= 2
    <2>1. a \in Nat /\ a >= 128
      OBVIOUS
    <2> HIDE DEF a
    <2>2. b \in Nat /\ b >= 64
      BY <2>1
    <2> HIDE DEF b
    <2>3. c \in Nat /\ c >= 32
      BY <2>2
    <2> HIDE DEF c
    <2>4. d \in Nat /\ d >= 16
      BY <2>3
    <2> HIDE DEF d
    <2>5. e \in Nat /\ e >= 8
      BY <2>4
    <2> HIDE DEF e
    <2>6. g \in Nat /\ g >= 4
      BY <2>5
    <2> HIDE DEF g
    <2>7. h \in Nat /\ h >= 2
      BY <2>6
    <2> HIDE DEF h
    <2> QED  BY <2>1, <2>2, <2>3, <2>4, <2>5, <2>6, <2>7
  <1>3. i = m \div 256
    <2>1. b = m \div 4
      OBVIOUS
    <2>2. d = m \div 16
      <3>1. b \in Nat
        OBVIOUS
      <3>2. d = b \div 4
        BY <3>1
      <3> HIDE DEF b, d
      <3> QED  BY <2>1, <3>2
    <2>3. i = d \div 16
      <3>1. d \in Nat
        OBVIOUS
      <3> HIDE DEF d
      <3>2. g = d \div 4
        BY <3>1
      <3>3. g \in Nat
        BY <3>1
      <3> HIDE DEF g
      <3>4. i = g \div 4
        BY <3>3
      <3> QED  BY <3>1, <3>2, <3>4
    <2> HIDE DEF d, i
    <2> QED  BY <2>2, <2>3
  <1> HIDE DEF L
  <1>4. /\ L(m) = L(a) + 1 /\ L(a) \in Nat /\ a \in Nat
    BY <1>1
  <1> HIDE DEF a
  <1>5. L(a) = L(b) + 1 /\ L(b) \in Nat /\ b \in Nat
    BY <1>1, <1>2, <1>4
  <1> HIDE DEF b
  <1>6. L(b) = L(c) + 1 /\ L(c) \in Nat /\ c \in Nat
    BY <1>1, <1>2, <1>5
  <1> HIDE DEF c
  <1>7. L(c) = L(d) + 1 /\ L(d) \in Nat /\ d \in Nat
    BY <1>1, <1>2, <1>6
  <1> HIDE DEF d
  <1>8. L(d) = L(e) + 1 /\ L(e) \in Nat /\ e \in Nat
    BY <1>1, <1>2, <1>7
  <1> HIDE DEF e
  <1>9. L(e) = L(g) + 1 /\ L(g) \in Nat /\ g \in Nat
    BY <1>1, <1>2, <1>8
  <1> HIDE DEF g
  <1>10. L(g) = L(h) + 1 /\ L(h) \in Nat /\ h \in Nat
    BY <1>1, <1>2, <1>9
  <1> HIDE DEF h
  <1>11. L(h) = L(i) + 1 /\ L(i) \in Nat
    BY <1>1, <1>2, <1>10
  <1> HIDE DEF i
  <1>12. L(m) = L(i) + 8
    BY <1>4, <1>5, <1>6, <1>7, <1>8, <1>9, <1>10, <1>11
  <1> QED  BY <1>3, <1>12 DEF L

LEMMA BytesOfLegs ==
    ASSUME NEW n \in Nat, n # 0
    PROVE  Len(BytesOf(n)) \in Nat /\ 8 * (Len(BytesOf(n)) - 1) <= Len(Legs(n))
  <1> DEFINE B(m) == Len(BytesOf(m))
             L(m) == Len(Legs(m))
             S == { m \in Nat : m # 0 => 8 * (B(m) - 1) <= L(m) }
  <1>1. ASSUME NEW m \in Nat PROVE B(m) \in Nat /\ L(m) \in Nat
    <2>1. BytesOf(m) \in Seq(0..255) /\ Legs(m) \in Seq({LEFT, RIGHT})
      BY BytesUnfold, LegsUnfold
    <2> QED  BY <2>1
  <1>2. ASSUME NEW m \in Nat, m # 0 PROVE B(m) = B(m \div 256) + 1
    <2>1. BytesOf(m) = Append(BytesOf(m \div 256), m % 256)
      BY <1>2, BytesOfMore
    <2>2. m \div 256 \in Nat
      OBVIOUS
    <2>3. BytesOf(m \div 256) \in Seq(0..255)
      BY <2>2, BytesUnfold
    <2>4. Len(Append(BytesOf(m \div 256), m % 256)) = Len(BytesOf(m \div 256)) + 1
      BY <2>3
    <2> QED  BY <2>1, <2>4
  <1>3. B(0) = 0
    BY NoBytes
  <1>4. ASSUME NEW m \in Nat, m >= 256 PROVE L(m) = L(m \div 256) + 8
    BY <1>4, EightLegs
  <1> HIDE DEF B, L
  <1>5. ASSUME NEW m \in Nat, \A k \in 0..(m - 1) : k \in S PROVE m \in S
    <2> SUFFICES ASSUME m # 0 PROVE 8 * (B(m) - 1) <= L(m)
      OBVIOUS
    <2> DEFINE d == m \div 256
    <2>1. d \in 0..(m - 1) /\ (m < 256 => d = 0) /\ (m >= 256 => d # 0)
      OBVIOUS
    <2>2. B(m) = B(d) + 1 /\ (m >= 256 => L(m) = L(d) + 8)
      BY <1>2, <1>4
    <2> HIDE DEF d
    <2>3. B(m) \in Nat /\ L(m) \in Nat /\ B(d) \in Nat /\ L(d) \in Nat
      BY <1>1, <2>1
    <2>4. CASE m < 256
      BY <1>3, <2>1, <2>2, <2>3, <2>4
    <2>5. CASE m >= 256
      <3>1. 8 * (B(d) - 1) <= L(d)
        BY <1>5, <2>1, <2>5
      <3> QED  BY <2>2, <2>3, <2>5, <3>1
    <2> QED  BY <2>4, <2>5
  <1> HIDE DEF S
  <1>6. \A m \in Nat : m \in S
    BY <1>5, StrongInduction
  <1>7. B(n) \in Nat /\ 8 * (B(n) - 1) <= L(n)
    BY <1>1, <1>6 DEF S
  <1> QED  BY <1>7 DEF B, L

\* A path that is found takes at most the object's length less two bytes.
LEMMA FoundIsShort ==
    ASSUME NEW r, LinksAreSound(r), IsFiniteSet(DOMAIN r.count), NEW h, NEW n \in Nat,
           NEW p \in FindPaths(r, h, n)
    PROVE  /\ PathNumber(p) \in Nat
           /\ BytesOf(PathNumber(p)) \in Seq(0..255)
           /\ Len(BytesOf(PathNumber(p))) + 2 <= n
  <1> DEFINE q == PathNumber(p)
             B == Len(BytesOf(q))
             L == Len(Legs(q))
  <1>1. p \in Seq({LEFT, RIGHT})
    BY SearchFinds
  <1>2. q \in Nat /\ q # 0 /\ L = Len(p)
    BY <1>1, LegsOfPath, Zenon DEF IsReversed
  <1> HIDE DEF q
  <1>3. B \in Nat /\ 8 * (B - 1) <= L
    BY <1>2, BytesOfLegs
  <1>4. Len(p) \in Nat /\ Len(p) <= MaxPath(n)
    BY SearchIsBounded
  <1>5. L \in Nat /\ L <= (n - 2) * 8 - 1
    BY <1>2, <1>4 DEF MaxPath
  <1> HIDE DEF B, L
  <1>6. B + 2 <= n
    BY <1>3, <1>5
  <1>7. BytesOf(q) \in Seq(0..255)
    BY <1>2, BytesUnfold
  <1> QED  BY <1>2, <1>6, <1>7 DEF q, B
=============================================================================
