-------------------------- MODULE SexpStreamProofs --------------------------
(***************************************************************************)
(* Proofs about SexpStream, for every set of trees and every max_size: a   *)
(* reader gets the tree that was written, with back-references or without, *)
(* however the two sides interleave.                                       *)
(***************************************************************************)
EXTENDS SexpStream, DataFacts, TLAPS

-----------------------------------------------------------------------------
(***************************************************************************)
(* Trees and their hashes                                                  *)
(***************************************************************************)
LEMMA PairFacts ==
    ASSUME NEW l, NEW r
    PROVE  /\ First(Pair(l, r)) = l /\ Rest(Pair(l, r)) = r
           /\ IsPair(Pair(l, r)) /\ ~IsAtom(Pair(l, r))
           /\ Pair(l, r).pair[1] = l /\ Pair(l, r).pair[2] = r
  BY DEF First, Rest, Pair, IsPair, IsAtom

LEMMA AtomFacts ==
    ASSUME NEW b
    PROVE  IsAtom(Atom(b)) /\ ~IsPair(Atom(b)) /\ Atom(b).atom = b
  BY DEF Atom, IsPair, IsAtom

LEMMA NullFacts == IsAtom(Null) /\ ~IsPair(Null) /\ Nullp(Null)
  BY AtomFacts DEF Null, Nullp

Rank == SerializedLength(Trees)

LEMMA TreeFacts ==
    ASSUME NEW x \in Trees
    PROVE  /\ Rank[x] \in Nat
           /\ \/ IsAtom(x) /\ ~IsPair(x) /\ x = Atom(x.atom)
              \/ /\ IsPair(x) /\ ~IsAtom(x) /\ x = Pair(First(x), Rest(x))
                 /\ First(x) \in Trees /\ Rank[First(x)] < Rank[x]
                 /\ Rest(x) \in Trees /\ Rank[Rest(x)] < Rank[x]
  <1>1. \A y : ~(IsAtom(y) /\ IsPair(y))
    BY DEF IsAtom, IsPair
  <1> DEFINE y == First(x)
             z == Rest(x)
  <1>2. /\ SerializedLength(Trees)[x] \in Nat
        /\ \/ IsAtom(x) /\ x = Atom(x.atom)
           \/ /\ IsPair(x) /\ x = Pair(y, z)
              /\ \A c \in {y, z} :
                    c \in Trees /\ SerializedLength(Trees)[c] < SerializedLength(Trees)[x]
    BY TreesAssumption
  <1> HIDE DEF y, z
  <1>3. /\ SerializedLength(Trees)[x] \in Nat
        /\ \/ IsAtom(x) /\ x = Atom(x.atom)
           \/ /\ IsPair(x) /\ x = Pair(y, z)
              /\ y \in Trees /\ SerializedLength(Trees)[y] < SerializedLength(Trees)[x]
              /\ z \in Trees /\ SerializedLength(Trees)[z] < SerializedLength(Trees)[x]
    BY <1>2, Zenon
  <1> QED  BY <1>1, <1>3, Zenon DEF Rank, y, z

\* Tree hashes (u = "hash"), serialised lengths (u = "length") and whether a tree
\* is unwritable, by the root.
Value(u, h, x) ==
    IF u = "hash"
    THEN IF IsPair(x) THEN HashPair(h[First(x)], h[Rest(x)]) ELSE HashAtom(x.atom)
    ELSE IF u = "length"
    THEN IF IsPair(x) THEN 1 + h[First(x)] + h[Rest(x)] ELSE AtomLength(x.atom)
    ELSE IF IsPair(x) THEN h[First(x)] \/ h[Rest(x)] ELSE TooLarge(x.atom)

ValuesUpTo(u, h, n) == \A x \in Trees : Rank[x] <= n => h[x] = Value(u, h, x)

IsValues(u, h) == h = [x \in Trees |-> Value(u, h, x)]

LEMMA ValuesExist ==
    ASSUME NEW u, NEW n \in Nat
    PROVE  \E h : ValuesUpTo(u, h, n)
  <1> DEFINE S == { m \in Nat : \E h : ValuesUpTo(u, h, m) }
  <1>1. ASSUME NEW m \in Nat, NEW h, \A x \in Trees : Rank[x] < m => h[x] = Value(u, h, x)
        PROVE  m \in S
    <2> DEFINE g == [x \in Trees |-> IF Rank[x] < m THEN h[x] ELSE Value(u, h, x)]
    <2>1. ASSUME NEW x \in Trees, Rank[x] <= m
          PROVE  g[x] = Value(u, g, x)
      <3>1. IsPair(x) => g[First(x)] = h[First(x)] /\ g[Rest(x)] = h[Rest(x)]
        <4>1. SUFFICES ASSUME IsPair(x) PROVE g[First(x)] = h[First(x)] /\ g[Rest(x)] = h[Rest(x)]
          OBVIOUS
        <4>2. /\ First(x) \in Trees /\ Rank[First(x)] < Rank[x] /\ Rank[First(x)] \in Nat
              /\ Rest(x) \in Trees /\ Rank[Rest(x)] < Rank[x] /\ Rank[Rest(x)] \in Nat
              /\ Rank[x] \in Nat
          BY <4>1, TreeFacts
        <4>3. Rank[First(x)] < m /\ Rank[Rest(x)] < m
          BY <2>1, <4>2
        <4> QED  BY <4>2, <4>3
      <3>2. Value(u, g, x) = Value(u, h, x)
        <4> HIDE DEF g
        <4> QED  BY <3>1 DEF Value
      <3>3. g[x] = Value(u, h, x)
        BY <1>1
      <3> QED  BY <3>2, <3>3
    <2> HIDE DEF g
    <2>2. ValuesUpTo(u, g, m)
      BY <2>1 DEF ValuesUpTo
    <2> QED  BY <2>2
  <1>2. 0 \in S
    <2>1. ASSUME NEW x \in Trees PROVE ~(Rank[x] < 0)
      <3>1. Rank[x] \in Nat
        BY TreeFacts
      <3> QED  BY <3>1
    <2> HIDE DEF S
    <2> DEFINE h == [x \in {} |-> x]
    <2>2. \A x \in Trees : Rank[x] < 0 => h[x] = Value(u, h, x)
      BY <2>1, Zenon
    <2> HIDE DEF h
    <2> QED  BY <1>1, <2>2
  <1>3. ASSUME NEW m \in Nat, m \in S PROVE m + 1 \in S
    <2>1. PICK h : ValuesUpTo(u, h, m)
      BY <1>3
    <2>2. ASSUME NEW x \in Trees, Rank[x] < m + 1 PROVE h[x] = Value(u, h, x)
      <3>1. Rank[x] \in Nat
        BY TreeFacts
      <3>2. Rank[x] <= m
        BY <2>2, <3>1
      <3> QED  BY <2>1, <3>2 DEF ValuesUpTo
    <2> HIDE DEF S
    <2>3. m + 1 \in Nat
      OBVIOUS
    <2> QED  BY <1>1, <2>2, <2>3
  <1> HIDE DEF S
  <1>4. n \in S
    BY <1>2, <1>3, SetInduction
  <1> QED  BY <1>4 DEF S

LEMMA ValuesAgree ==
    ASSUME NEW u, NEW n \in Nat, NEW m \in Nat, NEW h, ValuesUpTo(u, h, n), NEW g, ValuesUpTo(u, g, m)
    PROVE  \A x \in Trees : Rank[x] <= n /\ Rank[x] <= m => h[x] = g[x]
  <1> DEFINE S == { k \in Nat : k <= n /\ k <= m => \A x \in Trees : Rank[x] = k => h[x] = g[x] }
  <1>1. ASSUME NEW k \in Nat, \A j \in 0..(k - 1) : j \in S
        PROVE  k \in S
    <2> SUFFICES ASSUME k <= n, k <= m, NEW x \in Trees, Rank[x] = k PROVE h[x] = g[x]
      OBVIOUS
    <2>1. h[x] = Value(u, h, x) /\ g[x] = Value(u, g, x)
      BY DEF ValuesUpTo
    <2>2. CASE IsPair(x)
      <3>1. /\ First(x) \in Trees /\ Rank[First(x)] \in 0..(k - 1)
            /\ Rest(x) \in Trees /\ Rank[Rest(x)] \in 0..(k - 1)
        <4>1. /\ First(x) \in Trees /\ Rank[First(x)] < Rank[x] /\ Rank[First(x)] \in Nat
              /\ Rest(x) \in Trees /\ Rank[Rest(x)] < Rank[x] /\ Rank[Rest(x)] \in Nat
          BY <2>2, TreeFacts
        <4> QED  BY <4>1
      <3>2. \A j \in 0..(k - 1) : j <= n /\ j <= m
        OBVIOUS
      <3>3. h[First(x)] = g[First(x)] /\ h[Rest(x)] = g[Rest(x)]
        BY <1>1, <3>1, <3>2
      <3> QED  BY <2>1, <2>2, <3>3 DEF Value
    <2>3. CASE ~IsPair(x)
      BY <2>1, <2>3 DEF Value
    <2> QED  BY <2>2, <2>3
  <1> HIDE DEF S
  <1>2. \A k \in Nat : k \in S
    BY <1>1, StrongInduction
  <1>3. ASSUME NEW x \in Trees, Rank[x] <= n, Rank[x] <= m PROVE h[x] = g[x]
    <2>1. Rank[x] \in Nat
      BY TreeFacts
    <2> QED  BY <1>2, <1>3, <2>1 DEF S
  <1> QED  BY <1>3

LEMMA ValuesFacts ==
    ASSUME NEW u
    PROVE  IsValues(u, CHOOSE h : IsValues(u, h))
  <1> DEFINE G(n) == CHOOSE h : ValuesUpTo(u, h, n)
             t == [y \in Trees |-> G(Rank[y])[y]]
  <1>1. ASSUME NEW n \in Nat PROVE ValuesUpTo(u, G(n), n)
    BY ValuesExist
  <1> HIDE DEF G
  <1>2. ASSUME NEW y \in Trees PROVE t[y] = Value(u, t, y)
    <2>1. Rank[y] \in Nat
      BY TreeFacts
    <2> DEFINE h == G(Rank[y])
    <2>2. ValuesUpTo(u, h, Rank[y])
      BY <1>1, <2>1
    <2>3. h[y] = Value(u, h, y)
      BY <2>1, <2>2 DEF ValuesUpTo
    <2>4. ASSUME NEW z \in Trees, Rank[z] < Rank[y] PROVE t[z] = h[z]
      <3>1. Rank[z] \in Nat /\ ValuesUpTo(u, G(Rank[z]), Rank[z]) /\ Rank[z] <= Rank[z] /\ Rank[z] <= Rank[y]
        BY <1>1, <2>1, <2>4, TreeFacts
      <3> HIDE DEF h
      <3> DEFINE g == G(Rank[z])
      <3>2. g[z] = h[z]
        <4> HIDE DEF g
        <4>1. ValuesUpTo(u, g, Rank[z])
          BY <3>1 DEF g
        <4> QED  BY <2>1, <2>2, <3>1, <4>1, ValuesAgree
      <3> QED  BY <3>2
    <2>5. t[y] = h[y]
      OBVIOUS
    <2> HIDE DEF t, h
    <2>6. CASE IsPair(y)
      <3>1. /\ First(y) \in Trees /\ Rank[First(y)] < Rank[y]
            /\ Rest(y) \in Trees /\ Rank[Rest(y)] < Rank[y]
        BY <2>6, TreeFacts
      <3>2. t[First(y)] = h[First(y)] /\ t[Rest(y)] = h[Rest(y)]
        BY <2>4, <3>1
      <3> QED  BY <2>3, <2>5, <2>6, <3>2 DEF Value
    <2>7. CASE ~IsPair(y)
      BY <2>3, <2>5, <2>7 DEF Value
    <2> QED  BY <2>6, <2>7
  <1>3. IsValues(u, t)
    BY <1>2 DEF IsValues
  <1> HIDE DEF t
  <1> QED  BY <1>3

LEMMA TreeHashFacts ==
    ASSUME NEW x \in Trees
    PROVE  TreeHash(Trees)[x] = IF IsPair(x) THEN HashPair(TreeHash(Trees)[First(x)], TreeHash(Trees)[Rest(x)])
                                ELSE HashAtom(x.atom)
  <1> DEFINE h == CHOOSE g : IsValues("hash", g)
  <1>1. IsValues("hash", h)
    BY ValuesFacts
  <1>2. TreeHash(Trees) = h
    BY DEF TreeHash, Value, IsValues
  <1> HIDE DEF h
  <1>3. h[x] = Value("hash", h, x)
    BY <1>1 DEF IsValues
  <1> QED  BY <1>2, <1>3 DEF Value

LEMMA LengthFacts ==
    ASSUME NEW x \in Trees
    PROVE  Rank[x] = IF IsPair(x) THEN 1 + Rank[First(x)] + Rank[Rest(x)] ELSE AtomLength(x.atom)
  <1> DEFINE h == CHOOSE g : IsValues("length", g)
  <1>1. IsValues("length", h)
    BY ValuesFacts
  <1>2. Rank = h
    BY DEF Rank, SerializedLength, Value, IsValues
  <1> HIDE DEF h
  <1>3. h[x] = Value("length", h, x)
    BY <1>1 DEF IsValues
  <1> QED  BY <1>2, <1>3 DEF Value

LEMMA UnwritableFacts ==
    ASSUME NEW x \in Trees
    PROVE  Unwritable(Trees)[x] = IF IsPair(x)
                                  THEN Unwritable(Trees)[First(x)] \/ Unwritable(Trees)[Rest(x)]
                                  ELSE TooLarge(x.atom)
  <1> DEFINE h == CHOOSE g : IsValues("unwritable", g)
  <1>1. IsValues("unwritable", h)
    BY ValuesFacts
  <1>2. Unwritable(Trees) = h
    BY DEF Unwritable, Value, IsValues
  <1> HIDE DEF h
  <1>3. h[x] = Value("unwritable", h, x)
    BY <1>1 DEF IsValues
  <1> QED  BY <1>2, <1>3 DEF Value

-----------------------------------------------------------------------------
(***************************************************************************)
(* A relation between objects and hashes is faithful if it takes both      *)
(* apart in the same way.  What has the hash of a tree is that tree.       *)
(***************************************************************************)
Matches(m, Q) == \/ \E b : m = <<Atom(b), HashAtom(b)>>
                 \/ \E l, r, g, h : /\ m = <<Pair(l, r), HashPair(g, h)>>
                                    /\ <<l, g>> \in Q /\ <<r, h>> \in Q

Faithful(Q) == \A m \in Q : Matches(m, Q)

LEMMA HashFacts ==
    ASSUME NEW g, NEW h, NEW b
    PROVE  /\ IsPairHash(HashPair(g, h)) /\ ~IsPairHash(HashAtom(b))
           /\ HashPair(g, h).pair_hash[1] = g /\ HashPair(g, h).pair_hash[2] = h
           /\ HashAtom(b).atom_hash = b
           /\ HashPair(g, h) # HashAtom(b)
  <1>1. DOMAIN HashPair(g, h) = {"pair_hash"} /\ DOMAIN HashAtom(b) = {"atom_hash"}
    BY DEF HashPair, HashAtom
  <1> QED  BY <1>1 DEF HashPair, HashAtom, IsPairHash

\* A member with a pair's hash is a pair, and one with an atom's hash an atom.
LEMMA FaithfulPair ==
    ASSUME NEW Q, Faithful(Q), NEW x, NEW k, <<x, k>> \in Q, IsPairHash(k)
    PROVE  /\ IsPair(x) /\ ~IsAtom(x) /\ x = Pair(First(x), Rest(x))
           /\ <<First(x), k.pair_hash[1]>> \in Q /\ <<Rest(x), k.pair_hash[2]>> \in Q
           /\ x.pair[1] = First(x) /\ x.pair[2] = Rest(x)
  <1> DEFINE m == <<x, k>>
  <1>1. m[1] = x /\ m[2] = k
    OBVIOUS
  <1>2. \/ \E b : m = <<Atom(b), HashAtom(b)>>
        \/ \E l, r, g, h : /\ m = <<Pair(l, r), HashPair(g, h)>>
                           /\ <<l, g>> \in Q /\ <<r, h>> \in Q
    BY DEF Faithful, Matches
  <1>3. ASSUME NEW b PROVE m # <<Atom(b), HashAtom(b)>>
    <2>1. ~IsPairHash(HashAtom(b))
      BY HashFacts
    <2> QED  BY <2>1
  <1>4. PICK l, r, g, h : m = <<Pair(l, r), HashPair(g, h)>> /\ <<l, g>> \in Q /\ <<r, h>> \in Q
    BY <1>2, <1>3
  <1>5. x = Pair(l, r) /\ k = HashPair(g, h)
    BY <1>4
  <1>6. /\ First(x) = l /\ Rest(x) = r /\ IsPair(x) /\ ~IsAtom(x)
        /\ x.pair[1] = l /\ x.pair[2] = r
    BY <1>5, PairFacts
  <1>7. k.pair_hash[1] = g /\ k.pair_hash[2] = h
    BY <1>5, HashFacts
  <1> HIDE DEF m
  <1> QED  BY <1>4, <1>5, <1>6, <1>7, Zenon

LEMMA FaithfulAtom ==
    ASSUME NEW Q, Faithful(Q), NEW x, NEW b, <<x, HashAtom(b)>> \in Q
    PROVE  x = Atom(b)
  <1> DEFINE m == <<x, HashAtom(b)>>
  <1>1. m[1] = x /\ m[2] = HashAtom(b)
    OBVIOUS
  <1>2. \/ \E c : m = <<Atom(c), HashAtom(c)>>
        \/ \E l, r, g, h : /\ m = <<Pair(l, r), HashPair(g, h)>>
                           /\ <<l, g>> \in Q /\ <<r, h>> \in Q
    BY DEF Faithful, Matches
  <1>3. ASSUME NEW l, NEW r, NEW g, NEW h PROVE m # <<Pair(l, r), HashPair(g, h)>>
    <2>1. HashPair(g, h) # HashAtom(b)
      BY HashFacts
    <2> QED  BY <2>1
  <1>4. PICK c : m = <<Atom(c), HashAtom(c)>>
    BY <1>2, <1>3
  <1>5. x = Atom(c) /\ HashAtom(b) = HashAtom(c)
    BY <1>4
  <1>6. b = c
    <2>1. HashAtom(b).atom_hash = b /\ HashAtom(c).atom_hash = c
      BY HashFacts
    <2> QED  BY <1>5, <2>1
  <1> QED  BY <1>5, <1>6

LEMMA SameHashSameTree ==
    ASSUME NEW Q, Faithful(Q), NEW x \in Trees, NEW y, <<y, TreeHash(Trees)[x]>> \in Q
    PROVE  y = x
  <1> DEFINE S == { n \in Nat : \A z \in Trees : Rank[z] = n =>
                                  \A u : <<u, TreeHash(Trees)[z]>> \in Q => u = z }
  <1>1. ASSUME NEW n \in Nat, \A k \in 0..(n - 1) : k \in S PROVE n \in S
    <2> SUFFICES ASSUME NEW z \in Trees, Rank[z] = n, NEW u, <<u, TreeHash(Trees)[z]>> \in Q
                 PROVE  u = z
      OBVIOUS
    <2> DEFINE H(v) == TreeHash(Trees)[v]
    <2>1. CASE IsPair(z)
      <3>1. /\ First(z) \in Trees /\ Rank[First(z)] \in 0..(n - 1)
            /\ Rest(z) \in Trees /\ Rank[Rest(z)] \in 0..(n - 1)
        <4>1. /\ First(z) \in Trees /\ Rank[First(z)] < Rank[z] /\ Rank[First(z)] \in Nat
              /\ Rest(z) \in Trees /\ Rank[Rest(z)] < Rank[z] /\ Rank[Rest(z)] \in Nat
          BY <2>1, TreeFacts
        <4> QED  BY <4>1
      <3>2. H(z) = HashPair(H(First(z)), H(Rest(z)))
        BY <2>1, TreeHashFacts
      <3>3. IsPairHash(H(z)) /\ H(z).pair_hash[1] = H(First(z)) /\ H(z).pair_hash[2] = H(Rest(z))
        BY <3>2, HashFacts
      <3>4. <<u, H(z)>> \in Q
        OBVIOUS
      <3> HIDE DEF H, S
      <3>5. /\ u = Pair(First(u), Rest(u))
            /\ <<First(u), H(First(z))>> \in Q /\ <<Rest(u), H(Rest(z))>> \in Q
        <4> DEFINE k == H(z)
        <4>1. <<u, k>> \in Q /\ IsPairHash(k)
          BY <3>3, <3>4
        <4> HIDE DEF k
        <4>2. u = Pair(First(u), Rest(u)) /\ <<First(u), k.pair_hash[1]>> \in Q
                                          /\ <<Rest(u), k.pair_hash[2]>> \in Q
          BY <4>1, FaithfulPair
        <4> QED  BY <3>3, <4>2 DEF k
      <3>6. First(u) = First(z) /\ Rest(u) = Rest(z)
        <4>1. Rank[First(z)] \in S /\ Rank[Rest(z)] \in S
          BY <1>1, <3>1
        <4> QED  BY <3>1, <3>5, <4>1 DEF S, H
      <3>7. z = Pair(First(z), Rest(z))
        BY <2>1, TreeFacts
      <3> QED  BY <3>5, <3>6, <3>7
    <2>2. CASE ~IsPair(z)
      <3>1. H(z) = HashAtom(z.atom) /\ z = Atom(z.atom)
        BY <2>2, TreeHashFacts, TreeFacts
      <3>2. u = Atom(z.atom)
        BY <3>1, FaithfulAtom
      <3> QED  BY <3>1, <3>2
    <2> QED  BY <2>1, <2>2
  <1> HIDE DEF S
  <1>2. \A n \in Nat : n \in S
    BY <1>1, StrongInduction
  <1>3. Rank[x] \in Nat
    BY TreeFacts
  <1> QED  BY <1>2, <1>3 DEF S

-----------------------------------------------------------------------------
(***************************************************************************)
(* Where a path leads, from an object whose hash has the path              *)
(***************************************************************************)
\* w has the hashes met by the first n legs.
IsDescent(w, legs, n) ==
    \A k \in 1..n : /\ legs[k] \in {LEFT, RIGHT} /\ IsPairHash(w[k - 1])
                    /\ w[k - 1].pair_hash[legs[k] + 1] = w[k]

LEMMA NodeAtFacts ==
    ASSUME NEW Q, Faithful(Q), NEW v, NEW legs, NEW n \in Nat, NEW w, IsDescent(w, legs, n),
           <<v, w[0]>> \in Q
    PROVE  <<NodeAt(v, legs, n), w[n]>> \in Q
  <1> DEFINE A == { m[1] : m \in Q }
             Goes(y, k) == IF IsAtom(y) THEN y ELSE y.pair[legs[k] + 1]
             IsA(g) == g = [k \in 0..n |-> IF k = 0 THEN v ELSE Goes(g[k - 1], k)]
             at == CHOOSE g : IsA(g)
  <1>1. NodeAt(v, legs, n) = at[n]
    BY DEF NodeAt
  <1>2. v \in A
    <2> DEFINE m == <<v, w[0]>>
    <2>1. m \in Q /\ m[1] = v
      OBVIOUS
    <2> HIDE DEF m
    <2> QED  BY <2>1
  <1>3. ASSUME NEW y \in A, NEW k \in 1..n PROVE Goes(y, k) \in A
    <2>1. PICK m \in Q : y = m[1]
      OBVIOUS
    <2>2. CASE IsAtom(y)
      BY <2>2
    <2>3. CASE ~IsAtom(y)
      <3>1. ASSUME NEW b PROVE m # <<Atom(b), HashAtom(b)>>
        <4>1. IsAtom(Atom(b))
          BY AtomFacts
        <4> QED  BY <2>1, <2>3, <4>1
      <3>2. PICK l, r, g, h : m = <<Pair(l, r), HashPair(g, h)>> /\ <<l, g>> \in Q /\ <<r, h>> \in Q
        BY <3>1 DEF Faithful, Matches
      <3>3. y.pair[1] = l /\ y.pair[2] = r
        <4>1. y = Pair(l, r)
          BY <2>1, <3>2
        <4> QED  BY <4>1, PairFacts
      <3>4. l \in A /\ r \in A
        <4> DEFINE ml == <<l, g>>
                   mr == <<r, h>>
        <4>1. ml \in Q /\ mr \in Q /\ ml[1] = l /\ mr[1] = r
          BY <3>2
        <4> HIDE DEF ml, mr
        <4> QED  BY <4>1
      <3>5. legs[k] + 1 \in {1, 2}
        BY DEF IsDescent, LEFT, RIGHT
      <3>6. y.pair[legs[k] + 1] \in A
        <4> HIDE DEF A
        <4> QED  BY <3>3, <3>4, <3>5
      <3> QED  BY <2>3, <3>6
    <2> QED  BY <2>2, <2>3
  <1> HIDE DEF A, Goes
  <1>4. IsA(at)
    <2> DEFINE B == [k \in 1..n |-> [y \in A |-> Goes(y, k)]]
    <2>1. \A k \in 1..n, y \in A : B[k][y] = Goes(y, k)
      OBVIOUS
    <2> HIDE DEF B
    <2>2. StepsWithin(A, v, B, n)
      BY <1>2, <1>3, <2>1 DEF StepsWithin
    <2>3. PICK g \in [0..n -> A] : g[0] = v /\ \A k \in 1..n : g[k] = B[k][g[k - 1]]
      BY <2>2, StepsUpTo
    <2>4. ASSUME NEW k \in 0..n PROVE g[k] = IF k = 0 THEN v ELSE Goes(g[k - 1], k)
      <3>1. CASE k = 0
        BY <2>3, <3>1
      <3>2. CASE k # 0
        <4>1. k \in 1..n /\ k - 1 \in 0..n
          BY <3>2
        <4>2. g[k - 1] \in A
          BY <4>1
        <4> QED  BY <2>1, <2>3, <3>2, <4>1, <4>2
      <3> QED  BY <3>1, <3>2
    <2>5. IsA(g)
      BY <2>4
    <2> HIDE DEF IsA
    <2> QED  BY <2>5
  <1> HIDE DEF at
  <1>5. \A k \in 0..n : at[k] = IF k = 0 THEN v ELSE Goes(at[k - 1], k)
    BY <1>4
  <1> DEFINE S == { k \in 0..n : <<at[k], w[k]>> \in Q }
  <1>6. 0 \in S
    BY <1>5
  <1>7. ASSUME NEW k \in 0..(n - 1), k \in S PROVE k + 1 \in S
    <2>1. k + 1 \in 1..n /\ k + 1 \in 0..n /\ k + 1 # 0 /\ (k + 1) - 1 = k
      OBVIOUS
    <2>2. at[k + 1] = Goes(at[k], k + 1)
      BY <1>5, <2>1
    <2> DEFINE y == at[k]
               g == w[k]
    <2>3. <<y, g>> \in Q
      BY <1>7
    <2>4. /\ legs[k + 1] \in {LEFT, RIGHT} /\ IsPairHash(g)
          /\ g.pair_hash[legs[k + 1] + 1] = w[k + 1]
      BY <2>1 DEF IsDescent
    <2> HIDE DEF y, g
    <2>5. /\ ~IsAtom(y) /\ <<First(y), g.pair_hash[1]>> \in Q /\ <<Rest(y), g.pair_hash[2]>> \in Q
          /\ y.pair[1] = First(y) /\ y.pair[2] = Rest(y)
      BY <2>3, <2>4, FaithfulPair
    <2>6. <<y.pair[legs[k + 1] + 1], w[k + 1]>> \in Q
      <3>1. CASE legs[k + 1] = LEFT
        <4>1. legs[k + 1] + 1 = 1
          BY <3>1 DEF LEFT
        <4> QED  BY <2>4, <2>5, <4>1
      <3>2. CASE legs[k + 1] = RIGHT
        <4>1. legs[k + 1] + 1 = 2
          BY <3>2 DEF RIGHT
        <4> QED  BY <2>4, <2>5, <4>1
      <3> QED  BY <2>4, <3>1, <3>2
    <2>7. at[k + 1] = y.pair[legs[k + 1] + 1]
      BY <2>2, <2>5 DEF Goes, y
    <2> QED  BY <2>1, <2>6, <2>7
  <1> HIDE DEF S
  <1>8. n \in S
    BY <1>6, <1>7, BoundedInduction
  <1> QED  BY <1>1, <1>8 DEF S

\* A path that the search finds leads the reader to what has the hash that was
\* looked for, and through no atom.
LEMMA PathLeads ==
    ASSUME NEW Q, Faithful(Q), NEW v, NEW h, NEW path, NEW top, HasTrail(h, path, top),
           <<v, top>> \in Q
    PROVE  LET legs == Legs(PathNumber(path))
           IN  <<Follow(v, legs), h>> \in Q /\ ~PathIntoAtom(v, legs)
  <1> DEFINE legs == Legs(PathNumber(path))
             L == Len(path)
  <1>1. PICK q : IsTrail(q, h, path, top)
    BY DEF HasTrail
  <1>2. path \in Seq({LEFT, RIGHT}) /\ L \in Nat
    BY <1>1 DEF IsTrail
  <1>3. IsReversed(legs, path, L)
    BY <1>2, LegsOfPath, Zenon
  <1>4. \A i \in 1..L : path[i] \in {LEFT, RIGHT}
    BY <1>2
  <1>5. q[0] = h /\ q[L] = top /\ \A i \in 1..L : IsPairHash(q[i]) /\ q[i].pair_hash[path[i] + 1] = q[i - 1]
    BY <1>1 DEF IsTrail
  <1> DEFINE w == [k \in 0..L |-> q[L - k]]
  <1> HIDE DEF legs, L
  <1>6. L \in Nat /\ Len(legs) = L /\ \A i \in 1..L : legs[i] = path[L + 1 - i]
    BY <1>2, <1>3 DEF IsReversed
  <1>7. w[0] = top /\ w[L] = h /\ \A k \in 0..L : w[k] = q[L - k]
    BY <1>5, <1>6
  <1> HIDE DEF w
  <1>8. ASSUME NEW k \in 1..L
        PROVE  /\ legs[k] \in {LEFT, RIGHT} /\ IsPairHash(w[k - 1])
               /\ w[k - 1].pair_hash[legs[k] + 1] = w[k]
    <2> DEFINE i == L + 1 - k
    <2>1. i \in 1..L /\ legs[k] = path[i] /\ k - 1 \in 0..L /\ k \in 0..L
      BY <1>6
    <2>2. L - (k - 1) = i /\ L - k = i - 1
      BY <1>6
    <2>3. w[k - 1] = q[i] /\ w[k] = q[i - 1]
      BY <1>7, <2>1, <2>2
    <2> HIDE DEF i
    <2> QED  BY <1>4, <1>5, <2>1, <2>3
  <1>9. ASSUME NEW n \in 0..L PROVE <<NodeAt(v, legs, n), w[n]>> \in Q
    <2>1. n \in Nat /\ IsDescent(w, legs, n)
      BY <1>6, <1>8 DEF IsDescent
    <2> QED  BY <1>7, <2>1, NodeAtFacts
  <1>10. <<Follow(v, legs), h>> \in Q
    BY <1>6, <1>7, <1>9 DEF Follow
  <1>11. ASSUME NEW n \in 0..(L - 1) PROVE ~IsAtom(NodeAt(v, legs, n))
    <2>1. n \in 0..L /\ n + 1 \in 1..L /\ (n + 1) - 1 = n
      BY <1>6
    <2>2. <<NodeAt(v, legs, n), w[n]>> \in Q /\ IsPairHash(w[n])
      BY <1>8, <1>9, <2>1
    <2> QED  BY <2>2, FaithfulPair
  <1>12. ~PathIntoAtom(v, legs)
    BY <1>6, <1>11 DEF PathIntoAtom
  <1> QED  BY <1>10, <1>12 DEF legs

-----------------------------------------------------------------------------
(***************************************************************************)
(* The value stack and the lookup that pictures it                         *)
(***************************************************************************)
H(x) == TreeHash(Trees)[x]

\* c has the value stack after each of the objects of read_stack was pushed.
Pictures(c, v, r) ==
    LET n == Len(r.read_stack)
    IN  /\ c[0] = Null /\ c[n] = v
        /\ \A j \in 1..n : /\ First(c[j]) \in Trees /\ c[j] = Pair(First(c[j]), c[j - 1])
                           /\ r.read_stack[j].obj = H(First(c[j]))

Pictured(v, r) == Good(r) /\ \E c : Pictures(c, v, r)

LEMMA NewIsPicture == Pictured(Null, NewLookup)
  <1> DEFINE c == [i \in {0} |-> Null]
  <1>1. Len(NewLookup.read_stack) = 0
    BY DEF NewLookup
  <1>2. c[0] = Null
    OBVIOUS
  <1> HIDE DEF c
  <1>3. Pictures(c, Null, NewLookup)
    BY <1>1, <1>2 DEF Pictures
  <1> QED  BY <1>3, NewIsGood DEF Pictured

\* The elements of read_stack, when something is pushed and popped.
LEMMA PushedStack ==
    ASSUME NEW r, Good(r), NEW h
    PROVE  LET s == PushTo(r, h).read_stack
               n == Len(r.read_stack)
           IN  /\ n \in Nat /\ Len(s) = n + 1
               /\ \A i \in 1..n : s[i] = r.read_stack[i]
               /\ s[n + 1].obj = h
  <1> DEFINE e == [obj |-> h, root |-> r.root_hash]
  <1>1. PushTo(r, h).read_stack = Append(r.read_stack, e)
    BY ShapeIsLookup, PushFacts DEF Good
  <1>2. r.read_stack \in Seq(Range(r.read_stack))
    BY DEF Good, ShapeOK
  <1>3. e.obj = h
    OBVIOUS
  <1> HIDE DEF e
  <1> QED  BY <1>1, <1>2, <1>3, AppendFacts

LEMMA PoppedStack ==
    ASSUME NEW r, Good(r), Len(r.read_stack) > 0
    PROVE  LET s == PopFrom(r).read_stack
               n == Len(r.read_stack)
           IN  /\ n \in Nat /\ Len(s) = n - 1
               /\ \A i \in 1..(n - 1) : s[i] = r.read_stack[i]
               /\ Top(r) = r.read_stack[n]
  <1>1. PopFrom(r).read_stack = SubSeq(r.read_stack, 1, Len(r.read_stack) - 1)
    BY ShapeIsLookup, PopFacts DEF Good
  <1>2. r.read_stack \in Seq(Range(r.read_stack))
    BY DEF Good, ShapeOK
  <1> QED  BY <1>1, <1>2, FrontFacts DEF Top

LEMMA ConsedStack ==
    ASSUME NEW r, Good(r), Len(r.read_stack) >= 2
    PROVE  LET s == Pop2AndConsOn(r).read_stack
               n == Len(r.read_stack)
           IN  /\ n \in Nat /\ Len(s) = n - 1
               /\ \A i \in 1..(n - 2) : s[i] = r.read_stack[i]
               /\ s[n - 1].obj = HashPair(r.read_stack[n - 1].obj, r.read_stack[n].obj)
  <1> DEFINE right   == Top(r).obj
             left    == Top(PopFrom(r)).obj
             popped  == PopFrom(PopFrom(r))
             cons    == HashPair(left, right)
             two     == { Link(left, cons, LEFT), Link(right, cons, RIGHT) }
             counted == Bump(Bump(popped, left, 1), right, 1)
             linked  == [counted EXCEPT !.links = @ \cup two]
             n == Len(r.read_stack)
  <1>1. n \in Nat /\ n > 0
    BY DEF Good, ShapeOK
  <1>2. /\ Len(PopFrom(r).read_stack) = n - 1
        /\ \A i \in 1..(n - 1) : PopFrom(r).read_stack[i] = r.read_stack[i]
        /\ Top(r) = r.read_stack[n]
    BY <1>1, PoppedStack
  <1>3. Good(PopFrom(r))
    BY <1>1, PopKeepsGood
  <1> HIDE DEF n
  <1>4. /\ Len(popped.read_stack) = n - 2
        /\ \A i \in 1..(n - 2) : popped.read_stack[i] = r.read_stack[i]
        /\ Top(PopFrom(r)) = r.read_stack[n - 1]
        /\ Good(popped)
    <2> DEFINE p == PopFrom(r)
    <2>1. Good(p) /\ Len(p.read_stack) = n - 1 /\ n >= 2 /\ n \in Nat
      BY <1>1, <1>2, <1>3 DEF n
    <2>2. /\ Len(PopFrom(p).read_stack) = n - 1 - 1
          /\ \A i \in 1..(n - 1 - 1) : PopFrom(p).read_stack[i] = p.read_stack[i]
          /\ Top(p) = p.read_stack[n - 1]
      <3> HIDE DEF p
      <3>1. Len(p.read_stack) > 0
        BY <2>1
      <3> QED  BY <2>1, <3>1, PoppedStack
    <2>3. Good(PopFrom(p))
      <3> HIDE DEF p
      <3>1. Len(p.read_stack) > 0
        BY <2>1
      <3> QED  BY <2>1, <3>1, PopKeepsGood
    <2>4. n - 1 \in 1..(n - 1) /\ n - 1 - 1 = n - 2 /\ \A i \in 1..(n - 2) : i \in 1..(n - 1)
      BY <2>1
    <2> QED  BY <1>2, <2>2, <2>3, <2>4
  <1>5. Good(linked)
    <2> HIDE DEF popped, left, right
    <2> QED  BY <1>4, LinkKeepsGood DEF Linked
  <1>6. linked.read_stack = popped.read_stack
    <2>1. IsLookup(popped)
      BY <1>4, ShapeIsLookup DEF Good
    <2> HIDE DEF popped, left, right
    <2>2. IsLookup(Bump(popped, left, 1)) /\ Bump(popped, left, 1).read_stack = popped.read_stack
      BY <2>1, BumpFacts
    <2>3. IsLookup(counted) /\ counted.read_stack = popped.read_stack
      <3> DEFINE b == Bump(popped, left, 1)
      <3> HIDE DEF b
      <3>1. IsLookup(b) /\ b.read_stack = popped.read_stack
        BY <2>2 DEF b
      <3>2. IsLookup(Bump(b, right, 1)) /\ Bump(b, right, 1).read_stack = b.read_stack
        BY <3>1, BumpFacts
      <3> QED  BY <3>1, <3>2 DEF b
    <2> HIDE DEF counted, two
    <2> QED  BY <2>3 DEF IsLookup
  <1>7. Pop2AndConsOn(r) = PushTo(linked, cons)
    BY DEF Pop2AndConsOn
  <1>8. left = r.read_stack[n - 1].obj /\ right = r.read_stack[n].obj
    BY <1>2, <1>4
  <1> HIDE DEF linked, popped, left, right
  <1>9. LET s == PushTo(linked, cons).read_stack
            m == Len(linked.read_stack)
        IN  /\ Len(s) = m + 1
            /\ \A i \in 1..m : s[i] = linked.read_stack[i]
            /\ s[m + 1].obj = cons
    BY <1>5, PushedStack
  <1>10. n - 2 + 1 = n - 1
    BY <1>1
  <1> QED  BY <1>1, <1>4, <1>6, <1>7, <1>8, <1>9, <1>10 DEF n

\* An object and its hash are pushed.
LEMMA PicturePush ==
    ASSUME NEW v, NEW r, Pictured(v, r), NEW x \in Trees
    PROVE  Pictured(Pair(x, v), PushTo(r, H(x)))
  <1> DEFINE p == PushTo(r, H(x))
             n == Len(r.read_stack)
  <1>1. Good(r) /\ Good(p)
    BY PushKeepsGood DEF Pictured
  <1>2. PICK c : Pictures(c, v, r)
    BY DEF Pictured
  <1>3. /\ n \in Nat /\ Len(p.read_stack) = n + 1
        /\ \A i \in 1..n : p.read_stack[i] = r.read_stack[i]
        /\ p.read_stack[n + 1].obj = H(x)
    BY <1>1, PushedStack
  <1>4. /\ c[0] = Null /\ c[n] = v
        /\ \A j \in 1..n : /\ First(c[j]) \in Trees /\ c[j] = Pair(First(c[j]), c[j - 1])
                           /\ r.read_stack[j].obj = H(First(c[j]))
    BY <1>2 DEF Pictures
  <1> HIDE DEF n, p
  <1> DEFINE new == Pair(x, v)
             d == [i \in 0..(n + 1) |-> IF i = n + 1 THEN new ELSE c[i]]
  <1>5. First(new) = x
    BY PairFacts
  <1>6. d[0] = Null /\ d[n] = v /\ d[n + 1] = new /\ \A i \in 0..n : d[i] = c[i]
    BY <1>3, <1>4
  <1> HIDE DEF d
  <1>7. ASSUME NEW j \in 1..(n + 1)
        PROVE  /\ First(d[j]) \in Trees /\ d[j] = Pair(First(d[j]), d[j - 1])
               /\ p.read_stack[j].obj = H(First(d[j]))
    <2>1. CASE j = n + 1
      <3>1. d[j] = new /\ d[j - 1] = v
        BY <1>3, <1>6, <2>1
      <3> QED  BY <1>3, <1>5, <2>1, <3>1
    <2>2. CASE j # n + 1
      <3>1. j \in 1..n /\ d[j] = c[j] /\ d[j - 1] = c[j - 1]
        BY <1>3, <1>6, <2>2
      <3> QED  BY <1>3, <1>4, <3>1
    <2> QED  BY <2>1, <2>2
  <1>8. Pictures(d, new, p)
    BY <1>3, <1>6, <1>7 DEF Pictures
  <1> QED  BY <1>1, <1>8 DEF Pictured, p

\* A pair's two children become the pair.
LEMMA PictureCons ==
    ASSUME NEW x \in Trees, IsPair(x), NEW v, NEW r,
           Pictured(Pair(Rest(x), Pair(First(x), v)), r)
    PROVE  Len(r.read_stack) >= 2 /\ Pictured(Pair(x, v), Pop2AndConsOn(r))
  <1> DEFINE p == Pop2AndConsOn(r)
             n == Len(r.read_stack)
             u == Pair(First(x), v)
             t == Pair(Rest(x), u)
  <1>1. Good(r)
    BY DEF Pictured
  <1>2. PICK c : Pictures(c, t, r)
    BY DEF Pictured
  <1>3. /\ c[0] = Null /\ c[n] = t
        /\ \A j \in 1..n : /\ First(c[j]) \in Trees /\ c[j] = Pair(First(c[j]), c[j - 1])
                           /\ r.read_stack[j].obj = H(First(c[j]))
    BY <1>2 DEF Pictures
  <1>4. n \in Nat
    BY <1>1 DEF Good, ShapeOK
  <1>5. /\ First(t) = Rest(x) /\ Rest(t) = u /\ First(u) = First(x) /\ Rest(u) = v
        /\ t # Null /\ u # Null
    BY PairFacts, NullFacts
  <1>6. \A j \in 1..n : Rest(c[j]) = c[j - 1]
    BY <1>3, PairFacts
  <1> HIDE DEF n, t, u
  <1>7. n # 0 /\ c[n - 1] = u
    BY <1>3, <1>4, <1>5, <1>6
  <1>8. n >= 2 /\ c[n - 2] = v
    <2>1. n - 1 # 0
      BY <1>3, <1>4, <1>5, <1>7
    <2>2. n - 1 \in 1..n /\ (n - 1) - 1 = n - 2 /\ n >= 2
      BY <1>4, <1>7, <2>1
    <2> QED  BY <1>5, <1>6, <1>7, <2>2
  <1>9. r.read_stack[n].obj = H(Rest(x)) /\ r.read_stack[n - 1].obj = H(First(x))
    <2>1. n \in 1..n /\ n - 1 \in 1..n
      BY <1>4, <1>8
    <2>2. r.read_stack[n].obj = H(First(c[n])) /\ r.read_stack[n - 1].obj = H(First(c[n - 1]))
      BY <1>3, <2>1
    <2> QED  BY <1>3, <1>5, <1>7, <2>2
  <1>10. H(x) = HashPair(H(First(x)), H(Rest(x)))
    BY TreeHashFacts DEF H
  <1>11. /\ Len(p.read_stack) = n - 1
         /\ \A i \in 1..(n - 2) : p.read_stack[i] = r.read_stack[i]
         /\ p.read_stack[n - 1].obj = H(x)
    BY <1>1, <1>8, <1>9, <1>10, ConsedStack DEF n
  <1>12. Good(p)
    BY <1>1, <1>8, Pop2AndConsKeepsGood DEF n
  <1> HIDE DEF p
  <1> DEFINE new == Pair(x, v)
             d == [i \in 0..(n - 1) |-> IF i = n - 1 THEN new ELSE c[i]]
  <1>13. First(new) = x
    BY PairFacts
  <1>14. d[0] = Null /\ d[n - 2] = v /\ d[n - 1] = new /\ \A i \in 0..(n - 2) : d[i] = c[i]
    BY <1>3, <1>4, <1>8
  <1> HIDE DEF d
  <1>15. ASSUME NEW j \in 1..(n - 1)
         PROVE  /\ First(d[j]) \in Trees /\ d[j] = Pair(First(d[j]), d[j - 1])
                /\ p.read_stack[j].obj = H(First(d[j]))
    <2>1. CASE j = n - 1
      <3>1. d[j] = new /\ d[j - 1] = v
        <4>1. j - 1 = n - 2
          BY <1>4, <2>1
        <4> QED  BY <1>14, <2>1, <4>1
      <3> QED  BY <1>11, <1>13, <2>1, <3>1
    <2>2. CASE j # n - 1
      <3>1. j \in 1..n /\ j \in 1..(n - 2) /\ j \in 0..(n - 2) /\ j - 1 \in 0..(n - 2)
        BY <1>4, <2>2
      <3>2. d[j] = c[j] /\ d[j - 1] = c[j - 1]
        BY <1>14, <3>1
      <3> QED  BY <1>3, <1>11, <3>1, <3>2
    <2> QED  BY <2>1, <2>2
  <1>16. Pictures(d, new, p)
    BY <1>11, <1>14, <1>15 DEF Pictures
  <1> QED  BY <1>8, <1>12, <1>16 DEF Pictured, n, p

\* The value stack and every tree, with their hashes.
LEMMA PictureFaithful ==
    ASSUME NEW v, NEW r, Pictured(v, r)
    PROVE  \E Q : /\ Faithful(Q) /\ <<v, r.root_hash>> \in Q
                  /\ \A x \in Trees : <<x, H(x)>> \in Q
  <1> DEFINE n == Len(r.read_stack)
  <1>1. PICK c : Pictures(c, v, r)
    BY DEF Pictured
  <1>2. /\ c[0] = Null /\ c[n] = v
        /\ \A j \in 1..n : /\ First(c[j]) \in Trees /\ c[j] = Pair(First(c[j]), c[j - 1])
                           /\ r.read_stack[j].obj = H(First(c[j]))
    BY <1>1 DEF Pictures
  <1>3. /\ n \in Nat
        /\ RootAfter(r, 0) = HashAtom(<<>>) /\ RootAfter(r, n) = r.root_hash
        /\ \A j \in 1..n : RootAfter(r, j) = HashPair(r.read_stack[j].obj, RootAfter(r, j - 1))
    BY DEF Pictured, Good, ShapeOK, Chained, StackIndices, RootAfter
  <1> HIDE DEF n
  <1> DEFINE q == [j \in 0..n |-> <<c[j], RootAfter(r, j)>>]
             t == [x \in Trees |-> <<x, H(x)>>]
             Q == { q[j] : j \in 0..n } \cup { t[x] : x \in Trees }
  <1>4. \A j \in 0..n : q[j] = <<c[j], RootAfter(r, j)>> /\ q[j] \in Q
    OBVIOUS
  <1>5. \A x \in Trees : t[x] = <<x, H(x)>> /\ t[x] \in Q
    OBVIOUS
  <1>6. \A m \in Q : (\E j \in 0..n : m = q[j]) \/ (\E x \in Trees : m = t[x])
    OBVIOUS
  <1> HIDE DEF Q, q, t
  <1>7. ASSUME NEW j \in 0..n
        PROVE  Matches(q[j], Q)
    <2>1. CASE j = 0
      <3>1. q[j] = <<Atom(<<>>), HashAtom(<<>>)>>
        BY <1>2, <1>3, <1>4, <2>1 DEF Null
      <3> QED  BY <3>1, Zenon DEF Matches
    <2>2. CASE j # 0
      <3>1. j \in 1..n /\ j - 1 \in 0..n
        BY <1>3, <2>2
      <3> DEFINE a == First(c[j])
                 b == c[j - 1]
                 g == H(a)
                 h == RootAfter(r, j - 1)
      <3>2. q[j] = <<Pair(a, b), HashPair(g, h)>>
        BY <1>2, <1>3, <1>4, <3>1
      <3>3. <<a, g>> \in Q /\ <<b, h>> \in Q
        <4>1. a \in Trees
          BY <1>2, <3>1
        <4> QED  BY <1>4, <1>5, <3>1, <4>1
      <3> QED  BY <3>2, <3>3, Zenon DEF Matches
    <2> QED  BY <2>1, <2>2
  <1>8. ASSUME NEW x \in Trees
        PROVE  Matches(t[x], Q)
    <2>1. CASE IsPair(x)
      <3> DEFINE a == First(x)
                 b == Rest(x)
      <3>1. x = Pair(a, b) /\ a \in Trees /\ b \in Trees
        BY <2>1, TreeFacts
      <3>2. H(x) = HashPair(H(a), H(b))
        BY <2>1, TreeHashFacts DEF H
      <3>3. t[x] = <<Pair(a, b), HashPair(H(a), H(b))>>
        BY <1>5, <3>1, <3>2
      <3>4. <<a, H(a)>> \in Q /\ <<b, H(b)>> \in Q
        BY <1>5, <3>1
      <3> QED  BY <3>3, <3>4, Zenon DEF Matches
    <2>2. CASE ~IsPair(x)
      <3>1. x = Atom(x.atom) /\ H(x) = HashAtom(x.atom)
        BY <2>2, TreeFacts, TreeHashFacts DEF H
      <3>2. t[x] = <<Atom(x.atom), HashAtom(x.atom)>>
        BY <1>5, <3>1
      <3> QED  BY <3>2, Zenon DEF Matches
    <2> QED  BY <2>1, <2>2
  <1>9. Faithful(Q)
    BY <1>6, <1>7, <1>8, Zenon DEF Faithful
  <1>10. <<v, r.root_hash>> \in Q
    BY <1>2, <1>3, <1>4
  <1> QED  BY <1>5, <1>9, <1>10

\* The value stack is the list of the trees whose hashes read_stack has.
ListsTrees(v, r) ==
    LET n == Len(r.read_stack)
    IN  /\ ListLenIs(v, n) /\ Nullp(Tail_(v, n))
        /\ \A i \in 1..n : /\ Item(v, i) \in Trees
                           /\ TreeHash(Trees)[Item(v, i)] = r.read_stack[n + 1 - i].obj

LEMMA PictureLists ==
    ASSUME NEW v, NEW r, Pictured(v, r)
    PROVE  ListsTrees(v, r)
  <1> DEFINE n == Len(r.read_stack)
  <1>1. PICK c : Pictures(c, v, r)
    BY DEF Pictured
  <1>2. /\ c[0] = Null /\ c[n] = v
        /\ \A j \in 1..n : /\ First(c[j]) \in Trees /\ c[j] = Pair(First(c[j]), c[j - 1])
                           /\ r.read_stack[j].obj = H(First(c[j]))
    BY <1>1 DEF Pictures
  <1>3. n \in Nat
    BY DEF Pictured, Good, ShapeOK
  <1> HIDE DEF n
  <1>4. \A j \in 1..n : IsPair(c[j]) /\ Rest(c[j]) = c[j - 1]
    BY <1>2, PairFacts
  <1>5. ASSUME NEW k \in 0..n PROVE Tail_(v, k) = c[n - k]
    <2>1. ~IsPair(c[0])
      BY <1>2, NullFacts
    <2> QED  BY <1>2, <1>3, <1>4, <2>1, TailFacts
  <1>6. Tail_(v, n) = Null
    <2>1. n \in 0..n /\ n - n = 0
      BY <1>3
    <2> QED  BY <1>2, <1>5, <2>1
  <1>7. n > 0 => IsPair(Tail_(v, n - 1))
    <2>1. SUFFICES ASSUME n > 0 PROVE IsPair(Tail_(v, n - 1))
      OBVIOUS
    <2>2. n - 1 \in 0..n /\ n - (n - 1) = 1 /\ 1 \in 1..n
      BY <1>3, <2>1
    <2> QED  BY <1>4, <1>5, <2>2
  <1>8. ASSUME NEW i \in 1..n
        PROVE  /\ Item(v, i) \in Trees
               /\ TreeHash(Trees)[Item(v, i)] = r.read_stack[n + 1 - i].obj
    <2>1. i - 1 \in 0..n /\ n - (i - 1) = n + 1 - i /\ n + 1 - i \in 1..n
      BY <1>3
    <2>2. Item(v, i) = First(c[n + 1 - i])
      BY <1>5, <2>1 DEF Item
    <2> QED  BY <1>2, <2>1, <2>2 DEF H
  <1>9. ListLenIs(v, n) /\ Nullp(Tail_(v, n))
    BY <1>6, <1>7, NullFacts DEF ListLenIs
  <1> QED  BY <1>8, <1>9, Zenon DEF ListsTrees, n

-----------------------------------------------------------------------------
(***************************************************************************)
(* What the reader has to do                                               *)
(*                                                                         *)
(* A plan E has the n operations on op_stack, the next one last, and the   *)
(* value stack val[i] that there will be when the first i of them are      *)
(* left: at the end the tree alone.  The i-th operation is to push         *)
(* First(val[i-1]).                                                        *)
(***************************************************************************)
PlanStep(E, i) ==
    LET x == First(E.val[i - 1])
        v == Rest(E.val[i - 1])
    IN  /\ x \in Trees /\ E.val[i - 1] = Pair(x, v)
        /\ \/ E.op[i] = "read" /\ E.val[i] = v
           \/ E.op[i] = "cons" /\ IsPair(x) /\ E.val[i] = Pair(Rest(x), Pair(First(x), v))

IsPlan(E, t) == /\ E.n \in Nat
                /\ E.val[0] = Pair(t, Null)
                /\ \A i \in 1..E.n : PlanStep(E, i)

\* All that was done of the plan, until i operations are left, is conses.
Left(E, i) == i \in 0..E.n /\ \A j \in (i + 1)..E.n : E.op[j] = "cons"

\* The next read of a plan.
NextRead(E, m) == m \in 1..E.n /\ E.op[m] = "read" /\ Left(E, m)

Keeps(E, D, m) == /\ \A j \in 1..m : D.op[j] = E.op[j]
                  /\ \A j \in 0..m : D.val[j] = E.val[j]

\* The plan after that read: of an object, or of the mark of a pair.
Leaf(E, m, D)   == Keeps(E, D, m - 1) /\ D.n = m - 1
Branch(E, m, D) == /\ Keeps(E, D, m - 1) /\ D.n = m + 2
                   /\ D.op[m] = "cons" /\ D.op[m + 1] = "read" /\ D.op[m + 2] = "read"
                   /\ LET x == First(E.val[m - 1])
                      IN  /\ D.val[m] = Pair(Rest(x), Pair(First(x), E.val[m]))
                          /\ D.val[m + 1] = Pair(First(x), E.val[m])
                          /\ D.val[m + 2] = E.val[m]

LEMMA NextReadUnique ==
    ASSUME NEW E, E.n \in Nat, NEW m, NextRead(E, m), NEW k, NextRead(E, k)
    PROVE  k = m
  <1>1. m \in 1..E.n /\ k \in 1..E.n /\ E.op[m] # "cons" /\ E.op[k] # "cons"
    BY DEF NextRead
  <1>2. CASE k < m
    <2>1. m \in (k + 1)..E.n
      BY <1>1, <1>2
    <2> QED  BY <1>1, <2>1 DEF NextRead, Left
  <1>3. CASE m < k
    <2>1. k \in (m + 1)..E.n
      BY <1>1, <1>3
    <2> QED  BY <1>1, <2>1 DEF NextRead, Left
  <1> QED  BY <1>1, <1>2, <1>3

LEMMA NextReadFacts ==
    ASSUME NEW E, NEW t, IsPlan(E, t), NEW m, NextRead(E, m)
    PROVE  /\ m \in 1..E.n /\ E.n \in Nat
           /\ First(E.val[m - 1]) \in Trees
           /\ E.val[m - 1] = Pair(First(E.val[m - 1]), E.val[m])
  <1>1. m \in 1..E.n /\ E.op[m] = "read" /\ E.n \in Nat
    BY DEF NextRead, IsPlan
  <1>2. PlanStep(E, m)
    BY <1>1 DEF IsPlan
  <1> QED  BY <1>1, <1>2 DEF PlanStep

LEMMA LeafIsPlan ==
    ASSUME NEW E, NEW t, IsPlan(E, t), NEW m, NextRead(E, m), NEW D, Leaf(E, m, D)
    PROVE  IsPlan(D, t) /\ Left(D, m - 1) /\ D.val[m - 1] = E.val[m - 1]
  <1>1. m \in 1..E.n /\ E.n \in Nat
    BY NextReadFacts
  <1>2. /\ D.n = m - 1
        /\ \A j \in 1..(m - 1) : D.op[j] = E.op[j]
        /\ \A j \in 0..(m - 1) : D.val[j] = E.val[j]
    BY DEF Leaf, Keeps
  <1>3. ASSUME NEW i \in 1..(m - 1) PROVE PlanStep(D, i)
    <2>1. i \in 1..E.n /\ i \in 0..(m - 1) /\ i - 1 \in 0..(m - 1)
      BY <1>1
    <2>2. PlanStep(E, i)
      BY <2>1 DEF IsPlan
    <2>3. D.op[i] = E.op[i] /\ D.val[i] = E.val[i] /\ D.val[i - 1] = E.val[i - 1]
      BY <1>2, <2>1
    <2> QED  BY <2>2, <2>3 DEF PlanStep
  <1>4. D.n \in Nat /\ D.val[0] = Pair(t, Null)
    BY <1>1, <1>2 DEF IsPlan
  <1>5. Left(D, m - 1)
    BY <1>1, <1>2 DEF Left
  <1>6. D.val[m - 1] = E.val[m - 1]
    BY <1>1, <1>2
  <1> QED  BY <1>2, <1>3, <1>4, <1>5, <1>6 DEF IsPlan

LEMMA BranchIsPlan ==
    ASSUME NEW E, NEW t, IsPlan(E, t), NEW m, NextRead(E, m), IsPair(First(E.val[m - 1])),
           NEW D, Branch(E, m, D)
    PROVE  IsPlan(D, t) /\ Left(D, m + 2) /\ D.val[m + 2] = E.val[m]
  <1> DEFINE x == First(E.val[m - 1])
             v == E.val[m]
             u == Pair(First(x), v)
  <1>1. m \in 1..E.n /\ E.n \in Nat /\ x \in Trees /\ E.val[m - 1] = Pair(x, v)
    BY NextReadFacts
  <1>2. /\ D.n = m + 2
        /\ \A j \in 1..(m - 1) : D.op[j] = E.op[j]
        /\ \A j \in 0..(m - 1) : D.val[j] = E.val[j]
        /\ D.op[m] = "cons" /\ D.op[m + 1] = "read" /\ D.op[m + 2] = "read"
        /\ D.val[m] = Pair(Rest(x), u) /\ D.val[m + 1] = u /\ D.val[m + 2] = v
    BY DEF Branch, Keeps
  <1>3. First(x) \in Trees /\ Rest(x) \in Trees
    BY <1>1, TreeFacts
  <1>4. D.val[m - 1] = Pair(x, v)
    BY <1>1, <1>2
  <1>5. ASSUME NEW i \in 1..(m + 2) PROVE PlanStep(D, i)
    <2>1. CASE i \in 1..(m - 1)
      <3>1. i \in 1..E.n /\ i \in 0..(m - 1) /\ i - 1 \in 0..(m - 1)
        BY <1>1, <2>1
      <3>2. PlanStep(E, i)
        BY <3>1 DEF IsPlan
      <3>3. D.op[i] = E.op[i] /\ D.val[i] = E.val[i] /\ D.val[i - 1] = E.val[i - 1]
        BY <1>2, <2>1, <3>1
      <3> QED  BY <3>2, <3>3 DEF PlanStep
    <2>2. CASE i = m
      <3>1. First(D.val[i - 1]) = x /\ Rest(D.val[i - 1]) = v
        BY <1>4, <2>2, PairFacts
      <3>2. D.op[i] = "cons" /\ D.val[i] = Pair(Rest(x), Pair(First(x), v)) /\ D.val[i - 1] = Pair(x, v)
        BY <1>2, <1>4, <2>2
      <3>3. IsPair(x)
        OBVIOUS
      <3> HIDE DEF x, v
      <3> QED  BY <1>1, <3>1, <3>2, <3>3 DEF PlanStep
    <2>3. CASE i = m + 1
      <3>1. D.val[i - 1] = Pair(Rest(x), u) /\ D.val[i] = u /\ D.op[i] = "read"
        <4>1. i - 1 = m
          BY <1>1, <2>3
        <4> QED  BY <1>2, <2>3, <4>1
      <3> HIDE DEF u, x, v
      <3>2. First(D.val[i - 1]) = Rest(x) /\ Rest(D.val[i - 1]) = u
        BY <3>1, PairFacts
      <3> QED  BY <1>3, <3>1, <3>2 DEF PlanStep
    <2>4. CASE i = m + 2
      <3>1. D.val[i - 1] = Pair(First(x), v) /\ D.val[i] = v /\ D.op[i] = "read"
        <4>1. i - 1 = m + 1
          BY <1>1, <2>4
        <4> QED  BY <1>2, <2>4, <4>1
      <3> HIDE DEF u, x, v
      <3>2. First(D.val[i - 1]) = First(x) /\ Rest(D.val[i - 1]) = v
        BY <3>1, PairFacts
      <3> QED  BY <1>3, <3>1, <3>2 DEF PlanStep
    <2> QED  BY <1>1, <2>1, <2>2, <2>3, <2>4
  <1>6. D.n \in Nat /\ D.val[0] = Pair(t, Null)
    BY <1>1, <1>2 DEF IsPlan
  <1>7. Left(D, m + 2)
    BY <1>1, <1>2 DEF Left
  <1> QED  BY <1>2, <1>5, <1>6, <1>7 DEF IsPlan

LEMMA BranchExists ==
    ASSUME NEW E, NEW m, m \in Nat \ {0}
    PROVE  \E D : Branch(E, m, D)
  <1> DEFINE x == First(E.val[m - 1])
             a == Pair(Rest(x), Pair(First(x), E.val[m]))
             b == Pair(First(x), E.val[m])
             c == E.val[m]
             op  == [j \in 1..(m + 2) |-> IF j < m THEN E.op[j] ELSE IF j = m THEN "cons" ELSE "read"]
             val == [j \in 0..(m + 2) |-> IF j < m THEN E.val[j] ELSE IF j = m THEN a
                                          ELSE IF j = m + 1 THEN b ELSE c]
             D == [n |-> m + 2, op |-> op, val |-> val]
  <1> HIDE DEF a, b, c
  <1>1. /\ op[m] = "cons" /\ op[m + 1] = "read" /\ op[m + 2] = "read"
        /\ \A j \in 1..(m - 1) : op[j] = E.op[j]
    OBVIOUS
  <1>2. /\ val[m] = a /\ val[m + 1] = b /\ val[m + 2] = c
        /\ \A j \in 0..(m - 1) : val[j] = E.val[j]
    OBVIOUS
  <1>3. D.n = m + 2 /\ D.op = op /\ D.val = val
    OBVIOUS
  <1> HIDE DEF op, val, D
  <1>4. Branch(E, m, D)
    BY <1>1, <1>2, <1>3 DEF Branch, Keeps, a, b, c
  <1> QED  BY <1>4

LEMMA LeafExists ==
    ASSUME NEW E, NEW m
    PROVE  \E D : Leaf(E, m, D)
  <1>1. Leaf(E, m, [n |-> m - 1, op |-> E.op, val |-> E.val])
    BY DEF Leaf, Keeps
  <1> QED  BY <1>1

-----------------------------------------------------------------------------
(***************************************************************************)
(* The reader, the nodes left to write, and the writer's picture of the    *)
(* reader, each somewhere in a plan                                        *)
(***************************************************************************)
ReaderAt(E, i, ops, v) ==
    /\ Left(E, i) /\ v = E.val[i]
    /\ ops \in Seq({"read", "cons"}) /\ Len(ops) = i
    /\ \A j \in 1..i : ops[j] = E.op[j]

PictureAt(E, i, ops, r) ==
    /\ Left(E, i) /\ Pictured(E.val[i], r)
    /\ ops \in Seq({"P", "C"}) /\ Len(ops) = i
    /\ \A j \in 1..i : ops[j] = IF E.op[j] = "read" THEN "P" ELSE "C"

Reads(E) == { i \in 1..E.n : E.op[i] = "read" }

WritesAt(E, nodes) ==
    /\ nodes \in Seq(Trees) /\ Len(nodes) = HowMany(Reads(E), E.n)
    /\ \A i \in Reads(E) : nodes[HowMany(Reads(E), i)] = First(E.val[i - 1])

\* Taking the last element off a stack and putting up to three on it.
LEMMA StackFacts ==
    ASSUME NEW S, NEW s \in Seq(S), Len(s) > 0
    PROVE  /\ Front(s) \in Seq(S) /\ Len(Front(s)) = Len(s) - 1
           /\ \A i \in 1..(Len(s) - 1) : Front(s)[i] = s[i]
           /\ Last(s) = s[Len(s)] /\ Len(s) \in Nat \ {0} /\ Last(s) \in S
  <1>1. Len(s) \in Nat \ {0} /\ s[Len(s)] \in S
    OBVIOUS
  <1>2. s \in Seq(Range(s))
    BY SeqOfItsRange
  <1>3. /\ Len(Front(s)) = Len(s) - 1
        /\ \A i \in 1..(Len(s) - 1) : Front(s)[i] = s[i]
    BY <1>2, FrontFacts DEF Front
  <1>4. Front(s) \in Seq(S)
    BY <1>1 DEF Front
  <1> QED  BY <1>1, <1>3, <1>4 DEF Last

LEMMA PutTwo ==
    ASSUME NEW S, NEW s \in Seq(S), NEW a \in S, NEW b \in S
    PROVE  /\ s \o <<a, b>> \in Seq(S) /\ Len(s \o <<a, b>>) = Len(s) + 2
           /\ \A i \in 1..Len(s) : (s \o <<a, b>>)[i] = s[i]
           /\ (s \o <<a, b>>)[Len(s) + 1] = a /\ (s \o <<a, b>>)[Len(s) + 2] = b
           /\ Len(s) \in Nat
  OBVIOUS

LEMMA PutThree ==
    ASSUME NEW S, NEW s \in Seq(S), NEW a \in S, NEW b \in S, NEW c \in S
    PROVE  /\ s \o <<a, b, c>> \in Seq(S) /\ Len(s \o <<a, b, c>>) = Len(s) + 3
           /\ \A i \in 1..Len(s) : (s \o <<a, b, c>>)[i] = s[i]
           /\ (s \o <<a, b, c>>)[Len(s) + 1] = a /\ (s \o <<a, b, c>>)[Len(s) + 2] = b
           /\ (s \o <<a, b, c>>)[Len(s) + 3] = c
           /\ Len(s) \in Nat
  OBVIOUS

\* The reader takes a token.
LEMMA ReaderLeaf ==
    ASSUME NEW E, NEW t, IsPlan(E, t), NEW ops, NEW v, NEW m, ReaderAt(E, m, ops, v),
           NextRead(E, m), NEW D, Leaf(E, m, D)
    PROVE  ReaderAt(D, m - 1, Front(ops), Pair(First(E.val[m - 1]), v))
  <1>1. /\ m \in 1..E.n /\ E.n \in Nat
        /\ E.val[m - 1] = Pair(First(E.val[m - 1]), E.val[m])
    BY NextReadFacts
  <1>2. Left(D, m - 1) /\ D.val[m - 1] = E.val[m - 1]
    BY LeafIsPlan
  <1>3. ops \in Seq({"read", "cons"}) /\ Len(ops) = m /\ v = E.val[m] /\ \A j \in 1..m : ops[j] = E.op[j]
    BY DEF ReaderAt
  <1>4. /\ Front(ops) \in Seq({"read", "cons"}) /\ Len(Front(ops)) = m - 1
        /\ \A j \in 1..(m - 1) : Front(ops)[j] = ops[j]
    BY <1>1, <1>3, StackFacts
  <1>5. \A j \in 1..(m - 1) : D.op[j] = E.op[j]
    BY DEF Leaf, Keeps
  <1>6. \A j \in 1..(m - 1) : j \in 1..m
    BY <1>1
  <1> QED  BY <1>1, <1>2, <1>3, <1>4, <1>5, <1>6, Zenon DEF ReaderAt

LEMMA ReaderBranch ==
    ASSUME NEW E, NEW t, IsPlan(E, t), NEW ops, NEW v, NEW m, ReaderAt(E, m, ops, v),
           NextRead(E, m), IsPair(First(E.val[m - 1])), NEW D, Branch(E, m, D)
    PROVE  ReaderAt(D, m + 2, Front(ops) \o <<"cons", "read", "read">>, v)
  <1> DEFINE s == Front(ops)
             u == s \o <<"cons", "read", "read">>
  <1>1. m \in 1..E.n /\ E.n \in Nat
    BY NextReadFacts
  <1>2. Left(D, m + 2) /\ D.val[m + 2] = E.val[m]
    BY BranchIsPlan
  <1>3. ops \in Seq({"read", "cons"}) /\ Len(ops) = m /\ v = E.val[m] /\ \A j \in 1..m : ops[j] = E.op[j]
    BY DEF ReaderAt
  <1>4. /\ s \in Seq({"read", "cons"}) /\ Len(s) = m - 1
        /\ \A j \in 1..(m - 1) : s[j] = ops[j]
    BY <1>1, <1>3, StackFacts
  <1> HIDE DEF s
  <1>5. /\ u \in Seq({"read", "cons"}) /\ Len(u) = Len(s) + 3
        /\ \A i \in 1..Len(s) : u[i] = s[i]
        /\ u[Len(s) + 1] = "cons" /\ u[Len(s) + 2] = "read" /\ u[Len(s) + 3] = "read"
    BY <1>4, PutThree
  <1> HIDE DEF u
  <1>6. /\ \A j \in 1..(m - 1) : D.op[j] = E.op[j]
        /\ D.op[m] = "cons" /\ D.op[m + 1] = "read" /\ D.op[m + 2] = "read"
    BY DEF Branch, Keeps
  <1>7. /\ Len(u) = m + 2 /\ \A i \in 1..(m - 1) : u[i] = ops[i]
        /\ u[m] = "cons" /\ u[m + 1] = "read" /\ u[m + 2] = "read"
    <2>1. m - 1 + 3 = m + 2 /\ m - 1 + 1 = m /\ m - 1 + 2 = m + 1
      BY <1>1
    <2> QED  BY <1>4, <1>5, <2>1
  <1>8. ASSUME NEW j \in 1..(m + 2) PROVE u[j] = D.op[j]
    <2>1. j \in 1..(m - 1) \/ j = m \/ j = m + 1 \/ j = m + 2
      BY <1>1
    <2>2. j \in 1..(m - 1) => j \in 1..m
      BY <1>1
    <2> QED  BY <1>3, <1>6, <1>7, <2>1, <2>2
  <1> QED  BY <1>2, <1>3, <1>5, <1>7, <1>8, Zenon DEF ReaderAt, u, s

LEMMA ReaderCons ==
    ASSUME NEW E, NEW t, IsPlan(E, t), NEW i, NEW ops, NEW v, ReaderAt(E, i, ops, v),
           Len(ops) > 0, Last(ops) = "cons"
    PROVE  LET right == First(v)
               left  == First(Rest(v))
           IN  /\ IsPair(v) /\ IsPair(Rest(v))
               /\ ReaderAt(E, i - 1, Front(ops), Pair(Pair(left, right), Rest(Rest(v))))
  <1>1. /\ ops \in Seq({"read", "cons"}) /\ Len(ops) = i /\ v = E.val[i] /\ Left(E, i)
        /\ \A j \in 1..i : ops[j] = E.op[j]
    BY DEF ReaderAt
  <1>2. /\ Front(ops) \in Seq({"read", "cons"}) /\ Len(Front(ops)) = i - 1
        /\ \A j \in 1..(i - 1) : Front(ops)[j] = ops[j]
        /\ Last(ops) = ops[i] /\ i \in Nat \ {0}
    BY <1>1, StackFacts
  <1>3. E.op[i] = "cons" /\ i \in 1..E.n /\ E.n \in Nat
    BY <1>1, <1>2 DEF Left, IsPlan
  <1>4. PlanStep(E, i)
    BY <1>3 DEF IsPlan
  <1> DEFINE x == First(E.val[i - 1])
             w == Rest(E.val[i - 1])
  <1>5. /\ x \in Trees /\ E.val[i - 1] = Pair(x, w)
        /\ IsPair(x) /\ v = Pair(Rest(x), Pair(First(x), w))
    BY <1>1, <1>3, <1>4 DEF PlanStep
  <1>6. x = Pair(First(x), Rest(x))
    BY <1>5, TreeFacts
  <1> HIDE DEF x, w
  <1>7. /\ First(v) = Rest(x) /\ Rest(v) = Pair(First(x), w) /\ IsPair(v)
    BY <1>5, PairFacts
  <1>8. First(Rest(v)) = First(x) /\ Rest(Rest(v)) = w /\ IsPair(Rest(v))
    BY <1>7, PairFacts
  <1>9. Pair(Pair(First(Rest(v)), First(v)), Rest(Rest(v))) = E.val[i - 1]
    BY <1>5, <1>6, <1>7, <1>8
  <1>10. Left(E, i - 1)
    <2>1. ASSUME NEW j \in (i - 1 + 1)..E.n PROVE E.op[j] = "cons"
      <3>1. j = i \/ j \in (i + 1)..E.n
        BY <1>2, <1>3
      <3> QED  BY <1>1, <1>3, <3>1 DEF Left
    <2> QED  BY <1>2, <1>3, <2>1 DEF Left
  <1>11. \A j \in 1..(i - 1) : Front(ops)[j] = E.op[j]
    <2>1. \A j \in 1..(i - 1) : j \in 1..i
      BY <1>2
    <2> QED  BY <1>1, <1>2, <2>1
  <1> QED  BY <1>2, <1>7, <1>8, <1>9, <1>10, <1>11, Zenon DEF ReaderAt

\* The writer's picture follows.
LEMMA PictureLeaf ==
    ASSUME NEW E, NEW t, IsPlan(E, t), NEW m, NextRead(E, m), NEW ops, NEW r, PictureAt(E, m, ops, r),
           NEW D, Leaf(E, m, D)
    PROVE  PictureAt(D, m - 1, Front(ops), PushTo(r, H(First(E.val[m - 1]))))
  <1> DEFINE x == First(E.val[m - 1])
  <1>1. m \in 1..E.n /\ E.n \in Nat /\ x \in Trees /\ E.val[m - 1] = Pair(x, E.val[m])
    BY NextReadFacts
  <1>2. Left(D, m - 1) /\ D.val[m - 1] = Pair(x, E.val[m])
    BY <1>1, LeafIsPlan
  <1> HIDE DEF x
  <1>3. /\ ops \in Seq({"P", "C"}) /\ Len(ops) = m
        /\ \A j \in 1..m : ops[j] = IF E.op[j] = "read" THEN "P" ELSE "C"
        /\ Pictured(E.val[m], r)
    BY DEF PictureAt
  <1>4. /\ Front(ops) \in Seq({"P", "C"}) /\ Len(Front(ops)) = m - 1
        /\ \A j \in 1..(m - 1) : Front(ops)[j] = ops[j]
    BY <1>1, <1>3, StackFacts
  <1>5. \A j \in 1..(m - 1) : D.op[j] = E.op[j]
    BY DEF Leaf, Keeps
  <1>6. \A j \in 1..(m - 1) : j \in 1..m
    BY <1>1
  <1>7. Pictured(D.val[m - 1], PushTo(r, H(x)))
    BY <1>1, <1>2, <1>3, PicturePush
  <1>8. \A j \in 1..(m - 1) : Front(ops)[j] = IF D.op[j] = "read" THEN "P" ELSE "C"
    BY <1>3, <1>4, <1>5, <1>6
  <1> QED  BY <1>2, <1>4, <1>7, <1>8, Zenon DEF PictureAt, x

LEMMA PictureBranch ==
    ASSUME NEW E, NEW t, IsPlan(E, t), NEW m, NextRead(E, m), NEW ops, NEW r, PictureAt(E, m, ops, r),
           IsPair(First(E.val[m - 1])), NEW D, Branch(E, m, D)
    PROVE  PictureAt(D, m + 2, Front(ops) \o <<"C", "P", "P">>, r)
  <1> DEFINE s == Front(ops)
             u == s \o <<"C", "P", "P">>
  <1>1. m \in 1..E.n /\ E.n \in Nat
    BY NextReadFacts
  <1>2. Left(D, m + 2) /\ D.val[m + 2] = E.val[m]
    BY BranchIsPlan
  <1>3. /\ ops \in Seq({"P", "C"}) /\ Len(ops) = m
        /\ \A j \in 1..m : ops[j] = IF E.op[j] = "read" THEN "P" ELSE "C"
        /\ Pictured(E.val[m], r)
    BY DEF PictureAt
  <1>4. /\ s \in Seq({"P", "C"}) /\ Len(s) = m - 1
        /\ \A j \in 1..(m - 1) : s[j] = ops[j]
    BY <1>1, <1>3, StackFacts
  <1> HIDE DEF s
  <1>5. /\ u \in Seq({"P", "C"}) /\ Len(u) = Len(s) + 3
        /\ \A i \in 1..Len(s) : u[i] = s[i]
        /\ u[Len(s) + 1] = "C" /\ u[Len(s) + 2] = "P" /\ u[Len(s) + 3] = "P"
    BY <1>4, PutThree
  <1> HIDE DEF u
  <1>6. /\ \A j \in 1..(m - 1) : D.op[j] = E.op[j]
        /\ D.op[m] = "cons" /\ D.op[m + 1] = "read" /\ D.op[m + 2] = "read"
    BY DEF Branch, Keeps
  <1>7. /\ Len(u) = m + 2 /\ \A i \in 1..(m - 1) : u[i] = ops[i]
        /\ u[m] = "C" /\ u[m + 1] = "P" /\ u[m + 2] = "P"
    <2>1. m - 1 + 3 = m + 2 /\ m - 1 + 1 = m /\ m - 1 + 2 = m + 1
      BY <1>1
    <2> QED  BY <1>4, <1>5, <2>1
  <1>8. ASSUME NEW j \in 1..(m + 2) PROVE u[j] = IF D.op[j] = "read" THEN "P" ELSE "C"
    <2>1. j \in 1..(m - 1) \/ j = m \/ j = m + 1 \/ j = m + 2
      BY <1>1
    <2>2. j \in 1..(m - 1) => j \in 1..m
      BY <1>1
    <2> QED  BY <1>3, <1>6, <1>7, <2>1, <2>2
  <1> QED  BY <1>2, <1>3, <1>5, <1>7, <1>8, Zenon DEF PictureAt, u, s

LEMMA PictureConsed ==
    ASSUME NEW E, NEW t, IsPlan(E, t), NEW i, NEW ops, NEW r, PictureAt(E, i, ops, r),
           Len(ops) > 0, Last(ops) = "C"
    PROVE  Len(r.read_stack) >= 2 /\ PictureAt(E, i - 1, Front(ops), Pop2AndConsOn(r))
  <1>1. /\ ops \in Seq({"P", "C"}) /\ Len(ops) = i /\ Left(E, i) /\ Pictured(E.val[i], r)
        /\ \A j \in 1..i : ops[j] = IF E.op[j] = "read" THEN "P" ELSE "C"
    BY DEF PictureAt
  <1>2. /\ Front(ops) \in Seq({"P", "C"}) /\ Len(Front(ops)) = i - 1
        /\ \A j \in 1..(i - 1) : Front(ops)[j] = ops[j]
        /\ Last(ops) = ops[i] /\ i \in Nat \ {0}
    BY <1>1, StackFacts
  <1>3. i \in 1..E.n /\ E.n \in Nat /\ E.op[i] # "read"
    BY <1>1, <1>2 DEF Left, IsPlan
  <1>4. PlanStep(E, i)
    BY <1>3 DEF IsPlan
  <1> DEFINE x == First(E.val[i - 1])
             w == Rest(E.val[i - 1])
  <1>5. /\ x \in Trees /\ E.val[i - 1] = Pair(x, w) /\ E.op[i] = "cons"
        /\ IsPair(x) /\ E.val[i] = Pair(Rest(x), Pair(First(x), w))
    BY <1>3, <1>4 DEF PlanStep
  <1> HIDE DEF x, w
  <1>6. Len(r.read_stack) >= 2 /\ Pictured(E.val[i - 1], Pop2AndConsOn(r))
    BY <1>1, <1>5, PictureCons
  <1>7. Left(E, i - 1)
    <2>1. ASSUME NEW j \in (i - 1 + 1)..E.n PROVE E.op[j] = "cons"
      <3>1. j = i \/ j \in (i + 1)..E.n
        BY <1>2, <1>3
      <3> QED  BY <1>1, <1>5, <3>1 DEF Left
    <2> QED  BY <1>2, <1>3, <2>1 DEF Left
  <1>8. \A j \in 1..(i - 1) : Front(ops)[j] = IF E.op[j] = "read" THEN "P" ELSE "C"
    <2>1. \A j \in 1..(i - 1) : j \in 1..i
      BY <1>2
    <2> QED  BY <1>1, <1>2, <2>1
  <1> QED  BY <1>2, <1>6, <1>7, <1>8, Zenon DEF PictureAt

\* The nodes left to write are those to be read.
LEMMA LastOne ==
    ASSUME NEW I, NEW n \in Nat, HowMany(I, n) # 0
    PROVE  \E m \in 1..n : /\ m \in I /\ HowMany(I, m) = HowMany(I, n)
                           /\ \A j \in (m + 1)..n : j \notin I
  <1> DEFINE S == { k \in Nat : HowMany(I, k) # 0 =>
                       \E m \in 1..k : /\ m \in I /\ HowMany(I, m) = HowMany(I, k)
                                       /\ \A j \in (m + 1)..k : j \notin I }
  <1>1. 0 \in S
    BY HowManyNone
  <1>2. ASSUME NEW k \in Nat, k \in S PROVE k + 1 \in S
    <2>1. HowMany(I, k + 1) = HowMany(I, k) + (IF k + 1 \in I THEN 1 ELSE 0) /\ HowMany(I, k) \in Nat
      BY HowManyStep, HowManyType
    <2>2. CASE k + 1 \in I
      <3>1. k + 1 \in 1..(k + 1) /\ \A j \in (k + 1 + 1)..(k + 1) : j \notin I
        OBVIOUS
      <3> QED  BY <2>2, <3>1
    <2>3. CASE k + 1 \notin I
      <3> SUFFICES ASSUME HowMany(I, k + 1) # 0
                   PROVE  \E m \in 1..(k + 1) : /\ m \in I /\ HowMany(I, m) = HowMany(I, k + 1)
                                                /\ \A j \in (m + 1)..(k + 1) : j \notin I
        OBVIOUS
      <3>1. HowMany(I, k) = HowMany(I, k + 1) /\ HowMany(I, k) # 0
        BY <2>1, <2>3
      <3>2. PICK m \in 1..k : /\ m \in I /\ HowMany(I, m) = HowMany(I, k)
                              /\ \A j \in (m + 1)..k : j \notin I
        BY <1>2, <3>1
      <3>3. m \in 1..(k + 1) /\ \A j \in (m + 1)..(k + 1) : j \notin I
        <4>1. \A j \in (m + 1)..(k + 1) : j = k + 1 \/ j \in (m + 1)..k
          OBVIOUS
        <4> QED  BY <2>3, <3>2, <4>1
      <3> QED  BY <3>1, <3>2, <3>3
    <2> QED  BY <2>2, <2>3
  <1> HIDE DEF S
  <1>3. n \in S
    BY <1>1, <1>2, SetInduction
  <1> QED  BY <1>3 DEF S

LEMMA CountsItself ==
    ASSUME NEW I, NEW i \in Nat, i # 0, i \in I
    PROVE  HowMany(I, i) = HowMany(I, i - 1) + 1 /\ HowMany(I, i - 1) \in Nat
  <1> DEFINE k == i - 1
  <1>1. k \in Nat /\ k + 1 = i
    OBVIOUS
  <1> HIDE DEF k
  <1>2. HowMany(I, k + 1) = HowMany(I, k) + (IF k + 1 \in I THEN 1 ELSE 0) /\ HowMany(I, k) \in Nat
    BY <1>1, HowManyStep, HowManyType
  <1>3. HowMany(I, i) = HowMany(I, k) + 1 /\ HowMany(I, k) \in Nat
    BY <1>1, <1>2
  <1> QED  BY <1>3 DEF k

LEMMA SameCount ==
    ASSUME NEW I, NEW J, NEW n, \A i \in 1..n : i \in I <=> i \in J
    PROVE  HowMany(I, n) = HowMany(J, n)
  <1>1. { i \in 1..n : i \in I } = { i \in 1..n : i \in J }
    OBVIOUS
  <1> QED  BY <1>1 DEF HowMany

LEMMA WritesNext ==
    ASSUME NEW E, NEW t, IsPlan(E, t), NEW nodes, WritesAt(E, nodes), Len(nodes) > 0
    PROVE  \E m : /\ NextRead(E, m) /\ Last(nodes) = First(E.val[m - 1])
                  /\ HowMany(Reads(E), m) = Len(nodes)
  <1>1. E.n \in Nat /\ nodes \in Seq(Trees) /\ Len(nodes) = HowMany(Reads(E), E.n)
    BY DEF IsPlan, WritesAt
  <1>2. PICK m \in 1..E.n : /\ m \in Reads(E) /\ HowMany(Reads(E), m) = HowMany(Reads(E), E.n)
                            /\ \A j \in (m + 1)..E.n : j \notin Reads(E)
    BY <1>1, LastOne
  <1>3. ASSUME NEW j \in (m + 1)..E.n PROVE E.op[j] = "cons"
    <2>1. j \in 1..E.n
      BY <1>1
    <2>2. PlanStep(E, j) /\ E.op[j] # "read"
      BY <1>2, <2>1 DEF Reads, IsPlan
    <2> QED  BY <2>2 DEF PlanStep
  <1>4. NextRead(E, m)
    <2>1. m \in 0..E.n
      BY <1>1
    <2> QED  BY <1>2, <1>3, <2>1 DEF NextRead, Left, Reads
  <1>5. Last(nodes) = nodes[Len(nodes)]
    BY DEF Last
  <1>6. nodes[HowMany(Reads(E), m)] = First(E.val[m - 1])
    BY <1>2 DEF WritesAt
  <1> QED  BY <1>1, <1>2, <1>4, <1>5, <1>6

LEMMA NothingToWrite ==
    ASSUME NEW E, NEW t, IsPlan(E, t), WritesAt(E, <<>>)
    PROVE  \A i \in 1..E.n : E.op[i] = "cons"
  <1>1. E.n \in Nat /\ HowMany(Reads(E), E.n) = 0
    BY DEF IsPlan, WritesAt
  <1>2. ASSUME NEW i \in 1..E.n, E.op[i] # "cons" PROVE FALSE
    <2>1. PlanStep(E, i)
      BY DEF IsPlan
    <2>2. i \in Reads(E)
      BY <1>2, <2>1 DEF PlanStep, Reads
    <2>3. i - 1 \in Nat /\ (i - 1) + 1 = i /\ i \in 0..E.n
      BY <1>1
    <2>4. HowMany(Reads(E), i) = HowMany(Reads(E), i - 1) + 1 /\ HowMany(Reads(E), i - 1) \in Nat
      BY <2>2, <2>3, CountsItself
    <2>5. HowMany(Reads(E), i) <= HowMany(Reads(E), E.n)
      BY <1>1, <2>3, HowManyGrows
    <2> QED  BY <1>1, <2>4, <2>5
  <1> QED  BY <1>2

\* The counts below the next read are the same in the plan after it.
LEMMA CountsBelow ==
    ASSUME NEW E, E.n \in Nat, NEW m \in 1..E.n, NEW D, Keeps(E, D, m - 1), D.n >= m - 1, D.n \in Nat,
           NEW k \in 0..(m - 1)
    PROVE  HowMany(Reads(D), k) = HowMany(Reads(E), k)
  <1>1. \A i \in 1..k : i \in Reads(D) <=> i \in Reads(E)
    <2>1. ASSUME NEW i \in 1..k PROVE i \in Reads(D) <=> i \in Reads(E)
      <3>1. i \in 1..(m - 1) /\ i \in 1..E.n /\ i \in 1..D.n
        OBVIOUS
      <3>2. D.op[i] = E.op[i]
        BY <3>1 DEF Keeps
      <3> QED  BY <3>1, <3>2 DEF Reads
    <2> QED  BY <2>1
  <1> QED  BY <1>1, SameCount

LEMMA WritesBelow ==
    ASSUME NEW E, NEW t, IsPlan(E, t), NEW nodes, WritesAt(E, nodes), Len(nodes) > 0,
           NEW m, NextRead(E, m), HowMany(Reads(E), m) = Len(nodes),
           NEW D, Keeps(E, D, m - 1), D.n >= m - 1, D.n \in Nat
    PROVE  /\ Front(nodes) \in Seq(Trees) /\ Len(Front(nodes)) = Len(nodes) - 1
           /\ Len(nodes) \in Nat \ {0}
           /\ HowMany(Reads(D), m - 1) = Len(nodes) - 1
           /\ \A i \in 1..(m - 1) : i \in Reads(D) =>
                 /\ HowMany(Reads(D), i) \in 1..(Len(nodes) - 1)
                 /\ Front(nodes)[HowMany(Reads(D), i)] = First(D.val[i - 1])
  <1> DEFINE K == Len(nodes)
  <1>1. /\ E.n \in Nat /\ nodes \in Seq(Trees) /\ m \in 1..E.n /\ m \in Reads(E)
        /\ \A i \in Reads(E) : nodes[HowMany(Reads(E), i)] = First(E.val[i - 1])
    BY DEF IsPlan, WritesAt, NextRead, Reads
  <1>2. /\ Front(nodes) \in Seq(Trees) /\ Len(Front(nodes)) = K - 1
        /\ \A i \in 1..(K - 1) : Front(nodes)[i] = nodes[i]
        /\ K \in Nat \ {0}
    BY <1>1, StackFacts
  <1>a. HowMany(Reads(E), m) = K
    OBVIOUS
  <1> HIDE DEF K
  <1>3. HowMany(Reads(E), m - 1) = K - 1
    <2>1. m \in Nat /\ m # 0
      BY <1>1
    <2>2. HowMany(Reads(E), m) = HowMany(Reads(E), m - 1) + 1 /\ HowMany(Reads(E), m - 1) \in Nat
      BY <1>1, <2>1, CountsItself
    <2> QED  BY <1>2, <1>a, <2>2
  <1>4. \A k \in 0..(m - 1) : HowMany(Reads(D), k) = HowMany(Reads(E), k)
    BY <1>1, CountsBelow
  <1>5. ASSUME NEW i \in 1..(m - 1), i \in Reads(D)
        PROVE  /\ HowMany(Reads(D), i) \in 1..(K - 1)
               /\ Front(nodes)[HowMany(Reads(D), i)] = First(D.val[i - 1])
    <2>1. /\ i \in Nat /\ i # 0 /\ m - 1 \in Nat /\ i \in 0..(m - 1) /\ i - 1 \in 0..(m - 1)
          /\ i \in 1..E.n
      BY <1>1
    <2>2. HowMany(Reads(D), i) = HowMany(Reads(D), i - 1) + 1 /\ HowMany(Reads(D), i - 1) \in Nat
      BY <1>5, <2>1, CountsItself
    <2>3. HowMany(Reads(E), i) <= HowMany(Reads(E), m - 1)
      BY <2>1, HowManyGrows
    <2>4. HowMany(Reads(D), i) = HowMany(Reads(E), i)
      BY <1>4, <2>1
    <2> DEFINE h == HowMany(Reads(D), i)
    <2>5. h \in 1..(K - 1)
      BY <1>2, <1>3, <2>2, <2>3, <2>4
    <2>6. i \in Reads(E) /\ D.val[i - 1] = E.val[i - 1]
      BY <1>5, <2>1 DEF Keeps, Reads
    <2> QED  BY <1>1, <1>2, <2>4, <2>5, <2>6
  <1>6. m - 1 \in 0..(m - 1)
    BY <1>1
  <1> QED  BY <1>2, <1>3, <1>4, <1>5, <1>6 DEF K

LEMMA WritesLeaf ==
    ASSUME NEW E, NEW t, IsPlan(E, t), NEW nodes, WritesAt(E, nodes), Len(nodes) > 0,
           NEW m, NextRead(E, m), HowMany(Reads(E), m) = Len(nodes), NEW D, Leaf(E, m, D)
    PROVE  WritesAt(D, Front(nodes))
  <1>1. m \in 1..E.n /\ E.n \in Nat
    BY NextReadFacts
  <1>2. Keeps(E, D, m - 1) /\ D.n = m - 1 /\ D.n >= m - 1 /\ D.n \in Nat
    BY <1>1 DEF Leaf
  <1>3. /\ Front(nodes) \in Seq(Trees) /\ Len(Front(nodes)) = Len(nodes) - 1
        /\ HowMany(Reads(D), m - 1) = Len(nodes) - 1
        /\ \A i \in 1..(m - 1) : i \in Reads(D) =>
                 Front(nodes)[HowMany(Reads(D), i)] = First(D.val[i - 1])
    BY <1>2, WritesBelow
  <1>4. \A i \in Reads(D) : i \in 1..(m - 1)
    BY <1>2 DEF Reads
  <1> QED  BY <1>2, <1>3, <1>4, Zenon DEF WritesAt

LEMMA WritesBranch ==
    ASSUME NEW E, NEW t, IsPlan(E, t), NEW nodes, WritesAt(E, nodes), Len(nodes) > 0,
           NEW m, NextRead(E, m), HowMany(Reads(E), m) = Len(nodes),
           IsPair(First(E.val[m - 1])), NEW D, Branch(E, m, D)
    PROVE  LET x == First(E.val[m - 1])
           IN  WritesAt(D, Front(nodes) \o <<Rest(x), First(x)>>)
  <1> DEFINE x == First(E.val[m - 1])
             s == Front(nodes)
             u == s \o <<Rest(x), First(x)>>
             K == Len(nodes)
             h(i) == HowMany(Reads(D), i)
  <1>1. m \in 1..E.n /\ E.n \in Nat /\ x \in Trees
    BY NextReadFacts
  <1>2. First(x) \in Trees /\ Rest(x) \in Trees
    BY <1>1, TreeFacts
  <1>3. /\ Keeps(E, D, m - 1) /\ D.n = m + 2 /\ D.n >= m - 1 /\ D.n \in Nat
        /\ D.op[m] = "cons" /\ D.op[m + 1] = "read" /\ D.op[m + 2] = "read"
        /\ D.val[m] = Pair(Rest(x), Pair(First(x), E.val[m]))
        /\ D.val[m + 1] = Pair(First(x), E.val[m])
    BY <1>1 DEF Branch
  <1>4. First(D.val[m]) = Rest(x) /\ First(D.val[m + 1]) = First(x)
    BY <1>3, PairFacts
  <1>5. /\ s \in Seq(Trees) /\ Len(s) = K - 1 /\ K \in Nat \ {0}
        /\ h(m - 1) = K - 1
        /\ \A i \in 1..(m - 1) : i \in Reads(D) =>
                 h(i) \in 1..(K - 1) /\ s[h(i)] = First(D.val[i - 1])
    BY <1>3, WritesBelow
  <1> HIDE DEF s, x
  <1>6. /\ u \in Seq(Trees) /\ Len(u) = Len(s) + 2
        /\ \A i \in 1..Len(s) : u[i] = s[i]
        /\ u[Len(s) + 1] = Rest(x) /\ u[Len(s) + 2] = First(x)
    BY <1>2, <1>5, PutTwo
  <1> HIDE DEF u, K
  <1>7. /\ Len(u) = K + 1 /\ \A i \in 1..(K - 1) : u[i] = s[i]
        /\ u[K] = Rest(x) /\ u[K + 1] = First(x)
    <2>1. K - 1 + 2 = K + 1 /\ K - 1 + 1 = K
      BY <1>5
    <2> QED  BY <1>5, <1>6, <2>1
  <1>8. m \notin Reads(D) /\ m + 1 \in Reads(D) /\ m + 2 \in Reads(D)
    BY <1>1, <1>3 DEF Reads
  <1>9. h(m) = K - 1 /\ h(m + 1) = K /\ h(m + 2) = K + 1
    <2>1. h(m) = h(m - 1)
      <3> DEFINE k == m - 1
      <3>1. k \in Nat /\ k + 1 = m
        BY <1>1
      <3> HIDE DEF k
      <3>2. h(k + 1) = h(k) + (IF k + 1 \in Reads(D) THEN 1 ELSE 0) /\ h(k) \in Nat
        BY <3>1, HowManyStep, HowManyType
      <3>3. h(m) = h(k)
        BY <1>8, <3>1, <3>2
      <3> QED  BY <3>3 DEF k
    <2>2. h(m + 1) = h(m) + 1
      <3>1. m \in Nat
        BY <1>1
      <3> QED  BY <1>8, <3>1, HowManyStep
    <2>3. h(m + 2) = h(m + 1) + 1
      <3>1. m + 1 \in Nat /\ (m + 1) + 1 = m + 2
        BY <1>1
      <3>2. h((m + 1) + 1) = h(m + 1) + 1
        BY <1>8, <3>1, HowManyStep
      <3> QED  BY <3>1, <3>2
    <2> HIDE DEF h
    <2> QED  BY <1>5, <2>1, <2>2, <2>3
  <1>10. ASSUME NEW i \in Reads(D) PROVE u[h(i)] = First(D.val[i - 1])
    <2>1. i \in 1..(m - 1) \/ i = m + 1 \/ i = m + 2
      <3>1. i \in 1..(m + 2)
        BY <1>3 DEF Reads
      <3> QED  BY <1>1, <1>8, <3>1
    <2>2. CASE i \in 1..(m - 1)
      BY <1>5, <1>7, <2>2
    <2>3. CASE i = m + 1
      <3>1. i - 1 = m
        BY <1>1, <2>3
      <3> QED  BY <1>4, <1>7, <1>9, <2>3, <3>1
    <2>4. CASE i = m + 2
      <3>1. i - 1 = m + 1
        BY <1>1, <2>4
      <3> QED  BY <1>4, <1>7, <1>9, <2>4, <3>1
    <2> QED  BY <2>1, <2>2, <2>3, <2>4
  <1> QED  BY <1>3, <1>6, <1>7, <1>9, <1>10 DEF WritesAt, u, s, x

-----------------------------------------------------------------------------
(***************************************************************************)
(* Tokens                                                                  *)
(***************************************************************************)
LeadsTo(v, path, x) ==
    LET legs == Legs(IntOf(path))
    IN  IntOf(path) # 0 /\ ~PathIntoAtom(v, legs) /\ Follow(v, legs) = x

\* The token takes the reader from the plan E to the plan D.
Follows(E, token, D) ==
    \E m : /\ NextRead(E, m)
           /\ LET x == First(E.val[m - 1])
              IN  \/ token = ConsToken /\ IsPair(x) /\ Branch(E, m, D)
                  \/ token = AtomToken(x.atom) /\ IsAtom(x) /\ Leaf(E, m, D)
                  \/ IsBackrefToken(token) /\ LeadsTo(E.val[m], token.path, x) /\ Leaf(E, m, D)

LEMMA TokenFacts ==
    /\ ~IsAtomToken(ConsToken) /\ ~IsBackrefToken(ConsToken) /\ ConsToken # CutToken
    /\ ~IsAtomToken(CutToken) /\ ~IsBackrefToken(CutToken)
    /\ \A b : /\ IsAtomToken(AtomToken(b)) /\ ~IsBackrefToken(AtomToken(b)) /\ AtomToken(b).atom = b
              /\ IsBackrefToken(BackrefToken(b)) /\ ~IsAtomToken(BackrefToken(b))
              /\ BackrefToken(b).path = b
              /\ AtomToken(b) # ConsToken /\ AtomToken(b) # CutToken
              /\ BackrefToken(b) # ConsToken /\ BackrefToken(b) # CutToken
  <1>1. DOMAIN ConsToken = {"token"} /\ DOMAIN CutToken = {"token"} /\ ConsToken # CutToken
    BY DEF ConsToken, CutToken
  <1>2. ASSUME NEW b
        PROVE  /\ DOMAIN AtomToken(b) = {"atom"} /\ DOMAIN BackrefToken(b) = {"path"}
               /\ AtomToken(b).atom = b /\ BackrefToken(b).path = b
    BY DEF AtomToken, BackrefToken
  <1> QED  BY <1>1, <1>2 DEF IsAtomToken, IsBackrefToken

\* A path that the writer found, once written, leads the reader to the object.
LEMMA BackrefLeads ==
    ASSUME NEW v, NEW r, Pictured(v, r), NEW x \in Trees, NEW n, FindPath(r, H(x), n) # NoPath
    PROVE  /\ LeadsTo(v, BytesOf(FindPath(r, H(x), n)), x)
           /\ FindPaths(r, H(x), n) # {}
           /\ r.root_hash = H(x) \/ IsChild(r, H(x))
  <1> DEFINE found == FindPaths(r, H(x), n)
             numbers == { PathNumber(p) : p \in found }
             best == FindPath(r, H(x), n)
  <1>1. found # {} /\ best = Min(numbers)
    BY DEF FindPath
  <1>2. LinksAreSound(r) /\ IsFiniteSet(DOMAIN r.count)
    BY DEF Pictured, Good, ShapeOK, LinksAreSound
  <1>3. ASSUME NEW p \in found
        PROVE  /\ HasTrail(H(x), p, r.root_hash) /\ p \in Seq({LEFT, RIGHT})
               /\ r.root_hash = H(x) \/ IsChild(r, H(x))
    BY <1>2, SearchFinds
  <1> HIDE DEF found
  <1>4. numbers \subseteq Nat /\ numbers # {}
    <2>1. ASSUME NEW p \in found PROVE PathNumber(p) \in Nat
      BY <1>3, LegsOfPath, Zenon
    <2> QED  BY <1>1, <2>1
  <1>5. best \in numbers
    <2> HIDE DEF numbers, best
    <2>1. \E k \in numbers : \A j \in numbers : k <= j
      BY <1>4, LeastOf
    <2> QED  BY <1>1, <2>1 DEF Min
  <1>6. PICK p \in found : best = PathNumber(p)
    BY <1>5
  <1> HIDE DEF best, numbers
  <1>7. best \in Nat /\ best # 0
    BY <1>3, <1>6, LegsOfPath, Zenon
  <1>8. PICK Q : /\ Faithful(Q) /\ <<v, r.root_hash>> \in Q
                 /\ \A y \in Trees : <<y, H(y)>> \in Q
    BY PictureFaithful
  <1> DEFINE legs == Legs(PathNumber(p))
  <1>9. <<Follow(v, legs), H(x)>> \in Q /\ ~PathIntoAtom(v, legs)
    BY <1>3, <1>8, PathLeads
  <1>10. Follow(v, legs) = x
    BY <1>8, <1>9, SameHashSameTree DEF H
  <1>11. IntOf(BytesOf(best)) = best
    BY <1>7, NumberOfBytes
  <1>12. LeadsTo(v, BytesOf(best), x)
    BY <1>6, <1>7, <1>9, <1>10, <1>11 DEF LeadsTo
  <1> QED  BY <1>1, <1>3, <1>12 DEF best, found

-----------------------------------------------------------------------------
(***************************************************************************)
(* The inductive invariant: there is a plan of the reader's for every      *)
(* token, each token leads from one plan to the next, the reader is in the *)
(* plan for its position, and the writer in the last one.  A token that    *)
(* was cut has no plan.                                                    *)
(***************************************************************************)
IsHistory(G, N, t, tokens) == /\ N \in Nat
                              /\ \A k \in 0..N : IsPlan(G[k], t)
                              /\ \A k \in 1..N : Follows(G[k - 1], tokens[k], G[k])

InHistory(G, N) ==
    /\ IsHistory(G, N, tree, f)
    /\ Len(f) = N \/ (Len(f) = N + 1 /\ f[N + 1] = CutToken /\ writer = "raised")
    /\ pos \in 0..N /\ \E i : ReaderAt(G[pos], i, op_stack, val_stack)
    /\ WritesAt(G[N], write_stack)
    /\ allow_backrefs => \E i : PictureAt(G[N], i, read_op_stack, rcl)

IInv == /\ tree \in Inputs
        /\ f \in Seq(Range(f))
        /\ writer \in {"writing", "written", "raised"}
        /\ eof <=> writer # "writing"
        /\ writer = "written" => write_stack = <<>>
        /\ reader = "done" => result = tree
        /\ FailsOnlyForCause
        /\ \E G, N : InHistory(G, N)

\* No token is too large: what is, is refused.
TokensFit == f \in Seq(Range(f)) /\ \A i \in DOMAIN f : ~TooLargeToken(f[i])

LEMMA OneMoreFits ==
    ASSUME TokensFit, NEW t, ~TooLargeToken(t), f' = Append(f, t)
    PROVE  TokensFit'
  <1>1. /\ f' \in Seq(Range(f')) /\ Len(f') = Len(f) + 1 /\ Len(f) \in Nat
        /\ \A i \in 1..Len(f) : f'[i] = f[i]
        /\ f'[Len(f) + 1] = t
    BY AppendFacts DEF TokensFit
  <1>2. DOMAIN f = 1..Len(f) /\ DOMAIN f' = 1..Len(f')
    BY <1>1 DEF TokensFit
  <1>3. \A i \in 1..Len(f') : i \in 1..Len(f) \/ i = Len(f) + 1
    BY <1>1
  <1> QED  BY <1>1, <1>2, <1>3, Zenon DEF TokensFit

LEMMA NextTokensFit == TokensFit /\ [Next]_vars => TokensFit'
  <1> SUFFICES ASSUME TokensFit, [Next]_vars PROVE TokensFit'
    OBVIOUS
  <1>1. ~TooLargeToken(CutToken) /\ ~TooLargeToken(ConsToken)
    BY TokenFacts DEF TooLargeToken
  <1>2. CASE UNCHANGED f
    BY <1>2 DEF TokensFit
  <1>3. CASE WriteBackref \/ WriteAtom
    <2>1. f' = Append(f, NextToken) /\ ~TooLargeToken(NextToken)
      BY <1>3 DEF WriteBackref, WriteAtom, Yield, MayWrite, Refused
    <2> QED  BY <2>1, OneMoreFits
  <1>4. CASE WriteCons
    <2>1. f' = Append(f, ConsToken)
      BY <1>4 DEF WriteCons, Yield
    <2> QED  BY <1>1, <2>1, OneMoreFits
  <1>5. CASE ExceedSize \/ RefuseAtom
    <2>1. f' = Append(f, CutToken) \/ f' = f
      BY <1>5 DEF ExceedSize, RefuseAtom
    <2> QED  BY <1>1, <1>2, <2>1, OneMoreFits
  <1> QED  BY <1>2, <1>3, <1>4, <1>5
           DEF Next, Write, WriterNext, Read, ReaderNext, Terminated, ConsReadStack, EndWriting,
               vars, streamVars

LEMMA HistoryGrows ==
    ASSUME NEW G, NEW N, NEW t, NEW tokens, IsHistory(G, N, t, tokens),
           tokens \in Seq(Range(tokens)), Len(tokens) = N,
           NEW token, NEW D, IsPlan(D, t), Follows(G[N], token, D)
    PROVE  \E K : /\ IsHistory(K, N + 1, t, Append(tokens, token))
                  /\ K[N + 1] = D /\ \A k \in 0..N : K[k] = G[k]
  <1> DEFINE K == [k \in 0..(N + 1) |-> IF k = N + 1 THEN D ELSE G[k]]
             more == Append(tokens, token)
  <1>1. N \in Nat
    BY DEF IsHistory
  <1>2. /\ \A i \in 1..N : more[i] = tokens[i]
        /\ more[N + 1] = token
    BY AppendFacts
  <1> HIDE DEF more
  <1>3. K[N + 1] = D /\ \A k \in 0..N : K[k] = G[k]
    BY <1>1
  <1> HIDE DEF K
  <1>4. ASSUME NEW k \in 0..(N + 1) PROVE IsPlan(K[k], t)
    <2>1. k \in 0..N \/ k = N + 1
      BY <1>1
    <2> QED  BY <1>3, <2>1 DEF IsHistory
  <1>5. ASSUME NEW k \in 1..(N + 1) PROVE Follows(K[k - 1], more[k], K[k])
    <2>1. CASE k = N + 1
      <3>1. k - 1 = N /\ N \in 0..N
        BY <1>1, <2>1
      <3> QED  BY <1>2, <1>3, <2>1, <3>1
    <2>2. CASE k # N + 1
      <3>1. k \in 1..N /\ k \in 0..N /\ k - 1 \in 0..N
        BY <1>1, <2>2
      <3> QED  BY <1>2, <1>3, <3>1 DEF IsHistory
    <2> QED  BY <2>1, <2>2
  <1>6. N + 1 \in Nat
    BY <1>1
  <1>7. IsHistory(K, N + 1, t, more)
    BY <1>4, <1>5, <1>6 DEF IsHistory
  <1> QED  BY <1>3, <1>7 DEF more

LEMMA NonEmpty ==
    ASSUME NEW S, NEW s \in Seq(S)
    PROVE  (s # <<>> <=> Len(s) > 0) /\ Len(s) \in Nat
  OBVIOUS

\* The picture is at a read exactly if that is the next read.
LEMMA PictureNext ==
    ASSUME NEW E, NEW t, IsPlan(E, t), NEW i, NEW ops, NEW r, PictureAt(E, i, ops, r),
           ops # <<>>, Last(ops) = "P"
    PROVE  NextRead(E, i)
  <1>1. /\ ops \in Seq({"P", "C"}) /\ Len(ops) = i /\ Left(E, i)
        /\ \A j \in 1..i : ops[j] = IF E.op[j] = "read" THEN "P" ELSE "C"
    BY DEF PictureAt
  <1>2. Last(ops) = ops[i] /\ i \in Nat \ {0}
    BY <1>1, NonEmpty, StackFacts
  <1>3. i \in 1..E.n /\ i \in 1..i
    BY <1>1, <1>2 DEF Left, IsPlan
  <1>4. E.op[i] = "read"
    BY <1>1, <1>2, <1>3
  <1> QED  BY <1>1, <1>3, <1>4 DEF NextRead

LEMMA ReaderNextRead ==
    ASSUME NEW E, NEW t, IsPlan(E, t), NEW i, NEW ops, NEW v, ReaderAt(E, i, ops, v),
           ops # <<>>, Last(ops) = "read"
    PROVE  NextRead(E, i)
  <1>1. /\ ops \in Seq({"read", "cons"}) /\ Len(ops) = i /\ Left(E, i)
        /\ \A j \in 1..i : ops[j] = E.op[j]
    BY DEF ReaderAt
  <1>2. Last(ops) = ops[i] /\ i \in Nat \ {0}
    BY <1>1, NonEmpty, StackFacts
  <1>3. i \in 1..E.n /\ i \in 1..i
    BY <1>1, <1>2 DEF Left, IsPlan
  <1> QED  BY <1>1, <1>2, <1>3 DEF NextRead

\* A writer that writes a token takes the history on.
LEMMA WriterMoves ==
    ASSUME IInv, NEW G, NEW N, InHistory(G, N), writer = "writing",
           NEW token, Yield(token), UNCHANGED readerVars,
           NEW D, IsPlan(D, tree), Follows(G[N], token, D), WritesAt(D, write_stack'),
           allow_backrefs => \E i : PictureAt(D, i, read_op_stack', rcl')
    PROVE  IInv'
  <1> USE DEF IInv
  <1>1. /\ f' = Append(f, token) /\ tree' = tree /\ allow_backrefs' = allow_backrefs
        /\ writer' = writer /\ eof' = eof
        /\ op_stack' = op_stack /\ val_stack' = val_stack /\ pos' = pos /\ reader' = reader
        /\ result' = result /\ reads_backrefs' = reads_backrefs
    BY DEF Yield, readerVars
  <1>2. Len(f) = N /\ N \in Nat /\ f \in Seq(Range(f))
    BY DEF InHistory, IsHistory
  <1>3. IsHistory(G, N, tree, f)
    BY DEF InHistory
  <1>4. PICK K : /\ IsHistory(K, N + 1, tree, Append(f, token))
                 /\ K[N + 1] = D /\ \A k \in 0..N : K[k] = G[k]
    BY <1>2, <1>3, HistoryGrows
  <1>5. /\ f' \in Seq(Range(f')) /\ Len(f') = N + 1
        /\ \A i \in 1..N : f'[i] = f[i]
    BY <1>1, <1>2, AppendFacts
  <1>6. InHistory(K, N + 1)'
    <2>1. pos' \in 0..(N + 1) /\ K[pos'] = G[pos]
      BY <1>1, <1>2, <1>4 DEF InHistory
    <2>2. \E i : ReaderAt(K[pos'], i, op_stack', val_stack')
      BY <1>1, <2>1 DEF InHistory
    <2>3. IsHistory(K, N + 1, tree', f')
      BY <1>1, <1>4
    <2>4. /\ WritesAt(K[N + 1], write_stack')
          /\ allow_backrefs' => \E i : PictureAt(K[N + 1], i, read_op_stack', rcl')
      BY <1>1, <1>4
    <2> QED  BY <1>5, <2>1, <2>2, <2>3, <2>4 DEF InHistory
  <1>7. FailsOnlyForCause'
    <2>1. HasBackrefs => HasBackrefs'
      <3>1. SUFFICES ASSUME NEW i \in DOMAIN f, IsBackrefToken(f[i]) PROVE HasBackrefs'
        BY DEF HasBackrefs
      <3>2. i \in 1..N
        BY <1>2
      <3>3. i \in DOMAIN f' /\ f'[i] = f[i]
        BY <1>2, <1>5, <3>2
      <3> QED  BY <3>1, <3>3 DEF HasBackrefs
    <2> QED  BY <1>1, <2>1 DEF FailsOnlyForCause
  <1> QED  BY <1>1, <1>5, <1>6, <1>7

-----------------------------------------------------------------------------
(***************************************************************************)
(* The writer's steps                                                      *)
(***************************************************************************)
\* Where the writer is before it writes a token.
AtNode(E, m) ==
    /\ IsPlan(E, tree) /\ NextRead(E, m)
    /\ Node \in Trees /\ First(E.val[m - 1]) = Node
    /\ WritesAt(E, write_stack) /\ Len(write_stack) > 0
    /\ HowMany(Reads(E), m) = Len(write_stack)
    /\ allow_backrefs => PictureAt(E, m, read_op_stack, rcl)

LEMMA WriterAtNode ==
    ASSUME NEW G, NEW N, InHistory(G, N), MayWrite
    PROVE  \E m : AtNode(G[N], m)
  <1> DEFINE E == G[N]
  <1>1. IsPlan(E, tree) /\ E.n \in Nat
    <2>1. N \in 0..N
      BY DEF InHistory, IsHistory
    <2> QED  BY <2>1 DEF InHistory, IsHistory, IsPlan
  <1>2. WritesAt(E, write_stack)
    BY DEF InHistory
  <1> HIDE DEF E
  <1>3. Len(write_stack) > 0
    BY <1>2, NonEmpty DEF WritesAt, MayWrite, NodeTaken
  <1>4. PICK m : /\ NextRead(E, m) /\ Last(write_stack) = First(E.val[m - 1])
                 /\ HowMany(Reads(E), m) = Len(write_stack)
    BY <1>1, <1>2, <1>3, WritesNext
  <1>5. Node \in Trees /\ First(E.val[m - 1]) = Node
    BY <1>1, <1>4, NextReadFacts DEF Node
  <1>6. ASSUME allow_backrefs PROVE PictureAt(E, m, read_op_stack, rcl)
    <2>1. PICK i : PictureAt(E, i, read_op_stack, rcl)
      BY <1>6 DEF InHistory, E
    <2>2. NextRead(E, i)
      BY <1>1, <1>6, <2>1, PictureNext DEF MayWrite, NodeTaken
    <2>3. i = m
      BY <1>1, <1>4, <2>2, NextReadUnique
    <2> QED  BY <2>1, <2>3
  <1>7. AtNode(E, m)
    BY <1>1, <1>2, <1>3, <1>4, <1>5, <1>6 DEF AtNode
  <1> QED  BY <1>7 DEF E

\* The token that is next, and what it stands for.
LEMMA NextTokenFacts ==
    ASSUME Node \in Trees
    PROVE  /\ IsBackrefToken(NextToken) => /\ allow_backrefs /\ PathOf # NoPath
                                           /\ NextToken = BackrefToken(BytesOf(PathOf))
           /\ NextToken = ConsToken => IsPair(Node)
           /\ IsAtomToken(NextToken) => IsAtom(Node) /\ NextToken = AtomToken(Node.atom)
           /\ NextToken # CutToken
  <1>1. IsAtom(Node) \/ IsPair(Node)
    BY TreeFacts
  <1> DEFINE back == allow_backrefs /\ PathOf # NoPath
  <1>2. CASE back
    <2>1. NextToken = BackrefToken(BytesOf(PathOf))
      BY <1>2 DEF NextToken
    <2> QED  BY <1>2, <2>1, TokenFacts
  <1>3. CASE ~back /\ IsPair(Node)
    <2>1. NextToken = ConsToken
      BY <1>3 DEF NextToken
    <2> QED  BY <1>3, <2>1, TokenFacts
  <1>4. CASE ~back /\ ~IsPair(Node)
    <2>1. NextToken = AtomToken(Node.atom)
      BY <1>4 DEF NextToken
    <2> QED  BY <1>1, <1>4, <2>1, TokenFacts
  <1> QED  BY <1>2, <1>3, <1>4

\* A token for a whole object.
LEMMA WritesWhole ==
    ASSUME IInv, NEW G, NEW N, InHistory(G, N), MayWrite, NEW m, AtNode(G[N], m),
           NEW token, Yield(token), UNCHANGED readerVars,
           \/ token = AtomToken(Node.atom) /\ IsAtom(Node)
           \/ IsBackrefToken(token) /\ LeadsTo(G[N].val[m], token.path, Node),
           write_stack' = Front(write_stack),
           allow_backrefs => read_op_stack' = Front(read_op_stack) /\ rcl' = PushTo(rcl, Hash)
    PROVE  IInv'
  <1> DEFINE E == G[N]
  <1>1. PICK D : Leaf(E, m, D)
    BY LeafExists
  <1>2. /\ IsPlan(E, tree) /\ NextRead(E, m) /\ First(E.val[m - 1]) = Node
        /\ WritesAt(E, write_stack) /\ Len(write_stack) > 0
        /\ HowMany(Reads(E), m) = Len(write_stack)
        /\ allow_backrefs => PictureAt(E, m, read_op_stack, rcl)
    BY DEF AtNode
  <1>3. Follows(E, token, D)
    BY <1>1, <1>2 DEF Follows
  <1> HIDE DEF E
  <1>4. IsPlan(D, tree)
    BY <1>1, <1>2, LeafIsPlan
  <1>5. WritesAt(D, write_stack')
    BY <1>1, <1>2, WritesLeaf
  <1>6. ASSUME allow_backrefs PROVE \E i : PictureAt(D, i, read_op_stack', rcl')
    <2>1. PictureAt(D, m - 1, Front(read_op_stack), PushTo(rcl, H(First(E.val[m - 1]))))
      BY <1>1, <1>2, <1>6, PictureLeaf
    <2>2. rcl' = PushTo(rcl, H(Node)) /\ read_op_stack' = Front(read_op_stack)
      BY <1>6 DEF Hash, H
    <2> QED  BY <1>2, <2>1, <2>2
  <1>7. writer = "writing"
    BY DEF MayWrite, NodeTaken
  <1> QED  BY <1>3, <1>4, <1>5, <1>6, <1>7, WriterMoves DEF E

LEMMA WriteBackrefKeeps ==
    ASSUME IInv, WriteBackref, UNCHANGED readerVars
    PROVE  IInv'
  <1>1. PICK G, N : InHistory(G, N)
    BY DEF IInv
  <1>2. MayWrite /\ IsBackrefToken(NextToken) /\ Yield(NextToken)
    BY DEF WriteBackref
  <1>3. PICK m : AtNode(G[N], m)
    BY <1>1, <1>2, WriterAtNode
  <1>4. allow_backrefs /\ PathOf # NoPath /\ NextToken.path = BytesOf(PathOf)
    BY <1>2, <1>3, NextTokenFacts, TokenFacts DEF AtNode
  <1>5. Pictured(G[N].val[m], rcl) /\ Node \in Trees
    BY <1>3, <1>4 DEF AtNode, PictureAt
  <1>6. LeadsTo(G[N].val[m], BytesOf(PathOf), Node)
    <2>1. PathOf = FindPath(rcl, H(Node), SerializedLength(Trees)[Node])
      BY DEF PathOf, Hash, H
    <2>2. FindPath(rcl, H(Node), SerializedLength(Trees)[Node]) # NoPath
      BY <1>4, <2>1
    <2> QED  BY <1>5, <2>1, <2>2, BackrefLeads
  <1>7. /\ write_stack' = Front(write_stack) /\ read_op_stack' = Front(read_op_stack)
        /\ rcl' = PushTo(rcl, Hash)
    BY DEF WriteBackref
  <1> QED  BY <1>1, <1>2, <1>3, <1>4, <1>6, <1>7, WritesWhole

LEMMA WriteAtomKeeps ==
    ASSUME IInv, WriteAtom, UNCHANGED readerVars
    PROVE  IInv'
  <1>1. PICK G, N : InHistory(G, N)
    BY DEF IInv
  <1>2. MayWrite /\ IsAtomToken(NextToken) /\ Yield(NextToken)
    BY DEF WriteAtom
  <1>3. PICK m : AtNode(G[N], m)
    BY <1>1, <1>2, WriterAtNode
  <1>4. IsAtom(Node) /\ NextToken = AtomToken(Node.atom)
    BY <1>2, <1>3, NextTokenFacts DEF AtNode
  <1>5. /\ write_stack' = Front(write_stack)
        /\ allow_backrefs => read_op_stack' = Front(read_op_stack) /\ rcl' = PushTo(rcl, Hash)
    BY DEF WriteAtom
  <1> QED  BY <1>1, <1>2, <1>3, <1>4, <1>5, WritesWhole

LEMMA WriteConsKeeps ==
    ASSUME IInv, WriteCons, UNCHANGED readerVars
    PROVE  IInv'
  <1>1. PICK G, N : InHistory(G, N)
    BY DEF IInv
  <1>2. MayWrite /\ NextToken = ConsToken /\ Yield(ConsToken) /\ writer = "writing"
    BY DEF WriteCons, MayWrite, NodeTaken
  <1>3. PICK m : AtNode(G[N], m)
    BY <1>1, <1>2, WriterAtNode
  <1> DEFINE E == G[N]
  <1>4. /\ IsPlan(E, tree) /\ NextRead(E, m) /\ First(E.val[m - 1]) = Node
        /\ WritesAt(E, write_stack) /\ Len(write_stack) > 0
        /\ HowMany(Reads(E), m) = Len(write_stack)
        /\ allow_backrefs => PictureAt(E, m, read_op_stack, rcl)
        /\ IsPair(Node)
    BY <1>2, <1>3, NextTokenFacts DEF AtNode
  <1>5. m \in Nat \ {0}
    BY <1>4, NextReadFacts
  <1>6. PICK D : Branch(E, m, D)
    BY <1>5, BranchExists
  <1>7. Follows(E, ConsToken, D)
    BY <1>4, <1>6 DEF Follows
  <1> HIDE DEF E
  <1>8. IsPlan(D, tree)
    BY <1>4, <1>6, BranchIsPlan
  <1>9. /\ write_stack' = Front(write_stack) \o <<Rest(Node), First(Node)>>
        /\ allow_backrefs => read_op_stack' = Front(read_op_stack) \o <<"C", "P", "P">>
        /\ rcl' = rcl
    BY DEF WriteCons
  <1>10. WritesAt(D, write_stack')
    <2>1. WritesAt(D, Front(write_stack) \o <<Rest(First(E.val[m - 1])), First(First(E.val[m - 1]))>>)
      BY <1>4, <1>6, WritesBranch
    <2> QED  BY <1>4, <1>9, <2>1
  <1>11. ASSUME allow_backrefs PROVE \E i : PictureAt(D, i, read_op_stack', rcl')
    <2>1. PictureAt(D, m + 2, Front(read_op_stack) \o <<"C", "P", "P">>, rcl)
      BY <1>4, <1>6, <1>11, PictureBranch
    <2> QED  BY <1>9, <1>11, <2>1
  <1> QED  BY <1>1, <1>2, <1>7, <1>8, <1>10, <1>11, WriterMoves DEF E

LEMMA ConsReadStackKeeps ==
    ASSUME IInv, ConsReadStack, UNCHANGED readerVars
    PROVE  IInv'
  <1>1. PICK G, N : InHistory(G, N)
    BY DEF IInv
  <1>2. /\ tree' = tree /\ allow_backrefs' = allow_backrefs /\ write_stack' = write_stack
        /\ writer' = writer /\ f' = f /\ eof' = eof
        /\ op_stack' = op_stack /\ val_stack' = val_stack /\ pos' = pos /\ reader' = reader
        /\ result' = result /\ reads_backrefs' = reads_backrefs
    BY DEF ConsReadStack, readerVars
  <1>3. /\ allow_backrefs /\ read_op_stack # <<>> /\ Last(read_op_stack) = "C"
        /\ read_op_stack' = Front(read_op_stack) /\ rcl' = Pop2AndConsOn(rcl)
    BY DEF ConsReadStack, ConsNext
  <1>4. N \in 0..N /\ IsPlan(G[N], tree)
    BY <1>1 DEF InHistory, IsHistory
  <1>5. PICK i : PictureAt(G[N], i, read_op_stack, rcl)
    BY <1>1, <1>3 DEF InHistory
  <1>6. PictureAt(G[N], i - 1, read_op_stack', rcl')
    <2>1. Len(read_op_stack) > 0
      BY <1>3, <1>5, NonEmpty DEF PictureAt
    <2> QED  BY <1>3, <1>4, <1>5, <2>1, PictureConsed
  <1>7. InHistory(G, N)'
    <2>1. allow_backrefs' => \E j : PictureAt(G[N], j, read_op_stack', rcl')
      BY <1>6
    <2> QED  BY <1>1, <1>2, <2>1 DEF InHistory
  <1>8. FailsOnlyForCause'
    BY <1>2 DEF IInv, FailsOnlyForCause, HasBackrefs
  <1>9. \E K, M : InHistory(K, M)'
    BY <1>7
  <1> QED  BY <1>2, <1>8, <1>9 DEF IInv

LEMMA RaisingKeeps ==
    ASSUME IInv, ExceedSize \/ RefuseAtom, UNCHANGED readerVars
    PROVE  IInv'
  <1>1. PICK G, N : InHistory(G, N)
    BY DEF IInv
  <1>2. /\ tree' = tree /\ allow_backrefs' = allow_backrefs /\ write_stack' = write_stack
        /\ read_op_stack' = read_op_stack /\ rcl' = rcl
        /\ writer' = "raised" /\ eof' = TRUE /\ (f' = f \/ f' = Append(f, CutToken))
        /\ op_stack' = op_stack /\ val_stack' = val_stack /\ pos' = pos /\ reader' = reader
        /\ result' = result /\ reads_backrefs' = reads_backrefs
    BY DEF ExceedSize, RefuseAtom, readerVars
  <1>3. Len(f) = N /\ N \in Nat /\ f \in Seq(Range(f))
    <2>1. writer = "writing"
      BY DEF ExceedSize, RefuseAtom, MayWrite, NodeTaken
    <2> QED  BY <1>1, <2>1 DEF IInv, InHistory, IsHistory
  <1>4. /\ f' \in Seq(Range(f')) /\ \A k \in 1..N : f'[k] = f[k]
        /\ Len(f') = N \/ (Len(f') = N + 1 /\ f'[N + 1] = CutToken)
    <2> DEFINE more == Append(f, CutToken)
    <2>1. /\ more \in Seq(Range(more)) /\ Len(more) = N + 1 /\ more[N + 1] = CutToken
          /\ \A k \in 1..N : more[k] = f[k]
      BY <1>3, AppendFacts
    <2>2. f' = f \/ f' = more
      BY <1>2
    <2> HIDE DEF more
    <2> QED  BY <1>3, <2>1, <2>2, Zenon
  <1>5. IsHistory(G, N, tree', f')
    BY <1>1, <1>2, <1>4 DEF InHistory, IsHistory
  <1>6. InHistory(G, N)'
    BY <1>1, <1>2, <1>4, <1>5 DEF InHistory
  <1>7. FailsOnlyForCause'
    BY <1>2 DEF FailsOnlyForCause
  <1>8. \E K, M : InHistory(K, M)'
    BY <1>6
  <1>9. /\ tree' \in Inputs /\ writer' \in {"writing", "written", "raised"}
        /\ eof' <=> writer' # "writing"
        /\ writer' # "written"
        /\ reader' = "done" => result' = tree'
    BY <1>2 DEF IInv
  <1> QED  BY <1>4, <1>7, <1>8, <1>9 DEF IInv

LEMMA EndWritingKeeps ==
    ASSUME IInv, EndWriting, UNCHANGED readerVars
    PROVE  IInv'
  <1>1. PICK G, N : InHistory(G, N)
    BY DEF IInv
  <1>2. /\ tree' = tree /\ allow_backrefs' = allow_backrefs /\ write_stack' = write_stack
        /\ read_op_stack' = read_op_stack /\ rcl' = rcl /\ f' = f
        /\ writer = "writing" /\ writer' = "written" /\ eof' = TRUE /\ write_stack = <<>>
        /\ op_stack' = op_stack /\ val_stack' = val_stack /\ pos' = pos /\ reader' = reader
        /\ result' = result /\ reads_backrefs' = reads_backrefs
    BY DEF EndWriting, readerVars
  <1>3. InHistory(G, N)'
    BY <1>1, <1>2 DEF InHistory
  <1>4. \E K, M : InHistory(K, M)'
    BY <1>3
  <1>5. FailsOnlyForCause'
    BY <1>2 DEF IInv, FailsOnlyForCause, HasBackrefs
  <1>6. /\ tree' \in Inputs /\ writer' \in {"writing", "written", "raised"}
        /\ eof' <=> writer' # "writing"
        /\ write_stack' = <<>>
        /\ reader' = "done" => result' = tree'
        /\ f' \in Seq(Range(f'))
    BY <1>2 DEF IInv
  <1> QED  BY <1>4, <1>5, <1>6 DEF IInv

-----------------------------------------------------------------------------
(***************************************************************************)
(* The reader's steps                                                      *)
(***************************************************************************)
\* A reader that gets somewhere in the plan of a position leaves the history as it is.
LEMMA ReaderMoves ==
    ASSUME IInv, NEW G, NEW N, InHistory(G, N), UNCHANGED <<streamVars, writerVars>>,
           pos' \in 0..N, NEW i, ReaderAt(G[pos'], i, op_stack', val_stack'),
           reader' = "done" => result' = tree, FailsOnlyForCause'
    PROVE  IInv'
  <1>1. /\ tree' = tree /\ allow_backrefs' = allow_backrefs /\ write_stack' = write_stack
        /\ read_op_stack' = read_op_stack /\ rcl' = rcl /\ f' = f
        /\ writer' = writer /\ eof' = eof
    BY DEF streamVars, writerVars
  <1>2. InHistory(G, N)'
    BY <1>1 DEF InHistory
  <1>3. \E K, M : InHistory(K, M)'
    BY <1>2
  <1> QED  BY <1>1, <1>3 DEF IInv

LEMMA StillNoCause ==
    ASSUME FailsOnlyForCause, UNCHANGED <<streamVars, writerVars>>,
           reader' = reader, reads_backrefs' = reads_backrefs
    PROVE  FailsOnlyForCause'
  BY DEF FailsOnlyForCause, HasBackrefs, streamVars, writerVars

\* The plan for the reader's position, and what the token takes it to.
LEMMA ReaderAtToken ==
    ASSUME IInv, NEW G, NEW N, InHistory(G, N), MayRead, Token # CutToken
    PROVE  \E i : /\ NextRead(G[pos], i) /\ IsPlan(G[pos], tree)
                  /\ ReaderAt(G[pos], i, op_stack, val_stack)
                  /\ Follows(G[pos], Token, G[pos + 1])
                  /\ pos + 1 \in 0..N /\ reader = "reading"
  <1>1. /\ reader = "reading" /\ op_stack # <<>> /\ Last(op_stack) = "read" /\ pos < Len(f)
    BY DEF MayRead, MayDo
  <1>2. N \in Nat /\ pos \in 0..N
    BY DEF InHistory, IsHistory
  <1>3. pos # N
    <2>1. SUFFICES ASSUME pos = N PROVE FALSE
      OBVIOUS
    <2>2. Len(f) # N
      BY <1>1, <1>2, <2>1
    <2>3. f[N + 1] = CutToken
      BY <2>2 DEF InHistory
    <2> QED  BY <2>1, <2>3 DEF Token
  <1>4. pos + 1 \in 0..N /\ pos + 1 \in 1..N /\ (pos + 1) - 1 = pos
    BY <1>2, <1>3
  <1>5. IsPlan(G[pos], tree)
    BY <1>2 DEF InHistory, IsHistory
  <1>6. Follows(G[pos], Token, G[pos + 1])
    <2>1. Follows(G[(pos + 1) - 1], f[pos + 1], G[pos + 1])
      BY <1>4 DEF InHistory, IsHistory
    <2> QED  BY <1>4, <2>1 DEF Token
  <1>7. PICK i : ReaderAt(G[pos], i, op_stack, val_stack)
    BY DEF InHistory
  <1>8. NextRead(G[pos], i)
    BY <1>1, <1>5, <1>7, ReaderNextRead
  <1> QED  BY <1>1, <1>4, <1>5, <1>6, <1>7, <1>8

LEMMA ReadConsKeeps ==
    ASSUME IInv, ReadCons, UNCHANGED <<streamVars, writerVars>>
    PROVE  IInv'
  <1>1. PICK G, N : InHistory(G, N)
    BY DEF IInv
  <1>2. /\ MayRead /\ Token = ConsToken
        /\ pos' = pos + 1 /\ op_stack' = Front(op_stack) \o <<"cons", "read", "read">>
        /\ val_stack' = val_stack
        /\ reads_backrefs' = reads_backrefs /\ reader' = reader /\ result' = result
    BY DEF ReadCons, Advance
  <1>3. PICK i : /\ NextRead(G[pos], i) /\ IsPlan(G[pos], tree)
                 /\ ReaderAt(G[pos], i, op_stack, val_stack)
                 /\ Follows(G[pos], Token, G[pos + 1])
                 /\ pos + 1 \in 0..N /\ reader = "reading"
    BY <1>1, <1>2, ReaderAtToken, TokenFacts
  <1> DEFINE E == G[pos]
             D == G[pos + 1]
  <1>4. PICK m : NextRead(E, m) /\ IsPair(First(E.val[m - 1])) /\ Branch(E, m, D)
    BY <1>2, <1>3, TokenFacts DEF Follows
  <1>5. m = i
    BY <1>3, <1>4, NextReadUnique DEF IsPlan
  <1>6. ReaderAt(D, m + 2, Front(op_stack) \o <<"cons", "read", "read">>, val_stack)
    <2> HIDE DEF E, D
    <2>1. IsPlan(E, tree) /\ ReaderAt(E, m, op_stack, val_stack)
      BY <1>3, <1>5 DEF E
    <2> QED  BY <1>4, <2>1, ReaderBranch
  <1>7. pos' \in 0..N /\ ReaderAt(G[pos'], m + 2, op_stack', val_stack')
    BY <1>2, <1>3, <1>6
  <1>8. FailsOnlyForCause'
    BY <1>2, StillNoCause DEF IInv
  <1> QED  BY <1>1, <1>2, <1>3, <1>7, <1>8, ReaderMoves

LEMMA AppendNothing ==
    ASSUME NEW S, NEW s \in Seq(S)
    PROVE  s \o <<>> = s
  OBVIOUS

LEMMA ReadAtomKeeps ==
    ASSUME IInv, ReadAtom, UNCHANGED <<streamVars, writerVars>>
    PROVE  IInv'
  <1>1. PICK G, N : InHistory(G, N)
    BY DEF IInv
  <1>2. /\ MayRead /\ IsAtomToken(Token)
        /\ pos' = pos + 1 /\ op_stack' = Front(op_stack) \o <<>>
        /\ val_stack' = Pair(Atom(Token.atom), val_stack)
        /\ reads_backrefs' = reads_backrefs /\ reader' = reader /\ result' = result
    BY DEF ReadAtom, Advance
  <1>3. PICK i : /\ NextRead(G[pos], i) /\ IsPlan(G[pos], tree)
                 /\ ReaderAt(G[pos], i, op_stack, val_stack)
                 /\ Follows(G[pos], Token, G[pos + 1])
                 /\ pos + 1 \in 0..N /\ reader = "reading"
    BY <1>1, <1>2, ReaderAtToken, TokenFacts
  <1> DEFINE E == G[pos]
             D == G[pos + 1]
             x == First(E.val[i - 1])
  <1>4. /\ Token = AtomToken(x.atom) /\ IsAtom(x) /\ Leaf(E, i, D)
    <2>1. PICK m : /\ NextRead(E, m)
                   /\ Token = AtomToken(First(E.val[m - 1]).atom) /\ IsAtom(First(E.val[m - 1]))
                   /\ Leaf(E, m, D)
      <3>1. ~IsBackrefToken(Token) /\ Token # ConsToken
        BY <1>2, TokenFacts DEF IsAtomToken, IsBackrefToken
      <3> QED  BY <1>3, <3>1 DEF Follows
    <2>2. m = i
      BY <1>3, <2>1, NextReadUnique DEF IsPlan
    <2> QED  BY <2>1, <2>2
  <1>5. IsPlan(E, tree) /\ NextRead(E, i) /\ ReaderAt(E, i, op_stack, val_stack)
    BY <1>3
  <1>6. Atom(Token.atom) = x
    <2>1. x \in Trees
      BY <1>5, NextReadFacts
    <2>2. x = Atom(x.atom)
      BY <1>4, <2>1, TreeFacts
    <2> HIDE DEF x
    <2> QED  BY <1>4, <2>2, TokenFacts
  <1>7. op_stack' = Front(op_stack)
    <2>1. op_stack \in Seq({"read", "cons"}) /\ Len(op_stack) > 0
      BY <1>2, <1>5, NonEmpty DEF ReaderAt, MayRead, MayDo
    <2>2. Front(op_stack) \in Seq({"read", "cons"})
      BY <2>1, StackFacts
    <2> QED  BY <1>2, <2>2, AppendNothing
  <1>8. ReaderAt(D, i - 1, op_stack', val_stack')
    <2> HIDE DEF E, D
    <2>1. ReaderAt(D, i - 1, Front(op_stack), Pair(First(E.val[i - 1]), val_stack))
      BY <1>4, <1>5, ReaderLeaf
    <2> QED  BY <1>2, <1>6, <1>7, <2>1
  <1>9. pos' \in 0..N /\ ReaderAt(G[pos'], i - 1, op_stack', val_stack')
    BY <1>2, <1>3, <1>8
  <1>10. FailsOnlyForCause'
    BY <1>2, StillNoCause DEF IInv
  <1> QED  BY <1>1, <1>2, <1>3, <1>9, <1>10, ReaderMoves

LEMMA ReadBackrefKeeps ==
    ASSUME IInv, ReadBackref, UNCHANGED <<streamVars, writerVars>>
    PROVE  IInv'
  <1> DEFINE y == IF Path = 0 THEN Null ELSE Follow(val_stack, Legs(Path))
  <1>1. PICK G, N : InHistory(G, N)
    BY DEF IInv
  <1>2. /\ MayRead /\ IsBackrefToken(Token)
        /\ pos' = pos + 1 /\ op_stack' = Front(op_stack) \o <<>>
        /\ val_stack' = Pair(y, val_stack)
        /\ reads_backrefs' = reads_backrefs /\ reader' = reader /\ result' = result
    BY DEF ReadBackref, Advance
  <1>3. PICK i : /\ NextRead(G[pos], i) /\ IsPlan(G[pos], tree)
                 /\ ReaderAt(G[pos], i, op_stack, val_stack)
                 /\ Follows(G[pos], Token, G[pos + 1])
                 /\ pos + 1 \in 0..N /\ reader = "reading"
    BY <1>1, <1>2, ReaderAtToken, TokenFacts
  <1> DEFINE E == G[pos]
             D == G[pos + 1]
             x == First(E.val[i - 1])
  <1>4. LeadsTo(E.val[i], Token.path, x) /\ Leaf(E, i, D)
    <2>1. PICK m : /\ NextRead(E, m)
                   /\ LeadsTo(E.val[m], Token.path, First(E.val[m - 1]))
                   /\ Leaf(E, m, D)
      BY <1>2, <1>3, TokenFacts DEF Follows
    <2>2. m = i
      BY <1>3, <2>1, NextReadUnique DEF IsPlan
    <2> QED  BY <2>1, <2>2
  <1>5. IsPlan(E, tree) /\ NextRead(E, i) /\ ReaderAt(E, i, op_stack, val_stack)
    BY <1>3
  <1>6. y = x
    <2>1. val_stack = E.val[i]
      BY <1>5 DEF ReaderAt
    <2> HIDE DEF E, x
    <2> QED  BY <1>4, <2>1 DEF LeadsTo, Path
  <1> HIDE DEF y
  <1>7. op_stack' = Front(op_stack)
    <2>1. op_stack \in Seq({"read", "cons"}) /\ Len(op_stack) > 0
      BY <1>2, <1>5, NonEmpty DEF ReaderAt, MayRead, MayDo
    <2>2. Front(op_stack) \in Seq({"read", "cons"})
      BY <2>1, StackFacts
    <2> QED  BY <1>2, <2>2, AppendNothing
  <1>8. ReaderAt(D, i - 1, op_stack', val_stack')
    <2> HIDE DEF E, D
    <2>1. ReaderAt(D, i - 1, Front(op_stack), Pair(First(E.val[i - 1]), val_stack))
      BY <1>4, <1>5, ReaderLeaf
    <2> QED  BY <1>2, <1>6, <1>7, <2>1
  <1>9. pos' \in 0..N /\ ReaderAt(G[pos'], i - 1, op_stack', val_stack')
    BY <1>2, <1>3, <1>8
  <1>10. FailsOnlyForCause'
    BY <1>2, StillNoCause DEF IInv
  <1> QED  BY <1>1, <1>2, <1>3, <1>9, <1>10, ReaderMoves

LEMMA OpConsKeeps ==
    ASSUME IInv, OpCons, UNCHANGED <<streamVars, writerVars>>
    PROVE  IInv'
  <1>1. PICK G, N : InHistory(G, N)
    BY DEF IInv
  <1>2. /\ op_stack # <<>> /\ Last(op_stack) = "cons" /\ reader = "reading"
        /\ op_stack' = Front(op_stack)
        /\ val_stack' = Pair(Pair(First(Rest(val_stack)), First(val_stack)), Rest(Rest(val_stack)))
        /\ pos' = pos /\ reads_backrefs' = reads_backrefs /\ reader' = reader /\ result' = result
    BY DEF OpCons, MayDo
  <1>3. pos \in 0..N /\ IsPlan(G[pos], tree)
    BY <1>1 DEF InHistory, IsHistory
  <1>4. PICK i : ReaderAt(G[pos], i, op_stack, val_stack)
    BY <1>1 DEF InHistory
  <1>5. Len(op_stack) > 0
    BY <1>2, <1>4, NonEmpty DEF ReaderAt
  <1>6. ReaderAt(G[pos], i - 1, op_stack', val_stack')
    BY <1>2, <1>3, <1>4, <1>5, ReaderCons
  <1>7. FailsOnlyForCause'
    BY <1>2, StillNoCause DEF IInv
  <1> QED  BY <1>1, <1>2, <1>3, <1>6, <1>7, ReaderMoves

\* A read past the end means that the writer gave up.
LEMMA ReadPastEndKeeps ==
    ASSUME IInv, ReadPastEnd, UNCHANGED <<streamVars, writerVars>>
    PROVE  IInv'
  <1>1. PICK G, N : InHistory(G, N)
    BY DEF IInv
  <1>2. /\ op_stack # <<>> /\ Last(op_stack) = "read" /\ pos = Len(f) /\ eof
        /\ op_stack' = op_stack /\ val_stack' = val_stack
        /\ pos' = pos /\ reads_backrefs' = reads_backrefs /\ reader' = "raised" /\ result' = result
    BY DEF ReadPastEnd, MayDo
  <1>3. pos \in 0..N /\ IsPlan(G[pos], tree) /\ N \in Nat
    BY <1>1 DEF InHistory, IsHistory
  <1>4. PICK i : ReaderAt(G[pos], i, op_stack, val_stack)
    BY <1>1 DEF InHistory
  <1>5. NextRead(G[pos], i)
    BY <1>2, <1>3, <1>4, ReaderNextRead
  <1>6. pos = N
    BY <1>1, <1>2, <1>3 DEF InHistory
  <1>7. writer # "written"
    <2> SUFFICES ASSUME writer = "written" PROVE FALSE
      OBVIOUS
    <2>1. WritesAt(G[N], <<>>)
      BY <1>1 DEF IInv, InHistory
    <2>2. \A j \in 1..G[N].n : G[N].op[j] = "cons"
      BY <1>3, <1>6, <2>1, NothingToWrite
    <2> QED  BY <1>5, <1>6, <2>2 DEF NextRead
  <1>8. writer = "raised"
    BY <1>2, <1>7 DEF IInv
  <1>9. FailsOnlyForCause'
    <2>1. writer' = writer
      BY DEF writerVars
    <2> QED  BY <1>8, <2>1 DEF FailsOnlyForCause
  <1>10. pos' \in 0..N /\ ReaderAt(G[pos'], i, op_stack', val_stack')
    BY <1>2, <1>3, <1>4
  <1> QED  BY <1>1, <1>2, <1>9, <1>10, ReaderMoves

\* A token is refused only if it is cut, or a back-reference that is not allowed.
LEMMA ReadBadTokenKeeps ==
    ASSUME IInv, TokensFit, ReadBadToken, UNCHANGED <<streamVars, writerVars>>
    PROVE  IInv'
  <1>1. PICK G, N : InHistory(G, N)
    BY DEF IInv
  <1>2. /\ MayRead /\ (BadBackref \/ TooLargeToken(Token) \/ Token = CutToken)
        /\ op_stack' = op_stack /\ val_stack' = val_stack
        /\ pos' = pos /\ reads_backrefs' = reads_backrefs /\ reader' = "raised" /\ result' = result
    BY DEF ReadBadToken
  <1>3. pos \in 0..N /\ IsPlan(G[pos], tree) /\ N \in Nat /\ pos < Len(f)
    BY <1>1, <1>2 DEF InHistory, IsHistory, MayRead
  <1>4. PICK i : ReaderAt(G[pos], i, op_stack, val_stack)
    BY <1>1 DEF InHistory
  <1>5. f' = f /\ writer' = writer
    BY DEF streamVars, writerVars
  <1>6. ASSUME pos = N PROVE FailsOnlyForCause'
    <2>1. writer = "raised"
      BY <1>1, <1>3, <1>6 DEF InHistory
    <2> QED  BY <1>5, <2>1 DEF FailsOnlyForCause
  <1>7. ASSUME pos # N PROVE FailsOnlyForCause'
    <2>1. pos + 1 \in 1..N /\ (pos + 1) - 1 = pos
      BY <1>3, <1>7
    <2>2. Follows(G[pos], Token, G[pos + 1])
      <3>1. Follows(G[(pos + 1) - 1], f[pos + 1], G[pos + 1])
        BY <1>1, <2>1 DEF InHistory, IsHistory
      <3> QED  BY <2>1, <3>1 DEF Token
    <2>3. Token # CutToken
      BY <2>2, TokenFacts DEF Follows
    <2>4. IsBackrefToken(Token) /\ (~reads_backrefs \/ (Path # 0 /\ PathIntoAtom(val_stack, Legs(Path))))
      <3>1. ~TooLargeToken(Token)
        <4>1. pos + 1 \in DOMAIN f
          BY <1>3 DEF TokensFit
        <4> QED  BY <4>1 DEF TokensFit, Token
      <3> QED  BY <1>2, <2>3, <3>1 DEF BadBackref
    <2>5. ~(Path # 0 /\ PathIntoAtom(val_stack, Legs(Path)))
      <3>1. PICK m : NextRead(G[pos], m) /\ LeadsTo(G[pos].val[m], Token.path, First(G[pos].val[m - 1]))
        BY <2>2, <2>4, TokenFacts DEF Follows
      <3>2. NextRead(G[pos], i)
        <4>1. op_stack # <<>> /\ Last(op_stack) = "read"
          BY <1>2 DEF MayRead, MayDo
        <4> QED  BY <1>3, <1>4, <4>1, ReaderNextRead
      <3>3. m = i
        BY <1>3, <3>1, <3>2, NextReadUnique DEF IsPlan
      <3>4. val_stack = G[pos].val[m]
        BY <1>4, <3>3 DEF ReaderAt
      <3> QED  BY <3>1, <3>4 DEF LeadsTo, Path
    <2>6. HasBackrefs /\ ~reads_backrefs
      <3>1. pos + 1 \in DOMAIN f
        <4>1. f \in Seq(Range(f))
          BY DEF IInv
        <4> QED  BY <1>3, <4>1
      <3> QED  BY <2>4, <2>5, <3>1 DEF HasBackrefs, Token
    <2> QED  BY <1>2, <1>5, <2>6 DEF FailsOnlyForCause, HasBackrefs
  <1>8. FailsOnlyForCause'
    BY <1>6, <1>7
  <1>9. pos' \in 0..N /\ ReaderAt(G[pos'], i, op_stack', val_stack')
    BY <1>2, <1>3, <1>4
  <1> QED  BY <1>1, <1>2, <1>8, <1>9, ReaderMoves

LEMMA EndReadingKeeps ==
    ASSUME IInv, EndReading, UNCHANGED <<streamVars, writerVars>>
    PROVE  IInv'
  <1>1. PICK G, N : InHistory(G, N)
    BY DEF IInv
  <1>2. /\ op_stack = <<>> /\ result' = First(val_stack)
        /\ op_stack' = op_stack /\ val_stack' = val_stack
        /\ pos' = pos /\ reads_backrefs' = reads_backrefs /\ reader' = "done"
    BY DEF EndReading
  <1>3. pos \in 0..N /\ IsPlan(G[pos], tree)
    BY <1>1 DEF InHistory, IsHistory
  <1>4. PICK i : ReaderAt(G[pos], i, op_stack, val_stack)
    BY <1>1 DEF InHistory
  <1>5. val_stack = Pair(tree, Null)
    <2>1. i = 0
      BY <1>2, <1>4 DEF ReaderAt
    <2> QED  BY <1>3, <1>4, <2>1 DEF ReaderAt, IsPlan
  <1>6. result' = tree
    BY <1>2, <1>5, PairFacts
  <1>7. FailsOnlyForCause'
    BY <1>2 DEF FailsOnlyForCause
  <1>8. pos' \in 0..N /\ ReaderAt(G[pos'], i, op_stack', val_stack')
    BY <1>2, <1>3, <1>4
  <1> QED  BY <1>1, <1>6, <1>7, <1>8, ReaderMoves

-----------------------------------------------------------------------------
(***************************************************************************)
(* The invariant                                                           *)
(***************************************************************************)
LEMMA InitIInv == Init => IInv
  <1> SUFFICES ASSUME Init PROVE IInv
    OBVIOUS
  <1>1. /\ tree \in Inputs /\ write_stack = <<tree>> /\ read_op_stack = <<"P">>
        /\ rcl = NewLookup /\ writer = "writing" /\ f = <<>> /\ eof = FALSE
        /\ op_stack = <<"read">> /\ val_stack = Null /\ pos = 0 /\ reader = "reading"
    BY DEF Init, WriterInit, ReaderInit
  <1>2. tree \in Trees
    BY <1>1, TreesAssumption
  <1> DEFINE op  == [j \in {1} |-> "read"]
             val == [j \in {0, 1} |-> IF j = 0 THEN Pair(tree, Null) ELSE Null]
             E == [n |-> 1, op |-> op, val |-> val]
             G == [k \in {0} |-> E]
  <1>3. op[1] = "read" /\ val[0] = Pair(tree, Null) /\ val[1] = Null
    OBVIOUS
  <1>4. E.n = 1 /\ E.op[1] = "read" /\ E.val[0] = Pair(tree, Null) /\ E.val[1] = Null /\ G[0] = E
    BY <1>3
  <1> HIDE DEF op, val, E, G
  <1>5. IsPlan(E, tree)
    <2>1. First(E.val[0]) = tree /\ Rest(E.val[0]) = Null
      BY <1>4, PairFacts
    <2>2. PlanStep(E, 1)
      <3>1. 1 - 1 = 0
        OBVIOUS
      <3> QED  BY <1>2, <1>4, <2>1, <3>1 DEF PlanStep
    <2>3. \A i \in 1..E.n : i = 1
      BY <1>4
    <2> QED  BY <1>4, <2>2, <2>3 DEF IsPlan
  <1>6. Left(E, 1)
    BY <1>4 DEF Left
  <1>7. ReaderAt(E, 1, op_stack, val_stack)
    <2>1. op_stack \in Seq({"read", "cons"}) /\ Len(op_stack) = 1 /\ op_stack[1] = "read"
      BY <1>1
    <2>2. \A j \in 1..1 : j = 1
      OBVIOUS
    <2> QED  BY <1>1, <1>4, <1>6, <2>1, <2>2 DEF ReaderAt
  <1>8. PictureAt(E, 1, read_op_stack, rcl)
    <2>1. read_op_stack \in Seq({"P", "C"}) /\ Len(read_op_stack) = 1 /\ read_op_stack[1] = "P"
      BY <1>1
    <2>2. \A j \in 1..1 : j = 1
      OBVIOUS
    <2>3. Pictured(E.val[1], rcl)
      BY <1>1, <1>4, NewIsPicture
    <2> QED  BY <1>4, <1>6, <2>1, <2>2, <2>3 DEF PictureAt
  <1>9. WritesAt(E, write_stack)
    <2>1. Reads(E) = {1}
      <3>1. 1..1 = {1}
        OBVIOUS
      <3> QED  BY <1>4, <3>1 DEF Reads
    <2>2. HowMany({1}, 1) = 1
      <3>1. 1 \in Nat \ {0} /\ 1 \in {1} /\ 1 - 1 = 0
        OBVIOUS
      <3>2. HowMany({1}, 0) = 0
        BY HowManyNone
      <3>3. HowMany({1}, 0 + 1) = HowMany({1}, 0) + (IF 0 + 1 \in {1} THEN 1 ELSE 0)
        BY HowManyStep
      <3> QED  BY <3>2, <3>3
    <2>3. /\ write_stack \in Seq(Trees) /\ Len(write_stack) = 1
          /\ write_stack[1] = First(E.val[0])
      <3>1. First(E.val[0]) = tree
        BY <1>4, PairFacts
      <3> QED  BY <1>1, <1>2, <3>1
    <2>4. \A i \in Reads(E) : i = 1 /\ i - 1 = 0
      BY <2>1
    <2> QED  BY <1>4, <2>1, <2>2, <2>3, <2>4 DEF WritesAt
  <1>10. InHistory(G, 0)
    <2>1. Len(f) = 0 /\ 0 \in Nat /\ 0..0 = {0} /\ 1..0 = {}
      BY <1>1
    <2>2. IsHistory(G, 0, tree, f)
      BY <1>4, <1>5, <2>1 DEF IsHistory
    <2>3. \E i : ReaderAt(G[pos], i, op_stack, val_stack)
      BY <1>1, <1>4, <1>7
    <2>4. \E i : PictureAt(G[0], i, read_op_stack, rcl)
      BY <1>4, <1>8
    <2> QED  BY <1>1, <1>4, <1>9, <2>1, <2>2, <2>3, <2>4 DEF InHistory
  <1>11. f \in Seq(Range(f))
    BY <1>1
  <1>12. FailsOnlyForCause
    BY <1>1 DEF FailsOnlyForCause
  <1>13. \E K, M : InHistory(K, M)
    BY <1>10
  <1> QED  BY <1>1, <1>11, <1>12, <1>13 DEF IInv

LEMMA NextIInv == IInv /\ TokensFit /\ [Next]_vars => IInv'
  <1> SUFFICES ASSUME IInv, TokensFit, [Next]_vars PROVE IInv'
    OBVIOUS
  <1>1. CASE Write
    <2>1. WriterNext /\ UNCHANGED readerVars
      BY <1>1 DEF Write
    <2> QED  BY <2>1, WriteBackrefKeeps, WriteConsKeeps, WriteAtomKeeps, ConsReadStackKeeps,
                RaisingKeeps, EndWritingKeeps DEF WriterNext
  <1>2. CASE Read
    <2>1. ReaderNext /\ UNCHANGED <<streamVars, writerVars>>
      BY <1>2 DEF Read, ReaderNext
    <2> QED  BY <2>1, ReadPastEndKeeps, ReadConsKeeps, ReadAtomKeeps, ReadBackrefKeeps,
                ReadBadTokenKeeps, OpConsKeeps, EndReadingKeeps DEF ReaderNext
  <1>3. CASE UNCHANGED vars
    <2>1. UNCHANGED <<streamVars, writerVars, readerVars>>
      BY <1>3 DEF vars
    <2> QED  BY <2>1 DEF IInv, InHistory, FailsOnlyForCause, HasBackrefs,
                         streamVars, writerVars, readerVars
  <1> QED  BY <1>1, <1>2, <1>3 DEF Next, Terminated

\* Where the two sides are, of every tree and at every speed.
THEOREM Invariance == Spec => []IInv
  <1>1. Init => TokensFit
    <2> SUFFICES ASSUME Init PROVE TokensFit
      OBVIOUS
    <2>1. f = <<>>
      BY DEF Init, WriterInit
    <2> QED  BY <2>1 DEF TokensFit
  <1> QED  BY <1>1, NextTokensFit, InitIInv, NextIInv, PTL DEF Spec

\* FailsOnlyForCause: whatever the reader of sexp_from_stream raises, "bad
\* encoding" or "path into atom", it raises because the writer gave up before it
\* or because it does not take back-references.
THEOREM FailsOnlyForCauseHolds == Spec => []FailsOnlyForCause
  <1>1. IInv => FailsOnlyForCause
    BY DEF IInv
  <1> QED  BY <1>1, Invariance, PTL

LEMMA LockstepFollows ==
    ASSUME IInv
    PROVE  Lockstep
  <1> SUFFICES ASSUME allow_backrefs, pos = Len(f), reader = "reading", ~ConsNext, ~MayDo("cons")
               PROVE  /\ op_stack = [k \in DOMAIN read_op_stack |->
                                       IF read_op_stack[k] = "P" THEN "read" ELSE "cons"]
                      /\ ListsTrees(val_stack, rcl)
    BY Zenon DEF Lockstep, ListsTrees
  <1>1. PICK G, N : InHistory(G, N)
    BY DEF IInv
  <1> DEFINE E == G[N]
  <1>2. pos = N /\ IsPlan(E, tree) /\ E.n \in Nat
    <2>1. pos \in 0..N /\ N \in Nat /\ (Len(f) = N \/ Len(f) = N + 1)
      BY <1>1 DEF InHistory, IsHistory
    <2>2. pos = N /\ N \in 0..N
      BY <2>1
    <2> QED  BY <1>1, <2>2 DEF InHistory, IsHistory, IsPlan
  <1>3. PICK j : ReaderAt(E, j, op_stack, val_stack)
    BY <1>1, <1>2 DEF InHistory
  <1>4. PICK i : PictureAt(E, i, read_op_stack, rcl)
    BY <1>1 DEF InHistory
  <1> HIDE DEF E
  <1>5. /\ op_stack \in Seq({"read", "cons"}) /\ Len(op_stack) = j /\ j \in 0..E.n
        /\ val_stack = E.val[j]
        /\ \A k \in 1..j : op_stack[k] = E.op[k]
        /\ \A k \in (j + 1)..E.n : E.op[k] = "cons"
    BY <1>3 DEF ReaderAt, Left
  <1>6. /\ read_op_stack \in Seq({"P", "C"}) /\ Len(read_op_stack) = i /\ i \in 0..E.n
        /\ Pictured(E.val[i], rcl)
        /\ \A k \in 1..i : read_op_stack[k] = IF E.op[k] = "read" THEN "P" ELSE "C"
        /\ \A k \in (i + 1)..E.n : E.op[k] = "cons"
    BY <1>4 DEF PictureAt, Left
  <1>7. ~(i < j)
    <2> SUFFICES ASSUME i < j PROVE FALSE
      OBVIOUS
    <2>1. j \in (i + 1)..E.n /\ j \in 1..j /\ j > 0
      BY <1>2, <1>5, <1>6
    <2>2. op_stack[j] = "cons"
      BY <1>5, <1>6, <2>1
    <2>3. op_stack # <<>> /\ Last(op_stack) = "cons"
      BY <1>5, <2>1, <2>2, NonEmpty DEF Last
    <2> QED  BY <2>3 DEF MayDo
  <1>8. ~(j < i)
    <2> SUFFICES ASSUME j < i PROVE FALSE
      OBVIOUS
    <2>1. i \in (j + 1)..E.n /\ i \in 1..i /\ i > 0
      BY <1>2, <1>5, <1>6
    <2>2. read_op_stack[i] = "C"
      BY <1>5, <1>6, <2>1
    <2>3. read_op_stack # <<>> /\ Last(read_op_stack) = "C"
      BY <1>6, <2>1, <2>2, NonEmpty DEF Last
    <2> QED  BY <2>3 DEF ConsNext
  <1>9. i = j
    BY <1>2, <1>5, <1>6, <1>7, <1>8
  <1>10. ListsTrees(val_stack, rcl)
    BY <1>5, <1>6, <1>9, PictureLists
  <1>11. op_stack = [k \in DOMAIN read_op_stack |->
                       IF read_op_stack[k] = "P" THEN "read" ELSE "cons"]
    <2>1. DOMAIN op_stack = 1..i /\ DOMAIN read_op_stack = 1..i
      BY <1>5, <1>6, <1>9
    <2>2. ASSUME NEW k \in 1..i
          PROVE  op_stack[k] = IF read_op_stack[k] = "P" THEN "read" ELSE "cons"
      <3>1. op_stack[k] \in {"read", "cons"}
        BY <1>5, <1>9
      <3> QED  BY <1>5, <1>6, <1>9, <3>1
    <2>3. op_stack = [k \in 1..i |-> op_stack[k]]
      <3>1. op_stack \in [1..i -> {"read", "cons"}]
        BY <1>5, <1>9
      <3> QED  BY <3>1
    <2> QED  BY <2>1, <2>2, <2>3
  <1> QED  BY <1>10, <1>11

\* Lockstep: a reader that has caught up is, operation by operation and object
\* by object, where sexp_to_byte_iterator_with_backrefs takes it to be.
THEOREM LockstepHolds == Spec => []Lockstep
  BY LockstepFollows, Invariance, PTL

-----------------------------------------------------------------------------
(***************************************************************************)
(* The stream implements a channel for trees                               *)
(***************************************************************************)
\* DeliversTheTree: sexp_to_stream and sexp_from_stream, with or without
\* back-references on either side, deliver the tree that was written or nothing.
THEOREM DeliversTheTreeHolds == Spec => DeliversTheTree
  <1>1. Init => Channel!Init
    <2> SUFFICES ASSUME Init PROVE Channel!Init
      OBVIOUS
    <2>1. tree \in Inputs /\ reader = "reading"
      BY DEF Init, WriterInit, ReaderInit
    <2> QED  BY <2>1 DEF Channel!Init
  <1>2. ASSUME IInv, IInv', [Next]_vars
        PROVE  [Channel!Deliver]_<<tree, IF reader = "done" THEN {result} ELSE {}>>
    <2> DEFINE got == IF reader = "done" THEN {result} ELSE {}
    <2>1. CASE Write
      <3>1. tree' = tree
        BY <2>1 DEF Write, WriterNext, WriteBackref, WriteCons, WriteAtom, ConsReadStack,
                    ExceedSize, RefuseAtom, EndWriting, Yield
      <3>2. reader' = reader /\ result' = result
        BY <2>1 DEF Write, readerVars
      <3> QED  BY <3>1, <3>2
    <2>2. CASE Read
      <3>1. tree' = tree /\ reader = "reading"
        BY <2>2 DEF Read, ReaderNext, ReadPastEnd, ReadCons, ReadAtom, ReadBackref, ReadBadToken,
                    OpCons, EndReading, MayRead, MayDo, writerVars
      <3>2. CASE reader' = "done"
        <4>1. result' = tree
          BY <1>2, <3>1, <3>2 DEF IInv
        <4> QED  BY <3>1, <3>2, <4>1 DEF Channel!Deliver
      <3>3. CASE reader' # "done"
        BY <3>1, <3>3
      <3> QED  BY <3>2, <3>3
    <2>3. CASE UNCHANGED vars
      BY <2>3 DEF vars, writerVars, readerVars
    <2> QED  BY <1>2, <2>1, <2>2, <2>3 DEF Next, Terminated
  <1> QED  BY <1>1, <1>2, Invariance, PTL DEF Spec, DeliversTheTree, Channel!Spec

-----------------------------------------------------------------------------
(***************************************************************************)
(* The writer is a client of the lookup                                    *)
(***************************************************************************)
LEMMA SameBump ==
    ASSUME NEW r, NEW h, NEW d
    PROVE  Client!Bump(r, h, d) = Bump(r, h, d)
  BY Zenon DEF Client!Bump, Bump, Client!Count, Count

LEMMA SameLink ==
    ASSUME NEW c, NEW p, NEW d
    PROVE  Client!Link(c, p, d) = Link(c, p, d)
  BY Zenon DEF Client!Link, Link

LEMMA SameHash ==
    ASSUME NEW a, NEW b
    PROVE  Client!HashPair(a, b) = HashPair(a, b) /\ Client!HashAtom(a) = HashAtom(a)
  BY Zenon DEF Client!HashPair, HashPair, Client!HashAtom, HashAtom

LEMMA SamePush ==
    ASSUME NEW r, NEW h
    PROVE  Client!PushTo(r, h) = PushTo(r, h)
  BY SameBump, SameLink, SameHash, Zenon DEF Client!PushTo, PushTo, Client!LEFT, LEFT, Client!RIGHT, RIGHT

LEMMA SameCardinality ==
    ASSUME NEW S
    PROVE  Client!Cardinality(S) = Cardinality(S)
  BY Zenon DEF Client!Cardinality, Cardinality

LEMMA SameFindPaths ==
    ASSUME NEW r, NEW h, NEW n
    PROVE  Client!FindPaths(r, h, n) = FindPaths(r, h, n)
  BY Zenon DEF Client!FindPaths, FindPaths, Client!NextLevel, NextLevel, Client!Count, Count,
               Client!Cardinality, Cardinality

LEMMA SamePop ==
    ASSUME NEW r
    PROVE  Client!PopFrom(r) = PopFrom(r) /\ Client!Top(r) = Top(r)
  <1>1. Client!Top(r) = Top(r)
    BY Zenon DEF Client!Top, Top
  <1>2. Client!PopFrom(r) = PopFrom(r)
    BY <1>1, SameBump, Zenon DEF Client!PopFrom, PopFrom
  <1> QED  BY <1>1, <1>2

LEMMA SamePop2AndCons ==
    ASSUME NEW r
    PROVE  Client!Pop2AndConsOn(r) = Pop2AndConsOn(r)
  <1> DEFINE right  == Top(r).obj
             left   == Top(PopFrom(r)).obj
             popped == PopFrom(PopFrom(r))
             counted == Bump(Bump(popped, left, 1), right, 1)
             cons   == HashPair(left, right)
             edges  == { Link(left, cons, LEFT), Link(right, cons, RIGHT) }
             linked == [counted EXCEPT !.links = @ \cup edges]
  <1>1. Client!Top(r).obj = right /\ Client!Top(Client!PopFrom(r)).obj = left
    BY SamePop
  <1>2. Client!PopFrom(Client!PopFrom(r)) = popped
    BY SamePop
  <1> HIDE DEF right, left, popped
  <1>3. Client!Bump(Client!Bump(popped, left, 1), right, 1) = counted
    BY SameBump
  <1>4. Client!HashPair(left, right) = cons
    BY SameHash
  <1> HIDE DEF counted, cons
  <1>5. { Client!Link(left, cons, Client!LEFT), Client!Link(right, cons, Client!RIGHT) } = edges
    BY SameLink DEF LEFT, RIGHT, Client!LEFT, Client!RIGHT
  <1> HIDE DEF edges
  <1>6. Client!Pop2AndConsOn(r) = Client!PushTo(linked, cons)
    BY <1>1, <1>2, <1>3, <1>4, <1>5, Zenon DEF Client!Pop2AndConsOn
  <1>7. Pop2AndConsOn(r) = PushTo(linked, cons)
    BY Zenon DEF Pop2AndConsOn, right, left, popped, counted, cons, edges
  <1> HIDE DEF linked
  <1> QED  BY <1>6, <1>7, SamePush

LEMMA SameNewLookup == Client!NewLookup = NewLookup
  BY Zenon DEF Client!NewLookup, NewLookup, Client!HashAtom, HashAtom

\* A lookup of the writer's may be pushed on.
LEMMA MayPush ==
    ASSUME NEW v, Pictured(v, rcl), NEW h, rcl' = PushTo(rcl, h)
    PROVE  Client!Push(h)
  <1>1. ShapeOK(rcl)
    BY DEF Pictured, Good
  <1>2. Len(rcl.read_stack) \in Nat
    <2>1. rcl.read_stack \in Seq(Range(rcl.read_stack))
      BY <1>1 DEF ShapeOK
    <2> QED  BY <2>1
  <1>3. Client!Cardinality(DOMAIN rcl.count) \in Nat
    <2>1. Cardinality(DOMAIN rcl.count) \in Nat
      BY <1>1, FS_CardinalityType DEF ShapeOK
    <2> QED  BY <2>1, SameCardinality
  <1>4. rcl' = Client!PushTo(rcl, h)
    BY SamePush
  <1> QED  BY <1>2, <1>3, <1>4, Zenon DEF Client!Push

LEMMA BackrefIsFound ==
    ASSUME IInv, WriteBackref
    PROVE  Client!PushFound
  <1>1. PICK G, N : InHistory(G, N)
    BY DEF IInv
  <1>2. MayWrite /\ IsBackrefToken(NextToken) /\ rcl' = PushTo(rcl, Hash)
    BY DEF WriteBackref
  <1>3. PICK m : AtNode(G[N], m)
    BY <1>1, <1>2, WriterAtNode
  <1>4. allow_backrefs /\ PathOf # NoPath
    BY <1>2, <1>3, NextTokenFacts DEF AtNode
  <1>5. Pictured(G[N].val[m], rcl) /\ Node \in Trees
    BY <1>3, <1>4 DEF AtNode, PictureAt
  <1> DEFINE n == SerializedLength(Trees)[Node]
  <1>6. Hash = H(Node) /\ FindPath(rcl, H(Node), n) # NoPath
    BY <1>4 DEF PathOf, Hash, H
  <1>7. FindPaths(rcl, Hash, n) # {} /\ (rcl.root_hash = Hash \/ IsChild(rcl, Hash))
    BY <1>5, <1>6, BackrefLeads
  <1>8. n \in TreeLengths
    BY <1>5 DEF TreeLengths
  <1>9. Client!FindPaths(rcl, Hash, n) # {}
    BY <1>7, SameFindPaths
  <1> HIDE DEF n
  <1>10. Client!Push(Hash)
    BY <1>2, <1>5, MayPush
  <1>11. Hash \in Client!Askable
    BY <1>7 DEF Client!Askable, IsChild
  <1> QED  BY <1>8, <1>9, <1>10, <1>11, Zenon DEF Client!PushFound

LEMMA AtomIsPushed ==
    ASSUME IInv, WriteAtom, allow_backrefs
    PROVE  Client!PushAtom
  <1>1. PICK G, N : InHistory(G, N)
    BY DEF IInv
  <1>2. MayWrite /\ IsAtomToken(NextToken) /\ rcl' = PushTo(rcl, Hash)
    BY DEF WriteAtom
  <1>3. PICK m : AtNode(G[N], m)
    BY <1>1, <1>2, WriterAtNode
  <1>4. Node \in Trees /\ IsAtom(Node)
    BY <1>2, <1>3, NextTokenFacts DEF AtNode
  <1>5. Hash = HashAtom(Node.atom)
    <2>1. ~IsPair(Node)
      BY <1>4, TreeFacts
    <2> QED  BY <1>4, <2>1, TreeHashFacts DEF Hash
  <1>6. Client!Push(Client!HashAtom(Node.atom))
    <2>1. Pictured(G[N].val[m], rcl)
      BY <1>3 DEF AtNode, PictureAt
    <2> QED  BY <1>2, <1>5, <2>1, MayPush, SameHash
  <1>7. Node.atom \in { x.atom : x \in {y \in Trees : IsAtom(y)} }
    BY <1>4
  <1> QED  BY <1>6, <1>7, Zenon DEF Client!PushAtom

LEMMA ConsIsPop2AndCons ==
    ASSUME IInv, ConsReadStack
    PROVE  Client!Pop2AndCons
  <1>1. PICK G, N : InHistory(G, N)
    BY DEF IInv
  <1>2. /\ allow_backrefs /\ read_op_stack # <<>> /\ Last(read_op_stack) = "C"
        /\ rcl' = Pop2AndConsOn(rcl)
    BY DEF ConsReadStack, ConsNext
  <1>3. N \in 0..N /\ IsPlan(G[N], tree)
    BY <1>1 DEF InHistory, IsHistory
  <1>4. PICK i : PictureAt(G[N], i, read_op_stack, rcl)
    BY <1>1, <1>2 DEF InHistory
  <1>5. Len(read_op_stack) > 0
    BY <1>2, <1>4, NonEmpty DEF PictureAt
  <1>6. Len(rcl.read_stack) >= 2
    BY <1>2, <1>3, <1>4, <1>5, PictureConsed
  <1> QED  BY <1>2, <1>6, SamePop2AndCons, Zenon DEF Client!Pop2AndCons

\* UsesTheLookup: sexp_to_byte_iterator_with_backrefs calls the lookup as
\* LookupClient says, so what is proved of a ReadCacheLookup there holds of the
\* writer's, of every tree.
THEOREM UsesTheLookupHolds == Spec => UsesTheLookup
  <1>1. Init => Client!Init
    BY SameNewLookup DEF Init, WriterInit, Client!Init
  <1>2. ASSUME IInv, [Next]_vars PROVE [Client!Next]_(Client!vars)
    <2>1. CASE Write
      <3>1. WriterNext
        BY <2>1 DEF Write
      <3>2. CASE WriteBackref
        BY <1>2, <3>2, BackrefIsFound DEF Client!Next
      <3>3. CASE WriteAtom
        <4>1. CASE allow_backrefs
          BY <1>2, <3>3, <4>1, AtomIsPushed DEF Client!Next
        <4>2. CASE ~allow_backrefs
          BY <3>3, <4>2 DEF WriteAtom, Client!vars
        <4> QED  BY <4>1, <4>2
      <3>4. CASE ConsReadStack
        BY <1>2, <3>4, ConsIsPop2AndCons DEF Client!Next
      <3>5. CASE WriteCons \/ ExceedSize \/ RefuseAtom \/ EndWriting
        BY <3>5 DEF WriteCons, ExceedSize, RefuseAtom, EndWriting, Client!vars
      <3> QED  BY <3>1, <3>2, <3>3, <3>4, <3>5 DEF WriterNext
    <2>2. CASE Read
      BY <2>2 DEF Read, writerVars, Client!vars
    <2>3. CASE UNCHANGED vars
      BY <2>3 DEF vars, writerVars, Client!vars
    <2> QED  BY <1>2, <2>1, <2>2, <2>3 DEF Next, Terminated
  <1> QED  BY <1>1, <1>2, Invariance, PTL DEF Spec, UsesTheLookup, Client!Spec

-----------------------------------------------------------------------------
(***************************************************************************)
(* Sums and lengths                                                        *)
(***************************************************************************)
Sums(g, N) == CHOOSE v : v = [i \in 0..N |-> IF i = 0 THEN 0 ELSE v[i - 1] + g[i]]

LEMMA SumsFacts ==
    ASSUME NEW N \in Nat, NEW g \in [1..N -> Nat]
    PROVE  LET v == Sums(g, N)
           IN  /\ v \in [0..N -> Nat] /\ v[0] = 0
               /\ \A i \in 1..N : v[i] = v[i - 1] + g[i]
  <1> DEFINE IsV(w) == w = [i \in 0..N |-> IF i = 0 THEN 0 ELSE w[i - 1] + g[i]]
             v == Sums(g, N)
  <1>1. \E w : IsV(w)
    <2> DEFINE B == [i \in 1..N |-> [x \in Nat |-> x + g[i]]]
    <2>1. \A i \in 1..N, x \in Nat : B[i][x] = x + g[i]
      OBVIOUS
    <2>b. \A i \in 1..N, x \in Nat : B[i][x] \in Nat
      OBVIOUS
    <2> HIDE DEF B
    <2> DEFINE A == Nat
               a == 0
    <2>a. a \in A /\ \A i \in 1..N, x \in A : B[i][x] \in A
      BY <2>b
    <2> HIDE DEF A, a
    <2>2. StepsWithin(A, a, B, N)
      BY <2>a DEF StepsWithin
    <2>3. PICK w \in [0..N -> A] : w[0] = a /\ \A i \in 1..N : w[i] = B[i][w[i - 1]]
      BY <2>2, StepsUpTo
    <2> USE DEF A, a
    <2>4. ASSUME NEW i \in 0..N PROVE w[i] = IF i = 0 THEN 0 ELSE w[i - 1] + g[i]
      <3>1. CASE i = 0
        BY <2>3, <3>1
      <3>2. CASE i # 0
        <4>1. i \in 1..N /\ w[i - 1] \in Nat
          BY <3>2
        <4>2. B[i][w[i - 1]] = w[i - 1] + g[i]
          BY <2>1, <4>1
        <4> QED  BY <2>3, <3>2, <4>1, <4>2
      <3> QED  BY <3>1, <3>2
    <2>5. IsV(w)
      BY <2>4
    <2> HIDE DEF IsV
    <2> QED  BY <2>5
  <1>2. IsV(v)
    <2>1. v = CHOOSE w : IsV(w)
      BY DEF Sums
    <2> HIDE DEF IsV, v
    <2> QED  BY <1>1, <2>1
  <1> HIDE DEF v
  <1>3. v[0] = 0 /\ \A i \in 1..N : v[i] = v[i - 1] + g[i]
    BY <1>2
  <1> DEFINE S == { i \in 0..N : v[i] \in Nat }
  <1>4. \A i \in 0..N : i \in S
    <2>1. 0 \in S
      BY <1>3
    <2>2. ASSUME NEW i \in 0..(N - 1), i \in S PROVE i + 1 \in S
      <3>1. i + 1 \in 1..N /\ (i + 1) - 1 = i
        OBVIOUS
      <3>2. v[i + 1] = v[i] + g[i + 1]
        BY <1>3, <3>1
      <3> QED  BY <2>2, <3>1, <3>2
    <2> HIDE DEF S
    <2> QED  BY <2>1, <2>2, BoundedInduction
  <1>5. v \in [0..N -> Nat]
    <2>1. \A i \in 0..N : v[i] \in Nat
      BY <1>4
    <2> QED  BY <1>2, <2>1
  <1> QED  BY <1>3, <1>5 DEF v

LEMMA FunctionIsSeq ==
    ASSUME NEW n \in Nat, NEW S, NEW g \in [1..n -> S]
    PROVE  g \in Seq(S) /\ Len(g) = n
  <1>1. g \in Seq(S)
    BY SeqDef
  <1>2. DOMAIN g = 1..Len(g) /\ Len(g) \in Nat
    BY <1>1, LenProperties
  <1>3. 1..n = 1..Len(g)
    BY <1>2
  <1>4. Len(g) = n
    <2> DEFINE m == Len(g)
    <2>1. m \in Nat /\ 1..n = 1..m
      BY <1>2, <1>3
    <2> HIDE DEF m
    <2>2. \A i \in Nat : i \in 1..n <=> i \in 1..m
      BY <2>1
    <2>3. m = n
      <3>1. m = 0 => n = 0
        BY <2>1, <2>2
      <3>2. n = 0 => m = 0
        BY <2>1, <2>2
      <3>3. m # 0 /\ n # 0 => m \in 1..n /\ n \in 1..m
        BY <2>1, <2>2
      <3> QED  BY <2>1, <3>1, <3>2, <3>3
    <2> QED  BY <2>3 DEF m
  <1> QED  BY <1>1, <1>4

LEMMA TotalIsSum ==
    ASSUME NEW n \in Nat, NEW g \in [1..n -> Nat]
    PROVE  Total(g) = Sums(g, n)[n] /\ Total(g) \in Nat
  <1>1. Len(g) = n
    BY FunctionIsSeq
  <1>2. Total(g) = Sums(g, n)[n]
    BY <1>1 DEF Total, Sums
  <1> QED  BY <1>2, SumsFacts

LEMMA TotalOfNone ==
    ASSUME NEW g \in [1..0 -> Nat]
    PROVE  Total(g) = 0
  BY TotalIsSum, SumsFacts

\* One more element adds to the sum what it is.
LEMMA TotalGrows ==
    ASSUME NEW n \in Nat, NEW g \in [1..n -> Nat], NEW h \in [1..(n + 1) -> Nat],
           \A i \in 1..n : h[i] = g[i]
    PROVE  /\ Total(g) \in Nat /\ Total(h) \in Nat
           /\ Total(h) = Total(g) + h[n + 1]
  <1> DEFINE v == Sums(g, n)
             w == Sums(h, n + 1)
             S == { i \in 0..n : w[i] = v[i] }
  <1>1. v \in [0..n -> Nat] /\ v[0] = 0 /\ \A i \in 1..n : v[i] = v[i - 1] + g[i]
    BY SumsFacts
  <1>2. w \in [0..(n + 1) -> Nat] /\ w[0] = 0 /\ \A i \in 1..(n + 1) : w[i] = w[i - 1] + h[i]
    <2>1. n + 1 \in Nat
      OBVIOUS
    <2> QED  BY <2>1, SumsFacts
  <1>3. Total(g) = v[n] /\ Total(h) = w[n + 1]
    <2>1. n + 1 \in Nat
      OBVIOUS
    <2> QED  BY <2>1, TotalIsSum
  <1> HIDE DEF v, w
  <1>4. 0 \in S
    BY <1>1, <1>2
  <1>5. ASSUME NEW i \in 0..(n - 1), i \in S PROVE i + 1 \in S
    <2>1. i + 1 \in 1..n /\ i + 1 \in 1..(n + 1) /\ (i + 1) - 1 = i
      OBVIOUS
    <2>2. v[i + 1] = v[i] + g[i + 1] /\ w[i + 1] = w[i] + h[i + 1]
      BY <1>1, <1>2, <2>1
    <2> QED  BY <1>5, <2>1, <2>2
  <1> HIDE DEF S
  <1>6. \A i \in 0..n : i \in S
    BY <1>4, <1>5, BoundedInduction
  <1>7. w[n] = v[n]
    BY <1>6 DEF S
  <1>8. w[n + 1] = w[n] + h[n + 1]
    <2>1. n + 1 \in 1..(n + 1) /\ (n + 1) - 1 = n
      OBVIOUS
    <2> QED  BY <1>2, <2>1
  <1> QED  BY <1>1, <1>2, <1>3, <1>7, <1>8

LEMMA TotalOfFew ==
    ASSUME NEW a \in Nat, NEW b \in Nat, NEW c \in Nat
    PROVE  /\ Total(<<a>>) = a
           /\ Total(<<a, b>>) = a + b
           /\ Total(<<a, b, c>>) = (a + b) + c
  <1>1. <<>> \in [1..0 -> Nat] /\ <<a>> \in [1..1 -> Nat] /\ <<a, b>> \in [1..2 -> Nat]
        /\ <<a, b, c>> \in [1..3 -> Nat]
    OBVIOUS
  <1>2. Total(<<>>) = 0
    BY <1>1, TotalOfNone
  <1>3. Total(<<a>>) = 0 + a
    <2> DEFINE g == <<>>
               h == <<a>>
    <2>1. h[0 + 1] = a /\ g \in [1..0 -> Nat] /\ h \in [1..(0 + 1) -> Nat] /\ 0 \in Nat
          /\ \A i \in 1..0 : h[i] = g[i]
      OBVIOUS
    <2> HIDE DEF g, h
    <2>2. Total(h) = Total(g) + h[0 + 1]
      BY <2>1, TotalGrows
    <2> QED  BY <1>2, <2>1, <2>2 DEF g, h
  <1>4. Total(<<a, b>>) = a + b
    <2> DEFINE g == <<a>>
               h == <<a, b>>
    <2>1. h[1 + 1] = b /\ g \in [1..1 -> Nat] /\ h \in [1..(1 + 1) -> Nat] /\ 1 \in Nat
          /\ \A i \in 1..1 : h[i] = g[i]
      OBVIOUS
    <2> HIDE DEF g, h
    <2>2. Total(h) = Total(g) + h[1 + 1]
      BY <2>1, TotalGrows
    <2> QED  BY <1>3, <2>1, <2>2 DEF g, h
  <1>5. Total(<<a, b, c>>) = (a + b) + c
    <2> DEFINE g == <<a, b>>
               h == <<a, b, c>>
    <2>1. h[2 + 1] = c /\ g \in [1..2 -> Nat] /\ h \in [1..(2 + 1) -> Nat] /\ 2 \in Nat
          /\ \A i \in 1..2 : h[i] = g[i]
      OBVIOUS
    <2> HIDE DEF g, h
    <2>2. Total(h) = Total(g) + h[2 + 1]
      BY <2>1, TotalGrows
    <2> QED  BY <1>4, <2>1, <2>2 DEF g, h
  <1> QED  BY <1>3, <1>4, <1>5


LEMMA PrefixBytes ==
    ASSUME NEW n \in Nat
    PROVE  SizePrefix(n) \in 1..5 /\ (n < 64 => SizePrefix(n) = 1)
  BY SMT DEF SizePrefix

IsSingleByte(b) == Len(b) = 0 \/ (Len(b) = 1 /\ b[1] <= 127)

LEMMA ChunksOf ==
    ASSUME NEW b, Len(b) \in Nat, Len(b) = 1 => b[1] \in Nat
    PROVE  /\ IsSingleByte(b) => AtomChunks(b) = <<1>>
           /\ ~IsSingleByte(b) => AtomChunks(b) = <<SizePrefix(Len(b)), Len(b)>>
  <1>1. CASE Len(b) = 0
    BY <1>1, SMT DEF AtomChunks, IsSingleByte
  <1>2. CASE Len(b) = 1 /\ b[1] <= 127
    BY <1>2, SMT DEF AtomChunks, IsSingleByte
  <1>3. CASE Len(b) = 1 /\ b[1] > 127
    <2>1. AtomChunks(b) = <<1, Len(b)>>
      BY <1>3, SMT DEF AtomChunks
    <2>2. SizePrefix(Len(b)) = 1
      BY <1>3, SMT DEF SizePrefix
    <2>3. ~IsSingleByte(b)
      BY <1>3, SMT DEF IsSingleByte
    <2> QED  BY <2>1, <2>2, <2>3, Zenon
  <1>4. CASE Len(b) >= 2
    <2>1. AtomChunks(b) = <<SizePrefix(Len(b)), Len(b)>>
      BY <1>4, SMT DEF AtomChunks, SizePrefix
    <2>2. ~IsSingleByte(b)
      <3> DEFINE n == Len(b)
      <3>1. n \in Nat /\ n >= 2
        BY <1>4
      <3> HIDE DEF n
      <3>2. n # 0 /\ n # 1
        BY <3>1
      <3> QED  BY <3>2, Zenon DEF IsSingleByte, n
    <2> QED  BY <2>1, <2>2, Zenon
  <1> DEFINE n == Len(b)
             c == b[1]
  <1>5. n \in Nat /\ (n = 1 => c \in Nat)
    OBVIOUS
  <1>6. n = 0 \/ (n = 1 /\ c <= 127) \/ (n = 1 /\ c > 127) \/ n >= 2
    <2> HIDE DEF n, c
    <2>1. n = 0 \/ n = 1 \/ n >= 2
      BY <1>5
    <2>2. n = 1 => c <= 127 \/ c > 127
      BY <1>5
    <2> QED  BY <2>1, <2>2, Zenon
  <1> QED  BY <1>1, <1>2, <1>3, <1>4, <1>6, Zenon

\* What the writer yields for an atom is what serialized_length says.
LEMMA FirstByte ==
    ASSUME NEW S, NEW b \in Seq(S), Len(b) = 1
    PROVE  b[1] \in S
  OBVIOUS

LEMMA ByteIsNat ==
    ASSUME NEW x \in 0..255
    PROVE  x \in Nat
  OBVIOUS

LEMMA SmallByte ==
    ASSUME NEW x \in Nat
    PROVE  x <= 127 <=> x < 128
  OBVIOUS

LEMMA SingleByte ==
    ASSUME NEW b \in Seq(0..255)
    PROVE  IsSingleByte(b) <=> (b = <<>> \/ (Len(b) = 1 /\ b[1] < 128))
  <1>1. Len(b) = 0 <=> b = <<>>
    OBVIOUS
  <1>2. ASSUME Len(b) = 1 PROVE b[1] <= 127 <=> b[1] < 128
    <2>1. b[1] \in 0..255
      BY <1>2, FirstByte, Zenon
    <2> QED  BY <2>1, ByteIsNat, SmallByte, Zenon
  <1> QED  BY <1>1, <1>2, Zenon DEF IsSingleByte

\* The chunks of a back-reference: its marker, and those of its path.
LEMMA OneAndOne ==
    ASSUME NEW S, NEW k \in S, NEW n \in S
    PROVE  <<k>> \o <<n>> = <<k, n>>
  <1> DEFINE s == <<k>>
             t == <<n>>
             u == <<k, n>>
  <1>1. s \in Seq(S) /\ t \in Seq(S) /\ u \in Seq(S) /\ Len(s) = 1 /\ Len(t) = 1 /\ Len(u) = 2
        /\ s[1] = k /\ t[1] = n /\ u[1] = k /\ u[2] = n
    OBVIOUS
  <1> HIDE DEF s, t, u
  <1>2. s \o t \in Seq(S) /\ Len(s \o t) = 2 /\ (s \o t)[1] = k /\ (s \o t)[2] = n
    BY <1>1, ConcatProperties
  <1>3. ASSUME NEW i \in 1..2 PROVE (s \o t)[i] = u[i]
    <2>1. i = 1 \/ i = 2
      OBVIOUS
    <2> QED  BY <1>1, <1>2, <2>1, Zenon
  <1>4. s \o t = u
    BY <1>1, <1>2, <1>3, SeqEqual
  <1> QED  BY <1>4 DEF s, t, u

LEMMA OneAndTwo ==
    ASSUME NEW S, NEW m \in S, NEW k \in S, NEW n \in S
    PROVE  <<m>> \o <<k, n>> = <<m, k, n>>
  <1> DEFINE s == <<m>>
             t == <<k, n>>
             u == <<m, k, n>>
  <1>1. s \in Seq(S) /\ t \in Seq(S) /\ u \in Seq(S) /\ Len(s) = 1 /\ Len(t) = 2 /\ Len(u) = 3
        /\ s[1] = m /\ t[1] = k /\ t[2] = n /\ u[1] = m /\ u[2] = k /\ u[3] = n
    OBVIOUS
  <1> HIDE DEF s, t, u
  <1>2. s \o t \in Seq(S) /\ Len(s \o t) = 3 /\ (s \o t)[1] = m /\ (s \o t)[2] = k /\ (s \o t)[3] = n
    <2>1. /\ s \o t \in Seq(S)
          /\ Len(s \o t) = 1 + 2
          /\ \A i \in 1..(1 + 2) : (s \o t)[i] = IF i <= 1 THEN s[i] ELSE t[i - 1]
      <3>1. /\ s \o t \in Seq(S)
            /\ Len(s \o t) = Len(s) + Len(t)
            /\ \A i \in 1..(Len(s) + Len(t)) : (s \o t)[i] = IF i <= Len(s) THEN s[i] ELSE t[i - Len(s)]
        BY <1>1, ConcatProperties, Zenon
      <3> QED  BY <1>1, <3>1, Zenon
    <2>2. 1 \in 1..(1 + 2) /\ 2 \in 1..(1 + 2) /\ 3 \in 1..(1 + 2) /\ 1 + 2 = 3
          /\ 1 <= 1 /\ ~(2 <= 1) /\ ~(3 <= 1) /\ 2 - 1 = 1 /\ 3 - 1 = 2
      OBVIOUS
    <2>3. (s \o t)[1] = s[1] /\ (s \o t)[2] = t[2 - 1] /\ (s \o t)[3] = t[3 - 1]
      BY <2>1, <2>2, Zenon
    <2> QED  BY <1>1, <2>1, <2>2, <2>3, Zenon
  <1>3. ASSUME NEW i \in 1..3 PROVE (s \o t)[i] = u[i]
    <2>1. i = 1 \/ i = 2 \/ i = 3
      OBVIOUS
    <2> QED  BY <1>1, <1>2, <2>1, Zenon
  <1>4. s \o t = u
    BY <1>1, <1>2, <1>3, SeqEqual
  <1> QED  BY <1>4 DEF s, t, u

LEMMA MarkerFirst ==
    ASSUME NEW k \in Nat, NEW n \in Nat
    PROVE  /\ <<1>> \o <<1>> = <<1, 1>>
           /\ <<1>> \o <<k, n>> = <<1, k, n>>
  <1>1. 1 \in Nat
    OBVIOUS
  <1> QED  BY <1>1, OneAndOne, OneAndTwo, Zenon

LEMMA TotalsOfFew ==
    ASSUME NEW k \in Nat, NEW n \in Nat
    PROVE  /\ Total(<<1>>) = 1 /\ Total(<<1, 1>>) = 2
           /\ Total(<<k, n>>) = k + n /\ Total(<<1, k, n>>) = 1 + (k + n)
  <1>1. 1 \in Nat
    OBVIOUS
  <1>2. Total(<<1>>) = 1 /\ Total(<<1, 1>>) = 1 + 1
    BY <1>1, TotalOfFew
  <1>3. Total(<<k, n>>) = k + n
    BY TotalOfFew
  <1>4. Total(<<1, k, n>>) = (1 + k) + n
    BY <1>1, TotalOfFew
  <1>5. (1 + k) + n = 1 + (k + n)
    OBVIOUS
  <1> QED  BY <1>2, <1>3, <1>4, <1>5

LEMMA AtomTotal ==
    ASSUME NEW b \in Seq(0..255)
    PROVE  /\ AtomLength(b) \in Nat
           /\ Total(AtomChunks(b)) = AtomLength(b)
           /\ Total(<<1>> \o AtomChunks(b)) = 1 + AtomLength(b)
           /\ AtomLength(b) <= SizePrefix(Len(b)) + Len(b)
  <1> DEFINE n == Len(b)
             k == SizePrefix(n)
  <1>1. n \in Nat /\ (n = 0 <=> b = <<>>) /\ (n = 1 => b[1] \in Nat)
    <2>1. n = 0 <=> b = <<>>
      OBVIOUS
    <2>2. n \in Nat
      OBVIOUS
    <2>3. ASSUME n = 1 PROVE b[1] \in Nat
      <3>1. b[1] \in 0..255
        BY <2>3, FirstByte, Zenon
      <3> QED  BY <3>1, ByteIsNat, Zenon
    <2> QED  BY <2>1, <2>2, <2>3
  <1>2. k \in 1..5 /\ (n < 64 => k = 1)
    BY <1>1, PrefixBytes
  <1> DEFINE single == IsSingleByte(b)
  <1>0. /\ single => AtomChunks(b) = <<1>>
        /\ ~single => AtomChunks(b) = <<k, n>>
    BY <1>1, ChunksOf, Zenon
  <1>3. CASE single
    <2>1. AtomChunks(b) = <<1>>
      BY <1>0, <1>3
    <2>2. AtomLength(b) = 1
      <3>1. b = <<>> \/ (Len(b) = 1 /\ b[1] < 128)
        BY <1>3, SingleByte, Zenon
      <3> QED  BY <3>1, Zenon DEF AtomLength
    <2>3. Total(<<1>>) = 1 /\ Total(<<1>> \o <<1>>) = 2
      <3>1. 0 \in Nat
        OBVIOUS
      <3>2. <<1>> \o <<1>> = <<1, 1>>
        BY MarkerFirst, Zenon
      <3> QED  BY <3>1, <3>2, TotalsOfFew, Zenon
    <2> HIDE DEF n, k
    <2>4. 1 <= k + n /\ 1 \in Nat /\ 1 + 1 = 2
      BY <1>1, <1>2
    <2>5. AtomLength(b) <= k + n /\ AtomLength(b) \in Nat
      BY <2>2, <2>4, Zenon
    <2>6. Total(AtomChunks(b)) = AtomLength(b)
      BY <2>1, <2>2, <2>3, Zenon
    <2>7. Total(<<1>> \o AtomChunks(b)) = 1 + AtomLength(b)
      BY <2>1, <2>2, <2>3, <2>4, Zenon
    <2> QED  BY <2>5, <2>6, <2>7, Zenon DEF k, n
  <1>4. CASE ~single
    <2>1. AtomChunks(b) = <<k, n>>
      BY <1>0, <1>4
    <2>2. AtomLength(b) = k + n
      <3>1. ~(b = <<>> \/ (Len(b) = 1 /\ b[1] < 128))
        BY <1>4, SingleByte, Zenon
      <3> QED  BY <3>1, Zenon DEF AtomLength
    <2> HIDE DEF n, k
    <2>3. Total(<<k, n>>) = k + n /\ Total(<<1>> \o <<k, n>>) = 1 + (k + n)
      <3>1. k \in Nat
        BY <1>2
      <3>2. <<1>> \o <<k, n>> = <<1, k, n>>
        BY <1>1, <3>1, MarkerFirst, Zenon
      <3> QED  BY <1>1, <3>1, <3>2, TotalsOfFew, Zenon
    <2>4. k + n \in Nat /\ k + n <= k + n
      BY <1>1, <1>2
    <2>5. AtomLength(b) <= k + n /\ AtomLength(b) \in Nat
      BY <2>2, <2>4, Zenon
    <2>6. Total(AtomChunks(b)) = AtomLength(b) /\ Total(<<1>> \o AtomChunks(b)) = 1 + AtomLength(b)
      BY <2>1, <2>2, <2>3, Zenon
    <2> QED  BY <2>5, <2>6, Zenon DEF k, n
  <1> QED  BY <1>3, <1>4

LEMMA TokenLengths ==
    ASSUME NEW b \in Seq(0..255)
    PROVE  /\ TokenLength(AtomToken(b)) = AtomLength(b) /\ Excess(AtomToken(b)) = 0
           /\ TokenLength(ConsToken) = 1 /\ Excess(ConsToken) = 0
           /\ TokenLength(BackrefToken(b)) = 1 + AtomLength(b)
           /\ Excess(BackrefToken(b)) = SizePrefix(Len(b)) - 1
           /\ Excess(BackrefToken(b)) \in Nat
  <1>1. /\ IsAtomToken(AtomToken(b)) /\ ~IsBackrefToken(AtomToken(b)) /\ AtomToken(b).atom = b
        /\ IsBackrefToken(BackrefToken(b)) /\ ~IsAtomToken(BackrefToken(b))
        /\ BackrefToken(b).path = b
        /\ ~IsAtomToken(ConsToken) /\ ~IsBackrefToken(ConsToken)
    BY TokenFacts
  <1>2. Total(AtomChunks(b)) = AtomLength(b) /\ Total(<<1>> \o AtomChunks(b)) = 1 + AtomLength(b)
    BY AtomTotal
  <1>3. Total(<<1>>) = 1
    BY TotalOfFew
  <1>4. /\ TokenLength(AtomToken(b)) = AtomLength(b)
        /\ TokenLength(ConsToken) = 1
        /\ TokenLength(BackrefToken(b)) = 1 + AtomLength(b)
    BY <1>1, <1>2, <1>3, Zenon DEF TokenLength, TokenChunks
  <1>5. Excess(AtomToken(b)) = 0 /\ Excess(ConsToken) = 0
    BY <1>1, Zenon DEF Excess
  <1>6. Excess(BackrefToken(b)) = IF Len(b) >= 64 THEN SizePrefix(Len(b)) - 1 ELSE 0
    BY <1>1, Zenon DEF Excess
  <1> DEFINE n == Len(b)
             k == SizePrefix(n)
  <1>7. n \in Nat /\ k \in 1..5 /\ (n < 64 => k = 1)
    <2>1. n \in Nat
      OBVIOUS
    <2> QED  BY <2>1, PrefixBytes
  <1> HIDE DEF n, k
  <1>8. (IF n >= 64 THEN k - 1 ELSE 0) = k - 1 /\ k - 1 \in Nat
    BY <1>7
  <1> QED  BY <1>4, <1>5, <1>6, <1>8 DEF n, k

\* A back-reference that is found is longer than its object by no more than
\* the excess.
LEMMA BackrefIsShort ==
    ASSUME NEW v, NEW r, Pictured(v, r), NEW x \in Trees, FindPath(r, H(x), Rank[x]) # NoPath
    PROVE  LET t == BackrefToken(BytesOf(FindPath(r, H(x), Rank[x])))
           IN  /\ TokenLength(t) \in Nat /\ Excess(t) \in Nat
               /\ TokenLength(t) <= Rank[x] + Excess(t)
  <1> DEFINE found == FindPaths(r, H(x), Rank[x])
             numbers == { PathNumber(p) : p \in found }
             best == FindPath(r, H(x), Rank[x])
             path == BytesOf(best)
             t == BackrefToken(path)
  <1>1. found # {} /\ best = Min(numbers)
    BY DEF FindPath
  <1>2. LinksAreSound(r) /\ IsFiniteSet(DOMAIN r.count)
    BY DEF Pictured, Good, ShapeOK, LinksAreSound
  <1>3. Rank[x] \in Nat
    BY TreeFacts
  <1>4. ASSUME NEW p \in found
        PROVE  /\ PathNumber(p) \in Nat
               /\ BytesOf(PathNumber(p)) \in Seq(0..255)
               /\ Len(BytesOf(PathNumber(p))) + 2 <= Rank[x]
    BY <1>2, <1>3, FoundIsShort
  <1> HIDE DEF found
  <1>5. best \in numbers
    <2>1. numbers \subseteq Nat /\ numbers # {}
      BY <1>1, <1>4
    <2> HIDE DEF numbers, best
    <2>2. \E k \in numbers : \A j \in numbers : k <= j
      BY <2>1, LeastOf
    <2> QED  BY <1>1, <2>2 DEF Min
  <1>6. path \in Seq(0..255) /\ Len(path) + 2 <= Rank[x]
    BY <1>4, <1>5
  <1> HIDE DEF path, numbers
  <1> DEFINE n == Len(path)
             k == SizePrefix(n)
             l == AtomLength(path)
             R == Rank[x]
  <1>7. n \in Nat /\ k \in 1..5
    <2>1. n \in Nat
      BY <1>6
    <2> QED  BY <2>1, PrefixBytes
  <1>8. /\ l \in Nat /\ l <= k + n
        /\ TokenLength(t) = 1 + l /\ Excess(t) = k - 1 /\ Excess(t) \in Nat
    BY <1>6, AtomTotal, TokenLengths
  <1>9. R \in Nat /\ n + 2 <= R
    BY <1>3, <1>6
  <1> HIDE DEF n, k, l, R, t
  <1>10. TokenLength(t) \in Nat /\ TokenLength(t) <= R + Excess(t)
    BY <1>7, <1>8, <1>9
  <1> QED  BY <1>8, <1>10 DEF R, t, path


-----------------------------------------------------------------------------
(***************************************************************************)
(* The sizes along the way: what was written and what is still on the      *)
(* stack, each object by its serialised length, are together what the tree *)
(* takes as it is, or no more than that and the excess.                    *)
(***************************************************************************)
Weight(nodes) == Total([i \in DOMAIN nodes |-> Rank[nodes[i]]])

LEMMA WeightPopped ==
    ASSUME NEW s \in Seq(Trees), Len(s) > 0
    PROVE  /\ Weight(s) \in Nat /\ Weight(Front(s)) \in Nat
           /\ Weight(s) = Weight(Front(s)) + Rank[Last(s)]
  <1> DEFINE t == Front(s)
             n == Len(t)
             g == [i \in DOMAIN t |-> Rank[t[i]]]
             h == [i \in DOMAIN s |-> Rank[s[i]]]
  <1>1. /\ t \in Seq(Trees) /\ n = Len(s) - 1 /\ Len(s) \in Nat \ {0}
        /\ \A i \in 1..(Len(s) - 1) : t[i] = s[i]
        /\ Last(s) = s[Len(s)]
    BY StackFacts
  <1>2. n \in Nat /\ Len(s) = n + 1
    BY <1>1
  <1>3. DOMAIN t = 1..n /\ DOMAIN s = 1..(n + 1)
    BY <1>1, <1>2, LenProperties
  <1>4. \A i \in 1..n : t[i] \in Trees
    BY <1>1, LenProperties
  <1>5. \A i \in 1..(n + 1) : s[i] \in Trees
    BY <1>2, LenProperties
  <1> HIDE DEF n, t
  <1>6. g \in [1..n -> Nat] /\ h \in [1..(n + 1) -> Nat]
    BY <1>3, <1>4, <1>5, TreeFacts
  <1>7. /\ \A i \in 1..n : h[i] = g[i]
        /\ h[n + 1] = Rank[Last(s)]
    <2>1. n + 1 \in 1..(n + 1) /\ Len(s) - 1 = n
          /\ \A i \in 1..n : i \in 1..(n + 1)
      BY <1>2
    <2> QED  BY <1>1, <1>2, <1>3, <2>1
  <1>8. Weight(t) = Total(g) /\ Weight(s) = Total(h)
    BY DEF Weight
  <1> HIDE DEF g, h
  <1>9. Total(g) \in Nat /\ Total(h) \in Nat /\ Total(h) = Total(g) + h[n + 1]
    BY <1>2, <1>6, <1>7, TotalGrows
  <1> QED  BY <1>7, <1>8, <1>9 DEF t

LEMMA WeightTwo ==
    ASSUME NEW s \in Seq(Trees), NEW a \in Trees, NEW b \in Trees
    PROVE  /\ Weight(s) \in Nat /\ Weight(s \o <<a, b>>) \in Nat
           /\ Weight(s \o <<a, b>>) = (Weight(s) + Rank[a]) + Rank[b]
  <1> DEFINE t == s \o <<a, b>>
             n == Len(s)
             g == [i \in DOMAIN s |-> Rank[s[i]]]
             k == [i \in 1..(n + 1) |-> Rank[t[i]]]
             h == [i \in DOMAIN t |-> Rank[t[i]]]
  <1>1. /\ t \in Seq(Trees) /\ Len(t) = n + 2 /\ n \in Nat
        /\ \A i \in 1..n : t[i] = s[i]
        /\ t[n + 1] = a /\ t[n + 2] = b
    BY PutTwo
  <1>2. DOMAIN s = 1..n /\ DOMAIN t = 1..(n + 2)
    BY <1>1, LenProperties
  <1>3. \A i \in 1..n : s[i] \in Trees
    BY LenProperties
  <1>4. \A i \in 1..(n + 2) : t[i] \in Trees
    BY <1>1, LenProperties
  <1> HIDE DEF n, t
  <1>5. /\ \A i \in 1..n : i \in 1..(n + 1)
        /\ \A i \in 1..(n + 1) : i \in 1..(n + 2)
        /\ n + 1 \in 1..(n + 1) /\ (n + 1) + 1 = n + 2 /\ n + 2 \in 1..(n + 2)
        /\ n + 1 \in Nat
    BY <1>1
  <1>6. /\ g \in [1..n -> Nat] /\ k \in [1..(n + 1) -> Nat]
        /\ h \in [1..((n + 1) + 1) -> Nat]
    BY <1>2, <1>3, <1>4, <1>5, TreeFacts
  <1>7. /\ \A i \in 1..n : k[i] = g[i]
        /\ k[n + 1] = Rank[a]
        /\ \A i \in 1..(n + 1) : h[i] = k[i]
        /\ h[(n + 1) + 1] = Rank[b]
    BY <1>1, <1>2, <1>5
  <1>8. Weight(s) = Total(g) /\ Weight(t) = Total(h)
    BY DEF Weight
  <1> HIDE DEF g, h, k
  <1>9. Total(g) \in Nat /\ Total(k) = Total(g) + k[n + 1]
    BY <1>1, <1>6, <1>7, TotalGrows
  <1>10. Total(h) \in Nat /\ Total(h) = Total(k) + h[(n + 1) + 1]
    BY <1>5, <1>6, <1>7, TotalGrows
  <1> QED  BY <1>7, <1>8, <1>9, <1>10, Zenon DEF t

\* One more token adds what it takes.
Measured(tokens) == \A i \in DOMAIN tokens : TokenLength(tokens[i]) \in Nat /\ Excess(tokens[i]) \in Nat

ExcessOf(tokens) == Total([i \in DOMAIN tokens |-> Excess(tokens[i])])

LEMMA StreamGrows ==
    ASSUME NEW s, s \in Seq(Range(s)), Measured(s),
           NEW t, TokenLength(t) \in Nat, Excess(t) \in Nat
    PROVE  /\ StreamLength(s) \in Nat /\ ExcessOf(s) \in Nat
           /\ StreamLength(Append(s, t)) = StreamLength(s) + TokenLength(t)
           /\ ExcessOf(Append(s, t)) = ExcessOf(s) + Excess(t)
           /\ Measured(Append(s, t))
  <1> DEFINE u == Append(s, t)
             n == Len(s)
  <1>1. /\ u \in Seq(Range(u)) /\ Len(u) = n + 1 /\ n \in Nat
        /\ \A i \in 1..n : u[i] = s[i]
        /\ u[n + 1] = t
    BY AppendFacts
  <1>2. DOMAIN s = 1..n /\ DOMAIN u = 1..(n + 1)
    <2>1. DOMAIN s = 1..Len(s) /\ DOMAIN u = 1..Len(u)
      BY <1>1, LenProperties, Zenon
    <2> QED  BY <1>1, <2>1
  <1> HIDE DEF n, u
  <1>3. \A i \in 1..(n + 1) : i \in 1..n \/ i = n + 1
    BY <1>1
  <1>4. \A i \in 1..n : i \in 1..(n + 1)
    BY <1>1
  <1>5. n + 1 \in 1..(n + 1)
    BY <1>1
  <1>6. Measured(u)
    <2>1. SUFFICES ASSUME NEW i \in 1..(n + 1)
                   PROVE  TokenLength(u[i]) \in Nat /\ Excess(u[i]) \in Nat
      BY <1>2, Zenon DEF Measured
    <2>2. CASE i \in 1..n
      BY <1>1, <1>2, <2>2, Zenon DEF Measured
    <2>3. CASE i = n + 1
      BY <1>1, <2>3, Zenon
    <2> QED  BY <1>3, <2>2, <2>3, Zenon
  <1>7. /\ StreamLength(s) \in Nat
        /\ StreamLength(u) = StreamLength(s) + TokenLength(t)
    <2> DEFINE g == [i \in DOMAIN s |-> TokenLength(s[i])]
               h == [i \in DOMAIN u |-> TokenLength(u[i])]
    <2>1. g \in [1..n -> Nat] /\ h \in [1..(n + 1) -> Nat]
      <3>1. \A i \in 1..n : TokenLength(s[i]) \in Nat
        BY <1>2, Zenon DEF Measured
      <3>2. \A i \in 1..(n + 1) : TokenLength(u[i]) \in Nat
        BY <1>2, <1>6, Zenon DEF Measured
      <3> QED  BY <1>2, <3>1, <3>2
    <2>2. (\A i \in 1..n : h[i] = g[i]) /\ h[n + 1] = TokenLength(t)
      BY <1>1, <1>2, <1>4, <1>5
    <2>3. StreamLength(s) = Total(g) /\ StreamLength(u) = Total(h)
      BY Zenon DEF StreamLength
    <2> HIDE DEF g, h
    <2>4. Total(g) \in Nat /\ Total(h) = Total(g) + h[n + 1]
      BY <1>1, <2>1, <2>2, TotalGrows
    <2> QED  BY <2>2, <2>3, <2>4, Zenon
  <1>8. /\ ExcessOf(s) \in Nat
        /\ ExcessOf(u) = ExcessOf(s) + Excess(t)
    <2> DEFINE g == [i \in DOMAIN s |-> Excess(s[i])]
               h == [i \in DOMAIN u |-> Excess(u[i])]
    <2>1. g \in [1..n -> Nat] /\ h \in [1..(n + 1) -> Nat]
      <3>1. \A i \in 1..n : Excess(s[i]) \in Nat
        BY <1>2, Zenon DEF Measured
      <3>2. \A i \in 1..(n + 1) : Excess(u[i]) \in Nat
        BY <1>2, <1>6, Zenon DEF Measured
      <3> QED  BY <1>2, <3>1, <3>2
    <2>2. (\A i \in 1..n : h[i] = g[i]) /\ h[n + 1] = Excess(t)
      BY <1>1, <1>2, <1>4, <1>5
    <2>3. ExcessOf(s) = Total(g) /\ ExcessOf(u) = Total(h)
      BY Zenon DEF ExcessOf
    <2> HIDE DEF g, h
    <2>4. Total(g) \in Nat /\ Total(h) = Total(g) + h[n + 1]
      BY <1>1, <2>1, <2>2, TotalGrows
    <2> QED  BY <2>2, <2>3, <2>4, Zenon
  <1> QED  BY <1>6, <1>7, <1>8 DEF u


\* What the next token takes of what its object takes.
LEMMA NextTokenSize ==
    ASSUME IInv, MayWrite
    PROVE  /\ Node \in Trees /\ write_stack \in Seq(Trees) /\ Len(write_stack) > 0
           /\ TokenLength(NextToken) \in Nat /\ Excess(NextToken) \in Nat
           /\ TokenLength(NextToken) <= Rank[Node] + Excess(NextToken)
           /\ ~IsBackrefToken(NextToken) => Excess(NextToken) = 0
           /\ IsAtomToken(NextToken) => TokenLength(NextToken) = Rank[Node]
           /\ NextToken = ConsToken =>
                 /\ TokenLength(NextToken) = 1
                 /\ First(Node) \in Trees /\ Rest(Node) \in Trees
                 /\ Rank[Node] = (1 + Rank[First(Node)]) + Rank[Rest(Node)]
           /\ NextToken # CutToken
  <1>1. PICK G, N : InHistory(G, N)
    BY DEF IInv
  <1>2. PICK m : AtNode(G[N], m)
    BY <1>1, WriterAtNode
  <1>3. Node \in Trees /\ write_stack \in Seq(Trees) /\ Len(write_stack) > 0
    BY <1>2 DEF AtNode, WritesAt
  <1>4. /\ \/ IsAtom(Node) /\ ~IsPair(Node)
           \/ IsPair(Node) /\ ~IsAtom(Node) /\ First(Node) \in Trees /\ Rest(Node) \in Trees
        /\ Rank[Node] \in Nat
    BY <1>3, TreeFacts, Zenon
  <1>5. Rank[Node] = IF IsPair(Node) THEN 1 + Rank[First(Node)] + Rank[Rest(Node)]
                     ELSE AtomLength(Node.atom)
    BY <1>3, LengthFacts, Zenon
  <1>6. NextToken # CutToken
    BY <1>3, NextTokenFacts
  <1>7. <<>> \in Seq(0..255)
    OBVIOUS
  <1>8. CASE allow_backrefs /\ PathOf # NoPath
    <2>1. NextToken = BackrefToken(BytesOf(PathOf))
      BY <1>8 DEF NextToken
    <2>2. Pictured(G[N].val[m], rcl)
      BY <1>2, <1>8 DEF AtNode, PictureAt
    <2>3. PathOf = FindPath(rcl, H(Node), Rank[Node])
      BY DEF PathOf, Hash, H, Rank
    <2>4. FindPath(rcl, H(Node), Rank[Node]) # NoPath
      BY <1>8, <2>3, Zenon
    <2>5. /\ TokenLength(NextToken) \in Nat /\ Excess(NextToken) \in Nat
          /\ TokenLength(NextToken) <= Rank[Node] + Excess(NextToken)
      BY <1>3, <2>1, <2>2, <2>3, <2>4, BackrefIsShort, Zenon
    <2>6. IsBackrefToken(NextToken) /\ ~IsAtomToken(NextToken) /\ NextToken # ConsToken
      BY <2>1, TokenFacts, Zenon
    <2> QED  BY <1>3, <1>6, <2>5, <2>6, Zenon
  <1>9. CASE ~(allow_backrefs /\ PathOf # NoPath) /\ IsPair(Node)
    <2>1. NextToken = ConsToken
      BY <1>9 DEF NextToken
    <2>2. TokenLength(NextToken) = 1 /\ Excess(NextToken) = 0
      BY <1>7, <2>1, TokenLengths, Zenon
    <2>3. First(Node) \in Trees /\ Rest(Node) \in Trees
          /\ Rank[Node] = (1 + Rank[First(Node)]) + Rank[Rest(Node)]
      BY <1>4, <1>5, <1>9, Zenon
    <2>4. Rank[First(Node)] \in Nat /\ Rank[Rest(Node)] \in Nat
      BY <2>3, TreeFacts, Zenon
    <2>5. 1 <= Rank[Node] + 0 /\ 1 \in Nat /\ 0 \in Nat
      <3> DEFINE a == Rank[First(Node)]
                 b == Rank[Rest(Node)]
                 c == Rank[Node]
      <3>1. a \in Nat /\ b \in Nat /\ c = (1 + a) + b
        BY <2>3, <2>4, Zenon
      <3> HIDE DEF a, b, c
      <3>2. 1 <= c + 0 /\ 1 \in Nat /\ 0 \in Nat
        BY <3>1
      <3> QED  BY <3>2, Zenon DEF c
    <2>6. ~IsAtomToken(NextToken)
      BY <2>1, TokenFacts, Zenon
    <2> QED  BY <1>3, <1>6, <2>2, <2>3, <2>5, <2>6, Zenon
  <1>10. CASE ~(allow_backrefs /\ PathOf # NoPath) /\ ~IsPair(Node)
    <2>1. NextToken = AtomToken(Node.atom)
      BY <1>10 DEF NextToken
    <2>2. Node.atom \in Seq(0..255)
      BY <1>3, <1>10, TreesAssumption, Zenon
    <2>3. TokenLength(NextToken) = Rank[Node] /\ Excess(NextToken) = 0
      BY <1>5, <1>10, <2>1, <2>2, TokenLengths, Zenon
    <2>4. Rank[Node] <= Rank[Node] + 0 /\ 0 \in Nat
      BY <1>4
    <2>5. NextToken # ConsToken
      BY <2>1, TokenFacts, Zenon
    <2> QED  BY <1>3, <1>4, <1>6, <2>3, <2>4, <2>5, Zenon
  <1> QED  BY <1>8, <1>9, <1>10, Zenon

\* The invariant of the sizes; the bound of a raised writer is NeverLonger's.
Sizes ==
    /\ max_size \in Int /\ Measured(f)
    /\ writer # "raised" =>
          /\ \A i \in DOMAIN f : f[i] # CutToken
          /\ StreamLength(f) + Weight(write_stack) <= Rank[tree] + ExcessOf(f)
          /\ ~allow_backrefs => StreamLength(f) + Weight(write_stack) = Rank[tree]
    /\ writer = "raised" =>
          \/ Refused
          \/ StreamLength(WholeTokens) + max_size < (Rank[tree] + ExcessOf(f)) + Excess(NextToken)

\* The writer puts a token into the stream and changes its stack.
LEMMA WritesToken ==
    ASSUME Sizes, f \in Seq(Range(f)), writer = "writing", Rank[tree] \in Nat,
           NEW t, Yield(t), t # CutToken, TokenLength(t) \in Nat, Excess(t) \in Nat,
           Weight(write_stack) \in Nat, Weight(write_stack') \in Nat,
           TokenLength(t) + Weight(write_stack') <= Weight(write_stack) + Excess(t),
           ~allow_backrefs => TokenLength(t) + Weight(write_stack') = Weight(write_stack)
    PROVE  Sizes'
  <1>1. /\ f' = Append(f, t) /\ tree' = tree /\ allow_backrefs' = allow_backrefs
        /\ writer' = "writing" /\ max_size' = max_size - TokenLength(t)
    BY DEF Yield
  <1>2. /\ StreamLength(f) \in Nat /\ ExcessOf(f) \in Nat
        /\ StreamLength(f') = StreamLength(f) + TokenLength(t)
        /\ ExcessOf(f') = ExcessOf(f) + Excess(t)
        /\ Measured(f')
    <2>1. Measured(f)
      BY DEF Sizes
    <2> QED  BY <1>1, <2>1, StreamGrows, Zenon
  <1>3. \A i \in DOMAIN f' : f'[i] # CutToken
    <2>1. /\ f' \in Seq(Range(f')) /\ Len(f') = Len(f) + 1 /\ Len(f) \in Nat
          /\ \A i \in 1..Len(f) : f'[i] = f[i]
          /\ f'[Len(f) + 1] = t
      BY <1>1, AppendFacts
    <2>2. DOMAIN f = 1..Len(f) /\ DOMAIN f' = 1..Len(f')
      BY <2>1, LenProperties, Zenon
    <2> DEFINE n == Len(f)
    <2>3. \A i \in 1..(n + 1) : i \in 1..n \/ i = n + 1
      <3>1. n \in Nat
        BY <2>1
      <3> HIDE DEF n
      <3> QED  BY <3>1
    <2>4. \A i \in DOMAIN f : f[i] # CutToken
      BY DEF Sizes
    <2> QED  BY <2>1, <2>2, <2>3, <2>4, Zenon
  <1>4. max_size' \in Int
    <2>1. max_size \in Int
      BY DEF Sizes
    <2> QED  BY <1>1, <2>1
  <1> DEFINE l  == StreamLength(f)
             e  == ExcessOf(f)
             w  == Weight(write_stack)
             ww == Weight(write_stack')
             R  == Rank[tree]
             a  == TokenLength(t)
             x  == Excess(t)
  <1>5. l \in Nat /\ e \in Nat /\ w \in Nat /\ ww \in Nat /\ R \in Nat /\ a \in Nat /\ x \in Nat
    BY <1>2
  <1>6. l + w <= R + e /\ (~allow_backrefs => l + w = R)
    BY DEF Sizes
  <1>7. a + ww <= w + x /\ (~allow_backrefs => a + ww = w)
    OBVIOUS
  <1> HIDE DEF l, e, w, ww, R, a, x
  <1>8. (l + a) + ww <= R + (e + x)
    BY <1>5, <1>6, <1>7
  <1>9. ASSUME ~allow_backrefs PROVE (l + a) + ww = R
    BY <1>5, <1>6, <1>7, <1>9
  <1>10. StreamLength(f') + Weight(write_stack') <= Rank[tree'] + ExcessOf(f')
    BY <1>1, <1>2, <1>8, Zenon DEF l, e, ww, R, a, x
  <1>11. ~allow_backrefs' => StreamLength(f') + Weight(write_stack') = Rank[tree']
    BY <1>1, <1>2, <1>9, Zenon DEF l, e, ww, R, a, x
  <1>12. writer' # "raised"
    BY <1>1
  <1> QED  BY <1>2, <1>3, <1>4, <1>10, <1>11, <1>12, Zenon DEF Sizes


LEMMA RootLength ==
    ASSUME IInv
    PROVE  tree \in Trees /\ Rank[tree] \in Nat
  <1>1. tree \in Trees
    BY TreesAssumption DEF IInv
  <1> QED  BY <1>1, TreeFacts

LEMMA WriterSizes ==
    ASSUME IInv, Sizes, WriteBackref \/ WriteCons \/ WriteAtom
    PROVE  Sizes'
  <1> DEFINE t == NextToken
             w == Weight(write_stack)
             v == Weight(Front(write_stack))
             R == Rank[Node]
             ww == Weight(write_stack')
  <1>1. MayWrite /\ writer = "writing" /\ Yield(t)
    <2>1. MayWrite /\ Yield(t)
      BY DEF WriteBackref, WriteCons, WriteAtom
    <2> QED  BY <2>1 DEF MayWrite, NodeTaken
  <1>2. /\ Node \in Trees /\ write_stack \in Seq(Trees) /\ Len(write_stack) > 0
        /\ TokenLength(t) \in Nat /\ Excess(t) \in Nat
        /\ TokenLength(t) <= Rank[Node] + Excess(t)
        /\ ~IsBackrefToken(t) => Excess(t) = 0
        /\ IsAtomToken(t) => TokenLength(t) = Rank[Node]
        /\ t = ConsToken =>
              /\ TokenLength(t) = 1
              /\ First(Node) \in Trees /\ Rest(Node) \in Trees
              /\ Rank[Node] = (1 + Rank[First(Node)]) + Rank[Rest(Node)]
        /\ t # CutToken
    BY <1>1, NextTokenSize, Zenon
  <1>3. f \in Seq(Range(f)) /\ Rank[tree] \in Nat
    BY RootLength DEF IInv
  <1>4. w \in Nat /\ v \in Nat /\ w = v + R /\ R \in Nat
    <2>1. w \in Nat /\ v \in Nat /\ w = v + R
      BY <1>2, WeightPopped, Zenon DEF Node
    <2>2. R \in Nat
      BY <1>2, TreeFacts, Zenon
    <2> QED  BY <2>1, <2>2
  <1>5. Front(write_stack) \in Seq(Trees)
    BY <1>2, StackFacts, Zenon
  <1> DEFINE a == TokenLength(t)
             x == Excess(t)
  <1>6. /\ ww \in Nat
        /\ a + ww <= w + x
        /\ ~allow_backrefs => a + ww = w
    <2>1. CASE WriteBackref
      <3>1. write_stack' = Front(write_stack) /\ IsBackrefToken(t)
        BY <2>1 DEF WriteBackref
      <3>2. allow_backrefs
        BY <1>2, <3>1, NextTokenFacts, Zenon
      <3>3. ww = v
        BY <3>1, Zenon
      <3>4. a \in Nat /\ x \in Nat /\ a <= R + x
        BY <1>2, Zenon
      <3> HIDE DEF a, x, R, v, w, ww
      <3>5. ww \in Nat /\ a + ww <= w + x
        BY <1>4, <3>3, <3>4
      <3> QED  BY <3>2, <3>5, Zenon
    <2>2. CASE WriteAtom
      <3>1. write_stack' = Front(write_stack) /\ IsAtomToken(t)
        BY <2>2 DEF WriteAtom
      <3>2. ww = v
        BY <3>1, Zenon
      <3>3. a \in Nat /\ x \in Nat /\ a = R
        BY <1>2, <3>1, Zenon
      <3> HIDE DEF a, x, R, v, w, ww
      <3> QED  BY <1>4, <3>2, <3>3
    <2>3. CASE WriteCons
      <3>1. write_stack' = Front(write_stack) \o <<Rest(Node), First(Node)>> /\ t = ConsToken
        BY <2>3 DEF WriteCons
      <3> DEFINE p == Rank[First(Node)]
                 q == Rank[Rest(Node)]
      <3>2. First(Node) \in Trees /\ Rest(Node) \in Trees /\ R = (1 + p) + q /\ a = 1 /\ x \in Nat
        BY <1>2, <3>1, Zenon
      <3>3. ww \in Nat /\ ww = (v + q) + p
        BY <1>5, <3>1, <3>2, WeightTwo, Zenon
      <3>4. p \in Nat /\ q \in Nat
        BY <3>2, TreeFacts, Zenon
      <3> HIDE DEF a, x, R, v, w, ww, p, q
      <3> QED  BY <1>4, <3>2, <3>3, <3>4
    <2> QED  BY <2>1, <2>2, <2>3
  <1> QED  BY <1>1, <1>2, <1>3, <1>4, <1>6, WritesToken, Zenon

\* The writer gives up: what is left is less than the next token.
LEMMA ExceedSizeSizes ==
    ASSUME IInv, Sizes, ExceedSize
    PROVE  Sizes'
  <1>1. /\ MayWrite /\ writer = "writing" /\ TokenLength(NextToken) > max_size
        /\ writer' = "raised" /\ (f' = f \/ f' = Append(f, CutToken))
        /\ tree' = tree /\ allow_backrefs' = allow_backrefs /\ write_stack' = write_stack
        /\ rcl' = rcl /\ max_size' = max_size
    BY DEF ExceedSize, MayWrite, NodeTaken
  <1>2. /\ Node \in Trees /\ write_stack \in Seq(Trees) /\ Len(write_stack) > 0
        /\ TokenLength(NextToken) \in Nat /\ Excess(NextToken) \in Nat
        /\ TokenLength(NextToken) <= Rank[Node] + Excess(NextToken)
    BY <1>1, NextTokenSize, Zenon
  <1>3. f \in Seq(Range(f)) /\ Rank[tree] \in Nat
    BY RootLength DEF IInv
  <1>4. NextToken' = NextToken
    BY <1>1 DEF NextToken, PathOf, Node, Hash
  <1>5. TokenLength(CutToken) = 1 /\ Excess(CutToken) = 0
    <2>1. ~IsAtomToken(CutToken) /\ ~IsBackrefToken(CutToken)
      BY TokenFacts, Zenon
    <2>2. Total(<<1>>) = 1
      <3>1. 1 \in Nat
        OBVIOUS
      <3> QED  BY <3>1, TotalsOfFew, Zenon
    <2> QED  BY <2>1, <2>2, Zenon DEF TokenLength, TokenChunks, Excess
  <1>6. /\ max_size \in Int /\ Measured(f)
        /\ \A i \in DOMAIN f : f[i] # CutToken
        /\ StreamLength(f) + Weight(write_stack) <= Rank[tree] + ExcessOf(f)
    BY <1>1 DEF Sizes
  <1>7. /\ StreamLength(f) \in Nat /\ ExcessOf(f) \in Nat
        /\ ExcessOf(Append(f, CutToken)) = ExcessOf(f) + 0
        /\ Measured(Append(f, CutToken))
    <2>1. 1 \in Nat /\ 0 \in Nat
      OBVIOUS
    <2> QED  BY <1>3, <1>5, <1>6, <2>1, StreamGrows, Zenon
  <1>8. ExcessOf(f') = ExcessOf(f) /\ Measured(f')
    <2>1. ExcessOf(f) + 0 = ExcessOf(f)
      BY <1>7
    <2> QED  BY <1>1, <1>6, <1>7, <2>1, Zenon
  <1>9. WholeTokens' = f
    <2>1. WholeTokens' = IF f' # <<>> /\ Last(f') = CutToken THEN Front(f') ELSE f'
      BY DEF WholeTokens
    <2>2. CASE f' = f
      <3>1. f # <<>> => Last(f) # CutToken
        <4>1. ASSUME f # <<>> PROVE Len(f) \in DOMAIN f
          BY <1>3, <4>1
        <4> QED  BY <1>6, <4>1 DEF Last
      <3> QED  BY <2>1, <2>2, <3>1, Zenon
    <2>3. CASE f' = Append(f, CutToken)
      <3> DEFINE u == Append(f, CutToken)
      <3>1. /\ u \in Seq(Range(u)) /\ Len(u) = Len(f) + 1 /\ Len(f) \in Nat
            /\ \A i \in 1..Len(f) : u[i] = f[i]
            /\ u[Len(f) + 1] = CutToken
        BY <1>3, AppendFacts
      <3> HIDE DEF u
      <3>2. Len(u) > 0
        BY <3>1
      <3>3. u # <<>>
        BY <3>1, <3>2, NonEmpty, Zenon
      <3>4. Last(u) = CutToken
        BY <3>1, Zenon DEF Last
      <3>5. Front(u) = f
        <4> DEFINE g == Front(u)
                   S == Range(u)
        <4>1. g \in Seq(S) /\ Len(g) = Len(u) - 1 /\ \A i \in 1..(Len(u) - 1) : g[i] = u[i]
          BY <3>1, <3>2, StackFacts, Zenon
        <4>2. Len(u) - 1 = Len(f)
          BY <3>1
        <4>3. Len(g) = Len(f) /\ \A i \in 1..Len(f) : g[i] = f[i]
          BY <3>1, <4>1, <4>2, Zenon
        <4>4. DOMAIN g = 1..Len(g) /\ DOMAIN f = 1..Len(f)
          BY <1>3, <4>1, LenProperties, Zenon
        <4>5. g \in [1..Len(f) -> S]
          BY <4>1, <4>3, LenProperties
        <4>6. f \in [1..Len(f) -> Range(f)]
          BY <1>3, LenProperties
        <4> HIDE DEF g
        <4> QED  BY <4>3, <4>5, <4>6 DEF g
      <3> QED  BY <2>1, <2>3, <3>3, <3>4, <3>5, Zenon DEF u
    <2> QED  BY <1>1, <2>2, <2>3
  <1>10. Rank[Node] <= Weight(write_stack) /\ Weight(write_stack) \in Nat /\ Rank[Node] \in Nat
    <2> DEFINE w == Weight(write_stack)
               v == Weight(Front(write_stack))
               R == Rank[Node]
    <2>1. w \in Nat /\ v \in Nat /\ w = v + R
      BY <1>2, WeightPopped, Zenon DEF Node
    <2>2. R \in Nat
      BY <1>2, TreeFacts, Zenon
    <2> HIDE DEF w, v, R
    <2>3. R <= w /\ w \in Nat /\ R \in Nat
      BY <2>1, <2>2
    <2> QED  BY <2>3, Zenon DEF w, R
  <1>11. StreamLength(f) + max_size < (Rank[tree] + ExcessOf(f)) + Excess(NextToken)
    <2> DEFINE l == StreamLength(f)
               e == ExcessOf(f)
               w == Weight(write_stack)
               R == Rank[tree]
               n == Rank[Node]
               a == TokenLength(NextToken)
               x == Excess(NextToken)
               m == max_size
    <2>1. l \in Nat /\ e \in Nat /\ w \in Nat /\ R \in Nat /\ n \in Nat /\ a \in Nat /\ x \in Nat
          /\ m \in Int
      BY <1>2, <1>3, <1>6, <1>7, <1>10, Zenon
    <2>2. a > m /\ n <= w /\ a <= n + x /\ l + w <= R + e
      BY <1>1, <1>2, <1>6, <1>10, Zenon
    <2> HIDE DEF l, e, w, R, n, a, x, m
    <2>3. l + m < (R + e) + x
      BY <2>1, <2>2
    <2> QED  BY <2>3 DEF l, e, R, x, m
  <1>12. StreamLength(WholeTokens') + max_size' < (Rank[tree'] + ExcessOf(f')) + Excess(NextToken')
    BY <1>1, <1>4, <1>8, <1>9, <1>11, Zenon
  <1>13. max_size' \in Int /\ writer' = "raised"
    BY <1>1, <1>6, Zenon
  <1> QED  BY <1>8, <1>12, <1>13 DEF Sizes

\* It refuses an atom: the node and the token are still the next.
LEMMA RefuseAtomSizes ==
    ASSUME IInv, Sizes, RefuseAtom
    PROVE  Sizes'
  <1>1. /\ writer = "writing" /\ Refused
        /\ writer' = "raised" /\ (f' = f \/ f' = Append(f, CutToken))
        /\ tree' = tree /\ allow_backrefs' = allow_backrefs /\ write_stack' = write_stack
        /\ rcl' = rcl /\ max_size' = max_size
    BY DEF RefuseAtom, NodeTaken
  <1>2. Refused'
    BY <1>1 DEF Refused, NodeRefused, NextToken, PathOf, Node, Hash
  <1>3. TokenLength(CutToken) = 1 /\ Excess(CutToken) = 0
    <2>1. ~IsAtomToken(CutToken) /\ ~IsBackrefToken(CutToken)
      BY TokenFacts, Zenon
    <2>2. Total(<<1>>) = 1
      <3>1. 1 \in Nat
        OBVIOUS
      <3> QED  BY <3>1, TotalsOfFew, Zenon
    <2> QED  BY <2>1, <2>2, Zenon DEF TokenLength, TokenChunks, Excess
  <1>4. Measured(Append(f, CutToken)) /\ Measured(f)
    <2>1. 1 \in Nat /\ 0 \in Nat
      OBVIOUS
    <2>2. f \in Seq(Range(f)) /\ Measured(f)
      BY DEF IInv, Sizes
    <2> QED  BY <1>3, <2>1, <2>2, StreamGrows, Zenon
  <1>5. Measured(f') /\ max_size' \in Int /\ writer' = "raised"
    BY <1>1, <1>4, Zenon DEF Sizes
  <1> QED  BY <1>2, <1>5 DEF Sizes

LEMMA InitSizes == Init => Sizes
  <1> SUFFICES ASSUME Init PROVE Sizes
    OBVIOUS
  <1>1. /\ f = <<>> /\ write_stack = <<tree>> /\ writer = "writing" /\ max_size \in MaxSizes
        /\ tree \in Inputs
    BY DEF Init, WriterInit
  <1>2. tree \in Trees /\ max_size \in Int
    BY <1>1, TreesAssumption, SizesAssumption
  <1>3. Rank[tree] \in Nat
    BY <1>2, TreeFacts
  <1>4. StreamLength(f) = 0 /\ ExcessOf(f) = 0
    <2> DEFINE g == [i \in DOMAIN f |-> TokenLength(f[i])]
               h == [i \in DOMAIN f |-> Excess(f[i])]
    <2>1. DOMAIN f = 1..0
      BY <1>1
    <2>2. \A i \in 1..0 : FALSE
      OBVIOUS
    <2>3. g \in [1..0 -> Nat] /\ h \in [1..0 -> Nat]
      BY <2>1, <2>2
    <2>4. StreamLength(f) = Total(g) /\ ExcessOf(f) = Total(h)
      BY Zenon DEF StreamLength, ExcessOf
    <2> HIDE DEF g, h
    <2> QED  BY <2>3, <2>4, TotalOfNone, Zenon
  <1>5. Weight(write_stack) = Rank[tree]
    <2> DEFINE g == [i \in DOMAIN write_stack |-> Rank[write_stack[i]]]
    <2>1. g = <<Rank[tree]>>
      BY <1>1
    <2>2. Weight(write_stack) = Total(g)
      BY Zenon DEF Weight
    <2> HIDE DEF g
    <2>3. 0 \in Nat
      OBVIOUS
    <2> QED  BY <1>3, <2>1, <2>2, <2>3, TotalOfFew, Zenon
  <1>6. Measured(f) /\ \A i \in DOMAIN f : f[i] # CutToken
    <2>1. DOMAIN f = {}
      BY <1>1
    <2> QED  BY <2>1, Zenon DEF Measured
  <1>7. 0 + Rank[tree] <= Rank[tree] + 0 /\ 0 + Rank[tree] = Rank[tree]
    BY <1>3
  <1>8. writer # "raised"
    BY <1>1
  <1> QED  BY <1>2, <1>4, <1>5, <1>6, <1>7, <1>8, Zenon DEF Sizes

LEMMA NextSizes == IInv /\ Sizes /\ [Next]_vars => Sizes'
  <1> SUFFICES ASSUME IInv, Sizes, [Next]_vars PROVE Sizes'
    OBVIOUS
  <1>1. ASSUME UNCHANGED <<f, tree, allow_backrefs, write_stack, rcl, max_size, writer>>
        PROVE  Sizes'
    BY <1>1 DEF Sizes, WholeTokens, Refused, NodeRefused, NextToken, PathOf, Node, Hash,
                StreamLength, Measured
  <1>2. CASE Write
    <2>1. CASE WriteBackref \/ WriteCons \/ WriteAtom
      BY <2>1, WriterSizes
    <2>2. CASE ExceedSize
      BY <2>2, ExceedSizeSizes
    <2>5. CASE RefuseAtom
      BY <2>5, RefuseAtomSizes
    <2>3. CASE ConsReadStack
      <3>1. /\ f' = f /\ tree' = tree /\ allow_backrefs' = allow_backrefs
            /\ write_stack' = write_stack /\ max_size' = max_size
            /\ writer = "writing" /\ writer' = "writing"
        BY <2>3 DEF ConsReadStack
      <3> QED  BY <3>1 DEF Sizes
    <2>4. CASE EndWriting
      <3>1. /\ f' = f /\ tree' = tree /\ allow_backrefs' = allow_backrefs
            /\ write_stack' = write_stack /\ max_size' = max_size
            /\ writer = "writing" /\ writer' = "written"
        BY <2>4 DEF EndWriting
      <3> QED  BY <3>1 DEF Sizes
    <2> QED  BY <1>2, <2>1, <2>2, <2>3, <2>4, <2>5 DEF Write, WriterNext
  <1>3. CASE Read
    <2>1. ReaderNext /\ UNCHANGED <<streamVars, writerVars>>
      BY <1>3 DEF Read, ReaderNext
    <2> QED  BY <1>1, <2>1 DEF streamVars, writerVars
  <1>4. CASE UNCHANGED vars
    BY <1>1, <1>4 DEF vars, streamVars, writerVars
  <1> QED  BY <1>2, <1>3, <1>4 DEF Next, Terminated

\* NeverLonger: a stream with back-references takes no more than the tree as it
\* is and the excess of its paths, without them it takes exactly what
\* serialized_length says, and a writer that raises would have passed max_size.
THEOREM NeverLongerHolds == Spec => []NeverLonger
  <1>1. IInv /\ Sizes => NeverLonger
    <2> SUFFICES ASSUME IInv, Sizes PROVE NeverLonger
      OBVIOUS
    <2>1. StreamExcess = ExcessOf(f)
      BY Zenon DEF StreamExcess, ExcessOf
    <2>2. Rank = SerializedLength(Trees)
      BY DEF Rank
    <2>3. ASSUME writer = "written"
          PROVE  /\ StreamLength(f) <= Rank[tree] + ExcessOf(f)
                 /\ ~allow_backrefs => StreamLength(f) = Rank[tree]
      <3>1. write_stack = <<>>
        BY <2>3 DEF IInv
      <3>2. Weight(write_stack) = 0
        <4> DEFINE g == [i \in DOMAIN write_stack |-> Rank[write_stack[i]]]
        <4>1. DOMAIN write_stack = 1..0 /\ \A i \in 1..0 : FALSE
          BY <3>1
        <4>2. g \in [1..0 -> Nat]
          BY <4>1
        <4>3. Weight(write_stack) = Total(g)
          BY Zenon DEF Weight
        <4> HIDE DEF g
        <4> QED  BY <4>2, <4>3, TotalOfNone, Zenon
      <3>3. /\ Measured(f)
            /\ StreamLength(f) + 0 <= Rank[tree] + ExcessOf(f)
            /\ ~allow_backrefs => StreamLength(f) + 0 = Rank[tree]
        BY <2>3, <3>2 DEF Sizes
      <3>4. StreamLength(f) \in Nat
        <4>1. f \in Seq(Range(f))
          BY DEF IInv
        <4>2. TokenLength(ConsToken) \in Nat /\ Excess(ConsToken) \in Nat
          <5>1. <<>> \in Seq(0..255) /\ 1 \in Nat /\ 0 \in Nat
            OBVIOUS
          <5> QED  BY <5>1, TokenLengths, Zenon
        <4> QED  BY <3>3, <4>1, <4>2, StreamGrows, Zenon
      <3>5. StreamLength(f) + 0 = StreamLength(f)
        BY <3>4
      <3> QED  BY <3>3, <3>5, Zenon
    <2>4. writer = "raised" =>
             \/ Refused
             \/ StreamLength(WholeTokens) + max_size < (Rank[tree] + ExcessOf(f)) + Excess(NextToken)
      BY DEF Sizes
    <2> QED  BY <2>1, <2>2, <2>3, <2>4, Zenon DEF NeverLonger
  <1> QED  BY <1>1, InitSizes, NextSizes, Invariance, PTL DEF Spec

-----------------------------------------------------------------------------
(***************************************************************************)
(* Atoms that are too large                                                *)
(***************************************************************************)
\* With back-references the tree is the first node, and refused; without them
\* the atom is still to be written.
StillThere ==
    Unwritable(Trees)[tree] =>
        IF allow_backrefs THEN f = <<>> /\ write_stack = <<tree>>
        ELSE \E i \in DOMAIN write_stack : Unwritable(Trees)[write_stack[i]]

\* A node that is not the one taken stays, at its place.
LEMMA OthersStay ==
    ASSUME write_stack \in Seq(Trees), Len(write_stack) > 0, NEW w \in Seq(Trees),
           write_stack' = Front(write_stack) \o w,
           NEW i \in DOMAIN write_stack, write_stack[i] # Node
    PROVE  i \in DOMAIN write_stack' /\ write_stack'[i] = write_stack[i]
  <1>1. /\ Front(write_stack) \in Seq(Trees)
        /\ Len(Front(write_stack)) = Len(write_stack) - 1 /\ Len(write_stack) \in Nat
        /\ \A j \in 1..(Len(write_stack) - 1) : Front(write_stack)[j] = write_stack[j]
    BY StackFacts
  <1>2. i \in 1..(Len(write_stack) - 1)
    <2>1. i # Len(write_stack)
      BY DEF Node, Last
    <2> QED  BY <2>1
  <1> DEFINE a == Front(write_stack)
             n == Len(write_stack) - 1
  <1>3. a \in Seq(Trees) /\ Len(a) = n /\ n \in Nat /\ i \in 1..n /\ a[i] = write_stack[i]
    BY <1>1, <1>2
  <1> HIDE DEF a, n
  <1>4. i \in DOMAIN (a \o w) /\ (a \o w)[i] = a[i]
    BY <1>3
  <1>5. write_stack' = a \o w
    BY DEF a
  <1> QED  BY <1>3, <1>4, <1>5

LEMMA NextStillThere == IInv /\ StillThere /\ [Next]_vars => StillThere'
  <1> SUFFICES ASSUME IInv, StillThere, [Next]_vars, Unwritable(Trees)[tree]'
               PROVE  IF allow_backrefs' THEN f' = <<>> /\ write_stack' = <<tree'>>
                      ELSE \E i \in DOMAIN write_stack' : Unwritable(Trees)[write_stack'[i]]
    BY DEF StillThere
  <1>1. tree' = tree /\ allow_backrefs' = allow_backrefs
    BY DEF Next, Write, WriterNext, WriteBackref, WriteCons, WriteAtom, ConsReadStack, ExceedSize,
           RefuseAtom, EndWriting, Yield, Read, Terminated, vars, writerVars
  <1>2. IF allow_backrefs THEN f = <<>> /\ write_stack = <<tree>>
        ELSE \E i \in DOMAIN write_stack : Unwritable(Trees)[write_stack[i]]
    BY <1>1 DEF StillThere
  <1>3. CASE UNCHANGED <<f, write_stack>>
    BY <1>1, <1>2, <1>3
  <1>4. CASE allow_backrefs /\ (NodeTaken \/ ConsReadStack \/ EndWriting)
    <2>1. CASE NodeTaken
      <3>1. Node = tree
        BY <1>2, <1>4 DEF Node, Last
      <3>2. NodeRefused
        BY <1>1, <1>4, <3>1 DEF NodeRefused
      <3>3. UNCHANGED <<f, write_stack>>
        BY <2>1, <3>2 DEF Next, Write, WriterNext, WriteBackref, WriteCons, WriteAtom, MayWrite,
                          Refused, ConsReadStack, ExceedSize, RefuseAtom, EndWriting, Read,
                          ReaderNext, Terminated, vars, streamVars, writerVars
      <3> QED  BY <1>3, <3>3
    <2>2. CASE ConsReadStack \/ EndWriting
      BY <1>3, <2>2 DEF ConsReadStack, EndWriting
    <2> QED  BY <1>4, <2>1, <2>2
  <1>5. CASE ~allow_backrefs /\ (WriteAtom \/ WriteCons)
    <2>1. MayWrite /\ ~TooLargeToken(NextToken)
      BY <1>5 DEF WriteAtom, WriteCons, MayWrite, Refused
    <2>2. Node \in Trees /\ write_stack \in Seq(Trees) /\ Len(write_stack) > 0
      BY <2>1, NextTokenSize, Zenon
    <2>3. PICK i \in DOMAIN write_stack : Unwritable(Trees)[write_stack[i]]
      BY <1>2, <1>5
    <2> DEFINE w == IF IsPair(Node) THEN <<Rest(Node), First(Node)>> ELSE <<>>
    <2>4. w \in Seq(Trees) /\ write_stack' = Front(write_stack) \o w
      <3>1. CASE WriteCons
        <4>1. IsPair(Node) /\ First(Node) \in Trees /\ Rest(Node) \in Trees
          BY <2>1, <2>2, <3>1, NextTokenFacts, NextTokenSize DEF WriteCons
        <4> QED  BY <3>1, <4>1 DEF WriteCons
      <3>2. CASE WriteAtom
        <4>1. IsAtom(Node) /\ write_stack' = Front(write_stack)
          BY <2>2, <3>2, NextTokenFacts DEF WriteAtom
        <4>2. ~IsPair(Node)
          BY <4>1 DEF IsAtom, IsPair
        <4>3. Front(write_stack) \in Seq(Trees)
          BY <2>2, StackFacts
        <4> QED  BY <4>1, <4>2, <4>3
      <3> QED  BY <1>5, <3>1, <3>2
    <2> HIDE DEF w
    <2>5. CASE write_stack[i] # Node
      BY <1>1, <1>5, <2>2, <2>3, <2>4, <2>5, OthersStay
    <2>6. CASE write_stack[i] = Node
      <3>1. IF IsPair(Node) THEN Unwritable(Trees)[First(Node)] \/ Unwritable(Trees)[Rest(Node)]
            ELSE TooLarge(Node.atom)
        BY <2>2, <2>3, <2>6, UnwritableFacts
      <3>2. IsPair(Node)
        <4>1. SUFFICES ASSUME ~IsPair(Node) PROVE FALSE
          OBVIOUS
        <4>2. NextToken = AtomToken(Node.atom)
          BY <1>5, <4>1 DEF NextToken
        <4>3. TooLargeToken(NextToken)
          BY <3>1, <4>1, <4>2, TokenFacts DEF TooLargeToken
        <4> QED  BY <2>1, <4>3
      <3> DEFINE n == Len(Front(write_stack))
      <3>3. /\ n + 1 \in DOMAIN write_stack' /\ n + 2 \in DOMAIN write_stack'
            /\ write_stack'[n + 1] = Rest(Node) /\ write_stack'[n + 2] = First(Node)
        <4>1. Front(write_stack) \in Seq(Trees) /\ n \in Nat
          BY <2>2, StackFacts
        <4>2. w = <<Rest(Node), First(Node)>>
          BY <3>2 DEF w
        <4> QED  BY <2>4, <4>1, <4>2
      <3> HIDE DEF n
      <3> QED  BY <1>1, <1>5, <3>1, <3>2, <3>3
    <2> QED  BY <2>5, <2>6
  <1>6. CASE ~allow_backrefs /\ (WriteBackref \/ ConsReadStack)
    <2>1. ~IsBackrefToken(NextToken)
      <3>1. NextToken = IF IsPair(Node) THEN ConsToken ELSE AtomToken(Node.atom)
        BY <1>6 DEF NextToken
      <3> QED  BY <3>1, TokenFacts
    <2> QED  BY <1>6, <2>1 DEF WriteBackref, ConsReadStack, ConsNext
  <1>7. CASE ~allow_backrefs /\ (ExceedSize \/ RefuseAtom \/ EndWriting)
    BY <1>1, <1>2, <1>7 DEF ExceedSize, RefuseAtom, EndWriting
  <1>8. Read \/ Terminated \/ UNCHANGED vars => UNCHANGED <<f, write_stack>>
    BY DEF Read, ReaderNext, Terminated, vars, streamVars, writerVars
  <1> QED  BY <1>3, <1>4, <1>5, <1>6, <1>7, <1>8
           DEF Next, Write, WriterNext, WriteBackref, WriteCons, WriteAtom, ExceedSize, RefuseAtom,
               MayWrite

\* RefusesTooLarge: sexp_to_stream never comes to an end with a tree that holds
\* an atom too large for the format; with back-references it does not write a
\* byte of it.
THEOREM RefusesTooLargeHolds == Spec => []RefusesTooLarge
  <1>1. Init => StillThere
    <2> SUFFICES ASSUME Init, Unwritable(Trees)[tree]
                 PROVE  /\ f = <<>> /\ write_stack = <<tree>>
                        /\ \E i \in DOMAIN write_stack : Unwritable(Trees)[write_stack[i]]
      BY DEF StillThere
    <2>1. f = <<>> /\ write_stack = <<tree>>
      BY DEF Init, WriterInit
    <2>2. 1 \in DOMAIN write_stack /\ write_stack[1] = tree
      BY <2>1
    <2> QED  BY <2>1, <2>2
  <1>2. IInv /\ StillThere => RefusesTooLarge
    <2> SUFFICES ASSUME IInv, StillThere, Unwritable(Trees)[tree]
                 PROVE  writer # "written" /\ (allow_backrefs => f = <<>>)
      BY DEF RefusesTooLarge
    <2>1. write_stack # <<>>
      BY DEF StillThere
    <2> QED  BY <2>1 DEF IInv, StillThere
  <1> QED  BY <1>1, <1>2, NextStillThere, Invariance, PTL DEF Spec
=============================================================================
