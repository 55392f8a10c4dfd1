------------------------------- MODULE SExps -------------------------------
(***************************************************************************)
(* The data of clvm: an s-expression is an atom (a sequence of bytes) or a *)
(* pair of s-expressions (src/clvm/CLVMObject.py).  Atom and pair values   *)
(* are records with different fields, as CLVMStorage objects have exactly  *)
(* one of `atom' and `pair' set.                                           *)
(*                                                                         *)
(* Everything that recurs does so through a recursive function on numbers, *)
(* so that modules which extend this one can hold proofs.                  *)
(***************************************************************************)
EXTENDS Integers, Sequences, FiniteSets, FiniteSetsExt, SequencesExt

Atom(b)    == [atom |-> b]
Pair(l, r) == [pair |-> <<l, r>>]

IsAtom(x) == DOMAIN x = {"atom"}
IsPair(x) == DOMAIN x = {"pair"}

\* SExp.first and SExp.rest raise EvalError on an atom: users guard them
First(x) == x.pair[1]
Rest(x)  == x.pair[2]

Null     == Atom(<<>>)
Nullp(x) == x = Null

\* what is left of the list x after n pairs (an atom stays where it is)
Tail_(x, n) ==
    LET t[k \in Nat] == IF k = 0 THEN x
                        ELSE LET y == t[k-1] IN IF IsPair(y) THEN Rest(y) ELSE y
    IN  t[n]

\* SExp.list_len() = n: the pairs along the right spine, whatever ends it
ListLenIs(x, n) == /\ n > 0 => IsPair(Tail_(x, n - 1))
                   /\ ~IsPair(Tail_(x, n))

\* the element of a list at 1, 2, ...
Item(x, n) == First(Tail_(x, n - 1))

\* a list of these elements
ListOf(s) ==
    LET l[n \in 0..Len(s)] == IF n = 0 THEN Null ELSE Pair(s[Len(s) - n + 1], l[n-1])
    IN  l[Len(s)]

(***************************************************************************)
(* Paths.  A path is an atom read as a big-endian number: 1 is the tree    *)
(* itself, and the legs are its bits below the highest one, least          *)
(* significant first; 0 goes to the left child and 1 to the right one.     *)
(***************************************************************************)
IntOf(bytes) ==
    LET v[k \in 0..Len(bytes)] == IF k = 0 THEN 0 ELSE 256 * v[k-1] + bytes[k]
    IN  v[Len(bytes)]

\* as many bits as TLC's integers have
BitLength(n) == IF n = 0 THEN 0 ELSE CHOOSE k \in 1..31 : n \div 2^(k-1) = 1

BytesOf(n) ==
    LET b[m \in Nat] == IF m = 0 THEN <<>> ELSE Append(b[m \div 256], m % 256)
    IN  b[n]

Legs(n) ==
    LET l[m \in Nat] == IF m <= 1 THEN <<>> ELSE <<m % 2>> \o l[m \div 2]
    IN  l[n]

\* the node reached from x by the first n legs (an atom stays where it is)
NodeAt(x, legs, n) ==
    LET at[k \in 0..n] == IF k = 0 THEN x
                          ELSE LET y == at[k-1]
                               IN  IF IsAtom(y) THEN y ELSE y.pair[legs[k] + 1]
    IN  at[n]

PathIntoAtom(x, legs) ==
    \E k \in 0..(Len(legs) - 1) : IsAtom(NodeAt(x, legs, k))

Follow(x, legs) == NodeAt(x, legs, Len(legs))

\* every tree with at most n leaves, all of them from the set `leaves'
TreesOf(leaves, n) ==
    LET t[k \in 1..n] ==
          IF k = 1 THEN leaves
          ELSE UNION { { Pair(p[1], p[2]) : p \in t[i] \X t[k-i] } : i \in 1..(k-1) }
    IN  UNION { t[k] : k \in 1..n }
=============================================================================
