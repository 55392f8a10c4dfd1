----------------------------- MODULE TreeHashes -----------------------------
(***************************************************************************)
(* The two functions that the serialiser computes through an ObjectCache,  *)
(* src/clvm/object_cache.py: the sha256 tree hash and the serialised       *)
(* length.  sha256 is taken to be injective: the hash of an atom and the   *)
(* hash of a pair are free terms.                                          *)
(***************************************************************************)
EXTENDS SExps

HashAtom(b)    == [atom_hash |-> b]
HashPair(l, r) == [pair_hash |-> <<l, r>>]

\* treehash, for the trees of T (a set that holds the children of its pairs)
TreeHash(T) ==
    LET h[x \in T] == IF IsPair(x) THEN HashPair(h[First(x)], h[Rest(x)])
                      ELSE HashAtom(x.atom)
    IN  h

\* length of the size prefix of an atom, by the length of the atom; that lengths
\* of 0x400000000 and more are refused is Unwritable of TokenStream
SizePrefix(lb) == CASE lb < 64                         -> 1
                    [] lb >= 64 /\ lb < 8192           -> 2
                    [] lb >= 8192 /\ lb < 1048576      -> 3
                    [] lb >= 1048576 /\ lb < 134217728 -> 4
                    [] lb >= 134217728                 -> 5

AtomLength(b) == IF b = <<>> \/ (Len(b) = 1 /\ b[1] < 128) THEN 1
                 ELSE SizePrefix(Len(b)) + Len(b)

\* serialized_length, for the trees of T
SerializedLength(T) ==
    LET n[x \in T] == IF IsPair(x) THEN 1 + n[First(x)] + n[Rest(x)]
                      ELSE AtomLength(x.atom)
    IN  n
=============================================================================
