--------------------------- MODULE MCObjectCache ---------------------------
(* Constants for checking ObjectCache. *)
EXTENDS ObjectCache, TLC

Symmetry == Permutations(Ids)

NoAtoms   == {}
SomeBytes == {<<>>, <<1>>}
OneTree   == { Pair(Atom(<<>>), Atom(<<1>>)) }
=============================================================================
