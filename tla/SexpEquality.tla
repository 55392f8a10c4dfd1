---------------------------- MODULE SexpEquality ----------------------------
(***************************************************************************)
(* SExp.__eq__: two trees are compared with a stack of pairs of trees that *)
(* are still to be compared.                                               *)
(***************************************************************************)
EXTENDS SExps

VARIABLES to_compare_stack,
          comparing,        \* "no", "trees" or "done"
          equal             \* what == returns

comparison == <<to_compare_stack, comparing, equal>>

ComparisonInit == to_compare_stack = <<>> /\ comparing = "no" /\ equal = FALSE

StartComparing(x, y) ==
    /\ to_compare_stack' = << <<x, y>> >> /\ comparing' = "trees"
    /\ UNCHANGED equal

-----------------------------------------------------------------------------
S1 == Last(to_compare_stack)[1]
S2 == Last(to_compare_stack)[2]
Compares == comparing = "trees" /\ to_compare_stack # <<>>

ReturnEqual(b) ==
    /\ comparing' = "done" /\ equal' = b
    /\ UNCHANGED to_compare_stack

\* Mutant of ComparePairs: only the right sides are compared.
ComparePairs_RightOnly ==
    /\ Compares /\ IsPair(S1) /\ IsPair(S2)
    /\ to_compare_stack' = Append(Front(to_compare_stack), <<Rest(S1), Rest(S2)>>)
    /\ UNCHANGED <<comparing, equal>>

ComparePairs ==
    /\ Compares /\ IsPair(S1) /\ IsPair(S2)
    /\ to_compare_stack' = Front(to_compare_stack)
                             \o << <<First(S1), First(S2)>>, <<Rest(S1), Rest(S2)>> >>
    /\ UNCHANGED <<comparing, equal>>

\* Mutant of SameAtoms: they are not popped.
SameAtoms_NotPopped ==
    /\ Compares /\ IsAtom(S1) /\ IsAtom(S2) /\ S1.atom = S2.atom
    /\ UNCHANGED comparison

SameAtoms ==
    /\ Compares /\ IsAtom(S1) /\ IsAtom(S2) /\ S1.atom = S2.atom
    /\ to_compare_stack' = Front(to_compare_stack)
    /\ UNCHANGED <<comparing, equal>>

Differ ==
    /\ Compares
    /\ IsPair(S1) # IsPair(S2) \/ (IsAtom(S1) /\ IsAtom(S2) /\ S1.atom # S2.atom)
    /\ ReturnEqual(FALSE)

AllCompared ==
    /\ comparing = "trees" /\ to_compare_stack = <<>>
    /\ ReturnEqual(TRUE)

ComparisonStep == ComparePairs \/ SameAtoms \/ Differ \/ AllCompared
=============================================================================
