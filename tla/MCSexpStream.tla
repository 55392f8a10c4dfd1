---------------------------- MODULE MCSexpStream ----------------------------
(***************************************************************************)
(* Constants for checking SexpStream: every tree of a few leaves, each nil *)
(* or an atom long enough for a back-reference to be shorter, or an atom   *)
(* that is too large; and a tree whose back-reference would need a path    *)
(* that is too large, as AtomLimit is 3.                                   *)
(***************************************************************************)
EXTENDS SexpStream

Short == Atom(<<>>)
Long  == Atom(<<1, 2>>)
Huge  == Atom(<<1, 2, 3>>)

SmallTrees == TreesOf({Short, Long}, 4) \cup TreesOf({Long, Huge}, 3)
AnySize    == {100}
TightSizes == {4, 7, 100}

\* (x1 . (x2 ... (x7 . x1))): a last leaf of 3 bytes whose path takes 7 legs
Chain ==
    LET leaf[i \in 1..8] == IF i \in {1, 8} THEN Long ELSE Atom(<<i>>)
        c[i \in 1..8] == IF i = 8 THEN leaf[8] ELSE Pair(leaf[i], c[i+1])
    IN  c
ChainTrees == { Chain[i] : i \in 1..8 } \cup {Long} \cup { Atom(<<i>>) : i \in 2..7 }
ChainInput == { Chain[1] }

\* (S . (1 . (2 ... (16 . S)))): a path to the first S takes 18 legs, 3 bytes
Far ==
    LET S == Pair(Long, Long)
        c[i \in 1..17] == IF i = 17 THEN S ELSE Pair(Atom(<<i>>), c[i+1])
        all == { Pair(S, c[1]), Long } \cup { c[i] : i \in 1..17 } \cup { Atom(<<i>>) : i \in 1..16 }
    IN  [ input |-> Pair(S, c[1]), trees |-> all ]

SomeTrees  == SmallTrees \cup Far.trees
SomeInputs == SmallTrees \cup {Far.input}
=============================================================================
