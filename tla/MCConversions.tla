--------------------------- MODULE MCConversions ---------------------------
(***************************************************************************)
(* Constants for checking Conversions: lists and tuples of every kind of   *)
(* element, two deep, CLVM objects among them.                             *)
(***************************************************************************)
EXTENDS ConversionsMeaning

Nil    == Bytes(<<>>)
Seven  == Atom(<<7>>)
Simple == { Nil, PyInt(-128), Seven, Opaque }

Upto(n, S) == UNION { [1..k -> S] : k \in 0..n }

Nested == Simple
          \cup { Tuple(s) : s \in [1..2 -> Simple] \cup { <<Nil>>, <<Nil, Nil, Nil>> } }
          \cup { List(s) : s \in Upto(2, Simple) \cup { <<PyInt(1), Nil, Seven>> } }
          \cup { [str |-> <<104, 105>>], [none |-> TRUE], [object |-> <<1, 2>>],
                 Pair(Seven, Null), Pair(Seven, Pair(Null, Seven)) }

MCValues == Nested \cup { Tuple(s) : s \in [1..2 -> Nested] }
                   \cup { List(s) : s \in Upto(2, Nested) }

MCOthers == { Nil, Opaque, Seven, List(<<Nil>>), Tuple(<<PyInt(-128), Seven>>),
              Pair(Seven, Null), List(<<Seven, List(<<Nil>>)>>) }

\* The recursion of ConversionsMeaning, tied as in MCRunProgram.
MCCanConvert(v) == LET b == CanConvertOf(v) IN b
MCTreeOf(v)     == LET x == TreeOfOf(v) IN x
MCListTree(s)   == LET x == ListTreeOf(s) IN x
MCEndsInNil(x)  == LET b == EndsInNilOf(x) IN b
MCListItems(x)  == LET s == ListItemsOf(x) IN s
MCPythonOf(x)   == LET v == PythonOfOf(x) IN v

\* The values and trees of this instance with all that they become: as many as
\* the theorems about conversions want of their V and D.
Trees1 == { TreeOf(v) : v \in { v \in MCValues \cup MCOthers : CanConvert(v) } }
Sides(S) == UNION { {First(x), Rest(x)} : x \in { x \in S : IsPair(x) } }
MCTrees == LET t[n \in 0..8] == IF n = 0 THEN Trees1 ELSE t[n-1] \cup Sides(t[n-1]) IN t[8]
MCPython == MCValues \cup MCOthers \cup { PyInt(1) } \cup { PythonOf(x) : x \in MCTrees }

ASSUME MeaningsExist ==
    /\ Null \in MCTrees /\ Sides(MCTrees) \subseteq MCTrees
    /\ PythonValues(MCPython, MCTrees)
    /\ \A v \in MCPython : CanConvert(v) => TreeOf(v) \in MCTrees
    /\ \A x \in MCTrees : EndsInNil(x) => ListItems(x) \in Seq(MCPython)
=============================================================================
