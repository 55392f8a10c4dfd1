---------------------------- MODULE MCOperators ----------------------------
(***************************************************************************)
(* Constants for checking OperatorLaws: calls ((op) x y ...), in which     *)
(* run_program applies op at once to operands that are given.              *)
(***************************************************************************)
EXTENDS OperatorLaws, MCExternals

A(n) == Atom(<<n>>)
Applied(op, xs) == Call(Pair(ListOf(<<Atom(op)>>), ListOf(xs)), Null, 0)
OnUpTo(n, S)    == UNION { [1..k -> S] : k \in 0..n }

\* numbers around the limits of one and two bytes, some with bytes to spare
Numbers == { Null, A(0), A(1), A(2), A(10), A(127), A(128), A(246), A(255),
             Atom(<<0, 128>>), Atom(<<255, 127>>), Atom(<<63, 255>>), Atom(<<192, 0>>),
             Atom(<<0, 0, 255>>), Atom(<<255, 255, 128>>) }
Few     == { Null, A(3), Atom(<<0, 200>>), Pair(A(1), Null) }

Counts  == { Null, A(1), A(7), A(8), A(9), A(248), A(255), A(0), A(224),
             Atom(<<0, 0, 0, 0, 1>>), Atom(<<1, 0, 0>>), Atom(<<128, 0>>), Atom(<<255, 0, 0>>),
             Pair(A(1), Null) }
Shifts  == { <<a, n>> : a \in { a \in Numbers : Len(a.atom) < 3 }, n \in Counts }

Strings == { Null, A(5), Atom(<<5, 6>>), Atom(<<5, 6, 200>>), Pair(A(1), Null) }
Places  == { Null, A(0), A(1), A(2), A(3), A(4), A(255), Atom(<<0, 0, 0, 0, 1>>), Pair(Null, Null) }
Parts   == { <<s, i, j>> : s \in Strings, i \in Places, j \in Places }

Points  == { Atom(StandInPoint(1)), Atom(StandInPoint(250)), A(1), Pair(Null, Null) }

Unknown == { <<>>, <<1>>, <<15>>, <<63>>, <<64>>, <<128>>, <<192>>, <<0, 64>>, <<1, 128>>,
             <<255, 192>>, <<255, 255>>, <<255, 255, 0>>, <<1, 0, 0, 0, 64>>,
             <<0, 0, 0, 0, 128>>, <<255, 0, 0, 0, 64>>, <<0, 0, 0, 0, 0, 1>> }
Known   == { <<n>> : n \in 3..36 }
Of(k)   == KEYWORD_TO_ATOM[k]

All     == Known \cup Unknown
Shift   == { Of("ash"), Of("lsh") }
Binary  == { Of(k) : k \in {"-", "*", "divmod", ">s", "logand"} }
Listing == { Of(k) : k \in {"+", "-", "*", "concat", "sha256", "logxor", "all", "i"} } \cup Unknown

OperatorCalls ==
    { Applied(op, xs) : op \in All, xs \in OnUpTo(1, Numbers \cup Few) }
    \cup { Applied(op, xs) : op \in All \ Shift, xs \in [1..2 -> Few] }
    \cup { Applied(op, xs) : op \in Binary, xs \in [1..2 -> Numbers] }
    \cup { Applied(op, xs) : op \in Listing, xs \in [1..3 -> Few] }
    \cup { Applied(op, xs) : op \in Shift, xs \in Shifts }
    \cup { Applied(Of("substr"), xs) : xs \in Parts }
    \cup { Applied(Of("point_add"), xs) : xs \in OnUpTo(3, Points) }

Never(form, e) == FALSE

-----------------------------------------------------------------------------
\* docs/clvm.org:31: "(= A B) returns 1 if A and B are both atoms and both
\* equal. Otherwise ()".
EqualAsDocumented ==
    (Applying("=") /\ ListLenIs(OperandList, 2)) =>
        /\ Outcome.ok
        /\ Outcome.value = Bool(IsAtom(Operand(1)) /\ IsAtom(Operand(2)) /\ Operand(1) = Operand(2))
=============================================================================
