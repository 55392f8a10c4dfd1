------------------------------ MODULE AsPython ------------------------------
(***************************************************************************)
(* src/clvm/as_python.py: a tree becomes a Python value, a pair becoming a *)
(* list or a tuple by what became of its right side.  Two stacks: of       *)
(* operations, and of trees and values.                                    *)
(***************************************************************************)
EXTENDS SExps

VARIABLES op_stack, val_stack,
          unconverting    \* "no", "ops" or "done"

unconversion == <<op_stack, val_stack, unconverting>>

\* Python values, as in ToSexpType; the trees are the atoms and pairs of SExps
AsBytes(x)    == [bytes |-> x.atom]
AsTuple(l, r) == [tuple |-> <<l, r>>]
AsList(s)     == [list |-> s]
IsTree(v)     == IsAtom(v) \/ IsPair(v)
IsList(v)     == DOMAIN v = {"list"}

Popped(s, n)  == SubSeq(s, 1, Len(s) - n)
FromTop(s, n) == s[Len(s) - n + 1]

UnconversionInit == op_stack = <<>> /\ val_stack = <<>> /\ unconverting = "no"

\* as_python(x) is called
StartAsPython(x) ==
    op_stack' = <<"_as_python">> /\ val_stack' = <<x>> /\ unconverting' = "ops"

-----------------------------------------------------------------------------
Performing(f) == unconverting = "ops" /\ op_stack # <<>> /\ Last(op_stack) = f

Roll ==
    /\ Performing("_roll")
    /\ val_stack' = Popped(val_stack, 2) \o <<FromTop(val_stack, 1), FromTop(val_stack, 2)>>
    /\ op_stack' = Front(op_stack)
    /\ UNCHANGED unconverting

\* Mutant of Joined: a list is put in a list.
Joined_Nested(left, right) ==
    IF right = AsBytes(Null) THEN AsList(<<left>>)
    ELSE IF IsList(right) THEN AsList(<<left, right>>)
    ELSE AsTuple(left, right)

Joined(left, right) ==
    IF right = AsBytes(Null) THEN AsList(<<left>>)
    ELSE IF IsList(right) THEN AsList(<<left>> \o right.list)
    ELSE AsTuple(left, right)

MakeTuple ==
    /\ Performing("_make_tuple")
    /\ val_stack' = Append(Popped(val_stack, 2),
                           Joined(FromTop(val_stack, 1), FromTop(val_stack, 2)))
    /\ op_stack' = Front(op_stack)
    /\ UNCHANGED unconverting

AtomAsPython ==
    /\ Performing("_as_python") /\ IsAtom(Last(val_stack))
    /\ val_stack' = Append(Front(val_stack), AsBytes(Last(val_stack)))
    /\ op_stack' = Front(op_stack)
    /\ UNCHANGED unconverting

\* Mutant of PairAsPython: without the exchange in between.
PairAsPython_NoRoll ==
    /\ Performing("_as_python") /\ IsPair(Last(val_stack))
    /\ val_stack' = Front(val_stack) \o <<First(Last(val_stack)), Rest(Last(val_stack))>>
    /\ op_stack' = Front(op_stack) \o <<"_make_tuple", "_as_python", "_as_python">>
    /\ UNCHANGED unconverting

PairAsPython ==
    /\ Performing("_as_python") /\ IsPair(Last(val_stack))
    /\ val_stack' = Front(val_stack) \o <<First(Last(val_stack)), Rest(Last(val_stack))>>
    /\ op_stack' = Front(op_stack) \o <<"_make_tuple", "_as_python", "_roll", "_as_python">>
    /\ UNCHANGED unconverting

EndAsPython ==
    /\ unconverting = "ops" /\ op_stack = <<>>
    /\ unconverting' = "done"
    /\ UNCHANGED <<op_stack, val_stack>>

UnconversionStep == Roll \/ MakeTuple \/ AtomAsPython \/ PairAsPython \/ EndAsPython

-----------------------------------------------------------------------------
(***************************************************************************)
(* Properties                                                              *)
(***************************************************************************)
\* how many of the first i operations join two values into one
Joins(o, i) == Cardinality({ j \in 1..i : o[j] = "_make_tuple" })

\* Every operation finds what it needs.  There is one value more than there
\* are values to be joined, so no pop finds an empty list and the result is all
\* that is left; _as_python finds a tree, which values that were converted never
\* are, with _roll bringing up the left one when the right one is done.
FindsItsValues ==
    /\ Len(val_stack) = (IF unconverting = "no" THEN 0 ELSE 1 + Joins(op_stack, Len(op_stack)))
    /\ unconverting = "ops" /\ op_stack # <<>> =>
         CASE Last(op_stack) = "_as_python"  -> IsTree(FromTop(val_stack, 1))
           [] Last(op_stack) = "_roll"       -> /\ ~IsTree(FromTop(val_stack, 1))
                                                /\ IsTree(FromTop(val_stack, 2))
           [] Last(op_stack) = "_make_tuple" -> /\ ~IsTree(FromTop(val_stack, 1))
                                                /\ ~IsTree(FromTop(val_stack, 2))
    /\ unconverting = "done" => ~IsTree(Last(val_stack))
=============================================================================
