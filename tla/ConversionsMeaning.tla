------------------------- MODULE ConversionsMeaning -------------------------
(***************************************************************************)
(* What the conversions and == are meant to compute, recursively.          *)
(*                                                                         *)
(* The recursion goes through constants, so that this module can hold      *)
(* proofs: the definitions below are the right sides of recursive          *)
(* equations, and the constants are any solution of these (AreMeanings).   *)
(* MCConversions gives them these right sides as values, which makes TLC   *)
(* evaluate the recursion.  On finite values and trees it always ends, so  *)
(* there is a solution.                                                    *)
(***************************************************************************)
EXTENDS Conversions

CONSTANTS CanConvert(_),    \* whether a Python value stands for a tree,
          TreeOf(_),        \* which tree,
          ListTree(_),      \* and which one a list with these elements stands for
          EndsInNil(_),     \* whether a tree's pairs along the right end in nil,
          ListItems(_),     \* what the elements of such a list become in Python,
          PythonOf(_)       \* and what a tree becomes

CanConvertOf(v) ==
    CASE looks_like_clvm_object(v) -> TRUE
      [] Kind(v) = "tuple" -> Len(v.tuple) = 2 /\ \A i \in 1..2 : CanConvert(v.tuple[i])
      [] Kind(v) = "list"  -> \A i \in 1..Len(v.list) : CanConvert(v.list[i])
      [] OTHER             -> Convertible(v)

\* a list becomes pairs along the right, ended by nil
ListTreeOf(s) == IF s = <<>> THEN Null ELSE Pair(TreeOf(Head(s)), ListTree(Tail(s)))

TreeOfOf(v) ==
    CASE looks_like_clvm_object(v) -> v
      [] Kind(v) = "tuple" -> Pair(TreeOf(v.tuple[1]), TreeOf(v.tuple[2]))
      [] Kind(v) = "list"  -> ListTree(v.list)
      [] OTHER             -> Atom(convert_atom_to_bytes(v))

EndsInNilOf(x) == IF IsPair(x) THEN EndsInNil(Rest(x)) ELSE Nullp(x)

ListItemsOf(x) == IF IsPair(x) THEN <<PythonOf(First(x))>> \o ListItems(Rest(x)) ELSE <<>>

\* pairs that end in nil are a list, any other pair is a tuple
PythonOfOf(x) ==
    IF IsAtom(x) THEN AsBytes(x)
    ELSE IF EndsInNil(x) THEN AsList(ListItems(x))
    ELSE AsTuple(PythonOf(First(x)), PythonOf(Rest(x)))

\* D are trees, and has the sides of its pairs.
Trees(D) == /\ Null \in D
            /\ \A x \in D : (\E b : x = Atom(b)) \/ (\E l, r \in D : x = Pair(l, r))

\* V are Python values, and has the parts of its tuples and lists; the CLVM
\* objects among them are in D.
PythonValues(V, D) ==
    \A v \in V : /\ looks_like_clvm_object(v) => v \in D
                 /\ Kind(v) = "tuple" => v.tuple \in Seq(V)
                 /\ Kind(v) = "list"  => v.list \in Seq(V)

AreMeanings(V, D) ==
    /\ \A v \in V : /\ CanConvert(v) = CanConvertOf(v)
                    /\ CanConvert(v) => TreeOf(v) = TreeOfOf(v) /\ TreeOf(v) \in D
    /\ \A s \in Seq(V) : (\A i \in 1..Len(s) : CanConvert(s[i])) => ListTree(s) = ListTreeOf(s)
    /\ \A x \in D : /\ EndsInNil(x) = EndsInNilOf(x)
                    /\ EndsInNil(x) => ListItems(x) = ListItemsOf(x) /\ ListItems(x) \in Seq(V)
                    /\ PythonOf(x) = PythonOfOf(x) /\ PythonOf(x) \in V

-----------------------------------------------------------------------------
Converting == phase \in {"to", "eq_to"}
Converted  == IF phase = "eq_to" THEN other ELSE value

\* to_sexp_type gives the tree that the value stands for, or raises ValueError
\* because some part of it stands for nothing.
BecomesTree ==
    /\ Converting /\ converting = "done" =>
         CanConvert(Converted) /\ stack = <<TreeOf(Converted)>>
    /\ Converting /\ converting = "raised" => ~CanConvert(Converted)

\* as_python tells lists from tuples by how the pairs end.
BecomesPython == unconverting = "done" => val_stack = <<PythonOf(sexp)>>

\* == compares trees, whatever they are given as; what cannot be converted
\* equals nothing.
EqualIfSameTree ==
    phase = "done" => (equal <=> CanConvert(other) /\ TreeOf(other) = sexp)
=============================================================================
