------------------------------ MODULE CoreOps ------------------------------
(***************************************************************************)
(* The operators of src/clvm/core_ops.py, and how operators read the list  *)
(* of their operands.                                                      *)
(***************************************************************************)
EXTENDS SExps, Costs

MaxItems == 12     \* bound on the length of an operand list

\* args.as_iter()
Items(x) == LET n == CHOOSE k \in 0..MaxItems : ListLenIs(x, k)
            IN  [i \in 1..n |-> Item(x, i)]

AllAtoms(x) == \A y \in Range(Items(x)) : IsAtom(y)
Each(of(_), items) == [i \in DOMAIN items |-> of(items[i])]
Lengths(x)  == Each(LAMBDA y : Len(y.atom), Items(x))
SumOf(s)    == FoldLeft(LAMBDA a, b : a + b, 0, s)

\* what most operators charge for their operands, all of them atoms
ForOperands(base, per_arg, per_byte, x) ==
    base + Len(Items(x)) * per_arg + SumOf(Lengths(x)) * per_byte

True  == Atom(<<1>>)
False == Null
Bool(p) == IF p THEN True ELSE False

FirstOf(x, c) == IF IsPair(x) THEN Returned(c, First(x)) ELSE Raised("first of non-cons")
RestOf(x, c)  == IF IsPair(x) THEN Returned(c, Rest(x))  ELSE Raised("rest of non-cons")

op_if(x) ==
    IF ~ListLenIs(x, 3) THEN Raised("i takes exactly 3 arguments")
    ELSE Returned(IF_COST, IF Nullp(Item(x, 1)) THEN Item(x, 3) ELSE Item(x, 2))

op_cons(x) ==
    IF ~ListLenIs(x, 2) THEN Raised("c takes exactly 2 arguments")
    ELSE Returned(CONS_COST, Pair(Item(x, 1), Item(x, 2)))

op_first(x) == IF ~ListLenIs(x, 1) THEN Raised("f takes exactly 1 argument")
               ELSE FirstOf(Item(x, 1), FIRST_COST)

op_rest(x)  == IF ~ListLenIs(x, 1) THEN Raised("r takes exactly 1 argument")
               ELSE RestOf(Item(x, 1), REST_COST)

op_listp(x) == IF ~ListLenIs(x, 1) THEN Raised("l takes exactly 1 argument")
               ELSE Returned(LISTP_COST, Bool(IsPair(Item(x, 1))))

op_raise(x) == Raised("clvm raise")

op_eq(x) ==
    IF ~ListLenIs(x, 2) THEN Raised("= takes exactly 2 arguments")
    ELSE LET a0 == Item(x, 1)
             a1 == Item(x, 2)
         IN  IF IsPair(a0) \/ IsPair(a1) THEN Raised("= on list")
             ELSE Returned(EQ_BASE_COST + (Len(a0.atom) + Len(a1.atom)) * EQ_COST_PER_BYTE,
                           Bool(a0 = a1))
=============================================================================
