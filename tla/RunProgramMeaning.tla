------------------------- MODULE RunProgramMeaning -------------------------
(***************************************************************************)
(* What run_program computes, as a recursive definition: the value and the *)
(* cost of a form in an environment.  The code evaluates with two stacks   *)
(* and no recursion; this is what that is meant to amount to.  Costs are   *)
(* threaded through the evaluation, since the order of charges decides     *)
(* which error is raised first.                                            *)
(*                                                                         *)
(* The recursion goes through constants, so that this module can hold      *)
(* proofs: the definitions below are the right sides of recursive          *)
(* equations, and the constants are any solution of these (IsMeaning).     *)
(* MCRunProgram gives them these right sides as values, which makes TLC    *)
(* evaluate the recursion.  There is a solution: the one that has some     *)
(* fixed error for a form whose evaluation does not end.                   *)
(***************************************************************************)
EXTENDS RunProgram

CONSTANTS Meaning(_, _, _, _),       \* of a form: value and cost, or error
          ListMeaning(_, _, _, _),   \* of a list of forms, one by one
          IsProper(_)                \* whether a list ends in nil

\* an outcome charged on top of the cost c, with this limit
After(limit, c, outcome) ==
    IF ~outcome.ok THEN Raised(outcome.error)
    ELSE IF limit # 0 /\ c + outcome.cost > limit THEN Raised("cost exceeded")
    ELSE Returned(c + outcome.cost, outcome.value)

\* a path is a number, whatever bytes it is written in
ValueAtPath(b, e) ==
    LET n == IntOf(b)
        zeros == IF n = 0 THEN Len(b) ELSE Len(b) - Len(BytesOf(n))
        cost_of(legs) == PATH_LOOKUP_BASE_COST + PATH_LOOKUP_COST_PER_LEG * (1 + legs)
                         + PATH_LOOKUP_COST_PER_ZERO_BYTE * zeros
    IN  IF n = 0 THEN Returned(cost_of(0), Null)
        ELSE IF PathIntoAtom(e, Legs(n)) THEN Raised("path into atom")
        ELSE Returned(cost_of(Len(Legs(n))), Follow(e, Legs(n)))

IsProperOf(xs) == IF IsPair(xs) THEN IsProper(Rest(xs)) ELSE Nullp(xs)

\* the operands are evaluated from the last to the first
ListMeaningOf(limit, xs, e, c) ==
    IF Nullp(xs) THEN Returned(c, Null)
    ELSE LET rest  == ListMeaning(limit, Rest(xs), e, c)
             first == Meaning(limit, First(xs), e, rest.cost)
         IN  IF ~rest.ok THEN rest
             ELSE IF ~first.ok THEN first
             ELSE Returned(first.cost, Pair(first.value, rest.value))

Applied(limit, op, xs, c) ==
    IF op # ApplyAtom THEN After(limit, c, OperatorLookup(op, xs))
    ELSE IF ~ListLenIs(xs, 2) THEN Raised("apply requires exactly 2 parameters")
    ELSE LET charged == After(limit, c, Returned(APPLY_COST, Null))
         IN  IF charged.ok THEN Meaning(limit, Item(xs, 1), Item(xs, 2), charged.cost)
             ELSE charged

MeaningOf(limit, s, e, c) ==
    IF IsAtom(s) THEN After(limit, c, ValueAtPath(s.atom, e))
    ELSE IF IsPair(First(s)) THEN
        LET charged == After(limit, c, Returned(APPLY_COST, Null))
        IN  IF ~(IsAtom(First(First(s))) /\ Nullp(Rest(First(s))))
            THEN Raised("in ((X)...) syntax X must be lone atom")
            ELSE IF charged.ok THEN Applied(limit, First(First(s)).atom, Rest(s), charged.cost)
            ELSE charged
    ELSE IF First(s).atom = QuoteAtom THEN After(limit, c, Returned(QUOTE_COST, Rest(s)))
    ELSE IF ~IsProper(Rest(s)) THEN Raised("first of non-cons")
    ELSE LET charged == After(limit, c, Returned(1, Null))
             xs == ListMeaning(limit, Rest(s), e, charged.cost)
         IN  IF ~charged.ok THEN charged
             ELSE IF ~xs.ok THEN xs
             ELSE Applied(limit, First(s).atom, xs.value, xs.cost)

IsOutcome(o) == o = Returned(o.cost, o.value) \/ o = Raised(o.error)

IsMeaning ==
    /\ \A limit, s, e, c : IsOutcome(Meaning(limit, s, e, c))
    /\ \A xs : IsProper(xs) = IsProperOf(xs)
    /\ \A limit, xs, e, c : ListMeaning(limit, xs, e, c) = ListMeaningOf(limit, xs, e, c)
    /\ \A limit, s, e, c : Meaning(limit, s, e, c) = MeaningOf(limit, s, e, c)

-----------------------------------------------------------------------------
\* The two stacks compute what the recursive definition says: the same value
\* at the same cost, or the same error, the one that is met first.
ComputesMeaning ==
    Stopped =>
        Meaning(max_cost, program, args, 0) =
            IF pc = "raised" THEN Raised(error)
            ELSE Returned(cost, value_stack[Len(value_stack)])

\* The callable that pre_eval_f returned for a form is given the value of
\* that form, although everything the form left on the stacks, a whole
\* recursion perhaps, was done since it was put there: the form, evaluated at
\* what the cost was then, has this value and brings the cost to what it is now.
CallableSeesValue ==
    Doing("context_op") =>
        LET op == FromTop(op_stack, 1)
        IN  \E c \in 0..cost :
                Meaning(max_cost, op.form, op.env, c) = Returned(cost, FromTop(value_stack, 1))
=============================================================================
