---------------------------- MODULE Conversions ----------------------------
(***************************************************************************)
(* A Python value becomes an SExp, that a Python value again, and the SExp *)
(* is compared with one of the two or with something else:                 *)
(* SExp.to(value), as_python() and == of src/clvm/SExp.py.  The conversion *)
(* to trees runs twice, since == converts what it is given.                *)
(***************************************************************************)
EXTENDS ToSexpType, AsPython, SexpEquality

CONSTANTS Values,    \* Python values that are converted
          Others     \* what the tree is compared with, besides

VARIABLES value, sexp, python, other,   \* the value, its SExp, what as_python
                                        \* makes of it, the other side of ==
          phase     \* "start", "to", "as_python", "eq_to", "eq", "done", "refused"

results == <<value, sexp, python, other>>
vars == <<conversion, unconversion, comparison, results, phase>>

Init ==
    /\ ConversionInit /\ UnconversionInit /\ ComparisonInit
    /\ value \in Values
    /\ sexp = Null /\ python = AsBytes(Null) /\ other = Null
    /\ phase = "start"

-----------------------------------------------------------------------------
\* SExp.to(value)
CallTo ==
    /\ phase = "start" /\ ~looks_like_clvm_object(value)
    /\ Start(value) /\ phase' = "to"
    /\ UNCHANGED <<unconversion, comparison, results>>

\* it returns x, and x.as_python() is called
CallAsPython(x) ==
    /\ sexp' = x /\ StartAsPython(x) /\ phase' = "as_python"
    /\ UNCHANGED <<conversion, comparison, value, python, other>>

ToReturns == \/ phase = "to" /\ converting = "done" /\ CallAsPython(stack[1])
             \/ phase = "start" /\ looks_like_clvm_object(value) /\ CallAsPython(value)

\* the ValueError of an impossible conversion goes to the caller
ToRaises ==
    /\ phase = "to" /\ converting = "raised" /\ phase' = "refused"
    /\ UNCHANGED <<conversion, unconversion, comparison, results>>

\* as_python returns, and the SExp is compared with w: self.to(w)
CallEq(w) ==
    /\ python' = Last(val_stack) /\ other' = w
    /\ IF looks_like_clvm_object(w)
       THEN StartComparing(sexp, w) /\ phase' = "eq" /\ UNCHANGED conversion
       ELSE Start(w) /\ phase' = "eq_to" /\ UNCHANGED comparison
    /\ UNCHANGED <<unconversion, value, sexp>>

AsPythonReturns ==
    /\ phase = "as_python" /\ unconverting = "done"
    /\ \E w \in {value, Last(val_stack)} \cup Others : CallEq(w)

EqConverted ==
    /\ phase = "eq_to" /\ converting = "done" /\ phase' = "eq"
    /\ StartComparing(sexp, stack[1])
    /\ UNCHANGED <<conversion, unconversion, results>>

\* `except ValueError: return False'
EqRefuses ==
    /\ phase = "eq_to" /\ converting = "raised" /\ phase' = "eq"
    /\ ReturnEqual(FALSE)
    /\ UNCHANGED <<conversion, unconversion, results>>

EqReturns ==
    /\ phase = "eq" /\ comparing = "done" /\ phase' = "done"
    /\ UNCHANGED <<conversion, unconversion, comparison, results>>

Finished == phase \in {"done", "refused"} /\ UNCHANGED vars

Converts    == ConversionStep /\ UNCHANGED <<unconversion, comparison, results, phase>>
Unconverts  == UnconversionStep /\ UNCHANGED <<conversion, comparison, results, phase>>
ComparesOne == ComparisonStep /\ UNCHANGED <<conversion, unconversion, results, phase>>

Next == \/ CallTo \/ ToReturns \/ ToRaises \/ AsPythonReturns
        \/ EqConverted \/ EqRefuses \/ EqReturns
        \/ Converts \/ Unconverts \/ ComparesOne \/ Finished

\* the loops go on until they are done
Spec == Init /\ [][Next]_vars /\ WF_vars(Next)

-----------------------------------------------------------------------------
(***************************************************************************)
(* Properties                                                              *)
(***************************************************************************)
\* Every call returns or raises.
Returns == <>(phase \in {"done", "refused"})
=============================================================================
