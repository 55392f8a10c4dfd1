----------------------------- MODULE RunProgram -----------------------------
(***************************************************************************)
(* run_program of src/clvm/run_program.py: a program is evaluated with no  *)
(* recursion, by a stack of operations (closures, in the code) and a stack *)
(* of values that they pop and push.  Each operation of the main loop is   *)
(* an action; eval_op's loop over the operands of an operator takes one    *)
(* step for each operand (pc = "operands").                                *)
(*                                                                         *)
(* The operators themselves are the constant OperatorLookup: what          *)
(* operator_lookup(op, operand_list) returns or raises.                    *)
(***************************************************************************)
EXTENDS SExps, Costs

CONSTANTS Calls,                  \* the arguments of run_program, as records
                                  \* (Call); a max_cost of 0 is no limit
          QuoteAtom, ApplyAtom,   \* operator_lookup.quote_atom, apply_atom
          OperatorLookup(_, _),   \* Returned(...) or Raised(...)
          Traced(_, _)            \* pre_eval_f returns a callable for these

VARIABLES program, args, max_cost,   \* the arguments of run_program
          op_stack, value_stack,
          cost,
          pc,                        \* "loop", "operands", "done" or "raised"
          operands, env,             \* locals of eval_op in its operands loop
          error                      \* of the EvalError, or NoError

arguments == <<program, args, max_cost>>
locals    == <<operands, env>>
vars == <<arguments, op_stack, value_stack, cost, pc, locals, error>>

NoError == "none"

\* what goes on op_stack
Op(f)            == [f |-> f]
ContextOp(s, e)  == [f |-> "context_op", form |-> s, env |-> e]

Call(p, e, c) == [program |-> p, args |-> e, max_cost |-> c]

Init ==
    /\ \E call \in Calls :
         program = call.program /\ args = call.args /\ max_cost = call.max_cost
    /\ op_stack = <<Op("eval_op")>>
    /\ value_stack = <<Pair(program, args)>>
    /\ cost = 0
    /\ pc = "loop"
    /\ operands = Null /\ env = Null
    /\ error = NoError

-----------------------------------------------------------------------------
Popped(s, n) == SubSeq(s, 1, Len(s) - n)
FromTop(s, n) == s[Len(s) - n + 1]

\* the main loop takes the operation on top, and it is f
Doing(f) == pc = "loop" /\ op_stack # <<>> /\ FromTop(op_stack, 1).f = f

\* Mutant of Charge: the limit itself is refused.
Charge_RefusesLimit(c) ==
    /\ cost' = cost + c
    /\ IF max_cost # 0 /\ cost' >= max_cost
       THEN pc' = "raised" /\ error' = "cost exceeded"
       ELSE pc' = "loop" /\ UNCHANGED error

\* an operation returns its cost: it is added, and compared to max_cost
Charge(c) ==
    /\ cost' = cost + c
    /\ IF max_cost # 0 /\ cost' > max_cost
       THEN pc' = "raised" /\ error' = "cost exceeded"
       ELSE pc' = "loop" /\ UNCHANGED error

Return(c, ops, values) ==
    /\ Charge(c)
    /\ op_stack' = ops /\ value_stack' = values
    /\ UNCHANGED <<arguments, locals>>

\* an EvalError leaves run_program; nobody sees the stacks again
Raise(e) ==
    /\ pc' = "raised" /\ error' = e
    /\ UNCHANGED <<arguments, op_stack, value_stack, cost, locals>>

-----------------------------------------------------------------------------
(***************************************************************************)
(* traverse_path: the legs are the bits of the atom below its highest set  *)
(* bit, from the last byte to the first nonzero one                        *)
(***************************************************************************)
ZeroBytes(b) == CHOOSE n \in 0..Len(b) : /\ \A i \in 1..n : b[i] = 0
                                         /\ n < Len(b) => b[n + 1] # 0

msb_mask(byte) == 2^(BitLength(byte) - 1)

PathLegs(b) ==
    LET end_byte_cursor == ZeroBytes(b) + 1
        n == 8 * (Len(b) - end_byte_cursor) + BitLength(msb_mask(b[end_byte_cursor])) - 1
    IN  [i \in 1..n |-> (b[Len(b) - (i - 1) \div 8] \div 2^((i - 1) % 8)) % 2]

traverse_path(b, e) ==
    LET base == PATH_LOOKUP_BASE_COST + PATH_LOOKUP_COST_PER_LEG
        skip == ZeroBytes(b) * PATH_LOOKUP_COST_PER_ZERO_BYTE
    IN  IF ZeroBytes(b) = Len(b) THEN Returned(base + skip, Null)
        ELSE IF PathIntoAtom(e, PathLegs(b)) THEN Raised("path into atom")
        ELSE Returned(base + skip + Len(PathLegs(b)) * PATH_LOOKUP_COST_PER_LEG,
                      Follow(e, PathLegs(b)))

(***************************************************************************)
(* eval_op, of the form sexp in the environment e.  pre_eval_op goes first *)
(* and may leave a context_op under everything that the form puts there.   *)
(***************************************************************************)
Form    == First(FromTop(value_stack, 1))
FormEnv == Rest(FromTop(value_stack, 1))

\* Mutant of OpsBelow: the context_op goes to the bottom of the stack.
OpsBelow_ContextAtBottom ==
    (IF Traced(Form, FormEnv) THEN <<ContextOp(Form, FormEnv)>> ELSE <<>>) \o Popped(op_stack, 1)

OpsBelow == Popped(op_stack, 1) \o (IF Traced(Form, FormEnv)
                                    THEN <<ContextOp(Form, FormEnv)>> ELSE <<>>)
ValuesBelow == Popped(value_stack, 1)

\* an outcome becomes the value of the operation, or its error
Deliver(outcome, ops, values) ==
    IF outcome.ok THEN Return(outcome.cost, ops, Append(values, outcome.value))
                  ELSE Raise(outcome.error)

EvalPath ==
    /\ Doing("eval_op") /\ IsAtom(Form)
    /\ Deliver(traverse_path(Form.atom, FormEnv), OpsBelow, ValuesBelow)

\* ((X) ...): apply the operator X to the rest of the form, unevaluated
EvalBracketed ==
    /\ Doing("eval_op") /\ IsPair(Form) /\ IsPair(First(Form))
    /\ LET new_operator == First(First(Form))
           must_be_nil  == Rest(First(Form))
       IN  IF IsAtom(new_operator) /\ Nullp(must_be_nil)
           THEN Return(APPLY_COST, Append(OpsBelow, Op("apply_op")),
                       ValuesBelow \o <<new_operator, Rest(Form)>>)
           ELSE Raise("in ((X)...) syntax X must be lone atom")

EvalsOperator == Doing("eval_op") /\ IsPair(Form) /\ IsAtom(First(Form))

EvalQuote ==
    /\ EvalsOperator /\ First(Form).atom = QuoteAtom
    /\ Return(QUOTE_COST, OpsBelow, Append(ValuesBelow, Rest(Form)))

EvalOperator ==
    /\ EvalsOperator /\ First(Form).atom # QuoteAtom
    /\ op_stack' = Append(OpsBelow, Op("apply_op"))
    /\ value_stack' = Append(ValuesBelow, First(Form))
    /\ pc' = "operands" /\ operands' = Rest(Form) /\ env' = FormEnv
    /\ UNCHANGED <<arguments, cost, error>>

\* Mutant of EvalOperand: the operations in another order.
EvalOperand_SwapTooLate ==
    /\ pc = "operands" /\ ~Nullp(operands)
    /\ IF IsPair(operands)
       THEN /\ value_stack' = Append(value_stack, Pair(First(operands), env))
            /\ op_stack' = op_stack \o <<Op("cons_op"), Op("swap_op"), Op("eval_op")>>
            /\ operands' = Rest(operands)
            /\ UNCHANGED <<arguments, cost, pc, env, error>>
       ELSE Raise("first of non-cons")

\* one turn of `while not operand_list.nullp()'
EvalOperand ==
    /\ pc = "operands" /\ ~Nullp(operands)
    /\ IF IsPair(operands)
       THEN /\ value_stack' = Append(value_stack, Pair(First(operands), env))
            /\ op_stack' = op_stack \o <<Op("cons_op"), Op("eval_op"), Op("swap_op")>>
            /\ operands' = Rest(operands)
            /\ UNCHANGED <<arguments, cost, pc, env, error>>
       ELSE Raise("first of non-cons")

EvalOperandsEnd ==
    /\ pc = "operands" /\ Nullp(operands)
    /\ Charge(1)
    /\ value_stack' = Append(value_stack, Null)
    /\ operands' = Null /\ env' = Null
    /\ UNCHANGED <<arguments, op_stack>>

-----------------------------------------------------------------------------
SwapOp ==
    /\ Doing("swap_op")
    /\ Return(0, Popped(op_stack, 1),
              Popped(value_stack, 2) \o <<FromTop(value_stack, 1), FromTop(value_stack, 2)>>)

ConsOp ==
    /\ Doing("cons_op")
    /\ Return(0, Popped(op_stack, 1),
              Append(Popped(value_stack, 2),
                     Pair(FromTop(value_stack, 1), FromTop(value_stack, 2))))

\* Mutants of InvokeContextOp: the value is popped for the callable; the callable
\* is left where it was.
InvokeContextOp_Pops ==
    /\ Doing("context_op")
    /\ Return(0, Popped(op_stack, 1), Popped(value_stack, 1))

InvokeContextOp_NotPopped ==
    /\ Doing("context_op")
    /\ Return(0, op_stack, value_stack)

\* the callable is given the value on top; its return value is dropped
InvokeContextOp ==
    /\ Doing("context_op")
    /\ Return(0, Popped(op_stack, 1), value_stack)

OperandList == FromTop(value_stack, 1)
Operator    == FromTop(value_stack, 2)

\* ApplyAtom: evaluate a program that was computed
ApplyProgram ==
    /\ Doing("apply_op") /\ IsAtom(Operator) /\ Operator.atom = ApplyAtom
    /\ IF ListLenIs(OperandList, 2)
       THEN Return(APPLY_COST, Append(Popped(op_stack, 1), Op("eval_op")),
                   Append(Popped(value_stack, 2),
                          Pair(Item(OperandList, 1), Item(OperandList, 2))))
       ELSE Raise("apply requires exactly 2 parameters")

ApplyOperator ==
    /\ Doing("apply_op") /\ IsAtom(Operator) /\ Operator.atom # ApplyAtom
    /\ Deliver(OperatorLookup(Operator.atom, OperandList),
               Popped(op_stack, 1), Popped(value_stack, 2))

\* `while op_stack' ends: return cost, value_stack[-1]
EndRun ==
    /\ pc = "loop" /\ op_stack = <<>>
    /\ pc' = "done"
    /\ UNCHANGED <<arguments, op_stack, value_stack, cost, locals, error>>

Stopped    == pc \in {"done", "raised"}
Terminated == Stopped /\ UNCHANGED vars

Eval == \/ EvalPath \/ EvalBracketed \/ EvalQuote
        \/ EvalOperator \/ EvalOperand \/ EvalOperandsEnd

Next == \/ Eval \/ SwapOp \/ ConsOp \/ InvokeContextOp
        \/ ApplyProgram \/ ApplyOperator \/ EndRun \/ Terminated

\* the main loop goes on as long as there is an operation
Spec == Init /\ [][Next]_vars /\ WF_vars(Next)

-----------------------------------------------------------------------------
(***************************************************************************)
(* Properties                                                              *)
(***************************************************************************)
\* how many of the first i operations leave one value fewer than they find
Pending(ops, i) == Cardinality({ j \in 1..i : ops[j].f \in {"cons_op", "apply_op"} })

\* The two stacks stay in step: when an operation's turn comes there are
\* exactly the values that it and the operations below it will pop, so no pop
\* finds an empty list, and when op_stack is empty one value is left, which
\* is the result.  (Only in its operands loop is eval_op one value short: the
\* nil that ends the list of operands is pushed last.)
Balanced ==
    pc # "raised" =>
        Len(value_stack) = Pending(op_stack, Len(op_stack)) + (IF pc = "operands" THEN 0 ELSE 1)

\* ... and they are the values that it needs.  What is k values from the
\* bottom belongs to the k-th operation that pops one: the operator of an
\* apply_op is an atom ("internal error" is never raised), a swap_op brings up
\* the form and environment of an operand for the eval_op below it and the
\* cons_op below that, and an eval_op on top has its form and environment.
Aligned ==
    pc # "raised" =>
        \A i \in DOMAIN op_stack :
            LET top == Len(op_stack)
                its == value_stack[Pending(op_stack, i)]
            IN  /\ op_stack[i].f = "apply_op" => IsAtom(its)
                /\ op_stack[i].f = "swap_op" =>
                     /\ IsPair(its)
                     /\ i > 2 /\ op_stack[i-1].f = "eval_op" /\ op_stack[i-2].f = "cons_op"
                /\ op_stack[i].f = "eval_op" =>
                     \/ i < top /\ op_stack[i+1].f = "swap_op"
                     \/ i = top /\ pc = "loop" /\ IsPair(value_stack[Len(value_stack)])

\* Every evaluation of a form and every application of an operator that goes
\* well costs something (operators.py:91: "cost may not be 0"); what is free
\* only rearranges the stacks, and there is a bounded amount of it in between.
\* So the limit on the cost limits the work.
WorkCosts ==
    [][ (pc' = "loop" /\ (Doing("eval_op") \/ Doing("apply_op") \/ pc = "operands"))
        => cost' > cost ]_vars

\* With a limit on the cost every program comes to an end: swap_op, cons_op
\* and the callables of pre_eval_f are free, but no loop is made of them.
Stops == (max_cost # 0) ~> Stopped
=============================================================================
