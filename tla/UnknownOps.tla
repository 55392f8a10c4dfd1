----------------------------- MODULE UnknownOps -----------------------------
(***************************************************************************)
(* default_unknown_op of src/clvm/operators.py: an operator that is in no  *)
(* table does nothing, at a cost that its bytes spell.  The last byte says *)
(* in its two upper bits how the cost goes with the operands, the others   *)
(* are a multiplier.                                                       *)
(***************************************************************************)
EXTENDS CoreOps

\* Mutant of LikeAdd: an operand is charged what it is for concat.
LikeAdd_PerArgOfConcat(x) ==
    ForOperands(ARITH_BASE_COST, CONCAT_COST_PER_ARG, ARITH_COST_PER_BYTE, x)

LikeAdd(x)    == ForOperands(ARITH_BASE_COST, ARITH_COST_PER_ARG, ARITH_COST_PER_BYTE, x)
LikeConcat(x) == ForOperands(CONCAT_BASE_COST, CONCAT_COST_PER_ARG, CONCAT_COST_PER_BYTE, x)

\* vs is the length of the product so far, rs that of the next operand
LikeMultiply(x) ==
    LET step(s, rs) ==
          [vs   |-> s.vs + rs,
           cost |-> s.cost + MUL_COST_PER_OP + (rs + s.vs) * MUL_LINEAR_COST_PER_BYTE
                    + (rs * s.vs) \div MUL_SQUARE_COST_PER_BYTE_DIVIDER]
    IN  IF Items(x) = <<>> THEN MUL_BASE_COST
        ELSE FoldLeft(step, [vs |-> Lengths(x)[1], cost |-> MUL_BASE_COST],
                      Tail(Lengths(x))).cost

cost_function(op) == Last(op) \div 64

base_cost(op, x) == CASE cost_function(op) = 0 -> 1
                      [] cost_function(op) = 1 -> LikeAdd(x)
                      [] cost_function(op) = 2 -> LikeMultiply(x)
                      [] cost_function(op) = 3 -> LikeConcat(x)

\* the multiplier less 1, in halves of 16 bits
MultiplierHigh(op) == IntOf(SubSeq(op, 1, Len(op) - 3))
MultiplierLow(op)  == IntOf(SubSeq(op, IF Len(op) < 3 THEN 1 ELSE Len(op) - 2, Len(op) - 1))

\* cost * multiplier >= 2^32, with no number that is larger than TLC's
TooCostly(cost, high, low) == cost * high + (cost * (low + 1)) \div 65536 >= 65536

default_unknown_op(op, x) ==
    IF op = <<>> \/ (Len(op) >= 2 /\ op[1] = 255 /\ op[2] = 255)
    THEN Raised("reserved operator")
    ELSE IF Len(op) > 5 THEN Raised("invalid operator")
    ELSE IF cost_function(op) # 0 /\ ~AllAtoms(x) THEN Raised("unknown op on list")
    ELSE IF TooCostly(base_cost(op, x), MultiplierHigh(op), MultiplierLow(op))
    THEN Raised("invalid operator")
    ELSE Returned(base_cost(op, x) * (IntOf(Front(op)) + 1), Null)
=============================================================================
