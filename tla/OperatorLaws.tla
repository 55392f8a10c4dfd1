---------------------------- MODULE OperatorLaws ----------------------------
(***************************************************************************)
(* What holds of the operators that run_program applies: laws that join    *)
(* several of them, for operands spelled in any way, and laws of their     *)
(* costs.  A law is stated of the operands of the operator that is applied *)
(* next.                                                                   *)
(***************************************************************************)
EXTENDS RunProgram, Operators

Outcome     == OperatorLookup(Operator.atom, OperandList)
Applying(k) == Doing("apply_op") /\ Operator.atom = KEYWORD_TO_ATOM[k]
OnAtoms(n)  == ListLenIs(OperandList, n) /\ AllAtoms(OperandList)
Operand(n)  == Item(OperandList, n)

(***************************************************************************)
(* The laws are equations of expressions: an operand, or an operator on    *)
(* expressions.                                                            *)
(***************************************************************************)
Expr(k, es) == [op |-> k, of |-> es]

plus(a, b)    == Expr("+", <<a, b>>)
minus(a, b)   == Expr("-", <<a, b>>)
times(a, b)   == Expr("*", <<a, b>>)
greater(a, b) == Expr(">", <<a, b>>)
above(a, b)   == Expr(">s", <<a, b>>)
equal(a, b)   == Expr("=", <<a, b>>)
either(p, q)  == Expr("any", <<p, q>>)
neither(p, q) == Expr("not", <<either(p, q)>>)
joined(es)    == Expr("concat", es)
plain(a)      == Expr("+", <<a>>)       \* the number in its shortest spelling

\* the outcome of the operator k on these operands
Result(k, x) == OperatorLookup(KEYWORD_TO_ATOM[k], x)

\* the outcome of e; an operator with an operand that fails is not called
RECURSIVE Evaluate(_)
Evaluate(e) ==
    IF "op" \notin DOMAIN e THEN Returned(0, e)
    ELSE LET of == [i \in DOMAIN e.of |-> Evaluate(e.of[i])]
         IN  IF \A i \in DOMAIN of : of[i].ok
             THEN Result(e.op, ListOf([i \in DOMAIN of |-> of[i].value]))
             ELSE Raised("operand failed")

Ok(e)    == Evaluate(e).ok
Value(e) == Evaluate(e).value
Hold(equations) == \A e \in equations : Value(e[1]) = Value(e[2])

\* v is in the range of two's complement in k bytes
Fits(v, k) == IF k = 0 THEN v = 0 ELSE -(2^(8 * k - 1)) <= v /\ v < 2^(8 * k - 1)

\* the atoms that an operator returns, itself or in a pair
AtomsOf(v) == IF IsAtom(v) THEN {v.atom} ELSE {First(v).atom, Rest(v).atom}

Integers_ == {"+", "-", "*", "/", "strlen", "ash", "lsh", "logand", "logior", "logxor", "lognot"}

\* An atom that an operator on integers returns spells its integer in as few
\* bytes as two's complement can: programs compare integers with `=', which
\* compares bytes, and use them as opcodes and paths.
ShortestIntegers ==
    \A k \in Integers_ \cup {"divmod"} :
        Applying(k) =>
            \A outcome \in {Outcome} :
                outcome.ok =>
                    \A b \in AtomsOf(outcome.value) :
                        \A n \in 0..(Len(b) - 1) : ~Fits(int_from_bytes(b), n)

\* Arithmetic.  Adding and subtracting are inverse; `>' is a strict order of
\* the numbers, and agrees with subtraction; quotient and remainder make up the
\* dividend, the remainder is smaller than the divisor and has its sign; `/'
\* is that quotient where both operands are not negative.
ArithmeticLaws ==
    (Applying("divmod") /\ OnAtoms(2)) =>
        LET a == Operand(1)
            b == Operand(2)
            division == Expr("divmod", <<a, b>>)
            q == Expr("f", <<division>>)
            r == Expr("r", <<division>>)
            if_positive(e, f) == Expr("i", <<greater(b, Null), e, f>>)
        IN  /\ Hold({ <<minus(plus(a, b), b), plain(a)>>,
                      <<greater(a, b), greater(minus(a, b), Null)>>,
                      <<greater(a, b), neither(greater(b, a), equal(plain(a), plain(b)))>> })
            /\ Outcome.ok <=> Value(plain(b)) # Null
            /\ Outcome.ok =>
                 /\ Hold({ <<plus(times(q, b), r), plain(a)>>,
                           <<if_positive(greater(b, r), greater(r, b)), True>>,
                           <<if_positive(greater(Null, r), greater(r, Null)), False>> })
                 /\ LET quotient == Expr("/", <<a, b>>)
                    IN  IF Value(either(greater(Null, a), greater(Null, b))) = True
                        THEN ~Ok(quotient)
                        ELSE Hold({ <<quotient, q>> })

\* Bits, of operands of different lengths and signs: what two numbers have in
\* common and what they have together add up to their sum, and so on.
BitLaws ==
    (Applying("logand") /\ OnAtoms(2)) =>
        LET a == Operand(1)
            b == Operand(2)
            and(x, y) == Expr("logand", <<x, y>>)
            or(x, y)  == Expr("logior", <<x, y>>)
            xor(x, y) == Expr("logxor", <<x, y>>)
            not(x)    == Expr("lognot", <<x>>)
        IN  Hold({ <<plus(and(a, b), or(a, b)), plus(a, b)>>,
                   <<minus(or(a, b), and(a, b)), xor(a, b)>>,
                   <<not(and(a, b)), or(not(a), not(b))>>,
                   <<plus(a, not(a)), plain(Atom(<<255>>))>>,
                   <<not(not(a)), plain(a)>> })

\* Shifts.  To the left is to multiply by a power of 2, to the right to divide
\* and floor, or to leave the sign only; lsh is ash of the unsigned number.
ShiftLaws ==
    (Applying("ash") /\ OnAtoms(2) /\ Outcome.ok) =>
        LET a == Operand(1)
            n == int_from_bytes(Operand(2).atom)
            power == IntAtom(2^n)
            ash(x, m) == Expr("ash", <<x, m>>)
            sign      == Expr("i", <<greater(Null, a), plain(Atom(<<255>>)), Null>>)
        IN  Hold({ <<Expr("lsh", <<a, Operand(2)>>), ash(joined(<<Atom(<<0>>), a>>), Operand(2))>> }
                 \cup (IF n \in 0..9
                       THEN { <<ash(a, Operand(2)), times(a, power)>>,
                              <<ash(a, minus(Null, Operand(2))),
                                Expr("f", <<Expr("divmod", <<a, power>>)>>)>> }
                       ELSE IF n < -20 THEN { <<ash(a, Operand(2)), sign>> } ELSE {}))

\* The operators on integers agree with one another, for numbers of all signs
\* and lengths around the limits of a byte, in their shortest spelling or not.
IntegerLaws == ArithmeticLaws /\ BitLaws /\ ShiftLaws

\* Parts.  substr returns the bytes between two positions that are in the
\* string, in order, and nothing else; the parts joined are the string; the
\* hash of several operands is that of their concatenation.
SubstringLaws ==
    (Applying("substr") /\ OnAtoms(3)) =>
        LET s == Operand(1)
            i == Operand(2)
            j == Operand(3)
            size    == Expr("strlen", <<s>>)
            upto    == Expr("substr", <<s, Null, i>>)
            part    == Expr("substr", <<s, i, j>>)
            from(n) == Expr("substr", <<s, n>>)
            unordered == either(greater(Null, i), either(greater(i, j), greater(j, size)))
        IN  /\ Outcome.ok <=> Value(unordered) = False /\ Len(i.atom) <= 4 /\ Len(j.atom) <= 4
            /\ Outcome.ok =>
                 Hold({ <<Expr("strlen", <<part>>), minus(j, i)>>,
                        <<joined(<<upto, part, from(j)>>), s>>,
                        <<Expr("sha256", <<upto, from(i)>>), Expr("sha256", <<s>>)>> })

\* `>s' is a strict order, also of strings of which one begins with the other,
\* and what is common in front makes no difference.
BytesOrder ==
    (Applying(">s") /\ OnAtoms(2)) =>
        LET a == Operand(1)
            b == Operand(2)
        IN  Hold({ <<above(a, b), neither(above(b, a), equal(a, b))>>,
                   <<above(joined(<<a, b>>), a), Expr("not", <<equal(b, Null)>>)>> }
                 \cup { <<above(a, b), above(joined(<<c, a>>), joined(<<c, b>>))>> : c \in {a, b} })

\* The operators on strings agree with one another, at the ends of a string and
\* for strings that begin alike.
StringLaws == SubstringLaws /\ BytesOrder

-----------------------------------------------------------------------------
(***************************************************************************)
(* Costs                                                                   *)
(***************************************************************************)
Bytes(v) == IF IsAtom(v) THEN Len(v.atom) ELSE Len(First(v).atom) + Len(Rest(v).atom)

\* what an operator charges apart from the memory of its result
NetCost(outcome) == outcome.cost - Bytes(outcome.value) * MALLOC_COST_PER_BYTE

\* 0 and 1 in n bytes
Zeros(n) == Atom([i \in 1..n |-> 0])
Ones(n)  == Atom([i \in 1..n |-> IF i = n THEN 1 ELSE 0])

\* calls of operators, and laws that say that two rows of calls charge the same,
\* the memory of their results apart
CallOf(k, es)   == [op |-> k, of |-> ListOf(es)]
Charged(row)  == FoldLeft(LAMBDA sum, c : sum + NetCost(Result(c.op, c.of)), 0, row)
SameCharges(laws) ==
    \A law \in laws : \A sums \in { [side \in {1, 2} |-> Charged(law[side])] } : sums[1] = sums[2]

\* An operator charges what it does for other operands of these lengths; for
\* products that is so of two factors.
ByLength(k, es) ==
    IF k \in {"ash", "lsh"} \/ (k = "*" /\ Len(es) > 2) THEN {}
    ELSE { <<<<CallOf(k, es)>>, <<CallOf(k, [i \in DOMAIN es |-> Ones(Len(es[i].atom))])>>>> }

\* A third factor is charged as the second of the product so far is, ...
ByProduct(k, es) ==
    IF k # "*" \/ Len(es) # 3 THEN {}
    ELSE LET product == int_from_bytes(es[1].atom) * int_from_bytes(es[2].atom)
         IN  { <<<<CallOf(k, es), CallOf(k, <<>>)>>,
                 <<CallOf(k, <<es[1], es[2]>>), CallOf(k, <<Zeros(limbs_for_int(product)), es[3]>>)>>>> }

\* ... and a shift for its operand and for its result, whole bytes without a sign.
ByShifted(k, es, shifted) ==
    IF k \notin {"ash", "lsh"} THEN {}
    ELSE { <<<<CallOf(k, es), CallOf(k, <<Null, Null>>)>>,
             <<CallOf(k, <<Zeros(Len(es[1].atom)), Null>>),
               CallOf(k, <<Zeros(limbs_for_int(int_from_bytes(shifted.atom))), Null>>)>>>> }

\* A byte of a string costs strlen the same in a string that is twice as long.
ByString(k, es) ==
    IF k # "strlen" THEN {}
    ELSE { <<<<CallOf(k, <<Atom(es[1].atom \o es[1].atom)>>), CallOf(k, <<Null>>)>>,
             <<CallOf(k, es), CallOf(k, es)>>>> }

NewBytes == {"sha256", "strlen", "concat", "+", "-", "*", "divmod", "/", "ash", "lsh",
             "logand", "logior", "logxor", "lognot"}

\* What the operators that make new bytes charge: all they return, by its length,
\* and nothing that would need a look at the numbers; and no result costs less
\* than its bytes.  substr, which returns a part of its operand, charges 1
\* (more_ops.py:286).
ChargesByLength ==
    \A k \in NewBytes \cup {"point_add", "pubkey_for_exp"} :
        Applying(k) =>
            \A outcome \in {Outcome}, es \in {Items(OperandList)} :
                outcome.ok =>
                    /\ NetCost(outcome) > 0
                    /\ k \in NewBytes =>
                         SameCharges(ByLength(k, es) \cup ByProduct(k, es) \cup ByString(k, es)
                                     \cup ByShifted(k, es, outcome.value))

\* "computed like operator add", mul and concat (operators.py:95-97): an unknown
\* operator costs what the known one does without its memory, times the
\* multiplier; for the product of three numbers and more its estimate is never
\* too low.
UnknownCostsAsKnown ==
    (Doing("apply_op") /\ Operator.atom \notin DOMAIN OPERATOR_LOOKUP \cup {ApplyAtom}) =>
        \A outcome \in {Outcome} :
            outcome.ok =>
                LET multiplier == IntOf(Front(Operator.atom)) + 1
                    like       == <<"+", "*", "concat">>[cost_function(Operator.atom)]
                    is_exact   == like # "*" \/ Len(Items(OperandList)) <= 2
                IN  IF cost_function(Operator.atom) = 0 THEN outcome.cost = multiplier
                    ELSE \A known \in { multiplier * NetCost(Result(like, OperandList)) } :
                            /\ outcome.cost >= known
                            /\ is_exact => outcome.cost = known

\* An opcode that has a keyword has a function, the one with its name, but
\* for q and a, which run_program treats itself; none falls through to the
\* unknown operators, where it would do nothing at the price of 1.
KeywordsHaveFunctions ==
    Doing("apply_op") =>
        /\ \A k \in Range(KEYWORDS) \ {".", "q", "a"} :
             Operator.atom = KEYWORD_TO_ATOM[k] => Operator.atom \in DOMAIN OPERATOR_LOOKUP
        /\ Operator.atom \in DOMAIN OPERATOR_LOOKUP =>
             \A op \in DOMAIN OPERATOR_LOOKUP \ {Operator.atom} :
                OPERATOR_LOOKUP[op] # OPERATOR_LOOKUP[Operator.atom]

\* Which opcodes are unknown, and what they cost: no keyword is among them, and
\* the others cost what they must for the day when they become known.
UnknownOperators == UnknownCostsAsKnown /\ KeywordsHaveFunctions
=============================================================================
