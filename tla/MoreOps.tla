------------------------------ MODULE MoreOps ------------------------------
(***************************************************************************)
(* The operators of src/clvm/more_ops.py: integers, strings, shifts, bits, *)
(* truth values.  Each is a function from the list of its operands to a    *)
(* cost and a value, or an error.  sha256 and the points of BLS12-381 are  *)
(* libraries: constants.  Numbers are as large as TLC's.                   *)
(***************************************************************************)
EXTENDS Casts, CoreOps

CONSTANTS Sha256(_),      \* of bytes, bytes
          PublicKey(_),   \* of an exponent, bytes
          IsPoint(_),     \* whether bytes are a point
          PointSum(_)     \* of a sequence of points, bytes

\* malloc_cost
Malloc(c, v) == Returned(c + Len(v.atom) * MALLOC_COST_PER_BYTE, v)

\* args_as_ints and args_as_int32
Ints(x) == Each(LAMBDA y : int_from_bytes(y.atom), Items(x))

OfInts(x, outcome) == IF AllAtoms(x) THEN outcome ELSE Raised("requires int args")

\* args_as_int_list
OfIntList(x, count, outcome) ==
    OfInts(x, IF Len(Items(x)) = count THEN outcome ELSE Raised("wrong number of arguments"))

ArithCost(x) == ForOperands(ARITH_BASE_COST, ARITH_COST_PER_ARG, ARITH_COST_PER_BYTE, x)

op_add(x) == OfInts(x, Malloc(ArithCost(x), IntAtom(SumOf(Ints(x)))))

op_subtract(x) ==
    OfInts(x, Malloc(ArithCost(x),
                     IntAtom(IF Items(x) = <<>> THEN 0 ELSE Ints(x)[1] - SumOf(Tail(Ints(x))))))

\* vs is the length of the first operand, then the limbs of the product so far
op_multiply(x) ==
    LET step(s, i) ==
          LET rs == Lengths(x)[i]
              v  == s.v * Ints(x)[i]
          IN  [v    |-> v,
               vs   |-> limbs_for_int(v),
               cost |-> s.cost + MUL_COST_PER_OP + (rs + s.vs) * MUL_LINEAR_COST_PER_BYTE
                        + (rs * s.vs) \div MUL_SQUARE_COST_PER_BYTE_DIVIDER]
        product == FoldLeft(step, [v |-> Ints(x)[1], vs |-> Lengths(x)[1], cost |-> MUL_BASE_COST],
                            [i \in 1..(Len(Items(x)) - 1) |-> i + 1])
    IN  OfInts(x, IF Items(x) = <<>> THEN Malloc(MUL_BASE_COST, IntAtom(1))
                  ELSE Malloc(product.cost, IntAtom(product.v)))

\* Mutant of FloorDiv: the quotient is truncated, as in C.
FloorDiv_Truncated(a, b) ==
    LET abs(v) == IF v < 0 THEN -v ELSE v
        q == abs(a) \div abs(b)
    IN  IF (a < 0) = (b < 0) THEN q ELSE -q

\* Python's divmod: the quotient is floored, also for a negative divisor
FloorDiv(a, b) == IF b > 0 THEN a \div b ELSE (-a) \div (-b)
FloorMod(a, b) == IF b > 0 THEN a % b ELSE -((-a) % (-b))

\* Mutant of op_divmod: only the quotient is charged for.
op_divmod_FreeRemainder(x) ==
    LET q == IntAtom(FloorDiv(Ints(x)[1], Ints(x)[2]))
        r == IntAtom(FloorMod(Ints(x)[1], Ints(x)[2]))
    IN  OfIntList(x, 2,
          IF Ints(x)[2] = 0 THEN Raised("divmod with 0")
          ELSE Returned(DIVMOD_BASE_COST + SumOf(Lengths(x)) * DIVMOD_COST_PER_BYTE
                        + Len(q.atom) * MALLOC_COST_PER_BYTE,
                        Pair(q, r)))

op_divmod(x) ==
    LET q == IntAtom(FloorDiv(Ints(x)[1], Ints(x)[2]))
        r == IntAtom(FloorMod(Ints(x)[1], Ints(x)[2]))
    IN  OfIntList(x, 2,
          IF Ints(x)[2] = 0 THEN Raised("divmod with 0")
          ELSE Returned(DIVMOD_BASE_COST + SumOf(Lengths(x)) * DIVMOD_COST_PER_BYTE
                        + (Len(q.atom) + Len(r.atom)) * MALLOC_COST_PER_BYTE,
                        Pair(q, r)))

op_div(x) ==
    OfIntList(x, 2,
      IF Ints(x)[2] = 0 THEN Raised("div with 0")
      ELSE IF Ints(x)[1] < 0 \/ Ints(x)[2] < 0 THEN Raised("div with negative operands")
      ELSE Malloc(DIV_BASE_COST + SumOf(Lengths(x)) * DIV_COST_PER_BYTE,
                  IntAtom(FloorDiv(Ints(x)[1], Ints(x)[2]))))

op_gr(x) ==
    OfIntList(x, 2, Returned(GR_BASE_COST + SumOf(Lengths(x)) * GR_COST_PER_BYTE,
                             Bool(Ints(x)[1] > Ints(x)[2])))

\* the order of Python's bytes
BytesGreater(a, b) ==
    \E n \in 1..Len(a) : /\ n <= Len(b) + 1 /\ SubSeq(a, 1, n - 1) = SubSeq(b, 1, n - 1)
                         /\ n <= Len(b) => a[n] > b[n]

op_gr_bytes(x) ==
    IF Len(Items(x)) # 2 THEN Raised(">s takes exactly 2 arguments")
    ELSE IF ~AllAtoms(x) THEN Raised(">s on list")
    ELSE Returned(GRS_BASE_COST + SumOf(Lengths(x)) * GRS_COST_PER_BYTE,
                  Bool(BytesGreater(Item(x, 1).atom, Item(x, 2).atom)))

-----------------------------------------------------------------------------
\* what an operator reads one after the other: h.update, s.write
Joined(x) == FlattenSeq(Each(LAMBDA y : y.atom, Items(x)))

op_sha256(x) ==
    IF ~AllAtoms(x) THEN Raised("sha256 on list")
    ELSE Malloc(ForOperands(SHA256_BASE_COST, SHA256_COST_PER_ARG, SHA256_COST_PER_BYTE, x),
                Atom(Sha256(Joined(x))))

op_pubkey_for_exp(x) ==
    OfIntList(x, 1, Malloc(PUBKEY_BASE_COST + SumOf(Lengths(x)) * PUBKEY_COST_PER_BYTE,
                           Atom(PublicKey(Ints(x)[1]))))

op_point_add(x) ==
    IF ~\A y \in Range(Items(x)) : IsAtom(y) /\ IsPoint(y.atom)
    THEN Raised("point_add expects blob")
    ELSE Malloc(POINT_ADD_BASE_COST + Len(Items(x)) * POINT_ADD_COST_PER_ARG,
                Atom(PointSum(Each(LAMBDA y : y.atom, Items(x)))))

op_strlen(x) ==
    IF ~ListLenIs(x, 1) THEN Raised("strlen takes exactly 1 argument")
    ELSE IF IsPair(Item(x, 1)) THEN Raised("strlen on list")
    ELSE LET size == Len(Item(x, 1).atom)
         IN  Malloc(STRLEN_BASE_COST + size * STRLEN_COST_PER_BYTE, IntAtom(size))

\* Mutant of op_substr: an end past the end of the string is let through.
op_substr_Short(x) ==
    LET s0 == Item(x, 1).atom
        i1 == Ints(x)[2]
        i2 == IF ListLenIs(x, 2) THEN Len(s0) ELSE Ints(x)[3]
    IN  IF ~(ListLenIs(x, 2) \/ ListLenIs(x, 3)) THEN Raised("substr takes 2 or 3 arguments")
        ELSE IF IsPair(Item(x, 1)) THEN Raised("substr on list")
        ELSE IF \E i \in 2..Len(Items(x)) : ~IsAtom(Items(x)[i]) \/ Lengths(x)[i] > 4
        THEN Raised("substr requires int32 args")
        ELSE IF i2 < i1 \/ i2 < 0 \/ i1 < 0
        THEN Raised("invalid indices for substr")
        ELSE Returned(1, Atom(SubSeq(s0, i1 + 1, Min({i2, Len(s0)}))))

op_substr(x) ==
    LET s0 == Item(x, 1).atom
        i1 == Ints(x)[2]
        i2 == IF ListLenIs(x, 2) THEN Len(s0) ELSE Ints(x)[3]
    IN  IF ~(ListLenIs(x, 2) \/ ListLenIs(x, 3)) THEN Raised("substr takes 2 or 3 arguments")
        ELSE IF IsPair(Item(x, 1)) THEN Raised("substr on list")
        ELSE IF \E i \in 2..Len(Items(x)) : ~IsAtom(Items(x)[i]) \/ Lengths(x)[i] > 4
        THEN Raised("substr requires int32 args")
        ELSE IF i2 > Len(s0) \/ i2 < i1 \/ i2 < 0 \/ i1 < 0
        THEN Raised("invalid indices for substr")
        ELSE Returned(1, Atom(SubSeq(s0, i1 + 1, i2)))

op_concat(x) ==
    IF ~AllAtoms(x) THEN Raised("concat on list")
    ELSE Malloc(ForOperands(CONCAT_BASE_COST, CONCAT_COST_PER_ARG, CONCAT_COST_PER_BYTE, x),
                Atom(Joined(x)))

-----------------------------------------------------------------------------
\* a shift to the right of 30 bits or more leaves only the sign of TLC's integers
Shifted(v, n) == IF n >= 0 THEN v * 2^n ELSE v \div 2^Min({-n, 30})

\* the two shifts differ in the value they shift and in their costs
OfShift(x, value, base, per_byte) ==
    LET n == Ints(x)[2]
        r == Shifted(value, n)
    IN  OfIntList(x, 2,
          IF Lengths(x)[2] > 4 THEN Raised("requires int32 args")
          ELSE IF n > 65535 \/ n < -65535 THEN Raised("shift too large")
          ELSE Malloc(base + (Lengths(x)[1] + limbs_for_int(r)) * per_byte, IntAtom(r)))

op_ash(x) == OfShift(x, Ints(x)[1], ASHIFT_BASE_COST, ASHIFT_COST_PER_BYTE)

op_lsh(x) == OfShift(x, IntOf(Item(x, 1).atom), LSHIFT_BASE_COST, LSHIFT_COST_PER_BYTE)

-----------------------------------------------------------------------------
\* Numbers as endless strings of bits, which have the sign from here on.
MaxBits == 26

Bit(v, k) == (v \div 2^k) % 2

Bitwise(f, a, b) ==
    FoldLeft(LAMBDA v, k : v + f[Bit(a, k - 1), Bit(b, k - 1)] * 2^(k - 1),
             -(f[Bit(a, MaxBits), Bit(b, MaxBits)] * 2^MaxBits),
             [k \in 1..MaxBits |-> k])

binop_reduction(initial_value, x, op_f) ==
    OfInts(x, Malloc(ForOperands(LOG_BASE_COST, LOG_COST_PER_ARG, LOG_COST_PER_BYTE, x),
                     IntAtom(FoldLeft(LAMBDA v, r : Bitwise(op_f, v, r), initial_value, Ints(x)))))

op_logand(x) == binop_reduction(-1, x, [a, b \in 0..1 |-> a * b])
op_logior(x) == binop_reduction(0, x, [a, b \in 0..1 |-> IF a + b > 0 THEN 1 ELSE 0])
op_logxor(x) == binop_reduction(0, x, [a, b \in 0..1 |-> (a + b) % 2])

op_lognot(x) ==
    OfIntList(x, 1, Malloc(LOGNOT_BASE_COST + SumOf(Lengths(x)) * LOGNOT_COST_PER_BYTE,
                           IntAtom(-Ints(x)[1] - 1)))

-----------------------------------------------------------------------------
\* args_as_bools: a pair is true
Bools(x) == Each(LAMBDA y : ~Nullp(y), Items(x))

op_not(x) ==
    IF Len(Items(x)) # 1 THEN Raised("not takes exactly 1 argument")
    ELSE Returned(BOOL_BASE_COST, Bool(~Bools(x)[1]))

OfBools(x, p) == Returned(BOOL_BASE_COST + Len(Items(x)) * BOOL_COST_PER_ARG, Bool(p))

op_any(x) == OfBools(x, \E i \in DOMAIN Bools(x) : Bools(x)[i])
op_all(x) == OfBools(x, \A i \in DOMAIN Bools(x) : Bools(x)[i])

\* Mutant of op_softfork: a cost of 0 is let through.
op_softfork_Free(x) ==
    IF ListLenIs(x, 0) THEN Raised("softfork takes at least 1 argument")
    ELSE IF IsPair(Item(x, 1)) THEN Raised("softfork requires int args")
    ELSE IF Ints(x)[1] < 0 THEN Raised("cost must be > 0")
    ELSE Returned(Ints(x)[1], False)

\* the operand is the cost
op_softfork(x) ==
    IF ListLenIs(x, 0) THEN Raised("softfork takes at least 1 argument")
    ELSE IF IsPair(Item(x, 1)) THEN Raised("softfork requires int args")
    ELSE IF Ints(x)[1] < 1 THEN Raised("cost must be > 0")
    ELSE Returned(Ints(x)[1], False)
=============================================================================
