-------------------------- MODULE RunProgramProofs --------------------------
(***************************************************************************)
(* Proofs about RunProgram, for every program, environment, limit on the   *)
(* cost and set of operators, whatever they return or raise: the stacks    *)
(* stay in step, work costs something, and what comes out is what the      *)
(* recursive definition of RunProgramMeaning says.                         *)
(***************************************************************************)
EXTENDS RunProgramMeaning, DataFacts, FiniteSetTheorems

IsSeq(s) == s \in Seq(Range(s))

\* The first m operations have under them the values they need (Aligned), and
\* none of them is an eval_op whose turn is now.
Settled(ops, values, m) ==
    \A i \in 1..m :
        LET its == values[Pending(ops, i)]
        IN  /\ ops[i].f = "apply_op" => IsAtom(its)
            /\ ops[i].f = "swap_op" =>
                 IsPair(its) /\ i > 2 /\ ops[i-1].f = "eval_op" /\ ops[i-2].f = "cons_op"
            /\ ops[i].f = "eval_op" => i < m /\ ops[i+1].f = "swap_op"

\* The stacks in the middle of an operation: one value has still to be pushed.
Between(ops, values) ==
    /\ IsSeq(ops) /\ IsSeq(values)
    /\ Len(values) = Pending(ops, Len(ops))
    /\ Settled(ops, values, Len(ops))

\* The stacks when the main loop takes its next operation, which may be to
\* evaluate the pair on top.
EvalIsNext(ops, values) ==
    /\ Len(ops) > 0 /\ ops[Len(ops)].f = "eval_op"
    /\ Settled(ops, values, Len(ops) - 1)
    /\ IsPair(values[Len(values)])

Ready(ops, values) ==
    /\ IsSeq(ops) /\ IsSeq(values)
    /\ Len(values) = Pending(ops, Len(ops)) + 1
    /\ Settled(ops, values, Len(ops)) \/ EvalIsNext(ops, values)

\* The inductive invariant.
IInv == /\ pc \in {"loop", "operands", "done", "raised"}
        /\ pc \in {"loop", "done"} => Ready(op_stack, value_stack)
        /\ pc = "operands" => Between(op_stack, value_stack)
        /\ pc = "done" => op_stack = <<>>

-----------------------------------------------------------------------------
(***************************************************************************)
(* Counting the operations that pop a value                                *)
(***************************************************************************)
PendingOps(ops, i) == { j \in 1..i : ops[j].f \in {"cons_op", "apply_op"} }

LEMMA PendingFinite ==
    ASSUME NEW ops, NEW i \in Nat
    PROVE  IsFiniteSet(PendingOps(ops, i)) /\ Pending(ops, i) \in 0..i
  <1>1. IsFiniteSet(1..i) /\ Cardinality(1..i) = i
    BY FS_Interval
  <1>2. PendingOps(ops, i) \subseteq 1..i
    BY DEF PendingOps
  <1>3. /\ IsFiniteSet(PendingOps(ops, i))
        /\ Cardinality(PendingOps(ops, i)) <= i
    BY <1>1, <1>2, FS_Subset
  <1>4. Cardinality(PendingOps(ops, i)) \in Nat
    BY <1>3, FS_CardinalityType
  <1> QED  BY <1>3, <1>4 DEF Pending, PendingOps

LEMMA PendingStep ==
    ASSUME NEW ops, NEW i \in Nat
    PROVE  Pending(ops, i + 1) =
             Pending(ops, i) + (IF ops[i+1].f \in {"cons_op", "apply_op"} THEN 1 ELSE 0)
  <1>1. IsFiniteSet(PendingOps(ops, i)) /\ Pending(ops, i) \in Nat
    BY PendingFinite
  <1>2. CASE ops[i+1].f \in {"cons_op", "apply_op"}
    <2>1. PendingOps(ops, i + 1) = PendingOps(ops, i) \cup {i + 1}
      BY <1>2 DEF PendingOps
    <2>2. i + 1 \notin PendingOps(ops, i)
      BY DEF PendingOps
    <2>3. Cardinality(PendingOps(ops, i + 1)) = Cardinality(PendingOps(ops, i)) + 1
      BY <1>1, <2>1, <2>2, FS_AddElement
    <2> QED  BY <1>2, <2>3 DEF Pending, PendingOps
  <1>3. CASE ops[i+1].f \notin {"cons_op", "apply_op"}
    <2>1. PendingOps(ops, i + 1) = PendingOps(ops, i)
      BY <1>3 DEF PendingOps
    <2>2. Pending(ops, i + 1) = Pending(ops, i)
      BY <2>1 DEF Pending, PendingOps
    <2> QED  BY <1>1, <1>3, <2>2
  <1> QED  BY <1>2, <1>3

\* It grows with i, and depends on nothing above i.
LEMMA PendingGrows ==
    ASSUME NEW ops, NEW m \in Nat, NEW i \in 0..m
    PROVE  Pending(ops, i) <= Pending(ops, m)
  <1>1. PendingOps(ops, i) \subseteq PendingOps(ops, m)
    BY DEF PendingOps
  <1>2. IsFiniteSet(PendingOps(ops, m))
    BY PendingFinite
  <1>3. Cardinality(PendingOps(ops, i)) <= Cardinality(PendingOps(ops, m))
    BY <1>1, <1>2, FS_Subset
  <1> QED  BY <1>3 DEF Pending, PendingOps

LEMMA PendingLocal ==
    ASSUME NEW ops, NEW ops2, NEW i \in Nat, \A j \in 1..i : ops2[j] = ops[j]
    PROVE  Pending(ops2, i) = Pending(ops, i)
  BY DEF Pending

\* What is settled stays so while the stacks change above it.
LEMMA SettledLocal ==
    ASSUME NEW ops, NEW ops2, NEW values, NEW values2, NEW m \in Nat,
           Settled(ops, values, m),
           \A i \in 1..m : ops2[i] = ops[i],
           \A k \in 1..Pending(ops, m) : values2[k] = values[k]
    PROVE  Settled(ops2, values2, m)
  <1> SUFFICES ASSUME NEW i \in 1..m
               PROVE  LET its == values2[Pending(ops2, i)]
                      IN  /\ ops2[i].f = "apply_op" => IsAtom(its)
                          /\ ops2[i].f = "swap_op" =>
                               IsPair(its) /\ i > 2 /\ ops2[i-1].f = "eval_op"
                                           /\ ops2[i-2].f = "cons_op"
                          /\ ops2[i].f = "eval_op" => i < m /\ ops2[i+1].f = "swap_op"
    BY DEF Settled
  <1>1. Pending(ops2, i) = Pending(ops, i)
    BY PendingLocal
  <1>2. Pending(ops, i) <= Pending(ops, m) /\ Pending(ops, i) \in Nat /\ Pending(ops, m) \in Nat
    BY PendingGrows, PendingFinite
  <1>3. ASSUME ops[i].f \in {"apply_op", "swap_op"}
        PROVE  values2[Pending(ops2, i)] = values[Pending(ops, i)]
    <2>1. CASE ops[i].f = "apply_op"
      <3>1. Pending(ops, i) = Pending(ops, i - 1) + 1 /\ Pending(ops, i - 1) \in Nat
        BY <2>1, PendingStep, PendingFinite, i - 1 \in Nat, i - 1 + 1 = i
      <3> QED  BY <1>1, <1>2, <3>1
    <2>2. CASE ops[i].f = "swap_op"
      <3>1. i - 2 \in 1..m /\ ops[i-2].f = "cons_op"
        BY <2>2 DEF Settled
      <3>2. Pending(ops, i - 2) = Pending(ops, i - 3) + 1 /\ Pending(ops, i - 3) \in Nat
        BY <3>1, PendingStep, PendingFinite, i - 3 \in Nat, i - 3 + 1 = i - 2
      <3>3. Pending(ops, i - 2) <= Pending(ops, i)
        BY <3>1, PendingGrows, i - 2 \in 0..i
      <3> QED  BY <1>1, <1>2, <3>2, <3>3
    <2> QED  BY <1>3, <2>1, <2>2
  <1>4. /\ ops2[i] = ops[i]
        /\ i > 2 => ops2[i-1] = ops[i-1] /\ ops2[i-2] = ops[i-2]
        /\ i < m => ops2[i+1] = ops[i+1]
    OBVIOUS
  <1> QED  BY <1>3, <1>4 DEF Settled

-----------------------------------------------------------------------------
(***************************************************************************)
(* What the pops and pushes of the code do to the stacks                   *)
(***************************************************************************)
\* Pushing the value that is still to be pushed ends an operation.
LEMMA PushValue ==
    ASSUME NEW ops, NEW values, NEW x, Between(ops, values)
    PROVE  Ready(ops, Append(values, x))
  <1> DEFINE v == Append(values, x)
  <1>1. /\ IsSeq(v) /\ Len(v) = Len(values) + 1
        /\ \A k \in 1..Len(values) : v[k] = values[k]
    BY AppendFacts DEF Between, IsSeq
  <1>2. Len(ops) \in Nat
    BY DEF Between, IsSeq
  <1> HIDE DEF v
  <1>3. Settled(ops, v, Len(ops))
    BY <1>1, <1>2, SettledLocal DEF Between
  <1> QED  BY <1>1, <1>3 DEF Between, Ready, v

\* ... and so does pushing a form with its environment and an eval_op for it.
LEMMA PushEval ==
    ASSUME NEW ops, NEW values, NEW x, IsPair(x), Between(ops, values)
    PROVE  Ready(Append(ops, Op("eval_op")), Append(values, x))
  <1> DEFINE o == Append(ops, Op("eval_op"))
             v == Append(values, x)
             n == Len(ops)
  <1>1. /\ IsSeq(v) /\ Len(v) = Len(values) + 1
        /\ \A k \in 1..Len(values) : v[k] = values[k]
        /\ v[Len(v)] = x
    BY AppendFacts DEF Between, IsSeq
  <1>2. /\ IsSeq(o) /\ Len(o) = n + 1 /\ n \in Nat
        /\ \A i \in 1..n : o[i] = ops[i]
        /\ o[n + 1].f = "eval_op"
    BY AppendFacts DEF Between, IsSeq, Op
  <1> HIDE DEF o, v, n
  <1>3. Settled(ops, values, n) /\ Len(values) = Pending(ops, n)
    BY DEF Between, n
  <1>4. Settled(o, v, n)
    BY <1>1, <1>2, <1>3, SettledLocal
  <1>5. Pending(o, n + 1) = Pending(o, n) /\ Pending(o, n) = Pending(ops, n)
    <2>1. Pending(o, n) \in Nat
      BY <1>2, PendingFinite
    <2>2. Pending(o, n + 1) = Pending(o, n)
      BY <1>2, <2>1, PendingStep, SMTT(30)
    <2>3. Pending(o, n) = Pending(ops, n)
      BY <1>2, PendingLocal
    <2> QED  BY <2>2, <2>3
  <1> QED  BY <1>1, <1>2, <1>3, <1>4, <1>5 DEF Ready, EvalIsNext, o, v

\* Pushing an operator and its apply_op.
LEMMA PushApply ==
    ASSUME NEW ops, NEW values, NEW x, IsAtom(x), Between(ops, values)
    PROVE  Between(Append(ops, Op("apply_op")), Append(values, x))
  <1> DEFINE o == Append(ops, Op("apply_op"))
             v == Append(values, x)
             n == Len(ops)
  <1>1. /\ IsSeq(v) /\ Len(v) = Len(values) + 1
        /\ \A k \in 1..Len(values) : v[k] = values[k]
        /\ v[Len(v)] = x
    BY AppendFacts DEF Between, IsSeq
  <1>2. /\ IsSeq(o) /\ Len(o) = n + 1 /\ n \in Nat
        /\ \A i \in 1..n : o[i] = ops[i]
        /\ o[n + 1].f = "apply_op"
    BY AppendFacts DEF Between, IsSeq, Op
  <1> HIDE DEF o, v, n
  <1>3. Settled(ops, values, n) /\ Len(values) = Pending(ops, n)
    BY DEF Between, n
  <1>4. Settled(o, v, n)
    BY <1>1, <1>2, <1>3, SettledLocal
  <1>5. Pending(o, n + 1) = Pending(o, n) + 1 /\ Pending(o, n) = Pending(ops, n)
    <2>1. Pending(o, n) \in Nat
      BY <1>2, PendingFinite
    <2>2. Pending(o, n + 1) = Pending(o, n) + 1
      BY <1>2, <2>1, PendingStep
    <2>3. Pending(o, n) = Pending(ops, n)
      BY <1>2, PendingLocal
    <2> QED  BY <2>2, <2>3
  <1>6. Settled(o, v, n + 1)
    <2>1. v[Pending(o, n + 1)] = x
      BY <1>1, <1>3, <1>5
    <2> QED  BY <1>2, <1>4, <2>1 DEF Settled
  <1> QED  BY <1>1, <1>2, <1>3, <1>5, <1>6 DEF Between, o, v

\* Pushing the operations of an operand, and the pair for its eval_op.
LEMMA PushOperand ==
    ASSUME NEW ops, NEW values, NEW x, IsPair(x), Between(ops, values)
    PROVE  Between(ops \o <<Op("cons_op"), Op("eval_op"), Op("swap_op")>>, Append(values, x))
  <1> DEFINE o1 == Append(ops, Op("cons_op"))
             o2 == Append(o1, Op("eval_op"))
             o  == Append(o2, Op("swap_op"))
             v  == Append(values, x)
             n  == Len(ops)
  <1>1. /\ IsSeq(v) /\ Len(v) = Len(values) + 1
        /\ \A k \in 1..Len(values) : v[k] = values[k]
        /\ v[Len(v)] = x
    BY AppendFacts DEF Between, IsSeq
  <1>2. /\ IsSeq(o) /\ Len(o) = n + 3 /\ n \in Nat
        /\ \A i \in 1..n : o[i] = ops[i]
        /\ o[n + 1].f = "cons_op" /\ o[n + 2].f = "eval_op" /\ o[n + 3].f = "swap_op"
    <2>1. /\ IsSeq(o1) /\ Len(o1) = n + 1 /\ n \in Nat
          /\ \A i \in 1..n : o1[i] = ops[i]
          /\ o1[n + 1] = Op("cons_op")
      BY AppendFacts DEF Between, IsSeq
    <2> HIDE DEF o1
    <2>2. /\ IsSeq(o2) /\ Len(o2) = n + 2
          /\ \A i \in 1..(n + 1) : o2[i] = o1[i]
          /\ o2[n + 2] = Op("eval_op")
      BY <2>1, AppendFacts DEF IsSeq
    <2> HIDE DEF o2
    <2>3. /\ IsSeq(o) /\ Len(o) = n + 3
          /\ \A i \in 1..(n + 2) : o[i] = o2[i]
          /\ o[n + 3] = Op("swap_op")
      BY <2>2, <2>1, AppendFacts DEF IsSeq
    <2> HIDE DEF o
    <2> QED  BY <2>1, <2>2, <2>3 DEF Op
  <1>3. o = ops \o <<Op("cons_op"), Op("eval_op"), Op("swap_op")>>
    BY Append3 DEF Between, IsSeq
  <1> HIDE DEF o1, o2, o, v, n
  <1>4. Settled(ops, values, n) /\ Len(values) = Pending(ops, n)
    BY DEF Between, n
  <1>5. Settled(o, v, n)
    BY <1>1, <1>2, <1>4, SettledLocal
  <1>6. Pending(o, n) = Pending(ops, n) /\ Pending(o, n) \in Nat
    BY <1>2, PendingLocal, PendingFinite
  <1>7. /\ Pending(o, n + 1) = Pending(o, n) + 1
        /\ Pending(o, n + 2) = Pending(o, n) + 1
        /\ Pending(o, n + 3) = Pending(o, n) + 1
    <2>1. Pending(o, n + 1) = Pending(o, n) + 1
      BY <1>2, PendingStep
    <2>2. Pending(o, n + 2) = Pending(o, n + 1)
      BY <1>2, <1>6, <2>1, PendingStep, n + 1 \in Nat, n + 1 + 1 = n + 2
    <2>3. Pending(o, n + 3) = Pending(o, n + 2)
      <3> DEFINE k == n + 2
      <3>1. k \in Nat /\ k + 1 = n + 3
        BY <1>2
      <3>2. Pending(o, k) \in Nat
        BY <3>1, PendingFinite
      <3>3. Pending(o, k + 1) = Pending(o, k) + (IF o[k + 1].f \in {"cons_op", "apply_op"} THEN 1 ELSE 0)
        BY <3>1, PendingStep
      <3> HIDE DEF k
      <3>4. o[k + 1].f = "swap_op"
        BY <1>2, <3>1
      <3>5. Pending(o, k + 1) = Pending(o, k)
        BY <3>2, <3>3, <3>4
      <3> QED  BY <3>1, <3>5 DEF k
    <2> QED  BY <2>1, <2>2, <2>3
  <1>8. Settled(o, v, n + 3)
    <2>1. v[Pending(o, n + 3)] = x
      BY <1>1, <1>4, <1>6, <1>7
    <2>2. ASSUME NEW i \in 1..(n + 3)
          PROVE  i \in 1..n \/ i = n + 1 \/ i = n + 2 \/ i = n + 3
      BY <1>2
    <2> QED  BY <1>2, <1>5, <2>1, <2>2 DEF Settled
  <1>9. Between(o, v)
    <2>1. Len(v) = Pending(o, Len(o))
      BY <1>1, <1>2, <1>4, <1>6, <1>7
    <2>2. Settled(o, v, Len(o))
      BY <1>2, <1>8
    <2> QED  BY <1>1, <1>2, <2>1, <2>2 DEF Between
  <1> QED  BY <1>3, <1>9 DEF v

\* A callable of pre_eval_f asks for nothing and leaves everything.
LEMMA PushContext ==
    ASSUME NEW ops, NEW values, NEW form, NEW e, Between(ops, values)
    PROVE  Between(Append(ops, ContextOp(form, e)), values)
  <1> DEFINE o == Append(ops, ContextOp(form, e))
             n == Len(ops)
  <1>1. /\ IsSeq(o) /\ Len(o) = n + 1 /\ n \in Nat
        /\ \A i \in 1..n : o[i] = ops[i]
        /\ o[n + 1].f = "context_op"
    BY AppendFacts DEF Between, IsSeq, ContextOp
  <1> HIDE DEF o, n
  <1>2. Settled(ops, values, n) /\ Len(values) = Pending(ops, n)
    BY DEF Between, n
  <1>3. Settled(o, values, n)
    BY <1>1, <1>2, SettledLocal
  <1>4. Pending(o, n + 1) = Pending(ops, n)
    <2>1. Pending(o, n) \in Nat
      BY <1>1, PendingFinite
    <2>2. Pending(o, n + 1) = Pending(o, n)
      BY <1>1, <2>1, PendingStep, SMTT(30)
    <2> QED  BY <1>1, <2>2, PendingLocal
  <1>5. Settled(o, values, n + 1)
    BY <1>1, <1>3 DEF Settled
  <1>6. IsSeq(values)
    BY DEF Between
  <1>7. Between(o, values)
    BY <1>1, <1>2, <1>4, <1>5, <1>6 DEF Between
  <1> QED  BY <1>7 DEF o

\* What is settled below an operation that is no swap_op is settled by itself.
LEMMA SettledDown ==
    ASSUME NEW ops, NEW values, NEW m \in Nat, NEW k \in 0..(m - 1),
           Settled(ops, values, m), ops[k + 1].f # "swap_op"
    PROVE  Settled(ops, values, k)
  <1> SUFFICES ASSUME NEW i \in 1..k
               PROVE  LET its == values[Pending(ops, i)]
                      IN  /\ ops[i].f = "apply_op" => IsAtom(its)
                          /\ ops[i].f = "swap_op" =>
                               IsPair(its) /\ i > 2 /\ ops[i-1].f = "eval_op"
                                           /\ ops[i-2].f = "cons_op"
                          /\ ops[i].f = "eval_op" => i < k /\ ops[i+1].f = "swap_op"
    BY DEF Settled
  <1>1. i \in 1..m
    OBVIOUS
  <1>2. ops[i].f = "eval_op" => i # k
    BY <1>1 DEF Settled
  <1> QED  BY <1>1, <1>2 DEF Settled

LEMMA PoppedFacts ==
    ASSUME NEW s, IsSeq(s), NEW n \in 1..2, Len(s) >= n
    PROVE  /\ IsSeq(Popped(s, n)) /\ Len(Popped(s, n)) = Len(s) - n
           /\ \A i \in 1..(Len(s) - n) : Popped(s, n)[i] = s[i]
  <1>1. s \in Seq(Range(s))
    BY DEF IsSeq
  <1>2. Len(s) - n \in 0..Len(s)
    BY <1>1
  <1> QED  BY <1>1, <1>2, PrefixFacts DEF Popped, IsSeq

\* The top operation is taken off: what is known of the stacks then.
LEMMA PopOp ==
    ASSUME NEW ops, IsSeq(ops), ops # <<>>
    PROVE  LET o == Popped(ops, 1)
               n == Len(ops)
           IN  /\ n \in Nat \ {0} /\ IsSeq(o) /\ Len(o) = n - 1
               /\ \A i \in 1..(n - 1) : o[i] = ops[i]
               /\ Pending(o, n - 1) = Pending(ops, n - 1)
               /\ Pending(ops, n - 1) \in Nat
               /\ Pending(ops, n) =
                    Pending(ops, n - 1) + (IF ops[n].f \in {"cons_op", "apply_op"} THEN 1 ELSE 0)
  <1> DEFINE o == Popped(ops, 1)
             n == Len(ops)
             k == n - 1
  <1>1. n \in Nat \ {0} /\ k \in Nat /\ k + 1 = n
    BY DEF IsSeq
  <1>2. IsSeq(o) /\ Len(o) = k /\ \A i \in 1..k : o[i] = ops[i]
    <2>1. o = SubSeq(ops, 1, k)
      BY DEF Popped
    <2>2. ops \in Seq(Range(ops)) /\ k \in 0..Len(ops)
      BY <1>1 DEF IsSeq
    <2> HIDE DEF k
    <2>3. /\ SubSeq(ops, 1, k) \in Seq(Range(SubSeq(ops, 1, k)))
          /\ Len(SubSeq(ops, 1, k)) = k
          /\ \A i \in 1..k : SubSeq(ops, 1, k)[i] = ops[i]
      BY <2>2, PrefixFacts
    <2> HIDE DEF o
    <2> QED  BY <2>1, <2>3 DEF IsSeq
  <1> HIDE DEF o, n, k
  <1>3. Pending(o, k) = Pending(ops, k) /\ Pending(ops, k) \in Nat
    BY <1>1, <1>2, PendingLocal, PendingFinite
  <1>4. Pending(ops, k + 1) =
          Pending(ops, k) + (IF ops[k + 1].f \in {"cons_op", "apply_op"} THEN 1 ELSE 0)
    BY <1>1, PendingStep
  <1>5. Pending(ops, n) =
          Pending(ops, k) + (IF ops[n].f \in {"cons_op", "apply_op"} THEN 1 ELSE 0)
    BY <1>1, <1>4
  <1> QED  BY <1>1, <1>2, <1>3, <1>5 DEF o, n, k

LEMMA PopEval ==
    ASSUME NEW ops, NEW values, Ready(ops, values), ops # <<>>, ops[Len(ops)].f = "eval_op"
    PROVE  /\ Between(Popped(ops, 1), Popped(values, 1))
           /\ IsPair(FromTop(values, 1))
  <1> DEFINE o == Popped(ops, 1)
             v == Popped(values, 1)
             n == Len(ops)
  <1>1. /\ n \in Nat \ {0} /\ IsSeq(o) /\ Len(o) = n - 1
        /\ \A i \in 1..(n - 1) : o[i] = ops[i]
        /\ Pending(o, n - 1) = Pending(ops, n - 1)
        /\ Pending(ops, n - 1) \in Nat
        /\ Pending(ops, n) = Pending(ops, n - 1)
    <2>1. IsSeq(ops)
      BY DEF Ready
    <2>2. /\ n \in Nat \ {0} /\ IsSeq(o) /\ Len(o) = n - 1
          /\ \A i \in 1..(n - 1) : o[i] = ops[i]
          /\ Pending(o, n - 1) = Pending(ops, n - 1)
          /\ Pending(ops, n - 1) \in Nat
          /\ Pending(ops, n) =
               Pending(ops, n - 1) + (IF ops[n].f \in {"cons_op", "apply_op"} THEN 1 ELSE 0)
      BY <2>1, PopOp
    <2> HIDE DEF o
    <2> QED  BY <2>2
  <1>2. Len(values) = Pending(ops, n) + 1 /\ IsSeq(values)
    BY DEF Ready
  <1>3. /\ IsSeq(v) /\ Len(v) = Len(values) - 1
        /\ \A j \in 1..(Len(values) - 1) : v[j] = values[j]
    <2>1. 1 \in 1..2 /\ Len(values) >= 1
      BY <1>1, <1>2
    <2> QED  BY <1>2, <2>1, PoppedFacts
  <1>4. EvalIsNext(ops, values)
    <2>1. ~Settled(ops, values, n)
      BY <1>1 DEF Settled
    <2> QED  BY <2>1 DEF Ready
  <1> HIDE DEF o, v, n
  <1>5. Settled(ops, values, n - 1) /\ IsPair(values[Len(values)])
    BY <1>4 DEF EvalIsNext, n
  <1>6. Settled(o, v, n - 1)
    <2>1. n - 1 \in Nat /\ Len(values) - 1 = Pending(ops, n - 1)
      BY <1>1, <1>2
    <2>2. \A j \in 1..Pending(ops, n - 1) : v[j] = values[j]
      BY <1>3, <2>1
    <2> QED  BY <1>1, <1>5, <2>1, <2>2, SettledLocal
  <1>7. Between(o, v)
    BY <1>1, <1>2, <1>3, <1>6 DEF Between
  <1>8. FromTop(values, 1) = values[Len(values)]
    BY <1>1, <1>2 DEF FromTop
  <1> QED  BY <1>5, <1>7, <1>8 DEF o, v

\* cons_op and apply_op pop two values; an apply_op finds an atom below the
\* operands.
LEMMA PopTwo ==
    ASSUME NEW ops, NEW values, Ready(ops, values), ops # <<>>,
           ops[Len(ops)].f \in {"cons_op", "apply_op"}
    PROVE  /\ Between(Popped(ops, 1), Popped(values, 2))
           /\ ops[Len(ops)].f = "apply_op" => IsAtom(FromTop(values, 2))
  <1> DEFINE o == Popped(ops, 1)
             v == Popped(values, 2)
             n == Len(ops)
  <1>1. /\ n \in Nat \ {0} /\ IsSeq(o) /\ Len(o) = n - 1
        /\ \A i \in 1..(n - 1) : o[i] = ops[i]
        /\ Pending(o, n - 1) = Pending(ops, n - 1)
        /\ Pending(ops, n - 1) \in Nat
        /\ Pending(ops, n) = Pending(ops, n - 1) + 1
    <2>1. IsSeq(ops)
      BY DEF Ready
    <2>2. /\ n \in Nat \ {0} /\ IsSeq(o) /\ Len(o) = n - 1
          /\ \A i \in 1..(n - 1) : o[i] = ops[i]
          /\ Pending(o, n - 1) = Pending(ops, n - 1)
          /\ Pending(ops, n - 1) \in Nat
          /\ Pending(ops, n) =
               Pending(ops, n - 1) + (IF ops[n].f \in {"cons_op", "apply_op"} THEN 1 ELSE 0)
      BY <2>1, PopOp
    <2> HIDE DEF o
    <2> QED  BY <2>2
  <1>2. Len(values) = Pending(ops, n) + 1 /\ IsSeq(values)
    BY DEF Ready
  <1>3. /\ IsSeq(v) /\ Len(v) = Len(values) - 2
        /\ \A j \in 1..(Len(values) - 2) : v[j] = values[j]
    BY <1>1, <1>2, PoppedFacts
  <1>4. Settled(ops, values, n)
    BY DEF Ready, EvalIsNext
  <1>5. ops[n].f \in {"cons_op", "apply_op"}
    OBVIOUS
  <1> HIDE DEF o, v, n
  <1>6. Settled(ops, values, n - 1)
    BY <1>1, <1>4, <1>5, SettledDown, n - 1 \in 0..(n - 1), n - 1 + 1 = n
  <1>7. Settled(o, v, n - 1)
    BY <1>1, <1>2, <1>3, <1>6, SettledLocal
  <1>8. Between(o, v)
    BY <1>1, <1>2, <1>3, <1>7 DEF Between
  <1>9. ops[n].f = "apply_op" => IsAtom(FromTop(values, 2))
    BY <1>1, <1>2, <1>4 DEF FromTop, Settled
  <1> QED  BY <1>8, <1>9 DEF o, v, n

LEMMA PopContext ==
    ASSUME NEW ops, NEW values, Ready(ops, values), ops # <<>>,
           ops[Len(ops)].f = "context_op"
    PROVE  Ready(Popped(ops, 1), values)
  <1> DEFINE o == Popped(ops, 1)
             n == Len(ops)
  <1>1. /\ n \in Nat \ {0} /\ IsSeq(o) /\ Len(o) = n - 1
        /\ \A i \in 1..(n - 1) : o[i] = ops[i]
        /\ Pending(o, n - 1) = Pending(ops, n - 1)
        /\ Pending(ops, n) = Pending(ops, n - 1)
    <2>1. IsSeq(ops)
      BY DEF Ready
    <2>2. /\ n \in Nat \ {0} /\ IsSeq(o) /\ Len(o) = n - 1
          /\ \A i \in 1..(n - 1) : o[i] = ops[i]
          /\ Pending(o, n - 1) = Pending(ops, n - 1)
          /\ Pending(ops, n - 1) \in Nat
          /\ Pending(ops, n) =
               Pending(ops, n - 1) + (IF ops[n].f \in {"cons_op", "apply_op"} THEN 1 ELSE 0)
      BY <2>1, PopOp
    <2> HIDE DEF o
    <2> QED  BY <2>2
  <1>2. Len(values) = Pending(ops, n) + 1 /\ IsSeq(values)
    BY DEF Ready
  <1>3. Settled(ops, values, n) /\ ops[n].f # "swap_op"
    BY DEF Ready, EvalIsNext
  <1> HIDE DEF o, n
  <1>4. Settled(ops, values, n - 1)
    BY <1>1, <1>3, SettledDown, n - 1 \in 0..(n - 1), n - 1 + 1 = n
  <1>5. Settled(o, values, n - 1)
    BY <1>1, <1>4, SettledLocal
  <1>6. Ready(o, values)
    BY <1>1, <1>2, <1>5 DEF Ready
  <1> QED  BY <1>6 DEF o

\* swap_op brings the form and environment of an operand to the top.
LEMMA Swap ==
    ASSUME NEW ops, NEW values, Ready(ops, values), ops # <<>>,
           ops[Len(ops)].f = "swap_op"
    PROVE  Ready(Popped(ops, 1),
                 Popped(values, 2) \o <<FromTop(values, 1), FromTop(values, 2)>>)
  <1> DEFINE o == Popped(ops, 1)
             p == Popped(values, 2)
             v == Append(Append(p, FromTop(values, 1)), FromTop(values, 2))
             n == Len(ops)
             m == Len(values)
  <1>1. /\ n \in Nat \ {0} /\ IsSeq(o) /\ Len(o) = n - 1
        /\ \A i \in 1..(n - 1) : o[i] = ops[i]
        /\ Pending(o, n - 1) = Pending(ops, n - 1)
        /\ Pending(ops, n - 1) \in Nat
        /\ Pending(ops, n) = Pending(ops, n - 1)
    <2>1. IsSeq(ops)
      BY DEF Ready
    <2>2. /\ n \in Nat \ {0} /\ IsSeq(o) /\ Len(o) = n - 1
          /\ \A i \in 1..(n - 1) : o[i] = ops[i]
          /\ Pending(o, n - 1) = Pending(ops, n - 1)
          /\ Pending(ops, n - 1) \in Nat
          /\ Pending(ops, n) =
               Pending(ops, n - 1) + (IF ops[n].f \in {"cons_op", "apply_op"} THEN 1 ELSE 0)
      BY <2>1, PopOp
    <2> HIDE DEF o
    <2> QED  BY <2>2
  <1>2. m = Pending(ops, n) + 1 /\ IsSeq(values)
    BY DEF Ready
  <1>3. Settled(ops, values, n) /\ ops[n].f = "swap_op"
    BY DEF Ready, EvalIsNext
  <1>4. IsPair(FromTop(values, 2))
    BY <1>1, <1>2, <1>3 DEF Settled, FromTop
  <1> HIDE DEF n
  <1>5. n > 2 /\ ops[n - 1].f = "eval_op" /\ ops[n - 2].f = "cons_op"
    BY <1>1, <1>3 DEF Settled
  <1>6. Pending(ops, n - 2) = m - 1 /\ Pending(ops, n - 3) = m - 2 /\ m - 2 \in Nat
    <2>1. n - 3 \in Nat /\ n - 2 \in Nat /\ n - 3 + 1 = n - 2 /\ n - 2 + 1 = n - 1
      BY <1>1, <1>5
    <2>2. Pending(ops, n - 3) \in Nat /\ Pending(ops, n - 2) \in Nat
      BY <2>1, PendingFinite
    <2>3. Pending(ops, n - 3 + 1) = Pending(ops, n - 3)
            + (IF ops[n - 3 + 1].f \in {"cons_op", "apply_op"} THEN 1 ELSE 0)
      BY <2>1, PendingStep
    <2>4. Pending(ops, n - 2 + 1) = Pending(ops, n - 2)
            + (IF ops[n - 2 + 1].f \in {"cons_op", "apply_op"} THEN 1 ELSE 0)
      BY <2>1, PendingStep
    <2>5. Pending(ops, n - 2) = Pending(ops, n - 3) + 1
      BY <2>1, <2>3, <1>5
    <2>6. Pending(ops, n - 1) = Pending(ops, n - 2)
      BY <2>1, <2>2, <2>4, <1>5
    <2> QED  BY <1>1, <1>2, <2>2, <2>5, <2>6
  <1>7. /\ IsSeq(p) /\ Len(p) = m - 2
        /\ \A j \in 1..(m - 2) : p[j] = values[j]
    <2>1. 2 \in 1..2 /\ Len(values) >= 2
      BY <1>2, <1>6
    <2> QED  BY <1>2, <2>1, PoppedFacts
  <1> HIDE DEF p
  <1>8. /\ v = p \o <<FromTop(values, 1), FromTop(values, 2)>>
        /\ IsSeq(v) /\ Len(v) = m
        /\ \A j \in 1..(m - 2) : v[j] = values[j]
        /\ v[m] = FromTop(values, 2)
    <2> DEFINE w == Append(p, FromTop(values, 1))
    <2>1. IsSeq(w) /\ Len(w) = m - 1 /\ \A j \in 1..(m - 2) : w[j] = p[j]
      BY <1>6, <1>7, AppendFacts DEF IsSeq
    <2>2. v = p \o <<FromTop(values, 1), FromTop(values, 2)>>
      <3>1. p \in Seq(Range(p))
        BY <1>7 DEF IsSeq
      <3>2. \A a, b : p \o <<a, b>> = Append(Append(p, a), b)
        BY <3>1, Append2
      <3> QED  BY <3>2
    <2> HIDE DEF w
    <2> DEFINE u == Append(w, FromTop(values, 2))
    <2>3. IsSeq(u) /\ Len(u) = m /\ u[m] = FromTop(values, 2) /\ \A j \in 1..(m - 1) : u[j] = w[j]
      BY <1>6, <2>1, AppendFacts DEF IsSeq
    <2>4. u = v
      BY DEF w
    <2> HIDE DEF u, v
    <2>5. \A j \in 1..(m - 2) : j \in 1..(m - 1)
      BY <1>6
    <2> QED  BY <1>7, <2>1, <2>2, <2>3, <2>4, <2>5
  <1> HIDE DEF v, o, m
  <1>9. Settled(o, v, n - 3)
    <2>1. n - 3 \in Nat /\ n \in Nat /\ n - 3 \in 0..(n - 1) /\ n - 3 + 1 = n - 2
      BY <1>1, <1>5
    <2>2. Settled(ops, values, n - 3)
      BY <1>3, <1>5, <2>1, SettledDown
    <2>3. \A i \in 1..(n - 3) : o[i] = ops[i]
      BY <1>1, <1>5
    <2>4. \A j \in 1..Pending(ops, n - 3) : v[j] = values[j]
      BY <1>6, <1>8
    <2> QED  BY <2>1, <2>2, <2>3, <2>4, SettledLocal
  <1>10. Settled(o, v, n - 2)
    <2>1. o[n - 2].f = "cons_op"
      BY <1>1, <1>5
    <2>2. \A i \in 1..(n - 2) : i \in 1..(n - 3) \/ i = n - 2
      BY <1>1, <1>5
    <2>3. \A i \in 1..(n - 3) : i < n - 3 => i < n - 2
      BY <1>1, <1>5
    <2> QED  BY <1>9, <2>1, <2>2, <2>3 DEF Settled
  <1>11. EvalIsNext(o, v)
    <2>1. o[n - 1].f = "eval_op" /\ n - 1 > 0 /\ n - 1 - 1 = n - 2
      BY <1>1, <1>5
    <2> QED  BY <1>1, <1>4, <1>8, <1>10, <2>1 DEF EvalIsNext
  <1>12. Ready(o, v)
    BY <1>1, <1>2, <1>8, <1>11 DEF Ready, m
  <1> QED  BY <1>8, <1>12 DEF o, p

-----------------------------------------------------------------------------
(***************************************************************************)
(* The invariant                                                           *)
(***************************************************************************)
LEMMA InitIInv == Init => IInv
  <1> SUFFICES ASSUME Init PROVE IInv
    OBVIOUS
  <1> DEFINE v == <<Pair(program, args)>>
             o == <<Op("eval_op")>>
  <1>1. op_stack = o /\ value_stack = v /\ pc = "loop"
    BY DEF Init
  <1>2. IsSeq(<<>>) /\ Len(<<>>) = 0
    BY DEF IsSeq
  <1>3. Between(<<>>, <<>>)
    <2>1. Pending(<<>>, 0) = 0
      BY PendingFinite
    <2> QED  BY <1>2, <2>1 DEF Between, Settled
  <1>4. IsPair(Pair(program, args))
    BY DEF IsPair, Pair
  <1>5. o = Append(<<>>, Op("eval_op")) /\ v = Append(<<>>, Pair(program, args))
    OBVIOUS
  <1>6. Ready(o, v)
    BY <1>3, <1>4, <1>5, PushEval
  <1> HIDE DEF o, v
  <1> QED  BY <1>1, <1>6 DEF IInv

\* What an operation gives back and how it ends: the invariant holds if the
\* stacks that it returns are ready for the next one.
LEMMA ReturnKeepsIInv ==
    ASSUME NEW c, NEW ops, NEW values, Ready(ops, values), Return(c, ops, values)
    PROVE  IInv'
  <1>1. op_stack' = ops /\ value_stack' = values /\ pc' \in {"loop", "raised"}
    BY DEF Return, Charge
  <1> QED  BY <1>1 DEF IInv

LEMMA RaiseKeepsIInv ==
    ASSUME NEW e, Raise(e)
    PROVE  IInv'
  BY DEF Raise, IInv

LEMMA DeliverKeepsIInv ==
    ASSUME NEW outcome, NEW ops, NEW values, Between(ops, values),
           Deliver(outcome, ops, values)
    PROVE  IInv'
  <1>1. CASE outcome.ok
    <2>1. Return(outcome.cost, ops, Append(values, outcome.value))
      BY <1>1 DEF Deliver
    <2>2. Ready(ops, Append(values, outcome.value))
      BY PushValue
    <2> QED  BY <2>1, <2>2, ReturnKeepsIInv
  <1>2. CASE ~outcome.ok
    BY <1>2, RaiseKeepsIInv DEF Deliver
  <1> QED  BY <1>1, <1>2

\* When the main loop takes an operation it is on top, and the stacks are ready.
LEMMA TopIs ==
    ASSUME IInv, NEW name, Doing(name)
    PROVE  /\ Ready(op_stack, value_stack) /\ op_stack # <<>>
           /\ op_stack[Len(op_stack)].f = name
  <1>1. pc = "loop" /\ op_stack # <<>> /\ FromTop(op_stack, 1).f = name
    BY DEF Doing
  <1>2. Ready(op_stack, value_stack)
    BY <1>1 DEF IInv
  <1>3. FromTop(op_stack, 1) = op_stack[Len(op_stack)]
    BY <1>2 DEF FromTop, Ready, IsSeq
  <1> QED  BY <1>1, <1>2, <1>3

\* eval_op takes its form and environment, and leaves the callable, if there
\* is one, under what follows.
LEMMA EvalBegins ==
    ASSUME IInv, Doing("eval_op")
    PROVE  Between(OpsBelow, ValuesBelow)
  <1>1. Ready(op_stack, value_stack) /\ op_stack # <<>>
        /\ op_stack[Len(op_stack)].f = "eval_op"
    BY TopIs
  <1>2. Between(Popped(op_stack, 1), Popped(value_stack, 1))
    BY <1>1, PopEval
  <1> DEFINE o == Popped(op_stack, 1)
             v == Popped(value_stack, 1)
             ctx == ContextOp(Form, FormEnv)
  <1>3. CASE Traced(Form, FormEnv)
    <2>1. OpsBelow = o \o <<ctx>> /\ ValuesBelow = v
      BY <1>3 DEF OpsBelow, ValuesBelow
    <2>2. Between(o, v)
      BY <1>2
    <2>3. Between(Append(o, ctx), v)
      <3> HIDE DEF o, v
      <3> QED  BY <2>2, PushContext
    <2>4. o \o <<ctx>> = Append(o, ctx)
      <3> HIDE DEF o, v, ctx
      <3> QED  BY <2>2, Append1 DEF Between, IsSeq
    <2> HIDE DEF o, v, ctx
    <2> QED  BY <2>1, <2>3, <2>4
  <1>4. CASE ~Traced(Form, FormEnv)
    <2>1. OpsBelow = o \o <<>> /\ ValuesBelow = v
      BY <1>4 DEF OpsBelow, ValuesBelow
    <2>2. Between(o, v)
      BY <1>2
    <2>3. o \o <<>> = o
      <3> HIDE DEF o, v
      <3> QED  BY <2>2, Append1 DEF Between, IsSeq
    <2> HIDE DEF o, v, ctx
    <2> QED  BY <2>1, <2>2, <2>3
  <1> QED  BY <1>3, <1>4

LEMMA EvalKeepsIInv ==
    ASSUME IInv, Eval
    PROVE  IInv'
  <1>1. CASE EvalPath
    <2>1. Between(OpsBelow, ValuesBelow)
      BY <1>1, EvalBegins DEF EvalPath
    <2>2. Deliver(traverse_path(Form.atom, FormEnv), OpsBelow, ValuesBelow)
      BY <1>1 DEF EvalPath
    <2> QED  BY <2>1, <2>2, DeliverKeepsIInv
  <1>2. CASE EvalBracketed
    <2> DEFINE x == First(First(Form))
               o == Append(OpsBelow, Op("apply_op"))
    <2>1. Between(OpsBelow, ValuesBelow)
      BY <1>2, EvalBegins DEF EvalBracketed
    <2>2. CASE IsAtom(x) /\ Nullp(Rest(First(Form)))
      <3> DEFINE v == Append(ValuesBelow, x)
      <3>1. Return(APPLY_COST, o, ValuesBelow \o <<x, Rest(Form)>>)
        BY <1>2, <2>2 DEF EvalBracketed
      <3>2. Between(o, v)
        BY <2>1, <2>2, PushApply
      <3>3. ValuesBelow \o <<x, Rest(Form)>> = Append(v, Rest(Form))
        BY <2>1, Append2 DEF Between, IsSeq
      <3> HIDE DEF o, v, x
      <3>4. Ready(o, Append(v, Rest(Form)))
        BY <3>2, PushValue
      <3> QED  BY <3>1, <3>3, <3>4, ReturnKeepsIInv
    <2>3. CASE ~(IsAtom(x) /\ Nullp(Rest(First(Form))))
      <3>1. Raise("in ((X)...) syntax X must be lone atom")
        BY <1>2, <2>3 DEF EvalBracketed
      <3> QED  BY <3>1, RaiseKeepsIInv
    <2> QED  BY <2>2, <2>3
  <1>3. CASE EvalQuote
    <2>1. Between(OpsBelow, ValuesBelow)
      BY <1>3, EvalBegins DEF EvalQuote, EvalsOperator
    <2>2. Return(QUOTE_COST, OpsBelow, Append(ValuesBelow, Rest(Form)))
      BY <1>3 DEF EvalQuote
    <2>3. Ready(OpsBelow, Append(ValuesBelow, Rest(Form)))
      BY <2>1, PushValue
    <2> QED  BY <2>2, <2>3, ReturnKeepsIInv
  <1>4. CASE EvalOperator
    <2> DEFINE o == Append(OpsBelow, Op("apply_op"))
               v == Append(ValuesBelow, First(Form))
    <2>1. Between(OpsBelow, ValuesBelow)
      BY <1>4, EvalBegins DEF EvalOperator, EvalsOperator
    <2>2. op_stack' = o /\ value_stack' = v /\ pc' = "operands" /\ IsAtom(First(Form))
      BY <1>4 DEF EvalOperator, EvalsOperator
    <2>3. Between(o, v)
      BY <2>1, <2>2, PushApply
    <2> HIDE DEF o, v
    <2> QED  BY <2>2, <2>3 DEF IInv
  <1>5. CASE EvalOperand
    <2>1. Between(op_stack, value_stack)
      BY <1>5 DEF EvalOperand, IInv
    <2>2. CASE IsPair(operands)
      <3> DEFINE o == op_stack \o <<Op("cons_op"), Op("eval_op"), Op("swap_op")>>
                 x == Pair(First(operands), env)
                 v == Append(value_stack, x)
      <3>1. op_stack' = o /\ value_stack' = v /\ pc' = "operands"
        BY <1>5, <2>2 DEF EvalOperand
      <3>2. IsPair(x)
        BY DEF IsPair, Pair
      <3>3. Between(o, v)
        <4> HIDE DEF x
        <4> QED  BY <2>1, <3>2, PushOperand
      <3> HIDE DEF o, v
      <3> QED  BY <3>1, <3>3 DEF IInv
    <2>3. CASE ~IsPair(operands)
      BY <1>5, <2>3, RaiseKeepsIInv DEF EvalOperand
    <2> QED  BY <2>2, <2>3
  <1>6. CASE EvalOperandsEnd
    <2>1. Between(op_stack, value_stack)
      BY <1>6 DEF EvalOperandsEnd, IInv
    <2>2. Ready(op_stack, Append(value_stack, Null))
      BY <2>1, PushValue
    <2>3. /\ op_stack' = op_stack /\ value_stack' = Append(value_stack, Null)
          /\ pc' \in {"loop", "raised"}
      BY <1>6 DEF EvalOperandsEnd, Charge
    <2> QED  BY <2>2, <2>3 DEF IInv
  <1> QED  BY <1>1, <1>2, <1>3, <1>4, <1>5, <1>6 DEF Eval

LEMMA NextIInv == IInv /\ [Next]_vars => IInv'
  <1> SUFFICES ASSUME IInv, [Next]_vars PROVE IInv'
    OBVIOUS
  <1>1. CASE Eval
    BY <1>1, EvalKeepsIInv
  <1>2. CASE SwapOp
    <2>1. Ready(Popped(op_stack, 1),
                Popped(value_stack, 2) \o <<FromTop(value_stack, 1), FromTop(value_stack, 2)>>)
      BY <1>2, TopIs, Swap DEF SwapOp
    <2>2. Return(0, Popped(op_stack, 1),
                 Popped(value_stack, 2) \o <<FromTop(value_stack, 1), FromTop(value_stack, 2)>>)
      BY <1>2 DEF SwapOp
    <2> QED  BY <2>1, <2>2, ReturnKeepsIInv
  <1>3. CASE ConsOp
    <2> DEFINE x == Pair(FromTop(value_stack, 1), FromTop(value_stack, 2))
    <2>1. Between(Popped(op_stack, 1), Popped(value_stack, 2))
      BY <1>3, TopIs, PopTwo DEF ConsOp
    <2>2. Return(0, Popped(op_stack, 1), Append(Popped(value_stack, 2), x))
      BY <1>3 DEF ConsOp
    <2>3. Ready(Popped(op_stack, 1), Append(Popped(value_stack, 2), x))
      BY <2>1, PushValue
    <2> QED  BY <2>2, <2>3, ReturnKeepsIInv
  <1>4. CASE InvokeContextOp
    <2>1. Ready(Popped(op_stack, 1), value_stack)
      BY <1>4, TopIs, PopContext DEF InvokeContextOp
    <2> QED  BY <1>4, <2>1, ReturnKeepsIInv DEF InvokeContextOp
  <1>5. CASE ApplyProgram
    <2> DEFINE x == Pair(Item(OperandList, 1), Item(OperandList, 2))
               o == Append(Popped(op_stack, 1), Op("eval_op"))
               v == Append(Popped(value_stack, 2), x)
    <2>1. Between(Popped(op_stack, 1), Popped(value_stack, 2))
      BY <1>5, TopIs, PopTwo DEF ApplyProgram
    <2>2. CASE ListLenIs(OperandList, 2)
      <3>1. Return(APPLY_COST, o, v)
        BY <1>5, <2>2 DEF ApplyProgram
      <3>2. IsPair(x)
        BY DEF IsPair, Pair
      <3>3. Ready(o, v)
        <4> HIDE DEF x
        <4> QED  BY <2>1, <3>2, PushEval
      <3> HIDE DEF o, v
      <3> QED  BY <3>1, <3>3, ReturnKeepsIInv
    <2>3. CASE ~ListLenIs(OperandList, 2)
      BY <1>5, <2>3, RaiseKeepsIInv DEF ApplyProgram
    <2> QED  BY <2>2, <2>3
  <1>6. CASE ApplyOperator
    <2>1. Between(Popped(op_stack, 1), Popped(value_stack, 2))
      BY <1>6, TopIs, PopTwo DEF ApplyOperator
    <2>2. Deliver(OperatorLookup(Operator.atom, OperandList),
                  Popped(op_stack, 1), Popped(value_stack, 2))
      BY <1>6 DEF ApplyOperator
    <2> QED  BY <2>1, <2>2, DeliverKeepsIInv
  <1>7. CASE EndRun
    BY <1>7 DEF EndRun, IInv
  <1>8. CASE UNCHANGED vars
    BY <1>8 DEF vars, IInv
  <1> QED  BY <1>1, <1>2, <1>3, <1>4, <1>5, <1>6, <1>7, <1>8 DEF Next, Terminated

\* IInv is an invariant.
THEOREM Invariance == Spec => []IInv
  BY InitIInv, NextIInv, PTL DEF Spec

-----------------------------------------------------------------------------
(***************************************************************************)
(* What follows from it                                                    *)
(***************************************************************************)
\* The two stacks of run_program stay in step: no pop finds an empty list, and
\* when op_stack is empty there is one value, the result.
THEOREM BalancedHolds == Spec => []Balanced
  <1>1. IInv => Balanced
    <2> SUFFICES ASSUME IInv, pc # "raised"
                 PROVE  Len(value_stack) = Pending(op_stack, Len(op_stack))
                                           + (IF pc = "operands" THEN 0 ELSE 1)
      BY DEF Balanced
    <2>1. CASE pc = "operands"
      <3>1. IsSeq(op_stack) /\ Len(value_stack) = Pending(op_stack, Len(op_stack))
        BY <2>1 DEF IInv, Between
      <3>2. Pending(op_stack, Len(op_stack)) \in Nat
        BY <3>1, PendingFinite DEF IsSeq
      <3> QED  BY <2>1, <3>1, <3>2
    <2>2. CASE pc \in {"loop", "done"}
      BY <2>2 DEF IInv, Ready
    <2> QED  BY <2>1, <2>2 DEF IInv
  <1> QED  BY <1>1, Invariance, PTL

\* Every operation of run_program finds the values it needs: the operator of
\* an apply_op is an atom, so "internal error" is never raised, and an eval_op
\* finds a form with its environment.
THEOREM AlignedHolds == Spec => []Aligned
  <1>1. IInv => Aligned
    <2> SUFFICES ASSUME IInv, pc # "raised", NEW i \in DOMAIN op_stack
                 PROVE  LET top == Len(op_stack)
                            its == value_stack[Pending(op_stack, i)]
                        IN  /\ op_stack[i].f = "apply_op" => IsAtom(its)
                            /\ op_stack[i].f = "swap_op" =>
                                 /\ IsPair(its)
                                 /\ i > 2 /\ op_stack[i-1].f = "eval_op"
                                          /\ op_stack[i-2].f = "cons_op"
                            /\ op_stack[i].f = "eval_op" =>
                                 \/ i < top /\ op_stack[i+1].f = "swap_op"
                                 \/ i = top /\ pc = "loop"
                                            /\ IsPair(value_stack[Len(value_stack)])
      BY DEF Aligned
    <2>1. IsSeq(op_stack) /\ i \in 1..Len(op_stack) /\ Len(op_stack) \in Nat
      BY DEF IInv, Ready, Between, IsSeq
    <2>2. CASE Settled(op_stack, value_stack, Len(op_stack))
      BY <2>1, <2>2 DEF Settled
    <2>3. CASE pc = "loop" /\ EvalIsNext(op_stack, value_stack)
      BY <2>1, <2>3 DEF EvalIsNext, Settled
    <2>4. CASE pc = "done"
      BY <2>1, <2>4 DEF IInv
    <2> QED  BY <2>1, <2>2, <2>3, <2>4 DEF IInv, Ready, Between
  <1> QED  BY <1>1, Invariance, PTL

-----------------------------------------------------------------------------
(***************************************************************************)
(* What traverse_path reads from the bytes of an atom is the path that the *)
(* atom is as a number (ValueAtPath), at the cost that this has.           *)
(***************************************************************************)
\* TLC and the provers compute 2^k for a k that is written out.
LEMMA Powers ==
    /\ 2^0 = 1 /\ 2^1 = 2 /\ 2^2 = 4 /\ 2^3 = 8
    /\ 2^4 = 16 /\ 2^5 = 32 /\ 2^6 = 64 /\ 2^7 = 128
    /\ \A k \in 8..30 : 2^k \in Nat /\ 2^k >= 256
  <1>1. /\ 2^0 = 1 /\ 2^1 = 2 /\ 2^2 = 4 /\ 2^3 = 8
        /\ 2^4 = 16 /\ 2^5 = 32 /\ 2^6 = 64 /\ 2^7 = 128
    OBVIOUS
  <1>2. ASSUME NEW k \in 8..30 PROVE 2^k \in Nat /\ 2^k >= 256
    <2>1. k \in { 8, 9, 10, 11, 12, 13, 14, 15, 16, 17, 18, 19,
                  20, 21, 22, 23, 24, 25, 26, 27, 28, 29, 30 }
      OBVIOUS
    <2>2. CASE k = 8
      <3>1. 2^8 = 256
        OBVIOUS
      <3> QED  BY <2>2, <3>1
    <2>3. CASE k = 9
      <3>1. 2^9 = 512
        OBVIOUS
      <3> QED  BY <2>3, <3>1
    <2>4. CASE k = 10
      <3>1. 2^10 = 1024
        OBVIOUS
      <3> QED  BY <2>4, <3>1
    <2>5. CASE k = 11
      <3>1. 2^11 = 2048
        OBVIOUS
      <3> QED  BY <2>5, <3>1
    <2>6. CASE k = 12
      <3>1. 2^12 = 4096
        OBVIOUS
      <3> QED  BY <2>6, <3>1
    <2>7. CASE k = 13
      <3>1. 2^13 = 8192
        OBVIOUS
      <3> QED  BY <2>7, <3>1
    <2>8. CASE k = 14
      <3>1. 2^14 = 16384
        OBVIOUS
      <3> QED  BY <2>8, <3>1
    <2>9. CASE k = 15
      <3>1. 2^15 = 32768
        OBVIOUS
      <3> QED  BY <2>9, <3>1
    <2>10. CASE k = 16
      <3>1. 2^16 = 65536
        OBVIOUS
      <3> QED  BY <2>10, <3>1
    <2>11. CASE k = 17
      <3>1. 2^17 = 131072
        OBVIOUS
      <3> QED  BY <2>11, <3>1
    <2>12. CASE k = 18
      <3>1. 2^18 = 262144
        OBVIOUS
      <3> QED  BY <2>12, <3>1
    <2>13. CASE k = 19
      <3>1. 2^19 = 524288
        OBVIOUS
      <3> QED  BY <2>13, <3>1
    <2>14. CASE k = 20
      <3>1. 2^20 = 1048576
        OBVIOUS
      <3> QED  BY <2>14, <3>1
    <2>15. CASE k = 21
      <3>1. 2^21 = 2097152
        OBVIOUS
      <3> QED  BY <2>15, <3>1
    <2>16. CASE k = 22
      <3>1. 2^22 = 4194304
        OBVIOUS
      <3> QED  BY <2>16, <3>1
    <2>17. CASE k = 23
      <3>1. 2^23 = 8388608
        OBVIOUS
      <3> QED  BY <2>17, <3>1
    <2>18. CASE k = 24
      <3>1. 2^24 = 16777216
        OBVIOUS
      <3> QED  BY <2>18, <3>1
    <2>19. CASE k = 25
      <3>1. 2^25 = 33554432
        OBVIOUS
      <3> QED  BY <2>19, <3>1
    <2>20. CASE k = 26
      <3>1. 2^26 = 67108864
        OBVIOUS
      <3> QED  BY <2>20, <3>1
    <2>21. CASE k = 27
      <3>1. 2^27 = 134217728
        OBVIOUS
      <3> QED  BY <2>21, <3>1
    <2>22. CASE k = 28
      <3>1. 2^28 = 268435456
        OBVIOUS
      <3> QED  BY <2>22, <3>1
    <2>23. CASE k = 29
      <3>1. 2^29 = 536870912
        OBVIOUS
      <3> QED  BY <2>23, <3>1
    <2>24. CASE k = 30
      <3>1. 2^30 = 1073741824
        OBVIOUS
      <3> QED  BY <2>24, <3>1
    <2> QED  BY <2>1, <2>2, <2>3, <2>4, <2>5, <2>6, <2>7, <2>8, <2>9, <2>10,
       <2>11, <2>12, <2>13, <2>14, <2>15, <2>16, <2>17, <2>18, <2>19, <2>20, <2>21, <2>22,
       <2>23, <2>24
  <1> QED  BY <1>1, <1>2

\* The powers of 2 up to a byte, as numbers that the provers know.
Power(k) == CASE k = 0 -> 1 [] k = 1 -> 2 [] k = 2 -> 4 [] k = 3 -> 8
              [] k = 4 -> 16 [] k = 5 -> 32 [] k = 6 -> 64 [] k = 7 -> 128
              [] k = 8 -> 256

LEMMA PowerIs ==
    \A k \in 0..7 : 2^k = Power(k)
  <1> SUFFICES ASSUME NEW k \in 0..7 PROVE 2^k = Power(k)
    OBVIOUS
  <1>1. k = 0 \/ k = 1 \/ k = 2 \/ k = 3 \/ k = 4 \/ k = 5 \/ k = 6 \/ k = 7
    OBVIOUS
  <1>2. CASE k = 0
    BY <1>2, Powers DEF Power
  <1>3. CASE k = 1
    BY <1>3, Powers DEF Power
  <1>4. CASE k = 2
    BY <1>4, Powers DEF Power
  <1>5. CASE k = 3
    BY <1>5, Powers DEF Power
  <1>6. CASE k = 4
    BY <1>6, Powers DEF Power
  <1>7. CASE k = 5
    BY <1>7, Powers DEF Power
  <1>8. CASE k = 6
    BY <1>8, Powers DEF Power
  <1>9. CASE k = 7
    BY <1>9, Powers DEF Power
  <1> QED  BY <1>1, <1>2, <1>3, <1>4, <1>5, <1>6, <1>7, <1>8, <1>9

\* Shifting by one more bit.
LEMMA PowerHalves ==
    ASSUME NEW m \in Nat, NEW k \in 0..7
    PROVE  /\ Power(k) \in Nat /\ Power(k) >= 1 /\ Power(k + 1) = 2 * Power(k)
           /\ (m \div Power(k)) \div 2 = m \div Power(k + 1)
  <1>1. k = 0 \/ k = 1 \/ k = 2 \/ k = 3 \/ k = 4 \/ k = 5 \/ k = 6 \/ k = 7
    OBVIOUS
  <1>2. CASE k = 0
    BY <1>2 DEF Power
  <1>3. CASE k = 1
    BY <1>3 DEF Power
  <1>4. CASE k = 2
    BY <1>4 DEF Power
  <1>5. CASE k = 3
    BY <1>5 DEF Power
  <1>6. CASE k = 4
    BY <1>6 DEF Power
  <1>7. CASE k = 5
    BY <1>7 DEF Power
  <1>8. CASE k = 6
    BY <1>8 DEF Power
  <1>9. CASE k = 7
    BY <1>9 DEF Power
  <1> QED  BY <1>1, <1>2, <1>3, <1>4, <1>5, <1>6, <1>7, <1>8, <1>9

\* Bits as many as a byte has.
BitAt(m, i) == (m \div Power(i)) % 2

\* The first legs of a number are its lowest bits, the others are the legs of
\* what is left.
LegsAbove(m, j) ==
    LET q == Legs(m \div Power(j))
    IN  /\ Len(q) \in Nat /\ Len(Legs(m)) = j + Len(q)
        /\ \A i \in 1..j : Legs(m)[i] = BitAt(m, i - 1)
        /\ \A i \in 1..Len(q) : Legs(m)[j + i] = q[i]

LEMMA OneLeg ==
    ASSUME NEW m \in Nat, m > 1
    PROVE  LET q == Legs(m \div 2)
           IN  /\ Len(q) \in Nat /\ Len(Legs(m)) = 1 + Len(q)
               /\ Legs(m)[1] = m % 2
               /\ \A i \in 1..Len(q) : Legs(m)[1 + i] = q[i]
  <1> DEFINE q == Legs(m \div 2)
             l == Legs(m)
  <1>1. m \div 2 \in Nat /\ m % 2 \in {LEFT, RIGHT} /\ ~(m <= 1)
    BY DEF LEFT, RIGHT
  <1>2. l = <<m % 2>> \o q
    BY <1>1, LegsOfMore, Zenon
  <1>3. q \in Seq({LEFT, RIGHT})
    BY <1>1, LegsUnfold, Zenon
  <1> HIDE DEF q, l
  <1>4. /\ Len(<<m % 2>> \o q) = Len(q) + 1
        /\ (<<m % 2>> \o q)[1] = m % 2
        /\ \A i \in 1..Len(q) : (<<m % 2>> \o q)[i + 1] = q[i]
        /\ Len(q) \in Nat
    BY <1>1, <1>3, PrependFacts
  <1>5. /\ Len(q) \in Nat /\ Len(l) = 1 + Len(q)
        /\ l[1] = m % 2
        /\ \A i \in 1..Len(q) : l[1 + i] = q[i]
    BY <1>2, <1>4
  <1> QED  BY <1>5 DEF q, l

LEMMA LegsAreBits ==
    ASSUME NEW m \in Nat, NEW n \in 0..8, m >= Power(n)
    PROVE  LegsAbove(m, n)
  <1> DEFINE S == { j \in 0..8 : m >= Power(j) => LegsAbove(m, j) }
  <1>1. 0 \in S
    <2>1. Power(0) = 1 /\ m \div 1 = m
      BY DEF Power
    <2>2. Legs(m) \in Seq({LEFT, RIGHT})
      BY LegsUnfold, Zenon
    <2> DEFINE l == Legs(m)
    <2>3. Legs(m \div Power(0)) = l
      BY <2>1
    <2>4. l \in Seq({LEFT, RIGHT})
      BY <2>2
    <2> HIDE DEF l
    <2>5. Len(l) \in Nat /\ Len(l) = 0 + Len(l) /\ \A i \in 1..Len(l) : l[0 + i] = l[i]
      BY <2>4
    <2>6. LegsAbove(m, 0)
      BY <2>3, <2>5 DEF LegsAbove, l
    <2> QED  BY <2>6
  <1>2. ASSUME NEW j \in 0..7, j \in S PROVE j + 1 \in S
    <2> SUFFICES ASSUME m >= Power(j + 1) PROVE LegsAbove(m, j + 1)
      BY <1>2
    <2> DEFINE k == m \div Power(j)
               p == Legs(k)
               q == Legs(m \div Power(j + 1))
    <2>1. /\ Power(j) \in Nat /\ Power(j) >= 1 /\ Power(j + 1) = 2 * Power(j)
          /\ k \div 2 = m \div Power(j + 1)
      BY PowerHalves
    <2>2. k \in Nat /\ k > 1
      <3>1. j = 0 \/ j = 1 \/ j = 2 \/ j = 3 \/ j = 4 \/ j = 5 \/ j = 6 \/ j = 7
        OBVIOUS
      <3>2. CASE j = 0
        BY <3>2 DEF Power
      <3>3. CASE j = 1
        BY <3>3 DEF Power
      <3>4. CASE j = 2
        BY <3>4 DEF Power
      <3>5. CASE j = 3
        BY <3>5 DEF Power
      <3>6. CASE j = 4
        BY <3>6 DEF Power
      <3>7. CASE j = 5
        BY <3>7 DEF Power
      <3>8. CASE j = 6
        BY <3>8 DEF Power
      <3>9. CASE j = 7
        BY <3>9 DEF Power
      <3> QED  BY <3>1, <3>2, <3>3, <3>4, <3>5, <3>6, <3>7, <3>8, <3>9
    <2>3. LegsAbove(m, j)
      BY <1>2, <2>1
    <2>4. /\ Len(p) \in Nat /\ Len(Legs(m)) = j + Len(p)
          /\ \A i \in 1..j : Legs(m)[i] = BitAt(m, i - 1)
          /\ \A i \in 1..Len(p) : Legs(m)[j + i] = p[i]
      BY <2>3 DEF LegsAbove
    <2>5. /\ Len(q) \in Nat /\ Len(p) = 1 + Len(q)
          /\ p[1] = k % 2
          /\ \A i \in 1..Len(q) : p[1 + i] = q[i]
      <3> DEFINE r == Legs(k \div 2)
      <3>1. /\ Len(r) \in Nat /\ Len(p) = 1 + Len(r)
            /\ p[1] = k % 2
            /\ \A i \in 1..Len(r) : p[1 + i] = r[i]
        <4> HIDE DEF k
        <4> QED  BY <2>2, OneLeg, Zenon
      <3>2. q = r
        <4> HIDE DEF k
        <4> QED  BY <2>1, Zenon
      <3> HIDE DEF p, q, r, k
      <3> QED  BY <3>1, <3>2
    <2>6. k % 2 = BitAt(m, (j + 1) - 1)
      BY DEF BitAt
    <2> HIDE DEF k, p, q
    <2> DEFINE l == Legs(m)
    <2>7. /\ Len(l) = j + Len(p)
          /\ \A i \in 1..j : l[i] = BitAt(m, i - 1)
          /\ \A i \in 1..Len(p) : l[j + i] = p[i]
      BY <2>4
    <2> HIDE DEF l
    <2>8. Len(l) = (j + 1) + Len(q)
      BY <2>5, <2>7
    <2>9. ASSUME NEW i \in 1..(j + 1) PROVE l[i] = BitAt(m, i - 1)
      <3>1. CASE i = j + 1
        <4>1. 1 \in 1..Len(p)
          BY <2>5
        <4>2. l[j + 1] = p[1]
          BY <2>7, <4>1
        <4> QED  BY <2>5, <2>6, <3>1, <4>2
      <3>2. CASE i # j + 1
        <4>1. i \in 1..j
          BY <3>2
        <4> QED  BY <2>7, <4>1
      <3> QED  BY <3>1, <3>2
    <2>10. ASSUME NEW i \in 1..Len(q) PROVE l[(j + 1) + i] = q[i]
      <3>1. 1 + i \in 1..Len(p) /\ j + (1 + i) = (j + 1) + i
        BY <2>5
      <3>2. l[j + (1 + i)] = p[1 + i]
        BY <2>7, <3>1
      <3> QED  BY <2>5, <3>1, <3>2
    <2>11. Len(q) \in Nat
      BY <2>5
    <2> QED  BY <2>8, <2>9, <2>10, <2>11 DEF LegsAbove, l, q
  <1> HIDE DEF S
  <1>3. \A j \in 0..(8 - 1) : j \in S => j + 1 \in S
    BY <1>2
  <1>4. n \in S
    BY <1>1, <1>3, BoundedInduction, 8 \in Nat
  <1> QED  BY <1>4 DEF S

\* A byte that is not 0 has its highest bit somewhere, and BitLength finds it.
IsHead(m, h) == /\ m \div Power(h) = 1 /\ m >= Power(h)
                /\ \A k \in 0..7 : m \div Power(k) = 1 => k = h

LEMMA HeadExists ==
    ASSUME NEW m \in 1..255
    PROVE  \E h \in 0..7 : IsHead(m, h)
  <1>1. CASE m = 1
    <2>1. IsHead(m, 0)
      BY <1>1 DEF IsHead, Power
    <2> QED  BY <2>1
  <1>2. CASE m \in 2..3
    <2>1. IsHead(m, 1)
      BY <1>2 DEF IsHead, Power
    <2> QED  BY <2>1
  <1>3. CASE m \in 4..7
    <2>1. IsHead(m, 2)
      BY <1>3 DEF IsHead, Power
    <2> QED  BY <2>1
  <1>4. CASE m \in 8..15
    <2>1. IsHead(m, 3)
      BY <1>4 DEF IsHead, Power
    <2> QED  BY <2>1
  <1>5. CASE m \in 16..31
    <2>1. IsHead(m, 4)
      BY <1>5 DEF IsHead, Power
    <2> QED  BY <2>1
  <1>6. CASE m \in 32..63
    <2>1. IsHead(m, 5)
      BY <1>6 DEF IsHead, Power
    <2> QED  BY <2>1
  <1>7. CASE m \in 64..127
    <2>1. IsHead(m, 6)
      BY <1>7 DEF IsHead, Power
    <2> QED  BY <2>1
  <1>8. CASE m \in 128..255
    <2>1. IsHead(m, 7)
      BY <1>8 DEF IsHead, Power
    <2> QED  BY <2>1
  <1> QED  BY <1>1, <1>2, <1>3, <1>4, <1>5, <1>6, <1>7, <1>8

LEMMA HeadIsBitLength ==
    ASSUME NEW m \in 1..255, NEW h \in 0..7, IsHead(m, h)
    PROVE  BitLength(m) = h + 1
  <1>1. m \div 2^h = 1
    <2>1. 2^h = Power(h)
      BY PowerIs
    <2> QED  BY <2>1 DEF IsHead
  <1>2. ASSUME NEW k \in 1..31, m \div 2^(k-1) = 1 PROVE k = h + 1
    <2>1. CASE k - 1 \in 0..7
      <3>1. 2^(k-1) = Power(k-1)
        BY <2>1, PowerIs
      <3> QED  BY <1>2, <2>1, <3>1 DEF IsHead
    <2>2. CASE k - 1 \in 8..30
      <3> DEFINE p == 2^(k-1)
      <3>1. p \in Nat /\ p >= 256
        BY <2>2, Powers
      <3>2. m \div p = 1
        BY <1>2
      <3> HIDE DEF p
      <3>3. m \in Nat /\ p \in Nat /\ m < p /\ p > 0
        BY <3>1
      <3>4. m \div p = 0
        BY <3>3
      <3> QED  BY <3>2, <3>4
    <2> QED  BY <2>1, <2>2
  <1> DEFINE x == CHOOSE k \in 1..31 : m \div 2^(k-1) = 1
  <1>3. BitLength(m) = x
    <2>1. m # 0
      OBVIOUS
    <2> QED  BY <2>1, Zenon DEF BitLength
  <1>4. h + 1 \in 1..31 /\ (h + 1) - 1 = h
    OBVIOUS
  <1>5. m \div 2^((h + 1) - 1) = 1
    BY <1>1, <1>4
  <1>6. x \in 1..31 /\ m \div 2^(x-1) = 1
    BY <1>4, <1>5, Zenon
  <1> HIDE DEF x
  <1> QED  BY <1>2, <1>3, <1>6

\* ... also when only that bit is left of the byte (msb_mask).
LEMMA MaskOfHead ==
    ASSUME NEW m \in 1..255, NEW h \in 0..7, IsHead(m, h)
    PROVE  BitLength(msb_mask(m)) = h + 1
  <1> DEFINE p == Power(h)
  <1>1. msb_mask(m) = p
    <2>1. BitLength(m) = h + 1
      BY HeadIsBitLength
    <2>2. (h + 1) - 1 = h
      OBVIOUS
    <2>3. 2^h = p
      BY PowerIs
    <2> QED  BY <2>1, <2>2, <2>3 DEF msb_mask
  <1>2. p \in 1..255 /\ IsHead(p, h)
    <2>1. h = 0 \/ h = 1 \/ h = 2 \/ h = 3 \/ h = 4 \/ h = 5 \/ h = 6 \/ h = 7
      OBVIOUS
    <2>2. CASE h = 0
      BY <2>2 DEF Power, IsHead
    <2>3. CASE h = 1
      BY <2>3 DEF Power, IsHead
    <2>4. CASE h = 2
      BY <2>4 DEF Power, IsHead
    <2>5. CASE h = 3
      BY <2>5 DEF Power, IsHead
    <2>6. CASE h = 4
      BY <2>6 DEF Power, IsHead
    <2>7. CASE h = 5
      BY <2>7 DEF Power, IsHead
    <2>8. CASE h = 6
      BY <2>8 DEF Power, IsHead
    <2>9. CASE h = 7
      BY <2>9 DEF Power, IsHead
    <2> QED  BY <2>1, <2>2, <2>3, <2>4, <2>5, <2>6, <2>7, <2>8, <2>9
  <1> HIDE DEF p
  <1>3. BitLength(p) = h + 1
    BY <1>2, HeadIsBitLength, Zenon
  <1> QED  BY <1>1, <1>3

\* The leading zero bytes of an atom.
AreZeros(b, z) == /\ z \in 0..Len(b) /\ \A i \in 1..z : b[i] = 0
                  /\ z < Len(b) => b[z + 1] # 0

LEMMA ZeroBytesFacts ==
    ASSUME NEW b \in Seq(0..255)
    PROVE  AreZeros(b, ZeroBytes(b))
  <1>1. Len(b) \in Nat /\ \A i \in 1..Len(b) : b[i] \in 0..255
    <2>1. b \in [1..Len(b) -> 0..255] /\ Len(b) \in Nat
      BY SeqIsFunction
    <2> QED  BY <2>1
  <1> DEFINE S == { k \in Nat : k <= Len(b) => \A i \in 1..k : b[i] = 0 }
  <1>2. \E n \in 0..Len(b) : (\A i \in 1..n : b[i] = 0) /\ (n < Len(b) => b[n + 1] # 0)
    <2> SUFFICES ASSUME \A n \in 0..Len(b) : (\A i \in 1..n : b[i] = 0)
                                              => n < Len(b) /\ b[n + 1] = 0
                 PROVE FALSE
      OBVIOUS
    <2>1. 0 \in S
      OBVIOUS
    <2>2. ASSUME NEW k \in Nat, k \in S PROVE k + 1 \in S
      <3> SUFFICES ASSUME k + 1 <= Len(b) PROVE \A i \in 1..(k + 1) : b[i] = 0
        OBVIOUS
      <3>1. \A i \in 1..k : b[i] = 0
        BY <1>1, <2>2
      <3>2. b[k + 1] = 0
        <4>1. k \in 0..Len(b)
          BY <1>1
        <4> HIDE DEF S
        <4> QED  BY <3>1, <4>1
      <3> QED  BY <3>1, <3>2
    <2> HIDE DEF S
    <2>3. Len(b) \in S
      BY <1>1, <2>1, <2>2, SetInduction
    <2>4. \A i \in 1..Len(b) : b[i] = 0
      BY <1>1, <2>3 DEF S
    <2> QED  BY <1>1, <2>4
  <1>3. /\ ZeroBytes(b) \in 0..Len(b) /\ \A i \in 1..ZeroBytes(b) : b[i] = 0
        /\ ZeroBytes(b) < Len(b) => b[ZeroBytes(b) + 1] # 0
    BY <1>2, Zenon DEF ZeroBytes
  <1> QED  BY <1>3 DEF AreZeros

\* A number with one more byte has the bits of that byte below its own.
LEMMA LowBits ==
    ASSUME NEW v \in Nat, NEW y \in 0..255, NEW i \in 0..7
    PROVE  BitAt(256 * v + y, i) = BitAt(y, i)
  <1>1. i = 0 \/ i = 1 \/ i = 2 \/ i = 3 \/ i = 4 \/ i = 5 \/ i = 6 \/ i = 7
    OBVIOUS
  <1>2. CASE i = 0
    <2>1. (256 * v + y) \div 1 = 256 * v + y \div 1 /\ y \div 1 \in Nat
      OBVIOUS
    <2>2. BitAt(256 * v + y, i) = (256 * v + y \div 1) % 2 /\ BitAt(y, i) = (y \div 1) % 2
      BY <1>2, <2>1 DEF BitAt, Power
    <2>3. \A w \in Nat : (256 * v + w) % 2 = w % 2
      OBVIOUS
    <2> QED  BY <2>1, <2>2, <2>3
  <1>3. CASE i = 1
    <2>1. (256 * v + y) \div 2 = 128 * v + y \div 2 /\ y \div 2 \in Nat
      OBVIOUS
    <2>2. BitAt(256 * v + y, i) = (128 * v + y \div 2) % 2 /\ BitAt(y, i) = (y \div 2) % 2
      BY <1>3, <2>1 DEF BitAt, Power
    <2>3. \A w \in Nat : (128 * v + w) % 2 = w % 2
      OBVIOUS
    <2> QED  BY <2>1, <2>2, <2>3
  <1>4. CASE i = 2
    <2>1. (256 * v + y) \div 4 = 64 * v + y \div 4 /\ y \div 4 \in Nat
      OBVIOUS
    <2>2. BitAt(256 * v + y, i) = (64 * v + y \div 4) % 2 /\ BitAt(y, i) = (y \div 4) % 2
      BY <1>4, <2>1 DEF BitAt, Power
    <2>3. \A w \in Nat : (64 * v + w) % 2 = w % 2
      OBVIOUS
    <2> QED  BY <2>1, <2>2, <2>3
  <1>5. CASE i = 3
    <2>1. (256 * v + y) \div 8 = 32 * v + y \div 8 /\ y \div 8 \in Nat
      OBVIOUS
    <2>2. BitAt(256 * v + y, i) = (32 * v + y \div 8) % 2 /\ BitAt(y, i) = (y \div 8) % 2
      BY <1>5, <2>1 DEF BitAt, Power
    <2>3. \A w \in Nat : (32 * v + w) % 2 = w % 2
      OBVIOUS
    <2> QED  BY <2>1, <2>2, <2>3
  <1>6. CASE i = 4
    <2>1. (256 * v + y) \div 16 = 16 * v + y \div 16 /\ y \div 16 \in Nat
      OBVIOUS
    <2>2. BitAt(256 * v + y, i) = (16 * v + y \div 16) % 2 /\ BitAt(y, i) = (y \div 16) % 2
      BY <1>6, <2>1 DEF BitAt, Power
    <2>3. \A w \in Nat : (16 * v + w) % 2 = w % 2
      OBVIOUS
    <2> QED  BY <2>1, <2>2, <2>3
  <1>7. CASE i = 5
    <2>1. (256 * v + y) \div 32 = 8 * v + y \div 32 /\ y \div 32 \in Nat
      OBVIOUS
    <2>2. BitAt(256 * v + y, i) = (8 * v + y \div 32) % 2 /\ BitAt(y, i) = (y \div 32) % 2
      BY <1>7, <2>1 DEF BitAt, Power
    <2>3. \A w \in Nat : (8 * v + w) % 2 = w % 2
      OBVIOUS
    <2> QED  BY <2>1, <2>2, <2>3
  <1>8. CASE i = 6
    <2>1. (256 * v + y) \div 64 = 4 * v + y \div 64 /\ y \div 64 \in Nat
      OBVIOUS
    <2>2. BitAt(256 * v + y, i) = (4 * v + y \div 64) % 2 /\ BitAt(y, i) = (y \div 64) % 2
      BY <1>8, <2>1 DEF BitAt, Power
    <2>3. \A w \in Nat : (4 * v + w) % 2 = w % 2
      OBVIOUS
    <2> QED  BY <2>1, <2>2, <2>3
  <1>9. CASE i = 7
    <2>1. (256 * v + y) \div 128 = 2 * v + y \div 128 /\ y \div 128 \in Nat
      OBVIOUS
    <2>2. BitAt(256 * v + y, i) = (2 * v + y \div 128) % 2 /\ BitAt(y, i) = (y \div 128) % 2
      BY <1>9, <2>1 DEF BitAt, Power
    <2>3. \A w \in Nat : (2 * v + w) % 2 = w % 2
      OBVIOUS
    <2> QED  BY <2>1, <2>2, <2>3
  <1> QED  BY <1>1, <1>2, <1>3, <1>4, <1>5, <1>6, <1>7, <1>8, <1>9

\* s are the legs that the first k bytes of b stand for, z of them zeros and
\* the highest bit of the next one at h.
ArePrefixLegs(s, b, z, h, k) ==
    /\ s \in Seq({LEFT, RIGHT}) /\ Len(s) = 8 * (k - (z + 1)) + h
    /\ \A i \in 1..Len(s) : s[i] = BitAt(b[k - (i - 1) \div 8], (i - 1) % 8)

LEMMA HeadLegs ==
    ASSUME NEW b, NEW z \in Nat, NEW m \in 1..255, b[z + 1] = m, NEW h \in 0..7, IsHead(m, h)
    PROVE  ArePrefixLegs(Legs(m), b, z, h, z + 1)
  <1> DEFINE l == Legs(m)
             q == Legs(m \div Power(h))
  <1>1. l \in Seq({LEFT, RIGHT})
    <2>1. m \in Nat
      OBVIOUS
    <2> QED  BY <2>1, LegsUnfold, Zenon
  <1>2. q = <<>>
    <2>1. m \div Power(h) = 1
      BY DEF IsHead
    <2>2. Legs(1) = <<>>
      BY LegsOfLeaf, 1 \in Nat, 1 <= 1
    <2> QED  BY <2>1, <2>2, Zenon
  <1>3. LegsAbove(m, h)
    BY LegsAreBits, m \in Nat, h \in 0..8 DEF IsHead
  <1>4. /\ Len(l) = h + Len(q)
        /\ \A i \in 1..h : l[i] = BitAt(m, i - 1)
    BY <1>3, Zenon DEF LegsAbove
  <1> HIDE DEF l, q
  <1>5. Len(l) = h
    BY <1>2, <1>4
  <1>6. ASSUME NEW i \in 1..Len(l)
        PROVE  l[i] = BitAt(b[(z + 1) - (i - 1) \div 8], (i - 1) % 8)
    <2>1. i \in 1..h /\ (i - 1) \div 8 = 0 /\ (i - 1) % 8 = i - 1 /\ (z + 1) - 0 = z + 1
      BY <1>5
    <2> QED  BY <1>4, <2>1
  <1>7. Len(l) = 8 * ((z + 1) - (z + 1)) + h
    BY <1>5
  <1> QED  BY <1>1, <1>6, <1>7 DEF ArePrefixLegs, l

\* v is the number of the first k bytes, and y the byte after them.
HasNext(b, z, h, k, v, y) ==
    /\ z \in Nat /\ h \in 0..7 /\ k \in Nat /\ k > z
    /\ v \in Nat /\ v >= 1 /\ y \in 0..255 /\ b[k + 1] = y
    /\ ArePrefixLegs(Legs(v), b, z, h, k)

LEMMA NextLegs ==
    ASSUME NEW b, NEW z, NEW h, NEW k, NEW v, NEW y, HasNext(b, z, h, k, v, y)
    PROVE  ArePrefixLegs(Legs(256 * v + y), b, z, h, k + 1)
  <1>a. /\ z \in Nat /\ h \in 0..7 /\ k \in Nat /\ k > z
        /\ v \in Nat /\ v >= 1 /\ y \in 0..255 /\ b[k + 1] = y
        /\ ArePrefixLegs(Legs(v), b, z, h, k)
    BY DEF HasNext
  <1> DEFINE m == 256 * v + y
             l == Legs(m)
             q == Legs(v)
  <1>1. m \in Nat /\ m >= 256 /\ m \div 256 = v /\ Power(8) = 256
    BY <1>a DEF Power
  <1>2. \A i \in 0..7 : BitAt(m, i) = BitAt(y, i)
    BY <1>a, LowBits
  <1> HIDE DEF m
  <1>3. l \in Seq({LEFT, RIGHT})
    BY <1>1, LegsUnfold, Zenon
  <1>4. LegsAbove(m, 8)
    BY <1>1, LegsAreBits, 8 \in 0..8
  <1>5. /\ Len(q) \in Nat /\ Len(l) = 8 + Len(q)
        /\ \A i \in 1..8 : l[i] = BitAt(m, i - 1)
        /\ \A i \in 1..Len(q) : l[8 + i] = q[i]
    <2>1. m \div Power(8) = v
      BY <1>1
    <2> QED  BY <1>4, <2>1, Zenon DEF LegsAbove
  <1>6. /\ Len(q) = 8 * (k - (z + 1)) + h
        /\ \A i \in 1..Len(q) : q[i] = BitAt(b[k - (i - 1) \div 8], (i - 1) % 8)
    BY <1>a DEF ArePrefixLegs
  <1> HIDE DEF l, q
  <1>7. ASSUME NEW i \in 1..Len(l)
        PROVE  l[i] = BitAt(b[(k + 1) - (i - 1) \div 8], (i - 1) % 8)
    <2>1. CASE i \in 1..8
      <3>1. (i - 1) \div 8 = 0 /\ (i - 1) % 8 = i - 1 /\ (k + 1) - 0 = k + 1 /\ i - 1 \in 0..7
        BY <1>a, <2>1
      <3> QED  BY <1>a, <1>2, <1>5, <2>1, <3>1
    <2>2. CASE i \notin 1..8
      <3> DEFINE j == i - 8
      <3>1. j \in 1..Len(q) /\ 8 + j = i /\ j \in Nat
        BY <1>5, <2>2
      <3>2. (i - 1) \div 8 = (j - 1) \div 8 + 1 /\ (i - 1) % 8 = (j - 1) % 8
        BY <1>5, <2>2
      <3>3. (j - 1) \div 8 \in Int
        BY <3>1
      <3> HIDE DEF j
      <3>4. (k + 1) - (i - 1) \div 8 = k - (j - 1) \div 8
        BY <1>a, <3>2, <3>3
      <3>5. l[i] = q[j] /\ q[j] = BitAt(b[k - (j - 1) \div 8], (j - 1) % 8)
        <4>1. l[8 + j] = q[j]
          BY <1>5, <3>1
        <4>2. q[j] = BitAt(b[k - (j - 1) \div 8], (j - 1) % 8)
          BY <1>6, <3>1
        <4> QED  BY <3>1, <4>1, <4>2
      <3> QED  BY <3>2, <3>4, <3>5
    <2> QED  BY <2>1, <2>2
  <1>8. Len(l) = 8 * ((k + 1) - (z + 1)) + h
    BY <1>a, <1>5, <1>6
  <1> QED  BY <1>3, <1>7, <1>8 DEF ArePrefixLegs, l, m

\* What the first k bytes of an atom amount to.
LEMMA PrefixNumbers ==
    ASSUME NEW b \in Seq(0..255), NEW z, AreZeros(b, z), z < Len(b),
           NEW h \in 0..7, IsHead(b[z + 1], h)
    PROVE  /\ IntOf(b) \in Nat /\ IntOf(b) # 0
           /\ ArePrefixLegs(Legs(IntOf(b)), b, z, h, Len(b))
           /\ Len(BytesOf(IntOf(b))) = Len(b) - z
  <1> DEFINE n == Len(b)
             v == Digits(b, n, 0, 256)
             S == { d \in Nat : d <= n - (z + 1) =>
                      LET k == z + 1 + d
                      IN  /\ v[k] >= 1
                          /\ ArePrefixLegs(Legs(v[k]), b, z, h, k)
                          /\ Len(BytesOf(v[k])) = k - z }
  <1>1. n \in Nat /\ \A i \in 1..n : b[i] \in 0..255 /\ b[i] \in Nat
    <2>1. b \in [1..Len(b) -> 0..255] /\ Len(b) \in Nat
      BY SeqIsFunction
    <2>2. \A i \in 1..Len(b) : b[i] \in 0..255
      BY <2>1
    <2>3. \A i \in 0..255 : i \in Nat
      OBVIOUS
    <2> QED  BY <2>1, <2>2, <2>3, Zenon
  <1>2. z \in 0..n /\ z < n /\ (\A i \in 1..z : b[i] = 0) /\ b[z + 1] # 0
    BY DEF AreZeros
  <1>3. v \in [0..n -> Nat] /\ v[0] = 0 /\ \A k \in 1..n : v[k] = 256 * v[k - 1] + b[k]
    <2>1. \A k \in 1..n : b[k] \in Nat
      <3> HIDE DEF n, v, S
      <3> QED  BY <1>1, Zenon
    <2>2. n \in Nat
      BY <1>1
    <2> HIDE DEF n
    <2> QED  BY <2>1, <2>2, DigitsOfBytes
  <1>4. IntOf(b) = v[n]
    BY NumbersAreDigits, Zenon
  <1> HIDE DEF v, n
  <1>5. v[z] = 0
    <2> DEFINE Z == { k \in Nat : k <= z => v[k] = 0 }
    <2>1. 0 \in Z
      BY <1>3
    <2>2. ASSUME NEW k \in Nat, k \in Z PROVE k + 1 \in Z
      <3> SUFFICES ASSUME k + 1 <= z PROVE v[k + 1] = 0
        OBVIOUS
      <3>1. v[k] = 0 /\ k + 1 \in 1..n /\ (k + 1) - 1 = k /\ b[k + 1] = 0
        BY <1>1, <1>2, <2>2
      <3>2. v[k + 1] = 256 * v[(k + 1) - 1] + b[k + 1]
        BY <1>3, <3>1
      <3> QED  BY <3>1, <3>2
    <2> HIDE DEF Z
    <2>3. z \in Z
      <3>1. \A k \in Nat : k \in Z
        BY <2>1, <2>2, SetInduction
      <3>2. z \in Nat
        BY <1>1, <1>2
      <3> QED  BY <3>1, <3>2
    <2>4. z \in Nat /\ z <= z
      BY <1>1, <1>2
    <2> QED  BY <2>3, <2>4 DEF Z
  <1>6. 0 \in S
    <2> DEFINE m == b[z + 1]
    <2>1. m \in 1..255 /\ z + 1 \in 1..n /\ (z + 1) - 1 = z /\ z \in Nat
      BY <1>1, <1>2
    <2>2. v[z + 1] = m
      <3>1. v[z + 1] = 256 * v[(z + 1) - 1] + m
        BY <1>3, <2>1
      <3> HIDE DEF m
      <3> QED  BY <1>5, <2>1, <3>1
    <2>3. IsHead(m, h)
      OBVIOUS
    <2>4. ArePrefixLegs(Legs(m), b, z, h, z + 1)
      <3>1. b[z + 1] = m
        OBVIOUS
      <3> HIDE DEF m
      <3> QED  BY <2>1, <2>3, <3>1, HeadLegs, Zenon
    <2> HIDE DEF m
    <2>5. Len(BytesOf(m)) = 1
      <3>1. m \in Nat /\ m # 0 /\ m \div 256 = 0 /\ m % 256 = m
        BY <2>1
      <3>2. BytesOf(m) = Append(<<>>, m)
        BY <3>1, BytesOfMore, NoBytes, Zenon
      <3> QED  BY <3>2
    <2>6. z + 1 + 0 = z + 1 /\ (z + 1) - z = 1 /\ m >= 1
      BY <2>1
    <2> QED  BY <2>2, <2>4, <2>5, <2>6
  <1>7. ASSUME NEW d \in Nat, d \in S PROVE d + 1 \in S
    <2> SUFFICES ASSUME d + 1 <= n - (z + 1)
                 PROVE  LET k == z + 1 + (d + 1)
                        IN  /\ v[k] >= 1
                            /\ ArePrefixLegs(Legs(v[k]), b, z, h, k)
                            /\ Len(BytesOf(v[k])) = k - z
      OBVIOUS
    <2> DEFINE k == z + 1 + d
               x == v[k]
               y == b[k + 1]
               m == 256 * x + y
    <2>1. d <= n - (z + 1)
      BY <1>1, <1>2
    <2>2. /\ x >= 1 /\ ArePrefixLegs(Legs(x), b, z, h, k)
          /\ Len(BytesOf(x)) = k - z
      BY <1>7, <2>1
    <2>3. /\ k \in Nat /\ k > z /\ k + 1 \in 1..n /\ z \in Nat /\ k + 1 = z + 1 + (d + 1)
          /\ k \in 0..n /\ (k + 1) - 1 = k
      BY <1>1, <1>2
    <2> HIDE DEF k, S
    <2>4. x \in Nat /\ y \in 0..255
      BY <1>1, <1>3, <2>3
    <2>5. v[k + 1] = m
      BY <1>3, <2>3
    <2>6. ArePrefixLegs(Legs(m), b, z, h, k + 1)
      <3>1. b[k + 1] = y
        OBVIOUS
      <3>2. /\ k \in Nat /\ k > z /\ z \in Nat /\ x \in Nat /\ x >= 1 /\ y \in 0..255
            /\ ArePrefixLegs(Legs(x), b, z, h, k)
        BY <2>2, <2>3, <2>4, Zenon
      <3> HIDE DEF x, y
      <3>3. h \in 0..7
        OBVIOUS
      <3>4. HasNext(b, z, h, k, x, y)
        BY <3>1, <3>2, <3>3, Zenon DEF HasNext
      <3>5. ArePrefixLegs(Legs(256 * x + y), b, z, h, k + 1)
        BY <3>4, NextLegs
      <3> QED  BY <3>5
    <2> HIDE DEF x, y
    <2>7. m \in Nat /\ m # 0 /\ m \div 256 = x /\ m % 256 = y /\ m >= 1
      BY <2>2, <2>4
    <2>8. Len(BytesOf(m)) = (k + 1) - z
      <3> HIDE DEF m
      <3>1. BytesOf(m) = Append(BytesOf(x), y)
        BY <2>7, BytesOfMore, Zenon
      <3>2. BytesOf(x) \in Seq(0..255)
        BY <2>4, BytesUnfold, Zenon
      <3> DEFINE e == BytesOf(x)
      <3>3. e \in Seq(0..255) /\ Len(e) = k - z /\ BytesOf(m) = Append(e, y)
        BY <2>2, <3>1, <3>2
      <3> HIDE DEF e
      <3>4. Len(Append(e, y)) = (k - z) + 1
        BY <2>4, <3>3
      <3> QED  BY <2>3, <3>3, <3>4
    <2> HIDE DEF m
    <2> QED  BY <2>3, <2>5, <2>6, <2>7, <2>8
  <1> HIDE DEF S
  <1>8. n - (z + 1) \in S
    <2>1. n - (z + 1) \in Nat
      BY <1>1, <1>2
    <2> QED  BY <1>6, <1>7, <2>1, SetInduction
  <1>9. z + 1 + (n - (z + 1)) = n /\ n - (z + 1) <= n - (z + 1) /\ n \in 0..n
    BY <1>1, <1>2
  <1>10. v[n] >= 1 /\ ArePrefixLegs(Legs(v[n]), b, z, h, n) /\ Len(BytesOf(v[n])) = n - z
    BY <1>8, <1>9, Zenon DEF S
  <1>11. v[n] \in Nat /\ v[n] # 0
    BY <1>3, <1>9, <1>10
  <1> QED  BY <1>4, <1>10, <1>11, Zenon DEF n

\* The legs that traverse_path takes one by one are the bits of the number.
LEMMA PathLegsAreLegs ==
    ASSUME NEW b \in Seq(0..255), ZeroBytes(b) < Len(b)
    PROVE  /\ IntOf(b) \in Nat /\ IntOf(b) # 0
           /\ Legs(IntOf(b)) = PathLegs(b)
           /\ Len(BytesOf(IntOf(b))) = Len(b) - ZeroBytes(b)
           /\ ZeroBytes(b) \in 0..Len(b) /\ Len(b) \in Nat
           /\ PathLegs(b) \in Seq({LEFT, RIGHT})
  <1> DEFINE z == ZeroBytes(b)
             m == b[z + 1]
             l == Legs(IntOf(b))
  <1>1. AreZeros(b, z)
    BY ZeroBytesFacts
  <1>2. Len(b) \in Nat /\ \A i \in 1..Len(b) : b[i] \in 0..255
    <2>1. b \in [1..Len(b) -> 0..255] /\ Len(b) \in Nat
      BY SeqIsFunction
    <2> QED  BY <2>1
  <1>3. z < Len(b) /\ z \in 0..Len(b) /\ m # 0
    BY <1>1 DEF AreZeros
  <1>4. m \in 1..255
    <2> HIDE DEF z
    <2>1. z + 1 \in 1..Len(b)
      BY <1>2, <1>3
    <2>2. b[z + 1] \in 0..255
      BY <1>2, <2>1
    <2> QED  BY <1>3, <2>2
  <1> HIDE DEF z
  <1>5. PICK h \in 0..7 : IsHead(m, h)
    <2> HIDE DEF m
    <2> QED  BY <1>4, HeadExists
  <1>6. BitLength(msb_mask(m)) = h + 1
    <2> HIDE DEF m
    <2> QED  BY <1>4, <1>5, MaskOfHead
  <1>7. /\ IntOf(b) \in Nat /\ IntOf(b) # 0
        /\ ArePrefixLegs(l, b, z, h, Len(b))
        /\ Len(BytesOf(IntOf(b))) = Len(b) - z
    BY <1>1, <1>3, <1>5, PrefixNumbers, Zenon
  <1> DEFINE n == 8 * (Len(b) - (z + 1)) + BitLength(msb_mask(m)) - 1
  <1>8. PathLegs(b) = [i \in 1..n |-> (b[Len(b) - (i - 1) \div 8] \div 2^((i - 1) % 8)) % 2]
    BY Zenon DEF PathLegs, z, m
  <1>9. n = 8 * (Len(b) - (z + 1)) + h
    <2> HIDE DEF m
    <2> QED  BY <1>2, <1>3, <1>6
  <1> HIDE DEF l, m, n
  <1>10. /\ l \in Seq({LEFT, RIGHT}) /\ Len(l) = n
         /\ \A i \in 1..n : l[i] = BitAt(b[Len(b) - (i - 1) \div 8], (i - 1) % 8)
    BY <1>7, <1>9 DEF ArePrefixLegs
  <1>11. ASSUME NEW i \in 1..n
         PROVE  l[i] = (b[Len(b) - (i - 1) \div 8] \div 2^((i - 1) % 8)) % 2
    <2> DEFINE j == (i - 1) % 8
               y == b[Len(b) - (i - 1) \div 8]
    <2>1. j \in 0..7
      <3>1. n \in Int
        BY <1>2, <1>3, <1>9
      <3> QED  BY <3>1
    <2>2. l[i] = BitAt(y, j)
      BY <1>10
    <2> HIDE DEF j, y
    <2>3. 2^j = Power(j)
      BY <2>1, PowerIs
    <2>4. BitAt(y, j) = (y \div 2^j) % 2
      BY <2>3, Zenon DEF BitAt
    <2>5. l[i] = (y \div 2^j) % 2
      BY <2>2, <2>4, Zenon
    <2> QED  BY <2>5, Zenon DEF y, j
  <1>12. l = PathLegs(b)
    <2>1. l = [i \in 1..n |-> l[i]]
      BY <1>10
    <2>2. l = [i \in 1..n |-> (b[Len(b) - (i - 1) \div 8] \div 2^((i - 1) % 8)) % 2]
      BY <1>11, <2>1, Zenon
    <2> QED  BY <1>8, <2>2, Zenon
  <1> QED  BY <1>2, <1>3, <1>7, <1>10, <1>12 DEF z, l

\* The zero path of any length.
LEMMA ZeroPath ==
    ASSUME NEW b \in Seq(0..255), ZeroBytes(b) = Len(b)
    PROVE  IntOf(b) = 0 /\ Len(b) \in Nat
  <1> DEFINE n == Len(b)
             v == Digits(b, n, 0, 256)
             Z == { k \in Nat : k <= n => v[k] = 0 }
  <1>1. n \in Nat /\ \A i \in 1..n : b[i] = 0
    <2>1. b \in [1..Len(b) -> 0..255] /\ Len(b) \in Nat
      BY SeqIsFunction
    <2>2. AreZeros(b, n)
      BY ZeroBytesFacts, Zenon
    <2> QED  BY <2>1, <2>2 DEF AreZeros
  <1>2. IntOf(b) = v[n]
    BY NumbersAreDigits, Zenon
  <1> HIDE DEF n
  <1>3. v \in [0..n -> Nat] /\ v[0] = 0 /\ \A k \in 1..n : v[k] = 256 * v[k - 1] + b[k]
    <2>1. \A k \in 1..n : b[k] \in Nat
      <3> HIDE DEF v, Z
      <3>1. 0 \in Nat
        OBVIOUS
      <3> QED  BY <1>1, <3>1, Zenon
    <2>2. n \in Nat
      BY <1>1
    <2>3. /\ Digits(b, n, 0, 256) \in [0..n -> Nat]
          /\ Digits(b, n, 0, 256)[0] = 0
          /\ \A k \in 1..n : Digits(b, n, 0, 256)[k] = 256 * Digits(b, n, 0, 256)[k - 1] + b[k]
      BY ONLY <2>1, <2>2, DigitsOfBytes
    <2> QED  BY <2>3, Zenon
  <1> HIDE DEF v
  <1>4. 0 \in Z
    BY <1>3
  <1>5. ASSUME NEW k \in Nat, k \in Z PROVE k + 1 \in Z
    <2> SUFFICES ASSUME k + 1 <= n PROVE v[k + 1] = 0
      OBVIOUS
    <2>1. v[k] = 0 /\ k + 1 \in 1..n /\ (k + 1) - 1 = k /\ b[k + 1] = 0
      BY <1>1, <1>5
    <2>2. v[k + 1] = 256 * v[(k + 1) - 1] + b[k + 1]
      BY <1>3, <2>1
    <2> QED  BY <2>1, <2>2
  <1> HIDE DEF Z
  <1>6. \A k \in Nat : k \in Z
    BY <1>4, <1>5, SetInduction
  <1>7. n \in Nat /\ n <= n
    BY <1>1
  <1>8. v[n] = 0
    BY <1>6, <1>7 DEF Z
  <1> QED  BY <1>1, <1>2, <1>8 DEF n

\* The value and the cost of a path, which is never free.
LEMMA PathCost ==
    ASSUME NEW b \in Seq(0..255), NEW e
    PROVE  /\ traverse_path(b, e) = ValueAtPath(b, e)
           /\ traverse_path(b, e).ok => traverse_path(b, e).cost \in Nat \ {0}
  <1> DEFINE z == ZeroBytes(b)
  <1>1. AreZeros(b, z)
    BY ZeroBytesFacts
  <1>2. CASE z = Len(b)
    <2>1. IntOf(b) = 0 /\ Len(b) \in Nat
      BY <1>2, ZeroPath
    <2> DEFINE N == Len(b)
    <2>2. ValueAtPath(b, e) = Returned(PATH_LOOKUP_BASE_COST + PATH_LOOKUP_COST_PER_LEG * (1 + 0)
                                       + PATH_LOOKUP_COST_PER_ZERO_BYTE * N, Null)
      BY <2>1, Zenon DEF ValueAtPath
    <2>3. traverse_path(b, e) = Returned((PATH_LOOKUP_BASE_COST + PATH_LOOKUP_COST_PER_LEG)
                                         + N * PATH_LOOKUP_COST_PER_ZERO_BYTE, Null)
      BY <1>2, Zenon DEF traverse_path
    <2> HIDE DEF N
    <2>4. /\ PATH_LOOKUP_BASE_COST + PATH_LOOKUP_COST_PER_LEG * (1 + 0)
             + PATH_LOOKUP_COST_PER_ZERO_BYTE * N = 44 + 4 * N
          /\ (PATH_LOOKUP_BASE_COST + PATH_LOOKUP_COST_PER_LEG)
             + N * PATH_LOOKUP_COST_PER_ZERO_BYTE = 44 + 4 * N
          /\ 44 + 4 * N \in Nat \ {0}
      <3>1. N \in Nat
        BY <2>1 DEF N
      <3> QED  BY <3>1 DEF PATH_LOOKUP_BASE_COST, PATH_LOOKUP_COST_PER_LEG,
               PATH_LOOKUP_COST_PER_ZERO_BYTE
    <2>11. ASSUME NEW r, NEW c, NEW x, r = Returned(c, x) PROVE r.cost = c
      BY <2>11 DEF Returned
    <2> QED  BY <2>2, <2>3, <2>4, <2>11, Zenon
  <1>3. CASE z # Len(b)
    <2>1. z < Len(b)
      BY <1>1, <1>3 DEF AreZeros
    <2> DEFINE n == IntOf(b)
               p == PathLegs(b)
               L == Len(p)
    <2>2. /\ n \in Nat /\ n # 0 /\ Legs(n) = p
          /\ Len(BytesOf(n)) = Len(b) - z
          /\ z \in 0..Len(b) /\ Len(b) \in Nat /\ p \in Seq({LEFT, RIGHT})
      BY <2>1, PathLegsAreLegs, Zenon
    <2> DEFINE zeros == Len(b) - Len(BytesOf(n))
               c == PATH_LOOKUP_BASE_COST + PATH_LOOKUP_COST_PER_LEG * (1 + L)
                    + PATH_LOOKUP_COST_PER_ZERO_BYTE * zeros
               d == (PATH_LOOKUP_BASE_COST + PATH_LOOKUP_COST_PER_LEG)
                    + z * PATH_LOOKUP_COST_PER_ZERO_BYTE + L * PATH_LOOKUP_COST_PER_LEG
    <2>3. ValueAtPath(b, e) = IF PathIntoAtom(e, p) THEN Raised("path into atom")
                              ELSE Returned(c, Follow(e, p))
      BY <2>2, Zenon DEF ValueAtPath
    <2>4. traverse_path(b, e) = IF PathIntoAtom(e, p) THEN Raised("path into atom")
                                ELSE Returned(d, Follow(e, p))
      BY <1>3, Zenon DEF traverse_path
    <2>5. L \in Nat /\ zeros = z /\ z \in Nat
      <3> HIDE DEF p, n, z
      <3> QED  BY <2>2
    <2>6. c = d /\ c \in Nat \ {0}
      <3> HIDE DEF L, z, zeros
      <3> QED  BY <2>5 DEF PATH_LOOKUP_BASE_COST, PATH_LOOKUP_COST_PER_LEG,
               PATH_LOOKUP_COST_PER_ZERO_BYTE
    <2>7. ASSUME NEW r, r = Raised("path into atom") PROVE ~r.ok
      BY <2>7 DEF Raised
    <2>8. ASSUME NEW r, NEW x, r = Returned(c, x) PROVE r.cost = c
      BY <2>8 DEF Returned
    <2> HIDE DEF c, d, p
    <2>9. CASE PathIntoAtom(e, p)
      BY <2>3, <2>4, <2>7, <2>9, Zenon
    <2>10. CASE ~PathIntoAtom(e, p)
      <3>1. traverse_path(b, e) = Returned(c, Follow(e, p)) /\ ValueAtPath(b, e) = Returned(c, Follow(e, p))
        BY <2>3, <2>4, <2>6, <2>10, Zenon
      <3> QED  BY <2>6, <2>8, <3>1, Zenon
    <2> QED  BY <2>9, <2>10
  <1> QED  BY <1>2, <1>3

-----------------------------------------------------------------------------
(***************************************************************************)
(* What is on the stack of values is data: the programs and arguments of   *)
(* Calls, parts of them, and what operators make of them.                  *)
(***************************************************************************)
\* A set of values that has the parts of its pairs, and the pairs of its parts:
\* every finite s-expression, say.
ClosedData(D) ==
    /\ Null \in D
    /\ \A l, r \in D : Pair(l, r) \in D
    /\ \A x \in D : \/ \E b \in Seq(0..255) : x = Atom(b) /\ Atom(b) \in D
                    \/ \E l, r \in D : x = Pair(l, r)

\* Operators are given data and return data, at a cost, or raise an error.
OperatorsOn(D) ==
    \A op \in Seq(0..255), xs \in D :
        \/ \E c \in Nat \ {0}, v \in D : OperatorLookup(op, xs) = Returned(c, v)
        \/ \E e : OperatorLookup(op, xs) = Raised(e)

CallsOn(D) ==
    \A call \in Calls : call.program \in D /\ call.args \in D /\ call.max_cost \in Nat

Data(D) == ClosedData(D) /\ OperatorsOn(D) /\ CallsOn(D)

LEMMA AtomFacts ==
    ASSUME NEW b
    PROVE  IsAtom(Atom(b)) /\ ~IsPair(Atom(b)) /\ Atom(b).atom = b
  BY DEF IsAtom, IsPair, Atom

LEMMA PairFacts ==
    ASSUME NEW l, NEW r
    PROVE  /\ IsPair(Pair(l, r)) /\ ~IsAtom(Pair(l, r)) /\ ~Nullp(Pair(l, r))
           /\ First(Pair(l, r)) = l /\ Rest(Pair(l, r)) = r
  <1>1. IsPair(Pair(l, r)) /\ ~IsAtom(Pair(l, r))
    BY DEF IsAtom, IsPair, Pair
  <1>2. First(Pair(l, r)) = l /\ Rest(Pair(l, r)) = r
    BY DEF First, Rest, Pair
  <1>3. IsAtom(Null)
    BY AtomFacts DEF Null
  <1> QED  BY <1>1, <1>2, <1>3, Zenon DEF Nullp

LEMMA NullFacts == IsAtom(Null) /\ ~IsPair(Null) /\ Nullp(Null)
  BY AtomFacts DEF Null, Nullp

LEMMA DataFacts1 ==
    ASSUME NEW D, ClosedData(D), NEW x \in D
    PROVE  /\ IsAtom(x) => x.atom \in Seq(0..255) /\ ~IsPair(x)
           /\ IsPair(x) => First(x) \in D /\ Rest(x) \in D /\ ~IsAtom(x)
           /\ IsAtom(x) \/ IsPair(x)
  <1>1. CASE \E b \in Seq(0..255) : x = Atom(b)
    <2>1. PICK b \in Seq(0..255) : x = Atom(b)
      BY <1>1
    <2> QED  BY <2>1, AtomFacts, Zenon
  <1>2. CASE \E l, r \in D : x = Pair(l, r)
    <2>1. PICK l \in D, r \in D : x = Pair(l, r)
      BY <1>2
    <2> QED  BY <2>1, PairFacts, Zenon
  <1> QED  BY <1>1, <1>2 DEF ClosedData

\* Walking down a tree stays in the data.
LEMMA NodesAreData ==
    ASSUME NEW D, ClosedData(D), NEW x \in D, NEW legs \in Seq({LEFT, RIGHT})
    PROVE  Follow(x, legs) \in D
  <1> DEFINE n == Len(legs)
             Goes(y, k) == IF IsAtom(y) THEN y ELSE y.pair[legs[k] + 1]
             B == [k \in 1..n |-> [y \in D |-> Goes(y, k)]]
             IsA(g) == g = [k \in 0..n |-> IF k = 0 THEN x ELSE Goes(g[k - 1], k)]
             at == CHOOSE g : IsA(g)
  <1>1. n \in Nat /\ \A k \in 1..n : legs[k] \in {LEFT, RIGHT}
    <2>1. legs \in [1..Len(legs) -> {LEFT, RIGHT}] /\ Len(legs) \in Nat
      BY SeqIsFunction
    <2> QED  BY <2>1
  <1>2. Follow(x, legs) = at[n]
    BY DEF Follow, NodeAt
  <1> HIDE DEF n
  <1>3. ASSUME NEW k \in 1..n, NEW y \in D PROVE Goes(y, k) \in D
    <2>1. CASE IsAtom(y)
      BY <2>1
    <2>2. CASE ~IsAtom(y)
      <3>1. First(y) \in D /\ Rest(y) \in D
        BY <2>2, DataFacts1
      <3>2. CASE legs[k] = LEFT
        <4>1. Goes(y, k) = First(y)
          BY <2>2, <3>2 DEF First, LEFT
        <4> QED  BY <3>1, <4>1
      <3>3. CASE legs[k] = RIGHT
        <4>1. Goes(y, k) = Rest(y)
          BY <2>2, <3>3 DEF Rest, RIGHT
        <4> QED  BY <3>1, <4>1
      <3> QED  BY <1>1, <3>2, <3>3
    <2> QED  BY <2>1, <2>2
  <1> HIDE DEF Goes
  <1>4. \A k \in 1..n, y \in D : B[k][y] = Goes(y, k)
    OBVIOUS
  <1> HIDE DEF B
  <1>5. StepsWithin(D, x, B, n)
    BY <1>3, <1>4 DEF StepsWithin
  <1>6. PICK g \in [0..n -> D] : g[0] = x /\ \A k \in 1..n : g[k] = B[k][g[k - 1]]
    BY <1>1, <1>5, StepsUpTo
  <1>7. IsA(g)
    <2>1. ASSUME NEW k \in 0..n PROVE g[k] = IF k = 0 THEN x ELSE Goes(g[k - 1], k)
      <3>1. CASE k = 0
        BY <1>6, <3>1
      <3>2. CASE k # 0
        <4>1. k \in 1..n /\ k - 1 \in 0..n
          BY <1>1, <3>2
        <4>2. g[k - 1] \in D
          BY <4>1
        <4> QED  BY <1>4, <1>6, <3>2, <4>1, <4>2
      <3> QED  BY <3>1, <3>2
    <2>2. g = [k \in 0..n |-> g[k]]
      OBVIOUS
    <2> QED  BY <2>1, <2>2, Zenon
  <1>8. IsA(at)
    <2> HIDE DEF IsA
    <2> QED  BY <1>7
  <1> HIDE DEF at
  <1> DEFINE S == { k \in 0..n : at[k] \in D }
  <1>9. \A k \in 0..n : at[k] = IF k = 0 THEN x ELSE Goes(at[k - 1], k)
    BY <1>8
  <1>10. 0 \in S
    BY <1>1, <1>9
  <1>11. ASSUME NEW k \in 0..(n - 1), k \in S PROVE k + 1 \in S
    <2>1. k + 1 \in 1..n /\ k + 1 \in 0..n /\ (k + 1) - 1 = k /\ k + 1 # 0
      BY <1>1
    <2>2. at[k + 1] = Goes(at[k], k + 1)
      BY <1>9, <2>1
    <2> QED  BY <1>3, <1>11, <2>1, <2>2
  <1> HIDE DEF S
  <1>12. n \in S
    <2>1. \A k \in 0..n : k \in S
      BY <1>1, <1>10, <1>11, BoundedInduction
    <2> QED  BY <1>1, <2>1
  <1> QED  BY <1>2, <1>12 DEF S

\* ... and so does what is left of a list.
LEMMA TailsAreData ==
    ASSUME NEW D, ClosedData(D), NEW x \in D
    PROVE  /\ \A n \in Nat : Tail_(x, n) \in D
           /\ \A n \in Nat : IsPair(Tail_(x, n + 1)) => IsPair(Tail_(x, n))
  <1> DEFINE Goes(y) == IF IsPair(y) THEN Rest(y) ELSE y
             Z == {0}
             P == [k \in Nat |-> k - 1]
             B == [k \in Nat |-> [y \in D |-> Goes(y)]]
             IsT(g) == g = [k \in Nat |-> IF k = 0 THEN x ELSE Goes(g[k - 1])]
             t == CHOOSE g : IsT(g)
  <1>1. \A n \in Nat : Tail_(x, n) = t[n]
    BY DEF Tail_
  <1>2. ASSUME NEW y \in D PROVE Goes(y) \in D
    BY DataFacts1
  <1>a. ASSUME NEW y, IsPair(Goes(y)) PROVE IsPair(y)
    BY <1>a
  <1> HIDE DEF Goes
  <1>3. \A k \in Nat, y \in D : B[k][y] = Goes(y)
    OBVIOUS
  <1>4. \A k \in Nat : (k \in Z <=> k = 0) /\ P[k] = k - 1 /\ (k \notin Z => P[k] \in 0..(k - 1))
    OBVIOUS
  <1>5. 0 \in Z
    OBVIOUS
  <1> HIDE DEF B, P, Z
  <1>6. RecursesWithin(D, x, Z, P, B)
    BY <1>2, <1>3, <1>4, <1>5 DEF RecursesWithin
  <1>7. PICK g \in [Nat -> D] : \A k \in Nat : g[k] = IF k \in Z THEN x ELSE B[k][g[P[k]]]
    BY <1>6, RecursiveOnNat
  <1>8. IsT(g)
    <2>1. ASSUME NEW k \in Nat PROVE g[k] = IF k = 0 THEN x ELSE Goes(g[k - 1])
      <3>1. CASE k = 0
        BY <1>4, <1>7, <3>1
      <3>2. CASE k # 0
        <4>1. k - 1 \in Nat
          BY <3>2
        <4>2. g[k - 1] \in D
          BY <4>1
        <4> QED  BY <1>3, <1>4, <1>7, <3>2, <4>2
      <3> QED  BY <3>1, <3>2
    <2>2. g = [k \in Nat |-> g[k]]
      OBVIOUS
    <2> QED  BY <2>1, <2>2, Zenon
  <1>9. IsT(t)
    <2> HIDE DEF IsT
    <2> QED  BY <1>8
  <1> HIDE DEF t
  <1>10. \A k \in Nat : t[k] = IF k = 0 THEN x ELSE Goes(t[k - 1])
    BY <1>9
  <1> DEFINE S == { k \in Nat : t[k] \in D }
  <1>11. 0 \in S
    BY <1>10
  <1>12. ASSUME NEW k \in Nat PROVE t[k + 1] = Goes(t[k])
    <2>1. k + 1 \in Nat /\ (k + 1) - 1 = k /\ k + 1 # 0
      OBVIOUS
    <2> QED  BY <1>10, <2>1
  <1>13. \A k \in Nat : k \in S => k + 1 \in S
    BY <1>2, <1>12
  <1> HIDE DEF S
  <1>14. \A k \in Nat : k \in S
    BY <1>11, <1>13, SetInduction
  <1>15. \A k \in Nat : t[k] \in D
    BY <1>14 DEF S
  <1>16. ASSUME NEW k \in Nat PROVE IsPair(t[k + 1]) => IsPair(t[k])
    BY <1>a, <1>12
  <1> QED  BY <1>1, <1>15, <1>16

\* data at a cost, or an error
OutcomeOn(D, o) == \/ \E c \in Nat \ {0}, v \in D : o = Returned(c, v)
                   \/ \E e : o = Raised(e)

LEMMA OutcomeFacts ==
    /\ \A c, v : Returned(c, v).ok /\ Returned(c, v).cost = c /\ Returned(c, v).value = v
    /\ \A e : ~Raised(e).ok /\ Raised(e).error = e
  BY DEF Returned, Raised

LEMMA PathOutcome ==
    ASSUME NEW D, ClosedData(D), NEW b \in Seq(0..255), NEW e \in D
    PROVE  OutcomeOn(D, traverse_path(b, e))
  <1> DEFINE z == ZeroBytes(b)
             r == traverse_path(b, e)
             c1 == (PATH_LOOKUP_BASE_COST + PATH_LOOKUP_COST_PER_LEG) + z * PATH_LOOKUP_COST_PER_ZERO_BYTE
             p == PathLegs(b)
             c2 == c1 + Len(p) * PATH_LOOKUP_COST_PER_LEG
  <1>1. r = IF z = Len(b) THEN Returned(c1, Null)
            ELSE IF PathIntoAtom(e, p) THEN Raised("path into atom")
            ELSE Returned(c2, Follow(e, p))
    BY Zenon DEF traverse_path
  <1>2. r.ok => r.cost \in Nat \ {0}
    BY PathCost, Zenon
  <1>3. z # Len(b) => Follow(e, p) \in D
    <2> SUFFICES ASSUME z # Len(b) PROVE Follow(e, p) \in D
      OBVIOUS
    <2>1. AreZeros(b, z)
      BY ZeroBytesFacts
    <2>2. z < Len(b)
      BY <2>1 DEF AreZeros
    <2>3. p \in Seq({LEFT, RIGHT})
      BY <2>2, PathLegsAreLegs, Zenon
    <2> HIDE DEF p
    <2> QED  BY <2>3, NodesAreData
  <1>4. Null \in D
    BY DEF ClosedData
  <1> HIDE DEF z, r, c1, c2, p
  <1>5. ASSUME NEW c, NEW v \in D, r = Returned(c, v) PROVE OutcomeOn(D, r)
    <2>1. r.ok /\ r.cost = c
      BY <1>5 DEF Returned
    <2>2. c \in Nat \ {0}
      BY <1>2, <2>1, Zenon
    <2> QED  BY <1>5, <2>2, Zenon DEF OutcomeOn
  <1>6. CASE z = Len(b)
    <2>1. r = Returned(c1, Null)
      BY <1>1, <1>6, Zenon
    <2> QED  BY <1>4, <1>5, <2>1, Zenon DEF r
  <1>7. CASE z # Len(b) /\ PathIntoAtom(e, p)
    <2>1. r = Raised("path into atom")
      BY <1>1, <1>7, Zenon
    <2>2. OutcomeOn(D, r)
      BY <2>1, Zenon DEF OutcomeOn
    <2> QED  BY <2>2, Zenon DEF r
  <1>8. CASE z # Len(b) /\ ~PathIntoAtom(e, p)
    <2>1. r = Returned(c2, Follow(e, p)) /\ Follow(e, p) \in D
      BY <1>1, <1>3, <1>8, Zenon
    <2>2. OutcomeOn(D, r)
      BY <1>5, <2>1, Zenon
    <2> QED  BY <2>2, Zenon DEF r
  <1> QED  BY <1>6, <1>7, <1>8, Zenon

-----------------------------------------------------------------------------
\* The lengths that the pops of an operation need.
LEMMA StackNeeds ==
    ASSUME IInv, NEW name, Doing(name)
    PROVE  /\ Len(value_stack) \in Nat /\ Len(value_stack) >= 1
           /\ name = "eval_op" => IsPair(FromTop(value_stack, 1))
           /\ name = "apply_op" => IsAtom(FromTop(value_stack, 2))
           /\ name \in {"swap_op", "cons_op", "apply_op"} => Len(value_stack) >= 2
  <1> DEFINE n == Len(op_stack)
             o == op_stack
  <1>1. Ready(o, value_stack) /\ o # <<>> /\ o[n].f = name
    BY TopIs
  <1>2. /\ n \in Nat \ {0} /\ Pending(o, n - 1) \in Nat
        /\ Pending(o, n) = Pending(o, n - 1) + (IF o[n].f \in {"cons_op", "apply_op"} THEN 1 ELSE 0)
    BY <1>1, PopOp DEF Ready
  <1>3. Len(value_stack) = Pending(o, n) + 1
    BY <1>1 DEF Ready
  <1>4. name = "eval_op" => IsPair(FromTop(value_stack, 1))
    BY <1>1, PopEval
  <1>5. name = "apply_op" => IsAtom(FromTop(value_stack, 2))
    BY <1>1, PopTwo
  <1>6. ASSUME name = "swap_op" PROVE Pending(o, n) >= 1
    <2>1. Settled(o, value_stack, n)
      BY <1>1, <1>6 DEF Ready, EvalIsNext
    <2>2. n > 2 /\ o[n - 2].f = "cons_op"
      <3>1. n \in 1..n
        BY <1>2
      <3> HIDE DEF n, o
      <3> QED  BY <1>1, <1>6, <2>1, <3>1 DEF Settled
    <2>3. n - 3 \in Nat /\ n - 3 + 1 = n - 2 /\ n - 2 \in 0..n
      BY <1>2, <2>2
    <2> HIDE DEF n, o
    <2>4. Pending(o, n - 3) \in Nat
      BY <2>3, PendingFinite
    <2>5. Pending(o, n - 2) = Pending(o, n - 3) + 1
      <3>1. Pending(o, n - 3 + 1) = Pending(o, n - 3)
              + (IF o[n - 3 + 1].f \in {"cons_op", "apply_op"} THEN 1 ELSE 0)
        BY <2>3, PendingStep
      <3> QED  BY <2>2, <2>3, <3>1
    <2>6. Pending(o, n - 2) <= Pending(o, n)
      BY <1>2, <2>3, PendingGrows
    <2>7. Pending(o, n) \in Nat
      BY <1>2, PendingFinite
    <2> QED  BY <2>4, <2>5, <2>6, <2>7
  <1> HIDE DEF n, o
  <1>7. Pending(o, n) \in Nat
    BY <1>2
  <1>8. name \in {"swap_op", "cons_op", "apply_op"} => Pending(o, n) >= 1
    BY <1>1, <1>2, <1>6
  <1> QED  BY <1>3, <1>4, <1>5, <1>7, <1>8

LEMMA StackData ==
    ASSUME NEW D, NEW s \in Seq(D), NEW n \in 1..2, Len(s) >= n
    PROVE  /\ Popped(s, n) \in Seq(D) /\ Len(Popped(s, n)) = Len(s) - n
           /\ \A i \in 1..(Len(s) - n) : Popped(s, n)[i] = s[i]
           /\ \A i \in 1..n : FromTop(s, i) \in D
           /\ Len(s) \in Nat
  <1>1. s \in [1..Len(s) -> D] /\ Len(s) \in Nat
    BY SeqIsFunction
  <1>2. IsSeq(s)
    BY SeqOfItsRange DEF IsSeq
  <1>3. /\ IsSeq(Popped(s, n)) /\ Len(Popped(s, n)) = Len(s) - n
        /\ \A i \in 1..(Len(s) - n) : Popped(s, n)[i] = s[i]
    BY <1>2, PoppedFacts
  <1>4. \A i \in 1..n : FromTop(s, i) \in D
    BY <1>1 DEF FromTop
  <1>5. Popped(s, n) \in Seq(D)
    BY <1>1 DEF Popped
  <1> QED  BY <1>1, <1>3, <1>4, <1>5

-----------------------------------------------------------------------------
\* Values are data, and the cost is within the limit.
DInv(D) == /\ program \in D /\ args \in D /\ max_cost \in Nat
           /\ value_stack \in Seq(D) /\ operands \in D /\ env \in D
           /\ cost \in Nat
           /\ pc # "raised" /\ max_cost # 0 => cost <= max_cost

\* what WorkCosts says of a step
Works == pc \in {"loop", "operands"}
         /\ (Doing("eval_op") \/ Doing("apply_op") \/ pc = "operands")

StepCosts == pc' = "loop" /\ Works => cost' > cost

\* An operation keeps the values data, and costs something if it works.
LEMMA ReturnCosts ==
    ASSUME NEW D, DInv(D), NEW c \in Nat, NEW ops, NEW values \in Seq(D), Return(c, ops, values),
           c # 0 \/ ~Works
    PROVE  DInv(D)' /\ StepCosts
  <1>1. /\ cost' = cost + c
        /\ IF max_cost # 0 /\ cost' > max_cost
           THEN pc' = "raised" /\ error' = "cost exceeded"
           ELSE pc' = "loop" /\ UNCHANGED error
        /\ value_stack' = values
        /\ program' = program /\ args' = args /\ max_cost' = max_cost
        /\ operands' = operands /\ env' = env
    BY DEF Return, Charge, arguments, locals
  <1>2. /\ program \in D /\ args \in D /\ max_cost \in Nat
        /\ operands \in D /\ env \in D /\ cost \in Nat
    BY DEF DInv
  <1>3. cost' \in Nat /\ (c # 0 => cost' > cost)
    <2>1. cost' = cost + c /\ cost \in Nat
      BY <1>1, <1>2
    <2> QED  BY <2>1
  <1>4. pc' # "raised" /\ max_cost' # 0 => cost' <= max_cost'
    <2>1. max_cost' = max_cost /\ max_cost \in Nat /\ (max_cost # 0 /\ cost' > max_cost => pc' = "raised")
      BY <1>1, <1>2, Zenon
    <2> QED  BY <1>3, <2>1
  <1>5. DInv(D)'
    <2>1. /\ program' \in D /\ args' \in D /\ max_cost' \in Nat
          /\ operands' \in D /\ env' \in D /\ value_stack' \in Seq(D)
      BY <1>1, <1>2
    <2> QED  BY <1>3, <1>4, <2>1 DEF DInv
  <1>6. StepCosts
    BY <1>3, Zenon DEF StepCosts
  <1> QED  BY <1>5, <1>6

LEMMA RaiseCosts ==
    ASSUME NEW D, DInv(D), NEW e, Raise(e)
    PROVE  DInv(D)' /\ StepCosts
  BY DEF Raise, DInv, StepCosts, arguments, locals

LEMMA DeliverCosts ==
    ASSUME NEW D, DInv(D), NEW o, OutcomeOn(D, o), NEW ops, NEW values \in Seq(D),
           Deliver(o, ops, values)
    PROVE  DInv(D)' /\ StepCosts
  <1>1. CASE \E c \in Nat \ {0}, v \in D : o = Returned(c, v)
    <2>1. PICK c \in Nat \ {0}, v \in D : o = Returned(c, v)
      BY <1>1
    <2>2. Return(c, ops, Append(values, v))
      BY <2>1, OutcomeFacts DEF Deliver
    <2>3. Append(values, v) \in Seq(D)
      OBVIOUS
    <2> QED  BY <2>2, <2>3, ReturnCosts
  <1>2. CASE \E e : o = Raised(e)
    <2>1. PICK e : o = Raised(e)
      BY <1>2
    <2>2. Raise(e)
      BY <2>1, OutcomeFacts DEF Deliver
    <2> QED  BY <2>2, RaiseCosts
  <1> QED  BY <1>1, <1>2 DEF OutcomeOn

\* What eval_op starts from.
LEMMA EvalData ==
    ASSUME NEW D, ClosedData(D), DInv(D), IInv, Doing("eval_op")
    PROVE  /\ ValuesBelow \in Seq(D) /\ Form \in D /\ FormEnv \in D
           /\ FromTop(value_stack, 1) = Pair(Form, FormEnv)
           /\ Len(value_stack) \in Nat /\ Len(value_stack) >= 1
  <1>1. Len(value_stack) \in Nat /\ Len(value_stack) >= 1 /\ IsPair(FromTop(value_stack, 1))
    BY StackNeeds
  <1>2. value_stack \in Seq(D)
    BY DEF DInv
  <1>3. Popped(value_stack, 1) \in Seq(D) /\ FromTop(value_stack, 1) \in D
    BY <1>1, <1>2, StackData
  <1> DEFINE x == FromTop(value_stack, 1)
  <1>4. x \in D /\ IsPair(x)
    BY <1>1, <1>3
  <1>5. ValuesBelow = Popped(value_stack, 1) /\ Form = First(x) /\ FormEnv = Rest(x)
    BY Zenon DEF ValuesBelow, Form, FormEnv
  <1> HIDE DEF x
  <1>6. PICK l \in D, r \in D : x = Pair(l, r)
    <2>1. ~IsAtom(x)
      BY <1>4, DataFacts1
    <2> QED  BY <1>4, <2>1, AtomFacts DEF ClosedData
  <1>7. First(x) = l /\ Rest(x) = r
    BY <1>6, PairFacts, Zenon
  <1> QED  BY <1>1, <1>3, <1>5, <1>6, <1>7 DEF x

LEMMA EvalCosts ==
    ASSUME NEW D, Data(D), DInv(D), IInv, Eval
    PROVE  DInv(D)' /\ StepCosts
  <1>0. ClosedData(D)
    BY DEF Data
  <1>1. CASE EvalPath
    <2>1. ValuesBelow \in Seq(D) /\ Form \in D /\ FormEnv \in D /\ IsAtom(Form)
      BY <1>0, <1>1, EvalData DEF EvalPath
    <2>2. Form.atom \in Seq(0..255)
      BY <1>0, <2>1, DataFacts1
    <2>3. OutcomeOn(D, traverse_path(Form.atom, FormEnv))
      BY <1>0, <2>1, <2>2, PathOutcome
    <2>4. Deliver(traverse_path(Form.atom, FormEnv), OpsBelow, ValuesBelow)
      BY <1>1 DEF EvalPath
    <2> QED  BY <2>1, <2>3, <2>4, DeliverCosts
  <1>2. CASE EvalBracketed
    <2> DEFINE x == First(First(Form))
               o == Append(OpsBelow, Op("apply_op"))
               v == ValuesBelow \o <<x, Rest(Form)>>
    <2>1. ValuesBelow \in Seq(D) /\ Form \in D /\ IsPair(Form) /\ IsPair(First(Form))
      BY <1>0, <1>2, EvalData DEF EvalBracketed
    <2>2. First(Form) \in D /\ Rest(Form) \in D
      BY <1>0, <2>1, DataFacts1
    <2>3. x \in D
      BY <1>0, <2>1, <2>2, DataFacts1
    <2>4. CASE IsAtom(x) /\ Nullp(Rest(First(Form)))
      <3>1. Return(APPLY_COST, o, v)
        BY <1>2, <2>4 DEF EvalBracketed
      <3>2. v \in Seq(D)
        <4> HIDE DEF x
        <4> QED  BY <2>1, <2>2, <2>3
      <3>3. APPLY_COST \in Nat /\ APPLY_COST # 0
        BY DEF APPLY_COST
      <3> HIDE DEF v, o
      <3> QED  BY <3>1, <3>2, <3>3, ReturnCosts
    <2>5. CASE ~(IsAtom(x) /\ Nullp(Rest(First(Form))))
      <3>1. Raise("in ((X)...) syntax X must be lone atom")
        BY <1>2, <2>5 DEF EvalBracketed
      <3> QED  BY <3>1, RaiseCosts
    <2> QED  BY <2>4, <2>5
  <1>3. CASE EvalQuote
    <2>1. ValuesBelow \in Seq(D) /\ Form \in D /\ IsPair(Form)
      BY <1>0, <1>3, EvalData DEF EvalQuote, EvalsOperator
    <2>2. Rest(Form) \in D
      BY <1>0, <2>1, DataFacts1
    <2>3. Return(QUOTE_COST, OpsBelow, Append(ValuesBelow, Rest(Form)))
      BY <1>3 DEF EvalQuote
    <2>4. Append(ValuesBelow, Rest(Form)) \in Seq(D)
      BY <2>1, <2>2
    <2>5. QUOTE_COST \in Nat /\ QUOTE_COST # 0
      BY DEF QUOTE_COST
    <2> QED  BY <2>3, <2>4, <2>5, ReturnCosts
  <1>4. CASE EvalOperator
    <2>1. ValuesBelow \in Seq(D) /\ Form \in D /\ FormEnv \in D /\ IsPair(Form)
      BY <1>0, <1>4, EvalData DEF EvalOperator, EvalsOperator
    <2>2. First(Form) \in D /\ Rest(Form) \in D
      BY <1>0, <2>1, DataFacts1
    <2>3. Append(ValuesBelow, First(Form)) \in Seq(D)
      BY <2>1, <2>2
    <2>4. /\ value_stack' = Append(ValuesBelow, First(Form))
          /\ pc = "loop" /\ pc' = "operands" /\ operands' = Rest(Form) /\ env' = FormEnv
          /\ program' = program /\ args' = args /\ max_cost' = max_cost /\ cost' = cost
      BY <1>4 DEF EvalOperator, EvalsOperator, Doing, arguments
    <2>5. DInv(D)'
      BY <2>1, <2>2, <2>3, <2>4 DEF DInv
    <2>6. StepCosts
      BY <2>4 DEF StepCosts
    <2> QED  BY <2>5, <2>6
  <1>5. CASE EvalOperand
    <2>1. operands \in D /\ env \in D /\ value_stack \in Seq(D)
      BY DEF DInv
    <2>2. CASE IsPair(operands)
      <3> DEFINE x == Pair(First(operands), env)
      <3>1. First(operands) \in D /\ Rest(operands) \in D
        BY <1>0, <2>1, <2>2, DataFacts1
      <3>2. x \in D
        BY <1>0, <2>1, <3>1 DEF ClosedData
      <3>3. /\ value_stack' = Append(value_stack, x)
            /\ pc = "operands" /\ pc' = pc /\ operands' = Rest(operands) /\ env' = env
            /\ program' = program /\ args' = args /\ max_cost' = max_cost /\ cost' = cost
        BY <1>5, <2>2 DEF EvalOperand, arguments
      <3> HIDE DEF x
      <3>4. DInv(D)'
        BY <2>1, <3>1, <3>2, <3>3 DEF DInv
      <3>5. StepCosts
        BY <3>3 DEF StepCosts
      <3> QED  BY <3>4, <3>5
    <2>3. CASE ~IsPair(operands)
      BY <1>5, <2>3, RaiseCosts DEF EvalOperand
    <2> QED  BY <2>2, <2>3
  <1>6. CASE EvalOperandsEnd
    <2> DEFINE v == Append(value_stack, Null)
    <2>1. /\ cost' = cost + 1
          /\ (max_cost # 0 /\ cost' > max_cost => pc' = "raised")
          /\ value_stack' = v
          /\ program' = program /\ args' = args /\ max_cost' = max_cost
          /\ operands' = Null /\ env' = Null
      BY <1>6 DEF EvalOperandsEnd, Charge, arguments
    <2>2. v \in Seq(D) /\ Null \in D
      BY <1>0 DEF DInv, ClosedData
    <2> HIDE DEF v
    <2>3. program \in D /\ args \in D /\ max_cost \in Nat /\ cost \in Nat
      BY DEF DInv
    <2>4. cost' \in Nat /\ cost' > cost
      <3>1. cost' = cost + 1 /\ cost \in Nat
        BY <2>1, <2>3
      <3> QED  BY <3>1
    <2>5. pc' # "raised" /\ max_cost' # 0 => cost' <= max_cost'
      <3>1. max_cost' = max_cost /\ max_cost \in Nat /\ (max_cost # 0 /\ cost' > max_cost => pc' = "raised")
        BY <2>1, <2>3, Zenon
      <3> QED  BY <2>4, <3>1
    <2>6. /\ program' \in D /\ args' \in D /\ max_cost' \in Nat
          /\ operands' \in D /\ env' \in D /\ value_stack' \in Seq(D)
      BY <2>1, <2>2, <2>3
    <2>7. DInv(D)'
      BY <2>4, <2>5, <2>6 DEF DInv
    <2>8. StepCosts
      BY <2>4, Zenon DEF StepCosts
    <2> QED  BY <2>7, <2>8
  <1> QED  BY <1>1, <1>2, <1>3, <1>4, <1>5, <1>6 DEF Eval

LEMMA NextCosts ==
    ASSUME NEW D, Data(D), DInv(D), IInv, Next
    PROVE  DInv(D)' /\ StepCosts
  <1>0. ClosedData(D) /\ value_stack \in Seq(D)
    BY DEF Data, DInv
  <1>a. ASSUME NEW name, Doing(name), name \in {"swap_op", "cons_op", "apply_op"}
        PROVE  /\ Popped(value_stack, 2) \in Seq(D)
               /\ FromTop(value_stack, 1) \in D /\ FromTop(value_stack, 2) \in D
    <2>1. Len(value_stack) >= 2
      BY <1>a, StackNeeds
    <2> QED  BY <1>0, <2>1, StackData
  <1>b. ASSUME NEW name, Doing(name), name \notin {"eval_op", "apply_op"}
        PROVE  ~Works
    BY <1>b DEF Doing, Works
  <1>1. CASE Eval
    BY <1>1, EvalCosts
  <1>2. CASE SwapOp
    <2> DEFINE v == Popped(value_stack, 2) \o <<FromTop(value_stack, 1), FromTop(value_stack, 2)>>
    <2>1. Doing("swap_op") /\ Return(0, Popped(op_stack, 1), v)
      BY <1>2 DEF SwapOp
    <2>2. v \in Seq(D)
      BY <1>a, <2>1
    <2>3. ~Works
      BY <1>b, <2>1
    <2> HIDE DEF v
    <2> QED  BY <2>1, <2>2, <2>3, ReturnCosts
  <1>3. CASE ConsOp
    <2> DEFINE x == Pair(FromTop(value_stack, 1), FromTop(value_stack, 2))
               v == Append(Popped(value_stack, 2), x)
    <2>1. Doing("cons_op") /\ Return(0, Popped(op_stack, 1), v)
      BY <1>3 DEF ConsOp
    <2>2. /\ Popped(value_stack, 2) \in Seq(D)
          /\ FromTop(value_stack, 1) \in D /\ FromTop(value_stack, 2) \in D
      BY <1>a, <2>1
    <2>3. x \in D
      BY <1>0, <2>2 DEF ClosedData
    <2>4. ~Works
      BY <1>b, <2>1
    <2> HIDE DEF x
    <2>5. v \in Seq(D)
      BY <2>2, <2>3
    <2> HIDE DEF v
    <2> QED  BY <2>1, <2>4, <2>5, ReturnCosts
  <1>4. CASE InvokeContextOp
    <2>1. Doing("context_op") /\ Return(0, Popped(op_stack, 1), value_stack)
      BY <1>4 DEF InvokeContextOp
    <2>2. ~Works
      BY <1>b, <2>1
    <2> QED  BY <1>0, <2>1, <2>2, ReturnCosts
  <1>5. CASE ApplyProgram
    <2>1. Doing("apply_op") /\ Popped(value_stack, 2) \in Seq(D) /\ OperandList \in D
      BY <1>5, <1>a DEF ApplyProgram, OperandList
    <2>2. CASE ListLenIs(OperandList, 2)
      <3> DEFINE x == Pair(Item(OperandList, 1), Item(OperandList, 2))
                 v == Append(Popped(value_stack, 2), x)
      <3>1. Return(APPLY_COST, Append(Popped(op_stack, 1), Op("eval_op")), v)
        BY <1>5, <2>2 DEF ApplyProgram
      <3>2. x \in D
        <4>1. IsPair(Tail_(OperandList, 1))
          BY <2>2 DEF ListLenIs
        <4>2. /\ Tail_(OperandList, 0) \in D /\ Tail_(OperandList, 1) \in D
              /\ IsPair(Tail_(OperandList, 0))
          <5>1. 0 \in Nat /\ 1 \in Nat /\ 0 + 1 = 1
            OBVIOUS
          <5>2. /\ \A n \in Nat : Tail_(OperandList, n) \in D
                /\ \A n \in Nat : IsPair(Tail_(OperandList, n + 1)) => IsPair(Tail_(OperandList, n))
            BY <1>0, <2>1, TailsAreData, Zenon
          <5>3. IsPair(Tail_(OperandList, 0 + 1)) => IsPair(Tail_(OperandList, 0))
            BY <5>1, <5>2, Zenon
          <5> QED  BY <4>1, <5>1, <5>2, <5>3
        <4>3. Item(OperandList, 1) \in D /\ Item(OperandList, 2) \in D
          BY <1>0, <4>1, <4>2, DataFacts1 DEF Item
        <4> QED  BY <1>0, <4>3 DEF ClosedData
      <3>3. APPLY_COST \in Nat /\ APPLY_COST # 0
        BY DEF APPLY_COST
      <3> HIDE DEF x
      <3>4. v \in Seq(D)
        BY <2>1, <3>2
      <3> HIDE DEF v
      <3> QED  BY <3>1, <3>3, <3>4, ReturnCosts
    <2>3. CASE ~ListLenIs(OperandList, 2)
      BY <1>5, <2>3, RaiseCosts DEF ApplyProgram
    <2> QED  BY <2>2, <2>3
  <1>6. CASE ApplyOperator
    <2>1. /\ Doing("apply_op") /\ Popped(value_stack, 2) \in Seq(D)
          /\ OperandList \in D /\ Operator \in D /\ IsAtom(Operator)
      BY <1>6, <1>a DEF ApplyOperator, OperandList, Operator
    <2>2. Operator.atom \in Seq(0..255)
      BY <1>0, <2>1, DataFacts1
    <2>3. OutcomeOn(D, OperatorLookup(Operator.atom, OperandList))
      BY <2>1, <2>2, Zenon DEF Data, OperatorsOn, OutcomeOn
    <2>4. Deliver(OperatorLookup(Operator.atom, OperandList), Popped(op_stack, 1), Popped(value_stack, 2))
      BY <1>6 DEF ApplyOperator
    <2> QED  BY <2>1, <2>3, <2>4, DeliverCosts
  <1>7. CASE EndRun
    <2>1. /\ value_stack' = value_stack /\ pc = "loop" /\ pc' = "done" /\ operands' = operands /\ env' = env
          /\ program' = program /\ args' = args /\ max_cost' = max_cost /\ cost' = cost
      BY <1>7 DEF EndRun, arguments, locals
    <2>2. DInv(D)'
      BY <2>1 DEF DInv
    <2> QED  BY <2>1, <2>2 DEF StepCosts
  <1>8. CASE Terminated
    <2>1. /\ value_stack' = value_stack /\ pc' = pc /\ operands' = operands /\ env' = env
          /\ program' = program /\ args' = args /\ max_cost' = max_cost /\ cost' = cost
          /\ pc \in {"done", "raised"}
      BY <1>8 DEF Terminated, Stopped, vars, arguments, locals
    <2>2. DInv(D)'
      BY <2>1 DEF DInv
    <2> QED  BY <2>1, <2>2 DEF StepCosts
  <1> QED  BY <1>1, <1>2, <1>3, <1>4, <1>5, <1>6, <1>7, <1>8 DEF Next

LEMMA InitData ==
    ASSUME NEW D, Data(D), Init
    PROVE  DInv(D)
  <1>1. PICK call \in Calls :
           program = call.program /\ args = call.args /\ max_cost = call.max_cost
    BY DEF Init
  <1>2. program \in D /\ args \in D /\ max_cost \in Nat
    BY <1>1 DEF Data, CallsOn
  <1> DEFINE x == Pair(program, args)
  <1>3. Null \in D /\ x \in D
    BY <1>2 DEF Data, ClosedData
  <1>4. value_stack = <<x>> /\ cost = 0 /\ operands = Null /\ env = Null
    BY DEF Init
  <1> HIDE DEF x
  <1>5. value_stack \in Seq(D)
    BY <1>3, <1>4
  <1> QED  BY <1>2, <1>3, <1>4, <1>5 DEF DInv

LEMMA StutterData ==
    ASSUME NEW D, DInv(D), UNCHANGED vars
    PROVE  DInv(D)'
  BY DEF DInv, vars, arguments, locals

\* Every evaluation that goes well costs something, whatever operators there
\* are, as long as these cost something themselves: the limit limits the work.
THEOREM WorkCostsHolds ==
    ASSUME NEW CONSTANT D, Data(D)
    PROVE  Spec => WorkCosts
  <1>1. Init => DInv(D)
    BY InitData
  <1>2. IInv /\ DInv(D) /\ [Next]_vars => DInv(D)'
    BY NextCosts, StutterData
  <1>3. IInv /\ DInv(D) /\ [Next]_vars
          => [ (pc' = "loop" /\ (Doing("eval_op") \/ Doing("apply_op") \/ pc = "operands"))
               => cost' > cost ]_vars
    <2> SUFFICES ASSUME IInv, DInv(D), Next, 
                        pc' = "loop", Doing("eval_op") \/ Doing("apply_op") \/ pc = "operands"
                 PROVE  cost' > cost
      OBVIOUS
    <2>1. StepCosts
      BY NextCosts
    <2>2. Works
      BY DEF Works, Doing
    <2> QED  BY <2>1, <2>2 DEF StepCosts
  <1> QED  BY <1>1, <1>2, <1>3, Invariance, PTL DEF Spec, WorkCosts

-----------------------------------------------------------------------------
(***************************************************************************)
(* What the stacks are going to compute.  A point of the evaluation is an  *)
(* outcome whose value is a stack of values: its cost and these values, or *)
(* an error that nothing changes any more.  After is an operation that     *)
(* takes one point to another, and op_stack a sequence of these.           *)
(***************************************************************************)
\* The value of an outcome is pushed.
Then(o, values) == IF o.ok THEN Returned(o.cost, Append(values, o.value)) ELSE Raised(o.error)

Evaluated(limit, x, values, c) == Then(Meaning(limit, First(x), Rest(x), c), values)

\* What an operation makes of a point, whatever it takes for this.
DoOp(limit, f, s) ==
    LET x == FromTop(s.value, 1)
        y == FromTop(s.value, 2)
    IN  IF ~s.ok THEN s
        ELSE IF f = "swap_op" THEN Returned(s.cost, Popped(s.value, 2) \o <<x, y>>)
        ELSE IF f = "cons_op" THEN Returned(s.cost, Append(Popped(s.value, 2), Pair(x, y)))
        ELSE IF f = "eval_op" THEN Evaluated(limit, x, Popped(s.value, 1), s.cost)
        ELSE IF f = "apply_op" THEN Then(Applied(limit, y.atom, x, s.cost), Popped(s.value, 2))
        ELSE s

\* The callable of a form is to be given the value of that form.
SeesValue(limit, op, s, c) ==
    op.f = "context_op" /\ s.ok =>
        \E c0 \in 0..c : Meaning(limit, op.form, op.env, c0) = Returned(s.cost, FromTop(s.value, 1))

\* From the point s, at a cost up to c, the operations lead to this answer.
IsPlan(limit, answer, ops, s, c, r) ==
    /\ r[0] = Then(answer, <<>>) /\ r[Len(ops)] = s
    /\ \A i \in 1..Len(ops) : /\ r[i - 1] = DoOp(limit, ops[i].f, r[i])
                              /\ SeesValue(limit, ops[i], r[i], c)

Planned(limit, answer, ops, s, c) == \E r : IsPlan(limit, answer, ops, s, c, r)

\* With no operation left the point is the answer.
LEMMA PlanEnds ==
    ASSUME NEW limit, NEW answer, NEW s, NEW c
    PROVE  Planned(limit, answer, <<>>, s, c) <=> s = Then(answer, <<>>)
  <1>1. ASSUME Planned(limit, answer, <<>>, s, c) PROVE s = Then(answer, <<>>)
    BY <1>1 DEF Planned, IsPlan
  <1>2. ASSUME s = Then(answer, <<>>) PROVE Planned(limit, answer, <<>>, s, c)
    <2> DEFINE r == [i \in {0} |-> s]
    <2>1. IsPlan(limit, answer, <<>>, s, c, r)
      BY <1>2 DEF IsPlan
    <2> HIDE DEF r
    <2> QED  BY <2>1 DEF Planned
  <1> QED  BY <1>1, <1>2

\* An operation goes on the stack, or is taken off it.
LEMMA PlanPush ==
    ASSUME NEW limit, NEW answer, NEW ops, IsSeq(ops), NEW op, NEW s, NEW c,
           Planned(limit, answer, ops, DoOp(limit, op.f, s), c),
           SeesValue(limit, op, s, c)
    PROVE  Planned(limit, answer, Append(ops, op), s, c)
  <1> DEFINE n == Len(ops)
             o == Append(ops, op)
  <1>1. Len(o) = n + 1 /\ n \in Nat /\ (\A i \in 1..n : o[i] = ops[i]) /\ o[n + 1] = op
    BY AppendFacts DEF IsSeq
  <1>2. PICK r : IsPlan(limit, answer, ops, DoOp(limit, op.f, s), c, r)
    BY DEF Planned
  <1> DEFINE q == [i \in 0..(n + 1) |-> IF i <= n THEN r[i] ELSE s]
  <1>3. q[n + 1] = s /\ \A i \in 0..n : q[i] = r[i]
    BY <1>1
  <1>4. /\ r[0] = Then(answer, <<>>) /\ r[n] = DoOp(limit, op.f, s)
        /\ \A i \in 1..n : /\ r[i - 1] = DoOp(limit, ops[i].f, r[i])
                           /\ SeesValue(limit, ops[i], r[i], c)
    BY <1>2 DEF IsPlan
  <1> HIDE DEF q, o, n
  <1>5. ASSUME NEW i \in 1..(n + 1)
        PROVE  q[i - 1] = DoOp(limit, o[i].f, q[i]) /\ SeesValue(limit, o[i], q[i], c)
    <2>1. CASE i = n + 1
      <3>1. i - 1 = n /\ n \in 0..n
        BY <1>1, <2>1
      <3>2. q[i - 1] = DoOp(limit, op.f, s) /\ o[i] = op /\ q[i] = s
        BY <1>1, <1>3, <1>4, <2>1, <3>1
      <3> QED  BY <3>2
    <2>2. CASE i # n + 1
      <3>1. i \in 1..n /\ i \in 0..n /\ i - 1 \in 0..n
        BY <1>1, <2>2
      <3>2. q[i - 1] = r[i - 1] /\ q[i] = r[i] /\ o[i] = ops[i]
        BY <1>1, <1>3, <3>1
      <3> QED  BY <1>4, <3>1, <3>2
    <2> QED  BY <2>1, <2>2
  <1>6. q[0] = Then(answer, <<>>)
    BY <1>1, <1>3, <1>4
  <1>7. IsPlan(limit, answer, o, s, c, q)
    BY <1>1, <1>3, <1>5, <1>6, Zenon DEF IsPlan
  <1> QED  BY <1>7 DEF Planned, o

LEMMA PlanPop ==
    ASSUME NEW limit, NEW answer, NEW ops, IsSeq(ops), ops # <<>>, NEW s, NEW c,
           Planned(limit, answer, ops, s, c)
    PROVE  /\ Planned(limit, answer, Popped(ops, 1), DoOp(limit, FromTop(ops, 1).f, s), c)
           /\ SeesValue(limit, FromTop(ops, 1), s, c)
  <1> DEFINE n == Len(ops)
             o == Popped(ops, 1)
             op == FromTop(ops, 1)
  <1>1. /\ n \in Nat \ {0} /\ Len(o) = n - 1 /\ \A i \in 1..(n - 1) : o[i] = ops[i]
    BY PopOp
  <1>2. op = ops[n]
    BY <1>1 DEF FromTop
  <1>3. PICK r : IsPlan(limit, answer, ops, s, c, r)
    BY DEF Planned
  <1> HIDE DEF n, o, op
  <1>4. /\ r[0] = Then(answer, <<>>) /\ r[n] = s
        /\ \A i \in 1..n : /\ r[i - 1] = DoOp(limit, ops[i].f, r[i])
                           /\ SeesValue(limit, ops[i], r[i], c)
    BY <1>3 DEF IsPlan, n
  <1>5. r[n - 1] = DoOp(limit, op.f, s) /\ SeesValue(limit, op, s, c)
    BY <1>1, <1>2, <1>4
  <1>6. \A i \in 1..(n - 1) : /\ r[i - 1] = DoOp(limit, o[i].f, r[i])
                              /\ SeesValue(limit, o[i], r[i], c)
    BY <1>1, <1>4
  <1>7. IsPlan(limit, answer, o, DoOp(limit, op.f, s), c, r)
    BY <1>1, <1>4, <1>5, <1>6, Zenon DEF IsPlan
  <1>8. Planned(limit, answer, o, DoOp(limit, op.f, s), c)
    BY <1>7, Zenon DEF Planned
  <1> QED  BY <1>5, <1>8 DEF o, op

\* Nothing in a plan depends on the cost being low.
LEMMA PlanGrows ==
    ASSUME NEW limit, NEW answer, NEW ops, NEW s, NEW c \in Nat, NEW c2 \in Nat, c <= c2,
           Planned(limit, answer, ops, s, c)
    PROVE  Planned(limit, answer, ops, s, c2)
  <1>1. PICK r : IsPlan(limit, answer, ops, s, c, r)
    BY DEF Planned
  <1>2. \A c0 \in 0..c : c0 \in 0..c2
    OBVIOUS
  <1>3. ASSUME NEW op, NEW t, SeesValue(limit, op, t, c) PROVE SeesValue(limit, op, t, c2)
    BY <1>2, <1>3, Zenon DEF SeesValue
  <1>4. IsPlan(limit, answer, ops, s, c2, r)
    BY <1>1, <1>3, Zenon DEF IsPlan
  <1> QED  BY <1>4, Zenon DEF Planned

\* An error stays: it is the answer.
LEMMA PlanFails ==
    ASSUME NEW limit, NEW answer, NEW ops, IsSeq(ops), NEW e, NEW c,
           Planned(limit, answer, ops, Raised(e), c), IsOutcome(answer)
    PROVE  answer = Raised(e)
  <1> DEFINE n == Len(ops)
  <1>1. PICK r : IsPlan(limit, answer, ops, Raised(e), c, r)
    BY DEF Planned
  <1>2. /\ r[0] = Then(answer, <<>>) /\ r[n] = Raised(e) /\ n \in Nat
        /\ \A i \in 1..n : r[i - 1] = DoOp(limit, ops[i].f, r[i])
    BY <1>1 DEF IsPlan, IsSeq
  <1> HIDE DEF n
  <1> DEFINE S == { i \in 0..n : r[n - i] = Raised(e) }
  <1>3. 0 \in S
    BY <1>2
  <1>4. ASSUME NEW i \in 0..(n - 1), i \in S PROVE i + 1 \in S
    <2>1. n - i \in 1..n /\ (n - i) - 1 = n - (i + 1) /\ i + 1 \in 0..n
      BY <1>2
    <2>2. r[n - i] = Raised(e)
      BY <1>4
    <2>3. r[n - (i + 1)] = DoOp(limit, ops[n - i].f, Raised(e))
      BY <1>2, <2>1, <2>2
    <2>4. DoOp(limit, ops[n - i].f, Raised(e)) = Raised(e)
      BY OutcomeFacts, Zenon DEF DoOp
    <2> QED  BY <2>1, <2>3, <2>4
  <1> HIDE DEF S
  <1>5. n \in S
    <2>1. \A i \in 0..n : i \in S
      BY <1>2, <1>3, <1>4, BoundedInduction
    <2> QED  BY <1>2, <2>1
  <1>6. Then(answer, <<>>) = Raised(e)
    BY <1>2, <1>5 DEF S
  <1>7. CASE answer.ok
    <2>1. Then(answer, <<>>) = Returned(answer.cost, Append(<<>>, answer.value))
      BY <1>7, Zenon DEF Then
    <2>2. Returned(answer.cost, Append(<<>>, answer.value)).ok /\ ~Raised(e).ok
      BY OutcomeFacts, Zenon
    <2> QED  BY <1>6, <2>1, <2>2, Zenon
  <1>8. CASE ~answer.ok
    <2>1. answer = Raised(answer.error)
      <3>1. answer = Returned(answer.cost, answer.value) \/ answer = Raised(answer.error)
        BY DEF IsOutcome
      <3>2. Returned(answer.cost, answer.value).ok
        BY OutcomeFacts, Zenon
      <3> QED  BY <1>8, <3>1, <3>2
    <2>2. Then(answer, <<>>) = Raised(answer.error)
      BY <1>8, Zenon DEF Then
    <2> QED  BY <1>6, <2>1, <2>2, Zenon
  <1> QED  BY <1>7, <1>8

LEMMA SeqsEqual ==
    ASSUME NEW v, IsSeq(v), NEW w, IsSeq(w), Len(w) = Len(v),
           \A i \in 1..Len(v) : w[i] = v[i]
    PROVE  w = v
  <1>1. v \in [1..Len(v) -> Range(v)] /\ w \in [1..Len(w) -> Range(w)]
    BY DEF IsSeq
  <1> QED  BY <1>1

\* What is pushed is what the next operation takes.
LEMMA PushPop ==
    ASSUME NEW v, IsSeq(v), NEW x
    PROVE  /\ IsSeq(Append(v, x))
           /\ Popped(Append(v, x), 1) = v /\ FromTop(Append(v, x), 1) = x
  <1> DEFINE w == Append(v, x)
  <1>1. /\ IsSeq(w) /\ Len(w) = Len(v) + 1 /\ Len(v) \in Nat
        /\ \A i \in 1..Len(v) : w[i] = v[i]
        /\ w[Len(v) + 1] = x
    BY AppendFacts DEF IsSeq
  <1> HIDE DEF w
  <1>2. FromTop(w, 1) = x
    BY <1>1 DEF FromTop
  <1>3. /\ IsSeq(Popped(w, 1)) /\ Len(Popped(w, 1)) = Len(v)
        /\ \A i \in 1..Len(v) : Popped(w, 1)[i] = v[i]
    <2>1. 1 \in 1..2 /\ Len(w) >= 1 /\ Len(w) - 1 = Len(v)
      BY <1>1
    <2>2. /\ IsSeq(Popped(w, 1)) /\ Len(Popped(w, 1)) = Len(w) - 1
          /\ \A i \in 1..(Len(w) - 1) : Popped(w, 1)[i] = w[i]
      BY <1>1, <2>1, PoppedFacts, Zenon
    <2> QED  BY <1>1, <2>1, <2>2
  <1>4. Popped(w, 1) = v
    BY <1>3, SeqsEqual
  <1> QED  BY <1>1, <1>2, <1>4 DEF w

\* w is the stack v with x on it, and y on top
HasOnTop(w, v, x, y) ==
    /\ v \o <<x, y>> = w
    /\ IsSeq(w) /\ Popped(w, 2) = v /\ FromTop(w, 1) = y /\ FromTop(w, 2) = x

LEMMA PushTwoPopTwo ==
    ASSUME NEW v, IsSeq(v), NEW x, NEW y
    PROVE  HasOnTop(Append(Append(v, x), y), v, x, y)
  <1> DEFINE u == Append(v, x)
             w == Append(u, y)
  <1>1. /\ IsSeq(u) /\ Len(u) = Len(v) + 1 /\ Len(v) \in Nat
        /\ \A i \in 1..Len(v) : u[i] = v[i]
        /\ u[Len(v) + 1] = x
    BY AppendFacts DEF IsSeq
  <1>0. v \o <<x, y>> = w
    BY Append2 DEF IsSeq
  <1> HIDE DEF u
  <1>2. /\ IsSeq(w) /\ Len(w) = Len(u) + 1 /\ Len(u) \in Nat
        /\ \A i \in 1..Len(u) : w[i] = u[i]
        /\ w[Len(u) + 1] = y
    BY <1>1, AppendFacts DEF IsSeq
  <1> HIDE DEF w
  <1>3. FromTop(w, 1) = y /\ FromTop(w, 2) = x
    <2>1. Len(w) - 1 + 1 = Len(u) + 1 /\ Len(w) - 2 + 1 = Len(v) + 1 /\ Len(v) + 1 \in 1..Len(u)
      BY <1>1, <1>2
    <2> QED  BY <1>1, <1>2, <2>1 DEF FromTop
  <1>4. /\ IsSeq(Popped(w, 2)) /\ Len(Popped(w, 2)) = Len(v)
        /\ \A i \in 1..Len(v) : Popped(w, 2)[i] = v[i]
    <2>1. 2 \in 1..2 /\ Len(w) >= 2 /\ Len(w) - 2 = Len(v) /\ \A i \in 1..Len(v) : w[i] = v[i]
      BY <1>1, <1>2
    <2>2. /\ IsSeq(Popped(w, 2)) /\ Len(Popped(w, 2)) = Len(w) - 2
          /\ \A i \in 1..(Len(w) - 2) : Popped(w, 2)[i] = w[i]
      BY <1>2, <2>1, PoppedFacts, Zenon
    <2> QED  BY <2>1, <2>2
  <1>5. Popped(w, 2) = v
    BY <1>4, SeqsEqual
  <1>6. HasOnTop(w, v, x, y)
    BY <1>0, <1>2, <1>3, <1>5 DEF HasOnTop
  <1> QED  BY <1>6 DEF w, u

-----------------------------------------------------------------------------
\* What a charge comes to: values at the new cost, or an error.
Charged(limit, c, d, values) ==
    IF limit # 0 /\ c + d > limit THEN Raised("cost exceeded") ELSE Returned(c + d, values)

LEMMA AfterCharge ==
    ASSUME NEW limit, NEW c, NEW d, NEW v, NEW values
    PROVE  /\ After(limit, c, Returned(d, v)) = Charged(limit, c, d, v)
           /\ Then(Charged(limit, c, d, v), values) = Charged(limit, c, d, Append(values, v))
           /\ Charged(limit, c, d, v).ok <=> ~(limit # 0 /\ c + d > limit)
  BY DEF After, Charged, Then, Returned, Raised

\* The operations that eval_op and apply_op put on the stack, done.
LEMMA DoApply ==
    ASSUME NEW limit, NEW c, NEW v, IsSeq(v), NEW x, NEW y
    PROVE  DoOp(limit, "apply_op", Returned(c, Append(Append(v, x), y)))
             = Then(Applied(limit, x.atom, y, c), v)
  <1> DEFINE w == Append(Append(v, x), y)
             s == Returned(c, w)
  <1>1. Popped(w, 2) = v /\ FromTop(w, 1) = y /\ FromTop(w, 2) = x
    <2>1. HasOnTop(w, v, x, y)
      BY PushTwoPopTwo
    <2> QED  BY <2>1 DEF HasOnTop
  <1> HIDE DEF w
  <1>2. s.ok /\ s.cost = c /\ s.value = w
    BY DEF Returned
  <1>3. DoOp(limit, "apply_op", s)
          = Then(Applied(limit, FromTop(s.value, 2).atom, FromTop(s.value, 1), s.cost), Popped(s.value, 2))
    <2> HIDE DEF s
    <2> QED  BY <1>2 DEF DoOp
  <1> HIDE DEF s
  <1>4. DoOp(limit, "apply_op", s) = Then(Applied(limit, x.atom, y, c), v)
    BY <1>1, <1>2, <1>3
  <1> QED  BY <1>4 DEF s, w

LEMMA DoEval ==
    ASSUME NEW limit, NEW c, NEW v, IsSeq(v), NEW x, NEW y
    PROVE  DoOp(limit, "eval_op", Returned(c, Append(v, Pair(x, y))))
             = Then(Meaning(limit, x, y, c), v)
  <1> DEFINE p == Pair(x, y)
             w == Append(v, p)
             s == Returned(c, w)
  <1>1. First(p) = x /\ Rest(p) = y
    BY PairFacts
  <1> HIDE DEF p
  <1>2. Popped(w, 1) = v /\ FromTop(w, 1) = p
    BY PushPop, Zenon
  <1> HIDE DEF w
  <1>3. s.ok /\ s.cost = c /\ s.value = w
    BY DEF Returned
  <1>4. DoOp(limit, "eval_op", s)
          = Then(Meaning(limit, First(FromTop(s.value, 1)), Rest(FromTop(s.value, 1)), s.cost), Popped(s.value, 1))
    <2> HIDE DEF s
    <2> QED  BY <1>3 DEF DoOp, Evaluated
  <1> HIDE DEF s
  <1>5. DoOp(limit, "eval_op", s) = Then(Meaning(limit, x, y, c), v)
    BY <1>1, <1>2, <1>3, <1>4
  <1> QED  BY <1>5 DEF s, w, p

LEMMA DoNothing ==
    ASSUME NEW limit, NEW f, NEW e
    PROVE  DoOp(limit, f, Raised(e)) = Raised(e)
  BY OutcomeFacts, Zenon DEF DoOp

-----------------------------------------------------------------------------
\* What the program is to give, and the point that the evaluation is at.  In
\* the operands loop the values of the operands that are left are still to
\* come, as a list.
Answer == Meaning(max_cost, program, args, 0)

OperandsPoint(limit, xs, e, c, values) ==
    LET charged == After(limit, c, Returned(1, Null))
    IN  IF ~IsProper(xs) THEN Raised("first of non-cons")
        ELSE IF ~charged.ok THEN charged
        ELSE Then(ListMeaning(limit, xs, e, charged.cost), values)

Point == IF pc = "operands" THEN OperandsPoint(max_cost, operands, env, cost, value_stack)
                            ELSE Returned(cost, value_stack)

\* From this point what is on the stack of operations leads to the answer.
PInv == /\ pc = "raised" => Answer = Raised(error)
        /\ pc # "raised" => Planned(max_cost, Answer, op_stack, Point, cost)

\* The arguments of run_program stay as they are.
SameRun == program' = program /\ args' = args /\ max_cost' = max_cost

\* However an operation ends, if its point leads to the answer then so does
\* the one it is left at.
LEMMA ChargePlan ==
    ASSUME IsMeaning, NEW c, cost \in Nat, cost + c \in Nat, cost <= cost + c,
           NEW ops, IsSeq(ops), NEW values,
           Planned(max_cost, Answer, ops, Charged(max_cost, cost, c, values), cost),
           Charge(c), op_stack' = ops, value_stack' = values, SameRun
    PROVE  PInv'
  <1>1. Answer' = Answer /\ IsOutcome(Answer) /\ max_cost' = max_cost
    BY DEF Answer, SameRun, IsMeaning
  <1>2. cost' = cost + c
    BY DEF Charge
  <1>3. CASE max_cost # 0 /\ cost + c > max_cost
    <2>1. pc' = "raised" /\ error' = "cost exceeded"
      BY <1>3 DEF Charge
    <2>2. Charged(max_cost, cost, c, values) = Raised("cost exceeded")
      BY <1>3 DEF Charged
    <2>3. Answer = Raised("cost exceeded")
      <3> HIDE DEF Answer
      <3> QED  BY <1>1, <2>2, PlanFails
    <2> QED  BY <1>1, <2>1, <2>3 DEF PInv
  <1>4. CASE ~(max_cost # 0 /\ cost + c > max_cost)
    <2>1. pc' = "loop"
      BY <1>4 DEF Charge
    <2>2. Charged(max_cost, cost, c, values) = Returned(cost + c, values)
      BY <1>4 DEF Charged
    <2>3. Planned(max_cost, Answer, ops, Returned(cost + c, values), cost + c)
      <3>1. Planned(max_cost, Answer, ops, Returned(cost + c, values), cost)
        BY <2>2
      <3> HIDE DEF Answer
      <3> QED  BY <3>1, PlanGrows
    <2>4. Point' = Returned(cost + c, values)
      BY <1>2, <2>1 DEF Point
    <2> HIDE DEF Answer
    <2>5. Planned(max_cost', Answer', op_stack', Point', cost')
      BY <1>1, <1>2, <2>3, <2>4
    <2> QED  BY <2>1, <2>5 DEF PInv
  <1> QED  BY <1>3, <1>4

LEMMA ReturnPlan ==
    ASSUME IsMeaning, NEW c \in Nat, cost \in Nat, NEW ops, IsSeq(ops), NEW values,
           Planned(max_cost, Answer, ops, Charged(max_cost, cost, c, values), cost),
           Return(c, ops, values)
    PROVE  PInv'
  <1>1. /\ Charge(c) /\ op_stack' = ops /\ value_stack' = values /\ SameRun
        /\ cost + c \in Nat /\ cost <= cost + c
    BY DEF Return, SameRun, arguments
  <1> QED  BY <1>1, ChargePlan

LEMMA RaisePlan ==
    ASSUME IsMeaning, NEW e, NEW ops, IsSeq(ops),
           Planned(max_cost, Answer, ops, Raised(e), cost), Raise(e)
    PROVE  PInv'
  <1>1. pc' = "raised" /\ error' = e /\ SameRun
    BY DEF Raise, SameRun, arguments
  <1>2. Answer' = Answer /\ IsOutcome(Answer)
    BY <1>1 DEF Answer, SameRun, IsMeaning
  <1> HIDE DEF Answer
  <1>3. Answer = Raised(e)
    BY <1>2, PlanFails
  <1> QED  BY <1>1, <1>2, <1>3 DEF PInv

LEMMA DeliverPlan ==
    ASSUME IsMeaning, cost \in Nat, NEW D, NEW o, OutcomeOn(D, o), NEW ops, IsSeq(ops), NEW values,
           Planned(max_cost, Answer, ops, Then(After(max_cost, cost, o), values), cost),
           Deliver(o, ops, values)
    PROVE  PInv'
  <1>1. CASE \E c \in Nat \ {0}, v \in D : o = Returned(c, v)
    <2>1. PICK c \in Nat \ {0}, v \in D : o = Returned(c, v)
      BY <1>1
    <2>2. Return(c, ops, Append(values, v))
      BY <2>1, OutcomeFacts DEF Deliver
    <2>3. Then(After(max_cost, cost, o), values) = Charged(max_cost, cost, c, Append(values, v))
      <3>1. After(max_cost, cost, o) = Charged(max_cost, cost, c, v)
        BY <2>1, AfterCharge
      <3>2. Then(Charged(max_cost, cost, c, v), values) = Charged(max_cost, cost, c, Append(values, v))
        BY AfterCharge
      <3> QED  BY <3>1, <3>2
    <2>4. Planned(max_cost, Answer, ops, Charged(max_cost, cost, c, Append(values, v)), cost)
      BY <2>3
    <2> HIDE DEF Answer
    <2> QED  BY <2>2, <2>4, ReturnPlan
  <1>2. CASE \E e : o = Raised(e)
    <2>1. PICK e : o = Raised(e)
      BY <1>2
    <2>2. Raise(e)
      BY <2>1, OutcomeFacts DEF Deliver
    <2>3. Then(After(max_cost, cost, o), values) = Raised(e)
      BY <2>1 DEF Then, After, Raised
    <2>4. Planned(max_cost, Answer, ops, Raised(e), cost)
      BY <2>3
    <2> HIDE DEF Answer
    <2> QED  BY <2>2, <2>4, RaisePlan
  <1> QED  BY <1>1, <1>2 DEF OutcomeOn

\* eval_op takes its form and environment: the meaning of the form, and what
\* the rest of the stack makes of it, is the answer.
LEMMA EvalPlan ==
    ASSUME IsMeaning, IInv, NEW D, Data(D), DInv(D), PInv, Doing("eval_op")
    PROVE  /\ Planned(max_cost, Answer, OpsBelow,
                      Then(MeaningOf(max_cost, Form, FormEnv, cost), ValuesBelow), cost)
           /\ IsSeq(OpsBelow) /\ IsSeq(ValuesBelow) /\ cost \in Nat
  <1> DEFINE o == Popped(op_stack, 1)
             ctx == ContextOp(Form, FormEnv)
             m == Meaning(max_cost, Form, FormEnv, cost)
             s == Then(m, ValuesBelow)
  <1>1. IsSeq(OpsBelow) /\ IsSeq(ValuesBelow) /\ cost \in Nat
    BY EvalBegins DEF Between, DInv
  <1>2. IsSeq(op_stack) /\ op_stack # <<>> /\ FromTop(op_stack, 1).f = "eval_op" /\ pc = "loop"
    BY TopIs DEF Ready, Doing
  <1>3. IsSeq(o)
    BY <1>2, PopOp
  <1>4. Planned(max_cost, Answer, op_stack, Returned(cost, value_stack), cost)
    <2>1. Point = Returned(cost, value_stack) /\ pc # "raised"
      BY <1>2 DEF Point
    <2> QED  BY <2>1, Zenon DEF PInv
  <1>5. DoOp(max_cost, "eval_op", Returned(cost, value_stack)) = s
    <2> DEFINE t == Returned(cost, value_stack)
    <2>1. t.ok /\ t.cost = cost /\ t.value = value_stack
      BY DEF Returned
    <2>2. DoOp(max_cost, "eval_op", t) = Evaluated(max_cost, FromTop(t.value, 1), Popped(t.value, 1), t.cost)
      <3> HIDE DEF t
      <3> QED  BY <2>1 DEF DoOp
    <2> HIDE DEF t
    <2>3. DoOp(max_cost, "eval_op", t) = Evaluated(max_cost, FromTop(value_stack, 1), Popped(value_stack, 1), cost)
      BY <2>1, <2>2
    <2>4. DoOp(max_cost, "eval_op", t) = s
      BY <2>3, Zenon DEF Evaluated, Form, FormEnv, ValuesBelow
    <2> QED  BY <2>4 DEF t
  <1> HIDE DEF Answer
  <1>6. Planned(max_cost, Answer, o, s, cost)
    <2> HIDE DEF s
    <2>1. Planned(max_cost, Answer, Popped(op_stack, 1),
                  DoOp(max_cost, FromTop(op_stack, 1).f, Returned(cost, value_stack)), cost)
      BY <1>2, <1>4, PlanPop
    <2> QED  BY <1>2, <1>5, <2>1
  <1>7. Planned(max_cost, Answer, OpsBelow, s, cost)
    <2>1. CASE ~Traced(Form, FormEnv)
      <3>1. OpsBelow = o \o <<>>
        BY <2>1 DEF OpsBelow
      <3>2. o \o <<>> = o
        <4> HIDE DEF o
        <4> QED  BY <1>3, Append1 DEF IsSeq
      <3> HIDE DEF o, s
      <3> QED  BY <1>6, <3>1, <3>2
    <2>2. CASE Traced(Form, FormEnv)
      <3>1. OpsBelow = Append(o, ctx)
        <4>1. OpsBelow = o \o <<ctx>>
          BY <2>2 DEF OpsBelow
        <4>2. o \o <<ctx>> = Append(o, ctx)
          <5> HIDE DEF o, ctx
          <5> QED  BY <1>3, Append1 DEF IsSeq
        <4> HIDE DEF o, ctx
        <4> QED  BY <4>1, <4>2
      <3>2. ctx.f = "context_op" /\ ctx.form = Form /\ ctx.env = FormEnv
        BY DEF ContextOp
      <3>3. DoOp(max_cost, ctx.f, s) = s
        <4> HIDE DEF s, ctx
        <4> QED  BY <3>2 DEF DoOp
      <3>4. SeesValue(max_cost, ctx, s, cost)
        <4> SUFFICES ASSUME s.ok
                     PROVE  \E c0 \in 0..cost : Meaning(max_cost, ctx.form, ctx.env, c0)
                                                  = Returned(s.cost, FromTop(s.value, 1))
          BY Zenon DEF SeesValue
        <4>1. IsOutcome(m)
          BY DEF IsMeaning
        <4> HIDE DEF m
        <4>2. m.ok
          <5>1. ~m.ok => s = Raised(m.error)
            BY DEF Then
          <5> HIDE DEF s
          <5> QED  BY <5>1, OutcomeFacts
        <4>3. m = Returned(m.cost, m.value)
          <5>1. m = Raised(m.error) => ~m.ok
            BY OutcomeFacts
          <5> QED  BY <4>1, <4>2, <5>1 DEF IsOutcome
        <4>4. s.cost = m.cost /\ s.value = Append(ValuesBelow, m.value)
          <5>1. s = Returned(m.cost, Append(ValuesBelow, m.value))
            BY <4>2 DEF Then
          <5> HIDE DEF s
          <5> QED  BY <5>1, OutcomeFacts
        <4>5. FromTop(s.value, 1) = m.value
          <5>1. FromTop(Append(ValuesBelow, m.value), 1) = m.value
            BY <1>1, PushPop
          <5> HIDE DEF s
          <5> QED  BY <4>4, <5>1
        <4>6. Meaning(max_cost, ctx.form, ctx.env, cost) = m
          <5> HIDE DEF ctx
          <5> QED  BY <3>2 DEF m
        <4>7. Meaning(max_cost, ctx.form, ctx.env, cost) = Returned(s.cost, FromTop(s.value, 1))
          <5> HIDE DEF ctx, s
          <5> QED  BY <4>3, <4>4, <4>5, <4>6
        <4>8. cost \in 0..cost
          BY <1>1
        <4> HIDE DEF ctx, s
        <4> QED  BY <4>7, <4>8
      <3> HIDE DEF o, s, ctx
      <3>5. Planned(max_cost, Answer, o, DoOp(max_cost, ctx.f, s), cost)
        BY <1>6, <3>3
      <3>6. Planned(max_cost, Answer, Append(o, ctx), s, cost)
        BY <1>3, <3>4, <3>5, PlanPush
      <3> QED  BY <3>1, <3>6
    <2> QED  BY <2>1, <2>2
  <1>8. m = MeaningOf(max_cost, Form, FormEnv, cost)
    BY Zenon DEF IsMeaning
  <1>9. s = Then(MeaningOf(max_cost, Form, FormEnv, cost), ValuesBelow)
    <2> HIDE DEF m
    <2> QED  BY <1>8, Zenon
  <1> HIDE DEF s
  <1> QED  BY <1>1, <1>7, <1>9

\* Any other operation is taken off the stack, and does what DoOp says.
LEMMA TopPlan ==
    ASSUME IInv, NEW D, DInv(D), PInv, NEW name, Doing(name)
    PROVE  /\ Planned(max_cost, Answer, Popped(op_stack, 1),
                      DoOp(max_cost, name, Returned(cost, value_stack)), cost)
           /\ SeesValue(max_cost, FromTop(op_stack, 1), Returned(cost, value_stack), cost)
           /\ IsSeq(Popped(op_stack, 1)) /\ IsSeq(value_stack) /\ cost \in Nat
  <1>1. cost \in Nat
    BY DEF DInv
  <1>2. IsSeq(op_stack) /\ IsSeq(value_stack) /\ op_stack # <<>> /\ FromTop(op_stack, 1).f = name /\ pc = "loop"
    BY TopIs DEF Ready, Doing
  <1>3. IsSeq(Popped(op_stack, 1))
    BY <1>2, PopOp
  <1>4. Planned(max_cost, Answer, op_stack, Returned(cost, value_stack), cost)
    <2>1. Point = Returned(cost, value_stack) /\ pc # "raised"
      BY <1>2 DEF Point
    <2> QED  BY <2>1, Zenon DEF PInv
  <1> HIDE DEF Answer
  <1>5. /\ Planned(max_cost, Answer, Popped(op_stack, 1),
                   DoOp(max_cost, FromTop(op_stack, 1).f, Returned(cost, value_stack)), cost)
        /\ SeesValue(max_cost, FromTop(op_stack, 1), Returned(cost, value_stack), cost)
    BY <1>2, <1>4, PlanPop
  <1> QED  BY <1>1, <1>2, <1>3, <1>5

\* Each operation does to the point what the meaning of the form says.
LEMMA EvalPathPlan ==
    ASSUME IsMeaning, IInv, NEW D, Data(D), DInv(D), PInv, EvalPath
    PROVE  PInv'
  <1> DEFINE v == traverse_path(Form.atom, FormEnv)
  <1>1. Doing("eval_op") /\ IsAtom(Form) /\ Deliver(v, OpsBelow, ValuesBelow)
    BY DEF EvalPath
  <1>2. Form \in D /\ FormEnv \in D /\ ClosedData(D)
    BY <1>1, EvalData DEF Data
  <1>3. Form.atom \in Seq(0..255)
    BY <1>1, <1>2, DataFacts1
  <1>4. OutcomeOn(D, v)
    BY <1>2, <1>3, PathOutcome
  <1>5. v = ValueAtPath(Form.atom, FormEnv)
    BY <1>3, PathCost
  <1>6. MeaningOf(max_cost, Form, FormEnv, cost) = After(max_cost, cost, ValueAtPath(Form.atom, FormEnv))
    BY <1>1, Zenon DEF MeaningOf
  <1>7. /\ Planned(max_cost, Answer, OpsBelow,
                   Then(MeaningOf(max_cost, Form, FormEnv, cost), ValuesBelow), cost)
        /\ IsSeq(OpsBelow) /\ cost \in Nat
    BY <1>1, EvalPlan
  <1> HIDE DEF v, Answer
  <1>8. Planned(max_cost, Answer, OpsBelow, Then(After(max_cost, cost, v), ValuesBelow), cost)
    BY <1>5, <1>6, <1>7
  <1> QED  BY <1>1, <1>4, <1>7, <1>8, DeliverPlan DEF Answer

LEMMA EvalBracketedPlan ==
    ASSUME IsMeaning, IInv, NEW D, Data(D), DInv(D), PInv, EvalBracketed
    PROVE  PInv'
  <1> DEFINE x == First(First(Form))
             y == Rest(Form)
             m == MeaningOf(max_cost, Form, FormEnv, cost)
             lone == IsAtom(x) /\ Nullp(Rest(First(Form)))
             v == Append(Append(ValuesBelow, x), y)
             o == Append(OpsBelow, Op("apply_op"))
  <1>1. Doing("eval_op") /\ IsPair(Form) /\ IsPair(First(Form))
    BY DEF EvalBracketed
  <1>2. /\ Planned(max_cost, Answer, OpsBelow, Then(m, ValuesBelow), cost)
        /\ IsSeq(OpsBelow) /\ IsSeq(ValuesBelow) /\ cost \in Nat
    BY <1>1, EvalPlan
  <1>3. ~IsAtom(Form)
    <2>1. Form \in D /\ ClosedData(D)
      BY <1>1, EvalData DEF Data
    <2> QED  BY <1>1, <2>1, DataFacts1
  <1>4. m = IF ~lone THEN Raised("in ((X)...) syntax X must be lone atom")
            ELSE IF Charged(max_cost, cost, APPLY_COST, Null).ok
                 THEN Applied(max_cost, x.atom, y, Charged(max_cost, cost, APPLY_COST, Null).cost)
                 ELSE Charged(max_cost, cost, APPLY_COST, Null)
    <2>1. After(max_cost, cost, Returned(APPLY_COST, Null)) = Charged(max_cost, cost, APPLY_COST, Null)
      BY AfterCharge
    <2> QED  BY <1>1, <1>3, <2>1, Zenon DEF MeaningOf
  <1> HIDE DEF Answer, m
  <1>5. CASE ~lone
    <2>1. Raise("in ((X)...) syntax X must be lone atom")
      BY <1>5 DEF EvalBracketed
    <2>2. Then(m, ValuesBelow) = Raised("in ((X)...) syntax X must be lone atom")
      BY <1>4, <1>5, OutcomeFacts DEF Then
    <2>3. Planned(max_cost, Answer, OpsBelow, Raised("in ((X)...) syntax X must be lone atom"), cost)
      BY <1>2, <2>2
    <2> QED  BY <1>2, <2>1, <2>3, RaisePlan DEF Answer
  <1>6. CASE lone
    <2>1. Return(APPLY_COST, o, v)
      <3>1. Return(APPLY_COST, o, ValuesBelow \o <<x, y>>)
        BY <1>6 DEF EvalBracketed
      <3>2. ValuesBelow \o <<x, y>> = v
        BY <1>2, PushTwoPopTwo DEF HasOnTop
      <3> HIDE DEF v, o
      <3> QED  BY <3>1, <3>2
    <2> DEFINE p == Charged(max_cost, cost, APPLY_COST, v)
    <2>2. DoOp(max_cost, "apply_op", p) = Then(m, ValuesBelow)
      <3>1. CASE max_cost # 0 /\ cost + APPLY_COST > max_cost
        <4>1. /\ p = Raised("cost exceeded")
              /\ Charged(max_cost, cost, APPLY_COST, Null) = Raised("cost exceeded")
          BY <3>1 DEF Charged
        <4>2. m = Raised("cost exceeded")
          <5> HIDE DEF p, lone
          <5> QED  BY <1>4, <1>6, <4>1, OutcomeFacts
        <4>3. DoOp(max_cost, "apply_op", p) = Raised("cost exceeded")
          <5> HIDE DEF p
          <5> QED  BY <4>1, DoNothing
        <4>4. Then(m, ValuesBelow) = Raised("cost exceeded")
          BY <4>2, OutcomeFacts DEF Then
        <4> HIDE DEF p
        <4> QED  BY <4>3, <4>4
      <3>2. CASE ~(max_cost # 0 /\ cost + APPLY_COST > max_cost)
        <4>1. /\ p = Returned(cost + APPLY_COST, v)
              /\ Charged(max_cost, cost, APPLY_COST, Null) = Returned(cost + APPLY_COST, Null)
          BY <3>2 DEF Charged
        <4>2. m = Applied(max_cost, x.atom, y, cost + APPLY_COST)
          <5> HIDE DEF p, lone
          <5> QED  BY <1>4, <1>6, <4>1, OutcomeFacts
        <4>3. DoOp(max_cost, "apply_op", Returned(cost + APPLY_COST, v))
                = Then(Applied(max_cost, x.atom, y, cost + APPLY_COST), ValuesBelow)
          BY <1>2, DoApply, Zenon
        <4> HIDE DEF p, v
        <4> QED  BY <4>1, <4>2, <4>3
      <3> QED  BY <3>1, <3>2
    <2>3. Planned(max_cost, Answer, o, p, cost)
      <3>1. Op("apply_op").f = "apply_op"
        BY DEF Op
      <3>2. SeesValue(max_cost, Op("apply_op"), p, cost)
        BY <3>1 DEF SeesValue
      <3> HIDE DEF p
      <3>3. Planned(max_cost, Answer, OpsBelow, DoOp(max_cost, Op("apply_op").f, p), cost)
        BY <1>2, <2>2, <3>1
      <3> QED  BY <1>2, <3>2, <3>3, PlanPush
    <2>4. IsSeq(o) /\ APPLY_COST \in Nat
      BY <1>2, PushPop DEF APPLY_COST
    <2> HIDE DEF o, v
    <2> QED  BY <1>2, <2>1, <2>3, <2>4, ReturnPlan DEF Answer
  <1> QED  BY <1>5, <1>6

LEMMA EvalQuotePlan ==
    ASSUME IsMeaning, IInv, NEW D, Data(D), DInv(D), PInv, EvalQuote
    PROVE  PInv'
  <1> DEFINE m == MeaningOf(max_cost, Form, FormEnv, cost)
             v == Append(ValuesBelow, Rest(Form))
  <1>1. /\ Doing("eval_op") /\ IsPair(Form) /\ IsAtom(First(Form)) /\ First(Form).atom = QuoteAtom
        /\ Return(QUOTE_COST, OpsBelow, v)
    BY DEF EvalQuote, EvalsOperator
  <1>2. /\ Planned(max_cost, Answer, OpsBelow, Then(m, ValuesBelow), cost)
        /\ IsSeq(OpsBelow) /\ IsSeq(ValuesBelow) /\ cost \in Nat
    BY <1>1, EvalPlan
  <1>3. ~IsAtom(Form) /\ ~IsPair(First(Form))
    <2>1. Form \in D /\ ClosedData(D)
      BY <1>1, EvalData DEF Data
    <2>2. First(Form) \in D
      BY <1>1, <2>1, DataFacts1
    <2> QED  BY <1>1, <2>1, <2>2, DataFacts1
  <1>4. m = After(max_cost, cost, Returned(QUOTE_COST, Rest(Form)))
    BY <1>1, <1>3, Zenon DEF MeaningOf
  <1> HIDE DEF m, Answer
  <1>5. Then(m, ValuesBelow) = Charged(max_cost, cost, QUOTE_COST, v)
    BY <1>4, AfterCharge
  <1>6. QUOTE_COST \in Nat
    BY DEF QUOTE_COST
  <1>7. Planned(max_cost, Answer, OpsBelow, Charged(max_cost, cost, QUOTE_COST, v), cost)
    BY <1>2, <1>5
  <1> HIDE DEF v
  <1> QED  BY <1>1, <1>2, <1>6, <1>7, ReturnPlan DEF Answer

\* A charge fails in one way only.
LEMMA ChargeFails ==
    ASSUME NEW limit, NEW c, NEW d, NEW v
    PROVE  \/ After(limit, c, Returned(d, v)).ok
           \/ After(limit, c, Returned(d, v)) = Raised("cost exceeded")
  <1> DEFINE a == After(limit, c, Returned(d, v))
  <1>1. a = Charged(limit, c, d, v)
    BY AfterCharge
  <1> HIDE DEF a
  <1>2. a = Raised("cost exceeded") \/ a = Returned(c + d, v)
    BY <1>1, Zenon DEF Charged
  <1>3. a = Raised("cost exceeded") \/ a.ok
    <2>1. Returned(c + d, v).ok
      BY DEF Returned
    <2> QED  BY <1>2, <2>1
  <1> QED  BY <1>3 DEF a

LEMMA ThenRaised ==
    ASSUME NEW e, NEW values
    PROVE  Then(Raised(e), values) = Raised(e)
  BY DEF Then, Raised

LEMMA EvalOperatorPlan ==
    ASSUME IsMeaning, IInv, NEW D, Data(D), DInv(D), PInv, EvalOperator
    PROVE  PInv'
  <1> DEFINE x == First(Form)
             xs == Rest(Form)
             m == MeaningOf(max_cost, Form, FormEnv, cost)
             v == Append(ValuesBelow, x)
             o == Append(OpsBelow, Op("apply_op"))
             p == OperandsPoint(max_cost, xs, FormEnv, cost, v)
             c == After(max_cost, cost, Returned(1, Null))
             l == ListMeaning(max_cost, xs, FormEnv, c.cost)
  <1>1. /\ Doing("eval_op") /\ IsPair(Form) /\ IsAtom(x) /\ x.atom # QuoteAtom
        /\ op_stack' = o /\ value_stack' = v /\ pc' = "operands" /\ operands' = xs /\ env' = FormEnv
        /\ program' = program /\ args' = args /\ max_cost' = max_cost /\ cost' = cost
    BY DEF EvalOperator, EvalsOperator, arguments
  <1>2. /\ Planned(max_cost, Answer, OpsBelow, Then(m, ValuesBelow), cost)
        /\ IsSeq(OpsBelow) /\ IsSeq(ValuesBelow) /\ cost \in Nat
    BY <1>1, EvalPlan
  <1>3. ~IsAtom(Form) /\ ~IsPair(x)
    <2>1. Form \in D /\ ClosedData(D)
      BY <1>1, EvalData DEF Data
    <2>2. First(Form) \in D
      BY <1>1, <2>1, DataFacts1
    <2> QED  BY <1>1, <2>1, <2>2, DataFacts1
  <1>4. m = IF ~IsProper(xs) THEN Raised("first of non-cons")
            ELSE IF ~c.ok THEN c
            ELSE IF ~l.ok THEN l
            ELSE Applied(max_cost, x.atom, l.value, l.cost)
    BY <1>1, <1>3, Zenon DEF MeaningOf
  <1>5. p = IF ~IsProper(xs) THEN Raised("first of non-cons")
            ELSE IF ~c.ok THEN c
            ELSE Then(l, v)
    BY Zenon DEF OperandsPoint
  <1>6. ~c.ok => c = Raised("cost exceeded")
    BY ChargeFails
  <1> HIDE DEF m, p, Answer
  <1>7. DoOp(max_cost, "apply_op", p) = Then(m, ValuesBelow)
    <2>1. CASE ~IsProper(xs)
      <3>1. p = Raised("first of non-cons") /\ m = Raised("first of non-cons")
        BY <1>4, <1>5, <2>1
      <3> QED  BY <3>1, DoNothing, ThenRaised
    <2>2. CASE IsProper(xs) /\ ~c.ok
      <3>1. p = Raised("cost exceeded") /\ m = Raised("cost exceeded")
        <4> HIDE DEF c
        <4> QED  BY <1>4, <1>5, <1>6, <2>2
      <3> QED  BY <3>1, DoNothing, ThenRaised
    <2>3. CASE IsProper(xs) /\ c.ok /\ ~l.ok
      <3>1. p = Then(l, v) /\ m = l
        <4> HIDE DEF c, l, v
        <4> QED  BY <1>4, <1>5, <2>3
      <3>2. Then(l, v) = Raised(l.error) /\ Then(m, ValuesBelow) = Raised(l.error)
        <4> HIDE DEF l, v
        <4> QED  BY <2>3, <3>1 DEF Then
      <3> HIDE DEF l, v
      <3> QED  BY <3>1, <3>2, DoNothing
    <2>4. CASE IsProper(xs) /\ c.ok /\ l.ok
      <3>1. p = Then(l, v) /\ m = Applied(max_cost, x.atom, l.value, l.cost)
        <4> HIDE DEF c, l, v, x
        <4> QED  BY <1>4, <1>5, <2>4
      <3>2. Then(l, v) = Returned(l.cost, Append(v, l.value))
        <4> HIDE DEF l, v
        <4> QED  BY <2>4 DEF Then
      <3>3. DoOp(max_cost, "apply_op", Returned(l.cost, Append(Append(ValuesBelow, x), l.value)))
              = Then(Applied(max_cost, x.atom, l.value, l.cost), ValuesBelow)
        <4> HIDE DEF l, x
        <4> QED  BY <1>2, DoApply, Zenon
      <3> HIDE DEF l, x
      <3> QED  BY <3>1, <3>2, <3>3
    <2> HIDE DEF c, l
    <2> QED  BY <2>1, <2>2, <2>3, <2>4
  <1> HIDE DEF c, l
  <1>8. Planned(max_cost, Answer, o, p, cost)
    <2>1. Op("apply_op").f = "apply_op"
      BY DEF Op
    <2>2. SeesValue(max_cost, Op("apply_op"), p, cost)
      BY <2>1 DEF SeesValue
    <2>3. Planned(max_cost, Answer, OpsBelow, DoOp(max_cost, Op("apply_op").f, p), cost)
      BY <1>2, <1>7, <2>1
    <2> QED  BY <1>2, <2>2, <2>3, PlanPush
  <1>9. Point' = p /\ Answer' = Answer
    <2> HIDE DEF o, v, xs
    <2> QED  BY <1>1 DEF Point, Answer, p
  <1> HIDE DEF o, v, x, xs
  <1>10. Planned(max_cost', Answer', op_stack', Point', cost')
    BY <1>1, <1>8, <1>9
  <1> QED  BY <1>1, <1>10 DEF PInv

LEMMA EvalOperandPlan ==
    ASSUME IsMeaning, IInv, NEW D, Data(D), DInv(D), PInv, EvalOperand
    PROVE  PInv'
  <1> DEFINE x == First(operands)
             xs == Rest(operands)
             y == Pair(x, env)
             v == Append(value_stack, y)
             o1 == Append(op_stack, Op("cons_op"))
             o2 == Append(o1, Op("eval_op"))
             o3 == Append(o2, Op("swap_op"))
             p == OperandsPoint(max_cost, operands, env, cost, value_stack)
             q == OperandsPoint(max_cost, xs, env, cost, v)
             c == After(max_cost, cost, Returned(1, Null))
             r == ListMeaning(max_cost, xs, env, c.cost)
             l == ListMeaning(max_cost, operands, env, c.cost)
             f == Meaning(max_cost, x, env, r.cost)
  <1>1. pc = "operands" /\ ~Nullp(operands) /\ cost \in Nat /\ IsSeq(op_stack) /\ IsSeq(value_stack)
    BY DEF EvalOperand, IInv, Between, DInv
  <1>2. Planned(max_cost, Answer, op_stack, p, cost)
    <2>1. Point = p /\ pc # "raised"
      BY <1>1 DEF Point
    <2> HIDE DEF p
    <2> QED  BY <2>1, Zenon DEF PInv
  <1>3. p = IF ~IsProper(operands) THEN Raised("first of non-cons")
            ELSE IF ~c.ok THEN c
            ELSE Then(l, value_stack)
    BY Zenon DEF OperandsPoint
  <1>4. IsProper(operands) = IF IsPair(operands) THEN IsProper(xs) ELSE Nullp(operands)
    BY Zenon DEF IsMeaning, IsProperOf
  <1> HIDE DEF Answer, p
  <1>5. CASE ~IsPair(operands)
    <2>1. Raise("first of non-cons")
      BY <1>5 DEF EvalOperand
    <2>2. p = Raised("first of non-cons")
      BY <1>1, <1>3, <1>4, <1>5
    <2>3. Planned(max_cost, Answer, op_stack, Raised("first of non-cons"), cost)
      BY <1>2, <2>2
    <2> QED  BY <1>1, <2>1, <2>3, RaisePlan DEF Answer
  <1>6. CASE IsPair(operands)
    <2>1. /\ op_stack' = op_stack \o <<Op("cons_op"), Op("eval_op"), Op("swap_op")>>
          /\ value_stack' = v /\ pc' = "operands" /\ operands' = xs /\ env' = env
          /\ program' = program /\ args' = args /\ max_cost' = max_cost /\ cost' = cost
      BY <1>1, <1>6 DEF EvalOperand, arguments
    <2>2. op_stack' = o3
      <3>1. op_stack \o <<Op("cons_op"), Op("eval_op"), Op("swap_op")>> = o3
        BY <1>1, Append3 DEF IsSeq
      <3> QED  BY <2>1, <3>1
    <2>3. q = IF ~IsProper(xs) THEN Raised("first of non-cons")
              ELSE IF ~c.ok THEN c
              ELSE Then(r, v)
      BY Zenon DEF OperandsPoint
    <2>4. l = IF ~r.ok THEN r ELSE IF ~f.ok THEN f
              ELSE Returned(f.cost, Pair(f.value, r.value))
      <3>1. ListMeaning(max_cost, operands, env, c.cost) = ListMeaningOf(max_cost, operands, env, c.cost)
        <4> HIDE DEF c
        <4> QED  BY Zenon DEF IsMeaning
      <3> HIDE DEF c
      <3> QED  BY <1>1, <3>1, Zenon DEF ListMeaningOf
    <2>5. c.ok \/ c = Raised("cost exceeded")
      BY ChargeFails
    <2> HIDE DEF q
    <2> DEFINE s2 == DoOp(max_cost, "swap_op", q)
               s1 == DoOp(max_cost, "eval_op", s2)
               s0 == DoOp(max_cost, "cons_op", s1)
    <2>6. s0 = p
      <3>1. ASSUME NEW e, q = Raised(e), p = Raised(e) PROVE s0 = p
        <4>1. s2 = Raised(e)
          BY <3>1, DoNothing
        <4> HIDE DEF s2
        <4>2. s1 = Raised(e)
          BY <4>1, DoNothing
        <4> HIDE DEF s1
        <4> QED  BY <3>1, <4>2, DoNothing
      <3>2. CASE ~IsProper(xs)
        <4>1. q = Raised("first of non-cons") /\ p = Raised("first of non-cons")
          BY <1>3, <1>4, <1>6, <2>3, <3>2
        <4> HIDE DEF s0
        <4> QED  BY <3>1, <4>1
      <3>3. CASE IsProper(xs) /\ ~c.ok
        <4>1. q = Raised("cost exceeded") /\ p = Raised("cost exceeded")
          <5> HIDE DEF c
          <5> QED  BY <1>3, <1>4, <1>6, <2>3, <2>5, <3>3
        <4> HIDE DEF s0
        <4> QED  BY <3>1, <4>1
      <3>4. CASE IsProper(xs) /\ c.ok
        <4>0. p = Then(l, value_stack) /\ q = Then(r, v)
          <5> HIDE DEF c, v, l, r
          <5> QED  BY <1>3, <1>4, <1>6, <2>3, <3>4
        <4> HIDE DEF c, l
        <4>1. CASE ~r.ok
          <5> HIDE DEF r, v, s0
          <5>1. q = Raised(r.error) /\ p = Raised(r.error)
            BY <2>4, <4>0, <4>1 DEF Then
          <5> QED  BY <3>1, <5>1
        <4>2. CASE r.ok
          <5> HIDE DEF r
          <5>1. q = Returned(r.cost, Append(v, r.value))
            <6> HIDE DEF v
            <6> QED  BY <4>0, <4>2 DEF Then
          <5> DEFINE w == Append(value_stack, r.value)
          <5>2. s2 = Returned(r.cost, Append(w, y))
            <6> DEFINE u == Append(v, r.value)
            <6> HIDE DEF y
            <6>1. Popped(u, 2) = value_stack /\ FromTop(u, 1) = r.value /\ FromTop(u, 2) = y
              <7>1. HasOnTop(u, value_stack, y, r.value)
                BY <1>1, PushTwoPopTwo
              <7> HIDE DEF u
              <7> QED  BY <7>1 DEF HasOnTop
            <6>2. value_stack \o <<r.value, y>> = Append(w, y)
              <7>1. HasOnTop(Append(w, y), value_stack, r.value, y)
                BY <1>1, PushTwoPopTwo
              <7> HIDE DEF w
              <7> QED  BY <7>1 DEF HasOnTop
            <6> HIDE DEF u, w, v
            <6>3. q.ok /\ q.cost = r.cost /\ q.value = u
              BY <5>1, OutcomeFacts DEF u
            <6>4. s2 = Returned(q.cost, Popped(q.value, 2) \o <<FromTop(q.value, 1), FromTop(q.value, 2)>>)
              BY <6>3 DEF DoOp
            <6>5. s2 = Returned(r.cost, value_stack \o <<r.value, y>>)
              <7> HIDE DEF s2
              <7> QED  BY <6>1, <6>3, <6>4
            <6> HIDE DEF s2
            <6> QED  BY <6>2, <6>5
          <5>3. IsSeq(w)
            BY <1>1, PushPop
          <5>4. s1 = Then(f, w)
            <6> HIDE DEF s2, w
            <6>1. s1 = DoOp(max_cost, "eval_op", Returned(r.cost, Append(w, Pair(x, env))))
              <7> HIDE DEF x
              <7> QED  BY <5>2
            <6> HIDE DEF s1, x
            <6>2. DoOp(max_cost, "eval_op", Returned(r.cost, Append(w, Pair(x, env))))
                    = Then(Meaning(max_cost, x, env, r.cost), w)
              BY <5>3, DoEval, Zenon
            <6> QED  BY <6>1, <6>2
          <5> HIDE DEF f, s1, s2
          <5>5. CASE ~f.ok
            <6>1. s1 = Raised(f.error) /\ p = Raised(f.error)
              <7> HIDE DEF w
              <7> QED  BY <2>4, <4>0, <4>2, <5>4, <5>5 DEF Then
            <6> QED  BY <6>1, DoNothing
          <5>6. CASE f.ok
            <6> DEFINE u == Append(w, f.value)
            <6>1. Popped(u, 2) = value_stack /\ FromTop(u, 1) = f.value /\ FromTop(u, 2) = r.value
              <7>1. HasOnTop(u, value_stack, r.value, f.value)
                BY <1>1, PushTwoPopTwo
              <7> HIDE DEF u
              <7> QED  BY <7>1 DEF HasOnTop
            <6> HIDE DEF w
            <6>2. s1 = Returned(f.cost, u)
              BY <5>4, <5>6 DEF Then
            <6> HIDE DEF u
            <6>3. s1.ok /\ s1.cost = f.cost /\ s1.value = u
              BY <6>2, OutcomeFacts
            <6>4. s0 = Returned(s1.cost, Append(Popped(s1.value, 2),
                                                Pair(FromTop(s1.value, 1), FromTop(s1.value, 2))))
              BY <6>3 DEF DoOp
            <6> HIDE DEF s0
            <6>5. s0 = Returned(f.cost, Append(value_stack, Pair(f.value, r.value)))
              BY <6>1, <6>3, <6>4
            <6>6. l = Returned(f.cost, Pair(f.value, r.value))
              BY <2>4, <4>2, <5>6
            <6>7. Then(l, value_stack) = Returned(f.cost, Append(value_stack, Pair(f.value, r.value)))
              BY <6>6, OutcomeFacts DEF Then
            <6> QED  BY <4>0, <6>5, <6>7
          <5> HIDE DEF s0
          <5> QED  BY <5>5, <5>6
        <4> HIDE DEF s0, r
        <4> QED  BY <4>1, <4>2
      <3> HIDE DEF s0, c
      <3> QED  BY <3>2, <3>3, <3>4
    <2>7. ASSUME NEW ops, IsSeq(ops), NEW name, NEW s, name # "context_op",
                 Planned(max_cost, Answer, ops, DoOp(max_cost, name, s), cost)
          PROVE  Planned(max_cost, Answer, Append(ops, Op(name)), s, cost) /\ IsSeq(Append(ops, Op(name)))
      <3>1. Op(name).f = name
        BY DEF Op
      <3>2. SeesValue(max_cost, Op(name), s, cost)
        BY <2>7, <3>1 DEF SeesValue
      <3>3. Planned(max_cost, Answer, ops, DoOp(max_cost, Op(name).f, s), cost)
        BY <2>7, <3>1
      <3> QED  BY <2>7, <3>2, <3>3, PlanPush, PushPop
    <2>8. Planned(max_cost, Answer, o1, s1, cost) /\ IsSeq(o1)
      <3>1. Planned(max_cost, Answer, op_stack, DoOp(max_cost, "cons_op", s1), cost)
        BY <1>2, <2>6
      <3> HIDE DEF s1
      <3> QED  BY <1>1, <2>7, <3>1
    <2> HIDE DEF s0
    <2>9. Planned(max_cost, Answer, o2, s2, cost) /\ IsSeq(o2)
      <3> HIDE DEF s2, o1
      <3> QED  BY <2>7, <2>8
    <2> HIDE DEF s1
    <2>10. Planned(max_cost, Answer, o3, q, cost)
      <3> HIDE DEF o2
      <3> QED  BY <2>7, <2>9
    <2>11. Point' = q /\ Answer' = Answer
      <3> HIDE DEF o3, v, xs
      <3> QED  BY <2>1 DEF Point, Answer, q
    <2> HIDE DEF o3, v, x, xs, s2
    <2>12. Planned(max_cost', Answer', op_stack', Point', cost')
      BY <2>1, <2>2, <2>10, <2>11
    <2> QED  BY <2>1, <2>12 DEF PInv
  <1> QED  BY <1>5, <1>6

LEMMA EvalOperandsEndPlan ==
    ASSUME IsMeaning, IInv, NEW D, Data(D), DInv(D), PInv, EvalOperandsEnd
    PROVE  PInv'
  <1> DEFINE v == Append(value_stack, Null)
             p == OperandsPoint(max_cost, operands, env, cost, value_stack)
             c == After(max_cost, cost, Returned(1, Null))
  <1>1. /\ pc = "operands" /\ Nullp(operands) /\ Charge(1)
        /\ value_stack' = v /\ op_stack' = op_stack /\ SameRun
    BY DEF EvalOperandsEnd, SameRun, arguments
  <1>2. cost \in Nat /\ IsSeq(op_stack) /\ IsSeq(value_stack)
    BY <1>1 DEF IInv, Between, DInv
  <1>3. Planned(max_cost, Answer, op_stack, p, cost)
    <2>1. Point = p /\ pc # "raised"
      BY <1>1 DEF Point
    <2> HIDE DEF p
    <2> QED  BY <2>1, Zenon DEF PInv
  <1>4. IsProper(operands)
    <2>1. IsProper(operands) = IsProperOf(operands)
      BY DEF IsMeaning
    <2>2. ~IsPair(operands)
      BY <1>1, NullFacts DEF Nullp
    <2> QED  BY <1>1, <2>1, <2>2, Zenon DEF IsProperOf
  <1>5. p = IF ~c.ok THEN c ELSE Then(ListMeaning(max_cost, operands, env, c.cost), value_stack)
    BY <1>4, Zenon DEF OperandsPoint
  <1>6. ListMeaning(max_cost, operands, env, c.cost) = Returned(c.cost, Null)
    <2>1. ListMeaning(max_cost, operands, env, c.cost) = ListMeaningOf(max_cost, operands, env, c.cost)
      <3> HIDE DEF c
      <3> QED  BY Zenon DEF IsMeaning
    <2> HIDE DEF c
    <2> QED  BY <1>1, <2>1, Zenon DEF ListMeaningOf
  <1>7. p = Charged(max_cost, cost, 1, v)
    <2>1. c = Charged(max_cost, cost, 1, Null)
      BY AfterCharge
    <2> HIDE DEF c, p
    <2>2. CASE max_cost # 0 /\ cost + 1 > max_cost
      <3>1. c = Raised("cost exceeded") /\ Charged(max_cost, cost, 1, v) = Raised("cost exceeded")
        BY <2>1, <2>2 DEF Charged
      <3> QED  BY <1>5, <3>1, OutcomeFacts
    <2>3. CASE ~(max_cost # 0 /\ cost + 1 > max_cost)
      <3>1. c = Returned(cost + 1, Null) /\ Charged(max_cost, cost, 1, v) = Returned(cost + 1, v)
        BY <2>1, <2>3 DEF Charged
      <3>2. c.ok /\ c.cost = cost + 1
        BY <3>1, OutcomeFacts
      <3>3. p = Then(Returned(cost + 1, Null), value_stack)
        BY <1>5, <1>6, <3>2
      <3> QED  BY <3>1, <3>3, OutcomeFacts DEF Then
    <2> QED  BY <2>2, <2>3
  <1>8. 1 \in Nat /\ cost + 1 \in Nat /\ cost <= cost + 1
    BY <1>2
  <1> HIDE DEF v, p, c, Answer
  <1>9. Planned(max_cost, Answer, op_stack, Charged(max_cost, cost, 1, v), cost)
    BY <1>3, <1>7
  <1> QED  BY <1>1, <1>2, <1>8, <1>9, ChargePlan DEF Answer

\* What is free stays within the limit.
LEMMA NoCharge ==
    ASSUME NEW D, DInv(D), pc = "loop", NEW values
    PROVE  Charged(max_cost, cost, 0, values) = Returned(cost, values)
  <1>1. cost \in Nat /\ max_cost \in Nat /\ (max_cost # 0 => cost <= max_cost)
    BY DEF DInv
  <1>2. cost + 0 = cost /\ ~(max_cost # 0 /\ cost > max_cost)
    BY <1>1
  <1> QED  BY <1>2 DEF Charged

LEMMA SwapPlan ==
    ASSUME IsMeaning, IInv, NEW D, Data(D), DInv(D), PInv, SwapOp
    PROVE  PInv'
  <1> DEFINE v == Popped(value_stack, 2) \o <<FromTop(value_stack, 1), FromTop(value_stack, 2)>>
             t == Returned(cost, value_stack)
  <1>1. Doing("swap_op") /\ Return(0, Popped(op_stack, 1), v) /\ pc = "loop"
    BY DEF SwapOp, Doing
  <1>2. /\ Planned(max_cost, Answer, Popped(op_stack, 1), DoOp(max_cost, "swap_op", t), cost)
        /\ IsSeq(Popped(op_stack, 1)) /\ cost \in Nat
    BY <1>1, TopPlan
  <1>3. DoOp(max_cost, "swap_op", t) = Returned(cost, v)
    <2>1. t.ok /\ t.cost = cost /\ t.value = value_stack
      BY DEF Returned
    <2> HIDE DEF t
    <2> QED  BY <2>1 DEF DoOp
  <1> HIDE DEF v, t, Answer
  <1>4. Planned(max_cost, Answer, Popped(op_stack, 1), Charged(max_cost, cost, 0, v), cost)
    <2>1. Charged(max_cost, cost, 0, v) = Returned(cost, v)
      BY <1>1, NoCharge
    <2> QED  BY <1>2, <1>3, <2>1
  <1> QED  BY <1>1, <1>2, <1>4, ReturnPlan DEF Answer

LEMMA ConsPlan ==
    ASSUME IsMeaning, IInv, NEW D, Data(D), DInv(D), PInv, ConsOp
    PROVE  PInv'
  <1> DEFINE v == Append(Popped(value_stack, 2), Pair(FromTop(value_stack, 1), FromTop(value_stack, 2)))
             t == Returned(cost, value_stack)
  <1>1. Doing("cons_op") /\ Return(0, Popped(op_stack, 1), v) /\ pc = "loop"
    BY DEF ConsOp, Doing
  <1>2. /\ Planned(max_cost, Answer, Popped(op_stack, 1), DoOp(max_cost, "cons_op", t), cost)
        /\ IsSeq(Popped(op_stack, 1)) /\ cost \in Nat
    BY <1>1, TopPlan
  <1>3. DoOp(max_cost, "cons_op", t) = Returned(cost, v)
    <2>1. t.ok /\ t.cost = cost /\ t.value = value_stack
      BY DEF Returned
    <2> HIDE DEF t
    <2> QED  BY <2>1 DEF DoOp
  <1> HIDE DEF v, t, Answer
  <1>4. Planned(max_cost, Answer, Popped(op_stack, 1), Charged(max_cost, cost, 0, v), cost)
    <2>1. Charged(max_cost, cost, 0, v) = Returned(cost, v)
      BY <1>1, NoCharge
    <2> QED  BY <1>2, <1>3, <2>1
  <1> QED  BY <1>1, <1>2, <1>4, ReturnPlan DEF Answer

LEMMA ContextPlan ==
    ASSUME IsMeaning, IInv, NEW D, Data(D), DInv(D), PInv, InvokeContextOp
    PROVE  PInv'
  <1> DEFINE t == Returned(cost, value_stack)
  <1>1. Doing("context_op") /\ Return(0, Popped(op_stack, 1), value_stack) /\ pc = "loop"
    BY DEF InvokeContextOp, Doing
  <1>2. /\ Planned(max_cost, Answer, Popped(op_stack, 1), DoOp(max_cost, "context_op", t), cost)
        /\ IsSeq(Popped(op_stack, 1)) /\ cost \in Nat
    BY <1>1, TopPlan
  <1>3. DoOp(max_cost, "context_op", t) = t
    <2> HIDE DEF t
    <2> QED  BY DEF DoOp
  <1> HIDE DEF Answer
  <1>4. Planned(max_cost, Answer, Popped(op_stack, 1), Charged(max_cost, cost, 0, value_stack), cost)
    <2>1. Charged(max_cost, cost, 0, value_stack) = t
      BY <1>1, NoCharge
    <2> HIDE DEF t
    <2> QED  BY <1>2, <1>3, <2>1
  <1> QED  BY <1>1, <1>2, <1>4, ReturnPlan DEF Answer

\* What apply_op starts from.
LEMMA ApplyPlan ==
    ASSUME IsMeaning, IInv, NEW D, DInv(D), PInv, Doing("apply_op")
    PROVE  /\ Planned(max_cost, Answer, Popped(op_stack, 1),
                      Then(Applied(max_cost, Operator.atom, OperandList, cost), Popped(value_stack, 2)), cost)
           /\ IsSeq(Popped(op_stack, 1)) /\ IsSeq(Popped(value_stack, 2)) /\ cost \in Nat
  <1> DEFINE t == Returned(cost, value_stack)
  <1>1. /\ Planned(max_cost, Answer, Popped(op_stack, 1), DoOp(max_cost, "apply_op", t), cost)
        /\ IsSeq(Popped(op_stack, 1)) /\ IsSeq(value_stack) /\ cost \in Nat
    BY TopPlan
  <1>2. t.ok /\ t.cost = cost /\ t.value = value_stack
    BY DEF Returned
  <1>3. Len(value_stack) >= 2
    BY StackNeeds
  <1>4. IsSeq(Popped(value_stack, 2))
    <2>1. 2 \in 1..2
      OBVIOUS
    <2> QED  BY <1>1, <1>3, <2>1, PoppedFacts, Zenon
  <1> HIDE DEF t
  <1>5. DoOp(max_cost, "apply_op", t)
          = Then(Applied(max_cost, FromTop(t.value, 2).atom, FromTop(t.value, 1), t.cost), Popped(t.value, 2))
    BY <1>2 DEF DoOp
  <1>6. DoOp(max_cost, "apply_op", t)
          = Then(Applied(max_cost, Operator.atom, OperandList, cost), Popped(value_stack, 2))
    BY <1>2, <1>5 DEF Operator, OperandList
  <1> HIDE DEF Answer
  <1> QED  BY <1>1, <1>4, <1>6

LEMMA ApplyProgramPlan ==
    ASSUME IsMeaning, IInv, NEW D, Data(D), DInv(D), PInv, ApplyProgram
    PROVE  PInv'
  <1> DEFINE ops == Popped(op_stack, 1)
             values == Popped(value_stack, 2)
             x == Item(OperandList, 1)
             y == Item(OperandList, 2)
             v == Append(values, Pair(x, y))
             o == Append(ops, Op("eval_op"))
             m == Applied(max_cost, Operator.atom, OperandList, cost)
             c == After(max_cost, cost, Returned(APPLY_COST, Null))
             p == Charged(max_cost, cost, APPLY_COST, v)
  <1>1. /\ Doing("apply_op") /\ Operator.atom = ApplyAtom
        /\ IF ListLenIs(OperandList, 2) THEN Return(APPLY_COST, o, v)
           ELSE Raise("apply requires exactly 2 parameters")
    BY DEF ApplyProgram
  <1>2. /\ Planned(max_cost, Answer, ops, Then(m, values), cost)
        /\ IsSeq(ops) /\ IsSeq(values) /\ cost \in Nat
    BY <1>1, ApplyPlan
  <1>3. m = IF ~ListLenIs(OperandList, 2) THEN Raised("apply requires exactly 2 parameters")
            ELSE IF c.ok THEN Meaning(max_cost, x, y, c.cost) ELSE c
    BY <1>1, Zenon DEF Applied
  <1>4. c = Charged(max_cost, cost, APPLY_COST, Null) /\ (c.ok \/ c = Raised("cost exceeded"))
    <2>1. c = Charged(max_cost, cost, APPLY_COST, Null)
      BY AfterCharge
    <2>2. c.ok \/ c = Raised("cost exceeded")
      BY ChargeFails
    <2> QED  BY <2>1, <2>2
  <1> HIDE DEF Answer, m, c
  <1>5. CASE ~ListLenIs(OperandList, 2)
    <2>1. Raise("apply requires exactly 2 parameters")
      BY <1>1, <1>5
    <2>2. Then(m, values) = Raised("apply requires exactly 2 parameters")
      BY <1>3, <1>5, ThenRaised
    <2> HIDE DEF values
    <2>3. Planned(max_cost, Answer, ops, Raised("apply requires exactly 2 parameters"), cost)
      BY <1>2, <2>2
    <2> HIDE DEF ops
    <2> QED  BY <1>2, <2>1, <2>3, RaisePlan DEF Answer
  <1>6. CASE ListLenIs(OperandList, 2)
    <2>1. Return(APPLY_COST, o, v)
      BY <1>1, <1>6
    <2> HIDE DEF values
    <2>2. DoOp(max_cost, "eval_op", p) = Then(m, values)
      <3>1. CASE max_cost # 0 /\ cost + APPLY_COST > max_cost
        <4>1. p = Raised("cost exceeded") /\ c = Raised("cost exceeded")
          BY <1>4, <3>1 DEF Charged
        <4> HIDE DEF p
        <4>2. m = Raised("cost exceeded")
          <5>1. ~c.ok
            BY <4>1, OutcomeFacts
          <5> QED  BY <1>3, <1>6, <4>1, <5>1
        <4> QED  BY <4>1, <4>2, DoNothing, ThenRaised
      <3>2. CASE ~(max_cost # 0 /\ cost + APPLY_COST > max_cost)
        <4>1. p = Returned(cost + APPLY_COST, v) /\ c = Returned(cost + APPLY_COST, Null)
          BY <1>4, <3>2 DEF Charged
        <4>2. m = Meaning(max_cost, x, y, cost + APPLY_COST)
          <5>1. c.ok /\ c.cost = cost + APPLY_COST
            BY <4>1, OutcomeFacts
          <5> HIDE DEF x, y
          <5> QED  BY <1>3, <1>6, <5>1
        <4> HIDE DEF x, y
        <4>3. DoOp(max_cost, "eval_op", Returned(cost + APPLY_COST, v))
                = Then(Meaning(max_cost, x, y, cost + APPLY_COST), values)
          BY <1>2, DoEval, Zenon
        <4> HIDE DEF p, v
        <4> QED  BY <4>1, <4>2, <4>3
      <3> QED  BY <3>1, <3>2
    <2> HIDE DEF v, p, ops
    <2>3. Planned(max_cost, Answer, o, p, cost)
      <3>1. Op("eval_op").f = "eval_op"
        BY DEF Op
      <3>2. SeesValue(max_cost, Op("eval_op"), p, cost)
        BY <3>1 DEF SeesValue
      <3>3. Planned(max_cost, Answer, ops, DoOp(max_cost, Op("eval_op").f, p), cost)
        BY <1>2, <2>2, <3>1
      <3> QED  BY <1>2, <3>2, <3>3, PlanPush
    <2>4. IsSeq(o) /\ APPLY_COST \in Nat
      BY <1>2, PushPop DEF APPLY_COST
    <2>5. Planned(max_cost, Answer, o, Charged(max_cost, cost, APPLY_COST, v), cost)
      BY <2>3 DEF p
    <2> HIDE DEF o
    <2> QED  BY <1>2, <2>1, <2>4, <2>5, ReturnPlan DEF Answer
  <1> QED  BY <1>5, <1>6

LEMMA ApplyOperatorPlan ==
    ASSUME IsMeaning, IInv, NEW D, Data(D), DInv(D), PInv, ApplyOperator
    PROVE  PInv'
  <1> DEFINE ops == Popped(op_stack, 1)
             values == Popped(value_stack, 2)
             m == Applied(max_cost, Operator.atom, OperandList, cost)
             r == OperatorLookup(Operator.atom, OperandList)
  <1>1. /\ Doing("apply_op") /\ Operator.atom # ApplyAtom /\ IsAtom(Operator)
        /\ Deliver(r, ops, values)
    BY DEF ApplyOperator
  <1>2. /\ Planned(max_cost, Answer, ops, Then(m, values), cost)
        /\ IsSeq(ops) /\ cost \in Nat
    BY <1>1, ApplyPlan
  <1>3. m = After(max_cost, cost, r)
    BY <1>1, Zenon DEF Applied
  <1>4. OutcomeOn(D, r)
    <2>1. value_stack \in Seq(D) /\ Len(value_stack) >= 2 /\ ClosedData(D)
      BY <1>1, StackNeeds DEF DInv, Data
    <2>2. Operator \in D /\ OperandList \in D
      BY <2>1, StackData DEF Operator, OperandList
    <2>3. Operator.atom \in Seq(0..255)
      BY <1>1, <2>1, <2>2, DataFacts1
    <2> QED  BY <2>2, <2>3, Zenon DEF Data, OperatorsOn, OutcomeOn
  <1> HIDE DEF ops, values, m, r, Answer
  <1>5. Planned(max_cost, Answer, ops, Then(After(max_cost, cost, r), values), cost)
    BY <1>2, <1>3
  <1> QED  BY <1>1, <1>2, <1>4, <1>5, DeliverPlan DEF Answer

LEMMA EndRunPlan ==
    ASSUME PInv, EndRun
    PROVE  PInv'
  <1>1. /\ pc = "loop" /\ pc' = "done" /\ op_stack' = op_stack /\ value_stack' = value_stack
        /\ cost' = cost /\ max_cost' = max_cost /\ program' = program /\ args' = args
    BY DEF EndRun, arguments
  <1>2. Point' = Point /\ Answer' = Answer
    BY <1>1 DEF Point, Answer
  <1>3. Planned(max_cost, Answer, op_stack, Point, cost)
    BY <1>1, Zenon DEF PInv
  <1> HIDE DEF Point, Answer
  <1>4. Planned(max_cost', Answer', op_stack', Point', cost')
    BY <1>1, <1>2, <1>3
  <1> QED  BY <1>1, <1>4 DEF PInv

LEMMA StutterPlan ==
    ASSUME PInv, UNCHANGED vars
    PROVE  PInv'
  <1>1. /\ pc' = pc /\ op_stack' = op_stack /\ value_stack' = value_stack /\ error' = error
        /\ cost' = cost /\ max_cost' = max_cost /\ program' = program /\ args' = args
        /\ operands' = operands /\ env' = env
    BY DEF vars, arguments, locals
  <1>2. Point' = Point /\ Answer' = Answer
    BY <1>1 DEF Point, Answer
  <1> HIDE DEF Point, Answer
  <1>3. ASSUME pc # "raised" PROVE Planned(max_cost', Answer', op_stack', Point', cost')
    BY <1>1, <1>2, <1>3 DEF PInv
  <1>4. ASSUME pc = "raised" PROVE Answer' = Raised(error')
    BY <1>1, <1>2, <1>4 DEF PInv
  <1> QED  BY <1>1, <1>3, <1>4 DEF PInv

LEMMA NextPlan ==
    ASSUME IsMeaning, IInv, NEW D, Data(D), DInv(D), PInv, Next
    PROVE  PInv'
  <1>1. CASE Eval
    BY <1>1, EvalPathPlan, EvalBracketedPlan, EvalQuotePlan, EvalOperatorPlan, EvalOperandPlan,
       EvalOperandsEndPlan DEF Eval
  <1>2. CASE SwapOp
    BY <1>2, SwapPlan
  <1>3. CASE ConsOp
    BY <1>3, ConsPlan
  <1>4. CASE InvokeContextOp
    BY <1>4, ContextPlan
  <1>5. CASE ApplyProgram
    BY <1>5, ApplyProgramPlan
  <1>6. CASE ApplyOperator
    BY <1>6, ApplyOperatorPlan
  <1>7. CASE EndRun
    BY <1>7, EndRunPlan
  <1>8. CASE Terminated
    BY <1>8, StutterPlan DEF Terminated
  <1> QED  BY <1>1, <1>2, <1>3, <1>4, <1>5, <1>6, <1>7, <1>8 DEF Next

LEMMA InitPlan ==
    ASSUME IsMeaning, Init
    PROVE  PInv
  <1> DEFINE w == <<Pair(program, args)>>
             t == Returned(0, w)
  <1>1. op_stack = <<Op("eval_op")>> /\ value_stack = w /\ cost = 0 /\ pc = "loop"
    BY DEF Init
  <1>2. Point = t
    BY <1>1 DEF Point
  <1>3. IsSeq(<<>>) /\ w = Append(<<>>, Pair(program, args))
        /\ <<Op("eval_op")>> = Append(<<>>, Op("eval_op"))
    <2>1. Append(<<>>, Pair(program, args)) = w
      OBVIOUS
    <2>2. IsSeq(<<>>)
      BY DEF IsSeq
    <2> HIDE DEF w
    <2> QED  BY <2>1, <2>2
  <1>4. DoOp(max_cost, "eval_op", t) = Then(Answer, <<>>)
    <2>1. DoOp(max_cost, "eval_op", Returned(0, Append(<<>>, Pair(program, args))))
            = Then(Meaning(max_cost, program, args, 0), <<>>)
      <3> DEFINE nil == <<>>
      <3>1. IsSeq(nil)
        BY <1>3
      <3> HIDE DEF nil
      <3>2. DoOp(max_cost, "eval_op", Returned(0, Append(nil, Pair(program, args))))
              = Then(Meaning(max_cost, program, args, 0), nil)
        BY <3>1, DoEval, Zenon
      <3> QED  BY <3>2 DEF nil
    <2>2. t = Returned(0, Append(<<>>, Pair(program, args)))
      <3> HIDE DEF w
      <3> QED  BY <1>3
    <2> HIDE DEF w, t
    <2> QED  BY <2>1, <2>2, Zenon DEF Answer
  <1> HIDE DEF t, Answer
  <1>5. Planned(max_cost, Answer, Append(<<>>, Op("eval_op")), t, 0)
    <2>1. Op("eval_op").f = "eval_op"
      BY DEF Op
    <2>2. Planned(max_cost, Answer, <<>>, DoOp(max_cost, Op("eval_op").f, t), 0)
      BY <1>4, <2>1, PlanEnds
    <2>3. SeesValue(max_cost, Op("eval_op"), t, 0)
      BY <2>1 DEF SeesValue
    <2> QED  BY <1>3, <2>2, <2>3, PlanPush
  <1>6. Planned(max_cost, Answer, op_stack, Point, cost)
    BY <1>1, <1>2, <1>3, <1>5
  <1> QED  BY <1>1, <1>6 DEF PInv

-----------------------------------------------------------------------------
\* run_program returns the value of the program and its cost, or raises the
\* error, that the recursive definition gives: for every program, limit, set of
\* operators and set of forms that pre_eval_f picks.
THEOREM ComputesMeaningHolds ==
    ASSUME NEW CONSTANT D, Data(D), IsMeaning
    PROVE  Spec => []ComputesMeaning
  <1>1. Init => DInv(D) /\ PInv
    BY InitData, InitPlan
  <1>2. IInv /\ DInv(D) /\ PInv /\ [Next]_vars => DInv(D)' /\ PInv'
    BY NextCosts, NextPlan, StutterData, StutterPlan
  <1>3. IInv /\ DInv(D) /\ PInv => ComputesMeaning
    <2> SUFFICES ASSUME IInv, PInv, Stopped
                 PROVE  Answer = IF pc = "raised" THEN Raised(error)
                                 ELSE Returned(cost, value_stack[Len(value_stack)])
      BY Zenon DEF ComputesMeaning, Answer
    <2>1. CASE pc = "raised"
      BY <2>1 DEF PInv
    <2>2. CASE pc = "done"
      <3>1. op_stack = <<>> /\ Len(value_stack) = Pending(op_stack, Len(op_stack)) + 1
        BY <2>2 DEF IInv, Ready
      <3>2. Planned(max_cost, Answer, <<>>, Returned(cost, value_stack), cost)
        BY <2>2, <3>1 DEF PInv, Point
      <3>3. Returned(cost, value_stack) = Then(Answer, <<>>)
        BY <3>2, PlanEnds
      <3>4. IsOutcome(Answer)
        BY DEF Answer, IsMeaning
      <3> HIDE DEF Answer
      <3>5. Answer.ok
        <4>1. ~Answer.ok => Returned(cost, value_stack) = Raised(Answer.error)
          BY <3>3 DEF Then
        <4>2. Returned(cost, value_stack).ok /\ ~Raised(Answer.error).ok
          BY OutcomeFacts
        <4> QED  BY <4>1, <4>2
      <3>6. Answer = Returned(Answer.cost, Answer.value)
        <4>1. Answer = Raised(Answer.error) => ~Answer.ok
          BY OutcomeFacts
        <4> QED  BY <3>4, <3>5, <4>1 DEF IsOutcome
      <3>7. cost = Answer.cost /\ value_stack = Append(<<>>, Answer.value)
        <4>1. Returned(cost, value_stack) = Returned(Answer.cost, Append(<<>>, Answer.value))
          BY <3>3, <3>5 DEF Then
        <4> QED  BY <4>1 DEF Returned
      <3>8. value_stack[Len(value_stack)] = Answer.value
        BY <3>7
      <3> QED  BY <2>2, <3>6, <3>7, <3>8
    <2> QED  BY <2>1, <2>2 DEF Stopped
  <1> QED  BY <1>1, <1>2, <1>3, Invariance, PTL DEF Spec

\* Every callable that pre_eval_f returned is given the value of its form.
THEOREM CallableSeesValueHolds ==
    ASSUME NEW CONSTANT D, Data(D), IsMeaning
    PROVE  Spec => []CallableSeesValue
  <1>1. Init => DInv(D) /\ PInv
    BY InitData, InitPlan
  <1>2. IInv /\ DInv(D) /\ PInv /\ [Next]_vars => DInv(D)' /\ PInv'
    BY NextCosts, NextPlan, StutterData, StutterPlan
  <1>3. IInv /\ DInv(D) /\ PInv => CallableSeesValue
    <2> SUFFICES ASSUME IInv, DInv(D), PInv, Doing("context_op")
                 PROVE  \E c \in 0..cost :
                            Meaning(max_cost, FromTop(op_stack, 1).form, FromTop(op_stack, 1).env, c)
                              = Returned(cost, FromTop(value_stack, 1))
      BY Zenon DEF CallableSeesValue
    <2> DEFINE op == FromTop(op_stack, 1)
               t == Returned(cost, value_stack)
    <2>1. SeesValue(max_cost, op, t, cost)
      BY TopPlan
    <2>2. op.f = "context_op"
      BY DEF Doing
    <2>3. t.ok /\ t.cost = cost /\ t.value = value_stack
      BY DEF Returned
    <2> HIDE DEF op, t
    <2>4. \E c0 \in 0..cost : Meaning(max_cost, op.form, op.env, c0) = Returned(t.cost, FromTop(t.value, 1))
      BY <2>1, <2>2, <2>3 DEF SeesValue
    <2> QED  BY <2>3, <2>4 DEF op
  <1> QED  BY <1>1, <1>2, <1>3, Invariance, PTL DEF Spec
=============================================================================
