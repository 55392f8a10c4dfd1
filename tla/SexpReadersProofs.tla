------------------------- MODULE SexpReadersProofs -------------------------
(***************************************************************************)
(* The reader that parses and the one that only counts stop at the same    *)
(* place, on every stream; a cons always finds two values.                 *)
(***************************************************************************)
EXTENDS SexpReaders, DataFacts

IsSeq(s) == s \in Seq(Range(s))

\* How many expressions are still due after the first k tokens of t, ...
ConsIn(t) == { j \in Nat : t[j] = ConsToken }
Due(t, k) == 1 + 2 * HowMany(ConsIn(t), k) - k

\* ... which were read if they are conses and atoms, none too large, and
\* something was always due.
Passes(tok) == tok = ConsToken \/ (IsAtomToken(tok) /\ ~TooLargeToken(tok))

Passed(t, k) == /\ k \in 0..Len(t)
                /\ \A j \in 1..k : Passes(t[j])
                /\ \A j \in 0..(k - 1) : Due(t, j) > 0

\* What comes next is none of these.
Stuck(t, k) == k < Len(t) => \/ t[k+1] = CutToken
                             \/ TooLargeToken(t[k+1]) \/ IsBackrefToken(t[k+1])

ReadsIn(o) == { j \in Nat : o[j] = "read" }
Reads(o)   == HowMany(ReadsIn(o), Len(o))

\* The inductive invariant: both readers are where Due says they are.
ParserInv == /\ Passed(f, pos) /\ IsSeq(op_stack) /\ Reads(op_stack) = Due(f, pos)
             /\ reader \in {"reading", "done", "raised"}
             /\ reader = "raised" => Due(f, pos) > 0 /\ Stuck(f, pos)
             /\ reader = "done" => Due(f, pos) = 0

BufferInv == /\ Passed(f, buf_pos) /\ depth = Due(f, buf_pos)
             /\ buffer \in {"reading", "done", "raised"}
             /\ buffer = "raised" => depth > 0 /\ Stuck(f, buf_pos)
             /\ buffer = "done" => depth = 0

IInv == IsSeq(f) /\ (~reads_backrefs => ParserInv) /\ BufferInv

-----------------------------------------------------------------------------
LEMMA DueFacts ==
    ASSUME NEW t, NEW k \in Nat
    PROVE  /\ Due(t, k) \in Int /\ Due(t, 0) = 1
           /\ Due(t, k + 1) = Due(t, k) - 1 + (IF t[k+1] = ConsToken THEN 2 ELSE 0)
  <1>1. HowMany(ConsIn(t), k) \in Nat
    BY HowManyType
  <1>2. HowMany(ConsIn(t), 0) = 0
    BY HowManyNone
  <1>3. HowMany(ConsIn(t), k + 1)
          = HowMany(ConsIn(t), k) + (IF k + 1 \in ConsIn(t) THEN 1 ELSE 0)
    BY HowManyStep
  <1>4. k + 1 \in ConsIn(t) <=> t[k+1] = ConsToken
    BY DEF ConsIn
  <1>5. HowMany(ConsIn(t), k + 1)
          = HowMany(ConsIn(t), k) + (IF t[k+1] = ConsToken THEN 1 ELSE 0)
    BY <1>3, <1>4
  <1> QED  BY <1>1, <1>2, <1>5 DEF Due

\* One token more is passed.
LEMMA PassOn ==
    ASSUME NEW t, IsSeq(t), NEW k, Passed(t, k), k < Len(t), Due(t, k) > 0,
           Passes(t[k+1])
    PROVE  Passed(t, k + 1)
  <1>1. Len(t) \in Nat /\ k \in Nat
    BY DEF IsSeq, Passed
  <1>2. k + 1 \in 0..Len(t)
    BY <1>1
  <1>3. \A j \in 1..(k + 1) : Passes(t[j])
    <2> SUFFICES ASSUME NEW j \in 1..(k + 1) PROVE Passes(t[j])
      OBVIOUS
    <2>1. j \in 1..k \/ j = k + 1
      BY <1>1
    <2> QED  BY <2>1 DEF Passed
  <1>4. \A j \in 0..(k + 1 - 1) : Due(t, j) > 0
    <2> SUFFICES ASSUME NEW j \in 0..(k + 1 - 1) PROVE Due(t, j) > 0
      OBVIOUS
    <2>1. j \in 0..(k - 1) \/ j = k
      BY <1>1
    <2> QED  BY <2>1 DEF Passed
  <1> QED  BY <1>2, <1>3, <1>4 DEF Passed

-----------------------------------------------------------------------------
(***************************************************************************)
(* The operations of the parser                                            *)
(***************************************************************************)
LEMMA ReadsFacts ==
    ASSUME NEW o, NEW i \in Nat
    PROVE  /\ HowMany(ReadsIn(o), i) \in Nat /\ HowMany(ReadsIn(o), 0) = 0
           /\ HowMany(ReadsIn(o), i + 1)
                = HowMany(ReadsIn(o), i) + (IF o[i+1] = "read" THEN 1 ELSE 0)
  <1>1. HowMany(ReadsIn(o), i) \in Nat
    BY HowManyType
  <1>2. HowMany(ReadsIn(o), 0) = 0
    BY HowManyNone
  <1>3. HowMany(ReadsIn(o), i + 1)
          = HowMany(ReadsIn(o), i) + (IF i + 1 \in ReadsIn(o) THEN 1 ELSE 0)
    BY HowManyStep
  <1>4. i + 1 \in ReadsIn(o) <=> o[i+1] = "read"
    BY DEF ReadsIn
  <1> QED  BY <1>1, <1>2, <1>3, <1>4

LEMMA ReadsLocal ==
    ASSUME NEW o, NEW o2, NEW i \in Nat, \A j \in 1..i : o2[j] = o[j]
    PROVE  HowMany(ReadsIn(o2), i) = HowMany(ReadsIn(o), i)
  <1>1. { j \in 1..i : j \in ReadsIn(o2) } = { j \in 1..i : j \in ReadsIn(o) }
    BY DEF ReadsIn
  <1> QED  BY <1>1 DEF HowMany

LEMMA PushOp ==
    ASSUME NEW o, IsSeq(o), NEW x
    PROVE  /\ IsSeq(Append(o, x))
           /\ Reads(Append(o, x)) = Reads(o) + (IF x = "read" THEN 1 ELSE 0)
           /\ Reads(o) \in Nat
  <1> DEFINE n == Len(o)
             p == Append(o, x)
  <1>1. /\ IsSeq(p) /\ Len(p) = n + 1 /\ n \in Nat
        /\ \A i \in 1..n : p[i] = o[i]
        /\ p[n + 1] = x
    BY AppendFacts DEF IsSeq
  <1> HIDE DEF p
  <1>2. HowMany(ReadsIn(p), n) = HowMany(ReadsIn(o), n)
    BY <1>1, ReadsLocal
  <1>3. HowMany(ReadsIn(p), n + 1) = HowMany(ReadsIn(p), n) + (IF p[n+1] = "read" THEN 1 ELSE 0)
    BY <1>1, ReadsFacts
  <1>4. HowMany(ReadsIn(o), n) \in Nat
    BY <1>1, ReadsFacts
  <1> QED  BY <1>1, <1>2, <1>3, <1>4 DEF Reads, p

\* The operation on top is taken off.
LEMMA PopOp ==
    ASSUME NEW o, IsSeq(o), o # <<>>
    PROVE  /\ IsSeq(Front(o))
           /\ Reads(Front(o)) = Reads(o) - (IF Last(o) = "read" THEN 1 ELSE 0)
           /\ Reads(Front(o)) \in Nat
  <1> DEFINE n == Len(o) - 1
             g == Front(o)
  <1>1. Len(o) > 0 /\ Len(o) \in Nat
    BY DEF IsSeq
  <1>2. IsSeq(g) /\ Len(g) = n /\ \A i \in 1..n : g[i] = o[i]
    BY <1>1, FrontFacts DEF IsSeq, Front
  <1>3. n \in Nat /\ n + 1 = Len(o)
    BY <1>1
  <1>4. Last(o) = o[n + 1]
    BY <1>3 DEF Last
  <1> HIDE DEF n, g
  <1>5. HowMany(ReadsIn(g), n) = HowMany(ReadsIn(o), n)
    BY <1>2, <1>3, ReadsLocal
  <1>6. /\ HowMany(ReadsIn(o), n + 1) = HowMany(ReadsIn(o), n) + (IF o[n+1] = "read" THEN 1 ELSE 0)
        /\ HowMany(ReadsIn(o), n) \in Nat
    BY <1>3, ReadsFacts
  <1>7. Reads(g) = HowMany(ReadsIn(o), n) /\ Reads(o) = HowMany(ReadsIn(o), n + 1)
    BY <1>2, <1>3, <1>5 DEF Reads
  <1>8. Reads(g) = Reads(o) - (IF Last(o) = "read" THEN 1 ELSE 0) /\ Reads(g) \in Nat
    BY <1>4, <1>6, <1>7
  <1> QED  BY <1>2, <1>8 DEF g

LEMMA NoOps == Reads(<<>>) = 0
  <1>1. Len(<<>>) = 0
    OBVIOUS
  <1> QED  BY <1>1, HowManyNone DEF Reads

\* For a cons marker, a cons and two reads are put in the place of a read.
LEMMA ConsOps ==
    ASSUME NEW o, IsSeq(o), o # <<>>, Last(o) = "read"
    PROVE  LET p == Front(o) \o <<"cons", "read", "read">>
           IN  IsSeq(p) /\ Reads(p) = Reads(o) + 1
  <1> DEFINE g == Front(o)
             g1 == Append(g, "cons")
             g2 == Append(g1, "read")
             g3 == Append(g2, "read")
  <1>1. IsSeq(g) /\ Reads(g) = Reads(o) - 1 /\ Reads(g) \in Nat
    BY PopOp
  <1>2. g \o <<"cons", "read", "read">> = g3
    BY <1>1, Append3 DEF IsSeq
  <1> HIDE DEF g
  <1>3. IsSeq(g1) /\ Reads(g1) = Reads(g) + 0
    BY <1>1, PushOp
  <1> HIDE DEF g1
  <1>4. IsSeq(g2) /\ Reads(g2) = Reads(g1) + 1
    BY <1>3, PushOp
  <1> HIDE DEF g2
  <1>5. IsSeq(g3) /\ Reads(g3) = Reads(g2) + 1
    BY <1>4, PushOp
  <1>6. Reads(g3) = Reads(o) + 1
    <2>1. Reads(o) \in Nat
      BY PushOp
    <2> QED  BY <1>1, <1>3, <1>4, <1>5, <2>1
  <1> QED  BY <1>2, <1>5, <1>6 DEF g

-----------------------------------------------------------------------------
(***************************************************************************)
(* The steps                                                               *)
(***************************************************************************)
LEMMA ParserKeeps ==
    ASSUME IInv, ReaderNext, ~reads_backrefs
    PROVE  ParserInv'
  <1>1. IsSeq(f) /\ ParserInv /\ f' = f
    BY DEF IInv, ReaderNext, streamVars
  <1>2. Passed(f, pos) /\ IsSeq(op_stack) /\ Reads(op_stack) = Due(f, pos) /\ pos \in Nat
        /\ Len(f) \in Nat /\ pos <= Len(f)
    BY <1>1 DEF ParserInv, Passed, IsSeq
  <1>3. /\ Due(f, pos) \in Int
        /\ Due(f, pos + 1) = Due(f, pos) - 1 + (IF Token = ConsToken THEN 2 ELSE 0)
    BY <1>2, DueFacts DEF Token
  <1>4. MayDo("read") => Due(f, pos) > 0 /\ op_stack # <<>> /\ Last(op_stack) = "read"
    <2> SUFFICES ASSUME MayDo("read") PROVE Due(f, pos) > 0
      BY DEF MayDo
    <2>1. Reads(Front(op_stack)) = Reads(op_stack) - 1 /\ Reads(Front(op_stack)) \in Nat
      BY <1>2, PopOp DEF MayDo
    <2> QED  BY <1>2, <1>3, <2>1
  <1>5. CASE ReadPastEnd
    <2>1. Stuck(f, pos)
      BY <1>5, <1>2 DEF ReadPastEnd, Stuck
    <2> QED  BY <1>1, <1>2, <1>4, <1>5, <2>1 DEF ReadPastEnd, ParserInv
  <1>6. CASE ReadCons
    <2> DEFINE p == Front(op_stack) \o <<"cons", "read", "read">>
    <2>1. MayDo("read") /\ pos < Len(f) /\ Token = ConsToken
          /\ pos' = pos + 1 /\ op_stack' = p /\ reader' = reader /\ reader = "reading"
      BY <1>6 DEF ReadCons, MayRead, Advance, MayDo
    <2>2. IsSeq(p) /\ Reads(p) = Reads(op_stack) + 1
      BY <1>2, <1>4, <2>1, ConsOps
    <2>3. Passed(f, pos + 1)
      BY <1>1, <1>2, <1>4, <2>1, PassOn DEF Token, Passes
    <2> HIDE DEF p
    <2>4. Reads(p) = Due(f, pos + 1)
      BY <1>2, <1>3, <2>1, <2>2
    <2> QED  BY <1>1, <2>1, <2>2, <2>3, <2>4 DEF ParserInv
  <1>7. CASE ReadAtom
    <2> DEFINE p == Front(op_stack) \o <<>>
    <2>1. MayDo("read") /\ pos < Len(f) /\ IsAtomToken(Token) /\ ~TooLargeToken(Token)
          /\ pos' = pos + 1 /\ op_stack' = p /\ reader' = reader /\ reader = "reading"
      BY <1>7 DEF ReadAtom, MayRead, Advance, MayDo
    <2>2. IsSeq(Front(op_stack)) /\ Reads(Front(op_stack)) = Reads(op_stack) - 1
      BY <1>2, <1>4, <2>1, PopOp
    <2>3. p = Front(op_stack)
      BY <2>2, Append1 DEF IsSeq
    <2>4. Passed(f, pos + 1)
      BY <1>1, <1>2, <1>4, <2>1, PassOn DEF Token, Passes
    <2>5. Token # ConsToken
      BY <2>1 DEF IsAtomToken, ConsToken
    <2> HIDE DEF p
    <2>6. Reads(p) = Due(f, pos + 1)
      BY <1>2, <1>3, <2>2, <2>3, <2>5
    <2> QED  BY <1>1, <2>1, <2>2, <2>3, <2>4, <2>6 DEF ParserInv
  <1>8. CASE ReadBackref
    BY <1>8 DEF ReadBackref, BadBackref
  <1>9. CASE ReadBadToken
    <2>1. Stuck(f, pos)
      BY <1>9 DEF ReadBadToken, BadBackref, Stuck, Token
    <2>2. MayDo("read") /\ reader' = "raised" /\ op_stack' = op_stack /\ pos' = pos
      BY <1>9 DEF ReadBadToken, MayRead
    <2> QED  BY <1>1, <1>2, <1>4, <2>1, <2>2 DEF ParserInv
  <1>10. CASE OpCons
    <2>1. /\ op_stack # <<>> /\ Last(op_stack) = "cons" /\ reader = "reading"
          /\ op_stack' = Front(op_stack) /\ pos' = pos /\ reader' = reader
      BY <1>10 DEF OpCons, MayDo
    <2>2. IsSeq(Front(op_stack)) /\ Reads(Front(op_stack)) = Reads(op_stack) - 0
      BY <1>2, <2>1, PopOp
    <2>3. Reads(Front(op_stack)) = Due(f, pos)
      BY <1>2, <1>3, <2>2
    <2> QED  BY <1>1, <1>2, <2>1, <2>2, <2>3 DEF ParserInv
  <1>11. CASE EndReading
    <2>1. op_stack = <<>> /\ op_stack' = op_stack /\ pos' = pos /\ reader' = "done"
      BY <1>11 DEF EndReading
    <2>2. Due(f, pos) = 0
      BY <1>2, <2>1, NoOps
    <2> QED  BY <1>1, <1>2, <2>1, <2>2 DEF ParserInv
  <1> QED  BY <1>5, <1>6, <1>7, <1>8, <1>9, <1>10, <1>11 DEF ReaderNext

LEMMA BufferKeeps ==
    ASSUME IInv, BufferNext
    PROVE  BufferInv'
  <1>1. IsSeq(f) /\ BufferInv /\ f' = f
    BY DEF IInv, BufferNext, streamVars
  <1>2. Passed(f, buf_pos) /\ depth = Due(f, buf_pos) /\ buf_pos \in Nat
        /\ Len(f) \in Nat /\ buf_pos <= Len(f)
    BY <1>1 DEF BufferInv, Passed, IsSeq
  <1>3. /\ Due(f, buf_pos) \in Int
        /\ Due(f, buf_pos + 1) = Due(f, buf_pos) - 1 + (IF BufferToken = ConsToken THEN 2 ELSE 0)
    BY <1>2, DueFacts DEF BufferToken
  <1>4. CASE Consume
    <2>1. /\ buffer = "reading" /\ depth > 0 /\ buf_pos < Len(f)
          /\ Passes(BufferToken)
          /\ buf_pos' = buf_pos + 1 /\ buffer' = buffer
          /\ depth' = depth - 1 + (IF BufferToken = ConsToken THEN 2 ELSE 0)
      BY <1>4 DEF Consume, MayBuffer, Passes
    <2>2. Passed(f, buf_pos + 1)
      BY <1>1, <1>2, <2>1, PassOn DEF BufferToken
    <2>3. depth' = Due(f, buf_pos + 1)
      BY <1>2, <1>3, <2>1
    <2> QED  BY <1>1, <2>1, <2>2, <2>3 DEF BufferInv
  <1>5. CASE ConsumeFails
    <2>1. depth > 0 /\ Stuck(f, buf_pos)
      BY <1>5 DEF ConsumeFails, MayBuffer, Stuck, BufferToken
    <2> QED  BY <1>1, <1>2, <1>5, <2>1 DEF ConsumeFails, BufferInv
  <1>6. CASE EndBuffer
    BY <1>1, <1>2, <1>6 DEF EndBuffer, BufferInv
  <1> QED  BY <1>4, <1>5, <1>6 DEF BufferNext

LEMMA InitIInv == Init => IInv
  <1> SUFFICES ASSUME Init PROVE IInv
    OBVIOUS
  <1>1. IsSeq(f) /\ Len(f) \in Nat
    BY StreamsAssumption DEF Init, IsSeq
  <1>2. Due(f, 0) = 1
    BY DueFacts
  <1>3. Passed(f, 0)
    BY <1>1 DEF Passed
  <1>4. IsSeq(<<"read">>) /\ Reads(<<"read">>) = 1
    <2>1. IsSeq(<<>>)
      <3>1. <<>> \in Seq({})
        OBVIOUS
      <3> QED  BY <3>1, SeqOfItsRange DEF IsSeq
    <2>2. Append(<<>>, "read") = <<"read">>
      OBVIOUS
    <2>3. IsSeq(Append(<<>>, "read")) /\ Reads(Append(<<>>, "read")) = Reads(<<>>) + 1
      BY <2>1, PushOp
    <2> QED  BY <2>2, <2>3, NoOps
  <1>5. ParserInv
    BY <1>2, <1>3, <1>4 DEF Init, ReaderInit, ParserInv
  <1>6. BufferInv
    BY <1>2, <1>3 DEF Init, BufferInv
  <1> QED  BY <1>1, <1>5, <1>6 DEF IInv

LEMMA StepIInv == IInv /\ [Next]_vars => IInv'
  <1> SUFFICES ASSUME IInv, [Next]_vars PROVE IInv'
    OBVIOUS
  <1>1. CASE UNCHANGED vars
    BY <1>1 DEF vars, streamVars, readerVars, bufferVars, IInv, ParserInv, BufferInv
  <1>2. CASE Read
    <2>1. ReaderNext /\ f' = f /\ reads_backrefs' = reads_backrefs
          /\ depth' = depth /\ buf_pos' = buf_pos /\ buffer' = buffer
      BY <1>2 DEF Read, ReaderNext, streamVars, bufferVars, ReadPastEnd, ReadCons, ReadAtom,
                  ReadBackref, ReadBadToken, OpCons, EndReading, Advance
    <2>2. ~reads_backrefs' => ParserInv'
      BY <2>1, ParserKeeps
    <2>3. BufferInv'
      BY <2>1 DEF IInv, BufferInv
    <2> QED  BY <2>1, <2>2, <2>3 DEF IInv
  <1>3. CASE Buffer
    <2>1. BufferNext /\ f' = f /\ UNCHANGED readerVars
      BY <1>3 DEF Buffer, BufferNext, streamVars
    <2>2. BufferInv'
      BY <2>1, BufferKeeps
    <2>3. ~reads_backrefs' => ParserInv'
      BY <2>1 DEF IInv, ParserInv, readerVars
    <2> QED  BY <2>1, <2>2, <2>3 DEF IInv
  <1>4. CASE Terminated
    BY <1>1, <1>4 DEF Terminated
  <1> QED  BY <1>1, <1>2, <1>3, <1>4 DEF Next

-----------------------------------------------------------------------------
\* Where nothing is due no one goes on, ...
LEMMA NotBeyond ==
    ASSUME NEW t, NEW k, NEW m, Passed(t, k), Passed(t, m), Due(t, k) = 0
    PROVE  m <= k
  <1>1. k \in Nat /\ m \in Nat
    BY DEF Passed
  <1>2. k \notin 0..(m - 1)
    BY DEF Passed
  <1> QED  BY <1>1, <1>2

\* ... and who is stuck is stuck for the other as well.
LEMMA NotStuckBefore ==
    ASSUME NEW t, NEW k, NEW m, Passed(t, k), Passed(t, m), Due(t, k) = 0,
           Due(t, m) > 0, Stuck(t, m), IsSeq(t)
    PROVE  FALSE
  <1>1. k \in Nat /\ m \in Nat /\ m <= k /\ m # k /\ k <= Len(t) /\ Len(t) \in Nat
    BY NotBeyond DEF Passed, IsSeq
  <1>2. m + 1 \in 1..k /\ m < Len(t)
    BY <1>1
  <1>3. Passes(t[m+1])
    BY <1>2 DEF Passed
  <1>4. t[m+1] = CutToken \/ TooLargeToken(t[m+1]) \/ IsBackrefToken(t[m+1])
    BY <1>2 DEF Stuck
  <1> QED  BY <1>3, <1>4 DEF Passes, ConsToken, CutToken, TooLargeToken, IsAtomToken, IsBackrefToken

\* sexp_buffer_from_stream cuts every stream where sexp_from_stream ends to read
\* it, and refuses what that refuses: it never hands over half an expression, or
\* the start of the next one.
THEOREM SameExtentHolds == Spec => []SameExtent
  <1>1. IInv => SameExtent
    <2> SUFFICES ASSUME IInv, Stopped, ~reads_backrefs
                 PROVE  buffer = reader /\ (reader = "done" => buf_pos = pos)
      BY DEF SameExtent
    <2>1. /\ reader \in {"done", "raised"} /\ buffer \in {"done", "raised"}
          /\ IsSeq(f) /\ Passed(f, pos) /\ Passed(f, buf_pos) /\ depth = Due(f, buf_pos)
          /\ reader = "raised" => Due(f, pos) > 0 /\ Stuck(f, pos)
          /\ reader = "done" => Due(f, pos) = 0
          /\ buffer = "raised" => depth > 0 /\ Stuck(f, buf_pos)
          /\ buffer = "done" => depth = 0
      BY DEF IInv, ParserInv, BufferInv, Stopped
    <2>2. CASE reader = "done" /\ buffer = "done"
      <3>1. pos <= buf_pos /\ buf_pos <= pos /\ pos \in Nat /\ buf_pos \in Nat
        BY <2>1, <2>2, NotBeyond DEF Passed
      <3> QED  BY <2>2, <3>1
    <2>3. CASE reader = "done" /\ buffer = "raised"
      BY <2>1, <2>3, NotStuckBefore
    <2>4. CASE reader = "raised" /\ buffer = "done"
      BY <2>1, <2>4, NotStuckBefore
    <2> QED  BY <2>1, <2>2, <2>3, <2>4
  <1> QED  BY <1>1, InitIInv, StepIInv, PTL DEF Spec

-----------------------------------------------------------------------------
(***************************************************************************)
(* The value stack                                                         *)
(*                                                                         *)
(* Surplus(o, k) is the number of values that there have to be when the    *)
(* first k operations of o are left, for one value to be there at the end. *)
(***************************************************************************)
ConsesIn(o) == { j \in Nat : o[j] = "cons" }
Surplus(o, k) == 1 + HowMany(ConsesIn(o), k) - HowMany(ReadsIn(o), k)

\* There are at least two values for every cons, and there is never a debt.
Served(o) ==
    /\ IsSeq(o)
    /\ \A k \in 1..Len(o) : o[k] \in {"read", "cons"} /\ (o[k] = "cons" => Surplus(o, k) >= 2)
    /\ \A k \in 0..Len(o) : Surplus(o, k) >= 0

\* v is a list of n values.
Lists(v, n) == /\ n \in Nat
               /\ \E c : /\ c[n] = v /\ ~IsPair(c[0])
                         /\ \A j \in 1..n : IsPair(c[j]) /\ Rest(c[j]) = c[j - 1]

\* The inductive invariant for Balanced.
ValuesInv == Served(op_stack) /\ Lists(val_stack, Surplus(op_stack, Len(op_stack)))

LEMMA SurplusFacts ==
    ASSUME NEW o, NEW k \in Nat
    PROVE  /\ Surplus(o, k) \in Int /\ Surplus(o, 0) = 1
           /\ Surplus(o, k + 1) = Surplus(o, k) + (IF o[k+1] = "cons" THEN 1 ELSE 0)
                                                - (IF o[k+1] = "read" THEN 1 ELSE 0)
  <1>1. /\ HowMany(ReadsIn(o), k) \in Nat /\ HowMany(ReadsIn(o), 0) = 0
        /\ HowMany(ReadsIn(o), k + 1) = HowMany(ReadsIn(o), k) + (IF o[k+1] = "read" THEN 1 ELSE 0)
    BY ReadsFacts
  <1>2. HowMany(ConsesIn(o), k) \in Nat /\ HowMany(ConsesIn(o), 0) = 0
    BY HowManyType, HowManyNone
  <1>3. HowMany(ConsesIn(o), k + 1)
          = HowMany(ConsesIn(o), k) + (IF k + 1 \in ConsesIn(o) THEN 1 ELSE 0)
    BY HowManyStep
  <1>4. k + 1 \in ConsesIn(o) <=> o[k+1] = "cons"
    BY DEF ConsesIn
  <1>5. HowMany(ConsesIn(o), k + 1)
          = HowMany(ConsesIn(o), k) + (IF o[k+1] = "cons" THEN 1 ELSE 0)
    BY <1>3, <1>4
  <1> QED  BY <1>1, <1>2, <1>5 DEF Surplus

LEMMA SurplusLocal ==
    ASSUME NEW o, NEW o2, NEW i \in Nat, \A j \in 1..i : o2[j] = o[j]
    PROVE  Surplus(o2, i) = Surplus(o, i)
  <1>1. { j \in 1..i : j \in ConsesIn(o2) } = { j \in 1..i : j \in ConsesIn(o) }
    BY DEF ConsesIn
  <1>2. HowMany(ConsesIn(o2), i) = HowMany(ConsesIn(o), i)
    BY <1>1 DEF HowMany
  <1>3. HowMany(ReadsIn(o2), i) = HowMany(ReadsIn(o), i)
    BY ReadsLocal
  <1> QED  BY <1>2, <1>3 DEF Surplus

\* An operation is put on the others: there is one value at least.
LEMMA PushServed ==
    ASSUME NEW o, Served(o), NEW x \in {"read", "cons"}, Surplus(o, Len(o)) >= 1
    PROVE  LET p == Append(o, x)
           IN  /\ Served(p)
               /\ Surplus(p, Len(p)) = Surplus(o, Len(o)) + (IF x = "cons" THEN 1 ELSE -1)
  <1> DEFINE n == Len(o)
             p == Append(o, x)
  <1>1. /\ IsSeq(p) /\ Len(p) = n + 1 /\ n \in Nat
        /\ \A i \in 1..n : p[i] = o[i]
        /\ p[n + 1] = x
    BY AppendFacts DEF IsSeq, Served
  <1> HIDE DEF p
  <1>2. ASSUME NEW k \in 0..n PROVE Surplus(p, k) = Surplus(o, k)
    <2>1. k \in Nat /\ \A j \in 1..k : p[j] = o[j]
      BY <1>1
    <2> QED  BY <2>1, SurplusLocal
  <1>3. /\ Surplus(p, n + 1) = Surplus(p, n) + (IF x = "cons" THEN 1 ELSE 0)
                                             - (IF x = "read" THEN 1 ELSE 0)
        /\ Surplus(p, n) \in Int
    BY <1>1, SurplusFacts
  <1>4. Surplus(p, n + 1) = Surplus(o, n) + (IF x = "cons" THEN 1 ELSE -1)
    BY <1>1, <1>2, <1>3
  <1>5. Surplus(p, n + 1) >= 0 /\ (x = "cons" => Surplus(p, n + 1) >= 2)
    BY <1>1, <1>2, <1>3, <1>4
  <1>6. ASSUME NEW k \in 1..(n + 1)
        PROVE  p[k] \in {"read", "cons"} /\ (p[k] = "cons" => Surplus(p, k) >= 2)
    <2>1. CASE k \in 1..n
      <3>1. p[k] = o[k] /\ Surplus(p, k) = Surplus(o, k)
        BY <1>1, <1>2, <2>1
      <3> QED  BY <2>1, <3>1 DEF Served
    <2>2. CASE k = n + 1
      BY <1>1, <1>5, <2>2
    <2> QED  BY <1>1, <2>1, <2>2
  <1>7. ASSUME NEW k \in 0..(n + 1) PROVE Surplus(p, k) >= 0
    <2>1. CASE k \in 0..n
      BY <1>2, <2>1 DEF Served
    <2>2. CASE k = n + 1
      BY <1>5, <2>2
    <2> QED  BY <1>1, <2>1, <2>2
  <1> QED  BY <1>1, <1>4, <1>6, <1>7 DEF Served, p

\* The operation on top is taken off.
LEMMA PopServed ==
    ASSUME NEW o, Served(o), o # <<>>
    PROVE  LET g == Front(o)
           IN  /\ Served(g) /\ Surplus(o, Len(o)) \in Nat
               /\ Surplus(g, Len(g)) = Surplus(o, Len(o)) + (IF Last(o) = "cons" THEN -1 ELSE 1)
               /\ Last(o) = "cons" => Surplus(o, Len(o)) >= 2
  <1> DEFINE n == Len(o) - 1
             g == Front(o)
  <1>1. IsSeq(o) /\ Len(o) > 0 /\ Len(o) \in Nat
    BY DEF Served, IsSeq
  <1>2. IsSeq(g) /\ Len(g) = n /\ \A i \in 1..n : g[i] = o[i]
    BY <1>1, FrontFacts DEF IsSeq, Front
  <1>3. n \in Nat /\ n + 1 \in Nat /\ n + 1 = Len(o) /\ n + 1 \in 1..Len(o) /\ n + 1 \in 0..Len(o)
    BY <1>1
  <1>4. Last(o) = o[n + 1]
    BY <1>3 DEF Last
  <1> HIDE DEF n, g
  <1>5. ASSUME NEW k \in 0..n PROVE Surplus(g, k) = Surplus(o, k)
    <2>1. k \in Nat /\ \A j \in 1..k : g[j] = o[j]
      BY <1>2, <1>3
    <2> QED  BY <2>1, SurplusLocal
  <1>6. /\ Surplus(o, n + 1) = Surplus(o, n) + (IF o[n+1] = "cons" THEN 1 ELSE 0)
                                             - (IF o[n+1] = "read" THEN 1 ELSE 0)
        /\ Surplus(o, n) \in Int /\ Surplus(o, n + 1) \in Int
    BY <1>3, SurplusFacts
  <1>7. /\ o[n + 1] \in {"read", "cons"} /\ Surplus(o, n + 1) >= 0
        /\ o[n + 1] = "cons" => Surplus(o, n + 1) >= 2
    BY <1>3 DEF Served
  <1>8. Surplus(g, n) = Surplus(o, n + 1) + (IF Last(o) = "cons" THEN -1 ELSE 1)
    <2>1. Surplus(g, n) = Surplus(o, n)
      BY <1>3, <1>5
    <2> QED  BY <1>4, <1>6, <1>7, <2>1
  <1>9. \A k \in 1..n : k \in 0..n /\ k \in 1..Len(o) /\ k \in 0..Len(o)
    BY <1>3
  <1>10. \A k \in 0..n : k \in 0..Len(o)
    BY <1>3
  <1>11. Served(g)
    BY <1>2, <1>5, <1>9, <1>10 DEF Served
  <1> QED  BY <1>2, <1>3, <1>4, <1>6, <1>7, <1>8, <1>11 DEF g

LEMMA PushValue ==
    ASSUME NEW v, NEW n, Lists(v, n), NEW x
    PROVE  Lists(Pair(x, v), n + 1)
  <1> DEFINE w == Pair(x, v)
  <1>1. PICK c : /\ c[n] = v /\ ~IsPair(c[0])
                 /\ \A j \in 1..n : IsPair(c[j]) /\ Rest(c[j]) = c[j - 1]
    BY DEF Lists
  <1>2. n \in Nat
    BY DEF Lists
  <1>3. IsPair(w) /\ Rest(w) = v
    BY DEF Pair, IsPair, Rest
  <1> HIDE DEF w
  <1> DEFINE d == [j \in 0..(n + 1) |-> IF j = n + 1 THEN w ELSE c[j]]
  <1>4. d[n + 1] = w /\ \A j \in 0..n : d[j] = c[j]
    BY <1>2
  <1> HIDE DEF d
  <1>5. ~IsPair(d[0])
    BY <1>1, <1>2, <1>4
  <1>6. ASSUME NEW j \in 1..(n + 1) PROVE IsPair(d[j]) /\ Rest(d[j]) = d[j - 1]
    <2>1. CASE j = n + 1
      <3>1. j - 1 = n /\ n \in 0..n
        BY <1>2, <2>1
      <3> QED  BY <1>1, <1>3, <1>4, <2>1, <3>1
    <2>2. CASE j # n + 1
      <3>1. j \in 1..n /\ j \in 0..n /\ j - 1 \in 0..n
        BY <1>2, <2>2
      <3> QED  BY <1>1, <1>4, <3>1
    <2> QED  BY <2>1, <2>2
  <1> QED  BY <1>2, <1>4, <1>5, <1>6 DEF Lists, w

LEMMA PopValue ==
    ASSUME NEW v, NEW n, Lists(v, n), n >= 1
    PROVE  IsPair(v) /\ Lists(Rest(v), n - 1)
  <1>1. PICK c : /\ c[n] = v /\ ~IsPair(c[0])
                 /\ \A j \in 1..n : IsPair(c[j]) /\ Rest(c[j]) = c[j - 1]
    BY DEF Lists
  <1>2. n \in Nat /\ n \in 1..n /\ n - 1 \in Nat /\ \A j \in 1..(n - 1) : j \in 1..n
    BY DEF Lists
  <1> QED  BY <1>1, <1>2 DEF Lists

LEMMA ListsLen ==
    ASSUME NEW v, NEW n, Lists(v, n)
    PROVE  ListLenIs(v, n)
  <1>1. PICK c : /\ c[n] = v /\ ~IsPair(c[0])
                 /\ \A j \in 1..n : IsPair(c[j]) /\ Rest(c[j]) = c[j - 1]
    BY DEF Lists
  <1>2. n \in Nat
    BY DEF Lists
  <1>3. Tail_(c[n], n) = c[n - n]
    <2>1. n \in 0..n
      BY <1>2
    <2> QED  BY <1>1, <1>2, <2>1, TailFacts
  <1>4. ASSUME n > 0 PROVE Tail_(c[n], n - 1) = c[n - (n - 1)] /\ n - (n - 1) \in 1..n
    <2>1. n - 1 \in 0..n /\ n - (n - 1) \in 1..n
      BY <1>2, <1>4
    <2> QED  BY <1>1, <1>2, <2>1, TailFacts
  <1>5. n - n = 0
    BY <1>2
  <1> QED  BY <1>1, <1>3, <1>4, <1>5 DEF ListLenIs

\* A value is read: an operation less, a value more.
LEMMA ValueRead ==
    ASSUME ValuesInv, MayDo("read"), NEW x, op_stack' = Front(op_stack) \o <<>>,
           val_stack' = Pair(x, val_stack)
    PROVE  ValuesInv'
  <1> DEFINE g == Front(op_stack)
  <1>1. op_stack # <<>> /\ Last(op_stack) = "read"
    BY DEF MayDo
  <1>2. Served(g) /\ Surplus(g, Len(g)) = Surplus(op_stack, Len(op_stack)) + 1
    BY <1>1, PopServed DEF ValuesInv
  <1> HIDE DEF g
  <1>3. op_stack' = g
    BY <1>2, Append1 DEF Served, IsSeq, g
  <1>4. Lists(val_stack', Surplus(g, Len(g)))
    BY <1>2, PushValue DEF ValuesInv
  <1> QED  BY <1>2, <1>3, <1>4 DEF ValuesInv

LEMMA ConsMarkRead ==
    ASSUME ValuesInv, MayDo("read"), val_stack' = val_stack,
           op_stack' = Front(op_stack) \o <<"cons", "read", "read">>
    PROVE  ValuesInv'
  <1> DEFINE S(o) == Surplus(o, Len(o))
             g  == Front(op_stack)
             g1 == Append(g, "cons")
             g2 == Append(g1, "read")
             g3 == Append(g2, "read")
  <1>1. Served(op_stack) /\ op_stack # <<>> /\ Last(op_stack) = "read"
    BY DEF MayDo, ValuesInv
  <1>2. Served(g) /\ S(g) = S(op_stack) + 1 /\ S(op_stack) \in Nat
    BY <1>1, PopServed
  <1>3. op_stack' = g3
    BY <1>2, Append3 DEF Served, IsSeq
  <1> HIDE DEF g
  <1>4. Served(g1) /\ S(g1) = S(g) + 1
    BY <1>2, PushServed
  <1> HIDE DEF g1
  <1>5. Served(g2) /\ S(g2) = S(g1) - 1
    BY <1>2, <1>4, PushServed
  <1> HIDE DEF g2
  <1>6. Served(g3) /\ S(g3) = S(g2) - 1
    BY <1>2, <1>4, <1>5, PushServed
  <1> HIDE DEF g3
  <1>7. S(g3) = S(op_stack)
    BY <1>2, <1>4, <1>5, <1>6
  <1> QED  BY <1>3, <1>6, <1>7 DEF ValuesInv

LEMMA ValuesConsed ==
    ASSUME ValuesInv, OpCons
    PROVE  ValuesInv'
  <1> DEFINE n == Surplus(op_stack, Len(op_stack))
             g == Front(op_stack)
             x == Pair(First(Rest(val_stack)), First(val_stack))
  <1>1. /\ op_stack # <<>> /\ Last(op_stack) = "cons" /\ op_stack' = g
        /\ val_stack' = Pair(x, Rest(Rest(val_stack)))
    BY DEF OpCons, MayDo
  <1>2. Served(g) /\ Surplus(g, Len(g)) = n - 1 /\ n >= 2 /\ n \in Nat /\ Lists(val_stack, n)
    BY <1>1, PopServed DEF ValuesInv
  <1> HIDE DEF n, g, x
  <1>3. Lists(Rest(val_stack), n - 1)
    BY <1>2, PopValue
  <1>4. Lists(Rest(Rest(val_stack)), n - 1 - 1)
    <2>1. n - 1 >= 1
      BY <1>2
    <2> QED  BY <1>3, <2>1, PopValue
  <1>5. Lists(val_stack', n - 1 - 1 + 1)
    BY <1>1, <1>4, PushValue
  <1>6. n - 1 - 1 + 1 = n - 1
    BY <1>2
  <1> QED  BY <1>1, <1>2, <1>5, <1>6 DEF ValuesInv

LEMMA ValuesInit == Init => ValuesInv
  <1> SUFFICES ASSUME Init PROVE ValuesInv
    OBVIOUS
  <1>1. op_stack = <<"read">> /\ val_stack = Null
    BY DEF Init, ReaderInit
  <1>2. IsSeq(<<>>)
    <2>1. <<>> \in Seq({})
      OBVIOUS
    <2> QED  BY <2>1, SeqOfItsRange DEF IsSeq
  <1>3. Served(<<>>) /\ Surplus(<<>>, Len(<<>>)) = 1
    <2>1. Len(<<>>) = 0 /\ 0 \in Nat /\ 0..0 = {0} /\ 1..0 = {}
      OBVIOUS
    <2>2. Surplus(<<>>, 0) = 1
      BY <2>1, SurplusFacts
    <2> QED  BY <1>2, <2>1, <2>2 DEF Served
  <1>4. Append(<<>>, "read") = <<"read">>
    OBVIOUS
  <1>5. Served(op_stack) /\ Surplus(op_stack, Len(op_stack)) = 0
    <2> DEFINE o == <<>>
    <2>1. Served(o) /\ Surplus(o, Len(o)) = 1
      BY <1>3
    <2> HIDE DEF o
    <2>2. "read" \in {"read", "cons"} /\ "read" # "cons" /\ Surplus(o, Len(o)) >= 1
      BY <2>1
    <2>3. /\ Served(Append(o, "read"))
          /\ Surplus(Append(o, "read"), Len(Append(o, "read"))) = 0
      BY <2>1, <2>2, PushServed
    <2> QED  BY <1>1, <1>4, <2>3 DEF o
  <1>6. Lists(val_stack, 0)
    <2> DEFINE c == [j \in {0} |-> Null]
    <2>1. ~IsPair(Null)
      BY DEF Null, Atom, IsPair
    <2>2. c[0] = Null /\ 1..0 = {}
      OBVIOUS
    <2> HIDE DEF c
    <2> QED  BY <1>1, <2>1, <2>2 DEF Lists
  <1> QED  BY <1>5, <1>6 DEF ValuesInv

LEMMA ValuesStep == ValuesInv /\ [Next]_vars => ValuesInv'
  <1> SUFFICES ASSUME ValuesInv, [Next]_vars PROVE ValuesInv'
    OBVIOUS
  <1>1. CASE UNCHANGED <<op_stack, val_stack>>
    BY <1>1 DEF ValuesInv
  <1>2. CASE ReadCons
    BY <1>2, ConsMarkRead DEF ReadCons, MayRead, Advance
  <1>3. CASE ReadAtom
    BY <1>3, ValueRead DEF ReadAtom, MayRead, Advance
  <1>4. CASE ReadBackref
    BY <1>4, ValueRead DEF ReadBackref, MayRead, Advance
  <1>5. CASE OpCons
    BY <1>5, ValuesConsed
  <1> QED  BY <1>1, <1>2, <1>3, <1>4, <1>5
           DEF Next, Read, ReaderNext, Buffer, Terminated, vars, readerVars,
               ReadPastEnd, ReadBadToken, EndReading

\* Balanced: the assertions of _op_cons and of sexp_from_stream, `val_stack' has
\* two values, hold on every stream whatever is in it, with back-references and
\* without; and one value is left at the end.
THEOREM BalancedHolds == Spec => []Balanced
  <1>1. ValuesInv => Balanced
    <2> SUFFICES ASSUME ValuesInv PROVE Balanced
      OBVIOUS
    <2> DEFINE n == Surplus(op_stack, Len(op_stack))
    <2>1. Served(op_stack) /\ Lists(val_stack, n) /\ IsSeq(op_stack)
      BY DEF ValuesInv, Served
    <2>2. ASSUME MayDo("cons") PROVE CanCons
      <3>1. n >= 2 /\ n \in Nat
        BY <2>1, <2>2, PopServed DEF MayDo
      <3> HIDE DEF n
      <3>2. n >= 1 /\ n - 1 >= 1
        BY <3>1
      <3>3. IsPair(val_stack) /\ Lists(Rest(val_stack), n - 1)
        BY <2>1, <3>2, PopValue
      <3>4. IsPair(Rest(val_stack))
        BY <3>2, <3>3, PopValue
      <3> QED  BY <3>3, <3>4 DEF CanCons
    <2>3. ListLenIs(val_stack, n)
      BY <2>1, ListsLen
    <2>4. DOMAIN op_stack = 1..Len(op_stack) /\ Len(op_stack) \in Nat
      BY <2>1 DEF IsSeq
    <2>5. Cardinality(Ops("cons")) = HowMany(ConsesIn(op_stack), Len(op_stack))
      <3>1. Ops("cons") = { j \in 1..Len(op_stack) : j \in ConsesIn(op_stack) }
        BY <2>4 DEF Ops, ConsesIn
      <3> QED  BY <3>1 DEF HowMany
    <2>6. Cardinality(Ops("read")) = HowMany(ReadsIn(op_stack), Len(op_stack))
      <3>1. Ops("read") = { j \in 1..Len(op_stack) : j \in ReadsIn(op_stack) }
        BY <2>4 DEF Ops, ReadsIn
      <3> QED  BY <3>1 DEF HowMany
    <2> QED  BY <2>2, <2>3, <2>5, <2>6 DEF Balanced, Surplus
  <1> QED  BY <1>1, ValuesInit, ValuesStep, PTL DEF Spec
=============================================================================
