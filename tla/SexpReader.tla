----------------------------- MODULE SexpReader -----------------------------
(***************************************************************************)
(* sexp_from_stream of src/clvm/serialize.py, with and without             *)
(* back-references: a stack of operations, and a clvm list for the values  *)
(* read, which is also the tree that back-references are paths in.  A      *)
(* failed assertion would leave the reader stuck.                          *)
(***************************************************************************)
EXTENDS TokenStream

VARIABLES reads_backrefs,   \* allow_backrefs
          op_stack,         \* of "read" and "cons"
          val_stack,
          pos,              \* tokens read
          reader,           \* "reading", "done", or "raised"
          result

readerVars == <<reads_backrefs, op_stack, val_stack, pos, reader, result>>

NoResult == [result |-> "none"]

ReaderInit ==
    /\ reads_backrefs \in BOOLEAN
    /\ op_stack = <<"read">>
    /\ val_stack = Null
    /\ pos = 0
    /\ reader = "reading"
    /\ result = NoResult

-----------------------------------------------------------------------------
MayDo(op) == /\ reader = "reading"
             /\ op_stack # <<>> /\ Last(op_stack) = op

Token == f[pos + 1]

MayRead == MayDo("read") /\ pos < Len(f)

\* Mutant of ReadPastEnd: the end is not noticed, and the read repeated.
ReadPastEnd_TriesAgain ==
    /\ MayDo("read") /\ pos = Len(f) /\ eof
    /\ UNCHANGED readerVars

\* f.read returns nothing: "bad encoding"
ReadPastEnd ==
    /\ MayDo("read") /\ pos = Len(f) /\ eof
    /\ reader' = "raised"
    /\ UNCHANGED <<reads_backrefs, op_stack, val_stack, pos, result>>

Advance(ops, vals) ==
    /\ pos' = pos + 1
    /\ op_stack' = Front(op_stack) \o ops
    /\ val_stack' = vals
    /\ UNCHANGED <<reads_backrefs, reader, result>>

\* Mutant of ReadCons: the operations in another order.
ReadCons_ConsTooEarly == /\ MayRead /\ Token = ConsToken
                         /\ Advance(<<"read", "cons", "read">>, val_stack)

ReadCons == /\ MayRead /\ Token = ConsToken
            /\ Advance(<<"cons", "read", "read">>, val_stack)

ReadAtom == /\ MayRead /\ IsAtomToken(Token) /\ ~TooLargeToken(Token)
            /\ Advance(<<>>, Pair(Atom(Token.atom), val_stack))

Path == IntOf(Token.path)

\* Mutant of BadBackref: back-references are read whether allowed or not.
BadBackref_AlwaysAllowed ==
    IsBackrefToken(Token) /\ Path # 0 /\ PathIntoAtom(val_stack, Legs(Path))

BadBackref == /\ IsBackrefToken(Token)
              /\ ~reads_backrefs \/ (Path # 0 /\ PathIntoAtom(val_stack, Legs(Path)))

\* traverse_path, then a push of what it found
ReadBackref ==
    /\ MayRead /\ IsBackrefToken(Token)
    /\ ~TooLargeToken(Token) /\ ~BadBackref
    /\ Advance(<<>>, Pair(IF Path = 0 THEN Null ELSE Follow(val_stack, Legs(Path)), val_stack))

\* "path into atom"; "blob too large", without allow_backrefs 0xfe too, which
\* then starts the size of an atom, of 2^40 or more unless 0x00 follows it; a
\* cut token is a "bad encoding"
ReadBadToken ==
    /\ MayRead /\ (BadBackref \/ TooLargeToken(Token) \/ Token = CutToken)
    /\ reader' = "raised"
    /\ UNCHANGED <<reads_backrefs, op_stack, val_stack, pos, result>>

CanCons == IsPair(val_stack) /\ IsPair(Rest(val_stack))

OpCons ==
    /\ MayDo("cons") /\ CanCons
    /\ op_stack' = Front(op_stack)
    /\ LET right == First(val_stack)
           left  == First(Rest(val_stack))
       IN  val_stack' = Pair(Pair(left, right), Rest(Rest(val_stack)))
    /\ UNCHANGED <<reads_backrefs, pos, reader, result>>

EndReading ==
    /\ reader = "reading" /\ op_stack = <<>> /\ IsPair(val_stack)
    /\ reader' = "done" /\ result' = First(val_stack)
    /\ UNCHANGED <<reads_backrefs, op_stack, val_stack, pos>>

ReaderNext == /\ \/ ReadPastEnd \/ ReadCons \/ ReadAtom \/ ReadBackref \/ ReadBadToken
                 \/ OpCons \/ EndReading
              /\ UNCHANGED streamVars

-----------------------------------------------------------------------------
Ops(op) == { i \in DOMAIN op_stack : op_stack[i] = op }

\* The assertions of _op_cons and of sexp_from_stream hold for every stream:
\* there are two values when a cons is due.  The values on the stack are, at
\* every moment, one more than the conses due less the reads due; so at the end
\* one value is left, and under it nil.
Balanced ==
    /\ (reader = "reading" /\ MayDo("cons")) => CanCons
    /\ ListLenIs(val_stack, 1 + Cardinality(Ops("cons")) - Cardinality(Ops("read")))
=============================================================================
