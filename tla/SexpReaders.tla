---------------------------- MODULE SexpReaders ----------------------------
(***************************************************************************)
(* The readers of src/clvm/serialize.py on any stream, well formed or not: *)
(* sexp_from_stream, and sexp_buffer_from_stream, which only counts to     *)
(* find where the expression ends.                                         *)
(***************************************************************************)
EXTENDS SexpReader

CONSTANT Streams     \* the streams to read

\* The path <<0>> is left out: it alone is written with a first byte 0x00, and a
\* reader without back-references takes 0xfe 0x00 for the size of an atom that may
\* be there.
ASSUME StreamsAssumption ==
    \A s \in Streams : s \in Seq(Range(s)) /\ BackrefToken(<<0>>) \notin Range(s)

VARIABLES depth,
          buf_pos,   \* tokens copied
          buffer     \* "reading", "done", or "raised"

bufferVars == <<depth, buf_pos, buffer>>
vars == <<streamVars, readerVars, bufferVars>>

Init == /\ ReaderInit
        /\ f \in Streams /\ eof = TRUE
        /\ depth = 1 /\ buf_pos = 0 /\ buffer = "reading"

-----------------------------------------------------------------------------
BufferToken == f[buf_pos + 1]

MayBuffer == buffer = "reading" /\ depth > 0

\* _op_consume_sexp: a cons marker needs two more, an atom is one less
Consume ==
    /\ MayBuffer /\ buf_pos < Len(f)
    /\ BufferToken = ConsToken \/ (IsAtomToken(BufferToken) /\ ~TooLargeToken(BufferToken))
    /\ buf_pos' = buf_pos + 1
    /\ depth' = depth - 1 + (IF BufferToken = ConsToken THEN 2 ELSE 0)
    /\ UNCHANGED buffer

\* a short read, an atom too large, or 0xfe taken for the size of one
ConsumeFails ==
    /\ MayBuffer
    /\ buf_pos < Len(f) => \/ BufferToken = CutToken
                           \/ TooLargeToken(BufferToken) \/ IsBackrefToken(BufferToken)
    /\ buffer' = "raised"
    /\ UNCHANGED <<depth, buf_pos>>

EndBuffer == /\ buffer = "reading" /\ depth = 0
             /\ buffer' = "done"
             /\ UNCHANGED <<depth, buf_pos>>

BufferNext == (Consume \/ ConsumeFails \/ EndBuffer) /\ UNCHANGED streamVars

Read   == ReaderNext /\ UNCHANGED bufferVars
Buffer == BufferNext /\ UNCHANGED readerVars

Stopped == reader # "reading" /\ buffer # "reading"
Terminated == Stopped /\ UNCHANGED vars

Next == Read \/ Buffer \/ Terminated

Spec == Init /\ [][Next]_vars

-----------------------------------------------------------------------------
(***************************************************************************)
(* Properties                                                              *)
(***************************************************************************)
\* The buffer reader, which only counts, and the parser without
\* back-references, which keeps two stacks, accept the same streams and stop
\* at the same place.
SameExtent ==
    (Stopped /\ ~reads_backrefs) => /\ buffer = reader
                                    /\ reader = "done" => buf_pos = pos
=============================================================================
