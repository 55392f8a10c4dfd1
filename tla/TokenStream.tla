---------------------------- MODULE TokenStream ----------------------------
(***************************************************************************)
(* The byte stream between sexp_to_stream and the readers of               *)
(* src/clvm/serialize.py, as a sequence of tokens: a cons marker (0xff),   *)
(* an atom, or a back-reference (0xfe and an atom that is a path).  A      *)
(* stream that ends inside an atom or a back-reference has a cut token at  *)
(* its end.  How many bytes a token takes is kept, not the bytes.          *)
(***************************************************************************)
EXTENDS TreeHashes

CONSTANT AtomLimit    \* 0x400000000: an atom of so many bytes, or more, is refused

\* nil and single bytes are written without a size
ASSUME AtomLimitAssumption == AtomLimit \in Nat /\ AtomLimit > 1

ConsToken       == [token |-> "cons"]
CutToken        == [token |-> "cut"]
AtomToken(b)    == [atom |-> b]
BackrefToken(p) == [path |-> p]

IsAtomToken(t)    == DOMAIN t = {"atom"}
IsBackrefToken(t) == DOMAIN t = {"path"}

\* size >= 0x400000000, in either direction
TooLarge(b) == Len(b) >= AtomLimit

TooLargeToken(t) == \/ IsAtomToken(t) /\ TooLarge(t.atom)
                    \/ IsBackrefToken(t) /\ TooLarge(t.path)

\* the trees with an atom that is refused, by serialized_length too
Unwritable(T) == LET u[x \in T] == IF IsPair(x) THEN u[First(x)] \/ u[Rest(x)]
                                   ELSE TooLarge(x.atom)
                 IN  u

\* atom_to_byte_iterator: the lengths of the chunks it yields for an atom that
\* is not TooLarge
AtomChunks(b) ==
    LET size == Len(b)
    IN  CASE size = 0                              -> <<1>>
          [] size = 1 /\ b[1] <= 127               -> <<1>>
          [] size = 1 /\ b[1] > 127                -> <<1, size>>
          [] size >= 2 /\ size < 64                -> <<1, size>>
          [] size >= 64 /\ size < 8192             -> <<2, size>>
          [] size >= 8192 /\ size < 1048576        -> <<3, size>>
          [] size >= 1048576 /\ size < 134217728   -> <<4, size>>
          [] size >= 134217728                     -> <<5, size>>

Total(lengths) ==
    LET t[i \in 0..Len(lengths)] == IF i = 0 THEN 0 ELSE t[i-1] + lengths[i]
    IN  t[Len(lengths)]

\* the lengths of the chunks that make a token
TokenChunks(t) == IF IsAtomToken(t) THEN AtomChunks(t.atom)
                  ELSE IF IsBackrefToken(t) THEN <<1>> \o AtomChunks(t.path)
                  ELSE <<1>>

TokenLength(t) == Total(TokenChunks(t))

StreamLength(ts) == Total([i \in DOMAIN ts |-> TokenLength(ts[i])])

VARIABLES f,     \* the tokens written so far
          eof    \* nothing more will be written

streamVars == <<f, eof>>
=============================================================================
