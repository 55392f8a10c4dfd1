--------------------------- MODULE MCSexpReaders ---------------------------
(***************************************************************************)
(* Constants for checking SexpReaders: every stream of up to five tokens,  *)
(* and those that a cut token ends, or one too large.  The paths are nil,  *)
(* the whole value stack, its top, what is below the top, and a place two  *)
(* legs deep.                                                              *)
(***************************************************************************)
EXTENDS SexpReaders

Tokens == { ConsToken, AtomToken(<<1>>) } \cup { BackrefToken(p) : p \in {<<>>, <<1>>, <<2>>, <<5>>} }

LastTokens == { CutToken, AtomToken(<<1, 2>>), BackrefToken(<<1, 2>>) }

MCStreams == LET whole == UNION { [1..n -> Tokens] : n \in 0..5 }
             IN  whole \cup { Append(s, t) : s \in UNION { [1..n -> Tokens] : n \in 0..4 }, t \in LastTokens }
=============================================================================
