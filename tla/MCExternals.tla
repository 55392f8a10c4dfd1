---------------------------- MODULE MCExternals ----------------------------
(***************************************************************************)
(* Stand-ins for the libraries that the operators call: bytes of the right *)
(* length that are different for different small inputs.  A point is 48    *)
(* bytes of which the last is its discrete logarithm.                      *)
(***************************************************************************)
EXTENDS Integers, Sequences, SequencesExt

StandInSha256(b) ==
    [i \in 1..32 |-> IF i <= Len(b) THEN b[i] ELSE IF i = 32 THEN Len(b) ELSE 0]

StandInPoint(n)     == [i \in 1..48 |-> IF i = 48 THEN n % 251 ELSE 192]
StandInIsPoint(b)   == Len(b) = 48 /\ b = StandInPoint(b[48])
StandInPointSum(ps) == StandInPoint(FoldLeft(LAMBDA s, p : s + p[48], 0, ps))
=============================================================================
