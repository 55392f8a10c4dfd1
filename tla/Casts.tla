------------------------------- MODULE Casts -------------------------------
(***************************************************************************)
(* src/clvm/casts.py: integers as atoms, in two's complement.  Numbers are *)
(* as large as TLC's.                                                      *)
(***************************************************************************)
EXTENDS SExps

\* int.from_bytes(blob, "big", signed=True): the first byte has the sign
int_from_bytes(blob) ==
    IF blob = <<>> THEN 0
    ELSE FoldLeft(LAMBDA v, b : 256 * v + b, ((blob[1] + 128) % 256) - 128, Tail(blob))

bit_length(v) == BitLength(IF v < 0 THEN -v ELSE v)

\* v.to_bytes(byte_count, "big", signed=True)
to_bytes(v, byte_count) == [i \in 1..byte_count |-> (v \div 256^(byte_count - i)) % 256]

\* the first byte only repeats the sign
Redundant(r) == Len(r) > 1 /\ r[1] = (IF r[2] >= 128 THEN 255 ELSE 0)

\* Mutant of int_to_bytes: what to_bytes returns is taken to be minimal.
int_to_bytes_NotMinimal(v) ==
    IF v = 0 THEN <<>> ELSE to_bytes(v, (bit_length(v) + 8) \div 8)

\* while the first byte is redundant, it goes
Shortest[r \in Seq(0..255)] == IF Redundant(r) THEN Shortest[Tail(r)] ELSE r

int_to_bytes(v) ==
    IF v = 0 THEN <<>> ELSE Shortest[to_bytes(v, (bit_length(v) + 8) \div 8)]

limbs_for_int(v) == (bit_length(v) + 7) \div 8

IntAtom(v) == Atom(int_to_bytes(v))
=============================================================================
