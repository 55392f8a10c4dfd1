----------------------------- MODULE AtomCodec -----------------------------
(***************************************************************************)
(* How an atom is written and read: a prefix that tells its size, then its *)
(* bytes.  atom_to_byte_iterator of src/clvm/serialize.py writes it,       *)
(* _atom_from_stream and _consume_atom read it, and serialized_length of   *)
(* src/clvm/object_cache.py foretells how long it gets.                    *)
(*                                                                         *)
(* Sizes go up to 2^34 and beyond: a number is eight digits of base 256,   *)
(* the highest first.  Of an atom only its size and first byte matter.  A  *)
(* stream is a length and the bytes it starts with, zeros coming after     *)
(* them.                                                                   *)
(***************************************************************************)
EXTENDS Integers, Sequences

CONSTANTS Atoms,      \* atoms that are written: records [size, first]
          Streams,    \* streams that nobody wrote: records [head, length]
          Beyond      \* how many other bytes may follow an atom

Byte   == 0..255
Number == [1..8 -> Byte]

Small(n) == [i \in 1..8 |-> IF i = 8 THEN n ELSE 0]     \* n \in Byte

\* m + n, where n \in Byte: the carry goes on through digits that are 255
Plus(m, n) ==
    LET carry(i) == m[8] + n > 255 /\ \A j \in (i + 1)..7 : m[j] = 255
    IN  [i \in 1..8 |-> IF i = 8 THEN (m[8] + n) % 256
                        ELSE IF carry(i) THEN (m[i] + 1) % 256
                        ELSE m[i]]

Less(m, n) == \E i \in 1..8 : m[i] < n[i] /\ \A j \in 1..(i - 1) : m[j] = n[j]

\* an atom of no bytes has no first byte
AtomType == { a \in [size : Number, first : Byte] : a.size = Small(0) => a.first = 0 }

ASSUME AtomsAssumption   == Atoms \subseteq AtomType
ASSUME StreamsAssumption == Streams \subseteq [head : Seq(Byte), length : Number]
ASSUME BeyondAssumption  == Beyond \subseteq 0..250

-----------------------------------------------------------------------------
(***************************************************************************)
(* Writing                                                                 *)
(***************************************************************************)
\* Mutant of Limit: 0x1f00 for 0x2000.
Limit_TwoLow == <<64, 31, 16, 8, 4>>

\* 0x40, 0x2000, 0x100000, 0x8000000 and 0x400000000: below the k-th of them
\* the digits before digit 9 - k are 0, and that one is below Limit[k]
Limit  == <<64, 32, 16, 8, 4>>
\* the bits or-ed into that digit, which has none of them
Prefix == <<128, 192, 224, 240, 248>>

Below(size, k) == size[9 - k] < Limit[k] /\ \A i \in 1..(8 - k) : size[i] = 0

\* the first of the limits that size is below, 6 if there is none
SizeBytes(size) == CHOOSE k \in 1..6 : /\ k = 6 \/ Below(size, k)
                                       /\ \A j \in 1..(k - 1) : ~Below(size, j)

\* Mutant of size_blob: five bytes get the prefix of four.
size_blob_PrefixOfFour(size) ==
    LET k == SizeBytes(size)
    IN  <<(IF k = 5 THEN Prefix[4] ELSE Prefix[k]) + size[9 - k]>> \o SubSeq(size, 10 - k, 8)

size_blob(size) == LET k == SizeBytes(size)
                   IN  <<Prefix[k] + size[9 - k]>> \o SubSeq(size, 10 - k, 8)

MAX_SINGLE_BYTE == 127

IsSingle(a) == a.size = Small(1) /\ a.first <= MAX_SINGLE_BYTE

\* what atom_to_byte_iterator yields before the bytes of the atom
Before(a) == CASE a.size = Small(0) -> <<128>>
               [] IsSingle(a)       -> <<>>
               [] OTHER             -> size_blob(a.size)

TooLong(a) == SizeBytes(a.size) = 6     \* ValueError

\* Mutant of LengthLimits: 0xf0000 for 0x100000.
LengthLimits_ThirdLow == << <<0, 0, 0, 0, 0, 0,  0, 64>>,
                            <<0, 0, 0, 0, 0, 0, 32,  0>>,
                            <<0, 0, 0, 0, 0, 15, 0,  0>>,
                            <<0, 0, 0, 0, 8, 0,  0,  0>>,
                            <<0, 0, 0, 4, 0, 0,  0,  0>> >>

\* serialized_length has a table of its own, of sizes that are compared as a whole
LengthLimits == << <<0, 0, 0, 0, 0, 0,  0, 64>>,
                   <<0, 0, 0, 0, 0, 0, 32,  0>>,
                   <<0, 0, 0, 0, 0, 16, 0,  0>>,
                   <<0, 0, 0, 0, 8, 0,  0,  0>>,
                   <<0, 0, 0, 4, 0, 0,  0,  0>> >>

\* what it adds to the size; 6 is for its ValueError
length_before(a) ==
    IF a.size = Small(0) THEN 1
    ELSE IF a.size = Small(1) /\ a.first < 128 THEN 0
    ELSE CHOOSE k \in 1..6 : /\ k = 6 \/ Less(a.size, LengthLimits[k])
                            /\ \A j \in 1..(k - 1) : ~Less(a.size, LengthLimits[j])

-----------------------------------------------------------------------------
VARIABLES atom, f,       \* the atom that is written, and the stream
          sent,          \* how much of the atom is in f: "no", "all", or "cut"
          b, ll,         \* the first byte, and what is left of it; the loop of
                         \* _atom_from_stream has b for both
          bit_count, bit_mask,
          size,          \* the size that was read
          at,            \* how many bytes were read before those of the atom
          phase          \* "write", "first", "bits", "size", "blob", "done",
                         \* "too long", "bad encoding" or "too large"

vars == <<atom, f, sent, b, ll, bit_count, bit_mask, size, at, phase>>

Nothing == [size |-> Small(0), first |-> 0]
Stream(head, length) == [head |-> head, length |-> length]

ReadersInit ==
    /\ b = 0 /\ ll = 0 /\ bit_count = 0 /\ bit_mask = 128 /\ size = Small(0) /\ at = 0

Init == /\ ReadersInit
        /\ \/ /\ atom \in Atoms /\ f = Stream(<<>>, Small(0))
              /\ sent = "no" /\ phase = "write"
           \/ /\ f \in Streams /\ atom = Nothing
              /\ sent = "no" /\ phase = "first"

readers == <<b, ll, bit_count, bit_mask, size, at>>

\* the atom is written, and the stream ends after other bytes that follow ...
Write ==
    /\ phase = "write" /\ ~TooLong(atom)
    /\ \E n \in Beyond :
         f' = Stream(Before(atom) \o (IF atom.size = Small(0) THEN <<>> ELSE <<atom.first>>),
                     Plus(atom.size, Len(Before(atom)) + n))
    /\ sent' = "all" /\ phase' = "first"
    /\ UNCHANGED <<atom, readers>>

WriteTooLong ==
    /\ phase = "write" /\ TooLong(atom)
    /\ phase' = "too long"
    /\ UNCHANGED <<atom, f, sent, readers>>

\* ... or is cut, within the prefix or before its last byte
Cut ==
    /\ phase = "first" /\ sent = "all" /\ f.length = Plus(atom.size, Len(Before(atom)))
    /\ \E length \in {Small(k) : k \in 1..(Len(Before(atom)) - 1)}
                     \cup (IF Before(atom) = <<>> \/ atom.size = Small(0) THEN {}
                           ELSE {Plus(atom.size, Len(Before(atom)) - 1)}) :
         f' = [f EXCEPT !.length = length]
    /\ sent' = "cut"
    /\ UNCHANGED <<atom, readers, phase>>

-----------------------------------------------------------------------------
(***************************************************************************)
(* Reading                                                                 *)
(***************************************************************************)
ByteAt(i) == IF i <= Len(f.head) THEN f.head[i] ELSE 0

HasBytes(n) == ~Less(f.length, n)     \* n bytes can be read from the start

\* the first byte has been read by the caller
ReadFirst ==
    /\ phase = "first"
    /\ b' = ByteAt(1) /\ ll' = ByteAt(1)
    /\ IF b' = 128
       THEN size' = Small(0) /\ at' = 1 /\ phase' = "done"
       ELSE IF b' <= MAX_SINGLE_BYTE
       THEN size' = Small(1) /\ at' = 0 /\ phase' = "done"
       ELSE UNCHANGED size /\ at' = 1 /\ phase' = "bits"
    /\ UNCHANGED <<atom, f, sent, bit_count, bit_mask>>

BitIsSet == bit_mask # 0 /\ (ll \div bit_mask) % 2 = 1

\* `while ll & bit_mask'
CountBit ==
    /\ phase = "bits" /\ BitIsSet
    /\ bit_count' = bit_count + 1
    /\ ll' = ll - bit_mask
    /\ bit_mask' = bit_mask \div 2
    /\ UNCHANGED <<atom, f, sent, b, size, at, phase>>

\* int.from_bytes(size_blob, "big")
from_bytes == [i \in 1..8 |-> IF i < 9 - bit_count THEN 0
                              ELSE IF i = 9 - bit_count THEN ll
                              ELSE ByteAt(i - (8 - bit_count))]

\* the other bytes of the size, if there are any
ReadSize ==
    /\ phase = "bits" /\ ~BitIsSet
    /\ IF HasBytes(Small(bit_count))
       THEN /\ size' = from_bytes
            /\ at' = bit_count /\ phase' = "size"
       ELSE UNCHANGED <<size, at>> /\ phase' = "bad encoding"
    /\ UNCHANGED <<atom, f, sent, b, ll, bit_count, bit_mask>>

Limit34 == [i \in 1..8 |-> IF i = 4 THEN 4 ELSE 0]     \* 0x400000000

CheckSize ==
    /\ phase = "size"
    /\ phase' = IF Less(size, Limit34) THEN "blob" ELSE "too large"
    /\ UNCHANGED <<atom, f, sent, readers>>

\* Mutant of ReadBlob: an atom that is cut is returned.
ReadBlob_CutToo ==
    /\ phase = "blob" /\ phase' = "done"
    /\ UNCHANGED <<atom, f, sent, readers>>

ReadBlob ==
    /\ phase = "blob"
    /\ phase' = IF HasBytes(Plus(size, at)) THEN "done" ELSE "bad encoding"
    /\ UNCHANGED <<atom, f, sent, readers>>

Finished == /\ phase \in {"done", "too long", "bad encoding", "too large"}
            /\ UNCHANGED vars

Next == \/ Write \/ WriteTooLong \/ Cut
        \/ ReadFirst \/ CountBit \/ ReadSize \/ CheckSize \/ ReadBlob \/ Finished

Spec == Init /\ [][Next]_vars

-----------------------------------------------------------------------------
\* _atom_from_stream returns the bytes of f from `at' on ...
ReadAtom == [size |-> size, first |-> IF size = Small(0) THEN 0 ELSE ByteAt(at + 1)]

\* Mutant of consumed_before: the first byte without its leading bits.
consumed_before_Stripped ==
    IF at = 0 THEN <<>> ELSE <<ll>> \o [i \in 1..(at - 1) |-> size[9 - at + i]]

\* ... and _consume_atom returns these too, with bytes before them
consumed_before ==
    IF at = 0 THEN <<>> ELSE <<b>> \o [i \in 1..(at - 1) |-> size[9 - at + i]]

-----------------------------------------------------------------------------
(***************************************************************************)
(* Properties                                                              *)
(***************************************************************************)
Ended == phase \in {"done", "bad encoding", "too large"}

\* Type invariant.
TypeOK ==
    /\ atom \in AtomType /\ f \in [head : Seq(Byte), length : Number]
    /\ sent \in {"no", "all", "cut"}
    /\ phase \in {"write", "first", "bits", "size", "blob",
                  "done", "too long", "bad encoding", "too large"}
    /\ b \in Byte /\ ll \in Byte /\ bit_count \in 0..8
    /\ bit_mask \in {0, 1, 2, 4, 8, 16, 32, 64, 128}
    /\ size \in Number /\ at \in 0..8

\* The masks of the loop, and the bits that were taken from the first byte.
Masks == <<128, 64, 32, 16, 8, 4, 2, 1, 0>>
Ones  == <<0, 128, 192, 224, 240, 248, 252, 254, 255>>

\* The loop of both readers takes the leading ones of the first byte off it and
\* counts them, one at a time: what is left is below the bit looked at before,
\* and with the ones it is that byte again.
LeadingOnes ==
    phase \in {"bits", "size", "blob"} =>
        /\ bit_mask = Masks[bit_count + 1]
        /\ b = Ones[bit_count + 1] + ll
        /\ ll < (IF bit_count = 0 THEN 256 ELSE Masks[bit_count])

\* An atom that was written is read again, whatever follows it: its size, where
\* it starts, and nothing of what comes after it.
ReadsWhatWasWritten ==
    phase = "done" /\ sent # "no" => ReadAtom = atom /\ at = Len(Before(atom))

\* An atom that is cut anywhere is refused, and no other that was written.
RefusesWhatIsCut ==
    Ended /\ sent # "no" => phase = (IF sent = "cut" THEN "bad encoding" ELSE "done")

\* The reader that only looks for the end returns the very bytes it passes over,
\* also those of a size that is written longer than need be.
ReturnsWhatItRead ==
    phase = "done" => consumed_before = [i \in 1..at |-> ByteAt(i)]

\* Nothing can be read that is shorter than what is written for it, or that
\* cannot be written at all.
WritesTheShortest ==
    phase = "done" => ~TooLong(ReadAtom) /\ Len(Before(ReadAtom)) <= at

\* serialized_length foretells what is written, and refuses the same sizes, those
\* that the readers refuse: its table and the writer's, kept in two files, agree.
ForetellsLength ==
    sent # "no" \/ phase = "too long" =>
        /\ (phase = "too long") <=> (length_before(atom) = 6)
        /\ (phase = "too long") <=> ~Less(atom.size, Limit34)
        /\ phase # "too long" => length_before(atom) = Len(Before(atom))

=============================================================================
