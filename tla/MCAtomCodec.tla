---------------------------- MODULE MCAtomCodec ----------------------------
(***************************************************************************)
(* Constants for checking AtomCodec: atoms around every limit, and streams *)
(* with every first byte, of which most were never written.                *)
(***************************************************************************)
EXTENDS AtomCodec

\* the number of these last digits
Digits(s) == [i \in 1..8 |-> IF i <= 8 - Len(s) THEN 0 ELSE s[i - (8 - Len(s))]]

MCSizes == { Digits(s) : s \in
    { <<>>, <<1>>, <<2>>, <<63>>, <<64>>, <<65>>, <<255>>, <<1, 0>>, <<1, 255>>,
      <<31, 255>>, <<32, 0>>, <<32, 1>>, <<15, 255, 255>>, <<16, 0, 0>>, <<16, 0, 1>>,
      <<7, 255, 255, 255>>, <<8, 0, 0, 0>>, <<8, 0, 0, 1>>, <<3, 255, 255, 255, 255>>,
      <<4, 0, 0, 0, 0>>, <<4, 0, 0, 0, 1>>, <<1, 0, 0, 0, 0, 0>>, <<2, 0, 1, 0, 0>> } }

MCAtoms == { [size |-> n, first |-> c] : n \in MCSizes, c \in {0, 127, 128, 255} }
           \ { [size |-> Digits(<<>>), first |-> c] : c \in {127, 128, 255} }

\* what comes after the first byte of a stream
Followings == { [i \in 1..7 |-> 0], [i \in 1..7 |-> 255], <<0, 0, 0, 3, 0, 1, 2>>,
                <<0, 0, 0, 0, 0, 0, 2>>, <<0, 0, 3, 255, 255, 255, 255>>, <<5, 0, 0, 0, 0, 0, 0>> }

Lengths == { Digits(s) : s \in { <<n>> : n \in 1..11 } \cup { <<1, 0>>, <<16, 0, 0>>, <<4, 0, 0, 0, 9>> } }

MCStreams == { Stream(<<c>> \o s, n) : c \in Byte, s \in Followings, n \in Lengths }
=============================================================================
