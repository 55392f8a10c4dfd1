-------------------------- MODULE MCLookupClient --------------------------
(***************************************************************************)
(* Constants for checking LookupClient.  nil is one of the atoms: its   *)
(* hash is also the hash of the empty value stack.                         *)
(***************************************************************************)
EXTENDS LookupClient

MCAtomBytes == { <<>>, <<1>> }

\* a length that no path is too long for
MCLengths == {100}

\* no push on more than two objects, or when ten hashes are counted; to lose an
\* object that is there takes a push on three objects
UpToTwo   == 0..2
UpToThree == 0..3
UpToFour  == 0..4
UpToNine  == 0..9
=============================================================================
