----------------------------- MODULE SexpStream -----------------------------
(***************************************************************************)
(* sexp_to_stream at one end of a stream and sexp_from_stream at the       *)
(* other, at their own speeds: the reader waits for tokens that are not    *)
(* yet written, and sees the end only once the writer has stopped.  Each   *)
(* side allows back-references or not.                                     *)
(***************************************************************************)
EXTENDS SexpWriter, SexpReader

vars == <<streamVars, writerVars, readerVars>>

Init == WriterInit /\ ReaderInit

Write == WriterNext /\ UNCHANGED readerVars
Read  == ReaderNext /\ UNCHANGED writerVars

Stopped == writer # "writing" /\ reader # "reading"
Terminated == Stopped /\ UNCHANGED vars

Next == Write \/ Read \/ Terminated

\* Each side is a loop that goes on as long as it can.  For the writer this is
\* WF_vars(Write), written out: Write is enabled exactly while writer =
\* "writing", and TLC would take hours to find that out by itself.
Fairness == /\ []<>(writer # "writing") \/ []<><<Write>>_vars
            /\ WF_vars(Read)

Spec == Init /\ [][Next]_vars /\ Fairness

-----------------------------------------------------------------------------
(***************************************************************************)
(* Properties                                                              *)
(***************************************************************************)
HasBackrefs == \E i \in DOMAIN f : IsBackrefToken(f[i])

\* A reader that has caught up with the writer is exactly where the writer
\* takes it to be: its operations are read_op_stack, and its value stack is a
\* list of the objects whose tree hashes read_stack has.  Every path is found in
\* the hashes of read_stack and followed in the value stack, so a difference of
\* one step breaks back-references only.
Lockstep ==
    (allow_backrefs /\ pos = Len(f) /\ reader = "reading" /\ ~ConsNext /\ ~MayDo("cons"))
    => /\ op_stack = [i \in DOMAIN read_op_stack |->
                        IF read_op_stack[i] = "P" THEN "read" ELSE "cons"]
       /\ LET n == Len(rcl.read_stack)
          IN  /\ ListLenIs(val_stack, n) /\ Nullp(Tail_(val_stack, n))
              /\ \A i \in 1..n :
                    /\ Item(val_stack, i) \in Trees
                    /\ TreeHash(Trees)[Item(val_stack, i)] = rcl.read_stack[n + 1 - i].obj

\* The reader raises only if the writer did before it, or if it meets a
\* back-reference it does not allow.
FailsOnlyForCause ==
    reader = "raised" => writer = "raised" \/ (HasBackrefs /\ ~reads_backrefs)

\* What the search does not reckon with: a path of 64 bytes or more, of more
\* than 500 legs, has a size prefix of more than one byte.
Excess(t) == IF IsBackrefToken(t) /\ Len(t.path) >= 64 THEN SizePrefix(Len(t.path)) - 1 ELSE 0

StreamExcess == Total([i \in DOMAIN f |-> Excess(f[i])])

\* the tokens that were written as a whole
WholeTokens == IF f # <<>> /\ Last(f) = CutToken THEN Front(f) ELSE f

\* Back-references make the stream longer than the tree written as it is
\* (tests/serialize_test.py: len(b2) <= len(b)) by no more than that, and without
\* them the stream has the length that serialized_length computed in advance;
\* so sexp_to_stream raises with them only where it would without them, or for
\* the size of an atom or a path.
NeverLonger ==
    LET plain == SerializedLength(Trees)[tree]
        size  == StreamLength(f)
    IN  /\ writer = "written" => /\ size <= plain + StreamExcess
                                 /\ ~allow_backrefs => size = plain
        /\ writer = "raised" => \/ Refused
                                \/ StreamLength(WholeTokens) + max_size
                                      < plain + StreamExcess + Excess(NextToken)

\* A tree with an atom too large for the format is never written.  What is left
\* in the stream is nothing at all with back-references, as the length of the
\* whole tree is computed before the first byte; without them what comes before
\* that atom is left there.
RefusesTooLarge ==
    Unwritable(Trees)[tree] => /\ writer # "written"
                               /\ allow_backrefs => f = <<>>

\* tests/serialize_test.py, check_serde: "if we have any backrefs, ensure they
\* actually save space".
BackrefsSaveSpace ==
    (writer = "written" /\ HasBackrefs)
    => StreamLength(f) < SerializedLength(Trees)[tree]

\* Writing then reading delivers the tree that was written, or nothing.
Channel == INSTANCE TreeChannel
             WITH Messages <- Inputs, sent <- tree,
                  delivered <- IF reader = "done" THEN {result} ELSE {}
DeliversTheTree == Channel!Spec

\* With back-references the generator uses the lookup as LookupClient says:
\* it pushes only atoms and objects it found a path to.
TreeLengths == { SerializedLength(Trees)[x] : x \in Trees }

Client == INSTANCE LookupClient
            WITH AtomBytes <- { x.atom : x \in {y \in Trees : IsAtom(y)} },
                 Lengths <- TreeLengths, Depths <- Nat, HashCounts <- Nat
UsesTheLookup == Client!Spec

\* Both sides stop, and if the writer did not raise and the reader takes what
\* it writes, the tree arrives.
Arrives == <>(Stopped /\ ((writer = "written" /\ (reads_backrefs \/ ~allow_backrefs))
                          => reader = "done"))
=============================================================================
