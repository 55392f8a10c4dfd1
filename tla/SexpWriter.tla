----------------------------- MODULE SexpWriter -----------------------------
(***************************************************************************)
(* sexp_to_stream of src/clvm/serialize.py with its two generators:        *)
(* sexp_to_byte_iterator, which writes a tree as it is, and                *)
(* sexp_to_byte_iterator_with_backrefs, which writes a back-reference for  *)
(* an object that the reader will hold at that moment.  The second keeps   *)
(* in read_op_stack what the reader is about to do ("P": read one object,  *)
(* "C": cons the two last ones) and in rcl what the reader holds.          *)
(***************************************************************************)
EXTENDS ReadCacheLookup, TokenStream

CONSTANTS Trees,      \* a set of trees that holds the children of its pairs
          Inputs,     \* those that are written
          MaxSizes    \* the values of max_size

\* Trees are finite: a pair has a serialised length, more than its children have.
ASSUME TreesAssumption ==
    /\ Inputs \subseteq Trees
    /\ \A x \in Trees :
          /\ SerializedLength(Trees)[x] \in Nat
          /\ \/ IsAtom(x) /\ x = Atom(x.atom) /\ x.atom \in Seq(0..255)
             \/ /\ IsPair(x) /\ x = Pair(First(x), Rest(x))
                /\ \A y \in {First(x), Rest(x)} :
                      y \in Trees /\ SerializedLength(Trees)[y] < SerializedLength(Trees)[x]

ASSUME SizesAssumption == MaxSizes \subseteq Int

VARIABLES tree,             \* the tree to write
          allow_backrefs,
          write_stack,      \* todo_stack, in the generator without back-references
          read_op_stack,
          rcl,
          max_size,         \* what is left of it
          writer            \* "writing", "written", or "raised"

writerVars == <<tree, allow_backrefs, write_stack, read_op_stack, rcl, max_size, writer>>

WriterInit ==
    /\ tree \in Inputs
    /\ allow_backrefs \in BOOLEAN
    /\ write_stack = <<tree>>
    /\ read_op_stack = <<"P">>
    /\ rcl = NewLookup
    /\ max_size \in MaxSizes
    /\ writer = "writing"
    /\ f = <<>> /\ eof = FALSE

-----------------------------------------------------------------------------
Node  == Last(write_stack)
Hash  == TreeHash(Trees)[Node]
PathOf == FindPath(rcl, Hash, SerializedLength(Trees)[Node])

ConsNext == allow_backrefs /\ read_op_stack # <<>> /\ Last(read_op_stack) = "C"

\* the loop takes a node; `assert op == "P"'
NodeTaken == /\ writer = "writing"
             /\ write_stack # <<>>
             /\ allow_backrefs => read_op_stack # <<>> /\ Last(read_op_stack) = "P"

\* Mutant of NodeRefused: serialized_length without its last limit.
NodeRefused_Never == FALSE

\* slc.get raises: somewhere in the node there is an atom that is too long
NodeRefused == allow_backrefs /\ Unwritable(Trees)[Node]

NextToken == IF allow_backrefs /\ PathOf # NoPath THEN BackrefToken(BytesOf(PathOf))
             ELSE IF IsPair(Node) THEN ConsToken
             ELSE AtomToken(Node.atom)

\* ... or atom_to_byte_iterator does
Refused == NodeRefused \/ TooLargeToken(NextToken)

MayWrite == NodeTaken /\ ~Refused

\* sexp_to_stream takes the token's bytes from the generator
Yield(t) == /\ TokenLength(t) <= max_size
            /\ max_size' = max_size - TokenLength(t)
            /\ f' = Append(f, t)
            /\ UNCHANGED <<tree, allow_backrefs, writer, eof>>

WriteBackref ==
    /\ MayWrite /\ IsBackrefToken(NextToken)
    /\ Yield(NextToken)
    /\ write_stack' = Front(write_stack)
    /\ read_op_stack' = Front(read_op_stack)
    /\ rcl' = PushTo(rcl, Hash)

\* Mutants of WriteCons: the children are put on the stack in the other order;
\* the pair is pushed before its children are.
WriteCons_RightFirst ==
    /\ MayWrite /\ NextToken = ConsToken
    /\ Yield(ConsToken)
    /\ write_stack' = Front(write_stack) \o <<First(Node), Rest(Node)>>
    /\ read_op_stack' = IF allow_backrefs THEN Front(read_op_stack) \o <<"C", "P", "P">>
                        ELSE read_op_stack
    /\ UNCHANGED rcl

WriteCons_PushesEarly ==
    /\ MayWrite /\ NextToken = ConsToken
    /\ Yield(ConsToken)
    /\ write_stack' = Front(write_stack) \o <<Rest(Node), First(Node)>>
    /\ read_op_stack' = IF allow_backrefs THEN Front(read_op_stack) \o <<"C", "P", "P">>
                        ELSE read_op_stack
    /\ rcl' = PushTo(rcl, Hash)

WriteCons ==
    /\ MayWrite /\ NextToken = ConsToken
    /\ Yield(ConsToken)
    /\ write_stack' = Front(write_stack) \o <<Rest(Node), First(Node)>>
    /\ read_op_stack' = IF allow_backrefs THEN Front(read_op_stack) \o <<"C", "P", "P">>
                        ELSE read_op_stack
    /\ UNCHANGED rcl

WriteAtom ==
    /\ MayWrite /\ IsAtomToken(NextToken)
    /\ Yield(NextToken)
    /\ write_stack' = Front(write_stack)
    /\ IF allow_backrefs
       THEN read_op_stack' = Front(read_op_stack) /\ rcl' = PushTo(rcl, Hash)
       ELSE UNCHANGED <<read_op_stack, rcl>>

\* while read_op_stack[-1:] == ["C"]
ConsReadStack ==
    /\ writer = "writing" /\ ConsNext
    /\ read_op_stack' = Front(read_op_stack)
    /\ rcl' = Pop2AndConsOn(rcl)
    /\ UNCHANGED <<tree, allow_backrefs, write_stack, max_size, writer, f, eof>>

\* "SExp exceeds maximum size": what was written stays in the stream, the
\* first chunk of a token too if only a later one is too much
ExceedSize ==
    /\ MayWrite /\ TokenLength(NextToken) > max_size
    /\ writer' = "raised" /\ eof' = TRUE
    /\ f' = IF Head(TokenChunks(NextToken)) <= max_size THEN Append(f, CutToken) ELSE f
    /\ UNCHANGED <<tree, allow_backrefs, write_stack, read_op_stack, rcl, max_size>>

\* "atom of size %d too long", "sexp too long": of a back-reference 0xfe is
\* written before its path is refused
RefuseAtom ==
    /\ NodeTaken /\ Refused
    /\ writer' = "raised" /\ eof' = TRUE
    /\ f' = IF ~NodeRefused /\ IsBackrefToken(NextToken) /\ max_size >= 1
            THEN Append(f, CutToken) ELSE f
    /\ UNCHANGED <<tree, allow_backrefs, write_stack, read_op_stack, rcl, max_size>>

EndWriting ==
    /\ writer = "writing" /\ write_stack = <<>> /\ ~ConsNext
    /\ writer' = "written" /\ eof' = TRUE
    /\ UNCHANGED <<tree, allow_backrefs, write_stack, read_op_stack, rcl, max_size, f>>

WriterNext == \/ WriteBackref \/ WriteCons \/ WriteAtom
              \/ ConsReadStack \/ ExceedSize \/ RefuseAtom \/ EndWriting
=============================================================================
