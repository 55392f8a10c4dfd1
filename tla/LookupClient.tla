---------------------------- MODULE LookupClient ----------------------------
(***************************************************************************)
(* A ReadCacheLookup object used by any client that pushes atoms, pushes   *)
(* objects it found a path to, and conses, in any order: everything that   *)
(* sexp_to_byte_iterator_with_backrefs can do to it, for every tree, and   *)
(* more.  Each action is one call of a method of                           *)
(* src/clvm/read_cache_lookup.py.                                          *)
(***************************************************************************)
EXTENDS ReadCacheLookup

CONSTANTS AtomBytes,   \* contents of the atoms that are pushed
          Lengths,     \* the serialized lengths that objects have
          Depths,      \* bound: the depths that the read stack may have before a push
          HashCounts   \* bound: how many hashes may be counted before a push

ASSUME LengthsAssumption == Lengths \subseteq Nat

VARIABLE rcl

vars == rcl

Init == rcl = NewLookup

\* what the client can ask a path for
Askable == DOMAIN rcl.count \cup { l.child : l \in rcl.links } \cup {rcl.root_hash}

Push(h) == /\ Len(rcl.read_stack) \in Depths
           /\ Cardinality(DOMAIN rcl.count) \in HashCounts
           /\ rcl' = PushTo(rcl, h)

PushAtom == \E b \in AtomBytes : Push(HashAtom(b))

PushFound == \E h \in Askable : /\ Push(h)
                                 /\ \E n \in Lengths : FindPaths(rcl, h, n) # {}

Pop2AndCons == /\ Len(rcl.read_stack) >= 2
               /\ rcl' = Pop2AndConsOn(rcl)

Next == PushAtom \/ PushFound \/ Pop2AndCons

Spec == Init /\ [][Next]_vars

-----------------------------------------------------------------------------
(***************************************************************************)
(* Properties                                                              *)
(***************************************************************************)
\* Type invariant.  The counts are natural numbers: a Counter would go below
\* zero without complaint if pop took back what push had not counted.
TypeOK == ShapeOK(rcl)

\* root_hash and the roots saved in read_stack are, all the way down, the tree
\* hashes of the reader's value stack: each is the pair of the object pushed
\* last and the root below it, and the lowest is nil.  pop restores the root
\* from the saved entry and pop2_and_cons pushes on it, so one wrong save
\* would show only several conses later.
RootIsStack == Chained(rcl)

\* The reference counts never fall below the references there are: an object
\* is counted at least once for each place it has on the stack and for each
\* suffix of the stack that it is (one hash can be both).  find_paths climbs
\* only through parents whose count is positive, so a count that is too low
\* loses objects that the reader still holds.
CountsCover ==
    \A h \in DOMAIN rcl.count \cup { rcl.read_stack[i].obj : i \in StackIndices(rcl) } :
        Covered(rcl, h)

\* Every edge joins a pair to a child it has on that side, and the pair's
\* other child is known as well.
LinksSound == \A l \in rcl.links : JoinsChild(rcl, l)

\* A path find_paths returns leads the reader, from its value stack and by the
\* bits of the number as traverse_path takes them, to the object looked for:
\* otherwise a tree decodes to another tree, silently.
PathsSound ==
    \A h \in Askable, n \in Lengths :
        \A p \in FindPaths(rcl, h, n) : HashAt(rcl, Legs(PathNumber(p))) = h

\* an object of this length is worth a path through every hash there is
AllowsAnyPath(n) == (n - 2) * 8 - 1 >= Cardinality(DOMAIN rcl.count)

\* what was pushed so far: each time as the left child of the new root
Pushed == { l.child : l \in { k \in rcl.links : k.dir = LEFT } }

\* "If we've already serialized an object with tree hash T, and we encounter
\* another object with that tree hash, we don't re-serialize it, but rather
\* include a back-reference to it" (docstring): every object that was pushed,
\* read or consed, is found ever after, however it was consed since, and after
\* the stack suffixes that were its parents are gone.
NothingLost ==
    \A h \in Pushed, n \in Lengths : AllowsAnyPath(n) => FindPaths(rcl, h, n) # {}

\* ... and nothing that the value stack no longer holds is found or counted
\* ("we don't want to waste time looking for these objects", docstring).
NothingStale ==
    \A h \in DOMAIN rcl.count : h \notin Present(rcl) =>
        rcl.count[h] = 0 /\ \A n \in Lengths : FindPaths(rcl, h, n) = {}

\* What was written is found, and only what the reader has.
FindsWhatIsThere == NothingLost /\ NothingStale

\* The docstring of ReadCacheLookup: it "keeps track of the state of this stack
\* and all child objects under each root node in the stack so that we can quickly
\* determine if a relevant back-reference is available" - whatever is in the
\* value stack can be found.
FindsAllChildren ==
    \A h \in Present(rcl), n \in Lengths : AllowsAnyPath(n) => FindPaths(rcl, h, n) # {}
=============================================================================
