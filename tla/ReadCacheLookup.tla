-------------------------- MODULE ReadCacheLookup --------------------------
(***************************************************************************)
(* src/clvm/read_cache_lookup.py: the writer's picture of the value stack  *)
(* that the reader of its output will hold, indexed by tree hash, and the  *)
(* search of that picture for a path to an object already written.         *)
(*                                                                         *)
(* `rcl' is one ReadCacheLookup object:                                    *)
(*   root_hash   tree hash of the whole stack, as the list (top . rest)    *)
(*   read_stack  (object hash, root hash below it), oldest first           *)
(*   count       the Counter: a function that grows, 0 where undefined     *)
(*   links       parent_paths_for_child, as a set of edges                 *)
(*                                                                         *)
(* The operators on records are used by the serialiser as well             *)
(* (SexpWriter) and by the more general client of LookupClient.            *)
(***************************************************************************)
EXTENDS TreeHashes

LEFT  == 0
RIGHT == 1

(***************************************************************************)
(* State changes                                                           *)
(***************************************************************************)
NewLookup == [ root_hash  |-> HashAtom(<<>>),
               read_stack |-> <<>>,
               count      |-> [h \in {} |-> 0],
               links      |-> {} ]

Count(r, h) == IF h \in DOMAIN r.count THEN r.count[h] ELSE 0

\* Counter: self.count[h] += d
Bump(r, h, d) ==
    [r EXCEPT !.count = [x \in DOMAIN r.count \cup {h} |->
                            Count(r, x) + (IF x = h THEN d ELSE 0)]]

Link(c, p, d) == [child |-> c, parent |-> p, dir |-> d]

\* Mutants of PushTo: the root is saved after it was changed; a count is set and
\* not increased; the sides of the links are exchanged.
PushTo_SavesNewRoot(r, h) ==
    LET new_root == HashPair(h, r.root_hash)
        counted  == Bump(Bump(r, h, 1), new_root, 1)
    IN  [counted EXCEPT
            !.read_stack = Append(r.read_stack, [obj |-> h, root |-> new_root]),
            !.links      = r.links \cup { Link(h, new_root, LEFT),
                                          Link(r.root_hash, new_root, RIGHT) },
            !.root_hash  = new_root]

PushTo_CountsOnce(r, h) ==
    LET new_root == HashPair(h, r.root_hash)
        counted  == Bump(Bump(r, h, 1 - Count(r, h)), new_root, 1)
    IN  [counted EXCEPT
            !.read_stack = Append(r.read_stack, [obj |-> h, root |-> r.root_hash]),
            !.links      = r.links \cup { Link(h, new_root, LEFT),
                                          Link(r.root_hash, new_root, RIGHT) },
            !.root_hash  = new_root]

PushTo_LinksExchanged(r, h) ==
    LET new_root == HashPair(h, r.root_hash)
        counted  == Bump(Bump(r, h, 1), new_root, 1)
    IN  [counted EXCEPT
            !.read_stack = Append(r.read_stack, [obj |-> h, root |-> r.root_hash]),
            !.links      = r.links \cup { Link(h, new_root, RIGHT),
                                          Link(r.root_hash, new_root, LEFT) },
            !.root_hash  = new_root]

PushTo(r, h) ==
    LET new_root == HashPair(h, r.root_hash)
        counted  == Bump(Bump(r, h, 1), new_root, 1)
    IN  [counted EXCEPT
            !.read_stack = Append(r.read_stack, [obj |-> h, root |-> r.root_hash]),
            !.links      = r.links \cup { Link(h, new_root, LEFT),
                                          Link(r.root_hash, new_root, RIGHT) },
            !.root_hash  = new_root]

Top(r) == r.read_stack[Len(r.read_stack)]

PopFrom(r) ==
    LET counted == Bump(Bump(r, Top(r).obj, -1), r.root_hash, -1)
    IN  [counted EXCEPT
            !.read_stack = SubSeq(r.read_stack, 1, Len(r.read_stack) - 1),
            !.root_hash  = Top(r).root]

\* Mutants of Pop2AndConsOn: the pair does not count as a reference to its
\* children; the child popped first becomes the left one.
Pop2AndConsOn_ChildrenNotCounted(r) ==
    LET right   == Top(r).obj
        left    == Top(PopFrom(r)).obj
        popped  == PopFrom(PopFrom(r))
        cons    == HashPair(left, right)
        linked  == [popped EXCEPT !.links = @ \cup { Link(left, cons, LEFT),
                                                     Link(right, cons, RIGHT) }]
    IN  PushTo(linked, cons)

Pop2AndConsOn_Exchanged(r) ==
    LET left    == Top(r).obj
        right   == Top(PopFrom(r)).obj
        popped  == PopFrom(PopFrom(r))
        counted == Bump(Bump(popped, left, 1), right, 1)
        cons    == HashPair(left, right)
        linked  == [counted EXCEPT !.links = @ \cup { Link(left, cons, LEFT),
                                                      Link(right, cons, RIGHT) }]
    IN  PushTo(linked, cons)

Pop2AndConsOn(r) ==
    LET right   == Top(r).obj
        left    == Top(PopFrom(r)).obj
        popped  == PopFrom(PopFrom(r))
        counted == Bump(Bump(popped, left, 1), right, 1)
        cons    == HashPair(left, right)
        linked  == [counted EXCEPT !.links = @ \cup { Link(left, cons, LEFT),
                                                      Link(right, cons, RIGHT) }]
    IN  PushTo(linked, cons)

(***************************************************************************)
(* The search: breadth first from the object up through its parents, one   *)
(* level per leg.  A partial path lists its legs from the object upwards.  *)
(***************************************************************************)
NoPath == 0

\* Mutant of PathNumber: the legs are taken from the object upwards.
PathNumber_NotReversed(path) ==
    LET n[k \in 0..Len(path)] == IF k = 0 THEN 1 ELSE 2 * n[k-1] + path[Len(path) + 1 - k]
    IN  n[Len(path)]

\* reversed_path_to_bytes, as the number the bytes spell
PathNumber(path) ==
    LET n[k \in 0..Len(path)] == IF k = 0 THEN 1 ELSE 2 * n[k-1] + path[k]
    IN  n[Len(path)]

\* one turn of the while loop
NextLevel(r, max_path_length, s) ==
    LET arrived  == { p \in s.partial : p.node = r.root_hash }
        climbing == s.partial \ arrived
        ups      == { pl \in climbing \X r.links : pl[2].child = pl[1].node }
        grown    == { [node |-> u[2].parent, path |-> Append(u[1].path, u[2].dir)] :
                        u \in { v \in ups : /\ Count(r, v[2].parent) > 0
                                            /\ v[2].parent \notin s.seen } }
        overflow == \E p \in grown : Len(p.path) > max_path_length
        found    == s.valid \cup { p.path : p \in arrived }
    IN  [ partial |-> IF overflow \/ found # {} THEN {} ELSE grown,
          seen    |-> s.seen \cup { u[2].parent : u \in ups },
          valid   |-> IF overflow THEN {} ELSE found ]

\* Mutant of FindPaths: short objects are looked for as well.
FindPaths_NoMinimum(r, h, serialized_length) ==
    LET max_path_length == (serialized_length - 2) * 8 - 1
        start == [partial |-> {[node |-> h, path |-> <<>>]}, seen |-> {h}, valid |-> {}]
        level[k \in Nat] ==
          IF k = 0 THEN {start}
          ELSE { IF s.partial = {} THEN s ELSE NextLevel(r, max_path_length, s) :
                   s \in level[k-1] }
    IN  UNION { s.valid : s \in level[Cardinality(DOMAIN r.count) + 2] }

\* the levels needed are at most the hashes there are, and one to arrive;
\* a level is the set of the one state of the search there
FindPaths(r, h, serialized_length) ==
    IF serialized_length < 3 THEN {}
    ELSE LET max_path_length == (serialized_length - 2) * 8 - 1
             start == [partial |-> {[node |-> h, path |-> <<>>]}, seen |-> {h}, valid |-> {}]
             level[k \in Nat] ==
               IF k = 0 THEN {start}
               ELSE { IF s.partial = {} THEN s ELSE NextLevel(r, max_path_length, s) :
                        s \in level[k-1] }
         IN  UNION { s.valid : s \in level[Cardinality(DOMAIN r.count) + 2] }

FindPath(r, h, serialized_length) ==
    LET found == FindPaths(r, h, serialized_length)
    IN  IF found = {} THEN NoPath ELSE Min({ PathNumber(p) : p \in found })

-----------------------------------------------------------------------------
(***************************************************************************)
(* What a lookup says of the value stack it pictures                       *)
(***************************************************************************)
StackIndices(r) == 1..Len(r.read_stack)

\* the root hash of the stack after its oldest n objects were pushed
RootAfter(r, n) == IF n = Len(r.read_stack) THEN r.root_hash ELSE r.read_stack[n + 1].root

OnStack(r, h) == { i \in StackIndices(r) : r.read_stack[i].obj = h }
Spine(r, h)   == { i \in StackIndices(r) : RootAfter(r, i) = h }

ShapeOK(r) ==
    /\ r = [root_hash |-> r.root_hash, read_stack |-> r.read_stack,
            count |-> r.count, links |-> r.links]
    /\ r.read_stack \in Seq(Range(r.read_stack))
    /\ r.count \in [DOMAIN r.count -> Nat]
    /\ IsFiniteSet(DOMAIN r.count)
    /\ \A l \in r.links : l = Link(l.child, l.parent, l.dir) /\ l.dir \in {LEFT, RIGHT}

Chained(r) ==
    /\ RootAfter(r, 0) = HashAtom(<<>>)
    /\ \A i \in StackIndices(r) :
           RootAfter(r, i) = HashPair(r.read_stack[i].obj, RootAfter(r, i - 1))

Covered(r, h) == Count(r, h) >= Cardinality(OnStack(r, h)) + Cardinality(Spine(r, h))

JoinsChild(r, l) ==
    \E other \in { k.child : k \in r.links } :
        l.parent = IF l.dir = LEFT THEN HashPair(l.child, other)
                                   ELSE HashPair(other, l.child)

IsPairHash(h) == DOMAIN h = {"pair_hash"}

\* every hash in the reader's value stack: the root's descendants
Present(r) ==
    LET down[k \in Nat] ==
          IF k = 0 THEN {r.root_hash}
          ELSE LET above == down[k-1]
               IN  above \cup UNION { Range(h.pair_hash) : h \in {x \in above : IsPairHash(x)} }
    IN  down[Cardinality(DOMAIN r.count) + 1]

\* the hash at a path of the reader's value stack; a path into an atom has none
NoHash == [no_hash |-> {}]

HashAt(r, legs) ==
    LET at[k \in 0..Len(legs)] ==
          IF k = 0 THEN r.root_hash
          ELSE LET h == at[k-1] IN IF IsPairHash(h) THEN h.pair_hash[legs[k] + 1] ELSE NoHash
    IN  at[Len(legs)]
=============================================================================
