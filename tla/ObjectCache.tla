---------------------------- MODULE ObjectCache ----------------------------
(***************************************************************************)
(* ObjectCache of src/clvm/object_cache.py, computing treehash for the     *)
(* objects of a heap.  The cache knows an object by its id, which Python   *)
(* gives to a new object once nothing refers to the old one; get computes  *)
(* without recursion, with a stack of objects that wait for their          *)
(* children.                                                               *)
(*                                                                         *)
(* Objects follow the CLVM object protocol (src/clvm/CLVMObject.py): an    *)
(* atom, a pair that stores its children, or a pair that makes two new     *)
(* children whenever it is asked for them, as GeneratedTree of             *)
(* tests/to_sexp_test.py does.                                             *)
(***************************************************************************)
EXTENDS TreeHashes

CONSTANTS Ids,         \* ids of objects: places in memory
          AtomBytes,   \* contents of the atoms
          Generated,   \* trees that are made on demand
          MaxHeld,     \* bound on the objects the client refers to at a time
          NoId         \* not an id

ASSUME NoIdAssumption == NoId \notin Ids

\* memory is finite
ASSUME IdsAssumption == IsFiniteSet(Ids) /\ Ids # {}

VARIABLES heap,       \* id |-> object, for the objects that are alive
          held,       \* ids of the objects the client refers to
          lookup,     \* id |-> value; with it the node, which stays alive
          obj_list,   \* local of get: objects to be done, the last one first
          asked,      \* the object get was called for, or NoId
          calls       \* how often f was called for each object in this get

vars == <<heap, held, lookup, obj_list, asked, calls>>

Stored(l, r)  == [stored |-> <<l, r>>]
IsStored(o)   == DOMAIN heap[o] = {"stored"}
Left(o)       == heap[o].stored[1]
Right(o)      == heap[o].stored[2]

\* an object that is made on demand, and becomes this tree
Made(x)       == [made |-> x]
IsMade(o)     == DOMAIN heap[o] = {"made"}
IsMadePair(o) == IsMade(o) /\ IsPair(heap[o].made)
BytesAt(o)    == IF IsMade(o) THEN heap[o].made.atom ELSE heap[o].atom

\* contains
contains(o) == o \in DOMAIN lookup

\* Mutant of NodesKept: lookup has values only.
NodesKept_None == {}

\* the nodes in the values of lookup
NodesKept == DOMAIN lookup

\* what can be reached from the roots, all of them alive; the rest is freed
Closed(S) == \A o \in S : IsStored(o) => Left(o) \in S /\ Right(o) \in S

Reachable(roots) ==
    { o \in DOMAIN heap : \A S \in SUBSET DOMAIN heap :
                            roots \subseteq S /\ Closed(S) => o \in S }

Free == Ids \ DOMAIN heap

\* a dictionary with one more entry
With(d, o, v) == [x \in DOMAIN d \cup {o} |-> IF x = o THEN v ELSE d[x]]

Nothing == [o \in {} |-> Null]
NoCalls == [o \in Ids |-> 0]

Init ==
    /\ heap = Nothing /\ held = {}
    /\ lookup = Nothing
    /\ obj_list = <<>> /\ asked = NoId
    /\ calls = NoCalls

-----------------------------------------------------------------------------
(***************************************************************************)
(* The client makes and forgets objects and caches between calls of get    *)
(***************************************************************************)
Idle == asked = NoId

NewObject(content) ==
    /\ Idle /\ Cardinality(held) < MaxHeld
    /\ \E o \in Free : heap' = With(heap, o, content) /\ held' = held \cup {o}
    /\ UNCHANGED <<lookup, obj_list, asked, calls>>

NewAtom == \E b \in AtomBytes : NewObject(Atom(b))
NewPair == \E l, r \in held : NewObject(Stored(l, r))
NewMade == \E x \in Generated : NewObject(Made(x))

Collect(roots) == heap' = [o \in Reachable(roots) |-> heap[o]]

Forget ==
    /\ Idle
    /\ \E o \in held : held' = held \ {o} /\ Collect((held \ {o}) \cup NodesKept)
    /\ UNCHANGED <<lookup, obj_list, asked, calls>>

\* ObjectCache(treehash), as sexp_to_stream makes one for each tree
NewCache ==
    /\ Idle /\ lookup # Nothing
    /\ lookup' = Nothing /\ Collect(held)
    /\ UNCHANGED <<held, obj_list, asked, calls>>

-----------------------------------------------------------------------------
(***************************************************************************)
(* get.  Called for an object that is in lookup it answers at once.        *)
(***************************************************************************)
Get ==
    /\ Idle
    /\ \E o \in held : ~contains(o) /\ asked' = o /\ obj_list' = <<o>>
    /\ UNCHANGED <<heap, held, lookup, calls>>

Node == Last(obj_list)

Pop == obj_list # <<>> /\ obj_list' = Front(obj_list)

\* Mutant of SkipNode: the node is not popped.
SkipNode_NotPopped == obj_list # <<>> /\ contains(Node) /\ UNCHANGED vars

\* node_id in self.lookup: it was done while it waited
SkipNode ==
    /\ Pop /\ contains(Node)
    /\ UNCHANGED <<heap, held, lookup, asked, calls>>

\* self.f(self, node) is called
CallF == obj_list # <<>> /\ ~contains(Node) /\ calls' = [calls EXCEPT ![Node] = @ + 1]

Store(v) == lookup' = With(lookup, Node, v) /\ UNCHANGED <<heap, held, asked>>

AtomDone ==
    /\ CallF /\ Pop /\ ~IsStored(Node) /\ ~IsMadePair(Node)
    /\ Store(HashAtom(BytesAt(Node)))

PairDone ==
    /\ CallF /\ Pop /\ IsStored(Node)
    /\ contains(Left(Node)) /\ contains(Right(Node))
    /\ Store(HashPair(lookup[Left(Node)], lookup[Right(Node)]))

\* Mutants of PairWaits: the node is not put back; it is put back twice.
PairWaits_DropsNode ==
    /\ CallF /\ IsStored(Node)
    /\ ~(contains(Left(Node)) /\ contains(Right(Node)))
    /\ obj_list' = Front(obj_list) \o <<Left(Node), Right(Node)>>
    /\ UNCHANGED <<heap, held, lookup, asked>>

PairWaits_NodeTwice ==
    /\ CallF /\ IsStored(Node)
    /\ ~(contains(Left(Node)) /\ contains(Right(Node)))
    /\ obj_list' = obj_list \o <<Node, Left(Node), Right(Node)>>
    /\ UNCHANGED <<heap, held, lookup, asked>>

\* f returned None: the node is put back, under its children
PairWaits ==
    /\ CallF /\ IsStored(Node)
    /\ ~(contains(Left(Node)) /\ contains(Right(Node)))
    /\ obj_list' = obj_list \o <<Left(Node), Right(Node)>>
    /\ UNCHANGED <<heap, held, lookup, asked>>

\* f asks for the pair and gets two new objects, at free ids; get asks again at
\* each of its lines 47, 50 and 51, and gets two more.  Of all these only the left
\* one of line 50 and the right one of line 51 are kept, on obj_list; nobody has
\* the others, and they are freed at once.
MadePairWaits ==
    /\ CallF /\ IsMadePair(Node)
    /\ \E l, r \in Free :
         /\ l # r /\ ~(contains(l) /\ contains(r))
         /\ obj_list' = obj_list \o <<l, r>>
         /\ heap' = With(With(heap, l, Made(First(heap[Node].made))),
                         r, Made(Rest(heap[Node].made)))
    /\ UNCHANGED <<held, lookup, asked>>

Answer ==
    /\ ~Idle /\ obj_list = <<>>
    /\ asked' = NoId /\ calls' = NoCalls
    /\ UNCHANGED <<heap, held, lookup, obj_list>>

Work == SkipNode \/ AtomDone \/ PairDone \/ PairWaits \/ MadePairWaits \/ Answer

Next == NewAtom \/ NewPair \/ NewMade \/ Forget \/ NewCache \/ Get \/ Work

\* get is a loop: it goes on until it has an answer
Spec == Init /\ [][Next]_vars /\ WF_vars(Work)

-----------------------------------------------------------------------------
(***************************************************************************)
(* Properties                                                              *)
(***************************************************************************)
\* Every value that lookup has for an object is the tree hash of that
\* object: the hash of its bytes, or of the hashes of its children, which are in
\* lookup as well.  The id of an object that nobody refers to goes to the next
\* one, so a cache that did not keep its nodes alive would answer for another
\* object.
CachedIsCurrent ==
    \A o \in DOMAIN lookup \cap DOMAIN heap :
        IF IsStored(o)
        THEN /\ contains(Left(o)) /\ contains(Right(o))
             /\ lookup[o] = HashPair(lookup[Left(o)], lookup[Right(o)])
        ELSE ~IsMadePair(o) => lookup[o] = HashAtom(BytesAt(o))

\* When get comes to its last line the object it was called for is in lookup.
AnswerIsThere == (~Idle /\ obj_list = <<>>) => contains(asked)

\* The work of get: f is called for an atom once, and for a pair that stores
\* its children at most twice, the second time when it has what it asked for,
\* however often the object is shared in the tree.  The bombs of
\* tests/serialize_test.py, 2^30 nodes of 31 objects, can be hashed only
\* because of this.
CalledTwiceAtMost ==
    \A o \in DOMAIN heap : ~IsMadePair(o) => calls[o] <= IF IsStored(o) THEN 2 ELSE 1

\* "return None and f will be called with each child in turn" (docstring,
\* lines 30-31), of any object of the protocol: the next time f is called for
\* a pair it has been called for the children.
CalledAgainOnce == \A o \in DOMAIN heap : calls[o] <= 2

\* "It also allows a function that's defined recursively on a clvm tree to
\* have a non-recursive implementation": obj_list stays as short as the
\* recursion would be deep, two objects for each level.
ListIsShort == Len(obj_list) <= 2 * Cardinality(Ids) - 1

\* However often objects are shared, get takes little time and memory.
WorkIsBounded == CalledTwiceAtMost /\ ListIsShort

\* get comes to an answer, if no pair is made on demand.
GetAnswers == (~Idle /\ \A o \in DOMAIN heap : ~IsMadePair(o)) ~> Idle
=============================================================================
