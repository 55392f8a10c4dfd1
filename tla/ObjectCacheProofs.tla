------------------------- MODULE ObjectCacheProofs -------------------------
(***************************************************************************)
(* Proofs about ObjectCache, for every set of ids, of atoms and of trees   *)
(* made on demand, and every bound on what the client holds.               *)
(***************************************************************************)
EXTENDS ObjectCache, DataFacts

\* The inductive invariant: what has a reference to it is alive, the values in
\* lookup are those of the objects, and get still has its object to do or done.
IInv ==
    /\ DOMAIN heap \subseteq Ids
    /\ held \subseteq DOMAIN heap
    /\ DOMAIN lookup \subseteq DOMAIN heap
    /\ Closed(DOMAIN heap)
    /\ CachedIsCurrent
    /\ obj_list \in Seq(DOMAIN heap)
    /\ Idle => obj_list = <<>>
    /\ ~Idle => contains(asked) \/ \E i \in 1..Len(obj_list) : obj_list[i] = asked

-----------------------------------------------------------------------------
LEMMA InitIInv == Init => IInv
  <1> SUFFICES ASSUME Init PROVE IInv
    OBVIOUS
  <1>1. DOMAIN heap = {} /\ held = {} /\ DOMAIN lookup = {} /\ obj_list = <<>> /\ asked = NoId
    BY DEF Init, Nothing
  <1>2. Closed(DOMAIN heap)
    BY <1>1 DEF Closed
  <1> QED  BY <1>1, <1>2 DEF IInv, CachedIsCurrent, Idle

\* What is freed is not a root and no child of what stays.
LEMMA ReachableFacts ==
    ASSUME NEW roots, roots \subseteq DOMAIN heap, Closed(DOMAIN heap)
    PROVE  /\ roots \subseteq Reachable(roots)
           /\ Reachable(roots) \subseteq DOMAIN heap
           /\ Closed(Reachable(roots))
  <1>1. roots \subseteq Reachable(roots) /\ Reachable(roots) \subseteq DOMAIN heap
    BY DEF Reachable
  <1>2. ASSUME NEW o \in Reachable(roots), IsStored(o)
        PROVE  Left(o) \in Reachable(roots) /\ Right(o) \in Reachable(roots)
    <2>1. o \in DOMAIN heap /\ Left(o) \in DOMAIN heap /\ Right(o) \in DOMAIN heap
      BY <1>1, <1>2 DEF Closed
    <2>2. ASSUME NEW S \in SUBSET DOMAIN heap, roots \subseteq S, Closed(S)
          PROVE  Left(o) \in S /\ Right(o) \in S
      <3>1. o \in S
        BY <2>2 DEF Reachable
      <3> QED  BY <1>2, <2>2, <3>1 DEF Closed
    <2> QED  BY <2>1, <2>2 DEF Reachable
  <1> QED  BY <1>1, <1>2 DEF Closed

\* Freeing what is not reachable keeps the values of the objects that stay, if
\* the nodes of the cache that is kept are among the roots.
LEMMA CollectKeepsIInv ==
    ASSUME IInv, NEW roots, roots \subseteq DOMAIN heap, Collect(roots), Idle,
           held' \subseteq roots, held' \subseteq DOMAIN heap, DOMAIN lookup' \subseteq roots,
           lookup' = lookup \/ DOMAIN lookup' = {},
           UNCHANGED <<obj_list, asked>>
    PROVE  IInv'
  <1> DEFINE R == Reachable(roots)
  <1>1. roots \subseteq R /\ R \subseteq DOMAIN heap /\ Closed(R)
    BY ReachableFacts DEF IInv
  <1>2. heap' = [o \in R |-> heap[o]]
    BY DEF Collect
  <1> HIDE DEF R
  <1>3. DOMAIN heap' = R /\ \A o \in R : heap'[o] = heap[o]
    BY <1>2
  <1>4. \A o \in R : /\ IsStored(o)' <=> IsStored(o)
                     /\ IsMadePair(o)' <=> IsMadePair(o)
                     /\ Left(o)' = Left(o) /\ Right(o)' = Right(o)
                     /\ BytesAt(o)' = BytesAt(o)
    BY <1>3 DEF IsStored, IsMadePair, IsMade, Left, Right, BytesAt
  <1>5. Closed(DOMAIN heap)'
    BY <1>1, <1>3, <1>4 DEF Closed
  <1>6. CachedIsCurrent'
    <2>1. CASE DOMAIN lookup' = {}
      BY <2>1 DEF CachedIsCurrent
    <2>2. CASE lookup' = lookup
      <3>1. DOMAIN lookup \subseteq R /\ DOMAIN lookup \subseteq DOMAIN heap
        BY <1>1, <2>2
      <3> QED  BY <1>3, <1>4, <2>2, <3>1 DEF CachedIsCurrent, IInv, contains
    <2> QED  BY <2>1, <2>2
  <1>7. obj_list' = <<>> /\ asked' = NoId
    BY DEF IInv, Idle
  <1> QED  BY <1>1, <1>3, <1>5, <1>6, <1>7 DEF IInv, Idle

\* Objects at free ids leave the ones that are alive as they are.
LEMMA AllocKeepsCurrent ==
    ASSUME IInv, DOMAIN heap \subseteq DOMAIN heap',
           \A o \in DOMAIN heap : heap'[o] = heap[o],
           lookup' = lookup
    PROVE  /\ CachedIsCurrent'
           /\ \A o \in DOMAIN heap : /\ IsStored(o)' <=> IsStored(o)
                                     /\ Left(o)' = Left(o) /\ Right(o)' = Right(o)
  <1>1. \A o \in DOMAIN heap : /\ IsStored(o)' <=> IsStored(o)
                               /\ IsMadePair(o)' <=> IsMadePair(o)
                               /\ Left(o)' = Left(o) /\ Right(o)' = Right(o)
                               /\ BytesAt(o)' = BytesAt(o)
    BY DEF IsStored, IsMadePair, IsMade, Left, Right, BytesAt
  <1>2. CachedIsCurrent'
    BY <1>1 DEF CachedIsCurrent, IInv, contains
  <1> QED  BY <1>1, <1>2

LEMMA NewObjectKeepsIInv ==
    ASSUME IInv, NEW content, NewObject(content),
           DOMAIN content = {"stored"} =>
               content.stored[1] \in DOMAIN heap /\ content.stored[2] \in DOMAIN heap
    PROVE  IInv'
  <1>1. PICK o \in Free : heap' = With(heap, o, content) /\ held' = held \cup {o}
    BY DEF NewObject
  <1>2. o \in Ids /\ o \notin DOMAIN heap
    BY DEF Free
  <1>3. /\ DOMAIN heap' = {o} \cup DOMAIN heap
        /\ heap'[o] = content
        /\ \A x \in DOMAIN heap : heap'[x] = heap[x]
    BY <1>1, <1>2 DEF With
  <1>4. UNCHANGED <<lookup, obj_list, asked>> /\ Idle
    BY DEF NewObject
  <1>5. /\ CachedIsCurrent'
        /\ \A x \in DOMAIN heap : /\ IsStored(x)' <=> IsStored(x)
                                  /\ Left(x)' = Left(x) /\ Right(x)' = Right(x)
    BY <1>3, <1>4, AllocKeepsCurrent
  <1>6. Closed(DOMAIN heap)'
    <2>1. ASSUME NEW x \in DOMAIN heap, IsStored(x)'
          PROVE  Left(x)' \in DOMAIN heap' /\ Right(x)' \in DOMAIN heap'
      BY <1>3, <1>5, <2>1 DEF Closed, IInv
    <2>2. IsStored(o)' => Left(o)' \in DOMAIN heap' /\ Right(o)' \in DOMAIN heap'
      BY <1>3 DEF IsStored, Left, Right
    <2> QED  BY <1>3, <2>1, <2>2 DEF Closed
  <1>7. obj_list' = <<>> /\ asked' = NoId
    BY <1>4 DEF IInv, Idle
  <1> QED  BY <1>1, <1>2, <1>3, <1>4, <1>5, <1>6, <1>7 DEF IInv, Idle

\* The object on top of obj_list.
LEMMA NodeFacts ==
    ASSUME IInv, obj_list # <<>>
    PROVE  /\ Len(obj_list) \in Nat \ {0}
           /\ Node = obj_list[Len(obj_list)] /\ Node \in DOMAIN heap
           /\ Front(obj_list) \in Seq(DOMAIN heap)
           /\ Len(Front(obj_list)) = Len(obj_list) - 1
           /\ \A i \in 1..(Len(obj_list) - 1) : Front(obj_list)[i] = obj_list[i]
  <1>1. obj_list \in Seq(DOMAIN heap)
    BY DEF IInv
  <1>2. Len(obj_list) \in Nat \ {0} /\ obj_list[Len(obj_list)] \in DOMAIN heap
    BY <1>1
  <1>3. obj_list \in Seq(Range(obj_list))
    BY <1>1, SeqOfItsRange
  <1> DEFINE f == SubSeq(obj_list, 1, Len(obj_list) - 1)
  <1>4. /\ f \in Seq(Range(f)) /\ Len(f) = Len(obj_list) - 1
        /\ \A i \in 1..(Len(obj_list) - 1) : f[i] = obj_list[i]
    BY <1>2, <1>3, FrontFacts
  <1>5. f = Front(obj_list) /\ Node = obj_list[Len(obj_list)]
    BY DEF Front, Node, Last
  <1> HIDE DEF f
  <1>6. f \in Seq(DOMAIN heap)
    <2>1. \A i \in 1..Len(f) : f[i] \in DOMAIN heap
      BY <1>1, <1>2, <1>4
    <2>2. f \in [1..Len(f) -> Range(f)] /\ Len(f) \in Nat
      BY <1>4
    <2>3. f \in [1..Len(f) -> DOMAIN heap]
      BY <2>1, <2>2
    <2> QED  BY <2>2, <2>3
  <1> QED  BY <1>2, <1>4, <1>5, <1>6

\* A value is stored for the object on top.
LEMMA StoreKeepsIInv ==
    ASSUME IInv, obj_list # <<>>, obj_list' = Front(obj_list), ~contains(Node),
           NEW v, Store(v),
           IF IsStored(Node)
           THEN /\ contains(Left(Node)) /\ contains(Right(Node))
                /\ v = HashPair(lookup[Left(Node)], lookup[Right(Node)])
           ELSE ~IsMadePair(Node) => v = HashAtom(BytesAt(Node))
    PROVE  IInv'
  <1> DEFINE n == Node
  <1>1. /\ Len(obj_list) \in Nat \ {0}
        /\ n = obj_list[Len(obj_list)] /\ n \in DOMAIN heap
        /\ obj_list' \in Seq(DOMAIN heap)
        /\ Len(obj_list') = Len(obj_list) - 1
        /\ \A i \in 1..(Len(obj_list) - 1) : obj_list'[i] = obj_list[i]
    BY NodeFacts
  <1>2. UNCHANGED <<heap, held, asked>> /\ lookup' = With(lookup, n, v)
    BY DEF Store
  <1>3. n \notin DOMAIN lookup
    BY DEF contains
  <1>4. /\ DOMAIN lookup' = {n} \cup DOMAIN lookup
        /\ lookup'[n] = v
        /\ \A x \in DOMAIN lookup : lookup'[x] = lookup[x]
    <2> HIDE DEF n
    <2> QED  BY <1>2, <1>3 DEF With
  <1>5. IF IsStored(n)
        THEN /\ contains(Left(n)) /\ contains(Right(n))
             /\ v = HashPair(lookup[Left(n)], lookup[Right(n)])
        ELSE ~IsMadePair(n) => v = HashAtom(BytesAt(n))
    OBVIOUS
  <1> HIDE DEF n
  <1>6. \A o : /\ IsStored(o)' <=> IsStored(o)
               /\ IsMadePair(o)' <=> IsMadePair(o)
               /\ Left(o)' = Left(o) /\ Right(o)' = Right(o)
               /\ BytesAt(o)' = BytesAt(o)
    BY <1>2 DEF IsStored, IsMadePair, IsMade, Left, Right, BytesAt
  <1>7. CachedIsCurrent'
    <2> SUFFICES ASSUME NEW o \in DOMAIN lookup' \cap DOMAIN heap'
                 PROVE  (IF IsStored(o)
                         THEN /\ contains(Left(o)) /\ contains(Right(o))
                              /\ lookup[o] = HashPair(lookup[Left(o)], lookup[Right(o)])
                         ELSE ~IsMadePair(o) => lookup[o] = HashAtom(BytesAt(o)))'
      BY DEF CachedIsCurrent
    <2>1. CASE o = n
      BY <1>4, <1>5, <1>6, <2>1 DEF contains
    <2>2. CASE o # n
      <3>1. o \in DOMAIN lookup \cap DOMAIN heap
        BY <1>2, <1>4, <2>2
      <3>2. IF IsStored(o)
            THEN /\ contains(Left(o)) /\ contains(Right(o))
                 /\ lookup[o] = HashPair(lookup[Left(o)], lookup[Right(o)])
            ELSE ~IsMadePair(o) => lookup[o] = HashAtom(BytesAt(o))
        BY <3>1 DEF IInv, CachedIsCurrent
      <3> QED  BY <1>4, <1>6, <3>1, <3>2 DEF contains
    <2> QED  BY <2>1, <2>2
  <1>8. Closed(DOMAIN heap)'
    BY <1>2, <1>6 DEF Closed, IInv
  <1>9. ~Idle' => contains(asked)' \/ \E i \in 1..Len(obj_list') : obj_list'[i] = asked'
    <2> SUFFICES ASSUME ~Idle'
                 PROVE  contains(asked)' \/ \E i \in 1..Len(obj_list') : obj_list'[i] = asked'
      OBVIOUS
    <2>1. contains(asked) \/ \E i \in 1..Len(obj_list) : obj_list[i] = asked
      BY <1>2 DEF IInv, Idle
    <2>2. CASE contains(asked)
      BY <1>2, <1>4, <2>2 DEF contains
    <2>3. ASSUME NEW i \in 1..Len(obj_list), obj_list[i] = asked
          PROVE  contains(asked)' \/ \E k \in 1..Len(obj_list') : obj_list'[k] = asked'
      <3>1. CASE i = Len(obj_list)
        BY <1>1, <1>2, <1>4, <2>3, <3>1 DEF contains
      <3>2. CASE i # Len(obj_list)
        <4>1. i \in 1..(Len(obj_list) - 1)
          BY <1>1, <3>2
        <4> QED  BY <1>1, <1>2, <2>3, <4>1
      <3> QED  BY <3>1, <3>2
    <2> QED  BY <2>1, <2>2, <2>3
  <1>10. Idle' => obj_list' = <<>>
    BY <1>2 DEF IInv, Idle
  <1> QED  BY <1>1, <1>2, <1>4, <1>7, <1>8, <1>9, <1>10 DEF IInv

\* f returned None: two objects that are alive are put on top.
LEMMA WaitKeepsIInv ==
    ASSUME IInv, ~Idle, NEW l \in DOMAIN heap', NEW r \in DOMAIN heap',
           obj_list' = obj_list \o <<l, r>>,
           DOMAIN heap' \subseteq Ids, DOMAIN heap \subseteq DOMAIN heap',
           Closed(DOMAIN heap)', CachedIsCurrent',
           UNCHANGED <<held, lookup, asked>>
    PROVE  IInv'
  <1>1. obj_list \in Seq(DOMAIN heap')
    <2>1. obj_list \in [1..Len(obj_list) -> DOMAIN heap] /\ Len(obj_list) \in Nat
      BY DEF IInv
    <2>2. obj_list \in [1..Len(obj_list) -> DOMAIN heap']
      BY <2>1
    <2> QED  BY <2>1, <2>2
  <1>2. /\ obj_list' \in Seq(DOMAIN heap')
        /\ Len(obj_list') = Len(obj_list) + 2 /\ Len(obj_list) \in Nat
        /\ \A i \in 1..Len(obj_list) : obj_list'[i] = obj_list[i]
    BY <1>1
  <1>3. contains(asked)' \/ \E i \in 1..Len(obj_list') : obj_list'[i] = asked'
    <2>1. CASE contains(asked)
      BY <2>1 DEF contains
    <2>2. ASSUME NEW i \in 1..Len(obj_list), obj_list[i] = asked
          PROVE  \E k \in 1..Len(obj_list') : obj_list'[k] = asked'
      <3>1. i \in 1..Len(obj_list') /\ obj_list'[i] = asked'
        BY <1>2, <2>2
      <3> QED  BY <3>1
    <2> QED  BY <2>1, <2>2 DEF IInv
  <1>4. ~Idle'
    BY DEF Idle
  <1> QED  BY <1>2, <1>3, <1>4 DEF IInv

LEMMA WorkKeepsIInv ==
    ASSUME IInv, Work
    PROVE  IInv'
  <1>1. CASE SkipNode
    <2>1. /\ obj_list # <<>> /\ obj_list' = Front(obj_list) /\ contains(Node)
          /\ UNCHANGED <<heap, held, lookup, asked>>
      BY <1>1 DEF SkipNode, Pop
    <2>2. /\ Len(obj_list) \in Nat \ {0} /\ Node = obj_list[Len(obj_list)]
          /\ obj_list' \in Seq(DOMAIN heap)
          /\ Len(obj_list') = Len(obj_list) - 1
          /\ \A i \in 1..(Len(obj_list) - 1) : obj_list'[i] = obj_list[i]
      BY <2>1, NodeFacts
    <2>3. \A i \in 1..Len(obj_list) : i = Len(obj_list) \/ i \in 1..Len(obj_list')
      BY <2>2
    <2>4. ~Idle /\ contains(asked) => contains(asked)'
      BY <2>1 DEF contains
    <2>5. ASSUME NEW i \in 1..Len(obj_list), obj_list[i] = asked
          PROVE  contains(asked)' \/ \E k \in 1..Len(obj_list') : obj_list'[k] = asked'
      BY <2>1, <2>2, <2>3, <2>5 DEF contains
    <2>6. ~Idle => contains(asked)' \/ \E k \in 1..Len(obj_list') : obj_list'[k] = asked'
      BY <2>4, <2>5 DEF IInv
    <2>7. CachedIsCurrent' /\ Closed(DOMAIN heap)'
      BY <2>1 DEF IInv, CachedIsCurrent, Closed, contains, IsStored, IsMadePair, IsMade,
                  Left, Right, BytesAt
    <2> QED  BY <2>1, <2>2, <2>6, <2>7 DEF IInv, Idle
  <1>2. CASE AtomDone
    BY <1>2, StoreKeepsIInv DEF AtomDone, CallF, Pop
  <1>3. CASE PairDone
    BY <1>3, StoreKeepsIInv DEF PairDone, CallF, Pop
  <1>4. CASE PairWaits
    <2>1. /\ obj_list # <<>> /\ IsStored(Node)
          /\ obj_list' = obj_list \o <<Left(Node), Right(Node)>>
          /\ UNCHANGED <<heap, held, lookup, asked>>
      BY <1>4 DEF PairWaits, CallF
    <2>2. ~Idle
      BY <2>1 DEF IInv
    <2>3. Left(Node) \in DOMAIN heap' /\ Right(Node) \in DOMAIN heap'
      BY <2>1, NodeFacts DEF IInv, Closed
    <2>4. CachedIsCurrent' /\ Closed(DOMAIN heap)'
      BY <2>1 DEF IInv, CachedIsCurrent, Closed, contains, IsStored, IsMadePair, IsMade,
                  Left, Right, BytesAt
    <2>5. DOMAIN heap' \subseteq Ids
      BY <2>1 DEF IInv
    <2> QED  BY <2>1, <2>2, <2>3, <2>4, <2>5, WaitKeepsIInv
  <1>5. CASE MadePairWaits
    <2> DEFINE a == Made(First(heap[Node].made))
               b == Made(Rest(heap[Node].made))
    <2>1. PICK l, r \in Free : /\ l # r /\ obj_list' = obj_list \o <<l, r>>
                               /\ heap' = With(With(heap, l, a), r, b)
      BY <1>5 DEF MadePairWaits
    <2>2. DOMAIN a # {"stored"} /\ DOMAIN b # {"stored"}
      BY DEF Made
    <2> HIDE DEF a, b
    <2>3. l \in Ids /\ r \in Ids /\ l \notin DOMAIN heap /\ r \notin DOMAIN heap
      BY <2>1 DEF Free
    <2>4. /\ DOMAIN heap' = DOMAIN heap \cup {l, r}
          /\ heap'[l] = a /\ heap'[r] = b
          /\ \A x \in DOMAIN heap : heap'[x] = heap[x]
      <3> DEFINE h == With(heap, l, a)
      <3>1. /\ DOMAIN h = {l} \cup DOMAIN heap /\ h[l] = a
            /\ \A x \in DOMAIN heap : x # l => h[x] = heap[x]
        BY DEF With
      <3> HIDE DEF h
      <3>2. /\ DOMAIN With(h, r, b) = {r} \cup DOMAIN h /\ With(h, r, b)[r] = b
            /\ \A x \in DOMAIN h : x # r => With(h, r, b)[x] = h[x]
        BY DEF With
      <3>3. heap' = With(h, r, b)
        BY <2>1 DEF h
      <3> QED  BY <2>1, <2>3, <3>1, <3>2, <3>3
    <2>5. /\ obj_list # <<>> /\ UNCHANGED <<held, lookup, asked>>
      BY <1>5 DEF MadePairWaits, CallF
    <2>6. /\ CachedIsCurrent'
          /\ \A x \in DOMAIN heap : /\ IsStored(x)' <=> IsStored(x)
                                    /\ Left(x)' = Left(x) /\ Right(x)' = Right(x)
      BY <2>4, <2>5, AllocKeepsCurrent
    <2>7. Closed(DOMAIN heap)'
      <3>1. ~IsStored(l)' /\ ~IsStored(r)'
        BY <2>2, <2>4 DEF IsStored
      <3> QED  BY <2>4, <2>6, <3>1 DEF Closed, IInv
    <2>8. ~Idle
      BY <2>5 DEF IInv
    <2>9. DOMAIN heap' \subseteq Ids
      BY <2>3, <2>4 DEF IInv
    <2> QED  BY <2>1, <2>4, <2>5, <2>6, <2>7, <2>8, <2>9, WaitKeepsIInv
  <1>6. CASE Answer
    <2>1. asked' = NoId /\ UNCHANGED <<heap, held, lookup, obj_list>> /\ obj_list = <<>>
      BY <1>6 DEF Answer
    <2>2. CachedIsCurrent' /\ Closed(DOMAIN heap)'
      BY <2>1 DEF IInv, CachedIsCurrent, Closed, contains, IsStored, IsMadePair, IsMade,
                  Left, Right, BytesAt
    <2> QED  BY <2>1, <2>2 DEF IInv, Idle
  <1> QED  BY <1>1, <1>2, <1>3, <1>4, <1>5, <1>6 DEF Work

LEMMA NextIInv == IInv /\ [Next]_vars => IInv'
  <1> SUFFICES ASSUME IInv, [Next]_vars PROVE IInv'
    OBVIOUS
  <1>1. CASE NewAtom
    <2>1. PICK b \in AtomBytes : NewObject(Atom(b))
      BY <1>1 DEF NewAtom
    <2>2. DOMAIN Atom(b) # {"stored"}
      BY DEF Atom
    <2> QED  BY <2>1, <2>2, NewObjectKeepsIInv
  <1>2. CASE NewPair
    <2>1. PICK l, r \in held : NewObject(Stored(l, r))
      BY <1>2 DEF NewPair
    <2>2. Stored(l, r).stored[1] \in DOMAIN heap /\ Stored(l, r).stored[2] \in DOMAIN heap
      BY <2>1 DEF Stored, IInv
    <2> QED  BY <2>1, <2>2, NewObjectKeepsIInv
  <1>3. CASE NewMade
    <2>1. PICK x \in Generated : NewObject(Made(x))
      BY <1>3 DEF NewMade
    <2>2. DOMAIN Made(x) # {"stored"}
      BY DEF Made
    <2> QED  BY <2>1, <2>2, NewObjectKeepsIInv
  <1>4. CASE Forget
    <2>1. PICK o \in held : held' = held \ {o} /\ Collect((held \ {o}) \cup NodesKept)
      BY <1>4 DEF Forget
    <2> DEFINE roots == (held \ {o}) \cup NodesKept
    <2>2. roots \subseteq DOMAIN heap /\ held' \subseteq roots /\ DOMAIN lookup' \subseteq roots
      BY <1>4, <2>1 DEF Forget, NodesKept, IInv
    <2>3. /\ Collect(roots) /\ Idle /\ held' \subseteq DOMAIN heap
          /\ UNCHANGED <<lookup, obj_list, asked>>
      BY <1>4, <2>1 DEF Forget, IInv
    <2> HIDE DEF roots
    <2> QED  BY <2>2, <2>3, CollectKeepsIInv
  <1>5. CASE NewCache
    <2>1. /\ Collect(held) /\ Idle /\ lookup' = Nothing /\ held' = held
          /\ UNCHANGED <<obj_list, asked>>
      BY <1>5 DEF NewCache
    <2>2. DOMAIN lookup' = {} /\ held \subseteq DOMAIN heap
      BY <2>1 DEF Nothing, IInv
    <2> QED  BY <2>1, <2>2, CollectKeepsIInv
  <1>6. CASE Get
    <2>1. PICK o \in held : asked' = o /\ obj_list' = <<o>>
      BY <1>6 DEF Get
    <2>2. UNCHANGED <<heap, held, lookup>> /\ o \in DOMAIN heap /\ o # NoId
      BY <1>6, NoIdAssumption DEF Get, IInv
    <2>3. CachedIsCurrent' /\ Closed(DOMAIN heap)'
      BY <2>2 DEF IInv, CachedIsCurrent, Closed, contains, IsStored, IsMadePair, IsMade,
                  Left, Right, BytesAt
    <2>4. obj_list' \in Seq(DOMAIN heap') /\ obj_list'[1] = asked' /\ 1 \in 1..Len(obj_list')
      BY <2>1, <2>2
    <2> QED  BY <2>1, <2>2, <2>3, <2>4 DEF IInv, Idle
  <1>7. CASE Work
    BY <1>7, WorkKeepsIInv
  <1>8. CASE UNCHANGED vars
    BY <1>8 DEF vars, IInv, CachedIsCurrent, Closed, contains, IsStored, IsMadePair, IsMade,
                Left, Right, BytesAt, Idle
  <1> QED  BY <1>1, <1>2, <1>3, <1>4, <1>5, <1>6, <1>7, <1>8 DEF Next

\* IInv is an invariant.
THEOREM Invariance == Spec => []IInv
  BY InitIInv, NextIInv, PTL DEF Spec

\* Every value that an ObjectCache has for an object is the tree hash of that
\* object, through any history of objects made and forgotten, ids given again,
\* and calls of get.
THEOREM CachedIsCurrentHolds == Spec => []CachedIsCurrent
  <1>1. IInv => CachedIsCurrent
    BY DEF IInv
  <1> QED  BY <1>1, Invariance, PTL

\* `return self.lookup[obj_id][0]' at the end of get finds an entry.
THEOREM AnswerIsThereHolds == Spec => []AnswerIsThere
  <1>1. IInv => AnswerIsThere
    BY DEF IInv, AnswerIsThere
  <1> QED  BY <1>1, Invariance, PTL


-----------------------------------------------------------------------------
(***************************************************************************)
(* The work of get.  Objects have ranks, those of the children stored in a *)
(* pair below its own; W is the set of the places in obj_list where a node *)
(* waits for its children.  Everything on top of it has a lower rank, so   *)
(* it is not met again while it waits.                                     *)
(***************************************************************************)
Acyclic(rank) ==
    /\ rank \in [Ids -> Int]
    /\ \A o \in DOMAIN heap :
          IsStored(o) => rank[Left(o)] < rank[o] /\ rank[Right(o)] < rank[o]

Waiting(W, rank) ==
    /\ W \subseteq 1..Len(obj_list)
    /\ \A j \in 1..Len(obj_list) : j = 1 \/ \E i \in W : j = i + 1 \/ j = i + 2
    /\ \A i \in W, j \in 1..Len(obj_list) : i < j => rank[obj_list[j]] < rank[obj_list[i]]
    /\ \A i \in W :
          IsStored(obj_list[i]) =>
             /\ contains(Left(obj_list[i]))
                \/ (i + 1 <= Len(obj_list) /\ obj_list[i + 1] = Left(obj_list[i]))
             /\ contains(Right(obj_list[i]))
                \/ (i + 2 <= Len(obj_list) /\ obj_list[i + 2] = Right(obj_list[i]))

WaitsAt(W, o) == \E i \in W : obj_list[i] = o

\* f is called the second time for what waited, and has its value then.
Called(W) ==
    /\ calls \in [Ids -> Nat]
    /\ \A o \in Ids \ DOMAIN heap : calls[o] = 0
    /\ \A o \in DOMAIN heap :
          /\ IsStored(o) => /\ calls[o] <= 2
                            /\ calls[o] = 0 \/ contains(o) \/ (calls[o] = 1 /\ WaitsAt(W, o))
          /\ ~IsStored(o) /\ ~IsMadePair(o) => calls[o] <= 1 /\ (calls[o] = 0 \/ contains(o))

WorkInv == /\ Idle => calls = NoCalls
           /\ \E rank, W : Acyclic(rank) /\ Waiting(W, rank) /\ Called(W)

\* The node on top is done: its value is in lookup.
LEMMA PopWaiting ==
    ASSUME IInv, obj_list # <<>>, obj_list' = Front(obj_list), heap' = heap,
           NEW x, x = Node, DOMAIN lookup \subseteq DOMAIN lookup', x \in DOMAIN lookup',
           NEW rank, NEW W, Waiting(W, rank), NEW V, V = W \ {Len(obj_list)}
    PROVE  Waiting(V, rank)'
  <1> DEFINE n == Len(obj_list)
             s == obj_list
             t == obj_list'
  <1>1. /\ n \in Nat \ {0} /\ x = s[n] /\ Len(t) = n - 1
        /\ \A i \in 1..(n - 1) : t[i] = s[i]
    BY NodeFacts
  <1>2. /\ W \subseteq 1..n
        /\ \A j \in 1..n : j = 1 \/ \E i \in W : j = i + 1 \/ j = i + 2
        /\ \A i \in W, j \in 1..n : i < j => rank[s[j]] < rank[s[i]]
        /\ V = W \ {n}
    BY DEF Waiting
  <1>3. \A i \in W :
          IsStored(s[i]) =>
             /\ contains(Left(s[i])) \/ (i + 1 <= n /\ s[i + 1] = Left(s[i]))
             /\ contains(Right(s[i])) \/ (i + 2 <= n /\ s[i + 2] = Right(s[i]))
    BY DEF Waiting
  <1>4. \A o : /\ IsStored(o)' <=> IsStored(o)
               /\ Left(o)' = Left(o) /\ Right(o)' = Right(o)
               /\ contains(o) => contains(o)'
    BY DEF IsStored, Left, Right, contains
  <1>5. contains(x)'
    BY DEF contains
  <1> HIDE DEF n, s, t
  <1>6. V \subseteq 1..(n - 1) /\ \A i \in V : i \in W /\ i \in 1..(n - 1) /\ t[i] = s[i]
    <2>1. ASSUME NEW i \in V PROVE i \in W /\ i \in 1..(n - 1)
      <3>1. i \in 1..n /\ i # n /\ i \in W
        BY <1>2, <2>1
      <3> QED  BY <1>1, <3>1
    <2> QED  BY <1>1, <2>1
  <1>7. ASSUME NEW j \in 1..(n - 1)
        PROVE  j = 1 \/ \E i \in V : j = i + 1 \/ j = i + 2
    <2>1. j \in 1..n
      BY <1>1
    <2>2. CASE j # 1
      <3>1. PICK i \in W : j = i + 1 \/ j = i + 2
        BY <1>2, <2>1, <2>2
      <3>2. i \in V
        BY <1>1, <1>2, <3>1
      <3> QED  BY <3>1, <3>2
    <2> QED  BY <2>2
  <1>8. ASSUME NEW i \in V, NEW j \in 1..(n - 1), i < j
        PROVE  rank[t[j]] < rank[t[i]]
    <2>1. j \in 1..n /\ t[j] = s[j]
      BY <1>1
    <2> QED  BY <1>2, <1>6, <1>8, <2>1
  <1>9. ASSUME NEW i \in V, NEW o, o = t[i], IsStored(o)'
        PROVE  /\ contains(Left(o))' \/ (i + 1 <= n - 1 /\ t[i + 1] = Left(o)')
               /\ contains(Right(o))' \/ (i + 2 <= n - 1 /\ t[i + 2] = Right(o)')
    <2>1. i \in W /\ i \in 1..(n - 1) /\ s[i] = o
      BY <1>6, <1>9
    <2>2. IsStored(o)
      BY <1>4, <1>9
    <2>3. /\ contains(Left(o)) \/ (i + 1 <= n /\ s[i + 1] = Left(o))
          /\ contains(Right(o)) \/ (i + 2 <= n /\ s[i + 2] = Right(o))
      BY <1>3, <2>1, <2>2
    <2>4. i + 1 <= n => i + 1 = n \/ (i + 1 <= n - 1 /\ t[i + 1] = s[i + 1])
      BY <1>1, <2>1
    <2>5. i + 2 <= n => i + 2 = n \/ (i + 2 <= n - 1 /\ t[i + 2] = s[i + 2])
      BY <1>1, <2>1
    <2>6. contains(Left(o))' \/ (i + 1 <= n - 1 /\ t[i + 1] = Left(o)')
      BY <1>1, <1>4, <1>5, <2>3, <2>4
    <2>7. contains(Right(o))' \/ (i + 2 <= n - 1 /\ t[i + 2] = Right(o)')
      BY <1>1, <1>4, <1>5, <2>3, <2>5
    <2> QED  BY <2>6, <2>7
  <1> QED  BY <1>1, <1>6, <1>7, <1>8, <1>9 DEF Waiting, t

LEMMA PopCalled ==
    ASSUME IInv, obj_list # <<>>, obj_list' = Front(obj_list), heap' = heap,
           NEW x, x = Node, DOMAIN lookup \subseteq DOMAIN lookup', x \in DOMAIN lookup',
           NEW W, Called(W), W \subseteq 1..Len(obj_list), NEW V, V = W \ {Len(obj_list)},
           \/ calls' = calls
           \/ /\ calls' = [calls EXCEPT ![x] = @ + 1]
              /\ ~contains(x) /\ ~IsMadePair(x)
    PROVE  Called(V)'
  <1> DEFINE n == Len(obj_list)
             s == obj_list
             t == obj_list'
  <1>1. /\ n \in Nat \ {0} /\ x = s[n] /\ x \in DOMAIN heap
        /\ \A i \in 1..(n - 1) : t[i] = s[i]
    BY NodeFacts
  <1>2. /\ calls \in [Ids -> Nat] /\ \A o \in Ids \ DOMAIN heap : calls[o] = 0
        /\ DOMAIN heap \subseteq Ids /\ V = W \ {n} /\ W \subseteq 1..n
    BY DEF Called, IInv
  <1>3. \A o \in DOMAIN heap :
          /\ IsStored(o) => /\ calls[o] <= 2
                            /\ calls[o] = 0 \/ contains(o) \/ (calls[o] = 1 /\ WaitsAt(W, o))
          /\ ~IsStored(o) /\ ~IsMadePair(o) => calls[o] <= 1 /\ (calls[o] = 0 \/ contains(o))
    BY DEF Called
  <1>4. \A o : /\ IsStored(o)' <=> IsStored(o)
               /\ IsMadePair(o)' <=> IsMadePair(o)
               /\ contains(o) => contains(o)'
    BY DEF IsStored, IsMadePair, IsMade, contains
  <1>5. contains(x)'
    BY DEF contains
  <1>6. \/ calls' = calls
        \/ calls' = [calls EXCEPT ![x] = @ + 1] /\ ~contains(x) /\ ~IsMadePair(x)
    OBVIOUS
  <1> HIDE DEF n, s, t
  <1>7. calls' \in [Ids -> Nat] /\ \A o \in Ids : o # x => calls'[o] = calls[o]
    BY <1>1, <1>2, <1>6
  <1>8. \A o \in Ids \ DOMAIN heap : calls'[o] = 0
    BY <1>1, <1>2, <1>7
  <1>9. ASSUME NEW o \in DOMAIN heap, WaitsAt(W, o), o # x
        PROVE  WaitsAt(V, o)'
    <2>1. PICK i \in W : s[i] = o
      BY <1>9 DEF WaitsAt, s
    <2>2. i \in V /\ i \in 1..(n - 1)
      BY <1>1, <1>2, <1>9, <2>1
    <2>3. t[i] = o
      BY <1>1, <2>1, <2>2
    <2> QED  BY <2>2, <2>3 DEF WaitsAt, t
  <1>10. /\ IsStored(x) => calls'[x] <= 2
         /\ ~IsStored(x) /\ ~IsMadePair(x) => calls'[x] <= 1
    <2>1. x \in Ids /\ calls[x] \in Nat
      BY <1>1, <1>2
    <2>2. CASE calls' = calls
      BY <1>1, <1>3, <2>2
    <2>3. CASE calls' = [calls EXCEPT ![x] = @ + 1] /\ ~contains(x) /\ ~IsMadePair(x)
      <3>1. calls'[x] = calls[x] + 1
        BY <1>2, <2>1, <2>3
      <3>2. IsStored(x) => calls[x] = 0 \/ calls[x] = 1
        BY <1>1, <1>3, <2>3
      <3>3. ~IsStored(x) => calls[x] = 0
        BY <1>1, <1>3, <2>3
      <3> QED  BY <2>1, <3>1, <3>2, <3>3
    <2> QED  BY <1>6, <2>2, <2>3
  <1>11. ASSUME NEW o \in DOMAIN heap
         PROVE  /\ IsStored(o) => /\ calls'[o] <= 2
                                  /\ calls'[o] = 0 \/ contains(o)' \/ (calls'[o] = 1 /\ WaitsAt(V, o)')
                /\ ~IsStored(o) /\ ~IsMadePair(o) =>
                      calls'[o] <= 1 /\ (calls'[o] = 0 \/ contains(o)')
    <2>1. CASE o = x
      BY <1>5, <1>10, <2>1, Zenon
    <2>2. CASE o # x
      <3>1. calls'[o] = calls[o]
        BY <1>2, <1>7, <2>2
      <3> QED  BY <1>3, <1>4, <1>9, <2>2, <3>1, Zenon
    <2> QED  BY <2>1, <2>2
  <1> QED  BY <1>4, <1>7, <1>8, <1>11 DEF Called


\* The node on top waits for two objects that are put on it.
Puts(l, r) == obj_list' = obj_list \o <<l, r>>

LEMMA PushWaiting ==
    ASSUME IInv, obj_list # <<>>, NEW l \in Ids, NEW r \in Ids,
           Puts(l, r),
           \A o \in DOMAIN heap : heap'[o] = heap[o], lookup' = lookup,
           NEW x, x = Node, IsStored(x) => l = Left(x) /\ r = Right(x),
           NEW rank, NEW W, Waiting(W, rank), NEW V, V = W \cup {Len(obj_list)},
           NEW new \in [Ids -> Int], \A o \in DOMAIN heap : new[o] = rank[o],
           new[l] < new[x], new[r] < new[x]
    PROVE  Waiting(V, new)'
  <1> DEFINE n == Len(obj_list)
             s == obj_list
             t == obj_list'
  <1>1. /\ n \in Nat \ {0} /\ x = s[n] /\ Len(t) = n + 2
        /\ \A i \in 1..n : t[i] = s[i] /\ s[i] \in DOMAIN heap
        /\ t[n + 1] = l /\ t[n + 2] = r
    <2>1. s \in Seq(DOMAIN heap) /\ DOMAIN heap \subseteq Ids
      BY DEF IInv
    <2>2. s \in Seq(Ids)
      <3>1. s \in [1..n -> DOMAIN heap] /\ n \in Nat
        BY <2>1
      <3> QED  BY <2>1, <3>1
    <2>3. /\ Len(t) = n + 2
          /\ \A i \in 1..n : t[i] = s[i]
          /\ t[n + 1] = l /\ t[n + 2] = r
      BY <2>2 DEF Puts
    <2>4. \A i \in 1..n : s[i] \in DOMAIN heap
      BY <2>1
    <2> QED  BY <2>3, <2>4, NodeFacts
  <1>2. /\ W \subseteq 1..n
        /\ \A j \in 1..n : j = 1 \/ \E i \in W : j = i + 1 \/ j = i + 2
        /\ \A i \in W, j \in 1..n : i < j => rank[s[j]] < rank[s[i]]
        /\ V = W \cup {n}
    BY DEF Waiting
  <1>3. \A i \in W :
          IsStored(s[i]) =>
             /\ contains(Left(s[i])) \/ (i + 1 <= n /\ s[i + 1] = Left(s[i]))
             /\ contains(Right(s[i])) \/ (i + 2 <= n /\ s[i + 2] = Right(s[i]))
    BY DEF Waiting
  <1>4. /\ \A o \in DOMAIN heap : /\ IsStored(o)' <=> IsStored(o)
                                  /\ Left(o)' = Left(o) /\ Right(o)' = Right(o)
        /\ \A o : contains(o)' <=> contains(o)
    BY DEF IsStored, Left, Right, contains
  <1>5. DOMAIN heap \subseteq Ids
    BY DEF IInv
  <1> HIDE DEF n, s, t
  <1>6. V \subseteq 1..n /\ 1..n \subseteq 1..(n + 2)
    <2>1. n \in 1..n /\ n \in Nat
      BY <1>1
    <2>2. 1..n \subseteq 1..(n + 2)
      BY <2>1
    <2> QED  BY <1>2, <2>1, <2>2, Zenon
  <1>7. ASSUME NEW j \in 1..(n + 2)
        PROVE  j = 1 \/ \E i \in V : j = i + 1 \/ j = i + 2
    <2>1. j \in 1..n \/ j = n + 1 \/ j = n + 2
      BY <1>1
    <2> QED  BY <1>2, <2>1
  <1>8. ASSUME NEW i \in V, NEW j \in 1..(n + 2), i < j
        PROVE  new[t[j]] < new[t[i]]
    <2>1. i \in 1..n /\ t[i] = s[i] /\ s[i] \in DOMAIN heap /\ s[i] \in Ids
      BY <1>1, <1>5, <1>6
    <2>2. new[x] = rank[x] /\ new[s[i]] = rank[s[i]] /\ x \in Ids
      BY <1>1, <1>5, <2>1
    <2>3. CASE j \in 1..n
      <3>1. i \in W
        BY <1>1, <1>2, <1>8, <2>1, <2>3
      <3>2. rank[s[j]] < rank[s[i]] /\ t[j] = s[j] /\ new[s[j]] = rank[s[j]]
        BY <1>1, <1>2, <1>8, <2>3, <3>1
      <3> QED  BY <2>1, <2>2, <3>2
    <2>4. CASE j = n + 1 \/ j = n + 2
      <3>1. new[t[j]] < new[x]
        BY <1>1, <2>4
      <3>2. s[i] = x \/ new[x] < new[s[i]]
        <4>1. CASE i = n
          BY <1>1, <4>1
        <4>2. CASE i # n
          <5>1. i \in W /\ n \in 1..n /\ i < n
            BY <1>1, <1>2, <2>1, <4>2
          <5> QED  BY <1>1, <1>2, <2>2, <5>1
        <4> QED  BY <4>1, <4>2
      <3>3. new[t[j]] \in Int /\ new[x] \in Int /\ new[s[i]] \in Int
        BY <1>1, <2>1, <2>2, <2>4
      <3> QED  BY <2>1, <3>1, <3>2, <3>3
    <2>5. j \in 1..n \/ j = n + 1 \/ j = n + 2
      BY <1>1
    <2> QED  BY <2>3, <2>4, <2>5
  <1>9. ASSUME NEW i \in V, NEW o, o = t[i], IsStored(o)'
        PROVE  /\ contains(Left(o))' \/ (i + 1 <= n + 2 /\ t[i + 1] = Left(o)')
               /\ contains(Right(o))' \/ (i + 2 <= n + 2 /\ t[i + 2] = Right(o)')
    <2>1. i \in 1..n /\ o = s[i] /\ o \in DOMAIN heap
      BY <1>1, <1>6, <1>9
    <2>2. IsStored(o) /\ Left(o)' = Left(o) /\ Right(o)' = Right(o)
      BY <1>4, <1>9, <2>1
    <2>3. CASE i = n
      <3>1. o = x /\ l = Left(o) /\ r = Right(o)
        BY <1>1, <2>1, <2>2, <2>3
      <3>2. i + 1 <= n + 2 /\ i + 2 <= n + 2
        BY <1>1, <2>3
      <3> QED  BY <1>1, <2>2, <2>3, <3>1, <3>2
    <2>4. CASE i # n
      <3>1. i \in W
        BY <1>2, <2>4
      <3>2. /\ contains(Left(o)) \/ (i + 1 <= n /\ s[i + 1] = Left(o))
            /\ contains(Right(o)) \/ (i + 2 <= n /\ s[i + 2] = Right(o))
        BY <1>3, <2>1, <2>2, <3>1
      <3> n \in Nat /\ i \in 1..n
        BY <1>1, <2>1
      <3>3. i + 1 <= n => i + 1 <= n + 2 /\ t[i + 1] = s[i + 1]
        <4>1. i + 1 <= n => i + 1 \in 1..n /\ i + 1 <= n + 2
          OBVIOUS
        <4> QED  BY <1>1, <4>1, Zenon
      <3>4. i + 2 <= n => i + 2 <= n + 2 /\ t[i + 2] = s[i + 2]
        <4>1. i + 2 <= n => i + 2 \in 1..n /\ i + 2 <= n + 2
          OBVIOUS
        <4> QED  BY <1>1, <4>1, Zenon
      <3>5. (contains(Left(o))' <=> contains(Left(o))) /\ (contains(Right(o))' <=> contains(Right(o)))
        <4>1. Left(o)' = Left(o) /\ Right(o)' = Right(o) /\ lookup' = lookup
          BY <2>2
        <4> QED  BY <4>1, Zenon DEF contains
      <3> QED  BY <2>2, <3>2, <3>3, <3>4, <3>5
    <2> QED  BY <2>3, <2>4
  <1>10. Len(t) = n + 2
    BY <1>1
  <1> QED  BY <1>6, <1>7, <1>8, <1>9, <1>10 DEF Waiting, t

LEMMA PushCalled ==
    ASSUME IInv, obj_list # <<>>, NEW l \in Ids, NEW r \in Ids,
           Puts(l, r),
           DOMAIN heap \subseteq DOMAIN heap', DOMAIN heap' \subseteq Ids,
           \A o \in DOMAIN heap : heap'[o] = heap[o], lookup' = lookup,
           NEW x, x = Node, ~contains(x), calls' = [calls EXCEPT ![x] = @ + 1],
           IsStored(x) => ~(contains(Left(x)) /\ contains(Right(x))),
           ~IsStored(x) => IsMadePair(x),
           NEW rank \in [Ids -> Int], NEW W, Waiting(W, rank), Called(W),
           NEW V, V = W \cup {Len(obj_list)}
    PROVE  Called(V)'
  <1> DEFINE n == Len(obj_list)
             s == obj_list
             t == obj_list'
  <1>1. /\ n \in Nat \ {0} /\ x = s[n] /\ x \in DOMAIN heap /\ x \in Ids
        /\ \A i \in 1..n : t[i] = s[i]
    <2>1. s \in Seq(DOMAIN heap) /\ DOMAIN heap \subseteq Ids
      BY DEF IInv
    <2>2. s \in Seq(Ids)
      <3>1. s \in [1..n -> DOMAIN heap] /\ n \in Nat
        BY <2>1
      <3> QED  BY <2>1, <3>1
    <2>3. \A i \in 1..n : t[i] = s[i]
      BY <2>2 DEF Puts
    <2> QED  BY <2>1, <2>3, NodeFacts
  <1>2. /\ W \subseteq 1..n
        /\ \A i \in W, j \in 1..n : i < j => rank[s[j]] < rank[s[i]]
        /\ V = W \cup {n}
    BY DEF Waiting
  <1>3. \A i \in W :
          IsStored(s[i]) =>
             /\ contains(Left(s[i])) \/ (i + 1 <= n /\ s[i + 1] = Left(s[i]))
             /\ contains(Right(s[i])) \/ (i + 2 <= n /\ s[i + 2] = Right(s[i]))
    BY DEF Waiting
  <1>4. /\ calls \in [Ids -> Nat] /\ \A o \in Ids \ DOMAIN heap : calls[o] = 0
        /\ DOMAIN heap \subseteq Ids
    BY DEF Called, IInv
  <1>5. \A o \in DOMAIN heap :
          /\ IsStored(o) => /\ calls[o] <= 2
                            /\ calls[o] = 0 \/ contains(o) \/ (calls[o] = 1 /\ WaitsAt(W, o))
          /\ ~IsStored(o) /\ ~IsMadePair(o) => calls[o] <= 1 /\ (calls[o] = 0 \/ contains(o))
    BY DEF Called
  <1>6. /\ \A o \in DOMAIN heap : /\ IsStored(o)' <=> IsStored(o)
                                  /\ IsMadePair(o)' <=> IsMadePair(o)
        /\ \A o : contains(o)' <=> contains(o)
    BY DEF IsStored, IsMadePair, IsMade, contains
  <1> HIDE DEF n, s, t
  <1>7. /\ calls' \in [Ids -> Nat] /\ calls'[x] = calls[x] + 1
        /\ \A o \in Ids : o # x => calls'[o] = calls[o]
    BY <1>1, <1>4
  <1>8. \A o \in Ids \ DOMAIN heap : calls'[o] = 0
    BY <1>1, <1>4, <1>7
  <1>9. \A o : WaitsAt(W, o) => WaitsAt(V, o)'
    <2>1. ASSUME NEW o, NEW i \in W, s[i] = o PROVE i \in V /\ t[i] = o
      BY <1>1, <1>2, <2>1
    <2> QED  BY <2>1 DEF WaitsAt, s, t
  <1>10. WaitsAt(V, x)'
    <2>1. n \in V /\ t[n] = x
      BY <1>1, <1>2
    <2> QED  BY <2>1 DEF WaitsAt, t
  <1>11. IsStored(x) => calls[x] = 0
    <2> SUFFICES ASSUME IsStored(x), calls[x] # 0 PROVE FALSE
      OBVIOUS
    <2>1. WaitsAt(W, x)
      BY <1>1, <1>5
    <2>2. PICK i \in W : s[i] = x
      BY <2>1 DEF WaitsAt, s
    <2>3. i = n
      <3>1. i \in 1..n /\ n \in 1..n
        BY <1>1, <1>2
      <3>2. ~(i < n)
        <4>1. rank[x] \in Int
          BY <1>1
        <4>2. i < n => rank[x] < rank[x]
          BY <1>1, <1>2, <2>2, <3>1
        <4> QED  BY <4>1, <4>2
      <3> QED  BY <1>1, <3>1, <3>2
    <2>4. ~(i + 1 <= n) /\ ~(i + 2 <= n)
      BY <1>1, <2>3
    <2> QED  BY <1>3, <2>2, <2>4
  <1>12. ASSUME NEW o \in DOMAIN heap
         PROVE  /\ IsStored(o) => /\ calls'[o] <= 2
                                  /\ calls'[o] = 0 \/ contains(o)' \/ (calls'[o] = 1 /\ WaitsAt(V, o)')
                /\ ~IsStored(o) /\ ~IsMadePair(o) =>
                      calls'[o] <= 1 /\ (calls'[o] = 0 \/ contains(o)')
    <2>1. CASE o = x
      <3>1. IsStored(x) => calls'[x] = 1 /\ calls'[x] <= 2
        BY <1>7, <1>11
      <3> QED  BY <1>10, <2>1, <3>1, Zenon
    <2>2. CASE o # x
      <3>1. calls'[o] = calls[o]
        BY <1>4, <1>7, <2>2
      <3> QED  BY <1>5, <1>6, <1>9, <2>2, <3>1, Zenon
    <2> QED  BY <2>1, <2>2
  <1>13. ASSUME NEW o \in DOMAIN heap', o \notin DOMAIN heap
         PROVE  calls'[o] = 0 /\ 0 <= 1 /\ 0 <= 2
    BY <1>8, <1>13
  <1>14. \A o \in Ids \ DOMAIN heap' : calls'[o] = 0
    BY <1>8
  <1>15. \A o \in DOMAIN heap' : o \in DOMAIN heap \/ calls'[o] = 0
    BY <1>13
  <1> QED  BY <1>6, <1>7, <1>12, <1>13, <1>14, <1>15 DEF Called


-----------------------------------------------------------------------------
(***************************************************************************)
(* The steps                                                               *)
(***************************************************************************)
LEMMA InitWorkInv == Init => WorkInv
  <1> SUFFICES ASSUME Init PROVE WorkInv
    OBVIOUS
  <1>1. heap = Nothing /\ obj_list = <<>> /\ calls = NoCalls
    BY DEF Init
  <1> DEFINE rank == [o \in Ids |-> 0]
  <1>2. rank \in [Ids -> Int] /\ DOMAIN heap = {}
    BY <1>1 DEF Nothing
  <1> HIDE DEF rank
  <1>3. Acyclic(rank)
    BY <1>2 DEF Acyclic
  <1>4. Waiting({}, rank)
    <2>1. \A j \in 1..Len(obj_list) : FALSE
      BY <1>1
    <2> QED  BY <2>1 DEF Waiting
  <1>5. Called({})
    <2>1. calls \in [Ids -> Nat] /\ \A o \in Ids : calls[o] = 0
      BY <1>1 DEF NoCalls
    <2> QED  BY <1>2, <2>1 DEF Called
  <1> QED  BY <1>1, <1>3, <1>4, <1>5 DEF WorkInv

\* Between calls of get there is no work.
LEMMA NoWork ==
    ASSUME IInv', obj_list' = <<>>, calls' = NoCalls, NEW rank, Acyclic(rank)'
    PROVE  WorkInv'
  <1>1. DOMAIN heap' \subseteq Ids
    BY DEF IInv
  <1>2. Waiting({}, rank)'
    <2>1. \A j \in 1..Len(obj_list') : FALSE
      OBVIOUS
    <2> QED  BY <2>1 DEF Waiting
  <1>3. Called({})'
    <2>1. calls' \in [Ids -> Nat] /\ \A o \in Ids : calls'[o] = 0
      BY DEF NoCalls
    <2> QED  BY <1>1, <2>1 DEF Called
  <1>4. \E r, W : Acyclic(r)' /\ Waiting(W, r)' /\ Called(W)'
    BY <1>2, <1>3
  <1> QED  BY <1>4 DEF WorkInv

\* A new object has a rank above those of the objects it stores.
LEMMA NewObjectKeepsWork ==
    ASSUME IInv, IInv', WorkInv, NEW content, NewObject(content),
           DOMAIN content = {"stored"} =>
               content.stored[1] \in DOMAIN heap /\ content.stored[2] \in DOMAIN heap
    PROVE  WorkInv'
  <1>1. PICK o \in Free : heap' = With(heap, o, content)
    BY DEF NewObject
  <1>2. o \in Ids /\ o \notin DOMAIN heap /\ DOMAIN heap \subseteq Ids
    BY DEF Free, IInv
  <1>3. /\ DOMAIN heap' = {o} \cup DOMAIN heap
        /\ heap'[o] = content
        /\ \A x \in DOMAIN heap : heap'[x] = heap[x]
    BY <1>1, <1>2 DEF With
  <1>4. obj_list' = <<>> /\ calls' = NoCalls /\ Idle'
    BY DEF NewObject, IInv, WorkInv, Idle
  <1>5. PICK rank : Acyclic(rank)
    BY DEF WorkInv
  <1>6. /\ rank \in [Ids -> Int]
        /\ \A x \in DOMAIN heap :
              IsStored(x) => rank[Left(x)] < rank[x] /\ rank[Right(x)] < rank[x]
    BY <1>5 DEF Acyclic
  <1>7. PICK new : /\ new \in [Ids -> Int]
                   /\ \A x \in DOMAIN heap : new[x] = rank[x]
                   /\ DOMAIN content = {"stored"} =>
                         new[content.stored[1]] < new[o] /\ new[content.stored[2]] < new[o]
    <2>1. PICK k \in Int : DOMAIN content = {"stored"} =>
                              rank[content.stored[1]] < k /\ rank[content.stored[2]] < k
      <3>1. CASE DOMAIN content = {"stored"}
        <4> DEFINE a == rank[content.stored[1]]
                   b == rank[content.stored[2]]
        <4>1. a \in Int /\ b \in Int
          BY <1>2, <1>6, <3>1
        <4> HIDE DEF a, b
        <4>2. \E k \in Int : a < k /\ b < k
          <5>1. CASE a <= b
            <6>1. b + 1 \in Int /\ a < b + 1 /\ b < b + 1
              BY <4>1, <5>1
            <6> QED  BY <6>1
          <5>2. CASE b <= a
            <6>1. a + 1 \in Int /\ a < a + 1 /\ b < a + 1
              BY <4>1, <5>2
            <6> QED  BY <6>1
          <5> QED  BY <4>1, <5>1, <5>2
        <4> QED  BY <4>2 DEF a, b
      <3>2. CASE DOMAIN content # {"stored"}
        <4>1. 0 \in Int
          OBVIOUS
        <4> QED  BY <3>2, <4>1
      <3> QED  BY <3>1, <3>2
    <2> DEFINE new == [rank EXCEPT ![o] = k]
    <2>2. new \in [Ids -> Int] /\ new[o] = k /\ \A x \in Ids : x # o => new[x] = rank[x]
      BY <1>2, <1>6, <2>1
    <2> HIDE DEF new
    <2>3. \A x \in DOMAIN heap : new[x] = rank[x]
      BY <1>2, <2>2
    <2> QED  BY <2>1, <2>2, <2>3
  <1>8. ASSUME NEW x \in DOMAIN heap', IsStored(x)'
        PROVE  new[Left(x)'] < new[x] /\ new[Right(x)'] < new[x]
    <2>1. CASE x = o
      <3>1. /\ DOMAIN content = {"stored"}
            /\ Left(x)' = content.stored[1] /\ Right(x)' = content.stored[2]
        BY <1>3, <1>8, <2>1 DEF IsStored, Left, Right
      <3> QED  BY <1>7, <2>1, <3>1
    <2>2. CASE x # o
      <3>1. x \in DOMAIN heap /\ IsStored(x) /\ Left(x)' = Left(x) /\ Right(x)' = Right(x)
        BY <1>3, <1>8, <2>2 DEF IsStored, Left, Right
      <3>2. Left(x) \in DOMAIN heap /\ Right(x) \in DOMAIN heap
        BY <3>1 DEF IInv, Closed
      <3> QED  BY <1>6, <1>7, <3>1, <3>2
    <2> QED  BY <2>1, <2>2
  <1>9. Acyclic(new)'
    BY <1>7, <1>8 DEF Acyclic
  <1> QED  BY <1>4, <1>9, NoWork


LEMMA DoneKeepsWork ==
    ASSUME IInv, WorkInv, ~Idle, obj_list # <<>>, obj_list' = Front(obj_list),
           UNCHANGED <<heap, asked>>, NEW x, x = Node,
           DOMAIN lookup \subseteq DOMAIN lookup', x \in DOMAIN lookup',
           \/ calls' = calls
           \/ /\ calls' = [calls EXCEPT ![x] = @ + 1]
              /\ ~contains(x) /\ ~IsMadePair(x)
    PROVE  WorkInv'
  <1>1. PICK rank, W : Acyclic(rank) /\ Waiting(W, rank) /\ Called(W)
    BY DEF WorkInv
  <1>2. W \subseteq 1..Len(obj_list)
    BY <1>1 DEF Waiting
  <1>3. PICK V : V = W \ {Len(obj_list)}
    OBVIOUS
  <1>4. Waiting(V, rank)'
    BY <1>1, <1>3, PopWaiting
  <1>5. Called(V)'
    BY <1>1, <1>2, <1>3, PopCalled
  <1>6. Acyclic(rank)'
    BY <1>1 DEF Acyclic, IsStored, Left, Right
  <1>7. ~Idle'
    BY DEF Idle
  <1>8. \E r, U : Acyclic(r)' /\ Waiting(U, r)' /\ Called(U)'
    BY <1>4, <1>5, <1>6
  <1> QED  BY <1>7, <1>8 DEF WorkInv

LEMMA PairWaitsKeepsWork ==
    ASSUME IInv, WorkInv, PairWaits
    PROVE  WorkInv'
  <1>1. PICK rank, W : Acyclic(rank) /\ Waiting(W, rank) /\ Called(W)
    BY DEF WorkInv
  <1>2. PICK V : V = W \cup {Len(obj_list)}
    OBVIOUS
  <1>3. PICK x : x = Node
    OBVIOUS
  <1>4. /\ obj_list # <<>> /\ IsStored(x) /\ ~contains(x)
        /\ calls' = [calls EXCEPT ![x] = @ + 1]
        /\ ~(contains(Left(x)) /\ contains(Right(x)))
        /\ Puts(Left(x), Right(x))
        /\ heap' = heap /\ lookup' = lookup /\ asked' = asked
    BY <1>3 DEF PairWaits, CallF, Puts
  <1>5. PICK l, r : l = Left(x) /\ r = Right(x) /\ Puts(l, r)
    BY <1>4
  <1>6. x \in DOMAIN heap /\ DOMAIN heap \subseteq Ids /\ l \in Ids /\ r \in Ids
    BY <1>3, <1>4, <1>5, NodeFacts DEF IInv, Closed
  <1>7. rank \in [Ids -> Int] /\ rank[l] < rank[x] /\ rank[r] < rank[x]
    BY <1>1, <1>4, <1>5, <1>6 DEF Acyclic
  <1>8. Waiting(V, rank)'
    BY <1>1, <1>2, <1>3, <1>4, <1>5, <1>6, <1>7, PushWaiting
  <1>9. Called(V)'
    BY <1>1, <1>2, <1>3, <1>4, <1>5, <1>6, <1>7, PushCalled
  <1>10. Acyclic(rank)'
    BY <1>1, <1>4 DEF Acyclic, IsStored, Left, Right
  <1>11. ~Idle'
    BY <1>4 DEF IInv, Idle
  <1>12. \E q, U : Acyclic(q)' /\ Waiting(U, q)' /\ Called(U)'
    BY <1>8, <1>9, <1>10
  <1> QED  BY <1>11, <1>12 DEF WorkInv

\* Two new objects, which store nothing, get ranks just below the pair's.
LEMMA MadePairWaitsKeepsWork ==
    ASSUME IInv, WorkInv, MadePairWaits
    PROVE  WorkInv'
  <1>1. PICK rank, W : Acyclic(rank) /\ Waiting(W, rank) /\ Called(W)
    BY DEF WorkInv
  <1>2. PICK V : V = W \cup {Len(obj_list)}
    OBVIOUS
  <1>3. PICK x : x = Node
    OBVIOUS
  <1> DEFINE a == Made(First(heap[Node].made))
             b == Made(Rest(heap[Node].made))
  <1>4. PICK l, r \in Free : /\ l # r /\ obj_list' = obj_list \o <<l, r>>
                             /\ heap' = With(With(heap, l, a), r, b)
    BY DEF MadePairWaits
  <1>5. DOMAIN a # {"stored"} /\ DOMAIN b # {"stored"}
    BY DEF Made
  <1> HIDE DEF a, b
  <1>6. l \in Ids /\ r \in Ids /\ l \notin DOMAIN heap /\ r \notin DOMAIN heap
    BY <1>4 DEF Free
  <1>7. /\ DOMAIN heap' = DOMAIN heap \cup {l, r}
        /\ heap'[l] = a /\ heap'[r] = b
        /\ \A o \in DOMAIN heap : heap'[o] = heap[o]
    <2> DEFINE h == With(heap, l, a)
    <2>1. /\ DOMAIN h = {l} \cup DOMAIN heap /\ h[l] = a
          /\ \A o \in DOMAIN heap : o # l => h[o] = heap[o]
      BY DEF With
    <2> HIDE DEF h
    <2>2. /\ DOMAIN With(h, r, b) = {r} \cup DOMAIN h /\ With(h, r, b)[r] = b
          /\ \A o \in DOMAIN h : o # r => With(h, r, b)[o] = h[o]
      BY DEF With
    <2>3. heap' = With(h, r, b)
      BY <1>4 DEF h
    <2> QED  BY <1>4, <1>6, <2>1, <2>2, <2>3
  <1>8. /\ obj_list # <<>> /\ ~contains(x) /\ IsMadePair(x)
        /\ calls' = [calls EXCEPT ![x] = @ + 1]
        /\ lookup' = lookup /\ asked' = asked
    BY <1>3 DEF MadePairWaits, CallF
  <1>9. ~IsStored(x)
    BY <1>8 DEF IsMadePair, IsMade, IsStored
  <1>10. x \in DOMAIN heap /\ DOMAIN heap \subseteq Ids
    BY <1>3, <1>8, NodeFacts DEF IInv
  <1>11. /\ rank \in [Ids -> Int]
         /\ \A o \in DOMAIN heap :
               IsStored(o) => rank[Left(o)] < rank[o] /\ rank[Right(o)] < rank[o]
    BY <1>1 DEF Acyclic
  <1>12. PICK new : /\ new \in [Ids -> Int]
                    /\ \A o \in DOMAIN heap : new[o] = rank[o]
                    /\ new[l] < new[x] /\ new[r] < new[x]
    <2> DEFINE new == [o \in Ids |-> IF o \in {l, r} THEN rank[x] - 1 ELSE rank[o]]
    <2>1. rank[x] \in Int /\ rank[x] - 1 \in Int /\ rank[x] - 1 < rank[x]
      BY <1>10, <1>11
    <2>2. new \in [Ids -> Int]
      BY <1>11, <2>1
    <2>3. \A o \in DOMAIN heap : new[o] = rank[o]
      BY <1>6, <1>10
    <2>4. new[l] = rank[x] - 1 /\ new[r] = rank[x] - 1 /\ new[x] = rank[x]
      BY <1>6, <1>10
    <2> HIDE DEF new
    <2> QED  BY <2>1, <2>2, <2>3, <2>4
  <1>13. DOMAIN heap \subseteq DOMAIN heap' /\ DOMAIN heap' \subseteq Ids
    BY <1>6, <1>7, <1>10
  <1>14. Waiting(V, new)'
    <2>1. /\ obj_list # <<>> /\ Puts(l, r) /\ lookup' = lookup
          /\ \A o \in DOMAIN heap : heap'[o] = heap[o]
          /\ IsStored(x) => l = Left(x) /\ r = Right(x)
          /\ \A o \in DOMAIN heap : new[o] = rank[o]
      BY <1>4, <1>7, <1>8, <1>9, <1>12 DEF Puts
    <2>2. l \in Ids /\ r \in Ids /\ new \in [Ids -> Int] /\ new[l] < new[x] /\ new[r] < new[x]
      BY <1>6, <1>12
    <2>3. Waiting(W, rank)
      BY <1>1
    <2> QED  BY <1>2, <1>3, <2>1, <2>2, <2>3, PushWaiting
  <1>15. Called(V)'
    <2>1. Puts(l, r)
      BY <1>4 DEF Puts
    <2> QED  BY <1>1, <1>2, <1>3, <1>6, <1>7, <1>8, <1>9, <1>11, <1>13, <2>1, PushCalled
  <1>16. Acyclic(new)'
    <2>1. ASSUME NEW o \in DOMAIN heap', IsStored(o)'
          PROVE  new[Left(o)'] < new[o] /\ new[Right(o)'] < new[o]
      <3>1. o \in DOMAIN heap
        BY <1>5, <1>7, <2>1 DEF IsStored
      <3>2. IsStored(o) /\ Left(o)' = Left(o) /\ Right(o)' = Right(o)
        BY <1>7, <2>1, <3>1 DEF IsStored, Left, Right
      <3>3. Left(o) \in DOMAIN heap /\ Right(o) \in DOMAIN heap
        BY <3>1, <3>2 DEF IInv, Closed
      <3> QED  BY <1>11, <1>12, <3>1, <3>2, <3>3
    <2> QED  BY <1>12, <2>1 DEF Acyclic
  <1>17. ~Idle'
    BY <1>8 DEF IInv, Idle
  <1>18. \E q, U : Acyclic(q)' /\ Waiting(U, q)' /\ Called(U)'
    BY <1>14, <1>15, <1>16
  <1> QED  BY <1>17, <1>18 DEF WorkInv

LEMMA WorkKeepsWork ==
    ASSUME IInv, IInv', WorkInv, Work
    PROVE  WorkInv'
  <1>1. CASE SkipNode \/ AtomDone \/ PairDone
    <2>1. PICK x : x = Node
      OBVIOUS
    <2>2. /\ obj_list # <<>> /\ obj_list' = Front(obj_list)
          /\ UNCHANGED <<heap, asked>>
      BY <1>1 DEF SkipNode, AtomDone, PairDone, Pop, Store
    <2>3. ~Idle
      BY <2>2 DEF IInv
    <2>4. \/ contains(x) /\ lookup' = lookup /\ calls' = calls
          \/ /\ ~contains(x) /\ ~IsMadePair(x)
             /\ calls' = [calls EXCEPT ![x] = @ + 1]
             /\ \E v : lookup' = With(lookup, x, v)
      <3>1. CASE SkipNode
        <4>1. contains(x) /\ lookup' = lookup
          BY <2>1, <3>1 DEF SkipNode
        <4>2. calls' = calls
          BY <3>1 DEF SkipNode
        <4> QED  BY <4>1, <4>2
      <3>2. CASE AtomDone
        BY <2>1, <3>2 DEF AtomDone, CallF, Store
      <3>3. CASE PairDone
        <4>1. ~IsMadePair(x)
          BY <2>1, <3>3 DEF PairDone, IsStored, IsMadePair, IsMade
        <4> QED  BY <2>1, <3>3, <4>1 DEF PairDone, CallF, Store
      <3> QED  BY <1>1, <3>1, <3>2, <3>3
    <2>5. DOMAIN lookup \subseteq DOMAIN lookup' /\ x \in DOMAIN lookup'
      <3>1. CASE contains(x) /\ lookup' = lookup
        BY <3>1 DEF contains
      <3>2. ASSUME NEW v, lookup' = With(lookup, x, v)
            PROVE  DOMAIN lookup \subseteq DOMAIN lookup' /\ x \in DOMAIN lookup'
        BY <3>2 DEF With
      <3> QED  BY <2>4, <3>1, <3>2
    <2> QED  BY <2>1, <2>2, <2>3, <2>4, <2>5, DoneKeepsWork
  <1>2. CASE Answer
    <2>1. obj_list' = <<>> /\ calls' = NoCalls /\ heap' = heap
      BY <1>2 DEF Answer
    <2>2. PICK rank : Acyclic(rank)
      BY DEF WorkInv
    <2>3. Acyclic(rank)'
      BY <2>1, <2>2 DEF Acyclic, IsStored, Left, Right
    <2> QED  BY <2>1, <2>3, NoWork
  <1> QED  BY <1>1, <1>2, PairWaitsKeepsWork, MadePairWaitsKeepsWork DEF Work


LEMMA NextWorkInv == IInv /\ IInv' /\ WorkInv /\ [Next]_vars => WorkInv'
  <1> SUFFICES ASSUME IInv, IInv', WorkInv, [Next]_vars PROVE WorkInv'
    OBVIOUS
  <1>1. CASE NewAtom
    <2>1. PICK b \in AtomBytes : NewObject(Atom(b))
      BY <1>1 DEF NewAtom
    <2>2. DOMAIN Atom(b) # {"stored"}
      BY DEF Atom
    <2> QED  BY <2>1, <2>2, NewObjectKeepsWork
  <1>2. CASE NewPair
    <2>1. PICK l, r \in held : NewObject(Stored(l, r))
      BY <1>2 DEF NewPair
    <2>2. Stored(l, r).stored[1] \in DOMAIN heap /\ Stored(l, r).stored[2] \in DOMAIN heap
      BY <2>1 DEF Stored, IInv
    <2> QED  BY <2>1, <2>2, NewObjectKeepsWork
  <1>3. CASE NewMade
    <2>1. PICK x \in Generated : NewObject(Made(x))
      BY <1>3 DEF NewMade
    <2>2. DOMAIN Made(x) # {"stored"}
      BY DEF Made
    <2> QED  BY <2>1, <2>2, NewObjectKeepsWork
  <1>4. PICK rank, W : Acyclic(rank) /\ Waiting(W, rank) /\ Called(W)
    BY DEF WorkInv
  <1>5. CASE Forget \/ NewCache
    <2>1. Idle /\ UNCHANGED <<obj_list, calls>>
      BY <1>5 DEF Forget, NewCache
    <2>2. obj_list' = <<>> /\ calls' = NoCalls
      BY <2>1 DEF IInv, WorkInv
    <2>3. PICK roots : roots \subseteq DOMAIN heap /\ Collect(roots)
      <3>1. CASE Forget
        <4>1. PICK o \in held : Collect((held \ {o}) \cup NodesKept)
          BY <3>1 DEF Forget
        <4>2. (held \ {o}) \cup NodesKept \subseteq DOMAIN heap
          BY DEF NodesKept, IInv
        <4> QED  BY <4>1, <4>2
      <3>2. CASE NewCache
        <4>1. Collect(held) /\ held \subseteq DOMAIN heap
          BY <3>2 DEF NewCache, IInv
        <4> QED  BY <4>1
      <3> QED  BY <1>5, <3>1, <3>2
    <2>4. DOMAIN heap' \subseteq DOMAIN heap /\ \A o \in DOMAIN heap' : heap'[o] = heap[o]
      <3>1. Reachable(roots) \subseteq DOMAIN heap
        BY DEF Reachable
      <3> QED  BY <2>3, <3>1 DEF Collect
    <2>5. Acyclic(rank)'
      BY <1>4, <2>4 DEF Acyclic, IsStored, Left, Right
    <2> QED  BY <2>2, <2>5, NoWork
  <1>6. CASE Get
    <2>1. PICK o \in held : asked' = o /\ obj_list' = <<o>> /\ o # NoId
      BY <1>6, NoIdAssumption DEF Get, IInv
    <2>2. calls = NoCalls /\ UNCHANGED <<heap, held, lookup, calls>>
      BY <1>6 DEF Get, WorkInv
    <2>3. Acyclic(rank)'
      BY <1>4, <2>2 DEF Acyclic, IsStored, Left, Right
    <2>4. Waiting({}, rank)'
      <3>1. \A j \in 1..Len(obj_list') : j = 1
        BY <2>1
      <3> QED  BY <3>1 DEF Waiting
    <2>5. Called({})'
      <3>1. calls' \in [Ids -> Nat] /\ \A q \in Ids : calls'[q] = 0
        BY <2>2 DEF NoCalls
      <3>2. DOMAIN heap' \subseteq Ids
        BY DEF IInv
      <3> QED  BY <3>1, <3>2 DEF Called
    <2>6. ~Idle'
      BY <2>1 DEF Idle
    <2>7. \E q, U : Acyclic(q)' /\ Waiting(U, q)' /\ Called(U)'
      BY <2>3, <2>4, <2>5
    <2> QED  BY <2>6, <2>7 DEF WorkInv
  <1>7. CASE Work
    BY <1>7, WorkKeepsWork
  <1>8. CASE UNCHANGED vars
    <2>1. UNCHANGED <<heap, held, lookup, obj_list, asked, calls>>
      BY <1>8 DEF vars
    <2>2. Acyclic(rank)' /\ Waiting(W, rank)' /\ Called(W)'
      BY <1>4, <2>1 DEF Acyclic, Waiting, Called, WaitsAt, IsStored, IsMadePair, IsMade,
                        Left, Right, contains
    <2>3. \E q, U : Acyclic(q)' /\ Waiting(U, q)' /\ Called(U)'
      BY <2>2
    <2> QED  BY <2>1, <2>3 DEF WorkInv, Idle
  <1> QED  BY <1>1, <1>2, <1>3, <1>5, <1>6, <1>7, <1>8 DEF Next

-----------------------------------------------------------------------------
\* Of the numbers up to n each but 1 comes next or second after one of V.
LEMMA TwoForEach ==
    ASSUME NEW n \in Nat, NEW V, IsFiniteSet(V), V \subseteq 1..n,
           \A j \in 1..n : j = 1 \/ \E i \in V : j = i + 1 \/ j = i + 2
    PROVE  n <= (2 * Cardinality(V)) + 1
  <1> DEFINE A == { i + 1 : i \in V }
             B == { i + 2 : i \in V }
             c == Cardinality(V)
  <1>1. c \in Nat
    BY FS_CardinalityType
  <1>2. IsFiniteSet(A) /\ Cardinality(A) <= c /\ Cardinality(A) \in Nat
    <2> DEFINE f == [i \in V |-> i + 1]
    <2>1. f \in Surjection(V, A)
      BY DEF Surjection
    <2> HIDE DEF f, A
    <2>2. IsFiniteSet(A) /\ Cardinality(A) <= c
      BY <2>1, FS_Surjection
    <2> QED  BY <2>2, FS_CardinalityType
  <1>3. IsFiniteSet(B) /\ Cardinality(B) <= c /\ Cardinality(B) \in Nat
    <2> DEFINE f == [i \in V |-> i + 2]
    <2>1. f \in Surjection(V, B)
      BY DEF Surjection
    <2> HIDE DEF f, B
    <2>2. IsFiniteSet(B) /\ Cardinality(B) <= c
      BY <2>1, FS_Surjection
    <2> QED  BY <2>2, FS_CardinalityType
  <1> DEFINE C == (A \cup B) \cup {1}
  <1>4. 1..n \subseteq C
    OBVIOUS
  <1> HIDE DEF A, B
  <1>5. /\ IsFiniteSet(A \cup B) /\ Cardinality(A \cup B) \in Nat
        /\ Cardinality(A \cup B) <= c + c
    <2>1. /\ IsFiniteSet(A \cup B)
          /\ Cardinality(A \cup B) = Cardinality(A) + Cardinality(B) - Cardinality(A \cap B)
      BY <1>2, <1>3, FS_Union
    <2>2. Cardinality(A \cap B) \in Nat
      <3>1. A \cap B \in SUBSET A
        OBVIOUS
      <3>2. IsFiniteSet(A \cap B)
        BY <1>2, <3>1, FS_Subset
      <3> QED  BY <3>2, FS_CardinalityType
    <2>3. Cardinality(A \cup B) \in Nat
      BY <2>1, FS_CardinalityType
    <2> HIDE DEF c
    <2> QED  BY <1>1, <1>2, <1>3, <2>1, <2>2, <2>3
  <1>6. IsFiniteSet(C) /\ Cardinality(C) <= (c + c) + 1 /\ Cardinality(C) \in Nat
    <2>1. /\ IsFiniteSet(C)
          /\ Cardinality(C) = IF 1 \in A \cup B THEN Cardinality(A \cup B)
                              ELSE Cardinality(A \cup B) + 1
      BY <1>5, FS_AddElement
    <2> HIDE DEF c, C
    <2> QED  BY <1>1, <1>5, <2>1
  <1> HIDE DEF C
  <1>7. Cardinality(1..n) = n /\ Cardinality(1..n) <= Cardinality(C)
    <2>1. Cardinality(1..n) = IF 1 > n THEN 0 ELSE n - 1 + 1
      BY FS_Interval
    <2>2. Cardinality(1..n) = n
      BY <2>1
    <2>3. Cardinality(1..n) <= Cardinality(C)
      BY <1>4, <1>6, FS_Subset
    <2> QED  BY <2>2, <2>3
  <1> HIDE DEF c
  <1>8. n <= (2 * c) + 1
    BY <1>1, <1>6, <1>7
  <1> QED  BY <1>8 DEF c

\* WorkIsBounded: however often an object is shared, f is called for an atom
\* once and for a pair that stores its children at most twice, and obj_list has
\* less than two objects for every object there is.
THEOREM WorkIsBoundedHolds == Spec => []WorkIsBounded
  <1>1. IInv /\ WorkInv => CalledTwiceAtMost
    BY DEF WorkInv, Called, CalledTwiceAtMost
  <1>2. IInv /\ WorkInv => ListIsShort
    <2> SUFFICES ASSUME IInv, WorkInv PROVE ListIsShort
      OBVIOUS
    <2>1. PICK rank, W : Acyclic(rank) /\ Waiting(W, rank)
      BY DEF WorkInv
    <2> DEFINE n == Len(obj_list)
               V == W \ {n}
               U == V \cup {n}
               c == Cardinality(V)
               I == Cardinality(Ids)
    <2>2. /\ n \in Nat /\ obj_list \in Seq(DOMAIN heap) /\ DOMAIN heap \subseteq Ids
          /\ \A i \in 1..n : obj_list[i] \in Ids
      BY DEF IInv
    <2>3. /\ W \subseteq 1..n
          /\ \A j \in 1..n : j = 1 \/ \E i \in W : j = i + 1 \/ j = i + 2
          /\ \A i \in W, j \in 1..n : i < j => rank[obj_list[j]] < rank[obj_list[i]]
          /\ rank \in [Ids -> Int]
      BY <2>1 DEF Waiting, Acyclic
    <2>4. I \in Nat /\ I # 0 /\ IsFiniteSet(Ids)
      <3>1. IsFiniteSet(Ids) /\ Ids # {}
        BY IdsAssumption
      <3> QED  BY <3>1, FS_CardinalityType, FS_EmptySet
    <2>5. CASE n = 0
      <3> HIDE DEF I
      <3>1. 0 <= 2 * I - 1
        BY <2>4
      <3> QED  BY <2>5, <3>1 DEF ListIsShort, I
    <2>6. CASE n # 0
      <3> HIDE DEF n
      <3>1. U \subseteq 1..n /\ V \subseteq 1..n /\ n \in 1..n
        BY <2>2, <2>3, <2>6
      <3>2. IsFiniteSet(V) /\ IsFiniteSet(U)
        <4>1. IsFiniteSet(1..n)
          BY <2>2, FS_Interval
        <4> QED  BY <3>1, <4>1, FS_Subset
      <3>3. c \in Nat /\ Cardinality(U) = c + 1
        <4>1. c \in Nat
          BY <3>2, FS_CardinalityType
        <4>2. n \notin V
          OBVIOUS
        <4> HIDE DEF V
        <4> QED  BY <3>2, <4>1, <4>2, FS_AddElement
      <3>4. n <= (2 * c) + 1
        <4>1. \A j \in 1..n : j = 1 \/ \E i \in V : j = i + 1 \/ j = i + 2
          <5>1. ASSUME NEW j \in 1..n, j # 1 PROVE \E i \in V : j = i + 1 \/ j = i + 2
            <6>1. PICK i \in W : j = i + 1 \/ j = i + 2
              BY <2>3, <5>1
            <6>2. i # n
              BY <2>2, <2>3, <6>1
            <6> QED  BY <6>1, <6>2
          <5> QED  BY <5>1
        <4> HIDE DEF V
        <4> QED  BY <2>2, <3>1, <3>2, <4>1, TwoForEach
      <3>5. c + 1 <= I
        <4> DEFINE g == [i \in U |-> obj_list[i]]
        <4>1. \A i, j \in U : obj_list[i] = obj_list[j] => i = j
          <5>1. ASSUME NEW i \in U, NEW j \in U, i < j PROVE obj_list[i] # obj_list[j]
            <6>1. i \in 1..n /\ j \in 1..n /\ i # n
              BY <2>2, <3>1, <5>1
            <6>2. i \in W
              BY <6>1
            <6>3. rank[obj_list[j]] < rank[obj_list[i]]
              BY <2>3, <5>1, <6>1, <6>2
            <6>4. rank[obj_list[i]] \in Int /\ rank[obj_list[j]] \in Int
              BY <2>2, <2>3, <6>1
            <6> QED  BY <6>3, <6>4
          <5>2. ASSUME NEW i \in U, NEW j \in U, i # j PROVE i < j \/ j < i
            <6>1. i \in Nat /\ j \in Nat
              BY <3>1
            <6> QED  BY <5>2, <6>1
          <5> QED  BY <5>1, <5>2, Zenon
        <4>2. g \in [U -> Ids]
          BY <2>2, <3>1
        <4>3. g \in Injection(U, Ids)
          <5>1. \A i, j \in U : g[i] = g[j] => i = j
            BY <4>1
          <5> HIDE DEF g, U
          <5> QED  BY <4>2, <5>1 DEF Injection, IsInjective
        <4>4. Cardinality(U) <= I
          <5> HIDE DEF g, U
          <5> QED  BY <2>4, <4>3, FS_Injection
        <4> QED  BY <3>3, <4>4
      <3> HIDE DEF c, I
      <3>6. n <= 2 * I - 1
        BY <2>2, <2>4, <3>3, <3>4, <3>5
      <3> QED  BY <3>6 DEF ListIsShort, n, I
    <2> QED  BY <2>5, <2>6
  <1>3. IInv /\ WorkInv => WorkIsBounded
    BY <1>1, <1>2 DEF WorkIsBounded
  <1>4. Init => IInv /\ WorkInv
    BY InitIInv, InitWorkInv
  <1>5. IInv /\ WorkInv /\ [Next]_vars => (IInv /\ WorkInv)'
    BY NextIInv, NextWorkInv
  <1> QED  BY <1>3, <1>4, <1>5, PTL DEF Spec
=============================================================================
