------------------------ MODULE LookupClientProofs ------------------------
(***************************************************************************)
(* Proofs about LookupClient, for every set of atoms and every bound.      *)
(***************************************************************************)
EXTENDS LookupClient, DataFacts, TLAPS
-----------------------------------------------------------------------------
(***************************************************************************)
(* pop2_and_cons as a whole                                                *)
(***************************************************************************)
LEMMA ConsStack ==
    ASSUME NEW r, Good(r), Len(r.read_stack) >= 2
    PROVE  LET p        == Pop2AndConsOn(r)
               n        == Len(r.read_stack)
               left     == r.read_stack[n - 1].obj
               right    == r.read_stack[n].obj
               base     == RootAfter(r, n - 2)
               cons     == HashPair(left, right)
               new_root == HashPair(cons, base)
           IN  /\ n \in Nat \ {0, 1} /\ Len(p.read_stack) = n - 1
               /\ \A i \in 1..(n - 2) : p.read_stack[i] = r.read_stack[i]
               /\ p.read_stack[n - 1] = [obj |-> cons, root |-> base]
               /\ RootAfter(p, n - 1) = new_root
               /\ \A i \in 0..(n - 2) : RootAfter(p, i) = RootAfter(r, i)
               /\ p.root_hash = new_root
               /\ p.links = r.links \cup { Link(left, cons, LEFT), Link(right, cons, RIGHT),
                                           Link(cons, new_root, LEFT), Link(base, new_root, RIGHT) }
               /\ \A x : Extra(p, x) = Extra(r, x) + (IF x = left THEN 1 ELSE 0)
                                                   + (IF x = right THEN 1 ELSE 0)
               /\ DOMAIN p.count = DOMAIN r.count \cup { left, right, cons, new_root, r.root_hash,
                                                         RootAfter(r, n - 1) }
  <1> DEFINE n    == Len(r.read_stack)
             once == PopFrom(r)
             down == PopFrom(once)
             left == r.read_stack[n - 1].obj
             right == r.read_stack[n].obj
             base == RootAfter(r, n - 2)
             cons == HashPair(left, right)
             with == Linked(down, left, right)
             p    == Pop2AndConsOn(r)
  <1>1. n \in Nat \ {0, 1} /\ n > 0
    <2>1. n \in Nat
      BY DEF Good, ShapeOK
    <2>2. n >= 2
      OBVIOUS
    <2> HIDE DEF n
    <2> QED  BY <2>1, <2>2
  <1>2. /\ Good(once) /\ Len(once.read_stack) = n - 1
        /\ \A i \in 1..(n - 1) : once.read_stack[i] = r.read_stack[i]
        /\ \A i \in 0..(n - 1) : RootAfter(once, i) = RootAfter(r, i)
        /\ \A x : Extra(once, x) = Extra(r, x)
    BY <1>1, PopStack, PopKeepsGood
  <1>3. /\ once.root_hash = Top(r).root /\ once.links = r.links
        /\ DOMAIN once.count = DOMAIN r.count \cup {Top(r).obj, r.root_hash}
    BY ShapeIsLookup, PopFacts, PopDomain DEF Good
  <1>4. Top(r).obj = right /\ Top(r).root = RootAfter(r, n - 1)
    BY <1>1 DEF Top, RootAfter
  <1> HIDE DEF once
  <1>5. Top(once).obj = left /\ Top(once).root = base
    <2>1. Top(once) = r.read_stack[n - 1]
      BY <1>1, <1>2 DEF Top
    <2>2. n - 2 # n /\ (n - 2) + 1 = n - 1
      BY <1>1
    <2>3. base = r.read_stack[n - 1].root
      BY <2>2, Zenon DEF RootAfter
    <2> QED  BY <2>1, <2>3
  <1>6. /\ Good(down) /\ Len(down.read_stack) = n - 2
        /\ \A i \in 1..(n - 2) : down.read_stack[i] = r.read_stack[i]
        /\ \A i \in 0..(n - 2) : RootAfter(down, i) = RootAfter(r, i)
        /\ \A x : Extra(down, x) = Extra(r, x)
    <2>1. Len(once.read_stack) > 0 /\ (n - 1) - 1 = n - 2
      BY <1>1, <1>2
    <2>2. /\ Good(down) /\ Len(down.read_stack) = (n - 1) - 1
          /\ \A i \in 1..((n - 1) - 1) : down.read_stack[i] = once.read_stack[i]
          /\ \A i \in 0..((n - 1) - 1) : RootAfter(down, i) = RootAfter(once, i)
          /\ \A x : Extra(down, x) = Extra(once, x)
      BY <1>2, <2>1, PopStack, PopKeepsGood
    <2>3. \A i \in 1..(n - 2) : i \in 1..(n - 1)
      BY <1>1
    <2>4. \A i \in 0..(n - 2) : i \in 0..(n - 1)
      BY <1>1
    <2> QED  BY <1>2, <2>1, <2>2, <2>3, <2>4
  <1>7. /\ down.root_hash = base /\ down.links = r.links
        /\ DOMAIN down.count = DOMAIN r.count \cup {left, right, r.root_hash, RootAfter(r, n - 1)}
    <2>1. /\ down.root_hash = Top(once).root /\ down.links = once.links
          /\ DOMAIN down.count = DOMAIN once.count \cup {Top(once).obj, once.root_hash}
      BY <1>2, ShapeIsLookup, PopFacts, PopDomain DEF Good
    <2> QED  BY <1>3, <1>4, <1>5, <2>1
  <1> HIDE DEF down
  <1>8. /\ Good(with)
        /\ with.root_hash = base /\ with.read_stack = down.read_stack
        /\ with.links = r.links \cup { Link(left, cons, LEFT), Link(right, cons, RIGHT) }
        /\ \A i : RootAfter(with, i) = RootAfter(down, i)
        /\ \A x : Extra(with, x) = Extra(r, x) + (IF x = left THEN 1 ELSE 0)
                                               + (IF x = right THEN 1 ELSE 0)
        /\ DOMAIN with.count = DOMAIN r.count \cup {left, right, r.root_hash, RootAfter(r, n - 1)}
    <2> HIDE DEF left, right, base
    <2>1. Good(with)
      BY <1>6, LinkKeepsGood
    <2>2. /\ with.root_hash = down.root_hash /\ with.read_stack = down.read_stack
          /\ with.links = down.links \cup { Link(left, cons, LEFT), Link(right, cons, RIGHT) }
          /\ \A i : RootAfter(with, i) = RootAfter(down, i)
          /\ \A x : Extra(with, x) = Extra(down, x) + (IF x = left THEN 1 ELSE 0)
                                                    + (IF x = right THEN 1 ELSE 0)
          /\ DOMAIN with.count = DOMAIN down.count \cup {left, right}
      BY <1>6, LinkStack
    <2> HIDE DEF with, cons
    <2> QED  BY <1>6, <1>7, <2>1, <2>2
  <1>9. p = PushTo(with, cons)
    BY <1>4, <1>5, Zenon DEF Pop2AndConsOn, once, down, with, Linked
  <1> HIDE DEF left, right, base, with, p
  <1> DEFINE new_root == HashPair(cons, base)
  <1>10. /\ Len(p.read_stack) = (n - 2) + 1
         /\ \A i \in 1..(n - 2) : p.read_stack[i] = with.read_stack[i]
         /\ p.read_stack[(n - 2) + 1] = [obj |-> cons, root |-> base]
         /\ RootAfter(p, (n - 2) + 1) = new_root
         /\ \A i \in 0..(n - 2) : RootAfter(p, i) = RootAfter(with, i)
         /\ \A x : Extra(p, x) = Extra(with, x)
    <2>1. Len(with.read_stack) = n - 2
      BY <1>6, <1>8
    <2> HIDE DEF cons, n
    <2> QED  BY <1>8, <1>9, <2>1, PushStack
  <1>11. /\ p.root_hash = new_root
         /\ p.links = with.links \cup { Link(cons, new_root, LEFT), Link(base, new_root, RIGHT) }
         /\ DOMAIN p.count = DOMAIN with.count \cup {cons, new_root}
    <2> HIDE DEF cons
    <2>1. IsLookup(with)
      BY <1>8, ShapeIsLookup DEF Good
    <2> QED  BY <1>8, <1>9, <2>1, PushFacts, PushDomain
  <1>12. (n - 2) + 1 = n - 1
    BY <1>1
  <1> HIDE DEF n, cons, new_root
  <1>13. /\ n \in Nat \ {0, 1} /\ Len(p.read_stack) = n - 1
         /\ \A i \in 1..(n - 2) : p.read_stack[i] = r.read_stack[i]
         /\ p.read_stack[n - 1] = [obj |-> cons, root |-> base]
         /\ RootAfter(p, n - 1) = new_root
         /\ \A i \in 0..(n - 2) : RootAfter(p, i) = RootAfter(r, i)
         /\ p.root_hash = new_root
    BY <1>1, <1>6, <1>8, <1>10, <1>11, <1>12
  <1>14. p.links = r.links \cup { Link(left, cons, LEFT), Link(right, cons, RIGHT),
                                  Link(cons, new_root, LEFT), Link(base, new_root, RIGHT) }
    BY <1>8, <1>11
  <1>15. /\ \A x : Extra(p, x) = Extra(r, x) + (IF x = left THEN 1 ELSE 0)
                                             + (IF x = right THEN 1 ELSE 0)
         /\ DOMAIN p.count = DOMAIN r.count \cup { left, right, cons, new_root, r.root_hash,
                                                   RootAfter(r, n - 1) }
    BY <1>8, <1>10, <1>11
  <1> QED  BY <1>13, <1>14, <1>15 DEF n, left, right, base, cons, new_root, p

-----------------------------------------------------------------------------
(***************************************************************************)
(* What a lookup keeps of the objects that were pushed, and of no other.   *)
(***************************************************************************)
\* a set of hashes that has the children of its pairs
ChildClosed(X) == \A x \in X : IsPairHash(x) => Range(x.pair_hash) \subseteq X

LEMMA PairHashes ==
    ASSUME NEW a, NEW b
    PROVE  /\ IsPairHash(HashPair(a, b)) /\ Range(HashPair(a, b).pair_hash) = {a, b}
           /\ ~IsPairHash(HashAtom(a))
  <1>1. IsPairHash(HashPair(a, b)) /\ HashPair(a, b).pair_hash = <<a, b>>
    BY DEF IsPairHash, HashPair
  <1>2. Range(<<a, b>>) = {a, b}
    <2> DEFINE s == <<a, b>>
    <2>1. DOMAIN s = {1, 2} /\ s[1] = a /\ s[2] = b
      OBVIOUS
    <2> HIDE DEF s
    <2>2. Range(s) = {a, b}
      BY <2>1 DEF Range
    <2> QED  BY <2>2 DEF s
  <1>3. ~IsPairHash(HashAtom(a))
    BY DEF IsPairHash, HashAtom
  <1> QED  BY <1>1, <1>2, <1>3

\* every place on the stack is linked to the root that its push made
StackLinked(r) ==
    \A i \in StackIndices(r) :
        /\ Link(r.read_stack[i].obj, RootAfter(r, i), LEFT) \in r.links
        /\ Link(RootAfter(r, i - 1), RootAfter(r, i), RIGHT) \in r.links

\* the objects pushed so far: the left children
PushedOn(r) == { l.child : l \in { k \in r.links : k.dir = LEFT } }

\* what was pushed and left the stack is counted as the child of a pair
WasConsed(r) == \A h \in PushedOn(r) : OnStack(r, h) = {} => Extra(r, h) >= 1

\* a set that has the pushed parents of its members
ClosedUp(r, X) == \A l \in r.links : (l.child \in X /\ l.parent \in PushedOn(r)) => l.parent \in X

\* from a pushed object, links to pushed parents lead to an object on the stack
LeadsToStack(r) ==
    \A h \in PushedOn(r) : \A X :
        (h \in X /\ ClosedUp(r, X)) => \E i \in StackIndices(r) : r.read_stack[i].obj \in X

\* what counts as the child of a pair is below an object on the stack
IsBelow(r, h) ==
    \A X : (ChildClosed(X) /\ \A i \in StackIndices(r) : r.read_stack[i].obj \in X) => h \in X

ExtraIsBelow(r) == \A h : Extra(r, h) >= 1 => IsBelow(r, h)

\* the Counter has every hash of the value stack, the first nil excepted
Known(r) == DOMAIN r.count \cup {HashAtom(<<>>)}

AllKnown(r) ==
    /\ ChildClosed(Known(r))
    /\ r.root_hash \in Known(r)
    /\ \A i \in StackIndices(r) : r.read_stack[i].obj \in Known(r) /\ r.read_stack[i].root \in Known(r)
    /\ \A l \in r.links : l.child \in Known(r)

Tracks(r) == /\ StackLinked(r) /\ WasConsed(r) /\ LeadsToStack(r)
             /\ ExtraIsBelow(r) /\ AllKnown(r)

LEMMA NewTracks == Tracks(NewLookup)
  <1> DEFINE r == NewLookup
  <1>1. r.read_stack = <<>> /\ r.links = {} /\ r.root_hash = HashAtom(<<>>) /\ DOMAIN r.count = {}
    BY DEF NewLookup
  <1> HIDE DEF r
  <1>2. StackIndices(r) = {}
    <2>1. Len(<<>>) = 0
      OBVIOUS
    <2> QED  BY <1>1, <2>1 DEF StackIndices
  <1>3. PushedOn(r) = {} /\ Known(r) = {HashAtom(<<>>)}
    BY <1>1 DEF PushedOn, Known
  <1>4. \A h : Extra(r, h) = 0
    <2>1. ASSUME NEW h PROVE OnStack(r, h) = {} /\ Spine(r, h) = {} /\ Count(r, h) = 0
      BY <1>1, <1>2 DEF OnStack, Spine, Count
    <2> QED  BY <2>1, FS_EmptySet DEF Extra
  <1>5. AllKnown(r)
    BY <1>1, <1>2, <1>3, PairHashes, Zenon DEF AllKnown, ChildClosed
  <1>6. StackLinked(r) /\ WasConsed(r) /\ LeadsToStack(r)
    BY <1>2, <1>3 DEF StackLinked, WasConsed, LeadsToStack
  <1>7. ExtraIsBelow(r)
    BY <1>4 DEF ExtraIsBelow
  <1>8. Tracks(r)
    BY <1>5, <1>6, <1>7 DEF Tracks
  <1> QED  BY <1>8 DEF r

\* An atom can be pushed, and whatever is counted.
LEMMA PushTracks ==
    ASSUME NEW r, Good(r), Tracks(r), NEW h, h \in Known(r) \/ ~IsPairHash(h)
    PROVE  Tracks(PushTo(r, h))
  <1> DEFINE p == PushTo(r, h)
             n == Len(r.read_stack)
             new_root == HashPair(h, r.root_hash)
  <1>1. /\ Len(p.read_stack) = n + 1 /\ n \in Nat
        /\ \A i \in 1..n : p.read_stack[i] = r.read_stack[i]
        /\ p.read_stack[n + 1] = [obj |-> h, root |-> r.root_hash]
        /\ RootAfter(p, n + 1) = new_root
        /\ \A i \in 0..n : RootAfter(p, i) = RootAfter(r, i)
        /\ \A x : Extra(p, x) = Extra(r, x)
    BY PushStack
  <1>2. /\ p.root_hash = new_root
        /\ p.links = r.links \cup { Link(h, new_root, LEFT), Link(r.root_hash, new_root, RIGHT) }
        /\ DOMAIN p.count = DOMAIN r.count \cup {h, new_root}
    BY ShapeIsLookup, PushFacts, PushDomain DEF Good
  <1>3. RootAfter(r, n) = r.root_hash
    BY DEF RootAfter
  <1>k. IsPairHash(new_root) /\ Range(new_root.pair_hash) = {h, r.root_hash}
    BY PairHashes
  <1> HIDE DEF p, n, new_root
  <1>4. StackIndices(r) = 1..n /\ StackIndices(p) = 1..(n + 1)
    BY <1>1 DEF StackIndices, n
  <1>5. 1..n \subseteq 1..(n + 1) /\ n + 1 \in 1..(n + 1) /\ \A i \in 1..(n + 1) : i = n + 1 \/ i \in 1..n
    BY <1>1
  <1>6. p.read_stack[n + 1].obj = h /\ p.read_stack[n + 1].root = r.root_hash
    BY <1>1
  <1>7. PushedOn(p) = PushedOn(r) \cup {h}
    <2>1. Link(h, new_root, LEFT).dir = LEFT /\ Link(h, new_root, LEFT).child = h
      BY DEF Link
    <2>2. Link(r.root_hash, new_root, RIGHT).dir # LEFT
      BY DEF Link, LEFT, RIGHT
    <2>3. ASSUME NEW x \in PushedOn(p) PROVE x \in PushedOn(r) \cup {h}
      <3>1. PICK l \in p.links : l.dir = LEFT /\ l.child = x
        BY <2>3 DEF PushedOn
      <3> QED  BY <1>2, <2>1, <2>2, <3>1, Zenon DEF PushedOn
    <2>4. PushedOn(r) \subseteq PushedOn(p) /\ h \in PushedOn(p)
      BY <1>2, <2>1, Zenon DEF PushedOn
    <2> QED  BY <2>3, <2>4
  <1>8. StackLinked(p)
    <2>1. ASSUME NEW i \in 1..(n + 1)
          PROVE  /\ Link(p.read_stack[i].obj, RootAfter(p, i), LEFT) \in p.links
                 /\ Link(RootAfter(p, i - 1), RootAfter(p, i), RIGHT) \in p.links
      <3>1. CASE i = n + 1
        <4>1. i - 1 = n /\ n \in 0..n
          BY <1>1, <3>1
        <4> QED  BY <1>1, <1>2, <1>3, <1>6, <3>1, <4>1, Zenon
      <3>2. CASE i # n + 1
        <4>1. i \in 1..n /\ i \in 0..n /\ i - 1 \in 0..n
          BY <1>1, <3>2
        <4>2. /\ Link(r.read_stack[i].obj, RootAfter(r, i), LEFT) \in r.links
              /\ Link(RootAfter(r, i - 1), RootAfter(r, i), RIGHT) \in r.links
          BY <1>4, <4>1, Zenon DEF Tracks, StackLinked
        <4> QED  BY <1>1, <1>2, <4>1, <4>2, Zenon
      <3> QED  BY <3>1, <3>2
    <2> QED  BY <1>4, <2>1, Zenon DEF StackLinked
  <1>9. WasConsed(p)
    <2>1. ASSUME NEW x \in PushedOn(p), OnStack(p, x) = {} PROVE Extra(p, x) >= 1
      <3>1. x # h
        BY <1>4, <1>5, <1>6, <2>1 DEF OnStack
      <3>2. OnStack(r, x) = {}
        BY <1>1, <1>4, <1>5, <2>1, Zenon DEF OnStack
      <3> QED  BY <1>1, <1>7, <3>1, <3>2, Zenon DEF Tracks, WasConsed
    <2> QED  BY <2>1, Zenon DEF WasConsed
  <1>10. LeadsToStack(p)
    <2>1. ASSUME NEW x \in PushedOn(p), NEW X, x \in X, ClosedUp(p, X)
          PROVE  \E i \in StackIndices(p) : p.read_stack[i].obj \in X
      <3>1. CASE x = h
        BY <1>4, <1>5, <1>6, <2>1, <3>1, Zenon
      <3>2. CASE x # h
        <4>1. ClosedUp(r, X)
          BY <1>2, <1>7, <2>1, Zenon DEF ClosedUp
        <4>2. PICK i \in 1..n : r.read_stack[i].obj \in X
          BY <1>4, <1>7, <2>1, <3>2, <4>1, Zenon DEF Tracks, LeadsToStack
        <4> QED  BY <1>1, <1>4, <1>5, <4>2, Zenon
      <3> QED  BY <3>1, <3>2
    <2> QED  BY <2>1, Zenon DEF LeadsToStack
  <1>11. ExtraIsBelow(p)
    <2>1. ASSUME NEW x, Extra(p, x) >= 1, NEW X, ChildClosed(X),
                 \A i \in StackIndices(p) : p.read_stack[i].obj \in X
          PROVE  x \in X
      <3>1. \A i \in StackIndices(r) : r.read_stack[i].obj \in X
        BY <1>1, <1>4, <1>5, <2>1, Zenon
      <3>2. IsBelow(r, x)
        BY <1>1, <2>1, Zenon DEF Tracks, ExtraIsBelow
      <3> QED  BY <2>1, <3>1, <3>2, Zenon DEF IsBelow
    <2> QED  BY <2>1, Zenon DEF ExtraIsBelow, IsBelow
  <1>12. AllKnown(p)
    <2>1. Known(p) = Known(r) \cup {h, new_root}
      BY <1>2 DEF Known
    <2>2. AllKnown(r)
      BY DEF Tracks
    <2>3. ChildClosed(Known(p))
      <3>1. ASSUME NEW x \in Known(p), IsPairHash(x) PROVE Range(x.pair_hash) \subseteq Known(p)
        <4>1. CASE x \in Known(r)
          BY <2>1, <2>2, <3>1, <4>1 DEF AllKnown, ChildClosed
        <4>2. CASE x = new_root
          BY <1>k, <2>1, <2>2, <4>2 DEF AllKnown
        <4> QED  BY <2>1, <3>1, <4>1, <4>2
      <3> QED  BY <3>1, Zenon DEF ChildClosed
    <2>4. p.root_hash \in Known(p)
      BY <1>2, <2>1
    <2>5. ASSUME NEW i \in 1..(n + 1)
          PROVE  p.read_stack[i].obj \in Known(p) /\ p.read_stack[i].root \in Known(p)
      <3>1. CASE i = n + 1
        BY <1>6, <2>1, <2>2, <3>1 DEF AllKnown
      <3>2. CASE i \in 1..n
        BY <1>1, <1>4, <2>1, <2>2, <3>2 DEF AllKnown
      <3> QED  BY <1>5, <3>1, <3>2
    <2>6. ASSUME NEW l \in p.links PROVE l.child \in Known(p)
      <3>1. CASE l \in r.links
        BY <2>1, <2>2, <3>1 DEF AllKnown
      <3>2. CASE l = Link(h, new_root, LEFT)
        BY <2>1, <3>2 DEF Link
      <3>3. CASE l = Link(r.root_hash, new_root, RIGHT)
        BY <2>1, <2>2, <3>3 DEF AllKnown, Link
      <3> QED  BY <1>2, <3>1, <3>2, <3>3
    <2> QED  BY <1>4, <2>3, <2>4, <2>5, <2>6, Zenon DEF AllKnown
  <1>13. Tracks(p)
    BY <1>8, <1>9, <1>10, <1>11, <1>12 DEF Tracks
  <1> QED  BY <1>13 DEF p

LEMMA ConsTracks ==
    ASSUME NEW r, Good(r), Tracks(r), Len(r.read_stack) >= 2
    PROVE  Tracks(Pop2AndConsOn(r))
  <1> DEFINE p        == Pop2AndConsOn(r)
             n        == Len(r.read_stack)
             left     == r.read_stack[n - 1].obj
             right    == r.read_stack[n].obj
             base     == RootAfter(r, n - 2)
             cons     == HashPair(left, right)
             new_root == HashPair(cons, base)
  <1>1. /\ n \in Nat \ {0, 1} /\ Len(p.read_stack) = n - 1
        /\ \A i \in 1..(n - 2) : p.read_stack[i] = r.read_stack[i]
        /\ p.read_stack[n - 1] = [obj |-> cons, root |-> base]
        /\ RootAfter(p, n - 1) = new_root
        /\ \A i \in 0..(n - 2) : RootAfter(p, i) = RootAfter(r, i)
        /\ p.root_hash = new_root
    BY ConsStack
  <1>2. /\ p.links = r.links \cup { Link(left, cons, LEFT), Link(right, cons, RIGHT),
                                    Link(cons, new_root, LEFT), Link(base, new_root, RIGHT) }
        /\ \A x : Extra(p, x) = Extra(r, x) + (IF x = left THEN 1 ELSE 0)
                                            + (IF x = right THEN 1 ELSE 0)
        /\ DOMAIN p.count = DOMAIN r.count \cup { left, right, cons, new_root, r.root_hash,
                                                  RootAfter(r, n - 1) }
    BY ConsStack
  <1>k. /\ IsPairHash(new_root) /\ Range(new_root.pair_hash) = {cons, base}
        /\ IsPairHash(cons) /\ Range(cons.pair_hash) = {left, right}
    BY PairHashes
  <1>r. r.read_stack[n - 1].root = base /\ r.read_stack[n].root = RootAfter(r, n - 1)
    <2>1. n - 2 # n /\ (n - 2) + 1 = n - 1 /\ n - 1 # n /\ (n - 1) + 1 = n
      BY <1>1
    <2> QED  BY <2>1, Zenon DEF RootAfter
  <1>o. r.read_stack[n - 1].obj = left /\ r.read_stack[n].obj = right
    OBVIOUS
  <1> HIDE DEF p, n, left, right, base, cons, new_root
  <1>4. StackIndices(r) = 1..n /\ StackIndices(p) = 1..(n - 1)
    BY <1>1 DEF StackIndices, n
  <1>5. /\ 1..(n - 2) \subseteq 1..(n - 1) /\ n - 1 \in 1..(n - 1) /\ n - 1 \in 1..n /\ n \in 1..n
        /\ \A i \in 1..(n - 1) : i = n - 1 \/ i \in 1..(n - 2)
        /\ \A i \in 1..n : i = n \/ i = n - 1 \/ i \in 1..(n - 2)
        /\ 1..(n - 2) \subseteq 1..n
    BY <1>1
  <1>6. p.read_stack[n - 1].obj = cons /\ p.read_stack[n - 1].root = base
    BY <1>1
  <1>7. PushedOn(p) = PushedOn(r) \cup {left, cons}
    <2>1. /\ Link(left, cons, LEFT).dir = LEFT /\ Link(left, cons, LEFT).child = left
          /\ Link(cons, new_root, LEFT).dir = LEFT /\ Link(cons, new_root, LEFT).child = cons
      BY DEF Link
    <2>2. Link(right, cons, RIGHT).dir # LEFT /\ Link(base, new_root, RIGHT).dir # LEFT
      BY DEF Link, LEFT, RIGHT
    <2>3. ASSUME NEW x \in PushedOn(p) PROVE x \in PushedOn(r) \cup {left, cons}
      <3>1. PICK l \in p.links : l.dir = LEFT /\ l.child = x
        BY <2>3 DEF PushedOn
      <3> QED  BY <1>2, <2>1, <2>2, <3>1, Zenon DEF PushedOn
    <2>4. PushedOn(r) \subseteq PushedOn(p)
      BY <1>2, Zenon DEF PushedOn
    <2>5. left \in PushedOn(p) /\ cons \in PushedOn(p)
      BY <1>2, <2>1, Zenon DEF PushedOn
    <2> QED  BY <2>3, <2>4, <2>5
  <1>c. \A x : IsLookup(r) /\ Extra(r, x) \in Int /\ Extra(r, x) >= 0
    <2>1. IsLookup(r) /\ Len(r.read_stack) \in Nat
      BY <1>1, ShapeIsLookup DEF Good, n
    <2> QED  BY <2>1, CoveredIsExtra DEF Good
  <1>d. \A x : /\ x \in {left, right} => Extra(p, x) >= 1
               /\ x \notin {left, right} => Extra(p, x) = Extra(r, x)
    BY <1>2, <1>c
  <1>8. StackLinked(p)
    <2>1. ASSUME NEW i \in 1..(n - 1)
          PROVE  /\ Link(p.read_stack[i].obj, RootAfter(p, i), LEFT) \in p.links
                 /\ Link(RootAfter(p, i - 1), RootAfter(p, i), RIGHT) \in p.links
      <3>1. CASE i = n - 1
        <4>1. i - 1 = n - 2 /\ n - 2 \in 0..(n - 2)
          BY <1>1, <3>1
        <4>2. RootAfter(p, i - 1) = base
          BY <1>1, <4>1, Zenon DEF base
        <4> QED  BY <1>1, <1>2, <1>6, <3>1, <4>2, Zenon
      <3>2. CASE i # n - 1
        <4>1. i \in 1..(n - 2) /\ i \in 0..(n - 2) /\ i - 1 \in 0..(n - 2) /\ i \in 1..n
          BY <1>1, <3>2
        <4>2. /\ Link(r.read_stack[i].obj, RootAfter(r, i), LEFT) \in r.links
              /\ Link(RootAfter(r, i - 1), RootAfter(r, i), RIGHT) \in r.links
          BY <1>4, <4>1, Zenon DEF Tracks, StackLinked
        <4> QED  BY <1>1, <1>2, <4>1, <4>2, Zenon
      <3> QED  BY <3>1, <3>2
    <2> QED  BY <1>4, <2>1, Zenon DEF StackLinked
  <1>9. WasConsed(p)
    <2>1. ASSUME NEW x \in PushedOn(p), OnStack(p, x) = {} PROVE Extra(p, x) >= 1
      <3>1. x # cons
        BY <1>4, <1>5, <1>6, <2>1 DEF OnStack
      <3>2. CASE x \in {left, right}
        BY <1>d, <3>2
      <3>3. CASE x \notin {left, right}
        <4>1. ASSUME NEW i \in OnStack(r, x) PROVE FALSE
          <5>1. i \in 1..n /\ r.read_stack[i].obj = x
            BY <1>4, <4>1 DEF OnStack
          <5>2. i \in 1..(n - 2)
            BY <1>5, <1>o, <3>3, <5>1
          <5>3. i \in OnStack(p, x)
            BY <1>1, <1>4, <1>5, <5>1, <5>2, Zenon DEF OnStack
          <5> QED  BY <2>1, <5>3
        <4>2. x \in PushedOn(r)
          BY <1>7, <2>1, <3>1, <3>3
        <4>3. Extra(r, x) >= 1
          BY <4>1, <4>2, Zenon DEF Tracks, WasConsed
        <4> QED  BY <1>d, <3>3, <4>3
      <3> QED  BY <3>2, <3>3
    <2> QED  BY <2>1, Zenon DEF WasConsed
  <1>10. LeadsToStack(p)
    <2>1. ASSUME NEW x \in PushedOn(p), NEW X, x \in X, ClosedUp(p, X)
          PROVE  \E i \in StackIndices(p) : p.read_stack[i].obj \in X
      <3>0. cons \in X => \E i \in StackIndices(p) : p.read_stack[i].obj \in X
        BY <1>4, <1>5, <1>6, Zenon
      <3>a. left \in X \/ right \in X => cons \in X
        <4>1. /\ Link(left, cons, LEFT) \in p.links /\ Link(right, cons, RIGHT) \in p.links
              /\ cons \in PushedOn(p)
          BY <1>2, <1>7
        <4>2. /\ Link(left, cons, LEFT).child = left /\ Link(left, cons, LEFT).parent = cons
              /\ Link(right, cons, RIGHT).child = right /\ Link(right, cons, RIGHT).parent = cons
          BY DEF Link
        <4> QED  BY <2>1, <4>1, <4>2, Zenon DEF ClosedUp
      <3>1. CASE x \in {left, cons}
        BY <2>1, <3>0, <3>a, <3>1
      <3>2. CASE x \notin {left, cons}
        <4>1. ClosedUp(r, X)
          BY <1>2, <1>7, <2>1, Zenon DEF ClosedUp
        <4>2. x \in PushedOn(r)
          BY <1>7, <2>1, <3>2
        <4>3. PICK i \in 1..n : r.read_stack[i].obj \in X
          BY <1>4, <2>1, <4>1, <4>2, Zenon DEF Tracks, LeadsToStack
        <4>4. CASE i \in 1..(n - 2)
          BY <1>1, <1>4, <1>5, <4>3, <4>4, Zenon
        <4>5. CASE i = n \/ i = n - 1
          BY <1>o, <3>0, <3>a, <4>3, <4>5, Zenon
        <4> QED  BY <1>5, <4>3, <4>4, <4>5
      <3> QED  BY <3>1, <3>2
    <2> QED  BY <2>1, Zenon DEF LeadsToStack
  <1>11. ExtraIsBelow(p)
    <2>1. ASSUME NEW x, Extra(p, x) >= 1, NEW X, ChildClosed(X),
                 \A i \in StackIndices(p) : p.read_stack[i].obj \in X
          PROVE  x \in X
      <3>1. cons \in X
        BY <1>4, <1>5, <1>6, <2>1, Zenon
      <3>2. left \in X /\ right \in X
        BY <1>k, <2>1, <3>1 DEF ChildClosed
      <3>3. ASSUME NEW i \in StackIndices(r) PROVE r.read_stack[i].obj \in X
        <4>1. i = n \/ i = n - 1 \/ i \in 1..(n - 2)
          BY <1>4, <1>5
        <4>2. CASE i \in 1..(n - 2)
          BY <1>1, <1>4, <1>5, <2>1, <4>2, Zenon
        <4>3. CASE i = n \/ i = n - 1
          BY <1>o, <3>2, <4>3, Zenon
        <4> QED  BY <4>1, <4>2, <4>3
      <3>4. CASE x \in {left, right}
        BY <3>2, <3>4
      <3>5. CASE x \notin {left, right}
        <4>1. IsBelow(r, x)
          <5>1. Extra(r, x) >= 1
            BY <1>d, <2>1, <3>5
          <5> QED  BY <5>1, Zenon DEF Tracks, ExtraIsBelow
        <4> QED  BY <2>1, <3>3, <4>1, Zenon DEF IsBelow
      <3> QED  BY <3>4, <3>5
    <2> QED  BY <2>1, Zenon DEF ExtraIsBelow, IsBelow
  <1>12. AllKnown(p)
    <2>1. AllKnown(r)
      BY DEF Tracks
    <2>2. /\ left \in Known(r) /\ right \in Known(r) /\ base \in Known(r)
          /\ RootAfter(r, n - 1) \in Known(r) /\ r.root_hash \in Known(r)
      BY <1>4, <1>5, <1>o, <1>r, <2>1, Zenon DEF AllKnown
    <2>3. Known(p) = Known(r) \cup {cons, new_root}
      BY <1>2, <2>2 DEF Known
    <2>4. ChildClosed(Known(p))
      <3>1. ASSUME NEW x \in Known(p), IsPairHash(x) PROVE Range(x.pair_hash) \subseteq Known(p)
        <4>1. CASE x \in Known(r)
          BY <2>1, <2>3, <3>1, <4>1 DEF AllKnown, ChildClosed
        <4>2. CASE x \in {cons, new_root}
          BY <1>k, <2>2, <2>3, <4>2
        <4> QED  BY <2>3, <3>1, <4>1, <4>2
      <3> QED  BY <3>1, Zenon DEF ChildClosed
    <2>5. p.root_hash \in Known(p)
      BY <1>1, <2>3
    <2>6. ASSUME NEW i \in 1..(n - 1)
          PROVE  p.read_stack[i].obj \in Known(p) /\ p.read_stack[i].root \in Known(p)
      <3>1. CASE i = n - 1
        BY <1>6, <2>2, <2>3, <3>1
      <3>2. CASE i \in 1..(n - 2)
        BY <1>1, <1>4, <1>5, <2>1, <2>3, <3>2 DEF AllKnown
      <3> QED  BY <1>5, <3>1, <3>2
    <2>7. ASSUME NEW l \in p.links PROVE l.child \in Known(p)
      <3>1. CASE l \in r.links
        BY <2>1, <2>3, <3>1 DEF AllKnown
      <3>2. CASE l \in { Link(left, cons, LEFT), Link(right, cons, RIGHT),
                         Link(cons, new_root, LEFT), Link(base, new_root, RIGHT) }
        <4>1. l.child \in {left, right, cons, base}
          BY <3>2 DEF Link
        <4> QED  BY <2>2, <2>3, <4>1
      <3> QED  BY <1>2, <3>1, <3>2
    <2> QED  BY <1>4, <2>4, <2>5, <2>6, <2>7, Zenon DEF AllKnown
  <1>13. Tracks(p)
    BY <1>8, <1>9, <1>10, <1>11, <1>12 DEF Tracks
  <1> QED  BY <1>13 DEF p

-----------------------------------------------------------------------------
(***************************************************************************)
(* The search finds what counted parents lead to the root.                 *)
(***************************************************************************)
\* a set that has the counted parents of its members
CountedUp(r, X) == \A l \in r.links : (l.child \in X /\ Count(r, l.parent) > 0) => l.parent \in X

LeadsToRoot(r, h) == \A X : (h \in X /\ CountedUp(r, X)) => r.root_hash \in X

\* An object that was pushed leads to the root: its pushed parents to the stack,
\* and from there the saved roots.
LEMMA PushedLeads ==
    ASSUME NEW r, Good(r), Tracks(r), NEW h \in PushedOn(r)
    PROVE  LeadsToRoot(r, h)
  <1> SUFFICES ASSUME NEW X, h \in X, CountedUp(r, X) PROVE r.root_hash \in X
    BY DEF LeadsToRoot
  <1> DEFINE n == Len(r.read_stack)
  <1>0. n \in Nat /\ StackIndices(r) = 1..n
    BY DEF Good, ShapeOK, StackIndices
  <1>e. \A x : Extra(r, x) \in Int /\ Extra(r, x) >= 0 /\ Count(r, x) \in Int
    <2>1. IsLookup(r)
      BY ShapeIsLookup DEF Good
    <2>2. \A x : Count(r, x) \in Int
      BY <2>1 DEF IsLookup, Count
    <2> QED  BY <1>0, <2>1, <2>2, CoveredIsExtra DEF Good
  <1>f. \A x : /\ IsFiniteSet(OnStack(r, x)) /\ Cardinality(OnStack(r, x)) \in Nat
               /\ IsFiniteSet(Spine(r, x)) /\ Cardinality(Spine(r, x)) \in Nat
    BY <1>0, IndexSets
  <1>g. \A x : Count(r, x) = Extra(r, x) + Cardinality(OnStack(r, x)) + Cardinality(Spine(r, x))
    BY <1>e, <1>f DEF Extra
  <1>1. ASSUME NEW x \in PushedOn(r) PROVE Count(r, x) > 0
    <2>1. CASE OnStack(r, x) = {}
      <3>1. Extra(r, x) >= 1
        BY <2>1 DEF Tracks, WasConsed
      <3> QED  BY <1>e, <1>f, <1>g, <3>1
    <2>2. CASE OnStack(r, x) # {}
      <3>1. Cardinality(OnStack(r, x)) # 0
        BY <1>f, <2>2, FS_EmptySet
      <3> QED  BY <1>e, <1>f, <1>g, <3>1
    <2> QED  BY <2>1, <2>2
  <1>2. ASSUME NEW i \in 1..n PROVE Count(r, RootAfter(r, i)) > 0
    <2> DEFINE x == RootAfter(r, i)
    <2>1. i \in Spine(r, x)
      BY <1>0 DEF Spine
    <2> HIDE DEF x
    <2>2. Cardinality(Spine(r, x)) # 0
      BY <1>f, <2>1, FS_EmptySet
    <2>3. Count(r, x) > 0
      BY <1>e, <1>f, <1>g, <2>2
    <2> QED  BY <2>3 DEF x
  <1>3. ClosedUp(r, X)
    BY <1>1, Zenon DEF ClosedUp, CountedUp
  <1>4. PICK i \in 1..n : r.read_stack[i].obj \in X
    BY <1>0, <1>3, Zenon DEF Tracks, LeadsToStack
  <1>s. \A j \in 1..n : /\ Link(r.read_stack[j].obj, RootAfter(r, j), LEFT) \in r.links
                        /\ Link(RootAfter(r, j - 1), RootAfter(r, j), RIGHT) \in r.links
    BY <1>0, Zenon DEF Tracks, StackLinked
  <1>l. ASSUME NEW c, NEW q, NEW d, Link(c, q, d) \in r.links, c \in X, Count(r, q) > 0
        PROVE  q \in X
    <2>1. Link(c, q, d).child = c /\ Link(c, q, d).parent = q
      BY DEF Link
    <2> QED  BY <1>l, <2>1, Zenon DEF CountedUp
  <1>5. RootAfter(r, i) \in X
    BY <1>2, <1>4, <1>s, <1>l, Zenon
  <1> DEFINE S == { k \in Nat : i + k <= n => RootAfter(r, i + k) \in X }
  <1> HIDE DEF n
  <1>6. 0 \in S
    BY <1>0, <1>5
  <1>7. ASSUME NEW k \in Nat, k \in S PROVE k + 1 \in S
    <2>1. CASE i + (k + 1) <= n
      <3>1. i + (k + 1) \in 1..n /\ (i + (k + 1)) - 1 = i + k /\ i + k <= n
        BY <1>0, <2>1
      <3>2. RootAfter(r, i + k) \in X
        BY <1>7, <3>1
      <3>3. RootAfter(r, i + (k + 1)) \in X
        <4> DEFINE j == i + (k + 1)
        <4>1. j \in 1..n /\ RootAfter(r, j - 1) \in X
          BY <3>1, <3>2
        <4> HIDE DEF j
        <4>2. RootAfter(r, j) \in X
          BY <1>2, <1>s, <1>l, <4>1, Zenon
        <4> QED  BY <4>2 DEF j
      <3> QED  BY <3>3
    <2>2. CASE ~(i + (k + 1) <= n)
      BY <2>2
    <2> QED  BY <2>1, <2>2
  <1> HIDE DEF S
  <1>8. n - i \in Nat /\ i + (n - i) = n
    BY <1>0
  <1>9. n - i \in S
    BY <1>6, <1>7, <1>8, SetInduction
  <1>10. RootAfter(r, n) \in X
    BY <1>8, <1>9, <1>0 DEF S
  <1> QED  BY <1>10 DEF RootAfter, n

\* the counted hashes that the search has seen, and the one it started from
Visited(r, h, s) == { x \in s.seen : x = h \/ Count(r, x) > 0 }

\* The search at level k, with nothing found yet: what it visited and is not
\* climbing from any more is not the root, and has its counted parents visited.
Searching(r, h, k, s) ==
    /\ s.valid = {} /\ s.partial # {} /\ h \in s.seen
    /\ \A p \in s.partial : Len(p.path) = k /\ p.node \in Visited(r, h, s)
    /\ Cardinality(Visited(r, h, s) \ {h}) >= k
    /\ \A l \in r.links : (l.child \in Visited(r, h, s) /\ Count(r, l.parent) > 0) =>
           \/ l.parent \in Visited(r, h, s)
           \/ \E p \in s.partial : p.node = l.child
    /\ r.root_hash \in Visited(r, h, s) => \E p \in s.partial : p.node = r.root_hash

LEMMA VisitedFacts ==
    ASSUME NEW r, IsFiniteSet(DOMAIN r.count), NEW h, NEW s
    PROVE  LET V == Visited(r, h, s) \ {h}
           IN  IsFiniteSet(V) /\ Cardinality(V) \in Nat /\ Cardinality(V) <= Cardinality(DOMAIN r.count)
  <1> DEFINE V == Visited(r, h, s) \ {h}
  <1>1. ASSUME NEW x \in V PROVE x \in DOMAIN r.count
    <2>1. Count(r, x) > 0
      BY <1>1 DEF Visited
    <2> QED  BY <2>1 DEF Count
  <1> HIDE DEF V
  <1>2. V \subseteq DOMAIN r.count
    BY <1>1
  <1>3. IsFiniteSet(V) /\ Cardinality(V) \in Nat /\ Cardinality(V) <= Cardinality(DOMAIN r.count)
    BY <1>2, FS_Subset, FS_CardinalityType
  <1> QED  BY <1>3 DEF V

LEMMA SearchGoesOn ==
    ASSUME NEW r, LinksAreSound(r), IsFiniteSet(DOMAIN r.count), NEW h, LeadsToRoot(r, h),
           NEW m \in Int, m >= Cardinality(DOMAIN r.count),
           NEW k \in Nat, NEW s \in SearchStates(r, h), Searching(r, h, k, s)
    PROVE  LET t == NextLevel(r, m, s)
           IN  (t.valid # {} /\ t.partial = {}) \/ Searching(r, h, k + 1, t)
  <1> DEFINE arrived  == { p \in s.partial : p.node = r.root_hash }
             climbing == s.partial \ arrived
             ups      == { pl \in climbing \X r.links : pl[2].child = pl[1].node }
             Grow(u)  == [node |-> u[2].parent, path |-> Append(u[1].path, u[2].dir)]
             News(u)  == Count(r, u[2].parent) > 0 /\ u[2].parent \notin s.seen
             grown    == { Grow(u) : u \in { v \in ups : News(v) } }
             overflow == \E p \in grown : Len(p.path) > m
             found    == s.valid \cup { p.path : p \in arrived }
             more     == { u[2].parent : u \in ups }
             t        == [ partial |-> IF overflow \/ found # {} THEN {} ELSE grown,
                           seen    |-> s.seen \cup more,
                           valid   |-> IF overflow THEN {} ELSE found ]
             V        == Visited(r, h, s)
             W        == Visited(r, h, t)
             news     == { g.node : g \in grown }
  <1>1. NextLevel(r, m, s) = t
    BY DEF NextLevel
  <1>u. ASSUME NEW u \in ups
        PROVE  u[1] \in s.partial /\ u[1] \notin arrived /\ u[2] \in r.links /\ u[2].child = u[1].node
    OBVIOUS
  <1>v. ASSUME NEW p \in climbing, NEW l \in r.links, l.child = p.node
        PROVE  <<p, l>> \in ups
    BY <1>v
  <1>s. /\ s.valid = {} /\ s.partial # {} /\ h \in s.seen
        /\ \A p \in s.partial : Len(p.path) = k /\ p.node \in V
        /\ Cardinality(V \ {h}) >= k
        /\ \A l \in r.links : (l.child \in V /\ Count(r, l.parent) > 0) =>
               l.parent \in V \/ \E p \in s.partial : p.node = l.child
        /\ r.root_hash \in V => \E p \in s.partial : p.node = r.root_hash
    BY DEF Searching
  <1>p. \A p \in s.partial : p.path \in Seq({LEFT, RIGHT})
    BY DEF SearchStates, Climbs
  <1>g. ASSUME NEW g \in grown
        PROVE  /\ Len(g.path) = k + 1 /\ Count(r, g.node) > 0 /\ g.node \notin s.seen
               /\ g.node \in more
    <2>1. PICK u \in ups : News(u) /\ g = Grow(u)
      OBVIOUS
    <2>2. u[1].path \in Seq({LEFT, RIGHT}) /\ Len(u[1].path) = k /\ u[2].dir \in {LEFT, RIGHT}
      BY <1>u, <1>s, <1>p, LinkJoins
    <2>3. Len(Append(u[1].path, u[2].dir)) = k + 1
      BY <2>2
    <2> HIDE DEF ups
    <2> QED  BY <2>1, <2>3
  <1>a. arrived # {} => found # {}
    OBVIOUS
  <1>b. ASSUME NEW u \in ups, Count(r, u[2].parent) > 0, u[2].parent \notin s.seen
        PROVE  Grow(u) \in grown /\ Grow(u).node = u[2].parent
    BY <1>b
  <1>m. \A u \in ups : u[2].parent \in more
    OBVIOUS
  <1>t. /\ t.partial = IF overflow \/ found # {} THEN {} ELSE grown
        /\ t.seen = s.seen \cup more
        /\ t.valid = IF overflow THEN {} ELSE found
    OBVIOUS
  <1>f. arrived = {} => climbing = s.partial /\ found = {}
    BY <1>s
  <1>o. overflow <=> \E p \in grown : Len(p.path) > m
    OBVIOUS
  <1>n. news = { g.node : g \in grown } /\ \A p \in arrived : p \in s.partial /\ p.node = r.root_hash
    OBVIOUS
  <1>n2. \A p \in s.partial : p.node = r.root_hash => p \in arrived
    OBVIOUS
  <1> HIDE DEF arrived, climbing, ups, Grow, grown, overflow, found, more, t, news
  <1>w. W = V \cup { x \in more : Count(r, x) > 0 }
    BY <1>s, <1>t DEF Visited
  <1>2. news \subseteq W /\ \A x \in news : x \notin V /\ x # h
    BY <1>g, <1>n, <1>w, <1>s DEF Visited
  <1>3. grown # {} => Cardinality(W \ {h}) >= k + 1
    <2>1. ASSUME NEW g \in grown PROVE Cardinality(W \ {h}) >= k + 1
      <3>1. g.node \in W \ {h} /\ g.node \notin V
        BY <1>2, <1>n
      <3>2. (V \ {h}) \cup {g.node} \subseteq W \ {h} /\ g.node \notin V \ {h}
        BY <3>1, <1>w
      <3>3. /\ IsFiniteSet(V \ {h}) /\ Cardinality(V \ {h}) \in Nat
            /\ IsFiniteSet(W \ {h}) /\ Cardinality(W \ {h}) \in Nat
        BY VisitedFacts
      <3> DEFINE A == V \ {h}
                 B == W \ {h}
      <3> HIDE DEF A, B
      <3>4. Cardinality(A \cup {g.node}) = Cardinality(A) + 1 /\ IsFiniteSet(A \cup {g.node})
        BY <3>2, <3>3, FS_AddElement DEF A, B
      <3>5. Cardinality(A \cup {g.node}) <= Cardinality(B)
        BY <3>2, <3>3, <3>4, FS_Subset DEF A, B
      <3>6. Cardinality(A) >= k /\ Cardinality(A) \in Nat /\ Cardinality(B) \in Nat
        BY <1>s, <3>3 DEF A, B
      <3> QED  BY <3>4, <3>5, <3>6 DEF B
    <2> QED  BY <2>1
  <1>4. ~overflow
    <2>1. ASSUME NEW g \in grown PROVE ~(Len(g.path) > m)
      <3>1. Cardinality(W \ {h}) >= k + 1
        BY <1>3
      <3>2. Cardinality(W \ {h}) \in Nat /\ Cardinality(W \ {h}) <= Cardinality(DOMAIN r.count)
        BY VisitedFacts
      <3>3. Cardinality(DOMAIN r.count) \in Nat
        BY FS_CardinalityType
      <3> DEFINE a == Cardinality(W \ {h})
                 b == Cardinality(DOMAIN r.count)
      <3>4. a \in Nat /\ b \in Nat /\ a >= k + 1 /\ a <= b /\ m >= b
        BY <3>1, <3>2, <3>3
      <3> HIDE DEF a, b
      <3>5. ~(k + 1 > m)
        BY <3>4
      <3> QED  BY <1>g, <3>5, Zenon
    <2> QED  BY <1>o, <2>1
  <1>5. CASE arrived # {}
    BY <1>1, <1>4, <1>5, <1>a, <1>t
  <1>6. CASE arrived = {}
    <2>1. grown # {}
      <3> SUFFICES ASSUME grown = {} PROVE FALSE
        OBVIOUS
      <3>1. ASSUME NEW l \in r.links, l.child \in V, Count(r, l.parent) > 0 PROVE l.parent \in V
        <4>1. CASE \E p \in s.partial : p.node = l.child
          <5>1. PICK p \in s.partial : p.node = l.child
            BY <4>1
          <5> DEFINE u == <<p, l>>
          <5>2. u \in ups /\ u[2] = l
            BY <1>6, <1>f, <1>v, <5>1
          <5> HIDE DEF u
          <5>3. l.parent \in s.seen
            BY <1>b, <3>1, <5>2
          <5> QED  BY <3>1, <5>3 DEF Visited
        <4> QED  BY <1>s, <3>1, <4>1
      <3>2. h \in V
        BY <1>s DEF Visited
      <3>3. r.root_hash \in V
        BY <3>1, <3>2, Zenon DEF LeadsToRoot, CountedUp
      <3> QED  BY <1>6, <1>s, <1>n2, <3>3
    <2>2. t.valid = {} /\ t.partial = grown
      BY <1>4, <1>6, <1>f, <1>t
    <2>3. \A p \in grown : Len(p.path) = k + 1 /\ p.node \in W
      BY <1>g, <1>2, <1>n
    <2>4. ASSUME NEW l \in r.links, l.child \in W, Count(r, l.parent) > 0, l.parent \notin W
          PROVE  \E p \in grown : p.node = l.child
      <3>1. CASE l.child \in V
        <4>1. PICK p \in s.partial : p.node = l.child
          BY <1>s, <1>w, <2>4, <3>1
        <4> DEFINE u == <<p, l>>
        <4>2. u \in ups /\ u[2] = l
          BY <1>6, <1>f, <1>v, <4>1
        <4> HIDE DEF u
        <4>3. l.parent \in more
          BY <1>m, <4>2
        <4> QED  BY <1>w, <2>4, <4>3
      <3>2. CASE l.child \notin V
        <4>1. l.child \in more /\ Count(r, l.child) > 0 /\ l.child \notin s.seen
          BY <1>w, <2>4, <3>2 DEF Visited
        <4>2. PICK u \in ups : u[2].parent = l.child
          BY <4>1 DEF more
        <4> QED  BY <1>b, <4>1, <4>2
      <3> QED  BY <3>1, <3>2
    <2>5. ASSUME r.root_hash \in W PROVE \E p \in grown : p.node = r.root_hash
      <3>1. r.root_hash \notin V
        BY <1>6, <1>s, <1>n2
      <3>2. r.root_hash \in more /\ Count(r, r.root_hash) > 0 /\ r.root_hash \notin s.seen
        BY <1>w, <2>5, <3>1 DEF Visited
      <3>3. PICK u \in ups : u[2].parent = r.root_hash
        BY <3>2 DEF more
      <3> QED  BY <1>b, <3>2, <3>3
    <2>6. h \in t.seen
      BY <1>s, <1>t
    <2>7. Searching(r, h, k + 1, t)
      BY <1>3, <2>1, <2>2, <2>3, <2>4, <2>5, <2>6 DEF Searching
    <2> QED  BY <1>1, <2>7
  <1> QED  BY <1>5, <1>6

\* Every object that was pushed is found, for a length that no path is too long for.
LEMMA PushedIsFound ==
    ASSUME NEW r, Good(r), Tracks(r), NEW h \in PushedOn(r),
           NEW n \in Int, MaxPath(n) >= Cardinality(DOMAIN r.count)
    PROVE  FindPaths(r, h, n) # {}
  <1> DEFINE Found(s) == s.valid # {} /\ s.partial = {}
             I == [k \in Nat |-> { s \in SearchStates(r, h) : Found(s) \/ Searching(r, h, k, s) }]
             C == Cardinality(DOMAIN r.count)
             m == MaxPath(n)
  <1>1. LinksAreSound(r) /\ IsFiniteSet(DOMAIN r.count)
    BY DEF Good, ShapeOK, LinksAreSound
  <1>2. C \in Nat
    BY <1>1, FS_CardinalityType
  <1>3. m \in Int /\ m >= C /\ ~(n < 3)
    BY <1>2 DEF MaxPath
  <1>4. LeadsToRoot(r, h)
    BY PushedLeads
  <1> HIDE DEF m, C
  <1>5. ASSUME NEW k \in Nat, NEW s \in I[k] PROVE SearchTurn(r, m, s) \in I[k + 1]
    <2>1. s \in SearchStates(r, h) /\ (Found(s) \/ Searching(r, h, k, s))
      OBVIOUS
    <2>2. k + 1 \in Nat
      OBVIOUS
    <2>3. CASE s.partial = {}
      <3>1. Found(s) /\ SearchTurn(r, m, s) = s
        BY <2>1, <2>3 DEF SearchTurn, Searching
      <3> QED  BY <2>1, <2>2, <3>1
    <2>4. CASE s.partial # {}
      <3>1. Searching(r, h, k, s) /\ SearchTurn(r, m, s) = NextLevel(r, m, s)
        BY <2>1, <2>4 DEF SearchTurn
      <3>2. NextLevel(r, m, s) \in SearchStates(r, h)
        BY <1>1, <2>1, SearchStep
      <3> DEFINE t == NextLevel(r, m, s)
      <3>3. Found(t) \/ Searching(r, h, k + 1, t)
        BY <1>1, <1>3, <1>4, <2>1, <3>1, SearchGoesOn DEF C
      <3> HIDE DEF t, Found
      <3>4. t \in I[k + 1]
        BY <2>2, <3>2, <3>3 DEF t
      <3> QED  BY <3>1, <3>4 DEF t
    <2> QED  BY <2>3, <2>4
  <1>6. SearchStart(h) \in I[0]
    <2> DEFINE s == SearchStart(h)
    <2>1. /\ s.valid = {} /\ s.partial = {[node |-> h, path |-> <<>>]} /\ s.seen = {h}
          /\ Len(<<>>) = 0
      BY DEF SearchStart
    <2>2. s \in SearchStates(r, h)
      BY StartIsState
    <2> HIDE DEF s
    <2>3. Visited(r, h, s) = {h}
      BY <2>1 DEF Visited
    <2>4. Cardinality({h} \ {h}) >= 0
      BY FS_EmptySet
    <2>5. Searching(r, h, 0, s)
      BY <2>1, <2>3, <2>4 DEF Searching
    <2> QED  BY <2>2, <2>5 DEF s
  <1> HIDE DEF I
  <1>7. PICK s \in I[C + 2] : FindPaths(r, h, n) = s.valid
    BY <1>1, <1>3, <1>5, <1>6, SearchReaches DEF C, m
  <1>8. s \in SearchStates(r, h) /\ (Found(s) \/ Searching(r, h, C + 2, s))
    BY <1>2, <1>7 DEF I
  <1>9. ~Searching(r, h, C + 2, s)
    <2>1. /\ Cardinality(Visited(r, h, s) \ {h}) \in Nat
          /\ Cardinality(Visited(r, h, s) \ {h}) <= C
      BY <1>1, VisitedFacts DEF C
    <2>2. ~(Cardinality(Visited(r, h, s) \ {h}) >= C + 2)
      BY <1>2, <2>1
    <2> QED  BY <2>2 DEF Searching
  <1> QED  BY <1>7, <1>8, <1>9

-----------------------------------------------------------------------------
(***************************************************************************)
(* Nothing that the value stack does not hold is counted or found.         *)
(***************************************************************************)
\* The hashes of the value stack hold the children of their pairs: the descent
\* ends before it would have to meet more hashes than are known.
LEMMA PresentIsClosed ==
    ASSUME NEW r, IsFiniteSet(DOMAIN r.count), AllKnown(r)
    PROVE  ChildClosed(Present(r)) /\ r.root_hash \in Present(r)
  <1> DEFINE Deeper(x) == x \cup UNION { Range(h.pair_hash) : h \in { y \in x : IsPairHash(y) } }
             a == {r.root_hash}
             K == Known(r)
             A == SUBSET K
             IsDown(g) == g = [k \in Nat |-> IF k = 0 THEN a ELSE Deeper(g[k - 1])]
             down == CHOOSE g : IsDown(g)
             C == Cardinality(DOMAIN r.count)
  <1>1. Present(r) = down[C + 1]
    BY DEF Present
  <1>2. /\ a \in A
        /\ \A x \in A : Deeper(x) \in A
        /\ IsFiniteSet(K) /\ Cardinality(K) \in Nat /\ Cardinality(K) <= C + 1 /\ C \in Nat
    <2>1. ChildClosed(K) /\ r.root_hash \in K
      BY DEF AllKnown
    <2>2. ASSUME NEW x \in A PROVE Deeper(x) \in A
      BY <2>1 DEF ChildClosed
    <2>3. IsFiniteSet(K) /\ Cardinality(K) \in Nat /\ Cardinality(K) <= C + 1 /\ C \in Nat
      <3> DEFINE S == DOMAIN r.count
                 nil == HashAtom(<<>>)
      <3>1. C \in Nat /\ C = Cardinality(S) /\ IsFiniteSet(S) /\ K = S \cup {nil}
        BY FS_CardinalityType DEF Known
      <3> HIDE DEF S, nil, C, K
      <3>2. IsFiniteSet(K)
        BY <3>1, FS_AddElement
      <3>3. CASE nil \in S
        <4>1. K = S
          BY <3>1, <3>3
        <4> QED  BY <3>1, <4>1
      <3>4. CASE nil \notin S
        BY <3>1, <3>2, <3>4, FS_AddElement
      <3> QED  BY <3>2, <3>3, <3>4
    <2> QED  BY <2>1, <2>2, <2>3
  <1>d. ASSUME NEW x \in A
        PROVE  x \subseteq Deeper(x) /\ (Deeper(x) = x => ChildClosed(x))
    BY DEF ChildClosed
  <1> HIDE DEF a, K, A, C, Deeper
  <1>3. \A k \in Nat : down[k] = IF k = 0 THEN a ELSE Deeper(down[k - 1])
    <2> DEFINE B == [k \in Nat |-> [x \in A |-> Deeper(x)]]
               D == [k \in Nat |-> k - 1]
               Z == {0}
    <2>2. \A k \in Nat, x \in A : B[k][x] = Deeper(x) /\ B[k][x] \in A
      BY <1>2
    <2>4. 0 \in Z /\ \A k \in Nat : k \in Z <=> k = 0
      OBVIOUS
    <2>5. \A k \in Nat : D[k] = k - 1 /\ (k \notin Z => D[k] \in 0..(k - 1))
      OBVIOUS
    <2> HIDE DEF B, D, Z
    <2>6. RecursesWithin(A, a, Z, D, B)
      BY <1>2, <2>2, <2>4, <2>5 DEF RecursesWithin
    <2>7. PICK g \in [Nat -> A] : \A k \in Nat : g[k] = IF k \in Z THEN a ELSE B[k][g[D[k]]]
      BY <2>6, RecursiveOnNat
    <2>8. ASSUME NEW k \in Nat
          PROVE  g[k] = IF k = 0 THEN a ELSE Deeper(g[k - 1])
      <3>1. CASE k = 0
        BY <2>4, <2>7, <3>1
      <3>2. CASE k # 0
        <4>1. k - 1 \in Nat
          BY <3>2
        <4>2. g[k - 1] \in A
          BY <4>1
        <4>3. B[k][g[k - 1]] = Deeper(g[k - 1])
          BY <2>2, <4>2
        <4>4. g[k] = B[k][g[k - 1]]
          BY <2>4, <2>5, <2>7, <3>2
        <4> QED  BY <3>2, <4>3, <4>4
      <3> QED  BY <3>1, <3>2
    <2>9. IsDown(g)
      BY <2>8
    <2>10. IsDown(down)
      <3> HIDE DEF IsDown
      <3> QED  BY <2>9
    <2> HIDE DEF down
    <2> QED  BY <2>10
  <1> HIDE DEF down
  <1> DEFINE T == { k \in Nat : /\ down[k] \in A /\ r.root_hash \in down[k]
                                /\ ChildClosed(down[k]) \/ Cardinality(down[k]) >= k + 1 }
  <1>f. ASSUME NEW x \in A PROVE IsFiniteSet(x) /\ Cardinality(x) \in Nat /\ Cardinality(x) <= Cardinality(K)
    BY <1>2, FS_Subset, FS_CardinalityType DEF A
  <1>4. 0 \in T
    <2>1. down[0] = a /\ a \in A /\ r.root_hash \in a
      BY <1>2, <1>3 DEF a
    <2>2. Cardinality(a) = 1
      BY FS_Singleton DEF a
    <2> QED  BY <2>1, <2>2
  <1>5. ASSUME NEW k \in Nat, k \in T PROVE k + 1 \in T
    <2>1. k + 1 \in Nat /\ k + 1 # 0 /\ (k + 1) - 1 = k
      OBVIOUS
    <2>2. down[k + 1] = Deeper(down[(k + 1) - 1])
      BY <1>3, <2>1, Zenon
    <2> DEFINE x == down[k]
               y == down[k + 1]
    <2>3. x \in A /\ r.root_hash \in x /\ (ChildClosed(x) \/ Cardinality(x) >= k + 1)
      BY <1>5
    <2>4. y = Deeper(x)
      BY <2>1, <2>2
    <2> HIDE DEF x, y, T
    <2>5. y \in A /\ x \subseteq y /\ r.root_hash \in y
      BY <1>2, <1>d, <2>3, <2>4
    <2>6. ChildClosed(y) \/ Cardinality(y) >= (k + 1) + 1
      <3>1. CASE y = x /\ ChildClosed(x)
        BY <3>1
      <3>2. CASE y = x /\ ~ChildClosed(x)
        BY <1>d, <2>3, <2>4, <3>2
      <3>3. CASE y # x
        <4>1. PICK e \in y : e \notin x
          BY <2>5, <3>3
        <4>2. Cardinality(x \cup {e}) = Cardinality(x) + 1 /\ IsFiniteSet(x \cup {e})
          BY <1>f, <2>3, <4>1, FS_AddElement
        <4>3. Cardinality(x \cup {e}) <= Cardinality(y)
          <5>1. x \cup {e} \subseteq y
            BY <2>5, <4>1
          <5> QED  BY <1>f, <2>5, <5>1, FS_Subset
        <4>4. ~ChildClosed(x)
          <5> SUFFICES ASSUME ChildClosed(x) PROVE Deeper(x) = x
            BY <2>4, <3>3
          <5> QED  BY DEF ChildClosed, Deeper
        <4>5. Cardinality(x) >= k + 1 /\ Cardinality(x) \in Nat /\ Cardinality(y) \in Nat
          BY <1>f, <2>3, <2>5, <4>4
        <4> QED  BY <4>2, <4>3, <4>5
      <3> QED  BY <3>1, <3>2, <3>3
    <2> QED  BY <2>1, <2>5, <2>6 DEF y, T
  <1> HIDE DEF T
  <1>6. C + 1 \in T
    <2>1. C + 1 \in Nat
      BY <1>2
    <2> QED  BY <1>4, <1>5, <2>1, SetInduction
  <1> DEFINE x == down[C + 1]
  <1>7. x \in A /\ r.root_hash \in x /\ (ChildClosed(x) \/ Cardinality(x) >= (C + 1) + 1)
    BY <1>6 DEF T
  <1> HIDE DEF x
  <1>8. ~(Cardinality(x) >= (C + 1) + 1)
    BY <1>2, <1>f, <1>7
  <1> QED  BY <1>1, <1>7, <1>8 DEF x

\* What is counted is in the value stack.
LEMMA CountedIsPresent ==
    ASSUME NEW r, Good(r), Tracks(r), NEW h, Count(r, h) > 0
    PROVE  h \in Present(r)
  <1> DEFINE P == Present(r)
             n == Len(r.read_stack)
  <1>1. n \in Nat /\ StackIndices(r) = 1..n
    BY DEF Good, ShapeOK, StackIndices
  <1>2. ChildClosed(P) /\ r.root_hash \in P
    BY PresentIsClosed DEF Good, ShapeOK, Tracks
  <1>3. \A i \in 1..n : RootAfter(r, i) = HashPair(r.read_stack[i].obj, RootAfter(r, i - 1))
    BY <1>1, Zenon DEF Good, Chained
  <1>4. RootAfter(r, n) = r.root_hash
    BY DEF RootAfter
  <1>e. /\ Extra(r, h) \in Int /\ Count(r, h) \in Int
        /\ IsFiniteSet(OnStack(r, h)) /\ Cardinality(OnStack(r, h)) \in Nat
        /\ IsFiniteSet(Spine(r, h)) /\ Cardinality(Spine(r, h)) \in Nat
        /\ Extra(r, h) = Count(r, h) - Cardinality(OnStack(r, h)) - Cardinality(Spine(r, h))
    <2>1. IsLookup(r)
      BY ShapeIsLookup DEF Good
    <2>2. Count(r, h) \in Int
      BY <2>1 DEF IsLookup, Count
    <2> QED  BY <1>1, <2>1, <2>2, CoveredIsExtra, IndexSets DEF Extra
  <1> HIDE DEF P, n
  <1>5. ASSUME NEW i \in 1..n, RootAfter(r, i) \in P
        PROVE  r.read_stack[i].obj \in P /\ RootAfter(r, i - 1) \in P
    <2> DEFINE a == r.read_stack[i].obj
               b == RootAfter(r, i - 1)
    <2>1. HashPair(a, b) \in P
      BY <1>3, <1>5
    <2> HIDE DEF a, b
    <2>2. a \in P /\ b \in P
      BY <1>2, <2>1, PairHashes DEF ChildClosed
    <2> QED  BY <2>2 DEF a, b
  <1> DEFINE S == { k \in 0..n : RootAfter(r, n - k) \in P }
  <1>6. 0 \in S
    BY <1>1, <1>2, <1>4
  <1>7. ASSUME NEW k \in 0..(n - 1), k \in S PROVE k + 1 \in S
    <2>1. n - k \in 1..n /\ (n - k) - 1 = n - (k + 1) /\ k + 1 \in 0..n
      BY <1>1
    <2>2. RootAfter(r, (n - k) - 1) \in P
      BY <1>5, <1>7, <2>1
    <2> QED  BY <2>1, <2>2
  <1> HIDE DEF S
  <1>8. \A k \in 0..n : k \in S
    BY <1>1, <1>6, <1>7, BoundedInduction
  <1>9. ASSUME NEW i \in 1..n PROVE RootAfter(r, i) \in P /\ r.read_stack[i].obj \in P
    <2>1. n - i \in 0..n /\ n - (n - i) = i
      BY <1>1
    <2>2. RootAfter(r, i) \in P
      BY <1>8, <2>1 DEF S
    <2> QED  BY <1>5, <2>2
  <1>10. CASE OnStack(r, h) # {}
    <2>1. PICK i \in 1..n : r.read_stack[i].obj = h
      BY <1>1, <1>10 DEF OnStack
    <2> QED  BY <1>9, <2>1 DEF P
  <1>11. CASE Spine(r, h) # {}
    <2>1. PICK i \in 1..n : RootAfter(r, i) = h
      BY <1>1, <1>11 DEF Spine
    <2> QED  BY <1>9, <2>1 DEF P
  <1>12. CASE OnStack(r, h) = {} /\ Spine(r, h) = {}
    <2>1. Cardinality(OnStack(r, h)) = 0 /\ Cardinality(Spine(r, h)) = 0
      BY <1>12, FS_EmptySet
    <2>2. Extra(r, h) >= 1
      BY <1>e, <2>1
    <2>3. IsBelow(r, h)
      BY <2>2, Zenon DEF Tracks, ExtraIsBelow
    <2> QED  BY <1>1, <1>2, <1>9, <2>3, Zenon DEF IsBelow, P
  <1> QED  BY <1>10, <1>11, <1>12

\* The search leaves an object that the value stack does not hold only for
\* pairs that it does not hold either.
LEMMA AbsentIsNotFound ==
    ASSUME NEW r, Good(r), Tracks(r), NEW h, h \notin Present(r), NEW n
    PROVE  FindPaths(r, h, n) = {}
  <1> DEFINE P == Present(r)
             Outside(s) == s.valid = {} /\ \A p \in s.partial : p.node \notin P
             I == [k \in Nat |-> { s \in SearchStates(r, h) : Outside(s) }]
             m == MaxPath(n)
  <1>1. LinksAreSound(r) /\ IsFiniteSet(DOMAIN r.count)
    BY DEF Good, ShapeOK, LinksAreSound
  <1>2. ChildClosed(P) /\ r.root_hash \in P
    BY <1>1, PresentIsClosed DEF Tracks
  <1>3. h \notin P
    OBVIOUS
  <1> HIDE DEF P, m
  <1>4. ASSUME NEW l \in r.links, l.child \notin P PROVE l.parent \notin P
    <2>1. PICK other : l.parent = IF l.dir = LEFT THEN HashPair(l.child, other)
                                                  ELSE HashPair(other, l.child)
      BY <1>1 DEF LinksAreSound, JoinsChild
    <2>2. IsPairHash(l.parent) /\ l.child \in Range(l.parent.pair_hash)
      BY <2>1, PairHashes
    <2> QED  BY <1>2, <1>4, <2>2 DEF ChildClosed
  <1>5. ASSUME NEW s \in SearchStates(r, h), Outside(s)
        PROVE  Outside(NextLevel(r, m, s))
    <2> DEFINE arrived  == { p \in s.partial : p.node = r.root_hash }
               climbing == s.partial \ arrived
               ups      == { pl \in climbing \X r.links : pl[2].child = pl[1].node }
               Grow(u)  == [node |-> u[2].parent, path |-> Append(u[1].path, u[2].dir)]
               grown    == { Grow(u) : u \in { v \in ups : /\ Count(r, v[2].parent) > 0
                                                           /\ v[2].parent \notin s.seen } }
               overflow == \E p \in grown : Len(p.path) > m
               found    == s.valid \cup { p.path : p \in arrived }
               t        == [ partial |-> IF overflow \/ found # {} THEN {} ELSE grown,
                             seen    |-> s.seen \cup { u[2].parent : u \in ups },
                             valid   |-> IF overflow THEN {} ELSE found ]
    <2>1. NextLevel(r, m, s) = t
      BY DEF NextLevel
    <2>2. arrived = {} /\ found = {}
      BY <1>2, <1>5
    <2>3. ASSUME NEW g \in grown PROVE g.node \notin P
      <3>1. PICK u \in ups : g = Grow(u)
        OBVIOUS
      <3>2. u[1] \in s.partial /\ u[2] \in r.links /\ u[2].child = u[1].node
        OBVIOUS
      <3>3. u[2].parent \notin P
        BY <1>4, <1>5, <3>2
      <3> QED  BY <3>1, <3>3
    <2> HIDE DEF grown, found, overflow
    <2>4. t.valid = {} /\ t.partial \subseteq grown
      BY <2>2
    <2> HIDE DEF t
    <2> QED  BY <2>1, <2>3, <2>4
  <1>6. SearchStart(h) \in I[0]
    <2>1. Outside(SearchStart(h))
      BY <1>3 DEF SearchStart
    <2> HIDE DEF Outside
    <2> QED  BY <2>1, StartIsState
  <1>7. ASSUME NEW k \in Nat, NEW s \in I[k] PROVE SearchTurn(r, m, s) \in I[k + 1]
    <2> HIDE DEF Outside
    <2>1. s \in SearchStates(r, h) /\ Outside(s) /\ k + 1 \in Nat
      OBVIOUS
    <2>2. NextLevel(r, m, s) \in SearchStates(r, h) /\ Outside(NextLevel(r, m, s))
      BY <1>1, <1>5, <2>1, SearchStep
    <2> QED  BY <2>1, <2>2 DEF SearchTurn
  <1>8. CASE n < 3
    BY <1>8 DEF FindPaths
  <1>9. CASE ~(n < 3)
    <2> DEFINE K == Cardinality(DOMAIN r.count) + 2
    <2>1. K \in Nat
      BY <1>1, FS_CardinalityType
    <2> HIDE DEF I, Outside
    <2>2. PICK s \in I[K] : FindPaths(r, h, n) = s.valid
      BY <1>1, <1>6, <1>7, <1>9, SearchReaches DEF m
    <2> HIDE DEF K
    <2>3. Outside(s)
      BY <2>1, <2>2 DEF I
    <2> QED  BY <2>2, <2>3 DEF Outside
  <1> QED  BY <1>8, <1>9

-----------------------------------------------------------------------------
(***************************************************************************)
(* The theorems                                                            *)
(***************************************************************************)
IInv == Good(rcl) /\ Tracks(rcl)

LEMMA InitIInv == Init => IInv
  BY NewIsGood, NewTracks DEF Init, IInv

\* What a client may push is an atom or a hash that is counted.
LEMMA NextIInv == IInv /\ [Next]_vars => IInv'
  <1> SUFFICES ASSUME IInv, [Next]_vars PROVE IInv'
    OBVIOUS
  <1>0. Good(rcl) /\ Tracks(rcl)
    BY DEF IInv
  <1>1. ASSUME NEW h, Push(h), h \in Known(rcl) \/ ~IsPairHash(h) PROVE IInv'
    <2>1. rcl' = PushTo(rcl, h)
      BY <1>1 DEF Push
    <2>2. Good(PushTo(rcl, h)) /\ Tracks(PushTo(rcl, h))
      BY <1>0, <1>1, PushKeepsGood, PushTracks
    <2> QED  BY <2>1, <2>2 DEF IInv
  <1>2. CASE PushAtom
    <2>1. PICK b \in AtomBytes : Push(HashAtom(b))
      BY <1>2 DEF PushAtom
    <2>2. ~IsPairHash(HashAtom(b))
      BY PairHashes
    <2> QED  BY <1>1, <2>1, <2>2
  <1>3. CASE PushFound
    <2>1. PICK h \in Askable : Push(h)
      BY <1>3 DEF PushFound
    <2>2. h \in Known(rcl)
      BY <1>0, <2>1 DEF Askable, Tracks, AllKnown, Known
    <2> QED  BY <1>1, <2>1, <2>2
  <1>4. CASE Pop2AndCons
    <2>1. rcl' = Pop2AndConsOn(rcl) /\ Len(rcl.read_stack) >= 2
      BY <1>4 DEF Pop2AndCons
    <2>2. Good(Pop2AndConsOn(rcl)) /\ Tracks(Pop2AndConsOn(rcl))
      BY <1>0, <2>1, Pop2AndConsKeepsGood, ConsTracks
    <2> QED  BY <2>1, <2>2 DEF IInv
  <1>5. CASE UNCHANGED vars
    BY <1>5 DEF vars, IInv
  <1> QED  BY <1>2, <1>3, <1>4, <1>5 DEF Next

\* The inductive invariant holds in every reachable state.
THEOREM Invariance == Spec => []IInv
  BY InitIInv, NextIInv, PTL DEF Spec

\* The record is well formed, and no reference count ever goes below zero.
THEOREM TypeCorrect == Spec => []TypeOK
  <1>1. IInv => TypeOK
    BY DEF IInv, Good, TypeOK
  <1> QED  BY <1>1, Invariance, PTL

\* The saved root hashes are the tree hashes of the reader's value stack.
THEOREM RootIsStackHolds == Spec => []RootIsStack
  <1>1. IInv => RootIsStack
    BY DEF IInv, Good, RootIsStack
  <1> QED  BY <1>1, Invariance, PTL

\* An object is counted at least as often as the stack refers to it.
THEOREM CountsCoverHolds == Spec => []CountsCover
  <1>1. IInv => CountsCover
    BY DEF IInv, Good, CountsCover
  <1> QED  BY <1>1, Invariance, PTL

\* Every edge joins a pair to a child it has.
THEOREM LinksSoundHolds == Spec => []LinksSound
  <1>1. IInv => LinksSound
    BY DEF IInv, Good, LinksSound
  <1> QED  BY <1>1, Invariance, PTL

\* Every path that find_paths returns, for any object it can be asked for and
\* any serialized length, leads from the reader's value stack to that object.
THEOREM PathsSoundHolds == Spec => []PathsSound
  <1>1. ASSUME IInv PROVE PathsSound
    <2>1. LinksAreSound(rcl) /\ IsFiniteSet(DOMAIN rcl.count)
      BY <1>1 DEF IInv, Good, ShapeOK, LinksAreSound
    <2>2. ASSUME NEW h, NEW n, NEW p \in FindPaths(rcl, h, n)
          PROVE  HashAt(rcl, Legs(PathNumber(p))) = h
      BY <2>1, SearchFinds, TrailLeads
    <2> QED  BY <2>2, Zenon DEF PathsSound
  <1> QED  BY <1>1, Invariance, PTL

\* Every object that was pushed is found ever after, by a path that leads to it,
\* if its length allows a path through every hash counted; and what the value
\* stack does not hold is neither counted nor found.
THEOREM FindsWhatIsThereHolds == Spec => []FindsWhatIsThere
  <1>1. ASSUME IInv PROVE NothingLost
    <2>1. ASSUME NEW h \in Pushed, NEW n \in Lengths, AllowsAnyPath(n)
          PROVE  FindPaths(rcl, h, n) # {}
      <3>1. h \in PushedOn(rcl)
        BY DEF Pushed, PushedOn
      <3>2. n \in Int
        BY LengthsAssumption
      <3>3. MaxPath(n) >= Cardinality(DOMAIN rcl.count)
        BY <2>1 DEF AllowsAnyPath, MaxPath
      <3> QED  BY <1>1, <3>1, <3>2, <3>3, PushedIsFound DEF IInv
    <2> QED  BY <2>1, Zenon DEF NothingLost
  <1>2. ASSUME IInv PROVE NothingStale
    <2>1. ASSUME NEW h \in DOMAIN rcl.count, h \notin Present(rcl)
          PROVE  rcl.count[h] = 0 /\ \A n \in Lengths : FindPaths(rcl, h, n) = {}
      <3>1. rcl.count[h] \in Nat /\ Count(rcl, h) = rcl.count[h]
        BY <1>2 DEF IInv, Good, ShapeOK, Count
      <3>2. ~(Count(rcl, h) > 0)
        BY <1>2, <2>1, CountedIsPresent DEF IInv
      <3>3. \A n \in Lengths : FindPaths(rcl, h, n) = {}
        BY <1>2, <2>1, AbsentIsNotFound DEF IInv
      <3> QED  BY <3>1, <3>2, <3>3
    <2> QED  BY <2>1, Zenon DEF NothingStale
  <1>3. IInv => FindsWhatIsThere
    BY <1>1, <1>2 DEF FindsWhatIsThere
  <1> QED  BY <1>3, Invariance, PTL
=============================================================================
