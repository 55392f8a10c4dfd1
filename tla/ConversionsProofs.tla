------------------------- MODULE ConversionsProofs -------------------------
(***************************************************************************)
(* Proofs about the two conversions and ==, for all finite Python values   *)
(* and trees: first that the stacks are in step, then that what is left to *)
(* be done always leads to the right result.  V and D are the values and   *)
(* trees that there are (Meanings below).                                  *)
(***************************************************************************)
EXTENDS ConversionsMeaning, DataFacts

IsSeq(s) == s \in Seq(Range(s))

\* Each target is below the values that the operations above it put somewhere.
Targets(o, s) ==
    \A i \in 1..Len(o) :
        o[i].op # "convert" =>
            /\ o[i].target \in 1..Puts(o, i)
            /\ o[i].op \in {"set_left", "set_right"} => IsPair(s[o[i].target])

Fits(o, s) == /\ IsSeq(o) /\ IsSeq(s)
              /\ Len(s) = 1 + Puts(o, Len(o))
              /\ Targets(o, s)

\* The inductive invariant of to_sexp_type.
CInv == /\ converting \in {"no", "ops", "items", "done", "raised"}
        /\ converting \in {"ops", "items", "done"} => Fits(ops, stack)
        /\ converting = "items" => into \in 1..Len(stack)

-----------------------------------------------------------------------------
PutsIn(o) == { j \in Nat : o[j].op # "convert" }

LEMMA PutsIsCount ==
    ASSUME NEW o, NEW i \in Nat
    PROVE  Puts(o, i) = HowMany(PutsIn(o), i)
  <1>1. { j \in 1..i : o[j].op # "convert" } = { j \in 1..i : j \in PutsIn(o) }
    BY DEF PutsIn
  <1> QED  BY <1>1 DEF Puts, HowMany

LEMMA PutsFacts ==
    ASSUME NEW o, NEW i \in Nat
    PROVE  /\ Puts(o, i) \in Nat
           /\ Puts(o, 0) = 0
           /\ Puts(o, i + 1) = Puts(o, i) + (IF o[i+1].op # "convert" THEN 1 ELSE 0)
           /\ \A k \in 0..i : Puts(o, k) <= Puts(o, i)
  <1>1. /\ Puts(o, i) = HowMany(PutsIn(o), i) /\ Puts(o, i + 1) = HowMany(PutsIn(o), i + 1)
        /\ Puts(o, 0) = HowMany(PutsIn(o), 0)
        /\ \A k \in 0..i : Puts(o, k) = HowMany(PutsIn(o), k)
    BY PutsIsCount
  <1>2. i + 1 \in PutsIn(o) <=> o[i+1].op # "convert"
    BY DEF PutsIn
  <1>3. HowMany(PutsIn(o), i) \in Nat
    BY HowManyType
  <1>4. HowMany(PutsIn(o), i + 1)
          = HowMany(PutsIn(o), i) + (IF i + 1 \in PutsIn(o) THEN 1 ELSE 0)
    BY HowManyStep
  <1>5. \A k \in 0..i : HowMany(PutsIn(o), k) <= HowMany(PutsIn(o), i)
    BY HowManyGrows
  <1>6. HowMany(PutsIn(o), 0) = 0
    BY HowManyNone
  <1> QED  BY <1>1, <1>2, <1>3, <1>4, <1>5, <1>6

LEMMA PutsLocal ==
    ASSUME NEW o, NEW o2, NEW i \in Nat, \A j \in 1..i : o2[j] = o[j]
    PROVE  Puts(o2, i) = Puts(o, i)
  BY DEF Puts

-----------------------------------------------------------------------------
(***************************************************************************)
(* What the steps are made of                                              *)
(***************************************************************************)
\* Operations are taken away, and what is at the targets of the others stays or
\* becomes a pair.
LEMMA TargetsKept ==
    ASSUME NEW o, NEW o2, NEW s, NEW s2, Len(o) \in Nat, Len(o2) \in 0..Len(o),
           Targets(o, s),
           \A i \in 1..Len(o2) : o2[i] = o[i],
           \A k \in 1..Puts(o2, Len(o2)) : s2[k] = s[k] \/ IsPair(s2[k])
    PROVE  Targets(o2, s2)
  <1> SUFFICES ASSUME NEW i \in 1..Len(o2), o2[i].op # "convert"
               PROVE  /\ o2[i].target \in 1..Puts(o2, i)
                      /\ o2[i].op \in {"set_left", "set_right"} => IsPair(s2[o2[i].target])
    BY DEF Targets
  <1>1. o2[i] = o[i] /\ i \in 1..Len(o) /\ i \in Nat /\ Len(o2) \in Nat /\ i \in 0..Len(o2)
    OBVIOUS
  <1>2. Puts(o2, i) = Puts(o, i)
    BY <1>1, PutsLocal
  <1>3. o[i].target \in 1..Puts(o, i)
        /\ (o[i].op \in {"set_left", "set_right"} => IsPair(s[o[i].target]))
    BY <1>1 DEF Targets
  <1>4. Puts(o2, i) <= Puts(o2, Len(o2)) /\ Puts(o2, i) \in Nat /\ Puts(o2, Len(o2)) \in Nat
    BY <1>1, PutsFacts
  <1>5. o2[i].target \in 1..Puts(o2, Len(o2))
    BY <1>1, <1>2, <1>3, <1>4
  <1>6. s2[o2[i].target] = s[o2[i].target] \/ IsPair(s2[o2[i].target])
    BY <1>5
  <1> QED  BY <1>1, <1>2, <1>3, <1>6

\* An operation is pushed.
LEMMA TargetsPush ==
    ASSUME NEW o, IsSeq(o), NEW s, NEW x, Targets(o, s),
           x.op # "convert" => /\ x.target \in 1..(Puts(o, Len(o)) + 1)
                               /\ x.op \in {"set_left", "set_right"} => IsPair(s[x.target])
    PROVE  /\ Targets(Append(o, x), s) /\ IsSeq(Append(o, x))
           /\ Len(Append(o, x)) = Len(o) + 1 /\ Len(o) \in Nat
           /\ Puts(Append(o, x), Len(o) + 1)
                = Puts(o, Len(o)) + (IF x.op # "convert" THEN 1 ELSE 0)
  <1> DEFINE o2 == Append(o, x)
  <1>1. /\ IsSeq(o2) /\ Len(o2) = Len(o) + 1 /\ Len(o) \in Nat
        /\ \A i \in 1..Len(o) : o2[i] = o[i]
        /\ o2[Len(o) + 1] = x
    BY AppendFacts DEF IsSeq
  <1> HIDE DEF o2
  <1>2. Puts(o2, Len(o) + 1) = Puts(o, Len(o)) + (IF x.op # "convert" THEN 1 ELSE 0)
        /\ Puts(o, Len(o)) \in Nat
    <2> DEFINE n == Len(o)
    <2>1. n \in Nat /\ o2[n + 1] = x /\ \A j \in 1..n : o2[j] = o[j]
      BY <1>1
    <2> HIDE DEF n
    <2>2. Puts(o2, n) = Puts(o, n) /\ Puts(o, n) \in Nat
      BY <2>1, PutsLocal, PutsFacts
    <2>3. Puts(o2, n + 1) = Puts(o2, n) + (IF o2[n + 1].op # "convert" THEN 1 ELSE 0)
      BY <2>1, PutsFacts
    <2>4. Puts(o2, n + 1) = Puts(o, n) + (IF x.op # "convert" THEN 1 ELSE 0)
      BY <2>1, <2>2, <2>3
    <2> QED  BY <2>2, <2>4 DEF n
  <1>3. ASSUME NEW i \in 1..Len(o2), o2[i].op # "convert"
        PROVE  /\ o2[i].target \in 1..Puts(o2, i)
               /\ o2[i].op \in {"set_left", "set_right"} => IsPair(s[o2[i].target])
    <2>1. CASE i = Len(o) + 1
      BY <1>1, <1>2, <1>3, <2>1
    <2>2. CASE i # Len(o) + 1
      <3>1. i \in 1..Len(o) /\ i \in Nat
        BY <1>1, <2>2
      <3>2. Puts(o2, i) = Puts(o, i)
        BY <1>1, <3>1, PutsLocal
      <3> QED  BY <1>1, <1>3, <3>1, <3>2 DEF Targets
    <2> QED  BY <2>1, <2>2
  <1>4. Targets(o2, s)
    BY <1>3 DEF Targets
  <1> QED  BY <1>1, <1>2, <1>4 DEF o2

\* A part is pushed to be converted, and an operation that puts it somewhere.
LEMMA PushPart ==
    ASSUME NEW o, NEW s, Fits(o, s), NEW x, NEW part, x.op # "convert",
           x.target \in 1..Len(s),
           x.op \in {"set_left", "set_right"} => IsPair(s[x.target])
    PROVE  /\ Fits(Append(o, x), Append(s, part))
           /\ Len(Append(s, part)) = Len(s) + 1
           /\ \A k \in 1..Len(s) : Append(s, part)[k] = s[k]
           /\ Len(s) \in Nat
  <1> DEFINE s2 == Append(s, part)
  <1>1. /\ IsSeq(s2) /\ Len(s2) = Len(s) + 1 /\ Len(s) \in Nat
        /\ \A k \in 1..Len(s) : s2[k] = s[k]
    BY AppendFacts DEF Fits, IsSeq
  <1> HIDE DEF s2
  <1>2. Len(o) \in Nat /\ Puts(o, Len(o)) \in Nat
    <2>1. Len(o) \in Nat
      BY DEF Fits, IsSeq
    <2> QED  BY <2>1, PutsFacts
  <1>3. Len(s) = Puts(o, Len(o)) + 1
    BY <1>2 DEF Fits
  <1>4. Targets(o, s2)
    <2>1. \A k \in 1..Puts(o, Len(o)) : k \in 1..Len(s)
      BY <1>2, <1>3
    <2>2. Len(o) \in 0..Len(o)
      BY <1>2
    <2> QED  BY <1>1, <1>2, <2>1, <2>2, TargetsKept DEF Fits
  <1>5. /\ Targets(Append(o, x), s2) /\ IsSeq(Append(o, x))
        /\ Len(Append(o, x)) = Len(o) + 1
        /\ Puts(Append(o, x), Len(o) + 1) = Puts(o, Len(o)) + 1
    <2>1. IsSeq(o) /\ x.target \in 1..(Puts(o, Len(o)) + 1)
      BY <1>3 DEF Fits
    <2>2. x.op \in {"set_left", "set_right"} => IsPair(s2[x.target])
      BY <1>1
    <2> HIDE DEF s2
    <2>3. /\ Targets(Append(o, x), s2) /\ IsSeq(Append(o, x))
          /\ Len(Append(o, x)) = Len(o) + 1
          /\ Puts(Append(o, x), Len(o) + 1)
               = Puts(o, Len(o)) + (IF x.op # "convert" THEN 1 ELSE 0)
      BY <1>4, <2>1, <2>2, TargetsPush
    <2> QED  BY <2>3
  <1>6. Fits(Append(o, x), s2)
    BY <1>1, <1>2, <1>3, <1>5 DEF Fits
  <1> QED  BY <1>1, <1>6 DEF s2

LEMMA PushConvert ==
    ASSUME NEW o, NEW s, Fits(o, s)
    PROVE  Fits(Append(o, Convert), s)
  <1>1. Convert.op = "convert" /\ IsSeq(o) /\ Targets(o, s)
    BY DEF Convert, Fits
  <1>2. /\ Targets(Append(o, Convert), s) /\ IsSeq(Append(o, Convert))
        /\ Len(Append(o, Convert)) = Len(o) + 1 /\ Len(o) \in Nat
        /\ Puts(Append(o, Convert), Len(o) + 1) = Puts(o, Len(o)) + 0
    BY <1>1, TargetsPush
  <1>3. Puts(o, Len(o)) \in Nat
    BY <1>2, PutsFacts
  <1> QED  BY <1>2, <1>3 DEF Fits

\* A converted value takes the place of the one on top.
LEMMA ReplaceTop ==
    ASSUME NEW o, NEW s, Fits(o, s), Len(o) > 0, Last(o).op = "convert", NEW y
    PROVE  /\ Fits(Front(o), Append(Front(s), y))
           /\ Len(Append(Front(s), y)) = Len(s) /\ Len(s) \in Nat \ {0}
           /\ Append(Front(s), y)[Len(s)] = y
  <1>1. /\ IsSeq(Front(o)) /\ Len(Front(o)) = Len(o) - 1 /\ Len(o) \in Nat \ {0}
        /\ \A i \in 1..(Len(o) - 1) : Front(o)[i] = o[i]
    BY FrontFacts DEF Fits, IsSeq, Front
  <1>2. o[Len(o)].op = "convert"
    BY DEF Last
  <1>3. Puts(o, Len(o)) = Puts(o, Len(o) - 1) /\ Puts(o, Len(o) - 1) \in Nat
        /\ Puts(Front(o), Len(o) - 1) = Puts(o, Len(o) - 1)
    <2> DEFINE n == Len(o) - 1
    <2>1. n \in Nat /\ n + 1 = Len(o)
      BY <1>1
    <2>2. Puts(o, n + 1) = Puts(o, n) + 0 /\ Puts(o, n) \in Nat
      BY <1>2, <2>1, PutsFacts
    <2>3. Puts(Front(o), n) = Puts(o, n)
      BY <1>1, <2>1, PutsLocal
    <2> QED  BY <2>1, <2>2, <2>3
  <1>4. Len(s) = 1 + Puts(o, Len(o)) /\ IsSeq(s) /\ Targets(o, s)
    BY DEF Fits
  <1>5. Len(s) > 0
    BY <1>3, <1>4
  <1>6. /\ IsSeq(Front(s)) /\ Len(Front(s)) = Len(s) - 1 /\ Len(s) \in Nat \ {0}
        /\ \A i \in 1..(Len(s) - 1) : Front(s)[i] = s[i]
    BY <1>4, <1>5, FrontFacts DEF IsSeq, Front
  <1> DEFINE s2 == Append(Front(s), y)
  <1>7. /\ IsSeq(s2) /\ Len(s2) = Len(s) - 1 + 1 /\ s2[Len(s) - 1 + 1] = y
        /\ \A i \in 1..(Len(s) - 1) : s2[i] = s[i]
    <2> DEFINE g == Front(s)
    <2>1. /\ IsSeq(Append(g, y)) /\ Len(Append(g, y)) = Len(g) + 1
          /\ \A i \in 1..Len(g) : Append(g, y)[i] = g[i]
          /\ Append(g, y)[Len(g) + 1] = y
      BY <1>6, AppendFacts DEF IsSeq
    <2> QED  BY <1>6, <2>1
  <1> HIDE DEF s2
  <1>8. Len(s) - 1 + 1 = Len(s)
    BY <1>6
  <1>9. Targets(Front(o), s2)
    <2>1. \A k \in 1..Puts(Front(o), Len(Front(o))) : s2[k] = s[k]
      BY <1>1, <1>3, <1>4, <1>6, <1>7
    <2>2. Len(Front(o)) \in 0..Len(o) /\ Len(o) \in Nat
          /\ \A i \in 1..Len(Front(o)) : Front(o)[i] = o[i]
      BY <1>1
    <2> QED  BY <1>4, <2>1, <2>2, TargetsKept
  <1>10. Fits(Front(o), s2)
    BY <1>1, <1>3, <1>4, <1>6, <1>7, <1>8, <1>9 DEF Fits
  <1> QED  BY <1>6, <1>7, <1>8, <1>10 DEF s2

\* The value on top goes to its target.
LEMMA PutTop ==
    ASSUME NEW o, NEW s, Fits(o, s), Len(o) > 0, Last(o).op # "convert", NEW y, IsPair(y)
    PROVE  Fits(Front(o), [Front(s) EXCEPT ![Last(o).target] = y])
  <1>1. /\ IsSeq(Front(o)) /\ Len(Front(o)) = Len(o) - 1 /\ Len(o) \in Nat \ {0}
        /\ \A i \in 1..(Len(o) - 1) : Front(o)[i] = o[i]
    BY FrontFacts DEF Fits, IsSeq, Front
  <1>2. Last(o) = o[Len(o)] /\ o[Len(o)].op # "convert"
    BY DEF Last
  <1>3. Puts(o, Len(o)) = Puts(o, Len(o) - 1) + 1 /\ Puts(o, Len(o) - 1) \in Nat
        /\ Puts(Front(o), Len(o) - 1) = Puts(o, Len(o) - 1)
    <2> DEFINE n == Len(o) - 1
    <2>1. n \in Nat /\ n + 1 = Len(o)
      BY <1>1
    <2>2. o[n + 1].op # "convert"
      BY <1>2, <2>1
    <2>3. Puts(Front(o), n) = Puts(o, n)
      BY <1>1, <2>1, PutsLocal
    <2> HIDE DEF n
    <2>4. Puts(o, n) \in Nat
          /\ Puts(o, n + 1) = Puts(o, n) + (IF o[n + 1].op # "convert" THEN 1 ELSE 0)
      BY <2>1, PutsFacts
    <2>5. Puts(o, n + 1) = Puts(o, n) + 1
      BY <2>2, <2>4
    <2> QED  BY <2>1, <2>3, <2>4, <2>5 DEF n
  <1>4. Len(s) = 1 + Puts(o, Len(o)) /\ IsSeq(s) /\ Targets(o, s)
    BY DEF Fits
  <1>5. /\ IsSeq(Front(s)) /\ Len(Front(s)) = Len(s) - 1 /\ Len(s) \in Nat \ {0}
        /\ \A i \in 1..(Len(s) - 1) : Front(s)[i] = s[i]
    <2>1. Len(s) > 0
      BY <1>3, <1>4
    <2> QED  BY <1>4, <2>1, FrontFacts DEF IsSeq, Front
  <1> DEFINE t == Last(o).target
             s2 == [Front(s) EXCEPT ![t] = y]
  <1>6. t \in 1..(Len(s) - 1)
    BY <1>1, <1>2, <1>3, <1>4 DEF Targets
  <1> HIDE DEF t
  <1>7. /\ IsSeq(s2) /\ Len(s2) = Len(s) - 1
        /\ \A i \in 1..(Len(s) - 1) : s2[i] = IF i = t THEN y ELSE s[i]
    <2> DEFINE g == Front(s)
               R == Range(g) \cup {y}
    <2>1. IsSeq(g) /\ Len(g) = Len(s) - 1 /\ t \in 1..Len(g)
      BY <1>5, <1>6
    <2>2. g \in Seq(R) /\ y \in R
      <3>1. g \in Seq(Range(g)) /\ Range(g) \subseteq R
        BY <2>1 DEF IsSeq
      <3> HIDE DEF g, R
      <3>2. g \in Seq(R)
        BY <3>1, SeqMonotonic
      <3> QED  BY <3>2 DEF R
    <2> HIDE DEF g, R
    <2>3. /\ [g EXCEPT ![t] = y] \in Seq(R)
          /\ Len([g EXCEPT ![t] = y]) = Len(g)
          /\ \A j \in 1..Len(g) : [g EXCEPT ![t] = y][j] = IF j = t THEN y ELSE g[j]
      BY <2>1, <2>2, ExceptSeq
    <2>4. IsSeq([g EXCEPT ![t] = y])
      BY <2>3, SeqOfItsRange DEF IsSeq
    <2> QED  BY <1>5, <2>1, <2>3, <2>4 DEF g
  <1> HIDE DEF s2
  <1>8. Targets(Front(o), s2)
    <2>1. Puts(Front(o), Len(Front(o))) = Len(s) - 1 - 1
      BY <1>1, <1>3, <1>4
    <2>2. \A k \in 1..Puts(Front(o), Len(Front(o))) : s2[k] = s[k] \/ IsPair(s2[k])
      BY <1>5, <1>7, <2>1
    <2>3. Len(Front(o)) \in 0..Len(o) /\ Len(o) \in Nat
          /\ \A i \in 1..Len(Front(o)) : Front(o)[i] = o[i]
      BY <1>1
    <2> QED  BY <1>4, <2>2, <2>3, TargetsKept
  <1>9. Len(s2) = 1 + Puts(Front(o), Len(Front(o)))
    BY <1>1, <1>3, <1>4, <1>7
  <1>10. Fits(Front(o), s2)
    BY <1>1, <1>7, <1>8, <1>9 DEF Fits
  <1> QED  BY <1>10 DEF s2, t

\* A part is pushed unless it needs no conversion, with the operation that makes
\* it a side of the pair at t.
LEMMA PushSide ==
    ASSUME NEW o, NEW s, Fits(o, s), NEW t \in 1..Len(s), IsPair(s[t]), NEW part,
           NEW x, x = SetLeft(t) \/ x = SetRight(t)
    PROVE  LET o2 == o \o Pushed(part, <<x, Convert>>)
               s2 == s \o Pushed(part, <<part>>)
           IN  Fits(o2, s2) /\ t \in 1..Len(s2) /\ IsPair(s2[t])
  <1>1. IsSeq(o) /\ IsSeq(s)
    BY DEF Fits
  <1>2. CASE looks_like_clvm_object(part)
    <2>1. o \o <<>> = o /\ s \o <<>> = s
      BY <1>1, Append1 DEF IsSeq
    <2>2. Pushed(part, <<x, Convert>>) = <<>> /\ Pushed(part, <<part>>) = <<>>
      BY <1>2 DEF Pushed
    <2> QED  BY <2>1, <2>2
  <1>3. CASE ~looks_like_clvm_object(part)
    <2>1. o \o <<x, Convert>> = Append(Append(o, x), Convert) /\ s \o <<part>> = Append(s, part)
      BY <1>1, Append1, Append2 DEF IsSeq
    <2>2. x.op # "convert" /\ x.target = t
      BY DEF SetLeft, SetRight
    <2>3. /\ Fits(Append(o, x), Append(s, part))
          /\ Len(Append(s, part)) = Len(s) + 1
          /\ \A k \in 1..Len(s) : Append(s, part)[k] = s[k]
          /\ Len(s) \in Nat
      BY <2>2, PushPart
    <2>4. Fits(Append(Append(o, x), Convert), Append(s, part))
      BY <2>3, PushConvert
    <2>5. t \in 1..Len(Append(s, part)) /\ IsPair(Append(s, part)[t])
      BY <2>3
    <2>6. Pushed(part, <<x, Convert>>) = <<x, Convert>> /\ Pushed(part, <<part>>) = <<part>>
      BY <1>3 DEF Pushed
    <2> QED  BY <2>1, <2>4, <2>5, <2>6
  <1> QED  BY <1>2, <1>3

LEMMA AConversionStarts ==
    ASSUME NEW v
    PROVE  Fits(<<Convert>>, <<v>>)
  <1>1. \A i \in 1..0 : FALSE
    OBVIOUS
  <1>2. Len(<<>>) = 0 /\ IsSeq(<<>>) /\ IsSeq(<<v>>) /\ Len(<<v>>) = 1
    BY DEF IsSeq, Range
  <1>3. Puts(<<>>, 0) = 0
    BY PutsFacts
  <1>4. Fits(<<>>, <<v>>)
    BY <1>1, <1>2, <1>3 DEF Fits, Targets
  <1>5. Append(<<>>, Convert) = <<Convert>>
    OBVIOUS
  <1> QED  BY <1>4, <1>5, PushConvert

-----------------------------------------------------------------------------
(***************************************************************************)
(* The invariant of to_sexp_type                                           *)
(***************************************************************************)
LEMMA StartKeeps ==
    ASSUME NEW v, Start(v)
    PROVE  CInv'
  <1>1. converting' = "ops" /\ ops' = <<Convert>> /\ stack' = <<v>>
    BY DEF Start
  <1>2. Fits(ops', stack')
    BY <1>1, AConversionStarts
  <1> QED  BY <1>1, <1>2 DEF CInv

LEMMA ConvertTupleKeeps ==
    ASSUME CInv, ConvertTuple
    PROVE  CInv'
  <1> DEFINE v      == Last(stack).tuple
             target == Len(stack)
             left   == v[1]
             right  == v[2]
             s1     == Append(Front(stack), Pair(left, right))
             o1     == Front(ops)
             s2     == s1 \o Pushed(right, <<right>>)
             o2     == o1 \o Pushed(right, <<SetRight(target), Convert>>)
             s3     == s2 \o Pushed(left, <<left>>)
             o3     == o2 \o Pushed(left, <<SetLeft(target), Convert>>)
  <1>1. Fits(ops, stack) /\ converting = "ops" /\ ops # <<>> /\ Last(ops).op = "convert"
    BY DEF ConvertTuple, Doing, CInv
  <1>2. Len(ops) > 0
    BY <1>1 DEF Fits, IsSeq
  <1>3. CASE Len(v) # 2
    <2>1. converting' = "raised"
      BY <1>3 DEF ConvertTuple, ValueError
    <2> QED  BY <2>1 DEF CInv
  <1>4. CASE Len(v) = 2
    <2>1. stack' = s3 /\ ops' = o3 /\ converting' = "ops"
      BY <1>1, <1>4 DEF ConvertTuple, Becomes
    <2>2. IsPair(Pair(left, right))
      BY DEF IsPair, Pair
    <2>3. /\ Fits(o1, s1) /\ Len(s1) = Len(stack) /\ Len(stack) \in Nat \ {0}
          /\ s1[target] = Pair(left, right)
      BY <1>1, <1>2, ReplaceTop
    <2>4. target \in 1..Len(s1) /\ IsPair(s1[target])
      BY <2>2, <2>3
    <2> HIDE DEF s1, o1, target, left, right
    <2>5. Fits(o2, s2) /\ target \in 1..Len(s2) /\ IsPair(s2[target])
      BY <2>3, <2>4, PushSide
    <2> HIDE DEF s2, o2
    <2>6. Fits(o3, s3)
      BY <2>5, PushSide
    <2> QED  BY <2>1, <2>6 DEF CInv
  <1> QED  BY <1>3, <1>4

LEMMA ConvertListKeeps ==
    ASSUME CInv, ConvertList
    PROVE  CInv'
  <1>1. Fits(ops, stack) /\ converting = "ops" /\ ops # <<>> /\ Last(ops).op = "convert"
    BY DEF ConvertList, Doing, CInv
  <1>2. Len(ops) > 0
    BY <1>1 DEF Fits, IsSeq
  <1>3. /\ Fits(Front(ops), Append(Front(stack), Null))
        /\ Len(Append(Front(stack), Null)) = Len(stack) /\ Len(stack) \in Nat \ {0}
    BY <1>1, <1>2, ReplaceTop
  <1>4. /\ stack' = Append(Front(stack), Null) /\ ops' = Front(ops)
        /\ into' = Len(stack) /\ converting' = "items"
    BY DEF ConvertList
  <1>5. into' \in 1..Len(stack')
    BY <1>3, <1>4
  <1> QED  BY <1>3, <1>4, <1>5 DEF CInv

LEMMA PushItemKeeps ==
    ASSUME CInv, PushItem
    PROVE  CInv'
  <1> DEFINE x  == Prepend(into)
             s1 == Append(stack, Head(items))
             o1 == Append(ops, x)
  <1>1. Fits(ops, stack) /\ converting = "items" /\ into \in 1..Len(stack)
    BY DEF PushItem, CInv
  <1>2. x.op = "prepend" /\ x.target = into
    BY DEF Prepend
  <1>3. Fits(o1, s1) /\ Len(s1) = Len(stack) + 1 /\ Len(stack) \in Nat
    BY <1>1, <1>2, PushPart
  <1>4. /\ stack' = s1 /\ ops' = o1 \o Pushed(Head(items), <<Convert>>)
        /\ into' = into /\ converting' = "items"
    BY <1>1 DEF PushItem
  <1> HIDE DEF x, s1, o1
  <1>5. into \in 1..Len(s1)
    BY <1>1, <1>3
  <1>6. o1 \o <<Convert>> = Append(o1, Convert) /\ o1 \o <<>> = o1
    BY <1>3, Append1 DEF Fits, IsSeq
  <1>7. Fits(Append(o1, Convert), s1)
    BY <1>3, PushConvert
  <1>8. Fits(ops', stack')
    BY <1>3, <1>4, <1>6, <1>7 DEF Pushed
  <1> QED  BY <1>4, <1>5, <1>8 DEF CInv

LEMMA ConvertAtomKeeps ==
    ASSUME CInv, ConvertAtom
    PROVE  CInv'
  <1> DEFINE y == Atom(convert_atom_to_bytes(Last(stack)))
  <1>1. Fits(ops, stack) /\ converting = "ops" /\ ops # <<>> /\ Last(ops).op = "convert"
    BY DEF ConvertAtom, Doing, CInv
  <1>2. Len(ops) > 0
    BY <1>1 DEF Fits, IsSeq
  <1>3. Fits(Front(ops), Append(Front(stack), y))
    BY <1>1, <1>2, ReplaceTop
  <1>4. \/ converting' = "raised"
        \/ stack' = Append(Front(stack), y) /\ ops' = Front(ops) /\ converting' = "ops"
    BY <1>1 DEF ConvertAtom, Becomes, ValueError
  <1> HIDE DEF y
  <1> QED  BY <1>3, <1>4 DEF CInv

LEMMA PutKeeps ==
    ASSUME CInv, converting = "ops", ops # <<>>, Last(ops).op # "convert",
           NEW y, IsPair(y), Put(y)
    PROVE  CInv'
  <1>1. Fits(ops, stack)
    BY DEF CInv
  <1>2. Len(ops) > 0
    BY <1>1 DEF Fits, IsSeq
  <1>3. Fits(Front(ops), [Front(stack) EXCEPT ![Last(ops).target] = y])
    BY <1>1, <1>2, PutTop
  <1>4. /\ stack' = [Front(stack) EXCEPT ![Last(ops).target] = y]
        /\ ops' = Front(ops) /\ converting' = "ops"
    BY DEF Put, Becomes
  <1> QED  BY <1>3, <1>4 DEF CInv

LEMMA EndConversionKeeps ==
    ASSUME CInv, EndConversion
    PROVE  CInv'
  <1>1. /\ Fits(ops, stack) /\ ops' = ops /\ stack' = stack
        /\ converting' = (IF Len(stack) = 1 THEN "done" ELSE "raised")
    BY DEF EndConversion, CInv
  <1> QED  BY <1>1 DEF CInv

LEMMA ConversionStepKeeps ==
    ASSUME CInv, ConversionStep
    PROVE  CInv'
  <1>1. CASE ConvertTuple  BY <1>1, ConvertTupleKeeps
  <1>2. CASE ConvertList   BY <1>2, ConvertListKeeps
  <1>3. CASE PushItem      BY <1>3, PushItemKeeps
  <1>4. CASE EndItems
    BY <1>4 DEF EndItems, CInv
  <1>5. CASE ConvertAtom   BY <1>5, ConvertAtomKeeps
  <1>6. CASE DoSetLeft \/ DoSetRight \/ DoPrepend
    <2>1. \A l, r : IsPair(Pair(l, r))
      BY DEF IsPair, Pair
    <2>2. /\ converting = "ops" /\ ops # <<>> /\ Last(ops).op # "convert"
          /\ \E y : IsPair(y) /\ Put(y)
      BY <1>6, <2>1 DEF DoSetLeft, DoSetRight, DoPrepend, Doing
    <2> QED  BY <2>2, PutKeeps
  <1>7. CASE EndConversion BY <1>7, EndConversionKeeps
  <1> QED  BY <1>1, <1>2, <1>3, <1>4, <1>5, <1>6, <1>7 DEF ConversionStep

LEMMA UnchangedKeeps ==
    ASSUME CInv, UNCHANGED conversion
    PROVE  CInv'
  BY DEF CInv, conversion

\* to_sexp_type is called by SExp.to and by ==, and nothing else touches its stacks.
THEOREM ConversionInvariance == Spec => []CInv
  <1>1. Init => CInv
    BY DEF Init, ConversionInit, CInv
  <1>2. CInv /\ [Next]_vars => CInv'
    <2> SUFFICES ASSUME CInv, [Next]_vars PROVE CInv'
      OBVIOUS
    <2>1. CASE UNCHANGED vars
      BY <2>1, UnchangedKeeps DEF vars
    <2>2. CASE CallTo
      BY <2>2, StartKeeps DEF CallTo
    <2>3. CASE ToReturns
      BY <2>3, UnchangedKeeps DEF ToReturns, CallAsPython
    <2>4. CASE ToRaises
      BY <2>4, UnchangedKeeps DEF ToRaises
    <2>5. CASE AsPythonReturns
      <3>1. \A w : CallEq(w) => Start(w) \/ UNCHANGED conversion
        BY DEF CallEq
      <3> QED  BY <2>5, <3>1, StartKeeps, UnchangedKeeps DEF AsPythonReturns
    <2>6. CASE EqConverted \/ EqRefuses \/ EqReturns
      BY <2>6, UnchangedKeeps DEF EqConverted, EqRefuses, EqReturns
    <2>7. CASE Converts
      BY <2>7, ConversionStepKeeps DEF Converts
    <2>8. CASE Unconverts \/ ComparesOne
      BY <2>8, UnchangedKeeps DEF Unconverts, ComparesOne
    <2>9. CASE Finished
      BY <2>9, UnchangedKeeps DEF Finished, vars
    <2> QED  BY <2>1, <2>2, <2>3, <2>4, <2>5, <2>6, <2>7, <2>8, <2>9 DEF Next
  <1> QED  BY <1>1, <1>2, PTL DEF Spec

\* The stack of values holds one value more than there are operations that take
\* one off, whatever is converted, so `internal error' cannot happen; and
\* positions on it stay right although it grows and shrinks above them: what an
\* operation sets is a pair and lies below the value it puts there.
THEOREM StacksStayInStep == Spec => []StacksInStep
  <1>1. CInv => OneIsLeft
    BY DEF CInv, Fits, OneIsLeft
  <1>2. CInv => TargetsAreBelow
    <2> SUFFICES ASSUME CInv, converting \in {"ops", "items"} PROVE TargetsAreBelow
      BY DEF TargetsAreBelow
    <2>1. Fits(ops, stack)
      BY DEF CInv
    <2>2. DOMAIN ops = 1..Len(ops)
      BY <2>1 DEF Fits, IsSeq
    <2> QED  BY <2>1, <2>2 DEF Fits, Targets, TargetsAreBelow
  <1>3. CInv => StacksInStep
    BY <1>1, <1>2 DEF StacksInStep
  <1> QED  BY <1>3, ConversionInvariance, PTL

-----------------------------------------------------------------------------
(***************************************************************************)
(* as_python                                                               *)
(*                                                                         *)
(* The operations are blocks: a _make_tuple alone waits with its right     *)
(* value below the left one, and _make_tuple, _as_python, _roll wait with  *)
(* the tree of the left side below the right value.  A last _as_python is  *)
(* for the tree on top.                                                    *)
(***************************************************************************)
Blocks(o) ==
    \A i \in 1..Len(o) :
        /\ o[i] \in {"_make_tuple", "_as_python", "_roll"}
        /\ o[i] = "_roll" => i >= 3 /\ o[i-1] = "_as_python" /\ o[i-2] = "_make_tuple"
        /\ o[i] = "_as_python" /\ i < Len(o) => o[i+1] = "_roll"

RollAfter(o, i) == i + 2 \in 1..Len(o) /\ o[i+2] = "_roll"

\* What waits for each _make_tuple: a tree from T if _roll is to bring it up.
Waiting(T, o, v) ==
    \A i \in 1..Len(o) :
        o[i] = "_make_tuple" => IF RollAfter(o, i) THEN v[Joins(o, i)] \in T
                                ELSE ~IsTree(v[Joins(o, i)])

OnTop(T, o, v) == IF Len(o) > 0 /\ o[Len(o)] = "_as_python" THEN v[Len(v)] \in T
                  ELSE ~IsTree(v[Len(v)])

InStep(T, o, v) == /\ IsSeq(o) /\ IsSeq(v)
                   /\ Len(v) = 1 + Joins(o, Len(o))
                   /\ Blocks(o) /\ Waiting(T, o, v) /\ OnTop(T, o, v)

\* The inductive invariant of as_python.
UInv(T) == /\ unconverting \in {"no", "ops", "done"}
           /\ unconverting = "no" => Len(val_stack) = 0
           /\ unconverting \in {"ops", "done"} => InStep(T, op_stack, val_stack)
           /\ unconverting = "done" => Len(op_stack) = 0

\* A set of trees that has both sides of its pairs.
ClosedTrees(T) == \A x \in T : /\ IsTree(x)
                               /\ IsPair(x) => First(x) \in T /\ Rest(x) \in T

JoinsIn(o) == { j \in Nat : o[j] = "_make_tuple" }

LEMMA JoinsIsCount ==
    ASSUME NEW o, NEW i \in Nat
    PROVE  Joins(o, i) = HowMany(JoinsIn(o), i)
  <1>1. { j \in 1..i : o[j] = "_make_tuple" } = { j \in 1..i : j \in JoinsIn(o) }
    BY DEF JoinsIn
  <1> QED  BY <1>1 DEF Joins, HowMany

LEMMA JoinsFacts ==
    ASSUME NEW o, NEW i \in Nat
    PROVE  /\ Joins(o, i) \in Nat
           /\ Joins(o, 0) = 0
           /\ Joins(o, i + 1) = Joins(o, i) + (IF o[i+1] = "_make_tuple" THEN 1 ELSE 0)
           /\ \A k \in 0..i : Joins(o, k) <= Joins(o, i) /\ Joins(o, k) \in Nat
  <1>1. /\ Joins(o, i) = HowMany(JoinsIn(o), i) /\ Joins(o, i + 1) = HowMany(JoinsIn(o), i + 1)
        /\ Joins(o, 0) = HowMany(JoinsIn(o), 0)
        /\ \A k \in 0..i : Joins(o, k) = HowMany(JoinsIn(o), k)
    BY JoinsIsCount
  <1>2. i + 1 \in JoinsIn(o) <=> o[i+1] = "_make_tuple"
    BY DEF JoinsIn
  <1> DEFINE I == JoinsIn(o)
  <1> HIDE DEF I
  <1>8. ASSUME NEW k \in 0..i PROVE HowMany(I, k) \in Nat
    <2>1. k \in Nat
      OBVIOUS
    <2> QED  BY <2>1, HowManyType
  <1>9. HowMany(I, i) \in Nat
    BY HowManyType
  <1>3. HowMany(JoinsIn(o), i) \in Nat /\ \A k \in 0..i : HowMany(JoinsIn(o), k) \in Nat
    BY <1>8, <1>9 DEF I
  <1>4. HowMany(JoinsIn(o), i + 1)
          = HowMany(JoinsIn(o), i) + (IF i + 1 \in JoinsIn(o) THEN 1 ELSE 0)
    BY HowManyStep
  <1>5. \A k \in 0..i : HowMany(JoinsIn(o), k) <= HowMany(JoinsIn(o), i)
    BY HowManyGrows
  <1>6. HowMany(JoinsIn(o), 0) = 0
    BY HowManyNone
  <1> QED  BY <1>1, <1>2, <1>3, <1>4, <1>5, <1>6

LEMMA JoinsLocal ==
    ASSUME NEW o, NEW o2, NEW i \in Nat, \A j \in 1..i : o2[j] = o[j]
    PROVE  Joins(o2, i) = Joins(o, i)
  BY DEF Joins

\* The one before counts one less at a _make_tuple, and the same elsewhere.
LEMMA JoinsBefore ==
    ASSUME NEW o, NEW i \in Nat \ {0}
    PROVE  /\ Joins(o, i - 1) \in Nat /\ Joins(o, i) \in Nat
           /\ Joins(o, i) = Joins(o, i - 1) + (IF o[i] = "_make_tuple" THEN 1 ELSE 0)
  <1> DEFINE n == i - 1
  <1>1. n \in Nat /\ n + 1 = i
    OBVIOUS
  <1> HIDE DEF n
  <1>2. Joins(o, n) \in Nat /\ Joins(o, n + 1) = Joins(o, n) + (IF o[n+1] = "_make_tuple" THEN 1 ELSE 0)
    BY <1>1, JoinsFacts
  <1>3. Joins(o, i) = Joins(o, n) + (IF o[i] = "_make_tuple" THEN 1 ELSE 0)
    BY <1>1, <1>2
  <1>4. Joins(o, i) \in Nat
    BY <1>2, <1>3
  <1> QED  BY <1>2, <1>3, <1>4 DEF n

\* The operation on top is taken off.
LEMMA PopOp ==
    ASSUME NEW o, IsSeq(o), Len(o) > 0, Blocks(o)
    PROVE  /\ IsSeq(Front(o)) /\ Len(Front(o)) = Len(o) - 1 /\ Len(o) \in Nat \ {0}
           /\ \A i \in 1..(Len(o) - 1) : Front(o)[i] = o[i]
           /\ \A i \in 0..(Len(o) - 1) : Joins(Front(o), i) = Joins(o, i)
           /\ Blocks(Front(o))
           /\ Len(o) > 1 /\ o[Len(o)] # "_roll" => o[Len(o) - 1] # "_as_python"
  <1>1. /\ IsSeq(Front(o)) /\ Len(Front(o)) = Len(o) - 1 /\ Len(o) \in Nat \ {0}
        /\ \A i \in 1..(Len(o) - 1) : Front(o)[i] = o[i]
    BY FrontFacts DEF IsSeq, Front
  <1> DEFINE n == Len(o)
             g == Front(o)
  <1>2. ASSUME NEW i \in 0..(n - 1) PROVE Joins(g, i) = Joins(o, i)
    BY <1>1, JoinsLocal
  <1> HIDE DEF g, n
  <1>3. n \in Nat \ {0} /\ Len(g) = n - 1 /\ \A i \in 1..(n - 1) : g[i] = o[i]
    BY <1>1 DEF n, g
  <1>4. \A i \in 1..n :
           /\ o[i] \in {"_make_tuple", "_as_python", "_roll"}
           /\ o[i] = "_roll" => i >= 3 /\ o[i-1] = "_as_python" /\ o[i-2] = "_make_tuple"
           /\ o[i] = "_as_python" /\ i < n => o[i+1] = "_roll"
    BY DEF Blocks, n
  <1>5. Blocks(g)
    <2> SUFFICES ASSUME NEW i \in 1..(n - 1)
                 PROVE  /\ g[i] \in {"_make_tuple", "_as_python", "_roll"}
                        /\ g[i] = "_roll" => i >= 3 /\ g[i-1] = "_as_python" /\ g[i-2] = "_make_tuple"
                        /\ g[i] = "_as_python" /\ i < n - 1 => g[i+1] = "_roll"
      BY <1>3 DEF Blocks
    <2>1. i \in 1..n /\ g[i] = o[i] /\ i \in Int
      BY <1>3
    <2>2. g[i] = "_roll" => i >= 3 /\ g[i-1] = "_as_python" /\ g[i-2] = "_make_tuple"
      BY <1>3, <1>4, <2>1
    <2>3. g[i] = "_as_python" /\ i < n - 1 => g[i+1] = "_roll"
      BY <1>3, <1>4, <2>1
    <2> QED  BY <1>4, <2>1, <2>2, <2>3
  <1>6. n > 1 /\ o[n] # "_roll" => o[n - 1] # "_as_python"
    <2> SUFFICES ASSUME n > 1, o[n - 1] = "_as_python" PROVE o[n] = "_roll"
      OBVIOUS
    <2>1. n - 1 \in 1..n /\ n - 1 < n /\ n - 1 + 1 = n
      BY <1>3
    <2> QED  BY <1>4, <2>1
  <1> QED  BY <1>1, <1>2, <1>5, <1>6 DEF n, g

\* ... and the values that wait for the others stay.
LEMMA PopWaiting ==
    ASSUME NEW T, NEW o, NEW v, NEW v2, IsSeq(o), Len(o) > 0, Blocks(o), Waiting(T, o, v),
           o[Len(o)] # "_roll",
           \A k \in 1..Joins(o, Len(o) - 1) : v2[k] = v[k]
    PROVE  Waiting(T, Front(o), v2)
  <1> DEFINE n == Len(o)
             g == Front(o)
  <1>1. /\ Len(g) = n - 1 /\ n \in Nat \ {0}
        /\ \A i \in 1..(n - 1) : g[i] = o[i]
        /\ \A i \in 0..(n - 1) : Joins(g, i) = Joins(o, i)
    BY PopOp
  <1>2. o[n] # "_roll" /\ \A k \in 1..Joins(o, n - 1) : v2[k] = v[k]
    OBVIOUS
  <1>3. \A i \in 1..n : o[i] = "_make_tuple" => IF i + 2 \in 1..n /\ o[i+2] = "_roll"
                                                THEN v[Joins(o, i)] \in T
                                                ELSE ~IsTree(v[Joins(o, i)])
    BY DEF Waiting, RollAfter
  <1> HIDE DEF n, g
  <1> SUFFICES ASSUME NEW i \in 1..(n - 1), g[i] = "_make_tuple"
               PROVE  IF i + 2 \in 1..(n - 1) /\ g[i+2] = "_roll"
                      THEN v2[Joins(g, i)] \in T ELSE ~IsTree(v2[Joins(g, i)])
    BY <1>1 DEF Waiting, RollAfter, g
  <1>4. o[i] = "_make_tuple" /\ i \in 1..n /\ Joins(g, i) = Joins(o, i) /\ i \in Nat \ {0}
    BY <1>1
  <1>5. Joins(o, i) \in 1..Joins(o, n - 1)
    <2>1. Joins(o, i) \in Nat /\ Joins(o, i - 1) \in Nat /\ Joins(o, i) = Joins(o, i - 1) + 1
      BY <1>4, JoinsBefore
    <2>2. n - 1 \in Nat /\ i \in 0..(n - 1)
      BY <1>1
    <2>3. Joins(o, i) <= Joins(o, n - 1) /\ Joins(o, n - 1) \in Nat
      BY <2>2, JoinsFacts
    <2> QED  BY <2>1, <2>3
  <1>6. v2[Joins(g, i)] = v[Joins(o, i)]
    BY <1>2, <1>4, <1>5
  <1>7. (i + 2 \in 1..(n - 1) /\ g[i+2] = "_roll") <=> (i + 2 \in 1..n /\ o[i+2] = "_roll")
    BY <1>1, <1>2
  <1> QED  BY <1>3, <1>4, <1>6, <1>7

LEMMA ReplaceLast ==
    ASSUME NEW v, IsSeq(v), Len(v) > 0, NEW y
    PROVE  /\ IsSeq(Append(Front(v), y)) /\ Len(Append(Front(v), y)) = Len(v)
           /\ Append(Front(v), y)[Len(v)] = y
           /\ Len(v) \in Nat
           /\ \A i \in 1..(Len(v) - 1) : Append(Front(v), y)[i] = v[i]
  <1> DEFINE g == Front(v)
  <1>1. /\ IsSeq(g) /\ Len(g) = Len(v) - 1 /\ Len(v) \in Nat \ {0}
        /\ \A i \in 1..(Len(v) - 1) : g[i] = v[i]
    BY FrontFacts DEF IsSeq, Front
  <1>2. /\ IsSeq(Append(g, y)) /\ Len(Append(g, y)) = Len(g) + 1
        /\ \A i \in 1..Len(g) : Append(g, y)[i] = g[i]
        /\ Append(g, y)[Len(g) + 1] = y
    BY <1>1, AppendFacts DEF IsSeq
  <1> HIDE DEF g
  <1>3. Len(g) + 1 = Len(v)
    BY <1>1
  <1>4. Append(g, y)[Len(v)] = y
    BY <1>2, <1>3
  <1> QED  BY <1>1, <1>2, <1>3, <1>4 DEF g

LEMMA AtomAsPythonKeeps ==
    ASSUME NEW T, UInv(T), AtomAsPython
    PROVE  UInv(T)'
  <1> DEFINE o == op_stack
             v == val_stack
             y == AsBytes(Last(v))
             n == Len(o)
             l == Len(v)
             v2 == Append(Front(v), y)
  <1>1. unconverting = "ops" /\ o # <<>> /\ Last(o) = "_as_python"
        /\ val_stack' = v2 /\ op_stack' = Front(o) /\ unconverting' = "ops"
    BY DEF AtomAsPython, Performing
  <1>2. InStep(T, o, v)
    BY <1>1 DEF UInv
  <1>3. IsSeq(o) /\ IsSeq(v) /\ l = 1 + Joins(o, n) /\ Blocks(o) /\ Waiting(T, o, v)
    BY <1>2 DEF InStep
  <1>4. n > 0 /\ o[n] = "_as_python"
    BY <1>1, <1>3 DEF IsSeq, Last
  <1>5. /\ IsSeq(Front(o)) /\ Len(Front(o)) = n - 1 /\ n \in Nat \ {0}
        /\ \A i \in 1..(n - 1) : Front(o)[i] = o[i]
        /\ \A i \in 0..(n - 1) : Joins(Front(o), i) = Joins(o, i)
        /\ Blocks(Front(o))
        /\ n > 1 /\ o[n] # "_roll" => o[n - 1] # "_as_python"
    BY <1>3, <1>4, PopOp
  <1>6. Joins(o, n) = Joins(o, n - 1) + 0 /\ Joins(o, n - 1) \in Nat
    BY <1>4, <1>5, JoinsBefore
  <1>7. l > 0
    BY <1>3, <1>6
  <1>8. IsSeq(v2) /\ Len(v2) = l /\ v2[l] = y /\ l \in Nat /\ \A i \in 1..(l - 1) : v2[i] = v[i]
    BY <1>3, <1>7, ReplaceLast, ZenonT(30)
  <1>9. ~IsTree(y)
    BY DEF IsTree, IsAtom, IsPair, AsBytes
  <1> HIDE DEF v2, y, n, l
  <1>10. Waiting(T, Front(o), v2)
    <2>1. \A k \in 1..Joins(o, n - 1) : v2[k] = v[k]
      BY <1>3, <1>6, <1>8
    <2>2. o[n] # "_roll"
      BY <1>4
    <2> QED  BY <1>3, <1>4, <2>1, <2>2, PopWaiting DEF n
  <1>11. OnTop(T, Front(o), v2)
    <2>1. Len(Front(o)) > 0 => Front(o)[Len(Front(o))] # "_as_python"
      BY <1>4, <1>5
    <2> QED  BY <1>8, <1>9, <2>1 DEF OnTop
  <1>12. Len(v2) = 1 + Joins(Front(o), Len(Front(o)))
    BY <1>3, <1>5, <1>6, <1>8
  <1>13. InStep(T, Front(o), v2)
    BY <1>5, <1>8, <1>10, <1>11, <1>12 DEF InStep
  <1> QED  BY <1>1, <1>13 DEF UInv

\* What waits for the first m operations stays if these and the values do.
LEMMA WaitingBelow ==
    ASSUME NEW T, NEW o, NEW v, NEW o2, NEW v2, NEW m \in Nat,
           Len(o) \in Nat, m <= Len(o),
           \A i \in 1..m : o2[i] = o[i],
           \A i \in 1..m : RollAfter(o2, i) <=> RollAfter(o, i),
           \A k \in 1..Joins(o, m) : v2[k] = v[k],
           Waiting(T, o, v)
    PROVE  \A i \in 1..m :
               o2[i] = "_make_tuple" => IF RollAfter(o2, i) THEN v2[Joins(o2, i)] \in T
                                        ELSE ~IsTree(v2[Joins(o2, i)])
  <1> SUFFICES ASSUME NEW i \in 1..m, o2[i] = "_make_tuple"
               PROVE  IF RollAfter(o2, i) THEN v2[Joins(o2, i)] \in T
                      ELSE ~IsTree(v2[Joins(o2, i)])
    OBVIOUS
  <1>1. i \in Nat \ {0} /\ i \in 1..Len(o) /\ o[i] = "_make_tuple" /\ i \in 0..m
    OBVIOUS
  <1>2. Joins(o2, i) = Joins(o, i)
    BY <1>1, JoinsLocal
  <1>3. Joins(o, i) \in Nat /\ Joins(o, i - 1) \in Nat /\ Joins(o, i) = Joins(o, i - 1) + 1
    BY <1>1, JoinsBefore
  <1>4. Joins(o, i) <= Joins(o, m) /\ Joins(o, m) \in Nat
    BY <1>1, JoinsFacts
  <1>5. Joins(o, i) \in 1..Joins(o, m)
    BY <1>3, <1>4
  <1>6. v2[Joins(o2, i)] = v[Joins(o, i)]
    BY <1>2, <1>5
  <1>7. IF RollAfter(o, i) THEN v[Joins(o, i)] \in T ELSE ~IsTree(v[Joins(o, i)])
    BY <1>1 DEF Waiting
  <1> QED  BY <1>6, <1>7

\* Two values are taken off.
LEMMA PopTwo ==
    ASSUME NEW v, IsSeq(v), Len(v) > 1
    PROVE  /\ IsSeq(Popped(v, 2)) /\ Len(Popped(v, 2)) = Len(v) - 2 /\ Len(v) \in Nat
           /\ \A i \in 1..(Len(v) - 2) : Popped(v, 2)[i] = v[i]
           /\ FromTop(v, 1) = v[Len(v)] /\ FromTop(v, 2) = v[Len(v) - 1]
  <1> DEFINE n == Len(v) - 2
  <1>1. Len(v) \in Nat /\ n \in 0..Len(v) /\ v \in Seq(Range(v))
    BY DEF IsSeq
  <1>2. FromTop(v, 1) = v[Len(v)] /\ FromTop(v, 2) = v[Len(v) - 1]
    <2>1. Len(v) - 1 + 1 = Len(v) /\ Len(v) - 2 + 1 = Len(v) - 1
      BY <1>1
    <2> QED  BY <2>1 DEF FromTop
  <1> HIDE DEF n
  <1>3. /\ SubSeq(v, 1, n) \in Seq(Range(SubSeq(v, 1, n)))
        /\ Len(SubSeq(v, 1, n)) = n
        /\ \A i \in 1..n : SubSeq(v, 1, n)[i] = v[i]
    BY <1>1, PrefixFacts
  <1> QED  BY <1>1, <1>2, <1>3 DEF n, Popped, IsSeq

\* ... or pushed.
LEMMA PushTwo ==
    ASSUME NEW s, IsSeq(s), NEW a, NEW b
    PROVE  LET r == s \o <<a, b>>
           IN  /\ IsSeq(r) /\ Len(r) = Len(s) + 2 /\ Len(s) \in Nat
               /\ \A i \in 1..Len(s) : r[i] = s[i]
               /\ r[Len(s) + 1] = a /\ r[Len(s) + 2] = b
  <1> DEFINE t == Append(s, a)
             r == Append(t, b)
  <1>1. s \o <<a, b>> = r
    BY Append2 DEF IsSeq
  <1>2. /\ IsSeq(t) /\ Len(t) = Len(s) + 1 /\ Len(s) \in Nat
        /\ \A i \in 1..Len(s) : t[i] = s[i]
        /\ t[Len(s) + 1] = a
    BY AppendFacts DEF IsSeq
  <1> HIDE DEF t
  <1>3. /\ IsSeq(r) /\ Len(r) = Len(t) + 1
        /\ \A i \in 1..Len(t) : r[i] = t[i]
        /\ r[Len(t) + 1] = b
    BY <1>2, AppendFacts DEF IsSeq
  <1> HIDE DEF r
  <1>4. Len(t) + 1 = Len(s) + 2 /\ Len(s) + 1 \in 1..Len(t) /\ \A i \in 1..Len(s) : i \in 1..Len(t)
    BY <1>2
  <1>5. r[Len(s) + 1] = a /\ r[Len(s) + 2] = b
    BY <1>2, <1>3, <1>4
  <1>6. \A i \in 1..Len(s) : r[i] = s[i]
    BY <1>2, <1>3, <1>4
  <1> QED  BY <1>1, <1>2, <1>3, <1>4, <1>5, <1>6

\* _roll finds the converted right value above the tree of the left side.
LEMMA RollFinds ==
    ASSUME NEW T, NEW o, NEW v, InStep(T, o, v), Len(o) > 0, o[Len(o)] = "_roll"
    PROVE  LET n == Len(o)
               l == Len(v)
           IN  /\ n >= 3 /\ o[n-1] = "_as_python" /\ o[n-2] = "_make_tuple"
               /\ l > 1 /\ l \in Nat /\ ~IsTree(v[l]) /\ v[l - 1] \in T
               /\ Joins(o, n - 1) = l - 1 /\ Joins(o, n - 2) = l - 1 /\ Joins(o, n - 3) = l - 2
  <1> DEFINE n == Len(o)
             l == Len(v)
  <1>3. IsSeq(o) /\ IsSeq(v) /\ l = 1 + Joins(o, n) /\ Blocks(o) /\ Waiting(T, o, v)
    BY DEF InStep
  <1>4. n > 0 /\ o[n] = "_roll"
    OBVIOUS
  <1>5. n \in Nat \ {0}
    BY <1>3, <1>4 DEF IsSeq
  <1>6. n >= 3 /\ o[n-1] = "_as_python" /\ o[n-2] = "_make_tuple"
    <2>1. n \in 1..n
      BY <1>5
    <2> QED  BY <1>3, <1>4, <2>1 DEF Blocks
  <1>7. ~IsTree(v[l])
    BY <1>4 DEF InStep, OnTop
  <1> HIDE DEF n
  <1>8. /\ Joins(o, n) = Joins(o, n - 1) /\ Joins(o, n - 1) = Joins(o, n - 2)
        /\ Joins(o, n - 2) = Joins(o, n - 3) + 1 /\ Joins(o, n - 3) \in Nat
    <2>1. n \in Nat \ {0} /\ n - 1 \in Nat \ {0} /\ n - 2 \in Nat \ {0}
          /\ n - 1 - 1 = n - 2 /\ n - 2 - 1 = n - 3
      BY <1>5, <1>6
    <2>2. Joins(o, n - 1) \in Nat /\ Joins(o, n) = Joins(o, n - 1) + 0
      BY <1>4, <2>1, JoinsBefore
    <2>3. Joins(o, n - 2) \in Nat /\ Joins(o, n - 1) = Joins(o, n - 2) + 0
      BY <1>6, <2>1, JoinsBefore
    <2>4. Joins(o, n - 3) \in Nat /\ Joins(o, n - 2) = Joins(o, n - 3) + 1
      BY <1>6, <2>1, JoinsBefore
    <2> QED  BY <2>2, <2>3, <2>4
  <1>9. l > 1 /\ l \in Nat /\ Joins(o, n - 2) = l - 1 /\ Joins(o, n - 3) = l - 2
    BY <1>3, <1>8
  <1>10. v[l - 1] \in T
    <2>1. n - 2 \in 1..n /\ n - 2 + 2 = n /\ n \in 1..n
      BY <1>5, <1>6
    <2>2. RollAfter(o, n - 2)
      BY <1>4, <2>1 DEF RollAfter, n
    <2> QED  BY <1>3, <1>6, <1>9, <2>1, <2>2 DEF Waiting, n
  <1> QED  BY <1>6, <1>7, <1>8, <1>9, <1>10 DEF n

\* ... and exchanges them.
LEMMA RollKeeps ==
    ASSUME NEW T, UInv(T), Roll
    PROVE  UInv(T)'
  <1> DEFINE o == op_stack
             v == val_stack
             n == Len(o)
             l == Len(v)
             g == Front(o)
             v2 == Popped(v, 2) \o <<FromTop(v, 1), FromTop(v, 2)>>
  <1>1. unconverting = "ops" /\ o # <<>> /\ Last(o) = "_roll"
        /\ val_stack' = v2 /\ op_stack' = g /\ unconverting' = "ops"
    BY DEF Roll, Performing
  <1>2. InStep(T, o, v)
    BY <1>1 DEF UInv
  <1>3. IsSeq(o) /\ IsSeq(v) /\ l = 1 + Joins(o, n) /\ Blocks(o) /\ Waiting(T, o, v)
    BY <1>2 DEF InStep
  <1>4. n > 0 /\ o[n] = "_roll"
    BY <1>1, <1>3 DEF IsSeq, Last
  <1>5. /\ IsSeq(g) /\ Len(g) = n - 1 /\ n \in Nat \ {0}
        /\ \A i \in 1..(n - 1) : g[i] = o[i]
        /\ \A i \in 0..(n - 1) : Joins(g, i) = Joins(o, i)
        /\ Blocks(g)
    BY <1>3, <1>4, PopOp
  <1>6. /\ n >= 3 /\ o[n-1] = "_as_python" /\ o[n-2] = "_make_tuple"
        /\ l > 1 /\ l \in Nat /\ ~IsTree(v[l]) /\ v[l - 1] \in T
        /\ Joins(o, n - 1) = l - 1 /\ Joins(o, n - 2) = l - 1 /\ Joins(o, n - 3) = l - 2
    BY <1>2, <1>4, RollFinds
  <1> HIDE DEF n, g
  <1>11. /\ IsSeq(Popped(v, 2)) /\ Len(Popped(v, 2)) = l - 2
         /\ \A i \in 1..(l - 2) : Popped(v, 2)[i] = v[i]
         /\ FromTop(v, 1) = v[l] /\ FromTop(v, 2) = v[l - 1]
    BY <1>3, <1>6, PopTwo
  <1>12. /\ IsSeq(v2) /\ Len(v2) = Len(Popped(v, 2)) + 2
         /\ \A i \in 1..Len(Popped(v, 2)) : v2[i] = Popped(v, 2)[i]
         /\ v2[Len(Popped(v, 2)) + 1] = FromTop(v, 1) /\ v2[Len(Popped(v, 2)) + 2] = FromTop(v, 2)
    BY <1>11, PushTwo
  <1> HIDE DEF v2, l
  <1>13. /\ Len(v2) = l /\ v2[l - 1] = v[l] /\ v2[l] = v[l - 1]
         /\ \A i \in 1..(l - 2) : v2[i] = v[i]
    <2>1. l - 2 + 1 = l - 1 /\ l - 2 + 2 = l
      BY <1>6
    <2> QED  BY <1>11, <1>12, <2>1
  <1>14. \A i \in 1..(n - 3) :
             g[i] = "_make_tuple" => IF RollAfter(g, i) THEN v2[Joins(g, i)] \in T
                                     ELSE ~IsTree(v2[Joins(g, i)])
    <2> DEFINE m == n - 3
    <2>1. m \in Nat /\ n = m + 3 /\ \A i \in 1..m : i \in 1..(n - 1) /\ i + 2 \in 1..(n - 1) /\ i + 2 \in 1..n
      BY <1>5, <1>6
    <2>2. \A i \in 1..m : g[i] = o[i] /\ g[i+2] = o[i+2]
      BY <1>5, <2>1
    <2>3. \A k \in 1..Joins(o, m) : v2[k] = v[k]
      BY <1>6, <1>13
    <2> HIDE DEF m
    <2>4. \A i \in 1..m : RollAfter(g, i) <=> RollAfter(o, i)
      BY <1>5, <2>1, <2>2 DEF RollAfter, n
    <2>5. Len(o) \in Nat /\ m <= Len(o)
      BY <1>5, <2>1 DEF n
    <2>6. \A i \in 1..m :
             g[i] = "_make_tuple" => IF RollAfter(g, i) THEN v2[Joins(g, i)] \in T
                                     ELSE ~IsTree(v2[Joins(g, i)])
      BY <1>3, <2>1, <2>2, <2>3, <2>4, <2>5, WaitingBelow
    <2> QED  BY <2>6 DEF m
  <1>15. ~RollAfter(g, n - 2) /\ ~IsTree(v2[Joins(g, n - 2)])
    <2>1. n - 2 + 2 \notin 1..(n - 1) /\ n - 2 \in 0..(n - 1)
      BY <1>5, <1>6
    <2>2. Joins(g, n - 2) = l - 1
      BY <1>5, <1>6, <2>1
    <2>3. ~RollAfter(g, n - 2)
      BY <1>5, <2>1 DEF RollAfter
    <2> QED  BY <1>6, <1>13, <2>2, <2>3
  <1>16. Waiting(T, g, v2)
    <2> SUFFICES ASSUME NEW i \in 1..(n - 1), g[i] = "_make_tuple"
                 PROVE  IF RollAfter(g, i) THEN v2[Joins(g, i)] \in T
                        ELSE ~IsTree(v2[Joins(g, i)])
      BY <1>5 DEF Waiting
    <2>1. CASE i \in 1..(n - 3)
      BY <1>14, <2>1
    <2>2. CASE i = n - 2
      BY <1>15, <2>2
    <2>3. CASE i = n - 1
      <3>1. g[i] = "_as_python"
        BY <1>5, <1>6, <2>3
      <3> QED  BY <3>1
    <2>4. i \in 1..(n - 3) \/ i = n - 2 \/ i = n - 1
      BY <1>5, <1>6
    <2> QED  BY <2>1, <2>2, <2>3, <2>4
  <1>17. OnTop(T, g, v2)
    <2>1. Len(g) > 0 /\ g[Len(g)] = "_as_python"
      <3>1. n - 1 \in 1..(n - 1)
        BY <1>5, <1>6
      <3> QED  BY <1>5, <1>6, <3>1
    <2> QED  BY <1>6, <1>13, <2>1 DEF OnTop
  <1>18. Len(v2) = 1 + Joins(g, Len(g))
    <2>1. n - 1 \in 0..(n - 1)
      BY <1>5
    <2> QED  BY <1>5, <1>6, <1>13, <2>1
  <1>19. InStep(T, g, v2)
    BY <1>5, <1>12, <1>16, <1>17, <1>18 DEF InStep
  <1> QED  BY <1>1, <1>19 DEF UInv

\* _make_tuple finds two converted values ...
LEMMA MakeTupleFinds ==
    ASSUME NEW T, NEW o, NEW v, InStep(T, o, v), Len(o) > 0, o[Len(o)] = "_make_tuple"
    PROVE  LET n == Len(o)
               l == Len(v)
           IN  /\ l > 1 /\ Joins(o, n - 1) = l - 2 /\ l \in Nat
               /\ ~IsTree(v[l]) /\ ~IsTree(v[l - 1])
  <1> DEFINE n == Len(o)
             l == Len(v)
  <1>1. IsSeq(o) /\ IsSeq(v) /\ l = 1 + Joins(o, n) /\ Waiting(T, o, v)
    BY DEF InStep
  <1>2. n \in Nat \ {0} /\ n \in 1..n /\ n + 2 \notin 1..n
    BY <1>1 DEF IsSeq
  <1>3. Joins(o, n) = Joins(o, n - 1) + 1 /\ Joins(o, n - 1) \in Nat
    BY <1>2, JoinsBefore
  <1>4. l > 1 /\ Joins(o, n - 1) = l - 2 /\ l \in Nat /\ Joins(o, n) = l - 1
    BY <1>1, <1>3
  <1>5. ~IsTree(v[l])
    BY DEF InStep, OnTop
  <1>6. ~RollAfter(o, n)
    BY <1>2 DEF RollAfter
  <1>7. ~IsTree(v[Joins(o, n)])
    BY <1>1, <1>2, <1>6 DEF Waiting
  <1> QED  BY <1>4, <1>5, <1>7

\* ... and joins them to one.
LEMMA MakeTupleKeeps ==
    ASSUME NEW T, UInv(T), MakeTuple
    PROVE  UInv(T)'
  <1> DEFINE o == op_stack
             v == val_stack
             n == Len(o)
             l == Len(v)
             g == Front(o)
             p == Popped(v, 2)
             y == Joined(FromTop(v, 1), FromTop(v, 2))
             v2 == Append(p, y)
  <1>1. unconverting = "ops" /\ o # <<>> /\ Last(o) = "_make_tuple"
        /\ val_stack' = v2 /\ op_stack' = g /\ unconverting' = "ops"
    BY DEF MakeTuple, Performing
  <1>2. InStep(T, o, v)
    BY <1>1 DEF UInv
  <1>3. IsSeq(o) /\ IsSeq(v) /\ l = 1 + Joins(o, n) /\ Blocks(o) /\ Waiting(T, o, v)
    BY <1>2 DEF InStep
  <1>4. n > 0 /\ o[n] = "_make_tuple"
    BY <1>1, <1>3 DEF IsSeq, Last
  <1>5. /\ IsSeq(g) /\ Len(g) = n - 1 /\ n \in Nat \ {0}
        /\ \A i \in 1..(n - 1) : g[i] = o[i]
        /\ \A i \in 0..(n - 1) : Joins(g, i) = Joins(o, i)
        /\ Blocks(g)
        /\ n > 1 /\ o[n] # "_roll" => o[n - 1] # "_as_python"
    BY <1>3, <1>4, PopOp
  <1>7. l > 1 /\ Joins(o, n - 1) = l - 2 /\ l \in Nat
    BY <1>2, <1>4, MakeTupleFinds
  <1>8. IsSeq(p) /\ Len(p) = l - 2 /\ \A i \in 1..(l - 2) : p[i] = v[i]
    BY <1>3, <1>7, PopTwo
  <1> HIDE DEF p
  <1>9. /\ IsSeq(v2) /\ Len(v2) = Len(p) + 1 /\ v2[Len(p) + 1] = y
        /\ \A i \in 1..Len(p) : v2[i] = p[i]
    BY <1>8, AppendFacts DEF IsSeq
  <1>10. ~IsTree(y)
    BY DEF IsTree, IsAtom, IsPair, Joined, AsList, AsTuple
  <1> HIDE DEF v2, y, n, l
  <1>11. Len(v2) = l - 1 /\ v2[l - 1] = y /\ \A i \in 1..(l - 2) : v2[i] = v[i]
    <2>1. l - 2 + 1 = l - 1
      BY <1>7
    <2> QED  BY <1>8, <1>9, <2>1
  <1>12. Waiting(T, g, v2)
    <2>1. \A k \in 1..Joins(o, n - 1) : v2[k] = v[k]
      BY <1>7, <1>11
    <2>2. o[n] # "_roll"
      BY <1>4
    <2> QED  BY <1>3, <1>4, <2>1, <2>2, PopWaiting DEF n
  <1> HIDE DEF g
  <1>13. OnTop(T, g, v2)
    <2>1. Len(g) > 0 => g[Len(g)] # "_as_python"
      BY <1>4, <1>5
    <2> QED  BY <1>10, <1>11, <2>1 DEF OnTop
  <1>14. Len(v2) = 1 + Joins(g, Len(g))
    <2>1. n - 1 \in 0..(n - 1)
      BY <1>5
    <2> QED  BY <1>5, <1>7, <1>11, <2>1
  <1>15. InStep(T, g, v2)
    BY <1>5, <1>9, <1>12, <1>13, <1>14 DEF InStep
  <1> QED  BY <1>1, <1>15 DEF UInv, g

\* What Blocks and Joins become when the four operations for a pair are pushed.
LEMMA PushBlock ==
    ASSUME NEW g, IsSeq(g), Blocks(g), Len(g) > 0 => g[Len(g)] # "_as_python",
           NEW m, m = Len(g)
    PROVE  LET o == g \o <<"_make_tuple", "_as_python", "_roll", "_as_python">>
           IN  /\ IsSeq(o) /\ Len(o) = m + 4 /\ m \in Nat
               /\ \A i \in 1..m : o[i] = g[i]
               /\ o[m+1] = "_make_tuple" /\ o[m+2] = "_as_python"
               /\ o[m+3] = "_roll" /\ o[m+4] = "_as_python"
               /\ Blocks(o)
  <1> DEFINE o == g \o <<"_make_tuple", "_as_python", "_roll", "_as_python">>
             a == g \o <<"_make_tuple", "_as_python">>
             b == a \o <<"_roll", "_as_python">>
  <1>1. o = b
    <2>1. o = Append(Append(Append(Append(g, "_make_tuple"), "_as_python"), "_roll"), "_as_python")
      BY Append4 DEF IsSeq
    <2>2. a = Append(Append(g, "_make_tuple"), "_as_python") /\ IsSeq(a)
      BY Append2, PushTwo DEF IsSeq
    <2> HIDE DEF a
    <2>3. b = Append(Append(a, "_roll"), "_as_python")
      BY <2>2, Append2 DEF IsSeq
    <2> QED  BY <2>1, <2>2, <2>3
  <1>2. /\ IsSeq(a) /\ Len(a) = m + 2 /\ m \in Nat
        /\ \A i \in 1..m : a[i] = g[i]
        /\ a[m + 1] = "_make_tuple" /\ a[m + 2] = "_as_python"
    BY PushTwo
  <1> HIDE DEF a
  <1>3. /\ IsSeq(b) /\ Len(b) = Len(a) + 2
        /\ \A i \in 1..Len(a) : b[i] = a[i]
        /\ b[Len(a) + 1] = "_roll" /\ b[Len(a) + 2] = "_as_python"
    BY <1>2, PushTwo, SMTT(30)
  <1> HIDE DEF b, o
  <1>4. /\ Len(o) = m + 4 /\ IsSeq(o)
        /\ \A i \in 1..m : o[i] = g[i]
        /\ o[m+1] = "_make_tuple" /\ o[m+2] = "_as_python"
        /\ o[m+3] = "_roll" /\ o[m+4] = "_as_python"
    <2>1. m + 2 + 1 = m + 3 /\ m + 2 + 2 = m + 4 /\ \A i \in 1..m : i \in 1..(m + 2)
      BY <1>2
    <2>2. m + 1 \in 1..(m + 2) /\ m + 2 \in 1..(m + 2)
      BY <1>2
    <2> QED  BY <1>1, <1>2, <1>3, <2>1, <2>2
  <1>5. Blocks(o)
    <2> SUFFICES ASSUME NEW i \in 1..(m + 4)
                 PROVE  /\ o[i] \in {"_make_tuple", "_as_python", "_roll"}
                        /\ o[i] = "_roll" => i >= 3 /\ o[i-1] = "_as_python" /\ o[i-2] = "_make_tuple"
                        /\ o[i] = "_as_python" /\ i < m + 4 => o[i+1] = "_roll"
      BY <1>4 DEF Blocks
    <2>1. CASE i \in 1..m
      <3>1. /\ g[i] \in {"_make_tuple", "_as_python", "_roll"}
            /\ g[i] = "_roll" => i >= 3 /\ g[i-1] = "_as_python" /\ g[i-2] = "_make_tuple"
            /\ g[i] = "_as_python" /\ i < m => g[i+1] = "_roll"
        BY <2>1 DEF Blocks
      <3>2. o[i] = g[i]
        BY <1>4, <2>1
      <3>3. o[i] = "_roll" => i >= 3 /\ o[i-1] = "_as_python" /\ o[i-2] = "_make_tuple"
        <4> SUFFICES ASSUME o[i] = "_roll"
                     PROVE  i >= 3 /\ o[i-1] = "_as_python" /\ o[i-2] = "_make_tuple"
          OBVIOUS
        <4>1. i >= 3 /\ g[i-1] = "_as_python" /\ g[i-2] = "_make_tuple"
          BY <3>1, <3>2
        <4>2. i - 1 \in 1..m /\ i - 2 \in 1..m
          BY <1>2, <2>1, <4>1
        <4> QED  BY <1>4, <4>1, <4>2
      <3>4. o[i] = "_as_python" => o[i+1] = "_roll"
        <4> SUFFICES ASSUME o[i] = "_as_python" PROVE o[i+1] = "_roll"
          OBVIOUS
        <4>1. i # m
          BY <1>2, <2>1, <3>2
        <4>2. i < m /\ i + 1 \in 1..m
          BY <1>2, <2>1, <4>1
        <4> QED  BY <1>4, <3>1, <3>2, <4>2
      <3> QED  BY <3>1, <3>2, <3>3, <3>4
    <2>2. CASE i = m + 1
      <3>1. o[i] = "_make_tuple"
        BY <1>4, <2>2
      <3> QED  BY <3>1
    <2>3. CASE i = m + 2
      <3>1. o[i] = "_as_python" /\ i + 1 = m + 3
        BY <1>2, <1>4, <2>3
      <3> QED  BY <1>4, <3>1
    <2>4. CASE i = m + 3
      <3>1. o[i] = "_roll" /\ i - 1 = m + 2 /\ i - 2 = m + 1 /\ i >= 3
        BY <1>2, <1>4, <2>4
      <3> QED  BY <1>4, <3>1
    <2>5. CASE i = m + 4
      <3>1. o[i] = "_as_python" /\ ~(i < m + 4)
        BY <1>2, <1>4, <2>5
      <3> QED  BY <3>1
    <2>6. i \in 1..m \/ i = m + 1 \/ i = m + 2 \/ i = m + 3 \/ i = m + 4
      BY <1>2
    <2> QED  BY <2>1, <2>2, <2>3, <2>4, <2>5, <2>6
  <1> QED  BY <1>2, <1>4, <1>5 DEF o

\* A pair leaves both sides: the left one to wait, the right one on top.
LEMMA PairAsPythonKeeps ==
    ASSUME NEW T, ClosedTrees(T), UInv(T), PairAsPython
    PROVE  UInv(T)'
  <1> DEFINE o == op_stack
             v == val_stack
             n == Len(o)
             l == Len(v)
             g == Front(o)
             w == Front(v)
             m == Len(g)
             o2 == g \o <<"_make_tuple", "_as_python", "_roll", "_as_python">>
             v2 == w \o <<First(Last(v)), Rest(Last(v))>>
  <1>1. unconverting = "ops" /\ o # <<>> /\ Last(o) = "_as_python" /\ IsPair(Last(v))
        /\ val_stack' = v2 /\ op_stack' = o2 /\ unconverting' = "ops"
    BY DEF PairAsPython, Performing
  <1>2. InStep(T, o, v)
    BY <1>1 DEF UInv
  <1>3. IsSeq(o) /\ IsSeq(v) /\ l = 1 + Joins(o, n) /\ Blocks(o) /\ Waiting(T, o, v)
    BY <1>2 DEF InStep
  <1>4. n > 0 /\ o[n] = "_as_python"
    BY <1>1, <1>3 DEF IsSeq, Last
  <1>5. /\ IsSeq(g) /\ m = n - 1 /\ n \in Nat \ {0}
        /\ \A i \in 1..(n - 1) : g[i] = o[i]
        /\ Blocks(g)
        /\ n > 1 /\ o[n] # "_roll" => o[n - 1] # "_as_python"
    BY <1>3, <1>4, PopOp
  <1>6. Joins(o, n) = Joins(o, n - 1) /\ Joins(o, n - 1) \in Nat
    BY <1>4, <1>5, JoinsBefore, SMTT(30)
  <1>7. v[l] \in T
    BY <1>2, <1>4 DEF InStep, OnTop
  <1>8. l > 0 /\ Last(v) = v[l]
    BY <1>3, <1>6 DEF Last
  <1>9. First(Last(v)) \in T /\ Rest(Last(v)) \in T
    BY <1>1, <1>7, <1>8 DEF ClosedTrees
  <1>10. IsSeq(w) /\ Len(w) = l - 1 /\ l \in Nat \ {0} /\ \A i \in 1..(l - 1) : w[i] = v[i]
    BY <1>3, <1>8, FrontFacts DEF IsSeq, Front
  <1> HIDE DEF g, m
  <1>11. /\ IsSeq(o2) /\ Len(o2) = m + 4 /\ m \in Nat
         /\ \A i \in 1..m : o2[i] = g[i]
         /\ o2[m+1] = "_make_tuple" /\ o2[m+2] = "_as_python"
         /\ o2[m+3] = "_roll" /\ o2[m+4] = "_as_python"
         /\ Blocks(o2)
    <2>1. m > 0 => g[m] # "_as_python"
      BY <1>4, <1>5
    <2> QED  BY <1>5, <2>1, PushBlock DEF m
  <1> HIDE DEF w, o2
  <1>12. /\ IsSeq(v2) /\ Len(v2) = Len(w) + 2
         /\ \A i \in 1..Len(w) : v2[i] = w[i]
         /\ v2[Len(w) + 1] = First(Last(v)) /\ v2[Len(w) + 2] = Rest(Last(v))
    <2> DEFINE x == First(Last(v))
               y == Rest(Last(v))
    <2>1. v2 = w \o <<x, y>>
      OBVIOUS
    <2>3. IsSeq(w)
      BY <1>10
    <2> HIDE DEF x, y, v2
    <2>2. LET r == w \o <<x, y>>
          IN  /\ IsSeq(r) /\ Len(r) = Len(w) + 2
              /\ \A i \in 1..Len(w) : r[i] = w[i]
              /\ r[Len(w) + 1] = x /\ r[Len(w) + 2] = y
      BY <2>3, PushTwo
    <2> QED  BY <2>1, <2>2 DEF x, y
  <1> HIDE DEF v2, n, l
  <1>13. /\ Len(v2) = l + 1 /\ v2[l] \in T /\ v2[l + 1] \in T
         /\ \A i \in 1..(l - 1) : v2[i] = v[i]
    <2>1. l - 1 + 1 = l /\ l - 1 + 2 = l + 1
      BY <1>10
    <2> QED  BY <1>9, <1>10, <1>12, <2>1
  <1>14. \A i \in 1..m : o2[i] = o[i]
    BY <1>5, <1>11
  <1>15. Joins(o2, m) = l - 1 /\ Joins(o, m) = l - 1
    <2>1. Joins(o, m) = l - 1
      BY <1>3, <1>5, <1>6, <1>10
    <2>2. Joins(o2, m) = Joins(o, m)
      BY <1>11, <1>14, JoinsLocal
    <2> QED  BY <2>1, <2>2
  <1>16. Joins(o2, m + 1) = l /\ Joins(o2, m + 4) = l
    <2>1. m + 1 \in Nat /\ m + 2 \in Nat /\ m + 3 \in Nat
          /\ m + 1 + 1 = m + 2 /\ m + 2 + 1 = m + 3 /\ m + 3 + 1 = m + 4
      BY <1>11
    <2>2. Joins(o2, m + 1) = Joins(o2, m) + 1
      BY <1>11, JoinsFacts
    <2>3. Joins(o2, m + 2) = Joins(o2, m + 1) + 0 /\ Joins(o2, m + 1) \in Nat
      BY <1>11, <2>1, JoinsFacts
    <2>4. Joins(o2, m + 3) = Joins(o2, m + 2) + 0 /\ Joins(o2, m + 2) \in Nat
      BY <1>11, <2>1, JoinsFacts, ZenonT(30)
    <2>5. Joins(o2, m + 4) = Joins(o2, m + 3) + 0 /\ Joins(o2, m + 3) \in Nat
      BY <1>11, <2>1, JoinsFacts, ZenonT(30)
    <2>6. Joins(o2, m + 1) = l
      BY <1>10, <1>15, <2>2
    <2> QED  BY <2>3, <2>4, <2>5, <2>6
  <1>17. \A i \in 1..m :
             o2[i] = "_make_tuple" => IF RollAfter(o2, i) THEN v2[Joins(o2, i)] \in T
                                      ELSE ~IsTree(v2[Joins(o2, i)])
    <2>1. ASSUME NEW i \in 1..m PROVE RollAfter(o2, i) <=> RollAfter(o, i)
      <3>1. CASE i + 2 \in 1..m
        BY <1>5, <1>11, <1>14, <3>1 DEF RollAfter, n
      <3>2. CASE i = m
        <4>1. i + 2 \notin 1..n /\ o2[i+2] # "_roll"
          BY <1>5, <1>11, <3>2
        <4> QED  BY <4>1 DEF RollAfter, n
      <3>3. CASE i = m - 1
        <4>1. i + 2 = n /\ i + 2 = m + 1
          BY <1>5, <1>11, <3>3
        <4>2. o[i+2] # "_roll" /\ o2[i+2] # "_roll"
          BY <1>4, <1>11, <4>1
        <4> QED  BY <4>2 DEF RollAfter
      <3>4. i + 2 \in 1..m \/ i = m \/ i = m - 1
        BY <1>11
      <3> QED  BY <3>1, <3>2, <3>3, <3>4
    <2>2. Len(o) \in Nat /\ m <= Len(o)
      BY <1>5 DEF n
    <2>3. \A k \in 1..Joins(o, m) : v2[k] = v[k]
      BY <1>13, <1>15
    <2>4. \A i \in 1..m : RollAfter(o2, i) <=> RollAfter(o, i)
      BY <2>1
    <2> QED  BY <1>3, <1>11, <1>14, <2>2, <2>3, <2>4, WaitingBelow
  <1>18. Waiting(T, o2, v2)
    <2> SUFFICES ASSUME NEW i \in 1..(m + 4), o2[i] = "_make_tuple"
                 PROVE  IF RollAfter(o2, i) THEN v2[Joins(o2, i)] \in T
                        ELSE ~IsTree(v2[Joins(o2, i)])
      BY <1>11 DEF Waiting
    <2>1. CASE i \in 1..m
      BY <1>17, <2>1
    <2>2. CASE i = m + 1
      <3>1. i + 2 = m + 3 /\ i + 2 \in 1..(m + 4)
        BY <1>11, <2>2
      <3>2. RollAfter(o2, i)
        BY <1>11, <3>1 DEF RollAfter
      <3>3. v2[Joins(o2, i)] \in T
        BY <1>13, <1>16, <2>2
      <3> QED  BY <3>2, <3>3
    <2>3. i \in 1..m \/ i = m + 1 \/ i = m + 2 \/ i = m + 3 \/ i = m + 4
      BY <1>11
    <2>4. ~(i = m + 2 \/ i = m + 3 \/ i = m + 4)
      BY <1>11
    <2> QED  BY <2>1, <2>2, <2>3, <2>4
  <1>19. OnTop(T, o2, v2)
    <2>1. Len(o2) > 0 /\ o2[Len(o2)] = "_as_python"
      BY <1>11
    <2> QED  BY <1>13, <2>1 DEF OnTop
  <1>20. Len(v2) = 1 + Joins(o2, Len(o2))
    BY <1>10, <1>11, <1>13, <1>16
  <1>21. InStep(T, o2, v2)
    BY <1>11, <1>12, <1>18, <1>19, <1>20 DEF InStep
  <1> QED  BY <1>1, <1>21 DEF UInv

LEMMA StartAsPythonMakes ==
    ASSUME NEW T, NEW x \in T, StartAsPython(x)
    PROVE  UInv(T)'
  <1> DEFINE o == <<"_as_python">>
             v == <<x>>
  <1>1. op_stack' = o /\ val_stack' = v /\ unconverting' = "ops"
    BY DEF StartAsPython
  <1>2. Len(o) = 1 /\ o[1] = "_as_python" /\ Len(v) = 1 /\ v[1] = x
    OBVIOUS
  <1>3. IsSeq(o) /\ IsSeq(v)
    <2>1. o \in Seq({"_as_python"}) /\ v \in Seq({x})
      OBVIOUS
    <2> QED  BY <2>1, SeqOfItsRange DEF IsSeq
  <1> HIDE DEF o, v
  <1>4. Joins(o, 1) = 0
    <2>1. Joins(o, 0) = 0 /\ Joins(o, 0 + 1) = Joins(o, 0) + (IF o[0+1] = "_make_tuple" THEN 1 ELSE 0)
      BY JoinsFacts
    <2>2. 0 + 1 = 1
      OBVIOUS
    <2> QED  BY <1>2, <2>1, <2>2
  <1>5. Blocks(o)
    BY <1>2 DEF Blocks
  <1>6. Waiting(T, o, v)
    BY <1>2 DEF Waiting
  <1>7. OnTop(T, o, v)
    BY <1>2 DEF OnTop
  <1>8. InStep(T, o, v)
    BY <1>2, <1>3, <1>4, <1>5, <1>6, <1>7 DEF InStep
  <1> QED  BY <1>1, <1>8 DEF UInv

LEMMA UnconversionStepKeeps ==
    ASSUME NEW T, ClosedTrees(T), UInv(T), UnconversionStep
    PROVE  UInv(T)'
  <1>1. CASE Roll         BY <1>1, RollKeeps
  <1>2. CASE MakeTuple    BY <1>2, MakeTupleKeeps
  <1>3. CASE AtomAsPython BY <1>3, AtomAsPythonKeeps
  <1>4. CASE PairAsPython BY <1>4, PairAsPythonKeeps
  <1>5. CASE EndAsPython
    BY <1>5 DEF EndAsPython, UInv
  <1> QED  BY <1>1, <1>2, <1>3, <1>4, <1>5 DEF UnconversionStep

LEMMA UInvFinds ==
    ASSUME NEW T, ClosedTrees(T), UInv(T)
    PROVE  FindsItsValues
  <1> DEFINE o == op_stack
             v == val_stack
  <1>1. CASE unconverting = "no"
    BY <1>1 DEF UInv, FindsItsValues
  <1>2. CASE unconverting = "done"
    <2>1. InStep(T, o, v) /\ Len(o) = 0
      BY <1>2 DEF UInv
    <2>2. ~IsTree(v[Len(v)]) /\ Len(v) = 1 + Joins(o, Len(o))
      BY <2>1 DEF InStep, OnTop
    <2> QED  BY <1>2, <2>2 DEF FindsItsValues, Last
  <1>3. CASE unconverting = "ops" /\ o = <<>>
    <2>1. Len(v) = 1 + Joins(o, Len(o))
      BY <1>3 DEF UInv, InStep
    <2> QED  BY <1>3, <2>1 DEF FindsItsValues
  <1>4. CASE unconverting = "ops" /\ o # <<>>
    <2>1. InStep(T, o, v)
      BY <1>4 DEF UInv
    <2>2. /\ Len(o) > 0 /\ Last(o) = o[Len(o)] /\ IsSeq(v) /\ Len(v) = 1 + Joins(o, Len(o))
          /\ o[Len(o)] \in {"_make_tuple", "_as_python", "_roll"}
      <3>1. IsSeq(o) /\ Blocks(o) /\ IsSeq(v) /\ Len(v) = 1 + Joins(o, Len(o))
        BY <2>1 DEF InStep
      <3>2. Len(o) \in Nat \ {0} /\ Len(o) > 0
        BY <1>4, <3>1 DEF IsSeq
      <3>3. Len(o) \in 1..Len(o)
        BY <3>2
      <3> QED  BY <3>1, <3>2, <3>3 DEF Blocks, Last
    <2>3. FromTop(v, 1) = v[Len(v)] /\ FromTop(v, 2) = v[Len(v) - 1]
      <3>1. Len(v) - 1 + 1 = Len(v) /\ Len(v) - 2 + 1 = Len(v) - 1
        BY <2>2 DEF IsSeq
      <3> QED  BY <3>1 DEF FromTop
    <2>4. CASE o[Len(o)] = "_as_python"
      <3>1. IsTree(v[Len(v)])
        BY <2>1, <2>2, <2>4 DEF InStep, OnTop, ClosedTrees
      <3> QED  BY <1>4, <2>2, <2>3, <2>4, <3>1 DEF FindsItsValues
    <2>5. CASE o[Len(o)] = "_roll"
      <3>1. ~IsTree(v[Len(v)]) /\ v[Len(v) - 1] \in T
        BY <2>1, <2>2, <2>5, RollFinds
      <3>2. IsTree(v[Len(v) - 1])
        BY <3>1 DEF ClosedTrees
      <3> QED  BY <1>4, <2>2, <2>3, <2>5, <3>1, <3>2 DEF FindsItsValues
    <2>6. CASE o[Len(o)] = "_make_tuple"
      <3>1. ~IsTree(v[Len(v)]) /\ ~IsTree(v[Len(v) - 1])
        BY <2>1, <2>2, <2>6, MakeTupleFinds
      <3> QED  BY <1>4, <2>2, <2>3, <2>6, <3>1 DEF FindsItsValues
    <2> QED  BY <2>2, <2>4, <2>5, <2>6
  <1> QED  BY <1>1, <1>2, <1>3, <1>4 DEF UInv

\* as_python, called again and again for any trees, with nothing else touching
\* its stacks: every operation finds what it needs, so no pop fails and no value
\* is converted twice.
THEOREM AsPythonFindsItsValues ==
    ASSUME NEW CONSTANT T, ClosedTrees(T)
    PROVE  UnconversionInit /\ [][UnconversionStep \/ \E x \in T : StartAsPython(x)]_unconversion
           => []FindsItsValues
  <1>1. UnconversionInit => UInv(T)
    BY DEF UnconversionInit, UInv
  <1>2. UInv(T) /\ [UnconversionStep \/ \E x \in T : StartAsPython(x)]_unconversion => UInv(T)'
    BY UnconversionStepKeeps, StartAsPythonMakes DEF unconversion, UInv
  <1>3. UInv(T) => FindsItsValues
    BY UInvFinds
  <1> QED  BY <1>1, <1>2, <1>3, PTL

-----------------------------------------------------------------------------
(***************************************************************************)
(* What to_sexp_type comes to                                              *)
(*                                                                         *)
(* An operation, together with all that is pushed on its behalf, takes one *)
(* point to another: a point is a set with the stack in it, or without any *)
(* when the conversion fails.                                              *)
(***************************************************************************)
DoOp(x, p) ==
    IF x.op = "convert"
    THEN { Append(Front(s), TreeOf(Last(s))) : s \in { s \in p : CanConvert(Last(s)) } }
    ELSE { [Front(s) EXCEPT ![x.target] =
               CASE x.op = "set_left"  -> Pair(Last(s), Rest(s[x.target]))
                 [] x.op = "set_right" -> Pair(First(s[x.target]), Last(s))
                 [] x.op = "prepend"   -> Pair(Last(s), s[x.target])] : s \in p }

\* What an operation converts is no CLVM object yet.
ToConvert(V) == { v \in V : ~looks_like_clvm_object(v) }

IsPlan(V, goal, o, p, r) ==
    /\ r[0] = goal /\ r[Len(o)] = p
    /\ \A i \in 1..Len(o) :
           /\ r[i - 1] = DoOp(o[i], r[i])
           /\ o[i].op = "convert" => \A s \in r[i] : Last(s) \in ToConvert(V)

\* The operations o lead from the point p to the goal, and only values of V that
\* are no CLVM objects yet are converted on the way.
Planned(V, goal, o, p) == \E r : IsPlan(V, goal, o, p, r)

\* With no operation left the goal is reached.
LEMMA PlanEnds ==
    ASSUME NEW V, NEW goal, NEW p
    PROVE  Planned(V, goal, <<>>, p) <=> p = goal
  <1>1. ASSUME Planned(V, goal, <<>>, p) PROVE p = goal
    BY <1>1 DEF Planned, IsPlan
  <1>2. ASSUME p = goal PROVE Planned(V, goal, <<>>, p)
    <2> DEFINE r == [i \in {0} |-> p]
    <2>1. IsPlan(V, goal, <<>>, p, r)
      BY <1>2 DEF IsPlan
    <2> HIDE DEF r
    <2> QED  BY <2>1 DEF Planned
  <1> QED  BY <1>1, <1>2

\* An operation is pushed that leads to the point there was.
LEMMA PlanPush ==
    ASSUME NEW V, NEW goal, NEW o, NEW p, IsSeq(o), NEW x,
           x.op = "convert" => \A s \in p : Last(s) \in ToConvert(V),
           Planned(V, goal, o, DoOp(x, p))
    PROVE  Planned(V, goal, Append(o, x), p) /\ IsSeq(Append(o, x))
  <1>1. PICK r : IsPlan(V, goal, o, DoOp(x, p), r)
    BY DEF Planned
  <1> DEFINE n  == Len(o)
             o2 == Append(o, x)
             q  == DoOp(x, p)
             r2 == [i \in 0..(n + 1) |-> IF i = n + 1 THEN p ELSE r[i]]
  <1>2. /\ IsSeq(o2) /\ Len(o2) = n + 1 /\ n \in Nat /\ o2[n + 1] = x
        /\ \A i \in 1..n : o2[i] = o[i]
    BY AppendFacts DEF IsSeq
  <1>3. r2[n + 1] = p /\ \A i \in 0..n : r2[i] = r[i]
    BY <1>2
  <1>4. /\ r[0] = goal /\ r[n] = q
        /\ \A i \in 1..n : /\ r[i - 1] = DoOp(o[i], r[i])
                           /\ o[i].op = "convert" => \A s \in r[i] : Last(s) \in ToConvert(V)
    BY <1>1 DEF IsPlan
  <1>5. q = DoOp(x, p)
    OBVIOUS
  <1> HIDE DEF n, o2, q, r2
  <1>6. ASSUME NEW i \in 1..(n + 1)
        PROVE  /\ r2[i - 1] = DoOp(o2[i], r2[i])
               /\ o2[i].op = "convert" => \A s \in r2[i] : Last(s) \in ToConvert(V)
    <2>1. CASE i = n + 1
      <3>1. i - 1 = n /\ n \in 0..n
        BY <1>2, <2>1
      <3>2. r2[i] = p /\ o2[i] = x /\ r2[i - 1] = q
        BY <1>2, <1>3, <1>4, <2>1, <3>1
      <3> QED  BY <1>5, <3>2
    <2>2. CASE i # n + 1
      <3>1. i \in 1..n /\ i \in 0..n /\ i - 1 \in 0..n
        BY <1>2, <2>2
      <3>2. r2[i] = r[i] /\ r2[i - 1] = r[i - 1] /\ o2[i] = o[i]
        BY <1>2, <1>3, <3>1
      <3> QED  BY <1>4, <3>1, <3>2
    <2> QED  BY <2>1, <2>2
  <1>7. r2[0] = goal
    BY <1>2, <1>3, <1>4
  <1>8. IsPlan(V, goal, o2, p, r2)
    BY <1>2, <1>3, <1>6, <1>7 DEF IsPlan
  <1>9. Planned(V, goal, o2, p)
    BY <1>8 DEF Planned
  <1> QED  BY <1>2, <1>9 DEF o2

\* The last operation is done.
LEMMA PlanPop ==
    ASSUME NEW V, NEW goal, NEW o, NEW p, IsSeq(o), Len(o) > 0, Planned(V, goal, o, p)
    PROVE  /\ Planned(V, goal, Front(o), DoOp(Last(o), p))
           /\ Last(o).op = "convert" => \A s \in p : Last(s) \in ToConvert(V)
           /\ IsSeq(Front(o))
  <1>1. PICK r : IsPlan(V, goal, o, p, r)
    BY DEF Planned
  <1> DEFINE n  == Len(o)
             o2 == Front(o)
  <1>2. /\ IsSeq(o2) /\ Len(o2) = n - 1 /\ n \in Nat \ {0}
        /\ \A i \in 1..(n - 1) : o2[i] = o[i]
    BY FrontFacts DEF IsSeq, Front
  <1>3. Last(o) = o[n] /\ n \in 1..n
    BY <1>2 DEF Last
  <1>4. /\ r[0] = goal /\ r[n] = p
        /\ \A i \in 1..n : /\ r[i - 1] = DoOp(o[i], r[i])
                           /\ o[i].op = "convert" => \A s \in r[i] : Last(s) \in ToConvert(V)
    BY <1>1 DEF IsPlan
  <1> HIDE DEF n, o2
  <1>5. r[n - 1] = DoOp(Last(o), p) /\ (Last(o).op = "convert" => \A s \in p : Last(s) \in ToConvert(V))
    BY <1>3, <1>4
  <1>6. \A i \in 1..(n - 1) : /\ r[i - 1] = DoOp(o2[i], r[i])
                              /\ o2[i].op = "convert" => \A s \in r[i] : Last(s) \in ToConvert(V)
    BY <1>2, <1>4
  <1>7. IsPlan(V, goal, o2, DoOp(Last(o), p), r)
    BY <1>2, <1>4, <1>5, <1>6 DEF IsPlan
  <1>8. Planned(V, goal, o2, DoOp(Last(o), p))
    BY <1>7 DEF Planned
  <1> QED  BY <1>2, <1>5, <1>8 DEF o2

\* What has failed stays so.
LEMMA PlanFails ==
    ASSUME NEW V, NEW goal, NEW o, IsSeq(o), Planned(V, goal, o, {})
    PROVE  goal = {}
  <1>1. PICK r : IsPlan(V, goal, o, {}, r)
    BY DEF Planned
  <1> DEFINE n == Len(o)
             S == { k \in 0..n : r[n - k] = {} }
  <1>2. n \in Nat
    BY DEF IsSeq
  <1>3. r[0] = goal /\ r[n] = {} /\ \A i \in 1..n : r[i - 1] = DoOp(o[i], r[i])
    BY <1>1 DEF IsPlan
  <1>4. \A x : DoOp(x, {}) = {}
    BY DEF DoOp
  <1> HIDE DEF n
  <1>5. n - 0 = n
    BY <1>2
  <1>6. 0 \in S
    BY <1>2, <1>3, <1>5
  <1>7. ASSUME NEW k \in 0..(n - 1), k \in S PROVE k + 1 \in S
    <2>1. n - k \in 1..n /\ n - (k + 1) = n - k - 1 /\ k + 1 \in 0..n
      BY <1>2
    <2>2. r[n - k - 1] = DoOp(o[n - k], r[n - k])
      BY <1>3, <2>1
    <2>3. r[n - k] = {}
      BY <1>7
    <2>4. r[n - (k + 1)] = {}
      BY <1>4, <2>1, <2>2, <2>3
    <2> QED  BY <2>1, <2>4
  <1> HIDE DEF S
  <1>8. \A k \in 0..n : k \in S
    <2>1. \A k \in 0..(n - 1) : k \in S => k + 1 \in S
      BY <1>7
    <2> QED  BY <1>2, <1>6, <2>1, BoundedInduction
  <1>9. n \in S /\ n - n = 0
    BY <1>2, <1>8
  <1> QED  BY <1>3, <1>9 DEF S

\* ... so after a failure any operation may be pushed.
LEMMA FailurePush ==
    ASSUME NEW V, NEW goal, NEW o, IsSeq(o), NEW x, Planned(V, goal, o, {})
    PROVE  Planned(V, goal, Append(o, x), {}) /\ IsSeq(Append(o, x))
  <1>1. DoOp(x, {}) = {}
    BY DEF DoOp
  <1>2. Planned(V, goal, o, DoOp(x, {})) /\ \A s \in {} : Last(s) \in ToConvert(V)
    BY <1>1
  <1> QED  BY <1>2, PlanPush

Only(ok, s) == IF ok THEN {s} ELSE {}

\* What each operation makes of the one stack there is.
LEMMA DoConvert ==
    ASSUME NEW s
    PROVE  DoOp(Convert, {s}) = Only(CanConvert(Last(s)), Append(Front(s), TreeOf(Last(s))))
  BY DEF DoOp, Convert, Only

LEMMA DoSetLeftOp ==
    ASSUME NEW s, NEW t
    PROVE  DoOp(SetLeft(t), {s}) = {[Front(s) EXCEPT ![t] = Pair(Last(s), Rest(s[t]))]}
  <1>1. SetLeft(t).op = "set_left" /\ SetLeft(t).target = t
    BY DEF SetLeft
  <1> QED  BY <1>1 DEF DoOp

LEMMA DoSetRightOp ==
    ASSUME NEW s, NEW t
    PROVE  DoOp(SetRight(t), {s}) = {[Front(s) EXCEPT ![t] = Pair(First(s[t]), Last(s))]}
  <1>1. SetRight(t).op = "set_right" /\ SetRight(t).target = t
    BY DEF SetRight
  <1> QED  BY <1>1 DEF DoOp

LEMMA DoPrependOp ==
    ASSUME NEW s, NEW t
    PROVE  DoOp(Prepend(t), {s}) = {[Front(s) EXCEPT ![t] = Pair(Last(s), s[t])]}
  <1>1. Prepend(t).op = "prepend" /\ Prepend(t).target = t
    BY DEF Prepend
  <1> QED  BY <1>1 DEF DoOp

\* A value is pushed and taken off again.
LEMMA PushAndTake ==
    ASSUME NEW s, IsSeq(s), NEW y
    PROVE  /\ Last(Append(s, y)) = y /\ Front(Append(s, y)) = s
           /\ IsSeq(Append(s, y))
           /\ \A t \in 1..Len(s) : Append(s, y)[t] = s[t]
  <1> DEFINE s2 == Append(s, y)
             f  == Front(s2)
  <1>1. /\ IsSeq(s2) /\ Len(s2) = Len(s) + 1 /\ Len(s) \in Nat
        /\ \A i \in 1..Len(s) : s2[i] = s[i]
        /\ s2[Len(s) + 1] = y
    BY AppendFacts DEF IsSeq
  <1>2. Len(s2) > 0
    BY <1>1
  <1>3. IsSeq(f) /\ Len(f) = Len(s2) - 1 /\ \A i \in 1..(Len(s2) - 1) : f[i] = s2[i]
    BY <1>1, <1>2, FrontFacts DEF IsSeq, Front
  <1> HIDE DEF s2, f
  <1>4. Last(s2) = y
    BY <1>1 DEF Last
  <1>5. f = s
    <2>1. Len(f) = Len(s) /\ \A i \in 1..Len(s) : f[i] = s[i]
      BY <1>1, <1>3
    <2>2. /\ f = [i \in 1..Len(f) |-> f[i]] /\ s = [i \in 1..Len(s) |-> s[i]]
      BY <1>3 DEF IsSeq
    <2> QED  BY <2>1, <2>2
  <1> QED  BY <1>1, <1>4, <1>5 DEF s2, f

\* A value is set in a sequence.
LEMMA SetFacts ==
    ASSUME NEW s, IsSeq(s), NEW t \in 1..Len(s), NEW y
    PROVE  /\ IsSeq([s EXCEPT ![t] = y]) /\ Len([s EXCEPT ![t] = y]) = Len(s)
           /\ [s EXCEPT ![t] = y][t] = y
  <1> DEFINE S == Range(s) \cup {y}
             e == [s EXCEPT ![t] = y]
  <1>1. s \in Seq(S) /\ y \in S
    <2>1. s \in Seq(Range(s)) /\ Range(s) \subseteq S
      BY DEF IsSeq
    <2> HIDE DEF S
    <2>2. s \in Seq(S)
      BY <2>1, SeqMonotonic
    <2> QED  BY <2>2 DEF S
  <1> HIDE DEF S
  <1>2. /\ e \in Seq(S) /\ Len(e) = Len(s)
        /\ \A j \in 1..Len(s) : e[j] = IF j = t THEN y ELSE s[j]
    BY <1>1, ExceptSeq
  <1> HIDE DEF e
  <1>3. IsSeq(e)
    BY <1>2, SeqOfItsRange DEF IsSeq
  <1> QED  BY <1>2, <1>3 DEF e

\* A value is set in a sequence, and another one pushed.
LEMMA SetAndPush ==
    ASSUME NEW s, IsSeq(s), NEW t \in 1..Len(s), NEW x, NEW y
    PROVE  [Append(s, x) EXCEPT ![t] = y] = Append([s EXCEPT ![t] = y], x)
  <1> DEFINE S == Range(s) \cup {x, y}
  <1>1. s \in Seq(S)
    <2>1. s \in Seq(Range(s)) /\ Range(s) \subseteq S
      BY DEF IsSeq
    <2> HIDE DEF S
    <2> QED  BY <2>1, SeqMonotonic
  <1>2. x \in S /\ y \in S
    OBVIOUS
  <1> HIDE DEF S
  <1> DEFINE e == [s EXCEPT ![t] = y]
             a == [Append(s, x) EXCEPT ![t] = y]
  <1>3. /\ e \in Seq(S) /\ Len(e) = Len(s)
        /\ \A j \in 1..Len(s) : e[j] = IF j = t THEN y ELSE s[j]
    BY <1>1, <1>2, ExceptSeq
  <1>4. Append(s, x) \in Seq(S) /\ Len(Append(s, x)) = Len(s) + 1 /\ Len(s) \in Nat
        /\ Append(s, x)[Len(s) + 1] = x /\ \A j \in 1..Len(s) : Append(s, x)[j] = s[j]
    BY <1>1, <1>2
  <1>5. /\ a \in Seq(S) /\ Len(a) = Len(s) + 1
        /\ \A j \in 1..(Len(s) + 1) : a[j] = IF j = t THEN y ELSE Append(s, x)[j]
    <2> DEFINE b == Append(s, x)
    <2>1. b \in Seq(S) /\ t \in 1..Len(b) /\ Len(b) = Len(s) + 1
      BY <1>4
    <2> HIDE DEF b
    <2>2. /\ [b EXCEPT ![t] = y] \in Seq(S) /\ Len([b EXCEPT ![t] = y]) = Len(b)
          /\ \A j \in 1..Len(b) : [b EXCEPT ![t] = y][j] = IF j = t THEN y ELSE b[j]
      BY <1>2, <2>1, ExceptSeq
    <2> QED  BY <2>1, <2>2 DEF b
  <1> HIDE DEF e, a
  <1>6. /\ Append(e, x) \in Seq(S) /\ Len(Append(e, x)) = Len(s) + 1
        /\ Append(e, x)[Len(s) + 1] = x /\ \A j \in 1..Len(s) : Append(e, x)[j] = e[j]
    BY <1>2, <1>3
  <1>7. a = Append(e, x)
    <2> DEFINE f == Append(e, x)
    <2>1. /\ f \in Seq(S) /\ Len(f) = Len(s) + 1
          /\ f[Len(s) + 1] = x /\ \A j \in 1..Len(s) : f[j] = e[j]
      BY <1>6
    <2> HIDE DEF f
    <2>2. a = [i \in 1..Len(a) |-> a[i]] /\ f = [i \in 1..Len(f) |-> f[i]]
      BY <1>5, <2>1
    <2>3. \A i \in 1..(Len(s) + 1) : a[i] = f[i]
      <3> TAKE i \in 1..(Len(s) + 1)
      <3>1. CASE i = Len(s) + 1
        BY <1>4, <1>5, <2>1, <3>1
      <3>2. CASE i # Len(s) + 1
        <4>1. i \in 1..Len(s)
          BY <1>4, <3>2
        <4> QED  BY <1>3, <1>4, <1>5, <2>1, <4>1
      <3> QED  BY <3>1, <3>2
    <2> QED  BY <1>5, <2>1, <2>2, <2>3 DEF f
  <1> QED  BY <1>7 DEF e, a

\* Setting a place of a sequence again, or to what it holds.
LEMMA SetAgain ==
    ASSUME NEW s, IsSeq(s), NEW t \in 1..Len(s), NEW x, NEW y
    PROVE  /\ [[s EXCEPT ![t] = x] EXCEPT ![t] = y] = [s EXCEPT ![t] = y]
           /\ [s EXCEPT ![t] = s[t]] = s
  <1>1. s = [i \in 1..Len(s) |-> s[i]] /\ DOMAIN s = 1..Len(s)
    BY DEF IsSeq
  <1> QED  BY <1>1

\* ... or the last one.
LEMMA SetLast ==
    ASSUME NEW s, IsSeq(s), NEW x, NEW y
    PROVE  [Append(s, x) EXCEPT ![Len(s) + 1] = y] = Append(s, y)
  <1> DEFINE a == Append(s, x)
             b == Append(s, y)
             n == Len(s) + 1
  <1>1. /\ IsSeq(a) /\ Len(a) = n /\ \A i \in 1..Len(s) : a[i] = s[i]
        /\ IsSeq(b) /\ Len(b) = n /\ \A i \in 1..Len(s) : b[i] = s[i]
        /\ b[n] = y /\ Len(s) \in Nat
    BY AppendFacts DEF IsSeq
  <1> HIDE DEF a, b
  <1>2. a = [i \in 1..n |-> a[i]] /\ b = [i \in 1..n |-> b[i]]
    BY <1>1 DEF IsSeq
  <1>3. \A i \in 1..n : i # n => a[i] = b[i]
    BY <1>1
  <1> HIDE DEF n
  <1>4. [a EXCEPT ![n] = y] = [i \in 1..n |-> IF i = n THEN y ELSE a[i]]
    BY <1>2
  <1>5. \A i \in 1..n : (IF i = n THEN y ELSE a[i]) = b[i]
    BY <1>1, <1>3
  <1> QED  BY <1>2, <1>4, <1>5 DEF a, b, n

\* What the equations say of each kind of value.
LEMMA MeaningOfObject ==
    ASSUME NEW V, NEW D, AreMeanings(V, D), NEW v \in V, looks_like_clvm_object(v)
    PROVE  CanConvert(v) /\ TreeOf(v) = v
  <1>1. CanConvert(v) = CanConvertOf(v) /\ (CanConvert(v) => TreeOf(v) = TreeOfOf(v))
    BY DEF AreMeanings
  <1>2. CanConvertOf(v) = TRUE
    BY DEF CanConvertOf, looks_like_clvm_object
  <1>3. TreeOfOf(v) = v
    BY DEF TreeOfOf, looks_like_clvm_object
  <1> QED  BY <1>1, <1>2, <1>3

LEMMA MeaningOfTuple ==
    ASSUME NEW V, NEW D, AreMeanings(V, D), NEW v \in V, Kind(v) = "tuple"
    PROVE  /\ CanConvert(v) <=> Len(v.tuple) = 2 /\ CanConvert(v.tuple[1]) /\ CanConvert(v.tuple[2])
           /\ CanConvert(v) => TreeOf(v) = Pair(TreeOf(v.tuple[1]), TreeOf(v.tuple[2]))
  <1>1. CanConvert(v) = CanConvertOf(v) /\ (CanConvert(v) => TreeOf(v) = TreeOfOf(v))
    BY DEF AreMeanings
  <1>2. ~looks_like_clvm_object(v) /\ Kind(v) # "list"
    BY DEF looks_like_clvm_object
  <1>3. CanConvertOf(v) = (Len(v.tuple) = 2 /\ \A i \in 1..2 : CanConvert(v.tuple[i]))
    BY <1>2 DEF CanConvertOf
  <1>4. TreeOfOf(v) = Pair(TreeOf(v.tuple[1]), TreeOf(v.tuple[2]))
    BY <1>2 DEF TreeOfOf
  <1>5. (\A i \in 1..2 : CanConvert(v.tuple[i])) <=> CanConvert(v.tuple[1]) /\ CanConvert(v.tuple[2])
    <2>1. 1..2 = {1, 2}
      OBVIOUS
    <2> QED  BY <2>1, Zenon
  <1>6. CanConvert(v) <=> Len(v.tuple) = 2 /\ \A i \in 1..2 : CanConvert(v.tuple[i])
    BY <1>1, <1>3, Zenon
  <1>7. CanConvert(v) <=> Len(v.tuple) = 2 /\ CanConvert(v.tuple[1]) /\ CanConvert(v.tuple[2])
    BY <1>5, <1>6, Zenon
  <1> QED  BY <1>1, <1>4, <1>7, Zenon

AllConvert(s) == \A i \in 1..Len(s) : CanConvert(s[i])

LEMMA MeaningOfList ==
    ASSUME NEW V, NEW D, AreMeanings(V, D), NEW v \in V, Kind(v) = "list"
    PROVE  /\ CanConvert(v) <=> AllConvert(v.list)
           /\ CanConvert(v) => TreeOf(v) = ListTree(v.list)
  <1>1. CanConvert(v) = CanConvertOf(v) /\ (CanConvert(v) => TreeOf(v) = TreeOfOf(v))
    BY DEF AreMeanings
  <1>2. ~looks_like_clvm_object(v) /\ Kind(v) # "tuple"
    BY DEF looks_like_clvm_object
  <1>3. CanConvertOf(v) = AllConvert(v.list)
    BY <1>2 DEF CanConvertOf, AllConvert
  <1>4. TreeOfOf(v) = ListTree(v.list)
    BY <1>2 DEF TreeOfOf
  <1> QED  BY <1>1, <1>3, <1>4, Zenon

LEMMA MeaningOfAtom ==
    ASSUME NEW V, NEW D, AreMeanings(V, D), NEW v \in V, Kind(v) \notin {"tuple", "list"},
           ~looks_like_clvm_object(v)
    PROVE  /\ CanConvert(v) <=> Convertible(v)
           /\ CanConvert(v) => TreeOf(v) = Atom(convert_atom_to_bytes(v))
  <1>1. CanConvert(v) = CanConvertOf(v) /\ (CanConvert(v) => TreeOf(v) = TreeOfOf(v))
    BY DEF AreMeanings
  <1>2. Kind(v) # "tuple" /\ Kind(v) # "list"
    OBVIOUS
  <1>3. CanConvertOf(v) = Convertible(v)
    BY <1>2 DEF CanConvertOf
  <1>4. TreeOfOf(v) = Atom(convert_atom_to_bytes(v))
    BY <1>2 DEF TreeOfOf
  <1> QED  BY <1>1, <1>3, <1>4, Zenon

LEMMA MeaningOfItems ==
    ASSUME NEW V, NEW D, AreMeanings(V, D), NEW s \in Seq(V)
    PROVE  /\ s = <<>> => AllConvert(s) /\ ListTree(s) = Null
           /\ s # <<>> => /\ Head(s) \in V /\ Tail(s) \in Seq(V)
                          /\ AllConvert(s) <=> CanConvert(Head(s)) /\ AllConvert(Tail(s))
                          /\ AllConvert(s) => ListTree(s) = Pair(TreeOf(Head(s)), ListTree(Tail(s)))
  <1>1. AllConvert(s) => ListTree(s) = ListTreeOf(s)
    BY DEF AreMeanings, AllConvert
  <1>2. ASSUME s = <<>> PROVE AllConvert(s) /\ ListTree(s) = Null
    <2>1. AllConvert(s)
      BY <1>2 DEF AllConvert
    <2> QED  BY <1>1, <1>2, <2>1 DEF ListTreeOf
  <1>3. ASSUME s # <<>>
        PROVE  /\ Head(s) \in V /\ Tail(s) \in Seq(V)
               /\ AllConvert(s) <=> CanConvert(Head(s)) /\ AllConvert(Tail(s))
               /\ AllConvert(s) => ListTree(s) = Pair(TreeOf(Head(s)), ListTree(Tail(s)))
    <2>1. Head(s) \in V /\ Tail(s) \in Seq(V) /\ Head(s) = s[1]
      BY <1>3
    <2>2. Len(s) \in Nat \ {0} /\ Len(Tail(s)) = Len(s) - 1
      BY <1>3
    <2>3. \A i \in 1..(Len(s) - 1) : Tail(s)[i] = s[i + 1]
      BY <1>3
    <2>4. AllConvert(s) <=> CanConvert(Head(s)) /\ AllConvert(Tail(s))
      <3>1. ASSUME AllConvert(s) PROVE CanConvert(Head(s)) /\ AllConvert(Tail(s))
        <4>1. CanConvert(s[1])
          BY <2>2, <3>1 DEF AllConvert
        <4>2. ASSUME NEW i \in 1..Len(Tail(s)) PROVE CanConvert(Tail(s)[i])
          <5>1. i + 1 \in 1..Len(s) /\ Tail(s)[i] = s[i + 1]
            BY <2>2, <2>3
          <5>2. CanConvert(s[i + 1])
            BY <3>1, <5>1 DEF AllConvert
          <5> QED  BY <5>1, <5>2
        <4> QED  BY <2>1, <4>1, <4>2 DEF AllConvert
      <3>2. ASSUME CanConvert(Head(s)), AllConvert(Tail(s)), NEW i \in 1..Len(s)
            PROVE  CanConvert(s[i])
        <4>1. CASE i = 1
          BY <2>1, <3>2, <4>1
        <4>2. CASE i # 1
          <5>1. i - 1 \in 1..Len(Tail(s)) /\ i - 1 \in 1..(Len(s) - 1) /\ i - 1 + 1 = i
            BY <2>2, <4>2
          <5>2. CanConvert(Tail(s)[i - 1]) /\ Tail(s)[i - 1] = s[i - 1 + 1]
            BY <2>3, <3>2, <5>1 DEF AllConvert
          <5> QED  BY <5>1, <5>2
        <4> QED  BY <4>1, <4>2
      <3>3. CanConvert(Head(s)) /\ AllConvert(Tail(s)) => AllConvert(s)
        BY <3>2 DEF AllConvert
      <3> QED  BY <3>1, <3>3
    <2>5. AllConvert(s) => ListTree(s) = Pair(TreeOf(Head(s)), ListTree(Tail(s)))
      BY <1>1, <1>3 DEF ListTreeOf
    <2> QED  BY <2>1, <2>4, <2>5
  <1> QED  BY <1>2, <1>3

-----------------------------------------------------------------------------
\* A part is pushed unless it needs no conversion, with the operation that puts
\* it where it belongs.
LEMMA PlanSide ==
    ASSUME NEW V, NEW D, AreMeanings(V, D), NEW goal, NEW o, IsSeq(o), NEW s, IsSeq(s),
           NEW part \in V, NEW x, x.op # "convert", NEW s2,
           DoOp(x, {Append(s, TreeOf(part))}) = {s2},
           looks_like_clvm_object(part) => s2 = s,
           Planned(V, goal, o, Only(CanConvert(part), s2))
    PROVE  /\ Planned(V, goal, o \o Pushed(part, <<x, Convert>>), {s \o Pushed(part, <<part>>)})
           /\ IsSeq(o \o Pushed(part, <<x, Convert>>))
           /\ IsSeq(s \o Pushed(part, <<part>>))
  <1>1. CASE looks_like_clvm_object(part)
    <2>1. o \o <<>> = o /\ s \o <<>> = s
      BY Append1 DEF IsSeq
    <2>2. Pushed(part, <<x, Convert>>) = <<>> /\ Pushed(part, <<part>>) = <<>>
      BY <1>1 DEF Pushed
    <2>3. Only(CanConvert(part), s2) = {s}
      BY <1>1, MeaningOfObject DEF Only
    <2> QED  BY <2>1, <2>2, <2>3
  <1>2. CASE ~looks_like_clvm_object(part)
    <2> DEFINE p == {Append(s, part)}
               q == Only(CanConvert(part), Append(s, TreeOf(part)))
    <2>1. o \o <<x, Convert>> = Append(Append(o, x), Convert) /\ s \o <<part>> = Append(s, part)
      BY Append1, Append2 DEF IsSeq
    <2>2. Pushed(part, <<x, Convert>>) = <<x, Convert>> /\ Pushed(part, <<part>>) = <<part>>
      BY <1>2 DEF Pushed
    <2>3. DoOp(x, q) = Only(CanConvert(part), s2)
      <3>1. CASE CanConvert(part)
        BY <3>1 DEF Only
      <3>2. CASE ~CanConvert(part)
        BY <3>2 DEF Only, DoOp
      <3> QED  BY <3>1, <3>2
    <2>4. Last(Append(s, part)) = part /\ Front(Append(s, part)) = s /\ IsSeq(Append(s, part))
      BY PushAndTake
    <2>5. DoOp(Convert, p) = q
      BY <2>4, DoConvert, Zenon
    <2> HIDE DEF p, q
    <2>6. Planned(V, goal, Append(o, x), q) /\ IsSeq(Append(o, x))
      BY <2>3, PlanPush
    <2>7. Convert.op = "convert" /\ \A z \in p : Last(z) \in ToConvert(V)
      BY <1>2, <2>4 DEF Convert, ToConvert, p
    <2>8. Planned(V, goal, Append(Append(o, x), Convert), p) /\ IsSeq(Append(Append(o, x), Convert))
      BY <2>5, <2>6, <2>7, PlanPush
    <2> QED  BY <2>1, <2>2, <2>4, <2>8 DEF p
  <1> QED  BY <1>1, <1>2

\* A value is to be converted.
LEMMA PlanConvert ==
    ASSUME NEW V, NEW goal, NEW o, IsSeq(o), Len(o) > 0, Last(o).op = "convert", NEW s,
           Planned(V, goal, o, {s})
    PROVE  /\ Last(s) \in V /\ ~looks_like_clvm_object(Last(s)) /\ IsSeq(Front(o))
           /\ Planned(V, goal, Front(o),
                      Only(CanConvert(Last(s)), Append(Front(s), TreeOf(Last(s)))))
  <1>1. /\ Planned(V, goal, Front(o), DoOp(Last(o), {s}))
        /\ \A z \in {s} : Last(z) \in ToConvert(V)
        /\ IsSeq(Front(o))
    BY PlanPop
  <1>2. DoOp(Last(o), {s}) = Only(CanConvert(Last(s)), Append(Front(s), TreeOf(Last(s))))
    BY DEF DoOp, Only
  <1> QED  BY <1>1, <1>2 DEF ToConvert

\* What is left of a conversion that leads to the goal.
CPlan(V, goal) ==
    /\ converting = "ops" => Planned(V, goal, ops, {stack})
    /\ converting = "items" =>
           /\ items \in Seq(V) /\ stack[into] = Null
           /\ Planned(V, goal, ops,
                      Only(AllConvert(items), [stack EXCEPT ![into] = ListTree(items)]))
    /\ converting = "done"   => goal = {stack}
    /\ converting = "raised" => goal = {}

Result(v) == Only(CanConvert(v), <<TreeOf(v)>>)

LEMMA StartPlans ==
    ASSUME NEW V, NEW v \in ToConvert(V), Start(v)
    PROVE  CPlan(V, Result(v))'
  <1> DEFINE g == Result(v)
             o == <<>>
             s == <<v>>
  <1>1. converting' = "ops" /\ ops' = <<Convert>> /\ stack' = <<v>>
    BY DEF Start
  <1>2. Planned(V, g, o, g)
    BY PlanEnds
  <1>3. IsSeq(o) /\ Append(o, Convert) = <<Convert>> /\ Append(o, v) = s /\ Append(o, TreeOf(v)) = <<TreeOf(v)>>
    BY DEF IsSeq, Range
  <1>4. Last(s) = v /\ Front(s) = o
    <2> HIDE DEF o
    <2>1. Last(Append(o, v)) = v /\ Front(Append(o, v)) = o
      BY <1>3, PushAndTake
    <2> QED  BY <1>3, <2>1
  <1> HIDE DEF o, s, g
  <1>5. DoOp(Convert, {s}) = g
    <2>1. DoOp(Convert, {s}) = Only(CanConvert(v), Append(o, TreeOf(v)))
      BY <1>4, DoConvert
    <2> QED  BY <1>3, <2>1 DEF Result, g
  <1>6. Planned(V, g, Append(o, Convert), {s})
    <2>1. \A z \in {s} : Last(z) \in ToConvert(V)
      BY <1>4
    <2> QED  BY <1>2, <1>3, <1>5, <2>1, PlanPush
  <1>7. Planned(V, g, ops', {stack'})
    BY <1>1, <1>3, <1>6 DEF s
  <1> QED  BY <1>1, <1>7 DEF CPlan, g

\* A conversion that is under way has its operations and values.
LEMMA TopToConvert ==
    ASSUME CInv, Doing("convert")
    PROVE  /\ converting = "ops" /\ Len(ops) > 0 /\ Last(ops).op = "convert"
           /\ IsSeq(ops) /\ IsSeq(stack) /\ IsSeq(Front(stack)) /\ Len(stack) \in Nat \ {0}
           /\ Len(Front(stack)) + 1 = Len(stack)
  <1>1. Fits(ops, stack) /\ converting = "ops" /\ ops # <<>> /\ Last(ops).op = "convert"
    BY DEF Doing, CInv
  <1>2. Len(ops) > 0 /\ IsSeq(ops) /\ IsSeq(stack) /\ Len(ops) \in Nat
    BY <1>1 DEF Fits, IsSeq
  <1>3. Len(stack) > 0
    <2>1. Puts(ops, Len(ops)) \in Nat /\ Len(stack) = 1 + Puts(ops, Len(ops))
      BY <1>1, <1>2, PutsFacts DEF Fits
    <2> QED  BY <2>1
  <1>4. IsSeq(Front(stack)) /\ Len(Front(stack)) = Len(stack) - 1 /\ Len(stack) \in Nat \ {0}
    BY <1>2, <1>3, FrontFacts DEF IsSeq, Front
  <1> QED  BY <1>1, <1>2, <1>4

LEMMA FailPlans ==
    ASSUME NEW V, NEW goal, NEW o, IsSeq(o), Planned(V, goal, o, {}), ValueError
    PROVE  CPlan(V, goal)'
  <1>1. goal = {}
    BY PlanFails
  <1>2. converting' = "raised"
    BY DEF ValueError
  <1> QED  BY <1>1, <1>2 DEF CPlan

LEMMA ConvertAtomPlans ==
    ASSUME NEW V, NEW D, PythonValues(V, D), AreMeanings(V, D), NEW goal, CInv, CPlan(V, goal),
           ConvertAtom
    PROVE  CPlan(V, goal)'
  <1> DEFINE v == Last(stack)
             y == Atom(convert_atom_to_bytes(v))
  <1>1. Doing("convert")
    BY DEF ConvertAtom
  <1>2. converting = "ops" /\ Len(ops) > 0 /\ Last(ops).op = "convert" /\ IsSeq(ops)
    BY <1>1, TopToConvert
  <1>3. Planned(V, goal, ops, {stack})
    BY <1>2 DEF CPlan
  <1>4. /\ v \in V /\ ~looks_like_clvm_object(v) /\ IsSeq(Front(ops))
        /\ Planned(V, goal, Front(ops), Only(CanConvert(v), Append(Front(stack), TreeOf(v))))
    BY <1>2, <1>3, PlanConvert
  <1>5. Kind(v) \notin {"tuple", "list"} /\ ~looks_like_clvm_object(v)
    BY <1>4 DEF ConvertAtom
  <1>6. (CanConvert(v) <=> Convertible(v)) /\ (CanConvert(v) => TreeOf(v) = y)
    <2> HIDE DEF v
    <2> QED  BY <1>4, <1>5, MeaningOfAtom
  <1>7. CASE Convertible(v)
    <2>1. stack' = Append(Front(stack), y) /\ ops' = Front(ops) /\ converting' = "ops"
      BY <1>2, <1>7 DEF ConvertAtom, Becomes
    <2>2. Only(CanConvert(v), Append(Front(stack), TreeOf(v))) = {Append(Front(stack), y)}
      BY <1>6, <1>7 DEF Only
    <2>3. Planned(V, goal, ops', {stack'})
      BY <1>4, <2>1, <2>2, Zenon
    <2> QED  BY <2>1, <2>3 DEF CPlan
  <1>8. CASE ~Convertible(v)
    <2>1. ValueError
      BY <1>8 DEF ConvertAtom
    <2>2. Planned(V, goal, Front(ops), {})
      BY <1>4, <1>6, <1>8 DEF Only
    <2> QED  BY <1>4, <2>1, <2>2, FailPlans
  <1> QED  BY <1>7, <1>8

LEMMA ConvertListPlans ==
    ASSUME NEW V, NEW D, PythonValues(V, D), AreMeanings(V, D), NEW goal, CInv, CPlan(V, goal),
           ConvertList
    PROVE  CPlan(V, goal)'
  <1> DEFINE v == Last(stack)
             f == Front(stack)
             n == Len(stack)
  <1>1. Doing("convert") /\ Kind(v) = "list"
    BY DEF ConvertList
  <1>2. /\ converting = "ops" /\ Len(ops) > 0 /\ Last(ops).op = "convert" /\ IsSeq(ops)
        /\ IsSeq(f) /\ Len(f) + 1 = n
    BY <1>1, TopToConvert
  <1>3. Planned(V, goal, ops, {stack})
    BY <1>2 DEF CPlan
  <1>4. /\ v \in V
        /\ Planned(V, goal, Front(ops), Only(CanConvert(v), Append(f, TreeOf(v))))
    BY <1>2, <1>3, PlanConvert
  <1>5. /\ stack' = Append(f, Null) /\ ops' = Front(ops)
        /\ items' = v.list /\ into' = n /\ converting' = "items"
    BY DEF ConvertList
  <1> HIDE DEF v, f, n
  <1>6. v.list \in Seq(V)
    BY <1>1, <1>4 DEF PythonValues
  <1>7. (CanConvert(v) <=> AllConvert(v.list)) /\ (CanConvert(v) => TreeOf(v) = ListTree(v.list))
    BY <1>1, <1>4, MeaningOfList
  <1>8. [Append(f, Null) EXCEPT ![n] = ListTree(v.list)] = Append(f, ListTree(v.list))
    BY <1>2, SetLast
  <1>9. Append(f, Null)[n] = Null
    BY <1>2, AppendFacts DEF IsSeq
  <1>10. Only(CanConvert(v), Append(f, TreeOf(v)))
           = Only(AllConvert(items'), [stack' EXCEPT ![into'] = ListTree(items')])
    <2>1. [stack' EXCEPT ![into'] = ListTree(items')] = Append(f, ListTree(v.list))
      BY <1>5, <1>8
    <2>2. AllConvert(items') <=> AllConvert(v.list)
      BY <1>5
    <2>3. CASE CanConvert(v)
      <3>1. AllConvert(items') /\ TreeOf(v) = ListTree(v.list)
        BY <1>7, <2>2, <2>3
      <3> QED  BY <2>1, <2>3, <3>1 DEF Only
    <2>4. CASE ~CanConvert(v)
      <3>1. ~AllConvert(items')
        BY <1>7, <2>2, <2>4
      <3> QED  BY <2>4, <3>1 DEF Only
    <2> QED  BY <2>3, <2>4
  <1>11. Planned(V, goal, ops', Only(AllConvert(items'), [stack' EXCEPT ![into'] = ListTree(items')]))
    BY <1>4, <1>5, <1>10, Zenon
  <1>12. items' \in Seq(V) /\ stack'[into'] = Null
    BY <1>5, <1>6, <1>9
  <1> QED  BY <1>5, <1>11, <1>12 DEF CPlan

LEMMA EndItemsPlans ==
    ASSUME NEW V, NEW D, PythonValues(V, D), AreMeanings(V, D), NEW goal, CInv, CPlan(V, goal),
           EndItems
    PROVE  CPlan(V, goal)'
  <1>1. converting = "items" /\ items = <<>> /\ converting' = "ops" /\ stack' = stack /\ ops' = ops
    BY DEF EndItems
  <1>2. /\ items \in Seq(V) /\ stack[into] = Null
        /\ Planned(V, goal, ops, Only(AllConvert(items), [stack EXCEPT ![into] = ListTree(items)]))
    BY <1>1 DEF CPlan
  <1>3. IsSeq(stack) /\ into \in 1..Len(stack)
    BY <1>1 DEF CInv, Fits
  <1>4. AllConvert(items) /\ ListTree(items) = Null
    BY <1>1, <1>2, MeaningOfItems
  <1>5. [stack EXCEPT ![into] = stack[into]] = stack
    BY <1>3, SetAgain
  <1>6. Only(AllConvert(items), [stack EXCEPT ![into] = ListTree(items)]) = {stack}
    BY <1>2, <1>4, <1>5 DEF Only
  <1>7. Planned(V, goal, ops', {stack'})
    BY <1>1, <1>2, <1>6
  <1> QED  BY <1>1, <1>7 DEF CPlan

LEMMA PutPlans ==
    ASSUME NEW V, NEW goal, CInv, CPlan(V, goal), DoSetLeft \/ DoSetRight \/ DoPrepend
    PROVE  CPlan(V, goal)'
  <1>1. converting = "ops" /\ ops # <<>> /\ Last(ops).op \in {"set_left", "set_right", "prepend"}
    BY DEF DoSetLeft, DoSetRight, DoPrepend, Doing
  <1>2. Len(ops) > 0 /\ IsSeq(ops)
    BY <1>1 DEF CInv, Fits, IsSeq
  <1>3. Planned(V, goal, ops, {stack})
    BY <1>1 DEF CPlan
  <1>4. Planned(V, goal, Front(ops), DoOp(Last(ops), {stack}))
    BY <1>2, <1>3, PlanPop
  <1>5. converting' = "ops" /\ ops' = Front(ops) /\ DoOp(Last(ops), {stack}) = {stack'}
    <2>1. CASE DoSetLeft
      BY <1>1, <2>1 DEF DoSetLeft, Doing, Put, Becomes, AtTarget, DoOp
    <2>2. CASE DoSetRight
      BY <1>1, <2>2 DEF DoSetRight, Doing, Put, Becomes, AtTarget, DoOp
    <2>3. CASE DoPrepend
      BY <1>1, <2>3 DEF DoPrepend, Doing, Put, Becomes, AtTarget, DoOp
    <2> QED  BY <2>1, <2>2, <2>3
  <1>6. Planned(V, goal, ops', {stack'})
    BY <1>4, <1>5
  <1> QED  BY <1>5, <1>6 DEF CPlan

LEMMA EndConversionPlans ==
    ASSUME NEW V, NEW goal, CInv, CPlan(V, goal), EndConversion
    PROVE  CPlan(V, goal)'
  <1>1. converting = "ops" /\ ops = <<>> /\ stack' = stack
        /\ converting' = (IF Len(stack) = 1 THEN "done" ELSE "raised")
    BY DEF EndConversion
  <1>2. Len(stack) = 1 + Puts(ops, Len(ops)) /\ Len(ops) = 0
    BY <1>1 DEF CInv, Fits
  <1>3. Puts(ops, 0) = 0
    BY PutsFacts
  <1>4. converting' = "done"
    BY <1>1, <1>2, <1>3
  <1>5. Planned(V, goal, <<>>, {stack})
    BY <1>1 DEF CPlan
  <1>6. {stack} = goal
    BY <1>5, PlanEnds
  <1> QED  BY <1>1, <1>4, <1>6 DEF CPlan

LEMMA PairSides ==
    ASSUME NEW l, NEW r
    PROVE  First(Pair(l, r)) = l /\ Rest(Pair(l, r)) = r
  BY DEF First, Rest, Pair

\* An element of a list is pushed, and the rest of the list is what e has at t.
LEMMA PlanItem ==
    ASSUME NEW V, NEW D, AreMeanings(V, D), NEW goal, NEW o, IsSeq(o), NEW e, IsSeq(e),
           NEW t \in 1..Len(e), NEW x \in V,
           Planned(V, goal, o, Only(CanConvert(x), [e EXCEPT ![t] = Pair(TreeOf(x), e[t])]))
    PROVE  Planned(V, goal, Append(o, Prepend(t)) \o Pushed(x, <<Convert>>), {Append(e, x)})
  <1> DEFINE op == Prepend(t)
             o2 == Append(o, op)
             p  == {Append(e, x)}
             s2 == [e EXCEPT ![t] = Pair(TreeOf(x), e[t])]
             q  == Only(CanConvert(x), Append(e, TreeOf(x)))
  <1>1. op.op # "convert"
    BY DEF Prepend
  <1>2. DoOp(op, {Append(e, TreeOf(x))}) = {s2}
    <2> DEFINE a == Append(e, TreeOf(x))
    <2>1. Last(a) = TreeOf(x) /\ Front(a) = e /\ a[t] = e[t]
      BY PushAndTake
    <2> HIDE DEF a
    <2>2. DoOp(op, {a}) = {[Front(a) EXCEPT ![t] = Pair(Last(a), a[t])]}
      BY DoPrependOp
    <2> QED  BY <2>1, <2>2 DEF a
  <1>3. DoOp(op, q) = Only(CanConvert(x), s2)
    <2>1. CASE CanConvert(x)
      BY <1>2, <2>1 DEF Only
    <2>2. CASE ~CanConvert(x)
      BY <2>2 DEF Only, DoOp
    <2> QED  BY <2>1, <2>2
  <1>4. Last(Append(e, x)) = x /\ Front(Append(e, x)) = e
    BY PushAndTake
  <1>5. DoOp(Convert, p) = q
    BY <1>4, DoConvert, Zenon
  <1>6. Planned(V, goal, o, Only(CanConvert(x), s2))
    OBVIOUS
  <1>7. o2 \o <<>> = o2 /\ o2 \o <<Convert>> = Append(o2, Convert)
    <2>1. IsSeq(o2)
      BY AppendFacts DEF IsSeq
    <2> HIDE DEF o2
    <2> QED  BY <2>1, Append1 DEF IsSeq
  <1> HIDE DEF op, p, s2, q
  <1>8. Planned(V, goal, o2, q) /\ IsSeq(o2)
    BY <1>1, <1>3, <1>6, PlanPush
  <1> HIDE DEF o2
  <1>9. CASE looks_like_clvm_object(x)
    <2>1. CanConvert(x) /\ TreeOf(x) = x
      BY <1>9, MeaningOfObject
    <2>2. q = p
      BY <2>1 DEF p, q, Only
    <2>3. o2 \o Pushed(x, <<Convert>>) = o2
      BY <1>7, <1>9 DEF Pushed
    <2> QED  BY <1>8, <2>2, <2>3 DEF p, o2, op
  <1>10. CASE ~looks_like_clvm_object(x)
    <2>1. \A z \in p : Last(z) \in ToConvert(V)
      BY <1>4, <1>10 DEF p, ToConvert
    <2>2. Planned(V, goal, Append(o2, Convert), p)
      BY <1>5, <1>8, <2>1, PlanPush
    <2>3. o2 \o Pushed(x, <<Convert>>) = Append(o2, Convert)
      BY <1>7, <1>10 DEF Pushed
    <2> QED  BY <2>2, <2>3 DEF p, o2, op
  <1> QED  BY <1>9, <1>10

\* ... or, if an element to come cannot be converted, it does not matter.
LEMMA FailItem ==
    ASSUME NEW V, NEW goal, NEW o, IsSeq(o), NEW op, NEW x, Planned(V, goal, o, {})
    PROVE  Planned(V, goal, Append(o, op) \o Pushed(x, <<Convert>>), {})
  <1> DEFINE o2 == Append(o, op)
  <1>1. Planned(V, goal, o2, {}) /\ IsSeq(o2)
    BY FailurePush
  <1> HIDE DEF o2
  <1>2. Planned(V, goal, Append(o2, Convert), {})
    BY <1>1, FailurePush
  <1>3. o2 \o <<>> = o2 /\ o2 \o <<Convert>> = Append(o2, Convert)
    BY <1>1, Append1 DEF IsSeq
  <1> QED  BY <1>1, <1>2, <1>3 DEF Pushed, o2

LEMMA PushItemPlans ==
    ASSUME NEW V, NEW D, PythonValues(V, D), AreMeanings(V, D), NEW goal, CInv, CPlan(V, goal),
           PushItem
    PROVE  CPlan(V, goal)'
  <1> DEFINE x == Head(items)
             r == Tail(items)
             o == ops
             s == stack
             t == into
             e == [s EXCEPT ![t] = ListTree(r)]
             o2 == Append(o, Prepend(t)) \o Pushed(x, <<Convert>>)
             q == Only(AllConvert(items), [s EXCEPT ![t] = ListTree(items)])
             p == Only(AllConvert(r), [Append(s, x) EXCEPT ![t] = ListTree(r)])
  <1>1. converting = "items" /\ items # <<>>
    BY DEF PushItem
  <1>2. /\ stack' = Append(s, x) /\ ops' = o2 /\ items' = r /\ into' = t /\ converting' = "items"
    BY <1>1 DEF PushItem
  <1>3. items \in Seq(V) /\ s[t] = Null /\ Planned(V, goal, o, q)
    BY <1>1 DEF CPlan
  <1>4. IsSeq(o) /\ IsSeq(s) /\ t \in 1..Len(s)
    BY <1>1 DEF CInv, Fits
  <1>5. /\ x \in V /\ r \in Seq(V)
        /\ AllConvert(items) <=> CanConvert(x) /\ AllConvert(r)
        /\ AllConvert(items) => ListTree(items) = Pair(TreeOf(x), ListTree(r))
    BY <1>1, <1>3, MeaningOfItems
  <1> HIDE DEF x, r, o, s, t
  <1>6. Planned(V, goal, o2, p)
    <2>1. CASE ~AllConvert(r)
      <3>1. q = {} /\ p = {}
        BY <1>5, <2>1 DEF Only
      <3> HIDE DEF p, q
      <3> QED  BY <1>3, <1>4, <3>1, FailItem
    <2>2. CASE AllConvert(r)
      <3> DEFINE l == ListTree(r)
                 y == Pair(TreeOf(x), ListTree(r))
      <3>1. [Append(s, x) EXCEPT ![t] = ListTree(r)] = Append(e, x)
            /\ IsSeq(e) /\ Len(e) = Len(s) /\ e[t] = ListTree(r)
        <4>1. e = [s EXCEPT ![t] = l] /\ l = ListTree(r)
          OBVIOUS
        <4> HIDE DEF l
        <4>2. [Append(s, x) EXCEPT ![t] = l] = Append([s EXCEPT ![t] = l], x)
          BY <1>4, SetAndPush
        <4>5. /\ IsSeq([s EXCEPT ![t] = l]) /\ Len([s EXCEPT ![t] = l]) = Len(s)
              /\ [s EXCEPT ![t] = l][t] = l
          BY <1>4, SetFacts
        <4> DEFINE w == [Append(s, x) EXCEPT ![t] = l]
                   u == [s EXCEPT ![t] = l]
        <4>3. w = Append(u, x) /\ IsSeq(u) /\ Len(u) = Len(s) /\ u[t] = l /\ e = u
          BY <4>1, <4>2, <4>5
        <4>4. w = [Append(s, x) EXCEPT ![t] = ListTree(r)]
          BY <4>1
        <4> HIDE DEF w, u, e
        <4> QED  BY <4>1, <4>3, <4>4
      <3>2. IsSeq(e) /\ Len(e) = Len(s) /\ e[t] = ListTree(r)
        BY <3>1
      <3>3. p = {Append(e, x)}
        BY <2>2, <3>1 DEF Only
      <3>4. [e EXCEPT ![t] = Pair(TreeOf(x), e[t])] = [s EXCEPT ![t] = Pair(TreeOf(x), ListTree(r))]
        <4>1. e = [s EXCEPT ![t] = l]
          OBVIOUS
        <4>2. y = Pair(TreeOf(x), e[t])
          BY <3>2
        <4> HIDE DEF e, y, l
        <4>3. [[s EXCEPT ![t] = l] EXCEPT ![t] = y] = [s EXCEPT ![t] = y]
          BY <1>4, SetAgain
        <4> QED  BY <4>1, <4>2, <4>3 DEF y
      <3>5. q = Only(CanConvert(x), [e EXCEPT ![t] = Pair(TreeOf(x), e[t])])
        <4>1. CASE CanConvert(x)
          <5>1. AllConvert(items) /\ ListTree(items) = Pair(TreeOf(x), ListTree(r))
            BY <1>5, <2>2, <4>1
          <5>2. q = {[s EXCEPT ![t] = Pair(TreeOf(x), ListTree(r))]}
            BY <5>1 DEF Only
          <5> HIDE DEF e, q
          <5> QED  BY <3>4, <4>1, <5>2 DEF Only
        <4>2. CASE ~CanConvert(x)
          BY <1>5, <4>2 DEF Only
        <4> QED  BY <4>1, <4>2
      <3> HIDE DEF e, p, q
      <3>6. Planned(V, goal, o, Only(CanConvert(x), [e EXCEPT ![t] = Pair(TreeOf(x), e[t])]))
        BY <1>3, <3>5
      <3>7. t \in 1..Len(e)
        BY <1>4, <3>2
      <3>8. Planned(V, goal, o2, {Append(e, x)})
        BY <1>4, <1>5, <3>2, <3>6, <3>7, PlanItem
      <3> QED  BY <3>3, <3>8
    <2> QED  BY <2>1, <2>2
  <1>7. Append(s, x)[t] = Null
    BY <1>3, <1>4, PushAndTake
  <1>8. p = Only(AllConvert(items'), [stack' EXCEPT ![into'] = ListTree(items')])
    BY <1>2
  <1> HIDE DEF p, o2
  <1>9. Planned(V, goal, ops', Only(AllConvert(items'), [stack' EXCEPT ![into'] = ListTree(items')]))
    BY <1>2, <1>6, <1>8, Zenon
  <1>10. items' \in Seq(V) /\ stack'[into'] = Null
    BY <1>2, <1>5, <1>7
  <1> QED  BY <1>2, <1>9, <1>10 DEF CPlan

\* What a failed side leaves.
LEMMA FailSide ==
    ASSUME NEW V, NEW goal, NEW o, IsSeq(o), NEW x, NEW part, Planned(V, goal, o, {})
    PROVE  /\ Planned(V, goal, o \o Pushed(part, <<x, Convert>>), {})
           /\ IsSeq(o \o Pushed(part, <<x, Convert>>))
  <1>1. Planned(V, goal, Append(o, x), {}) /\ IsSeq(Append(o, x))
    BY FailurePush
  <1>2. Planned(V, goal, Append(Append(o, x), Convert), {}) /\ IsSeq(Append(Append(o, x), Convert))
    BY <1>1, FailurePush
  <1>3. o \o <<>> = o /\ o \o <<x, Convert>> = Append(Append(o, x), Convert)
    BY Append1, Append2 DEF IsSeq
  <1>4. CASE looks_like_clvm_object(part)
    BY <1>3, <1>4 DEF Pushed
  <1>5. CASE ~looks_like_clvm_object(part)
    <2>1. o \o Pushed(part, <<x, Convert>>) = Append(Append(o, x), Convert)
      BY <1>3, <1>5 DEF Pushed
    <2> QED  BY <1>2, <2>1
  <1> QED  BY <1>4, <1>5

\* The sides of a pair in place of the pair (l, r): the right one is pushed first,
\* and converted last.
LEMMA PlanSides ==
    ASSUME NEW V, NEW D, AreMeanings(V, D), NEW goal, NEW o, IsSeq(o), NEW f, IsSeq(f),
           NEW l \in V, NEW r \in V, NEW n, n = Len(f) + 1,
           Planned(V, goal, o, Only(CanConvert(l) /\ CanConvert(r),
                                    Append(f, Pair(TreeOf(l), TreeOf(r)))))
    PROVE  Planned(V, goal,
                   o \o Pushed(r, <<SetRight(n), Convert>>) \o Pushed(l, <<SetLeft(n), Convert>>),
                   {Append(f, Pair(l, r)) \o Pushed(r, <<r>>) \o Pushed(l, <<l>>)})
  <1> DEFINE s1 == Append(f, Pair(l, r))
             s  == Append(f, Pair(TreeOf(l), r))
             s2 == Append(f, Pair(TreeOf(l), TreeOf(r)))
             o2 == o \o Pushed(r, <<SetRight(n), Convert>>)
             sB == s1 \o Pushed(r, <<r>>)
             sC == s \o Pushed(r, <<r>>)
  <1>1. /\ IsSeq(s1) /\ Len(s1) = n /\ n \in Nat \ {0} /\ s1[n] = Pair(l, r)
        /\ IsSeq(s) /\ Len(s) = n /\ s[n] = Pair(TreeOf(l), r)
    BY AppendFacts DEF IsSeq
  <1>2. n \in 1..Len(s) /\ n \in 1..Len(s1)
    BY <1>1
  <1>3. SetLeft(n).op # "convert" /\ SetRight(n).op # "convert"
    BY DEF SetLeft, SetRight
  <1>4. DoOp(SetRight(n), {Append(s, TreeOf(r))}) = {s2}
    <2> DEFINE a == Append(s, TreeOf(r))
    <2>1. Last(a) = TreeOf(r) /\ Front(a) = s /\ a[n] = s[n]
      <3> HIDE DEF s
      <3> QED  BY <1>1, <1>2, PushAndTake
    <2>2. First(a[n]) = TreeOf(l)
      BY <1>1, <2>1, PairSides
    <2>3. [s EXCEPT ![n] = Pair(TreeOf(l), TreeOf(r))] = s2
      BY SetLast
    <2> HIDE DEF a, s, s2
    <2>4. DoOp(SetRight(n), {a}) = {[Front(a) EXCEPT ![n] = Pair(First(a[n]), Last(a))]}
      BY DoSetRightOp
    <2> QED  BY <2>1, <2>2, <2>3, <2>4 DEF a
  <1>5. looks_like_clvm_object(r) => s2 = s
    BY MeaningOfObject
  <1>6. CanConvert(l) => Planned(V, goal, o, Only(CanConvert(r), s2))
    BY DEF Only
  <1>7. ~CanConvert(l) => Planned(V, goal, o, {})
    BY DEF Only
  <1> HIDE DEF s1, s, s2
  <1>8. Planned(V, goal, o2, Only(CanConvert(l), sC)) /\ IsSeq(o2)
    <2>1. CASE CanConvert(l)
      <3>1. Planned(V, goal, o2, {sC}) /\ IsSeq(o2)
        BY <1>1, <1>3, <1>4, <1>5, <1>6, <2>1, PlanSide
      <3>2. Only(CanConvert(l), sC) = {sC}
        BY <2>1 DEF Only
      <3> QED  BY <3>1, <3>2
    <2>2. CASE ~CanConvert(l)
      <3>1. Planned(V, goal, o2, {}) /\ IsSeq(o2)
        BY <1>7, <2>2, FailSide
      <3>2. Only(CanConvert(l), sC) = {}
        BY <2>2 DEF Only
      <3> QED  BY <3>1, <3>2
    <2> QED  BY <2>1, <2>2
  <1>9. IsSeq(sB) /\ DoOp(SetLeft(n), {Append(sB, TreeOf(l))}) = {sC}
    <2> DEFINE a == Append(sB, TreeOf(l))
               y == Pair(TreeOf(l), r)
    <2>1. [s1 EXCEPT ![n] = y] = s
      BY SetLast DEF s1, s
    <2>2. IsSeq(sB) /\ n \in 1..Len(sB) /\ sB[n] = Pair(l, r) /\ [sB EXCEPT ![n] = y] = sC
      <3>1. CASE looks_like_clvm_object(r)
        <4>1. Pushed(r, <<r>>) = <<>> /\ s1 \o <<>> = s1 /\ s \o <<>> = s
          BY <1>1, <3>1, Append1 DEF Pushed, IsSeq
        <4>2. sB = s1 /\ sC = s
          BY <4>1
        <4> QED  BY <1>1, <1>2, <2>1, <4>2
      <3>2. CASE ~looks_like_clvm_object(r)
        <4>1. Pushed(r, <<r>>) = <<r>> /\ s1 \o <<r>> = Append(s1, r) /\ s \o <<r>> = Append(s, r)
          BY <1>1, <3>2, Append1 DEF Pushed, IsSeq
        <4>2. sB = Append(s1, r) /\ sC = Append(s, r)
          BY <4>1
        <4> HIDE DEF y, sB, sC
        <4>3. [Append(s1, r) EXCEPT ![n] = y] = Append([s1 EXCEPT ![n] = y], r)
          <5>1. IsSeq(s1) /\ n \in 1..Len(s1)
            BY <1>1, <1>2
          <5> QED  BY ONLY <5>1, SetAndPush
        <4>4. /\ IsSeq(Append(s1, r)) /\ Len(Append(s1, r)) = n + 1
              /\ Append(s1, r)[n] = s1[n]
          <5>1. /\ IsSeq(Append(s1, r)) /\ Len(Append(s1, r)) = Len(s1) + 1
                /\ \A i \in 1..Len(s1) : Append(s1, r)[i] = s1[i]
            BY <1>1, AppendFacts DEF IsSeq
          <5> QED  BY <1>1, <1>2, <5>1
        <4>5. n \in 1..(n + 1)
          BY <1>1
        <4> QED  BY <1>1, <2>1, <4>2, <4>3, <4>4, <4>5
      <3> QED  BY <3>1, <3>2
    <2> HIDE DEF sB, sC
    <2>3. Last(a) = TreeOf(l) /\ Front(a) = sB /\ a[n] = sB[n]
      BY <2>2, PushAndTake
    <2>4. Rest(a[n]) = r
      BY <2>2, <2>3, PairSides
    <2> HIDE DEF a
    <2>5. DoOp(SetLeft(n), {a}) = {[Front(a) EXCEPT ![n] = Pair(Last(a), Rest(a[n]))]}
      BY DoSetLeftOp
    <2> QED  BY <2>2, <2>3, <2>4, <2>5 DEF a
  <1>10. looks_like_clvm_object(l) => sC = sB
    <2>1. ASSUME looks_like_clvm_object(l) PROVE s = s1
      BY <2>1, MeaningOfObject DEF s, s1
    <2> QED  BY <2>1
  <1> HIDE DEF sB, sC, o2
  <1>11. Planned(V, goal, o2 \o Pushed(l, <<SetLeft(n), Convert>>), {sB \o Pushed(l, <<l>>)})
    BY <1>3, <1>8, <1>9, <1>10, PlanSide
  <1> QED  BY <1>11 DEF o2, sB, s1

LEMMA ConvertTuplePlans ==
    ASSUME NEW V, NEW D, PythonValues(V, D), AreMeanings(V, D), NEW goal, CInv, CPlan(V, goal),
           ConvertTuple
    PROVE  CPlan(V, goal)'
  <1> DEFINE v == Last(stack)
             l == v.tuple[1]
             r == v.tuple[2]
             f == Front(stack)
             n == Len(stack)
             o == Front(ops)
  <1>1. Doing("convert") /\ Kind(v) = "tuple"
    BY DEF ConvertTuple
  <1>2. /\ converting = "ops" /\ Len(ops) > 0 /\ Last(ops).op = "convert" /\ IsSeq(ops)
        /\ IsSeq(f) /\ Len(f) + 1 = n
    BY <1>1, TopToConvert
  <1>3. Planned(V, goal, ops, {stack})
    BY <1>2 DEF CPlan
  <1>4. /\ v \in V /\ IsSeq(o)
        /\ Planned(V, goal, o, Only(CanConvert(v), Append(f, TreeOf(v))))
    BY <1>2, <1>3, PlanConvert
  <1>5. CASE Len(v.tuple) # 2
    <2>1. ValueError
      BY <1>5 DEF ConvertTuple
    <2>2. ~CanConvert(v)
      <3> HIDE DEF v
      <3> QED  BY <1>1, <1>4, <1>5, MeaningOfTuple
    <2>3. Planned(V, goal, o, {})
      BY <1>4, <2>2 DEF Only
    <2> QED  BY <1>4, <2>1, <2>3, FailPlans
  <1>6. CASE Len(v.tuple) = 2
    <2>1. /\ stack' = Append(f, Pair(l, r)) \o Pushed(r, <<r>>) \o Pushed(l, <<l>>)
          /\ ops' = o \o Pushed(r, <<SetRight(n), Convert>>) \o Pushed(l, <<SetLeft(n), Convert>>)
          /\ converting' = "ops"
      BY <1>2, <1>6 DEF ConvertTuple, Becomes
    <2>2. l \in V /\ r \in V
      <3>1. v.tuple \in Seq(V)
        BY <1>1, <1>4 DEF PythonValues
      <3> HIDE DEF v
      <3> QED  BY <1>6, <3>1
    <2>3. Only(CanConvert(v), Append(f, TreeOf(v)))
            = Only(CanConvert(l) /\ CanConvert(r), Append(f, Pair(TreeOf(l), TreeOf(r))))
      <3>1. /\ CanConvert(v) <=> CanConvert(l) /\ CanConvert(r)
            /\ CanConvert(v) => TreeOf(v) = Pair(TreeOf(l), TreeOf(r))
        <4> HIDE DEF v
        <4> QED  BY <1>1, <1>4, <1>6, MeaningOfTuple
      <3> HIDE DEF v, l, r, f
      <3> QED  BY <3>1 DEF Only
    <2> HIDE DEF v, l, r, f, n, o
    <2>4. Planned(V, goal, ops', {stack'})
      <3>1. Planned(V, goal,
                   o \o Pushed(r, <<SetRight(n), Convert>>) \o Pushed(l, <<SetLeft(n), Convert>>),
                   {Append(f, Pair(l, r)) \o Pushed(r, <<r>>) \o Pushed(l, <<l>>)})
        <4>1. Planned(V, goal, o, Only(CanConvert(l) /\ CanConvert(r),
                                       Append(f, Pair(TreeOf(l), TreeOf(r)))))
          BY <1>4, <2>3
        <4> QED  BY <1>2, <1>4, <2>2, <4>1, PlanSides
      <3> QED  BY <2>1, <3>1, Zenon
    <2> QED  BY <2>1, <2>4 DEF CPlan
  <1> QED  BY <1>5, <1>6

LEMMA ConversionStepPlans ==
    ASSUME NEW V, NEW D, PythonValues(V, D), AreMeanings(V, D), NEW goal, CInv, CPlan(V, goal),
           ConversionStep
    PROVE  CPlan(V, goal)'
  <1>1. CASE ConvertTuple  BY <1>1, ConvertTuplePlans
  <1>2. CASE ConvertList   BY <1>2, ConvertListPlans
  <1>3. CASE PushItem      BY <1>3, PushItemPlans
  <1>4. CASE EndItems      BY <1>4, EndItemsPlans
  <1>5. CASE ConvertAtom   BY <1>5, ConvertAtomPlans
  <1>6. CASE DoSetLeft \/ DoSetRight \/ DoPrepend
    BY <1>6, PutPlans
  <1>7. CASE EndConversion BY <1>7, EndConversionPlans
  <1> QED  BY <1>1, <1>2, <1>3, <1>4, <1>5, <1>6, <1>7 DEF ConversionStep

-----------------------------------------------------------------------------
(***************************************************************************)
(* What as_python comes to: an operation takes one stack to another.       *)
(***************************************************************************)
DoneOp(f, s) ==
    IF f = "_as_python" THEN Append(Front(s), PythonOf(Last(s)))
    ELSE IF f = "_roll" THEN Popped(s, 2) \o <<FromTop(s, 1), FromTop(s, 2)>>
    ELSE Append(Popped(s, 2), Joined(FromTop(s, 1), FromTop(s, 2)))

IsPath(goal, o, s, r) ==
    /\ r[0] = goal /\ r[Len(o)] = s
    /\ \A i \in 1..Len(o) : r[i - 1] = DoneOp(o[i], r[i])

\* The operations o lead from the stack s to the goal.
Leads(goal, o, s) == \E r : IsPath(goal, o, s, r)

LEMMA PathEnds ==
    ASSUME NEW goal, NEW s
    PROVE  Leads(goal, <<>>, s) <=> s = goal
  <1>1. ASSUME Leads(goal, <<>>, s) PROVE s = goal
    BY <1>1 DEF Leads, IsPath
  <1>2. ASSUME s = goal PROVE Leads(goal, <<>>, s)
    <2> DEFINE r == [i \in {0} |-> s]
    <2>1. IsPath(goal, <<>>, s, r)
      BY <1>2 DEF IsPath
    <2> HIDE DEF r
    <2> QED  BY <2>1 DEF Leads
  <1> QED  BY <1>1, <1>2

LEMMA PathPush ==
    ASSUME NEW goal, NEW o, IsSeq(o), NEW f, NEW s, Leads(goal, o, DoneOp(f, s))
    PROVE  Leads(goal, Append(o, f), s) /\ IsSeq(Append(o, f))
  <1>1. PICK r : IsPath(goal, o, DoneOp(f, s), r)
    BY DEF Leads
  <1> DEFINE n  == Len(o)
             o2 == Append(o, f)
             q  == DoneOp(f, s)
             r2 == [i \in 0..(n + 1) |-> IF i = n + 1 THEN s ELSE r[i]]
  <1>2. /\ IsSeq(o2) /\ Len(o2) = n + 1 /\ n \in Nat /\ o2[n + 1] = f
        /\ \A i \in 1..n : o2[i] = o[i]
    BY AppendFacts DEF IsSeq
  <1>3. r2[n + 1] = s /\ \A i \in 0..n : r2[i] = r[i]
    BY <1>2
  <1>4. r[0] = goal /\ r[n] = q /\ \A i \in 1..n : r[i - 1] = DoneOp(o[i], r[i])
    BY <1>1 DEF IsPath
  <1>5. q = DoneOp(f, s)
    OBVIOUS
  <1> HIDE DEF n, o2, q, r2
  <1>6. ASSUME NEW i \in 1..(n + 1) PROVE r2[i - 1] = DoneOp(o2[i], r2[i])
    <2>1. CASE i = n + 1
      <3>1. i - 1 = n /\ n \in 0..n
        BY <1>2, <2>1
      <3>2. r2[i] = s /\ o2[i] = f /\ r2[i - 1] = q
        BY <1>2, <1>3, <1>4, <2>1, <3>1
      <3> QED  BY <1>5, <3>2
    <2>2. CASE i # n + 1
      <3>1. i \in 1..n /\ i \in 0..n /\ i - 1 \in 0..n
        BY <1>2, <2>2
      <3>2. r2[i] = r[i] /\ r2[i - 1] = r[i - 1] /\ o2[i] = o[i]
        BY <1>2, <1>3, <3>1
      <3> QED  BY <1>4, <3>1, <3>2
    <2> QED  BY <2>1, <2>2
  <1>7. r2[0] = goal
    BY <1>2, <1>3, <1>4
  <1>8. IsPath(goal, o2, s, r2)
    BY <1>2, <1>3, <1>6, <1>7 DEF IsPath
  <1>9. Leads(goal, o2, s)
    BY <1>8 DEF Leads
  <1> QED  BY <1>2, <1>9 DEF o2

LEMMA PathPop ==
    ASSUME NEW goal, NEW o, NEW s, IsSeq(o), Len(o) > 0, Leads(goal, o, s)
    PROVE  Leads(goal, Front(o), DoneOp(Last(o), s)) /\ IsSeq(Front(o))
  <1>1. PICK r : IsPath(goal, o, s, r)
    BY DEF Leads
  <1> DEFINE n  == Len(o)
             o2 == Front(o)
  <1>2. /\ IsSeq(o2) /\ Len(o2) = n - 1 /\ n \in Nat \ {0}
        /\ \A i \in 1..(n - 1) : o2[i] = o[i]
    BY FrontFacts DEF IsSeq, Front
  <1>3. Last(o) = o[n] /\ n \in 1..n
    BY <1>2 DEF Last
  <1>4. r[0] = goal /\ r[n] = s /\ \A i \in 1..n : r[i - 1] = DoneOp(o[i], r[i])
    BY <1>1 DEF IsPath
  <1> HIDE DEF n, o2
  <1>5. r[n - 1] = DoneOp(Last(o), s)
    BY <1>3, <1>4
  <1>6. \A i \in 1..(n - 1) : r[i - 1] = DoneOp(o2[i], r[i])
    BY <1>2, <1>4
  <1>7. IsPath(goal, o2, DoneOp(Last(o), s), r)
    BY <1>2, <1>4, <1>5, <1>6 DEF IsPath
  <1>8. Leads(goal, o2, DoneOp(Last(o), s))
    BY <1>7 DEF Leads
  <1> QED  BY <1>2, <1>8 DEF o2

-----------------------------------------------------------------------------
LEMMA TreeFacts ==
    ASSUME NEW D, Trees(D)
    PROVE  /\ ClosedTrees(D) /\ Null \in D
           /\ \A x \in D : IsAtom(x) => x = Atom(x.atom)
           /\ \A x \in D : IsPair(x) => x = Pair(First(x), Rest(x))
           /\ \A x \in D : looks_like_clvm_object(x)
  <1>1. ASSUME NEW b
        PROVE  IsAtom(Atom(b)) /\ ~IsPair(Atom(b)) /\ Atom(b).atom = b
               /\ looks_like_clvm_object(Atom(b))
    <2>1. DOMAIN Atom(b) = {"atom"} /\ Atom(b).atom = b
      BY DEF Atom
    <2>2. (CHOOSE k \in {"atom"} : TRUE) = "atom"
      OBVIOUS
    <2> QED  BY <2>1, <2>2 DEF IsAtom, IsPair, looks_like_clvm_object, Kind
  <1>2. ASSUME NEW l, NEW r
        PROVE  IsPair(Pair(l, r)) /\ ~IsAtom(Pair(l, r)) /\ First(Pair(l, r)) = l
               /\ Rest(Pair(l, r)) = r /\ looks_like_clvm_object(Pair(l, r))
    <2>1. DOMAIN Pair(l, r) = {"pair"}
      BY DEF Pair
    <2>2. (CHOOSE k \in {"pair"} : TRUE) = "pair"
      OBVIOUS
    <2> QED  BY <2>1, <2>2, PairSides DEF IsAtom, IsPair, looks_like_clvm_object, Kind
  <1>3. ASSUME NEW x \in D
        PROVE  /\ IsTree(x) /\ (IsPair(x) => First(x) \in D /\ Rest(x) \in D)
               /\ IsAtom(x) => x = Atom(x.atom)
               /\ IsPair(x) => x = Pair(First(x), Rest(x))
               /\ looks_like_clvm_object(x)
    <2>1. CASE \E b : x = Atom(b)
      BY <1>1, <2>1 DEF IsTree
    <2>2. CASE \E l, r \in D : x = Pair(l, r)
      BY <1>2, <2>2 DEF IsTree
    <2> QED  BY <2>1, <2>2 DEF Trees
  <1>4. Null \in D
    BY DEF Trees
  <1> QED  BY <1>3, <1>4 DEF ClosedTrees

\* A pair becomes what _make_tuple makes of its sides.
LEMMA PythonOfPair ==
    ASSUME NEW V, NEW D, Trees(D), AreMeanings(V, D), NEW x \in D, IsPair(x)
    PROVE  PythonOf(x) = Joined(PythonOf(First(x)), PythonOf(Rest(x)))
  <1> DEFINE l == First(x)
             r == Rest(x)
  <1>1. l \in D /\ r \in D /\ ~IsAtom(x) /\ IsTree(r)
    BY TreeFacts DEF ClosedTrees, IsAtom, IsPair
  <1> HIDE DEF l, r
  <1>2. /\ EndsInNil(x) = EndsInNil(r)
        /\ EndsInNil(x) => ListItems(x) = <<PythonOf(l)>> \o ListItems(r)
        /\ EndsInNil(r) => ListItems(r) \in Seq(V)
        /\ PythonOf(x) = (IF EndsInNil(x) THEN AsList(ListItems(x))
                          ELSE AsTuple(PythonOf(l), PythonOf(r)))
    <2>1. EndsInNil(x) = EndsInNilOf(x) /\ PythonOf(x) = PythonOfOf(x)
          /\ (EndsInNil(x) => ListItems(x) = ListItemsOf(x))
      BY DEF AreMeanings
    <2>2. EndsInNil(r) => ListItems(r) \in Seq(V)
      BY <1>1 DEF AreMeanings
    <2>3. EndsInNilOf(x) = EndsInNil(r)
      BY DEF EndsInNilOf, r
    <2>4. ListItemsOf(x) = <<PythonOf(l)>> \o ListItems(r)
      BY DEF ListItemsOf, l, r
    <2>5. PythonOfOf(x) = (IF EndsInNil(x) THEN AsList(ListItems(x))
                           ELSE AsTuple(PythonOf(l), PythonOf(r)))
      BY <1>1 DEF PythonOfOf, l, r
    <2> QED  BY <2>1, <2>2, <2>3, <2>4, <2>5, Zenon
  <1>3. /\ EndsInNil(r) = EndsInNilOf(r) /\ PythonOf(r) = PythonOfOf(r)
        /\ EndsInNil(r) => ListItems(r) = ListItemsOf(r)
    BY <1>1 DEF AreMeanings
  <1>4. \A s : ~IsList(AsBytes(s)) /\ IsList(AsList(s)) /\ AsList(s).list = s
    BY DEF IsList, AsBytes, AsList
  <1>5. CASE IsAtom(r)
    <2>1. ~IsPair(r) /\ r = Atom(r.atom)
      <3>1. r = Atom(r.atom)
        BY <1>1, <1>5, TreeFacts, Zenon
      <3>2. ~IsPair(r)
        BY <1>5 DEF IsAtom, IsPair
      <3> QED  BY <3>1, <3>2
    <2>2. PythonOf(r) = AsBytes(r) /\ EndsInNilOf(r) = Nullp(r) /\ ListItemsOf(r) = <<>>
      <3>1. PythonOfOf(r) = AsBytes(r)
        BY <1>5 DEF PythonOfOf
      <3>2. EndsInNilOf(r) = Nullp(r)
        BY <2>1 DEF EndsInNilOf
      <3>3. ListItemsOf(r) = <<>>
        BY <2>1 DEF ListItemsOf
      <3> QED  BY <1>3, <3>1, <3>2, <3>3, Zenon
    <2>3. CASE Nullp(r)
      <3>1. EndsInNil(r) /\ ListItems(r) = <<>>
        BY <1>3, <2>2, <2>3, Zenon
      <3>2. <<PythonOf(l)>> \o <<>> = <<PythonOf(l)>>
        OBVIOUS
      <3>3. PythonOf(x) = AsList(<<PythonOf(l)>>)
        BY <1>2, <3>1, <3>2
      <3>4. PythonOf(r) = AsBytes(Null)
        BY <2>2, <2>3 DEF Nullp
      <3> QED  BY <3>3, <3>4 DEF Joined, l, r
    <2>4. CASE ~Nullp(r)
      <3>1. ~EndsInNil(r)
        BY <1>3, <2>2, <2>4, Zenon
      <3>2. PythonOf(r) # AsBytes(Null)
        <4>1. r.atom # Null.atom
          BY <2>1, <2>4 DEF Nullp, Null, Atom
        <4> QED  BY <2>2, <4>1 DEF AsBytes
      <3>3. ~IsList(PythonOf(r))
        BY <2>2 DEF IsList, AsBytes
      <3> QED  BY <1>2, <3>1, <3>2, <3>3 DEF Joined, l, r
    <2> QED  BY <2>3, <2>4
  <1>6. CASE ~IsAtom(r)
    <2>1. PythonOf(r) = (IF EndsInNil(r) THEN AsList(ListItems(r))
                         ELSE AsTuple(PythonOf(First(r)), PythonOf(Rest(r))))
      BY <1>3, <1>6 DEF PythonOfOf
    <2>2. \A s, a, b : AsList(s) # AsBytes(Null) /\ AsTuple(a, b) # AsBytes(Null)
                       /\ ~IsList(AsTuple(a, b)) /\ IsList(AsList(s)) /\ AsList(s).list = s
      <3> TAKE s, a, b
      <3>1. DOMAIN AsList(s) = {"list"} /\ DOMAIN AsTuple(a, b) = {"tuple"}
            /\ DOMAIN AsBytes(Null) = {"bytes"} /\ AsList(s).list = s
        BY DEF AsList, AsTuple, AsBytes
      <3>2. {"list"} # {"bytes"} /\ {"tuple"} # {"bytes"} /\ {"tuple"} # {"list"}
        OBVIOUS
      <3> QED  BY <3>1, <3>2 DEF IsList
    <2>3. CASE EndsInNil(r)
      <3>1. PythonOf(r) = AsList(ListItems(r))
        BY <2>1, <2>3
      <3>2. PythonOf(x) = AsList(<<PythonOf(l)>> \o ListItems(r))
        BY <1>2, <2>3
      <3>3. Joined(PythonOf(l), AsList(ListItems(r))) = AsList(<<PythonOf(l)>> \o ListItems(r))
        BY <2>2 DEF Joined
      <3> QED  BY <3>1, <3>2, <3>3 DEF l, r
    <2>4. CASE ~EndsInNil(r)
      <3> DEFINE a == PythonOf(First(r))
                 b == PythonOf(Rest(r))
      <3>1. PythonOf(r) = AsTuple(a, b) /\ PythonOf(x) = AsTuple(PythonOf(l), PythonOf(r))
        BY <1>2, <2>1, <2>4
      <3> HIDE DEF a, b
      <3>2. PythonOf(r) # AsBytes(Null) /\ ~IsList(PythonOf(r))
        BY <2>2, <3>1
      <3> QED  BY <3>1, <3>2 DEF Joined, l, r
    <2> QED  BY <2>3, <2>4
  <1> QED  BY <1>5, <1>6

\* What is left of an as_python that leads to the goal.
UPath(goal) == /\ unconverting = "ops"  => Leads(goal, op_stack, val_stack)
               /\ unconverting = "done" => val_stack = goal

LEMMA PythonOfAtom ==
    ASSUME NEW V, NEW D, AreMeanings(V, D), NEW x \in D, IsAtom(x)
    PROVE  PythonOf(x) = AsBytes(x)
  <1>1. PythonOf(x) = PythonOfOf(x)
    BY DEF AreMeanings
  <1>2. PythonOfOf(x) = AsBytes(x)
    BY DEF PythonOfOf
  <1> QED  BY <1>1, <1>2, Zenon

LEMMA StartPaths ==
    ASSUME NEW x, StartAsPython(x)
    PROVE  UPath(<<PythonOf(x)>>)'
  <1> DEFINE g == <<PythonOf(x)>>
             o == <<>>
             s == <<x>>
  <1>1. unconverting' = "ops" /\ op_stack' = <<"_as_python">> /\ val_stack' = <<x>>
    BY DEF StartAsPython
  <1>2. Leads(g, o, g)
    BY PathEnds
  <1>3. IsSeq(o) /\ Append(o, "_as_python") = <<"_as_python">> /\ Append(o, x) = s
        /\ Append(o, PythonOf(x)) = <<PythonOf(x)>>
    BY DEF IsSeq, Range
  <1>4. Last(s) = x /\ Front(s) = o
    <2> HIDE DEF o
    <2>1. Last(Append(o, x)) = x /\ Front(Append(o, x)) = o
      BY <1>3, PushAndTake
    <2> QED  BY <1>3, <2>1
  <1> HIDE DEF o, s
  <1>5. DoneOp("_as_python", s) = g
    <2>1. DoneOp("_as_python", s) = Append(Front(s), PythonOf(Last(s)))
      BY DEF DoneOp
    <2> QED  BY <1>3, <1>4, <2>1
  <1> HIDE DEF g
  <1>6. Leads(g, Append(o, "_as_python"), s)
    BY <1>2, <1>3, <1>5, PathPush
  <1>7. Leads(g, op_stack', val_stack')
    BY <1>1, <1>3, <1>6 DEF s
  <1> QED  BY <1>1, <1>7 DEF UPath, g

\* Two values are on top of others.
LEMMA TwoOnTop ==
    ASSUME NEW w, IsSeq(w), NEW a, NEW b, NEW c
    PROVE  /\ Append(Front(w \o <<a, b>>), c) = w \o <<a, c>>
           /\ Last(w \o <<a, b>>) = b
           /\ Popped(w \o <<a, b>>, 2) = w
           /\ FromTop(w \o <<a, b>>, 1) = b /\ FromTop(w \o <<a, b>>, 2) = a
  <1> DEFINE u == Append(w, a)
             v == w \o <<a, b>>
  <1>1. v = Append(u, b) /\ w \o <<a, c>> = Append(u, c)
    BY Append2 DEF IsSeq
  <1>2. IsSeq(u)
    BY PushAndTake
  <1> HIDE DEF u
  <1>3. Last(Append(u, b)) = b /\ Front(Append(u, b)) = u
    BY <1>2, PushAndTake
  <1>4. /\ IsSeq(v) /\ Len(v) = Len(w) + 2 /\ Len(w) \in Nat
        /\ \A i \in 1..Len(w) : v[i] = w[i]
        /\ v[Len(w) + 1] = a /\ v[Len(w) + 2] = b
    BY PushTwo
  <1>5. Last(v) = b /\ Append(Front(v), c) = w \o <<a, c>>
    BY <1>1, <1>3, Zenon
  <1> HIDE DEF v
  <1>6. /\ IsSeq(Popped(v, 2)) /\ Len(Popped(v, 2)) = Len(v) - 2
        /\ \A i \in 1..(Len(v) - 2) : Popped(v, 2)[i] = v[i]
        /\ FromTop(v, 1) = v[Len(v)] /\ FromTop(v, 2) = v[Len(v) - 1]
    <2>1. Len(v) > 1
      BY <1>4
    <2> QED  BY <1>4, <2>1, PopTwo
  <1> DEFINE p == Popped(v, 2)
  <1> HIDE DEF p
  <1>7. p = w
    <2>1. IsSeq(p) /\ Len(p) = Len(w) /\ \A i \in 1..Len(w) : p[i] = w[i]
      BY <1>4, <1>6 DEF p
    <2>2. p = [i \in 1..Len(p) |-> p[i]] /\ w = [i \in 1..Len(w) |-> w[i]]
      BY <2>1 DEF IsSeq
    <2> QED  BY <2>1, <2>2
  <1>8. FromTop(v, 1) = b /\ FromTop(v, 2) = a
    <2>1. Len(v) - 1 = Len(w) + 1
      BY <1>4
    <2> QED  BY <1>4, <1>6, <2>1
  <1> QED  BY <1>5, <1>7, <1>8 DEF p, v

\* The operations for a pair lead to what the pair becomes.
LEMMA PairPaths ==
    ASSUME NEW goal, NEW g, IsSeq(g), NEW w, IsSeq(w), NEW l, NEW r,
           Leads(goal, g, Append(w, Joined(PythonOf(l), PythonOf(r))))
    PROVE  Leads(goal, g \o <<"_make_tuple", "_as_python", "_roll", "_as_python">>,
                 w \o <<l, r>>)
  <1> DEFINE pl == PythonOf(l)
             pr == PythonOf(r)
             q1 == w \o <<pr, pl>>
             q2 == w \o <<pr, l>>
             q3 == w \o <<l, pr>>
             q4 == w \o <<l, r>>
             o1 == Append(g, "_make_tuple")
             o2 == Append(o1, "_as_python")
             o3 == Append(o2, "_roll")
             o4 == Append(o3, "_as_python")
  <1>1. DoneOp("_make_tuple", q1) = Append(w, Joined(pl, pr))
    <2>1. Popped(q1, 2) = w /\ FromTop(q1, 1) = pl /\ FromTop(q1, 2) = pr
      BY TwoOnTop
    <2> HIDE DEF q1, pl, pr
    <2>2. DoneOp("_make_tuple", q1)
            = Append(Popped(q1, 2), Joined(FromTop(q1, 1), FromTop(q1, 2)))
      BY DEF DoneOp
    <2> QED  BY <2>1, <2>2, Zenon
  <1>2. DoneOp("_as_python", q2) = q1
    <2>1. Last(q2) = l /\ Append(Front(q2), pl) = w \o <<pr, pl>>
      BY TwoOnTop
    <2> HIDE DEF q2
    <2>2. DoneOp("_as_python", q2) = Append(Front(q2), PythonOf(l))
      BY <2>1 DEF DoneOp
    <2> QED  BY <2>1, <2>2, Zenon
  <1>3. DoneOp("_roll", q3) = q2
    <2>1. Popped(q3, 2) = w /\ FromTop(q3, 1) = pr /\ FromTop(q3, 2) = l
      BY TwoOnTop
    <2> HIDE DEF q3, pl, pr
    <2>2. DoneOp("_roll", q3) = Popped(q3, 2) \o <<FromTop(q3, 1), FromTop(q3, 2)>>
      BY DEF DoneOp
    <2>3. q2 = w \o <<pr, l>>
      BY DEF pr
    <2> HIDE DEF q2
    <2> QED  BY <2>1, <2>2, <2>3, Zenon
  <1>4. DoneOp("_as_python", q4) = q3
    <2>1. Last(q4) = r /\ Append(Front(q4), pr) = w \o <<l, pr>>
      BY TwoOnTop
    <2> HIDE DEF q4
    <2>2. DoneOp("_as_python", q4) = Append(Front(q4), PythonOf(r))
      BY <2>1 DEF DoneOp
    <2> QED  BY <2>1, <2>2, Zenon
  <1> HIDE DEF q1, q2, q3, q4
  <1>5. Leads(goal, o1, q1) /\ IsSeq(o1)
    BY <1>1, PathPush
  <1> HIDE DEF o1
  <1>6. Leads(goal, o2, q2) /\ IsSeq(o2)
    BY <1>2, <1>5, PathPush
  <1> HIDE DEF o2
  <1>7. Leads(goal, o3, q3) /\ IsSeq(o3)
    BY <1>3, <1>6, PathPush
  <1> HIDE DEF o3
  <1>8. Leads(goal, o4, q4)
    BY <1>4, <1>7, PathPush
  <1>9. g \o <<"_make_tuple", "_as_python", "_roll", "_as_python">> = o4
    BY Append4 DEF IsSeq, o1, o2, o3
  <1> QED  BY <1>8, <1>9 DEF q4

-----------------------------------------------------------------------------
LEMMA UnderWay ==
    ASSUME NEW T, UInv(T), unconverting = "ops", op_stack # <<>>
    PROVE  /\ IsSeq(op_stack) /\ Len(op_stack) > 0 /\ IsSeq(Front(op_stack))
           /\ IsSeq(val_stack) /\ Len(val_stack) > 0 /\ IsSeq(Front(val_stack))
           /\ Last(op_stack) = "_as_python" => Last(val_stack) \in T
  <1>1. /\ IsSeq(op_stack) /\ IsSeq(val_stack)
        /\ Len(val_stack) = 1 + Joins(op_stack, Len(op_stack))
        /\ OnTop(T, op_stack, val_stack)
    BY DEF UInv, InStep
  <1>2. Len(op_stack) \in Nat /\ Len(op_stack) > 0
    BY <1>1 DEF IsSeq
  <1>3. Len(val_stack) > 0
    <2>1. Joins(op_stack, Len(op_stack)) \in Nat
      BY <1>2, JoinsFacts
    <2> QED  BY <1>1, <2>1
  <1>4. IsSeq(Front(op_stack)) /\ IsSeq(Front(val_stack))
    BY <1>1, <1>2, <1>3, FrontFacts DEF IsSeq, Front
  <1>5. Last(op_stack) = "_as_python" => Last(val_stack) \in T
    BY <1>1, <1>2 DEF OnTop, Last
  <1> QED  BY <1>1, <1>2, <1>3, <1>4, <1>5

LEMMA UnconversionStepPaths ==
    ASSUME NEW V, NEW D, Trees(D), AreMeanings(V, D), NEW goal, UInv(D), UPath(goal),
           UnconversionStep
    PROVE  UPath(goal)'
  <1> DEFINE o == op_stack
             v == val_stack
             f == Last(o)
  <1>1. CASE EndAsPython
    <2>1. o = <<>> /\ unconverting' = "done" /\ val_stack' = v /\ Leads(goal, o, v)
      BY <1>1 DEF EndAsPython, UPath
    <2>2. v = goal
      BY <2>1, PathEnds, Zenon
    <2> QED  BY <2>1, <2>2 DEF UPath
  <1>2. CASE ~EndAsPython
    <2>1. unconverting = "ops" /\ o # <<>> /\ unconverting' = "ops" /\ Leads(goal, o, v)
      BY <1>2 DEF UnconversionStep, Roll, MakeTuple, AtomAsPython, PairAsPython, Performing, UPath
    <2>2. /\ IsSeq(o) /\ Len(o) > 0 /\ IsSeq(Front(o)) /\ IsSeq(Front(v))
          /\ f = "_as_python" => Last(v) \in D
      BY <2>1, UnderWay
    <2>3. Leads(goal, Front(o), DoneOp(f, v))
      BY <2>1, <2>2, PathPop
    <2>4. CASE Roll \/ MakeTuple \/ AtomAsPython
      <3>1. op_stack' = Front(o)
        BY <2>4 DEF Roll, MakeTuple, AtomAsPython
      <3>2. val_stack' = DoneOp(f, v)
        <4>1. CASE Roll
          BY <4>1 DEF Roll, Performing, DoneOp
        <4>2. CASE MakeTuple
          BY <4>2 DEF MakeTuple, Performing, DoneOp
        <4>3. CASE AtomAsPython
          <5>1. f = "_as_python" /\ IsAtom(Last(v)) /\ val_stack' = Append(Front(v), AsBytes(Last(v)))
            BY <4>3 DEF AtomAsPython, Performing
          <5>2. PythonOf(Last(v)) = AsBytes(Last(v))
            BY <2>2, <5>1, PythonOfAtom
          <5> QED  BY <5>1, <5>2 DEF DoneOp
        <4> QED  BY <2>4, <4>1, <4>2, <4>3
      <3>3. Leads(goal, op_stack', val_stack')
        BY <2>3, <3>1, <3>2
      <3> QED  BY <2>1, <3>3 DEF UPath
    <2>5. CASE PairAsPython
      <3> DEFINE x == Last(v)
      <3>1. /\ f = "_as_python" /\ IsPair(x)
            /\ val_stack' = Front(v) \o <<First(x), Rest(x)>>
            /\ op_stack' = Front(o) \o <<"_make_tuple", "_as_python", "_roll", "_as_python">>
        BY <2>5 DEF PairAsPython, Performing
      <3>2. PythonOf(x) = Joined(PythonOf(First(x)), PythonOf(Rest(x)))
        BY <2>2, <3>1, PythonOfPair
      <3>3. DoneOp(f, v) = Append(Front(v), PythonOf(x))
        BY <3>1 DEF DoneOp
      <3>4. Leads(goal, Front(o), Append(Front(v), Joined(PythonOf(First(x)), PythonOf(Rest(x)))))
        BY <2>3, <3>2, <3>3
      <3>5. Leads(goal, op_stack', val_stack')
        <4> HIDE DEF x
        <4>1. Leads(goal, Front(o) \o <<"_make_tuple", "_as_python", "_roll", "_as_python">>,
                    Front(v) \o <<First(x), Rest(x)>>)
          BY <2>2, <3>4, PairPaths
        <4> QED  BY <3>1, <4>1
      <3> QED  BY <2>1, <3>5 DEF UPath
    <2> QED  BY <1>2, <2>4, <2>5 DEF UnconversionStep
  <1> QED  BY <1>1, <1>2

Alike(s) == \A i \in 1..Len(s) : s[i][1] = s[i][2]

\* The inductive invariant of ==: all that is still to be compared is alike just
\* if the two trees are the same.
EInv(D) ==
    /\ comparing \in {"no", "trees", "done"}
    /\ comparing # "no" => phase \in {"eq", "done"}
    /\ phase = "done" => comparing = "done"
    /\ comparing = "trees" =>
         /\ to_compare_stack \in Seq(D \X D) /\ CanConvert(other)
         /\ Alike(to_compare_stack) <=> TreeOf(other) = sexp
    /\ comparing = "done" => (equal <=> CanConvert(other) /\ TreeOf(other) = sexp)

\* Two trees are the same if they are atoms with the same bytes, or pairs with
\* the same sides.
LEMMA SameTrees ==
    ASSUME NEW D, Trees(D), NEW x \in D, NEW y \in D
    PROVE  /\ IsAtom(x) /\ IsAtom(y) => (x = y <=> x.atom = y.atom)
           /\ IsPair(x) /\ IsPair(y) => (x = y <=> First(x) = First(y) /\ Rest(x) = Rest(y))
           /\ IsPair(x) # IsPair(y) => x # y
           /\ IsPair(x) => First(x) \in D /\ Rest(x) \in D
  <1>1. IsAtom(x) /\ IsAtom(y) => x = Atom(x.atom) /\ y = Atom(y.atom)
    BY TreeFacts, Zenon
  <1>2. IsPair(x) /\ IsPair(y) => x = Pair(First(x), Rest(x)) /\ y = Pair(First(y), Rest(y))
    BY TreeFacts, Zenon
  <1>3. IsPair(x) => First(x) \in D /\ Rest(x) \in D
    BY TreeFacts DEF ClosedTrees
  <1>4. ASSUME IsAtom(x), IsAtom(y) PROVE x = y <=> x.atom = y.atom
    BY <1>1, <1>4, Zenon
  <1>5. ASSUME IsPair(x), IsPair(y)
        PROVE  x = y <=> First(x) = First(y) /\ Rest(x) = Rest(y)
    BY <1>2, <1>5, Zenon
  <1>6. ASSUME IsPair(x) # IsPair(y) PROVE x # y
    BY <1>6, Zenon
  <1> QED  BY <1>3, <1>4, <1>5, <1>6, Zenon

\* The last pair of trees is taken off the stack.
LEMMA TopCompared ==
    ASSUME NEW S, NEW s \in Seq(S), s # <<>>
    PROVE  /\ Front(s) \in Seq(S) /\ Last(s) \in S
           /\ Alike(s) <=> Alike(Front(s)) /\ Last(s)[1] = Last(s)[2]
  <1> DEFINE n == Len(s)
             f == Front(s)
  <1>1. n \in Nat \ {0}
    OBVIOUS
  <1>2. f \in Seq(S) /\ Len(f) = n - 1 /\ \A i \in 1..(n - 1) : f[i] = s[i]
    <2>1. IsSeq(s)
      BY SeqOfItsRange DEF IsSeq
    <2>2. f \in Seq(Range(f)) /\ Len(f) = n - 1 /\ \A i \in 1..(n - 1) : f[i] = s[i]
      BY <1>1, <2>1, FrontFacts DEF IsSeq, Front
    <2> HIDE DEF f
    <2>3. \A i \in 1..Len(f) : f[i] \in S
      BY <1>1, <2>2
    <2> QED  BY <2>2, <2>3
  <1>3. Last(s) = s[n] /\ n \in 1..n /\ s[n] \in S
    BY <1>1 DEF Last
  <1> HIDE DEF n, f
  <1>4. \A i : i \in 1..n <=> i \in 1..(n - 1) \/ i = n
    BY <1>1
  <1>5. Alike(s) <=> Alike(f) /\ s[n][1] = s[n][2]
    <2>1. Alike(s) <=> \A i \in 1..n : s[i][1] = s[i][2]
      BY DEF Alike, n
    <2>2. Alike(f) <=> \A i \in 1..(n - 1) : s[i][1] = s[i][2]
      BY <1>2 DEF Alike
    <2> QED  BY <1>4, <2>1, <2>2, Zenon
  <1> QED  BY <1>2, <1>3, <1>5 DEF f

\* Two more are put there.
LEMMA TwoToCompare ==
    ASSUME NEW S, NEW f \in Seq(S), NEW a \in S, NEW b \in S
    PROVE  /\ f \o <<a, b>> \in Seq(S)
           /\ Alike(f \o <<a, b>>) <=> Alike(f) /\ a[1] = a[2] /\ b[1] = b[2]
  <1> DEFINE n == Len(f)
             s == f \o <<a, b>>
  <1>1. n \in Nat /\ s \in Seq(S) /\ Len(s) = n + 2
    OBVIOUS
  <1>2. (\A i \in 1..n : s[i] = f[i]) /\ s[n + 1] = a /\ s[n + 2] = b
    OBVIOUS
  <1>3. Alike(f) <=> \A i \in 1..n : f[i][1] = f[i][2]
    BY DEF Alike
  <1> HIDE DEF n, s
  <1>4. \A i : i \in 1..(n + 2) <=> i \in 1..n \/ i = n + 1 \/ i = n + 2
    BY <1>1
  <1>5. Alike(s) <=> \A i \in 1..(n + 2) : s[i][1] = s[i][2]
    BY <1>1 DEF Alike
  <1>6. Alike(s) <=> Alike(f) /\ a[1] = a[2] /\ b[1] = b[2]
    BY <1>2, <1>3, <1>4, <1>5
  <1> QED  BY <1>1, <1>6 DEF s

LEMMA ComparisonStepKeeps ==
    ASSUME NEW D, Trees(D), EInv(D), ComparisonStep, UNCHANGED <<sexp, other, phase>>
    PROVE  EInv(D)'
  <1> DEFINE s == to_compare_stack
             same == TreeOf(other) = sexp
  <1>1. /\ comparing = "trees" /\ phase \in {"eq", "done"} /\ phase # "done"
        /\ s \in Seq(D \X D) /\ CanConvert(other) /\ (Alike(s) <=> same)
    BY DEF EInv, ComparisonStep, ComparePairs, SameAtoms, Differ, AllCompared, Compares
  <1>2. CASE AllCompared
    <2>1. s = <<>> /\ comparing' = "done" /\ equal' = TRUE
      BY <1>2 DEF AllCompared, ReturnEqual
    <2>2. Alike(s)
      BY <2>1 DEF Alike
    <2> QED  BY <1>1, <2>1, <2>2 DEF EInv
  <1>3. CASE ~AllCompared
    <2>1. s # <<>>
      BY <1>3 DEF ComparisonStep, ComparePairs, SameAtoms, Differ, Compares
    <2>2. /\ Front(s) \in Seq(D \X D) /\ Last(s) \in D \X D
          /\ Alike(s) <=> Alike(Front(s)) /\ Last(s)[1] = Last(s)[2]
      BY <1>1, <2>1, TopCompared
    <2>3. S1 \in D /\ S2 \in D /\ S1 = Last(s)[1] /\ S2 = Last(s)[2]
      BY <2>2 DEF S1, S2
    <2>4. same <=> Alike(Front(s)) /\ S1 = S2
      BY <1>1, <2>2, <2>3
    <2>5. /\ IsAtom(S1) /\ IsAtom(S2) => (S1 = S2 <=> S1.atom = S2.atom)
          /\ IsPair(S1) /\ IsPair(S2) => (S1 = S2 <=> First(S1) = First(S2) /\ Rest(S1) = Rest(S2))
          /\ IsPair(S1) # IsPair(S2) => S1 # S2
          /\ IsPair(S1) => First(S1) \in D /\ Rest(S1) \in D
          /\ IsPair(S2) => First(S2) \in D /\ Rest(S2) \in D
      BY <2>3, SameTrees
    <2>6. CASE ComparePairs
      <3>1. IsPair(S1) /\ IsPair(S2) /\ comparing' = comparing /\ equal' = equal
            /\ s' = Front(s) \o << <<First(S1), First(S2)>>, <<Rest(S1), Rest(S2)>> >>
        BY <2>6 DEF ComparePairs
      <3> DEFINE a == <<First(S1), First(S2)>>
                 b == <<Rest(S1), Rest(S2)>>
                 t == Front(s) \o <<a, b>>
      <3>2. a \in D \X D /\ b \in D \X D /\ a[1] = First(S1) /\ a[2] = First(S2)
            /\ b[1] = Rest(S1) /\ b[2] = Rest(S2)
        BY <2>5, <3>1
      <3>3. s' = t
        BY <3>1
      <3> HIDE DEF a, b
      <3>4. t \in Seq(D \X D) /\ (Alike(t) <=> Alike(Front(s)) /\ a[1] = a[2] /\ b[1] = b[2])
        BY <2>2, <3>2, TwoToCompare
      <3> HIDE DEF t
      <3>5. Alike(t) <=> same
        BY <2>4, <2>5, <3>1, <3>2, <3>4, Zenon
      <3> QED  BY <1>1, <3>1, <3>3, <3>4, <3>5 DEF EInv
    <2>7. CASE SameAtoms
      <3>1. IsAtom(S1) /\ IsAtom(S2) /\ S1.atom = S2.atom /\ comparing' = comparing /\ equal' = equal
            /\ s' = Front(s)
        BY <2>7 DEF SameAtoms
      <3>2. Alike(Front(s)) <=> same
        BY <2>4, <2>5, <3>1, Zenon
      <3> QED  BY <1>1, <2>2, <3>1, <3>2 DEF EInv
    <2>8. CASE Differ
      <3>1. IsPair(S1) # IsPair(S2) \/ (IsAtom(S1) /\ IsAtom(S2) /\ S1.atom # S2.atom)
        BY <2>8 DEF Differ
      <3>2. comparing' = "done" /\ equal' = FALSE
        BY <2>8 DEF Differ, ReturnEqual
      <3>3. ~same
        BY <2>4, <2>5, <3>1, Zenon
      <3> QED  BY <1>1, <3>2, <3>3 DEF EInv
    <2> QED  BY <1>3, <2>6, <2>7, <2>8 DEF ComparisonStep
  <1> QED  BY <1>2, <1>3

\* The inductive invariant of all of it, for Python values V and trees D.
Meant(V, D) ==
    /\ CInv
    /\ Converting => CPlan(V, Result(Converted))
    /\ UInv(D) /\ UPath(<<PythonOf(sexp)>>)
    /\ EInv(D)
    /\ value \in V /\ sexp \in D
    /\ phase \in {"eq_to", "eq", "done"} => other \in V

Meanings(V, D) == /\ Trees(D) /\ PythonValues(V, D) /\ AreMeanings(V, D)
                  /\ Values \subseteq V /\ Others \subseteq V

\* What a step leaves alone.
LEMMA PlanStays ==
    ASSUME NEW V, Converting => CPlan(V, Result(Converted)),
           UNCHANGED <<conversion, value, other>>, phase' = phase \/ phase' \notin {"to", "eq_to"}
    PROVE  (Converting => CPlan(V, Result(Converted)))'
  BY DEF Converting, CPlan, Converted, conversion

LEMMA PathStays ==
    ASSUME NEW D, UInv(D), UPath(<<PythonOf(sexp)>>), UNCHANGED <<unconversion, sexp>>
    PROVE  UInv(D)' /\ UPath(<<PythonOf(sexp)>>)'
  BY DEF UInv, UPath, unconversion

LEMMA ComparisonStays ==
    ASSUME NEW D, EInv(D), UNCHANGED <<comparison, other, sexp>>,
           phase' = phase \/ (comparing = "no" /\ phase' # "done")
             \/ (comparing = "done" /\ phase' = "done")
    PROVE  EInv(D)'
  BY DEF EInv, comparison

\* A conversion starts.
LEMMA ConversionStarts ==
    ASSUME NEW V, NEW v \in V, Start(v), Converted' = v
    PROVE  CInv' /\ (Converting => CPlan(V, Result(Converted)))'
  <1>1. v \in ToConvert(V)
    BY DEF Start, ToConvert
  <1>2. CPlan(V, Result(v))'
    BY <1>1, StartPlans
  <1>3. CPlan(V, Result(Converted))'
    BY <1>2
  <1> QED  BY <1>3, StartKeeps

\* It ends.
LEMMA ConversionEnds ==
    ASSUME NEW V, NEW D, AreMeanings(V, D), CPlan(V, Result(Converted)), Converted \in V
    PROVE  /\ converting = "done" => /\ CanConvert(Converted) /\ stack = <<TreeOf(Converted)>>
                                     /\ TreeOf(Converted) \in D
           /\ converting = "raised" => ~CanConvert(Converted)
  <1>1. PICK v : v = Converted
    OBVIOUS
  <1>2. converting = "done" => CanConvert(v) /\ stack = <<TreeOf(v)>>
    BY <1>1 DEF CPlan, Result, Only
  <1>3. converting = "raised" => ~CanConvert(v)
    BY <1>1 DEF CPlan, Result, Only
  <1>4. CanConvert(v) => TreeOf(v) \in D
    BY <1>1 DEF AreMeanings
  <1> QED  BY <1>1, <1>2, <1>3, <1>4

LEMMA ConvertsMeant ==
    ASSUME NEW V, NEW D, Meanings(V, D), Meant(V, D), Converts
    PROVE  Meant(V, D)'
  <1>1. ConversionStep /\ UNCHANGED <<unconversion, comparison, value, sexp, other, phase>>
    BY DEF Converts, results
  <1>2. CInv'
    BY <1>1, ConversionStepKeeps DEF Meant
  <1>3. (Converting => CPlan(V, Result(Converted)))'
    <2> SUFFICES ASSUME Converting PROVE CPlan(V, Result(Converted))'
      BY <1>1 DEF Converting
    <2>1. PICK g : g = Result(Converted)
      OBVIOUS
    <2>2. CPlan(V, g)
      BY <2>1 DEF Meant
    <2>3. CPlan(V, g)'
      BY <1>1, <2>2, ConversionStepPlans DEF Meant, Meanings
    <2>4. Result(Converted)' = g
      BY <1>1, <2>1 DEF Result, Converted
    <2> QED  BY <2>3, <2>4 DEF CPlan
  <1>4. UInv(D)' /\ UPath(<<PythonOf(sexp)>>)' /\ EInv(D)'
    BY <1>1, PathStays, ComparisonStays DEF Meant
  <1> QED  BY <1>1, <1>2, <1>3, <1>4 DEF Meant

LEMMA UnconvertsMeant ==
    ASSUME NEW V, NEW D, Meanings(V, D), Meant(V, D), Unconverts
    PROVE  Meant(V, D)'
  <1>1. UnconversionStep /\ UNCHANGED <<conversion, comparison, value, sexp, other, phase>>
    BY DEF Unconverts, results
  <1>2. CInv' /\ (Converting => CPlan(V, Result(Converted)))'
    BY <1>1, UnchangedKeeps, PlanStays DEF Meant
  <1>3. UInv(D)'
    BY <1>1, UnconversionStepKeeps, TreeFacts DEF Meant, Meanings
  <1>4. UPath(<<PythonOf(sexp)>>)'
    <2>1. PICK g : g = <<PythonOf(sexp)>>
      OBVIOUS
    <2>2. UPath(g)
      BY <2>1 DEF Meant
    <2>3. UPath(g)'
      BY <1>1, <2>2, UnconversionStepPaths DEF Meant, Meanings
    <2>4. <<PythonOf(sexp)>>' = g
      BY <1>1, <2>1
    <2> QED  BY <2>3, <2>4 DEF UPath
  <1>5. EInv(D)'
    BY <1>1, ComparisonStays DEF Meant
  <1> QED  BY <1>1, <1>2, <1>3, <1>4, <1>5 DEF Meant

LEMMA ComparesMeant ==
    ASSUME NEW V, NEW D, Meanings(V, D), Meant(V, D), ComparesOne
    PROVE  Meant(V, D)'
  <1>1. ComparisonStep /\ UNCHANGED <<conversion, unconversion, value, sexp, other, phase>>
    BY DEF ComparesOne, results
  <1>2. CInv' /\ (Converting => CPlan(V, Result(Converted)))'
    BY <1>1, UnchangedKeeps, PlanStays DEF Meant
  <1>3. UInv(D)' /\ UPath(<<PythonOf(sexp)>>)'
    BY <1>1, PathStays DEF Meant
  <1>4. EInv(D)'
    BY <1>1, ComparisonStepKeeps DEF Meant, Meanings
  <1> QED  BY <1>1, <1>2, <1>3, <1>4 DEF Meant

\* The comparison starts with the tree that the other value stands for.
LEMMA ComparisonStarts ==
    ASSUME NEW D, sexp \in D, NEW y \in D, StartComparing(sexp, y),
           UNCHANGED sexp, CanConvert(other'), TreeOf(other') = y, phase' = "eq"
    PROVE  EInv(D)'
  <1> DEFINE s == << <<sexp, y>> >>
  <1>1. to_compare_stack' = s /\ comparing' = "trees"
    BY DEF StartComparing
  <1>2. s \in Seq(D \X D) /\ (Alike(s) <=> sexp = y)
    BY DEF Alike
  <1> HIDE DEF s
  <1>3. Alike(to_compare_stack') <=> TreeOf(other') = sexp'
    BY <1>1, <1>2
  <1> QED  BY <1>1, <1>2, <1>3 DEF EInv

LEMMA CallToMeant ==
    ASSUME NEW V, NEW D, Meanings(V, D), Meant(V, D), CallTo
    PROVE  Meant(V, D)'
  <1>1. /\ phase = "start" /\ phase' = "to" /\ Start(value)
        /\ UNCHANGED <<unconversion, comparison, value, sexp, other>>
    BY DEF CallTo, results
  <1>2. PICK v : v = value
    OBVIOUS
  <1>3. v \in V /\ Start(v) /\ Converted' = v
    BY <1>1, <1>2 DEF Meant, Converted
  <1>4. CInv' /\ (Converting => CPlan(V, Result(Converted)))'
    BY <1>3, ConversionStarts
  <1>5. UInv(D)' /\ UPath(<<PythonOf(sexp)>>)'
    BY <1>1, PathStays DEF Meant
  <1>6. EInv(D)'
    <2>1. comparing = "no"
      BY <1>1 DEF Meant, EInv
    <2> QED  BY <1>1, <2>1, ComparisonStays DEF Meant
  <1> QED  BY <1>1, <1>4, <1>5, <1>6 DEF Meant

LEMMA ToReturnsMeant ==
    ASSUME NEW V, NEW D, Meanings(V, D), Meant(V, D), ToReturns
    PROVE  Meant(V, D)'
  <1>1. PICK x \in D : CallAsPython(x)
    <2>1. CASE phase = "to" /\ converting = "done" /\ CallAsPython(stack[1])
      <3>1. Converting /\ Converted \in V /\ Converted = value
        BY <2>1 DEF Converting, Converted, Meant
      <3>2. stack = <<TreeOf(value)>> /\ TreeOf(value) \in D
        BY <2>1, <3>1, ConversionEnds DEF Meant, Meanings
      <3>3. stack[1] \in D
        BY <3>2
      <3> QED  BY <2>1, <3>3
    <2>2. CASE looks_like_clvm_object(value) /\ CallAsPython(value)
      <3>1. value \in D
        BY <2>2 DEF Meanings, Meant, PythonValues
      <3> QED  BY <2>2, <3>1
    <2> QED  BY <2>1, <2>2 DEF ToReturns
  <1>2. /\ phase \in {"start", "to"} /\ phase' = "as_python" /\ sexp' = x /\ StartAsPython(x)
        /\ UNCHANGED <<conversion, comparison, value, other>>
    BY <1>1 DEF ToReturns, CallAsPython
  <1>3. CInv' /\ (Converting => CPlan(V, Result(Converted)))'
    BY <1>2, UnchangedKeeps, PlanStays DEF Meant
  <1>4. UInv(D)'
    BY <1>2, StartAsPythonMakes
  <1>5. UPath(<<PythonOf(sexp)>>)'
    <2>1. UPath(<<PythonOf(x)>>)'
      BY <1>2, StartPaths
    <2> QED  BY <1>2, <2>1
  <1>6. EInv(D)'
    <2>1. comparing = "no" /\ comparing' = "no"
      BY <1>2 DEF Meant, EInv, comparison
    <2> QED  BY <1>2, <2>1 DEF EInv
  <1> QED  BY <1>2, <1>3, <1>4, <1>5, <1>6 DEF Meant

LEMMA ToRaisesMeant ==
    ASSUME NEW V, NEW D, Meant(V, D), ToRaises
    PROVE  Meant(V, D)'
  <1>1. /\ phase = "to" /\ phase' = "refused"
        /\ UNCHANGED <<conversion, unconversion, comparison, value, sexp, other>>
    BY DEF ToRaises, results
  <1>2. CInv' /\ (Converting => CPlan(V, Result(Converted)))'
    BY <1>1, UnchangedKeeps, PlanStays DEF Meant
  <1>3. UInv(D)' /\ UPath(<<PythonOf(sexp)>>)'
    BY <1>1, PathStays DEF Meant
  <1>4. EInv(D)'
    <2>1. comparing = "no"
      BY <1>1 DEF Meant, EInv
    <2> QED  BY <1>1, <2>1, ComparisonStays DEF Meant
  <1> QED  BY <1>1, <1>2, <1>3, <1>4 DEF Meant

LEMMA AsPythonReturnsMeant ==
    ASSUME NEW V, NEW D, Meanings(V, D), Meant(V, D), AsPythonReturns
    PROVE  Meant(V, D)'
  <1>1. phase = "as_python" /\ unconverting = "done"
    BY DEF AsPythonReturns
  <1>2. PICK w \in V : CallEq(w)
    <2>1. PICK w \in {value, Last(val_stack)} \cup Others : CallEq(w)
      BY DEF AsPythonReturns
    <2>2. Last(val_stack) \in V
      <3>1. val_stack = <<PythonOf(sexp)>> /\ PythonOf(sexp) \in V
        BY <1>1 DEF Meant, UPath, Meanings, AreMeanings
      <3> QED  BY <3>1 DEF Last
    <2>3. w \in V
      BY <2>1, <2>2 DEF Meant, Meanings
    <2> QED  BY <2>1, <2>3
  <1>3. other' = w /\ UNCHANGED <<unconversion, value, sexp>>
    BY <1>2 DEF CallEq
  <1>4. UInv(D)' /\ UPath(<<PythonOf(sexp)>>)'
    BY <1>3, PathStays DEF Meant
  <1>5. comparing = "no"
    BY <1>1 DEF Meant, EInv
  <1>6. CASE looks_like_clvm_object(w)
    <2>1. StartComparing(sexp, w) /\ phase' = "eq" /\ UNCHANGED conversion
      BY <1>2, <1>6 DEF CallEq
    <2>2. CanConvert(w) /\ TreeOf(w) = w
      BY <1>6, MeaningOfObject DEF Meanings
    <2>3. w \in D
      BY <1>6 DEF Meanings, PythonValues
    <2>4. EInv(D)'
      BY <1>3, <2>1, <2>2, <2>3, ComparisonStarts DEF Meant
    <2>5. CInv' /\ ~Converting'
      BY <2>1, UnchangedKeeps DEF Meant, Converting
    <2> QED  BY <1>3, <1>4, <2>1, <2>4, <2>5 DEF Meant
  <1>7. CASE ~looks_like_clvm_object(w)
    <2>1. Start(w) /\ phase' = "eq_to" /\ UNCHANGED comparison
      BY <1>2, <1>7 DEF CallEq
    <2>2. Converted' = w
      BY <1>3, <2>1 DEF Converted
    <2>3. CInv' /\ (Converting => CPlan(V, Result(Converted)))'
      BY <2>1, <2>2, ConversionStarts
    <2>4. comparing' = "no"
      BY <1>5, <2>1 DEF comparison
    <2>5. EInv(D)'
      BY <2>1, <2>4 DEF EInv
    <2> QED  BY <1>3, <1>4, <2>1, <2>3, <2>5 DEF Meant
  <1> QED  BY <1>6, <1>7

LEMMA EqConvertedMeant ==
    ASSUME NEW V, NEW D, Meanings(V, D), Meant(V, D), EqConverted
    PROVE  Meant(V, D)'
  <1>1. /\ phase = "eq_to" /\ converting = "done" /\ phase' = "eq"
        /\ StartComparing(sexp, stack[1])
        /\ UNCHANGED <<conversion, unconversion, value, sexp, other>>
    BY DEF EqConverted, results
  <1>2. Converting /\ Converted \in V /\ Converted = other
    BY <1>1 DEF Converting, Converted, Meant
  <1>3. CanConvert(other) /\ stack = <<TreeOf(other)>> /\ TreeOf(other) \in D
    BY <1>1, <1>2, ConversionEnds DEF Meant, Meanings
  <1>4. PICK y \in D : y = TreeOf(other) /\ stack[1] = y
    BY <1>3
  <1>5. StartComparing(sexp, y) /\ CanConvert(other') /\ TreeOf(other') = y
    BY <1>1, <1>3, <1>4
  <1>6. EInv(D)'
    BY <1>1, <1>5, ComparisonStarts DEF Meant
  <1>7. CInv' /\ ~Converting'
    BY <1>1, UnchangedKeeps DEF Meant, Converting
  <1>8. UInv(D)' /\ UPath(<<PythonOf(sexp)>>)'
    BY <1>1, PathStays DEF Meant
  <1> QED  BY <1>1, <1>6, <1>7, <1>8 DEF Meant

LEMMA EqRefusesMeant ==
    ASSUME NEW V, NEW D, Meanings(V, D), Meant(V, D), EqRefuses
    PROVE  Meant(V, D)'
  <1>1. /\ phase = "eq_to" /\ converting = "raised" /\ phase' = "eq"
        /\ comparing' = "done" /\ equal' = FALSE
        /\ UNCHANGED <<conversion, unconversion, value, sexp, other>>
    BY DEF EqRefuses, ReturnEqual, results
  <1>2. Converting /\ Converted \in V /\ Converted = other
    BY <1>1 DEF Converting, Converted, Meant
  <1>3. ~CanConvert(other)
    BY <1>1, <1>2, ConversionEnds DEF Meant, Meanings
  <1>4. EInv(D)'
    BY <1>1, <1>3 DEF EInv
  <1>5. CInv' /\ ~Converting'
    BY <1>1, UnchangedKeeps DEF Meant, Converting
  <1>6. UInv(D)' /\ UPath(<<PythonOf(sexp)>>)'
    BY <1>1, PathStays DEF Meant
  <1> QED  BY <1>1, <1>4, <1>5, <1>6 DEF Meant

LEMMA EqReturnsMeant ==
    ASSUME NEW V, NEW D, Meant(V, D), EqReturns
    PROVE  Meant(V, D)'
  <1>1. /\ phase = "eq" /\ comparing = "done" /\ phase' = "done"
        /\ UNCHANGED <<conversion, unconversion, comparison, value, sexp, other>>
    BY DEF EqReturns, results
  <1>2. CInv' /\ ~Converting'
    BY <1>1, UnchangedKeeps DEF Meant, Converting
  <1>3. UInv(D)' /\ UPath(<<PythonOf(sexp)>>)'
    BY <1>1, PathStays DEF Meant
  <1>4. EInv(D)'
    BY <1>1, ComparisonStays DEF Meant
  <1> QED  BY <1>1, <1>2, <1>3, <1>4 DEF Meant

LEMMA NothingMeant ==
    ASSUME NEW V, NEW D, Meant(V, D), UNCHANGED vars
    PROVE  Meant(V, D)'
  <1>1. UNCHANGED <<conversion, unconversion, comparison, value, sexp, other, phase>>
    BY DEF vars, results
  <1>2. CInv' /\ (Converting => CPlan(V, Result(Converted)))'
    BY <1>1, UnchangedKeeps, PlanStays DEF Meant
  <1>3. UInv(D)' /\ UPath(<<PythonOf(sexp)>>)'
    BY <1>1, PathStays DEF Meant
  <1>4. EInv(D)'
    BY <1>1, ComparisonStays DEF Meant
  <1> QED  BY <1>1, <1>2, <1>3, <1>4 DEF Meant

\* Whatever is converted and compared, the invariant holds.
THEOREM MeantHolds ==
    ASSUME NEW CONSTANT V, NEW CONSTANT D, Meanings(V, D)
    PROVE  Spec => []Meant(V, D)
  <1>1. Init => Meant(V, D)
    <2> SUFFICES ASSUME Init PROVE Meant(V, D)
      OBVIOUS
    <2>1. /\ converting = "no" /\ unconverting = "no" /\ Len(val_stack) = 0 /\ comparing = "no"
          /\ phase = "start" /\ value \in Values /\ sexp = Null
      BY DEF Init, ConversionInit, UnconversionInit, ComparisonInit
    <2>2. CInv /\ ~Converting
      BY <2>1 DEF CInv, Converting
    <2>3. UInv(D) /\ UPath(<<PythonOf(sexp)>>)
      BY <2>1 DEF UInv, UPath
    <2>4. EInv(D)
      BY <2>1 DEF EInv
    <2>5. value \in V /\ sexp \in D
      BY <2>1 DEF Meanings, Trees
    <2> QED  BY <2>1, <2>2, <2>3, <2>4, <2>5 DEF Meant
  <1>2. Meant(V, D) /\ [Next]_vars => Meant(V, D)'
    <2> SUFFICES ASSUME Meant(V, D), [Next]_vars PROVE Meant(V, D)'
      OBVIOUS
    <2>1. CASE CallTo          BY <2>1, CallToMeant
    <2>2. CASE ToReturns       BY <2>2, ToReturnsMeant
    <2>3. CASE ToRaises        BY <2>3, ToRaisesMeant
    <2>4. CASE AsPythonReturns BY <2>4, AsPythonReturnsMeant
    <2>5. CASE EqConverted     BY <2>5, EqConvertedMeant
    <2>6. CASE EqRefuses       BY <2>6, EqRefusesMeant
    <2>7. CASE EqReturns       BY <2>7, EqReturnsMeant
    <2>8. CASE Converts        BY <2>8, ConvertsMeant
    <2>9. CASE Unconverts      BY <2>9, UnconvertsMeant
    <2>10. CASE ComparesOne    BY <2>10, ComparesMeant
    <2>11. CASE UNCHANGED vars BY <2>11, NothingMeant
    <2> QED  BY <2>1, <2>2, <2>3, <2>4, <2>5, <2>6, <2>7, <2>8, <2>9, <2>10, <2>11
             DEF Next, Finished
  <1> QED  BY <1>1, <1>2, PTL DEF Spec

\* SExp.to gives the tree that a value stands for, or raises ValueError just if
\* the value or a part of it stands for none; to_sexp_type puts the parts
\* together on its stack in the right order and the right places.
THEOREM BecomesTreeHolds ==
    ASSUME NEW CONSTANT V, NEW CONSTANT D, Meanings(V, D)
    PROVE  Spec => []BecomesTree
  <1>1. Meant(V, D) => BecomesTree
    <2> SUFFICES ASSUME Meant(V, D), Converting
                 PROVE  /\ converting = "done" =>
                              CanConvert(Converted) /\ stack = <<TreeOf(Converted)>>
                        /\ converting = "raised" => ~CanConvert(Converted)
      BY DEF BecomesTree
    <2>1. Converted \in V
      BY DEF Converted, Converting, Meant
    <2> QED  BY <2>1, ConversionEnds DEF Meant, Meanings
  <1> QED  BY <1>1, MeantHolds, PTL

\* as_python gives the Python value that a tree becomes: a list for pairs that
\* end in nil, whether or not a list was there first, and tuples otherwise.
THEOREM BecomesPythonHolds ==
    ASSUME NEW CONSTANT V, NEW CONSTANT D, Meanings(V, D)
    PROVE  Spec => []BecomesPython
  <1>1. Meant(V, D) => BecomesPython
    BY DEF Meant, UPath, BecomesPython
  <1> QED  BY <1>1, MeantHolds, PTL

\* == tells whether the other value stands for the same tree, and is false when
\* it stands for none.
THEOREM EqualIfSameTreeHolds ==
    ASSUME NEW CONSTANT V, NEW CONSTANT D, Meanings(V, D)
    PROVE  Spec => []EqualIfSameTree
  <1>1. Meant(V, D) => EqualIfSameTree
    BY DEF Meant, EInv, EqualIfSameTree
  <1> QED  BY <1>1, MeantHolds, PTL

\* Each operation of as_python finds what it needs also when its tree is what
\* SExp.to makes of a value: no pop fails and no value is converted twice.
THEOREM FindsItsValuesHolds ==
    ASSUME NEW CONSTANT V, NEW CONSTANT D, Meanings(V, D)
    PROVE  Spec => []FindsItsValues
  <1>1. Meant(V, D) => FindsItsValues
    BY UInvFinds, TreeFacts DEF Meant, Meanings
  <1> QED  BY <1>1, MeantHolds, PTL
=============================================================================
