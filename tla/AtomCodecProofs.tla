-------------------------- MODULE AtomCodecProofs --------------------------
(***************************************************************************)
(* Proofs about AtomCodec, for all atoms and all streams.                  *)
(***************************************************************************)
EXTENDS AtomCodec, SequenceTheorems, TLAPS

\* What is left of the first byte after c leading ones were taken from it.
LeftIn(x, c) == x \in Nat /\ x < (IF c = 0 THEN 256 ELSE Masks[c])

\* The bit under the mask is set exactly if what is left is not below the mask.
BitSet(x, c) == Masks[c + 1] # 0 /\ (x \div Masks[c + 1]) % 2 = 1

LEMMA BitIsComparison ==
    ASSUME NEW c \in 0..8, NEW x, LeftIn(x, c)
    PROVE  /\ Masks[c + 1] \in Nat
           /\ BitSet(x, c) => c < 8 /\ x >= Masks[c + 1] /\ LeftIn(x - Masks[c + 1], c + 1)
                              /\ Masks[c + 1] \div 2 = Masks[c + 2]
                              /\ Ones[c + 2] = Ones[c + 1] + Masks[c + 1]
           /\ ~BitSet(x, c) => x < Masks[c + 1] \/ (c = 8 /\ x = 0)
  <1>1. c = 0 \/ c = 1 \/ c = 2 \/ c = 3 \/ c = 4 \/ c = 5 \/ c = 6 \/ c = 7 \/ c = 8
    OBVIOUS
  <1>2. CASE c = 0  BY <1>2, SMT DEF BitSet, LeftIn, Masks, Ones
  <1>3. CASE c = 1  BY <1>3, SMT DEF BitSet, LeftIn, Masks, Ones
  <1>4. CASE c = 2  BY <1>4, SMT DEF BitSet, LeftIn, Masks, Ones
  <1>5. CASE c = 3  BY <1>5, SMT DEF BitSet, LeftIn, Masks, Ones
  <1>6. CASE c = 4  BY <1>6, SMT DEF BitSet, LeftIn, Masks, Ones
  <1>7. CASE c = 5  BY <1>7, SMT DEF BitSet, LeftIn, Masks, Ones
  <1>8. CASE c = 6  BY <1>8, SMT DEF BitSet, LeftIn, Masks, Ones
  <1>9. CASE c = 7  BY <1>9, SMT DEF BitSet, LeftIn, Masks, Ones
  <1>10. CASE c = 8  BY <1>10, SMT DEF BitSet, LeftIn, Masks, Ones
  <1> QED  BY <1>1, <1>2, <1>3, <1>4, <1>5, <1>6, <1>7, <1>8, <1>9, <1>10

\* SizeBytes is the number of the first limit that the size is below.
LEMMA SizeBytesFacts ==
    ASSUME NEW n \in Number
    PROVE  /\ SizeBytes(n) \in 1..6
           /\ SizeBytes(n) < 6 => Below(n, SizeBytes(n))
           /\ \A k \in 1..5 : Below(n, k) => SizeBytes(n) <= k
  <1> DEFINE Chosen(k) == /\ k = 6 \/ Below(n, k)
                          /\ \A j \in 1..(k - 1) : ~Below(n, j)
  <1>1. \E k \in 1..6 : Chosen(k)
    <2>1. CASE Below(n, 1)  BY <2>1
    <2>2. CASE ~Below(n, 1) /\ Below(n, 2)  BY <2>2
    <2>3. CASE ~Below(n, 1) /\ ~Below(n, 2) /\ Below(n, 3)  BY <2>3
    <2>4. CASE ~Below(n, 1) /\ ~Below(n, 2) /\ ~Below(n, 3) /\ Below(n, 4)  BY <2>4
    <2>5. CASE /\ ~Below(n, 1) /\ ~Below(n, 2) /\ ~Below(n, 3) /\ ~Below(n, 4)
               /\ Below(n, 5)
      BY <2>5
    <2>6. CASE /\ ~Below(n, 1) /\ ~Below(n, 2) /\ ~Below(n, 3) /\ ~Below(n, 4)
               /\ ~Below(n, 5)
      BY <2>6
    <2> QED  BY <2>1, <2>2, <2>3, <2>4, <2>5, <2>6
  <1>2. SizeBytes(n) \in 1..6 /\ Chosen(SizeBytes(n))
    BY <1>1 DEF SizeBytes
  <1>3. ASSUME NEW k \in 1..5, Below(n, k) PROVE SizeBytes(n) <= k
    <2>1. SizeBytes(n) > k => k \in 1..(SizeBytes(n) - 1)
      BY <1>2
    <2> QED  BY <1>2, <1>3, <2>1
  <1> QED  BY <1>2, <1>3

\* A size is below a limit if all its digits before are 0, and it is below all
\* larger limits then.
LEMMA BelowFacts ==
    ASSUME NEW n \in Number
    PROVE  /\ \A k \in 1..5 : Below(n, k) => Below(n, 5)
           /\ Below(n, 5) <=> Less(n, Limit34)
           /\ SizeBytes(n) = 6 <=> ~Less(n, Limit34)
  <1>1. n[1] \in Nat /\ n[2] \in Nat /\ n[3] \in Nat /\ n[4] \in Nat /\ n[5] \in Nat
        /\ n[6] \in Nat /\ n[7] \in Nat /\ n[8] \in Nat
    BY SMTT(30) DEF Number, Byte
  <1>2. Below(n, 5) <=> n[4] < 4 /\ n[1] = 0 /\ n[2] = 0 /\ n[3] = 0
    BY DEF Below, Limit
  <1>3. ASSUME NEW k \in 1..5, Below(n, k) PROVE Below(n, 5)
    <2>1. k = 5 \/ \A i \in 1..4 : i \in 1..(8 - k)
      OBVIOUS
    <2>2. k = 5 \/ \A i \in 1..4 : n[i] = 0
      BY <1>3, <2>1 DEF Below
    <2> QED  BY <1>2, <1>3, <2>2
  <1>4. Below(n, 5) => Less(n, Limit34)
    <2> SUFFICES ASSUME Below(n, 5) PROVE Less(n, Limit34)
      OBVIOUS
    <2>1. n[4] < Limit34[4] /\ \A j \in 1..3 : n[j] = Limit34[j]
      BY <1>2 DEF Limit34
    <2> QED  BY <2>1 DEF Less
  <1>5. Less(n, Limit34) => Below(n, 5)
    <2> SUFFICES ASSUME NEW i \in 1..8, n[i] < Limit34[i],
                        \A j \in 1..(i - 1) : n[j] = Limit34[j]
                 PROVE  Below(n, 5)
      BY DEF Less
    <2>1. i = 4
      <3>1. i # 4 => Limit34[i] = 0
        BY DEF Limit34
      <3>2. n[i] \in Nat
        BY SMTT(30) DEF Number, Byte
      <3> QED  BY <3>1, <3>2
    <2>2. Limit34[4] = 4 /\ Limit34[1] = 0 /\ Limit34[2] = 0 /\ Limit34[3] = 0
      BY DEF Limit34
    <2> QED  BY <1>2, <2>1, <2>2
  <1>6. SizeBytes(n) = 6 <=> ~Below(n, 5)
    BY <1>3, SizeBytesFacts
  <1> QED  BY <1>3, <1>4, <1>5, <1>6


\* A size is less than a number of which only digit d is not 0 if its digits before
\* d are 0 and digit d is less.
LEMMA LessThanDigit ==
    ASSUME NEW n \in Number, NEW L, NEW d \in 1..8, NEW v, L[d] = v,
           \A i \in 1..8 : i # d => L[i] = 0
    PROVE  Less(n, L) <=> n[d] < v /\ \A i \in 1..(d - 1) : n[i] = 0
  <1>1. ASSUME NEW i \in 1..8, n[i] < L[i], \A j \in 1..(i - 1) : n[j] = L[j]
        PROVE  n[d] < v /\ \A j \in 1..(d - 1) : n[j] = 0
    <2>1. i = d
      <3>1. n[i] \in Nat
        BY SMTT(30) DEF Number, Byte
      <3> QED  BY <1>1, <3>1
    <2>2. \A j \in 1..(d - 1) : L[j] = 0
      OBVIOUS
    <2> QED  BY <1>1, <2>1, <2>2
  <1>2. ASSUME n[d] < v, \A j \in 1..(d - 1) : n[j] = 0
        PROVE  Less(n, L)
    <2>1. \A j \in 1..(d - 1) : n[j] = L[j]
      BY <1>2
    <2> QED  BY <1>2, <2>1 DEF Less
  <1> QED  BY <1>1, <1>2 DEF Less

\* The table of serialized_length and that of the writer have the same limits.
LEMMA SameLimits ==
    ASSUME NEW n \in Number, NEW k \in 1..5
    PROVE  Less(n, LengthLimits[k]) <=> Below(n, k)
  <1>1. /\ LengthLimits[k][9 - k] = Limit[k]
        /\ \A i \in 1..8 : i # 9 - k => LengthLimits[k][i] = 0
    <2>1. k = 1 \/ k = 2 \/ k = 3 \/ k = 4 \/ k = 5
      OBVIOUS
    <2>2. CASE k = 1  BY <2>2 DEF LengthLimits, Limit
    <2>3. CASE k = 2  BY <2>3 DEF LengthLimits, Limit
    <2>4. CASE k = 3  BY <2>4 DEF LengthLimits, Limit
    <2>5. CASE k = 4  BY <2>5 DEF LengthLimits, Limit
    <2>6. CASE k = 5  BY <2>6 DEF LengthLimits, Limit
    <2> QED  BY <2>1, <2>2, <2>3, <2>4, <2>5, <2>6
  <1>2. 9 - k \in 1..8 /\ (9 - k) - 1 = 8 - k
    OBVIOUS
  <1>3. Less(n, LengthLimits[k]) <=>
          n[9 - k] < Limit[k] /\ \A i \in 1..((9 - k) - 1) : n[i] = 0
    BY <1>1, <1>2, LessThanDigit
  <1> QED  BY <1>2, <1>3 DEF Below

\* What serialized_length adds, by the writer's table.
LEMMA LengthBefore ==
    ASSUME NEW a \in [size : Number, first : Byte]
    PROVE  /\ a.size = Small(0) => length_before(a) = 1
           /\ IsSingle(a) => length_before(a) = 0
           /\ a.size # Small(0) /\ ~IsSingle(a) => length_before(a) = SizeBytes(a.size)
  <1> DEFINE n == a.size
             Chosen(k) == /\ k = 6 \/ Less(n, LengthLimits[k])
                          /\ \A j \in 1..(k - 1) : ~Less(n, LengthLimits[j])
             m == CHOOSE k \in 1..6 : Chosen(k)
  <1>1. n \in Number /\ a.first \in 0..255
    BY DEF Byte
  <1>2. Small(0) # Small(1)
    BY DEF Small
  <1>3. IsSingle(a) <=> n = Small(1) /\ a.first < 128
    BY <1>1 DEF IsSingle, MAX_SINGLE_BYTE
  <1>4. ASSUME n # Small(0), ~IsSingle(a) PROVE length_before(a) = SizeBytes(n)
    <2>1. SizeBytes(n) \in 1..6 /\ Chosen(SizeBytes(n))
      <3>1. /\ SizeBytes(n) \in 1..6
            /\ SizeBytes(n) < 6 => Below(n, SizeBytes(n))
            /\ \A k \in 1..5 : Below(n, k) => SizeBytes(n) <= k
        BY <1>1, SizeBytesFacts
      <3>2. SizeBytes(n) = 6 \/ Less(n, LengthLimits[SizeBytes(n)])
        BY <1>1, <3>1, SameLimits
      <3>3. ASSUME NEW j \in 1..(SizeBytes(n) - 1) PROVE ~Less(n, LengthLimits[j])
        <4>1. j \in 1..5 /\ ~(SizeBytes(n) <= j)
          BY <3>1
        <4> QED  BY <1>1, <3>1, <4>1, SameLimits
      <3> QED  BY <3>1, <3>2, <3>3
    <2> HIDE DEF n
    <2>2. m \in 1..6 /\ Chosen(m)
      BY <2>1
    <2>3. \A k, l \in 1..6 : Chosen(k) /\ Chosen(l) => k = l
      <3>1. ASSUME NEW k \in 1..6, NEW l \in 1..6, Chosen(k), Chosen(l), k < l
            PROVE  FALSE
        <4>1. k \in 1..(l - 1) /\ k # 6
          BY <3>1
        <4> QED  BY <3>1, <4>1
      <3>2. \A k, l \in 1..6 : k = l \/ k < l \/ l < k
        OBVIOUS
      <3> HIDE DEF Chosen
      <3> QED  BY <3>1, <3>2
    <2>4. m = SizeBytes(n)
      <3> HIDE DEF m, Chosen
      <3> QED  BY <2>1, <2>2, <2>3
    <2>5. length_before(a) = m
      BY <1>3, <1>4 DEF length_before, n
    <2> QED  BY <2>4, <2>5
  <1>5. n = Small(0) => length_before(a) = 1
    BY DEF length_before
  <1>6. IsSingle(a) => length_before(a) = 0
    BY <1>2, <1>3 DEF length_before
  <1> QED  BY <1>4, <1>5, <1>6

LEMMA SmallSizes ==
    /\ Small(0) \in Number /\ Small(1) \in Number
    /\ Less(Small(0), Limit34) /\ Less(Small(1), Limit34)
  <1>1. Small(0) \in Number /\ Small(1) \in Number
    BY DEF Small, Number, Byte
  <1>2. Below(Small(0), 5) /\ Below(Small(1), 5)
    BY DEF Below, Limit, Small
  <1> QED  BY <1>1, <1>2, BelowFacts

\* One first byte does not stand for two numbers of leading ones.
LEMMA OnePrefix ==
    ASSUME NEW k \in 1..5, NEW d \in Nat, d < Limit[k],
           NEW c \in 1..8, NEW x \in Nat, x < Masks[c + 1] \/ (c = 8 /\ x = 0),
           Prefix[k] + d = Ones[c + 1] + x
    PROVE  c = k /\ x = d
  <1>1. k = 1 \/ k = 2 \/ k = 3 \/ k = 4 \/ k = 5
    OBVIOUS
  <1>2. c = 1 \/ c = 2 \/ c = 3 \/ c = 4 \/ c = 5 \/ c = 6 \/ c = 7 \/ c = 8
    OBVIOUS
  <1>3. CASE k = 1  BY <1>2, <1>3, SMT DEF Prefix, Limit, Ones, Masks
  <1>4. CASE k = 2  BY <1>2, <1>4, SMT DEF Prefix, Limit, Ones, Masks
  <1>5. CASE k = 3  BY <1>2, <1>5, SMT DEF Prefix, Limit, Ones, Masks
  <1>6. CASE k = 4  BY <1>2, <1>6, SMT DEF Prefix, Limit, Ones, Masks
  <1>7. CASE k = 5  BY <1>2, <1>7, SMT DEF Prefix, Limit, Ones, Masks
  <1> QED  BY <1>1, <1>3, <1>4, <1>5, <1>6, <1>7

-----------------------------------------------------------------------------
(***************************************************************************)
(* The inductive invariant: what the first byte was split into while it is *)
(* looked at, and what the size and the start of the atom come from when   *)
(* they are read.                                                          *)
(***************************************************************************)
Bits == b = Ones[bit_count + 1] + ll /\ LeftIn(ll, bit_count)

Looking == /\ bit_mask = Masks[bit_count + 1] /\ Bits
           /\ at = 1 /\ b = ByteAt(1) /\ b > 128

Sized == /\ bit_mask = Masks[bit_count + 1] /\ Bits
         /\ at = bit_count /\ at > 0 /\ b = ByteAt(1) /\ b > 128
         /\ ll < Masks[bit_count + 1] \/ (bit_count = 8 /\ ll = 0)
         /\ size = from_bytes

Single == \/ b = 128 /\ at = 1 /\ size = Small(0) /\ b = ByteAt(1)
          \/ b <= 127 /\ at = 0 /\ size = Small(1) /\ b = ByteAt(1)

Written == sent # "no" =>
             /\ ~TooLong(atom)
             /\ f.head = Before(atom) \o (IF atom.size = Small(0) THEN <<>>
                                           ELSE <<atom.first>>)

Unread == /\ phase = "write" => sent = "no"
          /\ phase = "too long" => sent = "no" /\ TooLong(atom)
          /\ phase \in {"write", "first"} => bit_count = 0 /\ bit_mask = 128

Read == /\ phase = "bits" => Looking
        /\ phase \in {"size", "blob"} => Sized
        /\ phase = "blob" => Less(size, Limit34)
        /\ phase = "done" => Single \/ (Sized /\ Less(size, Limit34))

IInv == TypeOK /\ Written /\ Unread /\ Read

LEMMA SmallAndPlus ==
    ASSUME NEW n \in Byte
    PROVE  Small(n) \in Number /\ \A m \in Number : Plus(m, n) \in Number
  <1>1. Small(n) \in Number
    BY DEF Small, Number, Byte
  <1>2. ASSUME NEW m \in Number PROVE Plus(m, n) \in Number
    <2>1. (m[8] + n) % 256 \in Byte
      <3>1. m[8] \in Nat /\ n \in Nat
        BY DEF Number, Byte
      <3>2. ASSUME NEW x \in Nat PROVE x % 256 \in Byte
        BY DEF Byte
      <3>3. m[8] + n \in Nat
        BY <3>1
      <3> QED  BY <3>2, <3>3
    <2>2. \A i \in 1..8 : m[i] \in Byte /\ (m[i] + 1) % 256 \in Byte
      BY DEF Number, Byte
    <2> QED  BY <2>1, <2>2 DEF Plus, Number
  <1> QED  BY <1>1, <1>2

LEMMA FunctionIsSeq ==
    ASSUME NEW n \in Nat, NEW s \in [1..n -> Byte]
    PROVE  s \in Seq(Byte) /\ Len(s) = n
  <1>1. s \in Seq(Byte)
    <2>1. [1..n -> Byte] \in {[1..k -> Byte] : k \in Nat}
      OBVIOUS
    <2>2. s \in UNION {[1..k -> Byte] : k \in Nat}
      BY <2>1
    <2> QED  BY <2>2, SeqDef
  <1>2. Len(s) \in Nat /\ DOMAIN s = 1..Len(s)
    BY <1>1, LenProperties
  <1>3. 1..Len(s) = 1..n
    BY <1>2
  <1>4. Len(s) = n
    <2>1. n + 1 \notin 1..Len(s) /\ (n = 0 \/ n \in 1..Len(s)) /\ (n = 0 => 1 \notin 1..Len(s))
      BY <1>3
    <2> QED  BY <1>2, <2>1
  <1> QED  BY <1>1, <1>4

LEMMA NumberIsSeq ==
    ASSUME NEW n \in Number
    PROVE  n \in Seq(Byte) /\ Len(n) = 8 /\ \A i \in 1..8 : n[i] \in Byte
  BY 8 \in Nat, FunctionIsSeq DEF Number

\* What comes before an atom is at most five bytes.
LEMMA BeforeFacts ==
    ASSUME NEW a \in [size : Number, first : Byte], ~TooLong(a)
    PROVE  /\ Before(a) \in Seq(Byte)
           /\ Len(Before(a)) = length_before(a)
           /\ Len(Before(a)) \in 0..5
           /\ a.size # Small(0) /\ ~IsSingle(a) =>
                LET k == SizeBytes(a.size)
                IN  /\ Before(a)[1] = Prefix[k] + a.size[9 - k] /\ Len(Before(a)) = k
                    /\ a.size[9 - k] < Limit[k]
                    /\ k \in 1..5
                    /\ \A i \in 2..k : Before(a)[i] = a.size[8 - k + i]
  <1> DEFINE k == SizeBytes(a.size)
  <1>1. a.size \in Number /\ k \in 1..5 /\ Below(a.size, k)
    BY SizeBytesFacts DEF TooLong
  <1>2. CASE a.size = Small(0)
    <2>1. ~IsSingle(a) /\ 128 \in Byte
      BY <1>2 DEF IsSingle, Small, Byte
    <2> QED  BY <1>2, <2>1, LengthBefore DEF Before
  <1>3. CASE IsSingle(a)
    <2>1. a.size # Small(0)
      BY <1>3 DEF IsSingle, Small
    <2> QED  BY <1>3, <2>1, LengthBefore DEF Before
  <1>4. CASE a.size # Small(0) /\ ~IsSingle(a)
    <2>1. Before(a) = <<Prefix[k] + a.size[9 - k]>> \o SubSeq(a.size, 10 - k, 8)
      BY <1>4 DEF Before, size_blob
    <2>2. a.size \in Seq(Byte) /\ Len(a.size) = 8 /\ \A i \in 1..8 : a.size[i] \in Byte
      BY <1>1, NumberIsSeq
    <2>3. 9 - k \in 1..8 /\ a.size[9 - k] < Limit[k] /\ a.size[9 - k] \in Byte
      BY <1>1, <2>2 DEF Below
    <2>4. Prefix[k] + a.size[9 - k] \in Byte
      <3>1. k = 1 \/ k = 2 \/ k = 3 \/ k = 4 \/ k = 5
        BY <1>1
      <3> QED  BY <2>3, <3>1 DEF Byte, Prefix, Limit
    <2>5. /\ SubSeq(a.size, 10 - k, 8) \in Seq(Byte)
          /\ Len(SubSeq(a.size, 10 - k, 8)) = k - 1
          /\ \A i \in 1..(k - 1) : SubSeq(a.size, 10 - k, 8)[i] = a.size[9 - k + i]
      BY <1>1, <2>2
    <2>6. /\ Before(a) \in Seq(Byte) /\ Len(Before(a)) = k
          /\ Before(a)[1] = Prefix[k] + a.size[9 - k]
          /\ \A i \in 2..k : Before(a)[i] = SubSeq(a.size, 10 - k, 8)[i - 1]
      BY <1>1, <2>1, <2>4, <2>5
    <2>7. \A i \in 2..k : i - 1 \in 1..(k - 1) /\ 9 - k + (i - 1) = 8 - k + i
      BY <1>1
    <2>8. \A i \in 2..k : Before(a)[i] = a.size[8 - k + i]
      BY <2>5, <2>6, <2>7
    <2> QED  BY <1>1, <1>4, <2>3, <2>6, <2>8, LengthBefore
  <1> QED  BY <1>2, <1>3, <1>4

-----------------------------------------------------------------------------
LEMMA MaskValues ==
    ASSUME NEW c \in 0..8
    PROVE  Masks[c + 1] \in {0, 1, 2, 4, 8, 16, 32, 64, 128}
  <1>1. c = 0 \/ c = 1 \/ c = 2 \/ c = 3 \/ c = 4 \/ c = 5 \/ c = 6 \/ c = 7 \/ c = 8
    OBVIOUS
  <1> QED  BY <1>1, SMT DEF Masks

LEMMA FewBytes ==
    ASSUME NEW h \in 0..5
    PROVE  /\ \A n \in 0..250 : h + n \in Byte
           /\ \A k \in 1..(h - 1) : k \in Byte
           /\ h # 0 => h - 1 \in Byte
           /\ h # 6
  <1>1. h \in Nat /\ h <= 5
    OBVIOUS
  <1>2. ASSUME h = 6 PROVE FALSE
    BY <1>1, <1>2
  <1>3. \A n \in 0..250 : h + n \in 0..255
    BY <1>1
  <1>4. \A k \in 1..(h - 1) : k \in 0..255
    BY <1>1
  <1>5. h # 0 => h - 1 \in 0..255
    BY <1>1
  <1> QED  BY <1>2, <1>3, <1>4, <1>5 DEF Byte

LEMMA InitIInv == Init => IInv
  <1> SUFFICES ASSUME Init PROVE IInv
    OBVIOUS
  <1>1. Small(0) \in Number /\ 0 \in Byte
    BY SmallAndPlus DEF Byte
  <1>2. bit_count = 0 /\ bit_mask = 128 /\ size = Small(0) /\ at = 0 /\ b = 0 /\ ll = 0
        /\ sent = "no" /\ phase \in {"write", "first"}
    BY DEF Init, ReadersInit
  <1>3. atom \in AtomType
    <2>1. Nothing \in AtomType
      BY <1>1 DEF Nothing, AtomType
    <2> QED  BY <2>1, AtomsAssumption DEF Init
  <1>4. f \in [head : Seq(Byte), length : Number]
    <2>1. <<>> \in Seq(Byte)
      OBVIOUS
    <2>2. Stream(<<>>, Small(0)) \in [head : Seq(Byte), length : Number]
      BY <1>1, <2>1 DEF Stream
    <2>3. f = Stream(<<>>, Small(0)) \/ f \in Streams
      BY DEF Init
    <2> QED  BY <2>2, <2>3, StreamsAssumption
  <1>5. bit_count \in 0..8 /\ at \in 0..8 /\ b \in Byte /\ ll \in Byte /\ size \in Number
        /\ bit_mask \in {0, 1, 2, 4, 8, 16, 32, 64, 128}
    BY <1>1, <1>2
  <1>6. TypeOK
    BY <1>2, <1>3, <1>4, <1>5 DEF TypeOK
  <1> QED  BY <1>2, <1>3, <1>6 DEF IInv, Written, Unread, Read

LEMMA WriteStep == IInv /\ Write => IInv'
  <1> SUFFICES ASSUME IInv, Write PROVE IInv'
    OBVIOUS
  <1> USE DEF IInv
  <1>1. PICK n \in Beyond :
          f' = Stream(Before(atom) \o (IF atom.size = Small(0) THEN <<>> ELSE <<atom.first>>),
                      Plus(atom.size, Len(Before(atom)) + n))
    BY DEF Write
  <1>2. atom \in [size : Number, first : Byte] /\ ~TooLong(atom)
    BY DEF TypeOK, AtomType, Write
  <1>3. Before(atom) \in Seq(Byte) /\ Len(Before(atom)) \in 0..5
    BY <1>2, BeforeFacts
  <1>4. Len(Before(atom)) + n \in Byte
    <2>1. n \in 0..250
      BY BeyondAssumption
    <2> QED  BY <1>3, <2>1, FewBytes
  <1>5. Plus(atom.size, Len(Before(atom)) + n) \in Number
    BY <1>2, <1>4, SmallAndPlus
  <1>6. Before(atom) \o (IF atom.size = Small(0) THEN <<>> ELSE <<atom.first>>) \in Seq(Byte)
    BY <1>2, <1>3
  <1>7. f' \in [head : Seq(Byte), length : Number]
    BY <1>1, <1>5, <1>6 DEF Stream
  <1>8. f'.head = Before(atom) \o (IF atom.size = Small(0) THEN <<>> ELSE <<atom.first>>)
    BY <1>1 DEF Stream
  <1>9. /\ atom' = atom /\ sent' = "all" /\ phase' = "first"
        /\ UNCHANGED <<b, ll, bit_count, bit_mask, size, at>> /\ phase = "write"
    BY DEF Write, readers
  <1>10. TypeOK'
    BY <1>7, <1>9 DEF TypeOK
  <1> QED  BY <1>2, <1>8, <1>9, <1>10 DEF Written, Unread, Read

LEMMA CutStep == IInv /\ Cut => IInv'
  <1> SUFFICES ASSUME IInv, Cut PROVE IInv'
    OBVIOUS
  <1> USE DEF IInv
  <1>1. PICK length \in {Small(k) : k \in 1..(Len(Before(atom)) - 1)}
                        \cup (IF Before(atom) = <<>> \/ atom.size = Small(0) THEN {}
                              ELSE {Plus(atom.size, Len(Before(atom)) - 1)}) :
          f' = [f EXCEPT !.length = length]
    BY DEF Cut
  <1>2. atom \in [size : Number, first : Byte] /\ ~TooLong(atom)
    BY DEF TypeOK, AtomType, Cut, Written
  <1>3. Before(atom) \in Seq(Byte) /\ Len(Before(atom)) \in 0..5
    BY <1>2, BeforeFacts
  <1>4. length \in Number
    <2>1. ASSUME NEW k \in 1..(Len(Before(atom)) - 1) PROVE Small(k) \in Number
      <3>1. k \in Byte
        BY <1>3, FewBytes
      <3> QED  BY <3>1, SmallAndPlus
    <2>2. ASSUME Before(atom) # <<>> PROVE Plus(atom.size, Len(Before(atom)) - 1) \in Number
      <3>1. Len(Before(atom)) # 0
        BY <1>3, <2>2
      <3>2. Len(Before(atom)) - 1 \in Byte
        BY <1>3, <3>1, FewBytes
      <3> QED  BY <1>2, <3>2, SmallAndPlus
    <2> QED  BY <1>1, <2>1, <2>2
  <1>5. f' \in [head : Seq(Byte), length : Number] /\ f'.head = f.head
    BY <1>1, <1>4 DEF TypeOK
  <1>6. /\ atom' = atom /\ sent = "all" /\ sent' = "cut" /\ phase' = "first" /\ phase = "first"
        /\ UNCHANGED <<b, ll, bit_count, bit_mask, size, at>>
    BY DEF Cut, readers
  <1>7. TypeOK'
    BY <1>5, <1>6 DEF TypeOK
  <1> QED  BY <1>5, <1>6, <1>7 DEF Written, Unread, Read

LEMMA ReadFirstStep == IInv /\ ReadFirst => IInv'
  <1> SUFFICES ASSUME IInv, ReadFirst PROVE IInv'
    OBVIOUS
  <1> USE DEF IInv
  <1>1. f \in [head : Seq(Byte), length : Number] /\ f' = f
    BY DEF TypeOK, ReadFirst
  <1>2. ByteAt(1) \in Byte
    <2>1. f.head \in Seq(Byte)
      BY <1>1
    <2>2. Len(f.head) >= 1 => f.head[1] \in Byte
      BY <2>1
    <2> QED  BY <2>1, <2>2 DEF ByteAt, Byte
  <1>3. b' = ByteAt(1) /\ ll' = ByteAt(1) /\ ByteAt(1)' = ByteAt(1)
    BY <1>1 DEF ReadFirst, ByteAt
  <1>4. Small(0) \in Number /\ Small(1) \in Number
    BY SmallAndPlus DEF Byte
  <1>5. bit_count' = 0 /\ bit_mask' = 128 /\ atom' = atom /\ sent' = sent
        /\ phase' \in {"bits", "done"} /\ at' \in {0, 1}
    BY DEF Unread, ReadFirst
  <1>6. size' \in Number
    BY <1>4 DEF TypeOK, ReadFirst
  <1>7. TypeOK'
    <2>1. b' \in Byte /\ ll' \in Byte
      BY <1>2, <1>3
    <2>2. bit_count' \in 0..8 /\ at' \in 0..8 /\ bit_mask' \in {0, 1, 2, 4, 8, 16, 32, 64, 128}
      BY <1>5
    <2>3. atom' \in AtomType /\ sent' \in {"no", "all", "cut"}
      BY <1>5 DEF TypeOK
    <2> QED  BY <1>1, <1>5, <1>6, <2>1, <2>2, <2>3 DEF TypeOK
  <1>8. phase' = "bits" => Looking'
    <2> SUFFICES ASSUME phase' = "bits" PROVE Looking'
      OBVIOUS
    <2>1. at' = 1 /\ b' > 128
      <3>1. at' = 1 /\ b' # 128 /\ ~(b' <= 127)
        BY DEF ReadFirst, MAX_SINGLE_BYTE
      <3> QED  BY <1>2, <1>3, <3>1 DEF Byte
    <2>2. Bits'
      BY <1>2, <1>3, <1>5 DEF Bits, LeftIn, Ones, Byte
    <2>3. bit_mask' = Masks[bit_count' + 1]
      BY <1>5 DEF Masks
    <2> QED  BY <1>3, <2>1, <2>2, <2>3 DEF Looking
  <1>9. phase' = "done" => Single'
    BY <1>3 DEF ReadFirst, Single, MAX_SINGLE_BYTE
  <1>10. Written'
    BY <1>1, <1>5 DEF Written
  <1> QED  BY <1>5, <1>7, <1>8, <1>9, <1>10 DEF Unread, Read

LEMMA CountBitStep == IInv /\ CountBit => IInv'
  <1> SUFFICES ASSUME IInv, CountBit PROVE IInv'
    OBVIOUS
  <1> USE DEF IInv
  <1>1. Looking /\ bit_count \in 0..8 /\ ll \in Nat /\ LeftIn(ll, bit_count)
    BY DEF TypeOK, Read, CountBit, Looking, Bits, LeftIn
  <1>2. BitSet(ll, bit_count)
    BY <1>1 DEF CountBit, BitIsSet, BitSet, Looking
  <1>3. /\ bit_count < 8 /\ ll >= bit_mask /\ LeftIn(ll - bit_mask, bit_count + 1)
        /\ bit_mask \div 2 = Masks[bit_count + 2] /\ bit_mask \in Nat
        /\ Ones[bit_count + 2] = Ones[bit_count + 1] + bit_mask
    BY <1>1, <1>2, BitIsComparison DEF Looking
  <1>4. /\ bit_count' = bit_count + 1 /\ ll' = ll - bit_mask /\ bit_mask' = bit_mask \div 2
        /\ UNCHANGED <<atom, f, sent, b, size, at, phase>> /\ phase = "bits"
    BY DEF CountBit
  <1>5. bit_count' \in 0..8 /\ bit_count' + 1 = bit_count + 2
    BY <1>1, <1>3, <1>4
  <1>6. bit_mask' = Masks[bit_count' + 1]
    BY <1>3, <1>4, <1>5
  <1>7. Bits'
    <2>1. Ones[bit_count + 1] \in Nat
      BY <1>1 DEF Ones
    <2>2. b = Ones[bit_count + 1] + ll
      BY <1>1 DEF Looking, Bits
    <2>3. b = Ones[bit_count + 2] + (ll - bit_mask)
      BY <1>1, <1>3, <2>1, <2>2
    <2>4. b' = Ones[bit_count' + 1] + ll'
      BY <1>4, <1>5, <2>3
    <2>5. LeftIn(ll', bit_count')
      BY <1>3, <1>4
    <2> QED  BY <2>4, <2>5 DEF Bits
  <1>8. ByteAt(1)' = ByteAt(1)
    BY <1>4 DEF ByteAt
  <1>9. Looking'
    BY <1>1, <1>4, <1>6, <1>7, <1>8 DEF Looking
  <1>10. TypeOK'
    <2>1. ll' \in Byte
      BY <1>1, <1>3, <1>4 DEF TypeOK, Byte
    <2>2. bit_mask' \in {0, 1, 2, 4, 8, 16, 32, 64, 128}
      BY <1>5, <1>6, MaskValues
    <2> QED  BY <1>4, <1>5, <2>1, <2>2 DEF TypeOK
  <1> QED  BY <1>4, <1>9, <1>10 DEF Written, Unread, Read

LEMMA ReadSizeStep == IInv /\ ReadSize => IInv'
  <1> SUFFICES ASSUME IInv, ReadSize PROVE IInv'
    OBVIOUS
  <1> USE DEF IInv
  <1>1. Looking /\ bit_count \in 0..8 /\ ll \in Byte /\ LeftIn(ll, bit_count)
    BY DEF TypeOK, Read, ReadSize, Looking, Bits
  <1>2. ~BitSet(ll, bit_count)
    BY <1>1 DEF ReadSize, BitIsSet, BitSet, Looking
  <1>3. ll < Masks[bit_count + 1] \/ (bit_count = 8 /\ ll = 0)
    BY <1>1, <1>2, BitIsComparison
  <1>4. UNCHANGED <<atom, f, sent, b, ll, bit_count, bit_mask>> /\ phase = "bits"
        /\ phase' \in {"size", "bad encoding"}
    BY DEF ReadSize
  <1>5. from_bytes \in Number
    <2>1. f.head \in Seq(Byte)
      BY DEF TypeOK
    <2>2. ASSUME NEW i \in Nat \ {0} PROVE ByteAt(i) \in Byte
      <3>1. i <= Len(f.head) => f.head[i] \in Byte
        BY <2>1, <2>2
      <3> QED  BY <3>1 DEF ByteAt, Byte
    <2>3. ASSUME NEW i \in 1..8, ~(i < 9 - bit_count), i # 9 - bit_count
          PROVE  i - (8 - bit_count) \in Nat \ {0}
      BY <1>1, <2>3
    <2>4. 0 \in Byte
      BY DEF Byte
    <2> QED  BY <1>1, <2>2, <2>3, <2>4 DEF from_bytes, Number
  <1>6. TypeOK'
    <2>1. size' \in Number /\ at' \in 0..8
      <3>1. size \in Number /\ at \in 0..8
        BY DEF TypeOK
      <3>2. (size' = from_bytes /\ at' = bit_count) \/ (size' = size /\ at' = at)
        BY DEF ReadSize
      <3> QED  BY <1>1, <1>5, <3>1, <3>2
    <2> QED  BY <1>4, <2>1 DEF TypeOK
  <1>7. phase' = "size" => Sized'
    <2> SUFFICES ASSUME phase' = "size" PROVE Sized'
      OBVIOUS
    <2>1. at' = bit_count /\ size' = from_bytes
      BY DEF ReadSize
    <2>2. bit_count > 0
      <3>1. b > 128 /\ b = Ones[bit_count + 1] + ll /\ ll \in Nat
        BY <1>1 DEF Looking, Bits, LeftIn
      <3>2. bit_count = 0 => ll < 128
        BY <1>3 DEF Masks
      <3>3. bit_count = 0 => Ones[bit_count + 1] = 0
        BY DEF Ones
      <3> QED  BY <1>1, <3>1, <3>2, <3>3
    <2>3. Bits' /\ from_bytes' = from_bytes /\ ByteAt(1)' = ByteAt(1)
      BY <1>1, <1>4 DEF Looking, Bits, from_bytes, ByteAt
    <2> QED  BY <1>1, <1>3, <1>4, <2>1, <2>2, <2>3 DEF Sized, Looking
  <1> QED  BY <1>4, <1>6, <1>7 DEF Written, Unread, Read

LEMMA OtherSteps ==
    IInv /\ (WriteTooLong \/ CheckSize \/ ReadBlob \/ UNCHANGED vars) => IInv'
  <1> SUFFICES ASSUME IInv, WriteTooLong \/ CheckSize \/ ReadBlob \/ UNCHANGED vars
               PROVE  IInv'
    OBVIOUS
  <1> USE DEF IInv
  <1>1. UNCHANGED <<atom, f, sent, b, ll, bit_count, bit_mask, size, at>>
    BY DEF WriteTooLong, CheckSize, ReadBlob, readers, vars
  <1>2. /\ Written' = Written /\ Sized' = Sized /\ Looking' = Looking /\ Single' = Single
        /\ Less(size, Limit34)' = Less(size, Limit34) /\ TooLong(atom)' = TooLong(atom)
    BY <1>1 DEF Written, Sized, Looking, Single, Bits, ByteAt, from_bytes
  <1>3. CASE WriteTooLong
    <2>1. phase' = "too long" /\ phase = "write" /\ TooLong(atom)
      BY <1>3 DEF WriteTooLong
    <2>2. TypeOK'
      BY <1>1, <2>1 DEF TypeOK
    <2> QED  BY <1>1, <1>2, <2>1, <2>2 DEF Unread, Read
  <1>4. CASE CheckSize
    <2>1. phase = "size" /\ phase' = (IF Less(size, Limit34) THEN "blob" ELSE "too large")
      BY <1>4 DEF CheckSize
    <2>2. TypeOK'
      BY <1>1, <2>1 DEF TypeOK
    <2> QED  BY <1>1, <1>2, <2>1, <2>2 DEF Unread, Read
  <1>5. CASE ReadBlob
    <2>1. phase = "blob" /\ phase' \in {"done", "bad encoding"}
      BY <1>5 DEF ReadBlob
    <2>2. TypeOK'
      BY <1>1, <2>1 DEF TypeOK
    <2> QED  BY <1>1, <1>2, <2>1, <2>2 DEF Unread, Read
  <1>6. CASE UNCHANGED vars
    <2>1. phase' = phase
      BY <1>6 DEF vars
    <2>2. TypeOK'
      BY <1>1, <2>1 DEF TypeOK
    <2> QED  BY <1>1, <1>2, <2>1, <2>2 DEF Unread, Read
  <1> QED  BY <1>3, <1>4, <1>5, <1>6

LEMMA StepIInv == IInv /\ [Next]_vars => IInv'
  <1> SUFFICES ASSUME IInv, [Next]_vars PROVE IInv'
    OBVIOUS
  <1>1. CASE Write  BY <1>1, WriteStep
  <1>2. CASE Cut  BY <1>2, CutStep
  <1>3. CASE ReadFirst  BY <1>3, ReadFirstStep
  <1>4. CASE CountBit  BY <1>4, CountBitStep
  <1>5. CASE ReadSize  BY <1>5, ReadSizeStep
  <1>6. CASE WriteTooLong \/ CheckSize \/ ReadBlob \/ Finished \/ UNCHANGED vars
    BY <1>6, OtherSteps DEF Finished
  <1> QED  BY <1>1, <1>2, <1>3, <1>4, <1>5, <1>6 DEF Next

\* The invariant holds in every state of every behaviour.
THEOREM Invariance == Spec => []IInv
  BY InitIInv, StepIInv, PTL DEF Spec

-----------------------------------------------------------------------------
(***************************************************************************)
(* What it implies                                                         *)
(***************************************************************************)
\* Type correctness.
THEOREM TypeCorrect == Spec => []TypeOK
  <1>1. IInv => TypeOK
    BY DEF IInv
  <1> QED  BY <1>1, Invariance, PTL

\* The leading ones of the first byte are counted, whatever byte it is.
THEOREM CountsLeadingOnes == Spec => []LeadingOnes
  <1>1. IInv => LeadingOnes
    BY DEF IInv, Read, Looking, Sized, Bits, LeftIn, LeadingOnes
  <1> QED  BY <1>1, Invariance, PTL

\* The digits of a size that was read.
LEMMA DigitsRead ==
    ASSUME Sized, at \in 1..8
    PROVE  /\ size[9 - at] = ll
           /\ \A j \in 1..8 : j < 9 - at => size[j] = 0
           /\ \A j \in 1..8 : j > 9 - at => size[j] = ByteAt(j - (8 - at))
  <1>1. at = bit_count /\ 9 - at \in 1..8
    BY DEF Sized
  <1>2. \A j \in 1..8 : size[j] = IF j < 9 - at THEN 0 ELSE IF j = 9 - at THEN ll
                                  ELSE ByteAt(j - (8 - at))
    BY <1>1 DEF Sized, from_bytes
  <1>3. \A j \in 1..8 : j > 9 - at => ~(j < 9 - at) /\ j # 9 - at
    BY <1>1
  <1> QED  BY <1>1, <1>2, <1>3

\* _consume_atom returns the bytes that it passed over, in every stream.
THEOREM PassesOnWhatItRead == Spec => []ReturnsWhatItRead
  <1>1. IInv => ReturnsWhatItRead
    <2> SUFFICES ASSUME IInv, phase = "done"
                 PROVE  consumed_before = [i \in 1..at |-> ByteAt(i)]
      BY DEF ReturnsWhatItRead
    <2>1. CASE b = 128 /\ at = 1 /\ b = ByteAt(1)
      <3>1. consumed_before = <<b>> \o [i \in 1..(1 - 1) |-> size[9 - 1 + i]]
        BY <2>1 DEF consumed_before
      <3>2. [i \in 1..(1 - 1) |-> size[9 - 1 + i]] = <<>>
        OBVIOUS
      <3> QED  BY <2>1, <3>1, <3>2
    <2>2. CASE at = 0
      BY <2>2 DEF consumed_before
    <2>3. CASE Sized
      <3> DEFINE rest == [i \in 1..(at - 1) |-> size[9 - at + i]]
      <3>1. at \in 1..8 /\ size \in Number /\ b \in Byte
        BY <2>3 DEF IInv, TypeOK, Sized
      <3>2. \A i \in 1..(at - 1) : 9 - at + i \in 1..8
        BY <3>1
      <3>3. rest \in [1..(at - 1) -> Byte]
        BY <3>1, <3>2 DEF Number
      <3>0. \A i \in 1..(at - 1) : rest[i] = size[9 - at + i]
        OBVIOUS
      <3> HIDE DEF rest
      <3>4. rest \in Seq(Byte) /\ Len(rest) = at - 1
        BY <3>1, <3>3, at - 1 \in Nat, FunctionIsSeq
      <3>5. consumed_before = <<b>> \o rest
        BY <3>1 DEF consumed_before, rest
      <3>6. ASSUME NEW i \in 2..at PROVE (<<b>> \o rest)[i] = ByteAt(i)
        <4>1. i - 1 \in 1..(at - 1) /\ 9 - at + (i - 1) \in 1..8
          BY <3>1
        <4>2. (<<b>> \o rest)[i] = size[9 - at + (i - 1)]
          BY <3>0, <3>1, <3>4, <4>1
        <4>3. 9 - at + (i - 1) > 9 - at /\ 9 - at + (i - 1) - (8 - at) = i
          BY <3>1
        <4>4. size[9 - at + (i - 1)] = ByteAt(9 - at + (i - 1) - (8 - at))
          BY <2>3, <3>1, <4>1, <4>3, DigitsRead
        <4> QED  BY <4>2, <4>3, <4>4
      <3>7. (<<b>> \o rest)[1] = ByteAt(1)
        BY <2>3, <3>1, <3>4 DEF Sized
      <3>8. <<b>> \o rest \in Seq(Byte) /\ Len(<<b>> \o rest) = at
        BY <3>1, <3>4
      <3>9. \A i \in 1..at : (<<b>> \o rest)[i] = ByteAt(i)
        <4>1. \A i \in 1..at : i = 1 \/ i \in 2..at
          BY <3>1
        <4> QED  BY <3>6, <3>7, <4>1
      <3>10. <<b>> \o rest = [i \in 1..at |-> ByteAt(i)]
        BY <3>1, <3>8, <3>9
      <3> QED  BY <3>5, <3>10
    <2>4. Single \/ Sized
      BY DEF IInv, Read
    <2> QED  BY <2>1, <2>2, <2>3, <2>4 DEF Single
  <1> QED  BY <1>1, Invariance, PTL

\* What is read is never shorter than what is written for it.
THEOREM NothingIsShorter == Spec => []WritesTheShortest
  <1>1. IInv => WritesTheShortest
    <2> SUFFICES ASSUME IInv, phase = "done"
                 PROVE  ~TooLong(ReadAtom) /\ Len(Before(ReadAtom)) <= at
      BY DEF WritesTheShortest
    <2>1. size \in Number /\ ReadAtom.size = size
      BY DEF IInv, TypeOK, ReadAtom
    <2>2. at \in 0..8
      BY DEF IInv, TypeOK
    <2>3. SizeBytes(size) \in 1..6 /\ (TooLong(ReadAtom) <=> SizeBytes(size) = 6)
      BY <2>1, SizeBytesFacts DEF TooLong
    <2>4. CASE Single
      <3>1. size = Small(0) \/ size = Small(1)
        BY <2>4 DEF Single
      <3>2. Below(size, 5)
        BY <3>1 DEF Below, Limit, Small
      <3>3. SizeBytes(size) <= 5
        BY <2>1, <3>2, SizeBytesFacts
      <3>4. CASE size = Small(0) /\ at = 1
        BY <2>1, <2>3, <3>3, <3>4 DEF Before
      <3>5. CASE size = Small(1) /\ at = 0 /\ b <= 127 /\ b = ByteAt(1)
        <4>1. size # Small(0)
          BY <3>5 DEF Small
        <4>2. IsSingle(ReadAtom)
          BY <3>5, <4>1 DEF IsSingle, ReadAtom, MAX_SINGLE_BYTE
        <4> QED  BY <2>1, <2>3, <3>3, <3>5, <4>1, <4>2 DEF Before
      <3> QED  BY <2>4, <3>4, <3>5 DEF Single
    <2>5. CASE Sized /\ Less(size, Limit34)
      <3>1. at \in 1..8 /\ at = bit_count
        BY <2>2, <2>5 DEF Sized
      <3>2. SizeBytes(size) \in 1..5
        BY <2>1, <2>3, <2>5, BelowFacts
      <3>3. SizeBytes(size) <= at
        <4>1. CASE at > 5
          BY <3>1, <3>2, <4>1
        <4>2. CASE at <= 5
          <5>1. size[9 - at] = ll /\ \A j \in 1..8 : j < 9 - at => size[j] = 0
            BY <2>5, <3>1, DigitsRead
          <5>2. ll < Masks[at + 1]
            BY <2>5, <3>1, <4>2 DEF Sized
          <5>3. Masks[at + 1] = Limit[at]
            <6>1. at = 1 \/ at = 2 \/ at = 3 \/ at = 4 \/ at = 5
              BY <3>1, <4>2
            <6> QED  BY <6>1 DEF Masks, Limit
          <5>4. \A i \in 1..(8 - at) : size[i] = 0
            BY <3>1, <5>1
          <5>5. Below(size, at) /\ at \in 1..5
            BY <3>1, <4>2, <5>1, <5>2, <5>3, <5>4 DEF Below
          <5> QED  BY <2>1, <5>5, SizeBytesFacts
        <4> QED  BY <3>1, <4>1, <4>2
      <3>4. ~TooLong(ReadAtom)
        BY <2>3, <3>2
      <3>5. ReadAtom \in [size : Number, first : Byte]
        <4>1. ByteAt(at + 1) \in Byte
          <5>1. f.head \in Seq(Byte)
            BY DEF IInv, TypeOK
          <5>2. at + 1 <= Len(f.head) => f.head[at + 1] \in Byte
            BY <3>1, <5>1
          <5> QED  BY <5>2 DEF ByteAt, Byte
        <4>2. 0 \in Byte
          BY DEF Byte
        <4> QED  BY <2>1, <4>1, <4>2 DEF ReadAtom
      <3>6. Len(Before(ReadAtom)) = length_before(ReadAtom)
        BY <3>4, <3>5, BeforeFacts
      <3>7. length_before(ReadAtom) <= at
        <4>1. ReadAtom.size = size
          BY DEF ReadAtom
        <4> QED  BY <2>1, <3>1, <3>2, <3>3, <3>5, <4>1, LengthBefore
      <3> QED  BY <3>4, <3>6, <3>7
    <2> QED  BY <2>4, <2>5 DEF IInv, Read
  <1> QED  BY <1>1, Invariance, PTL

\* serialized_length tells the length of what is written, for every atom.
THEOREM LengthIsForetold == Spec => []ForetellsLength
  <1>1. IInv => ForetellsLength
    <2> SUFFICES ASSUME IInv, sent # "no" \/ phase = "too long"
                 PROVE  /\ (phase = "too long") <=> (length_before(atom) = 6)
                        /\ (phase = "too long") <=> ~Less(atom.size, Limit34)
                        /\ phase # "too long" => length_before(atom) = Len(Before(atom))
      BY DEF ForetellsLength
    <2>1. atom \in [size : Number, first : Byte]
      BY DEF IInv, TypeOK, AtomType
    <2>2. phase = "too long" <=> TooLong(atom)
      BY DEF IInv, Written, Unread
    <2>3. TooLong(atom) <=> ~Less(atom.size, Limit34)
      BY <2>1, BelowFacts DEF TooLong
    <2>4. ASSUME ~TooLong(atom)
          PROVE  length_before(atom) = Len(Before(atom)) /\ length_before(atom) # 6
      <3>1. Len(Before(atom)) = length_before(atom) /\ Len(Before(atom)) \in 0..5
        BY <2>1, <2>4, BeforeFacts
      <3>2. Len(Before(atom)) # 6
        BY <3>1, FewBytes
      <3> QED  BY <3>1, <3>2
    <2>5. ASSUME TooLong(atom) PROVE length_before(atom) = 6
      <3>1. ~Less(atom.size, Limit34)
        BY <2>3, <2>5
      <3>2. atom.size # Small(0) /\ atom.size # Small(1)
        BY <3>1, SmallSizes
      <3> QED  BY <2>1, <2>5, <3>2, LengthBefore DEF IsSingle, TooLong
    <2> QED  BY <2>2, <2>3, <2>4, <2>5
  <1> QED  BY <1>1, Invariance, PTL

LEMMA DigitsAreNat ==
    ASSUME NEW n \in Number, NEW i \in 1..8
    PROVE  n[i] \in Nat
  BY SMTT(30) DEF Number, Byte

\* A size prefix that was written is what the readers see.
LEMMA PrefixIsRead ==
    ASSUME IInv, sent # "no", atom.size # Small(0), ~IsSingle(atom)
    PROVE  LET n == atom.size
               k == Len(Before(atom))
           IN  /\ n \in Number /\ k \in 1..5 /\ Below(n, k)
               /\ ByteAt(1) = Prefix[k] + n[9 - k]
               /\ \A i \in 2..k : ByteAt(i) = n[8 - k + i]
               /\ ByteAt(k + 1) = atom.first
  <1> DEFINE n == atom.size
             c == atom.first
             k == SizeBytes(n)
  <1>1. /\ atom \in [size : Number, first : Byte] /\ ~TooLong(atom)
        /\ f.head = Before(atom) \o <<c>>
    BY DEF IInv, TypeOK, AtomType, Written
  <1>2. n \in Number /\ c \in Byte
    BY <1>1
  <1>3. /\ Before(atom) \in Seq(Byte) /\ Len(Before(atom)) = k /\ k \in 1..5
        /\ Before(atom)[1] = Prefix[k] + n[9 - k]
        /\ \A i \in 2..k : Before(atom)[i] = n[8 - k + i]
    BY <1>1, BeforeFacts
  <1>4. Below(n, k)
    BY <1>2, <1>3, SizeBytesFacts
  <1> HIDE DEF n, c, k
  <1>5. /\ Len(f.head) = k + 1 /\ f.head[k + 1] = c
        /\ \A i \in 1..k : f.head[i] = Before(atom)[i]
    <2>1. f.head = Before(atom) \o <<c>>
      BY <1>1
    <2> QED  BY <1>2, <1>3, <2>1
  <1>6. \A i \in 1..k : ByteAt(i) = Before(atom)[i]
    BY <1>3, <1>5 DEF ByteAt
  <1>7. ByteAt(k + 1) = c
    BY <1>3, <1>5 DEF ByteAt
  <1>8. ByteAt(1) = Prefix[k] + n[9 - k] /\ \A i \in 2..k : ByteAt(i) = n[8 - k + i]
    <2>1. 1 \in 1..k /\ \A i \in 2..k : i \in 1..k
      BY <1>3
    <2> QED  BY <1>3, <1>6, <2>1
  <1> QED  BY <1>2, <1>3, <1>4, <1>7, <1>8 DEF n, c, k

\* Its first byte is none that stands for itself, nor that of nil.
LEMMA PrefixIsHigh ==
    ASSUME NEW n \in Number, n # Small(0), NEW k \in 1..5, Below(n, k)
    PROVE  Prefix[k] + n[9 - k] > 128 /\ Prefix[k] + n[9 - k] \in Nat
  <1>1. 9 - k \in 1..8 /\ n[9 - k] \in Nat
    <2>1. 9 - k \in 1..8
      OBVIOUS
    <2> QED  BY <2>1, DigitsAreNat
  <1>2. k = 1 \/ k = 2 \/ k = 3 \/ k = 4 \/ k = 5
    OBVIOUS
  <1>3. k = 1 => n[8] # 0
    <2> SUFFICES ASSUME k = 1, n[8] = 0 PROVE FALSE
      OBVIOUS
    <2>1. \A i \in 1..7 : n[i] = 0
      BY 8 - k = 7 DEF Below
    <2>2. \A i \in 1..8 : n[i] = 0
      <3>1. \A i \in 1..8 : i \in 1..7 \/ i = 8
        OBVIOUS
      <3> QED  BY <2>1, <3>1
    <2>3. n = [i \in 1..8 |-> 0]
      BY <2>2 DEF Number
    <2>4. Small(0) = [i \in 1..8 |-> 0]
      BY DEF Small
    <2> QED  BY <2>3, <2>4
  <1>4. CASE k = 1  BY <1>1, <1>3, <1>4 DEF Prefix
  <1>5. CASE k = 2  BY <1>1, <1>5 DEF Prefix
  <1>6. CASE k = 3  BY <1>1, <1>6 DEF Prefix
  <1>7. CASE k = 4  BY <1>1, <1>7 DEF Prefix
  <1>8. CASE k = 5  BY <1>1, <1>8 DEF Prefix
  <1> QED  BY <1>2, <1>4, <1>5, <1>6, <1>7, <1>8

\* The size that is read is the one that was written with a prefix of k bytes.
LEMMA ReadsTheSize ==
    ASSUME NEW n \in Number, n # Small(0), NEW k \in 1..5, n[9 - k] < Limit[k],
           \A i \in 1..(8 - k) : n[i] = 0,
           ByteAt(1) = Prefix[k] + n[9 - k],
           \A i \in 2..k : ByteAt(i) = n[8 - k + i],
           Single \/ Sized, size \in Number, at \in 0..8, ll \in Nat
    PROVE  at = k /\ size = n
  <1>1. 9 - k \in 1..8 /\ n[9 - k] \in Nat
    <2>1. 9 - k \in 1..8
      OBVIOUS
    <2> QED  BY <2>1, DigitsAreNat
  <1>4. ByteAt(1) > 128 /\ ByteAt(1) \in Nat
    BY PrefixIsHigh DEF Below
  <1>5. Sized
    <2>1. ~Single
      BY <1>4 DEF Single
    <2> QED  BY <2>1
  <1>6. at \in 1..8 /\ at = bit_count
    BY <1>5 DEF Sized
  <1>7. at = k /\ ll = n[9 - k]
    <2>1. Prefix[k] + n[9 - k] = Ones[at + 1] + ll
      BY <1>5, <1>6 DEF Sized, Bits
    <2>2. ll < Masks[at + 1] \/ (at = 8 /\ ll = 0)
      BY <1>5, <1>6 DEF Sized
    <2> DEFINE d == n[9 - k]
    <2>3. d \in Nat /\ d < Limit[k] /\ Prefix[k] + d = Ones[at + 1] + ll
      BY <1>1, <2>1
    <2> HIDE DEF d
    <2>4. at = k /\ ll = d
      BY <1>6, <2>2, <2>3, OnePrefix
    <2> QED  BY <2>4 DEF d
  <1>8. ASSUME NEW j \in 1..8 PROVE size[j] = n[j]
    <2>1. CASE j < 9 - at
      <3>1. j \in 1..(8 - k)
        BY <1>6, <1>7, <2>1
      <3> QED  BY <1>5, <1>6, <2>1, <3>1, DigitsRead
    <2>2. CASE j = 9 - at
      BY <1>5, <1>6, <1>7, <2>2, DigitsRead
    <2>3. CASE j > 9 - at
      <3>1. size[j] = ByteAt(j - (8 - at))
        BY <1>5, <1>6, <2>3, DigitsRead
      <3>2. j - (8 - at) \in 2..k /\ 8 - k + (j - (8 - at)) = j
        BY <1>6, <1>7, <2>3
      <3> QED  BY <3>1, <3>2
    <2> QED  BY <1>6, <2>1, <2>2, <2>3
  <1>9. size = n
    BY <1>8 DEF Number
  <1> QED  BY <1>7, <1>9

\* The size that is read is the one that was written.
LEMMA SizeIsRead ==
    ASSUME IInv, Sized, sent # "no", atom.size # Small(0), ~IsSingle(atom)
    PROVE  size = atom.size /\ at = Len(Before(atom))
  <1> DEFINE n == atom.size
             k == Len(Before(atom))
  <1>1. /\ n \in Number /\ k \in 1..5 /\ Below(n, k)
        /\ ByteAt(1) = Prefix[k] + n[9 - k]
        /\ \A i \in 2..k : ByteAt(i) = n[8 - k + i]
    BY PrefixIsRead
  <1>2. size \in Number /\ at \in 0..8 /\ ll \in Nat
    <2>1. size \in Number /\ at \in 0..8 /\ ll \in Byte
      BY DEF IInv, TypeOK
    <2> QED  BY <2>1 DEF Byte
  <1>3. n[9 - k] < Limit[k] /\ \A i \in 1..(8 - k) : n[i] = 0
    BY <1>1 DEF Below
  <1>4. n # Small(0)
    OBVIOUS
  <1> HIDE DEF n, k
  <1>5. at = k /\ size = n
    BY <1>1, <1>2, <1>3, <1>4, ReadsTheSize
  <1> QED  BY <1>5 DEF n, k

\* What is read of a stream that starts with an atom is that atom.
THEOREM ReadsBack == Spec => []ReadsWhatWasWritten
  <1>1. IInv => ReadsWhatWasWritten
    <2> SUFFICES ASSUME IInv, phase = "done", sent # "no"
                 PROVE  ReadAtom = atom /\ at = Len(Before(atom))
      BY DEF ReadsWhatWasWritten
    <2> DEFINE n == atom.size
               c == atom.first
               k == Len(Before(atom))
    <2>1. /\ atom \in [size : Number, first : Byte] /\ ~TooLong(atom)
          /\ f.head = Before(atom) \o (IF n = Small(0) THEN <<>> ELSE <<c>>)
          /\ Single \/ Sized
          /\ size \in Number /\ b \in Byte /\ at \in 0..8 /\ ll \in Byte
          /\ n = Small(0) => c = 0
      BY DEF IInv, TypeOK, AtomType, Written, Read
    <2>2. n \in Number /\ c \in Byte /\ atom = [size |-> n, first |-> c]
      BY <2>1
    <2>3. c \in 0..255 /\ ll \in Nat
      BY <2>1, <2>2 DEF Byte
    <2>4. CASE n = Small(0)
      <3>0. ~IsSingle(atom)
        BY <2>4 DEF IsSingle, Small
      <3>1. Before(atom) = <<128>> /\ f.head = <<128>> \o <<>>
        BY <2>1, <2>4, <3>0 DEF Before
      <3>2. ByteAt(1) = 128
        BY <3>1 DEF ByteAt
      <3>3. at = 1 /\ size = Small(0)
        BY <2>1, <3>2 DEF Single, Sized
      <3>4. ReadAtom = atom
        BY <2>1, <2>2, <2>4, <3>3 DEF ReadAtom
      <3> QED  BY <3>1, <3>3, <3>4
    <2>5. CASE IsSingle(atom)
      <3>1. n # Small(0)
        BY <2>5 DEF IsSingle, Small
      <3>2. Before(atom) = <<>> /\ f.head = <<>> \o <<c>>
        BY <2>1, <2>5, <3>1 DEF Before
      <3>3. ByteAt(1) = c /\ c <= 127 /\ n = Small(1)
        BY <2>5, <3>2 DEF ByteAt, IsSingle, MAX_SINGLE_BYTE
      <3> HIDE DEF n, c
      <3>4. ByteAt(1) # 128 /\ ~(ByteAt(1) > 128)
        BY <2>3, <3>3
      <3>5. at = 0 /\ size = Small(1)
        BY <2>1, <3>4 DEF Single, Sized
      <3>6. ByteAt(at + 1) = c
        BY <3>3, <3>5
      <3>7. ReadAtom = atom
        BY <2>2, <3>1, <3>3, <3>5, <3>6 DEF ReadAtom
      <3> QED  BY <3>2, <3>5, <3>7
    <2>6. CASE n # Small(0) /\ ~IsSingle(atom)
      <3>1. k \in 1..5 /\ Below(n, k) /\ ByteAt(1) = Prefix[k] + n[9 - k] /\ ByteAt(k + 1) = c
        BY <2>6, PrefixIsRead
      <3>2. ByteAt(1) > 128 /\ ByteAt(1) \in Nat
        BY <2>2, <2>6, <3>1, PrefixIsHigh
      <3>3. ~Single
        BY <3>2 DEF Single
      <3>4. at = k /\ size = n
        BY <2>1, <2>6, <3>3, SizeIsRead
      <3>5. ReadAtom = atom
        BY <2>2, <2>6, <3>1, <3>4 DEF ReadAtom
      <3> QED  BY <3>4, <3>5
    <2> QED  BY <2>4, <2>5, <2>6
  <1> QED  BY <1>1, Invariance, PTL

-----------------------------------------------------------------------------
(***************************************************************************)
(* Lengths of streams, in order                                            *)
(***************************************************************************)
\* A number of five digits, ...
Num(x4, x5, x6, x7, x8) == x8 + 256 * x7 + 65536 * x6 + 16777216 * x5 + 4294967296 * x4

\* ... the order of such numbers, ...
Ordered(x4, x5, x6, x7, x8, y4, y5, y6, y7, y8) ==
    Num(x4, x5, x6, x7, x8) < Num(y4, y5, y6, y7, y8) <=>
      \/ x4 < y4
      \/ x4 = y4 /\ x5 < y5
      \/ x4 = y4 /\ x5 = y5 /\ x6 < y6
      \/ x4 = y4 /\ x5 = y5 /\ x6 = y6 /\ x7 < y7
      \/ x4 = y4 /\ x5 = y5 /\ x6 = y6 /\ x7 = y7 /\ x8 < y8

\* ... and the sum of one and j: the carry goes on through digits that are 255.
Carried(x4, x5, x6, x7, x8, y4, y5, y6, y7, y8, j) ==
    /\ x8 + j <= 255 => y8 = x8 + j /\ y7 = x7 /\ y6 = x6 /\ y5 = x5 /\ y4 = x4
    /\ x8 + j > 255 =>
         /\ y8 = x8 + j - 256
         /\ x7 # 255 => y7 = x7 + 1 /\ y6 = x6 /\ y5 = x5 /\ y4 = x4
         /\ x7 = 255 =>
              /\ y7 = 0
              /\ x6 # 255 => y6 = x6 + 1 /\ y5 = x5 /\ y4 = x4
              /\ x6 = 255 =>
                   /\ y6 = 0
                   /\ x5 # 255 => y5 = x5 + 1 /\ y4 = x4
                   /\ x5 = 255 => y5 = 0 /\ y4 = x4 + 1

Adds(x4, x5, x6, x7, x8, y4, y5, y6, y7, y8, j) ==
    Carried(x4, x5, x6, x7, x8, y4, y5, y6, y7, y8, j) =>
        Num(y4, y5, y6, y7, y8) = Num(x4, x5, x6, x7, x8) + j

LEMMA NumType ==
    ASSUME NEW x4 \in Byte, NEW x5 \in Byte, NEW x6 \in Byte, NEW x7 \in Byte, NEW x8 \in Byte
    PROVE  /\ Num(x4, x5, x6, x7, x8) \in Nat
           /\ Num(x4, x5, x6, x7, x8) = 0 => x4 = 0 /\ x5 = 0 /\ x6 = 0 /\ x7 = 0 /\ x8 = 0
           /\ Num(0, 0, 0, 0, x8) = x8
  BY DEF Num, Byte

LEMMA NumIsNat ==
    ASSUME NEW x4 \in Byte, NEW x5 \in Byte, NEW x6 \in Byte, NEW x7 \in Byte, NEW x8 \in Byte
    PROVE  Num(x4, x5, x6, x7, x8) \in Nat
  BY NumType

LEMMA NumOrder ==
    ASSUME NEW x4 \in Byte, NEW x5 \in Byte, NEW x6 \in Byte, NEW x7 \in Byte, NEW x8 \in Byte,
           NEW y4 \in Byte, NEW y5 \in Byte, NEW y6 \in Byte, NEW y7 \in Byte, NEW y8 \in Byte
    PROVE  Ordered(x4, x5, x6, x7, x8, y4, y5, y6, y7, y8)
  BY DEF Num, Ordered, Byte

LEMMA NumPlus ==
    ASSUME NEW x4 \in Byte, NEW x5 \in Byte, NEW x6 \in Byte, NEW x7 \in Byte, NEW x8 \in Byte,
           NEW y4 \in Byte, NEW y5 \in Byte, NEW y6 \in Byte, NEW y7 \in Byte, NEW y8 \in Byte,
           NEW j \in Byte
    PROVE  Adds(x4, x5, x6, x7, x8, y4, y5, y6, y7, y8, j)
  BY DEF Num, Carried, Adds, Byte

LEMMA ByteSum ==
    ASSUME NEW x \in Byte, NEW y \in Byte
    PROVE  /\ x + y <= 255 \/ x + y > 255
           /\ x + y <= 255 => (x + y) % 256 = x + y
           /\ x + y > 255 => (x + y) % 256 = x + y - 256
  BY DEF Byte

\* A number whose highest three digits are 0, and what it counts.
Low(n)   == n[1] = 0 /\ n[2] = 0 /\ n[3] = 0
Count(n) == Num(n[4], n[5], n[6], n[7], n[8])

LEMMA LastDigits ==
    ASSUME NEW n \in Number
    PROVE  n[4] \in Byte /\ n[5] \in Byte /\ n[6] \in Byte /\ n[7] \in Byte /\ n[8] \in Byte
  BY DEF Number

LEMMA CountType == ASSUME NEW n \in Number PROVE Count(n) \in Nat
  <1>1. n[4] \in Byte /\ n[5] \in Byte /\ n[6] \in Byte /\ n[7] \in Byte /\ n[8] \in Byte
    BY LastDigits
  <1>2. Num(n[4], n[5], n[6], n[7], n[8]) \in Nat
    BY ONLY <1>1, NumIsNat, Zenon
  <1> QED  BY <1>2 DEF Count

\* Digits are compared as numbers are.
LEMMA LessIsByCount ==
    ASSUME NEW m \in Number, NEW n \in Number, Low(m), Low(n)
    PROVE  /\ Count(m) \in Nat /\ Count(n) \in Nat
           /\ Less(m, n) <=> Count(m) < Count(n)
  <1> DEFINE Lex ==
        \/ m[4] < n[4]
        \/ m[4] = n[4] /\ m[5] < n[5]
        \/ m[4] = n[4] /\ m[5] = n[5] /\ m[6] < n[6]
        \/ m[4] = n[4] /\ m[5] = n[5] /\ m[6] = n[6] /\ m[7] < n[7]
        \/ m[4] = n[4] /\ m[5] = n[5] /\ m[6] = n[6] /\ m[7] = n[7] /\ m[8] < n[8]
  <1>1. Less(m, n) <=> Lex
    <2>1. ASSUME NEW i \in 1..8, m[i] < n[i], \A j \in 1..(i - 1) : m[j] = n[j]
          PROVE  Lex
      <3>1. i = 4 \/ i = 5 \/ i = 6 \/ i = 7 \/ i = 8
        BY <2>1 DEF Low
      <3> QED  BY <2>1, <3>1
    <2>2. m[1] = n[1] /\ m[2] = n[2] /\ m[3] = n[3]
      BY DEF Low
    <2>3. m[4] < n[4] => Less(m, n)
      <3>1. \A j \in 1..(4 - 1) : j = 1 \/ j = 2 \/ j = 3  OBVIOUS
      <3> QED  BY <2>2, <3>1 DEF Less
    <2>4. m[4] = n[4] /\ m[5] < n[5] => Less(m, n)
      <3>1. \A j \in 1..(5 - 1) : j = 1 \/ j = 2 \/ j = 3 \/ j = 4  OBVIOUS
      <3> QED  BY <2>2, <3>1 DEF Less
    <2>5. m[4] = n[4] /\ m[5] = n[5] /\ m[6] < n[6] => Less(m, n)
      <3>1. \A j \in 1..(6 - 1) : j = 1 \/ j = 2 \/ j = 3 \/ j = 4 \/ j = 5  OBVIOUS
      <3> QED  BY <2>2, <3>1 DEF Less
    <2>6. m[4] = n[4] /\ m[5] = n[5] /\ m[6] = n[6] /\ m[7] < n[7] => Less(m, n)
      <3>1. \A j \in 1..(7 - 1) : j = 1 \/ j = 2 \/ j = 3 \/ j = 4 \/ j = 5 \/ j = 6  OBVIOUS
      <3> QED  BY <2>2, <3>1 DEF Less
    <2>7. m[4] = n[4] /\ m[5] = n[5] /\ m[6] = n[6] /\ m[7] = n[7] /\ m[8] < n[8] => Less(m, n)
      <3>1. \A j \in 1..(8 - 1) : j = 1 \/ j = 2 \/ j = 3 \/ j = 4 \/ j = 5 \/ j = 6 \/ j = 7  OBVIOUS
      <3> QED  BY <2>2, <3>1 DEF Less
    <2> QED  BY <2>1, <2>3, <2>4, <2>5, <2>6, <2>7 DEF Less
  <1>2. Count(m) \in Nat /\ Count(n) \in Nat
    BY CountType
  <1>3. Ordered(m[4], m[5], m[6], m[7], m[8], n[4], n[5], n[6], n[7], n[8])
    BY LastDigits, NumOrder
  <1>4. Count(m) < Count(n) <=> Lex
    BY <1>3 DEF Ordered, Count
  <1> QED  BY <1>1, <1>2, <1>4

\* Plus adds, the carry included.
LEMMA PlusCounts ==
    ASSUME NEW m \in Number, Below(m, 5), NEW j \in Byte
    PROVE  /\ Low(m) /\ Count(m) \in Nat
           /\ Plus(m, j) \in Number /\ Low(Plus(m, j)) /\ Count(Plus(m, j)) = Count(m) + j
  <1>0. j \in 0..255
    BY DEF Byte
  <1>1. /\ m[4] \in 0..255 /\ m[5] \in 0..255 /\ m[6] \in 0..255 /\ m[7] \in 0..255 /\ m[8] \in 0..255
    BY DEF Number, Byte
  <1>2. m[1] = 0 /\ m[2] = 0 /\ m[3] = 0 /\ m[4] < 4
    BY DEF Below, Limit
  <1> DEFINE p == Plus(m, j)
  <1>3. p \in Number
    BY SmallAndPlus
  <1>4. ASSUME NEW i \in 1..7
        PROVE  p[i] = IF m[8] + j > 255 /\ \A l \in (i + 1)..7 : m[l] = 255
                      THEN (m[i] + 1) % 256 ELSE m[i]
    BY DEF Plus
  <1>5. p[8] = (m[8] + j) % 256
    BY DEF Plus
  <1>6. p[7] = IF m[8] + j > 255 THEN (m[7] + 1) % 256 ELSE m[7]
    BY <1>4
  <1>7. p[6] = IF m[8] + j > 255 /\ m[7] = 255 THEN (m[6] + 1) % 256 ELSE m[6]
    <2>1. \A l \in (6 + 1)..7 : l = 7  OBVIOUS
    <2>2. (\A l \in (6 + 1)..7 : m[l] = 255) <=> m[7] = 255
      BY <2>1
    <2> QED  BY <1>4, <2>2
  <1>8. p[5] = IF m[8] + j > 255 /\ m[7] = 255 /\ m[6] = 255 THEN (m[5] + 1) % 256 ELSE m[5]
    <2>1. \A l \in (5 + 1)..7 : l = 6 \/ l = 7  OBVIOUS
    <2>2. (\A l \in (5 + 1)..7 : m[l] = 255) <=> m[7] = 255 /\ m[6] = 255
      BY <2>1
    <2> QED  BY <1>4, <2>2
  <1>9. p[4] = IF m[8] + j > 255 /\ m[7] = 255 /\ m[6] = 255 /\ m[5] = 255
               THEN (m[4] + 1) % 256 ELSE m[4]
    <2>1. \A l \in (4 + 1)..7 : l = 5 \/ l = 6 \/ l = 7  OBVIOUS
    <2>2. (\A l \in (4 + 1)..7 : m[l] = 255) <=> m[7] = 255 /\ m[6] = 255 /\ m[5] = 255
      BY <2>1
    <2> QED  BY <1>4, <2>2
  <1>10. ASSUME NEW i \in 1..3 PROVE p[i] = 0
    <2>1. 4 \in (i + 1)..7 /\ m[4] # 255 /\ i \in 1..7
      BY <1>2, <1>1
    <2>2. p[i] = m[i]
      BY <1>4, <2>1
    <2> QED  BY <1>2, <2>2
  <1>11. Low(p)
    BY <1>10 DEF Low
  <1> HIDE DEF p
  <1>12. ASSUME NEW x \in 0..254 PROVE (x + 1) % 256 = x + 1
    OBVIOUS
  <1>13. /\ m[8] + j <= 255 => p[8] = m[8] + j
         /\ m[8] + j > 255 => p[8] = m[8] + j - 256
    <2>1. m[8] \in Byte
      BY LastDigits
    <2> QED  BY <1>5, <2>1, ByteSum
  <1>14. m[8] + j > 255 => p[7] = IF m[7] = 255 THEN 0 ELSE m[7] + 1
    BY <1>1, <1>6
  <1>15. m[8] + j > 255 /\ m[7] = 255 => p[6] = IF m[6] = 255 THEN 0 ELSE m[6] + 1
    BY <1>1, <1>7
  <1>16. m[8] + j > 255 /\ m[7] = 255 /\ m[6] = 255 => p[5] = IF m[5] = 255 THEN 0 ELSE m[5] + 1
    BY <1>1, <1>8
  <1>17. m[8] + j > 255 /\ m[7] = 255 /\ m[6] = 255 /\ m[5] = 255 => p[4] = m[4] + 1
    BY <1>1, <1>2, <1>9
  <1>18. Carried(m[4], m[5], m[6], m[7], m[8], p[4], p[5], p[6], p[7], p[8], j)
    <2>1. m[8] + j <= 255 => ~(m[8] + j > 255)
      BY <1>0, <1>1
    <2>2. m[8] + j <= 255 => p[8] = m[8] + j /\ p[7] = m[7] /\ p[6] = m[6] /\ p[5] = m[5] /\ p[4] = m[4]
      BY <2>1, <1>6, <1>7, <1>8, <1>9, <1>13
    <2>3. m[8] + j > 255 /\ m[7] # 255 => p[7] = m[7] + 1 /\ p[6] = m[6] /\ p[5] = m[5] /\ p[4] = m[4]
      BY <1>7, <1>8, <1>9, <1>14
    <2>4. m[8] + j > 255 /\ m[7] = 255 /\ m[6] # 255 => p[6] = m[6] + 1 /\ p[5] = m[5] /\ p[4] = m[4]
      BY <1>8, <1>9, <1>15
    <2>5. m[8] + j > 255 /\ m[7] = 255 /\ m[6] = 255 /\ m[5] # 255 => p[5] = m[5] + 1 /\ p[4] = m[4]
      BY <1>9, <1>16
    <2> QED  BY <1>13, <1>14, <1>15, <1>16, <1>17, <2>2, <2>3, <2>4, <2>5 DEF Carried
  <1>19. Count(p) = Count(m) + j
    <2>1. /\ m[4] \in Byte /\ m[5] \in Byte /\ m[6] \in Byte /\ m[7] \in Byte /\ m[8] \in Byte
          /\ p[4] \in Byte /\ p[5] \in Byte /\ p[6] \in Byte /\ p[7] \in Byte /\ p[8] \in Byte
      BY <1>3, LastDigits
    <2>2. Adds(m[4], m[5], m[6], m[7], m[8], p[4], p[5], p[6], p[7], p[8], j)
      BY <2>1, NumPlus
    <2> QED  BY <1>18, <2>2 DEF Adds, Count
  <1>20. Low(m) /\ Count(m) \in Nat
    <2>1. Low(m)
      BY <1>2 DEF Low
    <2>2. Count(m) \in Nat
      BY CountType
    <2> QED  BY <2>1, <2>2
  <1> QED  BY <1>3, <1>11, <1>19, <1>20 DEF p

LEMMA SmallCounts ==
    ASSUME NEW j \in Byte
    PROVE  Small(j) \in Number /\ Low(Small(j)) /\ Count(Small(j)) = j
  <1>1. Small(j) \in Number
    BY SmallAndPlus
  <1>2. Small(j)[8] = j /\ Small(j)[7] = 0 /\ Small(j)[6] = 0 /\ Small(j)[5] = 0
        /\ Small(j)[4] = 0 /\ Small(j)[3] = 0 /\ Small(j)[2] = 0 /\ Small(j)[1] = 0
    BY DEF Small
  <1>3. j \in Byte /\ 0 \in Byte
    BY DEF Byte
  <1>4. Num(0, 0, 0, 0, j) = j
    BY <1>3, NumType
  <1> QED  BY <1>1, <1>2, <1>4 DEF Low, Count

\* What is not nil counts at least 1.
LEMMA NotNilCounts ==
    ASSUME NEW n \in Number, Below(n, 5), n # Small(0)
    PROVE  Count(n) \in Nat /\ Count(n) > 0
  <1>2. Low(n)
    BY DEF Below, Low
  <1>3. ~(n[4] = 0 /\ n[5] = 0 /\ n[6] = 0 /\ n[7] = 0 /\ n[8] = 0)
    <2> SUFFICES ASSUME n[4] = 0, n[5] = 0, n[6] = 0, n[7] = 0, n[8] = 0 PROVE FALSE
      OBVIOUS
    <2>1. \A i \in 1..8 : i = 1 \/ i = 2 \/ i = 3 \/ i = 4 \/ i = 5 \/ i = 6 \/ i = 7 \/ i = 8
      OBVIOUS
    <2>2. \A i \in 1..8 : n[i] = 0
      BY <1>2, <2>1 DEF Low
    <2>3. n = [i \in 1..8 |-> 0]
      BY <2>2 DEF Number
    <2>4. Small(0) = [i \in 1..8 |-> 0]
      BY DEF Small
    <2> QED  BY <2>3, <2>4
  <1>4. Count(n) \in Nat /\ Count(n) # 0
    BY <1>3, LastDigits, NumType DEF Count
  <1> QED  BY <1>4

\* How lengths compare that are a few bytes away from a size, or from 0.
LEMMA LengthsCompare ==
    ASSUME NEW n \in Number, Below(n, 5), NEW i \in Byte, NEW j \in Byte
    PROVE  /\ Less(Plus(n, i), Plus(n, j)) <=> i < j
           /\ Less(Small(i), Small(j)) <=> i < j
           /\ n # Small(0) /\ j <= i + 1 => ~Less(Plus(n, i), Small(j))
  <1>1. /\ Plus(n, i) \in Number /\ Low(Plus(n, i)) /\ Count(Plus(n, i)) = Count(n) + i
        /\ Plus(n, j) \in Number /\ Low(Plus(n, j)) /\ Count(Plus(n, j)) = Count(n) + j
        /\ Count(n) \in Nat
    BY PlusCounts
  <1>2. /\ Small(i) \in Number /\ Low(Small(i)) /\ Count(Small(i)) = i
        /\ Small(j) \in Number /\ Low(Small(j)) /\ Count(Small(j)) = j
    BY SmallCounts
  <1>3. i \in Nat /\ j \in Nat
    BY DEF Byte
  <1>4. Less(Plus(n, i), Plus(n, j)) <=> Count(n) + i < Count(n) + j
    BY <1>1, LessIsByCount
  <1>5. Less(Small(i), Small(j)) <=> i < j
    BY <1>2, LessIsByCount
  <1>6. Less(Plus(n, i), Small(j)) <=> Count(n) + i < j
    BY <1>1, <1>2, LessIsByCount
  <1>7. n # Small(0) => Count(n) > 0
    BY NotNilCounts
  <1> QED  BY <1>1, <1>3, <1>4, <1>5, <1>6, <1>7

-----------------------------------------------------------------------------
(***************************************************************************)
(* What becomes of an atom that is cut                                     *)
(***************************************************************************)
\* How long the stream is, and that the readers come to the end they should.
Fate ==
    sent # "no" =>
        /\ sent = "all" => \E m \in 0..250 : f.length = Plus(atom.size, Len(Before(atom)) + m)
        /\ sent = "cut" =>
             /\ atom.size # Small(0) /\ ~IsSingle(atom)
             /\ \/ f.length = Plus(atom.size, Len(Before(atom)) - 1)
                \/ /\ \E j \in 1..(Len(Before(atom)) - 1) : f.length = Small(j)
                   /\ phase \in {"first", "bits", "bad encoding"}
        /\ phase \in {"bits", "size", "blob"} => atom.size # Small(0) /\ ~IsSingle(atom)
        /\ phase # "too large"
        /\ phase = "bad encoding" => sent = "cut"
        /\ phase = "done" => sent = "all"

\* The bits of the first byte count the bytes of the prefix.
LEMMA BitsCountPrefix ==
    ASSUME IInv, phase = "bits", ~BitIsSet,
           sent # "no", atom.size # Small(0), ~IsSingle(atom)
    PROVE  bit_count = Len(Before(atom))
  <1> DEFINE n == atom.size
             k == Len(Before(atom))
             d == n[9 - k]
  <1>1. /\ n \in Number /\ k \in 1..5 /\ Below(n, k) /\ ByteAt(1) = Prefix[k] + d
    BY PrefixIsRead
  <1>2. Looking /\ bit_count \in 0..8 /\ ll \in Nat /\ LeftIn(ll, bit_count)
    BY DEF IInv, TypeOK, Read, Looking, Bits, LeftIn
  <1>3. ~BitSet(ll, bit_count)
    BY <1>2 DEF BitIsSet, BitSet, Looking
  <1>4. ll < Masks[bit_count + 1] \/ (bit_count = 8 /\ ll = 0)
    BY <1>2, <1>3, BitIsComparison
  <1>5. d \in Nat /\ d < Limit[k]
    <2>1. 9 - k \in 1..8
      <3>1. \A i \in 1..5 : 9 - i \in 1..8
        OBVIOUS
      <3> QED  BY <1>1, <3>1
    <2>2. d \in Nat
      BY <1>1, <2>1, DigitsAreNat
    <2> QED  BY <1>1, <2>2 DEF Below
  <1>6. Prefix[k] + d = Ones[bit_count + 1] + ll
    BY <1>1, <1>2 DEF Looking, Bits
  <1>7. bit_count # 0
    <2>1. b > 128 /\ b = Ones[bit_count + 1] + ll
      BY <1>2 DEF Looking, Bits
    <2>2. bit_count = 0 => ll < 128
      BY <1>4 DEF Masks
    <2>3. bit_count = 0 => Ones[bit_count + 1] = 0
      BY DEF Ones
    <2> QED  BY <1>2, <2>1, <2>2, <2>3
  <1> HIDE DEF n, k, d
  <1>8. bit_count \in 1..8
    BY <1>2, <1>7
  <1>9. bit_count = k
    BY <1>1, <1>2, <1>4, <1>5, <1>6, <1>8, OnePrefix
  <1> QED  BY <1>9 DEF k

\* Nil and single bytes are read by their first byte.
LEMMA OneByteIsRead ==
    ASSUME IInv, sent # "no", atom.size = Small(0) \/ IsSingle(atom)
    PROVE  ByteAt(1) \in Byte /\ (ByteAt(1) = 128 \/ ByteAt(1) <= MAX_SINGLE_BYTE)
  <1>1. /\ atom \in [size : Number, first : Byte]
        /\ f.head = Before(atom) \o (IF atom.size = Small(0) THEN <<>> ELSE <<atom.first>>)
    BY DEF IInv, TypeOK, AtomType, Written
  <1>2. CASE atom.size = Small(0)
    <2>1. ~IsSingle(atom)
      BY <1>2 DEF IsSingle, Small
    <2>2. f.head = <<128>> \o <<>>
      BY <1>1, <1>2, <2>1 DEF Before
    <2>3. ByteAt(1) = 128
      BY <2>2 DEF ByteAt
    <2> QED  BY <2>3 DEF Byte
  <1>3. CASE IsSingle(atom)
    <2>1. atom.size # Small(0)
      BY <1>3 DEF IsSingle, Small
    <2>2. f.head = <<>> \o <<atom.first>>
      BY <1>1, <1>3, <2>1 DEF Before
    <2>3. ByteAt(1) = atom.first
      BY <2>2 DEF ByteAt
    <2> QED  BY <1>1, <1>3, <2>3 DEF IsSingle
  <1> QED  BY <1>2, <1>3

-----------------------------------------------------------------------------
LEMMA FateWrite == IInv /\ Fate /\ Write => Fate'
  <1> SUFFICES ASSUME Write PROVE Fate'
    OBVIOUS
  <1>1. PICK m \in Beyond :
          f' = Stream(Before(atom) \o (IF atom.size = Small(0) THEN <<>> ELSE <<atom.first>>),
                      Plus(atom.size, Len(Before(atom)) + m))
    BY DEF Write
  <1>2. f'.length = Plus(atom.size, Len(Before(atom)) + m) /\ m \in 0..250
    BY <1>1, BeyondAssumption DEF Stream
  <1>3. atom' = atom /\ sent' = "all" /\ phase' = "first"
    BY DEF Write
  <1>4. \E l \in 0..250 : f'.length = Plus(atom'.size, Len(Before(atom')) + l)
    BY <1>2, <1>3
  <1> QED  BY <1>3, <1>4 DEF Fate

LEMMA FateCut == IInv /\ Fate /\ Cut => Fate'
  <1> SUFFICES ASSUME IInv, Cut PROVE Fate'
    OBVIOUS
  <1> DEFINE h == Len(Before(atom))
  <1>1. PICK length \in {Small(k) : k \in 1..(h - 1)}
                        \cup (IF Before(atom) = <<>> \/ atom.size = Small(0) THEN {}
                              ELSE {Plus(atom.size, h - 1)}) :
          f' = [f EXCEPT !.length = length]
    BY DEF Cut
  <1>2. atom' = atom /\ sent' = "cut" /\ phase' = "first"
    BY DEF Cut
  <1>3. f'.length = length
    BY <1>1 DEF IInv, TypeOK
  <1>4. ASSUME atom.size = Small(0) PROVE length \notin {Small(k) : k \in 1..(h - 1)}
    <2>1. ~IsSingle(atom)
      BY <1>4 DEF IsSingle, Small
    <2>2. h = 1
      BY <1>4, <2>1 DEF Before
    <2> QED  BY <2>2
  <1>5. ASSUME IsSingle(atom) PROVE Before(atom) = <<>> /\ h = 0
    <2>1. atom.size # Small(0)
      BY <1>5 DEF IsSingle, Small
    <2> QED  BY <1>5, <2>1 DEF Before
  <1>6. 1..(0 - 1) = {}
    OBVIOUS
  <1>7. atom.size # Small(0) /\ ~IsSingle(atom)
    BY <1>1, <1>4, <1>5, <1>6
  <1>8. length = Plus(atom.size, h - 1) \/ \E k \in 1..(h - 1) : length = Small(k)
    BY <1>1
  <1>9. Len(Before(atom')) = h /\ IsSingle(atom') = IsSingle(atom)
    BY <1>2
  <1> HIDE DEF h
  <1> QED  BY <1>2, <1>3, <1>7, <1>8, <1>9 DEF Fate

LEMMA FateReadFirst == IInv /\ Fate /\ ReadFirst => Fate'
  <1> SUFFICES ASSUME IInv, Fate, ReadFirst, sent # "no" PROVE Fate'
    BY DEF Fate, ReadFirst
  <1>1. UNCHANGED <<atom, f, sent>> /\ phase = "first" /\ b' = ByteAt(1)
        /\ phase' \in {"bits", "done"}
    BY DEF ReadFirst
  <1>2. ASSUME sent = "cut" PROVE phase' = "bits"
    <2>1. atom.size # Small(0) /\ ~IsSingle(atom)
      BY <1>2 DEF Fate
    <2>2. ByteAt(1) > 128 /\ ByteAt(1) \in Nat
      <3> DEFINE n == atom.size
                 k == Len(Before(atom))
      <3>1. n \in Number /\ k \in 1..5 /\ Below(n, k) /\ ByteAt(1) = Prefix[k] + n[9 - k]
        BY <2>1, PrefixIsRead
      <3>2. n # Small(0)
        BY <2>1
      <3> HIDE DEF n, k
      <3> QED  BY <3>1, <3>2, PrefixIsHigh
    <2>3. b' # 128 /\ ~(b' <= MAX_SINGLE_BYTE)
      BY <1>1, <2>2 DEF MAX_SINGLE_BYTE
    <2> QED  BY <2>3 DEF ReadFirst
  <1>3. sent \in {"all", "cut"}
    BY DEF IInv, TypeOK
  <1>4. Before(atom') = Before(atom) /\ IsSingle(atom') = IsSingle(atom)
    BY <1>1
  <1>5. ASSUME atom.size = Small(0) \/ IsSingle(atom) PROVE phase' = "done"
    BY <1>1, <1>5, OneByteIsRead DEF ReadFirst
  <1> QED  BY <1>1, <1>2, <1>3, <1>4, <1>5 DEF Fate

LEMMA FateCountBit == IInv /\ Fate /\ (CountBit \/ UNCHANGED vars) => Fate'
  BY DEF CountBit, vars, Fate

LEMMA FateWriteTooLong == IInv /\ Fate /\ WriteTooLong => Fate'
  BY DEF WriteTooLong, readers, Fate, IInv, Unread

LEMMA NearPrefix ==
    ASSUME NEW h \in 1..5
    PROVE  /\ \A m \in 0..250 : h + m \in Byte /\ h <= h + m + 1 /\ ~(h + m < h)
           /\ \A j \in 1..(h - 1) : j \in Byte /\ h \in Byte /\ j < h
  <1>1. h \in Byte
    BY DEF Byte
  <1>2. ASSUME NEW m \in 0..250 PROVE h + m \in Byte /\ h <= h + m + 1 /\ ~(h + m < h)
    BY DEF Byte
  <1>3. ASSUME NEW j \in 1..(h - 1) PROVE j \in Byte /\ j < h
    BY DEF Byte
  <1> QED  BY <1>1, <1>2, <1>3

\* A prefix that was written in full is read in full; one that was cut is not.
LEMMA FateReadSize == IInv /\ Fate /\ ReadSize => Fate'
  <1> SUFFICES ASSUME IInv, Fate, ReadSize, sent # "no" PROVE Fate'
    BY DEF Fate, ReadSize
  <1> DEFINE n == atom.size
             k == Len(Before(atom))
  <1>1. UNCHANGED <<atom, f, sent>> /\ phase = "bits" /\ ~BitIsSet
        /\ phase' = IF HasBytes(Small(bit_count)) THEN "size" ELSE "bad encoding"
    BY DEF ReadSize
  <1>2. n # Small(0) /\ ~IsSingle(atom)
    BY <1>1 DEF Fate
  <1>3. bit_count = k
    BY <1>1, <1>2, BitsCountPrefix
  <1>4. n \in Number /\ k \in 1..5 /\ Below(n, 5)
    <2>1. n \in Number /\ k \in 1..5 /\ Below(n, k)
      BY <1>2, PrefixIsRead
    <2> QED  BY <2>1, BelowFacts
  <1>5. phase' = "bad encoding" <=> Less(f.length, Small(k))
    BY <1>1, <1>3 DEF HasBytes
  <1>6. Before(atom') = Before(atom) /\ IsSingle(atom') = IsSingle(atom)
    BY <1>1
  <1>7. ASSUME NEW i \in Byte, f.length = Plus(n, i), k <= i + 1 PROVE phase' = "size"
    <2>1. k \in Byte
      BY <1>4 DEF Byte
    <2>2. n # Small(0)
      BY <1>2
    <2> HIDE DEF n, k
    <2>3. ~Less(Plus(n, i), Small(k))
      BY <1>4, <1>7, <2>1, <2>2, LengthsCompare
    <2> QED  BY <1>1, <1>5, <1>7, <2>3
  <1>8. CASE sent = "all"
    <2>1. PICK m \in 0..250 : f.length = Plus(n, k + m)
      BY <1>8 DEF Fate
    <2>2. k + m \in Byte /\ k <= k + m + 1
      BY <1>4, NearPrefix
    <2>3. phase' = "size"
      BY <1>7, <2>1, <2>2
    <2> QED  BY <1>1, <1>2, <1>6, <1>8, <2>3 DEF Fate
  <1>9. CASE sent = "cut" /\ f.length = Plus(n, k - 1)
    <2>1. k - 1 \in Byte /\ k <= k - 1 + 1
      BY <1>4 DEF Byte
    <2>2. phase' = "size"
      BY <1>7, <1>9, <2>1
    <2> QED  BY <1>1, <1>2, <1>6, <1>9, <2>2 DEF Fate
  <1>10. CASE sent = "cut" /\ f.length # Plus(n, k - 1)
    <2>1. PICK j \in 1..(k - 1) : f.length = Small(j)
      BY <1>10 DEF Fate
    <2>2. j \in Byte /\ k \in Byte /\ j < k
      BY <1>4, NearPrefix
    <2>3. Less(Small(j), Small(k))
      <3> HIDE DEF n, k
      <3> QED  BY <1>4, <2>2, LengthsCompare
    <2>4. phase' = "bad encoding"
      BY <1>5, <2>1, <2>3
    <2> QED  BY <1>1, <1>2, <1>6, <1>10, <2>1, <2>4 DEF Fate
  <1>11. sent \in {"all", "cut"}
    BY DEF IInv, TypeOK
  <1> QED  BY <1>8, <1>9, <1>10, <1>11

\* No size that was written is refused for being too large.
LEMMA FateCheckSize == IInv /\ Fate /\ CheckSize => Fate'
  <1> SUFFICES ASSUME IInv, Fate, CheckSize, sent # "no" PROVE Fate'
    BY DEF Fate, CheckSize
  <1>1. UNCHANGED <<atom, f, sent>> /\ phase = "size"
        /\ phase' = IF Less(size, Limit34) THEN "blob" ELSE "too large"
    BY DEF CheckSize
  <1>2. atom.size # Small(0) /\ ~IsSingle(atom)
    BY <1>1 DEF Fate
  <1>3. Sized
    BY <1>1 DEF IInv, Read
  <1>4. size = atom.size
    BY <1>2, <1>3, SizeIsRead
  <1>5. Less(atom.size, Limit34)
    <2>1. atom.size \in Number /\ ~TooLong(atom)
      BY DEF IInv, TypeOK, AtomType, Written
    <2> QED  BY <2>1, BelowFacts DEF TooLong
  <1>6. phase' = "blob"
    BY <1>1, <1>4, <1>5
  <1>7. Before(atom') = Before(atom) /\ IsSingle(atom') = IsSingle(atom)
    BY <1>1
  <1> QED  BY <1>1, <1>2, <1>6, <1>7 DEF Fate

\* One byte less than the whole atom is refused.
LEMMA FateReadBlob == IInv /\ Fate /\ ReadBlob => Fate'
  <1> SUFFICES ASSUME IInv, Fate, ReadBlob, sent # "no" PROVE Fate'
    BY DEF Fate, ReadBlob
  <1> DEFINE n == atom.size
             k == Len(Before(atom))
  <1>1. UNCHANGED <<atom, f, sent>> /\ phase = "blob"
        /\ phase' = IF HasBytes(Plus(size, at)) THEN "done" ELSE "bad encoding"
    BY DEF ReadBlob
  <1>2. n # Small(0) /\ ~IsSingle(atom)
    BY <1>1 DEF Fate
  <1>3. n \in Number /\ k \in 1..5 /\ Below(n, 5)
    <2>1. n \in Number /\ k \in 1..5 /\ Below(n, k)
      BY <1>2, PrefixIsRead
    <2> QED  BY <2>1, BelowFacts
  <1>4. Sized
    BY <1>1 DEF IInv, Read
  <1>5. size = n /\ at = k
    BY <1>2, <1>4, SizeIsRead
  <1>6. phase' = "bad encoding" <=> Less(f.length, Plus(n, k))
    BY <1>1, <1>5 DEF HasBytes
  <1>7. Before(atom') = Before(atom) /\ IsSingle(atom') = IsSingle(atom)
    BY <1>1
  <1>8. ASSUME NEW i \in Byte, f.length = Plus(n, i)
        PROVE  phase' = "bad encoding" <=> i < k
    <2>1. k \in Byte
      BY <1>3 DEF Byte
    <2> HIDE DEF n, k
    <2>2. Less(Plus(n, i), Plus(n, k)) <=> i < k
      BY <1>3, <2>1, LengthsCompare
    <2> QED  BY <1>6, <1>8, <2>2
  <1>9. CASE sent = "all"
    <2>1. PICK m \in 0..250 : f.length = Plus(n, k + m)
      BY <1>9 DEF Fate
    <2>2. k + m \in Byte /\ ~(k + m < k)
      BY <1>3, NearPrefix
    <2>3. phase' # "bad encoding"
      BY <1>8, <2>1, <2>2
    <2> QED  BY <1>1, <1>2, <1>7, <1>9, <2>3 DEF Fate
  <1>10. CASE sent = "cut"
    <2>1. f.length = Plus(n, k - 1)
      BY <1>1, <1>10 DEF Fate
    <2>2. k - 1 \in Byte /\ k - 1 < k
      BY <1>3 DEF Byte
    <2>3. phase' = "bad encoding"
      BY <1>8, <2>1, <2>2
    <2> QED  BY <1>1, <1>2, <1>7, <1>10, <2>1, <2>3 DEF Fate
  <1>11. sent \in {"all", "cut"}
    BY DEF IInv, TypeOK
  <1> QED  BY <1>9, <1>10, <1>11

\* An atom that is cut is refused wherever it is cut, and any other is read.
THEOREM CutIsRefused == Spec => []RefusesWhatIsCut
  <1>1. Init => Fate
    BY DEF Init, Fate
  <1>2. IInv /\ Fate /\ [Next]_vars => Fate'
    BY FateWrite, FateWriteTooLong, FateCut, FateReadFirst, FateCountBit, FateReadSize,
       FateCheckSize, FateReadBlob DEF Next, Finished
  <1>3. Fate /\ IInv => RefusesWhatIsCut
    BY DEF Fate, IInv, TypeOK, RefusesWhatIsCut, Ended
  <1> QED  BY <1>1, <1>2, <1>3, Invariance, PTL DEF Spec
=============================================================================
