---------------------------- MODULE CodecProofs ----------------------------
(***************************************************************************)
(* Theorems about Codec: for any messages that the program can pack, any   *)
(* bytes that are written over others and any number of changes.           *)
(***************************************************************************)
EXTENDS Codec, FrameProofs, SequenceTheorems, TLAPS

-----------------------------------------------------------------------------
(* Numbers                                                                 *)

Sizes == {1, 2, 4, 8}

\* The place of the highest byte that a field has here.
Top(n) == Place[IF n > 4 THEN 4 ELSE n]

TopRange(signed) == IF signed THEN -128 .. 127 ELSE Octet

\* A byte that has the sign.
Signed(x, signed) == IF signed /\ x >= 128 THEN x - 256 ELSE x

LEMMA Tops == Top(1) = 1 /\ Top(2) = 256 /\ Top(4) = 16777216 /\ Top(8) = 16777216
BY DEF Top, Place

\* The i-th byte of a number.
ByteOf(v, i) == (v \div Place[i]) % 256

LEMMA PackType ==
  ASSUME NEW v \in Int, NEW n \in Sizes
  PROVE  /\ Pack(v, n) \in Seq(Octet) /\ Len(Pack(v, n)) = n
         /\ \A i \in 1 .. n : Pack(v, n)[i] = IF i > 4 THEN 0 ELSE ByteOf(v, i)
<1>1. \A i \in 1 .. 4 : (v \div Place[i]) % 256 \in Octet
  BY DEF Place, Octet
<1> QED
  BY <1>1 DEF Pack, Octet, Sizes, ByteOf

LEMMA OctetInt ==
  ASSUME NEW x \in Octet
  PROVE  x \in Int /\ x \in 0 .. 255
BY DEF Octet

LEMMA SignedByte ==
  ASSUME NEW x \in Octet, NEW signed \in BOOLEAN
  PROVE  Signed(x, signed) \in TopRange(signed) /\ Signed(x, signed) \in Int
         /\ Signed(x, signed) % 256 = x
BY DEF Signed, TopRange, Octet

LEMMA SumOfDigits ==
  ASSUME NEW b, NEW signed \in BOOLEAN
  PROVE  Unpack(b, signed) = Digit(b, 1, signed) + 256 * Digit(b, 2, signed)
           + 65536 * Digit(b, 3, signed) + 16777216 * Digit(b, 4, signed)
BY DEF Unpack, Place

\* What the bytes of a number come to, by its size.
LEMMA UnpackSum1 ==
  ASSUME NEW b, NEW signed \in BOOLEAN, Len(b) = 1, b[1] \in Octet
  PROVE  Unpack(b, signed) = Signed(b[1], signed)
<1>2. Signed(b[1], signed) \in Int
  BY SignedByte
<1>3. /\ Digit(b, 1, signed) = Signed(b[1], signed) /\ Digit(b, 2, signed) = 0
      /\ Digit(b, 3, signed) = 0 /\ Digit(b, 4, signed) = 0
  BY DEF Digit, Signed
<1> QED
  BY <1>2, <1>3, SumOfDigits

LEMMA UnpackSum2 ==
  ASSUME NEW b, NEW signed \in BOOLEAN, Len(b) = 2, b[1] \in Octet, b[2] \in Octet
  PROVE  Unpack(b, signed) = b[1] + 256 * Signed(b[2], signed)
<1>2. b[1] \in Int /\ Signed(b[2], signed) \in Int
  BY SignedByte, OctetInt
<1>3. /\ Digit(b, 1, signed) = b[1] /\ Digit(b, 2, signed) = Signed(b[2], signed)
      /\ Digit(b, 3, signed) = 0 /\ Digit(b, 4, signed) = 0
  BY DEF Digit, Signed
<1> QED
  BY <1>2, <1>3, SumOfDigits

LEMMA UnpackSum4 ==
  ASSUME NEW b, NEW signed \in BOOLEAN, Len(b) = 4
  PROVE  Unpack(b, signed) = b[1] + 256 * b[2] + 65536 * b[3]
                              + 16777216 * Signed(b[4], signed)
<1>1. /\ Digit(b, 1, signed) = b[1] /\ Digit(b, 2, signed) = b[2]
      /\ Digit(b, 3, signed) = b[3] /\ Digit(b, 4, signed) = Signed(b[4], signed)
  BY DEF Digit, Signed
<1> QED
  BY <1>1, SumOfDigits

LEMMA UnpackSum8 ==
  ASSUME NEW b, NEW signed \in BOOLEAN, Len(b) = 8
  PROVE  Unpack(b, signed) = b[1] + 256 * b[2] + 65536 * b[3] + 16777216 * b[4]
<1>1. /\ Digit(b, 1, signed) = b[1] /\ Digit(b, 2, signed) = b[2]
      /\ Digit(b, 3, signed) = b[3] /\ Digit(b, 4, signed) = b[4]
  BY DEF Digit
<1> QED
  BY <1>1, SumOfDigits

\* The bytes of a number, and what they come to.
LEMMA UnpackDigits ==
  ASSUME NEW v \in Int, NEW signed \in BOOLEAN
  PROVE  /\ Unpack(Pack(v, 1), signed) = Signed(ByteOf(v, 1), signed)
         /\ Unpack(Pack(v, 2), signed) = ByteOf(v, 1) + 256 * Signed(ByteOf(v, 2), signed)
         /\ Unpack(Pack(v, 4), signed)
              = ByteOf(v, 1) + 256 * ByteOf(v, 2) + 65536 * ByteOf(v, 3)
                  + 16777216 * Signed(ByteOf(v, 4), signed)
         /\ Unpack(Pack(v, 8), signed)
              = ByteOf(v, 1) + 256 * ByteOf(v, 2) + 65536 * ByteOf(v, 3)
                  + 16777216 * ByteOf(v, 4)
<1>1. Unpack(Pack(v, 1), signed) = Signed(ByteOf(v, 1), signed)
  <2>1. 1 \in Sizes
    BY DEF Sizes
  <2>2. PICK b \in Seq(Octet) :
          /\ b = Pack(v, 1) /\ Len(b) = 1
          /\ \A i \in 1 .. 1 : b[i] = IF i > 4 THEN 0 ELSE ByteOf(v, i)
    BY <2>1, PackType
  <2>3. b[1] = ByteOf(v, 1)
    BY <2>2
  <2> QED
    BY <2>2, <2>3, UnpackSum1
<1>2. Unpack(Pack(v, 2), signed) = ByteOf(v, 1) + 256 * Signed(ByteOf(v, 2), signed)
  <2>1. 2 \in Sizes
    BY DEF Sizes
  <2>2. PICK b \in Seq(Octet) :
          /\ b = Pack(v, 2) /\ Len(b) = 2
          /\ \A i \in 1 .. 2 : b[i] = IF i > 4 THEN 0 ELSE ByteOf(v, i)
    BY <2>1, PackType
  <2>3. b[1] = ByteOf(v, 1) /\ b[2] = ByteOf(v, 2)
    BY <2>2
  <2> QED
    BY <2>2, <2>3, UnpackSum2
<1>3. Unpack(Pack(v, 4), signed)
        = ByteOf(v, 1) + 256 * ByteOf(v, 2) + 65536 * ByteOf(v, 3)
          + 16777216 * Signed(ByteOf(v, 4), signed)
  <2>1. 4 \in Sizes
    BY DEF Sizes
  <2>2. PICK b \in Seq(Octet) :
          /\ b = Pack(v, 4) /\ Len(b) = 4
          /\ \A i \in 1 .. 4 : b[i] = IF i > 4 THEN 0 ELSE ByteOf(v, i)
    BY <2>1, PackType
  <2>3. /\ b[1] = ByteOf(v, 1) /\ b[2] = ByteOf(v, 2)
        /\ b[3] = ByteOf(v, 3) /\ b[4] = ByteOf(v, 4)
    BY <2>2
  <2> QED
    BY <2>2, <2>3, UnpackSum4
<1>4. Unpack(Pack(v, 8), signed)
        = ByteOf(v, 1) + 256 * ByteOf(v, 2) + 65536 * ByteOf(v, 3)
          + 16777216 * ByteOf(v, 4)
  <2>1. 8 \in Sizes
    BY DEF Sizes
  <2>2. PICK b \in Seq(Octet) :
          /\ b = Pack(v, 8) /\ Len(b) = 8
          /\ \A i \in 1 .. 8 : b[i] = IF i > 4 THEN 0 ELSE ByteOf(v, i)
    BY <2>1, PackType
  <2>3. /\ b[1] = ByteOf(v, 1) /\ b[2] = ByteOf(v, 2)
        /\ b[3] = ByteOf(v, 3) /\ b[4] = ByteOf(v, 4)
    BY <2>2
  <2> QED
    BY <2>2, <2>3, UnpackSum8
<1> QED
  BY <1>1, <1>2, <1>3, <1>4

LEMMA TopDigit ==
  ASSUME NEW d \in Int, NEW signed \in BOOLEAN, d \in TopRange(signed)
  PROVE  d = Signed(d % 256, signed)
BY DEF TopRange, Octet, Signed

\* What is packed is unpacked.
LEMMA UnpackPacked ==
  ASSUME NEW v \in Int, NEW n \in Sizes, NEW signed \in BOOLEAN, ~(signed /\ n = 8),
         v \div Top(n) \in TopRange(signed)
  PROVE  Unpack(Pack(v, n), signed) = v
<1>1. CASE n = 1
  <2>1. v \in TopRange(signed)
    BY <1>1, Tops
  <2>2. ByteOf(v, 1) = v % 256
    BY DEF ByteOf, Place
  <2> QED
    BY <1>1, <2>1, <2>2, UnpackDigits, TopDigit
<1>2. CASE n = 2
  <2>1. PICK d \in Int : d = v \div 256 /\ d \in TopRange(signed)
    BY <1>2, Tops
  <2>2. ByteOf(v, 1) = v % 256 /\ ByteOf(v, 2) = d % 256
    BY <2>1 DEF ByteOf, Place
  <2>3. Signed(ByteOf(v, 2), signed) = d
    BY <2>1, <2>2, TopDigit
  <2>4. v = (v % 256) + 256 * d
    BY <2>1
  <2> QED
    BY <1>2, <2>2, <2>3, <2>4, UnpackDigits
<1>3. CASE n = 4
  <2>1. PICK d \in Int : d = v \div 16777216 /\ d \in TopRange(signed)
    BY <1>3, Tops
  <2>2. ByteOf(v, 4) = d % 256
    BY <2>1 DEF ByteOf, Place
  <2>3. Signed(ByteOf(v, 4), signed) = d
    BY <2>1, <2>2, TopDigit
  <2>4. v = ByteOf(v, 1) + 256 * ByteOf(v, 2) + 65536 * ByteOf(v, 3) + 16777216 * d
    BY <2>1 DEF ByteOf, Place
  <2> QED
    BY <1>3, <2>3, <2>4, UnpackDigits
<1>4. CASE n = 8
  <2>1. v \div 16777216 \in 0 .. 255
    BY <1>4, Tops DEF TopRange, Octet
  <2>2. ByteOf(v, 4) = v \div 16777216
    BY <2>1 DEF ByteOf, Place
  <2>3. v = ByteOf(v, 1) + 256 * ByteOf(v, 2) + 65536 * ByteOf(v, 3) + 16777216 * ByteOf(v, 4)
    BY <2>2 DEF ByteOf, Place
  <2> QED
    BY <1>4, <2>3, UnpackDigits
<1> QED
  BY <1>1, <1>2, <1>3, <1>4 DEF Sizes

\* The number v has the bytes b.
HasBytes(v, b, signed) ==
  /\ v \in Int /\ v \div Top(Len(b)) \in TopRange(signed)
  /\ \A i \in 1 .. Len(b) : i <= 4 => b[i] = ByteOf(v, i)

\* What is unpacked has the bytes it was unpacked from.
LEMMA Unpacked1 ==
  ASSUME NEW b, NEW signed \in BOOLEAN, Len(b) = 1,
         b[1] \in Octet
  PROVE  HasBytes(Unpack(b, signed), b, signed)
<1>1. PICK x \in Octet : x = b[1]
  OBVIOUS
<1>2. PICK v : v = Unpack(b, signed)
  OBVIOUS
<1>3. v = Signed(x, signed)
  BY <1>1, <1>2, UnpackSum1
<1>4. v \in Int /\ v \in TopRange(signed) /\ v % 256 = x
  BY <1>3, SignedByte
<1>5. v \div 1 = v /\ ByteOf(v, 1) = x
  BY <1>4 DEF ByteOf, Place
<1> QED
  BY <1>1, <1>2, <1>4, <1>5, Tops DEF HasBytes

LEMMA Unpacked2 ==
  ASSUME NEW b, NEW signed \in BOOLEAN, Len(b) = 2,
         b[1] \in Octet, b[2] \in Octet
  PROVE  HasBytes(Unpack(b, signed), b, signed)
<1>1. PICK x \in 0 .. 255 : x = b[1]
  BY OctetInt
<1>2. PICK y \in Octet : y = b[2]
  OBVIOUS
<1>3. PICK d \in Int : d = Signed(y, signed) /\ d \in TopRange(signed) /\ d % 256 = y
  BY SignedByte
<1>4. PICK v : v = Unpack(b, signed)
  OBVIOUS
<1>5. v = x + 256 * d
  BY <1>1, <1>2, <1>3, <1>4, UnpackSum2
<1>6. v \in Int /\ v \div 256 = d /\ v % 256 = x
  BY <1>5
<1>7. ByteOf(v, 1) = x /\ ByteOf(v, 2) = y
  BY <1>3, <1>6 DEF ByteOf, Place
<1> QED
  BY <1>1, <1>2, <1>3, <1>4, <1>6, <1>7, Tops DEF HasBytes

LEMMA Unpacked4 ==
  ASSUME NEW b, NEW signed \in BOOLEAN, Len(b) = 4,
         b[1] \in Octet, b[2] \in Octet, b[3] \in Octet, b[4] \in Octet
  PROVE  HasBytes(Unpack(b, signed), b, signed)
<1>x. PICK x \in 0 .. 255 : x = b[1]
  BY OctetInt
<1>y. PICK y \in 0 .. 255 : y = b[2]
  BY OctetInt
<1>z. PICK z \in 0 .. 255 : z = b[3]
  BY OctetInt
<1>2. PICK w \in Octet : w = b[4]
  OBVIOUS
<1>3. PICK d \in Int : d = Signed(w, signed) /\ d \in TopRange(signed) /\ d % 256 = w
  BY SignedByte
<1>4. PICK v : v = Unpack(b, signed)
  OBVIOUS
<1>5. v = x + 256 * y + 65536 * z + 16777216 * d
  BY <1>x, <1>y, <1>z, <1>2, <1>3, <1>4, UnpackSum4
<1>6. v \in Int /\ v \div 16777216 = d
  BY <1>5
<1>7. ByteOf(v, 1) = x /\ ByteOf(v, 2) = y /\ ByteOf(v, 3) = z
  <2>1. v \div 65536 = z + 256 * d
    BY <1>5
  <2>2. v \div 256 = y + 256 * z + 65536 * d
    BY <1>5
  <2>3. v % 256 = x /\ (v \div 256) % 256 = y /\ (v \div 65536) % 256 = z
    BY <1>5, <2>1, <2>2
  <2> QED
    BY <1>6, <2>3 DEF ByteOf, Place
<1>8. ByteOf(v, 4) = w
  BY <1>3, <1>6 DEF ByteOf, Place
<1> QED
  BY <1>x, <1>y, <1>z, <1>2, <1>3, <1>4, <1>6, <1>7, <1>8, Tops DEF HasBytes

LEMMA Unpacked8 ==
  ASSUME NEW b, NEW signed \in BOOLEAN, ~signed, Len(b) = 8,
         b[1] \in Octet, b[2] \in Octet, b[3] \in Octet, b[4] \in Octet
  PROVE  HasBytes(Unpack(b, signed), b, signed)
<1>x. PICK x \in 0 .. 255 : x = b[1]
  BY OctetInt
<1>y. PICK y \in 0 .. 255 : y = b[2]
  BY OctetInt
<1>z. PICK z \in 0 .. 255 : z = b[3]
  BY OctetInt
<1>2. PICK w \in 0 .. 255 : w = b[4]
  BY OctetInt
<1>3. w \in TopRange(signed) /\ w % 256 = w
  BY DEF TopRange, Octet
<1>4. PICK v : v = Unpack(b, signed)
  OBVIOUS
<1>5. v = x + 256 * y + 65536 * z + 16777216 * w
  BY <1>x, <1>y, <1>z, <1>2, <1>4, UnpackSum8
<1>6. v \in Int /\ v \div 16777216 = w
  BY <1>5
<1>7. ByteOf(v, 1) = x /\ ByteOf(v, 2) = y /\ ByteOf(v, 3) = z
  <2>1. v \div 65536 = z + 256 * w
    BY <1>5
  <2>2. v \div 256 = y + 256 * z + 65536 * w
    BY <1>5
  <2>3. v % 256 = x /\ (v \div 256) % 256 = y /\ (v \div 65536) % 256 = z
    BY <1>5, <2>1, <2>2
  <2> QED
    BY <1>6, <2>3 DEF ByteOf, Place
<1>8. ByteOf(v, 4) = w
  BY <1>3, <1>6 DEF ByteOf, Place
<1> QED
  BY <1>x, <1>y, <1>z, <1>2, <1>3, <1>4, <1>6, <1>7, <1>8, Tops DEF HasBytes

\* What is unpacked is packed to the same bytes, the upper half of 8 bytes apart.
LEMMA PackUnpacked ==
  ASSUME NEW b \in Seq(Octet), NEW signed \in BOOLEAN, Len(b) \in Sizes,
         ~(signed /\ Len(b) = 8), \A i \in 5 .. Len(b) : b[i] = 0
  PROVE  /\ Unpack(b, signed) \in Int
         /\ Unpack(b, signed) \div Top(Len(b)) \in TopRange(signed)
         /\ Pack(Unpack(b, signed), Len(b)) = b
<1>1. PICK v : v = Unpack(b, signed)
  OBVIOUS
<1>b. \A i \in 1 .. Len(b) : b[i] \in Octet
  OBVIOUS
<1>2. HasBytes(v, b, signed)
  <2>1. CASE Len(b) = 1
    BY <1>1, <1>b, <2>1, Unpacked1
  <2>2. CASE Len(b) = 2
    BY <1>1, <1>b, <2>2, Unpacked2
  <2>4. CASE Len(b) = 4
    BY <1>1, <1>b, <2>4, Unpacked4
  <2>8. CASE Len(b) = 8
    BY <1>1, <1>b, <2>8, Unpacked8
  <2> QED
    BY <2>1, <2>2, <2>4, <2>8 DEF Sizes
<1>3. PICK n \in Nat : n = Len(b)
  OBVIOUS
<1>4. /\ Pack(v, n) \in Seq(Octet) /\ Len(Pack(v, n)) = n
      /\ \A i \in 1 .. n : Pack(v, n)[i] = IF i > 4 THEN 0 ELSE ByteOf(v, i)
  BY <1>2, <1>3, PackType DEF HasBytes
<1>5. \A i \in 1 .. n : Pack(v, n)[i] = b[i]
  BY <1>2, <1>3, <1>4 DEF HasBytes
<1>6. Pack(v, n) = b
  BY <1>3, <1>4, <1>5
<1> QED
  BY <1>1, <1>2, <1>3, <1>6 DEF HasBytes

-----------------------------------------------------------------------------
(* Sequences                                                               *)

\* Induction along a sequence: a set with its first place and, of every place but
\* the last, the next has them all.
LEMMA AllPlaces ==
  ASSUME NEW n \in Nat, NEW T, 1 \in T, \A k \in 1 .. n : k \in T /\ k < n => k + 1 \in T
  PROVE  1 .. n \subseteq T
<1> SUFFICES ASSUME NEW i \in 1 .. n, i \notin T
             PROVE  FALSE
  OBVIOUS
<1> DEFINE W == {k \in 1 .. n : k \notin T}
<1>1. W \subseteq Nat /\ W # {}
  OBVIOUS
<1>2. PICK k \in W : \A j \in W : k <= j
  BY <1>1, Least
<1>3. k \in 1 .. n /\ k \notin T /\ k # 1
  BY <1>2
<1>4. k - 1 \in 1 .. n /\ k - 1 < n /\ k - 1 \notin W
  BY <1>2, <1>3
<1>5. k - 1 \in T
  BY <1>4
<1>6. (k - 1) + 1 \in T
  BY <1>4, <1>5
<1> QED
  BY <1>3, <1>6

\* The recursion of FlattenSeq: what it collects from the first i sequences.
Flat(seqs) ==
  CHOOSE f : f = [i \in 1 .. Len(seqs) |-> IF i = 1 THEN seqs[i] ELSE f[i - 1] \o seqs[i]]

LEMMA FlatDef ==
  ASSUME NEW seqs, Len(seqs) # 0
  PROVE  FlattenSeq(seqs) = Flat(seqs)[Len(seqs)]
BY DEF FlattenSeq, Flat

LEMMA FlatExists ==
  ASSUME NEW Els, NEW seqs \in Seq(Seq(Els))
  PROVE  /\ DOMAIN Flat(seqs) = 1 .. Len(seqs)
         /\ \A i \in 1 .. Len(seqs) :
              Flat(seqs)[i] = IF i = 1 THEN seqs[i] ELSE Flat(seqs)[i - 1] \o seqs[i]
<1> DEFINE n == Len(seqs)
           Upto(k, f) == \A i \in 1 .. k : f[i] = IF i = 1 THEN seqs[i] ELSE f[i - 1] \o seqs[i]
           T == {k \in 1 .. n : \E f : Upto(k, f)}
<1>0. n \in Nat
  OBVIOUS
<1> HIDE DEF n
<1>1. CASE n = 0
  <2> DEFINE e == [i \in {} |-> seqs[i]]
  <2>1. \A f : [i \in 1 .. n |-> IF i = 1 THEN seqs[i] ELSE f[i - 1] \o seqs[i]] = e
    BY <1>1
  <2>2. Flat(seqs) = e
    BY <2>1 DEF Flat, n
  <2> QED
    BY <1>1, <2>2 DEF n
<1>2. CASE n # 0
  <2>1. 1 \in T
    <3>1. Upto(1, [i \in {1} |-> seqs[1]])
      OBVIOUS
    <3> QED
      BY <1>0, <1>2, <3>1
  <2>2. \A k \in 1 .. n : k \in T /\ k < n => k + 1 \in T
    <3> SUFFICES ASSUME NEW k \in 1 .. n, k \in T, k < n
                 PROVE  k + 1 \in T
      OBVIOUS
    <3>1. PICK f : Upto(k, f)
      OBVIOUS
    <3> DEFINE g == [i \in 1 .. k + 1 |-> IF i = k + 1 THEN f[k] \o seqs[k + 1] ELSE f[i]]
    <3>2. \A i \in 1 .. k + 1 : g[i] = IF i = 1 THEN seqs[i] ELSE g[i - 1] \o seqs[i]
      <4> TAKE i \in 1 .. k + 1
      <4>1. CASE i = k + 1
        <5>1. i # 1 /\ i - 1 = k /\ g[k] = f[k]
          BY <4>1
        <5> QED
          BY <4>1, <5>1
      <4>2. CASE i \in 1 .. k
        <5>1. g[i] = f[i] /\ (i # 1 => g[i - 1] = f[i - 1])
          BY <4>2
        <5> QED
          BY <3>1, <4>2, <5>1
      <4> QED
        BY <4>1, <4>2
    <3>3. k + 1 \in 1 .. n
      BY <1>0
    <3> HIDE DEF g
    <3> QED
      BY <3>2, <3>3
  <2>3. n \in T
    <3> HIDE DEF T
    <3>1. 1 .. n \subseteq T
      BY <1>0, <2>1, <2>2, AllPlaces
    <3> QED
      BY <1>0, <1>2, <3>1
  <2>4. PICK f : Upto(n, f)
    BY <2>3
  <2> DEFINE h == [i \in 1 .. n |-> f[i]]
  <2>5. h = [i \in 1 .. n |-> IF i = 1 THEN seqs[i] ELSE h[i - 1] \o seqs[i]]
    <3>1. \A i \in 1 .. n : h[i] = IF i = 1 THEN seqs[i] ELSE h[i - 1] \o seqs[i]
      <4> TAKE i \in 1 .. n
      <4>1. h[i] = f[i] /\ (i # 1 => h[i - 1] = f[i - 1])
        BY <1>0
      <4> QED
        BY <2>4, <4>1
    <3> QED
      BY <3>1
  <2> HIDE DEF h
  <2>6. Flat(seqs) = [i \in 1 .. n |-> IF i = 1 THEN seqs[i] ELSE Flat(seqs)[i - 1] \o seqs[i]]
    BY <2>5, Zenon DEF Flat, n
  <2> QED
    BY <2>6 DEF n
<1> QED
  BY <1>1, <1>2

\* The places of the sequences, one after the other.
InRow(seqs, at) ==
  /\ \A i \in 1 .. Len(seqs) : at[i] \in Nat
  /\ at[1] = 0
  /\ \A i \in 1 .. Len(seqs) : i < Len(seqs) => at[i + 1] = at[i] + Len(seqs[i])

\* What holds of f, the first k sequences one after the other.
Collected(Els, seqs, at, k, f) ==
  /\ f \in Seq(Els)
  /\ Len(f) = at[k] + Len(seqs[k])
  /\ \A i \in 1 .. k : /\ at[i] + Len(seqs[i]) <= Len(f)
                       /\ \A j \in 1 .. Len(seqs[i]) : f[at[i] + j] = seqs[i][j]
  /\ \A p \in 1 .. Len(f) : \E i \in 1 .. k : at[i] < p /\ p <= at[i] + Len(seqs[i])

\* One sequence more.
LEMMA CollectedNext ==
  ASSUME NEW Els, NEW seqs \in Seq(Seq(Els)), NEW at, InRow(seqs, at),
         NEW k \in 1 .. Len(seqs), k < Len(seqs), NEW f, Collected(Els, seqs, at, k, f)
  PROVE  Collected(Els, seqs, at, k + 1, f \o seqs[k + 1])
<1> DEFINE g == f \o seqs[k + 1]
<1>1. PICK s \in Seq(Els) : s = seqs[k + 1]
  OBVIOUS
<1>2. f \in Seq(Els)
  BY DEF Collected
<1>l. PICK l \in Nat : l = Len(f)
  BY <1>2, LenIsNat, Zenon
<1>m. PICK m \in Nat : m = Len(s)
  BY LenIsNat, Zenon
<1>3. l = Len(f) /\ m = Len(s)
  BY <1>l, <1>m
<1>g. g = f \o s
  BY <1>1
<1> HIDE DEF g
<1>4. /\ g \in Seq(Els) /\ Len(g) = l + m
      /\ \A i \in 1 .. l : g[i] = f[i]
      /\ \A i \in 1 .. m : g[l + i] = s[i]
  BY <1>2, <1>3, <1>g, Concat, SMTT(30)
<1>5. at[k + 1] = l
  BY <1>3 DEF Collected, InRow
<1>6. k + 1 \in Nat /\ \A i \in 1 .. k + 1 : i \in 1 .. k \/ i = k + 1
  OBVIOUS
<1>7. ASSUME NEW i \in 1 .. k
      PROVE  /\ at[i] + Len(seqs[i]) <= l + m
             /\ \A j \in 1 .. Len(seqs[i]) : g[at[i] + j] = seqs[i][j]
  <2>i. i \in 1 .. Len(seqs)
    OBVIOUS
  <2>a. PICK a \in Nat : a = at[i]
    BY <2>i DEF InRow
  <2>t. PICK t \in Seq(Els) : t = seqs[i]
    BY <2>i
  <2>q. PICK q \in Nat : q = Len(t)
    BY LenIsNat, Zenon
  <2>1. a + q <= l /\ \A j \in 1 .. q : f[a + j] = t[j]
    BY <1>3, <2>a, <2>t, <2>q DEF Collected
  <2>2. \A j \in 1 .. q : a + j \in 1 .. l
    BY <2>1
  <2>3. \A j \in 1 .. q : g[a + j] = t[j]
    BY <1>4, <2>1, <2>2
  <2>4. a + q <= l + m
    BY <2>1
  <2> QED
    BY <2>a, <2>t, <2>q, <2>3, <2>4
<1>8. /\ at[k + 1] + Len(seqs[k + 1]) <= l + m
      /\ \A j \in 1 .. Len(seqs[k + 1]) : g[at[k + 1] + j] = seqs[k + 1][j]
  BY <1>1, <1>3, <1>4, <1>5
<1>9. ASSUME NEW p \in 1 .. l + m
      PROVE  \E i \in 1 .. k + 1 : at[i] < p /\ p <= at[i] + Len(seqs[i])
  <2>1. CASE p \in 1 .. l
    <3>1. PICK i \in 1 .. k : at[i] < p /\ p <= at[i] + Len(seqs[i])
      BY <1>3, <2>1 DEF Collected
    <3>2. i \in 1 .. k + 1
      OBVIOUS
    <3> QED
      BY <3>1, <3>2
  <2>2. CASE ~(p \in 1 .. l)
    <3>1. l < p /\ p <= l + m
      BY <1>3, <2>2
    <3>2. k + 1 \in 1 .. k + 1
      OBVIOUS
    <3> QED
      BY <1>1, <1>3, <1>5, <3>1, <3>2
  <2> QED
    BY <2>1, <2>2
<1>10. Collected(Els, seqs, at, k + 1, g)
  <2>1. \A i \in 1 .. k + 1 :
          /\ at[i] + Len(seqs[i]) <= l + m
          /\ \A j \in 1 .. Len(seqs[i]) : g[at[i] + j] = seqs[i][j]
    BY <1>6, <1>7, <1>8
  <2>2. \A p \in 1 .. l + m : \E i \in 1 .. k + 1 : at[i] < p /\ p <= at[i] + Len(seqs[i])
    BY <1>9
  <2> QED
    BY <1>1, <1>3, <1>4, <1>5, <2>1, <2>2 DEF Collected
<1> QED
  BY <1>10 DEF g

LEMMA Flattened ==
  ASSUME NEW Els, NEW seqs \in Seq(Seq(Els)), Len(seqs) # 0, NEW at, InRow(seqs, at)
  PROVE  Collected(Els, seqs, at, Len(seqs), FlattenSeq(seqs))
<1> DEFINE T == {k \in 1 .. Len(seqs) : Collected(Els, seqs, at, k, Flat(seqs)[k])}
<1>0. Len(seqs) \in Nat
  OBVIOUS
<1>1. 1 \in T
  <2>1. PICK s \in Seq(Els) : s = seqs[1]
    BY <1>0
  <2>2. PICK m \in Nat : m = Len(s)
    OBVIOUS
  <2>3. Flat(seqs)[1] = s
    BY <1>0, <2>1, FlatExists
  <2>4. \A p \in 1 .. m : \E i \in 1 .. 1 : at[i] < p /\ p <= at[i] + Len(seqs[i])
    BY <2>1, <2>2 DEF InRow
  <2>5. \A i \in 1 .. 1 : /\ at[i] + Len(seqs[i]) <= m
                         /\ \A j \in 1 .. Len(seqs[i]) : s[at[i] + j] = seqs[i][j]
    BY <2>1, <2>2 DEF InRow
  <2>6. Len(s) = at[1] + Len(seqs[1])
    BY <2>1, <2>2 DEF InRow
  <2>7. Collected(Els, seqs, at, 1, s)
    BY <2>2, <2>4, <2>5, <2>6 DEF Collected
  <2> QED
    BY <1>0, <2>3, <2>7
<1>2. ASSUME NEW k \in 1 .. Len(seqs), k \in T, k < Len(seqs)
      PROVE  k + 1 \in T
  <2>1. k + 1 \in 1 .. Len(seqs) /\ k + 1 # 1 /\ (k + 1) - 1 = k
    BY <1>0, <1>2
  <2>2. Flat(seqs)[k + 1] = Flat(seqs)[k] \o seqs[k + 1]
    BY <2>1, FlatExists
  <2>3. Collected(Els, seqs, at, k + 1, Flat(seqs)[k] \o seqs[k + 1])
    BY <1>2, CollectedNext
  <2> QED
    BY <2>1, <2>2, <2>3
<1>3. Len(seqs) \in T
  <2> HIDE DEF T
  <2>1. 1 .. Len(seqs) \subseteq T
    BY <1>0, <1>1, <1>2, AllPlaces
  <2> QED
    BY <1>0, <2>1
<1> QED
  BY <1>3, FlatDef

-----------------------------------------------------------------------------
(* Layouts                                                                 *)

\* A layout as the code has it: n fields of the four sizes, each where the one
\* before it ends, no two with one name, none of 8 bytes with a sign.
WellLaid(layout, n) ==
  /\ n \in Nat \ {0} /\ Len(layout) = n /\ DOMAIN layout = 1 .. n
  /\ \A i \in 1 .. n :
       /\ layout[i].at \in Nat /\ layout[i].size \in Sizes
       /\ layout[i].signed = TRUE \/ layout[i].signed = FALSE
       /\ layout[i].size = 8 => layout[i].signed = FALSE
       /\ layout[i].values \subseteq Int
  /\ layout[1].at = 0
  /\ \A i \in 1 .. n : i < n => layout[i + 1].at = layout[i].at + layout[i].size
  /\ \A i, j \in 1 .. n : layout[i].name = layout[j].name => i = j

LEMMA LoRaLaid == WellLaid(LoRaConfig, 10) /\ Size(LoRaConfig) = 15
<1>1. Size(LoRaConfig) = 15
  BY DEF LoRaConfig, Size, End, U, S, E, Flag, FieldAt
<1>2. WellLaid(LoRaConfig, 10)
  BY DEF LoRaConfig, WellLaid, U, S, E, Flag, FieldAt, Sizes
<1> QED
  BY <1>1, <1>2

LEMMA LrFhssLaid == WellLaid(LrFhssConfig, 7) /\ Size(LrFhssConfig) = 10
<1>1. Size(LrFhssConfig) = 10
  BY DEF LrFhssConfig, Size, End, U, S, E, Flag, FieldAt
<1>2. WellLaid(LrFhssConfig, 7)
  BY DEF LrFhssConfig, WellLaid, U, S, E, Flag, FieldAt, Sizes
<1> QED
  BY <1>1, <1>2

LEMMA FlrcLaid == WellLaid(FlrcConfig, 7) /\ Size(FlrcConfig) = 13
<1>1. Size(FlrcConfig) = 13
  BY DEF FlrcConfig, Size, End, U, S, E, Flag, FieldAt
<1>2. WellLaid(FlrcConfig, 7)
  BY DEF FlrcConfig, WellLaid, U, S, E, Flag, FieldAt, Sizes
<1> QED
  BY <1>1, <1>2

LEMMA FskLaid == WellLaid(FskFields, 6) /\ Size(FskFields) = 16
<1>1. Size(FskFields) = 16
  BY DEF FskFields, Size, End, U, S, E, Flag, FieldAt
<1>2. WellLaid(FskFields, 6)
  BY DEF FskFields, WellLaid, U, S, E, Flag, FieldAt, Sizes
<1> QED
  BY <1>1, <1>2

LEMMA InfoLaid == WellLaid(InfoHeader, 17) /\ Size(InfoHeader) = 36
<1>1. Size(InfoHeader) = 36
  BY DEF InfoHeader, Size, End, U, S, E, Flag, FieldAt
<1>2. WellLaid(InfoHeader, 17)
  BY DEF InfoHeader, WellLaid, U, S, E, Flag, FieldAt, Sizes, MAX_MCU_UID_LEN
<1> QED
  BY <1>1, <1>2

LEMMA ResultLaid == WellLaid(ResultHeader, 2) /\ Size(ResultHeader) = 2
<1>1. Size(ResultHeader) = 2
  BY DEF ResultHeader, Size, End, U, S, E, Flag, FieldAt
<1>2. WellLaid(ResultHeader, 2)
  BY DEF ResultHeader, WellLaid, U, S, E, Flag, FieldAt, Sizes
<1> QED
  BY <1>1, <1>2

LEMMA TxDoneLaid == WellLaid(TxDone, 2) /\ Size(TxDone) = 5
<1>1. Size(TxDone) = 5
  BY DEF TxDone, Size, End, U, S, E, Flag, FieldAt
<1>2. WellLaid(TxDone, 2)
  BY DEF TxDone, WellLaid, U, S, E, Flag, FieldAt, Sizes
<1> QED
  BY <1>1, <1>2

LEMMA RxLaid == WellLaid(RxMetadata, 7) /\ Size(RxMetadata) = 20
<1>1. Size(RxMetadata) = 20
  BY DEF RxMetadata, Size, End, U, S, E, Flag, FieldAt
<1>2. WellLaid(RxMetadata, 7)
  BY DEF RxMetadata, WellLaid, U, S, E, Flag, FieldAt, Sizes
<1> QED
  BY <1>1, <1>2

LEMMA ErrLaid == WellLaid(ErrPayload, 1) /\ Size(ErrPayload) = 2
<1>1. Size(ErrPayload) = 2
  BY DEF ErrPayload, Size, End, U, S, E, Flag, FieldAt
<1>2. WellLaid(ErrPayload, 1)
  BY DEF ErrPayload, WellLaid, U, S, E, Flag, FieldAt, Sizes
<1> QED
  BY <1>1, <1>2

LEMMA Sliced ==
  ASSUME NEW b \in Seq(Octet), NEW a \in Nat, NEW k \in Nat, a + k <= Len(b)
  PROVE  /\ SubSeq(b, a + 1, a + k) \in Seq(Octet) /\ Len(SubSeq(b, a + 1, a + k)) = k
         /\ \A j \in 1 .. k : SubSeq(b, a + 1, a + k)[j] = b[a + j]
OBVIOUS

\* s is the k bytes of b behind the first a.
SliceOf(s, b, a, k) ==
  s \in Seq(Octet) /\ Len(s) = k /\ \A j \in 1 .. k : s[j] = b[a + j]

LEMMA SlicedAs ==
  ASSUME NEW b \in Seq(Octet), NEW a \in Nat, NEW k \in Nat, a + k <= Len(b),
         NEW s, s = SubSeq(b, a + 1, a + k)
  PROVE  SliceOf(s, b, a, k)
BY Sliced, Zenon DEF SliceOf

LEMMA SameSeq ==
  ASSUME NEW T, NEW s \in Seq(T), NEW t \in Seq(T), Len(s) = Len(t),
         \A j \in 1 .. Len(s) : s[j] = t[j]
  PROVE  s = t
OBVIOUS

\* Where the fields are, and what is there.
Placed(layout, n, m, e) ==
  /\ e \in Seq(Octet) /\ Len(e) = Size(layout)
  /\ \A i \in 1 .. n :
       /\ End(layout, i) <= Size(layout)
       /\ \A j \in 1 .. layout[i].size :
            e[layout[i].at + j] = Pack(m[layout[i].name], layout[i].size)[j]
  /\ \A p \in 1 .. Size(layout) : \E i \in 1 .. n : layout[i].at < p /\ p <= End(layout, i)

LEMMA Encoded ==
  ASSUME NEW layout, NEW n, WellLaid(layout, n),
         NEW m, \A i \in 1 .. n : m[layout[i].name] \in Int
  PROVE  Placed(layout, n, m, EncodeFields(layout, m))
<1> DEFINE row == [i \in DOMAIN layout |-> Pack(m[layout[i].name], layout[i].size)]
           at == [i \in 1 .. n |-> layout[i].at]
<1>n. n \in Nat /\ n # 0 /\ DOMAIN layout = 1 .. n /\ Len(layout) = n
  BY DEF WellLaid
<1>1. \A i \in 1 .. n : /\ Pack(m[layout[i].name], layout[i].size) \in Seq(Octet)
                        /\ Len(Pack(m[layout[i].name], layout[i].size)) = layout[i].size
  <2> TAKE i \in 1 .. n
  <2>1. m[layout[i].name] \in Int /\ layout[i].size \in Sizes
    BY DEF WellLaid
  <2> QED
    BY <2>1, PackType
<1>2. row \in Seq(Seq(Octet)) /\ Len(row) = n
      /\ \A i \in 1 .. n : row[i] = Pack(m[layout[i].name], layout[i].size)
  BY <1>n, <1>1
<1>3. \A i \in 1 .. n : Len(row[i]) = layout[i].size /\ at[i] = layout[i].at
  BY <1>1, <1>2
<1>4. EncodeFields(layout, m) = FlattenSeq(row)
  BY DEF EncodeFields
<1> HIDE DEF row, at
<1>5. InRow(row, at)
  <2>1. \A i \in 1 .. n : layout[i].at \in Nat
    BY DEF WellLaid
  <2>2. layout[1].at = 0 /\ 1 \in 1 .. n
    BY <1>n DEF WellLaid
  <2>3. \A i \in 1 .. n : i < n => layout[i + 1].at = layout[i].at + layout[i].size
    BY DEF WellLaid
  <2>4. \A i \in 1 .. n : at[i] \in Nat
    BY <1>3, <2>1
  <2>5. at[1] = 0
    BY <1>3, <2>2
  <2>6. \A i \in 1 .. n : i < n => at[i + 1] = at[i] + Len(row[i])
    <3> SUFFICES ASSUME NEW i \in 1 .. n, i < n
                 PROVE  at[i + 1] = at[i] + Len(row[i])
      OBVIOUS
    <3>1. i + 1 \in 1 .. n
      BY <1>n
    <3> QED
      BY <1>3, <2>3, <3>1
  <2>7. Len(row) = n
    BY <1>2
  <2> QED
    BY <2>4, <2>5, <2>6, <2>7 DEF InRow
<1>6. Collected(Octet, row, at, n, FlattenSeq(row))
  BY <1>n, <1>2, <1>5, Flattened
<1>7. n \in 1 .. n
  BY <1>n
<1>8. \A i \in 1 .. n : at[i] + Len(row[i]) = End(layout, i) /\ at[i] = layout[i].at
  BY <1>3 DEF End
<1>9. Size(layout) = End(layout, n)
  BY <1>n DEF Size
<1> DEFINE e == FlattenSeq(row)
<1> HIDE DEF e
<1>10. e \in Seq(Octet) /\ Len(e) = Size(layout)
  BY <1>6, <1>7, <1>8, <1>9 DEF Collected, e
<1>11. ASSUME NEW i \in 1 .. n
       PROVE  /\ End(layout, i) <= Size(layout)
              /\ \A j \in 1 .. layout[i].size :
                   e[layout[i].at + j] = Pack(m[layout[i].name], layout[i].size)[j]
  <2>1. at[i] + Len(row[i]) <= Len(e)
    BY <1>6 DEF Collected, e
  <2>2. \A j \in 1 .. Len(row[i]) : e[at[i] + j] = row[i][j]
    BY <1>6 DEF Collected, e
  <2> QED
    BY <1>2, <1>3, <1>8, <1>10, <2>1, <2>2
<1>12. ASSUME NEW p \in 1 .. Size(layout)
       PROVE  \E i \in 1 .. n : layout[i].at < p /\ p <= End(layout, i)
  <2>1. p \in 1 .. Len(e)
    BY <1>10
  <2>2. \E i \in 1 .. n : at[i] < p /\ p <= at[i] + Len(row[i])
    BY <1>6, <2>1 DEF Collected, e
  <2> QED
    BY <1>8, <2>2
<1>13. Placed(layout, n, m, e)
  BY <1>10, <1>11, <1>12 DEF Placed
<1> QED
  BY <1>4, <1>13 DEF e

\* The numbers that m has for the fields can be packed.
Packable(layout, n, m) == \A i \in 1 .. n : Fits(m[layout[i].name], layout[i])

LEMMA FitsMeans ==
  ASSUME NEW layout, NEW n, WellLaid(layout, n), NEW m, Packable(layout, n, m),
         NEW i \in 1 .. n
  PROVE  /\ m[layout[i].name] \in Int /\ m[layout[i].name] \in layout[i].values
         /\ m[layout[i].name] \div Top(layout[i].size) \in TopRange(layout[i].signed)
<1>1. Fits(m[layout[i].name], layout[i]) /\ layout[i].values \subseteq Int
  BY DEF Packable, WellLaid
<1> QED
  BY <1>1 DEF Fits, Top, TopRange

LEMMA EncodedFits ==
  ASSUME NEW layout, NEW n, WellLaid(layout, n), NEW m, Packable(layout, n, m)
  PROVE  Placed(layout, n, m, EncodeFields(layout, m))
<1>1. \A i \in 1 .. n : m[layout[i].name] \in Int
  BY FitsMeans
<1> QED
  BY <1>1, Encoded

\* Every field is within the layout.
LEMMA Within ==
  ASSUME NEW layout, NEW n, WellLaid(layout, n)
  PROVE  /\ Size(layout) \in Nat
         /\ \A i \in 1 .. n :
              /\ layout[i].at \in Nat /\ layout[i].size \in Nat
              /\ layout[i].at + layout[i].size <= Size(layout)
<1>1. \E e : Placed(layout, n, [name \in Names(layout) |-> 0], e)
  <2>1. \A i \in 1 .. n : [name \in Names(layout) |-> 0][layout[i].name] = 0
    BY DEF Names, WellLaid
  <2>2. \A i \in 1 .. n : [name \in Names(layout) |-> 0][layout[i].name] \in Int
    BY <2>1
  <2> HIDE DEF Names
  <2> QED
    BY <2>2, Encoded
<1>2. PICK e : e \in Seq(Octet) /\ Len(e) = Size(layout)
  BY <1>1 DEF Placed
<1>3. Size(layout) \in Nat
  BY <1>2, LenIsNat
<1>4. \A i \in 1 .. n : layout[i].at + layout[i].size <= Size(layout)
  BY <1>1 DEF Placed, End
<1>5. \A i \in 1 .. n : layout[i].at \in Nat /\ layout[i].size \in Nat
  <2> TAKE i \in 1 .. n
  <2>1. layout[i].at \in Nat /\ layout[i].size \in Sizes
    BY DEF WellLaid
  <2> QED
    BY <2>1 DEF Sizes
<1> QED
  BY <1>3, <1>4, <1>5

\* The bytes b start with the bytes e.
Starts(e, b) == Len(e) <= Len(b) /\ \A p \in 1 .. Len(e) : b[p] = e[p]

\* Field by field, what was packed is read back.
LEMMA ReadBack ==
  ASSUME NEW layout, NEW n, WellLaid(layout, n), NEW m, Packable(layout, n, m),
         NEW b \in Seq(Octet), Starts(EncodeFields(layout, m), b), NEW i \in 1 .. n
  PROVE  Value(layout, b, i) = m[layout[i].name]
<1> DEFINE e == EncodeFields(layout, m)
           v == m[layout[i].name]
           size == layout[i].size
           signed == layout[i].signed
<1>1. Placed(layout, n, m, e)
  BY EncodedFits
<1>2. v \in Int /\ v \div Top(size) \in TopRange(signed)
  BY FitsMeans
<1>3. size \in Sizes /\ signed \in BOOLEAN /\ ~(signed /\ size = 8)
  BY DEF WellLaid
<1>4. PICK s : s = SubSeq(b, layout[i].at + 1, layout[i].at + size)
  OBVIOUS
<1>5. Value(layout, b, i) = Unpack(s, signed)
  BY <1>4 DEF Value, End
<1>6. PICK a \in Nat : a = layout[i].at
  BY Within
<1>7. PICK k \in Nat : k = size
  BY Within
<1>8. a + k <= Len(e) /\ \A j \in 1 .. k : e[a + j] = Pack(v, k)[j]
  BY <1>1, <1>6, <1>7 DEF Placed, End
<1>9. PICK l \in Nat : l = Len(e)
  BY <1>1, LenIsNat DEF Placed
<1>10. l <= Len(b) /\ \A p \in 1 .. l : b[p] = e[p]
  BY <1>9 DEF Starts
<1> HIDE DEF e, v, size, signed
<1>11. \A j \in 1 .. k : b[a + j] = Pack(v, k)[j]
  <2>1. \A j \in 1 .. k : a + j \in 1 .. l
    BY <1>8, <1>9
  <2> QED
    BY <1>8, <1>10, <2>1
<1>12. PICK z \in Nat : z = Len(b)
  BY LenIsNat
<1>13. a + k <= Len(b)
  BY <1>8, <1>9, <1>10, <1>12
<1>s. s = SubSeq(b, a + 1, a + k)
  BY <1>4, <1>6, <1>7
<1>14. /\ s \in Seq(Octet) /\ Len(s) = k /\ \A j \in 1 .. k : s[j] = b[a + j]
  <2>1. SliceOf(s, b, a, k)
    BY <1>s, <1>13, SlicedAs
  <2> QED
    BY <2>1 DEF SliceOf
<1>15. Pack(v, k) \in Seq(Octet) /\ Len(Pack(v, k)) = k
  BY <1>2, <1>3, <1>7, PackType
<1>16. s = Pack(v, k)
  BY <1>11, <1>14, <1>15, SameSeq
<1> QED
  BY <1>2, <1>3, <1>5, <1>7, <1>16, UnpackPacked DEF v

LEMMA FieldIs ==
  ASSUME NEW layout, NEW n, WellLaid(layout, n), NEW i \in 1 .. n
  PROVE  Field(layout, layout[i].name) = i
<1>1. DOMAIN layout = 1 .. n /\ \A j \in 1 .. n : layout[j].name = layout[i].name => j = i
  BY DEF WellLaid
<1> QED
  BY <1>1 DEF Field

\* What b holds, field by field.
FieldsOf(layout, b) == [name \in Names(layout) |-> Value(layout, b, Field(layout, name))]

LEMMA Decoding ==
  ASSUME NEW layout, NEW n, WellLaid(layout, n), NEW b
  PROVE  /\ \A m \in DecodeFields(layout, b) :
              /\ m = FieldsOf(layout, b)
              /\ \A i \in 1 .. n : /\ m[layout[i].name] = Value(layout, b, i)
                                   /\ m[layout[i].name] \in layout[i].values
         /\ (\A i \in 1 .. n : Value(layout, b, i) \in layout[i].values)
              => DecodeFields(layout, b) = {FieldsOf(layout, b)}
<1>0. DOMAIN layout = 1 .. n
  BY DEF WellLaid
<1>1. \A i \in 1 .. n : layout[i].name \in Names(layout)
  BY <1>0 DEF Names
<1>2. \A i \in 1 .. n : FieldsOf(layout, b)[layout[i].name] = Value(layout, b, i)
  <2> TAKE i \in 1 .. n
  <2>1. layout[i].name \in Names(layout) /\ Field(layout, layout[i].name) = i
    BY <1>1, FieldIs
  <2> QED
    BY <2>1 DEF FieldsOf
<1>3. DecodeFields(layout, b) = IF \A i \in 1 .. n : Value(layout, b, i) \in layout[i].values
                                THEN {FieldsOf(layout, b)} ELSE {}
  BY <1>0 DEF DecodeFields, FieldsOf
<1> QED
  BY <1>2, <1>3

\* A payload that starts with the fields of m is read as m.
LEMMA DecodeEncoded ==
  ASSUME NEW layout, NEW n, WellLaid(layout, n), NEW m, Packable(layout, n, m),
         NEW b \in Seq(Octet), Starts(EncodeFields(layout, m), b)
  PROVE  DecodeFields(layout, b) = {[name \in Names(layout) |-> m[name]]}
<1>1. \A i \in 1 .. n : Value(layout, b, i) = m[layout[i].name]
  BY ReadBack
<1>2. \A i \in 1 .. n : m[layout[i].name] \in layout[i].values
  BY FitsMeans
<1>3. DecodeFields(layout, b) = {FieldsOf(layout, b)}
  BY <1>1, <1>2, Decoding
<1>4. \A name \in Names(layout) : Value(layout, b, Field(layout, name)) = m[name]
  <2> TAKE name \in Names(layout)
  <2>1. PICK i \in 1 .. n : name = layout[i].name
    BY DEF Names, WellLaid
  <2> QED
    BY <1>1, <2>1, FieldIs
<1>5. FieldsOf(layout, b) = [name \in Names(layout) |-> m[name]]
  BY <1>4, Zenon DEF FieldsOf
<1> QED
  BY <1>3, <1>5

\* The upper halves of the fields of 8 bytes are zero in b.
UpperZero(layout, n, b) ==
  \A i \in 1 .. n : layout[i].size = 8 => \A j \in 5 .. 8 : b[layout[i].at + j] = 0

\* A field is packed to the bytes it was read from.
LEMMA ValueBytes ==
  ASSUME NEW layout, NEW n, WellLaid(layout, n), NEW b \in Seq(Octet),
         Size(layout) <= Len(b), UpperZero(layout, n, b), NEW i \in 1 .. n
  PROVE  /\ Value(layout, b, i) \in Int
         /\ Value(layout, b, i) \div Top(layout[i].size) \in TopRange(layout[i].signed)
         /\ \A j \in 1 .. layout[i].size :
              Pack(Value(layout, b, i), layout[i].size)[j] = b[layout[i].at + j]
<1> DEFINE signed == layout[i].signed
<1>3. layout[i].size \in Sizes /\ signed \in BOOLEAN /\ ~(signed /\ layout[i].size = 8)
  BY DEF WellLaid
<1>4. PICK s : s = SubSeq(b, layout[i].at + 1, layout[i].at + layout[i].size)
  OBVIOUS
<1>5. Value(layout, b, i) = Unpack(s, signed)
  BY <1>4 DEF Value, End
<1>6. PICK a \in Nat : a = layout[i].at
  BY Within
<1>7. PICK k \in Nat : k = layout[i].size
  BY Within
<1>8. PICK z \in Nat : z = Len(b)
  BY LenIsNat
<1>9. PICK l \in Nat : l = Size(layout)
  BY Within
<1>10. a + k <= l /\ l <= z
  BY <1>6, <1>7, <1>8, <1>9, Within
<1>u. k = 8 => \A j \in 5 .. 8 : b[a + j] = 0
  BY <1>6, <1>7 DEF UpperZero
<1> HIDE DEF signed
<1>11. a + k <= Len(b)
  BY <1>8, <1>10
<1>s. s = SubSeq(b, a + 1, a + k)
  BY <1>4, <1>6, <1>7
<1>12. /\ s \in Seq(Octet) /\ Len(s) = k /\ \A j \in 1 .. k : s[j] = b[a + j]
  <2>1. SliceOf(s, b, a, k)
    BY <1>s, <1>11, SlicedAs
  <2> QED
    BY <2>1 DEF SliceOf
<1>13. \A j \in 5 .. Len(s) : s[j] = 0
  <2>1. k \in Sizes
    BY <1>3, <1>7
  <2>2. CASE k = 8
    <3>1. \A j \in 5 .. 8 : j \in 1 .. k /\ b[a + j] = 0
      BY <1>u, <2>2
    <3>2. \A j \in 5 .. 8 : s[j] = 0
      BY <1>12, <3>1, Zenon
    <3> QED
      BY <1>12, <2>2, <3>2, Zenon
  <2>3. CASE k # 8
    <3>1. k <= 4
      BY <2>1, <2>3 DEF Sizes
    <3> QED
      BY <1>12, <3>1
  <2> QED
    BY <2>2, <2>3
<1>14. /\ Unpack(s, signed) \in Int
       /\ Unpack(s, signed) \div Top(k) \in TopRange(signed)
       /\ Pack(Unpack(s, signed), k) = s
  BY <1>3, <1>7, <1>12, <1>13, PackUnpacked
<1> QED
  BY <1>5, <1>6, <1>7, <1>12, <1>14 DEF signed

\* What is read from b is packed to the same bytes.
LEMMA ReEncoded ==
  ASSUME NEW layout, NEW n, WellLaid(layout, n), NEW b \in Seq(Octet),
         Size(layout) <= Len(b), UpperZero(layout, n, b),
         NEW m, \A i \in 1 .. n : m[layout[i].name] = Value(layout, b, i)
  PROVE  /\ EncodeFields(layout, m) \in Seq(Octet)
         /\ Len(EncodeFields(layout, m)) = Size(layout)
         /\ Starts(EncodeFields(layout, m), b)
<1> DEFINE e == EncodeFields(layout, m)
<1>1. \A i \in 1 .. n : m[layout[i].name] \in Int
  BY ValueBytes
<1>2. Placed(layout, n, m, e)
  BY <1>1, Encoded
<1> HIDE DEF e
<1>3. PICK l \in Nat : l = Size(layout)
  BY Within
<1>4. e \in Seq(Octet) /\ Len(e) = l
  BY <1>2, <1>3 DEF Placed
<1>5. ASSUME NEW p \in 1 .. l
      PROVE  b[p] = e[p]
  <2>1. PICK i \in 1 .. n : layout[i].at < p /\ p <= End(layout, i)
    BY <1>2, <1>3 DEF Placed
  <2>2. PICK a \in Nat : a = layout[i].at
    BY Within
  <2>3. PICK k \in Nat : k = layout[i].size
    BY Within
  <2>4. a < p /\ p <= a + k
    BY <2>1, <2>2, <2>3 DEF End
  <2>5. PICK j \in 1 .. k : p = a + j
    <3>1. p - a \in 1 .. k /\ p = a + (p - a)
      BY <2>4
    <3> QED
      BY <3>1
  <2>6. e[a + j] = Pack(m[layout[i].name], k)[j]
    BY <1>2, <2>2, <2>3, <2>5 DEF Placed
  <2>7. Pack(m[layout[i].name], k)[j] = b[a + j]
    BY <2>2, <2>3, <2>5, ValueBytes
  <2> QED
    BY <2>5, <2>6, <2>7
<1> QED
  BY <1>3, <1>4, <1>5 DEF Starts, e

-----------------------------------------------------------------------------
(* Payloads of fields alone                                                *)

LEMMA StartsSame ==
  ASSUME NEW e \in Seq(Octet), NEW b \in Seq(Octet), Starts(e, b), Len(e) = Len(b)
  PROVE  e = b
BY SameSeq DEF Starts

LEMMA StartsItself ==
  ASSUME NEW b \in Seq(Octet)
  PROVE  Starts(b, b)
BY LenIsNat DEF Starts

\* What is read from b, with another field or without.
LEMMA Reread ==
  ASSUME NEW layout, NEW n, WellLaid(layout, n), NEW b \in Seq(Octet),
         Size(layout) <= Len(b), UpperZero(layout, n, b),
         NEW h \in DecodeFields(layout, b),
         NEW m, \A name \in Names(layout) : m[name] = h[name]
  PROVE  /\ EncodeFields(layout, m) \in Seq(Octet)
         /\ Len(EncodeFields(layout, m)) = Size(layout)
         /\ Starts(EncodeFields(layout, m), b)
<1>1. \A i \in 1 .. n : layout[i].name \in Names(layout)
  BY DEF Names, WellLaid
<1>2. \A i \in 1 .. n : m[layout[i].name] = Value(layout, b, i)
  BY <1>1, Decoding
<1> QED
  BY <1>2, ReEncoded

LEMMA HasPackable ==
  ASSUME NEW layout, NEW n, WellLaid(layout, n), NEW m, NEW others,
         HasFields(m, layout, others)
  PROVE  Packable(layout, n, m)
BY DEF HasFields, Packable, WellLaid

LEMMA WholeRoundTrip ==
  ASSUME NEW layout, NEW n, WellLaid(layout, n), NEW m, HasFields(m, layout, {})
  PROVE  /\ EncodeFields(layout, m) \in Seq(Octet)
         /\ Len(EncodeFields(layout, m)) = Size(layout)
         /\ DecodeWhole(layout, EncodeFields(layout, m)) = {m}
<1>1. Packable(layout, n, m)
  BY HasPackable
<1>2. PICK e \in Seq(Octet) : e = EncodeFields(layout, m) /\ Len(e) = Size(layout)
  BY <1>1, EncodedFits DEF Placed
<1>3. DecodeFields(layout, e) = {[name \in Names(layout) |-> m[name]]}
  BY <1>1, <1>2, DecodeEncoded, StartsItself
<1>4. m = [name \in Names(layout) |-> m[name]]
  <2>1. Names(layout) \cup {} = Names(layout)
    OBVIOUS
  <2> QED
    BY <2>1 DEF HasFields
<1>5. DecodeFields(layout, e) = {m}
  BY <1>3, <1>4
<1> QED
  BY <1>2, <1>5 DEF DecodeWhole, Exactly

LEMMA WholeCanonical ==
  ASSUME NEW layout, NEW n, WellLaid(layout, n), NEW b \in Seq(Octet),
         UpperZero(layout, n, b), NEW m \in DecodeWhole(layout, b)
  PROVE  EncodeFields(layout, m) = b
<1>1. Len(b) = Size(layout) /\ m \in DecodeFields(layout, b)
  BY DEF DecodeWhole, Exactly
<1>2. Size(layout) <= Len(b)
  BY <1>1, Within
<1> QED
  BY <1>1, <1>2, Reread, StartsSame

LEMMA WholeLen ==
  ASSUME NEW layout, NEW b, DecodeWhole(layout, b) # {}
  PROVE  Len(b) = Size(layout)
BY DEF DecodeWhole, Exactly

\* No field of these layouts has 8 bytes.
Narrow(layout, n) == \A i \in 1 .. n : layout[i].size # 8

LEMMA NarrowLayouts ==
  /\ Narrow(LoRaConfig, 10) /\ Narrow(LrFhssConfig, 7) /\ Narrow(FlrcConfig, 7)
  /\ Narrow(FskFields, 6) /\ Narrow(ResultHeader, 2) /\ Narrow(TxDone, 2)
  /\ Narrow(ErrPayload, 1)
<1>1. Narrow(LoRaConfig, 10)
  BY DEF Narrow, LoRaConfig, U, S, E, Flag, FieldAt
<1>2. Narrow(LrFhssConfig, 7)
  BY DEF Narrow, LrFhssConfig, U, S, E, Flag, FieldAt
<1>3. Narrow(FlrcConfig, 7)
  BY DEF Narrow, FlrcConfig, U, S, E, Flag, FieldAt
<1>4. Narrow(FskFields, 6)
  BY DEF Narrow, FskFields, U, S, E, Flag, FieldAt
<1>5. Narrow(ResultHeader, 2)
  BY DEF Narrow, ResultHeader, U, S, E, Flag, FieldAt
<1>6. Narrow(TxDone, 2)
  BY DEF Narrow, TxDone, U, S, E, Flag, FieldAt
<1>7. Narrow(ErrPayload, 1)
  BY DEF Narrow, ErrPayload, U, S, E, Flag, FieldAt
<1> QED
  BY <1>1, <1>2, <1>3, <1>4, <1>5, <1>6, <1>7

LEMMA NarrowUpper ==
  ASSUME NEW layout, NEW n, Narrow(layout, n), NEW b
  PROVE  UpperZero(layout, n, b)
BY DEF Narrow, UpperZero

-----------------------------------------------------------------------------
(* Fields with bytes behind them                                           *)

\* A message is put together again from its fields and the rest.
LEMMA WithBack ==
  ASSUME NEW N, NEW name, NEW m, m = [x \in N \cup {name} |-> m[x]]
  PROVE  With([x \in N |-> m[x]], name, m[name]) = m
BY DEF With

LEMMA WithIs ==
  ASSUME NEW m, NEW name, NEW v
  PROVE  /\ With(m, name, v)[name] = v
         /\ \A x \in DOMAIN m : x # name => With(m, name, v)[x] = m[x]
         /\ DOMAIN With(m, name, v) = DOMAIN m \cup {name}
BY DEF With

LEMMA Joined ==
  ASSUME NEW e \in Seq(Octet), NEW t \in Seq(Octet)
  PROVE  /\ e \o t \in Seq(Octet) /\ Len(e \o t) = Len(e) + Len(t)
         /\ \A i \in 1 .. Len(e) : (e \o t)[i] = e[i]
         /\ \A i \in 1 .. Len(t) : (e \o t)[Len(e) + i] = t[i]
OBVIOUS

LEMMA Rest ==
  ASSUME NEW e \in Seq(Octet), NEW t \in Seq(Octet)
  PROVE  /\ e \o t \in Seq(Octet) /\ Len(e \o t) = Len(e) + Len(t) /\ Starts(e, e \o t)
         /\ SubSeq(e \o t, Len(e) + 1, Len(e) + Len(t)) = t
<1> DEFINE b == e \o t
<1>l. PICK l \in Nat : Len(e) = l
  BY LenIsNat
<1>k. PICK k \in Nat : Len(t) = k
  BY LenIsNat
<1>1. /\ b \in Seq(Octet) /\ Len(b) = l + k
      /\ \A i \in 1 .. l : b[i] = e[i]
      /\ \A i \in 1 .. k : b[l + i] = t[i]
  <2>1. /\ e \o t \in Seq(Octet) /\ Len(e \o t) = Len(e) + Len(t)
        /\ \A i \in 1 .. Len(e) : (e \o t)[i] = e[i]
        /\ \A i \in 1 .. Len(t) : (e \o t)[Len(e) + i] = t[i]
    BY Joined, Zenon
  <2> QED
    BY <1>l, <1>k, <2>1
<1> HIDE DEF b
<1>2. Starts(e, b)
  BY <1>l, <1>1 DEF Starts
<1>3. PICK s : s = SubSeq(b, l + 1, l + k)
  OBVIOUS
<1>4. s \in Seq(Octet) /\ Len(s) = k /\ \A j \in 1 .. k : s[j] = b[l + j]
  <2>1. b \in Seq(Octet) /\ l + k <= Len(b)
    BY <1>l, <1>k, <1>1
  <2>2. SliceOf(s, b, l, k)
    BY <1>l, <1>k, <1>3, <2>1, SlicedAs
  <2> QED
    BY <2>2 DEF SliceOf
<1>5. s = t
  BY <1>k, <1>1, <1>4, SameSeq
<1> QED
  BY <1>l, <1>k, <1>1, <1>2, <1>3, <1>5 DEF b

LEMMA Glue ==
  ASSUME NEW e \in Seq(Octet), NEW b \in Seq(Octet), Starts(e, b)
  PROVE  /\ SubSeq(b, Len(e) + 1, Len(b)) \in Seq(Octet)
         /\ Len(SubSeq(b, Len(e) + 1, Len(b))) = Len(b) - Len(e)
         /\ e \o SubSeq(b, Len(e) + 1, Len(b)) = b
<1>l. PICK l \in Nat : Len(e) = l
  BY LenIsNat
<1>z. PICK z \in Nat : Len(b) = z
  BY LenIsNat
<1>t. PICK t : t = SubSeq(b, l + 1, z)
  OBVIOUS
<1>1. l <= z /\ \A p \in 1 .. l : b[p] = e[p]
  BY <1>l, <1>z DEF Starts
<1>2. PICK k \in Nat : z = l + k
  <2>1. z - l \in Nat /\ z = l + (z - l)
    BY <1>l, <1>z, <1>1
  <2> QED
    BY <2>1
<1>3. t \in Seq(Octet) /\ Len(t) = k /\ \A j \in 1 .. k : t[j] = b[l + j]
  <2>1. t = SubSeq(b, l + 1, l + k) /\ l + k <= Len(b)
    BY <1>z, <1>t, <1>2
  <2>2. SliceOf(t, b, l, k)
    BY <1>l, <1>2, <2>1, SlicedAs
  <2> QED
    BY <2>2 DEF SliceOf
<1>4. PICK g : g = e \o t
  OBVIOUS
<1>5. /\ g \in Seq(Octet) /\ Len(g) = l + k
      /\ \A i \in 1 .. l : g[i] = e[i]
      /\ \A i \in 1 .. k : g[l + i] = t[i]
  <2>1. /\ e \o t \in Seq(Octet) /\ Len(e \o t) = Len(e) + Len(t)
        /\ \A i \in 1 .. Len(e) : (e \o t)[i] = e[i]
        /\ \A i \in 1 .. Len(t) : (e \o t)[Len(e) + i] = t[i]
    BY <1>3, Joined, Zenon
  <2> QED
    BY <1>l, <1>3, <1>4, <2>1
<1>6. \A p \in 1 .. z : g[p] = b[p]
  <2> TAKE p \in 1 .. z
  <2>1. CASE p \in 1 .. l
    BY <1>1, <1>5, <2>1
  <2>2. CASE ~(p \in 1 .. l)
    <3>1. p - l \in 1 .. k /\ l + (p - l) = p
      BY <1>l, <1>z, <1>2, <2>2
    <3>2. PICK j \in 1 .. k : l + j = p
      BY <3>1
    <3>3. g[l + j] = t[j] /\ t[j] = b[l + j]
      BY <1>3, <1>5
    <3> QED
      BY <3>2, <3>3
  <2> QED
    BY <2>1, <2>2
<1>7. Len(g) = z
  BY <1>z, <1>2, <1>5
<1>8. g = b
  BY <1>z, <1>5, <1>6, <1>7, SameSeq
<1>9. k = z - l
  BY <1>l, <1>z, <1>2
<1> QED
  BY <1>l, <1>z, <1>t, <1>3, <1>4, <1>8, <1>9

\* A payload that starts as b does has the same fields.
LEMMA StartsOn ==
  ASSUME NEW e, NEW b, NEW c, Starts(e, b), Starts(c, b),
         NEW l \in Nat, Len(e) = l, NEW z \in Nat, Len(c) = z, l <= z
  PROVE  Starts(e, c)
BY DEF Starts

-----------------------------------------------------------------------------
(* FSK                                                                     *)

LEMMA FskNames == "sync_len" \in Names(FskFields) /\ "sync_word" \notin Names(FskFields)
BY DEF FskFields, Names, U, S, E, Flag, FieldAt

\* The fields of an FSK configuration, and the payload they start.
LEMMA FskEncoded ==
  ASSUME NEW m, IsFsk(m), NEW b \in Seq(Octet), Starts(EncodeFields(FskFields, m), b)
  PROVE  DecodeFields(FskFields, b) = {[name \in Names(FskFields) |-> m[name]]}
<1>1. Packable(FskFields, 6, m)
  BY FskLaid, HasPackable DEF IsFsk
<1> QED
  BY <1>1, FskLaid, DecodeEncoded

LEMMA FskShape ==
  ASSUME NEW m, IsFsk(m)
  PROVE  /\ EncodeFields(FskFields, m) \in Seq(Octet)
         /\ Len(EncodeFields(FskFields, m)) = 16
         /\ m.sync_word \in Seq(Octet) /\ m.sync_len \in Nat
         /\ Len(m.sync_word) = m.sync_len
         /\ EncodeFsk(m) \in Seq(Octet) /\ Len(EncodeFsk(m)) = 16 + m.sync_len
         /\ Starts(EncodeFields(FskFields, m), EncodeFsk(m))
         /\ SubSeq(EncodeFsk(m), 17, 16 + m.sync_len) = m.sync_word
<1>1. Packable(FskFields, 6, m)
  BY FskLaid, HasPackable DEF IsFsk
<1>2. PICK e \in Seq(Octet) : e = EncodeFields(FskFields, m) /\ Len(e) = 16
  <2>1. WellLaid(FskFields, 6) /\ Size(FskFields) = 16
    BY FskLaid
  <2>2. Placed(FskFields, 6, m, EncodeFields(FskFields, m))
    BY <1>1, <2>1, EncodedFits
  <2> QED
    <3>1. /\ EncodeFields(FskFields, m) \in Seq(Octet)
          /\ Len(EncodeFields(FskFields, m)) = Size(FskFields)
      BY <2>2 DEF Placed
    <3> QED
      BY <2>1, <3>1
<1>3. PICK t \in Seq(Octet) : t = m.sync_word
  BY DEF IsFsk
<1>4. PICK k \in Nat : k = Len(t)
  BY LenIsNat
<1>5. k = m.sync_len
  BY <1>3, <1>4 DEF IsFsk
<1>6. EncodeFsk(m) = e \o t
  BY <1>2, <1>3 DEF EncodeFsk
<1>7. /\ e \o t \in Seq(Octet) /\ Len(e \o t) = 16 + k /\ Starts(e, e \o t)
      /\ SubSeq(e \o t, 17, 16 + k) = t
  <2>1. /\ e \o t \in Seq(Octet) /\ Len(e \o t) = Len(e) + Len(t) /\ Starts(e, e \o t)
        /\ SubSeq(e \o t, Len(e) + 1, Len(e) + Len(t)) = t
    BY <1>2, <1>3, Rest, Zenon
  <2>2. Len(e) + 1 = 17 /\ Len(e) + Len(t) = 16 + k
    BY <1>2, <1>4
  <2> QED
    BY <2>1, <2>2, Zenon
<1> QED
  BY <1>2, <1>3, <1>4, <1>5, <1>6, <1>7, Zenon

LEMMA FskRoundTrip ==
  ASSUME NEW m, IsFsk(m)
  PROVE  DecodeFsk(EncodeFsk(m)) = {m}
<1>1. PICK b \in Seq(Octet) :
        /\ b = EncodeFsk(m) /\ Len(b) = 16 + m.sync_len
        /\ Starts(EncodeFields(FskFields, m), b) /\ SubSeq(b, 17, Len(b)) = m.sync_word
  BY FskShape
<1>2. PICK d : d = [name \in Names(FskFields) |-> m[name]]
  OBVIOUS
<1>3. DecodeFields(FskFields, b) = {d}
  BY <1>1, <1>2, FskEncoded
<1>4. d.sync_len = m.sync_len
  BY <1>2, FskNames
<1>5. ~(Len(b) < 16)
  BY <1>1, FskShape
<1>6. m = [name \in Names(FskFields) \cup {"sync_word"} |-> m[name]]
  BY DEF IsFsk, HasFields
<1>7. With(d, "sync_word", m.sync_word) = m
  BY <1>2, <1>6 DEF With
<1>8. DecodeFsk(b) = {With(x, "sync_word", SubSeq(b, 17, Len(b))) :
                        x \in {y \in {d} : Len(b) = 16 + y.sync_len}}
  BY <1>3, <1>5, Zenon DEF DecodeFsk
<1>9. {y \in {d} : Len(b) = 16 + y.sync_len} = {d}
  BY <1>1, <1>4, Zenon
<1>10. DecodeFsk(b) = {With(d, "sync_word", m.sync_word)}
  BY <1>1, <1>8, <1>9, Zenon
<1> QED
  BY <1>1, <1>7, <1>10, Zenon

\* What is read from b: its fields, and a sync word as long as they say.
LEMMA FskDecoded ==
  ASSUME NEW b, NEW m \in DecodeFsk(b)
  PROVE  /\ ~(Len(b) < 16)
         /\ \E d \in DecodeFields(FskFields, b) :
              Len(b) = 16 + d.sync_len /\ m = With(d, "sync_word", SubSeq(b, 17, Len(b)))
BY DEF DecodeFsk

LEMMA FskCanonical ==
  ASSUME NEW b \in Seq(Octet), NEW m \in DecodeFsk(b)
  PROVE  EncodeFsk(m) = b
<1>1. PICK z \in Nat : z = Len(b)
  BY LenIsNat
<1>2. 16 <= z
  BY <1>1, FskDecoded
<1>3. PICK d \in DecodeFields(FskFields, b) : m = With(d, "sync_word", SubSeq(b, 17, Len(b)))
  BY FskDecoded
<1>4. \A name \in Names(FskFields) : m[name] = d[name]
  <2>1. d = FieldsOf(FskFields, b)
    BY FskLaid, Decoding
  <2>2. DOMAIN d = Names(FskFields)
    BY <2>1 DEF FieldsOf
  <2> QED
    BY <1>3, <2>2, FskNames DEF With
<1>5. UpperZero(FskFields, 6, b)
  BY NarrowLayouts, NarrowUpper
<1>6. Size(FskFields) <= Len(b)
  BY <1>1, <1>2, FskLaid
<1>7. PICK e \in Seq(Octet) : e = EncodeFields(FskFields, m) /\ Len(e) = 16 /\ Starts(e, b)
  BY <1>4, <1>5, <1>6, FskLaid, Reread
<1>8. PICK t : t = SubSeq(b, 16 + 1, z)
  OBVIOUS
<1>9. m.sync_word = t
  BY <1>1, <1>3, <1>8 DEF With
<1>10. e \o t = b
  <2>1. e \o SubSeq(b, Len(e) + 1, Len(b)) = b
    BY <1>7, Glue, Zenon
  <2>2. t = SubSeq(b, Len(e) + 1, Len(b))
    BY <1>1, <1>7, <1>8
  <2> QED
    BY <2>1, <2>2, Zenon
<1> QED
  BY <1>7, <1>9, <1>10 DEF EncodeFsk

LEMMA FskLen ==
  ASSUME NEW b \in Seq(Octet), DecodeFsk(b) # {}
  PROVE  16 <= Len(b) /\ Len(b) <= 24
<1>1. PICK z \in Nat : z = Len(b)
  BY LenIsNat
<1>2. 16 <= z
  BY <1>1, FskDecoded
<1>3. PICK d \in DecodeFields(FskFields, b) : z = 16 + d.sync_len
  BY <1>1, FskDecoded
<1>4. d.sync_len \in 0 .. 8
  <2>1. FskFields[6].name = "sync_len" /\ FskFields[6].values = 0 .. 8
    BY DEF FskFields, U, S, E, Flag, FieldAt
  <2>2. d[FskFields[6].name] \in FskFields[6].values
    BY FskLaid, Decoding
  <2> QED
    BY <2>1, <2>2
<1> QED
  BY <1>1, <1>2, <1>3, <1>4

LEMMA FskCut ==
  ASSUME NEW m, IsFsk(m), NEW b \in Seq(Octet), Starts(b, EncodeFsk(m)),
         Len(b) < Len(EncodeFsk(m))
  PROVE  DecodeFsk(b) = {}
<1> SUFFICES ASSUME DecodeFsk(b) # {}
             PROVE  FALSE
  OBVIOUS
<1>1. PICK z \in Nat : z = Len(b)
  BY LenIsNat
<1>2. 16 <= z
  BY <1>1, FskDecoded
<1>3. PICK d \in DecodeFields(FskFields, b) : z = 16 + d.sync_len
  BY <1>1, FskDecoded
<1>4. Starts(EncodeFields(FskFields, m), b)
  <2>1. /\ Starts(EncodeFields(FskFields, m), EncodeFsk(m))
        /\ Len(EncodeFields(FskFields, m)) = 16 /\ 16 \in Nat
    BY FskShape
  <2> QED
    BY <1>1, <1>2, <2>1, StartsOn
<1>5. d = [name \in Names(FskFields) |-> m[name]]
  BY <1>3, <1>4, FskEncoded
<1>6. d.sync_len = m.sync_len
  BY <1>5, FskNames
<1> QED
  BY <1>1, <1>3, <1>6, FskShape

-----------------------------------------------------------------------------
(* Modulations                                                             *)

\* The parameters of a modulation, both ways.
EncodeParams(id, p) == IF id = 2 THEN EncodeFsk(p) ELSE EncodeFields(Modulations[id], p)
DecodeParams(id, b) == IF id = 2 THEN DecodeFsk(b) ELSE DecodeWhole(Modulations[id], b)
IsParams(id, p) ==
  \/ id = 2 /\ IsFsk(p)
  \/ id \in {1, 3, 4} /\ HasFields(p, Modulations[id], {})

LEMMA ModulationIs ==
  Modulations[1] = LoRaConfig /\ Modulations[3] = LrFhssConfig /\ Modulations[4] = FlrcConfig
BY DEF Modulations

\* The layouts that are read as a whole: no half of a field is left out, and none
\* is longer than FSK with its longest sync word.
LEMMA ModulationLaid ==
  ASSUME NEW id \in {1, 3, 4}
  PROVE  \E n : /\ WellLaid(Modulations[id], n) /\ Narrow(Modulations[id], n)
                /\ Size(Modulations[id]) \in 1 .. 24
<1>1. CASE id = 1
  BY <1>1, ModulationIs, LoRaLaid, NarrowLayouts
<1>2. CASE id = 3
  BY <1>2, ModulationIs, LrFhssLaid, NarrowLayouts
<1>3. CASE id = 4
  BY <1>3, ModulationIs, FlrcLaid, NarrowLayouts
<1> QED
  BY <1>1, <1>2, <1>3

LEMMA ParamsRoundTrip ==
  ASSUME NEW id, NEW p, IsParams(id, p)
  PROVE  EncodeParams(id, p) \in Seq(Octet) /\ DecodeParams(id, EncodeParams(id, p)) = {p}
<1>1. CASE id = 2
  <2>1. IsFsk(p)
    BY <1>1 DEF IsParams
  <2> QED
    BY <1>1, <2>1, FskShape, FskRoundTrip DEF EncodeParams, DecodeParams
<1>2. CASE id # 2
  <2>1. id \in {1, 3, 4} /\ HasFields(p, Modulations[id], {})
    BY <1>2 DEF IsParams
  <2>2. PICK n : WellLaid(Modulations[id], n)
    BY <2>1, ModulationLaid
  <2> QED
    BY <1>2, <2>1, <2>2, WholeRoundTrip DEF EncodeParams, DecodeParams
<1> QED
  BY <1>1, <1>2

LEMMA ParamsCanonical ==
  ASSUME NEW id \in 1 .. 4, NEW b \in Seq(Octet), NEW p \in DecodeParams(id, b)
  PROVE  EncodeParams(id, p) = b
<1>1. CASE id = 2
  BY <1>1, FskCanonical DEF EncodeParams, DecodeParams
<1>2. CASE id # 2
  <2>1. id \in {1, 3, 4} /\ p \in DecodeWhole(Modulations[id], b)
    BY <1>2 DEF DecodeParams
  <2>2. PICK n : WellLaid(Modulations[id], n) /\ Narrow(Modulations[id], n)
    BY <2>1, ModulationLaid
  <2>3. UpperZero(Modulations[id], n, b)
    BY <2>2, NarrowUpper
  <2>4. EncodeFields(Modulations[id], p) = b
    BY <2>1, <2>2, <2>3, WholeCanonical
  <2> QED
    BY <1>2, <2>4 DEF EncodeParams
<1> QED
  BY <1>1, <1>2

LEMMA SomeRanges ==
  ASSUME NEW k \in Nat
  PROVE  /\ 16 <= k /\ k <= 24 => k \in 1 .. 24
         /\ k \in 1 .. 24 => 2 <= k + 1 /\ k + 1 <= 25
OBVIOUS

LEMMA ParamsLen ==
  ASSUME NEW id \in 1 .. 4, NEW b \in Seq(Octet), DecodeParams(id, b) # {}
  PROVE  Len(b) \in 1 .. 24
<1>1. CASE id = 2
  <2>1. 16 <= Len(b) /\ Len(b) <= 24
    BY <1>1, FskLen DEF DecodeParams
  <2>2. PICK k \in Nat : k = Len(b)
    BY LenIsNat, Zenon
  <2>3. 16 <= k /\ k <= 24
    BY <2>1, <2>2, Zenon
  <2>4. k \in 1 .. 24
    BY <2>2, <2>3, SomeRanges, Zenon
  <2> QED
    BY <2>2, <2>4, Zenon
<1>2. CASE id # 2
  <2>1. id \in {1, 3, 4} /\ DecodeWhole(Modulations[id], b) # {}
    BY <1>2 DEF DecodeParams
  <2>2. Len(b) = Size(Modulations[id])
    BY <2>1, WholeLen
  <2>3. Size(Modulations[id]) \in 1 .. 24
    BY <2>1, ModulationLaid
  <2> QED
    BY <2>2, <2>3, Zenon
<1> QED
  BY <1>1, <1>2

LEMMA ParamsCut ==
  ASSUME NEW id, NEW p, IsParams(id, p), NEW b \in Seq(Octet),
         Starts(b, EncodeParams(id, p)), Len(b) < Len(EncodeParams(id, p))
  PROVE  DecodeParams(id, b) = {}
<1>1. CASE id = 2
  <2>1. IsFsk(p)
    BY <1>1 DEF IsParams
  <2> QED
    BY <1>1, <2>1, FskCut DEF EncodeParams, DecodeParams
<1>2. CASE id # 2
  <2>1. id \in {1, 3, 4} /\ HasFields(p, Modulations[id], {})
    BY <1>2 DEF IsParams
  <2>2. PICK n : WellLaid(Modulations[id], n)
    BY <2>1, ModulationLaid
  <2>3. Len(EncodeFields(Modulations[id], p)) = Size(Modulations[id])
    BY <2>1, <2>2, WholeRoundTrip
  <2>4. Len(b) < Size(Modulations[id])
    BY <1>2, <2>3 DEF EncodeParams
  <2>5. Size(Modulations[id]) \in Nat
    BY <2>2, Within
  <2>6. Len(b) # Size(Modulations[id])
    BY <2>4, <2>5, LenIsNat
  <2> QED
    BY <1>2, <2>6, WholeLen DEF DecodeParams
<1> QED
  BY <1>1, <1>2

LEMMA Headed ==
  ASSUME NEW x \in Octet, NEW s \in Seq(Octet)
  PROVE  /\ <<x>> \o s \in Seq(Octet) /\ Len(<<x>> \o s) = 1 + Len(s)
         /\ <<x>> \o s # <<>> /\ (<<x>> \o s)[1] = x /\ Tail(<<x>> \o s) = s
OBVIOUS

LEMMA Beheaded ==
  ASSUME NEW b \in Seq(Octet), b # <<>>
  PROVE  /\ b[1] \in Octet /\ Tail(b) \in Seq(Octet) /\ Len(Tail(b)) + 1 = Len(b)
         /\ <<b[1]>> \o Tail(b) = b
OBVIOUS

LEMMA StartsTail ==
  ASSUME NEW e \in Seq(Octet), e # <<>>, NEW b \in Seq(Octet), Starts(e, b)
  PROVE  b[1] = e[1] /\ Starts(Tail(e), Tail(b))
BY DEF Starts

LEMMA IsModulationMeans ==
  ASSUME NEW mod, IsModulation(mod)
  PROVE  /\ mod.id \in 1 .. 4 /\ IsParams(mod.id, mod.params)
         /\ mod = [id |-> mod.id, params |-> mod.params]
<1>1. DOMAIN Modulations = {1, 3, 4}
  BY DEF Modulations
<1> QED
  BY <1>1 DEF IsModulation, IsParams

LEMMA ModulationCode ==
  /\ \A mod : encode_modulation(mod) = <<mod.id>> \o EncodeParams(mod.id, mod.params)
  /\ \A b : decode_modulation(b) =
              IF b = <<>> \/ b[1] \notin 1 .. 4 THEN {}
              ELSE {[id |-> b[1], params |-> p] : p \in DecodeParams(b[1], Tail(b))}
BY Zenon DEF encode_modulation, decode_modulation, EncodeParams, DecodeParams

LEMMA ModulationEncoded ==
  ASSUME NEW mod, IsModulation(mod)
  PROVE  /\ encode_modulation(mod) \in Seq(Octet) /\ encode_modulation(mod) # <<>>
         /\ encode_modulation(mod)[1] = mod.id
         /\ Tail(encode_modulation(mod)) = EncodeParams(mod.id, mod.params)
<1>1. mod.id \in Octet
  BY IsModulationMeans DEF Octet
<1>2. EncodeParams(mod.id, mod.params) \in Seq(Octet)
  BY IsModulationMeans, ParamsRoundTrip
<1> QED
  BY <1>1, <1>2, ModulationCode, Headed

LEMMA ModulationRoundTrip ==
  ASSUME NEW mod, IsModulation(mod)
  PROVE  decode_modulation(encode_modulation(mod)) = {mod}
<1>1. PICK b : b = encode_modulation(mod)
  OBVIOUS
<1>2. b # <<>> /\ b[1] = mod.id /\ mod.id \in 1 .. 4
  BY <1>1, ModulationEncoded, IsModulationMeans
<1>3. DecodeParams(b[1], Tail(b)) = {mod.params}
  BY <1>1, ModulationEncoded, IsModulationMeans, ParamsRoundTrip
<1>4. decode_modulation(b) = {[id |-> mod.id, params |-> p] : p \in {mod.params}}
  BY <1>2, <1>3, ModulationCode
<1>5. {[id |-> mod.id, params |-> p] : p \in {mod.params}} = {mod}
  BY IsModulationMeans, Zenon
<1> QED
  BY <1>1, <1>4, <1>5

LEMMA ModulationDecoded ==
  ASSUME NEW b, NEW mod \in decode_modulation(b)
  PROVE  /\ b # <<>> /\ b[1] \in 1 .. 4 /\ mod.id = b[1]
         /\ mod.params \in DecodeParams(b[1], Tail(b))
<1>1. b # <<>> /\ b[1] \in 1 .. 4
  BY ModulationCode, Zenon
<1>2. mod \in {[id |-> b[1], params |-> p] : p \in DecodeParams(b[1], Tail(b))}
  BY <1>1, ModulationCode
<1> QED
  BY <1>1, <1>2

LEMMA ModulationCanonical ==
  ASSUME NEW b \in Seq(Octet), NEW mod \in decode_modulation(b)
  PROVE  encode_modulation(mod) = b
<1>1. b # <<>> /\ mod.id = b[1] /\ b[1] \in 1 .. 4
  BY ModulationDecoded
<1>2. Tail(b) \in Seq(Octet) /\ <<b[1]>> \o Tail(b) = b
  BY <1>1, Beheaded
<1>3. EncodeParams(b[1], mod.params) = Tail(b)
  BY <1>1, <1>2, ModulationDecoded, ParamsCanonical
<1> QED
  BY <1>1, <1>2, <1>3, ModulationCode

LEMMA ModulationLen ==
  ASSUME NEW b \in Seq(Octet), decode_modulation(b) # {}
  PROVE  2 <= Len(b) /\ Len(b) <= 25
<1>1. b # <<>> /\ b[1] \in 1 .. 4 /\ DecodeParams(b[1], Tail(b)) # {}
  BY ModulationDecoded
<1>2. Tail(b) \in Seq(Octet) /\ Len(Tail(b)) + 1 = Len(b)
  BY <1>1, Beheaded
<1>3. PICK k \in Nat : k = Len(Tail(b))
  BY <1>2, LenIsNat, Zenon
<1>4. k + 1 = Len(b) /\ k \in 1 .. 24
  BY <1>1, <1>2, <1>3, ParamsLen, Zenon
<1>5. 2 <= k + 1 /\ k + 1 <= 25
  BY <1>3, <1>4, SomeRanges, Zenon
<1> QED
  BY <1>4, <1>5, Zenon

LEMMA ModulationCut ==
  ASSUME NEW mod, IsModulation(mod), NEW b \in Seq(Octet),
         Starts(b, encode_modulation(mod)), Len(b) < Len(encode_modulation(mod))
  PROVE  decode_modulation(b) = {}
<1>1. CASE b = <<>>
  BY <1>1, ModulationCode
<1>2. CASE b # <<>>
  <2>1. PICK c \in Seq(Octet) :
          /\ c = encode_modulation(mod) /\ c # <<>> /\ c[1] = mod.id
          /\ Tail(c) = EncodeParams(mod.id, mod.params)
    BY ModulationEncoded
  <2>2. c[1] = b[1] /\ Starts(Tail(b), Tail(c))
    BY <1>2, <2>1, StartsTail
  <2>3. Tail(b) \in Seq(Octet) /\ Len(Tail(b)) + 1 = Len(b)
    BY <1>2, Beheaded
  <2>4. Tail(c) \in Seq(Octet) /\ Len(Tail(c)) + 1 = Len(c)
    BY <2>1, Beheaded
  <2>5. Len(Tail(b)) < Len(Tail(c))
    <3>1. PICK k \in Nat : k = Len(Tail(b))
      BY <2>3, LenIsNat, Zenon
    <3>2. PICK l \in Nat : l = Len(Tail(c))
      BY <2>4, LenIsNat, Zenon
    <3>3. Len(b) < Len(c)
      BY <2>1
    <3> QED
      BY <2>3, <2>4, <3>1, <3>2, <3>3
  <2>6. DecodeParams(mod.id, Tail(b)) = {}
    BY <2>1, <2>2, <2>3, <2>5, IsModulationMeans, ParamsCut
  <2> QED
    BY <2>1, <2>2, <2>6, ModulationDecoded
<1> QED
  BY <1>1, <1>2

-----------------------------------------------------------------------------
(* A header and what follows it                                            *)

LEMMA HeadEncoded ==
  ASSUME NEW layout, NEW n, WellLaid(layout, n), NEW m, NEW others,
         HasFields(m, layout, others)
  PROVE  /\ EncodeFields(layout, m) \in Seq(Octet)
         /\ Len(EncodeFields(layout, m)) = Size(layout)
         /\ \A b \in Seq(Octet) :
              Starts(EncodeFields(layout, m), b)
                => DecodeFields(layout, b) = {[name \in Names(layout) |-> m[name]]}
<1>1. Packable(layout, n, m)
  BY HasPackable
<1>2. Placed(layout, n, m, EncodeFields(layout, m))
  BY <1>1, EncodedFits
<1>3. \A b \in Seq(Octet) :
        Starts(EncodeFields(layout, m), b)
          => DecodeFields(layout, b) = {[name \in Names(layout) |-> m[name]]}
  BY <1>1, DecodeEncoded
<1> QED
  BY <1>2, <1>3 DEF Placed

\* What is read from b, and one more thing that was read.
LEMMA HeadReread ==
  ASSUME NEW layout, NEW n, WellLaid(layout, n), NEW b \in Seq(Octet),
         Size(layout) <= Len(b), UpperZero(layout, n, b),
         NEW h \in DecodeFields(layout, b), NEW m, NEW others,
         others \cap Names(layout) = {},
         \A name : name \notin others /\ name \in DOMAIN h => m[name] = h[name]
  PROVE  /\ EncodeFields(layout, m) \in Seq(Octet)
         /\ Len(EncodeFields(layout, m)) = Size(layout)
         /\ Starts(EncodeFields(layout, m), b)
<1>1. h = FieldsOf(layout, b)
  BY Decoding
<1>2. DOMAIN h = Names(layout)
  BY <1>1 DEF FieldsOf
<1>3. \A name \in Names(layout) : m[name] = h[name]
  BY <1>2
<1> QED
  BY <1>3, Reread

-----------------------------------------------------------------------------
(* The result of SET_CONFIG                                                *)

LEMMA ResultNames == "current" \notin Names(ResultHeader)
BY DEF ResultHeader, Names, U, S, E, Flag, FieldAt

LEMMA ResultShape ==
  ASSUME NEW m, IsSetConfigResult(m)
  PROVE  \E e \in Seq(Octet), t \in Seq(Octet) :
           /\ e = EncodeFields(ResultHeader, m) /\ Len(e) = 2
           /\ t = encode_modulation(m.current)
           /\ EncodeSetConfigResult(m) = e \o t
           /\ \A b \in Seq(Octet) :
                Starts(e, b) => DecodeFields(ResultHeader, b)
                                  = {[name \in Names(ResultHeader) |-> m[name]]}
<1>1. HasFields(m, ResultHeader, {"current"}) /\ IsModulation(m.current)
  BY DEF IsSetConfigResult
<1>2. PICK e \in Seq(Octet) :
        /\ e = EncodeFields(ResultHeader, m) /\ Len(e) = 2
        /\ \A b \in Seq(Octet) :
             Starts(e, b) => DecodeFields(ResultHeader, b)
                               = {[name \in Names(ResultHeader) |-> m[name]]}
  <2>1. WellLaid(ResultHeader, 2) /\ Size(ResultHeader) = 2
    BY ResultLaid
  <2>2. /\ EncodeFields(ResultHeader, m) \in Seq(Octet)
        /\ Len(EncodeFields(ResultHeader, m)) = Size(ResultHeader)
        /\ \A b \in Seq(Octet) :
             Starts(EncodeFields(ResultHeader, m), b)
               => DecodeFields(ResultHeader, b) = {[name \in Names(ResultHeader) |-> m[name]]}
    BY <1>1, <2>1, HeadEncoded, Zenon
  <2> QED
    BY <2>1, <2>2, Zenon
<1>3. PICK t \in Seq(Octet) : t = encode_modulation(m.current)
  BY <1>1, ModulationEncoded
<1> QED
  BY <1>2, <1>3 DEF EncodeSetConfigResult

LEMMA ResultRoundTrip ==
  ASSUME NEW m, IsSetConfigResult(m)
  PROVE  /\ EncodeSetConfigResult(m) \in Seq(Octet)
         /\ DecodeSetConfigResult(EncodeSetConfigResult(m)) = {m}
<1>1. PICK e \in Seq(Octet), t \in Seq(Octet) :
        /\ e = EncodeFields(ResultHeader, m) /\ Len(e) = 2
        /\ t = encode_modulation(m.current)
        /\ EncodeSetConfigResult(m) = e \o t
        /\ \A b \in Seq(Octet) :
             Starts(e, b) => DecodeFields(ResultHeader, b)
                               = {[name \in Names(ResultHeader) |-> m[name]]}
  BY ResultShape, Zenon
<1>2. /\ e \o t \in Seq(Octet) /\ Len(e \o t) = Len(e) + Len(t) /\ Starts(e, e \o t)
      /\ SubSeq(e \o t, Len(e) + 1, Len(e) + Len(t)) = t
  BY Rest, Zenon
<1>3. PICK b \in Seq(Octet) : b = e \o t
  BY <1>2
<1>4. PICK d : d = [name \in Names(ResultHeader) |-> m[name]]
  OBVIOUS
<1>5. DecodeFields(ResultHeader, b) = {d}
  BY <1>1, <1>2, <1>3, <1>4, Zenon
<1>6. Len(e) + 1 = 3
  BY <1>1
<1>7. SubSeq(b, 3, Len(b)) = t
  BY <1>2, <1>3, <1>6, Zenon
<1>8. ~(Len(b) < 2)
  <2>1. PICK k \in Nat : k = Len(t)
    BY LenIsNat, Zenon
  <2>2. Len(b) = 2 + k
    BY <1>1, <1>2, <1>3, <2>1, Zenon
  <2> QED
    BY <2>2
<1>9. decode_modulation(t) = {m.current}
  BY <1>1, ModulationRoundTrip, Zenon DEF IsSetConfigResult
<1>10. DecodeSetConfigResult(b) =
        {With(h, "current", c) : h \in DecodeFields(ResultHeader, b),
                                 c \in decode_modulation(SubSeq(b, 3, Len(b)))}
  BY <1>8 DEF DecodeSetConfigResult
<1>11. DecodeSetConfigResult(b) = {With(d, "current", m.current)}
  <2>1. decode_modulation(SubSeq(b, 3, Len(b))) = {m.current}
    BY <1>7, <1>9
  <2> QED
    BY <1>5, <1>10, <2>1
<1>12. With(d, "current", m.current) = m
  <2>1. m = [name \in Names(ResultHeader) \cup {"current"} |-> m[name]]
    BY DEF IsSetConfigResult, HasFields
  <2> QED
    BY <1>4, <2>1 DEF With
<1> QED
  BY <1>1, <1>2, <1>3, <1>11, <1>12, Zenon

LEMMA ResultCanonical ==
  ASSUME NEW b \in Seq(Octet), NEW m \in DecodeSetConfigResult(b)
  PROVE  EncodeSetConfigResult(m) = b
<1>1. ~(Len(b) < 2) /\ \E h \in DecodeFields(ResultHeader, b),
                          c \in decode_modulation(SubSeq(b, 3, Len(b))) :
                         m = With(h, "current", c)
  BY DEF DecodeSetConfigResult
<1>2. PICK h \in DecodeFields(ResultHeader, b) :
        \E c \in decode_modulation(SubSeq(b, 3, Len(b))) : m = With(h, "current", c)
  BY <1>1
<1>3. PICK c \in decode_modulation(SubSeq(b, 3, Len(b))) : m = With(h, "current", c)
  BY <1>2
<1>4. UpperZero(ResultHeader, 2, b)
  BY NarrowLayouts, NarrowUpper
<1>5. Size(ResultHeader) <= Len(b)
  BY <1>1, ResultLaid, LenIsNat
<1>6. \A name : name \notin {"current"} /\ name \in DOMAIN h => m[name] = h[name]
  BY <1>3 DEF With
<1>7. PICK e \in Seq(Octet) : e = EncodeFields(ResultHeader, m) /\ Len(e) = 2 /\ Starts(e, b)
  <2>1. {"current"} \cap Names(ResultHeader) = {}
    BY ResultNames
  <2>2. WellLaid(ResultHeader, 2) /\ Size(ResultHeader) = 2
    BY ResultLaid
  <2> QED
    BY <1>2, <1>4, <1>5, <1>6, <2>1, <2>2, HeadReread, ZenonT(60)
<1>8. /\ SubSeq(b, Len(e) + 1, Len(b)) \in Seq(Octet)
      /\ e \o SubSeq(b, Len(e) + 1, Len(b)) = b
  BY <1>7, Glue, Zenon
<1>9. Len(e) + 1 = 3
  BY <1>7
<1>10. m.current = c
  BY <1>3 DEF With
<1>11. encode_modulation(c) = SubSeq(b, 3, Len(b))
  BY <1>3, <1>8, <1>9, ModulationCanonical, Zenon
<1> QED
  BY <1>7, <1>8, <1>9, <1>10, <1>11, Zenon DEF EncodeSetConfigResult

LEMMA ResultLen ==
  ASSUME NEW b \in Seq(Octet), DecodeSetConfigResult(b) # {}
  PROVE  Len(b) \in 4 .. 27
<1>1. ~(Len(b) < 2) /\ decode_modulation(SubSeq(b, 3, Len(b))) # {}
  BY DEF DecodeSetConfigResult
<1>2. PICK z \in Nat : z = Len(b)
  BY LenIsNat, Zenon
<1>3. z >= 2 /\ z - 2 \in Nat /\ 2 + (z - 2) = z /\ 2 + 1 = 3
  BY <1>1, <1>2
<1>4. PICK k \in Nat : k = z - 2
  BY <1>3
<1>5. PICK s : s = SubSeq(b, 3, Len(b))
  OBVIOUS
<1>6. s \in Seq(Octet) /\ Len(s) = k
  BY <1>2, <1>3, <1>4, <1>5
<1>7. 2 <= k /\ k <= 25
  BY <1>1, <1>5, <1>6, ModulationLen, Zenon
<1>8. z \in 4 .. 27
  BY <1>3, <1>4, <1>7
<1> QED
  BY <1>2, <1>8, Zenon

LEMMA StartsRest ==
  ASSUME NEW e \in Seq(Octet), NEW t \in Seq(Octet), NEW b \in Seq(Octet),
         Starts(b, e \o t), Len(e) <= Len(b)
  PROVE  /\ Starts(e, b) /\ SubSeq(b, Len(e) + 1, Len(b)) \in Seq(Octet)
         /\ Starts(SubSeq(b, Len(e) + 1, Len(b)), t)
         /\ Len(SubSeq(b, Len(e) + 1, Len(b))) = Len(b) - Len(e)
<1>l. PICK l \in Nat : Len(e) = l
  BY LenIsNat, Zenon
<1>k. PICK k \in Nat : Len(t) = k
  BY LenIsNat, Zenon
<1>z. PICK z \in Nat : Len(b) = z
  BY LenIsNat, Zenon
<1>1. /\ Len(e \o t) = Len(e) + Len(t)
      /\ \A i \in 1 .. Len(e) : (e \o t)[i] = e[i]
      /\ \A i \in 1 .. Len(t) : (e \o t)[Len(e) + i] = t[i]
  BY Joined, Zenon
<1>2. PICK c : c = e \o t
  OBVIOUS
<1>3. /\ Len(c) = l + k
      /\ \A i \in 1 .. l : c[i] = e[i]
      /\ \A i \in 1 .. k : c[l + i] = t[i]
  BY <1>l, <1>k, <1>1, <1>2
<1>4. z <= l + k /\ l <= z /\ \A p \in 1 .. z : c[p] = b[p]
  BY <1>l, <1>z, <1>2, <1>3 DEF Starts
<1>5. Starts(e, b)
  <2>1. \A p \in 1 .. l : p \in 1 .. z
    BY <1>4
  <2>2. \A p \in 1 .. l : b[p] = e[p]
    BY <1>3, <1>4, <2>1
  <2> QED
    BY <1>l, <1>z, <1>4, <2>2 DEF Starts
<1>6. PICK j \in Nat : z = l + j
  <2>1. z - l \in Nat /\ z = l + (z - l)
    BY <1>4
  <2> QED
    BY <2>1
<1>7. PICK s : s = SubSeq(b, l + 1, z)
  OBVIOUS
<1>8. s \in Seq(Octet) /\ Len(s) = j /\ \A i \in 1 .. j : s[i] = b[l + i]
  <2>1. s = SubSeq(b, l + 1, l + j) /\ l + j <= Len(b)
    BY <1>z, <1>6, <1>7
  <2>2. SliceOf(s, b, l, j)
    BY <1>l, <1>6, <2>1, SlicedAs
  <2> QED
    BY <2>2 DEF SliceOf
<1>9. j <= k /\ \A i \in 1 .. j : i \in 1 .. k /\ l + i \in 1 .. z
  BY <1>4, <1>6
<1>10. \A i \in 1 .. j : t[i] = s[i]
  BY <1>3, <1>4, <1>8, <1>9
<1>11. Starts(s, t)
  BY <1>k, <1>8, <1>9, <1>10 DEF Starts
<1>12. j = z - l
  BY <1>6
<1> QED
  BY <1>l, <1>z, <1>5, <1>7, <1>8, <1>11, <1>12

LEMMA ResultCut ==
  ASSUME NEW m, IsSetConfigResult(m), NEW b \in Seq(Octet),
         Starts(b, EncodeSetConfigResult(m)), Len(b) < Len(EncodeSetConfigResult(m))
  PROVE  DecodeSetConfigResult(b) = {}
<1>1. PICK e \in Seq(Octet), t \in Seq(Octet) :
        /\ Len(e) = 2 /\ t = encode_modulation(m.current)
        /\ EncodeSetConfigResult(m) = e \o t
  BY ResultShape, Zenon
<1>2. CASE Len(b) < 2
  BY <1>2 DEF DecodeSetConfigResult
<1>3. CASE ~(Len(b) < 2)
  <2>1. PICK z \in Nat : z = Len(b)
    BY LenIsNat, Zenon
  <2>2. Len(e) <= Len(b) /\ Len(e) + 1 = 3
    BY <1>1, <1>3, <2>1
  <2>3. PICK s : s = SubSeq(b, 3, Len(b))
    OBVIOUS
  <2>4. s \in Seq(Octet) /\ Starts(s, t) /\ Len(s) = Len(b) - Len(e)
    <3>1. Starts(b, e \o t)
      BY <1>1
    <3>2. /\ SubSeq(b, Len(e) + 1, Len(b)) \in Seq(Octet)
          /\ Starts(SubSeq(b, Len(e) + 1, Len(b)), t)
          /\ Len(SubSeq(b, Len(e) + 1, Len(b))) = Len(b) - Len(e)
      BY <1>1, <2>2, <3>1, StartsRest, Zenon
    <3> QED
      BY <2>2, <2>3, <3>2, Zenon
  <2>5. Len(e \o t) = Len(e) + Len(t)
    BY Joined, Zenon
  <2>6. PICK k \in Nat : k = Len(t)
    BY LenIsNat, Zenon
  <2>7. z < 2 + k /\ Len(s) = z - 2
    BY <1>1, <2>1, <2>4, <2>5, <2>6
  <2>8. Len(s) < Len(t)
    BY <2>1, <2>6, <2>7
  <2>9. decode_modulation(s) = {}
    BY <1>1, <2>4, <2>8, ModulationCut, Zenon DEF IsSetConfigResult
  <2> QED
    BY <2>3, <2>9 DEF DecodeSetConfigResult
<1> QED
  BY <1>2, <1>3

-----------------------------------------------------------------------------
(* The RX event                                                            *)

LEMMA RxNames == "data" \notin Names(RxMetadata)
BY DEF RxMetadata, Names, U, S, E, Flag, FieldAt

LEMMA RxShape ==
  ASSUME NEW m, IsRx(m)
  PROVE  \E e \in Seq(Octet) :
           /\ e = EncodeFields(RxMetadata, m) /\ Len(e) = 20
           /\ m.data \in Seq(Octet) /\ EncodeRx(m) = e \o m.data
           /\ \A b \in Seq(Octet) :
                Starts(e, b) => DecodeFields(RxMetadata, b)
                                  = {[name \in Names(RxMetadata) |-> m[name]]}
<1>1. HasFields(m, RxMetadata, {"data"}) /\ m.data \in Seq(Octet)
  BY DEF IsRx
<1>2. WellLaid(RxMetadata, 7) /\ Size(RxMetadata) = 20
  BY RxLaid
<1>3. /\ EncodeFields(RxMetadata, m) \in Seq(Octet)
      /\ Len(EncodeFields(RxMetadata, m)) = Size(RxMetadata)
      /\ \A b \in Seq(Octet) :
           Starts(EncodeFields(RxMetadata, m), b)
             => DecodeFields(RxMetadata, b) = {[name \in Names(RxMetadata) |-> m[name]]}
  BY <1>1, <1>2, HeadEncoded, Zenon
<1> QED
  BY <1>1, <1>2, <1>3, Zenon DEF EncodeRx

LEMMA RxRoundTrip ==
  ASSUME NEW m, IsRx(m)
  PROVE  EncodeRx(m) \in Seq(Octet) /\ DecodeRx(EncodeRx(m)) = {m}
<1>1. PICK e \in Seq(Octet) :
        /\ Len(e) = 20
        /\ m.data \in Seq(Octet) /\ EncodeRx(m) = e \o m.data
        /\ \A b \in Seq(Octet) :
             Starts(e, b) => DecodeFields(RxMetadata, b)
                               = {[name \in Names(RxMetadata) |-> m[name]]}
  BY RxShape, Zenon
<1>t. PICK t \in Seq(Octet) : t = m.data
  BY <1>1
<1>2. /\ e \o t \in Seq(Octet) /\ Len(e \o t) = Len(e) + Len(t) /\ Starts(e, e \o t)
      /\ SubSeq(e \o t, Len(e) + 1, Len(e) + Len(t)) = t
  BY Rest, Zenon
<1>3. PICK b \in Seq(Octet) : b = e \o t
  BY <1>2
<1>4. PICK d : d = [name \in Names(RxMetadata) |-> m[name]]
  OBVIOUS
<1>5. DecodeFields(RxMetadata, b) = {d}
  BY <1>1, <1>2, <1>3, <1>4, Zenon
<1>6. Len(e) + 1 = 21
  BY <1>1
<1>7. SubSeq(b, 21, Len(b)) = t
  BY <1>2, <1>3, <1>6, Zenon
<1>8. ~(Len(b) < 20)
  <2>1. PICK k \in Nat : k = Len(t)
    BY LenIsNat, Zenon
  <2>2. Len(b) = 20 + k
    BY <1>1, <1>2, <1>3, <2>1, Zenon
  <2> QED
    BY <2>2
<1>9. DecodeRx(b) = {With(h, "data", t) : h \in {d}}
  BY <1>5, <1>7, <1>8, Zenon DEF DecodeRx
<1>10. DecodeRx(b) = {With(d, "data", t)}
  BY <1>9
<1>11. With(d, "data", t) = m
  <2>1. m = [name \in Names(RxMetadata) \cup {"data"} |-> m[name]]
    BY DEF IsRx, HasFields
  <2> QED
    BY <1>t, <1>4, <2>1 DEF With
<1> QED
  BY <1>t, <1>1, <1>2, <1>3, <1>10, <1>11, Zenon

LEMMA RxCanonical ==
  ASSUME NEW b \in Seq(Octet), UpperZero(RxMetadata, 7, b), NEW m \in DecodeRx(b)
  PROVE  EncodeRx(m) = b
<1>1. ~(Len(b) < 20)
  BY DEF DecodeRx
<1>2. PICK h \in DecodeFields(RxMetadata, b) : m = With(h, "data", SubSeq(b, 21, Len(b)))
  BY <1>1, Zenon DEF DecodeRx
<1>3. Size(RxMetadata) <= Len(b)
  BY <1>1, RxLaid, LenIsNat
<1>4. \A name : name \notin {"data"} /\ name \in DOMAIN h => m[name] = h[name]
  BY <1>2 DEF With
<1>5. PICK e \in Seq(Octet) : e = EncodeFields(RxMetadata, m) /\ Len(e) = 20 /\ Starts(e, b)
  <2>1. {"data"} \cap Names(RxMetadata) = {}
    BY RxNames
  <2>2. WellLaid(RxMetadata, 7) /\ Size(RxMetadata) = 20
    BY RxLaid
  <2> QED
    BY <1>2, <1>3, <1>4, <2>1, <2>2, HeadReread, ZenonT(60)
<1>6. e \o SubSeq(b, Len(e) + 1, Len(b)) = b
  BY <1>5, Glue, Zenon
<1>7. Len(e) + 1 = 21
  BY <1>5
<1>8. m.data = SubSeq(b, 21, Len(b))
  BY <1>2 DEF With
<1> QED
  BY <1>5, <1>6, <1>7, <1>8, Zenon DEF EncodeRx

LEMMA RxCut ==
  ASSUME NEW m, IsRx(m), NEW b \in Seq(Octet), Starts(b, EncodeRx(m))
  PROVE  DecodeRx(b) # {} <=> Len(b) >= 20
<1>1. PICK e \in Seq(Octet) :
        /\ Len(e) = 20
        /\ m.data \in Seq(Octet) /\ EncodeRx(m) = e \o m.data
        /\ \A c \in Seq(Octet) :
             Starts(e, c) => DecodeFields(RxMetadata, c)
                               = {[name \in Names(RxMetadata) |-> m[name]]}
  BY RxShape, Zenon
<1>2. PICK z \in Nat : z = Len(b)
  BY LenIsNat, Zenon
<1>3. CASE z < 20
  BY <1>2, <1>3 DEF DecodeRx
<1>4. CASE z >= 20
  <2>1. Len(e) <= Len(b)
    BY <1>1, <1>2, <1>4
  <2>2. Starts(e, b)
    BY <1>1, <2>1, StartsRest, Zenon
  <2>3. DecodeFields(RxMetadata, b) = {[name \in Names(RxMetadata) |-> m[name]]}
    BY <1>1, <2>2, Zenon
  <2>4. ~(Len(b) < 20) /\ Len(b) >= 20
    BY <1>2, <1>4
  <2> QED
    BY <2>3, <2>4 DEF DecodeRx
<1> QED
  BY <1>2, <1>3, <1>4

-----------------------------------------------------------------------------
(* Device information                                                      *)

LEMMA InfoNames ==
  /\ "mcu_uid_len" \in Names(InfoHeader)
  /\ "mcu_uid" \notin Names(InfoHeader) /\ "radio_uid" \notin Names(InfoHeader)
BY SMTT(60) DEF InfoHeader, Names, U, S, E, Flag, FieldAt

\* The parts of the payload of m.
InfoParts(m, e, u, r) ==
  /\ e = EncodeFields(InfoHeader, m) /\ Len(e) = 36
  /\ u = m.mcu_uid /\ Len(u) = m.mcu_uid_len
  /\ r = m.radio_uid /\ Len(r) <= 16
  /\ EncodeInfo(m) = e \o u \o <<Len(r)>> \o r

LEMMA InfoShape ==
  ASSUME NEW m, IsInfo(m)
  PROVE  \E e, u, r \in Seq(Octet) : InfoParts(m, e, u, r)
<1>1. HasFields(m, InfoHeader, {"mcu_uid", "radio_uid"})
  BY DEF IsInfo
<1>2. WellLaid(InfoHeader, 17) /\ Size(InfoHeader) = 36
  BY InfoLaid
<1>3. /\ EncodeFields(InfoHeader, m) \in Seq(Octet)
      /\ Len(EncodeFields(InfoHeader, m)) = Size(InfoHeader)
  BY <1>1, <1>2, HeadEncoded
<1>4. /\ m.mcu_uid \in Seq(Octet) /\ Len(m.mcu_uid) = m.mcu_uid_len
      /\ m.radio_uid \in Seq(Octet) /\ Len(m.radio_uid) <= 16
  BY DEF IsInfo, MAX_RADIO_UID_LEN
<1>5. EncodeInfo(m) = EncodeFields(InfoHeader, m) \o m.mcu_uid \o <<Len(m.radio_uid)>> \o m.radio_uid
  BY DEF EncodeInfo
<1> QED
  BY <1>2, <1>3, <1>4, <1>5, Zenon DEF InfoParts

\* Three parts in a row, the second one byte.
LEMMA Single ==
  ASSUME NEW x \in Octet
  PROVE  <<x>> \in Seq(Octet) /\ Len(<<x>>) = 1 /\ <<x>>[1] = x
OBVIOUS

LEMMA ThreeParts ==
  ASSUME NEW c \in Seq(Octet), NEW x \in Octet, NEW r \in Seq(Octet)
  PROVE  /\ c \o <<x>> \o r \in Seq(Octet)
         /\ Len(c \o <<x>> \o r) = Len(c) + 1 + Len(r)
         /\ \A i \in 1 .. Len(c) : (c \o <<x>> \o r)[i] = c[i]
         /\ (c \o <<x>> \o r)[Len(c) + 1] = x
         /\ \A i \in 1 .. Len(r) : (c \o <<x>> \o r)[Len(c) + 1 + i] = r[i]
<1>l. PICK l \in Nat : Len(c) = l
  BY LenIsNat, Zenon
<1>k. PICK k \in Nat : Len(r) = k
  BY LenIsNat, Zenon
<1>1. PICK d : d = c \o <<x>>
  OBVIOUS
<1>2. /\ d \in Seq(Octet) /\ Len(d) = l + 1
      /\ \A i \in 1 .. l : d[i] = c[i]
      /\ d[l + 1] = x
  <2>1. PICK t \in Seq(Octet) : t = <<x>> /\ Len(t) = 1 /\ t[1] = x
    BY Single, Zenon
  <2>2. /\ c \o t \in Seq(Octet) /\ Len(c \o t) = Len(c) + Len(t)
        /\ \A i \in 1 .. Len(c) : (c \o t)[i] = c[i]
        /\ \A i \in 1 .. Len(t) : (c \o t)[Len(c) + i] = t[i]
    BY Joined, Zenon
  <2>3. d = c \o t
    BY <1>1, <2>1
  <2> QED
    BY <1>l, <2>1, <2>2, <2>3
<1>3. /\ d \o r \in Seq(Octet) /\ Len(d \o r) = Len(d) + Len(r)
      /\ \A i \in 1 .. Len(d) : (d \o r)[i] = d[i]
      /\ \A i \in 1 .. Len(r) : (d \o r)[Len(d) + i] = r[i]
  BY <1>2, Joined, Zenon
<1>4. PICK b : b = d \o r
  OBVIOUS
<1>5. /\ b \in Seq(Octet) /\ Len(b) = l + 1 + k
      /\ \A i \in 1 .. l + 1 : b[i] = d[i]
      /\ \A i \in 1 .. k : b[l + 1 + i] = r[i]
  BY <1>k, <1>2, <1>3, <1>4
<1>6. l + 1 \in 1 .. l + 1 /\ \A i \in 1 .. l : i \in 1 .. l + 1
  BY <1>l
<1>7. (\A i \in 1 .. l : b[i] = c[i]) /\ b[l + 1] = x
  BY <1>2, <1>5, <1>6
<1> QED
  BY <1>l, <1>k, <1>1, <1>4, <1>5, <1>7

LEMMA SmallOctet ==
  ASSUME NEW k \in Nat, k <= 16
  PROVE  k \in Octet
BY DEF Octet

\* The payload b of m: the place of the length of the second identifier, and it.
InfoBytes(m, b, at, k) ==
  /\ b \in Seq(Octet) /\ at \in Nat /\ k \in Nat
  /\ at = 36 + m.mcu_uid_len + 1 /\ at > 36 /\ k <= 16
  /\ Len(b) = at + k /\ b[at] = k
  /\ Starts(EncodeFields(InfoHeader, m), b)
  /\ SubSeq(b, 37, at - 1) = m.mcu_uid
  /\ SubSeq(b, at + 1, at + k) = m.radio_uid

LEMMA InfoEncoded ==
  ASSUME NEW m, IsInfo(m)
  PROVE  \E at, k : InfoBytes(m, EncodeInfo(m), at, k)
<1>e. PICK e \in Seq(Octet), u \in Seq(Octet), r \in Seq(Octet) : InfoParts(m, e, u, r)
  BY InfoShape
<1>r. /\ e = EncodeFields(InfoHeader, m) /\ Len(e) = 36
      /\ u = m.mcu_uid /\ Len(u) = m.mcu_uid_len
      /\ r = m.radio_uid /\ Len(r) <= 16
      /\ EncodeInfo(m) = e \o u \o <<Len(r)>> \o r
  BY <1>e DEF InfoParts
<1>k. PICK k \in Nat : k = Len(r)
  BY LenIsNat, Zenon
<1>l. PICK l \in Nat : l = Len(u)
  BY LenIsNat, Zenon
<1>1. k <= 16 /\ k \in Octet
  BY <1>r, <1>k, SmallOctet, Zenon
<1>j. /\ e \o u \in Seq(Octet) /\ Len(e \o u) = Len(e) + Len(u)
      /\ \A i \in 1 .. Len(e) : (e \o u)[i] = e[i]
      /\ \A i \in 1 .. Len(u) : (e \o u)[Len(e) + i] = u[i]
  BY Joined, Zenon
<1>c. PICK c \in Seq(Octet) : c = e \o u
  BY <1>j
<1>2. /\ Len(c) = 36 + l
      /\ \A i \in 1 .. 36 : c[i] = e[i]
      /\ \A i \in 1 .. l : c[36 + i] = u[i]
  <2>1. /\ Len(c) = Len(e) + Len(u)
        /\ \A i \in 1 .. Len(e) : c[i] = e[i]
        /\ \A i \in 1 .. Len(u) : c[Len(e) + i] = u[i]
    BY <1>c, <1>j, Zenon
  <2>2. Len(e) = 36 /\ Len(u) = l
    BY <1>r, <1>l
  <2> QED
    BY <2>1, <2>2, Zenon
<1>b. PICK b : b = c \o <<k>> \o r
  OBVIOUS
<1>p. PICK p \in Nat : p = 36 + l
  OBVIOUS
<1>a. PICK at \in Nat : at = p + 1
  OBVIOUS
<1>3. /\ b \in Seq(Octet) /\ Len(b) = p + 1 + k
      /\ \A i \in 1 .. p : b[i] = c[i]
      /\ b[p + 1] = k
      /\ \A i \in 1 .. k : b[p + 1 + i] = r[i]
  <2>1. Len(c) = p
    BY <1>2, <1>p
  <2>2. /\ c \o <<k>> \o r \in Seq(Octet)
        /\ Len(c \o <<k>> \o r) = Len(c) + 1 + Len(r)
        /\ \A i \in 1 .. Len(c) : (c \o <<k>> \o r)[i] = c[i]
        /\ (c \o <<k>> \o r)[Len(c) + 1] = k
        /\ \A i \in 1 .. Len(r) : (c \o <<k>> \o r)[Len(c) + 1 + i] = r[i]
    BY <1>1, ThreeParts
  <2> QED
    BY <1>b, <1>k, <2>1, <2>2, Zenon
<1>4. EncodeInfo(m) = b
  BY <1>r, <1>k, <1>c, <1>b
<1>5. Starts(e, b)
  <2>1. \A i \in 1 .. 36 : i \in 1 .. p
    BY <1>p
  <2>2. 36 <= p + 1 + k
    BY <1>p
  <2>3. \A i \in 1 .. 36 : b[i] = e[i]
    BY <1>2, <1>3, <2>1
  <2> QED
    BY <1>r, <1>3, <2>2, <2>3 DEF Starts
<1>6. SubSeq(b, 37, at - 1) = u
  <2>1. PICK s : s = SubSeq(b, 36 + 1, 36 + l)
    OBVIOUS
  <2>2. 36 + l <= Len(b)
    BY <1>3, <1>p
  <2>3. s \in Seq(Octet) /\ Len(s) = l /\ \A j \in 1 .. l : s[j] = b[36 + j]
    <3>1. SliceOf(s, b, 36, l)
      BY <1>3, <2>1, <2>2, SlicedAs
    <3> QED
      BY <3>1 DEF SliceOf
  <2>4. \A j \in 1 .. l : 36 + j \in 1 .. p
    BY <1>p
  <2>5. \A j \in 1 .. l : s[j] = u[j]
    <3> TAKE j \in 1 .. l
    <3>1. c[36 + j] = u[j] /\ b[36 + j] = c[36 + j] /\ s[j] = b[36 + j]
      BY <1>2, <1>3, <2>3, <2>4, Zenon
    <3> QED
      BY <3>1
  <2>6. s = u
    BY <1>l, <2>3, <2>5, SameSeq
  <2>7. at - 1 = 36 + l /\ 37 = 36 + 1
    BY <1>a, <1>p
  <2> QED
    BY <2>1, <2>6, <2>7
<1>7. SubSeq(b, at + 1, at + k) = r
  <2>1. PICK s : s = SubSeq(b, at + 1, at + k)
    OBVIOUS
  <2>2. at + k <= Len(b)
    BY <1>3, <1>a
  <2>3. s \in Seq(Octet) /\ Len(s) = k /\ \A j \in 1 .. k : s[j] = b[at + j]
    <3>1. SliceOf(s, b, at, k)
      BY <1>3, <2>1, <2>2, SlicedAs
    <3> QED
      BY <3>1 DEF SliceOf
  <2>4. \A j \in 1 .. k : s[j] = r[j]
    BY <1>3, <1>a, <2>3
  <2>5. s = r
    BY <1>k, <2>3, <2>4, SameSeq
  <2> QED
    BY <2>1, <2>5
<1>8. /\ at = 36 + m.mcu_uid_len + 1 /\ at > 36
      /\ Len(b) = at + k /\ b[at] = k
  <2>1. m.mcu_uid_len = l
    BY <1>r, <1>l, Zenon
  <2>2. at = 36 + l + 1 /\ at > 36
    BY <1>p, <1>a
  <2> QED
    BY <1>a, <1>3, <2>1, <2>2, Zenon
<1>9. InfoBytes(m, b, at, k)
  BY <1>r, <1>1, <1>3, <1>5, <1>6, <1>7, <1>8 DEF InfoBytes
<1> QED
  BY <1>4, <1>9

\* How a payload with the fields h is read.
InfoRead(b, h) ==
  LET at == 36 + h.mcu_uid_len + 1
  IN  IF Len(b) < at \/ b[at] > 16 \/ ~(Len(b) >= at + b[at]) THEN {}
      ELSE {With(With(h, "mcu_uid", Slice(b, 37, at - 1)),
                 "radio_uid", Slice(b, at + 1, at + b[at]))}

LEMMA InfoDecoding ==
  ASSUME NEW b
  PROVE  /\ Len(b) < 37 => DecodeInfo(b) = {}
         /\ ~(Len(b) < 37) => DecodeInfo(b) = UNION {InfoRead(b, h) : h \in DecodeFields(InfoHeader, b)}
BY Zenon DEF DecodeInfo, InfoRead, LongEnough, MAX_RADIO_UID_LEN

\* What is there is not cut.
LEMMA SliceInside ==
  ASSUME NEW b \in Seq(Octet), NEW first, NEW last \in Nat, last <= Len(b)
  PROVE  Slice(b, first, last) = SubSeq(b, first, last)
<1>1. PICK z \in Nat : z = Len(b)
  BY LenIsNat, Zenon
<1>2. ~(last > z)
  BY <1>1
<1> QED
  BY <1>1, <1>2 DEF Slice

LEMMA InfoReadWhole ==
  ASSUME NEW b \in Seq(Octet), NEW h, NEW at \in Nat, at = 36 + h.mcu_uid_len + 1, at > 36,
         NEW k \in Nat, k <= 16, b[at] = k, at + k <= Len(b)
  PROVE  InfoRead(b, h) = {With(With(h, "mcu_uid", SubSeq(b, 37, at - 1)),
                                "radio_uid", SubSeq(b, at + 1, at + k))}
<1>1. PICK z \in Nat : z = Len(b)
  BY LenIsNat, Zenon
<1>2. at - 1 \in Nat /\ at - 1 <= z /\ at + k \in Nat /\ at + k <= z
  BY <1>1
<1>3. ~(z < at) /\ ~(k > 16) /\ z >= at + k
  BY <1>1
<1>4. Slice(b, 37, at - 1) = SubSeq(b, 37, at - 1)
  BY <1>1, <1>2, SliceInside, Zenon
<1>5. Slice(b, at + 1, at + k) = SubSeq(b, at + 1, at + k)
  BY <1>1, <1>2, SliceInside, Zenon
<1>6. InfoRead(b, h) = IF Len(b) < at \/ b[at] > 16 \/ ~(Len(b) >= at + b[at]) THEN {}
                       ELSE {With(With(h, "mcu_uid", Slice(b, 37, at - 1)),
                                  "radio_uid", Slice(b, at + 1, at + b[at]))}
  BY Zenon DEF InfoRead
<1> QED
  BY <1>1, <1>3, <1>4, <1>5, <1>6, Zenon

LEMMA InfoFields ==
  ASSUME NEW m, IsInfo(m), NEW b \in Seq(Octet), Starts(EncodeFields(InfoHeader, m), b)
  PROVE  /\ DecodeFields(InfoHeader, b) = {[name \in Names(InfoHeader) |-> m[name]]}
         /\ [name \in Names(InfoHeader) |-> m[name]].mcu_uid_len = m.mcu_uid_len
<1>1. HasFields(m, InfoHeader, {"mcu_uid", "radio_uid"})
  BY DEF IsInfo
<1>2. WellLaid(InfoHeader, 17)
  BY InfoLaid
<1>3. DecodeFields(InfoHeader, b) = {[name \in Names(InfoHeader) |-> m[name]]}
  <2>1. Packable(InfoHeader, 17, m)
    BY <1>1, <1>2, HasPackable
  <2> QED
    BY <1>2, <2>1, DecodeEncoded
<1> QED
  BY <1>3, InfoNames

LEMMA InfoRoundTrip ==
  ASSUME NEW m, IsInfo(m)
  PROVE  EncodeInfo(m) \in Seq(Octet) /\ DecodeInfo(EncodeInfo(m)) = {m}
<1>1. PICK b : b = EncodeInfo(m)
  OBVIOUS
<1>2. PICK at, k : InfoBytes(m, b, at, k)
  BY <1>1, InfoEncoded
<1>3. /\ b \in Seq(Octet) /\ at \in Nat /\ k \in Nat
      /\ at = 36 + m.mcu_uid_len + 1 /\ at > 36 /\ k <= 16
      /\ Len(b) = at + k /\ b[at] = k
      /\ Starts(EncodeFields(InfoHeader, m), b)
      /\ SubSeq(b, 37, at - 1) = m.mcu_uid
      /\ SubSeq(b, at + 1, at + k) = m.radio_uid
  BY <1>2 DEF InfoBytes
<1>4. PICK h : h = [name \in Names(InfoHeader) |-> m[name]]
  OBVIOUS
<1>5. DecodeFields(InfoHeader, b) = {h} /\ h.mcu_uid_len = m.mcu_uid_len
  BY <1>3, <1>4, InfoFields, Zenon
<1>6. InfoRead(b, h) = {With(With(h, "mcu_uid", m.mcu_uid), "radio_uid", m.radio_uid)}
  <2>1. at = 36 + h.mcu_uid_len + 1
    BY <1>3, <1>5, Zenon
  <2>2. at + k <= Len(b)
    BY <1>3
  <2>3. InfoRead(b, h) = {With(With(h, "mcu_uid", SubSeq(b, 37, at - 1)),
                                "radio_uid", SubSeq(b, at + 1, at + k))}
    <3>1. /\ b \in Seq(Octet) /\ at \in Nat /\ k \in Nat
          /\ at > 36 /\ k <= 16 /\ b[at] = k
      BY <1>3
    <3> QED
      BY <2>1, <2>2, <3>1, InfoReadWhole
  <2> QED
    BY <1>3, <2>3, Zenon
<1>7. With(With(h, "mcu_uid", m.mcu_uid), "radio_uid", m.radio_uid) = m
  <2>1. m = [name \in Names(InfoHeader) \cup {"mcu_uid", "radio_uid"} |-> m[name]]
    BY DEF IsInfo, HasFields
  <2>2. PICK d : d = With(h, "mcu_uid", m.mcu_uid)
    OBVIOUS
  <2>3. d = [name \in Names(InfoHeader) \cup {"mcu_uid"} |-> m[name]]
    BY <1>4, <2>2 DEF With
  <2>4. With(d, "radio_uid", m.radio_uid) = m
    BY <2>1, <2>3 DEF With
  <2> QED
    BY <2>2, <2>4
<1>8. ~(Len(b) < 37)
  <2>1. PICK z : z = Len(b) /\ z = at + k
    BY <1>3
  <2>2. at \in Nat /\ k \in Nat /\ at > 36
    BY <1>3
  <2>3. ~(at + k < 37)
    BY <2>2
  <2> QED
    BY <2>1, <2>3, Zenon
<1>9. DecodeInfo(b) = UNION {InfoRead(b, x) : x \in {h}}
  BY <1>5, <1>8, InfoDecoding, Zenon
<1>10. DecodeInfo(b) = InfoRead(b, h)
  BY <1>9
<1> QED
  BY <1>1, <1>3, <1>6, <1>7, <1>10, Zenon

LEMMA InfoCut ==
  ASSUME NEW m, IsInfo(m), NEW b \in Seq(Octet), Starts(b, EncodeInfo(m)),
         Len(b) < Len(EncodeInfo(m))
  PROVE  DecodeInfo(b) = {}
<1>1. PICK c : c = EncodeInfo(m)
  OBVIOUS
<1>2. PICK at, k : InfoBytes(m, c, at, k)
  BY <1>1, InfoEncoded
<1>3. /\ c \in Seq(Octet) /\ at \in Nat /\ k \in Nat
      /\ at = 36 + m.mcu_uid_len + 1 /\ at > 36
      /\ Len(c) = at + k /\ c[at] = k
      /\ Starts(EncodeFields(InfoHeader, m), c)
  BY <1>2 DEF InfoBytes
<1>4. PICK z \in Nat : z = Len(b)
  BY LenIsNat, Zenon
<1>5. z < at + k /\ \A p \in 1 .. z : c[p] = b[p]
  BY <1>1, <1>3, <1>4 DEF Starts
<1>6. CASE z < 37
  BY <1>4, <1>6, InfoDecoding, Zenon
<1>7. CASE ~(z < 37)
  <2>1. PICK h : h = [name \in Names(InfoHeader) |-> m[name]]
    OBVIOUS
  <2>2. Starts(EncodeFields(InfoHeader, m), b)
    <3>1. PICK e \in Seq(Octet) : e = EncodeFields(InfoHeader, m) /\ Len(e) = 36
      BY InfoShape DEF InfoParts
    <3>2. Starts(e, c) /\ Starts(b, c)
      BY <1>1, <1>3, <3>1, Zenon
    <3>3. 36 <= z /\ 36 \in Nat
      BY <1>7
    <3> QED
      BY <1>4, <3>1, <3>2, <3>3, StartsOn
  <2>3. DecodeFields(InfoHeader, b) = {h} /\ h.mcu_uid_len = m.mcu_uid_len
    BY <2>1, <2>2, InfoFields, Zenon
  <2>4. at = 36 + h.mcu_uid_len + 1
    BY <1>3, <2>3, Zenon
  <2>5. z < at \/ (b[at] = k /\ ~(z >= at + k))
    <3>1. CASE z < at
      BY <3>1
    <3>2. CASE at <= z
      <4>1. at \in 1 .. z
        BY <1>3, <3>2
      <4>2. c[at] = b[at]
        BY <1>5, <4>1
      <4>3. ~(z >= at + k)
        BY <1>3, <1>5
      <4> QED
        BY <1>3, <4>2, <4>3
    <3> QED
      BY <1>3, <1>4, <3>1, <3>2
  <2>6. InfoRead(b, h) = IF Len(b) < at \/ b[at] > 16 \/ ~(Len(b) >= at + b[at]) THEN {}
                         ELSE {With(With(h, "mcu_uid", Slice(b, 37, at - 1)),
                                    "radio_uid", Slice(b, at + 1, at + b[at]))}
    BY <2>4, Zenon DEF InfoRead
  <2>7. InfoRead(b, h) = {}
    BY <1>4, <2>5, <2>6, Zenon
  <2>8. DecodeInfo(b) = UNION {InfoRead(b, x) : x \in {h}}
    BY <1>4, <1>7, <2>3, InfoDecoding, Zenon
  <2> QED
    BY <2>7, <2>8
<1> QED
  BY <1>6, <1>7

\* What starts b, with the k bytes of b behind it.
LEMMA Extended ==
  ASSUME NEW e \in Seq(Octet), NEW b \in Seq(Octet), Starts(e, b),
         NEW k \in Nat, Len(e) + k <= Len(b)
  PROVE  \E t \in Seq(Octet) :
           /\ t = SubSeq(b, Len(e) + 1, Len(e) + k) /\ Len(t) = k
           /\ e \o t \in Seq(Octet) /\ Len(e \o t) = Len(e) + k /\ Starts(e \o t, b)
<1>l. PICK l \in Nat : l = Len(e)
  BY LenIsNat, Zenon
<1>t. PICK t : t = SubSeq(b, l + 1, l + k)
  OBVIOUS
<1>0. l + k <= Len(b)
  BY <1>l
<1>1. t \in Seq(Octet) /\ Len(t) = k /\ \A j \in 1 .. k : t[j] = b[l + j]
  <2>1. SliceOf(t, b, l, k)
    BY <1>l, <1>t, <1>0, SlicedAs
  <2> QED
    BY <2>1 DEF SliceOf
<1>2. \A p \in 1 .. l : b[p] = e[p]
  BY <1>l DEF Starts
<1>3. /\ e \o t \in Seq(Octet) /\ Len(e \o t) = Len(e) + Len(t)
      /\ \A i \in 1 .. Len(e) : (e \o t)[i] = e[i]
      /\ \A i \in 1 .. Len(t) : (e \o t)[Len(e) + i] = t[i]
  BY <1>1, Joined, Zenon
<1>4. PICK c : c = e \o t
  OBVIOUS
<1>5. /\ c \in Seq(Octet) /\ Len(c) = l + k
      /\ \A i \in 1 .. l : c[i] = e[i]
      /\ \A i \in 1 .. k : c[l + i] = t[i]
  BY <1>l, <1>1, <1>3, <1>4, Zenon
<1>6. \A p \in 1 .. l + k : b[p] = c[p]
  <2> TAKE p \in 1 .. l + k
  <2>1. CASE p \in 1 .. l
    BY <1>2, <1>5, <2>1
  <2>2. CASE ~(p \in 1 .. l)
    <3>1. p - l \in 1 .. k /\ l + (p - l) = p
      BY <1>l, <2>2
    <3>2. PICK j \in 1 .. k : l + j = p
      BY <3>1
    <3>3. c[l + j] = t[j] /\ t[j] = b[l + j]
      BY <1>1, <1>5, Zenon
    <3> QED
      BY <3>2, <3>3
  <2> QED
    BY <2>1, <2>2
<1>7. Starts(c, b)
  BY <1>l, <1>0, <1>5, <1>6 DEF Starts
<1> QED
  BY <1>l, <1>t, <1>1, <1>4, <1>5, <1>7, Zenon

LEMMA OneByte ==
  ASSUME NEW x \in Seq(Octet), Len(x) = 1
  PROVE  x = <<x[1]>>
OBVIOUS

LEMMA OctetNat ==
  ASSUME NEW x \in Octet
  PROVE  x \in Nat
BY DEF Octet

LEMMA InfoReadMeans ==
  ASSUME NEW b \in Seq(Octet), NEW h, NEW at \in Nat, at = 36 + h.mcu_uid_len + 1, at > 36,
         NEW m \in InfoRead(b, h)
  PROVE  \E k \in Nat :
           /\ k <= 16 /\ b[at] = k /\ k \in Octet /\ at + k <= Len(b)
           /\ m = With(With(h, "mcu_uid", SubSeq(b, 37, at - 1)),
                       "radio_uid", SubSeq(b, at + 1, at + k))
<1>1. PICK z \in Nat : z = Len(b)
  BY LenIsNat, Zenon
<1>2. InfoRead(b, h) = IF Len(b) < at \/ b[at] > 16 \/ ~(Len(b) >= at + b[at]) THEN {}
                       ELSE {With(With(h, "mcu_uid", Slice(b, 37, at - 1)),
                                  "radio_uid", Slice(b, at + 1, at + b[at]))}
  BY Zenon DEF InfoRead
<1>3. ~(z < at) /\ ~(b[at] > 16) /\ z >= at + b[at]
  BY <1>1, <1>2
<1>4. at \in 1 .. Len(b)
  BY <1>1, <1>3
<1>5. b[at] \in Octet
  BY <1>4
<1>6. PICK k \in Nat : k = b[at]
  BY <1>5, OctetNat, Zenon
<1>7. k <= 16 /\ at + k <= Len(b)
  BY <1>1, <1>3, <1>6
<1>8. InfoRead(b, h) = {With(With(h, "mcu_uid", SubSeq(b, 37, at - 1)),
                             "radio_uid", SubSeq(b, at + 1, at + k))}
  BY <1>6, <1>7, InfoReadWhole, SMTT(40)
<1> QED
  BY <1>5, <1>6, <1>7, <1>8

LEMMA InfoCanonical ==
  ASSUME NEW b \in Seq(Octet), UpperZero(InfoHeader, 17, b), NEW m \in DecodeInfo(b)
  PROVE  EncodeInfo(m) \in Seq(Octet) /\ Starts(EncodeInfo(m), b)
<1>1. ~(Len(b) < 37) /\ m \in UNION {InfoRead(b, h) : h \in DecodeFields(InfoHeader, b)}
  BY InfoDecoding, Zenon
<1>2. PICK h \in DecodeFields(InfoHeader, b) : m \in InfoRead(b, h)
  BY <1>1
<1>3. WellLaid(InfoHeader, 17) /\ Size(InfoHeader) = 36
  BY InfoLaid
<1>4. h.mcu_uid_len \in 0 .. 32
  <2>1. InfoHeader[17].name = "mcu_uid_len" /\ InfoHeader[17].values = 0 .. 32
    BY DEF InfoHeader, U, S, E, Flag, FieldAt, MAX_MCU_UID_LEN
  <2>2. h[InfoHeader[17].name] \in InfoHeader[17].values
    <3>1. 17 \in 1 .. 17
      OBVIOUS
    <3> QED
      BY <1>2, <1>3, <3>1, Decoding
  <2> QED
    BY <2>1, <2>2
<1>u. PICK ul \in Nat : ul = h.mcu_uid_len
  BY <1>4
<1>p. PICK p \in Nat : p = 36 + ul
  BY <1>u
<1>a. PICK at \in Nat : at = p + 1 /\ at > 36 /\ at - 1 = p
  BY <1>p
<1>5. PICK k \in Nat :
        /\ k <= 16 /\ b[at] = k /\ k \in Octet /\ at + k <= Len(b)
        /\ m = With(With(h, "mcu_uid", SubSeq(b, 37, at - 1)),
                    "radio_uid", SubSeq(b, at + 1, at + k))
  <2>1. at = 36 + h.mcu_uid_len + 1
    BY <1>u, <1>p, <1>a
  <2> QED
    BY <1>2, <1>a, <2>1, InfoReadMeans
<1>z. PICK z \in Nat : z = Len(b)
  BY LenIsNat, Zenon
<1>6. 36 + ul <= z /\ p + 1 <= z /\ at + k <= z /\ 36 <= z
  BY <1>p, <1>a, <1>5, <1>z
<1>7. m.mcu_uid = SubSeq(b, 37, p) /\ m.radio_uid = SubSeq(b, at + 1, at + k)
  BY <1>a, <1>5 DEF With
<1>e. PICK e \in Seq(Octet) : e = EncodeFields(InfoHeader, m) /\ Len(e) = 36 /\ Starts(e, b)
  <2>1. {"mcu_uid", "radio_uid"} \cap Names(InfoHeader) = {}
    BY InfoNames
  <2>2. Size(InfoHeader) <= Len(b)
    BY <1>3, <1>z, <1>6
  <2>3. \A name : name \notin {"mcu_uid", "radio_uid"} /\ name \in DOMAIN h => m[name] = h[name]
    BY <1>5 DEF With
  <2> QED
    BY <1>2, <1>3, <2>1, <2>2, <2>3, HeadReread, ZenonT(60)
<1>8. PICK u \in Seq(Octet) : u = m.mcu_uid /\ Len(u) = ul
                            /\ e \o u \in Seq(Octet) /\ Len(e \o u) = p /\ Starts(e \o u, b)
  <2>1. Len(e) + ul <= Len(b)
    BY <1>e, <1>z, <1>6
  <2>2. PICK u \in Seq(Octet) :
          /\ u = SubSeq(b, Len(e) + 1, Len(e) + ul) /\ Len(u) = ul
          /\ e \o u \in Seq(Octet) /\ Len(e \o u) = Len(e) + ul /\ Starts(e \o u, b)
    BY <1>e, <2>1, Extended, Zenon
  <2>3. Len(e) + 1 = 37 /\ Len(e) + ul = p
    BY <1>e, <1>p
  <2> QED
    BY <1>7, <2>2, <2>3, Zenon
<1>9. PICK c \in Seq(Octet) : c = e \o u /\ Len(c) = p /\ Starts(c, b)
  BY <1>8
<1>11. c \o <<k>> \in Seq(Octet) /\ Len(c \o <<k>>) = at /\ Starts(c \o <<k>>, b)
  <2>1. 1 \in Nat /\ Len(c) + 1 <= Len(b)
    BY <1>9, <1>z, <1>6
  <2>2. PICK x \in Seq(Octet) :
          /\ x = SubSeq(b, Len(c) + 1, Len(c) + 1) /\ Len(x) = 1
          /\ c \o x \in Seq(Octet) /\ Len(c \o x) = Len(c) + 1 /\ Starts(c \o x, b)
    BY <1>9, <2>1, Extended, Zenon
  <2>3. x = SubSeq(b, p + 1, p + 1) /\ p + 1 <= Len(b)
    BY <1>9, <2>1, <2>2
  <2>4. \A j \in 1 .. 1 : x[j] = b[p + j]
    <3>1. SliceOf(x, b, p, 1)
      BY <2>1, <2>3, SlicedAs
    <3> QED
      BY <3>1 DEF SliceOf
  <2>5. x[1] = k
    BY <1>a, <1>5, <2>4
  <2>6. x = <<k>>
    BY <2>2, <2>5, OneByte, Zenon
  <2> QED
    BY <1>a, <1>9, <2>2, <2>6, Zenon
<1>12. PICK d \in Seq(Octet) : d = c \o <<k>> /\ Len(d) = at /\ Starts(d, b)
  BY <1>11
<1>13. Len(d) + k <= Len(b)
  BY <1>12, <1>z, <1>6
<1>14. PICK r \in Seq(Octet) :
         /\ r = SubSeq(b, Len(d) + 1, Len(d) + k) /\ Len(r) = k
         /\ d \o r \in Seq(Octet) /\ Len(d \o r) = Len(d) + k /\ Starts(d \o r, b)
  BY <1>5, <1>12, <1>13, Extended, Zenon
<1>15. EncodeInfo(m) = d \o r
  <2>1. EncodeInfo(m) = EncodeFields(InfoHeader, m) \o m.mcu_uid \o <<Len(m.radio_uid)>> \o m.radio_uid
    BY DEF EncodeInfo
  <2>2. m.radio_uid = r /\ Len(m.radio_uid) = k
    BY <1>7, <1>12, <1>14, Zenon
  <2> QED
    BY <1>e, <1>8, <1>9, <1>12, <2>1, <2>2, Zenon
<1> QED
  BY <1>14, <1>15

LEMMA InfoLen ==
  ASSUME NEW b \in Seq(Octet), DecodeInfo(b) # {}
  PROVE  ~(Len(b) < 37)
BY InfoDecoding, Zenon

-----------------------------------------------------------------------------
(* All payloads                                                            *)

LEMMA Codes ==
  /\ \A b : parse_ok_payload(1, b) = IF b = <<>> THEN {[empty |-> TRUE]} ELSE {}
  /\ \A b : parse_ok_payload(2, b) = DecodeInfo(b)
  /\ \A b : parse_ok_payload(3, b) = DecodeSetConfigResult(b)
<1>1. 1 \in EmptyOks /\ 2 \notin EmptyOks /\ 3 \notin EmptyOks
  BY DEF EmptyOks
<1>2. 1 # 2 /\ 1 # 3 /\ 2 # 3
  OBVIOUS
<1> QED
  BY <1>1, <1>2, Zenon DEF parse_ok_payload

LEMMA Kinds ==
  /\ \A m : /\ EncodePayload("modulation", m) = encode_modulation(m)
            /\ EncodePayload("info", m) = EncodeInfo(m)
            /\ EncodePayload("set_config", m) = EncodeSetConfigResult(m)
            /\ EncodePayload("tx_done", m) = EncodeFields(TxDone, m)
            /\ EncodePayload("rx", m) = EncodeRx(m)
            /\ EncodePayload("err", m) = EncodeFields(ErrPayload, m)
            /\ EncodePayload("tx", m) = CHOOSE b \in encode_tx_payload(m.data, m.skip_cad) : TRUE
  /\ \A b : /\ DecodePayload("modulation", b) = decode_modulation(b)
            /\ DecodePayload("info", b) = DecodeInfo(b)
            /\ DecodePayload("set_config", b) = DecodeSetConfigResult(b)
            /\ DecodePayload("tx_done", b) = DecodeWhole(TxDone, b)
            /\ DecodePayload("rx", b) = DecodeRx(b)
            /\ DecodePayload("err", b) = DecodeWhole(ErrPayload, b)
<1>1. \A m : /\ EncodePayload("modulation", m) = encode_modulation(m)
            /\ EncodePayload("info", m) = EncodeInfo(m)
            /\ EncodePayload("set_config", m) = EncodeSetConfigResult(m)
            /\ EncodePayload("tx_done", m) = EncodeFields(TxDone, m)
            /\ EncodePayload("rx", m) = EncodeRx(m)
            /\ EncodePayload("err", m) = EncodeFields(ErrPayload, m)
            /\ EncodePayload("tx", m) = CHOOSE b \in encode_tx_payload(m.data, m.skip_cad) : TRUE
  BY Zenon DEF EncodePayload
<1>2. \A b : /\ DecodePayload("modulation", b) = decode_modulation(b)
            /\ DecodePayload("info", b) = parse_ok_payload(2, b)
            /\ DecodePayload("set_config", b) = parse_ok_payload(3, b)
            /\ DecodePayload("tx_done", b) = DecodeWhole(TxDone, b)
            /\ DecodePayload("rx", b) = DecodeRx(b)
            /\ DecodePayload("err", b) = DecodeWhole(ErrPayload, b)
  BY Zenon DEF DecodePayload
<1> QED
  BY <1>1, <1>2, Codes, Zenon

LEMMA MessageIs ==
  ASSUME NEW k, NEW m, IsMessage(k, m)
  PROVE  /\ k \in {"modulation", "info", "set_config", "tx_done", "rx", "err", "tx"}
         /\ k = "modulation" => IsModulation(m)
         /\ k = "info" => IsInfo(m)
         /\ k = "set_config" => IsSetConfigResult(m)
         /\ k = "tx_done" => HasFields(m, TxDone, {})
         /\ k = "rx" => IsRx(m)
         /\ k = "err" => HasFields(m, ErrPayload, {})
         /\ k = "tx" => m.data \in Seq(Octet) \ {<<>>}
BY Zenon DEF IsMessage

LEMMA TxEncoded ==
  ASSUME NEW m, m.data \in Seq(Octet) \ {<<>>}
  PROVE  (CHOOSE b \in encode_tx_payload(m.data, m.skip_cad) : TRUE) \in Seq(Octet)
<1>1. PICK x \in Octet : x = IF m.skip_cad THEN 1 ELSE 0
  BY DEF Octet
<1>2. encode_tx_payload(m.data, m.skip_cad) = {<<x>> \o m.data}
  BY <1>1, Zenon DEF encode_tx_payload
<1>3. <<x>> \o m.data \in Seq(Octet)
  BY Headed, Zenon
<1> QED
  BY <1>2, <1>3

\* Every message is packed to bytes, and what was packed is read back.
LEMMA PackedAndRead ==
  ASSUME NEW k, NEW m, IsMessage(k, m)
  PROVE  /\ EncodePayload(k, m) \in Seq(Octet)
         /\ k # "tx" => DecodePayload(k, EncodePayload(k, m)) = {m}
<1>1. CASE k = "modulation"
  <2>1. IsModulation(m)
    BY <1>1, MessageIs
  <2>2. EncodePayload(k, m) = encode_modulation(m) /\ \A b : DecodePayload(k, b) = decode_modulation(b)
    BY <1>1, Kinds
  <2> QED
    BY <2>1, <2>2, ModulationEncoded, ModulationRoundTrip
<1>2. CASE k = "info"
  <2>1. IsInfo(m)
    BY <1>2, MessageIs
  <2>2. EncodePayload(k, m) = EncodeInfo(m) /\ \A b : DecodePayload(k, b) = DecodeInfo(b)
    BY <1>2, Kinds
  <2> QED
    BY <2>1, <2>2, InfoRoundTrip
<1>3. CASE k = "set_config"
  <2>1. IsSetConfigResult(m)
    BY <1>3, MessageIs
  <2>2. EncodePayload(k, m) = EncodeSetConfigResult(m) /\ \A b : DecodePayload(k, b) = DecodeSetConfigResult(b)
    BY <1>3, Kinds
  <2> QED
    BY <2>1, <2>2, ResultRoundTrip
<1>4. CASE k = "tx_done"
  <2>1. HasFields(m, TxDone, {})
    BY <1>4, MessageIs
  <2>2. EncodePayload(k, m) = EncodeFields(TxDone, m) /\ \A b : DecodePayload(k, b) = DecodeWhole(TxDone, b)
    BY <1>4, Kinds
  <2> QED
    BY <2>1, <2>2, TxDoneLaid, WholeRoundTrip
<1>5. CASE k = "rx"
  <2>1. IsRx(m)
    BY <1>5, MessageIs
  <2>2. EncodePayload(k, m) = EncodeRx(m) /\ \A b : DecodePayload(k, b) = DecodeRx(b)
    BY <1>5, Kinds
  <2> QED
    BY <2>1, <2>2, RxRoundTrip
<1>6. CASE k = "err"
  <2>1. HasFields(m, ErrPayload, {})
    BY <1>6, MessageIs
  <2>2. EncodePayload(k, m) = EncodeFields(ErrPayload, m) /\ \A b : DecodePayload(k, b) = DecodeWhole(ErrPayload, b)
    BY <1>6, Kinds
  <2> QED
    BY <2>1, <2>2, ErrLaid, WholeRoundTrip
<1>7. CASE k = "tx"
  <2>1. m.data \in Seq(Octet) \ {<<>>}
    BY <1>7, MessageIs
  <2>2. EncodePayload(k, m) = CHOOSE b \in encode_tx_payload(m.data, m.skip_cad) : TRUE
    BY <1>7, Kinds
  <2> QED
    BY <1>7, <2>1, <2>2, TxEncoded
<1>8. k \in {"modulation", "info", "set_config", "tx_done", "rx", "err", "tx"}
  BY MessageIs
<1> QED
  BY <1>1, <1>2, <1>3, <1>4, <1>5, <1>6, <1>7, <1>8, Zenon

LEMMA EncodedUpper ==
  ASSUME NEW layout, NEW n, WellLaid(layout, n), NEW m, NEW others,
         HasFields(m, layout, others), NEW b, Starts(EncodeFields(layout, m), b)
  PROVE  UpperZero(layout, n, b)
<1>1. Packable(layout, n, m)
  BY HasPackable
<1>2. Placed(layout, n, m, EncodeFields(layout, m))
  BY <1>1, EncodedFits
<1>3. ASSUME NEW i \in 1 .. n, layout[i].size = 8, NEW j \in 5 .. 8
      PROVE  b[layout[i].at + j] = 0
  <2>1. PICK e : e = EncodeFields(layout, m)
    OBVIOUS
  <2>2. PICK a \in Nat : a = layout[i].at
    BY Within
  <2>3. PICK l \in Nat : l = Size(layout)
    BY Within
  <2>4. j \in 1 .. 8 /\ j > 4
    OBVIOUS
  <2>5. e[a + j] = Pack(m[layout[i].name], 8)[j]
    BY <1>2, <1>3, <2>1, <2>2, <2>4 DEF Placed
  <2>6. Pack(m[layout[i].name], 8)[j] = 0
    BY <2>4 DEF Pack
  <2>7. a + 8 <= l
    BY <1>3, <2>2, <2>3, Within
  <2>8. a + j \in 1 .. l
    BY <2>4, <2>7
  <2>9. Len(e) = l
    BY <1>2, <2>1, <2>3 DEF Placed
  <2>10. b[a + j] = e[a + j]
    BY <2>1, <2>8, <2>9 DEF Starts
  <2> QED
    BY <2>2, <2>5, <2>6, <2>10
<1> QED
  BY <1>3 DEF UpperZero

LEMMA InfoUpper ==
  ASSUME NEW b
  PROVE  UpperZero(InfoHeader, 17, b) <=> \A p \in 12 .. 15 : b[p] = 0
<1>1. /\ InfoHeader[7].size = 8 /\ InfoHeader[7].at = 7
      /\ \A i \in 1 .. 17 : i # 7 => InfoHeader[i].size # 8
  BY DEF InfoHeader, U, S, E, Flag, FieldAt
<1>2. UpperZero(InfoHeader, 17, b) <=> \A j \in 5 .. 8 : b[7 + j] = 0
  BY <1>1 DEF UpperZero
<1> QED
  BY <1>2

LEMMA RxUpper ==
  ASSUME NEW b
  PROVE  UpperZero(RxMetadata, 7, b) <=> \A p \in 13 .. 16 : b[p] = 0
<1>1. /\ RxMetadata[4].size = 8 /\ RxMetadata[4].at = 8
      /\ \A i \in 1 .. 7 : i # 4 => RxMetadata[i].size # 8
  BY DEF RxMetadata, U, S, E, Flag, FieldAt
<1>2. UpperZero(RxMetadata, 7, b) <=> \A j \in 5 .. 8 : b[8 + j] = 0
  BY <1>1 DEF UpperZero
<1> QED
  BY <1>2

-----------------------------------------------------------------------------
(* The inductive invariant                                                 *)

\* A payload that nothing changed is what was packed.
Fresh == edits = 0 => bytes = Packed

\* No change reaches the upper half of a field of 8 bytes.
UpperHalves == \A p \in Unmodelled : p <= Len(bytes) => bytes[p] = 0

IInv == TypeOK /\ Fresh /\ UpperHalves

LEMMA IsOne ==
  ASSUME TypeOK
  PROVE  IsMessage(kind, message)
<1>1. PICK s \in Samples : s = [kind |-> kind, message |-> message]
  BY DEF TypeOK
<1>2. IsMessage(s.kind, s.message)
  BY CodecAssumption
<1> QED
  BY <1>1, <1>2

LEMMA InitInv ==
  ASSUME Init
  PROVE  IInv
<1>1. PICK s \in Samples : kind = s.kind /\ message = s.message
  BY DEF Init
<1>2. s = [kind |-> s.kind, message |-> s.message] /\ IsMessage(s.kind, s.message)
  BY CodecAssumption
<1>3. [kind |-> kind, message |-> message] \in Samples /\ IsMessage(kind, message)
  BY <1>1, <1>2
<1>4. bytes = EncodePayload(kind, message) /\ edits = 0
  BY DEF Init
<1>5. bytes \in Seq(Octet)
  BY <1>3, <1>4, PackedAndRead
<1>6. edits \in 0 .. MaxEdits
  BY <1>4, CodecAssumption
<1>7. Fresh
  BY <1>4 DEF Fresh, Packed
<1>8. UpperHalves
  <2>b. Starts(bytes, bytes)
    BY <1>5, StartsItself
  <2>1. CASE kind = "info"
    <3>1. IsInfo(message)
      BY <1>3, <2>1, MessageIs
    <3>2. bytes = EncodeInfo(message)
      BY <1>4, <2>1, Kinds
    <3>3. PICK at, k : InfoBytes(message, bytes, at, k)
      BY <3>1, <3>2, InfoEncoded
    <3>4. Starts(EncodeFields(InfoHeader, message), bytes)
      BY <3>3 DEF InfoBytes
    <3>5. HasFields(message, InfoHeader, {"mcu_uid", "radio_uid"})
      BY <3>1 DEF IsInfo
    <3>6. UpperZero(InfoHeader, 17, bytes)
      BY <3>4, <3>5, InfoLaid, EncodedUpper
    <3>7. Unmodelled = 12 .. 15
      BY <2>1 DEF Unmodelled
    <3> QED
      BY <3>6, <3>7, InfoUpper DEF UpperHalves
  <2>2. CASE kind = "rx"
    <3>1. IsRx(message)
      BY <1>3, <2>2, MessageIs
    <3>2. bytes = EncodeRx(message)
      BY <1>4, <2>2, Kinds
    <3>3. PICK e \in Seq(Octet) : /\ e = EncodeFields(RxMetadata, message)
                                  /\ message.data \in Seq(Octet) /\ EncodeRx(message) = e \o message.data
      BY <3>1, RxShape
    <3>4. PICK t \in Seq(Octet) : t = message.data
      BY <3>3
    <3>5. Starts(e, e \o t)
      BY Rest, Zenon
    <3>6. Starts(EncodeFields(RxMetadata, message), bytes)
      BY <3>2, <3>3, <3>4, <3>5
    <3>7. HasFields(message, RxMetadata, {"data"})
      BY <3>1 DEF IsRx
    <3>8. UpperZero(RxMetadata, 7, bytes)
      BY <3>6, <3>7, RxLaid, EncodedUpper
    <3>9. Unmodelled = 13 .. 16
      BY <2>2 DEF Unmodelled
    <3> QED
      BY <3>8, <3>9, RxUpper DEF UpperHalves
  <2>3. CASE kind # "info" /\ kind # "rx"
    <3>1. Unmodelled = {}
      BY <2>3 DEF Unmodelled
    <3> QED
      BY <3>1 DEF UpperHalves
  <2> QED
    BY <2>1, <2>2, <2>3
<1> QED
  BY <1>3, <1>5, <1>6, <1>7, <1>8 DEF IInv, TypeOK

\* What a change must keep.
LEMMA EditInv ==
  ASSUME IInv, NEW b \in Seq(Octet), Edit(b),
         \A p \in Unmodelled : p <= Len(b) => b[p] = 0
  PROVE  IInv'
<1>1. bytes' = b /\ edits' = edits + 1 /\ edits < MaxEdits /\ kind' = kind /\ message' = message
  BY DEF Edit
<1>2. edits \in 0 .. MaxEdits /\ [kind |-> kind, message |-> message] \in Samples
  BY DEF IInv, TypeOK
<1>3. edits' \in 0 .. MaxEdits /\ edits' # 0
  <2>1. MaxEdits \in Nat
    BY CodecAssumption
  <2> QED
    BY <1>1, <1>2, <2>1
<1>4. TypeOK'
  BY <1>1, <1>2, <1>3 DEF TypeOK
<1>5. Fresh'
  BY <1>3 DEF Fresh
<1>6. Unmodelled' = Unmodelled
  BY <1>1 DEF Unmodelled
<1>7. UpperHalves'
  BY <1>1, <1>6 DEF UpperHalves
<1> QED
  BY <1>4, <1>5, <1>7 DEF IInv

LEMMA Overwritten ==
  ASSUME NEW b \in Seq(Octet), NEW i \in DOMAIN b, NEW c \in Octet
  PROVE  /\ [b EXCEPT ![i] = c] \in Seq(Octet) /\ Len([b EXCEPT ![i] = c]) = Len(b)
         /\ \A p \in 1 .. Len(b) : p # i => [b EXCEPT ![i] = c][p] = b[p]
<1>1. [b EXCEPT ![i] = c] \in Seq(Octet) /\ Len([b EXCEPT ![i] = c]) = Len(b)
  OBVIOUS
<1> QED
  BY <1>1

LEMMA ShortOf ==
  ASSUME NEW b \in Seq(Octet), NEW n \in 0 .. Len(b) - 1
  PROVE  /\ SubSeq(b, 1, n) \in Seq(Octet) /\ Len(SubSeq(b, 1, n)) = n
         /\ \A p \in 1 .. n : p \in 1 .. Len(b) /\ SubSeq(b, 1, n)[p] = b[p]
OBVIOUS

LEMMA LongerBy ==
  ASSUME NEW b \in Seq(Octet), NEW c \in Octet
  PROVE  /\ Append(b, c) \in Seq(Octet) /\ Len(Append(b, c)) = Len(b) + 1
         /\ \A p \in 1 .. Len(b) : Append(b, c)[p] = b[p]
OBVIOUS

\* The places that are not modelled are places of a payload.
LEMMA UnmodelledPlaces == Unmodelled \subseteq 12 .. 16
BY DEF Unmodelled

LEMMA NextInv ==
  ASSUME IInv, [Next]_vars
  PROVE  IInv'
<1>b. PICK b \in Seq(Octet) : b = bytes
  BY DEF IInv, TypeOK
<1>z. PICK z \in Nat : z = Len(b)
  BY <1>b, LenIsNat, Zenon
<1>u. \A p \in Unmodelled : p \in 12 .. 16 /\ (p <= z => b[p] = 0)
  BY <1>b, <1>z, UnmodelledPlaces DEF IInv, UpperHalves
<1>n. \A c \in Noise : c \in Octet
  BY CodecAssumption
<1>1. ASSUME NEW i \in DOMAIN bytes \ Unmodelled, NEW c \in Noise, Overwrites(i, c)
      PROVE  IInv'
  <2>1. PICK d : d = [b EXCEPT ![i] = c]
    OBVIOUS
  <2>2. d \in Seq(Octet) /\ Len(d) = z /\ \A p \in 1 .. z : p # i => d[p] = b[p]
    BY <1>b, <1>z, <1>n, <1>1, <2>1, Overwritten
  <2>3. ASSUME NEW p \in Unmodelled, p <= Len(d)
        PROVE  d[p] = 0
    <3>1. p \in 1 .. z /\ b[p] = 0
      BY <1>z, <1>u, <2>2, <2>3
    <3>2. p # i
      BY <1>1
    <3> QED
      BY <2>2, <3>1, <3>2
  <2>4. Edit(d)
    BY <1>b, <1>1, <2>1 DEF Overwrites
  <2> QED
    BY <2>2, <2>3, <2>4, EditInv
<1>2. ASSUME NEW n \in 0 .. Len(bytes) - 1, Cuts(n)
      PROVE  IInv'
  <2>1. PICK d : d = SubSeq(b, 1, n)
    OBVIOUS
  <2>2. d \in Seq(Octet) /\ Len(d) = n /\ \A p \in 1 .. n : p \in 1 .. z /\ d[p] = b[p]
    BY <1>b, <1>z, <1>2, <2>1, ShortOf
  <2>3. ASSUME NEW p \in Unmodelled, p <= Len(d)
        PROVE  d[p] = 0
    <3>1. p \in 1 .. n
      BY <1>u, <2>2, <2>3
    <3>2. p <= z
      BY <1>z, <2>2, <3>1
    <3> QED
      BY <1>u, <2>2, <3>1, <3>2
  <2>4. Edit(d)
    BY <1>b, <1>2, <2>1 DEF Cuts
  <2> QED
    BY <2>2, <2>3, <2>4, EditInv
<1>3. ASSUME NEW c \in Noise, Len(bytes) + 1 \notin Unmodelled, Adds(c)
      PROVE  IInv'
  <2>1. PICK d : d = Append(b, c)
    OBVIOUS
  <2>2. d \in Seq(Octet) /\ Len(d) = z + 1 /\ \A p \in 1 .. z : d[p] = b[p]
    BY <1>b, <1>z, <1>n, <1>3, <2>1, LongerBy
  <2>3. ASSUME NEW p \in Unmodelled, p <= Len(d)
        PROVE  d[p] = 0
    <3>1. p # z + 1
      BY <1>b, <1>z, <1>3
    <3>2. p \in 1 .. z
      BY <1>z, <1>u, <2>2, <2>3, <3>1
    <3>3. p <= z
      BY <1>z, <3>2
    <3> QED
      BY <1>u, <2>2, <3>2, <3>3
  <2>4. Edit(d)
    BY <1>b, <1>3, <2>1 DEF Adds
  <2> QED
    BY <2>2, <2>3, <2>4, EditInv
<1>4. CASE UNCHANGED vars
  BY <1>4 DEF vars, IInv, TypeOK, Fresh, Packed, UpperHalves, Unmodelled
<1> QED
  BY <1>1, <1>2, <1>3, <1>4 DEF Next

-----------------------------------------------------------------------------
(* Theorems                                                                *)

LEMMA InvHolds == Spec => []IInv
BY InitInv, NextInv, PTL DEF Spec

\* Whatever is changed, the payload stays a sequence of bytes of one of the
\* samples, changed at most MaxEdits times.
THEOREM TypeCorrect == Spec => []TypeOK
<1>1. IInv => TypeOK
  BY DEF IInv
<1> QED
  BY <1>1, InvHolds, PTL

\* Every message of the six payloads that the client reads, whatever its values
\* in the ranges of struct.pack, is read back as it was packed.
THEOREM RoundTripHolds == Spec => []RoundTrip
<1>1. IInv => RoundTrip
  <2> SUFFICES ASSUME IInv, edits = 0, kind # "tx"
               PROVE  Decoded = {message}
    BY DEF RoundTrip
  <2>1. IsMessage(kind, message)
    BY IsOne DEF IInv
  <2>2. bytes = EncodePayload(kind, message)
    BY DEF IInv, Fresh, Packed
  <2>3. DecodePayload(kind, EncodePayload(kind, message)) = {message}
    BY <2>1, PackedAndRead
  <2> QED
    BY <2>2, <2>3 DEF Decoded
<1> QED
  BY <1>1, InvHolds, PTL

LEMMA FrontOf ==
  ASSUME NEW b \in Seq(Octet), NEW l \in Nat, l <= Len(b)
  PROVE  \E y \in Seq(Octet) : y = SubSeq(b, 1, l) /\ Len(y) = l /\ \A i \in 1 .. l : y[i] = b[i]
<1>1. SubSeq(b, 1, l) \in Seq(Octet) /\ Len(SubSeq(b, 1, l)) = l
  OBVIOUS
<1>2. \A i \in 1 .. l : SubSeq(b, 1, l)[i] = b[i]
  OBVIOUS
<1> QED
  BY <1>1, <1>2, Zenon

LEMMA StartsPrefix ==
  ASSUME NEW e \in Seq(Octet), NEW b \in Seq(Octet)
  PROVE  Starts(e, b) <=> IsPrefix(e, b)
<1>1. PICK l \in Nat : l = Len(e)
  BY LenIsNat, Zenon
<1>2. PICK z \in Nat : z = Len(b)
  BY LenIsNat, Zenon
<1>3. CASE ~(l <= z)
  BY <1>1, <1>2, <1>3 DEF Starts, IsPrefix
<1>4. CASE l <= z
  <2>1. PICK x \in Seq(Octet) : x = SubSeq(e, 1, l) /\ Len(x) = l /\ \A i \in 1 .. l : x[i] = e[i]
    BY <1>1
  <2>2. PICK y \in Seq(Octet) : y = SubSeq(b, 1, l) /\ Len(y) = l /\ \A i \in 1 .. l : y[i] = b[i]
    BY <1>2, <1>4, FrontOf, Zenon
  <2>3. IsPrefix(e, b) <=> x = y
    BY <1>1, <1>2, <1>4, <2>1, <2>2 DEF IsPrefix
  <2>4. x = y <=> \A i \in 1 .. l : x[i] = y[i]
    BY <2>1, <2>2, SameSeq
  <2>5. Starts(e, b) <=> \A i \in 1 .. l : e[i] = b[i]
    BY <1>1, <1>2, <1>4 DEF Starts
  <2> QED
    BY <2>1, <2>2, <2>3, <2>4, <2>5
<1> QED
  BY <1>3, <1>4

\* Behind which length the fields of 8 bytes are there.
LEMMA LongInfo ==
  ASSUME NEW b \in Seq(Octet), ~(Len(b) < 37)
  PROVE  \A p \in 12 .. 15 : p <= Len(b)
OBVIOUS

LEMMA LongRx ==
  ASSUME NEW b \in Seq(Octet), ~(Len(b) < 20)
  PROVE  \A p \in 13 .. 16 : p <= Len(b)
OBVIOUS

LEMMA RxLen ==
  ASSUME NEW b, DecodeRx(b) # {}
  PROVE  ~(Len(b) < 20)
BY Zenon DEF DecodeRx

\* No two payloads decode to the same message: none has a byte that is not
\* checked or kept, but for those that Info allows behind its own.
THEOREM CanonicalHolds == Spec => []Canonical
<1>1. IInv => Canonical
  <2> SUFFICES ASSUME IInv, kind # "tx", NEW m \in Decoded
               PROVE  IF kind = "info" THEN IsPrefix(EncodePayload(kind, m), bytes)
                                       ELSE EncodePayload(kind, m) = bytes
    BY DEF Canonical
  <2>b. PICK b \in Seq(Octet) : b = bytes
    BY DEF IInv, TypeOK
  <2>m. m \in DecodePayload(kind, b)
    BY <2>b DEF Decoded
  <2>u. \A p \in Unmodelled : p <= Len(b) => b[p] = 0
    BY <2>b DEF IInv, UpperHalves
  <2>1. CASE kind = "modulation"
    <3>1. m \in decode_modulation(b) /\ EncodePayload(kind, m) = encode_modulation(m)
      BY <2>m, <2>1, Kinds
    <3>2. EncodePayload(kind, m) = b
      BY <3>1, ModulationCanonical
    <3> QED
      BY <2>b, <2>1, <3>2
  <2>2. CASE kind = "info"
    <3>1. m \in DecodeInfo(b) /\ EncodePayload(kind, m) = EncodeInfo(m)
      BY <2>m, <2>2, Kinds
    <3>2. ~(Len(b) < 37)
      BY <3>1, InfoLen
    <3>3. Unmodelled = 12 .. 15
      BY <2>2 DEF Unmodelled
    <3>4. UpperZero(InfoHeader, 17, b)
      BY <2>u, <3>2, <3>3, LongInfo, InfoUpper
    <3>5. EncodeInfo(m) \in Seq(Octet) /\ Starts(EncodeInfo(m), b)
      BY <3>1, <3>4, InfoCanonical
    <3>6. IsPrefix(EncodeInfo(m), b)
      BY <3>5, StartsPrefix
    <3> QED
      BY <2>b, <2>2, <3>1, <3>6
  <2>3. CASE kind = "set_config"
    <3>1. m \in DecodeSetConfigResult(b) /\ EncodePayload(kind, m) = EncodeSetConfigResult(m)
      BY <2>m, <2>3, Kinds
    <3>2. EncodePayload(kind, m) = b
      BY <3>1, ResultCanonical
    <3> QED
      BY <2>b, <2>3, <3>2
  <2>4. CASE kind = "tx_done"
    <3>1. m \in DecodeWhole(TxDone, b) /\ EncodePayload(kind, m) = EncodeFields(TxDone, m)
      BY <2>m, <2>4, Kinds
    <3>2. EncodePayload(kind, m) = b
      BY <3>1, TxDoneLaid, NarrowLayouts, NarrowUpper, WholeCanonical
    <3> QED
      BY <2>b, <2>4, <3>2
  <2>5. CASE kind = "rx"
    <3>1. m \in DecodeRx(b) /\ EncodePayload(kind, m) = EncodeRx(m)
      BY <2>m, <2>5, Kinds
    <3>2. ~(Len(b) < 20)
      BY <3>1, RxLen
    <3>3. Unmodelled = 13 .. 16
      BY <2>5 DEF Unmodelled
    <3>4. UpperZero(RxMetadata, 7, b)
      BY <2>u, <3>2, <3>3, LongRx, RxUpper
    <3>5. EncodePayload(kind, m) = b
      BY <3>1, <3>4, RxCanonical
    <3> QED
      BY <2>b, <2>5, <3>5
  <2>6. CASE kind = "err"
    <3>1. m \in DecodeWhole(ErrPayload, b) /\ EncodePayload(kind, m) = EncodeFields(ErrPayload, m)
      BY <2>m, <2>6, Kinds
    <3>2. EncodePayload(kind, m) = b
      BY <3>1, ErrLaid, NarrowLayouts, NarrowUpper, WholeCanonical
    <3> QED
      BY <2>b, <2>6, <3>2
  <2>7. kind \in {"modulation", "info", "set_config", "tx_done", "rx", "err", "tx"}
    BY IsOne, MessageIs DEF IInv
  <2> QED
    BY <2>1, <2>2, <2>3, <2>4, <2>5, <2>6, <2>7
<1> QED
  BY <1>1, InvHolds, PTL

LEMMA WholeCut ==
  ASSUME NEW layout, NEW n, WellLaid(layout, n), NEW m, HasFields(m, layout, {}),
         NEW b \in Seq(Octet), Len(b) < Len(EncodeFields(layout, m))
  PROVE  DecodeWhole(layout, b) = {}
<1>1. Len(EncodeFields(layout, m)) = Size(layout)
  BY WholeRoundTrip
<1>2. PICK z \in Nat : z = Len(b)
  BY LenIsNat, Zenon
<1>3. z # Size(layout)
  BY <1>1, <1>2, Within
<1> QED
  BY <1>2, <1>3, WholeLen, Zenon

\* A payload whose end is lost is refused, whichever the message and wherever
\* the cut; of a packet that was received only the data can be shorter.
THEOREM CutRefusedHolds == Spec => []CutRefused
<1>1. IInv => CutRefused
  <2> SUFFICES ASSUME IInv, kind # "tx", Len(bytes) < Len(Packed), IsPrefix(bytes, Packed)
               PROVE  IF kind = "rx" THEN Decoded # {} <=> Len(bytes) >= 20 ELSE Decoded = {}
    BY DEF CutRefused
  <2>b. PICK b \in Seq(Octet) : b = bytes
    BY DEF IInv, TypeOK
  <2>d. Decoded = DecodePayload(kind, b)
    BY <2>b DEF Decoded
  <2>i. IsMessage(kind, message)
    BY IsOne DEF IInv
  <2>e. PICK e \in Seq(Octet) : e = EncodePayload(kind, message)
    BY <2>i, PackedAndRead
  <2>c. Len(b) < Len(e) /\ Starts(b, e)
    BY <2>b, <2>e, StartsPrefix DEF Packed
  <2>1. CASE kind = "modulation"
    <3>1. IsModulation(message) /\ e = encode_modulation(message) /\ Decoded = decode_modulation(b)
      BY <2>d, <2>i, <2>e, <2>1, MessageIs, Kinds
    <3>2. Decoded = {}
      BY <2>c, <3>1, ModulationCut
    <3> QED
      BY <2>1, <3>2
  <2>2. CASE kind = "info"
    <3>1. IsInfo(message) /\ e = EncodeInfo(message) /\ Decoded = DecodeInfo(b)
      BY <2>d, <2>i, <2>e, <2>2, MessageIs, Kinds
    <3>2. Decoded = {}
      BY <2>c, <3>1, InfoCut
    <3> QED
      BY <2>2, <3>2
  <2>3. CASE kind = "set_config"
    <3>1. /\ IsSetConfigResult(message) /\ e = EncodeSetConfigResult(message)
          /\ Decoded = DecodeSetConfigResult(b)
      BY <2>d, <2>i, <2>e, <2>3, MessageIs, Kinds
    <3>2. Decoded = {}
      BY <2>c, <3>1, ResultCut
    <3> QED
      BY <2>3, <3>2
  <2>4. CASE kind = "tx_done"
    <3>1. HasFields(message, TxDone, {}) /\ e = EncodeFields(TxDone, message) /\ Decoded = DecodeWhole(TxDone, b)
      BY <2>d, <2>i, <2>e, <2>4, MessageIs, Kinds
    <3>2. Decoded = {}
      BY <2>c, <3>1, TxDoneLaid, WholeCut
    <3> QED
      BY <2>4, <3>2
  <2>5. CASE kind = "rx"
    <3>1. IsRx(message) /\ e = EncodeRx(message) /\ Decoded = DecodeRx(b)
      BY <2>d, <2>i, <2>e, <2>5, MessageIs, Kinds
    <3>2. Decoded # {} <=> Len(b) >= 20
      BY <2>c, <3>1, RxCut
    <3> QED
      BY <2>b, <2>5, <3>2
  <2>6. CASE kind = "err"
    <3>1. HasFields(message, ErrPayload, {}) /\ e = EncodeFields(ErrPayload, message) /\ Decoded = DecodeWhole(ErrPayload, b)
      BY <2>d, <2>i, <2>e, <2>6, MessageIs, Kinds
    <3>2. Decoded = {}
      BY <2>c, <3>1, ErrLaid, WholeCut
    <3> QED
      BY <2>6, <3>2
  <2>7. kind \in {"modulation", "info", "set_config", "tx_done", "rx", "err", "tx"}
    BY <2>i, MessageIs
  <2> QED
    BY <2>1, <2>2, <2>3, <2>4, <2>5, <2>6, <2>7
<1> QED
  BY <1>1, InvHolds, PTL

\* No sequence of bytes is the payload of an OK to two commands: nothing, at
\* most 27 bytes and at least 37 bytes do not meet.
LEMMA Shapes ==
  ASSUME NEW b \in Seq(Octet)
  PROVE  /\ parse_ok_payload(1, b) # {} => Len(b) \in 0 .. 0
         /\ parse_ok_payload(2, b) # {} => ~(Len(b) < 37)
         /\ parse_ok_payload(3, b) # {} => Len(b) \in 4 .. 27
<1>1. parse_ok_payload(1, b) # {} => Len(b) \in 0 .. 0
  BY Codes
<1>2. parse_ok_payload(2, b) # {} => ~(Len(b) < 37)
  BY Codes, InfoLen
<1>3. parse_ok_payload(3, b) # {} => Len(b) \in 4 .. 27
  BY Codes, ResultLen
<1> QED
  BY <1>1, <1>2, <1>3

LEMMA NotTwo ==
  ASSUME NEW z \in Nat
  PROVE  /\ ~(z \in 0 .. 0 /\ ~(z < 37))
         /\ ~(z \in 0 .. 0 /\ z \in 4 .. 27)
         /\ ~(~(z < 37) /\ z \in 4 .. 27)
OBVIOUS

\* No payload of an OK is the answer to two commands, so that an answer that
\* comes for another command than was sent is refused.
THEOREM ShapesApartHolds == Spec => []ShapesApart
<1>1. IInv => ShapesApart
  <2> SUFFICES ASSUME IInv, NEW x \in 1 .. 3, NEW y \in 1 .. 3,
                      parse_ok_payload(x, bytes) # {}, parse_ok_payload(y, bytes) # {}
               PROVE  x = y
    BY DEF ShapesApart
  <2>b. PICK b \in Seq(Octet) : b = bytes
    BY DEF IInv, TypeOK
  <2>z. PICK z \in Nat : z = Len(b)
    BY LenIsNat, Zenon
  <2>1. \A v \in 1 .. 3 : v = 1 \/ v = 2 \/ v = 3
    OBVIOUS
  <2>2. parse_ok_payload(1, b) # {} => z \in 0 .. 0
    BY <2>z, Shapes, Zenon
  <2>3. parse_ok_payload(2, b) # {} => ~(z < 37)
    BY <2>z, Shapes, Zenon
  <2>4. parse_ok_payload(3, b) # {} => z \in 4 .. 27
    BY <2>z, Shapes, Zenon
  <2>n. /\ ~(z \in 0 .. 0 /\ ~(z < 37))
        /\ ~(z \in 0 .. 0 /\ z \in 4 .. 27)
        /\ ~(~(z < 37) /\ z \in 4 .. 27)
    BY <2>z, NotTwo, Zenon
  <2>5. /\ ~(parse_ok_payload(1, b) # {} /\ parse_ok_payload(2, b) # {})
        /\ ~(parse_ok_payload(1, b) # {} /\ parse_ok_payload(3, b) # {})
        /\ ~(parse_ok_payload(2, b) # {} /\ parse_ok_payload(3, b) # {})
    BY <2>2, <2>3, <2>4, <2>n, Zenon
  <2> QED
    BY <2>b, <2>1, <2>5
<1> QED
  BY <1>1, InvHolds, PTL

-----------------------------------------------------------------------------
(* Payloads in frames                                                      *)

\* The lengths of payloads, and what an RX event or a TX has at most.
LEMMA LengthBound ==
  /\ 2 <= MAX_PAYLOAD_FIELD /\ 5 <= MAX_PAYLOAD_FIELD
  /\ \A z \in Nat : z <= 25 \/ z \in 4 .. 27 \/ z <= 85 => z <= MAX_PAYLOAD_FIELD
  /\ \A z \in Nat : z <= MAX_OTA_PAYLOAD => 20 + z <= MAX_PAYLOAD_FIELD /\ 1 + z <= MAX_PAYLOAD_FIELD
BY SMT DEF MAX_PAYLOAD_FIELD, MAX_OTA_PAYLOAD

LEMMA InfoShort ==
  ASSUME NEW m, IsInfo(m)
  PROVE  Len(EncodeInfo(m)) <= 85
<1>1. PICK at, k : InfoBytes(m, EncodeInfo(m), at, k)
  BY InfoEncoded
<1>2. at \in Nat /\ k \in Nat /\ k <= 16 /\ at = 36 + m.mcu_uid_len + 1 /\ Len(EncodeInfo(m)) = at + k
  BY <1>1, Zenon DEF InfoBytes
<1>3. Packable(InfoHeader, 17, m) /\ WellLaid(InfoHeader, 17)
  BY InfoLaid, HasPackable DEF IsInfo
<1>4. InfoHeader[17].name = "mcu_uid_len" /\ InfoHeader[17].values = 0 .. 32
  BY DEF InfoHeader, U, S, E, Flag, FieldAt, MAX_MCU_UID_LEN
<1>5. m[InfoHeader[17].name] \in InfoHeader[17].values
  <2>1. 17 \in 1 .. 17
    OBVIOUS
  <2> QED
    BY <1>3, <2>1, FitsMeans
<1>6. PICK u \in 0 .. 32 : u = m.mcu_uid_len
  BY <1>4, <1>5
<1>7. PICK l \in Nat : l = at + k /\ l = Len(EncodeInfo(m))
  BY <1>2
<1>8. l <= 85
  <2>1. at = 36 + u + 1
    BY <1>2, <1>6
  <2>2. at <= 69
    BY <2>1
  <2>3. k <= 16 /\ l = at + k /\ at \in Nat /\ k \in Nat
    BY <1>2, <1>7
  <2> QED
    BY <2>2, <2>3
<1> QED
  BY <1>7, <1>8

LEMMA RxShort ==
  ASSUME NEW m, IsRx(m), Len(m.data) <= MAX_OTA_PAYLOAD
  PROVE  Len(EncodeRx(m)) <= MAX_PAYLOAD_FIELD
<1>1. PICK e \in Seq(Octet) : Len(e) = 20 /\ m.data \in Seq(Octet) /\ EncodeRx(m) = e \o m.data
  BY RxShape
<1>2. PICK d \in Seq(Octet) : d = m.data
  BY <1>1
<1>3. PICK z \in Nat : z = Len(d)
  BY LenIsNat
<1>4. Len(e \o d) = 20 + z
  <2>1. Len(e \o d) = Len(e) + Len(d)
    OBVIOUS
  <2> QED
    BY <1>1, <1>3, <2>1, Zenon
<1>5. 20 + z <= MAX_PAYLOAD_FIELD
  BY <1>2, <1>3, LengthBound
<1> QED
  BY <1>1, <1>2, <1>4, <1>5

LEMMA TxShort ==
  ASSUME NEW m, m.data \in Seq(Octet) \ {<<>>}, Len(m.data) <= MAX_OTA_PAYLOAD
  PROVE  Len(CHOOSE b \in encode_tx_payload(m.data, m.skip_cad) : TRUE) <= MAX_PAYLOAD_FIELD
<1>1. PICK x \in Octet : x = IF m.skip_cad THEN 1 ELSE 0
  BY DEF Octet
<1>2. encode_tx_payload(m.data, m.skip_cad) = {<<x>> \o m.data}
  BY <1>1, Zenon DEF encode_tx_payload
<1>3. PICK d \in Seq(Octet) : d = m.data
  OBVIOUS
<1>4. PICK z \in Nat : z = Len(d)
  BY LenIsNat
<1>5. Len(<<x>> \o d) = 1 + z
  BY <1>4
<1>6. 1 + z <= MAX_PAYLOAD_FIELD
  BY <1>3, <1>4, LengthBound
<1>7. (CHOOSE b \in encode_tx_payload(m.data, m.skip_cad) : TRUE) = <<x>> \o d
  BY <1>2, <1>3
<1> QED
  BY <1>5, <1>6, <1>7

\* A packet is no longer than the device takes.
PacketFits(k, m) == k \in {"rx", "tx"} => Len(m.data) <= MAX_OTA_PAYLOAD

LEMMA PackedShort ==
  ASSUME NEW k, NEW m, IsMessage(k, m), PacketFits(k, m)
  PROVE  Len(EncodePayload(k, m)) <= MAX_PAYLOAD_FIELD
<1>0. PICK b \in Seq(Octet) : b = EncodePayload(k, m)
  BY PackedAndRead
<1>z. PICK z \in Nat : z = Len(b)
  BY LenIsNat
<1>r. k # "tx" => DecodePayload(k, b) # {}
  BY <1>0, PackedAndRead
<1>1. CASE k = "modulation"
  <2>1. decode_modulation(b) # {}
    BY <1>r, <1>1, Kinds
  <2>2. z <= 25
    BY <1>z, <2>1, ModulationLen
  <2> QED
    BY <1>0, <1>z, <2>2, LengthBound
<1>2. CASE k = "info"
  <2>1. IsInfo(m) /\ b = EncodeInfo(m)
    BY <1>0, <1>2, MessageIs, Kinds
  <2>2. z <= 85
    BY <1>z, <2>1, InfoShort
  <2> QED
    BY <1>0, <1>z, <2>2, LengthBound
<1>3. CASE k = "set_config"
  <2>1. DecodeSetConfigResult(b) # {}
    BY <1>r, <1>3, Kinds
  <2>2. z \in 4 .. 27
    BY <1>z, <2>1, ResultLen
  <2> QED
    BY <1>0, <1>z, <2>2, LengthBound
<1>4. CASE k = "tx_done"
  <2>1. DecodeWhole(TxDone, b) # {}
    BY <1>r, <1>4, Kinds
  <2>2. z = 5
    BY <1>z, <2>1, WholeLen, TxDoneLaid
  <2> QED
    BY <1>0, <1>z, <2>2, LengthBound
<1>5. CASE k = "rx"
  <2>1. IsRx(m) /\ b = EncodeRx(m) /\ Len(m.data) <= MAX_OTA_PAYLOAD
    BY <1>0, <1>5, MessageIs, Kinds DEF PacketFits
  <2> QED
    BY <1>0, <2>1, RxShort
<1>6. CASE k = "err"
  <2>1. DecodeWhole(ErrPayload, b) # {}
    BY <1>r, <1>6, Kinds
  <2>2. z = 2
    BY <1>z, <2>1, WholeLen, ErrLaid
  <2> QED
    BY <1>0, <1>z, <2>2, LengthBound
<1>7. CASE k = "tx"
  <2>1. /\ m.data \in Seq(Octet) \ {<<>>} /\ Len(m.data) <= MAX_OTA_PAYLOAD
        /\ EncodePayload(k, m) = CHOOSE c \in encode_tx_payload(m.data, m.skip_cad) : TRUE
    BY <1>7, MessageIs, Kinds DEF PacketFits
  <2> QED
    BY <2>1, TxShort
<1> QED
  BY <1>1, <1>2, <1>3, <1>4, <1>5, <1>6, <1>7, MessageIs

\* What every payload in a frame is sent as.
LEMMA Framed ==
  ASSUME NEW p \in Seq(Octet), Len(p) <= MAX_PAYLOAD_FIELD, MaxRun = 254
  PROVE  LET f == [type |-> 192, tag |-> 256, payload |-> p]
         IN  \E w \in EncodeFrame(f) :
               /\ Len(w) <= MAX_WIRE_FRAME
               /\ \A i \in DOMAIN w : w[i] = 0 <=> i = Len(w)
               /\ DecodeFrame(Front(w)) = {f}
<1> DEFINE f == [type |-> 192, tag |-> 256, payload |-> p]
<1>1. 192 \in Byte /\ 256 \in Nat /\ 256 < Modulus
  BY SMT DEF Byte, Modulus
<1>2. 256 \in Word
  BY <1>1, WordIs
<1>3. Octet = Byte
  BY DEF Octet, Byte
<1>4. f \in FrameSet /\ f.payload = p
  BY <1>1, <1>2, <1>3 DEF FrameSet
<1> HIDE DEF f
<1>5. PICK w : w \in EncodeFrame(f)
  BY <1>4, Encodable
<1>6. Len(w) <= MAX_WIRE_FRAME
  BY <1>4, <1>5, FrameFits
<1>7. /\ w \in Seq(Byte) /\ \A i \in 1 .. Len(w) : w[i] = 0 <=> i = Len(w)
      /\ DecodeFrame(SubSeq(w, 1, Len(w) - 1)) = {f}
  BY <1>4, <1>5, FrameRoundTrip
<1>8. DOMAIN w = 1 .. Len(w)
  BY <1>7
<1>9. DecodeFrame(Front(w)) = {f}
  BY <1>7, Zenon DEF Front
<1>10. \E v \in EncodeFrame(f) :
         /\ Len(v) <= MAX_WIRE_FRAME
         /\ \A i \in DOMAIN v : v[i] = 0 <=> i = Len(v)
         /\ DecodeFrame(Front(v)) = {f}
  BY <1>5, <1>6, <1>7, <1>8, <1>9, Zenon
<1> QED
  BY <1>10, Zenon DEF f

\* With the blocks of the cobs library, and packets that fit the air: whatever the
\* program packs goes into one frame within MAX_WIRE_FRAME, ended by its only
\* zero byte, and comes out of it as it was.
THEOREM FramesFitHolds ==
  ASSUME MaxRun = 254, \A s \in Samples : PacketFits(s.kind, s.message)
  PROVE  Spec => []FramesFit
<1>1. IInv => FramesFit
  <2> SUFFICES ASSUME IInv, edits = 0
               PROVE  LET f == [type |-> 192, tag |-> 256, payload |-> bytes]
                      IN  \E w \in EncodeFrame(f) :
                            /\ Len(w) <= MAX_WIRE_FRAME
                            /\ \A i \in DOMAIN w : w[i] = 0 <=> i = Len(w)
                            /\ DecodeFrame(Front(w)) = {f}
    BY DEF FramesFit
  <2>1. IsMessage(kind, message)
    BY IsOne DEF IInv
  <2>2. bytes = EncodePayload(kind, message)
    BY DEF IInv, Fresh, Packed
  <2>3. PacketFits(kind, message)
    <3>1. PICK s \in Samples : s = [kind |-> kind, message |-> message]
      BY DEF IInv, TypeOK
    <3>2. PacketFits(s.kind, s.message)
      OBVIOUS
    <3> QED
      BY <3>1, <3>2
  <2>4. bytes \in Seq(Octet) /\ Len(bytes) <= MAX_PAYLOAD_FIELD
    BY <2>1, <2>2, <2>3, PackedAndRead, PackedShort
  <2> QED
    BY <2>4, Framed
<1> QED
  BY <1>1, InvHolds, PTL
=============================================================================
