---------------------------- MODULE FrameProofs ----------------------------
(***************************************************************************)
(* Theorems about Frame: what encode_frame writes is what decode_frame     *)
(* reads, for every frame, and has no zero byte but the delimiter; what    *)
(* decode_frame makes of any bytes is a frame.  These are the promises on  *)
(* which the theorems about Wire rest.                                     *)
(***************************************************************************)
EXTENDS Frame, WellFoundedInduction, TLAPS

-----------------------------------------------------------------------------
(* Induction                                                               *)

LEMMA Least ==
  ASSUME NEW T, T \subseteq Nat, T # {}
  PROVE  \E x \in T : \A y \in T : x <= y
<1> DEFINE R == {ss \in Nat \X Nat : ss[1] < ss[2]}
<1>1. IsWellFoundedOn(R, Nat)
  BY NatLessThanWellFounded DEF OpToRel
<1> HIDE DEF R
<1>2. PICK x \in T : \A y \in T : ~(<<y, x>> \in R)
  BY <1>1, WFMin
<1>3. \A y \in T : ~(y < x)
  BY <1>2 DEF R
<1> QED
  BY <1>3

\* A set with 0 and, of every number below n, the next.
LEMMA Upwards ==
  ASSUME NEW n \in Nat, NEW T, 0 \in T, \A k \in 0 .. n : k \in T /\ k < n => k + 1 \in T
  PROVE  n \in T
<1> SUFFICES ASSUME n \notin T
             PROVE  FALSE
  OBVIOUS
<1> DEFINE W == {k \in 0 .. n : k \notin T}
<1>1. W \subseteq Nat /\ W # {}
  OBVIOUS
<1>2. PICK k \in W : \A j \in W : k <= j
  BY <1>1, Least
<1>3. k \in 0 .. n /\ k \notin T /\ k # 0
  BY <1>2
<1>4. k - 1 \in 0 .. n /\ k - 1 < n /\ k - 1 \notin W
  BY <1>2, <1>3
<1>5. k - 1 \in T
  BY <1>4
<1>6. (k - 1) + 1 \in T
  BY <1>4, <1>5
<1> QED
  BY <1>3, <1>6

\* From the end: a set with every place that has all later ones in it.
LEMMA Backwards ==
  ASSUME NEW n \in Nat, NEW T,
         \A i \in 1 .. n : (\A j \in i + 1 .. n : j \in T) => i \in T
  PROVE  \A i \in 1 .. n : i \in T
<1> SUFFICES ASSUME NEW i \in 1 .. n, i \notin T
             PROVE  FALSE
  OBVIOUS
<1> DEFINE W == {k \in Nat : n - k \in 1 .. n /\ n - k \notin T}
<1>1. n - i \in W
  OBVIOUS
<1>2. W \subseteq Nat /\ W # {}
  BY <1>1
<1>3. PICK k \in W : \A j \in W : k <= j
  BY <1>2, Least
<1>4. PICK a \in 1 .. n : a = n - k /\ a \notin T
  BY <1>3
<1>5. ASSUME NEW j \in a + 1 .. n, j \notin T PROVE FALSE
  <2>1. j \in 1 .. n /\ n - j \in Nat /\ n - (n - j) = j
    BY <1>4
  <2>2. n - j \in W
    BY <1>5, <2>1
  <2>3. k <= n - j
    BY <1>3, <2>2
  <2> QED
    BY <1>3, <1>4, <2>3
<1>6. a \in T
  BY <1>5
<1> QED
  BY <1>4, <1>6

-----------------------------------------------------------------------------
(* crc16                                                                   *)

LEMMA ModulusType == Modulus \in Nat \ {0} /\ Modulus - 1 \in Nat
BY SMT DEF Modulus

LEMMA WordIs ==
  ASSUME NEW x
  PROVE  x \in Word <=> x \in Nat /\ x < Modulus
BY ModulusType, SMT DEF Word

LEMMA ModType ==
  ASSUME NEW x \in Int, NEW m \in Nat \ {0}
  PROVE  x % m \in 0 .. m - 1
OBVIOUS

LEMMA DivType ==
  ASSUME NEW x \in Nat, NEW k \in Nat \ {0}
  PROVE  x \div k \in Nat
OBVIOUS

LEMMA BitType ==
  ASSUME NEW a \in Nat, NEW b \in Nat, NEW k \in Nat \ {0}
  PROVE  k * (((a \div k) + (b \div k)) % 2) \in 0 .. k
<1>1. PICK x \in Int : x = (a \div k) + (b \div k)
  BY DivType
<1>2. x % 2 \in 0 .. 1
  OBVIOUS
<1>3. PICK y \in 0 .. 1 : y = x % 2
  BY <1>2
<1>4. k * y \in 0 .. k
  OBVIOUS
<1> QED
  BY <1>1, <1>3, <1>4

LEMMA XorLowType ==
  ASSUME NEW a \in Nat, NEW b \in Nat
  PROVE  XorLow(a, b) \in Byte
<1> DEFINE bit(k) == k * (((a \div k) + (b \div k)) % 2)
<1>1. \A k \in Nat \ {0} : bit(k) \in Nat /\ bit(k) <= k
  BY BitType
<1>2. XorLow(a, b) =
        bit(1) + bit(2) + bit(4) + bit(8) + bit(16) + bit(32) + bit(64) + bit(128)
  BY SMT DEF XorLow
<1> HIDE DEF bit
<1>3. /\ bit(1) \in Nat /\ bit(1) <= 1 /\ bit(2) \in Nat /\ bit(2) <= 2
      /\ bit(4) \in Nat /\ bit(4) <= 4 /\ bit(8) \in Nat /\ bit(8) <= 8
  BY <1>1, SMT
<1>4. /\ bit(16) \in Nat /\ bit(16) <= 16 /\ bit(32) \in Nat /\ bit(32) <= 32
      /\ bit(64) \in Nat /\ bit(64) <= 64 /\ bit(128) \in Nat /\ bit(128) <= 128
  BY <1>1, SMT
<1>5. XorLow(a, b) \in Nat /\ XorLow(a, b) <= 255
  BY <1>2, <1>3, <1>4, SMT
<1> QED
  BY <1>5, SMT DEF Byte

LEMMA XorType ==
  ASSUME NEW a \in Nat, NEW b \in Nat
  PROVE  Xor(a, b) \in Word
<1>1. XorLow(a, b) \in Byte /\ XorLow(a \div 256, b \div 256) \in Byte
  BY DivType, XorLowType
<1>2. PICK h \in Byte, l \in Byte : Xor(a, b) = 256 * h + l
  BY <1>1 DEF Xor
<1>3. 256 * h + l \in Nat /\ 256 * h + l < Modulus
  BY SMT DEF Byte, Modulus
<1> QED
  BY <1>2, <1>3, WordIs

LEMMA ShiftType ==
  ASSUME NEW crc \in Word
  PROVE  Shift(crc) \in Word
<1>1. crc \in Nat /\ 2 * crc \in Int
  BY WordIs
<1>2. PICK twice \in Word : twice = (2 * crc) % Modulus
  BY <1>1, ModType, ModulusType DEF Word
<1>3. Xor(twice, Polynomial) \in Word
  BY <1>2, WordIs, XorType, SMT DEF Polynomial
<1>4. Shift(crc) = IF 2 * crc >= Modulus THEN Xor(twice, Polynomial) ELSE twice
  BY <1>2, Zenon DEF Shift
<1> QED
  BY <1>2, <1>3, <1>4

LEMMA Shift8Type ==
  ASSUME NEW crc \in Word
  PROVE  Shift8[crc] \in Word
<1> DEFINE b(c) == Shift(Shift(Shift(Shift(Shift(Shift(Shift(Shift(c))))))))
<1>1. Shift8[crc] = b(crc)
  <2>1. Shift8 = [c \in Word |-> b(c)]
    BY Zenon DEF Shift8
  <2> HIDE DEF b
  <2> QED
    BY <2>1
<1>2. b(crc) \in Word
  BY ShiftType
<1> QED
  BY <1>1, <1>2

Spans(data) == (1 .. Len(data) + 1) \X (0 .. Len(data)) \X Word

\* The body of the recursion.
After(data, f, s) ==
  IF s[2] < s[1] THEN s[3]
  ELSE IF s[2] = s[1] THEN Shift8[Xor(s[3], 256 * data[s[1]])]
  ELSE f[<<(s[1] + s[2]) \div 2 + 1, s[2], f[<<s[1], (s[1] + s[2]) \div 2, s[3]>>]>>]

\* What the recursion asks for is shorter.
LEMMA Halves ==
  ASSUME NEW data \in Seq(Byte), NEW s \in Spans(data), s[2] > s[1]
  PROVE  LET mid == (s[1] + s[2]) \div 2
         IN  /\ <<s[1], mid, s[3]>> \in Spans(data) /\ mid - s[1] < s[2] - s[1]
             /\ \A c \in Word : <<mid + 1, s[2], c>> \in Spans(data)
             /\ s[2] - (mid + 1) < s[2] - s[1]
<1>1. PICK i \in 1 .. Len(data) + 1, j \in 0 .. Len(data), crc \in Word : s = <<i, j, crc>>
  BY DEF Spans
<1>2. Len(data) \in Nat /\ i < j
  BY <1>1
<1>3. PICK mid \in Nat : mid = (i + j) \div 2 /\ i <= mid /\ mid < j
  BY <1>1, <1>2
<1>4. <<i, mid, crc>> \in Spans(data) /\ \A c \in Word : <<mid + 1, j, c>> \in Spans(data)
  BY <1>2, <1>3 DEF Spans
<1>5. mid - i < j - i /\ j - (mid + 1) < j - i
  BY <1>2, <1>3
<1> QED
  BY <1>1, <1>3, <1>4, <1>5

LEMMA ByteShifted ==
  ASSUME NEW data \in Seq(Byte), NEW s \in Spans(data), s[2] = s[1]
  PROVE  Shift8[Xor(s[3], 256 * data[s[1]])] \in Word
<1>1. s[1] \in 1 .. Len(data) /\ s[3] \in Nat
  <2>1. s[1] \in 1 .. Len(data) + 1 /\ s[2] \in 0 .. Len(data) /\ s[3] \in Word
    BY DEF Spans
  <2> QED
    BY <2>1, WordIs
<1>2. PICK b \in Byte : b = data[s[1]]
  BY <1>1
<1>3. 256 * b \in Nat
  BY DEF Byte
<1>4. Xor(s[3], 256 * data[s[1]]) \in Word
  BY <1>1, <1>2, <1>3, XorType
<1> QED
  BY <1>4, Shift8Type

LEMMA RegisterIs ==
  ASSUME NEW data \in Seq(Byte)
  PROVE  Register(data) = [s \in Spans(data) |-> After(data, Register(data), s)]
<1> DEFINE n == Len(data)
           Upto(m, f) == /\ f \in [Spans(data) -> Word]
                         /\ \A s \in Spans(data) :
                              s[2] - s[1] < m => f[s] = After(data, f, s)
           T == {m \in 0 .. n : \E f : Upto(m, f)}
<1>0. n \in Nat /\ \A s \in Spans(data) : s[1] \in 1 .. n + 1 /\ s[2] \in 0 .. n /\ s[3] \in Word
  BY DEF Spans
<1>1. 0 \in T
  <2> DEFINE g == [s \in Spans(data) |-> s[3]]
  <2>1. g \in [Spans(data) -> Word]
    BY <1>0
  <2>2. ASSUME NEW s \in Spans(data), s[2] - s[1] < 0 PROVE g[s] = After(data, g, s)
    <3>1. s[2] < s[1]
      BY <1>0, <2>2
    <3> QED
      BY <3>1 DEF After
  <2>3. Upto(0, g)
    BY <2>1, <2>2
  <2> HIDE DEF Upto, g
  <2> QED
    BY <1>0, <2>3
<1>2. ASSUME NEW m \in 0 .. n, m \in T, m < n PROVE m + 1 \in T
  <2>1. PICK f : Upto(m, f)
    BY <1>2
  <2> DEFINE g == [s \in Spans(data) |-> IF s[2] - s[1] < m + 1 THEN After(data, f, s) ELSE f[s]]
  <2>2. ASSUME NEW s \in Spans(data) PROVE After(data, f, s) \in Word
    <3>1. CASE s[2] < s[1]
      BY <1>0, <3>1 DEF After
    <3>2. CASE s[2] = s[1]
      BY <1>0, <3>2, ByteShifted DEF After
    <3>3. CASE s[2] > s[1]
      <4>1. f[<<s[1], (s[1] + s[2]) \div 2, s[3]>>] \in Word
        BY <2>1, <3>3, Halves
      <4>2. f[<<(s[1] + s[2]) \div 2 + 1, s[2], f[<<s[1], (s[1] + s[2]) \div 2, s[3]>>]>>] \in Word
        BY <2>1, <3>3, <4>1, Halves
      <4> QED
        BY <1>0, <3>3, <4>2 DEF After
    <3> QED
      BY <1>0, <3>1, <3>2, <3>3
  <2>3. g \in [Spans(data) -> Word]
    BY <2>1, <2>2
  <2>4. ASSUME NEW s \in Spans(data), s[2] - s[1] < m PROVE g[s] = f[s]
    <3>1. s[2] - s[1] < m + 1
      BY <1>0, <2>4
    <3> QED
      BY <2>1, <2>4, <3>1
  <2>5. ASSUME NEW s \in Spans(data), s[2] - s[1] < m + 1 PROVE g[s] = After(data, g, s)
    <3>0. s[1] \in Nat /\ s[2] \in Nat
      BY <1>0
    <3>1. g[s] = After(data, f, s)
      BY <2>5
    <3>2. CASE s[2] <= s[1]
      <4>1. s[2] < s[1] \/ s[2] = s[1]
        BY <3>0, <3>2
      <4>2. After(data, f, s) = After(data, g, s)
        <5> HIDE DEF g
        <5> QED
          BY <4>1, Zenon DEF After
      <4> QED
        BY <3>1, <4>2
    <3>3. CASE s[2] > s[1]
      <4> DEFINE mid == (s[1] + s[2]) \div 2
                 a == <<s[1], mid, s[3]>>
      <4>1. a \in Spans(data) /\ mid \in Int /\ mid - s[1] < s[2] - s[1] /\ s[2] - (mid + 1) < s[2] - s[1]
        BY <1>0, <3>3, Halves
      <4>2. a[2] - a[1] < m
        BY <2>5, <3>0, <4>1
      <4>3. f[a] \in Word /\ g[a] = f[a]
        BY <2>1, <2>4, <4>1, <4>2
      <4> DEFINE b == <<mid + 1, s[2], f[a]>>
      <4>4. b \in Spans(data)
        BY <3>3, <4>3, Halves
      <4>5. b[2] - b[1] < m
        BY <2>5, <3>0, <4>1
      <4>6. g[b] = f[b]
        BY <2>4, <4>4, <4>5
      <4>7. After(data, f, s) = f[b] /\ After(data, g, s) = g[<<mid + 1, s[2], g[a]>>]
        <5>1. ~(s[2] < s[1]) /\ s[2] # s[1]
          BY <3>0, <3>3
        <5> HIDE DEF g
        <5> QED
          BY <5>1 DEF After
      <4> QED
        BY <3>1, <4>3, <4>6, <4>7
    <3> QED
      BY <3>0, <3>2, <3>3
  <2>6. m + 1 \in 0 .. n
    BY <1>0, <1>2
  <2>7. Upto(m + 1, g)
    BY <2>3, <2>5
  <2> HIDE DEF g
  <2> QED
    BY <2>6, <2>7
<1>3. n \in T
  <2> HIDE DEF T, n
  <2> QED
    BY <1>0, <1>1, <1>2, Upwards
<1>4. PICK f : Upto(n, f)
  BY <1>3
<1>5. ASSUME NEW s \in Spans(data) PROVE f[s] = After(data, f, s)
  <2>1. s[2] - s[1] < n
    BY <1>0
  <2> QED
    BY <1>4, <2>1
<1>6. f = [s \in Spans(data) |-> After(data, f, s)]
  BY <1>4, <1>5
<1>7. Register(data) = CHOOSE g : g = [s \in Spans(data) |-> After(data, g, s)]
  BY Zenon DEF Register, Spans, After
<1> QED
  BY <1>6, <1>7

LEMMA CrcType ==
  ASSUME NEW data \in Seq(Byte)
  PROVE  crc16(data) \in Word
<1> DEFINE n == Len(data)
           f == Register(data)
           T == {m \in 0 .. n : \A s \in Spans(data) : s[2] - s[1] < m => f[s] \in Word}
<1>0. n \in Nat /\ \A s \in Spans(data) : s[1] \in 1 .. n + 1 /\ s[2] \in 0 .. n /\ s[3] \in Word
  BY DEF Spans
<1>1. \A s \in Spans(data) : f[s] = After(data, f, s)
  BY RegisterIs
<1>2. 0 \in T
  <2>1. ASSUME NEW s \in Spans(data), s[2] - s[1] < 0 PROVE f[s] \in Word
    <3>1. s[2] < s[1]
      BY <1>0, <2>1
    <3> QED
      BY <1>0, <1>1, <3>1 DEF After
  <2> QED
    BY <1>0, <2>1
<1>3. ASSUME NEW m \in 0 .. n, m \in T, m < n PROVE m + 1 \in T
  <2>1. ASSUME NEW s \in Spans(data), s[2] - s[1] < m + 1 PROVE f[s] \in Word
    <3>0. s[1] \in Nat /\ s[2] \in Nat /\ s[3] \in Word
      BY <1>0
    <3>1. CASE s[2] < s[1]
      BY <1>0, <1>1, <3>1 DEF After
    <3>2. CASE s[2] = s[1]
      <4>1. ~(s[2] < s[1])
        BY <3>0, <3>2
      <4>2. After(data, f, s) = Shift8[Xor(s[3], 256 * data[s[1]])]
        BY <3>2, <4>1, Zenon DEF After
      <4> QED
        BY <1>1, <3>2, <4>2, ByteShifted
    <3>3. CASE s[2] > s[1]
      <4> DEFINE mid == (s[1] + s[2]) \div 2
                 a == <<s[1], mid, s[3]>>
                 b == <<mid + 1, s[2], f[a]>>
      <4>1. a \in Spans(data) /\ mid \in Int /\ mid - s[1] < s[2] - s[1] /\ s[2] - (mid + 1) < s[2] - s[1]
        BY <1>0, <3>3, Halves
      <4>2. a[2] - a[1] < m
        BY <2>1, <3>0, <4>1
      <4>3. f[a] \in Word
        BY <1>3, <4>1, <4>2
      <4>4. b \in Spans(data)
        BY <3>3, <4>3, Halves
      <4>5. b[2] - b[1] < m
        BY <2>1, <3>0, <4>1
      <4>6. f[b] \in Word
        BY <1>3, <4>4, <4>5
      <4>7. f[s] = f[b]
        BY <1>0, <1>1, <3>3 DEF After
      <4> QED
        BY <4>6, <4>7
    <3> QED
      BY <1>0, <3>1, <3>2, <3>3
  <2>2. m + 1 \in 0 .. n
    BY <1>0, <1>3
  <2> QED
    BY <2>1, <2>2
<1>4. n \in T
  <2> HIDE DEF T, n
  <2> QED
    BY <1>0, <1>2, <1>3, Upwards
<1>5. <<1, n, Modulus - 1>> \in Spans(data)
  <2>1. Modulus - 1 \in Word
    BY ModulusType DEF Word
  <2> QED
    BY <1>0, <2>1 DEF Spans
<1>6. n - 1 < n
  BY <1>0
<1> QED
  BY <1>4, <1>5, <1>6 DEF crc16

-----------------------------------------------------------------------------
(* Sequences                                                               *)

LEMMA LenIsNat ==
  ASSUME NEW Els, NEW s \in Seq(Els)
  PROVE  Len(s) \in Nat
OBVIOUS

LEMMA Concat ==
  ASSUME NEW Els, NEW s \in Seq(Els), NEW t \in Seq(Els), NEW g, g = s \o t,
         NEW l, l = Len(s), NEW m, m = Len(t)
  PROVE  /\ g \in Seq(Els) /\ Len(g) = l + m
         /\ \A i \in 1 .. l : g[i] = s[i]
         /\ \A i \in 1 .. m : g[l + i] = t[i]
OBVIOUS

LEMMA Retyped ==
  ASSUME NEW S, NEW T, NEW s \in Seq(S), \A i \in 1 .. Len(s) : s[i] \in T
  PROVE  s \in Seq(T)
<1>1. Len(s) \in Nat /\ s = [i \in 1 .. Len(s) |-> s[i]]
  OBVIOUS
<1> QED
  BY <1>1

\* Part of a sequence.
LEMMA Part ==
  ASSUME NEW Els, NEW s \in Seq(Els), NEW i \in Nat \ {0}, NEW e \in Nat,
         i <= e, e <= Len(s) + 1, NEW t, t = SubSeq(s, i, e - 1)
  PROVE  /\ t \in Seq(Els) /\ Len(t) = e - i
         /\ \A j \in 1 .. e - i : t[j] = s[i + j - 1]
<1>1. PICK n \in Nat : n = Len(s)
  OBVIOUS
<1>2. \A j \in i .. e - 1 : j \in 1 .. Len(s)
  BY <1>1
<1>3. t \in Seq(Els)
  BY <1>1, <1>2
<1>4. Len(t) = e - i
  BY <1>1
<1> QED
  BY <1>1, <1>3, <1>4

\* A block: a byte, a run and what follows.
LEMMA BlockLaid ==
  ASSUME NEW Els, NEW x \in Els, NEW s \in Seq(Els), NEW t \in Seq(Els),
         NEW g, g = <<x>> \o s \o t, NEW l, l = Len(s), NEW m, m = Len(t)
  PROVE  /\ g \in Seq(Els) /\ Len(g) = 1 + l + m /\ g[1] = x
         /\ \A j \in 1 .. l : g[1 + j] = s[j]
         /\ \A j \in 1 .. m : g[1 + l + j] = t[j]
<1>1. PICK h : h = <<x>> \o s
  OBVIOUS
<1>2. /\ h \in Seq(Els) /\ Len(h) = 1 + l /\ h[1] = x
      /\ \A j \in 1 .. l : h[1 + j] = s[j]
  BY <1>1
<1>3. l \in Nat /\ m \in Nat /\ g = h \o t
  BY <1>1
<1>4. PICK k \in Nat : k = 1 + l /\ k = Len(h)
  BY <1>2, <1>3
<1>5. /\ g \in Seq(Els) /\ Len(g) = k + m
      /\ \A j \in 1 .. k : g[j] = h[j]
      /\ \A j \in 1 .. m : g[k + j] = t[j]
  BY <1>2, <1>3, <1>4, Concat
<1>6. \A j \in 1 .. l : g[1 + j] = s[j]
  <2> TAKE j \in 1 .. l
  <2>1. 1 + j \in 1 .. k
    BY <1>3, <1>4
  <2> QED
    BY <1>2, <1>5, <2>1
<1>7. g[1] = x
  <2>1. 1 \in 1 .. k
    BY <1>3, <1>4
  <2> QED
    BY <1>2, <1>5, <2>1
<1> QED
  BY <1>4, <1>5, <1>6, <1>7

-----------------------------------------------------------------------------
(* The encoder                                                             *)

LEMMA RunEndFacts ==
  ASSUME NEW data \in Seq(Byte), NEW i \in 1 .. Len(data) + 1, NEW e, e = RunEnd(data, i)
  PROVE  /\ e \in Nat /\ i <= e /\ e <= Len(data) + 1 /\ e <= i + MaxRun
         /\ \A j \in i .. e - 1 : data[j] # 0
         /\ e <= Len(data) /\ e # i + MaxRun => data[e] = 0
<1> DEFINE ends == {i + MaxRun, Len(data) + 1} \cup {j \in i .. Len(data) : data[j] = 0}
<1>1. Len(data) \in Nat /\ MaxRun \in Nat
  BY FrameAssumption
<1>2. ends \subseteq Nat /\ ends # {}
  BY <1>1
<1>3. \E j \in ends : \A k \in ends : j <= k
  <2> HIDE DEF ends
  <2> QED
    BY <1>2, Least
<1>4. e = CHOOSE j \in ends : \A k \in ends : j <= k
  BY DEF RunEnd
<1>5. e \in ends /\ \A k \in ends : e <= k
  <2> HIDE DEF ends
  <2> QED
    BY <1>3, <1>4
<1>6. e \in Nat /\ e <= Len(data) + 1 /\ e <= i + MaxRun
  BY <1>2, <1>5
<1>7. i <= e
  BY <1>1, <1>5
<1>8. ASSUME NEW j \in i .. e - 1 PROVE data[j] # 0
  <2>1. j \in i .. Len(data) /\ ~(e <= j)
    BY <1>1, <1>6
  <2> QED
    BY <1>5, <2>1
<1>9. ASSUME e <= Len(data), e # i + MaxRun PROVE data[e] = 0
  <2>1. e # Len(data) + 1
    BY <1>1, <1>6, <1>9
  <2> QED
    BY <1>5, <1>9, <2>1
<1> QED
  BY <1>6, <1>7, <1>8, <1>9

\* Where the next block begins.
NextRun(data, i) ==
  IF RunEnd(data, i) = i + MaxRun THEN RunEnd(data, i) ELSE RunEnd(data, i) + 1

\* The body of the recursion.
Block(data, f, i) ==
  <<RunEnd(data, i) - i + 1>> \o SubSeq(data, i, RunEnd(data, i) - 1)
    \o (IF RunEnd(data, i) > Len(data) THEN <<>> ELSE f[NextRun(data, i)])

LEMMA NextRunFacts ==
  ASSUME NEW data \in Seq(Byte), NEW i \in 1 .. Len(data) + 1, RunEnd(data, i) <= Len(data)
  PROVE  NextRun(data, i) \in i + 1 .. Len(data) + 1
<1>1. PICK e \in Nat : e = RunEnd(data, i) /\ i <= e
  BY RunEndFacts
<1>2. Len(data) \in Nat /\ MaxRun \in Nat \ {0}
  BY FrameAssumption
<1> QED
  BY <1>1, <1>2 DEF NextRun

LEMMA BlocksIs ==
  ASSUME NEW data \in Seq(Byte)
  PROVE  Blocks(data) = [i \in 1 .. Len(data) + 1 |-> Block(data, Blocks(data), i)]
<1> DEFINE Defines(i, f) == \A j \in i .. Len(data) + 1 : f[j] = Block(data, f, j)
           T == {i \in 1 .. Len(data) + 1 : \E f : Defines(i, f)}
<1>1. PICK n \in Nat : n = Len(data) + 1
  OBVIOUS
<1>2. ASSUME NEW i \in 1 .. n, \A j \in i + 1 .. n : j \in T PROVE i \in T
  <2>1. PICK f : Defines(i + 1, f)
    <3>1. CASE i = n
      <4>1. Defines(i + 1, 0)
        BY <1>1, <3>1
      <4> QED
        BY <4>1
    <3>2. CASE i # n
      <4>1. i + 1 \in i + 1 .. n
        BY <3>2
      <4>2. i + 1 \in T
        BY <1>2, <4>1
      <4> HIDE DEF Defines
      <4> QED
        BY <4>2
    <3> QED
      BY <3>1, <3>2
  <2> DEFINE g == [j \in i .. n |-> IF j = i THEN Block(data, f, i) ELSE f[j]]
  <2>2. ASSUME NEW j \in i .. n PROVE g[j] = Block(data, g, j)
    <3>1. j \in 1 .. Len(data) + 1 /\ (j = i \/ j \in i + 1 .. Len(data) + 1)
      BY <1>1
    <3>2. g[j] = Block(data, f, j)
      BY <2>1, <3>1
    <3>3. ASSUME RunEnd(data, j) <= Len(data) PROVE g[NextRun(data, j)] = f[NextRun(data, j)]
      <4>1. NextRun(data, j) \in j + 1 .. Len(data) + 1
        BY <3>1, <3>3, NextRunFacts
      <4>2. NextRun(data, j) \in i .. n /\ NextRun(data, j) # i
        BY <1>1, <4>1
      <4> QED
        BY <4>2
    <3>4. RunEnd(data, j) <= Len(data) \/ RunEnd(data, j) > Len(data)
      BY <3>1, RunEndFacts
    <3> HIDE DEF g
    <3>5. Block(data, f, j) = Block(data, g, j)
      BY <3>3, <3>4 DEF Block
    <3> QED
      BY <3>2, <3>5
  <2>3. Defines(i, g)
    BY <1>1, <2>2
  <2> HIDE DEF g, Defines
  <2> QED
    BY <1>1, <2>3
<1>3. 1 \in T
  <2> HIDE DEF T
  <2>1. \A i \in 1 .. n : i \in T
    BY <1>2, Backwards
  <2>2. 1 \in 1 .. n
    BY <1>1
  <2> QED
    BY <2>1, <2>2
<1>4. PICK f : Defines(1, f)
  BY <1>3
<1> DEFINE h == [i \in 1 .. Len(data) + 1 |-> f[i]]
<1>5. ASSUME NEW i \in 1 .. Len(data) + 1 PROVE h[i] = Block(data, h, i)
  <2>1. h[i] = Block(data, f, i)
    BY <1>4
  <2>2. ASSUME RunEnd(data, i) <= Len(data) PROVE h[NextRun(data, i)] = f[NextRun(data, i)]
    <3>1. NextRun(data, i) \in 1 .. Len(data) + 1
      <4>1. NextRun(data, i) \in i + 1 .. Len(data) + 1
        BY <2>2, NextRunFacts
      <4> QED
        BY <1>1, <4>1
    <3> QED
      BY <3>1
  <2>3. RunEnd(data, i) <= Len(data) \/ RunEnd(data, i) > Len(data)
    BY RunEndFacts
  <2> HIDE DEF h
  <2>4. Block(data, f, i) = Block(data, h, i)
    BY <2>2, <2>3 DEF Block
  <2> QED
    BY <2>1, <2>4
<1>6. h = [i \in 1 .. Len(data) + 1 |-> Block(data, h, i)]
  BY <1>5
<1>7. Blocks(data) = CHOOSE g : g = [i \in 1 .. Len(data) + 1 |-> Block(data, g, i)]
  BY Zenon DEF Blocks, Block, NextRun
<1> HIDE DEF h
<1> QED
  BY <1>6, <1>7

\* A byte that is not zero.
NonZero == 1 .. 255

LEMMA NonZeroIs ==
  ASSUME NEW x
  PROVE  x \in NonZero <=> x \in Nat /\ 1 <= x /\ x <= 255
BY SMT DEF NonZero

LEMMA NonZeroByte ==
  ASSUME NEW x
  PROVE  x \in NonZero <=> x \in Byte /\ x # 0
BY SMT DEF NonZero, Byte

\* The pieces of what the data from the i-th byte on are encoded to.
LEMMA BlockParts ==
  ASSUME NEW data \in Seq(Byte), NEW i \in 1 .. Len(data) + 1,
         NEW e, e = RunEnd(data, i), NEW from, from = Blocks(data),
         e <= Len(data) => from[NextRun(data, i)] \in Seq(NonZero)
  PROVE  LET rest == IF e > Len(data) THEN <<>> ELSE from[NextRun(data, i)]
         IN  /\ from[i] \in Seq(NonZero) /\ rest \in Seq(NonZero)
             /\ Len(from[i]) = 1 + (e - i) + Len(rest)
             /\ from[i][1] = e - i + 1
             /\ \A j \in 1 .. e - i : from[i][1 + j] = data[i + j - 1]
             /\ \A j \in 1 .. Len(rest) : from[i][1 + (e - i) + j] = rest[j]
<1> DEFINE rest == IF e > Len(data) THEN <<>> ELSE from[NextRun(data, i)]
<1>1. /\ e \in Nat /\ i <= e /\ e <= Len(data) + 1 /\ e <= i + MaxRun
      /\ \A j \in i .. e - 1 : data[j] # 0
  BY RunEndFacts
<1>2. i \in Nat \ {0} /\ Len(data) \in Nat /\ MaxRun \in Nat /\ MaxRun <= 254
  BY FrameAssumption
<1>3. PICK run : run = SubSeq(data, i, e - 1)
  OBVIOUS
<1>4. /\ run \in Seq(Byte) /\ Len(run) = e - i
      /\ \A j \in 1 .. e - i : run[j] = data[i + j - 1]
  BY <1>1, <1>2, <1>3, Part
<1>5. ASSUME NEW j \in 1 .. Len(run) PROVE run[j] \in NonZero
  <2>1. i + j - 1 \in i .. e - 1
    BY <1>1, <1>2, <1>4
  <2>2. run[j] \in Byte /\ run[j] # 0
    BY <1>1, <1>4, <2>1
  <2> QED
    BY <2>2, NonZeroByte
<1>6. run \in Seq(NonZero)
  BY <1>4, <1>5, Retyped
<1>7. rest \in Seq(NonZero)
  BY <1>1, <1>2
<1>8. e - i + 1 \in NonZero
  <2>1. PICK m \in Nat : m = MaxRun
    BY <1>2
  <2>2. PICK x \in Int : x = e - i + 1 /\ 1 <= x /\ x <= 255
    BY <1>1, <1>2, <2>1
  <2>3. x \in NonZero
    BY <2>2, NonZeroIs
  <2> QED
    BY <2>2, <2>3
<1>9. from[i] = <<e - i + 1>> \o run \o rest
  BY <1>3, BlocksIs DEF Block
<1> HIDE DEF rest
<1>10. /\ from[i] \in Seq(NonZero) /\ Len(from[i]) = 1 + (e - i) + Len(rest)
       /\ from[i][1] = e - i + 1
       /\ \A j \in 1 .. e - i : from[i][1 + j] = run[j]
       /\ \A j \in 1 .. Len(rest) : from[i][1 + (e - i) + j] = rest[j]
  <2>1. PICK x \in NonZero : x = e - i + 1
    BY <1>8
  <2>2. PICK l, m : l = e - i /\ m = Len(rest)
    OBVIOUS
  <2>3. PICK g : g = from[i]
    OBVIOUS
  <2>4. rest \in Seq(NonZero) /\ run \in Seq(NonZero) /\ g = <<x>> \o run \o rest /\ l = Len(run) /\ m = Len(rest)
    BY <1>4, <1>6, <1>7, <1>9, <2>1, <2>2, <2>3
  <2>5. /\ g \in Seq(NonZero) /\ Len(g) = 1 + l + m /\ g[1] = x
        /\ \A j \in 1 .. l : g[1 + j] = run[j]
        /\ \A j \in 1 .. m : g[1 + l + j] = rest[j]
    BY <2>4, BlockLaid
  <2> QED
    BY <2>1, <2>2, <2>3, <2>5
<1> QED
  BY <1>4, <1>7, <1>10 DEF rest

LEMMA BlocksType ==
  ASSUME NEW data \in Seq(Byte)
  PROVE  \A i \in 1 .. Len(data) + 1 : Blocks(data)[i] \in Seq(NonZero)
<1> DEFINE T == {i \in 1 .. Len(data) + 1 : Blocks(data)[i] \in Seq(NonZero)}
<1>1. PICK n \in Nat : n = Len(data) + 1
  OBVIOUS
<1>2. ASSUME NEW i \in 1 .. n, \A j \in i + 1 .. n : j \in T PROVE i \in T
  <2>1. RunEnd(data, i) <= Len(data) => Blocks(data)[NextRun(data, i)] \in Seq(NonZero)
    BY <1>1, <1>2, NextRunFacts
  <2>2. Blocks(data)[i] \in Seq(NonZero)
    BY <1>1, <2>1, BlockParts
  <2> QED
    BY <1>1, <2>2
<1>3. \A i \in 1 .. n : i \in T
  <2> HIDE DEF T
  <2> QED
    BY <1>2, Backwards
<1> QED
  BY <1>1, <1>3

LEMMA BlockNotEmpty ==
  ASSUME NEW data \in Seq(Byte), NEW i \in 1 .. Len(data) + 1
  PROVE  Len(Blocks(data)[i]) # 0
<1>1. PICK x \in Nat : x = RunEnd(data, i) /\ i <= x
  BY RunEndFacts
<1>2. PICK rest : rest = IF x > Len(data) THEN <<>> ELSE Blocks(data)[NextRun(data, i)]
  OBVIOUS
<1>3. x <= Len(data) => Blocks(data)[NextRun(data, i)] \in Seq(NonZero)
  <2>1. x <= Len(data) => NextRun(data, i) \in i + 1 .. Len(data) + 1
    BY <1>1, NextRunFacts
  <2>2. NextRun(data, i) \in i + 1 .. Len(data) + 1 => NextRun(data, i) \in 1 .. Len(data) + 1
    OBVIOUS
  <2> QED
    BY <2>1, <2>2, BlocksType
<1>4. rest \in Seq(NonZero) /\ Len(Blocks(data)[i]) = 1 + (x - i) + Len(rest)
  BY <1>1, <1>2, <1>3, BlockParts
<1>5. PICK r \in Nat : r = Len(rest)
  BY <1>4, LenIsNat
<1>6. 1 + (x - i) + r # 0
  BY <1>1
<1> QED
  BY <1>4, <1>5, <1>6

\* What a block costs: n is the end of the data, x that of the run, y the next.
LEMMA Costs ==
  ASSUME NEW n \in Nat, NEW i \in Nat, NEW b \in Nat, NEW r \in Nat, NEW x \in Nat, NEW y \in Nat,
         b = 1 + (x - i) + r, 254 * (r - (n + 1 - y)) <= n - y, i <= x,
         (x = i + 254 /\ y = x) \/ y = x + 1
  PROVE  254 * (b - (n + 1 - i)) <= n - i
<1>1. CASE x = i + 254 /\ y = x
  BY <1>1
<1>2. CASE y = x + 1
  <2>1. b - (n + 1 - i) = r - (n + 1 - y)
    BY <1>2
  <2> QED
    BY <1>2, <2>1
<1> QED
  BY <1>1, <1>2

\* COBS costs one byte, and one more for every full block.
LEMMA BlocksLen ==
  ASSUME NEW data \in Seq(Byte), MaxRun = 254
  PROVE  \A i \in 1 .. Len(data) + 1 :
           254 * (Len(Blocks(data)[i]) - (Len(data) + 2 - i)) <= Len(data) + 1 - i
<1>1. PICK n \in Nat : n = Len(data) + 1 /\ n - 1 = Len(data) /\ n + 1 = Len(data) + 2
  OBVIOUS
<1> DEFINE Short(i) == 254 * (Len(Blocks(data)[i]) - (n + 1 - i)) <= n - i
           T == {i \in 1 .. n : Short(i)}
<1>2. ASSUME NEW i \in 1 .. n, \A j \in i + 1 .. n : j \in T PROVE Short(i)
  <2>0. i \in 1 .. Len(data) + 1
    BY <1>1
  <2>1. PICK x \in Nat : x = RunEnd(data, i) /\ i <= x /\ x <= n /\ x <= i + 254
    BY <1>1, <2>0, RunEndFacts
  <2>2. PICK y : y = NextRun(data, i)
    OBVIOUS
  <2>3. (x = i + 254 /\ y = x) \/ y = x + 1
    BY <2>1, <2>2 DEF NextRun
  <2>4. x < n => y \in i + 1 .. n
    BY <1>1, <2>0, <2>1, <2>2, NextRunFacts
  <2>5. PICK rest : rest = IF x > Len(data) THEN <<>> ELSE Blocks(data)[y]
    OBVIOUS
  <2>6. x <= Len(data) => Blocks(data)[y] \in Seq(NonZero)
    BY <1>1, <2>1, <2>4, BlocksType
  <2>7. rest \in Seq(NonZero) /\ Blocks(data)[i] \in Seq(NonZero)
        /\ Len(Blocks(data)[i]) = 1 + (x - i) + Len(rest)
    BY <2>0, <2>1, <2>2, <2>5, <2>6, BlockParts
  <2>8. PICK b \in Nat : b = Len(Blocks(data)[i])
    BY <2>7, LenIsNat
  <2>9. PICK r \in Nat : r = Len(rest)
    BY <2>7, LenIsNat
  <2>10. b = 1 + (x - i) + r
    BY <2>7, <2>8, <2>9
  <2>11. CASE x = n
    <3>1. x > Len(data)
      BY <1>1, <2>11
    <3>2. r = 0
      BY <2>5, <2>9, <3>1
    <3>3. b = n + 1 - i
      BY <2>10, <2>11, <3>2
    <3>4. 254 * (b - (n + 1 - i)) <= n - i
      BY <3>3
    <3> QED
      BY <2>8, <3>4
  <2>12. CASE x < n
    <3>1. ~(x > Len(data))
      BY <1>1, <2>12
    <3>2. y \in i + 1 .. n /\ rest = Blocks(data)[y]
      BY <2>4, <2>5, <2>12, <3>1
    <3>3. y \in T
      <4> HIDE DEF T
      <4> QED
        BY <1>2, <3>2
    <3>4. Short(y)
      <4> HIDE DEF Short
      <4> QED
        BY <3>3
    <3>5. y \in Nat /\ 254 * (r - (n + 1 - y)) <= n - y
      BY <2>9, <3>2, <3>4
    <3>6. 254 * (b - (n + 1 - i)) <= n - i
      <4>1. i \in Nat
        OBVIOUS
      <4> QED
        BY <2>1, <2>3, <2>10, <3>5, <4>1, Costs, Zenon
    <3> QED
      BY <2>8, <3>6
  <2> QED
    BY <2>1, <2>11, <2>12
<1>3. \A i \in 1 .. n : i \in T
  <2>1. \A i \in 1 .. n : (\A j \in i + 1 .. n : j \in T) => i \in T
    <3> HIDE DEF Short
    <3> QED
      BY <1>2
  <2> HIDE DEF T
  <2> QED
    BY <2>1, Backwards
<1> QED
  BY <1>1, <1>3

-----------------------------------------------------------------------------
(* The decoder                                                             *)

\* Two sequences with the same bytes.
LEMMA SameBytes ==
  ASSUME NEW Els, NEW s \in Seq(Els), NEW t \in Seq(Els), Len(s) = Len(t),
         \A j \in 1 .. Len(s) : s[j] = t[j]
  PROVE  s = t
<1>1. s = [j \in 1 .. Len(s) |-> s[j]] /\ t = [j \in 1 .. Len(s) |-> t[j]]
  OBVIOUS
<1> QED
  BY <1>1

\* A block, what it stands for after its run, and the body of the recursion.
Run(s, p) == LET next == p + s[p] IN SubSeq(s, p + 1, next - 1)

Ends(s, p) == IF s[p] > MaxRun THEN <<>> ELSE <<0>>

Unblock(s, f, p) ==
  IF s[p] = 0 \/ p + s[p] > Len(s) + 1 \/ \E j \in DOMAIN Run(s, p) : Run(s, p)[j] = 0 THEN {}
  ELSE IF p + s[p] = Len(s) + 1 THEN {Run(s, p)}
  ELSE {Run(s, p) \o Ends(s, p) \o rest : rest \in f[p + s[p]]}

LEMMA OneBlock ==
  ASSUME NEW s \in Seq(Byte), NEW p \in 1 .. Len(s),
         ~(s[p] = 0), ~(p + s[p] > Len(s) + 1)
  PROVE  /\ p + s[p] \in p + 1 .. Len(s) + 1
         /\ Run(s, p) \in Seq(Byte) /\ Ends(s, p) \in Seq(Byte)
<1>1. s[p] \in Byte
  OBVIOUS
<1>2. PICK x \in Nat \ {0} : x = s[p]
  BY <1>1, NonZeroByte, NonZeroIs
<1>3. PICK n \in Nat : n = Len(s)
  OBVIOUS
<1>4. p + x \in p + 1 .. n + 1
  BY <1>2, <1>3
<1>5. PICK a, b : a = p + 1 /\ b = p + s[p]
  OBVIOUS
<1>6. a \in Nat \ {0} /\ b \in Nat /\ a <= b /\ b <= Len(s) + 1
  BY <1>2, <1>3, <1>4, <1>5
<1>7. Run(s, p) = SubSeq(s, a, b - 1)
  BY <1>5, Zenon DEF Run
<1>8. Run(s, p) \in Seq(Byte)
  BY <1>6, <1>7, Part
<1>9. 0 \in Byte
  BY SMT DEF Byte
<1> QED
  BY <1>2, <1>3, <1>4, <1>8, <1>9 DEF Ends

LEMMA UnblockSame ==
  ASSUME NEW s \in Seq(Byte), NEW p \in 1 .. Len(s), NEW f, NEW g,
         \A j \in p + 1 .. Len(s) : f[j] = g[j]
  PROVE  Unblock(s, f, p) = Unblock(s, g, p)
<1>1. CASE s[p] = 0 \/ p + s[p] > Len(s) + 1 \/ p + s[p] = Len(s) + 1
  BY <1>1, Zenon DEF Unblock
<1>2. CASE ~(s[p] = 0) /\ ~(p + s[p] > Len(s) + 1) /\ p + s[p] # Len(s) + 1
  <2>1. p + s[p] \in p + 1 .. Len(s) + 1
    BY <1>2, OneBlock
  <2>2. p + s[p] \in p + 1 .. Len(s)
    BY <1>2, <2>1
  <2>3. f[p + s[p]] = g[p + s[p]]
    BY <2>2
  <2> QED
    BY <2>3, Zenon DEF Unblock
<1> QED
  BY <1>1, <1>2

LEMMA UnblockedIs ==
  ASSUME NEW s \in Seq(Byte)
  PROVE  Unblocked(s) = [p \in 1 .. Len(s) |-> Unblock(s, Unblocked(s), p)]
<1> DEFINE Defines(i, f) == \A j \in i .. Len(s) : f[j] = Unblock(s, f, j)
           T == {i \in 1 .. Len(s) : \E f : Defines(i, f)}
<1>1. PICK n \in Nat : n = Len(s)
  OBVIOUS
<1>2. ASSUME NEW i \in 1 .. n, \A j \in i + 1 .. n : j \in T PROVE i \in T
  <2>1. PICK f : Defines(i + 1, f)
    <3>1. CASE i = n
      <4>1. Defines(i + 1, 0)
        BY <1>1, <3>1
      <4> QED
        BY <4>1
    <3>2. CASE i # n
      <4>1. i + 1 \in i + 1 .. n
        BY <3>2
      <4>2. i + 1 \in T
        BY <1>2, <4>1
      <4> HIDE DEF Defines
      <4> QED
        BY <4>2
    <3> QED
      BY <3>1, <3>2
  <2> DEFINE g == [j \in i .. n |-> IF j = i THEN Unblock(s, f, i) ELSE f[j]]
  <2>2. ASSUME NEW j \in i .. n PROVE g[j] = Unblock(s, g, j)
    <3>1. j \in 1 .. Len(s) /\ (j = i \/ j \in i + 1 .. Len(s))
      BY <1>1
    <3>2. g[j] = Unblock(s, f, j)
      BY <2>1, <3>1
    <3>3. ASSUME NEW k \in j + 1 .. Len(s) PROVE f[k] = g[k]
      <4>1. k \in i .. n /\ k # i
        BY <1>1
      <4> QED
        BY <4>1
    <3> HIDE DEF g
    <3>5. Unblock(s, f, j) = Unblock(s, g, j)
      BY <3>1, <3>3, UnblockSame
    <3> QED
      BY <3>2, <3>5
  <2>3. Defines(i, g)
    BY <1>1, <2>2
  <2> HIDE DEF g, Defines
  <2> QED
    BY <1>1, <2>3
<1>3. \A i \in 1 .. n : i \in T
  <2> HIDE DEF T
  <2> QED
    BY <1>2, Backwards
<1>4. \E g : g = [p \in 1 .. Len(s) |-> Unblock(s, g, p)]
  <2>1. CASE n = 0
    <3>1. 1 .. Len(s) = {}
      BY <1>1, <2>1
    <3>2. \A f : [p \in 1 .. Len(s) |-> Unblock(s, f, p)] = [p \in {} |-> 0]
      BY <3>1
    <3> QED
      BY <3>2
  <2>2. CASE n # 0
    <3>1. 1 \in T
      <4>1. 1 \in 1 .. n
        BY <2>2
      <4> HIDE DEF T
      <4> QED
        BY <1>3, <4>1
    <3>2. PICK f : Defines(1, f)
      BY <3>1
    <3> DEFINE h == [p \in 1 .. Len(s) |-> f[p]]
    <3>3. ASSUME NEW p \in 1 .. Len(s) PROVE h[p] = Unblock(s, h, p)
      <4>1. h[p] = Unblock(s, f, p)
        BY <3>2
      <4>2. ASSUME NEW k \in p + 1 .. Len(s) PROVE f[k] = h[k]
        <5>1. k \in 1 .. Len(s)
          BY <1>1
        <5> QED
          BY <5>1
      <4> HIDE DEF h
      <4>3. Unblock(s, f, p) = Unblock(s, h, p)
        BY <4>2, UnblockSame
      <4> QED
        BY <4>1, <4>3
    <3>4. h = [p \in 1 .. Len(s) |-> Unblock(s, h, p)]
      BY <3>3
    <3> HIDE DEF h
    <3> QED
      BY <3>4
  <2> QED
    BY <2>1, <2>2
<1>5. Unblocked(s) = CHOOSE g : g = [p \in 1 .. Len(s) |-> Unblock(s, g, p)]
  BY Zenon DEF Unblocked, Unblock, Run, Ends
<1> QED
  BY <1>4, <1>5

LEMMA UnblockedType ==
  ASSUME NEW s \in Seq(Byte)
  PROVE  \A p \in 1 .. Len(s) : Unblocked(s)[p] \subseteq Seq(Byte)
<1> DEFINE T == {p \in 1 .. Len(s) : Unblocked(s)[p] \subseteq Seq(Byte)}
<1>1. PICK n \in Nat : n = Len(s)
  OBVIOUS
<1>2. ASSUME NEW p \in 1 .. n, \A j \in p + 1 .. n : j \in T PROVE p \in T
  <2>1. p \in 1 .. Len(s) /\ Unblocked(s)[p] = Unblock(s, Unblocked(s), p)
    BY <1>1, UnblockedIs
  <2>2. ASSUME NEW d \in Unblocked(s)[p] PROVE d \in Seq(Byte)
    <3>1. ~(s[p] = 0) /\ ~(p + s[p] > Len(s) + 1)
      BY <2>1, <2>2, Zenon DEF Unblock
    <3>2. p + s[p] \in p + 1 .. Len(s) + 1 /\ Run(s, p) \in Seq(Byte) /\ Ends(s, p) \in Seq(Byte)
      BY <2>1, <3>1, OneBlock
    <3>3. CASE p + s[p] = Len(s) + 1
      <4>1. d = Run(s, p)
        BY <2>1, <2>2, <3>3 DEF Unblock
      <4> QED
        BY <3>2, <4>1
    <3>4. CASE p + s[p] # Len(s) + 1
      <4>1. PICK rest \in Unblocked(s)[p + s[p]] : d = Run(s, p) \o Ends(s, p) \o rest
        BY <2>1, <2>2, <3>4, Zenon DEF Unblock
      <4>2. p + s[p] \in p + 1 .. n
        BY <1>1, <3>2, <3>4
      <4>3. rest \in Seq(Byte)
        BY <1>2, <4>1, <4>2
      <4> QED
        BY <3>2, <4>1, <4>3
    <3> QED
      BY <3>3, <3>4
  <2> QED
    BY <2>1, <2>2
<1>3. \A i \in 1 .. n : i \in T
  <2> HIDE DEF T
  <2> QED
    BY <1>2, Backwards
<1> QED
  BY <1>1, <1>3

\* What the library makes of bytes are bytes.
LEMMA CobsDecodeType ==
  ASSUME NEW s \in Seq(Byte)
  PROVE  CobsDecode(s) \subseteq Seq(Byte)
<1>1. CASE s = <<>>
  BY <1>1 DEF CobsDecode
<1>2. CASE s # <<>>
  <2>1. 1 \in 1 .. Len(s)
    BY <1>2
  <2> QED
    BY <1>2, <2>1, UnblockedType, Zenon DEF CobsDecode
<1> QED
  BY <1>1, <1>2

-----------------------------------------------------------------------------
(* There and back                                                          *)

\* The lengths of three parts, from i to e, to y and to the end.
LEMMA Gaps ==
  ASSUME NEW i \in Nat, NEW e \in Nat, NEW y \in Nat, NEW n \in Nat,
         i <= e, e <= n, y = e \/ y = e + 1
  PROVE  /\ e - i \in Nat /\ y - e \in Nat /\ (n + 1) - y \in Nat
         /\ (e - i) + (y - e) + ((n + 1) - y) = (n + 1) - i
OBVIOUS

\* From i to e, then z up to y, which is nothing or one byte, and on to n.
Between(s, i, e, z, y, n) ==
  /\ i \in Nat \ {0} /\ e \in Nat /\ y \in Nat /\ n \in Nat
  /\ n = Len(s) /\ i <= e /\ e <= n
  /\ (z = <<>> /\ y = e) \/ (z = <<s[e]>> /\ y = e + 1)

Joins(s, i, e, z, y, n) ==
  SubSeq(s, i, e - 1) \o z \o SubSeq(s, y, n) = SubSeq(s, i, n)

\* A part, a zero or nothing, and the rest are the whole.
LEMMA Rejoined ==
  ASSUME NEW Els, NEW s \in Seq(Els), NEW i, NEW e, NEW y, NEW n, NEW z, Between(s, i, e, z, y, n)
  PROVE  Joins(s, i, e, z, y, n)
<1>0. /\ i \in Nat \ {0} /\ e \in Nat /\ y \in Nat /\ n \in Nat
      /\ n = Len(s) /\ i <= e /\ e <= n
      /\ (z = <<>> /\ y = e) \/ (z = <<s[e]>> /\ y = e + 1)
  BY Zenon DEF Between
<1>1. PICK a, b, c : a = SubSeq(s, i, e - 1) /\ b = SubSeq(s, y, n) /\ c = SubSeq(s, i, n)
  OBVIOUS
<1>2. a \in Seq(Els) /\ Len(a) = e - i /\ \A j \in 1 .. e - i : a[j] = s[i + j - 1]
  BY <1>0, <1>1, Part
<1>3. b \in Seq(Els) /\ Len(b) = n + 1 - y /\ \A j \in 1 .. n + 1 - y : b[j] = s[y + j - 1]
  <2>1. y \in Nat \ {0} /\ y <= n + 1 /\ n + 1 \in Nat /\ n + 1 <= Len(s) + 1 /\ (n + 1) - 1 = n
    BY <1>0
  <2>2. b = SubSeq(s, y, (n + 1) - 1)
    BY <1>1, <2>1
  <2> QED
    BY <2>1, <2>2, Part
<1>4. c \in Seq(Els) /\ Len(c) = n + 1 - i /\ \A j \in 1 .. n + 1 - i : c[j] = s[i + j - 1]
  <2>1. i <= n + 1 /\ n + 1 \in Nat /\ n + 1 <= Len(s) + 1 /\ (n + 1) - 1 = n
    BY <1>0
  <2>2. c = SubSeq(s, i, (n + 1) - 1)
    BY <1>1, <2>1
  <2> QED
    BY <1>0, <2>1, <2>2, Part
<1>5. PICK k \in Nat, l \in Nat, m \in Nat : k = e - i /\ l = y - e /\ m = (n + 1) - y /\ k + l + m = (n + 1) - i
  <2>1. y = e \/ y = e + 1
    BY <1>0, Zenon
  <2>2. i \in Nat
    BY <1>0
  <2>3. /\ e - i \in Nat /\ y - e \in Nat /\ (n + 1) - y \in Nat
        /\ (e - i) + (y - e) + ((n + 1) - y) = (n + 1) - i
    BY <1>0, <2>1, <2>2, Gaps
  <2> QED
    BY <2>3, Zenon
<1>6. PICK g : g = a \o z
  OBVIOUS
<1>7. s[e] \in Els
  <2>1. e \in 1 .. Len(s)
    BY <1>0
  <2> QED
    BY <2>1
<1>8. z \in Seq(Els) /\ Len(z) = l /\ \A j \in 1 .. l : z[j] = s[e + j - 1]
  <2>1. CASE z = <<>> /\ y = e
    BY <1>0, <1>5, <2>1
  <2>2. CASE z = <<s[e]>> /\ y = e + 1
    <3>1. l = 1 /\ e + 1 - 1 = e
      BY <1>0, <1>5, <2>2
    <3>2. z \in Seq(Els) /\ Len(z) = 1 /\ z[1] = s[e]
      BY <1>7, <2>2
    <3>3. \A j \in 1 .. l : j = 1
      BY <3>1
    <3> QED
      BY <3>1, <3>2, <3>3
  <2> QED
    BY <1>0, <2>1, <2>2, Zenon
<1>9. /\ g \in Seq(Els) /\ Len(g) = k + l
      /\ \A j \in 1 .. k : g[j] = a[j]
      /\ \A j \in 1 .. l : g[k + j] = z[j]
  <2>1. k = Len(a) /\ l = Len(z)
    BY <1>2, <1>5, <1>8
  <2>2. a \in Seq(Els) /\ z \in Seq(Els)
    BY <1>2, <1>8
  <2> QED
    BY <1>6, <2>1, <2>2, Concat
<1>10. PICK h : h = g \o b
  OBVIOUS
<1>11. PICK q \in Nat : q = k + l /\ q = Len(g) /\ q + m = n + 1 - i
  BY <1>0, <1>5, <1>9
<1>12. /\ h \in Seq(Els) /\ Len(h) = q + m
       /\ \A j \in 1 .. q : h[j] = g[j]
       /\ \A j \in 1 .. m : h[q + j] = b[j]
  <2>1. q = Len(g) /\ m = Len(b)
    <3>1. m = Len(b)
      BY <1>0, <1>3, <1>5
    <3> QED
      BY <1>11, <3>1
  <2>2. g \in Seq(Els) /\ b \in Seq(Els)
    BY <1>3, <1>9
  <2> QED
    BY <1>10, <2>1, <2>2, Concat
<1>13. ASSUME NEW j \in 1 .. q + m PROVE h[j] = s[i + j - 1]
  <2>1. CASE j <= k
    <3>1. j \in 1 .. k /\ j \in 1 .. q /\ j \in 1 .. e - i
      BY <1>5, <1>11, <2>1
    <3> QED
      BY <1>2, <1>9, <1>12, <3>1
  <2>2. CASE k < j /\ j <= q
    <3>1. PICK r \in 1 .. l : r = j - k /\ j = k + r /\ e + r - 1 = i + j - 1
      BY <1>0, <1>5, <1>11, <2>2
    <3>2. j \in 1 .. q
      BY <2>2
    <3>3. h[j] = g[j] /\ g[k + r] = z[r] /\ z[r] = s[e + r - 1]
      BY <1>8, <1>9, <1>12, <3>2
    <3> QED
      BY <3>1, <3>3
  <2>3. CASE q < j
    <3>1. PICK r \in 1 .. m : r = j - q /\ j = q + r /\ y + r - 1 = i + j - 1 /\ r \in 1 .. n + 1 - y
      BY <1>0, <1>5, <1>11, <2>3
    <3>2. h[q + r] = b[r] /\ b[r] = s[y + r - 1]
      BY <1>3, <1>12, <3>1
    <3> QED
      BY <3>1, <3>2
  <2> QED
    BY <2>1, <2>2, <2>3, <1>11, <1>5
<1>14. ASSUME NEW j \in 1 .. Len(h) PROVE h[j] = c[j]
  <2>1. j \in 1 .. q + m /\ j \in 1 .. n + 1 - i
    BY <1>11, <1>12
  <2> QED
    BY <1>4, <1>13, <2>1
<1>15. Len(h) = Len(c)
  BY <1>4, <1>11, <1>12
<1>16. h = c
  BY <1>4, <1>12, <1>14, <1>15, SameBytes
<1> QED
  BY <1>1, <1>6, <1>10, <1>16, Zenon DEF Joins

\* The string w ends in t, from p on.
EndsIn(w, p, t) ==
  /\ p \in 1 .. Len(w)
  /\ p + Len(t) = Len(w) + 1
  /\ \A j \in 1 .. Len(t) : w[p + j - 1] = t[j]

\* A block is read as the run that it was made of, and what follows is next.
LEMMA BlockRead ==
  ASSUME NEW data \in Seq(Byte), NEW i \in 1 .. Len(data) + 1,
         NEW w \in Seq(Byte), NEW p, EndsIn(w, p, Blocks(data)[i]),
         NEW e, e = RunEnd(data, i)
  PROVE  /\ w[p] = e - i + 1 /\ p + w[p] <= Len(w) + 1 /\ Run(w, p) = SubSeq(data, i, e - 1)
         /\ e > Len(data) => p + w[p] = Len(w) + 1
         /\ e <= Len(data) => EndsIn(w, p + w[p], Blocks(data)[NextRun(data, i)])
<1>1. /\ e \in Nat /\ i <= e /\ e <= Len(data) + 1 /\ e <= i + MaxRun
      /\ \A j \in i .. e - 1 : data[j] # 0
  BY RunEndFacts
<1>2. i \in Nat \ {0} /\ Len(data) \in Nat
  OBVIOUS
<1>3. PICK rest : rest = IF e > Len(data) THEN <<>> ELSE Blocks(data)[NextRun(data, i)]
  OBVIOUS
<1>4. PICK t : t = Blocks(data)[i]
  OBVIOUS
<1>5. e <= Len(data) => NextRun(data, i) \in i + 1 .. Len(data) + 1
  BY NextRunFacts
<1>6. e <= Len(data) => Blocks(data)[NextRun(data, i)] \in Seq(NonZero)
  <2>1. NextRun(data, i) \in i + 1 .. Len(data) + 1 => NextRun(data, i) \in 1 .. Len(data) + 1
    BY <1>2
  <2> QED
    BY <1>5, <2>1, BlocksType
<1>7. /\ t \in Seq(NonZero) /\ rest \in Seq(NonZero)
      /\ Len(t) = 1 + (e - i) + Len(rest)
      /\ t[1] = e - i + 1
      /\ \A j \in 1 .. e - i : t[1 + j] = data[i + j - 1]
      /\ \A j \in 1 .. Len(rest) : t[1 + (e - i) + j] = rest[j]
  BY <1>3, <1>4, <1>6, BlockParts
<1>8. PICK x \in Nat, r \in Nat, n \in Nat : x = e - i /\ r = Len(rest) /\ n = Len(w)
  BY <1>1, <1>2, <1>7, LenIsNat
<1>9. /\ p \in 1 .. n /\ p + (1 + x + r) = n + 1
      /\ \A j \in 1 .. 1 + x + r : w[p + j - 1] = t[j]
  BY <1>4, <1>7, <1>8 DEF EndsIn
<1>0. p \in Nat /\ 1 <= p /\ p <= n /\ p + 1 + x + r = n + 1
  BY <1>9
<1>10. w[p] = x + 1
  <2>1. 1 \in 1 .. 1 + x + r /\ p + 1 - 1 = p
    BY <1>8, <1>9
  <2>2. w[p] = t[1]
    BY <1>9, <2>1
  <2> QED
    BY <1>7, <1>8, <2>2
<1>11. PICK y \in Nat : y = p + w[p] /\ y = p + x + 1 /\ y + r = n + 1
  <2>1. p + (x + 1) = p + x + 1 /\ p + x + 1 \in Nat /\ (p + x + 1) + r = n + 1
    BY <1>0
  <2> QED
    BY <1>10, <2>1, Zenon
<1>12. PICK a, b : a = Run(w, p) /\ b = SubSeq(data, i, e - 1)
  OBVIOUS
<1>13. b \in Seq(Byte) /\ Len(b) = x /\ \A j \in 1 .. x : b[j] = data[i + j - 1]
  BY <1>1, <1>2, <1>8, <1>12, Part
<1>14. a \in Seq(Byte) /\ Len(a) = x /\ \A j \in 1 .. x : a[j] = w[p + j]
  <2>1. PICK p1 \in Nat \ {0} : p1 = p + 1
    BY <1>9
  <2>2. a = SubSeq(w, p1, y - 1)
    BY <1>11, <1>12, <2>1, Zenon DEF Run
  <2>3. p1 <= y /\ y <= n + 1 /\ y - p1 = x
    BY <1>0, <1>11, <2>1
  <2>4. a \in Seq(Byte) /\ Len(a) = y - p1 /\ \A j \in 1 .. y - p1 : a[j] = w[p1 + j - 1]
    <3>1. y <= Len(w) + 1
      BY <1>8, <2>3, Zenon
    <3> QED
      BY <2>1, <2>2, <2>3, <3>1, Part
  <2>5. \A j \in 1 .. x : p1 + j - 1 = p + j
    BY <1>9, <2>1
  <2> QED
    BY <2>3, <2>4, <2>5
<1>15. ASSUME NEW j \in 1 .. x PROVE a[j] = b[j]
  <2>1. 1 + j \in 1 .. 1 + x + r /\ p + (1 + j) - 1 = p + j
    BY <1>8, <1>9
  <2>2. w[p + j] = t[1 + j]
    BY <1>9, <2>1
  <2> QED
    BY <1>7, <1>8, <1>13, <1>14, <2>2
<1>16. a = b
  BY <1>13, <1>14, <1>15, SameBytes
<1>17. e > Len(data) => y = n + 1
  <2>1. e > Len(data) => r = 0
    BY <1>3, <1>8
  <2> QED
    BY <1>11, <2>1
<1>18. ASSUME e <= Len(data) PROVE EndsIn(w, y, rest)
  <2>1. rest = Blocks(data)[NextRun(data, i)]
    BY <1>1, <1>2, <1>3, <1>18
  <2>2. r # 0
    <3>1. NextRun(data, i) \in 1 .. Len(data) + 1
      BY <1>2, <1>5, <1>18
    <3> QED
      BY <1>8, <2>1, <3>1, BlockNotEmpty
  <2>3. y \in 1 .. n
    BY <1>0, <1>11, <2>2
  <2>4. ASSUME NEW j \in 1 .. r PROVE w[y + j - 1] = rest[j]
    <3>1. 1 + x + j \in 1 .. 1 + x + r /\ p + (1 + x + j) - 1 = y + j - 1
      BY <1>0, <1>11
    <3>2. w[y + j - 1] = t[1 + x + j]
      BY <1>9, <3>1
    <3> QED
      BY <1>7, <1>8, <3>2
  <2> QED
    BY <1>8, <1>11, <2>3, <2>4 DEF EndsIn
<1>19. w[p] = e - i + 1
  BY <1>1, <1>2, <1>8, <1>10
<1>20. p + w[p] <= Len(w) + 1 /\ (e > Len(data) => p + w[p] = Len(w) + 1)
  BY <1>8, <1>11, <1>17
<1>21. ASSUME e <= Len(data) PROVE EndsIn(w, p + w[p], Blocks(data)[NextRun(data, i)])
  <2>1. rest = Blocks(data)[NextRun(data, i)]
    BY <1>1, <1>2, <1>3, <1>21
  <2> QED
    BY <1>11, <1>18, <1>21, <2>1
<1> QED
  BY <1>12, <1>16, <1>19, <1>20, <1>21

LEMMA BlocksRead ==
  ASSUME NEW data \in Seq(Byte), NEW w \in Seq(Byte)
  PROVE  \A i \in 1 .. Len(data) + 1 : \A p :
           EndsIn(w, p, Blocks(data)[i]) => Unblocked(w)[p] = {SubSeq(data, i, Len(data))}
<1> DEFINE Reads(i) == \A p : EndsIn(w, p, Blocks(data)[i]) => Unblocked(w)[p] = {SubSeq(data, i, Len(data))}
           T == {i \in 1 .. Len(data) + 1 : Reads(i)}
<1>1. PICK n \in Nat : n = Len(data) + 1
  OBVIOUS
<1>2. ASSUME NEW i \in 1 .. n, \A j \in i + 1 .. n : j \in T,
             NEW p, EndsIn(w, p, Blocks(data)[i])
      PROVE  Unblocked(w)[p] = {SubSeq(data, i, Len(data))}
  <2>0. i \in 1 .. Len(data) + 1
    BY <1>1
  <2>1. PICK e \in Nat : e = RunEnd(data, i)
    BY <2>0, RunEndFacts
  <2>2. /\ i <= e /\ e <= Len(data) + 1 /\ e <= i + MaxRun
        /\ \A j \in i .. e - 1 : data[j] # 0
        /\ e <= Len(data) /\ e # i + MaxRun => data[e] = 0
    BY <2>0, <2>1, RunEndFacts
  <2>3. /\ w[p] = e - i + 1 /\ p + w[p] <= Len(w) + 1 /\ Run(w, p) = SubSeq(data, i, e - 1)
        /\ e > Len(data) => p + w[p] = Len(w) + 1
        /\ e <= Len(data) => EndsIn(w, p + w[p], Blocks(data)[NextRun(data, i)])
    BY <1>2, <2>0, <2>1, BlockRead
  <2>4. p \in 1 .. Len(w)
    BY <1>2 DEF EndsIn
  <2>5. Unblocked(w)[p] = Unblock(w, Unblocked(w), p)
    BY <2>4, UnblockedIs
  <2>6. PICK q \in Nat, l \in Nat, x \in Nat : q = p + w[p] /\ l = Len(w) + 1 /\ x = w[p]
    <3>1. p \in Nat /\ Len(w) + 1 \in Nat /\ e - i + 1 \in Nat
      BY <2>2, <2>4
    <3>2. p + w[p] \in Nat
      BY <2>3, <3>1
    <3> QED
      BY <2>3, <3>1, <3>2
  <2>7. ~(w[p] = 0) /\ ~(p + w[p] > Len(w) + 1)
    <3>1. e - i + 1 # 0
      BY <2>2
    <3>2. ~(q > l)
      BY <2>3, <2>6
    <3> QED
      BY <2>3, <2>6, <3>1, <3>2, Zenon
  <2>8. ~(\E j \in DOMAIN Run(w, p) : Run(w, p)[j] = 0)
    <3>1. PICK run : run = Run(w, p) /\ run = SubSeq(data, i, e - 1)
      BY <2>3
    <3>2. run \in Seq(Byte) /\ Len(run) = e - i /\ \A j \in 1 .. e - i : run[j] = data[i + j - 1]
      <4>1. i \in Nat \ {0}
        OBVIOUS
      <4> QED
        BY <2>2, <3>1, <4>1, Part
    <3>3. ASSUME NEW j \in DOMAIN run PROVE run[j] # 0
      <4>1. j \in 1 .. e - i
        BY <3>2
      <4>2. i + j - 1 \in i .. e - 1
        BY <4>1
      <4> QED
        BY <2>2, <3>2, <4>1, <4>2
    <3> QED
      BY <3>1, <3>3
  <2>9. CASE e > Len(data)
    <3>1. p + w[p] = Len(w) + 1
      BY <2>3, <2>9
    <3>2. Unblock(w, Unblocked(w), p) = {Run(w, p)}
      BY <2>7, <2>8, <3>1, Zenon DEF Unblock
    <3>3. e - 1 = Len(data)
      BY <2>2, <2>9
    <3> QED
      BY <2>3, <2>5, <3>2, <3>3
  <2>10. CASE e <= Len(data)
    <3>1. PICK y : y = NextRun(data, i)
      OBVIOUS
    <3>2. y \in i + 1 .. n
      BY <1>1, <2>0, <2>1, <2>10, <3>1, NextRunFacts
    <3>3. EndsIn(w, p + w[p], Blocks(data)[y])
      BY <2>3, <2>10, <3>1
    <3>4. y \in T
      <4> HIDE DEF T
      <4> QED
        BY <1>2, <3>2
    <3>5. Reads(y)
      <4> HIDE DEF Reads
      <4> QED
        BY <3>4
    <3>6. Unblocked(w)[p + w[p]] = {SubSeq(data, y, Len(data))}
      BY <3>3, <3>5
    <3>7. p + w[p] # Len(w) + 1
      <4>1. p + w[p] \in 1 .. Len(w)
        BY <3>3 DEF EndsIn
      <4> QED
        BY <4>1
    <3>8. Unblock(w, Unblocked(w), p) = {Run(w, p) \o Ends(w, p) \o rest : rest \in Unblocked(w)[p + w[p]]}
      BY <2>7, <2>8, <3>7, Zenon DEF Unblock
    <3>9. Unblocked(w)[p] = {SubSeq(data, i, e - 1) \o Ends(w, p) \o SubSeq(data, y, Len(data))}
      BY <2>3, <2>5, <3>6, <3>8
    <3>10. PICK m \in Nat : m = MaxRun
      BY FrameAssumption
    <3>11. (Ends(w, p) = <<>> /\ y = e) \/ (Ends(w, p) = <<data[e]>> /\ y = e + 1)
      <4>1. CASE e = i + m
        <5>1. e - i + 1 > m
          BY <4>1
        <5>2. Ends(w, p) = <<>>
          BY <2>3, <3>10, <5>1 DEF Ends
        <5>3. y = e
          BY <2>1, <3>1, <3>10, <4>1, Zenon DEF NextRun
        <5> QED
          BY <5>2, <5>3
      <4>2. CASE e # i + m
        <5>1. ~(e - i + 1 > m)
          BY <2>2, <3>10, <4>2
        <5>2. Ends(w, p) = <<0>>
          BY <2>3, <3>10, <5>1 DEF Ends
        <5>3. y = e + 1
          BY <2>1, <3>1, <3>10, <4>2, Zenon DEF NextRun
        <5>4. data[e] = 0
          BY <2>2, <2>10, <3>10, <4>2
        <5> QED
          BY <5>2, <5>3, <5>4
      <4> QED
        BY <4>1, <4>2
    <3>12. SubSeq(data, i, e - 1) \o Ends(w, p) \o SubSeq(data, y, Len(data)) = SubSeq(data, i, Len(data))
      <4>1. i \in Nat \ {0} /\ y \in Nat
        BY <1>1, <3>2
      <4>2. PICK z : z = Ends(w, p)
        OBVIOUS
      <4>3. PICK o \in Nat : o = Len(data)
        BY LenIsNat
      <4>4. i <= e /\ e <= o
        BY <2>2, <2>10, <4>3
      <4>5. Between(data, i, e, z, y, o)
        BY <3>11, <4>1, <4>2, <4>3, <4>4, Zenon DEF Between
      <4>6. Joins(data, i, e, z, y, o)
        BY <4>5, Rejoined
      <4>7. SubSeq(data, i, e - 1) \o z \o SubSeq(data, y, o) = SubSeq(data, i, o)
        BY <4>6, Zenon DEF Joins
      <4> QED
        BY <4>2, <4>3, <4>7
    <3> QED
      BY <3>9, <3>12
  <2>11. e > Len(data) \/ e <= Len(data)
    OBVIOUS
  <2> QED
    BY <2>9, <2>10, <2>11
<1>3. \A i \in 1 .. n : i \in T
  <2>1. ASSUME NEW i \in 1 .. n, \A j \in i + 1 .. n : j \in T PROVE i \in T
    <3>1. Reads(i)
      <4> HIDE DEF T
      <4> QED
        BY <1>2, <2>1
    <3> HIDE DEF Reads
    <3> QED
      BY <1>1, <3>1
  <2> HIDE DEF T
  <2> QED
    BY <2>1, Backwards
<1> QED
  BY <1>1, <1>3

\* What is encoded is decoded: there is no zero in it, and the decoder gives the
\* very bytes back.
THEOREM CobsRoundTrip ==
  ASSUME NEW data \in Seq(Byte)
  PROVE  /\ CobsEncode(data) \in Seq(Byte \ {0}) /\ CobsEncode(data) # <<>>
         /\ CobsDecode(CobsEncode(data)) = {data}
<1>1. PICK w : w = CobsEncode(data) /\ w = Blocks(data)[1]
  BY DEF CobsEncode
<1>2. 1 \in 1 .. Len(data) + 1
  OBVIOUS
<1>3. w \in Seq(NonZero)
  BY <1>1, <1>2, BlocksType
<1>4. NonZero = Byte \ {0}
  BY NonZeroByte
<1>5. w \in Seq(Byte)
  BY <1>3, <1>4
<1>6. Len(w) # 0
  BY <1>1, <1>2, BlockNotEmpty
<1>7. EndsIn(w, 1, Blocks(data)[1])
  <2>1. PICK n \in Nat : n = Len(w)
    BY <1>5, LenIsNat
  <2>2. 1 \in 1 .. n /\ 1 + n = n + 1 /\ \A j \in 1 .. n : 1 + j - 1 = j
    BY <1>6, <2>1
  <2> QED
    BY <1>1, <2>1, <2>2 DEF EndsIn
<1>8. Unblocked(w)[1] = {SubSeq(data, 1, Len(data))}
  BY <1>2, <1>5, <1>7, BlocksRead
<1>9. SubSeq(data, 1, Len(data)) = data
  OBVIOUS
<1>10. w # <<>>
  BY <1>6
<1>11. CobsDecode(w) = {data}
  BY <1>8, <1>9, <1>10, Zenon DEF CobsDecode
<1> QED
  BY <1>1, <1>3, <1>4, <1>10, <1>11

-----------------------------------------------------------------------------
(* Frames                                                                  *)

LEMMA ByteInt ==
  ASSUME NEW b \in Byte
  PROVE  b \in Nat /\ b < 256
BY SMT DEF Byte

\* struct.pack and unpack of a tag.
LEMMA U16Type ==
  ASSUME NEW n \in Word
  PROVE  n % 256 \in Byte /\ n \div 256 \in Byte /\ (n % 256) + 256 * (n \div 256) = n
<1>1. n \in Nat /\ n < Modulus
  BY WordIs
<1>2. n \in Nat /\ n < 65536
  BY <1>1, SMT DEF Modulus
<1> QED
  BY <1>2, SMT DEF Byte

LEMMA TagType ==
  ASSUME NEW a \in Byte, NEW b \in Byte
  PROVE  a + 256 * b \in Word
<1>1. a \in Nat /\ a < 256 /\ b \in Nat /\ b < 256
  BY ByteInt
<1>2. a + 256 * b \in Nat /\ a + 256 * b < 65536
  BY <1>1, SMT
<1>3. a + 256 * b \in Nat /\ a + 256 * b < Modulus
  BY <1>2, SMT DEF Modulus
<1> QED
  BY <1>3, WordIs

\* Whatever passes the checksum is a frame.
LEMMA CheckedType ==
  ASSUME NEW d \in Seq(Byte)
  PROVE  Checked(d) \subseteq FrameSet
<1> DEFINE body == SubSeq(d, 1, Len(d) - FRAME_TRAILER_SIZE)
<1>1. ASSUME NEW f \in Checked(d) PROVE f \in FrameSet
  <2>1. /\ Len(d) >= FRAME_HEADER_SIZE + FRAME_TRAILER_SIZE
        /\ f = [type |-> body[1], tag |-> body[2] + 256 * body[3],
                payload |-> SubSeq(body, FRAME_HEADER_SIZE + 1, Len(body))]
    BY <1>1 DEF Checked
  <2>2. PICK n \in Nat : n = Len(d)
    BY LenIsNat
  <2>3. n >= 5
    BY <2>1, <2>2, SMT DEF FRAME_HEADER_SIZE, FRAME_TRAILER_SIZE
  <2>4. PICK g : g = body
    OBVIOUS
  <2>5. g \in Seq(Byte) /\ Len(g) = n - 2
    <3>1. PICK e \in Nat : e = n - 1 /\ 1 <= e /\ e <= n + 1 /\ e - 1 = n - 2
      BY <2>3
    <3>2. Len(d) - FRAME_TRAILER_SIZE = e - 1
      BY <2>2, <3>1 DEF FRAME_TRAILER_SIZE
    <3>3. g = SubSeq(d, 1, e - 1)
      BY <2>4, <3>2
    <3>4. 1 \in Nat \ {0} /\ e <= Len(d) + 1
      BY <2>2, <3>1
    <3> HIDE DEF body
    <3> QED
      BY <3>1, <3>3, <3>4, Part
  <2>6. PICK m \in Nat : m = Len(g) /\ m >= 3
    BY <2>3, <2>5
  <2>7. g[1] \in Byte /\ g[2] \in Byte /\ g[3] \in Byte
    <3>1. 1 \in 1 .. Len(g) /\ 2 \in 1 .. Len(g) /\ 3 \in 1 .. Len(g)
      BY <2>6
    <3> QED
      BY <2>5, <3>1
  <2>8. SubSeq(g, 4, (m + 1) - 1) \in Seq(Byte)
    <3>1. 4 \in Nat \ {0} /\ m + 1 \in Nat /\ 4 <= m + 1 /\ m + 1 <= Len(g) + 1
      BY <2>6
    <3> QED
      BY <2>5, <3>1, Part
  <2>9. SubSeq(body, FRAME_HEADER_SIZE + 1, Len(body)) \in Seq(Byte)
    <3>1. FRAME_HEADER_SIZE + 1 = 4 /\ (m + 1) - 1 = Len(g)
      BY <2>6 DEF FRAME_HEADER_SIZE
    <3> QED
      BY <2>4, <2>8, <3>1
  <2>10. body[2] + 256 * body[3] \in Word
    BY <2>4, <2>7, TagType
  <2> QED
    BY <2>1, <2>4, <2>7, <2>9, <2>10, Zenon DEF FrameSet
<1> QED
  BY <1>1

\* decode_frame: whatever bytes it is given, it returns a frame or nothing.
THEOREM DecodeFrameType ==
  ASSUME NEW s \in Seq(Byte)
  PROVE  DecodeFrame(s) \subseteq FrameSet
BY CobsDecodeType, CheckedType DEF DecodeFrame

\* What encode_frame puts before the checksum.
FrameBody(f) == <<f.type>> \o U16(f.tag) \o f.payload

LEMMA BodyType ==
  ASSUME NEW f \in FrameSet
  PROVE  /\ FrameBody(f) \in Seq(Byte) /\ Len(FrameBody(f)) = 3 + Len(f.payload)
         /\ FrameBody(f)[1] = f.type /\ FrameBody(f)[2] + 256 * FrameBody(f)[3] = f.tag
         /\ SubSeq(FrameBody(f), 4, Len(FrameBody(f))) = f.payload
<1>1. f.type \in Byte /\ f.tag \in Word /\ f.payload \in Seq(Byte)
  BY DEF FrameSet
<1>12. PICK a \in Byte : f.type = a
  BY <1>1
<1>2. PICK b \in Byte, c \in Byte : U16(f.tag) = <<b, c>> /\ b + 256 * c = f.tag
  <2>1. PICK n \in Word : n = f.tag
    BY <1>1
  <2>2. n % 256 \in Byte /\ n \div 256 \in Byte /\ (n % 256) + 256 * (n \div 256) = n
    BY U16Type
  <2>3. PICK b \in Byte, c \in Byte : b = n % 256 /\ c = n \div 256 /\ b + 256 * c = n
    BY <2>2, Zenon
  <2>4. U16(f.tag) = <<b, c>>
    BY <2>1, <2>3, Zenon DEF U16
  <2> QED
    BY <2>1, <2>3, <2>4
<1>3. PICK p \in Seq(Byte) : p = f.payload
  BY <1>1
<1>4. PICK m \in Nat : m = Len(p)
  BY LenIsNat
<1>5. PICK h : h = <<a>> \o <<b, c>>
  OBVIOUS
<1>6. h \in Seq(Byte) /\ Len(h) = 3 /\ h[1] = a /\ h[2] = b /\ h[3] = c
  BY <1>5
<1>7. PICK g : g = h \o p
  OBVIOUS
<1>11. g = FrameBody(f)
  BY <1>12, <1>2, <1>3, <1>5, <1>7 DEF FrameBody
<1>8. /\ g \in Seq(Byte) /\ Len(g) = 3 + m
      /\ \A i \in 1 .. 3 : g[i] = h[i]
      /\ \A i \in 1 .. m : g[3 + i] = p[i]
  <2>1. PICK l : l = Len(h)
    OBVIOUS
  <2>2. h \in Seq(Byte)
    BY <1>6
  <2>3. /\ g \in Seq(Byte) /\ Len(g) = l + m
        /\ \A i \in 1 .. l : g[i] = h[i]
        /\ \A i \in 1 .. m : g[l + i] = p[i]
    BY <1>4, <1>7, <2>1, <2>2, Concat
  <2>4. l = 3
    BY <1>6, <2>1
  <2> QED
    BY <2>3, <2>4
<1>9. g[1] = a /\ g[2] = b /\ g[3] = c
  BY <1>6, <1>8
<1>10. SubSeq(g, 4, Len(g)) = p
  <2>1. PICK q : q = SubSeq(g, 4, (m + 4) - 1)
    OBVIOUS
  <2>2. 4 \in Nat \ {0} /\ m + 4 \in Nat /\ 4 <= m + 4 /\ m + 4 <= Len(g) + 1 /\ (m + 4) - 4 = m /\ (m + 4) - 1 = Len(g)
    BY <1>8
  <2>3. q \in Seq(Byte) /\ Len(q) = (m + 4) - 4 /\ \A j \in 1 .. (m + 4) - 4 : q[j] = g[4 + j - 1]
    BY <1>8, <2>1, <2>2, Part
  <2>4. ASSUME NEW j \in 1 .. m PROVE q[j] = p[j]
    <3>1. 4 + j - 1 = 3 + j
      OBVIOUS
    <3> QED
      BY <1>8, <2>2, <2>3, <3>1
  <2>5. q = p
    BY <1>4, <2>2, <2>3, <2>4, SameBytes
  <2> QED
    BY <2>1, <2>2, <2>5
<1> QED
  BY <1>12, <1>2, <1>3, <1>4, <1>8, <1>9, <1>10, <1>11

\* A frame before it is encoded.
Plain(f) == FrameBody(f) \o U16(crc16(FrameBody(f)))

\* The checksum is what the body is followed by.
LEMMA PlainChecked ==
  ASSUME NEW f \in FrameSet
  PROVE  /\ Plain(f) \in Seq(Byte) /\ Len(Plain(f)) = 5 + Len(f.payload)
         /\ Checked(Plain(f)) = {f}
<1>1. PICK g \in Seq(Byte) : g = FrameBody(f)
  BY BodyType
<1>2. PICK n \in Nat : n = Len(g) /\ n >= 3 /\ 2 + n = 5 + Len(f.payload)
  <2>1. PICK m \in Nat : m = Len(f.payload)
    BY LenIsNat DEF FrameSet
  <2>2. Len(g) = 3 + m
    BY <1>1, <2>1, BodyType
  <2> QED
    BY <2>1, <2>2
<1>3. PICK x \in Word : x = crc16(g)
  BY CrcType
<1>4. PICK t : t = U16(x)
  OBVIOUS
<1>5. t \in Seq(Byte) /\ Len(t) = 2
  <2>1. x % 256 \in Byte /\ x \div 256 \in Byte
    BY U16Type
  <2>2. PICK b \in Byte, c \in Byte : t = <<b, c>>
    BY <1>4, <2>1, Zenon DEF U16
  <2> QED
    BY <2>2
<1>6. PICK d : d = g \o t
  OBVIOUS
<1>7. d = Plain(f)
  BY <1>1, <1>3, <1>4, <1>6, Zenon DEF Plain
<1>8. /\ d \in Seq(Byte) /\ Len(d) = n + 2
      /\ \A i \in 1 .. n : d[i] = g[i]
      /\ \A i \in 1 .. 2 : d[n + i] = t[i]
  <2>1. PICK l : l = Len(t)
    OBVIOUS
  <2>2. t \in Seq(Byte)
    BY <1>5
  <2>3. n = Len(g)
    BY <1>2
  <2>4. /\ d \in Seq(Byte) /\ Len(d) = n + l
        /\ \A i \in 1 .. n : d[i] = g[i]
        /\ \A i \in 1 .. l : d[n + i] = t[i]
    BY <1>6, <2>1, <2>2, <2>3, Concat
  <2>5. l = 2
    BY <1>5, <2>1
  <2> QED
    BY <2>4, <2>5
<1>9. PICK e \in Nat : e = n + 1 /\ e - 1 = n /\ e <= Len(d) + 1
  BY <1>8
<1>10. SubSeq(d, 1, e - 1) = g
  <2>1. PICK q : q = SubSeq(d, 1, e - 1)
    OBVIOUS
  <2>2. 1 \in Nat \ {0} /\ 1 <= e /\ e <= Len(d) + 1 /\ e - 1 = n
    BY <1>9
  <2>3. q \in Seq(Byte) /\ Len(q) = e - 1 /\ \A j \in 1 .. e - 1 : q[j] = d[1 + j - 1]
    BY <1>8, <2>1, <2>2, Part
  <2>4. ASSUME NEW j \in 1 .. n PROVE q[j] = g[j]
    <3>1. 1 + j - 1 = j
      OBVIOUS
    <3> QED
      BY <1>8, <2>2, <2>3, <3>1
  <2>5. q = g
    BY <1>2, <2>2, <2>3, <2>4, SameBytes
  <2> QED
    BY <2>1, <2>5
<1>11. SubSeq(d, e, (e + 2) - 1) = t
  <2>1. PICK q, o : q = SubSeq(d, e, o - 1) /\ o = e + 2
    OBVIOUS
  <2>2. e \in Nat \ {0} /\ o \in Nat /\ e <= o /\ o <= Len(d) + 1 /\ o - e = 2
    BY <1>8, <1>9, <2>1
  <2>3. q \in Seq(Byte) /\ Len(q) = o - e /\ \A j \in 1 .. o - e : q[j] = d[e + j - 1]
    BY <1>8, <2>1, <2>2, Part
  <2>4. ASSUME NEW j \in 1 .. 2 PROVE q[j] = t[j]
    <3>1. e + j - 1 = n + j
      BY <1>9
    <3> QED
      BY <1>8, <2>2, <2>3, <3>1
  <2>5. q = t
    BY <1>5, <2>2, <2>3, <2>4, SameBytes
  <2> QED
    BY <2>1, <2>5
<1>12. Len(d) - FRAME_TRAILER_SIZE = e - 1 /\ Len(d) - FRAME_TRAILER_SIZE + 1 = e /\ Len(d) = (e + 2) - 1
       /\ Len(d) >= FRAME_HEADER_SIZE + FRAME_TRAILER_SIZE /\ FRAME_HEADER_SIZE + 1 = 4
  BY <1>2, <1>8, <1>9, SMT DEF FRAME_HEADER_SIZE, FRAME_TRAILER_SIZE
<1>13. SubSeq(d, 1, Len(d) - FRAME_TRAILER_SIZE) = g
  BY <1>10, <1>12
<1>14. SubSeq(d, Len(d) - FRAME_TRAILER_SIZE + 1, Len(d)) = t
  BY <1>11, <1>12
<1>15. CrcMatches(g, t)
  BY <1>3, <1>4, Zenon DEF CrcMatches
<1>16. Checked(d) = {[type |-> g[1], tag |-> g[2] + 256 * g[3], payload |-> SubSeq(g, 4, Len(g))]}
  BY <1>12, <1>13, <1>14, <1>15 DEF Checked
<1>17. f = [type |-> g[1], tag |-> g[2] + 256 * g[3], payload |-> SubSeq(g, 4, Len(g))]
  BY <1>1, BodyType DEF FrameSet
<1> QED
  BY <1>2, <1>7, <1>8, <1>16, <1>17

\* What is encoded is the plain frame.
LEMMA FrameEncoded ==
  ASSUME NEW f \in FrameSet, NEW w \in EncodeFrame(f)
  PROVE  /\ w = CobsEncode(Plain(f)) \o <<0>> /\ EncodeFrame(f) = {w}
         /\ Len(f.payload) <= MAX_PAYLOAD_FIELD
<1>1. f.type \in Byte /\ f.tag \in Word /\ Len(f.payload) <= MAX_PAYLOAD_FIELD
  BY DEF EncodeFrame
<1>2. EncodeFrame(f) = {CobsEncode(Plain(f)) \o <<0>>}
  BY <1>1, Zenon DEF EncodeFrame, Plain, FrameBody
<1> QED
  BY <1>1, <1>2

\* encode_frame has an answer for every frame that the limits allow.
LEMMA Encodable ==
  ASSUME NEW f \in FrameSet, Len(f.payload) <= MAX_PAYLOAD_FIELD
  PROVE  \E w : w \in EncodeFrame(f)
<1>1. f.type \in Byte /\ f.tag \in Word
  BY DEF FrameSet
<1> QED
  BY <1>1, Zenon DEF EncodeFrame

\* A string and one more byte.
LEMMA Delimited ==
  ASSUME NEW Els, NEW s \in Seq(Els), NEW x \in Els, NEW w, w = s \o <<x>>
  PROVE  /\ w \in Seq(Els) /\ Len(w) = Len(s) + 1 /\ w[Len(w)] = x
         /\ \A j \in 1 .. Len(s) : w[j] = s[j]
         /\ SubSeq(w, 1, Len(w) - 1) = s
<1>1. w \in Seq(Els) /\ Len(w) = Len(s) + 1 /\ w[Len(w)] = x
  OBVIOUS
<1>2. \A j \in 1 .. Len(s) : w[j] = s[j]
  OBVIOUS
<1>3. PICK n \in Nat : n = Len(s)
  BY LenIsNat
<1>4. PICK q : q = SubSeq(w, 1, n)
  OBVIOUS
<1>5. q \in Seq(Els) /\ Len(q) = n /\ \A j \in 1 .. n : q[j] = w[j]
  <2>1. PICK e \in Nat \ {0} : e = n + 1 /\ e - 1 = n
    OBVIOUS
  <2>2. 1 \in Nat \ {0} /\ 1 <= e /\ e <= Len(w) + 1
    BY <1>1, <1>3, <2>1
  <2>3. q = SubSeq(w, 1, e - 1)
    BY <1>4, <2>1
  <2>4. w \in Seq(Els)
    BY <1>1
  <2>5. q \in Seq(Els) /\ Len(q) = e - 1 /\ \A j \in 1 .. e - 1 : q[j] = w[1 + j - 1]
    BY <2>1, <2>2, <2>3, <2>4, Part
  <2>6. \A j \in 1 .. n : 1 + j - 1 = j
    OBVIOUS
  <2> QED
    BY <2>1, <2>5, <2>6
<1>6. q = s
  <2>1. \A j \in 1 .. n : q[j] = s[j]
    BY <1>2, <1>3, <1>5
  <2> QED
    BY <1>3, <1>5, <2>1, SameBytes
<1>7. Len(w) - 1 = n
  BY <1>1, <1>3
<1> QED
  BY <1>1, <1>2, <1>4, <1>6, <1>7

\* encode_frame and decode_frame, which is what Wire assumes of its codec: a frame
\* is written as bytes that end in the only zero among them, and what is before
\* the zero is read as that very frame.
THEOREM FrameRoundTrip ==
  ASSUME NEW f \in FrameSet, NEW w \in EncodeFrame(f)
  PROVE  /\ EncodeFrame(f) = {w}
         /\ w \in Seq(Byte) /\ Len(w) > 1
         /\ \A i \in 1 .. Len(w) : w[i] = 0 <=> i = Len(w)
         /\ DecodeFrame(SubSeq(w, 1, Len(w) - 1)) = {f}
<1>1. PICK d \in Seq(Byte) : d = Plain(f)
  BY PlainChecked
<1>2. Checked(d) = {f}
  BY <1>1, PlainChecked
<1>3. PICK c : c = CobsEncode(d)
  OBVIOUS
<1>4. c \in Seq(Byte \ {0}) /\ c # <<>> /\ CobsDecode(c) = {d}
  BY <1>3, CobsRoundTrip
<1>5. 0 \in Byte
  BY SMT DEF Byte
<1>6. c \in Seq(Byte) /\ \A i \in 1 .. Len(c) : c[i] # 0
  BY <1>4
<1>7. w = c \o <<0>> /\ EncodeFrame(f) = {w}
  BY <1>1, <1>3, FrameEncoded
<1>8. PICK n \in Nat : n = Len(c) /\ n # 0
  BY <1>4, <1>6, LenIsNat
<1>9. /\ w \in Seq(Byte) /\ Len(w) = Len(c) + 1 /\ w[Len(w)] = 0
      /\ \A j \in 1 .. Len(c) : w[j] = c[j]
      /\ SubSeq(w, 1, Len(w) - 1) = c
  <2>1. w = c \o <<0>> /\ c \in Seq(Byte)
    BY <1>6, <1>7
  <2> QED
    BY <1>5, <2>1, Delimited
<1>10. ASSUME NEW i \in 1 .. Len(w) PROVE w[i] = 0 <=> i = Len(w)
  <2>1. i \in 1 .. n + 1 /\ Len(w) = n + 1
    BY <1>8, <1>9
  <2>2. CASE i = n + 1
    BY <1>9, <2>1, <2>2
  <2>3. CASE i # n + 1
    <3>1. i \in 1 .. Len(c)
      BY <1>8, <2>1, <2>3
    <3> QED
      BY <1>6, <1>9, <2>1, <2>3, <3>1
  <2> QED
    BY <2>2, <2>3
<1>11. DecodeFrame(c) = {f}
  BY <1>2, <1>4 DEF DecodeFrame
<1>12. Len(w) > 1
  BY <1>8, <1>9
<1> QED
  BY <1>7, <1>9, <1>10, <1>11, <1>12

\* MAX_WIRE_FRAME is enough for every frame: the library puts in no more than two
\* bytes where three are reckoned with.
THEOREM FrameFits ==
  ASSUME NEW f \in FrameSet, NEW w \in EncodeFrame(f), MaxRun = 254
  PROVE  Len(w) <= MAX_WIRE_FRAME
<1>1. PICK d \in Seq(Byte) : d = Plain(f)
  BY PlainChecked
<1>2. PICK m \in Nat : m = Len(f.payload)
  BY LenIsNat DEF FrameSet
<1>3. Len(d) = 5 + m
  BY <1>1, <1>2, PlainChecked
<1>4. m <= 275
  <2>1. m <= MAX_PAYLOAD_FIELD
    BY <1>2, FrameEncoded
  <2> QED
    BY <2>1, SMT DEF MAX_PAYLOAD_FIELD, MAX_OTA_PAYLOAD
<1>5. PICK c : c = CobsEncode(d) /\ c = Blocks(d)[1]
  BY DEF CobsEncode
<1>6. 1 \in 1 .. Len(d) + 1
  BY <1>3
<1>7. c \in Seq(NonZero)
  BY <1>5, <1>6, BlocksType
<1>8. PICK n \in Nat : n = Len(c)
  BY <1>7, LenIsNat
<1>9. 254 * (Len(c) - (Len(d) + 2 - 1)) <= Len(d) + 1 - 1
  BY <1>5, <1>6, BlocksLen
<1>10. 254 * (n - (5 + m + 2 - 1)) <= 5 + m + 1 - 1
  BY <1>3, <1>8, <1>9
<1>11. n <= 282
  BY <1>4, <1>10
<1>12. w = c \o <<0>>
  BY <1>1, <1>5, FrameEncoded
<1>13. Len(w) = n + 1
  BY <1>7, <1>8, <1>12
<1>14. MAX_WIRE_FRAME = 284
  BY SMT DEF MAX_WIRE_FRAME, MAX_PRE_COBS_FRAME, MAX_COBS_OVERHEAD, FRAME_HEADER_SIZE,
             FRAME_TRAILER_SIZE, MAX_PAYLOAD_FIELD, MAX_OTA_PAYLOAD
<1> QED
  BY <1>11, <1>13, <1>14

=============================================================================
