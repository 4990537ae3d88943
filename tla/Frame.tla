------------------------------- MODULE Frame -------------------------------
(***************************************************************************)
(* donglora/frame.py and crc.py: one frame, as bytes.                      *)
(*                                                                         *)
(* A byte is a number below 256 and a string of bytes a sequence.  What     *)
(* may be refused is a set of at most one value: {} is the exception.      *)
(***************************************************************************)
EXTENDS Integers, Sequences

CONSTANT
  MaxRun \* COBS: longest run of bytes without a zero in a block, 254

ASSUME FrameAssumption == MaxRun \in 1 .. 254

Byte == 0 .. 255

\* 2 ^ 16, and the numbers of 16 bits.
Modulus == 65536
Word == 0 .. Modulus - 1

MAX_OTA_PAYLOAD == 255

\* An RX event has 20 bytes before its packet.
MAX_PAYLOAD_FIELD == MAX_OTA_PAYLOAD + 20

FRAME_HEADER_SIZE == 3
FRAME_TRAILER_SIZE == 2
MAX_PRE_COBS_FRAME == FRAME_HEADER_SIZE + MAX_PAYLOAD_FIELD + FRAME_TRAILER_SIZE
MAX_COBS_OVERHEAD == 3
MAX_WIRE_FRAME == MAX_PRE_COBS_FRAME + MAX_COBS_OVERHEAD + 1

\* struct.pack("<H", n)
U16(n) == <<n % 256, n \div 256>>

-----------------------------------------------------------------------------
(* crc16                                                                   *)

\* a ^ b: of the low bytes, and of both.
XorLow(a, b) ==
  LET bit(k) == k * (((a \div k) + (b \div k)) % 2)
  IN  bit(1) + bit(2) + bit(4) + bit(8) + bit(16) + bit(32) + bit(64) + bit(128)

Xor(a, b) == 256 * XorLow(a \div 256, b \div 256) + XorLow(a, b)

Polynomial == 4129

\* The inner loop: one bit of the polynomial division.
Shift(crc) ==
  LET twice == (2 * crc) % Modulus
  IN  IF 2 * crc >= Modulus THEN Xor(twice, Polynomial) ELSE twice

Shift8 ==
  [crc \in Word |-> Shift(Shift(Shift(Shift(Shift(Shift(Shift(Shift(crc))))))))]

\* The outer loop: on from crc over the i-th to the j-th byte, half by half, as
\* the whole length would be too deep a recursion for TLC.
Register(data) ==
  LET after[s \in (1 .. Len(data) + 1) \X (0 .. Len(data)) \X Word] ==
        LET i == s[1]
            j == s[2]
            crc == s[3]
            mid == (i + j) \div 2
        IN  IF j < i THEN crc
            ELSE IF j = i THEN Shift8[Xor(crc, 256 * data[i])]
            ELSE after[<<mid + 1, j, after[<<i, mid, crc>>]>>]
  IN  after

crc16(data) == Register(data)[<<1, Len(data), Modulus - 1>>]

\* The check value that crc.py asserts when it is imported: of "123456789".
ASSUME CrcCheck == crc16(<<49, 50, 51, 52, 53, 54, 55, 56, 57>>) = 10673

-----------------------------------------------------------------------------
(* The cobs library (external)                                             *)

\* The end of the run of other bytes than zero that begins at i: the first zero,
\* the end of the data, or where the block is full.
RunEnd(data, i) ==
  LET ends == {i + MaxRun, Len(data) + 1} \cup {j \in i .. Len(data) : data[j] = 0}
  IN  CHOOSE j \in ends : \A k \in ends : j <= k

\* A block is a run after its length plus one; it stands for the zero that ends
\* the run as well, unless the block is full.
Blocks(data) ==
  LET from[i \in 1 .. Len(data) + 1] ==
        LET end == RunEnd(data, i)
            next == IF end = i + MaxRun THEN end ELSE end + 1
        IN  <<end - i + 1>> \o SubSeq(data, i, end - 1)
              \o (IF end > Len(data) THEN <<>> ELSE from[next])
  IN  from

CobsEncode(data) == Blocks(data)[1]

\* DecodeError: a zero byte, or a block longer than the rest.
Unblocked(data) ==
  LET from[i \in 1 .. Len(data)] ==
        LET next == i + data[i]
            run == SubSeq(data, i + 1, next - 1)
            zero == IF data[i] > MaxRun THEN <<>> ELSE <<0>>
        IN  IF data[i] = 0 \/ next > Len(data) + 1 \/ \E j \in DOMAIN run : run[j] = 0 THEN {}
            ELSE IF next = Len(data) + 1 THEN {run}
            ELSE {run \o zero \o rest : rest \in from[next]}
  IN  from

CobsDecode(data) == IF data = <<>> THEN {<<>>} ELSE Unblocked(data)[1]

-----------------------------------------------------------------------------
(* encode_frame, decode_frame                                              *)

FrameSet == [type : Byte, tag : Word, payload : Seq(Byte)]

\* {}: ValueError or FrameTooLargeError.
EncodeFrame(f) ==
  LET body == <<f.type>> \o U16(f.tag) \o f.payload
  IN  IF f.type \in Byte /\ f.tag \in Word /\ Len(f.payload) <= MAX_PAYLOAD_FIELD
      THEN {CobsEncode(body \o U16(crc16(body))) \o <<0>>}
      ELSE {}

\* Faulty: the checksum is not compared.
NoCrc(body, crc) == TRUE

CrcMatches(body, crc) == crc = U16(crc16(body))

\* What is left of a decoded string of bytes: {} is FrameTooShortError or
\* FrameCrcError.
Checked(d) ==
  LET body == SubSeq(d, 1, Len(d) - FRAME_TRAILER_SIZE)
      crc == SubSeq(d, Len(d) - FRAME_TRAILER_SIZE + 1, Len(d))
  IN  IF Len(d) >= FRAME_HEADER_SIZE + FRAME_TRAILER_SIZE /\ CrcMatches(body, crc)
      THEN {[type |-> body[1], tag |-> body[2] + 256 * body[3],
             payload |-> SubSeq(body, FRAME_HEADER_SIZE + 1, Len(body))]}
      ELSE {}

\* bytes has no zero: the delimiter is not part of it.
DecodeFrame(bytes) == UNION {Checked(d) : d \in CobsDecode(bytes)}
=============================================================================
