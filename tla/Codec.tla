------------------------------- MODULE Codec -------------------------------
(***************************************************************************)
(* The payload codecs on whatever bytes a frame with a correct checksum    *)
(* may bring: a payload as the other side packed it, or one with bytes     *)
(* changed, cut off or added, as firmware of another version or a faulty   *)
(* mux would write it.                                                     *)
(***************************************************************************)
EXTENDS Payload, Frame

CONSTANTS
  Samples,  \* payloads to start from, [kind, message]
  Noise,    \* bytes that are written over a byte or added
  MaxEdits, \* bound: changes to one payload
  MaxLen    \* bound: length of the payloads that are changed

ASSUME CodecAssumption ==
  /\ \A s \in Samples : s = [kind |-> s.kind, message |-> s.message]
                        /\ IsMessage(s.kind, s.message)
  /\ Noise \subseteq Octet
  /\ MaxEdits \in Nat

VARIABLES
  kind,    \* what the payload is
  message, \* what was packed
  bytes,   \* the payload that is received
  edits    \* changes so far

vars == <<kind, message, bytes, edits>>

Init ==
  /\ \E s \in Samples : kind = s.kind /\ message = s.message
  /\ bytes = EncodePayload(kind, message)
  /\ edits = 0

\* The upper half of the fields of 8 bytes: capability_bitmap, timestamp_us.
Unmodelled ==
  CASE kind = "info" -> 12 .. 15
    [] kind = "rx" -> 13 .. 16
    [] OTHER -> {}

Edit(b) ==
  /\ edits < MaxEdits
  /\ kind # "tx" /\ Len(bytes) <= MaxLen
  /\ bytes' = b
  /\ edits' = edits + 1
  /\ UNCHANGED <<kind, message>>

Overwrites(i, c) == bytes[i] # c /\ Edit([bytes EXCEPT ![i] = c])

\* Only the first n bytes are left.
Cuts(n) == Edit(SubSeq(bytes, 1, n))

Adds(c) == Edit(Append(bytes, c))

Next ==
  \/ \E i \in DOMAIN bytes \ Unmodelled, c \in Noise : Overwrites(i, c)
  \/ \E n \in 0 .. Len(bytes) - 1 : Cuts(n)
  \/ \E c \in Noise : Len(bytes) + 1 \notin Unmodelled /\ Adds(c)

Spec == Init /\ [][Next]_vars

-----------------------------------------------------------------------------
(* Properties                                                              *)

Decoded == DecodePayload(kind, bytes)
Packed == EncodePayload(kind, message)

TypeOK ==
  /\ [kind |-> kind, message |-> message] \in Samples
  /\ bytes \in Seq(Octet)
  /\ edits \in 0 .. MaxEdits

\* Every payload is read back as the message that was packed.
RoundTrip == edits = 0 /\ kind # "tx" => Decoded = {message}

\* A message has one encoding: what decodes is, byte for byte, what the message
\* it decodes to would be packed to, so that a changed payload is refused or is
\* another message, never silently the same one.  Info alone allows bytes
\* after its own, which later firmware may add.
Canonical ==
  kind # "tx" =>
    \A m \in Decoded :
      IF kind = "info" THEN IsPrefix(EncodePayload(kind, m), bytes)
                       ELSE EncodePayload(kind, m) = bytes

\* A payload that lost its end is refused.  The data of an RX event are what
\* follows its 20 bytes: there the loss only shortens them.
CutRefused ==
  /\ kind # "tx" /\ Len(bytes) < Len(Packed) /\ IsPrefix(bytes, Packed)
  => IF kind = "rx" THEN Decoded # {} <=> Len(bytes) >= 20 ELSE Decoded = {}

\* The answer to one command is not taken for the answer to another, when the
\* session has lost track of tags: no payload of an OK has two of the three
\* shapes.
ShapesApart ==
  kind \in {"info", "set_config"} =>
    \A a, b \in 1 .. 3 :
      parse_ok_payload(a, bytes) # {} /\ parse_ok_payload(b, bytes) # {} => a = b

\* Everything that is packed fits a frame, the longest RX event and TX included;
\* the frame is within the size that buffers are made for, has no zero byte but
\* the delimiter, and is decoded to what it was.
FramesFit ==
  edits = 0 =>
    LET f == [type |-> 192, tag |-> 256, payload |-> bytes]
    IN  \E w \in EncodeFrame(f) :
          /\ Len(w) <= MAX_WIRE_FRAME
          /\ \A i \in DOMAIN w : w[i] = 0 <=> i = Len(w)
          /\ DecodeFrame(Front(w)) = {f}
=============================================================================
