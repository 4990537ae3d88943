-------------------------------- MODULE Wire --------------------------------
(***************************************************************************)
(* One direction of the byte stream, as the reader thread of a Session     *)
(* sees it: read_frame of donglora/frame.py on a serial port or on the     *)
(* MuxConnection of transport.py, and the part of _reader_loop that turns  *)
(* its outcomes into frames for _dispatch and asynchronous errors.         *)
(*                                                                         *)
(* The stream loses and alters bytes, stalls for longer than the read      *)
(* time-out at any byte, and ends.  read_frame keeps no bytes from one     *)
(* call to the next: after a stall the rest of a frame looks like a frame. *)
(*                                                                         *)
(* The codec is a parameter, EncodeFrame and DecodeFrame of Frame where    *)
(* the module is checked: what is proved rests on two of its promises only.*)
(***************************************************************************)
EXTENDS Integers, Sequences, FiniteSets

CONSTANTS
  Encode(_), \* encode_frame: at most one string of bytes
  Decode(_), \* decode_frame: at most one frame
  Frames,    \* what decode_frame returns
  Msgs,      \* frames the other side may write
  Noise,     \* bytes that a byte may turn into
  MaxSent,   \* bound: frames written
  MaxFaults, \* bound: bytes lost or altered
  MaxStalls  \* bound: read time-outs in the middle of a frame

Octet == 0 .. 255

ASSUME WireAssumption ==
  Noise \subseteq Octet /\ MaxSent \in Nat /\ MaxFaults \in Nat /\ MaxStalls \in Nat

\* A frame on the wire is some bytes, none of them zero, and the delimiter; the
\* bytes are decoded to the frame.
ASSUME CodecAssumption ==
  \A f \in Msgs : \A w \in Encode(f) :
    /\ Encode(f) = {w}
    /\ w \in Seq(Octet) /\ Len(w) > 1
    /\ \A i \in 1 .. Len(w) : w[i] = 0 <=> i = Len(w)
    /\ Decode(SubSeq(w, 1, Len(w) - 1)) = {f}

VARIABLES
  sent,   \* frames written
  wire,   \* bytes on their way, each with its frame's ordinal and its place in it
  buf,    \* buf of read_frame
  open,   \* the reader runs
  got,    \* frames handed to _dispatch
  last,   \* history: the ordinal of the last of them
  errors, \* FrameErrors put on _async_errors
  faults, \* history: bytes lost or altered
  stalls  \* history: time-outs that dropped bytes

vars == <<sent, wire, buf, open, got, last, errors, faults, stalls>>

Octets(s) == [i \in DOMAIN s |-> s[i].b]

Init ==
  /\ sent = <<>> /\ wire = <<>> /\ buf = <<>>
  /\ open = TRUE
  /\ got = <<>> /\ last = 0
  /\ errors = 0 /\ faults = 0 /\ stalls = 0

-----------------------------------------------------------------------------
(* The other side and the link (external)                                  *)

Stamped(w, n) == [i \in DOMAIN w |-> [b |-> w[i], of |-> n, at |-> i]]

Writes(f) ==
  /\ Len(sent) < MaxSent
  /\ sent' = Append(sent, f)
  /\ \E w \in Encode(f) : wire' = wire \o Stamped(w, Len(sent'))
  /\ UNCHANGED <<buf, open, got, last, errors, faults, stalls>>

\* A byte is lost or altered on the way to the reader.
Spoils ==
  /\ open
  /\ wire # <<>>
  /\ faults < MaxFaults
  /\ faults' = faults + 1
  /\ \/ wire' = Tail(wire)
     \/ \E c \in Noise \ {Head(wire).b} : wire' = [wire EXCEPT ![1].b = c]
  /\ UNCHANGED <<sent, buf, open, got, last, errors, stalls>>

-----------------------------------------------------------------------------
(* _reader_loop and read_frame                                             *)

ReadByte ==
  /\ open
  /\ wire # <<>> /\ Head(wire).b # 0
  /\ buf' = Append(buf, Head(wire))
  /\ wire' = Tail(wire)
  /\ UNCHANGED <<sent, open, got, last, errors, faults, stalls>>

\* Faulty: the bytes of a frame that does not decode are kept.
KeepsBad == IF Decode(Octets(buf)) = {} THEN buf ELSE <<>>

\* Faulty: the delimiter is the first byte of the next frame.
KeepsDelimiter == <<Head(wire)>>

Fresh == <<>>

\* Faulty: after a bad frame the input is flushed.
Flushed == IF Decode(Octets(buf)) = {} THEN <<>> ELSE Tail(wire)

Rest == Tail(wire)

\* The frame that was read, among those with bytes in buf.
Origin(f) ==
  LET here == {buf[i].of : i \in DOMAIN buf}
      same == {i \in here : i > last /\ sent[i] = f}
  IN  IF same = {} THEN Head(buf).of ELSE CHOOSE i \in same : \A j \in same : i <= j

\* The delimiter: nothing, a frame, or an error.
ReadDelimiter ==
  /\ open
  /\ wire # <<>> /\ Head(wire).b = 0
  /\ wire' = Rest
  /\ buf' = Fresh
  /\ LET frames == Decode(Octets(buf))
     IN  IF buf = <<>> THEN UNCHANGED <<got, last, errors>>
         ELSE IF frames = {} THEN errors' = errors + 1 /\ UNCHANGED <<got, last>>
         ELSE /\ \E f \in frames : got' = Append(got, f) /\ last' = Origin(f)
              /\ UNCHANGED errors
  /\ UNCHANGED <<sent, open, faults, stalls>>

\* reader.read(1) times out: read_frame returns None and buf is gone.
ReadNothing ==
  /\ open
  /\ buf # <<>>
  /\ stalls < MaxStalls
  /\ stalls' = stalls + 1
  /\ buf' = <<>>
  /\ UNCHANGED <<sent, wire, open, got, last, errors, faults>>

\* The port is unplugged, the socket closed or the mux gone: an OSError.
ReadFails ==
  /\ open
  /\ open' = FALSE
  /\ UNCHANGED <<sent, wire, buf, got, last, errors, faults, stalls>>

Next ==
  \/ \E f \in Msgs : Writes(f)
  \/ Spoils
  \/ ReadByte \/ ReadDelimiter \/ ReadNothing \/ ReadFails

Spec == Init /\ [][Next]_vars

-----------------------------------------------------------------------------
(* Properties                                                              *)

\* Every variable has its type; buf never holds a delimiter.
TypeOK ==
  /\ sent \in Seq(Msgs)
  /\ wire \in Seq([b : Octet, of : 1 .. Len(sent), at : Nat])
  /\ buf \in Seq([b : Octet \ {0}, of : 1 .. Len(sent), at : Nat])
  /\ open \in BOOLEAN
  /\ got \in Seq(Frames)
  /\ last \in 0 .. Len(sent)
  /\ errors \in Nat /\ faults \in 0 .. MaxFaults /\ stalls \in 0 .. MaxStalls

\* Frames come to _dispatch as they were written, in order and once, whatever
\* happens to the bytes: the tail of a frame cut by a time-out, and two frames
\* that lost the delimiter between them, are never taken for frames.
TheLink == INSTANCE Link WITH next <- last + 1

KeepsFrames == TheLink!Spec

\* The checksum catches whatever happens to the bytes: what is decoded is the
\* frame whose last byte before the delimiter was read last (frame.py:131-135).
Detected ==
  wire # <<>> /\ Head(wire).b = 0 /\ buf # <<>> =>
    \A f \in Decode(Octets(buf)) :
      LET end == buf[Len(buf)]
      IN  sent[end.of] = f /\ \A w \in Encode(f) : end.at = Len(w) - 1

\* Frames of which no byte is left and that were not handed on.
Passed == 1 .. (IF wire = <<>> THEN Len(sent) ELSE Head(wire).of - 1)
Lost == Cardinality(Passed) - Len(got)

\* The reader finds its way back at the next delimiter: a spoilt byte costs two
\* frames at most, the one it is in and, if it was the delimiter, the next;
\* a stall costs one (frame.py:124-134).
Resyncs == Lost <= 2 * faults + stalls

\* An asynchronous error is a sign of something that happened to the bytes.
ErrorsHaveCauses == errors <= 2 * faults + stalls
=============================================================================
