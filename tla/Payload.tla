------------------------------ MODULE Payload ------------------------------
(***************************************************************************)
(* The payloads of commands and events: donglora/modulation.py, info.py,   *)
(* events.py and commands.py.                                              *)
(*                                                                         *)
(* The code packs each dataclass field after field and reads each where    *)
(* it expects it; here a layout lists the fields with the bytes before     *)
(* them, and one operator packs and one unpacks.  What may be refused is a *)
(* set of at most one value: {} is the ValueError.  A field of 8 bytes has *)
(* only its lower half here.                                               *)
(***************************************************************************)
EXTENDS Integers, Sequences, SequencesExt

Octet == 0 .. 255

\* A field: the bytes before it, and the raw values it may have when it is read.
FieldAt(name, at, size, signed, values) ==
  [name |-> name, at |-> at, size |-> size, signed |-> signed, values |-> values]
U(name, at, size) == FieldAt(name, at, size, FALSE, Int)
S(name, at, size) == FieldAt(name, at, size, TRUE, Int)
E(name, at, values) == FieldAt(name, at, 1, FALSE, values)
Flag(name, at) == E(name, at, {0, 1})

\* What the bytes of a number count for.
Place == <<1, 256, 65536, 16777216>>

\* Faulty: the bytes are not cut out of the number.
PackUnmasked(v, n) == [i \in 1 .. n |-> IF i > 4 THEN 0 ELSE v \div Place[i]]

\* struct.pack of one number, little-endian.
Pack(v, n) == [i \in 1 .. n |-> IF i > 4 THEN 0 ELSE (v \div Place[i]) % 256]

\* Faulty: "<H" for "<h".
DigitUnsigned(b, i, signed) == IF i > Len(b) THEN 0 ELSE b[i]

\* The i-th byte of a number, the last one with its sign.
Digit(b, i, signed) ==
  IF i > Len(b) THEN 0 ELSE IF i = Len(b) /\ signed /\ b[i] >= 128 THEN b[i] - 256 ELSE b[i]

Unpack(b, signed) ==
  Digit(b, 1, signed) + Place[2] * Digit(b, 2, signed)
    + Place[3] * Digit(b, 3, signed) + Place[4] * Digit(b, 4, signed)

\* The values a field can be packed from; struct.error otherwise.
Fits(v, f) ==
  /\ v \in f.values
  /\ v \div Place[IF f.size > 4 THEN 4 ELSE f.size]
       \in (IF f.signed THEN -128 .. 127 ELSE Octet)

Names(layout) == {layout[i].name : i \in DOMAIN layout}
Field(layout, name) == CHOOSE i \in DOMAIN layout : layout[i].name = name

\* The bytes up to the end of field i.
End(layout, i) == layout[i].at + layout[i].size

Size(layout) == End(layout, Len(layout))

EncodeFields(layout, m) ==
  FlattenSeq([i \in DOMAIN layout |-> Pack(m[layout[i].name], layout[i].size)])

\* What field i holds in b, which is long enough.
Value(layout, b, i) ==
  Unpack(SubSeq(b, layout[i].at + 1, End(layout, i)), layout[i].signed)

\* The first fields of b, if their values are allowed.
DecodeFields(layout, b) ==
  IF \A i \in DOMAIN layout : Value(layout, b, i) \in layout[i].values
  THEN {[n \in Names(layout) |-> Value(layout, b, Field(layout, n))]}
  ELSE {}

\* A message with one field more.
With(m, name, v) == [n \in DOMAIN m \cup {name} |-> IF n = name THEN v ELSE m[n]]

\* Faulty: a payload that is longer than its fields is accepted.
AtLeast(b, n) == Len(b) >= n

Exactly(b, n) == Len(b) = n

DecodeWhole(layout, b) ==
  IF Exactly(b, Size(layout)) THEN DecodeFields(layout, b) ELSE {}

-----------------------------------------------------------------------------
(* modulation.py                                                           *)

LoRaConfig ==
  <<U("freq_hz", 0, 4), U("sf", 4, 1), E("bw", 5, 0 .. 13), E("cr", 6, 0 .. 3),
    U("preamble_len", 7, 2), U("sync_word", 9, 2), S("tx_power_dbm", 11, 1),
    E("header_mode", 12, {0, 1}), Flag("payload_crc", 13), Flag("iq_invert", 14)>>

LrFhssConfig ==
  <<U("freq_hz", 0, 4), E("bw", 4, 0 .. 7), E("cr", 5, 0 .. 3),
    E("grid", 6, {0, 1}), Flag("hopping", 7), S("tx_power_dbm", 8, 1),
    E("reserved", 9, {0})>>

FlrcConfig ==
  <<U("freq_hz", 0, 4), E("bitrate", 4, 0 .. 7), E("cr", 5, 0 .. 2),
    E("bt", 6, 0 .. 2), E("preamble_len", 7, 0 .. 6), U("sync_word", 8, 4),
    S("tx_power_dbm", 12, 1)>>

\* FSK: fixed fields, then the length of the sync word and the word.
FskFields ==
  <<U("freq_hz", 0, 4), U("bitrate_bps", 4, 4), U("freq_dev_hz", 8, 4),
    U("rx_bw", 12, 1), U("preamble_len", 13, 2), E("sync_len", 15, 0 .. 8)>>

EncodeFsk(m) == EncodeFields(FskFields, m) \o m.sync_word

DecodeFsk(b) ==
  IF Len(b) < 16 THEN {}
  ELSE {With(m, "sync_word", SubSeq(b, 17, Len(b))) :
          m \in {d \in DecodeFields(FskFields, b) : Len(b) = 16 + d.sync_len}}

\* ModulationId and the layout of its parameters; FSK (2) has none.
Modulations ==
  [id \in {1, 3, 4} |-> CASE id = 1 -> LoRaConfig
                         [] id = 3 -> LrFhssConfig
                         [] id = 4 -> FlrcConfig]

encode_modulation(mod) ==
  <<mod.id>> \o (IF mod.id = 2 THEN EncodeFsk(mod.params)
                 ELSE EncodeFields(Modulations[mod.id], mod.params))

decode_modulation(b) ==
  IF b = <<>> \/ b[1] \notin 1 .. 4 THEN {}
  ELSE LET params == IF b[1] = 2 THEN DecodeFsk(Tail(b))
                     ELSE DecodeWhole(Modulations[b[1]], Tail(b))
       IN  {[id |-> b[1], params |-> p] : p \in params}

-----------------------------------------------------------------------------
(* info.py                                                                 *)

MAX_MCU_UID_LEN == 32
MAX_RADIO_UID_LEN == 16

InfoHeader ==
  <<U("proto_major", 0, 1), U("proto_minor", 1, 1), U("fw_major", 2, 1),
    U("fw_minor", 3, 1), U("fw_patch", 4, 1), U("radio_chip_id", 5, 2),
    U("capability_bitmap", 7, 8), U("supported_sf_bitmap", 15, 2),
    U("supported_bw_bitmap", 17, 2), U("max_payload_bytes", 19, 2),
    U("rx_queue_capacity", 21, 2), U("tx_queue_capacity", 23, 2),
    U("freq_min_hz", 25, 4), U("freq_max_hz", 29, 4),
    S("tx_power_min_dbm", 33, 1), S("tx_power_max_dbm", 34, 1),
    E("mcu_uid_len", 35, 0 .. MAX_MCU_UID_LEN)>>

EncodeInfo(m) ==
  EncodeFields(InfoHeader, m) \o m.mcu_uid \o <<Len(m.radio_uid)>> \o m.radio_uid

\* Faulty: the second length is not compared with what is there.
TrustsLength(b, n) == TRUE

LongEnough(b, n) == Len(b) >= n

\* A slice of Python, which ends where b ends.
Slice(b, first, last) == SubSeq(b, first, IF last > Len(b) THEN Len(b) ELSE last)

\* Bytes after the second identifier are ignored.
DecodeInfo(b) ==
  IF Len(b) < 37 THEN {}
  ELSE UNION {LET at == 36 + h.mcu_uid_len + 1
              IN  IF Len(b) < at \/ b[at] > MAX_RADIO_UID_LEN
                     \/ ~LongEnough(b, at + b[at]) THEN {}
                  ELSE {With(With(h, "mcu_uid", Slice(b, 37, at - 1)),
                             "radio_uid", Slice(b, at + 1, at + b[at]))} :
              h \in DecodeFields(InfoHeader, b)}

-----------------------------------------------------------------------------
(* events.py                                                               *)

ResultHeader == <<E("result", 0, 0 .. 2), E("owner", 1, 0 .. 2)>>

EncodeSetConfigResult(m) ==
  EncodeFields(ResultHeader, m) \o encode_modulation(m.current)

DecodeSetConfigResult(b) ==
  IF Len(b) < 2 THEN {}
  ELSE {With(h, "current", c) : h \in DecodeFields(ResultHeader, b),
                               c \in decode_modulation(SubSeq(b, 3, Len(b)))}

TxDone == <<E("result", 0, 0 .. 2), U("airtime_us", 1, 4)>>

\* rssi and snr are the tenths of a dB of the wire; the code divides by 10 and
\* rounds the product on the way back.
RxMetadata ==
  <<S("rssi", 0, 2), S("snr", 2, 2), S("freq_err_hz", 4, 4),
    U("timestamp_us", 8, 8), Flag("crc_valid", 16), U("packets_dropped", 17, 2),
    E("origin", 19, {0, 1})>>

EncodeRx(m) == EncodeFields(RxMetadata, m) \o m.data

DecodeRx(b) ==
  IF Len(b) < 20 THEN {}
  ELSE {With(h, "data", SubSeq(b, 21, Len(b))) : h \in DecodeFields(RxMetadata, b)}

ErrPayload == <<U("code", 0, 2)>>

\* The command types whose OK has no payload: PING, TX, RX_START, RX_STOP.
EmptyOks == {1, 4, 5, 6}

parse_ok_payload(cmd, b) ==
  CASE cmd \in EmptyOks -> IF b = <<>> THEN {[empty |-> TRUE]} ELSE {}
    [] cmd = 2 -> DecodeInfo(b)
    [] cmd = 3 -> DecodeSetConfigResult(b)
    [] OTHER -> {}

-----------------------------------------------------------------------------
(* commands.py                                                             *)

\* {}: a ValueError for an empty packet.
encode_tx_payload(data, skip_cad) ==
  IF data = <<>> THEN {} ELSE {<<IF skip_cad THEN 1 ELSE 0>> \o data}

-----------------------------------------------------------------------------
(* Both directions, by what a payload is.  The client packs the payload of  *)
(* a TX and never reads one; those of the other commands are empty.         *)

EncodePayload(kind, m) ==
  CASE kind = "modulation" -> encode_modulation(m)
    [] kind = "info" -> EncodeInfo(m)
    [] kind = "set_config" -> EncodeSetConfigResult(m)
    [] kind = "tx_done" -> EncodeFields(TxDone, m)
    [] kind = "rx" -> EncodeRx(m)
    [] kind = "err" -> EncodeFields(ErrPayload, m)
    [] kind = "tx" -> CHOOSE b \in encode_tx_payload(m.data, m.skip_cad) : TRUE

DecodePayload(kind, b) ==
  CASE kind = "modulation" -> decode_modulation(b)
    [] kind = "info" -> parse_ok_payload(2, b)
    [] kind = "set_config" -> parse_ok_payload(3, b)
    [] kind = "tx_done" -> DecodeWhole(TxDone, b)
    [] kind = "rx" -> DecodeRx(b)
    [] kind = "err" -> DecodeWhole(ErrPayload, b)
-----------------------------------------------------------------------------
(* What the program can pack: the fields of the dataclasses, in the ranges  *)
(* that struct.pack and bytes() take, and the lengths that are checked.     *)

HasFields(m, layout, others) ==
  /\ m = [n \in Names(layout) \cup others |-> m[n]]
  /\ \A i \in DOMAIN layout : Fits(m[layout[i].name], layout[i])

IsFsk(m) ==
  /\ HasFields(m, FskFields, {"sync_word"})
  /\ m.sync_word \in Seq(Octet) /\ Len(m.sync_word) = m.sync_len

IsModulation(mod) ==
  /\ mod = [id |-> mod.id, params |-> mod.params]
  /\ \/ mod.id = 2 /\ IsFsk(mod.params)
     \/ /\ mod.id \in DOMAIN Modulations
        /\ HasFields(mod.params, Modulations[mod.id], {})

IsInfo(m) ==
  /\ HasFields(m, InfoHeader, {"mcu_uid", "radio_uid"})
  /\ m.mcu_uid \in Seq(Octet) /\ Len(m.mcu_uid) = m.mcu_uid_len
  /\ m.radio_uid \in Seq(Octet) /\ Len(m.radio_uid) <= MAX_RADIO_UID_LEN

IsSetConfigResult(m) ==
  HasFields(m, ResultHeader, {"current"}) /\ IsModulation(m.current)

IsRx(m) == HasFields(m, RxMetadata, {"data"}) /\ m.data \in Seq(Octet)

IsMessage(kind, m) ==
  \/ kind = "modulation" /\ IsModulation(m)
  \/ kind = "info" /\ IsInfo(m)
  \/ kind = "set_config" /\ IsSetConfigResult(m)
  \/ kind = "tx_done" /\ HasFields(m, TxDone, {})
  \/ kind = "rx" /\ IsRx(m)
  \/ kind = "err" /\ HasFields(m, ErrPayload, {})
  \/ kind = "tx" /\ m.data \in Seq(Octet) \ {<<>>}
=============================================================================
