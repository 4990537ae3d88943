------------------------------ MODULE MCCodec ------------------------------
(***************************************************************************)
(* Payloads of every kind: fields at both ends of their ranges, negative   *)
(* numbers, identifiers and sync words that are empty and not.             *)
(*                                                                         *)
(* TLC's integers have 32 bits: unsigned numbers are below 2^31 here, and  *)
(* no byte is changed to one above 127.                                    *)
(***************************************************************************)
EXTENDS Codec

LoRa ==
  [freq_hz |-> 868100000, sf |-> 7, bw |-> 7, cr |-> 0, preamble_len |-> 8,
   sync_word |-> 5156, tx_power_dbm |-> -9, header_mode |-> 0,
   payload_crc |-> 1, iq_invert |-> 0]

Fsk(word) ==
  [freq_hz |-> 433000000, bitrate_bps |-> 50000, freq_dev_hz |-> 25000,
   rx_bw |-> 255, preamble_len |-> 16, sync_len |-> Len(word), sync_word |-> word]

LrFhss ==
  [freq_hz |-> 915000000, bw |-> 7, cr |-> 3, grid |-> 1, hopping |-> 1,
   tx_power_dbm |-> 22, reserved |-> 0]

Flrc ==
  [freq_hz |-> 2140000000, bitrate |-> 7, cr |-> 2, bt |-> 2, preamble_len |-> 6,
   sync_word |-> 305419896, tx_power_dbm |-> -18]

MCModulations ==
  {[id |-> 1, params |-> LoRa], [id |-> 2, params |-> Fsk(<<>>)],
   [id |-> 2, params |-> Fsk(<<18, 173, 0>>)], [id |-> 3, params |-> LrFhss],
   [id |-> 4, params |-> Flrc]}

MCInfo(mcu, radio) ==
  [proto_major |-> 1, proto_minor |-> 0, fw_major |-> 1, fw_minor |-> 2,
   fw_patch |-> 3, radio_chip_id |-> 2, capability_bitmap |-> 1,
   supported_sf_bitmap |-> 8160, supported_bw_bitmap |-> 1023,
   max_payload_bytes |-> 255, rx_queue_capacity |-> 32, tx_queue_capacity |-> 1,
   freq_min_hz |-> 150000000, freq_max_hz |-> 960000000,
   tx_power_min_dbm |-> -9, tx_power_max_dbm |-> 22,
   mcu_uid_len |-> Len(mcu), mcu_uid |-> mcu, radio_uid |-> radio]

MCRx(data) ==
  [rssi |-> -1205, snr |-> -75, freq_err_hz |-> -1300, timestamp_us |-> 123456789,
   crc_valid |-> 1, packets_dropped |-> 300, origin |-> 1, data |-> data]

Long == [i \in 1 .. 255 |-> i]

Of(k, messages) == {[kind |-> k, message |-> m] : m \in messages}

MCSamples ==
  Of("modulation", MCModulations)
    \cup Of("info", {MCInfo(<<>>, <<>>), MCInfo(<<1, 2>>, <<3>>)})
    \cup Of("set_config", {[result |-> 2, owner |-> 2, current |-> c] : c \in MCModulations})
    \cup Of("tx_done", {[result |-> 2, airtime_us |-> 61696]})
    \cup Of("rx", {MCRx(<<>>), MCRx(<<0, 7>>), MCRx(Long)})
    \cup Of("err", {[code |-> 3], [code |-> 65535]})
    \cup Of("tx", {[data |-> Long, skip_cad |-> TRUE]})
=============================================================================
