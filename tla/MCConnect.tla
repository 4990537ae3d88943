----------------------------- MODULE MCConnect -----------------------------
(***************************************************************************)
(* Connect on a small instance: requests at, beyond and below the limits   *)
(* of the device, and one that is not LoRa.                                *)
(***************************************************************************)
EXTENDS Connect, TLC

Symmetry == Permutations(Threads)

LoRa(freq, sf, power) ==
  [lora |-> TRUE, freq |-> freq, sf |-> sf, bw |-> 7, power |-> power]

MCInfos ==
  {[freqMin |-> 3, freqMax |-> 5, sfs |-> {7, 12}, bws |-> {7},
    powerMin |-> -1, powerMax |-> 2]}

MCDefault == LoRa(4, 7, 3)

MCRequests ==
  {LoRa(3, 12, -2), LoRa(6, 7, 0), [NoMod EXCEPT !.freq = 9]}

MCForeign == {LoRa(5, 7, 1)}
=============================================================================
