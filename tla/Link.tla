-------------------------------- MODULE Link --------------------------------
(***************************************************************************)
(* What the byte stream is to a Session: a link that hands on some of the  *)
(* frames written to it, unaltered, in order, each once.                   *)
(***************************************************************************)
EXTENDS Integers, Sequences

CONSTANT Msgs \* frames

VARIABLES
  sent, \* frames written
  got,  \* frames handed to _dispatch
  next  \* the first frame that may still be handed on

Init == sent = <<>> /\ got = <<>> /\ next = 1

Sends ==
  /\ \E f \in Msgs : sent' = Append(sent, f)
  /\ UNCHANGED <<got, next>>

\* The frames skipped are lost.
HandsOn ==
  /\ \E i \in next .. Len(sent) : got' = Append(got, sent[i]) /\ next' = i + 1
  /\ UNCHANGED sent

Next == Sends \/ HandsOn

Spec == Init /\ [][Next]_<<sent, got, next>>
=============================================================================
