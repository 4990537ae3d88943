------------------------------- MODULE MCWire -------------------------------
EXTENDS Wire, Frame

\* An OK and an ERR: without and with a payload, and with zeros in different
\* places.
MCMsgs ==
  {[type |-> 128, tag |-> 1, payload |-> <<>>],
   [type |-> 129, tag |-> 514, payload |-> <<3, 0>>]}
=============================================================================
