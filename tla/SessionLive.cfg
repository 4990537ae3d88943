\* One caller, a consumer that waits for ever and one that does not, a close()
\* and every fault, under fairness.
CONSTANTS
  c1 = c1
  k1 = k1
  x1 = x1
  x2 = x2
  Callers = {c1}
  Closers = {k1}
  Consumers = {x1, x2}
  Patient = {x1}
  Kinds = {"PLAIN"}
  Faults = {"oversize", "malformed", "garbled", "drop", "refusal"}
  MaxTag = 2
  MaxCmds = 1
  MaxAsync = 1
SPECIFICATION FairSpec
INVARIANTS  SentinelKept
PROPERTIES PromptWake RxReleased
