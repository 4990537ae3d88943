\* Two callers, a close(), a drop.
SPECIFICATION Spec
CONSTANTS
  c1 = c1
  c2 = c2
  k1 = k1
  Callers = {c1, c2}
  Closers = {k1}
  Consumers = {}
  Patient = {}
  Kinds = {"TX", "QUERY"}
  Faults = {"refusal", "drop"}
  MaxTag = 2
  MaxCmds = 2
  MaxAsync = 0
SYMMETRY Symmetry
INVARIANTS NoInternalError NoStrandedWaiter TxDoneKept
PROPERTIES KeepsPromise
