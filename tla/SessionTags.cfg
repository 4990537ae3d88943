\* Two callers, one wrap of the tag counter.
SPECIFICATION Spec
CONSTANTS
  c1 = c1
  c2 = c2
  Callers = {c1, c2}
  Closers = {}
  Consumers = {}
  Patient = {}
  Kinds = {"TX", "PLAIN"}
  Faults = {}
  MaxTag = 2
  MaxCmds = 3
  MaxAsync = 0
SYMMETRY Symmetry
INVARIANTS TypeOK OwnReply NoLeakedPending
