\* close() while the keepalive thread reconnects.
SPECIFICATION Spec
CONSTANTS
  u1 = u1
  ka = ka
  A = A
  NoConfig = NoConfig
  Nobody = Nobody
  Users = {u1}
  Keepers = {ka}
  Ops = {"tx", "rx", "recv"}
  Configs = {A}
  Boots = {A}
  Reopeners = {TRUE}
  Faults = {"drop", "forget"}
  MaxSessions = 2
INVARIANTS CloseCloses
