\* A listener, and a device that forgets its configuration.
SPECIFICATION Spec
CONSTANTS
  u1 = u1
  ka = ka
  A = A
  NoConfig = NoConfig
  Nobody = Nobody
  Users = {u1}
  Keepers = {ka}
  Ops = {"rx"}
  Configs = {A}
  Boots = {A}
  Reopeners = {TRUE}
  Faults = {"forget"}
  MaxSessions = 2
INVARIANTS RxMirrored
