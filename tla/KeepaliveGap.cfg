CONSTANTS
  Users = {u1, u2}
  Interval = 2
  PingTimeout = 4
  Inactivity = 4
  Reply = 1
  Late = 1
  Slack = 1
  MaxNow = 16
  MaxAllow = 28
SPECIFICATION Spec
INVARIANTS
  TypeOK
  
