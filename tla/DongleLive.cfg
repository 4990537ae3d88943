\* A user that calls every method, and the keepalive thread, under fairness;
\* with and without a reopener.  Both find the session dead.
CONSTANTS
  u1 = u1
  ka = ka
  A = A
  NoConfig = NoConfig
  Nobody = Nobody
  Users = {u1}
  Keepers = {ka}
  Ops = {"tx", "rx", "recv", "rx_stop", "set_config", "ping"}
  Configs = {A}
  Boots = {A, NoConfig}
  Reopeners = {TRUE, FALSE}
  Faults = {"drop", "forget"}
  MaxSessions = 2
SPECIFICATION FairSpec
INVARIANTS TypeOK TxHonest SupersededClosed
PROPERTIES LiveSessionKept KeeperEnds DeathRetried CloseReleases 
