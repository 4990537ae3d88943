\* Two threads, every opener, every environment.
SPECIFICATION Spec
CONSTANTS
  t1 = t1
  t2 = t2
  Threads = {t1, t2}
  Entries = {"connect", "port", "try_connect", "connect_mux_auto", "mux_connect", "path", "mux_tcp_connect"}
  Modes = {"xdg", "none"}
  Infos <- MCInfos
  Requests <- MCRequests
  DefaultReq <- MCDefault
  Foreign <- MCForeign
  MaxLeaks = 1
SYMMETRY Symmetry
INVARIANTS TypeOK StickyMux  ConfigFits
