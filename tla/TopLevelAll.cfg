CONSTANTS
  Threads = {t1, t2, t3}
  MaxDongles = 3
SPECIFICATION FairSpec
INVARIANTS
  TypeOK
  NoOrphan
  ExitCloses
PROPERTY LockServes
