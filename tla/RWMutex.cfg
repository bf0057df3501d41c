SPECIFICATION LockSpec
CONSTANTS
  Threads = {t1, t2, t3, t4}
  None = None
INVARIANT NoLostWakeup
PROPERTY ImplementsSharedLock
PROPERTY StarvedByReadersOnly
