CONSTANTS
  t1 = t1
  t2 = t2
  t3 = t3
  a = a
  b = b
  Txns = {t1, t2, t3}
  Tables = {a, b}
SPECIFICATION FairSpec
INVARIANT Compatible
INVARIANT NoStalledHead
PROPERTY ImplementsTwoPhase
PROPERTY FifoGrants
PROPERTY DeadlockPersists
PROPERTY EventuallyGranted
\* transactions may deadlock: Acquire has no timeout
CHECK_DEADLOCK FALSE
