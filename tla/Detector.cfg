CONSTANTS
  t1 = t1
  t2 = t2
  t3 = t3
  Txns = {t1, t2, t3}
SPECIFICATION FairSpec
INVARIANT NoFalseAlarm
INVARIANT NoMissedDeadlock
PROPERTY Terminates
