\* Three sessions on one key; s3 uses transaction-level locks only.
CONSTANTS
  s1 = s1
  s2 = s2
  s3 = s3
  k1 = k1
  k2 = k2
  Sessions <- MCSessions
  Keys = {k1}
  XactOnly <- MCXactOnly
  NoSession = NoSession
  MaxHolds = 2
  MaxRecords = 1
SPECIFICATION FairSpec
INVARIANTS TypeOK MutualExclusion NoLostWakeup NothingAfterClose XactLocksExact
PROPERTIES KeepsContract FreeLockIsTaken OnlyCancelEndsDeadlock
