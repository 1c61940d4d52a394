\* A client that mixes pg_advisory_xact_lock and pg_advisory_unlock.
CONSTANTS
  s1 = s1
  s2 = s2
  s3 = s3
  k1 = k1
  k2 = k2
  Sessions = {s1, s2}
  Keys = {k1}
  XactOnly = {}
  NoSession = NoSession
  MaxHolds = 2
  MaxRecords = 2
SPECIFICATION Spec
INVARIANT XactLockLastsForTx
