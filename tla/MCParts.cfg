INIT Init
NEXT Next
CONSTANTS
  u1 = u1
  u2 = u2
  d1 = d1
  d2 = d2
  a1 = a1
  a2 = a2
  p1 = p1
  p2 = p2
  n1 = n1
  n2 = n2
  s1 = s1
  s2 = s2
  r1 = r1
  r2 = r2
  none = none
  NoSession = NoSession
  User = {u1, u2}
  Fold <- MCFold
  Database = {d1, d2}
  Address = {a1, a2}
  Loopback = {a1}
  Password = {p1, p2}
  Nonce = {n1, n2}
  Files <- MCFiles
  Settings <- MCSettings
  Changes = 1
  Session = {s1, s2}
  Subjects = {s1}
  Row = {r1, r2}
  Copy <- MCCopy
  Policy <- MCPolicy
  Effective = {"me", "us"}
  Role = "me"
  Starts <- MCStarts
  Wheres = {{r1, r2}}
  MaxPolicies = 2
  MaxChanges = 1
  MaxStatements = 1
  Cells <- MCCells
  MaxRows = 4
  Int64 <- MCInt64
  Grid = 1024
  MaxDigits = 4
  Ranges <- MCRanges
  Points <- MCPoints
  Bounds <- MCBounds
  Moments <- MCMoments
  Ages <- MCAges
  Numbers <- MCNumbers
  Fractions <- MCFractions
  Messages <- MCMessages
  Expressions <- MCExpressions
  Intervals <- MCIntervals
  Reads <- MCReads
  Writes <- MCWrites
  Additions <- MCAdditions
  Transfers <- MCTransfers
  Arrays <- MCArrays
  Maps <- MCMaps
  Types <- MCTypes
INVARIANTS AdmittedAsRuled RowsPermitted AnswersRight TextsKept
CHECK_DEADLOCK FALSE
