CONSTANTS
  a = a
  b = b
  boss = boss
  u = u
  g = g
  t = t
  public = public
  none = none
  NoSession = NoSession
  default = boss
  Session = {a, b}
  Name = {boss, u, g}
  Table = {t}
  Privilege = {"SELECT", "ALL"}
  Managed = {boss, g}
  authUser <- MCAuthUser
  Given <- MCGiven
  Asks <- MCAsks
  MaxAsked = 3
SPECIFICATION Spec
\* The statements are used up.
CHECK_DEADLOCK FALSE
INVARIANTS CacheAgrees RecordsAgree
