CONSTANTS
  a = a
  b = b
  app = app
  old = old
  t = t
  public = public
  temporary = temporary
  none = none
  NoSession = NoSession
  Session = {a, b}
  Schema = {public, app, old}
  Table = {t}
  Existing = {t}
  Paths <- MCPaths
  Asks <- MCAsks
  MaxAsked = 4
SPECIFICATION Spec
\* The statements are used up.
CHECK_DEADLOCK FALSE
INVARIANTS SchemasAgree 
