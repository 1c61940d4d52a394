\* One connection, one prepared statement, one portal, a result of two rows.
CONSTANTS
  Queries <- MCQueries
  Parsed <- MCParsed
  Statements = {"s"}
  Portals = {"p"}
  Rows = 2
  MaxSavepoints = 1
  MaxWork = 2
SPECIFICATION Spec
PROPERTIES QueryIsAtomic TakesEffectAtCommit LossIsNoticed
   SkipsToSync FetchIsComplete
