\* BEGIN, then an EXECUTE that fails.
CONSTANTS
  Queries <- MCQueries
  Parsed <- MCParsed
  Statements = {"s"}
  Portals = {"p"}
  Rows = 2
  MaxSavepoints = 1
  MaxWork = 2
SPECIFICATION Spec
PROPERTY FailureAborts
