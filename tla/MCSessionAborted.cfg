\* BEGIN, a statement that fails, CREATE SCHEMA.
CONSTANTS
  Queries <- MCQueries
  Parsed <- MCParsed
  Statements = {"s"}
  Portals = {"p"}
  Rows = 2
  MaxSavepoints = 1
  MaxWork = 2
SPECIFICATION Spec
PROPERTY AbortedRejects
