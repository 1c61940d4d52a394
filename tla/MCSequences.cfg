SPECIFICATION Spec
CONSTANTS
  a = a
  b = b
  ids = ids
  NoSession = NoSession
  NoSequence = NoSequence
  Session = {a, b}
  Sequence = {ids}
  MaxInt = 3
  CreateLists <- MCCreateLists
  AlterLists <- MCAlterLists
  Given = {}
  Statements <- MCStatements
  MaxRecords = 1
  MaxAsked = 7
\* The statements are used up.
CHECK_DEADLOCK FALSE
INVARIANTS
  HandedOutOnce
  NoOverwriteInTx
  WithinBounds
