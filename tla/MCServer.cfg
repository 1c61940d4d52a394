\* Room for two sessions: c3 waits for c1 to leave, or brings a CancelRequest.
CONSTANTS
  c1 = c1
  c2 = c2
  c3 = c3
  Session <- MCSession
  NoSession = NoSession
  Channel = {"jobs"}
  MaxNotes = 2
  MaxStatements = 2
  MaxConnections = 3
  Asks <- MCAsks
SPECIFICATION FairSpec
\* A session is used once, and clients may leave or stay silent.
CHECK_DEADLOCK FALSE
INVARIANTS OneWriter ExactlyOnce SenderOrder OnlyTheStatementAsked HeldInOrder FreshUnlessWaited
PROPERTIES DeliveredWhenIdle CancelIsHeard
