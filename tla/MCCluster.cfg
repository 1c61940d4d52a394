\* Three connections, three databases, two of which may stay open.
CONSTANTS
  c1 = c1
  c2 = c2
  c3 = c3
  app = app
  shop = shop
  postgres = postgres
  Clients <- MCClients
  Names <- MCNames
  Entry = app
  Maintenance = postgres
  MaxOpen = 2
  MaxSeq = 4
SPECIFICATION FairSpec
\* Dir.seq is bounded by MaxSeq, so behaviours end.
CHECK_DEADLOCK FALSE
INVARIANTS TypeOK OpenHasFile RefsAreHeld OverCapOnlyInUse ExactUnlessLeaked
PROPERTIES EvictsOldestFirst DropAnswered
