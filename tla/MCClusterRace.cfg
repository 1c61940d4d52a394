\* Two connections are enough for CREATE DATABASE to replace a live entry.
CONSTANTS
  c1 = c1
  c2 = c2
  c3 = c3
  app = app
  shop = shop
  postgres = postgres
  Clients = {c1, c2, c3}
  Names = {postgres, app}
  Entry = postgres
  Maintenance = postgres
  MaxOpen = 2
  MaxSeq = 6
SPECIFICATION Spec
CHECK_DEADLOCK FALSE
PROPERTIES DropFailsInUse
