SPECIFICATION Spec
CONSTANTS
  Workers = {w1, w2}
  Routers = {r1}
  Slugs = {"a", "b"}
  MaxChunks = 2
  Foreign = {u1}
  Ids = {1, 2}
  InitRoutes <- MCInitRoutes
  Imports <- MCImports
  Torn = Torn
  NoRouter = NoRouter
  MaxRequests = 3
  MaxFaults = 1
INVARIANTS TypeOK StatusHonest
PROPERTIES GroupsExact BoundExact FlagReleased
CHECK_DEADLOCK FALSE
