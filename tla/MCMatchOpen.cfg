SPECIFICATION FairSpec
CONSTANTS
  Clients = {1, 2}
  Tree <- MCShortTree
  Start = "start"
  MaxGames = 2
  MayShutdown = TRUE
  Pythons = {}
  Leavers = {1}
  Strangers = {2}
  MaxStray = 1
  TimePasses = TRUE
  Deadline = 1
  PrepTime = 1
INVARIANTS
  TypeOK
  ReplicasAgree
  RefusedOnlyStrangers
  ResultsTellAll
  LogReplays
PROPERTIES
  ServerStops
