SPECIFICATION FairSpec
CONSTANTS
  Clients = {1, 2, 3}
  Tree <- MCThreeTree
  Start = "start"
  MaxGames = 2
  MayShutdown = FALSE
  Pythons = {2}
  Leavers = {}
  Strangers = {}
  MaxStray = 1
  TimePasses = FALSE
  Deadline = 1
  PrepTime = 1
INVARIANTS
  TypedReads
  ReplicasAgree
PROPERTIES
  ServerPlaysSeries
  ClientsPlaySeries
  AllGamesPlayed
