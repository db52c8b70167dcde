SPECIFICATION SlowSpec
CONSTANTS
  Clients = {1, 2}
  Tree <- MCShortTree
  Start = "start"
  MaxGames = 1
  MayShutdown = FALSE
  Pythons = {}
  Leavers = {}
  Strangers = {}
  MaxStray = 1
  TimePasses = TRUE
  Deadline = 1
  PrepTime = 1
PROPERTY
  PreparationEnds
