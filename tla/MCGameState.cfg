SPECIFICATION FairSpec
CONSTANTS
  Width = 16
  MaxPly = 3
  Games <- MCGames
INVARIANTS
  TypeOK
  LevelsMatch
  CountsMatch
  SearchRestores
  MovesExact
  KeeperAtRest
  BeginsAsDeclared
  ConditionSound
PROPERTIES
  RevertRestores
  StepsLegal
  CallsReturn
