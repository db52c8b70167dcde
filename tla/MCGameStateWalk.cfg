SPECIFICATION Spec
CONSTANTS
  Width = 16
  MaxPly = 1
  Games <- MCWalkGames
PROPERTY
  RevertRestores
