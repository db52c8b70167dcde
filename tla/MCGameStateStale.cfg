SPECIFICATION AnyCallerSpec
CONSTANTS
  Width = 16
  MaxPly = 2
  Games <- MCGames
INVARIANT
  MovesExact
