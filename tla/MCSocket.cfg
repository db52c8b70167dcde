SPECIFICATION Spec
CONSTANTS
  Texts <- MCTexts
  Null <- MCNull
  ReadyText <- MCReady
  MaxWrites = 2
  MaxUInt = 5
  Moves <- MCMoves
  Memory = {0, 1, 2}
INVARIANTS
  DecodedAsSent
  UnsetOnlyAtEnd
PROPERTIES
  ImplementsMailbox
  AllRead
