SPECIFICATION Spec
CONSTANTS
  ChecksCount = 2
  BoardSize = 2
  MaxUint = 4
  MaxDepth = 3
INVARIANTS
  TypeOK
  NoStampAhead
PROPERTY
  ImplementsMarks
