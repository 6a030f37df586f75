CONSTANTS
  a = a
  b = b
  c = c
  Blocks <- ThreeBlocks
  MaxAsked = 1
  WindowInitial = 2
  WindowFloor = 1
  MaxWindow = 3
SPECIFICATION FairSpec
INVARIANTS TypeOK QueueMoves
PROPERTIES NoOvertaking PacedByWindow QueuedGoOut
