CONSTANTS
  Blocks <- LeafBlocks
  Values <- LeafValues
  Above <- LeafAbove
  Group <- LeafGroups
  NumReads = 2
  ReadWant <- GetAndDelta
  WritePath <- RootPath
  Passes <- OnePass
  Audited <- JustW
  RaceGet = TRUE
  RepairPass = TRUE
  PutBack = TRUE
  Unsolvable <- NoBlocks
  MaxParked = 2
  MaxRounds = 1
  Window = 2
  MaxAsked = 1
  InitHeld <- NoBlocks
  Garbled <- JustV
  Gone <- JustW
  Evictable <- JustW
  MaxEvicted = 1
SPECIFICATION FairSpec
INVARIANTS TypeOK WantedIsAsked HeldIsServed
PROPERTIES AuditByNode ReadsEnd
CHECK_DEADLOCK FALSE
