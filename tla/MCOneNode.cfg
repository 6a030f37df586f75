SPECIFICATION FairSpec
CONSTANTS
  p1 = p1
  p2 = p2
  n1 = n1
  n2 = n2
  Pages <- TwoPages
  Nodes <- OneNode
  NodeOf <- SameNode
  Beats <- NoTies
  MaxWrites = 1
  Accepts <- EachTakesAll
  Forced <- None
  Contended <- Writes
  MaxTries = 1
  HeadReads = 2
  ThroughMax = 1
  SignOutcomes <- MaySave
  Refusable <- None
  Closable <- OnePage
  Rejecting <- OnePage
  Subscribed <- OnePage
  Sleepy <- None
  MaxLate = 1
  MaxSeq = 3
INVARIANTS
  TypeOK
  PublishedIsDurable
  WitnessIsTrue
PROPERTIES
  ImplementsLog
  WritesEnd
