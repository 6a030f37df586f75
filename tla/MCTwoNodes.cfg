SPECIFICATION Spec
CONSTANTS
  p1 = p1
  p2 = p2
  n1 = n1
  n2 = n2
  Pages <- TwoPages
  Nodes <- TwoNodes
  NodeOf <- OwnNode
  Beats <- HigherWins
  MaxWrites = 2
  Accepts <- OneAndTwo
  Forced <- WriteTwo
  Contended <- NotForced
  MaxTries = 1
  HeadReads = 1
  ThroughMax = 2
  SignOutcomes <- SignedOnly
  Refusable <- None
  Closable <- None
  Rejecting <- TwoPages
  Subscribed <- TwoPages
  Sleepy <- None
  MaxLate = 1
  MaxSeq = 3
INVARIANTS
  InOrder
  AdoptedNotBeaten
  RefusedUnlessDisplaced
  LandingNeverMints
