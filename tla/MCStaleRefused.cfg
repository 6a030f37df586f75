SPECIFICATION Spec
CONSTANTS
  p1 = p1
  p2 = p2
  n1 = n1
  n2 = n2
  Pages <- TwoPages
  Nodes <- OneNode
  NodeOf <- SameNode
  Beats <- NoTies
  MaxWrites = 1
  Accepts <- EachTakesAll
  Forced <- None
  Contended <- None
  MaxTries = 1
  HeadReads = 1
  ThroughMax = 2
  SignOutcomes <- SignedOnly
  Refusable <- None
  Closable <- None
  Rejecting <- None
  Subscribed <- TwoPages
  Sleepy <- OnePage
  MaxLate = 1
  MaxSeq = 2
INVARIANTS
  RefusedNotInTree
