SPECIFICATION FairSpec
CONSTANTS
  p1 = p1
  p2 = p2
  n1 = n1
  n2 = n2
  Pages <- TwoPages
  Nodes <- OneNode
  NodeOf <- SameNode
  Beats <- NoTies
  MaxWrites = 1
  Accepts <- EachTakesAll
  Forced <- None
  Contended <- None
  MaxTries = 0
  HeadReads = 1
  ThroughMax = 1
  SignOutcomes <- MayRefuse
  Refusable <- OnePage
  Closable <- OnePage
  Rejecting <- None
  Subscribed <- OnePage
  Sleepy <- OnePage
  MaxLate = 1
  MaxSeq = 2
INVARIANTS
  AdoptedWasHeld
  RegisterNeverTwoBehind
  OneSignaturePerPrev
  LaneInv
PROPERTIES
  WritesEnd
