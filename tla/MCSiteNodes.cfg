SPECIFICATION FairSpec
CONSTANTS
  p1 = p1
  p2 = p2
  n1 = n1
  n2 = n2
  b1 = b1
  b2 = b2
  Pages <- TwoPages
  Nodes <- TwoNodes
  NodeOf <- OwnNode
  Bundles <- TwoBundles
  Lower <- FirstLower
  Sleepy <- JustOne
  Refusing <- None
  Closable <- None
  Cancelling <- None
  SignOutcomes <- SignedOnly
  HeadReads = 1
  Publishes <- OneEach
  MaxLost = 2
INVARIANTS
  SupersededIsOver
PROPERTIES
  PublicationsEnd
CHECK_DEADLOCK FALSE
