SPECIFICATION Spec
CONSTANTS
  p1 = p1
  p2 = p2
  n1 = n1
  n2 = n2
  b1 = b1
  b2 = b2
  Pages <- TwoPages
  Nodes <- OneNode
  NodeOf <- SameNode
  Bundles <- TwoBundles
  Lower <- FirstLower
  Sleepy <- None
  Refusing <- JustOne
  Closable <- JustOne
  Cancelling <- JustOne
  SignOutcomes <- MaySave
  HeadReads = 2
  Publishes <- TwoAndOne
  MaxLost = 2
INVARIANTS
  TypeOK
  PublishedIsLive
  OneBundlePerVersion
  OwnBundle
CHECK_DEADLOCK FALSE
