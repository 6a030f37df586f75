SPECIFICATION FairSpec
CONSTANTS
  x1 = x1
  x2 = x2
  k1 = k1
  k2 = k2
  k3 = k3
  Apps <- TwoApps
  Pieces <- ThreePieces
  Builds <- SharedBuilds
  Bad <- OneBad
  Doors <- SomeDoors
  Publishes <- TwoAndOne
INVARIANTS
  TypeOK
  SiteIsRebuildable
  BackedUpIsWhole
  OwedIsPending
PROPERTIES
  PublishesEnd
CHECK_DEADLOCK FALSE
