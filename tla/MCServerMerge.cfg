CONSTANTS
  NumKeys = 2
  Values <- TwoValues
  Writes <- OverAndDepends
  MaxForeign = 2
  Behind = 1
  MaxTries = 1
  MaxCommit = 2
SPECIFICATION FairSpec
INVARIANTS TypeOK DisplacedIsTold NeverBlind
PROPERTIES OwnOrder JudgementsEnd
CHECK_DEADLOCK FALSE
