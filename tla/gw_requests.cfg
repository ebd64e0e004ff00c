SPECIFICATION FairSpec
CONSTANTS
  Request = {r1, r2}
  Checker = {k1}
  MaxFailures = 1
  Lossy = TRUE
  Row = 1
  Default = 2
  NoBucket = NoBucket
INVARIANTS TypeOK SpendingMatches  
PROPERTIES Responds 
CHECK_DEADLOCK FALSE
