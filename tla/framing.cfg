SPECIFICATION FairSpec
CONSTANTS
  Size = 3
  Capacity = 3
  Lengths = {1, 2}
  Headers = {"005", "006"}
  MaxRequests = 4
INVARIANT TypeOK
 
PROPERTY EveryRequestIsAnswered
CHECK_DEADLOCK FALSE
