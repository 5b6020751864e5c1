SPECIFICATION FairSpec
CONSTANTS
  MaxID = 4
  PageSize = 2
  MaxFaults = 2
  MaxRestarts = 1
INVARIANTS
  NoGaps
PROPERTIES
  EveryPunchArrives
