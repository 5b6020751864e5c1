SPECIFICATION FairSpec
CONSTANTS
  d1 = d1
  Scanners = {d1}
  MaxRequests = 2
  Budgets <- MCBudgets
INVARIANTS
  ClearedMeansTold
PROPERTIES
  ViewSettles
  FullSyncIsServed
CHECK_DEADLOCK FALSE
