SPECIFICATION FairSpec
CONSTANTS
  c1 = c1
  c2 = c2
  c3 = c3
  Commands = {c1, c2, c3}
  Capacity = 2
  MaxActive = 2
  MaxFaults = 2
  MaxRestarts = 2
  Poison = {c2, c3}
INVARIANTS
  TypeOK
  OwedResultsAreOnDisk
  EveryResultHasAPlace
  HandedResultIsKept
  ReservedExactlyWhileUnsettled
  ExecutionHasNoEarlierResult
PROPERTIES
  ImplementsLedger
  OwedResultsAreReported
  HeldResultsAreFlushed
CHECK_DEADLOCK FALSE
