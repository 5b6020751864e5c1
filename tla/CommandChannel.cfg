SPECIFICATION FairSpec
CONSTANTS
  f1 = f1
  f2 = f2
  f4 = f4
  u1 = u1
  u2 = u2
  x1 = x1
  o1 = o1
  Fetches = {f1, f2, f4}
  Direct = {f4}
  Updates = {u1, u2}
  Uninstalls = {x1}
  Others = {o1}
  Loads <- MCLoads
  Pages = 2
  Details = 1
  MaxFaults = 2
INVARIANTS
  OneLogin
  RetryUsesANewerSession
  WholeUnlessReplaced
  ImageToRestartFrom
PROPERTIES
  EveryRequestIsAnswered
CHECK_DEADLOCK FALSE
