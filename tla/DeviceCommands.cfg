SPECIFICATION FairSpec
CONSTANTS
  c1 = c1
  c2 = c2
  d1 = d1
  h1 = h1
  h2 = h2
  Commands = {c1, c2}
  Devices = {d1}
  DeviceOf <- ForFirst
  Handlers = {h1, h2}
  ListLimit = 1
  MaxID = 3
  Budgets <- MCBudgets
  Instants <- MonthEnd
  Years = {2024}
  Months = {1, 2}
  Days = {1, 31}
  Hours = {0, 23}
  Minutes = {0, 59}
  Seconds = {0, 59}
INVARIANTS
  TrackedExactlyWhileLive
  NeverOlderThanTheRequest
PROPERTIES
  EveryCommandEnds
