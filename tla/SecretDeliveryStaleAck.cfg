SPECIFICATION Spec
CONSTANTS
  c1 = c1
  c2 = c2
  d1 = d1
  h1 = h1
  h2 = h2
  Commands = {c1, c2}
  Devices = {d1}
  Handlers = {h1}
  DeviceOf <- OneScanner
  DeploymentOf <- Deployment
  Deletes = {}
  Capacity = 2
  MaxActive = 2
  MaxServeAttempts = 1
  MaxID = 1
  MaxFaults = 1
  MaxRestarts = 1
INVARIANT AppliedWasSent
CHECK_DEADLOCK FALSE
