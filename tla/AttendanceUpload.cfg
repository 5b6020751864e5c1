SPECIFICATION FairSpec
CONSTANTS
  p1 = p1
  p2 = p2
  p3 = p3
  d1 = d1
  u1 = u1
  u2 = u2
  Scanners = {d1}
  Punches = {p1, p2, p3}
  Realtime = {p3}
  Uploads = {u1, u2}
  BatchRows = 1
  MaxFaults = 2
INVARIANTS
  ForgottenIsStoredOrUnread
PROPERTIES
  EveryPunchIsStored
CHECK_DEADLOCK FALSE
