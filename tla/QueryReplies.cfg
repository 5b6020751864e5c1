\* Limits so tight that each is met alone: three bytes a reply, four in all, two
\* replies.  A minute is two ticks, as long as a steady reply of three packs takes.
SPECIFICATION Spec
CONSTANTS
  r1 = r1
  r2 = r2
  r3 = r3
  r4 = r4
  Replies = {r1, r2, r3, r4}
  Unkeyed = {r4}
  PackCount <- Packs
  MaxPack = 2
  MaxReply = 3
  MaxTotal = 4
  MaxBuffers = 2
  TTL = 2
  MaxTime = 2
SYMMETRY Alike
INVARIANTS
  WithinBudget
  SteadyRepliesAreWhole
CHECK_DEADLOCK FALSE
