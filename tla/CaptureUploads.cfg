\* Two templates, two workers, one place in the queue: every race between the
\* table, a row and the shutdown, and a full queue.  A command lasts until the
\* next tick.
SPECIFICATION FairSpec
CONSTANTS
  e1 = e1
  i1 = i1
  k1 = k1
  p1 = p1
  Enrols = {e1}
  Imports = {i1}
  Keys = {k1}
  Pins = {p1}
  KeyOf <- ToSlot
  PinOf <- ToPerson
  Owner <- OwnerOf
  Assets = {a1, a2}
  Workers = {w1, w2}
  QueueLimit = 1
  Window = 0
  MaxTime = 1
INVARIANTS
  DownMeansWiped
PROPERTIES
  NoStaleNorNewerCommand
  EveryTemplateIsWiped
  WriteBackFollowsFiling
