CONSTANTS
  N = 3
  IO = io
  Managers = {m1, m2}
  Senders = {s1}
  MultiStep = FALSE
  MayAbandon = FALSE
  Progs = {p1}
  NoThread = none
  NoSlot = noslot
SPECIFICATION FairSpec
INVARIANTS
  NoCircularWait
PROPERTIES
  NoStarvation
