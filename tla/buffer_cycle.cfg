CONSTANTS
  N = 3
  IO = io
  Managers = {m1, m2}
  Senders = {s1}
  MultiStep = TRUE
  MayAbandon = TRUE
  Progs = {p1}
  NoThread = none
  NoSlot = noslot
SPECIFICATION Spec
INVARIANTS
  TypeOK
  CountsExact
  ExclusiveUse
PROPERTIES
  ImplementsCycle
  OverlooksAtMostOne
