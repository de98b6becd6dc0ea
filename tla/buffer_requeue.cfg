CONSTANTS
  N = 3
  IO = io
  Managers = {m1, m2}
  Senders = {s1}
  MultiStep = TRUE
  MayAbandon = FALSE
  Progs = {p1}
  NoThread = none
  NoSlot = noslot
SPECIFICATION FairSpec
PROPERTIES
  ListensAgain
