CONSTANTS
  Threads = 3
  Border = 2
  Alignment = 2
  Cycles = 3
  BUF_SIZE = 2
  Widths = {7, 10}
  Transfer = 4
  LocalBuffer = 6
  MailboxSize = 4
SPECIFICATION FairSpec
INVARIANTS TypeOK NoStrayAccess ShownWhole
PROPERTIES FramesArrive AllFramesShown
