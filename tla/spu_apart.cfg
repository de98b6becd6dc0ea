CONSTANTS
  m1 = m1
  m2 = m2
  spu1 = spu1
  spu2 = spu2
  c1 = c1
  c2 = c2
  Managers = {m1, m2}
  Spus = {spu1,spu2}
  SpuOf <- Apart
  Chunks = {c1, c2}
  Params = {"p", "q"}
  NoChunk = nochunk
SPECIFICATION FairSpec
INVARIANTS TypeOK WritesOnlyAwaited MailboxesSuffice
PROPERTIES FinishedIsProcessed ImplementsService Answered
