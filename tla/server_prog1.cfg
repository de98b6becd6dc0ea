CONSTANTS
  conn1 = conn1
  conn2 = conn2
  spu1 = "spu1"
  spu2 = "spu2"
  N = 3
  IO = io
  Managers = {m1, m2}
  Senders = {conn1}
  MultiStep = TRUE
  MayAbandon = TRUE
  NoThread = none
  Scripts <- Prog1Scripts
  Spus = {"spu1", "spu2"}
  SpuNumbers = {"spu1", "spu2"}
  NoSpu = nospu
  ProgIds = {0, 1}
  SeqIds = {0}
  ParamIds = {0, 5}
  ChunkIds = {1, 2, 3}
  Masks = {"A", "B"}
  Blocks = {b1, b2}
  Null = null
  Zero = 0
SPECIFICATION ServerSpec
CHECK_DEADLOCK FALSE
INVARIANTS TypeOK Conservation DeliveredProcessed ParametersReady NeverForgotten
