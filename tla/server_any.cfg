CONSTANTS
  conn1 = conn1
  conn2 = conn2
  spu1 = "spu1"
  spu2 = "spu2"
  N = 2
  IO = io
  Managers = {m1, m2}
  Senders = {conn1, conn2}
  MultiStep = TRUE
  MayAbandon = TRUE
  NoThread = none
  Scripts <- AnyScripts
  Spus = {"spu1"}
  SpuNumbers = {"spu1", "spu6"}
  NoSpu = nospu
  ProgIds = {0, 1}
  SeqIds = {0}
  ParamIds = {0, 1}
  ChunkIds = {1, 2}
  Masks = {"A", "B", "C"}
  Blocks = {b1, b2, b3}
  Null = null
  Zero = 0
SPECIFICATION ServerSpec
CHECK_DEADLOCK FALSE
INVARIANTS Conservation
