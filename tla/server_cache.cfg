CONSTANTS
  conn1 = conn1
  conn2 = conn2
  spu1 = "spu1"
  spu2 = "spu2"
  N = 2
  IO = io
  Managers = {m1}
  Senders = {conn1}
  MultiStep = TRUE
  MayAbandon = TRUE
  NoThread = none
  Scripts <- CacheScripts
  Spus = {"spu1"}
  SpuNumbers = {"spu1"}
  NoSpu = nospu
  ProgIds = {0, 1}
  SeqIds = {0}
  ParamIds = {0, 1}
  ChunkIds = {1}
  Masks = {"A", "B"}
  Blocks = {b1, b2}
  Null = null
  Zero = 0
SPECIFICATION ServerSpec
CHECK_DEADLOCK FALSE
INVARIANTS CachedValues
