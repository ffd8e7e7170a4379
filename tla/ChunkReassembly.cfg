CONSTANTS
  x = x
  y = y
  Procs = {p1, p2}
  Ids = {x, y}
  Addrs = {a1, a2, a3}
  Nil = Nil
  Chunks <- MixedFrames
  MaxChunkBufferBytes = 2
  MaxConcurrentTransfers = 1
  MaxPoisonedTransfers = 1
  ChunkBufferTTL = 1
SPECIFICATION LiveSpec
INVARIANTS CompletePayload DispatchedOnce MemoryBounded
PROPERTIES PayloadStable Reclaimed
