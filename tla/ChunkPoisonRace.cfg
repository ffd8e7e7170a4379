CONSTANTS
  x = x
  y = y
  Procs = {p1, p2}
  Ids = {x, y}
  Addrs = {a1, a2, a3}
  Nil = Nil
  Chunks <- MixedFrames
  MaxChunkBufferBytes = 3
  MaxConcurrentTransfers = 2
  MaxPoisonedTransfers = 2
  ChunkBufferTTL = 1
SYMMETRY Symmetry
SPECIFICATION Spec
INVARIANTS PoisonedStaysDropped
