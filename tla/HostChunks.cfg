CONSTANTS
  a = a
  b = b
  d = d
  p = p
  w = w
  ChunkSize = 2
  MaxTransferBytes = 4
  Ids <- MCIds
  Frames <- MCFrames
  Strays <- MCStrays
  Transfers <- MCTransfers
  Total <- MCTotal
  Attempts <- MCAttempts
  Modulus = 8
  kMaxChunkTotalSize = 4
  kMaxPartialMessages = 2
  kMaxPoisonedTransfers = 2
  kChunkStaleTtl = 1
  None = None
SPECIFICATION ChunksSpec
INVARIANTS
  WritesInBounds
  PoisonedIsDropped
  MemoryBounded
  SuccessMeansDelivered
  ChunkedAtMostOnce
  HealthyNeverPoisoned
PROPERTIES
  ImplementsContract
  SendsReturn
  RemnantsReclaimed
