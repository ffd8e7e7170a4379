CONSTANTS
  a = a
  g = g
  w = w
  e = e
  x = x
  Transfers = {g}
  Ids <- MCIds
  Frames <- MCFrames
  Strays <- MCFrames
  Total <- MCTotal
  Attempts <- MCAttempts
  ChunkSize = 2
  MaxTransferBytes = 4
  Modulus = 8
  kMaxChunkTotalSize = 4
  kMaxPartialMessages = 1
  kMaxPoisonedTransfers = 1
  kChunkStaleTtl = 1
  None = None
SPECIFICATION TransferSpec
INVARIANTS
  NilMeansDelivered
