CONSTANTS
  BatchHandles = {h1, h2, h3, h4}
  Framing = 1
  ResultSizes = {1, 2, 3, 6}
  DiagnosticSize = 3
  Limits = {3, 4}
  None = None
  Cells = {c1, c2}
  Vals = {v1, v2}
  Handlers = {k1, k2}
  BatchingThreshold = 1
  MaxReply = 2
  MaxScheduled = 1
  MaxRefusals = 0
  MaxLoads = 1
SPECIFICATION DrainSpec
INVARIANTS
  OneOutcomeEach
PROPERTIES
  FlushReturns
  DeferredDrains
CHECK_DEADLOCK FALSE
