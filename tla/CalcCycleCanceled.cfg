CONSTANTS
  None = None
  Cells = {c1, c2}
  Vals = {v1, v2}
  Handlers = {h1, h2}
  BatchingThreshold = 1
  MaxReply = 2
  MaxScheduled = 1
  MaxRefusals = 0
  MaxLoads = 0
SPECIFICATION Spec
INVARIANTS
  CanceledBeforeEnded
