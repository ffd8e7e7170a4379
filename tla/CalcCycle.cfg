CONSTANTS
  None = None
  Cells = {c1, c2}
  Vals = {v1, v2}
  Handlers = {h1, h2}
  BatchingThreshold = 1
  MaxReply = 2
  MaxScheduled = 2
  MaxRefusals = 1
  MaxLoads = 1
  FormulaCells = {f1}
  Topics = {t1, t2}
  Runs = {r1}
SYMMETRY Symmetry
SPECIFICATION CycleSpec
INVARIANTS
  LastWins
  ArmedMatchesOnTime
  DeferredHasRunner
  NoCellStuck
PROPERTIES
  NoWriteOnceTorn
