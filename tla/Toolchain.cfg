CONSTANTS
  first = first
  second = second
  foreign = foreign
  Configs <- MCConfigs
  Upper <- MCUpper
  Lower <- MCLower
  WellFormed <- MCWellFormed
  Underscored = {"a_b"}
  GoReserved = {"for"}
  CppReserved = {"class", "for"}
  XlmReserved = {"ECHO"}
  Builtins = {}
  Functions = {"Add"}
  AssetsOf <- MCAssetsOf
  Callers <- MCCallers
  Processes = {1, 2}
  ProcessOf <- MCProcessOf
  Versions = {"old", "new"}
  Scaffold = {"Add"}
  MaxRuns = 2
SPECIFICATION ToolchainSpec
CHECK_DEADLOCK FALSE
INVARIANTS
  TeardownGapNotSilent
  EmittedAgrees
  CallsReachHandlers
  TreeIsCurrent
  EnsuredRuns
