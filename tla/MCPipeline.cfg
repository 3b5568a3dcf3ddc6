SPECIFICATION PSpec
CONSTANTS
  Packs = {a1, a2, b1}
  InjectPacks = {b1}
  Filters = {f1}
  InitFilters = {f1}
  Outputs = {o1}
  Inputs = {i1}
  Injectors = {f1}
  NewApi = {f1}
  CanExit = {o1}
  Buffered = {}
  PluginChanSize = 1
  MaxRead = 2
  MaxInjects = 1
  MaxMsgs = 4
  MaxFails = 1
  Nil = Nil
SYMMETRY PoolSymmetry
CHECK_DEADLOCK FALSE
INVARIANTS DrainedAtExit
