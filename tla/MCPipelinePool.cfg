SPECIFICATION PSpec
CONSTANTS
  Packs = {a1, a2, a3, b1}
  InjectPacks = {b1}
  Filters = {f1}
  InitFilters = {f1}
  Outputs = {o1}
  Inputs = {i1}
  Injectors = {f1}
  NewApi = {}
  CanExit = {}
  Buffered = {}
  PluginChanSize = 1
  MaxRead = 3
  MaxInjects = 2
  MaxMsgs = 5
  MaxFails = 0
  Nil = Nil
SYMMETRY PoolSymmetry
CHECK_DEADLOCK FALSE
INVARIANTS NoDeadlock
