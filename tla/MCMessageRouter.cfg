SPECIFICATION FairSpec
CONSTANTS
  Packs = {p1, p2}
  Filters = {f1, f2}
  Outputs = {o1}
  InitFilters = {f1}
  Buffered = {f2, o1}
  PluginChanSize = 1
  MaxMsgs = 2
  Nil = Nil
CHECK_DEADLOCK FALSE
INVARIANTS TypeOK RecycledIsFree FanOut RefCountExact NoSendOnClosed
PROPERTIES PacksComeBack
