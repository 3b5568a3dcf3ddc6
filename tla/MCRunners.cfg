SPECIFICATION Spec
CONSTANTS
  LRetries = {0, 2, 7}
  LDelay = 1
  LMaxDelay = 3
  LBufRetries = 1
  BRecords = 2
  BRestarts = 2
  FlFilters = {"f", "g"}
  FlConfs <- MCFlConfs
  FlMaxLoops = 2
  FlInject = 1
  FlTimerInject = 1
  FlInputs = 1
  FlTicks = 1
  DHandlers = {h1}
  DPoolSizes = {2, 5}
  DMaxOut = 3
  DChanSize = 1
  SmNames = {a, b}
  SmGens = 2
  SmMsgs = 2
  SmConfs <- MCSmConfs
  SmRestarts = 1
INVARIANTS
  RetriedAsConfigured
  
  RunnerPacks
  FiltersTracked
PROPERTIES
  RunnersProgress
