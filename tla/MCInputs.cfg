SPECIFICATION Spec
CONSTANTS
  ProcCmds = 2
  DirFiles = {f1, f2}
  DirMaxRunners = 4
  DirEdits = 2
  SaChanSize = 1
  SaMaxStats = 2
  SaMaxFlush = 1
  DkC = {1, 2}
  DkRetries = 1
  DkStarts = 1
  DkFaults = 5
  KMsgs = 4
  KCrashes = 2
  KCap = 2
INVARIANTS
  ProcessStopped
  
  StatsFlushed
  DockerAttached
  
PROPERTIES
  InputsProgress
