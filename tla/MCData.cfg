SPECIFICATION Spec
CONSTANTS
  SplLen = 5
  SplHekaLen = 4
  SplMax = 3
  SplBuf = 2
  LsNames = 3
  LsRec = 2
  LsRecords = 3
  LsRotations = 2
  LsWindow = 2
  LsChunk = 3
  LsSaveEvery = 1
  LsCaps = {9}
  LsRestarts = {0, 1}
  LsLoose = {}
  RbCap = 3
  RbBytes = 20
  CfSections <- MCCfSections
  CfDefaults <- MCCfDefaults
  CfFileSizes <- MCCfFileSizes
  EnvMaxLen = 5
  MMaxSubs = 3
  MMaxPacks = 2
  MtNames = {"x", "y"}
  MtOps = 3
  RpReqs <- MCRpReqs
  RpDecoders <- MCRpDecoders
  RpSets <- MCRpSets
  RpInject = 1
  RpLeavers = 1
INVARIANTS
  SplitterExact
  
  DataAsReference
  
  
  ReportsComplete
PROPERTIES
  DataProgress
