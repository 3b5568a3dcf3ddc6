SPECIFICATION Spec
CONSTANTS
  FoMaxMsgs = 3
  FoMaxTicks = 2
  FoMaxReopens = 1
  EsMaxMsgs = 3
  EsRecvSize = 1
  EsMaxTries = 1
  IrcN = 2
  IrcMsgs = 2
  IrcCap = 1
  IrcEvents = 2
  IrcConfs <- MCIrcConfs
  IrcRetries = 1
  TcConns = {1, 2}
  TcRecs = 3
  TcDials = 3
  TcReconnect = {0, 2}
  SbPool = 2
  SbMsgs = 3
  SbTicks = 2
  AmIns = {1}
  AmOuts = {2}
  AmGens = 3
  SmtpMsgs = 3
  SmtpLens = {0, 6, 7}
  SmtpIntervals = {0, 2}
  SmtpLine = 8
  WhNames = {"a", "b"}
  WhPacks = 2
  WhLines = 2
  WhCap = 1
INVARIANTS
  CursorNotAhead
  
  TcpStreams
  HubShared
PROPERTIES
  
  OutputsFlush
