SPECIFICATION Spec
CONSTANTS
  t1 = t1
  t2 = t2
  t3 = t3
  c1 = c1
  c2 = c2
  v1 = v1
  b1 = b1
  b2 = b2
  b3 = b3
  NoThread = NoThread
  NoPkt = NoPkt
  Senders <- MCSenders
  Workers <- MCSenders
  Timers <- MCSenders
  Packets = {b1, b2, v1}
  CtrlEp = "WMI"
  DataPrio <- MCData
  PktEp <- MCPktEp
  PktLen <- MCPktLen
  TgtCredSz = 2
  TgtCreds = 3
  CtrlAlloc = 1
  MaxTxqDepth = 1
  UrbAlloc = 2
  ThreshNum <- MCThreshNum
  ThreshDen = 4
  CreditFlow = TRUE
  SinglePipe = TRUE
  StarvingPrevention = FALSE
  HifMayFail = FALSE
  MayFlush = FALSE
  TgtMayLose = FALSE
  MaxCtlOut = 2
SYMMETRY Symm
INVARIANT NoStrandedPacket
