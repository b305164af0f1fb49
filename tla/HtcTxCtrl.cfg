SPECIFICATION FairSpec
CONSTANTS
  t1 = t1
  t2 = t2
  t3 = t3
  c1 = c1
  c2 = c2
  v1 = v1
  b1 = b1
  b2 = b2
  b3 = b3
  NoThread = NoThread
  NoPkt = NoPkt
  Senders = {t1}
  Workers = {t2}
  Timers = {t3}
  Packets = {c1, c2}
  CtrlEp = "WMI"
  DataPrio <- MCData
  PktEp <- MCPktEp
  PktLen <- MCPktLen
  TgtCredSz = 2
  TgtCreds = 3
  CtrlAlloc = 1
  MaxTxqDepth = 1
  UrbAlloc = 2
  ThreshNum <- MCThreshNum
  ThreshDen = 4
  CreditFlow = TRUE
  SinglePipe = TRUE
  StarvingPrevention = FALSE
  HifMayFail = TRUE
  MayFlush = TRUE
  TgtMayLose = TRUE
  MaxCtlOut = 2
INVARIANTS CtrlNeverForgotten CtrlCreditCapped
PROPERTY CtrlProgress
