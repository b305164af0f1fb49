CONSTANTS
  Vifs = {"v1", "v2"}
  DataCookies = {c1, c2}
  CtrlCookies = {}
  MaxVifCookie = 1
  RecycleLimit = 0
  TxqLimit = 0
  ReqStep = 1
  MaxDepth = 1
  CopyFails = FALSE
  MaxPkts = 2
  MaxEvents = 1
  MaxConnects = 2
SPECIFICATION FairSpec
PROPERTY NetifWoken
CHECK_DEADLOCK FALSE
