CONSTANTS
  Vifs = {v1, v2}
  DataCookies = {c1, c2}
  CtrlCookies = {k1}
  MaxVifCookie = 1
  RecycleLimit = 0
  TxqLimit = 0
  ReqStep = 1
  MaxDepth = 1
  CopyFails = TRUE
  MaxPkts = 2
  MaxEvents = 3
  MaxConnects = 2
SPECIFICATION Spec
INVARIANTS TypeOK CookiesAccounted NoneStranded
PROPERTIES OrderKept
CHECK_DEADLOCK FALSE
SYMMETRY VifSymmetry
