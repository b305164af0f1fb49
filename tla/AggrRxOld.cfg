SPECIFICATION Spec
CONSTANTS
  SeqMod = 32
  WinSz = 2
  FirstFrame = 29
  LastFrame = 34
  MaxLoss = 20
  Lost = {}
  NoFrame = NoFrame
  MaxWait = 3
  RxAggrDrop = FALSE
  TimerRaces = FALSE
  EndBase = 0
  History = FALSE
  Probes = {}
INVARIANT HeldInWindow
CHECK_DEADLOCK FALSE
