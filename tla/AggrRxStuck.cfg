SPECIFICATION Spec
CONSTANTS
  SeqMod = 32
  WinSz = 4
  FirstFrame = 27
  LastFrame = 31
  MaxLoss = 20
  Lost = {}
  NoFrame = NoFrame
  MaxWait = 3
  RxAggrDrop = FALSE
  TimerRaces = FALSE
  EndBase = 31
  History = FALSE
  Probes = {}
INVARIANT HeldHasTimer
CHECK_DEADLOCK FALSE
