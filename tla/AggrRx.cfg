SPECIFICATION FairSpec
CONSTANTS
  SeqMod = 32
  WinSz = 2
  FirstFrame = 29
  LastFrame = 38
  MaxLoss = 20
  Lost = {30, 31, 34, 35, 36, 37}
  NoFrame = NoFrame
  MaxWait = 3
  RxAggrDrop = FALSE
  TimerRaces = TRUE
  EndBase = 31
  History = TRUE
  Probes = {32}
INVARIANTS TypeOK InOrder WindowKept NoFrameLost HeldTimed
PROPERTY HeldDelivered
CHECK_DEADLOCK FALSE
