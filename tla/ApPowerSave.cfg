CONSTANTS
  MaxDepth = 1
  AgeCycle = 2
  SpFrames = 1
  MaxFrames = 3
  MaxRx = 5
SPECIFICATION FairSpec
INVARIANTS TypeOK FramesAccounted WakeFlushes TimSet EospGiven
PROPERTIES SleepDrains
CHECK_DEADLOCK FALSE
