SPECIFICATION FairSpec
CONSTANTS
  Blocks = 2
  Capacity = 2
  MaxEpoch = 2
  MaxSwitch = 1
  MaxRun = 2
  MaxFrames = 4
INVARIANTS FramesOfOneGeneration AnswerAccounted
PROPERTIES JoinReturns
