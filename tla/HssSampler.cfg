SPECIFICATION FairSpec
CONSTANTS
  Layouts = {1, 2}
  FrameSize <- MCFrameSize
  BufCap = 3
  MaxDrains = 2
  Width = 8
  Period = 3
  Silence = 1
  WatchdogGap = 1
  RetryGap = 2
  MaxFrames = 3
INVARIANTS WholeFrames TimeFaithful
PROPERTIES NoGap StalledRestarts
