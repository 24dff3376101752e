SPECIFICATION Spec
CONSTANTS
  Layouts = {2}
  FrameSize <- MCFrameSize
  BufCap = 4
  MaxDrains = 1
  Width = 8
  Period = 3
  Silence = 1
  WatchdogGap = 1
  RetryGap = 1
  MaxFrames = 4
INVARIANT NeverTorn
