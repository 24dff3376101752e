\* Blocks and buckets of two, a time resolution of two units.
CONSTANTS
  Block = 2
  Resolution = 2
  Branch = 2
  Levels = 2
  MinKeep = 1
  Histories = {0, 6}
  Steps = {0, 5}
  Bump = 2
  MaxSamples = 5
  MaxClones = 1
SPECIFICATION Spec
INVARIANTS
  StoresAgree
  PyramidTrue
PROPERTIES
  SeenTimesStay
