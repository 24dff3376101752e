\* Two peers served one after the other, one local thread, two device
\* generations, one switch of the device, and stop() at any moment.
CONSTANTS
  Sessions = {s1, s2}
  Locals = {l1}
  None = None
  Workers = 1
  MaxEpoch = 2
  MaxSwitch = 1
SPECIFICATION FairSpec
INVARIANTS
  NoStaleWrite
  NoStaleRead
PROPERTIES
  LeaseProtocol
  StopTerminates
