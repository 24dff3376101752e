CONSTANTS
  Windows = {w1}
  Builds = {b1, b2}
  Files = {b1, b2}
  Firmware = {b1, Legacy}
  Plain = Plain
  Legacy = Legacy
  None = None
SPECIFICATION GateFairSpec
INVARIANT SamplesAreCurrent
PROPERTIES RequestsAreCurrent MismatchApproved GateReopens
