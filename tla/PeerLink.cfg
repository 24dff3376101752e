SPECIFICATION Spec
CONSTANTS
  Clients = {c1}
  None = None
  Ops = {"read", "write", "claim", "release", "reset"}
  MaxSessions = 2
  MaxWrites = 2
  MaxEpoch = 2
INVARIANTS OwnAnswer WritesInOrder ControlHonest
