SPECIFICATION FairSpec
CONSTANTS
  Clients = {c1}
  None = None
  Ops = {"claim"}
  MaxSessions = 2
  MaxWrites = 1
  MaxEpoch = 2
PROPERTIES StaleNoticed HangUpCompletes
