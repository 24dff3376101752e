SPECIFICATION FairSpec
CONSTANTS
  QueueMax = 1
  LateMax = 2
INVARIANTS MotionIsLeased RejectedRevokes OneLateRenewal
PROPERTIES SilenceStops ClosedPageDisconnects ShutdownReturns
