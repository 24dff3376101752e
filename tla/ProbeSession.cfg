SPECIFICATION FairSpec
CONSTANTS
  MaxText = 3
  TxCap = 2
  Attempts = 2
INVARIANT SessionKnown
PROPERTIES ReadersStopFirst TextInOrder RttResumed ThreadsReturn
