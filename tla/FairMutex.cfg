CONSTANTS
  Threads = {t1, t2, t3, t4}
  Width = 5
SPECIFICATION MutexFairSpec
PROPERTIES
  FirstComeFirstServed
  NoStarvation
