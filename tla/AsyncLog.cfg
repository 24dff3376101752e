CONSTANTS
  c1 = c1  c2 = c2
  flusher = flusher  main = main
  Flusher = flusher  Main = main
  Stub = Stub  Null = Null
  Chunks = {c1, c2}
  ChunkCap = 2
  FileCap = 1
  MaxFaults = 1
  Crashing = {1}
  Workers <- MCWorkers
  Threads <- MCThreads
  Writes <- MCWrites
SPECIFICATION Spec
INVARIANT RecordsConserved FlushCovers
PROPERTY QueueContract EventuallyWritten
