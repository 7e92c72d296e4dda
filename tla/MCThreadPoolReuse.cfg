\* A slot reused while the finalizer of its last job still reads it.
SPECIFICATION Spec
CONSTANTS
  NumWorkers = 2
  MaxPoolSize = 3
  Entries <- MCEntries
  Body <- MCBody
  Setups <- ReuseSetups
  NoJob = NoJob
INVARIANT CurrentJobIsLive
CHECK_DEADLOCK FALSE
