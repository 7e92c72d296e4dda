\* One root and many jobs, nested jobs and waits, workers that start one by one.
SPECIFICATION FairSpec
CONSTANTS
  NumWorkers = 3
  MaxPoolSize = 6
  Entries <- MCEntries
  Body <- MCBody
  Setups <- MCSetups
  NoJob = NoJob
INVARIANTS
  TtlCounts
  UnfinishedJobsAreLive
  WaitCoversTree
PROPERTY MainReturns
CHECK_DEADLOCK FALSE
