\* A tree of files, one path in three entries, paths in each other's way.
SPECIFICATION FairSpec
CONSTANTS
  Inputs <- MCInputs
  NumWorkers = 2
  Capacity = 2
  MaxCut = 2
  Absent = Absent
  NoFile = NoFile
CHECK_DEADLOCK FALSE
INVARIANTS
  NoCrossTalk
  EveryEntryIsThereOrReported
  ResultCountsFailures
  OnlyBlockedEntriesFail
PROPERTY Returns
