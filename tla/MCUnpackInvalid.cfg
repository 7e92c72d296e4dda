\* A directory that cannot be made.
SPECIFICATION Spec
CONSTANTS
  Inputs <- InTheWayInputs
  NumWorkers = 1
  Capacity = 2
  MaxCut = 1
  Absent = Absent
  NoFile = NoFile
CHECK_DEADLOCK FALSE
INVARIANT WriterHasValidFile
