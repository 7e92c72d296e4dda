SPECIFICATION Spec
CONSTANTS
  Numerals <- MCNumerals
  ValueOf <- MCValueOf
  MaxThreads = 2
  Concurrency = 2
  SizeMax = 127
  NoRegion = NoRegion
  Words <- MCWords
  MaxArgs = 5
  Sources <- MCSources
  Stdins <- MCStdins
  MaxFed = 4
  InitialCapacity = 2
  DefaultReadSize = 1
  MemoryLimit = 40
  StatusRange = 4
  MaxFailed = 4
INVARIANTS
  LoadsWholeFile
  ReadsStayInRegion
  NoticedFailuresAreTold
  StopsForItsInputs
  OptionsStandAnywhere
PROPERTIES
  Exits
