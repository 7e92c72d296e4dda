\* Every archive of at most four lines; every pair of packed files of two lines.
SPECIFICATION FairSpec
CONSTANTS
  MaxLines = 4
  MaxFileLines = 2
  Archives <- MCArchives
  Packings <- MCPackings
INVARIANTS
  FindsEveryEntry
  UnpacksMeaning
  PackRoundTrip
PROPERTY Halts
CHECK_DEADLOCK FALSE
