SPECIFICATION Spec
CONSTANTS
  Keys <- MCKeys
  Values = {"u", "v"}
  Hashes <- MCHashes
  HIGHER = 2
  MAX_DISP = 3
  INITIAL_LENGTH = 4
  Reservations = {3, 5}
INVARIANTS
  HoldsTheDictionary
  EveryKeyIsFound
\* What follows a misleading displacement is not modelled.
CHECK_DEADLOCK FALSE
