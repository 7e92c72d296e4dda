\* Every array of seven elements over four values, and patterns of larger sizes.
SPECIFICATION Spec
CONSTANTS
  Inputs <- MCInputs
  Modes = {TRUE, FALSE}
  insertion_sort_threshold = 4
  ninther_threshold = 8
  partial_insertion_sort_limit = 2
  block_size = 3
  Fraction = 3
  SmallSize = 7
  SmallValues = 4
  PatternSizes = {9, 14, 19}
INVARIANTS
  SameElements
  StaysInside
  Separated
  SortedUnlessHeapSort
PROPERTY EveryTurnProgresses
CHECK_DEADLOCK FALSE
