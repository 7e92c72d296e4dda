\* The thresholds of the code, and an array for which it switches to heap sort.
SPECIFICATION Spec
CONSTANTS
  Inputs <- BadPivotInputs
  Modes = {TRUE, FALSE}
  insertion_sort_threshold = 24
  ninther_threshold = 128
  partial_insertion_sort_limit = 8
  block_size = 64
  Fraction = 8
  SmallSize = 1
  SmallValues = 1
  PatternSizes = {}
INVARIANT Sorted
CHECK_DEADLOCK FALSE
