SPECIFICATION Spec
CONSTANTS
  Paths = {foo, bar}
  Handles = {h1, h2}
  MaxFds = 2
  MaxFaults = 1
  Closed = Closed
  Gone = Gone
  SizeMax = 31
  NoRegion = NoRegion
  Writers = {w1, w2}
  NoFile = NoFile
  Capacities = {0, 1}
  HeapRegions = {r1, r2, r3}
  Arrays = {array}
  ArrayLength = 2
  Sizes = {1, 2}
  MaxBytes = 3
  MaxDetached = 1
SYMMETRY Symmetry
INVARIANTS
  TypeOK
  HandlesOwnDescriptors
  FileHoldsTheText
  StaysInRegion
  RegionsHaveOneOwner
