SPECIFICATION Spec
CONSTANTS
  Objects = {v, w}
  Values = {a, b}
  Default = a
  Raw = Raw
  Moved = Moved
  Left = Left
  N = 2
  LeastGrown = 2
  Blocks = {r1, r2, r3}
  Null = Null
  Inline = Inline
  Gone = Gone
  MaxElements <- MCMaxElements
SYMMETRY Symmetry
INVARIANTS
  HoldsTheSequence
  ObjectsAreAliveInTurn
