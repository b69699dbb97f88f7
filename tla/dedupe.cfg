SPECIFICATION Spec
CONSTANTS
  Value = {a, b}
  a = a
  b = b
  None = None
  Window = 3
  Lateness = 1
  MaxTime = 7
  MaxHeard = 6
SYMMETRY MCSymmetry
INVARIANTS TypeOK InOrder CornersKept HeldInTime Thinned
CHECK_DEADLOCK FALSE
