SPECIFICATION PipelineSpec
CONSTANTS
  Value = {a, b, null}
  Storable = {a, b}
  Unset = null
  a = a
  b = b
  None = None
  Window = 2
  Lateness = 1
  MaxTime = 4
  MaxHeard = 4
  MaxReads = 1
  MaxSends = 1
SYMMETRY MCSymmetry
INVARIANTS ChangesKept
CHECK_DEADLOCK FALSE
