SPECIFICATION Spec
CONSTANTS
  Sender = {s1, s2}
  s1 = s1
  s2 = s2
  None = None
  SeqMod = 2
  MaxSent = 3
  MaxNr = 2
  MaxTunnels = 2
SYMMETRY MCSymmetry
INVARIANTS TypeOK ReplaysBarred PassedOnce NothingSwallowed
CHECK_DEADLOCK FALSE
