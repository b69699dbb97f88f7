SPECIFICATION Spec
CONSTANTS
  d1 = d1
  d5 = d5
  d6 = d6
  d9 = d9
  d16 = d16
  d18 = d18
  d10 = d10
  d27 = d27
  a1 = a1
  a5 = a5
  a6 = a6
  a9 = a9
  a16 = a16
  a18 = a18
  a10 = a10
  a27 = a27
  bare = bare
  u1 = u1
  u2 = u2
  u3 = u3
  None = None
  Dpt = {d1, d5, d6, d9, d16, d18, d10, d27}
  Main <- MCMain
  Definition <- MCDefinition
  Ga = {a1, a5, a6, a9, a16, a18, a10, a27, bare, u1, u2, u3}
  DptOf <- MCDptOf
  Titled = {d1, d5, d6, d9, d16, d18, d10, d27}
  MqttText <- MCText
  Raw = {r1, r2, r3}
  SiblingGa = {u2, u3}
  UNMAPPED_MAX = 2
  UNMAPPED_VALUES = 2
SYMMETRY MCSymmetry
INVARIANTS TypeOK NeverWrong ActionsMatchEvents UnmappedReported
CHECK_DEADLOCK FALSE
