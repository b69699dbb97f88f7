SPECIFICATION Spec
CONSTANTS
  None = None
  c1 = c1
  c2 = c2
  Cfg = {c1}
  NamedCfg <- MCNamedCfg
  Site = {s1}
  Worker = {w1, w2, w3}
  Faults = {"timeout"}
  RestartFree = 1
  FailureCap = 2
  MaxCommands = 1
  MaxStops = 0
  MaxWeeks = 0
SYMMETRY MCSymmetry
INVARIANTS OneWorkerPerSite
CHECK_DEADLOCK FALSE
