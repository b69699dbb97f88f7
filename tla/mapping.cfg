SPECIFICATION FairSpec
CONSTANTS
  s1 = s1
  s2 = s2
  g1 = g1
  g2 = g2
  g3 = g3
  room = room
  d9 = d9
  d9001 = d9001
  d5 = d5
  d27 = d27
  Site = {s1, s2}
  Ga = {g1, g2, g3}
  Name = {g1, g2, g3, room}
  Dpt = {d9, d9001, d5, d27}
  None = None
  Shared = Shared
  Nobody = Nobody
  File <- MCFile
  Export <- MCExport
  Subtyped <- MCSubtyped
  Accepted = {d9001, d5}
  Titled = {d9001}
  MaxSaves = 2
INVARIANTS TypeOK NoSaveLost RulesInForce ExportNotStale
PROPERTIES SavesApplied
CHECK_DEADLOCK FALSE
