SPECIFICATION FairSpec
CONSTANTS
  None = None
  c1 = c1
  c2 = c2
  Cfg = {c1, c2}
  NamedCfg <- MCNamedCfg
  Site = {s1}
  Worker = {w1, w2}
  Faults = {"timeout", "dns", "config", "unreachable"}
  RestartFree = 1
  FailureCap = 2
  MaxCommands = 0
  MaxStops = 2
  MaxWeeks = 1
INVARIANTS FileKeepsUp OneKeeperPerSite
PROPERTIES EventuallyServed HoldLasts RecentSiteNotBlocked
CHECK_DEADLOCK FALSE
