SPECIFICATION FairSpec
CONSTANTS
  MaxUnread = 2
INVARIANTS TypeOK LeavesNothing OutageIsTimed TimerMeansOutage
PROPERTIES KeepsContract NeverStuck ToldLeaves
CHECK_DEADLOCK FALSE
