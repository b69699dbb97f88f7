SPECIFICATION Spec
CONSTANTS
  MaxUnread = 1
PROPERTIES StopLosesNothing
CHECK_DEADLOCK FALSE
