CONSTANTS
  PageSize = 2
  NPages = 7
  StartPage = 2
  Breaks = {4, 5, 6, 7, 8, 9, 10, 11, 12}
SPECIFICATION Spec
INVARIANT ValidBreakRestored
CHECK_DEADLOCK FALSE
