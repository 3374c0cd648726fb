CONSTANTS
  Values = {0, 1}
  Zero = 0
  FileData = 1
  Junk = Junk
  Unmapped = Unmapped
  Pages <- TwoPages
  Areas = {"stack", "shm"}
  AreaOf <- SharedAreaOf
  InitialVmas <- SharedVmas
  StackAreas = {"stack"}
  Configs <- SharedConfigs
  ExcludeRanges = {}
  IncludeRanges <- SharedInclude
  VmaTurn <- SharedVmaTurn
  PageTurn <- SharedPageTurn
  End = 4
SPECIFICATION PromiseSpec
PROPERTIES OutsideUntouched PromiseKept
CHECK_DEADLOCK FALSE
