CONSTANTS
  Values = {0, 1}
  Zero = 0
  FileData = 1
  Junk = Junk
  Unmapped = Unmapped
  Pages <- TwoPages
  Areas = {"map"}
  AreaOf <- PrivateAreaOf
  InitialVmas <- PrivateVmas
  StackAreas = {}
  Configs <- PrivateConfigs
  ExcludeRanges <- PrivateExclude
  IncludeRanges = {}
  VmaTurn <- PrivateVmaTurn
  PageTurn <- PrivatePageTurn
  End = 3
SPECIFICATION PromiseSpec
INVARIANTS TypeOK Inv Recoverable RestoreExact DirtyListSync OwnFrame
PROPERTY PromiseKept
CHECK_DEADLOCK FALSE
