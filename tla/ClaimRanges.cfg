CONSTANTS
  PageSize = 2
  Top = 12
  Span <- SpanOf
  Layouts <- TwoLayouts
  Ranges <- TwoRanges
  MaxCalls = 2
  TableSets <- SomeTables
SPECIFICATION Spec
INVARIANT RangesHonoured
CHECK_DEADLOCK FALSE
