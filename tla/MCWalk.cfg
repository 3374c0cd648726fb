CONSTANTS
  PageSize = 2
  Top = 12
  Span <- SpanOf
  Layouts <- TwoLayouts
  Ranges <- OrderedRanges
  MaxCalls = 2
  TableSets <- SomeTables
SPECIFICATION Spec
INVARIANTS TypeOK DecisionsRight FastPathsAgree
PROPERTY WalkEnds
CHECK_DEADLOCK FALSE
