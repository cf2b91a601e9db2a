CONSTANTS
  HotCapacity = 2
  TotalCapacity = 4
  MaxPushed = 9
  MaxBatch = 3
SPECIFICATION Spec
INVARIANTS ColdContinuesHot ViewIsCurrent
PROPERTIES RefinesWindow
