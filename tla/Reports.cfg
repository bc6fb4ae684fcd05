SPECIFICATION Spec
CONSTANTS
  Groups <- AllGroups
  Filters <- AllFilters
  Outputs <- AllOutputs
  Environments <- AllEnvironments
  BufferSize = 9
  MaxProcesses = 2
  MaxGroups = 3
INVARIANTS TypeOK FormatsFollow TestsAreSelected ReportsAgree HeadersComeFirst
PROPERTIES ReportsEnd
CHECK_DEADLOCK FALSE
