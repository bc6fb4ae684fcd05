SPECIFICATION Spec
CONSTANTS
  Groups <- TwoGroups
  Filters <- NoFilters
  Outputs <- NoOutputs
  Environments <- XmlFiles
  BufferSize = 9
  MaxProcesses = 2
  MaxGroups = 3
INVARIANTS OldReportsStay
CHECK_DEADLOCK FALSE
