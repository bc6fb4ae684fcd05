SPECIFICATION Spec
CONSTANTS
  Copies <- TwoProjects
  FileOf <- FileOfPair
  Partial = Partial
  Backslash = TRUE
  MaxTime = 4
  MaxEdits = 2
INVARIANTS TypeOK Propagated
CHECK_DEADLOCK FALSE
