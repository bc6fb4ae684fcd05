SPECIFICATION RunnerSpec
CONSTANTS
  Groups <- TwoGroups
  Recorder <- RecorderOutcome
  MaxFaults = 1
  Chained <- AllPrograms
  Ways = {"RUNNER"}
INVARIANTS ExitMeansErrors
CHECK_DEADLOCK FALSE
