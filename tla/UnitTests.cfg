SPECIFICATION RunnerSpec
CONSTANTS
  Groups <- AllGroups
  Recorder <- RecorderOutcome
  MaxFaults = 2
  Chained <- ShortPrograms
  Ways <- AllWays
INVARIANTS RunnerTypeOK NoticedFaultsFail TestsAreIsolated CallsLeaveSections ErrorsAreFaults FaultsAreReported
PROPERTIES RunsEveryTest StaysUnbalanced
CHECK_DEADLOCK FALSE
