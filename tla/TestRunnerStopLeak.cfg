SPECIFICATION Spec
CONSTANTS
  Functions = {f1}
  Parameters = {}
  Values = {v1}
  Locations = {1}
  Blocks = {b1}
  NumTests = 1
  MaxGroups = 1
  MaxOps = 2
  Counts <- DocumentedCounts
  Root = Root
  Null = Null
  Scripts <- OnlyStops
INVARIANTS LeaksAreFailures
CHECK_DEADLOCK FALSE
