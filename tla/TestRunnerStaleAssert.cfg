SPECIFICATION Spec
CONSTANTS
  Functions = {f1}
  Parameters = {}
  Values = {v1}
  Locations = {1}
  Blocks = {}
  NumTests = 2
  MaxGroups = 1
  MaxOps = 2
  Counts <- DocumentedCounts
  Root = Root
  Null = Null
  Scripts <- OnlyAsserts
INVARIANTS AssertsFailTheTest
CHECK_DEADLOCK FALSE
