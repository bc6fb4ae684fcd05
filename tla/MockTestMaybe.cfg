SPECIFICATION Spec
CONSTANTS
  Functions = {f1}
  Parameters = {}
  Values = {v1}
  Counts <- DocumentedCounts
  Locations = {1, 2}
  MaxDeclarations = 2
  MaxServed = 2
INVARIANT LeftoverMeansUnmet
CHECK_DEADLOCK FALSE
