SPECIFICATION Spec
CONSTANTS
  Functions = {f1}
  Parameters = {}
  Values = {v1}
  Locations = {1}
  Blocks = {b1, b2, b3}
  NumTests = 2
  MaxGroups = 1
  MaxOps = 2
  Counts <- DocumentedCounts
  Root = Root
  Null = Null
  Scripts <- HeapOrMocks
INVARIANTS StartsClean StatusIsOwn AssertsFailTheTest
           LeaksAreFailures CheckPointsFollow AbortMeansFailed
SYMMETRY BlockSymmetry
CHECK_DEADLOCK FALSE
