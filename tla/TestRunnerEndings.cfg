SPECIFICATION Spec
CONSTANTS
  Functions = {f1}
  Parameters = {}
  Values = {v1}
  Locations = {1}
  Blocks = {}
  NumTests = 2
  MaxGroups = 2
  MaxOps = 1
  Counts <- DocumentedCounts
  Root = Root
  Null = Null
  Scripts <- OnlyEndings
INVARIANTS TypeOK FrameDiscipline StartsClean StatusIsOwn TotalsAgree
PROPERTIES RunsEveryTest TornDown GroupEnds
CHECK_DEADLOCK FALSE
