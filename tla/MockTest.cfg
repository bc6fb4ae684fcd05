SPECIFICATION Spec
CONSTANTS
  Functions = {f1, f2}
  Parameters = {p}
  Values = {v1}
  Counts <- AllCounts
  Locations = {1, 2, 3}
  MaxDeclarations = 3
  MaxServed = 2
INVARIANTS TypeOK StoresMatchLedger
PROPERTY ContractSpec
SYMMETRY FunctionSymmetry
CHECK_DEADLOCK FALSE
