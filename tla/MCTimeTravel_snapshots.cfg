SPECIFICATION Spec
CONSTANTS
  Programs <- WithAndWithout
  Branches = 2
  BranchLength = 1
  MaxSnapshots = 3
  MaxHostOps = 4
INVARIANTS
  TypeOK
  HandlesStayValid
  Chronological
  HistoryIsLinear
  WholeProgram
