SPECIFICATION Spec
CONSTANTS
  N = 2
  Effects = 2
  Modes = {"parallel"}
  GroupOps = {"resume", "suspend"}
  ResumedOps = {"resume"}
  Nested = FALSE
INVARIANTS
  BranchesRunToTheirEnd
