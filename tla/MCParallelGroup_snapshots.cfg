SPECIFICATION Spec
CONSTANTS
  N = 3
  Effects = 1
  Modes = {"parallel", "race", "settled"}
  GroupOps = {"resume", "fail", "suspend"}
  ResumedOps = {"resume", "fail", "suspend", "halt"}
  Nested = TRUE
INVARIANTS
  TypeOK
  NoBranchLost
  ResultIsComplete
  CachedValuesSurvive
  ErrorBeatsSuspension
  RaceSuspendsUndecided
