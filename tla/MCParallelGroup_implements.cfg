SPECIFICATION FairSpec
CONSTANTS
  N = 2
  Effects = 2
  Modes = {"parallel", "race", "settled"}
  GroupOps = {"resume", "fail", "suspend"}
  ResumedOps = {"resume", "suspend", "halt"}
  Nested = TRUE
PROPERTIES
  NoHandlerAfterSuspension
  WinnerStands
  ImplementsPrimitive
  GroupSettles
