CONSTANTS
  Paths = {a, b}
  Models = {m1}
  Kinds = {"formatting"}
  Positions = {1}
  Results = {"ok"}
  Ops = {"crash", "silent", "rename", "delete"}
  MaxEdits = 1
  MaxCalls = 1
  MaxWorkers = 2
  MaxSwitches = 0
  None = None
SPECIFICATION FairSpec
INVARIANTS PromisesInFlight MirrorFollowsClient
PROPERTIES PromisesSettle
CHECK_DEADLOCK FALSE
