CONSTANTS
  Paths = {a, b}
  Models = {m1, m2}
  Kinds = {"hover"}
  Positions = {1}
  Results = {"ok", "failed"}
  Ops = {"switch"}
  MaxEdits = 0
  MaxCalls = 1
  MaxWorkers = 1
  MaxSwitches = 1
  None = None
SPECIFICATION FairSpec
INVARIANTS MirrorFollowsClient
PROPERTIES MarkersAreCurrent
CHECK_DEADLOCK FALSE
