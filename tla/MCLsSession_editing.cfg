CONSTANTS
  Paths = {a}
  Models = {m1, m2}
  Kinds = {"hover"}
  Positions = {1}
  Results = {"ok"}
  Ops = {}
  MaxEdits = 1
  MaxCalls = 2
  MaxWorkers = 1
  MaxSwitches = 0
  None = None
SPECIFICATION FairSpec
INVARIANTS TypeOK
PROPERTIES AnswersAreCurrent DiagnosticsConverge PromisesSettle
CHECK_DEADLOCK FALSE
