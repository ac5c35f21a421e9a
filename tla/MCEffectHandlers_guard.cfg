SPECIFICATION Spec
CONSTANTS
  Handlers <- AllHandlers
  HostOps = {"register", "suspend", "halt", "fail"}
  OneShot = FALSE
  Escapes = TRUE
  MaxInstalls = 1
  MaxFrames = 5
  MaxResumes = 1
  MaxCleanups = 2
  MaxDepth = 10
INVARIANTS
  NoUseAfterCleanup
  CompletedRunsCleanUp
