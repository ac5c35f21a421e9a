SPECIFICATION Spec
CONSTANTS
  Handlers <- AllHandlers
  HostOps = {"register", "suspend", "halt", "fail"}
  OneShot = TRUE
  Escapes = FALSE
  MaxInstalls = 2
  MaxFrames = 4
  MaxResumes = 3
  MaxCleanups = 2
  MaxDepth = 8
INVARIANTS
  TypeOK
  FiresAtMostOnce
