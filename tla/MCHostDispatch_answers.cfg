CONSTANTS
  N = 3
  Fallbacks = {"standard", "null", "unhandled"}
  MaxCheckpoints = 1
SPECIFICATION FairSpec
INVARIANTS TypeOK DeliveredOnce FirstAnswerStands ChainInOrder OneAutoSnapshot
PROPERTIES DispatchSettles
