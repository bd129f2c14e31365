CONSTANTS
  Config <- MCConfig
  NPools = 2
  ByVector = {}
  NChunks = 2
  Object = {1}
  Value = {1, 2}
  MaxFaults = 1
  AnswersLoad = TRUE
  FastRestart = FALSE
  MaxCalls = 2
SPECIFICATION FairSpec
INVARIANTS TypeOK ConnectedHasPool AcceptedIsKept HelperAgrees
PROPERTIES Reconnects ValuesArrive
