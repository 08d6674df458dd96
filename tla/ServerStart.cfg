SPECIFICATION FairSpec
CONSTANT Capacity <- MCCapacity
INVARIANTS
  CleanResult
  ReadyBeforeWorkers
  NamesAlive
  PostsMatch
PROPERTIES
  InitReturns
  WorkersRun
CHECK_DEADLOCK FALSE
