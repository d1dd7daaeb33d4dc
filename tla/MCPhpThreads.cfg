SPECIFICATION FairSpec
CONSTANTS
  NumSlots = 2
  NumThreads = 2
  Main = main
  Controllers = {c1}
  Free = free
  Scripts = {"finite", "runaway"}
  Cells <- MCCells
  Actors <- MCActors
INVARIANTS TypeOK ReuseIsSafe SharedMemoryIsLive HandlersAreInStep
  CallsFindTheirSlots NoStrandedRequest
PROPERTIES KeepsEngineContract CallsReturn
CHECK_DEADLOCK FALSE
