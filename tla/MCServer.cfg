SPECIFICATION FairSpec
CONSTANTS
  Conns = {c1, c2}
  NumThreads = 1
INVARIANTS TypeOK DrainIsLast
PROPERTIES InFlightIsFinished RunReturns TasksAreReaped
CHECK_DEADLOCK FALSE
