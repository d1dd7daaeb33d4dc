SPECIFICATION FairSpec
CONSTANTS
  NumThreads = 2
  MaxRequests = 2
  Careless = TRUE
INVARIANTS TypeOK LockDiscipline BorrowsAreSound NothingLeaks
PROPERTIES CleanupCompletes
CHECK_DEADLOCK FALSE
