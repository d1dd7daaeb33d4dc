SPECIFICATION FairSpec
CONSTANTS
  Requests = {r1, r2}
  None = none
  Headers = {h}
  Codes = {404}
  MaxChunks = 1
  LateHints = FALSE
  DetectsClose = FALSE
  LogsLastError = FALSE
PROPERTY EveryRequestIsAnswered
CHECK_DEADLOCK FALSE
