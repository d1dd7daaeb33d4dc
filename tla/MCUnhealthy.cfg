SPECIFICATION FairSpec
CONSTANTS
  Requests = {r1}
  None = none
  Headers = {h}
  Codes = {404}
  MaxChunks = 1
  LateHints = FALSE
  DetectsClose = FALSE
  LogsLastError = TRUE
PROPERTY UnhealthyIsRestarted
CHECK_DEADLOCK FALSE
