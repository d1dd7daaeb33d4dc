SPECIFICATION Spec
CONSTANTS
  Requests = {r1}
  None = none
  Headers = {h}
  Codes = {404}
  MaxChunks = 1
  LateHints = TRUE
  DetectsClose = FALSE
  LogsLastError = FALSE
INVARIANT AnswerIsFinal
CHECK_DEADLOCK FALSE
