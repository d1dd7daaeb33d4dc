SPECIFICATION Spec
CONSTANTS
  Requests = {r1, r2}
  None = none
  Headers = {h}
  Codes = {99, 404}
  MaxChunks = 1
  LateHints = FALSE
  DetectsClose = TRUE
  LogsLastError = TRUE
INVARIANTS TypeOK ResponseIsTheScripts AnswerIsFinal
  AbortIsNotInvented
PROPERTY BufferIsFrozen
CHECK_DEADLOCK FALSE
SYMMETRY RequestSymmetry
