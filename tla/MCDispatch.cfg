SPECIFICATION Spec
CONSTANTS
  Slots = {s1, s2}
  Requests = {r1, r2}
  None = none
  Retirable = {s1, s2}
  MaxTenures = 2
SYMMETRY DispatchSymmetry
INVARIANTS TypeOK NobodyIsOvertaken ExecutedOnce BookkeepingIsExact
CHECK_DEADLOCK FALSE
