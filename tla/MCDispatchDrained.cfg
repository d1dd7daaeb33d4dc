SPECIFICATION FairSpec
CONSTANTS
  Slots = {s1}
  Requests = {r1, r2}
  None = none
  Retirable = {s1}
  MaxTenures = 1
PROPERTY UndeliverableIsDropped
CHECK_DEADLOCK FALSE
