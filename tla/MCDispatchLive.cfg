SPECIFICATION FairSpec
CONSTANTS
  Slots = {s1, s2}
  Requests = {r1, r2}
  None = none
  Retirable = {s1}
  MaxTenures = 2
PROPERTY EveryRequestIsServed
CHECK_DEADLOCK FALSE
