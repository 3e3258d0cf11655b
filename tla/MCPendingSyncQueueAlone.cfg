SPECIFICATION FairSpec
CONSTANTS
  Keys = {k1, k2}
  Savers = {s1, s2}
  Screens = {}
  Drains = {d1}
  Stamps = {1}
  Cap = 2
  MaxRows = 3
  MaxFaults = 2
INVARIANT KeyNotForgotten
PROPERTY AcceptedIsDelivered
CHECK_DEADLOCK FALSE
