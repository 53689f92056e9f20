SPECIFICATION Spec
CONSTANTS
  p1 = p1
  p2 = p2
  a1 = a1
  a2 = a2
  n1 = n1
  Pages <- MCOnePage
  Addresses <- MCAddresses
  Names <- MCNames
  t1 = t1
  t2 = t2
  Timeouts <- MCTimeouts
  MaxEvents = 3
CHECK_DEADLOCK FALSE
PROPERTIES WritesKeepOthers
