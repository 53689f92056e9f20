SPECIFICATION Spec
CONSTANTS
  a1 = a1
  a2 = a2
  n1 = n1
  f1 = f1
  f2 = f2
  Addresses <- MCAddresses
  Names <- MCNames
  Nowhere = Nowhere
  Options = {o1, o2}
  Flows <- MCFlows
  MaxEvents = 1
CHECK_DEADLOCK FALSE
INVARIANTS PollsWithSavedOptions
