SPECIFICATION FairSpec
CONSTANTS
  m1 = m1
  m2 = m2
  x = x
  y = y
  z = z
  a1 = a1
  a2 = a2
  Off = Off
  None = None
  Modules <- MCModules
  Meters <- MCMeters
  Unsupported <- MCUnsupported
  Addresses <- MCAddresses
  MaxFlows = 2
  MaxEvents = 3
CHECK_DEADLOCK FALSE
INVARIANTS TypeOK OfferedOnce
PROPERTIES EntriesFollow AllOffered
