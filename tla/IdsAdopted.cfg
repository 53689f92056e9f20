SPECIFICATION Spec
CONSTANTS
  x = x
  y = y
  f1 = f1
  f2 = f2
  h1 = h1
  h2 = h2
  None = None
  YamlName = h1
  Meters <- MCMeters
  Fields <- MCFields
  Hosts <- MCHosts
  DeviceName <- MCDeviceName
  MaxEvents = 3
CHECK_DEADLOCK FALSE
PROPERTIES AdoptedIdsKept
SYMMETRY MCSymmetry
