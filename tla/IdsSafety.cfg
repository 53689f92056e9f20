SPECIFICATION FairSpec
CONSTANTS
  x = x
  y = y
  f1 = f1
  f2 = f2
  h1 = h1
  h2 = h2
  None = None
  YamlName = yaml0
  Meters <- MCMeters
  Fields <- MCFields
  Hosts <- MCHosts
  DeviceName <- MCDeviceName
  MaxEvents = 4
CHECK_DEADLOCK FALSE
INVARIANTS TypeOK
PROPERTIES AdoptedWhole NoSensorLost EveryMeterLoads
