SPECIFICATION Spec
CONSTANTS
  Bits = 4
  NoHosts <- MCNoHosts
  Entered <- MCEntered
  fits = fits
  unfit = unfit
  Names <- MCNames
  Hostnames <- MCHostnames
  MaxTimeout = 1
  Empty = Empty
  Garbled = Garbled
  Closed = Closed
  MaxChanged = 2
  MaxOutdated = 1
INVARIANTS TypeOK RefusedForAReason ShownFormWritesNothing
PROPERTIES SavedNetworkWorks
