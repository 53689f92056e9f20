SPECIFICATION FairSpec
CONSTANTS
  w1 = w1
  w2 = w2
  w3 = w3
  Writers <- MCWriters
  SettingsFields = {"timeout"}
  NetworkFields = {"ip_address"}
  Values = {0, 1}
  Keep = Keep
  Requests <- MCRequests
  Free = Free
  MaxEvents = 4
CHECK_DEADLOCK FALSE
INVARIANTS TypeOK OneWriter
PROPERTIES ReportedIsStored OnlyOwnFields WritesEnd
