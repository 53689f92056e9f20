SPECIFICATION FairSpec
CONSTANTS
  measurements = measurements
  energy = energy
  r1 = r1
  r2 = r2
  other = other
  unfit = unfit
  None = None
  Pollers <- MCPollers
  TwoRequests <- MCTwoRequests
  Readings <- MCReadings
  Others <- MCOthers
  Unfit <- MCUnfit
  Tolerated = 3
  MaxFailed = 5
  MaxEvents = 3
CHECK_DEADLOCK FALSE
INVARIANTS TypeOK UnavailableFromFourth ForeignOnlyIfSwapped
PROPERTIES WholePollsShown OnlyGoodPollsChangeValues ComesBack
