SPECIFICATION FairSpec
CONSTANTS
  MaxCases = 3
  MaxJobs = 2
  MaxFaults = 2
CHECK_DEADLOCK FALSE
INVARIANTS TypeOK OneCasePerTree ResultsProve RepositoryAsFound
PROPERTIES RunEnds
