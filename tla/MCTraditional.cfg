CONSTANTS
  REQUEST_TIMES = 3
  MAX_WORKERS = 2
SPECIFICATION FairSpec
INVARIANTS TypeOK SuccessesWereComputed ReportAddsUp
PROPERTY RunEnds
