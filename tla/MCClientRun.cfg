CONSTANTS
  REQUEST_TIMES = 3
  MAX_WORKERS = 2
  RETRY_TIMES = 1
  MaxUnread = 0
  Truncated = Truncated
  Garbled = Garbled
SPECIFICATION FairSpec
INVARIANTS TypeOK ReportAddsUp SilentEndSkipsOne
PROPERTY RunEnds
