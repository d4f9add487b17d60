CONSTANTS
  j1 = j1
  j2 = j2
  k1 = k1
  k2 = k2
  Jobs = {j1, j2}
  Clusters = {k1, k2}
  QUERY_INTERVAL = 1
  TIMEOUT = 2
  MaxDelay = 1
  None = None
SPECIFICATION FairSpec
INVARIANTS TypeOK AlertTellsTruth TimeoutsAreLate OnePush
PROPERTIES MonitorRunsDown MonitorEnds
