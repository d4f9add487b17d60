CONSTANTS
  r1 = r1
  r2 = r2
  r3 = r3
  p1 = p1
  plain = plain
  big = big
  Requests = {r1, r2, r3}
  Posts = {p1}
  Tasks = {plain, big}
  TaskOf <- MCTaskOf
  BigTasks = {big}
  WINDOW_SIZE = 3
  ATTEMPT_TIMES = 2
  FAIL_NUM = 1
  FAIL_DEN = 2
  HasBackup = TRUE
  DbMayFail = TRUE
SPECIFICATION FairSpec
INVARIANT TypeOK
PROPERTIES SlidingWindow CountsPrimaryOnly PostsFollowForwards PrimaryDrains ForwardRunsDown EveryForwardAnswered
