CONSTANTS
  f1 = f1
  f2 = f2
  big = big
  Forwards = {f1, f2, big}
  TaskOf <- MCTaskOf
  Types <- ML_TASK_TYPES
  BigType <- MCBigType
  WINDOW_SIZE = 2
  ATTEMPT_TIMES = 2
  FAIL_NUM = 1
  FAIL_DEN = 2
  MaxForwards = 2
  None = None
SPECIFICATION Spec
INVARIANT StepBehindSuccess
PROPERTY ServiceKeepsItsWord

SYMMETRY Retransmissions
