CONSTANTS
  c1 = c1
  c2 = c2
  c3 = c3
  c4 = c4
  primary = primary
  backup = backup
  Servers = {primary, backup}
  Calls = {c1, c2}
  None = None
  Types <- ML_TASK_TYPES
  Tasks <- MCTasks
  TaskOf <- MCTaskOf
  TypeOf <- MCTypeOf
  BigType <- MCBigType
SPECIFICATION Spec
INVARIANT NoDuplicateExecution
