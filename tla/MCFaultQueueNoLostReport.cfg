CONSTANTS
  e1 = e1
  e2 = e2
  e3 = e3
  Entries = {e1, e2}
  Runs = 1
  MaxUnread = 0
  MayBeKilled = FALSE
  Truncated = Truncated
  Garbled = Garbled
SPECIFICATION Spec
INVARIANT NoLostReport
