CONSTANTS
  e1 = e1
  e2 = e2
  e3 = e3
  Entries = {e1, e2, e3}
  Runs = 2
  MaxUnread = 1
  MayBeKilled = TRUE
  Truncated = Truncated
  Garbled = Garbled
SPECIFICATION Spec
INVARIANTS TypeOK NoDuplicates IntactUnlessRaced
PROPERTIES BrokenFileStays TurnsInOrder HealedOnce NoStarvation
