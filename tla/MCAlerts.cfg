CONSTANTS
  primary = primary
  backup = backup
  t1 = t1
  t2 = t2
  p1 = p1
  p2 = p2
  Servers = {primary, backup}
  Tokens = {t1, t2}
  Pushes = {p1, p2}
  None = None
SPECIFICATION Spec
INVARIANTS TypeOK RegistrationsLast PushReachesAll DeadTokensGo CutShortByAnother
SYMMETRY MCSymmetry
