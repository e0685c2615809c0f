SPECIFICATION Spec
CONSTANTS
  a = a
  t1 = t1
  t2 = t2
  NoOne = NoOne
  Gone = Gone
  Members = {a}
  Tabs = {t1, t2}
  Workers = 2
  May <- MCMay
  Opens <- MCOpens
INVARIANTS ActiveWasApproved
PROPERTIES UndoneFromStale
CONSTRAINT Unedited
CHECK_DEADLOCK FALSE
