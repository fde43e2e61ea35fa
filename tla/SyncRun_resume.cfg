SPECIFICATION FairSpec
CONSTANTS
  t1 = t1
  t2 = t2
  m = m
  None = None
  Task = {t1, t2, m}
  Manual = {m}
  Capacity = 2
  MaxAdds = 3
  MaxPauses = 1
  MaxCrashes = 0
  Client = {1, 2, 3}
  ScopeOf <- MCScopeOf
  Scope <- MCScope
PROPERTIES
  WaitingIsTaken
CHECK_DEADLOCK FALSE
