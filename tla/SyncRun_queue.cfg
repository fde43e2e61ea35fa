SPECIFICATION FairSpec
CONSTANTS
  t1 = t1
  t2 = t2
  m = m
  None = None
  Task = {t1, m}
  Manual = {m}
  Capacity = 4
  MaxAdds = 3
  MaxPauses = 1
  MaxCrashes = 1
  Client = {1, 2, 3}
  ScopeOf <- MCScopeOf
  Scope <- MCScope
INVARIANTS
  TypeOK
  OneAtWork
PROPERTIES
  LedgerIsEnded
  WaitingIsTaken
CHECK_DEADLOCK FALSE
