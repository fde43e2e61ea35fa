SPECIFICATION Spec
CONSTANTS
  Task = {1, 2}
  TargetOf <- MCTargetOf
  w1 = w1
  w2 = w2
  targetA = targetA
  targetB = targetB
  Worker = {w1}
  MaxThreads = 1
  MaxRetry = 0
  MaxStarts = 2
  MaxCrashes = 1
  MaxResizes = 0
  MaxDbErrors = 1
  MaxFinalErrors = 1
INVARIANTS
  NoOrphanedRow
PROPERTIES
  
  NoRetransfer
