SPECIFICATION Spec
CONSTANTS
  Task = {1, 2}
  TargetOf <- MCTargetOf
  w1 = w1
  w2 = w2
  targetA = targetA
  targetB = targetB
  Worker = {w1, w2}
  MaxThreads = 2
  MaxRetry = 0
  MaxStarts = 2
  MaxCrashes = 0
  MaxResizes = 1
  MaxDbErrors = 0
  MaxFinalErrors = 0
SYMMETRY WorkerSymmetry
INVARIANTS
  TypeOK
  OneHolderPerTask
  BooksBalance
PROPERTIES
  StartsWithinLimit
