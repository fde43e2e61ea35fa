SPECIFICATION FairSpec
CONSTANTS
  Task = {1, 2}
  TargetOf <- MCTargetOf
  w1 = w1
  w2 = w2
  targetA = targetA
  targetB = targetB
  Worker = {w1}
  MaxThreads = 1
  MaxRetry = 1
  MaxStarts = 1
  MaxCrashes = 0
  MaxResizes = 0
  MaxDbErrors = 0
  MaxFinalErrors = 1
PROPERTIES
  PendingIsServed
  UploadedIsFinished
  FailedIsRetried
  
