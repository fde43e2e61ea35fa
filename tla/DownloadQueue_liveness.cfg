SPECIFICATION FairSpec
CONSTANTS
  w1 = w1
  w2 = w2
  w3 = w3
  c1 = c1
  c2 = c2
  targetA = targetA
  targetB = targetB
  Task = {1, 2}
  TargetOf <- OneTargetEach
  Worker = {w1}
  Caller = {c1}
  Calls = {"pause"}
  MaxThreads = 1
  ChannelFactor = 1
  MaxRetry = 1
  MaxQueues = 1
  MaxChannels = 1
PROPERTY PendingIsServed
