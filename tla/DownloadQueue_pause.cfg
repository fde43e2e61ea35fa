SPECIFICATION Spec
CONSTANTS
  w1 = w1
  w2 = w2
  w3 = w3
  c1 = c1
  c2 = c2
  targetA = targetA
  targetB = targetB
  Task = {1}
  TargetOf <- OneTarget
  Worker = {w1, w2}
  Caller = {c1, c2}
  Calls = {"pause", "resume", "sync"}
  MaxThreads = 1
  ChannelFactor = 1
  MaxRetry = 0
  MaxQueues = 1
  MaxChannels = 2
SYMMETRY Symmetry
INVARIANT TypeOK
PROPERTY PausedClaimsNothing
