SPECIFICATION FairSpec
CONSTANTS
  f1 = f1
  f2 = f2
  scan = scan
  bundle = bundle
  single = single
  q1 = q1
  q2 = q2
  File = {f1, f2}
  Scan = {}
  Bundle = {bundle}
  Single = {single}
  SyncPath = {q1, q2}
  FileOf <- MCFileOf
  PathOf <- MCPathOf
  DownloadMeta = {}
  Listings <- MCSameListing
  BatchLimit = 2
  MaxCrashes = 1
  MaxSaveErrors = 1
  MaxFinishErrors = 1
INVARIANTS TypeOK CountsAgree RefreshNotLost
PROPERTIES OrderKept EveryTaskSettles
CHECK_DEADLOCK FALSE
