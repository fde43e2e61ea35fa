SPECIFICATION FairSpec
CONSTANTS
  i1 = i1
  i2 = i2
  lib = lib
  p = p
  q = q
  Item = {i1, i2}
  Library = {lib}
  LibraryOf <- MCLibraryOf
  NoLibrary = NoLibrary
  SyncPath = {p, q}
  LinkedTo <- MCLinkedTo
  PathOf <- MCPathOf
  Working = {p}
  Request <- MCRequest
  Caller = {"c"}
  Threshold = 2
  Debounce = 1
  MaxWait = 2
  MaxRequests = 2
  MaxCrashes = 1
INVARIANTS
  NothingForgotten
  WakesInTime
PROPERTIES
  DebounceKept
  DeadlineKept
  ChangesAreServed
