SPECIFICATION FairSpec
CONSTANTS
  sync = sync
  edit = edit
  scrape = scrape
  p = p
  q = q
  f = f
  None = None
  Blank = Blank
  Gone = Gone
  Client = {sync, edit, scrape}
  Scope <- MCScope
  SyncPath = {p, q}
  File = {f}
  PathOf <- MCPathOf
  Kind <- MCKind
  FileOf <- MCFileOf
  Place <- MCPlace
  Target <- MCTarget
  StartRow <- MCStartRow
  StartFile <- MCStartFile
  MaxMutations = 1
INVARIANTS
  TypeOK
  NoSharedScope
  HeldIsCurrent
  OneAtAPlace
  CacheIsTrue
PROPERTIES
  NoOvertaking
  AskedIsAnswered
