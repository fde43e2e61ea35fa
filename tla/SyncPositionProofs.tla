------------------------- MODULE SyncPositionProofs -------------------------
(***************************************************************************)
(* Proofs about SyncPosition.                                              *)
(***************************************************************************)
EXTENDS SyncPosition, SyncScopeProofs, FiniteSetTheorems

\* Whatever a client does, the coordinator sees one of its own steps or none.
LEMMA PositionStepsScope ==
  ASSUME [Next]_vars
  PROVE  [ScopeStep]_scopeVars
<1>1. CASE UNCHANGED vars
  BY <1>1 DEF vars
<1>2. CASE Next
  <2>1. PICK c \in Client : Begin(c) \/ Proceed(c) \/ BeginMutation(c) \/ Cancel(c)
    BY <1>2 DEF Next
  <2>2. ASSUME NEW label, NEW record, Leave(c, label, record)
        PROVE  [ScopeStep]_scopeVars
    BY <2>2 DEF Leave, ScopeStep
  <2>3. GiveUp(c) \/ Retry(c) => [ScopeStep]_scopeVars
    BY <2>2 DEF GiveUp, Retry
  <2>4. CASE Begin(c) \/ ReadVersion(c) \/ LookUp(c) \/ Query(c) \/ Store(c)
    BY <2>4 DEF Begin, ReadVersion, LookUp, Query, Store
  <2>5. CASE ReadRow(c) \/ Confirm(c) \/ Fresh(c) \/ Compare(c) \/ LastLook(c)
    BY <2>3, <2>5 DEF ReadRow, Confirm, Fresh, Compare, LastLook
  <2>6. CASE AskScope(c)
    <3>1. CASE Retry(c)
      BY <2>3, <3>1
    <3>2. CASE Ask(c, ScopesRead(c) \cup Additional(c))
      BY <3>2 DEF ScopeStep
    <3> QED
      BY <2>6, <3>1, <3>2 DEF AskScope
  <2>7. CASE BeginMutation(c) \/ Commit(c) \/ FinishMutation(c)
    BY <2>7 DEF BeginMutation, Commit, FinishMutation
  <2>8. CASE Release(c) \/ Cancel(c)
    BY <2>3, <2>8 DEF Release, Cancel
  <2> QED
    BY <2>1, <2>4, <2>5, <2>6, <2>7, <2>8 DEF Proceed
<1> QED
  BY <1>1, <1>2

LEMMA PositionScopeInvariant == Spec => []ScopeInv
<1>1. Init => ScopeInv
  BY ScopeInit DEF Init
<1>2. ScopeInv /\ [Next]_vars => ScopeInv'
  BY PositionStepsScope, ScopeStepKeeps
<1> QED
  BY <1>1, <1>2, PTL DEF Spec

\* Tasks that find their scopes by reading ahead, retry and give up hold
\* overlapping ones never.
THEOREM PositionExclusion == Spec => []NoSharedScope
BY PositionScopeInvariant, ScopeInvImplies, PTL

\* Nor do their requests overtake each other.
THEOREM PositionOrder == Spec => NoOvertaking
<1>1. ScopeInv /\ ScopeInv' /\ [Next]_vars => [InOrder]_scopeVars
  BY PositionStepsScope, ScopeStepInOrder
<1> QED
  BY <1>1, PositionScopeInvariant, PTL DEF Spec, NoOvertaking, InOrder

-----------------------------------------------------------------------------
(* The invariant behind the remaining properties. *)

Labels == {"idle", "version", "row", "lookup", "query", "store", "ask", "wait",
           "fresh", "compare", "last", "held", "writing", "written", "done"}

FileValue == Place \cup {None, Blank}

FilesOf(p) == {f \in File : PathOf[f] = p}

\* The records a client is about, as they are now.
Now(c) == [f \in FileOf[c] |-> fileAt[f]]

AtWork(c) == pc[c] \in {"held", "writing", "written", "done"}
Writing == {c \in Client : pc[c] \in {"writing", "written"}}

\* Types; the count of the writers; the cache of a version no writer has ended.
Shared ==
  /\ rowAt \in [SyncPath -> Place \cup {Gone}]
  /\ fileAt \in [File -> FileValue]
  /\ version \in Nat
  /\ mutations \in Nat
  /\ pc \in [Client -> Labels]
  /\ DOMAIN mem = Client
  /\ DOMAIN cache = SyncPath
  /\ writers = Cardinality(Writing)
  /\ version = 2 * mutations - writers

CacheOK(p) ==
  cache[p] # NoEntry =>
    /\ cache[p].version \in Nat
    /\ cache[p].version <= version
    /\ cache[p].places \in [FilesOf(p) -> FileValue]
    /\ cache[p].version = version =>
         /\ writers = 0
         /\ cache[p].places = [f \in FilesOf(p) |-> fileAt[f]]

\* What a client remembers of its reads.
Memory(c) ==
  /\ DOMAIN mem[c] = DOMAIN Empty
  /\ mem[c].version \in Nat /\ mem[c].version <= version
  /\ mem[c].seen \in Nat /\ mem[c].seen <= version
  /\ mem[c].again \in BOOLEAN
  /\ mem[c].target \in Target \cup {Gone}
  /\ pc[c] \in {"compare", "last"} => mem[c].again
  /\ mem[c].again => pc[c] \in {"row", "lookup", "query", "store", "compare", "last"}
  /\ mem[c].again \/ pc[c] \in {"lookup", "query", "store", "ask", "wait", "fresh", "compare", "last"}
       => mem[c].row \in Place
  /\ pc[c] \in {"store", "ask", "wait", "fresh", "compare", "last"}
       => mem[c].places \in [FileOf[c] -> FileValue]
  /\ pc[c] \in {"version", "lookup", "store"} => Versioned(c)

\* It asked for what it read, and asks no second time.
Asking(c) ==
  /\ wanted[c] # {} =>
       mem[c].again \/ AtWork(c) \/ pc[c] \in {"wait", "fresh", "compare", "last"}
  /\ mem[c].again \/ pc[c] \in {"wait", "fresh", "compare", "last"} =>
       wanted[c] = Normalized(mem[c].scopes \cup Additional(c))
  /\ pc[c] \in {"wait", "fresh", "last"} => ScopesRead(c) = mem[c].scopes
  /\ mem[c].again \/ AtWork(c) \/ pc[c] \in {"fresh", "compare", "last"} => c \in granted

\* Its scopes keep the configuration of its sync path.
Configured(S, c) ==
  \E s \in S : s = Global \/ (s.path = {PathOf[c]} /\ s.shared = (Kind[c] = "scrape"))

Configuring(c) == wanted[c] # {} => Configured(wanted[c], c)

\* As long as the version is the one it started with, what it read is true.
Timed(c) ==
  Versioned(c) =>
    /\ mem[c].again \/ pc[c] \in {"lookup", "query", "store", "ask", "wait", "fresh", "compare", "last"} =>
         (version = mem[c].version /\ writers = 0 => mem[c].row = rowAt[PathOf[c]])
    /\ pc[c] \in {"query", "store"} /\ version = mem[c].seen =>
         /\ writers = 0
         /\ pc[c] = "store" => mem[c].places = Now(c)
    /\ pc[c] \in {"ask", "wait", "fresh", "compare", "last"} /\ version = mem[c].version =>
         writers = 0 /\ mem[c].places = Now(c)

\* A scraper has no version; what it reads under its scopes stays.
Frozen(c) ==
  Kind[c] = "scrape" /\ mem[c].again =>
    /\ pc[c] \in {"query", "compare", "last"} => mem[c].row = rowAt[PathOf[c]]
    /\ pc[c] \in {"compare", "last"} => mem[c].places = Now(c)

\* Scopes that cover what the table says.
CoversNow(S, c) ==
  /\ rowAt[PathOf[c]] # Gone => \E s \in S : Covers(s, rowAt[PathOf[c]])
  /\ \A f \in FileOf[c] : fileAt[f] \in Place => \E s \in S : Covers(s, fileAt[f])
  /\ \A f \in FileOf[c] : fileAt[f] = Blank => Global \in S

Held(c) ==
  Holds(c) =>
    /\ CoversNow(wanted[c], c)
    /\ Kind[c] = "edit" /\ mem[c].target # Gone =>
         \E s \in wanted[c] : Covers(s, mem[c].target)
    /\ Kind[c] = "edit" \/ rowAt[PathOf[c]] # Gone
    /\ Kind[c] = "scrape" => pc[c] = "held"

ClientInv(c) ==
  Memory(c) /\ Asking(c) /\ Configuring(c) /\ Timed(c) /\ Frozen(c) /\ Held(c)

PosInv ==
  /\ ScopeInv
  /\ Shared
  /\ \A p \in SyncPath : CacheOK(p)
  /\ \A c \in Client : ClientInv(c)

-----------------------------------------------------------------------------
(* Scopes *)

LEMMA PrefixOfItself ==
  ASSUME NEW s \in Seq(STRING)
  PROVE  IsPrefix(s, s)
BY DEF IsPrefix

LEMMA NormalizeKeepsOrWidens ==
  ASSUME NEW S, NEW s \in S
  PROVE  s \in Normalized(S) \/ Global \in Normalized(S)
<1>1. Normalize(s) \in Normalized(S)
  BY DEF Normalized
<1> QED
  BY <1>1 DEF Normalize

LEMMA GlobalCovers ==
  ASSUME NEW x
  PROVE  Covers(Global, x) /\ Global.global = TRUE
BY DEF Covers, Global

LEMMA NormalizedCovers ==
  ASSUME NEW S, NEW s \in S, NEW x, Covers(s, x)
  PROVE  \E t \in Normalized(S) : Covers(t, x)
BY NormalizeKeepsOrWidens, GlobalCovers

LEMMA NormalizedGlobal ==
  ASSUME NEW S, Global \in S
  PROVE  Global \in Normalized(S)
BY NormalizeKeepsOrWidens

LEMMA NormalizedConfigured ==
  ASSUME NEW S, NEW c \in Client, Configured(S, c)
  PROVE  Configured(Normalized(S), c)
BY NormalizeKeepsOrWidens DEF Configured

LEMMA AtFields ==
  ASSUME NEW x
  PROVE  /\ At(x).local = {x.local} /\ At(x).remote = {x.remote}
         /\ At(x).shared = FALSE /\ At(x).path = {} /\ At(x).global = FALSE
         /\ DOMAIN At(x) = ScopeFields
BY DEF At, Bare, ScopeFields

LEMMA AtCovers ==
  ASSUME NEW x \in Place
  PROVE  /\ Covers(At(x), x)
         /\ \A p : /\ Covers(RowScope(p, x), x)
                   /\ RowScope(p, x).path = {p} /\ RowScope(p, x).shared = FALSE
                   /\ RowScope(p, x).local = {x.local}
<1>1. IsPrefix(x.local, x.local)
  BY PrefixOfItself, PositionAssumption
<1>2. \A p : /\ RowScope(p, x).path = {p} /\ RowScope(p, x).shared = FALSE
             /\ RowScope(p, x).local = {x.local}
  BY DEF RowScope, At, Bare
<1> QED
  BY <1>1, <1>2, AtFields DEF Covers

LEMMA OldScopeFields ==
  ASSUME NEW x, NEW root
  PROVE  OldScope(x, root).local = IF IsPrefix(root.local, x.local) THEN {} ELSE {x.local}
BY DEF OldScope, At, Bare

\* Covered(S, row, places): what was read is in the scopes made of it.
Covered(S, row, places) ==
  /\ \E s \in S : Covers(s, row)
  /\ \A f \in DOMAIN places : places[f] \in Place => \E s \in S : Covers(s, places[f])
  /\ \A f \in DOMAIN places : places[f] = Blank => Global \in S

LEMMA PathScopesCover ==
  ASSUME NEW p, NEW row \in Place, NEW F, NEW places \in [F -> FileValue]
  PROVE  Covered(PathScopes(p, row, places), row, places)
<1> DEFINE S == PathScopes(p, row, places)
<1>1. RowScope(p, row) \in S /\ Covers(RowScope(p, row), row)
  BY AtCovers DEF PathScopes
<1>2. CASE \E f \in DOMAIN places : places[f] = Blank
  <2>1. Global \in S
    BY <1>2 DEF PathScopes
  <2> QED
    BY <1>1, <2>1, GlobalCovers DEF Covered
<1>3. CASE ~\E f \in DOMAIN places : places[f] = Blank
  <2>1. S = {RowScope(p, row)} \cup OldScopes(places, row)
    BY <1>3 DEF PathScopes
  <2>2. ASSUME NEW f \in DOMAIN places, places[f] \in Place
        PROVE  \E s \in S : Covers(s, places[f])
    <3>1. CASE IsPrefix(row.local, places[f].local)
      <4>1. RowScope(p, row).local = {row.local}
        BY AtCovers
      <4>2. Covers(RowScope(p, row), places[f])
        BY <3>1, <4>1 DEF Covers
      <4> QED
        BY <1>1, <4>2
    <3>2. CASE ~IsPrefix(row.local, places[f].local)
      <4>1. OldScope(places[f], row).local = {places[f].local}
        BY <3>2, OldScopeFields
      <4>2. OldScope(places[f], row) \in OldScopes(places, row)
        BY <4>1, <2>2, PositionAssumption DEF OldScopes
      <4>3. IsPrefix(places[f].local, places[f].local)
        BY <2>2, PrefixOfItself, PositionAssumption
      <4> QED
        BY <4>1, <4>2, <4>3, <2>1 DEF Covers
    <3> QED
      BY <3>1, <3>2
  <2> QED
    BY <1>1, <1>3, <2>2 DEF Covered
<1> QED
  BY <1>2, <1>3

LEMMA OutputScopesCover ==
  ASSUME NEW p, NEW row \in Place, NEW F, NEW places \in [F -> FileValue]
  PROVE  Covered(OutputScopes(p, row, places), row, places)
<1> DEFINE S == OutputScopes(p, row, places)
           Of(f) == IF places[f] = Blank THEN Global ELSE At(places[f])
<1>1. At(row) \in S /\ Covers(At(row), row)
  BY AtCovers DEF OutputScopes
<1>2. \A f \in DOMAIN places : places[f] # None => Of(f) \in S
  BY DEF OutputScopes
<1>3. ASSUME NEW f \in DOMAIN places, places[f] = Blank
      PROVE  Global \in S
  BY <1>2, <1>3, PositionAssumption
<1>4. ASSUME NEW f \in DOMAIN places, places[f] \in Place
      PROVE  \E s \in S : Covers(s, places[f])
  <2>1. At(places[f]) \in S
    BY <1>2, <1>4, PositionAssumption
  <2> QED
    BY <2>1, <1>4, AtCovers
<1> QED
  BY <1>1, <1>3, <1>4 DEF Covered

-----------------------------------------------------------------------------
(* What a client asks for *)

LEMMA ReadIsCovered ==
  ASSUME NEW c \in Client, mem[c].row \in Place, mem[c].places \in [FileOf[c] -> FileValue]
  PROVE  Covered(ScopesRead(c), mem[c].row, mem[c].places)
BY PathScopesCover, OutputScopesCover DEF ScopesRead

LEMMA ReadIsConfigured ==
  ASSUME NEW c \in Client, mem[c].row \in Place, NEW A
  PROVE  Configured(Normalized(ScopesRead(c) \cup A), c)
<1>1. CASE Kind[c] = "scrape"
  <2> DEFINE s == [Bare EXCEPT !.path = {PathOf[c]}, !.shared = TRUE]
  <2>1. s \in ScopesRead(c)
    BY <1>1 DEF ScopesRead, OutputScopes
  <2>2. s.path = {PathOf[c]} /\ s.shared = TRUE
    BY DEF Bare
  <2>3. Configured(ScopesRead(c) \cup A, c)
    BY <1>1, <2>1, <2>2 DEF Configured
  <2> QED
    BY <2>3, NormalizedConfigured
<1>2. CASE Kind[c] # "scrape"
  <2>1. RowScope(PathOf[c], mem[c].row) \in ScopesRead(c)
    BY <1>2 DEF ScopesRead, PathScopes
  <2>2. /\ RowScope(PathOf[c], mem[c].row).path = {PathOf[c]}
        /\ RowScope(PathOf[c], mem[c].row).shared = FALSE
    BY AtCovers
  <2>3. Configured(ScopesRead(c) \cup A, c)
    BY <1>2, <2>1, <2>2 DEF Configured
  <2> QED
    BY <2>3, NormalizedConfigured
<1> QED
  BY <1>1, <1>2

\* If what was read is still true, the scopes cover the table.
LEMMA AskedCoversNow ==
  ASSUME NEW c \in Client,
         mem[c].row \in Place, mem[c].row = rowAt[PathOf[c]],
         mem[c].places \in [FileOf[c] -> FileValue], mem[c].places = Now(c),
         mem[c].target \in Target \cup {Gone},
         wanted[c] = Normalized(ScopesRead(c) \cup Additional(c))
  PROVE  /\ CoversNow(wanted[c], c)
         /\ Kind[c] = "edit" /\ mem[c].target # Gone =>
              \E s \in wanted[c] : Covers(s, mem[c].target)
<1> DEFINE S == ScopesRead(c) \cup Additional(c)
<1>1. Covered(ScopesRead(c), mem[c].row, mem[c].places)
  BY ReadIsCovered
<1>2. DOMAIN mem[c].places = FileOf[c] /\ \A f \in FileOf[c] : mem[c].places[f] = fileAt[f]
  BY DEF Now
<1>3. \E s \in wanted[c] : Covers(s, rowAt[PathOf[c]])
  <2>1. PICK s \in ScopesRead(c) : Covers(s, rowAt[PathOf[c]])
    BY <1>1 DEF Covered
  <2> QED
    BY <2>1, NormalizedCovers
<1>4. ASSUME NEW f \in FileOf[c], fileAt[f] \in Place
      PROVE  \E s \in wanted[c] : Covers(s, fileAt[f])
  <2>1. PICK s \in ScopesRead(c) : Covers(s, fileAt[f])
    BY <1>1, <1>2, <1>4 DEF Covered
  <2> QED
    BY <2>1, NormalizedCovers
<1>5. ASSUME NEW f \in FileOf[c], fileAt[f] = Blank
      PROVE  Global \in wanted[c]
  BY <1>1, <1>2, <1>5, NormalizedGlobal DEF Covered
<1>6. ASSUME Kind[c] = "edit", mem[c].target # Gone
      PROVE  \E s \in wanted[c] : Covers(s, mem[c].target)
  <2>1. mem[c].target \in Place
    BY <1>6, PositionAssumption
  <2>2. At(mem[c].target) \in S /\ Covers(At(mem[c].target), mem[c].target)
    BY <1>6, <2>1, AtCovers DEF Additional
  <2> QED
    BY <2>2, NormalizedCovers
<1> QED
  BY <1>3, <1>4, <1>5, <1>6 DEF CoversNow

\* Nobody else who works changes the table of a sync path somebody holds.
LEMMA OnePathOneWriter ==
  ASSUME ScopeInv, NEW c \in Client, NEW d \in Client, c # d,
         c \in granted, d \in granted,
         Configuring(c), Configuring(d),
         Kind[d] # "scrape"
  PROVE  PathOf[c] # PathOf[d]
<1>1. wanted[c] # {} /\ wanted[d] # {} /\ ~Overlap(wanted[c], wanted[d])
  BY DEF ScopeInv, Apart
<1>2. PICK s \in wanted[c] : s = Global \/ s.path = {PathOf[c]}
  BY <1>1 DEF Configuring, Configured
<1>3. PICK t \in wanted[d] : t = Global \/ (t.path = {PathOf[d]} /\ t.shared = FALSE)
  BY <1>1 DEF Configuring, Configured
<1>4. ~Collide(s, t)
  BY <1>1 DEF Overlap
<1>5. s # Global /\ t # Global
  BY <1>4, GlobalCovers DEF Collide
<1> QED
  BY <1>2, <1>3, <1>4, <1>5 DEF Collide, SameConfig

-----------------------------------------------------------------------------
(* Steps that leave the table, the version and the count of writers alone.  *)

Quiet == UNCHANGED <<rowAt, fileAt, version, writers, mutations>>

\* A client that is not the one that acts.
Bystander(c, d) ==
  /\ d # c
  /\ pc'[d] = pc[d]
  /\ mem'[d] = mem[d]
  /\ wanted'[d] = wanted[d]
  /\ d \in granted => d \in granted'

LEMMA BystanderKeeps ==
  ASSUME Quiet, NEW c \in Client, NEW d \in Client, Bystander(c, d), ClientInv(d)
  PROVE  ClientInv(d)'
<1>1. Memory(d)' /\ Configuring(d)'
  BY DEF ClientInv, Memory, Configuring, Bystander, Quiet, Versioned, AtWork
<1>2. Asking(d)'
  BY DEF ClientInv, Asking, Bystander, Quiet, AtWork, Additional, ScopesRead
<1>3. Timed(d)'
  BY DEF ClientInv, Timed, Bystander, Quiet, Versioned, Now
<1>4. Frozen(d)' /\ Held(d)'
  BY DEF ClientInv, Frozen, Held, Bystander, Quiet, Now, Holds, CoversNow
<1> QED
  BY <1>1, <1>2, <1>3, <1>4 DEF ClientInv

\* Nobody starts or ends to write.
LEMMA QuietShared ==
  ASSUME Quiet, Shared, DOMAIN cache' = SyncPath,
         pc' \in [Client -> Labels], DOMAIN mem' = Client,
         \A d \in Client : pc'[d] \in {"writing", "written"} <=> pc[d] \in {"writing", "written"}
  PROVE  Shared'
<1>1. Writing' = Writing
  BY DEF Writing
<1> QED
  BY <1>1 DEF Quiet, Shared

LEMMA QuietCache ==
  ASSUME Quiet, UNCHANGED cache, \A p \in SyncPath : CacheOK(p)
  PROVE  (\A p \in SyncPath : CacheOK(p))'
BY DEF Quiet, CacheOK

LEMMA LeaveScopes ==
  ASSUME ScopeInv, NEW c \in Client, NEW label, NEW record, Leave(c, label, record)
  PROVE  /\ wanted'[c] = {}
         /\ \A d \in Client \ {c} : wanted'[d] = wanted[d]
         /\ granted \ {c} \subseteq granted'
<1>1. CASE wanted[c] = {}
  BY <1>1 DEF Leave, scopeVars
<1>2. CASE wanted[c] # {}
  BY <1>2 DEF Leave, Withdraw, Grant, ScopeInv
<1> QED
  BY <1>1, <1>2

LEMMA LeaveKeeps ==
  ASSUME PosInv, NEW c \in Client, NEW label, NEW record, Leave(c, label, record),
         pc[c] \notin {"writing", "written"},
         \/ label = "idle" /\ record = Empty
         \/ label = First(c) /\ record = [Empty EXCEPT !.target = mem[c].target]
  PROVE  PosInv'
<1>1. /\ wanted'[c] = {}
      /\ \A d \in Client \ {c} : wanted'[d] = wanted[d]
      /\ granted \ {c} \subseteq granted'
  BY LeaveScopes DEF PosInv
<1>2. Quiet /\ UNCHANGED cache
  BY DEF Leave, posVars, Quiet
<1>3. pc' = [pc EXCEPT ![c] = label] /\ mem' = [mem EXCEPT ![c] = record]
  BY DEF Leave, Goto, Keep
<1>4. label \in {"idle", "version", "row"} /\ (label = "version" => Versioned(c))
  BY DEF First
<1>5. Shared'
  <2>1. DOMAIN cache' = SyncPath
    BY <1>2 DEF PosInv, Shared
  <2> QED
    BY <1>2, <1>3, <1>4, <2>1, QuietShared DEF PosInv, Shared, Labels
<1>6. ScopeInv'
  <2>1. [ScopeStep]_scopeVars
    BY DEF Leave, ScopeStep
  <2> QED
    BY <2>1, ScopeStepKeeps DEF PosInv
<1>7. ASSUME NEW d \in Client, d # c
      PROVE  ClientInv(d)'
  <2>1. Bystander(c, d)
    BY <1>1, <1>3, <1>7 DEF Bystander, PosInv, Shared, ScopeInv
  <2> QED
    BY <2>1, <1>2, BystanderKeeps DEF PosInv
<1>8. ClientInv(c)'
  <2>1. mem'[c] = record /\ pc'[c] = label /\ wanted'[c] = {}
    BY <1>1, <1>3 DEF PosInv, Shared, ScopeInv
  <2>2. /\ DOMAIN record = DOMAIN Empty
        /\ record.version = 0 /\ record.seen = 0 /\ record.again = FALSE
        /\ record.target \in Target \cup {Gone}
    BY DEF Empty, PosInv, ClientInv, Memory
  <2>3. Memory(c)'
    <3>1. version' \in Nat
      BY <1>2 DEF Quiet, PosInv, Shared
    <3>2. /\ DOMAIN mem'[c] = DOMAIN Empty
          /\ mem'[c].version = 0 /\ mem'[c].seen = 0 /\ mem'[c].again = FALSE
          /\ mem'[c].target \in Target \cup {Gone}
      BY <2>1, <2>2
    <3>3. 0 \in Nat /\ 0 <= version' /\ FALSE \in BOOLEAN
      BY <3>1, SMT
    <3>4. pc'[c] \in {"idle", "version", "row"} /\ (pc'[c] = "version" => Versioned(c))
      BY <1>4, <2>1
    <3> QED
      BY <3>2, <3>3, <3>4 DEF Memory, Versioned
  <2>4. Asking(c)' /\ Configuring(c)'
    BY <1>4, <2>1, <2>2 DEF Asking, AtWork, Configuring
  <2>5. Timed(c)' /\ Frozen(c)' /\ Held(c)'
    BY <1>4, <2>1, <2>2 DEF Timed, Frozen, Held, Holds
  <2> QED
    BY <2>3, <2>4, <2>5 DEF ClientInv
<1>9. (\A p \in SyncPath : CacheOK(p))'
  BY <1>2, QuietCache DEF PosInv
<1> QED
  BY <1>5, <1>6, <1>7, <1>8, <1>9 DEF PosInv

-----------------------------------------------------------------------------
(* Steps of one client that leaves its scopes as they are.                  *)

\* The client c alone moves, and neither to nor from a write.
Moves(c) ==
  /\ Quiet
  /\ pc' \in [Client -> Labels]
  /\ DOMAIN mem' = Client
  /\ DOMAIN cache' = SyncPath
  /\ pc[c] \notin {"writing", "written"}
  /\ pc'[c] \notin {"writing", "written"}
  /\ \A d \in Client : d # c => pc'[d] = pc[d] /\ mem'[d] = mem[d]

LEMMA MovesKeeps ==
  ASSUME PosInv, NEW c \in Client, Moves(c), [ScopeStep]_scopeVars,
         \A d \in Client : d # c => /\ wanted'[d] = wanted[d]
                                    /\ d \in granted => d \in granted',
         (\A p \in SyncPath : CacheOK(p))',
         ClientInv(c)'
  PROVE  PosInv'
<1>1. ScopeInv'
  BY ScopeStepKeeps DEF PosInv
<1>2. Shared'
  BY QuietShared DEF PosInv, Moves
<1>3. ASSUME NEW d \in Client, d # c
      PROVE  ClientInv(d)'
  <2>1. Bystander(c, d)
    BY <1>3 DEF Bystander, Moves
  <2> QED
    BY <2>1, BystanderKeeps DEF PosInv, Moves
<1> QED
  BY <1>1, <1>2, <1>3 DEF PosInv

LEMMA LocalKeeps ==
  ASSUME PosInv, NEW c \in Client, Moves(c), UNCHANGED <<scopeVars, cache>>,
         ClientInv(c)'
  PROVE  PosInv'
<1>1. [ScopeStep]_scopeVars
  OBVIOUS
<1>2. \A d \in Client : d # c => /\ wanted'[d] = wanted[d]
                                 /\ d \in granted => d \in granted'
  BY DEF scopeVars
<1>3. (\A p \in SyncPath : CacheOK(p))'
  BY QuietCache DEF PosInv, Moves
<1> QED
  BY <1>1, <1>2, <1>3, MovesKeeps

LEMMA GotoKeepMoves ==
  ASSUME PosInv, NEW c \in Client, NEW label \in Labels, NEW record,
         Goto(c, label), Keep(c, record), Quiet, DOMAIN cache' = SyncPath,
         pc[c] \notin {"writing", "written"}, label \notin {"writing", "written"}
  PROVE  Moves(c) /\ pc'[c] = label /\ mem'[c] = record
BY DEF Goto, Keep, Moves, PosInv, Shared

LEMMA GotoMoves ==
  ASSUME PosInv, NEW c \in Client, NEW label \in Labels,
         Goto(c, label), UNCHANGED mem, Quiet, DOMAIN cache' = SyncPath,
         pc[c] \notin {"writing", "written"}, label \notin {"writing", "written"}
  PROVE  Moves(c) /\ pc'[c] = label /\ mem'[c] = mem[c]
BY DEF Goto, Moves, PosInv, Shared

\* What PosInv says of one client, and the types it takes.
LEMMA ClientFacts ==
  ASSUME PosInv, NEW c \in Client
  PROVE  /\ Memory(c) /\ Asking(c) /\ Configuring(c) /\ Timed(c) /\ Frozen(c) /\ Held(c)
         /\ version \in Nat
         /\ pc[c] \in Labels
         /\ PathOf[c] \in SyncPath /\ FileOf[c] \subseteq File
         /\ rowAt[PathOf[c]] \in Place \cup {Gone}
         /\ Now(c) \in [FileOf[c] -> FileValue]
         /\ DOMAIN cache = SyncPath
BY PositionAssumption DEF PosInv, ClientInv, Shared, Now

LEMMA BeginKeeps ==
  ASSUME PosInv, NEW c \in Client, Begin(c)
  PROVE  PosInv'
<1> USE ClientFacts
<1>1. PICK x \in Target \cup {Gone} : Keep(c, [Empty EXCEPT !.target = x])
  BY DEF Begin
<1>2. Quiet /\ UNCHANGED <<scopeVars, cache>> /\ pc[c] = "idle" /\ Goto(c, First(c))
  BY DEF Begin, Quiet, posVars
<1>3. First(c) \in {"version", "row"} /\ (First(c) = "version" => Versioned(c))
  BY DEF First
<1>4. Moves(c) /\ pc'[c] = First(c) /\ mem'[c] = [Empty EXCEPT !.target = x]
  BY <1>1, <1>2, <1>3, GotoKeepMoves DEF Labels
<1>5. /\ DOMAIN mem'[c] = DOMAIN Empty
      /\ mem'[c].version = 0 /\ mem'[c].seen = 0 /\ mem'[c].again = FALSE
      /\ mem'[c].target \in Target \cup {Gone}
  BY <1>4 DEF Empty
<1>6. wanted'[c] = {}
  BY <1>2 DEF scopeVars, Asking, Memory, AtWork
<1>7. Memory(c)'
  <2>1. version' \in Nat /\ 0 \in Nat /\ 0 <= version' /\ FALSE \in BOOLEAN
    BY <1>2, SMT DEF Quiet
  <2> QED
    BY <1>3, <1>4, <1>5, <2>1 DEF Memory, Versioned
<1>8. Asking(c)' /\ Configuring(c)'
  BY <1>3, <1>4, <1>5, <1>6 DEF Asking, AtWork, Configuring
<1>9. Timed(c)' /\ Frozen(c)' /\ Held(c)'
  BY <1>3, <1>4, <1>5 DEF Timed, Frozen, Held, Holds
<1> QED
  BY <1>2, <1>4, <1>7, <1>8, <1>9, LocalKeeps DEF ClientInv

LEMMA ReadVersionKeeps ==
  ASSUME PosInv, NEW c \in Client, ReadVersion(c)
  PROVE  PosInv'
<1> USE ClientFacts
<1>1. Quiet /\ UNCHANGED <<scopeVars, cache>> /\ pc[c] = "version"
  BY DEF ReadVersion, Quiet, posVars
<1>2. Moves(c) /\ pc'[c] = "row" /\ mem'[c] = [mem[c] EXCEPT !.version = version]
  BY <1>1, GotoKeepMoves DEF ReadVersion, Labels
<1>3. /\ DOMAIN mem'[c] = DOMAIN Empty /\ mem'[c].version = version
      /\ mem'[c].seen = mem[c].seen /\ mem'[c].again = FALSE
      /\ mem'[c].target = mem[c].target
  BY <1>1, <1>2 DEF Memory, Empty
<1>4. wanted'[c] = {}
  BY <1>1 DEF scopeVars, Asking, Memory, AtWork
<1>5. Memory(c)'
  <2>1. version' = version /\ version <= version
    BY <1>1, SMT DEF Quiet
  <2> QED
    BY <1>2, <1>3, <2>1 DEF Memory
<1>6. Asking(c)' /\ Configuring(c)'
  BY <1>2, <1>3, <1>4 DEF Asking, AtWork, Configuring
<1>7. Timed(c)' /\ Frozen(c)' /\ Held(c)'
  BY <1>2, <1>3 DEF Timed, Frozen, Held, Holds
<1> QED
  BY <1>1, <1>2, <1>5, <1>6, <1>7, LocalKeeps DEF ClientInv

LEMMA GiveUpKeeps ==
  ASSUME PosInv, NEW c \in Client, GiveUp(c), pc[c] \notin {"writing", "written"}
  PROVE  PosInv'
BY LeaveKeeps DEF GiveUp

LEMMA RetryKeeps ==
  ASSUME PosInv, NEW c \in Client, Retry(c), pc[c] \notin {"writing", "written"}
  PROVE  PosInv'
BY LeaveKeeps DEF Retry

LEMMA ReadRowKeeps ==
  ASSUME PosInv, NEW c \in Client, ReadRow(c)
  PROVE  PosInv'
<1> USE ClientFacts
<1>0. CASE rowAt[PathOf[c]] = Gone
  BY <1>0, GiveUpKeeps DEF ReadRow
<1>a. SUFFICES ASSUME rowAt[PathOf[c]] # Gone
               PROVE  PosInv'
  BY <1>0
<1> DEFINE label == IF Versioned(c) THEN "lookup" ELSE "query"
           now == rowAt[PathOf[c]]
<1>1. /\ Quiet /\ UNCHANGED <<scopeVars, cache>> /\ pc[c] = "row" /\ Goto(c, label)
      /\ Keep(c, [mem[c] EXCEPT !.row = now])
  BY <1>a DEF ReadRow, Quiet, posVars
<1>2. Moves(c) /\ pc'[c] = label /\ mem'[c] = [mem[c] EXCEPT !.row = now]
  BY <1>1, GotoKeepMoves DEF Labels
<1>3. /\ DOMAIN mem'[c] = DOMAIN Empty /\ mem'[c].row = now
      /\ mem'[c].version = mem[c].version /\ mem'[c].seen = mem[c].seen
      /\ mem'[c].again = mem[c].again /\ mem'[c].target = mem[c].target
      /\ mem'[c].scopes = mem[c].scopes
  BY <1>2 DEF Memory, Empty
<1>4. now \in Place /\ rowAt'[PathOf[c]] = now /\ version' = version
  BY <1>1, <1>a DEF Quiet
<1>5. wanted' = wanted /\ granted' = granted
  BY <1>1 DEF scopeVars
<1>6. Memory(c)'
  BY <1>1, <1>2, <1>3, <1>4 DEF Memory, Versioned
<1>7. Asking(c)' /\ Configuring(c)'
  BY <1>1, <1>2, <1>3, <1>5, ZenonT(40) DEF Asking, AtWork, Configuring, Additional
<1>8. Timed(c)' /\ Frozen(c)' /\ Held(c)'
  BY <1>2, <1>3, <1>4 DEF Timed, Frozen, Held, Holds, Versioned
<1> QED
  BY <1>1, <1>2, <1>6, <1>7, <1>8, LocalKeeps DEF ClientInv

LEMMA OwnFiles ==
  ASSUME NEW c \in Client, AllFiles(c)
  PROVE  FileOf[c] = FilesOf(PathOf[c])
BY PositionAssumption DEF AllFiles, FilesOf

LEMMA LookUpKeeps ==
  ASSUME PosInv, NEW c \in Client, LookUp(c)
  PROVE  PosInv'
<1> USE ClientFacts
<1>1. Quiet /\ UNCHANGED <<scopeVars, cache>> /\ pc[c] = "lookup" /\ writers = 0
  BY DEF LookUp, Quiet, posVars
<1>2. wanted' = wanted /\ granted' = granted
  BY <1>1 DEF scopeVars
<1>3. version' = version /\ rowAt' = rowAt /\ fileAt' = fileAt /\ writers' = 0
  BY <1>1 DEF Quiet
<1>4. Versioned(c)
  BY <1>1 DEF Memory
<1>5. CASE CacheHit(c)
  <2> DEFINE found == cache[PathOf[c]].places
  <2>1. AfterRead(c) \in {"compare", "ask"} /\ (AfterRead(c) = "compare" <=> mem[c].again)
    BY DEF AfterRead
  <2>2. Moves(c) /\ pc'[c] = AfterRead(c) /\ mem'[c] = [mem[c] EXCEPT !.places = found]
    BY <1>1, <1>5, <2>1, GotoKeepMoves DEF LookUp, Labels
  <2>3. /\ DOMAIN mem'[c] = DOMAIN Empty /\ mem'[c].places = found
        /\ mem'[c].version = mem[c].version /\ mem'[c].seen = mem[c].seen
        /\ mem'[c].again = mem[c].again /\ mem'[c].target = mem[c].target
        /\ mem'[c].scopes = mem[c].scopes /\ mem'[c].row = mem[c].row
    BY <2>2 DEF Memory, Empty
  <2>4. found = Now(c)
    BY <1>5, OwnFiles DEF PosInv, CacheHit, CacheOK, Now
  <2>5. Memory(c)'
    BY <1>1, <1>3, <1>4, <2>1, <2>2, <2>3, <2>4 DEF Memory, Versioned
  <2>6. Asking(c)' /\ Configuring(c)'
    BY <1>1, <1>2, <2>1, <2>2, <2>3, ZenonT(40) DEF Asking, AtWork, Configuring, Additional
  <2>7. Timed(c)' /\ Frozen(c)' /\ Held(c)'
    BY <1>1, <1>3, <1>4, <2>1, <2>2, <2>3, <2>4 DEF Timed, Frozen, Held, Holds, Versioned, Now
  <2> QED
    BY <1>1, <2>2, <2>5, <2>6, <2>7, LocalKeeps DEF ClientInv
<1>6. CASE ~CacheHit(c)
  <2>2. Moves(c) /\ pc'[c] = "query" /\ mem'[c] = [mem[c] EXCEPT !.seen = version]
    BY <1>1, <1>6, GotoKeepMoves DEF LookUp, Labels
  <2>3. /\ DOMAIN mem'[c] = DOMAIN Empty /\ mem'[c].seen = version
        /\ mem'[c].version = mem[c].version
        /\ mem'[c].again = mem[c].again /\ mem'[c].target = mem[c].target
        /\ mem'[c].scopes = mem[c].scopes /\ mem'[c].row = mem[c].row
    BY <2>2 DEF Memory, Empty
  <2>4. version <= version
    BY SMT
  <2>5. Memory(c)'
    BY <1>1, <1>3, <1>4, <2>2, <2>3, <2>4 DEF Memory, Versioned
  <2>6. Asking(c)' /\ Configuring(c)'
    BY <1>1, <1>2, <2>2, <2>3, ZenonT(40) DEF Asking, AtWork, Configuring, Additional
  <2>7. Timed(c)' /\ Frozen(c)' /\ Held(c)'
    BY <1>1, <1>3, <1>4, <2>2, <2>3 DEF Timed, Frozen, Held, Holds, Versioned, Now
  <2> QED
    BY <1>1, <2>2, <2>5, <2>6, <2>7, LocalKeeps DEF ClientInv
<1> QED
  BY <1>5, <1>6

LEMMA QueryKeeps ==
  ASSUME PosInv, NEW c \in Client, Query(c)
  PROVE  PosInv'
<1> USE ClientFacts
<1> DEFINE label == IF Versioned(c) THEN "store" ELSE AfterRead(c)
<1>1. Quiet /\ UNCHANGED <<scopeVars, cache>> /\ pc[c] = "query"
  BY DEF Query, Quiet, posVars
<1>2. wanted' = wanted /\ granted' = granted
  BY <1>1 DEF scopeVars
<1>3. version' = version /\ rowAt' = rowAt /\ fileAt' = fileAt /\ writers' = writers
  BY <1>1 DEF Quiet
<1>4. /\ label \in {"store", "compare", "ask"}
      /\ label = "store" <=> Versioned(c)
      /\ label = "compare" => mem[c].again
      /\ label = "ask" => ~mem[c].again
  BY DEF AfterRead
<1>5. Moves(c) /\ pc'[c] = label /\ mem'[c] = [mem[c] EXCEPT !.places = Now(c)]
  <2>1. Goto(c, label) /\ Keep(c, [mem[c] EXCEPT !.places = Now(c)])
    BY DEF Query, Now
  <2> HIDE DEF label
  <2> QED
    BY <1>1, <1>4, <2>1, GotoKeepMoves DEF Labels
<1>6. /\ DOMAIN mem'[c] = DOMAIN Empty /\ mem'[c].places = Now(c)
      /\ mem'[c].version = mem[c].version /\ mem'[c].seen = mem[c].seen
      /\ mem'[c].again = mem[c].again /\ mem'[c].target = mem[c].target
      /\ mem'[c].scopes = mem[c].scopes /\ mem'[c].row = mem[c].row
  BY <1>5 DEF Memory, Empty
<1>7. Now(c)' = Now(c)
  BY <1>3 DEF Now
<1> HIDE DEF label
<1>8. Memory(c)'
  BY <1>1, <1>3, <1>4, <1>5, <1>6 DEF Memory, Versioned
<1>9. Asking(c)' /\ Configuring(c)'
  BY <1>1, <1>2, <1>4, <1>5, <1>6 DEF Asking, AtWork, Configuring, Additional
<1>10. Timed(c)' /\ Frozen(c)' /\ Held(c)'
  BY <1>1, <1>3, <1>4, <1>5, <1>6, <1>7 DEF Timed, Frozen, Held, Holds, Versioned
<1> QED
  BY <1>1, <1>5, <1>8, <1>9, <1>10, LocalKeeps DEF ClientInv

LEMMA StoreKeeps ==
  ASSUME PosInv, NEW c \in Client, Store(c)
  PROVE  PosInv'
<1> USE ClientFacts
<1> DEFINE label == IF Stable(c) THEN AfterRead(c) ELSE "lookup"
<1>1. Quiet /\ UNCHANGED scopeVars /\ pc[c] = "store" /\ DOMAIN cache' = SyncPath
  BY DEF Store, Quiet, posVars
<1>2. wanted' = wanted /\ granted' = granted
  BY <1>1 DEF scopeVars
<1>3. version' = version /\ rowAt' = rowAt /\ fileAt' = fileAt /\ writers' = writers
  BY <1>1 DEF Quiet
<1>4. /\ label \in {"lookup", "compare", "ask"}
      /\ label # "lookup" => Stable(c)
      /\ label = "compare" => mem[c].again
      /\ label = "ask" => ~mem[c].again
  BY DEF AfterRead
<1>5. Moves(c) /\ pc'[c] = label /\ mem'[c] = [mem[c] EXCEPT !.seen = 0]
  <2>1. Goto(c, label) /\ Keep(c, [mem[c] EXCEPT !.seen = 0])
    BY DEF Store
  <2> HIDE DEF label
  <2> QED
    BY <1>1, <1>4, <2>1, GotoKeepMoves DEF Labels
<1>6. /\ DOMAIN mem'[c] = DOMAIN Empty /\ mem'[c].places = mem[c].places
      /\ mem'[c].version = mem[c].version /\ mem'[c].seen = 0
      /\ mem'[c].again = mem[c].again /\ mem'[c].target = mem[c].target
      /\ mem'[c].scopes = mem[c].scopes /\ mem'[c].row = mem[c].row
  BY <1>5 DEF Memory, Empty
<1>7. Now(c)' = Now(c)
  BY <1>3 DEF Now
<1>8. Versioned(c) /\ mem[c].places \in [FileOf[c] -> FileValue]
  BY <1>1 DEF Memory
<1>9. Stable(c) => writers = 0 /\ mem[c].places = Now(c)
  BY <1>1, <1>8 DEF Stable, Timed
<1>10. (\A p \in SyncPath : CacheOK(p))'
  <2>1. CASE ~(Stable(c) /\ AllFiles(c))
    BY <2>1, <1>1, QuietCache DEF PosInv, Store
  <2>2. CASE Stable(c) /\ AllFiles(c)
    <3>1. cache' = [cache EXCEPT ![PathOf[c]] = Entry(c)]
      BY <2>2 DEF Store
    <3>2. ASSUME NEW p \in SyncPath, p # PathOf[c]
          PROVE  CacheOK(p)'
      <4>1. cache'[p] = cache[p] /\ CacheOK(p)
        BY <3>1, <3>2 DEF PosInv
      <4> QED
        BY <4>1, <1>3 DEF CacheOK
    <3>3. CacheOK(PathOf[c])'
      <4>1. /\ cache'[PathOf[c]].version = mem[c].seen
            /\ cache'[PathOf[c]].places = mem[c].places
        BY <3>1 DEF Entry
      <4>2. mem[c].seen \in Nat /\ mem[c].seen <= version
        BY DEF Memory
      <4>3. FileOf[c] = FilesOf(PathOf[c])
        BY <2>2, OwnFiles
      <4> QED
        BY <4>1, <4>2, <4>3, <1>3, <1>8, <1>9, <2>2 DEF CacheOK, Now
    <3> QED
      BY <3>2, <3>3
  <2> QED
    BY <2>1, <2>2
<1> HIDE DEF label
<1>11. Memory(c)'
  <2>1. 0 \in Nat /\ 0 <= version
    BY SMT
  <2> QED
    BY <1>1, <1>3, <1>4, <1>5, <1>6, <1>8, <2>1 DEF Memory, Versioned
<1>12. Asking(c)' /\ Configuring(c)'
  BY <1>1, <1>2, <1>4, <1>5, <1>6 DEF Asking, AtWork, Configuring, Additional
<1>13. Timed(c)' /\ Frozen(c)' /\ Held(c)'
  BY <1>1, <1>3, <1>4, <1>5, <1>6, <1>7, <1>8, <1>9 DEF Timed, Frozen, Held, Holds, Versioned
<1>14. [ScopeStep]_scopeVars
  BY <1>1
<1> QED
  BY <1>2, <1>5, <1>10, <1>11, <1>12, <1>13, <1>14, MovesKeeps DEF ClientInv

-----------------------------------------------------------------------------
(* Asking *)

LEMMA AskScopes ==
  ASSUME ScopeInv, NEW c \in Client, NEW S, Ask(c, S)
  PROVE  /\ wanted'[c] = Normalized(S)
         /\ \A d \in Client : d # c => /\ wanted'[d] = wanted[d]
                                       /\ d \in granted => d \in granted'
BY DEF Ask, Grant, ScopeInv

LEMMA AskScopeKeeps ==
  ASSUME PosInv, NEW c \in Client, AskScope(c)
  PROVE  PosInv'
<1> USE ClientFacts
<1> DEFINE S == ScopesRead(c) \cup Additional(c)
           asked == [mem[c] EXCEPT !.scopes = ScopesRead(c), !.waited = c \notin granted']
<1>0. pc[c] = "ask"
  BY DEF AskScope
<1>1. CASE ~SameVersion(c)
  BY <1>0, <1>1, RetryKeeps DEF AskScope
<1>2. CASE SameVersion(c)
  <2>1. Ask(c, S) /\ Keep(c, asked) /\ Goto(c, "wait") /\ UNCHANGED posVars
    BY <1>2 DEF AskScope
  <2>2. Quiet /\ UNCHANGED cache
    BY <2>1 DEF posVars, Quiet
  <2>3. version' = version /\ rowAt' = rowAt /\ fileAt' = fileAt /\ writers' = writers
    BY <2>2 DEF Quiet
  <2> HIDE DEF asked
  <2>4. Moves(c) /\ pc'[c] = "wait" /\ mem'[c] = asked
    BY <1>0, <2>1, <2>2, GotoKeepMoves DEF Labels
  <2> USE DEF asked
  <2>5. /\ DOMAIN mem'[c] = DOMAIN Empty /\ mem'[c].places = mem[c].places
        /\ mem'[c].version = mem[c].version /\ mem'[c].seen = mem[c].seen
        /\ mem'[c].again = FALSE /\ mem'[c].target = mem[c].target
        /\ mem'[c].scopes = ScopesRead(c) /\ mem'[c].row = mem[c].row
    BY <1>0, <2>4 DEF Memory, Empty
  <2>6. /\ wanted'[c] = Normalized(S)
        /\ \A d \in Client : d # c => /\ wanted'[d] = wanted[d]
                                      /\ d \in granted => d \in granted'
    BY <2>1, AskScopes DEF PosInv
  <2>7. mem[c].row \in Place /\ mem[c].places \in [FileOf[c] -> FileValue]
    BY <1>0 DEF Memory
  <2>8. Memory(c)'
    BY <2>3, <2>4, <2>5, <2>7 DEF Memory
  <2>9. ScopesRead(c)' = ScopesRead(c) /\ Additional(c)' = Additional(c)
    BY <2>5 DEF ScopesRead, Additional
  <2>10. Asking(c)'
    BY <2>4, <2>5, <2>6, <2>9 DEF Asking, AtWork
  <2>11. Configuring(c)'
    <3>1. Configured(Normalized(S), c)
      BY <2>7, ReadIsConfigured
    <3> QED
      BY <2>6, <3>1 DEF Configuring, Configured
  <2>12. Timed(c)' /\ Frozen(c)' /\ Held(c)'
    BY <1>0, <2>3, <2>4, <2>5 DEF Timed, Frozen, Held, Holds, Versioned, Now
  <2>13. [ScopeStep]_scopeVars
    BY <2>1 DEF ScopeStep
  <2>14. (\A p \in SyncPath : CacheOK(p))'
    BY <2>2, QuietCache DEF PosInv
  <2> QED
    BY <2>4, <2>6, <2>8, <2>10, <2>11, <2>12, <2>13, <2>14, MovesKeeps DEF ClientInv
<1> QED
  BY <1>1, <1>2

LEMMA ConfirmKeeps ==
  ASSUME PosInv, NEW c \in Client, Confirm(c)
  PROVE  PosInv'
<1> USE ClientFacts
<1>1. pc[c] = "wait" /\ c \in granted
  BY DEF Confirm
<1>2. CASE Retry(c)
  BY <1>1, <1>2, RetryKeeps
<1>3. CASE Goto(c, "fresh") /\ UNCHANGED <<scopeVars, posVars, mem>>
  <2>1. Quiet /\ UNCHANGED <<scopeVars, cache, mem>>
    BY <1>3 DEF posVars, Quiet
  <2>2. version' = version /\ rowAt' = rowAt /\ fileAt' = fileAt /\ writers' = writers
    BY <2>1 DEF Quiet
  <2>3. Moves(c) /\ pc'[c] = "fresh" /\ mem'[c] = mem[c]
    BY <1>1, <1>3, <2>1, GotoMoves DEF Labels
  <2>4. wanted' = wanted /\ granted' = granted
    BY <2>1 DEF scopeVars
  <2>5. Memory(c)' /\ Configuring(c)'
    BY <1>1, <2>2, <2>3, <2>4 DEF Memory, Versioned, Configuring
  <2>6. Asking(c)'
    BY <1>1, <2>3, <2>4 DEF Asking, AtWork, ScopesRead, Additional
  <2>7. Timed(c)' /\ Frozen(c)' /\ Held(c)'
    BY <1>1, <2>2, <2>3 DEF Timed, Frozen, Held, Holds, Versioned, Now
  <2> QED
    BY <2>1, <2>3, <2>5, <2>6, <2>7, LocalKeeps DEF ClientInv
<1> QED
  BY <1>2, <1>3 DEF Confirm

LEMMA FreshKeeps ==
  ASSUME PosInv, NEW c \in Client, Fresh(c)
  PROVE  PosInv'
<1> USE ClientFacts
<1> DEFINE label == IF ReadsAgain(c) THEN "row" ELSE "last"
<1>1. pc[c] = "fresh"
  BY DEF Fresh
<1>2. CASE GiveUp(c) \/ Retry(c)
  BY <1>1, <1>2, GiveUpKeeps, RetryKeeps
<1>3. CASE /\ rowAt[PathOf[c]] = mem[c].row
           /\ Keep(c, [mem[c] EXCEPT !.again = TRUE])
           /\ Goto(c, label)
           /\ UNCHANGED <<scopeVars, posVars>>
  <2>1. Quiet /\ UNCHANGED <<scopeVars, cache>>
    BY <1>3 DEF posVars, Quiet
  <2>2. version' = version /\ rowAt' = rowAt /\ fileAt' = fileAt /\ writers' = writers
    BY <2>1 DEF Quiet
  <2>3. label \in {"row", "last"} /\ (Kind[c] = "scrape" => label = "row")
    BY DEF ReadsAgain, AllFiles
  <2> HIDE DEF label
  <2>4. Moves(c) /\ pc'[c] = label /\ mem'[c] = [mem[c] EXCEPT !.again = TRUE]
    BY <1>1, <1>3, <2>1, <2>3, GotoKeepMoves DEF Labels
  <2>5. /\ DOMAIN mem'[c] = DOMAIN Empty /\ mem'[c].places = mem[c].places
        /\ mem'[c].version = mem[c].version /\ mem'[c].seen = mem[c].seen
        /\ mem'[c].again = TRUE /\ mem'[c].target = mem[c].target
        /\ mem'[c].scopes = mem[c].scopes /\ mem'[c].row = mem[c].row
    BY <2>4 DEF Memory, Empty
  <2>6. wanted' = wanted /\ granted' = granted
    BY <2>1 DEF scopeVars
  <2>7. Memory(c)' /\ Configuring(c)'
    BY <1>1, <2>2, <2>3, <2>4, <2>5, <2>6 DEF Memory, Versioned, Configuring
  <2>8. Asking(c)'
    BY <1>1, <2>3, <2>4, <2>5, <2>6, ZenonT(40) DEF Asking, AtWork, ScopesRead, Additional
  <2>9. Timed(c)' /\ Frozen(c)' /\ Held(c)'
    BY <1>1, <2>2, <2>3, <2>4, <2>5 DEF Timed, Frozen, Held, Holds, Versioned, Now
  <2> QED
    BY <2>1, <2>4, <2>7, <2>8, <2>9, LocalKeeps DEF ClientInv
<1> QED
  BY <1>2, <1>3 DEF Fresh

LEMMA CompareKeeps ==
  ASSUME PosInv, NEW c \in Client, Compare(c)
  PROVE  PosInv'
<1> USE ClientFacts
<1>1. pc[c] = "compare"
  BY DEF Compare
<1>2. CASE Retry(c)
  BY <1>1, <1>2, RetryKeeps
<1>3. CASE /\ ScopesRead(c) = mem[c].scopes
           /\ Goto(c, "last")
           /\ UNCHANGED <<scopeVars, posVars, mem>>
  <2>1. Quiet /\ UNCHANGED <<scopeVars, cache, mem>>
    BY <1>3 DEF posVars, Quiet
  <2>2. version' = version /\ rowAt' = rowAt /\ fileAt' = fileAt /\ writers' = writers
    BY <2>1 DEF Quiet
  <2>3. Moves(c) /\ pc'[c] = "last" /\ mem'[c] = mem[c]
    BY <1>1, <1>3, <2>1, GotoMoves DEF Labels
  <2>4. wanted' = wanted /\ granted' = granted
    BY <2>1 DEF scopeVars
  <2>5. Memory(c)' /\ Configuring(c)'
    BY <1>1, <2>2, <2>3, <2>4 DEF Memory, Versioned, Configuring
  <2>6. Asking(c)'
    BY <1>1, <1>3, <2>3, <2>4 DEF Asking, AtWork, ScopesRead, Additional
  <2>7. Timed(c)' /\ Frozen(c)' /\ Held(c)'
    BY <1>1, <2>2, <2>3 DEF Timed, Frozen, Held, Holds, Versioned, Now
  <2> QED
    BY <2>1, <2>3, <2>5, <2>6, <2>7, LocalKeeps DEF ClientInv
<1> QED
  BY <1>2, <1>3 DEF Compare

\* The last look finds what was read still true, so the scopes cover the table.
LEMMA LastLookKeeps ==
  ASSUME PosInv, NEW c \in Client, LastLook(c)
  PROVE  PosInv'
<1> USE ClientFacts
<1>1. pc[c] = "last"
  BY DEF LastLook
<1>2. CASE Retry(c)
  BY <1>1, <1>2, RetryKeeps
<1>3. CASE /\ SameVersion(c)
           /\ Goto(c, "held")
           /\ Keep(c, [Empty EXCEPT !.target = mem[c].target])
           /\ UNCHANGED <<scopeVars, posVars>>
  <2>1. Quiet /\ UNCHANGED <<scopeVars, cache>>
    BY <1>3 DEF posVars, Quiet
  <2>2. version' = version /\ rowAt' = rowAt /\ fileAt' = fileAt /\ writers' = writers
    BY <2>1 DEF Quiet
  <2>3. Moves(c) /\ pc'[c] = "held" /\ mem'[c] = [Empty EXCEPT !.target = mem[c].target]
    BY <1>1, <1>3, <2>1, GotoKeepMoves DEF Labels
  <2>4. /\ DOMAIN mem'[c] = DOMAIN Empty
        /\ mem'[c].version = 0 /\ mem'[c].seen = 0 /\ mem'[c].again = FALSE
        /\ mem'[c].target = mem[c].target
    BY <2>3 DEF Empty
  <2>5. wanted' = wanted /\ granted' = granted
    BY <2>1 DEF scopeVars
  <2>6. mem[c].row \in Place /\ mem[c].places \in [FileOf[c] -> FileValue] /\ mem[c].again
        /\ mem[c].target \in Target \cup {Gone}
    BY <1>1 DEF Memory
  <2>7. mem[c].row = rowAt[PathOf[c]] /\ mem[c].places = Now(c)
    <3>1. CASE Versioned(c)
      BY <1>1, <1>3, <3>1 DEF Timed, SameVersion
    <3>2. CASE ~Versioned(c)
      BY <1>1, <2>6, <3>2 DEF Frozen, Versioned
    <3> QED
      BY <3>1, <3>2
  <2>8. wanted[c] = Normalized(ScopesRead(c) \cup Additional(c)) /\ c \in granted
    BY <1>1 DEF Asking
  <2>9. /\ CoversNow(wanted[c], c)
        /\ Kind[c] = "edit" /\ mem[c].target # Gone =>
             \E s \in wanted[c] : Covers(s, mem[c].target)
    BY <2>6, <2>7, <2>8, AskedCoversNow
  <2>10. Held(c)'
    <3>1. CoversNow(wanted[c], c)'
      BY <2>2, <2>5, <2>9 DEF CoversNow
    <3>2. rowAt'[PathOf[c]] # Gone
      BY <2>2, <2>6, <2>7, PositionAssumption
    <3> QED
      BY <2>3, <2>4, <2>5, <2>9, <3>1, <3>2 DEF Held
  <2>11. Memory(c)'
    <3>1. version' \in Nat /\ 0 \in Nat /\ 0 <= version' /\ FALSE \in BOOLEAN
      BY <2>2, SMT
    <3> QED
      BY <2>3, <2>4, <2>6, <3>1 DEF Memory
  <2>12. Asking(c)' /\ Configuring(c)'
    BY <2>3, <2>4, <2>5, <2>8 DEF Asking, AtWork, Configuring
  <2>13. Timed(c)' /\ Frozen(c)'
    BY <2>3, <2>4 DEF Timed, Frozen
  <2> QED
    BY <2>1, <2>3, <2>10, <2>11, <2>12, <2>13, LocalKeeps DEF ClientInv
<1> QED
  BY <1>2, <1>3 DEF LastLook

-----------------------------------------------------------------------------
(* Writing *)

\* Where the version moves on, what was read before counts no longer.
LEMMA VersionMovesOn ==
  ASSUME Shared, version' = version + 1, UNCHANGED <<scopeVars, rowAt, fileAt>>,
         NEW d \in Client, ClientInv(d), mem'[d] = mem[d],
         \/ pc'[d] = pc[d]
         \/ pc[d] = "held" /\ pc'[d] = "writing" /\ Kind[d] # "scrape"
         \/ pc[d] = "written" /\ pc'[d] \in {"held", "done"}
  PROVE  ClientInv(d)'
<1>1. version \in Nat /\ wanted' = wanted /\ granted' = granted
      /\ rowAt' = rowAt /\ fileAt' = fileAt
  BY DEF Shared, scopeVars
<1>2. \A n \in Nat : n <= version => n <= version' /\ n # version'
  BY <1>1
<1>3. Memory(d)'
  BY <1>2 DEF ClientInv, Memory, Versioned
<1>4. Asking(d)' /\ Configuring(d)'
  BY <1>1 DEF ClientInv, Asking, AtWork, Configuring, ScopesRead, Additional, Memory
<1>5. mem[d].version # version' /\ mem[d].seen # version'
  BY <1>2 DEF ClientInv, Memory
<1>6. Timed(d)'
  BY <1>5 DEF Timed
<1>7. Frozen(d)'
  BY <1>1 DEF ClientInv, Frozen, Memory, Now
<1>8. Held(d)'
  BY <1>1 DEF ClientInv, Held, Holds, CoversNow, Now
<1> QED
  BY <1>3, <1>4, <1>6, <1>7, <1>8 DEF ClientInv

LEMMA WritingFinite ==
  IsFiniteSet(Writing) /\ Cardinality(Writing) \in Nat
BY FS_Subset, FS_CardinalityType, PositionAssumption DEF Writing

LEMMA BeginMutationKeeps ==
  ASSUME PosInv, NEW c \in Client, BeginMutation(c)
  PROVE  PosInv'
<1> USE ClientFacts
<1>1. /\ pc[c] = "held" /\ Kind[c] # "scrape"
      /\ version' = version + 1 /\ writers' = writers + 1
      /\ cache' = [p \in SyncPath |-> NoEntry] /\ mutations' = mutations + 1
      /\ Goto(c, "writing")
      /\ UNCHANGED <<scopeVars, rowAt, fileAt, mem>>
  BY DEF BeginMutation
<1>2. pc' = [pc EXCEPT ![c] = "writing"] /\ pc'[c] = "writing"
  BY <1>1 DEF Goto, PosInv, Shared
<1>3. ScopeInv'
  BY <1>1, ScopeStepKeeps DEF PosInv
<1>4. Shared'
  <2>1. Writing' = Writing \cup {c} /\ c \notin Writing
    BY <1>1, <1>2 DEF Writing, PosInv, Shared
  <2>2. Cardinality(Writing') = Cardinality(Writing) + 1
    BY <2>1, WritingFinite, FS_AddElement
  <2>3. writers = Cardinality(Writing) /\ version = 2 * mutations - writers
        /\ mutations \in Nat
    BY DEF PosInv, Shared
  <2>4. version' = 2 * mutations' - writers' /\ version' \in Nat /\ mutations' \in Nat
    BY <1>1, <2>3, WritingFinite
  <2>5. writers' = Cardinality(Writing')
    BY <1>1, <2>2, <2>3
  <2>6. pc' \in [Client -> Labels]
    BY <1>2 DEF PosInv, Shared, Labels
  <2> QED
    BY <1>1, <2>4, <2>5, <2>6 DEF PosInv, Shared
<1>5. ASSUME NEW p \in SyncPath
      PROVE  CacheOK(p)'
  BY <1>1 DEF CacheOK
<1>6. ASSUME NEW d \in Client
      PROVE  ClientInv(d)'
  <2>1. d # c => pc'[d] = pc[d]
    BY <1>2 DEF PosInv, Shared
  <2> QED
    BY <1>1, <1>2, <2>1, VersionMovesOn DEF PosInv
<1> QED
  BY <1>3, <1>4, <1>5, <1>6 DEF PosInv

LEMMA FinishMutationKeeps ==
  ASSUME PosInv, NEW c \in Client, FinishMutation(c)
  PROVE  PosInv'
<1> USE ClientFacts
<1> DEFINE label == IF Kind[c] = "edit" THEN "done" ELSE "held"
<1>1. /\ pc[c] = "written"
      /\ version' = version + 1 /\ writers' = writers - 1
      /\ Goto(c, label) /\ label \in {"held", "done"}
      /\ UNCHANGED <<scopeVars, rowAt, fileAt, cache, mutations, mem>>
  BY DEF FinishMutation
<1> HIDE DEF label
<1>2. pc' = [pc EXCEPT ![c] = label] /\ pc'[c] = label
  BY <1>1 DEF Goto, PosInv, Shared
<1>3. ScopeInv'
  BY <1>1, ScopeStepKeeps DEF PosInv
<1>4. Shared'
  <2>1. Writing' = Writing \ {c} /\ c \in Writing
    BY <1>1, <1>2 DEF Writing, PosInv, Shared
  <2>2. Cardinality(Writing') = Cardinality(Writing) - 1
    BY <2>1, WritingFinite, FS_RemoveElement
  <2>3. writers = Cardinality(Writing) /\ version = 2 * mutations - writers
        /\ mutations \in Nat
    BY DEF PosInv, Shared
  <2>4. version' = 2 * mutations' - writers' /\ version' \in Nat
    BY <1>1, <2>3, WritingFinite
  <2>5. writers' = Cardinality(Writing')
    BY <1>1, <2>2, <2>3
  <2>6. pc' \in [Client -> Labels]
    BY <1>1, <1>2 DEF PosInv, Shared, Labels
  <2> QED
    BY <1>1, <2>3, <2>4, <2>5, <2>6 DEF PosInv, Shared
<1>5. ASSUME NEW p \in SyncPath
      PROVE  CacheOK(p)'
  <2>1. CacheOK(p) /\ cache'[p] = cache[p] /\ version \in Nat /\ version' = version + 1
    BY <1>1 DEF PosInv
  <2>2. \A n \in Nat : n <= version => n <= version' /\ n # version'
    BY <2>1
  <2> QED
    BY <2>1, <2>2 DEF CacheOK
<1>6. ASSUME NEW d \in Client
      PROVE  ClientInv(d)'
  <2>1. d # c => pc'[d] = pc[d]
    BY <1>2 DEF PosInv, Shared
  <2> QED
    BY <1>1, <1>2, <2>1, VersionMovesOn DEF PosInv
<1> QED
  BY <1>3, <1>4, <1>5, <1>6 DEF PosInv

\* A commit changes the rows of one sync path, to places its holder covers.
Rewrites(c) ==
  /\ \A p \in SyncPath : p # PathOf[c] => rowAt'[p] = rowAt[p]
  /\ \A f \in File : PathOf[f] # PathOf[c] => fileAt'[f] = fileAt[f]
  /\ rowAt'[PathOf[c]] \in {rowAt[PathOf[c]]}
       \cup (IF Kind[c] = "edit" THEN {mem[c].target} ELSE {})
  /\ \A f \in File : fileAt'[f] \in {fileAt[f], None}
       \cup (IF Kind[c] = "edit" THEN {} ELSE {rowAt[PathOf[c]]})

LEMMA CommitRewrites ==
  ASSUME PosInv, NEW c \in Client, Commit(c)
  PROVE  /\ Rewrites(c)
         /\ rowAt' \in [SyncPath -> Place \cup {Gone}]
         /\ fileAt' \in [File -> FileValue]
<1> USE ClientFacts
<1>1. /\ rowAt \in [SyncPath -> Place \cup {Gone}] /\ fileAt \in [File -> FileValue]
      /\ mem[c].target \in Place \cup {Gone}
  BY PositionAssumption DEF PosInv, Shared, Memory
<1>2. pc[c] = "writing"
  BY DEF Commit
<1>3. Kind[c] = "edit" \/ rowAt[PathOf[c]] \in Place
  BY <1>1, <1>2 DEF Held, Holds
<1>4. CASE UNCHANGED <<rowAt, fileAt>>
  BY <1>1, <1>4 DEF Rewrites
<1>5. CASE Kind[c] \in {"sync", "file"} /\ Saves(c)
  <2>1. PICK f \in FileOf[c], x \in {rowAt[PathOf[c]], None} :
          fileAt' = [fileAt EXCEPT ![f] = x] /\ rowAt' = rowAt
    BY <1>5 DEF Saves
  <2>2. PathOf[f] = PathOf[c] /\ x \in FileValue
    BY <1>3, <1>5, PositionAssumption DEF FileValue
  <2> QED
    BY <1>1, <1>5, <2>1, <2>2 DEF Rewrites
<1>6. CASE Kind[c] = "edit" /\ Saves(c)
  <2>1. rowAt' = [rowAt EXCEPT ![PathOf[c]] = mem[c].target]
    BY <1>6 DEF Saves
  <2>2. \/ fileAt' = [f \in File |-> IF PathOf[f] = PathOf[c] THEN None ELSE fileAt[f]]
        \/ fileAt' = fileAt
    BY <1>6 DEF Saves
  <2>3. rowAt' \in [SyncPath -> Place \cup {Gone}]
    BY <1>1, <2>1
  <2>4. fileAt' \in [File -> FileValue]
    BY <1>1, <2>2 DEF FileValue
  <2>5. \A f \in File : fileAt'[f] \in {fileAt[f], None}
    BY <2>2
  <2>6. \A f \in File : PathOf[f] # PathOf[c] => fileAt'[f] = fileAt[f]
    BY <2>2
  <2>7. /\ \A p \in SyncPath : p # PathOf[c] => rowAt'[p] = rowAt[p]
        /\ rowAt'[PathOf[c]] = mem[c].target
    BY <1>1, <2>1
  <2> QED
    BY <1>6, <2>3, <2>4, <2>5, <2>6, <2>7 DEF Rewrites
<1>7. Saves(c) => Kind[c] \in {"sync", "file", "edit"}
  BY DEF Saves
<1> QED
  BY <1>4, <1>5, <1>6, <1>7 DEF Commit

LEMMA CommitKeeps ==
  ASSUME PosInv, NEW c \in Client, Commit(c)
  PROVE  PosInv'
<1> USE ClientFacts
<1>1. /\ pc[c] = "writing" /\ Goto(c, "written")
      /\ UNCHANGED <<scopeVars, version, writers, cache, mutations, mem>>
  BY DEF Commit
<1>2. pc' = [pc EXCEPT ![c] = "written"] /\ pc'[c] = "written"
  BY <1>1 DEF Goto, PosInv, Shared
<1>3. /\ Rewrites(c)
      /\ rowAt' \in [SyncPath -> Place \cup {Gone}]
      /\ fileAt' \in [File -> FileValue]
  BY CommitRewrites
<1>4. Kind[c] # "scrape" /\ c \in granted
  BY <1>1 DEF Held, Holds, Asking, AtWork
<1>5. writers # 0
  <2>1. c \in Writing /\ writers = Cardinality(Writing)
    BY <1>1 DEF Writing, PosInv, Shared
  <2> QED
    BY <2>1, WritingFinite, FS_EmptySet
<1>6. ScopeInv'
  BY <1>1, ScopeStepKeeps DEF PosInv
<1>7. Shared'
  <2>1. Writing' = Writing
    BY <1>1, <1>2 DEF Writing, PosInv, Shared
  <2>2. pc' \in [Client -> Labels]
    BY <1>2 DEF PosInv, Shared, Labels
  <2> QED
    BY <1>1, <1>3, <2>1, <2>2 DEF PosInv, Shared
<1>8. ASSUME NEW p \in SyncPath
      PROVE  CacheOK(p)'
  BY <1>1, <1>5 DEF PosInv, CacheOK
<1>9. ASSUME NEW d \in Client
      PROVE  Memory(d)' /\ Asking(d)' /\ Configuring(d)' /\ Timed(d)'
  <2>1. Memory(d) /\ Asking(d) /\ Configuring(d) /\ Timed(d)
    OBVIOUS
  <2>2. mem'[d] = mem[d] /\ wanted' = wanted /\ granted' = granted
        /\ version' = version /\ writers' = writers
    BY <1>1 DEF scopeVars
  <2>3. pc'[d] = pc[d] \/ (pc[d] = "writing" /\ pc'[d] = "written")
    BY <1>1, <1>2 DEF PosInv, Shared
  <2>4. Memory(d)'
    BY <2>1, <2>2, <2>3 DEF Memory, Versioned
  <2>5. Asking(d)' /\ Configuring(d)'
    BY <2>1, <2>2, <2>3 DEF Asking, AtWork, Configuring, ScopesRead, Additional
  <2>6. Timed(d)'
    BY <1>5, <2>1, <2>2, <2>3 DEF Timed, Versioned, Memory
  <2> QED
    BY <2>4, <2>5, <2>6
<1>10. ASSUME NEW d \in Client, d # c
       PROVE  Frozen(d)' /\ Held(d)'
  <2>1. pc'[d] = pc[d] /\ mem'[d] = mem[d] /\ wanted' = wanted
    BY <1>1, <1>2, <1>10 DEF PosInv, Shared, scopeVars
  <2>2. CASE d \in granted
    <3>1. PathOf[d] # PathOf[c]
      BY <1>4, <1>10, <2>2, OnePathOneWriter DEF PosInv
    <3>2. rowAt'[PathOf[d]] = rowAt[PathOf[d]]
      BY <1>3, <3>1 DEF Rewrites
    <3>3. \A f \in FileOf[d] : PathOf[f] = PathOf[d]
      BY PositionAssumption
    <3>4. \A f \in FileOf[d] : fileAt'[f] = fileAt[f]
      BY <1>3, <3>1, <3>3 DEF Rewrites
    <3>5. Now(d)' = Now(d)
      BY <3>4 DEF Now
    <3>6. Frozen(d)'
      BY <2>1, <3>2, <3>5 DEF Frozen
    <3>7. Held(d)'
      BY <2>1, <3>2, <3>4 DEF Held, Holds, CoversNow
    <3> QED
      BY <3>6, <3>7
  <2>3. CASE d \notin granted
    BY <2>1, <2>3 DEF Frozen, Held, Holds, Asking, AtWork
  <2> QED
    BY <2>2, <2>3
<1>11. Frozen(c)' /\ Held(c)'
  <2>1. mem'[c] = mem[c] /\ wanted' = wanted
    BY <1>1 DEF scopeVars
  <2>2. /\ CoversNow(wanted[c], c)
        /\ Kind[c] = "edit" /\ mem[c].target # Gone =>
             \E s \in wanted[c] : Covers(s, mem[c].target)
        /\ Kind[c] = "edit" \/ rowAt[PathOf[c]] # Gone
    BY <1>1 DEF Held, Holds
  <2>3. rowAt'[PathOf[c]] # Gone => \E s \in wanted[c] : Covers(s, rowAt'[PathOf[c]])
    BY <1>3, <2>2 DEF CoversNow, Rewrites
  <2>4. ASSUME NEW f \in FileOf[c]
        PROVE  /\ fileAt'[f] \in Place => \E s \in wanted[c] : Covers(s, fileAt'[f])
               /\ fileAt'[f] = Blank => Global \in wanted[c]
    <3>1. fileAt'[f] \in {fileAt[f], None}
            \cup (IF Kind[c] = "edit" THEN {} ELSE {rowAt[PathOf[c]]})
      BY <1>3 DEF Rewrites
    <3>2. None \notin Place /\ None # Blank /\ rowAt[PathOf[c]] # Blank
      BY PositionAssumption
    <3> QED
      BY <2>2, <3>1, <3>2 DEF CoversNow
  <2>5. CoversNow(wanted[c], c)'
    BY <2>1, <2>3, <2>4 DEF CoversNow
  <2>6. Kind[c] = "edit" \/ rowAt'[PathOf[c]] # Gone
    BY <1>3, <2>2 DEF Rewrites
  <2>7. Held(c)'
    BY <1>4, <2>1, <2>2, <2>5, <2>6 DEF Held
  <2>8. Frozen(c)'
    BY <1>4 DEF Frozen
  <2> QED
    BY <2>7, <2>8
<1> QED
  BY <1>6, <1>7, <1>8, <1>9, <1>10, <1>11 DEF PosInv, ClientInv

-----------------------------------------------------------------------------
(* The specification *)

LEMMA PosInit ==
  ASSUME Init
  PROVE  PosInv
<1>1. ScopeInv
  BY ScopeInit DEF Init
<1>2. Writing = {}
  BY DEF Init, Writing
<1>3. Shared
  <2>1. Cardinality(Writing) = 0
    BY <1>2, FS_EmptySet
  <2> QED
    BY <2>1, PositionAssumption DEF Init, Shared, Labels, FileValue
<1>4. \A p \in SyncPath : CacheOK(p)
  BY DEF Init, CacheOK
<1>5. ASSUME NEW c \in Client
      PROVE  ClientInv(c)
  <2>1. pc[c] = "idle" /\ mem[c] = Empty /\ wanted[c] = {} /\ version = 0
    BY DEF Init, InitScope
  <2>2. /\ Empty.version = 0 /\ Empty.seen = 0 /\ Empty.again = FALSE
        /\ Empty.target = Gone
    BY DEF Empty
  <2>3. 0 \in Nat /\ 0 <= 0 /\ FALSE \in BOOLEAN
    BY SMT
  <2> HIDE DEF Empty
  <2>4. Memory(c)
    BY <2>1, <2>2, <2>3 DEF Memory
  <2>5. Asking(c) /\ Configuring(c) /\ Timed(c) /\ Frozen(c) /\ Held(c)
    BY <2>1, <2>2 DEF Asking, AtWork, Configuring, Timed, Frozen, Held, Holds
  <2> QED
    BY <2>4, <2>5 DEF ClientInv
<1> QED
  BY <1>1, <1>3, <1>4, <1>5 DEF PosInv

LEMMA StutterKeeps ==
  ASSUME PosInv, UNCHANGED vars
  PROVE  PosInv'
<1>1. Quiet /\ UNCHANGED <<scopeVars, cache, pc, mem>>
  BY DEF vars, posVars, Quiet
<1>2. ScopeInv'
  BY <1>1, ScopeStepKeeps DEF PosInv
<1>3. Shared'
  <2>1. Writing' = Writing
    BY <1>1 DEF Writing
  <2> QED
    BY <1>1, <2>1 DEF PosInv, Shared, Quiet
<1>4. (\A p \in SyncPath : CacheOK(p))'
  BY <1>1, QuietCache DEF PosInv
<1>5. ASSUME NEW d \in Client
      PROVE  ClientInv(d)'
  <2>1. Quiet /\ ClientInv(d) /\ pc' = pc /\ mem' = mem /\ wanted' = wanted /\ granted' = granted
    BY <1>1 DEF PosInv, scopeVars
  <2>2. Memory(d)' /\ Configuring(d)'
    BY <2>1 DEF ClientInv, Memory, Configuring, Quiet, Versioned, AtWork
  <2>3. Asking(d)'
    BY <2>1 DEF ClientInv, Asking, AtWork, Additional, ScopesRead
  <2>4. Timed(d)'
    BY <2>1 DEF ClientInv, Timed, Quiet, Versioned, Now
  <2>5. Frozen(d)' /\ Held(d)'
    BY <2>1 DEF ClientInv, Frozen, Held, Quiet, Now, Holds, CoversNow
  <2> QED
    BY <2>2, <2>3, <2>4, <2>5 DEF ClientInv
<1> QED
  BY <1>2, <1>3, <1>4, <1>5 DEF PosInv

LEMMA PosNext ==
  ASSUME PosInv, [Next]_vars
  PROVE  PosInv'
<1>1. CASE UNCHANGED vars
  BY <1>1, StutterKeeps
<1>2. CASE Next
  <2>1. PICK c \in Client : Begin(c) \/ Proceed(c) \/ BeginMutation(c) \/ Cancel(c)
    BY <1>2 DEF Next
  <2>2. Release(c) => PosInv'
    BY GiveUpKeeps DEF Release
  <2>3. Cancel(c) => PosInv'
    BY GiveUpKeeps DEF Cancel
  <2>4. Proceed(c) => PosInv'
    BY <2>2, ReadVersionKeeps, ReadRowKeeps, LookUpKeeps, QueryKeeps, StoreKeeps,
       AskScopeKeeps, ConfirmKeeps, FreshKeeps, CompareKeeps, LastLookKeeps,
       CommitKeeps, FinishMutationKeeps DEF Proceed
  <2> QED
    BY <2>1, <2>3, <2>4, BeginKeeps, BeginMutationKeeps
<1> QED
  BY <1>1, <1>2

LEMMA PositionInvariant == Spec => []PosInv
<1>1. Init => PosInv
  BY PosInit
<1>2. PosInv /\ [Next]_vars => PosInv'
  BY PosNext
<1> QED
  BY <1>1, <1>2, PTL DEF Spec

LEMMA PosInvCurrent == PosInv => HeldIsCurrent
<1> SUFFICES ASSUME PosInv, NEW c \in Client, Holds(c)
             PROVE  /\ \A x \in Touched(c) : \E s \in wanted[c] : Covers(s, x)
                    /\ \A f \in FileOf[c] : fileAt[f] = Blank => Global \in wanted[c]
  BY DEF HeldIsCurrent
<1>1. /\ CoversNow(wanted[c], c)
      /\ Kind[c] = "edit" /\ mem[c].target # Gone =>
           \E s \in wanted[c] : Covers(s, mem[c].target)
  BY ClientFacts DEF Held
<1>2. ASSUME NEW f \in FileOf[c], fileAt[f] \notin {None, Blank, Gone}
      PROVE  fileAt[f] \in Place
  BY <1>2, PositionAssumption DEF PosInv, Shared, FileValue
<1>3. ASSUME NEW x \in Touched(c)
      PROVE  \E s \in wanted[c] : Covers(s, x)
  <2>1. CASE x = rowAt[PathOf[c]]
    BY <1>1, <1>3, <2>1 DEF CoversNow, Touched
  <2>2. CASE \E f \in FileOf[c] : x = fileAt[f]
    BY <1>1, <1>2, <1>3, <2>2 DEF CoversNow, Touched
  <2>3. CASE Kind[c] = "edit" /\ x = mem[c].target
    BY <1>1, <1>3, <2>3 DEF Touched
  <2> QED
    BY <1>3, <2>1, <2>2, <2>3 DEF Touched
<1> QED
  BY <1>1, <1>3 DEF CoversNow

LEMMA PosInvCache == PosInv => CacheIsTrue
<1> SUFFICES ASSUME PosInv, NEW p \in SyncPath,
                    cache[p] # NoEntry, cache[p].version = version,
                    NEW f \in DOMAIN cache[p].places
             PROVE  cache[p].places[f] = fileAt[f]
  BY DEF CacheIsTrue
<1>1. cache[p].places = [g \in FilesOf(p) |-> fileAt[g]]
  BY DEF PosInv, CacheOK
<1> QED
  BY <1>1

\* Whatever a client works under covers the table as it is now: its directory,
\* the places its records name and the place it is moving to.
THEOREM HeldCurrent == Spec => []HeldIsCurrent
BY PositionInvariant, PosInvCurrent, PTL

\* The cache of places hands out nothing the table does not hold.
THEOREM CacheTrue == Spec => []CacheIsTrue
BY PositionInvariant, PosInvCache, PTL

\* Types, and nobody holds scopes before it has asked.
THEOREM PositionTypes == Spec => []TypeOK
<1>1. PosInv => TypeOK
  <2> SUFFICES ASSUME PosInv
               PROVE  TypeOK
    OBVIOUS
  <2>1. ScopeTypeOK
    BY DEF PosInv, ScopeInv, ScopeTypeOK, Requested
  <2>2. ASSUME NEW c \in Client, c \in granted
        PROVE  pc[c] \notin {"idle", "version", "ask"}
    <3>1. wanted[c] # {}
      BY <2>2 DEF PosInv, ScopeInv
    <3> QED
      BY <3>1, ClientFacts DEF Asking, AtWork, Memory
  <2> QED
    BY <2>1, <2>2 DEF TypeOK, PosInv, Shared, FileValue
<1> QED
  BY <1>1, PositionInvariant, PTL

-----------------------------------------------------------------------------
(* No place in common *)

\* Of two beginnings of one path one begins the other.
LEMMA PrefixesCompare ==
  ASSUME NEW r \in Seq(STRING), NEW q \in Seq(STRING), NEW s \in Seq(STRING),
         IsPrefix(r, s), IsPrefix(q, s)
  PROVE  IsPrefix(r, q) \/ IsPrefix(q, r)
<1>1. /\ Len(r) \in Nat /\ Len(q) \in Nat /\ Len(s) \in Nat
      /\ Len(r) <= Len(s) /\ Len(q) <= Len(s)
  BY DEF IsPrefix
<1>2. \A i \in 1 .. Len(r) : r[i] = s[i]
  BY <1>1 DEF IsPrefix
<1>3. \A i \in 1 .. Len(q) : q[i] = s[i]
  BY <1>1 DEF IsPrefix
<1>4. CASE Len(r) <= Len(q)
  <2>1. \A i \in 1 .. Len(r) : r[i] = q[i]
    BY <1>1, <1>2, <1>3, <1>4
  <2> QED
    BY <1>1, <1>4, <2>1 DEF IsPrefix
<1>5. CASE Len(q) <= Len(r)
  <2>1. \A i \in 1 .. Len(q) : q[i] = r[i]
    BY <1>1, <1>2, <1>3, <1>5
  <2> QED
    BY <1>1, <1>5, <2>1 DEF IsPrefix
<1> QED
  BY <1>1, <1>4, <1>5

LEMMA PrefixOfPrefix ==
  ASSUME NEW r \in Seq(STRING), NEW q \in Seq(STRING), NEW s \in Seq(STRING),
         IsPrefix(r, q), IsPrefix(q, s)
  PROVE  IsPrefix(r, s)
BY DEF IsPrefix

\* Output directories in scopes are paths.
Paths(S) == \A s \in S : s.local \subseteq Seq(STRING)

PathInv == \A c \in Client : Paths(wanted[c])

LEMMA ScopePaths ==
  ASSUME NEW x \in Place, NEW root, NEW p
  PROVE  /\ At(x).local \subseteq Seq(STRING)
         /\ RowScope(p, x).local \subseteq Seq(STRING)
         /\ OldScope(x, root).local \subseteq Seq(STRING)
<1>1. x.local \in Seq(STRING)
  BY PositionAssumption
<1>2. At(x).local \subseteq Seq(STRING)
  BY <1>1, AtFields, ZenonT(40)
<1>3. RowScope(p, x).local \subseteq Seq(STRING)
  BY <1>1, AtCovers
<1>4. OldScope(x, root).local \subseteq Seq(STRING)
  BY <1>1, OldScopeFields, ZenonT(40)
<1> QED
  BY <1>2, <1>3, <1>4

LEMMA GlobalPaths ==
  Global.local \subseteq Seq(STRING)
    /\ \A p : [Bare EXCEPT !.path = {p}, !.shared = TRUE].local \subseteq Seq(STRING)
BY DEF Global, Bare

LEMMA NormalizedPaths ==
  ASSUME NEW S, Paths(S)
  PROVE  Paths(Normalized(S))
<1>1. \A s \in S : Normalize(s).local \subseteq Seq(STRING)
  BY GlobalPaths DEF Normalize, Paths
<1> QED
  BY <1>1, GlobalPaths DEF Normalized, Paths

LEMMA ReadPaths ==
  ASSUME NEW c \in Client, mem[c].row \in Place, mem[c].places \in [FileOf[c] -> FileValue],
         mem[c].target \in Target \cup {Gone}
  PROVE  Paths(ScopesRead(c) \cup Additional(c))
<1>1. Paths(Additional(c))
  <2>1. mem[c].target # Gone => mem[c].target \in Place
    BY PositionAssumption
  <2> QED
    BY <2>1, ScopePaths DEF Additional, Paths
<1>2. \A f \in FileOf[c] : mem[c].places[f] \in FileValue
  OBVIOUS
<1>3. Paths(OldScopes(mem[c].places, mem[c].row))
  <2> SUFFICES ASSUME NEW f \in FileOf[c], mem[c].places[f] \notin {None, Blank}
               PROVE  OldScope(mem[c].places[f], mem[c].row).local \subseteq Seq(STRING)
    BY DEF Paths, OldScopes
  <2>1. mem[c].places[f] \in Place
    BY <1>2 DEF FileValue
  <2> QED
    BY <2>1, ScopePaths
<1>4. Paths(PathScopes(PathOf[c], mem[c].row, mem[c].places))
  BY <1>3, ScopePaths, GlobalPaths DEF PathScopes, Paths
<1>5. Paths(OutputScopes(PathOf[c], mem[c].row, mem[c].places))
  <2> DEFINE Of(f) == IF mem[c].places[f] = Blank THEN Global ELSE At(mem[c].places[f])
  <2>1. ASSUME NEW f \in FileOf[c], mem[c].places[f] # None
        PROVE  Of(f).local \subseteq Seq(STRING)
    <3>1. mem[c].places[f] = Blank \/ mem[c].places[f] \in Place
      BY <1>2, <2>1 DEF FileValue
    <3> QED
      BY <3>1, ScopePaths, GlobalPaths
  <2>2. ASSUME NEW s \in OutputScopes(PathOf[c], mem[c].row, mem[c].places)
        PROVE  \/ s = [Bare EXCEPT !.path = {PathOf[c]}, !.shared = TRUE]
               \/ s = At(mem[c].row)
               \/ \E f \in FileOf[c] : mem[c].places[f] # None /\ s = Of(f)
    BY <2>2 DEF OutputScopes
  <2> HIDE DEF Of
  <2> QED
    BY <2>1, <2>2, ScopePaths, GlobalPaths DEF Paths
<1>6. Paths(ScopesRead(c))
  BY <1>4, <1>5 DEF ScopesRead
<1> QED
  BY <1>1, <1>6 DEF Paths

LEMMA LeavePaths ==
  ASSUME PosInv, PathInv, NEW c \in Client, NEW label, NEW record, Leave(c, label, record)
  PROVE  PathInv'
<1>1. wanted'[c] = {} /\ \A d \in Client \ {c} : wanted'[d] = wanted[d]
  BY LeaveScopes DEF PosInv
<1> QED
  BY <1>1 DEF PathInv, Paths

LEMMA PathNext ==
  ASSUME PosInv, PathInv, [Next]_vars
  PROVE  PathInv'
<1>1. CASE UNCHANGED scopeVars
  BY <1>1 DEF scopeVars, PathInv, Paths
<1>2. CASE Next
  <2>1. PICK c \in Client : Begin(c) \/ Proceed(c) \/ BeginMutation(c) \/ Cancel(c)
    BY <1>2 DEF Next
  <2>2. GiveUp(c) \/ Retry(c) => PathInv'
    BY LeavePaths DEF GiveUp, Retry
  <2>3. CASE Begin(c) \/ ReadVersion(c) \/ LookUp(c) \/ Query(c) \/ Store(c)
    BY <1>1, <2>3 DEF Begin, ReadVersion, LookUp, Query, Store
  <2>4. CASE ReadRow(c) \/ Confirm(c) \/ Fresh(c) \/ Compare(c) \/ LastLook(c)
    BY <1>1, <2>2, <2>4 DEF ReadRow, Confirm, Fresh, Compare, LastLook
  <2>5. CASE AskScope(c)
    <3>1. CASE Ask(c, ScopesRead(c) \cup Additional(c))
      <4>1. mem[c].row \in Place /\ mem[c].places \in [FileOf[c] -> FileValue]
            /\ mem[c].target \in Target \cup {Gone}
        BY <2>5, ClientFacts DEF AskScope, Memory
      <4>2. Paths(Normalized(ScopesRead(c) \cup Additional(c)))
        BY <4>1, ReadPaths, NormalizedPaths
      <4>3. /\ wanted'[c] = Normalized(ScopesRead(c) \cup Additional(c))
            /\ \A d \in Client : d # c => wanted'[d] = wanted[d]
        BY <3>1, AskScopes DEF PosInv
      <4> QED
        BY <4>2, <4>3 DEF PathInv, Paths
    <3> QED
      BY <2>2, <2>5, <3>1 DEF AskScope
  <2>6. CASE BeginMutation(c) \/ Commit(c) \/ FinishMutation(c)
    BY <1>1, <2>6 DEF BeginMutation, Commit, FinishMutation
  <2>7. CASE Release(c) \/ Cancel(c)
    BY <2>2, <2>7 DEF Release, Cancel
  <2> QED
    BY <2>1, <2>3, <2>4, <2>5, <2>6, <2>7 DEF Proceed
<1>3. CASE UNCHANGED vars
  BY <1>1, <1>3 DEF vars
<1> QED
  BY <1>2, <1>3

LEMMA CoversOneEach ==
  ASSUME NEW s, NEW t, NEW x \in Place, NEW y \in Place,
         s.local \subseteq Seq(STRING), t.local \subseteq Seq(STRING),
         Covers(s, x), Covers(t, y), IsPrefix(x.local, y.local)
  PROVE  Collide(s, t)
<1>1. CASE s.global \/ t.global
  BY <1>1 DEF Collide
<1>2. CASE ~s.global /\ ~t.global
  <2>1. PICK r \in s.local, q \in t.local : IsPrefix(r, x.local) /\ IsPrefix(q, y.local)
    BY <1>2 DEF Covers
  <2>2. /\ r \in Seq(STRING) /\ q \in Seq(STRING)
        /\ x.local \in Seq(STRING) /\ y.local \in Seq(STRING)
    BY PositionAssumption
  <2>3. IsPrefix(r, y.local)
    BY <2>1, <2>2, PrefixOfPrefix
  <2>4. IsPrefix(r, q) \/ IsPrefix(q, r)
    BY <2>1, <2>2, <2>3, PrefixesCompare
  <2> QED
    BY <2>4 DEF Collide, PathsOverlap
<1> QED
  BY <1>1, <1>2

\* Two clients at work have no output place in common, nor one below another.
THEOREM OnePlace == Spec => []OneAtAPlace
<1>1. Init => PathInv
  BY DEF Init, InitScope, PathInv, Paths
<1>2. PosInv /\ PathInv /\ [Next]_vars => PathInv'
  BY PathNext
<1>3. PosInv /\ PathInv => OneAtAPlace
  <2> SUFFICES ASSUME PosInv, PathInv, NEW c \in Client, NEW d \in Client,
                      c # d, Holds(c), Holds(d),
                      NEW x \in Touched(c), NEW y \in Touched(d)
               PROVE  ~IsPrefix(x.local, y.local) /\ ~IsPrefix(y.local, x.local)
    BY DEF OneAtAPlace
  <2>1. ~Overlap(wanted[c], wanted[d]) /\ ~Overlap(wanted[d], wanted[c])
    BY ClientFacts DEF Holds, Asking, AtWork, PosInv, ScopeInv, Apart
  <2>2. PICK s \in wanted[c] : Covers(s, x)
    BY PosInvCurrent DEF HeldIsCurrent
  <2>3. PICK t \in wanted[d] : Covers(t, y)
    BY PosInvCurrent DEF HeldIsCurrent
  <2>4. ~Collide(s, t) /\ ~Collide(t, s)
    BY <2>1 DEF Overlap
  <2>5. s.local \subseteq Seq(STRING) /\ t.local \subseteq Seq(STRING)
    BY DEF PathInv, Paths
  <2>6. ASSUME NEW e \in Client, NEW z \in Touched(e)
        PROVE  z \in Place
    <3>1. mem[e].target \in Target \cup {Gone}
      BY ClientFacts DEF Memory
    <3> QED
      BY <2>6, <3>1, PositionAssumption DEF Touched, PosInv, Shared, FileValue
  <2>7. x \in Place /\ y \in Place
    BY <2>6
  <2> QED
    BY <2>2, <2>3, <2>4, <2>5, <2>7, CoversOneEach
<1> QED
  BY <1>1, <1>2, <1>3, PositionInvariant, PTL DEF Spec

=============================================================================
