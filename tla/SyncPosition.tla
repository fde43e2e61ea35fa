--------------------------- MODULE SyncPosition ---------------------------
(* How a task finds out what to ask the coordinator for.  What a sync path  *)
(* may touch is in the database: the place of its directory and the places  *)
(* its file records still name.  It has to be read before the scopes are    *)
(* held, and others move directories and files meanwhile.  The code reads   *)
(* optimistically (acquireSyncScope), keeps a cache of the places           *)
(* (readSyncLogicalPositions) and a version that every mutation bumps twice *)
(* (BeginSyncPositionMutation).                                             *)
(*                                                                          *)
(* A step is one hold of syncPositions.Mutex or coordinator.mu, or one SQL  *)
(* statement or transaction.                                                *)
EXTENDS SyncScope, FiniteSets

CONSTANTS
  SyncPath,       \* ids of sync paths
  File,           \* file records
  PathOf,         \* sync path of each client and of each file
  Kind,           \* what each client does, see below
  FileOf,         \* the files a client handles: one, or all of its path
  Place,          \* [remote, local]: a directory at the drive and its output
  Target,         \* the places an edit may choose
  StartRow,       \* first place of each sync path
  StartFile,      \* first place of each file
  None,           \* no record: a file that was never saved
  Blank,          \* a record without path, local path or source
  Gone,           \* a deleted sync path
  MaxMutations    \* bound: calls of BeginSyncPositionMutation

(* Kinds of clients:                                                        *)
(*   "sync"    a full sync that saves its file records (the ledger)         *)
(*   "file"    generation of one file                                       *)
(*   "edit"    save or delete of the sync path's configuration              *)
(*   "scrape"  output of a scraper; shares the configuration                *)
Kinds == {"sync", "file", "edit", "scrape"}

ASSUME PositionAssumption ==
  /\ IsFiniteSet(Client)
  /\ PathOf \in [Client \cup File -> SyncPath]
  /\ Kind \in [Client -> Kinds]
  /\ \A c \in Client :
       LET own == {f \in File : PathOf[f] = PathOf[c]}
       IN /\ FileOf[c] \subseteq own
          /\ Kind[c] \in {"sync", "edit"} => FileOf[c] = own
  /\ \A x \in Place : x.remote \in Seq(STRING) /\ x.local \in Seq(STRING)
  /\ {None, Blank, Gone} \cap Place = {}
  /\ None # Blank /\ None # Gone /\ Blank # Gone
  /\ Target \subseteq Place
  /\ StartRow \in [SyncPath -> Place]
  /\ StartFile \in [File -> Place \cup {None, Blank}]
  /\ MaxMutations \in Nat

VARIABLES
  rowAt,      \* place of each sync path, or Gone
  fileAt,     \* place of each file record, or None, or Blank
  version,    \* syncPositions.version
  writers,    \* syncPositions.writers
  cache,      \* syncPositions.entries: what is kept for each sync path
  pc,         \* where each client is
  mem,        \* its local variables
  mutations   \* history: calls of BeginSyncPositionMutation

posVars == <<rowAt, fileAt, version, writers, cache, mutations>>
vars == <<scopeVars, posVars, pc, mem>>

NoEntry == [version |-> 0, places |-> <<>>]
Empty == [version |-> 0, row |-> Gone, places |-> <<>>, seen |-> 0,
          scopes |-> {}, waited |-> FALSE, again |-> FALSE, target |-> Gone]

AllFiles(c) == Kind[c] \in {"sync", "edit"}
Versioned(c) == Kind[c] # "scrape"

-----------------------------------------------------------------------------
(* Scopes *)

Bare == [path |-> {}, shared |-> FALSE, type |-> {}, account |-> {},
         remote |-> {}, local |-> {}, whole |-> FALSE, global |-> FALSE]

\* All sync paths here belong to one account of one drive.
At(x) == [Bare EXCEPT !.type = {"115"}, !.account = {1},
                      !.remote = {x.remote}, !.local = {x.local}]

RowScope(p, x) == [At(x) EXCEPT !.path = {p}]

\* What an old record names outside of the directory's present place.
OldScope(x, root) ==
  [At(x) EXCEPT !.remote = IF IsPrefix(root.remote, x.remote) THEN {} ELSE {x.remote},
                !.local = IF IsPrefix(root.local, x.local) THEN {} ELSE {x.local}]

\* Mutant: only the present directory is asked for.
OldScopesForgotten(places, root) == {}

OldScopes(places, root) ==
  {s \in {OldScope(places[f], root) :
            f \in {g \in DOMAIN places : places[g] \notin {None, Blank}}} :
     s.remote # {} \/ s.local # {}}

\* readSyncPathScopes after its reads.
PathScopes(p, row, places) ==
  IF \E f \in DOMAIN places : places[f] = Blank
  THEN {RowScope(p, row), Global}
  ELSE {RowScope(p, row)} \cup OldScopes(places, row)

\* strmOutputScopes: the new output and what the records of the file name.
OutputScopes(p, row, places) ==
  {[Bare EXCEPT !.path = {p}, !.shared = TRUE], At(row)}
    \cup {IF places[f] = Blank THEN Global ELSE At(places[f]) :
            f \in {g \in DOMAIN places : places[g] # None}}

\* Mutant: the new place is forgotten.
AdditionalForgotten(c) == {}

\* An edit asks for the place it is going to write as well.
Additional(c) ==
  IF Kind[c] = "edit" /\ mem[c].target # Gone THEN {At(mem[c].target)} ELSE {}

ScopesRead(c) ==
  IF Kind[c] = "scrape"
  THEN OutputScopes(PathOf[c], mem[c].row, mem[c].places)
  ELSE PathScopes(PathOf[c], mem[c].row, mem[c].places)

-----------------------------------------------------------------------------
(* Reading *)

Goto(c, label) == pc' = [pc EXCEPT ![c] = label]
Keep(c, record) == mem' = [mem EXCEPT ![c] = record]

\* Mutant: the scopes are not given back.
LeaveHolding(c, label, record) ==
  /\ Goto(c, label)
  /\ Keep(c, record)
  /\ UNCHANGED <<scopeVars, posVars>>

\* The call returns, or goes round again.
Leave(c, label, record) ==
  /\ IF wanted[c] = {} THEN UNCHANGED scopeVars ELSE Withdraw(c)
  /\ Goto(c, label)
  /\ Keep(c, record)
  /\ UNCHANGED posVars

GiveUp(c) == Leave(c, "idle", Empty)

First(c) == IF Versioned(c) THEN "version" ELSE "row"
Retry(c) == Leave(c, First(c), [Empty EXCEPT !.target = mem[c].target])

\* A call begins; the configuration of an edit is settled by its request.
Begin(c) ==
  /\ pc[c] = "idle"
  /\ \E x \in IF Kind[c] = "edit" THEN Target \cup {Gone} ELSE {Gone} :
       Keep(c, [Empty EXCEPT !.target = x])
  /\ Goto(c, First(c))
  /\ UNCHANGED <<scopeVars, posVars>>

ReadVersion(c) ==
  /\ pc[c] = "version"
  /\ Keep(c, [mem[c] EXCEPT !.version = version])
  /\ Goto(c, "row")
  /\ UNCHANGED <<scopeVars, posVars>>

ReadRow(c) ==
  /\ pc[c] = "row"
  /\ IF rowAt[PathOf[c]] = Gone
     THEN GiveUp(c)
     ELSE /\ Keep(c, [mem[c] EXCEPT !.row = rowAt[PathOf[c]]])
          /\ Goto(c, IF Versioned(c) THEN "lookup" ELSE "query")
          /\ UNCHANGED <<scopeVars, posVars>>

AfterRead(c) == IF mem[c].again THEN "compare" ELSE "ask"

CacheHit(c) ==
  AllFiles(c) /\ cache[PathOf[c]] # NoEntry /\ cache[PathOf[c]].version = version

\* The head of the loop of readSyncLogicalPositions: wait for writers, then
\* the cache.
LookUp(c) ==
  /\ pc[c] = "lookup"
  /\ writers = 0
  /\ IF CacheHit(c)
     THEN /\ Keep(c, [mem[c] EXCEPT !.places = cache[PathOf[c]].places])
          /\ Goto(c, AfterRead(c))
     ELSE /\ Keep(c, [mem[c] EXCEPT !.seen = version])
          /\ Goto(c, "query")
  /\ UNCHANGED <<scopeVars, posVars>>

\* Reads page by page; a version that changes meanwhile is seen in Store.
Query(c) ==
  /\ pc[c] = "query"
  /\ Keep(c, [mem[c] EXCEPT !.places = [f \in FileOf[c] |-> fileAt[f]]])
  /\ Goto(c, IF Versioned(c) THEN "store" ELSE AfterRead(c))
  /\ UNCHANGED <<scopeVars, posVars>>

\* Only what no writer was at work on is used, and kept for the next one.
Stable(c) == version = mem[c].seen /\ writers = 0
Entry(c) == [version |-> mem[c].seen, places |-> mem[c].places]

\* Mutant: what was read is kept without a look at the version.
StoreUnchecked(c) ==
  /\ pc[c] = "store"
  /\ cache' = IF AllFiles(c)
              THEN [cache EXCEPT ![PathOf[c]] =
                      [version |-> version, places |-> mem[c].places]]
              ELSE cache
  /\ Keep(c, [mem[c] EXCEPT !.seen = 0])
  /\ Goto(c, AfterRead(c))
  /\ UNCHANGED <<scopeVars, rowAt, fileAt, version, writers, mutations>>

Store(c) ==
  /\ pc[c] = "store"
  /\ IF Stable(c) /\ AllFiles(c)
     THEN cache' = [cache EXCEPT ![PathOf[c]] = Entry(c)]
     ELSE UNCHANGED cache
  /\ Keep(c, [mem[c] EXCEPT !.seen = 0])
  /\ Goto(c, IF Stable(c) THEN AfterRead(c) ELSE "lookup")
  /\ UNCHANGED <<scopeVars, rowAt, fileAt, version, writers, mutations>>

-----------------------------------------------------------------------------
(* Asking *)

SameVersion(c) == Versioned(c) => version = mem[c].version

\* Only one that had to wait reads again; a single file always does.
ReadsAgain(c) == mem[c].waited \/ ~AllFiles(c)

AskScope(c) ==
  /\ pc[c] = "ask"
  /\ IF ~SameVersion(c)
     THEN Retry(c)
     ELSE /\ Ask(c, ScopesRead(c) \cup Additional(c))
          /\ Keep(c, [mem[c] EXCEPT !.scopes = ScopesRead(c), !.waited = c \notin granted'])
          /\ Goto(c, "wait")
          /\ UNCHANGED posVars

\* Granted.  The first look is at the version.
Confirm(c) ==
  /\ pc[c] = "wait"
  /\ c \in granted
  /\ IF ~SameVersion(c)
     THEN Retry(c)
     ELSE /\ Goto(c, "fresh")
          /\ UNCHANGED <<scopeVars, posVars, mem>>

\* The configuration is read once more.
Fresh(c) ==
  /\ pc[c] = "fresh"
  /\ \/ rowAt[PathOf[c]] = Gone /\ GiveUp(c)
     \/ rowAt[PathOf[c]] \notin {Gone, mem[c].row} /\ Retry(c)
     \/ /\ rowAt[PathOf[c]] = mem[c].row
        /\ Keep(c, [mem[c] EXCEPT !.again = TRUE])
        /\ Goto(c, IF ReadsAgain(c) THEN "row" ELSE "last")
        /\ UNCHANGED <<scopeVars, posVars>>

Compare(c) ==
  /\ pc[c] = "compare"
  /\ IF SameVersion(c) /\ ScopesRead(c) = mem[c].scopes
     THEN /\ Goto(c, "last")
          /\ UNCHANGED <<scopeVars, posVars, mem>>
     ELSE Retry(c)

LastLook(c) ==
  /\ pc[c] = "last"
  /\ IF SameVersion(c)
     THEN /\ Goto(c, "held")
          /\ Keep(c, [Empty EXCEPT !.target = mem[c].target])
          /\ UNCHANGED <<scopeVars, posVars>>
     ELSE Retry(c)

\* The context ends while the call is under way.
Cancel(c) ==
  /\ pc[c] \notin {"idle", "held", "writing", "written"}
  /\ GiveUp(c)

-----------------------------------------------------------------------------
(* Working *)

\* BeginSyncPositionMutation; not by an edit that leaves the place as it is.
BeginMutation(c) ==
  /\ pc[c] = "held"
  /\ Kind[c] # "scrape"
  /\ Kind[c] = "edit" => mem[c].target # rowAt[PathOf[c]]
  /\ mutations < MaxMutations
  /\ version' = version + 1
  /\ writers' = writers + 1
  /\ cache' = [p \in SyncPath |-> NoEntry]
  /\ mutations' = mutations + 1
  /\ Goto(c, "writing")
  /\ UNCHANGED <<scopeVars, rowAt, fileAt, mem>>

\* New records are inside the directory; deleting the sync path deletes them.
Saves(c) ==
  \/ /\ Kind[c] \in {"sync", "file"}
     /\ \E f \in FileOf[c], x \in {rowAt[PathOf[c]], None} :
          fileAt' = [fileAt EXCEPT ![f] = x]
     /\ UNCHANGED rowAt
  \/ /\ Kind[c] = "edit"
     /\ rowAt' = [rowAt EXCEPT ![PathOf[c]] = mem[c].target]
     /\ fileAt' = IF mem[c].target = Gone
                  THEN [f \in File |-> IF PathOf[f] = PathOf[c] THEN None ELSE fileAt[f]]
                  ELSE fileAt

\* The transaction commits or is rolled back.
Commit(c) ==
  /\ pc[c] = "writing"
  /\ Saves(c) \/ UNCHANGED <<rowAt, fileAt>>
  /\ Goto(c, "written")
  /\ UNCHANGED <<scopeVars, version, writers, cache, mutations, mem>>

\* The function BeginSyncPositionMutation returned.
FinishMutation(c) ==
  /\ pc[c] = "written"
  /\ version' = version + 1
  /\ writers' = writers - 1
  /\ Goto(c, IF Kind[c] = "edit" THEN "done" ELSE "held")
  /\ UNCHANGED <<scopeVars, rowAt, fileAt, cache, mutations, mem>>

Release(c) == pc[c] \in {"held", "done"} /\ GiveUp(c)

-----------------------------------------------------------------------------

Init ==
  /\ InitScope
  /\ rowAt = StartRow
  /\ fileAt = StartFile
  /\ version = 0
  /\ writers = 0
  /\ cache = [p \in SyncPath |-> NoEntry]
  /\ mutations = 0
  /\ pc = [c \in Client |-> "idle"]
  /\ mem = [c \in Client |-> Empty]

Proceed(c) ==
  \/ ReadVersion(c) \/ ReadRow(c) \/ LookUp(c) \/ Query(c) \/ Store(c)
  \/ AskScope(c) \/ Confirm(c) \/ Fresh(c) \/ Compare(c) \/ LastLook(c)
  \/ Commit(c) \/ FinishMutation(c) \/ Release(c)

Next == \E c \in Client : Begin(c) \/ Proceed(c) \/ BeginMutation(c) \/ Cancel(c)

Spec == Init /\ [][Next]_vars

\* Goroutines go on; work ends, so scopes are given back.
Fairness == \A c \in Client : WF_vars(Proceed(c))

FairSpec == Spec /\ Fairness

-----------------------------------------------------------------------------
(* Properties *)

TypeOK ==
  /\ ScopeTypeOK
  /\ rowAt \in [SyncPath -> Place \cup {Gone}]
  /\ fileAt \in [File -> Place \cup {None, Blank}]
  /\ version = 2 * mutations - writers
  /\ \A c \in Client : c \in granted => pc[c] \notin {"idle", "version", "ask"}

Holds(c) == pc[c] \in {"held", "writing", "written"}

\* What a client that holds its scopes reads or writes: the directory, the
\* records of its files, and the place an edit is moving to.
Touched(c) ==
  ({rowAt[PathOf[c]]} \cup {fileAt[f] : f \in FileOf[c]}
     \cup (IF Kind[c] = "edit" THEN {mem[c].target} ELSE {})) \ {None, Blank, Gone}

Covers(s, x) ==
  \/ s.global
  \/ \E r \in s.local : IsPrefix(r, x.local)

\* The scopes a client works under are those of the database as it is now, not
\* as it was when they were read.
HeldIsCurrent ==
  \A c \in Client : Holds(c) =>
    /\ \A x \in Touched(c) : \E s \in wanted[c] : Covers(s, x)
    /\ \A f \in FileOf[c] : fileAt[f] = Blank => Global \in wanted[c]

\* Two clients at work have no output place in common.
OneAtAPlace ==
  \A c, d \in Client : c # d /\ Holds(c) /\ Holds(d) =>
    \A x \in Touched(c), y \in Touched(d) :
      ~IsPrefix(x.local, y.local) /\ ~IsPrefix(y.local, x.local)

\* What the cache would hand out is what the table holds.
CacheIsTrue ==
  writers = 0 =>
    \A p \in SyncPath : cache[p] # NoEntry /\ cache[p].version = version =>
      \A f \in DOMAIN cache[p].places : cache[p].places[f] = fileAt[f]

\* Whoever asks for a sync path gets it, or is told that it is gone.
AskedIsAnswered ==
  \A c \in Client : pc[c] = First(c) ~> pc[c] \in {"held", "idle"}

=============================================================================
