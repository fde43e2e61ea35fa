----------------------------- MODULE EmbyRefresh -----------------------------
(***************************************************************************)
(* The coordinator of Emby refreshes                                       *)
(* (internal/models/emby_library_refresh_task.go): whoever changed a       *)
(* STRM or metadata file asks for a refresh of the item, or of a whole     *)
(* library when no item is known.  The request is a row of                 *)
(* emby_library_refresh_tasks.  A row waits until no further change came   *)
(* for ten seconds and no sync or download of its sync paths is going on,  *)
(* for six hours at most, and then one scanner asks Emby.  Rows of items   *)
(* are absorbed by the row of their library.                               *)
(*                                                                         *)
(* The goroutines are those that ask, the batcher of download events and   *)
(* the scanner.  A step is one transaction or statement (the process-wide  *)
(* mutex that SQLite needs is held for no longer), one channel operation,  *)
(* or one hold of the timer's lock.                                        *)
(*                                                                         *)
(* Times are kept as what is left of them: 0 is due, or over.  "change"    *)
(* and "quiet" are bookkeeping of this module.                             *)
(*                                                                         *)
(* A definition that stands right before another and names a slip is a     *)
(* plausible bug of the next one; no specification uses it.                *)
(***************************************************************************)
EXTENDS Integers, Sequences, FiniteSets, FiniteSetsExt

CONSTANTS
  Item, Library,     \* keys of the table: "item:<id>", "library:<id>"
  LibraryOf,         \* LibraryOf[i]: the library item i resolves to, or NoLibrary
  NoLibrary,
  SyncPath,
  LinkedTo,          \* LinkedTo[l]: the sync paths related to library l
  PathOf,            \* PathOf[k]: the sync path whose files show up as k in Emby
  Working,           \* bound: the sync paths that have syncs and downloads
  Request,           \* sequences of keys somebody asks for in one call
  Caller,            \* goroutines that ask
  Threshold,         \* EmbyRefreshItemAggregationThreshold (10)
  Debounce,          \* DefaultEmbyRefreshDebounceSeconds, in ticks
  MaxWait,           \* DefaultEmbyRefreshMaxWaitSeconds, in ticks
  MaxRequests,       \* bound: calls that ask for a refresh
  MaxCrashes         \* bound: ends of the process

Key == Item \cup Library

ASSUME KeyAssumption ==
  /\ Item \cap Library = {}
  /\ NoLibrary \notin Key
  /\ LibraryOf \in [Item -> Library \cup {NoLibrary}]
  /\ LinkedTo \in [Library -> SUBSET SyncPath]
  /\ PathOf \in [Key -> SyncPath]
  /\ Working \subseteq SyncPath
  /\ Request \subseteq Seq(Key) \ {<<>>}

ASSUME TimeAssumption ==
  /\ {Threshold, Debounce, MaxWait} \subseteq Nat \ {0}
  /\ Debounce < MaxWait
  /\ {MaxRequests, MaxCrashes} \subseteq Nat

VARIABLES
  row,        \* row[k]: the row of key k
  busy,       \* sync paths with a sync or download that waits or runs
  event,      \* sync paths in embyRefreshDownloadEventBatch
  wake,       \* embyRefreshCheckChan holds its one element
  timer,      \* ticks until the global timer fires, or NoTimer
  up,         \* the process runs
  caller,     \* caller[c]: the call c is in
  scan,       \* the scanner
  change,     \* change[k]: what Emby knows of the last change of k
  quiet,      \* quiet[k]: ticks until that change is a debounce old
  requests, crashes

rowVars == <<row, change, quiet>>
wakeVars == <<wake, timer>>
countVars == <<requests, crashes>>
vars == <<row, busy, event, wake, timer, up, caller, scan,
          change, quiet, requests, crashes>>

-----------------------------------------------------------------------------
(* Rows.                                                                   *)

Unborn == "unborn"
Pending == "pending"
Refreshing == "refreshing"
Over == "over"          \* completed, failed or cancelled: treated alike

NoRow == [status |-> Unborn, refreshIn |-> 0, deadlineIn |-> 0,
          checked |-> FALSE, seen |-> FALSE, paths |-> {}]

\* checked: last_checked_at is not before refresh_after_at.
\* seen: the times are still those of the scanner's copy.
PendingRow(refreshIn, deadlineIn, paths) ==
  [status |-> Pending, refreshIn |-> refreshIn, deadlineIn |-> deadlineIn,
   checked |-> FALSE, seen |-> FALSE, paths |-> paths]

\* A row that is over keeps its sync paths; its times are read no more.
Ended(r) == [NoRow EXCEPT !.status = Over, !.paths = r.paths]

IsPending(k) == row[k].status = Pending

\* shouldResetEmbyRefreshDeadline
ShouldResetDeadline(r) == r.status = Over \/ r.deadlineIn = 0

\* upsertEmbyLibraryRefreshTaskWithDB, upsertEmbyItemRefreshTaskWithDB: a row
\* that is refreshing is pending again, and keeps its deadline.
Upserted(r, path) ==
  PendingRow(Debounce,
             IF r.status = Unborn \/ ShouldResetDeadline(r) THEN MaxWait ELSE r.deadlineIn,
             r.paths \cup {path})

-----------------------------------------------------------------------------
(* Grouping by library.  A row of an item stands for the item as long as it *)
(* is pending; after that the row of its library does.                     *)

Cover(k) ==
  IF k \in Item /\ ~IsPending(k) /\ LibraryOf[k] # NoLibrary THEN LibraryOf[k] ELSE k

\* Keys whose last change row k stands for.
Covered(k) == {u \in Key : Cover(u) = k}

ItemsOf(rows, l) == {i \in Item : LibraryOf[i] = l /\ rows[i].status = Pending}

MergedWithNewDeadline(r, items, preservePendingTimes) ==
  PendingRow(Max({x.refreshIn : x \in items \cup (IF preservePendingTimes THEN {r} ELSE {})}),
             MaxWait, r.paths \cup UNION {x.paths : x \in items})

\* mergePendingEmbyItemsIntoLibraryTask; called after overdue rows are gone.
Merged(r, items, preservePendingTimes) ==
  LET times == items \cup (IF preservePendingTimes THEN {r} ELSE {})
  IN  PendingRow(Max({x.refreshIn : x \in times}),
                 Min({x.deadlineIn : x \in times}),
                 r.paths \cup UNION {x.paths : x \in items})

\* cancelExpiredPendingEmbyRefreshTasksWithDB
WithoutExpired(rows) ==
  [k \in Key |-> IF rows[k].status = Pending /\ rows[k].deadlineIn = 0
                   THEN Ended(rows[k]) ELSE rows[k]]

\* One group of reconcilePendingEmbyRefreshTasksWithDB.
Absorbs(rows, l) ==
  LET items == ItemsOf(rows, l)
  IN  /\ items # {}
      /\ \/ rows[l].status = Pending
         \/ /\ rows[l].status # Refreshing
            /\ Cardinality(items) >= Threshold
            /\ \A i \in items : rows[i].refreshIn = 0

\* The items of a group wait for the last of them.
Aligned(rows, l) ==
  [i \in ItemsOf(rows, l) |->
     LET last == Max({rows[j].refreshIn : j \in ItemsOf(rows, l)})
     IN  IF rows[i].refreshIn < last
           THEN PendingRow(last, rows[i].deadlineIn, rows[i].paths) ELSE rows[i]]

Reconciled(rows) ==
  [k \in Key |->
     LET l == IF k \in Item THEN LibraryOf[k] ELSE k
     IN  IF l = NoLibrary \/ ItemsOf(rows, l) = {} THEN rows[k]
         ELSE IF Absorbs(rows, l)
         THEN IF k = l
                THEN Merged(rows[l], {rows[i] : i \in ItemsOf(rows, l)}, rows[l].status = Pending)
              ELSE IF k \in ItemsOf(rows, l) THEN Ended(rows[k])
              ELSE rows[k]
         ELSE IF k \in ItemsOf(rows, l) /\ rows[l].status # Refreshing
         THEN Aligned(rows, l)[k]
         ELSE rows[k]]

\* A change is given up with the row that stands for it.
GiveUp(gone) ==
  LET lost == {u \in Key : Cover(u) \in gone}
  IN  /\ change' = [u \in Key |-> IF u \in lost THEN "clean" ELSE change[u]]
      /\ quiet' = [u \in Key |-> IF u \in lost THEN 0 ELSE quiet[u]]

ReconcilePendingEmbyRefreshTasks ==
  /\ row' = Reconciled(WithoutExpired(row))
  /\ GiveUp({k \in Key : IsPending(k) /\ row[k].deadlineIn = 0})

-----------------------------------------------------------------------------
(* Waking the scanner.                                                     *)

NoTimer == -1

\* ScheduleNextEmbyLibraryRefreshCheck asks for the first pending row that is
\* not due yet and for due ones the scanner has not looked at, ...
NextCheck(rows) ==
  LET future == {rows[k].refreshIn : k \in {x \in Key : rows[x].status = Pending
                                                        /\ rows[x].refreshIn > 0}}
  IN  IF future = {} THEN NoTimer ELSE Min(future)
HasDueUnchecked(rows) ==
  \E k \in Key : rows[k].status = Pending /\ rows[k].refreshIn = 0 /\ ~rows[k].checked

\* ... then sets the timer (setNextEmbyLibraryRefreshCheckTimer: an answer that
\* comes late must not replace an earlier timer) and wakes the scanner.
SetNextTimer(next) ==
  timer' = IF timer # NoTimer /\ (next = NoTimer \/ timer <= next) THEN timer ELSE next

\* Both at once; only callers are slow enough to get late answers.
ScheduleNext(rows) == SetNextTimer(NextCheck(rows)) /\ wake' = (wake \/ HasDueUnchecked(rows))

TimerFires ==
  /\ up
  /\ timer = 0
  /\ timer' = NoTimer
  /\ wake' = TRUE
  /\ UNCHANGED <<rowVars, busy, event, up, caller, scan, countVars>>

-----------------------------------------------------------------------------
(* Whoever asks: RequestEmbyRefreshTargets writes one row after the other  *)
(* and groups them; RequestEmbyRefreshBySyncFile writes one row of an item *)
(* and leaves the grouping to the scanner.                                 *)

NoCall == [step |-> "idle", todo |-> <<>>, groups |-> FALSE, next |-> NoTimer]
Goes(c, step) == caller' = [caller EXCEPT ![c] = [NoCall EXCEPT !.step = step]]

RequestEmbyRefreshTargets(c) ==
  /\ up
  /\ caller[c].step = "idle"
  /\ requests < MaxRequests
  /\ requests' = requests + 1
  /\ \E targets \in Request, groups \in BOOLEAN :
       /\ ~groups => Len(targets) = 1 /\ targets[1] \in Item
       /\ caller' = [caller EXCEPT ![c] = 
                      [NoCall EXCEPT !.step = "upsert", !.todo = targets, !.groups = groups]]
  /\ UNCHANGED <<rowVars, busy, event, wakeVars, up, scan, crashes>>

UpsertRefreshTask(c) ==
  /\ up
  /\ caller[c].step = "upsert"
  /\ LET k == Head(caller[c].todo)
         rest == Tail(caller[c].todo)
     IN  /\ row' = [row EXCEPT ![k] = Upserted(@, PathOf[k])]
         /\ change' = [change EXCEPT ![k] = "dirty"]
         /\ quiet' = [quiet EXCEPT ![k] = Debounce]
         /\ IF rest # <<>> THEN caller' = [caller EXCEPT ![c].todo = rest]
            ELSE Goes(c, IF caller[c].groups THEN "reconcile" ELSE "query")
  /\ UNCHANGED <<busy, event, wakeVars, up, scan, countVars>>

CallerReconciles(c) ==
  /\ up
  /\ caller[c].step = "reconcile"
  /\ ReconcilePendingEmbyRefreshTasks
  /\ Goes(c, "query")
  /\ UNCHANGED <<busy, event, wakeVars, up, scan, countVars>>

CallerQueries(c) ==
  /\ up
  /\ caller[c].step = "query"
  /\ caller' = [caller EXCEPT ![c] = [NoCall EXCEPT !.step = "set", !.next = NextCheck(row)]]
  /\ UNCHANGED <<rowVars, busy, event, wakeVars, up, scan, countVars>>

\* TriggerEmbyLibraryRefreshCheck follows in any case.
CallerSchedules(c) ==
  /\ up
  /\ caller[c].step = "set"
  /\ SetNextTimer(caller[c].next)
  /\ wake' = TRUE
  /\ Goes(c, "idle")
  /\ UNCHANGED <<rowVars, busy, event, up, scan, countVars>>

-----------------------------------------------------------------------------
(* Syncs and downloads.  Their own modules say how they go; here it only   *)
(* matters which sync paths they keep busy.                                *)

WorkStarts(p) ==
  /\ up
  /\ p \in Working \ busy
  /\ busy' = busy \cup {p}
  /\ UNCHANGED <<rowVars, event, wakeVars, up, caller, scan, countVars>>

\* A sync ends, with nothing left to download.
SyncEnds(p) ==
  /\ up
  /\ p \in busy
  /\ busy' = busy \ {p}
  /\ UNCHANGED <<rowVars, event, wakeVars, up, caller, scan, countVars>>

\* HandleDownloadTaskStatusChanged only notes the sync path.
DownloadChanges(p) ==
  /\ up
  /\ p \in busy
  /\ busy' \in {busy, busy \ {p}}
  /\ event' = event \cup {p}
  /\ UNCHANGED <<rowVars, wakeVars, up, caller, scan, countVars>>

\* The dispatcher of downloads finds nothing left to do.
DownloadsIdle ==
  /\ up
  /\ wake' = TRUE
  /\ UNCHANGED <<rowVars, busy, event, timer, up, caller, scan, countVars>>

\* getPendingEmbyRefreshTaskIdsByScopeWithDB
LibrariesOf(k) == IF k \in Library THEN {k} ELSE {LibraryOf[k]} \ {NoLibrary}
InScope(paths) ==
  {k \in Key : /\ IsPending(k)
               /\ \/ row[k].paths \cap paths # {}
                  \/ \E l \in LibrariesOf(k) : LinkedTo[l] \cap paths # {}}

\* ClearDownloadPendingTasks: the refreshes that waited for them go as well.
ClearDownloadPendingTasks ==
  /\ up
  /\ \E paths \in SUBSET busy \ {{}} :
       LET gone == InScope(paths)
       IN  /\ busy' = busy \ paths
           /\ row' = [k \in Key |-> IF k \in gone THEN Ended(row[k]) ELSE row[k]]
           /\ GiveUp(gone)
  /\ wake' = TRUE
  /\ UNCHANGED <<event, timer, up, caller, scan, countVars>>

\* flushPendingEmbyRefreshDownloadTaskChanges: the changed downloads put off
\* every refresh in their scope.
Flush ==
  LET late == InScope(event)
      rows == [k \in Key |-> IF k \in late
                            THEN PendingRow(Debounce, row[k].deadlineIn, row[k].paths)
                            ELSE row[k]]
  IN  /\ event' = {}
      /\ row' = rows
      /\ IF late # {} THEN SetNextTimer(NextCheck(rows)) /\ wake' = TRUE
                      ELSE UNCHANGED wakeVars

BatcherFlushes ==
  /\ up
  /\ event # {}
  /\ Flush
  /\ UNCHANGED <<change, quiet, busy, up, caller, scan, countVars>>

-----------------------------------------------------------------------------
(* The scanner: CheckPendingEmbyLibraryRefreshTasks.                       *)

\* batch: the rows it has read and still has to look at, with the sync paths
\* they had; task: the one it works on.
NoBatch == [k \in {} |-> {}]
NoTask == "none"
Resting == [pc |-> "idle", batch |-> NoBatch, task |-> NoTask]

At(pc) == up /\ scan.pc = pc
Without(batch, k) == [x \in DOMAIN batch \ {k} |-> batch[x]]
NextTask == scan' = [scan EXCEPT !.pc = "check", !.task = NoTask]

\* embyRefreshCheckChan or the ticker of sixty seconds.
ScannerWakes ==
  /\ At("idle")
  /\ wake' \in {FALSE, wake}
  /\ scan' = [Resting EXCEPT !.pc = "flush"]
  /\ UNCHANGED <<rowVars, busy, event, timer, up, caller, countVars>>

ScannerFlushes ==
  /\ At("flush")
  /\ Flush
  /\ scan' = [scan EXCEPT !.pc = "flushed"]
  /\ UNCHANGED <<change, quiet, busy, up, caller, countVars>>

\* Groups the rows and reads those that are due by the time it began: nothing
\* that is written in between is due by then.
ScannerSelects ==
  /\ At("flushed")
  /\ LET rows == Reconciled(WithoutExpired(row))
         due == {k \in Key : rows[k].status = Pending /\ rows[k].refreshIn = 0}
     IN  /\ row' = [k \in Key |-> [rows[k] EXCEPT !.seen = (k \in due)]]
         /\ scan' = [scan EXCEPT !.pc = "check", !.batch = [k \in due |-> rows[k].paths]]
  /\ GiveUp({k \in Key : IsPending(k) /\ row[k].deadlineIn = 0})
  /\ UNCHANGED <<busy, event, wakeVars, up, caller, countVars>>

\* IsEmbyLibraryRefreshTaskReady, of the copy that was read.
IsReady(k) ==
  LET waitFor == scan.batch[k] \cup UNION {LinkedTo[l] : l \in LibrariesOf(k)}
  IN  waitFor \cap busy = {}

\* updatePendingEmbyRefreshTaskCheckResult notes the look at a row that is
\* not ready unless the row has changed since it was read.
ScannerChecks(k) ==
  /\ At("check")
  /\ k \in DOMAIN scan.batch
  /\ IF IsReady(k)
       THEN /\ scan' = [pc |-> "claim", batch |-> Without(scan.batch, k), task |-> k]
            /\ UNCHANGED row
       ELSE /\ row' = IF IsPending(k) /\ row[k].seen
                        THEN [row EXCEPT ![k].checked = TRUE] ELSE row
            /\ scan' = [scan EXCEPT !.batch = Without(@, k)]
  /\ UNCHANGED <<change, quiet, busy, event, wakeVars, up, caller, countVars>>

\* claimEmbyRefreshTaskForExecution reads the row once more.
ClaimableUnread(k) == IsPending(k)
Claimable(k) == IsPending(k) /\ row[k].refreshIn = 0 /\ row[k].deadlineIn > 0

ScannerClaims ==
  /\ At("claim")
  /\ LET k == scan.task
         served == {u \in Covered(k) : change[u] = "dirty"}
     IN  IF Claimable(k)
           THEN /\ row' = [row EXCEPT ![k].status = Refreshing, ![k].seen = FALSE]
                /\ change' = [u \in Key |-> IF u \in served THEN "serving" ELSE change[u]]
                /\ quiet' = [u \in Key |-> IF u \in served THEN 0 ELSE quiet[u]]
                /\ scan' = [scan EXCEPT !.pc = "refresh"]
         ELSE /\ NextTask
              /\ UNCHANGED rowVars
  /\ UNCHANGED <<busy, event, wakeVars, up, caller, countVars>>

\* Emby answers; markEmbyRefreshTaskCompleted or markEmbyRefreshTaskFailed, but
\* only of a row that nobody has asked for in the meantime.
MarkAnyway(k) == row' = [row EXCEPT ![k] = Ended(@)]
Mark(k) ==
  row' = IF row[k].status = Refreshing THEN [row EXCEPT ![k] = Ended(@)] ELSE row

ScannerRefreshes ==
  /\ At("refresh")
  /\ Mark(scan.task)
  /\ change' = [u \in Key |-> IF change[u] = "serving" THEN "clean" ELSE change[u]]
  /\ NextTask
  /\ UNCHANGED <<quiet, busy, event, wakeVars, up, caller, countVars>>

ScannerEndsUnscheduled ==
  /\ At("check")
  /\ DOMAIN scan.batch = {}
  /\ scan' = Resting
  /\ UNCHANGED <<rowVars, wakeVars, busy, event, up, caller, countVars>>
ScannerEnds ==
  /\ At("check")
  /\ DOMAIN scan.batch = {}
  /\ ScheduleNext(row)
  /\ scan' = Resting
  /\ UNCHANGED <<rowVars, busy, event, up, caller, countVars>>

-----------------------------------------------------------------------------
(* Time, and the life of the process.                                      *)

Less(n) == IF n > 0 THEN n - 1 ELSE n

Tick ==
  /\ row' = [k \in Key |-> [row[k] EXCEPT !.refreshIn = Less(@), !.deadlineIn = Less(@)]]
  /\ quiet' = [k \in Key |-> Less(quiet[k])]
  /\ timer' = Less(timer)
  /\ caller' = [c \in Caller |-> [caller[c] EXCEPT !.next = Less(@)]]
  /\ UNCHANGED <<change, busy, event, wake, up, scan, countVars>>

Init ==
  /\ row = [k \in Key |-> NoRow]
  /\ busy = {}
  /\ event = {}
  /\ wake = FALSE
  /\ timer = NoTimer
  /\ up = FALSE
  /\ caller = [c \in Caller |-> NoCall]
  /\ scan = Resting
  /\ change = [k \in Key |-> "clean"]
  /\ quiet = [k \in Key |-> 0]
  /\ requests = 0
  /\ crashes = 0

\* InitEmbyLibraryRefreshCoordinator: what was refreshing starts over.
Reset(r) == IF r.status = Refreshing THEN PendingRow(Debounce, r.deadlineIn, r.paths) ELSE r
Restart(rows) ==
  /\ up' = TRUE
  /\ row' = rows
  /\ timer' = NextCheck(rows)
  /\ wake' = HasDueUnchecked(rows)
  /\ UNCHANGED <<change, quiet, busy, event, caller, scan, countVars>>
BootWithoutReset == ~up /\ Restart(row)
Boot == ~up /\ Restart([k \in Key |-> Reset(row[k])])

\* The rows of this table and of downloads outlive the process, syncs do not.
Crash ==
  /\ up
  /\ crashes < MaxCrashes
  /\ crashes' = crashes + 1
  /\ up' = FALSE
  /\ busy' \in SUBSET busy
  /\ event' = {}
  /\ wake' = FALSE
  /\ timer' = NoTimer
  /\ caller' = [c \in Caller |-> NoCall]
  /\ scan' = Resting
  /\ change' = [k \in Key |-> IF change[k] = "serving" THEN "dirty" ELSE change[k]]
  /\ UNCHANGED <<row, quiet, requests>>

CallerStep(c) ==
  \/ RequestEmbyRefreshTargets(c)
  \/ UpsertRefreshTask(c)
  \/ CallerReconciles(c)
  \/ CallerQueries(c)
  \/ CallerSchedules(c)

ScannerStep ==
  \/ ScannerWakes
  \/ ScannerFlushes
  \/ ScannerSelects
  \/ \E k \in Key : ScannerChecks(k)
  \/ ScannerClaims
  \/ ScannerRefreshes
  \/ ScannerEnds

PathStep(p) == WorkStarts(p) \/ SyncEnds(p) \/ DownloadChanges(p)

Next ==
  \/ \E c \in Caller : CallerStep(c)
  \/ \E p \in SyncPath : PathStep(p)
  \/ ScannerStep
  \/ DownloadsIdle
  \/ ClearDownloadPendingTasks
  \/ BatcherFlushes
  \/ TimerFires
  \/ Tick
  \/ Boot
  \/ Crash

Spec == Init /\ [][Next]_vars

\* Goroutines go on, time passes, the ticker ticks, a call of Emby ends (its
\* client has a timeout), and the process is started again.  Nobody has to
\* ask for a refresh, and syncs and downloads may go on for ever.
Fairness ==
  /\ \A c \in Caller : WF_vars(/\ caller[c].step # "idle"
                               /\ CallerStep(c))
  /\ WF_vars(ScannerStep)
  /\ WF_vars(Tick)
  /\ WF_vars(Boot)

FairSpec == Spec /\ Fairness

-----------------------------------------------------------------------------
(* Properties.                                                             *)

\* A change is not forgotten: until a refresh that began after it, a pending
\* row stands for it - its own or that of its library - and waits for its
\* sync path; while Emby is asked, the row is there to be asked for again.
\* That is what the status conditions of the coordinator's updates, the
\* grouping and the reset at the start are for.
Waiting(k) ==
  \/ IsPending(k)
  \/ ~up /\ row[k].status = Refreshing
StandIn(u) == {u} \cup LibrariesOf(u)
NothingForgotten ==
  \A u \in Key :
    /\ change[u] = "dirty" =>
         \E k \in StandIn(u) : Waiting(k) /\ PathOf[u] \in row[k].paths
    /\ change[u] = "serving" =>
         \E k \in StandIn(u) : row[k].status \in {Pending, Refreshing}

\* When every goroutine rests, the scanner is going to wake up for each
\* pending row as soon as the row is due, without the ticker: whatever late
\* answers of queries were used to set the timer.
WakesInTime ==
  (/\ up
   /\ scan.pc = "idle"
   /\ \A c \in Caller : caller[c].step = "idle")
  => \A k \in Key : IsPending(k) =>
       \/ wake
       \/ timer # NoTimer /\ timer <= row[k].refreshIn
       \/ row[k].checked

\* Emby is not asked for a change within the debounce after it: rows that
\* are absorbed hand their waiting time on, and rows that were put off since
\* the scanner read them are left for the next round.
DebounceStep ==
  \A u \in Key : change[u] = "dirty" /\ change'[u] = "serving" => quiet[u] = 0
DebounceKept == [][DebounceStep]_vars

\* Asking again for what is pending, grouping, downloads and restarts never
\* move the end of a change's waiting time away.  A row that was absorbed and
\* is asked for anew begins a waiting time of its own.
DeadlineOf(u) == row[Cover(u)].deadlineIn
BeginsAnew(u) == ~IsPending(u) /\ IsPending(u)'
DeadlineStep ==
  \A u \in Key : /\ change[u] = "dirty"
                 /\ change'[u] = "dirty"
                 /\ ~BeginsAnew(u)
                 /\ DeadlineOf(u) > 0
                 => DeadlineOf(u)' <= DeadlineOf(u)
DeadlineKept == [][DeadlineStep]_vars

\* When nobody asks any more, every change is made known to Emby in the end,
\* or given up with its row - even while syncs and downloads go on for ever.
ChangesAreServed == <>[](\A u \in Key : change[u] = "clean")
==============================================================================
