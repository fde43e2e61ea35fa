# A formal model of QMediaSync

QMediaSync keeps a media library of STRM and metadata files in step with cloud
drives.  Its backend (`src/backend`, Go) is one process: HTTP handlers, cron
jobs and start-up code put work into a SQL database (SQLite or PostgreSQL),
and long-lived goroutines take it out again.  What is hard about it is that the
queues live half in memory and half in the table, that their control calls run
beside the goroutines they control, and that the process may end at any point.

This directory holds TLA+ models of those parts, TLC runs that check them on
small instances, and TLAPS proofs that hold for every instance.

    tlc -workers 2 -config UploadQueue_dispatch.cfg MCUploadQueue.tla
    tlapm UploadQueueProofs.tla
    tlapm StrmGenerationProofs.tla

## 1. Inventory

### 1.1 Modelled

**Upload queue** — `models/upload.go`, `models/dbupload.go`.
*State:* `UQ` (running, limit, channel, count of active goroutines, reservations,
idle-retry flag, stop channel of the present generation), the rows of
`db_upload_tasks` with status and retry count.
*Operations:* InitUQ, Start, Stop, UpdateConcurrency, the scheduler round
(`moveTasksToChannel`), `Upload` and its post-processing, creation by STRM syncs
and by directory monitoring, replacement of a failed task, retry, clearing, the
daily clean-up, the reset at start-up.
*Hard:* the lock is not held over the scheduler's queries, a stop and start may
pass meanwhile; the limit shrinks under running goroutines; buffered tasks are
old copies of rows; the process dies between the transfer and its record.
*Correct when:* a task is held once, the books agree with what runs, a file that
is at the remote side is not transferred again, waiting tasks are taken up.

**Download queue** — `models/download.go`, `models/dbdownload.go`.
*State:* the current `DQ` and those it replaced, their channels, the rows of
`db_download_tasks`.
*Operations:* InitDQ, Start, Stop, Restart, UpdateConcurrency, the scheduler
round, the worker loop, `Download`, creation, retry, clearing, clean-up, reset.
*Hard:* Start replaces the channel, Stop closes one outside the mutex, nothing
identifies the goroutines of an earlier start, saving the settings makes a
second queue object; a row is marked only after its copy was sent.
*Correct when:* a paused queue claims nothing, a running queue has somebody who
serves its present channel, waiting rows are taken up, a task is held once.

**STRM generation tasks** — `models/strm_generation_task.go`,
`syncstrm/generation_service.go`, `syncstrm/generation_retry.go`.
*State:* the rows of `strm_generation_tasks` (single files, batches, directory
scans and their children) with status, counters and retry time; the batch one
goroutine works on.
*Operations:* requests, selection of a batch, expansion of a directory,
generation, skip, failure, finalization with its retries, retirement of the tasks
of a deleted sync path, the reset at start-up.
*Hard:* a child's result is recorded in its parent before the refresh and the
end of the child, each of which may fail or be cut off; a later task may write
the files of one that has to be finished again; a directory is expanded row by
row, and again after a crash.
*Correct when:* a result is counted once, the parent settles after its last
child, Emby is asked once the last child is done and not before, every task
settles.

**Sync scope locks** — `syncscope/scope.go`, `models/sync_scope.go`,
`models/sync_position_cache.go`, `models/syncpath.go` and their callers in
`syncconfig/service.go`, `syncstrm/sync_ledger.go`, `scrape/scrape_movie.go`.
*State:* the list of requests of the coordinator with their scopes and their
`granted` flag; the places of the sync paths and of the file records in the
database; `syncPositions` with its version, its count of writers and its cache;
the local variables of each caller.
*Operations:* asking, granting, giving back, cancelling; reading what to ask for
and confirming it once the scopes are granted; mutations of positions (records
of a sync, edit and delete of a sync path).
*Hard:* what a task may touch has to be read before it can be locked; it changes
while the task waits; the cache is filled without the lock.
*Correct when:* no two holders overlap, nobody overtakes, a holder's scopes
cover the table as it is now, the cache hands out nothing stale, everybody who
asks gets an answer.

**Sync task queue and STRM sync run** — `synccron/newqueue.go`,
`syncstrm/sync.go`, `syncstrm/sync_scope.go`, `syncstrm/sync_background.go`,
`models/sync.go`.
*State:* the waiting map, the channel and the current task of one source type;
the run the processor works on and the field a cancel finds it by; status and
ledger status of the records; the goroutines that write ledgers; the stopping
background service.
*Operations:* AddTask, CancelTask, Pause, Resume, the processor; creation of the
record, wait for the scopes, start, result, hand-over of the ledger, failure,
deletion of a record; shutdown, crash, repair at start-up.
*Hard:* a task is in the map and in the channel, each of which may hold it
without the other; a cancel and the processor share a field without a lock; the
scopes pass to the ledger's goroutine while the next task is executed; the
process ends between two of these.
*Correct when:* runs and ledgers of one directory work one after the other, an
announced ledger is ended, a waiting task is taken.

**Emby library refresh coordinator** — `models/emby_library_refresh_task.go`.
*State:* the rows of `emby_library_refresh_tasks` (pending, refreshing, over; due
time, deadline, related sync paths), the batch of download events, the channel
of one element that wakes the scanner, the one timer, the goroutines that ask,
the scanner with the copies it read.
*Operations:* requests for items and libraries, grouping by library, deadlines,
readiness, claim, the call of Emby and its result, download events, clearing of
downloads, the timer, start-up.
*Hard:* a change is announced while Emby is asked for the same row; rows are
absorbed by others that may be refreshing or about to expire; the scanner
decides on copies; one timer stands for all rows.
*Correct when:* each change is followed by a refresh that began after it or is
given up with its row, the debounce and the deadline hold, the scanner wakes in
time.

**Process life cycle** (`main.go`) — the order in which the start-up code starts
the two transfer queues and resets their rows, the repair of open syncs and
refreshes, the shutdown of the sync queue and the crash are part of the models
of what they concern.

### 1.2 How the components interact

Handlers, cron jobs and STRM syncs insert rows; the partial unique indexes over
active rows (`models/migrator.go`) are the only guard against two active tasks
of one target.  Each STRM sync stops both transfer queues when it begins and
starts them when it ends (`syncstrm/sync.go:603`), so a user's pause lasts until
the next sync.  Syncs of one source type are serialised by the sync task queue,
those of different types run in parallel.  What keeps them apart when their
directories overlap is the scope coordinator, which syncs, single-file
generation, edits of the configuration and scrapers all ask; a sync keeps its
scopes until its ledger is written, after the queue went on.  `SyncRun` is the
composition of the queue (`SyncTaskQueue`), the run and the coordinator
(`SyncScope`); `SyncPosition` is the composition of the coordinator with the
database and the cache its callers read.  A finished upload of the directory
monitor creates a STRM generation task in its post-processing; syncs, generation
and downloads ask the Emby coordinator for refreshes, which wait until the syncs
and downloads of their sync paths are over.

### 1.3 Not modelled yet, and not modelled

| component | state and hard behaviour | correct when |
| --- | --- | --- |
| 115 request executor (`v115open/queue_executor.go`, `throttle_manager.go`) | rate windows, global throttle, stop | limits hold; every request is answered |
| Emby webhook worker (`emby/webhook_worker.go`) | leases over rows, retries, evidence-guarded deletion | a lease has one holder; an expired one is taken over |
| Directory monitoring (`directoryupload`) | watcher, stability check, source clean-up | a source file is removed only after its upload is recorded |
| 115 token refresh (`v115auth`) | single flight of refreshes | one refresh at a time, all waiters get its result |
| Backup and restore (`backup`) | maintenance gate in front of everything | no write between the gate and the restore |
| Emby synchronisation, migrations, resumable 115 uploads, playback sessions | long pipelines, mostly data | later, or not at all |
| proxies, cloud clients, scraping, logs, notifications, updater, controllers, front end | pure I/O or data transformation | not modelled |

`PROJECT.json` lists every component with its sources, and the hazards of the
modelled ones with the line each bites at.

## 2. Modules

| module | role |
| --- | --- |
| `UploadLifecycle` | abstract specification: the life of an upload task, no queue |
| `UploadQueue` | the upload queue in detail; implements `UploadLifecycle` |
| `UploadQueueProofs` | theorems about `UploadQueue` |
| `UploadLifecycleProofs` | its refinement of `UploadLifecycle`, on top of those theorems |
| `MCUploadQueue` | instances for TLC |
| `DownloadQueue` | the download queue in detail |
| `DownloadQueueProofs` | theorems about `DownloadQueue` |
| `MCDownloadQueue` | instances for TLC |
| `StrmGeneration` | the rows of `strm_generation_tasks` and their worker |
| `StrmGenerationProofs` | theorems about `StrmGeneration` |
| `MCStrmGeneration` | instances for TLC |
| `SyncScope` | the coordinator: which scopes collide, asking, granting, giving back |
| `SyncScopeProofs` | theorems about `SyncScope` |
| `SyncPosition` | the callers of the coordinator, the database and the cache of positions |
| `SyncPositionProofs` | theorems about `SyncPosition`, on top of those about `SyncScope` |
| `MCSyncPosition` | instances for TLC |
| `SyncTaskQueue` | the actions of the queue of one source type |
| `SyncRun` | a STRM sync run, composed with `SyncTaskQueue` and `SyncScope` |
| `SyncRunProofs` | theorems about `SyncRun` |
| `MCSyncRun` | instances for TLC |
| `EmbyRefresh` | the rows of `emby_library_refresh_tasks`, their scanner and whoever asks |
| `EmbyRefreshProofs` | theorems about `EmbyRefresh` |
| `MCEmbyRefresh` | instances for TLC |

The plan from here, most important first:

1. An abstract specification of a parent task (children report, then one
   refresh), implemented by `StrmGeneration`; its invariants are proved already.
2. `RequestExecutor`: the rate windows and the global throttle of 115 requests.
3. The clean-up of source files of directory monitoring, composed with the
   upload queue; the leases of the webhook worker.

### 2.1 Grain

A step is what the code does under one hold of the queue's mutex, one channel
operation, or one SQL statement.  SQL statements are atomic (each is a single
statement or a transaction).  In `UploadQueue` the mutex is held for whole
functions, so Start, Stop and UpdateConcurrency are one step each, with the
dispatch of goroutines they end with (`StartWorkersLocked`); the scheduler's
round is eight steps because it gives the lock up for its queries.  In
`DownloadQueue` a control call is a *plan*, a sequence of steps that a caller
goroutine carries out one by one: `Stop` is `<<"stop", "close">>` because
`close(dq.tasks)` comes after the unlock, `Start` is
`<<"make", "reset", "launch", "spawn">>`.  `Locked(q)` says that a scheduler is
between `dq.mutex.Lock()` and the end of its round; every step that needs the
mutex waits for it, in either mode, workers in a transfer, SQL and `close` do
not.  `StrmGeneration` has one goroutine, and a step is one SQL statement or
transaction together with the work before it; `worker.pc` says which comes next.
In `SyncScope` a step is one hold of
`coordinator.mu`, in `SyncPosition` also one hold of `syncPositions.Mutex` or one
SQL statement or transaction; the paged query of the records is one step, since
whatever changes between two pages changes the version, which `Store` compares.
In `SyncTaskQueue` a step is one hold of `q.mutex`; the receive from the channel
and the accesses to `q.strmSync`, which the lock does not protect, are steps of
their own.  In `SyncRun` what a run does between two changes of its record (scan,
writing of files, clean-up) is part of the step that ends it.  In `EmbyRefresh` a
step is one transaction, one channel operation or one hold of the timer's lock.
Asking the table for the next due row and setting the timer are two steps for
callers and one for the batcher, the scanner and the start-up code: of those only
one runs at a time, and whoever comes between schedules again.

### 2.2 State

| code | `UploadQueue` | `DownloadQueue` |
| --- | --- | --- |
| status and retry columns | `row`, `retries` | `row`, `retries` |
| copies of rows | `Snapshot`: id and status | `Copy`: id and retry count, which `Save` writes back |
| the queue object | `running`, `numWorkers`, `tasks`, `active`, `reserved`, `retryTriggered` | `queue[q]`; the last is `GlobalDownloadQueue` |
| channels | `tasks`, `generation` for `uq.stop` | `channel[ch]`, `queue[q].tasks` names the present one |
| goroutines | `worker[w]`, `scheduler[g]` | `worker[w]`, `scheduler[s]`, `caller[c]` |
| main.go | `boot` | `boot`, the plan of `Boot` |

A transfer is one step with a nondeterministic outcome; the post-processing of
an upload is two.  `RetryFailedUploadTasks` and `RetryFailedDownloadTasks` are
one step, though the code updates row by row: every update repeats its
conditions, so rows change as they would one at a time, and only what is
visible between two of them is lost.  The index key of a row is `TargetOf`; rows
the code gives no key have a target of their own.

In `StrmGeneration` the status column is `status` and the counters of a parent are
`items` (of `changed_items` and `new_meta_items` only whether they are zero).
What the ordering columns are for is modelled as sequences: `created` is the
order of the ids, `line` the order of the worker's query, in which a task that
failed its finalization goes to the end.  `retried`, `backoff` and `skipping` are
`retry_count`, `last_retry_time` and `skip_reason` of finalizing rows.  A child is
the pair of its parent and its file, a directory is the set of files its listing
returns.  Two tasks overlap if they have the same parent, or are in one sync
path and name one file, or one of them takes the whole path; a position that is
read only later and overlaps is `DependencyWait`.  All parents have
`refresh_emby`.

A scope of `SyncScope` is the record of the code's type; optional fields are sets
of at most one element, paths are sequences of names, so that "is below" is
`IsPrefix`.  In `SyncPosition` `rowAt` and `fileAt` are the places in the tables,
`cache`, `version` and `writers` the fields of `syncPositions`, `mem[c]` the local
variables of `acquireSyncScope` and `pc[c]` the statement it is at.  A client is a
goroutine that calls it again and again; `Kind` says what it does under its
scopes.  In `SyncRun` a run is one record of `syncs`; its number is the client it
is for the coordinator.

In `EmbyRefresh` times are counted down: `refreshIn` and `deadlineIn` of a row say
how many ticks are left until `refresh_after_at` and the deadline, `timer` until
the timer fires.  `change` and `quiet` are history variables: whether Emby knows of
the last change of a key, and how long that change is younger than the debounce.
Completed, failed and cancelled rows are treated alike by the code and are one
status.

Left out on purpose, in `StrmGeneration`: what is written to the file system, the
refresh of single tasks, the clean-up of source files after a task is completed,
a request for a task that has settled (it makes a new row).  In the
two transfer queues: failing SQL statements in `DownloadQueue` (they are in
`UploadQueue`); downloads of 123 pan accounts, for which no driver creates tasks;
`Stop` of the shutdown and of the restore, which are the pause; refresh events
for Emby and for browsers; the rate limiter, which only delays a goroutine
between its check and its receive; cron syncs between main.go:735 and :752.  A
send and a panic: a send on, or a second close of, a closed channel ends the
process (`SendOnClosed`, `CloseTwice`), as nothing recovers it.

Left out in the other modules.  `SyncPosition`: failing statements, paths whose
links cannot be resolved, and (in the run only, not in `SyncScope` and its
proofs) scopes of a whole account.  `SyncRun`: how the scopes of a task are found
(that is `SyncPosition`; here they are fixed for each task), a failing save of a
result, scrape tasks, the removal of records after seven days; `Stop` of the
queue has no caller.  `EmbyRefresh`: which item a file belongs to, the repair of
items that were given a wrong library, switching the feature off, failing
statements.  That only one connection writes, as SQLite has it, is assumed of
its grouping transaction.

## 3. Runs

| run | what it shows | bounds |
| --- | --- | --- |
| `upload_dispatch` | `OneHolderPerTask`, `BooksBalance`, `StartsWithinLimit`, `TypeOK` | 2 tasks of one target, 2 slots, limit up to 2, 2 generations, 1 resize |
| `upload_lifecycle` | `ImplementsLifecycle`, `NoRetransfer`, `NoOrphanedRow` | 2 tasks, 1 slot, 2 generations, 1 crash, 1 failing statement, 1 failing post-processing |
| `upload_liveness` | `PendingIsServed`, `UploadedIsFinished`, `FailedIsRetried`, `ImplementsLifecycle` with retries | 2 tasks, 1 slot, 1 generation, 1 retry, 1 failing post-processing |
| `download_pause` | `PausedClaimsNothing`, `TypeOK` | 1 task, 2 slots, 2 overlapping callers, 1 queue object, 2 channels |
| `download_control` | `RunningIsOpen`, `RunningHasWorker` | 1 task, 2 slots, 1 caller making all four calls, 2 queue objects, 2 channels |
| `download_liveness` | `PendingIsServed` | 2 tasks, 1 slot, 1 retry, pauses |
| `strm_scan` | `CountsAgree`, `RefreshAfterLastChild`, `EveryTaskSettles` | a scan of 2 files, a single task elsewhere, 1 crash, 1 failing listing or finalization |
| `strm_batch` | `TypeOK`, `CountsAgree`, `RefreshNotLost`, `OrderKept`, `EveryTaskSettles` | a batch of up to 2 files, a single task of the same sync path, 1 crash, 1 failing statement, 1 failing finalization |
| `emby_refresh` | `NothingForgotten`, `WakesInTime`, `DebounceKept`, `DeadlineKept`, `ChangesAreServed` | 2 items of one library, threshold 2, 2 sync paths, 1 caller, 2 requests, debounce 1 and deadline 2 ticks, 1 crash |
| `sync_scopes` | `TypeOK`, `NoSharedScope`, `NoOvertaking`, `HeldIsCurrent`, `OneAtAPlace`, `CacheIsTrue`, `AskedIsAnswered` | a sync, an editor and a scraper, 2 sync paths, 1 file, 3 places, 1 mutation |
| `sync_queue` | `TypeOK`, `OneAtWork`, `LedgerIsEnded`, `WaitingIsTaken` | a sync path and a manual task with overlapping scopes, 3 runs, capacity 4, 1 pause, 1 crash |
| `sync_resume` | violated: `WaitingIsTaken` | 3 tasks, capacity 2, 1 pause |

Every bound is a CONSTANT: `MaxStarts`, `MaxCrashes`, `MaxResizes`,
`MaxDbErrors`, `MaxFinalErrors` count over a whole behaviour of `UploadQueue`
(Stop is possible only while another Start is, so that a run does not end
with a stopped queue for lack of budget); `MaxQueues` and `MaxChannels` count in
one life of the process of `DownloadQueue`, whose crashes are not bounded.
`MaxCrashes`, `MaxSaveErrors`, `MaxFinishErrors` of `StrmGeneration` count over a
whole behaviour, too, and `BatchLimit` (2 for the 5 of `generation_service.go:28`)
is less than the number of tasks, so that a batch does not hold all of them.
`MaxMutations`, `MaxAdds`, `MaxPauses` and `MaxRequests` count over a whole
behaviour, as do the `MaxCrashes` of `SyncRun` and `EmbyRefresh`.
`ChannelFactor` stands for the factor 10 of `download.go:73`.  Two tasks are
enough for the rivalry of one target and for the order of a batch; one slot more
than the limit shows goroutines of an earlier start beside new ones; two
generations, or two channels, are what it takes for somebody to hold an old
one.  The theorems of section 5 remove the bounds for every invariant and every action
property of the runs, under the conditions named there.
Goroutine slots, and callers, are interchangeable and reduced by symmetry in
runs without liveness.

Why they are the right questions:

- *upload_dispatch.* `OneHolderPerTask` needs the exclusion set, the reservation
  and its release to agree over a scheduler that slept through a stop, a start
  and a smaller limit.  `BooksBalance` is the reason why it works.
- *upload_lifecycle.* The abstract specification allows a transfer only of a
  queued task, and a way back from *uploaded* to *queued* never.  `lost` is the
  row in progress without a goroutine.  The start-up order is in it:
  `UpdateUploadingToPending` runs while goroutines already work.
- *download_pause.* After `Stop` has returned the scheduler may be between its
  test and the lock; the closed channel ends the process rather than letting
  it claim.  Overlapping pauses, resumes and syncs do not break this.
- *download_control.* One control call after the other keeps the queue alive.
  With two callers it does not hold: see section 3.2.

- *strm_scan*, *strm_batch.* A child reports to its parent before it is finished,
  so that a failing refresh is repeated without generating again.  `CountsAgree`
  says that this counts nothing twice, through crashes and deletions of the sync
  path; `RefreshNotLost` that somebody is always left to ask for the refresh;
  `OrderKept` that a failed finalization stops the rest of its batch, too.  Sync
  paths are deleted in both.  In `strm_scan` the directory does not change and
  the scan is the oldest task of its sync path; section 3.2 shows what happens
  otherwise.
- *emby_refresh.* `NothingForgotten` relates each change to the row that stands
  for it, through grouping, putting off and crashes; `WakesInTime` says that the
  one timer is never later than the first due row once everybody rests.  A
  deadline of two ticks against a debounce of one lets rows expire while they
  are put off, and be asked for again; a sync path that may stay busy for ever
  makes `ChangesAreServed` depend on the deadline.
- *sync_scopes.* `HeldIsCurrent` is what optimistic reading has to achieve.  The
  editor may move its directory above the scraper's and the sync's record stays
  behind, so old places, new places and the present one all matter.  One
  mutation is enough to make each read stale at each point; the proofs need no
  bound.
- *sync_queue.* `OneAtWork` needs the hand-over of the scopes: with three runs a
  ledger is written while the next run waits and a third is queued.  Cancels
  come at every point of a run.  The queue may really stop, after the last
  permitted add, so deadlock is not checked.

### 3.1 Where the code does not do what the repository says

- `sync_resume`: `Resume` sends every waiting task into the channel, also those
  whose entry of before the pause is still in it, and stops silently when the
  channel is full (`newqueue.go:488`).  A task of the pause may so never be sent;
  it stays in the map, and `AddTask` refuses it as existing, where
  `docs/architecture/sync-orchestration.md:78` has "恢复后重新投递".  In `sync_queue`
  the channel is large enough for second entries and `WaitingIsTaken` holds.

### 3.2 What the models have and no property forbids

- A cancel between the mark of a task as current and the assignment of
  `q.strmSync` reaches nothing (`newqueue.go:248`, `:424`): the run goes on and
  completes.
- A cancel between that assignment and the call makes the field nil; the call
  panics (`newqueue.go:327`), the queue recovers, and the record stays pending
  until the process starts again.  Such a record cannot be deleted meanwhile.
- `main.go:752` resets downloads in progress after `main.go:710` has started the
  queue.  A row whose copy is already in the channel is claimed again.
- Saving the thread settings drops a running download queue whose channel is
  empty (`download.go:50`) without ending its goroutines: after a pause they go
  on claiming.
- Of two overlapping syncs of different source types the second one's `Start`
  replaces the channel of the running download queue (`download.go:73`); the
  idle goroutines wait on the old channel for ever.
- A scan that a crash interrupts is expanded again.  A child of the first
  expansion that is no longer listed is counted towards the new total
  (`strm_generation_task.go:598`), so that the refresh of the parent may be
  asked for while a listed child still waits.
- A download may be marked in progress after its goroutine has recorded the
  outcome (`download.go:237-240`); the row then stays so until the next Start
  and blocks the automatic retry.
- After a fast restart during transfers more download goroutines run than the
  setting says; a smaller setting ends none of them.
- An upload row whose outcome could not be saved stays in progress until the
  process starts again, and blocks the idle retry meanwhile.
- After the user clears waiting uploads, a new task of a target may be
  transferred beside the goroutine of the deleted one.
- A scan can also be expanded again while one of its children is finalizing: if
  its expansion could not be saved, or if after a crash an older task of the sync
  path holds the scan back but not the child.  That child is counted in the new
  total and never reports again, so the scan waits for ever.
- A STRM row whose result could not be saved stays running until the process
  starts again; `EveryTaskSettles` leaves it out.
- The refresh of a parent may be asked for more than once: it is asked for
  before that is recorded.
- The idle retry happens once per idle period.  A failed upload whose rival was
  active then, and was deleted before it was dispatched, is not retried by
  itself; `FailedIsRetried` states what is left.

## 4. Fairness

`UploadQueue`: weak fairness of the start-up code, of every goroutine slot and of
every scheduler, which is what the Go runtime gives; transfers end because the
clients have timeouts.  `DownloadQueue`: strong fairness of callers, goroutines
and schedulers, because they compete for `dq.mutex`, and `sync.RWMutex` hands the
lock to whoever waits for it.  `StrmGeneration`: weak fairness of the worker, of
the start of the process and of the five seconds.  `SyncPosition`: weak fairness
of each client once it has begun, and of the end of its work, which gives the
scopes back; not of beginning, of a mutation or of a cancel.  `SyncRun`: weak
fairness of the processor, of each ledger goroutine and of the start of the
process; what a run does ends, because its requests have timeouts.
`EmbyRefresh`: weak fairness of callers that have begun, of the scanner (whose
ticker wakes it without anybody's help), of time and of the start; syncs and
downloads may go on for ever.  Nothing is assumed of users, jobs or crashes:
liveness properties of the transfer queues therefore end in "or the queue does
not run".

## 5. Proofs

`UploadQueueProofs` proves, for every finite set of tasks and slots and all
values of the bounds:

- `Invariance`: `Spec => []IInv`.
- `TypeCorrect`, `NoTaskHeldTwice`, `BooksAlwaysBalance`, `SendsNeverBlock`
  (`BufferFits`: no send under `uq.mutex` can block): the invariants.
- `StartsStayWithinLimit`, `NeverTransferredTwice`: the action properties.

`IInv` has three parts that are proved separately.  `Core` is the queue itself:
types of the channel, the pool and the reservations, one holder, balanced books,
a buffer that fits.  None of its parts is inductive alone: that a pushed task is
not executing needs `reserved` to name all executing tasks, that `reserved` may
be cut at an exit needs one holder.  `Rounds` says that the batch a scheduler
brings back from its query has no task twice, which the push relies on.
`Plain` is the rest of the type invariant.  The heart is the lemma `Dispatch`:
moving the first k buffered tasks to k free slots keeps `Core`; Start, Push,
UpdateConcurrency and WorkerExit all end in it.  `NeverTransferredTwice` needs
that each conditional UPDATE repeats the status it expects, and that a
goroutine in `revert` or `complete` writes only statuses after the transfer.

`UploadLifecycleProofs` proves the refinement, `QueueImplementsLifecycle`
(`ImplementsLifecycle`), and `NoRowOrphaned` (`NoOrphanedRow`).  `Phases` is the
refinement mapping: what the goroutine that holds a task knows, else what the row
says.  As a task is held once (`Core`), a goroutine's statement moves one phase
(`OwnStepPhases`), and a change of rows moves the phases of the tasks nobody
works on.  `Statement` lists what a goroutine can do to itself and its row in one
step, and `WorkerImplements` reads the abstract step off that list.  It needs what
the row can hold by then: `InTransfer` while the file is moved, `InFinishing`
while it is post-processed; without them a crash could turn an uploaded task into
a queued one.  `NoRowOrphaned` rests on `Tended`, which says who holds a row in
progress and how far that goroutine is, and on `IndexHolds`: the one Save the
unique index may refuse is never refused to a row that is active itself, so a
goroutine whose Save is refused leaves no row marked uploading.

`SyncScopeProofs` proves, for any clients and any scopes, `Exclusion`
(`NoSharedScope`) and `Order` (`NoOvertaking`).  The invariant `ScopeInv` says
that each request is in the list once, that a client has scopes exactly while it
is in the list, that who is granted is in the list, and that the granted ones do
not overlap.  The step that matters is `Grant`, which grants several at once:
two of one pass cannot overlap because one of them is earlier in the list and
blocks the other, and `Collide` is symmetric.  The lemmas are stated of
`ScopeStep`, any asking or giving back, so that modules which compose the
coordinator cite them.

`SyncPositionProofs` first shows that each step of `SyncPosition` is such a step
or leaves the coordinator alone (`PositionExclusion`, `PositionOrder`).  Then
`PosInv` explains why the optimistic reading works, for any number of clients,
sync paths, files, places and mutations:

- `Shared`: writers is the number of clients in a mutation, and the version is
  twice the mutations less the writers: each begin and each end moves it on.
- `CacheOK(p)`: an entry of the present version was stored with no writer at work
  and equals the table.
- `Timed(c)`: what a client has read is true as long as the version is the one
  it saw.  A mutation moves the version on before it changes a row
  (`VersionMovesOn`), so a commit falsifies nothing (`CommitKeeps`).
- `Frozen(c)`: a scraper looks at no version; what it reads for the second time
  it reads under its scopes.  `OnePathOneWriter` says that nobody else changes
  the rows of a sync path meanwhile: the configuration scopes of a reader and a
  writer collide.
- `Asking(c)`, `Configuring(c)`: what it asked for is what it read.
- `Held(c)`: the scopes of a holder cover the table.  `AskedCoversNow` makes it
  true at the last look, `CommitRewrites` and `OnePathOneWriter` keep it.

From it follow `HeldCurrent`, `CacheTrue`, `PositionTypes`, and, as two
beginnings of one path are comparable (`PrefixesCompare`), `OnePlace`.  The
assumptions are those of `PositionAssumption`: finitely many clients, places
that are paths, and that a sync or an edit is about all files of its path.

`SyncRunProofs` proves `RunExclusion` (`OneAtWork`) for any tasks, scopes,
capacities, cancels, shutdowns and crashes.  Its invariant adds to `ScopeInv`
that a run at work and each ledger goroutine is granted, that a run in the
foreground has no ledger goroutine yet, and that a run that was not created has
no part in anything, so that a new one starts without either.

`RunTypeCorrect` (`TypeOK`) is proved of `RunTypeInv`, relative to the first:
`RowInv` says how far a record must be for a ledger or its goroutine to exist, so
that only a completed record has a ledger in flight, and `FieldInv` that a cancel
finds no run but the one in the foreground.

`DownloadQueueProofs` proves, for every finite set of tasks, slots and callers:

- `TypeCorrect` (`TypeOK`), with any number of overlapping calls.  A control call
  is carried out step by step, so `TypeInv` speaks of the rest of each caller's
  plan: `Ordered` says what may follow what, and `CallerFits` what has been made
  when a step is reached.  A scheduler and a working goroutine refer to a queue
  that has had a channel (`Made`), which is never taken back.
- `RunningStaysOpen` (`RunningIsOpen`) and `RunningIsServed` (`RunningHasWorker`),
  provided there is one caller (`OneCaller`), any number of queue objects
  notwithstanding.  `OpenInv` says what a caller without rivals knows: between
  `stop` and `close` the queue does not run, between `make` and `launch` its
  channel is open, and no two queues share one.  With two callers both fail, as
  section 3.2 describes.
- `PauseIsKept` (`PausedClaimsNothing`), with any number of overlapping callers,
  provided nobody makes a second queue object (`OneQueue`).  A stopped queue has
  its channel closed, or somebody is about to close it or to start it
  (`PauseInv`); a scheduler that went on would send on a closed channel, which
  ends the process.  Saving the settings drops a queue whose goroutines go on.

`EmbyRefreshProofs` proves, for any items, libraries, groupings and times:
`NothingIsForgotten` (`NothingForgotten`), `WakeUpInTime` (`WakesInTime`),
`DebounceIsKept` (`DebounceKept`) and `DeadlineIsKept` (`DeadlineKept`).  `IInv`
names for each change the row that stands for it (`Backed`): the row of the item
or of its library, active, with the sync path of the item, and pending for at
least as long as the change has to wait.  `NothingForgotten` alone is not
inductive: that the row of an item keeps the item's sync path (`Own`) is what
makes it a stand-in again after a crash, and that a row may be claimed only when
`refreshIn` is 0 is tied to the change by the waiting time in `StandsFor`.
`WakesInTime` needs that invariant and is then inductive itself.

`StrmGenerationProofs` has four inductive invariants, each relative to the ones
before, for any tasks, files, sync paths, limits and bounds:

- `ShapeInv` (`RowsFitTheWorker`): the queue is the active rows, each once; the
  worker's batch is part of it; its task has the status its program counter says.
  With `BatchFree`, the rest of a batch is not blocked, it gives `OrderIsKept`
  (`OrderKept`): a failed finalization ends the batch, and while one is worked on
  nobody else makes a task wait for an older one.
- `DueInv` gives `RefreshIsNotLost` (`RefreshNotLost`): a parent becomes ready
  only in the step that makes its last child finalizing, and a child leaves
  finalizing without having asked only if the refresh is not due.
- `LateInv` gives `RefreshComesLast` (`RefreshAfterLastChild`), provided the
  listing of a directory does not change (`SameListing`).  Repeated expansions
  make the counters of a scan wrong, but never too high: a parent that waits has
  not been told of more results than there are, so the last one it waits for is
  the last one (`LateOf`).  `Listed` says that the expansion finds the children of
  an earlier one again.
- `CountInv` gives `CountersAgree` (`CountsAgree`) and `TypesAreKept` (`TypeOK`, of
  which `ShapeInv` is all but the bound of the counters), provided there are no
  scans or the process has not ended yet (`ExpandedOnce`).  Batches keep their
  counters through any crashes.  A scan that has not been expanded has no
  children, and its expansion makes each of those it counts.  The condition is
  needed: after a crash a child of the first expansion may report before or after
  the counters are set anew, and the properties fail where TLC may also let a
  statement fail.  What `strm_scan` checks beyond the theorem is one crash in an
  instance where no statement fails.

Steps that leave the results of all children alone are the same for the last two
(`Gentle`); what is left are the steps of a result, an expansion, a batch and a
deletion.  Sets of children are counted with the lemmas on `Number`, and the
sequences `created` and `line` are read through those on `Among`, which is defined
by positions so that it can be reasoned about without induction over sequences.

The proofs use the named assumptions on the constants of the modules, the
conditions named above and nothing else; TLC evaluates the assumptions in every
run.  Two of them are there for the proofs: that there are finitely many callers
of the download queue, and that a request to the Emby coordinator names at least
one row, as the code returns early if there is nothing to ask for.

Only model-checked: all liveness, which under fairness is out of the prover's
reach; `WaitingIsTaken`, `LedgerIsEnded`, `AskedIsAnswered`, `EveryTaskSettles`,
`ChangesAreServed`, `PendingIsServed`, `UploadedIsFinished` and `FailedIsRetried`.
Of the safety properties, `CountsAgree` after a scan has been expanded again,
which TLC checks in `strm_scan`, where it holds for want of a failing statement.
