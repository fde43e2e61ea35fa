----------------------------- MODULE UploadQueue -----------------------------
(***************************************************************************)
(* The upload queue of the backend: the in-process dispatcher UQ           *)
(* (internal/models/upload.go) together with the life of the rows of       *)
(* db_upload_tasks it works on (internal/models/dbupload.go).              *)
(*                                                                         *)
(* Actors: one scheduler goroutine per generation (Start makes a new stop  *)
(* channel), one goroutine per dispatched task, the HTTP handlers and the  *)
(* cron job that change rows or the queue, the start-up code of main.go,   *)
(* and a process that may be killed at any moment.  A step is what happens *)
(* under one hold of uq.mutex, or one SQL statement.                       *)
(*                                                                         *)
(* A definition that stands right before another and names a slip          *)
(* (...Forgotten, ...KeepingReservations) is a plausible bug of the next   *)
(* one; no specification uses it.                                          *)
(*                                                                         *)
(* Rows survive a crash, everything else is lost with the process.         *)
(***************************************************************************)
EXTENDS Integers, Sequences, FiniteSets, Functions

CONSTANTS
  Task,           \* the ids the table hands out (AUTOINCREMENT)
  TargetOf,       \* TargetOf[t]: the active-target index key of row t
  Worker,         \* slots for the goroutines that run Upload()
  MaxThreads,     \* MaxUploadThreads, the largest concurrency accepted
  MaxRetry,       \* DefaultQueueRetryMax
  MaxStarts,      \* bound: generations of the queue over the whole run
  MaxCrashes,     \* bound: times the process is killed
  MaxResizes,     \* bound: changes of the concurrency setting
  MaxDbErrors,    \* bound: SQL statements that fail
  MaxFinalErrors  \* bound: post-processing passes that fail

ASSUME TaskAssumption ==
  /\ Task \subseteq Nat
  /\ IsFiniteSet(Task)
  /\ DOMAIN TargetOf = Task

ASSUME WorkerAssumption == IsFiniteSet(Worker)

ASSUME BoundAssumption ==
  /\ MaxThreads \in Nat \ {0}
  /\ MaxRetry \in Nat
  /\ MaxStarts \in Nat
  /\ MaxCrashes \in Nat
  /\ MaxResizes \in Nat
  /\ MaxDbErrors \in Nat
  /\ MaxFinalErrors \in Nat

VARIABLES
  row,            \* row[t]: the status column, or why there is no row
  retries,        \* retries[t]: the retry_count column
  boot,           \* how far the process has come in main.go
  running,        \* uq.running
  generation,     \* identity of uq.stop, bumped by every Start
  numWorkers,     \* uq.numWorkers, the configured limit
  tasks,          \* uq.tasks, the buffered channel
  active,         \* uq.active
  reserved,       \* uq.reserved
  retryTriggered, \* uq.retryTriggered
  worker,         \* worker[w]: a goroutine inside worker()
  scheduler,      \* scheduler[g]: the taskScheduler goroutine of generation g
  crashes, resizes, dbErrors, finalErrors   \* counters behind the bounds

queueVars == <<running, generation, numWorkers, tasks, active, reserved,
               retryTriggered>>
budgetVars == <<crashes, resizes, dbErrors, finalErrors>>
vars == <<row, retries, boot, queueVars, worker, scheduler, budgetVars>>

-----------------------------------------------------------------------------
(* The status column.                                                      *)

Unborn == "unborn"       \* the id has not been handed out yet
Deleted == "deleted"     \* the row was deleted
Pending == "pending"
Uploading == "uploading"
Completed == "completed"
Failed == "failed"
Cancelled == "cancelled"
PendingFinalize == "remote_completed_pending_finalize"
Finalizing == "remote_completed_finalizing"

Active == {Pending, Uploading, PendingFinalize, Finalizing}
Status == Active \cup {Completed, Failed, Cancelled}
Claimable == {Pending, PendingFinalize}

\* The statement a worker executes next: claimPendingUpload, the transfer, the
\* Save of its outcome (Fail, cancelWithError, MarkRemoteCompletedPendingFinalize),
\* claimRemoteCompletedFinalize, the post-processing, complete,
\* revertRemoteCompletedFinalizing, the deferred release.
WorkerPc == {"idle", "claim", "transfer", "fail", "cancel", "markUploaded",
             "claimFinalize", "finalize", "complete", "revert", "exit"}
SchedulerPc == {"off", "wait", "count", "countUploading", "idleLock",
                "retry", "fetch", "push"}
Generation == 1..MaxStarts

\* A task taken from the database: the row's id and the status it had then.
Snapshot == [task : Task, status : Claimable]
IdleWorker == [pc |-> "idle"]
BusyWorker == [pc : WorkerPc \ {"idle"}, task : Task]
NoScheduler == [pc |-> "off", excluded |-> {}, space |-> 0, batch |-> <<>>]
Waiting == [NoScheduler EXCEPT !.pc = "wait"]

-----------------------------------------------------------------------------
(* The partial unique index over active rows of one target.                *)

ActiveRival(t) ==
  \E u \in Task \ {t} : TargetOf[u] = TargetOf[t] /\ row[u] \in Active

\* gorm's Save writes the row whatever it holds now, and inserts it again
\* when it is gone; only the index can refuse it.
SaveAccepted(t, s) == s \in Active => ~ActiveRival(t)

\* RetryFailedUploadTasks: each failed row with budget left goes back to
\* pending unless its target has an active row; of two such rows of one target
\* the first wins.
RetriableForEver(t) == row[t] = Failed /\ ~ActiveRival(t)
Retriable(t) ==
  /\ row[t] = Failed
  /\ retries[t] < MaxRetry
  /\ ~ActiveRival(t)
Retried == {t \in Task : /\ Retriable(t)
                         /\ \A u \in Task : /\ u < t
                                            /\ TargetOf[u] = TargetOf[t]
                                            => ~Retriable(u)}
RetryFailedUploadTasks ==
  /\ row' = [t \in Task |-> IF t \in Retried THEN Pending ELSE row[t]]
  /\ retries' = [t \in Task |-> IF t \in Retried THEN retries[t] + 1
                                                 ELSE retries[t]]

-----------------------------------------------------------------------------
(* Dispatch, under uq.mutex.                                               *)

Busy(pool) == {w \in Worker : pool[w].pc # "idle"}
Executing(pool) == {pool[w].task : w \in Busy(pool)}
Buffered(chan) == {chan[i].task : i \in DOMAIN chan}

\* Upload() branches at once on the status the snapshot carries.
Launched(snapshot) ==
  [pc |-> IF snapshot.status = PendingFinalize THEN "claimFinalize" ELSE "claim",
   task |-> snapshot.task]

FreeSlotsOfEmptyPool(act, chan) ==
  IF numWorkers < Len(chan) THEN numWorkers ELSE Len(chan)
FreeSlots(act, chan) ==
  IF act >= numWorkers THEN 0
  ELSE IF numWorkers - act < Len(chan) THEN numWorkers - act ELSE Len(chan)

\* startWorkersLocked on the channel, counter and goroutines the caller has
\* just computed: the loop moves the first k buffered tasks to new goroutines.
StartWorkersLocked(chan, act, pool) ==
  LET k == IF running THEN FreeSlots(act, chan) ELSE 0
  IN  \E slot \in Injection(1..k, Worker \ Busy(pool)) :
        /\ tasks' = SubSeq(chan, k + 1, Len(chan))
        /\ active' = act + k
        /\ worker' = [w \in Worker |->
                        IF \E i \in 1..k : slot[i] = w
                          THEN Launched(chan[CHOOSE i \in 1..k : slot[i] = w])
                          ELSE pool[w]]

-----------------------------------------------------------------------------
(* Process start, Start, Stop, UpdateConcurrency, and the crash.           *)

Init ==
  /\ row = [t \in Task |-> Unborn]
  /\ retries = [t \in Task |-> 0]
  /\ boot = "down"
  /\ running = FALSE
  /\ generation = 0
  /\ numWorkers \in 1..MaxThreads
  /\ tasks = <<>>
  /\ active = 0
  /\ reserved = {}
  /\ retryTriggered = FALSE
  /\ worker = [w \in Worker |-> IdleWorker]
  /\ scheduler = [g \in Generation |-> NoScheduler]
  /\ crashes = 0
  /\ resizes = 0
  /\ dbErrors = 0
  /\ finalErrors = 0

\* A new stop channel and the scheduler that listens to it.
NewGeneration ==
  /\ generation < MaxStarts
  /\ running' = TRUE
  /\ generation' = generation + 1
  /\ scheduler' = [scheduler EXCEPT ![generation + 1] = Waiting]

\* InitUQ in initOthers: the queue runs before the stale rows are reset.
InitUQ ==
  /\ boot = "down"
  /\ boot' = "starting"
  /\ NewGeneration
  /\ UNCHANGED <<row, retries, numWorkers, tasks, active, reserved,
                 retryTriggered, worker, budgetVars>>

\* UpdateUploadingToPending, first statement.
ResetUploading ==
  /\ boot = "starting"
  /\ boot' = "resetting"
  /\ row' = [t \in Task |-> IF row[t] = Uploading THEN Pending ELSE row[t]]
  /\ UNCHANGED <<retries, queueVars, worker, scheduler, budgetVars>>

\* UpdateUploadingToPending, second statement.
ResetFinalizingForgotten ==
  /\ boot = "resetting"
  /\ boot' = "up"
  /\ UNCHANGED <<row, retries, queueVars, worker, scheduler, budgetVars>>
ResetFinalizing ==
  /\ boot = "resetting"
  /\ boot' = "up"
  /\ row' = [t \in Task |-> IF row[t] = Finalizing THEN PendingFinalize ELSE row[t]]
  /\ UNCHANGED <<retries, queueVars, worker, scheduler, budgetVars>>

Start ==
  /\ boot # "down"
  /\ ~running
  /\ NewGeneration
  /\ UNCHANGED <<row, retries, boot, numWorkers, tasks, active, reserved,
                 retryTriggered, worker, budgetVars>>

\* The buffer goes back to the database, work in flight goes on.  The caller
\* then waits for the scheduler, which changes nothing.
StopKeepingReservations ==
  /\ running
  /\ generation < MaxStarts
  /\ running' = FALSE
  /\ tasks' = <<>>
  /\ UNCHANGED <<row, retries, boot, generation, numWorkers, active, reserved,
                 retryTriggered, worker, scheduler, budgetVars>>
Stop ==
  /\ running
  /\ generation < MaxStarts
  /\ running' = FALSE
  /\ tasks' = <<>>
  /\ reserved' = reserved \ Buffered(tasks)
  /\ UNCHANGED <<row, retries, boot, generation, numWorkers, active,
                 retryTriggered, worker, scheduler, budgetVars>>

\* A new channel of the new size; what does not fit is released.
UpdateConcurrencyReleasingAll(n) ==
  /\ boot # "down"
  /\ resizes < MaxResizes
  /\ n \in (1..MaxThreads) \ {numWorkers}
  /\ resizes' = resizes + 1
  /\ numWorkers' = n
  /\ tasks' = SubSeq(tasks, 1, IF n < Len(tasks) THEN n ELSE Len(tasks))
  /\ reserved' = reserved \ Buffered(tasks)
  /\ UNCHANGED <<row, retries, boot, running, generation, active,
                 retryTriggered, worker, scheduler, crashes, dbErrors, finalErrors>>
UpdateConcurrency(n) ==
  /\ boot # "down"
  /\ resizes < MaxResizes
  /\ n \in (1..MaxThreads) \ {numWorkers}
  /\ resizes' = resizes + 1
  /\ numWorkers' = n
  /\ tasks' = SubSeq(tasks, 1, IF n < Len(tasks) THEN n ELSE Len(tasks))
  /\ reserved' = reserved \ Buffered(SubSeq(tasks, n + 1, Len(tasks)))
  /\ UNCHANGED <<row, retries, boot, running, generation, active,
                 retryTriggered, worker, scheduler, crashes, dbErrors, finalErrors>>

Crash ==
  /\ boot # "down"
  /\ crashes < MaxCrashes
  /\ generation < MaxStarts
  /\ crashes' = crashes + 1
  /\ boot' = "down"
  /\ running' = FALSE
  /\ tasks' = <<>>
  /\ active' = 0
  /\ reserved' = {}
  /\ retryTriggered' = FALSE
  /\ worker' = [w \in Worker |-> IdleWorker]
  /\ scheduler' = [g \in Generation |-> NoScheduler]
  /\ UNCHANGED <<row, retries, generation, numWorkers, resizes, dbErrors,
                 finalErrors>>

-----------------------------------------------------------------------------
(* The handlers and jobs that create and delete rows.                      *)

RowsChange ==
  /\ boot # "down"
  /\ UNCHANGED <<boot, queueVars, worker, scheduler, budgetVars>>

\* Every entry checks the target, then inserts under the unique index.
AddUploadTask(t) ==
  /\ RowsChange
  /\ row[t] = Unborn
  /\ \A u \in Task : u < t => row[u] # Unborn
  /\ ~ActiveRival(t)
  /\ row' = [row EXCEPT ![t] = Pending]
  /\ UNCHANGED retries

\* Directory monitoring replaces its failed task in the same transaction.
SupersedeFailedUploadTask(old, t) ==
  /\ RowsChange
  /\ row[t] = Unborn
  /\ \A u \in Task : u < t => row[u] # Unborn
  /\ ~ActiveRival(t)
  /\ TargetOf[old] = TargetOf[t]
  /\ row[old] = Failed
  /\ row' = [row EXCEPT ![t] = Pending, ![old] = Cancelled]
  /\ UNCHANGED retries

\* A remote file with the same content makes a row that is born completed.
AddRemoteExistsUploadTask(t) ==
  /\ RowsChange
  /\ row[t] = Unborn
  /\ \A u \in Task : u < t => row[u] # Unborn
  /\ row' = [row EXCEPT ![t] = Completed]
  /\ UNCHANGED retries

DeleteRows(doomed) ==
  /\ RowsChange
  /\ row' = [t \in Task |-> IF t \in doomed THEN Deleted ELSE row[t]]
  /\ UNCHANGED retries

ClearPendingUploadTasks ==
  /\ boot = "up"
  /\ DeleteRows({t \in Task : row[t] = Pending})

ClearUploadSuccessAndFailed ==
  /\ boot = "up"
  /\ DeleteRows({t \in Task : row[t] \in {Completed, Failed}})

\* The daily job deletes by age alone: every row up to some id.
ClearExpireUploadTasks(last) ==
  DeleteRows({t \in Task : t <= last /\ row[t] # Unborn})

\* The retry endpoint; the scheduler makes the same call when it is idle.
RetryFailedByUser ==
  /\ boot = "up"
  /\ RetryFailedUploadTasks
  /\ UNCHANGED <<boot, queueVars, worker, scheduler, budgetVars>>

-----------------------------------------------------------------------------
(* worker(): Upload() statement by statement, then the deferred release.   *)
\* The goroutine in slot w goes on at pc.
Goes(w, pc) == worker' = [worker EXCEPT ![w].pc = pc]

WorkerStep(w, pc) ==
  /\ worker[w].pc = pc
  /\ UNCHANGED <<retries, boot, queueVars, scheduler, crashes, resizes>>

NoFault == UNCHANGED <<dbErrors, finalErrors>>

\* The statement about to run fails.
DbError ==
  /\ dbErrors < MaxDbErrors
  /\ dbErrors' = dbErrors + 1
  /\ UNCHANGED finalErrors

\* UPDATE ... WHERE id = ? AND status = from; the goroutine learns from
\* RowsAffected whether it got the row.
ConditionalUpdate(w, from, to, pcWon, pcLost) ==
  LET t == worker[w].task
  IN  IF row[t] = from
        THEN /\ row' = [row EXCEPT ![t] = to]
             /\ Goes(w, pcWon)
        ELSE /\ UNCHANGED row
             /\ Goes(w, pcLost)

\* claimPendingUpload.
ClaimUnconditionally(w) ==
  /\ WorkerStep(w, "claim")
  /\ row' = [row EXCEPT ![worker[w].task] = Uploading]
  /\ Goes(w, "transfer")
  /\ NoFault
ClaimPendingUpload(w) ==
  /\ WorkerStep(w, "claim")
  /\ ConditionalUpdate(w, Pending, Uploading, "transfer", "exit")
  /\ NoFault

\* The checks of the local file and the transfer itself: the file is missing
\* or the transfer fails, the fingerprint differs, or the file is at the
\* remote side.
Transfer(w) ==
  /\ WorkerStep(w, "transfer")
  /\ \E pc \in {"fail", "cancel", "markUploaded"} : Goes(w, pc)
  /\ UNCHANGED row
  /\ NoFault

Outcome(pc) == CASE pc = "fail" -> Failed
                 [] pc = "cancel" -> Cancelled
                 [] pc = "markUploaded" -> PendingFinalize

\* One Save writes the outcome, whatever the row holds by now.
SaveOutcome(w, pc) ==
  LET t == worker[w].task
  IN  /\ WorkerStep(w, pc)
      /\ SaveAccepted(t, Outcome(pc))
      /\ row' = [row EXCEPT ![t] = Outcome(pc)]
      /\ Goes(w, IF pc = "markUploaded" THEN "claimFinalize" ELSE "exit")
      /\ NoFault

\* The index refuses the Save; the result is only logged.
SaveRefused(w, pc) ==
  /\ WorkerStep(w, pc)
  /\ ~SaveAccepted(worker[w].task, Outcome(pc))
  /\ Goes(w, "exit")
  /\ UNCHANGED row
  /\ NoFault

\* claimRemoteCompletedFinalize.
ClaimRemoteCompletedFinalize(w) ==
  /\ WorkerStep(w, "claimFinalize")
  /\ ConditionalUpdate(w, PendingFinalize, Finalizing, "finalize", "exit")
  /\ NoFault

\* finalizeRemoteCompletedUpload up to complete(): the directory ledger, the
\* STRM task, the scraper's temporary files.
FinalizeRemoteCompletedUpload(w) ==
  /\ WorkerStep(w, "finalize")
  /\ Goes(w, "complete")
  /\ UNCHANGED row
  /\ NoFault

FinalizeError(w) ==
  /\ WorkerStep(w, "finalize")
  /\ finalErrors < MaxFinalErrors
  /\ finalErrors' = finalErrors + 1
  /\ Goes(w, "revert")
  /\ UNCHANGED <<row, dbErrors>>

\* complete() saves whatever the row holds by now.
Complete(w) ==
  /\ WorkerStep(w, "complete")
  /\ row' = [row EXCEPT ![worker[w].task] = Completed]
  /\ Goes(w, "exit")
  /\ NoFault

\* revertRemoteCompletedFinalizing.
RevertToPending(w) ==
  /\ WorkerStep(w, "revert")
  /\ ConditionalUpdate(w, Finalizing, Pending, "exit", "exit")
  /\ NoFault
RevertForgotten(w) ==
  /\ WorkerStep(w, "revert")
  /\ Goes(w, "exit")
  /\ UNCHANGED row
  /\ NoFault
RevertRemoteCompletedFinalizing(w) ==
  /\ WorkerStep(w, "revert")
  /\ ConditionalUpdate(w, Finalizing, PendingFinalize, "exit", "exit")
  /\ NoFault

\* A failed statement ends Upload(), except that a failed complete() reverts.
WorkerDbError(w) ==
  /\ \E pc \in {"claim", "fail", "cancel", "markUploaded", "claimFinalize",
                "complete", "revert"} :
       /\ WorkerStep(w, pc)
       /\ Goes(w, IF pc = "complete" THEN "revert" ELSE "exit")
  /\ DbError
  /\ UNCHANGED row

\* The deferred function of worker().
WorkerExitKeepingReservation(w) ==
  /\ worker[w].pc = "exit"
  /\ StartWorkersLocked(tasks, active - 1, [worker EXCEPT ![w] = IdleWorker])
  /\ UNCHANGED <<row, retries, boot, running, generation, numWorkers, reserved,
                 retryTriggered, scheduler, budgetVars>>
WorkerExit(w) ==
  /\ worker[w].pc = "exit"
  /\ reserved' = reserved \ {worker[w].task}
  /\ StartWorkersLocked(tasks, active - 1, [worker EXCEPT ![w] = IdleWorker])
  /\ UNCHANGED <<row, retries, boot, running, generation, numWorkers,
                 retryTriggered, scheduler, budgetVars>>

WorkerNext(w) ==
  \/ ClaimPendingUpload(w)
  \/ Transfer(w)
  \/ \E pc \in {"fail", "cancel", "markUploaded"} :
       SaveOutcome(w, pc) \/ SaveRefused(w, pc)
  \/ ClaimRemoteCompletedFinalize(w)
  \/ FinalizeRemoteCompletedUpload(w)
  \/ FinalizeError(w)
  \/ Complete(w)
  \/ RevertRemoteCompletedFinalizing(w)
  \/ WorkerDbError(w)
  \/ WorkerExit(w)

-----------------------------------------------------------------------------
(* taskScheduler and moveTasksToChannel, lock by lock and query by query.  *)

\* !uq.running || uq.stop != stop, negated.
Current(g) == running /\ generation = g

SchedulerStep(g, pc) ==
  /\ scheduler[g].pc = pc
  /\ UNCHANGED <<boot, running, generation, numWorkers, crashes, resizes,
                finalErrors>>

\* The locals of a round are live up to the fetch, the batch up to the push.
Proceeds(g, pc) == scheduler' = [scheduler EXCEPT ![g] = [NoScheduler EXCEPT !.pc = pc]]
BackToWait(g) == Proceeds(g, "wait")

\* A tick or a wake: fill the workers, note the room and what to leave out.
Tick(g) ==
  /\ SchedulerStep(g, "wait")
  /\ Current(g)
  /\ StartWorkersLocked(tasks, active, worker)
  /\ scheduler' = [scheduler EXCEPT ![g] =
       IF Len(tasks') = numWorkers
         THEN Waiting
         ELSE [pc |-> "count", excluded |-> reserved,
               space |-> numWorkers - Len(tasks'), batch |-> <<>>]]
  /\ UNCHANGED <<row, retries, reserved, retryTriggered, dbErrors>>

\* The stop channel is closed.
SchedulerStops(g) ==
  /\ SchedulerStep(g, "wait")
  /\ ~Current(g)
  /\ scheduler' = [scheduler EXCEPT ![g] = NoScheduler]
  /\ UNCHANGED <<row, retries, tasks, active, worker, reserved,
                 retryTriggered, dbErrors>>

\* What only reads the database or the lock leaves all of this alone.
SchedulerReads ==
  UNCHANGED <<row, retries, tasks, active, worker, reserved>>

CountClaimable(g) ==
  /\ SchedulerStep(g, "count")
  /\ IF \E t \in Task : row[t] \in Claimable
       THEN scheduler' = [scheduler EXCEPT ![g].pc = "fetch"]
       ELSE Proceeds(g, "countUploading")
  /\ SchedulerReads
  /\ UNCHANGED <<retryTriggered, dbErrors>>

\* GetUploadingCount.
CountUploading(g) ==
  /\ SchedulerStep(g, "countUploading")
  /\ IF \E t \in Task : row[t] \in {Uploading, Finalizing}
       THEN BackToWait(g)
       ELSE Proceeds(g, "idleLock")
  /\ SchedulerReads
  /\ UNCHANGED <<retryTriggered, dbErrors>>

\* Nothing to do anywhere: one retry of the failed tasks per idle period.
EnterIdle(g) ==
  /\ SchedulerStep(g, "idleLock")
  /\ IF Current(g) /\ active = 0 /\ tasks = <<>> /\ ~retryTriggered
       THEN retryTriggered' = TRUE /\ Proceeds(g, "retry")
       ELSE UNCHANGED retryTriggered /\ BackToWait(g)
  /\ SchedulerReads
  /\ UNCHANGED dbErrors

RetryWhenIdle(g) ==
  /\ SchedulerStep(g, "retry")
  /\ RetryFailedUploadTasks
  /\ BackToWait(g)
  /\ UNCHANGED <<tasks, active, worker, reserved, retryTriggered, dbErrors>>

\* f lists the k smallest elements of S, or all of S, in ascending order.
AtMost(k, n) == IF k < n THEN k ELSE n
Smallest(f, k, S) ==
  LET n == AtMost(k, Cardinality(S))
  IN  /\ f \in Injection(1..n, S)
      /\ \A i, j \in 1..n : i < j => f[i] < f[j]
      /\ \A u \in S \ Range(f) : \A i \in 1..n : f[i] < u
SmallestLists(k, S) ==
  {f \in Injection(1..AtMost(k, Cardinality(S)), S) : Smallest(f, k, S)}

\* GetPendingUploadTasks: ORDER BY id LIMIT space, as snapshots.
Wanted(g) == {t \in Task \ scheduler[g].excluded : row[t] \in Claimable}
GetPendingUploadTasks(g) ==
  /\ SchedulerStep(g, "fetch")
  /\ \E id \in SmallestLists(scheduler[g].space, Wanted(g)) :
       scheduler' = [scheduler EXCEPT ![g] =
         [pc |-> "push", excluded |-> {}, space |-> 0,
          batch |-> [i \in DOMAIN id |-> [task |-> id[i], status |-> row[id[i]]]]]]
  /\ SchedulerReads
  /\ UNCHANGED <<retryTriggered, dbErrors>>

\* The batch entries that are not reserved go into the channel, in order and
\* while there is room.
Fresh(g) == {i \in DOMAIN scheduler[g].batch : scheduler[g].batch[i].task \notin reserved}
Room == IF Len(tasks) < numWorkers THEN numWorkers - Len(tasks) ELSE 0

PushWithoutRearming(g) ==
  /\ SchedulerStep(g, "push")
  /\ IF Current(g)
       THEN \E pick \in SmallestLists(Room, Fresh(g)) :
              LET accepted == [i \in DOMAIN pick |-> scheduler[g].batch[pick[i]]]
              IN  /\ reserved' = reserved \cup Buffered(accepted)
                  /\ StartWorkersLocked(tasks \o accepted, active, worker)
       ELSE UNCHANGED <<reserved, tasks, active, worker>>
  /\ BackToWait(g)
  /\ UNCHANGED <<row, retries, retryTriggered, dbErrors>>
Push(g) ==
  /\ SchedulerStep(g, "push")
  /\ IF Current(g)
       THEN \E pick \in SmallestLists(Room, Fresh(g)) :
              LET accepted == [i \in DOMAIN pick |-> scheduler[g].batch[pick[i]]]
              IN  /\ retryTriggered' = FALSE
                  /\ reserved' = reserved \cup Buffered(accepted)
                  /\ StartWorkersLocked(tasks \o accepted, active, worker)
       ELSE UNCHANGED <<retryTriggered, reserved, tasks, active, worker>>
  /\ BackToWait(g)
  /\ UNCHANGED <<row, retries, dbErrors>>

\* Failed queries: the first count ends the round, the second reads as zero,
\* a failed retry re-arms the idle retry, a failed fetch yields no task.
SchedulerDbError(g) ==
  /\ \/ /\ SchedulerStep(g, "count")
        /\ BackToWait(g)
        /\ UNCHANGED retryTriggered
     \/ /\ SchedulerStep(g, "countUploading")
        /\ Proceeds(g, "idleLock")
        /\ UNCHANGED retryTriggered
     \/ /\ SchedulerStep(g, "retry")
        /\ BackToWait(g)
        /\ retryTriggered' = (retryTriggered /\ generation # g)
     \/ /\ SchedulerStep(g, "fetch")
        /\ Proceeds(g, "push")
        /\ UNCHANGED retryTriggered
  /\ dbErrors < MaxDbErrors
  /\ dbErrors' = dbErrors + 1
  /\ SchedulerReads

SchedulerNext(g) ==
  \/ Tick(g)
  \/ SchedulerStops(g)
  \/ CountClaimable(g)
  \/ CountUploading(g)
  \/ EnterIdle(g)
  \/ RetryWhenIdle(g)
  \/ GetPendingUploadTasks(g)
  \/ Push(g)
  \/ SchedulerDbError(g)

-----------------------------------------------------------------------------
(* An error in UpdateUploadingToPending ends it; start-up goes on.         *)
ResetError ==
  /\ boot \in {"starting", "resetting"}
  /\ boot' = "up"
  /\ DbError
  /\ UNCHANGED <<row, retries, queueVars, worker, scheduler, crashes, resizes>>

Startup == ResetUploading \/ ResetFinalizing \/ ResetError

Operator ==
  \/ Start
  \/ Stop
  \/ \E n \in 1..MaxThreads : UpdateConcurrency(n)
  \/ \E t \in Task : AddUploadTask(t)
  \/ \E t \in Task : AddRemoteExistsUploadTask(t)
  \/ \E old, t \in Task : SupersedeFailedUploadTask(old, t)
  \/ ClearPendingUploadTasks
  \/ ClearUploadSuccessAndFailed
  \/ \E last \in Task : ClearExpireUploadTasks(last)
  \/ RetryFailedByUser

Next ==
  \/ InitUQ
  \/ Startup
  \/ Operator
  \/ Crash
  \/ \E w \in Worker : WorkerNext(w)
  \/ \E g \in Generation : SchedulerNext(g)

Spec == Init /\ [][Next]_vars

\* The goroutines run: start-up code, every worker, every scheduler.  Nothing
\* is assumed of operators, of jobs or of crashes.
Fairness ==
  /\ WF_vars(Startup)
  /\ \A w \in Worker : WF_vars(WorkerNext(w))
  /\ \A g \in Generation : WF_vars(SchedulerNext(g))

FairSpec == Spec /\ Fairness

-----------------------------------------------------------------------------
(* Properties.                                                             *)

Scheduler == [pc : SchedulerPc, excluded : SUBSET Task,
              space : 0..MaxThreads, batch : Seq(Snapshot)]

\* Type invariant of the queue, its goroutines and the table.
TypeOK ==
  /\ row \in [Task -> Status \cup {Unborn, Deleted}]
  /\ retries \in [Task -> 0..MaxRetry]
  /\ boot \in {"down", "starting", "resetting", "up"}
  /\ running \in BOOLEAN
  /\ generation \in 0..MaxStarts
  /\ numWorkers \in 1..MaxThreads
  /\ tasks \in Seq(Snapshot)
  /\ active \in Nat
  /\ reserved \in SUBSET Task
  /\ retryTriggered \in BOOLEAN
  /\ worker \in [Worker -> {IdleWorker} \cup BusyWorker]
  /\ scheduler \in [Generation -> Scheduler]
  /\ crashes \in 0..MaxCrashes
  /\ resizes \in 0..MaxResizes
  /\ dbErrors \in 0..MaxDbErrors
  /\ finalErrors \in 0..MaxFinalErrors

\* Started(w): a goroutine for a task comes to life in slot w.
Started(w) ==
  /\ worker[w].pc \in {"idle", "exit"}
  /\ worker'[w].pc \in {"claim", "claimFinalize"}

\* A task is held once: it is buffered at most once, executed by at most one
\* goroutine, and never both, whatever Stop, Start, resizing and slow queries
\* of an old scheduler do in between.
OneHolderPerTask ==
  /\ \A i, j \in DOMAIN tasks : tasks[i].task = tasks[j].task => i = j
  /\ \A v, w \in Busy(worker) : worker[v].task = worker[w].task => v = w
  /\ Buffered(tasks) \cap Executing(worker) = {}

\* The queue's own books agree with the facts: reserved names exactly the
\* buffered and the executing tasks, active counts the goroutines.
BooksBalance ==
  /\ reserved = Buffered(tasks) \cup Executing(worker)
  /\ active = Cardinality(Busy(worker))

\* The buffer never holds more than the channel's capacity, so that no send
\* under uq.mutex can block.
BufferFits == Len(tasks) <= numWorkers

\* A goroutine starts only while the queue runs, and never makes more of them
\* than the limit in force, also when goroutines of a larger limit or of an
\* earlier generation are still at work.
StartsWithinLimit ==
  [][\A w \in Worker :
       Started(w) => running /\ Cardinality(Busy(worker')) <= numWorkers]_vars

\* A file that reached the remote side is not transferred again: its row never
\* goes back to a status from which a transfer starts, not by a failed
\* post-processing, not by a restart, not by a retry.
NoRetransfer ==
  [][\A t \in Task :
       row[t] \in {PendingFinalize, Finalizing, Completed} =>
         row'[t] \in {PendingFinalize, Finalizing, Completed, Deleted}]_vars

\* Once start-up is over every row marked as in progress has a goroutine that
\* works on it, as long as no SQL statement failed.
NoOrphanedRow ==
  boot = "up" /\ dbErrors = 0 =>
    \A t \in Task : row[t] \in {Uploading, Finalizing} => t \in Executing(worker)

\* The abstract phase of a task: what its goroutine knows counts for more than
\* the row while the file is moved or post-processed.
PhaseOfRow(r) ==
  CASE r = Unborn -> "none"
    [] r = Deleted -> "gone"
    [] r = Pending -> "queued"
    [] r = Uploading -> "lost"
    [] r \in {PendingFinalize, Finalizing} -> "uploaded"
    [] r = Completed -> "done"
    [] r = Failed -> "failed"
    [] r = Cancelled -> "cancelled"
WorkedOn(t, pcs) == \E w \in Busy(worker) : worker[w].task = t /\ worker[w].pc \in pcs
PhaseOf(t) ==
  IF WorkedOn(t, {"transfer", "fail", "cancel", "markUploaded"}) THEN "transferring"
  ELSE IF WorkedOn(t, {"finalize", "complete"}) THEN "uploaded"
  ELSE PhaseOfRow(row[t])

Lifecycle == INSTANCE UploadLifecycle
               WITH phase <- [t \in Task |-> PhaseOf(t)], attempts <- retries

\* The queue implements the life cycle of upload tasks.
ImplementsLifecycle == Lifecycle!Spec

\* A waiting task is taken up while the queue runs: no starvation behind the
\* exclusion list, a full buffer or rows with smaller ids.
PendingIsServed ==
  \A t \in Task : row[t] = Pending ~> (row[t] # Pending \/ ~running)

\* A transferred file gets its post-processing done while the queue runs.
UploadedIsFinished ==
  \A t \in Task : row[t] \in {PendingFinalize, Finalizing} ~>
                   (row[t] \in {Completed, Deleted} \/ ~running)

\* A failed task with a retry left is retried once the queue has run dry, unless
\* another task of its target came up: a rival that is active during the one
\* retry of the idle period, and is deleted before it is dispatched, leaves the
\* failed task without a retry.
FailedIsRetried ==
  \A t \in Task : row[t] = Failed /\ retries[t] < MaxRetry ~>
                   \/ row[t] # Failed
                   \/ ~running
                   \/ \E u \in Task \ {t} : TargetOf[u] = TargetOf[t] /\ row[u] # Unborn

=============================================================================
