---------------------------- MODULE DownloadQueue ----------------------------
(***************************************************************************)
(* The download queue of the backend: the dispatchers DQ                   *)
(* (internal/models/download.go) and the rows of db_download_tasks they    *)
(* work on (internal/models/dbdownload.go).                                *)
(*                                                                         *)
(* Unlike the upload queue it has no identity per generation: Start makes  *)
(* a new channel and new goroutines, those of before find out by           *)
(* themselves, and saving the thread settings makes a whole new DQ.  So    *)
(* the model keeps a heap of queues and of channels, lost with the         *)
(* process, and every control call is a goroutine that runs its steps one  *)
(* after the other, between the steps of all the others.                   *)
(*                                                                         *)
(* A step is what happens under one hold of dq.mutex, one channel          *)
(* operation, or one SQL statement.  moveTasksToChannel holds the mutex    *)
(* from its count to its last Save; workers, SQL and close() do not wait   *)
(* for it.                                                                 *)
(*                                                                         *)
(* A definition that stands right before another and names a slip is a     *)
(* plausible bug of the next one; no specification uses it.                *)
(***************************************************************************)
EXTENDS Integers, Sequences, FiniteSets, FiniteSetsExt

CONSTANTS
  Task,           \* ids of the table
  TargetOf,       \* TargetOf[t]: the active-target index key of row t
  Worker,         \* slots for worker goroutines
  Caller,         \* goroutines that make control calls, one after the other
  Calls,          \* the control calls they make
  MaxThreads,     \* largest download_threads in use
  ChannelFactor,  \* the channel has numWorkers * ChannelFactor places (10)
  MaxRetry,       \* DefaultQueueRetryMax
  MaxQueues,      \* bound: DQ objects in one life of the process
  MaxChannels     \* bound: calls of Start in one life of the process

ASSUME TaskAssumption ==
  /\ Task \subseteq Nat \ {0}
  /\ IsFiniteSet(Task)
  /\ DOMAIN TargetOf = Task
  /\ IsFiniteSet(Caller)

ASSUME CallAssumption == Calls \subseteq {"pause", "resume", "sync", "save"}

ASSUME BoundAssumption ==
  /\ {MaxThreads, ChannelFactor, MaxQueues, MaxChannels} \subseteq Nat \ {0}
  /\ MaxRetry \in Nat

VARIABLES
  row,            \* row[t]: the status column, or why there is no row
  retries,        \* retries[t]: the retry_count column
  boot,           \* how far the process has come in main.go
  queue,          \* every DQ ever made; the last is GlobalDownloadQueue
  channel,        \* every channel ever made by Start
  worker,         \* worker[w]: a goroutine inside worker()
  scheduler,      \* every taskScheduler goroutine ever started
  caller          \* caller[c]: what control call c still has to do

rowVars == <<row, retries>>
vars == <<row, retries, boot, queue, channel, worker, scheduler, caller>>

-----------------------------------------------------------------------------
(* The status column and the partial unique index over active rows.        *)

Unborn == "unborn"
Deleted == "deleted"
Pending == "pending"
Downloading == "downloading"
Completed == "completed"
Failed == "failed"

Active == {Pending, Downloading}
Status == Active \cup {Completed, Failed}

ActiveRival(t) ==
  \E u \in Task \ {t} : TargetOf[u] = TargetOf[t] /\ row[u] \in Active

\* What a query returns for row t: the goroutines work on such copies.
Copy(t) == [id |-> t, retries |-> retries[t]]
NoTask == [id |-> 0, retries |-> 0]
TaskCopy == [id : Task, retries : 0..MaxRetry]

\* gorm's Save of a copy writes every column, inserts the row again when it was
\* deleted, and leaves it as it is when the index refuses it.
Save(task, s) ==
  IF s \in Active /\ ActiveRival(task.id)
    THEN UNCHANGED rowVars
    ELSE /\ row' = [row EXCEPT ![task.id] = s]
         /\ retries' = [retries EXCEPT ![task.id] = task.retries]

\* RetryFailedDownloadTasks: of two failed rows of one target the first wins.
RetriableForEver(t) == row[t] = Failed /\ ~ActiveRival(t)
Retriable(t) ==
  /\ row[t] = Failed
  /\ retries[t] < MaxRetry
  /\ ~ActiveRival(t)
Retried == {t \in Task : /\ Retriable(t)
                         /\ \A u \in Task : /\ u < t
                                            /\ TargetOf[u] = TargetOf[t]
                                            => ~Retriable(u)}
RetryFailedDownloadTasks ==
  /\ row' = [t \in Task |-> IF t \in Retried THEN Pending ELSE row[t]]
  /\ retries' = [t \in Task |-> IF t \in Retried THEN retries[t] + 1 ELSE retries[t]]

-----------------------------------------------------------------------------
(* Queues, channels and goroutines.                                        *)

Idle == [pc |-> "off", queue |-> 0, channel |-> 0, task |-> NoTask]
NewWorker(q) == [Idle EXCEPT !.pc = "check", !.queue = q]
FreeSlot == {w \in Worker : worker[w].pc = "off"}

\* n goroutines for worker() of queue q; the runs give enough slots.
SpawnWorkers(q, n) ==
  \E S \in kSubset(n, FreeSlot) :
    worker' = [w \in Worker |-> IF w \in S THEN NewWorker(q) ELSE worker[w]]

NewScheduler(q) == [pc |-> "loop", queue |-> q, limit |-> 0, batch |-> <<>>]

\* The scheduler that is past dq.mutex.Lock() in moveTasksToChannel holds it.
Locked(q) ==
  \E s \in DOMAIN scheduler :
    /\ scheduler[s].queue = q
    /\ scheduler[s].pc \in {"countDownloading", "retry", "fetch", "send", "mark"}

Global == Len(queue)
GlobalRunning == queue # <<>> /\ queue[Global].running
ChannelOf(q) == channel[queue[q].tasks]

\* Everything but the rows goes with the process.  A panic ends it too.
ProcessDies ==
  /\ boot' = "down"
  /\ queue' = <<>>
  /\ channel' = <<>>
  /\ worker' = [w \in Worker |-> Idle]
  /\ scheduler' = <<>>
  /\ caller' = [c \in Caller |-> [plan |-> <<>>, queue |-> 0, threads |-> 0]]
  /\ UNCHANGED rowVars

Init ==
  /\ row = [t \in Task |-> Unborn]
  /\ retries = [t \in Task |-> 0]
  /\ boot = "down"
  /\ queue = <<>>
  /\ channel = <<>>
  /\ worker = [w \in Worker |-> Idle]
  /\ scheduler = <<>>
  /\ caller = [c \in Caller |-> [plan |-> <<>>, queue |-> 0, threads |-> 0]]

Crash == boot # "down" /\ ProcessDies

-----------------------------------------------------------------------------
(* Control calls.  A call is a plan of steps; a step that returns early    *)
(* skips the rest of its function.                                         *)

\* Stop is "stop", "close"; Start is "make", "reset", "launch", "spawn".
BootPlan == <<"new", "make", "reset", "launch", "spawn", "reset", "up">>
PausePlan == <<"stop", "close">>
ResumePlan == <<"stop", "close", "make", "reset", "launch", "spawn">>
SyncPlan == <<"stop", "close", "aim", "make", "reset", "launch", "spawn">>
SavePlan == <<"new", "make", "reset", "launch", "spawn", "resize">>
DrainPlan == <<"stop", "close", "new", "make", "reset", "launch", "spawn", "resize">>

Idling(c) == caller[c].plan = <<>>
Planned(step) == {c \in Caller : \E i \in DOMAIN caller[c].plan : caller[c].plan[i] = step}
MayStart == Len(channel) + Cardinality(Planned("make")) < MaxChannels

\* Caller c begins the given plan on queue q.
Plans(c, plan, q, threads) ==
  /\ Idling(c)
  /\ caller' = [caller EXCEPT ![c] = [plan |-> plan, queue |-> q, threads |-> threads]]
  /\ UNCHANGED <<row, retries, queue, channel, worker, scheduler>>

\* main.go: InitDQ, the other services, UpdateDownloadingToPending.
Boot(c, threads) ==
  /\ boot = "down"
  /\ boot' = "starting"
  /\ Plans(c, BootPlan, 0, threads)

Call(c, name) ==
  /\ name \in Calls
  /\ boot = "up"
  /\ UNCHANGED boot

PauseQueue(c) ==
  /\ Call(c, "pause")
  /\ Plans(c, PausePlan, Global, 0)

\* Restart.
ResumeQueue(c) ==
  /\ Call(c, "resume")
  /\ MayStart
  /\ Plans(c, ResumePlan, Global, 0)

\* A STRM sync stops the queue and starts it again when it ends.
SyncRun(c) ==
  /\ Call(c, "sync")
  /\ MayStart
  /\ Plans(c, SyncPlan, Global, 0)

\* Saving the thread settings: InitDQ stops the old queue only when tasks are
\* buffered, then UpdateConcurrency on whatever queue is the global one.
SaveThreads(c, threads) ==
  /\ Call(c, "save")
  /\ MayStart
  /\ Len(queue) + Cardinality(Planned("new")) < MaxQueues
  /\ LET buffered == queue[Global].tasks # 0 /\ ChannelOf(Global).buffer # <<>>
     IN  Plans(c, IF buffered THEN DrainPlan ELSE SavePlan, Global, threads)

\* The step caller c has to do next, and the plan without its first k steps.
At(c, step) == ~Idling(c) /\ Head(caller[c].plan) = step
Skip(c, k) == caller' = [caller EXCEPT ![c].plan = SubSeq(@, k + 1, Len(@))]

\* Stop, under the mutex.
StopFlag(c) ==
  LET q == caller[c].queue
  IN  /\ At(c, "stop")
      /\ ~Locked(q)
      /\ IF queue[q].running
           THEN Skip(c, 1) /\ queue' = [queue EXCEPT ![q].running = FALSE]
           ELSE Skip(c, 2) /\ UNCHANGED queue
      /\ UNCHANGED <<row, retries, boot, channel, worker, scheduler>>

\* Stop, after the mutex: close(dq.tasks), whatever channel that is by now.
CloseForgotten(c) ==
  /\ At(c, "close")
  /\ Skip(c, 1)
  /\ UNCHANGED <<row, retries, boot, queue, channel, worker, scheduler>>
Close(c) ==
  /\ At(c, "close")
  /\ Skip(c, 1)
  /\ ~ChannelOf(caller[c].queue).closed
  /\ channel' = [channel EXCEPT ![queue[caller[c].queue].tasks].closed = TRUE]
  /\ UNCHANGED <<row, retries, boot, queue, worker, scheduler>>

\* Closing a closed channel panics.
CloseTwice(c) ==
  /\ At(c, "close")
  /\ ChannelOf(caller[c].queue).closed
  /\ ProcessDies

\* Start: the new channel comes before the question whether the queue runs.
MakeOnlyOnce(c) ==
  LET q == caller[c].queue
  IN  /\ At(c, "make")
      /\ Skip(c, 1)
      /\ ~Locked(q)
      /\ IF queue[q].tasks # 0 THEN UNCHANGED <<channel, queue>>
         ELSE /\ channel' = Append(channel, [buffer |-> <<>>, closed |-> FALSE,
                                            places |-> queue[q].numWorkers * ChannelFactor])
              /\ queue' = [queue EXCEPT ![q].tasks = Len(channel) + 1]
      /\ UNCHANGED <<row, retries, boot, worker, scheduler>>
Make(c) ==
  LET q == caller[c].queue
  IN  /\ At(c, "make")
      /\ Skip(c, 1)
      /\ ~Locked(q)
      /\ channel' = Append(channel, [buffer |-> <<>>, closed |-> FALSE,
                                     places |-> queue[q].numWorkers * ChannelFactor])
      /\ queue' = [queue EXCEPT ![q].tasks = Len(channel) + 1]
      /\ UNCHANGED <<row, retries, boot, worker, scheduler>>

\* Start and UpdateDownloadingToPending: the rows in progress wait again.
Reset(c) ==
  /\ At(c, "reset")
  /\ Skip(c, 1)
  /\ row' = [t \in Task |-> IF row[t] = Downloading THEN Pending ELSE row[t]]
  /\ UNCHANGED <<retries, boot, queue, channel, worker, scheduler>>

\* Start: a running queue gets no more goroutines.
Launch(c) ==
  LET q == caller[c].queue
  IN  /\ At(c, "launch")
      /\ ~Locked(q)
      /\ IF queue[q].running
           THEN Skip(c, 2) /\ UNCHANGED queue
           ELSE Skip(c, 1) /\ queue' = [queue EXCEPT ![q].running = TRUE]
      /\ UNCHANGED <<row, retries, boot, channel, worker, scheduler>>

SpawnOneLess(c) ==
  LET q == caller[c].queue
  IN  /\ At(c, "spawn")
      /\ Skip(c, 1)
      /\ SpawnWorkers(q, queue[q].numWorkers - 1)
      /\ scheduler' = Append(scheduler, NewScheduler(q))
      /\ UNCHANGED <<row, retries, boot, queue, channel>>
Spawn(c) ==
  LET q == caller[c].queue
  IN  /\ At(c, "spawn")
      /\ Skip(c, 1)
      /\ SpawnWorkers(q, queue[q].numWorkers)
      /\ scheduler' = Append(scheduler, NewScheduler(q))
      /\ UNCHANGED <<row, retries, boot, queue, channel>>

\* NewDq and the assignment to GlobalDownloadQueue.
New(c) ==
  /\ At(c, "new")
  /\ queue' = Append(queue, [numWorkers |-> caller[c].threads, running |-> FALSE,
                             tasks |-> 0, retryTriggered |-> FALSE])
  /\ caller' = [caller EXCEPT ![c].plan = Tail(@), ![c].queue = Len(queue) + 1]
  /\ UNCHANGED <<row, retries, boot, channel, worker, scheduler>>

\* The sync has ended and reads GlobalDownloadQueue again.
Aim(c) ==
  /\ At(c, "aim")
  /\ caller' = [caller EXCEPT ![c].plan = Tail(@), ![c].queue = Global]
  /\ UNCHANGED <<row, retries, boot, queue, channel, worker, scheduler>>

\* UpdateConcurrency: more threads get goroutines, fewer change the number.
Resize(c) ==
  LET old == queue[Global].numWorkers
      new == caller[c].threads
  IN  /\ At(c, "resize")
      /\ Skip(c, 1)
      /\ ~Locked(Global)
      /\ queue' = [queue EXCEPT ![Global].numWorkers = new]
      /\ SpawnWorkers(Global, IF new > old THEN new - old ELSE 0)
      /\ UNCHANGED <<row, retries, boot, channel, scheduler>>

Up(c) ==
  /\ At(c, "up")
  /\ Skip(c, 1)
  /\ boot' = "up"
  /\ UNCHANGED <<row, retries, queue, channel, worker, scheduler>>

Begin(c) ==
  \/ PauseQueue(c)
  \/ ResumeQueue(c)
  \/ SyncRun(c)
  \/ \E n \in 1..MaxThreads : SaveThreads(c, n)

CallStep(c) ==
  \/ StopFlag(c) \/ Close(c) \/ CloseTwice(c)
  \/ Make(c) \/ Reset(c) \/ Launch(c) \/ Spawn(c)
  \/ New(c) \/ Aim(c) \/ Resize(c) \/ Up(c)

-----------------------------------------------------------------------------
(* worker().                                                               *)

\* The running check takes the read lock.
Check(w) ==
  /\ worker[w].pc = "check"
  /\ ~Locked(worker[w].queue)
  /\ worker' = [worker EXCEPT ![w] =
       IF queue[worker[w].queue].running
         THEN [worker[w] EXCEPT !.pc = "token"] ELSE Idle]
  /\ UNCHANGED <<row, retries, boot, queue, channel, scheduler, caller>>

\* <-dq.tasks: the next task, the end of a closed channel, or a wait on this
\* very channel.
Receive(w, ch) ==
  /\ IF channel[ch].buffer # <<>>
       THEN /\ channel' = [channel EXCEPT ![ch].buffer = Tail(@)]
            /\ worker' = [worker EXCEPT ![w] =
                 [pc |-> "work", queue |-> worker[w].queue, channel |-> 0,
                  task |-> Head(channel[ch].buffer)]]
       ELSE /\ UNCHANGED channel
            /\ worker' = [worker EXCEPT ![w] =
                 IF channel[ch].closed THEN Idle
                 ELSE [pc |-> "blocked", queue |-> worker[w].queue,
                       channel |-> ch, task |-> NoTask]]
  /\ UNCHANGED <<row, retries, boot, queue, scheduler, caller>>

\* The limiter lets the goroutine pass; it reads dq.tasks.
Take(w) ==
  /\ worker[w].pc = "token"
  /\ Receive(w, queue[worker[w].queue].tasks)

Wake(w) ==
  /\ worker[w].pc = "blocked"
  /\ \/ channel[worker[w].channel].buffer # <<>>
     \/ channel[worker[w].channel].closed
  /\ Receive(w, worker[w].channel)

\* Download(): the file is there already, the account is gone, or the row is
\* marked once more and the transfer begins.
BeginDownload(w) ==
  /\ worker[w].pc = "work"
  /\ Save(worker[w].task, Downloading)
  /\ worker' = [worker EXCEPT ![w].pc = "transfer"]
  /\ UNCHANGED <<boot, queue, channel, scheduler, caller>>

\* Complete or Fail, before or after a transfer.
EndDownloadAndExit(w) ==
  /\ worker[w].pc \in {"work", "transfer"}
  /\ \E s \in {Completed, Failed} : Save(worker[w].task, s)
  /\ worker' = [worker EXCEPT ![w] = Idle]
  /\ UNCHANGED <<boot, queue, channel, scheduler, caller>>
EndDownload(w) ==
  /\ worker[w].pc \in {"work", "transfer"}
  /\ \E s \in {Completed, Failed} : Save(worker[w].task, s)
  /\ worker' = [worker EXCEPT ![w] = NewWorker(worker[w].queue)]
  /\ UNCHANGED <<boot, queue, channel, scheduler, caller>>

WorkerNext(w) ==
  Check(w) \/ Take(w) \/ Wake(w) \/ BeginDownload(w) \/ EndDownload(w)

-----------------------------------------------------------------------------
(* taskScheduler and moveTasksToChannel.                                   *)

SchedulerAt(s, pc) ==
  /\ s \in DOMAIN scheduler
  /\ scheduler[s].pc = pc

Goes(s, pc) == scheduler' = [scheduler EXCEPT ![s] =
                 [NewScheduler(scheduler[s].queue) EXCEPT !.pc = pc]]

\* The loop ends with dq.running.
Loop(s) ==
  LET q == scheduler[s].queue
  IN  /\ SchedulerAt(s, "loop")
      /\ ~Locked(q)
      /\ Goes(s, IF queue[q].running THEN "wait" ELSE "off")
      /\ UNCHANGED <<row, retries, boot, queue, channel, worker, caller>>

\* A tick: running, and room in the channel, each under the read lock.
Tick(s) ==
  LET q == scheduler[s].queue
  IN  /\ SchedulerAt(s, "wait")
      /\ ~Locked(q)
      /\ Goes(s, IF queue[q].running /\ Len(ChannelOf(q).buffer) < ChannelOf(q).places
                   THEN "lock" ELSE "loop")
      /\ UNCHANGED <<row, retries, boot, queue, channel, worker, caller>>

\* The write lock and the count of the waiting rows.  dq.running is not read
\* again.
CountPending(s) ==
  LET q == scheduler[s].queue
      waiting == {t \in Task : row[t] = Pending}
      space == ChannelOf(q).places - Len(ChannelOf(q).buffer)
  IN  /\ SchedulerAt(s, "lock")
      /\ ~Locked(q)
      /\ IF waiting # {}
           THEN /\ queue' = [queue EXCEPT ![q].retryTriggered = FALSE]
                /\ scheduler' = [scheduler EXCEPT ![s] =
                     [pc |-> "fetch", queue |-> q, batch |-> <<>>,
                      limit |-> Min({space, Cardinality(waiting)})]]
           ELSE /\ Goes(s, IF queue[q].retryTriggered THEN "loop" ELSE "countDownloading")
                /\ UNCHANGED queue
      /\ UNCHANGED <<row, retries, boot, channel, worker, caller>>

\* GetDownloadingCount.
CountDownloading(s) ==
  /\ SchedulerAt(s, "countDownloading")
  /\ Goes(s, IF \E t \in Task : row[t] = Downloading THEN "loop" ELSE "retry")
  /\ UNCHANGED <<row, retries, boot, queue, channel, worker, caller>>

\* One automatic retry per idle period.
RetryWhenIdle(s) ==
  /\ SchedulerAt(s, "retry")
  /\ RetryFailedDownloadTasks
  /\ queue' = [queue EXCEPT ![scheduler[s].queue].retryTriggered = TRUE]
  /\ Goes(s, "loop")
  /\ UNCHANGED <<boot, channel, worker, caller>>

\* The k smallest of the rows S, in ascending order.
FirstById(k, S) ==
  {ids \in [1..k -> S] : /\ \A i, j \in 1..k : i < j => ids[i] < ids[j]
                        /\ \A t \in S : t < ids[k] => \E i \in 1..k : ids[i] = t}

\* GetPendingDownloadTasks: ORDER BY id LIMIT limit.
GetPendingDownloadTasks(s) ==
  LET waiting == {t \in Task : row[t] = Pending}
      k == Min({scheduler[s].limit, Cardinality(waiting)})
  IN  /\ SchedulerAt(s, "fetch")
      /\ IF k = 0 THEN Goes(s, "loop")
         ELSE \E ids \in FirstById(k, waiting) :
                scheduler' = [scheduler EXCEPT ![s].pc = "send",
                                               ![s].batch = [i \in 1..k |-> Copy(ids[i])]]
      /\ UNCHANGED <<row, retries, boot, queue, channel, worker, caller>>

\* The non-blocking send; a full channel ends the round.
Send(s) ==
  LET q == scheduler[s].queue
  IN  /\ SchedulerAt(s, "send")
      /\ ~ChannelOf(q).closed
      /\ IF Len(ChannelOf(q).buffer) < ChannelOf(q).places
           THEN /\ channel' = [channel EXCEPT ![queue[q].tasks].buffer =
                                 Append(@, Head(scheduler[s].batch))]
                /\ scheduler' = [scheduler EXCEPT ![s].pc = "mark"]
           ELSE UNCHANGED channel /\ Goes(s, "loop")
      /\ UNCHANGED <<row, retries, boot, queue, worker, caller>>

\* A send on a closed channel panics, also inside select.
SendOnClosed(s) ==
  /\ SchedulerAt(s, "send")
  /\ ChannelOf(scheduler[s].queue).closed
  /\ ProcessDies

\* task.Downloading(), after the task is in the channel: a worker may have it,
\* or may be done with it, by now.
Mark(s) ==
  LET rest == Tail(scheduler[s].batch)
  IN  /\ SchedulerAt(s, "mark")
      /\ Save(Head(scheduler[s].batch), Downloading)
      /\ IF rest = <<>> THEN Goes(s, "loop")
         ELSE scheduler' = [scheduler EXCEPT ![s].pc = "send", ![s].batch = rest]
      /\ UNCHANGED <<boot, queue, channel, worker, caller>>

SchedulerNext(s) ==
  \/ Loop(s) \/ Tick(s) \/ CountPending(s) \/ CountDownloading(s)
  \/ RetryWhenIdle(s) \/ GetPendingDownloadTasks(s)
  \/ Send(s) \/ SendOnClosed(s) \/ Mark(s)

-----------------------------------------------------------------------------
(* The handlers and jobs that create and delete rows.                      *)

RowsChange ==
  /\ boot = "up"
  /\ UNCHANGED <<boot, queue, channel, worker, scheduler, caller>>

\* Every entry checks the target, then inserts under the unique index.
AddDownloadTask(t) ==
  /\ RowsChange
  /\ row[t] = Unborn
  /\ \A u \in Task : u < t => row[u] # Unborn
  /\ ~ActiveRival(t)
  /\ row' = [row EXCEPT ![t] = Pending]
  /\ UNCHANGED retries

DeleteRows(doomed) ==
  /\ RowsChange
  /\ row' = [t \in Task |-> IF t \in doomed THEN Deleted ELSE row[t]]
  /\ UNCHANGED retries

ClearDownloadPendingTasks == DeleteRows({t \in Task : row[t] = Pending})

ClearDownloadSuccessAndFailed ==
  DeleteRows({t \in Task : row[t] \in {Completed, Failed}})

\* The daily job deletes by age alone.
ClearExpireDownloadTasks(last) ==
  DeleteRows({t \in Task : t <= last /\ row[t] # Unborn})

RetryFailedByUser ==
  /\ RowsChange
  /\ RetryFailedDownloadTasks

RowsNext ==
  \/ \E t \in Task : AddDownloadTask(t) \/ ClearExpireDownloadTasks(t)
  \/ ClearDownloadPendingTasks
  \/ ClearDownloadSuccessAndFailed
  \/ RetryFailedByUser

-----------------------------------------------------------------------------
Next ==
  \/ \E c \in Caller : \/ \E n \in 1..MaxThreads : Boot(c, n)
                       \/ Begin(c)
                       \/ CallStep(c)
  \/ RowsNext
  \/ Crash
  \/ \E w \in Worker : WorkerNext(w)
  \/ \E s \in 1..MaxChannels : SchedulerNext(s)

Spec == Init /\ [][Next]_vars

\* Calls that began come to their end, goroutines run.  sync.RWMutex hands the
\* lock to whoever waits for it, so a goroutine that waits for the mutex again
\* and again gets it: strong fairness.
Fairness ==
  /\ \A c \in Caller : SF_vars(CallStep(c))
  /\ \A w \in Worker : SF_vars(WorkerNext(w))
  /\ \A s \in 1..MaxChannels : SF_vars(SchedulerNext(s))

FairSpec == Spec /\ Fairness

-----------------------------------------------------------------------------
(* Properties.                                                             *)

\* Type invariant of the queues, their goroutines and the rows.
TypeOK ==
  /\ row \in [Task -> Status \cup {Unborn, Deleted}]
  /\ retries \in [Task -> 0..MaxRetry]
  /\ boot \in {"down", "starting", "up"}
  /\ queue \in Seq([numWorkers : 1..MaxThreads, running : BOOLEAN,
                    tasks : 0..MaxChannels, retryTriggered : BOOLEAN])
  /\ Len(queue) <= MaxQueues
  /\ channel \in Seq([buffer : Seq(TaskCopy), closed : BOOLEAN, places : Nat])
  /\ Len(channel) <= MaxChannels
  /\ \A ch \in DOMAIN channel : Len(channel[ch].buffer) <= channel[ch].places
  /\ worker \in [Worker -> [pc : {"off", "check", "token", "blocked", "work", "transfer"},
                            queue : 0..MaxQueues, channel : 0..MaxChannels,
                            task : TaskCopy \cup {NoTask}]]
  /\ scheduler \in Seq([pc : {"off", "loop", "wait", "lock", "countDownloading",
                              "retry", "fetch", "send", "mark"},
                        queue : 1..MaxQueues, limit : Nat, batch : Seq(TaskCopy)])
  /\ DOMAIN caller = Caller

\* Some scheduler takes a row up.
Claims == \E ch \in DOMAIN channel \cap DOMAIN channel' :
            Len(channel'[ch].buffer) > Len(channel[ch].buffer)

\* Once a pause is over, and until somebody starts the queue again, no waiting
\* row is taken up, not by a scheduler that was half-way through its round
\* either.
PausedStep ==
  boot = "up" /\ ~GlobalRunning /\ (\A c \in Caller : Idling(c)) => ~Claims
PausedClaimsNothing == [][PausedStep]_vars

\* While no control call is under way, a running queue has an open channel, so
\* that neither its workers end nor its scheduler panics.
RunningIsOpen ==
  boot = "up" /\ (\A c \in Caller : Idling(c)) =>
    \A q \in DOMAIN queue : queue[q].running => ~ChannelOf(q).closed

\* While no control call is under way, a running queue has a goroutine that
\* works or listens to the queue's present channel.
Serves(w, q) ==
  /\ worker[w].queue = q
  /\ worker[w].pc = "blocked" => worker[w].channel = queue[q].tasks
RunningHasWorker ==
  boot = "up" /\ (\A c \in Caller : Idling(c)) =>
    \A q \in DOMAIN queue : queue[q].running => \E w \in Worker : Serves(w, q)

\* A waiting row is taken up as long as the queue runs.
PendingIsServed ==
  \A t \in Task : row[t] = Pending ~> (row[t] # Pending \/ ~GlobalRunning)

=============================================================================
