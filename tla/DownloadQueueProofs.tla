------------------------- MODULE DownloadQueueProofs -------------------------
(***************************************************************************)
(* Proofs about DownloadQueue, for every set of tasks, goroutine slots and *)
(* callers and every value of the bounds.                                  *)
(*                                                                         *)
(* The control calls overlap between their steps, so the invariant speaks  *)
(* of the rest of each caller's plan.  The lemmas say what every rest of a *)
(* plan looks like, and that queues and channels only ever grow.           *)
(***************************************************************************)
EXTENDS DownloadQueue, FiniteSetTheorems, TLAPS

-----------------------------------------------------------------------------
(* Plans.                                                                  *)

Steps == {"new", "make", "reset", "launch", "spawn", "up", "stop", "close", "aim", "resize"}

Has(plan, step) == \E i \in 1..Len(plan) : plan[i] = step

\* What the functions of a call fix about the order of its steps.
Ordered(plan) ==
  \A i \in 1..Len(plan) :
    /\ plan[i] = "stop" => i < Len(plan) /\ plan[i+1] = "close"
    /\ plan[i] = "close" => (i < Len(plan) => plan[i+1] \in {"make", "aim", "new"})
    /\ plan[i] \in {"new", "aim"} => i < Len(plan) /\ plan[i+1] = "make"
    /\ plan[i] = "make" => i+1 < Len(plan) /\ plan[i+1] = "reset" /\ plan[i+2] = "launch"
    /\ plan[i] = "reset" => i < Len(plan) /\ plan[i+1] \in {"launch", "up"}
    /\ plan[i] = "launch" => i < Len(plan) /\ plan[i+1] = "spawn"
    /\ plan[i] = "spawn" => (i < Len(plan) => plan[i+1] \in {"reset", "resize"})
    /\ plan[i] \in {"up", "resize"} => i = Len(plan)

\* A call makes one queue and one channel at most.
Once(plan) ==
  \A i, j \in 1..Len(plan) : plan[i] = plan[j] /\ plan[i] \in {"new", "make"} => i = j

Plan(plan) == plan \in Seq(Steps) /\ Ordered(plan) /\ Once(plan)

\* The plan without its first k steps.
Rest(plan, k) == SubSeq(plan, k + 1, Len(plan))

\* The steps left after the first k of a plan, one by one.
LEMMA RestSteps ==
  ASSUME NEW plan \in Seq(Steps), NEW k \in 1..Len(plan)
  PROVE  /\ Len(plan) \in Nat /\ Rest(plan, k) \in Seq(Steps)
         /\ Len(Rest(plan, k)) = Len(plan) - k
         /\ \A i \in 1..Len(Rest(plan, k)) : Rest(plan, k)[i] = plan[i+k]
<1>1. k \in Nat /\ k <= Len(plan) /\ Len(plan) \in Nat
  OBVIOUS
<1> QED
  BY <1>1 DEF Rest

\* What is left of a plan is a plan, with no second "new" or "make".
LEMMA RestIsPlan ==
  ASSUME NEW plan, Plan(plan), NEW k \in 1..Len(plan)
  PROVE  /\ Plan(Rest(plan, k))
         /\ \A step : Has(Rest(plan, k), step) => Has(plan, step)
         /\ plan[1] \in {"new", "make"} => ~Has(Rest(plan, k), plan[1])
         /\ Rest(plan, k) # <<>> => k < Len(plan) /\ Head(Rest(plan, k)) = plan[k+1]
<1> DEFINE r == Rest(plan, k)
<1>1. /\ Len(plan) \in Nat /\ r \in Seq(Steps)
      /\ Len(r) = Len(plan) - k
      /\ \A i \in 1..Len(r) : r[i] = plan[i+k]
  BY RestSteps DEF Plan
<1> HIDE DEF r
<1>2. \A i \in 1..Len(r) : i + k \in 1..Len(plan) /\ (i < Len(r) <=> i + k < Len(plan))
                           /\ (i + 1 < Len(r) <=> i + k + 1 < Len(plan))
                           /\ (i = Len(r) <=> i + k = Len(plan))
  BY <1>1
<1>3. Once(r)
  <2> SUFFICES ASSUME NEW i \in 1..Len(r), NEW j \in 1..Len(r),
                      r[i] = r[j] /\ r[i] \in {"new", "make"}
               PROVE  i = j
    BY DEF Once
  <2>1. /\ i + k \in 1..Len(plan) /\ j + k \in 1..Len(plan)
        /\ plan[i+k] = plan[j+k] /\ plan[i+k] \in {"new", "make"}
    BY <1>1, <1>2
  <2>2. i + k = j + k
    BY <2>1 DEF Plan, Once
  <2> QED
    BY <2>2
<1>4. Ordered(r)
  <2> SUFFICES ASSUME NEW i \in 1..Len(r)
               PROVE  /\ r[i] = "stop" => i < Len(r) /\ r[i+1] = "close"
                      /\ r[i] = "close" => (i < Len(r) => r[i+1] \in {"make", "aim", "new"})
                      /\ r[i] \in {"new", "aim"} => i < Len(r) /\ r[i+1] = "make"
                      /\ r[i] = "make" => i+1 < Len(r) /\ r[i+1] = "reset" /\ r[i+2] = "launch"
                      /\ r[i] = "reset" => i < Len(r) /\ r[i+1] \in {"launch", "up"}
                      /\ r[i] = "launch" => i < Len(r) /\ r[i+1] = "spawn"
                      /\ r[i] = "spawn" => (i < Len(r) => r[i+1] \in {"reset", "resize"})
                      /\ r[i] \in {"up", "resize"} => i = Len(r)
    BY DEF Ordered
  <2>1. /\ r[i] = plan[i+k] /\ i + k \in 1..Len(plan)
        /\ i < Len(r) => r[i+1] = plan[(i+k)+1]
        /\ i + 1 < Len(r) => r[i+1] = plan[(i+k)+1] /\ r[i+2] = plan[(i+k)+2]
    <3>1. i < Len(r) => i + 1 \in 1..Len(r) /\ (i + 1) + k = (i + k) + 1
      BY <1>1
    <3>2. i + 1 < Len(r) => i + 2 \in 1..Len(r) /\ (i + 2) + k = (i + k) + 2 /\ i < Len(r)
      BY <1>1
    <3>3. r[i] = plan[i+k] /\ i + k \in 1..Len(plan)
      BY <1>1, <1>2
    <3>4. i < Len(r) => r[i+1] = plan[(i+k)+1]
      BY <1>1, <3>1
    <3>5. i + 1 < Len(r) => r[i+2] = plan[(i+k)+2]
      BY <1>1, <3>2
    <3> QED
      BY <3>2, <3>3, <3>4, <3>5
  <2> QED
    BY <1>2, <2>1 DEF Plan, Ordered
<1>5. \A step : Has(r, step) => Has(plan, step)
  BY <1>1, <1>2 DEF Has
<1>6. plan[1] \in {"new", "make"} => ~Has(r, plan[1])
  BY <1>1, <1>2, SMTT(40) DEF Has, Plan, Once
<1>7. r # <<>> => k < Len(plan) /\ Head(r) = plan[k+1]
  BY <1>1
<1> QED
  BY <1>1, <1>3, <1>4, <1>5, <1>6, <1>7 DEF Plan, r

LEMMA TailIsRest ==
  ASSUME NEW plan, Plan(plan), plan # <<>>
  PROVE  Tail(plan) = Rest(plan, 1) /\ Head(plan) = plan[1] /\ 1 \in 1..Len(plan)
BY DEF Plan, Rest

LEMMA CallsArePlans ==
  /\ Plan(<<>>) /\ Plan(PausePlan) /\ Plan(BootPlan) /\ Plan(ResumePlan) /\ Plan(SyncPlan)
  /\ Plan(SavePlan) /\ Plan(DrainPlan)
<1>1. Plan(<<>>)
  BY DEF Plan, Ordered, Once
<1>2. Plan(PausePlan)
  BY DEF Plan, Ordered, Once, PausePlan, Steps
<1>3. Plan(BootPlan)
  BY DEF Plan, Ordered, Once, BootPlan, Steps
<1>4. Plan(ResumePlan)
  BY DEF Plan, Ordered, Once, ResumePlan, Steps
<1>5. Plan(SyncPlan)
  BY DEF Plan, Ordered, Once, SyncPlan, Steps
<1>6. Plan(SavePlan)
  BY DEF Plan, Ordered, Once, SavePlan, Steps
<1>7. Plan(DrainPlan)
  BY DEF Plan, Ordered, Once, DrainPlan, Steps
<1> QED
  BY <1>1, <1>2, <1>3, <1>4, <1>5, <1>6, <1>7

-----------------------------------------------------------------------------
(* The invariant behind the type invariant.                                *)

QueueType == [numWorkers : 1..MaxThreads, running : BOOLEAN,
              tasks : 0..MaxChannels, retryTriggered : BOOLEAN]
ChannelType == [buffer : Seq(TaskCopy), closed : BOOLEAN, places : Nat]
WorkerType == [pc : {"off", "check", "token", "blocked", "work", "transfer"},
               queue : 0..MaxQueues, channel : 0..MaxChannels,
               task : TaskCopy \cup {NoTask}]
SchedulerType == [pc : {"off", "loop", "wait", "lock", "countDownloading",
                        "retry", "fetch", "send", "mark"},
                  queue : 1..MaxQueues, limit : Nat, batch : Seq(TaskCopy)]
CallerType == [plan : Seq(Steps), queue : Nat, threads : Nat]

RowsOK ==
  /\ row \in [Task -> Status \cup {Unborn, Deleted}]
  /\ retries \in [Task -> 0..MaxRetry]

\* A queue whose channel has been made once.
Made(qs, q) == q \in 1..Len(qs) /\ qs[q].tasks # 0

QueuesOK ==
  /\ queue \in Seq(QueueType)
  /\ \A q \in 1..Len(queue) : queue[q].tasks <= Len(channel)
  /\ \A q \in 1..Len(queue) : queue[q].running => queue[q].tasks # 0

ChannelsOK ==
  /\ channel \in Seq(ChannelType)
  /\ \A ch \in 1..Len(channel) : Len(channel[ch].buffer) <= channel[ch].places

\* A goroutine of worker(): once it saw its queue run, the queue has a channel.
WorkerFits(qs, chs, r) ==
  /\ r \in WorkerType
  /\ r.pc = "off" => r.queue = 0
  /\ r.pc # "off" => r.queue \in 1..Len(qs)
  /\ r.pc \notin {"off", "check"} => Made(qs, r.queue)
  /\ r.pc = "blocked" => r.channel \in 1..Len(chs)
  /\ r.pc \in {"work", "transfer"} => r.task \in TaskCopy
WorkersOK ==
  /\ worker \in [Worker -> WorkerType]
  /\ \A w \in Worker : WorkerFits(queue, channel, worker[w])

SchedulerFits(qs, r) ==
  /\ r \in SchedulerType
  /\ Made(qs, r.queue)
  /\ r.pc \in {"send", "mark"} => r.batch # <<>>
SchedulersOK ==
  /\ scheduler \in Seq(SchedulerType)
  /\ \A s \in 1..Len(scheduler) : SchedulerFits(queue, scheduler[s])

\* A caller: it works on a queue, which has a channel once it was made or the
\* queue was seen running.
CallerFits(qs, r) ==
  /\ r \in CallerType
  /\ Plan(r.plan)
  /\ r.plan # <<>> /\ Head(r.plan) # "new" => r.queue \in 1..Len(qs)
  /\ r.plan # <<>> /\ Head(r.plan) \in {"close", "reset", "launch", "spawn", "resize", "up"} =>
       Made(qs, r.queue)
  /\ Has(r.plan, "new") \/ Has(r.plan, "resize") => r.threads \in 1..MaxThreads
CallersOK ==
  /\ caller \in [Caller -> CallerType]
  /\ \A c \in Caller : CallerFits(queue, caller[c])

BootOK ==
  /\ boot \in {"down", "starting", "up"}
  /\ boot = "down" => queue = <<>> /\ channel = <<>> /\ \A c \in Caller : Idling(c)
  /\ boot = "up" => queue # <<>>

\* The bounds of the calls hold for what the calls still have to make.
Bounded ==
  /\ Len(queue) + Cardinality(Planned("new")) <= MaxQueues
  /\ Len(channel) + Cardinality(Planned("make")) <= MaxChannels

TypeInv ==
  /\ RowsOK
  /\ QueuesOK
  /\ ChannelsOK
  /\ WorkersOK
  /\ SchedulersOK
  /\ CallersOK
  /\ BootOK
  /\ Bounded

LEMMA PlannedFinite ==
  ASSUME NEW step
  PROVE  IsFiniteSet(Planned(step)) /\ Cardinality(Planned(step)) \in Nat
<1>1. Planned(step) \in SUBSET Caller
  BY DEF Planned
<1> QED
  BY <1>1, TaskAssumption, FS_Subset, FS_CardinalityType

LEMMA TypeConsequence == TypeInv => TypeOK
<1> SUFFICES ASSUME TypeInv
             PROVE  TypeOK
  OBVIOUS
<1>1. Len(queue) <= MaxQueues /\ Len(channel) <= MaxChannels
  BY PlannedFinite, BoundAssumption DEF TypeInv, Bounded, QueuesOK, ChannelsOK
<1>2. DOMAIN channel = 1..Len(channel)
  BY DEF TypeInv, ChannelsOK
<1>3. DOMAIN caller = Caller
  BY DEF TypeInv, CallersOK
<1> QED
  BY <1>1, <1>2, <1>3 DEF TypeInv, TypeOK, RowsOK, QueuesOK, ChannelsOK, WorkersOK, SchedulersOK,
     BootOK, QueueType, ChannelType, WorkerType, SchedulerType

\* Plans that are a member's of Planned.
LEMMA PlannedHas ==
  ASSUME TypeInv, NEW c \in Caller, NEW step
  PROVE  c \in Planned(step) <=> Has(caller[c].plan, step)
<1>1. caller[c].plan \in Seq(Steps)
  BY DEF TypeInv, CallersOK, CallerFits, Plan
<1> QED
  BY <1>1 DEF Planned, Has

\* Queues and channels grow.
Grows ==
  /\ Len(queue) <= Len(queue')
  /\ \A q \in 1..Len(queue) : queue[q].tasks # 0 => queue'[q].tasks # 0
  /\ Len(channel) <= Len(channel')

LEMMA GrownMade ==
  ASSUME TypeInv, Grows, QueuesOK', ChannelsOK'
  PROVE  /\ \A q : Made(queue, q) => Made(queue', q)
         /\ \A q \in 1..Len(queue) : q \in 1..Len(queue')
         /\ \A ch \in 1..Len(channel) : ch \in 1..Len(channel')
<1>1. Len(queue) \in Nat /\ Len(queue') \in Nat /\ Len(channel) \in Nat /\ Len(channel') \in Nat
  BY DEF TypeInv, QueuesOK, ChannelsOK
<1> QED
  BY <1>1 DEF Grows, Made

LEMMA GrownWorker ==
  ASSUME TypeInv, Grows, QueuesOK', ChannelsOK', NEW r, WorkerFits(queue, channel, r)
  PROVE  WorkerFits(queue', channel', r)
BY GrownMade DEF WorkerFits

LEMMA GrownScheduler ==
  ASSUME TypeInv, Grows, QueuesOK', ChannelsOK', NEW r, SchedulerFits(queue, r)
  PROVE  SchedulerFits(queue', r)
BY GrownMade DEF SchedulerFits

LEMMA GrownCaller ==
  ASSUME TypeInv, Grows, QueuesOK', ChannelsOK', NEW r, CallerFits(queue, r)
  PROVE  CallerFits(queue', r)
BY GrownMade DEF CallerFits

LEMMA GrowsNot ==
  ASSUME UNCHANGED <<queue, channel>>, TypeInv
  PROVE  Grows /\ QueuesOK' /\ ChannelsOK'
BY DEF Grows, TypeInv, QueuesOK, ChannelsOK

LEMMA WorkersKept ==
  ASSUME TypeInv, Grows, QueuesOK', ChannelsOK', worker' = worker
  PROVE  WorkersOK'
BY GrownWorker DEF TypeInv, WorkersOK

LEMMA SchedulersKept ==
  ASSUME TypeInv, Grows, QueuesOK', ChannelsOK', scheduler' = scheduler
  PROVE  SchedulersOK'
BY GrownScheduler DEF TypeInv, SchedulersOK

LEMMA CallersKept ==
  ASSUME TypeInv, Grows, QueuesOK', ChannelsOK', caller' = caller
  PROVE  CallersOK'
BY GrownCaller DEF TypeInv, CallersOK

\* Steps of others than the callers: no queue and no channel is made.
LEMMA OthersStep ==
  ASSUME TypeInv, UNCHANGED <<boot, caller>>, Len(queue') = Len(queue), Len(channel') = Len(channel),
         Grows, RowsOK', QueuesOK', ChannelsOK', WorkersOK', SchedulersOK'
  PROVE  TypeInv'
<1>1. Planned("new")' = Planned("new") /\ Planned("make")' = Planned("make")
  BY DEF Planned
<1>2. Bounded'
  BY <1>1 DEF TypeInv, Bounded
<1>3. boot # "down" \/ (queue' = <<>> /\ channel' = <<>>)
  BY DEF TypeInv, BootOK, QueuesOK, ChannelsOK
<1>4. queue # <<>> => queue' # <<>>
  BY DEF TypeInv, QueuesOK
<1>5. BootOK'
  BY <1>3, <1>4 DEF TypeInv, BootOK, Idling
<1> QED
  BY <1>2, <1>5, CallersKept DEF TypeInv

-----------------------------------------------------------------------------
(* Rows, goroutines and schedulers.                                        *)

LEMMA TaskCopies ==
  /\ \A x \in TaskCopy : x.id \in Task /\ x.retries \in 0..MaxRetry
  /\ RowsOK => \A t \in Task : Copy(t) \in TaskCopy
  /\ NoTask \notin TaskCopy
BY TaskAssumption DEF TaskCopy, Copy, RowsOK, NoTask

LEMMA SaveRows ==
  ASSUME RowsOK, NEW x \in TaskCopy, NEW s \in Status, Save(x, s)
  PROVE  RowsOK'
<1>1. x.id \in Task /\ x.retries \in 0..MaxRetry
  BY TaskCopies
<1>2. CASE UNCHANGED rowVars
  BY <1>2 DEF RowsOK, rowVars
<1>3. CASE /\ row' = [row EXCEPT ![x.id] = s]
           /\ retries' = [retries EXCEPT ![x.id] = x.retries]
  BY <1>1, <1>3 DEF RowsOK
<1> QED
  BY <1>2, <1>3 DEF Save

LEMMA RetryRows ==
  ASSUME RowsOK, RetryFailedDownloadTasks
  PROVE  RowsOK'
<1>1. \A t \in Task : /\ t \in Retried => retries[t] \in 0..MaxRetry /\ retries[t] < MaxRetry
                      /\ retries[t] \in 0..MaxRetry
                      /\ row[t] \in Status \cup {Unborn, Deleted}
  BY DEF RowsOK, Retried, Retriable
<1>2. \A t \in Task : t \in Retried => retries[t] + 1 \in 0..MaxRetry
  BY <1>1, BoundAssumption
<1>3. Pending \in Status
  BY DEF Status, Active
<1> QED
  BY <1>1, <1>2, <1>3 DEF RowsOK, RetryFailedDownloadTasks

LEMMA WorkerSet ==
  ASSUME TypeInv, Grows, QueuesOK', ChannelsOK', NEW w \in Worker, NEW r,
         WorkerFits(queue', channel', r), worker' = [worker EXCEPT ![w] = r]
  PROVE  WorkersOK'
<1>1. \A v \in Worker : WorkerFits(queue', channel', worker[v]) \/ v = w
  BY GrownWorker DEF TypeInv, WorkersOK
<1>2. \A v \in Worker : v # w => worker'[v] = worker[v]
  BY DEF TypeInv, WorkersOK
<1>3. worker'[w] = r /\ worker' \in [Worker -> WorkerType]
  BY DEF TypeInv, WorkersOK, WorkerFits
<1>4. \A v \in Worker : WorkerFits(queue', channel', worker'[v])
  <2> SUFFICES ASSUME NEW v \in Worker, v # w
               PROVE  WorkerFits(queue', channel', worker'[v])
    BY <1>3
  <2>1. worker'[v] = worker[v]
    BY <1>2
  <2>2. WorkerFits(queue, channel, worker[v])
    BY DEF TypeInv, WorkersOK
  <2> QED
    BY <2>1, <2>2, GrownMade DEF WorkerFits
<1> QED
  BY <1>3, <1>4 DEF WorkersOK

LEMMA SchedulerSet ==
  ASSUME TypeInv, Grows, QueuesOK', ChannelsOK', NEW s \in 1..Len(scheduler), NEW r,
         SchedulerFits(queue', r), scheduler' = [scheduler EXCEPT ![s] = r]
  PROVE  SchedulersOK'
<1>1. /\ Len(scheduler') = Len(scheduler) /\ scheduler' \in Seq(SchedulerType)
      /\ scheduler'[s] = r
      /\ \A x \in 1..Len(scheduler) : x # s => scheduler'[x] = scheduler[x]
  BY DEF TypeInv, SchedulersOK, SchedulerFits
<1>2. \A x \in 1..Len(scheduler) : SchedulerFits(queue', scheduler'[x])
  <2> SUFFICES ASSUME NEW x \in 1..Len(scheduler), x # s
               PROVE  SchedulerFits(queue', scheduler'[x])
    BY <1>1
  <2>1. SchedulerFits(queue, scheduler[x]) /\ scheduler'[x] = scheduler[x]
    BY <1>1 DEF TypeInv, SchedulersOK
  <2> QED
    BY <2>1, GrownMade DEF SchedulerFits
<1> QED
  BY <1>1, <1>2 DEF SchedulersOK

LEMMA GoesSet ==
  ASSUME TypeInv, Grows, QueuesOK', ChannelsOK', NEW s \in 1..Len(scheduler),
         NEW pc \in {"off", "loop", "wait", "lock", "countDownloading", "retry", "fetch"},
         Goes(s, pc)
  PROVE  SchedulersOK'
<1> DEFINE q == scheduler[s].queue
           r == [NewScheduler(q) EXCEPT !.pc = pc]
<1>1. SchedulerFits(queue, scheduler[s])
  BY DEF TypeInv, SchedulersOK
<1>2. q \in 1..MaxQueues /\ Made(queue', q)
  <2>1. scheduler[s].queue \in 1..MaxQueues /\ Made(queue, scheduler[s].queue)
    BY <1>1 DEF SchedulerFits, SchedulerType
  <2> QED
    BY <2>1, GrownMade
<1> HIDE DEF q
<1>3. r = [pc |-> pc, queue |-> q, limit |-> 0, batch |-> <<>>]
  BY DEF NewScheduler
<1>4. SchedulerFits(queue', r)
  <2>1. [pc |-> pc, queue |-> q, limit |-> 0, batch |-> <<>>] \in SchedulerType
    BY <1>2 DEF SchedulerType
  <2> QED
    BY <1>2, <1>3, <2>1 DEF SchedulerFits
<1>5. scheduler' = [scheduler EXCEPT ![s] = r]
  BY DEF Goes, q
<1> HIDE DEF r
<1> QED
  BY <1>4, <1>5, SchedulerSet

LEMMA WorkerFacts ==
  ASSUME TypeInv, NEW w \in Worker, worker[w].pc # "off"
  PROVE  /\ worker[w] \in WorkerType /\ WorkerFits(queue, channel, worker[w])
         /\ worker[w].queue \in 1..Len(queue) /\ worker[w].queue \in 1..MaxQueues
         /\ queue[worker[w].queue] \in QueueType
<1>1. worker[w] \in WorkerType /\ WorkerFits(queue, channel, worker[w])
  BY DEF TypeInv, WorkersOK
<1>2. worker[w].queue \in 1..Len(queue) /\ worker[w].queue \in 0..MaxQueues /\ Len(queue) \in Nat
  BY <1>1 DEF WorkerFits, WorkerType, TypeInv, QueuesOK
<1>3. queue[worker[w].queue] \in QueueType
  BY <1>2 DEF TypeInv, QueuesOK
<1> QED
  BY <1>1, <1>2, <1>3

LEMMA NewWorkerRecord ==
  ASSUME NEW q
  PROVE  NewWorker(q) = [pc |-> "check", queue |-> q, channel |-> 0, task |-> NoTask]
<1> DEFINE r == [Idle EXCEPT !.pc = "check"]
<1>1. r = [pc |-> "check", queue |-> 0, channel |-> 0, task |-> NoTask]
  BY DEF Idle
<1>2. NewWorker(q) = [r EXCEPT !.queue = q]
  BY DEF NewWorker, Idle
<1> HIDE DEF r
<1> QED
  BY <1>1, <1>2

LEMMA NewWorkers ==
  /\ WorkerFits(queue, channel, Idle)
  /\ \A q \in 1..Len(queue) : q \in 1..MaxQueues => WorkerFits(queue, channel, NewWorker(q))
<1>1. Idle \in WorkerType
  BY BoundAssumption DEF Idle, WorkerType
<1>2. WorkerFits(queue, channel, Idle)
  BY <1>1 DEF WorkerFits, Idle
<1>3. ASSUME NEW q \in 1..Len(queue), q \in 1..MaxQueues
      PROVE  WorkerFits(queue, channel, NewWorker(q))
  <2>1. NewWorker(q) = [pc |-> "check", queue |-> q, channel |-> 0, task |-> NoTask]
    BY NewWorkerRecord
  <2>2. [pc |-> "check", queue |-> q, channel |-> 0, task |-> NoTask] \in WorkerType
    BY <1>3, BoundAssumption DEF WorkerType
  <2> QED
    BY <2>1, <2>2 DEF WorkerFits
<1> QED
  BY <1>2, <1>3

LEMMA WorkerSteps ==
  ASSUME TypeInv, NEW w \in Worker,
         Check(w) \/ BeginDownload(w) \/ EndDownload(w)
  PROVE  TypeInv'
<1>1. UNCHANGED <<boot, queue, channel, scheduler, caller>> /\ worker[w].pc # "off"
  BY DEF Check, BeginDownload, EndDownload
<1>2. Grows /\ QueuesOK' /\ ChannelsOK'
  BY <1>1, GrowsNot
<1>3. /\ worker[w] \in WorkerType /\ WorkerFits(queue, channel, worker[w])
      /\ worker[w].queue \in 1..Len(queue) /\ worker[w].queue \in 1..MaxQueues
  BY <1>1, WorkerFacts
<1>4. PICK r : worker' = [worker EXCEPT ![w] = r] /\ WorkerFits(queue, channel, r)
  <2>1. CASE Check(w)
    <3>1. CASE queue[worker[w].queue].running
      <4> DEFINE r == [worker[w] EXCEPT !.pc = "token"]
      <4>1. Made(queue, worker[w].queue)
        BY <1>3, <3>1 DEF TypeInv, QueuesOK, Made
      <4>2. r \in WorkerType /\ r.pc = "token" /\ r.queue = worker[w].queue
        BY <1>3 DEF WorkerType
      <4>3. WorkerFits(queue, channel, r)
        BY <1>3, <4>1, <4>2 DEF WorkerFits
      <4>4. worker' = [worker EXCEPT ![w] = r]
        BY <2>1, <3>1 DEF Check
      <4> QED
        BY <4>3, <4>4
    <3>2. CASE ~queue[worker[w].queue].running
      <4>1. worker' = [worker EXCEPT ![w] = Idle]
        BY <2>1, <3>2 DEF Check
      <4> QED
        BY <4>1, NewWorkers
    <3> QED
      BY <3>1, <3>2
  <2>2. CASE BeginDownload(w)
    <3> DEFINE r == [worker[w] EXCEPT !.pc = "transfer"]
    <3>1. r \in WorkerType /\ r.pc = "transfer" /\ r.queue = worker[w].queue /\ r.task = worker[w].task
      BY <1>3 DEF WorkerType
    <3>2. WorkerFits(queue, channel, r)
      BY <1>3, <2>2, <3>1 DEF WorkerFits, BeginDownload
    <3>3. worker' = [worker EXCEPT ![w] = r]
      BY <2>2 DEF BeginDownload
    <3> QED
      BY <3>2, <3>3
  <2>3. CASE EndDownload(w)
    BY <1>3, <2>3, NewWorkers DEF EndDownload
  <2> QED
    BY <2>1, <2>2, <2>3
<1>5. WorkersOK'
  BY <1>2, <1>4, GrownWorker, WorkerSet
<1>6. RowsOK'
  <2>1. CASE Check(w)
    BY <2>1 DEF Check, TypeInv, RowsOK
  <2>2. CASE BeginDownload(w) \/ EndDownload(w)
    <3>1. worker[w].task \in TaskCopy
      BY <1>3, <2>2 DEF WorkerFits, BeginDownload, EndDownload
    <3>2. \E s \in Status : Save(worker[w].task, s)
      BY <2>2 DEF BeginDownload, EndDownload, Status, Active
    <3> QED
      BY <3>1, <3>2, SaveRows DEF TypeInv
  <2> QED
    BY <2>1, <2>2
<1> QED
  BY <1>1, <1>2, <1>5, <1>6, SchedulersKept, OthersStep

LEMMA ChannelFacts ==
  ASSUME TypeInv, NEW ch \in 1..Len(channel)
  PROVE  /\ channel[ch] \in ChannelType /\ channel[ch].buffer \in Seq(TaskCopy)
         /\ channel[ch].closed \in BOOLEAN /\ channel[ch].places \in Nat
         /\ Len(channel[ch].buffer) <= channel[ch].places
         /\ channel \in Seq(ChannelType)
<1>1. channel \in Seq(ChannelType) /\ Len(channel[ch].buffer) <= channel[ch].places
  BY DEF TypeInv, ChannelsOK
<1>2. channel[ch] \in ChannelType
  BY <1>1
<1> QED
  BY <1>1, <1>2 DEF ChannelType

LEMMA MadeFacts ==
  ASSUME TypeInv, NEW q, Made(queue, q)
  PROVE  /\ q \in 1..Len(queue) /\ queue \in Seq(QueueType) /\ queue[q] \in QueueType
         /\ queue[q].tasks \in 1..Len(channel)
<1>1. q \in 1..Len(queue) /\ queue \in Seq(QueueType)
  BY DEF Made, TypeInv, QueuesOK
<1>2. queue[q] \in QueueType /\ queue[q].tasks <= Len(channel) /\ queue[q].tasks # 0
  BY <1>1 DEF Made, TypeInv, QueuesOK
<1>3. queue[q].tasks \in Nat /\ Len(channel) \in Nat
  BY <1>2, BoundAssumption DEF QueueType, TypeInv, ChannelsOK
<1> QED
  BY <1>1, <1>2, <1>3

LEMMA ElementSet ==
  ASSUME NEW S, NEW s \in Seq(S), NEW i \in 1..Len(s), NEW x \in S, NEW t, t = [s EXCEPT ![i] = x]
  PROVE  /\ t \in Seq(S) /\ Len(t) = Len(s)
         /\ \A j \in 1..Len(s) : t[j] = IF j = i THEN x ELSE s[j]
OBVIOUS

\* A channel with another buffer.
LEMMA BufferSet ==
  ASSUME TypeInv, NEW ch \in 1..Len(channel), NEW b \in Seq(TaskCopy),
         Len(b) <= channel[ch].places, channel' = [channel EXCEPT ![ch].buffer = b]
  PROVE  Len(channel') = Len(channel) /\ ChannelsOK'
<1> DEFINE new == [channel[ch] EXCEPT !.buffer = b]
<1>1. new \in ChannelType /\ new.places = channel[ch].places /\ new.buffer = b
  BY ChannelFacts DEF ChannelType
<1>2. channel' = [channel EXCEPT ![ch] = new]
  OBVIOUS
<1> HIDE DEF new
<1>3. /\ Len(channel') = Len(channel) /\ channel' \in Seq(ChannelType)
      /\ \A x \in 1..Len(channel) : channel'[x] = IF x = ch THEN new ELSE channel[x]
  <2>1. channel \in Seq(ChannelType) /\ new \in ChannelType
    BY <1>1 DEF TypeInv, ChannelsOK
  <2> QED
    BY <1>2, <2>1, ElementSet, SMTT(40)
<1>4. \A x \in 1..Len(channel) : Len(channel[x].buffer) <= channel[x].places
  BY DEF TypeInv, ChannelsOK
<1> QED
  BY <1>1, <1>3, <1>4 DEF ChannelsOK

\* A receive from a channel that has been made.
LEMMA ReceiveStep ==
  ASSUME TypeInv, NEW w \in Worker, worker[w].pc \in {"token", "blocked"},
         NEW ch \in 1..Len(channel), Receive(w, ch)
  PROVE  TypeInv'
<1>1. UNCHANGED <<row, retries, boot, queue, scheduler, caller>>
  BY DEF Receive
<1>2. /\ worker[w] \in WorkerType /\ WorkerFits(queue, channel, worker[w])
      /\ worker[w].queue \in 1..Len(queue) /\ worker[w].queue \in 1..MaxQueues
      /\ Made(queue, worker[w].queue)
  BY WorkerFacts DEF WorkerFits
<1>3. /\ channel[ch] \in ChannelType /\ channel[ch].buffer \in Seq(TaskCopy)
      /\ channel[ch].closed \in BOOLEAN /\ channel[ch].places \in Nat
      /\ Len(channel[ch].buffer) <= channel[ch].places
      /\ channel \in Seq(ChannelType)
  BY ChannelFacts
<1>4. Len(channel') = Len(channel) /\ ChannelsOK'
  <2>1. CASE channel' = channel
    BY <2>1 DEF TypeInv, ChannelsOK
  <2>2. CASE channel[ch].buffer # <<>>
    <3>1. Tail(channel[ch].buffer) \in Seq(TaskCopy)
          /\ Len(Tail(channel[ch].buffer)) <= channel[ch].places
      BY <1>3, <2>2
    <3>2. channel' = [channel EXCEPT ![ch].buffer = Tail(channel[ch].buffer)]
      BY <2>2 DEF Receive
    <3> QED
      BY <3>1, <3>2, BufferSet
  <2> QED
    BY <2>1, <2>2 DEF Receive
<1>5. Grows /\ QueuesOK'
  BY <1>1, <1>4 DEF Grows, TypeInv, QueuesOK, ChannelsOK
<1>6. ch \in 1..MaxChannels
  <2>1. Len(channel) <= MaxChannels /\ Len(channel) \in Nat
    BY <1>3, PlannedFinite, BoundAssumption, SMTT(40) DEF TypeInv, Bounded
  <2> QED
    BY <2>1, BoundAssumption
<1>7. PICK r : worker' = [worker EXCEPT ![w] = r] /\ WorkerFits(queue, channel, r)
  <2>1. CASE channel[ch].buffer # <<>>
    <3> DEFINE r == [pc |-> "work", queue |-> worker[w].queue, channel |-> 0,
                     task |-> Head(channel[ch].buffer)]
    <3>1. Head(channel[ch].buffer) \in TaskCopy
      BY <1>3, <2>1
    <3>2. WorkerFits(queue, channel, r)
      BY <1>2, <3>1, BoundAssumption DEF WorkerFits, WorkerType
    <3>3. worker' = [worker EXCEPT ![w] = r]
      BY <2>1 DEF Receive
    <3> QED
      BY <3>2, <3>3
  <2>2. CASE channel[ch].buffer = <<>> /\ channel[ch].closed
    <3>1. worker' = [worker EXCEPT ![w] = Idle]
      BY <2>2 DEF Receive
    <3> QED
      BY <3>1, NewWorkers
  <2>3. CASE channel[ch].buffer = <<>> /\ ~channel[ch].closed
    <3> DEFINE r == [pc |-> "blocked", queue |-> worker[w].queue, channel |-> ch, task |-> NoTask]
    <3>1. WorkerFits(queue, channel, r)
      BY <1>2, <1>6 DEF WorkerFits, WorkerType
    <3>2. worker' = [worker EXCEPT ![w] = r]
      BY <2>3 DEF Receive
    <3> QED
      BY <3>1, <3>2
  <2> QED
    BY <2>1, <2>2, <2>3
<1>8. WorkersOK'
  BY <1>4, <1>5, <1>7, GrownWorker, WorkerSet
<1>9. RowsOK'
  BY <1>1 DEF TypeInv, RowsOK
<1> QED
  BY <1>1, <1>4, <1>5, <1>8, <1>9, SchedulersKept, OthersStep

LEMMA TakeSteps ==
  ASSUME TypeInv, NEW w \in Worker, Take(w) \/ Wake(w)
  PROVE  TypeInv'
<1>1. CASE Take(w)
  <2>1. WorkerFits(queue, channel, worker[w]) /\ worker[w].pc = "token"
    BY <1>1, WorkerFacts DEF Take
  <2>2. Made(queue, worker[w].queue) /\ worker[w].queue \in 1..Len(queue)
    BY <2>1 DEF WorkerFits
  <2>3. queue[worker[w].queue].tasks \in 1..Len(channel)
    BY <2>2, MadeFacts
  <2> QED
    BY <1>1, <2>1, <2>3, ReceiveStep DEF Take
<1>2. CASE Wake(w)
  <2>1. WorkerFits(queue, channel, worker[w]) /\ worker[w].pc = "blocked"
    BY <1>2, WorkerFacts DEF Wake
  <2> QED
    BY <1>2, <2>1, ReceiveStep DEF Wake, WorkerFits
<1> QED
  BY <1>1, <1>2

\* A queue with another record.
LEMMA QueueSet ==
  ASSUME TypeInv, Len(channel') \in Nat, Len(channel) <= Len(channel'),
         NEW q \in 1..Len(queue), NEW r \in QueueType, r.tasks <= Len(channel'),
         queue[q].tasks # 0 => r.tasks # 0, r.running => r.tasks # 0,
         queue' = [queue EXCEPT ![q] = r]
  PROVE  Grows /\ QueuesOK' /\ Len(queue') = Len(queue)
<1>1. queue \in Seq(QueueType)
  BY DEF TypeInv, QueuesOK
<1>2. /\ queue' \in Seq(QueueType) /\ Len(queue') = Len(queue)
      /\ \A p \in 1..Len(queue) : queue'[p] = IF p = q THEN r ELSE queue[p]
  BY <1>1, ElementSet
<1>3. /\ Len(channel) \in Nat
      /\ \A p \in 1..Len(queue) : /\ queue[p].tasks <= Len(channel)
                                  /\ queue[p].tasks \in Nat
                                  /\ queue[p].running => queue[p].tasks # 0
  <2>1. \A p \in 1..Len(queue) : queue[p] \in QueueType
    BY <1>1
  <2>2. \A p \in 1..Len(queue) : queue[p].tasks \in Nat
    BY <2>1, BoundAssumption DEF QueueType
  <2>3. Len(channel) \in Nat
    BY DEF TypeInv, ChannelsOK
  <2> QED
    BY <2>2, <2>3 DEF TypeInv, QueuesOK
<1>4. \A p \in 1..Len(queue) : queue[p].tasks <= Len(channel')
  BY <1>3
<1>5. QueuesOK'
  BY <1>2, <1>3, <1>4 DEF QueuesOK
<1>6. Grows
  <2>1. Len(queue) \in Nat
    BY <1>1
  <2> QED
    BY <1>2, <2>1 DEF Grows
<1> QED
  BY <1>2, <1>5, <1>6

LEMMA SchedulerFacts ==
  ASSUME TypeInv, NEW s \in DOMAIN scheduler
  PROVE  /\ s \in 1..Len(scheduler) /\ scheduler[s] \in SchedulerType
         /\ SchedulerFits(queue, scheduler[s])
         /\ scheduler[s].queue \in 1..MaxQueues /\ scheduler[s].limit \in Nat
         /\ scheduler[s].batch \in Seq(TaskCopy)
         /\ Made(queue, scheduler[s].queue) /\ scheduler[s].queue \in 1..Len(queue)
         /\ queue[scheduler[s].queue].tasks \in 1..Len(channel)
<1>1. s \in 1..Len(scheduler) /\ SchedulerFits(queue, scheduler[s])
  BY DEF TypeInv, SchedulersOK
<1>2. scheduler[s] \in SchedulerType /\ Made(queue, scheduler[s].queue)
  BY <1>1 DEF SchedulerFits
<1>3. /\ scheduler[s].queue \in 1..MaxQueues /\ scheduler[s].limit \in Nat
      /\ scheduler[s].batch \in Seq(TaskCopy)
  BY <1>2 DEF SchedulerType
<1> QED
  BY <1>1, <1>2, <1>3, MadeFacts

\* A scheduler that only goes on to another step.
LEMMA GoesStep ==
  ASSUME TypeInv, NEW s \in DOMAIN scheduler,
         NEW pc \in {"off", "loop", "wait", "lock", "countDownloading", "retry", "fetch"},
         Goes(s, pc), UNCHANGED <<row, retries, boot, queue, channel, worker, caller>>
  PROVE  TypeInv'
<1>1. Grows /\ QueuesOK' /\ ChannelsOK'
  BY GrowsNot
<1>2. SchedulersOK'
  BY <1>1, SchedulerFacts, GoesSet
<1>3. RowsOK'
  BY DEF TypeInv, RowsOK
<1> QED
  BY <1>1, <1>2, <1>3, WorkersKept, OthersStep

\* A scheduler that notes whether its queue has retried since it last had work.
LEMMA NoteSet ==
  ASSUME TypeInv, NEW q \in 1..Len(queue), Made(queue, q), NEW b \in BOOLEAN, channel' = channel,
         queue' = [queue EXCEPT ![q].retryTriggered = b]
  PROVE  Grows /\ QueuesOK' /\ ChannelsOK' /\ Len(queue') = Len(queue) /\ Len(channel') = Len(channel)
<1> DEFINE r == [queue[q] EXCEPT !.retryTriggered = b]
<1>1. queue[q] \in QueueType /\ queue[q].tasks \in 1..Len(channel)
  BY MadeFacts
<1>2. /\ r \in QueueType /\ r.tasks = queue[q].tasks
      /\ r.running = queue[q].running
  BY <1>1 DEF QueueType
<1>3. queue' = [queue EXCEPT ![q] = r]
  OBVIOUS
<1> HIDE DEF r
<1>4. Len(channel) \in Nat /\ queue[q].tasks <= Len(channel) /\ queue[q].tasks # 0
  BY <1>1 DEF TypeInv, ChannelsOK
<1>5. Len(channel') \in Nat /\ Len(channel) <= Len(channel') /\ r.tasks <= Len(channel') /\ r.tasks # 0
  BY <1>2, <1>4
<1>6. Grows /\ QueuesOK' /\ Len(queue') = Len(queue)
  BY <1>2, <1>3, <1>5, QueueSet
<1> QED
  BY <1>6 DEF TypeInv, ChannelsOK

LEMMA SmallerOfTwo ==
  ASSUME NEW m \in Nat, NEW n \in Nat
  PROVE  Min({m, n}) \in Nat /\ Min({m, n}) <= n /\ Min({m, n}) <= m
<1>1. \E x \in {m, n} : \A y \in {m, n} : x <= y
  <2>1. CASE m <= n
    BY <2>1
  <2>2. CASE n <= m
    BY <2>2
  <2> QED
    BY <2>1, <2>2
<1>2. Min({m, n}) \in {m, n} /\ \A y \in {m, n} : Min({m, n}) <= y
  BY <1>1 DEF Min
<1> QED
  BY <1>2

LEMMA WaitingFinite ==
  ASSUME NEW S \in SUBSET Task
  PROVE  IsFiniteSet(S) /\ Cardinality(S) \in Nat
BY TaskAssumption, FS_Subset, FS_CardinalityType

LEMMA WaitSteps ==
  ASSUME TypeInv, NEW s, Loop(s) \/ Tick(s) \/ CountDownloading(s)
  PROVE  TypeInv'
<1>1. s \in DOMAIN scheduler /\ UNCHANGED <<row, retries, boot, queue, channel, worker, caller>>
  BY DEF Loop, Tick, CountDownloading, SchedulerAt
<1>2. \E pc \in {"off", "loop", "wait", "lock", "retry"} : Goes(s, pc)
  BY DEF Loop, Tick, CountDownloading
<1> QED
  BY <1>1, <1>2, GoesStep

LEMMA CountPendingStep ==
  ASSUME TypeInv, NEW s, CountPending(s)
  PROVE  TypeInv'
<1> DEFINE q == scheduler[s].queue
           waiting == {t \in Task : row[t] = Pending}
           space == ChannelOf(q).places - Len(ChannelOf(q).buffer)
           k == Min({space, Cardinality(waiting)})
           r == [pc |-> "fetch", queue |-> q, batch |-> <<>>, limit |-> k]
<1>1. s \in DOMAIN scheduler /\ UNCHANGED <<row, retries, boot, channel, worker, caller>>
  BY DEF CountPending, SchedulerAt
<1>2. /\ s \in 1..Len(scheduler) /\ q \in 1..MaxQueues /\ q \in 1..Len(queue)
      /\ Made(queue, q) /\ queue[q].tasks \in 1..Len(channel)
  BY <1>1, SchedulerFacts
<1>3. CASE waiting # {}
  <2>1. queue' = [queue EXCEPT ![q].retryTriggered = FALSE] /\ scheduler' = [scheduler EXCEPT ![s] = r]
    BY <1>3 DEF CountPending
  <2>2. space \in Nat
    BY <1>2, ChannelFacts, SMTT(40) DEF ChannelOf
  <2>3. k \in Nat
    BY <2>2, WaitingFinite, SmallerOfTwo
  <2>4. Grows /\ QueuesOK' /\ ChannelsOK' /\ Len(queue') = Len(queue) /\ Len(channel') = Len(channel)
    BY <1>1, <1>2, <2>1, NoteSet
  <2>5. Made(queue', q)
    BY <1>2, <2>4, GrownMade
  <2>6. SchedulerFits(queue', r)
    <3> HIDE DEF q, k
    <3> QED
      BY <1>2, <2>3, <2>5 DEF SchedulerFits, SchedulerType
  <2>7. SchedulersOK'
    <3> HIDE DEF r
    <3> QED
      BY <1>2, <2>1, <2>4, <2>6, SchedulerSet
  <2>8. RowsOK'
    BY <1>1 DEF TypeInv, RowsOK
  <2> QED
    BY <1>1, <2>4, <2>7, <2>8, WorkersKept, OthersStep
<1>4. CASE waiting = {}
  <2>1. (\E pc \in {"loop", "countDownloading"} : Goes(s, pc)) /\ UNCHANGED queue
    BY <1>4 DEF CountPending
  <2> QED
    BY <1>1, <2>1, GoesStep
<1> QED
  BY <1>3, <1>4

LEMMA RetryWhenIdleStep ==
  ASSUME TypeInv, NEW s, RetryWhenIdle(s)
  PROVE  TypeInv'
<1>1. /\ s \in DOMAIN scheduler /\ UNCHANGED <<boot, channel, worker, caller>> /\ Goes(s, "loop")
      /\ queue' = [queue EXCEPT ![scheduler[s].queue].retryTriggered = TRUE]
      /\ RetryFailedDownloadTasks
  BY DEF RetryWhenIdle, SchedulerAt
<1>2. /\ s \in 1..Len(scheduler) /\ scheduler[s].queue \in 1..Len(queue)
      /\ Made(queue, scheduler[s].queue)
  BY <1>1, SchedulerFacts
<1>3. Grows /\ QueuesOK' /\ ChannelsOK' /\ Len(queue') = Len(queue) /\ Len(channel') = Len(channel)
  BY <1>1, <1>2, NoteSet
<1>4. SchedulersOK'
  BY <1>1, <1>2, <1>3, GoesSet
<1>5. RowsOK'
  BY <1>1, RetryRows DEF TypeInv
<1> QED
  BY <1>1, <1>3, <1>4, <1>5, WorkersKept, OthersStep

LEMMA SchedulerRecord ==
  ASSUME NEW r \in SchedulerType, NEW pc, NEW b
  PROVE  [[r EXCEPT !.pc = pc] EXCEPT !.batch = b] =
           [pc |-> pc, queue |-> r.queue, limit |-> r.limit, batch |-> b]
<1> DEFINE m == [r EXCEPT !.pc = pc]
<1>1. r = [pc |-> r.pc, queue |-> r.queue, limit |-> r.limit, batch |-> r.batch]
  BY DEF SchedulerType
<1>2. m = [pc |-> pc, queue |-> r.queue, limit |-> r.limit, batch |-> r.batch]
  BY <1>1
<1> HIDE DEF m
<1>3. [m EXCEPT !.batch = b] = [pc |-> pc, queue |-> r.queue, limit |-> r.limit, batch |-> b]
  BY <1>2
<1> QED
  BY <1>3 DEF m

LEMMA FetchStep ==
  ASSUME TypeInv, NEW s, GetPendingDownloadTasks(s)
  PROVE  TypeInv'
<1> DEFINE q == scheduler[s].queue
           waiting == {t \in Task : row[t] = Pending}
           k == Min({scheduler[s].limit, Cardinality(waiting)})
<1>1. s \in DOMAIN scheduler /\ UNCHANGED <<row, retries, boot, queue, channel, worker, caller>>
  BY DEF GetPendingDownloadTasks, SchedulerAt
<1>2. /\ s \in 1..Len(scheduler) /\ q \in 1..MaxQueues /\ Made(queue, q)
      /\ scheduler[s].limit \in Nat /\ scheduler[s] \in SchedulerType
  BY <1>1, SchedulerFacts
<1>3. k \in Nat
  BY <1>2, WaitingFinite, SmallerOfTwo
<1>4. CASE k = 0
  BY <1>1, <1>4, GoesStep DEF GetPendingDownloadTasks
<1>5. CASE k # 0
  <2>1. PICK ids \in FirstById(k, waiting) :
          scheduler' = [scheduler EXCEPT ![s].pc = "send", ![s].batch = [i \in 1..k |-> Copy(ids[i])]]
    BY <1>5 DEF GetPendingDownloadTasks
  <2>2. \A i \in 1..k : ids[i] \in Task
    BY <2>1 DEF FirstById
  <2> HIDE DEF k
  <2> DEFINE b == [i \in 1..k |-> Copy(ids[i])]
             r == [pc |-> "send", queue |-> q, limit |-> scheduler[s].limit, batch |-> b]
  <2>3. b \in Seq(TaskCopy) /\ b # <<>>
    <3>1. \A i \in 1..k : Copy(ids[i]) \in TaskCopy
      BY <2>2, TaskCopies DEF TypeInv
    <3>2. b \in [1..k -> TaskCopy] /\ 1 \in 1..k
      BY <1>3, <1>5, <3>1
    <3> QED
      BY <1>3, <3>2
  <2> HIDE DEF b
  <2>4. scheduler' = [scheduler EXCEPT ![s] = r]
    <3>1. [[scheduler[s] EXCEPT !.pc = "send"] EXCEPT !.batch = b] = r
      BY <1>2, SchedulerRecord
    <3>2. scheduler' = [scheduler EXCEPT ![s] = [[scheduler[s] EXCEPT !.pc = "send"] EXCEPT !.batch = b]]
      BY <1>2, <2>1 DEF b
    <3> QED
      BY <3>1, <3>2
  <2>5. Grows /\ QueuesOK' /\ ChannelsOK'
    BY <1>1, GrowsNot
  <2>6. SchedulerFits(queue', r)
    BY <1>1, <1>2, <2>3 DEF SchedulerFits, SchedulerType
  <2>7. SchedulersOK'
    <3> HIDE DEF r
    <3> QED
      BY <1>2, <2>4, <2>5, <2>6, SchedulerSet
  <2>8. RowsOK'
    BY <1>1 DEF TypeInv, RowsOK
  <2> QED
    BY <1>1, <2>5, <2>7, <2>8, WorkersKept, OthersStep
<1> QED
  BY <1>4, <1>5

LEMMA SendStep ==
  ASSUME TypeInv, NEW s, Send(s)
  PROVE  TypeInv'
<1> DEFINE q == scheduler[s].queue
           ch == queue[q].tasks
           b == Append(channel[ch].buffer, Head(scheduler[s].batch))
           r == [scheduler[s] EXCEPT !.pc = "mark"]
<1>1. s \in DOMAIN scheduler /\ UNCHANGED <<row, retries, boot, queue, worker, caller>>
      /\ scheduler[s].pc = "send"
  BY DEF Send, SchedulerAt
<1>2. /\ s \in 1..Len(scheduler) /\ q \in 1..MaxQueues /\ Made(queue, q)
      /\ ch \in 1..Len(channel) /\ scheduler[s] \in SchedulerType
      /\ SchedulerFits(queue, scheduler[s]) /\ scheduler[s].batch \in Seq(TaskCopy)
  BY <1>1, SchedulerFacts
<1>3. CASE Len(channel[ch].buffer) < channel[ch].places
  <2>1. /\ channel' = [channel EXCEPT ![ch].buffer = b]
        /\ scheduler' = [scheduler EXCEPT ![s].pc = "mark"]
    BY <1>3 DEF Send, ChannelOf
  <2>2. scheduler[s].batch # <<>>
    BY <1>1, <1>2 DEF SchedulerFits
  <2>3. b \in Seq(TaskCopy) /\ Len(b) <= channel[ch].places
    <3>1. Head(scheduler[s].batch) \in TaskCopy
      BY <1>2, <2>2
    <3>2. channel[ch].buffer \in Seq(TaskCopy) /\ channel[ch].places \in Nat
      BY <1>2, ChannelFacts
    <3> QED
      BY <1>3, <3>1, <3>2
  <2>4. Len(channel') = Len(channel) /\ ChannelsOK'
    <3> HIDE DEF ch, b
    <3> QED
      BY <1>2, <2>1, <2>3, BufferSet
  <2>5. Grows /\ QueuesOK'
    BY <1>1, <2>4 DEF Grows, TypeInv, QueuesOK, ChannelsOK
  <2>6. r \in SchedulerType /\ r.queue = q /\ r.pc = "mark" /\ r.batch = scheduler[s].batch
    BY <1>2 DEF SchedulerType
  <2>7. scheduler' = [scheduler EXCEPT ![s] = r]
    BY <2>1
  <2>8. SchedulerFits(queue', r)
    BY <1>1, <1>2, <2>2, <2>6 DEF SchedulerFits
  <2>9. SchedulersOK'
    <3> HIDE DEF r
    <3> QED
      BY <1>2, <2>4, <2>5, <2>7, <2>8, SchedulerSet
  <2>10. RowsOK'
    BY <1>1 DEF TypeInv, RowsOK
  <2> QED
    BY <1>1, <2>4, <2>5, <2>9, <2>10, WorkersKept, OthersStep
<1>4. CASE ~(Len(channel[ch].buffer) < channel[ch].places)
  BY <1>1, <1>4, GoesStep DEF Send, ChannelOf
<1> QED
  BY <1>3, <1>4

LEMMA MarkStep ==
  ASSUME TypeInv, NEW s, Mark(s)
  PROVE  TypeInv'
<1> DEFINE q == scheduler[s].queue
           rest == Tail(scheduler[s].batch)
           r == [pc |-> "send", queue |-> q, limit |-> scheduler[s].limit, batch |-> rest]
<1>1. s \in DOMAIN scheduler /\ UNCHANGED <<boot, queue, channel, worker, caller>>
      /\ scheduler[s].pc = "mark"
  BY DEF Mark, SchedulerAt
<1>2. /\ s \in 1..Len(scheduler) /\ q \in 1..MaxQueues /\ Made(queue, q)
      /\ scheduler[s] \in SchedulerType /\ scheduler[s].limit \in Nat
      /\ SchedulerFits(queue, scheduler[s]) /\ scheduler[s].batch \in Seq(TaskCopy)
  BY <1>1, SchedulerFacts
<1>3. scheduler[s].batch # <<>>
  BY <1>1, <1>2 DEF SchedulerFits
<1>4. Head(scheduler[s].batch) \in TaskCopy /\ rest \in Seq(TaskCopy)
  BY <1>2, <1>3
<1>5. Grows /\ QueuesOK' /\ ChannelsOK'
  BY <1>1, GrowsNot
<1>6. SchedulersOK'
  <2>1. CASE rest = <<>>
    <3>1. Goes(s, "loop")
      BY <2>1 DEF Mark
    <3> QED
      BY <1>2, <1>5, <3>1, GoesSet
  <2>2. CASE rest # <<>>
    <3>1. scheduler' = [scheduler EXCEPT ![s].pc = "send", ![s].batch = rest]
      BY <2>2 DEF Mark
    <3> HIDE DEF rest
    <3>2. [[scheduler[s] EXCEPT !.pc = "send"] EXCEPT !.batch = rest] = r
      BY <1>2, SchedulerRecord
    <3>3. scheduler' = [scheduler EXCEPT ![s] = r]
      <4>1. scheduler' = [scheduler EXCEPT ![s] = [[scheduler[s] EXCEPT !.pc = "send"] EXCEPT !.batch = rest]]
        BY <1>2, <3>1
      <4> QED
        BY <3>2, <4>1
    <3>4. SchedulerFits(queue', r)
      BY <1>1, <1>2, <1>4, <2>2 DEF SchedulerFits, SchedulerType
    <3> HIDE DEF r
    <3> QED
      BY <1>2, <1>5, <3>3, <3>4, SchedulerSet
  <2> QED
    BY <2>1, <2>2
<1>7. RowsOK'
  BY <1>4, SaveRows DEF Mark, TypeInv, Status, Active
<1> QED
  BY <1>1, <1>5, <1>6, <1>7, WorkersKept, OthersStep

\* The process ends: what is left are the rows.
LEMMA DeathStep ==
  ASSUME TypeInv, ProcessDies
  PROVE  TypeInv'
<1>1. /\ queue' = <<>> /\ channel' = <<>> /\ scheduler' = <<>> /\ boot' = "down"
      /\ Len(queue') = 0 /\ Len(channel') = 0 /\ Len(scheduler') = 0
  BY DEF ProcessDies
<1>2. RowsOK'
  BY DEF TypeInv, RowsOK, ProcessDies, rowVars
<1>3. QueuesOK' /\ ChannelsOK' /\ SchedulersOK'
  BY <1>1 DEF QueuesOK, ChannelsOK, SchedulersOK
<1>4. WorkersOK'
  <2>1. Idle \in WorkerType /\ Idle.pc = "off" /\ Idle.queue = 0
    BY BoundAssumption DEF Idle, WorkerType
  <2>2. worker' \in [Worker -> WorkerType] /\ \A w \in Worker : worker'[w] = Idle
    BY <2>1 DEF ProcessDies
  <2> QED
    BY <2>1, <2>2 DEF WorkersOK, WorkerFits
<1>5. CallersOK' /\ \A c \in Caller : Idling(c)'
  <2> DEFINE r == [plan |-> <<>>, queue |-> 0, threads |-> 0]
  <2>1. r \in CallerType /\ r.plan = <<>> /\ Len(r.plan) = 0 /\ Plan(r.plan)
    BY CallsArePlans DEF CallerType, Plan
  <2>2. caller' \in [Caller -> CallerType] /\ \A c \in Caller : caller'[c] = r
    BY <2>1 DEF ProcessDies
  <2>3. ~Has(r.plan, "new") /\ ~Has(r.plan, "resize")
    BY <2>1 DEF Has
  <2> HIDE DEF r
  <2> QED
    BY <2>1, <2>2, <2>3 DEF CallersOK, CallerFits, Idling
<1>6. BootOK'
  BY <1>1, <1>5 DEF BootOK
<1>7. Bounded'
  <2>1. Planned("new")' = {} /\ Planned("make")' = {}
    <3>1. \A c \in Caller : caller'[c].plan = <<>>
      BY <1>5 DEF Idling
    <3> QED
      BY <3>1 DEF Planned
  <2>2. Cardinality({}) = 0
    BY FS_EmptySet
  <2>3. Cardinality(Planned("new"))' = 0 /\ Cardinality(Planned("make"))' = 0
    BY <2>1, <2>2
  <2>4. MaxQueues \in Nat /\ MaxChannels \in Nat
    BY BoundAssumption
  <2> QED
    BY <1>1, <2>3, <2>4 DEF Bounded
<1> QED
  BY <1>2, <1>3, <1>4, <1>5, <1>6, <1>7 DEF TypeInv

-----------------------------------------------------------------------------
(* The callers.                                                            *)

\* Caller c gets another record.  Its plan has no step it had not before, so
\* the bounds stay kept.
LEMMA CallerSet ==
  ASSUME TypeInv, Grows, QueuesOK', ChannelsOK', NEW c \in Caller, NEW r,
         CallerFits(queue', r), caller' = [caller EXCEPT ![c] = r]
  PROVE  CallersOK' /\ caller'[c] = r /\ \A d \in Caller : d # c => caller'[d] = caller[d]
<1>1. r \in CallerType
  BY DEF CallerFits
<1>2. /\ caller' \in [Caller -> CallerType] /\ caller'[c] = r
      /\ \A d \in Caller : d # c => caller'[d] = caller[d]
  BY <1>1 DEF TypeInv, CallersOK
<1>3. \A d \in Caller : CallerFits(queue', caller'[d])
  <2> SUFFICES ASSUME NEW d \in Caller, d # c
               PROVE  CallerFits(queue', caller'[d])
    BY <1>2
  <2>1. caller'[d] = caller[d]
    BY <1>2
  <2>2. CallerFits(queue, caller[d])
    BY DEF TypeInv, CallersOK
  <2> QED
    BY <2>1, <2>2, GrownMade DEF CallerFits
<1> QED
  BY <1>2, <1>3 DEF CallersOK

LEMMA PlannedHasAfter ==
  ASSUME CallersOK', NEW c \in Caller, NEW step
  PROVE  c \in Planned(step)' <=> Has(caller'[c].plan, step)
<1>1. caller'[c].plan \in Seq(Steps)
  BY DEF CallersOK, CallerFits, Plan
<1> QED
  BY <1>1 DEF Planned, Has

\* No caller gains a step: there are not more of them.
LEMMA PlannedShrinks ==
  ASSUME TypeInv, CallersOK', NEW step,
         \A d \in Caller : Has(caller'[d].plan, step) => Has(caller[d].plan, step)
  PROVE  Cardinality(Planned(step)') <= Cardinality(Planned(step))
<1>1. Planned(step)' \subseteq Planned(step)
  <2>1. Planned(step)' \subseteq Caller
    BY DEF Planned
  <2> QED
    BY <2>1, PlannedHas, PlannedHasAfter
<1> QED
  BY <1>1, PlannedFinite, FS_Subset

\* Caller c has done the step: there is one less.
LEMMA PlannedDone ==
  ASSUME TypeInv, CallersOK', NEW step, NEW c \in Caller,
         Has(caller[c].plan, step), ~Has(caller'[c].plan, step),
         \A d \in Caller : Has(caller'[d].plan, step) => Has(caller[d].plan, step)
  PROVE  Cardinality(Planned(step)') + 1 <= Cardinality(Planned(step))
<1>1. Planned(step)' \subseteq Planned(step) \ {c}
  <2>1. Planned(step)' \subseteq Caller
    BY DEF Planned
  <2>2. c \notin Planned(step)'
    BY PlannedHasAfter
  <2> QED
    BY <2>1, <2>2, PlannedHas, PlannedHasAfter
<1>2. c \in Planned(step)
  BY PlannedHas
<1>3. IsFiniteSet(Planned(step)) /\ Cardinality(Planned(step)) \in Nat
  BY PlannedFinite
<1>4. /\ IsFiniteSet(Planned(step) \ {c})
      /\ Cardinality(Planned(step) \ {c}) = Cardinality(Planned(step)) - 1
  BY <1>2, <1>3, FS_RemoveElement
<1>5. Cardinality(Planned(step)') <= Cardinality(Planned(step) \ {c}) /\ Cardinality(Planned(step)') \in Nat
  BY <1>1, <1>4, FS_Subset, FS_CardinalityType
<1> QED
  BY <1>3, <1>4, <1>5

\* Caller c has taken up a plan: there is at most one more.
LEMMA PlannedBegins ==
  ASSUME TypeInv, CallersOK', NEW step, NEW c \in Caller,
         \A d \in Caller : d # c => caller'[d] = caller[d]
  PROVE  Cardinality(Planned(step)') <= Cardinality(Planned(step)) + 1
<1>1. Planned(step)' \subseteq Planned(step) \cup {c}
  <2> SUFFICES ASSUME NEW d \in Caller, d \in Planned(step)', d # c
               PROVE  d \in Planned(step)
    BY DEF Planned
  <2>1. Has(caller'[d].plan, step) /\ caller'[d] = caller[d]
    BY PlannedHasAfter
  <2> QED
    BY <2>1, PlannedHas
<1>2. IsFiniteSet(Planned(step)) /\ Cardinality(Planned(step)) \in Nat
  BY PlannedFinite
<1>3. /\ IsFiniteSet(Planned(step) \cup {c})
      /\ Cardinality(Planned(step) \cup {c}) <= Cardinality(Planned(step)) + 1
  <2>1. IsFiniteSet(Planned(step) \cup {c})
        /\ Cardinality(Planned(step) \cup {c}) =
             (IF c \in Planned(step) THEN Cardinality(Planned(step)) ELSE Cardinality(Planned(step)) + 1)
    BY <1>2, FS_AddElement
  <2> QED
    BY <1>2, <2>1
<1>4. Cardinality(Planned(step)') <= Cardinality(Planned(step) \cup {c}) /\ Cardinality(Planned(step)') \in Nat
  BY <1>1, <1>3, FS_Subset, FS_CardinalityType
<1> QED
  BY <1>2, <1>3, <1>4, FS_CardinalityType

\* What caller c knows about its queue before step.
Knows(qs, q, step) ==
  /\ step # "new" => q \in 1..Len(qs)
  /\ step \in {"close", "reset", "launch", "spawn", "resize", "up"} => Made(qs, q)

LEMMA CallerFacts ==
  ASSUME TypeInv, NEW c \in Caller, ~Idling(c)
  PROVE  /\ caller[c] \in CallerType /\ caller[c].queue \in Nat
         /\ caller[c].plan # <<>> /\ Plan(caller[c].plan) /\ Len(caller[c].plan) \in Nat
         /\ 1 \in 1..Len(caller[c].plan) /\ Head(caller[c].plan) = caller[c].plan[1]
         /\ Knows(queue, caller[c].queue, caller[c].plan[1])
         /\ Has(caller[c].plan, "new") \/ Has(caller[c].plan, "resize") =>
              caller[c].threads \in 1..MaxThreads
         /\ boot # "down"
<1>1. caller[c] \in CallerType /\ CallerFits(queue, caller[c]) /\ caller[c].plan # <<>>
  BY DEF TypeInv, CallersOK, Idling
<1>2. Plan(caller[c].plan) /\ caller[c].queue \in Nat
  BY <1>1 DEF CallerFits, CallerType
<1>3. /\ 1 \in 1..Len(caller[c].plan) /\ Head(caller[c].plan) = caller[c].plan[1]
      /\ Len(caller[c].plan) \in Nat
  <2>1. caller[c].plan \in Seq(Steps)
    BY <1>2 DEF Plan
  <2> QED
    BY <1>1, <2>1
<1>4. boot # "down"
  BY DEF TypeInv, BootOK
<1> QED
  BY <1>1, <1>2, <1>3, <1>4 DEF CallerFits, Knows

\* Every step of a caller: it drops the first k steps of its plan.
LEMMA CallerStep ==
  ASSUME TypeInv, NEW c \in Caller, ~Idling(c), NEW k \in 1..Len(caller[c].plan), NEW q \in Nat,
         caller' = [caller EXCEPT ![c] = [plan |-> Rest(caller[c].plan, k), queue |-> q,
                                          threads |-> caller[c].threads]],
         k < Len(caller[c].plan) => Knows(queue', q, caller[c].plan[k+1]),
         Grows, RowsOK', QueuesOK', ChannelsOK', WorkersOK', SchedulersOK',
         boot' = boot \/ (boot' = "up" /\ queue # <<>>),
         Len(queue') = Len(queue) \/ (Len(queue') = Len(queue) + 1 /\ caller[c].plan[1] = "new"),
         Len(channel') = Len(channel) \/ (Len(channel') = Len(channel) + 1 /\ caller[c].plan[1] = "make")
  PROVE  TypeInv'
<1> DEFINE plan == caller[c].plan
           rest == Rest(plan, k)
           r == [plan |-> rest, queue |-> q, threads |-> caller[c].threads]
<1>1. /\ caller[c] \in CallerType /\ Plan(plan) /\ plan # <<>>
      /\ Has(plan, "new") \/ Has(plan, "resize") => caller[c].threads \in 1..MaxThreads
      /\ 1 \in 1..Len(plan) /\ boot # "down"
  BY CallerFacts
<1>2. /\ Plan(rest) /\ \A step : Has(rest, step) => Has(plan, step)
      /\ plan[1] \in {"new", "make"} => ~Has(rest, plan[1])
      /\ rest # <<>> => k < Len(plan) /\ Head(rest) = plan[k+1]
  <2>1. k \in 1..Len(plan)
    OBVIOUS
  <2> HIDE DEF plan
  <2> QED
    BY <1>1, <2>1, RestIsPlan
<1>3. CallerFits(queue', r)
  <2>1. r.plan = rest /\ r.queue = q /\ r.threads = caller[c].threads
    OBVIOUS
  <2>2. r \in CallerType
    BY <1>1, <1>2 DEF CallerType, Plan
  <2>3. Has(rest, "new") \/ Has(rest, "resize") => caller[c].threads \in 1..MaxThreads
    BY <1>1, <1>2
  <2>4. rest # <<>> => Knows(queue', q, Head(rest))
    BY <1>2
  <2> HIDE DEF r, rest
  <2> QED
    BY <1>2, <2>1, <2>2, <2>3, <2>4 DEF CallerFits, Knows
<1>4. /\ CallersOK' /\ caller'[c].plan = rest
      /\ \A d \in Caller : d # c => caller'[d] = caller[d]
  <2>1. r.plan = rest
    OBVIOUS
  <2>2. caller' = [caller EXCEPT ![c] = r]
    OBVIOUS
  <2> HIDE DEF r
  <2> QED
    BY <1>3, <2>1, <2>2, CallerSet, ZenonT(40)
<1>5. \A step : \A d \in Caller : Has(caller'[d].plan, step) => Has(caller[d].plan, step)
  BY <1>2, <1>4
<1>6. /\ Cardinality(Planned("new")') <= Cardinality(Planned("new"))
      /\ Cardinality(Planned("make")') <= Cardinality(Planned("make"))
  BY <1>4, <1>5, PlannedShrinks
<1>7. /\ plan[1] = "new" => Cardinality(Planned("new")') + 1 <= Cardinality(Planned("new"))
      /\ plan[1] = "make" => Cardinality(Planned("make")') + 1 <= Cardinality(Planned("make"))
  <2>1. /\ plan[1] = "new" => Has(plan, "new") /\ ~Has(rest, "new")
        /\ plan[1] = "make" => Has(plan, "make") /\ ~Has(rest, "make")
    BY <1>1, <1>2 DEF Has
  <2>2. CASE plan[1] = "new"
    BY <1>4, <1>5, <2>1, <2>2, PlannedDone
  <2>3. CASE plan[1] = "make"
    BY <1>4, <1>5, <2>1, <2>3, PlannedDone
  <2> QED
    BY <2>2, <2>3
<1>8. Bounded'
  <2>1. /\ Cardinality(Planned("new")') <= Cardinality(Planned("new"))
        /\ Cardinality(Planned("make")') <= Cardinality(Planned("make"))
        /\ plan[1] = "new" => Cardinality(Planned("new")') + 1 <= Cardinality(Planned("new"))
        /\ plan[1] = "make" => Cardinality(Planned("make")') + 1 <= Cardinality(Planned("make"))
    BY <1>6, <1>7
  <2>2. /\ Cardinality(Planned("new")) \in Nat /\ Cardinality(Planned("make")) \in Nat
        /\ Cardinality(Planned("new")') \in Nat /\ Cardinality(Planned("make")') \in Nat
    <3>1. Planned("new")' \in SUBSET Caller /\ Planned("make")' \in SUBSET Caller
      BY DEF Planned
    <3> QED
      BY <3>1, PlannedFinite, TaskAssumption, FS_Subset, FS_CardinalityType
  <2>3. /\ Len(queue) \in Nat /\ Len(channel) \in Nat /\ MaxQueues \in Nat /\ MaxChannels \in Nat
        /\ Len(queue) + Cardinality(Planned("new")) <= MaxQueues
        /\ Len(channel) + Cardinality(Planned("make")) <= MaxChannels
    BY BoundAssumption DEF TypeInv, Bounded, QueuesOK, ChannelsOK
  <2>4. Len(queue') + Cardinality(Planned("new")') <= MaxQueues
    BY <2>1, <2>2, <2>3, SMTT(40)
  <2>5. Len(channel') + Cardinality(Planned("make")') <= MaxChannels
    BY <2>1, <2>2, <2>3, SMTT(40)
  <2> QED
    BY <2>4, <2>5 DEF Bounded
<1>9. BootOK'
  <2>1. queue # <<>> => queue' # <<>>
    BY DEF TypeInv, QueuesOK, Grows
  <2>2. boot' # "down" /\ boot' \in {"down", "starting", "up"} /\ (boot' = "up" => queue' # <<>>)
    BY <1>1, <2>1 DEF TypeInv, BootOK
  <2> QED
    BY <2>2 DEF BootOK
<1> QED
  BY <1>4, <1>8, <1>9 DEF TypeInv

LEMMA NextSteps ==
  ASSUME NEW plan, Plan(plan), plan # <<>>
  PROVE  /\ 1 \in 1..Len(plan) /\ Len(plan) \in Nat
         /\ plan[1] = "stop" => /\ 1 < Len(plan) /\ plan[2] = "close" /\ 2 \in 1..Len(plan)
                                /\ 2 < Len(plan) => plan[3] \in {"make", "aim", "new"}
         /\ plan[1] = "close" => (1 < Len(plan) => plan[2] \in {"make", "aim", "new"})
         /\ plan[1] \in {"new", "aim"} => 1 < Len(plan) /\ plan[2] = "make"
         /\ plan[1] = "make" => 1 < Len(plan) /\ plan[2] = "reset"
         /\ plan[1] = "reset" => 1 < Len(plan) /\ plan[2] \in {"launch", "up"}
         /\ plan[1] = "launch" => /\ 1 < Len(plan) /\ plan[2] = "spawn" /\ 2 \in 1..Len(plan)
                                  /\ 2 < Len(plan) => plan[3] \in {"reset", "resize"}
         /\ plan[1] = "spawn" => (1 < Len(plan) => plan[2] \in {"reset", "resize"})
         /\ plan[1] \in {"up", "resize"} => Len(plan) = 1
<1>1. 1 \in 1..Len(plan) /\ Len(plan) \in Nat /\ (1 < Len(plan) => 2 \in 1..Len(plan))
  BY DEF Plan
<1>2. plan[1] = "stop" => /\ 1 < Len(plan) /\ plan[2] = "close" /\ 2 \in 1..Len(plan)
                          /\ 2 < Len(plan) => plan[3] \in {"make", "aim", "new"}
  BY <1>1 DEF Plan, Ordered
<1>3. plan[1] = "launch" => /\ 1 < Len(plan) /\ plan[2] = "spawn" /\ 2 \in 1..Len(plan)
                            /\ 2 < Len(plan) => plan[3] \in {"reset", "resize"}
  BY <1>1 DEF Plan, Ordered
<1>4. /\ plan[1] = "close" => (1 < Len(plan) => plan[2] \in {"make", "aim", "new"})
      /\ plan[1] = "spawn" => (1 < Len(plan) => plan[2] \in {"reset", "resize"})
  BY <1>1 DEF Plan, Ordered
<1>5. /\ plan[1] \in {"new", "aim"} => 1 < Len(plan) /\ plan[2] = "make"
      /\ plan[1] = "reset" => 1 < Len(plan) /\ plan[2] \in {"launch", "up"}
  BY <1>1 DEF Plan, Ordered
<1>6. plan[1] = "make" => 1 < Len(plan) /\ plan[2] = "reset"
  <2>1. plan[1] = "make" => 1 + 1 < Len(plan) /\ plan[1 + 1] = "reset"
    BY <1>1 DEF Plan, Ordered
  <2> QED
    BY <1>1, <2>1
<1>7. plan[1] \in {"up", "resize"} => Len(plan) = 1
  BY <1>1 DEF Plan, Ordered
<1> QED
  BY <1>1, <1>2, <1>3, <1>4, <1>5, <1>6, <1>7

LEMMA SkipIsRest ==
  ASSUME NEW c, caller[c] \in CallerType, NEW k \in Nat, Skip(c, k)
  PROVE  caller' = [caller EXCEPT ![c] = [plan |-> Rest(caller[c].plan, k),
                                          queue |-> caller[c].queue,
                                          threads |-> caller[c].threads]]
<1>1. caller' = [caller EXCEPT ![c] = [caller[c] EXCEPT !.plan = Rest(caller[c].plan, k)]]
  BY DEF Skip, Rest
<1>2. [caller[c] EXCEPT !.plan = Rest(caller[c].plan, k)] =
        [plan |-> Rest(caller[c].plan, k), queue |-> caller[c].queue, threads |-> caller[c].threads]
  BY DEF CallerType
<1> QED
  BY <1>1, <1>2

LEMMA LengthFacts ==
  ASSUME TypeInv
  PROVE  /\ Len(queue) \in 0..MaxQueues /\ Len(channel) \in 0..MaxChannels
         /\ \A q \in 1..Len(queue) : q \in 1..MaxQueues
<1>1. /\ Len(queue) \in Nat /\ Len(channel) \in Nat /\ Len(queue) <= MaxQueues
      /\ Len(channel) <= MaxChannels
  BY TypeConsequence DEF TypeInv, QueuesOK, ChannelsOK, TypeOK
<1> QED
  BY <1>1, BoundAssumption

LEMMA SpawnSet ==
  ASSUME TypeInv, Grows, QueuesOK', ChannelsOK', NEW q \in 1..Len(queue), NEW n, SpawnWorkers(q, n)
  PROVE  WorkersOK'
<1>1. PICK S : worker' = [w \in Worker |-> IF w \in S THEN NewWorker(q) ELSE worker[w]]
  BY DEF SpawnWorkers
<1>2. WorkerFits(queue', channel', NewWorker(q))
  BY LengthFacts, NewWorkers, GrownWorker
<1>3. \A w \in Worker : WorkerFits(queue', channel', worker[w])
  <2> SUFFICES ASSUME NEW w \in Worker
               PROVE  WorkerFits(queue', channel', worker[w])
    OBVIOUS
  <2>1. WorkerFits(queue, channel, worker[w])
    BY DEF TypeInv, WorkersOK
  <2> QED
    BY <2>1, GrownMade DEF WorkerFits
<1>4. \A w \in Worker : WorkerFits(queue', channel', worker'[w])
  <2> SUFFICES ASSUME NEW w \in Worker
               PROVE  WorkerFits(queue', channel', worker'[w])
    OBVIOUS
  <2>1. worker'[w] = NewWorker(q) \/ worker'[w] = worker[w]
    BY <1>1
  <2> QED
    BY <1>2, <1>3, <2>1
<1>5. worker' \in [Worker -> WorkerType]
  <2>1. NewWorker(q) \in WorkerType /\ \A w \in Worker : worker[w] \in WorkerType
    BY <1>2, <1>3 DEF WorkerFits
  <2> QED
    BY <1>1, <2>1
<1> QED
  BY <1>4, <1>5 DEF WorkersOK

LEMMA StopFlagStep ==
  ASSUME TypeInv, NEW c \in Caller, StopFlag(c)
  PROVE  TypeInv'
<1> DEFINE q == caller[c].queue
           plan == caller[c].plan
           r == [queue[q] EXCEPT !.running = FALSE]
<1>1. ~Idling(c) /\ plan[1] = "stop" /\ UNCHANGED <<row, retries, boot, channel, worker, scheduler>>
  BY CallerFacts DEF StopFlag, At
<1>2. /\ caller[c] \in CallerType /\ q \in Nat /\ Plan(plan) /\ plan # <<>> /\ q \in 1..Len(queue)
  BY <1>1, CallerFacts DEF Knows
<1>3. /\ 1 < Len(plan) /\ plan[2] = "close" /\ 1 \in 1..Len(plan) /\ 2 \in 1..Len(plan)
      /\ 2 < Len(plan) => plan[3] \in {"make", "aim", "new"}
  <2> HIDE DEF plan
  <2> QED
    BY <1>1, <1>2, NextSteps
<1>4. RowsOK' /\ ChannelsOK'
  BY <1>1 DEF TypeInv, RowsOK, ChannelsOK
<1>5. CASE queue[q].running
  <2>1. Skip(c, 1) /\ queue' = [queue EXCEPT ![q].running = FALSE]
    BY <1>5 DEF StopFlag
  <2>2. caller' = [caller EXCEPT ![c] = [plan |-> Rest(plan, 1), queue |-> q,
                                         threads |-> caller[c].threads]]
    BY <1>2, <2>1, SkipIsRest
  <2>3. Made(queue, q)
    BY <1>2, <1>5 DEF TypeInv, QueuesOK, Made
  <2>4. Grows /\ QueuesOK' /\ Len(queue') = Len(queue)
    <3>1. queue[q] \in QueueType /\ queue[q].tasks \in 1..Len(channel) /\ Len(channel) \in Nat
      BY <2>3, MadeFacts DEF TypeInv, ChannelsOK
    <3>2. r \in QueueType /\ r.tasks = queue[q].tasks
      BY <3>1 DEF QueueType
    <3>3. queue' = [queue EXCEPT ![q] = r]
      BY <2>1
    <3> HIDE DEF r
    <3>4. r.tasks <= Len(channel') /\ r.tasks # 0 /\ Len(channel) <= Len(channel') /\ Len(channel') \in Nat
      BY <1>1, <3>1, <3>2
    <3> QED
      BY <1>2, <3>2, <3>3, <3>4, QueueSet
  <2>5. Knows(queue', q, plan[1+1])
    BY <1>3, <2>3, <2>4, <1>4, GrownMade DEF Knows, Made
  <2> QED
    BY <1>1, <1>2, <1>3, <1>4, <2>2, <2>4, <2>5, WorkersKept, SchedulersKept, CallerStep
<1>6. CASE ~queue[q].running
  <2>1. Skip(c, 2) /\ queue' = queue
    BY <1>6 DEF StopFlag
  <2>2. caller' = [caller EXCEPT ![c] = [plan |-> Rest(plan, 2), queue |-> q,
                                         threads |-> caller[c].threads]]
    BY <1>2, <2>1, SkipIsRest
  <2>3. Grows /\ QueuesOK'
    BY <1>1, <2>1, GrowsNot
  <2>4. 2 < Len(plan) => Knows(queue', q, plan[2+1])
    BY <1>2, <1>3, <2>1 DEF Knows
  <2> QED
    BY <1>1, <1>2, <1>3, <1>4, <2>1, <2>2, <2>3, <2>4, WorkersKept, SchedulersKept, CallerStep
<1> QED
  BY <1>5, <1>6

LEMMA CloseStep ==
  ASSUME TypeInv, NEW c \in Caller, Close(c)
  PROVE  TypeInv'
<1> DEFINE q == caller[c].queue
           plan == caller[c].plan
           ch == queue[q].tasks
           new == [channel[ch] EXCEPT !.closed = TRUE]
<1>1. /\ ~Idling(c) /\ plan[1] = "close" /\ UNCHANGED <<row, retries, boot, queue, worker, scheduler>>
      /\ Skip(c, 1) /\ channel' = [channel EXCEPT ![ch].closed = TRUE]
  BY CallerFacts DEF Close, At
<1>2. /\ caller[c] \in CallerType /\ q \in Nat /\ Plan(plan) /\ plan # <<>> /\ Made(queue, q)
  BY <1>1, CallerFacts DEF Knows
<1>3. 1 \in 1..Len(plan) /\ (1 < Len(plan) => plan[2] \in {"make", "aim", "new"})
  <2> HIDE DEF plan
  <2> QED
    BY <1>1, <1>2, NextSteps
<1>4. RowsOK'
  BY <1>1 DEF TypeInv, RowsOK
<1>5. Len(channel') = Len(channel) /\ ChannelsOK'
  <2>1. ch \in 1..Len(channel) /\ channel[ch] \in ChannelType /\ channel \in Seq(ChannelType)
    BY <1>2, MadeFacts, ChannelFacts
  <2>2. new \in ChannelType /\ new.buffer = channel[ch].buffer /\ new.places = channel[ch].places
    BY <2>1 DEF ChannelType
  <2>3. channel' = [channel EXCEPT ![ch] = new]
    BY <1>1
  <2> HIDE DEF new, ch
  <2>4. /\ channel' \in Seq(ChannelType) /\ Len(channel') = Len(channel)
        /\ \A x \in 1..Len(channel) : channel'[x] = IF x = ch THEN new ELSE channel[x]
    BY <2>1, <2>2, <2>3, ElementSet
  <2>5. \A x \in 1..Len(channel) : Len(channel[x].buffer) <= channel[x].places
    BY DEF TypeInv, ChannelsOK
  <2> QED
    BY <2>1, <2>2, <2>4, <2>5 DEF ChannelsOK
<1>6. Grows /\ QueuesOK'
  <2>1. QueuesOK /\ ChannelsOK
    BY DEF TypeInv
  <2>2. Len(queue) \in Nat /\ Len(channel) \in Nat
    BY <2>1 DEF QueuesOK, ChannelsOK
  <2>3. queue' = queue /\ Len(channel') = Len(channel)
    BY <1>1, <1>5
  <2> HIDE DEF q, plan, ch, new
  <2> QED
    BY <2>1, <2>2, <2>3 DEF Grows, QueuesOK
<1>7. caller' = [caller EXCEPT ![c] = [plan |-> Rest(plan, 1), queue |-> q,
                                       threads |-> caller[c].threads]]
  BY <1>1, <1>2, SkipIsRest
<1>8. 1 < Len(plan) => Knows(queue', q, plan[1+1])
  BY <1>1, <1>2, <1>3 DEF Knows, Made
<1> QED
  BY <1>1, <1>2, <1>3, <1>4, <1>5, <1>6, <1>7, <1>8, WorkersKept, SchedulersKept, CallerStep

LEMMA MakeStep ==
  ASSUME TypeInv, NEW c \in Caller, Make(c)
  PROVE  TypeInv'
<1> DEFINE q == caller[c].queue
           plan == caller[c].plan
           new == [buffer |-> <<>>, closed |-> FALSE, places |-> queue[q].numWorkers * ChannelFactor]
           r == [queue[q] EXCEPT !.tasks = Len(channel) + 1]
<1>1. /\ ~Idling(c) /\ plan[1] = "make" /\ UNCHANGED <<row, retries, boot, worker, scheduler>>
      /\ Skip(c, 1) /\ channel' = Append(channel, new)
      /\ queue' = [queue EXCEPT ![q].tasks = Len(channel) + 1]
  BY CallerFacts DEF Make, At
<1>2. /\ caller[c] \in CallerType /\ q \in Nat /\ Plan(plan) /\ plan # <<>> /\ q \in 1..Len(queue)
  BY <1>1, CallerFacts DEF Knows
<1>3. 1 \in 1..Len(plan) /\ 1 < Len(plan) /\ plan[2] = "reset"
  <2> HIDE DEF plan
  <2> QED
    BY <1>1, <1>2, NextSteps
<1>4. RowsOK'
  BY <1>1 DEF TypeInv, RowsOK
<1>5. queue[q] \in QueueType
  BY <1>2 DEF TypeInv, QueuesOK
<1>6. Len(channel') = Len(channel) + 1 /\ ChannelsOK' /\ Len(channel) \in Nat
  <2>1. new \in ChannelType /\ Len(new.buffer) <= new.places
    <3>1. queue[q].numWorkers \in Nat /\ ChannelFactor \in Nat
      BY <1>5, BoundAssumption DEF QueueType
    <3>2. queue[q].numWorkers * ChannelFactor \in Nat
      BY <3>1
    <3> QED
      BY <3>2 DEF ChannelType
  <2>2. channel \in Seq(ChannelType)
    BY DEF TypeInv, ChannelsOK
  <2> HIDE DEF new
  <2>3. /\ channel' \in Seq(ChannelType) /\ Len(channel') = Len(channel) + 1 /\ Len(channel) \in Nat
        /\ \A x \in 1..Len(channel') : \/ x \in 1..Len(channel) /\ channel'[x] = channel[x]
                                       \/ channel'[x] = new
    BY <1>1, <2>1, <2>2
  <2>4. \A x \in 1..Len(channel) : Len(channel[x].buffer) <= channel[x].places
    BY DEF TypeInv, ChannelsOK
  <2> QED
    BY <2>1, <2>3, <2>4 DEF ChannelsOK
<1>7. Len(channel) + 1 <= MaxChannels
  <2>1. Has(plan, "make")
    BY <1>1, <1>3 DEF Has
  <2>2. c \in Planned("make")
    BY <2>1, PlannedHas
  <2>3. Cardinality(Planned("make")) \in Nat /\ Cardinality(Planned("make")) # 0
    BY <2>2, PlannedFinite, FS_EmptySet
  <2> QED
    BY <1>6, <2>3, BoundAssumption DEF TypeInv, Bounded
<1>8. Grows /\ QueuesOK' /\ Len(queue') = Len(queue)
  <2>1. Len(channel) + 1 \in 0..MaxChannels
    BY <1>6, <1>7, BoundAssumption
  <2>2. r \in QueueType /\ r.tasks = Len(channel) + 1
    BY <1>5, <2>1 DEF QueueType
  <2>3. queue' = [queue EXCEPT ![q] = r]
    BY <1>1
  <2> HIDE DEF r
  <2>4. r.tasks <= Len(channel') /\ r.tasks # 0 /\ Len(channel) <= Len(channel') /\ Len(channel') \in Nat
    BY <1>6, <2>2
  <2> QED
    BY <1>2, <2>2, <2>3, <2>4, QueueSet
<1>9. Made(queue', q)
  <2>1. queue \in Seq(QueueType)
    BY DEF TypeInv, QueuesOK
  <2>2. queue'[q] = r
    BY <1>1, <1>2, <2>1, SMTT(40)
  <2>3. r.tasks = Len(channel) + 1
    BY <1>5 DEF QueueType
  <2> HIDE DEF r
  <2> QED
    BY <1>2, <1>6, <1>8, <2>2, <2>3 DEF Made
<1>10. caller' = [caller EXCEPT ![c] = [plan |-> Rest(plan, 1), queue |-> q,
                                        threads |-> caller[c].threads]]
  BY <1>1, <1>2, SkipIsRest
<1>11. Knows(queue', q, plan[1+1])
  BY <1>3, <1>9 DEF Knows, Made
<1> QED
  BY <1>1, <1>2, <1>3, <1>4, <1>6, <1>8, <1>10, <1>11, WorkersKept, SchedulersKept, CallerStep

LEMMA LaunchStep ==
  ASSUME TypeInv, NEW c \in Caller, Launch(c)
  PROVE  TypeInv'
<1> DEFINE q == caller[c].queue
           plan == caller[c].plan
           r == [queue[q] EXCEPT !.running = TRUE]
<1>1. ~Idling(c) /\ plan[1] = "launch" /\ UNCHANGED <<row, retries, boot, channel, worker, scheduler>>
  BY CallerFacts DEF Launch, At
<1>2. /\ caller[c] \in CallerType /\ q \in Nat /\ Plan(plan) /\ plan # <<>> /\ Made(queue, q)
      /\ q \in 1..Len(queue)
  BY <1>1, CallerFacts DEF Knows, Made
<1>3. /\ 1 < Len(plan) /\ plan[2] = "spawn" /\ 1 \in 1..Len(plan) /\ 2 \in 1..Len(plan)
      /\ 2 < Len(plan) => plan[3] \in {"reset", "resize"}
  <2> HIDE DEF plan
  <2> QED
    BY <1>1, <1>2, NextSteps
<1>4. RowsOK' /\ ChannelsOK'
  BY <1>1 DEF TypeInv, RowsOK, ChannelsOK
<1>5. CASE ~queue[q].running
  <2>1. Skip(c, 1) /\ queue' = [queue EXCEPT ![q].running = TRUE]
    BY <1>5 DEF Launch
  <2>2. caller' = [caller EXCEPT ![c] = [plan |-> Rest(plan, 1), queue |-> q,
                                         threads |-> caller[c].threads]]
    BY <1>2, <2>1, SkipIsRest
  <2>3. Grows /\ QueuesOK' /\ Len(queue') = Len(queue)
    <3>1. queue[q] \in QueueType /\ queue[q].tasks \in 1..Len(channel) /\ Len(channel) \in Nat
      BY <1>2, MadeFacts DEF TypeInv, ChannelsOK
    <3>2. r \in QueueType /\ r.tasks = queue[q].tasks
      BY <3>1 DEF QueueType
    <3>3. queue' = [queue EXCEPT ![q] = r]
      BY <2>1
    <3> HIDE DEF r
    <3>4. r.tasks <= Len(channel') /\ r.tasks # 0 /\ Len(channel) <= Len(channel') /\ Len(channel') \in Nat
      BY <1>1, <3>1, <3>2
    <3> QED
      BY <1>2, <3>2, <3>3, <3>4, QueueSet
  <2>4. Knows(queue', q, plan[1+1])
    BY <1>2, <1>3, <2>3, <1>4, GrownMade DEF Knows, Made
  <2> QED
    BY <1>1, <1>2, <1>3, <1>4, <2>2, <2>3, <2>4, WorkersKept, SchedulersKept, CallerStep
<1>6. CASE queue[q].running
  <2>1. Skip(c, 2) /\ queue' = queue
    BY <1>6 DEF Launch
  <2>2. caller' = [caller EXCEPT ![c] = [plan |-> Rest(plan, 2), queue |-> q,
                                         threads |-> caller[c].threads]]
    BY <1>2, <2>1, SkipIsRest
  <2>3. Grows /\ QueuesOK'
    BY <1>1, <2>1, GrowsNot
  <2>4. 2 < Len(plan) => Knows(queue', q, plan[2+1])
    BY <1>2, <1>3, <2>1 DEF Knows
  <2> QED
    BY <1>1, <1>2, <1>3, <1>4, <2>1, <2>2, <2>3, <2>4, WorkersKept, SchedulersKept, CallerStep
<1> QED
  BY <1>5, <1>6

LEMMA ResetStep ==
  ASSUME TypeInv, NEW c \in Caller, Reset(c)
  PROVE  TypeInv'
<1> DEFINE q == caller[c].queue
           plan == caller[c].plan
<1>1. /\ ~Idling(c) /\ plan[1] = "reset" /\ UNCHANGED <<retries, boot, queue, channel, worker, scheduler>>
      /\ Skip(c, 1) /\ row' = [t \in Task |-> IF row[t] = Downloading THEN Pending ELSE row[t]]
  BY CallerFacts DEF Reset, At
<1>2. /\ caller[c] \in CallerType /\ q \in Nat /\ Plan(plan) /\ plan # <<>> /\ Made(queue, q)
      /\ q \in 1..Len(queue)
  BY <1>1, CallerFacts DEF Knows, Made
<1>3. 1 \in 1..Len(plan) /\ (1 < Len(plan) => plan[2] \in {"launch", "up"})
  <2> HIDE DEF plan
  <2> QED
    BY <1>1, <1>2, NextSteps
<1>4. RowsOK'
  <2>1. Pending \in Status
    BY DEF Status, Active
  <2> QED
    BY <1>1, <2>1 DEF TypeInv, RowsOK
<1>5. Grows /\ QueuesOK' /\ ChannelsOK'
  BY <1>1, GrowsNot
<1>6. caller' = [caller EXCEPT ![c] = [plan |-> Rest(plan, 1), queue |-> q,
                                       threads |-> caller[c].threads]]
  BY <1>1, <1>2, SkipIsRest
<1>7. 1 < Len(plan) => Knows(queue', q, plan[1+1])
  BY <1>1, <1>2, <1>3 DEF Knows
<1> QED
  BY <1>1, <1>2, <1>3, <1>4, <1>5, <1>6, <1>7, WorkersKept, SchedulersKept, CallerStep

LEMMA SpawnStep ==
  ASSUME TypeInv, NEW c \in Caller, Spawn(c)
  PROVE  TypeInv'
<1> DEFINE q == caller[c].queue
           plan == caller[c].plan
           r == NewScheduler(q)
<1>1. /\ ~Idling(c) /\ plan[1] = "spawn" /\ UNCHANGED <<row, retries, boot, queue, channel>>
      /\ Skip(c, 1) /\ SpawnWorkers(q, queue[q].numWorkers) /\ scheduler' = Append(scheduler, r)
  BY CallerFacts DEF Spawn, At
<1>2. /\ caller[c] \in CallerType /\ q \in Nat /\ Plan(plan) /\ plan # <<>> /\ Made(queue, q)
      /\ q \in 1..Len(queue) /\ q \in 1..MaxQueues
  BY <1>1, CallerFacts, LengthFacts DEF Knows, Made
<1>3. 1 \in 1..Len(plan) /\ (1 < Len(plan) => plan[2] \in {"reset", "resize"})
  <2> HIDE DEF plan
  <2> QED
    BY <1>1, <1>2, NextSteps
<1>4. RowsOK'
  BY <1>1 DEF TypeInv, RowsOK
<1>5. Grows /\ QueuesOK' /\ ChannelsOK'
  BY <1>1, GrowsNot
<1>6. WorkersOK'
  BY <1>1, <1>2, <1>5, SpawnSet
<1>7. SchedulersOK'
  <2>1. SchedulerFits(queue', r)
    BY <1>1, <1>2 DEF SchedulerFits, SchedulerType, NewScheduler
  <2>2. r \in SchedulerType
    BY <2>1 DEF SchedulerFits
  <2>3. scheduler \in Seq(SchedulerType)
    BY DEF TypeInv, SchedulersOK
  <2> HIDE DEF r
  <2>4. /\ scheduler' \in Seq(SchedulerType)
        /\ \A s \in 1..Len(scheduler') : \/ s \in 1..Len(scheduler) /\ scheduler'[s] = scheduler[s]
                                         \/ scheduler'[s] = r
    BY <1>1, <2>2, <2>3
  <2>5. \A s \in 1..Len(scheduler) : SchedulerFits(queue', scheduler[s])
    <3> SUFFICES ASSUME NEW s \in 1..Len(scheduler)
                 PROVE  SchedulerFits(queue', scheduler[s])
      OBVIOUS
    <3>1. SchedulerFits(queue, scheduler[s])
      BY DEF TypeInv, SchedulersOK
    <3> QED
      BY <1>1, <3>1
  <2>6. \A s \in 1..Len(scheduler') : SchedulerFits(queue', scheduler'[s])
    BY <2>1, <2>4, <2>5
  <2> QED
    BY <2>4, <2>6 DEF SchedulersOK
<1>8. caller' = [caller EXCEPT ![c] = [plan |-> Rest(plan, 1), queue |-> q,
                                       threads |-> caller[c].threads]]
  BY <1>1, <1>2, SkipIsRest
<1>9. 1 < Len(plan) => Knows(queue', q, plan[1+1])
  BY <1>1, <1>2, <1>3 DEF Knows
<1> QED
  BY <1>1, <1>2, <1>3, <1>4, <1>5, <1>6, <1>7, <1>8, <1>9, CallerStep

LEMMA UpStep ==
  ASSUME TypeInv, NEW c \in Caller, Up(c)
  PROVE  TypeInv'
<1> DEFINE q == caller[c].queue
           plan == caller[c].plan
<1>1. /\ ~Idling(c) /\ plan[1] = "up" /\ UNCHANGED <<row, retries, queue, channel, worker, scheduler>>
      /\ Skip(c, 1) /\ boot' = "up"
  BY CallerFacts DEF Up, At
<1>2. /\ caller[c] \in CallerType /\ q \in Nat /\ Plan(plan) /\ plan # <<>> /\ Made(queue, q)
  BY <1>1, CallerFacts DEF Knows
<1>3. 1 \in 1..Len(plan) /\ Len(plan) = 1
  <2> HIDE DEF plan
  <2> QED
    BY <1>1, <1>2, NextSteps
<1>4. RowsOK' /\ queue # <<>>
  BY <1>1, <1>2 DEF TypeInv, RowsOK, Made
<1>5. Grows /\ QueuesOK' /\ ChannelsOK'
  BY <1>1, GrowsNot
<1>6. caller' = [caller EXCEPT ![c] = [plan |-> Rest(plan, 1), queue |-> q,
                                       threads |-> caller[c].threads]]
  BY <1>1, <1>2, SkipIsRest
<1>7. 1 < Len(plan) => Knows(queue', q, plan[1+1])
  BY <1>3
<1> QED
  BY <1>1, <1>2, <1>3, <1>4, <1>5, <1>6, <1>7, WorkersKept, SchedulersKept, CallerStep

LEMMA CallerRecord ==
  ASSUME NEW r \in CallerType, NEW plan, NEW q
  PROVE  [[r EXCEPT !.plan = plan] EXCEPT !.queue = q] =
           [plan |-> plan, queue |-> q, threads |-> r.threads]
<1> DEFINE m == [r EXCEPT !.plan = plan]
<1>1. r = [plan |-> r.plan, queue |-> r.queue, threads |-> r.threads]
  BY DEF CallerType
<1>2. m = [plan |-> plan, queue |-> r.queue, threads |-> r.threads]
  BY <1>1
<1> HIDE DEF m
<1>3. [m EXCEPT !.queue = q] = [plan |-> plan, queue |-> q, threads |-> r.threads]
  BY <1>2
<1> QED
  BY <1>3 DEF m

LEMMA AimIsRest ==
  ASSUME NEW c, caller[c] \in CallerType, Plan(caller[c].plan), caller[c].plan # <<>>, NEW q,
         caller' = [caller EXCEPT ![c].plan = Tail(@), ![c].queue = q]
  PROVE  caller' = [caller EXCEPT ![c] = [plan |-> Rest(caller[c].plan, 1), queue |-> q,
                                          threads |-> caller[c].threads]]
<1> DEFINE plan == caller[c].plan
<1>1. caller' = [caller EXCEPT ![c] = [[caller[c] EXCEPT !.plan = Tail(plan)] EXCEPT !.queue = q]]
      \/ c \notin DOMAIN caller
  OBVIOUS
<1>2. [[caller[c] EXCEPT !.plan = Tail(plan)] EXCEPT !.queue = q] =
        [plan |-> Tail(plan), queue |-> q, threads |-> caller[c].threads]
  BY CallerRecord
<1>3. Tail(plan) = Rest(plan, 1)
  BY TailIsRest
<1>4. CASE c \notin DOMAIN caller
  BY <1>4
<1> QED
  BY <1>1, <1>2, <1>3, <1>4

\* A new DQ at the end of the heap.
LEMMA QueueAppended ==
  ASSUME TypeInv, NEW r \in QueueType, r.tasks = 0, r.running = FALSE,
         queue' = Append(queue, r), channel' = channel
  PROVE  /\ Grows /\ QueuesOK' /\ Len(queue') = Len(queue) + 1 /\ Len(queue) \in Nat
<1>1. queue \in Seq(QueueType) /\ Len(channel) \in Nat
  BY DEF TypeInv, QueuesOK, ChannelsOK
<1>2. /\ queue' \in Seq(QueueType) /\ Len(queue') = Len(queue) + 1 /\ Len(queue) \in Nat
      /\ \A p \in 1..Len(queue) : queue'[p] = queue[p]
      /\ \A p \in 1..Len(queue') : p \in 1..Len(queue) \/ queue'[p] = r
  BY <1>1
<1>3. Grows
  BY <1>1, <1>2 DEF Grows
<1>4. \A p \in 1..Len(queue) : queue[p].tasks <= Len(channel) /\ (queue[p].running => queue[p].tasks # 0)
  BY DEF TypeInv, QueuesOK
<1>5. \A p \in 1..Len(queue') : queue'[p].tasks <= Len(channel') /\ (queue'[p].running => queue'[p].tasks # 0)
  BY <1>1, <1>2, <1>4
<1> QED
  BY <1>2, <1>3, <1>5 DEF QueuesOK

LEMMA NewStep ==
  ASSUME TypeInv, NEW c \in Caller, New(c)
  PROVE  TypeInv'
<1> DEFINE q == Len(queue) + 1
           plan == caller[c].plan
           n == caller[c].threads
           r == [numWorkers |-> n, running |-> FALSE, tasks |-> 0, retryTriggered |-> FALSE]
<1>1. /\ ~Idling(c) /\ plan[1] = "new" /\ UNCHANGED <<row, retries, boot, channel, worker, scheduler>>
      /\ queue' = Append(queue, r)
      /\ caller' = [caller EXCEPT ![c].plan = Tail(@), ![c].queue = Len(queue) + 1]
  BY CallerFacts DEF New, At
<1>2. caller[c] \in CallerType /\ Plan(plan) /\ plan # <<>>
  BY <1>1, CallerFacts
<1>3. 1 \in 1..Len(plan) /\ 1 < Len(plan) /\ plan[2] = "make"
  <2> HIDE DEF plan
  <2> QED
    BY <1>1, <1>2, NextSteps
<1>4. RowsOK' /\ ChannelsOK'
  BY <1>1 DEF TypeInv, RowsOK, ChannelsOK
<1>5. n \in 1..MaxThreads
  <2>1. Has(plan, "new")
    BY <1>1, <1>3 DEF Has
  <2> QED
    BY <1>1, <2>1, CallerFacts
<1>6. Grows /\ QueuesOK' /\ Len(queue') = Len(queue) + 1 /\ Len(queue) \in Nat
  <2>1. r \in QueueType /\ r.tasks = 0 /\ r.running = FALSE
    BY <1>5, BoundAssumption DEF QueueType
  <2> HIDE DEF r
  <2> QED
    BY <1>1, <2>1, QueueAppended
<1>7. caller' = [caller EXCEPT ![c] = [plan |-> Rest(plan, 1), queue |-> q, threads |-> n]]
  BY <1>1, <1>2, AimIsRest
<1>8. Knows(queue', q, plan[1+1])
  BY <1>3, <1>6 DEF Knows
<1>9. q \in Nat
  BY <1>6
<1> HIDE DEF q
<1> QED
  BY <1>1, <1>2, <1>3, <1>4, <1>6, <1>7, <1>8, <1>9, WorkersKept, SchedulersKept, CallerStep

LEMMA AimStep ==
  ASSUME TypeInv, NEW c \in Caller, Aim(c)
  PROVE  TypeInv'
<1> DEFINE q == Len(queue)
           plan == caller[c].plan
<1>1. /\ ~Idling(c) /\ plan[1] = "aim" /\ UNCHANGED <<row, retries, boot, queue, channel, worker, scheduler>>
      /\ caller' = [caller EXCEPT ![c].plan = Tail(@), ![c].queue = q]
  BY CallerFacts DEF Aim, At, Global
<1>2. caller[c] \in CallerType /\ Plan(plan) /\ plan # <<>> /\ caller[c].queue \in 1..Len(queue)
  BY <1>1, CallerFacts DEF Knows
<1>3. 1 \in 1..Len(plan) /\ 1 < Len(plan) /\ plan[2] = "make"
  <2> HIDE DEF plan
  <2> QED
    BY <1>1, <1>2, NextSteps
<1>4. RowsOK'
  BY <1>1 DEF TypeInv, RowsOK
<1>5. Grows /\ QueuesOK' /\ ChannelsOK'
  BY <1>1, GrowsNot
<1>6. q \in Nat /\ q \in 1..Len(queue)
  BY <1>2 DEF TypeInv, QueuesOK
<1>7. caller' = [caller EXCEPT ![c] = [plan |-> Rest(plan, 1), queue |-> q, threads |-> caller[c].threads]]
  BY <1>1, <1>2, AimIsRest
<1>8. Knows(queue', q, plan[1+1])
  BY <1>1, <1>3, <1>6 DEF Knows
<1> HIDE DEF q
<1> QED
  BY <1>1, <1>2, <1>3, <1>4, <1>5, <1>6, <1>7, <1>8, WorkersKept, SchedulersKept, CallerStep

LEMMA ResizeStep ==
  ASSUME TypeInv, NEW c \in Caller, Resize(c)
  PROVE  TypeInv'
<1> DEFINE g == Len(queue)
           q == caller[c].queue
           plan == caller[c].plan
           n == caller[c].threads
           r == [queue[g] EXCEPT !.numWorkers = n]
<1>1. /\ ~Idling(c) /\ plan[1] = "resize" /\ UNCHANGED <<row, retries, boot, channel, scheduler>>
      /\ Skip(c, 1) /\ queue' = [queue EXCEPT ![g].numWorkers = n]
      /\ \E m : SpawnWorkers(g, m)
  BY CallerFacts DEF Resize, At, Global
<1>2. /\ caller[c] \in CallerType /\ q \in Nat /\ Plan(plan) /\ plan # <<>> /\ q \in 1..Len(queue)
  BY <1>1, CallerFacts DEF Knows
<1>3. 1 \in 1..Len(plan) /\ Len(plan) = 1
  <2> HIDE DEF plan
  <2> QED
    BY <1>1, <1>2, NextSteps
<1>4. RowsOK' /\ ChannelsOK'
  BY <1>1 DEF TypeInv, RowsOK, ChannelsOK
<1>5. n \in 1..MaxThreads
  <2>1. Has(plan, "resize")
    BY <1>1, <1>3 DEF Has
  <2> QED
    BY <1>1, <2>1, CallerFacts
<1>6. g \in 1..Len(queue) /\ Len(queue) \in Nat
  BY <1>2 DEF TypeInv, QueuesOK
<1>7. Grows /\ QueuesOK' /\ Len(queue') = Len(queue)
  <2>1. queue[g] \in QueueType /\ Len(channel) \in Nat /\ queue[g].tasks <= Len(channel)
        /\ (queue[g].running => queue[g].tasks # 0)
    BY <1>6 DEF TypeInv, QueuesOK, ChannelsOK
  <2>2. r \in QueueType /\ r.tasks = queue[g].tasks /\ r.running = queue[g].running
    BY <1>5, <2>1 DEF QueueType
  <2>3. queue' = [queue EXCEPT ![g] = r]
    BY <1>1
  <2> HIDE DEF r, g
  <2>4. /\ r.tasks <= Len(channel') /\ Len(channel) <= Len(channel') /\ Len(channel') \in Nat
        /\ (r.running => r.tasks # 0) /\ (queue[g].tasks # 0 => r.tasks # 0)
    BY <1>1, <2>1, <2>2
  <2> QED
    BY <1>6, <2>2, <2>3, <2>4, QueueSet
<1>8. WorkersOK'
  <2> HIDE DEF g
  <2> QED
    BY <1>1, <1>4, <1>6, <1>7, SpawnSet
<1>9. caller' = [caller EXCEPT ![c] = [plan |-> Rest(plan, 1), queue |-> q, threads |-> n]]
  BY <1>1, <1>2, SkipIsRest
<1>10. 1 < Len(plan) => Knows(queue', q, plan[1+1])
  BY <1>3
<1> QED
  BY <1>1, <1>2, <1>3, <1>4, <1>7, <1>8, <1>9, <1>10, SchedulersKept, CallerStep

\* A caller that has nothing to do takes up a plan.
LEMMA PlanStep ==
  ASSUME TypeInv, NEW c \in Caller, NEW plan, NEW q \in Nat, NEW threads \in Nat,
         Plans(c, plan, q, threads), Plan(plan), plan # <<>>, Knows(queue, q, plan[1]),
         Has(plan, "new") \/ Has(plan, "resize") => threads \in 1..MaxThreads,
         (boot' = boot /\ boot # "down") \/ boot' = "starting",
         Has(plan, "new") => Len(queue) + Cardinality(Planned("new")) < MaxQueues,
         Has(plan, "make") => Len(channel) + Cardinality(Planned("make")) < MaxChannels
  PROVE  TypeInv'
<1> DEFINE r == [plan |-> plan, queue |-> q, threads |-> threads]
<1>1. /\ UNCHANGED <<row, retries, queue, channel, worker, scheduler>>
      /\ caller' = [caller EXCEPT ![c] = r] /\ caller[c].plan = <<>>
  BY DEF Plans, Idling
<1>2. Grows /\ QueuesOK' /\ ChannelsOK'
  BY <1>1, GrowsNot
<1>3. RowsOK'
  BY <1>1 DEF TypeInv, RowsOK
<1>4. /\ CallersOK' /\ caller'[c].plan = plan
      /\ \A d \in Caller : d # c => caller'[d] = caller[d]
  <2>1. r.plan = plan /\ r.queue = q /\ r.threads = threads
    OBVIOUS
  <2>2. r \in CallerType
    BY DEF CallerType, Plan
  <2>3. Head(plan) = plan[1]
    BY DEF Plan
  <2> HIDE DEF r
  <2>4. CallerFits(queue', r)
    BY <1>1, <2>1, <2>2, <2>3 DEF CallerFits, Knows
  <2> QED
    BY <1>1, <1>2, <2>1, <2>4, CallerSet
<1>5. Bounded'
  <2>1. /\ Cardinality(Planned("new")') <= Cardinality(Planned("new")) + 1
        /\ Cardinality(Planned("make")') <= Cardinality(Planned("make")) + 1
    BY <1>4, PlannedBegins
  <2>2. ~Has(plan, "new") => Cardinality(Planned("new")') <= Cardinality(Planned("new"))
    <3>1. ~Has(plan, "new") => \A d \in Caller : Has(caller'[d].plan, "new") => Has(caller[d].plan, "new")
      BY <1>4
    <3> QED
      BY <1>4, <3>1, PlannedShrinks
  <2>3. ~Has(plan, "make") => Cardinality(Planned("make")') <= Cardinality(Planned("make"))
    <3>1. ~Has(plan, "make") => \A d \in Caller : Has(caller'[d].plan, "make") => Has(caller[d].plan, "make")
      BY <1>4
    <3> QED
      BY <1>4, <3>1, PlannedShrinks
  <2>4. /\ Cardinality(Planned("new")) \in Nat /\ Cardinality(Planned("make")) \in Nat
        /\ Cardinality(Planned("new")') \in Nat /\ Cardinality(Planned("make")') \in Nat
    <3>1. Planned("new")' \in SUBSET Caller /\ Planned("make")' \in SUBSET Caller
      BY DEF Planned
    <3> QED
      BY <3>1, PlannedFinite, TaskAssumption, FS_Subset, FS_CardinalityType
  <2>5. /\ Len(queue) \in Nat /\ Len(channel) \in Nat /\ MaxQueues \in Nat /\ MaxChannels \in Nat
        /\ Len(queue) + Cardinality(Planned("new")) <= MaxQueues
        /\ Len(channel) + Cardinality(Planned("make")) <= MaxChannels
    BY BoundAssumption DEF TypeInv, Bounded, QueuesOK, ChannelsOK
  <2>6. Len(queue') + Cardinality(Planned("new")') <= MaxQueues
    BY <1>1, <2>1, <2>2, <2>4, <2>5
  <2>7. Len(channel') + Cardinality(Planned("make")') <= MaxChannels
    BY <1>1, <2>1, <2>3, <2>4, <2>5, SMTT(40)
  <2> QED
    BY <2>6, <2>7 DEF Bounded
<1>6. BootOK'
  BY <1>1 DEF TypeInv, BootOK
<1> QED
  BY <1>1, <1>2, <1>3, <1>4, <1>5, <1>6, WorkersKept, SchedulersKept DEF TypeInv

LEMMA PlanSteps ==
  /\ Has(BootPlan, "new") /\ Has(BootPlan, "make")
  /\ BootPlan # <<>> /\ BootPlan[1] = "new" /\ PausePlan # <<>> /\ PausePlan[1] = "stop"
  /\ ResumePlan # <<>> /\ ResumePlan[1] = "stop" /\ SyncPlan # <<>> /\ SyncPlan[1] = "stop"
  /\ SavePlan # <<>> /\ SavePlan[1] = "new" /\ DrainPlan # <<>> /\ DrainPlan[1] = "stop"
  /\ \A step \in {"new", "make", "resize"} : ~Has(PausePlan, step)
  /\ \A step \in {"new", "resize"} : ~Has(ResumePlan, step) /\ ~Has(SyncPlan, step)
<1>1. /\ BootPlan # <<>> /\ BootPlan[1] = "new" /\ PausePlan # <<>> /\ PausePlan[1] = "stop"
      /\ ResumePlan # <<>> /\ ResumePlan[1] = "stop" /\ SyncPlan # <<>> /\ SyncPlan[1] = "stop"
      /\ SavePlan # <<>> /\ SavePlan[1] = "new" /\ DrainPlan # <<>> /\ DrainPlan[1] = "stop"
  BY DEF BootPlan, PausePlan, ResumePlan, SyncPlan, SavePlan, DrainPlan
<1>2. Has(BootPlan, "new") /\ Has(BootPlan, "make")
  <2>1. Len(BootPlan) = 7 /\ BootPlan[1] = "new" /\ BootPlan[2] = "make"
    BY DEF BootPlan
  <2> QED
    BY <2>1 DEF Has
<1>3. \A step \in {"new", "make", "resize"} : ~Has(PausePlan, step)
  BY DEF Has, PausePlan
<1>4. \A step \in {"new", "resize"} : ~Has(ResumePlan, step)
  BY DEF Has, ResumePlan
<1>5. \A step \in {"new", "resize"} : ~Has(SyncPlan, step)
  BY DEF Has, SyncPlan
<1> QED
  BY <1>1, <1>2, <1>3, <1>4, <1>5

LEMMA BootStep ==
  ASSUME TypeInv, NEW c \in Caller, NEW n \in 1..MaxThreads, Boot(c, n)
  PROVE  TypeInv'
<1>1. boot = "down" /\ boot' = "starting" /\ Plans(c, BootPlan, 0, n)
  BY DEF Boot
<1>2. queue = <<>> /\ channel = <<>> /\ \A d \in Caller : Idling(d)
  BY <1>1 DEF TypeInv, BootOK
<1>3. Planned("new") = {} /\ Planned("make") = {}
  BY <1>2 DEF Planned, Idling
<1>4. Len(queue) = 0 /\ Len(channel) = 0 /\ Cardinality({}) = 0
  BY <1>2, FS_EmptySet
<1>5. /\ Len(queue) + Cardinality(Planned("new")) < MaxQueues
      /\ Len(channel) + Cardinality(Planned("make")) < MaxChannels
  <2>1. Cardinality(Planned("new")) = 0 /\ Cardinality(Planned("make")) = 0
    BY <1>3, <1>4
  <2> QED
    BY <1>4, <2>1, BoundAssumption
<1>6. Knows(queue, 0, BootPlan[1])
  BY PlanSteps DEF Knows
<1>7. n \in Nat
  BY BoundAssumption
<1> QED
  BY <1>1, <1>5, <1>6, <1>7, PlanSteps, CallsArePlans, PlanStep

LEMMA BeginStep ==
  ASSUME TypeInv, NEW c \in Caller, Begin(c)
  PROVE  TypeInv'
<1>1. boot = "up" /\ boot' = boot
  BY DEF Begin, PauseQueue, ResumeQueue, SyncRun, SaveThreads, Call
<1>2. Global \in 1..Len(queue) /\ Global \in Nat /\ 0 \in Nat
  <2>1. queue # <<>> /\ queue \in Seq(QueueType)
    BY <1>1 DEF TypeInv, BootOK, QueuesOK
  <2> QED
    BY <2>1 DEF Global
<1>3. Knows(queue, Global, "stop") /\ Knows(queue, Global, "new")
  BY <1>2 DEF Knows
<1>4. CASE PauseQueue(c)
  <2>1. Plans(c, PausePlan, Global, 0)
    BY <1>4 DEF PauseQueue
  <2> HIDE DEF Global
  <2> QED
    BY <1>1, <1>2, <1>3, <2>1, PlanSteps, CallsArePlans, PlanStep
<1>5. CASE ResumeQueue(c)
  <2>1. Plans(c, ResumePlan, Global, 0) /\ MayStart
    BY <1>5 DEF ResumeQueue
  <2> HIDE DEF Global
  <2> QED
    BY <1>1, <1>2, <1>3, <2>1, PlanSteps, CallsArePlans, PlanStep DEF MayStart
<1>6. CASE SyncRun(c)
  <2>1. Plans(c, SyncPlan, Global, 0) /\ MayStart
    BY <1>6 DEF SyncRun
  <2> HIDE DEF Global
  <2> QED
    BY <1>1, <1>2, <1>3, <2>1, PlanSteps, CallsArePlans, PlanStep DEF MayStart
<1>7. ASSUME NEW n \in 1..MaxThreads, SaveThreads(c, n)
      PROVE  TypeInv'
  <2>1. MayStart /\ Len(queue) + Cardinality(Planned("new")) < MaxQueues
    BY <1>7 DEF SaveThreads
  <2>2. PICK plan \in {SavePlan, DrainPlan} : Plans(c, plan, Global, n)
    BY <1>7 DEF SaveThreads
  <2>3. Plan(plan) /\ plan # <<>> /\ plan[1] \in {"stop", "new"} /\ n \in Nat
    BY <2>2, PlanSteps, CallsArePlans, BoundAssumption
  <2>4. Knows(queue, Global, plan[1])
    BY <1>3, <2>3
  <2> HIDE DEF Global
  <2> QED
    BY <1>1, <1>2, <2>1, <2>2, <2>3, <2>4, PlanStep DEF MayStart
<1> QED
  BY <1>4, <1>5, <1>6, <1>7 DEF Begin

LEMMA RowsStep ==
  ASSUME TypeInv, RowsNext
  PROVE  TypeInv'
<1>1. UNCHANGED <<boot, queue, channel, worker, scheduler, caller>>
  BY DEF RowsNext, RowsChange, AddDownloadTask, DeleteRows, ClearDownloadPendingTasks,
         ClearDownloadSuccessAndFailed, ClearExpireDownloadTasks, RetryFailedByUser
<1>2. RowsOK'
  <2>1. ASSUME NEW doomed, DeleteRows(doomed)
        PROVE  RowsOK'
    BY <2>1 DEF DeleteRows, TypeInv, RowsOK
  <2>2. ASSUME NEW t \in Task, AddDownloadTask(t)
        PROVE  RowsOK'
    <3>1. Pending \in Status
      BY DEF Status, Active
    <3> QED
      BY <2>2, <3>1 DEF AddDownloadTask, TypeInv, RowsOK
  <2>3. CASE RetryFailedByUser
    BY <2>3, RetryRows DEF RetryFailedByUser, TypeInv
  <2> QED
    BY <2>1, <2>2, <2>3 DEF RowsNext, ClearDownloadPendingTasks, ClearDownloadSuccessAndFailed,
                            ClearExpireDownloadTasks
<1>3. Grows /\ QueuesOK' /\ ChannelsOK'
  BY <1>1, GrowsNot
<1> QED
  BY <1>1, <1>2, <1>3, WorkersKept, SchedulersKept, OthersStep

LEMMA TypeStart == Init => TypeInv
<1> SUFFICES ASSUME Init
             PROVE  TypeInv
  OBVIOUS
<1>1. queue = <<>> /\ channel = <<>> /\ scheduler = <<>> /\ boot = "down"
      /\ Len(queue) = 0 /\ Len(channel) = 0 /\ Len(scheduler) = 0
  BY DEF Init
<1>2. RowsOK
  BY BoundAssumption DEF Init, RowsOK
<1>3. QueuesOK /\ ChannelsOK /\ SchedulersOK
  BY <1>1 DEF QueuesOK, ChannelsOK, SchedulersOK
<1>4. WorkersOK
  <2>1. Idle \in WorkerType /\ Idle.pc = "off" /\ Idle.queue = 0
    BY BoundAssumption DEF Idle, WorkerType
  <2>2. worker \in [Worker -> WorkerType] /\ \A w \in Worker : worker[w] = Idle
    BY <2>1 DEF Init
  <2> QED
    BY <2>1, <2>2 DEF WorkersOK, WorkerFits
<1>5. CallersOK /\ \A c \in Caller : Idling(c)
  <2> DEFINE r == [plan |-> <<>>, queue |-> 0, threads |-> 0]
  <2>1. r \in CallerType /\ r.plan = <<>> /\ Len(r.plan) = 0 /\ Plan(r.plan)
    BY CallsArePlans DEF CallerType, Plan
  <2>2. caller \in [Caller -> CallerType] /\ \A c \in Caller : caller[c] = r
    BY <2>1 DEF Init
  <2>3. ~Has(r.plan, "new") /\ ~Has(r.plan, "resize")
    BY <2>1 DEF Has
  <2> HIDE DEF r
  <2> QED
    BY <2>1, <2>2, <2>3 DEF CallersOK, CallerFits, Idling
<1>6. Planned("new") = {} /\ Planned("make") = {}
  BY <1>5 DEF Planned, Idling
<1>7. Cardinality(Planned("new")) = 0 /\ Cardinality(Planned("make")) = 0
  BY <1>6, FS_EmptySet
<1>8. Bounded
  BY <1>1, <1>7, BoundAssumption DEF Bounded
<1> QED
  BY <1>1, <1>2, <1>3, <1>4, <1>5, <1>8 DEF TypeInv, BootOK

LEMMA TypeStep == TypeInv /\ [Next]_vars => TypeInv'
<1> SUFFICES ASSUME TypeInv, [Next]_vars
             PROVE  TypeInv'
  OBVIOUS
<1>1. ASSUME NEW c \in Caller, NEW n \in 1..MaxThreads, Boot(c, n)
      PROVE  TypeInv'
  BY <1>1, BootStep
<1>2. ASSUME NEW c \in Caller, Begin(c)
      PROVE  TypeInv'
  BY <1>2, BeginStep
<1>3. ASSUME NEW c \in Caller, CallStep(c)
      PROVE  TypeInv'
  BY <1>3, StopFlagStep, CloseStep, MakeStep, ResetStep, LaunchStep, SpawnStep, NewStep, AimStep,
     ResizeStep, UpStep, DeathStep DEF CallStep, CloseTwice
<1>4. CASE RowsNext
  BY <1>4, RowsStep
<1>5. CASE Crash
  BY <1>5, DeathStep DEF Crash
<1>6. ASSUME NEW w \in Worker, WorkerNext(w)
      PROVE  TypeInv'
  BY <1>6, WorkerSteps, TakeSteps DEF WorkerNext
<1>7. ASSUME NEW s \in 1..MaxChannels, SchedulerNext(s)
      PROVE  TypeInv'
  BY <1>7, WaitSteps, CountPendingStep, RetryWhenIdleStep, FetchStep, SendStep, MarkStep,
     DeathStep DEF SchedulerNext, SendOnClosed
<1>8. CASE UNCHANGED vars
  <2>1. UNCHANGED <<row, retries, boot, queue, channel, worker, scheduler, caller>>
    BY <1>8 DEF vars
  <2>2. Grows /\ QueuesOK' /\ ChannelsOK'
    BY <2>1, GrowsNot
  <2>3. RowsOK'
    BY <2>1 DEF TypeInv, RowsOK
  <2> QED
    BY <2>1, <2>2, <2>3, WorkersKept, SchedulersKept, OthersStep
<1> QED
  BY <1>1, <1>2, <1>3, <1>4, <1>5, <1>6, <1>7, <1>8 DEF Next

\* Queues, channels, goroutines and calls are what TypeInv says, at all times:
\* what a caller or a goroutine refers to has been made.
THEOREM TypeInvariance == Spec => []TypeInv
<1>1. Init => TypeInv
  BY TypeStart
<1>2. TypeInv /\ [Next]_vars => TypeInv'
  BY TypeStep
<1> QED
  BY <1>1, <1>2, PTL DEF Spec

\* However many control calls overlap, a channel never holds more tasks than it
\* has places, what the goroutines hold are tasks of the table, and the queues
\* and channels made stay within what the calls may make.
THEOREM TypeCorrect == Spec => []TypeOK
BY TypeInvariance, TypeConsequence, PTL

-----------------------------------------------------------------------------
(* Control calls one after the other: a running queue has an open channel  *)
(* and a goroutine.                                                        *)

OneCaller == \A c, d \in Caller : c = d

\* The next step is launch, or there is only a reset before it.
Launches(plan) == \/ plan[1] = "launch"
                  \/ plan[1] = "reset" /\ 1 < Len(plan) /\ plan[2] = "launch"

\* What a caller without rivals knows about its queue.
CallKnows(qs, chs, r) ==
  r.plan # <<>> =>
    /\ r.plan[1] \in {"close", "make", "aim"} => ~qs[r.queue].running
    /\ r.plan[1] = "spawn" => qs[r.queue].running
    /\ Launches(r.plan) => ~chs[qs[r.queue].tasks].closed
    /\ Has(r.plan, "aim") => r.queue = Len(qs) /\ ~Has(r.plan, "new")

\* No two queues share a channel.
Distinct ==
  \A p, q \in 1..Len(queue) :
    queue[p].tasks = queue[q].tasks /\ queue[p].tasks # 0 => p = q
RunsOpen ==
  \A q \in 1..Len(queue) : queue[q].running => ~channel[queue[q].tasks].closed
CallsKnow ==
  \A c \in Caller : CallKnows(queue, channel, caller[c])

OpenInv == Distinct /\ RunsOpen /\ CallsKnow

\* What only the callers change.
SameControl ==
  /\ Len(queue') = Len(queue)
  /\ \A q \in 1..Len(queue) : /\ queue'[q].running = queue[q].running
                              /\ queue'[q].tasks = queue[q].tasks
  /\ \A ch \in 1..Len(channel) : channel'[ch].closed = channel[ch].closed

\* The process dies or SameControl holds.
LEMMA OthersControl ==
  ASSUME TypeInv,
         \/ \E w \in Worker : WorkerNext(w)
         \/ \E s \in 1..MaxChannels : SchedulerNext(s) /\ ~SendOnClosed(s)
         \/ RowsNext
         \/ UNCHANGED vars
  PROVE  SameControl /\ boot' = boot /\ caller' = caller
<1>1. queue' = queue /\ channel' = channel => SameControl
  BY DEF SameControl
<1>2. ASSUME NEW w \in Worker, WorkerNext(w)
      PROVE  SameControl /\ boot' = boot /\ caller' = caller
  <2>1. ASSUME NEW ch, Receive(w, ch)
        PROVE  SameControl /\ boot' = boot /\ caller' = caller
    <3>1. queue' = queue /\ boot' = boot /\ caller' = caller
      BY <2>1 DEF Receive
    <3>2. channel' = channel \/ channel' = [channel EXCEPT ![ch].buffer = Tail(@)]
      BY <2>1 DEF Receive
    <3>3. \A x \in 1..Len(channel) : channel[x] \in ChannelType /\ x \in DOMAIN channel
      BY DEF TypeInv, ChannelsOK
    <3>4. \A x \in 1..Len(channel) : channel'[x].closed = channel[x].closed
      BY <3>2, <3>3 DEF ChannelType
    <3> QED
      BY <3>1, <3>4 DEF SameControl
  <2>2. CASE Check(w) \/ BeginDownload(w) \/ EndDownload(w)
    BY <2>2, <1>1 DEF Check, BeginDownload, EndDownload
  <2> QED
    BY <1>2, <2>1, <2>2 DEF WorkerNext, Take, Wake
<1>3. ASSUME NEW s \in 1..MaxChannels, SchedulerNext(s), ~SendOnClosed(s)
      PROVE  SameControl /\ boot' = boot /\ caller' = caller
  <2>1. \A q \in 1..Len(queue) : queue[q] \in QueueType /\ q \in DOMAIN queue
    BY DEF TypeInv, QueuesOK
  <2>2. ASSUME NEW q, NEW b, queue' = [queue EXCEPT ![q].retryTriggered = b], channel' = channel
        PROVE  SameControl
    <3>1. Len(queue') = Len(queue)
      BY <2>2 DEF TypeInv, QueuesOK
    <3>2. \A p \in 1..Len(queue) : queue'[p].running = queue[p].running /\ queue'[p].tasks = queue[p].tasks
      BY <2>1, <2>2 DEF QueueType
    <3> QED
      BY <2>2, <3>1, <3>2 DEF SameControl
  <2>3. CASE CountPending(s) \/ RetryWhenIdle(s)
    <3>1. boot' = boot /\ caller' = caller /\ channel' = channel
      BY <2>3 DEF CountPending, RetryWhenIdle
    <3>2. queue' = queue \/ \E q, b : queue' = [queue EXCEPT ![q].retryTriggered = b]
      BY <2>3 DEF CountPending, RetryWhenIdle
    <3> QED
      BY <1>1, <2>2, <3>1, <3>2
  <2>4. CASE Send(s)
    <3> DEFINE q == scheduler[s].queue
    <3>1. boot' = boot /\ caller' = caller /\ queue' = queue
      BY <2>4 DEF Send
    <3>2. channel' = channel \/ \E b : channel' = [channel EXCEPT ![queue[q].tasks].buffer = b]
      BY <2>4 DEF Send
    <3>3. \A x \in 1..Len(channel) : channel[x] \in ChannelType /\ x \in DOMAIN channel
      BY DEF TypeInv, ChannelsOK
    <3>4. \A x \in 1..Len(channel) : channel'[x].closed = channel[x].closed
      BY <3>2, <3>3 DEF ChannelType
    <3> QED
      BY <3>1, <3>4 DEF SameControl
  <2>5. CASE Loop(s) \/ Tick(s) \/ CountDownloading(s) \/ GetPendingDownloadTasks(s) \/ Mark(s)
    BY <2>5, <1>1 DEF Loop, Tick, CountDownloading, GetPendingDownloadTasks, Mark
  <2> QED
    BY <1>3, <2>3, <2>4, <2>5 DEF SchedulerNext
<1>4. CASE RowsNext
  <2>1. UNCHANGED <<boot, queue, channel, caller>>
    BY <1>4 DEF RowsNext, RowsChange, AddDownloadTask, DeleteRows, ClearDownloadPendingTasks,
           ClearDownloadSuccessAndFailed, ClearExpireDownloadTasks, RetryFailedByUser
  <2> QED
    BY <1>1, <2>1
<1>5. CASE UNCHANGED vars
  BY <1>1, <1>5 DEF vars
<1> QED
  BY <1>2, <1>3, <1>4, <1>5

LEMMA SameControlOpen ==
  ASSUME TypeInv, OpenInv, SameControl, caller' = caller
  PROVE  OpenInv'
<1>1. Distinct'
  BY DEF OpenInv, SameControl, Distinct
<1>2. \A q : Made(queue, q) => queue[q].tasks \in 1..Len(channel)
  BY MadeFacts
<1>3. RunsOpen'
  <2>1. \A q \in 1..Len(queue) : queue[q].running => Made(queue, q)
    BY DEF TypeInv, QueuesOK, Made
  <2> QED
    BY <1>2, <2>1 DEF OpenInv, RunsOpen, SameControl
<1>4. CallsKnow'
  <2> SUFFICES ASSUME NEW c \in Caller
               PROVE  CallKnows(queue', channel', caller[c])
    BY DEF CallsKnow
  <2> DEFINE q == caller[c].queue
             plan == caller[c].plan
  <2>1. CASE plan = <<>>
    BY <2>1 DEF CallKnows
  <2>2. CASE plan # <<>>
    <3>1. CallKnows(queue, channel, caller[c])
      BY DEF OpenInv, CallsKnow
    <3>2. Knows(queue, q, plan[1])
      BY <2>2, CallerFacts DEF Idling
    <3>3. plan[1] \in {"close", "make", "aim", "spawn"} => q \in 1..Len(queue)
      BY <3>2 DEF Knows
    <3>4. Launches(plan) => q \in 1..Len(queue) /\ queue[q].tasks \in 1..Len(channel)
      BY <1>2, <3>2 DEF Knows, Launches, Made
    <3>5. plan[1] \in {"close", "make", "aim", "spawn"} => queue'[q].running = queue[q].running
      BY <3>3 DEF SameControl
    <3>6. Launches(plan) => channel'[queue'[q].tasks].closed = channel[queue[q].tasks].closed
      BY <3>4 DEF SameControl
    <3>7. Len(queue') = Len(queue)
      BY DEF SameControl
    <3> HIDE DEF q
    <3> QED
      BY <3>1, <3>5, <3>6, <3>7 DEF CallKnows, q
  <2> QED
    BY <2>1, <2>2
<1> QED
  BY <1>1, <1>3, <1>4 DEF OpenInv

LEMMA KnowsRest ==
  ASSUME NEW plan, Plan(plan), NEW k \in 1..Len(plan), NEW qs, NEW chs, NEW q, NEW n,
         k < Len(plan) /\ plan[k+1] \in {"close", "make", "aim"} => ~qs[q].running,
         k < Len(plan) /\ plan[k+1] = "spawn" => qs[q].running,
         k < Len(plan) /\ (\/ plan[k+1] = "launch"
                           \/ plan[k+1] = "reset" /\ k + 1 < Len(plan) /\ plan[k+2] = "launch") =>
           ~chs[qs[q].tasks].closed,
         Has(plan, "aim") => ~Has(plan, "new"),
         Has(Rest(plan, k), "aim") => q = Len(qs)
  PROVE  CallKnows(qs, chs, [plan |-> Rest(plan, k), queue |-> q, threads |-> n])
<1> DEFINE rest == Rest(plan, k)
           r == [plan |-> rest, queue |-> q, threads |-> n]
<1>1. r.plan = rest /\ r.queue = q
  OBVIOUS
<1>2. CASE rest = <<>>
  BY <1>1, <1>2 DEF CallKnows
<1>3. CASE rest # <<>>
  <2>1. /\ Len(plan) \in Nat /\ Len(rest) = Len(plan) - k
        /\ \A i \in 1..Len(rest) : rest[i] = plan[i+k]
    BY RestSteps DEF Plan
  <2>2. rest \in Seq(Steps)
    BY RestIsPlan DEF Plan
  <2> HIDE DEF rest
  <2>3. k < Len(plan) /\ 1 \in 1..Len(rest)
    BY <1>3, <2>1, <2>2
  <2>4. rest[1] = plan[k+1]
    BY <2>1, <2>3
  <2>5. 1 < Len(rest) => k + 1 < Len(plan) /\ rest[2] = plan[k+2]
    <3>1. 1 < Len(rest) => 2 \in 1..Len(rest) /\ 2 + k = k + 2 /\ k + 1 < Len(plan)
      BY <2>1
    <3> QED
      BY <2>1, <3>1
  <2>6. Has(rest, "aim") => Has(plan, "aim")
    BY RestIsPlan DEF rest
  <2>7. Has(rest, "new") => Has(plan, "new")
    BY RestIsPlan DEF rest
  <2>8. Has(rest, "aim") => q = Len(qs)
    BY DEF rest
  <2>9. Launches(rest) => ~chs[qs[q].tasks].closed
    BY <2>3, <2>4, <2>5 DEF Launches
  <2> HIDE DEF r
  <2>10. CallKnows(qs, chs, r)
    BY <1>1, <2>3, <2>4, <2>6, <2>7, <2>8, <2>9 DEF CallKnows
  <2> QED
    BY <2>10 DEF r, rest
<1> QED
  BY <1>2, <1>3

\* The only caller moves on.
LEMMA OneKnows ==
  ASSUME OneCaller, TypeInv, NEW c \in Caller, NEW r, caller' = [caller EXCEPT ![c] = r],
         CallKnows(queue', channel', r)
  PROVE  CallsKnow'
<1>1. \A d \in Caller : d = c
  BY DEF OneCaller
<1>2. caller'[c] = r
  BY DEF TypeInv, CallersOK
<1> QED
  BY <1>1, <1>2 DEF CallsKnow

LEMMA KnownFacts ==
  ASSUME TypeInv, OpenInv, NEW c \in Caller, ~Idling(c)
  PROVE  /\ caller[c].plan[1] \in {"close", "make", "aim"} => ~queue[caller[c].queue].running
         /\ caller[c].plan[1] = "spawn" => queue[caller[c].queue].running
         /\ Launches(caller[c].plan) => ~channel[queue[caller[c].queue].tasks].closed
         /\ Has(caller[c].plan, "aim") => /\ caller[c].queue = Len(queue)
                                         /\ ~Has(caller[c].plan, "new")
<1>1. CallKnows(queue, channel, caller[c]) /\ caller[c].plan # <<>>
  BY DEF OpenInv, CallsKnow, Idling
<1> QED
  BY <1>1 DEF CallKnows

LEMMA RunningIsMade ==
  ASSUME TypeInv
  PROVE  /\ queue \in Seq(QueueType) /\ channel \in Seq(ChannelType)
         /\ Len(queue) \in Nat /\ Len(channel) \in Nat
         /\ \A q \in 1..Len(queue) : queue[q].running => queue[q].tasks # 0
         /\ \A q \in 1..Len(queue) : queue[q].tasks # 0 => queue[q].tasks \in 1..Len(channel)
         /\ \A q \in 1..Len(queue) : queue[q] \in QueueType
         /\ \A ch \in 1..Len(channel) : channel[ch] \in ChannelType
<1>1. /\ queue \in Seq(QueueType) /\ channel \in Seq(ChannelType)
      /\ \A q \in 1..Len(queue) : queue[q].running => queue[q].tasks # 0
  BY DEF TypeInv, QueuesOK, ChannelsOK
<1>2. /\ \A q \in 1..Len(queue) : queue[q] \in QueueType
      /\ \A ch \in 1..Len(channel) : channel[ch] \in ChannelType
      /\ Len(queue) \in Nat /\ Len(channel) \in Nat
  BY <1>1
<1>3. \A q \in 1..Len(queue) : queue[q].tasks # 0 => queue[q].tasks \in 1..Len(channel)
  BY MadeFacts DEF Made
<1> QED
  BY <1>1, <1>2, <1>3

LEMMA StopFlagOpen ==
  ASSUME OneCaller, TypeInv, OpenInv, NEW c \in Caller, StopFlag(c)
  PROVE  OpenInv'
<1> DEFINE q == caller[c].queue
           plan == caller[c].plan
<1>1. ~Idling(c) /\ plan[1] = "stop" /\ UNCHANGED <<row, retries, boot, channel, worker, scheduler>>
  BY CallerFacts DEF StopFlag, At
<1>2. /\ caller[c] \in CallerType /\ q \in Nat /\ Plan(plan) /\ plan # <<>> /\ q \in 1..Len(queue)
  BY <1>1, CallerFacts DEF Knows
<1>3. /\ 1 < Len(plan) /\ plan[2] = "close" /\ 1 \in 1..Len(plan) /\ 2 \in 1..Len(plan)
      /\ 2 < Len(plan) => plan[3] \in {"make", "aim", "new"}
  <2> HIDE DEF plan
  <2> QED
    BY <1>1, <1>2, NextSteps
<1>4. Has(plan, "aim") => q = Len(queue) /\ ~Has(plan, "new")
  BY <1>1, KnownFacts
<1>5. CASE queue[q].running
  <2>1. Skip(c, 1) /\ queue' = [queue EXCEPT ![q].running = FALSE]
    BY <1>5 DEF StopFlag
  <2>2. caller' = [caller EXCEPT ![c] = [plan |-> Rest(plan, 1), queue |-> q,
                                         threads |-> caller[c].threads]]
    BY <1>2, <2>1, SkipIsRest
  <2>3. /\ Len(queue') = Len(queue) /\ (queue'[q].running = FALSE)
        /\ \A p \in 1..Len(queue) : queue'[p].tasks = queue[p].tasks
        /\ \A p \in 1..Len(queue) : p # q => queue'[p] = queue[p]
    BY <1>2, <2>1, RunningIsMade DEF QueueType
  <2>4. Distinct'
    BY <2>3 DEF OpenInv, Distinct
  <2>5. RunsOpen'
    BY <1>1, <2>3 DEF OpenInv, RunsOpen
  <2>6. Has(Rest(plan, 1), "aim") => q = Len(queue')
    BY <1>2, <1>3, <1>4, <2>3, RestIsPlan
  <2>7. CallKnows(queue', channel', [plan |-> Rest(plan, 1), queue |-> q,
                                     threads |-> caller[c].threads])
    <3>1. plan[1+1] = "close" /\ ~queue'[q].running
      BY <1>3, <2>3
    <3> HIDE DEF plan, q
    <3> QED
      BY <1>2, <1>3, <1>4, <2>6, <3>1, KnowsRest
  <2> QED
    BY <2>2, <2>4, <2>5, <2>7, OneKnows DEF OpenInv
<1>6. CASE ~queue[q].running
  <2>1. Skip(c, 2) /\ queue' = queue
    BY <1>6 DEF StopFlag
  <2>2. caller' = [caller EXCEPT ![c] = [plan |-> Rest(plan, 2), queue |-> q,
                                         threads |-> caller[c].threads]]
    BY <1>2, <2>1, SkipIsRest
  <2>3. Distinct' /\ RunsOpen'
    BY <1>1, <2>1 DEF OpenInv, Distinct, RunsOpen
  <2>4. Has(Rest(plan, 2), "aim") => q = Len(queue')
    BY <1>2, <1>3, <1>4, <2>1, RestIsPlan
  <2>5. CallKnows(queue', channel', [plan |-> Rest(plan, 2), queue |-> q,
                                     threads |-> caller[c].threads])
    <3>1. 2 < Len(plan) => plan[2+1] \in {"make", "aim", "new"}
      BY <1>3
    <3>2. ~queue'[q].running
      BY <1>6, <2>1
    <3> HIDE DEF plan, q
    <3> QED
      BY <1>2, <1>3, <1>4, <2>4, <3>1, <3>2, KnowsRest
  <2> QED
    BY <2>2, <2>3, <2>5, OneKnows DEF OpenInv
<1> QED
  BY <1>5, <1>6

LEMMA CloseOpen ==
  ASSUME OneCaller, TypeInv, OpenInv, NEW c \in Caller, Close(c)
  PROVE  OpenInv'
<1> DEFINE q == caller[c].queue
           plan == caller[c].plan
           ch == queue[q].tasks
<1>1. /\ ~Idling(c) /\ plan[1] = "close" /\ UNCHANGED <<row, retries, boot, queue, worker, scheduler>>
      /\ Skip(c, 1) /\ channel' = [channel EXCEPT ![ch].closed = TRUE]
  BY CallerFacts DEF Close, At
<1>2. /\ caller[c] \in CallerType /\ q \in Nat /\ Plan(plan) /\ plan # <<>> /\ Made(queue, q)
      /\ q \in 1..Len(queue) /\ ch # 0
  BY <1>1, CallerFacts DEF Knows, Made
<1>3. 1 \in 1..Len(plan) /\ (1 < Len(plan) => plan[1+1] \in {"make", "aim", "new"})
  <2> HIDE DEF plan
  <2> QED
    BY <1>1, <1>2, NextSteps
<1>4. (Has(plan, "aim") => q = Len(queue) /\ ~Has(plan, "new")) /\ ~queue[q].running
  BY <1>1, KnownFacts
<1>5. Distinct'
  BY <1>1 DEF OpenInv, Distinct
<1>6. RunsOpen'
  <2> SUFFICES ASSUME NEW p \in 1..Len(queue), queue[p].running
               PROVE  ~channel'[queue[p].tasks].closed
    BY <1>1 DEF RunsOpen
  <2>1. ~channel[queue[p].tasks].closed /\ queue[p].tasks # 0 /\ queue[p].tasks \in 1..Len(channel)
    BY RunningIsMade DEF OpenInv, RunsOpen
  <2>2. queue[p].tasks # ch
    BY <1>2, <1>4, <2>1 DEF OpenInv, Distinct
  <2> HIDE DEF ch
  <2>3. channel'[queue[p].tasks] = channel[queue[p].tasks]
    BY <1>1, <2>1, <2>2, RunningIsMade
  <2> QED
    BY <2>1, <2>3
<1>7. caller' = [caller EXCEPT ![c] = [plan |-> Rest(plan, 1), queue |-> q,
                                       threads |-> caller[c].threads]]
  BY <1>1, <1>2, SkipIsRest
<1>8. Has(Rest(plan, 1), "aim") => q = Len(queue')
  BY <1>1, <1>2, <1>3, <1>4, RestIsPlan
<1>9. CallKnows(queue', channel', [plan |-> Rest(plan, 1), queue |-> q,
                                   threads |-> caller[c].threads])
  <2>1. ~queue'[q].running
    BY <1>1, <1>4
  <2> HIDE DEF plan, q
  <2> QED
    BY <1>2, <1>3, <1>4, <1>8, <2>1, KnowsRest
<1> QED
  BY <1>5, <1>6, <1>7, <1>9, OneKnows DEF OpenInv

LEMMA MakeOpen ==
  ASSUME OneCaller, TypeInv, OpenInv, NEW c \in Caller, Make(c)
  PROVE  OpenInv'
<1> DEFINE q == caller[c].queue
           plan == caller[c].plan
           n == Len(channel) + 1
           new == [buffer |-> <<>>, closed |-> FALSE, places |-> queue[q].numWorkers * ChannelFactor]
<1>1. /\ ~Idling(c) /\ plan[1] = "make" /\ UNCHANGED <<row, retries, boot, worker, scheduler>>
      /\ Skip(c, 1) /\ channel' = Append(channel, new)
      /\ queue' = [queue EXCEPT ![q].tasks = n]
  BY CallerFacts DEF Make, At
<1>2. /\ caller[c] \in CallerType /\ q \in Nat /\ Plan(plan) /\ plan # <<>> /\ q \in 1..Len(queue)
  BY <1>1, CallerFacts DEF Knows
<1>3. 1 \in 1..Len(plan) /\ 1 < Len(plan) /\ plan[1+1] = "reset"
  <2> HIDE DEF plan
  <2> QED
    BY <1>1, <1>2, NextSteps
<1>4. Has(plan, "aim") => q = Len(queue) /\ ~Has(plan, "new")
  BY <1>1, KnownFacts
<1>5. /\ Len(queue') = Len(queue) /\ queue'[q].tasks = n
      /\ \A p \in 1..Len(queue) : queue'[p].running = queue[p].running
      /\ \A p \in 1..Len(queue) : p # q => queue'[p] = queue[p]
  BY <1>1, <1>2, RunningIsMade, SMTT(40) DEF QueueType
<1>6. \A x \in 1..Len(channel) : channel'[x] = channel[x]
  <2> HIDE DEF new
  <2> QED
    BY <1>1, RunningIsMade
<1>7. ~channel'[n].closed
  <2>1. channel'[n] = new
    <3> HIDE DEF new
    <3> QED
      BY <1>1, RunningIsMade
  <2> QED
    BY <2>1
<1>8. \A p \in 1..Len(queue) : queue[p].tasks # 0 => queue[p].tasks # n
  BY RunningIsMade
<1>9. Distinct'
  BY <1>5, <1>8 DEF OpenInv, Distinct
<1>10. RunsOpen'
  <2> SUFFICES ASSUME NEW p \in 1..Len(queue), queue[p].running
               PROVE  ~channel'[queue'[p].tasks].closed
    BY <1>5 DEF RunsOpen
  <2>1. CASE p = q
    BY <1>5, <1>7, <2>1
  <2>2. CASE p # q
    <3>1. ~channel[queue[p].tasks].closed /\ queue[p].tasks \in 1..Len(channel)
      BY RunningIsMade DEF OpenInv, RunsOpen
    <3> QED
      BY <1>5, <1>6, <2>2, <3>1
  <2> QED
    BY <2>1, <2>2
<1>11. caller' = [caller EXCEPT ![c] = [plan |-> Rest(plan, 1), queue |-> q,
                                        threads |-> caller[c].threads]]
  BY <1>1, <1>2, SkipIsRest
<1>12. Has(Rest(plan, 1), "aim") => q = Len(queue')
  BY <1>2, <1>3, <1>4, <1>5, RestIsPlan
<1>13. CallKnows(queue', channel', [plan |-> Rest(plan, 1), queue |-> q,
                                    threads |-> caller[c].threads])
  <2>1. ~channel'[queue'[q].tasks].closed
    BY <1>5, <1>7
  <2> HIDE DEF plan, q
  <2> QED
    BY <1>2, <1>3, <1>4, <1>12, <2>1, KnowsRest
<1> QED
  BY <1>9, <1>10, <1>11, <1>13, OneKnows DEF OpenInv

LEMMA ResetOpen ==
  ASSUME OneCaller, TypeInv, OpenInv, NEW c \in Caller, Reset(c)
  PROVE  OpenInv'
<1> DEFINE q == caller[c].queue
           plan == caller[c].plan
<1>1. /\ ~Idling(c) /\ plan[1] = "reset" /\ UNCHANGED <<retries, boot, queue, channel, worker, scheduler>>
      /\ Skip(c, 1)
  BY CallerFacts DEF Reset, At
<1>2. caller[c] \in CallerType /\ q \in Nat /\ Plan(plan) /\ plan # <<>>
  BY <1>1, CallerFacts
<1>3. 1 \in 1..Len(plan) /\ (1 < Len(plan) => plan[1+1] \in {"launch", "up"})
  <2> HIDE DEF plan
  <2> QED
    BY <1>1, <1>2, NextSteps
<1>4. /\ Has(plan, "aim") => q = Len(queue) /\ ~Has(plan, "new")
      /\ 1 < Len(plan) /\ plan[1+1] = "launch" => ~channel[queue[q].tasks].closed
  BY <1>1, KnownFacts DEF Launches
<1>5. Distinct' /\ RunsOpen'
  BY <1>1 DEF OpenInv, Distinct, RunsOpen
<1>6. caller' = [caller EXCEPT ![c] = [plan |-> Rest(plan, 1), queue |-> q,
                                       threads |-> caller[c].threads]]
  BY <1>1, <1>2, SkipIsRest
<1>7. Has(Rest(plan, 1), "aim") => q = Len(queue')
  BY <1>1, <1>2, <1>3, <1>4, RestIsPlan
<1>8. CallKnows(queue', channel', [plan |-> Rest(plan, 1), queue |-> q,
                                   threads |-> caller[c].threads])
  <2>1. 1 < Len(plan) /\ plan[1+1] = "launch" => ~channel'[queue'[q].tasks].closed
    BY <1>1, <1>4
  <2> HIDE DEF plan, q
  <2> QED
    BY <1>2, <1>3, <1>4, <1>7, <2>1, KnowsRest
<1> QED
  BY <1>5, <1>6, <1>8, OneKnows DEF OpenInv

LEMMA LaunchOpen ==
  ASSUME OneCaller, TypeInv, OpenInv, NEW c \in Caller, Launch(c)
  PROVE  OpenInv'
<1> DEFINE q == caller[c].queue
           plan == caller[c].plan
<1>1. ~Idling(c) /\ plan[1] = "launch" /\ UNCHANGED <<row, retries, boot, channel, worker, scheduler>>
  BY CallerFacts DEF Launch, At
<1>2. /\ caller[c] \in CallerType /\ q \in Nat /\ Plan(plan) /\ plan # <<>> /\ q \in 1..Len(queue)
  BY <1>1, CallerFacts DEF Knows, Made
<1>3. /\ 1 < Len(plan) /\ plan[1+1] = "spawn" /\ 1 \in 1..Len(plan) /\ 2 \in 1..Len(plan)
      /\ 2 < Len(plan) => plan[2+1] \in {"reset", "resize"}
  <2> HIDE DEF plan
  <2> QED
    BY <1>1, <1>2, NextSteps
<1>4. (Has(plan, "aim") => q = Len(queue) /\ ~Has(plan, "new")) /\ ~channel[queue[q].tasks].closed
  BY <1>1, KnownFacts DEF Launches
<1>5. CASE ~queue[q].running
  <2>1. Skip(c, 1) /\ queue' = [queue EXCEPT ![q].running = TRUE]
    BY <1>5 DEF Launch
  <2>2. caller' = [caller EXCEPT ![c] = [plan |-> Rest(plan, 1), queue |-> q,
                                         threads |-> caller[c].threads]]
    BY <1>2, <2>1, SkipIsRest
  <2>3. /\ Len(queue') = Len(queue) /\ (queue'[q].running = TRUE)
        /\ \A p \in 1..Len(queue) : queue'[p].tasks = queue[p].tasks
        /\ \A p \in 1..Len(queue) : p # q => queue'[p] = queue[p]
    BY <1>2, <2>1, RunningIsMade DEF QueueType
  <2>4. Distinct'
    BY <2>3 DEF OpenInv, Distinct
  <2>5. RunsOpen'
    BY <1>1, <1>4, <2>3 DEF OpenInv, RunsOpen
  <2>6. Has(Rest(plan, 1), "aim") => q = Len(queue')
    BY <1>2, <1>3, <1>4, <2>3, RestIsPlan
  <2>7. CallKnows(queue', channel', [plan |-> Rest(plan, 1), queue |-> q,
                                     threads |-> caller[c].threads])
    <3>1. queue'[q].running
      BY <2>3
    <3> HIDE DEF plan, q
    <3> QED
      BY <1>2, <1>3, <1>4, <2>6, <3>1, KnowsRest
  <2> QED
    BY <2>2, <2>4, <2>5, <2>7, OneKnows DEF OpenInv
<1>6. CASE queue[q].running
  <2>1. Skip(c, 2) /\ queue' = queue
    BY <1>6 DEF Launch
  <2>2. caller' = [caller EXCEPT ![c] = [plan |-> Rest(plan, 2), queue |-> q,
                                         threads |-> caller[c].threads]]
    BY <1>2, <2>1, SkipIsRest
  <2>3. Distinct' /\ RunsOpen'
    BY <1>1, <2>1 DEF OpenInv, Distinct, RunsOpen
  <2>4. Has(Rest(plan, 2), "aim") => q = Len(queue')
    BY <1>2, <1>3, <1>4, <2>1, RestIsPlan
  <2>5. CallKnows(queue', channel', [plan |-> Rest(plan, 2), queue |-> q,
                                     threads |-> caller[c].threads])
    <3>1. ~channel'[queue'[q].tasks].closed
      BY <1>1, <1>4, <2>1
    <3> HIDE DEF plan, q
    <3> QED
      BY <1>2, <1>3, <1>4, <2>4, <3>1, KnowsRest
  <2> QED
    BY <2>2, <2>3, <2>5, OneKnows DEF OpenInv
<1> QED
  BY <1>5, <1>6

LEMMA SpawnOpen ==
  ASSUME OneCaller, TypeInv, OpenInv, NEW c \in Caller, Spawn(c)
  PROVE  OpenInv'
<1> DEFINE q == caller[c].queue
           plan == caller[c].plan
<1>1. /\ ~Idling(c) /\ plan[1] = "spawn" /\ UNCHANGED <<row, retries, boot, queue, channel>>
      /\ Skip(c, 1)
  BY CallerFacts DEF Spawn, At
<1>2. /\ caller[c] \in CallerType /\ q \in Nat /\ Plan(plan) /\ plan # <<>> /\ q \in 1..Len(queue)
  BY <1>1, CallerFacts DEF Knows, Made
<1>3. 1 \in 1..Len(plan) /\ (1 < Len(plan) => plan[1+1] \in {"reset", "resize"})
  <2> HIDE DEF plan
  <2> QED
    BY <1>1, <1>2, NextSteps
<1>4. (Has(plan, "aim") => q = Len(queue) /\ ~Has(plan, "new")) /\ queue[q].running
  BY <1>1, KnownFacts
<1>5. Distinct' /\ RunsOpen' /\ ~channel'[queue'[q].tasks].closed
  BY <1>1, <1>2, <1>4 DEF OpenInv, Distinct, RunsOpen
<1>6. caller' = [caller EXCEPT ![c] = [plan |-> Rest(plan, 1), queue |-> q,
                                       threads |-> caller[c].threads]]
  BY <1>1, <1>2, SkipIsRest
<1>7. Has(Rest(plan, 1), "aim") => q = Len(queue')
  BY <1>1, <1>2, <1>3, <1>4, RestIsPlan
<1>8. CallKnows(queue', channel', [plan |-> Rest(plan, 1), queue |-> q,
                                   threads |-> caller[c].threads])
  <2> HIDE DEF plan, q
  <2> QED
    BY <1>2, <1>3, <1>4, <1>5, <1>7, KnowsRest
<1> QED
  BY <1>5, <1>6, <1>8, OneKnows DEF OpenInv

LEMMA NewOpen ==
  ASSUME OneCaller, TypeInv, OpenInv, NEW c \in Caller, New(c)
  PROVE  OpenInv'
<1> DEFINE q == Len(queue) + 1
           plan == caller[c].plan
           n == caller[c].threads
           r == [numWorkers |-> n, running |-> FALSE, tasks |-> 0, retryTriggered |-> FALSE]
<1>1. /\ ~Idling(c) /\ plan[1] = "new" /\ UNCHANGED <<row, retries, boot, channel, worker, scheduler>>
      /\ queue' = Append(queue, r)
      /\ caller' = [caller EXCEPT ![c].plan = Tail(@), ![c].queue = q]
  BY CallerFacts DEF New, At
<1>2. caller[c] \in CallerType /\ Plan(plan) /\ plan # <<>>
  BY <1>1, CallerFacts
<1>3. 1 \in 1..Len(plan) /\ 1 < Len(plan) /\ plan[1+1] = "make"
  <2> HIDE DEF plan
  <2> QED
    BY <1>1, <1>2, NextSteps
<1>4. ~Has(plan, "aim")
  <2>1. Has(plan, "new")
    BY <1>1, <1>3 DEF Has
  <2> QED
    BY <1>1, <2>1, KnownFacts
<1>5. r.tasks = 0 /\ (r.running = FALSE)
  OBVIOUS
<1>6. /\ Len(queue') = q /\ queue'[q] = r
      /\ \A p \in 1..Len(queue) : queue'[p] = queue[p]
      /\ \A p \in 1..Len(queue') : p \in 1..Len(queue) \/ p = q
  <2> HIDE DEF r
  <2> QED
    BY <1>1, RunningIsMade
<1> HIDE DEF r
<1>7. Distinct'
  BY <1>5, <1>6 DEF OpenInv, Distinct
<1>8. RunsOpen'
  BY <1>1, <1>5, <1>6 DEF OpenInv, RunsOpen
<1>9. caller' = [caller EXCEPT ![c] = [plan |-> Rest(plan, 1), queue |-> q, threads |-> n]]
  BY <1>1, <1>2, AimIsRest
<1>10. ~Has(Rest(plan, 1), "aim")
  BY <1>2, <1>3, <1>4, RestIsPlan
<1>11. CallKnows(queue', channel', [plan |-> Rest(plan, 1), queue |-> q, threads |-> n])
  <2>1. ~queue'[q].running
    BY <1>5, <1>6
  <2> HIDE DEF plan, q
  <2> QED
    BY <1>2, <1>3, <1>4, <1>10, <2>1, KnowsRest
<1> QED
  BY <1>7, <1>8, <1>9, <1>11, OneKnows DEF OpenInv

LEMMA AimOpen ==
  ASSUME OneCaller, TypeInv, OpenInv, NEW c \in Caller, Aim(c)
  PROVE  OpenInv'
<1> DEFINE q == Len(queue)
           plan == caller[c].plan
<1>1. /\ ~Idling(c) /\ plan[1] = "aim" /\ UNCHANGED <<row, retries, boot, queue, channel, worker, scheduler>>
      /\ caller' = [caller EXCEPT ![c].plan = Tail(@), ![c].queue = q]
  BY CallerFacts DEF Aim, At, Global
<1>2. caller[c] \in CallerType /\ Plan(plan) /\ plan # <<>>
  BY <1>1, CallerFacts
<1>3. 1 \in 1..Len(plan) /\ 1 < Len(plan) /\ plan[1+1] = "make"
  <2> HIDE DEF plan
  <2> QED
    BY <1>1, <1>2, NextSteps
<1>4. caller[c].queue = q /\ ~Has(plan, "new") /\ ~queue[q].running
  <2>1. Has(plan, "aim")
    BY <1>1, <1>3 DEF Has
  <2>2. caller[c].queue = q /\ ~Has(plan, "new") /\ ~queue[caller[c].queue].running
    BY <1>1, <2>1, KnownFacts
  <2> QED
    BY <2>2
<1>5. Distinct' /\ RunsOpen'
  BY <1>1 DEF OpenInv, Distinct, RunsOpen
<1>6. caller' = [caller EXCEPT ![c] = [plan |-> Rest(plan, 1), queue |-> q, threads |-> caller[c].threads]]
  BY <1>1, <1>2, AimIsRest
<1>7. CallKnows(queue', channel', [plan |-> Rest(plan, 1), queue |-> q, threads |-> caller[c].threads])
  <2>1. ~queue'[q].running /\ q = Len(queue')
    BY <1>1, <1>4
  <2> HIDE DEF plan, q
  <2> QED
    BY <1>2, <1>3, <1>4, <2>1, KnowsRest
<1> QED
  BY <1>5, <1>6, <1>7, OneKnows DEF OpenInv

\* A caller at the last step of its plan.
LEMMA LastOpen ==
  ASSUME OneCaller, TypeInv, OpenInv, NEW c \in Caller, Resize(c) \/ Up(c)
  PROVE  OpenInv'
<1> DEFINE q == caller[c].queue
           plan == caller[c].plan
<1>1. /\ ~Idling(c) /\ plan[1] \in {"resize", "up"} /\ channel' = channel /\ Skip(c, 1)
  BY CallerFacts DEF Resize, Up, At
<1>2. caller[c] \in CallerType /\ q \in Nat /\ Plan(plan) /\ plan # <<>>
  BY <1>1, CallerFacts
<1>3. 1 \in 1..Len(plan) /\ Len(plan) = 1
  <2> HIDE DEF plan
  <2> QED
    BY <1>1, <1>2, NextSteps
<1>4. /\ Len(queue') = Len(queue)
      /\ \A p \in 1..Len(queue) : queue'[p].running = queue[p].running /\ queue'[p].tasks = queue[p].tasks
  <2>1. CASE Resize(c)
    <3>1. queue' = [queue EXCEPT ![Len(queue)].numWorkers = caller[c].threads]
      BY <2>1 DEF Resize, Global
    <3> QED
      BY <3>1, RunningIsMade DEF QueueType
  <2>2. CASE Up(c)
    BY <2>2 DEF Up
  <2> QED
    BY <2>1, <2>2
<1>5. Distinct' /\ RunsOpen'
  BY <1>1, <1>4 DEF OpenInv, Distinct, RunsOpen
<1>6. caller' = [caller EXCEPT ![c] = [plan |-> Rest(plan, 1), queue |-> q, threads |-> caller[c].threads]]
  BY <1>1, <1>2, SkipIsRest
<1>7. Rest(plan, 1) = <<>>
  BY <1>2, <1>3, RestIsPlan
<1>8. CallKnows(queue', channel', [plan |-> Rest(plan, 1), queue |-> q, threads |-> caller[c].threads])
  BY <1>7 DEF CallKnows
<1> QED
  BY <1>5, <1>6, <1>8, OneKnows DEF OpenInv

LEMMA AimedPlans ==
  \A plan \in {BootPlan, PausePlan, ResumePlan, SavePlan, DrainPlan} : ~Has(plan, "aim")
<1>1. ~Has(BootPlan, "aim")
  BY DEF Has, BootPlan
<1>2. ~Has(PausePlan, "aim")
  BY DEF Has, PausePlan
<1>3. ~Has(ResumePlan, "aim")
  BY DEF Has, ResumePlan
<1>4. ~Has(SavePlan, "aim")
  BY DEF Has, SavePlan
<1>5. ~Has(DrainPlan, "aim")
  BY DEF Has, DrainPlan
<1> QED
  BY <1>1, <1>2, <1>3, <1>4, <1>5

LEMMA BeginOpen ==
  ASSUME OneCaller, TypeInv, OpenInv, NEW c \in Caller,
         Begin(c) \/ \E n \in 1..MaxThreads : Boot(c, n)
  PROVE  OpenInv'
<1>1. PICK plan, q, n : /\ Plans(c, plan, q, n) /\ plan[1] \in {"stop", "new"}
                        /\ Has(plan, "aim") => q = Len(queue) /\ ~Has(plan, "new")
  <2>1. ASSUME NEW plan \in {BootPlan, PausePlan, ResumePlan, SavePlan, DrainPlan}, NEW q, NEW n,
               Plans(c, plan, q, n)
        PROVE  \E p, x, y : /\ Plans(c, p, x, y) /\ p[1] \in {"stop", "new"}
                            /\ Has(p, "aim") => x = Len(queue) /\ ~Has(p, "new")
    BY <2>1, PlanSteps, AimedPlans
  <2>2. CASE SyncRun(c)
    <3>1. Plans(c, SyncPlan, Len(queue), 0)
      BY <2>2 DEF SyncRun, Global
    <3> QED
      BY <3>1, PlanSteps
  <2>3. CASE PauseQueue(c) \/ ResumeQueue(c)
    BY <2>1, <2>3 DEF PauseQueue, ResumeQueue
  <2>4. ASSUME NEW n \in 1..MaxThreads, SaveThreads(c, n)
        PROVE  \E p, x, y : /\ Plans(c, p, x, y) /\ p[1] \in {"stop", "new"}
                            /\ Has(p, "aim") => x = Len(queue) /\ ~Has(p, "new")
    <3>1. PICK plan \in {SavePlan, DrainPlan} : Plans(c, plan, Global, n)
      BY <2>4 DEF SaveThreads
    <3> QED
      BY <2>1, <3>1
  <2>5. ASSUME NEW n \in 1..MaxThreads, Boot(c, n)
        PROVE  \E p, x, y : /\ Plans(c, p, x, y) /\ p[1] \in {"stop", "new"}
                            /\ Has(p, "aim") => x = Len(queue) /\ ~Has(p, "new")
    <3>1. Plans(c, BootPlan, 0, n)
      BY <2>5 DEF Boot
    <3> QED
      BY <2>1, <3>1
  <2> QED
    BY <2>2, <2>3, <2>4, <2>5 DEF Begin
<1> DEFINE r == [plan |-> plan, queue |-> q, threads |-> n]
<1>2. UNCHANGED <<queue, channel>> /\ caller' = [caller EXCEPT ![c] = r]
  BY <1>1 DEF Plans
<1>3. Distinct' /\ RunsOpen'
  BY <1>2 DEF OpenInv, Distinct, RunsOpen
<1>4. r.plan = plan /\ r.queue = q
  OBVIOUS
<1> HIDE DEF r
<1>5. CallKnows(queue', channel', r)
  BY <1>1, <1>2, <1>4 DEF CallKnows, Launches
<1> QED
  BY <1>2, <1>3, <1>5, OneKnows DEF OpenInv

LEMMA DeathOpen ==
  ASSUME ProcessDies
  PROVE  OpenInv'
<1>1. queue' = <<>> /\ Len(queue') = 0
  BY DEF ProcessDies
<1>2. \A c \in Caller : caller'[c].plan = <<>>
  BY DEF ProcessDies
<1>3. CallsKnow'
  BY <1>2 DEF CallsKnow, CallKnows
<1> QED
  BY <1>1, <1>3 DEF OpenInv, Distinct, RunsOpen

LEMMA OpenStart == Init => OpenInv
<1> SUFFICES ASSUME Init
             PROVE  OpenInv
  OBVIOUS
<1>1. queue = <<>> /\ Len(queue) = 0
  BY DEF Init
<1>2. \A c \in Caller : caller[c].plan = <<>>
  BY DEF Init
<1>3. CallsKnow
  BY <1>2 DEF CallsKnow, CallKnows
<1> QED
  BY <1>1, <1>3 DEF OpenInv, Distinct, RunsOpen

LEMMA OpenStep ==
  ASSUME OneCaller, TypeInv, OpenInv, [Next]_vars
  PROVE  OpenInv'
<1>1. ASSUME NEW c \in Caller, (\E n \in 1..MaxThreads : Boot(c, n)) \/ Begin(c)
      PROVE  OpenInv'
  BY <1>1, BeginOpen
<1>2. ASSUME NEW c \in Caller, CallStep(c)
      PROVE  OpenInv'
  BY <1>2, StopFlagOpen, CloseOpen, MakeOpen, ResetOpen, LaunchOpen, SpawnOpen, NewOpen, AimOpen,
     LastOpen, DeathOpen DEF CallStep, CloseTwice
<1>3. CASE Crash
  BY <1>3, DeathOpen DEF Crash
<1>4. ASSUME NEW s \in 1..MaxChannels, SchedulerNext(s)
      PROVE  OpenInv'
  <2>1. CASE SendOnClosed(s)
    BY <2>1, DeathOpen DEF SendOnClosed
  <2>2. CASE ~SendOnClosed(s)
    BY <1>4, <2>2, OthersControl, SameControlOpen
  <2> QED
    BY <2>1, <2>2
<1>5. CASE RowsNext \/ (\E w \in Worker : WorkerNext(w)) \/ UNCHANGED vars
  BY <1>5, OthersControl, SameControlOpen
<1> QED
  BY <1>1, <1>2, <1>3, <1>4, <1>5 DEF Next

\* A queue that says it runs has an open channel, whatever number of queues the
\* calls have made, as long as no call begins before the one before has ended.
THEOREM RunningStaysOpen ==
  ASSUME OneCaller
  PROVE  Spec => []RunningIsOpen
<1>1. Init => OpenInv
  BY OpenStart
<1>2. TypeInv /\ OpenInv /\ [Next]_vars => OpenInv'
  BY OpenStep
<1>3. TypeInv /\ OpenInv => RunningIsOpen
  BY RunningIsMade DEF OpenInv, RunsOpen, RunningIsOpen, ChannelOf
<1> QED
  BY <1>1, <1>2, <1>3, TypeInvariance, PTL DEF Spec

\* A running queue has a goroutine, or the caller is about to start them.
Served ==
  \A q \in 1..Len(queue) : queue[q].running =>
    \/ \E c \in Caller : At(c, "spawn") /\ caller[c].queue = q
    \/ \E w \in Worker : Serves(w, q)

LEMMA WorkerStays ==
  ASSUME TypeInv, OpenInv, NEW v \in Worker, WorkerNext(v),
         NEW q \in 1..Len(queue), queue[q].running, NEW w \in Worker, Serves(w, q)
  PROVE  Serves(w, q)'
<1>1. worker[w].queue = q /\ (worker[w].pc = "blocked" => worker[w].channel = queue[q].tasks)
  BY DEF Serves
<1>2. queue' = queue
  BY DEF WorkerNext, Check, Take, Wake, Receive, BeginDownload, EndDownload
<1>3. worker \in [Worker -> WorkerType] /\ worker[w] \in WorkerType
  BY DEF TypeInv, WorkersOK
<1>4. CASE v # w
  <2>1. worker'[w] = worker[w]
    <3>1. \E r : worker' = [worker EXCEPT ![v] = r]
      <4>1. CASE Check(v)
        BY <4>1 DEF Check
      <4>2. CASE BeginDownload(v)
        <5>1. worker' = [worker EXCEPT ![v] = [worker[v] EXCEPT !.pc = "transfer"]]
          BY <4>2 DEF BeginDownload
        <5> QED
          BY <5>1
      <4>3. CASE EndDownload(v)
        BY <4>3 DEF EndDownload
      <4>4. CASE Take(v) \/ Wake(v)
        <5>1. \E ch : Receive(v, ch)
          BY <4>4 DEF Take, Wake
        <5> QED
          BY <5>1 DEF Receive
      <4> QED
        BY <4>1, <4>2, <4>3, <4>4 DEF WorkerNext
    <3> QED
      BY <1>3, <1>4, <3>1
  <2> QED
    BY <1>1, <1>2, <2>1 DEF Serves
<1>5. CASE v = w
  <2>1. CASE Check(v)
    <3> DEFINE r == [worker[w] EXCEPT !.pc = "token"]
    <3>1. worker' = [worker EXCEPT ![w] = r]
      BY <1>1, <1>5, <2>1 DEF Check
    <3>2. r.queue = worker[w].queue /\ r.pc = "token"
      BY <1>3 DEF WorkerType
    <3> HIDE DEF r
    <3>3. worker'[w] = r
      BY <1>3, <3>1
    <3> QED
      BY <1>1, <3>2, <3>3 DEF Serves
  <2>2. CASE BeginDownload(v)
    <3> DEFINE r == [worker[w] EXCEPT !.pc = "transfer"]
    <3>1. worker' = [worker EXCEPT ![w] = r]
      BY <1>5, <2>2 DEF BeginDownload
    <3>2. r.queue = worker[w].queue /\ r.pc = "transfer"
      BY <1>3 DEF WorkerType
    <3> HIDE DEF r
    <3>3. worker'[w] = r
      BY <1>3, <3>1
    <3> QED
      BY <1>1, <3>2, <3>3 DEF Serves
  <2>3. CASE EndDownload(v)
    <3>1. worker'[w] = NewWorker(q)
      BY <1>1, <1>3, <1>5, <2>3 DEF EndDownload
    <3>2. NewWorker(q).queue = q /\ NewWorker(q).pc = "check"
      BY NewWorkerRecord
    <3> QED
      BY <3>1, <3>2 DEF Serves
  <2>4. CASE Take(v) \/ Wake(v)
    <3>1. Receive(w, queue[q].tasks)
      <4>1. CASE Take(v)
        BY <1>1, <1>5, <4>1 DEF Take
      <4>2. CASE Wake(v)
        <5>1. worker[w].channel = queue[q].tasks
          BY <1>1, <1>5, <4>2 DEF Wake
        <5> QED
          BY <1>5, <4>2, <5>1 DEF Wake
      <4> QED
        BY <2>4, <4>1, <4>2
    <3>2. ~channel[queue[q].tasks].closed
      BY DEF OpenInv, RunsOpen
    <3>3. CASE channel[queue[q].tasks].buffer # <<>>
      <4>1. worker'[w] = [pc |-> "work", queue |-> worker[w].queue, channel |-> 0,
                          task |-> Head(channel[queue[q].tasks].buffer)]
        BY <1>3, <3>1, <3>3 DEF Receive
      <4> QED
        BY <1>1, <4>1 DEF Serves
    <3>4. CASE channel[queue[q].tasks].buffer = <<>>
      <4>1. worker'[w] = [pc |-> "blocked", queue |-> worker[w].queue,
                          channel |-> queue[q].tasks, task |-> NoTask]
        BY <1>3, <3>1, <3>2, <3>4 DEF Receive
      <4> QED
        BY <1>1, <1>2, <4>1 DEF Serves
    <3> QED
      BY <3>3, <3>4
  <2> QED
    BY <2>1, <2>2, <2>3, <2>4 DEF WorkerNext
<1> QED
  BY <1>4, <1>5

\* Steps of others than the callers.
LEMMA OthersServed ==
  ASSUME TypeInv, OpenInv, Served,
         \/ \E w \in Worker : WorkerNext(w)
         \/ \E s \in 1..MaxChannels : SchedulerNext(s) /\ ~SendOnClosed(s)
         \/ RowsNext
         \/ UNCHANGED vars
  PROVE  Served'
<1>1. SameControl /\ caller' = caller
  BY OthersControl
<1> SUFFICES ASSUME NEW q \in 1..Len(queue), queue[q].running
             PROVE  \/ \E c \in Caller : At(c, "spawn")' /\ caller'[c].queue = q
                    \/ \E w \in Worker : Serves(w, q)'
  BY <1>1 DEF SameControl, Served
<1>2. CASE \E c \in Caller : At(c, "spawn") /\ caller[c].queue = q
  BY <1>1, <1>2 DEF At, Idling
<1>3. ASSUME NEW w \in Worker, Serves(w, q)
      PROVE  \E v \in Worker : Serves(v, q)'
  <2>1. ASSUME NEW v \in Worker, WorkerNext(v)
        PROVE  Serves(w, q)'
    BY <1>3, <2>1, WorkerStays
  <2>2. CASE worker' = worker
    <3>1. queue'[q].tasks = queue[q].tasks
      BY <1>1 DEF SameControl
    <3> QED
      BY <1>3, <2>2, <3>1 DEF Serves
  <2>3. (\E s \in 1..MaxChannels : SchedulerNext(s) /\ ~SendOnClosed(s)) => worker' = worker
    BY DEF SchedulerNext, Loop, Tick, CountPending, CountDownloading, RetryWhenIdle,
           GetPendingDownloadTasks, Send, Mark
  <2>4. RowsNext => worker' = worker
    BY DEF RowsNext, RowsChange, AddDownloadTask, DeleteRows, ClearDownloadPendingTasks,
         ClearDownloadSuccessAndFailed, ClearExpireDownloadTasks, RetryFailedByUser
  <2> QED
    BY <2>1, <2>2, <2>3, <2>4 DEF vars
<1> QED
  BY <1>2, <1>3 DEF Served

\* A caller that starts no goroutines and lets running queues keep their
\* channels.
LEMMA CallerServed ==
  ASSUME OneCaller, Served, NEW c \in Caller, ~At(c, "spawn"), worker' = worker,
         \A q \in 1..Len(queue') : queue'[q].running =>
           q \in 1..Len(queue) /\ queue[q].running /\ queue'[q].tasks = queue[q].tasks
  PROVE  Served'
<1>1. ASSUME NEW q \in 1..Len(queue), queue[q].running
      PROVE  \E w \in Worker : Serves(w, q)
  BY <1>1 DEF OneCaller, Served
<1> SUFFICES ASSUME NEW q \in 1..Len(queue'), queue'[q].running
             PROVE  \E w \in Worker : Serves(w, q)'
  BY DEF Served
<1>2. PICK w \in Worker : Serves(w, q)
  BY <1>1
<1> QED
  BY <1>2 DEF Serves

LEMMA CallServed ==
  ASSUME OneCaller, TypeInv, OpenInv, Served, NEW c \in Caller,
         \/ StopFlag(c) \/ Close(c) \/ Make(c) \/ Reset(c) \/ New(c) \/ Aim(c) \/ Up(c)
         \/ Begin(c) \/ \E n \in 1..MaxThreads : Boot(c, n)
  PROVE  Served'
<1> DEFINE q == caller[c].queue
           Kept == \A p \in 1..Len(queue') : queue'[p].running =>
                     p \in 1..Len(queue) /\ queue[p].running /\ queue'[p].tasks = queue[p].tasks
<1>1. ~At(c, "spawn") /\ worker' = worker
  BY DEF StopFlag, Close, Make, Reset, New, Aim, Up, Begin, Boot, PauseQueue, ResumeQueue, SyncRun,
         SaveThreads, Plans, At
<1>2. queue' = queue => Kept
  OBVIOUS
<1>3. CASE Close(c) \/ Reset(c) \/ Aim(c) \/ Up(c) \/ Begin(c) \/ \E n \in 1..MaxThreads : Boot(c, n)
  <2>1. queue' = queue
    BY <1>3 DEF Close, Reset, Aim, Up, Begin, Boot, PauseQueue, ResumeQueue, SyncRun, SaveThreads, Plans
  <2> QED
    BY <1>1, <1>2, <2>1, CallerServed
<1>4. CASE StopFlag(c)
  <2>1. CASE queue' = queue
    BY <1>1, <1>2, <2>1, CallerServed
  <2>2. CASE queue' = [queue EXCEPT ![q].running = FALSE]
    <3>1. ~Idling(c) /\ caller[c].plan[1] = "stop"
      BY <1>4, CallerFacts DEF StopFlag, At
    <3>2. q \in 1..Len(queue)
      BY <3>1, CallerFacts DEF Knows
    <3>3. /\ Len(queue') = Len(queue) /\ (queue'[q].running = FALSE)
          /\ \A p \in 1..Len(queue) : p # q => queue'[p] = queue[p]
      BY <2>2, <3>2, RunningIsMade DEF QueueType
    <3>4. Kept
      BY <3>3
    <3> QED
      BY <1>1, <3>4, CallerServed
  <2> QED
    BY <1>4, <2>1, <2>2 DEF StopFlag
<1>5. CASE Make(c)
  <2>1. queue' = [queue EXCEPT ![q].tasks = Len(channel) + 1] /\ ~Idling(c)
        /\ caller[c].plan[1] = "make"
    BY <1>5, CallerFacts DEF Make, At
  <2>2. ~queue[q].running
    BY <2>1, KnownFacts
  <2>3. q \in 1..Len(queue)
    BY <2>1, CallerFacts DEF Knows
  <2>4. /\ Len(queue') = Len(queue) /\ queue'[q].running = queue[q].running
        /\ \A p \in 1..Len(queue) : p # q => queue'[p] = queue[p]
    BY <2>1, <2>3, RunningIsMade DEF QueueType
  <2>5. Kept
    BY <2>2, <2>4
  <2> QED
    BY <1>1, <2>5, CallerServed
<1>6. CASE New(c)
  <2> DEFINE r == [numWorkers |-> caller[c].threads, running |-> FALSE, tasks |-> 0,
                   retryTriggered |-> FALSE]
  <2>1. queue' = Append(queue, r) /\ (r.running = FALSE)
    BY <1>6 DEF New
  <2> HIDE DEF r
  <2>2. \A p \in 1..Len(queue') : (p \in 1..Len(queue) /\ queue'[p] = queue[p]) \/ queue'[p] = r
    BY <2>1, RunningIsMade
  <2>3. Kept
    BY <2>1, <2>2
  <2> QED
    BY <1>1, <2>3, CallerServed
<1> QED
  BY <1>3, <1>4, <1>5, <1>6

\* Only free slots get new goroutines.
LEMMA SpawnKeeps ==
  ASSUME TypeInv, NEW q, NEW n, SpawnWorkers(q, n), NEW p \in 1..Len(queue),
         queue'[p].tasks = queue[p].tasks, NEW w \in Worker, Serves(w, p)
  PROVE  Serves(w, p)'
<1>1. PICK S \in kSubset(n, FreeSlot) :
        worker' = [v \in Worker |-> IF v \in S THEN NewWorker(q) ELSE worker[v]]
  BY DEF SpawnWorkers
<1>2. worker[w].queue = p /\ WorkerFits(queue, channel, worker[w])
  BY DEF Serves, TypeInv, WorkersOK
<1>3. worker[w].pc # "off"
  BY <1>2 DEF WorkerFits
<1>4. w \notin S
  BY <1>1, <1>3 DEF kSubset, FreeSlot
<1>5. worker'[w] = worker[w]
  BY <1>1, <1>4
<1> QED
  BY <1>5 DEF Serves

LEMMA SpawnServes ==
  ASSUME NEW q, NEW n \in Nat, n # 0, SpawnWorkers(q, n)
  PROVE  \E w \in Worker : Serves(w, q)'
<1>1. PICK S \in kSubset(n, FreeSlot) :
        worker' = [v \in Worker |-> IF v \in S THEN NewWorker(q) ELSE worker[v]]
  BY DEF SpawnWorkers
<1>2. S # {} /\ S \subseteq Worker
  BY <1>1, FS_EmptySet DEF kSubset, FreeSlot
<1>3. PICK w \in Worker : w \in S
  BY <1>2
<1>4. worker'[w] = NewWorker(q)
  BY <1>1, <1>3
<1>5. NewWorker(q).queue = q /\ NewWorker(q).pc = "check"
  BY NewWorkerRecord
<1> QED
  BY <1>4, <1>5 DEF Serves

LEMMA LaunchServed ==
  ASSUME OneCaller, TypeInv, OpenInv, Served, NEW c \in Caller, Launch(c)
  PROVE  Served'
<1> DEFINE q == caller[c].queue
           plan == caller[c].plan
<1>1. ~Idling(c) /\ plan[1] = "launch" /\ worker' = worker /\ ~At(c, "spawn")
  BY CallerFacts DEF Launch, At
<1>2. /\ caller[c] \in CallerType /\ Plan(plan) /\ plan # <<>> /\ q \in 1..Len(queue)
  BY <1>1, CallerFacts DEF Knows, Made
<1>3. 1 < Len(plan) /\ plan[1+1] = "spawn" /\ 1 \in 1..Len(plan)
  <2> HIDE DEF plan
  <2> QED
    BY <1>1, <1>2, NextSteps
<1>4. CASE queue[q].running
  BY <1>1, <1>4, CallerServed DEF Launch
<1>5. CASE ~queue[q].running
  <2>1. Skip(c, 1) /\ queue' = [queue EXCEPT ![q].running = TRUE]
    BY <1>5 DEF Launch
  <2>2. caller'[c] = [plan |-> Rest(plan, 1), queue |-> q, threads |-> caller[c].threads]
    BY <1>2, <2>1, SkipIsRest DEF TypeInv, CallersOK
  <2>3. At(c, "spawn")' /\ caller'[c].queue = q
    <3>1. Rest(plan, 1) # <<>> /\ Head(Rest(plan, 1)) = "spawn"
      <4>1. Rest(plan, 1) # <<>>
        <5>1. plan \in Seq(Steps) /\ Len(plan) \in Nat
          BY <1>2 DEF Plan
        <5> HIDE DEF plan
        <5>2. Len(Rest(plan, 1)) = Len(plan) - 1
          BY <1>3, <5>1 DEF Rest
        <5>3. Len(Rest(plan, 1)) # 0
          BY <1>3, <5>1, <5>2
        <5> QED
          BY <5>3
      <4> QED
        BY <1>2, <1>3, <4>1, RestIsPlan
    <3>2. caller'[c].plan = Rest(plan, 1) /\ caller'[c].queue = q
      BY <2>2
    <3> QED
      BY <3>1, <3>2 DEF At, Idling
  <2>4. /\ Len(queue') = Len(queue)
        /\ \A p \in 1..Len(queue) : queue'[p].tasks = queue[p].tasks
        /\ \A p \in 1..Len(queue) : p # q => queue'[p] = queue[p]
    BY <1>2, <2>1, RunningIsMade DEF QueueType
  <2> SUFFICES ASSUME NEW p \in 1..Len(queue), queue'[p].running, p # q
               PROVE  \E w \in Worker : Serves(w, p)'
    BY <2>3, <2>4 DEF Served
  <2>5. PICK w \in Worker : Serves(w, p)
    BY <1>1, <2>4 DEF OneCaller, Served
  <2> QED
    BY <1>1, <2>4, <2>5 DEF Serves
<1> QED
  BY <1>4, <1>5

LEMMA SpawnServed ==
  ASSUME OneCaller, TypeInv, OpenInv, Served, NEW c \in Caller, Spawn(c)
  PROVE  Served'
<1> DEFINE q == caller[c].queue
<1>1. At(c, "spawn") /\ queue' = queue /\ SpawnWorkers(q, queue[q].numWorkers) /\ ~Idling(c)
      /\ caller[c].plan[1] = "spawn"
  BY CallerFacts DEF Spawn, At
<1>2. q \in 1..Len(queue)
  BY <1>1, CallerFacts DEF Knows, Made
<1>3. queue[q].numWorkers \in Nat /\ queue[q].numWorkers # 0
  <2>1. queue[q].numWorkers \in 1..MaxThreads
    BY <1>2, RunningIsMade DEF QueueType
  <2> QED
    BY <2>1, BoundAssumption
<1> SUFFICES ASSUME NEW p \in 1..Len(queue), queue[p].running
             PROVE  \E w \in Worker : Serves(w, p)'
  BY <1>1 DEF Served
<1>4. CASE p = q
  BY <1>1, <1>3, <1>4, SpawnServes
<1>5. CASE p # q
  <2>1. PICK w \in Worker : Serves(w, p)
    BY <1>5 DEF OneCaller, Served
  <2> QED
    BY <1>1, <2>1, SpawnKeeps
<1> QED
  BY <1>4, <1>5

LEMMA ResizeServed ==
  ASSUME OneCaller, TypeInv, OpenInv, Served, NEW c \in Caller, Resize(c)
  PROVE  Served'
<1>1. /\ ~At(c, "spawn") /\ \E n : SpawnWorkers(Global, n)
      /\ queue' = [queue EXCEPT ![Global].numWorkers = caller[c].threads]
  BY DEF Resize, At
<1>2. /\ Len(queue') = Len(queue)
      /\ \A p \in 1..Len(queue) : queue'[p].running = queue[p].running /\ queue'[p].tasks = queue[p].tasks
  BY <1>1, RunningIsMade DEF QueueType
<1> SUFFICES ASSUME NEW p \in 1..Len(queue), queue[p].running
             PROVE  \E w \in Worker : Serves(w, p)'
  BY <1>2 DEF Served
<1>3. PICK w \in Worker : Serves(w, p)
  BY <1>1 DEF OneCaller, Served
<1> QED
  BY <1>1, <1>2, <1>3, SpawnKeeps

LEMMA ServedStep ==
  ASSUME OneCaller, TypeInv, OpenInv, Served, [Next]_vars
  PROVE  Served'
<1>1. ASSUME ProcessDies
      PROVE  Served'
  <2>1. queue' = <<>> /\ Len(queue') = 0
    BY <1>1 DEF ProcessDies
  <2> QED
    BY <2>1 DEF Served
<1>2. ASSUME NEW c \in Caller, (\E n \in 1..MaxThreads : Boot(c, n)) \/ Begin(c) \/ CallStep(c)
      PROVE  Served'
  BY <1>1, <1>2, CallServed, LaunchServed, SpawnServed, ResizeServed DEF CallStep, CloseTwice
<1>3. CASE Crash
  BY <1>1, <1>3 DEF Crash
<1>4. ASSUME NEW s \in 1..MaxChannels, SchedulerNext(s)
      PROVE  Served'
  <2>1. CASE SendOnClosed(s)
    BY <1>1, <2>1 DEF SendOnClosed
  <2>2. CASE ~SendOnClosed(s)
    BY <1>4, <2>2, OthersServed
  <2> QED
    BY <2>1, <2>2
<1>5. CASE RowsNext \/ (\E w \in Worker : WorkerNext(w)) \/ UNCHANGED vars
  BY <1>5, OthersServed
<1> QED
  BY <1>2, <1>3, <1>4, <1>5 DEF Next

\* A queue that says it runs has a goroutine that works or listens to its
\* present channel, again as long as the calls follow one another.
THEOREM RunningIsServed ==
  ASSUME OneCaller
  PROVE  Spec => []RunningHasWorker
<1>1. Init => OpenInv /\ Served
  <2>1. Init => queue = <<>> /\ Len(queue) = 0
    BY DEF Init
  <2> QED
    BY <2>1, OpenStart DEF Served
<1>2. TypeInv /\ OpenInv /\ Served /\ [Next]_vars => OpenInv' /\ Served'
  BY OpenStep, ServedStep
<1>3. TypeInv /\ Served => RunningHasWorker
  BY RunningIsMade DEF Served, RunningHasWorker, At
<1> QED
  BY <1>1, <1>2, <1>3, TypeInvariance, PTL DEF Spec

-----------------------------------------------------------------------------
(* The pause, with overlapping calls.                                      *)

\* One DQ in the life of the process: nobody saves the thread settings.
OneQueue == MaxQueues = 1

\* A stopped queue has its channel closed, or a caller is about to close it or
\* to let the queue run.
PauseInv ==
  \A q \in 1..Len(queue) : queue[q].tasks # 0 /\ ~queue[q].running =>
    \/ channel[queue[q].tasks].closed
    \/ \E c \in Caller : ~Idling(c) /\ (caller[c].plan[1] = "close" \/ Launches(caller[c].plan))

LEMMA TheQueue ==
  ASSUME OneQueue, TypeInv
  PROVE  /\ \A q \in 1..Len(queue) : q = 1
         /\ Len(queue) \in 0..1
BY LengthFacts DEF OneQueue

LEMMA SameControlPause ==
  ASSUME TypeInv, PauseInv, SameControl, caller' = caller
  PROVE  PauseInv'
<1> SUFFICES ASSUME NEW q \in 1..Len(queue), queue[q].tasks # 0, ~queue[q].running
             PROVE  \/ channel'[queue'[q].tasks].closed
                    \/ \E c \in Caller : ~Idling(c)' /\ (\/ caller'[c].plan[1] = "close"
                                                         \/ Launches(caller'[c].plan))
  BY DEF SameControl, PauseInv
<1>1. queue[q].tasks \in 1..Len(channel) /\ queue'[q].tasks = queue[q].tasks
  BY RunningIsMade DEF SameControl
<1>2. channel'[queue'[q].tasks].closed = channel[queue[q].tasks].closed
  BY <1>1 DEF SameControl
<1>3. CASE channel[queue[q].tasks].closed
  BY <1>2, <1>3
<1>4. CASE ~channel[queue[q].tasks].closed
  BY <1>4 DEF PauseInv, Idling
<1> QED
  BY <1>3, <1>4

\* Caller c was none of those a stopped queue waits for, and leaves the queues
\* as they are.
LEMMA BystanderPause ==
  ASSUME TypeInv, PauseInv, NEW c \in Caller, NEW r, caller' = [caller EXCEPT ![c] = r],
         Idling(c) \/ ~(caller[c].plan[1] = "close" \/ Launches(caller[c].plan)),
         channel' = channel,
         \A q \in 1..Len(queue') : queue'[q].tasks # 0 =>
           /\ q \in 1..Len(queue)
           /\ queue'[q].running = queue[q].running
           /\ queue'[q].tasks = queue[q].tasks
  PROVE  PauseInv'
<1> SUFFICES ASSUME NEW q \in 1..Len(queue'), queue'[q].tasks # 0, ~queue'[q].running,
                    ~channel[queue'[q].tasks].closed
             PROVE  \E d \in Caller : ~Idling(d)' /\ (\/ caller'[d].plan[1] = "close"
                                                      \/ Launches(caller'[d].plan))
  BY DEF PauseInv
<1>1. PICK d \in Caller : ~Idling(d) /\ (caller[d].plan[1] = "close" \/ Launches(caller[d].plan))
  BY DEF PauseInv
<1>2. d # c
  BY <1>1
<1>3. caller'[d] = caller[d]
  BY <1>2 DEF TypeInv, CallersOK
<1> QED
  BY <1>1, <1>3 DEF Idling

\* Caller c has come to a step the stopped queue waits for.
LEMMA ActorPause ==
  ASSUME TypeInv, NEW c \in Caller, NEW k \in 1..Len(caller[c].plan), NEW q, NEW n,
         ~Idling(c), k < Len(caller[c].plan),
         \/ caller[c].plan[k+1] \in {"close", "launch"}
         \/ /\ caller[c].plan[k+1] = "reset" /\ k + 1 < Len(caller[c].plan)
            /\ caller[c].plan[k+2] = "launch",
         caller' = [caller EXCEPT ![c] = [plan |-> Rest(caller[c].plan, k), queue |-> q, threads |-> n]]
  PROVE  PauseInv'
<1> DEFINE plan == caller[c].plan
           rest == Rest(plan, k)
           r == [plan |-> rest, queue |-> q, threads |-> n]
<1>1. Plan(plan) /\ plan \in Seq(Steps) /\ Len(plan) \in Nat
  BY CallerFacts DEF Plan
<1>2. Len(rest) = Len(plan) - k /\ \A i \in 1..Len(rest) : rest[i] = plan[i+k]
  BY <1>1 DEF Rest
<1>3. caller'[c].plan = rest
  <2>1. r.plan = rest /\ caller' = [caller EXCEPT ![c] = r]
    OBVIOUS
  <2> HIDE DEF r
  <2> QED
    BY <2>1 DEF TypeInv, CallersOK
<1>4. k < Len(plan) /\ (\/ plan[k+1] \in {"close", "launch"}
                        \/ plan[k+1] = "reset" /\ k + 1 < Len(plan) /\ plan[k+2] = "launch")
  OBVIOUS
<1> HIDE DEF rest, plan
<1>5. 1 \in 1..Len(rest) /\ rest[1] = plan[k+1] /\ Len(rest) # 0
  BY <1>1, <1>2, <1>4
<1>6. k + 1 < Len(plan) => 1 < Len(rest) /\ rest[2] = plan[k+2]
  <2>1. k + 1 < Len(plan) => 2 \in 1..Len(rest) /\ 2 + k = k + 2 /\ 1 < Len(rest)
    BY <1>1, <1>2
  <2> QED
    BY <1>2, <2>1
<1>7. rest # <<>> /\ (rest[1] = "close" \/ Launches(rest))
  BY <1>4, <1>5, <1>6 DEF Launches
<1> QED
  BY <1>3, <1>7 DEF PauseInv, Idling

LEMMA StopPause ==
  ASSUME TypeInv, PauseInv, NEW c \in Caller, StopFlag(c)
  PROVE  PauseInv'
<1> DEFINE q == caller[c].queue
           plan == caller[c].plan
<1>1. ~Idling(c) /\ plan[1] = "stop" /\ channel' = channel
  BY CallerFacts DEF StopFlag, At
<1>2. /\ caller[c] \in CallerType /\ Plan(plan) /\ plan # <<>>
  BY <1>1, CallerFacts
<1>3. /\ 1 < Len(plan) /\ plan[1+1] = "close" /\ 1 \in 1..Len(plan)
  <2> HIDE DEF plan
  <2> QED
    BY <1>1, <1>2, NextSteps
<1>4. CASE queue[q].running
  <2>1. caller' = [caller EXCEPT ![c] = [plan |-> Rest(plan, 1), queue |-> q,
                                         threads |-> caller[c].threads]]
    BY <1>2, <1>4, SkipIsRest DEF StopFlag
  <2> QED
    BY <1>1, <1>3, <2>1, ActorPause
<1>5. CASE ~queue[q].running
  <2>1. Skip(c, 2) /\ queue' = queue
    BY <1>5 DEF StopFlag
  <2> QED
    BY <1>1, <2>1, BystanderPause DEF Skip, Launches
<1> QED
  BY <1>4, <1>5

LEMMA ClosePause ==
  ASSUME OneQueue, TypeInv, NEW c \in Caller, Close(c)
  PROVE  PauseInv'
<1> DEFINE q == caller[c].queue
           ch == queue[q].tasks
           new == [channel[ch] EXCEPT !.closed = TRUE]
<1>1. /\ ~Idling(c) /\ caller[c].plan[1] = "close" /\ queue' = queue
      /\ channel' = [channel EXCEPT ![ch] = new]
  BY CallerFacts DEF Close, At
<1>2. Made(queue, q)
  BY <1>1, CallerFacts DEF Knows
<1>3. ch \in 1..Len(channel) /\ q \in 1..Len(queue)
  BY <1>2, MadeFacts DEF Made
<1>4. new.closed
  BY <1>3, RunningIsMade DEF ChannelType
<1> HIDE DEF new, ch
<1>5. channel'[ch] = new
  BY <1>1, <1>3, RunningIsMade
<1>6. \A p \in 1..Len(queue) : queue[p].tasks = ch
  BY <1>3, TheQueue DEF ch
<1> QED
  BY <1>1, <1>4, <1>5, <1>6 DEF PauseInv

LEMMA MakePause ==
  ASSUME TypeInv, NEW c \in Caller, Make(c)
  PROVE  PauseInv'
<1> DEFINE q == caller[c].queue
           plan == caller[c].plan
<1>1. ~Idling(c) /\ plan[1] = "make" /\ Skip(c, 1)
  BY CallerFacts DEF Make, At
<1>2. caller[c] \in CallerType /\ Plan(plan) /\ plan # <<>> /\ 1 \in 1..Len(plan)
  BY <1>1, CallerFacts
<1>3. 1 + 1 < Len(plan) /\ plan[1+1] = "reset" /\ plan[1+2] = "launch" /\ 1 < Len(plan)
  <2> HIDE DEF plan
  <2>1. 1 + 1 < Len(plan) /\ plan[1+1] = "reset" /\ plan[1+2] = "launch"
    BY <1>1, <1>2 DEF Plan, Ordered
  <2> QED
    BY <1>2, <2>1 DEF Plan
<1>4. caller' = [caller EXCEPT ![c] = [plan |-> Rest(plan, 1), queue |-> q,
                                       threads |-> caller[c].threads]]
  BY <1>1, <1>2, SkipIsRest
<1> QED
  BY <1>1, <1>2, <1>3, <1>4, ActorPause

LEMMA ResetPause ==
  ASSUME TypeInv, PauseInv, NEW c \in Caller, Reset(c)
  PROVE  PauseInv'
<1> DEFINE q == caller[c].queue
           plan == caller[c].plan
<1>1. /\ ~Idling(c) /\ plan[1] = "reset" /\ Skip(c, 1) /\ queue' = queue /\ channel' = channel
  BY CallerFacts DEF Reset, At
<1>2. caller[c] \in CallerType /\ Plan(plan) /\ plan # <<>> /\ 1 \in 1..Len(plan)
  BY <1>1, CallerFacts
<1>3. CASE 1 < Len(plan) /\ plan[1+1] = "launch"
  <2>1. caller' = [caller EXCEPT ![c] = [plan |-> Rest(plan, 1), queue |-> q,
                                         threads |-> caller[c].threads]]
    BY <1>1, <1>2, SkipIsRest
  <2> QED
    BY <1>1, <1>2, <1>3, <2>1, ActorPause
<1>4. CASE ~(1 < Len(plan) /\ plan[1+1] = "launch")
  <2>1. ~(plan[1] = "close" \/ Launches(plan))
    BY <1>1, <1>4 DEF Launches
  <2>2. \E r : caller' = [caller EXCEPT ![c] = r]
    BY <1>1 DEF Skip
  <2> QED
    BY <1>1, <2>1, <2>2, BystanderPause
<1> QED
  BY <1>3, <1>4

LEMMA LaunchPause ==
  ASSUME OneQueue, TypeInv, NEW c \in Caller, Launch(c)
  PROVE  PauseInv'
<1> DEFINE q == caller[c].queue
<1>1. ~Idling(c) /\ caller[c].plan[1] = "launch"
  BY CallerFacts DEF Launch, At
<1>2. q \in 1..Len(queue) /\ \A p \in 1..Len(queue) : p = q
  <2>1. q \in 1..Len(queue)
    BY <1>1, CallerFacts DEF Knows, Made
  <2> QED
    BY <2>1, TheQueue
<1>3. Len(queue') = Len(queue) /\ queue'[q].running
  <2>1. CASE queue[q].running
    BY <2>1 DEF Launch
  <2>2. CASE ~queue[q].running
    <3>1. queue' = [queue EXCEPT ![q].running = TRUE]
      BY <2>2 DEF Launch
    <3> QED
      BY <1>2, <3>1, RunningIsMade DEF QueueType
  <2> QED
    BY <2>1, <2>2
<1> QED
  BY <1>2, <1>3 DEF PauseInv

\* Steps and calls that leave the queues as they are.
LEMMA QuietPause ==
  ASSUME TypeInv, PauseInv, NEW c \in Caller,
         \/ Spawn(c) \/ New(c) \/ Aim(c) \/ Resize(c) \/ Up(c) \/ Begin(c)
         \/ \E n \in 1..MaxThreads : Boot(c, n)
  PROVE  PauseInv'
<1>1. Idling(c) \/ ~(caller[c].plan[1] = "close" \/ Launches(caller[c].plan))
  <2>1. Idling(c) \/ caller[c].plan[1] \in {"spawn", "new", "aim", "resize", "up"}
    BY CallerFacts DEF Spawn, New, Aim, Resize, Up, Begin, Boot, PauseQueue, ResumeQueue, SyncRun,
                       SaveThreads, Plans, At
  <2> QED
    BY <2>1 DEF Launches
<1>2. channel' = channel
  BY DEF Spawn, New, Aim, Resize, Up, Begin, Boot, PauseQueue, ResumeQueue, SyncRun, SaveThreads, Plans
<1>3. \E r : caller' = [caller EXCEPT ![c] = r]
  <2>1. ASSUME NEW k, Skip(c, k)
        PROVE  \E r : caller' = [caller EXCEPT ![c] = r]
    BY <2>1 DEF Skip
  <2>2. ASSUME NEW plan, NEW q, NEW n, Plans(c, plan, q, n)
        PROVE  \E r : caller' = [caller EXCEPT ![c] = r]
    BY <2>2 DEF Plans
  <2>3. CASE Spawn(c) \/ Resize(c) \/ Up(c)
    BY <2>1, <2>3 DEF Spawn, Resize, Up
  <2>4. CASE New(c) \/ Aim(c)
    <3>1. PICK q : caller' = [caller EXCEPT ![c].plan = Tail(@), ![c].queue = q]
      BY <2>4 DEF New, Aim
    <3>2. ~Idling(c)
      BY <2>4 DEF New, Aim, At
    <3> QED
      BY <3>1, <3>2, CallerFacts, AimIsRest
  <2>5. CASE Begin(c) \/ \E n \in 1..MaxThreads : Boot(c, n)
    BY <2>2, <2>5 DEF Begin, Boot, PauseQueue, ResumeQueue, SyncRun, SaveThreads
  <2> QED
    BY <2>3, <2>4, <2>5
<1>4. \A q \in 1..Len(queue') : queue'[q].tasks # 0 =>
        /\ q \in 1..Len(queue)
        /\ queue'[q].running = queue[q].running
        /\ queue'[q].tasks = queue[q].tasks
  <2>1. CASE queue' = queue
    BY <2>1
  <2>2. CASE New(c)
    <3> DEFINE r == [numWorkers |-> caller[c].threads, running |-> FALSE, tasks |-> 0,
                     retryTriggered |-> FALSE]
    <3>1. queue' = Append(queue, r) /\ r.tasks = 0
      BY <2>2 DEF New
    <3> HIDE DEF r
    <3>2. \A p \in 1..Len(queue') : (p \in 1..Len(queue) /\ queue'[p] = queue[p]) \/ queue'[p] = r
      BY <3>1, RunningIsMade
    <3> QED
      BY <3>1, <3>2
  <2>3. CASE Resize(c)
    <3>1. queue' = [queue EXCEPT ![Global].numWorkers = caller[c].threads]
      BY <2>3 DEF Resize
    <3> QED
      BY <3>1, RunningIsMade DEF QueueType
  <2>4. CASE Spawn(c) \/ Aim(c) \/ Up(c) \/ Begin(c) \/ \E n \in 1..MaxThreads : Boot(c, n)
    BY <2>1, <2>4 DEF Spawn, Aim, Up, Begin, Boot, PauseQueue, ResumeQueue, SyncRun, SaveThreads, Plans
  <2> QED
    BY <2>2, <2>3, <2>4
<1> QED
  BY <1>1, <1>2, <1>3, <1>4, BystanderPause

LEMMA PauseStep ==
  ASSUME OneQueue, TypeInv, PauseInv, [Next]_vars
  PROVE  PauseInv'
<1>1. ASSUME ProcessDies
      PROVE  PauseInv'
  <2>1. queue' = <<>> /\ Len(queue') = 0
    BY <1>1 DEF ProcessDies
  <2> QED
    BY <2>1 DEF PauseInv
<1>2. ASSUME NEW c \in Caller, (\E n \in 1..MaxThreads : Boot(c, n)) \/ Begin(c) \/ CallStep(c)
      PROVE  PauseInv'
  BY <1>1, <1>2, StopPause, ClosePause, MakePause, ResetPause, LaunchPause, QuietPause
     DEF CallStep, CloseTwice
<1>3. CASE Crash
  BY <1>1, <1>3 DEF Crash
<1>4. ASSUME NEW s \in 1..MaxChannels, SchedulerNext(s)
      PROVE  PauseInv'
  <2>1. CASE SendOnClosed(s)
    BY <1>1, <2>1 DEF SendOnClosed
  <2>2. CASE ~SendOnClosed(s)
    BY <1>4, <2>2, OthersControl, SameControlPause
  <2> QED
    BY <2>1, <2>2
<1>5. CASE RowsNext \/ (\E w \in Worker : WorkerNext(w)) \/ UNCHANGED vars
  BY <1>5, OthersControl, SameControlPause
<1> QED
  BY <1>2, <1>3, <1>4, <1>5 DEF Next

LEMMA NoClaim ==
  ASSUME TypeInv,
         \A ch \in 1..Len(channel) : ch \in DOMAIN channel' =>
           \/ channel'[ch].buffer = channel[ch].buffer
           \/ Len(channel[ch].buffer) # 0 /\ channel'[ch].buffer = Tail(channel[ch].buffer)
  PROVE  ~Claims
<1> SUFFICES ASSUME NEW ch \in 1..Len(channel), ch \in DOMAIN channel'
             PROVE  ~(Len(channel'[ch].buffer) > Len(channel[ch].buffer))
  BY RunningIsMade DEF Claims
<1>1. channel[ch].buffer \in Seq(TaskCopy)
  BY ChannelFacts
<1>2. Len(channel[ch].buffer) \in Nat
  BY <1>1
<1>3. CASE channel'[ch].buffer = channel[ch].buffer
  BY <1>2, <1>3
<1>4. CASE Len(channel[ch].buffer) # 0 /\ channel'[ch].buffer = Tail(channel[ch].buffer)
  <2>1. Len(Tail(channel[ch].buffer)) = Len(channel[ch].buffer) - 1
    BY <1>1, <1>4
  <2> QED
    BY <1>2, <1>4, <2>1
<1> QED
  BY <1>3, <1>4

LEMMA PausedStepHolds ==
  ASSUME OneQueue, TypeInv, PauseInv, Next
  PROVE  PausedStep
<1> SUFFICES ASSUME boot = "up", ~GlobalRunning, \A c \in Caller : Idling(c)
             PROVE  ~Claims
  BY DEF PausedStep
<1>1. CASE channel' = channel
  BY <1>1, NoClaim
<1>2. ASSUME ProcessDies
      PROVE  ~Claims
  BY <1>2 DEF ProcessDies, Claims
<1>3. ASSUME NEW c \in Caller,
             (\E n \in 1..MaxThreads : Boot(c, n)) \/ Begin(c) \/ CallStep(c)
      PROVE  ~Claims
  <2>1. ~CallStep(c) /\ \A n \in 1..MaxThreads : ~Boot(c, n)
    BY DEF CallStep, StopFlag, Close, CloseTwice, Make, Reset, Launch, Spawn, New, Aim, Resize, Up,
           At, Boot
  <2>2. Begin(c)
    BY <1>3, <2>1
  <2>3. channel' = channel
    BY <2>2 DEF Begin, PauseQueue, ResumeQueue, SyncRun, SaveThreads, Plans
  <2> QED
    BY <1>1, <2>3
<1>4. CASE RowsNext
  <2>1. channel' = channel
    BY <1>4 DEF RowsNext, RowsChange, AddDownloadTask, DeleteRows, ClearDownloadPendingTasks,
           ClearDownloadSuccessAndFailed, ClearExpireDownloadTasks, RetryFailedByUser
  <2> QED
    BY <1>1, <2>1
<1>5. CASE Crash
  BY <1>2, <1>5 DEF Crash
<1>6. ASSUME NEW w \in Worker, WorkerNext(w)
      PROVE  ~Claims
  <2>1. ASSUME NEW ch, Receive(w, ch)
        PROVE  ~Claims
    <3>1. CASE channel[ch].buffer # <<>> /\ channel' # channel
      <4>1. channel' = [channel EXCEPT ![ch].buffer = Tail(channel[ch].buffer)]
        BY <2>1, <3>1 DEF Receive
      <4>2. \A x \in 1..Len(channel) : x # ch => channel'[x] = channel[x]
        BY <4>1, RunningIsMade
      <4>3. ch \in 1..Len(channel) => /\ channel'[ch].buffer = Tail(channel[ch].buffer)
                                      /\ Len(channel[ch].buffer) # 0
        <5> SUFFICES ASSUME ch \in 1..Len(channel)
                     PROVE  /\ channel'[ch].buffer = Tail(channel[ch].buffer)
                            /\ Len(channel[ch].buffer) # 0
          OBVIOUS
        <5>1. channel[ch] \in ChannelType /\ channel[ch].buffer \in Seq(TaskCopy)
          BY ChannelFacts
        <5>2. channel'[ch].buffer = Tail(channel[ch].buffer)
          BY <4>1, <5>1, RunningIsMade DEF ChannelType
        <5>3. Len(channel[ch].buffer) # 0
          BY <3>1, <5>1
        <5> QED
          BY <5>2, <5>3
      <4> QED
        BY <4>2, <4>3, NoClaim
    <3>2. CASE channel[ch].buffer = <<>>
      BY <1>1, <2>1, <3>2 DEF Receive
    <3> QED
      BY <1>1, <3>1, <3>2
  <2>2. CASE Take(w) \/ Wake(w)
    BY <2>1, <2>2 DEF Take, Wake
  <2>3. CASE Check(w) \/ BeginDownload(w) \/ EndDownload(w)
    BY <1>1, <2>3 DEF Check, BeginDownload, EndDownload
  <2> QED
    BY <1>6, <2>2, <2>3 DEF WorkerNext
<1>7. ASSUME NEW s \in 1..MaxChannels, SchedulerNext(s)
      PROVE  ~Claims
  <2>1. ~Send(s)
    <3> SUFFICES ASSUME Send(s)
                 PROVE  FALSE
      OBVIOUS
    <3> DEFINE q == scheduler[s].queue
    <3>1. s \in DOMAIN scheduler /\ ~channel[queue[q].tasks].closed
      BY DEF Send, SchedulerAt, ChannelOf
    <3>2. Made(queue, q) /\ q \in 1..Len(queue)
      BY <3>1, SchedulerFacts
    <3>3. q = 1 /\ Len(queue) = 1 /\ queue # <<>>
      BY <3>2, TheQueue
    <3>4. ~queue[q].running
      BY <3>3 DEF GlobalRunning, Global
    <3> HIDE DEF q
    <3> QED
      BY <3>1, <3>2, <3>4 DEF PauseInv, Made
  <2>2. CASE SendOnClosed(s)
    BY <1>2, <2>2 DEF SendOnClosed
  <2>3. CASE Loop(s) \/ Tick(s) \/ CountPending(s) \/ CountDownloading(s) \/ RetryWhenIdle(s)
             \/ GetPendingDownloadTasks(s) \/ Mark(s)
    <3>1. channel' = channel
      BY <2>3 DEF Loop, Tick, CountPending, CountDownloading, RetryWhenIdle,
             GetPendingDownloadTasks, Mark
    <3> QED
      BY <1>1, <3>1
  <2> QED
    BY <1>7, <2>1, <2>2, <2>3 DEF SchedulerNext
<1> QED
  BY <1>3, <1>4, <1>5, <1>6, <1>7 DEF Next

\* Whatever number of pauses, resumes and syncs overlap on the one DQ of a life
\* of the process: once they are over and the queue is stopped, no scheduler
\* puts another task into the channel.
THEOREM PauseIsKept ==
  ASSUME OneQueue
  PROVE  Spec => PausedClaimsNothing
<1>1. Init => PauseInv
  <2>1. Init => queue = <<>> /\ Len(queue) = 0
    BY DEF Init
  <2> QED
    BY <2>1 DEF PauseInv
<1>2. TypeInv /\ PauseInv /\ [Next]_vars => PauseInv'
  BY PauseStep
<1>3. TypeInv /\ PauseInv /\ [Next]_vars => [PausedStep]_vars
  BY PausedStepHolds
<1> QED
  BY <1>1, <1>2, <1>3, TypeInvariance, PTL DEF Spec, PausedClaimsNothing
=============================================================================
