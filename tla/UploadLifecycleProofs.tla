------------------------ MODULE UploadLifecycleProofs ------------------------
(***************************************************************************)
(* Proofs that UploadQueue implements UploadLifecycle and orphans no row,  *)
(* for every set of tasks and goroutines and every value of the bounds.    *)
(***************************************************************************)
EXTENDS UploadQueueProofs

Finishing == {"finalize", "complete"}

\* PhaseOf for goroutines and a status that need not be the current ones.
Held(pool, t, pcs) == \E w \in Busy(pool) : pool[w].task = t /\ pool[w].pc \in pcs
PhaseIn(pool, r, t) ==
  IF Held(pool, t, Moving) THEN "transferring"
  ELSE IF Held(pool, t, Finishing) THEN "uploaded"
  ELSE PhaseOfRow(r)
Phases == [t \in Task |-> PhaseIn(worker, row[t], t)]

LEMMA PhasesAreAbstract ==
  /\ [t \in Task |-> PhaseOf(t)] = Phases
  /\ [t \in Task |-> PhaseOf(t)]' = Phases'
<1>1. \A t \in Task : PhaseOf(t) = PhaseIn(worker, row[t], t)
  BY DEF PhaseOf, PhaseIn, WorkedOn, Held, Moving, Finishing
<1>2. \A t \in Task : PhaseOf(t)' = PhaseIn(worker', row'[t], t)
  BY DEF PhaseOf, PhaseIn, WorkedOn, Held, Moving, Finishing, Busy
<1> QED
  BY <1>1, <1>2 DEF Phases

-----------------------------------------------------------------------------
(* The abstract actions, in terms of Phases.                               *)

AbstractStep == Lifecycle!Next \/ UNCHANGED Lifecycle!vars

LEMMA Stutters ==
  ASSUME Phases' = Phases, UNCHANGED retries
  PROVE  AbstractStep
BY PhasesAreAbstract DEF AbstractStep, Lifecycle!vars

\* One task moves.
Steps(t, p, q) ==
  /\ Phases[t] = p
  /\ Phases' = [Phases EXCEPT ![t] = q]
  /\ UNCHANGED retries

LEMMA OneMoves ==
  ASSUME NEW t \in Task,
         \/ \E q \in {"queued", "done"} : Steps(t, "none", q)
         \/ Steps(t, "queued", "transferring")
         \/ \E q \in {"uploaded", "failed", "cancelled"} : Steps(t, "transferring", q)
         \/ Steps(t, "uploaded", "done")
  PROVE  AbstractStep
BY PhasesAreAbstract DEF Steps, AbstractStep, Lifecycle!Next, Lifecycle!Create,
   Lifecycle!Begin, Lifecycle!Settle, Lifecycle!Finish

\* Each task moves or stays.
LEMMA ManyMove ==
  ASSUME Phases' \in [Task -> Lifecycle!Phase], UNCHANGED retries,
         \/ \A t \in Task : \/ Phases'[t] = Phases[t]
                            \/ /\ Phases[t] = "transferring"
                               /\ Phases'[t] \in {"lost", "queued", "gone"}
                            \/ Phases[t] = "uploaded" /\ Phases'[t] = "gone"
         \/ \A t \in Task : \/ Phases'[t] = Phases[t]
                            \/ Phases[t] = "lost" /\ Phases'[t] = "queued"
         \/ \A t \in Task : \/ Phases'[t] = Phases[t]
                            \/ Phases[t] \notin {"none", "transferring"} /\ Phases'[t] = "gone"
  PROVE  AbstractStep
BY PhasesAreAbstract DEF AbstractStep, Lifecycle!Next, Lifecycle!Interrupt, Lifecycle!Recover,
   Lifecycle!Forget, Lifecycle!Moves

\* Failed tasks with a retry left go back to the queue, one retry poorer.
LEMMA SomeRetry ==
  ASSUME Plain, NEW S \in SUBSET Task,
         \A t \in S : Phases[t] = "failed" /\ retries[t] < MaxRetry,
         Phases' = [t \in Task |-> IF t \in S THEN "queued" ELSE Phases[t]],
         retries' = [t \in Task |-> IF t \in S THEN retries[t] + 1 ELSE retries[t]]
  PROVE  AbstractStep
BY PhasesAreAbstract DEF AbstractStep, Lifecycle!Next, Lifecycle!Retry

LEMMA OneReplaces ==
  ASSUME NEW old \in Task, NEW t \in Task,
         Phases[t] = "none", Phases[old] = "failed",
         Phases' = [Phases EXCEPT ![t] = "queued", ![old] = "cancelled"],
         UNCHANGED retries
  PROVE  AbstractStep
BY PhasesAreAbstract DEF AbstractStep, Lifecycle!Next, Lifecycle!Replace

-----------------------------------------------------------------------------
(* Phases of rows and of goroutines.                                       *)

LEMMA RowPhases ==
  /\ PhaseOfRow(Unborn) = "none"
  /\ PhaseOfRow(Deleted) = "gone"
  /\ PhaseOfRow(Pending) = "queued"
  /\ PhaseOfRow(Uploading) = "lost"
  /\ PhaseOfRow(PendingFinalize) = "uploaded"
  /\ PhaseOfRow(Finalizing) = "uploaded"
  /\ PhaseOfRow(Completed) = "done"
  /\ PhaseOfRow(Failed) = "failed"
  /\ PhaseOfRow(Cancelled) = "cancelled"
BY DEF PhaseOfRow, Unborn, Deleted, Pending, Uploading, PendingFinalize, Finalizing,
   Completed, Failed, Cancelled

LEMMA PhaseRange ==
  ASSUME NEW pool, NEW t, NEW r \in Status \cup {Unborn, Deleted}
  PROVE  PhaseIn(pool, r, t) \in Lifecycle!Phase
<1>1. PhaseOfRow(r) \in Lifecycle!Phase
  BY RowPhases DEF Status, Active, Lifecycle!Phase
<1> QED
  BY <1>1 DEF PhaseIn, Lifecycle!Phase

\* Where a goroutine has not got its row yet, or is through with it.
Outside == {"idle", "claim", "claimFinalize", "exit"}

\* Slots change only from and to states outside any work on a row.
KeepsWork(pool, next) ==
  \A v \in Worker : next[v] = pool[v] \/ {pool[v].pc, next[v].pc} \subseteq Outside

LEMMA SameHeld ==
  ASSUME NEW pool, NEW next, KeepsWork(pool, next), NEW t, NEW pcs, pcs \cap Outside = {}
  PROVE  Held(next, t, pcs) <=> Held(pool, t, pcs)
<1>1. "idle" \notin pcs
  BY DEF Outside
<1>2. \A v \in Worker : \/ next[v] = pool[v]
                        \/ pool[v].pc \notin pcs /\ next[v].pc \notin pcs
  BY DEF KeepsWork
<1> QED
  BY <1>1, <1>2 DEF Held, Busy

\* Goroutines outside do not count.
LEMMA SamePhases ==
  ASSUME NEW pool, NEW next, KeepsWork(pool, next), NEW r, NEW t
  PROVE  PhaseIn(next, r, t) = PhaseIn(pool, r, t)
<1>1. Moving \cap Outside = {} /\ Finishing \cap Outside = {}
  BY DEF Moving, Finishing, Outside
<1> QED
  BY <1>1, SameHeld DEF PhaseIn

\* The phase a goroutine at pc gives its task.
PhaseAt(pc, r) ==
  IF pc \in Moving THEN "transferring"
  ELSE IF pc \in Finishing THEN "uploaded"
  ELSE PhaseOfRow(r)

-----------------------------------------------------------------------------
(* What a row can hold while its file is post-processed: start-up may have *)
(* put it back, a user or the daily job may have deleted it.               *)

InFinishing ==
  \A w \in Worker : worker[w].pc \in Finishing =>
                      row[worker[w].task] \in {PendingFinalize, Finalizing, Deleted}

\* The goroutine in slot w goes on at pc and touches no row but its own.
OwnStep(w, pc) ==
  /\ w \in Busy(worker)
  /\ pc \in WorkerPc \ {"idle"}
  /\ Goes(w, pc)
  /\ \A t \in Task \ {worker[w].task} : row'[t] = row[t]

LEMMA OwnStepFields ==
  ASSUME Core, NEW w, NEW pc, OwnStep(w, pc)
  PROVE  /\ w \in Worker
         /\ worker[w].task \in Task
         /\ worker'[w].pc = pc
         /\ worker'[w].task = worker[w].task
         /\ \A v \in Worker \ {w} : worker'[v] = worker[v]
         /\ Busy(worker') = Busy(worker)
         /\ OneEach(worker) /\ OneEach(worker')
<1>1. w \in Busy(worker) /\ w \in Worker /\ worker \in Pool /\ OneEach(worker)
  BY DEF OwnStep, Core, Consistent, Busy
<1>2. worker[w] \in BusyWorker /\ worker[w].task \in Task
  BY <1>1, PoolFields
<1>3. worker' = [worker EXCEPT ![w].pc = pc] /\ pc \in WorkerPc \ {"idle"}
  BY DEF OwnStep, Goes
<1>4. /\ worker'[w] = [worker[w] EXCEPT !.pc = pc]
      /\ \A v \in Worker \ {w} : worker'[v] = worker[v]
  BY <1>1, <1>3 DEF Pool
<1>5. Busy(worker') = Busy(worker) /\ OneEach(worker')
  BY <1>1, <1>3, GoesFields
<1> QED
  BY <1>1, <1>2, <1>4, <1>5 DEF BusyWorker

LEMMA InFinishingOwnStep ==
  ASSUME Core, InFinishing, NEW w, NEW pc, OwnStep(w, pc),
         pc \in Finishing =>
           row'[worker[w].task] \in {PendingFinalize, Finalizing, Deleted}
  PROVE  InFinishing'
<1>1. ASSUME NEW v \in Worker \ {w}, worker[v].pc \in Finishing
      PROVE  row'[worker[v].task] \in {PendingFinalize, Finalizing, Deleted}
  <2>1. v \in Busy(worker) /\ w \in Busy(worker)
    BY <1>1 DEF Finishing, Busy, OwnStep
  <2>2. worker[v].task \in Task /\ worker[v].task # worker[w].task
    BY <2>1, PoolFields DEF Core, Consistent, OneEach
  <2> QED
    BY <1>1, <2>2 DEF InFinishing, OwnStep
<1> QED
  BY <1>1, OwnStepFields DEF InFinishing

\* The step lets each goroutine that has begun with a row stand where it is.
OthersIdle == KeepsWork(worker, worker')

\* Dispatch fills free slots only.
LEMMA DispatchFree ==
  ASSUME NEW chan, NEW act, NEW pool, StartWorkersLocked(chan, act, pool), NEW v \in Worker
  PROVE  \/ worker'[v] = pool[v]
         \/ /\ pool[v].pc = "idle"
            /\ worker'[v].pc \in {"claim", "claimFinalize"}
<1>1. PICK slot \in Injection(1..Starts(chan, act), Worker \ Busy(pool)) :
        worker' = Filled(pool, slot, Starts(chan, act), chan)
  BY DispatchStep
<1>2. \A i \in 1..Starts(chan, act) : slot[i] \in Worker \ Busy(pool)
  BY DEF Injection
<1>3. CASE v \in Busy(pool)
  BY <1>1, <1>2, <1>3, FilledOld
<1>4. CASE v \notin Busy(pool)
  BY <1>4, DispatchNew DEF Busy
<1> QED
  BY <1>3, <1>4

LEMMA DispatchIdle ==
  ASSUME NEW chan, NEW act, NEW pool, StartWorkersLocked(chan, act, pool),
         \A v \in Worker : \/ pool[v] = worker[v]
                           \/ worker[v].pc = "exit" /\ pool[v].pc = "idle"
  PROVE  OthersIdle
BY DispatchFree DEF OthersIdle, KeepsWork, Outside

\* The end of a goroutine and the rounds of a scheduler change no goroutine
\* that moves or post-processes a file.
LEMMA ExitIsIdle ==
  ASSUME Core, NEW w \in Worker, WorkerExit(w)
  PROVE  OthersIdle /\ UNCHANGED <<row, retries>>
<1> DEFINE pool == [worker EXCEPT ![w] = IdleWorker]
<1>1. StartWorkersLocked(tasks, active - 1, pool) /\ worker[w].pc = "exit"
  BY DEF WorkerExit
<1>2. \A v \in Worker : \/ pool[v] = worker[v]
                        \/ worker[v].pc = "exit" /\ pool[v].pc = "idle"
  BY <1>1 DEF Core, Consistent, Pool, IdleWorker
<1> HIDE DEF pool
<1> QED
  BY <1>1, <1>2, DispatchIdle DEF WorkerExit

LEMMA SchedulerIsIdle ==
  ASSUME NEW g \in Generation, SchedulerNext(g)
  PROVE  /\ OthersIdle
         /\ \/ UNCHANGED <<row, retries>>
            \/ RetryFailedUploadTasks /\ UNCHANGED worker
<1>0. UNCHANGED worker => OthersIdle
  BY DEF OthersIdle, KeepsWork
<1>1. CASE Tick(g)
  BY <1>1, DispatchIdle DEF Tick
<1>2. CASE Push(g)
  <2>1. UNCHANGED worker \/ \E chan : StartWorkersLocked(chan, active, worker)
    BY <1>2 DEF Push
  <2>2. OthersIdle
    BY <2>1, <1>0, DispatchIdle
  <2> QED
    BY <1>2, <2>2 DEF Push
<1>3. CASE RetryWhenIdle(g)
  BY <1>3, <1>0 DEF RetryWhenIdle
<1>4. CASE ~Tick(g) /\ ~Push(g) /\ ~RetryWhenIdle(g)
  BY <1>0, <1>4 DEF SchedulerNext, SchedulerStops, CountClaimable, CountUploading,
     EnterIdle, GetPendingUploadTasks, SchedulerDbError, SchedulerReads
<1> QED
  BY <1>1, <1>2, <1>3, <1>4

\* A goroutine's statement: where it stood, where it goes on, and what became
\* of the row of its task.
Statement(w, pc) ==
  LET was == worker[w].pc
      old == row[worker[w].task]
      new == row'[worker[w].task]
  IN  \/ was = "claim" /\ pc = "transfer" /\ old = Pending /\ new = Uploading
      \/ was \in {"claim", "claimFinalize", "revert"} /\ pc = "exit" /\ new = old
      \/ was = "transfer" /\ pc \in {"fail", "cancel", "markUploaded"} /\ new = old
      \/ was = "fail" /\ pc = "exit" /\ new = Failed
      \/ was = "cancel" /\ pc = "exit" /\ new = Cancelled
      \/ was = "markUploaded" /\ pc = "claimFinalize" /\ new = PendingFinalize
      \/ was \in {"fail", "cancel", "markUploaded"} /\ pc = "exit" /\ new = old
      \/ was = "claimFinalize" /\ pc = "finalize" /\ old = PendingFinalize /\ new = Finalizing
      \/ was = "finalize" /\ pc \in {"complete", "revert"} /\ new = old
      \/ was = "complete" /\ pc = "exit" /\ new = Completed
      \/ was = "complete" /\ pc = "revert" /\ new = old
      \/ was = "revert" /\ pc = "exit" /\ old = Finalizing /\ new = PendingFinalize

LEMMA WorkerStatement ==
  ASSUME Plain, Core, NEW w \in Worker, WorkerNext(w), ~WorkerExit(w)
  PROVE  UNCHANGED retries /\ \E pc : OwnStep(w, pc) /\ Statement(w, pc)
<1> DEFINE t == worker[w].task
<1>1. w \in Busy(worker) /\ UNCHANGED retries
  BY DEF WorkerNext, ClaimPendingUpload, Transfer, SaveOutcome, SaveRefused,
     ClaimRemoteCompletedFinalize, FinalizeRemoteCompletedUpload, FinalizeError,
     Complete, RevertRemoteCompletedFinalizing, WorkerDbError, WorkerStep, Busy
<1>2. t \in Task
  BY <1>1, PoolFields DEF Core, Consistent
<1>3. row = [u \in Task |-> row[u]]
  BY DEF Plain
<1>4. CASE \E from, to, pcWon : /\ ConditionalUpdate(w, from, to, pcWon, "exit")
                                /\ pcWon \in {"transfer", "finalize", "exit"}
                                /\ \/ worker[w].pc = "claim" /\ from = Pending
                                      /\ to = Uploading /\ pcWon = "transfer"
                                   \/ worker[w].pc = "claimFinalize" /\ from = PendingFinalize
                                      /\ to = Finalizing /\ pcWon = "finalize"
                                   \/ worker[w].pc = "revert" /\ from = Finalizing
                                      /\ to = PendingFinalize /\ pcWon = "exit"
  BY <1>1, <1>2, <1>3, <1>4 DEF ConditionalUpdate, OwnStep, Statement, WorkerPc
<1>5. CASE ClaimPendingUpload(w) \/ ClaimRemoteCompletedFinalize(w)
             \/ RevertRemoteCompletedFinalizing(w)
  BY <1>4, <1>5 DEF ClaimPendingUpload, ClaimRemoteCompletedFinalize,
     RevertRemoteCompletedFinalizing, WorkerStep
<1>6. CASE Transfer(w) \/ FinalizeRemoteCompletedUpload(w) \/ FinalizeError(w)
  BY <1>1, <1>6 DEF Transfer, FinalizeRemoteCompletedUpload, FinalizeError, WorkerStep,
     OwnStep, Statement, WorkerPc
<1>7. CASE \E pc \in {"fail", "cancel", "markUploaded"} : SaveOutcome(w, pc)
  <2>1. PICK pc \in {"fail", "cancel", "markUploaded"} : SaveOutcome(w, pc)
    BY <1>7
  <2>2. /\ worker[w].pc = pc
        /\ Goes(w, IF pc = "markUploaded" THEN "claimFinalize" ELSE "exit")
        /\ row'[t] = Outcome(pc)
        /\ \A u \in Task \ {t} : row'[u] = row[u]
    BY <2>1, <1>2, <1>3 DEF SaveOutcome, WorkerStep
  <2>3. CASE pc = "markUploaded"
    BY <2>2, <2>3, <1>1 DEF Outcome, OwnStep, Statement, WorkerPc
  <2>4. CASE pc # "markUploaded"
    BY <2>1, <2>2, <2>4, <1>1 DEF Outcome, OwnStep, Statement, WorkerPc
  <2> QED
    BY <2>3, <2>4
<1>8. CASE \E pc \in {"fail", "cancel", "markUploaded"} : SaveRefused(w, pc)
  BY <1>1, <1>8 DEF SaveRefused, WorkerStep, OwnStep, Statement, WorkerPc
<1>9. CASE Complete(w)
  <2>1. /\ worker[w].pc = "complete" /\ Goes(w, "exit")
        /\ row'[t] = Completed
        /\ \A u \in Task \ {t} : row'[u] = row[u]
    BY <1>9, <1>2, <1>3 DEF Complete, WorkerStep
  <2> QED
    BY <2>1, <1>1 DEF OwnStep, Statement, WorkerPc
<1>10. CASE WorkerDbError(w)
  <2>1. PICK pc \in {"claim", "fail", "cancel", "markUploaded", "claimFinalize",
                     "complete", "revert"} :
          /\ worker[w].pc = pc
          /\ Goes(w, IF pc = "complete" THEN "revert" ELSE "exit")
          /\ UNCHANGED row
    BY <1>10 DEF WorkerDbError, WorkerStep
  <2>2. CASE pc = "complete"
    BY <2>1, <2>2, <1>1 DEF OwnStep, Statement, WorkerPc
  <2>3. CASE pc # "complete"
    BY <2>1, <2>3, <1>1 DEF OwnStep, Statement, WorkerPc
  <2> QED
    BY <2>2, <2>3
<1> QED
  BY <1>5, <1>6, <1>7, <1>8, <1>9, <1>10 DEF WorkerNext

LEMMA InFinishingIdle ==
  ASSUME InFinishing, OthersIdle, UNCHANGED row
  PROVE  InFinishing'
BY DEF InFinishing, OthersIdle, KeepsWork, Outside, Finishing

LEMMA InFinishingRows ==
  ASSUME Core, InFinishing, UNCHANGED worker,
         \A t \in Task : row[t] \in {PendingFinalize, Finalizing, Deleted} =>
                           row'[t] \in {PendingFinalize, Finalizing, Deleted}
  PROVE  InFinishing'
<1>1. \A w \in Worker : worker[w].pc \in Finishing => worker[w].task \in Task
  BY PoolFields DEF Core, Consistent, Busy, Finishing
<1> QED
  BY <1>1 DEF InFinishing

\* The goroutine's own step leaves alone who holds another task.
LEMMA OwnStepHeld ==
  ASSUME Core, NEW w, NEW pc, OwnStep(w, pc)
  PROVE  LET t == worker[w].task
         IN  /\ \A pcs : Held(worker, t, pcs) <=> worker[w].pc \in pcs
             /\ \A pcs : Held(worker', t, pcs) <=> pc \in pcs
             /\ \A u \in Task \ {t} :
                  \A pcs : Held(worker', u, pcs) <=> Held(worker, u, pcs)
<1> DEFINE t == worker[w].task
<1>1. /\ w \in Busy(worker)
      /\ worker'[w].task = t /\ worker'[w].pc = pc
      /\ OneEach(worker) /\ OneEach(worker')
      /\ Busy(worker') = Busy(worker)
      /\ \A v \in Worker \ {w} : worker'[v] = worker[v]
  BY OwnStepFields DEF OwnStep
<1>2. \A pcs : Held(worker, t, pcs) <=> worker[w].pc \in pcs
  BY <1>1 DEF Held, OneEach
<1>3. \A pcs : Held(worker', t, pcs) <=> pc \in pcs
  BY <1>1 DEF Held, OneEach
<1>4. ASSUME NEW u \in Task \ {t}
      PROVE  \A pcs : Held(worker', u, pcs) <=> Held(worker, u, pcs)
  <2>1. \A v \in Busy(worker) : v = w \/ worker'[v] = worker[v]
    BY <1>1 DEF Busy
  <2> QED
    BY <1>1, <2>1 DEF Held
<1> QED
  BY <1>2, <1>3, <1>4

\* The phase of its own task changes as its statement says, no other.
LEMMA OwnStepPhases ==
  ASSUME Plain, Core, NEW w, NEW pc, OwnStep(w, pc)
  PROVE  LET t == worker[w].task
         IN  /\ t \in Task
             /\ Phases[t] = PhaseAt(worker[w].pc, row[t])
             /\ Phases' = [Phases EXCEPT ![t] = PhaseAt(pc, row'[t])]
<1> DEFINE t == worker[w].task
<1>1. t \in Task
  BY OwnStepFields
<1>2. Phases[t] = PhaseAt(worker[w].pc, row[t])
  BY <1>1, OwnStepHeld DEF Phases, PhaseIn, PhaseAt
<1>3. Phases'[t] = PhaseAt(pc, row'[t])
  BY <1>1, OwnStepHeld DEF Phases, PhaseIn, PhaseAt
<1>4. ASSUME NEW u \in Task \ {t}
      PROVE  Phases'[u] = Phases[u]
  <2>1. row'[u] = row[u]
    BY DEF OwnStep
  <2> QED
    BY <2>1, OwnStepHeld DEF Phases, PhaseIn
<1> QED
  BY <1>1, <1>2, <1>3, <1>4 DEF Phases

\* One task's transfer breaks off and leaves the row as it is.
LEMMA OneInterrupted ==
  ASSUME Plain, NEW t \in Task, NEW q, UNCHANGED retries,
         Phases' = [Phases EXCEPT ![t] = q],
         \/ Phases[t] = "transferring" /\ q \in {"lost", "queued", "gone"}
         \/ Phases[t] = "uploaded" /\ q = "gone"
  PROVE  AbstractStep
<1>1. Phases \in [Task -> Lifecycle!Phase]
  BY PhaseRange DEF Phases, Plain
<1>2. Phases' \in [Task -> Lifecycle!Phase]
  BY <1>1 DEF Lifecycle!Phase
<1>3. \A u \in Task : \/ Phases'[u] = Phases[u]
                      \/ /\ Phases[u] = "transferring"
                         /\ Phases'[u] \in {"lost", "queued", "gone"}
                      \/ Phases[u] = "uploaded" /\ Phases'[u] = "gone"
  BY <1>1
<1> QED
  BY <1>2, <1>3, ManyMove

LEMMA WorkerImplements ==
  ASSUME Plain, Core, InTransfer, InFinishing, NEW w \in Worker, WorkerNext(w)
  PROVE  AbstractStep /\ InFinishing'
<1> DEFINE t == worker[w].task
<1>1. CASE WorkerExit(w)
  <2>1. OthersIdle /\ UNCHANGED <<row, retries>>
    BY <1>1, ExitIsIdle
  <2>2. Phases' = Phases
    BY <2>1, SamePhases DEF OthersIdle, Phases
  <2> QED
    BY <2>1, <2>2, Stutters, InFinishingIdle
<1>2. CASE ~WorkerExit(w)
  <2>1. UNCHANGED retries
    BY <1>2, WorkerStatement
  <2>2. PICK pc : OwnStep(w, pc) /\ Statement(w, pc)
    BY <1>2, WorkerStatement
  <2> DEFINE p == PhaseAt(worker[w].pc, row[t])
             q == PhaseAt(pc, row'[t])
  <2>3. t \in Task /\ Phases[t] = p /\ Phases' = [Phases EXCEPT ![t] = q]
    BY <2>2, OwnStepPhases
  <2>4. worker[w].pc \in Moving => row[t] \in {Uploading, Pending, Deleted}
    BY DEF InTransfer
  <2>5. worker[w].pc \in Finishing => row[t] \in {PendingFinalize, Finalizing, Deleted}
    BY DEF InFinishing
  <2>6. InFinishing'
    <3>1. pc \in Finishing => row'[t] \in {PendingFinalize, Finalizing, Deleted}
      BY <2>2, <2>5 DEF Statement, Finishing
    <3> QED
      BY <2>2, <3>1, InFinishingOwnStep
  <2>7. \/ p = q
        \/ p = "queued" /\ q = "transferring"
        \/ p = "transferring" /\ q \in {"uploaded", "failed", "cancelled"}
        \/ p = "uploaded" /\ q = "done"
        \/ p = "transferring" /\ q \in {"lost", "queued", "gone"}
        \/ p = "uploaded" /\ q = "gone"
    BY <2>2, <2>4, <2>5, RowPhases DEF Statement, PhaseAt, Moving, Finishing
  <2> HIDE DEF p, q
  <2>8. CASE p = q
    <3>1. Phases' = Phases
      BY <2>3, <2>8 DEF Phases
    <3> QED
      BY <2>1, <2>6, <3>1, Stutters
  <2>9. CASE \/ p = "queued" /\ q = "transferring"
             \/ p = "transferring" /\ q \in {"uploaded", "failed", "cancelled"}
             \/ p = "uploaded" /\ q = "done"
    BY <2>1, <2>3, <2>6, <2>9, OneMoves DEF Steps
  <2>10. CASE \/ p = "transferring" /\ q \in {"lost", "queued", "gone"}
              \/ p = "uploaded" /\ q = "gone"
    BY <2>1, <2>3, <2>6, <2>10, OneInterrupted
  <2> QED
    BY <2>7, <2>8, <2>9, <2>10
<1> QED
  BY <1>1, <1>2

-----------------------------------------------------------------------------
(* Rows that change under running goroutines, and the crash.               *)

\* The row of a task counts unless its goroutine knows better.
LEMMA PhaseOrRow ==
  ASSUME NEW pool, NEW t
  PROVE  \/ \A r : PhaseIn(pool, r, t) = "transferring"
         \/ \A r : PhaseIn(pool, r, t) = "uploaded"
         \/ \A r : PhaseIn(pool, r, t) = PhaseOfRow(r)
BY DEF PhaseIn

\* Nobody moves or post-processes the file of a row of these statuses.
LEMMA PhaseOfFree ==
  ASSUME Plain, Core, InTransfer, InFinishing, NEW t \in Task,
         row[t] \in {Unborn, Failed, Completed, Cancelled}
  PROVE  \A r : PhaseIn(worker, r, t) = PhaseOfRow(r)
<1>1. row[t] \notin {Uploading, Pending, PendingFinalize, Finalizing, Deleted}
  BY DEF Unborn, Failed, Completed, Cancelled, Uploading, Pending, PendingFinalize,
     Finalizing, Deleted
<1>2. ~Held(worker, t, Moving) /\ ~Held(worker, t, Finishing)
  BY <1>1 DEF Held, Busy, InTransfer, InFinishing
<1> QED
  BY <1>2 DEF PhaseIn

LEMMA PhasesRange ==
  ASSUME Plain
  PROVE  Phases \in [Task -> Lifecycle!Phase]
BY PhaseRange DEF Phases, Plain

\* A handler that hands out one id.
LEMMA BirthImplements ==
  ASSUME Plain, Core, InTransfer, InFinishing, UNCHANGED worker, NEW t \in Task,
         \/ AddUploadTask(t)
         \/ AddRemoteExistsUploadTask(t)
  PROVE  AbstractStep
<1>1. PICK s \in {Pending, Completed} : row' = [row EXCEPT ![t] = s]
  BY DEF AddUploadTask, AddRemoteExistsUploadTask
<1>2. row[t] = Unborn /\ UNCHANGED retries
  BY DEF AddUploadTask, AddRemoteExistsUploadTask
<1>3. \A r : PhaseIn(worker, r, t) = PhaseOfRow(r)
  BY <1>2, PhaseOfFree
<1>4. Phases[t] = "none"
  BY <1>2, <1>3, RowPhases DEF Phases
<1>5. Phases' = [Phases EXCEPT ![t] = PhaseOfRow(s)]
  BY <1>1, <1>3 DEF Phases, Plain
<1>6. PhaseOfRow(s) \in {"queued", "done"}
  BY RowPhases
<1> QED
  BY <1>2, <1>4, <1>5, <1>6, OneMoves DEF Steps

LEMMA SupersedeImplements ==
  ASSUME Plain, Core, InTransfer, InFinishing, NEW old \in Task, NEW t \in Task,
         SupersedeFailedUploadTask(old, t)
  PROVE  AbstractStep
<1>1. /\ row' = [row EXCEPT ![t] = Pending, ![old] = Cancelled]
      /\ row[t] = Unborn /\ row[old] = Failed
      /\ UNCHANGED <<worker, retries>>
  BY DEF SupersedeFailedUploadTask, RowsChange
<1>2. /\ \A r : PhaseIn(worker, r, t) = PhaseOfRow(r)
      /\ \A r : PhaseIn(worker, r, old) = PhaseOfRow(r)
  BY <1>1, PhaseOfFree
<1>3. t # old
  BY <1>1 DEF Unborn, Failed
<1>4. Phases[t] = "none" /\ Phases[old] = "failed"
  BY <1>1, <1>2, RowPhases DEF Phases
<1>5. /\ row'[t] = Pending /\ row'[old] = Cancelled
      /\ \A u \in Task \ {t, old} : row'[u] = row[u]
  BY <1>1, <1>3 DEF Plain
<1>6. Phases'[t] = "queued" /\ Phases'[old] = "cancelled"
  BY <1>1, <1>2, <1>5, RowPhases DEF Phases
<1>7. \A u \in Task \ {t, old} : Phases'[u] = Phases[u]
  <2>1. UNCHANGED worker
    BY <1>1
  <2> QED
    BY <1>5, <2>1 DEF Phases
<1>8. Phases' = [Phases EXCEPT ![t] = "queued", ![old] = "cancelled"]
  BY <1>3, <1>6, <1>7 DEF Phases
<1> QED
  BY <1>1, <1>4, <1>8, OneReplaces

\* Deleting rows, whatever goroutines work on them.
LEMMA DeleteImplements ==
  ASSUME Plain, Plain', NEW doomed \in SUBSET Task, DeleteRows(doomed),
         \A t \in doomed : row[t] # Unborn
  PROVE  AbstractStep
<1>1. /\ \A t \in Task : row'[t] = IF t \in doomed THEN Deleted ELSE row[t]
      /\ UNCHANGED <<worker, retries>>
  BY DEF DeleteRows, RowsChange
<1>2. ASSUME NEW t \in Task
      PROVE  \/ Phases'[t] = Phases[t]
             \/ Phases[t] \notin {"none", "transferring"} /\ Phases'[t] = "gone"
  <2>1. CASE t \notin doomed
    BY <1>1, <2>1 DEF Phases
  <2>2. CASE t \in doomed
    <3>1. PhaseOfRow(row[t]) \notin {"none", "transferring"}
      BY <2>2, RowPhases DEF Plain, Status, Active
    <3> QED
      BY <1>1, <2>2, <3>1, PhaseOrRow, RowPhases DEF Phases
  <2> QED
    BY <2>1, <2>2
<1>3. Phases' \in [Task -> Lifecycle!Phase]
  BY PhaseRange DEF Phases, Plain
<1> QED
  BY <1>1, <1>2, <1>3, ManyMove

LEMMA RetryImplements ==
  ASSUME Plain, Core, InTransfer, InFinishing, RetryFailedUploadTasks, UNCHANGED worker
  PROVE  AbstractStep
<1>1. \A t \in Retried : t \in Task /\ row[t] = Failed /\ retries[t] < MaxRetry
  BY DEF Retried, Retriable
<1>2. \A t \in Task : row'[t] = IF t \in Retried THEN Pending ELSE row[t]
  BY DEF RetryFailedUploadTasks
<1>3. \A t \in Retried : \A r : PhaseIn(worker, r, t) = PhaseOfRow(r)
  BY <1>1, PhaseOfFree
<1>4. \A t \in Retried : Phases[t] = "failed" /\ Phases'[t] = "queued"
  BY <1>1, <1>2, <1>3, RowPhases DEF Phases
<1>5. \A t \in Task \ Retried : Phases'[t] = Phases[t]
  BY <1>2 DEF Phases
<1>6. Phases' = [t \in Task |-> IF t \in Retried THEN "queued" ELSE Phases[t]]
  BY <1>4, <1>5 DEF Phases
<1>7. retries' = [t \in Task |-> IF t \in Retried THEN retries[t] + 1 ELSE retries[t]]
  BY DEF RetryFailedUploadTasks
<1>8. Retried \in SUBSET Task
  BY <1>1
<1> QED
  BY <1>1, <1>4, <1>6, <1>7, <1>8, SomeRetry

\* Start-up finds rows of the process before, and rows of its own goroutines.
LEMMA StartupImplements ==
  ASSUME Plain, Plain', Startup
  PROVE  AbstractStep
<1>1. UNCHANGED <<worker, retries>>
  BY DEF Startup, ResetUploading, ResetFinalizing, ResetError
<1>2. CASE ResetUploading
  <2>1. \A t \in Task : row'[t] = IF row[t] = Uploading THEN Pending ELSE row[t]
    BY <1>2 DEF ResetUploading
  <2>2. \A t \in Task : \/ Phases'[t] = Phases[t]
                        \/ Phases[t] = "lost" /\ Phases'[t] = "queued"
    BY <1>1, <2>1, PhaseOrRow, RowPhases DEF Phases
  <2>3. Phases' \in [Task -> Lifecycle!Phase]
    BY PhaseRange DEF Phases, Plain
  <2> QED
    BY <1>1, <2>2, <2>3, ManyMove
<1>3. CASE ResetFinalizing
  <2>1. \A t \in Task : row'[t] = IF row[t] = Finalizing THEN PendingFinalize ELSE row[t]
    BY <1>3 DEF ResetFinalizing
  <2>2. \A t \in Task : Phases'[t] = Phases[t]
    BY <1>1, <2>1, PhaseOrRow, RowPhases DEF Phases
  <2>3. Phases' = Phases
    BY <2>2 DEF Phases
  <2> QED
    BY <1>1, <2>3, Stutters
<1>4. CASE ResetError
  <2>1. Phases' = Phases
    BY <1>1, <1>4 DEF ResetError, Phases
  <2> QED
    BY <1>1, <2>1, Stutters
<1> QED
  BY <1>2, <1>3, <1>4 DEF Startup

\* Transfers and post-processing break off, the rows stay.
LEMMA CrashImplements ==
  ASSUME Plain, Plain', Core, InTransfer, InFinishing, Crash
  PROVE  AbstractStep
<1>1. /\ \A w \in Worker : worker'[w].pc = "idle"
      /\ UNCHANGED <<row, retries>>
  BY DEF Crash, IdleWorker
<1>2. \A t \in Task : Phases'[t] = PhaseOfRow(row[t])
  BY <1>1 DEF Phases, PhaseIn, Held, Busy
<1>3. ASSUME NEW t \in Task
      PROVE  \/ Phases'[t] = Phases[t]
             \/ Phases[t] = "transferring" /\ Phases'[t] \in {"lost", "queued", "gone"}
             \/ Phases[t] = "uploaded" /\ Phases'[t] = "gone"
  <2>1. CASE Held(worker, t, Moving)
    <3>1. row[t] \in {Uploading, Pending, Deleted}
      BY <2>1 DEF Held, Busy, InTransfer
    <3> QED
      BY <1>2, <2>1, <3>1, RowPhases DEF Phases, PhaseIn
  <2>2. CASE ~Held(worker, t, Moving) /\ Held(worker, t, Finishing)
    <3>1. row[t] \in {PendingFinalize, Finalizing, Deleted}
      BY <2>2 DEF Held, Busy, InFinishing
    <3> QED
      BY <1>2, <2>2, <3>1, RowPhases DEF Phases, PhaseIn
  <2>3. CASE ~Held(worker, t, Moving) /\ ~Held(worker, t, Finishing)
    BY <1>2, <2>3 DEF Phases, PhaseIn
  <2> QED
    BY <2>1, <2>2, <2>3
<1>4. Phases' \in [Task -> Lifecycle!Phase]
  BY PhaseRange DEF Phases, Plain
<1> QED
  BY <1>1, <1>3, <1>4, ManyMove

-----------------------------------------------------------------------------
(* The whole step, and the theorem.                                        *)

LEMMA InFinishingStep ==
  ASSUME Plain, Core, InTransfer, InFinishing, [Next]_vars
  PROVE  InFinishing'
<1>0. UNCHANGED <<row, worker>> => InFinishing'
  BY DEF InFinishing
<1>1. CASE InitUQ \/ Start \/ Stop \/ \E n \in 1..MaxThreads : UpdateConcurrency(n)
  BY <1>0, <1>1 DEF InitUQ, Start, Stop, UpdateConcurrency
<1>2. CASE Startup
  <2>1. \A t \in Task : row[t] \in {PendingFinalize, Finalizing, Deleted} =>
                          row'[t] \in {PendingFinalize, Finalizing, Deleted}
    BY <1>2 DEF Startup, ResetUploading, ResetFinalizing, ResetError, Uploading,
         PendingFinalize, Finalizing, Deleted
  <2> QED
    BY <1>2, <2>1, InFinishingRows DEF Startup, ResetUploading, ResetFinalizing, ResetError
<1>3. CASE \/ \E t \in Task : AddUploadTask(t) \/ AddRemoteExistsUploadTask(t)
           \/ \E old, t \in Task : SupersedeFailedUploadTask(old, t)
  <2>1. \A t \in Task : row[t] \in {PendingFinalize, Finalizing, Deleted} =>
                          row'[t] \in {PendingFinalize, Finalizing, Deleted}
    BY <1>3 DEF AddUploadTask, AddRemoteExistsUploadTask, SupersedeFailedUploadTask,
         Plain, PendingFinalize, Finalizing, Deleted, Unborn, Failed
  <2> QED
    BY <1>3, <2>1, InFinishingRows DEF AddUploadTask, AddRemoteExistsUploadTask,
       SupersedeFailedUploadTask, RowsChange
<1>4. CASE ClearPendingUploadTasks \/ ClearUploadSuccessAndFailed
             \/ \E last \in Task : ClearExpireUploadTasks(last)
  <2>1. \A t \in Task : row[t] \in {PendingFinalize, Finalizing, Deleted} =>
                          row'[t] \in {PendingFinalize, Finalizing, Deleted}
    BY <1>4 DEF ClearPendingUploadTasks, ClearUploadSuccessAndFailed,
         ClearExpireUploadTasks, DeleteRows
  <2> QED
    BY <1>4, <2>1, InFinishingRows DEF ClearPendingUploadTasks, ClearUploadSuccessAndFailed,
       ClearExpireUploadTasks, DeleteRows, RowsChange
<1>5. ASSUME RetryFailedUploadTasks, UNCHANGED worker
      PROVE  InFinishing'
  <2>1. \A t \in Task : row[t] \in {PendingFinalize, Finalizing, Deleted} =>
                          row'[t] \in {PendingFinalize, Finalizing, Deleted}
    BY <1>5 DEF RetryFailedUploadTasks, Retried, Retriable, Failed, PendingFinalize,
         Finalizing, Deleted
  <2> QED
    BY <1>5, <2>1, InFinishingRows
<1>6. CASE RetryFailedByUser
  BY <1>5, <1>6 DEF RetryFailedByUser
<1>7. CASE Crash
  BY <1>7 DEF Crash, InFinishing, IdleWorker, Finishing
<1>8. ASSUME NEW w \in Worker, WorkerNext(w)
      PROVE  InFinishing'
  BY <1>8, WorkerImplements
<1>9. ASSUME NEW g \in Generation, SchedulerNext(g)
      PROVE  InFinishing'
  BY <1>5, <1>9, SchedulerIsIdle, InFinishingIdle
<1>10. CASE UNCHANGED vars
  BY <1>0, <1>10 DEF vars
<1> QED
  BY <1>1, <1>2, <1>3, <1>4, <1>6, <1>7, <1>8, <1>9, <1>10 DEF Next, Operator

LEMMA InFinishingInvariance == Spec => []InFinishing
<1>1. Init => InFinishing
  BY DEF Init, InFinishing, IdleWorker, Finishing
<1>2. IInv /\ InTransfer /\ InFinishing /\ [Next]_vars => InFinishing'
  BY InFinishingStep DEF IInv
<1> QED
  BY Invariance, InTransferInvariance, <1>1, <1>2, PTL DEF Spec

LEMMA StepImplements ==
  ASSUME Plain, Plain', Core, InTransfer, InFinishing, [Next]_vars
  PROVE  AbstractStep
<1>0. UNCHANGED <<row, worker, retries>> => AbstractStep
  BY Stutters DEF Phases
<1>1. CASE InitUQ \/ Start \/ Stop \/ \E n \in 1..MaxThreads : UpdateConcurrency(n)
  BY <1>0, <1>1 DEF InitUQ, Start, Stop, UpdateConcurrency
<1>2. CASE Startup
  BY <1>2, StartupImplements
<1>3. CASE \E t \in Task : AddUploadTask(t) \/ AddRemoteExistsUploadTask(t)
  BY <1>3, BirthImplements DEF AddUploadTask, AddRemoteExistsUploadTask, RowsChange
<1>4. CASE \E old, t \in Task : SupersedeFailedUploadTask(old, t)
  BY <1>4, SupersedeImplements
<1>5. CASE ClearPendingUploadTasks \/ ClearUploadSuccessAndFailed
             \/ \E last \in Task : ClearExpireUploadTasks(last)
  <2>1. PICK doomed \in SUBSET Task : /\ DeleteRows(doomed)
                                      /\ \A t \in doomed : row[t] # Unborn
    <3>1. CASE ClearPendingUploadTasks
      BY <3>1 DEF ClearPendingUploadTasks, Pending, Unborn
    <3>2. CASE ClearUploadSuccessAndFailed
      BY <3>2 DEF ClearUploadSuccessAndFailed, Completed, Failed, Unborn
    <3>3. CASE \E last \in Task : ClearExpireUploadTasks(last)
      BY <3>3 DEF ClearExpireUploadTasks
    <3> QED
      BY <1>5, <3>1, <3>2, <3>3
  <2> QED
    BY <2>1, DeleteImplements
<1>6. CASE RetryFailedByUser
  BY <1>6, RetryImplements DEF RetryFailedByUser
<1>7. CASE Crash
  BY <1>7, CrashImplements
<1>8. ASSUME NEW w \in Worker, WorkerNext(w)
      PROVE  AbstractStep
  BY <1>8, WorkerImplements
<1>9. ASSUME NEW g \in Generation, SchedulerNext(g)
      PROVE  AbstractStep
  <2>1. CASE OthersIdle /\ UNCHANGED <<row, retries>>
    <3>1. Phases' = Phases
      BY <2>1, SamePhases DEF OthersIdle, Phases
    <3> QED
      BY <2>1, <3>1, Stutters
  <2>2. CASE RetryFailedUploadTasks /\ UNCHANGED worker
    BY <2>2, RetryImplements
  <2> QED
    BY <1>9, <2>1, <2>2, SchedulerIsIdle
<1>10. CASE UNCHANGED vars
  BY <1>0, <1>10 DEF vars
<1> QED
  BY <1>1, <1>2, <1>3, <1>4, <1>5, <1>6, <1>7, <1>8, <1>9, <1>10 DEF Next, Operator

\* Whatever the schedulers, the goroutines, the operators, failing statements and
\* crashes do, each task runs through the phases of its life cycle: a transfer
\* starts from a queued task only, a failed task is retried at most MaxRetry times,
\* and a done or cancelled task can only be deleted (upload.go, dbupload.go).
THEOREM QueueImplementsLifecycle == Spec => ImplementsLifecycle
<1>1. Init => Lifecycle!Init
  <2> SUFFICES ASSUME Init PROVE Lifecycle!Init
    OBVIOUS
  <2>1. \A t \in Task : ~Held(worker, t, Moving) /\ ~Held(worker, t, Finishing)
    BY DEF Init, Held, Busy, IdleWorker
  <2>2. Phases = [t \in Task |-> "none"]
    BY <2>1, RowPhases DEF Phases, PhaseIn, Init
  <2> QED
    BY <2>2, PhasesAreAbstract DEF Lifecycle!Init, Init
<1>2. Plain /\ Plain' /\ Core /\ InTransfer /\ InFinishing /\ [Next]_vars =>
        [Lifecycle!Next]_Lifecycle!vars
  BY StepImplements DEF AbstractStep
<1>3. IInv => Plain /\ Core
  BY DEF IInv
<1> QED
  BY Invariance, InTransferInvariance, InFinishingInvariance, <1>1, <1>2, <1>3, PTL
     DEF Spec, ImplementsLifecycle, Lifecycle!Spec

-----------------------------------------------------------------------------
(* No orphaned row.  A goroutine that gives its row up leaves it in a       *)
(* status somebody comes back to; the one Save the index could refuse is    *)
(* not refused to a row that is active itself.                              *)

\* The partial unique index holds: one active row per target.
IndexHolds ==
  \A t, u \in Task : TargetOf[t] = TargetOf[u] /\ {row[t], row[u]} \subseteq Active => t = u

LEMMA IndexOneRow ==
  ASSUME Plain, IndexHolds, NEW t \in Task, NEW s, s \in Active => ~ActiveRival(t),
         row' = [row EXCEPT ![t] = s]
  PROVE  IndexHolds'
<1>1. row'[t] = s /\ \A u \in Task \ {t} : row'[u] = row[u]
  BY DEF Plain
<1> QED
  BY <1>1 DEF IndexHolds, ActiveRival

\* An active row stays as active as it was, or stops being so.
LEMMA IndexFewerRows ==
  ASSUME IndexHolds, \A t \in Task : row'[t] \in Active => row[t] \in Active
  PROVE  IndexHolds'
BY DEF IndexHolds

LEMMA IndexRetry ==
  ASSUME Plain, IndexHolds, RetryFailedUploadTasks
  PROVE  IndexHolds'
<1> SUFFICES ASSUME NEW t \in Task, NEW u \in Task, TargetOf[t] = TargetOf[u],
                    row'[t] \in Active, row'[u] \in Active, t # u
             PROVE  FALSE
  BY DEF IndexHolds
<1>1. \A v \in Task : v \in Retried \/ row'[v] = row[v]
  BY DEF RetryFailedUploadTasks
<1>2. \A v \in Retried : ~ActiveRival(v)
  BY DEF Retried, Retriable
<1>3. t \in Retried /\ u \in Retried
  BY <1>1, <1>2 DEF IndexHolds, ActiveRival
<1>4. t < u \/ u < t
  BY TaskAssumption
<1> QED
  BY <1>3, <1>4 DEF Retried

LEMMA IndexWorker ==
  ASSUME Plain, Core, IndexHolds, NEW w \in Worker, WorkerNext(w)
  PROVE  IndexHolds'
<1> DEFINE t == worker[w].task
<1>1. CASE UNCHANGED row
  BY <1>1 DEF IndexHolds
<1>2. CASE \/ ClaimPendingUpload(w) \/ ClaimRemoteCompletedFinalize(w)
           \/ RevertRemoteCompletedFinalizing(w)
  <2>1. \A u \in Task : row'[u] \in Active => row[u] \in Active
    BY <1>2 DEF ClaimPendingUpload, ClaimRemoteCompletedFinalize,
       RevertRemoteCompletedFinalizing, ConditionalUpdate, Plain, Active
  <2> QED
    BY <2>1, IndexFewerRows
<1>3. ASSUME NEW pc \in {"fail", "cancel", "markUploaded"}, SaveOutcome(w, pc)
      PROVE  IndexHolds'
  <2>1. w \in Busy(worker)
    BY <1>3 DEF SaveOutcome, WorkerStep, Busy
  <2>2. t \in Task
    BY <2>1, PoolFields DEF Core, Consistent
  <2> QED
    BY <1>3, <2>2, IndexOneRow DEF SaveOutcome, SaveAccepted
<1>4. CASE Complete(w)
  <2>1. \A u \in Task : row'[u] \in Active => row[u] \in Active
    BY <1>4 DEF Complete, Plain, Active, Completed, Pending, Uploading, PendingFinalize,
       Finalizing
  <2> QED
    BY <2>1, IndexFewerRows
<1> QED
  BY <1>1, <1>2, <1>3, <1>4 DEF WorkerNext, Transfer, SaveRefused,
     FinalizeRemoteCompletedUpload, FinalizeError, WorkerDbError, WorkerExit

LEMMA IndexStep ==
  ASSUME Plain, Core, IndexHolds, [Next]_vars
  PROVE  IndexHolds'
<1>0. UNCHANGED row => IndexHolds'
  BY DEF IndexHolds
<1>1. CASE InitUQ \/ Start \/ Stop \/ Crash \/ \E n \in 1..MaxThreads : UpdateConcurrency(n)
  BY <1>0, <1>1 DEF InitUQ, Start, Stop, Crash, UpdateConcurrency
<1>2. CASE Startup
  <2>1. \A t \in Task : row'[t] \in Active => row[t] \in Active
    BY <1>2 DEF Startup, ResetUploading, ResetFinalizing, ResetError, Active
  <2> QED
    BY <2>1, IndexFewerRows
<1>3. ASSUME NEW t \in Task, AddUploadTask(t)
      PROVE  IndexHolds'
  BY <1>3, IndexOneRow DEF AddUploadTask
<1>4. ASSUME NEW t \in Task, AddRemoteExistsUploadTask(t)
      PROVE  IndexHolds'
  <2>1. Completed \notin Active
    BY DEF Completed, Active, Pending, Uploading, PendingFinalize, Finalizing
  <2> QED
    BY <1>4, <2>1, IndexOneRow DEF AddRemoteExistsUploadTask
<1>5. ASSUME NEW old \in Task, NEW t \in Task, SupersedeFailedUploadTask(old, t)
      PROVE  IndexHolds'
  <2>1. Cancelled \notin Active
    BY DEF Cancelled, Active, Pending, Uploading, PendingFinalize, Finalizing
  <2>2. ~ActiveRival(t) /\ row[t] = Unborn /\ row[old] = Failed /\ t # old
    BY <1>5 DEF SupersedeFailedUploadTask, Unborn, Failed
  <2>3. row'[old] = Cancelled /\ \A u \in Task \ {t, old} : row'[u] = row[u]
    BY <1>5, <2>2 DEF SupersedeFailedUploadTask, Plain
  <2> QED
    BY <2>1, <2>2, <2>3 DEF IndexHolds, ActiveRival
<1>6. CASE ClearPendingUploadTasks \/ ClearUploadSuccessAndFailed
             \/ \E last \in Task : ClearExpireUploadTasks(last)
  <2>1. \A t \in Task : row'[t] = row[t] \/ row'[t] = Deleted
    BY <1>6 DEF ClearPendingUploadTasks, ClearUploadSuccessAndFailed,
       ClearExpireUploadTasks, DeleteRows
  <2>2. Deleted \notin Active
    BY DEF Deleted, Active, Pending, Uploading, PendingFinalize, Finalizing
  <2> QED
    BY <2>1, <2>2, IndexFewerRows
<1>7. CASE RetryFailedByUser
  BY <1>7, IndexRetry DEF RetryFailedByUser
<1>8. ASSUME NEW w \in Worker, WorkerNext(w)
      PROVE  IndexHolds'
  BY <1>8, IndexWorker
<1>9. ASSUME NEW g \in Generation, SchedulerNext(g)
      PROVE  IndexHolds'
  BY <1>0, <1>9, SchedulerIsIdle, IndexRetry
<1>10. CASE UNCHANGED vars
  BY <1>0, <1>10 DEF vars
<1> QED
  BY <1>1, <1>2, <1>3, <1>4, <1>5, <1>6, <1>7, <1>8, <1>9, <1>10 DEF Next, Operator

LEMMA IndexInvariance == Spec => []IndexHolds
<1>1. Init => IndexHolds
  BY DEF Init, IndexHolds, Active, Unborn, Pending, Uploading, PendingFinalize, Finalizing
<1>2. IInv /\ IndexHolds /\ [Next]_vars => IndexHolds'
  BY IndexStep DEF IInv
<1> QED
  BY Invariance, <1>1, <1>2, PTL DEF Spec

\* Once the resets of start-up are through, a row in progress has a goroutine
\* that has yet to take it further, unless a statement failed.
Closing == Finishing \cup {"revert"}
TendedRows ==
  /\ boot \in {"resetting", "up"} =>
       \A t \in Task : row[t] = Uploading => Held(worker, t, Moving)
  /\ boot = "up" =>
       \A t \in Task : row[t] = Finalizing => Held(worker, t, Closing)
Tended == dbErrors = 0 => TendedRows

\* Without a failing statement a goroutine gives up only a row that was taken
\* from it, or one whose Save the index refuses.
LEMMA GivesUp ==
  ASSUME Plain, Core, NEW w \in Worker, WorkerNext(w), ~WorkerExit(w), dbErrors' = 0,
         NEW pc, OwnStep(w, pc), pc = "exit", row'[worker[w].task] = row[worker[w].task]
  PROVE  LET t == worker[w].task
         IN  /\ worker[w].pc = "claim" => row[t] # Pending
             /\ worker[w].pc = "claimFinalize" => row[t] # PendingFinalize
             /\ worker[w].pc = "revert" => row[t] # Finalizing
             /\ worker[w].pc = "markUploaded" => ActiveRival(t)
             /\ worker[w].pc \notin {"fail", "cancel"} \/ row[t] \in {Failed, Cancelled}
<1> DEFINE t == worker[w].task
<1>1. ~WorkerDbError(w)
  BY DEF WorkerDbError, DbError, Plain
<1>2. t \in Task /\ worker'[w].pc = "exit" /\ row = [u \in Task |-> row[u]]
  BY OwnStepFields DEF Plain
<1>3. CASE ClaimPendingUpload(w) \/ ClaimRemoteCompletedFinalize(w)
             \/ RevertRemoteCompletedFinalizing(w)
  BY <1>2, <1>3 DEF ClaimPendingUpload, ClaimRemoteCompletedFinalize,
     RevertRemoteCompletedFinalizing, ConditionalUpdate, WorkerStep, Pending, Uploading,
     PendingFinalize, Finalizing
<1>4. CASE \E p \in {"fail", "cancel", "markUploaded"} : SaveRefused(w, p)
  BY <1>4 DEF SaveRefused, WorkerStep, SaveAccepted, Outcome, Active, Failed, Cancelled,
     Pending, Uploading, PendingFinalize, Finalizing
<1>5. CASE \E p \in {"fail", "cancel"} : SaveOutcome(w, p)
  <2>1. row'[t] \in {Failed, Cancelled} /\ worker[w].pc \in {"fail", "cancel"}
    BY <1>2, <1>5 DEF SaveOutcome, WorkerStep, Outcome
  <2> QED
    BY <2>1
<1>6. CASE SaveOutcome(w, "markUploaded")
  <2>1. Goes(w, "claimFinalize") /\ w \in Worker /\ worker \in Pool
    BY <1>6 DEF SaveOutcome, Core, Consistent
  <2>2. w \in Busy(worker)
    BY DEF OwnStep
  <2>3. worker'[w].pc = "claimFinalize"
    BY <2>1, <2>2, PoolFields DEF Goes, Pool, BusyWorker
  <2> QED
    BY <1>2, <2>3
<1>7. CASE Transfer(w) \/ FinalizeRemoteCompletedUpload(w) \/ FinalizeError(w) \/ Complete(w)
  BY <1>7 DEF Transfer, FinalizeRemoteCompletedUpload, FinalizeError, Complete, WorkerStep
<1> QED
  BY <1>1, <1>3, <1>4, <1>5, <1>6, <1>7 DEF WorkerNext

LEMMA TendedWorker ==
  ASSUME Plain, Core, IndexHolds, Tended, NEW w \in Worker, WorkerNext(w)
  PROVE  Tended'
<1> SUFFICES ASSUME dbErrors' = 0 PROVE TendedRows'
  BY DEF Tended
<1>1. dbErrors = 0 /\ UNCHANGED boot
  BY DEF WorkerNext, ClaimPendingUpload, Transfer, SaveOutcome, SaveRefused,
     ClaimRemoteCompletedFinalize, FinalizeRemoteCompletedUpload, FinalizeError,
     Complete, RevertRemoteCompletedFinalizing, WorkerDbError, WorkerExit, WorkerStep,
     NoFault, DbError, Plain, budgetVars
<1>2. TendedRows
  BY <1>1 DEF Tended
<1>3. CASE WorkerExit(w)
  <2>1. OthersIdle /\ UNCHANGED row
    BY <1>3, ExitIsIdle
  <2>2. Moving \cap Outside = {} /\ Closing \cap Outside = {}
    BY DEF Moving, Closing, Finishing, Outside
  <2>3. \A t \in Task : /\ Held(worker', t, Moving) <=> Held(worker, t, Moving)
                        /\ Held(worker', t, Closing) <=> Held(worker, t, Closing)
    BY <2>1, <2>2, SameHeld DEF OthersIdle
  <2> QED
    BY <1>1, <1>2, <2>1, <2>3 DEF TendedRows
<1>4. CASE ~WorkerExit(w)
  <2> DEFINE t == worker[w].task
  <2>1. PICK pc : OwnStep(w, pc) /\ Statement(w, pc)
    BY <1>4, WorkerStatement
  <2>2. /\ t \in Task
        /\ \A pcs : Held(worker, t, pcs) <=> worker[w].pc \in pcs
        /\ \A pcs : Held(worker', t, pcs) <=> pc \in pcs
        /\ \A u \in Task \ {t} : \A pcs : Held(worker', u, pcs) <=> Held(worker, u, pcs)
        /\ \A u \in Task \ {t} : row'[u] = row[u]
    BY <2>1, OwnStepFields, OwnStepHeld DEF OwnStep
  <2>3. pc = "exit" /\ row'[t] = row[t] =>
          /\ worker[w].pc = "revert" => row[t] # Finalizing
          /\ worker[w].pc = "markUploaded" => ActiveRival(t)
          /\ worker[w].pc \notin {"fail", "cancel"} \/ row[t] \in {Failed, Cancelled}
    BY <1>4, <2>1, GivesUp
  <2>4. row[t] \in {Uploading, Finalizing} => ~ActiveRival(t)
    BY <2>2 DEF IndexHolds, ActiveRival, Active
  <2>5. ASSUME boot \in {"resetting", "up"}, row'[t] = Uploading
        PROVE  pc \in Moving
    <3>1. row[t] = Uploading => worker[w].pc \in Moving
      BY <1>2, <2>2, <2>5 DEF TendedRows
    <3> QED
      BY <2>1, <2>3, <2>4, <2>5, <3>1 DEF Statement, Moving, Pending, Uploading,
         PendingFinalize, Finalizing, Completed, Failed, Cancelled
  <2>6. ASSUME boot = "up", row'[t] = Finalizing
        PROVE  pc \in Closing
    <3>1. row[t] = Finalizing => worker[w].pc \in Closing
      BY <1>2, <2>2, <2>6 DEF TendedRows
    <3> QED
      BY <2>1, <2>3, <2>6, <3>1 DEF Statement, Closing, Finishing, Pending, Uploading,
         PendingFinalize, Finalizing, Completed, Failed, Cancelled
  <2> QED
    BY <1>1, <1>2, <2>2, <2>5, <2>6 DEF TendedRows
<1> QED
  BY <1>3, <1>4

\* Other actors mark no row as in progress.
LEMMA TendedRowsChange ==
  ASSUME Tended, UNCHANGED <<worker, boot, dbErrors>>,
         \A t \in Task : row'[t] \in {Uploading, Finalizing} => row'[t] = row[t]
  PROVE  Tended'
BY DEF Tended, TendedRows

LEMMA TendedStep ==
  ASSUME Plain, Core, IndexHolds, Tended, [Next]_vars
  PROVE  Tended'
<1> USE DEF budgetVars
<1>0. UNCHANGED <<row, worker, boot, dbErrors>> => Tended'
  BY DEF Tended, TendedRows
<1>1. CASE InitUQ
  BY <1>1 DEF InitUQ, Tended, TendedRows
<1>2. CASE Crash
  BY <1>2 DEF Crash, Tended, TendedRows
<1>3. CASE Start \/ Stop \/ \E n \in 1..MaxThreads : UpdateConcurrency(n)
  BY <1>0, <1>3 DEF Start, Stop, UpdateConcurrency
<1>4. CASE ResetUploading
  <2>1. \A t \in Task : row'[t] # Uploading
    BY <1>4 DEF ResetUploading, Uploading, Pending
  <2>2. boot' = "resetting"
    BY <1>4 DEF ResetUploading
  <2> QED
    BY <2>1, <2>2 DEF Tended, TendedRows
<1>5. CASE ResetFinalizing
  <2>1. \A t \in Task : /\ row'[t] # Finalizing
                        /\ row'[t] = Uploading => row[t] = Uploading
    BY <1>5 DEF ResetFinalizing, Finalizing, PendingFinalize, Uploading
  <2>2. boot = "resetting" /\ UNCHANGED <<worker, dbErrors>>
    BY <1>5 DEF ResetFinalizing
  <2> QED
    BY <2>1, <2>2 DEF Tended, TendedRows
<1>6. CASE ResetError
  BY <1>6 DEF ResetError, DbError, Plain, Tended
<1>7. CASE \E t \in Task : AddUploadTask(t) \/ AddRemoteExistsUploadTask(t)
  BY <1>7, TendedRowsChange DEF AddUploadTask, AddRemoteExistsUploadTask, RowsChange, Plain,
     Pending, Completed, Uploading, Finalizing
<1>8. CASE \E old, t \in Task : SupersedeFailedUploadTask(old, t)
  BY <1>8, TendedRowsChange DEF SupersedeFailedUploadTask, RowsChange, Plain,
     Pending, Cancelled, Uploading, Finalizing
<1>9. CASE ClearPendingUploadTasks \/ ClearUploadSuccessAndFailed
             \/ \E last \in Task : ClearExpireUploadTasks(last)
  BY <1>9, TendedRowsChange DEF ClearPendingUploadTasks, ClearUploadSuccessAndFailed,
     ClearExpireUploadTasks, DeleteRows, RowsChange, Deleted, Uploading, Finalizing
<1>10. ASSUME RetryFailedUploadTasks
       PROVE  \A t \in Task : row'[t] \in {Uploading, Finalizing} => row'[t] = row[t]
  BY <1>10 DEF RetryFailedUploadTasks, Pending, Uploading, Finalizing
<1>11. CASE RetryFailedByUser
  BY <1>10, <1>11, TendedRowsChange DEF RetryFailedByUser
<1>12. ASSUME NEW w \in Worker, WorkerNext(w)
       PROVE  Tended'
  BY <1>12, TendedWorker
<1>13. ASSUME NEW g \in Generation, SchedulerNext(g)
       PROVE  Tended'
  <2>1. UNCHANGED boot /\ (UNCHANGED dbErrors \/ dbErrors' # 0)
    BY <1>13 DEF SchedulerNext, Tick, SchedulerStops, CountClaimable, CountUploading,
       EnterIdle, RetryWhenIdle, GetPendingUploadTasks, Push, SchedulerDbError,
       SchedulerStep, Plain
  <2>2. CASE dbErrors' # 0
    BY <2>2 DEF Tended
  <2>3. CASE UNCHANGED dbErrors /\ OthersIdle /\ UNCHANGED <<row, retries>>
    <3>1. Moving \cap Outside = {} /\ Closing \cap Outside = {}
      BY DEF Moving, Closing, Finishing, Outside
    <3>2. \A t \in Task : /\ Held(worker', t, Moving) <=> Held(worker, t, Moving)
                          /\ Held(worker', t, Closing) <=> Held(worker, t, Closing)
      BY <2>3, <3>1, SameHeld DEF OthersIdle
    <3> QED
      BY <2>1, <2>3, <3>2 DEF Tended, TendedRows
  <2>4. CASE UNCHANGED <<dbErrors, worker>> /\ RetryFailedUploadTasks
    BY <1>10, <2>1, <2>4, TendedRowsChange
  <2> QED
    BY <1>13, <2>1, <2>2, <2>3, <2>4, SchedulerIsIdle
<1>14. CASE UNCHANGED vars
  BY <1>0, <1>14 DEF vars
<1> QED
  BY <1>1, <1>2, <1>3, <1>4, <1>5, <1>6, <1>7, <1>8, <1>9, <1>11, <1>12, <1>13, <1>14
     DEF Next, Operator, Startup

\* A row marked as in progress always has a goroutine at work on it once start-up
\* is over, if no SQL statement failed: a lost claim, a refused Save or a failed
\* post-processing never leaves one behind (Upload, finalizeRemoteCompletedUpload,
\* UpdateUploadingToPending).
THEOREM NoRowOrphaned == Spec => []NoOrphanedRow
<1>1. Init => Tended
  BY DEF Init, Tended, TendedRows
<1>2. IInv /\ IndexHolds /\ Tended /\ [Next]_vars => Tended'
  BY TendedStep DEF IInv
<1>3. Tended => NoOrphanedRow
  BY DEF Tended, TendedRows, NoOrphanedRow, Held, Executing
<1> QED
  BY Invariance, IndexInvariance, <1>1, <1>2, <1>3, PTL DEF Spec

=============================================================================
