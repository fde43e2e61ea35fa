-------------------------- MODULE UploadQueueProofs --------------------------
(***************************************************************************)
(* Proofs about UploadQueue, for every set of tasks and goroutines and     *)
(* every value of the bounds.                                              *)
(***************************************************************************)
EXTENDS UploadQueue, FiniteSetTheorems, SequenceTheorems, TLAPS

Pool == [Worker -> {IdleWorker} \cup BusyWorker]

\* The three parts of OneHolderPerTask, for a channel and a set of goroutines
\* that need not be the current ones.
DistinctTasks(s) == \A i, j \in DOMAIN s : s[i].task = s[j].task => i = j
OneEach(pool) == \A v, w \in Busy(pool) : pool[v].task = pool[w].task => v = w
Disjoint(chan, pool) == Buffered(chan) \cap Executing(pool) = {}

\* Fields of the goroutines' records.
LEMMA PoolFields ==
  ASSUME NEW pool \in Pool, NEW w \in Worker
  PROVE  /\ pool[w].pc \in WorkerPc
         /\ w \notin Busy(pool) => pool[w] = IdleWorker
         /\ w \in Busy(pool) => pool[w] \in BusyWorker /\ pool[w].task \in Task
BY DEF Pool, BusyWorker, IdleWorker, Busy, WorkerPc

LEMMA BusyIsFinite ==
  ASSUME NEW pool
  PROVE  /\ IsFiniteSet(Busy(pool))
         /\ Cardinality(Busy(pool)) \in Nat
<1>1. Busy(pool) \in SUBSET Worker
  BY DEF Busy
<1> QED
  BY <1>1, WorkerAssumption, FS_Subset, FS_CardinalityType

\* The goroutine made for a buffered task.
LEMMA LaunchedFields ==
  ASSUME NEW s \in Snapshot
  PROVE  /\ Launched(s) \in BusyWorker
         /\ Launched(s).pc \in {"claim", "claimFinalize"}
         /\ Launched(s).task = s.task
BY DEF Snapshot, Launched, BusyWorker, WorkerPc

\* The head of the channel and its rest share no task.
LEMMA Split ==
  ASSUME NEW chan \in Seq(Snapshot), NEW k \in 0..Len(chan)
  PROVE  LET rest == SubSeq(chan, k + 1, Len(chan))
         IN  /\ rest \in Seq(Snapshot)
             /\ Len(rest) = Len(chan) - k
             /\ \A i \in DOMAIN rest : i + k \in DOMAIN chan /\ rest[i] = chan[i + k]
             /\ Buffered(rest) = {chan[i].task : i \in (k + 1)..Len(chan)}
             /\ DistinctTasks(chan) => DistinctTasks(rest)
<1> DEFINE rest == SubSeq(chan, k + 1, Len(chan))
<1> HIDE DEF rest
<1>0. Len(chan) \in Nat /\ k \in 0..Len(chan)
  BY LenProperties
<1>1. Len(chan) \in Nat /\ DOMAIN chan = 1..Len(chan) /\ chan \in [1..Len(chan) -> Snapshot]
  BY LenProperties
<1>2. \A i \in (k + 1)..Len(chan) : chan[i] \in Snapshot
  BY <1>1
<1>3. /\ rest \in Seq(Snapshot)
      /\ Len(rest) = IF k + 1 <= Len(chan) THEN Len(chan) - (k + 1) + 1 ELSE 0
      /\ \A i \in 1..(Len(chan) - (k + 1) + 1) : rest[i] = chan[k + 1 + i - 1]
  <2>1. k + 1 \in Int /\ Len(chan) \in Int
    BY <1>1
  <2> QED
    BY <1>2, <2>1, SubSeqProperties DEF rest
<1>4. Len(rest) = Len(chan) - k
  BY <1>0, <1>3
<1>5. DOMAIN rest = 1..(Len(chan) - k)
  BY <1>3, <1>4, LenProperties
<1>6. \A i \in DOMAIN rest : i + k \in DOMAIN chan /\ rest[i] = chan[i + k]
  <2> SUFFICES ASSUME NEW i \in 1..(Len(chan) - k)
               PROVE  i + k \in DOMAIN chan /\ rest[i] = chan[i + k]
    BY <1>5
  <2>1. i \in 1..(Len(chan) - (k + 1) + 1) /\ k + 1 + i - 1 = i + k /\ i + k \in 1..Len(chan)
    BY <1>1
  <2>2. rest[i] = chan[k + 1 + i - 1]
    BY <2>1, <1>3
  <2> QED
    BY <2>1, <2>2, <1>1
<1>7. Buffered(rest) = {chan[i].task : i \in (k + 1)..Len(chan)}
  <2>1. ASSUME NEW i \in DOMAIN rest
        PROVE  rest[i].task \in {chan[j].task : j \in (k + 1)..Len(chan)}
    <3>1. i + k \in (k + 1)..Len(chan)
      BY <1>1, <1>5
    <3> QED
      BY <3>1, <1>6
  <2>2. ASSUME NEW j \in (k + 1)..Len(chan)
        PROVE  chan[j].task \in Buffered(rest)
    <3>1. j - k \in DOMAIN rest /\ (j - k) + k = j
      BY <1>1, <1>5
    <3> QED
      BY <3>1, <1>6 DEF Buffered
  <2> QED
    BY <2>1, <2>2 DEF Buffered
<1>8. ASSUME DistinctTasks(chan)
      PROVE  DistinctTasks(rest)
  <2> SUFFICES ASSUME NEW i \in DOMAIN rest, NEW j \in DOMAIN rest,
                      rest[i].task = rest[j].task
               PROVE  i = j
    BY DEF DistinctTasks
  <2>1. chan[i + k].task = chan[j + k].task /\ i + k \in DOMAIN chan /\ j + k \in DOMAIN chan
    BY <1>6
  <2>2. i + k = j + k
    BY <2>1, <1>8 DEF DistinctTasks
  <2> QED
    BY <2>2, <1>5, <1>1
<1> QED
  BY <1>3, <1>4, <1>6, <1>7, <1>8 DEF rest

\* Goroutines that have just been given the first k tasks of a channel.
Filled(pool, slot, k, chan) ==
  [w \in Worker |-> IF \E i \in 1..k : slot[i] = w
                      THEN Launched(chan[CHOOSE i \in 1..k : slot[i] = w])
                      ELSE pool[w]]

LEMMA SlotFields ==
  ASSUME NEW chan \in Seq(Snapshot), NEW pool, NEW k \in 0..Len(chan),
         NEW slot \in Injection(1..k, Worker \ Busy(pool))
  PROVE  \A i \in 1..k : /\ i \in 1..Len(chan)
                         /\ chan[i] \in Snapshot
                         /\ slot[i] \in Worker \ Busy(pool)
<1>1. Len(chan) \in Nat /\ k \in 0..Len(chan)
  BY LenProperties
<1>2. \A i \in 1..k : i \in 1..Len(chan)
  BY <1>1
<1>3. \A i \in 1..Len(chan) : chan[i] \in Snapshot
  BY LenProperties
<1>4. slot \in [1..k -> Worker \ Busy(pool)]
  BY DEF Injection
<1> QED
  BY <1>2, <1>3, <1>4

\* Slot i of the new goroutines works on the i-th task of the channel.
HandsOut(next, slot, k, chan) == \A i \in 1..k : next[slot[i]] = Launched(chan[i])

LEMMA FilledNew ==
  ASSUME NEW chan, NEW pool, NEW k,
         NEW slot \in Injection(1..k, Worker \ Busy(pool))
  PROVE  HandsOut(Filled(pool, slot, k, chan), slot, k, chan)
<1> SUFFICES ASSUME NEW i \in 1..k
             PROVE  Filled(pool, slot, k, chan)[slot[i]] = Launched(chan[i])
  BY DEF HandsOut
<1>1. slot[i] \in Worker /\ \A j \in 1..k : slot[j] = slot[i] => j = i
  BY DEF Injection, IsInjective
<1>2. (CHOOSE j \in 1..k : slot[j] = slot[i]) = i
  BY <1>1
<1> QED
  BY <1>1, <1>2 DEF Filled

LEMMA FilledOld ==
  ASSUME NEW chan, NEW pool, NEW k, NEW slot, NEW w \in Worker,
         \A i \in 1..k : slot[i] # w
  PROVE  Filled(pool, slot, k, chan)[w] = pool[w]
BY DEF Filled

LEMMA FilledPool ==
  ASSUME NEW chan \in Seq(Snapshot), NEW pool \in Pool, NEW k \in 0..Len(chan),
         NEW slot \in Injection(1..k, Worker \ Busy(pool))
  PROVE  /\ Filled(pool, slot, k, chan) \in Pool
         /\ Busy(Filled(pool, slot, k, chan)) = Busy(pool) \cup Range(slot)
<1> DEFINE next == Filled(pool, slot, k, chan)
<1>1. /\ slot \in [1..k -> Worker \ Busy(pool)]
      /\ Range(slot) = {slot[i] : i \in 1..k}
  BY DEF Injection, Range
<1>2. \A i \in 1..k : next[slot[i]] \in BusyWorker /\ next[slot[i]].pc # "idle"
  <2>1. HandsOut(next, slot, k, chan)
    BY FilledNew
  <2>2. \A i \in 1..k : chan[i] \in Snapshot
    BY SlotFields
  <2>3. \A i \in 1..k : Launched(chan[i]) \in BusyWorker /\ Launched(chan[i]).pc # "idle"
    BY <2>2, LaunchedFields
  <2> QED
    BY <2>1, <2>3 DEF HandsOut
<1>3. \A w \in Worker : (\A i \in 1..k : slot[i] # w) => next[w] = pool[w]
  BY FilledOld
<1>4. next = [w \in Worker |-> next[w]]
  BY DEF Filled
<1> HIDE DEF next
<1>5. next \in Pool
  <2>1. ASSUME NEW w \in Worker
        PROVE  next[w] \in {IdleWorker} \cup BusyWorker
    BY <1>2, <1>3 DEF Pool
  <2> QED
    BY <2>1, <1>4 DEF Pool
<1>6. Busy(next) = Busy(pool) \cup Range(slot)
  <2>1. \A i \in 1..k : slot[i] \in Busy(next)
    BY <1>1, <1>2 DEF Busy
  <2>2. \A w \in Worker : (\A i \in 1..k : slot[i] # w) => (w \in Busy(next) <=> w \in Busy(pool))
    BY <1>3 DEF Busy
  <2>3. \A w \in Busy(pool) : \A i \in 1..k : slot[i] # w
    BY <1>1
  <2>4. Busy(next) \subseteq Worker /\ Busy(pool) \subseteq Worker
    BY DEF Busy
  <2> QED
    BY <1>1, <2>1, <2>2, <2>3, <2>4
<1> QED
  BY <1>5, <1>6 DEF next

\* Each goroutine that starts adds one to their number.
LEMMA FilledCount ==
  ASSUME NEW chan \in Seq(Snapshot), NEW pool \in Pool, NEW k \in 0..Len(chan),
         NEW slot \in Injection(1..k, Worker \ Busy(pool))
  PROVE  Cardinality(Busy(Filled(pool, slot, k, chan))) = Cardinality(Busy(pool)) + k
<1> DEFINE next == Filled(pool, slot, k, chan)
           new == Range(slot)
<1>1. Len(chan) \in Nat /\ k \in Nat
  BY LenProperties
<1>2. /\ slot \in [1..k -> Worker \ Busy(pool)]
      /\ \A i, j \in 1..k : slot[i] = slot[j] => i = j
  BY DEF Injection, IsInjective
<1>3. IsFiniteSet(1..k) /\ Cardinality(1..k) = k
  BY <1>1, FS_Interval
<1>4. slot \in Bijection(1..k, new)
  BY <1>2 DEF Bijection, Injection, Surjection, IsInjective, Range
<1>5. IsFiniteSet(new) /\ Cardinality(new) = k
  <2>1. ExistsBijection(1..k, new)
    BY <1>4 DEF ExistsBijection
  <2> HIDE DEF new
  <2> QED
    BY <2>1, <1>3, FS_Bijection
<1>6. Busy(pool) \cap new = {}
  BY <1>2 DEF Range
<1>7. Busy(next) = Busy(pool) \cup new
  BY FilledPool
<1> HIDE DEF next, new
<1>8. IsFiniteSet(Busy(pool)) /\ Cardinality(Busy(pool)) \in Nat
  BY BusyIsFinite
<1>9. /\ IsFiniteSet(Busy(pool) \cup new)
      /\ Cardinality(Busy(pool) \cup new) =
           Cardinality(Busy(pool)) + Cardinality(new) - Cardinality(Busy(pool) \cap new)
  BY <1>5, <1>8, FS_Union
<1>10. Cardinality(Busy(pool) \cap new) = 0
  BY <1>6, FS_EmptySet
<1>11. Cardinality(Busy(next)) = Cardinality(Busy(pool)) + k
  BY <1>1, <1>5, <1>7, <1>8, <1>9, <1>10
<1> QED
  BY <1>11 DEF next

\* The tasks that leave the channel are exactly those the new goroutines get.
LEMMA FilledTasks ==
  ASSUME NEW chan \in Seq(Snapshot), NEW pool \in Pool, NEW k \in 0..Len(chan),
         NEW slot \in Injection(1..k, Worker \ Busy(pool)),
         DistinctTasks(chan), OneEach(pool), Disjoint(chan, pool)
  PROVE  LET next == Filled(pool, slot, k, chan)
             rest == SubSeq(chan, k + 1, Len(chan))
         IN  /\ OneEach(next)
             /\ Disjoint(rest, next)
             /\ Buffered(rest) \cup Executing(next) = Buffered(chan) \cup Executing(pool)
<1> DEFINE next == Filled(pool, slot, k, chan)
           rest == SubSeq(chan, k + 1, Len(chan))
<1>1. Len(chan) \in Nat /\ k \in 0..Len(chan)
  BY LenProperties
<1>2. /\ slot \in [1..k -> Worker \ Busy(pool)]
      /\ \A i, j \in 1..k : slot[i] = slot[j] => i = j
  BY DEF Injection, IsInjective
<1>3. \A i \in 1..k : /\ i \in 1..Len(chan)
                      /\ chan[i] \in Snapshot
                      /\ slot[i] \in Worker \ Busy(pool)
  BY SlotFields
<1>n. HandsOut(next, slot, k, chan)
  BY FilledNew
<1>o. \A w \in Worker : (\A i \in 1..k : slot[i] # w) => next[w] = pool[w]
  BY FilledOld
<1>b. Busy(next) = Busy(pool) \cup Range(slot)
  BY FilledPool
<1>4. /\ Buffered(rest) = {chan[i].task : i \in (k + 1)..Len(chan)}
      /\ DOMAIN chan = 1..Len(chan)
  BY Split, LenProperties
<1>r. Range(slot) = {slot[i] : i \in 1..k}
  BY <1>2 DEF Range
<1> HIDE DEF next, rest
<1>5. \A i \in 1..k : next[slot[i]].task = chan[i].task
  BY <1>3, <1>n, LaunchedFields DEF HandsOut
<1>6. \A w \in Busy(pool) : next[w].task = pool[w].task
  <2> TAKE w \in Busy(pool)
  <2>1. w \in Worker /\ \A i \in 1..k : slot[i] # w
    BY <1>3 DEF Busy
  <2> QED
    BY <2>1, <1>o
<1>7. Executing(next) = Executing(pool) \cup {chan[i].task : i \in 1..k}
  BY <1>r, <1>b, <1>5, <1>6 DEF Executing
<1>8. Buffered(chan) = {chan[i].task : i \in 1..k} \cup Buffered(rest)
  <2>1. \A i \in 1..Len(chan) : i \in 1..k \/ i \in (k + 1)..Len(chan)
    BY <1>1
  <2>2. \A i \in (k + 1)..Len(chan) : i \in 1..Len(chan)
    BY <1>1
  <2> QED
    BY <2>1, <2>2, <1>3, <1>4 DEF Buffered
<1>9. \A i \in 1..k : chan[i].task \notin Buffered(rest)
  <2> SUFFICES ASSUME NEW i \in 1..k, NEW j \in (k + 1)..Len(chan),
                      chan[i].task = chan[j].task
               PROVE  FALSE
    BY <1>4
  <2>1. i \in 1..Len(chan) /\ j \in 1..Len(chan) /\ i # j
    BY <1>1
  <2> QED
    BY <2>1, <1>4 DEF DistinctTasks
<1>10. \A i \in 1..k : chan[i].task \notin Executing(pool)
  BY <1>3, <1>4 DEF Disjoint, Buffered
<1>11. OneEach(next)
  <2> SUFFICES ASSUME NEW v \in Busy(next), NEW w \in Busy(next),
                      next[v].task = next[w].task
               PROVE  v = w
    BY DEF OneEach
  <2>1. CASE v \in Busy(pool) /\ w \in Busy(pool)
    BY <2>1, <1>6 DEF OneEach
  <2>2. CASE \E i, j \in 1..k : v = slot[i] /\ w = slot[j]
    <3>1. PICK i \in 1..k, j \in 1..k : v = slot[i] /\ w = slot[j]
      BY <2>2
    <3>2. chan[i].task = chan[j].task
      BY <3>1, <1>5
    <3>3. i = j
      BY <3>2, <1>3, <1>4 DEF DistinctTasks
    <3> QED
      BY <3>1, <3>3
  <2>3. CASE v \in Busy(pool) /\ \E j \in 1..k : w = slot[j]
    BY <2>3, <1>5, <1>6, <1>10 DEF Executing
  <2>4. CASE w \in Busy(pool) /\ \E i \in 1..k : v = slot[i]
    BY <2>4, <1>5, <1>6, <1>10 DEF Executing
  <2> QED
    BY <2>1, <2>2, <2>3, <2>4, <1>b, <1>r
<1>12. Disjoint(rest, next)
  <2>1. Buffered(rest) \cap Executing(pool) = {}
    BY <1>8 DEF Disjoint
  <2> QED
    BY <2>1, <1>7, <1>9 DEF Disjoint
<1>13. Buffered(rest) \cup Executing(next) = Buffered(chan) \cup Executing(pool)
  BY <1>7, <1>8
<1> QED
  BY <1>11, <1>12, <1>13 DEF next, rest

-----------------------------------------------------------------------------
(* What startWorkersLocked does to a channel and a pool in order.          *)

\* Channel, counter and goroutines agree with each other.
Consistent(chan, act, pool) ==
  /\ chan \in Seq(Snapshot)
  /\ pool \in Pool
  /\ DistinctTasks(chan)
  /\ OneEach(pool)
  /\ Disjoint(chan, pool)
  /\ act = Cardinality(Busy(pool))

\* The number of goroutines startWorkersLocked makes.
Starts(chan, act) == IF running THEN FreeSlots(act, chan) ELSE 0

LEMMA StartsRange ==
  ASSUME NEW chan \in Seq(Snapshot), NEW act \in Nat, numWorkers \in Nat
  PROVE  /\ Starts(chan, act) \in 0..Len(chan)
         /\ Starts(chan, act) # 0 => running /\ act + Starts(chan, act) <= numWorkers
<1>1. Len(chan) \in Nat
  BY LenProperties
<1> QED
  BY <1>1 DEF Starts, FreeSlots

\* The step in terms of the operators above.
LEMMA DispatchStep ==
  ASSUME NEW chan, NEW act, NEW pool, StartWorkersLocked(chan, act, pool)
  PROVE  LET k == Starts(chan, act)
         IN  \E slot \in Injection(1..k, Worker \ Busy(pool)) :
               /\ tasks' = SubSeq(chan, k + 1, Len(chan))
               /\ active' = act + k
               /\ worker' = Filled(pool, slot, k, chan)
BY DEF StartWorkersLocked, Starts, Filled

\* Dispatch moves tasks from the channel to new goroutines: it loses none,
\* doubles none, and counts each goroutine.
LEMMA Dispatch ==
  ASSUME NEW chan, NEW act, NEW pool, Consistent(chan, act, pool),
         numWorkers \in Nat, StartWorkersLocked(chan, act, pool)
  PROVE  /\ Consistent(tasks', active', worker')
         /\ Len(tasks') <= Len(chan)
         /\ Buffered(tasks') \cup Executing(worker') = Buffered(chan) \cup Executing(pool)
<1> DEFINE k == Starts(chan, act)
<1>1. chan \in Seq(Snapshot) /\ pool \in Pool
  BY DEF Consistent
<1>2. act \in Nat
  BY BusyIsFinite DEF Consistent
<1>3. k \in 0..Len(chan) /\ Len(chan) \in Nat
  BY <1>1, <1>2, StartsRange, LenProperties
<1> HIDE DEF k
<1>4. PICK slot \in Injection(1..k, Worker \ Busy(pool)) :
        /\ tasks' = SubSeq(chan, k + 1, Len(chan))
        /\ active' = act + k
        /\ worker' = Filled(pool, slot, k, chan)
  BY DispatchStep DEF k
<1>5. /\ tasks' \in Seq(Snapshot)
      /\ Len(tasks') = Len(chan) - k
      /\ DistinctTasks(tasks')
  BY <1>1, <1>3, <1>4, Split DEF Consistent
<1>6. worker' \in Pool
  BY <1>1, <1>3, <1>4, FilledPool
<1>7. active' = Cardinality(Busy(worker'))
  BY <1>1, <1>3, <1>4, FilledCount DEF Consistent
<1>8. /\ OneEach(worker')
      /\ Disjoint(tasks', worker')
      /\ Buffered(tasks') \cup Executing(worker') = Buffered(chan) \cup Executing(pool)
  BY <1>1, <1>3, <1>4, FilledTasks, ZenonT(40) DEF Consistent
<1> QED
  BY <1>3, <1>5, <1>6, <1>7, <1>8 DEF Consistent

\* Goroutines appear only in free slots, only while the queue runs and only up
\* to the limit; nobody else is touched.
LEMMA DispatchLimit ==
  ASSUME NEW chan, NEW act, NEW pool, Consistent(chan, act, pool),
         numWorkers \in Nat, StartWorkersLocked(chan, act, pool),
         NEW w \in Worker, worker'[w] # pool[w]
  PROVE  running /\ active' <= numWorkers
<1> DEFINE k == Starts(chan, act)
<1>1. chan \in Seq(Snapshot) /\ act \in Nat
  BY BusyIsFinite DEF Consistent
<1>2. /\ k \in 0..Len(chan)
      /\ k # 0 => running /\ act + k <= numWorkers
      /\ Len(chan) \in Nat
  BY <1>1, StartsRange, LenProperties
<1> HIDE DEF k
<1>3. PICK slot \in Injection(1..k, Worker \ Busy(pool)) :
        /\ active' = act + k
        /\ worker' = Filled(pool, slot, k, chan)
  BY DispatchStep DEF k
<1>4. CASE k = 0
  <2>1. \A i \in 1..k : slot[i] # w
    BY <1>4
  <2> QED
    BY <1>3, <2>1, FilledOld
<1>5. CASE k # 0
  BY <1>2, <1>3, <1>5
<1> QED
  BY <1>4, <1>5

-----------------------------------------------------------------------------
(* The inductive invariant, in three parts.  TypeOK alone is not inductive:*)
(* active - 1 is a natural number because active counts the goroutines,    *)
(* the room of a scheduler's round is one because the buffer fits, and     *)
(* the books balance after a push because a batch lists no task twice.     *)

Core ==
  /\ numWorkers \in 1..MaxThreads
  /\ Consistent(tasks, active, worker)
  /\ reserved = Buffered(tasks) \cup Executing(worker)
  /\ Len(tasks) <= numWorkers
coreVars == <<numWorkers, tasks, active, reserved, worker>>

Rounds ==
  /\ scheduler \in [Generation -> Scheduler]
  /\ \A g \in Generation : DistinctTasks(scheduler[g].batch)

Plain ==
  /\ row \in [Task -> Status \cup {Unborn, Deleted}]
  /\ retries \in [Task -> 0..MaxRetry]
  /\ boot \in {"down", "starting", "resetting", "up"}
  /\ running \in BOOLEAN
  /\ generation \in 0..MaxStarts
  /\ retryTriggered \in BOOLEAN
  /\ crashes \in 0..MaxCrashes
  /\ resizes \in 0..MaxResizes
  /\ dbErrors \in 0..MaxDbErrors
  /\ finalErrors \in 0..MaxFinalErrors

IInv == Plain /\ Core /\ Rounds

LEMMA TasksOfChannel ==
  ASSUME NEW chan \in Seq(Snapshot)
  PROVE  Buffered(chan) \subseteq Task
<1>1. \A i \in DOMAIN chan : chan[i] \in Snapshot
  BY LenProperties
<1> QED
  BY <1>1 DEF Buffered, Snapshot

LEMMA TasksOfPool ==
  ASSUME NEW pool \in Pool
  PROVE  Executing(pool) \subseteq Task
BY PoolFields DEF Executing, Busy

\* The invariant holds every conjunct the runs check.
LEMMA Strengthening ==
  ASSUME IInv
  PROVE  TypeOK /\ OneHolderPerTask /\ BooksBalance /\ BufferFits
<1>1. /\ tasks \in Seq(Snapshot)
      /\ worker \in Pool
      /\ DistinctTasks(tasks) /\ OneEach(worker) /\ Disjoint(tasks, worker)
      /\ active = Cardinality(Busy(worker))
      /\ numWorkers \in 1..MaxThreads
      /\ reserved = Buffered(tasks) \cup Executing(worker)
      /\ Len(tasks) <= numWorkers
  BY DEF IInv, Core, Consistent
<1>2. active \in Nat
  BY <1>1, BusyIsFinite
<1>3. reserved \in SUBSET Task
  BY <1>1, TasksOfChannel, TasksOfPool
<1>4. TypeOK
  <2>1. worker \in [Worker -> {IdleWorker} \cup BusyWorker]
    BY <1>1 DEF Pool
  <2>2. Plain /\ scheduler \in [Generation -> Scheduler]
    BY DEF IInv, Rounds
  <2> QED
    BY <1>1, <1>2, <1>3, <2>1, <2>2 DEF TypeOK, Plain
<1>5. OneHolderPerTask
  BY <1>1 DEF OneHolderPerTask, DistinctTasks, OneEach, Disjoint
<1>6. BooksBalance /\ BufferFits
  BY <1>1 DEF BooksBalance, BufferFits
<1> QED
  BY <1>4, <1>5, <1>6

LEMMA Initially == Init => IInv
<1> SUFFICES ASSUME Init PROVE IInv
  OBVIOUS
<1>1. Plain
  <2>1. \A n \in Nat : 0 \in 0..n
    OBVIOUS
  <2>2. /\ generation \in 0..MaxStarts
        /\ crashes \in 0..MaxCrashes
        /\ resizes \in 0..MaxResizes
        /\ dbErrors \in 0..MaxDbErrors
        /\ finalErrors \in 0..MaxFinalErrors
    BY <2>1, BoundAssumption DEF Init
  <2>3. retries \in [Task -> 0..MaxRetry]
    BY <2>1, BoundAssumption DEF Init
  <2> QED
    BY <2>2, <2>3 DEF Init, Plain
<1>2. Busy(worker) = {} /\ worker \in Pool
  BY DEF Init, Busy, Pool, IdleWorker
<1>3. tasks = <<>> /\ tasks \in Seq(Snapshot) /\ Len(tasks) = 0 /\ DOMAIN tasks = {}
  <2>1. tasks = <<>> /\ tasks \in Seq(Snapshot) /\ Len(tasks) = 0
    BY EmptySeq DEF Init
  <2>2. DOMAIN tasks = 1..0
    BY <2>1, LenProperties
  <2> QED
    BY <2>1, <2>2
<1>4. Core
  <2>1. numWorkers \in 1..MaxThreads /\ Len(tasks) <= numWorkers
    BY <1>3, BoundAssumption DEF Init
  <2>2. Buffered(tasks) = {} /\ Executing(worker) = {}
    BY <1>2, <1>3 DEF Buffered, Executing
  <2>3. Cardinality(Busy(worker)) = 0
    BY <1>2, FS_EmptySet
  <2>4. Consistent(tasks, active, worker)
    BY <1>2, <1>3, <2>2, <2>3 DEF Consistent, DistinctTasks, OneEach, Disjoint, Init
  <2> QED
    BY <2>1, <2>2, <2>4 DEF Core, Init
<1>5. Rounds
  <2>1. NoScheduler \in Scheduler
    BY EmptySeq, BoundAssumption DEF NoScheduler, Scheduler, SchedulerPc
  <2>2. \A g \in Generation : scheduler[g] = NoScheduler
    BY DEF Init
  <2>3. DistinctTasks(NoScheduler.batch)
    BY EmptySeq, LenProperties DEF NoScheduler, DistinctTasks
  <2> QED
    BY <2>1, <2>2, <2>3 DEF Rounds, Init
<1> QED
  BY <1>1, <1>4, <1>5 DEF IInv

-----------------------------------------------------------------------------
(* Core, step by step.                                                     *)

LEMMA CoreUnchanged ==
  ASSUME Core, UNCHANGED coreVars
  PROVE  Core'
BY DEF Core, coreVars, Consistent

\* A goroutine that goes on to its next statement.
LEMMA GoesFields ==
  ASSUME NEW pool \in Pool, NEW w \in Busy(pool), NEW pc \in WorkerPc \ {"idle"}
  PROVE  LET next == [pool EXCEPT ![w].pc = pc]
         IN  /\ next \in Pool
             /\ Busy(next) = Busy(pool)
             /\ Executing(next) = Executing(pool)
             /\ OneEach(pool) => OneEach(next)
<1> DEFINE next == [pool EXCEPT ![w].pc = pc]
<1>1. w \in Worker /\ pool[w] \in BusyWorker
  BY PoolFields DEF Busy
<1>2. /\ next[w] = [pool[w] EXCEPT !.pc = pc]
      /\ \A v \in Worker \ {w} : next[v] = pool[v]
      /\ next = [v \in Worker |-> next[v]]
  BY <1>1 DEF Pool
<1> HIDE DEF next
<1>3. next[w] \in BusyWorker /\ next[w].pc = pc /\ next[w].task = pool[w].task
  BY <1>1, <1>2 DEF BusyWorker
<1>4. next \in Pool
  <2>1. \A v \in Worker : next[v] \in {IdleWorker} \cup BusyWorker
    BY <1>2, <1>3 DEF Pool
  <2> QED
    BY <1>2, <2>1 DEF Pool
<1>5. Busy(next) = Busy(pool)
  BY <1>2, <1>3 DEF Busy
<1>6. \A v \in Busy(pool) : next[v].task = pool[v].task
  BY <1>2, <1>3 DEF Busy
<1>7. Executing(next) = Executing(pool) /\ (OneEach(pool) => OneEach(next))
  BY <1>5, <1>6 DEF Executing, OneEach
<1> QED
  BY <1>4, <1>5, <1>7 DEF next

LEMMA CoreGoes ==
  ASSUME Core, NEW w \in Busy(worker), NEW pc \in WorkerPc \ {"idle"}, Goes(w, pc),
         UNCHANGED <<numWorkers, tasks, active, reserved>>
  PROVE  Core'
<1>1. worker \in Pool /\ worker' = [worker EXCEPT ![w].pc = pc]
  BY DEF Core, Consistent, Goes
<1>2. /\ worker' \in Pool
      /\ Busy(worker') = Busy(worker)
      /\ Executing(worker') = Executing(worker)
      /\ OneEach(worker) => OneEach(worker')
  BY <1>1, GoesFields
<1>3. Consistent(tasks', active', worker')
  BY <1>2 DEF Core, Consistent, Disjoint
<1> QED
  BY <1>2, <1>3 DEF Core

\* The goroutine in slot w ends.
LEMMA LeaveFields ==
  ASSUME NEW pool \in Pool, NEW w \in Busy(pool), OneEach(pool)
  PROVE  LET next == [pool EXCEPT ![w] = IdleWorker]
         IN  /\ next \in Pool
             /\ Busy(next) = Busy(pool) \ {w}
             /\ OneEach(next)
             /\ Executing(next) = Executing(pool) \ {pool[w].task}
             /\ Cardinality(Busy(next)) = Cardinality(Busy(pool)) - 1
<1> DEFINE next == [pool EXCEPT ![w] = IdleWorker]
<1>1. w \in Worker
  BY DEF Busy
<1>2. /\ next[w] = IdleWorker
      /\ \A v \in Worker \ {w} : next[v] = pool[v]
  BY <1>1 DEF Pool
<1>3. next \in Pool
  BY <1>1 DEF Pool
<1> HIDE DEF next
<1>4. Busy(next) = Busy(pool) \ {w}
  BY <1>1, <1>2 DEF Busy, IdleWorker
<1>5. \A v \in Busy(next) : next[v].task = pool[v].task
  BY <1>2, <1>4 DEF Busy
<1>6. OneEach(next)
  BY <1>4, <1>5 DEF OneEach
<1>7. \A v \in Busy(pool) : pool[v].task = pool[w].task => v = w
  BY DEF OneEach
<1>8. Executing(next) = Executing(pool) \ {pool[w].task}
  BY <1>4, <1>5, <1>7 DEF Executing
<1>9. Cardinality(Busy(next)) = Cardinality(Busy(pool)) - 1
  BY <1>4, BusyIsFinite, FS_RemoveElement
<1> QED
  BY <1>3, <1>4, <1>6, <1>8, <1>9 DEF next

\* What StartsWithinLimit asks of one step, in terms of active.
StartsAllowed == \A v \in Worker : Started(v) => running /\ active' <= numWorkers

\* Dispatch from the goroutines as they are, or without one that has ended,
\* keeps to the limit.
LEMMA DispatchAllowed ==
  ASSUME NEW chan, NEW act, NEW pool, Consistent(chan, act, pool),
         numWorkers \in Nat, StartWorkersLocked(chan, act, pool),
         \A v \in Worker : pool[v] = worker[v] \/ pool[v] = IdleWorker
  PROVE  StartsAllowed
<1> SUFFICES ASSUME NEW v \in Worker, Started(v)
             PROVE  running /\ active' <= numWorkers
  BY DEF StartsAllowed
<1>1. worker'[v] # pool[v]
  BY DEF Started, IdleWorker
<1> QED
  BY <1>1, DispatchLimit

LEMMA CoreWorkerExit ==
  ASSUME Core, NEW w \in Worker, WorkerExit(w)
  PROVE  Core' /\ StartsAllowed
<1> DEFINE pool == [worker EXCEPT ![w] = IdleWorker]
<1>1. /\ worker \in Pool /\ OneEach(worker) /\ Disjoint(tasks, worker)
      /\ tasks \in Seq(Snapshot) /\ DistinctTasks(tasks)
      /\ active = Cardinality(Busy(worker))
      /\ numWorkers \in Nat
  BY BoundAssumption DEF Core, Consistent
<1>2. w \in Busy(worker)
  BY DEF WorkerExit, Busy
<1>3. /\ pool \in Pool
      /\ OneEach(pool)
      /\ Executing(pool) = Executing(worker) \ {worker[w].task}
      /\ Cardinality(Busy(pool)) = active - 1
  BY <1>1, <1>2, LeaveFields
<1>4. StartWorkersLocked(tasks, active - 1, pool)
  BY DEF WorkerExit
<1>p. \A v \in Worker : pool[v] = worker[v] \/ pool[v] = IdleWorker
  BY <1>1 DEF Pool
<1> HIDE DEF pool
<1>5. Consistent(tasks, active - 1, pool)
  BY <1>1, <1>3 DEF Consistent, Disjoint
<1>6. /\ Consistent(tasks', active', worker')
      /\ Len(tasks') <= Len(tasks)
      /\ Buffered(tasks') \cup Executing(worker') = Buffered(tasks) \cup Executing(pool)
  BY <1>1, <1>4, <1>5, Dispatch
<1>7. reserved' = Buffered(tasks) \cup Executing(pool)
  <2>1. worker[w].task \in Executing(worker)
    BY <1>2 DEF Executing
  <2>2. worker[w].task \notin Buffered(tasks)
    BY <1>1, <2>1 DEF Disjoint
  <2> QED
    BY <1>3, <2>2 DEF WorkerExit, Core
<1>8. Len(tasks') <= numWorkers /\ numWorkers' = numWorkers
  <2>1. tasks' \in Seq(Snapshot)
    BY <1>6 DEF Consistent
  <2>2. Len(tasks) \in Nat /\ Len(tasks') \in Nat
    BY <1>1, <2>1, LenProperties
  <2>3. Len(tasks) <= numWorkers /\ numWorkers' = numWorkers
    BY DEF Core, WorkerExit
  <2> QED
    BY <1>1, <1>6, <2>2, <2>3
<1>9. Core'
  BY <1>6, <1>7, <1>8 DEF Core
<1>10. StartsAllowed
  BY <1>1, <1>4, <1>5, <1>p, DispatchAllowed
<1> QED
  BY <1>9, <1>10

\* The channel keeps its first m tasks, the rest is no longer reserved.
LEMMA CoreCut ==
  ASSUME Core, NEW m \in 0..Len(tasks),
         tasks' = SubSeq(tasks, 1, m),
         reserved' = reserved \ Buffered(SubSeq(tasks, m + 1, Len(tasks))),
         UNCHANGED <<active, worker>>,
         numWorkers' \in 1..MaxThreads, m <= numWorkers'
  PROVE  Core'
<1> DEFINE rest == SubSeq(tasks, m + 1, Len(tasks))
<1>1. /\ tasks \in Seq(Snapshot) /\ worker \in Pool
      /\ DistinctTasks(tasks) /\ OneEach(worker) /\ Disjoint(tasks, worker)
      /\ active = Cardinality(Busy(worker))
      /\ reserved = Buffered(tasks) \cup Executing(worker)
  BY DEF Core, Consistent
<1>2. Len(tasks) \in Nat /\ m \in 0..Len(tasks) /\ DOMAIN tasks = 1..Len(tasks)
  BY <1>1, LenProperties
<1>3. \A i \in 1..Len(tasks) : tasks[i] \in Snapshot
  BY <1>1, LenProperties
<1>4. /\ tasks' \in Seq(Snapshot)
      /\ Len(tasks') = m
      /\ \A i \in 1..m : tasks'[i] = tasks[i]
  <2>1. \A i \in 1..m : tasks[i] \in Snapshot
    BY <1>2, <1>3
  <2>2. /\ tasks' \in Seq(Snapshot)
        /\ Len(tasks') = IF 1 <= m THEN m - 1 + 1 ELSE 0
        /\ \A i \in 1..(m - 1 + 1) : tasks'[i] = tasks[1 + i - 1]
    BY <1>2, <2>1, SubSeqProperties
  <2>3. m - 1 + 1 = m /\ Len(tasks') = m
    BY <1>2, <2>2
  <2>4. \A i \in 1..m : 1 + i - 1 = i
    BY <1>2
  <2> QED
    BY <2>2, <2>3, <2>4
<1>5. DOMAIN tasks' = 1..m
  BY <1>4, LenProperties
<1>6. Buffered(rest) = {tasks[i].task : i \in (m + 1)..Len(tasks)}
  BY <1>1, <1>2, Split
<1> HIDE DEF rest
<1>7. Buffered(tasks') = {tasks[i].task : i \in 1..m}
  BY <1>4, <1>5 DEF Buffered
<1>8. DistinctTasks(tasks')
  <2>1. \A i \in 1..m : i \in DOMAIN tasks
    BY <1>2
  <2> QED
    BY <1>1, <1>4, <1>5, <2>1 DEF DistinctTasks
<1>9. Buffered(tasks) = Buffered(tasks') \cup Buffered(rest)
  <2>1. \A i \in 1..Len(tasks) : i \in 1..m \/ i \in (m + 1)..Len(tasks)
    BY <1>2
  <2>2. /\ \A i \in 1..m : i \in 1..Len(tasks)
        /\ \A i \in (m + 1)..Len(tasks) : i \in 1..Len(tasks)
    BY <1>2
  <2> QED
    BY <2>1, <2>2, <1>2, <1>6, <1>7 DEF Buffered
<1>10. Buffered(tasks') \cap Buffered(rest) = {}
  <2> SUFFICES ASSUME NEW i \in 1..m, NEW j \in (m + 1)..Len(tasks),
                      tasks[i].task = tasks[j].task
               PROVE  FALSE
    BY <1>6, <1>7
  <2>1. i \in DOMAIN tasks /\ j \in DOMAIN tasks /\ i # j
    BY <1>2
  <2> QED
    BY <2>1, <1>1 DEF DistinctTasks
<1>11. reserved' = Buffered(tasks') \cup Executing(worker)
  BY <1>1, <1>9, <1>10 DEF Disjoint, rest
<1>12. Consistent(tasks', active', worker')
  BY <1>1, <1>4, <1>8, <1>9 DEF Consistent, Disjoint
<1> QED
  BY <1>4, <1>11, <1>12 DEF Core

LEMMA CoreStop ==
  ASSUME Core, Stop
  PROVE  Core'
<1>1. tasks \in Seq(Snapshot) /\ Len(tasks) \in Nat /\ numWorkers \in 1..MaxThreads
  BY LenProperties DEF Core, Consistent
<1>2. tasks' = SubSeq(tasks, 1, 0)
  BY SubSeqEmpty DEF Stop
<1>3. SubSeq(tasks, 0 + 1, Len(tasks)) = tasks
  BY <1>1, SubSeqFull
<1>4. 0 \in 0..Len(tasks) /\ 0 <= numWorkers' /\ numWorkers' \in 1..MaxThreads
  BY <1>1, BoundAssumption DEF Stop
<1>5. /\ reserved' = reserved \ Buffered(SubSeq(tasks, 0 + 1, Len(tasks)))
      /\ UNCHANGED <<active, worker>>
  BY <1>3 DEF Stop
<1> QED
  BY <1>2, <1>4, <1>5, CoreCut

LEMMA CoreUpdateConcurrency ==
  ASSUME Core, NEW n \in 1..MaxThreads, UpdateConcurrency(n)
  PROVE  Core'
<1> DEFINE m == IF n < Len(tasks) THEN n ELSE Len(tasks)
<1>1. tasks \in Seq(Snapshot) /\ Len(tasks) \in Nat /\ n \in Nat
  BY LenProperties, BoundAssumption DEF Core, Consistent
<1>2. m \in 0..Len(tasks) /\ m <= n
  BY <1>1
<1>3. SubSeq(tasks, n + 1, Len(tasks)) = SubSeq(tasks, m + 1, Len(tasks))
  <2>1. CASE n < Len(tasks)
    BY <2>1
  <2>2. CASE ~(n < Len(tasks))
    <3>1. Len(tasks) < n + 1 /\ Len(tasks) < m + 1 /\ n + 1 \in Int /\ m + 1 \in Int
      BY <1>1, <2>2
    <3> HIDE DEF m
    <3>2. SubSeq(tasks, n + 1, Len(tasks)) = <<>>
      BY <1>1, <3>1, SubSeqEmpty
    <3>3. SubSeq(tasks, m + 1, Len(tasks)) = <<>>
      BY <1>1, <3>1, SubSeqEmpty
    <3> QED
      BY <3>2, <3>3
  <2> QED
    BY <2>1, <2>2
<1>4. /\ tasks' = SubSeq(tasks, 1, m)
      /\ reserved' = reserved \ Buffered(SubSeq(tasks, m + 1, Len(tasks)))
      /\ UNCHANGED <<active, worker>>
      /\ numWorkers' = n
  BY <1>3 DEF UpdateConcurrency
<1> HIDE DEF m
<1> QED
  BY <1>2, <1>4, CoreCut

LEMMA CoreCrash ==
  ASSUME Core, Crash
  PROVE  Core'
<1>1. /\ tasks' = <<>>
      /\ reserved' = {}
      /\ active' = 0
      /\ worker' = [w \in Worker |-> IdleWorker]
      /\ numWorkers' \in 1..MaxThreads
  BY DEF Crash, Core
<1>2. /\ tasks' \in Seq(Snapshot)
      /\ Len(tasks') = 0
      /\ DOMAIN tasks' = {}
  <2>1. tasks' \in Seq(Snapshot) /\ Len(tasks') = 0
    BY <1>1, EmptySeq
  <2>2. DOMAIN tasks' = 1..0
    BY <2>1, LenProperties
  <2> QED
    BY <2>1, <2>2
<1>3. Busy(worker') = {} /\ worker' \in Pool
  BY <1>1 DEF Busy, Pool, IdleWorker
<1>4. Cardinality(Busy(worker')) = 0
  BY <1>3, FS_EmptySet
<1>5. Buffered(tasks') = {} /\ Executing(worker') = {}
  BY <1>2, <1>3 DEF Buffered, Executing
<1>6. Consistent(tasks', active', worker')
  BY <1>1, <1>2, <1>3, <1>4, <1>5 DEF Consistent, DistinctTasks, OneEach, Disjoint
<1>7. Len(tasks') <= numWorkers'
  BY <1>1, <1>2, BoundAssumption
<1> QED
  BY <1>1, <1>5, <1>6, <1>7 DEF Core

LEMMA CoreTick ==
  ASSUME Core, NEW g \in Generation, Tick(g)
  PROVE  Core' /\ Len(tasks') \in 0..numWorkers /\ StartsAllowed
<1>1. /\ Consistent(tasks, active, worker)
      /\ numWorkers \in Nat /\ numWorkers' = numWorkers
      /\ reserved' = reserved
      /\ StartWorkersLocked(tasks, active, worker)
  BY BoundAssumption DEF Core, Tick, SchedulerStep
<1>2. /\ Consistent(tasks', active', worker')
      /\ Len(tasks') <= Len(tasks)
      /\ Buffered(tasks') \cup Executing(worker') = Buffered(tasks) \cup Executing(worker)
  BY <1>1, Dispatch
<1>3. Len(tasks) \in Nat /\ Len(tasks') \in Nat
  <2>1. tasks \in Seq(Snapshot) /\ tasks' \in Seq(Snapshot)
    BY <1>1, <1>2 DEF Consistent
  <2> QED
    BY <2>1, LenProperties
<1>4. Len(tasks) <= numWorkers
  BY DEF Core
<1>5. Len(tasks') <= numWorkers /\ Len(tasks') \in 0..numWorkers
  BY <1>1, <1>2, <1>3, <1>4
<1>6. numWorkers' \in 1..MaxThreads
  BY <1>1 DEF Core
<1>7. Core'
  BY <1>1, <1>2, <1>5, <1>6 DEF Core
<1>8. StartsAllowed
  BY <1>1, DispatchAllowed
<1> QED
  BY <1>5, <1>7, <1>8

\* The entries a push accepts are new to the queue and differ from each other.
LEMMA CorePush ==
  ASSUME Core, Rounds, NEW g \in Generation, Push(g), Current(g)
  PROVE  Core' /\ StartsAllowed
<1> DEFINE batch == scheduler[g].batch
<1>1. /\ batch \in Seq(Snapshot) /\ DistinctTasks(batch)
      /\ DOMAIN batch = 1..Len(batch)
      /\ \A i \in DOMAIN batch : batch[i] \in Snapshot
  <2>1. batch \in Seq(Snapshot) /\ DistinctTasks(batch)
    BY DEF Rounds, Scheduler
  <2> HIDE DEF batch
  <2> QED
    BY <2>1, LenProperties
<1>2. /\ tasks \in Seq(Snapshot) /\ worker \in Pool
      /\ DistinctTasks(tasks) /\ OneEach(worker) /\ Disjoint(tasks, worker)
      /\ active = Cardinality(Busy(worker))
      /\ reserved = Buffered(tasks) \cup Executing(worker)
      /\ numWorkers \in 1..MaxThreads /\ numWorkers \in Nat
      /\ Len(tasks) <= numWorkers /\ Len(tasks) \in Nat
      /\ DOMAIN tasks = 1..Len(tasks)
  BY LenProperties, BoundAssumption DEF Core, Consistent
<1>3. PICK pick \in SmallestLists(Room, Fresh(g)) :
        LET accepted == [i \in DOMAIN pick |-> batch[pick[i]]]
        IN  /\ reserved' = reserved \cup Buffered(accepted)
            /\ StartWorkersLocked(tasks \o accepted, active, worker)
  BY DEF Push
<1> DEFINE n == AtMost(Room, Cardinality(Fresh(g)))
           accepted == [i \in DOMAIN pick |-> batch[pick[i]]]
           chan == tasks \o accepted
<1>4. Room \in Nat /\ Len(tasks) + Room <= numWorkers
  BY <1>2 DEF Room
<1>5. Cardinality(Fresh(g)) \in Nat
  <2>1. Fresh(g) \in SUBSET (1..Len(batch))
    BY <1>1 DEF Fresh
  <2>2. Len(batch) \in Nat
    BY <1>1, LenProperties
  <2>3. IsFiniteSet(1..Len(batch))
    BY <2>2, FS_Interval
  <2> QED
    BY <2>1, <2>3, FS_Subset, FS_CardinalityType
<1>6. n \in Nat /\ n <= Room
  BY <1>4, <1>5 DEF AtMost
<1> HIDE DEF n
<1>7. /\ pick \in [1..n -> Fresh(g)]
      /\ DOMAIN pick = 1..n
      /\ \A i, j \in 1..n : pick[i] = pick[j] => i = j
  <2>1. pick \in Injection(1..n, Fresh(g))
    BY <1>3 DEF SmallestLists, n
  <2> QED
    BY <2>1 DEF Injection, IsInjective
<1>8. \A i \in 1..n : /\ pick[i] \in DOMAIN batch
                      /\ batch[pick[i]] \in Snapshot
                      /\ batch[pick[i]].task \notin reserved
  BY <1>1, <1>7 DEF Fresh
<1> HIDE DEF batch
<1>9. /\ accepted \in Seq(Snapshot)
      /\ Len(accepted) = n
      /\ DOMAIN accepted = 1..n
  <2>1. accepted \in [1..n -> Snapshot] /\ DOMAIN accepted = 1..n
    BY <1>7, <1>8
  <2> HIDE DEF accepted
  <2>2. accepted \in Seq(Snapshot)
    BY <2>1, <1>6
  <2>3. DOMAIN accepted = 1..Len(accepted) /\ Len(accepted) \in Nat
    BY <2>2, LenProperties
  <2>4. Len(accepted) = n
    BY <2>1, <2>3, <1>6
  <2> QED
    BY <2>1, <2>2, <2>4
<1>10. \A i \in 1..n : accepted[i] = batch[pick[i]]
  BY <1>7
<1>11. StartWorkersLocked(chan, active, worker) /\ reserved' = reserved \cup Buffered(accepted)
  BY <1>3
<1> HIDE DEF accepted
<1>12. DistinctTasks(accepted)
  BY <1>1, <1>7, <1>8, <1>9, <1>10 DEF DistinctTasks
<1>13. Buffered(accepted) \cap reserved = {}
  BY <1>8, <1>9, <1>10 DEF Buffered
<1>14. /\ chan \in Seq(Snapshot)
       /\ Len(chan) = Len(tasks) + n
       /\ \A i \in 1..(Len(tasks) + n) :
            chan[i] = IF i <= Len(tasks) THEN tasks[i] ELSE accepted[i - Len(tasks)]
  BY <1>2, <1>9, ConcatProperties
<1> HIDE DEF chan
<1>15. DOMAIN chan = 1..(Len(tasks) + n)
  BY <1>14, LenProperties
<1>16. \A i \in DOMAIN chan :
         \/ i \in DOMAIN tasks /\ chan[i] = tasks[i]
         \/ i - Len(tasks) \in DOMAIN accepted /\ chan[i] = accepted[i - Len(tasks)]
  <2> SUFFICES ASSUME NEW i \in 1..(Len(tasks) + n)
               PROVE  \/ i \in 1..Len(tasks) /\ chan[i] = tasks[i]
                      \/ i - Len(tasks) \in 1..n /\ chan[i] = accepted[i - Len(tasks)]
    BY <1>2, <1>9, <1>15
  <2>1. \/ i <= Len(tasks) /\ i \in 1..Len(tasks)
        \/ ~(i <= Len(tasks)) /\ i - Len(tasks) \in 1..n
    BY <1>2, <1>6
  <2> QED
    BY <2>1, <1>14
<1>17. Buffered(chan) = Buffered(tasks) \cup Buffered(accepted)
  <2>1. Buffered(chan) \subseteq Buffered(tasks) \cup Buffered(accepted)
    BY <1>16 DEF Buffered
  <2>2. ASSUME NEW i \in DOMAIN tasks
        PROVE  tasks[i].task \in Buffered(chan)
    <3>1. i \in 1..(Len(tasks) + n) /\ i <= Len(tasks)
      BY <1>2, <1>6
    <3> QED
      BY <3>1, <1>14, <1>15 DEF Buffered
  <2>3. ASSUME NEW i \in DOMAIN accepted
        PROVE  accepted[i].task \in Buffered(chan)
    <3>1. /\ Len(tasks) + i \in 1..(Len(tasks) + n)
          /\ ~(Len(tasks) + i <= Len(tasks))
          /\ (Len(tasks) + i) - Len(tasks) = i
      BY <1>2, <1>6, <1>9
    <3>2. chan[Len(tasks) + i] = accepted[i]
      BY <3>1, <1>14
    <3> QED
      BY <3>1, <3>2, <1>15 DEF Buffered
  <2> QED
    BY <2>1, <2>2, <2>3 DEF Buffered
<1>18. DistinctTasks(chan)
  <2> SUFFICES ASSUME NEW i \in DOMAIN chan, NEW j \in DOMAIN chan,
                      chan[i].task = chan[j].task
               PROVE  i = j
    BY DEF DistinctTasks
  <2>1. CASE i \in DOMAIN tasks /\ chan[i] = tasks[i] /\ j \in DOMAIN tasks /\ chan[j] = tasks[j]
    BY <2>1, <1>2 DEF DistinctTasks
  <2>2. CASE /\ i - Len(tasks) \in DOMAIN accepted /\ chan[i] = accepted[i - Len(tasks)]
             /\ j - Len(tasks) \in DOMAIN accepted /\ chan[j] = accepted[j - Len(tasks)]
    <3>1. i - Len(tasks) = j - Len(tasks)
      BY <2>2, <1>12 DEF DistinctTasks
    <3> QED
      BY <3>1, <1>2, <1>6, <1>15
  <2>3. CASE /\ i \in DOMAIN tasks /\ chan[i] = tasks[i]
             /\ j - Len(tasks) \in DOMAIN accepted /\ chan[j] = accepted[j - Len(tasks)]
    BY <2>3, <1>2, <1>13 DEF Buffered
  <2>4. CASE /\ j \in DOMAIN tasks /\ chan[j] = tasks[j]
             /\ i - Len(tasks) \in DOMAIN accepted /\ chan[i] = accepted[i - Len(tasks)]
    BY <2>4, <1>2, <1>13 DEF Buffered
  <2> QED
    BY <2>1, <2>2, <2>3, <2>4, <1>16
<1>19. Consistent(chan, active, worker)
  BY <1>2, <1>13, <1>14, <1>17, <1>18 DEF Consistent, Disjoint
<1>20. /\ Consistent(tasks', active', worker')
       /\ Len(tasks') <= Len(chan)
       /\ Buffered(tasks') \cup Executing(worker') = Buffered(chan) \cup Executing(worker)
  BY <1>2, <1>11, <1>19, Dispatch
<1>21. numWorkers' = numWorkers
  BY DEF Push, SchedulerStep
<1>22. Len(tasks') <= numWorkers'
  <2>1. Len(tasks') \in Nat
    BY <1>20, LenProperties DEF Consistent
  <2> QED
    BY <2>1, <1>2, <1>4, <1>6, <1>14, <1>20, <1>21
<1>23. Core'
  BY <1>2, <1>11, <1>17, <1>20, <1>21, <1>22 DEF Core
<1>24. StartsAllowed
  BY <1>2, <1>11, <1>19, DispatchAllowed
<1> QED
  BY <1>23, <1>24

\* The actions that leave the queue's own state alone, or let one goroutine go
\* on to its next statement.
LEMMA CoreStep ==
  ASSUME Core, Rounds, [Next]_vars
  PROVE  Core'
<1> USE DEF coreVars, queueVars, budgetVars
<1>1. CASE InitUQ \/ Start
  BY <1>1, CoreUnchanged DEF InitUQ, Start
<1>2. CASE Startup
  BY <1>2, CoreUnchanged DEF Startup, ResetUploading, ResetFinalizing, ResetError
<1>3. CASE Stop
  BY <1>3, CoreStop
<1>4. CASE \E n \in 1..MaxThreads : UpdateConcurrency(n)
  BY <1>4, CoreUpdateConcurrency
<1>5. CASE \E t \in Task : AddUploadTask(t) \/ AddRemoteExistsUploadTask(t)
  BY <1>5, CoreUnchanged DEF AddUploadTask, AddRemoteExistsUploadTask, RowsChange
<1>6. CASE \E old, t \in Task : SupersedeFailedUploadTask(old, t)
  BY <1>6, CoreUnchanged DEF SupersedeFailedUploadTask, RowsChange
<1>7. CASE ClearPendingUploadTasks \/ ClearUploadSuccessAndFailed
             \/ \E last \in Task : ClearExpireUploadTasks(last)
  BY <1>7, CoreUnchanged DEF ClearPendingUploadTasks, ClearUploadSuccessAndFailed,
       ClearExpireUploadTasks, DeleteRows, RowsChange
<1>8. CASE RetryFailedByUser
  BY <1>8, CoreUnchanged DEF RetryFailedByUser
<1>9. CASE Crash
  BY <1>9, CoreCrash
<1>10. ASSUME NEW w \in Worker, WorkerNext(w)
       PROVE  Core'
  <2>1. CASE WorkerExit(w)
    BY <2>1, CoreWorkerExit
  <2>2. CASE ~WorkerExit(w)
    <3>1. \E pc \in WorkerPc \ {"idle"} : Goes(w, pc)
      BY <1>10, <2>2 DEF WorkerNext, ClaimPendingUpload, Transfer, SaveOutcome, SaveRefused,
           ClaimRemoteCompletedFinalize, FinalizeRemoteCompletedUpload, FinalizeError,
           Complete, RevertRemoteCompletedFinalizing, WorkerDbError, ConditionalUpdate,
           WorkerPc
    <3>2. UNCHANGED <<numWorkers, tasks, active, reserved>>
      BY <1>10, <2>2 DEF WorkerNext, ClaimPendingUpload, Transfer, SaveOutcome, SaveRefused,
           ClaimRemoteCompletedFinalize, FinalizeRemoteCompletedUpload, FinalizeError,
           Complete, RevertRemoteCompletedFinalizing, WorkerDbError, WorkerStep
    <3>3. worker[w].pc # "idle"
      BY <1>10, <2>2 DEF WorkerNext, ClaimPendingUpload, Transfer, SaveOutcome, SaveRefused,
           ClaimRemoteCompletedFinalize, FinalizeRemoteCompletedUpload, FinalizeError,
           Complete, RevertRemoteCompletedFinalizing, WorkerDbError, WorkerStep
    <3>4. w \in Busy(worker)
      BY <3>3 DEF Busy
    <3> QED
      BY <3>1, <3>2, <3>4, CoreGoes
  <2> QED
    BY <2>1, <2>2
<1>11. ASSUME NEW g \in Generation, SchedulerNext(g)
       PROVE  Core'
  <2>1. CASE Tick(g)
    BY <2>1, CoreTick
  <2>2. CASE Push(g) /\ Current(g)
    BY <2>2, CorePush
  <2>3. CASE Push(g) /\ ~Current(g)
    BY <2>3, CoreUnchanged DEF Push, SchedulerStep
  <2>4. CASE SchedulerStops(g) \/ RetryWhenIdle(g)
    BY <2>4, CoreUnchanged DEF SchedulerStops, RetryWhenIdle, SchedulerStep
  <2>5. CASE CountClaimable(g) \/ CountUploading(g) \/ EnterIdle(g) \/ GetPendingUploadTasks(g)
    BY <2>5, CoreUnchanged DEF CountClaimable, CountUploading, EnterIdle,
         GetPendingUploadTasks, SchedulerStep, SchedulerReads
  <2>6. CASE SchedulerDbError(g)
    BY <2>6, CoreUnchanged DEF SchedulerDbError, SchedulerStep, SchedulerReads
  <2> QED
    BY <1>11, <2>1, <2>2, <2>3, <2>4, <2>5, <2>6 DEF SchedulerNext
<1>12. CASE UNCHANGED vars
  BY <1>12, CoreUnchanged DEF vars
<1> QED
  BY <1>1, <1>2, <1>3, <1>4, <1>5, <1>6, <1>7, <1>8, <1>9, <1>10, <1>11, <1>12
     DEF Next, Operator

-----------------------------------------------------------------------------
(* Rounds, step by step.                                                   *)

\* One scheduler moves to a state in order.
LEMMA RoundsSet ==
  ASSUME Rounds, NEW g \in Generation, NEW s \in Scheduler, DistinctTasks(s.batch),
         scheduler' = [scheduler EXCEPT ![g] = s]
  PROVE  Rounds'
BY DEF Rounds

LEMMA RoundsProceed ==
  ASSUME Rounds, NEW g \in Generation, NEW pc \in SchedulerPc, Proceeds(g, pc)
  PROVE  Rounds'
<1> DEFINE s == [NoScheduler EXCEPT !.pc = pc]
<1>1. s = [pc |-> pc, excluded |-> {}, space |-> 0, batch |-> <<>>]
  BY SMTT(40) DEF NoScheduler
<1>2. s \in Scheduler
  <2>1. <<>> \in Seq(Snapshot) /\ 0 \in 0..MaxThreads
    BY EmptySeq, BoundAssumption
  <2> HIDE DEF s
  <2> QED
    BY <1>1, <2>1 DEF Scheduler
<1>3. DistinctTasks(s.batch)
  <2>1. s.batch = <<>>
    BY <1>1
  <2>2. DOMAIN <<>> = {}
    OBVIOUS
  <2> QED
    BY <2>1, <2>2 DEF DistinctTasks
<1>4. scheduler' = [scheduler EXCEPT ![g] = s]
  BY DEF Proceeds
<1> HIDE DEF s
<1> QED
  BY <1>2, <1>3, <1>4, RoundsSet

LEMMA RoundsTick ==
  ASSUME Core, Rounds, NEW g \in Generation, Tick(g)
  PROVE  Rounds'
<1>1. Len(tasks') \in 0..numWorkers /\ numWorkers \in 1..MaxThreads
  BY CoreTick DEF Core
<1>2. reserved \in SUBSET Task
  BY TasksOfChannel, TasksOfPool DEF Core, Consistent
<1>3. numWorkers - Len(tasks') \in 0..MaxThreads
  BY <1>1, BoundAssumption
<1>4. CASE Len(tasks') = numWorkers
  <2>1. Proceeds(g, "wait")
    BY <1>4 DEF Tick, Proceeds, Waiting
  <2> QED
    BY <2>1, RoundsProceed DEF SchedulerPc
<1>5. CASE Len(tasks') # numWorkers
  <2> DEFINE s == [pc |-> "count", excluded |-> reserved,
                   space |-> numWorkers - Len(tasks'), batch |-> <<>>]
  <2>1. s \in Scheduler
    BY <1>2, <1>3, EmptySeq DEF Scheduler, SchedulerPc
  <2>2. DistinctTasks(s.batch)
    BY DEF DistinctTasks
  <2>3. scheduler' = [scheduler EXCEPT ![g] = s]
    BY <1>5 DEF Tick
  <2> HIDE DEF s
  <2> QED
    BY <2>1, <2>2, <2>3, RoundsSet
<1> QED
  BY <1>4, <1>5

\* The query lists each row once.
LEMMA RoundsFetch ==
  ASSUME Rounds, NEW g \in Generation, GetPendingUploadTasks(g)
  PROVE  Rounds'
<1> DEFINE n == AtMost(scheduler[g].space, Cardinality(Wanted(g)))
<1>1. PICK id \in SmallestLists(scheduler[g].space, Wanted(g)) :
        scheduler' = [scheduler EXCEPT ![g] =
          [pc |-> "push", excluded |-> {}, space |-> 0,
           batch |-> [i \in DOMAIN id |-> [task |-> id[i], status |-> row[id[i]]]]]]
  BY DEF GetPendingUploadTasks
<1> DEFINE batch == [i \in DOMAIN id |-> [task |-> id[i], status |-> row[id[i]]]]
           s == [pc |-> "push", excluded |-> {}, space |-> 0, batch |-> batch]
<1>2. n \in Nat
  <2>1. Cardinality(Wanted(g)) \in Nat
    BY TaskAssumption, FS_Subset, FS_CardinalityType DEF Wanted
  <2>2. scheduler[g].space \in Nat
    BY BoundAssumption DEF Rounds, Scheduler
  <2> QED
    BY <2>1, <2>2 DEF AtMost
<1> HIDE DEF n
<1>3. /\ id \in [1..n -> Wanted(g)]
      /\ DOMAIN id = 1..n
      /\ \A i, j \in 1..n : id[i] = id[j] => i = j
  <2>1. id \in Injection(1..n, Wanted(g))
    BY <1>1 DEF SmallestLists, n
  <2> QED
    BY <2>1 DEF Injection, IsInjective
<1>4. \A i \in 1..n : [task |-> id[i], status |-> row[id[i]]] \in Snapshot
  BY <1>3 DEF Wanted, Snapshot
<1>5. batch \in Seq(Snapshot)
  BY <1>2, <1>3, <1>4
<1>6. DistinctTasks(batch)
  BY <1>3 DEF DistinctTasks
<1>7. scheduler' = [scheduler EXCEPT ![g] = s]
  BY <1>1
<1> HIDE DEF batch
<1>8. s \in Scheduler
  BY <1>5, BoundAssumption DEF Scheduler, SchedulerPc
<1>9. DistinctTasks(s.batch)
  BY <1>6
<1> HIDE DEF s
<1> QED
  BY <1>7, <1>8, <1>9, RoundsSet

LEMMA RoundsCountClaimable ==
  ASSUME Rounds, NEW g \in Generation, CountClaimable(g)
  PROVE  Rounds'
<1>1. CASE Proceeds(g, "countUploading")
  BY <1>1, RoundsProceed DEF SchedulerPc
<1>2. CASE scheduler' = [scheduler EXCEPT ![g].pc = "fetch"]
  <2> DEFINE s == [scheduler[g] EXCEPT !.pc = "fetch"]
  <2>1. scheduler[g] \in Scheduler /\ DistinctTasks(scheduler[g].batch)
    BY DEF Rounds
  <2>2. s \in Scheduler
    BY <2>1 DEF Scheduler, SchedulerPc
  <2>3. s.batch = scheduler[g].batch
    BY <2>1 DEF Scheduler
  <2>4. scheduler' = [scheduler EXCEPT ![g] = s]
    BY <1>2
  <2> HIDE DEF s
  <2> QED
    BY <2>1, <2>2, <2>3, <2>4, RoundsSet
<1> QED
  BY <1>1, <1>2 DEF CountClaimable

LEMMA RoundsNewGeneration ==
  ASSUME Rounds, generation \in 0..MaxStarts, NewGeneration
  PROVE  Rounds'
<1>1. generation + 1 \in Generation
  BY BoundAssumption DEF NewGeneration, Generation
<1>2. Proceeds(generation + 1, "wait")
  BY DEF NewGeneration, Proceeds, Waiting
<1> QED
  BY <1>1, <1>2, RoundsProceed DEF SchedulerPc

LEMMA RoundsCrash ==
  ASSUME Crash
  PROVE  Rounds'
<1>1. NoScheduler \in Scheduler
  BY EmptySeq, BoundAssumption DEF NoScheduler, Scheduler, SchedulerPc
<1>2. scheduler' = [g \in Generation |-> NoScheduler]
  BY DEF Crash
<1>3. DistinctTasks(NoScheduler.batch)
  BY DEF NoScheduler, DistinctTasks
<1> QED
  BY <1>1, <1>2, <1>3 DEF Rounds

LEMMA RoundsStep ==
  ASSUME Plain, Core, Rounds, [Next]_vars
  PROVE  Rounds'
<1>0. UNCHANGED scheduler => Rounds'
  BY DEF Rounds
<1>1. CASE InitUQ \/ Start
  BY <1>1, RoundsNewGeneration DEF InitUQ, Start, Plain
<1>2. CASE Startup
  BY <1>0, <1>2 DEF Startup, ResetUploading, ResetFinalizing, ResetError
<1>3. CASE Stop \/ \E n \in 1..MaxThreads : UpdateConcurrency(n)
  BY <1>0, <1>3 DEF Stop, UpdateConcurrency
<1>4. CASE \/ \E t \in Task : AddUploadTask(t) \/ AddRemoteExistsUploadTask(t)
           \/ \E old, t \in Task : SupersedeFailedUploadTask(old, t)
  BY <1>0, <1>4 DEF AddUploadTask, AddRemoteExistsUploadTask, SupersedeFailedUploadTask, RowsChange
<1>5. CASE ClearPendingUploadTasks \/ ClearUploadSuccessAndFailed
             \/ \E last \in Task : ClearExpireUploadTasks(last)
  BY <1>0, <1>5 DEF ClearPendingUploadTasks, ClearUploadSuccessAndFailed,
       ClearExpireUploadTasks, DeleteRows, RowsChange
<1>6. CASE RetryFailedByUser
  BY <1>0, <1>6 DEF RetryFailedByUser
<1>7. CASE Crash
  BY <1>7, RoundsCrash
<1>8. ASSUME NEW w \in Worker, WorkerNext(w)
      PROVE  Rounds'
  BY <1>0, <1>8 DEF WorkerNext, ClaimPendingUpload, Transfer, SaveOutcome, SaveRefused,
       ClaimRemoteCompletedFinalize, FinalizeRemoteCompletedUpload, FinalizeError,
       Complete, RevertRemoteCompletedFinalizing, WorkerDbError, WorkerStep, WorkerExit
<1>9. ASSUME NEW g \in Generation, SchedulerNext(g)
      PROVE  Rounds'
  <2>1. CASE Tick(g)
    BY <2>1, RoundsTick
  <2>2. CASE SchedulerStops(g)
    <3>1. Proceeds(g, "off")
      BY <2>2 DEF SchedulerStops, Proceeds, NoScheduler
    <3> QED
      BY <3>1, RoundsProceed DEF SchedulerPc
  <2>3. CASE CountClaimable(g)
    BY <2>3, RoundsCountClaimable
  <2>4. CASE GetPendingUploadTasks(g)
    BY <2>4, RoundsFetch
  <2>5. CASE CountUploading(g) \/ EnterIdle(g) \/ RetryWhenIdle(g) \/ Push(g) \/ SchedulerDbError(g)
    <3>1. \E pc \in SchedulerPc : Proceeds(g, pc)
      BY <2>5 DEF CountUploading, EnterIdle, RetryWhenIdle, Push, SchedulerDbError,
           BackToWait, SchedulerPc
    <3> QED
      BY <3>1, RoundsProceed
  <2> QED
    BY <1>9, <2>1, <2>2, <2>3, <2>4, <2>5 DEF SchedulerNext
<1>10. CASE UNCHANGED vars
  BY <1>0, <1>10 DEF vars
<1> QED
  BY <1>1, <1>2, <1>3, <1>4, <1>5, <1>6, <1>7, <1>8, <1>9, <1>10 DEF Next, Operator

-----------------------------------------------------------------------------
(* Plain, step by step, and the theorems.                                  *)

LEMMA RowUpdate ==
  ASSUME row \in [Task -> Status \cup {Unborn, Deleted}],
         NEW s \in Status, NEW t, row' = [row EXCEPT ![t] = s]
  PROVE  row' \in [Task -> Status \cup {Unborn, Deleted}]
OBVIOUS

\* A retry is granted only below the limit.
LEMMA PlainRetry ==
  ASSUME Plain, RetryFailedUploadTasks
  PROVE  /\ row' \in [Task -> Status \cup {Unborn, Deleted}]
         /\ retries' \in [Task -> 0..MaxRetry]
<1>1. Pending \in Status
  BY DEF Status, Active
<1>2. row' \in [Task -> Status \cup {Unborn, Deleted}]
  BY <1>1 DEF Plain, RetryFailedUploadTasks
<1>3. \A t \in Retried : retries[t] + 1 \in 0..MaxRetry
  BY BoundAssumption DEF Retried, Retriable, Plain
<1>4. \A t \in Task : retries[t] \in 0..MaxRetry
  BY DEF Plain
<1>5. \A t \in Task : (IF t \in Retried THEN retries[t] + 1 ELSE retries[t]) \in 0..MaxRetry
  BY <1>3, <1>4
<1>6. retries' = [t \in Task |-> IF t \in Retried THEN retries[t] + 1 ELSE retries[t]]
  BY DEF RetryFailedUploadTasks
<1> QED
  BY <1>2, <1>5, <1>6

\* A goroutine writes a status to the row of its task, or nothing.
LEMMA WorkerRow ==
  ASSUME Plain, Core, NEW w \in Worker, WorkerNext(w)
  PROVE  row' \in [Task -> Status \cup {Unborn, Deleted}]
<1>1. {Pending, Uploading, PendingFinalize, Finalizing, Completed, Failed, Cancelled}
        \subseteq Status
  BY DEF Status, Active
<1>2. \A pc \in {"fail", "cancel", "markUploaded"} : Outcome(pc) \in Status
  BY <1>1 DEF Outcome
<1>3. CASE ClaimPendingUpload(w) \/ ClaimRemoteCompletedFinalize(w)
           \/ RevertRemoteCompletedFinalizing(w)
  BY <1>1, <1>3 DEF ClaimPendingUpload, ClaimRemoteCompletedFinalize,
       RevertRemoteCompletedFinalizing, ConditionalUpdate, Plain
<1>4. CASE \E pc \in {"fail", "cancel", "markUploaded"} : SaveOutcome(w, pc)
  BY <1>2, <1>4 DEF SaveOutcome, Plain
<1>5. CASE Complete(w)
  BY <1>1, <1>5 DEF Complete, Plain
<1>6. CASE UNCHANGED row
  BY <1>6 DEF Plain
<1> QED
  BY <1>3, <1>4, <1>5, <1>6 DEF WorkerNext, Transfer, SaveRefused,
     FinalizeRemoteCompletedUpload, FinalizeError, WorkerDbError, WorkerExit

LEMMA PlainStep ==
  ASSUME Plain, Core, [Next]_vars
  PROVE  Plain'
<1> DEFINE Row == Status \cup {Unborn, Deleted}
<1>1. {Pending, PendingFinalize, Completed, Cancelled} \subseteq Row /\ Deleted \in Row
  BY DEF Status, Active
<1>2. /\ \A n \in Nat : \A c \in 0..n : c < n => c + 1 \in 0..n
      /\ MaxStarts \in Nat /\ MaxCrashes \in Nat /\ MaxResizes \in Nat
      /\ MaxDbErrors \in Nat /\ MaxFinalErrors \in Nat
  BY BoundAssumption
<1>3. row \in [Task -> Row]
  BY DEF Plain
<1> HIDE DEF Row
<1>4. CASE InitUQ \/ Start
  BY <1>2, <1>4 DEF InitUQ, Start, NewGeneration, Plain, queueVars, budgetVars
<1>5. CASE Startup
  <2>1. row' \in [Task -> Row]
    BY <1>1, <1>3, <1>5 DEF Startup, ResetUploading, ResetFinalizing, ResetError
  <2>2. dbErrors' \in 0..MaxDbErrors
    BY <1>2, <1>5 DEF Startup, ResetUploading, ResetFinalizing, ResetError, DbError, Plain,
         budgetVars
  <2> QED
    BY <1>5, <2>1, <2>2 DEF Startup, ResetUploading, ResetFinalizing, ResetError, DbError,
         Plain, Row, queueVars, budgetVars
<1>6. CASE Stop
  BY <1>6 DEF Stop, Plain, budgetVars
<1>7. CASE \E n \in 1..MaxThreads : UpdateConcurrency(n)
  BY <1>2, <1>7 DEF UpdateConcurrency, Plain
<1>8. CASE \/ \E t \in Task : AddUploadTask(t) \/ AddRemoteExistsUploadTask(t)
           \/ \E old, t \in Task : SupersedeFailedUploadTask(old, t)
           \/ ClearPendingUploadTasks \/ ClearUploadSuccessAndFailed
           \/ \E last \in Task : ClearExpireUploadTasks(last)
  <2>1. row' \in [Task -> Row]
    BY <1>1, <1>3, <1>8 DEF AddUploadTask, AddRemoteExistsUploadTask,
         SupersedeFailedUploadTask, ClearPendingUploadTasks, ClearUploadSuccessAndFailed,
         ClearExpireUploadTasks, DeleteRows
  <2>2. UNCHANGED <<retries, boot, queueVars, budgetVars>>
    BY <1>8 DEF AddUploadTask, AddRemoteExistsUploadTask,
         SupersedeFailedUploadTask, ClearPendingUploadTasks, ClearUploadSuccessAndFailed,
         ClearExpireUploadTasks, DeleteRows, RowsChange
  <2> QED
    BY <2>1, <2>2 DEF Plain, Row, queueVars, budgetVars
<1>9. CASE RetryFailedByUser
  <2>1. row' \in [Task -> Row] /\ retries' \in [Task -> 0..MaxRetry]
    BY <1>9, PlainRetry DEF RetryFailedByUser, Row
  <2> QED
    BY <1>9, <2>1 DEF RetryFailedByUser, Plain, Row, queueVars, budgetVars
<1>10. CASE Crash
  BY <1>2, <1>10 DEF Crash, Plain
<1>11. ASSUME NEW w \in Worker, WorkerNext(w)
       PROVE  Plain'
  <2>1. row' \in [Task -> Row]
    BY <1>11, WorkerRow DEF Row
  <2>2. dbErrors' \in 0..MaxDbErrors /\ finalErrors' \in 0..MaxFinalErrors
    BY <1>2, <1>11 DEF WorkerNext, ClaimPendingUpload, Transfer, SaveOutcome, SaveRefused,
         ClaimRemoteCompletedFinalize, FinalizeRemoteCompletedUpload, FinalizeError,
         Complete, RevertRemoteCompletedFinalizing, WorkerDbError, WorkerExit,
         NoFault, DbError, Plain, budgetVars
  <2>3. UNCHANGED <<retries, boot, running, generation, retryTriggered, crashes, resizes>>
    BY <1>11 DEF WorkerNext, ClaimPendingUpload, Transfer, SaveOutcome, SaveRefused,
         ClaimRemoteCompletedFinalize, FinalizeRemoteCompletedUpload, FinalizeError,
         Complete, RevertRemoteCompletedFinalizing, WorkerDbError, WorkerExit,
         WorkerStep, queueVars, budgetVars
  <2> QED
    BY <2>1, <2>2, <2>3 DEF Plain, Row
<1>12. ASSUME NEW g \in Generation, SchedulerNext(g)
       PROVE  Plain'
  <2>1. UNCHANGED <<boot, running, generation, crashes, resizes, finalErrors>>
    BY <1>12 DEF SchedulerNext, Tick, SchedulerStops, CountClaimable, CountUploading,
         EnterIdle, RetryWhenIdle, GetPendingUploadTasks, Push, SchedulerDbError, SchedulerStep
  <2>2. row' \in [Task -> Row] /\ retries' \in [Task -> 0..MaxRetry]
    <3>1. CASE RetryWhenIdle(g)
      BY <3>1, PlainRetry DEF RetryWhenIdle, Row
    <3>2. CASE ~RetryWhenIdle(g)
      BY <1>12, <3>2, <1>3 DEF SchedulerNext, Tick, SchedulerStops, CountClaimable,
           CountUploading, EnterIdle, GetPendingUploadTasks, Push, SchedulerDbError,
           SchedulerReads, Plain
    <3> QED
      BY <3>1, <3>2
  <2>3. retryTriggered' \in BOOLEAN /\ dbErrors' \in 0..MaxDbErrors
    <3>1. CASE SchedulerDbError(g)
      BY <3>1, <1>2 DEF SchedulerDbError, Plain
    <3>2. CASE ~SchedulerDbError(g)
      BY <1>12, <3>2 DEF SchedulerNext, Tick, SchedulerStops, CountClaimable,
           CountUploading, EnterIdle, RetryWhenIdle, GetPendingUploadTasks, Push, Plain
    <3> QED
      BY <3>1, <3>2
  <2> QED
    BY <2>1, <2>2, <2>3 DEF Plain, Row
<1>13. CASE UNCHANGED vars
  BY <1>13 DEF vars, Plain, queueVars, budgetVars
<1> QED
  BY <1>4, <1>5, <1>6, <1>7, <1>8, <1>9, <1>10, <1>11, <1>12, <1>13 DEF Next, Operator

-----------------------------------------------------------------------------

\* The inductive invariant holds in every reachable state.
THEOREM Invariance == Spec => []IInv
<1>1. IInv /\ [Next]_vars => IInv'
  BY PlainStep, CoreStep, RoundsStep DEF IInv
<1> QED
  BY Initially, <1>1, PTL DEF Spec

\* Every variable keeps its type: the counters of dispatch stay natural numbers
\* and no task is retried more often than the limit (upload.go, dbupload.go).
THEOREM TypeCorrect == Spec => []TypeOK
BY Invariance, Strengthening, PTL

\* No task is buffered or executed twice, whatever Start, Stop, resizing and the
\* schedulers of earlier generations do (startWorkersLocked, moveTasksToChannel).
THEOREM NoTaskHeldTwice == Spec => []OneHolderPerTask
BY Invariance, Strengthening, PTL

\* uq.reserved and uq.active describe exactly what is buffered and executing.
THEOREM BooksAlwaysBalance == Spec => []BooksBalance
BY Invariance, Strengthening, PTL

\* No send on uq.tasks under uq.mutex ever finds the channel full.
THEOREM SendsNeverBlock == Spec => []BufferFits
BY Invariance, Strengthening, PTL

-----------------------------------------------------------------------------
(* Action properties.                                                      *)

LEMMA StartsAllowedStep ==
  ASSUME Core, Rounds, [Next]_vars
  PROVE  StartsAllowed
<1>0. UNCHANGED worker => StartsAllowed
  BY DEF StartsAllowed, Started
<1>1. CASE InitUQ \/ Start \/ Startup \/ Stop \/ RetryFailedByUser
           \/ \E n \in 1..MaxThreads : UpdateConcurrency(n)
  BY <1>0, <1>1 DEF InitUQ, Start, Startup, ResetUploading, ResetFinalizing, ResetError,
       Stop, RetryFailedByUser, UpdateConcurrency
<1>2. CASE \/ \E t \in Task : AddUploadTask(t) \/ AddRemoteExistsUploadTask(t)
           \/ \E old, t \in Task : SupersedeFailedUploadTask(old, t)
           \/ ClearPendingUploadTasks \/ ClearUploadSuccessAndFailed
           \/ \E last \in Task : ClearExpireUploadTasks(last)
  BY <1>0, <1>2 DEF AddUploadTask, AddRemoteExistsUploadTask,
       SupersedeFailedUploadTask, ClearPendingUploadTasks, ClearUploadSuccessAndFailed,
       ClearExpireUploadTasks, DeleteRows, RowsChange
<1>3. CASE Crash
  BY <1>3 DEF Crash, StartsAllowed, Started, IdleWorker
<1>4. ASSUME NEW w \in Worker, WorkerNext(w)
      PROVE  StartsAllowed
  <2>1. CASE WorkerExit(w)
    BY <2>1, CoreWorkerExit
  <2>2. CASE ~WorkerExit(w)
    <3>1. PICK pc : Goes(w, pc)
      BY <1>4, <2>2 DEF WorkerNext, ClaimPendingUpload, Transfer, SaveOutcome, SaveRefused,
           ClaimRemoteCompletedFinalize, FinalizeRemoteCompletedUpload, FinalizeError,
           Complete, RevertRemoteCompletedFinalizing, WorkerDbError, ConditionalUpdate
    <3>2. worker[w].pc \notin {"idle", "exit"}
      BY <1>4, <2>2 DEF WorkerNext, ClaimPendingUpload, Transfer, SaveOutcome, SaveRefused,
           ClaimRemoteCompletedFinalize, FinalizeRemoteCompletedUpload, FinalizeError,
           Complete, RevertRemoteCompletedFinalizing, WorkerDbError, WorkerStep
    <3>3. \A v \in Worker \ {w} : worker'[v] = worker[v]
      BY <3>1 DEF Goes, Core, Consistent, Pool
    <3> QED
      BY <3>2, <3>3 DEF StartsAllowed, Started
  <2> QED
    BY <2>1, <2>2
<1>5. ASSUME NEW g \in Generation, SchedulerNext(g)
      PROVE  StartsAllowed
  <2>1. CASE Tick(g)
    BY <2>1, CoreTick
  <2>2. CASE Push(g) /\ Current(g)
    BY <2>2, CorePush
  <2>3. CASE ~Tick(g) /\ ~(Push(g) /\ Current(g))
    BY <1>0, <1>5, <2>3 DEF SchedulerNext, SchedulerStops, CountClaimable, CountUploading,
         EnterIdle, RetryWhenIdle, GetPendingUploadTasks, Push, SchedulerDbError, SchedulerReads
  <2> QED
    BY <2>1, <2>2, <2>3
<1>6. CASE UNCHANGED vars
  BY <1>0, <1>6 DEF vars
<1> QED
  BY <1>1, <1>2, <1>3, <1>4, <1>5, <1>6 DEF Next, Operator

\* No goroutine starts while the queue is stopped or above the limit in force,
\* also after the limit was lowered under running goroutines
\* (startWorkersLocked, UpdateConcurrency).
THEOREM StartsStayWithinLimit == Spec => StartsWithinLimit
<1>1. ASSUME IInv, [Next]_vars, NEW w \in Worker, Started(w)
      PROVE  running /\ Cardinality(Busy(worker')) <= numWorkers
  <2>1. StartsAllowed /\ Core'
    BY <1>1, StartsAllowedStep, CoreStep DEF IInv
  <2>2. active' = Cardinality(Busy(worker'))
    BY <2>1 DEF Core, Consistent
  <2> QED
    BY <1>1, <2>1, <2>2 DEF StartsAllowed
<1>2. IInv /\ [Next]_vars =>
        [\A w \in Worker :
           Started(w) => running /\ Cardinality(Busy(worker')) <= numWorkers]_vars
  BY <1>1
<1> QED
  BY Invariance, <1>2, PTL DEF Spec, StartsWithinLimit

-----------------------------------------------------------------------------
(* No second transfer.  The Save of a transfer's outcome writes whatever   *)
(* the row holds, so the argument needs what the row can hold by then: its *)
(* holder alone takes it further than uploading, start-up may have put it  *)
(* back to pending, a user may have deleted it.                            *)

Moving == {"transfer", "fail", "cancel", "markUploaded"}
Uploaded == {PendingFinalize, Finalizing, Completed}

InTransfer ==
  \A w \in Worker : worker[w].pc \in Moving =>
                      row[worker[w].task] \in {Uploading, Pending, Deleted}

LEMMA DispatchNew ==
  ASSUME NEW chan, NEW act, NEW pool, StartWorkersLocked(chan, act, pool), NEW v \in Worker
  PROVE  worker'[v] = pool[v] \/ worker'[v].pc \in {"claim", "claimFinalize"}
<1>1. PICK slot : \A w \in Worker :
        worker'[w] = Filled(pool, slot, Starts(chan, act), chan)[w]
  BY DispatchStep
<1>2. \A s : Launched(s).pc \in {"claim", "claimFinalize"}
  BY DEF Launched
<1> QED
  BY <1>1, <1>2 DEF Filled

\* Slots change only to a state in which no transfer runs.
LEMMA InTransferDispatch ==
  ASSUME InTransfer, UNCHANGED row,
         \A v \in Worker : \/ worker'[v] = worker[v]
                           \/ worker'[v].pc \notin Moving
  PROVE  InTransfer'
BY DEF InTransfer

\* The goroutine in slot w takes a step: it alone touches the row of its task.
LEMMA InTransferOwnStep ==
  ASSUME Plain, Core, InTransfer, NEW w \in Busy(worker), NEW pc \in WorkerPc \ {"idle"},
         Goes(w, pc),
         \A t \in Task \ {worker[w].task} : row'[t] = row[t],
         pc \in Moving => row'[worker[w].task] \in {Uploading, Pending, Deleted}
  PROVE  InTransfer'
<1>1. /\ w \in Worker
      /\ worker'[w].pc = pc
      /\ worker'[w].task = worker[w].task
      /\ \A v \in Worker \ {w} : worker'[v] = worker[v]
  <2>1. w \in Worker /\ worker[w] \in BusyWorker /\ worker \in Pool
    BY PoolFields DEF Core, Consistent, Busy
  <2>2. /\ worker'[w] = [worker[w] EXCEPT !.pc = pc]
        /\ \A v \in Worker \ {w} : worker'[v] = worker[v]
    BY <2>1 DEF Goes, Pool
  <2> QED
    BY <2>1, <2>2 DEF BusyWorker
<1>2. ASSUME NEW v \in Worker \ {w}, worker[v].pc \in Moving
      PROVE  row'[worker[v].task] \in {Uploading, Pending, Deleted}
  <2>1. v \in Busy(worker)
    BY <1>2 DEF Moving, Busy
  <2>2. worker[v].task \in Task /\ worker[v].task # worker[w].task
    BY <2>1, PoolFields DEF Core, Consistent, OneEach
  <2> QED
    BY <1>2, <2>2 DEF InTransfer
<1> QED
  BY <1>1, <1>2 DEF InTransfer

LEMMA InTransferWorker ==
  ASSUME Plain, Core, InTransfer, NEW w \in Worker, WorkerNext(w)
  PROVE  InTransfer'
<1> DEFINE t == worker[w].task
           Fine == {Uploading, Pending, Deleted}
<1>1. CASE WorkerExit(w)
  <2> DEFINE pool == [worker EXCEPT ![w] = IdleWorker]
  <2>1. StartWorkersLocked(tasks, active - 1, pool) /\ UNCHANGED row
    BY <1>1 DEF WorkerExit
  <2>2. \A v \in Worker : pool[v] = worker[v] \/ pool[v] = IdleWorker
    BY DEF Core, Consistent, Pool
  <2> HIDE DEF pool
  <2>3. \A v \in Worker : worker'[v] = worker[v] \/ worker'[v].pc \notin Moving
    BY <2>1, <2>2, DispatchNew DEF Moving, IdleWorker
  <2> QED
    BY <2>1, <2>3, InTransferDispatch
<1>2. CASE ~WorkerExit(w)
  <2>1. w \in Busy(worker)
    BY <1>2 DEF WorkerNext, ClaimPendingUpload, Transfer, SaveOutcome, SaveRefused,
         ClaimRemoteCompletedFinalize, FinalizeRemoteCompletedUpload, FinalizeError,
         Complete, RevertRemoteCompletedFinalizing, WorkerDbError, WorkerStep, Busy
  <2>2. t \in Task
    BY <2>1, PoolFields DEF Core, Consistent
  <2>3. row = [u \in Task |-> row[u]]
    BY DEF Plain
  <2>4. CASE ClaimPendingUpload(w)
    <3>1. /\ \A u \in Task \ {t} : row'[u] = row[u]
          /\ \/ Goes(w, "transfer") /\ row'[t] \in Fine
             \/ Goes(w, "exit")
      BY <2>2, <2>3, <2>4 DEF ClaimPendingUpload, ConditionalUpdate
    <3> QED
      BY <2>1, <3>1, InTransferOwnStep DEF WorkerPc, Moving
  <2>5. CASE Transfer(w)
    <3>1. UNCHANGED row /\ row[t] \in Fine
      BY <2>5 DEF Transfer, WorkerStep, InTransfer, Moving
    <3> QED
      BY <2>1, <2>5, <3>1, InTransferOwnStep DEF Transfer, WorkerPc
  <2>6. CASE \/ \E pc \in {"fail", "cancel", "markUploaded"} :
                  SaveOutcome(w, pc) \/ SaveRefused(w, pc)
             \/ ClaimRemoteCompletedFinalize(w) \/ FinalizeRemoteCompletedUpload(w)
             \/ FinalizeError(w) \/ Complete(w) \/ RevertRemoteCompletedFinalizing(w)
             \/ WorkerDbError(w)
    <3>1. \A u \in Task \ {t} : row'[u] = row[u]
      BY <2>2, <2>3, <2>6 DEF SaveOutcome, SaveRefused, ClaimRemoteCompletedFinalize,
           FinalizeRemoteCompletedUpload, FinalizeError, Complete,
           RevertRemoteCompletedFinalizing, WorkerDbError, ConditionalUpdate
    <3>2. \E pc \in {"claimFinalize", "exit", "finalize", "complete", "revert"} : Goes(w, pc)
      BY <2>6 DEF SaveOutcome, SaveRefused, ClaimRemoteCompletedFinalize,
           FinalizeRemoteCompletedUpload, FinalizeError, Complete,
           RevertRemoteCompletedFinalizing, WorkerDbError, ConditionalUpdate
    <3> QED
      BY <2>1, <3>1, <3>2, InTransferOwnStep DEF WorkerPc, Moving
  <2> QED
    BY <1>2, <2>4, <2>5, <2>6 DEF WorkerNext
<1> QED
  BY <1>1, <1>2

\* What other actors do to the row of a running transfer.
LEMMA InTransferRows ==
  ASSUME Plain, Core, InTransfer, UNCHANGED worker,
         \A t \in Task : row[t] \in {Uploading, Pending, Deleted} =>
                           row'[t] \in {Uploading, Pending, Deleted}
  PROVE  InTransfer'
<1>1. \A w \in Worker : worker[w].pc \in Moving => worker[w].task \in Task
  BY PoolFields DEF Core, Consistent, Busy, Moving
<1> QED
  BY <1>1 DEF InTransfer

LEMMA InTransferStep ==
  ASSUME Plain, Core, InTransfer, [Next]_vars
  PROVE  InTransfer'
<1>0. UNCHANGED <<row, worker>> => InTransfer'
  BY DEF InTransfer
<1>1. CASE InitUQ \/ Start \/ Stop \/ \E n \in 1..MaxThreads : UpdateConcurrency(n)
  BY <1>0, <1>1 DEF InitUQ, Start, Stop, UpdateConcurrency
<1>2. CASE Startup
  <2>1. \A t \in Task : row[t] \in {Uploading, Pending, Deleted} =>
                          row'[t] \in {Uploading, Pending, Deleted}
    BY <1>2 DEF Startup, ResetUploading, ResetFinalizing, ResetError, Uploading, Pending,
         Deleted, Finalizing
  <2> QED
    BY <1>2, <2>1, InTransferRows DEF Startup, ResetUploading, ResetFinalizing, ResetError
<1>3. CASE \/ \E t \in Task : AddUploadTask(t) \/ AddRemoteExistsUploadTask(t)
           \/ \E old, t \in Task : SupersedeFailedUploadTask(old, t)
  <2>1. \A t \in Task : row[t] \in {Uploading, Pending, Deleted} =>
                          row'[t] \in {Uploading, Pending, Deleted}
    BY <1>3 DEF AddUploadTask, AddRemoteExistsUploadTask, SupersedeFailedUploadTask,
         Plain, Uploading, Pending, Deleted, Unborn, Failed
  <2> QED
    BY <1>3, <2>1, InTransferRows DEF AddUploadTask, AddRemoteExistsUploadTask,
       SupersedeFailedUploadTask, RowsChange
<1>4. CASE ClearPendingUploadTasks \/ ClearUploadSuccessAndFailed
             \/ \E last \in Task : ClearExpireUploadTasks(last)
  <2>1. \A t \in Task : row[t] \in {Uploading, Pending, Deleted} =>
                          row'[t] \in {Uploading, Pending, Deleted}
    BY <1>4 DEF ClearPendingUploadTasks, ClearUploadSuccessAndFailed,
         ClearExpireUploadTasks, DeleteRows
  <2> QED
    BY <1>4, <2>1, InTransferRows DEF ClearPendingUploadTasks, ClearUploadSuccessAndFailed,
       ClearExpireUploadTasks, DeleteRows, RowsChange
<1>5. CASE RetryFailedByUser
  BY <1>5, InTransferRows DEF RetryFailedByUser, RetryFailedUploadTasks
<1>6. CASE Crash
  BY <1>6 DEF Crash, InTransfer, IdleWorker, Moving
<1>7. ASSUME NEW w \in Worker, WorkerNext(w)
      PROVE  InTransfer'
  BY <1>7, InTransferWorker
<1>8. ASSUME NEW g \in Generation, SchedulerNext(g)
      PROVE  InTransfer'
  <2>1. CASE Tick(g)
    BY <2>1, DispatchNew, InTransferDispatch DEF Tick, Moving
  <2>2. CASE Push(g)
    <3>1. CASE UNCHANGED worker
      BY <2>2, <3>1, <1>0 DEF Push
    <3>2. CASE \E chan : StartWorkersLocked(chan, active, worker)
      BY <2>2, <3>2, DispatchNew, InTransferDispatch DEF Push, Moving
    <3> QED
      BY <2>2, <3>1, <3>2 DEF Push
  <2>3. CASE RetryWhenIdle(g)
    BY <2>3, InTransferRows DEF RetryWhenIdle, RetryFailedUploadTasks
  <2>4. CASE ~Tick(g) /\ ~Push(g) /\ ~RetryWhenIdle(g)
    BY <1>0, <1>8, <2>4 DEF SchedulerNext, SchedulerStops, CountClaimable, CountUploading,
         EnterIdle, GetPendingUploadTasks, SchedulerDbError, SchedulerReads
  <2> QED
    BY <2>1, <2>2, <2>3, <2>4
<1>9. CASE UNCHANGED vars
  BY <1>0, <1>9 DEF vars
<1> QED
  BY <1>1, <1>2, <1>3, <1>4, <1>5, <1>6, <1>7, <1>8, <1>9 DEF Next, Operator

LEMMA InTransferInvariance == Spec => []InTransfer
<1>1. Init => InTransfer
  BY DEF Init, InTransfer, IdleWorker, Moving
<1>2. IInv /\ InTransfer /\ [Next]_vars => InTransfer'
  BY InTransferStep DEF IInv
<1> QED
  BY Invariance, <1>1, <1>2, PTL DEF Spec

\* What NoRetransfer asks of one step.
StaysUploaded == \A t \in Task : row[t] \in Uploaded => row'[t] \in Uploaded \cup {Deleted}

LEMMA StaysUploadedStep ==
  ASSUME Plain, Core, InTransfer, [Next]_vars
  PROVE  StaysUploaded
<1> USE DEF Uploaded
<1>0. UNCHANGED row => StaysUploaded
  BY DEF StaysUploaded
<1>1. CASE InitUQ \/ Start \/ Stop \/ Crash \/ \E n \in 1..MaxThreads : UpdateConcurrency(n)
  BY <1>0, <1>1 DEF InitUQ, Start, Stop, UpdateConcurrency, Crash
<1>2. CASE Startup
  BY <1>2 DEF Startup, ResetUploading, ResetFinalizing, ResetError, StaysUploaded,
       Uploading, PendingFinalize, Finalizing, Completed
<1>3. CASE \/ \E t \in Task : AddUploadTask(t) \/ AddRemoteExistsUploadTask(t)
           \/ \E old, t \in Task : SupersedeFailedUploadTask(old, t)
  BY <1>3 DEF AddUploadTask, AddRemoteExistsUploadTask, SupersedeFailedUploadTask,
       StaysUploaded, Plain, Unborn, Failed, PendingFinalize, Finalizing, Completed
<1>4. CASE ClearPendingUploadTasks \/ ClearUploadSuccessAndFailed
             \/ \E last \in Task : ClearExpireUploadTasks(last)
  BY <1>4 DEF ClearPendingUploadTasks, ClearUploadSuccessAndFailed,
       ClearExpireUploadTasks, DeleteRows, StaysUploaded
<1>5. CASE RetryFailedUploadTasks
  BY <1>5 DEF RetryFailedUploadTasks, Retried, Retriable, StaysUploaded, Failed,
       PendingFinalize, Finalizing, Completed
<1>6. ASSUME NEW w \in Worker, WorkerNext(w)
      PROVE  StaysUploaded
  <2>1. CASE ClaimPendingUpload(w) \/ ClaimRemoteCompletedFinalize(w)
             \/ RevertRemoteCompletedFinalizing(w)
    BY <2>1 DEF ClaimPendingUpload, ClaimRemoteCompletedFinalize,
         RevertRemoteCompletedFinalizing, ConditionalUpdate, StaysUploaded, Plain,
         Pending, Uploading, PendingFinalize, Finalizing, Completed
  <2>2. ASSUME NEW pc \in {"fail", "cancel", "markUploaded"}, SaveOutcome(w, pc)
        PROVE  StaysUploaded
    <3>1. row[worker[w].task] \in {Uploading, Pending, Deleted}
      BY <2>2 DEF SaveOutcome, WorkerStep, InTransfer, Moving
    <3>2. row[worker[w].task] \notin Uploaded
      BY <3>1 DEF Uploading, Pending, Deleted, PendingFinalize, Finalizing, Completed
    <3> QED
      BY <2>2, <3>2 DEF SaveOutcome, StaysUploaded, Plain
  <2>3. CASE Complete(w)
    BY <2>3 DEF Complete, StaysUploaded, Plain
  <2>4. CASE UNCHANGED row
    BY <2>4, <1>0
  <2> QED
    BY <1>6, <2>1, <2>2, <2>3, <2>4 DEF WorkerNext, Transfer, SaveRefused,
       FinalizeRemoteCompletedUpload, FinalizeError, WorkerDbError, WorkerExit
<1>7. ASSUME NEW g \in Generation, SchedulerNext(g)
      PROVE  StaysUploaded
  <2>1. CASE RetryWhenIdle(g)
    BY <2>1, <1>5 DEF RetryWhenIdle
  <2>2. CASE ~RetryWhenIdle(g)
    BY <1>0, <1>7, <2>2 DEF SchedulerNext, Tick, SchedulerStops, CountClaimable,
         CountUploading, EnterIdle, GetPendingUploadTasks, Push, SchedulerDbError,
         SchedulerReads
  <2> QED
    BY <2>1, <2>2
<1>8. CASE UNCHANGED vars
  BY <1>0, <1>8 DEF vars
<1> QED
  BY <1>1, <1>2, <1>3, <1>4, <1>5, <1>6, <1>7, <1>8 DEF Next, Operator, RetryFailedByUser

\* A file that reached the remote side is never transferred again, whatever
\* fails, stops or restarts in between (claimPendingUpload,
\* revertRemoteCompletedFinalizing, UpdateUploadingToPending).
THEOREM NeverTransferredTwice == Spec => NoRetransfer
<1>1. IInv /\ InTransfer /\ [Next]_vars =>
        [\A t \in Task :
           row[t] \in {PendingFinalize, Finalizing, Completed} =>
             row'[t] \in {PendingFinalize, Finalizing, Completed, Deleted}]_vars
  BY StaysUploadedStep DEF IInv, StaysUploaded, Uploaded
<1> QED
  BY Invariance, InTransferInvariance, <1>1, PTL DEF Spec, NoRetransfer

=============================================================================
