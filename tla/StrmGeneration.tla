--------------------------- MODULE StrmGeneration ---------------------------
(***************************************************************************)
(* STRM generation tasks: the rows of strm_generation_tasks                *)
(* (internal/models/strm_generation_task.go) and the one goroutine that    *)
(* works on them (internal/syncstrm/generation_service.go and              *)
(* generation_retry.go).                                                   *)
(*                                                                         *)
(* A task is a single file, a batch of files whose children exist from the *)
(* start, or the scan of a remote directory, whose children the worker     *)
(* makes.  A child adds its result to its parent in the transaction that   *)
(* takes it out of running; the last one settles the parent, and whoever   *)
(* finds the parent completed asks Emby, once, to refresh.  What comes     *)
(* after that transaction, finalizing, is repeated until it works.         *)
(*                                                                         *)
(* A step is one SQL statement or transaction with the work before it.     *)
(* The rows a batch brought are not kept as copies: between the select and *)
(* its use only the worker itself changes them.                            *)
(*                                                                         *)
(* A definition that stands right before another and names a slip is a     *)
(* plausible bug of the next one; no specification uses it.                *)
(***************************************************************************)
EXTENDS Integers, Sequences, SequencesExt, FiniteSets, FiniteSetsExt

CONSTANTS
  Scan,           \* tasks of type directory_scan
  Bundle,         \* tasks of type batch_files
  Single,         \* tasks of type file without a parent
  File,           \* remote video files
  FileOf,         \* FileOf[s]: the file of single task s
  SyncPath,       \* ids of sync_paths
  PathOf,         \* PathOf[t]: the sync_path_id of a task without a parent
  DownloadMeta,   \* tasks without a parent that have download_meta
  Listings,       \* Listings[t]: what the remote directory of scan t may hold
  BatchLimit,     \* strmGenerationWorkerBatch (5)
  MaxCrashes,     \* bound: ends of the process
  MaxSaveErrors,  \* bound: SQL statements that fail and leave a row as it is
  MaxFinishErrors \* bound: failures of the work after the result is recorded

Parent == Scan \cup Bundle
Root == Parent \cup Single
Child == Parent \X File
Task == Root \cup Child

ASSUME TaskAssumption ==
  /\ IsFiniteSet(Root) /\ IsFiniteSet(File)
  /\ Scan \cap Bundle = {} /\ Parent \cap Single = {} /\ Root \cap Child = {}
  /\ FileOf \in [Single -> File]
  /\ PathOf \in [Root -> SyncPath]
  /\ DownloadMeta \subseteq Root
  /\ Listings \in [Scan -> SUBSET SUBSET File]

ASSUME BoundAssumption ==
  /\ BatchLimit \in Nat \ {0}
  /\ {MaxCrashes, MaxSaveErrors, MaxFinishErrors} \subseteq Nat

VARIABLES
  status,         \* status[t]: the status column, or that there is no row
  items,          \* items[p]: the counters of parent p
  created,        \* the tasks to be worked on, in the order of their ids
  line,           \* the same, in the order the worker's query returns them
  retried,        \* finalizing tasks with retry_count > 0
  backoff,        \* those whose last retry is less than 5 seconds ago
  skipping,       \* tasks with a skip_reason
  moved,          \* tasks whose position, once read, is that of an older task
  missing,        \* deleted sync paths
  requested,      \* parents whose refresh Emby has been asked for
  worker,         \* the goroutine, and what it has read
  faults          \* counts of what the bounds limit

queueVars == <<created, line, retried, backoff, skipping, moved>>
vars == <<status, items, queueVars, missing, requested, worker, faults>>

-----------------------------------------------------------------------------
(* The status column.                                                      *)

NoRow == "none"
Pending == "pending"
Running == "running"
Finalizing == "finalizing"
WaitingChildren == "waiting_children"
Completed == "completed"
Skipped == "skipped"
Failed == "failed"

Active == {Pending, Running, Finalizing, WaitingChildren}
Status == Active \cup {Completed, Skipped, Failed}

RootOf(t) == IF t \in Child THEN t[1] ELSE t
SyncPathOf(t) == PathOf[RootOf(t)]
FileOfTask(t) == IF t \in Child THEN t[2] ELSE FileOf[t]
ChildrenOf(p) == {p} \X File
Existing(p) == {k \in ChildrenOf(p) : status[k] # NoRow}

-----------------------------------------------------------------------------
(* Order in the queue and dependencies.                                    *)

Precedes(seq, t, u) ==
  \E i, j \in DOMAIN seq : i < j /\ seq[i] = t /\ seq[j] = u

\* The n-th smallest of the numbers in K.
Place(K, n) == CHOOSE i \in K : Cardinality({j \in K : j <= i}) = n

\* The elements of seq that are in S, in their order.
Among(seq, S) ==
  LET K == {i \in DOMAIN seq : seq[i] \in S}
  IN  [n \in 1 .. Cardinality(K) |-> seq[Place(K, n)]]

Without(seq, S) == Among(seq, ToSet(seq) \ S)

\* A task that scans, or downloads metadata, takes the whole directory.
Broad(t) == t \in Scan \/ RootOf(t) \in DownloadMeta
Overlaps(t, u) ==
  \/ RootOf(t) = RootOf(u)
  \/ /\ SyncPathOf(t) = SyncPathOf(u)
     /\ Broad(t) \/ Broad(u) \/ FileOfTask(t) = FileOfTask(u)

\* A task waits for an older one that has to repeat its finalization.
GenerationTaskBlocked(t) ==
  \E r \in retried : Precedes(created, r, t) /\ (Overlaps(r, t) \/ t \in moved)

ClaimablePending(t) == status[t] = Pending
Claimable(t) ==
  \/ status[t] = Pending
  \/ status[t] = Finalizing /\ t \notin backoff

SelectGenerationTasks ==
  LET free == Among(line, {t \in ToSet(line) : Claimable(t) /\ ~GenerationTaskBlocked(t)})
  IN  SubSeq(free, 1, Min({BatchLimit, Len(free)}))

\* Sync paths the selection reads and does not find.
MissingPaths ==
  missing \cap {SyncPathOf(t) : t \in retried \cup {u \in ToSet(line) : Claimable(u)}}

\* Settled rows leave the queue.
Leave(S) ==
  /\ created' = Without(created, S)
  /\ line' = Without(line, S)
  /\ retried' = retried \ S
  /\ backoff' = backoff \ S
  /\ skipping' = skipping \ S
  /\ moved' = moved \ S

Enter(seq) ==
  /\ created' = created \o seq
  /\ line' = line \o seq
  /\ UNCHANGED <<retried, backoff, skipping, moved>>

-----------------------------------------------------------------------------
(* The counters of a parent.                                               *)

NoItems == [total |-> 0, accepted |-> 0, failed |-> 0, skipped |-> 0,
            changed |-> FALSE, submitted |-> FALSE]

Processed(r) == r.accepted + r.failed + r.skipped

\* The total is never below what has been processed.
Raised(r) == [r EXCEPT !.total = Max({r.total, Processed(r)})]

\* updateStrmGenerationParentProgressWithDB: n results of one kind.
Add(r, kind, n, changed) ==
  Raised([r EXCEPT ![kind] = @ + n, !.changed = @ \/ changed])

\* The last child settles the parent, if it is known how many there are.
Settled(p, r) ==
  IF items[p].total > 0 /\ Processed(r) >= r.total /\ status[p] = WaitingChildren
    THEN CASE r.failed > 0                      -> Failed
           [] r.failed = 0 /\ r.accepted > 0    -> Completed
           [] r.failed = 0 /\ r.accepted = 0    -> Skipped
    ELSE status[p]

\* Child t becomes s and adds its result to its parent, in one transaction.
Record(t, s, kind, changed) ==
  LET p == RootOf(t)
      r == Add(items[p], kind, 1, changed)
  IN  /\ status' = [status EXCEPT ![t] = s, ![p] = Settled(p, r)]
      /\ items' = [items EXCEPT ![p] = r]

IsReadyToSubmitRefresh(p) ==
  /\ status[p] = Completed
  /\ ~items[p].submitted
  /\ items[p].total > 0
  /\ items[p].failed = 0
  /\ items[p].changed
  /\ Processed(items[p]) >= items[p].total

-----------------------------------------------------------------------------
(* The worker between its steps.                                           *)

Down == [pc |-> "down", task |-> NoRow, batch |-> <<>>, waits |-> {},
         left |-> {}, total |-> 0]
At(pc) == worker.pc = pc
Current == worker.task
Go(pc) == worker' = [worker EXCEPT !.pc = pc]

\* On to the next task of the batch, or back to the selection.
Continue ==
  worker' = [Down EXCEPT !.pc = IF worker.batch = <<>> THEN "select" ELSE "next",
                         !.batch = worker.batch, !.waits = worker.waits]
Abandon == worker' = [Down EXCEPT !.pc = "select"]

Count(kind) == faults' = [faults EXCEPT ![kind] = @ + 1]

\* Children of p in sync path q that have no result yet.
LostWithFinalizing(p, q, st) ==
  {k \in ChildrenOf(p) : PathOf[p] = q /\ st[k] \in {Pending, Running, Finalizing}}
Lost(p, q, st) ==
  {k \in ChildrenOf(p) : PathOf[p] = q /\ st[k] \in {Pending, Running}}

\* RetireStrmGenerationTasksForMissingSyncPath, over the statuses st: every
\* active task of q fails, and the parents with them; children that had no
\* result yet count as failed.
Retire(q, st) ==
  LET hit == {t \in Task : st[t] \in Active /\ SyncPathOf(t) = q}
  IN  /\ status' = [t \in Task |->
                      IF t \in hit \/ (t \in Parent /\ hit \cap ChildrenOf(t) # {})
                        THEN Failed ELSE st[t]]
      /\ items' = [p \in Parent |->
                      Add(items[p], "failed", Cardinality(Lost(p, q, st)), FALSE)]
      /\ Leave(hit)
      /\ Abandon
      /\ UNCHANGED <<missing, requested, faults>>

Init ==
  /\ status = [t \in Task |-> NoRow]
  /\ items = [p \in Parent |-> NoItems]
  /\ created = <<>> /\ line = <<>>
  /\ retried = {} /\ backoff = {} /\ skipping = {} /\ moved = {}
  /\ missing = {}
  /\ requested = {}
  /\ worker = Down
  /\ faults = [crash |-> 0, save |-> 0, finish |-> 0]

-----------------------------------------------------------------------------
(* The process.                                                            *)

\* InitStrmGenerationWorker: what was running is pending again.
BootRestartingAll ==
  /\ At("down")
  /\ status' = [t \in Task |-> IF status[t] \in {Running, Finalizing} THEN Pending ELSE status[t]]
  /\ retried' = {} /\ backoff' = {}
  /\ Abandon
  /\ UNCHANGED <<items, created, line, skipping, moved, missing, requested, faults>>
Boot ==
  /\ At("down")
  /\ status' = [t \in Task |-> IF status[t] = Running THEN Pending ELSE status[t]]
  /\ Abandon
  /\ UNCHANGED <<items, queueVars, missing, requested, faults>>

\* The reset fails, which is logged, and the worker starts all the same.
BootWithoutReset ==
  /\ At("down")
  /\ faults.save < MaxSaveErrors
  /\ Abandon
  /\ Count("save")
  /\ UNCHANGED <<status, items, queueVars, missing, requested>>

\* A stop of the worker, as before a restore, leaves no other rows behind, and
\* the process has to start again after it as well.
Crash ==
  /\ ~At("down")
  /\ faults.crash < MaxCrashes
  /\ worker' = Down
  /\ Count("crash")
  /\ UNCHANGED <<status, items, queueVars, missing, requested>>

-----------------------------------------------------------------------------
(* Requests.  One row per request: a request whose request_hash an active  *)
(* row has gets that row, and changes nothing.                             *)

EnqueueStrmGenerationTask(t) ==
  /\ t \in Scan \cup Single
  /\ status[t] = NoRow
  /\ PathOf[t] \notin missing
  /\ status' = [status EXCEPT ![t] = Pending]
  /\ Enter(<<t>>)
  /\ UNCHANGED <<items, missing, requested, worker, faults>>

\* The bundle and its children in one transaction.
EnqueueStrmWebhookBatch(b, S) ==
  /\ status[b] = NoRow
  /\ PathOf[b] \notin missing
  /\ S # {}
  /\ status' = [t \in Task |-> IF t = b THEN WaitingChildren
                               ELSE IF t \in {b} \X S THEN Pending ELSE status[t]]
  /\ items' = [items EXCEPT ![b].total = Cardinality(S)]
  /\ Enter(SetToSeq({b} \X S))
  /\ UNCHANGED <<missing, requested, worker, faults>>

\* A sync path is deleted while nobody holds its scope; its tasks stay.
ScopeHeld(q) ==
  /\ At("mark") \/ At("complete") \/ (At("expand") /\ worker.left # {})
  /\ SyncPathOf(Current) = q
DeleteSyncPathByID(q) ==
  /\ q \notin missing
  /\ ~ScopeHeld(q)
  /\ missing' = missing \cup {q}
  /\ UNCHANGED <<status, items, queueVars, requested, worker, faults>>

\* Five seconds pass since the last retry of t.
BackoffElapses(t) ==
  /\ t \in backoff
  /\ backoff' = backoff \ {t}
  /\ UNCHANGED <<status, items, created, line, retried, skipping, moved, missing,
                 requested, worker, faults>>

-----------------------------------------------------------------------------
(* A batch: ProcessPendingStrmGenerationTasks.                             *)

RetireMissing ==
  /\ At("select")
  /\ \E q \in MissingPaths : Retire(q, status)

Select ==
  /\ At("select")
  /\ MissingPaths = {}
  /\ SelectGenerationTasks # <<>>
  /\ LET batch == SelectGenerationTasks
     IN  worker' = [Down EXCEPT
           !.pc = "next", !.batch = batch,
           !.waits = {x \in ToSet(batch) \X SyncPath :
                        \E r \in retried : Precedes(created, r, x[1]) /\ SyncPathOf(r) = x[2]}]
  /\ UNCHANGED <<status, items, queueVars, missing, requested, faults>>

\* A finalizing task is finished; a pending one is marked running first.
Begin ==
  /\ At("next")
  /\ LET t == Head(worker.batch)
         resumed == status[t] = Finalizing
     IN  /\ worker' = [worker EXCEPT !.pc = IF resumed THEN "finish" ELSE "work",
                                     !.task = t, !.batch = Tail(@)]
         /\ status' = IF resumed THEN status ELSE [status EXCEPT ![t] = Running]
  /\ UNCHANGED <<items, queueVars, missing, requested, faults>>

Working ==
  /\ At("work")
  /\ SyncPathOf(Current) \notin missing

\* generate: the file is written, or is found as it should be.
Generate(changed) ==
  /\ Working
  /\ Current \notin Scan
  /\ IF Current \in Child
       THEN Record(Current, Finalizing, "accepted", changed)
       ELSE UNCHANGED <<status, items>>
  /\ Go("finish")
  /\ UNCHANGED <<queueVars, missing, requested, faults>>

\* A rule excludes the file, or the directory of a scan: MarkSkipping.
Skip ==
  /\ Working
  /\ IF Current \in Child
       THEN Record(Current, Finalizing, "skipped", FALSE)
       ELSE status' = [status EXCEPT ![Current] = Finalizing] /\ UNCHANGED items
  /\ skipping' = skipping \cup {Current}
  /\ Go("finish")
  /\ UNCHANGED <<created, line, retried, backoff, moved, missing, requested, faults>>

\* MarkStrmGenerationChildFailed, MarkFailed.  No refresh can become ready here.
FailAlone ==
  /\ Working
  /\ status' = [status EXCEPT ![Current] = Failed]
  /\ Leave({Current})
  /\ Continue
  /\ UNCHANGED <<items, missing, requested, faults>>
Fail ==
  /\ Working
  /\ IF Current \in Child
       THEN Record(Current, Failed, "failed", FALSE)
       ELSE status' = [status EXCEPT ![Current] = Failed] /\ UNCHANGED items
  /\ Leave({Current})
  /\ Continue
  /\ UNCHANGED <<missing, requested, faults>>

\* The sync paths of the older tasks that were to be repeated when the batch
\* was selected.
PathsToWaitFor == {q \in SyncPath : <<Current, q>> \in worker.waits}

\* The position read under the scope is that of an older task that was to be
\* repeated when the batch was selected: ReturnPending saves the position.
DependencyWait ==
  /\ Working
  /\ PathsToWaitFor # {}
  /\ status' = [status EXCEPT ![Current] = Pending]
  /\ moved' = moved \cup {Current}
  /\ Continue
  /\ UNCHANGED <<items, created, line, retried, backoff, skipping, missing,
                 requested, faults>>

\* The dependencies cannot be read: the batch ends as well.
DependencyCheckFails ==
  /\ Working
  /\ PathsToWaitFor # {}
  /\ faults.save < MaxSaveErrors
  /\ status' = [status EXCEPT ![Current] = Pending]
  /\ Abandon
  /\ Count("save")
  /\ UNCHANGED <<items, queueVars, missing, requested>>

\* The directory of the task, or of one it has to wait for, has been deleted.
RetireAtWork ==
  /\ At("work")
  /\ \/ /\ SyncPathOf(Current) \in missing
        /\ Retire(SyncPathOf(Current), status)
     \/ /\ Working
        /\ \E q \in missing \cap PathsToWaitFor :
             Retire(q, [status EXCEPT ![Current] = Pending])

-----------------------------------------------------------------------------
(* The expansion of a scan: expandDirectoryScan.  The scope is held from   *)
(* the listing to the last child.                                          *)

StartExpand ==
  /\ Working
  /\ Current \in Scan
  /\ \E listing \in Listings[Current] :
       worker' = [worker EXCEPT !.pc = "expand", !.left = listing, !.total = 0]
  /\ UNCHANGED <<status, items, queueVars, missing, requested, faults>>

\* A child that is active already is counted again, as it is.
EnqueueChildUncounted(f) ==
  /\ At("expand")
  /\ f \in worker.left
  /\ LET child == <<Current, f>>
         new == status[child] \notin Active
     IN  /\ IF new THEN status' = [status EXCEPT ![child] = Pending] /\ Enter(<<child>>)
                   ELSE UNCHANGED <<status, queueVars>>
         /\ worker' = [worker EXCEPT !.left = @ \ {f}, !.total = IF new THEN @ + 1 ELSE @]
  /\ UNCHANGED <<items, missing, requested, faults>>
EnqueueChild(f) ==
  /\ At("expand")
  /\ f \in worker.left
  /\ LET child == <<Current, f>>
     IN  IF status[child] \in Active
           THEN UNCHANGED <<status, queueVars>>
           ELSE /\ status' = [status EXCEPT ![child] = Pending]
                /\ Enter(<<child>>)
  /\ worker' = [worker EXCEPT !.left = @ \ {f}, !.total = @ + 1]
  /\ UNCHANGED <<items, missing, requested, faults>>

\* A subdirectory cannot be listed, or a child cannot be made.
ExpandFails ==
  /\ At("expand")
  /\ worker.left # {}
  /\ faults.finish < MaxFinishErrors
  /\ status' = [status EXCEPT ![Current] = Failed]
  /\ Leave({Current})
  /\ Continue
  /\ Count("finish")
  /\ UNCHANGED <<items, missing, requested>>

MarkDirectoryScanExpanded ==
  /\ At("expand")
  /\ worker.left = {}
  /\ status' = [status EXCEPT ![Current] =
                  IF worker.total = 0 THEN Completed ELSE WaitingChildren]
  /\ items' = [items EXCEPT ![Current] =
                 [NoItems EXCEPT !.total = worker.total, !.submitted = items[Current].submitted]]
  /\ Leave({Current})
  /\ Continue
  /\ UNCHANGED <<missing, requested, faults>>

-----------------------------------------------------------------------------
(* The end of a task: completeStrmGenerationTaskAfterSideEffects.  All of  *)
(* it runs under the scope of the file, taken in its first step.           *)

RetireAtFinish ==
  /\ At("finish")
  /\ SyncPathOf(Current) \in missing
  /\ Retire(SyncPathOf(Current), status)

RefreshDue ==
  /\ Current \in Child
  /\ IsReadyToSubmitRefresh(RootOf(Current))

SubmitRefresh ==
  /\ At("finish")
  /\ SyncPathOf(Current) \notin missing
  /\ RefreshDue
  /\ requested' = requested \cup {RootOf(Current)}
  /\ Go("mark")
  /\ UNCHANGED <<status, items, queueVars, missing, faults>>

MarkRefreshSubmitted ==
  /\ At("mark")
  /\ items' = [items EXCEPT ![RootOf(Current)].submitted = TRUE]
  /\ Go("complete")
  /\ UNCHANGED <<status, queueVars, missing, requested, faults>>

Complete ==
  /\ status' = [status EXCEPT ![Current] =
                  IF Current \in skipping THEN Skipped ELSE Completed]
  /\ Leave({Current})
  /\ Continue
  /\ UNCHANGED <<items, missing, requested, faults>>
MarkCompletedFirst ==
  /\ At("complete") \/ (At("finish") /\ SyncPathOf(Current) \notin missing)
  /\ Complete
MarkCompleted ==
  /\ \/ At("complete")
     \/ At("finish") /\ SyncPathOf(Current) \notin missing /\ ~RefreshDue
  /\ Complete

\* The scope, a read, Emby or one of the last two statements fails: a task in
\* finalizing is repeated later, a single file that is still running fails, and
\* the rest of the batch is left for the next one.
FinishFailsAndGoesOn ==
  /\ worker.pc \in {"finish", "mark", "complete"}
  /\ faults.finish < MaxFinishErrors
  /\ status[Current] = Finalizing
  /\ retried' = retried \cup {Current}
  /\ backoff' = backoff \cup {Current}
  /\ line' = Append(Without(line, {Current}), Current)
  /\ Continue
  /\ Count("finish")
  /\ UNCHANGED <<status, items, created, skipping, moved, missing, requested>>
FinishFails ==
  /\ worker.pc \in {"finish", "mark", "complete"}
  /\ faults.finish < MaxFinishErrors
  /\ \/ /\ status[Current] = Finalizing
        /\ retried' = retried \cup {Current}
        /\ backoff' = backoff \cup {Current}
        /\ line' = Append(Without(line, {Current}), Current)
        /\ UNCHANGED <<status, created, skipping, moved>>
     \/ /\ status[Current] = Running
        /\ status' = [status EXCEPT ![Current] = Failed]
        /\ Leave({Current})
  /\ Abandon
  /\ Count("finish")
  /\ UNCHANGED <<items, missing, requested>>

\* The statement a step ends with fails, and so does what would record that:
\* the row stays as it is, and so does the rest of the batch.
SaveError ==
  /\ worker.pc \in {"next", "work", "expand", "finish", "mark", "complete"}
  /\ faults.save < MaxSaveErrors
  /\ Abandon
  /\ Count("save")
  /\ UNCHANGED <<status, items, queueVars, missing, requested>>

-----------------------------------------------------------------------------
Request ==
  \/ \E t \in Scan \cup Single : EnqueueStrmGenerationTask(t)
  \/ \E b \in Bundle, S \in SUBSET File : EnqueueStrmWebhookBatch(b, S)
  \/ \E q \in SyncPath : DeleteSyncPathByID(q)

Worker ==
  \/ RetireMissing \/ Select \/ Begin
  \/ \E changed \in BOOLEAN : Generate(changed)
  \/ Skip \/ Fail \/ DependencyWait \/ RetireAtWork
  \/ StartExpand \/ (\E f \in File : EnqueueChild(f)) \/ MarkDirectoryScanExpanded
  \/ RetireAtFinish \/ SubmitRefresh \/ MarkRefreshSubmitted \/ MarkCompleted

Fault ==
  \/ Crash \/ BootWithoutReset
  \/ DependencyCheckFails \/ ExpandFails \/ FinishFails \/ SaveError

Next ==
  \/ Request
  \/ Boot
  \/ Worker
  \/ \E t \in Task : BackoffElapses(t)
  \/ Fault

\* The goroutine goes on, an ended process is started again, time passes.
\* Nobody has to request or delete anything, and no error is promised.
Fairness ==
  /\ WF_vars(Boot)
  /\ WF_vars(Worker)
  /\ \A t \in Task : WF_vars(BackoffElapses(t))

Spec == Init /\ [][Next]_vars
FairSpec == Spec /\ Fairness

-----------------------------------------------------------------------------
(* Properties.                                                             *)

\* The rows and what the worker knows of them fit together: exactly the tasks
\* to be worked on are in the queue, those to be repeated and those with a
\* skip reason are finalizing, and no parent counts more than its directory.
TypeOK ==
  /\ status \in [Task -> Status \cup {NoRow}]
  /\ items \in [Parent -> [total : 0 .. Cardinality(File),
                           accepted : 0 .. Cardinality(File),
                           failed : 0 .. Cardinality(File),
                           skipped : 0 .. Cardinality(File),
                           changed : BOOLEAN, submitted : BOOLEAN]]
  /\ ToSet(created) = {t \in Task : status[t] \in {Pending, Running, Finalizing}}
  /\ ToSet(line) = ToSet(created)
  /\ Len(created) = Cardinality(ToSet(created)) /\ Len(line) = Len(created)
  /\ backoff \subseteq retried
  /\ retried \cup skipping \subseteq {t \in Task : status[t] = Finalizing}
  /\ moved \subseteq ToSet(created)
  /\ missing \subseteq SyncPath /\ requested \subseteq Parent
  /\ ToSet(worker.batch) \subseteq ToSet(created)
  /\ worker.left \subseteq File

Counted == {Finalizing, Completed, Skipped, Failed}

\* The counters of a parent are the results of its children: each result is
\* counted once, through crashes, retries and deletions, and a parent that
\* waits knows how many children it has.
CountsAgree ==
  \A p \in Parent : status[p] \in {WaitingChildren, Completed, Skipped, Failed} =>
    LET r == items[p]
        in(S) == Cardinality({k \in Existing(p) : status[k] \in S})
    IN  /\ Processed(r) = in(Counted)
        /\ status[p] = WaitingChildren =>
             /\ r.total = Cardinality(Existing(p))
             /\ r.failed = in({Failed})
             /\ r.total > in(Counted)

\* A refresh that is due is not forgotten: as long as it is not recorded, a
\* child is left whose finalization, which is repeated, will ask for it.
RefreshNotLost ==
  \A p \in Parent :
    IsReadyToSubmitRefresh(p) => \E k \in Existing(p) : status[k] = Finalizing

\* Emby is asked for a parent only when all of its children are completed or
\* skipped, but for what is left of their finalization.
RefreshAfterLastChild ==
  \A p \in requested : \A k \in Existing(p) :
    \/ status[k] \in {Finalizing, Completed, Skipped}
    \/ PathOf[p] \in missing

\* A task is not begun while an older one whose files it may write has to
\* repeat its finalization, not even within the batch in which that failed.
OrderKept ==
  [][\A t \in Task :
       status[t] = Pending /\ status'[t] = Running => ~GenerationTaskBlocked(t)]_vars

\* Every task is settled in the end, and every parent with it, through crashes
\* and failing finalizations; only a result that cannot be saved at all leaves
\* a row as it is until the process starts again.
EveryTaskSettles ==
  \A t \in Task : status[t] \in Active ~> status[t] \notin Active \/ faults.save > 0

=============================================================================
