--------------------------- MODULE SyncRunProofs ---------------------------
(***************************************************************************)
(* Proofs about SyncRun: the scopes a run has asked for protect it to the  *)
(* end of its ledger, although they change hands on the way.               *)
(***************************************************************************)
EXTENDS SyncRun, SyncScopeProofs, FiniteSetTheorems

Active == {"start", "wait", "held", "work", "handover", "fail"}

\* What the processor knows of its run.
ForegroundInv ==
  /\ run \in Client \cup {None}
  /\ at \in Active => run # None
  /\ at \in {"idle", "received", "create"} => run = None
  /\ at \in {"held", "work", "handover"} => run \in granted

\* The goroutine of a run holds scopes, and there is none before the handover.
WriterInv ==
  /\ DOMAIN writer = Client
  /\ \A r \in Client : writer[r] # "none" => r \in granted
  /\ at \in Active => writer[run] = "none"

\* A run that has not been created has no part in anything.
FreshInv ==
  /\ DOMAIN record = Client
  /\ \A r \in Client : record[r] = "none" => run # r /\ writer[r] = "none"

RunInv == ScopeInv /\ ForegroundInv /\ WriterInv /\ FreshInv

-----------------------------------------------------------------------------

LEMMA RunInit ==
  ASSUME Init
  PROVE  RunInv
<1>1. ScopeInv
  BY ScopeInit DEF Init
<1> QED
  BY <1>1, RunAssumption DEF Init, InitQueue, RunInv, ForegroundInv, WriterInv, FreshInv, Active

\* Others keep what they hold.
LEMMA WithdrawKeepsOthers ==
  ASSUME NEW c, Withdraw(c)
  PROVE  granted \ {c} \subseteq granted'
BY DEF Withdraw, Grant

LEMMA AskKeepsAll ==
  ASSUME NEW c, NEW S, Ask(c, S)
  PROVE  granted \subseteq granted'
BY DEF Ask, Grant

\* Steps that do not concern the coordinator.
LEMMA QuietStep ==
  ASSUME RunInv, UNCHANGED scopeVars,
         ForegroundInv', WriterInv', FreshInv'
  PROVE  RunInv'
BY ScopeStutter DEF RunInv

LEMMA QueueSteps ==
  ASSUME RunInv,
         Pause \/ Resume \/ Receive \/ Take \/ (\E t \in Task : AddTask(t)),
         UNCHANGED <<scopeVars, runVars>>
  PROVE  RunInv'
<1>1. /\ at' = at \/ (at \in {"idle", "received"} /\ at' \in {"idle", "received", "create"})
      /\ UNCHANGED <<run, record, writer, granted>>
  BY DEF Pause, Resume, Receive, Take, AddTask, runVars, scopeVars
<1>2. ForegroundInv' /\ WriterInv' /\ FreshInv'
  BY <1>1 DEF RunInv, ForegroundInv, WriterInv, FreshInv, Active
<1> QED
  BY <1>2, QuietStep

LEMMA CancelSteps ==
  ASSUME RunInv, NEW t \in Task, Cancel(t)
  PROVE  RunInv'
<1>1. UNCHANGED <<at, run, record, writer, granted>>
  BY DEF Cancel, CancelWaiting, CancelCurrent, scopeVars
<1>2. ForegroundInv' /\ WriterInv' /\ FreshInv'
  BY <1>1 DEF RunInv, ForegroundInv, WriterInv, FreshInv, Active
<1> QED
  BY <1>2, QuietStep DEF Cancel

LEMMA DeleteSteps ==
  ASSUME RunInv, NEW s \in Client, DeleteSyncRecord(s)
  PROVE  RunInv'
<1>1. /\ UNCHANGED <<at, run, writer, granted>>
      /\ DOMAIN record' = DOMAIN record
      /\ \A r \in Client : record'[r] = "none" => record[r] = "none"
  BY DEF DeleteSyncRecord, procVars, scopeVars, RunInv, FreshInv
<1>2. ForegroundInv' /\ WriterInv' /\ FreshInv'
  BY <1>1 DEF RunInv, ForegroundInv, WriterInv, FreshInv, Active
<1> QED
  BY <1>2, QuietStep DEF DeleteSyncRecord

LEMMA CreateStep ==
  ASSUME RunInv, Create
  PROVE  RunInv'
<1>1. UNCHANGED <<writer, granted, scopeVars>> /\ at = "create" /\ run = None
  BY DEF Create, scopeVars, RunInv, ForegroundInv
<1>2. CASE Goto("leave") /\ UNCHANGED <<run, strmSync, record>>
  <2>1. ForegroundInv' /\ WriterInv' /\ FreshInv'
    BY <1>1, <1>2 DEF RunInv, ForegroundInv, WriterInv, FreshInv, Active, Goto
  <2> QED
    BY <1>1, <2>1, QuietStep
<1>3. CASE \E r \in Client :
             /\ IsNext(r)
             /\ record' = [record EXCEPT ![r] = "pending"]
             /\ run' = r
             /\ Goto("start")
  <2>1. PICK r \in Client :
          /\ record[r] = "none"
          /\ record' = [record EXCEPT ![r] = "pending"]
          /\ run' = r
          /\ at' = "start"
    BY <1>3 DEF IsNext, Goto
  <2>2. writer[r] = "none"
    BY <2>1 DEF RunInv, FreshInv
  <2>3. ForegroundInv'
    BY <1>1, <2>1, RunAssumption DEF ForegroundInv, Active
  <2>4. WriterInv'
    BY <1>1, <2>1, <2>2 DEF RunInv, WriterInv
  <2>5. FreshInv'
    BY <1>1, <2>1 DEF RunInv, FreshInv
  <2> QED
    BY <1>1, <2>3, <2>4, <2>5, QuietStep
<1> QED
  BY <1>2, <1>3 DEF Create

LEMMA StartStep ==
  ASSUME RunInv, Start
  PROVE  RunInv'
<1>1. /\ UNCHANGED <<run, writer, record>>
      /\ at = "start" /\ run \in Client /\ writer[run] = "none"
  BY DEF Start, runVars, RunInv, ForegroundInv, WriterInv, Active
<1>2. granted \subseteq granted' /\ at' \in {"leave", "wait"} /\ [ScopeStep]_scopeVars
  BY <1>1, AskKeepsAll DEF Start, Goto, ScopeStep, scopeVars
<1>3. ForegroundInv' /\ WriterInv' /\ FreshInv'
  BY <1>1, <1>2 DEF RunInv, ForegroundInv, WriterInv, FreshInv, Active
<1>4. ScopeInv'
  BY <1>2, ScopeStepKeeps DEF RunInv
<1> QED
  BY <1>3, <1>4 DEF RunInv

\* The steps of the foreground that leave the coordinator alone.
LEMMA ForegroundSteps ==
  ASSUME RunInv, Granted \/ StartSync \/ CompleteSync
  PROVE  RunInv'
<1>1. /\ UNCHANGED <<run, writer, granted, scopeVars>>
      /\ at \in Active /\ run \in Client
      /\ at' = "fail" \/ (at' \in {"held", "work", "handover"} /\ run \in granted)
  BY DEF Granted, StartSync, CompleteSync, runVars, scopeVars, Goto,
         RunInv, ForegroundInv, Active
<1>2. /\ DOMAIN record' = Client
      /\ \A r \in Client : record'[r] = "none" => record[r] = "none"
  BY DEF Granted, StartSync, CompleteSync, runVars, RunInv, FreshInv
<1>3. ForegroundInv' /\ WriterInv' /\ FreshInv'
  BY <1>1, <1>2 DEF RunInv, ForegroundInv, WriterInv, FreshInv, Active
<1> QED
  BY <1>1, <1>3, QuietStep

\* The run gives its scopes back, or never had any.
LEMMA FailingSteps ==
  ASSUME RunInv, StopWaiting \/ FailSync
  PROVE  RunInv'
<1>1. /\ UNCHANGED <<run, writer>>
      /\ run \in Client /\ run # None /\ writer[run] = "none"
      /\ at' \in {"fail", "leave"}
      /\ UNCHANGED scopeVars \/ Withdraw(run)
  BY DEF StopWaiting, FailSync, runVars, Goto, RunInv, ForegroundInv, WriterInv, Active
<1>2. granted \ {run} \subseteq granted' /\ [ScopeStep]_scopeVars
  BY <1>1, WithdrawKeepsOthers DEF ScopeStep, scopeVars
<1>3. /\ DOMAIN record' = Client
      /\ \A r \in Client : record'[r] = "none" => record[r] = "none"
  BY DEF StopWaiting, FailSync, runVars, RunInv, FreshInv
<1>4. ForegroundInv' /\ WriterInv' /\ FreshInv'
  BY <1>1, <1>2, <1>3 DEF RunInv, ForegroundInv, WriterInv, FreshInv, Active
<1>5. ScopeInv'
  BY <1>2, ScopeStepKeeps DEF RunInv
<1> QED
  BY <1>4, <1>5 DEF RunInv

LEMMA HandOverStep ==
  ASSUME RunInv, HandOver
  PROVE  RunInv'
<1>1. /\ UNCHANGED <<run, record>>
      /\ run \in Client /\ writer[run] = "none" /\ run \in granted
      /\ at' = "leave"
  BY DEF HandOver, Goto, RunInv, ForegroundInv, WriterInv, Active
<1>2. CASE UNCHANGED scopeVars /\ writer' = [writer EXCEPT ![run] = "submitted"]
  <2>1. ForegroundInv' /\ FreshInv'
    BY <1>1, <1>2 DEF RunInv, ForegroundInv, FreshInv, WriterInv, Active, scopeVars
  <2>2. WriterInv'
    BY <1>1, <1>2 DEF RunInv, WriterInv, Active, scopeVars
  <2> QED
    BY <1>2, <2>1, <2>2, QuietStep
<1>3. CASE Withdraw(run) /\ UNCHANGED writer
  <2>1. granted \ {run} \subseteq granted' /\ [ScopeStep]_scopeVars
    BY <1>1, <1>3, WithdrawKeepsOthers DEF ScopeStep
  <2>2. ForegroundInv' /\ WriterInv' /\ FreshInv'
    BY <1>1, <1>3, <2>1 DEF RunInv, ForegroundInv, WriterInv, FreshInv, Active
  <2>3. ScopeInv'
    BY <2>1, ScopeStepKeeps DEF RunInv
  <2> QED
    BY <2>2, <2>3 DEF RunInv
<1> QED
  BY <1>2, <1>3 DEF HandOver

LEMMA ReturnStep ==
  ASSUME RunInv, Return
  PROVE  RunInv'
<1>1. /\ UNCHANGED <<record, writer, granted, scopeVars>>
      /\ run' = None /\ at' = "idle"
  BY DEF Return, Leave, scopeVars
<1>2. ForegroundInv' /\ WriterInv' /\ FreshInv'
  BY <1>1, RunAssumption DEF RunInv, ForegroundInv, WriterInv, FreshInv, Active
<1> QED
  BY <1>1, <1>2, QuietStep

LEMMA WriterSteps ==
  ASSUME RunInv, NEW r \in Client, Writer(r)
  PROVE  RunInv'
<1>1. /\ UNCHANGED <<run, record, at>>
      /\ writer[r] # "none" /\ r \in granted
      /\ at \in Active => r # run
      /\ DOMAIN writer' = Client
      /\ \A s \in Client \ {r} : writer'[s] = writer[s]
  BY DEF Writer, LedgerStarts, LedgerEnds, LedgerReleases, procVars, RunInv, WriterInv
<1>2. CASE UNCHANGED scopeVars
  <2>1. ForegroundInv' /\ WriterInv' /\ FreshInv'
    BY <1>1, <1>2 DEF RunInv, ForegroundInv, WriterInv, FreshInv, scopeVars
  <2> QED
    BY <1>2, <2>1, QuietStep
<1>3. CASE Withdraw(r) /\ writer'[r] = "none"
  <2>1. granted \ {r} \subseteq granted' /\ [ScopeStep]_scopeVars
    BY <1>3, WithdrawKeepsOthers DEF ScopeStep
  <2>2. ForegroundInv' /\ WriterInv' /\ FreshInv'
    BY <1>1, <1>3, <2>1 DEF RunInv, ForegroundInv, WriterInv, FreshInv, Active
  <2>3. ScopeInv'
    BY <2>1, ScopeStepKeeps DEF RunInv
  <2> QED
    BY <2>2, <2>3 DEF RunInv
<1> QED
  BY <1>2, <1>3 DEF Writer, LedgerStarts, LedgerEnds, LedgerReleases, RunInv, WriterInv

LEMMA ProcessSteps ==
  ASSUME RunInv, Shutdown \/ Crash \/ Boot
  PROVE  RunInv'
<1>1. CASE Shutdown
  <2>1. UNCHANGED <<at, run, record, writer, granted, scopeVars>>
    BY <1>1 DEF Shutdown, procVars, scopeVars
  <2>2. ForegroundInv' /\ WriterInv' /\ FreshInv'
    BY <2>1 DEF RunInv, ForegroundInv, WriterInv, FreshInv, Active
  <2> QED
    BY <2>1, <2>2, QuietStep
<1>2. CASE Boot
  <2>1. /\ UNCHANGED <<at, run, writer, granted, scopeVars>>
        /\ DOMAIN record' = Client
        /\ \A r \in Client : record'[r] = "none" => record[r] = "none"
    BY <1>2 DEF Boot, procVars, scopeVars, Open
  <2>2. ForegroundInv' /\ WriterInv' /\ FreshInv'
    BY <2>1 DEF RunInv, ForegroundInv, WriterInv, FreshInv, Active
  <2> QED
    BY <2>1, <2>2, QuietStep
<1>3. CASE Crash
  <2>1. ScopeInv'
    BY <1>3 DEF Crash, ScopeInv, OneRequestEach, Requested, Apart
  <2>2. ForegroundInv' /\ WriterInv' /\ FreshInv'
    BY <1>3, RunAssumption DEF Crash, RunInv, ForegroundInv, WriterInv, FreshInv, Active
  <2> QED
    BY <2>1, <2>2 DEF RunInv
<1> QED
  BY <1>1, <1>2, <1>3

LEMMA RunStep ==
  ASSUME RunInv, [Next]_vars
  PROVE  RunInv'
<1>1. CASE UNCHANGED vars
  <2>1. UNCHANGED <<at, run, record, writer, granted, scopeVars>>
    BY <1>1 DEF vars, procVars, runVars, scopeVars
  <2>2. ForegroundInv' /\ WriterInv' /\ FreshInv'
    BY <2>1 DEF RunInv, ForegroundInv, WriterInv, FreshInv, Active
  <2> QED
    BY <2>1, <2>2, QuietStep
<1>2. CASE User
  BY <1>2, QueueSteps, CancelSteps, DeleteSteps DEF User
<1>3. CASE Processor
  BY <1>3, QueueSteps, CreateStep, StartStep, ForegroundSteps, FailingSteps,
     HandOverStep, ReturnStep DEF Processor
<1>4. CASE \E r \in Client : Writer(r)
  BY <1>4, WriterSteps
<1>5. CASE Shutdown \/ Crash \/ Boot
  BY <1>5, ProcessSteps
<1> QED
  BY <1>1, <1>2, <1>3, <1>4, <1>5 DEF Next

LEMMA RunInvariant == Spec => []RunInv
<1>1. Init => RunInv
  BY RunInit
<1>2. RunInv /\ [Next]_vars => RunInv'
  BY RunStep
<1> QED
  BY <1>1, <1>2, PTL DEF Spec

-----------------------------------------------------------------------------

\* Whatever is cancelled, refused, shut down or restarted, a run holds its
\* scopes from its scan to the end of its ledger, and nobody else holds any
\* that overlap them.
THEOREM RunExclusion == Spec => []OneAtWork
<1>1. RunInv => OneAtWork
  BY ScopeInvImplies DEF RunInv, OneAtWork, AtWork, ForegroundInv, WriterInv
<1> QED
  BY <1>1, RunInvariant, PTL

-----------------------------------------------------------------------------
(* Type correctness.  What RunInv does not have: that the waiting tasks are *)
(* finitely many, that only a run in the foreground is cancelled, and which *)
(* rows may have a ledger in flight.                                        *)

QueueInv == QueueTypeOK /\ IsFiniteSet(waiting)

FieldInv ==
  /\ strmSync \in {None, run}
  /\ stopped \subseteq {run} \ {None}

\* A row is completed before its ledger is announced, and a goroutine works
\* only for a completed row, which may be deleted meanwhile.
RowInv ==
  /\ record \in [Client -> Statuses]
  /\ ledger \in [Client -> LedgerStatuses]
  /\ \A r \in Client : ledger[r] \in InFlight => record[r] = "completed"
  /\ \A r \in Client : writer[r] \in {"submitted", "writing"} => record[r] \in {"completed", "deleted"}
  /\ at \in {"start", "wait", "held"} => record[run] # "completed"
  /\ at = "handover" => record[run] \in {"completed", "deleted"}

RunTypeInv == QueueInv /\ FieldInv /\ RowInv

LEMMA TypeInit ==
  ASSUME Init
  PROVE  RunTypeInv
<1>1. QueueInv
  BY TaskAssumption, FS_EmptySet DEF Init, InitQueue, QueueInv, QueueTypeOK, Places
<1>2. FieldInv
  BY DEF Init, FieldInv
<1>3. RowInv
  BY DEF Init, InitQueue, RowInv, Statuses, LedgerStatuses, InFlight
<1> QED
  BY <1>1, <1>2, <1>3 DEF RunTypeInv

\* A prefix of an enumeration of S is a sequence over S.
LEMMA EnumerationPrefix ==
  ASSUME NEW S, IsFiniteSet(S), NEW order \in SetToSeqs(S), NEW room \in Nat
  PROVE  /\ SubSeq(order, 1, IF Len(order) < room THEN Len(order) ELSE room) \in Seq(S)
         /\ Len(SubSeq(order, 1, IF Len(order) < room THEN Len(order) ELSE room)) <= room
<1>1. Cardinality(S) \in Nat
  BY FS_CardinalityType
<1>2. order \in [1 .. Cardinality(S) -> S]
  BY DEF SetToSeqs
<1>3. order \in Seq(S) /\ Len(order) = Cardinality(S)
  BY <1>1, <1>2
<1> DEFINE n == IF Len(order) < room THEN Len(order) ELSE room
<1>4. n \in Nat /\ n <= Len(order) /\ n <= room
  BY <1>1, <1>3
<1> HIDE DEF n
<1>5. SubSeq(order, 1, n) \in Seq(S) /\ Len(SubSeq(order, 1, n)) = n
  BY <1>3, <1>4, SubSeqProperties
<1> QED
  BY <1>4, <1>5 DEF n

LEMMA AddTaskTypes ==
  ASSUME QueueInv, NEW t \in Task, AddTask(t)
  PROVE  QueueInv'
<1>1. /\ waiting' \subseteq Task /\ IsFiniteSet(waiting')
      /\ UNCHANGED <<status, current, at, task>>
  BY FS_AddElement DEF AddTask, QueueInv, QueueTypeOK
<1>2. taskChan' \in Seq(Task) /\ Len(taskChan') <= Capacity
  <2>1. CASE status = "running"
    <3>1. Len(taskChan) < Capacity /\ taskChan' = Append(taskChan, t)
      BY <2>1, TaskAssumption DEF AddTask, Full, QueueInv, QueueTypeOK
    <3> QED
      BY <3>1, TaskAssumption DEF QueueInv, QueueTypeOK
  <2>2. CASE status # "running"
    BY <2>2 DEF AddTask, QueueInv, QueueTypeOK
  <2> QED
    BY <2>1, <2>2
<1> QED
  BY <1>1, <1>2 DEF QueueInv, QueueTypeOK

LEMMA ReceiveTypes ==
  ASSUME QueueInv, Receive
  PROVE  QueueInv'
<1>1. /\ Head(taskChan) \in Task
      /\ Tail(taskChan) \in Seq(Task) /\ Len(Tail(taskChan)) <= Capacity
  BY TaskAssumption DEF Receive, QueueInv, QueueTypeOK
<1> QED
  BY <1>1, TaskAssumption DEF Receive, QueueInv, QueueTypeOK, Places

LEMMA TakeTypes ==
  ASSUME QueueInv, Take
  PROVE  QueueInv'
<1>1. waiting' \subseteq waiting /\ IsFiniteSet(waiting')
  BY FS_Subset DEF Take, QueueInv
<1> QED
  BY <1>1, TaskAssumption DEF Take, QueueInv, QueueTypeOK, Places

LEMMA ResumeTypes ==
  ASSUME QueueInv, Resume
  PROVE  QueueInv'
<1> DEFINE room == Capacity - Len(taskChan)
<1>1. room \in Nat /\ Len(taskChan) + room = Capacity
  BY TaskAssumption DEF QueueInv, QueueTypeOK
<1>2. PICK order \in SetToSeqs(waiting) :
        taskChan' = taskChan \o SubSeq(order, 1, IF Len(order) < room THEN Len(order) ELSE room)
  BY DEF Resume
<1>3. PICK sent \in Seq(waiting) : taskChan' = taskChan \o sent /\ Len(sent) <= room
  <2> HIDE DEF room
  <2> QED
    BY <1>1, <1>2, EnumerationPrefix DEF QueueInv
<1>4. sent \in Seq(Task)
  BY <1>3 DEF QueueInv, QueueTypeOK
<1>5. taskChan' \in Seq(Task) /\ Len(taskChan') <= Capacity
  BY <1>1, <1>3, <1>4, ConcatProperties, TaskAssumption DEF QueueInv, QueueTypeOK
<1> QED
  BY <1>5 DEF Resume, QueueInv, QueueTypeOK

\* A processor that has a task moves on with it.
LEMMA GotoTypes ==
  ASSUME QueueInv, UNCHANGED queueVars, at # "idle", NEW place \in Places \ {"idle"}, Goto(place)
  PROVE  QueueInv'
BY DEF QueueInv, QueueTypeOK, queueVars, Goto

LEMMA QueueTypes ==
  ASSUME QueueInv, [Next]_vars
  PROVE  QueueInv'
<1>1. CASE UNCHANGED <<queueVars, procVars>>
  BY <1>1 DEF QueueInv, QueueTypeOK, queueVars, procVars
<1>2. CASE User
  <2>1. CASE Pause \/ Resume \/ \E t \in Task : AddTask(t)
    <3>1. CASE Pause
      BY <3>1 DEF Pause, QueueInv, QueueTypeOK
    <3> QED
      BY <2>1, <3>1, ResumeTypes, AddTaskTypes
  <2>2. CASE \E t \in Task : Cancel(t)
    <3>1. waiting' \subseteq waiting /\ IsFiniteSet(waiting')
      BY <2>2, FS_Subset DEF Cancel, CancelWaiting, CancelCurrent, QueueInv
    <3> QED
      BY <2>2, <3>1 DEF Cancel, CancelWaiting, CancelCurrent, QueueInv, QueueTypeOK
  <2>3. CASE \E r \in Client : DeleteSyncRecord(r)
    BY <1>1, <2>3 DEF DeleteSyncRecord
  <2> QED
    BY <1>2, <2>1, <2>2, <2>3 DEF User
<1>3. CASE Processor
  <2>1. CASE Receive \/ Take
    BY <2>1, ReceiveTypes, TakeTypes
  <2>2. CASE Create \/ Start \/ Granted \/ StopWaiting \/ StartSync \/ CompleteSync
             \/ HandOver \/ FailSync
    <3>1. /\ UNCHANGED queueVars
          /\ at # "idle"
          /\ \E place \in Places \ {"idle"} : Goto(place)
      BY <2>2 DEF Create, Start, Granted, StopWaiting, StartSync, CompleteSync,
           HandOver, FailSync, Places
    <3> QED
      BY <3>1, GotoTypes
  <2>3. CASE Return
    BY <2>3, TaskAssumption DEF Return, Leave, QueueInv, QueueTypeOK, Places
  <2> QED
    BY <1>3, <2>1, <2>2, <2>3 DEF Processor
<1>4. CASE \E r \in Client : Writer(r)
  BY <1>1, <1>4 DEF Writer, LedgerStarts, LedgerEnds, LedgerReleases
<1>5. CASE Shutdown
  BY <1>5 DEF Shutdown, procVars, QueueInv, QueueTypeOK
<1>6. CASE Crash
  BY <1>6, TaskAssumption, FS_EmptySet DEF Crash, QueueInv, QueueTypeOK, Places
<1>7. CASE Boot
  BY <1>1, <1>7 DEF Boot
<1>8. CASE UNCHANGED vars
  BY <1>1, <1>8 DEF vars
<1> QED
  BY <1>2, <1>3, <1>4, <1>5, <1>6, <1>7, <1>8 DEF Next

LEMMA FieldTypes ==
  ASSUME RunInv, FieldInv, [Next]_vars
  PROVE  FieldInv'
<1>1. CASE UNCHANGED <<run, strmSync, stopped>>
  BY <1>1 DEF FieldInv
<1>2. CASE \E t \in Task : Cancel(t)
  BY <1>2 DEF Cancel, FieldInv
<1>3. CASE Create
  <2>1. run = None /\ stopped = {}
    BY <1>3 DEF Create, RunInv, ForegroundInv, FieldInv
  <2> QED
    BY <1>3, <2>1 DEF Create, FieldInv
<1>4. CASE Return
  BY <1>4 DEF Return, FieldInv
<1>5. CASE Crash
  BY <1>5 DEF Crash, FieldInv
<1>6. CASE User
  BY <1>1, <1>2, <1>6 DEF User, DeleteSyncRecord, runVars
<1>7. CASE Processor
  BY <1>1, <1>3, <1>4, <1>7 DEF Processor, Start, Granted, StopWaiting, StartSync,
     CompleteSync, HandOver, FailSync, runVars
<1>8. CASE (\E r \in Client : Writer(r)) \/ Shutdown \/ Boot \/ UNCHANGED vars
  BY <1>1, <1>8 DEF Writer, LedgerStarts, LedgerEnds, LedgerReleases, Shutdown, Boot,
     vars, runVars
<1> QED
  BY <1>5, <1>6, <1>7, <1>8 DEF Next

\* The run of the foreground gets a new status, or the old one.
LEMMA CreateRows ==
  ASSUME RunInv, RowInv, Create
  PROVE  RowInv'
<1>1. UNCHANGED <<ledger, writer>>
  BY DEF Create
<1>2. CASE UNCHANGED record /\ at' = "leave"
  BY <1>1, <1>2 DEF RowInv
<1>3. CASE \E r \in Client : /\ IsNext(r)
                             /\ record' = [record EXCEPT ![r] = "pending"]
                             /\ run' = r
                             /\ at' = "start"
  <2>1. PICK r \in Client : /\ record[r] = "none"
                            /\ record' = [record EXCEPT ![r] = "pending"]
                            /\ run' = r
                            /\ at' = "start"
    BY <1>3 DEF IsNext
  <2>2. writer[r] = "none" /\ ledger[r] \notin InFlight
    BY <2>1 DEF RunInv, FreshInv, RowInv
  <2>3. record' \in [Client -> Statuses] /\ record'[r] = "pending"
    BY <2>1 DEF RowInv, Statuses, Open
  <2> QED
    BY <1>1, <2>1, <2>2, <2>3 DEF RowInv
<1> QED
  BY <1>2, <1>3 DEF Create, Goto

LEMMA StartSyncRows ==
  ASSUME RunInv, RowInv, StartSync
  PROVE  RowInv'
<1>1. /\ run \in Client /\ UNCHANGED <<run, ledger, writer>>
      /\ writer[run] = "none" /\ record[run] # "completed"
      /\ at' \in {"work", "fail"}
  BY DEF StartSync, Goto, RunInv, ForegroundInv, WriterInv, Active, RowInv
<1>2. ledger[run] \notin InFlight
  BY <1>1 DEF RowInv
<1>3. /\ record' \in [Client -> Statuses]
      /\ \A r \in Client \ {run} : record'[r] = record[r]
  BY <1>1 DEF StartSync, RowInv, Statuses, Open
<1> QED
  BY <1>1, <1>2, <1>3 DEF RowInv

LEMMA CompleteSyncRows ==
  ASSUME RunInv, RowInv, CompleteSync
  PROVE  RowInv'
<1>1. /\ run \in Client /\ UNCHANGED <<run, writer>> /\ writer[run] = "none"
  BY DEF CompleteSync, RunInv, ForegroundInv, WriterInv, Active
<1>2. CASE UNCHANGED <<record, ledger>> /\ at' = "fail"
  BY <1>1, <1>2 DEF RowInv
<1>3. CASE /\ record' = [record EXCEPT ![run] = "completed"]
           /\ ledger' = [ledger EXCEPT ![run] = IF task \in Manual THEN "not_required" ELSE "pending"]
           /\ at' = "handover"
  <2>1. record' \in [Client -> Statuses] /\ record'[run] = "completed"
    BY <1>1, <1>3 DEF RowInv, Statuses, Terminal
  <2>2. ledger' \in [Client -> LedgerStatuses]
    BY <1>1, <1>3 DEF RowInv, LedgerStatuses, InFlight
  <2>3. \A r \in Client \ {run} : record'[r] = record[r] /\ ledger'[r] = ledger[r]
    BY <1>1, <1>3 DEF RowInv
  <2> QED
    BY <1>1, <1>3, <2>1, <2>2, <2>3 DEF RowInv
<1> QED
  BY <1>2, <1>3 DEF CompleteSync, Goto

LEMMA HandOverRows ==
  ASSUME RunInv, RowInv, HandOver
  PROVE  RowInv'
<1>1. /\ run \in Client /\ UNCHANGED <<run, record>> /\ at' = "leave"
      /\ record[run] \in {"completed", "deleted"}
  BY DEF HandOver, Goto, RunInv, ForegroundInv, WriterInv, Active, RowInv
<1>2. /\ ledger' \in [Client -> LedgerStatuses]
      /\ \A r \in Client : ledger'[r] \in InFlight => ledger[r] \in InFlight
  BY <1>1 DEF HandOver, RowInv, LedgerStatuses, InFlight
<1>3. \A r \in Client \ {run} : writer'[r] = writer[r]
  BY <1>1 DEF HandOver, RunInv, WriterInv
<1> QED
  BY <1>1, <1>2, <1>3 DEF RowInv

LEMMA FailSyncRows ==
  ASSUME RunInv, RowInv, FailSync
  PROVE  RowInv'
<1>1. /\ run \in Client /\ UNCHANGED <<run, writer>> /\ at' = "leave"
      /\ writer[run] = "none"
  BY DEF FailSync, Goto, RunInv, ForegroundInv, WriterInv, Active
<1>2. /\ record' \in [Client -> Statuses]
      /\ \A r \in Client \ {run} : record'[r] = record[r]
  BY <1>1 DEF FailSync, RowInv, Statuses, Terminal
<1>3. /\ ledger' \in [Client -> LedgerStatuses]
      /\ ledger'[run] = "not_required"
      /\ \A r \in Client \ {run} : ledger'[r] = ledger[r]
  BY <1>1 DEF FailSync, RowInv, LedgerStatuses
<1> QED
  BY <1>1, <1>2, <1>3 DEF RowInv, InFlight

LEMMA DeleteRows ==
  ASSUME RunInv, RowInv, NEW r \in Client, DeleteSyncRecord(r)
  PROVE  RowInv'
<1>1. UNCHANGED <<at, run, writer>> /\ record[r] \in Terminal
  BY DEF DeleteSyncRecord, procVars
<1>2. /\ record' \in [Client -> Statuses]
      /\ record'[r] = "deleted"
      /\ \A s \in Client \ {r} : record'[s] = record[s]
  BY DEF DeleteSyncRecord, RowInv, Statuses
<1>3. /\ ledger' \in [Client -> LedgerStatuses]
      /\ ledger'[r] = "none"
      /\ \A s \in Client \ {r} : ledger'[s] = ledger[s]
  BY DEF DeleteSyncRecord, RowInv, LedgerStatuses
<1>4. at \in Active => run \in Client
  BY DEF RunInv, ForegroundInv
<1> QED
  BY <1>1, <1>2, <1>3, <1>4 DEF RowInv, InFlight, Active

\* The goroutine writes about its own row, and only when that is still there.
LEMMA WriterRows ==
  ASSUME RunInv, RowInv, NEW r \in Client, Writer(r)
  PROVE  RowInv'
<1>1. UNCHANGED <<at, run, record>>
  BY DEF Writer, LedgerStarts, LedgerEnds, LedgerReleases, procVars
<1>2. DOMAIN writer = Client
  BY DEF RunInv, WriterInv
<1>3. CASE LedgerReleases(r)
  <2>1. /\ UNCHANGED ledger
        /\ \A s \in Client : writer'[s] \in {"submitted", "writing"} => writer'[s] = writer[s]
    BY <1>2, <1>3 DEF LedgerReleases
  <2> QED
    BY <1>1, <2>1 DEF RowInv
<1>4. CASE LedgerStarts(r) \/ LedgerEnds(r)
  <2>1. /\ writer[r] \in {"submitted", "writing"}
        /\ \E to \in LedgerStatuses : UpdateLedger(r, to)
        /\ \A s \in Client \ {r} : writer'[s] = writer[s]
    BY <1>2, <1>4 DEF LedgerStarts, LedgerEnds, LedgerStatuses, InFlight
  <2>2. record[r] \in {"completed", "deleted"}
    BY <2>1 DEF RowInv
  <2>3. /\ ledger' \in [Client -> LedgerStatuses]
        /\ \A s \in Client \ {r} : ledger'[s] = ledger[s]
        /\ record[r] = "deleted" => ledger' = ledger
    BY <2>1 DEF UpdateLedger, RowInv
  <2> QED
    BY <1>1, <2>1, <2>2, <2>3 DEF RowInv
<1> QED
  BY <1>3, <1>4 DEF Writer

LEMMA BootRows ==
  ASSUME RowInv, RunInv, Boot
  PROVE  RowInv'
<1>1. UNCHANGED <<at, run, writer>>
  BY DEF Boot, procVars
<1>2. /\ record' \in [Client -> Statuses]
      /\ \A r \in Client : record'[r] = IF record[r] \in Open THEN "failed" ELSE record[r]
  BY DEF Boot, RowInv, Statuses, Terminal
<1>3. /\ ledger' \in [Client -> LedgerStatuses]
      /\ \A r \in Client : ledger'[r] \notin InFlight
  BY DEF Boot, Interrupted, RowInv, LedgerStatuses, InFlight
<1>4. at \in Active => run \in Client
  BY DEF RunInv, ForegroundInv
<1> QED
  BY <1>1, <1>2, <1>3, <1>4 DEF RowInv, Open, Active

LEMMA RowTypes ==
  ASSUME RunInv, RowInv, [Next]_vars
  PROVE  RowInv'
<1>1. CASE /\ UNCHANGED <<run, record, ledger, writer>>
           /\ at' = at \/ at' \notin {"start", "wait", "held", "handover"}
                       \/ (at \in {"start", "wait"} /\ at' \in {"wait", "held"})
  BY <1>1 DEF RowInv
<1>2. CASE User
  <2>1. CASE (Pause \/ Resume \/ \E t \in Task : AddTask(t)) /\ UNCHANGED runVars
    BY <1>1, <2>1 DEF Pause, Resume, AddTask, runVars
  <2>2. CASE \E t \in Task : Cancel(t)
    BY <1>1, <2>2 DEF Cancel, CancelWaiting, CancelCurrent
  <2> QED
    BY <1>2, <2>1, <2>2, DeleteRows DEF User
<1>3. CASE Processor
  <2>1. CASE (Receive \/ Take) /\ UNCHANGED runVars
    BY <1>1, <2>1 DEF Receive, Take, runVars
  <2>2. CASE Start \/ Granted \/ StopWaiting
    BY <1>1, <2>2 DEF Start, Granted, StopWaiting, Goto, runVars
  <2>3. CASE Return
    BY <2>3 DEF Return, Leave, RowInv
  <2> QED
    BY <1>3, <2>1, <2>2, <2>3, CreateRows, StartSyncRows, CompleteSyncRows, HandOverRows,
       FailSyncRows DEF Processor
<1>4. CASE Shutdown
  BY <1>1, <1>4 DEF Shutdown, procVars
<1>5. CASE Crash
  BY <1>5 DEF Crash, RowInv
<1>6. CASE UNCHANGED vars
  BY <1>1, <1>6 DEF vars, procVars, runVars
<1> QED
  BY <1>2, <1>3, <1>4, <1>5, <1>6, WriterRows, BootRows DEF Next

\* The queue, the coordinator, the runs and their rows fit together, whatever
\* is cancelled, deleted, paused or shut down, and whenever the process ends: a
\* channel never holds more than it can, a cancel reaches no run but the one in
\* the foreground, and only a completed row has a ledger in flight.
THEOREM RunTypeCorrect == Spec => []TypeOK
<1>1. Init => RunTypeInv
  BY TypeInit
<1>2. RunInv /\ RunTypeInv /\ [Next]_vars => RunTypeInv'
  BY QueueTypes, FieldTypes, RowTypes DEF RunTypeInv
<1>3. RunInv /\ RunTypeInv => TypeOK
  BY ScopeInvImplies DEF RunInv, ForegroundInv, RunTypeInv, QueueInv, FieldInv, RowInv, TypeOK
<1> QED
  BY <1>1, <1>2, <1>3, RunInvariant, PTL DEF Spec

=============================================================================
