-------------------------- MODULE SyncTaskQueue --------------------------
(* The queue of one source type (synccron/newqueue.go): tasks wait in a map *)
(* and in a channel, one processor executes them, users cancel, pause and   *)
(* resume.  What the processor does with a task is in SyncRun.              *)
(*                                                                          *)
(* A step is one hold of q.mutex.  The processor is started by the first    *)
(* task that is sent and never ends: Stop() has no caller.                  *)
EXTENDS Naturals, Sequences, SequencesExt, FiniteSets

CONSTANTS
  Task,        \* keys of tasks: a sync path or a manual source, and the type
  Manual,      \* those without an id, which cannot be cancelled
  Capacity,    \* cap(taskChan), 50 in the code
  None,        \* nil
  MaxAdds,     \* bound: accepted calls of AddTask
  MaxPauses    \* bound: calls of Pause that pause

ASSUME TaskAssumption ==
  /\ Manual \subseteq Task
  /\ Capacity \in Nat \ {0}
  /\ None \notin Task
  /\ MaxAdds \in Nat
  /\ MaxPauses \in Nat

VARIABLES
  status,     \* q.status
  taskChan,   \* q.taskChan
  waiting,    \* the keys of q.waitingQueue
  current,    \* q.currentTask
  at,         \* where the processor is
  task,       \* the task it has received, or None
  adds,       \* history: accepted calls of AddTask
  pauses      \* history: pauses

queueVars == <<status, taskChan, waiting, current, adds, pauses>>

Places == {"idle", "received", "create", "start", "wait", "held", "work",
           "handover", "fail", "leave"}

-----------------------------------------------------------------------------

Exists(t) == t \in waiting \/ current = t

\* Cancelled tasks leave their entry in the channel, so it may be full while
\* few tasks wait.
Full == Cardinality(waiting) >= Capacity \/ (status = "running" /\ Len(taskChan) >= Capacity)

AddTask(t) ==
  /\ adds < MaxAdds
  /\ ~Exists(t)
  /\ ~Full
  /\ waiting' = waiting \cup {t}
  /\ taskChan' = IF status = "running" THEN Append(taskChan, t) ELSE taskChan
  /\ adds' = adds + 1
  /\ UNCHANGED <<status, current, at, task, pauses>>

\* The receive comes before the lock.
Receive ==
  /\ at = "idle"
  /\ taskChan # <<>>
  /\ task' = Head(taskChan)
  /\ taskChan' = Tail(taskChan)
  /\ at' = "received"
  /\ UNCHANGED <<status, waiting, current, adds, pauses>>

\* A task that no longer waits was cancelled, or its entry is a second one.
Take ==
  /\ at = "received"
  /\ IF task \in waiting
     THEN /\ waiting' = waiting \ {task}
          /\ current' = task
          /\ at' = "create"
          /\ UNCHANGED task
     ELSE /\ at' = "idle"
          /\ task' = None
          /\ UNCHANGED <<waiting, current>>
  /\ UNCHANGED <<status, taskChan, adds, pauses>>

CancelWaiting(t) ==
  /\ t \in waiting \ Manual
  /\ waiting' = waiting \ {t}
  /\ UNCHANGED <<status, taskChan, current, at, task, adds, pauses>>

\* What reaches the run is in SyncRun.
CancelCurrent(t) ==
  /\ t \notin waiting \cup Manual
  /\ current = t
  /\ current' = None
  /\ UNCHANGED <<status, taskChan, waiting, at, task, adds, pauses>>

Pause ==
  /\ status = "running"
  /\ pauses < MaxPauses
  /\ status' = "paused"
  /\ pauses' = pauses + 1
  /\ UNCHANGED <<taskChan, waiting, current, at, task, adds>>

\* Mutant: what waits stays out of the channel.
ResumeWithoutSending ==
  /\ status = "paused"
  /\ status' = "running"
  /\ UNCHANGED <<taskChan, waiting, current, at, task, adds, pauses>>

\* The waiting tasks are sent in any order, those of before the pause a second
\* time, until the channel is full.
Resume ==
  /\ status = "paused"
  /\ status' = "running"
  /\ LET room == Capacity - Len(taskChan)
     IN \E order \in SetToSeqs(waiting) :
          taskChan' = taskChan \o SubSeq(order, 1, IF Len(order) < room THEN Len(order) ELSE room)
  /\ UNCHANGED <<waiting, current, at, task, adds, pauses>>

\* executeTask has returned.
Leave ==
  /\ current' = None
  /\ at' = "idle"
  /\ task' = None
  /\ UNCHANGED <<status, taskChan, waiting, adds, pauses>>

InitQueue ==
  /\ status = "running"
  /\ taskChan = <<>>
  /\ waiting = {}
  /\ current = None
  /\ at = "idle"
  /\ task = None
  /\ adds = 0
  /\ pauses = 0

QueueTypeOK ==
  /\ status \in {"running", "paused"}
  /\ taskChan \in Seq(Task)
  /\ Len(taskChan) <= Capacity
  /\ waiting \subseteq Task
  /\ current \in Task \cup {None}
  /\ at \in Places
  /\ task \in Task \cup {None}
  /\ (task = None) = (at = "idle")

=============================================================================
