----------------------------- MODULE SyncRun -----------------------------
(* A run of a STRM sync (syncstrm/sync.go, sync_scope.go,                   *)
(* sync_background.go; models/sync.go): the processor of SyncTaskQueue      *)
(* creates a record, waits for the scopes of its directory (SyncScope),     *)
(* scans and writes, saves the result, and hands the scopes over to a       *)
(* goroutine that brings the file records (the ledger) up to date while the *)
(* next task is executed already.                                           *)
(*                                                                          *)
(* A run is a client of the coordinator.  SyncPosition has how its scopes   *)
(* are found; here a task has fixed ones, and a change of the configuration *)
(* while it waits is one way to fail.  A failing save of a result, which is *)
(* left to the next start, is not modelled.                                 *)
EXTENDS SyncTaskQueue, SyncScope

CONSTANTS
  ScopeOf,      \* the scopes of each task
  MaxCrashes    \* bound: ends of the process

ASSUME RunAssumption ==
  /\ Client = 1 .. MaxAdds
  /\ None \notin Client
  /\ ScopeOf \in [Task -> SUBSET Scope]
  /\ MaxCrashes \in Nat

VARIABLES
  run,        \* the run the processor works on, or None
  strmSync,   \* q.strmSync: the run a cancel reaches, or None
  stopped,    \* runs whose context is cancelled
  record,     \* the status of each run's row in syncs, or "none"
  ledger,     \* its ledger_status
  writer,     \* the background goroutine of each run
  stopping,   \* syncBackgroundService.stopping
  up,         \* the process is up
  crashes     \* history: ends of the process

runVars == <<run, strmSync, stopped, record, ledger, writer, stopping, up, crashes>>
procVars == <<at, task>>
vars == <<queueVars, procVars, scopeVars, runVars>>

Open == {"pending", "running"}
Terminal == {"completed", "failed", "cancelled"}
InFlight == {"pending", "running"}

\* Partial and incomplete scans are completed ones here.
Statuses == {"none", "deleted"} \cup Open \cup Terminal
LedgerStatuses == {"none", "not_required", "completed", "failed", "interrupted"} \cup InFlight

Goto(place) == at' = place /\ UNCHANGED task

\* Runs are numbered as they are created.
IsNext(r) == record[r] = "none" /\ \A s \in Client : s < r => record[s] # "none"

-----------------------------------------------------------------------------
(* The processor *)

\* newSyncStrm creates the record; the field is set after it, without q.mutex.
\* Nothing is created for a path that is gone.
Create ==
  /\ at = "create"
  /\ \/ /\ Goto("leave")
        /\ UNCHANGED <<run, strmSync, record>>
     \/ \E r \in Client :
          /\ IsNext(r)
          /\ record' = [record EXCEPT ![r] = "pending"]
          /\ run' = r
          /\ strmSync' = r
          /\ Goto("start")
  /\ UNCHANGED <<queueVars, scopeVars, stopped, ledger, writer, stopping, up, crashes>>

\* The field is read again.  A cancel has made it nil in between: the call
\* panics, the queue recovers, and the record stays as it is.
Start ==
  /\ at = "start"
  /\ IF strmSync = None
     THEN /\ Goto("leave")
          /\ UNCHANGED scopeVars
     ELSE /\ Ask(run, ScopeOf[task])
          /\ Goto("wait")
  /\ UNCHANGED <<queueVars, runVars>>

\* acquireScope, granted.
Granted ==
  /\ at = "wait"
  /\ run \in granted \ stopped
  /\ Goto("held")
  /\ UNCHANGED <<queueVars, scopeVars, runVars>>

\* A cancelled one withdraws, granted or not.
StopWaiting ==
  /\ at = "wait"
  /\ run \in stopped
  /\ Withdraw(run)
  /\ Goto("fail")
  /\ UNCHANGED <<queueVars, runVars>>

\* The configuration is compared, the transfers are stopped, startSync.
StartSync ==
  /\ at = "held"
  /\ \/ run \notin stopped /\ record' = [record EXCEPT ![run] = "running"] /\ Goto("work")
     \/ Goto("fail") /\ UNCHANGED record
  /\ UNCHANGED <<queueVars, scopeVars, run, strmSync, stopped, ledger, writer, stopping, up, crashes>>

\* Scan, downloads, clean-up, and completeSync.
CompleteSync ==
  /\ at = "work"
  /\ \/ /\ run \notin stopped
        /\ record' = [record EXCEPT ![run] = "completed"]
        /\ ledger' = [ledger EXCEPT ![run] = IF task \in Manual THEN "not_required" ELSE "pending"]
        /\ Goto("handover")
     \/ Goto("fail") /\ UNCHANGED <<record, ledger>>
  /\ UNCHANGED <<queueVars, scopeVars, run, strmSync, stopped, writer, stopping, up, crashes>>

\* Mutant: the scopes stay with the foreground, which gives them back.
HandOverWithoutScope ==
  /\ at = "handover"
  /\ Withdraw(run)
  /\ IF task \notin Manual /\ ~stopping
     THEN writer' = [writer EXCEPT ![run] = "submitted"] /\ UNCHANGED ledger
     ELSE /\ UNCHANGED writer
          /\ ledger' = IF task \in Manual THEN ledger
                       ELSE [ledger EXCEPT ![run] = "interrupted"]
  /\ Goto("leave")
  /\ UNCHANGED <<queueVars, run, strmSync, stopped, record, stopping, up, crashes>>

\* startBackground: the goroutine takes the scopes with it.  A service that is
\* stopping refuses it.
HandOver ==
  /\ at = "handover"
  /\ IF task \notin Manual /\ ~stopping
     THEN /\ writer' = [writer EXCEPT ![run] = "submitted"]
          /\ UNCHANGED <<ledger, scopeVars>>
     ELSE /\ Withdraw(run)
          /\ ledger' = IF task \in Manual THEN ledger
                       ELSE [ledger EXCEPT ![run] = "interrupted"]
          /\ UNCHANGED writer
  /\ Goto("leave")
  /\ UNCHANGED <<queueVars, run, strmSync, stopped, record, stopping, up, crashes>>

\* failSync, and the scopes are given back.
FailSync ==
  /\ at = "fail"
  /\ record' = [record EXCEPT ![run] = IF run \in stopped THEN "cancelled" ELSE "failed"]
  /\ ledger' = [ledger EXCEPT ![run] = "not_required"]
  /\ IF wanted[run] = {} THEN UNCHANGED scopeVars ELSE Withdraw(run)
  /\ Goto("leave")
  /\ UNCHANGED <<queueVars, run, strmSync, stopped, writer, stopping, up, crashes>>

\* Mutant: the run is still found by a cancel.
ReturnKeepingField ==
  /\ at = "leave"
  /\ Leave
  /\ run' = None
  /\ stopped' = stopped \ {run}
  /\ UNCHANGED <<scopeVars, strmSync, record, ledger, writer, stopping, up, crashes>>

\* executeStrmSync and executeTask return.
Return ==
  /\ at = "leave"
  /\ Leave
  /\ run' = None
  /\ strmSync' = None
  /\ stopped' = stopped \ {run}
  /\ UNCHANGED <<scopeVars, record, ledger, writer, stopping, up, crashes>>

-----------------------------------------------------------------------------
(* Users.  CancelTask of the current task stops the run it finds. *)

Cancel(t) ==
  /\ \/ CancelWaiting(t) /\ UNCHANGED <<strmSync, stopped>>
     \/ CancelCurrent(t) /\ stopped' = stopped \cup ({strmSync} \ {None}) /\ strmSync' = None
  /\ UNCHANGED <<scopeVars, run, record, ledger, writer, stopping, up, crashes>>

\* The history is cleared; only closed records may go.
DeleteSyncRecord(r) ==
  /\ record[r] \in Terminal
  /\ record' = [record EXCEPT ![r] = "deleted"]
  /\ ledger' = [ledger EXCEPT ![r] = "none"]
  /\ UNCHANGED <<queueVars, procVars, scopeVars, run, strmSync, stopped, writer, stopping, up, crashes>>

-----------------------------------------------------------------------------
(* The background goroutine of run r.  A deleted record does not keep it     *)
(* from its work, and nothing is written about it.                           *)

UpdateLedger(r, to) ==
  ledger' = IF record[r] = "deleted" THEN ledger ELSE [ledger EXCEPT ![r] = to]

LedgerStarts(r) ==
  /\ writer[r] = "submitted"
  /\ ~stopping
  /\ UpdateLedger(r, "running")
  /\ writer' = [writer EXCEPT ![r] = "writing"]
  /\ UNCHANGED <<queueVars, procVars, scopeVars, run, strmSync, stopped, record, stopping, up, crashes>>

\* The scopes are given back at the very end.
LedgerEnds(r) ==
  /\ \/ writer[r] \in {"submitted", "writing"} /\ stopping /\ UpdateLedger(r, "interrupted")
     \/ writer[r] = "writing" /\ ~stopping /\ \E to \in {"completed", "failed"} : UpdateLedger(r, to)
  /\ writer' = [writer EXCEPT ![r] = "saved"]
  /\ UNCHANGED <<queueVars, procVars, scopeVars, run, strmSync, stopped, record, stopping, up, crashes>>

LedgerReleases(r) ==
  /\ writer[r] = "saved"
  /\ Withdraw(r)
  /\ writer' = [writer EXCEPT ![r] = "none"]
  /\ UNCHANGED <<queueVars, procVars, run, strmSync, stopped, record, ledger, stopping, up, crashes>>

-----------------------------------------------------------------------------
(* The process *)

\* App.Stop pauses the queues and stops the service; a run in the foreground
\* goes on until the process is gone.
Shutdown ==
  /\ ~stopping
  /\ crashes < MaxCrashes
  /\ stopping' = TRUE
  /\ status' = "paused"
  /\ UNCHANGED <<taskChan, waiting, current, adds, pauses, procVars, scopeVars,
                 run, strmSync, stopped, record, ledger, writer, up, crashes>>

\* The end of the process, orderly or not: what is in memory is gone.
Crash ==
  /\ crashes < MaxCrashes
  /\ crashes' = crashes + 1
  /\ up' = FALSE
  /\ status' = "running"
  /\ taskChan' = <<>>
  /\ waiting' = {}
  /\ current' = None
  /\ at' = "idle"
  /\ task' = None
  /\ requests' = <<>>
  /\ granted' = {}
  /\ wanted' = [r \in Client |-> {}]
  /\ run' = None
  /\ strmSync' = None
  /\ stopped' = {}
  /\ writer' = [r \in Client |-> "none"]
  /\ stopping' = FALSE
  /\ UNCHANGED <<adds, pauses, record, ledger>>

\* Mutant: only the foreground is looked after.
InterruptNothing == ledger

\* InterruptRunningSyncLedgers
Interrupted == [r \in Client |-> IF ledger[r] \in InFlight THEN "interrupted" ELSE ledger[r]]

\* FailAllRunningSyncTasks comes first; both before the queues are created.
Boot ==
  /\ ~up
  /\ up' = TRUE
  /\ record' = [r \in Client |-> IF record[r] \in Open THEN "failed" ELSE record[r]]
  /\ ledger' = Interrupted
  /\ UNCHANGED <<queueVars, procVars, scopeVars, run, strmSync, stopped, writer, stopping, crashes>>

-----------------------------------------------------------------------------

Init ==
  /\ InitQueue
  /\ InitScope
  /\ run = None
  /\ strmSync = None
  /\ stopped = {}
  /\ record = [r \in Client |-> "none"]
  /\ ledger = [r \in Client |-> "none"]
  /\ writer = [r \in Client |-> "none"]
  /\ stopping = FALSE
  /\ up = TRUE
  /\ crashes = 0

Processor ==
  \/ (Receive \/ Take) /\ UNCHANGED <<scopeVars, runVars>>
  \/ Create \/ Start \/ Granted \/ StopWaiting \/ StartSync \/ CompleteSync
  \/ HandOver \/ FailSync \/ Return

Writer(r) == LedgerStarts(r) \/ LedgerEnds(r) \/ LedgerReleases(r)

User ==
  \/ (Pause \/ (~stopping /\ Resume) \/ \E t \in Task : AddTask(t))
       /\ UNCHANGED <<scopeVars, runVars>>
  \/ \E t \in Task : Cancel(t)
  \/ \E r \in Client : DeleteSyncRecord(r)

Next ==
  \/ up /\ (User \/ Processor \/ (\E r \in Client : Writer(r)) \/ Shutdown \/ Crash)
  \/ Boot

Spec == Init /\ [][Next]_vars

\* Goroutines go on and what a run does ends; the process is started again.
Fairness ==
  /\ WF_vars(up /\ Processor)
  /\ \A r \in Client : WF_vars(up /\ Writer(r))
  /\ WF_vars(Boot)

FairSpec == Spec /\ Fairness

-----------------------------------------------------------------------------
(* Properties *)

TypeOK ==
  /\ QueueTypeOK
  /\ ScopeTypeOK
  /\ run \in Client \cup {None}
  /\ strmSync \in {None, run}
  /\ stopped \subseteq {run}
  /\ record \in [Client -> Statuses]
  /\ ledger \in [Client -> LedgerStatuses]
  /\ \A r \in Client : ledger[r] \in InFlight => record[r] = "completed"

\* Runs that scan, clean up or write the ledger of one directory do so one
\* after the other, although the ledger of one is still written when the queue
\* executes the next.
AtWork(r) ==
  \/ run = r /\ at \in {"held", "work", "handover"}
  \/ writer[r] \in {"submitted", "writing"}

OneAtWork ==
  /\ \A r \in Client : AtWork(r) => r \in granted
  /\ NoSharedScope

\* A ledger that is announced is brought to an end: by its goroutine, by the
\* service that refuses it, or by the next start.
LedgerIsEnded ==
  \A r \in Client : ledger[r] \in InFlight ~> ledger[r] \notin InFlight

\* A task that waits while the queue runs is taken, unless it is cancelled, the
\* queue is paused or the process ends.
WaitingIsTaken ==
  \A t \in Task : t \in waiting /\ status = "running" ~> t \notin waiting \/ status = "paused"

=============================================================================
