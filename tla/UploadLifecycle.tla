--------------------------- MODULE UploadLifecycle ---------------------------
(***************************************************************************)
(* What the upload queue promises about each upload task, with no word of  *)
(* schedulers, buffers, goroutines or SQL: when a file may be transferred, *)
(* when it may be transferred again, and what is final.                    *)
(***************************************************************************)
EXTENDS Integers

CONSTANTS
  Task,       \* upload tasks
  MaxRetry    \* retries of a failed task

VARIABLES
  phase,      \* phase[t]: where task t stands
  attempts    \* attempts[t]: retries used up

vars == <<phase, attempts>>

Phase == {"none",          \* not created yet
          "queued",        \* waiting for its transfer
          "transferring",  \* one goroutine is moving the file
          "lost",          \* the goroutine is gone and left no result
          "uploaded",      \* the file is at the remote side, post-processing is due
          "done", "failed", "cancelled",
          "gone"}          \* deleted

Init ==
  /\ phase = [t \in Task |-> "none"]
  /\ attempts = [t \in Task |-> 0]

\* Every task moves as the relation Move allows, or stays.
Moves(Move(_, _)) ==
  /\ phase' \in [Task -> Phase]
  /\ \A t \in Task : phase'[t] = phase[t] \/ Move(phase[t], phase'[t])
  /\ UNCHANGED attempts

Create(t) ==
  /\ phase[t] = "none"
  /\ \E p \in {"queued", "done"} : phase' = [phase EXCEPT ![t] = p]
  /\ UNCHANGED attempts

\* A new task takes the place of a failed one.
Replace(old, t) ==
  /\ phase[t] = "none"
  /\ phase[old] = "failed"
  /\ phase' = [phase EXCEPT ![t] = "queued", ![old] = "cancelled"]
  /\ UNCHANGED attempts

\* A transfer starts, and only a queued task has one.
Begin(t) ==
  /\ phase[t] = "queued"
  /\ phase' = [phase EXCEPT ![t] = "transferring"]
  /\ UNCHANGED attempts

Settle(t) ==
  /\ phase[t] = "transferring"
  /\ \E p \in {"uploaded", "failed", "cancelled"} :
       phase' = [phase EXCEPT ![t] = p]
  /\ UNCHANGED attempts

Finish(t) ==
  /\ phase[t] = "uploaded"
  /\ phase' = [phase EXCEPT ![t] = "done"]
  /\ UNCHANGED attempts

\* The process dies, or cannot write a result down.  A transfer then leaves
\* its row as it was; a finished transfer whose row is deleted is forgotten.
Interrupt ==
  Moves(LAMBDA p, q : \/ p = "transferring" /\ q \in {"lost", "queued", "gone"}
                      \/ p = "uploaded" /\ q = "gone")

Recover ==
  Moves(LAMBDA p, q : p = "lost" /\ q = "queued")

\* Deletion: never of a task whose transfer is running.
Forget ==
  Moves(LAMBDA p, q : p \notin {"none", "transferring"} /\ q = "gone")

Retry ==
  \E S \in SUBSET Task :
    /\ \A t \in S : phase[t] = "failed" /\ attempts[t] < MaxRetry
    /\ phase' = [t \in Task |-> IF t \in S THEN "queued" ELSE phase[t]]
    /\ attempts' = [t \in Task |-> IF t \in S THEN attempts[t] + 1 ELSE attempts[t]]

Next ==
  \/ \E t \in Task : Create(t) \/ Begin(t) \/ Settle(t) \/ Finish(t)
  \/ \E old, t \in Task : Replace(old, t)
  \/ Interrupt
  \/ Recover
  \/ Forget
  \/ Retry

Spec == Init /\ [][Next]_vars
=============================================================================
