---- MODULE MCUploadQueue ----
(* Instances of UploadQueue for TLC. *)
EXTENDS UploadQueue, TLC

CONSTANTS w1, w2, targetA, targetB

\* Tasks 1 and 2 want the same remote path.
MCTargetOf == [t \in Task |-> IF t <= 2 THEN targetA ELSE targetB]

\* Goroutine slots are interchangeable; safety runs only.
WorkerSymmetry == Permutations(Worker)
====
