---- MODULE MCDownloadQueue ----
(* Instances of DownloadQueue for TLC. *)
EXTENDS DownloadQueue, TLC

CONSTANTS w1, w2, w3, c1, c2, targetA, targetB

OneTarget == [t \in Task |-> targetA]
OneTargetEach == [t \in Task |-> IF t = 1 THEN targetA ELSE targetB]

\* Slots and callers are interchangeable; safety runs only.
Symmetry == Permutations(Worker) \cup Permutations(Caller)
====
