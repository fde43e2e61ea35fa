-------------------------- MODULE MCStrmGeneration --------------------------
(***************************************************************************)
(* Small instances of StrmGeneration: two files, one scan, one batch of    *)
(* files and one single task.                                              *)
(***************************************************************************)
EXTENDS StrmGeneration

CONSTANTS f1, f2, scan, bundle, single, q1, q2

MCFileOf == [s \in Single |-> f1]

\* The scan has a sync path to itself.
MCPathOf == [t \in Root |-> IF t \in Scan THEN q1 ELSE q2]

\* The directory does not change.
MCSameListing == [s \in Scan |-> {File}]

=============================================================================
