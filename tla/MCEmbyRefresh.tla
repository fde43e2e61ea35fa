---- MODULE MCEmbyRefresh ----
(* Instances of EmbyRefresh for TLC. *)
EXTENDS EmbyRefresh

CONSTANTS i1, i2, lib, p, q

\* Both items belong to the library; i2 comes from a sync path that is not
\* related to it.
MCLibraryOf == [i \in Item |-> lib]
MCLinkedTo == [l \in Library |-> {p}]
MCPathOf == [k \in Key |-> IF k = i2 THEN q ELSE p]
MCRequest == {<<i1, i2>>}
====
