---- MODULE MCSyncRun ----
(* Instances of SyncRun for TLC. *)
EXTENDS SyncRun

CONSTANTS t1, t2, m

Bare == [path |-> {}, shared |-> FALSE, type |-> {}, account |-> {},
         remote |-> {}, local |-> {}, whole |-> FALSE, global |-> FALSE]

\* Two sync paths side by side, and a manual task whose output is in the first.
MCScopeOf == [t \in Task |->
  IF t = m THEN {[Bare EXCEPT !.local = {<<"x", "d">>}]}
  ELSE IF t = t1 THEN {[Bare EXCEPT !.path = {1}, !.local = {<<"x">>}]}
  ELSE {[Bare EXCEPT !.path = {2}, !.local = {<<"y">>}]}]

MCScope == UNION {MCScopeOf[t] : t \in Task}
====
