---- MODULE MCSyncPosition ----
(* Instances of SyncPosition for TLC. *)
EXTENDS SyncPosition

CONSTANTS sync, edit, scrape, p, q, f

Here == [remote |-> <<"a">>, local |-> <<"x">>]
There == [remote |-> <<"c">>, local |-> <<"z">>]
Below == [remote |-> <<"c", "d">>, local |-> <<"z", "d">>]

\* A sync and an editor of p; a scraper whose directory q is below the place
\* the editor may move p to.
MCPathOf == [x \in Client \cup File |-> IF x = scrape THEN q ELSE p]
MCKind == [c \in Client |->
  IF c = sync THEN "sync" ELSE IF c = edit THEN "edit" ELSE "scrape"]
MCFileOf == [c \in Client |-> {x \in File : MCPathOf[x] = MCPathOf[c]}]
MCPlace == {Here, There, Below}
MCTarget == {There}
MCStartRow == [x \in SyncPath |-> IF x = p THEN Here ELSE Below]
MCStartFile == [x \in File |-> Here]
MCScope == {}
====
