---------------------------- MODULE SyncScope ----------------------------
(* The coordinator of package syncscope: tasks that may touch the same STRM *)
(* files or records run one after the other.  A task asks once for all it   *)
(* may touch, waits, and gives everything back at once.                     *)
(*                                                                          *)
(* Clients are goroutines; none asks while it holds or waits.  A step is    *)
(* what the code does under one hold of coordinator.mu.                     *)
EXTENDS Naturals, Sequences, SequencesExt

CONSTANTS
  Client,   \* goroutines that ask for scopes
  Scope     \* the scopes they ask for

(* A scope.  `path` (SyncPathID), `type`, `account`, `remote` and `local`   *)
(* are sets of at most one element: {} is the code's zero value, unknown.   *)
(* A remote or local path is the sequence of its names, links resolved.     *)
ScopeFields ==
  {"path", "shared", "type", "account", "remote", "local", "whole", "global"}

ASSUME ScopeAssumption ==
  \A s \in Scope : DOMAIN s = ScopeFields

VARIABLES
  requests,   \* coordinator.requests: the clients in the order they asked
  granted,    \* those whose request has granted = TRUE
  wanted      \* request.scopes of each client, {} without a request

scopeVars == <<requests, granted, wanted>>

-----------------------------------------------------------------------------
(* Which scopes exclude each other. *)

PathsOverlap(A, B) == \E a \in A, b \in B : IsPrefix(a, b) \/ IsPrefix(b, a)

\* An unknown type or account may be any.
MayBeSame(A, B) == A = {} \/ B = {} \/ A = B

SourceKnown(s) == s.type # {} \/ s.account # {}

SameRemote(s, t) ==
  /\ SourceKnown(s) /\ SourceKnown(t)
  /\ MayBeSame(s.type, t.type)
  /\ MayBeSame(s.account, t.account)
  /\ s.whole \/ t.whole \/ PathsOverlap(s.remote, t.remote)

SameConfig(s, t) ==
  s.path # {} /\ s.path = t.path /\ ~(s.shared /\ t.shared)

Collide(s, t) ==
  \/ s.global \/ t.global
  \/ SameConfig(s, t)
  \/ PathsOverlap(s.local, t.local)
  \/ SameRemote(s, t)

Overlap(S, T) == \E s \in S, t \in T : Collide(s, t)

\* What cannot be placed excludes everything.
Global == [path |-> {}, shared |-> FALSE, type |-> {}, account |-> {},
           remote |-> {}, local |-> {}, whole |-> FALSE, global |-> TRUE]

Unplaced(s) ==
  \/ s.global
  \/ s.path = {} /\ s.remote = {} /\ s.local = {} /\ ~s.whole
  \/ (s.remote # {} \/ s.whole) /\ ~SourceKnown(s)

Normalize(s) == IF Unplaced(s) THEN Global ELSE s

Normalized(S) ==
  IF S = {} THEN {Global} ELSE {Normalize(s) : s \in S}

-----------------------------------------------------------------------------
(* grant(): in order, each request nothing granted and nothing earlier      *)
(* overlaps.  A request granted in the same pass blocks only later ones,    *)
(* which it blocks by its place anyway, so one look at the old flags is the *)
(* whole loop.                                                              *)

\* Mutant: a holder no longer counts.
BlocksWhileWaiting(reqs, held, want, j, i) ==
  /\ j < i
  /\ reqs[j] \notin held
  /\ Overlap(want[reqs[i]], want[reqs[j]])

\* Mutant: only holders count.
BlocksWhileHolding(reqs, held, want, j, i) ==
  /\ j # i
  /\ reqs[j] \in held
  /\ Overlap(want[reqs[i]], want[reqs[j]])

Blocks(reqs, held, want, j, i) ==
  /\ j # i
  /\ reqs[j] \in held \/ j < i
  /\ Overlap(want[reqs[i]], want[reqs[j]])

Grantable(reqs, held, want) ==
  {reqs[i] : i \in {k \in DOMAIN reqs :
                      \A j \in DOMAIN reqs : ~Blocks(reqs, held, want, j, k)}}

Grant(reqs, held, want) == held \cup Grantable(reqs, held, want)

\* acquireObserved up to the wait: the request goes to the end.
Ask(c, S) ==
  /\ wanted[c] = {}
  /\ requests' = Append(requests, c)
  /\ wanted' = [wanted EXCEPT ![c] = Normalized(S)]
  /\ granted' = Grant(requests', granted, wanted')

\* Mutant: the next ones are not granted.
WithdrawQuietly(c) ==
  /\ \E i \in DOMAIN requests :
       /\ requests[i] = c
       /\ requests' = RemoveAt(requests, i)
  /\ wanted' = [wanted EXCEPT ![c] = {}]
  /\ granted' = granted \ {c}

\* remove(): the end of the task, or of a wait whose context has ended.  Both
\* may come at once; a request that was granted meanwhile is given back, too.
Withdraw(c) ==
  /\ \E i \in DOMAIN requests :
       /\ requests[i] = c
       /\ requests' = RemoveAt(requests, i)
  /\ wanted' = [wanted EXCEPT ![c] = {}]
  /\ granted' = Grant(requests', granted \ {c}, wanted)

InitScope ==
  /\ requests = <<>>
  /\ granted = {}
  /\ wanted = [c \in Client |-> {}]

NextScope ==
  \E c \in Client : (\E S \in SUBSET Scope : Ask(c, S)) \/ Withdraw(c)

ScopeSpec == InitScope /\ [][NextScope]_scopeVars

-----------------------------------------------------------------------------
(* Properties *)

ScopeTypeOK ==
  /\ requests \in Seq(Client)
  /\ granted \subseteq Client
  /\ DOMAIN wanted = Client

\* Two clients that hold scopes at the same time hold scopes that do not
\* overlap, whichever way the two are compared.
NoSharedScope ==
  \A c, d \in granted : c # d => ~Overlap(wanted[c], wanted[d])

\* Nobody overtakes: a request is granted only when no earlier one that
\* overlaps it is still in the list, holding or waiting.
Earlier(d, c) ==
  \E i, j \in DOMAIN requests' : i < j /\ requests'[i] = d /\ requests'[j] = c

NoOvertaking ==
  [][\A c, d \in Client :
       c \in granted' \ granted /\ Earlier(d, c) => ~Overlap(wanted'[c], wanted'[d])]_scopeVars

=============================================================================
