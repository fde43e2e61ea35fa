-------------------------- MODULE SyncScopeProofs --------------------------
(***************************************************************************)
(* Proofs about the coordinator, for every set of goroutines and scopes.   *)
(* The lemmas speak of one step, so that the modules that compose the      *)
(* coordinator with its clients can cite them.                             *)
(***************************************************************************)
EXTENDS SyncScope, SequenceTheorems, TLAPS

\* Nobody has two requests.
OneRequestEach(reqs) ==
  \A i, j \in DOMAIN reqs : reqs[i] = reqs[j] => i = j

Requested(reqs) == {reqs[i] : i \in DOMAIN reqs}

Apart(held, want) ==
  \A c, d \in held : c # d => ~Overlap(want[c], want[d])

\* Clients are in the list exactly once while they want something, and only
\* those in the list hold.
ScopeInv ==
  /\ requests \in Seq(Client)
  /\ OneRequestEach(requests)
  /\ DOMAIN wanted = Client
  /\ \A c \in Client : wanted[c] # {} <=> c \in Requested(requests)
  /\ granted \subseteq Requested(requests)
  /\ Apart(granted, wanted)

-----------------------------------------------------------------------------
(* Scopes *)

LEMMA PathsOverlapSymmetric ==
  ASSUME NEW A, NEW B
  PROVE  PathsOverlap(A, B) <=> PathsOverlap(B, A)
BY DEF PathsOverlap

LEMMA CollideSymmetric ==
  ASSUME NEW s, NEW t
  PROVE  Collide(s, t) <=> Collide(t, s)
<1>1. PathsOverlap(s.local, t.local) <=> PathsOverlap(t.local, s.local)
  BY PathsOverlapSymmetric
<1>2. PathsOverlap(s.remote, t.remote) <=> PathsOverlap(t.remote, s.remote)
  BY PathsOverlapSymmetric
<1>3. SameRemote(s, t) <=> SameRemote(t, s)
  BY <1>2 DEF SameRemote, MayBeSame
<1>4. SameConfig(s, t) <=> SameConfig(t, s)
  BY DEF SameConfig
<1> QED
  BY <1>1, <1>3, <1>4 DEF Collide

LEMMA OverlapSymmetric ==
  ASSUME NEW S, NEW T
  PROVE  Overlap(S, T) <=> Overlap(T, S)
BY CollideSymmetric DEF Overlap

LEMMA NormalizedIsNotEmpty ==
  ASSUME NEW S
  PROVE  Normalized(S) # {}
BY DEF Normalized

-----------------------------------------------------------------------------
(* Granting *)

\* Who is granted in one pass overlaps neither a holder nor another one that
\* is granted in the same pass.
LEMMA GrantKeepsApart ==
  ASSUME NEW reqs, NEW held, NEW want,
         reqs \in Seq(Client),
         OneRequestEach(reqs),
         held \subseteq Requested(reqs),
         Apart(held, want)
  PROVE  /\ Grant(reqs, held, want) \subseteq Requested(reqs)
         /\ Apart(Grant(reqs, held, want), want)
<1>1. DOMAIN reqs \subseteq Nat
  BY LenProperties
<1>2. ASSUME NEW c \in Grantable(reqs, held, want),
             NEW d \in Grant(reqs, held, want), c # d
      PROVE  ~Overlap(want[c], want[d])
  <2>1. PICK k \in DOMAIN reqs :
          /\ reqs[k] = c
          /\ \A j \in DOMAIN reqs : ~Blocks(reqs, held, want, j, k)
    BY <1>2 DEF Grantable
  <2>2. CASE d \in held
    <3>1. PICK j \in DOMAIN reqs : reqs[j] = d
      BY <2>2 DEF Requested
    <3> QED
      BY <1>2, <2>1, <2>2, <3>1 DEF Blocks
  <2>3. CASE d \in Grantable(reqs, held, want)
    <3>1. PICK j \in DOMAIN reqs :
            /\ reqs[j] = d
            /\ \A i \in DOMAIN reqs : ~Blocks(reqs, held, want, i, j)
      BY <2>3 DEF Grantable
    <3>2. j # k
      BY <1>2, <2>1, <3>1
    <3>3. j < k \/ k < j
      BY <1>1, <2>1, <3>1, <3>2
    <3>4. CASE j < k
      BY <2>1, <3>1, <3>2, <3>4 DEF Blocks
    <3>5. CASE k < j
      <4>1. ~Overlap(want[d], want[c])
        BY <2>1, <3>1, <3>2, <3>5 DEF Blocks
      <4> QED
        BY <4>1, OverlapSymmetric
    <3> QED
      BY <3>3, <3>4, <3>5
  <2> QED
    BY <1>2, <2>2, <2>3 DEF Grant
<1>3. ASSUME NEW c \in Grant(reqs, held, want),
             NEW d \in Grant(reqs, held, want), c # d
      PROVE  ~Overlap(want[c], want[d])
  <2>1. CASE c \in Grantable(reqs, held, want)
    BY <1>2, <1>3, <2>1
  <2>2. CASE d \in Grantable(reqs, held, want)
    <3>1. ~Overlap(want[d], want[c])
      BY <1>2, <1>3, <2>2
    <3> QED
      BY <3>1, OverlapSymmetric
  <2>3. CASE c \in held /\ d \in held
    BY <1>3, <2>3 DEF Apart
  <2> QED
    BY <1>3, <2>1, <2>2, <2>3 DEF Grant
<1>4. Grantable(reqs, held, want) \subseteq Requested(reqs)
  BY DEF Grantable, Requested
<1> QED
  BY <1>3, <1>4 DEF Grant, Apart

\* A new request goes to the end of the list.
LEMMA AppendRequest ==
  ASSUME NEW reqs \in Seq(Client), NEW c \in Client,
         OneRequestEach(reqs),
         c \notin Requested(reqs)
  PROVE  /\ Append(reqs, c) \in Seq(Client)
         /\ OneRequestEach(Append(reqs, c))
         /\ Requested(Append(reqs, c)) = Requested(reqs) \cup {c}
<1> DEFINE n == Len(reqs)
<1>1. n \in Nat /\ DOMAIN reqs = 1 .. n
  BY LenProperties
<1>2. /\ Append(reqs, c) \in Seq(Client)
      /\ DOMAIN Append(reqs, c) = 1 .. n + 1
      /\ \A i \in 1 .. n : Append(reqs, c)[i] = reqs[i]
      /\ Append(reqs, c)[n + 1] = c
  BY <1>1
<1>3. 1 .. n + 1 = 1 .. n \cup {n + 1}
  BY <1>1
<1>4. Requested(Append(reqs, c)) = Requested(reqs) \cup {c}
  BY <1>1, <1>2, <1>3 DEF Requested
<1>5. OneRequestEach(Append(reqs, c))
  BY <1>1, <1>2, <1>3 DEF OneRequestEach, Requested
<1> QED
  BY <1>2, <1>4, <1>5

\* Where the entries are after the i-th one has gone.
LEMMA RemoveAtProperties ==
  ASSUME NEW reqs \in Seq(Client), NEW i \in DOMAIN reqs
  PROVE  /\ RemoveAt(reqs, i) \in Seq(Client)
         /\ DOMAIN RemoveAt(reqs, i) = 1 .. Len(reqs) - 1
         /\ \A k \in 1 .. Len(reqs) - 1 :
              RemoveAt(reqs, i)[k] = IF k < i THEN reqs[k] ELSE reqs[k + 1]
<1> DEFINE n == Len(reqs)
<1> DEFINE left == SubSeq(reqs, 1, i - 1)
<1> DEFINE right == SubSeq(reqs, i + 1, n)
<1>1. n \in Nat /\ DOMAIN reqs = 1 .. n /\ i \in 1 .. n /\ \A k \in 1 .. n : reqs[k] \in Client
  BY LenProperties
<1>2. /\ left \in Seq(Client)
      /\ Len(left) = i - 1
      /\ \A k \in 1 .. i - 1 : left[k] = reqs[k]
  <2>1. \A k \in 1 .. i - 1 : reqs[k] \in Client
    BY <1>1
  <2>2. /\ left \in Seq(Client)
        /\ Len(left) = IF 1 <= i - 1 THEN i - 1 - 1 + 1 ELSE 0
        /\ \A k \in 1 .. i - 1 - 1 + 1 : left[k] = reqs[1 + k - 1]
    BY <1>1, <2>1, SubSeqProperties
  <2> QED
    BY <1>1, <2>2
<1>3. /\ right \in Seq(Client)
      /\ Len(right) = n - i
      /\ \A k \in 1 .. n - i : right[k] = reqs[i + k]
  <2>1. \A k \in i + 1 .. n : reqs[k] \in Client
    BY <1>1
  <2>2. /\ right \in Seq(Client)
        /\ Len(right) = IF i + 1 <= n THEN n - (i + 1) + 1 ELSE 0
        /\ \A k \in 1 .. n - (i + 1) + 1 : right[k] = reqs[i + 1 + k - 1]
    BY <1>1, <2>1, SubSeqProperties
  <2>3. n - (i + 1) + 1 = n - i /\ Len(right) = n - i
    BY <1>1, <2>2
  <2>4. ASSUME NEW k \in 1 .. n - i
        PROVE  right[k] = reqs[i + k]
    <3>1. i + 1 + k - 1 = i + k /\ k \in 1 .. n - (i + 1) + 1
      BY <1>1, <2>3
    <3>2. right[k] = reqs[i + 1 + k - 1]
      BY <2>2, <3>1
    <3> HIDE DEF right
    <3> QED
      BY <3>1, <3>2
  <2> QED
    BY <2>2, <2>3, <2>4
<1>4. RemoveAt(reqs, i) = left \o right
  BY DEF RemoveAt
<1> HIDE DEF left, right
<1>5. /\ left \o right \in Seq(Client)
      /\ Len(left \o right) = Len(left) + Len(right)
      /\ \A k \in 1 .. Len(left) + Len(right) :
           (left \o right)[k] = IF k <= Len(left) THEN left[k] ELSE right[k - Len(left)]
  BY <1>2, <1>3, ConcatProperties
<1>6. DOMAIN (left \o right) = 1 .. n - 1
  <2>1. DOMAIN (left \o right) = 1 .. Len(left \o right)
    BY <1>5, LenProperties
  <2> QED
    BY <1>1, <1>2, <1>3, <1>5, <2>1
<1>7. ASSUME NEW k \in 1 .. n - 1
      PROVE  (left \o right)[k] = IF k < i THEN reqs[k] ELSE reqs[k + 1]
  <2>1. (left \o right)[k] = IF k <= i - 1 THEN left[k] ELSE right[k - (i - 1)]
    BY <1>1, <1>2, <1>3, <1>5, SMTT(40)
  <2>2. CASE k < i
    BY <1>1, <1>2, <2>1, <2>2
  <2>3. CASE ~(k < i)
    <3>1. k - (i - 1) \in 1 .. n - i
      BY <1>1, <2>3
    <3>2. right[k - (i - 1)] = reqs[i + (k - (i - 1))]
      BY <1>3, <3>1
    <3>3. i + (k - (i - 1)) = k + 1
      BY <1>1
    <3> QED
      BY <1>1, <2>1, <2>3, <3>2, <3>3
  <2> QED
    BY <2>2, <2>3
<1> QED
  BY <1>4, <1>5, <1>6, <1>7

LEMMA RemoveRequest ==
  ASSUME NEW reqs \in Seq(Client), NEW i \in DOMAIN reqs,
         OneRequestEach(reqs)
  PROVE  /\ RemoveAt(reqs, i) \in Seq(Client)
         /\ OneRequestEach(RemoveAt(reqs, i))
         /\ Requested(RemoveAt(reqs, i)) = Requested(reqs) \ {reqs[i]}
<1> DEFINE n == Len(reqs)
<1> DEFINE rest == RemoveAt(reqs, i)
<1>1. n \in Nat /\ DOMAIN reqs = 1 .. n /\ i \in 1 .. n
  BY LenProperties
<1>2. /\ rest \in Seq(Client)
      /\ DOMAIN rest = 1 .. n - 1
      /\ \A k \in 1 .. n - 1 : rest[k] = IF k < i THEN reqs[k] ELSE reqs[k + 1]
  BY RemoveAtProperties
<1> HIDE DEF rest
<1> DEFINE from(k) == IF k < i THEN k ELSE k + 1
<1>3. OneRequestEach(rest)
  <2>1. \A k \in 1 .. n - 1 : from(k) \in 1 .. n
    BY <1>1
  <2>2. \A k \in 1 .. n - 1 : rest[k] = reqs[from(k)]
    BY <1>2
  <2>3. \A j, k \in 1 .. n - 1 : from(j) = from(k) => j = k
    BY <1>1
  <2>4. \A x, y \in 1 .. n : reqs[x] = reqs[y] => x = y
    BY <1>1 DEF OneRequestEach
  <2> HIDE DEF from, n
  <2>5. \A j, k \in 1 .. n - 1 : rest[j] = rest[k] => j = k
    BY <2>1, <2>2, <2>3, <2>4
  <2> QED
    BY <1>2, <2>5 DEF OneRequestEach
<1>4. Requested(rest) \subseteq Requested(reqs) \ {reqs[i]}
  <2> SUFFICES ASSUME NEW k \in 1 .. n - 1
               PROVE  rest[k] \in Requested(reqs) /\ rest[k] # reqs[i]
    BY <1>2 DEF Requested
  <2>1. \A x, y \in 1 .. n : reqs[x] = reqs[y] => x = y
    BY <1>1 DEF OneRequestEach
  <2>2. CASE k < i
    BY <1>1, <1>2, <2>1, <2>2 DEF Requested
  <2>3. CASE ~(k < i)
    BY <1>1, <1>2, <2>1, <2>3 DEF Requested
  <2> QED
    BY <2>2, <2>3
<1>5. Requested(reqs) \ {reqs[i]} \subseteq Requested(rest)
  <2> SUFFICES ASSUME NEW k \in 1 .. n, k # i
               PROVE  reqs[k] \in Requested(rest)
    BY <1>1 DEF Requested
  <2>1. CASE k < i
    <3>1. k \in 1 .. n - 1 /\ rest[k] = reqs[k]
      BY <1>1, <1>2, <2>1
    <3> QED
      BY <1>2, <3>1 DEF Requested
  <2>2. CASE ~(k < i)
    <3>1. k - 1 \in 1 .. n - 1 /\ ~(k - 1 < i) /\ (k - 1) + 1 = k
      BY <1>1, <2>2
    <3>2. rest[k - 1] = reqs[k]
      BY <1>2, <3>1
    <3> QED
      BY <1>2, <3>1, <3>2 DEF Requested
  <2> QED
    BY <2>1, <2>2
<1> QED
  BY <1>2, <1>3, <1>4, <1>5 DEF rest

-----------------------------------------------------------------------------
(* Steps *)

\* What a client does to the coordinator, whatever it asks for.
ScopeStep == \E c \in Client : (\E S : Ask(c, S)) \/ Withdraw(c)

LEMMA ScopeInit ==
  ASSUME InitScope
  PROVE  ScopeInv
BY DEF InitScope, ScopeInv, OneRequestEach, Requested, Apart

LEMMA AskStep ==
  ASSUME ScopeInv, NEW c \in Client, NEW S, Ask(c, S)
  PROVE  ScopeInv'
<1>1. c \notin Requested(requests) /\ c \notin granted
  BY DEF ScopeInv, Ask
<1>2. /\ requests' \in Seq(Client)
      /\ OneRequestEach(requests')
      /\ Requested(requests') = Requested(requests) \cup {c}
  BY <1>1, AppendRequest DEF ScopeInv, Ask
<1>3. /\ DOMAIN wanted' = Client
      /\ wanted'[c] # {}
      /\ \A d \in Client \ {c} : wanted'[d] = wanted[d]
  BY NormalizedIsNotEmpty DEF ScopeInv, Ask
<1>4. granted \subseteq Requested(requests') /\ granted \subseteq Client
  <2>1. Requested(requests) \subseteq Client
    BY LenProperties DEF ScopeInv, Requested
  <2> QED
    BY <1>2, <2>1 DEF ScopeInv
<1>5. Apart(granted, wanted')
  BY <1>1, <1>3, <1>4 DEF ScopeInv, Apart
<1>6. granted' = Grant(requests', granted, wanted')
  BY DEF Ask
<1>7. granted' \subseteq Requested(requests') /\ Apart(granted', wanted')
  BY <1>2, <1>4, <1>5, <1>6, GrantKeepsApart
<1>8. \A d \in Client : wanted'[d] # {} <=> d \in Requested(requests')
  BY <1>2, <1>3 DEF ScopeInv
<1> QED
  BY <1>2, <1>3, <1>7, <1>8 DEF ScopeInv, OneRequestEach, Requested, Apart

LEMMA WithdrawStep ==
  ASSUME ScopeInv, NEW c \in Client, Withdraw(c)
  PROVE  ScopeInv'
<1>1. PICK i \in DOMAIN requests : requests[i] = c /\ requests' = RemoveAt(requests, i)
  BY DEF Withdraw
<1>2. /\ requests' \in Seq(Client)
      /\ OneRequestEach(requests')
      /\ Requested(requests') = Requested(requests) \ {c}
  BY <1>1, RemoveRequest DEF ScopeInv
<1>3. /\ DOMAIN wanted' = Client
      /\ wanted'[c] = {}
      /\ \A d \in Client \ {c} : wanted'[d] = wanted[d]
  BY DEF ScopeInv, Withdraw
<1>4. granted' = Grant(requests', granted \ {c}, wanted)
  BY DEF Withdraw
<1>5. granted \ {c} \subseteq Requested(requests')
  BY <1>2 DEF ScopeInv
<1>6. Apart(granted \ {c}, wanted)
  BY DEF ScopeInv, Apart
<1>7. granted' \subseteq Requested(requests') /\ Apart(granted', wanted)
  BY <1>2, <1>4, <1>5, <1>6, GrantKeepsApart
<1>8. Requested(requests') \subseteq Client \ {c}
  BY <1>2, LenProperties DEF ScopeInv, Requested
<1>9. Apart(granted', wanted')
  BY <1>3, <1>7, <1>8 DEF Apart
<1>10. \A d \in Client : wanted'[d] # {} <=> d \in Requested(requests')
  BY <1>2, <1>3 DEF ScopeInv
<1> QED
  BY <1>2, <1>3, <1>7, <1>9, <1>10 DEF ScopeInv, OneRequestEach, Requested, Apart

LEMMA ScopeStutter ==
  ASSUME ScopeInv, UNCHANGED scopeVars
  PROVE  ScopeInv'
BY DEF ScopeInv, scopeVars, OneRequestEach, Requested, Apart

LEMMA ScopeInvImplies ==
  ASSUME ScopeInv
  PROVE  ScopeTypeOK /\ NoSharedScope
<1>1. Requested(requests) \subseteq Client
  BY LenProperties DEF ScopeInv, Requested
<1> QED
  BY <1>1 DEF ScopeInv, ScopeTypeOK, NoSharedScope, Apart

LEMMA WithdrawnIsGone ==
  ASSUME ScopeInv, NEW c \in Client, Withdraw(c)
  PROVE  Requested(requests') \subseteq Client \ {c}
<1>1. PICK i \in DOMAIN requests : requests[i] = c /\ requests' = RemoveAt(requests, i)
  BY DEF Withdraw
<1>2. Requested(requests') = Requested(requests) \ {c}
  BY <1>1, RemoveRequest DEF ScopeInv
<1>3. Requested(requests) \subseteq Client
  BY LenProperties DEF ScopeInv, Requested
<1> QED
  BY <1>2, <1>3

\* Who is granted depends on the scopes of those in the list only.
LEMMA GrantReadsRequested ==
  ASSUME NEW reqs, NEW held, NEW want, NEW want2,
         \A c \in Requested(reqs) : want[c] = want2[c]
  PROVE  Grant(reqs, held, want) = Grant(reqs, held, want2)
<1>1. \A i \in DOMAIN reqs : want[reqs[i]] = want2[reqs[i]]
  BY DEF Requested
<1>2. \A i, j \in DOMAIN reqs :
        Blocks(reqs, held, want, j, i) <=> Blocks(reqs, held, want2, j, i)
  BY <1>1 DEF Blocks
<1>3. Grantable(reqs, held, want) = Grantable(reqs, held, want2)
  BY <1>2 DEF Grantable
<1> QED
  BY <1>3 DEF Grant

\* A step that grants a request grants none that overlaps an earlier one.
LEMMA GrantsInOrder ==
  ASSUME ScopeInv', NEW held, granted' = Grant(requests', held, wanted'),
         NEW c \in granted' \ held, NEW d, Earlier(d, c)
  PROVE  ~Overlap(wanted'[c], wanted'[d])
<1>1. PICK i \in DOMAIN requests', j \in DOMAIN requests' :
        i < j /\ requests'[i] = d /\ requests'[j] = c
  BY DEF Earlier
<1>2. PICK k \in DOMAIN requests' :
        /\ requests'[k] = c
        /\ \A l \in DOMAIN requests' : ~Blocks(requests', held, wanted', l, k)
  BY DEF Grant, Grantable
<1>3. k = j
  BY <1>1, <1>2 DEF ScopeInv, OneRequestEach
<1>4. i # k
  BY <1>1, <1>3, LenProperties DEF ScopeInv
<1> QED
  BY <1>1, <1>2, <1>3, <1>4 DEF Blocks

LEMMA ScopeStepKeeps ==
  ASSUME ScopeInv, [ScopeStep]_scopeVars
  PROVE  ScopeInv'
BY AskStep, WithdrawStep, ScopeStutter DEF ScopeStep

InOrder ==
  \A c, d \in Client :
    c \in granted' \ granted /\ Earlier(d, c) => ~Overlap(wanted'[c], wanted'[d])

LEMMA ScopeStepInOrder ==
  ASSUME ScopeInv, ScopeInv', [ScopeStep]_scopeVars
  PROVE  [InOrder]_scopeVars
<1> SUFFICES ASSUME NEW c \in granted' \ granted, NEW d \in Client, Earlier(d, c)
             PROVE  ~Overlap(wanted'[c], wanted'[d])
  BY DEF InOrder
<1>1. ScopeStep
  BY DEF scopeVars
<1>2. CASE \E e \in Client : \E S : Ask(e, S)
  <2>1. granted' = Grant(requests', granted, wanted')
    BY <1>2 DEF Ask
  <2> QED
    BY <2>1, GrantsInOrder
<1>3. CASE \E e \in Client : Withdraw(e)
  <2>1. PICK e \in Client : Withdraw(e)
    BY <1>3
  <2>2. granted' = Grant(requests', granted \ {e}, wanted)
    BY <2>1 DEF Withdraw
  <2>3. \A x \in Client \ {e} : wanted'[x] = wanted[x]
    BY <2>1 DEF ScopeInv, Withdraw
  <2>4. Requested(requests') \subseteq Client \ {e}
    BY <2>1, WithdrawnIsGone
  <2>5. Grant(requests', granted \ {e}, wanted) = Grant(requests', granted \ {e}, wanted')
    BY <2>3, <2>4, GrantReadsRequested
  <2> QED
    BY <2>2, <2>5, GrantsInOrder
<1> QED
  BY <1>1, <1>2, <1>3 DEF ScopeStep

LEMMA NextScopeSteps ==
  ASSUME [NextScope]_scopeVars
  PROVE  [ScopeStep]_scopeVars
BY DEF NextScope, ScopeStep

LEMMA ScopeInvariant == ScopeSpec => []ScopeInv
<1>1. InitScope => ScopeInv
  BY ScopeInit
<1>2. ScopeInv /\ [NextScope]_scopeVars => ScopeInv'
  BY NextScopeSteps, ScopeStepKeeps
<1> QED
  BY <1>1, <1>2, PTL DEF ScopeSpec

-----------------------------------------------------------------------------

\* Two clients never hold overlapping scopes, whatever clients there are and
\* whatever they ask for (syncscope.coordinator).
THEOREM Exclusion == ScopeSpec => [](ScopeTypeOK /\ NoSharedScope)
BY ScopeInvariant, ScopeInvImplies, PTL

\* Requests that overlap are granted in the order they were made.
THEOREM Order == ScopeSpec => NoOvertaking
<1>1. ScopeInv /\ ScopeInv' /\ [NextScope]_scopeVars => [InOrder]_scopeVars
  BY NextScopeSteps, ScopeStepInOrder
<1> QED
  BY <1>1, ScopeInvariant, PTL DEF ScopeSpec, NoOvertaking, InOrder

=============================================================================
