------------------------- MODULE EmbyRefreshProofs -------------------------
(***************************************************************************)
(* Proofs about EmbyRefresh, for every set of items and libraries, every   *)
(* grouping of items by library, and every value of the bounds.            *)
(*                                                                         *)
(* One invariant carries all of it: a change that Emby does not know has a *)
(* row that stands for it, with its sync path and with at least its        *)
(* waiting time.  The lemmas say what a step does to one row, and what     *)
(* that means for the row that stands for a change.                        *)
(***************************************************************************)
EXTENDS EmbyRefresh, WellFoundedInduction, TLAPS

-----------------------------------------------------------------------------
(* Least and greatest elements.                                            *)

LEMMA LeastElement ==
  ASSUME NEW S, S \subseteq Nat, S # {}
  PROVE  Min(S) \in S /\ \A y \in S : Min(S) <= y
<1>1. \E x \in S : \A y \in S : ~(<<y, x>> \in OpToRel(<, Nat))
  BY NatLessThanWellFounded, WFMin, Zenon
<1>2. PICK x \in S : \A y \in S : ~(y < x)
  BY <1>1 DEF OpToRel
<1>3. \A y \in S : x <= y
  BY <1>2
<1> QED
  BY <1>3 DEF Min

LEMMA GreatestElement ==
  ASSUME NEW n \in Nat, NEW S, S \subseteq 0 .. n, S # {}
  PROVE  Max(S) \in S /\ \A y \in S : Max(S) >= y
<1> DEFINE T == {n - y : y \in S}
<1>1. T \subseteq Nat /\ T # {}
  <2>1. \A y \in S : n - y \in Nat
    OBVIOUS
  <2> QED
    BY <2>1
<1>2. Min(T) \in T /\ \A y \in T : Min(T) <= y
  BY <1>1, LeastElement
<1>3. PICK x \in S : Min(T) = n - x
  BY <1>2
<1>4. \A y \in S : x >= y
  BY <1>2, <1>3
<1> QED
  BY <1>4 DEF Max

-----------------------------------------------------------------------------
(* Tables of rows.                                                         *)

RowType == [status : {Unborn, Pending, Refreshing, Over},
            refreshIn : 0 .. Debounce, deadlineIn : 0 .. MaxWait,
            checked : BOOLEAN, seen : BOOLEAN, paths : SUBSET SyncPath]
Tables == [Key -> RowType]

LEMMA NewRows ==
  /\ NoRow \in RowType
  /\ \A x \in 0 .. Debounce, y \in 0 .. MaxWait, p \in SUBSET SyncPath :
       PendingRow(x, y, p) \in RowType
  /\ \A r \in RowType :
       Ended(r) \in RowType /\ Ended(r).status = Over /\ Ended(r).paths = r.paths
<1>1. 0 \in 0 .. Debounce /\ 0 \in 0 .. MaxWait
  BY TimeAssumption
<1>2. NoRow \in RowType
  BY <1>1 DEF RowType, NoRow
<1>3. ASSUME NEW x \in 0 .. Debounce, NEW y \in 0 .. MaxWait, NEW p \in SUBSET SyncPath
      PROVE  PendingRow(x, y, p) \in RowType
  BY DEF RowType, PendingRow
<1>4. ASSUME NEW r \in RowType
      PROVE  Ended(r) \in RowType /\ Ended(r).status = Over /\ Ended(r).paths = r.paths
  BY <1>2 DEF RowType, Ended
<1> QED
  BY <1>2, <1>3, <1>4

LEMMA Statuses ==
  /\ Unborn # Pending /\ Unborn # Refreshing /\ Unborn # Over
  /\ Pending # Refreshing /\ Pending # Over /\ Refreshing # Over
BY DEF Unborn, Pending, Refreshing, Over

\* Row new waits for all that row old waited for, and no longer.
TakesOver(new, old) ==
  /\ new.status = Pending
  /\ old.paths \subseteq new.paths
  /\ old.refreshIn <= new.refreshIn
  /\ new.deadlineIn <= old.deadlineIn

\* A library's row takes over from the items it absorbs, and from itself when
\* it was pending.
LEMMA MergedRow ==
  ASSUME NEW r \in RowType, NEW items \in SUBSET RowType, items # {}
  PROVE  LET merged == Merged(r, items, r.status = Pending)
         IN  /\ merged \in RowType
             /\ \A x \in items : TakesOver(merged, x)
             /\ r.status = Pending => TakesOver(merged, r)
<1> DEFINE times == items \cup (IF r.status = Pending THEN {r} ELSE {})
           I == {x.refreshIn : x \in times}
           D == {x.deadlineIn : x \in times}
           P == r.paths \cup UNION {x.paths : x \in items}
<1>1. \A x \in times : /\ x \in RowType
                       /\ x.refreshIn \in 0 .. Debounce
                       /\ x.deadlineIn \in 0 .. MaxWait
  BY DEF RowType
<1>2. I \subseteq 0 .. Debounce /\ I # {}
  BY <1>1
<1>3. D \subseteq 0 .. MaxWait /\ D # {}
  BY <1>1
<1>4. Max(I) \in I /\ \A x \in times : Max(I) >= x.refreshIn
  <2>1. \A x \in times : x.refreshIn \in I
    OBVIOUS
  <2> HIDE DEF I
  <2> QED
    BY <1>2, <2>1, GreatestElement, TimeAssumption
<1>5. Min(D) \in D /\ \A x \in times : Min(D) <= x.deadlineIn
  <2>1. D \subseteq Nat /\ \A x \in times : x.deadlineIn \in D
    BY <1>3
  <2> HIDE DEF D
  <2> QED
    BY <1>3, <2>1, LeastElement
<1>6. P \in SUBSET SyncPath /\ \A x \in items : x.paths \subseteq P
  BY DEF RowType
<1> HIDE DEF I, D, P
<1>7. PendingRow(Max(I), Min(D), P) \in RowType
  BY <1>2, <1>3, <1>4, <1>5, <1>6, NewRows
<1>8. \A x \in times : x.paths \subseteq P => TakesOver(PendingRow(Max(I), Min(D), P), x)
  BY <1>1, <1>2, <1>4, <1>5 DEF TakesOver, PendingRow
<1>9. Merged(r, items, r.status = Pending) = PendingRow(Max(I), Min(D), P)
  BY DEF Merged, I, D, P
<1>10. r.paths \subseteq P
  BY DEF P
<1> QED
  BY <1>6, <1>7, <1>8, <1>9, <1>10

LEMMA AlignedRow ==
  ASSUME NEW rows \in Tables, NEW l, NEW i \in ItemsOf(rows, l)
  PROVE  /\ Aligned(rows, l)[i] \in RowType
         /\ Aligned(rows, l)[i].status = Pending
         /\ Aligned(rows, l)[i].paths = rows[i].paths
         /\ Aligned(rows, l)[i].refreshIn >= rows[i].refreshIn
         /\ Aligned(rows, l)[i].deadlineIn = rows[i].deadlineIn
<1> DEFINE I == {rows[j].refreshIn : j \in ItemsOf(rows, l)}
<1>1. \A j \in ItemsOf(rows, l) : /\ rows[j] \in RowType
                                  /\ rows[j].status = Pending
                                  /\ rows[j].refreshIn \in 0 .. Debounce
                                  /\ rows[j].deadlineIn \in 0 .. MaxWait
                                  /\ rows[j].paths \in SUBSET SyncPath
  BY DEF ItemsOf, Tables, RowType, Key
<1>2. I \subseteq 0 .. Debounce /\ I # {}
  BY <1>1
<1>3. Max(I) \in I /\ Max(I) >= rows[i].refreshIn
  <2>1. rows[i].refreshIn \in I
    OBVIOUS
  <2> HIDE DEF I
  <2> QED
    BY <1>2, <2>1, GreatestElement, TimeAssumption
<1>4. Aligned(rows, l)[i] = IF rows[i].refreshIn < Max(I)
                              THEN PendingRow(Max(I), rows[i].deadlineIn, rows[i].paths)
                              ELSE rows[i]
  BY DEF Aligned
<1>5. Max(I) \in 0 .. Debounce
  BY <1>2, <1>3
<1> HIDE DEF I
<1>6. CASE rows[i].refreshIn < Max(I)
  <2>1. PendingRow(Max(I), rows[i].deadlineIn, rows[i].paths) \in RowType
    BY <1>1, <1>5, NewRows
  <2> QED
    BY <1>1, <1>3, <1>4, <1>6, <2>1 DEF PendingRow
<1>7. CASE ~(rows[i].refreshIn < Max(I))
  BY <1>1, <1>4, <1>7
<1> QED
  BY <1>6, <1>7

\* What grouping makes of the row of an item: it stays pending, or the row of
\* its library takes over.
LEMMA ReconciledItem ==
  ASSUME NEW rows \in Tables, NEW i \in Item
  PROVE  LET old == rows[i]
             new == Reconciled(rows)[i]
             heir == Reconciled(rows)[LibraryOf[i]]
         IN  /\ new \in RowType
             /\ old.status # Pending => new = old
             /\ old.status = Pending =>
                  \/ TakesOver(new, old)
                  \/ /\ new.status = Over
                     /\ new.paths = old.paths
                     /\ LibraryOf[i] \in Library
                     /\ heir \in RowType
                     /\ TakesOver(heir, old)
<1> DEFINE l == LibraryOf[i]
           items == {rows[j] : j \in ItemsOf(rows, l)}
<1>1. /\ i \in Key /\ l \in Library \cup {NoLibrary}
      /\ rows[i] \in RowType
      /\ rows[i].refreshIn \in Int /\ rows[i].deadlineIn \in Int
  BY KeyAssumption DEF Key, Tables, RowType
<1>2. TakesOver(rows[i], rows[i]) \/ rows[i].status # Pending
  BY <1>1 DEF TakesOver
<1>3. CASE l = NoLibrary \/ ItemsOf(rows, l) = {} \/ (Absorbs(rows, l) /\ i \notin ItemsOf(rows, l))
  BY <1>1, <1>2, <1>3, KeyAssumption DEF Reconciled, Key
<1>4. CASE l # NoLibrary /\ Absorbs(rows, l) /\ i \in ItemsOf(rows, l)
  <2>1. l \in Library /\ l \in Key /\ l \notin Item /\ i # l /\ rows[l] \in RowType
    BY <1>1, <1>4, KeyAssumption DEF Key, Tables
  <2>2. items \in SUBSET RowType /\ rows[i] \in items
    BY <1>4 DEF ItemsOf, Tables, Key
  <2>3. Reconciled(rows)[l] = Merged(rows[l], items, rows[l].status = Pending)
    BY <1>4, <2>1 DEF Reconciled
  <2>4. Reconciled(rows)[i] = Ended(rows[i])
    BY <1>1, <1>4, <2>1 DEF Reconciled
  <2> DEFINE merged == Merged(rows[l], items, rows[l].status = Pending)
  <2>5. merged \in RowType /\ TakesOver(merged, rows[i])
    <3> HIDE DEF items
    <3> QED
      BY <2>1, <2>2, MergedRow
  <2>6. Ended(rows[i]) \in RowType /\ Ended(rows[i]).status = Over /\ Ended(rows[i]).paths = rows[i].paths
    BY <1>1, NewRows
  <2>7. rows[i].status = Pending
    BY <1>4 DEF ItemsOf
  <2> HIDE DEF merged
  <2> QED
    BY <2>1, <2>3, <2>4, <2>5, <2>6, <2>7 DEF merged
<1>5. CASE l # NoLibrary /\ ItemsOf(rows, l) # {} /\ ~Absorbs(rows, l)
  <2>1. l \in Library /\ i # l
    BY <1>1, <1>5, KeyAssumption
  <2>2. CASE i \in ItemsOf(rows, l) /\ rows[l].status # Refreshing
    <3>1. Reconciled(rows)[i] = Aligned(rows, l)[i]
      BY <1>1, <1>5, <2>2 DEF Reconciled
    <3>2. TakesOver(Reconciled(rows)[i], rows[i]) /\ rows[i].status = Pending
      BY <1>1, <2>2, <3>1, AlignedRow DEF TakesOver, ItemsOf
    <3> QED
      BY <3>1, <3>2, <2>2, AlignedRow
  <2>3. CASE ~(i \in ItemsOf(rows, l) /\ rows[l].status # Refreshing)
    <3>1. Reconciled(rows)[i] = rows[i]
      BY <1>1, <1>5, <2>3 DEF Reconciled
    <3> QED
      BY <1>1, <1>2, <3>1
  <2> QED
    BY <2>2, <2>3
<1> QED
  BY <1>1, <1>3, <1>4, <1>5

LEMMA ReconciledLibrary ==
  ASSUME NEW rows \in Tables, NEW l \in Library
  PROVE  LET old == rows[l]
             new == Reconciled(rows)[l]
         IN  /\ new \in RowType
             /\ old.status = Refreshing => new = old
             /\ old.status = Pending => TakesOver(new, old)
<1> DEFINE items == {rows[j] : j \in ItemsOf(rows, l)}
<1>1. /\ l \in Key /\ l \notin Item /\ l # NoLibrary
      /\ rows[l] \in RowType
      /\ rows[l].refreshIn \in Int /\ rows[l].deadlineIn \in Int
  BY KeyAssumption DEF Key, Tables, RowType
<1>2. l \notin ItemsOf(rows, l)
  BY <1>1 DEF ItemsOf
<1>3. CASE Absorbs(rows, l)
  <2>1. items \in SUBSET RowType /\ items # {}
    BY <1>3 DEF ItemsOf, Tables, Key, Absorbs
  <2>2. Reconciled(rows)[l] = Merged(rows[l], items, rows[l].status = Pending)
    BY <1>1, <1>3 DEF Reconciled, Absorbs
  <2>3. rows[l].status # Refreshing
    BY <1>3, Statuses DEF Absorbs
  <2>4. LET merged == Merged(rows[l], items, rows[l].status = Pending)
        IN  merged \in RowType /\ (rows[l].status = Pending => TakesOver(merged, rows[l]))
    <3> HIDE DEF items
    <3> QED
      BY <1>1, <2>1, MergedRow
  <2> QED
    BY <2>2, <2>3, <2>4
<1>4. CASE ~Absorbs(rows, l)
  <2>1. Reconciled(rows)[l] = rows[l]
    BY <1>1, <1>2, <1>4 DEF Reconciled
  <2> QED
    BY <1>1, <2>1 DEF TakesOver
<1> QED
  BY <1>3, <1>4

-----------------------------------------------------------------------------
(* The invariant.                                                          *)

\* What Emby may know of a change.
Knowledge == {"clean", "dirty", "serving"}

WakeTypes ==
  /\ wake \in BOOLEAN
  /\ timer \in Nat \cup {NoTimer}
  /\ up \in BOOLEAN

Calls == [step : {"idle", "upsert", "reconcile", "query", "set"},
          todo : Seq(Key), groups : BOOLEAN, next : Nat \cup {NoTimer}]
CallerTypes ==
  /\ caller \in [Caller -> Calls]
  /\ \A c \in Caller : caller[c].step = "upsert" => caller[c].todo # <<>>

ScanTypes ==
  /\ DOMAIN scan = {"pc", "batch", "task"}
  /\ scan.pc \in {"idle", "flush", "flushed", "check", "claim", "refresh"}
  /\ scan.pc \in {"claim", "refresh"} => scan.task \in Key

TypeInv ==
  /\ row \in Tables
  /\ change \in [Key -> Knowledge]
  /\ quiet \in [Key -> 0 .. Debounce]
  /\ WakeTypes
  /\ CallerTypes
  /\ ScanTypes

\* The row of an item never loses the sync path of the item.
Own(rows) == \A i \in Item : rows[i].status # Unborn => PathOf[i] \in rows[i].paths

\* Cover, of any table.
CoverIn(rows, u) ==
  IF u \in Item /\ rows[u].status # Pending /\ LibraryOf[u] # NoLibrary
    THEN LibraryOf[u] ELSE u

\* Row k stands for the change of u, which is to wait for q more ticks.
StandsFor(rows, q, k, u) ==
  /\ PathOf[u] \in rows[k].paths
  /\ rows[k].status \in {Pending, Refreshing}
  /\ rows[k].status = Pending => q <= rows[k].refreshIn

\* The state c of the change of u is what the rows say, in a process that is
\* up or not.
Backed(isUp, rows, c, q, u) ==
  /\ c # "clean" => \E k \in {u, CoverIn(rows, u)} : StandsFor(rows, q, k, u)
  /\ c = "dirty" /\ isUp => /\ rows[CoverIn(rows, u)].status = Pending
                            /\ StandsFor(rows, q, CoverIn(rows, u), u)
  /\ c = "serving" => isUp /\ q = 0

ChangeInv == \A u \in Key : Backed(up, row, change[u], quiet[u], u)

IInv == TypeInv /\ Own(row) /\ ChangeInv

LEMMA CoverIsKey ==
  ASSUME NEW rows, NEW u \in Key
  PROVE  CoverIn(rows, u) \in Key /\ CoverIn(rows, u) \in StandIn(u)
BY KeyAssumption DEF CoverIn, Key, StandIn, LibrariesOf

LEMMA Consequence == IInv => NothingForgotten
<1> SUFFICES ASSUME IInv, NEW u \in Key
             PROVE  /\ change[u] = "dirty" =>
                         \E k \in StandIn(u) : Waiting(k) /\ PathOf[u] \in row[k].paths
                    /\ change[u] = "serving" =>
                         \E k \in StandIn(u) : row[k].status \in {Pending, Refreshing}
  BY DEF NothingForgotten
<1>1. Backed(up, row, change[u], quiet[u], u) /\ u \in StandIn(u) /\ CoverIn(row, u) \in StandIn(u)
  BY CoverIsKey DEF IInv, ChangeInv, StandIn
<1> QED
  BY <1>1 DEF Backed, StandsFor, Waiting, IsPending

-----------------------------------------------------------------------------
(* What the steps do to a table and to a change.                           *)

\* Rows in gone, which were pending, end; what they stood for is given up.
LEMMA EndRows ==
  ASSUME NEW rows \in Tables, Own(rows), NEW gone \in SUBSET Key,
         \A k \in gone : rows[k].status = Pending,
         NEW left, left = [k \in Key |-> IF k \in gone THEN Ended(rows[k]) ELSE rows[k]]
  PROVE  /\ left \in Tables
         /\ Own(left)
         /\ \A u \in Key : CoverIn(rows, u) \notin gone =>
              /\ CoverIn(left, u) = CoverIn(rows, u)
              /\ left[CoverIn(rows, u)] = rows[CoverIn(rows, u)]
         /\ \A u \in Key, isUp \in BOOLEAN, c \in Knowledge, q \in Nat :
              CoverIn(rows, u) \notin gone /\ Backed(isUp, rows, c, q, u) =>
                Backed(isUp, left, c, q, u)
<1>1. \A k \in Key : /\ rows[k] \in RowType
                     /\ left[k] = IF k \in gone THEN Ended(rows[k]) ELSE rows[k]
  BY DEF Tables
<1>2. left \in Tables
  BY <1>1, NewRows DEF Tables
<1>3. Own(left)
  BY <1>1, NewRows, Statuses DEF Own, Key
<1>4. \A u \in Key : CoverIn(rows, u) \notin gone => u \notin gone
  BY DEF CoverIn
<1>5. \A u \in Key : CoverIn(rows, u) \notin gone =>
         CoverIn(left, u) = CoverIn(rows, u) /\ left[u] = rows[u]
         /\ left[CoverIn(rows, u)] = rows[CoverIn(rows, u)]
  BY <1>1, <1>4, CoverIsKey DEF CoverIn
<1>6. ASSUME NEW u \in Key, NEW isUp \in BOOLEAN, NEW c \in Knowledge, NEW q \in Nat,
             Backed(isUp, rows, c, q, u), CoverIn(rows, u) \notin gone
      PROVE  Backed(isUp, left, c, q, u)
  BY <1>5, <1>6 DEF Backed, StandsFor
<1> QED
  BY <1>2, <1>3, <1>5, <1>6

\* Grouping hands on what rows stand for, and moves no deadline away.
LEMMA Regroup ==
  ASSUME NEW rows \in Tables, Own(rows)
  PROVE  /\ Reconciled(rows) \in Tables
         /\ Own(Reconciled(rows))
         /\ \A u \in Key : rows[CoverIn(rows, u)].status = Pending =>
              TakesOver(Reconciled(rows)[CoverIn(Reconciled(rows), u)], rows[CoverIn(rows, u)])
         /\ \A u \in Key, isUp \in BOOLEAN, c \in Knowledge, q \in Nat :
              Backed(isUp, rows, c, q, u) => Backed(isUp, Reconciled(rows), c, q, u)
<1> DEFINE new == Reconciled(rows)
<1>1. \A k \in Key : new[k] \in RowType /\ rows[k] \in RowType
  BY ReconciledItem, ReconciledLibrary DEF Key, Tables
<1>2. DOMAIN new = Key /\ new = [k \in Key |-> new[k]]
  BY DEF Reconciled
<1>3. new \in Tables
  BY <1>1, <1>2 DEF Tables
<1>4. Own(new)
  BY ReconciledItem, Statuses DEF Own, TakesOver
<1>5. ASSUME NEW u \in Key, rows[CoverIn(rows, u)].status = Pending
      PROVE  TakesOver(new[CoverIn(new, u)], rows[CoverIn(rows, u)])
  <2>1. CASE u \in Item /\ rows[u].status = Pending
    <3>1. CoverIn(rows, u) = u
      BY <2>1 DEF CoverIn
    <3>2. CASE TakesOver(new[u], rows[u])
      BY <3>1, <3>2 DEF CoverIn, TakesOver
    <3>3. CASE ~TakesOver(new[u], rows[u])
      <4>1. /\ new[u].status = Over /\ LibraryOf[u] \in Library
            /\ TakesOver(new[LibraryOf[u]], rows[u])
        BY <2>1, <3>3, ReconciledItem
      <4>2. CoverIn(new, u) = LibraryOf[u]
        BY <2>1, <4>1, KeyAssumption, Statuses DEF CoverIn, Key
      <4> QED
        BY <3>1, <4>1, <4>2
    <3> QED
      BY <3>2, <3>3
  <2>2. CASE u \in Item /\ rows[u].status # Pending
    <3>1. new[u] = rows[u]
      BY <2>2, ReconciledItem
    <3>2. CoverIn(new, u) = CoverIn(rows, u) /\ CoverIn(rows, u) \in Library
      BY <2>2, <3>1, <1>5, KeyAssumption DEF CoverIn
    <3> QED
      BY <3>2, <1>5, ReconciledLibrary
  <2>3. CASE u \in Library
    BY <2>3, <1>5, ReconciledLibrary, KeyAssumption DEF CoverIn
  <2> QED
    BY <2>1, <2>2, <2>3 DEF Key
<1>6. \A k \in Key : rows[k].status = Refreshing => new[k] = rows[k]
  BY ReconciledItem, ReconciledLibrary, Statuses DEF Key
<1>7. \A u \in Key : rows[u].status # Pending =>
         \/ u \in Library
         \/ new[u] = rows[u] /\ CoverIn(new, u) = CoverIn(rows, u)
  BY ReconciledItem DEF Key, CoverIn
<1> HIDE DEF new
<1>8. \A u \in Key, q \in Nat :
         /\ rows[CoverIn(rows, u)].status = Pending
         /\ StandsFor(rows, q, CoverIn(rows, u), u)
         => /\ new[CoverIn(new, u)].status = Pending
            /\ StandsFor(new, q, CoverIn(new, u), u)
  <2> SUFFICES ASSUME NEW u \in Key, NEW q \in Nat,
                      rows[CoverIn(rows, u)].status = Pending,
                      StandsFor(rows, q, CoverIn(rows, u), u)
               PROVE  /\ new[CoverIn(new, u)].status = Pending
                      /\ StandsFor(new, q, CoverIn(new, u), u)
    OBVIOUS
  <2>1. /\ rows[CoverIn(rows, u)].refreshIn \in Nat
        /\ new[CoverIn(new, u)].refreshIn \in Nat
    BY <1>1, CoverIsKey DEF RowType
  <2> QED
    BY <2>1, <1>5 DEF TakesOver, StandsFor
<1>9. ASSUME NEW u \in Key, NEW isUp \in BOOLEAN, NEW c \in Knowledge, NEW q \in Nat,
             Backed(isUp, rows, c, q, u)
      PROVE  Backed(isUp, new, c, q, u)
  <2>1. CASE rows[CoverIn(rows, u)].status = Pending /\ StandsFor(rows, q, CoverIn(rows, u), u)
    BY <1>8, <1>9, <2>1 DEF Backed
  <2>2. ASSUME StandsFor(rows, q, u, u), rows[u].status = Refreshing
        PROVE  StandsFor(new, q, u, u)
    BY <2>2, <1>6 DEF StandsFor
  <2>3. ASSUME StandsFor(rows, q, CoverIn(rows, u), u), rows[CoverIn(rows, u)].status = Refreshing
        PROVE  StandsFor(new, q, CoverIn(new, u), u)
    <3>1. new[CoverIn(rows, u)] = rows[CoverIn(rows, u)]
      BY <2>3, <1>6, CoverIsKey
    <3>2. CoverIn(new, u) = CoverIn(rows, u)
      BY <2>3, <1>7, Statuses, KeyAssumption DEF CoverIn
    <3> QED
      BY <2>3, <3>1, <3>2 DEF StandsFor
  <2>4. ASSUME StandsFor(rows, q, u, u), rows[u].status = Pending
        PROVE  rows[CoverIn(rows, u)].status = Pending /\ StandsFor(rows, q, CoverIn(rows, u), u)
    BY <2>4 DEF CoverIn
  <2> QED
    BY <1>9, <2>1, <2>2, <2>3, <2>4 DEF Backed, StandsFor
<1> QED
  BY <1>3, <1>4, <1>5, <1>9 DEF new

-----------------------------------------------------------------------------
(* The steps.                                                              *)

\* The invariant holds on, and the step is one the action properties allow.
StepKeeps == IInv' /\ DebounceStep /\ DeadlineStep

LEMMA RowFields ==
  ASSUME NEW r \in RowType
  PROVE  /\ r.status \in {Unborn, Pending, Refreshing, Over}
         /\ r.refreshIn \in 0 .. Debounce /\ r.deadlineIn \in 0 .. MaxWait
         /\ r.refreshIn \in Nat /\ r.deadlineIn \in Nat
         /\ r.paths \in SUBSET SyncPath
BY TimeAssumption DEF RowType

LEMMA InvFacts ==
  ASSUME IInv, NEW u \in Key
  PROVE  /\ row[u] \in RowType
         /\ Cover(u) = CoverIn(row, u) /\ Cover(u) \in Key /\ row[Cover(u)] \in RowType
         /\ DeadlineOf(u) \in Nat
         /\ change[u] \in Knowledge
         /\ quiet[u] \in 0 .. Debounce /\ quiet[u] \in Nat
         /\ Backed(up, row, change[u], quiet[u], u)
<1>1. /\ row[u] \in RowType
      /\ change[u] \in Knowledge
      /\ quiet[u] \in 0 .. Debounce /\ quiet[u] \in Nat
      /\ Backed(up, row, change[u], quiet[u], u)
  BY TimeAssumption DEF IInv, TypeInv, Tables, ChangeInv
<1>2. Cover(u) = CoverIn(row, u) /\ Cover(u) \in Key
  BY CoverIsKey DEF Cover, CoverIn, IsPending
<1>3. row[Cover(u)] \in RowType
  BY <1>2 DEF IInv, TypeInv, Tables
<1> QED
  BY <1>1, <1>2, <1>3, RowFields DEF DeadlineOf

LEMMA CoverNext ==
  ASSUME NEW u
  PROVE  Cover(u)' = CoverIn(row', u) /\ DeadlineOf(u)' = row'[CoverIn(row', u)].deadlineIn
BY DEF Cover, CoverIn, IsPending, DeadlineOf

\* Steps of the scanner, of callers and of others that write no row.
LEMMA NoRowStep ==
  ASSUME IInv, TypeInv', UNCHANGED rowVars, up' = up
  PROVE  StepKeeps
<1>1. UNCHANGED <<row, change, quiet>>
  BY DEF rowVars
<1>2. IInv'
  BY <1>1 DEF IInv, Own, ChangeInv, Backed, StandsFor, CoverIn
<1>3. DebounceStep
  BY <1>1 DEF DebounceStep
<1>4. DeadlineStep
  <2>1. \A u \in Key : DeadlineOf(u)' = DeadlineOf(u) /\ DeadlineOf(u) \in Nat
    BY <1>1, InvFacts, CoverNext DEF DeadlineOf
  <2> QED
    BY <2>1 DEF DeadlineStep
<1> QED
  BY <1>2, <1>3, <1>4 DEF StepKeeps

\* Rows that end, and what they stood for with them.
LEMMA GiveUpTypes ==
  ASSUME IInv, NEW gone, GiveUp(gone)
  PROVE  /\ change' \in [Key -> Knowledge]
         /\ quiet' \in [Key -> 0 .. Debounce]
         /\ \A u \in Key : change'[u] \in Knowledge /\ quiet'[u] \in Nat
         /\ \A u \in Key : CoverIn(row, u) \in gone => change'[u] = "clean" /\ quiet'[u] = 0
         /\ \A u \in Key : CoverIn(row, u) \notin gone => change'[u] = change[u] /\ quiet'[u] = quiet[u]
<1>1. \A u \in Key : u \in {x \in Key : Cover(x) \in gone} <=> CoverIn(row, u) \in gone
  BY InvFacts
<1>2. 0 \in 0 .. Debounce
  BY TimeAssumption
<1>3. /\ change' \in [Key -> Knowledge]
      /\ quiet' \in [Key -> 0 .. Debounce]
  BY <1>2, InvFacts DEF GiveUp, Knowledge
<1>4. \A u \in Key : change'[u] \in Knowledge /\ quiet'[u] \in Nat
  BY <1>3, TimeAssumption
<1> QED
  BY <1>1, <1>3, <1>4 DEF GiveUp

LEMMA GiveUpStep ==
  ASSUME IInv, NEW gone \in SUBSET Key, \A k \in gone : IsPending(k), GiveUp(gone),
         row' = [k \in Key |-> IF k \in gone THEN Ended(row[k]) ELSE row[k]],
         up' = up, TypeInv'
  PROVE  StepKeeps
<1>1. row \in Tables /\ Own(row) /\ up \in BOOLEAN
  BY DEF IInv, TypeInv, WakeTypes
<1>2. \A k \in gone : row[k].status = Pending
  BY DEF IsPending
<1>3. /\ Own(row')
      /\ \A u \in Key : CoverIn(row, u) \notin gone =>
           /\ CoverIn(row', u) = CoverIn(row, u)
           /\ row'[CoverIn(row, u)] = row[CoverIn(row, u)]
      /\ \A u \in Key, isUp \in BOOLEAN, c \in Knowledge, q \in Nat :
           CoverIn(row, u) \notin gone /\ Backed(isUp, row, c, q, u) => Backed(isUp, row', c, q, u)
  BY <1>1, <1>2, EndRows
<1>4. ChangeInv'
  <2> SUFFICES ASSUME NEW u \in Key
               PROVE  Backed(up, row', change'[u], quiet'[u], u)
    BY DEF ChangeInv
  <2>1. CASE CoverIn(row, u) \in gone
    BY <2>1, GiveUpTypes DEF Backed
  <2>2. CASE CoverIn(row, u) \notin gone
    BY <1>1, <1>3, <2>2, GiveUpTypes, InvFacts
  <2> QED
    BY <2>1, <2>2
<1>5. DebounceStep
  BY GiveUpTypes DEF DebounceStep
<1>6. DeadlineStep
  <2>1. ASSUME NEW u \in Key, change'[u] = "dirty"
        PROVE  DeadlineOf(u)' = DeadlineOf(u)
    <3>1. CoverIn(row, u) \notin gone
      BY <2>1, GiveUpTypes
    <3>2. Cover(u) = CoverIn(row, u)
      BY InvFacts
    <3> QED
      BY <1>3, <3>1, <3>2, CoverNext DEF DeadlineOf
  <2> QED
    BY <2>1, InvFacts DEF DeadlineStep
<1> QED
  BY <1>3, <1>4, <1>5, <1>6 DEF StepKeeps, IInv

\* The rows are the same but for the scanner's notes.
Alike(new, old) ==
  /\ \A k \in Key : /\ new[k].status = old[k].status
                    /\ new[k].paths = old[k].paths
                    /\ new[k].refreshIn = old[k].refreshIn
                    /\ new[k].deadlineIn = old[k].deadlineIn

LEMMA ExpiredRows ==
  ASSUME NEW rows \in Tables, Own(rows),
         NEW gone, gone = {k \in Key : rows[k].status = Pending /\ rows[k].deadlineIn = 0}
  PROVE  /\ WithoutExpired(rows) \in Tables
         /\ Own(WithoutExpired(rows))
         /\ \A u \in Key : CoverIn(rows, u) \notin gone =>
              /\ CoverIn(WithoutExpired(rows), u) = CoverIn(rows, u)
              /\ WithoutExpired(rows)[CoverIn(rows, u)] = rows[CoverIn(rows, u)]
         /\ \A u \in Key, isUp \in BOOLEAN, c \in Knowledge, q \in Nat :
              CoverIn(rows, u) \notin gone /\ Backed(isUp, rows, c, q, u) =>
                Backed(isUp, WithoutExpired(rows), c, q, u)
<1>1. WithoutExpired(rows) = [k \in Key |-> IF k \in gone THEN Ended(rows[k]) ELSE rows[k]]
  BY DEF WithoutExpired
<1>2. gone \in SUBSET Key /\ \A k \in gone : rows[k].status = Pending
  OBVIOUS
<1> QED
  BY <1>1, <1>2, EndRows, SMTT(40)

\* Reconciling: overdue rows end, the others are grouped.
LEMMA ReconcileStep ==
  ASSUME IInv, Alike(row', Reconciled(WithoutExpired(row))),
         GiveUp({k \in Key : IsPending(k) /\ row[k].deadlineIn = 0}),
         up, up' = up, TypeInv'
  PROVE  StepKeeps
<1> DEFINE gone == {k \in Key : IsPending(k) /\ row[k].deadlineIn = 0}
           mid == WithoutExpired(row)
           new == Reconciled(mid)
<1>1. row \in Tables /\ Own(row) /\ up \in BOOLEAN
  BY DEF IInv, TypeInv, WakeTypes
<1>2. gone = {k \in Key : row[k].status = Pending /\ row[k].deadlineIn = 0}
  BY DEF IsPending
<1>3. /\ mid \in Tables
      /\ Own(mid)
      /\ \A u \in Key : CoverIn(row, u) \notin gone =>
           /\ CoverIn(mid, u) = CoverIn(row, u)
           /\ mid[CoverIn(row, u)] = row[CoverIn(row, u)]
      /\ \A u \in Key, isUp \in BOOLEAN, c \in Knowledge, q \in Nat :
           CoverIn(row, u) \notin gone /\ Backed(isUp, row, c, q, u) => Backed(isUp, mid, c, q, u)
  <2> HIDE DEF gone
  <2> QED
    BY <1>1, <1>2, ExpiredRows
<1>4. \A u \in Key : /\ CoverIn(row, u) \in gone => change'[u] = "clean" /\ quiet'[u] = 0
                     /\ CoverIn(row, u) \notin gone => change'[u] = change[u] /\ quiet'[u] = quiet[u]
  BY GiveUpTypes
<1> HIDE DEF mid, gone
<1>5. Alike(row', new)
  BY DEF mid
<1>6. /\ Own(new)
      /\ \A u \in Key : mid[CoverIn(mid, u)].status = Pending =>
              TakesOver(new[CoverIn(new, u)], mid[CoverIn(mid, u)])
      /\ \A u \in Key, isUp \in BOOLEAN, c \in Knowledge, q \in Nat :
              Backed(isUp, mid, c, q, u) => Backed(isUp, new, c, q, u)
  BY <1>3, Regroup
<1> HIDE DEF new
<1>7. Own(row')
  BY <1>5, <1>6 DEF Own, Alike, Key
<1>8. \A u \in Key : CoverIn(row', u) = CoverIn(new, u) /\ CoverIn(new, u) \in Key
  BY <1>5, CoverIsKey DEF CoverIn, Alike
<1>9. ChangeInv'
  <2> SUFFICES ASSUME NEW u \in Key
               PROVE  Backed(up, row', change'[u], quiet'[u], u)
    BY DEF ChangeInv
  <2>1. CASE CoverIn(row, u) \in gone
    BY <1>4, <2>1 DEF Backed
  <2>2. CASE CoverIn(row, u) \notin gone
    <3>1. Backed(up, mid, change[u], quiet[u], u)
      BY <1>1, <1>3, <2>2, InvFacts
    <3>2. Backed(up, new, change'[u], quiet'[u], u)
      BY <1>1, <1>4, <1>6, <2>2, <3>1, InvFacts
    <3>3. \A k \in Key : StandsFor(new, quiet'[u], k, u) => StandsFor(row', quiet'[u], k, u)
      BY <1>5 DEF StandsFor, Alike
    <3> QED
      BY <1>5, <1>8, <3>2, <3>3 DEF Backed, Alike
  <2> QED
    BY <2>1, <2>2
<1>10. DebounceStep
  BY <1>4 DEF DebounceStep
<1>11. DeadlineStep
  <2> SUFFICES ASSUME NEW u \in Key, change[u] = "dirty", change'[u] = "dirty"
               PROVE  DeadlineOf(u)' <= DeadlineOf(u)
    BY DEF DeadlineStep
  <2>1. CoverIn(row, u) \notin gone
    BY <1>4
  <2>2. row[CoverIn(row, u)].status = Pending
    BY InvFacts DEF Backed
  <2>3. TakesOver(new[CoverIn(new, u)], row[CoverIn(row, u)])
    BY <1>3, <1>6, <2>1, <2>2
  <2>4. /\ DeadlineOf(u)' = new[CoverIn(new, u)].deadlineIn
        /\ DeadlineOf(u) = row[CoverIn(row, u)].deadlineIn
    BY <1>5, <1>8, InvFacts, CoverNext, ZenonT(40) DEF DeadlineOf, Alike
  <2> QED
    BY <2>3, <2>4 DEF TakesOver
<1> QED
  BY <1>7, <1>9, <1>10, <1>11 DEF StepKeeps, IInv

\* Rows keep what they are; their times change, and no more time is left than
\* there was.
LEMMA RetimeStep ==
  ASSUME IInv, TypeInv', up' = up, change' = change,
         \A k \in Key : /\ row'[k].status = row[k].status
                        /\ row'[k].paths = row[k].paths
                        /\ row'[k].deadlineIn <= row[k].deadlineIn,
         \A u \in Key : quiet[u] = 0 => quiet'[u] = 0,
         \A u, k \in Key : row[k].status = Pending /\ quiet[u] <= row[k].refreshIn =>
                             quiet'[u] <= row'[k].refreshIn
  PROVE  StepKeeps
<1>1. \A u \in Key : CoverIn(row', u) = CoverIn(row, u) /\ CoverIn(row, u) \in Key
  BY CoverIsKey DEF CoverIn
<1>2. Own(row')
  BY DEF IInv, Own, Key
<1>3. ChangeInv'
  <2> SUFFICES ASSUME NEW u \in Key
               PROVE  Backed(up, row', change[u], quiet'[u], u)
    BY DEF ChangeInv
  <2>1. \A k \in Key : StandsFor(row, quiet[u], k, u) => StandsFor(row', quiet'[u], k, u)
    BY DEF StandsFor
  <2> QED
    BY <1>1, <2>1, InvFacts DEF Backed
<1>4. DebounceStep
  BY DEF DebounceStep
<1>5. DeadlineStep
  BY <1>1, InvFacts, CoverNext DEF DeadlineStep, DeadlineOf
<1> QED
  BY <1>2, <1>3, <1>4, <1>5 DEF StepKeeps, IInv

-----------------------------------------------------------------------------
(* The timer.                                                              *)

LEMMA NextCheckFacts ==
  ASSUME NEW rows \in Tables
  PROVE  /\ NextCheck(rows) \in Nat \cup {NoTimer}
         /\ \A k \in Key : rows[k].status = Pending /\ rows[k].refreshIn > 0 =>
              NextCheck(rows) # NoTimer /\ NextCheck(rows) <= rows[k].refreshIn
<1> DEFINE future == {rows[k].refreshIn : k \in {x \in Key : rows[x].status = Pending
                                                             /\ rows[x].refreshIn > 0}}
<1>1. future \subseteq Nat
  BY RowFields DEF Tables
<1>2. \A k \in Key : rows[k].status = Pending /\ rows[k].refreshIn > 0 =>
         rows[k].refreshIn \in future
  OBVIOUS
<1>3. NextCheck(rows) = IF future = {} THEN NoTimer ELSE Min(future)
  BY DEF NextCheck
<1> HIDE DEF future
<1>4. future # {} => Min(future) \in future /\ \A y \in future : Min(future) <= y
  BY <1>1, LeastElement
<1>5. CASE future = {}
  BY <1>2, <1>3, <1>5
<1>6. CASE future # {}
  <2>1. NextCheck(rows) = Min(future) /\ Min(future) \in Nat /\ Min(future) # NoTimer
    <3>1. NextCheck(rows) = Min(future)
      BY <1>3, <1>6
    <3>2. Min(future) \in Nat
      BY <1>1, <1>4, <1>6
    <3>3. NoTimer \notin Nat
      BY DEF NoTimer
    <3> QED
      BY <3>1, <3>2, <3>3
  <2> QED
    BY <1>2, <1>4, <1>6, <2>1
<1> QED
  BY <1>5, <1>6

LEMMA SetNextTimerFacts ==
  ASSUME timer \in Nat \cup {NoTimer}, NEW next \in Nat \cup {NoTimer}, SetNextTimer(next)
  PROVE  /\ timer' \in Nat \cup {NoTimer}
         /\ timer # NoTimer => timer' # NoTimer /\ timer' <= timer
         /\ next # NoTimer => timer' # NoTimer /\ timer' <= next
BY DEF SetNextTimer, NoTimer

LEMMA LessFacts ==
  /\ \A n \in Nat : Less(n) \in Nat /\ Less(n) <= n
  /\ \A m, n \in Nat : m <= n => Less(m) <= Less(n)
  /\ \A m \in Nat : \A n \in 0 .. m : Less(n) \in 0 .. m
  /\ Less(NoTimer) = NoTimer
BY DEF Less, NoTimer

-----------------------------------------------------------------------------
(* Action by action.                                                       *)

\* Downloads put off what is in their scope.
LEMMA FlushStep ==
  ASSUME IInv, Flush, UNCHANGED <<change, quiet, up>>, CallerTypes', ScanTypes'
  PROVE  StepKeeps
<1> DEFINE late == InScope(event)
           rows == [k \in Key |-> IF k \in late
                                    THEN PendingRow(Debounce, row[k].deadlineIn, row[k].paths)
                                    ELSE row[k]]
<1>1. row' = rows
  BY DEF Flush
<1>2. late \subseteq {k \in Key : row[k].status = Pending}
  BY DEF InScope, IsPending
<1>3. \A k \in Key :
         /\ row[k] \in RowType
         /\ k \in late => rows[k] = PendingRow(Debounce, row[k].deadlineIn, row[k].paths)
         /\ k \notin late => rows[k] = row[k]
  BY InvFacts
<1>4. \A k \in Key : PendingRow(Debounce, row[k].deadlineIn, row[k].paths) \in RowType
  <2>1. Debounce \in 0 .. Debounce
    BY TimeAssumption
  <2> QED
    BY <1>3, <2>1, NewRows, RowFields
<1>5. rows \in Tables
  BY <1>3, <1>4 DEF Tables
<1>6. WakeTypes'
  <2>1. UNCHANGED wakeVars \/ (SetNextTimer(NextCheck(rows)) /\ wake' = TRUE)
    BY DEF Flush
  <2> HIDE DEF rows
  <2>2. NextCheck(rows) \in Nat \cup {NoTimer}
    BY <1>5, NextCheckFacts
  <2> QED
    BY <2>1, <2>2, SetNextTimerFacts DEF wakeVars, IInv, TypeInv, WakeTypes
<1>7. TypeInv'
  BY <1>1, <1>5, <1>6 DEF IInv, TypeInv
<1> HIDE DEF late, rows
<1>8. \A k \in Key : /\ row'[k].status = row[k].status
                     /\ row'[k].paths = row[k].paths
                     /\ row'[k].deadlineIn <= row[k].deadlineIn
                     /\ row'[k].refreshIn \in {row[k].refreshIn, Debounce}
  <2> SUFFICES ASSUME NEW k \in Key
               PROVE  /\ rows[k].status = row[k].status
                      /\ rows[k].paths = row[k].paths
                      /\ rows[k].deadlineIn = row[k].deadlineIn
                      /\ rows[k].refreshIn \in {row[k].refreshIn, Debounce}
    BY <1>1, <1>3, RowFields
  <2>1. CASE k \in late
    <3>1. row[k].status = Pending
      BY <1>2, <2>1
    <3>2. rows[k] = PendingRow(Debounce, row[k].deadlineIn, row[k].paths)
      BY <1>3, <2>1
    <3> QED
      BY <3>1, <3>2 DEF PendingRow
  <2>2. CASE k \notin late
    BY <1>3, <2>2
  <2> QED
    BY <2>1, <2>2
<1>9. \A u, k \in Key : quiet[u] <= row[k].refreshIn => quiet'[u] <= row'[k].refreshIn
  BY <1>8, InvFacts
<1> QED
  BY <1>7, <1>8, <1>9, RetimeStep

LEMMA AgedRow ==
  ASSUME NEW r \in RowType
  PROVE  LET new == [r EXCEPT !.refreshIn = Less(@), !.deadlineIn = Less(@)]
         IN  /\ new \in RowType
             /\ new.status = r.status
             /\ new.paths = r.paths
             /\ new.refreshIn = Less(r.refreshIn)
             /\ new.deadlineIn = Less(r.deadlineIn)
<1>1. Less(r.refreshIn) \in 0 .. Debounce /\ Less(r.deadlineIn) \in 0 .. MaxWait
  BY RowFields, LessFacts, TimeAssumption
<1>2. ASSUME NEW a \in 0 .. Debounce, NEW b \in 0 .. MaxWait
      PROVE  LET new == [r EXCEPT !.refreshIn = a, !.deadlineIn = b]
             IN  /\ new \in RowType
                 /\ new.status = r.status
                 /\ new.paths = r.paths
                 /\ new.refreshIn = a
                 /\ new.deadlineIn = b
  BY DEF RowType
<1> QED
  BY <1>1, <1>2

LEMMA TickStep ==
  ASSUME IInv, Tick
  PROVE  StepKeeps
<1>1. \A k \in Key :
        /\ row'[k] \in RowType
        /\ row'[k].status = row[k].status
        /\ row'[k].paths = row[k].paths
        /\ row'[k].refreshIn = Less(row[k].refreshIn)
        /\ row'[k].deadlineIn = Less(row[k].deadlineIn)
  <2>1. \A k \in Key : row'[k] = [row[k] EXCEPT !.refreshIn = Less(@), !.deadlineIn = Less(@)]
    BY DEF Tick
  <2> QED
    BY <2>1, AgedRow, InvFacts, ZenonT(40)
<1>2. row' \in Tables
  BY <1>1 DEF Tick, Tables
<1>3. quiet' \in [Key -> 0 .. Debounce] /\ \A u \in Key : quiet'[u] = Less(quiet[u])
  BY InvFacts, LessFacts, TimeAssumption DEF Tick
<1>4. timer' \in Nat \cup {NoTimer}
  BY LessFacts DEF Tick, IInv, TypeInv, WakeTypes
<1>5. CallerTypes'
  <2> SUFFICES ASSUME NEW c \in Caller
               PROVE  LET r == [caller[c] EXCEPT !.next = Less(@)]
                      IN  /\ r \in Calls
                          /\ r.step = caller[c].step
                          /\ r.todo = caller[c].todo
    BY DEF Tick, IInv, TypeInv, CallerTypes
  <2>1. caller[c] \in Calls /\ Less(caller[c].next) \in Nat \cup {NoTimer}
    BY LessFacts DEF IInv, TypeInv, CallerTypes, Calls
  <2> QED
    BY <2>1 DEF Calls
<1>6. TypeInv'
  BY <1>2, <1>3, <1>4, <1>5 DEF Tick, IInv, TypeInv, WakeTypes, ScanTypes
<1>7. \A k \in Key : row'[k].deadlineIn <= row[k].deadlineIn
  BY <1>1, LessFacts, InvFacts, RowFields
<1>8. \A u \in Key : quiet[u] = 0 => quiet'[u] = 0
  BY <1>3 DEF Less
<1>9. \A u, k \in Key : quiet[u] <= row[k].refreshIn => quiet'[u] <= row'[k].refreshIn
  BY <1>1, <1>3, LessFacts, InvFacts, RowFields
<1>10. UNCHANGED <<up, change>>
  BY DEF Tick
<1> QED
  BY <1>1, <1>6, <1>7, <1>8, <1>9, <1>10, RetimeStep

LEMMA CallFacts ==
  /\ NoCall \in Calls
  /\ \A r \in Calls, x \in {"idle", "upsert", "reconcile", "query", "set"} :
       [r EXCEPT !.step = x] \in Calls /\ [r EXCEPT !.step = x].step = x
<1>1. <<>> \in Seq(Key)
  OBVIOUS
<1>2. NoCall \in Calls
  BY <1>1 DEF NoCall, Calls
<1> QED
  BY <1>2 DEF Calls

LEMMA GoesFacts ==
  ASSUME IInv, NEW c \in Caller, NEW step \in {"idle", "reconcile", "query", "set"},
         Goes(c, step)
  PROVE  CallerTypes'
<1>1. [NoCall EXCEPT !.step = step] \in Calls /\ [NoCall EXCEPT !.step = step].step = step
  BY CallFacts, ZenonT(40)
<1>2. caller' = [caller EXCEPT ![c] = [NoCall EXCEPT !.step = step]]
  BY DEF Goes
<1>3. step # "upsert"
  OBVIOUS
<1> QED
  BY <1>1, <1>2, <1>3 DEF IInv, TypeInv, CallerTypes

LEMMA UpsertedRow ==
  ASSUME NEW r \in RowType, NEW path \in SyncPath
  PROVE  /\ Upserted(r, path) \in RowType
         /\ Upserted(r, path).status = Pending
         /\ Upserted(r, path).paths = r.paths \cup {path}
         /\ Upserted(r, path).refreshIn = Debounce
         /\ r.status = Pending /\ r.deadlineIn > 0 =>
              Upserted(r, path).deadlineIn = r.deadlineIn
<1> DEFINE deadline == IF r.status = Unborn \/ ShouldResetDeadline(r) THEN MaxWait
                                                                     ELSE r.deadlineIn
<1>1. Upserted(r, path) = PendingRow(Debounce, deadline, r.paths \cup {path})
  BY DEF Upserted
<1>2. deadline \in 0 .. MaxWait /\ Debounce \in 0 .. Debounce
      /\ r.paths \cup {path} \in SUBSET SyncPath
  BY RowFields, TimeAssumption
<1>3. r.status = Pending /\ r.deadlineIn > 0 => deadline = r.deadlineIn
  BY Statuses, RowFields DEF ShouldResetDeadline
<1> HIDE DEF deadline
<1>4. PendingRow(Debounce, deadline, r.paths \cup {path}) \in RowType
  BY <1>2, NewRows
<1> QED
  BY <1>1, <1>3, <1>4 DEF PendingRow

LEMMA UpsertStep ==
  ASSUME IInv, NEW c \in Caller, UpsertRefreshTask(c)
  PROVE  StepKeeps
<1> DEFINE k == Head(caller[c].todo)
           new == Upserted(row[k], PathOf[k])
<1>1. caller[c] \in Calls /\ caller[c].todo \in Seq(Key) /\ caller[c].todo # <<>>
  BY DEF UpsertRefreshTask, IInv, TypeInv, CallerTypes, Calls
<1>2. k \in Key /\ Tail(caller[c].todo) \in Seq(Key)
  BY <1>1
<1>3. /\ row \in Tables /\ change \in [Key -> Knowledge] /\ quiet \in [Key -> 0 .. Debounce]
      /\ up /\ up' = up
      /\ row' = [row EXCEPT ![k] = new]
      /\ change' = [change EXCEPT ![k] = "dirty"]
      /\ quiet' = [quiet EXCEPT ![k] = Debounce]
  BY DEF UpsertRefreshTask, IInv, TypeInv
<1>4. CallerTypes'
  <2>1. CASE Tail(caller[c].todo) # <<>>
    <3>1. caller' = [caller EXCEPT ![c].todo = Tail(caller[c].todo)]
      BY <2>1 DEF UpsertRefreshTask
    <3>2. [caller[c] EXCEPT !.todo = Tail(caller[c].todo)] \in Calls
      BY <1>1, <1>2 DEF Calls
    <3> QED
      BY <2>1, <3>1, <3>2, <1>1 DEF IInv, TypeInv, CallerTypes, Calls
  <2>2. CASE Tail(caller[c].todo) = <<>>
    <3>1. Goes(c, "reconcile") \/ Goes(c, "query")
      BY <2>2 DEF UpsertRefreshTask
    <3> QED
      BY <3>1, GoesFacts
  <2> QED
    BY <2>1, <2>2
<1>5. row[k] \in RowType /\ PathOf[k] \in SyncPath
  BY <1>2, InvFacts, KeyAssumption
<1>6. /\ new \in RowType
      /\ new.status = Pending
      /\ new.paths = row[k].paths \cup {PathOf[k]}
      /\ new.refreshIn = Debounce
      /\ row[k].status = Pending /\ row[k].deadlineIn > 0 => new.deadlineIn = row[k].deadlineIn
  BY <1>5, UpsertedRow
<1> HIDE DEF k, new
<1>7. TypeInv'
  <2>1. "dirty" \in Knowledge /\ Debounce \in 0 .. Debounce
    BY TimeAssumption DEF Knowledge
  <2>2. row' \in Tables /\ change' \in [Key -> Knowledge] /\ quiet' \in [Key -> 0 .. Debounce]
    BY <1>2, <1>3, <1>6, <2>1 DEF Tables
  <2> QED
    BY <1>4, <2>2 DEF UpsertRefreshTask, wakeVars, IInv, TypeInv, WakeTypes, ScanTypes
<1>8. Own(row')
  BY <1>2, <1>3, <1>6, Statuses DEF IInv, Own, Tables, Key
<1>9. \A u \in Key : /\ u # k => row'[u] = row[u] /\ change'[u] = change[u] /\ quiet'[u] = quiet[u]
                     /\ u # k => CoverIn(row', u) = CoverIn(row, u)
  BY <1>2, <1>3 DEF Tables, CoverIn
<1>10. row'[k] = new /\ change'[k] = "dirty" /\ quiet'[k] = Debounce /\ CoverIn(row', k) = k
  BY <1>2, <1>3, <1>6 DEF Tables, CoverIn
<1>11. ChangeInv'
  <2> SUFFICES ASSUME NEW u \in Key
               PROVE  Backed(up, row', change'[u], quiet'[u], u)
    BY <1>3 DEF ChangeInv
  <2>1. CASE u = k
    BY <1>6, <1>10, <2>1, TimeAssumption DEF Backed, StandsFor
  <2>2. CASE u # k
    <3>1. ASSUME NEW x \in Key, StandsFor(row, quiet[u], x, u)
          PROVE  StandsFor(row', quiet[u], x, u)
      BY <1>6, <1>9, <1>10, <3>1, InvFacts DEF StandsFor
    <3>2. row[CoverIn(row, u)].status = Pending => row'[CoverIn(row, u)].status = Pending
      BY <1>6, <1>9, <1>10, CoverIsKey
    <3> QED
      BY <1>9, <2>2, <3>1, <3>2, CoverIsKey, InvFacts DEF Backed
  <2> QED
    BY <2>1, <2>2
<1>12. DebounceStep
  BY <1>9, <1>10 DEF DebounceStep
<1>13. DeadlineStep
  <2> SUFFICES ASSUME NEW u \in Key, change[u] = "dirty", ~BeginsAnew(u), DeadlineOf(u) > 0
               PROVE  DeadlineOf(u)' <= DeadlineOf(u)
    BY DEF DeadlineStep
  <2>1. /\ row[CoverIn(row, u)].status = Pending
        /\ CoverIn(row, u) \in Key
        /\ DeadlineOf(u) = row[CoverIn(row, u)].deadlineIn
        /\ DeadlineOf(u) \in Nat
    BY <1>3, InvFacts DEF Backed, DeadlineOf
  <2>2. row'[CoverIn(row, u)].deadlineIn = row[CoverIn(row, u)].deadlineIn
    BY <1>6, <1>9, <1>10, <2>1
  <2>3. CoverIn(row', u) = CoverIn(row, u)
    <3>1. CASE u = k
      <4>1. row[k].status = Pending
        BY <1>6, <1>10, <3>1 DEF BeginsAnew, IsPending
      <4> QED
        BY <1>10, <3>1, <4>1 DEF CoverIn
    <3> QED
      BY <1>9, <3>1
  <2> QED
    BY <2>1, <2>2, <2>3, CoverNext
<1> QED
  BY <1>7, <1>8, <1>11, <1>12, <1>13 DEF StepKeeps, IInv

\* A call begins, asks for the next check, and sets the timer.
LEMMA CallSteps ==
  ASSUME IInv, NEW c \in Caller,
         \/ RequestEmbyRefreshTargets(c)
         \/ CallerQueries(c)
         \/ CallerSchedules(c)
  PROVE  StepKeeps
<1>1. CASE RequestEmbyRefreshTargets(c)
  <2>1. PICK targets \in Request, groups \in BOOLEAN :
          caller' = [caller EXCEPT ![c] = [NoCall EXCEPT !.step = "upsert", !.todo = targets,
                                                        !.groups = groups]]
    BY <1>1 DEF RequestEmbyRefreshTargets
  <2>2. targets \in Seq(Key) /\ targets # <<>>
    BY KeyAssumption
  <2>3. LET r == [NoCall EXCEPT !.step = "upsert", !.todo = targets, !.groups = groups]
        IN  r \in Calls /\ r.todo = targets
    BY <2>2, CallFacts DEF Calls
  <2>4. CallerTypes'
    BY <2>1, <2>2, <2>3 DEF IInv, TypeInv, CallerTypes
  <2> QED
    BY <1>1, <2>4, NoRowStep DEF RequestEmbyRefreshTargets, rowVars, wakeVars,
                               IInv, TypeInv, WakeTypes, ScanTypes
<1>2. CASE CallerQueries(c)
  <2>1. NextCheck(row) \in Nat \cup {NoTimer}
    BY NextCheckFacts DEF IInv, TypeInv
  <2>2. caller' = [caller EXCEPT ![c] = [NoCall EXCEPT !.step = "set", !.next = NextCheck(row)]]
    BY <1>2 DEF CallerQueries
  <2>3. LET r == [NoCall EXCEPT !.step = "set", !.next = NextCheck(row)]
        IN  r \in Calls /\ r.step = "set"
    BY <2>1, CallFacts DEF Calls
  <2>4. CallerTypes'
    BY <2>2, <2>3 DEF IInv, TypeInv, CallerTypes
  <2> QED
    BY <1>2, <2>4, NoRowStep DEF CallerQueries, rowVars, wakeVars,
                               IInv, TypeInv, WakeTypes, ScanTypes
<1>3. CASE CallerSchedules(c)
  <2>1. CallerTypes'
    BY <1>3, GoesFacts DEF CallerSchedules
  <2>2. caller[c].next \in Nat \cup {NoTimer}
    BY DEF IInv, TypeInv, CallerTypes, Calls
  <2>3. WakeTypes'
    BY <1>3, <2>2, SetNextTimerFacts DEF CallerSchedules, IInv, TypeInv, WakeTypes
  <2> QED
    BY <1>3, <2>1, <2>3, NoRowStep DEF CallerSchedules, rowVars, IInv, TypeInv, ScanTypes
<1> QED
  BY <1>1, <1>2, <1>3

LEMMA CallerReconcilesStep ==
  ASSUME IInv, NEW c \in Caller, CallerReconciles(c)
  PROVE  StepKeeps
<1>1. CallerTypes'
  BY GoesFacts DEF CallerReconciles
<1>2. row' = Reconciled(WithoutExpired(row))
  BY DEF CallerReconciles, ReconcilePendingEmbyRefreshTasks
<1>3. GiveUp({k \in Key : IsPending(k) /\ row[k].deadlineIn = 0})
  BY DEF CallerReconciles, ReconcilePendingEmbyRefreshTasks
<1>4. row' \in Tables
  BY <1>2, ExpiredRows, Regroup DEF IInv, TypeInv
<1>5. TypeInv'
  BY <1>1, <1>3, <1>4, GiveUpTypes DEF CallerReconciles, wakeVars, IInv, TypeInv,
                                      WakeTypes, ScanTypes
<1>6. Alike(row', Reconciled(WithoutExpired(row)))
  BY <1>2 DEF Alike
<1> QED
  BY <1>3, <1>5, <1>6, ReconcileStep DEF CallerReconciles

\* Syncs and downloads, the timer, and a scanner that wakes up or rests write
\* no row.
LEMMA OtherSteps ==
  ASSUME IInv,
         \/ \E p \in SyncPath : PathStep(p)
         \/ DownloadsIdle
         \/ TimerFires
         \/ ScannerWakes
         \/ ScannerEnds
  PROVE  StepKeeps
<1>1. CASE (\E p \in SyncPath : PathStep(p)) \/ DownloadsIdle \/ TimerFires
  <2>1. UNCHANGED <<row, change, quiet, up, caller, scan>> /\ WakeTypes'
    BY <1>1 DEF PathStep, WorkStarts, SyncEnds, DownloadChanges, DownloadsIdle, TimerFires,
                rowVars, wakeVars, IInv, TypeInv, WakeTypes
  <2> QED
    BY <2>1, NoRowStep DEF rowVars, IInv, TypeInv, CallerTypes, ScanTypes
<1>2. CASE ScannerWakes
  <2>1. ScanTypes' /\ wake' \in BOOLEAN
    BY <1>2 DEF ScannerWakes, Resting, ScanTypes, IInv, TypeInv, WakeTypes
  <2> QED
    BY <1>2, <2>1, NoRowStep DEF ScannerWakes, rowVars, IInv, TypeInv, WakeTypes, CallerTypes
<1>3. CASE ScannerEnds
  <2>1. ScanTypes'
    BY <1>3 DEF ScannerEnds, Resting, ScanTypes
  <2>2. NextCheck(row) \in Nat \cup {NoTimer}
    BY NextCheckFacts DEF IInv, TypeInv
  <2>3. wake' \in BOOLEAN
    BY <1>3 DEF ScannerEnds, ScheduleNext
  <2>4. WakeTypes'
    BY <1>3, <2>2, <2>3, SetNextTimerFacts DEF ScannerEnds, ScheduleNext, IInv, TypeInv, WakeTypes
  <2> QED
    BY <1>3, <2>1, <2>4, NoRowStep DEF ScannerEnds, rowVars, IInv, TypeInv, CallerTypes
<1> QED
  BY <1>1, <1>2, <1>3

LEMMA ClearStep ==
  ASSUME IInv, ClearDownloadPendingTasks
  PROVE  StepKeeps
<1>1. PICK gone \in SUBSET Key :
        /\ \A k \in gone : IsPending(k)
        /\ row' = [k \in Key |-> IF k \in gone THEN Ended(row[k]) ELSE row[k]]
        /\ GiveUp(gone)
  <2>1. \A paths : InScope(paths) \in SUBSET Key /\ \A k \in InScope(paths) : IsPending(k)
    BY DEF InScope
  <2> QED
    BY <2>1 DEF ClearDownloadPendingTasks
<1>2. row' \in Tables
  BY <1>1, InvFacts, NewRows DEF Tables
<1>3. TypeInv'
  BY <1>1, <1>2, GiveUpTypes DEF ClearDownloadPendingTasks, IInv, TypeInv, WakeTypes,
                                CallerTypes, ScanTypes
<1> QED
  BY <1>1, <1>3, GiveUpStep DEF ClearDownloadPendingTasks

LEMMA FlushSteps ==
  ASSUME IInv, BatcherFlushes \/ ScannerFlushes
  PROVE  StepKeeps
<1>1. Flush /\ UNCHANGED <<change, quiet, up, caller>>
  BY DEF BatcherFlushes, ScannerFlushes
<1>2. CallerTypes' /\ ScanTypes'
  BY <1>1 DEF BatcherFlushes, ScannerFlushes, IInv, TypeInv, CallerTypes, ScanTypes
<1> QED
  BY <1>1, <1>2, FlushStep

\* What the scanner notes in a row.
LEMMA NotedRow ==
  ASSUME NEW r \in RowType, NEW new,
         new \in {[r EXCEPT !.seen = TRUE], [r EXCEPT !.seen = FALSE], [r EXCEPT !.checked = TRUE]}
  PROVE  /\ new \in RowType
         /\ new.status = r.status
         /\ new.paths = r.paths
         /\ new.refreshIn = r.refreshIn
         /\ new.deadlineIn = r.deadlineIn
BY DEF RowType

LEMMA SelectStep ==
  ASSUME IInv, ScannerSelects
  PROVE  StepKeeps
<1> DEFINE rows == Reconciled(WithoutExpired(row))
           due == {k \in Key : rows[k].status = Pending /\ rows[k].refreshIn = 0}
<1>1. rows \in Tables
  BY ExpiredRows, Regroup DEF IInv, TypeInv
<1>2. GiveUp({k \in Key : IsPending(k) /\ row[k].deadlineIn = 0})
  BY DEF ScannerSelects
<1>3. /\ up /\ up' = up
      /\ row' = [k \in Key |-> [rows[k] EXCEPT !.seen = (k \in due)]]
      /\ scan' = [scan EXCEPT !.pc = "check", !.batch = [k \in due |-> rows[k].paths]]
  BY DEF ScannerSelects, At
<1> HIDE DEF rows, due
<1>4. \A k \in Key : rows[k] \in RowType
  BY <1>1 DEF Tables
<1>5. ASSUME NEW k \in Key
      PROVE  /\ row'[k] \in RowType
             /\ row'[k].status = rows[k].status
             /\ row'[k].paths = rows[k].paths
             /\ row'[k].refreshIn = rows[k].refreshIn
             /\ row'[k].deadlineIn = rows[k].deadlineIn
  <2>1. row'[k] = [rows[k] EXCEPT !.seen = (k \in due)]
    BY <1>3
  <2>2. CASE k \in due
    <3>1. row'[k] = [rows[k] EXCEPT !.seen = TRUE]
      BY <2>1, <2>2
    <3> QED
      BY <1>4, <3>1, NotedRow
  <2>3. CASE k \notin due
    <3>1. row'[k] = [rows[k] EXCEPT !.seen = FALSE]
      <4>1. (k \in due) = FALSE
        BY <2>3
      <4> QED
        BY <2>1, <4>1, Zenon
    <3> QED
      BY <1>4, <3>1, NotedRow
  <2> QED
    BY <2>2, <2>3
<1>6. row' = [k \in Key |-> row'[k]]
  BY <1>3
<1>7. row' \in Tables /\ Alike(row', rows)
  BY <1>5, <1>6 DEF Tables, Alike
<1>8. ScanTypes'
  BY <1>3 DEF IInv, TypeInv, ScanTypes
<1>9. TypeInv'
  BY <1>2, <1>7, <1>8, GiveUpTypes DEF ScannerSelects, wakeVars, IInv, TypeInv, WakeTypes,
                                      CallerTypes
<1> QED
  BY <1>2, <1>3, <1>7, <1>9, ReconcileStep DEF rows

LEMMA CheckStep ==
  ASSUME IInv, NEW k \in Key, ScannerChecks(k)
  PROVE  StepKeeps
<1>1. ScanTypes'
  BY DEF ScannerChecks, IInv, TypeInv, ScanTypes
<1>2. row' = row \/ row' = [row EXCEPT ![k].checked = TRUE]
  BY DEF ScannerChecks
<1>3. row \in Tables /\ \A x \in Key : row[x] \in RowType
  BY InvFacts DEF IInv, TypeInv
<1>4. /\ row' \in Tables
      /\ \A x \in Key : /\ row'[x].status = row[x].status
                        /\ row'[x].paths = row[x].paths
                        /\ row'[x].refreshIn = row[x].refreshIn
                        /\ row'[x].deadlineIn = row[x].deadlineIn
  <2>1. CASE row' = row
    BY <1>3, <2>1
  <2>2. CASE row' = [row EXCEPT ![k].checked = TRUE]
    <3> DEFINE new == [row[k] EXCEPT !.checked = TRUE]
    <3>1. /\ new \in RowType
          /\ new.status = row[k].status
          /\ new.paths = row[k].paths
          /\ new.refreshIn = row[k].refreshIn
          /\ new.deadlineIn = row[k].deadlineIn
      BY <1>3, NotedRow
    <3>2. row' = [row EXCEPT ![k] = new]
      BY <2>2
    <3> HIDE DEF new
    <3> QED
      BY <1>3, <3>1, <3>2 DEF Tables
  <2> QED
    BY <1>2, <2>1, <2>2
<1>5. UNCHANGED <<change, quiet, up, caller, wake, timer>>
  BY DEF ScannerChecks, wakeVars
<1>6. TypeInv'
  BY <1>1, <1>4, <1>5 DEF IInv, TypeInv, WakeTypes, CallerTypes
<1>7. \A x \in Key : row'[x].deadlineIn <= row[x].deadlineIn
  BY <1>4, InvFacts, RowFields
<1> QED
  BY <1>4, <1>5, <1>6, <1>7, RetimeStep

LEMMA ClaimStep ==
  ASSUME IInv, ScannerClaims
  PROVE  StepKeeps
<1> DEFINE k == scan.task
           served == {u \in Covered(k) : change[u] = "dirty"}
<1>1. k \in Key /\ up /\ up' = up /\ row \in Tables
  BY DEF ScannerClaims, At, IInv, TypeInv, ScanTypes
<1>2. ScanTypes'
  <2>1. ScanTypes
    BY DEF IInv, TypeInv
  <2>2. CASE Claimable(k)
    BY <1>1, <2>1, <2>2 DEF ScannerClaims, ScanTypes
  <2>3. CASE ~Claimable(k)
    BY <2>1, <2>3 DEF ScannerClaims, NextTask, ScanTypes
  <2> QED
    BY <2>2, <2>3
<1>3. UNCHANGED <<up, caller, wake, timer>>
  BY DEF ScannerClaims, wakeVars
<1>4. CASE ~Claimable(k)
  <2>1. UNCHANGED rowVars
    BY <1>4 DEF ScannerClaims
  <2> QED
    BY <1>2, <1>3, <2>1, NoRowStep DEF rowVars, IInv, TypeInv, WakeTypes, CallerTypes
<1>5. CASE Claimable(k)
  <2>1. /\ row' = [row EXCEPT ![k].status = Refreshing, ![k].seen = FALSE]
        /\ change' = [u \in Key |-> IF u \in served THEN "serving" ELSE change[u]]
        /\ quiet' = [u \in Key |-> IF u \in served THEN 0 ELSE quiet[u]]
    BY <1>5 DEF ScannerClaims
  <2>2. row[k].status = Pending /\ row[k].refreshIn = 0
    BY <1>5 DEF Claimable, IsPending
  <2>3. \A u \in Key : u \in served <=> CoverIn(row, u) = k /\ change[u] = "dirty"
    BY InvFacts DEF Covered
  <2> HIDE DEF k, served
  <2>4. /\ row' \in Tables
        /\ row'[k].status = Refreshing
        /\ row'[k].paths = row[k].paths
        /\ row'[k].refreshIn = row[k].refreshIn
        /\ row'[k].deadlineIn = row[k].deadlineIn
        /\ \A x \in Key \ {k} : row'[x] = row[x]
    BY <1>1, <2>1 DEF Tables, RowType
  <2>5. /\ \A u \in Key : u \in served => change'[u] = "serving" /\ quiet'[u] = 0
        /\ \A u \in Key : u \notin served => change'[u] = change[u] /\ quiet'[u] = quiet[u]
    BY <2>1
  <2>6. TypeInv'
    <3>1. "serving" \in Knowledge /\ 0 \in 0 .. Debounce
      BY TimeAssumption DEF Knowledge
    <3>2. change' \in [Key -> Knowledge] /\ quiet' \in [Key -> 0 .. Debounce]
      BY <2>1, <3>1, InvFacts
    <3> QED
      BY <1>2, <1>3, <2>4, <3>2 DEF IInv, TypeInv, WakeTypes, CallerTypes
  <2>7. Own(row')
    BY <1>1, <2>2, <2>4, Statuses DEF IInv, Own, Key
  <2>8. \A u \in Key : CoverIn(row, u) # k => CoverIn(row', u) = CoverIn(row, u)
    BY <2>2, <2>4 DEF CoverIn
  <2>9. ASSUME NEW u \in Key, NEW q, NEW x \in Key, StandsFor(row, q, x, u)
        PROVE  StandsFor(row', q, x, u)
    BY <2>4, <2>9, Statuses DEF StandsFor
  <2>10. ASSUME NEW u \in Key
         PROVE  Backed(up, row', change'[u], quiet'[u], u)
    <3>1. CASE u \in served
      <4>1. CoverIn(row, u) = k /\ StandsFor(row, quiet[u], k, u) /\ quiet[u] = 0
        BY <1>1, <2>2, <2>3, <3>1, InvFacts DEF Backed, StandsFor
      <4>2. StandsFor(row', 0, k, u)
        BY <1>1, <2>9, <4>1
      <4>3. k = u \/ CoverIn(row', u) = k
        BY <2>2, <2>4, <4>1 DEF CoverIn
      <4> QED
        BY <1>1, <2>5, <3>1, <4>2, <4>3 DEF Backed
    <3>2. CASE u \notin served /\ CoverIn(row, u) = k
      <4>1. change[u] # "dirty"
        BY <2>3, <3>2
      <4>2. k = u \/ CoverIn(row', u) = k
        BY <2>2, <2>4, <3>2 DEF CoverIn
      <4> QED
        BY <1>1, <2>5, <2>9, <3>2, <4>1, <4>2, InvFacts DEF Backed
    <3>3. CASE u \notin served /\ CoverIn(row, u) # k
      <4>1. CoverIn(row', u) = CoverIn(row, u) /\ CoverIn(row, u) \in Key
        BY <2>8, <3>3, CoverIsKey
      <4>2. row'[CoverIn(row, u)] = row[CoverIn(row, u)]
        BY <2>4, <3>3, <4>1
      <4> QED
        BY <1>1, <2>5, <2>9, <3>3, <4>1, <4>2, InvFacts DEF Backed
    <3> QED
      BY <3>1, <3>2, <3>3
  <2>11. DebounceStep
    <3> SUFFICES ASSUME NEW u \in Key, change[u] = "dirty", u \in served
                 PROVE  quiet[u] = 0
      BY <2>5 DEF DebounceStep
    <3> QED
      BY <1>1, <2>2, <2>3, InvFacts DEF Backed, StandsFor
  <2>12. DeadlineStep
    <3> SUFFICES ASSUME NEW u \in Key, change[u] = "dirty", change'[u] = "dirty"
                 PROVE  DeadlineOf(u)' = DeadlineOf(u) /\ DeadlineOf(u) \in Nat
      BY DEF DeadlineStep
    <3>1. CoverIn(row, u) # k
      BY <2>3, <2>5
    <3> QED
      BY <2>4, <2>8, <3>1, InvFacts, CoverNext DEF DeadlineOf
  <2> QED
    BY <1>3, <2>6, <2>7, <2>10, <2>11, <2>12 DEF StepKeeps, IInv, ChangeInv
<1> QED
  BY <1>4, <1>5

\* Emby has answered: only a row that is refreshing ends.
LEMMA RefreshStep ==
  ASSUME IInv, ScannerRefreshes
  PROVE  StepKeeps
<1> DEFINE t == scan.task
<1>1. t \in Key /\ up /\ up' = up /\ row \in Tables /\ change \in [Key -> Knowledge]
  BY DEF ScannerRefreshes, At, IInv, TypeInv, ScanTypes
<1>2. /\ change' = [u \in Key |-> IF change[u] = "serving" THEN "clean" ELSE change[u]]
      /\ row' = IF row[t].status = Refreshing THEN [row EXCEPT ![t] = Ended(row[t])] ELSE row
      /\ UNCHANGED <<quiet, caller, wake, timer>>
  BY DEF ScannerRefreshes, Mark, wakeVars
<1>3. ScanTypes'
  BY DEF ScannerRefreshes, NextTask, IInv, TypeInv, ScanTypes
<1>4. Ended(row[t]) \in RowType /\ Ended(row[t]).status = Over /\ Ended(row[t]).paths = row[t].paths
  BY <1>1, InvFacts, NewRows
<1> HIDE DEF t
<1>5. /\ row' \in Tables
      /\ \A x \in Key : /\ row'[x].paths = row[x].paths
                        /\ row[x].status = Pending <=> row'[x].status = Pending
                        /\ row[x].status # Refreshing => row'[x] = row[x]
  BY <1>1, <1>2, <1>4, Statuses DEF Tables
<1>6. \A u \in Key : /\ change'[u] \in {"clean", "dirty"}
                     /\ change'[u] # "clean" => change[u] = "dirty"
  BY <1>1, <1>2 DEF Knowledge
<1>7. change' \in [Key -> Knowledge]
  BY <1>1, <1>2 DEF Knowledge
<1>8. TypeInv'
  BY <1>1, <1>2, <1>3, <1>5, <1>7 DEF IInv, TypeInv, WakeTypes, CallerTypes
<1>9. Own(row')
  BY <1>5, Statuses DEF IInv, Own, Key
<1>10. \A u \in Key : CoverIn(row', u) = CoverIn(row, u) /\ CoverIn(row, u) \in Key
  BY <1>5, CoverIsKey DEF CoverIn
<1>11. \A u \in Key : change[u] = "dirty" =>
          /\ row[CoverIn(row, u)].status = Pending
          /\ StandsFor(row, quiet[u], CoverIn(row, u), u)
          /\ row'[CoverIn(row', u)] = row[CoverIn(row, u)]
  BY <1>1, <1>5, <1>10, Statuses, InvFacts DEF Backed
<1>12. ChangeInv'
  <2> SUFFICES ASSUME NEW u \in Key
               PROVE  Backed(up, row', change'[u], quiet[u], u)
    BY <1>1, <1>2 DEF ChangeInv
  <2>1. CASE change'[u] = "clean"
    BY <2>1 DEF Backed
  <2>2. CASE change'[u] # "clean"
    BY <1>6, <1>10, <1>11, <2>2 DEF Backed, StandsFor
  <2> QED
    BY <2>1, <2>2
<1>13. DebounceStep
  BY <1>6 DEF DebounceStep
<1>14. DeadlineStep
  BY <1>11, InvFacts, CoverNext DEF DeadlineStep, DeadlineOf
<1> QED
  BY <1>8, <1>9, <1>12, <1>13, <1>14 DEF StepKeeps, IInv

\* At the start, what was refreshing waits again.
LEMMA ResetRow ==
  ASSUME NEW r \in RowType
  PROVE  /\ Reset(r) \in RowType
         /\ Reset(r).paths = r.paths
         /\ Reset(r).deadlineIn = r.deadlineIn
         /\ r.status = Refreshing => Reset(r).status = Pending /\ Reset(r).refreshIn = Debounce
         /\ r.status # Refreshing => Reset(r) = r
<1>1. Debounce \in 0 .. Debounce /\ r.deadlineIn \in 0 .. MaxWait /\ r.paths \in SUBSET SyncPath
  BY RowFields, TimeAssumption
<1>2. PendingRow(Debounce, r.deadlineIn, r.paths) \in RowType
  BY <1>1, NewRows
<1> QED
  BY <1>2 DEF Reset, PendingRow

LEMMA BootStep ==
  ASSUME IInv, Boot
  PROVE  StepKeeps
<1> DEFINE rows == [k \in Key |-> Reset(row[k])]
<1>1. /\ ~up /\ up' = TRUE
      /\ row' = rows
      /\ timer' = NextCheck(rows)
      /\ wake' = HasDueUnchecked(rows)
      /\ UNCHANGED <<change, quiet, caller, scan>>
  BY DEF Boot, Restart
<1>2. \A k \in Key : rows[k] = Reset(row[k]) /\ row[k] \in RowType
  BY InvFacts
<1>3. rows \in Tables
  BY <1>2, ResetRow DEF Tables
<1> HIDE DEF rows
<1>4. TypeInv'
  <2>1. NextCheck(rows) \in Nat \cup {NoTimer}
    BY <1>3, NextCheckFacts
  <2>2. HasDueUnchecked(rows) \in BOOLEAN
    BY DEF HasDueUnchecked
  <2> QED
    BY <1>1, <1>3, <2>1, <2>2 DEF IInv, TypeInv, WakeTypes, CallerTypes, ScanTypes
<1>5. \A k \in Key : /\ row'[k].paths = row[k].paths
                     /\ row'[k].deadlineIn = row[k].deadlineIn
                     /\ row[k].status = Refreshing =>
                          row'[k].status = Pending /\ row'[k].refreshIn = Debounce
                     /\ row[k].status # Refreshing => row'[k] = row[k]
  BY <1>1, <1>2, ResetRow
<1>6. Own(row')
  BY <1>5, Statuses DEF IInv, Own, Key
<1>7. ChangeInv'
  <2> SUFFICES ASSUME NEW u \in Key, change[u] # "clean"
               PROVE  /\ change[u] = "dirty"
                      /\ row'[CoverIn(row', u)].status = Pending
                      /\ StandsFor(row', quiet[u], CoverIn(row', u), u)
    BY <1>1 DEF ChangeInv, Backed
  <2>1. change[u] = "dirty" /\ quiet[u] <= Debounce
    BY <1>1, InvFacts, TimeAssumption DEF Backed, Knowledge
  <2>2. PICK k \in {u, CoverIn(row, u)} : StandsFor(row, quiet[u], k, u)
    BY InvFacts DEF Backed
  <2>3. k \in Key /\ row'[k].status = Pending /\ StandsFor(row', quiet[u], k, u)
    BY <1>5, <2>1, <2>2, CoverIsKey DEF StandsFor
  <2>4. CASE row'[u].status = Pending
    <3>1. CoverIn(row', u) = u
      BY <2>4 DEF CoverIn
    <3>2. CASE k = u
      BY <2>1, <2>3, <3>1, <3>2
    <3>3. CASE k # u
      <4>1. u \in Item /\ row[u].status # Pending
        BY <2>2, <3>3 DEF CoverIn
      <4>2. row[u].status = Refreshing
        BY <1>5, <2>4, <4>1
      <4>3. PathOf[u] \in row[u].paths
        BY <4>1, <4>2, Statuses DEF IInv, Own
      <4> QED
        BY <1>5, <2>1, <2>4, <3>1, <4>2, <4>3 DEF StandsFor
    <3> QED
      BY <3>2, <3>3
  <2>5. CASE row'[u].status # Pending
    <3>1. row'[u] = row[u]
      BY <1>5, <2>5
    <3>2. CoverIn(row', u) = CoverIn(row, u)
      BY <3>1 DEF CoverIn
    <3>3. k = CoverIn(row, u)
      BY <2>2, <2>3, <2>5
    <3> QED
      BY <2>1, <2>3, <3>2, <3>3
  <2> QED
    BY <2>4, <2>5
<1>8. DebounceStep
  BY <1>1 DEF DebounceStep
<1>9. DeadlineStep
  <2> SUFFICES ASSUME NEW u \in Key, ~BeginsAnew(u)
               PROVE  DeadlineOf(u)' <= DeadlineOf(u)
    BY DEF DeadlineStep
  <2>1. CoverIn(row', u) = CoverIn(row, u) /\ CoverIn(row, u) \in Key
    BY <1>5, CoverIsKey, Statuses DEF BeginsAnew, IsPending, CoverIn
  <2> QED
    BY <1>5, <2>1, InvFacts, CoverNext DEF DeadlineOf
<1> QED
  BY <1>4, <1>6, <1>7, <1>8, <1>9 DEF StepKeeps, IInv

\* The process ends, a call of Emby with it.
LEMMA CrashStep ==
  ASSUME IInv, Crash
  PROVE  StepKeeps
<1>1. /\ up' = FALSE /\ row' = row /\ quiet' = quiet
      /\ change' = [k \in Key |-> IF change[k] = "serving" THEN "dirty" ELSE change[k]]
      /\ wake' = FALSE /\ timer' = NoTimer
      /\ caller' = [c \in Caller |-> NoCall]
      /\ scan' = Resting
  BY DEF Crash
<1>2. TypeInv'
  <2>1. CallerTypes'
    BY <1>1, CallFacts DEF CallerTypes, NoCall
  <2>2. ScanTypes'
    BY <1>1 DEF ScanTypes, Resting
  <2>3. WakeTypes'
    BY <1>1 DEF WakeTypes
  <2>4. change' \in [Key -> Knowledge]
    BY <1>1, InvFacts DEF Knowledge
  <2> QED
    BY <1>1, <2>1, <2>2, <2>3, <2>4 DEF IInv, TypeInv
<1>3. \A u \in Key : change'[u] \in {"clean", "dirty"} /\ (change'[u] = "clean" <=> change[u] = "clean")
  BY <1>1, InvFacts DEF Knowledge
<1>4. ChangeInv'
  BY <1>1, <1>3, InvFacts DEF ChangeInv, Backed, StandsFor, CoverIn
<1>5. DebounceStep
  BY <1>3 DEF DebounceStep
<1>6. DeadlineStep
  BY <1>1, InvFacts, CoverNext DEF DeadlineStep, DeadlineOf
<1> QED
  BY <1>1, <1>2, <1>4, <1>5, <1>6 DEF StepKeeps, IInv

-----------------------------------------------------------------------------
(* The scanner wakes up in time.                                           *)

LEMMA WakeNext ==
  ASSUME NEW rows \in Tables, row' = rows, NEW k \in Key, IsPending(k)',
         wake' = (wake \/ HasDueUnchecked(rows)) \/ wake' = HasDueUnchecked(rows),
         NextCheck(rows) # NoTimer => timer' # NoTimer /\ timer' <= NextCheck(rows),
         timer' \in Nat \cup {NoTimer}
  PROVE  \/ wake'
         \/ timer' # NoTimer /\ timer' <= row'[k].refreshIn
         \/ row'[k].checked
<1>1. rows[k].status = Pending /\ rows[k].refreshIn \in Nat
  BY RowFields DEF IsPending, Tables
<1>2. CASE rows[k].refreshIn > 0
  <2>1. NextCheck(rows) \in Nat /\ NextCheck(rows) <= rows[k].refreshIn /\ NextCheck(rows) # NoTimer
    BY <1>1, <1>2, NextCheckFacts DEF NoTimer
  <2>2. timer' \in Nat /\ timer' # NoTimer /\ timer' <= NextCheck(rows)
    BY <2>1
  <2> QED
    BY <1>1, <2>1, <2>2
<1>3. CASE rows[k].refreshIn = 0
  <2>1. rows[k].checked \/ HasDueUnchecked(rows)
    BY <1>1, <1>3 DEF HasDueUnchecked
  <2> QED
    BY <2>1
<1> QED
  BY <1>1, <1>2, <1>3

\* While a goroutine is at work, and right after the scanner was woken, there
\* is nothing to show.
LEMMA WakeBusy ==
  ASSUME \/ ~up'
         \/ wake' = TRUE
         \/ scan'.pc # "idle"
         \/ \E c \in Caller : caller'[c].step # "idle"
  PROVE  WakesInTime'
BY DEF WakesInTime

LEMMA WakeSame ==
  ASSUME WakesInTime, UNCHANGED <<up, wake, timer, caller>>, scan' = scan,
         \A k \in Key : row'[k] = row[k]
  PROVE  WakesInTime'
BY DEF WakesInTime, IsPending

LEMMA WakeCalls ==
  ASSUME IInv, NEW c \in Caller, CallerStep(c)
  PROVE  WakesInTime'
<1>1. \A s, r : caller' = [caller EXCEPT ![c] = r] => caller'[c] = r
  BY DEF IInv, TypeInv, CallerTypes
<1>2. \A s : Goes(c, s) => caller'[c].step = s
  BY <1>1 DEF Goes, NoCall
<1>3. CASE RequestEmbyRefreshTargets(c)
  <2>1. caller'[c].step = "upsert"
    BY <1>1, <1>3 DEF RequestEmbyRefreshTargets, NoCall
  <2> QED
    BY <2>1, WakeBusy
<1>4. CASE UpsertRefreshTask(c)
  <2>1. CASE Tail(caller[c].todo) # <<>>
    <3>1. caller' = [caller EXCEPT ![c] = [caller[c] EXCEPT !.todo = Tail(caller[c].todo)]]
      BY <1>4, <2>1 DEF UpsertRefreshTask
    <3>2. caller'[c].step = "upsert"
      BY <1>1, <1>4, <3>1 DEF UpsertRefreshTask
    <3> QED
      BY <3>2, WakeBusy
  <2>2. CASE Tail(caller[c].todo) = <<>>
    <3>1. Goes(c, "reconcile") \/ Goes(c, "query")
      BY <1>4, <2>2 DEF UpsertRefreshTask
    <3> QED
      BY <1>2, <3>1, WakeBusy
  <2> QED
    BY <2>1, <2>2
<1>5. CASE CallerReconciles(c)
  BY <1>2, <1>5, WakeBusy DEF CallerReconciles
<1>6. CASE CallerQueries(c)
  <2>1. caller'[c].step = "set"
    BY <1>1, <1>6 DEF CallerQueries, NoCall
  <2> QED
    BY <2>1, WakeBusy
<1>7. CASE CallerSchedules(c)
  BY <1>7, WakeBusy DEF CallerSchedules
<1> QED
  BY <1>3, <1>4, <1>5, <1>6, <1>7 DEF CallerStep

LEMMA WakeScanner ==
  ASSUME IInv, ScannerStep
  PROVE  WakesInTime'
<1>1. DOMAIN scan = {"pc", "batch", "task"} /\ row \in Tables /\ timer \in Nat \cup {NoTimer}
  BY DEF IInv, TypeInv, ScanTypes, WakeTypes
<1>2. CASE ScannerEnds
  <2>1. row' = row /\ NextCheck(row) \in Nat \cup {NoTimer}
    BY <1>1, <1>2, NextCheckFacts DEF ScannerEnds, rowVars
  <2>2. /\ timer' \in Nat \cup {NoTimer}
        /\ NextCheck(row) # NoTimer => timer' # NoTimer /\ timer' <= NextCheck(row)
    BY <1>1, <1>2, <2>1, SetNextTimerFacts DEF ScannerEnds, ScheduleNext
  <2>3. wake' = (wake \/ HasDueUnchecked(row))
    BY <1>2 DEF ScannerEnds, ScheduleNext
  <2>4. \A k \in Key : IsPending(k)' =>
          \/ wake'
          \/ timer' # NoTimer /\ timer' <= row'[k].refreshIn
          \/ row'[k].checked
    BY <1>1, <2>1, <2>2, <2>3, WakeNext
  <2> QED
    BY <2>4 DEF WakesInTime
<1>3. CASE ScannerWakes \/ ScannerFlushes \/ ScannerSelects \/ (\E k \in Key : ScannerChecks(k))
           \/ ScannerClaims \/ ScannerRefreshes
  <2>1. scan'.pc \in {"flush", "flushed", "check", "claim", "refresh"}
    <3>1. CASE ScannerWakes
      BY <3>1 DEF ScannerWakes, Resting
    <3>2. CASE ScannerFlushes \/ ScannerSelects
      BY <1>1, <3>2 DEF ScannerFlushes, ScannerSelects
    <3>3. CASE \E k \in Key : ScannerChecks(k)
      <4>1. PICK k \in Key : ScannerChecks(k)
        BY <3>3
      <4>2. CASE IsReady(k)
        BY <4>1, <4>2 DEF ScannerChecks
      <4>3. CASE ~IsReady(k)
        <5>1. scan' = [scan EXCEPT !.batch = Without(@, k)]
          BY <4>1, <4>3 DEF ScannerChecks
        <5>2. scan'.pc = scan.pc
          BY <1>1, <5>1
        <5> QED
          BY <4>1, <5>2 DEF ScannerChecks, At
      <4> QED
        BY <4>2, <4>3
    <3>4. CASE ScannerClaims
      <4>1. \/ scan' = [scan EXCEPT !.pc = "refresh"]
            \/ scan' = [scan EXCEPT !.pc = "check", !.task = NoTask]
        BY <3>4 DEF ScannerClaims, NextTask
      <4> QED
        BY <1>1, <4>1
    <3>5. CASE ScannerRefreshes
      BY <1>1, <3>5 DEF ScannerRefreshes, NextTask
    <3> QED
      BY <1>3, <3>1, <3>2, <3>3, <3>4, <3>5
  <2> QED
    BY <2>1, WakeBusy
<1> QED
  BY <1>2, <1>3 DEF ScannerStep

LEMMA WakeTick ==
  ASSUME IInv, WakesInTime, Tick
  PROVE  WakesInTime'
<1>1. \A k \in Key : /\ row'[k].status = row[k].status
                     /\ row'[k].refreshIn = Less(row[k].refreshIn)
                     /\ row'[k].checked = row[k].checked
                     /\ row[k].refreshIn \in Nat
  <2>1. \A k \in Key : /\ row[k] \in RowType /\ row[k].refreshIn \in Nat
                       /\ row'[k] = [row[k] EXCEPT !.refreshIn = Less(@), !.deadlineIn = Less(@)]
    BY InvFacts, RowFields DEF Tick
  <2> QED
    BY <2>1 DEF RowType
<1>2. timer \in Nat \cup {NoTimer} /\ timer' = Less(timer)
  BY DEF Tick, IInv, TypeInv, WakeTypes
<1>3. \A c \in Caller : caller'[c].step = caller[c].step
  BY DEF Tick, IInv, TypeInv, CallerTypes, Calls
<1>4. UNCHANGED <<up, wake, scan>>
  BY DEF Tick
<1>5. \A k \in Key : timer # NoTimer /\ timer <= row[k].refreshIn =>
                       timer' # NoTimer /\ timer' <= row'[k].refreshIn
  BY <1>1, <1>2, LessFacts DEF NoTimer
<1> QED
  BY <1>1, <1>3, <1>4, <1>5 DEF WakesInTime, IsPending

LEMMA WakeBoot ==
  ASSUME IInv, Boot
  PROVE  WakesInTime'
<1> DEFINE rows == [k \in Key |-> Reset(row[k])]
<1>1. rows \in Tables
  BY InvFacts, ResetRow DEF Tables
<1>2. row' = rows /\ timer' = NextCheck(rows) /\ wake' = HasDueUnchecked(rows)
  BY DEF Boot, Restart
<1> HIDE DEF rows
<1>3. NextCheck(rows) \in Nat \cup {NoTimer}
  BY <1>1, NextCheckFacts
<1>4. NextCheck(rows) # NoTimer => timer' # NoTimer /\ timer' <= NextCheck(rows)
  BY <1>2, <1>3 DEF NoTimer
<1>5. \A k \in Key : IsPending(k)' =>
        \/ wake'
        \/ timer' # NoTimer /\ timer' <= row'[k].refreshIn
        \/ row'[k].checked
  BY <1>1, <1>2, <1>3, <1>4, WakeNext
<1> QED
  BY <1>5 DEF WakesInTime

LEMMA WakeStep ==
  ASSUME IInv, WakesInTime, [Next]_vars
  PROVE  WakesInTime'
<1>1. CASE \E c \in Caller : CallerStep(c)
  BY <1>1, WakeCalls
<1>2. CASE ScannerStep
  BY <1>2, WakeScanner
<1>3. CASE (\E p \in SyncPath : PathStep(p)) \/ UNCHANGED vars
  <2>1. UNCHANGED <<up, wake, timer, caller, scan, row>>
    BY <1>3 DEF PathStep, WorkStarts, SyncEnds, DownloadChanges, rowVars, wakeVars, vars
  <2> QED
    BY <2>1, WakeSame
<1>4. CASE DownloadsIdle \/ ClearDownloadPendingTasks \/ TimerFires \/ Crash
  BY <1>4, WakeBusy DEF DownloadsIdle, ClearDownloadPendingTasks, TimerFires, Crash
<1>5. CASE BatcherFlushes
  <2>1. CASE wake' = TRUE
    BY <2>1, WakeBusy
  <2>2. CASE wake' # TRUE
    <3>1. InScope(event) = {}
      BY <1>5, <2>2 DEF BatcherFlushes, Flush
    <3>2. UNCHANGED <<up, wake, timer, caller, scan>> /\ \A k \in Key : row'[k] = row[k]
      BY <1>5, <3>1 DEF BatcherFlushes, Flush, wakeVars
    <3> QED
      BY <3>2, WakeSame
  <2> QED
    BY <2>1, <2>2
<1>6. CASE Tick
  BY <1>6, WakeTick
<1>7. CASE Boot
  BY <1>7, WakeBoot
<1> QED
  BY <1>1, <1>2, <1>3, <1>4, <1>5, <1>6, <1>7 DEF Next

-----------------------------------------------------------------------------
(* The theorems.                                                           *)

LEMMA InitKeeps == Init => IInv /\ WakesInTime
<1> SUFFICES ASSUME Init
             PROVE  IInv /\ WakesInTime
  OBVIOUS
<1>1. /\ row = [k \in Key |-> NoRow] /\ change = [k \in Key |-> "clean"]
      /\ quiet = [k \in Key |-> 0]
      /\ wake = FALSE /\ timer = NoTimer /\ up = FALSE
      /\ caller = [c \in Caller |-> NoCall] /\ scan = Resting
  BY DEF Init
<1>2. row \in Tables
  BY <1>1, NewRows DEF Tables
<1>3. quiet \in [Key -> 0 .. Debounce] /\ change \in [Key -> Knowledge]
  BY <1>1, TimeAssumption DEF Knowledge
<1>4. CallerTypes
  BY <1>1, CallFacts DEF CallerTypes, NoCall
<1>5. WakeTypes /\ ScanTypes
  BY <1>1 DEF WakeTypes, ScanTypes, Resting
<1>6. Own(row)
  BY <1>1 DEF Own, NoRow, Key
<1>7. ChangeInv
  BY <1>1 DEF ChangeInv, Backed
<1>8. WakesInTime
  BY <1>1 DEF WakesInTime
<1> QED
  BY <1>2, <1>3, <1>4, <1>5, <1>6, <1>7, <1>8 DEF IInv, TypeInv

LEMMA StepInv ==
  ASSUME IInv, Next
  PROVE  StepKeeps
<1>1. CASE \E c \in Caller : CallerStep(c)
  BY <1>1, CallSteps, UpsertStep, CallerReconcilesStep DEF CallerStep
<1>2. CASE ScannerStep
  BY <1>2, OtherSteps, FlushSteps, SelectStep, CheckStep, ClaimStep, RefreshStep DEF ScannerStep
<1>3. CASE (\E p \in SyncPath : PathStep(p)) \/ DownloadsIdle \/ TimerFires
  BY <1>3, OtherSteps
<1>4. CASE ClearDownloadPendingTasks \/ BatcherFlushes
  BY <1>4, ClearStep, FlushSteps
<1>5. CASE Tick \/ Boot \/ Crash
  BY <1>5, TickStep, BootStep, CrashStep
<1> QED
  BY <1>1, <1>2, <1>3, <1>4, <1>5 DEF Next

LEMMA StutterKeeps ==
  ASSUME IInv, UNCHANGED vars
  PROVE  IInv'
<1>1. TypeInv' /\ UNCHANGED rowVars /\ up' = up
  BY DEF vars, rowVars, IInv, TypeInv, WakeTypes, CallerTypes, ScanTypes
<1> QED
  BY <1>1, NoRowStep DEF StepKeeps

\* The inductive invariant: types, the sync paths of the rows, and what stands
\* for every change.
THEOREM Invariance == Spec => []IInv
<1>1. IInv /\ [Next]_vars => IInv'
  BY StepInv, StutterKeeps DEF StepKeeps
<1> QED
  BY <1>1, InitKeeps, PTL DEF Spec

\* Upserts, grouping by library, put-offs by downloads, the claim, the mark
\* after Emby's answer and the reset at a start never lose a change: a row
\* with the sync path of its item stands for it until a refresh that began
\* after it, across ends of the process.
THEOREM NothingIsForgotten == Spec => []NothingForgotten
BY Invariance, Consequence, PTL

\* ScheduleNextEmbyLibraryRefreshCheck, whose answers may come late, never
\* leaves a pending row without a timer or a wake-up when all are at rest.
THEOREM WakeUpInTime == Spec => []WakesInTime
<1>1. IInv /\ WakesInTime /\ [Next]_vars => WakesInTime'
  BY WakeStep
<1> QED
  BY <1>1, InitKeeps, Invariance, PTL DEF Spec

\* claimEmbyRefreshTaskForExecution takes no row before the debounce of each
\* change it stands for is over.
THEOREM DebounceIsKept == Spec => DebounceKept
<1>1. IInv /\ [Next]_vars => [DebounceStep]_vars
  BY StepInv DEF StepKeeps
<1> QED
  BY <1>1, Invariance, PTL DEF Spec, DebounceKept

\* No step but the end of a change's row moves away the time by which the
\* coordinator gives it up or has it refreshed.
THEOREM DeadlineIsKept == Spec => DeadlineKept
<1>1. IInv /\ [Next]_vars => [DeadlineStep]_vars
  BY StepInv DEF StepKeeps
<1> QED
  BY <1>1, Invariance, PTL DEF Spec, DeadlineKept
=============================================================================
