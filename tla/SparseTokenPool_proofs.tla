------------------------ MODULE SparseTokenPool_proofs ------------------------
(***************************************************************************)
(* The token pool, in two parts.                                           *)
(*                                                                         *)
(* The host side (IInv), for any sessions, layers, pages and slots, also   *)
(* when the steps of sessions overlap: pages have one owner, the history   *)
(* is in the host or on its way there, and what a step holds is given      *)
(* back.  This part does not depend on the maps between rows and slots.    *)
(*                                                                         *)
(* The device side: the two maps of a layer are each other's inverse and   *)
(* their slots hold current records (DInv); the caches and the candidate   *)
(* rows are what their callers take them for (CInv); and what the host     *)
(* believes of a layer without a look at its maps is true (GInv).  All     *)
(* three rest on IInv.  DInv and GInv hold where the steps of sessions do  *)
(* not overlap (SerialSteps) and a caller keeps at most one snapshot; see  *)
(* RollbackRefused and Restore for what breaks them otherwise.             *)
(***************************************************************************)
EXTENDS SparseTokenPool, PoolLemmas

-----------------------------------------------------------------------------
(* The inductive invariant of the host side. *)

LayerFields ==
  {"h2d", "d2h", "priority", "free", "clock", "lease", "resident", "plan", "records", "host"}

Ticketed ==
  [owner : Session, layer : Layer, rows : UNION {[D -> Record] : D \in SUBSET Row}]

(* A live session has the pages of its capacity, any other has none. *)
AllocationOK ==
  /\ session \in [Session -> {"new", "live", "released"}]
  /\ pages \in [Session -> Seq(Page)]
  /\ freePages \in Seq(Page)
  /\ \A s \in Session :
       IF s \in Live THEN Len(pages[s]) = PagesFor(s) ELSE pages[s] = <<>>
  /\ PagesOwnedOnce

HostEnd(c) == IF c.transientStart # None THEN c.transientStart ELSE c.written

(* The ends of a step, in and out of one; a refused rollback may leave     *)
(* written behind length.                                                  *)
EndsOK(c, capacity) ==
  /\ c \in CacheState
  /\ c.length <= c.written
  /\ c.stepEnd # None => c.written <= c.stepEnd
  /\ c.transientStart # None => c.transientStart = c.length /\ c.stepEnd # None
  /\ c.length <= capacity /\ HostEnd(c) <= capacity
  /\ c.transientStart = None /\ c.stepEnd # None => c.stepEnd <= capacity

CacheOK ==
  /\ DOMAIN cache = Layer
  /\ \A l \in Layer :
       /\ DOMAIN cache[l] = Session
       /\ \A s \in Session :
            /\ EndsOK(cache[l][s], Capacity[s])
            /\ s \notin Live => cache[l][s] = EmptyCache

(* The workspace is prepared only where the layer's transient rows are     *)
(* free or the session's own, and then nobody else can take them.          *)
WorkspaceOK ==
  prefetch # None =>
    /\ prefetch.owner \in Session /\ prefetch.layer \in Layer
    /\ DOMAIN prefetch = {"owner", "layer", "order", "claimed", "limit"}
    /\ transient[prefetch.layer] \in {None, prefetch.owner}

(* What EXCEPT, Head and Append need to know of the other variables. *)
LayerShaped(L) == DOMAIN L = LayerFields /\ DOMAIN L.host = Row

SnapshotShaped(S) ==
  S # None =>
    /\ DOMAIN S = {"topology", "valid", "layers", "length"}
    /\ S.length \in [Layer -> [Session -> Nat]]
    /\ DOMAIN S.layers = Layer
    /\ \A l \in Layer : DOMAIN S.layers[l] = LayerFields

Shaped ==
  /\ DOMAIN pool = Layer
  /\ \A l \in Layer : LayerShaped(pool[l])
  /\ transient \in [Layer -> Session \cup {None}]
  /\ writes \in Seq(Ticketed)
  /\ \A k \in DOMAIN snapshots : SnapshotShaped(snapshots[k])

IInv ==
  /\ AllocationOK /\ CacheOK /\ WorkspaceOK /\ Shaped
  /\ HostKeepsHistory /\ LeasesHaveAStep

(* A session has a page for every index below its capacity. *)
LEMMA IndexHasPage ==
  ASSUME NEW s \in Session, NEW i \in 0 .. Capacity[s] - 1
  PROVE  i \in Nat /\ (i \div PageTokens) + 1 \in 1 .. PagesFor(s)
<1> DEFINE d == PageTokens
           n == Capacity[s] + d - 1
<1>1. Capacity[s] \in Nat \ {0} /\ d \in Nat \ {0} /\ n \in Nat /\ i \in Nat
  BY PoolAssumption
<1>2. i \div d \in Nat /\ (i \div d) * d <= i
  BY <1>1, Division
<1>3. n \div d \in Nat /\ n < ((n \div d) + 1) * d
  BY <1>1, Division
<1>4. PagesFor(s) = n \div d
  BY DEF PagesFor
<1> HIDE DEF d, n
<1>5. n = Capacity[s] + d - 1 /\ i < Capacity[s]
  BY <1>1 DEF n, d
<1>6. SUFFICES ASSUME ~((i \div d) + 1 <= n \div d) PROVE FALSE
  BY <1>1, <1>2, <1>3, <1>4, <1>6 DEF d
<1>7. (n \div d) + 1 <= (i \div d) + 1
  BY <1>2, <1>3, <1>6
<1>8. ((n \div d) + 1) * d <= ((i \div d) + 1) * d
  BY <1>1, <1>2, <1>3, <1>7, TimesMonotone
<1>9. ((i \div d) + 1) * d = (i \div d) * d + d
  BY <1>1, <1>2
<1>10. n < (i \div d) * d + d
  BY <1>1, <1>2, <1>3, TimesMonotone, <1>8, <1>9
<1> QED
  BY <1>1, <1>2, <1>5, <1>10, TimesMonotone

-----------------------------------------------------------------------------
(* Addresses. *)

(* The page of an index. *)
PageOf(s, i) == pages[s][(i \div PageTokens) + 1]

(* The row of an index of a live session lies in one of its pages, and so  *)
(* in the arena.                                                           *)
LEMMA IndexHasRow ==
  ASSUME AllocationOK, NEW s \in Live, NEW i \in 0 .. Capacity[s] - 1
  PROVE  /\ PageOf(s, i) \in Page /\ PageOf(s, i) \in Range(pages[s])
         /\ HostRow(s, i) = PageOf(s, i) * PageTokens + (i % PageTokens)
         /\ i % PageTokens \in 0 .. PageTokens - 1
         /\ HostRow(s, i) \in Row
<1>1. s \in Session /\ pages[s] \in Seq(Page) /\ Len(pages[s]) = PagesFor(s)
  BY DEF AllocationOK, Live
<1>2. i \in Nat /\ (i \div PageTokens) + 1 \in 1 .. PagesFor(s)
  BY <1>1, IndexHasPage
<1>3. DOMAIN pages[s] = 1 .. PagesFor(s) /\ PageOf(s, i) \in Page
  BY <1>1, <1>2, LenProperties, ElementOfSeq DEF PageOf
<1>4. PageOf(s, i) \in Range(pages[s])
  BY <1>2, <1>3 DEF PageOf, Range
<1>5. PageTokens \in Nat \ {0} /\ Rows \in Nat
  BY PoolAssumption, SlotsAssumption
<1>6. i % PageTokens \in 0 .. PageTokens - 1
  BY <1>2, <1>5, Remainder
<1>7. HostRow(s, i) = PageOf(s, i) * PageTokens + (i % PageTokens)
  BY DEF HostRow, PageOf
<1>8. PageOf(s, i) * PageTokens + (i % PageTokens) \in Row
  <2> DEFINE p == PageOf(s, i)
             x == i % PageTokens
             d == PageTokens
             n == Rows \div d
  <2>1. p \in Nat /\ n \in Nat /\ p + 1 <= n /\ n * d <= Rows /\ d \in Nat \ {0}
    BY <1>3, <1>5, Division DEF Page
  <2>2. x \in 0 .. d - 1
    BY <1>6
  <2> HIDE DEF p, x, d, n
  <2>3. (p + 1) * d <= n * d /\ p * d \in Nat /\ n * d \in Nat
    BY <2>1, TimesMonotone
  <2>4. (p + 1) * d = p * d + d
    BY <2>1
  <2>5. p * d + x \in Nat /\ p * d + x < Rows
    BY <1>5, <2>1, <2>2, <2>3, <2>4
  <2> QED
    BY <1>5, <2>5 DEF Row, p, x, d
<1> QED
  BY <1>3, <1>4, <1>6, <1>7, <1>8

(* No two tokens of live sessions share a host row. *)
LEMMA RowsAreApart ==
  ASSUME AllocationOK, NEW s \in Live, NEW i \in 0 .. Capacity[s] - 1,
         NEW t \in Live, NEW j \in 0 .. Capacity[t] - 1, HostRow(s, i) = HostRow(t, j)
  PROVE  s = t /\ i = j
<1>1. s \in Session /\ t \in Session
  BY DEF Live
<1>2. /\ PageOf(s, i) \in Page /\ PageOf(s, i) \in Range(pages[s])
      /\ HostRow(s, i) = PageOf(s, i) * PageTokens + (i % PageTokens)
      /\ i % PageTokens \in 0 .. PageTokens - 1
  BY IndexHasRow
<1>3. /\ PageOf(t, j) \in Page /\ PageOf(t, j) \in Range(pages[t])
      /\ HostRow(t, j) = PageOf(t, j) * PageTokens + (j % PageTokens)
      /\ j % PageTokens \in 0 .. PageTokens - 1
  BY IndexHasRow
<1>4. PageTokens \in Nat \ {0} /\ \A p \in Page : p \in Nat
  BY PoolAssumption, SlotsAssumption, Division DEF Page
<1>5. PageOf(s, i) = PageOf(t, j) /\ i % PageTokens = j % PageTokens
  <2>1. PageOf(s, i) \in Nat /\ PageOf(t, j) \in Nat
    BY <1>2, <1>3, <1>4
  <2>2. PageOf(s, i) * PageTokens + (i % PageTokens)
          = PageOf(t, j) * PageTokens + (j % PageTokens)
    BY <1>2, <1>3
  <2> QED
    BY <1>2, <1>3, <1>4, <2>1, <2>2, RowsDecompose, SMTT(40)
<1>6. s = t
  BY <1>1, <1>2, <1>3, <1>5 DEF AllocationOK, PagesOwnedOnce
<1>7. /\ i \in Nat /\ (i \div PageTokens) + 1 \in 1 .. PagesFor(s)
      /\ j \in Nat /\ (j \div PageTokens) + 1 \in 1 .. PagesFor(s)
  BY <1>1, <1>6, IndexHasPage
<1>8. /\ DOMAIN pages[s] = 1 .. PagesFor(s) /\ IsInjective(pages[s])
  BY <1>1, LenProperties DEF AllocationOK, PagesOwnedOnce
<1>9. (i \div PageTokens) + 1 = (j \div PageTokens) + 1
  BY <1>5, <1>6, <1>7, <1>8 DEF PageOf, IsInjective
<1>10. i \div PageTokens \in Nat /\ j \div PageTokens \in Nat
  BY <1>4, <1>7, Division
<1>11. i \div PageTokens = j \div PageTokens
  BY <1>9, <1>10
<1>12. i = (i \div PageTokens) * PageTokens + (i % PageTokens)
       /\ j = (j \div PageTokens) * PageTokens + (j % PageTokens)
  BY <1>4, <1>7, Remainder
<1> QED
  BY <1>5, <1>6, <1>11, <1>12, Zenon

-----------------------------------------------------------------------------
(* What an operation on a layer leaves alone. *)

SameHost(L, M) == DOMAIN M = DOMAIN L /\ M.host = L.host

(* Giving up the proofs keeps the host side. *)
LEMMA InvalidatedKeeps ==
  ASSUME NEW L, LayerShaped(L)
  PROVE  SameHost(L, Invalidated(L)) /\ SameHost(L, WithoutPlan(L))
  BY DEF LayerShaped, LayerFields, SameHost, Invalidated, WithoutPlan

(* So does a lease that changes hands. *)
LEMMA LeasedKeeps ==
  ASSUME NEW L, LayerShaped(L), NEW s
  PROVE  SameHost(L, Leased(L, s))
<1>1. SameHost(L, [Invalidated(L) EXCEPT !.lease = s])
  BY InvalidatedKeeps DEF LayerShaped, LayerFields, SameHost
<1> QED
  BY <1>1 DEF Leased, SameHost

(* A new residency proof. *)
LEMMA CertifiedKeeps ==
  ASSUME NEW L, LayerShaped(L), NEW s, NEW end
  PROVE  SameHost(L, Certified(L, s, end))
  BY DEF LayerShaped, LayerFields, SameHost, Certified

(* A clock event, also one that normalises the priorities. *)
LEMMA StampedKeeps ==
  ASSUME NEW L, LayerShaped(L), NEW slots
  PROVE  SameHost(L, Stamped(L, slots))
<1>1. SameHost(L, Normalised(L))
  BY DEF LayerShaped, LayerFields, SameHost, Normalised
<1>2. LayerShaped(Normalised(L))
  BY <1>1 DEF LayerShaped, SameHost
<1>3. SameHost(Normalised(L), Stamped(L, slots))
  BY <1>2 DEF LayerShaped, LayerFields, SameHost, Stamped
<1> QED
  BY <1>1, <1>3 DEF SameHost

(* An eviction. *)
LEMMA EvictedKeeps ==
  ASSUME NEW L, LayerShaped(L), NEW slots
  PROVE  SameHost(L, Evicted(L, slots))
  BY DEF LayerShaped, LayerFields, SameHost, Evicted

(* Moving records into slots. *)
LEMMA InstalledKeeps ==
  ASSUME NEW L, LayerShaped(L), NEW rows, NEW chosen, NEW records
  PROVE  SameHost(L, Installed(L, rows, chosen, records))
  BY DEF LayerShaped, LayerFields, SameHost, Installed

(* Rows that give up their slots. *)
LEMMA ReleasedKeeps ==
  ASSUME NEW L, LayerShaped(L), NEW rows
  PROVE  SameHost(L, Released(L, rows))
<1>1. SameHost(L, Invalidated(L)) /\ LayerShaped(Invalidated(L))
  BY InvalidatedKeeps DEF LayerShaped, SameHost
<1> QED
  BY <1>1 DEF LayerShaped, LayerFields, SameHost, Released

(* The end of a prefetch. *)
LEMMA FinalizedKeeps ==
  ASSUME NEW L, LayerShaped(L), NEW claimed
  PROVE  SameHost(L, Finalized(L, claimed))
<1>1. SameHost(L, Invalidated(L)) /\ LayerShaped(Invalidated(L))
  BY InvalidatedKeeps DEF LayerShaped, SameHost
<1> DEFINE N == Stamped(Invalidated(L), claimed)
<1>2. SameHost(L, N) /\ LayerShaped(N)
  BY <1>1, StampedKeeps DEF LayerShaped, SameHost
<1>3. Finalized(L, claimed) = [N EXCEPT !.free = Filled(@, claimed, FALSE)]
  BY DEF Finalized
<1> HIDE DEF N
<1> QED
  BY <1>2, <1>3 DEF LayerShaped, LayerFields, SameHost

(* A new append plan. *)
LEMMA PlanningKeeps ==
  ASSUME NEW L, LayerShaped(L), NEW s, NEW start, NEW count
  PROVE  SameHost(L, Planning(L, s, start, count))
  BY DEF LayerShaped, LayerFields, SameHost, Planning

(* Aging touches the records of one session, from an index on. *)
LEMMA SupersededKeeps ==
  ASSUME NEW L, LayerShaped(L), NEW s, NEW first
  PROVE  /\ LayerShaped(Superseded(L, s, first))
         /\ \A r \in Row : \A t \in Session, i \in Nat :
              L.host[r] = <<t, i>> /\ (t # s \/ ~(i >= first))
                => Superseded(L, s, first).host[r] = <<t, i>>
<1>1. DOMAIN Superseded(L, s, first) = LayerFields
      /\ Superseded(L, s, first).host = Aged(L.host, s, first)
  BY DEF LayerShaped, LayerFields, Superseded
<1>2. DOMAIN Aged(L.host, s, first) = Row
  BY DEF LayerShaped, Aged
<1>3. ASSUME NEW r \in Row, NEW t \in Session, NEW i \in Nat,
             L.host[r] = <<t, i>>, t # s \/ ~(i >= first)
      PROVE  Aged(L.host, s, first)[r] = <<t, i>>
  BY <1>3 DEF LayerShaped, Aged
<1> QED
  BY <1>1, <1>2, <1>3 DEF LayerShaped

(* The pool as release, rollback and finalisation find it. *)
LEMMA SettledKeeps ==
  ASSUME Shaped, NEW l \in Layer, NEW s
  PROVE  SameHost(pool[l], Settled(l, s)) /\ LayerShaped(Settled(l, s))
<1>1. LayerShaped(pool[l])
  BY DEF Shaped
<1>2. SameHost(pool[l], Leased(pool[l], s)) /\ LayerShaped(Leased(pool[l], s))
  BY <1>1, LeasedKeeps DEF LayerShaped, SameHost
<1>3. SameHost(pool[l], Finalized(Leased(pool[l], s), Claimed(prefetch)))
  BY <1>2, FinalizedKeeps DEF SameHost
<1> QED
  BY <1>1, <1>3 DEF Settled, SameHost, LayerShaped

(* A truncation of session s ages its records from the new end on. *)
LEMMA ShrunkKeeps ==
  ASSUME NEW L, LayerShaped(L), NEW s, NEW first
  PROVE  /\ LayerShaped(Shrunk(L, s, first))
         /\ \A r \in Row : \A t \in Session, i \in Nat :
              L.host[r] = <<t, i>> /\ (t # s \/ ~(i >= first))
                => Shrunk(L, s, first).host[r] = <<t, i>>
<1> DEFINE R == Released(L, HostRows(s, first .. Capacity[s] - 1))
<1>1. SameHost(L, R) /\ LayerShaped(R)
  BY ReleasedKeeps DEF SameHost, LayerShaped
<1>2. Shrunk(L, s, first) = Superseded(R, s, first)
  BY DEF Shrunk
<1> HIDE DEF R
<1> QED
  BY <1>1, <1>2, SupersededKeeps DEF SameHost

(* An append and a recall move records into slots, and nothing else. *)
LEMMA AppendedKeeps ==
  ASSUME Shaped, NEW l \in Layer, NEW s, NEW count
  PROVE  /\ SameHost(pool[l], AppendRoom(l, s, count).pool)
         /\ SameHost(pool[l], Appended(l, s, count))
<1> DEFINE start == cache[l][s].written
           L0 == Leased(pool[l], s)
           L == Planning(L0, s, start, count)
           room == AppendRoom(l, s, count)
<1>1. LayerShaped(pool[l])
  BY DEF Shaped
<1>2. SameHost(pool[l], L0) /\ LayerShaped(L0)
  BY <1>1, LeasedKeeps DEF LayerShaped, SameHost
<1>3. SameHost(pool[l], L) /\ LayerShaped(L)
  <2> HIDE DEF L0, start
  <2> QED
    BY <1>2, PlanningKeeps DEF LayerShaped, SameHost
<1>4. \A slots : /\ SameHost(L, Evicted(L, slots))
                 /\ SameHost(L, Invalidated(Evicted(L, slots)))
  <2> HIDE DEF L
  <2>1. SUFFICES ASSUME NEW slots
                 PROVE  /\ SameHost(L, Evicted(L, slots))
                        /\ SameHost(L, Invalidated(Evicted(L, slots)))
    OBVIOUS
  <2>2. SameHost(L, Evicted(L, slots)) /\ LayerShaped(Evicted(L, slots))
    BY <1>3, EvictedKeeps DEF LayerShaped, SameHost
  <2> QED
    BY <2>2, InvalidatedKeeps DEF SameHost
<1>5. SameHost(L, room.pool)
  <2> DEFINE taken == SubSeq(L.plan.order, start + 1, start + count)
             found == SubSeq(Available(L, HostRows(s, New(cache[l][s], count))), 1, count)
  <2>1. \/ room = [planned |-> TRUE, chosen |-> taken, pool |-> Evicted(L, Range(taken))]
        \/ room = [planned |-> FALSE, chosen |-> found,
                   pool |-> Invalidated(Evicted(L, Range(found)))]
    BY Zenon DEF AppendRoom
  <2> HIDE DEF room, taken, found, L
  <2> QED
    BY <1>4, <2>1
<1>6. SameHost(pool[l], room.pool) /\ LayerShaped(room.pool)
  <2> HIDE DEF L, room
  <2> QED
    BY <1>3, <1>5 DEF SameHost, LayerShaped
<1> DEFINE rows == [k \in 1 .. count |-> HostRow(s, cache[l][s].written + k - 1)]
           record == [k \in 1 .. count |-> <<s, cache[l][s].written + k - 1>>]
           I == Installed(room.pool, rows, room.chosen, record)
           N == Stamped(I, Range(room.chosen))
           end == cache[l][s].written + count
<1>7. Appended(l, s, count) = IF room.planned THEN Certified(N, s, end) ELSE WithoutPlan(N)
  BY DEF Appended
<1>8. SameHost(pool[l], I) /\ LayerShaped(I)
  <2> HIDE DEF room, rows, record
  <2> QED
    BY <1>6, InstalledKeeps DEF SameHost, LayerShaped
<1>9. SameHost(pool[l], N) /\ LayerShaped(N)
  <2> HIDE DEF I, room
  <2> QED
    BY <1>8, StampedKeeps DEF SameHost, LayerShaped
<1>10. SameHost(pool[l], Certified(N, s, end)) /\ SameHost(pool[l], WithoutPlan(N))
  <2> HIDE DEF N, end
  <2> QED
    BY <1>9, CertifiedKeeps, InvalidatedKeeps DEF SameHost
<1> QED
  <2> HIDE DEF N, end, room
  <2> QED
    BY <1>6, <1>7, <1>10 DEF room

(* The protection of the selected rows. *)
LEMMA ProtectedKeeps ==
  ASSUME Shaped, NEW l \in Layer, NEW s, NEW rows
  PROVE  SameHost(pool[l], Protected(l, s, rows)) /\ LayerShaped(Protected(l, s, rows))
<1> DEFINE L == Leased(pool[l], s)
<1>1. LayerShaped(pool[l])
  BY DEF Shaped
<1>2. SameHost(pool[l], L) /\ LayerShaped(L)
  BY <1>1, LeasedKeeps DEF LayerShaped, SameHost
<1>3. SameHost(L, Stamped(L, Mapped(L, rows)))
  <2> HIDE DEF L
  <2> QED
    BY <1>2, StampedKeeps
<1>4. Protected(l, s, rows) = Stamped(L, Mapped(L, rows))
  BY DEF Protected
<1> HIDE DEF L
<1> QED
  BY <1>2, <1>3, <1>4 DEF LayerShaped, SameHost

(* A recall reads the host and writes slots only. *)
LEMMA RecalledKeeps ==
  ASSUME Shaped, NEW l \in Layer, NEW s, NEW indices, NEW uncounted
  PROVE  SameHost(pool[l], Recalled(l, s, indices, uncounted))
<1> DEFINE rows == HostRows(s, indices)
           P == Protected(l, s, rows)
           missing == Sorted({i \in indices : P.h2d[HostRow(s, i)] = None})
           wanted == [k \in DOMAIN missing |-> HostRow(s, missing[k])]
           chosen == SubSeq(Available(P, rows), 1, Len(missing))
           E == Evicted(P, Range(chosen))
           fetched == Installed(E, wanted, chosen,
                                [k \in DOMAIN wanted |-> P.host[wanted[k]]])
           I == Invalidated(fetched)
<1>1. SameHost(pool[l], P) /\ LayerShaped(P)
  BY ProtectedKeeps
<1>2. Recalled(l, s, indices, uncounted) =
        IF missing = <<>> /\ ~uncounted THEN Stamped(P, {}) ELSE Stamped(I, Range(chosen))
  BY Zenon DEF Recalled
<1>3. SameHost(pool[l], E) /\ LayerShaped(E)
  <2> HIDE DEF P, chosen
  <2> QED
    BY <1>1, EvictedKeeps DEF LayerShaped, SameHost
<1>4. SameHost(pool[l], fetched) /\ LayerShaped(fetched)
  <2> HIDE DEF P, chosen, E, wanted
  <2> QED
    BY <1>3, InstalledKeeps DEF LayerShaped, SameHost
<1>5. SameHost(pool[l], I) /\ LayerShaped(I)
  <2> HIDE DEF fetched
  <2> QED
    BY <1>4, InvalidatedKeeps DEF LayerShaped, SameHost
<1>6. SameHost(pool[l], Stamped(I, Range(chosen))) /\ SameHost(pool[l], Stamped(P, {}))
  <2> HIDE DEF I, P, chosen
  <2> QED
    BY <1>1, <1>5, StampedKeeps DEF SameHost
<1> QED
  <2> HIDE DEF I, P, chosen, missing
  <2> QED
    BY <1>2, <1>6

-----------------------------------------------------------------------------
(* What the parts of a step keep. *)

(* One session's ends on one layer become c. *)
CacheMoved(l, s, c) ==
  /\ CacheOK' /\ cache'[l][s] = c
  /\ \A m \in Layer, t \in Session : m # l \/ t # s => cache'[m][t] = cache[m][t]

(* One layer of the pool changes. *)
PoolMoved(l) ==
  /\ DOMAIN pool' = Layer
  /\ \A m \in Layer : LayerShaped(pool'[m]) /\ (m # l => pool'[m] = pool[m])

(* No record is aged but those of session s from an index on. *)
HostSpared(l, s, end) ==
  \A r \in Row : \A t \in Session, i \in Nat :
    pool[l].host[r] = <<t, i>> /\ (t # s \/ i < end) => pool'[l].host[r] = <<t, i>>

(* The history stays in the host where no write is added or completed and  *)
(* no record of a history row is aged.                                     *)
LEMMA HostKept ==
  ASSUME HostKeepsHistory, AllocationOK, CacheOK, writes' = writes,
         \A l \in Layer, t \in Live' : \A i \in 0 .. Persistent(l, t)' - 1 :
           /\ t \in Live /\ pages'[t] = pages[t] /\ i \in 0 .. Persistent(l, t) - 1
           /\ \A r \in Row : pool[l].host[r] = <<t, i>> => pool'[l].host[r] = <<t, i>>
  PROVE  HostKeepsHistory'
<1>1. SUFFICES ASSUME NEW l \in Layer, NEW t \in Live', NEW i \in 0 .. Persistent(l, t)' - 1
               PROVE  Eventually(l, HostRow(t, i))' = <<t, i>>
  BY DEF HostKeepsHistory
<1>2. /\ t \in Live /\ pages'[t] = pages[t] /\ i \in 0 .. Persistent(l, t) - 1
      /\ \A r \in Row : pool[l].host[r] = <<t, i>> => pool'[l].host[r] = <<t, i>>
  BY <1>1
<1> DEFINE r == HostRow(t, i)
<1>3. HostRow(t, i)' = r
  BY <1>2 DEF HostRow
<1>4. r \in Row
  BY <1>2, PoolAssumption, IndexHasRow DEF Live, CacheOK, EndsOK, HostEnd, Persistent,
     Transient, CacheState
<1>5. Eventually(l, r) = <<t, i>>
  BY <1>2 DEF HostKeepsHistory
<1> DEFINE to == {k \in DOMAIN writes : writes[k].layer = l /\ r \in DOMAIN writes[k].rows}
<1>6. Eventually(l, r) = IF to = {} THEN pool[l].host[r] ELSE writes[Max(to)].rows[r]
  BY DEF Eventually
<1>7. Eventually(l, HostRow(t, i))'
        = IF to = {} THEN pool'[l].host[r] ELSE writes[Max(to)].rows[r]
  <2> HIDE DEF r
  <2> QED
    BY <1>3 DEF Eventually
<1> HIDE DEF r, to
<1> QED
  BY <1>2, <1>4, <1>5, <1>6, <1>7

(* What becomes of a session's ends on one layer. *)
LEMMA CacheKept ==
  ASSUME CacheOK, NEW l \in Layer, NEW s \in Live, NEW c, EndsOK(c, Capacity[s]),
         Set(l, s, c), session' = session
  PROVE  CacheMoved(l, s, c)
<1>1. s \in Session /\ Live' = Live
  BY DEF Live
<1>2. cache' = [cache EXCEPT ![l][s] = c]
  BY DEF Set
<1>3. DOMAIN cache' = Layer /\ \A m \in Layer : DOMAIN cache'[m] = Session
  BY <1>2 DEF CacheOK
<1>4. cache'[l][s] = c
  BY <1>1, <1>2 DEF CacheOK
<1>5. ASSUME NEW m \in Layer, NEW t \in Session, m # l \/ t # s
      PROVE  cache'[m][t] = cache[m][t]
  BY <1>1, <1>2, <1>5 DEF CacheOK
<1>6. ASSUME NEW m \in Layer, NEW t \in Session
      PROVE  EndsOK(cache'[m][t], Capacity[t]) /\ (t \notin Live' => cache'[m][t] = EmptyCache)
  BY <1>1, <1>4, <1>5 DEF CacheOK
<1>7. CacheOK'
  BY <1>3, <1>6 DEF CacheOK
<1> QED
  BY <1>4, <1>5, <1>7 DEF CacheMoved

(* The allocation is left alone. *)
LEMMA AllocationKept ==
  ASSUME AllocationOK, UNCHANGED allocation
  PROVE  AllocationOK' /\ Live' = Live
<1>1. session' = session /\ pages' = pages /\ freePages' = freePages
  BY DEF allocation
<1>2. Live' = Live
  BY <1>1 DEF Live
<1>3. PagesOwnedOnce'
  BY <1>1, <1>2 DEF AllocationOK, PagesOwnedOnce, Page
<1> QED
  BY <1>1, <1>2, <1>3 DEF AllocationOK, Page, PagesFor

(* An assignment to one layer. *)
LEMMA PoolKept ==
  ASSUME Shaped, NEW l \in Layer, NEW L, LayerShaped(L), pool' = [pool EXCEPT ![l] = L]
  PROVE  PoolMoved(l) /\ pool'[l] = L
  BY DEF Shaped, PoolMoved

(* The workspace stays with its owner, or is given back. *)
WorkspaceStays ==
  prefetch' # None =>
    /\ prefetch # None /\ DOMAIN prefetch' = DOMAIN prefetch
    /\ prefetch'.owner = prefetch.owner /\ prefetch'.layer = prefetch.layer

(* What another session holds is kept with its ends; what the session of   *)
(* the step holds needs a look at its new ends.                            *)
LEMMA LeasesKept ==
  ASSUME IInv, NEW l \in Layer, NEW s \in Live, NEW c,
         UNCHANGED <<allocation, transient>>, WorkspaceStays, CacheMoved(l, s, c),
         c.transientStart # None <=> Transient(l, s),
         Pending(l, s) /\ prefetch' # None => c.stepEnd # None /\ c.written < c.stepEnd
  PROVE  WorkspaceOK' /\ LeasesHaveAStep'
<1>1. /\ Live' = Live /\ transient' = transient /\ cache'[l][s] = c
      /\ \A m \in Layer, t \in Session : m # l \/ t # s => cache'[m][t] = cache[m][t]
  BY AllocationKept DEF IInv, CacheMoved
<1>2. ASSUME prefetch' # None
      PROVE  /\ prefetch # None /\ DOMAIN prefetch' = DOMAIN prefetch
             /\ prefetch'.owner = prefetch.owner /\ prefetch'.layer = prefetch.layer
  BY <1>2 DEF WorkspaceStays
<1>3. WorkspaceOK'
  BY <1>1, <1>2 DEF IInv, WorkspaceOK
<1>4. ASSUME prefetch' # None
      PROVE  /\ prefetch'.owner \in Live'
             /\ cache'[prefetch'.layer][prefetch'.owner].stepEnd # None
             /\ cache'[prefetch'.layer][prefetch'.owner].written
                  < cache'[prefetch'.layer][prefetch'.owner].stepEnd
  <2> DEFINE m == prefetch.layer
             t == prefetch.owner
  <2>1. /\ m \in Layer /\ t \in Session /\ t \in Live
        /\ cache[m][t].stepEnd # None /\ cache[m][t].written < cache[m][t].stepEnd
    BY <1>2, <1>4 DEF IInv, WorkspaceOK, LeasesHaveAStep
  <2>2. CASE m = l /\ t = s
    BY <1>1, <1>2, <1>4, <2>1, <2>2 DEF Pending
  <2>3. CASE m # l \/ t # s
    BY <1>1, <1>2, <1>4, <2>1, <2>3
  <2> QED
    BY <2>2, <2>3
<1>5. ASSUME NEW m \in Layer, NEW t \in Session
      PROVE  transient'[m] = t <=> cache'[m][t].transientStart # None
  BY <1>1 DEF IInv, LeasesHaveAStep, Transient
<1> QED
  BY <1>3, <1>4, <1>5 DEF LeasesHaveAStep, Transient

(* The calls that neither write to the host nor lengthen the history: one  *)
(* layer of the pool and one cache change, and no record that is still in  *)
(* the history is aged.                                                    *)
LEMMA QuietStep ==
  ASSUME IInv, NEW l \in Layer, NEW s \in Live, NEW c,
         UNCHANGED <<allocation, writes>>,
         CacheMoved(l, s, c), HostEnd(c) <= Persistent(l, s), PoolMoved(l),
         HostSpared(l, s, HostEnd(c)),
         transient' \in [Layer -> Session \cup {None}],
         \A k \in DOMAIN snapshots' : SnapshotShaped(snapshots'[k]),
         WorkspaceOK', LeasesHaveAStep'
  PROVE  IInv'
<1>1. AllocationOK' /\ Live' = Live /\ pages' = pages
  BY AllocationKept DEF IInv, allocation
<1>2. Shaped'
  BY DEF IInv, Shaped, SnapshotShaped, LayerShaped, PoolMoved
<1> USE DEF CacheMoved, PoolMoved, HostSpared
<1>3. ASSUME NEW m \in Layer, NEW t \in Live', NEW i \in 0 .. Persistent(m, t)' - 1
      PROVE  /\ t \in Live /\ pages'[t] = pages[t] /\ i \in 0 .. Persistent(m, t) - 1
             /\ \A r \in Row : pool[m].host[r] = <<t, i>> => pool'[m].host[r] = <<t, i>>
  <2>1. t \in Live /\ t \in Session /\ i \in Nat
    BY <1>1 DEF Live
  <2>2. Persistent(m, t)' = HostEnd(cache'[m][t]) /\ Persistent(m, t) = HostEnd(cache[m][t])
    BY DEF Persistent, HostEnd, Transient
  <2>3. HostEnd(cache'[m][t]) \in Nat /\ HostEnd(cache[m][t]) \in Nat
    BY <2>1 DEF IInv, CacheOK, EndsOK, CacheState, HostEnd
  <2>4. CASE m = l /\ t = s
    BY <2>2, <2>3, <2>4, <1>1, <2>1
  <2>5. CASE m = l /\ t # s
    BY <2>1, <2>2, <2>5, <1>1
  <2>6. CASE m # l
    BY <1>1, <2>1, <2>2, <2>6
  <2> QED
    BY <2>4, <2>5, <2>6
<1>4. HostKeepsHistory'
  BY <1>3, HostKept DEF IInv
<1> QED
  BY <1>1, <1>2, <1>4 DEF IInv

(* Where the host side of the layer stays exactly as it is. *)
LEMMA SameHostKeeps ==
  ASSUME IInv, NEW l \in Layer, NEW s \in Live, NEW c,
         UNCHANGED <<allocation, transient, writes, snapshots>>,
         CacheMoved(l, s, c), HostEnd(c) <= Persistent(l, s), PoolMoved(l),
         SameHost(pool[l], pool'[l]),
         WorkspaceOK', LeasesHaveAStep'
  PROVE  IInv'
<1>1. transient' \in [Layer -> Session \cup {None}]
      /\ \A k \in DOMAIN snapshots' : SnapshotShaped(snapshots'[k])
  BY DEF IInv, Shaped
<1>2. pool'[l].host = pool[l].host
  BY DEF SameHost
<1>3. HostSpared(l, s, HostEnd(c))
  BY <1>2 DEF HostSpared
<1> QED
  BY <1>1, <1>3, QuietStep

-----------------------------------------------------------------------------
(* The steps. *)

(* An idle cache, with a new end. *)
LEMMA ShortenedEnds ==
  ASSUME NEW capacity \in Nat, NEW c, EndsOK(c, capacity),
         NEW length \in Nat, length <= c.length
  PROVE  /\ EndsOK(Shortened(c, length), capacity)
         /\ Shortened(c, length).transientStart = None
         /\ Shortened(c, length).stepEnd = None
         /\ HostEnd(Shortened(c, length)) = length
         /\ HostEnd(Shortened(c, length)) <= HostEnd(c)
<1> DEFINE d == Shortened(c, length)
<1>1. /\ d \in CacheState /\ d.length = length /\ d.written = length
      /\ d.stepEnd = None /\ d.transientStart = None
  BY DEF EmptyCache, CacheState, Shortened
<1> HIDE DEF d
<1>2. None \notin Nat
  BY SlotsAssumption
<1>3. c.length \in Nat /\ c.written \in Nat
  BY DEF EndsOK, CacheState
<1>4. HostEnd(d) = length
  BY <1>1 DEF HostEnd
<1>5. length <= HostEnd(c)
  BY <1>3 DEF EndsOK, HostEnd
<1>6. length <= capacity
  BY <1>3 DEF EndsOK
<1>7. EndsOK(d, capacity)
  BY <1>1, <1>2, <1>4, <1>6 DEF EndsOK
<1> QED
  BY <1>1, <1>4, <1>5, <1>7 DEF d

(* What a step may assume of the session's ends. *)
LEMMA EndsOf ==
  ASSUME IInv, NEW l \in Layer, NEW s \in Live
  PROVE  /\ s \in Session /\ EndsOK(cache[l][s], Capacity[s]) /\ cache[l][s] \in CacheState
         /\ cache[l][s].length \in Nat /\ cache[l][s].written \in Nat
         /\ cache[l][s].stepEnd # None => cache[l][s].stepEnd \in Nat
         /\ Persistent(l, s) = HostEnd(cache[l][s])
         /\ Capacity[s] \in Nat \ {0}
  BY PoolAssumption DEF IInv, CacheOK, EndsOK, CacheState, Live, Persistent, HostEnd, Transient

(* Who calls is live. *)
LEMMA CallsLive ==
  ASSUME NEW l, NEW s, MayStep(s) \/ Calls(l, s)
  PROVE  s \in Live
  BY DEF Calls, MayStep

(* A commit turns what was written into the length; the session has no     *)
(* workspace then, since that takes records left to append.                *)
LEMMA CommitKeeps ==
  ASSUME IInv, NEW l \in Layer, NEW s \in Session, Commit(l, s)
  PROVE  IInv'
<1> DEFINE c == cache[l][s]
           d == [c EXCEPT !.length = c.written, !.stepEnd = None]
<1>1. /\ Calls(l, s) /\ Stepping(l, s) /\ ~Transient(l, s) /\ c.written = c.stepEnd
      /\ Set(l, s, d)
      /\ UNCHANGED <<allocation, pool, transient, candidates, prefetch, writes, snapshots>>
  BY DEF Commit
<1>2. s \in Live
  BY <1>1, CallsLive
<1>3. EndsOK(c, Capacity[s]) /\ c \in CacheState /\ Persistent(l, s) = HostEnd(c)
  BY <1>2, EndsOf
<1>4. d \in CacheState /\ d.length = c.written /\ d.written = c.written
      /\ d.stepEnd = None /\ d.transientStart = c.transientStart
  BY <1>3 DEF CacheState
<1>5. c.transientStart = None
  BY <1>1 DEF Transient
<1>6. EndsOK(d, Capacity[s]) /\ HostEnd(d) = c.written /\ HostEnd(c) = c.written
  <2> HIDE DEF c, d
  <2> QED
    BY <1>3, <1>4, <1>5, SlotsAssumption DEF EndsOK, HostEnd, CacheState
<1> HIDE DEF d
<1>7. CacheMoved(l, s, d)
  BY <1>1, <1>2, <1>6, CacheKept DEF IInv, allocation
<1>8. ~Pending(l, s)
  BY <1>1, <1>3 DEF IInv, LeasesHaveAStep, Pending, CacheState
<1>9. WorkspaceOK' /\ LeasesHaveAStep'
  BY <1>1, <1>2, <1>4, <1>5, <1>7, <1>8, LeasesKept DEF Transient, WorkspaceStays
<1>10. SameHost(pool[l], pool'[l]) /\ PoolMoved(l)
  BY <1>1 DEF SameHost, IInv, Shaped, PoolMoved
<1>11. HostEnd(d) <= Persistent(l, s)
  BY <1>3, <1>6 DEF CacheState
<1> QED
  BY <1>1, <1>2, <1>7, <1>9, <1>10, <1>11, SameHostKeeps

(* A refused rollback gives up the step all the same.  It leaves nothing   *)
(* behind: the workspace of the session would have meant that the layer's  *)
(* candidate rows are free or its own, and the rollback not refused.       *)
LEMMA RollbackRefusedKeeps ==
  ASSUME IInv, NEW l \in Layer, NEW s \in Session, RollbackRefused(l, s)
  PROVE  IInv'
<1> DEFINE c == cache[l][s]
           d == [c EXCEPT !.stepEnd = None, !.failed = SerialSteps]
<1>1. /\ MayStep(s) /\ Stepping(l, s) /\ ~Transient(l, s) /\ ~Usable(l, s)
      /\ Set(l, s, d)
      /\ UNCHANGED <<allocation, pool, transient, candidates, prefetch, writes, snapshots>>
  BY DEF RollbackRefused
<1>2. s \in Live
  BY <1>1, CallsLive
<1>3. EndsOK(c, Capacity[s]) /\ c \in CacheState /\ Persistent(l, s) = HostEnd(c)
  BY <1>2, EndsOf
<1>4. d \in CacheState /\ d.length = c.length /\ d.written = c.written
      /\ d.stepEnd = None /\ d.transientStart = c.transientStart
  BY <1>3, PoolAssumption DEF CacheState
<1>5. c.transientStart = None
  BY <1>1 DEF Transient
<1>6. EndsOK(d, Capacity[s]) /\ HostEnd(d) = c.written /\ HostEnd(c) = c.written
  <2> HIDE DEF c, d
  <2> QED
    BY <1>3, <1>4, <1>5, SlotsAssumption DEF EndsOK, HostEnd, CacheState
<1> HIDE DEF d
<1>7. CacheMoved(l, s, d)
  BY <1>1, <1>2, <1>6, CacheKept DEF IInv, allocation
<1>8. ~Pending(l, s)
  BY <1>1 DEF IInv, WorkspaceOK, Pending, Usable
<1>9. WorkspaceOK' /\ LeasesHaveAStep'
  BY <1>1, <1>2, <1>4, <1>5, <1>7, <1>8, LeasesKept DEF Transient, WorkspaceStays
<1>10. SameHost(pool[l], pool'[l]) /\ PoolMoved(l)
  BY <1>1 DEF SameHost, IInv, Shaped, PoolMoved
<1>11. HostEnd(d) <= Persistent(l, s)
  BY <1>3, <1>6 DEF CacheState
<1> QED
  BY <1>1, <1>2, <1>7, <1>9, <1>10, <1>11, SameHostKeeps

(* A session that is in no step holds neither rows nor the workspace. *)
LEMMA IdleHoldsNothing ==
  ASSUME IInv, NEW l \in Layer, NEW s \in Live, ~Stepping(l, s)
  PROVE  /\ ~Pending(l, s) /\ ~Transient(l, s)
         /\ cache[l][s].transientStart = None
<1>1. ~Pending(l, s)
  BY DEF IInv, LeasesHaveAStep, Pending, Stepping
<1>2. EndsOK(cache[l][s], Capacity[s])
  BY EndsOf
<1> QED
  BY <1>1, <1>2 DEF EndsOK, Stepping, Transient

(* Nothing moves in a cache that no step touches. *)
LEMMA CacheStays ==
  ASSUME IInv, NEW l \in Layer, NEW s \in Live, UNCHANGED <<allocation, cache>>
  PROVE  CacheMoved(l, s, cache[l][s])
<1>1. session' = session /\ cache' = cache
  BY DEF allocation
<1> QED
  BY <1>1 DEF CacheMoved, IInv, CacheOK, Live

(* Aging the records of the snapshots keeps their shape. *)
LEMMA AgedSnapshotsShaped ==
  ASSUME Shaped, NEW l \in Layer, NEW s, NEW first
  PROVE  \A k \in DOMAIN AgedSnapshots(l, s, first) :
           SnapshotShaped(AgedSnapshots(l, s, first)[k])
<1> DEFINE A == AgedSnapshots(l, s, first)
<1>1. SUFFICES ASSUME NEW k \in DOMAIN snapshots PROVE SnapshotShaped(A[k])
  BY DEF AgedSnapshots
<1> DEFINE S == snapshots[k]
           T == [S EXCEPT !.layers[l] = Superseded(@, s, first)]
<1>2. A[k] = IF S = None THEN None ELSE T
  BY DEF AgedSnapshots
<1>3. SnapshotShaped(S)
  BY DEF Shaped
<1>4. CASE S = None
  BY <1>2, <1>4 DEF SnapshotShaped
<1>5. CASE S # None
  <2>1. /\ DOMAIN T = DOMAIN S /\ T.length = S.length
        /\ T.layers = [S.layers EXCEPT ![l] = Superseded(S.layers[l], s, first)]
    BY <1>3, <1>5 DEF SnapshotShaped
  <2>2. DOMAIN Superseded(S.layers[l], s, first) = LayerFields
    BY <1>3, <1>5 DEF SnapshotShaped, Superseded
  <2> HIDE DEF S, T, A
  <2> QED
    BY <1>2, <1>3, <1>5, <2>1, <2>2 DEF SnapshotShaped
<1> QED
  BY <1>4, <1>5

(* So does invalidating them. *)
LEMMA InvalidatedSnapshotsShaped ==
  ASSUME Shaped, NEW s, NEW length
  PROVE  \A k \in DOMAIN InvalidatedSnapshots(s, length) :
           SnapshotShaped(InvalidatedSnapshots(s, length)[k])
<1> DEFINE A == InvalidatedSnapshots(s, length)
<1>1. SUFFICES ASSUME NEW k \in DOMAIN snapshots PROVE SnapshotShaped(A[k])
  BY DEF InvalidatedSnapshots
<1> DEFINE S == snapshots[k]
           T == [S EXCEPT !.valid = FALSE]
<1>2. A[k] = Invalidation(S, s, length)
  BY DEF InvalidatedSnapshots
<1>3. A[k] = S \/ (S # None /\ A[k] = T)
  BY <1>2 DEF Invalidation
<1>4. SnapshotShaped(S)
  BY DEF Shaped
<1>5. S # None => DOMAIN T = DOMAIN S /\ T.length = S.length /\ T.layers = S.layers
  BY <1>4 DEF SnapshotShaped
<1> HIDE DEF S, T, A
<1> QED
  BY <1>3, <1>4, <1>5 DEF SnapshotShaped

(* A new step ages only records behind the committed end. *)
LEMMA BeginStepKeeps ==
  ASSUME IInv, NEW l \in Layer, NEW s \in Session, NEW count \in Nat \ {0},
         BeginStep(l, s, count)
  PROVE  IInv'
<1> DEFINE c == cache[l][s]
           d == [c EXCEPT !.stepEnd = c.length + count, !.written = c.length]
           L == Superseded(pool[l], s, c.length)
<1>1. /\ Calls(l, s) /\ ~Stepping(l, s) /\ c.length + count <= Capacity[s]
      /\ Set(l, s, d) /\ pool' = [pool EXCEPT ![l] = L]
      /\ snapshots' = AgedSnapshots(l, s, c.length)
      /\ UNCHANGED <<allocation, transient, candidates, prefetch, writes>>
  BY DEF BeginStep
<1>2. s \in Live
  BY <1>1, CallsLive
<1>3. /\ EndsOK(c, Capacity[s]) /\ c \in CacheState /\ Persistent(l, s) = HostEnd(c)
      /\ Capacity[s] \in Nat
  BY <1>2, EndsOf
<1>4. ~Pending(l, s) /\ ~Transient(l, s) /\ c.transientStart = None
  BY <1>1, <1>2, IdleHoldsNothing
<1>5. /\ d \in CacheState /\ d.length = c.length /\ d.written = c.length
      /\ d.stepEnd = c.length + count /\ d.transientStart = None
  <2> HIDE DEF c
  <2>1. c.length \in Nat /\ c.length + count \in Nat
    BY <1>3 DEF CacheState
  <2>2. /\ d.length = c.length /\ d.written = c.length /\ d.stepEnd = c.length + count
        /\ d.transientStart = None
    BY <1>3, <1>4 DEF CacheState
  <2>3. d \in CacheState
    BY <1>3, <2>1 DEF CacheState
  <2> QED
    BY <2>2, <2>3
<1>6. EndsOK(d, Capacity[s]) /\ HostEnd(d) = c.length /\ HostEnd(d) <= Persistent(l, s)
  <2> HIDE DEF c, d
  <2> QED
    BY <1>1, <1>3, <1>4, <1>5, SlotsAssumption DEF EndsOK, HostEnd, CacheState
<1> HIDE DEF d
<1>7. CacheMoved(l, s, d)
  BY <1>1, <1>2, <1>6, CacheKept DEF IInv, allocation
<1>8. WorkspaceOK' /\ LeasesHaveAStep'
  BY <1>1, <1>2, <1>4, <1>5, <1>7, LeasesKept DEF WorkspaceStays
<1>9. /\ LayerShaped(L)
      /\ \A r \in Row : \A t \in Session, i \in Nat :
           pool[l].host[r] = <<t, i>> /\ (t # s \/ ~(i >= c.length)) => L.host[r] = <<t, i>>
  BY SupersededKeeps DEF IInv, Shaped
<1> HIDE DEF L
<1>10. PoolMoved(l) /\ pool'[l] = L
  BY <1>1, <1>9, PoolKept DEF IInv
<1>11. HostSpared(l, s, HostEnd(d))
  BY <1>3, <1>6, <1>9, <1>10 DEF HostSpared, CacheState
<1>12. /\ transient' \in [Layer -> Session \cup {None}]
       /\ \A k \in DOMAIN snapshots' : SnapshotShaped(snapshots'[k])
  BY <1>1, AgedSnapshotsShaped DEF IInv, Shaped
<1> QED
  BY <1>1, <1>2, <1>6, <1>7, <1>8, <1>10, <1>11, <1>12, QuietStep

(* A transient step takes the layer's candidate rows, which nobody holds,  *)
(* while no other session has the workspace of this layer.                 *)
LEMMA BeginTransientKeeps ==
  ASSUME IInv, NEW l \in Layer, NEW s \in Session, NEW count \in Nat \ {0},
         BeginTransient(l, s, count)
  PROVE  IInv'
<1> DEFINE c == cache[l][s]
           d == [c EXCEPT !.stepEnd = c.length + count, !.written = c.length,
                          !.transientStart = c.length]
           L == Superseded(Leased(pool[l], s), s, c.length)
<1>1. /\ Calls(l, s) /\ ~Stepping(l, s) /\ Usable(l, s) /\ transient[l] = None
      /\ Set(l, s, d) /\ pool' = [pool EXCEPT ![l] = L]
      /\ transient' = [transient EXCEPT ![l] = s]
      /\ snapshots' = AgedSnapshots(l, s, c.length)
      /\ UNCHANGED <<allocation, candidates, prefetch, writes>>
  BY DEF BeginTransient
<1>2. s \in Live
  BY <1>1, CallsLive
<1>3. /\ EndsOK(c, Capacity[s]) /\ c \in CacheState /\ Persistent(l, s) = HostEnd(c)
      /\ Capacity[s] \in Nat
  BY <1>2, EndsOf
<1>4. ~Pending(l, s) /\ ~Transient(l, s) /\ c.transientStart = None
  BY <1>1, <1>2, IdleHoldsNothing
<1>5. /\ d \in CacheState /\ d.length = c.length /\ d.written = c.length
      /\ d.stepEnd = c.length + count /\ d.transientStart = c.length
  <2> HIDE DEF c
  <2>1. c.length \in Nat /\ c.length + count \in Nat
    BY <1>3 DEF CacheState
  <2>2. /\ d.length = c.length /\ d.written = c.length /\ d.stepEnd = c.length + count
        /\ d.transientStart = c.length
    BY <1>3, <1>4 DEF CacheState
  <2>3. d \in CacheState
    BY <1>3, <2>1 DEF CacheState
  <2> QED
    BY <2>2, <2>3
<1>6. EndsOK(d, Capacity[s]) /\ HostEnd(d) = c.length /\ HostEnd(d) <= Persistent(l, s)
  <2> HIDE DEF c, d
  <2> QED
    BY <1>1, <1>3, <1>4, <1>5, SlotsAssumption DEF EndsOK, HostEnd, CacheState
<1> HIDE DEF d
<1>7. CacheMoved(l, s, d)
  BY <1>1, <1>2, <1>6, CacheKept DEF IInv, allocation
<1>8. Live' = Live /\ prefetch' = prefetch
  BY <1>1, AllocationKept DEF IInv
<1>9. transient' \in [Layer -> Session \cup {None}]
      /\ transient'[l] = s /\ \A m \in Layer : m # l => transient'[m] = transient[m]
  BY <1>1 DEF IInv, Shaped
<1>10. prefetch = None
  BY <1>1, <1>4 DEF Usable
<1>11. \A m \in Layer, t \in Session : transient'[m] = t <=> cache'[m][t].transientStart # None
  BY <1>3, <1>5, SlotsAssumption, <1>7, <1>9, <1>1 DEF IInv, LeasesHaveAStep, Transient,
     CacheState, CacheMoved
<1>12. WorkspaceOK' /\ LeasesHaveAStep'
  BY <1>8, <1>10, <1>11 DEF WorkspaceOK, LeasesHaveAStep, Transient
<1>13. SameHost(pool[l], Leased(pool[l], s)) /\ LayerShaped(Leased(pool[l], s))
  BY LeasedKeeps DEF IInv, Shaped, SameHost, LayerShaped
<1>14. /\ LayerShaped(L)
       /\ \A r \in Row : \A t \in Session, i \in Nat :
            pool[l].host[r] = <<t, i>> /\ (t # s \/ ~(i >= c.length)) => L.host[r] = <<t, i>>
  BY <1>13, SupersededKeeps DEF SameHost
<1> HIDE DEF L
<1>15. PoolMoved(l) /\ pool'[l] = L
  BY <1>1, <1>14, PoolKept DEF IInv
<1>16. HostSpared(l, s, HostEnd(d))
  BY <1>3, <1>6, <1>14, <1>15 DEF HostSpared, CacheState
<1>17. \A k \in DOMAIN snapshots' : SnapshotShaped(snapshots'[k])
  BY <1>1, AgedSnapshotsShaped DEF IInv
<1> QED
  BY <1>1, <1>2, <1>6, <1>7, <1>9, <1>12, <1>15, <1>16, <1>17, QuietStep

(* A truncation ages only records behind the new end. *)
LEMMA TruncateKeeps ==
  ASSUME IInv, NEW l \in Layer, NEW s \in Session, NEW length \in Nat, Truncate(l, s, length)
  PROVE  IInv'
<1> DEFINE c == cache[l][s]
           d == Shortened(c, length)
           L == Shrunk(Leased(pool[l], s), s, length)
<1>1. /\ Calls(l, s) /\ ~Stepping(l, s) /\ length <= c.length
      /\ Set(l, s, d) /\ pool' = [pool EXCEPT ![l] = L]
      /\ snapshots' = InvalidatedSnapshots(s, length)
      /\ UNCHANGED <<allocation, transient, candidates, prefetch, writes>>
  BY DEF Truncate
<1>2. s \in Live
  BY <1>1, CallsLive
<1>3. EndsOK(c, Capacity[s]) /\ Persistent(l, s) = HostEnd(c) /\ Capacity[s] \in Nat
  BY <1>2, EndsOf
<1>4. ~Pending(l, s) /\ ~Transient(l, s)
  BY <1>1, <1>2, IdleHoldsNothing
<1>5. /\ EndsOK(d, Capacity[s]) /\ d.transientStart = None /\ HostEnd(d) = length
      /\ HostEnd(d) <= Persistent(l, s)
  <2> HIDE DEF c
  <2> QED
    BY <1>1, <1>3, ShortenedEnds
<1> HIDE DEF d
<1>6. CacheMoved(l, s, d)
  BY <1>1, <1>2, <1>5, CacheKept DEF IInv, allocation
<1>7. WorkspaceOK' /\ LeasesHaveAStep'
  BY <1>1, <1>2, <1>4, <1>5, <1>6, LeasesKept DEF WorkspaceStays
<1>8. SameHost(pool[l], Leased(pool[l], s)) /\ LayerShaped(Leased(pool[l], s))
  BY LeasedKeeps DEF IInv, Shaped, SameHost, LayerShaped
<1>9. /\ LayerShaped(L)
      /\ \A r \in Row : \A t \in Session, i \in Nat :
           pool[l].host[r] = <<t, i>> /\ (t # s \/ ~(i >= length)) => L.host[r] = <<t, i>>
  BY <1>8, ShrunkKeeps DEF SameHost
<1> HIDE DEF L
<1>10. PoolMoved(l) /\ pool'[l] = L
  BY <1>1, <1>9, PoolKept DEF IInv
<1>11. HostSpared(l, s, HostEnd(d))
  BY <1>5, <1>9, <1>10 DEF HostSpared
<1>12. /\ transient' \in [Layer -> Session \cup {None}]
       /\ \A k \in DOMAIN snapshots' : SnapshotShaped(snapshots'[k])
  BY <1>1, InvalidatedSnapshotsShaped DEF IInv, Shaped
<1> QED
  BY <1>1, <1>2, <1>5, <1>6, <1>7, <1>10, <1>11, <1>12, QuietStep

(* A rollback gives the workspace back with the step. *)
LEMMA RollbackKeeps ==
  ASSUME IInv, NEW l \in Layer, NEW s \in Session, Rollback(l, s)
  PROVE  IInv'
<1> DEFINE c == cache[l][s]
           d == Shortened(c, c.length)
           L == Shrunk(Leased(Settled(l, s), s), s, c.length)
<1>1. /\ MayStep(s) /\ ~Transient(l, s) /\ Usable(l, s)
      /\ Set(l, s, d) /\ pool' = [pool EXCEPT ![l] = L]
      /\ prefetch' = WithoutPending(s)
      /\ snapshots' = InvalidatedSnapshots(s, c.length)
      /\ UNCHANGED <<allocation, transient, candidates, writes>>
  BY DEF Rollback
<1>2. s \in Live
  BY <1>1, CallsLive
<1>3. /\ EndsOK(c, Capacity[s]) /\ Persistent(l, s) = HostEnd(c) /\ Capacity[s] \in Nat
      /\ c.length \in Nat
  BY <1>2, EndsOf
<1>4. prefetch' = None
  BY <1>1 DEF Usable, Pending, WithoutPending
<1>5. /\ EndsOK(d, Capacity[s]) /\ d.transientStart = None /\ HostEnd(d) = c.length
      /\ HostEnd(d) <= Persistent(l, s)
  <2> HIDE DEF c
  <2> QED
    BY <1>3, ShortenedEnds
<1> HIDE DEF d
<1>6. CacheMoved(l, s, d)
  BY <1>1, <1>2, <1>5, CacheKept DEF IInv, allocation
<1>7. WorkspaceOK' /\ LeasesHaveAStep'
  BY <1>1, <1>2, <1>4, <1>5, <1>6, LeasesKept DEF WorkspaceStays
<1>8. SameHost(pool[l], Settled(l, s)) /\ LayerShaped(Settled(l, s))
  BY SettledKeeps DEF IInv
<1>9. /\ SameHost(pool[l], Leased(Settled(l, s), s))
      /\ LayerShaped(Leased(Settled(l, s), s))
  BY <1>8, LeasedKeeps DEF SameHost, LayerShaped
<1>10. /\ LayerShaped(L)
       /\ \A r \in Row : \A t \in Session, i \in Nat :
            pool[l].host[r] = <<t, i>> /\ (t # s \/ ~(i >= c.length)) => L.host[r] = <<t, i>>
  BY <1>9, ShrunkKeeps DEF SameHost
<1> HIDE DEF L
<1>11. PoolMoved(l) /\ pool'[l] = L
  BY <1>1, <1>10, PoolKept DEF IInv
<1>12. HostSpared(l, s, HostEnd(d))
  BY <1>3, <1>5, <1>10, <1>11 DEF HostSpared
<1>13. /\ transient' \in [Layer -> Session \cup {None}]
       /\ \A k \in DOMAIN snapshots' : SnapshotShaped(snapshots'[k])
  BY <1>1, InvalidatedSnapshotsShaped DEF IInv, Shaped
<1> QED
  BY <1>1, <1>2, <1>5, <1>6, <1>7, <1>11, <1>12, <1>13, QuietStep

(* The end of a transient step gives back the candidate rows and the       *)
(* workspace.                                                              *)
LEMMA DiscardTransientKeeps ==
  ASSUME IInv, NEW l \in Layer, NEW s \in Session, DiscardTransient(l, s)
  PROVE  IInv'
<1> DEFINE c == cache[l][s]
           d == Shortened(c, c.length)
           L == Leased(Settled(l, s), s)
<1>1. /\ MayStep(s) /\ Transient(l, s) /\ Usable(l, s)
      /\ Set(l, s, d) /\ pool' = [pool EXCEPT ![l] = L]
      /\ prefetch' = WithoutPending(s)
      /\ transient' = [transient EXCEPT ![l] = None]
      /\ UNCHANGED <<allocation, writes, snapshots>>
  BY DEF DiscardTransient
<1>2. s \in Live
  BY <1>1, CallsLive
<1>3. /\ EndsOK(c, Capacity[s]) /\ Persistent(l, s) = HostEnd(c) /\ Capacity[s] \in Nat
      /\ c.length \in Nat
  BY <1>2, EndsOf
<1>4. prefetch' = None
  BY <1>1 DEF Usable, Pending, WithoutPending
<1>5. /\ EndsOK(d, Capacity[s]) /\ d.transientStart = None /\ HostEnd(d) = c.length
      /\ HostEnd(d) <= Persistent(l, s)
  <2> HIDE DEF c
  <2> QED
    BY <1>3, ShortenedEnds
<1> HIDE DEF d
<1>6. CacheMoved(l, s, d)
  BY <1>1, <1>2, <1>5, CacheKept DEF IInv, allocation
<1>7. transient' \in [Layer -> Session \cup {None}]
      /\ transient'[l] = None /\ \A m \in Layer : m # l => transient'[m] = transient[m]
  BY <1>1 DEF IInv, Shaped
<1>8. \A m \in Layer, t \in Session : transient'[m] = t <=> cache'[m][t].transientStart # None
  BY <1>1, <1>2, SlotsAssumption, <1>5, <1>6, <1>7 DEF IInv, LeasesHaveAStep, Transient,
     CacheMoved
<1>9. WorkspaceOK' /\ LeasesHaveAStep'
  BY <1>4, <1>8 DEF WorkspaceOK, LeasesHaveAStep, Transient
<1>10. SameHost(pool[l], Settled(l, s)) /\ LayerShaped(Settled(l, s))
  BY SettledKeeps DEF IInv
<1>11. SameHost(pool[l], L) /\ LayerShaped(L)
  BY <1>10, LeasedKeeps DEF SameHost, LayerShaped
<1> HIDE DEF L
<1>12. PoolMoved(l) /\ pool'[l] = L
  BY <1>1, <1>11, PoolKept DEF IInv
<1>13. HostSpared(l, s, HostEnd(d))
  BY <1>11, <1>12 DEF HostSpared, SameHost
<1>14. \A k \in DOMAIN snapshots' : SnapshotShaped(snapshots'[k])
  BY <1>1 DEF IInv, Shaped
<1> QED
  BY <1>1, <1>2, <1>5, <1>6, <1>7, <1>9, <1>12, <1>13, <1>14, QuietStep

(* A step that fails half way keeps its ends. *)
LEMMA FailedEnds ==
  ASSUME IInv, NEW l \in Layer, NEW s \in Live, UNCHANGED <<allocation, transient>>,
         WorkspaceStays, Set(l, s, [cache[l][s] EXCEPT !.failed = TRUE])
  PROVE  \E d : /\ CacheMoved(l, s, d) /\ HostEnd(d) <= Persistent(l, s)
                /\ WorkspaceOK' /\ LeasesHaveAStep'
<1> DEFINE c == cache[l][s]
           d == [c EXCEPT !.failed = TRUE]
<1>1. EndsOK(c, Capacity[s]) /\ c \in CacheState /\ Persistent(l, s) = HostEnd(c)
  BY EndsOf
<1>2. /\ d \in CacheState /\ d.length = c.length /\ d.written = c.written
      /\ d.stepEnd = c.stepEnd /\ d.transientStart = c.transientStart
  BY <1>1 DEF CacheState
<1>3. Set(l, s, d)
  OBVIOUS
<1>4. Pending(l, s) => c.stepEnd # None /\ c.written < c.stepEnd
  BY DEF Pending, IInv, LeasesHaveAStep
<1>5. c.transientStart # None <=> Transient(l, s)
  BY DEF Transient
<1> HIDE DEF c, d
<1>6. EndsOK(d, Capacity[s]) /\ HostEnd(d) = HostEnd(c)
  BY <1>1, <1>2 DEF EndsOK, HostEnd
<1>7. HostEnd(d) <= Persistent(l, s)
  BY <1>1, <1>6 DEF HostEnd, EndsOK, CacheState
<1>8. CacheMoved(l, s, d)
  BY <1>3, <1>6, CacheKept DEF IInv, allocation
<1>9. WorkspaceOK' /\ LeasesHaveAStep'
  BY <1>2, <1>4, <1>5, <1>8, LeasesKept
<1> QED
  BY <1>7, <1>8, <1>9

(* A call that leaves every cache alone, and the workspace with its owner. *)
LEMMA UnmovedEnds ==
  ASSUME IInv, NEW l \in Layer, NEW s \in Live, UNCHANGED <<allocation, transient, cache>>,
         WorkspaceStays
  PROVE  /\ CacheMoved(l, s, cache[l][s]) /\ HostEnd(cache[l][s]) <= Persistent(l, s)
         /\ WorkspaceOK' /\ LeasesHaveAStep'
<1> DEFINE c == cache[l][s]
<1>1. EndsOK(c, Capacity[s]) /\ c \in CacheState /\ Persistent(l, s) = HostEnd(c)
  BY EndsOf
<1>2. CacheMoved(l, s, c)
  BY CacheStays
<1>3. Pending(l, s) => c.stepEnd # None /\ c.written < c.stepEnd
  BY DEF Pending, IInv, LeasesHaveAStep
<1>4. c.transientStart # None <=> Transient(l, s)
  BY DEF Transient
<1> HIDE DEF c
<1>5. HostEnd(c) <= Persistent(l, s)
  BY <1>1 DEF HostEnd, EndsOK, CacheState
<1>6. WorkspaceOK' /\ LeasesHaveAStep'
  BY <1>2, <1>3, <1>4, LeasesKept
<1> QED
  BY <1>2, <1>5, <1>6 DEF c

(* An append that fails half way has sent nothing to the host. *)
LEMMA AppendFailsKeeps ==
  ASSUME IInv, NEW l \in Layer, NEW s \in Session, NEW count, AppendFails(l, s, count)
  PROVE  IInv'
<1>1. /\ AppendMayRun(l, s, count)
      /\ pool' \in {[pool EXCEPT ![l] = L] :
            L \in {Leased(pool[l], s), AppendRoom(l, s, count).pool, Appended(l, s, count)}}
      /\ Set(l, s, [cache[l][s] EXCEPT !.failed = TRUE])
      /\ UNCHANGED <<allocation, transient, candidates, prefetch, writes, snapshots>>
  BY DEF AppendFails
<1>2. s \in Live
  BY <1>1, CallsLive DEF AppendMayRun
<1>3. PICK L \in {Leased(pool[l], s), AppendRoom(l, s, count).pool, Appended(l, s, count)} :
        pool' = [pool EXCEPT ![l] = L]
  BY <1>1
<1>4. LayerShaped(pool[l])
  BY DEF IInv, Shaped
<1>5. SameHost(pool[l], L) /\ LayerShaped(L)
  BY <1>3, <1>4, LeasedKeeps, AppendedKeeps DEF IInv, SameHost, LayerShaped
<1>6. PoolMoved(l) /\ pool'[l] = L
  BY <1>3, <1>5, PoolKept DEF IInv
<1>7. WorkspaceStays
  BY <1>1 DEF WorkspaceStays
<1>8. PICK d : /\ CacheMoved(l, s, d) /\ HostEnd(d) <= Persistent(l, s)
               /\ WorkspaceOK' /\ LeasesHaveAStep'
  BY <1>1, <1>2, <1>7, FailedEnds
<1> QED
  BY <1>1, <1>2, <1>5, <1>6, <1>8, SameHostKeeps

(* A recall leaves the host, the caches and the leases alone. *)
LEMMA EnsureKeeps ==
  ASSUME IInv, NEW l \in Layer, NEW s \in Session, NEW selection, NEW uncounted,
         Ensure(l, s, selection, uncounted)
  PROVE  IInv'
<1> DEFINE L == Recalled(l, s, History(l, s, selection), uncounted)
<1>1. /\ EnsureMayRun(l, s, selection)
      /\ pool' = [pool EXCEPT ![l] = L]
      /\ UNCHANGED <<allocation, cache, transient, candidates, prefetch, writes, snapshots>>
  BY DEF Ensure
<1>2. s \in Live
  BY <1>1, CallsLive DEF EnsureMayRun
<1>3. SameHost(pool[l], L) /\ LayerShaped(L)
  BY RecalledKeeps DEF IInv, Shaped, SameHost, LayerShaped
<1> HIDE DEF L
<1>4. PoolMoved(l) /\ pool'[l] = L
  BY <1>1, <1>3, PoolKept DEF IInv
<1>5. /\ CacheMoved(l, s, cache[l][s]) /\ HostEnd(cache[l][s]) <= Persistent(l, s)
      /\ WorkspaceOK' /\ LeasesHaveAStep'
  BY <1>1, <1>2, UnmovedEnds DEF WorkspaceStays
<1> QED
  BY <1>1, <1>2, <1>3, <1>4, <1>5, SameHostKeeps

(* So does a recall that fails half way. *)
LEMMA EnsureFailsKeeps ==
  ASSUME IInv, NEW l \in Layer, NEW s \in Session, NEW selection, EnsureFails(l, s, selection)
  PROVE  IInv'
<1> DEFINE rows == HostRows(s, History(l, s, selection))
           P == Protected(l, s, rows)
           P0 == IF AnyMissing(l, s, History(l, s, selection)) THEN WithoutPlan(P) ELSE P
           chosen == SubSeq(Available(P, rows), 1, Cardinality(Missing(P, rows)))
           E == Invalidated(Evicted(P0, Range(chosen)))
<1>1. /\ EnsureMayRun(l, s, selection)
      /\ \E L \in {P0, E} : pool' = [pool EXCEPT ![l] = L]
      /\ Set(l, s, [cache[l][s] EXCEPT !.failed = TRUE])
      /\ UNCHANGED <<allocation, transient, candidates, prefetch, writes, snapshots>>
  <2>1. /\ EnsureMayRun(l, s, selection)
        /\ pool' \in {[pool EXCEPT ![l] = L] :
             L \in {P0} \cup (IF chosen = <<>> THEN {} ELSE {E})}
        /\ Set(l, s, [cache[l][s] EXCEPT !.failed = TRUE])
        /\ UNCHANGED <<allocation, transient, candidates, prefetch, writes, snapshots>>
    BY Zenon DEF EnsureFails
  <2> HIDE DEF P0, E, chosen
  <2> QED
    BY <2>1
<1>2. s \in Live
  BY <1>1, CallsLive DEF EnsureMayRun
<1>3. SameHost(pool[l], P) /\ LayerShaped(P)
  BY ProtectedKeeps DEF IInv
<1>4. SameHost(pool[l], P0) /\ LayerShaped(P0)
  <2> HIDE DEF P
  <2> QED
    BY <1>3, InvalidatedKeeps DEF SameHost, LayerShaped
<1>5. SameHost(pool[l], E) /\ LayerShaped(E)
  <2> HIDE DEF P0, chosen
  <2>1. SameHost(pool[l], Evicted(P0, Range(chosen)))
        /\ LayerShaped(Evicted(P0, Range(chosen)))
    BY <1>4, EvictedKeeps DEF SameHost, LayerShaped
  <2> QED
    BY <2>1, InvalidatedKeeps DEF SameHost, LayerShaped
<1> HIDE DEF P0, E
<1>6. PICK L \in {P0, E} : pool' = [pool EXCEPT ![l] = L]
  BY <1>1
<1>7. SameHost(pool[l], L) /\ LayerShaped(L)
  BY <1>4, <1>5, <1>6
<1>8. PoolMoved(l) /\ pool'[l] = L
  BY <1>6, <1>7, PoolKept DEF IInv
<1>9. WorkspaceStays
  BY <1>1 DEF WorkspaceStays
<1>10. PICK d : /\ CacheMoved(l, s, d) /\ HostEnd(d) <= Persistent(l, s)
                /\ WorkspaceOK' /\ LeasesHaveAStep'
  BY <1>1, <1>2, <1>9, FailedEnds
<1> QED
  BY <1>1, <1>2, <1>7, <1>8, <1>10, SameHostKeeps

(* The suffix of a transient step is on the device only. *)
LEMMA AppendTransientKeeps ==
  ASSUME IInv, NEW l \in Layer, NEW s \in Session, NEW count \in Nat \ {0},
         AppendTransient(l, s, count)
  PROVE  IInv'
<1> DEFINE c == cache[l][s]
           d == [c EXCEPT !.written = @ + count]
<1>1. /\ Calls(l, s) /\ Stepping(l, s) /\ Transient(l, s) /\ ~Pending(l, s)
      /\ c.written + count <= c.stepEnd
      /\ pool' = [pool EXCEPT ![l] = Leased(@, s)]
      /\ Set(l, s, d)
      /\ UNCHANGED <<allocation, transient, prefetch, writes, snapshots>>
  BY DEF AppendTransient
<1>2. s \in Live
  BY <1>1, CallsLive
<1>3. EndsOK(c, Capacity[s]) /\ c \in CacheState /\ Persistent(l, s) = HostEnd(c)
  BY <1>2, EndsOf
<1>4. /\ d \in CacheState /\ d.length = c.length /\ d.written = c.written + count
      /\ d.stepEnd = c.stepEnd /\ d.transientStart = c.transientStart
  BY <1>3 DEF CacheState
<1>5. c.transientStart # None
  BY <1>1 DEF Transient
<1>6. EndsOK(d, Capacity[s]) /\ HostEnd(d) = HostEnd(c) /\ HostEnd(d) <= Persistent(l, s)
  <2> HIDE DEF c, d
  <2> QED
    BY <1>1, <1>3, <1>4, <1>5 DEF EndsOK, HostEnd, CacheState
<1> HIDE DEF d
<1>7. CacheMoved(l, s, d)
  BY <1>1, <1>2, <1>6, CacheKept DEF IInv, allocation
<1>8. WorkspaceOK' /\ LeasesHaveAStep'
  BY <1>1, <1>2, <1>4, <1>5, <1>7, LeasesKept DEF WorkspaceStays
<1> DEFINE L == Leased(pool[l], s)
<1>9. SameHost(pool[l], L) /\ LayerShaped(L)
  BY LeasedKeeps DEF IInv, Shaped, SameHost, LayerShaped
<1>10. pool' = [pool EXCEPT ![l] = L]
  BY <1>1
<1> HIDE DEF L
<1>11. PoolMoved(l) /\ pool'[l] = L
  BY <1>9, <1>10, PoolKept DEF IInv
<1> QED
  BY <1>1, <1>2, <1>6, <1>7, <1>8, <1>9, <1>11, SameHostKeeps

(* The workspace goes to a step that has records left to append, on a      *)
(* layer whose candidate rows no other session holds.                      *)
LEMMA PreparePrefetchKeeps ==
  ASSUME IInv, NEW l \in Layer, NEW s \in Session, NEW count \in Nat \ {0},
         PreparePrefetch(l, s, count)
  PROVE  IInv'
<1> DEFINE c == cache[l][s]
           L0 == Leased(pool[l], s)
           p == [owner |-> s, layer |-> l, order |-> PriorityOrder(L0), claimed |-> 0,
                 limit |-> IF Transient(l, s) THEN Slots ELSE Slots - count]
<1>1. /\ Calls(l, s) /\ Stepping(l, s) /\ c.written + count <= c.stepEnd
      /\ ~Pending(l, s) /\ Usable(l, s)
      /\ \/ pool' = [pool EXCEPT ![l] = Stamped(L0, {})] /\ prefetch' = prefetch
         \/ pool' = [pool EXCEPT ![l] = Invalidated(L0)] /\ prefetch' = p
      /\ UNCHANGED <<allocation, cache, transient, candidates, writes, snapshots>>
  BY Zenon DEF PreparePrefetch
<1>2. s \in Live
  BY <1>1, CallsLive
<1>3. c \in CacheState /\ Persistent(l, s) = HostEnd(c)
  BY <1>2, EndsOf
<1>4. SameHost(pool[l], L0) /\ LayerShaped(L0)
  BY LeasedKeeps DEF IInv, Shaped, SameHost, LayerShaped
<1> HIDE DEF L0
<1>5. \E L : SameHost(pool[l], L) /\ LayerShaped(L) /\ pool' = [pool EXCEPT ![l] = L]
  BY <1>4, StampedKeeps, InvalidatedKeeps, <1>1 DEF SameHost, LayerShaped
<1>6. PICK L : SameHost(pool[l], L) /\ LayerShaped(L) /\ pool' = [pool EXCEPT ![l] = L]
  BY <1>5
<1>7. PoolMoved(l) /\ pool'[l] = L
  BY <1>6, PoolKept DEF IInv
<1>8. CacheMoved(l, s, c) /\ HostEnd(c) <= Persistent(l, s)
  <2>1. CacheMoved(l, s, c)
    BY <1>1, <1>2, CacheStays
  <2>2. EndsOK(c, Capacity[s])
    BY <1>2, EndsOf
  <2> HIDE DEF c
  <2> QED
    BY <1>3, <2>1, <2>2 DEF HostEnd, EndsOK, CacheState
<1>9. WorkspaceOK' /\ LeasesHaveAStep'
  <2>1. CASE prefetch' = prefetch
    BY <1>1, <1>2, <2>1, UnmovedEnds DEF WorkspaceStays
  <2>2. CASE prefetch' = p
    <3>1. /\ DOMAIN p = {"owner", "layer", "order", "claimed", "limit"}
          /\ p.owner = s /\ p.layer = l
      OBVIOUS
    <3> HIDE DEF p
    <3>2. transient[l] \in {None, s}
      BY <1>1 DEF Usable
    <3>3. WorkspaceOK'
      BY <1>1, <2>2, <3>1, <3>2 DEF WorkspaceOK
    <3>4. c.stepEnd # None /\ c.written < c.stepEnd
      BY <1>1, <1>3 DEF Stepping, CacheState
    <3>5. Live' = Live
      BY <1>1, AllocationKept DEF IInv
    <3>6. cache' = cache /\ transient' = transient
      BY <1>1
    <3>7. \A m \in Layer, t \in Session : transient[m] = t <=> Transient(m, t)
      BY DEF IInv, LeasesHaveAStep
    <3> QED
      BY <1>2, <2>2, <3>1, <3>3, <3>4, <3>5, <3>6, <3>7 DEF LeasesHaveAStep, Transient
  <2> QED
    BY <1>1, <2>1, <2>2
<1> QED
  BY <1>1, <1>2, <1>6, <1>7, <1>8, <1>9, SameHostKeeps

(* A claim leaves the workspace with its owner. *)
LEMMA ClaimKeeps ==
  ASSUME IInv, NEW l \in Layer, NEW s \in Session, NEW i, Claim(l, s, i)
  PROVE  IInv'
<1> DEFINE x == prefetch.order[prefetch.claimed + 1]
           r == HostRow(s, i)
           U == [pool[l] EXCEPT !.h2d = Filled(@, {pool[l].d2h[x]} \ {None}, None)]
           L == [U EXCEPT !.h2d[r] = x, !.d2h[x] = r, !.records[x] = pool[l].host[r]]
<1>1. /\ Calls(l, s) /\ Pending(l, s)
      /\ pool' = [pool EXCEPT ![l] = L]
      /\ prefetch' = [prefetch EXCEPT !.claimed = @ + 1]
      /\ UNCHANGED <<allocation, cache, transient, candidates, writes, snapshots>>
  BY Zenon DEF Claim
<1>2. s \in Live
  BY <1>1, CallsLive
<1>3. LayerShaped(pool[l])
  BY DEF IInv, Shaped
<1>4. SameHost(pool[l], U) /\ LayerShaped(U)
  BY <1>3 DEF SameHost, LayerShaped, LayerFields
<1>5. SameHost(U, L)
  <2> HIDE DEF U, x, r
  <2> QED
    BY <1>4 DEF SameHost, LayerShaped, LayerFields
<1> HIDE DEF U, L
<1>6. SameHost(pool[l], L) /\ LayerShaped(L)
  BY <1>4, <1>5 DEF SameHost, LayerShaped
<1>7. PoolMoved(l) /\ pool'[l] = L
  BY <1>1, <1>6, PoolKept DEF IInv
<1>8. WorkspaceStays
  BY <1>1 DEF Pending, IInv, WorkspaceOK, WorkspaceStays
<1>9. /\ CacheMoved(l, s, cache[l][s]) /\ HostEnd(cache[l][s]) <= Persistent(l, s)
      /\ WorkspaceOK' /\ LeasesHaveAStep'
  BY <1>1, <1>2, <1>8, UnmovedEnds
<1> QED
  BY <1>1, <1>2, <1>6, <1>7, <1>9, SameHostKeeps

(* The end of a prefetch gives the workspace back. *)
LEMMA FinalizePrefetchKeeps ==
  ASSUME IInv, NEW l \in Layer, NEW s \in Session, FinalizePrefetch(l, s)
  PROVE  IInv'
<1>1. /\ Calls(l, s)
      /\ pool' = [pool EXCEPT ![l] = Settled(l, s)]
      /\ prefetch' = None
      /\ UNCHANGED <<allocation, cache, transient, candidates, writes, snapshots>>
  BY DEF FinalizePrefetch
<1>2. s \in Live
  BY <1>1, CallsLive
<1>3. SameHost(pool[l], Settled(l, s)) /\ LayerShaped(Settled(l, s))
  BY SettledKeeps DEF IInv
<1>4. PoolMoved(l) /\ pool'[l] = Settled(l, s)
  BY <1>1, <1>3, PoolKept DEF IInv
<1>5. /\ CacheMoved(l, s, cache[l][s]) /\ HostEnd(cache[l][s]) <= Persistent(l, s)
      /\ WorkspaceOK' /\ LeasesHaveAStep'
  BY <1>1, <1>2, UnmovedEnds DEF WorkspaceStays
<1> QED
  BY <1>1, <1>2, <1>3, <1>4, <1>5, SameHostKeeps

-----------------------------------------------------------------------------
(* The copies to the host. *)

(* The rows that an append sends to the host. *)
SentRows(s, indices) ==
  [r \in HostRows(s, indices) |-> <<s, CHOOSE i \in indices : HostRow(s, i) = r>>]

(* They are rows of its session, each with the record of its own index.    *)
LEMMA NewRows ==
  ASSUME AllocationOK, NEW s \in Live, NEW indices \in SUBSET (0 .. Capacity[s] - 1)
  PROVE  /\ DOMAIN SentRows(s, indices) \subseteq Row
         /\ SentRows(s, indices) \in [DOMAIN SentRows(s, indices) -> Record]
         /\ \A i \in indices :
              /\ HostRow(s, i) \in DOMAIN SentRows(s, indices)
              /\ SentRows(s, indices)[HostRow(s, i)] = <<s, i>>
         /\ \A t \in Live : \A j \in 0 .. Capacity[t] - 1 :
              HostRow(t, j) \in DOMAIN SentRows(s, indices) => t = s /\ j \in indices
<1> DEFINE rows == SentRows(s, indices)
<1>1. s \in Session /\ \A t \in Live : t \in Session
  BY DEF Live
<1>2. DOMAIN rows = HostRows(s, indices)
  BY DEF SentRows
<1>3. \A i \in indices : i \in 0 .. Capacity[s] - 1 /\ i \in Nat /\ HostRow(s, i) \in Row
  BY <1>1, IndexHasRow, IndexHasPage
<1>4. DOMAIN rows \subseteq Row
  BY <1>2, <1>3 DEF HostRows
<1>5. ASSUME NEW i \in indices
      PROVE  HostRow(s, i) \in DOMAIN rows /\ rows[HostRow(s, i)] = <<s, i>>
  <2>1. HostRow(s, i) \in HostRows(s, indices)
    BY DEF HostRows
  <2> DEFINE k == CHOOSE j \in indices : HostRow(s, j) = HostRow(s, i)
  <2>2. k \in indices /\ HostRow(s, k) = HostRow(s, i)
    OBVIOUS
  <2>3. rows[HostRow(s, i)] = <<s, k>>
    BY <2>1 DEF SentRows
  <2> HIDE DEF k
  <2>4. k = i
    BY <1>3, <2>2, RowsAreApart
  <2> QED
    BY <1>2, <2>1, <2>3, <2>4
<1>6. rows \in [DOMAIN rows -> Record]
  <2>1. ASSUME NEW r \in DOMAIN rows PROVE rows[r] \in Record
    <3>1. PICK i \in indices : r = HostRow(s, i)
      BY <1>2 DEF HostRows
    <3>2. rows[r] = <<s, i>> /\ i \in Nat
      BY <1>3, <1>5, <3>1
    <3> QED
      BY <1>1, <3>2 DEF Record
  <2> QED
    BY <2>1 DEF SentRows
<1>7. ASSUME NEW t \in Live, NEW j \in 0 .. Capacity[t] - 1, HostRow(t, j) \in DOMAIN rows
      PROVE  t = s /\ j \in indices
  BY <1>2, <1>7, <1>3, RowsAreApart DEF HostRows
<1> QED
  BY <1>4, <1>5, <1>6, <1>7

(* The rows that an append is going to write have indices below the        *)
(* capacity; a copy for one of them is the last that reaches its row, and  *)
(* it reaches no other row of the history.                                 *)
LEMMA AppendRecordsKeeps ==
  ASSUME IInv, NEW l \in Layer, NEW s \in Session, NEW count \in Nat \ {0},
         AppendRecords(l, s, count)
  PROVE  IInv'
<1> DEFINE c == cache[l][s]
           d == [c EXCEPT !.written = @ + count]
           L == Appended(l, s, count)
           rows == SentRows(s, New(c, count))
           w == [owner |-> s, layer |-> l, rows |-> rows]
<1>1. /\ AppendMayRun(l, s, count)
      /\ pool' = [pool EXCEPT ![l] = L]
      /\ writes' = Append(writes, w)
      /\ Set(l, s, d)
      /\ UNCHANGED <<allocation, transient, candidates, prefetch, snapshots>>
  BY Zenon DEF AppendRecords, WriteHost, SentRows
<1>2. /\ Calls(l, s) /\ Stepping(l, s) /\ ~Transient(l, s) /\ ~Pending(l, s)
      /\ c.written + count <= c.stepEnd
  BY <1>1 DEF AppendMayRun
<1>3. s \in Live
  BY <1>2, CallsLive
<1>4. /\ EndsOK(c, Capacity[s]) /\ c \in CacheState /\ Persistent(l, s) = HostEnd(c)
      /\ Capacity[s] \in Nat
  BY <1>3, EndsOf
<1>5. /\ d \in CacheState /\ d.length = c.length /\ d.written = c.written + count
      /\ d.stepEnd = c.stepEnd /\ d.transientStart = c.transientStart
  BY <1>4 DEF CacheState
<1>6. c.transientStart = None /\ c.stepEnd # None /\ c.stepEnd <= Capacity[s]
  BY <1>2, <1>4 DEF Transient, Stepping, EndsOK
<1>7. EndsOK(d, Capacity[s]) /\ HostEnd(d) = c.written + count /\ HostEnd(c) = c.written
  <2> HIDE DEF c, d
  <2> QED
    BY <1>2, <1>4, <1>5, <1>6 DEF EndsOK, HostEnd, CacheState
<1>8. New(c, count) = c.written .. c.written + count - 1
      /\ New(c, count) \in SUBSET (0 .. Capacity[s] - 1)
  <2> HIDE DEF c
  <2> QED
    BY <1>2, <1>4, <1>6 DEF CacheState, New
<1>9. /\ DOMAIN rows \subseteq Row
      /\ rows \in [DOMAIN rows -> Record]
      /\ \A i \in New(c, count) :
           HostRow(s, i) \in DOMAIN rows /\ rows[HostRow(s, i)] = <<s, i>>
      /\ \A t \in Live : \A j \in 0 .. Capacity[t] - 1 :
           HostRow(t, j) \in DOMAIN rows => t = s /\ j \in New(c, count)
  <2>1. AllocationOK
    BY DEF IInv
  <2> HIDE DEF c
  <2> QED
    BY <1>3, <1>8, <2>1, NewRows
<1> HIDE DEF d, L, rows
<1>10. w \in Ticketed /\ w.layer = l /\ w.rows = rows
  BY <1>9 DEF Ticketed
<1>11. CacheMoved(l, s, d)
  BY <1>1, <1>3, <1>7, CacheKept DEF IInv, allocation
<1>12. WorkspaceOK' /\ LeasesHaveAStep'
  BY <1>1, <1>2, <1>3, <1>5, <1>6, <1>11, LeasesKept DEF WorkspaceStays
<1>13. SameHost(pool[l], L) /\ LayerShaped(L)
  BY AppendedKeeps DEF IInv, Shaped, SameHost, LayerShaped, L
<1>14. PoolMoved(l) /\ pool'[l] = L
  BY <1>1, <1>13, PoolKept DEF IInv
<1>15. \A m \in Layer : pool'[m].host = pool[m].host
  BY <1>13, <1>14 DEF PoolMoved, SameHost
<1>16. AllocationOK' /\ Live' = Live /\ pages' = pages
  BY <1>1, AllocationKept DEF IInv, allocation
<1> HIDE DEF w
<1>17. writes \in Seq(Ticketed)
  BY DEF IInv, Shaped
<1> DEFINE n == Len(writes)
<1>18. PICK h : h = writes' /\ h = Append(writes, w)
  BY <1>1
<1>19. /\ h \in Seq(Ticketed) /\ Len(h) = n + 1 /\ h[n + 1] = w /\ n \in Nat
       /\ DOMAIN h = 1 .. n + 1 /\ DOMAIN writes = 1 .. n
       /\ \A k \in 1 .. n : h[k] = writes[k]
  BY <1>10, <1>17, <1>18, AppendProperties, LenProperties
<1>20. Shaped'
  BY <1>1, <1>14, <1>18, <1>19 DEF IInv, Shaped, SnapshotShaped, PoolMoved
<1> HIDE DEF n
<1>21. ASSUME NEW m \in Layer, NEW t \in Live, NEW i \in 0 .. Persistent(m, t)' - 1
       PROVE  Eventually(m, HostRow(t, i))' = <<t, i>>
  <2>1. t \in Session /\ i \in Nat /\ HostRow(t, i)' = HostRow(t, i)
    BY <1>16 DEF Live, HostRow
  <2>2. PICK r : r = HostRow(t, i)
    OBVIOUS
  <2> DEFINE old == {k \in DOMAIN writes : writes[k].layer = m /\ r \in DOMAIN writes[k].rows}
             new == {k \in DOMAIN h : h[k].layer = m /\ r \in DOMAIN h[k].rows}
  <2>3. Eventually(m, r) = IF old = {} THEN pool[m].host[r] ELSE writes[Max(old)].rows[r]
    BY DEF Eventually
  <2>4. Eventually(m, HostRow(t, i))'
          = IF new = {} THEN pool[m].host[r] ELSE h[Max(new)].rows[r]
    BY <1>15, <1>18, <2>1, <2>2 DEF Eventually
  <2>5. /\ Persistent(m, t)' = HostEnd(cache'[m][t]) /\ Persistent(m, t) = HostEnd(cache[m][t])
        /\ Persistent(m, t)' \in Nat /\ Persistent(m, t)' <= Capacity[t] /\ Capacity[t] \in Nat
    BY <1>11, <2>1, PoolAssumption DEF CacheMoved, CacheOK, EndsOK, HostEnd, CacheState,
       Persistent, Transient
  <2>6. i \in 0 .. Capacity[t] - 1
    BY <2>1, <2>5
  <2>7. CASE m = l /\ t = s /\ i \in New(c, count)
    <3>1. n + 1 \in new
      BY <1>9, <1>10, <1>19, <2>2, <2>7
    <3>2. new \in SUBSET (1 .. n + 1)
      BY <1>19
    <3> HIDE DEF new
    <3>3. Max(new) \in 1 .. n + 1 /\ Max(new) >= n + 1
      BY <1>19, <3>1, <3>2, LastIn
    <3>4. Max(new) = n + 1
      BY <1>19, <3>3
    <3> QED
      BY <1>9, <1>10, <1>19, <2>2, <2>4, <2>7, <3>1, <3>4
  <2>8. CASE ~(m = l /\ t = s /\ i \in New(c, count))
    <3>1. ~(m = l /\ r \in DOMAIN rows)
      BY <1>9, <2>2, <2>6, <2>8
    <3>2. n + 1 \notin new
      BY <1>10, <1>19, <3>1
    <3>3. new = old
      BY <1>19, <3>2
    <3>4. old \in SUBSET (1 .. n)
      BY <1>19
    <3>5. old # {} => Max(old) \in 1 .. n
      <4> HIDE DEF old
      <4> QED
        BY <1>19, <3>4, LastIn
    <3> HIDE DEF old, new
    <3>6. Eventually(m, HostRow(t, i))' = Eventually(m, r)
      BY <1>19, <2>3, <2>4, <3>3, <3>5
    <3>7. i \in 0 .. Persistent(m, t) - 1
      <4>1. CASE m = l /\ t = s
        <5>1. Persistent(m, t) = c.written /\ Persistent(m, t)' = c.written + count
              /\ c.written \in Nat
          BY <1>4, <1>7, <1>11, <2>5, <4>1 DEF CacheMoved, CacheState
        <5>2. ~(i \in c.written .. c.written + count - 1)
          BY <1>8, <2>8, <4>1
        <5> QED
          BY <2>1, <5>1, <5>2
      <4>2. CASE m # l \/ t # s
        BY <1>11, <2>1, <2>5, <4>2 DEF CacheMoved
      <4> QED
        BY <4>1, <4>2
    <3>8. Eventually(m, HostRow(t, i)) = <<t, i>>
      BY <3>7 DEF IInv, HostKeepsHistory
    <3> QED
      BY <2>2, <3>6, <3>8
  <2> QED
    BY <2>7, <2>8
<1>22. HostKeepsHistory'
  BY <1>16, <1>21 DEF HostKeepsHistory
<1> QED
  BY <1>11, <1>12, <1>16, <1>20, <1>22 DEF IInv, CacheMoved

(* The oldest copy reaches its rows: what they will hold in the end is     *)
(* what they would have held.                                              *)
LEMMA HostWriteKeeps ==
  ASSUME IInv, HostWrite
  PROVE  IInv'
<1> DEFINE w == Head(writes)
           n == Len(writes)
<1>1. /\ writes # <<>> /\ writes' = Tail(writes)
      /\ pool' = [pool EXCEPT ![w.layer].host =
                    Updated(@, DOMAIN w.rows, LAMBDA r : w.rows[r])]
      /\ UNCHANGED <<allocation, cache, transient, candidates, prefetch, snapshots>>
  BY DEF HostWrite
<1>2. writes \in Seq(Ticketed)
  BY DEF IInv, Shaped
<1>3. PICK h : h = writes' /\ h = Tail(writes)
  BY <1>1
<1>4. /\ w \in Ticketed /\ h \in Seq(Ticketed) /\ Len(h) = n - 1
      /\ n \in Nat /\ n # 0
      /\ DOMAIN h = 1 .. n - 1 /\ DOMAIN writes = 1 .. n
      /\ \A k \in 1 .. n - 1 : h[k] = writes[k + 1]
      /\ writes[1] = w
  BY <1>1, <1>2, <1>3, HeadTailProperties, LenProperties, EmptySeq
<1>5. w.layer \in Layer /\ DOMAIN w.rows \subseteq Row
  BY <1>4 DEF Ticketed
<1> HIDE DEF w, n
<1>6. PICK l \in Layer : l = w.layer
  BY <1>5
<1> DEFINE L == [pool[l] EXCEPT !.host = Updated(@, DOMAIN w.rows, LAMBDA r : w.rows[r])]
<1>7. LayerShaped(pool[l])
  BY DEF IInv, Shaped
<1>8. /\ LayerShaped(L)
      /\ \A r \in Row : L.host[r] = IF r \in DOMAIN w.rows THEN w.rows[r] ELSE pool[l].host[r]
  BY <1>7 DEF LayerShaped, LayerFields, Updated
<1>9. pool' = [pool EXCEPT ![l] = L]
  BY <1>1, <1>6
<1> HIDE DEF L
<1>10. PoolMoved(l) /\ pool'[l] = L
  BY <1>8, <1>9, PoolKept DEF IInv
<1>11. AllocationOK' /\ Live' = Live /\ pages' = pages
  BY <1>1, AllocationKept DEF IInv, allocation
<1>12. /\ cache' = cache /\ transient' = transient
       /\ prefetch' = prefetch /\ snapshots' = snapshots
  BY <1>1
<1>13. CacheOK' /\ WorkspaceOK' /\ LeasesHaveAStep'
  BY <1>11, <1>12 DEF IInv, CacheOK, WorkspaceOK, LeasesHaveAStep, Transient
<1>14. Shaped'
  BY <1>3, <1>4, <1>10, <1>12 DEF IInv, Shaped, SnapshotShaped, PoolMoved
<1>15. ASSUME NEW m \in Layer, NEW t \in Live, NEW i \in 0 .. Persistent(m, t) - 1
       PROVE  Eventually(m, HostRow(t, i))' = <<t, i>>
  <2>1. HostRow(t, i)' = HostRow(t, i)
    BY <1>11 DEF HostRow
  <2>2. HostRow(t, i) \in Row
    BY EndsOf, IndexHasRow DEF EndsOK, HostEnd, CacheState, IInv
  <2>3. PICK r \in Row : r = HostRow(t, i)
    BY <2>2
  <2> DEFINE old == {k \in DOMAIN writes : writes[k].layer = m /\ r \in DOMAIN writes[k].rows}
             new == {k \in DOMAIN h : h[k].layer = m /\ r \in DOMAIN h[k].rows}
  <2>4. Eventually(m, r) = IF old = {} THEN pool[m].host[r] ELSE writes[Max(old)].rows[r]
    BY DEF Eventually
  <2>5. Eventually(m, HostRow(t, i))'
          = IF new = {} THEN pool'[m].host[r] ELSE h[Max(new)].rows[r]
    BY <1>3, <2>1, <2>3 DEF Eventually
  <2>6. Eventually(m, r) = <<t, i>>
    BY <2>3 DEF IInv, HostKeepsHistory
  <2>7. old \in SUBSET (1 .. n) /\ new \in SUBSET (1 .. n - 1)
    BY <1>4
  <2>8. \A k \in 1 .. n - 1 : k \in new <=> k + 1 \in old
    BY <1>4
  <2>9. 1 \in old <=> m = l /\ r \in DOMAIN w.rows
    BY <1>4, <1>6
  <2> HIDE DEF old, new
  <2>10. CASE new # {}
    <3>1. PICK k \in 1 .. n - 1 : k = Max(new) /\ k \in new /\ \A y \in new : k >= y
      <4>1. n - 1 \in Nat
        BY <1>4
      <4> QED
        BY <2>7, <2>10, <4>1, LastIn
    <3>2. k + 1 \in old
      BY <2>8, <3>1
    <3>3. Max(old) \in old /\ Max(old) >= k + 1
      BY <1>4, <2>7, <3>2, LastIn
    <3>4. PICK y \in 1 .. n : y = Max(old)
      BY <2>7, <3>3
    <3>5. y = k + 1
      <4>1. y - 1 \in 1 .. n - 1 /\ (y - 1) + 1 = y
        BY <1>4, <3>1, <3>3, <3>4
      <4>2. y - 1 \in new
        BY <2>8, <3>3, <3>4, <4>1
      <4>3. k >= y - 1
        BY <3>1, <4>2
      <4> QED
        BY <1>4, <3>1, <3>3, <3>4, <4>3
    <3> QED
      BY <1>4, <2>4, <2>5, <2>6, <2>10, <3>1, <3>2, <3>4, <3>5
  <2>11. CASE new = {}
    <3>1. \A y \in old : y = 1
      <4>1. SUFFICES ASSUME NEW y \in old, y # 1 PROVE FALSE
        OBVIOUS
      <4>2. y - 1 \in 1 .. n - 1 /\ (y - 1) + 1 = y
        BY <1>4, <2>7, <4>1
      <4> QED
        BY <2>8, <2>11, <4>2
    <3>2. CASE 1 \in old
      BY <1>4, <2>7, <3>1, <3>2, LastIn, <2>4, <1>8, <1>10, <2>9, <2>5, <2>6, <2>11
    <3>3. CASE 1 \notin old
      BY <3>1, <3>3, <1>8, <1>10, <2>9, <2>4, <2>5, <2>6, <2>11 DEF PoolMoved
    <3> QED
      BY <3>2, <3>3
  <2> QED
    BY <2>10, <2>11
<1>16. HostKeepsHistory'
  BY <1>11, <1>12, <1>15 DEF HostKeepsHistory, Persistent, Transient
<1> QED
  BY <1>11, <1>13, <1>14, <1>16 DEF IInv

-----------------------------------------------------------------------------
(* Pages change hands. *)

(* An allocation takes pages that nobody has, for a session without        *)
(* history.                                                                *)
LEMMA AllocateKeeps ==
  ASSUME IInv, NEW s \in Session, Allocate(s)
  PROVE  IInv'
<1> DEFINE n == PagesFor(s)
           back == TakenPages(freePages, n)
           front == LeftPages(freePages, n)
<1>1. /\ session[s] = "new" /\ n <= Len(freePages)
      /\ session' = [session EXCEPT ![s] = "live"]
      /\ pages' = [pages EXCEPT ![s] = back]
      /\ freePages' = front
      /\ UNCHANGED <<pool, cache, transient, candidates, prefetch, writes, snapshots>>
  BY Zenon DEF Allocate, TakenPages, LeftPages
<1>2. /\ freePages \in Seq(Page) /\ IsInjective(freePages)
      /\ session \in [Session -> {"new", "live", "released"}]
      /\ pages \in [Session -> Seq(Page)]
  BY DEF IInv, AllocationOK, PagesOwnedOnce
<1>3. n \in Nat
  BY PoolAssumption, Division DEF PagesFor
<1>4. /\ back \in Seq(Page) /\ IsInjective(back) /\ Len(back) = n
      /\ front \in Seq(Page) /\ IsInjective(front)
      /\ Range(back) \cap Range(front) = {}
      /\ Range(freePages) = Range(front) \cup Range(back)
  <2> HIDE DEF n
  <2>1. n <= Len(freePages)
    BY <1>1
  <2> QED
    BY <1>2, <1>3, <2>1, PagesTaken
<1> HIDE DEF back, front
<1>5. s \notin Live /\ Live' = Live \cup {s}
  BY <1>1, <1>2 DEF Live
<1>6. pages[s] = <<>> /\ pages'[s] = back /\ \A t \in Session \ {s} : pages'[t] = pages[t]
  BY <1>1, <1>2, <1>5 DEF IInv, AllocationOK
<1>7. /\ \A t \in Session : IsInjective(pages[t]) /\ Range(pages[t]) \cap Range(freePages) = {}
      /\ \A t, u \in Session : t # u => Range(pages[t]) \cap Range(pages[u]) = {}
      /\ Page = Range(freePages) \cup UNION {Range(pages[t]) : t \in Live}
  BY DEF IInv, AllocationOK, PagesOwnedOnce
<1>8. PagesOwnedOnce'
  <2>1. \A t \in Session :
          IsInjective(pages'[t]) /\ Range(pages'[t]) \cap Range(freePages') = {}
    BY <1>1, <1>4, <1>6, <1>7
  <2>2. \A t, u \in Session : t # u => Range(pages'[t]) \cap Range(pages'[u]) = {}
    BY <1>4, <1>6, <1>7
  <2>3. Page = Range(freePages') \cup UNION {Range(pages'[t]) : t \in Live'}
    BY <1>5, <1>6, <1>1, <1>4, <1>7 DEF Live
  <2>4. Page' = Page /\ IsInjective(freePages')
    BY <1>1, <1>4 DEF Page
  <2> QED
    BY <2>1, <2>2, <2>3, <2>4 DEF PagesOwnedOnce
<1>9. AllocationOK'
  BY <1>1, <1>2, <1>4, <1>5, <1>6, <1>8 DEF IInv, AllocationOK, Page, PagesFor
<1>10. /\ cache' = cache /\ transient' = transient /\ prefetch' = prefetch
       /\ pool' = pool /\ writes' = writes /\ snapshots' = snapshots
  BY <1>1
<1>11. CacheOK' /\ WorkspaceOK' /\ Shaped' /\ LeasesHaveAStep'
  BY <1>5, <1>10 DEF IInv, CacheOK, WorkspaceOK, Shaped, SnapshotShaped, LeasesHaveAStep,
     Transient
<1>12. ASSUME NEW l \in Layer, NEW t \in Live', NEW i \in 0 .. Persistent(l, t)' - 1
       PROVE  /\ t \in Live /\ pages'[t] = pages[t] /\ i \in 0 .. Persistent(l, t) - 1
              /\ \A r \in Row : pool[l].host[r] = <<t, i>> => pool'[l].host[r] = <<t, i>>
  BY <1>10, <1>5, <1>6 DEF Persistent, Transient, IInv, CacheOK, EmptyCache, Live
<1>13. HostKeepsHistory'
  BY <1>10, <1>12, HostKept DEF IInv
<1> QED
  BY <1>9, <1>11, <1>13 DEF IInv

(* A release ages the records of its session only, and takes with it all   *)
(* that the session held.                                                  *)
LEMMA ReleaseKeeps ==
  ASSUME IInv, NEW s \in Session, Release(s)
  PROVE  IInv'
<1> DEFINE P(l) == IF Transient(l, s) THEN Leased(Settled(l, s), s) ELSE Settled(l, s)
           L(l) == Superseded(Released(P(l), ReleasedRows(s)), s, 0)
<1>1. /\ MayStep(s) /\ (prefetch # None => prefetch.owner = s)
      /\ session' = [session EXCEPT ![s] = "released"]
      /\ pool' = [l \in Layer |-> L(l)]
      /\ cache' = [l \in Layer |-> [cache[l] EXCEPT ![s] = EmptyCache]]
      /\ transient' = [l \in Layer |-> IF transient[l] = s THEN None ELSE transient[l]]
      /\ prefetch' = WithoutPending(s)
      /\ freePages' = freePages \o pages[s]
      /\ pages' = [pages EXCEPT ![s] = <<>>]
      /\ writes' = writes /\ snapshots' = snapshots
  BY Zenon DEF Release, ReturnedPages
<1>2. s \in Live
  BY <1>1, CallsLive
<1>3. /\ freePages \in Seq(Page) /\ IsInjective(freePages)
      /\ session \in [Session -> {"new", "live", "released"}]
      /\ pages \in [Session -> Seq(Page)]
      /\ \A t \in Session : IsInjective(pages[t]) /\ Range(pages[t]) \cap Range(freePages) = {}
      /\ \A t, u \in Session : t # u => Range(pages[t]) \cap Range(pages[u]) = {}
      /\ Page = Range(freePages) \cup UNION {Range(pages[t]) : t \in Live}
  BY DEF IInv, AllocationOK, PagesOwnedOnce
<1>4. prefetch' = None
  BY <1>1 DEF WithoutPending
<1>5. s \notin Live' /\ Live' = Live \ {s}
  BY <1>1, <1>3 DEF Live
<1>6. pages'[s] = <<>> /\ \A t \in Session \ {s} : pages'[t] = pages[t]
  BY <1>1, <1>3
<1>7. PICK h : h = freePages' /\ h = freePages \o pages[s]
  BY <1>1
<1>8. h \in Seq(Page) /\ IsInjective(h) /\ Range(h) = Range(freePages) \cup Range(pages[s])
  <2>1. pages[s] \in Seq(Page) /\ IsInjective(pages[s])
        /\ Range(freePages) \cap Range(pages[s]) = {}
    BY <1>3
  <2>2. freePages \in Seq(Page) /\ IsInjective(freePages)
    BY <1>3
  <2>3. h = Joined(freePages, pages[s])
    BY <1>7, Zenon DEF Joined
  <2> QED
    BY <2>1, <2>2, <2>3, PagesGiven
<1>9. Range(<<>>) = {} /\ IsInjective(<<>>) /\ <<>> \in Seq(Page)
  BY DEF Range, IsInjective
<1>10. PagesOwnedOnce'
  <2>1. \A t \in Session :
          IsInjective(pages'[t]) /\ Range(pages'[t]) \cap Range(freePages') = {}
    BY <1>6, <1>9, <1>3, <1>7, <1>8
  <2>2. \A t, u \in Session : t # u => Range(pages'[t]) \cap Range(pages'[u]) = {}
    BY <1>6, <1>9, <1>3
  <2>3. Page = Range(freePages') \cup UNION {Range(pages'[t]) : t \in Live'}
    <3>1. \A t \in Live' : t \in Session \ {s}
      BY <1>5 DEF Live
    <3>2. UNION {Range(pages[t]) : t \in Live}
            = Range(pages[s]) \cup UNION {Range(pages[t]) : t \in Live'}
      BY <1>2, <1>5
    <3>3. UNION {Range(pages'[t]) : t \in Live'} = UNION {Range(pages[t]) : t \in Live'}
      BY <1>6, <3>1
    <3> QED
      BY <1>3, <1>7, <1>8, <3>2, <3>3
  <2>4. Page' = Page /\ IsInjective(freePages')
    BY <1>7, <1>8 DEF Page
  <2> QED
    BY <2>1, <2>2, <2>3, <2>4 DEF PagesOwnedOnce
<1>11. AllocationOK'
  BY <1>1, <1>3, <1>7, <1>8, <1>9, <1>5, <1>6, <1>10 DEF IInv, AllocationOK, Page, PagesFor
<1>12. \A l \in Layer : /\ cache'[l][s] = EmptyCache
                        /\ \A t \in Session \ {s} : cache'[l][t] = cache[l][t]
                        /\ DOMAIN cache'[l] = Session
  BY <1>1 DEF IInv, CacheOK
<1>13. CacheOK'
  <2>1. EndsOK(EmptyCache, Capacity[s])
    BY PoolAssumption, SlotsAssumption DEF EndsOK, EmptyCache, CacheState, HostEnd
  <2>2. ASSUME NEW l \in Layer, NEW t \in Session
        PROVE  /\ EndsOK(cache'[l][t], Capacity[t])
               /\ t \notin Live' => cache'[l][t] = EmptyCache
    BY <1>12, <2>1, <1>5 DEF IInv, CacheOK
  <2>3. DOMAIN cache' = Layer
    BY <1>1
  <2> QED
    BY <1>12, <2>2, <2>3 DEF CacheOK
<1>14. WorkspaceOK' /\ LeasesHaveAStep'
  BY <1>1, SlotsAssumption, <1>12, <1>4 DEF IInv, LeasesHaveAStep, Transient, EmptyCache,
     WorkspaceOK
<1>15. \A l \in Layer :
         /\ LayerShaped(L(l))
         /\ \A r \in Row : \A t \in Session, i \in Nat :
              pool[l].host[r] = <<t, i>> /\ t # s => L(l).host[r] = <<t, i>>
  <2>1. SUFFICES ASSUME NEW l \in Layer
                 PROVE  /\ LayerShaped(L(l))
                        /\ \A r \in Row : \A t \in Session, i \in Nat :
                             pool[l].host[r] = <<t, i>> /\ t # s => L(l).host[r] = <<t, i>>
    OBVIOUS
  <2>2. SameHost(pool[l], Settled(l, s)) /\ LayerShaped(Settled(l, s))
    BY SettledKeeps DEF IInv
  <2>3. SameHost(pool[l], P(l)) /\ LayerShaped(P(l))
    BY <2>2, LeasedKeeps DEF SameHost, LayerShaped
  <2> DEFINE R == Released(P(l), ReleasedRows(s))
  <2>4. SameHost(pool[l], R) /\ LayerShaped(R)
    <3> HIDE DEF P
    <3> QED
      BY <2>3, ReleasedKeeps DEF SameHost, LayerShaped
  <2>5. L(l) = Superseded(R, s, 0)
    OBVIOUS
  <2> HIDE DEF R, L
  <2> QED
    BY <2>4, <2>5, SupersededKeeps DEF SameHost
<1> HIDE DEF L, P
<1>16. DOMAIN pool' = Layer /\ \A l \in Layer : pool'[l] = L(l)
  BY <1>1
<1>17. Shaped'
  BY <1>1, <1>15, <1>16 DEF IInv, Shaped, SnapshotShaped
<1>18. ASSUME NEW l \in Layer, NEW t \in Live', NEW i \in 0 .. Persistent(l, t)' - 1
       PROVE  /\ t \in Live /\ pages'[t] = pages[t] /\ i \in 0 .. Persistent(l, t) - 1
              /\ \A r \in Row : pool[l].host[r] = <<t, i>> => pool'[l].host[r] = <<t, i>>
  BY <1>5, <1>12, <1>6, <1>15, <1>16 DEF Live, Persistent, Transient
<1>19. HostKeepsHistory'
  BY <1>1, <1>18, HostKept DEF IInv
<1> QED
  BY <1>11, <1>13, <1>14, <1>17, <1>19 DEF IInv

-----------------------------------------------------------------------------
(* Snapshots. *)

(* Where nothing about the host changes, nothing that it holds changes. *)
LEMMA HistoryUntouched ==
  ASSUME IInv, UNCHANGED <<allocation, pool, cache, writes>>
  PROVE  HostKeepsHistory'
<1>1. Live' = Live /\ pages' = pages
  BY AllocationKept DEF IInv, allocation
<1>2. pool' = pool /\ cache' = cache /\ writes' = writes
  OBVIOUS
<1>3. \A l \in Layer, t \in Session : Persistent(l, t)' = Persistent(l, t)
  BY <1>2 DEF Persistent, Transient
<1>4. ASSUME NEW l \in Layer, NEW t \in Live', NEW i \in 0 .. Persistent(l, t)' - 1
      PROVE  /\ t \in Live /\ pages'[t] = pages[t] /\ i \in 0 .. Persistent(l, t) - 1
             /\ \A r \in Row : pool[l].host[r] = <<t, i>> => pool'[l].host[r] = <<t, i>>
  BY <1>1, <1>2, <1>3 DEF Live
<1>5. HostKeepsHistory /\ AllocationOK /\ CacheOK
  BY DEF IInv
<1> QED
  BY <1>2, <1>4, <1>5, HostKept

(* Taking a snapshot changes nothing but the snapshot. *)
LEMMA TakeSnapshotKeeps ==
  ASSUME IInv, NEW k, TakeSnapshot(k)
  PROVE  IInv'
<1> DEFINE T == [topology |-> session, valid |-> TRUE,
                 layers |-> [l \in Layer |-> DeviceSide(pool[l])],
                 length |-> [l \in Layer |-> [s \in Session |-> cache[l][s].length]]]
<1>1. /\ snapshots' = [snapshots EXCEPT ![k] = T]
      /\ UNCHANGED <<allocation, pool, cache, transient, candidates, prefetch, writes>>
  BY DEF TakeSnapshot
<1>2. \A l \in Layer : DOMAIN DeviceSide(pool[l]) = LayerFields
  BY InvalidatedKeeps DEF IInv, Shaped, SameHost, LayerShaped, DeviceSide
<1>3. \A l \in Layer, s \in Session : cache[l][s].length \in Nat
  BY DEF IInv, CacheOK, EndsOK, CacheState
<1>4. SnapshotShaped(T)
  <2>1. /\ DOMAIN T = {"topology", "valid", "layers", "length"}
        /\ T.layers = [l \in Layer |-> DeviceSide(pool[l])]
        /\ T.length = [l \in Layer |-> [s \in Session |-> cache[l][s].length]]
    OBVIOUS
  <2> HIDE DEF T
  <2>2. T.length \in [Layer -> [Session -> Nat]]
    BY <1>3, <2>1
  <2>3. DOMAIN T.layers = Layer /\ \A l \in Layer : DOMAIN T.layers[l] = LayerFields
    BY <1>2, <2>1
  <2> QED
    BY <2>1, <2>2, <2>3 DEF SnapshotShaped
<1> HIDE DEF T
<1>5. \A j \in DOMAIN snapshots' : SnapshotShaped(snapshots'[j])
  BY <1>1, <1>4 DEF IInv, Shaped
<1>6. /\ cache' = cache /\ transient' = transient /\ prefetch' = prefetch
      /\ pool' = pool /\ writes' = writes
  BY <1>1
<1>7. AllocationOK' /\ Live' = Live /\ pages' = pages
  BY <1>1, AllocationKept DEF IInv, allocation
<1>8. CacheOK' /\ WorkspaceOK' /\ LeasesHaveAStep'
  BY <1>6, <1>7 DEF IInv, CacheOK, WorkspaceOK, LeasesHaveAStep, Transient
<1>9. Shaped'
  BY <1>5, <1>6 DEF IInv, Shaped, SnapshotShaped
<1>10. HostKeepsHistory'
  BY <1>1, HistoryUntouched
<1> QED
  BY <1>7, <1>8, <1>9, <1>10 DEF IInv

(* No session is in a step when a snapshot comes back, so nobody holds     *)
(* anything; the history gets shorter and the host is left alone.          *)
LEMMA RestoreKeeps ==
  ASSUME IInv, NEW k \in DOMAIN snapshots, Restore(k)
  PROVE  IInv'
<1> DEFINE S == snapshots[k]
<1>1. /\ Restorable(S) /\ Quiescent
      /\ pool' = [l \in Layer |-> Restored(pool[l], S.layers[l])]
      /\ cache' = [l \in Layer |-> [s \in Session |-> Shortened(cache[l][s], S.length[l][s])]]
      /\ UNCHANGED <<allocation, transient, candidates, prefetch, writes, snapshots>>
  BY DEF Restore
<1>2. SnapshotShaped(S) /\ S # None
      /\ \A l \in Layer, s \in Session : S.length[l][s] <= cache[l][s].length
  BY <1>1 DEF IInv, Shaped, Restorable
<1> HIDE DEF S
<1>3. /\ S.length \in [Layer -> [Session -> Nat]]
      /\ \A l \in Layer : DOMAIN S.layers[l] = LayerFields
  BY <1>2 DEF SnapshotShaped
<1>4. AllocationOK' /\ Live' = Live /\ pages' = pages
  BY <1>1, AllocationKept DEF IInv, allocation
<1>5. \A l \in Layer, s \in Session : cache'[l][s] = Shortened(cache[l][s], S.length[l][s])
  BY <1>1
<1>6. \A l \in Layer, s \in Session :
        /\ EndsOK(cache'[l][s], Capacity[s])
        /\ cache'[l][s].transientStart = None
        /\ HostEnd(cache'[l][s]) <= HostEnd(cache[l][s])
        /\ HostEnd(cache'[l][s]) \in Nat /\ HostEnd(cache[l][s]) \in Nat
  <2>1. SUFFICES ASSUME NEW l \in Layer, NEW s \in Session
                 PROVE  /\ EndsOK(cache'[l][s], Capacity[s])
                        /\ cache'[l][s].transientStart = None
                        /\ HostEnd(cache'[l][s]) <= HostEnd(cache[l][s])
                        /\ HostEnd(cache'[l][s]) \in Nat /\ HostEnd(cache[l][s]) \in Nat
    OBVIOUS
  <2>2. EndsOK(cache[l][s], Capacity[s]) /\ Capacity[s] \in Nat
    BY PoolAssumption DEF IInv, CacheOK
  <2>3. S.length[l][s] \in Nat /\ S.length[l][s] <= cache[l][s].length
    BY <1>2, <1>3
  <2>4. HostEnd(cache[l][s]) \in Nat
    BY <2>2 DEF EndsOK, HostEnd, CacheState
  <2> QED
    BY <1>5, <2>2, <2>3, <2>4, ShortenedEnds
<1>7. \A l \in Layer, s \in Session : s \notin Live => cache'[l][s] = EmptyCache
  <2>1. SUFFICES ASSUME NEW l \in Layer, NEW s \in Session, s \notin Live
                 PROVE  cache'[l][s] = EmptyCache
    OBVIOUS
  <2>2. cache[l][s] = EmptyCache
    BY <2>1 DEF IInv, CacheOK
  <2>3. S.length[l][s] = 0
    BY <1>2, <1>3, <2>2 DEF EmptyCache
  <2>4. EmptyCache.length = 0 /\ EmptyCache.written = 0
    BY DEF EmptyCache
  <2>5. Shortened(EmptyCache, 0) = EmptyCache
    BY <2>4 DEF Shortened, EmptyCache
  <2> QED
    BY <1>5, <2>2, <2>3, <2>5
<1>8. CacheOK'
  BY <1>1, <1>4, <1>6, <1>7 DEF CacheOK
<1>9. prefetch = None
  BY <1>1 DEF IInv, LeasesHaveAStep, WorkspaceOK, Quiescent, Stepping
<1>10. \A l \in Layer, s \in Session : transient[l] # s
  BY <1>1 DEF IInv, LeasesHaveAStep, Transient, CacheOK, EndsOK, EmptyCache, Quiescent,
     Stepping
<1>11. transient' = transient /\ prefetch' = prefetch /\ writes' = writes
       /\ snapshots' = snapshots
  BY <1>1
<1>12. WorkspaceOK' /\ LeasesHaveAStep'
  BY <1>6, <1>9, <1>10, <1>11 DEF WorkspaceOK, LeasesHaveAStep, Transient
<1>13. \A l \in Layer : LayerShaped(pool'[l]) /\ pool'[l].host = pool[l].host
  <2>1. SUFFICES ASSUME NEW l \in Layer
                 PROVE  LayerShaped(pool'[l]) /\ pool'[l].host = pool[l].host
    OBVIOUS
  <2>2. pool'[l] = Restored(pool[l], S.layers[l])
    BY <1>1
  <2>3. DOMAIN S.layers[l] = LayerFields /\ LayerShaped(pool[l])
    BY <1>3 DEF IInv, Shaped
  <2> QED
    BY <2>2, <2>3 DEF Restored, LayerShaped, LayerFields
<1>14. Shaped'
  BY <1>1, <1>11, <1>13 DEF IInv, Shaped, SnapshotShaped
<1>15. ASSUME NEW l \in Layer, NEW t \in Live', NEW i \in 0 .. Persistent(l, t)' - 1
       PROVE  /\ t \in Live /\ pages'[t] = pages[t] /\ i \in 0 .. Persistent(l, t) - 1
              /\ \A r \in Row : pool[l].host[r] = <<t, i>> => pool'[l].host[r] = <<t, i>>
  BY <1>4, <1>6, <1>13 DEF Live, Persistent, HostEnd, Transient
<1>16. HostKeepsHistory'
  BY <1>11, <1>15, HostKept DEF IInv
<1> QED
  BY <1>4, <1>8, <1>12, <1>14, <1>16 DEF IInv

-----------------------------------------------------------------------------
(* The initial state. *)

(* All pages are free, in descending order. *)
LEMMA InitiallyFree ==
  ASSUME Init
  PROVE  AllocationOK
<1> DEFINE n == Rows \div PageTokens
<1>1. n \in Nat
  BY PoolAssumption, SlotsAssumption, Division
<1> HIDE DEF n
<1>2. freePages = [k \in 1 .. n |-> n - k] /\ Page = 0 .. n - 1
  BY DEF Init, Page, n
<1>3. freePages \in [1 .. n -> Page]
  BY <1>1, <1>2
<1>4. freePages \in Seq(Page) /\ DOMAIN freePages = 1 .. n
  BY <1>1, <1>3, IntervalIsSequence
<1>5. IsInjective(freePages)
  BY <1>4, <1>2, <1>1 DEF IsInjective
<1>6. Page = Range(freePages)
  <2>1. ASSUME NEW p \in Page PROVE p \in Range(freePages)
    <3>1. PICK k \in 1 .. n : k = n - p
      BY <1>1, <1>2
    <3>2. freePages[k] = p
      BY <1>1, <1>2, <3>1
    <3> QED
      BY <1>4, <3>2 DEF Range
  <2>2. ASSUME NEW p \in Range(freePages) PROVE p \in Page
    <3>1. PICK k \in 1 .. n : freePages[k] = p
      BY <1>4 DEF Range
    <3> QED
      BY <1>3, <3>1
  <2> QED
    BY <2>1, <2>2
<1>7. session = [s \in Session |-> "new"] /\ pages = [s \in Session |-> <<>>]
  BY DEF Init
<1>8. Live = {}
  BY <1>7 DEF Live
<1>9. Range(<<>>) = {} /\ IsInjective(<<>>) /\ <<>> \in Seq(Page)
  BY DEF Range, IsInjective
<1>10. PagesOwnedOnce
  BY <1>5, <1>6, <1>7, <1>8, <1>9 DEF PagesOwnedOnce
<1> QED
  BY <1>4, <1>7, <1>8, <1>9, <1>10 DEF AllocationOK

(* Nobody is live, and nothing is leased. *)
LEMMA InitHolds ==
  ASSUME Init
  PROVE  IInv
<1>1. AllocationOK
  BY InitiallyFree
<1>2. Live = {}
  BY DEF Init, Live
<1>3. \A l \in Layer, s \in Session : cache[l][s] = EmptyCache
  BY DEF Init
<1>4. CacheOK
  BY PoolAssumption, SlotsAssumption, <1>3 DEF EndsOK, EmptyCache, CacheState, HostEnd, Init,
     CacheOK
<1>5. prefetch = None /\ WorkspaceOK
  BY DEF Init, WorkspaceOK
<1>6. LeasesHaveAStep
  BY SlotsAssumption, <1>3, <1>5 DEF Init, LeasesHaveAStep, Transient, EmptyCache
<1>7. HostKeepsHistory
  BY <1>2 DEF HostKeepsHistory
<1>8. Shaped
  BY DEF LayerShaped, EmptyLayer, LayerFields, Init, SnapshotShaped, Shaped
<1> QED
  BY <1>1, <1>4, <1>5, <1>6, <1>7, <1>8 DEF IInv

-----------------------------------------------------------------------------
(* The theorems. *)

(* Nothing happens. *)
LEMMA StutterKeeps ==
  ASSUME IInv, UNCHANGED vars
  PROVE  IInv'
<1>1. /\ UNCHANGED allocation
      /\ pool' = pool /\ cache' = cache /\ transient' = transient /\ prefetch' = prefetch
      /\ writes' = writes /\ snapshots' = snapshots
  BY DEF vars
<1>2. AllocationOK' /\ Live' = Live /\ pages' = pages
  BY <1>1, AllocationKept DEF IInv, allocation
<1>3. CacheOK' /\ WorkspaceOK' /\ LeasesHaveAStep'
  BY <1>1, <1>2 DEF IInv, CacheOK, WorkspaceOK, LeasesHaveAStep, Transient
<1>4. Shaped'
  BY <1>1 DEF IInv, Shaped, SnapshotShaped
<1>5. HostKeepsHistory'
  BY <1>1, HistoryUntouched
<1> QED
  BY <1>2, <1>3, <1>4, <1>5 DEF IInv

(* Any call of one session on one layer. *)
LEMMA StepKeeps ==
  ASSUME IInv, NEW l \in Layer, NEW s \in Session, Step(l, s)
  PROVE  IInv'
<1>1. CASE \E count \in 1 .. Capacity[s] :
             \/ BeginStep(l, s, count) \/ BeginTransient(l, s, count)
             \/ AppendRecords(l, s, count) \/ AppendFails(l, s, count)
             \/ AppendTransient(l, s, count)
             \/ PreparePrefetch(l, s, count)
  BY <1>1, PoolAssumption, BeginStepKeeps, BeginTransientKeeps, AppendRecordsKeeps,
     AppendFailsKeeps, AppendTransientKeeps, PreparePrefetchKeeps
<1>2. CASE \E selection \in SUBSET (0 .. Capacity[s] + CandidateSlots - 1) :
             \/ \E uncounted \in BOOLEAN : Ensure(l, s, selection, uncounted)
             \/ EnsureFails(l, s, selection)
  BY <1>2, EnsureKeeps, EnsureFailsKeeps
<1>3. CASE \E i \in Index(s) : Claim(l, s, i)
  BY <1>3, ClaimKeeps
<1>4. CASE FinalizePrefetch(l, s)
  BY <1>4, FinalizePrefetchKeeps
<1>5. CASE Commit(l, s)
  BY <1>5, CommitKeeps
<1>6. CASE Rollback(l, s)
  BY <1>6, RollbackKeeps
<1>7. CASE RollbackRefused(l, s)
  BY <1>7, RollbackRefusedKeeps
<1>8. CASE DiscardTransient(l, s)
  BY <1>8, DiscardTransientKeeps
<1>9. CASE \E length \in 0 .. Capacity[s] : Truncate(l, s, length)
  BY <1>9, PoolAssumption, TruncateKeeps
<1> QED
  BY <1>1, <1>2, <1>3, <1>4, <1>5, <1>6, <1>7, <1>8, <1>9, Zenon DEF Step

(* Any step of the pool. *)
LEMMA NextKeeps ==
  ASSUME IInv, [Next]_vars
  PROVE  IInv'
<1>1. CASE \E s \in Session : Allocate(s) \/ Release(s)
  BY <1>1, AllocateKeeps, ReleaseKeeps
<1>2. CASE \E l \in Layer, s \in Session : Step(l, s)
  BY <1>2, StepKeeps
<1>3. CASE HostWrite
  BY <1>3, HostWriteKeeps
<1>4. CASE \E k \in DOMAIN snapshots : TakeSnapshot(k) \/ Restore(k)
  BY <1>4, TakeSnapshotKeeps, RestoreKeeps
<1>5. CASE UNCHANGED vars
  BY <1>5, StutterKeeps
<1> QED
  BY <1>1, <1>2, <1>3, <1>4, <1>5 DEF Next

(* The inductive invariant holds in every state that the pool can reach,   *)
(* whatever the order of the calls and of the copies.                      *)
THEOREM Invariant == Spec => []IInv
<1>1. Init => IInv
  BY InitHolds
<1>2. IInv /\ [Next]_vars => IInv'
  BY NextKeeps
<1> QED
  BY <1>1, <1>2, PTL DEF Spec

(* Allocation and release never give a host page to two sessions and never *)
(* lose one (_allocate_host_pages, release_session).                       *)
THEOREM PagesAreOwnedOnce == Spec => []PagesOwnedOnce
<1>1. IInv => PagesOwnedOnce
  BY DEF IInv, AllocationOK
<1> QED
  BY <1>1, Invariant, PTL

(* Every persistent token of a live session is in its host row or on its   *)
(* way there: an eviction never drops the only copy, and neither do an     *)
(* overlapping step, a failed one, a truncation, a restore or the reuse of *)
(* a page.                                                                 *)
THEOREM HistoryStaysInHost == Spec => []HostKeepsHistory
<1>1. IInv => HostKeepsHistory
  BY DEF IInv
<1> QED
  BY <1>1, Invariant, PTL

(* Steps of several sessions that overlap on a layer lose no record, and   *)
(* the workspace and the candidate rows are held by a step that is still   *)
(* going to give them back, also after a rollback was refused.             *)
THEOREM StepsStayApart == Spec => []StepsKeepApart
<1>1. IInv => StepsKeepApart
  BY DEF IInv, StepsKeepApart
<1> QED
  BY <1>1, Invariant, PTL

-----------------------------------------------------------------------------
(* The device side. *)

-----------------------------------------------------------------------------
(* The argsort of the slots. *)

(* Who is ahead of a slot has fewer slots ahead of it. *)
LEMMA AheadGrows ==
  ASSUME NEW S, IsFiniteSet(S), S \subseteq Nat, NEW age, \A x \in S : age[x] \in Int,
         NEW x \in S, NEW y \in S
  PROVE  /\ IsFiniteSet(Ahead(S, age, x))
         /\ Cardinality(Ahead(S, age, x)) \in 0 .. Cardinality(S) - 1
         /\ x # y => \/ x \in Ahead(S, age, y) /\ y \notin Ahead(S, age, x)
                     \/ y \in Ahead(S, age, x) /\ x \notin Ahead(S, age, y)
         /\ y \in Ahead(S, age, x)
              => Cardinality(Ahead(S, age, y)) < Cardinality(Ahead(S, age, x))
<1>1. \A z \in S : Ahead(S, age, z) \subseteq S /\ z \notin Ahead(S, age, z)
  BY DEF Ahead
<1>2. \A z \in S : /\ IsFiniteSet(Ahead(S, age, z)) /\ Cardinality(Ahead(S, age, z)) \in Nat
                   /\ Cardinality(Ahead(S, age, z)) <= Cardinality(S)
  BY <1>1, FS_Subset, FS_CardinalityType
<1>3. Cardinality(S) \in Nat
  BY FS_CardinalityType
<1>4. Cardinality(Ahead(S, age, x)) # Cardinality(S)
  BY <1>1, FS_Subset
<1>5. x # y => \/ x \in Ahead(S, age, y) /\ y \notin Ahead(S, age, x)
               \/ y \in Ahead(S, age, x) /\ x \notin Ahead(S, age, y)
  BY DEF Ahead
<1>6. ASSUME y \in Ahead(S, age, x)
      PROVE  Cardinality(Ahead(S, age, y)) < Cardinality(Ahead(S, age, x))
  <2>1. Ahead(S, age, y) \subseteq Ahead(S, age, x)
    <3>1. SUFFICES ASSUME NEW z \in Ahead(S, age, y) PROVE z \in Ahead(S, age, x)
      OBVIOUS
    <3>2. /\ z \in S /\ (age[z] < age[y] \/ (age[z] = age[y] /\ z < y))
          /\ age[y] < age[x] \/ (age[y] = age[x] /\ y < x)
      BY <1>6, <3>1 DEF Ahead
    <3>3. /\ x \in Nat /\ y \in Nat /\ z \in Nat
          /\ age[x] \in Int /\ age[y] \in Int /\ age[z] \in Int
      BY <3>2
    <3>4. age[z] < age[x] \/ (age[z] = age[x] /\ z < x)
      BY <3>2, <3>3
    <3> QED
      BY <3>2, <3>4 DEF Ahead
  <2>2. Ahead(S, age, y) # Ahead(S, age, x)
    BY <1>1, <1>6
  <2>3. /\ Cardinality(Ahead(S, age, y)) <= Cardinality(Ahead(S, age, x))
        /\ Cardinality(Ahead(S, age, y)) # Cardinality(Ahead(S, age, x))
    BY <1>2, <2>1, <2>2, FS_Subset
  <2> QED
    BY <1>2, <2>3
<1> QED
  BY <1>2, <1>3, <1>4, <1>5, <1>6

(* A list of a finite set: every element once. *)
Lists(q, S) ==
  /\ q \in [1 .. Cardinality(S) -> S] /\ IsInjective(q)
  /\ \A x \in S : \E k \in 1 .. Cardinality(S) : q[k] = x

(* The place of an element in a list is the number of those ahead of it. *)
Ranked(q, S, age) ==
  \A x \in S, k \in 1 .. Cardinality(S) :
    q[k] = x <=> Cardinality(Ahead(S, age, x)) = k - 1

(* The argsort lists its set, and the k-th element has k - 1 ahead of it. *)
LEMMA OldestLists ==
  ASSUME NEW S, IsFiniteSet(S), S \subseteq Nat, NEW age, \A x \in S : age[x] \in Int
  PROVE  /\ Cardinality(S) \in Nat /\ Lists(Oldest(S, age), S)
         /\ Ranked(Oldest(S, age), S, age)
         /\ \A j, k \in 1 .. Cardinality(S) :
              j < k <=> Oldest(S, age)[j] \in Ahead(S, age, Oldest(S, age)[k])
<1> DEFINE n == Cardinality(S)
           q == Oldest(S, age)
           f == [x \in S |-> Cardinality(Ahead(S, age, x))]
<1>1. n \in Nat
  BY FS_CardinalityType
<1>2. f \in [S -> 0 .. n - 1]
  BY AheadGrows
<1>3. \A x, y \in S : x # y => f[x] # f[y]
  <2>1. SUFFICES ASSUME NEW x \in S, NEW y \in S, x # y PROVE f[x] # f[y]
    OBVIOUS
  <2>2. f[x] < f[y] \/ f[y] < f[x]
    BY <2>1, AheadGrows
  <2>3. f[x] \in Nat /\ f[y] \in Nat
    BY <1>2
  <2> HIDE DEF f
  <2> QED
    BY <2>2, <2>3
<1>4. f \in Injection(S, 0 .. n - 1)
  BY <1>2, <1>3 DEF Injection, IsInjective
<1>5. IsFiniteSet(0 .. n - 1) /\ Cardinality(0 .. n - 1) = n
  <2> HIDE DEF n
  <2> QED
    BY <1>1, FS_Interval
<1>6. f \in Surjection(S, 0 .. n - 1)
  BY <1>4, <1>5, FS_Injection
<1>7. \A k \in 1 .. n : \E x \in S : f[x] = k - 1
  <2> HIDE DEF f, n
  <2>1. \A t \in 0 .. n - 1 : \E x \in S : f[x] = t
    BY <1>6 DEF Surjection
  <2> QED
    BY <1>1, <2>1
<1>8. \A k \in 1 .. n : q[k] = CHOOSE x \in S : f[x] = k - 1
  BY DEF Oldest
<1>9. DOMAIN q = 1 .. n /\ q = [k \in 1 .. n |-> q[k]]
  BY DEF Oldest
<1>10. /\ \A x \in S : f[x] = Cardinality(Ahead(S, age, x))
       /\ \A x, y \in S : y \in Ahead(S, age, x) => f[y] < f[x]
  BY AheadGrows
<1> HIDE DEF f, q, n
<1>11. \A k \in 1 .. n : q[k] \in S /\ f[q[k]] = k - 1
  BY <1>7, <1>8
<1>12. \A x \in S, k \in 1 .. n : q[k] = x <=> f[x] = k - 1
  BY <1>3, <1>11
<1>13. q \in [1 .. n -> S] /\ IsInjective(q)
  BY <1>9, <1>11, <1>1 DEF IsInjective
<1>14. \A x \in S : \E k \in 1 .. n : q[k] = x
  BY <1>2, <1>1, <1>12
<1>15. ASSUME NEW j \in 1 .. n, NEW k \in 1 .. n
       PROVE  j < k <=> q[j] \in Ahead(S, age, q[k])
  <2>1. q[j] \in S /\ q[k] \in S /\ f[q[j]] = j - 1 /\ f[q[k]] = k - 1
    BY <1>11
  <2>2. j \in Nat /\ k \in Nat
    BY <1>1
  <2>3. q[j] \in Ahead(S, age, q[k]) => f[q[j]] < f[q[k]]
    BY <1>10, <2>1
  <2>4. q[k] \in Ahead(S, age, q[j]) => f[q[k]] < f[q[j]]
    BY <1>10, <2>1
  <2>5. q[j] # q[k] => q[j] \in Ahead(S, age, q[k]) \/ q[k] \in Ahead(S, age, q[j])
    BY <2>1, AheadGrows
  <2> QED
    BY <2>1, <2>2, <2>3, <2>4, <2>5
<1> QED
  BY <1>1, <1>10, <1>12, <1>13, <1>14, <1>15 DEF Lists, Ranked, n, q

-----------------------------------------------------------------------------
(* One layer: its maps and its ages. *)

Mirrors(L) == \A r \in Row, x \in Slot : L.h2d[r] = x <=> L.d2h[x] = r

(* Where slots are claimed but not yet stamped (C), the ages are not yet   *)
(* those of the maps.                                                      *)
AgesOK(L, C) ==
  /\ \A x \in Slot \ C : L.priority[x] = -1 <=> L.d2h[x] = None
  /\ \A x \in C : L.d2h[x] # None
  /\ \A x \in Slot : L.priority[x] < L.clock

Flagged(L, C) == \A x \in Slot \ C : L.free[x] <=> L.d2h[x] = None

LayerOK(L, C) == L \in LayerState /\ Mirrors(L) /\ AgesOK(L, C)

SameMaps(L, M) ==
  /\ M.h2d = L.h2d /\ M.d2h = L.d2h /\ M.priority = L.priority
  /\ M.free = L.free /\ M.clock = L.clock

SameContent(L, M) == M.records = L.records /\ M.host = L.host

SameProofs(L, M) ==
  M.lease = L.lease /\ M.resident = L.resident /\ M.plan = L.plan

(* What the fields of a layer are. *)
LEMMA LayerTyped ==
  ASSUME NEW L \in LayerState
  PROVE  /\ DOMAIN L = LayerFields
         /\ L.h2d \in [Row -> Slot \cup {None}] /\ L.d2h \in [Slot -> Row \cup {None}]
         /\ L.priority \in [Slot -> -1 .. Limit] /\ L.free \in [Slot -> BOOLEAN]
         /\ L.clock \in 0 .. Limit /\ L.lease \in Session \cup {None}
         /\ L.resident \in [owner : Session \cup {None}, end : Nat]
         /\ L.plan \in [owner : Session \cup {None}, cursor : Nat, order : Seq(Slot)]
         /\ L.records \in [Slot -> Record] /\ L.host \in [Row -> Record]
  BY DEF LayerState, LayerFields

(* Equal maps are in order alike. *)
LEMMA SameMapsOK ==
  ASSUME NEW L, NEW C, LayerOK(L, C), NEW M \in LayerState, SameMaps(L, M)
  PROVE  LayerOK(M, C) /\ (Flagged(L, C) => Flagged(M, C))
  BY DEF LayerOK, Mirrors, AgesOK, Flagged, SameMaps

(* Giving up the proofs. *)
LEMMA InvalidatedIs ==
  ASSUME NEW L \in LayerState
  PROVE  /\ Invalidated(L) \in LayerState /\ SameMaps(L, Invalidated(L))
         /\ SameContent(L, Invalidated(L)) /\ Invalidated(L).lease = L.lease
         /\ Invalidated(L).resident = NoResidency /\ Invalidated(L).plan = NoPlan
<1>1. NoResidency \in [owner : Session \cup {None}, end : Nat]
  BY DEF NoResidency
<1>2. NoPlan \in [owner : Session \cup {None}, cursor : Nat, order : Seq(Slot)]
  BY EmptySeq DEF NoPlan
<1>3. [L EXCEPT !.resident = NoResidency, !.plan = NoPlan] \in LayerState
  BY <1>1, <1>2 DEF LayerState
<1> QED
  BY <1>3, LayerTyped DEF Invalidated, SameMaps, SameContent, LayerFields

(* Giving up the plan only. *)
LEMMA WithoutPlanIs ==
  ASSUME NEW L \in LayerState
  PROVE  /\ WithoutPlan(L) \in LayerState /\ SameMaps(L, WithoutPlan(L))
         /\ SameContent(L, WithoutPlan(L)) /\ WithoutPlan(L).lease = L.lease
         /\ WithoutPlan(L).resident = L.resident /\ WithoutPlan(L).plan = NoPlan
<1>2. NoPlan \in [owner : Session \cup {None}, cursor : Nat, order : Seq(Slot)]
  BY EmptySeq DEF NoPlan
<1>3. [L EXCEPT !.plan = NoPlan] \in LayerState
  BY <1>2 DEF LayerState
<1> QED
  BY <1>3, LayerTyped DEF WithoutPlan, SameMaps, SameContent, LayerFields

(* The lease goes to session s; who had it already keeps the proofs. *)
LEMMA LeasedIs ==
  ASSUME NEW L \in LayerState, NEW s \in Session
  PROVE  /\ Leased(L, s) \in LayerState /\ SameMaps(L, Leased(L, s))
         /\ SameContent(L, Leased(L, s)) /\ Leased(L, s).lease = s
         /\ \/ L.lease = s /\ SameProofs(L, Leased(L, s))
            \/ /\ Leased(L, s).resident = NoResidency
               /\ Leased(L, s).plan = NoPlan
<1> DEFINE I == Invalidated(L)
           M == [I EXCEPT !.lease = s]
<1>1. /\ I \in LayerState /\ SameMaps(L, I) /\ SameContent(L, I)
      /\ I.resident = NoResidency /\ I.plan = NoPlan
  BY InvalidatedIs
<1>2. Leased(L, s) = IF L.lease = s THEN L ELSE M
  BY DEF Leased
<1> HIDE DEF I
<1>3. M \in LayerState
  BY <1>1 DEF LayerState
<1>4. SameMaps(I, M) /\ SameContent(I, M) /\ M.resident = I.resident /\ M.plan = I.plan
      /\ M.lease = s
  BY <1>1, LayerTyped DEF SameMaps, SameContent, LayerFields
<1> HIDE DEF M
<1> QED
  BY <1>1, <1>2, <1>3, <1>4 DEF SameMaps, SameContent, SameProofs

(* A new residency proof, and the plan's cursor with it. *)
LEMMA CertifiedIs ==
  ASSUME NEW L \in LayerState, NEW s \in Session, NEW end \in Nat
  PROVE  /\ Certified(L, s, end) \in LayerState /\ SameMaps(L, Certified(L, s, end))
         /\ SameContent(L, Certified(L, s, end)) /\ Certified(L, s, end).lease = L.lease
         /\ Certified(L, s, end).resident = [owner |-> s, end |-> end]
         /\ Certified(L, s, end).plan = [owner |-> s, cursor |-> end, order |-> L.plan.order]
<1> DEFINE p == [L.plan EXCEPT !.owner = s, !.cursor = end]
           r == [owner |-> s, end |-> end]
           M == [L EXCEPT !.resident = r, !.plan = p]
<1>1. Certified(L, s, end) = M
  BY DEF Certified
<1>2. L.plan \in [owner : Session \cup {None}, cursor : Nat, order : Seq(Slot)]
  BY LayerTyped
<1>3. /\ p \in [owner : Session \cup {None}, cursor : Nat, order : Seq(Slot)]
      /\ p = [owner |-> s, cursor |-> end, order |-> L.plan.order]
  <2>1. p \in [owner : Session \cup {None}, cursor : Nat, order : Seq(Slot)]
    BY <1>2
  <2>2. p.owner = s /\ p.cursor = end /\ p.order = L.plan.order
    BY <1>2
  <2> HIDE DEF p
  <2>3. p = [owner |-> s, cursor |-> end, order |-> L.plan.order]
    BY <2>1, <2>2
  <2> QED
    BY <2>1, <2>3
<1>4. r \in [owner : Session \cup {None}, end : Nat]
  OBVIOUS
<1> HIDE DEF p, r
<1>5. M \in LayerState
  BY <1>3, <1>4 DEF LayerState
<1>6. SameMaps(L, M) /\ SameContent(L, M) /\ M.lease = L.lease /\ M.resident = r /\ M.plan = p
  BY LayerTyped DEF SameMaps, SameContent, LayerFields
<1> QED
  BY <1>1, <1>3, <1>5, <1>6 DEF r

-----------------------------------------------------------------------------
(* The clock. *)

(* The slots are finitely many. *)
LEMMA SlotsAreFinite ==
  /\ IsFiniteSet(Slot) /\ Cardinality(Slot) = Slots /\ Slots \in Nat \ {0}
  /\ \A S \in SUBSET Slot : /\ IsFiniteSet(S) /\ Cardinality(S) \in Nat
                            /\ Cardinality(S) <= Slots
<1>1. IsFiniteSet(Slot) /\ Cardinality(Slot) = Slots /\ Slots \in Nat \ {0}
  BY FS_Interval, SlotsAssumption DEF Slot
<1> QED
  BY <1>1, FS_Subset, FS_CardinalityType

(* Where two slots keep their rows, the age of the older stays below that  *)
(* of the younger; what is not among the newest n events is so before.     *)
OrderKept(L, M) ==
  \A x, y \in Slot : L.d2h[x] # None /\ L.d2h[y] # None
    => (L.priority[x] < L.priority[y] <=> M.priority[x] < M.priority[y])

(* Normalisation replaces ages by ranks; there is room for one event then. *)
LEMMA NormalisedIs ==
  ASSUME NEW L, NEW C \in SUBSET Slot, LayerOK(L, C)
  PROVE  LET N == Normalised(L) IN
         /\ LayerOK(N, C) /\ N.clock < Limit
         /\ N.h2d = L.h2d /\ N.d2h = L.d2h /\ N.free = L.free
         /\ SameContent(L, N) /\ SameProofs(L, N) /\ OrderKept(L, N)
         /\ \A x \in Slot : L.d2h[x] = None => N.priority[x] = L.priority[x]
         /\ \A x \in Slot : L.d2h[x] # None /\ N.priority[x] < N.clock - 1
              => L.priority[x] < L.clock - 1
<1> DEFINE N == Normalised(L)
           live == {x \in Slot : L.d2h[x] # None}
           V == {L.priority[x] : x \in live}
           M == [L EXCEPT !.priority = [x \in Slot |-> IF x \in live THEN Below(V, L.priority[x])
                                                       ELSE L.priority[x]],
                          !.clock = Cardinality(V)]
<1>1. /\ L \in LayerState /\ Mirrors(L) /\ AgesOK(L, C)
      /\ L.priority \in [Slot -> -1 .. Limit] /\ L.clock \in 0 .. Limit
      /\ DOMAIN L = LayerFields
  BY LayerTyped DEF LayerOK
<1>2. N = IF L.clock < Limit THEN L ELSE M
  BY <1>1 DEF Normalised, Updated, Below
<1>3. CASE L.clock < Limit
  BY <1>1, <1>2, <1>3 DEF LayerOK, SameContent, SameProofs, OrderKept
<1>4. CASE ~(L.clock < Limit)
  <2>1. N = M
    BY <1>2, <1>4
  <2> DEFINE p == [x \in Slot |-> IF x \in live THEN Below(V, L.priority[x])
                                  ELSE L.priority[x]]
             n == Cardinality(V)
  <2>2. live \in SUBSET Slot /\ V \in SUBSET Int
    BY <1>1, SlotsAssumption
  <2>3. IsFiniteSet(V) /\ n \in Nat /\ n < Limit
    <3>1. IsFiniteSet(live) /\ Cardinality(live) \in Nat /\ Cardinality(live) <= Slots
      BY <2>2, SlotsAreFinite
    <3> HIDE DEF live
    <3>2. IsFiniteSet(V) /\ Cardinality(V) \in Nat /\ Cardinality(V) <= Cardinality(live)
      BY <3>1, ImagesCount
    <3> QED
      BY <3>1, <3>2, SlotsAssumption
  <2>4. \A x \in live : L.priority[x] \in V
    OBVIOUS
  <2>5. \A x \in Slot : IF x \in live THEN p[x] = Below(V, L.priority[x]) /\ p[x] \in 0 .. n - 1
                        ELSE p[x] = L.priority[x] /\ p[x] = -1 /\ L.d2h[x] = None
    <3>1. ASSUME NEW x \in live PROVE p[x] = Below(V, L.priority[x]) /\ p[x] \in 0 .. n - 1
      <4>1. p[x] = Below(V, L.priority[x]) /\ L.priority[x] \in V
        BY <2>4
      <4> HIDE DEF V, p
      <4> QED
        BY <2>2, <2>3, <4>1, RanksKeepOrder
    <3>2. ASSUME NEW x \in Slot \ live
          PROVE p[x] = L.priority[x] /\ p[x] = -1 /\ L.d2h[x] = None
      BY <1>1 DEF AgesOK
    <3> QED
      BY <3>1, <3>2
  <2>6. /\ M.priority = p /\ M.clock = n /\ M.h2d = L.h2d /\ M.d2h = L.d2h /\ M.free = L.free
        /\ SameContent(L, M) /\ SameProofs(L, M)
    BY <1>1 DEF SameContent, SameProofs, LayerFields
  <2>7. M \in LayerState
    <3>1. p \in [Slot -> -1 .. Limit] /\ n \in 0 .. Limit
      <4>1. DOMAIN p = Slot /\ p = [x \in Slot |-> p[x]]
        OBVIOUS
      <4> HIDE DEF p, V, live
      <4>2. \A x \in Slot : p[x] \in -1 .. Limit
        BY <2>3, <2>5, SlotsAssumption
      <4> QED
        BY <2>3, <4>1, <4>2, SlotsAssumption
    <3>2. M = [L EXCEPT !.priority = p, !.clock = n]
      OBVIOUS
    <3> HIDE DEF p, n, M
    <3> QED
      BY <1>1, <3>1, <3>2 DEF LayerState
  <2>8. Mirrors(M)
    BY <1>1, <2>6 DEF Mirrors
  <2>9. AgesOK(M, C)
    <3>1. \A x \in Slot : x \in live <=> L.d2h[x] # None
      OBVIOUS
    <3> HIDE DEF p, n, M, live, V
    <3> QED
      BY <1>1, <2>3, <2>5, <2>6, <3>1 DEF AgesOK
  <2>10. OrderKept(L, M)
    <3>1. SUFFICES ASSUME NEW x \in live, NEW y \in live
                   PROVE  L.priority[x] < L.priority[y] <=> p[x] < p[y]
      BY <2>6 DEF OrderKept
    <3>2. L.priority[x] \in V /\ L.priority[y] \in V
      BY <2>4
    <3>3. p[x] = Below(V, L.priority[x]) /\ p[y] = Below(V, L.priority[y])
      BY <2>2, <2>5
    <3> HIDE DEF V, p
    <3>4. \A w \in V : L.priority[x] < w <=> Below(V, L.priority[x]) < Below(V, w)
      BY <2>2, <2>3, <3>2, RanksKeepOrder
    <3> QED
      BY <3>2, <3>3, <3>4
  <2>11. ASSUME NEW x \in live, p[x] < n - 1 PROVE L.priority[x] < L.clock - 1
    <3>1. L.priority[x] \in V /\ p[x] = Below(V, L.priority[x])
      BY <2>2, <2>4, <2>5
    <3>2. \E w \in V : L.priority[x] < w
      <4> DEFINE v == L.priority[x]
      <4>1. Below(V, v) < Cardinality(V) - 1 /\ v \in V
        BY <2>11, <3>1
      <4> HIDE DEF V, p, v, n, live, M
      <4>2. \E w \in V : v < w
        BY <2>2, <2>3, <4>1, RanksKeepOrder
      <4> QED
        BY <4>2 DEF v
    <3>3. PICK y \in live : L.priority[x] < L.priority[y]
      BY <3>2
    <3>4. L.priority[y] < L.clock /\ x \in Slot /\ y \in Slot
      BY <1>1, <2>2 DEF AgesOK
    <3> QED
      BY <1>1, <3>3, <3>4, SlotsAssumption
  <2>12. \A x \in Slot : L.d2h[x] = None => p[x] = L.priority[x]
    OBVIOUS
  <2>13. \A x \in Slot : L.d2h[x] # None => x \in live
    OBVIOUS
  <2> HIDE DEF p, n, M, N, live, V
  <2> QED
    BY <2>1, <2>3, <2>6, <2>7, <2>8, <2>9, <2>10, <2>11, <2>12, <2>13 DEF LayerOK, N
<1> QED
  BY <1>3, <1>4

-----------------------------------------------------------------------------
(* Age events, and rows that move into slots. *)

(* The age event that made M out of L, by which slots became the newest. *)
Newest(L, M, slots) ==
  /\ \A x \in slots : M.priority[x] = M.clock - 1
  /\ \A x \in Slot \ slots : /\ M.priority[x] < M.clock - 1
                             /\ L.d2h[x] = None => M.priority[x] = L.priority[x]
  /\ \A x, y \in Slot \ slots : L.d2h[x] # None /\ L.d2h[y] # None
       => (L.priority[x] < L.priority[y] <=> M.priority[x] < M.priority[y])
  /\ \A x \in Slot : L.d2h[x] # None /\ M.priority[x] < M.clock - 2
       => x \notin slots /\ L.priority[x] < L.clock - 1

(* One event of the clock. *)
LEMMA StampedIs ==
  ASSUME NEW L, NEW C \in SUBSET Slot, LayerOK(L, C), NEW slots \in SUBSET Slot,
         \A x \in slots : L.d2h[x] # None
  PROVE  LET M == Stamped(L, slots) IN
         /\ LayerOK(M, C \ slots)
         /\ M.h2d = L.h2d /\ M.d2h = L.d2h /\ M.free = L.free
         /\ SameContent(L, M) /\ SameProofs(L, M) /\ Newest(L, M, slots)
<1> DEFINE N == Normalised(L)
           p == [x \in Slot |-> IF x \in slots THEN N.clock ELSE N.priority[x]]
           M == [N EXCEPT !.priority = p, !.clock = N.clock + 1]
<1>1. /\ LayerOK(N, C) /\ N.clock < Limit
      /\ N.h2d = L.h2d /\ N.d2h = L.d2h /\ N.free = L.free
      /\ SameContent(L, N) /\ SameProofs(L, N) /\ OrderKept(L, N)
      /\ \A x \in Slot : L.d2h[x] = None => N.priority[x] = L.priority[x]
      /\ \A x \in Slot : L.d2h[x] # None /\ N.priority[x] < N.clock - 1
           => L.priority[x] < L.clock - 1
  BY NormalisedIs
<1> HIDE DEF N
<1>2. /\ N \in LayerState /\ Mirrors(N) /\ AgesOK(N, C)
      /\ N.priority \in [Slot -> -1 .. Limit] /\ N.clock \in 0 .. Limit
      /\ DOMAIN N = LayerFields
  BY <1>1, LayerTyped DEF LayerOK
<1>3. Stamped(L, slots) = M
  BY <1>2 DEF Stamped, Updated, Filled, N
<1>4. /\ M.priority = p /\ M.clock = N.clock + 1 /\ M.h2d = N.h2d /\ M.d2h = N.d2h
      /\ M.free = N.free /\ SameContent(N, M) /\ SameProofs(N, M)
  BY <1>2 DEF SameContent, SameProofs, LayerFields
<1>5. p \in [Slot -> -1 .. Limit] /\ N.clock + 1 \in 0 .. Limit
      /\ \A x \in Slot : p[x] = IF x \in slots THEN N.clock ELSE N.priority[x]
  BY <1>1, <1>2, SlotsAssumption
<1> HIDE DEF p
<1>6. M \in LayerState
  BY <1>2, <1>5 DEF LayerState
<1>7. Mirrors(M)
  BY <1>2, <1>4 DEF Mirrors
<1> HIDE DEF M
<1>8. AgesOK(M, C \ slots)
  BY <1>2, <1>4, <1>5, SlotsAssumption, <1>1 DEF AgesOK
<1>9. Newest(L, M, slots)
  BY <1>2, <1>4, <1>5, <1>1 DEF AgesOK, OrderKept, Newest
<1> QED
  BY <1>1, <1>3, <1>4, <1>6, <1>7, <1>8, <1>9 DEF LayerOK, SameContent, SameProofs

-----------------------------------------------------------------------------
(* Slots that change hands. *)

(* The slots lose their rows; everything else stays. *)
Emptied(L, M, slots) ==
  /\ \A x \in Slot : M.d2h[x] = IF x \in slots THEN None ELSE L.d2h[x]
  /\ \A r \in Row : M.h2d[r] = IF L.h2d[r] \in slots THEN None ELSE L.h2d[r]
  /\ \A x \in Slot : M.priority[x] = IF x \in slots THEN -1 ELSE L.priority[x]
  /\ M.clock = L.clock

(* What is left is in order. *)
LEMMA EmptiedOK ==
  ASSUME NEW L, LayerOK(L, {}), NEW M \in LayerState, NEW slots \in SUBSET Slot,
         Emptied(L, M, slots)
  PROVE  LayerOK(M, {})
<1>1. /\ L \in LayerState /\ Mirrors(L) /\ AgesOK(L, {}) /\ L.priority \in [Slot -> -1 .. Limit]
      /\ L.h2d \in [Row -> Slot \cup {None}] /\ L.d2h \in [Slot -> Row \cup {None}]
      /\ L.clock \in 0 .. Limit
  BY LayerTyped DEF LayerOK
<1>2. None \notin Slot /\ None \notin Row
  BY SlotsAssumption DEF Slot, Row
<1>3. Mirrors(M)
  BY <1>1, <1>2 DEF Mirrors, Emptied
<1>4. AgesOK(M, {})
  BY <1>1, <1>2, SlotsAssumption DEF AgesOK, Emptied
<1> QED
  BY <1>3, <1>4 DEF LayerOK

(* An eviction. *)
LEMMA EvictedIs ==
  ASSUME NEW L, LayerOK(L, {}), NEW slots \in SUBSET Slot
  PROVE  LET M == Evicted(L, slots) IN
         /\ LayerOK(M, {}) /\ (Flagged(L, {}) => Flagged(M, {})) /\ Emptied(L, M, slots)
         /\ SameContent(L, M) /\ SameProofs(L, M)
<1> DEFINE h == [r \in Row |-> IF r \in {L.d2h[x] : x \in slots} \ {None} THEN None ELSE L.h2d[r]]
           d == [x \in Slot |-> IF x \in slots THEN None ELSE L.d2h[x]]
           p == [x \in Slot |-> IF x \in slots THEN -1 ELSE L.priority[x]]
           f == [x \in Slot |-> IF x \in slots THEN TRUE ELSE L.free[x]]
           M == [L EXCEPT !.h2d = h, !.d2h = d, !.priority = p, !.free = f]
<1>1. /\ L \in LayerState /\ Mirrors(L) /\ AgesOK(L, {}) /\ DOMAIN L = LayerFields
      /\ L.h2d \in [Row -> Slot \cup {None}] /\ L.d2h \in [Slot -> Row \cup {None}]
      /\ L.priority \in [Slot -> -1 .. Limit] /\ L.free \in [Slot -> BOOLEAN]
  BY LayerTyped DEF LayerOK
<1>2. Evicted(L, slots) = M
  BY <1>1 DEF Evicted, Updated, Filled
<1>3. /\ h \in [Row -> Slot \cup {None}] /\ d \in [Slot -> Row \cup {None}]
      /\ p \in [Slot -> -1 .. Limit] /\ f \in [Slot -> BOOLEAN]
  <2>1. h \in [Row -> Slot \cup {None}]
    BY <1>1
  <2>2. d \in [Slot -> Row \cup {None}]
    BY <1>1
  <2>3. -1 \in -1 .. Limit
    BY SlotsAssumption
  <2>4. p \in [Slot -> -1 .. Limit]
    BY <1>1, <2>3
  <2>5. f \in [Slot -> BOOLEAN]
    BY <1>1
  <2> QED
    BY <2>1, <2>2, <2>4, <2>5
<1>4. \A r \in Row : h[r] = IF L.h2d[r] \in slots THEN None ELSE L.h2d[r]
  BY <1>1, SlotsAssumption DEF Mirrors, Row
<1>5. /\ \A x \in Slot : d[x] = IF x \in slots THEN None ELSE L.d2h[x]
      /\ \A x \in Slot : p[x] = IF x \in slots THEN -1 ELSE L.priority[x]
      /\ \A x \in Slot : f[x] = IF x \in slots THEN TRUE ELSE L.free[x]
  OBVIOUS
<1> HIDE DEF h, d, p, f
<1>6. /\ M.h2d = h /\ M.d2h = d /\ M.priority = p /\ M.free = f /\ M.clock = L.clock
      /\ SameContent(L, M) /\ SameProofs(L, M)
  BY <1>1 DEF SameContent, SameProofs, LayerFields
<1>7. M \in LayerState
  BY <1>1, <1>3 DEF LayerState
<1> HIDE DEF M
<1>8. Emptied(L, M, slots)
  BY <1>4, <1>5, <1>6 DEF Emptied
<1>9. LayerOK(M, {})
  BY <1>7, <1>8, EmptiedOK
<1>10. Flagged(L, {}) => Flagged(M, {})
  BY <1>5, <1>6 DEF Flagged
<1> QED
  BY <1>2, <1>6, <1>8, <1>9, <1>10

(* Rows that give up their slots, with all proofs. *)
LEMMA ReleasedIs ==
  ASSUME NEW L, LayerOK(L, {}), NEW rows \in SUBSET Row
  PROVE  LET M == Released(L, rows) IN
         /\ LayerOK(M, {}) /\ (Flagged(L, {}) => Flagged(M, {}))
         /\ Emptied(L, M, Mapped(L, rows)) /\ SameContent(L, M) /\ M.lease = L.lease
         /\ M.resident = NoResidency /\ M.plan = NoPlan
         /\ \A x \in Slot : M.d2h[x] \notin rows
<1> DEFINE slots == Mapped(L, rows)
           I == Invalidated(L)
           h == [r \in Row |-> IF r \in rows THEN None ELSE L.h2d[r]]
           d == [x \in Slot |-> IF x \in slots THEN None ELSE L.d2h[x]]
           p == [x \in Slot |-> IF x \in slots THEN -1 ELSE L.priority[x]]
           f == [x \in Slot |-> IF x \in slots THEN TRUE ELSE L.free[x]]
           M == [I EXCEPT !.h2d = h, !.d2h = d, !.priority = p, !.free = f]
<1>1. /\ L \in LayerState /\ Mirrors(L) /\ AgesOK(L, {}) /\ DOMAIN L = LayerFields
      /\ L.h2d \in [Row -> Slot \cup {None}] /\ L.d2h \in [Slot -> Row \cup {None}]
      /\ L.priority \in [Slot -> -1 .. Limit] /\ L.free \in [Slot -> BOOLEAN]
  BY LayerTyped DEF LayerOK
<1>2. /\ I \in LayerState /\ SameMaps(L, I) /\ SameContent(L, I) /\ I.lease = L.lease
      /\ I.resident = NoResidency /\ I.plan = NoPlan /\ DOMAIN I = LayerFields
  BY <1>1, InvalidatedIs, LayerTyped
<1>3. Released(L, rows) = M
  BY <1>1, <1>2 DEF SameMaps, Released, Updated, Filled
<1>4. slots \in SUBSET Slot /\ \A r \in rows : L.h2d[r] # None => L.h2d[r] \in slots
  BY <1>1 DEF Mapped
<1>5. \A x \in slots : \E r \in rows : L.h2d[r] = x
  BY DEF Mapped
<1> HIDE DEF slots, I
<1>6. /\ h \in [Row -> Slot \cup {None}] /\ d \in [Slot -> Row \cup {None}]
      /\ p \in [Slot -> -1 .. Limit] /\ f \in [Slot -> BOOLEAN]
  <2>1. h \in [Row -> Slot \cup {None}]
    BY <1>1
  <2>2. d \in [Slot -> Row \cup {None}]
    BY <1>1
  <2>3. -1 \in -1 .. Limit
    BY SlotsAssumption
  <2>4. p \in [Slot -> -1 .. Limit]
    BY <1>1, <2>3
  <2>5. f \in [Slot -> BOOLEAN]
    BY <1>1
  <2> QED
    BY <2>1, <2>2, <2>4, <2>5
<1>7. \A r \in Row : h[r] = IF L.h2d[r] \in slots THEN None ELSE L.h2d[r]
  BY <1>5, <1>1, <1>4 DEF Mirrors
<1>8. /\ \A x \in Slot : d[x] = IF x \in slots THEN None ELSE L.d2h[x]
      /\ \A x \in Slot : p[x] = IF x \in slots THEN -1 ELSE L.priority[x]
      /\ \A x \in Slot : f[x] = IF x \in slots THEN TRUE ELSE L.free[x]
  OBVIOUS
<1> HIDE DEF h, d, p, f
<1>9. /\ M.h2d = h /\ M.d2h = d /\ M.priority = p /\ M.free = f /\ M.clock = L.clock
      /\ SameContent(L, M) /\ M.lease = L.lease
      /\ M.resident = NoResidency /\ M.plan = NoPlan
  BY <1>2 DEF SameContent, SameMaps, LayerFields
<1>10. M \in LayerState
  BY <1>2, <1>6 DEF LayerState
<1> HIDE DEF M
<1>11. Emptied(L, M, slots)
  BY <1>7, <1>8, <1>9 DEF Emptied
<1>12. LayerOK(M, {})
  BY <1>4, <1>10, <1>11, EmptiedOK
<1>13. Flagged(L, {}) => Flagged(M, {})
  BY <1>8, <1>9 DEF Flagged
<1>14. \A x \in Slot : M.d2h[x] \notin rows
  <2>1. SUFFICES ASSUME NEW x \in Slot, NEW r \in rows, M.d2h[x] = r PROVE FALSE
    OBVIOUS
  <2>2. r # None
    BY SlotsAssumption DEF Row
  <2>3. x \notin slots /\ L.d2h[x] = r
    BY <1>8, <1>9, <2>1, <2>2
  <2>4. L.h2d[r] = x
    BY <1>1, <2>3 DEF Mirrors
  <2> QED
    BY <1>4, <2>3, <2>4, SlotsAssumption DEF Slot
<1> QED
  BY <1>3, <1>9, <1>11, <1>12, <1>13, <1>14 DEF slots

(* The rows move into the slots, which were empty. *)
Placed(L, M, n, rows, chosen, records) ==
  /\ \A k \in 1 .. n : /\ M.h2d[rows[k]] = chosen[k] /\ M.d2h[chosen[k]] = rows[k]
                       /\ M.records[chosen[k]] = records[k]
  /\ \A x \in Slot \ Range(chosen) : M.d2h[x] = L.d2h[x] /\ M.records[x] = L.records[x]
  /\ \A r \in Row \ Range(rows) : M.h2d[r] = L.h2d[r]

(* Unmapped rows into empty slots. *)
LEMMA InstalledIs ==
  ASSUME NEW L, LayerOK(L, {}), Flagged(L, {}), NEW n \in Nat,
         NEW rows \in [1 .. n -> Row], IsInjective(rows),
         NEW chosen \in [1 .. n -> Slot], IsInjective(chosen),
         NEW records \in [1 .. n -> Record],
         \A k \in 1 .. n : L.h2d[rows[k]] = None /\ L.d2h[chosen[k]] = None
  PROVE  LET M == Installed(L, rows, chosen, records) IN
         /\ LayerOK(M, Range(chosen)) /\ Flagged(M, {})
         /\ Placed(L, M, n, rows, chosen, records)
         /\ M.priority = L.priority /\ M.clock = L.clock /\ M.host = L.host /\ SameProofs(L, M)
<1> DEFINE at(x, q) == CHOOSE k \in DOMAIN q : q[k] = x
           R == Range(rows)
           X == Range(chosen)
           h == [r \in Row |-> IF r \in R THEN chosen[at(r, rows)] ELSE L.h2d[r]]
           d == [x \in Slot |-> IF x \in X THEN rows[at(x, chosen)] ELSE L.d2h[x]]
           f == [x \in Slot |-> IF x \in X THEN FALSE ELSE L.free[x]]
           c == [x \in Slot |-> IF x \in X THEN records[at(x, chosen)] ELSE L.records[x]]
           M == [L EXCEPT !.h2d = h, !.d2h = d, !.free = f, !.records = c]
<1>1. /\ L \in LayerState /\ Mirrors(L) /\ AgesOK(L, {}) /\ DOMAIN L = LayerFields
      /\ L.h2d \in [Row -> Slot \cup {None}] /\ L.d2h \in [Slot -> Row \cup {None}]
      /\ L.priority \in [Slot -> -1 .. Limit] /\ L.free \in [Slot -> BOOLEAN]
      /\ L.records \in [Slot -> Record]
  BY LayerTyped DEF LayerOK
<1>2. Installed(L, rows, chosen, records) = M
  BY <1>1 DEF Installed, Updated, Filled
<1>3. /\ DOMAIN rows = 1 .. n /\ DOMAIN chosen = 1 .. n
      /\ \A j, k \in 1 .. n : rows[j] = rows[k] => j = k
      /\ \A j, k \in 1 .. n : chosen[j] = chosen[k] => j = k
  BY DEF IsInjective
<1>4. /\ \A k \in 1 .. n : at(rows[k], rows) = k
      /\ \A k \in 1 .. n : at(chosen[k], chosen) = k
  BY <1>3
<1>5. /\ \A r : r \in R <=> \E k \in 1 .. n : rows[k] = r
      /\ \A x : x \in X <=> \E k \in 1 .. n : chosen[k] = x
  BY <1>3 DEF Range
<1>6. /\ \A k \in 1 .. n : h[rows[k]] = chosen[k]
      /\ \A r \in Row \ R : h[r] = L.h2d[r]
  <2>1. \A k \in 1 .. n : rows[k] \in Row /\ rows[k] \in R
    BY <1>5
  <2> HIDE DEF at, R
  <2> QED
    BY <1>4, <2>1
<1>7. /\ \A k \in 1 .. n : d[chosen[k]] = rows[k] /\ f[chosen[k]] = FALSE
                           /\ c[chosen[k]] = records[k]
      /\ \A x \in Slot \ X : d[x] = L.d2h[x] /\ f[x] = L.free[x] /\ c[x] = L.records[x]
  <2>1. \A k \in 1 .. n : chosen[k] \in Slot /\ chosen[k] \in X
    BY <1>5
  <2> HIDE DEF at, X
  <2> QED
    BY <1>4, <2>1
<1>8. DOMAIN h = Row /\ DOMAIN d = Slot /\ DOMAIN f = Slot /\ DOMAIN c = Slot
      /\ h = [r \in Row |-> h[r]] /\ d = [x \in Slot |-> d[x]]
      /\ f = [x \in Slot |-> f[x]] /\ c = [x \in Slot |-> c[x]]
  OBVIOUS
<1> HIDE DEF h, d, f, c, at, R, X
<1>9. /\ h \in [Row -> Slot \cup {None}] /\ d \in [Slot -> Row \cup {None}]
      /\ f \in [Slot -> BOOLEAN] /\ c \in [Slot -> Record]
  <2>1. \A r \in Row : h[r] \in Slot \cup {None}
    <3>1. SUFFICES ASSUME NEW r \in Row PROVE h[r] \in Slot \cup {None}
      OBVIOUS
    <3>2. CASE r \in R
      BY <1>5, <1>6, <3>2
    <3>3. CASE r \notin R
      BY <1>1, <1>6, <3>3
    <3> QED
      BY <3>2, <3>3
  <2>2. \A x \in Slot : d[x] \in Row \cup {None} /\ f[x] \in BOOLEAN /\ c[x] \in Record
    <3>1. SUFFICES ASSUME NEW x \in Slot
                   PROVE  d[x] \in Row \cup {None} /\ f[x] \in BOOLEAN /\ c[x] \in Record
      OBVIOUS
    <3>2. CASE x \in X
      <4>1. PICK k \in 1 .. n : chosen[k] = x
        BY <1>5, <3>2
      <4>2. d[x] = rows[k] /\ f[x] = FALSE /\ c[x] = records[k]
        BY <1>7, <4>1
      <4> QED
        BY <4>2
    <3>3. CASE x \notin X
      BY <1>1, <1>7, <3>3
    <3> QED
      BY <3>2, <3>3
  <2>3. h \in [Row -> Slot \cup {None}]
    BY <1>8, <2>1
  <2>4. d \in [Slot -> Row \cup {None}] /\ f \in [Slot -> BOOLEAN] /\ c \in [Slot -> Record]
    BY <1>8, <2>2
  <2> QED
    BY <2>3, <2>4
<1>10. /\ M.h2d = h /\ M.d2h = d /\ M.free = f /\ M.records = c
       /\ M.priority = L.priority /\ M.clock = L.clock /\ M.host = L.host /\ SameProofs(L, M)
  BY <1>1 DEF SameProofs, LayerFields
<1>11. M \in LayerState
  BY <1>1, <1>9 DEF LayerState
<1> HIDE DEF M
<1>12. None \notin Slot /\ None \notin Row
  BY SlotsAssumption DEF Slot, Row
<1>13. Mirrors(M)
  <2>1. SUFFICES ASSUME NEW r \in Row, NEW x \in Slot PROVE h[r] = x <=> d[x] = r
    BY <1>10 DEF Mirrors
  <2>2. L.h2d[r] = x <=> L.d2h[x] = r
    BY <1>1 DEF Mirrors
  <2>3. CASE r \in R
    BY <1>5, <2>3, <1>6, <1>7, <1>12, <2>2, <1>3
  <2>4. CASE r \notin R
    BY <1>6, <2>4, <1>5, <1>7, <1>12, <2>2
  <2> QED
    BY <2>3, <2>4
<1>14. AgesOK(M, X)
  BY <1>1, <1>7, <1>10, <1>5, <1>12 DEF AgesOK
<1>15. Flagged(M, {})
  BY <1>10, <1>5, <1>7, <1>12 DEF Flagged
<1>16. Placed(L, M, n, rows, chosen, records)
  BY <1>6, <1>7, <1>10 DEF Placed, R, X
<1> QED
  BY <1>2, <1>10, <1>11, <1>13, <1>14, <1>15, <1>16 DEF LayerOK, X

(* The end of a prefetch: the claimed slots are the newest, and taken. *)
LEMMA FinalizedIs ==
  ASSUME NEW L, NEW C \in SUBSET Slot, LayerOK(L, C), Flagged(L, C)
  PROVE  LET M == Finalized(L, C) IN
         /\ LayerOK(M, {}) /\ Flagged(M, {})
         /\ M.h2d = L.h2d /\ M.d2h = L.d2h
         /\ SameContent(L, M) /\ M.lease = L.lease
         /\ M.resident = NoResidency /\ M.plan = NoPlan /\ Newest(L, M, C)
<1> DEFINE I == Invalidated(L)
           N == Stamped(I, C)
           f == [x \in Slot |-> IF x \in C THEN FALSE ELSE N.free[x]]
           M == [N EXCEPT !.free = f]
<1>1. /\ I \in LayerState /\ SameMaps(L, I) /\ SameContent(L, I) /\ I.lease = L.lease
      /\ I.resident = NoResidency /\ I.plan = NoPlan
  BY InvalidatedIs DEF LayerOK
<1>2. LayerOK(I, C) /\ Flagged(I, C)
  BY <1>1, SameMapsOK
<1> HIDE DEF I
<1>3. /\ LayerOK(N, {}) /\ N.h2d = I.h2d /\ N.d2h = I.d2h /\ N.free = I.free
      /\ SameContent(I, N) /\ SameProofs(I, N) /\ Newest(I, N, C)
  <2>1. \A x \in C : I.d2h[x] # None
    BY <1>2 DEF LayerOK, AgesOK
  <2>2. C \ C = {}
    OBVIOUS
  <2> QED
    BY <1>2, <2>1, <2>2, StampedIs
<1> HIDE DEF N
<1>4. /\ N \in LayerState /\ Mirrors(N) /\ AgesOK(N, {}) /\ DOMAIN N = LayerFields
      /\ N.free \in [Slot -> BOOLEAN]
  BY <1>3, LayerTyped DEF LayerOK
<1>5. Finalized(L, C) = M
  BY <1>4 DEF Finalized, Updated, Filled, N, I
<1>6. /\ f \in [Slot -> BOOLEAN]
      /\ \A x \in Slot : f[x] = IF x \in C THEN FALSE ELSE N.free[x]
  BY <1>4
<1> HIDE DEF f
<1>7. /\ M.free = f /\ M.h2d = N.h2d /\ M.d2h = N.d2h /\ M.priority = N.priority
      /\ M.clock = N.clock /\ SameContent(N, M) /\ SameProofs(N, M)
  BY <1>4 DEF SameContent, SameProofs, LayerFields
<1>8. M \in LayerState
  BY <1>4, <1>6 DEF LayerState
<1> HIDE DEF M
<1>9. LayerOK(M, {})
  BY <1>4, <1>7, <1>8 DEF LayerOK, Mirrors, AgesOK
<1>10. Flagged(M, {})
  <2>1. \A x \in Slot \ C : N.free[x] <=> N.d2h[x] = None
    BY <1>2, <1>3 DEF Flagged
  <2>2. \A x \in C : N.d2h[x] # None
    BY <1>2, <1>3 DEF LayerOK, AgesOK
  <2> QED
    BY <1>6, <1>7, <2>1, <2>2 DEF Flagged
<1>11. Newest(L, M, C)
  BY <1>1, <1>3, <1>7 DEF Newest, SameMaps
<1> QED
  BY <1>1, <1>3, <1>5, <1>7, <1>9, <1>10, <1>11 DEF SameMaps, SameContent, SameProofs

-----------------------------------------------------------------------------
(* Records. *)

(* What is not of session s from first on is in g as it was in f. *)
StillThere(D, f, g, s, first) ==
  \A x \in D : \A t \in Session, i \in Nat :
    f[x] = <<t, i>> /\ (t # s \/ i < first) => g[x] = <<t, i>>

(* Aging keeps every record that is not the session's from first on. *)
LEMMA AgedIs ==
  ASSUME NEW D, NEW f \in [D -> Record], NEW s \in Session, NEW first \in Nat
  PROVE  /\ Aged(f, s, first) \in [D -> Record]
         /\ StillThere(D, f, Aged(f, s, first), s, first)
<1> DEFINE g == Aged(f, s, first)
<1>1. g = [x \in D |-> IF f[x] # Stale /\ f[x][1] = s /\ f[x][2] >= first
                         THEN Stale ELSE f[x]]
  BY DEF Aged
<1>2. DOMAIN g = D /\ \A x \in D : g[x] = IF f[x] # Stale /\ f[x][1] = s /\ f[x][2] >= first
                                            THEN Stale ELSE f[x]
  BY <1>1
<1>3. Stale \in Record /\ \A x \in D : f[x] \in Record
  BY DEF Record
<1>4. g \in [D -> Record]
  BY <1>1, <1>3
<1> HIDE DEF g
<1>5. ASSUME NEW x \in D, NEW t \in Session, NEW i \in Nat,
             f[x] = <<t, i>>, t # s \/ i < first
      PROVE  g[x] = <<t, i>>
  BY <1>5, <1>2
<1> QED
  BY <1>4, <1>5 DEF g, StillThere

(* From session s's index first on the records of a layer get old. *)
LEMMA SupersededIs ==
  ASSUME NEW L \in LayerState, NEW s \in Session, NEW first \in Nat
  PROVE  LET M == Superseded(L, s, first) IN
         /\ M \in LayerState /\ SameMaps(L, M) /\ SameProofs(L, M)
         /\ StillThere(Slot, L.records, M.records, s, first)
<1> DEFINE c == Aged(L.records, s, first)
           h == Aged(L.host, s, first)
           M == [L EXCEPT !.records = c, !.host = h]
<1>1. L.records \in [Slot -> Record] /\ L.host \in [Row -> Record] /\ DOMAIN L = LayerFields
  BY LayerTyped
<1>2. c \in [Slot -> Record] /\ h \in [Row -> Record]
      /\ StillThere(Slot, L.records, c, s, first)
  BY <1>1, AgedIs
<1>3. Superseded(L, s, first) = M
  BY Zenon DEF Superseded
<1> HIDE DEF c, h
<1>4. M.records = c /\ SameMaps(L, M) /\ SameProofs(L, M)
  BY <1>1 DEF SameMaps, SameProofs, LayerFields
<1>5. M \in LayerState
  BY <1>2 DEF LayerState
<1> QED
  BY <1>2, <1>3, <1>4, <1>5

-----------------------------------------------------------------------------
(* Claims. *)

(* One claim of a prefetch: slot x takes row r and the host's record of it. *)
Taken(L, r, x) ==
  LET U == [L EXCEPT !.h2d = Filled(@, {L.d2h[x]} \ {None}, None)] IN
  [U EXCEPT !.h2d[r] = x, !.d2h[x] = r, !.records[x] = L.host[r]]

(* Row r moves into slot x, which another row may have to leave. *)
Takes(L, M, C, r, x) ==
  /\ LayerOK(M, C \cup {x}) /\ Flagged(M, C \cup {x})
  /\ \A y \in Slot : /\ M.d2h[y] = IF y = x THEN r ELSE L.d2h[y]
                     /\ M.records[y] = IF y = x THEN L.host[r] ELSE L.records[y]
  /\ M.priority = L.priority /\ M.clock = L.clock /\ M.host = L.host /\ SameProofs(L, M)

(* A claim keeps what is said of the maps, and nothing else moves. *)
LEMMA TakenIs ==
  ASSUME NEW L, NEW C \in SUBSET Slot, LayerOK(L, C), Flagged(L, C),
         NEW x \in Slot \ C, NEW r \in Row, L.h2d[r] = None
  PROVE  Takes(L, Taken(L, r, x), C, r, x)
<1> DEFINE g == [q \in Row |-> IF q \in {L.d2h[x]} \ {None} THEN None ELSE L.h2d[q]]
           h == [g EXCEPT ![r] = x]
           d == [L.d2h EXCEPT ![x] = r]
           c == [L.records EXCEPT ![x] = L.host[r]]
           U == [L EXCEPT !.h2d = g]
           M == [U EXCEPT !.h2d = h, !.d2h = d, !.records = c]
<1>1. /\ L \in LayerState /\ Mirrors(L) /\ AgesOK(L, C) /\ DOMAIN L = LayerFields
      /\ L.h2d \in [Row -> Slot \cup {None}] /\ L.d2h \in [Slot -> Row \cup {None}]
      /\ L.priority \in [Slot -> -1 .. Limit] /\ L.free \in [Slot -> BOOLEAN]
      /\ L.records \in [Slot -> Record] /\ L.host \in [Row -> Record]
  BY LayerTyped DEF LayerOK
<1>2. Taken(L, r, x) = M
  <2>1. DOMAIN L.h2d = Row
    BY <1>1
  <2>2. Taken(L, r, x) = [U EXCEPT !.h2d[r] = x, !.d2h[x] = r, !.records[x] = L.host[r]]
    BY <2>1, Zenon DEF Taken, Updated, Filled
  <2>3. U.h2d = g /\ U.d2h = L.d2h /\ U.records = L.records
    BY <1>1 DEF LayerFields
  <2> HIDE DEF U, g
  <2> QED
    BY <2>2, <2>3, Zenon
<1>3. None \notin Slot /\ None \notin Row
  BY SlotsAssumption DEF Slot, Row
<1>4. \A q \in Row : h[q] = IF q = r THEN x ELSE IF L.h2d[q] = x THEN None ELSE L.h2d[q]
  <2>1. \A q \in Row : g[q] = IF L.h2d[q] = x THEN None ELSE L.h2d[q]
    BY <1>1, <1>3 DEF Mirrors
  <2>2. DOMAIN g = Row
    OBVIOUS
  <2> HIDE DEF g
  <2> QED
    BY <2>1, <2>2
<1>5. \A y \in Slot : /\ d[y] = IF y = x THEN r ELSE L.d2h[y]
                      /\ c[y] = IF y = x THEN L.host[r] ELSE L.records[y]
  BY <1>1
<1>6. /\ h \in [Row -> Slot \cup {None}] /\ d \in [Slot -> Row \cup {None}]
      /\ c \in [Slot -> Record]
  <2>1. DOMAIN h = Row /\ h = [q \in Row |-> h[q]]
    OBVIOUS
  <2>2. h \in [Row -> Slot \cup {None}]
    <3> HIDE DEF h
    <3> QED
      BY <1>1, <1>4, <2>1
  <2>3. d \in [Slot -> Row \cup {None}] /\ c \in [Slot -> Record]
    BY <1>1
  <2> QED
    BY <2>2, <2>3
<1>7. /\ M.h2d = h /\ M.d2h = d /\ M.records = c /\ M.free = L.free
      /\ M.priority = L.priority /\ M.clock = L.clock /\ M.host = L.host /\ SameProofs(L, M)
  <2> HIDE DEF g, h, d, c
  <2> QED
    BY <1>1 DEF SameProofs, LayerFields
<1>8. M \in LayerState
  <2>1. M = [L EXCEPT !.h2d = h, !.d2h = d, !.records = c]
    <3> HIDE DEF h, g, d, c
    <3> QED
      BY <1>1 DEF LayerState
  <2> HIDE DEF h, g, d, c, M
  <2> QED
    BY <1>1, <1>6, <2>1 DEF LayerState
<1> HIDE DEF M, h, d, c, g
<1>9. Mirrors(M)
  BY <1>1, <1>3, <1>4, <1>5, <1>7 DEF Mirrors
<1>10. AgesOK(M, C \cup {x})
  BY <1>1, <1>3, <1>5, <1>7 DEF AgesOK
<1>11. Flagged(M, C \cup {x})
  BY <1>5, <1>7 DEF Flagged
<1> QED
  BY <1>2, <1>5, <1>7, <1>8, <1>9, <1>10, <1>11 DEF LayerOK, Takes

(* Another host side under the same maps. *)
LEMMA HostIs ==
  ASSUME NEW L \in LayerState, NEW h \in [Row -> Record]
  PROVE  LET M == [L EXCEPT !.host = h] IN
         /\ M \in LayerState /\ SameMaps(L, M) /\ SameProofs(L, M)
         /\ M.records = L.records /\ M.host = h
<1>1. [L EXCEPT !.host = h] \in LayerState
  BY DEF LayerState
<1> QED
  BY <1>1, LayerTyped DEF SameMaps, SameProofs, LayerFields

(* What a snapshot keeps of a layer. *)
LEMMA DeviceSideIs ==
  ASSUME NEW L \in LayerState
  PROVE  LET M == DeviceSide(L) IN
         /\ M \in LayerState /\ SameMaps(L, M) /\ M.records = L.records
         /\ M.resident = NoResidency /\ M.plan = NoPlan
<1> DEFINE I == Invalidated(L)
           h == [r \in Row |-> Stale]
           M == [I EXCEPT !.host = h, !.lease = None]
<1>1. /\ I \in LayerState /\ SameMaps(L, I) /\ SameContent(L, I)
      /\ I.resident = NoResidency /\ I.plan = NoPlan
  BY InvalidatedIs
<1>2. DeviceSide(L) = M
  BY Zenon DEF DeviceSide, EmptyLayer
<1>3. h \in [Row -> Record]
  BY DEF Record
<1> HIDE DEF I, h
<1>4. M \in LayerState
  BY <1>1, <1>3 DEF LayerState
<1>5. /\ SameMaps(I, M) /\ M.records = I.records /\ M.resident = I.resident
      /\ M.plan = I.plan
  BY <1>1, LayerTyped DEF SameMaps, LayerFields
<1> QED
  BY <1>1, <1>2, <1>4, <1>5 DEF SameMaps, SameContent

(* The device side of a snapshot, with the host and the lease of a layer. *)
LEMMA RestoredIs ==
  ASSUME NEW L \in LayerState, NEW S \in LayerState
  PROVE  LET M == Restored(L, S) IN
         /\ M \in LayerState /\ SameMaps(S, M) /\ M.records = S.records
         /\ M.host = L.host /\ M.lease = L.lease
         /\ M.resident = S.resident /\ M.plan = S.plan
<1> DEFINE M == [S EXCEPT !.host = L.host, !.lease = L.lease]
<1>1. L.host \in [Row -> Record] /\ L.lease \in Session \cup {None}
  BY LayerTyped
<1>2. M \in LayerState
  BY <1>1 DEF LayerState
<1>3. /\ SameMaps(S, M) /\ M.records = S.records /\ M.host = L.host /\ M.lease = L.lease
      /\ M.resident = S.resident /\ M.plan = S.plan
  BY LayerTyped DEF SameMaps, LayerFields
<1> QED
  BY <1>2, <1>3 DEF Restored

-----------------------------------------------------------------------------
(* The order of the slots. *)

Order(q) == q \in [1 .. Slots -> Slot] /\ IsInjective(q)

Key(L, x) == IF L.d2h[x] = None THEN -1 ELSE L.priority[x]

Older(L, x, y) == Key(L, x) < Key(L, y) \/ (Key(L, x) = Key(L, y) /\ x < y)

(* All slots by their ages. *)
LEMMA PriorityOrderIs ==
  ASSUME NEW L \in LayerState
  PROVE  /\ Order(PriorityOrder(L))
         /\ \A j, k \in 1 .. Slots :
              j < k <=> PriorityOrder(L)[j] \in Ahead(Slot, L.priority, PriorityOrder(L)[k])
<1>1. L.priority \in [Slot -> -1 .. Limit]
  BY LayerTyped
<1>2. IsFiniteSet(Slot) /\ Slot \subseteq Nat /\ Cardinality(Slot) = Slots
  BY SlotsAreFinite DEF Slot
<1>3. \A x \in Slot : L.priority[x] \in Int
  BY <1>1, SlotsAssumption
<1> QED
  BY <1>2, <1>3, OldestLists DEF PriorityOrder, Lists, Order

(* The slots an eviction may take: n of them, whatever the order. *)
LEMMA AvailableIs ==
  ASSUME NEW L \in LayerState, NEW protected, NEW n \in Nat,
         n <= Cardinality(Slot \ Mapped(L, protected))
  PROVE  LET c == SubSeq(Available(L, protected), 1, n) IN
         /\ c \in [1 .. n -> Slot] /\ IsInjective(c)
         /\ \A k \in 1 .. n : c[k] \notin Mapped(L, protected)
<1> DEFINE S == Slot \ Mapped(L, protected)
           age == [x \in Slot |-> IF L.d2h[x] = None THEN -1 ELSE L.priority[x]]
           q == Oldest(S, age)
           c == Slice(q, 0, n)
<1>1. IsFiniteSet(S) /\ S \subseteq Nat /\ Cardinality(S) \in Nat
  BY SlotsAreFinite DEF Slot
<1>2. \A x \in S : age[x] \in Int
  BY LayerTyped, SlotsAssumption
<1>3. Available(L, protected) = q
  BY Zenon DEF Available
<1> HIDE DEF age
<1>4. q \in [1 .. Cardinality(S) -> S] /\ IsInjective(q)
  <2> HIDE DEF S
  <2> QED
    BY <1>1, <1>2, OldestLists DEF Lists
<1> HIDE DEF q
<1>5. c \in [1 .. n -> S] /\ IsInjective(c)
  <2> HIDE DEF S
  <2>1. 0 \in Nat /\ 0 + n <= Cardinality(S)
    BY <1>1 DEF S
  <2> QED
    BY <1>1, <1>4, <2>1, SliceIs
<1>6. c = SubSeq(Available(L, protected), 1, n)
  BY <1>3 DEF Slice
<1> HIDE DEF c
<1>7. c \in [1 .. n -> Slot] /\ \A k \in 1 .. n : c[k] \notin Mapped(L, protected)
  BY <1>5
<1> QED
  BY <1>5, <1>6, <1>7

-----------------------------------------------------------------------------
(* The invariant of the device side. *)

ShowsOf(l, s, i, record) ==
  IF i < Persistent(l, s) THEN record = <<s, i>>
                          ELSE cache[l][s].failed /\ ~Transient(l, s)

(* The record in a slot is that of the row the slot is mapped to. *)
Shows(l) ==
  \A x \in Slot : pool[l].d2h[x] # None =>
    \E s \in Live : \E i \in 0 .. Capacity[s] - 1 :
      HostRow(s, i) = pool[l].d2h[x] /\ ShowsOf(l, s, i, pool[l].records[x])

LayerSound(l) ==
  /\ LayerOK(pool[l], ClaimedOf(l)) /\ Flagged(pool[l], ClaimedOf(l)) /\ Shows(l)
  /\ pool[l].plan.owner # None => Order(pool[l].plan.order)

PrefetchState ==
  [owner : Session, layer : Layer, order : [1 .. Slots -> Slot], claimed : 0 .. Slots,
   limit : 0 .. Slots]

PrefetchOK ==
  prefetch # None =>
    /\ prefetch \in PrefetchState /\ IsInjective(prefetch.order)
    /\ prefetch.claimed <= prefetch.limit
    /\ HostReady(prefetch.layer, prefetch.owner)

(* Only a step that failed leaves records behind that are not committed. *)
IdleCommitted ==
  \A l \in Layer, s \in Session :
    ~Stepping(l, s) /\ ~cache[l][s].failed => cache[l][s].written = cache[l][s].length

WritesOwned ==
  \A k \in DOMAIN writes : \A r \in DOMAIN writes[k].rows :
    writes[k].rows[r][1] = writes[k].owner

(* A snapshot's topology is of the past; while it is of the present, the   *)
(* snapshot shows records within its lengths.                              *)
SnapshotShows(S, l) ==
  \A x \in Slot : S.layers[l].d2h[x] # None =>
    \E s \in Live : \E i \in 0 .. S.length[l][s] - 1 :
      HostRow(s, i) = S.layers[l].d2h[x] /\ S.layers[l].records[x] = <<s, i>>

SnapshotOK(S) ==
  S # None =>
    /\ S \in [topology : [Session -> {"new", "live", "released"}], valid : BOOLEAN,
              layers : [Layer -> LayerState], length : [Layer -> [Session -> Nat]]]
    /\ \A l \in Layer : /\ LayerOK(S.layers[l], {}) /\ Flagged(S.layers[l], {})
                        /\ S.layers[l].resident = NoResidency /\ S.layers[l].plan = NoPlan
    /\ \A s \in Session : /\ session[s] = "new" => S.topology[s] = "new"
                          /\ session[s] = "live" => S.topology[s] # "released"
    /\ S.topology = session /\ S.valid =>
         \A l \in Layer : /\ \A s \in Session : S.length[l][s] <= cache[l][s].length
                          /\ SnapshotShows(S, l)

SnapshotsOK ==
  DOMAIN snapshots = 1 .. Snapshots /\ \A k \in DOMAIN snapshots : SnapshotOK(snapshots[k])

DInv ==
  /\ \A l \in Layer : LayerSound(l)
  /\ PrefetchOK /\ IdleCommitted /\ WritesOwned /\ SnapshotsOK

-----------------------------------------------------------------------------
(* What the slots of a layer show after a step of session s. *)

(* The record in slot x stays, unless it is session s's from end on. *)
RecordStays(l, s, end, x) ==
  \A t \in Session, i \in Nat :
    pool[l].records[x] = <<t, i>> /\ (t # s \/ i < end) => pool'[l].records[x] = <<t, i>>

Arrived(l, s, x) ==
  \E i \in 0 .. Capacity[s] - 1 :
    /\ HostRow(s, i) = pool'[l].d2h[x] /\ pool'[l].records[x] = <<s, i>>
    /\ i < Persistent(l, s)' \/ (cache'[l][s].failed /\ ~Transient(l, s)')

(* Every mapped slot is as it was, or has got a record of session s. *)
SlotsFrom(l, s, end) ==
  \A x \in Slot : pool'[l].d2h[x] # None =>
    \/ pool'[l].d2h[x] = pool[l].d2h[x] /\ RecordStays(l, s, end, x)
    \/ Arrived(l, s, x)

(* Why the rows of s that stay mapped are shown as they should: the row is *)
(* mapped no more, or is history before and after, or is what a failed     *)
(* step leaves, or was not mapped.                                         *)
RowsFrom(l, s, end) ==
  \A i \in 0 .. Capacity[s] - 1 :
    \/ \A x \in Slot : pool'[l].d2h[x] # HostRow(s, i)
    \/ i < Persistent(l, s)' /\ i < Persistent(l, s) /\ i < end
    \/ ~(i < Persistent(l, s)') /\ cache'[l][s].failed /\ ~Transient(l, s)'
    \/ ~(i < Persistent(l, s)) /\ (~cache[l][s].failed \/ Transient(l, s))

(* No other session's ends move on this layer. *)
OthersStay(l, s) == \A t \in Session : t # s => cache'[l][t] = cache[l][t]

(* A step of session s after which the slots show what they should. *)
LEMMA ShowsStep ==
  ASSUME IInv, NEW l \in Layer, NEW s \in Live, Shows(l), UNCHANGED allocation,
         OthersStay(l, s), NEW end \in Nat, SlotsFrom(l, s, end), RowsFrom(l, s, end)
  PROVE  Shows(l)'
<1>1. Live' = Live /\ \A t, i : HostRow(t, i)' = HostRow(t, i)
  BY DEF allocation, Live, HostRow
<1>2. SUFFICES ASSUME NEW x \in Slot, pool'[l].d2h[x] # None
               PROVE  \E t \in Live : \E i \in 0 .. Capacity[t] - 1 :
                        /\ HostRow(t, i) = pool'[l].d2h[x]
                        /\ ShowsOf(l, t, i, pool[l].records[x])'
  BY <1>1 DEF Shows
<1>3. CASE Arrived(l, s, x)
  BY <1>3 DEF Arrived, ShowsOf
<1>4. CASE pool'[l].d2h[x] = pool[l].d2h[x] /\ RecordStays(l, s, end, x)
  <2>1. PICK t \in Live : \E i \in 0 .. Capacity[t] - 1 :
          HostRow(t, i) = pool[l].d2h[x] /\ ShowsOf(l, t, i, pool[l].records[x])
    BY <1>2, <1>4 DEF Shows
  <2>2. PICK i \in 0 .. Capacity[t] - 1 :
          HostRow(t, i) = pool[l].d2h[x] /\ ShowsOf(l, t, i, pool[l].records[x])
    BY <2>1
  <2>3. t \in Session /\ i \in Nat
    BY PoolAssumption DEF Live
  <2>4. CASE t # s
    BY <2>3, <2>4, <1>4, <2>2 DEF OthersStay, Persistent, Transient, ShowsOf, RecordStays
  <2>5. CASE t = s
    BY <1>4, <2>2, <2>5, <2>3 DEF RowsFrom, ShowsOf, RecordStays
  <2> QED
    BY <2>4, <2>5
<1> QED
  BY <1>2, <1>3, <1>4 DEF SlotsFrom

(* The layers a step does not touch stay sound. *)
LEMMA LayersStay ==
  ASSUME DInv, UNCHANGED allocation, NEW m \in Layer, pool'[m] = pool[m],
         cache'[m] = cache[m], ClaimedOf(m)' = ClaimedOf(m)
  PROVE  LayerSound(m)'
<1>1. Live' = Live /\ \A t, i : HostRow(t, i)' = HostRow(t, i)
  BY DEF allocation, Live, HostRow
<1>2. \A t, i, record : ShowsOf(m, t, i, record)' <=> ShowsOf(m, t, i, record)
  BY DEF ShowsOf, Persistent, Transient
<1>3. Shows(m)
  BY DEF DInv, LayerSound
<1>4. Shows(m)'
  BY <1>1, <1>2, <1>3 DEF Shows
<1> QED
  BY <1>4 DEF DInv, LayerSound

(* What no snapshot has to do with. *)
LEMMA SnapshotsStay ==
  ASSUME SnapshotsOK, UNCHANGED allocation, UNCHANGED snapshots, IInv, IInv',
         \A l \in Layer, s \in Session : cache[l][s].length <= cache'[l][s].length
  PROVE  SnapshotsOK'
<1>1. /\ session' = session /\ Live' = Live
      /\ \A t, i : HostRow(t, i)' = HostRow(t, i)
  BY DEF allocation, Live, HostRow
<1>2. SUFFICES ASSUME NEW k \in DOMAIN snapshots, snapshots[k] # None
               PROVE  SnapshotOK(snapshots[k])'
  BY DEF SnapshotsOK, SnapshotOK
<1> DEFINE S == snapshots[k]
<1>3. SnapshotOK(S) /\ S' = S
  BY DEF SnapshotsOK
<1>4. \A l \in Layer : SnapshotShows(S, l) => SnapshotShows(S, l)'
  BY <1>1, <1>3 DEF SnapshotShows
<1>5. ASSUME S.topology = session, S.valid, NEW l \in Layer, NEW s \in Session
      PROVE  S.length[l][s] <= cache'[l][s].length
  BY <1>2, <1>3, <1>5 DEF SnapshotOK, IInv, CacheOK, EndsOK, CacheState
<1> HIDE DEF S
<1>6. SnapshotOK(S)'
  BY <1>1, <1>2, <1>3, <1>4, <1>5 DEF SnapshotOK
<1> QED
  BY <1>6 DEF S

-----------------------------------------------------------------------------
(* Steps that touch one layer. *)

(* A step that touches one layer, of one session. *)
LEMMA OneLayer ==
  ASSUME IInv', DInv, NEW l \in Layer, NEW s \in Live, UNCHANGED allocation,
         \A m \in Layer : m # l => /\ pool'[m] = pool[m] /\ cache'[m] = cache[m]
                                   /\ ClaimedOf(m)' = ClaimedOf(m),
         OthersStay(l, s), LayerSound(l)', PrefetchOK', WritesOwned', SnapshotsOK',
         cache'[l][s].stepEnd = None /\ ~cache'[l][s].failed
           => cache'[l][s].written = cache'[l][s].length
  PROVE  DInv'
<1>1. ASSUME NEW m \in Layer PROVE LayerSound(m)'
  BY LayersStay
<1>2. IdleCommitted'
  BY DEF IdleCommitted, Stepping, DInv, OthersStay
<1> QED
  BY <1>1, <1>2 DEF DInv

(* Setting one cache, and one layer of the pool. *)
LEMMA OneCache ==
  ASSUME IInv, NEW l \in Layer, NEW s \in Session, NEW c, Set(l, s, c)
  PROVE  /\ cache'[l][s] = c /\ OthersStay(l, s)
         /\ \A m \in Layer : m # l => cache'[m] = cache[m]
         /\ Persistent(l, s)' = HostEnd(c) /\ (Transient(l, s)' <=> c.transientStart # None)
<1>1. DOMAIN cache = Layer /\ DOMAIN cache[l] = Session
  BY DEF IInv, CacheOK
<1>2. cache' = [cache EXCEPT ![l][s] = c]
  BY DEF Set
<1>3. cache'[l][s] = c /\ OthersStay(l, s) /\ \A m \in Layer : m # l => cache'[m] = cache[m]
  BY <1>1, <1>2 DEF OthersStay
<1> QED
  BY <1>3 DEF Persistent, HostEnd, Transient

(* The records of the snapshots get old from the length on, behind all     *)
(* that a snapshot shows that may still be restored.                       *)
LEMMA SnapshotsAge ==
  ASSUME SnapshotsOK, IInv, NEW l \in Layer, NEW s \in Session,
         UNCHANGED allocation, snapshots' = AgedSnapshots(l, s, cache[l][s].length),
         \A m \in Layer, t \in Session : cache'[m][t].length = cache[m][t].length
  PROVE  SnapshotsOK'
<1>1. /\ session' = session /\ Live' = Live
      /\ \A t, i : HostRow(t, i)' = HostRow(t, i)
  BY DEF allocation, Live, HostRow
<1> DEFINE first == cache[l][s].length
<1>2. first \in Nat
  BY DEF IInv, CacheOK, EndsOK, CacheState
<1>3. DOMAIN snapshots' = DOMAIN snapshots
  BY DEF AgedSnapshots
<1>4. SUFFICES ASSUME NEW k \in DOMAIN snapshots, snapshots[k] # None
               PROVE  SnapshotOK(snapshots[k])'
  <2>1. ASSUME NEW k \in DOMAIN snapshots, snapshots[k] = None PROVE SnapshotOK(snapshots[k])'
    BY <2>1 DEF AgedSnapshots, SnapshotOK
  <2> QED
    BY <1>3, <2>1 DEF SnapshotsOK
<1> DEFINE S == snapshots[k]
           M == Superseded(S.layers[l], s, first)
           y == [S.layers EXCEPT ![l] = M]
           T == [S EXCEPT !.layers = y]
<1>5. SnapshotOK(S)
  BY DEF SnapshotsOK
<1>6. snapshots'[k] = T
  BY <1>4 DEF AgedSnapshots
<1>7. /\ S \in [topology : [Session -> {"new", "live", "released"}], valid : BOOLEAN,
                layers : [Layer -> LayerState], length : [Layer -> [Session -> Nat]]]
      /\ S.layers[l] \in LayerState
  BY <1>4, <1>5 DEF SnapshotOK
<1>8. /\ M \in LayerState /\ SameMaps(S.layers[l], M) /\ SameProofs(S.layers[l], M)
      /\ StillThere(Slot, S.layers[l].records, M.records, s, first)
  BY <1>2, <1>7, SupersededIs
<1> HIDE DEF M, S
<1>9. y \in [Layer -> LayerState] /\ y[l] = M /\ \A m \in Layer : m # l => y[m] = S.layers[m]
  BY <1>7, <1>8
<1> HIDE DEF y
<1>10. /\ T \in [topology : [Session -> {"new", "live", "released"}], valid : BOOLEAN,
                 layers : [Layer -> LayerState], length : [Layer -> [Session -> Nat]]]
       /\ T.topology = S.topology /\ T.valid = S.valid /\ T.length = S.length /\ T.layers = y
  BY <1>7, <1>9
<1> HIDE DEF T
<1>11. ASSUME NEW m \in Layer
       PROVE  /\ LayerOK(T.layers[m], {}) /\ Flagged(T.layers[m], {})
              /\ T.layers[m].resident = NoResidency /\ T.layers[m].plan = NoPlan
  BY <1>4, <1>5, <1>8, <1>9, <1>10, SameMapsOK DEF SnapshotOK, S, SameProofs
<1>12. ASSUME S.topology = session, S.valid, NEW m \in Layer
       PROVE  /\ \A t \in Session : T.length[m][t] <= cache'[m][t].length
              /\ SnapshotShows(snapshots[k], m)'
  <2>1. /\ \A t \in Session : S.length[m][t] <= cache[m][t].length
        /\ SnapshotShows(S, m)
    BY <1>4, <1>5, <1>12 DEF SnapshotOK, S
  <2>2. \A t \in Session : T.length[m][t] <= cache'[m][t].length
    BY <1>10, <2>1
  <2>3. ASSUME NEW x \in Slot, T.layers[m].d2h[x] # None
        PROVE  \E t \in Live : \E i \in 0 .. T.length[m][t] - 1 :
                 HostRow(t, i) = T.layers[m].d2h[x] /\ T.layers[m].records[x] = <<t, i>>
    <3>1. T.layers[m].d2h = S.layers[m].d2h
      BY <1>8, <1>9, <1>10 DEF SameMaps
    <3>2. PICK t \in Live : \E i \in 0 .. S.length[m][t] - 1 :
            HostRow(t, i) = S.layers[m].d2h[x] /\ S.layers[m].records[x] = <<t, i>>
      BY <2>1, <2>3, <3>1 DEF SnapshotShows
    <3>3. PICK i \in 0 .. S.length[m][t] - 1 :
            HostRow(t, i) = S.layers[m].d2h[x] /\ S.layers[m].records[x] = <<t, i>>
      BY <3>2
    <3>4. t \in Session /\ i \in Nat /\ S.length[m][t] \in Nat
      BY <1>7 DEF Live
    <3>5. T.layers[m].records[x] = <<t, i>>
      <4>1. CASE m = l
        <5>1. t # s \/ i < first
          <6>1. t = s => S.length[m][t] <= first
            BY <2>1, <3>4, <4>1
          <6> HIDE DEF first
          <6> QED
            BY <1>2, <3>4, <6>1
        <5>2. M.records[x] = <<t, i>>
          BY <1>8, <3>3, <3>4, <4>1, <5>1 DEF StillThere
        <5> QED
          BY <1>9, <1>10, <4>1, <5>2
      <4>2. CASE m # l
        BY <1>9, <1>10, <3>3, <4>2
      <4> QED
        BY <4>1, <4>2
    <3> QED
      BY <1>10, <3>1, <3>3, <3>5
  <2>4. SnapshotShows(snapshots[k], m)'
    BY <1>1, <1>6, <2>3 DEF SnapshotShows
  <2> QED
    BY <2>2, <2>4
<1>13. \A t \in Session : /\ session[t] = "new" => S.topology[t] = "new"
                          /\ session[t] = "live" => S.topology[t] # "released"
  BY <1>4, <1>5 DEF SnapshotOK, S
<1> QED
  BY <1>1, <1>6, <1>10, <1>11, <1>12, <1>13 DEF SnapshotOK

(* Neither the prefetch nor the copies move. *)
LEMMA PrefetchStays ==
  ASSUME DInv, prefetch' = prefetch, writes' = writes
  PROVE  /\ PrefetchOK' /\ WritesOwned' /\ \A m : ClaimedOf(m)' = ClaimedOf(m)
  BY DEF DInv, PrefetchOK, WritesOwned, HostReady, ClaimedOf

(* What a caller that goes on knows of its session. *)
LEMMA CallerKnows ==
  ASSUME IInv, DInv, NEW l \in Layer, NEW s \in Session, Calls(l, s)
  PROVE  /\ s \in Live /\ ~cache[l][s].failed /\ ~Poisoned
         /\ ~Stepping(l, s) => /\ cache[l][s].written = cache[l][s].length
                               /\ ~Transient(l, s) /\ ~Pending(l, s)
                               /\ Persistent(l, s) = cache[l][s].length
<1>1. s \in Live /\ ~cache[l][s].failed /\ ~Poisoned
  BY CallsLive DEF Calls
<1>2. ASSUME ~Stepping(l, s)
      PROVE  /\ cache[l][s].written = cache[l][s].length
             /\ ~Transient(l, s) /\ ~Pending(l, s)
  BY <1>1, <1>2, IdleHoldsNothing DEF DInv, IdleCommitted
<1> QED
  BY <1>1, <1>2 DEF Persistent

(* A layer whose maps stay the same stays sound. *)
LEMMA SameLayerSound ==
  ASSUME IInv, DInv, NEW l \in Layer, NEW s \in Live, UNCHANGED allocation,
         ClaimedOf(l)' = ClaimedOf(l), OthersStay(l, s), NEW end \in Nat,
         pool'[l] \in LayerState, SameMaps(pool[l], pool'[l]),
         \/ SameProofs(pool[l], pool'[l])
         \/ pool'[l].plan = NoPlan
         \/ pool'[l].plan = pool[l].plan,
         \A x \in Slot : RecordStays(l, s, end, x), RowsFrom(l, s, end)
  PROVE  LayerSound(l)'
<1>1. /\ LayerOK(pool[l], ClaimedOf(l)) /\ Flagged(pool[l], ClaimedOf(l)) /\ Shows(l)
      /\ pool[l].plan.owner # None => Order(pool[l].plan.order)
  BY DEF DInv, LayerSound
<1>2. LayerOK(pool'[l], ClaimedOf(l)) /\ Flagged(pool'[l], ClaimedOf(l))
  BY <1>1, SameMapsOK
<1>3. SlotsFrom(l, s, end)
  BY DEF SlotsFrom, SameMaps
<1>4. Shows(l)'
  BY <1>1, <1>3, ShowsStep
<1>5. pool'[l].plan.owner # None => Order(pool'[l].plan.order)
  BY <1>1 DEF SameProofs, NoPlan
<1>6. LayerOK(pool[l], ClaimedOf(l))' /\ Flagged(pool[l], ClaimedOf(l))'
  BY <1>2 DEF LayerOK, Mirrors, AgesOK, Flagged
<1> QED
  BY <1>4, <1>5, <1>6 DEF LayerSound, Order

(* Equal records, and records of which only the session's are aged. *)
LEMMA RecordsFrom ==
  ASSUME NEW l \in Layer, NEW s, NEW end,
         \/ pool'[l].records = pool[l].records
         \/ StillThere(Slot, pool[l].records, pool'[l].records, s, end)
  PROVE  \A x \in Slot : RecordStays(l, s, end, x)
  BY DEF RecordStays, StillThere

(* A new step: nothing behind the committed end is mapped. *)
LEMMA BeginStepDevice ==
  ASSUME IInv, IInv', DInv, NEW l \in Layer, NEW s \in Session, NEW count \in Nat \ {0},
         BeginStep(l, s, count)
  PROVE  DInv'
<1> DEFINE c == cache[l][s]
           d == [c EXCEPT !.stepEnd = c.length + count, !.written = c.length]
           M == Superseded(pool[l], s, c.length)
<1>1. /\ Calls(l, s) /\ ~Stepping(l, s) /\ Set(l, s, d)
      /\ pool' = [pool EXCEPT ![l] = M]
      /\ snapshots' = AgedSnapshots(l, s, c.length)
      /\ UNCHANGED <<allocation, transient, candidates, prefetch, writes>>
  BY DEF BeginStep
<1>2. /\ s \in Live /\ ~c.failed /\ c.written = c.length /\ ~Transient(l, s)
      /\ Persistent(l, s) = c.length
  BY <1>1, CallerKnows
<1>3. c \in CacheState /\ c.length \in Nat
  BY <1>2, EndsOf
<1>4. d.length = c.length /\ d.written = c.length /\ d.stepEnd = c.length + count
      /\ d.transientStart = c.transientStart /\ d.failed = c.failed
  BY <1>3 DEF CacheState
<1> HIDE DEF d
<1>5. /\ cache'[l][s] = d /\ OthersStay(l, s) /\ \A m \in Layer : m # l => cache'[m] = cache[m]
      /\ Persistent(l, s)' = HostEnd(d) /\ (Transient(l, s)' <=> d.transientStart # None)
  BY <1>1, OneCache
<1>6. pool'[l] = M /\ \A m \in Layer : m # l => pool'[m] = pool[m]
  BY <1>1 DEF IInv, Shaped
<1>7. /\ M \in LayerState /\ SameMaps(pool[l], M) /\ SameProofs(pool[l], M)
      /\ StillThere(Slot, pool[l].records, M.records, s, c.length)
  BY <1>3, SupersededIs DEF DInv, LayerSound, LayerOK
<1> HIDE DEF M
<1>8. HostEnd(d) = c.length
  BY <1>2, <1>4 DEF HostEnd, Transient
<1>9. RowsFrom(l, s, c.length)
  BY <1>2, <1>5, <1>8 DEF RowsFrom
<1>10. PrefetchOK' /\ WritesOwned' /\ \A m : ClaimedOf(m)' = ClaimedOf(m)
  BY <1>1, PrefetchStays
<1>11. LayerSound(l)'
  <2>1. UNCHANGED allocation /\ \A x \in Slot : RecordStays(l, s, c.length, x)
    BY <1>1, <1>6, <1>7, RecordsFrom
  <2> HIDE DEF c
  <2> QED
    BY <1>2, <1>3, <1>5, <1>6, <1>7, <1>9, <1>10, <2>1, SameLayerSound
<1>12. SnapshotsOK'
  BY <1>4, <1>5, <1>1, SnapshotsAge DEF OthersStay, DInv
<1>13. c.length + count # None
  BY <1>3, SlotsAssumption
<1> QED
  BY <1>1, <1>2, <1>4, <1>5, <1>6, <1>10, <1>11, <1>12, <1>13, OneLayer

(* So with a transient step. *)
LEMMA BeginTransientDevice ==
  ASSUME IInv, IInv', DInv, NEW l \in Layer, NEW s \in Session, NEW count \in Nat \ {0},
         BeginTransient(l, s, count)
  PROVE  DInv'
<1> DEFINE c == cache[l][s]
           d == [c EXCEPT !.stepEnd = c.length + count, !.written = c.length,
                          !.transientStart = c.length]
           G == Leased(pool[l], s)
           M == Superseded(G, s, c.length)
<1>1. /\ Calls(l, s) /\ ~Stepping(l, s) /\ Set(l, s, d)
      /\ pool' = [pool EXCEPT ![l] = M]
      /\ snapshots' = AgedSnapshots(l, s, c.length)
      /\ UNCHANGED <<allocation, candidates, prefetch, writes>>
  BY DEF BeginTransient
<1>2. /\ s \in Live /\ ~c.failed /\ c.written = c.length /\ ~Transient(l, s)
      /\ Persistent(l, s) = c.length
  BY <1>1, CallerKnows
<1>3. c \in CacheState /\ c.length \in Nat
  BY <1>2, EndsOf
<1>4. d.length = c.length /\ d.written = c.length /\ d.stepEnd = c.length + count
      /\ d.transientStart = c.length /\ d.failed = c.failed
  BY <1>3 DEF CacheState
<1> HIDE DEF d
<1>5. /\ cache'[l][s] = d /\ OthersStay(l, s) /\ \A m \in Layer : m # l => cache'[m] = cache[m]
      /\ Persistent(l, s)' = HostEnd(d) /\ (Transient(l, s)' <=> d.transientStart # None)
  BY <1>1, OneCache
<1>6. pool'[l] = M /\ \A m \in Layer : m # l => pool'[m] = pool[m]
  BY <1>1 DEF IInv, Shaped
<1>7. /\ G \in LayerState /\ SameMaps(pool[l], G) /\ SameContent(pool[l], G)
      /\ G.plan = pool[l].plan \/ G.plan = NoPlan
  BY LeasedIs DEF DInv, LayerSound, LayerOK, SameProofs
<1> HIDE DEF G
<1>8. /\ M \in LayerState /\ SameMaps(G, M) /\ SameProofs(G, M)
      /\ StillThere(Slot, G.records, M.records, s, c.length)
  BY <1>3, <1>7, SupersededIs
<1> HIDE DEF M
<1>9. /\ SameMaps(pool[l], M) /\ (M.plan = pool[l].plan \/ M.plan = NoPlan)
      /\ StillThere(Slot, pool[l].records, M.records, s, c.length)
  BY <1>7, <1>8 DEF SameMaps, SameContent, SameProofs
<1>10. HostEnd(d) = c.length
  BY <1>3, <1>4, SlotsAssumption DEF HostEnd
<1>11. RowsFrom(l, s, c.length)
  BY <1>2, <1>5, <1>10 DEF RowsFrom
<1>12. PrefetchOK' /\ WritesOwned' /\ \A m : ClaimedOf(m)' = ClaimedOf(m)
  BY <1>1, PrefetchStays
<1>13. LayerSound(l)'
  <2>1. UNCHANGED allocation /\ \A x \in Slot : RecordStays(l, s, c.length, x)
    BY <1>1, <1>6, <1>9, RecordsFrom
  <2> HIDE DEF c
  <2> QED
    BY <1>2, <1>3, <1>5, <1>6, <1>8, <1>9, <1>11, <1>12, <2>1, SameLayerSound
<1>14. SnapshotsOK'
  BY <1>4, <1>5, <1>1, SnapshotsAge DEF OthersStay, DInv
<1>15. c.length + count # None
  BY <1>3, SlotsAssumption
<1> QED
  BY <1>1, <1>2, <1>4, <1>5, <1>6, <1>12, <1>13, <1>14, <1>15, OneLayer

(* A commit: everything shown is history already. *)
LEMMA CommitDevice ==
  ASSUME IInv, IInv', DInv, NEW l \in Layer, NEW s \in Session, Commit(l, s)
  PROVE  DInv'
<1> DEFINE c == cache[l][s]
           d == [c EXCEPT !.length = c.written, !.stepEnd = None]
<1>1. /\ Calls(l, s) /\ ~Transient(l, s) /\ Set(l, s, d)
      /\ UNCHANGED <<allocation, pool, transient, candidates, prefetch, writes, snapshots>>
  BY DEF Commit
<1>2. s \in Live /\ ~c.failed
  BY <1>1, CallerKnows
<1>3. /\ c \in CacheState /\ c.written \in Nat /\ c.length \in Nat /\ c.length <= c.written
      /\ Persistent(l, s) = HostEnd(c)
  BY <1>2, EndsOf DEF EndsOK
<1>4. d.length = c.written /\ d.written = c.written
      /\ d.transientStart = c.transientStart /\ d.failed = c.failed
  BY <1>3 DEF CacheState
<1> HIDE DEF d
<1>5. /\ cache'[l][s] = d /\ OthersStay(l, s) /\ \A m \in Layer : m # l => cache'[m] = cache[m]
      /\ Persistent(l, s)' = HostEnd(d) /\ (Transient(l, s)' <=> d.transientStart # None)
  BY <1>1, OneCache
<1>6. HostEnd(d) = c.written /\ HostEnd(c) = c.written
  BY <1>1, <1>4 DEF HostEnd, Transient
<1>7. RowsFrom(l, s, c.written)
  BY <1>2, <1>3, <1>5, <1>6 DEF RowsFrom
<1>8. PrefetchOK' /\ WritesOwned' /\ \A m : ClaimedOf(m)' = ClaimedOf(m)
  BY <1>1, PrefetchStays
<1>9. LayerSound(l)'
  <2>1. UNCHANGED allocation /\ \A x \in Slot : RecordStays(l, s, c.written, x)
    BY <1>1, RecordsFrom
  <2>2. pool'[l] \in LayerState /\ SameMaps(pool[l], pool'[l]) /\ SameProofs(pool[l], pool'[l])
    BY <1>1 DEF DInv, LayerSound, LayerOK, SameMaps, SameProofs
  <2> HIDE DEF c
  <2> QED
    BY <1>2, <1>3, <1>5, <1>7, <1>8, <2>1, <2>2, SameLayerSound
<1>10. SnapshotsOK'
  BY <1>3, <1>4, <1>5, <1>1, SnapshotsStay DEF IInv, CacheOK, EndsOK, CacheState, OthersStay,
     DInv
<1> QED
  BY <1>1, <1>2, <1>4, <1>5, <1>8, <1>9, <1>10, OneLayer

(* A refused rollback leaves records behind the end, of a failed step. *)
LEMMA RollbackRefusedDevice ==
  ASSUME SerialSteps, IInv, IInv', DInv, NEW l \in Layer, NEW s \in Session,
         RollbackRefused(l, s)
  PROVE  DInv'
<1> DEFINE c == cache[l][s]
           d == [c EXCEPT !.stepEnd = None, !.failed = SerialSteps]
<1>1. /\ MayStep(s) /\ ~Transient(l, s) /\ Set(l, s, d)
      /\ UNCHANGED <<allocation, pool, transient, candidates, prefetch, writes, snapshots>>
  BY DEF RollbackRefused
<1>2. s \in Live
  BY <1>1, CallsLive
<1>3. /\ c \in CacheState /\ c.written \in Nat
      /\ Persistent(l, s) = HostEnd(c)
  BY <1>2, EndsOf DEF EndsOK
<1>4. d.length = c.length /\ d.written = c.written
      /\ d.transientStart = c.transientStart /\ d.failed
  BY <1>3 DEF CacheState
<1> HIDE DEF d
<1>5. /\ cache'[l][s] = d /\ OthersStay(l, s) /\ \A m \in Layer : m # l => cache'[m] = cache[m]
      /\ Persistent(l, s)' = HostEnd(d) /\ (Transient(l, s)' <=> d.transientStart # None)
  BY <1>1, OneCache
<1>6. HostEnd(d) = c.written /\ HostEnd(c) = c.written /\ ~Transient(l, s)'
  BY <1>1, <1>4, <1>5 DEF HostEnd, Transient
<1>7. RowsFrom(l, s, c.written)
  BY <1>3, <1>4, <1>5, <1>6 DEF RowsFrom
<1>8. PrefetchOK' /\ WritesOwned' /\ \A m : ClaimedOf(m)' = ClaimedOf(m)
  BY <1>1, PrefetchStays
<1>9. LayerSound(l)'
  <2>1. UNCHANGED allocation /\ \A x \in Slot : RecordStays(l, s, c.written, x)
    BY <1>1, RecordsFrom
  <2>2. pool'[l] \in LayerState /\ SameMaps(pool[l], pool'[l]) /\ SameProofs(pool[l], pool'[l])
    BY <1>1 DEF DInv, LayerSound, LayerOK, SameMaps, SameProofs
  <2> HIDE DEF c
  <2> QED
    BY <1>2, <1>3, <1>5, <1>7, <1>8, <2>1, <2>2, SameLayerSound
<1>10. SnapshotsOK'
  <2>1. \A m \in Layer, t \in Session : cache[m][t].length <= cache'[m][t].length
    <3>1. SUFFICES ASSUME NEW m \in Layer, NEW t \in Session
                   PROVE  cache[m][t].length <= cache'[m][t].length
      OBVIOUS
    <3>2. cache[m][t].length \in Nat
      BY DEF IInv, CacheOK, EndsOK, CacheState
    <3> QED
      BY <1>3, <1>4, <1>5, <3>2 DEF OthersStay
  <2> QED
    BY <1>1, <2>1, SnapshotsStay DEF DInv
<1> QED
  BY <1>1, <1>2, <1>4, <1>5, <1>8, <1>9, <1>10, OneLayer

(* A transient append touches no map. *)
LEMMA AppendTransientDevice ==
  ASSUME IInv, IInv', DInv, NEW l \in Layer, NEW s \in Session, NEW count \in Nat \ {0},
         AppendTransient(l, s, count)
  PROVE  DInv'
<1> DEFINE c == cache[l][s]
           d == [c EXCEPT !.written = @ + count]
           M == Leased(pool[l], s)
<1>1. /\ Calls(l, s) /\ Stepping(l, s) /\ Transient(l, s) /\ Set(l, s, d)
      /\ pool' = [pool EXCEPT ![l] = M]
      /\ UNCHANGED <<allocation, transient, prefetch, writes, snapshots>>
  BY DEF AppendTransient
<1>2. s \in Live /\ ~c.failed
  BY <1>1, CallerKnows
<1>3. /\ c \in CacheState /\ c.transientStart \in Nat
      /\ Persistent(l, s) = HostEnd(c)
  BY <1>1, <1>2, EndsOf DEF Transient, CacheState
<1>4. d.length = c.length /\ d.stepEnd = c.stepEnd
      /\ d.transientStart = c.transientStart /\ d.failed = c.failed
  BY <1>3 DEF CacheState
<1> HIDE DEF d
<1>5. /\ cache'[l][s] = d /\ OthersStay(l, s) /\ \A m \in Layer : m # l => cache'[m] = cache[m]
      /\ Persistent(l, s)' = HostEnd(d) /\ (Transient(l, s)' <=> d.transientStart # None)
  BY <1>1, OneCache
<1>6. HostEnd(d) = c.transientStart /\ HostEnd(c) = c.transientStart
  BY <1>1, <1>4 DEF HostEnd, Transient
<1>7. RowsFrom(l, s, c.transientStart)
  BY <1>2, <1>3, <1>5, <1>6 DEF RowsFrom
<1>8. PrefetchOK' /\ WritesOwned' /\ \A m : ClaimedOf(m)' = ClaimedOf(m)
  BY <1>1, PrefetchStays
<1>9. pool'[l] = M /\ \A m \in Layer : m # l => pool'[m] = pool[m]
  BY <1>1 DEF IInv, Shaped
<1>10. /\ M \in LayerState /\ SameMaps(pool[l], M) /\ SameContent(pool[l], M)
       /\ M.plan = pool[l].plan \/ M.plan = NoPlan
  BY <1>2, LeasedIs DEF DInv, LayerSound, LayerOK, SameProofs
<1> HIDE DEF M
<1>11. LayerSound(l)'
  <2>1. UNCHANGED allocation /\ \A x \in Slot : RecordStays(l, s, c.transientStart, x)
    BY <1>1, <1>9, <1>10, RecordsFrom DEF SameContent
  <2> HIDE DEF c
  <2> QED
    BY <1>2, <1>3, <1>5, <1>7, <1>8, <1>9, <1>10, <2>1, SameLayerSound
<1>12. SnapshotsOK'
  BY <1>3, <1>4, <1>5, <1>1, SnapshotsStay DEF IInv, CacheOK, EndsOK, CacheState, OthersStay,
     DInv
<1>13. c.stepEnd # None
  BY <1>1 DEF Stepping
<1> QED
  BY <1>1, <1>2, <1>4, <1>5, <1>8, <1>9, <1>11, <1>12, <1>13, OneLayer

-----------------------------------------------------------------------------
(* Appends. *)

(* None is neither a row nor a slot. *)
LEMMA NoneIsNone == None \notin Row /\ None \notin Slot /\ None \notin Nat /\ None \notin Session
  BY SlotsAssumption DEF Row, Slot

(* Nothing behind the end of a session that has seen no failure is mapped. *)
LEMMA NewRowsUnmapped ==
  ASSUME IInv, DInv, NEW l \in Layer, NEW s \in Live, ~cache[l][s].failed,
         NEW i \in 0 .. Capacity[s] - 1, Persistent(l, s) <= i
  PROVE  HostRow(s, i) \in Row /\ pool[l].h2d[HostRow(s, i)] = None
<1> DEFINE r == HostRow(s, i)
<1>1. AllocationOK /\ r \in Row
  BY IndexHasRow DEF IInv
<1>2. LayerOK(pool[l], ClaimedOf(l)) /\ Shows(l)
  BY DEF DInv, LayerSound
<1>3. SUFFICES ASSUME pool[l].h2d[r] # None PROVE FALSE
  BY <1>1
<1> DEFINE x == pool[l].h2d[r]
<1>4. x \in Slot /\ pool[l].d2h[x] = r
  BY <1>1, <1>2, <1>3, LayerTyped DEF LayerOK, Mirrors
<1>5. r # None
  BY <1>1, NoneIsNone
<1> HIDE DEF x
<1>6. PICK t \in Live : \E j \in 0 .. Capacity[t] - 1 :
        HostRow(t, j) = r /\ ShowsOf(l, t, j, pool[l].records[x])
  BY <1>2, <1>4, <1>5 DEF Shows
<1>7. PICK j \in 0 .. Capacity[t] - 1 :
        HostRow(t, j) = r /\ ShowsOf(l, t, j, pool[l].records[x])
  BY <1>6
<1>8. t = s /\ j = i
  BY <1>1, <1>7, RowsAreApart
<1>9. Persistent(l, s) \in Nat
  BY EndsOf DEF HostEnd, EndsOK, CacheState
<1>10. i \in Int /\ ~(i < Persistent(l, s))
  BY <1>9
<1> QED
  BY <1>7, <1>8, <1>10 DEF ShowsOf

(* A new plan is an order of the slots by age, or the plan of the holder's *)
(* own.                                                                    *)
LEMMA PlanningIs ==
  ASSUME NEW L \in LayerState, NEW s \in Session, NEW start \in Nat, NEW count \in Nat,
         count <= Slots
  PROVE  LET M == Planning(L, s, start, count) IN
         /\ M \in LayerState /\ SameMaps(L, M) /\ SameContent(L, M)
         /\ M.lease = L.lease /\ M.resident = L.resident
         /\ start = 0 => M.plan = [owner |-> s, cursor |-> 0, order |-> PriorityOrder(L)]
         /\ start # 0 => M.plan = L.plan
<1> DEFINE p == [owner |-> s, cursor |-> 0, order |-> PriorityOrder(L)]
           N == [L EXCEPT !.plan = p]
           M == Planning(L, s, start, count)
<1>1. Order(PriorityOrder(L))
  BY PriorityOrderIs
<1>2. PriorityOrder(L) \in Seq(Slot)
  BY <1>1, SlotsAssumption, SeqDef DEF Order
<1>3. p \in [owner : Session \cup {None}, cursor : Nat, order : Seq(Slot)]
  BY <1>2
<1> HIDE DEF p
<1>4. N \in LayerState /\ SameMaps(L, N) /\ SameContent(L, N) /\ N.lease = L.lease
      /\ N.resident = L.resident /\ N.plan = p
  BY <1>3 DEF LayerState, SameMaps, SameContent
<1>5. M = IF start = 0 THEN N ELSE L
  BY DEF Planning, p
<1> HIDE DEF N, M
<1>6. M \in LayerState /\ SameMaps(L, M) /\ SameContent(L, M)
      /\ M.lease = L.lease /\ M.resident = L.resident
      /\ (start = 0 => M.plan = p) /\ (start # 0 => M.plan = L.plan)
  BY <1>4, <1>5 DEF SameMaps, SameContent
<1> QED
  BY <1>6 DEF M, p

(* What an append may assume. *)
LEMMA AppendMayAssume ==
  ASSUME IInv, DInv, NEW l \in Layer, NEW s \in Session, NEW count \in Nat \ {0},
         AppendMayRun(l, s, count)
  PROVE  /\ s \in Live /\ ~cache[l][s].failed /\ ~Transient(l, s)
         /\ cache[l][s] \in CacheState
         /\ cache[l][s].written \in Nat /\ Persistent(l, s) = cache[l][s].written
         /\ cache[l][s].length \in Nat /\ Capacity[s] \in Nat
         /\ cache[l][s].written + count <= Capacity[s]
         /\ cache[l][s].stepEnd # None
         /\ prefetch = None /\ ClaimedOf(l) = {} /\ count <= Slots
<1> DEFINE c == cache[l][s]
<1>1. /\ Calls(l, s) /\ Stepping(l, s) /\ ~Transient(l, s) /\ c.written + count <= c.stepEnd
      /\ ~Pending(l, s) /\ Usable(l, s) /\ count <= Slots
  BY DEF AppendMayRun
<1>2. s \in Live /\ ~c.failed
  BY <1>1, CallerKnows
<1>3. /\ EndsOK(c, Capacity[s]) /\ c \in CacheState
      /\ c.written \in Nat /\ c.length \in Nat /\ c.stepEnd \in Nat
      /\ Persistent(l, s) = HostEnd(c) /\ Capacity[s] \in Nat \ {0}
  BY <1>1, <1>2, EndsOf DEF Stepping
<1>4. c.transientStart = None /\ c.stepEnd # None
  BY <1>1 DEF Transient, Stepping
<1>5. c.stepEnd <= Capacity[s]
  BY <1>3, <1>4 DEF EndsOK
<1>6. prefetch = None
  BY <1>1 DEF Usable
<1>7. HostEnd(c) = c.written
  BY <1>4 DEF HostEnd
<1> HIDE DEF c
<1>8. c.written + count <= Capacity[s]
  BY <1>1, <1>3, <1>5
<1> QED
  BY <1>1, <1>2, <1>3, <1>4, <1>6, <1>7, <1>8 DEF ClaimedOf, c

(* A part of an order of the slots. *)
LEMMA SliceOf ==
  ASSUME NEW q, Order(q), NEW m \in Nat, NEW n \in Nat, m + n <= Slots
  PROVE  /\ Slice(q, m, n) \in [1 .. n -> Slot] /\ IsInjective(Slice(q, m, n))
         /\ \A k \in 1 .. n : Slice(q, m, n)[k] = q[m + k]
<1>1. PICK N \in Nat : N = Slots
  BY SlotsAssumption
<1>2. q \in [1 .. N -> Slot] /\ IsInjective(q) /\ m + n <= N
  BY <1>1 DEF Order
<1>3. Slice(q, m, n) \in [1 .. n -> Slot] /\ IsInjective(Slice(q, m, n))
  BY <1>2, SliceIs
<1>4. FromPlace(Slice(q, m, n), q, m, n)
  BY <1>2, <1>3, SliceIs
<1> QED
  BY <1>3, <1>4 DEF FromPlace

(* The room of a planned append. *)
PlannedRoom(l, s, w, count, room) ==
  /\ w + count <= Slots /\ room.pool.plan.owner = s /\ Order(room.pool.plan.order)
  /\ \A k \in 1 .. count : room.chosen[k] = room.pool.plan.order[w + k]
  /\ w = 0 => /\ room.pool.plan.order = PriorityOrder(pool[l]) /\ room.pool.plan.cursor = 0
              /\ \/ room.pool.resident = NoResidency
                 \/ room.pool.resident = pool[l].resident /\ pool[l].lease = s
  /\ w # 0 => /\ SameProofs(pool[l], room.pool) /\ pool[l].plan.cursor = w
              /\ AllHistoryResident(pool[l], l, s)

(* An append takes as many slots as it has records, none twice, and        *)
(* empties them.                                                           *)
LEMMA AppendRoomIs ==
  ASSUME IInv, DInv, NEW l \in Layer, NEW s \in Session, NEW count \in Nat \ {0},
         AppendMayRun(l, s, count)
  PROVE  LET room == AppendRoom(l, s, count) IN
         /\ room.chosen \in [1 .. count -> Slot] /\ IsInjective(room.chosen)
         /\ LayerOK(room.pool, {}) /\ Flagged(room.pool, {})
         /\ Emptied(pool[l], room.pool, Range(room.chosen))
         /\ SameContent(pool[l], room.pool) /\ room.pool.lease = s
         /\ room.planned \in BOOLEAN
         /\ room.planned => PlannedRoom(l, s, cache[l][s].written, count, room)
         /\ ~room.planned => room.pool.resident = NoResidency /\ room.pool.plan = NoPlan
<1> DEFINE c == cache[l][s]
           w == c.written
           G == Leased(pool[l], s)
           L == Planning(G, s, w, count)
           room == AppendRoom(l, s, count)
<1>1. /\ s \in Live /\ ~c.failed /\ w \in Nat /\ Persistent(l, s) = w /\ Capacity[s] \in Nat
      /\ w + count <= Capacity[s] /\ ClaimedOf(l) = {} /\ count <= Slots
  BY AppendMayAssume
<1>2. /\ LayerOK(pool[l], {}) /\ Flagged(pool[l], {}) /\ pool[l] \in LayerState
      /\ pool[l].plan.owner # None => Order(pool[l].plan.order)
  BY <1>1 DEF DInv, LayerSound, LayerOK
<1>3. /\ G \in LayerState /\ SameMaps(pool[l], G) /\ SameContent(pool[l], G) /\ G.lease = s
      /\ \/ pool[l].lease = s /\ SameProofs(pool[l], G)
         \/ G.resident = NoResidency /\ G.plan = NoPlan
  BY <1>2, LeasedIs
<1> HIDE DEF w, G
<1>4. /\ L \in LayerState /\ SameMaps(G, L) /\ SameContent(G, L) /\ L.lease = s
      /\ L.resident = G.resident
      /\ w = 0 => L.plan = [owner |-> s, cursor |-> 0, order |-> PriorityOrder(G)]
      /\ w # 0 => L.plan = G.plan
  BY <1>1, <1>3, PlanningIs
<1>5. SameMaps(pool[l], L) /\ SameContent(pool[l], L)
  BY <1>3, <1>4 DEF SameMaps, SameContent
<1>6. LayerOK(L, {}) /\ Flagged(L, {})
  BY <1>2, <1>4, <1>5, SameMapsOK
<1> HIDE DEF L
<1>7. PriorityOrder(G) = PriorityOrder(pool[l]) /\ Order(PriorityOrder(G))
  BY <1>3, PriorityOrderIs DEF PriorityOrder, SameMaps
<1>8. CASE Planned(L, l, s, w, count)
  <2> DEFINE q == L.plan.order
             chosen == Slice(q, w, count)
             R == Evicted(L, Range(chosen))
  <2>1. room = [planned |-> TRUE, chosen |-> chosen, pool |-> R]
    BY <1>8, Zenon DEF AppendRoom, Slice, L, G, w
  <2>2. /\ L.plan.owner = s /\ L.plan.cursor = w /\ w + count <= Slots
        /\ w > 0 => AllHistoryResident(L, l, s)
    BY <1>8 DEF Planned
  <2>3. w # 0 => SameProofs(pool[l], L)
    BY <1>1, <1>3, <1>4, <2>2, NoneIsNone DEF SameProofs, NoPlan
  <2>4. Order(q)
    BY <1>1, <1>2, <1>4, <1>7, <2>2, <2>3, NoneIsNone DEF SameProofs
  <2> HIDE DEF q
  <2>5. /\ chosen \in [1 .. count -> Slot] /\ IsInjective(chosen)
        /\ \A k \in 1 .. count : chosen[k] = q[w + k]
    BY <1>1, <2>2, <2>4, SliceOf
  <2> HIDE DEF chosen
  <2>6. Range(chosen) \in SUBSET Slot
    BY <2>5 DEF Range
  <2>7. /\ LayerOK(R, {}) /\ Flagged(R, {}) /\ Emptied(L, R, Range(chosen))
        /\ SameContent(L, R) /\ SameProofs(L, R)
    BY <1>6, <2>6, EvictedIs
  <2> HIDE DEF R
  <2>8. room.planned = TRUE /\ room.chosen = chosen /\ room.pool = R
    BY <2>1
  <2> HIDE DEF room
  <2>9. Emptied(pool[l], R, Range(chosen)) /\ SameContent(pool[l], R) /\ R.lease = s
    BY <1>4, <1>5, <2>7 DEF Emptied, SameMaps, SameContent, SameProofs
  <2>10. w # 0 => AllHistoryResident(pool[l], l, s)
    BY <1>1, <2>2, <2>3 DEF AllHistoryResident, SameProofs
  <2>11. w = 0 => q = PriorityOrder(pool[l])
    BY <1>4, <1>7 DEF q
  <2>14. w = 0 => /\ R.plan.cursor = 0
                  /\ \/ R.resident = NoResidency
                     \/ R.resident = pool[l].resident /\ pool[l].lease = s
    BY <1>3, <1>4, <2>7 DEF SameProofs
  <2>12. R.plan.order = q /\ R.plan.owner = s /\ (w # 0 => SameProofs(pool[l], R))
         /\ (w # 0 => pool[l].plan.cursor = w)
    BY <2>2, <2>3, <2>7 DEF SameProofs, q
  <2>13. PlannedRoom(l, s, w, count, room)
    BY <2>2, <2>4, <2>5, <2>8, <2>10, <2>11, <2>12, <2>14 DEF PlannedRoom
  <2> QED
    BY <2>5, <2>7, <2>8, <2>9, <2>13 DEF room, w
<1>9. CASE ~Planned(L, l, s, w, count)
  <2> DEFINE rows == HostRows(s, New(c, count))
             chosen == SubSeq(Available(L, rows), 1, count)
             E == Evicted(L, Range(chosen))
             R == Invalidated(E)
  <2>1. room = [planned |-> FALSE, chosen |-> chosen, pool |-> R]
    BY <1>9, Zenon DEF AppendRoom, L, G, w
  <2>2. Mapped(L, rows) = {}
    BY <1>1, <1>5, NewRowsUnmapped DEF New, w, SameMaps, Mapped, HostRows
  <2>3. count <= Cardinality(Slot \ Mapped(L, rows))
    BY <2>2, <1>1, SlotsAreFinite
  <2> HIDE DEF rows
  <2>4. chosen \in [1 .. count -> Slot] /\ IsInjective(chosen)
    BY <1>4, <2>3, AvailableIs
  <2> HIDE DEF chosen
  <2>5. Range(chosen) \in SUBSET Slot
    BY <2>4 DEF Range
  <2>6. /\ LayerOK(E, {}) /\ Flagged(E, {}) /\ Emptied(L, E, Range(chosen))
        /\ SameContent(L, E) /\ SameProofs(L, E) /\ E \in LayerState
    BY <1>6, <2>5, EvictedIs DEF LayerOK
  <2> HIDE DEF E
  <2>7. /\ R \in LayerState /\ SameMaps(E, R) /\ SameContent(E, R) /\ R.lease = E.lease
        /\ R.resident = NoResidency /\ R.plan = NoPlan
    BY <2>6, InvalidatedIs
  <2> HIDE DEF R
  <2>8. LayerOK(R, {}) /\ Flagged(R, {})
    BY <2>6, <2>7, SameMapsOK
  <2>9. room.planned = FALSE /\ room.chosen = chosen /\ room.pool = R
    BY <2>1
  <2> HIDE DEF room
  <2>10. Emptied(pool[l], R, Range(chosen)) /\ SameContent(pool[l], R) /\ R.lease = s
    BY <1>4, <1>5, <2>6, <2>7 DEF Emptied, SameMaps, SameContent, SameProofs
  <2> QED
    BY <2>4, <2>7, <2>8, <2>9, <2>10 DEF room
<1> QED
  BY <1>8, <1>9

(* The slots that an append has taken show its records. *)
Appends(l, s, w, count, chosen, M) ==
  /\ \A k \in 1 .. count : /\ M.d2h[chosen[k]] = HostRow(s, w + k - 1)
                           /\ M.records[chosen[k]] = <<s, w + k - 1>>
  /\ \A x \in Slot \ Range(chosen) : /\ M.d2h[x] = pool[l].d2h[x]
                                     /\ M.records[x] = pool[l].records[x]

(* An event that comes after changes of maps. *)
LEMMA NewestFrom ==
  ASSUME NEW L, NEW I, NEW M, NEW slots \in SUBSET Slot, L \in LayerState,
         M \in LayerState, Newest(I, M, slots),
         I.clock = L.clock, \A x \in Slot \ slots : /\ I.d2h[x] = L.d2h[x]
                                                    /\ I.priority[x] = L.priority[x]
  PROVE  Newest(L, M, slots)
<1>1. \A x \in Slot : M.priority[x] \in Int
  BY LayerTyped, SlotsAssumption
<1>2. M.clock \in Int
  BY LayerTyped, SlotsAssumption
<1>3. \A x \in Slot : M.priority[x] < M.clock - 2 => x \notin slots
  BY <1>1, <1>2 DEF Newest
<1> QED
  BY <1>3 DEF Newest

(* An append puts its records into the slots it takes, as the newest. *)
LEMMA AppendedIs ==
  ASSUME IInv, DInv, NEW l \in Layer, NEW s \in Session, NEW count \in Nat \ {0},
         AppendMayRun(l, s, count)
  PROVE  LET M == Appended(l, s, count)
             room == AppendRoom(l, s, count)
             w == cache[l][s].written IN
         /\ LayerOK(M, {}) /\ Flagged(M, {}) /\ M.host = pool[l].host /\ M.lease = s
         /\ Appends(l, s, w, count, room.chosen, M)
         /\ Newest(pool[l], M, Range(room.chosen))
         /\ room.planned =>
              /\ M.resident = [owner |-> s, end |-> w + count]
              /\ M.plan = [owner |-> s, cursor |-> w + count, order |-> room.pool.plan.order]
         /\ ~room.planned => M.resident = NoResidency /\ M.plan = NoPlan
<1> DEFINE c == cache[l][s]
           w == c.written
           room == AppendRoom(l, s, count)
           P == room.pool
           chosen == room.chosen
           rows == [k \in 1 .. count |-> HostRow(s, w + k - 1)]
           record == [k \in 1 .. count |-> <<s, w + k - 1>>]
           I == Installed(P, rows, chosen, record)
           N == Stamped(I, Range(chosen))
           M == Appended(l, s, count)
<1>1. /\ s \in Live /\ ~c.failed /\ w \in Nat /\ Persistent(l, s) = w /\ Capacity[s] \in Nat
      /\ w + count <= Capacity[s] /\ ClaimedOf(l) = {} /\ count <= Slots /\ count \in Nat
  BY AppendMayAssume
<1>2. pool[l] \in LayerState
  BY DEF DInv, LayerSound, LayerOK
<1>3. /\ chosen \in [1 .. count -> Slot] /\ IsInjective(chosen)
      /\ LayerOK(P, {}) /\ Flagged(P, {}) /\ Emptied(pool[l], P, Range(chosen))
      /\ SameContent(pool[l], P) /\ P.lease = s /\ room.planned \in BOOLEAN
      /\ ~room.planned => P.resident = NoResidency /\ P.plan = NoPlan
  BY AppendRoomIs
<1>4. M = IF room.planned THEN Certified(N, s, w + count) ELSE WithoutPlan(N)
  BY Zenon DEF Appended
<1> HIDE DEF w, room, M
<1> DEFINE planned == room.planned
<1> HIDE DEF P, chosen, planned
<1>5. ASSUME NEW k \in 1 .. count
      PROVE  /\ w + k - 1 \in 0 .. Capacity[s] - 1 /\ w + k - 1 \in Nat
             /\ HostRow(s, w + k - 1) \in Row
             /\ pool[l].h2d[HostRow(s, w + k - 1)] = None
             /\ <<s, w + k - 1>> \in Record
  <2>1. w + k - 1 \in 0 .. Capacity[s] - 1 /\ w + k - 1 \in Nat /\ w <= w + k - 1
    BY <1>1
  <2>2. <<s, w + k - 1>> \in Record
    BY <2>1 DEF Record
  <2> DEFINE i == w + k - 1
  <2> HIDE DEF i
  <2>3. i \in 0 .. Capacity[s] - 1 /\ Persistent(l, s) <= i
    BY <1>1, <2>1 DEF i
  <2>4. HostRow(s, i) \in Row /\ pool[l].h2d[HostRow(s, i)] = None
    BY <1>1, <2>3, NewRowsUnmapped DEF c
  <2> QED
    BY <2>1, <2>2, <2>4 DEF i
<1>6. rows \in [1 .. count -> Row] /\ record \in [1 .. count -> Record]
  BY <1>5
<1>7. \A k \in 1 .. count : rows[k] = HostRow(s, w + k - 1) /\ record[k] = <<s, w + k - 1>>
  OBVIOUS
<1>8. IsInjective(rows)
  <2>1. SUFFICES ASSUME NEW j \in 1 .. count, NEW k \in 1 .. count, rows[j] = rows[k]
                 PROVE  j = k
    BY DEF IsInjective
  <2> DEFINE a == w + j - 1
             b == w + k - 1
  <2>2. /\ a \in 0 .. Capacity[s] - 1 /\ b \in 0 .. Capacity[s] - 1
        /\ HostRow(s, a) = HostRow(s, b) /\ AllocationOK
    BY <1>5, <1>7, <2>1 DEF IInv
  <2>3. a = b
    <3> HIDE DEF a, b
    <3> QED
      BY <1>1, <2>2, RowsAreApart
  <2> QED
    BY <1>1, <2>3
<1> HIDE DEF rows, record
<1>9. P.d2h \in [Slot -> Row \cup {None}] /\ P.h2d \in [Row -> Slot \cup {None}]
  BY <1>3, LayerTyped DEF LayerOK
<1>10. Range(chosen) \in SUBSET Slot /\ \A k \in 1 .. count : chosen[k] \in Range(chosen)
  BY <1>3 DEF Range
<1>11. \A k \in 1 .. count : P.h2d[rows[k]] = None /\ P.d2h[chosen[k]] = None
  <2>1. ASSUME NEW k \in 1 .. count PROVE P.h2d[rows[k]] = None
    BY <1>3, <1>5, <1>6, <1>7, ZenonT(60) DEF Emptied
  <2>2. ASSUME NEW k \in 1 .. count PROVE P.d2h[chosen[k]] = None
    BY <1>3, <1>10 DEF Emptied
  <2> QED
    BY <2>1, <2>2
<1>12. /\ LayerOK(I, Range(chosen)) /\ Flagged(I, {})
       /\ Placed(P, I, count, rows, chosen, record)
       /\ I.priority = P.priority /\ I.clock = P.clock /\ I.host = P.host /\ SameProofs(P, I)
  BY <1>1, <1>3, <1>6, <1>8, <1>11, InstalledIs, Zenon
<1> HIDE DEF I
<1>13. \A x \in Range(chosen) : I.d2h[x] # None
  BY <1>3, <1>6, <1>12, NoneIsNone DEF Range, Placed
<1>14. /\ LayerOK(N, Range(chosen) \ Range(chosen))
       /\ N.h2d = I.h2d /\ N.d2h = I.d2h /\ N.free = I.free
       /\ SameContent(I, N) /\ SameProofs(I, N) /\ Newest(I, N, Range(chosen))
  BY <1>10, <1>12, <1>13, StampedIs, Zenon
<1> HIDE DEF N
<1>15. Range(chosen) \ Range(chosen) = {}
  OBVIOUS
<1>16. LayerOK(N, {}) /\ Flagged(N, {}) /\ N \in LayerState
  BY <1>14, <1>15, <1>12 DEF LayerOK, Flagged
<1>17. M \in LayerState /\ SameMaps(N, M) /\ SameContent(N, M) /\ M.lease = N.lease
       /\ (planned => /\ M.resident = [owner |-> s, end |-> w + count]
                      /\ M.plan = [owner |-> s, cursor |-> w + count, order |-> N.plan.order])
       /\ (~planned => M.resident = N.resident /\ M.plan = NoPlan)
  <2>1. w + count \in Nat
    BY <1>1
  <2>2. CASE planned
    <3> DEFINE e == w + count
    <3> HIDE DEF e
    <3>1. M = Certified(N, s, e) /\ e \in Nat
      BY <1>4, <2>1, <2>2 DEF e, planned
    <3>2. /\ M \in LayerState /\ SameMaps(N, M) /\ SameContent(N, M) /\ M.lease = N.lease
          /\ M.resident = [owner |-> s, end |-> e]
          /\ M.plan = [owner |-> s, cursor |-> e, order |-> N.plan.order]
      BY <1>16, <3>1, CertifiedIs
    <3> QED
      BY <2>2, <3>2 DEF e
  <2>3. CASE ~planned
    BY <1>4, <1>16, <2>3, WithoutPlanIs DEF planned
  <2> QED
    BY <2>2, <2>3
<1>18. LayerOK(M, {}) /\ Flagged(M, {})
  BY <1>16, <1>17, SameMapsOK
<1>19. M.host = pool[l].host /\ M.lease = s
  BY <1>3, <1>12, <1>14, <1>17 DEF SameContent, SameProofs
<1>20. Appends(l, s, w, count, chosen, M)
  BY <1>14, <1>17, <1>7, <1>12, <1>3 DEF SameMaps, SameContent, Placed, Emptied, Appends
<1>21. Newest(pool[l], M, Range(chosen))
  <2>1. M.priority = N.priority /\ M.clock = N.clock
    BY <1>17 DEF SameMaps
  <2>2. Newest(I, M, Range(chosen))
    BY <1>14, <2>1 DEF Newest
  <2>3. I.clock = pool[l].clock
    BY <1>3, <1>12 DEF Emptied
  <2>4. \A x \in Slot \ Range(chosen) : I.d2h[x] = pool[l].d2h[x]
                                        /\ I.priority[x] = pool[l].priority[x]
    BY <1>3, <1>12 DEF Emptied, Placed
  <2> QED
    BY <1>2, <1>10, <1>17, <2>2, <2>3, <2>4, NewestFrom
<1>22. ~planned => M.resident = NoResidency /\ M.plan = NoPlan
  BY <1>3, <1>12, <1>14, <1>17 DEF SameProofs, planned
<1>23. planned => /\ M.resident = [owner |-> s, end |-> w + count]
                  /\ M.plan = [owner |-> s, cursor |-> w + count, order |-> P.plan.order]
  BY <1>12, <1>14, <1>17 DEF SameProofs
<1> QED
  BY <1>18, <1>19, <1>20, <1>21, <1>22, <1>23 DEF M, room, w, P, chosen, planned

(* What makes a layer sound after a step of session s. *)
LEMMA LayerMoves ==
  ASSUME IInv, DInv, NEW l \in Layer, NEW s \in Live, UNCHANGED allocation,
         OthersStay(l, s), NEW end \in Nat, SlotsFrom(l, s, end), RowsFrom(l, s, end),
         NEW M, pool'[l] = M, NEW C, ClaimedOf(l)' = C, LayerOK(M, C), Flagged(M, C),
         M.plan.owner # None => Order(M.plan.order)
  PROVE  LayerSound(l)'
<1>1. Shows(l)'
  BY ShowsStep DEF DInv, LayerSound
<1>2. LayerOK(pool[l], ClaimedOf(l))' /\ Flagged(pool[l], ClaimedOf(l))'
  BY DEF LayerOK, Mirrors, AgesOK, Flagged
<1>3. pool'[l].plan.owner # None => Order(pool'[l].plan.order)
  OBVIOUS
<1> QED
  BY <1>1, <1>2, <1>3 DEF LayerSound, Order

(* The new records are in their slots, the others where they were. *)
LEMMA AppendShows ==
  ASSUME IInv, DInv, NEW l \in Layer, NEW s \in Session, NEW count \in Nat \ {0},
         AppendMayRun(l, s, count), UNCHANGED allocation,
         pool'[l] = Appended(l, s, count),
         \/ Persistent(l, s)' = cache[l][s].written + count
         \/ cache'[l][s].failed /\ ~Transient(l, s)'
  PROVE  SlotsFrom(l, s, cache[l][s].written)
<1> DEFINE w == cache[l][s].written
           M == Appended(l, s, count)
           room == AppendRoom(l, s, count)
           chosen == room.chosen
<1>1. /\ s \in Live /\ w \in Nat /\ Capacity[s] \in Nat /\ w + count <= Capacity[s]
  BY AppendMayAssume
<1>2. Appends(l, s, w, count, chosen, M) /\ chosen \in [1 .. count -> Slot]
  BY AppendedIs, AppendRoomIs
<1>3. SUFFICES ASSUME NEW x \in Slot, pool'[l].d2h[x] # None
               PROVE  \/ /\ pool'[l].d2h[x] = pool[l].d2h[x]
                         /\ RecordStays(l, s, w, x)
                      \/ Arrived(l, s, x)
  BY DEF SlotsFrom
<1> HIDE DEF chosen, M, w
<1>4. CASE x \in Range(chosen)
  <2>1. PICK k \in 1 .. count : x = chosen[k]
    BY <1>2, <1>4 DEF Range
  <2>2. /\ w + k - 1 \in 0 .. Capacity[s] - 1 /\ w + k - 1 < w + count
    BY <1>1
  <2>3. pool'[l].d2h[x] = HostRow(s, w + k - 1) /\ pool'[l].records[x] = <<s, w + k - 1>>
    BY <1>2, <2>1 DEF Appends, M
  <2>4. Arrived(l, s, x)
    BY <2>2, <2>3 DEF Arrived, w
  <2> QED
    BY <2>4
<1>5. CASE x \notin Range(chosen)
  BY <1>2, <1>5 DEF Appends, M, RecordStays
<1> QED
  BY <1>4, <1>5

(* The plan behind an append is an order of the slots. *)
LEMMA AppendPlans ==
  ASSUME IInv, DInv, NEW l \in Layer, NEW s \in Session, NEW count \in Nat \ {0},
         AppendMayRun(l, s, count)
  PROVE  LET M == Appended(l, s, count)
             R == AppendRoom(l, s, count).pool IN
         /\ M.plan.owner # None => Order(M.plan.order)
         /\ R.plan.owner # None => Order(R.plan.order)
<1> DEFINE room == AppendRoom(l, s, count)
<1>1. /\ room.planned \in BOOLEAN
      /\ room.planned => Order(room.pool.plan.order)
      /\ ~room.planned => room.pool.plan = NoPlan
  BY AppendRoomIs DEF PlannedRoom
<1>2. LET M == Appended(l, s, count) IN
      /\ room.planned => M.plan = [owner |-> s, cursor |-> cache[l][s].written + count,
                                   order |-> room.pool.plan.order]
      /\ ~room.planned => M.plan = NoPlan
  BY AppendedIs
<1> QED
  BY <1>1, <1>2 DEF NoPlan

(* An append: every new record is in its slot. *)
LEMMA AppendRecordsDevice ==
  ASSUME IInv, IInv', DInv, NEW l \in Layer, NEW s \in Session, NEW count \in Nat \ {0},
         AppendRecords(l, s, count)
  PROVE  DInv'
<1> DEFINE c == cache[l][s]
           d == [c EXCEPT !.written = @ + count]
           M == Appended(l, s, count)
           t == [owner |-> s, layer |-> l, rows |-> SentRows(s, New(c, count))]
<1>1. /\ AppendMayRun(l, s, count) /\ Set(l, s, d)
      /\ pool' = [pool EXCEPT ![l] = M]
      /\ UNCHANGED <<allocation, transient, candidates, prefetch, snapshots>>
  BY DEF AppendRecords
<1>2. writes' = Append(writes, t)
  BY Zenon DEF AppendRecords, WriteHost, SentRows
<1>3. /\ s \in Live /\ ~c.failed /\ ~Transient(l, s) /\ c \in CacheState /\ c.length \in Nat
      /\ c.written \in Nat /\ Persistent(l, s) = c.written
      /\ prefetch = None /\ ClaimedOf(l) = {} /\ c.stepEnd # None
  BY <1>1, AppendMayAssume
<1>4. d.length = c.length /\ d.stepEnd = c.stepEnd /\ d.written = c.written + count
      /\ d.transientStart = c.transientStart /\ d.failed = c.failed
  BY <1>3 DEF CacheState
<1> HIDE DEF d
<1>5. /\ cache'[l][s] = d /\ OthersStay(l, s) /\ \A m \in Layer : m # l => cache'[m] = cache[m]
      /\ Persistent(l, s)' = HostEnd(d) /\ (Transient(l, s)' <=> d.transientStart # None)
  BY <1>1, OneCache
<1>6. HostEnd(d) = c.written + count
  BY <1>3, <1>4 DEF HostEnd, Transient
<1>7. pool'[l] = M /\ \A m \in Layer : m # l => pool'[m] = pool[m]
  BY <1>1 DEF IInv, Shaped
<1>8. SlotsFrom(l, s, c.written)
  BY <1>1, <1>5, <1>6, <1>7, AppendShows
<1>9. RowsFrom(l, s, c.written)
  BY <1>3, <1>5, <1>6 DEF RowsFrom
<1>10. LayerOK(M, {}) /\ Flagged(M, {}) /\ (M.plan.owner # None => Order(M.plan.order))
  BY <1>1, AppendedIs, AppendPlans
<1> HIDE DEF M
<1>11. \A m : ClaimedOf(m)' = {} /\ ClaimedOf(m) = {}
  BY <1>1, <1>3 DEF ClaimedOf
<1>12. LayerSound(l)'
  <2> HIDE DEF c
  <2> QED
    BY <1>1, <1>3, <1>5, <1>7, <1>8, <1>9, <1>10, <1>11, LayerMoves
<1>13. PrefetchOK'
  BY <1>1, <1>3 DEF PrefetchOK
<1>14. WritesOwned'
  <2>1. WritesOwned /\ writes \in Seq(Ticketed)
    BY DEF DInv, IInv, Shaped
  <2> HIDE DEF t
  <2>2. /\ DOMAIN writes = 1 .. Len(writes) /\ Len(writes) \in Nat
        /\ DOMAIN writes' = 1 .. Len(writes) + 1
        /\ \A k \in 1 .. Len(writes) : writes'[k] = writes[k]
        /\ writes'[Len(writes) + 1] = t
    BY <1>2, <2>1, LenProperties, SeqDef, AppendProperties
  <2>3. SUFFICES ASSUME NEW k \in DOMAIN writes', NEW r \in DOMAIN writes'[k].rows
                 PROVE  writes'[k].rows[r][1] = writes'[k].owner
    BY DEF WritesOwned
  <2>4. CASE k \in 1 .. Len(writes)
    BY <2>1, <2>2, <2>3, <2>4 DEF WritesOwned
  <2>5. CASE k = Len(writes) + 1
    BY <2>2, <2>5, <2>3 DEF t, SentRows
  <2>6. k \in 1 .. Len(writes) \/ k = Len(writes) + 1
    BY <2>2, <2>3
  <2> QED
    BY <2>4, <2>5, <2>6
<1>15. SnapshotsOK'
  <2>1. \A m \in Layer, u \in Session : cache[m][u].length <= cache'[m][u].length
    BY <1>3, <1>4, <1>5 DEF IInv, CacheOK, EndsOK, CacheState, OthersStay
  <2> QED
    BY <1>1, <2>1, SnapshotsStay DEF DInv
<1> QED
  BY <1>1, <1>3, <1>4, <1>5, <1>7, <1>11, <1>12, <1>13, <1>14, <1>15, OneLayer

(* An append that fails: what has got into slots is the failed step's. *)
LEMMA AppendFailsDevice ==
  ASSUME IInv, IInv', DInv, NEW l \in Layer, NEW s \in Session, NEW count \in Nat \ {0},
         AppendFails(l, s, count)
  PROVE  DInv'
<1> DEFINE c == cache[l][s]
           d == [c EXCEPT !.failed = TRUE]
           A == Appended(l, s, count)
           G == Leased(pool[l], s)
           room == AppendRoom(l, s, count)
           R == room.pool
<1>1. /\ AppendMayRun(l, s, count) /\ Set(l, s, d)
      /\ UNCHANGED <<allocation, transient, candidates, prefetch, writes, snapshots>>
  BY DEF AppendFails
<1>2. \E M \in {G, R, A} : pool' = [pool EXCEPT ![l] = M]
  BY Zenon DEF AppendFails
<1>3. /\ s \in Live /\ ~c.failed /\ ~Transient(l, s) /\ c \in CacheState /\ c.length \in Nat
      /\ c.written \in Nat /\ Persistent(l, s) = c.written
      /\ prefetch = None /\ ClaimedOf(l) = {} /\ c.stepEnd # None
  BY <1>1, AppendMayAssume
<1>4. d.length = c.length /\ d.stepEnd = c.stepEnd /\ d.written = c.written
      /\ d.transientStart = c.transientStart /\ d.failed
  BY <1>3 DEF CacheState
<1> HIDE DEF d
<1>5. /\ cache'[l][s] = d /\ OthersStay(l, s) /\ \A m \in Layer : m # l => cache'[m] = cache[m]
      /\ Persistent(l, s)' = HostEnd(d) /\ (Transient(l, s)' <=> d.transientStart # None)
  BY <1>1, OneCache
<1>6. HostEnd(d) = c.written /\ ~Transient(l, s)'
  BY <1>3, <1>4, <1>5 DEF HostEnd, Transient
<1>7. \A m : ClaimedOf(m)' = {} /\ ClaimedOf(m) = {}
  BY <1>1, <1>3 DEF ClaimedOf
<1>8. LayerOK(pool[l], {}) /\ Flagged(pool[l], {}) /\ pool[l] \in LayerState
      /\ (pool[l].plan.owner # None => Order(pool[l].plan.order))
  BY <1>3 DEF DInv, LayerSound, LayerOK
<1>9. RowsFrom(l, s, c.written)
  BY <1>3, <1>4, <1>5, <1>6 DEF RowsFrom
<1>10. \E M : /\ pool' = [pool EXCEPT ![l] = M] /\ LayerOK(M, {}) /\ Flagged(M, {})
              /\ (M.plan.owner # None => Order(M.plan.order)) /\ SlotsFrom(l, s, c.written)
  <2> HIDE DEF A, G, R
  <2>1. CASE pool' = [pool EXCEPT ![l] = G]
    <3>1. pool'[l] = G
      BY <2>1 DEF IInv, Shaped
    <3>2. /\ G \in LayerState /\ SameMaps(pool[l], G) /\ SameContent(pool[l], G)
          /\ G.plan = pool[l].plan \/ G.plan = NoPlan
      BY <1>3, <1>8, LeasedIs DEF G, SameProofs
    <3>3. LayerOK(G, {}) /\ Flagged(G, {})
      BY <1>8, <3>2, SameMapsOK
    <3>4. SlotsFrom(l, s, c.written)
      BY <3>1, <3>2 DEF SlotsFrom, RecordStays, SameMaps, SameContent
    <3>5. G.plan.owner # None => Order(G.plan.order)
      BY <1>8, <3>2 DEF NoPlan
    <3> QED
      BY <2>1, <3>3, <3>4, <3>5
  <2>2. CASE pool' = [pool EXCEPT ![l] = R]
    <3>1. pool'[l] = R
      BY <2>2 DEF IInv, Shaped
    <3>2. /\ LayerOK(R, {}) /\ Flagged(R, {}) /\ SameContent(pool[l], R)
          /\ Emptied(pool[l], R, Range(room.chosen))
          /\ (R.plan.owner # None => Order(R.plan.order))
      BY <1>1, AppendRoomIs, AppendPlans DEF R
    <3>3. SlotsFrom(l, s, c.written)
      BY <3>1, <3>2 DEF SlotsFrom, RecordStays, Emptied, SameContent
    <3> QED
      BY <2>2, <3>2, <3>3
  <2>3. CASE pool' = [pool EXCEPT ![l] = A]
    BY <2>3, <1>1, AppendedIs, AppendPlans, <1>4, <1>5, <1>6, AppendShows DEF IInv, Shaped, A
  <2> QED
    BY <1>2, <2>1, <2>2, <2>3
<1>11. PICK M : /\ pool' = [pool EXCEPT ![l] = M] /\ LayerOK(M, {}) /\ Flagged(M, {})
                /\ (M.plan.owner # None => Order(M.plan.order)) /\ SlotsFrom(l, s, c.written)
  BY <1>10
<1>12. pool'[l] = M /\ \A m \in Layer : m # l => pool'[m] = pool[m]
  BY <1>11 DEF IInv, Shaped
<1>13. LayerSound(l)'
  <2> HIDE DEF c
  <2> QED
    BY <1>1, <1>3, <1>5, <1>7, <1>9, <1>11, <1>12, LayerMoves
<1>14. PrefetchOK' /\ WritesOwned'
  BY <1>1, PrefetchStays
<1>15. SnapshotsOK'
  BY <1>3, <1>4, <1>5, <1>1, SnapshotsStay DEF IInv, CacheOK, EndsOK, CacheState, OthersStay,
     DInv
<1> QED
  BY <1>1, <1>3, <1>4, <1>5, <1>7, <1>12, <1>13, <1>14, <1>15, OneLayer

-----------------------------------------------------------------------------
(* Recalls. *)

(* When a session's copies have completed, its history is in the host. *)
LEMMA HostHolds ==
  ASSUME IInv, DInv, NEW l \in Layer, NEW s \in Live, HostReady(l, s),
         NEW i \in 0 .. Persistent(l, s) - 1
  PROVE  pool[l].host[HostRow(s, i)] = <<s, i>>
<1> DEFINE r == HostRow(s, i)
           to == {k \in DOMAIN writes : writes[k].layer = l /\ r \in DOMAIN writes[k].rows}
<1>1. Eventually(l, r) = <<s, i>>
  BY DEF IInv, HostKeepsHistory
<1>2. Eventually(l, r) = IF to = {} THEN pool[l].host[r] ELSE writes[Max(to)].rows[r]
  BY DEF Eventually
<1> HIDE DEF r
<1>3. CASE to = {}
  BY <1>1, <1>2, <1>3 DEF r
<1>4. CASE to # {}
  <2>1. writes \in Seq(Ticketed)
    BY DEF IInv, Shaped
  <2>2. Len(writes) \in Nat /\ DOMAIN writes = 1 .. Len(writes)
    BY <2>1, LenProperties
  <2>3. Max(to) \in to
    <3>1. to \in SUBSET (1 .. Len(writes))
      BY <2>2
    <3> HIDE DEF to
    <3> QED
      BY <1>4, <2>2, <3>1, LastIn
  <2> DEFINE k == Max(to)
  <2>4. k \in DOMAIN writes /\ writes[k].layer = l /\ r \in DOMAIN writes[k].rows
    BY <2>3
  <2> HIDE DEF k, to
  <2>5. writes[k].rows[r] = <<s, i>>
    BY <1>1, <1>2, <1>4 DEF k
  <2>6. writes[k].owner # s
    BY <2>4 DEF HostReady
  <2>7. writes[k].rows[r][1] = writes[k].owner
    BY <2>4 DEF DInv, WritesOwned
  <2> QED
    BY <2>5, <2>6, <2>7
<1> QED
  BY <1>3, <1>4

(* The indices that a recall looks up, and those that it finds unmapped. *)
Unmapped(l, s, indices) == {i \in indices : pool[l].h2d[HostRow(s, i)] = None}

(* There is a slot for every row that a recall has to fetch, among those   *)
(* that hold no selected row.                                              *)
LEMMA RoomForRecall ==
  ASSUME NEW l \in Layer, NEW s, NEW indices, IsFiniteSet(indices),
         Cardinality(indices) <= Slots,
         \A i \in indices : pool[l].h2d[HostRow(s, i)] \in Slot \cup {None},
         NEW P, P.h2d = pool[l].h2d
  PROVE  LET rows == HostRows(s, indices)
             mi == Unmapped(l, s, indices) IN
         /\ IsFiniteSet(mi) /\ Cardinality(mi) \in Nat
         /\ Mapped(P, rows) \in SUBSET Slot
         /\ Cardinality(mi) <= Cardinality(Slot \ Mapped(P, rows))
         /\ Cardinality(Missing(P, rows)) \in Nat
         /\ Cardinality(Missing(P, rows)) <= Cardinality(mi)
<1> DEFINE rows == HostRows(s, indices)
           mi == Unmapped(l, s, indices)
           found == indices \ mi
           f == [i \in indices |-> pool[l].h2d[HostRow(s, i)]]
           g == [i \in indices |-> HostRow(s, i)]
<1>1. /\ IsFiniteSet(mi) /\ IsFiniteSet(found) /\ Cardinality(mi) \in Nat
      /\ Cardinality(found) \in Nat /\ Cardinality(indices) \in Nat
      /\ Cardinality(found) = Cardinality(indices) - Cardinality(mi)
  <2>1. mi \in SUBSET indices
    BY DEF Unmapped
  <2> HIDE DEF mi
  <2>2. IsFiniteSet(mi) /\ IsFiniteSet(found)
    BY <2>1, FS_Subset, FS_Difference
  <2>3. Cardinality(mi) \in Nat /\ Cardinality(found) \in Nat /\ Cardinality(indices) \in Nat
    BY <2>2, FS_CardinalityType
  <2>4. indices = mi \cup found /\ mi \cap found = {}
    BY <2>1
  <2>5. Cardinality(mi \cup found)
          = Cardinality(mi) + Cardinality(found) - Cardinality(mi \cap found)
    BY <2>2, FS_Union
  <2>6. Cardinality(indices) = Cardinality(mi) + Cardinality(found) - 0
    BY <2>4, <2>5, FS_EmptySet
  <2> HIDE DEF found
  <2> QED
    BY <2>2, <2>3, <2>6
<1>2. Mapped(P, rows) = {f[i] : i \in found}
  BY DEF Mapped, HostRows, Unmapped
<1>3. Missing(P, rows) = {g[i] : i \in mi}
  BY DEF Missing, HostRows, Unmapped
<1>4. Mapped(P, rows) \in SUBSET Slot
  BY DEF Mapped, HostRows
<1> HIDE DEF f, g, found, mi, rows
<1>5. IsFiniteSet(Mapped(P, rows)) /\ Cardinality(Mapped(P, rows)) \in Nat
      /\ Cardinality(Mapped(P, rows)) <= Cardinality(found)
  BY <1>1, <1>2, ImagesCount
<1>6. /\ Cardinality(Missing(P, rows)) \in Nat
      /\ Cardinality(Missing(P, rows)) <= Cardinality(mi)
  BY <1>1, <1>3, ImagesCount
<1>7. Cardinality(Slot \ Mapped(P, rows)) = Slots - Cardinality(Mapped(P, rows))
  <2> DEFINE V == Mapped(P, rows)
  <2> HIDE DEF V
  <2>1. IsFiniteSet(Slot) /\ IsFiniteSet(V) /\ Slot \cap V = V
    BY <1>4, <1>5, SlotsAreFinite DEF V
  <2>2. Cardinality(Slot \ V) = Cardinality(Slot) - Cardinality(Slot \cap V)
    BY <2>1, FS_Difference
  <2> QED
    BY <2>1, <2>2, SlotsAreFinite DEF V
<1>8. Cardinality(mi) <= Cardinality(Slot \ Mapped(P, rows))
  BY <1>1, <1>5, <1>7, SlotsAssumption
<1> QED
  BY <1>1, <1>4, <1>6, <1>8 DEF rows, mi

(* The protection of the rows that are mapped. *)
LEMMA ProtectedIs ==
  ASSUME DInv, NEW l \in Layer, NEW s \in Session, ClaimedOf(l) = {}, NEW rows \in SUBSET Row
  PROVE  LET P == Protected(l, s, rows) IN
         /\ LayerOK(P, {}) /\ Flagged(P, {}) /\ P \in LayerState
         /\ P.h2d = pool[l].h2d /\ P.d2h = pool[l].d2h
         /\ SameContent(pool[l], P) /\ P.lease = s /\ SameProofs(Leased(pool[l], s), P)
         /\ Newest(pool[l], P, Mapped(pool[l], rows))
<1> DEFINE G == Leased(pool[l], s)
           P == Protected(l, s, rows)
           V == Mapped(pool[l], rows)
<1>1. /\ LayerOK(pool[l], {}) /\ Flagged(pool[l], {}) /\ pool[l] \in LayerState
  BY DEF DInv, LayerSound, LayerOK
<1>2. /\ G \in LayerState /\ SameMaps(pool[l], G) /\ SameContent(pool[l], G) /\ G.lease = s
  BY <1>1, LeasedIs
<1>3. P = Stamped(G, V)
  BY <1>2, Zenon DEF Protected, Mapped, SameMaps
<1> HIDE DEF G, P
<1>4. LayerOK(G, {}) /\ Flagged(G, {})
  BY <1>1, <1>2, SameMapsOK
<1>5. V \in SUBSET Slot /\ \A x \in V : G.d2h[x] # None
  BY <1>1, LayerTyped, <1>2, NoneIsNone DEF Mapped, LayerOK, Mirrors, SameMaps
<1> HIDE DEF V
<1>6. /\ LayerOK(P, {} \ V) /\ P.h2d = G.h2d /\ P.d2h = G.d2h /\ P.free = G.free
      /\ SameContent(G, P) /\ SameProofs(G, P) /\ Newest(G, P, V)
  BY <1>3, <1>4, <1>5, StampedIs
<1>7. {} \ V = {}
  OBVIOUS
<1>8. LayerOK(P, {}) /\ Flagged(P, {}) /\ P \in LayerState
  BY <1>4, <1>6, <1>7 DEF Flagged, LayerOK
<1>9. Newest(pool[l], P, V)
  BY <1>1, <1>2, <1>5, <1>6, <1>8, NewestFrom DEF SameMaps
<1>10. P.lease = s
  BY <1>2, <1>6 DEF SameProofs
<1> QED
  BY <1>2, <1>6, <1>8, <1>9, <1>10 DEF SameMaps, SameContent, G, P, V

(* What a recall may assume. *)
LEMMA EnsureMayAssume ==
  ASSUME IInv, DInv, NEW l \in Layer, NEW s \in Session, NEW selection \in SUBSET Nat,
         EnsureMayRun(l, s, selection)
  PROVE  LET indices == History(l, s, selection) IN
         /\ s \in Live /\ ~cache[l][s].failed /\ prefetch = None /\ ClaimedOf(l) = {}
         /\ cache[l][s] \in CacheState /\ Persistent(l, s) \in Nat
         /\ Capacity[s] \in Nat /\ Persistent(l, s) <= Capacity[s]
         /\ indices \in SUBSET (0 .. Persistent(l, s) - 1)
         /\ IsFiniteSet(indices) /\ Cardinality(indices) <= Slots
         /\ \A i \in indices : i \in 0 .. Capacity[s] - 1 /\ HostRow(s, i) \in Row
         /\ HostRows(s, indices) \in SUBSET Row
<1> DEFINE indices == History(l, s, selection)
<1>1. /\ Calls(l, s) /\ ~Pending(l, s) /\ Usable(l, s) /\ Cardinality(indices) <= Slots
  BY DEF EnsureMayRun
<1>2. s \in Live /\ ~cache[l][s].failed
  BY <1>1, CallerKnows
<1>3. prefetch = None /\ ClaimedOf(l) = {}
  BY <1>1 DEF Usable, ClaimedOf
<1>4. /\ cache[l][s] \in CacheState /\ Persistent(l, s) \in Nat
      /\ Capacity[s] \in Nat /\ Persistent(l, s) <= Capacity[s]
  BY <1>2, EndsOf DEF EndsOK, HostEnd, CacheState
<1>5. indices \in SUBSET (0 .. Persistent(l, s) - 1)
  <2>1. SUFFICES ASSUME NEW i \in selection, i < Persistent(l, s)
                 PROVE  i \in 0 .. Persistent(l, s) - 1
    BY DEF History
  <2> QED
    BY <1>4, <2>1
<1>6. IsFiniteSet(indices)
  <2>1. IsFiniteSet(0 .. Persistent(l, s) - 1)
    BY <1>4, FS_Interval
  <2> HIDE DEF indices
  <2> QED
    BY <1>5, <2>1, FS_Subset
<1>7. \A i \in indices : i \in 0 .. Capacity[s] - 1 /\ HostRow(s, i) \in Row
  BY <1>4, <1>5, <1>2, IndexHasRow DEF IInv
<1>8. HostRows(s, indices) \in SUBSET Row
  BY <1>7 DEF HostRows
<1> QED
  BY <1>1, <1>2, <1>3, <1>4, <1>5, <1>6, <1>7, <1>8

(* Every slot is as it was, or has the record of a selected token. *)
Recalls(l, s, indices, M) ==
  /\ \A i \in indices : \E x \in Slot :
       M.h2d[HostRow(s, i)] = x /\ (M.records[x] = pool[l].records[x] \/ M.records[x] = <<s, i>>)
                                /\ (M.records[x] = <<s, i>> \/ pool[l].h2d[HostRow(s, i)] = x)
  /\ \A x \in Slot : M.d2h[x] # None =>
       \/ M.d2h[x] = pool[l].d2h[x] /\ M.records[x] = pool[l].records[x]
       \/ \E i \in indices : M.d2h[x] = HostRow(s, i) /\ M.records[x] = <<s, i>>

(* Two events that make slots the newest one after the other. *)
TwiceNewest(L, M) ==
  \E P, S, T : /\ S \in SUBSET Slot /\ T \in SUBSET Slot
               /\ P \in LayerState /\ P.d2h = L.d2h /\ Newest(L, P, S) /\ Newest(P, M, T)
               /\ \A x \in Slot \ T : M.d2h[x] = P.d2h[x]

(* All the selected history is in slots, and nothing else has moved. *)
LEMMA RecalledIs ==
  ASSUME IInv, DInv, NEW l \in Layer, NEW s \in Session, NEW selection \in SUBSET Nat,
         EnsureMayRun(l, s, selection), NEW uncounted \in BOOLEAN,
         RecallWaits(l, s, History(l, s, selection))
  PROVE  LET indices == History(l, s, selection)
             M == Recalled(l, s, indices, uncounted) IN
         /\ LayerOK(M, {}) /\ Flagged(M, {}) /\ M.lease = s
         /\ Recalls(l, s, indices, M) /\ TwiceNewest(pool[l], M)
         /\ \/ M.resident = NoResidency /\ M.plan = NoPlan
            \/ /\ SameProofs(Leased(pool[l], s), M)
               /\ M.h2d = pool[l].h2d /\ M.d2h = pool[l].d2h
               /\ \E P : /\ LayerOK(P, {}) /\ P.d2h = pool[l].d2h
                         /\ Newest(pool[l], P, Mapped(pool[l], HostRows(s, indices)))
                         /\ Newest(P, M, {})
<1> DEFINE indices == History(l, s, selection)
           rows == HostRows(s, indices)
           P == Protected(l, s, rows)
           mi == {i \in indices : P.h2d[HostRow(s, i)] = None}
           n == Cardinality(mi)
           missing == Sorted(mi)
           wanted == [k \in DOMAIN missing |-> HostRow(s, missing[k])]
           chosen == SubSeq(Available(P, rows), 1, Len(missing))
           E == Evicted(P, Range(chosen))
           rec == [k \in DOMAIN wanted |-> P.host[wanted[k]]]
           F == Installed(E, wanted, chosen, rec)
           I == Invalidated(F)
           M == Recalled(l, s, indices, uncounted)
<1>1. /\ s \in Live /\ ClaimedOf(l) = {} /\ Persistent(l, s) \in Nat
      /\ indices \in SUBSET (0 .. Persistent(l, s) - 1)
      /\ IsFiniteSet(indices) /\ Cardinality(indices) <= Slots
      /\ \A i \in indices : i \in 0 .. Capacity[s] - 1 /\ HostRow(s, i) \in Row
      /\ rows \in SUBSET Row
  BY EnsureMayAssume
<1>2. M = IF missing = <<>> /\ ~uncounted THEN Stamped(P, {}) ELSE Stamped(I, Range(chosen))
  BY Zenon DEF Recalled
<1>3. /\ LayerOK(pool[l], {}) /\ pool[l] \in LayerState
  BY <1>1 DEF DInv, LayerSound, LayerOK
<1> HIDE DEF indices, M
<1>4. /\ LayerOK(P, {}) /\ Flagged(P, {}) /\ P \in LayerState
      /\ P.h2d = pool[l].h2d /\ P.d2h = pool[l].d2h
      /\ SameContent(pool[l], P) /\ P.lease = s /\ SameProofs(Leased(pool[l], s), P)
      /\ Newest(pool[l], P, Mapped(pool[l], rows))
  <2> HIDE DEF rows
  <2> QED
    BY <1>1, ProtectedIs
<1>5. Mapped(pool[l], rows) = Mapped(P, rows) /\ mi = Unmapped(l, s, indices)
  BY <1>4 DEF Mapped, Unmapped
<1>6. /\ P.h2d \in [Row -> Slot \cup {None}] /\ P.d2h \in [Slot -> Row \cup {None}]
      /\ P.host \in [Row -> Record]
  BY <1>4, LayerTyped
<1> HIDE DEF P
<1>7. /\ IsFiniteSet(mi) /\ n \in Nat /\ Mapped(P, rows) \in SUBSET Slot
      /\ n <= Cardinality(Slot \ Mapped(P, rows))
  <2>1. \A i \in indices : pool[l].h2d[HostRow(s, i)] \in Slot \cup {None}
    BY <1>1, <1>3, LayerTyped
  <2> DEFINE U == Unmapped(l, s, indices)
             R == HostRows(s, indices)
  <2>2. /\ IsFiniteSet(U) /\ Cardinality(U) \in Nat /\ Mapped(P, R) \in SUBSET Slot
        /\ Cardinality(U) <= Cardinality(Slot \ Mapped(P, R))
    BY <1>1, <1>4, <2>1, RoomForRecall
  <2> QED
    BY <1>5, <2>2
<1>8. mi \in SUBSET indices /\ \A i \in indices : i \in mi <=> P.h2d[HostRow(s, i)] = None
  OBVIOUS
<1> HIDE DEF mi, rows
<1>9. Lists(missing, mi)
  <2> DEFINE age == [i \in mi |-> i]
  <2>1. mi \subseteq Nat /\ \A i \in mi : age[i] \in Int
    BY <1>1, <1>8
  <2>2. missing = Oldest(mi, age)
    BY Zenon DEF Sorted
  <2> HIDE DEF age, missing
  <2> QED
    BY <1>7, <2>1, <2>2, OldestLists
<1> HIDE DEF missing
<1>10. /\ missing \in [1 .. n -> mi] /\ IsInjective(missing) /\ DOMAIN missing = 1 .. n
       /\ \A i \in mi : \E k \in 1 .. n : missing[k] = i
  BY <1>9 DEF Lists
<1> HIDE DEF n
<1>11. Len(missing) = n /\ (missing = <<>> <=> n = 0)
  BY <1>7, <1>10, IntervalIsSequence, EmptySeq
<1>12. /\ chosen \in [1 .. n -> Slot] /\ IsInjective(chosen)
       /\ \A k \in 1 .. n : chosen[k] \notin Mapped(P, rows)
  <2>1. chosen = SubSeq(Available(P, rows), 1, n)
    BY <1>11
  <2> HIDE DEF chosen
  <2> QED
    BY <1>4, <1>7, <2>1, AvailableIs
<1> HIDE DEF chosen
<1>13. /\ wanted \in [1 .. n -> Row] /\ DOMAIN wanted = 1 .. n
       /\ \A k \in 1 .. n : /\ missing[k] \in mi /\ wanted[k] = HostRow(s, missing[k])
                            /\ P.h2d[wanted[k]] = None /\ wanted[k] \in Row
  BY <1>1, <1>8, <1>10
<1>14. IsInjective(wanted)
  <2>1. SUFFICES ASSUME NEW j \in 1 .. n, NEW k \in 1 .. n, wanted[j] = wanted[k]
                 PROVE  j = k
    BY <1>13 DEF IsInjective
  <2>2. /\ HostRow(s, missing[j]) = HostRow(s, missing[k])
        /\ missing[j] \in 0 .. Capacity[s] - 1 /\ missing[k] \in 0 .. Capacity[s] - 1
    BY <1>1, <1>8, <1>13, <2>1
  <2>3. missing[j] = missing[k]
    BY <1>1, <2>2, RowsAreApart DEF IInv
  <2> QED
    BY <1>10, <2>3 DEF IsInjective
<1>15. /\ rec \in [1 .. n -> Record]
       /\ \A k \in 1 .. n : rec[k] = <<s, missing[k]>>
  <2>1. \A k \in 1 .. n : rec[k] = P.host[wanted[k]]
    BY <1>13
  <2>2. rec \in [1 .. n -> Record]
    BY <1>6, <1>13
  <2>3. ASSUME NEW k \in 1 .. n PROVE rec[k] = <<s, missing[k]>>
    BY <1>4, <1>8, <1>13, <1>1, HostHolds, <2>1 DEF AnyMissing, Missing, HostRows,
       RecallWaits, indices, SameContent
  <2> QED
    BY <2>2, <2>3
<1> HIDE DEF wanted, rec
<1>16. Range(chosen) \in SUBSET Slot /\ \A k \in 1 .. n : chosen[k] \in Range(chosen)
  BY <1>12 DEF Range
<1>17. /\ LayerOK(E, {}) /\ Flagged(E, {}) /\ Emptied(P, E, Range(chosen))
       /\ SameContent(P, E) /\ SameProofs(P, E)
  BY <1>4, <1>16, EvictedIs
<1> HIDE DEF E
<1>18. \A k \in 1 .. n : E.h2d[wanted[k]] = None /\ E.d2h[chosen[k]] = None
  BY <1>13, <1>17, <1>12, <1>16 DEF Emptied
<1>19. /\ LayerOK(F, Range(chosen)) /\ Flagged(F, {})
       /\ Placed(E, F, n, wanted, chosen, rec)
       /\ F.priority = E.priority /\ F.clock = E.clock /\ F.host = E.host /\ SameProofs(E, F)
  BY <1>7, <1>12, <1>13, <1>14, <1>15, <1>17, <1>18, InstalledIs, Zenon
<1> HIDE DEF F
<1>20. /\ I \in LayerState /\ SameMaps(F, I) /\ SameContent(F, I) /\ I.lease = F.lease
       /\ I.resident = NoResidency /\ I.plan = NoPlan
  BY <1>19, InvalidatedIs DEF LayerOK
<1> HIDE DEF I
<1>21. LayerOK(I, Range(chosen)) /\ Flagged(I, {})
  BY <1>19, <1>20, SameMapsOK DEF Flagged, SameMaps
<1>22. \A k \in 1 .. n : /\ I.d2h[chosen[k]] = HostRow(s, missing[k])
                         /\ I.records[chosen[k]] = <<s, missing[k]>>
  BY <1>13, <1>15, <1>19, <1>20 DEF Placed, SameMaps, SameContent
<1>23. \A x \in Slot \ Range(chosen) :
         /\ I.d2h[x] = P.d2h[x] /\ I.records[x] = P.records[x] /\ I.priority[x] = P.priority[x]
  BY <1>17, <1>19, <1>20 DEF Placed, Emptied, SameMaps, SameContent
<1>24. \A x \in Range(chosen) : I.d2h[x] # None
  BY <1>12, <1>13, <1>22, NoneIsNone DEF Range
<1>25. CASE missing = <<>> /\ ~uncounted
  <2>1. M = Stamped(P, {})
    BY <1>2, <1>25
  <2>2. /\ LayerOK(M, {} \ {}) /\ M.h2d = P.h2d /\ M.d2h = P.d2h /\ M.free = P.free
        /\ SameContent(P, M) /\ SameProofs(P, M) /\ Newest(P, M, {})
    BY <1>4, <2>1, StampedIs
  <2>3. LayerOK(M, {}) /\ Flagged(M, {}) /\ M.lease = s
    BY <1>4, <2>2 DEF Flagged, SameProofs
  <2>4. Recalls(l, s, indices, M)
    BY <1>4, <2>2, <1>10, <1>11, <1>25, <1>1, <1>6, <1>8 DEF SameContent, Recalls
  <2>5. TwiceNewest(pool[l], M)
    BY <2>2, <1>4, <1>5, <1>7 DEF TwiceNewest
  <2>6. SameProofs(Leased(pool[l], s), M) /\ M.h2d = pool[l].h2d /\ M.d2h = pool[l].d2h
    BY <1>4, <2>2 DEF SameProofs
  <2> QED
    BY <1>4, <2>2, <2>3, <2>4, <2>5, <2>6 DEF indices, rows, M
<1>26. CASE ~(missing = <<>> /\ ~uncounted)
  <2>1. M = Stamped(I, Range(chosen))
    BY <1>2, <1>26
  <2>2. /\ LayerOK(M, Range(chosen) \ Range(chosen)) /\ M.h2d = I.h2d /\ M.d2h = I.d2h
        /\ M.free = I.free /\ SameContent(I, M) /\ SameProofs(I, M)
        /\ Newest(I, M, Range(chosen))
    BY <1>16, <1>21, <1>24, <2>1, StampedIs
  <2>3. LayerOK(M, {}) /\ Flagged(M, {}) /\ M \in LayerState
    BY <1>21, <2>2 DEF Flagged, LayerOK
  <2>4. M.resident = NoResidency /\ M.plan = NoPlan /\ M.lease = s
    BY <1>4, <1>17, <1>19, <1>20, <2>2 DEF SameProofs
  <2>5. Newest(P, M, Range(chosen))
    BY <1>17, <1>19, <1>20, <1>4, <1>16, <1>23, <2>2, <2>3, NewestFrom DEF Emptied, SameMaps
  <2>6. TwiceNewest(pool[l], M)
    BY <1>23, <2>2, <1>4, <1>5, <1>7, <1>16, <2>5 DEF TwiceNewest
  <2>7. \A x \in Slot : M.d2h[x] # None =>
          \/ M.d2h[x] = pool[l].d2h[x] /\ M.records[x] = pool[l].records[x]
          \/ \E i \in indices : M.d2h[x] = HostRow(s, i) /\ M.records[x] = <<s, i>>
    BY <1>12, <1>8, <1>13, <1>22, <2>2, <1>4, <1>23 DEF Range, SameContent
  <2>8. ASSUME NEW i \in indices
        PROVE  \E x \in Slot : /\ M.h2d[HostRow(s, i)] = x
                               /\ M.records[x] = pool[l].records[x] \/ M.records[x] = <<s, i>>
                               /\ M.records[x] = <<s, i>> \/ pool[l].h2d[HostRow(s, i)] = x
    <3>1. HostRow(s, i) \in Row /\ Mirrors(M)
      BY <1>1, <2>3 DEF LayerOK
    <3>2. CASE i \in mi
      BY <1>10, <3>2, <1>12, <1>22, <2>2, <3>1 DEF SameContent, Mirrors
    <3>3. CASE i \notin mi
      <4> DEFINE x == P.h2d[HostRow(s, i)]
      <4>1. x # None /\ x \in Slot /\ P.d2h[x] = HostRow(s, i)
        BY <1>4, <1>6, <1>8, <3>1, <3>3 DEF LayerOK, Mirrors
      <4>2. x \notin Range(chosen)
        <5>1. x \in Mapped(P, rows)
          BY <4>1 DEF Mapped, rows, HostRows
        <5> HIDE DEF x
        <5> QED
          BY <1>12, <5>1 DEF Range
      <4> HIDE DEF x
      <4>3. M.d2h[x] = HostRow(s, i) /\ M.records[x] = pool[l].records[x]
        BY <1>4, <1>23, <2>2, <4>1, <4>2 DEF SameContent
      <4>4. M.h2d[HostRow(s, i)] = x
        BY <3>1, <4>1, <4>3 DEF Mirrors
      <4> QED
        BY <1>4, <4>1, <4>3, <4>4 DEF x
    <3> QED
      BY <3>2, <3>3
  <2>9. Recalls(l, s, indices, M)
    BY <2>7, <2>8 DEF Recalls
  <2> QED
    BY <2>3, <2>4, <2>6, <2>9 DEF indices, M
<1> QED
  BY <1>25, <1>26

(* The lengths stay with the snapshots. *)
LEMMA LengthsStay ==
  ASSUME SnapshotsOK, UNCHANGED allocation, UNCHANGED snapshots, IInv, IInv',
         NEW l \in Layer, NEW s \in Session, OthersStay(l, s),
         \A m \in Layer : m # l => cache'[m] = cache[m],
         cache'[l][s].length = cache[l][s].length
  PROVE  SnapshotsOK'
<1>1. \A m \in Layer, u \in Session : cache[m][u].length <= cache'[m][u].length
  BY DEF IInv, CacheOK, EndsOK, CacheState, OthersStay
<1> QED
  BY <1>1, SnapshotsStay

(* A call that leaves every cache alone. *)
LEMMA CachesStay ==
  ASSUME DInv, UNCHANGED cache, NEW l \in Layer, NEW s \in Session
  PROVE  /\ OthersStay(l, s) /\ \A m \in Layer : m # l => cache'[m] = cache[m]
         /\ cache'[l][s].length = cache[l][s].length
         /\ Persistent(l, s)' = Persistent(l, s) /\ (Transient(l, s)' <=> Transient(l, s))
         /\ cache'[l][s].stepEnd = None /\ ~cache'[l][s].failed
              => cache'[l][s].written = cache'[l][s].length
  BY DEF OthersStay, Persistent, Transient, DInv, IdleCommitted, Stepping

(* A recall brings selected history only, each record into one slot. *)
LEMMA EnsureDevice ==
  ASSUME IInv, IInv', DInv, NEW l \in Layer, NEW s \in Session, NEW selection \in SUBSET Nat,
         NEW uncounted \in BOOLEAN, Ensure(l, s, selection, uncounted)
  PROVE  DInv'
<1> DEFINE indices == History(l, s, selection)
           M == Recalled(l, s, indices, uncounted)
           p == Persistent(l, s)
<1>1. /\ EnsureMayRun(l, s, selection) /\ RecallWaits(l, s, indices)
      /\ pool' = [pool EXCEPT ![l] = M]
      /\ UNCHANGED <<allocation, cache, transient, candidates, prefetch, writes, snapshots>>
  BY DEF Ensure
<1>2. /\ s \in Live /\ ~cache[l][s].failed /\ ClaimedOf(l) = {} /\ p \in Nat
      /\ indices \in SUBSET (0 .. p - 1)
      /\ \A i \in indices : i \in 0 .. Capacity[s] - 1
  BY <1>1, EnsureMayAssume
<1>3. /\ LayerOK(M, {}) /\ Flagged(M, {}) /\ Recalls(l, s, indices, M)
      /\ M.plan = NoPlan \/ SameProofs(Leased(pool[l], s), M)
  BY <1>1, RecalledIs
<1>4. pool'[l] = M /\ \A m \in Layer : m # l => pool'[m] = pool[m]
  BY <1>1 DEF IInv, Shaped
<1> HIDE DEF M, indices
<1>5. /\ OthersStay(l, s) /\ \A m \in Layer : m # l => cache'[m] = cache[m]
      /\ cache'[l][s].length = cache[l][s].length
      /\ p' = p /\ (Transient(l, s)' <=> Transient(l, s))
      /\ cache'[l][s].stepEnd = None /\ ~cache'[l][s].failed
           => cache'[l][s].written = cache'[l][s].length
  BY <1>1, CachesStay
<1>6. SlotsFrom(l, s, p)
  BY <1>2, <1>5, <1>3, <1>4 DEF SlotsFrom, Recalls, RecordStays, Arrived
<1>7. RowsFrom(l, s, p)
  BY <1>2, <1>5 DEF RowsFrom
<1>8. PrefetchOK' /\ WritesOwned' /\ \A m : ClaimedOf(m)' = ClaimedOf(m)
  BY <1>1, PrefetchStays
<1>9. M.plan.owner # None => Order(M.plan.order)
  BY LeasedIs, <1>3 DEF DInv, LayerSound, LayerOK, SameProofs, NoPlan
<1>10. LayerSound(l)'
  <2> HIDE DEF p
  <2> QED
    BY <1>1, <1>2, <1>3, <1>4, <1>5, <1>6, <1>7, <1>8, <1>9, LayerMoves
<1>11. SnapshotsOK'
  BY <1>1, <1>5, LengthsStay DEF DInv
<1> QED
  BY <1>1, <1>2, <1>4, <1>5, <1>8, <1>10, <1>11, OneLayer

(* The FIFO order of the slots that keep their rows, but for the newest. *)
FifoKept(L, M) ==
  LET old(x) == L.d2h[x] # None /\ M.d2h[x] = L.d2h[x] /\ M.priority[x] < M.clock - 2 IN
  \A x, y \in Slot : old(x) /\ old(y)
    => (L.priority[x] < L.priority[y] <=> M.priority[x] < M.priority[y])

(* One event, or none. *)
LEMMA OneEvent ==
  ASSUME NEW L, NEW P, NEW S \in SUBSET Slot, P \in LayerState, Newest(L, P, S) \/ SameMaps(L, P),
         NEW M, M.clock = P.clock,
         \A x \in Slot : M.d2h[x] # None /\ M.d2h[x] = L.d2h[x] => M.priority[x] = P.priority[x]
  PROVE  FifoKept(L, M)
<1>1. SUFFICES ASSUME NEW x \in Slot, NEW y \in Slot,
                      L.d2h[x] # None, M.d2h[x] = L.d2h[x], M.priority[x] < M.clock - 2,
                      L.d2h[y] # None, M.d2h[y] = L.d2h[y], M.priority[y] < M.clock - 2
               PROVE  L.priority[x] < L.priority[y] <=> M.priority[x] < M.priority[y]
  BY DEF FifoKept
<1>2. M.priority[x] = P.priority[x] /\ M.priority[y] = P.priority[y]
  BY <1>1
<1>3. CASE SameMaps(L, P)
  BY <1>2, <1>3 DEF SameMaps
<1>4. CASE Newest(L, P, S)
  BY <1>1, <1>2, <1>4 DEF Newest
<1> QED
  BY <1>3, <1>4

(* Two events. *)
LEMMA TwoEvents ==
  ASSUME NEW L, NEW M, TwiceNewest(L, M)
  PROVE  FifoKept(L, M)
<1>1. PICK P, S, T : /\ S \in SUBSET Slot /\ T \in SUBSET Slot
                     /\ P \in LayerState /\ P.d2h = L.d2h /\ Newest(L, P, S) /\ Newest(P, M, T)
                     /\ \A x \in Slot \ T : M.d2h[x] = P.d2h[x]
  BY DEF TwiceNewest
<1>2. SUFFICES ASSUME NEW x \in Slot, NEW y \in Slot,
                      L.d2h[x] # None, M.d2h[x] = L.d2h[x], M.priority[x] < M.clock - 2,
                      L.d2h[y] # None, M.d2h[y] = L.d2h[y], M.priority[y] < M.clock - 2
               PROVE  L.priority[x] < L.priority[y] <=> M.priority[x] < M.priority[y]
  BY DEF FifoKept
<1>3. x \notin T /\ P.priority[x] < P.clock - 1 /\ y \notin T /\ P.priority[y] < P.clock - 1
  BY <1>1, <1>2 DEF Newest
<1>4. P.priority[x] < P.priority[y] <=> M.priority[x] < M.priority[y]
  BY <1>1, <1>2, <1>3 DEF Newest
<1>5. x \notin S /\ y \notin S
  BY <1>1, LayerTyped, SlotsAssumption, <1>3 DEF Newest
<1>6. L.priority[x] < L.priority[y] <=> P.priority[x] < P.priority[y]
  BY <1>1, <1>2, <1>5 DEF Newest
<1> QED
  BY <1>4, <1>6

(* What a recall that fails leaves behind. *)
LEMMA EnsureFailsLeaves ==
  ASSUME IInv, DInv, NEW l \in Layer, NEW s \in Session, NEW selection \in SUBSET Nat,
         EnsureFails(l, s, selection)
  PROVE  \E M : /\ pool' = [pool EXCEPT ![l] = M] /\ LayerOK(M, {}) /\ Flagged(M, {})
                /\ M.records = pool[l].records /\ M.host = pool[l].host /\ M.lease = s
                /\ \A x \in Slot : M.d2h[x] = None \/ M.d2h[x] = pool[l].d2h[x]
                /\ \/ /\ M.d2h = pool[l].d2h /\ M.h2d = pool[l].h2d
                      /\ Newest(pool[l], M, Mapped(pool[l], HostRows(s, History(l, s, selection))))
                      /\ M.resident = Leased(pool[l], s).resident
                      /\ M.plan = NoPlan \/ M.plan = Leased(pool[l], s).plan
                   \/ M.resident = NoResidency /\ M.plan = NoPlan
                /\ FifoKept(pool[l], M)
<1> DEFINE indices == History(l, s, selection)
           rows == HostRows(s, indices)
           P == Protected(l, s, rows)
           P0 == IF AnyMissing(l, s, indices) THEN WithoutPlan(P) ELSE P
           n == Cardinality(Missing(P, rows))
           chosen == SubSeq(Available(P, rows), 1, n)
           E == Evicted(P0, Range(chosen))
           F == Invalidated(E)
<1>1. EnsureMayRun(l, s, selection)
  BY DEF EnsureFails
<1>2. \/ pool' = [pool EXCEPT ![l] = P0]
      \/ pool' = [pool EXCEPT ![l] = F]
  <2>1. pool' \in {[pool EXCEPT ![l] = L] : L \in {P0} \cup (IF chosen = <<>> THEN {} ELSE {F})}
    BY Zenon DEF EnsureFails
  <2> HIDE DEF P0, F, chosen
  <2> QED
    BY <2>1
<1>3. /\ s \in Live /\ ClaimedOf(l) = {} /\ IsFiniteSet(indices) /\ Cardinality(indices) <= Slots
      /\ \A i \in indices : HostRow(s, i) \in Row
      /\ rows \in SUBSET Row
  BY <1>1, EnsureMayAssume
<1>4. /\ pool[l] \in LayerState
  BY DEF DInv, LayerSound, LayerOK
<1> HIDE DEF indices
<1>5. /\ LayerOK(P, {}) /\ Flagged(P, {}) /\ P \in LayerState
      /\ P.h2d = pool[l].h2d /\ P.d2h = pool[l].d2h
      /\ SameContent(pool[l], P) /\ P.lease = s /\ SameProofs(Leased(pool[l], s), P)
      /\ Newest(pool[l], P, Mapped(pool[l], rows))
  <2> HIDE DEF rows
  <2> QED
    BY <1>3, ProtectedIs
<1>6. Mapped(pool[l], rows) = Mapped(P, rows)
  BY <1>5 DEF Mapped
<1> HIDE DEF P
<1>7. n \in Nat /\ n <= Cardinality(Slot \ Mapped(P, rows)) /\ Mapped(P, rows) \in SUBSET Slot
  <2>1. \A i \in indices : pool[l].h2d[HostRow(s, i)] \in Slot \cup {None}
    BY <1>3, <1>4, LayerTyped
  <2> DEFINE U == Unmapped(l, s, indices)
             R == HostRows(s, indices)
  <2>2. /\ Cardinality(U) \in Nat /\ Mapped(P, R) \in SUBSET Slot
        /\ Cardinality(U) <= Cardinality(Slot \ Mapped(P, R))
        /\ Cardinality(Missing(P, R)) \in Nat /\ Cardinality(Missing(P, R)) <= Cardinality(U)
        /\ IsFiniteSet(U)
    BY <1>3, <1>5, <2>1, RoomForRecall
  <2>3. Cardinality(Slot \ Mapped(P, R)) \in Nat
    BY SlotsAreFinite
  <2> HIDE DEF U
  <2> QED
    BY <2>2, <2>3
<1> HIDE DEF rows, n
<1>8. Range(chosen) \in SUBSET Slot
  <2>1. chosen \in [1 .. n -> Slot]
    BY <1>5, <1>7, AvailableIs
  <2> HIDE DEF chosen
  <2> QED
    BY <2>1 DEF Range
<1> HIDE DEF chosen
<1>9. /\ LayerOK(P0, {}) /\ Flagged(P0, {}) /\ P0 \in LayerState /\ SameMaps(P, P0)
      /\ SameContent(P, P0) /\ P0.lease = P.lease /\ P0.resident = P.resident
      /\ P0.plan = P.plan \/ P0.plan = NoPlan
  <2>1. CASE P0 = P
    BY <1>5, <2>1 DEF SameMaps, SameContent
  <2>2. CASE P0 = WithoutPlan(P)
    <3> HIDE DEF P0
    <3>1. /\ P0 \in LayerState /\ SameMaps(P, P0) /\ SameContent(P, P0) /\ P0.lease = P.lease
          /\ P0.resident = P.resident /\ P0.plan = NoPlan
      BY <1>5, <2>2, WithoutPlanIs
    <3> QED
      BY <1>5, <3>1, SameMapsOK
  <2> QED
    BY <2>1, <2>2
<1> HIDE DEF P0
<1>10. CASE pool' = [pool EXCEPT ![l] = P0]
  <2>1. P0.records = pool[l].records /\ P0.host = pool[l].host /\ P0.lease = s
        /\ P0.d2h = pool[l].d2h /\ P0.h2d = pool[l].h2d
        /\ P0.resident = Leased(pool[l], s).resident
        /\ (P0.plan = NoPlan \/ P0.plan = Leased(pool[l], s).plan)
    BY <1>5, <1>9 DEF SameMaps, SameContent, SameProofs
  <2>2. FifoKept(pool[l], P0)
    BY <1>5, <1>6, <1>7, <1>9, OneEvent DEF SameMaps
  <2>3. Newest(pool[l], P0, Mapped(pool[l], rows))
    BY <1>5, <1>9 DEF SameMaps, Newest
  <2> QED
    BY <1>9, <1>10, <2>1, <2>2, <2>3 DEF rows, indices
<1>11. CASE pool' = [pool EXCEPT ![l] = F]
  <2>1. /\ LayerOK(E, {}) /\ Flagged(E, {}) /\ E \in LayerState
        /\ Emptied(P0, E, Range(chosen)) /\ SameContent(P0, E) /\ SameProofs(P0, E)
    BY <1>8, <1>9, EvictedIs DEF LayerOK
  <2> HIDE DEF E
  <2>2. /\ F \in LayerState /\ SameMaps(E, F) /\ SameContent(E, F) /\ F.lease = E.lease
        /\ F.resident = NoResidency /\ F.plan = NoPlan
    BY <2>1, InvalidatedIs
  <2> HIDE DEF F
  <2>3. LayerOK(F, {}) /\ Flagged(F, {})
    BY <2>1, <2>2, SameMapsOK
  <2>4. F.records = pool[l].records /\ F.host = pool[l].host /\ F.lease = s
    BY <1>5, <1>9, <2>1, <2>2 DEF SameContent, SameProofs
  <2>5. \A x \in Slot : F.d2h[x] = None \/ F.d2h[x] = pool[l].d2h[x]
    BY <1>5, <1>9, <2>1, <2>2 DEF SameMaps, Emptied
  <2>6. FifoKept(pool[l], F)
    BY <1>9, <2>1, <2>2, <1>5, <1>6, <1>7, OneEvent DEF SameMaps, Emptied
  <2> QED
    BY <1>11, <2>2, <2>3, <2>4, <2>5, <2>6
<1> QED
  BY <1>2, <1>10, <1>11

(* A recall that fails brings nothing. *)
LEMMA EnsureFailsDevice ==
  ASSUME IInv, IInv', DInv, NEW l \in Layer, NEW s \in Session, NEW selection \in SUBSET Nat,
         EnsureFails(l, s, selection)
  PROVE  DInv'
<1> DEFINE c == cache[l][s]
           d == [c EXCEPT !.failed = TRUE]
           p == Persistent(l, s)
<1>1. /\ EnsureMayRun(l, s, selection) /\ Stepping(l, s) /\ Set(l, s, d)
      /\ UNCHANGED <<allocation, transient, candidates, prefetch, writes, snapshots>>
  BY DEF EnsureFails
<1>2. /\ s \in Live /\ ~c.failed /\ ClaimedOf(l) = {} /\ c \in CacheState /\ p \in Nat
  BY <1>1, EnsureMayAssume
<1>3. d.length = c.length /\ d.stepEnd = c.stepEnd /\ d.written = c.written
      /\ d.transientStart = c.transientStart /\ d.failed
  BY <1>2 DEF CacheState
<1> HIDE DEF d
<1>4. /\ cache'[l][s] = d /\ OthersStay(l, s) /\ \A m \in Layer : m # l => cache'[m] = cache[m]
      /\ p' = HostEnd(d) /\ (Transient(l, s)' <=> d.transientStart # None)
  BY <1>1, OneCache
<1>5. p' = p /\ (Transient(l, s)' <=> Transient(l, s))
  BY <1>3, <1>4 DEF HostEnd, Persistent, Transient
<1>6. PICK M : /\ pool' = [pool EXCEPT ![l] = M] /\ LayerOK(M, {}) /\ Flagged(M, {})
               /\ M.records = pool[l].records
               /\ \A x \in Slot : M.d2h[x] = None \/ M.d2h[x] = pool[l].d2h[x]
               /\ M.plan = NoPlan \/ M.plan = Leased(pool[l], s).plan
  BY EnsureFailsLeaves
<1>7. pool'[l] = M /\ \A m \in Layer : m # l => pool'[m] = pool[m]
  BY <1>6 DEF IInv, Shaped
<1>8. SlotsFrom(l, s, p)
  BY <1>6, <1>7 DEF SlotsFrom, RecordStays
<1>9. RowsFrom(l, s, p)
  BY <1>2, <1>5 DEF RowsFrom
<1>10. PrefetchOK' /\ WritesOwned' /\ \A m : ClaimedOf(m)' = ClaimedOf(m)
  BY <1>1, PrefetchStays
<1>11. M.plan.owner # None => Order(M.plan.order)
  BY LeasedIs, <1>6 DEF DInv, LayerSound, LayerOK, SameProofs, NoPlan
<1>12. LayerSound(l)'
  <2> HIDE DEF p, c
  <2> QED
    BY <1>1, <1>2, <1>4, <1>6, <1>7, <1>8, <1>9, <1>10, <1>11, LayerMoves
<1>13. SnapshotsOK'
  BY <1>1, <1>3, <1>4, LengthsStay DEF DInv
<1>14. c.stepEnd # None
  BY <1>1 DEF Stepping
<1> QED
  BY <1>1, <1>2, <1>3, <1>4, <1>7, <1>10, <1>12, <1>13, <1>14, OneLayer

-----------------------------------------------------------------------------
(* Prefetches. *)

(* The workspace of a layer holds distinct slots, those claimed so far in  *)
(* front.                                                                  *)
LEMMA ClaimedIs ==
  ASSUME DInv, NEW l \in Layer, prefetch # None, prefetch.layer = l
  PROVE  /\ prefetch \in PrefetchState /\ IsInjective(prefetch.order)
         /\ prefetch.claimed \in 0 .. Slots /\ prefetch.claimed <= prefetch.limit
         /\ ClaimedOf(l) = Claimed(prefetch) /\ ClaimedOf(l) \in SUBSET Slot
         /\ HostReady(l, prefetch.owner)
         /\ \A m \in Layer : m # l => ClaimedOf(m) = {}
<1>1. /\ prefetch \in PrefetchState /\ IsInjective(prefetch.order)
      /\ prefetch.claimed <= prefetch.limit /\ HostReady(l, prefetch.owner)
  BY DEF DInv, PrefetchOK
<1>2. prefetch.claimed \in 0 .. Slots /\ prefetch.order \in [1 .. Slots -> Slot]
  BY <1>1 DEF PrefetchState
<1>3. ClaimedOf(l) = Claimed(prefetch) /\ \A m \in Layer : m # l => ClaimedOf(m) = {}
  BY DEF ClaimedOf
<1>4. Claimed(prefetch) \in SUBSET Slot
  BY <1>2, SlotsAssumption DEF Claimed
<1> QED
  BY <1>1, <1>2, <1>3, <1>4

(* The pool after the end of a pending prefetch. *)
LEMMA SettledIs ==
  ASSUME DInv, NEW l \in Layer, NEW s \in Session, Pending(l, s) \/ ClaimedOf(l) = {}
  PROVE  LET M == Settled(l, s) IN
         /\ LayerOK(M, {}) /\ Flagged(M, {})
         /\ M.h2d = pool[l].h2d /\ M.d2h = pool[l].d2h /\ SameContent(pool[l], M)
         /\ M.plan = NoPlan \/ M.plan = pool[l].plan
         /\ \E S \in SUBSET Slot : Newest(pool[l], M, S) \/ SameMaps(pool[l], M)
<1> DEFINE M == Settled(l, s)
           C == ClaimedOf(l)
           G == Leased(pool[l], s)
<1>1. LayerOK(pool[l], C) /\ Flagged(pool[l], C) /\ pool[l] \in LayerState
  BY DEF DInv, LayerSound, LayerOK
<1>2. CASE Pending(l, s)
  <2>1. prefetch # None /\ prefetch.layer = l
    BY <1>2 DEF Pending
  <2>2. C = Claimed(prefetch) /\ C \in SUBSET Slot
    BY <2>1, ClaimedIs
  <2>3. /\ G \in LayerState /\ SameMaps(pool[l], G) /\ SameContent(pool[l], G)
    BY <1>1, LeasedIs
  <2> HIDE DEF G
  <2>4. LayerOK(G, C) /\ Flagged(G, C)
    BY <1>1, <2>3, SameMapsOK
  <2>5. M = Finalized(G, C)
    BY <1>2, <2>2 DEF Settled, G
  <2> HIDE DEF M, C
  <2>6. /\ LayerOK(M, {}) /\ Flagged(M, {}) /\ M.h2d = G.h2d /\ M.d2h = G.d2h
        /\ SameContent(G, M) /\ M.plan = NoPlan /\ Newest(G, M, C)
    BY <2>2, <2>4, <2>5, FinalizedIs
  <2>7. Newest(pool[l], M, C)
    BY <1>1, <2>2, <2>3, <2>6, NewestFrom DEF SameMaps, LayerOK
  <2> QED
    BY <2>2, <2>3, <2>6, <2>7 DEF SameMaps, SameContent, M
<1>3. CASE ~Pending(l, s)
  <2>1. M = pool[l] /\ C = {}
    BY <1>3 DEF Settled
  <2> HIDE DEF M, C
  <2>2. {} \in SUBSET Slot
    OBVIOUS
  <2> QED
    BY <1>1, <2>1, <2>2 DEF M, SameMaps, SameContent
<1> QED
  BY <1>2, <1>3

(* A prefetch is prepared with the order of the slots by age, or, if all   *)
(* history is mapped, is only an event of the clock.                       *)
LEMMA PreparePrefetchDevice ==
  ASSUME IInv, IInv', DInv, NEW l \in Layer, NEW s \in Session, NEW count \in Nat \ {0},
         PreparePrefetch(l, s, count)
  PROVE  DInv'
<1> DEFINE p == Persistent(l, s)
           G == Leased(pool[l], s)
           w == [owner |-> s, layer |-> l, order |-> PriorityOrder(G), claimed |-> 0,
                 limit |-> IF Transient(l, s) THEN Slots ELSE Slots - count]
<1>1. /\ Calls(l, s) /\ ~Pending(l, s) /\ Usable(l, s) /\ (Transient(l, s) \/ count <= Slots)
      /\ UNCHANGED <<allocation, cache, transient, candidates, writes, snapshots>>
  BY DEF PreparePrefetch
<1>2. \/ pool' = [pool EXCEPT ![l] = Stamped(G, {})] /\ prefetch' = prefetch
      \/ HostReady(l, s) /\ pool' = [pool EXCEPT ![l] = Invalidated(G)] /\ prefetch' = w
  BY DEF PreparePrefetch
<1>3. /\ s \in Live /\ ~cache[l][s].failed /\ prefetch = None /\ \A m : ClaimedOf(m) = {}
  BY <1>1, CallerKnows DEF Usable, ClaimedOf
<1>4. p \in Nat
  BY <1>3, EndsOf DEF HostEnd, EndsOK, CacheState
<1>5. /\ LayerOK(pool[l], {}) /\ Flagged(pool[l], {}) /\ pool[l] \in LayerState
      /\ (pool[l].plan.owner # None => Order(pool[l].plan.order))
  BY <1>3 DEF DInv, LayerSound, LayerOK
<1>6. /\ G \in LayerState /\ SameMaps(pool[l], G) /\ SameContent(pool[l], G)
      /\ G.plan = pool[l].plan \/ G.plan = NoPlan
  BY <1>5, LeasedIs DEF SameProofs
<1> HIDE DEF G, p
<1>7. LayerOK(G, {}) /\ Flagged(G, {})
  BY <1>5, <1>6, SameMapsOK
<1>8. G.plan.owner # None => Order(G.plan.order)
  BY <1>5, <1>6 DEF NoPlan
<1>9. \E M : /\ pool' = [pool EXCEPT ![l] = M] /\ LayerOK(M, {}) /\ Flagged(M, {})
             /\ M.d2h = pool[l].d2h /\ M.records = pool[l].records
             /\ (M.plan.owner # None => Order(M.plan.order))
  <2>1. CASE pool' = [pool EXCEPT ![l] = Stamped(G, {})]
    <3> DEFINE M == Stamped(G, {})
    <3>1. {} \in SUBSET Slot /\ (\A x \in {} : G.d2h[x] # None) /\ {} \ {} = {}
      OBVIOUS
    <3>2. /\ LayerOK(M, {} \ {}) /\ M.h2d = G.h2d /\ M.d2h = G.d2h /\ M.free = G.free
          /\ SameContent(G, M) /\ SameProofs(G, M)
      BY <1>7, <3>1, StampedIs
    <3> HIDE DEF M
    <3>3. LayerOK(M, {}) /\ Flagged(M, {})
      BY <1>7, <3>1, <3>2 DEF Flagged
    <3>4. /\ M.d2h = pool[l].d2h /\ M.records = pool[l].records
          /\ (M.plan.owner # None => Order(M.plan.order))
      BY <1>6, <1>8, <3>2 DEF SameMaps, SameContent, SameProofs
    <3>5. pool' = [pool EXCEPT ![l] = M]
      BY <2>1 DEF M
    <3> QED
      BY <3>3, <3>4, <3>5
  <2>2. CASE pool' = [pool EXCEPT ![l] = Invalidated(G)]
    <3> DEFINE M == Invalidated(G)
    <3>1. /\ M \in LayerState /\ SameMaps(G, M) /\ SameContent(G, M) /\ M.plan = NoPlan
      BY <1>6, InvalidatedIs
    <3> HIDE DEF M
    <3>2. LayerOK(M, {}) /\ Flagged(M, {})
      BY <1>7, <3>1, SameMapsOK
    <3>3. /\ M.d2h = pool[l].d2h /\ M.records = pool[l].records
          /\ (M.plan.owner # None => Order(M.plan.order))
      BY <1>6, <3>1 DEF SameMaps, SameContent, NoPlan
    <3>4. pool' = [pool EXCEPT ![l] = M]
      BY <2>2 DEF M
    <3> QED
      BY <3>2, <3>3, <3>4
  <2> QED
    BY <1>2, <2>1, <2>2
<1>10. PICK M : /\ pool' = [pool EXCEPT ![l] = M] /\ LayerOK(M, {}) /\ Flagged(M, {})
                /\ M.d2h = pool[l].d2h /\ M.records = pool[l].records
                /\ (M.plan.owner # None => Order(M.plan.order))
  BY <1>9
<1>11. pool'[l] = M /\ \A m \in Layer : m # l => pool'[m] = pool[m]
  BY <1>10 DEF IInv, Shaped
<1>12. PrefetchOK' /\ \A m : ClaimedOf(m)' = {}
  <2>1. CASE prefetch' = prefetch
    BY <1>3, <2>1 DEF PrefetchOK, ClaimedOf
  <2>2. CASE HostReady(l, s) /\ prefetch' = w
    <3>1. Order(PriorityOrder(G))
      BY <1>6, PriorityOrderIs
    <3>2. w.limit \in 0 .. Slots
      BY <1>1, SlotsAssumption
    <3>3. w \in PrefetchState
      BY <3>1, <3>2, SlotsAssumption DEF PrefetchState, Order
    <3>4. /\ w.owner = s /\ w.layer = l /\ w.claimed = 0 /\ w.claimed <= w.limit
          /\ IsInjective(w.order)
      BY <3>1, <3>2 DEF Order
    <3> HIDE DEF w
    <3>5. HostReady(l, s)'
      BY <1>1, <2>2 DEF HostReady
    <3>6. PrefetchOK'
      BY <2>2, <3>3, <3>4, <3>5 DEF PrefetchOK, PrefetchState
    <3>7. \A m : ClaimedOf(m)' = {}
      BY <2>2, <3>4 DEF ClaimedOf, Claimed
    <3> QED
      BY <3>6, <3>7
  <2> QED
    BY <1>2, <2>1, <2>2
<1>13. WritesOwned'
  BY <1>1 DEF DInv, WritesOwned
<1>14. /\ OthersStay(l, s) /\ \A m \in Layer : m # l => cache'[m] = cache[m]
       /\ cache'[l][s].length = cache[l][s].length
       /\ Persistent(l, s)' = Persistent(l, s) /\ (Transient(l, s)' <=> Transient(l, s))
       /\ cache'[l][s].stepEnd = None /\ ~cache'[l][s].failed
            => cache'[l][s].written = cache'[l][s].length
  BY <1>1, CachesStay
<1>15. SlotsFrom(l, s, p)
  BY <1>10, <1>11 DEF SlotsFrom, RecordStays
<1>16. RowsFrom(l, s, p)
  BY <1>3, <1>14 DEF RowsFrom, p
<1>17. LayerSound(l)'
  BY <1>1, <1>3, <1>4, <1>10, <1>11, <1>12, <1>14, <1>15, <1>16, LayerMoves
<1>18. SnapshotsOK'
  BY <1>1, <1>14, LengthsStay DEF DInv
<1> QED
  BY <1>1, <1>3, <1>11, <1>12, <1>13, <1>14, <1>17, <1>18, OneLayer

(* A claim takes the next slot of the order, which is not yet claimed, for *)
(* a history row that has none, and the host has the record.               *)
LEMMA ClaimDevice ==
  ASSUME IInv, IInv', DInv, NEW l \in Layer, NEW s \in Session, NEW i \in Index(s),
         Claim(l, s, i)
  PROVE  DInv'
<1> DEFINE p == Persistent(l, s)
           r == HostRow(s, i)
           x == prefetch.order[prefetch.claimed + 1]
           C == ClaimedOf(l)
           M == Taken(pool[l], r, x)
           q == [prefetch EXCEPT !.claimed = @ + 1]
<1>1. /\ Calls(l, s) /\ Pending(l, s) /\ i < p /\ pool[l].h2d[r] = None
      /\ prefetch.claimed < prefetch.limit
      /\ prefetch' = q
      /\ UNCHANGED <<allocation, cache, transient, candidates, writes, snapshots>>
  BY DEF Claim
<1>2. pool' = [pool EXCEPT ![l] = M]
  BY Zenon DEF Claim, Taken
<1>3. s \in Live /\ ~cache[l][s].failed
  BY <1>1, CallerKnows
<1>4. /\ prefetch # None /\ prefetch.layer = l /\ prefetch.owner = s
  BY <1>1 DEF Pending
<1>5. /\ prefetch \in PrefetchState /\ IsInjective(prefetch.order)
      /\ C = Claimed(prefetch) /\ C \in SUBSET Slot /\ HostReady(l, s)
      /\ \A m \in Layer : m # l => ClaimedOf(m) = {}
  BY <1>4, ClaimedIs
<1>6. /\ prefetch.claimed \in 0 .. Slots /\ prefetch.limit \in 0 .. Slots
      /\ prefetch.order \in [1 .. Slots -> Slot]
  BY <1>5 DEF PrefetchState
<1>7. prefetch.claimed + 1 \in 1 .. Slots /\ prefetch.claimed \in Nat
      /\ prefetch.claimed + 1 <= prefetch.limit
  BY <1>1, <1>6, SlotsAssumption
<1>8. x \in Slot /\ x \notin C
  BY <1>6, <1>7, <1>5, SlotsAssumption DEF Claimed, IsInjective
<1>9. p \in Nat /\ Capacity[s] \in Nat /\ i \in 0 .. Capacity[s] - 1 /\ i \in 0 .. p - 1
  <2>1. p \in Nat /\ Capacity[s] \in Nat
    BY <1>3, EndsOf DEF HostEnd, EndsOK, CacheState
  <2> HIDE DEF p
  <2> QED
    BY <1>1, <2>1 DEF Index
<1>10. r \in Row /\ pool[l].host[r] = <<s, i>>
  BY <1>3, <1>5, <1>9, IndexHasRow, HostHolds DEF IInv
<1>11. LayerOK(pool[l], C) /\ Flagged(pool[l], C)
       /\ (pool[l].plan.owner # None => Order(pool[l].plan.order))
  BY DEF DInv, LayerSound
<1> HIDE DEF x, C, M, r
<1>12. /\ LayerOK(M, C \cup {x}) /\ Flagged(M, C \cup {x})
       /\ \A y \in Slot : /\ M.d2h[y] = IF y = x THEN r ELSE pool[l].d2h[y]
                          /\ M.records[y] = IF y = x THEN pool[l].host[r] ELSE pool[l].records[y]
       /\ SameProofs(pool[l], M)
  <2>1. x \in Slot \ C /\ C \in SUBSET Slot
    BY <1>5, <1>8
  <2>2. M = Taken(pool[l], r, x) /\ pool[l].h2d[r] = None
    BY <1>1 DEF M, r, x
  <2>3. Takes(pool[l], Taken(pool[l], r, x), C, r, x)
    BY <1>10, <1>11, <2>1, <2>2, TakenIs
  <2> QED
    BY <2>2, <2>3 DEF Takes
<1>13. pool'[l] = M /\ \A m \in Layer : m # l => pool'[m] = pool[m]
  BY <1>2 DEF IInv, Shaped
<1>14. /\ q \in PrefetchState /\ q.owner = s /\ q.layer = l /\ q.order = prefetch.order
       /\ q.claimed = prefetch.claimed + 1 /\ q.limit = prefetch.limit
  BY <1>4, <1>5, <1>6, <1>7 DEF PrefetchState
<1> HIDE DEF q
<1>15. q # None
  <2>1. q \in Workspace
    BY SlotsAssumption, SeqDef, <1>14 DEF PrefetchState, Workspace
  <2> QED
    BY <2>1, WorkspaceAssumption
<1>16. ClaimedOf(l)' = C \cup {x} /\ \A m \in Layer : m # l => ClaimedOf(m)' = {}
  BY <1>1, <1>14, <1>15, <1>7, <1>5 DEF ClaimedOf, Claimed, x
<1>17. PrefetchOK'
  BY <1>1, <1>5, <1>7, <1>14 DEF HostReady, PrefetchOK, PrefetchState
<1>18. WritesOwned'
  BY <1>1 DEF DInv, WritesOwned
<1>19. /\ OthersStay(l, s) /\ \A m \in Layer : m # l => cache'[m] = cache[m]
       /\ cache'[l][s].length = cache[l][s].length
       /\ p' = p /\ (Transient(l, s)' <=> Transient(l, s))
       /\ cache'[l][s].stepEnd = None /\ ~cache'[l][s].failed
            => cache'[l][s].written = cache'[l][s].length
  BY <1>1, CachesStay
<1>20. SlotsFrom(l, s, p)
  BY <1>10, <1>12, <1>13, <1>1, <1>19, <1>9 DEF SlotsFrom, r, Arrived, RecordStays
<1>21. RowsFrom(l, s, p)
  BY <1>3, <1>19 DEF RowsFrom
<1>22. M.plan.owner # None => Order(M.plan.order)
  BY <1>11, <1>12 DEF SameProofs
<1>23. LayerSound(l)'
  <2> DEFINE D == C \cup {x}
  <2>1. LayerOK(M, D) /\ Flagged(M, D) /\ ClaimedOf(l)' = D
    BY <1>12, <1>16
  <2> HIDE DEF p, D
  <2> QED
    BY <1>1, <1>3, <1>9, <1>13, <1>19, <1>20, <1>21, <1>22, <2>1, LayerMoves
<1>24. SnapshotsOK'
  BY <1>1, <1>19, LengthsStay DEF DInv
<1>25. \A m \in Layer : m # l => ClaimedOf(m)' = ClaimedOf(m)
  BY <1>5, <1>16
<1> QED
  BY <1>1, <1>3, <1>13, <1>17, <1>18, <1>19, <1>23, <1>24, <1>25, OneLayer

-----------------------------------------------------------------------------
(* A prefetch, and what gives it up. *)

(* Without a workspace nothing is claimed. *)
LEMMA NoPrefetch ==
  ASSUME prefetch' = None
  PROVE  PrefetchOK' /\ \A m : ClaimedOf(m)' = {}
  BY DEF PrefetchOK, ClaimedOf

(* A prefetch ends with its claimed slots the newest. *)
LEMMA FinalizePrefetchDevice ==
  ASSUME IInv, IInv', DInv, NEW l \in Layer, NEW s \in Session, FinalizePrefetch(l, s)
  PROVE  DInv'
<1> DEFINE p == Persistent(l, s)
           M == Settled(l, s)
<1>1. /\ Calls(l, s) /\ Pending(l, s) /\ pool' = [pool EXCEPT ![l] = M] /\ prefetch' = None
      /\ UNCHANGED <<allocation, cache, transient, candidates, writes, snapshots>>
  BY DEF FinalizePrefetch
<1>2. s \in Live /\ ~cache[l][s].failed /\ prefetch.layer = l /\ prefetch # None
  BY <1>1, CallerKnows DEF Pending
<1>3. p \in Nat
  BY <1>2, EndsOf DEF HostEnd, EndsOK, CacheState
<1>4. /\ LayerOK(M, {}) /\ Flagged(M, {}) /\ M.d2h = pool[l].d2h /\ SameContent(pool[l], M)
      /\ M.plan = NoPlan \/ M.plan = pool[l].plan
  BY <1>1, SettledIs
<1>5. pool'[l] = M /\ \A m \in Layer : m # l => pool'[m] = pool[m]
  BY <1>1 DEF IInv, Shaped
<1> HIDE DEF M
<1>6. PrefetchOK' /\ \A m : ClaimedOf(m)' = {}
  BY <1>1, NoPrefetch
<1>7. WritesOwned'
  BY <1>1 DEF DInv, WritesOwned
<1>8. /\ OthersStay(l, s) /\ \A m \in Layer : m # l => cache'[m] = cache[m]
      /\ cache'[l][s].length = cache[l][s].length
      /\ p' = p /\ (Transient(l, s)' <=> Transient(l, s))
      /\ cache'[l][s].stepEnd = None /\ ~cache'[l][s].failed
           => cache'[l][s].written = cache'[l][s].length
  BY <1>1, CachesStay
<1>9. SlotsFrom(l, s, p)
  BY <1>4, <1>5 DEF SlotsFrom, RecordStays, SameContent
<1>10. RowsFrom(l, s, p)
  BY <1>2, <1>8 DEF RowsFrom
<1>11. M.plan.owner # None => Order(M.plan.order)
  BY <1>4 DEF DInv, LayerSound, NoPlan
<1>12. LayerSound(l)'
  <2> HIDE DEF p
  <2> QED
    BY <1>1, <1>2, <1>3, <1>4, <1>5, <1>6, <1>8, <1>9, <1>10, <1>11, LayerMoves
<1>13. SnapshotsOK'
  BY <1>1, <1>8, LengthsStay DEF DInv
<1>14. \A m \in Layer : m # l => ClaimedOf(m)' = ClaimedOf(m)
  BY <1>2, <1>6, ClaimedIs
<1> QED
  BY <1>1, <1>2, <1>5, <1>6, <1>7, <1>8, <1>12, <1>13, <1>14, OneLayer

-----------------------------------------------------------------------------
(* Rollbacks and truncations. *)

(* The layer M that is left of L when session s has nothing from first on. *)
Shrinks(L, M, s, first) ==
  /\ LayerOK(M, {}) /\ Flagged(M, {})
  /\ \A x \in Slot : \/ M.d2h[x] = None
                     \/ M.d2h[x] = L.d2h[x] /\ M.priority[x] = L.priority[x]
  /\ \A x \in Slot, i \in first .. Capacity[s] - 1 : M.d2h[x] # HostRow(s, i)
  /\ StillThere(Slot, L.records, M.records, s, first)
  /\ M.clock = L.clock /\ M.lease = L.lease /\ M.resident = NoResidency /\ M.plan = NoPlan

(* So does a truncation. *)
LEMMA ShrunkIs ==
  ASSUME IInv, NEW s \in Live, NEW first \in Nat, NEW L, LayerOK(L, {}), Flagged(L, {})
  PROVE  Shrinks(L, Shrunk(L, s, first), s, first)
<1> DEFINE rows == HostRows(s, first .. Capacity[s] - 1)
           R == Released(L, rows)
           M == Superseded(R, s, first)
<1>1. Shrunk(L, s, first) = M
  BY DEF Shrunk
<1>2. s \in Session /\ Capacity[s] \in Nat
  BY PoolAssumption DEF Live
<1>3. rows \in SUBSET Row
  BY <1>2, IndexHasRow DEF HostRows, IInv
<1>4. /\ LayerOK(R, {}) /\ Flagged(R, {})
      /\ Emptied(L, R, Mapped(L, rows)) /\ SameContent(L, R) /\ R.lease = L.lease
      /\ R.resident = NoResidency /\ R.plan = NoPlan
      /\ \A x \in Slot : R.d2h[x] \notin rows
  <2> HIDE DEF rows
  <2> QED
    BY <1>3, ReleasedIs
<1> HIDE DEF R
<1>5. /\ M \in LayerState /\ SameMaps(R, M) /\ SameProofs(R, M)
      /\ StillThere(Slot, R.records, M.records, s, first)
  BY <1>2, <1>4, SupersededIs DEF LayerOK
<1> HIDE DEF M
<1>6. LayerOK(M, {}) /\ Flagged(M, {})
  BY <1>4, <1>5, SameMapsOK
<1>7. \A x \in Slot, i \in first .. Capacity[s] - 1 : M.d2h[x] # HostRow(s, i)
  <2>1. \A i \in first .. Capacity[s] - 1 : HostRow(s, i) \in rows
    BY DEF HostRows
  <2> HIDE DEF rows
  <2> QED
    BY <1>4, <1>5, <2>1 DEF SameMaps
<1>8. \A x \in Slot : \/ M.d2h[x] = None
                      \/ M.d2h[x] = L.d2h[x] /\ M.priority[x] = L.priority[x]
  <2> HIDE DEF rows
  <2> QED
    BY <1>4, <1>5 DEF SameMaps, Emptied
<1>9. /\ StillThere(Slot, L.records, M.records, s, first)
      /\ M.clock = L.clock /\ M.lease = L.lease /\ M.resident = NoResidency /\ M.plan = NoPlan
  <2> HIDE DEF rows
  <2> QED
    BY <1>4, <1>5 DEF SameMaps, SameProofs, SameContent, Emptied
<1> QED
  BY <1>1, <1>6, <1>7, <1>8, <1>9 DEF Shrinks

(* A truncation invalidates the snapshots that show more. *)
LEMMA SnapshotsInvalidate ==
  ASSUME SnapshotsOK, IInv, NEW l \in Layer, NEW s \in Session, NEW length \in Nat,
         UNCHANGED allocation, snapshots' = InvalidatedSnapshots(s, length),
         OthersStay(l, s), \A m \in Layer : m # l => cache'[m] = cache[m],
         cache'[l][s].length = length
  PROVE  SnapshotsOK'
<1>1. /\ session' = session /\ Live' = Live
      /\ \A t, i : HostRow(t, i)' = HostRow(t, i)
  BY DEF allocation, Live, HostRow
<1>2. DOMAIN snapshots' = DOMAIN snapshots
  BY DEF InvalidatedSnapshots
<1>3. SUFFICES ASSUME NEW k \in DOMAIN snapshots, snapshots'[k] # None
               PROVE  SnapshotOK(snapshots[k])'
  BY <1>2 DEF SnapshotsOK, SnapshotOK
<1> DEFINE S == snapshots[k]
           T == snapshots'[k]
<1>4. /\ T = Invalidation(S, s, length) /\ SnapshotOK(S)
  BY DEF InvalidatedSnapshots, SnapshotsOK
<1>5. S # None
  BY <1>3, <1>4 DEF Invalidation
<1>6. /\ S \in [topology : [Session -> {"new", "live", "released"}], valid : BOOLEAN,
                layers : [Layer -> LayerState], length : [Layer -> [Session -> Nat]]]
      /\ \A m \in Layer : /\ LayerOK(S.layers[m], {}) /\ Flagged(S.layers[m], {})
                          /\ S.layers[m].resident = NoResidency /\ S.layers[m].plan = NoPlan
      /\ \A t \in Session : /\ session[t] = "new" => S.topology[t] = "new"
                            /\ session[t] = "live" => S.topology[t] # "released"
      /\ S.topology = session /\ S.valid =>
           \A m \in Layer : /\ \A t \in Session : S.length[m][t] <= cache[m][t].length
                            /\ SnapshotShows(S, m)
  BY <1>4, <1>5 DEF SnapshotOK
<1>7. \/ T = S /\ \A m \in Layer : ~(S.length[m][s] > length)
      \/ T = [S EXCEPT !.valid = FALSE]
  BY <1>4, <1>5 DEF Invalidation
<1> HIDE DEF S, T
<1>8. /\ T \in [topology : [Session -> {"new", "live", "released"}], valid : BOOLEAN,
                layers : [Layer -> LayerState], length : [Layer -> [Session -> Nat]]]
      /\ T.topology = S.topology /\ T.layers = S.layers /\ T.length = S.length
      /\ T.valid => T = S /\ \A m \in Layer : ~(S.length[m][s] > length)
  BY <1>6, <1>7
<1>9. ASSUME T.topology = session, T.valid, NEW m \in Layer
      PROVE  /\ \A t \in Session : T.length[m][t] <= cache'[m][t].length
             /\ SnapshotShows(snapshots[k], m)'
  <2>1. /\ T = S /\ ~(S.length[m][s] > length)
        /\ \A t \in Session : S.length[m][t] <= cache[m][t].length
        /\ SnapshotShows(S, m)
    BY <1>6, <1>8, <1>9
  <2>2. S.length[m][s] \in Nat
    BY <1>6
  <2>3. \A t \in Session : T.length[m][t] <= cache'[m][t].length
    BY <2>1, <2>2 DEF OthersStay
  <2>4. snapshots'[k] = S
    BY <2>1 DEF T
  <2>5. SnapshotShows(snapshots[k], m)'
    BY <1>1, <2>1, <2>4 DEF SnapshotShows
  <2> QED
    BY <2>3, <2>5
<1>10. \A m \in Layer : /\ LayerOK(T.layers[m], {}) /\ Flagged(T.layers[m], {})
                        /\ T.layers[m].resident = NoResidency /\ T.layers[m].plan = NoPlan
  BY <1>6, <1>8
<1>11. \A t \in Session : /\ session[t] = "new" => T.topology[t] = "new"
                          /\ session[t] = "live" => T.topology[t] # "released"
  BY <1>6, <1>8
<1>12. T = snapshots'[k]
  BY DEF T
<1> QED
  BY <1>1, <1>8, <1>9, <1>10, <1>11, <1>12 DEF SnapshotOK

(* What is left of a step that is given up, or of a history that is cut. *)
LEMMA ShrinkDevice ==
  ASSUME IInv, IInv', DInv, NEW l \in Layer, NEW s \in Live, NEW length \in Nat,
         length <= cache[l][s].length, UNCHANGED <<allocation, writes>>,
         NEW L, LayerOK(L, {}), Flagged(L, {}), L.d2h = pool[l].d2h, L.records = pool[l].records,
         pool' = [pool EXCEPT ![l] = Shrunk(L, s, length)],
         ~Transient(l, s), \A m \in Layer : m # l => ClaimedOf(m) = {}, prefetch' = None,
         Set(l, s, Shortened(cache[l][s], length)),
         snapshots' = InvalidatedSnapshots(s, length)
  PROVE  DInv'
<1> DEFINE c == cache[l][s]
           d == Shortened(c, length)
           M == Shrunk(L, s, length)
<1>1. /\ s \in Session /\ EndsOK(c, Capacity[s]) /\ Persistent(l, s) = HostEnd(c)
      /\ Capacity[s] \in Nat /\ c.length \in Nat /\ c.written \in Nat
  BY EndsOf
<1>2. /\ d.transientStart = None /\ d.stepEnd = None /\ HostEnd(d) = length
  BY <1>1, ShortenedEnds
<1>3. d.length = length /\ d.written = length
  BY DEF Shortened, EmptyCache
<1> HIDE DEF d
<1>4. /\ cache'[l][s] = d /\ OthersStay(l, s) /\ \A m \in Layer : m # l => cache'[m] = cache[m]
      /\ Persistent(l, s)' = HostEnd(d) /\ (Transient(l, s)' <=> d.transientStart # None)
  BY <1>1, OneCache DEF d
<1>5. pool'[l] = M /\ \A m \in Layer : m # l => pool'[m] = pool[m]
  BY DEF IInv, Shaped
<1>6. Shrinks(L, M, s, length)
  BY ShrunkIs
<1> HIDE DEF M
<1>7. SlotsFrom(l, s, length)
  BY <1>5, <1>6 DEF Shrinks, SlotsFrom, RecordStays, StillThere
<1>8. RowsFrom(l, s, length)
  BY <1>1, <1>2, <1>4, <1>5, <1>6 DEF Persistent, EndsOK, RowsFrom, Shrinks
<1>9. PrefetchOK' /\ \A m : ClaimedOf(m)' = {}
  BY NoPrefetch
<1>10. LayerSound(l)'
  <2>1. LayerOK(M, {}) /\ Flagged(M, {}) /\ (M.plan.owner # None => Order(M.plan.order))
    BY <1>6 DEF Shrinks, NoPlan
  <2> QED
    BY <1>4, <1>5, <1>7, <1>8, <1>9, <2>1, LayerMoves
<1>11. WritesOwned'
  BY DEF DInv, WritesOwned
<1>12. SnapshotsOK'
  BY <1>1, <1>3, <1>4, SnapshotsInvalidate DEF DInv
<1> QED
  BY <1>3, <1>4, <1>5, <1>9, <1>10, <1>11, <1>12, OneLayer

(* Where the session may use a layer, nothing is left of the workspace     *)
(* once it has given its own up.                                           *)
LEMMA WorkspaceGivenUp ==
  ASSUME IInv, DInv, NEW l \in Layer, NEW s \in Session, Usable(l, s),
         prefetch' = WithoutPending(s)
  PROVE  /\ prefetch' = None /\ \A m \in Layer : m # l => ClaimedOf(m) = {}
         /\ Pending(l, s) \/ ClaimedOf(l) = {}
<1>1. CASE prefetch = None
  BY <1>1 DEF WithoutPending, ClaimedOf
<1>2. CASE prefetch # None
  BY <1>2, ClaimedIs DEF Usable, Pending, WithoutPending
<1> QED
  BY <1>1, <1>2

(* The layer that a rollback, or a discarded suffix, goes on with. *)
LEMMA GivenUp ==
  ASSUME DInv, NEW l \in Layer, NEW s \in Session, Pending(l, s) \/ ClaimedOf(l) = {}
  PROVE  LET L == Leased(Settled(l, s), s) IN
         /\ LayerOK(L, {}) /\ Flagged(L, {}) /\ L.d2h = pool[l].d2h /\ L.h2d = pool[l].h2d
         /\ SameContent(pool[l], L) /\ L.lease = s
         /\ L.plan = NoPlan \/ L.plan = pool[l].plan
         /\ \E S \in SUBSET Slot : Newest(pool[l], L, S) \/ SameMaps(pool[l], L)
<1> DEFINE N == Settled(l, s)
           L == Leased(N, s)
<1>1. /\ LayerOK(N, {}) /\ Flagged(N, {})
      /\ N.h2d = pool[l].h2d /\ N.d2h = pool[l].d2h /\ SameContent(pool[l], N)
      /\ N.plan = NoPlan \/ N.plan = pool[l].plan
      /\ \E S \in SUBSET Slot : Newest(pool[l], N, S) \/ SameMaps(pool[l], N)
  BY SettledIs
<1> HIDE DEF N
<1>2. /\ L \in LayerState /\ SameMaps(N, L) /\ SameContent(N, L) /\ L.lease = s
      /\ L.plan = N.plan \/ L.plan = NoPlan
  BY <1>1, LeasedIs DEF SameProofs, LayerOK
<1> HIDE DEF L
<1>3. LayerOK(L, {}) /\ Flagged(L, {})
  BY <1>1, <1>2, SameMapsOK
<1>4. PICK S \in SUBSET Slot : Newest(pool[l], N, S) \/ SameMaps(pool[l], N)
  BY <1>1
<1>5. Newest(pool[l], L, S) \/ SameMaps(pool[l], L)
  BY <1>2, <1>4 DEF SameMaps, Newest
<1> QED
  BY <1>1, <1>2, <1>3, <1>5 DEF SameMaps, SameContent, L, N

(* A rollback takes back what the step has appended. *)
LEMMA RollbackDevice ==
  ASSUME IInv, IInv', DInv, NEW l \in Layer, NEW s \in Session, Rollback(l, s)
  PROVE  DInv'
<1> DEFINE c == cache[l][s]
           L == Leased(Settled(l, s), s)
<1>1. /\ MayStep(s) /\ ~Transient(l, s) /\ Usable(l, s)
      /\ pool' = [pool EXCEPT ![l] = Shrunk(L, s, c.length)]
      /\ prefetch' = WithoutPending(s) /\ Set(l, s, Shortened(c, c.length))
      /\ snapshots' = InvalidatedSnapshots(s, c.length)
      /\ UNCHANGED <<allocation, transient, candidates, writes>>
  BY DEF Rollback
<1>2. s \in Live /\ c.length \in Nat
  BY <1>1, CallsLive, EndsOf
<1>3. /\ prefetch' = None /\ \A m \in Layer : m # l => ClaimedOf(m) = {}
      /\ Pending(l, s) \/ ClaimedOf(l) = {}
  BY <1>1, WorkspaceGivenUp
<1>4. /\ LayerOK(L, {}) /\ Flagged(L, {}) /\ L.d2h = pool[l].d2h /\ L.records = pool[l].records
  BY <1>3, GivenUp DEF SameContent
<1>5. c.length <= c.length /\ UNCHANGED <<allocation, writes>>
  BY <1>1, <1>2
<1> HIDE DEF L, c
<1> QED
  BY <1>1, <1>2, <1>3, <1>4, <1>5, ShrinkDevice, Zenon DEF c

(* A truncation of a session in no step. *)
LEMMA TruncateDevice ==
  ASSUME IInv, IInv', DInv, NEW l \in Layer, NEW s \in Session, NEW length \in Nat,
         Truncate(l, s, length)
  PROVE  DInv'
<1> DEFINE c == cache[l][s]
           L == Leased(pool[l], s)
<1>1. /\ Calls(l, s) /\ ~Stepping(l, s) /\ Usable(l, s) /\ length <= c.length
      /\ pool' = [pool EXCEPT ![l] = Shrunk(L, s, length)]
      /\ Set(l, s, Shortened(c, length))
      /\ snapshots' = InvalidatedSnapshots(s, length)
      /\ UNCHANGED <<allocation, transient, candidates, prefetch, writes>>
  BY DEF Truncate
<1>2. s \in Live /\ ~Transient(l, s) /\ ~Pending(l, s)
  BY <1>1, CallerKnows
<1>3. prefetch' = None /\ \A m : ClaimedOf(m) = {}
  BY <1>1, <1>2 DEF Usable, ClaimedOf
<1>4. LayerOK(pool[l], {}) /\ Flagged(pool[l], {}) /\ pool[l] \in LayerState
  BY <1>3 DEF DInv, LayerSound, LayerOK
<1>5. L \in LayerState /\ SameMaps(pool[l], L) /\ SameContent(pool[l], L)
  BY <1>4, LeasedIs
<1> HIDE DEF L
<1>6. LayerOK(L, {}) /\ Flagged(L, {})
  BY <1>4, <1>5, SameMapsOK
<1>7. L.d2h = pool[l].d2h /\ L.records = pool[l].records /\ UNCHANGED <<allocation, writes>>
      /\ \A m \in Layer : m # l => ClaimedOf(m) = {}
  BY <1>1, <1>3, <1>5 DEF SameMaps, SameContent
<1> HIDE DEF c
<1> QED
  BY <1>1, <1>2, <1>3, <1>6, <1>7, ShrinkDevice, Zenon DEF c

(* A transient suffix leaves nothing in the maps. *)
LEMMA DiscardTransientDevice ==
  ASSUME IInv, IInv', DInv, NEW l \in Layer, NEW s \in Session, DiscardTransient(l, s)
  PROVE  DInv'
<1> DEFINE c == cache[l][s]
           d == Shortened(c, c.length)
           M == Leased(Settled(l, s), s)
<1>1. /\ MayStep(s) /\ Transient(l, s) /\ Usable(l, s)
      /\ pool' = [pool EXCEPT ![l] = M]
      /\ prefetch' = WithoutPending(s) /\ Set(l, s, d)
      /\ UNCHANGED <<allocation, writes, snapshots>>
  BY DEF DiscardTransient
<1>2. /\ s \in Live /\ c.length \in Nat /\ EndsOK(c, Capacity[s]) /\ Capacity[s] \in Nat
      /\ Persistent(l, s) = HostEnd(c)
  BY <1>1, CallsLive, EndsOf
<1>3. Persistent(l, s) = c.length
  BY <1>1, <1>2 DEF HostEnd, EndsOK, Transient
<1>4. /\ d.transientStart = None /\ d.stepEnd = None /\ HostEnd(d) = c.length
  BY <1>2, ShortenedEnds
<1>5. d.length = c.length /\ d.written = c.length
  BY DEF Shortened, EmptyCache
<1> HIDE DEF d
<1>6. /\ cache'[l][s] = d /\ OthersStay(l, s) /\ \A m \in Layer : m # l => cache'[m] = cache[m]
      /\ Persistent(l, s)' = HostEnd(d) /\ (Transient(l, s)' <=> d.transientStart # None)
  BY <1>1, OneCache DEF d
<1>7. pool'[l] = M /\ \A m \in Layer : m # l => pool'[m] = pool[m]
  BY <1>1 DEF IInv, Shaped
<1>8. /\ prefetch' = None /\ \A m \in Layer : m # l => ClaimedOf(m) = {}
      /\ Pending(l, s) \/ ClaimedOf(l) = {}
  BY <1>1, WorkspaceGivenUp
<1>9. /\ LayerOK(M, {}) /\ Flagged(M, {}) /\ M.d2h = pool[l].d2h /\ SameContent(pool[l], M)
      /\ M.plan = NoPlan \/ M.plan = pool[l].plan
  BY <1>8, GivenUp
<1> HIDE DEF M
<1>10. SlotsFrom(l, s, c.length)
  BY <1>7, <1>9 DEF SlotsFrom, RecordStays, SameContent
<1>11. RowsFrom(l, s, c.length)
  BY <1>1, <1>3, <1>4, <1>6 DEF RowsFrom
<1>12. PrefetchOK' /\ \A m : ClaimedOf(m)' = {}
  BY <1>8, NoPrefetch
<1>13. M.plan.owner # None => Order(M.plan.order)
  BY <1>9 DEF DInv, LayerSound, NoPlan
<1>14. LayerSound(l)'
  <2> HIDE DEF c
  <2> QED
    BY <1>1, <1>2, <1>6, <1>7, <1>9, <1>10, <1>11, <1>12, <1>13, LayerMoves
<1>15. WritesOwned'
  BY <1>1 DEF DInv, WritesOwned
<1>16. SnapshotsOK'
  BY <1>1, <1>5, <1>6, LengthsStay DEF DInv
<1> QED
  BY <1>1, <1>2, <1>5, <1>6, <1>7, <1>8, <1>12, <1>14, <1>15, <1>16, OneLayer

-----------------------------------------------------------------------------
(* Sessions that come and go. *)

(* The rows of all pages of a live session, whether or not its capacity    *)
(* reaches them, are in the arena.                                         *)
LEMMA ReleasedRowsAreRows ==
  ASSUME IInv, NEW s \in Live
  PROVE  /\ ReleasedRows(s) \in SUBSET Row
         /\ \A i \in 0 .. Capacity[s] - 1 : HostRow(s, i) \in ReleasedRows(s)
<1> DEFINE d == PageTokens
           k == PagesFor(s)
<1>1. s \in Session /\ pages[s] \in Seq(Page) /\ Len(pages[s]) = k
  BY DEF IInv, AllocationOK, Live
<1>2. d \in Nat \ {0} /\ Rows \in Nat /\ Capacity[s] \in Nat \ {0}
  BY <1>1, PoolAssumption, SlotsAssumption
<1>3. k \in Nat
  BY <1>2, Division DEF PagesFor
<1>4. ASSUME NEW i \in 0 .. k * d - 1 PROVE HostRow(s, i) \in Row
  <2> DEFINE p == PageOf(s, i)
             x == i % d
             n == Rows \div d
             e == i \div d
  <2>1. k * d \in Nat /\ i \in Nat /\ i < k * d
    BY <1>2, <1>3, TimesMonotone
  <2>2. e \in Nat /\ e * d <= i
    BY <1>2, <2>1, Division
  <2>3. e < k
    <3> HIDE DEF e, d, k
    <3>1. SUFFICES ASSUME k <= e PROVE FALSE
      BY <1>3, <2>2
    <3>2. k * d <= e * d /\ e * d \in Nat
      BY <1>2, <1>3, <2>2, <3>1, TimesMonotone
    <3> QED
      BY <2>1, <2>2, <3>2
  <2>4. p \in Page
    <3>1. e + 1 \in 1 .. Len(pages[s])
      <4> HIDE DEF e, k, d
      <4> QED
        BY <1>1, <1>3, <2>2, <2>3
    <3> QED
      BY <1>1, <3>1, ElementOfSeq DEF PageOf
  <2>5. p \in Nat /\ n \in Nat /\ p + 1 <= n /\ n * d <= Rows
    BY <1>2, <2>4, Division DEF Page
  <2>6. x \in 0 .. d - 1
    BY <1>2, <2>1, Remainder
  <2>7. HostRow(s, i) = p * d + x
    BY DEF HostRow, PageOf
  <2> HIDE DEF p, x, d, n
  <2>8. (p + 1) * d <= n * d /\ p * d \in Nat /\ n * d \in Nat
    BY <1>2, <2>5, TimesMonotone
  <2>9. (p + 1) * d = p * d + d
    BY <1>2, <2>5
  <2>10. p * d + x \in Nat /\ p * d + x < Rows
    BY <1>2, <2>5, <2>6, <2>8, <2>9
  <2> QED
    BY <1>2, <2>7, <2>10 DEF Row
<1>5. Capacity[s] <= k * d
  <2> DEFINE n == Capacity[s] + d - 1
  <2>1. n \in Nat /\ k = n \div d
    BY <1>2 DEF PagesFor
  <2>2. n < (k + 1) * d
    BY <1>2, <2>1, Division
  <2> HIDE DEF k, d
  <2>3. (k + 1) * d = k * d + d /\ k * d \in Nat
    BY <1>2, <1>3, TimesMonotone
  <2> QED
    BY <1>2, <2>2, <2>3
<1>6. ReleasedRows(s) = {HostRow(s, i) : i \in 0 .. k * d - 1}
  BY DEF ReleasedRows, HostRows
<1>7. k * d \in Nat
  BY <1>2, <1>3, TimesMonotone
<1> HIDE DEF k, d
<1> QED
  BY <1>2, <1>4, <1>5, <1>6, <1>7

(* An allocation changes rows of the new session only; a snapshot is from  *)
(* before it.                                                              *)
LEMMA AllocateDevice ==
  ASSUME IInv, IInv', DInv, NEW s \in Session, Allocate(s)
  PROVE  DInv'
<1>1. /\ session[s] = "new" /\ session' = [session EXCEPT ![s] = "live"]
      /\ UNCHANGED <<pool, cache, transient, candidates, prefetch, writes, snapshots>>
  BY DEF Allocate
<1>2. \E q : pages' = [pages EXCEPT ![s] = q]
  BY DEF Allocate
<1>3. session \in [Session -> {"new", "live", "released"}] /\ pages \in [Session -> Seq(Page)]
  BY DEF IInv, AllocationOK
<1>4. /\ s \notin Live /\ Live \subseteq Live'
      /\ \A t \in Live : \A i : HostRow(t, i)' = HostRow(t, i)
  BY <1>1, <1>2, <1>3 DEF Live, HostRow
<1>5. PrefetchOK' /\ WritesOwned' /\ \A m : ClaimedOf(m)' = ClaimedOf(m)
  BY <1>1, PrefetchStays
<1>6. IdleCommitted'
  BY <1>1 DEF DInv, IdleCommitted, Stepping
<1>7. ASSUME NEW l \in Layer PROVE LayerSound(l)'
  BY <1>1, <1>4, <1>5 DEF ShowsOf, Persistent, Transient, DInv, LayerSound, Shows
<1>8. SnapshotsOK'
  BY <1>1, <1>3 DEF DInv, SnapshotsOK, SnapshotOK
<1> QED
  BY <1>5, <1>6, <1>7, <1>8 DEF DInv

(* A release takes every row of the session out of the maps; a snapshot    *)
(* from before is none of the new topology.                                *)
LEMMA ReleaseDevice ==
  ASSUME IInv, IInv', DInv, NEW s \in Session, Release(s)
  PROVE  DInv'
<1> DEFINE P(l) == IF Transient(l, s) THEN Leased(Settled(l, s), s) ELSE Settled(l, s)
           R(l) == Released(P(l), ReleasedRows(s))
           M(l) == Superseded(R(l), s, 0)
<1>1. /\ MayStep(s) /\ Drained /\ (prefetch # None => prefetch.owner = s)
      /\ session' = [session EXCEPT ![s] = "released"]
      /\ pool' = [l \in Layer |-> M(l)]
      /\ cache' = [l \in Layer |-> [cache[l] EXCEPT ![s] = EmptyCache]]
      /\ prefetch' = WithoutPending(s)
      /\ pages' = [pages EXCEPT ![s] = <<>>]
      /\ UNCHANGED <<writes, snapshots>>
  BY Zenon DEF Release
<1>2. s \in Live
  BY <1>1, CallsLive
<1>3. session \in [Session -> {"new", "live", "released"}] /\ pages \in [Session -> Seq(Page)]
  BY DEF IInv, AllocationOK
<1>4. /\ Live' = Live \ {s}
      /\ \A t \in Session : t # s => \A i : HostRow(t, i)' = HostRow(t, i)
  BY <1>1, <1>3 DEF Live, HostRow
<1>5. prefetch' = None /\ PrefetchOK' /\ \A m : ClaimedOf(m)' = {}
  BY <1>1, NoPrefetch DEF WithoutPending
<1>6. WritesOwned'
  BY <1>1 DEF DInv, WritesOwned
<1>7. \A l \in Layer : /\ cache'[l][s] = EmptyCache
                       /\ \A t \in Session : t # s => cache'[l][t] = cache[l][t]
  BY <1>1 DEF IInv, CacheOK
<1>8. IdleCommitted'
  BY <1>7 DEF IdleCommitted, Stepping, EmptyCache, DInv
<1>9. ASSUME NEW l \in Layer PROVE LayerSound(l)'
  <2> DEFINE G == P(l)
             S == R(l)
             N == M(l)
             rows == ReleasedRows(s)
  <2>1. Pending(l, s) \/ ClaimedOf(l) = {}
    BY <1>1 DEF Pending, ClaimedOf
  <2>2. LayerOK(G, {}) /\ Flagged(G, {}) /\ G.d2h = pool[l].d2h /\ G.records = pool[l].records
    BY <2>1, SettledIs, GivenUp DEF SameContent
  <2> HIDE DEF G
  <2>3. rows \in SUBSET Row /\ \A i \in 0 .. Capacity[s] - 1 : HostRow(s, i) \in rows
    BY <1>2, ReleasedRowsAreRows
  <2> HIDE DEF rows
  <2>4. S = Released(G, rows)
    BY DEF S, G, rows
  <2> HIDE DEF S
  <2>5. /\ LayerOK(S, {}) /\ Flagged(S, {})
        /\ Emptied(G, S, Mapped(G, rows)) /\ SameContent(G, S)
        /\ S.plan = NoPlan /\ \A x \in Slot : S.d2h[x] \notin rows
    BY <2>2, <2>3, <2>4, ReleasedIs
  <2>6. N = Superseded(S, s, 0)
    BY DEF N, S
  <2> HIDE DEF N
  <2>7. /\ N \in LayerState /\ SameMaps(S, N) /\ SameProofs(S, N)
        /\ StillThere(Slot, S.records, N.records, s, 0)
    BY <2>5, <2>6, SupersededIs DEF LayerOK
  <2>8. LayerOK(N, {}) /\ Flagged(N, {})
    BY <2>5, <2>7, SameMapsOK
  <2>9. pool'[l] = N
    BY <1>1 DEF N
  <2>10. Shows(l)'
    BY <2>9, <2>2, <2>5, <2>7, <2>3, PoolAssumption, <1>4, <1>7 DEF Shows, SameMaps, Emptied,
       DInv, LayerSound, Live, SameContent, StillThere, ShowsOf, Persistent, Transient
  <2>11. N.plan.owner # None => Order(N.plan.order)
    BY <2>5, <2>7 DEF SameProofs, NoPlan
  <2>12. LayerOK(pool[l], ClaimedOf(l))' /\ Flagged(pool[l], ClaimedOf(l))'
    BY <1>5, <2>8, <2>9 DEF LayerOK, Mirrors, AgesOK, Flagged
  <2> QED
    BY <2>9, <2>10, <2>11, <2>12 DEF LayerSound, Order
<1>10. SnapshotsOK'
  BY <1>1, <1>2, <1>3 DEF DInv, SnapshotsOK, SnapshotOK, Live
<1> QED
  BY <1>5, <1>6, <1>8, <1>9, <1>10 DEF DInv

-----------------------------------------------------------------------------
(* The copy stream, and snapshots. *)

(* A copy reaches the host side only; the others stay in flight. *)
LEMMA HostWriteDevice ==
  ASSUME IInv, IInv', DInv, HostWrite
  PROVE  DInv'
<1> DEFINE w == Head(writes)
           n == Len(writes)
<1>1. /\ writes # <<>> /\ writes' = Tail(writes)
      /\ pool' = [pool EXCEPT ![w.layer].host =
                    Updated(@, DOMAIN w.rows, LAMBDA r : w.rows[r])]
      /\ UNCHANGED <<allocation, cache, transient, candidates, prefetch, snapshots>>
  BY DEF HostWrite
<1>2. writes \in Seq(Ticketed)
  BY DEF IInv, Shaped
<1>3. PICK h : h = writes' /\ h = Tail(writes)
  BY <1>1
<1>4. /\ w \in Ticketed /\ n \in Nat
      /\ DOMAIN h = 1 .. n - 1 /\ DOMAIN writes = 1 .. n
      /\ \A k \in 1 .. n - 1 : h[k] = writes[k + 1]
  BY <1>1, <1>2, <1>3, HeadTailProperties, LenProperties, EmptySeq
<1>5. \A k \in DOMAIN h : \E j \in DOMAIN writes : h[k] = writes[j]
  BY <1>4
<1>6. w.layer \in Layer /\ \A r \in DOMAIN w.rows : w.rows[r] \in Record
  BY <1>4 DEF Ticketed
<1> HIDE DEF w, n
<1>7. PICK l \in Layer : l = w.layer
  BY <1>6
<1>8. LayerOK(pool[l], ClaimedOf(l)) /\ Flagged(pool[l], ClaimedOf(l))
      /\ pool[l] \in LayerState /\ pool[l].host \in [Row -> Record]
  BY LayerTyped DEF DInv, LayerSound, LayerOK
<1> DEFINE g == Updated(pool[l].host, DOMAIN w.rows, LAMBDA r : w.rows[r])
           M == [pool[l] EXCEPT !.host = g]
<1>9. g \in [Row -> Record]
  BY <1>6, <1>8 DEF Updated
<1>10. pool' = [pool EXCEPT ![l] = M]
  BY <1>1, <1>7
<1> HIDE DEF g
<1>11. M \in LayerState /\ SameMaps(pool[l], M) /\ SameProofs(pool[l], M)
       /\ M.records = pool[l].records
  BY <1>8, <1>9, HostIs
<1> HIDE DEF M
<1>12. pool'[l] = M /\ \A m \in Layer : m # l => pool'[m] = pool[m]
  BY <1>10 DEF IInv, Shaped
<1>13. \A m : ClaimedOf(m)' = ClaimedOf(m)
  BY <1>1 DEF ClaimedOf
<1>14. PrefetchOK'
  BY <1>1, <1>3, <1>5 DEF DInv, PrefetchOK, PrefetchState, HostReady
<1>15. WritesOwned'
  BY <1>3, <1>5 DEF DInv, WritesOwned
<1>16. IdleCommitted'
  BY <1>1 DEF DInv, IdleCommitted, Stepping
<1>17. Live' = Live /\ \A t, i : HostRow(t, i)' = HostRow(t, i)
  BY <1>1 DEF allocation, Live, HostRow
<1>18. LayerSound(l)'
  <2>1. \A t, i, record : ShowsOf(l, t, i, record)' <=> ShowsOf(l, t, i, record)
    BY <1>1 DEF ShowsOf, Persistent, Transient
  <2>2. Shows(l)'
    BY <1>11, <1>12, <1>17, <2>1 DEF DInv, LayerSound, SameMaps, Shows
  <2>3. LayerOK(M, ClaimedOf(l)) /\ Flagged(M, ClaimedOf(l))
    BY <1>8, <1>11, SameMapsOK
  <2>4. LayerOK(pool[l], ClaimedOf(l))' /\ Flagged(pool[l], ClaimedOf(l))'
    BY <1>12, <1>13, <2>3 DEF LayerOK, Mirrors, AgesOK, Flagged
  <2>5. pool'[l].plan.owner # None => Order(pool'[l].plan.order)
    BY <1>11, <1>12 DEF DInv, LayerSound, SameProofs
  <2> QED
    BY <2>2, <2>4, <2>5 DEF LayerSound, Order
<1>19. ASSUME NEW m \in Layer PROVE LayerSound(m)'
  BY <1>18, <1>1, <1>12, <1>13, LayersStay
<1>20. SnapshotsOK'
  BY <1>1, SnapshotsStay DEF IInv, CacheOK, EndsOK, CacheState, DInv
<1> QED
  BY <1>14, <1>15, <1>16, <1>19, <1>20 DEF DInv

(* While no session is in a step, no workspace is held, and a backend that *)
(* is not poisoned shows what is committed.                                *)
LEMMA QuietCaches ==
  ASSUME SerialSteps, IInv, DInv, Quiescent, ~Poisoned
  PROVE  /\ prefetch = None
         /\ \A l \in Layer, s \in Session :
              /\ ~cache[l][s].failed /\ ~Transient(l, s)
              /\ cache[l][s].written = cache[l][s].length
              /\ Persistent(l, s) = cache[l][s].length
<1>1. prefetch = None
  BY DEF IInv, LeasesHaveAStep, WorkspaceOK, Quiescent, Stepping
<1>2. ASSUME NEW l \in Layer, NEW s \in Session
      PROVE  /\ ~cache[l][s].failed /\ ~Transient(l, s)
             /\ cache[l][s].written = cache[l][s].length
             /\ Persistent(l, s) = cache[l][s].length
  BY DEF IInv, CacheOK, Quiescent, Stepping, EmptyCache, Poisoned, EndsOK, Transient, DInv,
     IdleCommitted, Persistent
<1> QED
  BY <1>1, <1>2

(* A snapshot shows what is committed. *)
LEMMA TakeSnapshotDevice ==
  ASSUME SerialSteps, IInv, IInv', DInv, NEW k \in DOMAIN snapshots, TakeSnapshot(k)
  PROVE  DInv'
<1> DEFINE y == [l \in Layer |-> DeviceSide(pool[l])]
           z == [l \in Layer |-> [s \in Session |-> cache[l][s].length]]
           S == [topology |-> session, valid |-> TRUE, layers |-> y, length |-> z]
<1>1. /\ Quiescent /\ ~Poisoned /\ snapshots' = [snapshots EXCEPT ![k] = S]
      /\ UNCHANGED <<allocation, pool, cache, transient, candidates, prefetch, writes>>
  BY DEF TakeSnapshot
<1>2. /\ prefetch = None
      /\ \A l \in Layer, s \in Session :
           /\ ~cache[l][s].failed /\ ~Transient(l, s)
           /\ cache[l][s].written = cache[l][s].length
           /\ Persistent(l, s) = cache[l][s].length
  BY <1>1, QuietCaches
<1>3. PrefetchOK' /\ WritesOwned' /\ \A m : ClaimedOf(m)' = ClaimedOf(m)
  BY <1>1, PrefetchStays
<1>4. IdleCommitted'
  BY <1>1 DEF DInv, IdleCommitted, Stepping
<1>5. \A m \in Layer : LayerSound(m)'
  BY <1>1, <1>3, LayersStay
<1>6. \A l \in Layer : /\ pool[l] \in LayerState /\ LayerOK(pool[l], {}) /\ Flagged(pool[l], {})
                       /\ Shows(l)
  BY <1>2 DEF DInv, LayerSound, LayerOK, ClaimedOf
<1>7. ASSUME NEW l \in Layer
      PROVE  /\ DeviceSide(pool[l]) \in LayerState /\ SameMaps(pool[l], DeviceSide(pool[l]))
             /\ DeviceSide(pool[l]).records = pool[l].records
             /\ DeviceSide(pool[l]).resident = NoResidency /\ DeviceSide(pool[l]).plan = NoPlan
             /\ LayerOK(DeviceSide(pool[l]), {}) /\ Flagged(DeviceSide(pool[l]), {})
  <2> DEFINE L == pool[l]
             M == DeviceSide(L)
  <2>1. L \in LayerState /\ LayerOK(L, {}) /\ Flagged(L, {})
    BY <1>6
  <2> HIDE DEF L
  <2>2. /\ M \in LayerState /\ SameMaps(L, M) /\ M.records = L.records
        /\ M.resident = NoResidency /\ M.plan = NoPlan
    BY <2>1, DeviceSideIs
  <2> HIDE DEF M
  <2>3. LayerOK(M, {}) /\ Flagged(M, {})
    BY <2>1, <2>2, SameMapsOK
  <2> QED
    BY <2>2, <2>3 DEF M, L
<1>8. y \in [Layer -> LayerState] /\ \A l \in Layer : y[l] = DeviceSide(pool[l])
  BY <1>7
<1> HIDE DEF y
<1>9. /\ z \in [Layer -> [Session -> Nat]]
      /\ \A l \in Layer, s \in Session : z[l][s] = cache[l][s].length
  BY DEF IInv, CacheOK, EndsOK, CacheState
<1> HIDE DEF z
<1>10. /\ S \in [topology : [Session -> {"new", "live", "released"}], valid : BOOLEAN,
                 layers : [Layer -> LayerState], length : [Layer -> [Session -> Nat]]]
       /\ S.topology = session /\ S.valid /\ S.layers = y /\ S.length = z
  BY <1>8, <1>9 DEF IInv, AllocationOK
<1> HIDE DEF S
<1>11. ASSUME NEW l \in Layer, NEW x \in Slot, S.layers[l].d2h[x] # None
       PROVE  \E s \in Live : \E i \in 0 .. S.length[l][s] - 1 :
                HostRow(s, i) = S.layers[l].d2h[x] /\ S.layers[l].records[x] = <<s, i>>
  <2>1. S.layers[l].d2h = pool[l].d2h /\ S.layers[l].records = pool[l].records
    BY <1>7, <1>8, <1>10 DEF SameMaps
  <2>2. PICK s \in Live : \E i \in 0 .. Capacity[s] - 1 :
          HostRow(s, i) = pool[l].d2h[x] /\ ShowsOf(l, s, i, pool[l].records[x])
    BY <1>6, <1>11, <2>1 DEF Shows
  <2>3. PICK i \in 0 .. Capacity[s] - 1 :
          HostRow(s, i) = pool[l].d2h[x] /\ ShowsOf(l, s, i, pool[l].records[x])
    BY <2>2
  <2>4. s \in Session /\ i \in Nat /\ cache[l][s].length \in Nat
    BY PoolAssumption, EndsOf DEF Live
  <2>5. i < Persistent(l, s) /\ pool[l].records[x] = <<s, i>>
    BY <1>2, <2>3, <2>4 DEF ShowsOf
  <2>6. i \in 0 .. S.length[l][s] - 1
    BY <1>2, <1>9, <1>10, <2>4, <2>5
  <2> QED
    BY <2>1, <2>3, <2>5, <2>6
<1>12. Live' = Live /\ session' = session /\ \A t, i : HostRow(t, i)' = HostRow(t, i)
  BY <1>1 DEF allocation, Live, HostRow
<1>13. DOMAIN snapshots' = DOMAIN snapshots /\ snapshots'[k] = S
       /\ \A j \in DOMAIN snapshots : j # k => snapshots'[j] = snapshots[j]
  BY <1>1
<1>14. SnapshotOK(snapshots[k])'
  <2>1. \A l \in Layer : SnapshotShows(snapshots[k], l)'
    BY <1>11, <1>12, <1>13 DEF SnapshotShows
  <2>2. \A l \in Layer, s \in Session : S.length[l][s] <= cache'[l][s].length
    <3>1. \A l \in Layer, s \in Session : cache[l][s].length \in Nat
      BY DEF IInv, CacheOK, EndsOK, CacheState
    <3> QED
      BY <1>1, <1>9, <1>10, <3>1
  <2>3. \A l \in Layer : /\ LayerOK(S.layers[l], {}) /\ Flagged(S.layers[l], {})
                         /\ S.layers[l].resident = NoResidency /\ S.layers[l].plan = NoPlan
    BY <1>7, <1>8, <1>10
  <2>4. \A s \in Session : /\ session[s] = "new" => S.topology[s] = "new"
                           /\ session[s] = "live" => S.topology[s] # "released"
    BY <1>10
  <2> QED
    BY <1>10, <1>12, <1>13, <2>1, <2>2, <2>3, <2>4 DEF SnapshotOK
<1>15. ASSUME NEW j \in DOMAIN snapshots, j # k PROVE SnapshotOK(snapshots[j])'
  BY <1>13, <1>15, <1>12, <1>1 DEF DInv, SnapshotsOK, SnapshotShows, SnapshotOK
<1>16. SnapshotsOK'
  BY <1>13, <1>14, <1>15 DEF DInv, SnapshotsOK
<1> QED
  BY <1>3, <1>4, <1>5, <1>16 DEF DInv

(* A restore brings back what is history still; the caller keeps one       *)
(* snapshot, so no other may become acceptable by it.                      *)
LEMMA RestoreDevice ==
  ASSUME SerialSteps, Snapshots \in {0, 1}, IInv, IInv', DInv,
         NEW k \in DOMAIN snapshots, Restore(k)
  PROVE  DInv'
<1> DEFINE S == snapshots[k]
<1>1. /\ Restorable(S) /\ Quiescent /\ ~Poisoned
      /\ pool' = [l \in Layer |-> Restored(pool[l], S.layers[l])]
      /\ cache' = [l \in Layer |-> [s \in Session |-> Shortened(cache[l][s], S.length[l][s])]]
      /\ UNCHANGED <<allocation, transient, candidates, prefetch, writes, snapshots>>
  BY DEF Restore
<1>2. /\ S # None /\ SnapshotOK(S) /\ S.topology = session /\ S.valid
  BY <1>1 DEF DInv, SnapshotsOK, Restorable
<1>3. /\ S \in [topology : [Session -> {"new", "live", "released"}], valid : BOOLEAN,
                layers : [Layer -> LayerState], length : [Layer -> [Session -> Nat]]]
      /\ \A l \in Layer : /\ LayerOK(S.layers[l], {}) /\ Flagged(S.layers[l], {})
                          /\ S.layers[l].plan = NoPlan /\ S.layers[l] \in LayerState
                          /\ SnapshotShows(S, l)
      /\ \A s \in Session : /\ session[s] = "new" => S.topology[s] = "new"
                            /\ session[s] = "live" => S.topology[s] # "released"
  BY <1>2 DEF SnapshotOK, LayerOK
<1>4. Live' = Live /\ session' = session /\ \A t, i : HostRow(t, i)' = HostRow(t, i)
  BY <1>1 DEF allocation, Live, HostRow
<1>5. S' = S
  BY <1>1
<1> HIDE DEF S
<1>6. \A l \in Layer, s \in Session :
        /\ cache'[l][s].length = S.length[l][s] /\ cache'[l][s].written = S.length[l][s]
        /\ cache'[l][s].transientStart = None /\ S.length[l][s] \in Nat
  BY <1>1, <1>3 DEF Shortened, EmptyCache
<1>7. prefetch = None /\ prefetch' = None
  BY <1>1, QuietCaches
<1>8. PrefetchOK' /\ \A m : ClaimedOf(m)' = {}
  BY <1>7, NoPrefetch
<1>9. WritesOwned'
  BY <1>1 DEF DInv, WritesOwned
<1>10. IdleCommitted'
  BY <1>6 DEF IdleCommitted
<1>11. ASSUME NEW l \in Layer PROVE LayerSound(l)'
  <2> DEFINE T == S.layers[l]
             M == Restored(pool[l], T)
  <2>1. pool[l] \in LayerState
    BY DEF DInv, LayerSound, LayerOK
  <2>2. T \in LayerState /\ LayerOK(T, {}) /\ Flagged(T, {}) /\ T.plan = NoPlan
    BY <1>3
  <2> HIDE DEF T
  <2>3. M \in LayerState /\ SameMaps(T, M) /\ M.records = T.records /\ M.plan = T.plan
    BY <2>1, <2>2, RestoredIs
  <2>4. pool'[l] = M
    BY <1>1 DEF T
  <2> HIDE DEF M
  <2>5. LayerOK(M, {}) /\ Flagged(M, {})
    BY <2>2, <2>3, SameMapsOK
  <2>6. LayerOK(pool[l], ClaimedOf(l))' /\ Flagged(pool[l], ClaimedOf(l))'
    BY <1>8, <2>4, <2>5 DEF LayerOK, Mirrors, AgesOK, Flagged
  <2>7. Shows(l)'
    <3>1. SUFFICES ASSUME NEW x \in Slot, M.d2h[x] # None
                   PROVE  \E t \in Live : \E i \in 0 .. Capacity[t] - 1 :
                            /\ HostRow(t, i) = M.d2h[x]
                            /\ ShowsOf(l, t, i, pool[l].records[x])'
      BY <1>4, <2>4 DEF Shows
    <3>2. PICK t \in Live : \E i \in 0 .. S.length[l][t] - 1 :
            HostRow(t, i) = T.d2h[x] /\ T.records[x] = <<t, i>>
      BY <1>3, <2>3, <3>1 DEF SnapshotShows, SameMaps, T
    <3>3. PICK i \in 0 .. S.length[l][t] - 1 :
            HostRow(t, i) = T.d2h[x] /\ T.records[x] = <<t, i>>
      BY <3>2
    <3>4. t \in Session /\ S.length[l][t] \in Nat
      BY <1>6 DEF Live
    <3>5. S.length[l][t] <= Capacity[t] /\ Capacity[t] \in Nat
      BY <3>4, <1>6, PoolAssumption DEF IInv, CacheOK, EndsOK
    <3>6. i \in 0 .. Capacity[t] - 1 /\ i < S.length[l][t]
      BY <3>4, <3>5
    <3>7. Persistent(l, t)' = S.length[l][t]
      BY <1>6, <3>4 DEF Persistent, Transient
    <3>8. pool'[l].records[x] = <<t, i>>
      BY <2>3, <2>4, <3>3
    <3>9. ShowsOf(l, t, i, pool[l].records[x])'
      BY <3>6, <3>7, <3>8 DEF ShowsOf
    <3> QED
      BY <2>3, <3>3, <3>6, <3>9 DEF SameMaps
  <2>8. pool'[l].plan.owner # None => Order(pool'[l].plan.order)
    BY <2>2, <2>3, <2>4 DEF NoPlan
  <2> QED
    BY <2>6, <2>7, <2>8 DEF LayerSound, Order
<1>12. SnapshotsOK'
  <2>1. DOMAIN snapshots = 1 .. Snapshots
    BY DEF DInv, SnapshotsOK
  <2>2. \A j \in DOMAIN snapshots : j = k
    BY <2>1
  <2>3. snapshots' = snapshots /\ snapshots[k] = S
    BY <1>1 DEF S
  <2>4. \A l \in Layer : SnapshotShows(snapshots[k], l)'
    BY <1>3, <1>4, <2>3 DEF SnapshotShows
  <2>5. \A l \in Layer, s \in Session : S.length[l][s] <= cache'[l][s].length
    BY <1>6
  <2>6. \A l \in Layer : S.layers[l].resident = NoResidency
    BY <1>2 DEF SnapshotOK
  <2>7. SnapshotOK(snapshots[k])'
    BY <1>3, <1>4, <2>3, <2>4, <2>5, <2>6 DEF SnapshotOK
  <2> QED
    BY <2>1, <2>2, <2>3, <2>7 DEF SnapshotsOK
<1> QED
  BY <1>8, <1>9, <1>10, <1>11, <1>12 DEF DInv

-----------------------------------------------------------------------------
(* The device side as a whole. *)

(* A fresh layer. *)
LEMMA EmptyLayerOK ==
  /\ LayerOK(EmptyLayer, {}) /\ Flagged(EmptyLayer, {}) /\ EmptyLayer.plan.owner = None
  /\ \A x \in Slot : EmptyLayer.d2h[x] = None
<1>1. /\ None \notin Slot /\ None \notin Row /\ Limit \in Nat
  BY NoneIsNone, SlotsAssumption
<1>2. /\ NoResidency \in [owner : Session \cup {None}, end : Nat]
      /\ NoPlan \in [owner : Session \cup {None}, cursor : Nat, order : Seq(Slot)]
  BY EmptySeq DEF NoResidency, NoPlan
<1>3. Stale \in Record /\ -1 \in -1 .. Limit /\ 0 \in 0 .. Limit
  BY <1>1 DEF Record
<1>4. EmptyLayer \in LayerState
  BY <1>2, <1>3 DEF LayerState, EmptyLayer
<1>5. /\ EmptyLayer.d2h = [x \in Slot |-> None] /\ EmptyLayer.h2d = [r \in Row |-> None]
      /\ EmptyLayer.priority = [x \in Slot |-> -1] /\ EmptyLayer.free = [x \in Slot |-> TRUE]
      /\ EmptyLayer.clock = 0 /\ EmptyLayer.plan = NoPlan
  BY DEF EmptyLayer
<1>6. Mirrors(EmptyLayer)
  BY <1>1, <1>5 DEF Mirrors
<1>7. AgesOK(EmptyLayer, {}) /\ Flagged(EmptyLayer, {})
  BY <1>5 DEF AgesOK, Flagged
<1> QED
  BY <1>4, <1>5, <1>6, <1>7 DEF LayerOK, NoPlan

(* At first every layer is fresh, and nothing is claimed or in flight. *)
LEMMA InitDevice ==
  ASSUME Init
  PROVE  DInv
<1>1. /\ \A l \in Layer : pool[l] = EmptyLayer
      /\ \A l \in Layer, s \in Session : cache[l][s] = EmptyCache
      /\ prefetch = None /\ writes = <<>> /\ snapshots = [k \in 1 .. Snapshots |-> None]
  BY DEF Init
<1>2. \A l \in Layer : LayerSound(l)
  <2>1. \A l : ClaimedOf(l) = {}
    BY <1>1 DEF ClaimedOf
  <2>2. ASSUME NEW l \in Layer PROVE LayerSound(l)
    <3>1. pool[l] = EmptyLayer /\ ClaimedOf(l) = {}
      BY <1>1, <2>1
    <3>2. Shows(l)
      BY <3>1, EmptyLayerOK DEF Shows
    <3> QED
      BY <3>1, <3>2, EmptyLayerOK DEF LayerSound
  <2> QED
    BY <2>2
<1>3. PrefetchOK
  BY <1>1 DEF PrefetchOK
<1>4. IdleCommitted
  BY <1>1 DEF IdleCommitted, EmptyCache
<1>5. WritesOwned
  BY <1>1 DEF WritesOwned
<1>6. SnapshotsOK
  BY <1>1 DEF SnapshotsOK, SnapshotOK
<1> QED
  BY <1>2, <1>3, <1>4, <1>5, <1>6 DEF DInv

(* Nothing happens. *)
LEMMA StutterDevice ==
  ASSUME IInv, IInv', DInv, UNCHANGED vars
  PROVE  DInv'
<1>1. UNCHANGED <<allocation, pool, cache, transient, candidates, prefetch, writes, snapshots>>
  BY DEF vars
<1>2. PrefetchOK' /\ WritesOwned' /\ \A m : ClaimedOf(m)' = ClaimedOf(m)
  BY <1>1, PrefetchStays
<1>3. IdleCommitted'
  BY <1>1 DEF DInv, IdleCommitted, Stepping
<1>4. \A m \in Layer : LayerSound(m)'
  BY <1>1, <1>2, LayersStay
<1>5. SnapshotsOK'
  BY <1>1, SnapshotsStay DEF IInv, CacheOK, EndsOK, CacheState, DInv
<1> QED
  BY <1>2, <1>3, <1>4, <1>5 DEF DInv

(* Any call of one session on one layer. *)
LEMMA StepDevice ==
  ASSUME SerialSteps, IInv, IInv', DInv, NEW l \in Layer, NEW s \in Session, Step(l, s)
  PROVE  DInv'
<1>1. CASE \E count \in 1 .. Capacity[s] :
             \/ BeginStep(l, s, count) \/ BeginTransient(l, s, count)
             \/ AppendRecords(l, s, count) \/ AppendFails(l, s, count)
             \/ AppendTransient(l, s, count)
             \/ PreparePrefetch(l, s, count)
  BY <1>1, PoolAssumption, BeginStepDevice, BeginTransientDevice, AppendRecordsDevice,
     AppendFailsDevice, AppendTransientDevice, PreparePrefetchDevice
<1>2. CASE \E selection \in SUBSET (0 .. Capacity[s] + CandidateSlots - 1) :
             \/ \E uncounted \in BOOLEAN : Ensure(l, s, selection, uncounted)
             \/ EnsureFails(l, s, selection)
  BY <1>2, PoolAssumption, EnsureDevice, EnsureFailsDevice
<1>3. CASE \E i \in Index(s) : Claim(l, s, i)
  BY <1>3, ClaimDevice
<1>4. CASE FinalizePrefetch(l, s)
  BY <1>4, FinalizePrefetchDevice
<1>5. CASE Commit(l, s)
  BY <1>5, CommitDevice
<1>6. CASE Rollback(l, s)
  BY <1>6, RollbackDevice
<1>7. CASE RollbackRefused(l, s)
  BY <1>7, RollbackRefusedDevice
<1>8. CASE DiscardTransient(l, s)
  BY <1>8, DiscardTransientDevice
<1>9. CASE \E length \in 0 .. Capacity[s] : Truncate(l, s, length)
  BY <1>9, PoolAssumption, TruncateDevice
<1> QED
  BY <1>1, <1>2, <1>3, <1>4, <1>5, <1>6, <1>7, <1>8, <1>9, Zenon DEF Step

(* Any step of the pool. *)
LEMMA NextDevice ==
  ASSUME SerialSteps, Snapshots \in {0, 1}, IInv, IInv', DInv, [Next]_vars
  PROVE  DInv'
<1>1. CASE \E s \in Session : Allocate(s) \/ Release(s)
  BY <1>1, AllocateDevice, ReleaseDevice
<1>2. CASE \E l \in Layer, s \in Session : Step(l, s)
  BY <1>2, StepDevice
<1>3. CASE HostWrite
  BY <1>3, HostWriteDevice
<1>4. CASE \E k \in DOMAIN snapshots : TakeSnapshot(k) \/ Restore(k)
  BY <1>4, TakeSnapshotDevice, RestoreDevice
<1>5. CASE UNCHANGED vars
  BY <1>5, StutterDevice
<1> QED
  BY <1>1, <1>2, <1>3, <1>4, <1>5 DEF Next

(* The invariant of the device side holds in every state that is reached   *)
(* where steps are serialised and a caller keeps at most one snapshot.     *)
THEOREM DeviceInvariant ==
  ASSUME SerialSteps, Snapshots \in {0, 1}
  PROVE  Spec => []DInv
<1>1. Init => DInv
  BY InitDevice
<1>2. IInv /\ IInv' /\ DInv /\ [Next]_vars => DInv'
  BY NextDevice
<1> QED
  BY <1>1, <1>2, Invariant, PTL DEF Spec

(* host_to_device and device_to_host stay each other's inverse, the free   *)
(* flags and the priorities say the same as the maps, and every mapped     *)
(* slot holds the current record of the row it is mapped to.               *)
THEOREM MapsStaySound ==
  ASSUME SerialSteps, Snapshots \in {0, 1}
  PROVE  Spec => []MapsSound
<1>1. DInv => MapsSound
  BY DEF DInv, LayerSound, LayerOK, Mirrors, AgesOK, Flagged, MapsInverse,
     SlotsHoldCurrentRecords, Shows, ShowsOf, MapsSound
<1> QED
  BY <1>1, DeviceInvariant, PTL

-----------------------------------------------------------------------------
(* What the caller's side holds: the caches, the candidate rows of a       *)
(* transient suffix, the copies in flight.                                 *)

CandidatesShown(l, s) ==
  LET c == cache[l][s] IN
  Transient(l, s) =>
    /\ c.stepEnd - c.transientStart <= CandidateSlots
    /\ \A i \in Nat : c.transientStart <= i /\ i < c.written
         => candidates[l][1 + i - c.transientStart] = <<s, i>>

CInv ==
  /\ cache \in [Layer -> [Session -> CacheState]]
  /\ candidates \in [Layer -> [Candidate -> Record]]
  /\ Len(writes) <= MaxInflight
  /\ \A l \in Layer, s \in Session : CandidatesShown(l, s)

(* Where the candidate rows stay, so does what they show. *)
LEMMA CandidatesStay ==
  ASSUME NEW l \in Layer, NEW s \in Session, CandidatesShown(l, s),
         candidates'[l] = candidates[l],
         \/ cache'[l][s].transientStart = None
         \/ /\ cache'[l][s].transientStart = cache[l][s].transientStart
            /\ cache'[l][s].stepEnd = cache[l][s].stepEnd
            /\ cache'[l][s].written = cache[l][s].written
  PROVE  CandidatesShown(l, s)'
  BY DEF CandidatesShown, Transient

(* A call that leaves the candidate rows and the copies alone. *)
LEMMA CallerStays ==
  ASSUME IInv, IInv', CInv, NEW l \in Layer, NEW s \in Session, NEW c, Set(l, s, c),
         candidates' = candidates, Len(writes') <= MaxInflight,
         CandidatesShown(l, s)'
  PROVE  CInv'
<1>1. cache' = [cache EXCEPT ![l][s] = c]
  BY DEF Set
<1>2. /\ cache'[l][s] = c /\ OthersStay(l, s)
      /\ \A m \in Layer : m # l => cache'[m] = cache[m]
  BY OneCache
<1>3. c \in CacheState
  BY <1>2 DEF IInv, CacheOK, EndsOK
<1>4. cache' \in [Layer -> [Session -> CacheState]]
  BY <1>1, <1>3 DEF CInv
<1>5. ASSUME NEW m \in Layer, NEW t \in Session PROVE CandidatesShown(m, t)'
  BY <1>2, CandidatesStay DEF OthersStay, CInv
<1> QED
  BY <1>4, <1>5 DEF CInv

(* A call that moves no cache either. *)
LEMMA CallerRests ==
  ASSUME CInv, UNCHANGED <<cache, candidates>>, Len(writes') <= MaxInflight
  PROVE  CInv'
<1>1. \A m \in Layer, t \in Session : CandidatesShown(m, t)'
  BY DEF CInv, CandidatesShown, Transient
<1> QED
  BY <1>1 DEF CInv

(* The calls that leave the candidate rows alone. *)
LEMMA StepsOfCaller ==
  ASSUME IInv, IInv', CInv, NEW l \in Layer, NEW s \in Session,
         \/ \E count \in Nat \ {0} :
              \/ BeginStep(l, s, count) \/ BeginTransient(l, s, count)
              \/ AppendRecords(l, s, count) \/ AppendFails(l, s, count)
              \/ PreparePrefetch(l, s, count)
         \/ \E selection : \/ \E uncounted : Ensure(l, s, selection, uncounted)
                           \/ EnsureFails(l, s, selection)
         \/ \E i : Claim(l, s, i)
         \/ FinalizePrefetch(l, s) \/ Commit(l, s) \/ Rollback(l, s) \/ RollbackRefused(l, s)
         \/ \E length \in Nat : Truncate(l, s, length)
  PROVE  CInv'
<1> DEFINE c == cache[l][s]
<1>1. c \in CacheState /\ EndsOK(c, Capacity[s]) /\ CandidatesShown(l, s)
  BY DEF CInv, IInv, CacheOK
<1>2. MaxInflight \in Nat /\ Len(writes) <= MaxInflight /\ writes \in Seq(Ticketed)
  BY PoolAssumption DEF CInv, IInv, Shaped
<1>3. ~Stepping(l, s) => c.transientStart = None
  BY <1>1 DEF EndsOK, Stepping
<1>4. ASSUME NEW d, Set(l, s, d), candidates' = candidates, writes' = writes,
             \/ d.transientStart = None
             \/ /\ d.transientStart = c.transientStart /\ d.stepEnd = c.stepEnd
                /\ d.written = c.written
      PROVE  CInv'
  BY <1>4, OneCache, <1>1, CandidatesStay, <1>2, CallerStays
<1>5. ASSUME UNCHANGED <<cache, candidates, writes>> PROVE CInv'
  BY <1>2, <1>5, CallerRests
<1>6. ASSUME NEW count \in Nat \ {0}, BeginStep(l, s, count) PROVE CInv'
  <2> DEFINE d == [c EXCEPT !.stepEnd = c.length + count, !.written = c.length]
  <2>1. Set(l, s, d) /\ ~Stepping(l, s) /\ candidates' = candidates /\ writes' = writes
    BY <1>6 DEF BeginStep
  <2>2. d.transientStart = None
    BY <1>1, <1>3, <2>1 DEF CacheState
  <2> HIDE DEF d
  <2> QED
    BY <1>4, <2>1, <2>2
<1>7. ASSUME NEW count \in Nat \ {0}, BeginTransient(l, s, count) PROVE CInv'
  <2> DEFINE d == [c EXCEPT !.stepEnd = c.length + count, !.written = c.length,
                            !.transientStart = c.length]
  <2>1. Set(l, s, d) /\ count <= CandidateSlots /\ candidates' = candidates /\ writes' = writes
    BY <1>7 DEF BeginTransient
  <2>2. /\ d.transientStart = c.length /\ d.stepEnd = c.length + count /\ d.written = c.length
        /\ c.length \in Nat
    BY <1>1 DEF CacheState
  <2> HIDE DEF d
  <2>3. cache'[l][s] = d
    BY <2>1, OneCache
  <2>4. CandidatesShown(l, s)'
    BY <2>1, <2>2, <2>3 DEF CandidatesShown
  <2> QED
    BY <1>2, <2>1, <2>4, CallerStays
<1>8. ASSUME NEW count \in Nat \ {0}, AppendRecords(l, s, count) PROVE CInv'
  <2> DEFINE d == [c EXCEPT !.written = @ + count]
  <2>1. Set(l, s, d) /\ ~Transient(l, s) /\ candidates' = candidates
        /\ Len(writes) < MaxInflight
        /\ \E w : writes' = Append(writes, w)
    BY <1>8 DEF AppendRecords, AppendMayRun, WriteHost
  <2>2. d.transientStart = None
    BY <1>1, <2>1 DEF CacheState, Transient
  <2> HIDE DEF d
  <2>3. cache'[l][s] = d
    BY <2>1, OneCache
  <2>4. CandidatesShown(l, s)'
    BY <1>1, <2>1, <2>2, <2>3, CandidatesStay
  <2>5. Len(writes') <= MaxInflight
    BY <1>2, LenProperties, <2>1
  <2> QED
    BY <2>1, <2>4, <2>5, CallerStays
<1>9. ASSUME NEW count \in Nat \ {0}, AppendFails(l, s, count) PROVE CInv'
  <2> DEFINE d == [c EXCEPT !.failed = TRUE]
  <2>1. Set(l, s, d) /\ candidates' = candidates /\ writes' = writes
    BY <1>9 DEF AppendFails
  <2>2. /\ d.transientStart = c.transientStart /\ d.stepEnd = c.stepEnd
        /\ d.written = c.written
    BY <1>1 DEF CacheState
  <2> HIDE DEF d
  <2> QED
    BY <1>4, <2>1, <2>2
<1>10. ASSUME NEW selection, EnsureFails(l, s, selection) PROVE CInv'
  <2> DEFINE d == [c EXCEPT !.failed = TRUE]
  <2>1. Set(l, s, d) /\ candidates' = candidates /\ writes' = writes
    BY <1>10 DEF EnsureFails
  <2>2. /\ d.transientStart = c.transientStart /\ d.stepEnd = c.stepEnd
        /\ d.written = c.written
    BY <1>1 DEF CacheState
  <2> HIDE DEF d
  <2> QED
    BY <1>4, <2>1, <2>2
<1>11. ASSUME Commit(l, s) PROVE CInv'
  <2> DEFINE d == [c EXCEPT !.length = c.written, !.stepEnd = None]
  <2>1. Set(l, s, d) /\ ~Transient(l, s) /\ candidates' = candidates /\ writes' = writes
    BY <1>11 DEF Commit
  <2>2. d.transientStart = None
    BY <1>1, <2>1 DEF CacheState, Transient
  <2> HIDE DEF d
  <2> QED
    BY <1>4, <2>1, <2>2
<1>12. ASSUME RollbackRefused(l, s) PROVE CInv'
  <2> DEFINE d == [c EXCEPT !.stepEnd = None, !.failed = SerialSteps]
  <2>1. Set(l, s, d) /\ ~Transient(l, s) /\ candidates' = candidates /\ writes' = writes
    BY <1>12 DEF RollbackRefused
  <2>2. d.transientStart = None
    BY <1>1, <2>1 DEF CacheState, Transient
  <2> HIDE DEF d
  <2> QED
    BY <1>4, <2>1, <2>2
<1>13. ASSUME NEW length \in Nat, Truncate(l, s, length) \/ Rollback(l, s) PROVE CInv'
  <2>1. /\ \E e : Set(l, s, Shortened(c, e))
        /\ candidates' = candidates /\ writes' = writes
    BY <1>13 DEF Truncate, Rollback
  <2>2. PICK e : Set(l, s, Shortened(c, e))
    BY <2>1
  <2>3. Shortened(c, e).transientStart = None
    BY DEF Shortened, EmptyCache
  <2> QED
    BY <1>4, <2>1, <2>2, <2>3
<1>14. ASSUME \/ \E count : PreparePrefetch(l, s, count)
              \/ \E selection, uncounted : Ensure(l, s, selection, uncounted)
              \/ \E i : Claim(l, s, i)
              \/ FinalizePrefetch(l, s)
       PROVE  CInv'
  <2>1. UNCHANGED <<cache, candidates, writes>>
    BY <1>14, Zenon DEF PreparePrefetch, Ensure, Claim, FinalizePrefetch
  <2> QED
    BY <1>5, <2>1
<1> QED
  BY <1>6, <1>7, <1>8, <1>9, <1>10, <1>11, <1>12, <1>13, <1>14

(* A layer's candidate rows are one session's. *)
LEMMA OneSuffix ==
  ASSUME IInv, NEW l \in Layer, NEW s \in Session, NEW t \in Session, t # s, Transient(l, s)
  PROVE  ~Transient(l, t)
  BY DEF IInv, LeasesHaveAStep

(* A transient append puts the records of its suffix one behind the other. *)
LEMMA AppendTransientCaller ==
  ASSUME IInv, IInv', CInv, NEW l \in Layer, NEW s \in Session, NEW count \in Nat \ {0},
         AppendTransient(l, s, count)
  PROVE  CInv'
<1> DEFINE c == cache[l][s]
           ts == c.transientStart
           d == [c EXCEPT !.written = @ + count]
           D == {1 + i - ts : i \in New(c, count)}
           f == candidates[l]
           g == [x \in DOMAIN f |-> IF x \in D THEN <<s, x - 1 + ts>> ELSE f[x]]
<1>1. /\ Calls(l, s) /\ Transient(l, s) /\ Set(l, s, d) /\ c.written + count <= c.stepEnd
      /\ candidates' = [candidates EXCEPT ![l] = g] /\ writes' = writes
  BY Zenon DEF AppendTransient, Updated
<1>2. /\ c \in CacheState /\ EndsOK(c, Capacity[s]) /\ CandidatesShown(l, s)
      /\ f \in [Candidate -> Record] /\ candidates \in [Layer -> [Candidate -> Record]]
      /\ cache \in [Layer -> [Session -> CacheState]]
  BY DEF CInv, IInv, CacheOK
<1>3. /\ ts \in Nat /\ c.stepEnd \in Nat /\ c.written \in Nat /\ CandidateSlots \in Nat
      /\ c.stepEnd - ts <= CandidateSlots /\ ts <= c.written
      /\ \A i \in Nat : ts <= i /\ i < c.written => f[1 + i - ts] = <<s, i>>
  BY <1>1, <1>2, PoolAssumption DEF CandidatesShown, EndsOK, CacheState, Transient
<1>4. d.transientStart = ts /\ d.stepEnd = c.stepEnd /\ d.written = c.written + count
  BY <1>2 DEF CacheState
<1> HIDE DEF d
<1>5. /\ cache'[l][s] = d /\ OthersStay(l, s) /\ \A m \in Layer : m # l => cache'[m] = cache[m]
  BY <1>1, OneCache
<1>6. \A x \in Candidate : x - 1 + ts \in Nat
  BY <1>3 DEF Candidate
<1>7. g \in [Candidate -> Record]
        /\ \A x \in Candidate : g[x] = IF x \in D THEN <<s, x - 1 + ts>> ELSE f[x]
  <2> HIDE DEF D, ts
  <2> QED
    BY <1>2, <1>6 DEF Record
<1> HIDE DEF g
<1>8. /\ candidates' \in [Layer -> [Candidate -> Record]] /\ candidates'[l] = g
      /\ \A m \in Layer : m # l => candidates'[m] = candidates[m]
  BY <1>1, <1>2, <1>7
<1>9. CandidatesShown(l, s)'
  <2>1. ASSUME NEW i \in Nat, ts <= i, i < c.written + count
        PROVE  g[1 + i - ts] = <<s, i>>
    <3> DEFINE x == 1 + i - ts
    <3>1. x \in Candidate /\ x - 1 + ts = i
      BY <1>1, <1>3, <2>1 DEF Candidate
    <3>2. i < c.written => f[x] = <<s, i>>
      BY <1>3, <2>1
    <3>3. i < c.written \/ x \in D
      BY <1>3, <2>1 DEF New
    <3>4. SUFFICES g[x] = <<s, i>>
      OBVIOUS
    <3> HIDE DEF x, D, f, ts
    <3>5. g[x] = IF x \in D THEN <<s, x - 1 + ts>> ELSE f[x]
      BY Zenon, <1>7, <3>1
    <3>6. CASE x \in D
      BY <3>1, <3>5, <3>6
    <3>7. CASE ~(x \in D)
      BY <3>2, <3>3, <3>5, <3>7
    <3> QED
      BY <3>6, <3>7
  <2> HIDE DEF c, f
  <2> QED
    BY <1>3, <1>4, <1>5, <1>8, <2>1 DEF CandidatesShown
<1>10. cache' \in [Layer -> [Session -> CacheState]]
  BY <1>5, <1>1, <1>2 DEF IInv, CacheOK, EndsOK, Set
<1>11. ASSUME NEW m \in Layer, NEW t \in Session PROVE CandidatesShown(m, t)'
  <2>1. CASE m = l /\ t = s
    BY <1>9, <2>1
  <2>2. CASE m = l /\ t # s
    BY <1>1, <1>5, <2>2, OneSuffix DEF CandidatesShown, Transient, OthersStay
  <2>3. CASE m # l
    BY <1>5, <1>8, <2>3, CandidatesStay DEF CInv
  <2> QED
    BY <2>1, <2>2, <2>3
<1> QED
  BY <1>1, <1>8, <1>10, <1>11 DEF CInv

(* A discarded suffix leaves no other. *)
LEMMA DiscardTransientCaller ==
  ASSUME IInv, IInv', CInv, NEW l \in Layer, NEW s \in Session, DiscardTransient(l, s)
  PROVE  CInv'
<1> DEFINE d == Shortened(cache[l][s], cache[l][s].length)
           g == Aged(candidates[l], s, 0)
<1>1. /\ Transient(l, s) /\ Set(l, s, d) /\ candidates' = [candidates EXCEPT ![l] = g]
      /\ writes' = writes
  BY DEF DiscardTransient
<1>2. /\ candidates \in [Layer -> [Candidate -> Record]] /\ candidates[l] \in [Candidate -> Record]
      /\ cache \in [Layer -> [Session -> CacheState]]
  BY DEF CInv
<1>3. d.transientStart = None
  BY DEF Shortened, EmptyCache
<1> HIDE DEF d
<1>4. /\ cache'[l][s] = d /\ OthersStay(l, s) /\ \A m \in Layer : m # l => cache'[m] = cache[m]
  BY <1>1, OneCache
<1>5. g \in [Candidate -> Record]
  BY <1>2, AgedIs
<1> HIDE DEF g
<1>6. /\ candidates' \in [Layer -> [Candidate -> Record]]
      /\ \A m \in Layer : m # l => candidates'[m] = candidates[m]
  BY <1>1, <1>2, <1>5
<1>7. cache' \in [Layer -> [Session -> CacheState]]
  BY <1>4, <1>1, <1>2 DEF IInv, CacheOK, EndsOK, Set
<1>8. ASSUME NEW m \in Layer, NEW t \in Session PROVE CandidatesShown(m, t)'
  <2>1. CASE m = l /\ t = s
    BY <1>3, <1>4, <2>1 DEF CandidatesShown, Transient
  <2>2. CASE m = l /\ t # s
    BY <1>1, <1>4, <2>2, OneSuffix DEF CandidatesShown, Transient, OthersStay
  <2>3. CASE m # l
    BY <1>4, <1>6, <2>3, CandidatesStay DEF CInv
  <2> QED
    BY <2>1, <2>2, <2>3
<1> QED
  BY <1>1, <1>6, <1>7, <1>8 DEF CInv

(* A release takes the rows of its own session only. *)
LEMMA ReleaseCaller ==
  ASSUME IInv, IInv', CInv, NEW s \in Session, Release(s)
  PROVE  CInv'
<1>1. /\ candidates' = [l \in Layer |-> Aged(candidates[l], s, 0)]
      /\ cache' = [l \in Layer |-> [cache[l] EXCEPT ![s] = EmptyCache]]
      /\ writes' = writes
  BY DEF Release
<1>2. \A l \in Layer : candidates[l] \in [Candidate -> Record]
      /\ cache[l] \in [Session -> CacheState]
  BY DEF CInv
<1>3. EmptyCache \in CacheState
  BY DEF EmptyCache, CacheState
<1>4. \A l \in Layer :
        /\ Aged(candidates[l], s, 0) \in [Candidate -> Record]
        /\ StillThere(Candidate, candidates[l], Aged(candidates[l], s, 0), s, 0)
  BY <1>2, AgedIs
<1>5. /\ candidates' \in [Layer -> [Candidate -> Record]]
      /\ \A l \in Layer : StillThere(Candidate, candidates[l], candidates'[l], s, 0)
  BY <1>1, <1>4
<1>6. cache' \in [Layer -> [Session -> CacheState]]
  BY <1>1, <1>2, <1>3
<1>7. ASSUME NEW l \in Layer, NEW t \in Session PROVE CandidatesShown(l, t)'
  <2>1. CASE t = s
    BY <1>1, <1>2, <2>1 DEF CandidatesShown, Transient, EmptyCache
  <2>2. CASE t # s
    <3> DEFINE c == cache[l][t]
    <3>1. cache'[l][t] = c /\ CandidatesShown(l, t) /\ EndsOK(c, Capacity[t])
      BY <1>1, <1>2, <2>2 DEF CInv, IInv, CacheOK
    <3>2. SUFFICES ASSUME c.transientStart # None
                   PROVE  /\ c.stepEnd - c.transientStart <= CandidateSlots
                          /\ \A i \in Nat : c.transientStart <= i /\ i < c.written
                               => candidates'[l][1 + i - c.transientStart] = <<t, i>>
      BY <3>1 DEF CandidatesShown, Transient
    <3>3. /\ c.stepEnd - c.transientStart <= CandidateSlots
          /\ \A i \in Nat : c.transientStart <= i /\ i < c.written
               => candidates[l][1 + i - c.transientStart] = <<t, i>>
      BY <3>1, <3>2 DEF CandidatesShown, Transient
    <3>4. /\ c.transientStart \in Nat /\ c.stepEnd \in Nat /\ c.written \in Nat
          /\ c.written <= c.stepEnd /\ CandidateSlots \in Nat
      BY <3>1, <3>2, PoolAssumption DEF EndsOK, CacheState
    <3> HIDE DEF c
    <3>5. ASSUME NEW i \in Nat, c.transientStart <= i, i < c.written
          PROVE  candidates'[l][1 + i - c.transientStart] = <<t, i>>
      <4> DEFINE x == 1 + i - c.transientStart
      <4>1. x \in Candidate /\ candidates[l][x] = <<t, i>>
        BY <3>3, <3>4, <3>5 DEF Candidate
      <4> HIDE DEF x
      <4> QED
        BY <1>5, <2>2, <4>1 DEF StillThere, x
    <3> QED
      BY <3>3, <3>5
  <2> QED
    BY <2>1, <2>2
<1> QED
  BY <1>1, <1>5, <1>6, <1>7 DEF CInv

(* Any step. *)
LEMMA NextCaller ==
  ASSUME IInv, IInv', CInv, [Next]_vars
  PROVE  CInv'
<1>1. MaxInflight \in Nat /\ Len(writes) <= MaxInflight /\ writes \in Seq(Ticketed)
  BY PoolAssumption DEF CInv, IInv, Shaped
<1>2. ASSUME NEW l \in Layer, NEW s \in Session, Step(l, s) PROVE CInv'
  <2>1. \A count \in 1 .. Capacity[s] : count \in Nat \ {0}
    BY PoolAssumption
  <2>2. \A length \in 0 .. Capacity[s] : length \in Nat
    BY PoolAssumption
  <2>3. CASE \/ \E count \in 1 .. Capacity[s] :
                  \/ BeginStep(l, s, count) \/ BeginTransient(l, s, count)
                  \/ AppendRecords(l, s, count) \/ AppendFails(l, s, count)
                  \/ PreparePrefetch(l, s, count)
             \/ \E selection \in SUBSET (0 .. Capacity[s] + CandidateSlots - 1) :
                  \/ \E uncounted \in BOOLEAN : Ensure(l, s, selection, uncounted)
                  \/ EnsureFails(l, s, selection)
             \/ \E i \in Index(s) : Claim(l, s, i)
             \/ FinalizePrefetch(l, s)
             \/ Commit(l, s) \/ Rollback(l, s) \/ RollbackRefused(l, s)
             \/ \E length \in 0 .. Capacity[s] : Truncate(l, s, length)
    BY <2>1, <2>2, <2>3, StepsOfCaller, Zenon
  <2>4. CASE \E count \in 1 .. Capacity[s] : AppendTransient(l, s, count)
    BY <2>1, <2>4, AppendTransientCaller
  <2>5. CASE DiscardTransient(l, s)
    BY <2>5, DiscardTransientCaller
  <2> QED
    BY <1>2, <2>3, <2>4, <2>5, Zenon DEF Step
<1>3. ASSUME NEW s \in Session, Allocate(s) PROVE CInv'
  BY <1>3, <1>1, CallerRests DEF Allocate
<1>4. ASSUME NEW s \in Session, Release(s) PROVE CInv'
  BY <1>4, ReleaseCaller
<1>5. CASE HostWrite
  BY <1>5, <1>1, HeadTailProperties, LenProperties, CallerRests DEF HostWrite
<1>6. ASSUME NEW k \in DOMAIN snapshots, TakeSnapshot(k) PROVE CInv'
  BY <1>6, <1>1, CallerRests DEF TakeSnapshot
<1>7. ASSUME NEW k \in DOMAIN snapshots, Restore(k) PROVE CInv'
  <2>1. /\ cache' = [l \in Layer |-> [s \in Session |->
                       Shortened(cache[l][s], snapshots[k].length[l][s])]]
        /\ candidates' = candidates /\ writes' = writes
    BY <1>7 DEF Restore
  <2>2. \A l \in Layer, s \in Session : cache'[l][s] \in CacheState
    BY DEF IInv, CacheOK, EndsOK
  <2>3. cache' \in [Layer -> [Session -> CacheState]]
    BY <2>1, <2>2
  <2>4. \A l \in Layer, s \in Session : cache'[l][s].transientStart = None
    BY <2>1 DEF Shortened, EmptyCache
  <2>5. \A l \in Layer, s \in Session : CandidatesShown(l, s)'
    BY <2>4 DEF CandidatesShown, Transient
  <2> QED
    BY <1>1, <2>1, <2>3, <2>5 DEF CInv
<1>8. CASE UNCHANGED vars
  BY <1>8, <1>1, CallerRests DEF vars
<1> QED
  BY <1>2, <1>3, <1>4, <1>5, <1>6, <1>7, <1>8 DEF Next

(* At first every cache is empty, and no row holds a transient suffix. *)
LEMMA InitCaller ==
  ASSUME Init
  PROVE  CInv
<1>1. EmptyCache \in CacheState
  BY DEF EmptyCache, CacheState
<1>2. Stale \in Record
  BY DEF Record
<1>3. /\ cache = [l \in Layer |-> [s \in Session |-> EmptyCache]]
      /\ candidates = [l \in Layer |-> [c \in Candidate |-> Stale]]
      /\ writes = <<>>
  BY DEF Init
<1>4. \A l \in Layer, s \in Session : CandidatesShown(l, s)
  BY <1>3 DEF CandidatesShown, Transient, EmptyCache
<1>5. Len(<<>>) <= MaxInflight
  BY PoolAssumption
<1> QED
  BY <1>1, <1>2, <1>3, <1>4, <1>5 DEF CInv

(* What the caches and the candidate rows of a transient suffix hold. *)
THEOREM CallerInvariant == Spec => []CInv
<1>1. Init => CInv
  BY InitCaller
<1>2. IInv /\ IInv' /\ CInv /\ [Next]_vars => CInv'
  BY NextCaller
<1> QED
  BY <1>1, <1>2, Invariant, PTL DEF Spec

-----------------------------------------------------------------------------
(* What a call finds. *)

(* The types of every variable, and the order of the ends of a step, where *)
(* steps are serialised and a caller keeps at most one snapshot.           *)
THEOREM TypesStay ==
  ASSUME SerialSteps, Snapshots \in {0, 1}
  PROVE  Spec => []TypeOK
<1>1. ASSUME IInv, DInv, CInv PROVE TypeOK
  <2>1. /\ session \in [Session -> {"new", "live", "released"}]
        /\ pages \in [Session -> Seq(Page)] /\ freePages \in Seq(Page)
    BY <1>1 DEF IInv, AllocationOK
  <2>2. \A l \in Layer : pool[l] \in LayerState
    BY <1>1 DEF DInv, LayerSound, LayerOK
  <2>3. /\ cache \in [Layer -> [Session -> CacheState]]
        /\ candidates \in [Layer -> [Candidate -> Record]] /\ Len(writes) <= MaxInflight
    BY <1>1 DEF CInv
  <2>4. \A l \in Layer, s \in Session :
          LET c == cache[l][s] IN
          /\ c.length <= Capacity[s]
          /\ c.stepEnd # None => c.length <= c.written /\ c.written <= c.stepEnd
          /\ c.transientStart # None => c.transientStart = c.length /\ c.stepEnd # None
    BY <1>1 DEF IInv, CacheOK, EndsOK
  <2>5. transient \in [Layer -> Session \cup {None}]
    BY <1>1 DEF IInv, Shaped
  <2>6. prefetch # None => prefetch \in Workspace
    BY SlotsAssumption, SeqDef, <1>1 DEF DInv, PrefetchOK, PrefetchState, Workspace
  <2>7. \A w \in Range(writes) : Ticket(w)
    <3>1. SUFFICES ASSUME NEW k \in DOMAIN writes PROVE Ticket(writes[k])
      BY DEF Range
    <3>2. writes[k] \in Ticketed
      BY <1>1, LenProperties, ElementOfSeq DEF IInv, Shaped
    <3>3. PICK D \in SUBSET Row : writes[k].rows \in [D -> Record]
      BY <3>2 DEF Ticketed
    <3> QED
      BY <3>2, <3>3 DEF Ticketed, Ticket, Range
  <2>8. \A k \in DOMAIN snapshots : snapshots[k] # None => snapshots[k] \in
          [topology : [Session -> {"new", "live", "released"}], valid : BOOLEAN,
           layers : [Layer -> LayerState], length : [Layer -> [Session -> Nat]]]
    BY <1>1 DEF DInv, SnapshotsOK, SnapshotOK
  <2> QED
    BY <2>1, <2>2, <2>3, <2>4, <2>5, <2>6, <2>7, <2>8 DEF TypeOK
<1> QED
  BY <1>1, Invariant, DeviceInvariant, CallerInvariant, PTL

(* ensure returns, for every selected token, a device row that holds its   *)
(* record, whatever was evicted, claimed, copied or rolled back before.    *)
THEOREM RecallsDeliver ==
  ASSUME SerialSteps, Snapshots \in {0, 1}
  PROVE  Spec => EnsureDelivers
<1> DEFINE Delivered(l, s, i) ==
             IF i < Persistent(l, s)
               THEN LET x == pool'[l].h2d[HostRow(s, i)] IN
                    x # None /\ pool'[l].records[x] = <<s, i>>
               ELSE candidates[l][1 + i - cache[l][s].transientStart] = <<s, i>>
<1>1. ASSUME IInv, DInv, CInv, NEW l \in Layer, NEW s \in Session,
             NEW selection \in SUBSET (0 .. cache[l][s].written - 1), NEW uncounted \in BOOLEAN,
             Ensure(l, s, selection, uncounted), NEW i \in selection
      PROVE  Delivered(l, s, i)
  <2> DEFINE indices == History(l, s, selection)
             M == Recalled(l, s, indices, uncounted)
             p == Persistent(l, s)
             r == HostRow(s, i)
  <2>1. /\ EnsureMayRun(l, s, selection) /\ RecallWaits(l, s, indices)
        /\ pool' = [pool EXCEPT ![l] = M]
    BY <1>1 DEF Ensure
  <2>2. selection \in SUBSET Nat /\ i \in Nat /\ i < cache[l][s].written
    BY <1>1 DEF IInv, CacheOK, EndsOK, CacheState
  <2>3. /\ s \in Live /\ ~cache[l][s].failed
        /\ \A j \in indices : j \in 0 .. Capacity[s] - 1 /\ HostRow(s, j) \in Row
    BY <1>1, <2>1, <2>2, EnsureMayAssume
  <2>4. LayerOK(M, {}) /\ Recalls(l, s, indices, M)
    BY <1>1, <2>1, <2>2, RecalledIs
  <2>5. pool'[l] = M
    BY <1>1, <2>1 DEF IInv, Shaped
  <2>6. CASE i < p
    <3>1. i \in indices
      BY <1>1, <2>6 DEF History
    <3> HIDE DEF M, indices
    <3>2. PICK x \in Slot :
            /\ M.h2d[r] = x
            /\ M.records[x] = pool[l].records[x] \/ M.records[x] = <<s, i>>
            /\ M.records[x] = <<s, i>> \/ pool[l].h2d[r] = x
      BY <2>4, <3>1 DEF Recalls
    <3>3. M.records[x] = <<s, i>>
      BY <3>2, <1>1, <2>3, <3>1, NoneIsNone, RowsAreApart, <2>6 DEF DInv, LayerSound, LayerOK,
         Mirrors, Shows, IInv, ShowsOf
    <3> QED
      BY <2>5, <2>6, <3>2, <3>3, NoneIsNone
  <2>7. CASE ~(i < p)
    <3>1. Transient(l, s) /\ cache[l][s].transientStart = p
      BY <2>2, <2>7 DEF Persistent
    <3>2. p \in Nat
      BY <1>1, <2>1, <2>2, EnsureMayAssume
    <3>3. CandidatesShown(l, s) /\ p <= i
      BY <1>1, <2>2, <2>7, <3>2 DEF CInv
    <3> QED
      BY <2>2, <2>7, <3>1, <3>3 DEF CandidatesShown
  <2> QED
    BY <2>6, <2>7
<1>2. \A l \in Layer, s \in Session :
        \A selection \in SUBSET (0 .. cache[l][s].written - 1), uncounted \in BOOLEAN :
          IInv /\ DInv /\ CInv /\ Ensure(l, s, selection, uncounted)
            => \A i \in selection : Delivered(l, s, i)
  BY <1>1
<1> HIDE DEF Delivered
<1>3. IInv /\ DInv /\ CInv =>
        [UNCHANGED cache => \A l \in Layer, s \in Session :
           \A selection \in SUBSET (0 .. cache[l][s].written - 1), uncounted \in BOOLEAN :
             Ensure(l, s, selection, uncounted) =>
               \A i \in selection : Delivered(l, s, i)]_vars
  BY <1>2
<1> QED
  BY <1>3, Invariant, DeviceInvariant, CallerInvariant, PTL DEF EnsureDelivers, Delivered

(* The native paths take an empty slot for every row of a sole session     *)
(* that is not mapped, and there are enough of them: no slot is mapped to  *)
(* a row of anybody else, and none of two slots to one row.                *)
THEOREM RoomForSoleSession ==
  ASSUME SerialSteps, Snapshots \in {0, 1}
  PROVE  Spec => []SoleSessionHasRoom
<1>1. ASSUME IInv, DInv PROVE SoleSessionHasRoom
  <2>1. SUFFICES ASSUME NEW l \in Layer, NEW s \in Live,
                        Live = {s}, ~cache[l][s].failed, Persistent(l, s) <= Slots
                 PROVE  Cardinality({x \in Slot : pool[l].d2h[x] = None})
                          >= Slots - Persistent(l, s)
                               + Cardinality(Missing(pool[l],
                                               HostRows(s, 0 .. Persistent(l, s) - 1)))
    BY DEF SoleSessionHasRoom
  <2> DEFINE p == Persistent(l, s)
             I == 0 .. p - 1
             mi == Unmapped(l, s, I)
             found == I \ mi
             f == [i \in I |-> pool[l].h2d[HostRow(s, i)]]
             g == [i \in I |-> HostRow(s, i)]
             E == {x \in Slot : pool[l].d2h[x] = None}
             U == Slot \ E
             T == {f[i] : i \in found}
             V == Missing(pool[l], HostRows(s, I))
  <2>2. p \in Nat /\ Capacity[s] \in Nat /\ p <= Capacity[s] /\ s \in Session
    BY <1>1, EndsOf DEF EndsOK, HostEnd, CacheState
  <2>3. IsFiniteSet(I) /\ Cardinality(I) = p
    <3> HIDE DEF p
    <3> DEFINE q == p - 1
    <3>1. q \in Int /\ 0 \in Int /\ (IF 0 > q THEN 0 ELSE q - 0 + 1) = p
      BY <2>2
    <3> HIDE DEF q
    <3>2. IsFiniteSet(0 .. q) /\ Cardinality(0 .. q) = p
      BY <3>1, FS_Interval
    <3> QED
      BY <3>2 DEF q, I
  <2>4. mi \in SUBSET I
    BY DEF Unmapped
  <2>5. V = {g[i] : i \in mi}
    BY DEF Missing, HostRows, Unmapped
  <2>6. U \in SUBSET T
    BY <1>1, <2>1, <2>2, IndexHasRow, NoneIsNone DEF DInv, LayerSound, LayerOK, Shows,
       ShowsOf, IInv, Mirrors, Unmapped
  <2> HIDE DEF mi, f, g, I, p
  <2>7. /\ IsFiniteSet(mi) /\ IsFiniteSet(found) /\ Cardinality(mi) \in Nat
        /\ Cardinality(found) = p - Cardinality(mi) /\ Cardinality(found) \in Nat
    <3>1. IsFiniteSet(mi) /\ IsFiniteSet(found)
      BY <2>3, <2>4, FS_Subset, FS_Difference
    <3>2. I \cap mi = mi
      BY <2>4
    <3>3. Cardinality(found) = Cardinality(I) - Cardinality(I \cap mi)
      BY <2>3, <3>1, FS_Difference
    <3> QED
      BY <2>3, <3>1, <3>2, <3>3, FS_CardinalityType
  <2>8. Cardinality(V) <= Cardinality(mi) /\ Cardinality(V) \in Nat
    BY <2>5, <2>7, ImagesCount
  <2>9. Cardinality(T) <= Cardinality(found) /\ IsFiniteSet(T) /\ Cardinality(T) \in Nat
    <3> HIDE DEF found
    <3> QED
      BY <2>7, ImagesCount
  <2>10. Cardinality(U) <= Cardinality(T) /\ Cardinality(U) \in Nat
    <3> HIDE DEF T, U
    <3>1. Cardinality(U) <= Cardinality(T) /\ IsFiniteSet(U)
      BY <2>6, <2>9, FS_Subset
    <3> QED
      BY <3>1, FS_CardinalityType
  <2>11. Cardinality(U) = Slots - Cardinality(E) /\ Cardinality(E) \in Nat
    <3>1. E \in SUBSET Slot
      OBVIOUS
    <3> HIDE DEF E
    <3>2. Slot \cap E = E /\ IsFiniteSet(E) /\ Cardinality(E) \in Nat /\ IsFiniteSet(Slot)
      BY <3>1, SlotsAreFinite
    <3>3. Cardinality(Slot \ E) = Cardinality(Slot) - Cardinality(Slot \cap E)
      BY <3>2, FS_Difference
    <3> QED
      BY <3>2, <3>3, SlotsAreFinite
  <2> HIDE DEF E, U, T, V, found
  <2>12. Cardinality(E) >= Slots - p + Cardinality(V)
    BY <2>2, <2>7, <2>8, <2>9, <2>10, <2>11, SlotsAreFinite
  <2> QED
    BY <2>12 DEF E, V, I, p
<1> QED
  BY <1>1, Invariant, DeviceInvariant, PTL

-----------------------------------------------------------------------------
(* The FIFO order. *)

(* Slots whose ages no event has touched. *)
LEMMA FifoUntouched ==
  ASSUME NEW L, NEW M,
         \A x \in Slot : L.d2h[x] # None /\ M.d2h[x] = L.d2h[x] => M.priority[x] = L.priority[x]
  PROVE  FifoKept(L, M)
  BY DEF FifoKept

(* One layer moves, the others do not. *)
LEMMA FifoOneLayer ==
  ASSUME IInv, NEW l \in Layer, NEW M, pool' = [pool EXCEPT ![l] = M], FifoKept(pool[l], M)
  PROVE  \A m \in Layer : FifoKept(pool[m], pool'[m])
<1>1. pool'[l] = M /\ \A m \in Layer : m # l => pool'[m] = pool[m]
  BY DEF IInv, Shaped
<1> QED
  BY <1>1, FifoUntouched

(* The calls that begin or end something without an event of the clock. *)
LEMMA QuietFifo ==
  ASSUME IInv, DInv, NEW l \in Layer, NEW s \in Session,
         \/ \E count \in Nat \ {0} : \/ BeginStep(l, s, count) \/ BeginTransient(l, s, count)
                                     \/ AppendTransient(l, s, count)
         \/ \E i \in Index(s) : Claim(l, s, i)
         \/ Commit(l, s) \/ RollbackRefused(l, s)
         \/ \E length \in Nat : Truncate(l, s, length)
  PROVE  \A m \in Layer : FifoKept(pool[m], pool'[m])
<1> DEFINE G == Leased(pool[l], s)
<1>1. pool[l] \in LayerState
  BY DEF DInv, LayerSound, LayerOK
<1>2. G \in LayerState /\ SameMaps(pool[l], G)
  BY <1>1, LeasedIs
<1>3. ASSUME NEW n \in Nat, NEW L \in {pool[l], G},
             pool' = [pool EXCEPT ![l] = Superseded(L, s, n)]
      PROVE  \A m \in Layer : FifoKept(pool[m], pool'[m])
  <2> DEFINE M == Superseded(L, s, n)
  <2>1. L \in LayerState /\ SameMaps(pool[l], L)
    BY <1>1, <1>2, <1>3 DEF SameMaps
  <2>2. SameMaps(L, M)
    BY <2>1, SupersededIs
  <2> HIDE DEF G
  <2>3. FifoKept(pool[l], M)
    BY <2>1, <2>2, FifoUntouched DEF SameMaps
  <2> QED
    BY <1>3, <2>3, FifoOneLayer
<1>4. ASSUME NEW count \in Nat \ {0}, BeginStep(l, s, count) \/ BeginTransient(l, s, count)
      PROVE  \A m \in Layer : FifoKept(pool[m], pool'[m])
  <2>1. cache[l][s].length \in Nat
    BY DEF IInv, CacheOK, EndsOK, CacheState
  <2>2. \/ pool' = [pool EXCEPT ![l] = Superseded(pool[l], s, cache[l][s].length)]
        \/ pool' = [pool EXCEPT ![l] = Superseded(G, s, cache[l][s].length)]
    BY <1>4, Zenon DEF BeginStep, BeginTransient
  <2> HIDE DEF G
  <2> QED
    BY <1>3, <2>1, <2>2
<1>5. ASSUME NEW count, AppendTransient(l, s, count)
      PROVE  \A m \in Layer : FifoKept(pool[m], pool'[m])
  <2>1. pool' = [pool EXCEPT ![l] = G]
    BY <1>5, Zenon DEF AppendTransient
  <2> HIDE DEF G
  <2>2. FifoKept(pool[l], G)
    BY <1>2, FifoUntouched DEF SameMaps
  <2> QED
    BY <2>1, <2>2, FifoOneLayer
<1>6. ASSUME NEW i \in Index(s), Claim(l, s, i)
      PROVE  \A m \in Layer : FifoKept(pool[m], pool'[m])
  <2> DEFINE L == pool[l]
             x == prefetch.order[prefetch.claimed + 1]
             U == [L EXCEPT !.h2d = Filled(@, {L.d2h[x]} \ {None}, None)]
             M == [U EXCEPT !.h2d[HostRow(s, i)] = x, !.d2h[x] = HostRow(s, i),
                            !.records[x] = L.host[HostRow(s, i)]]
  <2>1. pool' = [pool EXCEPT ![l] = M]
    BY <1>6, Zenon DEF Claim
  <2>2. M.priority = L.priority
    BY <1>1, LayerTyped DEF LayerFields
  <2> HIDE DEF M
  <2>3. FifoKept(L, M)
    BY <2>2, FifoUntouched
  <2> QED
    BY <2>1, <2>3, FifoOneLayer
<1>7. ASSUME Commit(l, s) \/ RollbackRefused(l, s)
      PROVE  \A m \in Layer : FifoKept(pool[m], pool'[m])
  BY <1>7, FifoUntouched DEF Commit, RollbackRefused
<1>8. ASSUME NEW length \in Nat, Truncate(l, s, length)
      PROVE  \A m \in Layer : FifoKept(pool[m], pool'[m])
  <2> DEFINE M == Shrunk(G, s, length)
  <2>1. /\ Calls(l, s) /\ ~Stepping(l, s) /\ Usable(l, s)
        /\ pool' = [pool EXCEPT ![l] = M]
    BY <1>8 DEF Truncate
  <2>2. s \in Live /\ ClaimedOf(l) = {}
    BY <2>1, CallerKnows DEF Usable, ClaimedOf
  <2>3. LayerOK(pool[l], {}) /\ Flagged(pool[l], {})
    BY <2>2 DEF DInv, LayerSound
  <2> HIDE DEF G
  <2>4. LayerOK(G, {}) /\ Flagged(G, {})
    BY <1>2, <2>3, SameMapsOK
  <2>5. Shrinks(G, M, s, length)
    BY <2>2, <2>4, ShrunkIs
  <2> HIDE DEF M
  <2>6. FifoKept(pool[l], M)
    BY <1>2, <2>5, FifoUntouched DEF Shrinks, SameMaps
  <2> QED
    BY <2>1, <2>6, FifoOneLayer
<1> QED
  BY <1>4, <1>5, <1>6, <1>7, <1>8

(* The calls with one event of the clock, or with two. *)
LEMMA EventsFifo ==
  ASSUME IInv, DInv, NEW l \in Layer, NEW s \in Session,
         \/ \E count \in Nat \ {0} : \/ AppendRecords(l, s, count) \/ AppendFails(l, s, count)
                                     \/ PreparePrefetch(l, s, count)
         \/ \E selection \in SUBSET Nat :
              \/ \E uncounted \in BOOLEAN : Ensure(l, s, selection, uncounted)
              \/ EnsureFails(l, s, selection)
  PROVE  \A m \in Layer : FifoKept(pool[m], pool'[m])
<1> DEFINE G == Leased(pool[l], s)
<1>1. pool[l] \in LayerState
  BY DEF DInv, LayerSound, LayerOK
<1>2. G \in LayerState /\ SameMaps(pool[l], G)
  BY <1>1, LeasedIs
<1>3. ASSUME NEW count \in Nat \ {0}, AppendMayRun(l, s, count)
      PROVE  FifoKept(pool[l], Appended(l, s, count))
  <2> DEFINE room == AppendRoom(l, s, count)
             M == Appended(l, s, count)
  <2>1. Newest(pool[l], M, Range(room.chosen)) /\ LayerOK(M, {})
    BY <1>3, AppendedIs
  <2>2. room.chosen \in [1 .. count -> Slot]
    BY <1>3, AppendRoomIs
  <2> HIDE DEF room, M
  <2>3. Range(room.chosen) \in SUBSET Slot /\ M \in LayerState
    BY <2>1, <2>2 DEF Range, LayerOK
  <2> QED
    BY <2>1, <2>3, OneEvent DEF M
<1>4. ASSUME NEW count \in Nat \ {0}, AppendRecords(l, s, count)
      PROVE  \A m \in Layer : FifoKept(pool[m], pool'[m])
  BY <1>4, <1>3, FifoOneLayer DEF AppendRecords
<1>5. ASSUME NEW count \in Nat \ {0}, AppendFails(l, s, count)
      PROVE  \A m \in Layer : FifoKept(pool[m], pool'[m])
  <2> DEFINE A == Appended(l, s, count)
             room == AppendRoom(l, s, count)
             R == room.pool
  <2>1. AppendMayRun(l, s, count) /\ \E M \in {G, R, A} : pool' = [pool EXCEPT ![l] = M]
    BY <1>5, Zenon DEF AppendFails
  <2>2. FifoKept(pool[l], A)
    BY <1>3, <2>1
  <2>3. Emptied(pool[l], R, Range(room.chosen))
    BY <2>1, AppendRoomIs
  <2> HIDE DEF A, R, G, room
  <2>4. FifoKept(pool[l], R)
    BY <2>3, FifoUntouched DEF Emptied
  <2>5. FifoKept(pool[l], G)
    BY <1>2, FifoUntouched DEF SameMaps
  <2> QED
    BY <2>1, <2>2, <2>4, <2>5, FifoOneLayer
<1>6. ASSUME NEW count \in Nat \ {0}, PreparePrefetch(l, s, count)
      PROVE  \A m \in Layer : FifoKept(pool[m], pool'[m])
  <2>1. /\ Calls(l, s) /\ ~Pending(l, s) /\ Usable(l, s)
        /\ \/ pool' = [pool EXCEPT ![l] = Stamped(G, {})]
           \/ pool' = [pool EXCEPT ![l] = Invalidated(G)]
    BY <1>6 DEF PreparePrefetch
  <2> HIDE DEF G
  <2>2. CASE pool' = [pool EXCEPT ![l] = Stamped(G, {})]
    <3> DEFINE M == Stamped(G, {})
    <3>1. {} \in SUBSET Slot /\ \A x \in {} : G.d2h[x] # None
      OBVIOUS
    <3>2. ClaimedOf(l) = {}
      BY <2>1 DEF Usable, ClaimedOf
    <3>3. LayerOK(G, {})
      BY <1>2, <3>2, SameMapsOK DEF DInv, LayerSound
    <3>4. LayerOK(M, {} \ {}) /\ Newest(G, M, {})
      BY <3>1, <3>3, StampedIs
    <3> HIDE DEF M
    <3>5. M \in LayerState
      BY <3>4 DEF LayerOK
    <3>6. Newest(pool[l], M, {})
      BY <1>1, <1>2, <3>1, <3>4, <3>5, NewestFrom DEF SameMaps
    <3>7. FifoKept(pool[l], M)
      BY <3>1, <3>5, <3>6, OneEvent
    <3> QED
      BY <2>2, <3>7, FifoOneLayer DEF M
  <2>3. CASE pool' = [pool EXCEPT ![l] = Invalidated(G)]
    BY <1>2, InvalidatedIs, FifoUntouched, <2>3, FifoOneLayer DEF SameMaps
  <2> QED
    BY <2>1, <2>2, <2>3
<1>7. ASSUME NEW selection \in SUBSET Nat, NEW uncounted \in BOOLEAN,
             Ensure(l, s, selection, uncounted)
      PROVE  \A m \in Layer : FifoKept(pool[m], pool'[m])
  <2> DEFINE indices == History(l, s, selection)
             M == Recalled(l, s, indices, uncounted)
  <2>1. /\ EnsureMayRun(l, s, selection) /\ RecallWaits(l, s, indices)
        /\ pool' = [pool EXCEPT ![l] = M]
    BY <1>7 DEF Ensure
  <2>2. TwiceNewest(pool[l], M)
    BY <1>7, <2>1, RecalledIs
  <2> HIDE DEF M, indices
  <2> QED
    BY <2>1, <2>2, TwoEvents, FifoOneLayer
<1>8. ASSUME NEW selection \in SUBSET Nat, EnsureFails(l, s, selection)
      PROVE  \A m \in Layer : FifoKept(pool[m], pool'[m])
  BY <1>8, EnsureFailsLeaves, FifoOneLayer
<1> QED
  BY <1>4, <1>5, <1>6, <1>7, <1>8

(* The ends of a prefetch. *)
LEMMA SettlingFifo ==
  ASSUME IInv, DInv, NEW l \in Layer, NEW s \in Session,
         FinalizePrefetch(l, s) \/ Rollback(l, s) \/ DiscardTransient(l, s)
  PROVE  \A m \in Layer : FifoKept(pool[m], pool'[m])
<1> DEFINE N == Settled(l, s)
           L == Leased(N, s)
<1>1. CASE FinalizePrefetch(l, s)
  <2>1. Pending(l, s) /\ pool' = [pool EXCEPT ![l] = N]
    BY <1>1 DEF FinalizePrefetch
  <2>2. LayerOK(N, {}) /\ \E S \in SUBSET Slot : Newest(pool[l], N, S) \/ SameMaps(pool[l], N)
    BY <2>1, SettledIs
  <2> HIDE DEF N
  <2>3. FifoKept(pool[l], N)
    BY <2>2, OneEvent DEF LayerOK
  <2> QED
    BY <2>1, <2>3, FifoOneLayer
<1>2. CASE Rollback(l, s) \/ DiscardTransient(l, s)
  <2>1. /\ MayStep(s) /\ Usable(l, s) /\ prefetch' = WithoutPending(s)
        /\ \/ pool' = [pool EXCEPT ![l] = Shrunk(L, s, cache[l][s].length)]
           \/ pool' = [pool EXCEPT ![l] = L]
    BY <1>2 DEF Rollback, DiscardTransient
  <2>2. Pending(l, s) \/ ClaimedOf(l) = {}
    BY <2>1, WorkspaceGivenUp
  <2>3. /\ LayerOK(L, {}) /\ Flagged(L, {}) /\ L.d2h = pool[l].d2h
        /\ \E S \in SUBSET Slot : Newest(pool[l], L, S) \/ SameMaps(pool[l], L)
    BY <2>2, GivenUp
  <2> HIDE DEF L
  <2>4. PICK S \in SUBSET Slot : Newest(pool[l], L, S) \/ SameMaps(pool[l], L)
    BY <2>3
  <2>5. CASE pool' = [pool EXCEPT ![l] = L]
    <3>1. FifoKept(pool[l], L)
      BY <2>3, <2>4, OneEvent DEF LayerOK
    <3> QED
      BY <2>5, <3>1, FifoOneLayer
  <2>6. CASE pool' = [pool EXCEPT ![l] = Shrunk(L, s, cache[l][s].length)]
    <3> DEFINE M == Shrunk(L, s, cache[l][s].length)
    <3>1. s \in Live /\ cache[l][s].length \in Nat
      BY <2>1, EndsOf DEF MayStep
    <3>2. Shrinks(L, M, s, cache[l][s].length)
      BY <2>3, <3>1, ShrunkIs
    <3> HIDE DEF M
    <3>3. FifoKept(pool[l], M)
      <4>1. \A x \in Slot : M.d2h[x] # None /\ M.d2h[x] = pool[l].d2h[x]
              => M.priority[x] = L.priority[x]
        BY <3>2 DEF Shrinks
      <4>2. M.clock = L.clock /\ L \in LayerState
        BY <2>3, <3>2 DEF Shrinks, LayerOK
      <4> QED
        BY <2>4, <4>1, <4>2, OneEvent
    <3> QED
      BY <2>6, <3>3, FifoOneLayer DEF M
  <2> QED
    BY <2>1, <2>5, <2>6
<1> QED
  BY <1>1, <1>2

(* A release ends a prefetch and empties the session's slots. *)
LEMMA ReleaseFifo ==
  ASSUME IInv, DInv, NEW s \in Session, Release(s)
  PROVE  \A l \in Layer : FifoKept(pool[l], pool'[l])
<1> DEFINE Given(l) == IF Transient(l, s) THEN Leased(Settled(l, s), s) ELSE Settled(l, s)
           Freed(l) == Released(Given(l), ReleasedRows(s))
           Left(l) == Superseded(Freed(l), s, 0)
<1>1. /\ MayStep(s) /\ (prefetch # None => prefetch.owner = s)
      /\ pool' = [l \in Layer |-> Left(l)]
  BY Zenon DEF Release
<1>2. ASSUME NEW l \in Layer PROVE FifoKept(pool[l], pool'[l])
  <2> DEFINE G == Given(l)
             S == Freed(l)
             N == Left(l)
             rows == ReleasedRows(s)
  <2>1. Pending(l, s) \/ ClaimedOf(l) = {}
    BY <1>1 DEF Pending, ClaimedOf
  <2>2. /\ LayerOK(G, {}) /\ Flagged(G, {})
        /\ \E T \in SUBSET Slot : Newest(pool[l], G, T) \/ SameMaps(pool[l], G)
    BY <2>1, SettledIs, GivenUp
  <2> HIDE DEF G
  <2>3. rows \in SUBSET Row
    BY <1>1, ReleasedRowsAreRows DEF MayStep
  <2> HIDE DEF rows
  <2>4. S = Released(G, rows)
    BY DEF S, G, rows
  <2> HIDE DEF S
  <2>5. LayerOK(S, {}) /\ Emptied(G, S, Mapped(G, rows))
    BY <2>2, <2>3, <2>4, ReleasedIs
  <2>6. N = Superseded(S, s, 0)
    BY DEF N, S
  <2> HIDE DEF N
  <2>7. SameMaps(S, N)
    BY <2>5, <2>6, SupersededIs DEF LayerOK
  <2>8. pool'[l] = N
    BY <1>1 DEF N
  <2>9. /\ N.clock = G.clock
        /\ \A x \in Slot : N.d2h[x] # None /\ N.d2h[x] = pool[l].d2h[x]
                           => N.priority[x] = G.priority[x]
    BY <2>5, <2>7 DEF SameMaps, Emptied
  <2>10. PICK T \in SUBSET Slot : Newest(pool[l], G, T) \/ SameMaps(pool[l], G)
    BY <2>2
  <2>11. G \in LayerState
    BY <2>2 DEF LayerOK
  <2>12. FifoKept(pool[l], N)
    <3> DEFINE K == pool[l]
    <3>1. /\ Newest(K, G, T) \/ SameMaps(K, G)
          /\ \A x \in Slot : N.d2h[x] # None /\ N.d2h[x] = K.d2h[x]
                             => N.priority[x] = G.priority[x]
      BY <2>9, <2>10
    <3>2. N.clock = G.clock
      BY <2>9
    <3> HIDE DEF K
    <3>3. FifoKept(K, N)
      BY <2>11, <3>1, <3>2, OneEvent, SMTT(30)
    <3> QED
      BY <3>3 DEF K
  <2> QED
    BY <2>8, <2>12
<1> QED
  BY <1>2

(* Any step, where no snapshot brings earlier ages back. *)
LEMMA NextFifo ==
  ASSUME Snapshots = 0, IInv, DInv, [Next]_vars
  PROVE  \A l \in Layer : FifoKept(pool[l], pool'[l])
<1>1. CASE \E s \in Session : Allocate(s) \/ Release(s)
  BY FifoUntouched, <1>1, ReleaseFifo DEF Allocate
<1>2. CASE \E l \in Layer, s \in Session : Step(l, s)
  <2>1. PICK l \in Layer, s \in Session : Step(l, s)
    BY <1>2
  <2>2. /\ 1 .. Capacity[s] \subseteq Nat \ {0} /\ 0 .. Capacity[s] \subseteq Nat
        /\ SUBSET (0 .. Capacity[s] + CandidateSlots - 1) \subseteq SUBSET Nat
    BY PoolAssumption
  <2>3. \/ \E count \in Nat \ {0} :
             \/ BeginStep(l, s, count) \/ BeginTransient(l, s, count)
             \/ AppendRecords(l, s, count) \/ AppendFails(l, s, count)
             \/ AppendTransient(l, s, count)
             \/ PreparePrefetch(l, s, count)
        \/ \E selection \in SUBSET Nat :
             \/ \E uncounted \in BOOLEAN : Ensure(l, s, selection, uncounted)
             \/ EnsureFails(l, s, selection)
        \/ \E i \in Index(s) : Claim(l, s, i)
        \/ FinalizePrefetch(l, s)
        \/ Commit(l, s) \/ Rollback(l, s) \/ RollbackRefused(l, s) \/ DiscardTransient(l, s)
        \/ \E length \in Nat : Truncate(l, s, length)
    BY <2>1, <2>2, Zenon DEF Step
  <2> QED
    BY <2>3, QuietFifo, EventsFifo, SettlingFifo
<1>3. CASE HostWrite
  <2> DEFINE w == Head(writes)
             g == [r \in DOMAIN pool[w.layer].host |->
                     IF r \in DOMAIN w.rows THEN w.rows[r] ELSE pool[w.layer].host[r]]
  <2>1. pool' = [pool EXCEPT ![w.layer].host = g]
    BY <1>3, Zenon DEF HostWrite, Updated
  <2> HIDE DEF g, w
  <2>2. ASSUME NEW l \in Layer
        PROVE  pool'[l].d2h = pool[l].d2h /\ pool'[l].priority = pool[l].priority
    BY <2>1 DEF IInv, Shaped, LayerShaped, LayerFields
  <2> QED
    BY <2>2, FifoUntouched
<1>4. CASE \E k \in DOMAIN snapshots : TakeSnapshot(k) \/ Restore(k)
  BY <1>4 DEF DInv, SnapshotsOK
<1>5. CASE UNCHANGED vars
  BY <1>5, FifoUntouched DEF vars
<1> QED
  BY <1>1, <1>2, <1>3, <1>4, <1>5 DEF Next

(* Two slots that keep their rows change their FIFO order only by an event *)
(* that makes one of them the newest; a normalisation at PRIORITY_LIMIT    *)
(* changes nothing.  A snapshot would bring earlier ages back.             *)
THEOREM FifoOrderStays ==
  ASSUME SerialSteps, Snapshots = 0
  PROVE  Spec => FifoOrderKept
<1>1. IInv /\ DInv /\ [Next]_vars
        => [\A l \in Layer : FifoKept(pool[l], pool'[l])]_vars
  BY NextFifo
<1>2. Snapshots \in {0, 1}
  OBVIOUS
<1>3. Spec => []DInv
  BY <1>2, DeviceInvariant
<1>4. Spec => [][\A l \in Layer : FifoKept(pool[l], pool'[l])]_vars
  BY <1>1, <1>3, Invariant, PTL DEF Spec
<1> QED
  BY <1>4 DEF FifoOrderKept, FifoKept

-----------------------------------------------------------------------------
(* What the host believes of a layer. *)

Broken(l, s) == cache[l][s].failed /\ ~Transient(l, s)

(* From place n on the slots of q are in order, and older than the others. *)
InOrder(L, q, n) ==
  \A j, k \in 1 .. Slots : n < k =>
    /\ n < j /\ j < k => Older(L, q[j], q[k])
    /\ j <= n => Older(L, q[k], q[j])

(* The residency proof is about rows that are mapped, and, unless a step   *)
(* of its session is to be rolled back, about nothing but its history.     *)
ResidencyOK(l) ==
  LET L == pool[l]
      s == L.resident.owner
      e == L.resident.end IN
  s # None =>
    /\ L.lease = s /\ s \in Live /\ e <= Capacity[s]
    /\ \A i \in 0 .. e - 1 : L.h2d[HostRow(s, i)] # None
    /\ Broken(l, s) \/ e <= Persistent(l, s)

(* The slots of a plan up to its cursor hold the session's history in      *)
(* order; those behind it are what the FIFO search would find.             *)
PlanOK(l) ==
  LET L == pool[l]
      s == L.plan.owner
      n == L.plan.cursor
      q == L.plan.order IN
  s # None =>
    /\ L.lease = s /\ s \in Live /\ n <= Slots /\ n <= Capacity[s]
    /\ \A i \in 0 .. n - 1 : L.h2d[HostRow(s, i)] = q[i + 1]
    /\ Broken(l, s) \/ (n = Persistent(l, s) /\ InOrder(L, q, n))

Retired(L) == L.resident.owner = None /\ L.plan.owner = None

ProofsOK(l) ==
  /\ ResidencyOK(l) /\ PlanOK(l)
  /\ prefetch # None /\ prefetch.layer = l => Retired(pool[l])

GInv == \A l \in Layer : ProofsOK(l)

(* An order stays one when the next slots of it become the newest, and any *)
(* of those before.                                                        *)
LEMMA OrderNewest ==
  ASSUME NEW L, NEW M, LayerOK(L, {}), LayerOK(M, {}), NEW V \in SUBSET Slot, Newest(L, M, V),
         \A x \in Slot \ V : M.d2h[x] = L.d2h[x], \A x \in V : M.d2h[x] # None,
         NEW q, Order(q), NEW n \in Nat, NEW m \in Nat, n <= m, InOrder(L, q, n),
         \A k \in 1 .. Slots : m < k => q[k] \notin V,
         \A k \in 1 .. Slots : n < k /\ k <= m => q[k] \in V
  PROVE  InOrder(M, q, m)
<1>1. /\ L.priority \in [Slot -> -1 .. Limit] /\ M.priority \in [Slot -> -1 .. Limit]
      /\ M.clock \in 0 .. Limit /\ Limit \in Nat /\ AgesOK(L, {}) /\ AgesOK(M, {})
  BY LayerTyped, SlotsAssumption DEF LayerOK
<1>2. ASSUME NEW x \in Slot \ V, NEW y \in Slot \ V, Older(L, x, y)
      PROVE  Older(M, x, y)
  BY <1>1, <1>2 DEF Key, AgesOK, Newest, Older
<1>3. ASSUME NEW x \in Slot \ V, NEW y \in V
      PROVE  Older(M, x, y)
  BY <1>3, <1>1 DEF Newest, Key, AgesOK, Older
<1>4. \A k \in 1 .. Slots : q[k] \in Slot
  BY DEF Order
<1>5. ASSUME NEW j \in 1 .. Slots, NEW k \in 1 .. Slots, m < k
      PROVE  /\ m < j /\ j < k => Older(M, q[j], q[k])
             /\ j <= m => Older(M, q[k], q[j])
  <2>1. q[k] \in Slot \ V /\ n < k
    BY <1>4, <1>5, SlotsAssumption
  <2>2. ASSUME m < j, j < k PROVE Older(M, q[j], q[k])
    BY <1>4, <2>2, SlotsAssumption, <2>1, <1>2 DEF InOrder
  <2>3. ASSUME j <= m PROVE Older(M, q[k], q[j])
    BY <1>3, <2>1, <2>3, SlotsAssumption, <1>4, <1>2 DEF InOrder
  <2> QED
    BY <2>2, <2>3
<1> QED
  BY <1>5 DEF InOrder

(* An order depends on the rows of the slots and on the ages only. *)
LEMMA OrderSame ==
  ASSUME NEW L, NEW M, M.d2h = L.d2h, M.priority = L.priority, NEW q, NEW n, InOrder(L, q, n)
  PROVE  InOrder(M, q, n)
  BY DEF InOrder, Older, Key

(* A layer without proofs. *)
LEMMA RetiredOK ==
  ASSUME NEW l \in Layer, Retired(pool'[l])
  PROVE  ProofsOK(l)'
  BY DEF Retired, ProofsOK, ResidencyOK, PlanOK

(* No session's pages move, and no end of history but of a broken step. *)
HistoryStays(l) ==
  /\ Live \subseteq Live'
  /\ \A t \in Live : /\ \A i \in Nat : HostRow(t, i)' = HostRow(t, i)
                     /\ \/ Broken(l, t)'
                        \/ ~Broken(l, t) /\ Persistent(l, t)' = Persistent(l, t)

(* M has no proof that L has not, and its order is that of L. *)
ProofsFrom(L, M) ==
  /\ M.resident.owner = None \/ (M.resident = L.resident /\ M.lease = L.lease)
  /\ \/ M.plan.owner = None
     \/ /\ M.plan = L.plan /\ M.lease = L.lease
        /\ InOrder(L, L.plan.order, L.plan.cursor) => InOrder(M, L.plan.order, L.plan.cursor)

(* Proofs that are kept are kept for a reason. *)
LEMMA ProofsStay ==
  ASSUME NEW l \in Layer, ProofsOK(l), pool[l] \in LayerState, HistoryStays(l),
         NEW M, pool'[l] = M, M.h2d = pool[l].h2d, ProofsFrom(pool[l], M),
         \/ prefetch' = None \/ prefetch' = prefetch \/ prefetch'.layer # l
  PROVE  ProofsOK(l)'
<1> DEFINE L == pool[l]
<1>1. L.resident.end \in Nat /\ L.plan.cursor \in Nat
  BY LayerTyped
<1>2. ResidencyOK(l)'
  <2>1. SUFFICES ASSUME M.resident.owner # None
                 PROVE  LET s == M.resident.owner
                            e == M.resident.end IN
                        /\ M.lease = s /\ s \in Live' /\ e <= Capacity[s]
                        /\ \A i \in 0 .. e - 1 : M.h2d[HostRow(s, i)'] # None
                        /\ Broken(l, s)' \/ e <= Persistent(l, s)'
    BY DEF ResidencyOK
  <2>2. M.resident = L.resident /\ M.lease = L.lease
    BY <2>1 DEF ProofsFrom
  <2> DEFINE s == M.resident.owner
             e == M.resident.end
  <2>3. /\ L.lease = s /\ s \in Live /\ e <= Capacity[s]
        /\ \A i \in 0 .. e - 1 : L.h2d[HostRow(s, i)] # None
        /\ Broken(l, s) \/ e <= Persistent(l, s)
    BY <2>1, <2>2 DEF ProofsOK, ResidencyOK
  <2> HIDE DEF s, e
  <2>4. e \in Nat
    BY <1>1, <2>2 DEF e
  <2>6. /\ s \in Live' /\ \A i \in Nat : HostRow(s, i)' = HostRow(s, i)
        /\ \/ Broken(l, s)'
           \/ ~Broken(l, s) /\ Persistent(l, s)' = Persistent(l, s)
    BY <2>3, Zenon DEF HistoryStays
  <2>7. Broken(l, s)' \/ e <= Persistent(l, s)'
    BY <2>3, <2>6
  <2>8. \A i \in 0 .. e - 1 : i \in Nat
    BY <2>4
  <2>5. /\ M.lease = s /\ s \in Live' /\ e <= Capacity[s]
        /\ \A i \in 0 .. e - 1 : M.h2d[HostRow(s, i)'] # None
        /\ Broken(l, s)' \/ e <= Persistent(l, s)'
    BY <2>2, <2>3, <2>6, <2>7, <2>8, Zenon
  <2> QED
    BY <2>2, <2>5 DEF s, e
<1>3. PlanOK(l)'
  <2>1. SUFFICES ASSUME M.plan.owner # None
                 PROVE  LET s == M.plan.owner
                            n == M.plan.cursor
                            q == M.plan.order IN
                        /\ M.lease = s /\ s \in Live' /\ n <= Slots /\ n <= Capacity[s]
                        /\ \A i \in 0 .. n - 1 : M.h2d[HostRow(s, i)'] = q[i + 1]
                        /\ Broken(l, s)' \/ (n = Persistent(l, s)' /\ InOrder(M, q, n))
    BY DEF PlanOK
  <2>2. /\ M.plan = L.plan /\ M.lease = L.lease
        /\ InOrder(L, L.plan.order, L.plan.cursor) => InOrder(M, L.plan.order, L.plan.cursor)
    BY <2>1 DEF ProofsFrom
  <2> DEFINE s == M.plan.owner
             n == M.plan.cursor
             q == M.plan.order
  <2>3. /\ L.lease = s /\ s \in Live /\ n <= Slots /\ n <= Capacity[s]
        /\ \A i \in 0 .. n - 1 : L.h2d[HostRow(s, i)] = q[i + 1]
        /\ Broken(l, s) \/ (n = Persistent(l, s) /\ InOrder(L, q, n))
    BY <2>1, <2>2 DEF ProofsOK, PlanOK
  <2>6. InOrder(L, q, n) => InOrder(M, q, n)
    BY <2>2
  <2> HIDE DEF s, n, q
  <2>4. n \in Nat
    BY <1>1, <2>2 DEF n
  <2>7. /\ s \in Live' /\ \A i \in Nat : HostRow(s, i)' = HostRow(s, i)
        /\ \/ Broken(l, s)'
           \/ ~Broken(l, s) /\ Persistent(l, s)' = Persistent(l, s)
    BY <2>3, Zenon DEF HistoryStays
  <2>8. Broken(l, s)' \/ (n = Persistent(l, s)' /\ InOrder(M, q, n))
    BY <2>3, <2>6, <2>7
  <2>9. \A i \in 0 .. n - 1 : i \in Nat
    BY <2>4
  <2>5. /\ M.lease = s /\ s \in Live' /\ n <= Slots /\ n <= Capacity[s]
        /\ \A i \in 0 .. n - 1 : M.h2d[HostRow(s, i)'] = q[i + 1]
        /\ Broken(l, s)' \/ (n = Persistent(l, s)' /\ InOrder(M, q, n))
    BY <2>2, <2>3, <2>7, <2>8, <2>9, Zenon
  <2> QED
    BY <2>2, <2>5 DEF s, n, q
<1>4. prefetch' # None /\ prefetch'.layer = l => Retired(M)
  BY DEF ProofsOK, ProofsFrom, Retired
<1> QED
  BY <1>2, <1>3, <1>4 DEF ProofsOK

-----------------------------------------------------------------------------
(* Steps that leave the proofs alone, or retire them. *)

(* The history after a step of session s. *)
LEMMA HistoryAfter ==
  ASSUME NEW l \in Layer, NEW s \in Session, UNCHANGED allocation, OthersStay(l, s),
         Broken(l, s)' \/ (~Broken(l, s) /\ Persistent(l, s)' = Persistent(l, s))
  PROVE  HistoryStays(l)
<1>1. Live' = Live /\ \A t \in Live, i \in Nat : HostRow(t, i)' = HostRow(t, i)
  BY DEF allocation, Live, HostRow
<1>2. ASSUME NEW t \in Live, t # s
      PROVE  /\ Broken(l, t)' <=> Broken(l, t)
             /\ Persistent(l, t)' = Persistent(l, t)
  BY <1>2 DEF OthersStay, Live, Broken, Transient, Persistent
<1>3. ASSUME NEW t \in Live
      PROVE  Broken(l, t)' \/ (~Broken(l, t) /\ Persistent(l, t)' = Persistent(l, t))
  BY <1>2
<1> QED
  BY <1>1, <1>3 DEF HistoryStays

(* Nothing happens to the history of a layer. *)
LEMMA HistorySame ==
  ASSUME NEW l \in Layer, Live \subseteq Live', \A t \in Live : pages'[t] = pages[t],
         cache'[l] = cache[l]
  PROVE  HistoryStays(l)
<1>1. ASSUME NEW t \in Live
      PROVE  /\ \A i \in Nat : HostRow(t, i)' = HostRow(t, i)
             /\ Broken(l, t)' <=> Broken(l, t)
             /\ Persistent(l, t)' = Persistent(l, t)
  BY <1>1 DEF HostRow, Broken, Transient, Persistent
<1> QED
  BY <1>1 DEF HistoryStays

(* A layer that is as it was. *)
LEMMA LayerSame ==
  ASSUME DInv, GInv, NEW l \in Layer, HistoryStays(l), pool'[l] = pool[l],
         \/ prefetch' = None \/ prefetch' = prefetch \/ prefetch'.layer # l
  PROVE  ProofsOK(l)'
<1>1. ProofsFrom(pool[l], pool[l])
  BY DEF ProofsFrom
<1>2. pool[l] \in LayerState /\ ProofsOK(l)
  BY DEF DInv, LayerSound, LayerOK, GInv
<1> QED
  BY <1>1, <1>2, ProofsStay

(* Layer l becomes M, the others stay. *)
Moves(l, M) == pool'[l] = M /\ \A m \in Layer : m # l => pool'[m] = pool[m]

(* Where the pool changes at l only, and where it does not change. *)
LEMMA MovesIs ==
  ASSUME IInv, NEW l \in Layer, NEW M,
         pool' = [pool EXCEPT ![l] = M] \/ (pool' = pool /\ M = pool[l])
  PROVE  Moves(l, M)
  BY DEF IInv, Shaped, Moves

(* One layer moves, the others do not. *)
LEMMA ProofsOneLayer ==
  ASSUME IInv, DInv, GInv, NEW l \in Layer, NEW M, Moves(l, M),
         UNCHANGED allocation, \A m \in Layer : m # l => cache'[m] = cache[m],
         \/ prefetch' = None \/ prefetch' = prefetch \/ prefetch'.layer = l,
         ProofsOK(l)'
  PROVE  GInv'
<1>1. ASSUME NEW m \in Layer, m # l PROVE ProofsOK(m)'
  BY <1>1, HistorySame, LayerSame DEF Moves, allocation, Live
<1> QED
  BY <1>1 DEF GInv

(* A step that voids the proofs of its layer. *)
LEMMA ProofsVoid ==
  ASSUME IInv, DInv, GInv, NEW l \in Layer, NEW M, Moves(l, M),
         UNCHANGED allocation, \A m \in Layer : m # l => cache'[m] = cache[m],
         \/ prefetch' = None \/ prefetch' = prefetch \/ prefetch'.layer = l,
         Retired(M)
  PROVE  GInv'
<1>1. pool'[l] = M
  BY DEF Moves
<1>2. ProofsOK(l)'
  BY <1>1, RetiredOK
<1> QED
  BY <1>2, ProofsOneLayer

(* A step that keeps the proofs of its layer, or some. *)
LEMMA ProofsKept ==
  ASSUME IInv, DInv, GInv, NEW l \in Layer, NEW s \in Session, NEW M, Moves(l, M),
         UNCHANGED allocation, OthersStay(l, s),
         \A m \in Layer : m # l => cache'[m] = cache[m],
         Broken(l, s)' \/ (~Broken(l, s) /\ Persistent(l, s)' = Persistent(l, s)),
         prefetch' = None \/ prefetch' = prefetch,
         M.h2d = pool[l].h2d, ProofsFrom(pool[l], M)
  PROVE  GInv'
<1>1. pool'[l] = M
  BY DEF Moves
<1>2. HistoryStays(l)
  BY HistoryAfter
<1>3. pool[l] \in LayerState /\ ProofsOK(l)
  BY DEF DInv, LayerSound, LayerOK, GInv
<1>4. ProofsOK(l)'
  BY <1>1, <1>2, <1>3, ProofsStay
<1> QED
  BY <1>4, ProofsOneLayer

(* Who takes a lease has the proofs of the layer, or voids them. *)
LEMMA LeasedProofs ==
  ASSUME NEW L \in LayerState, NEW s \in Session, NEW M, SameMaps(L, M), SameProofs(Leased(L, s), M)
  PROVE  ProofsFrom(L, M)
<1>1. \/ L.lease = s /\ SameProofs(L, Leased(L, s))
      \/ Leased(L, s).resident = NoResidency /\ Leased(L, s).plan = NoPlan
  BY LeasedIs
<1>2. CASE L.lease = s /\ SameProofs(L, Leased(L, s))
  BY <1>2, OrderSame DEF SameProofs, SameMaps, ProofsFrom
<1>3. CASE Leased(L, s).resident = NoResidency /\ Leased(L, s).plan = NoPlan
  BY <1>3 DEF SameProofs, ProofsFrom, NoResidency, NoPlan
<1> QED
  BY <1>1, <1>2, <1>3

(* The calls that leave the maps and the ages alone. *)
LEMMA QuietProofs ==
  ASSUME SerialSteps, IInv, DInv, GInv, NEW l \in Layer, NEW s \in Session,
         \/ \E count \in Nat \ {0} : \/ BeginStep(l, s, count) \/ BeginTransient(l, s, count)
                                     \/ AppendTransient(l, s, count)
         \/ Commit(l, s) \/ RollbackRefused(l, s)
  PROVE  GInv'
<1> DEFINE G == Leased(pool[l], s)
           c == cache[l][s]
<1>1. pool[l] \in LayerState
  BY DEF DInv, LayerSound, LayerOK
<1>2. G \in LayerState /\ SameMaps(pool[l], G) /\ SameProofs(G, G)
  BY <1>1, LeasedIs DEF SameProofs
<1>3. ProofsFrom(pool[l], G)
  BY <1>1, <1>2, LeasedProofs
<1>4. ASSUME NEW n \in Nat
      PROVE  LET M == Superseded(pool[l], s, n)
                 N == Superseded(G, s, n) IN
             /\ M.h2d = pool[l].h2d /\ ProofsFrom(pool[l], M)
             /\ N.h2d = pool[l].h2d /\ ProofsFrom(pool[l], N)
  <2> DEFINE M == Superseded(pool[l], s, n)
             N == Superseded(G, s, n)
  <2> HIDE DEF G
  <2>1. SameMaps(pool[l], M) /\ SameProofs(pool[l], M)
    BY <1>1, SupersededIs
  <2>2. SameMaps(G, N) /\ SameProofs(G, N)
    BY <1>2, SupersededIs
  <2> HIDE DEF M, N
  <2>3. SameMaps(pool[l], N)
    BY <1>2, <2>2 DEF SameMaps
  <2>4. ProofsFrom(pool[l], N)
    BY <1>1, <2>2, <2>3, LeasedProofs DEF G
  <2>5. ProofsFrom(pool[l], M)
    BY <2>1, OrderSame DEF SameMaps, ProofsFrom, SameProofs
  <2> QED
    BY <2>1, <2>3, <2>4, <2>5 DEF SameMaps, M, N
<1>5. ASSUME NEW d, Set(l, s, d), NEW M, Moves(l, M), UNCHANGED allocation,
             prefetch' = prefetch, M.h2d = pool[l].h2d, ProofsFrom(pool[l], M),
             \/ d.failed = TRUE /\ d.transientStart = None
             \/ ~c.failed /\ HostEnd(d) = Persistent(l, s)
      PROVE  GInv'
  BY <1>5, OneCache, ProofsKept DEF Broken
<1>6. ProofsFrom(pool[l], pool[l]) /\ (pool' = pool => Moves(l, pool[l]))
  BY DEF Moves, ProofsFrom
<1>7. ASSUME NEW count \in Nat \ {0}, BeginStep(l, s, count) \/ BeginTransient(l, s, count)
      PROVE  GInv'
  <2>1. Calls(l, s) /\ ~Stepping(l, s) /\ UNCHANGED allocation /\ prefetch' = prefetch
    BY <1>7, Zenon DEF BeginStep, BeginTransient
  <2>2. s \in Live /\ ~c.failed /\ ~Transient(l, s) /\ Persistent(l, s) = c.length
    BY <2>1, CallerKnows
  <2>3. c \in CacheState /\ c.length \in Nat
    BY <2>2, EndsOf
  <2>4. CASE BeginStep(l, s, count)
    <3> DEFINE d == [c EXCEPT !.stepEnd = c.length + count, !.written = c.length]
               M == Superseded(pool[l], s, c.length)
    <3>1. Set(l, s, d) /\ pool' = [pool EXCEPT ![l] = M]
      BY <2>4 DEF BeginStep
    <3>2. HostEnd(d) = c.length
      BY <2>2, <2>3 DEF HostEnd, CacheState, Transient
    <3>3. M.h2d = pool[l].h2d /\ ProofsFrom(pool[l], M)
      BY <1>4, <2>3
    <3> HIDE DEF d, M, c, G
    <3> QED
      BY <1>5, <2>1, <2>2, <3>1, <3>2, <3>3, MovesIs
  <2>5. CASE BeginTransient(l, s, count)
    <3> DEFINE d == [c EXCEPT !.stepEnd = c.length + count, !.written = c.length,
                              !.transientStart = c.length]
               M == Superseded(G, s, c.length)
    <3>1. Set(l, s, d) /\ pool' = [pool EXCEPT ![l] = M]
      BY <2>5 DEF BeginTransient
    <3>2. HostEnd(d) = c.length
      BY <2>3, NoneIsNone DEF HostEnd, CacheState
    <3>3. M.h2d = pool[l].h2d /\ ProofsFrom(pool[l], M)
      BY <1>4, <2>3
    <3> HIDE DEF d, M, c, G
    <3> QED
      BY <1>5, <2>1, <2>2, <3>1, <3>2, <3>3, MovesIs
  <2> QED
    BY <1>7, <2>4, <2>5
<1>8. ASSUME NEW count \in Nat \ {0}, AppendTransient(l, s, count)
      PROVE  GInv'
  <2> DEFINE d == [c EXCEPT !.written = @ + count]
  <2>1. /\ Calls(l, s) /\ Transient(l, s) /\ UNCHANGED allocation /\ prefetch' = prefetch
        /\ Set(l, s, d) /\ pool' = [pool EXCEPT ![l] = G]
    BY <1>8, Zenon DEF AppendTransient
  <2>2. s \in Live /\ ~c.failed
    BY <2>1, CallerKnows
  <2>3. c \in CacheState
    BY <2>2, EndsOf
  <2>4. HostEnd(d) = Persistent(l, s)
    BY <2>1, <2>3 DEF HostEnd, CacheState, Transient, Persistent
  <2> HIDE DEF d, c, G
  <2> QED
    BY <1>2, <1>3, <1>5, <2>1, <2>2, <2>4, MovesIs DEF SameMaps
<1>9. CASE Commit(l, s)
  <2> DEFINE d == [c EXCEPT !.length = c.written, !.stepEnd = None]
  <2>1. /\ Calls(l, s) /\ ~Transient(l, s) /\ UNCHANGED allocation /\ prefetch' = prefetch
        /\ Set(l, s, d) /\ pool' = pool
    BY <1>9 DEF Commit
  <2>2. s \in Live /\ ~c.failed
    BY <2>1, CallerKnows
  <2>3. c \in CacheState
    BY <2>2, EndsOf
  <2>4. HostEnd(d) = Persistent(l, s)
    BY <2>1, <2>3 DEF HostEnd, CacheState, Transient, Persistent
  <2> HIDE DEF d, c, G
  <2> QED
    BY <1>5, <1>6, <2>1, <2>2, <2>4
<1>10. CASE RollbackRefused(l, s)
  <2> DEFINE d == [c EXCEPT !.stepEnd = None, !.failed = SerialSteps]
  <2>1. /\ MayStep(s) /\ ~Transient(l, s) /\ UNCHANGED allocation /\ prefetch' = prefetch
        /\ Set(l, s, d) /\ pool' = pool
    BY <1>10 DEF RollbackRefused
  <2>2. c \in CacheState
    BY <2>1, EndsOf, CallsLive
  <2>3. d.failed = TRUE /\ d.transientStart = None
    BY <2>1, <2>2 DEF CacheState, Transient
  <2> HIDE DEF d, c, G
  <2> QED
    BY <1>5, <1>6, <2>1, <2>3
<1> QED
  BY <1>7, <1>8, <1>9, <1>10

(* A prefetch that ends leaves no proof. *)
LEMMA SettledRetires ==
  ASSUME DInv, NEW l \in Layer, NEW s \in Session, Pending(l, s)
  PROVE  Retired(Settled(l, s)) /\ Retired(Leased(Settled(l, s), s))
<1> DEFINE G == Leased(pool[l], s)
           C == Claimed(prefetch)
           M == Settled(l, s)
<1>1. LayerOK(pool[l], C) /\ Flagged(pool[l], C) /\ C \in SUBSET Slot
  BY ClaimedIs DEF Pending, DInv, LayerSound
<1>2. G \in LayerState /\ SameMaps(pool[l], G)
  BY <1>1, LeasedIs DEF LayerOK
<1>3. LayerOK(G, C) /\ Flagged(G, C)
  BY <1>1, <1>2, SameMapsOK
<1>4. M = Finalized(G, C)
  BY DEF Settled
<1> HIDE DEF M, C, G
<1>5. M.resident = NoResidency /\ M.plan = NoPlan /\ LayerOK(M, {})
  BY <1>1, <1>3, <1>4, FinalizedIs
<1>6. Retired(M) /\ M \in LayerState
  BY <1>5 DEF Retired, NoResidency, NoPlan, LayerOK
<1>7. Retired(Leased(M, s))
  BY <1>6, LeasedIs DEF Retired, SameProofs, NoResidency, NoPlan
<1> QED
  BY <1>6, <1>7 DEF M

(* What a session that steps on a layer leaves alone. *)
LEMMA OnlyItsCache ==
  ASSUME IInv, NEW l \in Layer, NEW s \in Session, (\E c : Set(l, s, c)) \/ cache' = cache
  PROVE  OthersStay(l, s) /\ \A m \in Layer : m # l => cache'[m] = cache[m]
<1>1. CASE \E c : Set(l, s, c)
  BY <1>1, OneCache
<1>2. CASE cache' = cache
  BY <1>2 DEF OthersStay
<1> QED
  BY <1>1, <1>2

(* The ends of a prefetch and of a step. *)
LEMMA SettlingProofs ==
  ASSUME IInv, DInv, GInv, NEW l \in Layer, NEW s \in Session,
         \/ FinalizePrefetch(l, s) \/ Rollback(l, s) \/ DiscardTransient(l, s)
         \/ \E length \in Nat : Truncate(l, s, length)
  PROVE  GInv'
<1>1. CASE FinalizePrefetch(l, s)
  BY <1>1, SettledRetires, MovesIs, ProofsVoid DEF FinalizePrefetch
<1>2. CASE \E length \in Nat : Truncate(l, s, length)
  <2>1. PICK length \in Nat : Truncate(l, s, length)
    BY <1>2
  <2> DEFINE G == Leased(pool[l], s)
             M == Shrunk(G, s, length)
  <2>2. /\ Calls(l, s) /\ ~Stepping(l, s) /\ Usable(l, s) /\ prefetch' = prefetch
        /\ pool' = [pool EXCEPT ![l] = M] /\ Set(l, s, Shortened(cache[l][s], length))
        /\ UNCHANGED allocation
    BY <2>1 DEF Truncate
  <2>3. s \in Live /\ ClaimedOf(l) = {}
    BY <2>2, CallerKnows DEF Usable, ClaimedOf
  <2>4. LayerOK(pool[l], {}) /\ Flagged(pool[l], {}) /\ pool[l] \in LayerState
    BY <2>3 DEF DInv, LayerSound, LayerOK
  <2>5. G \in LayerState /\ SameMaps(pool[l], G)
    BY <2>4, LeasedIs
  <2> HIDE DEF G
  <2>6. LayerOK(G, {}) /\ Flagged(G, {})
    BY <2>4, <2>5, SameMapsOK
  <2>7. Shrinks(G, M, s, length)
    BY <2>3, <2>6, ShrunkIs
  <2> HIDE DEF M
  <2>8. Retired(M)
    BY <2>7 DEF Shrinks, Retired, NoResidency, NoPlan
  <2> QED
    BY <2>2, <2>8, MovesIs, OnlyItsCache, ProofsVoid
<1>3. CASE Rollback(l, s) \/ DiscardTransient(l, s)
  <2> DEFINE L == Leased(Settled(l, s), s)
             c == cache[l][s]
             d == Shortened(c, c.length)
             M == Shrunk(L, s, c.length)
  <2>1. /\ MayStep(s) /\ Usable(l, s) /\ prefetch' = WithoutPending(s)
        /\ UNCHANGED allocation /\ Set(l, s, d)
    BY <1>3 DEF Rollback, DiscardTransient
  <2>2. prefetch' = None /\ (Pending(l, s) \/ ClaimedOf(l) = {})
    BY <2>1, WorkspaceGivenUp
  <2>3. s \in Live /\ c.length \in Nat /\ c \in CacheState
    BY <2>1, EndsOf DEF MayStep
  <2>4. LayerOK(L, {}) /\ Flagged(L, {})
    BY <2>2, GivenUp
  <2>5. CASE Rollback(l, s)
    <3>1. pool' = [pool EXCEPT ![l] = M]
      BY <2>5 DEF Rollback
    <3> HIDE DEF L, c, d
    <3>2. Shrinks(L, M, s, c.length)
      BY <2>3, <2>4, ShrunkIs
    <3> HIDE DEF M
    <3>3. Retired(M)
      BY <3>2 DEF Shrinks, Retired, NoResidency, NoPlan
    <3> QED
      BY <2>1, <2>2, <3>1, <3>3, MovesIs, OnlyItsCache, ProofsVoid
  <2>6. CASE DiscardTransient(l, s)
    <3>1. pool' = [pool EXCEPT ![l] = L] /\ Transient(l, s)
      BY <2>6 DEF DiscardTransient
    <3>2. CASE Pending(l, s)
      <4>1. Retired(L)
        BY <3>2, SettledRetires
      <4> HIDE DEF L, c, d
      <4> QED
        BY <2>1, <2>2, <3>1, <4>1, MovesIs, OnlyItsCache, ProofsVoid
    <3>3. CASE ~Pending(l, s)
      <4>1. L = Leased(pool[l], s) /\ pool[l] \in LayerState
        BY <3>3 DEF Settled, DInv, LayerSound, LayerOK
      <4>2. SameMaps(pool[l], L) /\ SameProofs(L, L)
        BY <4>1, LeasedIs DEF SameProofs
      <4>3. ProofsFrom(pool[l], L) /\ L.h2d = pool[l].h2d
        BY <4>1, <4>2, LeasedProofs DEF SameMaps
      <4>4. Persistent(l, s)' = HostEnd(d) /\ OthersStay(l, s)
            /\ \A m \in Layer : m # l => cache'[m] = cache[m]
        BY <2>1, OneCache
      <4>5. HostEnd(d) = c.length
        BY DEF HostEnd, Shortened, EmptyCache
      <4>6. Persistent(l, s) = c.length
        BY <2>3, <3>1, EndsOf DEF EndsOK, HostEnd, Transient
      <4>7. ~Broken(l, s)
        BY <3>1 DEF Broken
      <4> HIDE DEF L, c, d
      <4> QED
        BY <2>1, <2>2, <3>1, <4>3, <4>4, <4>5, <4>6, <4>7, MovesIs, ProofsKept
    <3> QED
      BY <3>2, <3>3
  <2> QED
    BY <1>3, <2>5, <2>6
<1> QED
  BY <1>1, <1>2, <1>3

(* A claim changes rows where no proof is left. *)
LEMMA ClaimProofs ==
  ASSUME IInv, DInv, GInv, NEW l \in Layer, NEW s \in Session, NEW i \in Index(s),
         Claim(l, s, i)
  PROVE  GInv'
<1> DEFINE L == pool[l]
           x == prefetch.order[prefetch.claimed + 1]
           U == [L EXCEPT !.h2d = Filled(@, {L.d2h[x]} \ {None}, None)]
           M == [U EXCEPT !.h2d[HostRow(s, i)] = x, !.d2h[x] = HostRow(s, i),
                          !.records[x] = L.host[HostRow(s, i)]]
<1>1. /\ pool' = [pool EXCEPT ![l] = M] /\ Pending(l, s) /\ cache' = cache
      /\ UNCHANGED allocation /\ prefetch' = [prefetch EXCEPT !.claimed = @ + 1]
  BY Zenon DEF Claim
<1>2. L \in LayerState /\ Retired(L)
  BY <1>1 DEF DInv, LayerSound, LayerOK, GInv, ProofsOK, Pending
<1>3. M.resident = L.resident /\ M.plan = L.plan
  BY <1>2, LayerTyped DEF LayerFields
<1>4. prefetch'.layer = l
  BY <1>1 DEF Pending, IInv, WorkspaceOK
<1> HIDE DEF M
<1>5. Retired(M)
  BY <1>2, <1>3 DEF Retired
<1> QED
  BY <1>1, <1>4, <1>5, MovesIs, OnlyItsCache, ProofsVoid

(* Who takes a lease has the residency proof and the plan of the layer, or *)
(* loses them; events of the clock keep the order.                         *)
LEMMA LeasedProofsAged ==
  ASSUME NEW L \in LayerState, NEW s \in Session, NEW M, M.lease = s,
         M.resident = Leased(L, s).resident,
         M.plan = NoPlan \/ M.plan = Leased(L, s).plan,
         L.lease = s /\ L.plan.owner # None
           => (InOrder(L, L.plan.order, L.plan.cursor) => InOrder(M, L.plan.order, L.plan.cursor))
  PROVE  ProofsFrom(L, M)
<1>1. \/ L.lease = s /\ SameProofs(L, Leased(L, s))
      \/ Leased(L, s).resident = NoResidency /\ Leased(L, s).plan = NoPlan
  BY LeasedIs
<1>2. CASE L.lease = s /\ SameProofs(L, Leased(L, s))
  BY <1>2 DEF SameProofs, ProofsFrom, NoPlan
<1>3. CASE Leased(L, s).resident = NoResidency /\ Leased(L, s).plan = NoPlan
  BY <1>3 DEF ProofsFrom, NoResidency, NoPlan
<1> QED
  BY <1>1, <1>2, <1>3

(* An event for history slots of the session that plans keeps its order.   *)
LEMMA OrderAfterEvent ==
  ASSUME DInv, GInv, NEW l \in Layer, NEW s \in Session, ~cache[l][s].failed, ClaimedOf(l) = {},
         pool[l].lease = s, pool[l].plan.owner # None,
         NEW indices, indices \subseteq 0 .. Persistent(l, s) - 1,
         \A i \in indices : HostRow(s, i) \in Row,
         NEW V, V \subseteq Mapped(pool[l], HostRows(s, indices)),
         NEW M, LayerOK(M, {}), M.d2h = pool[l].d2h, Newest(pool[l], M, V)
  PROVE  InOrder(pool[l], pool[l].plan.order, pool[l].plan.cursor)
           => InOrder(M, pool[l].plan.order, pool[l].plan.cursor)
<1> DEFINE L == pool[l]
           n == L.plan.cursor
           q == L.plan.order
<1>1. /\ LayerOK(L, {}) /\ L \in LayerState /\ Order(q) /\ ProofsOK(l)
  BY DEF DInv, LayerSound, LayerOK, GInv
<1>2. /\ L.plan.owner = s /\ \A i \in 0 .. n - 1 : L.h2d[HostRow(s, i)] = q[i + 1]
      /\ n = Persistent(l, s) /\ n <= Slots /\ n \in Nat
  BY <1>1, LayerTyped DEF ProofsOK, PlanOK, Broken
<1>3. L.h2d \in [Row -> Slot \cup {None}] /\ Mirrors(L)
  BY <1>1, LayerTyped DEF LayerOK
<1> HIDE DEF L
<1>4. ASSUME NEW x \in V
      PROVE  x \in Slot /\ M.d2h[x] # None /\ \E i \in 0 .. n - 1 : x = q[i + 1]
  BY <1>4, <1>2, <1>3, NoneIsNone DEF Mapped, HostRows, L, Mirrors
<1> HIDE DEF n, q
<1>5. \A k \in 1 .. Slots : n < k => q[k] \notin V
  BY <1>4, <1>2, SlotsAssumption, <1>1 DEF Order, IsInjective
<1>6. \A k \in 1 .. Slots : n < k /\ k <= n => q[k] \in V
  BY <1>2, SlotsAssumption
<1>7. V \in SUBSET Slot /\ \A x \in V : M.d2h[x] # None
  BY <1>4
<1>8. InOrder(L, q, n) => InOrder(M, q, n)
  BY <1>2, <1>1, <1>5, <1>6, <1>7, OrderNewest DEF L
<1> QED
  BY <1>8 DEF L, n, q

(* A prefetch is prepared: an event for no slot, or no proof is left. *)
LEMMA PrepareProofs ==
  ASSUME IInv, DInv, GInv, NEW l \in Layer, NEW s \in Session, NEW count \in Nat \ {0},
         PreparePrefetch(l, s, count)
  PROVE  GInv'
<1> DEFINE G == Leased(pool[l], s)
<1>1. /\ Calls(l, s) /\ ~Pending(l, s) /\ Usable(l, s) /\ cache' = cache /\ UNCHANGED allocation
      /\ \/ pool' = [pool EXCEPT ![l] = Stamped(G, {})] /\ prefetch' = prefetch
         \/ pool' = [pool EXCEPT ![l] = Invalidated(G)] /\ prefetch'.layer = l
  BY DEF PreparePrefetch
<1>2. ClaimedOf(l) = {} /\ s \in Live /\ ~cache[l][s].failed
  BY <1>1, CallerKnows DEF Usable, ClaimedOf
<1>3. LayerOK(pool[l], {}) /\ pool[l] \in LayerState
  BY <1>2 DEF DInv, LayerSound, LayerOK
<1>4. G \in LayerState /\ SameMaps(pool[l], G) /\ LayerOK(G, {}) /\ G.lease = s
  BY <1>3, LeasedIs, SameMapsOK
<1> HIDE DEF G
<1>5. CASE pool' = [pool EXCEPT ![l] = Stamped(G, {})] /\ prefetch' = prefetch
  <2> DEFINE M == Stamped(G, {})
  <2>1. {} \in SUBSET Slot /\ \A x \in {} : G.d2h[x] # None
    OBVIOUS
  <2>2. /\ LayerOK(M, {} \ {}) /\ M.h2d = G.h2d /\ M.d2h = G.d2h /\ SameProofs(G, M)
        /\ Newest(G, M, {})
    BY <1>4, <2>1, StampedIs
  <2> HIDE DEF M
  <2>3. LayerOK(M, {}) /\ M \in LayerState /\ M.h2d = pool[l].h2d /\ M.d2h = pool[l].d2h
    BY <1>4, <2>2 DEF SameMaps, LayerOK
  <2>4. Newest(pool[l], M, {})
    BY <1>3, <1>4, <2>1, <2>2, <2>3, NewestFrom DEF SameMaps
  <2>5. pool[l].lease = s /\ pool[l].plan.owner # None
          => (InOrder(pool[l], pool[l].plan.order, pool[l].plan.cursor)
                => InOrder(M, pool[l].plan.order, pool[l].plan.cursor))
    BY <1>2, <2>3, <2>4, OrderAfterEvent
  <2>6. ProofsFrom(pool[l], M)
    BY <1>4, <2>2, <1>3, <2>5, LeasedProofsAged DEF SameProofs, G
  <2>7. OthersStay(l, s) /\ \A m \in Layer : m # l => cache'[m] = cache[m]
    BY <1>1, OnlyItsCache
  <2>8. ~Broken(l, s) /\ Persistent(l, s)' = Persistent(l, s)
    BY <1>1, <1>2 DEF Broken, Persistent, Transient
  <2>9. Moves(l, M)
    BY <1>5, MovesIs DEF M
  <2> QED
    BY <1>1, <1>5, <2>3, <2>6, <2>7, <2>8, <2>9, ProofsKept
<1>6. CASE pool' = [pool EXCEPT ![l] = Invalidated(G)] /\ prefetch'.layer = l
  <2>1. Retired(Invalidated(G))
    BY <1>4, InvalidatedIs DEF Retired, NoResidency, NoPlan
  <2> QED
    BY <1>1, <1>6, <2>1, MovesIs, OnlyItsCache, ProofsVoid
<1> QED
  BY <1>1, <1>5, <1>6

(* A recall that finds everything keeps the proofs, any other voids them. *)
LEMMA EnsureProofs ==
  ASSUME IInv, DInv, GInv, NEW l \in Layer, NEW s \in Session, NEW selection \in SUBSET Nat,
         NEW uncounted \in BOOLEAN, Ensure(l, s, selection, uncounted)
  PROVE  GInv'
<1> DEFINE indices == History(l, s, selection)
           M == Recalled(l, s, indices, uncounted)
           V == Mapped(pool[l], HostRows(s, indices))
<1>1. /\ EnsureMayRun(l, s, selection) /\ RecallWaits(l, s, indices)
      /\ pool' = [pool EXCEPT ![l] = M] /\ cache' = cache /\ prefetch' = prefetch
      /\ UNCHANGED allocation
  BY DEF Ensure
<1>2. /\ s \in Live /\ ~cache[l][s].failed /\ ClaimedOf(l) = {}
      /\ indices \subseteq 0 .. Persistent(l, s) - 1
      /\ \A i \in indices : HostRow(s, i) \in Row
  BY <1>1, EnsureMayAssume
<1>3. LayerOK(pool[l], {}) /\ pool[l] \in LayerState
  BY <1>2 DEF DInv, LayerSound, LayerOK
<1>4. /\ LayerOK(M, {}) /\ M.lease = s
      /\ \/ M.resident = NoResidency /\ M.plan = NoPlan
         \/ /\ SameProofs(Leased(pool[l], s), M)
            /\ M.h2d = pool[l].h2d /\ M.d2h = pool[l].d2h
            /\ \E P : LayerOK(P, {}) /\ P.d2h = pool[l].d2h /\ Newest(pool[l], P, V)
                      /\ Newest(P, M, {})
  BY <1>1, RecalledIs
<1>5. Moves(l, M) /\ OthersStay(l, s) /\ \A m \in Layer : m # l => cache'[m] = cache[m]
  BY <1>1, MovesIs, OnlyItsCache
<1> HIDE DEF M, V, indices
<1>6. CASE M.resident = NoResidency /\ M.plan = NoPlan
  BY <1>6, <1>1, <1>5, ProofsVoid DEF Retired, NoResidency, NoPlan
<1>7. CASE /\ SameProofs(Leased(pool[l], s), M)
           /\ M.h2d = pool[l].h2d /\ M.d2h = pool[l].d2h
           /\ \E P : LayerOK(P, {}) /\ P.d2h = pool[l].d2h /\ Newest(pool[l], P, V)
                     /\ Newest(P, M, {})
  <2>1. PICK P : LayerOK(P, {}) /\ P.d2h = pool[l].d2h /\ Newest(pool[l], P, V)
                 /\ Newest(P, M, {})
    BY <1>7
  <2> DEFINE q == pool[l].plan.order
             n == pool[l].plan.cursor
  <2>2. pool[l].lease = s /\ pool[l].plan.owner # None
          => (InOrder(pool[l], q, n) => InOrder(M, q, n))
    <3>1. SUFFICES ASSUME pool[l].lease = s, pool[l].plan.owner # None, InOrder(pool[l], q, n)
                   PROVE  InOrder(M, q, n)
      OBVIOUS
    <3>2. V \subseteq Mapped(pool[l], HostRows(s, indices))
      BY DEF V
    <3>3. InOrder(P, q, n)
      BY <1>2, <2>1, <3>1, <3>2, OrderAfterEvent
    <3>4. Order(q) /\ n \in Nat
      BY <1>3, <3>1, LayerTyped DEF DInv, LayerSound
    <3> HIDE DEF q, n
    <3>5. n <= n /\ \A k \in 1 .. Slots : n < k /\ k <= n => q[k] \in {}
      BY <3>4, SlotsAssumption
    <3>6. {} \in SUBSET Slot /\ \A x \in Slot \ {} : M.d2h[x] = P.d2h[x]
      BY <1>7, <2>1
    <3> QED
      BY <1>4, <2>1, <3>3, <3>4, <3>5, <3>6, OrderNewest
  <2>3. ProofsFrom(pool[l], M)
    BY <1>4, <1>7, <1>3, <2>2, LeasedProofsAged DEF SameProofs
  <2>4. ~Broken(l, s) /\ Persistent(l, s)' = Persistent(l, s)
    BY <1>1, <1>2 DEF Broken, Persistent, Transient
  <2> QED
    BY <1>1, <1>5, <1>7, <2>3, <2>4, ProofsKept
<1> QED
  BY <1>4, <1>6, <1>7

(* So does a recall that fails, which breaks a persistent step. *)
LEMMA EnsureFailsProofs ==
  ASSUME IInv, DInv, GInv, NEW l \in Layer, NEW s \in Session, NEW selection \in SUBSET Nat,
         EnsureFails(l, s, selection)
  PROVE  GInv'
<1> DEFINE indices == History(l, s, selection)
           V == Mapped(pool[l], HostRows(s, indices))
           c == cache[l][s]
           d == [c EXCEPT !.failed = TRUE]
<1>1. /\ EnsureMayRun(l, s, selection) /\ Set(l, s, d) /\ prefetch' = prefetch
      /\ UNCHANGED allocation
  BY DEF EnsureFails
<1>2. /\ s \in Live /\ ~c.failed /\ ClaimedOf(l) = {} /\ c \in CacheState
      /\ indices \subseteq 0 .. Persistent(l, s) - 1
      /\ \A i \in indices : HostRow(s, i) \in Row
  BY <1>1, EnsureMayAssume
<1>3. LayerOK(pool[l], {}) /\ pool[l] \in LayerState
  BY <1>2 DEF DInv, LayerSound, LayerOK
<1>4. PICK M : /\ pool' = [pool EXCEPT ![l] = M] /\ LayerOK(M, {}) /\ M.lease = s
               /\ \/ /\ M.d2h = pool[l].d2h /\ M.h2d = pool[l].h2d /\ Newest(pool[l], M, V)
                     /\ M.resident = Leased(pool[l], s).resident
                     /\ M.plan = NoPlan \/ M.plan = Leased(pool[l], s).plan
                  \/ M.resident = NoResidency /\ M.plan = NoPlan
  BY EnsureFailsLeaves
<1>5. Moves(l, M) /\ OthersStay(l, s) /\ \A m \in Layer : m # l => cache'[m] = cache[m]
  BY <1>1, <1>4, MovesIs, OnlyItsCache
<1>6. Broken(l, s)' \/ (~Broken(l, s) /\ Persistent(l, s)' = Persistent(l, s))
  BY <1>1, OneCache, <1>2 DEF HostEnd, CacheState, Persistent, Transient, Broken
<1> HIDE DEF V, indices, c, d
<1>7. CASE M.resident = NoResidency /\ M.plan = NoPlan
  BY <1>7, <1>1, <1>5, ProofsVoid DEF Retired, NoResidency, NoPlan
<1>8. CASE /\ M.d2h = pool[l].d2h /\ M.h2d = pool[l].h2d /\ Newest(pool[l], M, V)
           /\ M.resident = Leased(pool[l], s).resident
           /\ M.plan = NoPlan \/ M.plan = Leased(pool[l], s).plan
  <2> DEFINE q == pool[l].plan.order
             n == pool[l].plan.cursor
  <2>1. pool[l].lease = s /\ pool[l].plan.owner # None
          => (InOrder(pool[l], q, n) => InOrder(M, q, n))
    BY <1>2, <1>4, <1>8, OrderAfterEvent DEF V, c
  <2>2. ProofsFrom(pool[l], M)
    BY <1>3, <1>4, <1>8, <2>1, LeasedProofsAged
  <2> QED
    BY <1>1, <1>5, <1>6, <1>8, <2>2, ProofsKept
<1> QED
  BY <1>4, <1>7, <1>8

-----------------------------------------------------------------------------
(* Appends, and what they certify. *)

(* A plan that is made now has all slots in their order. *)
LEMMA FreshOrder ==
  ASSUME NEW L, LayerOK(L, {})
  PROVE  InOrder(L, PriorityOrder(L), 0)
<1> DEFINE q == PriorityOrder(L)
<1>1. /\ L \in LayerState /\ AgesOK(L, {}) /\ L.priority \in [Slot -> -1 .. Limit]
  BY LayerTyped DEF LayerOK
<1>2. Order(q) /\ \A j, k \in 1 .. Slots : j < k <=> q[j] \in Ahead(Slot, L.priority, q[k])
  BY <1>1, PriorityOrderIs
<1>3. \A x \in Slot : Key(L, x) = L.priority[x]
  BY <1>1 DEF Key, AgesOK
<1> HIDE DEF q
<1>4. \A j \in 1 .. Slots : q[j] \in Slot
  BY <1>2 DEF Order
<1>5. \A j, k \in 1 .. Slots : j < k => Older(L, q[j], q[k])
  BY <1>2, <1>3, <1>4 DEF Older, Ahead
<1>6. \A j \in 1 .. Slots : ~(j <= 0)
  BY SlotsAssumption
<1> QED
  BY <1>5, <1>6 DEF InOrder, q

(* The slots of a plan before w hold the session's first w records. *)
LEMMA PlannedHistory ==
  ASSUME IInv, DInv, GInv, NEW l \in Layer, NEW s \in Session, NEW count \in Nat \ {0},
         AppendMayRun(l, s, count), AppendRoom(l, s, count).planned
  PROVE  LET w == cache[l][s].written
             q == AppendRoom(l, s, count).pool.plan.order IN
         /\ Order(q) /\ InOrder(pool[l], q, w)
         /\ \A i \in 0 .. w - 1 : pool[l].h2d[HostRow(s, i)] = q[i + 1]
         /\ \A k \in 1 .. count : AppendRoom(l, s, count).chosen[k] = q[w + k]
<1> DEFINE w == cache[l][s].written
           room == AppendRoom(l, s, count)
           R == room.pool
           q == R.plan.order
           L == pool[l]
<1>1. /\ s \in Live /\ ~cache[l][s].failed /\ w \in Nat /\ ClaimedOf(l) = {}
  BY AppendMayAssume
<1>2. LayerOK(L, {}) /\ ProofsOK(l)
  BY <1>1 DEF DInv, LayerSound, GInv
<1>3. PlannedRoom(l, s, w, count, room)
  BY AppendRoomIs
<1>4. /\ R.plan.owner = s /\ Order(q) /\ \A k \in 1 .. count : room.chosen[k] = q[w + k]
      /\ w = 0 => q = PriorityOrder(L)
      /\ w # 0 => SameProofs(L, R) /\ L.plan.cursor = w
  BY <1>3 DEF PlannedRoom
<1> HIDE DEF room
<1>5. CASE w = 0
  <2>1. InOrder(L, q, w)
    BY <1>2, <1>4, <1>5, FreshOrder
  <2>2. \A i \in 0 .. w - 1 : L.h2d[HostRow(s, i)] = q[i + 1]
    <3> HIDE DEF L, q, w
    <3> QED
      BY <1>5
  <2> HIDE DEF w, q
  <2> QED
    BY <1>4, <2>1, <2>2 DEF w, q, room
<1>6. CASE w # 0
  <2>1. L.plan.owner = s /\ L.plan.cursor = w /\ L.plan.order = q
    BY <1>4, <1>6 DEF SameProofs
  <2>2. /\ \A i \in 0 .. w - 1 : L.h2d[HostRow(s, i)] = q[i + 1]
        /\ InOrder(L, q, w)
    BY <1>1, <1>2, <2>1, NoneIsNone DEF ProofsOK, PlanOK, Broken
  <2> HIDE DEF w, q
  <2> QED
    BY <1>4, <2>2 DEF w, q, room
<1> QED
  BY <1>5, <1>6

(* Layer M, where the first slots of a plan hold the session's history up  *)
(* to its end, in order.                                                   *)
Certifies(M, s, end) ==
  /\ M.lease = s /\ end <= Slots /\ end <= Capacity[s]
  /\ M.resident.owner = s /\ M.resident.end = end
  /\ M.plan.owner = s /\ M.plan.cursor = end
  /\ \A i \in 0 .. end - 1 : /\ M.h2d[HostRow(s, i)] = M.plan.order[i + 1]
                             /\ M.plan.order[i + 1] # None
  /\ InOrder(M, M.plan.order, end)

(* The proofs of a layer that an append has certified hold. *)
LEMMA CertifiedOK ==
  ASSUME NEW l \in Layer, NEW s \in Live, UNCHANGED allocation, NEW M, pool'[l] = M,
         NEW end, Certifies(M, s, end), Broken(l, s)' \/ Persistent(l, s)' = end,
         end \in Nat, prefetch' = None
  PROVE  ProofsOK(l)'
<1>1. Live' = Live /\ \A i : HostRow(s, i)' = HostRow(s, i)
  BY DEF allocation, Live, HostRow
<1>2. /\ M.lease = s /\ s \in Live' /\ end <= Capacity[s] /\ end <= Slots
      /\ \A i \in 0 .. end - 1 : M.h2d[HostRow(s, i)'] # None
      /\ \A i \in 0 .. end - 1 : M.h2d[HostRow(s, i)'] = M.plan.order[i + 1]
  BY <1>1 DEF Certifies
<1>3. Broken(l, s)' \/ end <= Persistent(l, s)'
  OBVIOUS
<1>4. ResidencyOK(l)'
  BY <1>2, <1>3 DEF ResidencyOK, Certifies
<1>5. PlanOK(l)'
  BY <1>2 DEF PlanOK, Certifies
<1> QED
  BY <1>4, <1>5 DEF ProofsOK

(* A planned append certifies the history with its records. *)
LEMMA AppendCertifies ==
  ASSUME IInv, DInv, GInv, NEW l \in Layer, NEW s \in Session, NEW count \in Nat \ {0},
         AppendMayRun(l, s, count), AppendRoom(l, s, count).planned
  PROVE  Certifies(Appended(l, s, count), s, cache[l][s].written + count)
<1> DEFINE w == cache[l][s].written
           m == w + count
           room == AppendRoom(l, s, count)
           R == room.pool
           q == R.plan.order
           L == pool[l]
           M == Appended(l, s, count)
           V == Range(room.chosen)
<1>1. /\ s \in Live /\ w \in Nat /\ ClaimedOf(l) = {} /\ Capacity[s] \in Nat /\ m <= Capacity[s]
      /\ m \in Nat
  BY AppendMayAssume
<1>2. LayerOK(L, {})
  BY <1>1 DEF DInv, LayerSound
<1>3. /\ room.chosen \in [1 .. count -> Slot]
      /\ PlannedRoom(l, s, w, count, room)
  BY AppendRoomIs
<1>4. m <= Slots
  BY <1>3 DEF PlannedRoom
<1>5. /\ Order(q) /\ InOrder(L, q, w)
      /\ \A i \in 0 .. w - 1 : L.h2d[HostRow(s, i)] = q[i + 1]
      /\ \A k \in 1 .. count : room.chosen[k] = q[w + k]
  BY PlannedHistory
<1>6. /\ LayerOK(M, {}) /\ M.lease = s /\ Newest(L, M, V)
      /\ Appends(l, s, w, count, room.chosen, M)
      /\ M.resident = [owner |-> s, end |-> m]
      /\ M.plan = [owner |-> s, cursor |-> m, order |-> q]
  BY AppendedIs
<1>7. \A i \in 0 .. m - 1 : HostRow(s, i) \in Row
  BY <1>1, IndexHasRow DEF IInv
<1> HIDE DEF room, L, M, m, w
<1>8. /\ V \in SUBSET Slot
      /\ \A x \in V : \E k \in 1 .. count : x = q[w + k]
      /\ \A k \in 1 .. count : q[w + k] \in V
  BY <1>3, <1>5 DEF Range
<1> HIDE DEF q, V
<1>9. /\ \A k \in 1 .. count : M.d2h[q[w + k]] = HostRow(s, w + k - 1)
      /\ \A x \in Slot \ V : M.d2h[x] = L.d2h[x]
  BY <1>5, <1>6 DEF Appends, V, L
<1>10. m = w + count /\ Slots \in Nat
  BY SlotsAssumption DEF m
<1>11. \A k \in 1 .. Slots : m < k => q[k] \notin V
  <2>1. SUFFICES ASSUME NEW k \in 1 .. Slots, m < k, q[k] \in V PROVE FALSE
    OBVIOUS
  <2>2. PICK j \in 1 .. count : q[k] = q[w + j]
    BY <1>8, <2>1
  <2>3. w + j \in 1 .. Slots /\ w + j <= m
    BY <1>1, <1>4, <1>10
  <2>4. w + j = k
    BY <1>5, <2>2, <2>3 DEF Order, IsInjective
  <2> QED
    BY <1>1, <1>10, <2>1, <2>3, <2>4
<1>12. \A k \in 1 .. Slots : w < k /\ k <= m => q[k] \in V
  BY <1>1, <1>10, <1>8
<1>13. \A x \in V : M.d2h[x] # None
  BY <1>1, <1>10, <1>7, <1>8, <1>9, NoneIsNone
<1>14. w <= m
  BY <1>1, <1>10
<1>15. InOrder(M, q, m)
  BY <1>1, <1>2, <1>5, <1>6, <1>8, <1>9, <1>11, <1>12, <1>13, <1>14, OrderNewest
<1>16. Mirrors(L) /\ Mirrors(M)
  BY <1>2, <1>6 DEF LayerOK
<1>17. ASSUME NEW i \in 0 .. m - 1
       PROVE  M.h2d[HostRow(s, i)] = q[i + 1] /\ q[i + 1] \in Slot
  <2>1. i + 1 \in 1 .. Slots /\ HostRow(s, i) \in Row
    BY <1>1, <1>4, <1>7, <1>10
  <2>2. q[i + 1] \in Slot
    BY <1>5, <2>1 DEF Order
  <2>3. CASE i < w
    <3>1. L.h2d[HostRow(s, i)] = q[i + 1]
      BY <1>1, <1>5, <2>3
    <3>2. L.d2h[q[i + 1]] = HostRow(s, i)
      BY <1>16, <2>1, <2>2, <3>1 DEF Mirrors
    <3>3. q[i + 1] \notin V
      <4>1. SUFFICES ASSUME NEW k \in 1 .. count, q[i + 1] = q[w + k] PROVE FALSE
        BY <1>8
      <4>2. w + k \in 1 .. Slots
        BY <1>1, <1>4, <1>10
      <4>3. i + 1 = w + k
        BY <1>5, <2>1, <4>1, <4>2 DEF Order, IsInjective
      <4> QED
        BY <1>1, <2>3, <4>3
    <3>4. M.d2h[q[i + 1]] = HostRow(s, i)
      BY <1>9, <2>2, <3>2, <3>3
    <3> QED
      BY <1>16, <2>1, <2>2, <3>4 DEF Mirrors
  <2>4. CASE w <= i
    <3>1. i - w + 1 \in 1 .. count /\ w + (i - w + 1) = i + 1 /\ w + (i - w + 1) - 1 = i
      BY <1>1, <1>10, <2>4
    <3>2. M.d2h[q[i + 1]] = HostRow(s, i)
      BY <1>9, <3>1
    <3> QED
      BY <1>16, <2>1, <2>2, <3>2 DEF Mirrors
  <2> QED
    BY <1>1, <2>3, <2>4
<1>18. Certifies(M, s, m)
  BY <1>1, <1>4, <1>6, <1>15, <1>17, NoneIsNone DEF Certifies
<1> QED
  BY <1>18 DEF M, m, w

(* Where an append has only taken its slots, the step is broken, and what  *)
(* the proofs say of earlier records still holds.                          *)
LEMMA RoomProofs ==
  ASSUME IInv, DInv, GInv, NEW l \in Layer, NEW s \in Session, NEW count \in Nat \ {0},
         AppendMayRun(l, s, count), UNCHANGED allocation,
         pool'[l] = AppendRoom(l, s, count).pool, Broken(l, s)', prefetch' = None
  PROVE  ProofsOK(l)'
<1> DEFINE w == cache[l][s].written
           room == AppendRoom(l, s, count)
           R == room.pool
           L == pool[l]
           V == Range(room.chosen)
<1>1. /\ s \in Live /\ w \in Nat /\ ClaimedOf(l) = {} /\ Capacity[s] \in Nat
      /\ w + count <= Capacity[s] /\ Persistent(l, s) = w /\ ~cache[l][s].failed
  BY AppendMayAssume
<1>2. /\ room.planned \in BOOLEAN /\ R.lease = s /\ Emptied(L, R, V)
      /\ room.chosen \in [1 .. count -> Slot]
      /\ room.planned => PlannedRoom(l, s, w, count, room)
      /\ ~room.planned => R.resident = NoResidency /\ R.plan = NoPlan
  BY AppendRoomIs
<1>3. ProofsOK(l) /\ L \in LayerState
  BY DEF GInv, DInv, LayerSound, LayerOK
<1>4. CASE ~room.planned
  BY <1>2, <1>4, RetiredOK DEF Retired, NoResidency, NoPlan
<1>5. CASE room.planned
  <2> DEFINE q == R.plan.order
  <2>1. /\ Order(q) /\ \A i \in 0 .. w - 1 : L.h2d[HostRow(s, i)] = q[i + 1]
        /\ \A k \in 1 .. count : room.chosen[k] = q[w + k]
    BY <1>5, PlannedHistory
  <2>2. /\ w + count <= Slots /\ R.plan.owner = s
        /\ w = 0 => /\ R.plan.cursor = 0
                    /\ R.resident = NoResidency \/ (R.resident = L.resident /\ L.lease = s)
        /\ w # 0 => SameProofs(L, R) /\ L.plan.cursor = w
    BY <1>2, <1>5 DEF PlannedRoom
  <2>3. R.plan.cursor = w
    BY <2>2 DEF SameProofs
  <2>4. R.resident.owner # None
          => R.resident = L.resident /\ R.resident.owner = s /\ R.resident.end <= w
    BY <1>2, <2>2, <1>3, <1>1 DEF SameProofs, NoResidency, ProofsOK, ResidencyOK, Broken
  <2>5. Live' = Live /\ \A i : HostRow(s, i)' = HostRow(s, i)
    BY DEF allocation, Live, HostRow
  <2> HIDE DEF room, L
  <2>6. \A x \in V : \E k \in 1 .. count : x = q[w + k]
    BY <1>2, <2>1 DEF Range
  <2>7. \A i \in 0 .. w - 1 : HostRow(s, i) \in Row
    BY <1>1, IndexHasRow DEF IInv
  <2> HIDE DEF V, q, w
  <2>8. Slots \in Nat
    BY SlotsAssumption
  <2>9. ASSUME NEW i \in 0 .. w - 1
        PROVE  R.h2d[HostRow(s, i)] = q[i + 1] /\ q[i + 1] # None
    <3>1. i + 1 \in 1 .. Slots
      BY <1>1, <2>2, <2>8
    <3>2. q[i + 1] \in Slot
      BY <2>1, <3>1 DEF Order
    <3>3. q[i + 1] \notin V
      <4>1. SUFFICES ASSUME NEW k \in 1 .. count, q[i + 1] = q[w + k] PROVE FALSE
        BY <2>6
      <4>2. w + k \in 1 .. Slots
        BY <1>1, <2>2, <2>8
      <4>3. i + 1 = w + k
        BY <2>1, <3>1, <4>1, <4>2 DEF Order, IsInjective
      <4> QED
        BY <1>1, <4>3
    <3>4. R.h2d[HostRow(s, i)] = IF L.h2d[HostRow(s, i)] \in V THEN None
                                 ELSE L.h2d[HostRow(s, i)]
      BY <1>2, <2>7 DEF Emptied
    <3>5. L.h2d[HostRow(s, i)] = q[i + 1]
      BY <2>1
    <3> QED
      BY <3>2, <3>3, <3>4, <3>5, NoneIsNone
  <2>10. ResidencyOK(l)'
    <3>1. PICK N : N = R
      OBVIOUS
    <3>2. pool'[l] = N
      BY <3>1 DEF room
    <3> DEFINE t == N.resident.owner
               e == N.resident.end
    <3>3. SUFFICES ASSUME t # None
                   PROVE  /\ N.lease = t /\ t \in Live' /\ e <= Capacity[t]
                          /\ \A i \in 0 .. e - 1 : N.h2d[HostRow(t, i)'] # None
                          /\ Broken(l, t)'
      BY <3>2 DEF ResidencyOK
    <3>4. t = s /\ e <= w /\ e \in Nat
      BY <1>3, <2>4, <3>1, <3>3, LayerTyped DEF L
    <3> HIDE DEF e, t
    <3>5. e <= Capacity[s] /\ \A i \in 0 .. e - 1 : i \in 0 .. w - 1
      BY <1>1, <3>4 DEF w
    <3>6. \A i \in 0 .. e - 1 : N.h2d[HostRow(s, i)'] # None
      BY <2>5, <2>9, <3>1, <3>5
    <3> QED
      BY <1>1, <1>2, <2>5, <3>1, <3>4, <3>5, <3>6 DEF room
  <2>11. PlanOK(l)'
    BY <1>1, <2>2, <2>8, <2>5, <2>9, <1>2, <2>3 DEF PlanOK, room, q
  <2> QED
    BY <2>10, <2>11 DEF ProofsOK
<1> QED
  BY <1>2, <1>4, <1>5

(* An append certifies what it has planned, and voids the proofs otherwise. *)
LEMMA AppendedProofs ==
  ASSUME IInv, DInv, GInv, NEW l \in Layer, NEW s \in Session, NEW count \in Nat \ {0},
         AppendMayRun(l, s, count), UNCHANGED allocation,
         pool'[l] = Appended(l, s, count), prefetch' = None,
         Broken(l, s)' \/ Persistent(l, s)' = cache[l][s].written + count
  PROVE  ProofsOK(l)'
<1> DEFINE M == Appended(l, s, count)
           room == AppendRoom(l, s, count)
           m == cache[l][s].written + count
<1>1. s \in Live /\ cache[l][s].written \in Nat /\ m \in Nat
  BY AppendMayAssume
<1>2. CASE room.planned
  <2>1. Certifies(M, s, m)
    BY <1>2, AppendCertifies
  <2> HIDE DEF M, m
  <2>2. pool'[l] = M
    BY DEF M
  <2>3. Broken(l, s)' \/ Persistent(l, s)' = m
    BY DEF m
  <2> QED
    BY <1>1, <2>1, <2>2, <2>3, CertifiedOK
<1>3. CASE ~room.planned
  <2>1. M.resident = NoResidency /\ M.plan = NoPlan
    BY <1>3, AppendedIs
  <2>2. Retired(M)
    BY <2>1 DEF Retired, NoResidency, NoPlan
  <2> QED
    BY <2>2, RetiredOK
<1> QED
  BY <1>2, <1>3

(* Appends, and those that fail. *)
LEMMA AppendProofs ==
  ASSUME IInv, DInv, GInv, NEW l \in Layer, NEW s \in Session, NEW count \in Nat \ {0},
         AppendRecords(l, s, count) \/ AppendFails(l, s, count)
  PROVE  GInv'
<1> DEFINE c == cache[l][s]
           w == c.written
           G == Leased(pool[l], s)
           R == AppendRoom(l, s, count).pool
           A == Appended(l, s, count)
<1>1. AppendMayRun(l, s, count) /\ prefetch' = prefetch /\ UNCHANGED allocation
  BY DEF AppendRecords, AppendFails
<1>2. /\ s \in Live /\ ~c.failed /\ ~Transient(l, s) /\ c \in CacheState /\ w \in Nat
      /\ prefetch = None /\ c.transientStart = None
  BY <1>1, AppendMayAssume DEF Transient
<1>3. pool[l] \in LayerState
  BY DEF DInv, LayerSound, LayerOK
<1>4. CASE AppendRecords(l, s, count)
  <2> DEFINE d == [c EXCEPT !.written = @ + count]
  <2>1. pool' = [pool EXCEPT ![l] = A] /\ Set(l, s, d)
    BY <1>4 DEF AppendRecords
  <2> HIDE DEF d, A
  <2>2. Moves(l, A) /\ \A m \in Layer : m # l => cache'[m] = cache[m]
    BY <2>1, MovesIs, OneCache
  <2>3. HostEnd(d) = w + count /\ Persistent(l, s)' = HostEnd(d)
    BY <2>1, OneCache, <1>2 DEF HostEnd, CacheState, d
  <2>4. pool'[l] = A
    BY <2>2 DEF Moves
  <2>5. ProofsOK(l)'
    BY <1>1, <1>2, <2>3, <2>4, AppendedProofs DEF A
  <2> QED
    BY <1>1, <1>2, <2>2, <2>5, ProofsOneLayer
<1>5. CASE AppendFails(l, s, count)
  <2> DEFINE d == [c EXCEPT !.failed = TRUE]
  <2>1. /\ \E M \in {G, R, A} : pool' = [pool EXCEPT ![l] = M]
        /\ Set(l, s, d)
    BY <1>5, Zenon DEF AppendFails
  <2> HIDE DEF d, G, R, A
  <2>2. PICK M \in {G, R, A} : pool' = [pool EXCEPT ![l] = M]
    BY <2>1
  <2>3. Moves(l, M) /\ OthersStay(l, s) /\ \A m \in Layer : m # l => cache'[m] = cache[m]
    BY <2>1, <2>2, MovesIs, OneCache
  <2>4. Broken(l, s)'
    BY <2>1, OneCache, <1>2 DEF CacheState, d, Broken
  <2>5. pool'[l] = M
    BY <2>3 DEF Moves
  <2>6. CASE M = G
    BY <1>3, <2>6, LeasedIs, LeasedProofs, <1>1, <2>3, <2>4, ProofsKept DEF SameProofs, G,
       SameMaps
  <2>7. CASE M = R
    BY <1>1, <1>2, <2>4, <2>5, <2>7, RoomProofs, <2>3, ProofsOneLayer DEF R
  <2>8. CASE M = A
    BY <1>1, <1>2, <2>4, <2>5, <2>8, AppendedProofs, <2>3, ProofsOneLayer DEF A
  <2> QED
    BY <2>6, <2>7, <2>8
<1> QED
  BY <1>4, <1>5

-----------------------------------------------------------------------------
(* Releases and snapshots, and every step. *)

(* A release voids the proofs of every layer. *)
LEMMA ReleaseProofs ==
  ASSUME IInv, DInv, NEW s \in Session, Release(s)
  PROVE  GInv'
<1> DEFINE Given(l) == IF Transient(l, s) THEN Leased(Settled(l, s), s) ELSE Settled(l, s)
           Freed(l) == Released(Given(l), ReleasedRows(s))
           Left(l) == Superseded(Freed(l), s, 0)
<1>1. /\ MayStep(s) /\ (prefetch # None => prefetch.owner = s)
      /\ pool' = [l \in Layer |-> Left(l)]
  BY Zenon DEF Release
<1>2. ASSUME NEW l \in Layer PROVE ProofsOK(l)'
  <2> DEFINE G == Given(l)
             S == Freed(l)
             N == Left(l)
             rows == ReleasedRows(s)
  <2>1. Pending(l, s) \/ ClaimedOf(l) = {}
    BY <1>1 DEF Pending, ClaimedOf
  <2>2. LayerOK(G, {})
    BY <2>1, SettledIs, GivenUp
  <2> HIDE DEF G
  <2>3. rows \in SUBSET Row
    BY <1>1, ReleasedRowsAreRows DEF MayStep
  <2> HIDE DEF rows
  <2>4. S = Released(G, rows)
    BY DEF S, G, rows
  <2> HIDE DEF S
  <2>5. LayerOK(S, {}) /\ S.resident = NoResidency /\ S.plan = NoPlan
    BY <2>2, <2>3, <2>4, ReleasedIs
  <2>6. N = Superseded(S, s, 0)
    BY DEF N, S
  <2> HIDE DEF N
  <2>7. SameProofs(S, N)
    BY <2>5, <2>6, SupersededIs DEF LayerOK
  <2>8. Retired(N)
    BY <2>5, <2>7 DEF SameProofs, Retired, NoResidency, NoPlan
  <2>9. pool'[l] = N
    BY <1>1 DEF N
  <2> QED
    BY <2>8, <2>9, RetiredOK
<1> QED
  BY <1>2 DEF GInv

(* What the copy stream writes is in no proof. *)
LEMMA HostWriteProofs ==
  ASSUME IInv, DInv, GInv, HostWrite
  PROVE  GInv'
<1> DEFINE w == Head(writes)
           g == [r \in DOMAIN pool[w.layer].host |->
                   IF r \in DOMAIN w.rows THEN w.rows[r] ELSE pool[w.layer].host[r]]
<1>1. /\ pool' = [pool EXCEPT ![w.layer].host = g] /\ cache' = cache /\ prefetch' = prefetch
      /\ UNCHANGED allocation
  BY Zenon DEF HostWrite, Updated
<1> HIDE DEF g, w
<1>2. ASSUME NEW l \in Layer PROVE ProofsOK(l)'
  <2> DEFINE L == pool[l]
  <2>1. PICK M : M = pool'[l]
    OBVIOUS
  <2>2. /\ M.h2d = L.h2d /\ M.d2h = L.d2h /\ M.priority = L.priority /\ M.lease = L.lease
        /\ M.resident = L.resident /\ M.plan = L.plan
    BY <1>1, <2>1 DEF IInv, Shaped, LayerShaped, LayerFields
  <2>3. ProofsFrom(L, M)
    <3> HIDE DEF L
    <3> QED
      BY <2>2, OrderSame DEF ProofsFrom
  <2>4. HistoryStays(l)
    BY <1>1, HistorySame DEF allocation, Live
  <2>5. L \in LayerState /\ ProofsOK(l)
    BY DEF GInv, DInv, LayerSound, LayerOK
  <2> QED
    BY <1>1, <2>1, <2>2, <2>3, <2>4, <2>5, ProofsStay
<1> QED
  BY <1>2 DEF GInv

(* Where neither the pool nor the caches move. *)
LEMMA StillProofs ==
  ASSUME DInv, GInv, pool' = pool, cache' = cache, prefetch' = prefetch,
         Live \subseteq Live', \A t \in Live : pages'[t] = pages[t]
  PROVE  GInv'
<1>1. ASSUME NEW l \in Layer PROVE ProofsOK(l)'
  BY HistorySame, LayerSame
<1> QED
  BY <1>1 DEF GInv

(* A session that comes has a new number. *)
LEMMA AllocateProofs ==
  ASSUME IInv, DInv, GInv, NEW s \in Session, Allocate(s)
  PROVE  GInv'
<1>1. /\ session[s] = "new" /\ session' = [session EXCEPT ![s] = "live"]
      /\ \E p : pages' = [pages EXCEPT ![s] = p]
      /\ pool' = pool /\ cache' = cache /\ prefetch' = prefetch
  BY DEF Allocate
<1>2. /\ session \in [Session -> {"new", "live", "released"}]
      /\ pages \in [Session -> Seq(Page)]
  BY DEF IInv, AllocationOK
<1>3. Live \subseteq Live' /\ \A t \in Live : t # s /\ t \in Session
  BY <1>1, <1>2 DEF Live
<1>4. \A t \in Live : pages'[t] = pages[t]
  BY <1>1, <1>2, <1>3
<1> QED
  BY <1>1, <1>3, <1>4, StillProofs

(* A snapshot has no proofs. *)
LEMMA SnapshotProofs ==
  ASSUME SerialSteps, IInv, DInv, GInv, NEW k \in DOMAIN snapshots, TakeSnapshot(k) \/ Restore(k)
  PROVE  GInv'
<1>1. CASE TakeSnapshot(k)
  BY <1>1, StillProofs DEF TakeSnapshot, allocation, Live
<1>2. CASE Restore(k)
  <2> DEFINE S == snapshots[k]
  <2>1. S # None /\ pool' = [l \in Layer |-> Restored(pool[l], S.layers[l])]
    BY <1>2 DEF Restore, Restorable
  <2>2. ASSUME NEW l \in Layer PROVE ProofsOK(l)'
    <3> DEFINE T == S.layers[l]
               M == Restored(pool[l], T)
    <3>1. LayerOK(T, {}) /\ T.resident = NoResidency /\ T.plan = NoPlan
      BY <2>1 DEF DInv, SnapshotsOK, SnapshotOK
    <3>2. T \in LayerState /\ pool[l] \in LayerState
      BY <3>1 DEF LayerOK, DInv, LayerSound
    <3>3. pool'[l] = M
      BY <2>1
    <3> HIDE DEF T
    <3>4. M.resident = NoResidency /\ M.plan = NoPlan
      BY <3>1, <3>2, RestoredIs
    <3> HIDE DEF M
    <3>5. Retired(M)
      BY <3>4 DEF Retired, NoResidency, NoPlan
    <3> QED
      BY <3>3, <3>5, RetiredOK
  <2> QED
    BY <2>2 DEF GInv
<1> QED
  BY <1>1, <1>2

(* Any step. *)
LEMMA NextProofs ==
  ASSUME SerialSteps, IInv, DInv, GInv, [Next]_vars
  PROVE  GInv'
<1>1. CASE \E s \in Session : Allocate(s) \/ Release(s)
  BY <1>1, AllocateProofs, ReleaseProofs
<1>2. CASE \E l \in Layer, s \in Session : Step(l, s)
  BY <1>2, PoolAssumption, QuietProofs, AppendProofs, PrepareProofs, EnsureProofs,
     EnsureFailsProofs, ClaimProofs, SettlingProofs DEF Step
<1>3. CASE HostWrite
  BY <1>3, HostWriteProofs
<1>4. CASE \E k \in DOMAIN snapshots : TakeSnapshot(k) \/ Restore(k)
  BY <1>4, SnapshotProofs
<1>5. CASE UNCHANGED vars
  BY <1>5, StillProofs DEF vars, allocation, Live
<1> QED
  BY <1>1, <1>2, <1>3, <1>4, <1>5 DEF Next

(* What the host believes of a layer is so in every state: its proofs are  *)
(* of the session that holds the lease, of rows that are mapped and of no  *)
(* more than its history, and an order made by the first append is still   *)
(* the order of the slots.                                                 *)
THEOREM ProofInvariant ==
  ASSUME SerialSteps, Snapshots \in {0, 1}
  PROVE  Spec => []GInv
<1>1. Init => GInv
  BY DEF Init, EmptyLayer, NoResidency, NoPlan, ProofsOK, ResidencyOK, PlanOK, GInv
<1>2. IInv /\ DInv /\ GInv /\ [Next]_vars => GInv'
  BY NextProofs
<1> QED
  BY <1>1, <1>2, Invariant, DeviceInvariant, PTL DEF Spec

-----------------------------------------------------------------------------
(* What is left of a plan. *)

(* An order of the slots has every slot. *)
LEMMA OrderHasAll ==
  ASSUME NEW q, Order(q), NEW x \in Slot
  PROVE  \E k \in 1 .. Slots : q[k] = x
<1>1. q \in Injection(Slot, Slot)
  BY DEF Order, Injection, IsInjective, Slot
<1>2. q \in Surjection(Slot, Slot)
  BY <1>1, SlotsAreFinite, FS_Injection
<1> QED
  BY <1>2 DEF Surjection, Slot

(* A part of an order, by another name. *)
LEMMA SliceAt ==
  ASSUME NEW q, Order(q), NEW n \in Nat, NEW d \in Nat, n + d <= Slots,
         NEW c, c = Slice(q, n, d)
  PROVE  /\ c \in [1 .. d -> Slot] /\ IsInjective(c)
         /\ \A i \in 1 .. d : c[i] = q[n + i]
<1>1. /\ Slice(q, n, d) \in [1 .. d -> Slot] /\ IsInjective(Slice(q, n, d))
      /\ \A i \in 1 .. d : Slice(q, n, d)[i] = q[n + i]
  BY SliceOf, Zenon
<1> QED
  BY <1>1

(* The argsort of the slots, by another name. *)
LEMMA SlotsInOrder ==
  ASSUME NEW age, \A x \in Slot : age[x] \in Int, NEW a, a = Oldest(Slot, age)
  PROVE  /\ Lists(a, Slot)
         /\ \A x \in Slot, k \in 1 .. Cardinality(Slot) :
              a[k] = x <=> Cardinality(Ahead(Slot, age, x)) = k - 1
<1>1. IsFiniteSet(Slot) /\ Slot \subseteq Nat
  BY SlotsAreFinite DEF Slot
<1>2. Lists(Oldest(Slot, age), Slot)
  BY <1>1, OldestLists, Zenon
<1>3. Ranked(Oldest(Slot, age), Slot, age)
  BY <1>1, OldestLists, Zenon
<1> QED
  BY <1>2, <1>3 DEF Ranked

(* Behind the place n of an order, k - 1 slots are ahead of the k-th.      *)
LEMMA PlanPlace ==
  ASSUME NEW L, LayerOK(L, {}), NEW q, Order(q), NEW n \in Nat, InOrder(L, q, n),
         NEW age, \A x \in Slot : age[x] = Key(L, x),
         NEW k \in Nat \ {0}, n + k <= Slots
  PROVE  Cardinality(Ahead(Slot, age, q[n + k])) = k - 1
<1> DEFINE p == k - 1
           c == Slice(q, n, p)
           A == Ahead(Slot, age, q[n + k])
<1>1. /\ L.priority \in [Slot -> -1 .. Limit] /\ Slots \in Nat
      /\ \A j \in 1 .. Slots : q[j] \in Slot
  BY LayerTyped, SlotsAssumption DEF LayerOK, Order
<1>2. p \in Nat /\ n + p <= Slots /\ n + k \in 1 .. Slots
  BY SlotsAssumption
<1>3. /\ c \in [1 .. p -> Slot] /\ IsInjective(c)
      /\ \A i \in 1 .. p : c[i] = q[n + i]
  <2>1. PICK d \in Nat : d = p
    BY <1>2
  <2>2. n + d <= Slots
    BY <1>2, <2>1
  <2> DEFINE b == Slice(q, n, d)
  <2>5. b = Slice(q, n, d)
    OBVIOUS
  <2> HIDE DEF b
  <2>3. /\ b \in [1 .. d -> Slot] /\ IsInjective(b)
        /\ \A i \in 1 .. d : b[i] = q[n + i]
    BY <2>2, <2>5, SliceAt
  <2>4. c = b
    BY <2>1, <2>5
  <2> HIDE DEF c, p
  <2> QED
    BY <2>1, <2>3, <2>4
<1>4. \A x, y \in Slot : y \in Ahead(Slot, age, x) <=> Older(L, y, x)
  BY DEF Ahead, Older
<1>5. \A x \in Slot : Key(L, x) \in Int
  BY <1>1, SlotsAssumption DEF Key
<1>10. ASSUME NEW x \in Slot, NEW y \in Slot, Older(L, x, y) PROVE ~Older(L, y, x)
  BY <1>5, <1>10 DEF Slot, Older
<1>11. \A x \in Slot : ~Older(L, x, x)
  BY <1>5 DEF Older, Slot
<1>6. ASSUME NEW y \in Slot
      PROVE  y \in A <=> \E i \in 1 .. p : y = q[n + i]
  <2>1. PICK j \in 1 .. Slots : q[j] = y
    BY OrderHasAll
  <2>2. y \in A <=> Older(L, q[j], q[n + k])
    BY <1>1, <1>2, <1>4, <2>1
  <2>3. CASE j <= n
    <3>1. Older(L, q[n + k], q[j])
      BY <1>2, <2>3 DEF InOrder
    <3>2. ~Older(L, q[j], q[n + k])
      BY <1>1, <1>2, <1>10, <3>1
    <3>3. ~ \E i \in 1 .. p : y = q[n + i]
      BY <2>1, <1>2, SlotsAssumption, <2>3 DEF Order, IsInjective
    <3> QED
      BY <2>2, <3>2, <3>3
  <2>4. CASE n < j /\ j < n + k
    BY <1>2, <2>4, <2>1, <2>2 DEF InOrder
  <2>5. CASE n + k <= j
    <3>1. ~Older(L, q[j], q[n + k])
      <4>1. CASE j = n + k
        BY <1>1, <1>2, <1>11, <4>1
      <4>2. CASE n + k < j
        <5>1. Older(L, q[n + k], q[j])
          BY <1>2, <4>2 DEF InOrder
        <5> QED
          BY <1>1, <1>2, <1>10, <5>1
      <4> QED
        BY <2>5, <4>1, <4>2
    <3>2. ~ \E i \in 1 .. p : y = q[n + i]
      BY <2>1, <1>2, SlotsAssumption, <2>5 DEF Order, IsInjective
    <3> QED
      BY <2>2, <3>1, <3>2
  <2> QED
    BY <2>3, <2>4, <2>5
<1>7. A \subseteq Slot
  BY DEF Ahead
<1>8. A = Range(c)
  <2>1. \A y : y \in Range(c) <=> \E i \in 1 .. p : y = q[n + i]
    BY <1>3 DEF Range
  <2>2. Range(c) \subseteq Slot
    BY <1>3 DEF Range
  <2> HIDE DEF A, c, p
  <2> QED
    BY <1>6, <1>7, <2>1, <2>2
<1> HIDE DEF c, p, A
<1>9. Cardinality(A) = p
  BY <1>2, <1>3, <1>8, ListCounts
<1> QED
  BY <1>9 DEF A, p

(* What is left of a plan is what the FIFO search finds first. *)
LEMMA PlanTail ==
  ASSUME NEW L, LayerOK(L, {}), NEW q, Order(q), NEW n \in Nat, n <= Slots, InOrder(L, q, n)
  PROVE  SubSeq(q, n + 1, Slots) = SubSeq(Available(L, {}), 1, Slots - n)
<1> DEFINE age == [x \in Slot |-> IF L.d2h[x] = None THEN -1 ELSE L.priority[x]]
           a == Oldest(Slot, age)
           m == Slots - n
<1>1. Available(L, {}) = a
  BY DEF Mapped, Available
<1>2. /\ IsFiniteSet(Slot) /\ Slot \subseteq Nat /\ Cardinality(Slot) = Slots /\ Slots \in Nat
  BY SlotsAreFinite DEF Slot
<1>3. \A x \in Slot : age[x] = Key(L, x) /\ age[x] \in Int
  BY LayerTyped, SlotsAssumption DEF LayerOK, Key
<1>13. \A x \in Slot : age[x] \in Int
  BY <1>3
<1> HIDE DEF age
<1>4. /\ Lists(a, Slot)
      /\ \A x \in Slot, k \in 1 .. Cardinality(Slot) :
           a[k] = x <=> Cardinality(Ahead(Slot, age, x)) = k - 1
  <2>1. a = Oldest(Slot, age)
    OBVIOUS
  <2> HIDE DEF a
  <2> QED
    BY <1>2, <1>13, <2>1, SlotsInOrder
<1>5. Order(a)
  BY <1>2, <1>4 DEF Lists, Order
<1>6. m \in Nat /\ n + m = Slots /\ 0 + m <= Slots
  BY <1>2
<1> HIDE DEF a, m
<1>7. ASSUME NEW k \in 1 .. m PROVE q[n + k] = a[k]
  <2>1. k \in Nat \ {0} /\ n + k <= Slots /\ n + k \in 1 .. Slots /\ k \in 1 .. Slots
    BY <1>2, <1>6
  <2>2. Cardinality(Ahead(Slot, age, q[n + k])) = k - 1
    BY <1>3, <2>1, PlanPlace
  <2>3. q[n + k] \in Slot
    BY <2>1 DEF Order
  <2> QED
    BY <1>2, <1>4, <2>1, <2>2, <2>3
<1> DEFINE b == Slice(q, n, m)
           c == Slice(a, 0, m)
<1>8. b \in [1 .. m -> Slot] /\ \A k \in 1 .. m : b[k] = q[n + k]
  BY <1>2, <1>6, SliceOf
<1>9. c \in [1 .. m -> Slot] /\ \A k \in 1 .. m : c[k] = a[0 + k]
  BY <1>5, <1>6, SliceOf
<1>10. b = SubSeq(q, n + 1, Slots) /\ c = SubSeq(a, 1, m)
  BY <1>6 DEF Slice
<1> HIDE DEF b, c
<1>11. \A k \in 1 .. m : b[k] = c[k]
  BY <1>6, <1>7, <1>8, <1>9, SMTT(30)
<1>12. b = c
  <2>1. b = [k \in 1 .. m |-> b[k]] /\ c = [k \in 1 .. m |-> c[k]]
    BY <1>8, <1>9
  <2>2. [k \in 1 .. m |-> b[k]] = [k \in 1 .. m |-> c[k]]
    BY <1>11
  <2> QED
    BY <2>1, <2>2
<1> QED
  BY <1>1, <1>10, <1>12 DEF m

(* A certified residency leaves no history row to be looked up. *)
LEMMA ResidencySound ==
  ASSUME IInv, DInv, GInv
  PROVE  ResidencyProofSound
<1> SUFFICES ASSUME NEW l \in Layer, NEW s \in Live, AllHistoryResident(pool[l], l, s)
             PROVE  Missing(pool[l], HostRows(s, 0 .. Persistent(l, s) - 1)) = {}
  BY DEF ResidencyProofSound
<1> DEFINE P == Persistent(l, s)
           e == pool[l].resident.end
<1>1. s \in Session /\ s # None /\ P \in Nat
  BY EndsOf, NoneIsNone DEF Live, HostEnd, EndsOK, CacheState
<1>2. ResidencyOK(l)
  BY DEF GInv, ProofsOK
<1>3. pool[l].resident \in [owner : Session \cup {None}, end : Nat]
  BY LayerTyped DEF DInv, LayerSound, LayerOK, LayerState
<1>4. e \in Nat
  BY <1>3
<1>5. ASSUME NEW i \in 0 .. P - 1 PROVE pool[l].h2d[HostRow(s, i)] # None
  BY <1>1, <1>2, <1>4 DEF AllHistoryResident, ResidencyOK
<1> HIDE DEF P
<1>6. Missing(pool[l], HostRows(s, 0 .. P - 1)) = {}
  BY <1>5 DEF Missing, HostRows
<1> QED
  BY <1>6 DEF P

(* A plan that would still be used is what the FIFO search would find. *)
LEMMA PlanSound ==
  ASSUME IInv, DInv, GInv
  PROVE  PlanIsFifo
<1> SUFFICES ASSUME NEW l \in Layer, NEW s \in Live, ~cache[l][s].failed,
                    Planned(pool[l], l, s, cache[l][s].written, 1)
             PROVE  SubSeq(pool[l].plan.order, cache[l][s].written + 1, Slots)
                      = SubSeq(Available(pool[l], {}), 1, Slots - cache[l][s].written)
  BY DEF PlanIsFifo
<1> DEFINE n == cache[l][s].written
           L == pool[l]
           q == pool[l].plan.order
<1>1. s \in Session /\ s # None
  BY NoneIsNone DEF Live
<1>2. L.plan.owner = s /\ L.plan.cursor = n /\ n + 1 <= Slots
  BY DEF Planned
<1>3. n \in Nat
  BY <1>1, EndsOf DEF EndsOK, CacheState
<1>4. n <= Slots
  BY <1>2, <1>3, SlotsAssumption
<1>5. InOrder(L, q, n)
  BY <1>1, <1>2 DEF GInv, ProofsOK, Broken, PlanOK
<1>6. ClaimedOf(l) = {}
  BY <1>1, <1>2 DEF Retired, GInv, ProofsOK, ClaimedOf
<1>7. LayerSound(l)
  BY DEF DInv
<1>8. LayerOK(L, {}) /\ Order(q)
  BY <1>1, <1>2, <1>6, <1>7 DEF LayerSound
<1> HIDE DEF n, L, q
<1>9. SubSeq(q, n + 1, Slots) = SubSeq(Available(L, {}), 1, Slots - n)
  BY <1>3, <1>4, <1>5, <1>8, PlanTail
<1> QED
  BY <1>9 DEF n, L, q

(* What the host believes without a look at the device maps is true in     *)
(* every state: rows that all_history_resident skips are mapped, and an    *)
(* append plan that append_slots would still use takes the slots that its  *)
(* FIFO search would take, whatever other sessions did to the layer.       *)
THEOREM HostProofsStaySound ==
  ASSUME SerialSteps, Snapshots \in {0, 1}
  PROVE  Spec => []HostProofsSound
<1>1. IInv /\ DInv /\ GInv => HostProofsSound
  BY ResidencySound, PlanSound DEF HostProofsSound
<1> QED
  BY <1>1, Invariant, DeviceInvariant, ProofInvariant, PTL

=============================================================================
