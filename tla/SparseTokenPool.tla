-------------------------- MODULE SparseTokenPool --------------------------
(***************************************************************************)
(* cache/sparse_token_pool.py and cache/sparse_token_cache.py: sessions    *)
(* keep their token records in a host arena and share, layer by layer, a   *)
(* small pool of device slots, in which any record may be evicted by any   *)
(* session and is recalled from the host when it is selected again.        *)
(*                                                                         *)
(* The caller's CUDA stream runs in the order of the calls, so its work is *)
(* part of each action; the copy stream writes appended records back to    *)
(* the host later (HostWrite), and a call that must wait for it is not     *)
(* enabled before.  Append and recall may fail half way; the caller then   *)
(* rolls the step back or releases the session, as                         *)
(* models/deepseek_v32/execution/adapter.py does.                          *)
(*                                                                         *)
(* Left out: dense_contiguous pools, graph capture, counters.              *)
(***************************************************************************)
EXTENDS TokenSlots

CONSTANTS
  Layer,
  Capacity,        (* per session, its token capacity                      *)
  PageTokens,      (* PAGE_SIZE                                            *)
  CandidateSlots,  (* device rows for the transient suffix, per layer      *)
  MaxInflight,     (* max_inflight_writes                                  *)
  Snapshots,       (* bounds the snapshots that a caller keeps             *)
  SerialSteps      (* one session at a time is inside a step, which is     *)
                   (* what ResourceLifecycle guarantees in a backend       *)

ASSUME PoolAssumption ==
  /\ Capacity \in [Session -> Nat \ {0}]
  /\ PageTokens \in Nat \ {0} /\ Rows % PageTokens = 0
  /\ CandidateSlots \in Nat /\ Snapshots \in Nat /\ MaxInflight \in Nat \ {0}
  /\ SerialSteps \in BOOLEAN

(* What _pending_prefetch is, when it is not None. *)
Workspace ==
  [owner : Session, layer : Layer, order : Seq(Slot), claimed : 0 .. Slots,
   limit : 0 .. Slots]

ASSUME WorkspaceAssumption == None \notin Workspace

VARIABLES
  session,     (* "new", "live" or "released"                              *)
  pages,       (* session._pages                                           *)
  freePages,   (* _free_pages[: _free_page_count]                          *)
  pool,        (* pool.layers                                              *)
  cache,       (* per layer and session: a SparseTokenCache                *)
  transient,   (* _transient_owners                                        *)
  candidates,  (* per layer: the candidate rows                            *)
  prefetch,    (* _pending_prefetch with the workspace it owns, or None    *)
  writes,      (* _writes: host copies that may not have completed         *)
  snapshots    (* the PoolSnapshots that a caller keeps                    *)

allocation == <<session, pages, freePages>>
vars == <<allocation, pool, cache, transient, candidates, prefetch, writes, snapshots>>

Page == 0 .. (Rows \div PageTokens) - 1
Candidate == 1 .. CandidateSlots

(* `failed` is not in the code: the caller has seen the step fail.         *)
EmptyCache ==
  [length |-> 0, written |-> 0, stepEnd |-> None, transientStart |-> None,
   failed |-> FALSE]

Init ==
  /\ session = [s \in Session |-> "new"]
  /\ pages = [s \in Session |-> <<>>]
  /\ freePages = [k \in 1 .. Rows \div PageTokens |-> (Rows \div PageTokens) - k]
  /\ pool = [l \in Layer |-> EmptyLayer]
  /\ cache = [l \in Layer |-> [s \in Session |-> EmptyCache]]
  /\ transient = [l \in Layer |-> None]
  /\ candidates = [l \in Layer |-> [c \in Candidate |-> Stale]]
  /\ prefetch = None
  /\ writes = <<>>
  /\ snapshots = [k \in 1 .. Snapshots |-> None]

-----------------------------------------------------------------------------
(* Addresses and guards. *)

Live == {s \in Session : session[s] = "live"}

HostRow(s, i) == (pages[s][(i \div PageTokens) + 1] * PageTokens) + (i % PageTokens)
HostRows(s, indices) == {HostRow(s, i) : i \in indices}
Sorted(indices) == Oldest(indices, [i \in indices |-> i])

Stepping(l, s) == cache[l][s].stepEnd # None
Transient(l, s) == cache[l][s].transientStart # None

(* host_written_end: what the host holds, or will. *)
Persistent(l, s) ==
  IF Transient(l, s) THEN cache[l][s].transientStart ELSE cache[l][s].written

AllHistoryResident(L, l, s) ==
  \/ Persistent(l, s) = 0
  \/ /\ Persistent(l, s) <= Slots
     /\ L.resident.owner = s
     /\ L.resident.end >= Persistent(l, s)

Pending(l, s) == prefetch # None /\ prefetch.layer = l /\ prefetch.owner = s

(* What pool.operation() checks. *)
Usable(l, s) ==
  /\ transient[l] \in {None, s}
  /\ prefetch = None \/ Pending(l, s)

MayStep(s) ==
  /\ s \in Live
  /\ SerialSteps => \A l \in Layer, t \in Session \ {s} : ~Stepping(l, t)

(* A backend in which a rollback raised is poisoned (adapter.py:899): what *)
(* is left of its steps is given up, and nothing new is executed.          *)
Poisoned ==
  SerialSteps /\ \E l \in Layer, s \in Session : cache[l][s].failed /\ ~Stepping(l, s)

(* A caller that has seen a layer fail goes on with none.                  *)
Calls(l, s) ==
  /\ MayStep(s)
  /\ ~Poisoned /\ \A m \in Layer : ~cache[m][s].failed

Drained == writes = <<>>

(* wait_host: the reads that follow wait for this session's writes.        *)
HostReady(l, s) == \A k \in DOMAIN writes : writes[k].owner # s \/ writes[k].layer # l

(* The normalisation in one of n clock events drains the pool.             *)
ClockEvents(l, n) == pool[l].clock + n > Limit => Drained

Set(l, s, c) == cache' = [cache EXCEPT ![l][s] = c]

-----------------------------------------------------------------------------
(* Sessions and their pages. *)

PagesFor(s) == (Capacity[s] + PageTokens - 1) \div PageTokens

Allocate(s) ==
  LET n == PagesFor(s)
      left == Len(freePages) - n IN
  /\ session[s] = "new"
  /\ n <= Len(freePages)
  /\ session' = [session EXCEPT ![s] = "live"]
  /\ pages' = [pages EXCEPT ![s] = Reverse(SubSeq(freePages, left + 1, Len(freePages)))]
  /\ freePages' = SubSeq(freePages, 1, left)
  /\ UNCHANGED <<pool, cache, transient, candidates, prefetch, writes, snapshots>>

Claimed(p) == {p.order[k] : k \in 1 .. p.claimed}

(* The pool of layer l after s's pending prefetch has been finalised.      *)
Settled(l, s) ==
  IF Pending(l, s) THEN Finalized(Leased(pool[l], s), Claimed(prefetch))
                   ELSE pool[l]

WithoutPendingMutant(s) == prefetch
WithoutPending(s) ==
  IF prefetch # None /\ prefetch.owner = s THEN None ELSE prefetch

ReleasedRows(s) == HostRows(s, 0 .. (PagesFor(s) * PageTokens) - 1)

ReturnedPagesMutant(s) ==
  freePages \o SubSeq(pages[s], 1, Capacity[s] \div PageTokens)
ReturnedPages(s) == freePages \o pages[s]

(* release_session: after a drain; it gives up a pending prefetch and a    *)
(* transient suffix, then every host row with its slot, then the pages.    *)
Release(s) ==
  /\ MayStep(s)
  /\ Drained
  /\ prefetch # None => prefetch.owner = s
  /\ session' = [session EXCEPT ![s] = "released"]
  /\ pool' = [l \in Layer |->
       LET L == IF Transient(l, s) THEN Leased(Settled(l, s), s) ELSE Settled(l, s)
       IN Superseded(Released(L, ReleasedRows(s)), s, 0)]
  /\ candidates' = [l \in Layer |-> Aged(candidates[l], s, 0)]
  /\ cache' = [l \in Layer |-> [cache[l] EXCEPT ![s] = EmptyCache]]
  /\ transient' = [l \in Layer |-> IF transient[l] = s THEN None ELSE transient[l]]
  /\ prefetch' = WithoutPending(s)
  /\ freePages' = ReturnedPages(s)
  /\ pages' = [pages EXCEPT ![s] = <<>>]
  /\ UNCHANGED <<writes, snapshots>>

-----------------------------------------------------------------------------
Shortened(c, length) == [EmptyCache EXCEPT !.length = length, !.written = length]

(* Snapshots: a copy of the device side of every layer, the lengths, and   *)
(* the topology, a count of allocations and releases, each of which        *)
(* changes `session` for good.  The host side is not copied.               *)

Quiescent == \A l \in Layer, s \in Live : ~Stepping(l, s)

DeviceSide(L) == [Invalidated(L) EXCEPT !.host = EmptyLayer.host, !.lease = None]

TakeSnapshot(k) ==
  /\ Quiescent /\ ~Poisoned
  /\ Drained
  /\ snapshots' = [snapshots EXCEPT ![k] =
       [topology |-> session, valid |-> TRUE,
        layers |-> [l \in Layer |-> DeviceSide(pool[l])],
        length |-> [l \in Layer |-> [s \in Session |-> cache[l][s].length]]]]
  /\ UNCHANGED <<allocation, pool, cache, transient, candidates, prefetch, writes>>

(* What restore() accepts. *)
Restorable(S) ==
  /\ S # None
  /\ S.topology = session /\ S.valid
  /\ \A l \in Layer, s \in Session : S.length[l][s] <= cache[l][s].length

Restored(L, S) == [S EXCEPT !.host = L.host, !.lease = L.lease]

Restore(k) ==
  LET S == snapshots[k] IN
  /\ Restorable(S)
  /\ Quiescent /\ ~Poisoned
  /\ Drained
  /\ pool' = [l \in Layer |-> Restored(pool[l], S.layers[l])]
  /\ cache' = [l \in Layer |-> [s \in Session |-> Shortened(cache[l][s], S.length[l][s])]]
  /\ UNCHANGED <<allocation, transient, candidates, prefetch, writes, snapshots>>

(* Mutant of Invalidation: a truncation leaves snapshots as they are. *)
InvalidationMutant(S, s, length) == S

Invalidation(S, s, length) ==
  IF S # None /\ \E l \in Layer : S.length[l][s] > length
    THEN [S EXCEPT !.valid = FALSE] ELSE S

(* invalidate_snapshots, which truncate calls. *)
InvalidatedSnapshots(s, length) ==
  [k \in DOMAIN snapshots |-> Invalidation(snapshots[k], s, length)]

(* The records of a snapshot get old like those of the pool. *)
AgedSnapshots(l, s, first) ==
  [k \in DOMAIN snapshots |->
     IF snapshots[k] = None THEN None
     ELSE [snapshots[k] EXCEPT !.layers[l] = Superseded(@, s, first)]]

-----------------------------------------------------------------------------
(* Steps. *)

BeginStep(l, s, count) ==
  LET c == cache[l][s] IN
  /\ Calls(l, s)
  /\ ~Stepping(l, s)
  /\ transient[l] \in {None, s}
  /\ c.length + count <= Capacity[s]
  /\ Set(l, s, [c EXCEPT !.stepEnd = c.length + count, !.written = c.length])
  /\ pool' = [pool EXCEPT ![l] = Superseded(@, s, c.length)]
  /\ snapshots' = AgedSnapshots(l, s, c.length)
  /\ UNCHANGED <<allocation, transient, candidates, prefetch, writes>>

BeginTransient(l, s, count) ==
  LET c == cache[l][s] IN
  /\ Calls(l, s)
  /\ ~Stepping(l, s)
  /\ count <= CandidateSlots
  /\ Usable(l, s)
  /\ transient[l] = None
  /\ transient' = [transient EXCEPT ![l] = s]
  /\ pool' = [pool EXCEPT ![l] = Superseded(Leased(@, s), s, c.length)]
  /\ Set(l, s, [c EXCEPT !.stepEnd = c.length + count, !.written = c.length,
                         !.transientStart = c.length])
  /\ snapshots' = AgedSnapshots(l, s, c.length)
  /\ UNCHANGED <<allocation, candidates, prefetch, writes>>

-----------------------------------------------------------------------------
(* Append. *)

(* append_slots: a plan is made by the first append into an empty session, *)
(* and used as long as nothing has disturbed it.                           *)
Planning(L, s, start, count) ==
  IF start = 0 /\ count <= Slots
    THEN [L EXCEPT !.plan = [owner |-> s, cursor |-> 0, order |-> PriorityOrder(L)]]
    ELSE L

Planned(L, l, s, start, count) ==
  /\ L.plan.owner = s /\ L.plan.cursor = start
  /\ start + count <= Slots
  /\ start > 0 => AllHistoryResident(L, l, s)

New(c, count) == c.written .. c.written + count - 1

(* The slots that an append takes, evicted, and the pool with the records  *)
(* in them.                                                                *)
AppendRoom(l, s, count) ==
  LET start == cache[l][s].written
      L == Planning(Leased(pool[l], s), s, start, count) IN
  IF Planned(L, l, s, start, count)
    THEN LET chosen == SubSeq(L.plan.order, start + 1, start + count) IN
         [planned |-> TRUE, chosen |-> chosen, pool |-> Evicted(L, Range(chosen))]
    ELSE LET protected == HostRows(s, New(cache[l][s], count))
             chosen == SubSeq(Available(L, protected), 1, count) IN
         [planned |-> FALSE, chosen |-> chosen,
          pool |-> Invalidated(Evicted(L, Range(chosen)))]

Appended(l, s, count) ==
  LET c == cache[l][s]
      room == AppendRoom(l, s, count)
      rows == [k \in 1 .. count |-> HostRow(s, c.written + k - 1)]
      record == [k \in 1 .. count |-> <<s, c.written + k - 1>>]
      N == Stamped(Installed(room.pool, rows, room.chosen, record), Range(room.chosen)) IN
  IF room.planned THEN Certified(N, s, c.written + count) ELSE WithoutPlan(N)

AppendMayRun(l, s, count) ==
  /\ Calls(l, s)
  /\ Stepping(l, s) /\ ~Transient(l, s)
  /\ cache[l][s].written + count <= cache[l][s].stepEnd
  /\ ~Pending(l, s) /\ Usable(l, s)
  /\ count <= Slots
  /\ ClockEvents(l, 1)

WriteHostMutant(l, s, indices) ==
  LET first == {i \in indices : i \div PageTokens = Min(indices) \div PageTokens}
      rows == [r \in HostRows(s, first) |->
                 <<s, CHOOSE i \in first : HostRow(s, i) = r>>] IN
  /\ Len(writes) < MaxInflight
  /\ writes' = Append(writes, [owner |-> s, layer |-> l, rows |-> rows])

WriteHost(l, s, indices) ==
  LET rows == [r \in HostRows(s, indices) |->
                 <<s, CHOOSE i \in indices : HostRow(s, i) = r>>] IN
  /\ Len(writes) < MaxInflight
  /\ writes' = Append(writes, [owner |-> s, layer |-> l, rows |-> rows])

AppendRecords(l, s, count) ==
  LET c == cache[l][s] IN
  /\ AppendMayRun(l, s, count)
  /\ pool' = [pool EXCEPT ![l] = Appended(l, s, count)]
  /\ WriteHost(l, s, New(c, count))
  /\ Set(l, s, [c EXCEPT !.written = @ + count])
  /\ UNCHANGED <<allocation, transient, candidates, prefetch, snapshots>>

(* An append that fails before, between or after its updates of the maps.  *)
AppendFails(l, s, count) ==
  LET c == cache[l][s] IN
  /\ AppendMayRun(l, s, count)
  /\ pool' \in {[pool EXCEPT ![l] = L] :
        L \in {Leased(pool[l], s), AppendRoom(l, s, count).pool, Appended(l, s, count)}}
  /\ Set(l, s, [c EXCEPT !.failed = TRUE])
  /\ UNCHANGED <<allocation, transient, candidates, prefetch, writes, snapshots>>

(* The rows of a transient suffix follow the slots; they are in no map.    *)
AppendTransient(l, s, count) ==
  LET c == cache[l][s]
      row(i) == 1 + i - c.transientStart IN
  /\ Calls(l, s)
  /\ Stepping(l, s) /\ Transient(l, s)
  /\ c.written + count <= c.stepEnd
  /\ ~Pending(l, s) /\ Usable(l, s)
  /\ pool' = [pool EXCEPT ![l] = Leased(@, s)]
  /\ candidates' = [candidates EXCEPT ![l] =
       Updated(@, {row(i) : i \in New(c, count)},
               LAMBDA x : <<s, x - 1 + c.transientStart>>)]
  /\ Set(l, s, [c EXCEPT !.written = @ + count])
  /\ UNCHANGED <<allocation, transient, prefetch, writes, snapshots>>

(* The copy stream completes its oldest copy.                              *)
HostWrite ==
  LET w == Head(writes) IN
  /\ writes # <<>>
  /\ writes' = Tail(writes)
  /\ pool' = [pool EXCEPT ![w.layer].host =
                Updated(@, DOMAIN w.rows, LAMBDA r : w.rows[r])]
  /\ UNCHANGED <<allocation, cache, transient, candidates, prefetch, snapshots>>

-----------------------------------------------------------------------------
(* Recall. *)

History(l, s, selection) == {i \in selection : i < Persistent(l, s)}

(* Protection stamps the selected rows that are resident; the others are   *)
(* recalled into slots that hold no selected row.                          *)
Protected(l, s, rows) ==
  LET L == Leased(pool[l], s) IN Stamped(L, Mapped(L, rows))

Recalled(l, s, indices, uncounted) ==
  LET rows == HostRows(s, indices)
      P == Protected(l, s, rows)
      missing == Sorted({i \in indices : P.h2d[HostRow(s, i)] = None})
      wanted == [k \in DOMAIN missing |-> HostRow(s, missing[k])]
      chosen == SubSeq(Available(P, rows), 1, Len(missing))
      fetched == Installed(Evicted(P, Range(chosen)), wanted, chosen,
                           [k \in DOMAIN wanted |-> P.host[wanted[k]]]) IN
  IF missing = <<>> /\ ~uncounted THEN Stamped(P, {})
  ELSE Stamped(Invalidated(fetched), Range(chosen))

EnsureMayRun(l, s, selection) ==
  /\ Calls(l, s)
  /\ \A i \in selection : i < cache[l][s].written
  /\ ~Pending(l, s) /\ Usable(l, s)
  /\ Cardinality(History(l, s, selection)) <= Slots
  /\ ClockEvents(l, 2)

AnyMissing(l, s, indices) == Missing(pool[l], HostRows(s, indices)) # {}

RecallWaitsMutant(l, s, indices) == TRUE
RecallWaits(l, s, indices) == AnyMissing(l, s, indices) => HostReady(l, s)

(* ensure, and _ensure_sparse_from_topk: the latter never learns how many  *)
(* rows were missing, and gives up the proofs in any case.                 *)
Ensure(l, s, selection, uncounted) ==
  LET indices == History(l, s, selection) IN
  /\ EnsureMayRun(l, s, selection)
  /\ uncounted => ~AllHistoryResident(Leased(pool[l], s), l, s) /\ Persistent(l, s) <= Slots /\ HostReady(l, s)
  /\ RecallWaits(l, s, indices)
  /\ pool' = [pool EXCEPT ![l] = Recalled(l, s, indices, uncounted)]
  /\ UNCHANGED <<allocation, cache, transient, candidates, prefetch, writes, snapshots>>

(* A recall that fails after the protection, or after the eviction.        *)
EnsureFails(l, s, selection) ==
  LET rows == HostRows(s, History(l, s, selection))
      P == Protected(l, s, rows)
      P0 == IF AnyMissing(l, s, History(l, s, selection)) THEN WithoutPlan(P) ELSE P
      chosen == SubSeq(Available(P, rows), 1, Cardinality(Missing(P, rows))) IN
  /\ EnsureMayRun(l, s, selection)
  /\ Stepping(l, s)
  /\ pool' \in {[pool EXCEPT ![l] = L] :
        L \in {P0} \cup
              (IF chosen = <<>> THEN {} ELSE {Invalidated(Evicted(P0, Range(chosen)))})}
  /\ Set(l, s, [cache[l][s] EXCEPT !.failed = TRUE])
  /\ UNCHANGED <<allocation, transient, candidates, prefetch, writes, snapshots>>

-----------------------------------------------------------------------------
(* Prefetch: between the new index keys and the new records of a chunk the *)
(* indexer kernel claims slots for history rows it expects to be selected. *)

PreparePrefetch(l, s, count) ==
  LET c == cache[l][s]
      L == Leased(pool[l], s) IN
  /\ Calls(l, s)
  /\ Stepping(l, s)
  /\ c.written + count <= c.stepEnd
  /\ ~Pending(l, s) /\ Usable(l, s)
  /\ Transient(l, s) \/ count <= Slots
  /\ IF AllHistoryResident(L, l, s)
       THEN /\ ClockEvents(l, 1)
            /\ pool' = [pool EXCEPT ![l] = Stamped(L, {})]
            /\ UNCHANGED prefetch
       ELSE /\ HostReady(l, s)
            /\ pool' = [pool EXCEPT ![l] = Invalidated(L)]
            /\ prefetch' = [owner |-> s, layer |-> l, order |-> PriorityOrder(L), claimed |-> 0,
                            limit |-> IF Transient(l, s) THEN Slots ELSE Slots - count]
  /\ UNCHANGED <<allocation, cache, transient, candidates, writes, snapshots>>

(* One claim: the next victim of the prepared order takes the record of a  *)
(* history row that is not mapped.                                         *)
Claim(l, s, i) ==
  LET L == pool[l]
      r == HostRow(s, i)
      x == prefetch.order[prefetch.claimed + 1]
      U == [L EXCEPT !.h2d = Filled(@, {L.d2h[x]} \ {None}, None)] IN
  /\ Calls(l, s)
  /\ Pending(l, s)
  /\ i < Persistent(l, s)
  /\ L.h2d[r] = None
  /\ prefetch.claimed < prefetch.limit
  /\ pool' = [pool EXCEPT ![l] =
       [U EXCEPT !.h2d[r] = x, !.d2h[x] = r, !.records[x] = L.host[r]]]
  /\ prefetch' = [prefetch EXCEPT !.claimed = @ + 1]
  /\ UNCHANGED <<allocation, cache, transient, candidates, writes, snapshots>>

FinalizePrefetch(l, s) ==
  /\ Calls(l, s)
  /\ Pending(l, s)
  /\ ClockEvents(l, 1)
  /\ pool' = [pool EXCEPT ![l] = Settled(l, s)]
  /\ prefetch' = None
  /\ UNCHANGED <<allocation, cache, transient, candidates, writes, snapshots>>

-----------------------------------------------------------------------------
(* The ends of a step. *)

Commit(l, s) ==
  LET c == cache[l][s] IN
  /\ Calls(l, s)
  /\ Stepping(l, s) /\ ~Transient(l, s)
  /\ c.written = c.stepEnd
  /\ Drained
  /\ Set(l, s, [c EXCEPT !.length = c.written, !.stepEnd = None])
  /\ UNCHANGED <<allocation, pool, transient, candidates, prefetch, writes, snapshots>>

(* truncate: the rows behind the new end give up their slots. *)
Shrunk(L, s, length) ==
  Superseded(Released(L, HostRows(s, length .. Capacity[s] - 1)), s, length)

(* rollback of a persistent step: finalise, then truncate.                 *)
Rollback(l, s) ==
  LET c == cache[l][s] IN
  /\ MayStep(s)
  /\ Stepping(l, s) /\ ~Transient(l, s)
  /\ Usable(l, s)
  /\ Drained
  /\ pool' = [pool EXCEPT ![l] = Shrunk(Leased(Settled(l, s), s), s, c.length)]
  /\ prefetch' = WithoutPending(s)
  /\ Set(l, s, Shortened(c, c.length))
  /\ snapshots' = InvalidatedSnapshots(s, c.length)
  /\ UNCHANGED <<allocation, transient, candidates, writes>>

(* While another session holds the layer's transient rows, or another      *)
(* layer the prefetch workspace, the truncation raises, after the step has *)
(* been given up.  A backend is poisoned then; a caller of the bare pool   *)
(* goes on.                                                                *)
RollbackRefused(l, s) ==
  /\ MayStep(s)
  /\ Stepping(l, s) /\ ~Transient(l, s)
  /\ ~Usable(l, s)
  /\ Drained
  /\ Set(l, s, [cache[l][s] EXCEPT !.stepEnd = None, !.failed = SerialSteps])
  /\ UNCHANGED <<allocation, pool, transient, candidates, prefetch, writes, snapshots>>

DiscardTransient(l, s) ==
  LET c == cache[l][s] IN
  /\ MayStep(s)
  /\ Transient(l, s)
  /\ Usable(l, s)
  /\ Drained
  /\ pool' = [pool EXCEPT ![l] = Leased(Settled(l, s), s)]
  /\ candidates' = [candidates EXCEPT ![l] = Aged(@, s, 0)]
  /\ prefetch' = WithoutPending(s)
  /\ transient' = [transient EXCEPT ![l] = None]
  /\ Set(l, s, Shortened(c, c.length))
  /\ UNCHANGED <<allocation, writes, snapshots>>

Truncate(l, s, length) ==
  /\ Calls(l, s)
  /\ ~Stepping(l, s)
  /\ length <= cache[l][s].length
  /\ Usable(l, s)
  /\ Drained
  /\ pool' = [pool EXCEPT ![l] = Shrunk(Leased(@, s), s, length)]
  /\ Set(l, s, Shortened(cache[l][s], length))
  /\ snapshots' = InvalidatedSnapshots(s, length)
  /\ UNCHANGED <<allocation, transient, candidates, prefetch, writes>>

-----------------------------------------------------------------------------
Index(s) == 0 .. Capacity[s] - 1

Step(l, s) ==
  \/ \E count \in 1 .. Capacity[s] :
       \/ BeginStep(l, s, count) \/ BeginTransient(l, s, count)
       \/ AppendRecords(l, s, count) \/ AppendFails(l, s, count)
       \/ AppendTransient(l, s, count)
       \/ PreparePrefetch(l, s, count)
  \/ \E selection \in SUBSET (0 .. Capacity[s] + CandidateSlots - 1) :
       \/ \E uncounted \in BOOLEAN : Ensure(l, s, selection, uncounted)
       \/ EnsureFails(l, s, selection)
  \/ \E i \in Index(s) : Claim(l, s, i)
  \/ FinalizePrefetch(l, s)
  \/ Commit(l, s) \/ Rollback(l, s) \/ RollbackRefused(l, s) \/ DiscardTransient(l, s)
  \/ \E length \in 0 .. Capacity[s] : Truncate(l, s, length)

Next ==
  \/ \E s \in Session : Allocate(s) \/ Release(s)
  \/ \E l \in Layer, s \in Session : Step(l, s)
  \/ HostWrite
  \/ \E k \in DOMAIN snapshots : TakeSnapshot(k) \/ Restore(k)

Spec == Init /\ [][Next]_vars

-----------------------------------------------------------------------------
(* Properties. *)

CacheState ==
  [length : Nat, written : Nat, stepEnd : Nat \cup {None},
   transientStart : Nat \cup {None}, failed : BOOLEAN]

Ticket(w) ==
  /\ w.owner \in Session /\ w.layer \in Layer
  /\ DOMAIN w.rows \subseteq Row /\ Range(w.rows) \subseteq Record

(* The types, and the order of the ends of a step. *)
TypeOK ==
  /\ session \in [Session -> {"new", "live", "released"}]
  /\ pages \in [Session -> Seq(Page)]
  /\ freePages \in Seq(Page)
  /\ \A l \in Layer : pool[l] \in LayerState
  /\ cache \in [Layer -> [Session -> CacheState]]
  /\ \A l \in Layer, s \in Session :
       LET c == cache[l][s] IN
       /\ c.length <= Capacity[s]
       /\ c.stepEnd # None => c.length <= c.written /\ c.written <= c.stepEnd
       /\ c.transientStart # None => c.transientStart = c.length /\ c.stepEnd # None
  /\ transient \in [Layer -> Session \cup {None}]
  /\ candidates \in [Layer -> [Candidate -> Record]]
  /\ prefetch # None => prefetch \in Workspace
  /\ Len(writes) <= MaxInflight /\ \A w \in Range(writes) : Ticket(w)
  /\ \A k \in DOMAIN snapshots : snapshots[k] # None => snapshots[k] \in
       [topology : [Session -> {"new", "live", "released"}], valid : BOOLEAN,
        layers : [Layer -> LayerState], length : [Layer -> [Session -> Nat]]]

ClaimedOf(l) ==
  IF prefetch # None /\ prefetch.layer = l THEN Claimed(prefetch) ELSE {}

(* host_to_device and device_to_host stay each other's inverse, and the    *)
(* free flag and the priority of a slot say the same as its map entry,     *)
(* through evictions of other sessions' rows, claims that are not yet      *)
(* finalised, steps that fail half way, and releases.                      *)
MapsInverse ==
  \A l \in Layer :
    LET L == pool[l] IN
    /\ \A r \in Row, x \in Slot : L.h2d[r] = x <=> L.d2h[x] = r
    /\ \A x \in Slot \ ClaimedOf(l) :
         /\ L.free[x] <=> L.d2h[x] = None
         /\ L.priority[x] = -1 <=> L.d2h[x] = None

(* A mapped slot holds the current record of a written token of a live     *)
(* session: no slot survives the truncation, the rollback or the release   *)
(* of its row, or shows the record of a page's former owner.  Only a step  *)
(* that failed leaves rows behind its end mapped, until it is rolled back. *)
SlotsHoldCurrentRecords ==
  \A l \in Layer, x \in Slot : pool[l].d2h[x] # None =>
    \E s \in Live : \E i \in 0 .. Capacity[s] - 1 :
      /\ HostRow(s, i) = pool[l].d2h[x]
      /\ IF i < Persistent(l, s) THEN pool[l].records[x] = <<s, i>>
                                  ELSE cache[l][s].failed

(* The maps agree with each other and with the records behind them, also   *)
(* after a snapshot has brought back older maps (restore, 826), a page     *)
(* has changed its owner, or a step has failed half way.                   *)
MapsSound == MapsInverse /\ SlotsHoldCurrentRecords

(* What the host row will hold when the copy stream has caught up.         *)
Eventually(l, r) ==
  LET to == {k \in DOMAIN writes : writes[k].layer = l /\ r \in DOMAIN writes[k].rows} IN
  IF to = {} THEN pool[l].host[r] ELSE writes[Max(to)].rows[r]

(* Every persistent token of a live session is in its host row, or on its  *)
(* way there: an eviction never drops the only copy.                       *)
HostKeepsHistory ==
  \A l \in Layer, s \in Live : \A i \in 0 .. Persistent(l, s) - 1 :
    Eventually(l, HostRow(s, i)) = <<s, i>>

(* The host-side proof is sound: when all_history_resident says that no    *)
(* row has to be looked up, every history row is mapped.                   *)
ResidencyProofSound ==
  \A l \in Layer, s \in Live :
    AllHistoryResident(pool[l], l, s)
      => Missing(pool[l], HostRows(s, 0 .. Persistent(l, s) - 1)) = {}

(* An append plan that would still be used takes exactly the slots that    *)
(* the FIFO search would take now, in the same order (append_slots, 593).  *)
PlanIsFifo ==
  \A l \in Layer, s \in Live :
    LET start == cache[l][s].written IN
    ~cache[l][s].failed /\ Planned(pool[l], l, s, start, 1)
      => SubSeq(pool[l].plan.order, start + 1, Slots)
           = SubSeq(Available(pool[l], {}), 1, Slots - start)

(* What the host believes without a look at the device maps is true, also  *)
(* after another session has used the layer: the residency proof and the   *)
(* append plan.                                                            *)
HostProofsSound == ResidencyProofSound /\ PlanIsFifo

(* Every host page is free or belongs to exactly one live session. *)
PagesOwnedOnce ==
  /\ IsInjective(freePages)
  /\ \A s \in Session : IsInjective(pages[s]) /\ Range(pages[s]) \cap Range(freePages) = {}
  /\ \A s, t \in Session : s # t => Range(pages[s]) \cap Range(pages[t]) = {}
  /\ Page = Range(freePages) \cup UNION {Range(pages[s]) : s \in Live}

(* The shared workspace and the candidate rows are held only by a step     *)
(* that is still going to give them back.                                  *)
LeasesHaveAStep ==
  /\ prefetch # None =>
       LET c == cache[prefetch.layer][prefetch.owner] IN
       prefetch.owner \in Live /\ c.stepEnd # None /\ c.written < c.stepEnd
  /\ \A l \in Layer, s \in Session : transient[l] = s <=> Transient(l, s)

(* Steps of two sessions on one layer, which the pool does not keep out    *)
(* (begin_transient looks for a transient suffix only), neither lose a     *)
(* record nor leave the workspace or the candidate rows to a step that is  *)
(* gone.                                                                   *)
StepsKeepApart == HostKeepsHistory /\ LeasesHaveAStep

(* A sole session whose history fits the pool finds an empty slot for      *)
(* every row that is not mapped, so the native paths need not search for   *)
(* victims (append 355, _ensure_sparse_from_topk 666, prepare 796).        *)
SoleSessionHasRoom ==
  \A l \in Layer, s \in Live :
    Live = {s} /\ ~cache[l][s].failed /\ Persistent(l, s) <= Slots
      => Cardinality({x \in Slot : pool[l].d2h[x] = None})
           >= Slots - Persistent(l, s)
                + Cardinality(Missing(pool[l], HostRows(s, 0 .. Persistent(l, s) - 1)))

(* ensure returns, for every selected token, a device row that holds its   *)
(* record: history from its slot, the transient suffix from its row.       *)
EnsureDelivers ==
  [][UNCHANGED cache => \A l \in Layer, s \in Session :
       \A selection \in SUBSET (0 .. cache[l][s].written - 1), uncounted \in BOOLEAN :
         Ensure(l, s, selection, uncounted) =>
           \A i \in selection :
             IF i < Persistent(l, s)
               THEN LET x == pool'[l].h2d[HostRow(s, i)] IN
                    x # None /\ pool'[l].records[x] = <<s, i>>
               ELSE candidates[l][1 + i - cache[l][s].transientStart] = <<s, i>>]_vars

(* A cache that is in no step shows exactly its committed records.         *)
IdleCacheIsCommitted ==
  \A l \in Layer, s \in Live : ~Stepping(l, s) => cache[l][s].written = cache[l][s].length

(* A snapshot that restore() would accept shows only records that are      *)
(* still their sessions' records: no row behind it has been written anew.  *)
RestorableSnapshotsFresh ==
  \A k \in DOMAIN snapshots : Restorable(snapshots[k]) =>
    \A l \in Layer : LET L == snapshots[k].layers[l] IN
      \A x \in Slot : L.d2h[x] # None => L.records[x] # Stale

(* Two slots that keep their rows change their FIFO order only by an event *)
(* that makes one of them the newest: the normalisation at PRIORITY_LIMIT  *)
(* changes no eviction.                                                    *)
FifoOrderKept ==
  [][\A l \in Layer :
       LET L == pool[l]
           M == pool'[l]
           old(x) == L.d2h[x] # None /\ M.d2h[x] = L.d2h[x] /\ M.priority[x] < M.clock - 2 IN
       \A x, y \in Slot : old(x) /\ old(y)
         => (L.priority[x] < L.priority[y] <=> M.priority[x] < M.priority[y])]_vars
=============================================================================
