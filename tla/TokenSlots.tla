----------------------------- MODULE TokenSlots -----------------------------
(***************************************************************************)
(* One layer of cache/sparse_token_pool.py as a value: the two maps        *)
(* between host rows and device slots, the FIFO priorities, the proofs     *)
(* that let the host skip a look at them, and what one call does to them.  *)
(* SparseTokenPool holds one such value per layer.                         *)
(*                                                                         *)
(* This is the executable reference path (device "cpu"); the native        *)
(* metadata kernels replace it step by step and have the same effect.      *)
(* Records are data: <<s, i>> is the record that session s last appended   *)
(* at its logical index i, Stale is every other content.                   *)
(***************************************************************************)
EXTENDS Integers, Sequences, SequencesExt, FiniteSetsExt

CONSTANTS
  Session,      (* session owners: an owner number is never used again     *)
  Slots,        (* P, the usable slots; slot 0 is padding and left out     *)
  Rows,         (* the number of host rows                                 *)
  Limit,        (* PRIORITY_LIMIT                                          *)
  None,
  Stale

ASSUME SlotsAssumption ==
  /\ Slots \in Nat \ {0} /\ Rows \in Nat
  /\ Limit \in Nat /\ Limit > Slots
  /\ None \notin Session \cup Nat

Slot == 1 .. Slots
Row  == 0 .. Rows - 1
Record == (Session \X Nat) \cup {Stale}

NoResidency == [owner |-> None, end |-> 0]
NoPlan == [owner |-> None, cursor |-> 0, order |-> <<>>]

LayerState ==
  [h2d : [Row -> Slot \cup {None}], d2h : [Slot -> Row \cup {None}],
   priority : [Slot -> -1 .. Limit], free : [Slot -> BOOLEAN],
   clock : 0 .. Limit, lease : Session \cup {None},
   resident : [owner : Session \cup {None}, end : Nat],
   plan : [owner : Session \cup {None}, cursor : Nat, order : Seq(Slot)],
   records : [Slot -> Record], host : [Row -> Record]]

EmptyLayer ==
  [h2d |-> [r \in Row |-> None], d2h |-> [x \in Slot |-> None],
   priority |-> [x \in Slot |-> -1], free |-> [x \in Slot |-> TRUE],
   clock |-> 0, lease |-> None, resident |-> NoResidency, plan |-> NoPlan,
   records |-> [x \in Slot |-> Stale], host |-> [r \in Row |-> Stale]]

Mapped(L, rows) == {L.h2d[r] : r \in rows} \ {None}
Missing(L, rows) == {r \in rows : L.h2d[r] = None}

Updated(f, domain, value(_)) == [x \in DOMAIN f |-> IF x \in domain THEN value(x) ELSE f[x]]
Filled(f, domain, value) == Updated(f, domain, LAMBDA x : value)

-----------------------------------------------------------------------------
(* Proofs. *)

Invalidated(L) == [L EXCEPT !.resident = NoResidency, !.plan = NoPlan]

WithoutPlan(L) == [L EXCEPT !.plan = NoPlan]

(* A layer lease that changes hands retires the proofs of its last holder. *)
LeasedMutant(L, s) == [L EXCEPT !.lease = s]
Leased(L, s) == IF L.lease = s THEN L ELSE [Invalidated(L) EXCEPT !.lease = s]

Certified(L, s, end) ==
  [L EXCEPT !.resident = [owner |-> s, end |-> end],
            !.plan = [@ EXCEPT !.owner = s, !.cursor = end]]

-----------------------------------------------------------------------------
(* The clock.  At PRIORITY_LIMIT the priorities of the occupied slots are  *)
(* replaced by their ranks, equal ones by equal ranks.                     *)

NormalisedLateMutant(L) == IF L.clock <= Limit THEN L ELSE [L EXCEPT !.clock = 0]

NormalisedMutant(L) ==
  IF L.clock < Limit THEN L
  ELSE [L EXCEPT !.priority = Updated(@, {x \in Slot : L.d2h[x] # None}, LAMBDA x : 0),
                 !.clock = 1]

Normalised(L) ==
  LET live   == {x \in Slot : L.d2h[x] # None}
      values == {L.priority[x] : x \in live}
      rank(x) == Cardinality({v \in values : v < L.priority[x]}) IN
  IF L.clock < Limit THEN L
  ELSE [L EXCEPT !.priority = Updated(@, live, rank), !.clock = Cardinality(values)]

(* One FIFO event; an event for no slot advances the clock too. *)
Stamped(L, slots) ==
  LET N == Normalised(L) IN
  [N EXCEPT !.priority = Filled(@, slots, N.clock), !.clock = @ + 1]

-----------------------------------------------------------------------------
(* Eviction and allocation. *)

(* A stable argsort: the k-th of the slots has k - 1 ahead of it, which are *)
(* older, or as old and of a smaller number.                               *)
Ahead(slots, age, x) ==
  {y \in slots : age[y] < age[x] \/ (age[y] = age[x] /\ y < x)}

Oldest(slots, age) ==
  [k \in 1 .. Cardinality(slots) |->
     CHOOSE x \in slots : Cardinality(Ahead(slots, age, x)) = k - 1]

PriorityOrder(L) == Oldest(Slot, L.priority)

EvictedMutant(L, slots) ==
  [L EXCEPT !.d2h = Filled(@, slots, None),
            !.priority = Filled(@, slots, -1), !.free = Filled(@, slots, TRUE)]

Evicted(L, slots) ==
  [L EXCEPT !.h2d = Filled(@, {L.d2h[x] : x \in slots} \ {None}, None),
            !.d2h = Filled(@, slots, None),
            !.priority = Filled(@, slots, -1), !.free = Filled(@, slots, TRUE)]

(* The slots that do not hold a protected row: empty ones, then by age.    *)
Available(L, protected) ==
  Oldest(Slot \ Mapped(L, protected),
         [x \in Slot |-> IF L.d2h[x] = None THEN -1 ELSE L.priority[x]])

(* Row rows[k] moves into slot chosen[k], which receives records[k].       *)
Installed(L, rows, chosen, records) ==
  LET at(x, q) == CHOOSE k \in DOMAIN q : q[k] = x IN
  [L EXCEPT !.h2d = Updated(@, Range(rows), LAMBDA r : chosen[at(r, rows)]),
            !.d2h = Updated(@, Range(chosen), LAMBDA x : rows[at(x, chosen)]),
            !.free = Filled(@, Range(chosen), FALSE),
            !.records = Updated(@, Range(chosen), LAMBDA x : records[at(x, chosen)])]

(* release_ids: rows give up their slots, and every proof is void. *)
ReleasedMutant(L, rows) ==
  [Invalidated(L) EXCEPT !.h2d = Filled(@, rows, None)]

Released(L, rows) ==
  LET slots == Mapped(L, rows) IN
  [Invalidated(L) EXCEPT
     !.h2d = Filled(@, rows, None), !.d2h = Filled(@, slots, None),
     !.priority = Filled(@, slots, -1), !.free = Filled(@, slots, TRUE)]

(* finalize_prefetch: the claimed slots become the newest. *)
Finalized(L, claimed) ==
  LET N == Stamped(Invalidated(L), claimed) IN
  [N EXCEPT !.free = Filled(@, claimed, FALSE)]

(* From now on what session s had appended at its indices from first on is *)
(* no longer its record, wherever a copy of it is left.                    *)
Aged(f, s, first) ==
  [x \in DOMAIN f |-> IF f[x] # Stale /\ f[x][1] = s /\ f[x][2] >= first THEN Stale ELSE f[x]]

Superseded(L, s, first) ==
  [L EXCEPT !.records = Aged(@, s, first), !.host = Aged(@, s, first)]
=============================================================================
