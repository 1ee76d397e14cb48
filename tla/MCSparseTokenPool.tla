------------------------ MODULE MCSparseTokenPool ------------------------
(***************************************************************************)
(* Bounded instances of SparseTokenPool.                                   *)
(***************************************************************************)
EXTENDS SparseTokenPool

CONSTANTS a, b, CapacityA, CapacityB

MCCapacity == [s \in Session |-> IF s = a THEN CapacityA ELSE CapacityB]

(* Sessions b and c have one capacity. *)
MCSymmetry == Permutations(Session \ {a})

(* Some differences between states have no effect: what an unmapped slot   *)
(* holds is never read, and a snapshot that has become invalid, or whose   *)
(* topology is gone, is never accepted again.                              *)
Shown(L) == [L EXCEPT !.records = Filled(@, {x \in Slot : L.d2h[x] = None}, Stale)]

ShownSnapshot(S) ==
  IF S = None \/ S.topology # session \/ ~S.valid THEN None
  ELSE [S EXCEPT !.layers = [l \in Layer |-> Shown(@[l])]]

MCView ==
  <<allocation, cache, transient, candidates, prefetch, writes,
    [l \in Layer |-> Shown(pool[l])],
    [k \in DOMAIN snapshots |-> ShownSnapshot(snapshots[k])]>>
=============================================================================
