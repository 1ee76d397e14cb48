------------------------- MODULE MCFixedHistoryPool -------------------------
(***************************************************************************)
(* A bounded instance of FixedHistoryPool.                                 *)
(***************************************************************************)
EXTENDS FixedHistoryPool

CONSTANTS a, b, CapacityA, CapacityB

MCCapacity == [s \in Session |-> IF s = a THEN CapacityA ELSE CapacityB]
=============================================================================
