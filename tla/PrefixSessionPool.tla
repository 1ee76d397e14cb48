-------------------------- MODULE PrefixSessionPool --------------------------
(***************************************************************************)
(* cache/prefix_pool.py: whole-user LRU over sessions that keep a history. *)
(*                                                                         *)
(* This module holds the pool's state and what one look at it or one       *)
(* update of it means; PersistentServing gives the steps, because the      *)
(* allocate and release callbacks run, and fail, in the middle of them.    *)
(* A session plan (cache/capacity.py, SessionPlan) fixes what a session    *)
(* may hold and what it is charged.                                        *)
(***************************************************************************)
EXTENDS Integers, Sequences, SequencesExt, FiniteSetsExt

CONSTANTS
  User,           (* pool keys                                             *)
  History,        (* history identities (the request's prefix signature)   *)
  HistoryTokens,  (* the number of tokens of each history                  *)
  Session,        (* session objects; one per user is enough               *)
  Budget,         (* byte budget of all caches                             *)
  SharedBytes,    (* the fixed part of it that the backend owns            *)
  PageTokens,     (* tokens per host page                                  *)
  PageCapacity,   (* host pages of the arena                               *)
  None

ASSUME PoolAssumption ==
  /\ HistoryTokens \in [History -> Nat \ {0}]
  /\ Budget \in Nat /\ SharedBytes \in 0 .. Budget
  /\ PageTokens \in Nat \ {0} /\ PageCapacity \in Nat
  /\ None \notin User \cup History \cup Session

VARIABLES
  lru,    (* the keys of _entries, least recently acquired first           *)
  entry   (* _entries: per user, its PrefixEntry or None                   *)

Plan == [history : History, capacity : Nat \ {0}]

Entry == [session : Session, plan : Plan, ready : BOOLEAN]

Bytes(plan) == plan.capacity
Pages(plan) == (plan.capacity + PageTokens - 1) \div PageTokens

Cached == {u \in User : entry[u] # None}

PoolInit ==
  /\ lru = <<>>
  /\ entry = [u \in User |-> None]

-----------------------------------------------------------------------------
ReservedBytes == SumFunction([u \in Cached |-> Bytes(entry[u].plan)])
ReservedPages == SumFunction([u \in Cached |-> Pages(entry[u].plan)])

(* One request alone must fit before anything is given up for it. *)
Possible(plan) ==
  /\ SharedBytes + Bytes(plan) <= Budget
  /\ Pages(plan) <= PageCapacity

FitsMutant(plan) == SharedBytes + ReservedBytes + Bytes(plan) <= Budget

(* The negation of the eviction loop's condition. *)
Fits(plan) ==
  /\ SharedBytes + ReservedBytes + Bytes(plan) <= Budget
  /\ ReservedPages + Pages(plan) <= PageCapacity

ReusableMutant(u, plan) ==
  /\ entry[u] # None
  /\ entry[u].ready
  /\ entry[u].plan.capacity >= plan.capacity

(* A hit: built completely, from the same history, large enough. *)
Reusable(u, plan) ==
  /\ entry[u] # None
  /\ entry[u].ready
  /\ entry[u].plan.history = plan.history
  /\ entry[u].plan.capacity >= plan.capacity

TouchMutant(u) ==
  /\ lru' = Append(lru, u)
  /\ UNCHANGED entry

Touch(u) ==
  /\ lru' = Append(RemoveFirst(lru, u), u)
  /\ UNCHANGED entry

Insert(u, s, plan) ==
  /\ lru' = Append(lru, u)
  /\ entry' = [entry EXCEPT ![u] =
                 [session |-> s, plan |-> plan, ready |-> FALSE]]

Delete(u) ==
  /\ lru' = RemoveFirst(lru, u)
  /\ entry' = [entry EXCEPT ![u] = None]

MarkReady(u) ==
  /\ entry' = [entry EXCEPT ![u].ready = TRUE]
  /\ UNCHANGED lru

(* Nothing is charged to the pool beyond its two quotas. *)
QuotaHeld ==
  /\ SharedBytes + ReservedBytes <= Budget
  /\ ReservedPages <= PageCapacity
=============================================================================
