-------------------------- MODULE ExclusiveStorage --------------------------
(***************************************************************************)
(* What cache/lifecycle.py promises, without saying how: one shared store  *)
(* that is provided, used by registered sessions one operation at a time,  *)
(* and withdrawn only when nobody can reach it.  After a failed completion *)
(* nothing moves any more: the store, its users and the operation whose    *)
(* completion is unknown stay reachable for ever.                          *)
(***************************************************************************)
CONSTANTS
  Session,  (* the sessions that may ever use the store *)
  Plan,     (* what the store may be built from         *)
  None      (* "no plan", "no session"                  *)

VARIABLES
  store,    (* the plan the reachable store was built from, or None *)
  users,    (* the registered sessions                              *)
  busy,     (* the session whose operation has not completed        *)
  broken    (* a completion could not be established                *)

vars == <<store, users, busy, broken>>

Init ==
  /\ store = None
  /\ users = {}
  /\ busy = None
  /\ broken = FALSE

Unused == users = {} /\ busy = None

Provide(p) ==
  /\ ~broken
  /\ Unused
  /\ store = None
  /\ store' = p
  /\ broken' \in BOOLEAN
  /\ UNCHANGED <<users, busy>>

Withdraw ==
  /\ ~broken
  /\ Unused
  /\ store' = None
  /\ UNCHANGED <<users, busy, broken>>

Join(s) ==
  /\ ~broken
  /\ users' = users \cup {s}
  /\ UNCHANGED <<store, busy, broken>>

Leave(s) ==
  /\ ~broken
  /\ busy \in {s, None}
  /\ users' = users \ {s}
  /\ UNCHANGED <<store, busy, broken>>

Start(s) ==
  /\ ~broken
  /\ busy = None
  /\ s \in users
  /\ busy' = s
  /\ UNCHANGED <<store, users, broken>>

Finish ==
  /\ ~broken
  /\ busy # None
  /\ busy' = None
  /\ UNCHANGED <<store, users, broken>>

Break ==
  /\ broken' = TRUE
  /\ UNCHANGED <<store, users, busy>>

Next ==
  \/ \E p \in Plan : Provide(p)
  \/ Withdraw
  \/ \E s \in Session : Join(s) \/ Leave(s) \/ Start(s)
  \/ Finish
  \/ Break

Spec == Init /\ [][Next]_vars
=============================================================================
