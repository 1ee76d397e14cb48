----------------------------- MODULE HistoryStore -----------------------------
(***************************************************************************)
(* What the DeepSeek backend promises of a session's history: one sequence *)
(* of records, the same in every layer and in every store that keeps it,   *)
(* that grows by the whole of one forward, is cut to a prefix, or goes     *)
(* with the session.  Whatever fails leaves it as it was.  A record is the *)
(* number of the forward that appended it.                                 *)
(***************************************************************************)
EXTENDS Naturals, Sequences

CONSTANTS Session, Capacity

VARIABLES
  store,     (* per session: the set of histories that its stores hold     *)
  forwards   (* how many forwards have begun                               *)

Init ==
  /\ store = [s \in Session |-> {<<>>}]
  /\ forwards = 0

Begin ==
  /\ forwards' = forwards + 1
  /\ UNCHANGED store

Extend(s, n) ==
  /\ \E h \in store[s] :
       /\ store[s] = {h}
       /\ store' = [store EXCEPT ![s] = {h \o [k \in 1 .. n |-> forwards]}]
  /\ UNCHANGED forwards

Cut(s, n) ==
  /\ \E h \in store[s] :
       /\ store[s] = {h} /\ n <= Len(h)
       /\ store' = [store EXCEPT ![s] = {SubSeq(h, 1, n)}]
  /\ UNCHANGED forwards

Next ==
  \/ Begin
  \/ \E s \in Session, n \in 1 .. Capacity : Extend(s, n)
  \/ \E s \in Session, n \in 0 .. Capacity : Cut(s, n)

Spec == Init /\ [][Next]_<<store, forwards>>
=============================================================================
