------------------------- MODULE DenseForward_proofs -------------------------
(***************************************************************************)
(* The DeepSeek forward for any sessions, layers, capacities and chunks:   *)
(* what a dense pool certifies is there, layers agree between forwards,    *)
(* and the whole implements one history per session (HistoryStore).        *)
(***************************************************************************)
EXTENDS DenseForward, SequenceTheorems, TLAPS

-----------------------------------------------------------------------------
(* The inductive invariant. *)

Executing(s) == forward # None /\ s = forward.session

(* The layers' cursors agree: with the session, and in its forward with    *)
(* each other about where the step ends.                                   *)
CachesOK ==
  ~poisoned => \A s \in Session, l \in Layer :
    IF Executing(s)
    THEN /\ cache[s][l].length = session[s].length
         /\ cache[s][l].transient = (forward.kind = "candidate")
         /\ cache[s][l].stepEnd = cache[s][1].stepEnd
         /\ cache[s][l].stepEnd \in session[s].length + 1 .. Capacity + Candidates
         /\ cache[s][l].written \in session[s].length .. cache[s][l].stepEnd
    ELSE cache[s][l] = IdleCache(session[s].length)

(* Candidates follow the whole prefix and are one chunk; anything else     *)
(* ends within the capacity.                                               *)
KindOK ==
  ~poisoned /\ forward # None =>
    \A l \in Layer :
      IF forward.kind = "candidate"
      THEN /\ session[forward.session].length = session[forward.session].prefix
           /\ Cursor(l).stepEnd = Cursor(l).length + forward.chunk
           /\ Cursor(l).written = IF l < forward.layer THEN Cursor(l).stepEnd ELSE Cursor(l).length
      ELSE Cursor(l).stepEnd <= Capacity

(* The host rows and index keys of all layers hold one history. *)
HistoryOK ==
  \A s \in Session, l \in Layer : \A k \in 1 .. session[s].length :
    /\ rows[s][l].host[k] = rows[s][1].host[k]
    /\ rows[s][l].keys[k] = rows[s][1].host[k]
    /\ rows[s][l].host[k] # Blank

(* What a forward has written after that history is its own. *)
PendingOK ==
  forward # None =>
    /\ forwards # 0
    /\ ~poisoned =>
         \A l \in Layer : ~Cursor(l).transient =>
           \A k \in session[forward.session].length + 1 .. Cursor(l).written :
             /\ rows[forward.session][l].host[k] = forwards
             /\ rows[forward.session][l].keys[k] = forwards

(* The hints that a session has, or gets back when its forward succeeds.   *)
HintsBefore(s) == IF Executing(s) THEN forward.saved ELSE Hints(s)

(* A session with its prefix's length has its hints, unless they stray,    *)
(* also when no truncation has brought it there.                           *)
HintsOK ==
  \A s \in Session :
    /\ session[s].length < session[s].prefix => session[s].strayHints
    /\ session[s].length = session[s].prefix /\ session[s].prefix > 0 =>
         session[s].strayHints \/ HintsBefore(s) = session[s].prefixHint
    /\ session[s].atPrefix => session[s].length = session[s].prefix /\ session[s].prefix > 0
    /\ session[s].lastTransient => session[s].length <= session[s].prefix
    /\ Executing(s) => ~session[s].atPrefix /\ ~session[s].lastTransient

(* One layer y of the pool, while f is the session that executes, or None. *)
(* Slots 1 .. n hold the session's records as its host rows have them.     *)
Holds(y, s, n, hosts) ==
  \A k \in 1 .. n : y.slots[k] = [owner |-> s, record |-> hosts[s].host[k]]

(* A copy in flight has nothing certified beside it; one that is done has  *)
(* brought what was asked for; none is waited for in vain.                 *)
TicketOK(y, f, hosts) ==
  y.ticket # None =>
    /\ Dense /\ f # None
    /\ y.ticket.requested <= Capacity
    /\ \A k \in 1 .. y.ticket.requested : hosts[f].host[k] # Blank
    /\ y.ticket.copying => y.denseOwner = None /\ ~y.ticket.waited
    /\ ~y.ticket.waited => y.ticket.current
    /\ ~y.ticket.copying /\ ~y.ticket.waited => Holds(y, f, y.ticket.requested, hosts)

LayerOK(y, f, hosts) ==
  /\ y \in LayerState
  /\ y.denseOwner # None => Dense /\ Holds(y, y.denseOwner, y.denseEnd, hosts)
  /\ y.denseEnd <= Capacity
  /\ TicketOK(y, f, hosts)

(* The rows of one layer, per session. *)
Rows(l) == [s \in Session |-> rows[s][l]]
ExecutingSession == IF forward = None THEN None ELSE forward.session

LayersOK == \A l \in Layer : LayerOK(layer[l], ExecutingSession, Rows(l))

IInv ==
  /\ TypeOK
  /\ CachesOK /\ KindOK
  /\ HistoryOK /\ PendingOK
  /\ HintsOK
  /\ LayersOK

-----------------------------------------------------------------------------
(* One layer of the pool. *)

(* Nothing is certified after an invalidation. *)
LEMMA InvalidatedState ==
  ASSUME NEW y \in LayerState
  PROVE  /\ Invalidated(y) \in LayerState
         /\ Invalidated(y).denseOwner = None /\ Invalidated(y).denseEnd = 0
         /\ Invalidated(y).slots = y.slots
         /\ y.ticket = None => Invalidated(y).ticket = None
         /\ y.ticket # None =>
              Invalidated(y).ticket = [y.ticket EXCEPT !.current = FALSE]
<1> DEFINE t == IF y.ticket = None THEN None ELSE [y.ticket EXCEPT !.current = FALSE]
<1>1. t \in TicketState \cup {None}
  BY DEF LayerState, TicketState
<1>2. Invalidated(y) = [y EXCEPT !.denseOwner = None, !.denseEnd = 0, !.ticket = t]
  BY DEF Invalidated, LayerState
<1>3. y.ticket # None => t = [y.ticket EXCEPT !.current = FALSE]
  OBVIOUS
<1>4. y.ticket = None => t = None
  OBVIOUS
<1> HIDE DEF t
<1> DEFINE z == [y EXCEPT !.denseOwner = None, !.denseEnd = 0, !.ticket = t]
<1>5. z \in LayerState
  <2> DEFINE u == [y EXCEPT !.denseOwner = None]
             v == [u EXCEPT !.denseEnd = 0]
  <2>1. u \in LayerState
    BY DEF LayerState
  <2>2. v \in LayerState
    <3> HIDE DEF u
    <3> QED
      BY <2>1, SizeAssumption DEF LayerState
  <2>3. [v EXCEPT !.ticket = t] \in LayerState
    <3> HIDE DEF v
    <3> QED
      BY <1>1, <2>2 DEF LayerState
  <2> QED
    BY <2>3
<1>6. z.denseOwner = None /\ z.denseEnd = 0 /\ z.slots = y.slots /\ z.ticket = t
  BY DEF LayerState
<1> QED
  BY <1>2, <1>3, <1>4, <1>5, <1>6

(* A lease keeps the layer sound unless it makes a ticket stale. *)
LEMMA LeasedLayer ==
  ASSUME NEW f, NEW hosts, NEW y, LayerOK(y, f, hosts), NEW s \in Session,
         y.ticket = None \/ y.ticket.waited
  PROVE  /\ LayerOK(Leased(y, s), f, hosts)
         /\ Leased(y, s).slots = y.slots /\ Leased(y, s).lease = s
         /\ y.ticket = None => Leased(y, s).ticket = None
         /\ y.ticket # None => Leased(y, s).ticket # None /\ Leased(y, s).ticket.waited
         /\ Leased(y, s).denseOwner \in {None, y.denseOwner}
         /\ Leased(y, s).denseOwner = y.denseOwner => Leased(y, s).denseEnd \in {0, y.denseEnd}
<1> DEFINE i == Invalidated(y)
           z == [i EXCEPT !.lease = s]
<1>1. y \in LayerState
  BY DEF LayerOK
<1>2. CASE y.lease = s
  BY <1>2 DEF Leased
<1>3. CASE y.lease # s
  <2>1. Leased(y, s) = z
    BY <1>3 DEF Leased
  <2>2. /\ i \in LayerState /\ i.denseOwner = None /\ i.denseEnd = 0 /\ i.slots = y.slots
        /\ y.ticket = None => i.ticket = None
        /\ y.ticket # None => i.ticket = [y.ticket EXCEPT !.current = FALSE]
    BY <1>1, InvalidatedState
  <2> HIDE DEF i
  <2>3. /\ z \in LayerState /\ z.denseOwner = None /\ z.denseEnd = 0 /\ z.slots = y.slots
        /\ z.ticket = i.ticket /\ z.lease = s
    BY <2>2 DEF LayerState
  <2> HIDE DEF z
  <2>4. TicketOK(z, f, hosts)
    <3>1. CASE y.ticket = None
      BY <2>2, <2>3, <3>1 DEF TicketOK
    <3>2. CASE y.ticket # None
      <4>1. y.ticket \in TicketState /\ y.ticket.waited
        BY <1>1, <3>2 DEF LayerState
      <4>2. /\ z.ticket \in TicketState /\ z.ticket.requested = y.ticket.requested
            /\ z.ticket.copying = y.ticket.copying /\ z.ticket.waited
        BY <2>2, <2>3, <3>2, <4>1, ZenonT(60) DEF TicketState
      <4> QED
        BY <3>2, <4>1, <4>2 DEF LayerOK, TicketOK
    <3> QED
      BY <3>1, <3>2
  <2>5. y.ticket # None => z.ticket # None /\ z.ticket.waited
    <3>1. ASSUME y.ticket # None PROVE z.ticket \in TicketState /\ z.ticket.waited
      <4>1. y.ticket \in TicketState /\ y.ticket.waited
        BY <1>1, <3>1 DEF LayerState
      <4> QED
        BY <2>2, <2>3, <3>1, <4>1, ZenonT(60) DEF TicketState
    <3> QED
      BY <3>1, NoneAssumption
  <2>6. LayerOK(z, f, hosts)
    BY <2>3, <2>4, SizeAssumption DEF LayerOK
  <2> QED
    BY <2>1, <2>2, <2>3, <2>5, <2>6
<1> QED
  BY <1>2, <1>3

(* Released slots leave nothing certified and no ticket. *)
LEMMA UnmappedLayer ==
  ASSUME NEW f, NEW hosts, NEW y \in LayerState, y.ticket = None, NEW s \in Session, NEW n \in Nat
  PROVE  /\ LayerOK(Unmapped(y, s, n), f, hosts)
         /\ Unmapped(y, s, n).ticket = None
<1> DEFINE i == Invalidated(y)
           kept == [k \in Slot |-> IF i.slots[k] # None /\ i.slots[k].owner = s /\ k > n
                                   THEN None ELSE i.slots[k]]
           z == [i EXCEPT !.slots = kept]
<1>1. /\ i \in LayerState /\ i.denseOwner = None /\ i.denseEnd = 0
      /\ i.ticket = None
  BY InvalidatedState
<1>2. Unmapped(y, s, n) = z
  BY <1>1 DEF Unmapped
<1> HIDE DEF i
<1>3. kept \in [Slot -> SlotRecord \cup {None}]
  BY <1>1 DEF LayerState
<1> HIDE DEF kept
<1>4. /\ z \in LayerState /\ z.denseOwner = None /\ z.denseEnd = 0 /\ z.ticket = None
  BY <1>1, <1>3 DEF LayerState
<1> QED
  BY <1>2, <1>4, SizeAssumption DEF LayerOK, TicketOK

(* Without a ticket it is no matter who executes; and only the host rows   *)
(* of the certified session matter.                                        *)
LEMMA SameLayer ==
  ASSUME NEW f, NEW g, NEW hosts, NEW others, NEW y, LayerOK(y, f, hosts),
         y.ticket # None => f = g,
         y.denseOwner # None =>
           \A k \in 1 .. y.denseEnd : others[y.denseOwner].host[k] = hosts[y.denseOwner].host[k],
         y.ticket # None =>
           \A k \in 1 .. y.ticket.requested : others[f].host[k] = hosts[f].host[k]
  PROVE  LayerOK(y, g, others)
<1>1. y.denseOwner # None => Holds(y, y.denseOwner, y.denseEnd, others)
  BY DEF LayerOK, Holds
<1>2. TicketOK(y, g, others)
  BY DEF LayerOK, TicketOK, Holds
<1> QED
  BY <1>1, <1>2 DEF LayerOK

(* A certified layer must have what it certifies. *)
LEMMA CertifiedLayer ==
  ASSUME NEW f, NEW hosts, NEW y, LayerOK(y, f, hosts), Dense,
         NEW s \in Session, NEW n \in 0 .. Slots, n <= Capacity,
         Holds(y, s, n, hosts), y.ticket # None => ~y.ticket.copying
  PROVE  /\ LayerOK(Certified(y, s, n), f, hosts)
         /\ Certified(y, s, n).ticket = y.ticket
<1> DEFINE z == Certified(y, s, n)
<1>1. /\ z \in LayerState /\ z.denseOwner = s /\ z.denseEnd = n /\ z.slots = y.slots
      /\ z.ticket = y.ticket
  <2> DEFINE u == [y EXCEPT !.denseOwner = s]
  <2>1. u \in LayerState
    BY DEF LayerOK, LayerState
  <2>2. [u EXCEPT !.denseEnd = n] \in LayerState
    <3> HIDE DEF u
    <3> QED
      BY <2>1 DEF LayerState
  <2>3. z = [u EXCEPT !.denseEnd = n]
    BY DEF Certified
  <2>4. /\ z.denseOwner = s /\ z.denseEnd = n /\ z.slots = y.slots
        /\ z.ticket = y.ticket
    BY DEF LayerOK, LayerState, Certified
  <2> QED
    BY <2>2, <2>3, <2>4
<1> HIDE DEF z
<1>2. Holds(z, s, n, hosts)
  BY <1>1 DEF Holds
<1>3. TicketOK(z, f, hosts)
  BY <1>1 DEF LayerOK, TicketOK, Holds
<1>4. LayerOK(z, f, hosts)
  BY <1>1, <1>2, <1>3 DEF LayerOK
<1> QED
  BY <1>1, <1>4 DEF z

(* A copy brings the host rows of the session that executes. *)
LEMMA CopiedLayer ==
  ASSUME TypeOK, NEW l \in Layer, NEW y, LayerOK(y, ExecutingSession, Rows(l)), Copying(y)
  PROVE  /\ LayerOK(Copied(y, l), ExecutingSession, Rows(l))
         /\ Copied(y, l).ticket # None
         /\ Copied(y, l).ticket.copying = FALSE
<1> DEFINE s == forward.session
           n == y.ticket.requested
           slots == [k \in Slot |-> IF k <= n
                                    THEN [owner |-> s, record |-> rows[s][l].host[k]]
                                    ELSE y.slots[k]]
           u == [y EXCEPT !.ticket.copying = FALSE]
           z == [u EXCEPT !.slots = slots]
<1>1. y \in LayerState /\ y.ticket # None /\ y.ticket \in TicketState /\ y.ticket.copying
  BY DEF LayerOK, Copying, LayerState
<1>2. /\ Dense /\ forward # None /\ s \in Session /\ ExecutingSession = s
      /\ n \in 0 .. Slots /\ n <= Capacity
      /\ \A k \in 1 .. n : Rows(l)[s].host[k] # Blank
      /\ y.denseOwner = None /\ ~y.ticket.waited /\ y.ticket.current
  <2>1. forward # None
    BY <1>1 DEF LayerOK, TicketOK, ExecutingSession
  <2>2. s \in Session /\ ExecutingSession = s
    BY <2>1 DEF TypeOK, ForwardState, ExecutingSession
  <2> QED
    BY <1>1, <2>1, <2>2 DEF LayerOK, TicketOK, TicketState
<1>3. Rows(l)[s] = rows[s][l] /\ rows[s][l] \in RowState
  BY <1>2 DEF Rows, TypeOK
<1>4. Copied(y, l) = z
  BY DEF Copied
<1>5. slots \in [Slot -> SlotRecord \cup {None}]
  <2>1. ASSUME NEW k \in Slot, k <= n PROVE rows[s][l].host[k] \in 1 .. MaxForwards
    <3>1. k \in 1 .. n /\ k \in Position
      BY <1>2, <2>1, SizeAssumption DEF Slot, Position
    <3> QED
      BY <1>2, <1>3, <3>1, SizeAssumption DEF RowState, Blank
  <2> QED
    BY <1>1, <1>2, <2>1 DEF LayerState, SlotRecord
<1>6. Holds([slots |-> slots], s, n, Rows(l))
  BY <1>2, <1>3, SizeAssumption DEF Holds, Slot
<1> HIDE DEF slots
<1>7. u \in LayerState /\ u.denseOwner = None /\ u.denseEnd = y.denseEnd
  BY <1>1, <1>2 DEF LayerState, TicketState
<1>8. u.ticket \in TicketState /\ u.ticket.requested = n /\ ~u.ticket.copying
      /\ ~u.ticket.waited /\ u.ticket.current /\ u.ticket.copying = FALSE
  BY <1>1, <1>2 DEF LayerState, TicketState
<1> HIDE DEF u
<1>9. /\ z \in LayerState /\ z.denseOwner = None /\ z.denseEnd = y.denseEnd
      /\ z.slots = slots /\ z.ticket = u.ticket
  BY <1>5, <1>7 DEF LayerState
<1> HIDE DEF z
<1>10. TicketOK(z, ExecutingSession, Rows(l))
  <2>1. Holds(z, s, n, Rows(l))
    BY <1>6, <1>9 DEF Holds
  <2> QED
    BY <1>2, <1>8, <1>9, <2>1, SizeAssumption DEF TicketOK
<1>11. LayerOK(z, ExecutingSession, Rows(l))
  BY <1>9, <1>10 DEF LayerOK
<1>12. u.ticket # None
  BY <1>8, NoneAssumption
<1> QED
  BY <1>4, <1>8, <1>9, <1>11, <1>12

(* A layer whose ticket is dropped, its copy done or still to be done. *)
LEMMA DroppedLayer ==
  ASSUME NEW f, NEW hosts, NEW y, LayerOK(y, f, hosts)
  PROVE  /\ [y EXCEPT !.ticket = None].ticket = None
         /\ \A g : LayerOK([y EXCEPT !.ticket = None], g, hosts)
<1> DEFINE z == [y EXCEPT !.ticket = None]
<1>1. /\ z \in LayerState /\ z.denseOwner = y.denseOwner /\ z.denseEnd = y.denseEnd
      /\ z.slots = y.slots /\ z.ticket = None
  BY DEF LayerOK, LayerState
<1> HIDE DEF z
<1>2. ASSUME NEW g PROVE LayerOK(z, g, hosts)
  BY <1>1 DEF LayerOK, TicketOK, Holds
<1> QED
  BY <1>1, <1>2 DEF z

(* A drain ends every copy and drops every ticket. *)
LEMMA DrainedLayers ==
  ASSUME TypeOK, LayersOK, NEW l \in Layer
  PROVE  /\ Drained[l].ticket = None
         /\ \A g : LayerOK(Drained[l], g, Rows(l))
<1> DEFINE y == IF Copying(layer[l]) THEN Copied(layer[l], l) ELSE layer[l]
<1>1. LayerOK(y, ExecutingSession, Rows(l))
  BY CopiedLayer DEF LayersOK
<1>2. Drained[l] = [y EXCEPT !.ticket = None]
  BY DEF Drained
<1> HIDE DEF y
<1> QED
  BY <1>1, <1>2, DroppedLayer

(* A new ticket of what is certified, or of a copy into cleared slots. *)
LEMMA RequestedLayer ==
  ASSUME TypeOK, LayersOK, NEW l \in Layer, layer[l].ticket = None, Dense, forward # None,
         Cursor(l).written \in 0 .. Slots, Cursor(l).written <= Capacity,
         \A k \in 1 .. Cursor(l).written : rows[forward.session][l].host[k] # Blank
  PROVE  LayerOK(Requested(l), ExecutingSession, Rows(l))
<1> DEFINE s == forward.session
           n == Cursor(l).written
           y == Leased(layer[l], s)
           i == Invalidated(y)
           slots == [k \in Slot |-> IF k <= n THEN None ELSE i.slots[k]]
           u == [i EXCEPT !.slots = slots]
<1>1. /\ s \in Session /\ ExecutingSession = s /\ n \in 0 .. Slots /\ n <= Capacity
      /\ Rows(l)[s] = rows[s][l] /\ s # None
  <2>1. s \in Session
    BY DEF TypeOK, ForwardState
  <2> QED
    BY <2>1, SizeAssumption DEF ExecutingSession, Rows
<1>2. /\ LayerOK(y, s, Rows(l)) /\ y.ticket = None
      /\ y \in LayerState
  <2>1. LayerOK(layer[l], s, Rows(l))
    BY <1>1 DEF LayersOK
  <2> QED
    BY <1>1, <2>1, LeasedLayer DEF LayerOK
<1>3. \A c \in BOOLEAN : /\ Ticket(n, c) \in TicketState /\ Ticket(n, c).requested = n
                         /\ Ticket(n, c).copying = c /\ ~Ticket(n, c).waited
                         /\ Ticket(n, c).current
  BY <1>1 DEF Ticket, TicketState
<1>4. CASE Resident(y, s, n)
  <2> DEFINE z == [y EXCEPT !.ticket = Ticket(n, FALSE)]
  <2>1. Requested(l) = z
    BY <1>4 DEF Requested
  <2>2. /\ z \in LayerState /\ z.denseOwner = y.denseOwner /\ z.denseEnd = y.denseEnd
        /\ z.slots = y.slots /\ z.ticket = Ticket(n, FALSE)
    BY <1>2, <1>3 DEF LayerState
  <2> HIDE DEF z
  <2>3. Holds(z, s, n, Rows(l))
    <3>1. CASE n = 0
      BY <1>1, <3>1 DEF Holds
    <3>2. CASE y.denseOwner = s /\ y.denseEnd >= n
      <4>1. Holds(y, s, y.denseEnd, Rows(l)) /\ y.denseEnd \in Nat
        BY <1>1, <1>2, <3>2, SizeAssumption DEF LayerOK, LayerState
      <4> QED
        BY <1>1, <2>2, <3>2, <4>1 DEF Holds
    <3> QED
      BY <1>4, <3>1, <3>2 DEF Resident
  <2>4. TicketOK(z, s, Rows(l))
    BY <1>1, <1>3, <2>2, <2>3 DEF TicketOK
  <2>5. LayerOK(z, s, Rows(l))
    BY <1>2, <2>2, <2>4 DEF LayerOK, Holds
  <2> QED
    BY <1>1, <2>1, <2>5
<1>5. CASE ~Resident(y, s, n)
  <2> DEFINE z == [u EXCEPT !.ticket = Ticket(n, TRUE)]
  <2>1. Requested(l) = z
    BY <1>5 DEF Requested
  <2>2. i \in LayerState /\ i.denseOwner = None /\ i.denseEnd = 0
    BY <1>2, InvalidatedState
  <2> HIDE DEF i
  <2>3. slots \in [Slot -> SlotRecord \cup {None}]
    BY <2>2 DEF LayerState
  <2> HIDE DEF slots
  <2>4. u \in LayerState /\ u.denseOwner = None /\ u.denseEnd = 0
    BY <2>2, <2>3 DEF LayerState
  <2> HIDE DEF u
  <2>5. /\ z \in LayerState /\ z.denseOwner = None /\ z.denseEnd = 0
        /\ z.ticket = Ticket(n, TRUE)
    BY <1>3, <2>4 DEF LayerState
  <2> HIDE DEF z
  <2>6. TicketOK(z, s, Rows(l))
    BY <1>1, <1>3, <2>5 DEF TicketOK
  <2>7. LayerOK(z, s, Rows(l))
    BY <2>5, <2>6, SizeAssumption DEF LayerOK
  <2> QED
    BY <1>1, <2>1, <2>7
<1> QED
  BY <1>4, <1>5

(* An append after a certified prefix certifies all of it, in the rows as  *)
(* the append has left them.                                               *)
LEMMA AppendedLayer ==
  ASSUME NEW s \in Session, NEW hosts, NEW y, LayerOK(y, s, hosts), Dense,
         y.ticket # None, y.ticket.waited,
         forwards \in 1 .. MaxForwards,
         NEW start \in Nat, NEW stop \in 0 .. Slots, start <= stop, stop <= Capacity,
         Resident(y, s, start), NEW others,
         \A k \in 1 .. start : others[s].host[k] = hosts[s].host[k],
         \A k \in start + 1 .. stop : others[s].host[k] = forwards,
         \A k \in 1 .. y.ticket.requested : others[s].host[k] # Blank
  PROVE  LayerOK(AppendedTo(y, s, start, stop), s, others)
<1> DEFINE x == IF start = 0 THEN Invalidated(y) ELSE y
           slots == [k \in Slot |-> IF k > start /\ k <= stop
                                    THEN [owner |-> s, record |-> forwards] ELSE x.slots[k]]
           u == [x EXCEPT !.slots = slots]
           v == [u EXCEPT !.denseOwner = s]
           z == [v EXCEPT !.denseEnd = stop]
<1>1. y \in LayerState /\ y.ticket \in TicketState /\ ~y.ticket.copying
  <2>1. y \in LayerState /\ y.ticket \in TicketState
    BY DEF LayerOK, LayerState
  <2> QED
    BY <2>1 DEF LayerOK, TicketOK, TicketState
<1>2. /\ x \in LayerState /\ x.slots = y.slots /\ x.ticket \in TicketState
      /\ x.ticket.requested = y.ticket.requested /\ x.ticket.waited /\ ~x.ticket.copying
  <2>1. CASE start = 0
    <3>1. /\ Invalidated(y) \in LayerState /\ Invalidated(y).slots = y.slots
          /\ Invalidated(y).ticket = [y.ticket EXCEPT !.current = FALSE]
      BY <1>1, InvalidatedState
    <3>2. x = Invalidated(y)
      BY <2>1
    <3> HIDE DEF x
    <3> QED
      BY <1>1, <3>1, <3>2 DEF TicketState
  <2>2. CASE start # 0
    BY <1>1, <2>2
  <2> QED
    BY <2>1, <2>2
<1>3. \A k \in 1 .. start : start # 0 => /\ y.slots[k] = [owner |-> s, record |-> others[s].host[k]]
  BY <1>1, SizeAssumption DEF Resident, LayerOK, Holds, LayerState
<1>4. AppendedTo(y, s, start, stop) = z
  BY DEF AppendedTo, Certified
<1> HIDE DEF x
<1>5. slots \in [Slot -> SlotRecord \cup {None}]
  BY <1>2 DEF LayerState, SlotRecord
<1>6. \A k \in 1 .. stop : slots[k] = [owner |-> s, record |-> others[s].host[k]]
  <2>1. ASSUME NEW k \in 1 .. stop
        PROVE  slots[k] = [owner |-> s, record |-> others[s].host[k]]
    <3>1. k \in Slot
      BY SizeAssumption DEF Slot
    <3>2. CASE k > start
      BY <3>1, <3>2, SizeAssumption
    <3>3. CASE k <= start
      BY <1>2, <1>3, <3>1, <3>3, SizeAssumption
    <3> QED
      BY <3>2, <3>3, SizeAssumption
  <2> QED
    BY <2>1
<1> HIDE DEF slots
<1>7. u \in LayerState /\ u.slots = slots /\ u.ticket = x.ticket
  BY <1>2, <1>5 DEF LayerState
<1> HIDE DEF u
<1>8. v \in LayerState /\ v.slots = slots /\ v.ticket = x.ticket /\ v.denseOwner = s
  BY <1>7 DEF LayerState
<1> HIDE DEF v
<1>9. /\ z \in LayerState /\ z.slots = slots /\ z.ticket = x.ticket /\ z.denseOwner = s
      /\ z.denseEnd = stop
  BY <1>8 DEF LayerState
<1> HIDE DEF z
<1>10. Holds(z, s, stop, others)
  BY <1>6, <1>9 DEF Holds
<1>11. TicketOK(z, s, others)
  <2>1. y.ticket.requested <= Capacity /\ s # None
    BY SizeAssumption DEF LayerOK, TicketOK
  <2> QED
    BY <1>2, <1>9, <2>1 DEF TicketOK
<1> QED
  BY <1>4, <1>9, <1>10, <1>11 DEF LayerOK

-----------------------------------------------------------------------------
(* The steps. *)

(* The layers after a step, from what they are worth one by one. *)
LEMMA NextLayers ==
  ASSUME scheme' = scheme, \A l \in Layer : LayerOK(layer'[l], ExecutingSession', Rows(l)')
  PROVE  LayersOK'
  BY DEF LayersOK, LayerOK, TicketOK, Holds, Dense

(* No session's history changes. *)
HistoryUnchanged ==
  \A t \in Session :
    /\ session'[t].length = session[t].length
    /\ \A k \in 1 .. session[t].length : rows'[t][1].host[k] = rows[t][1].host[k]

(* A fresh backend satisfies the invariant. *)
LEMMA InitIInv == Init => IInv
<1> SUFFICES ASSUME Init PROVE IInv
  OBVIOUS
<1> USE SizeAssumption
<1>1. /\ 0 \in 0 .. Capacity /\ 0 \in 0 .. Capacity + Candidates /\ 0 \in 0 .. MaxForwards
      /\ 0 \in 0 .. Slots
  OBVIOUS
<1>2. NewSession \in SessionState
  BY <1>1 DEF NewSession, SessionState
<1>3. IdleCache(0) \in CacheState /\ IdleCache(0).length <= IdleCache(0).written
  BY <1>1 DEF IdleCache, CacheState
<1>4. NewRows \in RowState
  BY <1>1 DEF NewRows, RowState, Blank
<1>5. /\ session = [s \in Session |-> NewSession]
      /\ cache = [s \in Session |-> [l \in Layer |-> IdleCache(0)]]
      /\ rows = [s \in Session |-> [l \in Layer |-> NewRows]]
      /\ forward = None /\ forwards = 0 /\ failed = FALSE /\ poisoned = FALSE
      /\ scheme \in {"dense_prefetch", "echo"}
  BY DEF Init
<1>6. \A l \in Layer : /\ layer[l] \in LayerState /\ layer[l].denseOwner = None
                       /\ layer[l].denseEnd = 0 /\ layer[l].ticket = None
  BY <1>1 DEF Init, LayerState
<1>7. TypeOK
  <2>1. layer \in [Layer -> LayerState]
    BY <1>6 DEF Init
  <2> QED
    BY <1>1, <1>2, <1>3, <1>4, <1>5, <2>1 DEF TypeOK
<1>8. \A s \in Session : session[s].length = 0 /\ session[s].prefix = 0
                         /\ ~session[s].atPrefix /\ ~session[s].lastTransient
  BY <1>5 DEF NewSession
<1>9. CachesOK /\ KindOK /\ PendingOK
  BY <1>5, <1>8 DEF CachesOK, KindOK, PendingOK, Executing
<1>10. HistoryOK
  BY <1>8 DEF HistoryOK
<1>11. HintsOK
  <2>1. ~(0 < 0) /\ ~(0 > 0) /\ 0 <= 0
    OBVIOUS
  <2>2. \A s \in Session : ~Executing(s)
    BY <1>5 DEF Executing
  <2> QED
    BY <1>8, <2>1, <2>2, Zenon DEF HintsOK
<1>12. LayersOK
  BY <1>6 DEF LayersOK, LayerOK, TicketOK
<1> QED
  BY <1>7, <1>9, <1>10, <1>11, <1>12 DEF IInv

(* A step of the pool alone. *)
LEMMA PoolStep ==
  ASSUME IInv, UNCHANGED <<scheme, session, cache, rows, forward, forwards, poisoned>>,
         failed' \in BOOLEAN, layer' \in [Layer -> LayerState],
         \A l \in Layer : LayerOK(layer'[l], ExecutingSession, Rows(l))
  PROVE  IInv'
<1>1. TypeOK'
  BY DEF IInv, TypeOK
<1>2. CachesOK' /\ KindOK' /\ HistoryOK' /\ PendingOK'
  BY DEF IInv, CachesOK, KindOK, HistoryOK, PendingOK, Executing, Cursor
<1>3. HintsOK'
  BY DEF IInv, HintsOK, HintsBefore, Hints, Executing
<1>4. LayersOK'
  <2>1. ExecutingSession' = ExecutingSession /\ \A l \in Layer : Rows(l)' = Rows(l)
    BY DEF ExecutingSession, Rows
  <2> QED
    BY <2>1, NextLayers
<1> QED
  BY <1>1, <1>2, <1>3, <1>4 DEF IInv

(* A copy lands. *)
LEMMA CopyLandsStep ==
  ASSUME IInv, NEW l \in Layer, CopyLands(l)
  PROVE  IInv'
<1>1. LayerOK(Copied(layer[l], l), ExecutingSession, Rows(l))
  BY CopiedLayer DEF IInv, CopyLands, LayersOK
<1>2. /\ layer' = [layer EXCEPT ![l] = Copied(layer[l], l)]
      /\ layer \in [Layer -> LayerState]
      /\ failed' \in BOOLEAN
      /\ UNCHANGED <<scheme, session, cache, rows, forward, forwards, poisoned>>
  BY DEF IInv, TypeOK, CopyLands
<1>3. layer' \in [Layer -> LayerState]
  BY <1>1, <1>2 DEF LayerOK
<1>4. \A k \in Layer : LayerOK(layer'[k], ExecutingSession, Rows(k))
  BY <1>1, <1>2 DEF IInv, LayersOK
<1> QED
  BY <1>2, <1>3, <1>4, PoolStep

(* What the forward of a trusted backend finds. *)
LEMMA RunningFacts ==
  ASSUME IInv, Running
  PROVE  /\ forward \in ForwardState /\ forward.session \in Session
         /\ ExecutingSession = forward.session /\ forward.session # None
         /\ forwards \in 1 .. MaxForwards
         /\ \A l \in Layer :
              /\ Cursor(l) \in CacheState
              /\ Cursor(l).length = session[forward.session].length
              /\ Cursor(l).transient = (forward.kind = "candidate")
              /\ Cursor(l).stepEnd = Cursor(1).stepEnd
              /\ Cursor(l).stepEnd \in session[forward.session].length + 1 .. Capacity + Candidates
              /\ Cursor(l).written \in session[forward.session].length .. Cursor(l).stepEnd
              /\ session[forward.session].length \in 0 .. Capacity
<1>1. /\ forward \in ForwardState /\ forward.session \in Session /\ forward # None
      /\ ~poisoned
  BY DEF IInv, TypeOK, Running, ForwardState
<1>2. ExecutingSession = forward.session /\ forward.session # None
  BY <1>1, SizeAssumption DEF ExecutingSession
<1>3. forwards \in 1 .. MaxForwards
  BY <1>1, SizeAssumption DEF IInv, TypeOK, PendingOK
<1>4. session[forward.session].length \in 0 .. Capacity
  BY <1>1 DEF IInv, TypeOK, SessionState
<1>5. \A l \in Layer : Cursor(l) \in CacheState
  BY <1>1 DEF IInv, TypeOK, Cursor
<1>6. Executing(forward.session)
  BY <1>1 DEF Executing
<1>7. 1 \in Layer
  BY SizeAssumption DEF Layer
<1> QED
  BY <1>1, <1>2, <1>3, <1>4, <1>5, <1>6, <1>7 DEF IInv, CachesOK, Cursor

(* What a layer that still has to run the chunk has written is in its rows.*)
LEMMA WrittenRows ==
  ASSUME IInv, Running, NEW l \in Layer, forward.kind = "candidate" => ~(l < forward.layer)
  PROVE  /\ Cursor(l).written <= Capacity
         /\ \A k \in 1 .. Cursor(l).written : rows[forward.session][l].host[k] # Blank
<1> DEFINE s == forward.session
           n == session[s].length
<1>1. /\ s \in Session /\ forwards \in 1 .. MaxForwards /\ n \in 0 .. Capacity
      /\ Cursor(l).length = n /\ Cursor(l).written \in n .. Cursor(l).stepEnd
      /\ Cursor(l).stepEnd \in n + 1 .. Capacity + Candidates
      /\ Cursor(l).transient = (forward.kind = "candidate")
      /\ forward # None /\ ~poisoned
  BY RunningFacts DEF Running
<1>2. \A k \in 1 .. n : rows[s][l].host[k] # Blank
  BY <1>1 DEF IInv, HistoryOK
<1>3. CASE forward.kind = "candidate"
  <2>1. Cursor(l).written = n
    BY <1>1, <1>3 DEF IInv, KindOK
  <2> QED
    BY <1>1, <1>2, <2>1
<1>4. CASE forward.kind # "candidate"
  <2>1. Cursor(l).stepEnd <= Capacity
    BY <1>1, <1>4 DEF IInv, KindOK
  <2>2. \A k \in n + 1 .. Cursor(l).written : rows[s][l].host[k] # Blank
    BY <1>1, <1>4 DEF IInv, PendingOK, Blank
  <2> QED
    BY <1>1, <1>2, <2>1, <2>2, SizeAssumption
<1> QED
  BY <1>3, <1>4

(* The layer asked for has not run the chunk yet. *)
LEMMA WantedLayer ==
  ASSUME IInv, Running, NEW l \in Layer, Wanted(l), Cursor(l).written <= Slots
  PROVE  LayerOK(Requested(l), ExecutingSession, Rows(l))
<1>1. /\ forward \in ForwardState /\ Cursor(l) \in CacheState /\ forward # None
  BY RunningFacts DEF Running
<1>2. ~(l < forward.layer)
  BY <1>1, SizeAssumption DEF Wanted, ForwardState, Layer
<1>3. /\ Cursor(l).written <= Capacity
      /\ \A k \in 1 .. Cursor(l).written : rows[forward.session][l].host[k] # Blank
  BY <1>2, WrittenRows
<1>4. Cursor(l).written \in 0 .. Slots
  BY <1>1, SizeAssumption DEF CacheState
<1> QED
  BY <1>1, <1>3, <1>4, RequestedLayer DEF IInv, Wanted

(* A layer's history is asked for. *)
LEMMA SubmitStep ==
  ASSUME IInv, NEW l \in Layer, Submit(l)
  PROVE  IInv'
<1>1. LayerOK(Requested(l), ExecutingSession, Rows(l))
  BY WantedLayer DEF Submit
<1>2. /\ layer' = [layer EXCEPT ![l] = Requested(l)]
      /\ layer \in [Layer -> LayerState]
      /\ failed' \in BOOLEAN
      /\ UNCHANGED <<scheme, session, cache, rows, forward, forwards, poisoned>>
  BY DEF IInv, TypeOK, Submit
<1>3. layer' \in [Layer -> LayerState]
  BY <1>1, <1>2 DEF LayerOK
<1>4. \A k \in Layer : LayerOK(layer'[k], ExecutingSession, Rows(k))
  BY <1>1, <1>2 DEF IInv, LayersOK
<1> QED
  BY <1>2, <1>3, <1>4, PoolStep

(* A wait certifies what was asked for. *)
LEMMA WaitStep ==
  ASSUME IInv, NEW l \in Layer, Wait(l)
  PROVE  IInv'
<1> DEFINE s == forward.session
           y == layer[l]
           n == y.ticket.requested
           c == Certified(y, s, n)
           z == [c EXCEPT !.ticket.waited = TRUE]
<1>1. /\ layer' = [layer EXCEPT ![l] = z]
      /\ layer \in [Layer -> LayerState] /\ y \in LayerState
      /\ failed' \in BOOLEAN
      /\ UNCHANGED <<scheme, session, cache, rows, forward, forwards, poisoned>>
      /\ y.ticket # None /\ ~y.ticket.waited /\ ~y.ticket.copying /\ Dense /\ Running
  BY DEF IInv, TypeOK, Wait
<1>2. s \in Session /\ ExecutingSession = s
  BY <1>1, RunningFacts
<1>3. LayerOK(y, s, Rows(l))
  BY <1>2 DEF IInv, LayersOK
<1>4. y.ticket \in TicketState /\ n \in 0 .. Slots
  BY <1>1 DEF LayerState, TicketState
<1>5. n <= Capacity /\ Holds(y, s, n, Rows(l))
  BY <1>1, <1>3 DEF LayerOK, TicketOK
<1>6. LayerOK(c, s, Rows(l)) /\ c.ticket = y.ticket
  BY <1>1, <1>2, <1>3, <1>4, <1>5, CertifiedLayer
<1> HIDE DEF c
<1>7. /\ z \in LayerState /\ z.denseOwner = c.denseOwner /\ z.denseEnd = c.denseEnd
      /\ z.slots = c.slots
  BY <1>4, <1>6 DEF LayerOK, LayerState, TicketState
<1>8. /\ z.ticket \in TicketState /\ z.ticket.requested = n
      /\ ~z.ticket.copying /\ z.ticket.waited
  BY <1>1, <1>4, <1>6 DEF LayerOK, LayerState, TicketState
<1> HIDE DEF z
<1>9. TicketOK(z, s, Rows(l))
  BY <1>1, <1>3, <1>8 DEF LayerOK, TicketOK
<1>10. LayerOK(z, s, Rows(l))
  BY <1>6, <1>7, <1>9 DEF LayerOK, Holds
<1>11. layer' \in [Layer -> LayerState]
  BY <1>1, <1>7
<1>12. \A k \in Layer : LayerOK(layer'[k], ExecutingSession, Rows(k))
  BY <1>1, <1>2, <1>10 DEF IInv, LayersOK
<1> QED
  BY <1>1, <1>11, <1>12, PoolStep

(* Between forwards nothing is on its way. *)
LEMMA IdleFacts ==
  ASSUME IInv, forward = None
  PROVE  /\ ExecutingSession = None
         /\ \A s \in Session : ~Executing(s) /\ HintsBefore(s) = Hints(s)
         /\ \A l \in Layer : /\ layer[l] \in LayerState /\ layer[l].ticket = None
                             /\ \A g : LayerOK(layer[l], g, Rows(l))
<1>1. ExecutingSession = None /\ \A s \in Session : ~Executing(s) /\ HintsBefore(s) = Hints(s)
  BY DEF ExecutingSession, Executing, HintsBefore
<1>2. ASSUME NEW l \in Layer
      PROVE  /\ layer[l] \in LayerState /\ layer[l].ticket = None
             /\ \A g : LayerOK(layer[l], g, Rows(l))
  <2>1. LayerOK(layer[l], None, Rows(l))
    BY <1>1 DEF IInv, LayersOK
  <2>2. layer[l].ticket = None /\ layer[l] \in LayerState
    BY <2>1 DEF LayerOK, TicketOK
  <2> QED
    BY <2>1, <2>2 DEF LayerOK, TicketOK
<1> QED
  BY <1>1, <1>2

(* A session comes to life with nothing else changed. *)
LEMMA CreateStep ==
  ASSUME IInv, NEW s \in Session, Create(s)
  PROVE  IInv'
<1>1. /\ session' = [session EXCEPT ![s].status = "live"]
      /\ UNCHANGED <<scheme, cache, rows, layer, forward, forwards, failed, poisoned>>
  BY DEF Create
<1>2. /\ session' \in [Session -> SessionState]
      /\ \A t \in Session :
           /\ session'[t].length = session[t].length /\ session'[t].prefix = session[t].prefix
           /\ session'[t].prefixHint = session[t].prefixHint
           /\ session'[t].lastTransient = session[t].lastTransient
           /\ session'[t].atPrefix = session[t].atPrefix
           /\ session'[t].strayHints = session[t].strayHints
  BY <1>1, ZenonT(60) DEF IInv, TypeOK, SessionState
<1>3. TypeOK'
  BY <1>1, <1>2 DEF IInv, TypeOK
<1>4. CachesOK'
  BY <1>1, <1>2 DEF IInv, CachesOK, Executing
<1>5. KindOK' /\ PendingOK'
  <2>1. forward # None => forward.session \in Session
    BY DEF IInv, TypeOK, ForwardState
  <2> QED
    BY <1>1, <1>2, <2>1 DEF IInv, KindOK, PendingOK, Cursor
<1>6. HistoryOK'
  BY <1>1, <1>2 DEF IInv, HistoryOK
<1>7. HintsOK'
  BY <1>1, <1>2 DEF IInv, HintsOK, HintsBefore, Hints, Executing
<1>8. LayersOK'
  <2>1. /\ ExecutingSession' = ExecutingSession /\ \A l \in Layer : Rows(l)' = Rows(l)
        /\ layer' = layer /\ scheme' = scheme
    BY <1>1 DEF ExecutingSession, Rows
  <2> QED
    BY <2>1, NextLayers DEF IInv, LayersOK
<1> QED
  BY <1>3, <1>4, <1>5, <1>6, <1>7, <1>8 DEF IInv

(* A forward begins: the step of every layer, and the hints put by. *)
LEMMA BeginStep ==
  ASSUME IInv, NEW s \in Session, NEW kind \in {"prefill", "extend", "candidate"},
         NEW n \in Position, Begin(s, kind, n)
  PROVE  IInv'
<1> DEFINE L == session[s].length
           chunk == IF kind = "prefill" THEN ChunkSize ELSE n
           c == [length |-> L, written |-> L, stepEnd |-> L + n, transient |-> kind = "candidate"]
           x == [session[s] EXCEPT !.lastTransient = FALSE, !.atPrefix = FALSE]
<1>1. /\ ~poisoned /\ forward = None /\ forwards < MaxForwards /\ Accepts(s, kind, n)
      /\ session' = [session EXCEPT ![s] = x]
      /\ layer' = IF kind = "candidate" THEN [l \in Layer |-> Leased(layer[l], s)] ELSE layer
      /\ forward' = [session |-> s, kind |-> kind, layer |-> 1, saved |-> Hints(s),
                     chunk |-> chunk]
      /\ forwards' = forwards + 1
      /\ UNCHANGED <<scheme, rows, failed, poisoned>>
  BY DEF Begin, IInv, TypeOK
<1>2. \A t \in Session, l \in Layer : cache[t][l] = IdleCache(session[t].length)
  BY <1>1, IdleFacts DEF IInv, CachesOK
<1>3. cache' = [cache EXCEPT ![s] = [l \in Layer |-> c]]
  <2> DEFINE d == [l \in Layer |->
                     [length |-> cache[s][l].length, written |-> cache[s][l].length,
                      stepEnd |-> cache[s][l].length + n, transient |-> kind = "candidate"]]
  <2>1. ASSUME NEW l \in Layer PROVE cache[s][l].length = L
    <3>1. cache[s][l] = IdleCache(L)
      BY <1>2
    <3> QED
      BY <3>1 DEF IdleCache
  <2>2. d = [l \in Layer |-> c]
    BY <2>1
  <2>3. cache' = [cache EXCEPT ![s] = d]
    BY DEF Begin, IInv, TypeOK
  <2> QED
    BY <2>2, <2>3
<1>4. /\ session \in [Session -> SessionState] /\ L \in 0 .. Capacity /\ n \in 1 .. Capacity
      /\ session[s].prefix \in 0 .. Capacity /\ Capacity \in Nat /\ Candidates \in Nat
      /\ cache \in [Session -> [Layer -> CacheState]]
      /\ rows \in [Session -> [Layer -> RowState]]
      /\ layer \in [Layer -> LayerState] /\ forwards \in 0 .. MaxForwards
      /\ forwards + 1 \in 1 .. MaxForwards /\ MaxForwards \in Nat
      /\ chunk \in Nat \ {0}
  BY <1>1, SizeAssumption DEF IInv, TypeOK, SessionState, Position
<1>5. /\ kind = "candidate" => L = session[s].prefix /\ n <= Candidates /\ L > 0
      /\ kind # "candidate" => L + n <= Capacity
  <2>1. CASE kind = "candidate"
    BY <1>1, <1>4, <2>1 DEF Accepts
  <2>2. CASE kind = "prefill"
    BY <1>1, <1>4, <2>2 DEF Accepts
  <2>3. CASE kind = "extend"
    BY <1>1, <1>4, <2>3 DEF Accepts
  <2> QED
    BY <2>1, <2>2, <2>3
<1>6. /\ c \in CacheState /\ c.length = L /\ c.written = L /\ c.stepEnd = L + n
      /\ c.transient = (kind = "candidate")
      /\ L + n \in L + 1 .. Capacity + Candidates
      /\ kind # "candidate" => L + n <= Capacity
  BY <1>4, <1>5 DEF CacheState
<1>7. /\ x \in SessionState /\ x.length = L /\ x.prefix = session[s].prefix
      /\ x.prefixHint = session[s].prefixHint /\ x.strayHints = session[s].strayHints
      /\ x.lastTransient = FALSE /\ x.atPrefix = FALSE
  BY <1>4, ZenonT(60) DEF SessionState
<1> HIDE DEF x, c, chunk
<1>8. /\ session' \in [Session -> SessionState] /\ session'[s] = x
      /\ \A t \in Session \ {s} : session'[t] = session[t]
      /\ cache' \in [Session -> [Layer -> CacheState]] /\ \A l \in Layer : cache'[s][l] = c
      /\ \A t \in Session \ {s} : cache'[t] = cache[t]
  BY <1>1, <1>3, <1>4, <1>6, <1>7
<1>9. Hints(s) \in [Layer -> 0 .. MaxForwards]
  BY <1>4 DEF Hints, RowState
<1>10. /\ forward' \in ForwardState /\ forward' # None /\ forward'.session = s
       /\ forward'.kind = kind /\ forward'.layer = 1 /\ forward'.saved = Hints(s)
       /\ forward'.chunk = chunk
  <2>1. 1 \in 1 .. Layers + 1
    BY SizeAssumption
  <2>2. forward' \in ForwardState
    BY <1>1, <1>4, <1>9, <2>1 DEF ForwardState
  <2> QED
    BY <1>1, <2>2, NoneAssumption
<1>11. \A t \in Session : Executing(t)' <=> t = s
  BY <1>10 DEF Executing
<1>12. \A l \in Layer : LayerOK(layer'[l], s, Rows(l)) /\ layer'[l] \in LayerState
  <2>1. ASSUME NEW l \in Layer
        PROVE  LayerOK(layer'[l], s, Rows(l))
    <3>1. layer[l].ticket = None /\ LayerOK(layer[l], s, Rows(l))
      BY <1>1, IdleFacts
    <3>2. LayerOK(Leased(layer[l], s), s, Rows(l))
      BY <3>1, LeasedLayer
    <3> QED
      BY <1>1, <3>1, <3>2
  <2> QED
    BY <2>1 DEF LayerOK
<1>13. TypeOK'
  <2>1. layer' \in [Layer -> LayerState]
    BY <1>1, <1>4, <1>12
  <2>2. ASSUME NEW t \in Session, NEW l \in Layer
        PROVE  cache'[t][l].length <= cache'[t][l].written
    <3>1. CASE t = s
      BY <1>4, <1>6, <1>8, <3>1
    <3>2. CASE t # s
      BY <1>8, <3>2 DEF IInv, TypeOK
    <3> QED
      BY <3>1, <3>2
  <2> QED
    BY <1>1, <1>4, <1>8, <1>10, <2>1, <2>2 DEF IInv, TypeOK
<1>14. CachesOK'
  <2>1. ASSUME NEW t \in Session, NEW l \in Layer, t # s
        PROVE  cache'[t][l] = IdleCache(session'[t].length)
    BY <1>2, <1>8, <2>1
  <2>2. ASSUME NEW l \in Layer
        PROVE  /\ cache'[s][l].length = session'[s].length
               /\ cache'[s][l].transient = (forward'.kind = "candidate")
               /\ cache'[s][l].stepEnd = cache'[s][1].stepEnd
               /\ cache'[s][l].stepEnd \in session'[s].length + 1 .. Capacity + Candidates
               /\ cache'[s][l].written \in session'[s].length .. cache'[s][l].stepEnd
    <3>1. 1 \in Layer
      BY SizeAssumption DEF Layer
    <3> QED
      BY <1>4, <1>6, <1>7, <1>8, <1>10, <3>1
  <2> QED
    BY <1>11, <2>1, <2>2 DEF CachesOK, IdleCache
<1>15. KindOK'
  <2>1. chunk = n \/ kind # "candidate"
    BY DEF chunk
  <2>2. \A l \in Layer : ~(l < 1)
    BY SizeAssumption DEF Layer
  <2> QED
    BY <1>4, <1>5, <1>6, <1>7, <1>8, <1>10, <2>1, <2>2 DEF KindOK, Cursor
<1>16. HistoryOK'
  BY <1>1, <1>7, <1>8 DEF IInv, HistoryOK
<1>17. PendingOK'
  BY <1>1, <1>4, <1>6, <1>7, <1>8, <1>10 DEF PendingOK, Cursor
<1>18. HintsOK'
  <2>1. \A t \in Session : HintsBefore(t)' = HintsBefore(t)
    <3>1. \A t \in Session : Hints(t)' = Hints(t)
      BY <1>1 DEF Hints
    <3> QED
      BY <1>1, <1>10, <1>11, <3>1, IdleFacts DEF HintsBefore
  <2> QED
    BY <1>4, <1>7, <1>8, <1>11, <2>1, IdleFacts DEF IInv, HintsOK
<1>19. LayersOK'
  <2>1. ExecutingSession' = s /\ scheme' = scheme /\ \A l \in Layer : Rows(l)' = Rows(l)
    BY <1>1, <1>10 DEF ExecutingSession, Rows
  <2> QED
    BY <1>12, <2>1, NextLayers
<1> QED
  BY <1>13, <1>14, <1>15, <1>16, <1>17, <1>18, <1>19 DEF IInv

(* Where a chunk ends, and what it leaves in the rows of a layer. *)
LEMMA ChunkFacts ==
  ASSUME IInv, Running, NEW l \in Layer
  PROVE  /\ ChunkEnd(l) \in Cursor(l).written .. Cursor(l).stepEnd
         /\ Written(l) \in RowState
         /\ \A k \in Position :
              /\ Written(l).host[k] = IF k > Cursor(l).written /\ k <= ChunkEnd(l) THEN forwards
                                      ELSE rows[forward.session][l].host[k]
              /\ Written(l).keys[k] = IF k > Cursor(l).written /\ k <= ChunkEnd(l) THEN forwards
                                      ELSE rows[forward.session][l].keys[k]
<1> DEFINE r == rows[forward.session][l]
           host == Stored(r.host, Cursor(l).written, ChunkEnd(l))
           keys == Stored(r.keys, Cursor(l).written, ChunkEnd(l))
           u == [r EXCEPT !.host = host]
<1>1. /\ forward \in ForwardState /\ Cursor(l) \in CacheState /\ forwards \in 1 .. MaxForwards
      /\ Cursor(l).stepEnd \in Nat /\ Cursor(l).written \in Nat
      /\ Cursor(l).written <= Cursor(l).stepEnd
      /\ r \in RowState
  <2>1. forward.session \in Session
    BY RunningFacts
  <2>2. r \in RowState
    BY <2>1 DEF IInv, TypeOK
  <2>3. session[forward.session].length \in 0 .. Capacity
    BY RunningFacts
  <2> QED
    BY <2>2, <2>3, RunningFacts, SizeAssumption
<1>2. ChunkEnd(l) \in Cursor(l).written .. Cursor(l).stepEnd
  BY <1>1 DEF ChunkEnd, ForwardState
<1>3. host \in [Position -> 0 .. MaxForwards] /\ keys \in [Position -> 0 .. MaxForwards]
  BY <1>1, SizeAssumption DEF Stored, RowState
<1>4. \A k \in Position :
        /\ host[k] = IF k > Cursor(l).written /\ k <= ChunkEnd(l) THEN forwards ELSE r.host[k]
        /\ keys[k] = IF k > Cursor(l).written /\ k <= ChunkEnd(l) THEN forwards ELSE r.keys[k]
  BY DEF Stored
<1>5. Written(l) = [u EXCEPT !.keys = keys]
  BY DEF Written
<1> HIDE DEF host, keys
<1>6. u \in RowState /\ u.host = host
  BY <1>1, <1>3 DEF RowState
<1> HIDE DEF u
<1>7. Written(l) \in RowState /\ Written(l).host = host /\ Written(l).keys = keys
  BY <1>3, <1>5, <1>6 DEF RowState
<1> QED
  BY <1>2, <1>4, <1>7

(* A layer executes a chunk. *)
LEMMA BlockStep ==
  ASSUME IInv, NEW l \in Layer, NEW hinted \in BOOLEAN, Block(l, hinted)
  PROVE  IInv' /\ HistoryUnchanged
<1> DEFINE s == forward.session
           c == Cursor(l)
           W == c.written
           e == ChunkEnd(l)
           L == session[s].length
           kept == IF c.transient THEN rows[s][l] ELSE Written(l)
           r == IF hinted THEN [kept EXCEPT !.hint = forwards] ELSE kept
           y == Leased(layer[l], s)
           z == IF Dense /\ ~c.transient THEN AppendedTo(y, s, W, e) ELSE y
<1>1. /\ Running /\ forward # None /\ ~poisoned /\ l = forward.layer
      /\ Dense => Joined(l)
      /\ Dense /\ ~c.transient => e <= Slots /\ Resident(y, s, W)
      /\ layer' = [layer EXCEPT ![l] = z]
      /\ rows' = [rows EXCEPT ![s][l] = r]
      /\ cache' = [cache EXCEPT ![s][l].written = e]
      /\ forward' = [forward EXCEPT !.layer = l + 1]
      /\ UNCHANGED <<scheme, session, forwards, failed, poisoned>>
  BY DEF Block, Ready, Running
<1>2. /\ s \in Session /\ ExecutingSession = s /\ forwards \in 1 .. MaxForwards
      /\ forward \in ForwardState
      /\ c \in CacheState /\ c.length = L /\ c.transient = (forward.kind = "candidate")
      /\ L \in 0 .. Capacity /\ W \in L .. c.stepEnd
      /\ c.stepEnd \in L + 1 .. Capacity + Candidates
      /\ c.transient \in BOOLEAN
  BY <1>1, RunningFacts
<1>3. /\ Capacity \in Nat /\ Candidates \in Nat /\ Slots \in Nat /\ MaxForwards \in Nat
      /\ cache \in [Session -> [Layer -> CacheState]]
      /\ rows \in [Session -> [Layer -> RowState]]
      /\ layer \in [Layer -> LayerState]
      /\ c = cache[s][l]
  BY SizeAssumption DEF IInv, TypeOK, Cursor
<1>4. /\ e \in W .. c.stepEnd /\ e \in Nat /\ W \in Nat /\ L \in Nat /\ c.stepEnd \in Nat
      /\ e <= c.stepEnd /\ W <= e /\ L <= W
  <2>1. e \in W .. c.stepEnd
    BY <1>1, ChunkFacts
  <2> QED
    BY <1>2, <1>3, <2>1
<1>5. ~c.transient => c.stepEnd <= Capacity /\ e <= Capacity
  <2>1. ~c.transient => c.stepEnd <= Capacity
    BY <1>1, <1>2 DEF IInv, KindOK
  <2> QED
    BY <1>3, <1>4, <2>1
<1>6. c.transient => W = L /\ e = c.stepEnd
  <2>1. ASSUME c.transient
        PROVE  c.stepEnd = L + forward.chunk /\ W = L
    <3>1. ~(l < forward.layer)
      BY <1>1, SizeAssumption DEF Layer
    <3> QED
      BY <1>1, <1>2, <2>1, <3>1 DEF IInv, KindOK
  <2> QED
    BY <1>4, <2>1 DEF ChunkEnd
(* the rows *)
<1>7. /\ kept \in RowState
      /\ \A k \in Position :
           /\ c.transient \/ ~(k > W /\ k <= e) =>
                kept.host[k] = rows[s][l].host[k] /\ kept.keys[k] = rows[s][l].keys[k]
           /\ ~c.transient /\ k > W /\ k <= e =>
                kept.host[k] = forwards /\ kept.keys[k] = forwards
  <2>1. CASE c.transient
    BY <1>2, <1>3, <2>1
  <2>2. CASE ~c.transient
    BY <1>1, <2>2, ChunkFacts
  <2> QED
    BY <2>1, <2>2, SMTT(40)
<1> HIDE DEF kept
<1>8. r \in RowState /\ r.host = kept.host /\ r.keys = kept.keys
  BY <1>2, <1>3, <1>7 DEF RowState
<1> HIDE DEF r
<1>9. /\ rows' \in [Session -> [Layer -> RowState]] /\ rows'[s][l] = r
      /\ \A m \in Layer \ {l} : rows'[s][m] = rows[s][m]
      /\ \A t \in Session \ {s} : rows'[t] = rows[t]
  BY <1>1, <1>2, <1>3, <1>8
<1>10. \A k \in Position :
         /\ c.transient \/ ~(k > W /\ k <= e) =>
              r.host[k] = rows[s][l].host[k] /\ r.keys[k] = rows[s][l].keys[k]
         /\ ~c.transient /\ k > W /\ k <= e =>
              r.host[k] = forwards /\ r.keys[k] = forwards
  BY <1>7, <1>8
(* the cursors *)
<1>11. /\ cache' \in [Session -> [Layer -> CacheState]]
       /\ cache'[s][l].length = L /\ cache'[s][l].written = e
       /\ cache'[s][l].stepEnd = c.stepEnd /\ cache'[s][l].transient = c.transient
       /\ \A m \in Layer \ {l} : cache'[s][m] = cache[s][m]
       /\ \A t \in Session \ {s} : cache'[t] = cache[t]
  <2> DEFINE d == [c EXCEPT !.written = e]
  <2>1. e \in 0 .. Capacity + Candidates
    BY <1>2, <1>3, <1>4
  <2>2. d \in CacheState /\ d.length = L /\ d.written = e /\ d.stepEnd = c.stepEnd
        /\ d.transient = c.transient
    BY <1>2, <2>1 DEF CacheState
  <2>3. cache' = [cache EXCEPT ![s][l] = d]
    BY <1>1, <1>3
  <2> HIDE DEF d
  <2> QED
    BY <1>2, <1>3, <2>2, <2>3
<1>12. /\ forward' \in ForwardState /\ forward' # None /\ forward'.session = s
       /\ forward'.kind = forward.kind /\ forward'.layer = l + 1
       /\ forward'.saved = forward.saved /\ forward'.chunk = forward.chunk
  <2>1. l + 1 \in 1 .. Layers + 1
    BY SizeAssumption DEF Layer
  <2>2. forward' \in ForwardState
    BY <1>1, <1>2, <2>1 DEF ForwardState
  <2> QED
    BY <1>1, <1>2, <2>2, NoneAssumption DEF ForwardState
<1>13. \A t \in Session : Executing(t)' <=> Executing(t)
  BY <1>1, <1>12 DEF Executing
(* the pool's layer *)
<1>14. LayerOK(z, s, Rows(l)')
  <2>1. LayerOK(layer[l], s, Rows(l))
    BY <1>2 DEF IInv, LayersOK
  <2>2. layer[l].ticket = None \/ layer[l].ticket.waited
    BY <1>1, <2>1 DEF LayerOK, TicketOK, Joined
  <2>3. /\ LayerOK(y, s, Rows(l))
        /\ Dense => y.ticket # None /\ y.ticket.waited
    BY <1>1, <1>2, <2>1, <2>2, LeasedLayer DEF Joined
  <2>4. \A t \in Session : Rows(l)[t] = rows[t][l] /\ Rows(l)'[t] = rows'[t][l]
    BY DEF Rows
  <2> HIDE DEF y
  <2>5. CASE Dense /\ ~c.transient
    <3>1. ASSUME NEW k \in 1 .. W PROVE Rows(l)'[s].host[k] = Rows(l)[s].host[k]
      <4>1. k \in Position /\ ~(k > W)
        BY <1>3, <1>4, <1>5, <2>5 DEF Position
      <4> QED
        BY <1>2, <1>9, <1>10, <2>4, <4>1
    <3>2. \A k \in W + 1 .. e : Rows(l)'[s].host[k] = forwards
      BY <1>2, <1>3, <1>4, <1>5, <1>9, <1>10, <2>4, <2>5 DEF Position
    <3>3. \A k \in 1 .. y.ticket.requested : Rows(l)'[s].host[k] # Blank
      <4>1. /\ y.ticket.requested \in 0 .. Slots /\ y.ticket.requested <= Capacity
            /\ \A k \in 1 .. y.ticket.requested : Rows(l)[s].host[k] # Blank
        BY <2>3, <2>5 DEF LayerOK, TicketOK, LayerState, TicketState
      <4>2. ASSUME NEW k \in 1 .. y.ticket.requested PROVE Rows(l)'[s].host[k] # Blank
        <5>1. k \in Position
          BY <1>3, <4>1 DEF Position
        <5>2. r.host[k] = forwards \/ r.host[k] = rows[s][l].host[k]
          BY <1>4, <1>10, <5>1
        <5> QED
          BY <1>2, <1>9, <2>4, <4>1, <5>2, SizeAssumption DEF Blank
      <4> QED
        BY <4>2
    <3>4. e \in 0 .. Slots /\ e <= Capacity /\ Resident(y, s, W)
      BY <1>1, <1>3, <1>4, <1>5, <2>5 DEF y
    <3>5. LayerOK(AppendedTo(y, s, W, e), s, Rows(l)')
      BY <1>2, <1>4, <2>3, <2>5, <3>1, <3>2, <3>3, <3>4, AppendedLayer
    <3> QED
      BY <2>5, <3>5
  <2>6. CASE ~Dense
    <3>1. y.denseOwner = None /\ y.ticket = None
      BY <2>3, <2>6 DEF LayerOK, TicketOK
    <3>2. LayerOK(y, s, Rows(l)')
      BY <2>3, <3>1, SameLayer
    <3> QED
      BY <2>6, <3>2
  <2>7. CASE c.transient
    <3>1. \A k \in Position, t \in Session : Rows(l)'[t].host[k] = Rows(l)[t].host[k]
      BY <1>2, <1>9, <1>10, <2>4, <2>7
    <3>2. y \in LayerState /\ y.denseEnd <= Capacity
          /\ (y.ticket # None => y.ticket.requested <= Capacity)
      BY <2>3 DEF LayerOK, TicketOK
    <3>3. y.denseOwner # None =>
            \A k \in 1 .. y.denseEnd :
              Rows(l)'[y.denseOwner].host[k] = Rows(l)[y.denseOwner].host[k]
      BY <1>3, <3>1, <3>2, SMTT(40) DEF LayerState, Position
    <3>4. y.ticket # None =>
            \A k \in 1 .. y.ticket.requested : Rows(l)'[s].host[k] = Rows(l)[s].host[k]
      BY <1>2, <1>3, <3>1, <3>2 DEF LayerState, TicketState, Position
    <3>5. LayerOK(y, s, Rows(l)')
      BY <2>3, <3>3, <3>4, SameLayer, SMTT(40)
    <3> QED
      BY <2>7, <3>5
  <2> QED
    BY <2>5, <2>6, <2>7
<1> HIDE DEF z
<1>15. TypeOK'
  <2>1. layer' \in [Layer -> LayerState]
    BY <1>1, <1>3, <1>14 DEF LayerOK
  <2>2. ASSUME NEW t \in Session, NEW m \in Layer
        PROVE  cache'[t][m].length <= cache'[t][m].written
    <3>1. cache[t][m].length <= cache[t][m].written
      BY SMTT(40) DEF IInv, TypeOK
    <3> QED
      BY <1>4, <1>11, <3>1
  <2> QED
    BY <1>1, <1>9, <1>11, <1>12, <2>1, <2>2 DEF IInv, TypeOK
<1>16. CachesOK'
  <2>1. ASSUME NEW t \in Session, NEW m \in Layer, ~Executing(t)
        PROVE  cache'[t][m] = IdleCache(session'[t].length)
    <3>1. t # s
      BY <1>1, <2>1 DEF Executing
    <3> QED
      BY <1>1, <1>11, <2>1, <3>1 DEF IInv, CachesOK
  <2>2. ASSUME NEW m \in Layer
        PROVE  /\ cache'[s][m].length = session'[s].length
               /\ cache'[s][m].transient = (forward'.kind = "candidate")
               /\ cache'[s][m].stepEnd = cache'[s][1].stepEnd
               /\ cache'[s][m].stepEnd \in session'[s].length + 1 .. Capacity + Candidates
               /\ cache'[s][m].written \in session'[s].length .. cache'[s][m].stepEnd
    <3>1. ASSUME NEW k \in Layer
          PROVE  /\ cache'[s][k].stepEnd = cache[s][k].stepEnd
                 /\ cache'[s][k].length = cache[s][k].length
                 /\ cache'[s][k].transient = cache[s][k].transient
      <4>1. CASE k = l
        BY <1>2, <1>3, <1>11, <4>1
      <4>2. CASE k # l
        BY <1>11, <4>2
      <4> QED
        BY <4>1, <4>2
    <3>2. /\ cache[s][m].length = L /\ cache[s][m].transient = (forward.kind = "candidate")
          /\ cache[s][m].stepEnd = cache[s][1].stepEnd
          /\ cache[s][m].stepEnd \in L + 1 .. Capacity + Candidates
          /\ cache[s][m].written \in L .. cache[s][m].stepEnd
      BY <1>1, RunningFacts DEF Cursor
    <3>3. cache'[s][m].written \in L .. cache[s][m].stepEnd
      BY <1>3, <1>4, <1>11, <3>2
    <3>4. 1 \in Layer
      BY SizeAssumption DEF Layer
    <3> QED
      BY <1>1, <1>12, <3>1, <3>2, <3>3, <3>4
  <2>3. Executing(s)
    BY <1>1 DEF Executing
  <2> QED
    BY <1>1, <1>12, <1>13, <2>1, <2>2 DEF CachesOK, IdleCache, Executing
<1>17. KindOK'
  <2>1. ASSUME NEW m \in Layer, forward.kind = "candidate"
        PROVE  /\ L = session[s].prefix
               /\ cache'[s][m].stepEnd = cache'[s][m].length + forward.chunk
               /\ cache'[s][m].written = IF m < l + 1 THEN cache'[s][m].stepEnd
                                         ELSE cache'[s][m].length
    <3>1. /\ L = session[s].prefix
          /\ cache[s][m].stepEnd = cache[s][m].length + forward.chunk
          /\ cache[s][m].written = IF m < l THEN cache[s][m].stepEnd ELSE cache[s][m].length
      <4>1. KindOK /\ ~poisoned /\ forward # None /\ l = forward.layer
        BY <1>1 DEF IInv
      <4>2. /\ session[s].length = session[s].prefix
            /\ Cursor(m).stepEnd = Cursor(m).length + forward.chunk
            /\ Cursor(m).written = IF m < forward.layer THEN Cursor(m).stepEnd
                                   ELSE Cursor(m).length
        BY <2>1, <4>1 DEF KindOK
      <4>3. Cursor(m) = cache[s][m]
        BY DEF Cursor
      <4>4. (m < forward.layer) = (m < l)
        BY <4>1
      <4> QED
        BY <4>2, <4>3, <4>4
    <3>2. CASE m = l
      <4>1. c.stepEnd = L + forward.chunk /\ e = c.stepEnd
        BY <1>2, <1>3, <1>6, <2>1, <3>1, <3>2
      <4>2. /\ cache'[s][m].length = L /\ cache'[s][m].written = e
            /\ cache'[s][m].stepEnd = c.stepEnd
        BY <1>11, <3>2
      <4>3. m < l + 1
        BY <3>2 DEF Layer
      <4> QED
        BY <3>1, <4>1, <4>2, <4>3
    <3>3. CASE m # l
      <4>1. m < l <=> m < l + 1
        BY <3>3 DEF Layer
      <4> QED
        BY <1>11, <3>1, <3>3, <4>1
    <3> QED
      BY <3>2, <3>3
  <2>2. ASSUME NEW m \in Layer, forward.kind # "candidate"
        PROVE  cache'[s][m].stepEnd <= Capacity
    <3>1. cache[s][m].stepEnd <= Capacity
      BY <1>1, <2>2 DEF IInv, KindOK, Cursor
    <3> QED
      BY <1>3, <1>11, <3>1
  <2> QED
    BY <1>1, <1>12, <2>1, <2>2 DEF KindOK, Cursor
<1>18. HistoryOK' /\ HistoryUnchanged
  <2>1. ASSUME NEW t \in Session, NEW m \in Layer, NEW k \in 1 .. session[t].length
        PROVE  /\ rows'[t][m].host[k] = rows[t][m].host[k]
               /\ rows'[t][m].keys[k] = rows[t][m].keys[k]
    <3>1. CASE t = s /\ m = l
      <4>1. k \in Position /\ ~(k > W)
        <5>1. k \in 1 .. L
          BY <3>1
        <5> QED
          BY <1>2, <1>3, <1>4, <5>1 DEF Position
      <4> QED
        BY <1>9, <1>10, <3>1, <4>1
    <3>2. CASE ~(t = s /\ m = l)
      BY <1>9, <3>2
    <3> QED
      BY <3>1, <3>2
  <2>2. 1 \in Layer
    BY SizeAssumption DEF Layer
  <2>3. session' = session
    BY <1>1
  <2> QED
    BY <2>1, <2>2, <2>3 DEF IInv, HistoryOK, HistoryUnchanged
<1>19. PendingOK'
  <2>1. ASSUME NEW m \in Layer, ~cache'[s][m].transient,
               NEW k \in L + 1 .. cache'[s][m].written
        PROVE  rows'[s][m].host[k] = forwards /\ rows'[s][m].keys[k] = forwards
    <3>1. ASSUME ~cache[s][m].transient, k \in L + 1 .. cache[s][m].written
          PROVE  rows[s][m].host[k] = forwards /\ rows[s][m].keys[k] = forwards
      BY <1>1, <3>1 DEF IInv, PendingOK, Cursor
    <3>2. CASE m = l
      <4>1. k \in L + 1 .. e /\ ~c.transient /\ k \in Position
        <5>1. cache'[s][m].written = e /\ cache'[s][m].transient = c.transient
          BY <1>11, <3>2
        <5>2. k \in L + 1 .. e /\ ~c.transient
          BY <2>1, <5>1
        <5> HIDE DEF c, W, e, L
        <5> QED
          BY <1>3, <1>4, <1>5, <5>2 DEF Position
      <4>2. CASE k > W
        BY <1>9, <1>10, <3>2, <4>1, <4>2
      <4>3. CASE ~(k > W)
        <5>1. k \in L + 1 .. W
          BY <1>4, <4>1, <4>3
        <5> QED
          BY <1>3, <1>9, <1>10, <3>1, <3>2, <4>1, <4>3, <5>1
      <4> QED
        BY <4>2, <4>3
    <3>3. CASE m # l
      BY <1>9, <1>11, <2>1, <3>1, <3>3
    <3> QED
      BY <3>2, <3>3
  <2>2. forwards' # 0
    BY <1>1, <1>2
  <2> QED
    BY <1>1, <1>12, <2>1, <2>2 DEF PendingOK, Cursor
<1>20. HintsOK'
  <2>1. ASSUME NEW t \in Session PROVE HintsBefore(t)' = HintsBefore(t)
    <3>1. CASE Executing(t)
      BY <1>12, <1>13, <3>1 DEF HintsBefore
    <3>2. CASE ~Executing(t)
      <4>1. t # s
        BY <1>1, <3>2 DEF Executing
      <4> QED
        BY <1>9, <1>13, <3>2, <4>1 DEF HintsBefore, Hints
    <3> QED
      BY <3>1, <3>2
  <2> QED
    BY <1>1, <1>13, <2>1 DEF IInv, HintsOK
<1>21. LayersOK'
  <2>1. ExecutingSession' = s /\ \A m \in Layer \ {l} : Rows(m)' = Rows(m)
    BY <1>9, <1>12 DEF ExecutingSession, Rows
  <2>2. ASSUME NEW m \in Layer PROVE LayerOK(layer'[m], s, Rows(m)')
    <3>1. CASE m = l
      BY <1>1, <1>3, <1>14, <3>1
    <3>2. CASE m # l
      BY <1>1, <1>2, <1>3, <2>1, <3>2 DEF IInv, LayersOK
    <3> QED
      BY <3>1, <3>2
  <2> QED
    BY <1>1, <2>1, <2>2, NextLayers
<1> QED
  BY <1>15, <1>16, <1>17, <1>18, <1>19, <1>20, <1>21 DEF IInv

(* The next chunk starts. *)
LEMMA NextChunkStep == IInv /\ NextChunk => IInv'
<1> SUFFICES ASSUME IInv, NextChunk PROVE IInv'
  OBVIOUS
<1>1. /\ Running /\ ~poisoned /\ forward # None /\ forward.layer > Layers
      /\ Cursor(1).written < Cursor(1).stepEnd
      /\ layer' = Drained /\ forward' = [forward EXCEPT !.layer = 1]
      /\ UNCHANGED <<scheme, session, cache, rows, forwards, failed, poisoned>>
  BY DEF NextChunk, Running
<1>2. forward \in ForwardState /\ ExecutingSession = forward.session
  BY <1>1, RunningFacts
<1>3. /\ forward' \in ForwardState /\ forward' # None /\ forward'.session = forward.session
      /\ forward'.kind = forward.kind /\ forward'.saved = forward.saved
  <2>1. 1 \in 1 .. Layers + 1
    BY SizeAssumption
  <2>2. forward' \in ForwardState
    BY <1>1, <1>2, <2>1 DEF ForwardState
  <2> QED
    BY <1>1, <1>2, <2>2, NoneAssumption DEF ForwardState
<1>4. forward.kind # "candidate"
  <2>1. 1 \in Layer /\ 1 < forward.layer
    BY <1>1, <1>2, SizeAssumption DEF Layer, ForwardState
  <2>2. forward.kind = "candidate" => Cursor(1).written = Cursor(1).stepEnd
    BY <1>1, <2>1 DEF IInv, KindOK
  <2>3. Cursor(1).stepEnd \in Nat
    <3>1. /\ session[forward.session].length \in 0 .. Capacity
          /\ Cursor(1).stepEnd \in session[forward.session].length + 1 .. Capacity + Candidates
      BY <1>1, <2>1, RunningFacts
    <3> QED
      BY <3>1, SizeAssumption
  <2> QED
    BY <1>1, <2>2, <2>3
<1>5. \A l \in Layer : LayerOK(layer'[l], forward.session, Rows(l)) /\ layer'[l] \in LayerState
  BY <1>1, DrainedLayers DEF IInv, LayerOK
<1>6. layer' \in [Layer -> LayerState]
  BY <1>1, <1>5 DEF Drained
<1>7. TypeOK'
  BY <1>1, <1>3, <1>6 DEF IInv, TypeOK
<1>8. CachesOK' /\ KindOK' /\ HistoryOK' /\ PendingOK'
  BY <1>1, <1>3, <1>4 DEF IInv, CachesOK, KindOK, HistoryOK, PendingOK, Executing, Cursor
<1>9. HintsOK'
  BY <1>1, <1>3 DEF IInv, HintsOK, HintsBefore, Hints, Executing
<1>10. LayersOK'
  <2>1. ExecutingSession' = forward.session /\ scheme' = scheme
        /\ \A l \in Layer : Rows(l)' = Rows(l)
    BY <1>1, <1>3 DEF ExecutingSession, Rows
  <2> QED
    BY <1>5, <2>1, NextLayers
<1> QED
  BY <1>7, <1>8, <1>9, <1>10 DEF IInv

(* A step after which no forward runs. *)
LEMMA IdleStep ==
  ASSUME IInv, forward' = None, UNCHANGED <<scheme, forwards>>,
         failed' \in BOOLEAN, poisoned' = FALSE,
         session' \in [Session -> SessionState],
         cache' \in [Session -> [Layer -> CacheState]],
         \A s \in Session, l \in Layer : cache'[s][l] = IdleCache(session'[s].length),
         rows' \in [Session -> [Layer -> RowState]],
         layer' \in [Layer -> LayerState],
         \A l \in Layer : LayerOK(layer'[l], None, Rows(l)'),
         HistoryOK', HintsOK'
  PROVE  IInv'
<1>1. \A s \in Session, l \in Layer : cache'[s][l].length <= cache'[s][l].written
  <2>1. ASSUME NEW s \in Session, NEW l \in Layer
        PROVE  cache'[s][l].length <= cache'[s][l].written
    <3>1. cache'[s][l] = IdleCache(session'[s].length) /\ session'[s].length \in 0 .. Capacity
      BY DEF SessionState
    <3>2. session'[s].length \in Nat
      BY <3>1, SizeAssumption
    <3> QED
      BY <3>1, <3>2 DEF IdleCache
  <2> QED
    BY <2>1
<1>2. TypeOK'
  BY <1>1 DEF IInv, TypeOK
<1>3. CachesOK' /\ KindOK' /\ PendingOK'
  BY DEF CachesOK, KindOK, PendingOK, Executing, IdleCache
<1>4. LayersOK'
  BY NextLayers DEF ExecutingSession
<1> QED
  BY <1>2, <1>3, <1>4 DEF IInv

(* Rehinted, of any rows. *)
WithHints(all, s, hints) ==
  [all EXCEPT ![s] = [l \in Layer |-> [all[s][l] EXCEPT !.hint = hints[l]]]]

(* Hints put back change no rows. *)
LEMMA RehintedRows ==
  ASSUME NEW all \in [Session -> [Layer -> RowState]], NEW s \in Session,
         NEW hints \in [Layer -> 0 .. MaxForwards], NEW new, new = WithHints(all, s, hints)
  PROVE  /\ new \in [Session -> [Layer -> RowState]]
         /\ \A t \in Session \ {s} : new[t] = all[t]
         /\ \A t \in Session, l \in Layer :
              new[t][l].host = all[t][l].host /\ new[t][l].keys = all[t][l].keys
         /\ \A l \in Layer : new[s][l].hint = hints[l]
<1> DEFINE r == [l \in Layer |-> [all[s][l] EXCEPT !.hint = hints[l]]]
<1>1. ASSUME NEW l \in Layer
      PROVE  /\ r[l] \in RowState /\ r[l].host = all[s][l].host /\ r[l].keys = all[s][l].keys
             /\ r[l].hint = hints[l]
  <2>1. all[s][l] \in RowState /\ hints[l] \in 0 .. MaxForwards
    OBVIOUS
  <2>2. r[l] = [all[s][l] EXCEPT !.hint = hints[l]]
    OBVIOUS
  <2> QED
    BY <2>1, <2>2 DEF RowState
<1>3. r \in [Layer -> RowState]
  BY <1>1
<1> HIDE DEF r
<1>2. new = [all EXCEPT ![s] = r]
  BY DEF r, WithHints
<1> QED
  BY <1>1, <1>2, <1>3

(* An idle cache is a cache. *)
LEMMA IdleCacheState ==
  ASSUME NEW n \in 0 .. Capacity
  PROVE  IdleCache(n) \in CacheState /\ IdleCache(n).length = n /\ IdleCache(n).written = n
  BY SizeAssumption DEF IdleCache, CacheState

(* Every layer commits, and the session with them. *)
LEMMA CommitStep == IInv /\ Commit => IInv'
<1> SUFFICES ASSUME IInv, Commit PROVE IInv'
  OBVIOUS
<1> DEFINE s == forward.session
           L == session[s].length
           N == Cursor(1).stepEnd
           grown == [session[s] EXCEPT !.length = N]
           x == IF forward.kind = "prefill"
                THEN [grown EXCEPT !.prefix = N, !.prefixHint = Hints(s), !.strayHints = FALSE]
                ELSE grown
<1>1. /\ Running /\ Complete /\ forward.kind # "candidate" /\ forward # None /\ ~poisoned
      /\ session' = [session EXCEPT ![s] = x]
      /\ cache' = [cache EXCEPT ![s] = [l \in Layer |-> IdleCache(cache[s][l].written)]]
      /\ layer' = Drained /\ forward' = None
      /\ UNCHANGED <<scheme, rows, forwards, failed, poisoned>>
  BY DEF Commit, Running, IInv, TypeOK
<1>2. /\ s \in Session /\ L \in 0 .. Capacity /\ 1 \in Layer /\ forwards \in 1 .. MaxForwards
      /\ \A l \in Layer :
           /\ Cursor(l).stepEnd = N /\ Cursor(l).written = N /\ Cursor(l) = cache[s][l]
           /\ ~Cursor(l).transient
      /\ N \in L + 1 .. Capacity + Candidates
  <2>1. 1 \in Layer
    BY SizeAssumption DEF Layer
  <2> QED
    BY <1>1, <2>1, RunningFacts DEF Complete, Cursor
<1>3. N <= Capacity
  BY <1>1, <1>2 DEF IInv, KindOK
<1>4. N \in 1 .. Capacity /\ N > L
  BY <1>2, <1>3, SizeAssumption
<1>5. /\ session \in [Session -> SessionState] /\ cache \in [Session -> [Layer -> CacheState]]
      /\ rows \in [Session -> [Layer -> RowState]] /\ failed \in BOOLEAN
      /\ poisoned = FALSE
  BY <1>1 DEF IInv, TypeOK
<1>6. Hints(s) \in [Layer -> 0 .. MaxForwards]
  BY <1>2, <1>5 DEF Hints, RowState
<1>7. /\ x \in SessionState /\ x.length = N
      /\ x.lastTransient = session[s].lastTransient /\ x.atPrefix = session[s].atPrefix
      /\ forward.kind = "prefill" =>
           x.prefix = N /\ x.prefixHint = Hints(s) /\ x.strayHints = FALSE
      /\ forward.kind # "prefill" =>
           /\ x.prefix = session[s].prefix /\ x.prefixHint = session[s].prefixHint
           /\ x.strayHints = session[s].strayHints
  <2>1. /\ grown \in SessionState /\ grown.length = N
        /\ grown.lastTransient = session[s].lastTransient
        /\ grown.atPrefix = session[s].atPrefix
        /\ grown.prefix = session[s].prefix /\ grown.prefixHint = session[s].prefixHint
        /\ grown.strayHints = session[s].strayHints
    <3>1. N \in 0 .. Capacity /\ session[s] \in SessionState
      BY <1>2, <1>4, <1>5
    <3> HIDE DEF N
    <3> QED
      BY <3>1 DEF SessionState
  <2> HIDE DEF grown
  <2>2. CASE forward.kind = "prefill"
    <3> DEFINE u == [grown EXCEPT !.prefix = N]
               v == [u EXCEPT !.prefixHint = Hints(s)]
               w == [v EXCEPT !.strayHints = FALSE]
    <3>1. /\ u \in SessionState /\ u.length = N /\ u.prefix = N
          /\ u.lastTransient = session[s].lastTransient /\ u.atPrefix = session[s].atPrefix
      BY <1>4, <2>1, SizeAssumption DEF SessionState
    <3> HIDE DEF u
    <3>2. /\ v \in SessionState /\ v.length = N /\ v.prefix = N /\ v.prefixHint = Hints(s)
          /\ v.lastTransient = session[s].lastTransient /\ v.atPrefix = session[s].atPrefix
      BY <1>6, <3>1 DEF SessionState
    <3> HIDE DEF v
    <3>3. /\ w \in SessionState /\ w.length = N /\ w.prefix = N /\ w.prefixHint = Hints(s)
          /\ w.lastTransient = session[s].lastTransient /\ w.atPrefix = session[s].atPrefix
          /\ w.strayHints = FALSE
      BY <3>2 DEF SessionState
    <3>4. x = w
      BY <2>2 DEF u, v
    <3> HIDE DEF w
    <3> QED
      BY <2>2, <3>3, <3>4
  <2>3. CASE forward.kind # "prefill"
    BY <2>1, <2>3
  <2> QED
    BY <2>2, <2>3
<1> HIDE DEF x
<1>8. /\ session' \in [Session -> SessionState] /\ session'[s] = x
      /\ \A t \in Session \ {s} : session'[t] = session[t]
  BY <1>1, <1>2, <1>5, <1>7
<1>9. \A l \in Layer : cache'[s][l] = IdleCache(N)
  BY <1>1, <1>2, <1>5
<1>10. cache' \in [Session -> [Layer -> CacheState]]
  <2> DEFINE d == [l \in Layer |-> IdleCache(cache[s][l].written)]
  <2>1. \A l \in Layer : d[l] \in CacheState
    BY <1>2, <1>4, IdleCacheState, SizeAssumption
  <2>2. d \in [Layer -> CacheState]
    BY <2>1
  <2> HIDE DEF d
  <2>3. cache' = [cache EXCEPT ![s] = d]
    BY <1>1 DEF d
  <2> QED
    BY <1>5, <2>2, <2>3
<1>11. \A t \in Session, l \in Layer : cache'[t][l] = IdleCache(session'[t].length)
  <2>1. ASSUME NEW t \in Session, NEW l \in Layer
        PROVE  cache'[t][l] = IdleCache(session'[t].length)
    <3>1. CASE t = s
      BY <1>7, <1>8, <1>9, <3>1
    <3>2. CASE t # s
      <4>1. cache'[t] = cache[t] /\ ~Executing(t) /\ session'[t] = session[t]
        BY <1>1, <1>5, <1>8, <3>2 DEF Executing
      <4>2. cache[t][l] = IdleCache(session[t].length)
        BY <1>1, <4>1 DEF IInv, CachesOK
      <4> QED
        BY <4>1, <4>2
    <3> QED
      BY <3>1, <3>2
  <2> QED
    BY <2>1
<1>12. \A l \in Layer : Rows(l)' = Rows(l)
  BY <1>1 DEF Rows
<1>13. \A l \in Layer : LayerOK(layer'[l], None, Rows(l)') /\ layer'[l] \in LayerState
  BY <1>1, <1>12, DrainedLayers DEF IInv, LayerOK
<1>14. layer' \in [Layer -> LayerState]
  BY <1>1, <1>13 DEF Drained
<1>15. HistoryOK'
  <2>1. ASSUME NEW t \in Session, NEW l \in Layer, NEW k \in 1 .. session'[t].length
        PROVE  /\ rows[t][l].host[k] = rows[t][1].host[k]
               /\ rows[t][l].keys[k] = rows[t][1].host[k]
               /\ rows[t][l].host[k] # Blank
    <3>1. k \in 1 .. session[t].length =>
            /\ rows[t][l].host[k] = rows[t][1].host[k]
            /\ rows[t][l].keys[k] = rows[t][1].host[k]
            /\ rows[t][l].host[k] # Blank
      BY DEF IInv, HistoryOK
    <3>2. CASE t # s
      BY <1>8, <2>1, <3>1, <3>2
    <3>3. CASE t = s
      <4>1. k \in 1 .. L \/ k \in L + 1 .. N
        <5>1. k \in 1 .. N
          BY <1>7, <1>8, <2>1, <3>3
        <5> QED
          BY <1>2, <1>4, <5>1
      <4>2. ASSUME NEW m \in Layer, k \in L + 1 .. N
            PROVE  rows[s][m].host[k] = forwards /\ rows[s][m].keys[k] = forwards
        BY <1>1, <1>2, <4>2 DEF IInv, PendingOK
      <4>3. CASE k \in 1 .. L
        BY <3>1, <3>3, <4>3
      <4>4. CASE k \in L + 1 .. N
        BY <1>2, <3>3, <4>2, <4>4 DEF Blank
      <4> QED
        BY <4>1, <4>3, <4>4
    <3> QED
      BY <3>2, <3>3
  <2> QED
    BY <1>1, <2>1 DEF HistoryOK
<1>16. HintsOK'
  <2>1. \A t \in Session : /\ ~Executing(t)' /\ HintsBefore(t)' = Hints(t)
                           /\ t # s => HintsBefore(t) = Hints(t) /\ ~Executing(t)
    <3>1. \A t \in Session : Hints(t)' = Hints(t)
      BY <1>1 DEF Hints
    <3> QED
      BY <1>1, <3>1 DEF HintsBefore, Executing
  <2>2. ASSUME NEW t \in Session
        PROVE  /\ session'[t].length < session'[t].prefix => session'[t].strayHints
               /\ session'[t].length = session'[t].prefix /\ session'[t].prefix > 0 =>
                    session'[t].strayHints \/ Hints(t) = session'[t].prefixHint
               /\ session'[t].atPrefix =>
                    session'[t].length = session'[t].prefix /\ session'[t].prefix > 0
               /\ session'[t].lastTransient => session'[t].length <= session'[t].prefix
    <3>1. CASE t # s
      BY <1>8, <2>1, <3>1 DEF IInv, HintsOK
    <3>2. CASE t = s
      <4>1. /\ ~session[s].atPrefix /\ ~session[s].lastTransient
            /\ L < session[s].prefix => session[s].strayHints
        BY <1>1, <1>2 DEF IInv, HintsOK, Executing
      <4>2. session[s].prefix \in Nat
        BY <1>2, <1>5, SizeAssumption DEF SessionState
      <4>3. CASE forward.kind = "prefill"
        BY <1>4, <1>7, <1>8, <3>2, <4>1, <4>3
      <4>4. CASE forward.kind # "prefill"
        <5>1. N <= session[s].prefix => session[s].strayHints
          BY <1>2, <1>4, <4>1, <4>2
        <5> QED
          BY <1>4, <1>7, <1>8, <3>2, <4>1, <4>2, <4>4, <5>1
      <4> QED
        BY <4>3, <4>4
    <3> QED
      BY <3>1, <3>2
  <2> QED
    BY <2>1, <2>2 DEF HintsOK
<1> QED
  BY <1>1, <1>5, <1>8, <1>10, <1>11, <1>13, <1>14, <1>15, <1>16, IdleStep

(* The host rows alone matter to the pool. *)
LEMMA SameHosts ==
  ASSUME NEW l \in Layer, NEW y, LayerOK(y, None, Rows(l)),
         \A t \in Session : rows'[t][l].host = rows[t][l].host
  PROVE  LayerOK(y, None, Rows(l)')
<1>1. y \in LayerState /\ y.ticket = None
  BY DEF LayerOK, TicketOK
<1>2. y.denseOwner # None => y.denseOwner \in Session
  BY <1>1 DEF LayerState
<1>3. y.denseOwner # None => Rows(l)'[y.denseOwner].host = Rows(l)[y.denseOwner].host
  BY <1>2 DEF Rows
<1> QED
  BY <1>1, <1>3, SameLayer

(* A history that is no longer, in rows that are the same so far. *)
LEMMA SameHistory ==
  ASSUME HistoryOK,
         \A t \in Session : \A k \in 1 .. session'[t].length : k \in 1 .. session[t].length,
         \A t \in Session, l \in Layer : \A k \in 1 .. session'[t].length :
           rows'[t][l].host[k] = rows[t][l].host[k] /\ rows'[t][l].keys[k] = rows[t][l].keys[k]
  PROVE  HistoryOK'
<1>1. 1 \in Layer
  BY SizeAssumption DEF Layer
<1>2. ASSUME NEW t \in Session, NEW l \in Layer, NEW k \in 1 .. session'[t].length
      PROVE  /\ rows'[t][l].host[k] = rows'[t][1].host[k]
             /\ rows'[t][l].keys[k] = rows'[t][1].host[k]
             /\ rows'[t][l].host[k] # Blank
  <2>1. /\ rows[t][l].host[k] = rows[t][1].host[k]
        /\ rows[t][l].keys[k] = rows[t][1].host[k]
        /\ rows[t][l].host[k] # Blank
    BY <1>2 DEF HistoryOK
  <2> QED
    BY <1>1, <2>1
<1> QED
  BY <1>2 DEF HistoryOK

(* The candidates are dropped and the hints put back. *)
LEMMA DiscardStep == IInv /\ Discard => IInv' /\ HistoryUnchanged
<1> SUFFICES ASSUME IInv, Discard PROVE IInv' /\ HistoryUnchanged
  OBVIOUS
<1> DEFINE s == forward.session
           L == session[s].length
           x == [session[s] EXCEPT !.lastTransient = TRUE]
<1>1. /\ Running /\ forward.kind = "candidate" /\ forward # None /\ ~poisoned
      /\ session' = [session EXCEPT ![s] = x]
      /\ cache' = [cache EXCEPT ![s] = [l \in Layer |-> IdleCache(cache[s][l].length)]]
      /\ rows' = WithHints(rows, s, forward.saved)
      /\ layer' = Drained /\ forward' = None
      /\ UNCHANGED <<scheme, forwards, failed, poisoned>>
  BY DEF Discard, Running, IInv, TypeOK, Rehinted, WithHints
<1>2. /\ s \in Session /\ L \in 0 .. Capacity /\ 1 \in Layer
      /\ \A l \in Layer : cache[s][l].length = L
      /\ forward.saved \in [Layer -> 0 .. MaxForwards]
  <2>1. 1 \in Layer
    BY SizeAssumption DEF Layer
  <2> QED
    BY <1>1, <2>1, RunningFacts DEF Cursor, ForwardState
<1>3. L = session[s].prefix
  BY <1>1, <1>2 DEF IInv, KindOK
<1>4. /\ session \in [Session -> SessionState] /\ cache \in [Session -> [Layer -> CacheState]]
      /\ rows \in [Session -> [Layer -> RowState]] /\ failed \in BOOLEAN
      /\ poisoned = FALSE
  BY <1>1 DEF IInv, TypeOK
<1>5. /\ x \in SessionState /\ x.length = L /\ x.prefix = L
      /\ x.prefixHint = session[s].prefixHint /\ x.strayHints = session[s].strayHints
      /\ x.atPrefix = session[s].atPrefix
  BY <1>2, <1>3, <1>4, ZenonT(60) DEF SessionState
<1> HIDE DEF x
<1>6. /\ session' \in [Session -> SessionState] /\ session'[s] = x
      /\ \A t \in Session \ {s} : session'[t] = session[t]
  BY <1>1, <1>2, <1>4, <1>5
<1>7. /\ rows' \in [Session -> [Layer -> RowState]]
      /\ \A t \in Session \ {s} : rows'[t] = rows[t]
      /\ \A t \in Session, l \in Layer :
           rows'[t][l].host = rows[t][l].host /\ rows'[t][l].keys = rows[t][l].keys
      /\ \A l \in Layer : rows'[s][l].hint = forward.saved[l]
  BY <1>1, <1>2, <1>4, RehintedRows, SMTT(40)
<1>8. /\ \A l \in Layer : cache'[s][l] = IdleCache(L)
      /\ \A t \in Session \ {s} : cache'[t] = cache[t]
      /\ cache' \in [Session -> [Layer -> CacheState]]
  <2> DEFINE d == [l \in Layer |-> IdleCache(cache[s][l].length)]
  <2>1. \A l \in Layer : d[l] = IdleCache(L)
    BY <1>2
  <2>2. d \in [Layer -> CacheState]
    BY <1>2, <2>1, IdleCacheState
  <2> HIDE DEF d
  <2>3. cache' = [cache EXCEPT ![s] = d]
    BY <1>1 DEF d
  <2> QED
    BY <1>2, <1>4, <2>1, <2>2, <2>3
<1>9. \A t \in Session, l \in Layer : cache'[t][l] = IdleCache(session'[t].length)
  <2>1. ASSUME NEW t \in Session, NEW l \in Layer
        PROVE  cache'[t][l] = IdleCache(session'[t].length)
    <3>1. CASE t = s
      BY <1>5, <1>6, <1>8, <3>1
    <3>2. CASE t # s
      <4>1. cache'[t] = cache[t] /\ ~Executing(t) /\ session'[t] = session[t]
        BY <1>1, <1>6, <1>8, <3>2 DEF Executing
      <4>2. cache[t][l] = IdleCache(session[t].length)
        BY <1>1, <4>1 DEF IInv, CachesOK
      <4> QED
        BY <4>1, <4>2
    <3> QED
      BY <3>1, <3>2
  <2> QED
    BY <2>1
<1>10. \A l \in Layer : LayerOK(layer'[l], None, Rows(l)') /\ layer'[l] \in LayerState
  <2>1. ASSUME NEW l \in Layer PROVE LayerOK(Drained[l], None, Rows(l)')
    <3>1. LayerOK(Drained[l], None, Rows(l))
      BY DrainedLayers DEF IInv
    <3> QED
      BY <1>7, <3>1, SameHosts
  <2> QED
    BY <1>1, <2>1 DEF LayerOK
<1>11. layer' \in [Layer -> LayerState]
  BY <1>1, <1>10 DEF Drained
<1>12. HistoryOK' /\ HistoryUnchanged
  <2>1. \A t \in Session : session'[t].length = session[t].length
    BY <1>5, <1>6
  <2>2. HistoryOK'
    BY <1>7, <2>1, SameHistory DEF IInv
  <2> QED
    BY <1>2, <1>7, <2>1, <2>2 DEF HistoryUnchanged
<1>13. HintsOK'
  <2>1. \A t \in Session : /\ ~Executing(t)' /\ HintsBefore(t)' = HintsBefore(t)
                           /\ t # s => ~Executing(t)
    <3>1. \A t \in Session \ {s} : Hints(t)' = Hints(t)
      BY <1>7 DEF Hints
    <3>2. ASSUME NEW t \in Session, t = s PROVE Hints(t)' = forward.saved
      <4>1. forward.saved = [l \in Layer |-> forward.saved[l]]
        BY <1>2
      <4>2. Hints(t)' = [l \in Layer |-> rows'[t][l].hint]
        BY DEF Hints
      <4> QED
        BY <1>7, <3>2, <4>1, <4>2
    <3> QED
      BY <1>1, <3>1, <3>2 DEF HintsBefore, Executing
  <2>2. ASSUME NEW t \in Session
        PROVE  /\ session'[t].length < session'[t].prefix => session'[t].strayHints
               /\ session'[t].length = session'[t].prefix /\ session'[t].prefix > 0 =>
                    session'[t].strayHints \/ HintsBefore(t) = session'[t].prefixHint
               /\ session'[t].atPrefix =>
                    session'[t].length = session'[t].prefix /\ session'[t].prefix > 0
               /\ session'[t].lastTransient => session'[t].length <= session'[t].prefix
    <3>1. CASE t # s
      BY <1>6, <2>1, <3>1 DEF IInv, HintsOK
    <3>2. CASE t = s
      <4>1. /\ ~session[s].atPrefix
            /\ L > 0 => session[s].strayHints \/ HintsBefore(s) = session[s].prefixHint
        BY <1>1, <1>2, <1>3 DEF IInv, HintsOK, Executing
      <4> QED
        BY <1>2, <1>5, <1>6, <3>2, <4>1, SizeAssumption
    <3> QED
      BY <3>1, <3>2
  <2> QED
    BY <2>1, <2>2 DEF HintsOK
<1> QED
  BY <1>1, <1>4, <1>6, <1>7, <1>8, <1>9, <1>10, <1>11, <1>12, <1>13, IdleStep

(* A rollback leaves a sound layer. *)
LEMMA RolledBackLayer ==
  ASSUME TypeOK, NEW layers, NEW s \in Session, NEW l \in Layer,
         LayerOK(layers[l], None, Rows(l))
  PROVE  LayerOK(RolledBack(layers, s)[l], None, Rows(l))
<1> DEFINE y == Leased(layers[l], s)
           n == cache[s][l].length
<1>1. layers[l].ticket = None
  BY DEF LayerOK, TicketOK
<1>2. LayerOK(y, None, Rows(l)) /\ y.ticket = None /\ y \in LayerState
  BY <1>1, LeasedLayer DEF LayerOK
<1>3. n \in Nat
  BY SizeAssumption DEF TypeOK, CacheState
<1>4. LayerOK(Unmapped(y, s, n), None, Rows(l))
  BY <1>2, <1>3, UnmappedLayer
<1> HIDE DEF y, n
<1>5. RolledBack(layers, s)[l] = IF cache[s][l].transient THEN y ELSE Unmapped(y, s, n)
  BY SMTT(40) DEF RolledBack, y, n
<1> QED
  BY <1>2, <1>4, <1>5

(* What a failed block leaves is past the history. *)
LEMMA TornRows ==
  ASSUME IInv, Running, NEW s \in Session, s = forward.session, NEW part \in BOOLEAN
  PROVE  /\ Torn(s, part) \in [Session -> [Layer -> RowState]]
         /\ \A t \in Session \ {s} : Torn(s, part)[t] = rows[t]
         /\ \A t \in Session, l \in Layer :
              /\ Torn(s, part)[t][l].host = rows[t][l].host
              /\ Torn(s, part)[t][l].hint = rows[t][l].hint
              /\ \A k \in 1 .. session[t].length : Torn(s, part)[t][l].keys[k] = rows[t][l].keys[k]
<1> DEFINE m == forward.layer
           new == [rows EXCEPT ![s][m].keys = Written(m).keys]
<1>1. rows \in [Session -> [Layer -> RowState]] /\ forward \in ForwardState
  BY RunningFacts DEF IInv, TypeOK
<1>2. CASE Torn(s, part) = rows
  BY <1>1, <1>2
<1>3. CASE m <= Layers /\ Torn(s, part) = new
  <2>1. m \in Layer
    BY <1>1, <1>3, SizeAssumption DEF ForwardState, Layer
  <2>2. /\ Written(m).keys \in [Position -> 0 .. MaxForwards]
        /\ \A k \in Position : ~(k > Cursor(m).written) =>
             Written(m).keys[k] = rows[s][m].keys[k]
    BY <2>1, ChunkFacts DEF RowState
  <2> DEFINE r == [rows[s][m] EXCEPT !.keys = Written(m).keys]
  <2>3. /\ r \in RowState /\ r.host = rows[s][m].host /\ r.hint = rows[s][m].hint
        /\ r.keys = Written(m).keys
    <3>1. rows[s][m] \in RowState
      BY <1>1, <2>1
    <3> DEFINE keys == Written(m).keys
    <3>2. keys \in [Position -> 0 .. MaxForwards]
      BY <2>2
    <3> HIDE DEF keys
    <3>3. [rows[s][m] EXCEPT !.keys = keys] \in RowState
      BY <3>1, <3>2, SMTT(40) DEF RowState
    <3>4. /\ [rows[s][m] EXCEPT !.keys = keys].host = rows[s][m].host
          /\ [rows[s][m] EXCEPT !.keys = keys].hint = rows[s][m].hint
          /\ [rows[s][m] EXCEPT !.keys = keys].keys = keys
      BY <3>1 DEF RowState
    <3> QED
      BY <3>3, <3>4 DEF keys
  <2>4. new = [rows EXCEPT ![s][m] = r]
    BY <1>1, <2>1
  <2> HIDE DEF r
  <2>5. /\ new \in [Session -> [Layer -> RowState]] /\ new[s][m] = r
        /\ \A t \in Session \ {s} : new[t] = rows[t]
        /\ \A l \in Layer \ {m} : new[s][l] = rows[s][l]
    BY <1>1, <2>1, <2>3, <2>4
  <2>6. \A k \in 1 .. session[s].length : r.keys[k] = rows[s][m].keys[k]
    <3>1. /\ session[s].length \in 0 .. Capacity
          /\ Cursor(m).written \in session[s].length .. Cursor(m).stepEnd
          /\ Cursor(m).stepEnd \in session[s].length + 1 .. Capacity + Candidates
      BY <2>1, RunningFacts
    <3>2. ASSUME NEW k \in 1 .. session[s].length PROVE k \in Position /\ ~(k > Cursor(m).written)
      BY <3>1, SizeAssumption DEF Position
    <3> QED
      BY <2>2, <2>3, <3>2
  <2> HIDE DEF new
  <2>7. ASSUME NEW t \in Session, NEW l \in Layer
        PROVE  /\ new[t][l].host = rows[t][l].host /\ new[t][l].hint = rows[t][l].hint
               /\ \A k \in 1 .. session[t].length : new[t][l].keys[k] = rows[t][l].keys[k]
    <3>1. CASE t = s /\ l = m
      BY <2>3, <2>5, <2>6, <3>1
    <3>2. CASE t = s /\ l # m
      BY <2>5, <3>2
    <3>3. CASE t # s
      BY <2>5, <3>3
    <3> QED
      BY <3>1, <3>2, <3>3
  <2> QED
    BY <1>3, <2>5, <2>7
<1> QED
  BY <1>2, <1>3 DEF Torn

(* A forward that failed leaves the session as it found it, but for the    *)
(* hints of a candidate.                                                   *)
LEMMA UnwoundStep ==
  ASSUME IInv, Running, NEW s \in Session, s = forward.session, NEW layers, NEW part \in BOOLEAN,
         \A l \in Layer : LayerOK(layers[l], None, Rows(l)),
         Unwound(s, layers, part), UNCHANGED <<scheme, forwards, poisoned>>, failed' \in BOOLEAN
  PROVE  IInv' /\ HistoryUnchanged
<1> DEFINE L == session[s].length
           stray == session[s].strayHints \/ forward.kind = "candidate"
           x == [session[s] EXCEPT !.strayHints = stray]
           torn == Torn(s, part)
<1>1. /\ forward # None /\ ~poisoned
      /\ session' = [session EXCEPT ![s] = x]
      /\ cache' = [cache EXCEPT ![s] = [l \in Layer |-> IdleCache(cache[s][l].length)]]
      /\ rows' = IF forward.kind = "candidate" THEN torn ELSE WithHints(torn, s, forward.saved)
      /\ layer' = RolledBack(layers, s) /\ forward' = None
  BY DEF Unwound, Running, IInv, TypeOK, WithHints
<1>2. /\ L \in 0 .. Capacity /\ 1 \in Layer
      /\ \A l \in Layer : cache[s][l].length = L
      /\ forward.saved \in [Layer -> 0 .. MaxForwards]
  <2>1. 1 \in Layer
    BY SizeAssumption DEF Layer
  <2> QED
    BY <1>1, <2>1, RunningFacts DEF Cursor, ForwardState
<1>3. /\ session \in [Session -> SessionState] /\ cache \in [Session -> [Layer -> CacheState]]
      /\ rows \in [Session -> [Layer -> RowState]]
      /\ poisoned = FALSE /\ poisoned' = FALSE
  BY <1>1 DEF IInv, TypeOK
<1>4. /\ torn \in [Session -> [Layer -> RowState]]
      /\ \A t \in Session \ {s} : torn[t] = rows[t]
      /\ \A t \in Session, l \in Layer :
           /\ torn[t][l].host = rows[t][l].host
           /\ \A k \in 1 .. session[t].length : torn[t][l].keys[k] = rows[t][l].keys[k]
  BY TornRows
<1> HIDE DEF torn
<1>5. /\ rows' \in [Session -> [Layer -> RowState]]
      /\ \A t \in Session \ {s} : rows'[t] = rows[t]
      /\ \A t \in Session, l \in Layer :
           /\ rows'[t][l].host = rows[t][l].host
           /\ \A k \in 1 .. session[t].length : rows'[t][l].keys[k] = rows[t][l].keys[k]
      /\ forward.kind # "candidate" => \A l \in Layer : rows'[s][l].hint = forward.saved[l]
  <2>1. CASE forward.kind = "candidate"
    BY <1>1, <1>4, <2>1
  <2>2. CASE forward.kind # "candidate"
    <3>1. rows' = WithHints(torn, s, forward.saved)
      BY <1>1, <2>2
    <3>2. /\ rows' \in [Session -> [Layer -> RowState]]
          /\ \A t \in Session \ {s} : rows'[t] = torn[t]
          /\ \A t \in Session, l \in Layer :
               rows'[t][l].host = torn[t][l].host /\ rows'[t][l].keys = torn[t][l].keys
          /\ \A l \in Layer : rows'[s][l].hint = forward.saved[l]
      BY <1>2, <1>4, <3>1, RehintedRows
    <3> QED
      BY <1>4, <3>2
  <2> QED
    BY <2>1, <2>2
<1>6. /\ x \in SessionState /\ x.length = L /\ x.prefix = session[s].prefix
      /\ x.prefixHint = session[s].prefixHint /\ x.strayHints = stray
      /\ x.atPrefix = session[s].atPrefix /\ x.lastTransient = session[s].lastTransient
  <2>1. stray \in BOOLEAN
    OBVIOUS
  <2> HIDE DEF stray
  <2>2. session[s] \in SessionState
    BY <1>3
  <2>3. x \in SessionState /\ x.strayHints = stray
    BY <2>1, <2>2 DEF SessionState
  <2>4. /\ x.length = L /\ x.prefix = session[s].prefix
        /\ x.prefixHint = session[s].prefixHint
        /\ x.atPrefix = session[s].atPrefix /\ x.lastTransient = session[s].lastTransient
    BY <2>2 DEF SessionState
  <2> QED
    BY <2>3, <2>4
<1> HIDE DEF x
<1>7. /\ session' \in [Session -> SessionState] /\ session'[s] = x
      /\ \A t \in Session \ {s} : session'[t] = session[t]
  BY <1>1, <1>3, <1>6
<1>8. /\ \A l \in Layer : cache'[s][l] = IdleCache(L)
      /\ \A t \in Session \ {s} : cache'[t] = cache[t]
      /\ cache' \in [Session -> [Layer -> CacheState]]
  <2> DEFINE d == [l \in Layer |-> IdleCache(cache[s][l].length)]
  <2>1. \A l \in Layer : d[l] = IdleCache(L)
    BY <1>2
  <2>2. d \in [Layer -> CacheState]
    BY <1>2, <2>1, IdleCacheState
  <2> HIDE DEF d
  <2>3. cache' = [cache EXCEPT ![s] = d]
    BY <1>1 DEF d
  <2> QED
    BY <1>2, <1>3, <2>1, <2>2, <2>3
<1>9. \A t \in Session, l \in Layer : cache'[t][l] = IdleCache(session'[t].length)
  <2>1. ASSUME NEW t \in Session, NEW l \in Layer
        PROVE  cache'[t][l] = IdleCache(session'[t].length)
    <3>1. CASE t = s
      BY <1>6, <1>7, <1>8, <3>1
    <3>2. CASE t # s
      <4>1. cache'[t] = cache[t] /\ ~Executing(t) /\ session'[t] = session[t]
        BY <1>1, <1>7, <1>8, <3>2 DEF Executing
      <4>2. cache[t][l] = IdleCache(session[t].length)
        BY <1>1, <4>1 DEF IInv, CachesOK
      <4> QED
        BY <4>1, <4>2
    <3> QED
      BY <3>1, <3>2
  <2> QED
    BY <2>1
<1>10. \A l \in Layer : LayerOK(layer'[l], None, Rows(l)') /\ layer'[l] \in LayerState
  <2>1. ASSUME NEW l \in Layer PROVE LayerOK(RolledBack(layers, s)[l], None, Rows(l)')
    <3>1. LayerOK(RolledBack(layers, s)[l], None, Rows(l))
      BY RolledBackLayer DEF IInv
    <3> QED
      BY <1>5, <3>1, SameHosts
  <2> QED
    BY <1>1, <2>1 DEF LayerOK
<1>11. layer' \in [Layer -> LayerState]
  BY <1>1, <1>10 DEF RolledBack
<1>12. HistoryOK' /\ HistoryUnchanged
  <2>1. \A t \in Session : session'[t].length = session[t].length
    BY <1>6, <1>7
  <2>2. HistoryOK'
    <3>1. \A t \in Session : \A k \in 1 .. session'[t].length : k \in 1 .. session[t].length
      BY <2>1
    <3>2. \A t \in Session, l \in Layer : \A k \in 1 .. session'[t].length :
            rows'[t][l].host[k] = rows[t][l].host[k] /\ rows'[t][l].keys[k] = rows[t][l].keys[k]
      BY <1>5, <2>1, SMTT(40)
    <3> QED
      BY <3>1, <3>2, SameHistory DEF IInv
  <2> QED
    BY <1>2, <1>5, <2>1, <2>2 DEF HistoryUnchanged
<1>13. HintsOK'
  <2>1. /\ \A t \in Session : /\ ~Executing(t)'
                              /\ t # s => HintsBefore(t)' = HintsBefore(t) /\ ~Executing(t)
        /\ forward.kind # "candidate" => \A t \in {s} : HintsBefore(t)' = HintsBefore(t)
    <3>1. \A t \in Session \ {s} : Hints(t)' = Hints(t)
      BY <1>5 DEF Hints
    <3>2. ASSUME forward.kind # "candidate" PROVE Hints(s)' = forward.saved
      <4>1. forward.saved = [l \in Layer |-> forward.saved[l]]
        BY <1>2
      <4>2. Hints(s)' = [l \in Layer |-> rows'[s][l].hint]
        BY DEF Hints
      <4> QED
        BY <1>5, <3>2, <4>1, <4>2
    <3> QED
      BY <1>1, <3>1, <3>2 DEF HintsBefore, Executing
  <2>2. ASSUME NEW t \in Session
        PROVE  /\ session'[t].length < session'[t].prefix => session'[t].strayHints
               /\ session'[t].length = session'[t].prefix /\ session'[t].prefix > 0 =>
                    session'[t].strayHints \/ HintsBefore(t)' = session'[t].prefixHint
               /\ session'[t].atPrefix =>
                    session'[t].length = session'[t].prefix /\ session'[t].prefix > 0
               /\ session'[t].lastTransient => session'[t].length <= session'[t].prefix
    <3>1. CASE t # s
      BY <1>7, <2>1, <3>1 DEF IInv, HintsOK
    <3>2. CASE t = s
      <4>1. /\ L < session[s].prefix => session[s].strayHints
            /\ L = session[s].prefix /\ session[s].prefix > 0 =>
                 session[s].strayHints \/ HintsBefore(s) = session[s].prefixHint
            /\ ~session[s].atPrefix /\ ~session[s].lastTransient
        BY <1>1 DEF IInv, HintsOK, Executing
      <4>2. CASE forward.kind = "candidate"
        BY <1>6, <1>7, <3>2, <4>1, <4>2
      <4>3. CASE forward.kind # "candidate"
        <5>1. HintsBefore(s)' = HintsBefore(s)
          BY <2>1, <4>3
        <5> QED
          BY <1>6, <1>7, <3>2, <4>1, <5>1
      <4> QED
        BY <4>2, <4>3
    <3> QED
      BY <3>1, <3>2
  <2> QED
    BY <2>1, <2>2 DEF HintsOK
<1> QED
  BY <1>1, <1>3, <1>5, <1>7, <1>8, <1>9, <1>10, <1>11, <1>12, <1>13, IdleStep

(* The body of a forward fails. *)
LEMMA FailStep ==
  ASSUME IInv, NEW part \in BOOLEAN, Fail(part)
  PROVE  IInv' /\ HistoryUnchanged
<1>1. Running /\ Unwound(forward.session, Drained, part)
      /\ UNCHANGED <<scheme, forwards, poisoned>> /\ failed' \in BOOLEAN
  BY DEF Fail, IInv, TypeOK
<1>2. PICK s \in Session : s = forward.session
  BY <1>1, RunningFacts
<1>3. \A l \in Layer : LayerOK(Drained[l], None, Rows(l))
  BY DrainedLayers DEF IInv
<1> QED
  BY <1>1, <1>2, <1>3, UnwoundStep

(* The submission of a copy fails half way. *)
LEMMA SubmitFailsStep ==
  ASSUME IInv, NEW l \in Layer, NEW queued \in BOOLEAN, SubmitFails(l, queued)
  PROVE  IInv' /\ HistoryUnchanged
<1> DEFINE all == [layer EXCEPT ![l] = Requested(l)]
           left == IF Copying(all[l]) /\ queued THEN [all EXCEPT ![l] = Copied(all[l], l)]
                   ELSE all
           ended(k) == IF k # l /\ Copying(left[k]) THEN Copied(left[k], k) ELSE left[k]
           layers == [k \in Layer |-> [ended(k) EXCEPT !.ticket = None]]
<1>1. /\ Running /\ Wanted(l) /\ Cursor(l).written <= Slots
      /\ Unwound(forward.session, layers, FALSE)
      /\ UNCHANGED <<scheme, forwards, poisoned>> /\ failed' \in BOOLEAN
      /\ layer \in [Layer -> LayerState]
  BY DEF SubmitFails, IInv, TypeOK
<1>2. PICK s \in Session : s = forward.session
  BY <1>1, RunningFacts
<1>3. all[l] = Requested(l) /\ \A k \in Layer \ {l} : all[k] = layer[k]
  BY <1>1
<1>4. LayerOK(all[l], ExecutingSession, Rows(l))
  BY <1>1, <1>3, WantedLayer
<1>5. \A k \in Layer : LayerOK(left[k], ExecutingSession, Rows(k))
  <2>1. Copying(all[l]) => LayerOK(Copied(all[l], l), ExecutingSession, Rows(l))
    BY <1>4, CopiedLayer DEF IInv
  <2>2. DOMAIN all = Layer
    BY <1>1
  <2> HIDE DEF all
  <2>3. /\ \A k \in Layer \ {l} : left[k] = layer[k]
        /\ left[l] = IF Copying(all[l]) /\ queued THEN Copied(all[l], l) ELSE all[l]
    <3>1. CASE Copying(all[l]) /\ queued
      <4>1. left = [all EXCEPT ![l] = Copied(all[l], l)]
        BY <3>1
      <4> HIDE DEF left
      <4> QED
        BY <1>3, <2>2, <3>1, <4>1
    <3>2. CASE ~(Copying(all[l]) /\ queued)
      BY <1>3, <3>2
    <3> QED
      BY <3>1, <3>2
  <2> HIDE DEF left
  <2>4. LayerOK(left[l], ExecutingSession, Rows(l))
    BY <1>4, <2>1, <2>3
  <2>5. ASSUME NEW k \in Layer \ {l} PROVE LayerOK(left[k], ExecutingSession, Rows(k))
    BY <2>3 DEF IInv, LayersOK
  <2> QED
    BY <2>4, <2>5
<1> HIDE DEF left
<1>6. \A k \in Layer : LayerOK(ended(k), ExecutingSession, Rows(k))
  BY <1>5, CopiedLayer DEF IInv
<1> HIDE DEF ended
<1>7. \A k \in Layer : LayerOK(layers[k], None, Rows(k))
  BY <1>6, DroppedLayer
<1> HIDE DEF layers
<1> QED
  BY <1>1, <1>2, <1>7, UnwoundStep

(* The clean-up or the commit breaks off: some layers are done.            *)
LEMMA BreakStep ==
  ASSUME IInv, NEW k \in 0 .. Layers - 1, Break(k)
  PROVE  IInv'
<1> DEFINE s == forward.session
           d == [l \in Layer |-> IF l <= k THEN IdleCache(cache[s][l].written) ELSE cache[s][l]]
<1>1. /\ Running /\ ~poisoned /\ forward # None
      /\ k > 0 => Complete /\ forward.kind # "candidate"
      /\ cache' = [cache EXCEPT ![s] = d]
      /\ poisoned' = TRUE
      /\ UNCHANGED <<scheme, session, rows, layer, forward, forwards, failed>>
  BY DEF Break, Running, IInv, TypeOK
<1>2. s \in Session /\ cache \in [Session -> [Layer -> CacheState]]
  BY <1>1, RunningFacts DEF IInv, TypeOK
<1>3. ASSUME NEW l \in Layer
      PROVE  d[l] \in CacheState /\ d[l].length <= d[l].written
  <2>1. CASE l <= k
    <3>1. k > 0
      BY <2>1 DEF Layer
    <3>2. Cursor(l).written = Cursor(l).stepEnd /\ Cursor(l).stepEnd <= Capacity
      BY <1>1, <3>1 DEF IInv, KindOK, Complete
    <3>3. /\ session[s].length \in 0 .. Capacity
          /\ Cursor(l).stepEnd \in session[s].length + 1 .. Capacity + Candidates
          /\ Cursor(l) = cache[s][l]
      BY <1>1, RunningFacts DEF Cursor
    <3>4. cache[s][l].written \in 0 .. Capacity
      BY <3>2, <3>3, SizeAssumption
    <3>5. /\ IdleCache(cache[s][l].written) \in CacheState
          /\ IdleCache(cache[s][l].written).length <= IdleCache(cache[s][l].written).written
      BY <3>4, IdleCacheState, SizeAssumption
    <3> QED
      BY <2>1, <3>5
  <2>2. CASE ~(l <= k)
    BY <1>2, <2>2 DEF IInv, TypeOK
  <2> QED
    BY <2>1, <2>2
<1>4. d \in [Layer -> CacheState]
  BY <1>3
<1> HIDE DEF d
<1>5. /\ cache' \in [Session -> [Layer -> CacheState]] /\ cache'[s] = d
      /\ \A t \in Session \ {s} : cache'[t] = cache[t]
  BY <1>1, <1>2, <1>4
<1>6. TypeOK'
  <2>1. ASSUME NEW t \in Session, NEW l \in Layer
        PROVE  cache'[t][l].length <= cache'[t][l].written
    <3>1. cache[t][l].length <= cache[t][l].written
      BY DEF IInv, TypeOK
    <3> QED
      BY <1>3, <1>5, <3>1
  <2> QED
    BY <1>1, <1>5, <2>1 DEF IInv, TypeOK
<1>7. CachesOK' /\ KindOK' /\ HistoryOK' /\ PendingOK'
  BY <1>1 DEF IInv, CachesOK, KindOK, HistoryOK, PendingOK
<1>8. HintsOK'
  BY <1>1 DEF IInv, HintsOK, HintsBefore, Hints, Executing
<1>9. LayersOK'
  <2>1. ExecutingSession' = ExecutingSession /\ \A l \in Layer : Rows(l)' = Rows(l)
    BY <1>1 DEF ExecutingSession, Rows
  <2> QED
    BY <1>1, <2>1, NextLayers DEF IInv, LayersOK
<1> QED
  BY <1>6, <1>7, <1>8, <1>9 DEF IInv

(* A truncation or a release breaks off. *)
LEMMA BreakIdleStep ==
  ASSUME IInv, NEW s \in Session, NEW k \in 0 .. Layers - 1, BreakIdle(s, k)
  PROVE  IInv'
<1> DEFINE d == [l \in Layer |-> IF l <= k THEN IdleCache(0) ELSE cache[s][l]]
<1>1. /\ cache' = [cache EXCEPT ![s] = d]
      /\ poisoned' = TRUE
      /\ UNCHANGED <<scheme, session, rows, layer, forward, forwards, failed>>
      /\ cache \in [Session -> [Layer -> CacheState]]
  BY DEF BreakIdle, IInv, TypeOK
<1>2. ASSUME NEW l \in Layer
      PROVE  d[l] \in CacheState /\ d[l].length <= d[l].written
  <2>1. IdleCache(0) \in CacheState /\ IdleCache(0).length <= IdleCache(0).written
    BY IdleCacheState, SizeAssumption
  <2> QED
    BY <1>1, <2>1 DEF IInv, TypeOK
<1>3. d \in [Layer -> CacheState]
  BY <1>2
<1> HIDE DEF d
<1>4. /\ cache' \in [Session -> [Layer -> CacheState]] /\ cache'[s] = d
      /\ \A t \in Session \ {s} : cache'[t] = cache[t]
  BY <1>1, <1>3
<1>5. TypeOK'
  <2>1. ASSUME NEW t \in Session, NEW l \in Layer
        PROVE  cache'[t][l].length <= cache'[t][l].written
    <3>1. cache[t][l].length <= cache[t][l].written
      BY DEF IInv, TypeOK
    <3> QED
      BY <1>2, <1>4, <3>1
  <2> QED
    BY <1>1, <1>4, <2>1 DEF IInv, TypeOK
<1>6. CachesOK' /\ KindOK' /\ HistoryOK' /\ PendingOK'
  BY <1>1 DEF IInv, CachesOK, KindOK, HistoryOK, PendingOK
<1>7. HintsOK'
  BY <1>1 DEF IInv, HintsOK, HintsBefore, Hints, Executing
<1>8. LayersOK'
  <2>1. ExecutingSession' = ExecutingSession /\ \A l \in Layer : Rows(l)' = Rows(l)
    BY <1>1 DEF ExecutingSession, Rows
  <2> QED
    BY <1>1, <2>1, NextLayers DEF IInv, LayersOK
<1> QED
  BY <1>5, <1>6, <1>7, <1>8 DEF IInv

(* A session is truncated, or found to be so. *)
LEMMA TruncateStep ==
  ASSUME IInv, NEW s \in Session, NEW n \in 0 .. Capacity, Truncate(s, n)
  PROVE  IInv'
<1> DEFINE L == session[s].length
           P == session[s].prefix
           stray == IF session[s].lastTransient /\ n = L THEN session[s].strayHints ELSE n < P
           at == n = P
           x == [session[s] EXCEPT !.length = n, !.atPrefix = at, !.strayHints = stray]
           hints == IF n = P THEN session[s].prefixHint ELSE [l \in Layer |-> 0]
<1>1. /\ ~poisoned /\ forward = None /\ P > 0 /\ n <= L
      /\ session' = [session EXCEPT ![s] = x]
      /\ UNCHANGED <<scheme, forward, forwards, failed, poisoned>>
      /\ \/ NothingToCut(s, n) /\ UNCHANGED <<cache, rows, layer>>
         \/ /\ cache' = [cache EXCEPT ![s] = [l \in Layer |-> IdleCache(n)]]
            /\ layer' = [l \in Layer |-> Unmapped(Leased(layer[l], s), s, n)]
            /\ rows' = WithHints(rows, s, hints)
  BY DEF Truncate, IInv, TypeOK, Rehinted, WithHints
<1>2. /\ session \in [Session -> SessionState] /\ cache \in [Session -> [Layer -> CacheState]]
      /\ rows \in [Session -> [Layer -> RowState]] /\ failed \in BOOLEAN
      /\ layer \in [Layer -> LayerState]
      /\ poisoned' = FALSE /\ n \in Nat /\ L \in Nat /\ P \in Nat
      /\ session[s].prefixHint \in [Layer -> 0 .. MaxForwards]
  BY <1>1, SizeAssumption DEF IInv, TypeOK, SessionState
<1>3. \A t \in Session, l \in Layer : cache[t][l] = IdleCache(session[t].length)
  BY <1>1, IdleFacts DEF IInv, CachesOK
<1>4. /\ x \in SessionState /\ x.length = n /\ x.prefix = P
      /\ x.prefixHint = session[s].prefixHint /\ x.strayHints = stray
      /\ x.atPrefix = at /\ x.lastTransient = session[s].lastTransient
  <2>1. session[s] \in SessionState
    BY <1>2
  <2>2. stray \in BOOLEAN /\ at \in BOOLEAN
    <3>1. session[s].strayHints \in BOOLEAN
      BY <2>1 DEF SessionState
    <3>2. (n < P) \in BOOLEAN /\ at \in BOOLEAN
      OBVIOUS
    <3> QED
      BY <3>1, <3>2
  <2> HIDE DEF stray, at
  <2> DEFINE u == [session[s] EXCEPT !.length = n]
             v == [u EXCEPT !.atPrefix = at]
  <2>3. /\ u \in SessionState /\ u.length = n /\ u.prefix = P
        /\ u.prefixHint = session[s].prefixHint
        /\ u.lastTransient = session[s].lastTransient
    BY <2>1 DEF SessionState
  <2> HIDE DEF u
  <2>4. v \in SessionState /\ v.atPrefix = at
    BY <2>2, <2>3 DEF SessionState
  <2>5. /\ v.length = n /\ v.prefix = P /\ v.prefixHint = session[s].prefixHint
        /\ v.lastTransient = session[s].lastTransient
    BY <2>3 DEF SessionState
  <2> HIDE DEF v
  <2> DEFINE w == [v EXCEPT !.strayHints = stray]
  <2>6. w \in SessionState /\ w.strayHints = stray
    BY <2>2, <2>4 DEF SessionState
  <2>7. /\ w.length = n /\ w.prefix = P /\ w.prefixHint = session[s].prefixHint
        /\ w.lastTransient = session[s].lastTransient /\ w.atPrefix = at
    BY <2>4, <2>5 DEF SessionState
  <2>8. x = w
    BY DEF u, v
  <2> HIDE DEF w, x
  <2> QED
    BY <2>6, <2>7, <2>8
<1> HIDE DEF x
<1>5. /\ session' \in [Session -> SessionState] /\ session'[s] = x
      /\ \A t \in Session \ {s} : session'[t] = session[t]
  BY <1>1, <1>2, <1>4
<1>6. hints \in [Layer -> 0 .. MaxForwards]
  BY <1>2, SizeAssumption
<1> HIDE DEF hints
<1>7. /\ rows' \in [Session -> [Layer -> RowState]]
      /\ \A t \in Session \ {s} : rows'[t] = rows[t]
      /\ \A t \in Session, l \in Layer :
           rows'[t][l].host = rows[t][l].host /\ rows'[t][l].keys = rows[t][l].keys
      /\ \/ NothingToCut(s, n) /\ rows' = rows
         \/ \A l \in Layer : rows'[s][l].hint = hints[l]
  <2>1. CASE UNCHANGED rows /\ NothingToCut(s, n)
    BY <1>2, <2>1
  <2>2. CASE rows' = WithHints(rows, s, hints)
    BY <1>2, <1>6, <2>2, RehintedRows
  <2> QED
    BY <1>1, <2>1, <2>2
<1>8. /\ cache' \in [Session -> [Layer -> CacheState]]
      /\ \A l \in Layer : cache'[s][l] = IdleCache(n)
      /\ \A t \in Session \ {s} : cache'[t] = cache[t]
  <2>1. CASE UNCHANGED cache /\ NothingToCut(s, n)
    BY <1>2, <2>1 DEF NothingToCut
  <2>2. CASE cache' = [cache EXCEPT ![s] = [l \in Layer |-> IdleCache(n)]]
    BY <1>2, <2>2, IdleCacheState
  <2> QED
    BY <1>1, <2>1, <2>2
<1>9. \A t \in Session, l \in Layer : cache'[t][l] = IdleCache(session'[t].length)
  <2>1. ASSUME NEW t \in Session, NEW l \in Layer
        PROVE  cache'[t][l] = IdleCache(session'[t].length)
    <3>1. CASE t = s
      BY <1>4, <1>5, <1>8, <3>1
    <3>2. CASE t # s
      BY <1>3, <1>5, <1>8, <3>2
    <3> QED
      BY <3>1, <3>2
  <2> QED
    BY <2>1
<1>10. \A l \in Layer : LayerOK(layer'[l], None, Rows(l)') /\ layer'[l] \in LayerState
  <2>1. ASSUME NEW l \in Layer PROVE LayerOK(layer'[l], None, Rows(l)')
    <3>1. layer[l].ticket = None /\ LayerOK(layer[l], None, Rows(l))
      BY <1>1, IdleFacts
    <3>2. LayerOK(layer[l], None, Rows(l)')
      BY <1>7, <3>1, SameHosts
    <3>3. LayerOK(Unmapped(Leased(layer[l], s), s, n), None, Rows(l)')
      <4>1. Leased(layer[l], s) \in LayerState /\ Leased(layer[l], s).ticket = None
        BY <3>1, LeasedLayer DEF LayerOK
      <4> QED
        BY <1>2, <4>1, UnmappedLayer
    <3> QED
      BY <1>1, <3>2, <3>3
  <2> QED
    BY <2>1 DEF LayerOK
<1>11. layer' \in [Layer -> LayerState]
  BY <1>1, <1>2, <1>10
<1>12. HistoryOK'
  <2>1. \A t \in Session : \A k \in 1 .. session'[t].length : k \in 1 .. session[t].length
    <3>1. \A k \in 1 .. n : k \in 1 .. L
      BY <1>1, <1>2
    <3> QED
      BY <1>4, <1>5, <3>1
  <2> QED
    BY <1>7, <2>1, SameHistory DEF IInv
<1>13. HintsOK'
  <2>1. \A t \in Session : /\ ~Executing(t)' /\ HintsBefore(t)' = Hints(t)'
                           /\ ~Executing(t) /\ HintsBefore(t) = Hints(t)
                           /\ t # s => Hints(t)' = Hints(t)
    BY <1>1, <1>7 DEF HintsBefore, Executing, Hints
  <2>2. \/ NothingToCut(s, n) /\ Hints(s)' = Hints(s)
        \/ n = P => Hints(s)' = session[s].prefixHint
    <3>1. CASE NothingToCut(s, n) /\ rows' = rows
      BY <3>1 DEF Hints
    <3>2. CASE \A l \in Layer : rows'[s][l].hint = hints[l]
      <4>1. ASSUME n = P PROVE Hints(s)' = session[s].prefixHint
        <5>1. hints = session[s].prefixHint /\ hints = [l \in Layer |-> hints[l]]
          BY <1>2, <4>1 DEF hints
        <5>2. Hints(s)' = [l \in Layer |-> rows'[s][l].hint]
          BY DEF Hints
        <5> QED
          BY <3>2, <5>1, <5>2
      <4> QED
        BY <4>1
    <3> QED
      BY <1>7, <3>1, <3>2
  <2>3. ASSUME NEW t \in Session
        PROVE  /\ session'[t].length < session'[t].prefix => session'[t].strayHints
               /\ session'[t].length = session'[t].prefix /\ session'[t].prefix > 0 =>
                    session'[t].strayHints \/ Hints(t)' = session'[t].prefixHint
               /\ session'[t].atPrefix =>
                    session'[t].length = session'[t].prefix /\ session'[t].prefix > 0
               /\ session'[t].lastTransient => session'[t].length <= session'[t].prefix
    <3>1. CASE t # s
      BY <1>5, <2>1, <3>1 DEF IInv, HintsOK
    <3>2. CASE t = s
      <4>1. /\ L < P => session[s].strayHints
            /\ L = P /\ P > 0 => session[s].strayHints \/ Hints(s) = session[s].prefixHint
            /\ session[s].lastTransient => L <= P
        BY <2>1 DEF IInv, HintsOK
      <4>2. n < P => stray
        BY <1>1, <4>1
      <4>3. n = P => stray \/ Hints(s)' = session[s].prefixHint
        <5>1. CASE NothingToCut(s, n) /\ Hints(s)' = Hints(s)
          BY <1>1, <4>1, <5>1 DEF NothingToCut
        <5>2. CASE n = P => Hints(s)' = session[s].prefixHint
          BY <5>2
        <5> QED
          BY <2>2, <5>1, <5>2
      <4>4. session[s].lastTransient => n <= P
        BY <1>1, <1>2, <4>1
      <4> QED
        BY <1>1, <1>4, <1>5, <3>2, <4>2, <4>3, <4>4
    <3> QED
      BY <3>1, <3>2
  <2> QED
    BY <2>1, <2>3 DEF HintsOK
<1> QED
  BY <1>1, <1>2, <1>5, <1>7, <1>8, <1>9, <1>10, <1>11, <1>12, <1>13, IdleStep

(* A session goes. *)
LEMMA ReleaseStep ==
  ASSUME IInv, NEW s \in Session, Release(s)
  PROVE  IInv'
<1> DEFINE x == [NewSession EXCEPT !.status = "released"]
<1>1. /\ ~poisoned /\ forward = None
      /\ session' = [session EXCEPT ![s] = x]
      /\ cache' = [cache EXCEPT ![s] = [l \in Layer |-> IdleCache(0)]]
      /\ rows' = [rows EXCEPT ![s] = [l \in Layer |-> NewRows]]
      /\ layer' = [l \in Layer |-> Unmapped(layer[l], s, 0)]
      /\ UNCHANGED <<scheme, forward, forwards, failed, poisoned>>
  BY DEF Release
<1>2. /\ session \in [Session -> SessionState] /\ cache \in [Session -> [Layer -> CacheState]]
      /\ rows \in [Session -> [Layer -> RowState]] /\ failed \in BOOLEAN
      /\ poisoned' = FALSE
  BY <1>1 DEF IInv, TypeOK
<1>3. /\ x \in SessionState /\ x.length = 0 /\ x.prefix = 0
      /\ x.atPrefix = FALSE /\ x.lastTransient = FALSE
  <2>1. 0 \in 0 .. Capacity /\ 0 \in 0 .. MaxForwards
    BY SizeAssumption
  <2> QED
    BY <2>1 DEF NewSession, SessionState
<1> HIDE DEF x
<1>4. /\ session' \in [Session -> SessionState] /\ session'[s] = x
      /\ \A t \in Session \ {s} : session'[t] = session[t]
  BY <1>1, <1>2, <1>3
<1>5. NewRows \in RowState
  BY SizeAssumption DEF NewRows, RowState, Blank
<1>6. /\ rows' \in [Session -> [Layer -> RowState]]
      /\ \A t \in Session \ {s} : rows'[t] = rows[t]
  BY <1>1, <1>2, <1>5
<1>7. /\ cache' \in [Session -> [Layer -> CacheState]]
      /\ \A l \in Layer : cache'[s][l] = IdleCache(0)
      /\ \A t \in Session \ {s} : cache'[t] = cache[t]
  <2>1. IdleCache(0) \in CacheState
    BY IdleCacheState, SizeAssumption
  <2> QED
    BY <1>1, <1>2, <2>1
<1>8. \A t \in Session, l \in Layer : cache'[t][l] = IdleCache(session'[t].length)
  <2>1. \A t \in Session, l \in Layer : cache[t][l] = IdleCache(session[t].length)
    BY <1>1, IdleFacts DEF IInv, CachesOK
  <2> QED
    BY <1>3, <1>4, <1>7, <2>1
<1>9. \A l \in Layer : LayerOK(layer'[l], None, Rows(l)') /\ layer'[l] \in LayerState
  <2>1. \A l \in Layer : layer[l] \in LayerState /\ layer[l].ticket = None
    BY <1>1, IdleFacts
  <2>2. \A l \in Layer : LayerOK(Unmapped(layer[l], s, 0), None, Rows(l)')
    BY <2>1, UnmappedLayer
  <2> QED
    BY <1>1, <2>2 DEF LayerOK
<1>10. layer' \in [Layer -> LayerState]
  BY <1>1, <1>9
<1>11. HistoryOK'
  <2>1. ASSUME NEW t \in Session, NEW l \in Layer, NEW k \in 1 .. session'[t].length
        PROVE  /\ rows'[t][l].host[k] = rows'[t][1].host[k]
               /\ rows'[t][l].keys[k] = rows'[t][1].host[k]
               /\ rows'[t][l].host[k] # Blank
    <3>1. t # s
      BY <1>3, <1>4, <2>1
    <3> QED
      BY <1>4, <1>6, <2>1, <3>1 DEF IInv, HistoryOK
  <2> QED
    BY <2>1 DEF HistoryOK
<1>12. HintsOK'
  <2>1. \A t \in Session : /\ ~Executing(t)' /\ HintsBefore(t)' = Hints(t)'
                           /\ ~Executing(t) /\ HintsBefore(t) = Hints(t)
                           /\ t # s => Hints(t)' = Hints(t)
    BY <1>1, <1>6 DEF HintsBefore, Executing, Hints
  <2>2. ASSUME NEW t \in Session
        PROVE  /\ session'[t].length < session'[t].prefix => session'[t].strayHints
               /\ session'[t].length = session'[t].prefix /\ session'[t].prefix > 0 =>
                    session'[t].strayHints \/ Hints(t)' = session'[t].prefixHint
               /\ session'[t].atPrefix =>
                    session'[t].length = session'[t].prefix /\ session'[t].prefix > 0
               /\ session'[t].lastTransient => session'[t].length <= session'[t].prefix
    <3>1. CASE t # s
      BY <1>4, <2>1, <3>1 DEF IInv, HintsOK
    <3>2. CASE t = s
      BY <1>3, <1>4, <3>2
    <3> QED
      BY <3>1, <3>2
  <2> QED
    BY <2>1, <2>2 DEF HintsOK
<1> QED
  BY <1>1, <1>2, <1>4, <1>6, <1>7, <1>8, <1>9, <1>10, <1>11, <1>12, IdleStep

(* Every step preserves the invariant. *)
LEMMA NextIInv == IInv /\ [Next]_vars => IInv'
<1> SUFFICES ASSUME IInv, [Next]_vars PROVE IInv'
  OBVIOUS
<1>1. CASE UNCHANGED vars
  <2>1. /\ UNCHANGED <<scheme, session, cache, rows, forward, forwards, poisoned>>
        /\ layer' = layer /\ failed' = failed
    BY <1>1 DEF vars
  <2> QED
    BY <2>1, PoolStep DEF IInv, TypeOK, LayersOK
<1>2. ASSUME NEW s \in Session, Create(s) \/ Release(s) PROVE IInv'
  BY <1>2, CreateStep, ReleaseStep
<1>3. ASSUME NEW s \in Session, NEW kind \in {"prefill", "extend", "candidate"},
             NEW n \in Position, Begin(s, kind, n)
      PROVE  IInv'
  BY <1>3, BeginStep
<1>4. ASSUME NEW l \in Layer, CopyLands(l) \/ Submit(l) \/ Wait(l) PROVE IInv'
  BY <1>4, CopyLandsStep, SubmitStep, WaitStep
<1>5. ASSUME NEW l \in Layer, NEW hinted \in BOOLEAN, Block(l, hinted) PROVE IInv'
  BY <1>5, BlockStep
<1>6. ASSUME NextChunk \/ Commit \/ Discard PROVE IInv'
  BY <1>6, NextChunkStep, CommitStep, DiscardStep
<1>7. ASSUME NEW part \in BOOLEAN, Fail(part) PROVE IInv'
  BY <1>7, FailStep
<1>8. ASSUME NEW l \in Layer, NEW queued \in BOOLEAN, SubmitFails(l, queued) PROVE IInv'
  BY <1>8, SubmitFailsStep
<1>9. ASSUME NEW k \in 0 .. Layers - 1, Break(k) PROVE IInv'
  BY <1>9, BreakStep
<1>10. ASSUME NEW s \in Session, NEW n \in 0 .. Capacity, Truncate(s, n) PROVE IInv'
  BY <1>10, TruncateStep
<1>11. ASSUME NEW s \in Session, NEW k \in 0 .. Layers - 1, BreakIdle(s, k) PROVE IInv'
  BY <1>11, BreakIdleStep
<1> QED
  BY <1>1, <1>2, <1>3, <1>4, <1>5, <1>6, <1>7, <1>8, <1>9, <1>10, <1>11 DEF Next

-----------------------------------------------------------------------------
(* The theorems. *)

(* The strengthened invariant holds in every run of the backend. *)
THEOREM Invariant == Spec => []IInv
<1>1. IInv /\ [Next]_vars => IInv'
  BY NextIInv
<1> QED
  BY InitIInv, <1>1, PTL DEF Spec

(* The variables keep their types: every position, slot, chunk and step    *)
(* end stays in its range, whatever fails (adapter.py, prefetch.py).       *)
THEOREM TypeCorrect == Spec => []TypeOK
<1>1. IInv => TypeOK
  BY DEF IInv
<1> QED
  BY Invariant, <1>1, PTL

(* What the pool certifies as resident is in the slots as the host has it, *)
(* and no ticket that is still to be waited for has gone stale, for any    *)
(* sessions, layers, pool and chunk size (certify_dense_history, _submit). *)
THEOREM CertifiedHistoryIsThere == Spec => []DenseProofSound
<1>1. ASSUME IInv PROVE DenseProofSound
  <2>1. ASSUME NEW l \in Layer
        PROVE  /\ layer[l].denseOwner # None =>
                    \A k \in 1 .. layer[l].denseEnd :
                      layer[l].slots[k] =
                        [owner |-> layer[l].denseOwner,
                         record |-> rows[layer[l].denseOwner][l].host[k]]
               /\ layer[l].ticket # None /\ ~layer[l].ticket.waited => layer[l].ticket.current
    <3>1. LayerOK(layer[l], ExecutingSession, Rows(l))
      BY <1>1 DEF IInv, LayersOK
    <3>2. layer[l].denseOwner # None =>
            /\ Rows(l)[layer[l].denseOwner] = rows[layer[l].denseOwner][l]
            /\ Holds(layer[l], layer[l].denseOwner, layer[l].denseEnd, Rows(l))
      BY <3>1 DEF LayerOK, LayerState, Rows
    <3> QED
      BY <3>1, <3>2 DEF LayerOK, TicketOK, Holds
  <2> QED
    BY <1>1, <2>1 DEF DenseProofSound, IInv
<1> QED
  BY Invariant, <1>1, PTL

(* Between forwards all layers of every session stand at one length with   *)
(* no step pending, and a session truncated to its prefix has the prefix's *)
(* hints unless they are marked as stray (_forward_leased,                 *)
(* _truncate_leased).                                                      *)
THEOREM LayersAgreeBetweenForwards == Spec => []UsableSessionsAgree
<1>1. ASSUME IInv PROVE UsableSessionsAgree
  <2>1. SUFFICES ASSUME ~poisoned, forward = None, NEW s \in Session
                 PROVE  /\ \A l \in Layer : cache[s][l] = IdleCache(session[s].length)
                        /\ session[s].atPrefix =>
                             /\ session[s].length = session[s].prefix
                             /\ session[s].strayHints \/ Hints(s) = session[s].prefixHint
    BY DEF UsableSessionsAgree
  <2>2. ~Executing(s) /\ HintsBefore(s) = Hints(s)
    BY <1>1, <2>1, IdleFacts
  <2>3. \A l \in Layer : cache[s][l] = IdleCache(session[s].length)
    BY <1>1, <2>1, <2>2 DEF IInv, CachesOK
  <2> QED
    BY <1>1, <2>2, <2>3 DEF IInv, HintsOK
<1> QED
  BY Invariant, <1>1, PTL

-----------------------------------------------------------------------------
(* Refinement. *)

(* A session's history, as its first layer has it on the host. *)
Hist(s) == [k \in 1 .. session[s].length |-> rows[s][1].host[k]]

(* A function on an initial interval is a sequence. *)
LEMMA IntervalSeq ==
  ASSUME NEW n \in Nat, NEW h \in [1 .. n -> Nat]
  PROVE  h \in Seq(Nat) /\ Len(h) = n
<1>1. h \in Seq(Nat)
  BY SeqDef
<1>2. DOMAIN h = 1 .. n /\ DOMAIN h = 1 .. Len(h) /\ Len(h) \in Nat
  BY <1>1, LenProperties
<1> QED
  BY <1>1, <1>2

(* All stores of a session hold that one history. *)
LEMMA OneHistory == HistoryOK => \A s \in Session : Histories(s) = {Hist(s)}
<1> SUFFICES ASSUME HistoryOK, NEW s \in Session
             PROVE  Histories(s) = {Hist(s)}
  OBVIOUS
<1> DEFINE n == session[s].length
           Buffers == UNION {{rows[s][l].host, rows[s][l].keys} : l \in Layer}
<1>1. ASSUME NEW b \in Buffers PROVE [k \in 1 .. n |-> b[k]] = Hist(s)
  <2>1. PICK l \in Layer : b = rows[s][l].host \/ b = rows[s][l].keys
    OBVIOUS
  <2>2. \A k \in 1 .. n : rows[s][l].host[k] = rows[s][1].host[k]
                          /\ rows[s][l].keys[k] = rows[s][1].host[k]
    BY DEF HistoryOK
  <2>3. \A k \in 1 .. n : b[k] = rows[s][1].host[k]
    BY <2>1, <2>2
  <2> QED
    BY <2>3 DEF Hist
<1>2. rows[s][1].host \in Buffers
  <2>1. 1 \in Layer
    BY SizeAssumption DEF Layer
  <2> QED
    BY <2>1
<1>3. Histories(s) = {[k \in 1 .. n |-> b[k]] : b \in Buffers}
  BY DEF Histories
<1> HIDE DEF Buffers, n
<1> QED
  BY <1>1, <1>2, <1>3

(* A fresh backend has the empty history of every session. *)
LEMMA InitRefines == Init => History!Init
<1> SUFFICES ASSUME Init PROVE History!Init
  OBVIOUS
<1>1. \A s \in Session : Histories(s) = {Hist(s)}
  BY InitIInv, OneHistory DEF IInv
<1>2. \A s \in Session : Hist(s) = << >>
  <2>1. \A s \in Session : session[s].length = 0
    BY DEF Init, NewSession
  <2>2. ASSUME NEW h, h \in [1 .. 0 -> Nat] PROVE h = << >>
    BY <2>2, IntervalSeq, EmptySeq
  <2>3. ASSUME NEW s \in Session PROVE Hist(s) \in [1 .. 0 -> Nat]
    BY <2>1 DEF Hist
  <2> QED
    BY <2>2, <2>3
<1> QED
  BY <1>1, <1>2 DEF Init, History!Init

(* The store's value, before and after a step. *)
LEMMA StoreValue ==
  ASSUME IInv, IInv'
  PROVE  /\ [s \in Session |-> Histories(s)] = [s \in Session |-> {Hist(s)}]
         /\ [s \in Session |-> Histories(s)]' = [s \in Session |-> {Hist(s)'}]
<1>1. \A s \in Session : Histories(s) = {Hist(s)}
  BY OneHistory DEF IInv
<1>2. (\A s \in Session : Histories(s) = {Hist(s)})'
  <2>1. HistoryOK' => (\A s \in Session : Histories(s) = {Hist(s)})'
    BY OneHistory, PTL
  <2> QED
    BY <2>1 DEF IInv
<1> QED
  BY <1>1, <1>2

(* A step that leaves the histories alone is a stutter of the store. *)
LEMMA KeptStore ==
  ASSUME IInv, IInv', HistoryUnchanged
  PROVE  UNCHANGED [s \in Session |-> Histories(s)]
<1>1. \A s \in Session : Hist(s)' = Hist(s)
  BY DEF HistoryUnchanged, Hist
<1> QED
  BY <1>1, StoreValue

(* A session's history is a sequence of its length. *)
LEMMA HistSeq ==
  TypeOK => \A s \in Session :
    /\ Hist(s) \in Seq(Nat) /\ Len(Hist(s)) = session[s].length
    /\ session[s].length \in Nat
    /\ \A k \in 1 .. session[s].length : Hist(s)[k] = rows[s][1].host[k]
<1> SUFFICES ASSUME TypeOK, NEW s \in Session
             PROVE  /\ Hist(s) \in Seq(Nat) /\ Len(Hist(s)) = session[s].length
                    /\ session[s].length \in Nat
                    /\ \A k \in 1 .. session[s].length : Hist(s)[k] = rows[s][1].host[k]
  OBVIOUS
<1>1. session[s].length \in 0 .. Capacity /\ 1 \in Layer
  BY SizeAssumption DEF TypeOK, SessionState, Layer
<1>2. session[s].length \in Nat
  BY <1>1, SizeAssumption
<1>3. \A k \in 1 .. session[s].length : rows[s][1].host[k] \in Nat
  <2>1. rows[s][1].host \in [Position -> 0 .. MaxForwards]
    BY <1>1 DEF TypeOK, RowState
  <2>2. \A k \in 1 .. session[s].length : k \in Position
    BY <1>1, <1>2, SizeAssumption DEF Position
  <2> QED
    BY <2>1, <2>2, SizeAssumption
<1>4. Hist(s) \in [1 .. session[s].length -> Nat]
  BY <1>3 DEF Hist
<1> QED
  BY <1>2, <1>4, IntervalSeq DEF Hist

(* The same after a step. *)
LEMMA NextHistSeq ==
  IInv' => \A s \in Session :
    /\ Hist(s)' \in Seq(Nat) /\ Len(Hist(s)') = session'[s].length
    /\ \A k \in 1 .. session'[s].length : Hist(s)'[k] = rows'[s][1].host[k]
<1>1. TypeOK' => (\A s \in Session :
                    /\ Hist(s) \in Seq(Nat) /\ Len(Hist(s)) = session[s].length
                    /\ session[s].length \in Nat
                    /\ \A k \in 1 .. session[s].length : Hist(s)[k] = rows[s][1].host[k])'
  BY HistSeq, PTL
<1> QED
  BY <1>1 DEF IInv

(* A commit extends one history by all the records of its forward. *)
LEMMA CommitExtends ==
  ASSUME IInv, Commit
  PROVE  \E s \in Session, n \in 1 .. Capacity : History!Extend(s, n)
<1>1. Running /\ Complete /\ forward.kind # "candidate" /\ forward # None /\ ~poisoned
  BY DEF Commit, Running
<1>2. PICK s \in Session : s = forward.session
  BY <1>1, RunningFacts
<1> DEFINE L == session[s].length
<1>3. PICK N : N = Cursor(1).stepEnd
  OBVIOUS
<1>4. /\ L \in 0 .. Capacity /\ 1 \in Layer /\ forwards \in 1 .. MaxForwards
      /\ Cursor(1).stepEnd = N /\ Cursor(1).written = N /\ ~Cursor(1).transient
      /\ N \in L + 1 .. Capacity + Candidates
  <2>1. 1 \in Layer
    BY SizeAssumption DEF Layer
  <2> QED
    BY <1>1, <1>2, <1>3, <2>1, RunningFacts DEF Complete
<1>5. N <= Capacity
  BY <1>1, <1>3, <1>4 DEF IInv, KindOK
<1>6. N \in 1 .. Capacity /\ N > L /\ L \in Nat /\ N - L \in 1 .. Capacity /\ N \in Nat
  BY <1>4, <1>5, SizeAssumption
<1>7. \A k \in L + 1 .. N : rows[s][1].host[k] = forwards
  BY <1>1, <1>2, <1>4 DEF IInv, PendingOK
<1>8. /\ session'[s].length = N
      /\ \A t \in Session \ {s} : session'[t] = session[t]
      /\ UNCHANGED <<rows, forwards>>
  BY <1>2, <1>3 DEF Commit, IInv, TypeOK, SessionState
<1>9. IInv'
  BY CommitStep
<1>10. Hist(s)' = Hist(s) \o [k \in 1 .. N - L |-> forwards]
  <2> DEFINE e == [k \in 1 .. N - L |-> forwards]
  <2>1. /\ Hist(s) \in Seq(Nat) /\ Len(Hist(s)) = L
        /\ \A k \in 1 .. L : Hist(s)[k] = rows[s][1].host[k]
    BY HistSeq DEF IInv
  <2>2. /\ Hist(s)' \in Seq(Nat) /\ Len(Hist(s)') = N
        /\ \A k \in 1 .. N : Hist(s)'[k] = rows[s][1].host[k]
    BY <1>8, <1>9, NextHistSeq
  <2>3. e \in Seq(Nat) /\ Len(e) = N - L /\ \A k \in 1 .. N - L : e[k] = forwards
    <3>1. e \in [1 .. N - L -> Nat] /\ N - L \in Nat
      BY <1>4, <1>6, SizeAssumption
    <3>2. \A k \in 1 .. N - L : e[k] = forwards
      OBVIOUS
    <3> HIDE DEF e
    <3> QED
      BY <3>1, <3>2, IntervalSeq
  <2> HIDE DEF e, L
  <2>4. /\ Hist(s) \o e \in Seq(Nat) /\ Len(Hist(s) \o e) = N
        /\ \A k \in 1 .. N : (Hist(s) \o e)[k] = IF k <= L THEN Hist(s)[k] ELSE e[k - L]
    <3>1. L + (N - L) = N
      BY <1>6
    <3>2. /\ Hist(s) \o e \in Seq(Nat) /\ Len(Hist(s) \o e) = Len(Hist(s)) + Len(e)
          /\ \A k \in 1 .. Len(Hist(s)) + Len(e) :
               (Hist(s) \o e)[k] = IF k <= Len(Hist(s)) THEN Hist(s)[k] ELSE e[k - Len(Hist(s))]
      <4>1. Hist(s) \in Seq(Nat) /\ e \in Seq(Nat)
        BY <2>1, <2>3
      <4> QED
        BY <4>1, ConcatProperties, Zenon
    <3> QED
      BY <2>1, <2>3, <3>1, <3>2
  <2>5. ASSUME NEW k \in 1 .. N PROVE Hist(s)'[k] = (Hist(s) \o e)[k]
    <3>1. CASE k <= L
      <4>1. k \in 1 .. L
        BY <1>6, <3>1
      <4> QED
        BY <2>1, <2>2, <2>4, <3>1, <4>1
    <3>2. CASE ~(k <= L)
      <4>1. k - L \in 1 .. N - L /\ k \in L + 1 .. N
        BY <1>6, <3>2
      <4> QED
        BY <1>7, <2>2, <2>3, <2>4, <3>2, <4>1
    <3> QED
      BY <3>1, <3>2
  <2>6. Hist(s)' = Hist(s) \o e
    BY <2>2, <2>4, <2>5, SeqEqual
  <2> QED
    BY <2>6 DEF e
<1>11. \A t \in Session \ {s} : Hist(t)' = Hist(t)
  BY <1>8 DEF Hist
<1>12. History!Extend(s, N - L)
  <2> DEFINE all == [t \in Session |-> {Hist(t)}]
             new == [t \in Session |-> {Hist(t)'}]
  <2>1. new = [all EXCEPT ![s] = {Hist(s) \o [k \in 1 .. N - L |-> forwards]}]
    BY <1>10, <1>11
  <2>2. all[s] = {Hist(s)}
    OBVIOUS
  <2>3. [t \in Session |-> Histories(t)] = all /\ [t \in Session |-> Histories(t)]' = new
    BY <1>9, StoreValue
  <2> HIDE DEF all, new
  <2> QED
    BY <1>8, <2>1, <2>2, <2>3 DEF History!Extend
<1> QED
  BY <1>6, <1>12

(* What a truncation or a release leaves of one session's history. *)
LEMMA CutStore ==
  ASSUME IInv, IInv', UNCHANGED forwards,
         NEW s \in Session, NEW n \in 0 .. Capacity, n <= session[s].length,
         session'[s].length = n,
         \A k \in 1 .. n : rows'[s][1].host[k] = rows[s][1].host[k],
         \A t \in Session \ {s} : Hist(t)' = Hist(t)
  PROVE  History!Cut(s, n)
<1>1. /\ Hist(s) \in Seq(Nat) /\ Len(Hist(s)) = session[s].length /\ session[s].length \in Nat
      /\ \A k \in 1 .. session[s].length : Hist(s)[k] = rows[s][1].host[k]
  BY HistSeq DEF IInv
<1>2. /\ Hist(s)' \in Seq(Nat) /\ Len(Hist(s)') = n
      /\ \A k \in 1 .. n : Hist(s)'[k] = rows'[s][1].host[k]
  BY NextHistSeq
<1>3. n \in Nat /\ \A k \in 1 .. n : k \in 1 .. session[s].length
  BY <1>1, SizeAssumption
<1>4. Hist(s)' = SubSeq(Hist(s), 1, n)
  <2>1. \A k \in 1 .. n : Hist(s)[k] \in Nat
    BY <1>1, <1>3, ElementOfSeq
  <2>2. /\ SubSeq(Hist(s), 1, n) \in Seq(Nat)
        /\ Len(SubSeq(Hist(s), 1, n)) = IF 1 <= n THEN n - 1 + 1 ELSE 0
        /\ \A k \in 1 .. n - 1 + 1 : SubSeq(Hist(s), 1, n)[k] = Hist(s)[1 + k - 1]
    BY <1>3, <2>1, SubSeqProperties
  <2>3. Len(SubSeq(Hist(s), 1, n)) = n
    BY <1>3, <2>2
  <2>4. \A k \in 1 .. n : SubSeq(Hist(s), 1, n)[k] = Hist(s)[k]
    BY <1>3, <2>2
  <2>5. \A k \in 1 .. n : SubSeq(Hist(s), 1, n)[k] = Hist(s)'[k]
    BY <1>1, <1>2, <1>3, <2>4
  <2> QED
    BY <1>2, <2>2, <2>3, <2>5, SeqEqual
<1> DEFINE all == [t \in Session |-> {Hist(t)}]
           new == [t \in Session |-> {Hist(t)'}]
<1>5. new = [all EXCEPT ![s] = {SubSeq(Hist(s), 1, n)}]
  BY <1>4
<1>6. all[s] = {Hist(s)}
  OBVIOUS
<1>7. [t \in Session |-> Histories(t)] = all /\ [t \in Session |-> Histories(t)]' = new
  BY StoreValue
<1> HIDE DEF all, new
<1> QED
  BY <1>1, <1>5, <1>6, <1>7 DEF History!Cut

(* A truncation cuts one history. *)
LEMMA TruncateCuts ==
  ASSUME IInv, NEW s \in Session, NEW n \in 0 .. Capacity, Truncate(s, n)
  PROVE  History!Cut(s, n)
<1>1. /\ n <= session[s].length
      /\ session'[s].length = n /\ \A t \in Session \ {s} : session'[t] = session[t]
      /\ UNCHANGED forwards
  BY DEF Truncate, IInv, TypeOK, SessionState
<1>2. \A t \in Session : rows'[t][1].host = rows[t][1].host
  <2>1. 1 \in Layer /\ rows \in [Session -> [Layer -> RowState]]
    BY SizeAssumption DEF Layer, IInv, TypeOK
  <2> DEFINE hints == IF n = session[s].prefix THEN session[s].prefixHint
                      ELSE [l \in Layer |-> 0]
  <2>2. rows' = rows \/ rows' = WithHints(rows, s, hints)
    BY DEF Truncate, Rehinted, WithHints
  <2>3. hints \in [Layer -> 0 .. MaxForwards]
    BY SizeAssumption DEF IInv, TypeOK, SessionState
  <2> HIDE DEF hints
  <2> QED
    BY <2>1, <2>2, <2>3, RehintedRows
<1>3. \A t \in Session \ {s} : Hist(t)' = Hist(t)
  BY <1>1, <1>2 DEF Hist
<1>4. IInv'
  BY TruncateStep
<1> QED
  BY <1>1, <1>2, <1>3, <1>4, CutStore

(* A release cuts it to nothing. *)
LEMMA ReleaseCuts ==
  ASSUME IInv, NEW s \in Session, Release(s)
  PROVE  History!Cut(s, 0)
<1>1. /\ session'[s].length = 0 /\ \A t \in Session \ {s} : session'[t] = session[t]
      /\ \A t \in Session \ {s} : rows'[t] = rows[t]
      /\ UNCHANGED forwards
  BY DEF Release, IInv, TypeOK, NewSession
<1>2. 0 \in 0 .. Capacity /\ 0 <= session[s].length /\ 1 .. 0 = {}
  BY SizeAssumption DEF IInv, TypeOK, SessionState
<1>3. \A t \in Session \ {s} : Hist(t)' = Hist(t)
  BY <1>1 DEF Hist
<1>4. IInv'
  BY ReleaseStep
<1> QED
  BY <1>1, <1>2, <1>3, <1>4, CutStore

(* Every step of the backend is a step of the store or leaves it alone. *)
LEMMA StepRefines ==
  IInv /\ [Next]_vars =>
    [History!Next]_<<[s \in Session |-> Histories(s)], forwards>>
<1> DEFINE Stutters == UNCHANGED <<[s \in Session |-> Histories(s)], forwards>>
<1> SUFFICES ASSUME IInv, [Next]_vars PROVE History!Next \/ Stutters
  OBVIOUS
<1>0. IInv'
  BY NextIInv
<1>1. ASSUME HistoryUnchanged, UNCHANGED forwards PROVE Stutters
  BY <1>0, <1>1, KeptStore
<1>2. CASE UNCHANGED vars
  BY <1>1, <1>2 DEF vars, HistoryUnchanged
<1>3. ASSUME NEW s \in Session, Create(s) PROVE Stutters
  <2>1. \A t \in Session : session'[t].length = session[t].length
    BY <1>3 DEF Create, IInv, TypeOK, SessionState
  <2> QED
    BY <1>1, <1>3, <2>1 DEF Create, HistoryUnchanged
<1>4. ASSUME NEW s \in Session, NEW kind \in {"prefill", "extend", "candidate"},
             NEW n \in Position, Begin(s, kind, n)
      PROVE  History!Next
  <2>1. \A t \in Session : session'[t].length = session[t].length
    BY <1>4 DEF Begin, IInv, TypeOK, SessionState
  <2>2. HistoryUnchanged /\ forwards' = forwards + 1
    BY <1>4, <2>1 DEF Begin, HistoryUnchanged
  <2>3. UNCHANGED [t \in Session |-> Histories(t)]
    BY <1>0, <2>2, KeptStore
  <2> QED
    BY <2>2, <2>3 DEF History!Next, History!Begin
<1>5. ASSUME NEW l \in Layer, CopyLands(l) \/ Submit(l) \/ Wait(l) PROVE Stutters
  BY <1>1, <1>5 DEF CopyLands, Submit, Wait, HistoryUnchanged
<1>6. ASSUME NEW l \in Layer, NEW hinted \in BOOLEAN, Block(l, hinted) PROVE Stutters
  BY <1>1, <1>6, BlockStep DEF Block
<1>7. CASE NextChunk
  BY <1>1, <1>7 DEF NextChunk, HistoryUnchanged
<1>8. CASE Commit
  BY <1>8, CommitExtends DEF History!Next
<1>9. CASE Discard
  BY <1>1, <1>9, DiscardStep DEF Discard
<1>10. ASSUME NEW part \in BOOLEAN, Fail(part) PROVE Stutters
  BY <1>1, <1>10, FailStep DEF Fail
<1>11. ASSUME NEW l \in Layer, NEW queued \in BOOLEAN, SubmitFails(l, queued) PROVE Stutters
  BY <1>1, <1>11, SubmitFailsStep DEF SubmitFails
<1>12. ASSUME NEW k \in 0 .. Layers - 1, Break(k) PROVE Stutters
  BY <1>1, <1>12 DEF Break, HistoryUnchanged
<1>13. ASSUME NEW s \in Session, NEW n \in 0 .. Capacity, Truncate(s, n) PROVE History!Next
  BY <1>13, TruncateCuts DEF History!Next
<1>14. ASSUME NEW s \in Session, NEW k \in 0 .. Layers - 1, BreakIdle(s, k) PROVE Stutters
  BY <1>1, <1>14 DEF BreakIdle, HistoryUnchanged
<1>15. ASSUME NEW s \in Session, Release(s) PROVE History!Next
  <2>1. 0 \in 0 .. Capacity
    BY SizeAssumption
  <2> QED
    BY <1>15, <2>1, ReleaseCuts DEF History!Next
<1> HIDE DEF Stutters
<1> QED
  BY <1>2, <1>3, <1>4, <1>5, <1>6, <1>7, <1>8, <1>9, <1>10, <1>11, <1>12, <1>13, <1>14, <1>15
  DEF Next

(* The backend, with its chunks, copies, failures and torn rows, gives     *)
(* each session one history that all layers and both stores hold, and that *)
(* only a whole forward extends and only a truncation or a release cuts.   *)
THEOREM ForwardImplementsHistoryStore == Spec => ImplementsHistoryStore
  BY InitRefines, StepRefines, Invariant, PTL
  DEF Spec, ImplementsHistoryStore, History!Spec
=============================================================================
