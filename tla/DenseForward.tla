----------------------------- MODULE DenseForward -----------------------------
(***************************************************************************)
(* The forward of the DeepSeek serving backend (_forward_leased, truncate  *)
(* and release_session of models/deepseek_v32/execution/adapter.py) over   *)
(* the token caches of all layers, with the whole-history copies of        *)
(* PoolHistoryPrefetch (models/deepseek_v32/cache/prefetch.py) into a      *)
(* dense pool, where slot k only ever holds the record of position k.      *)
(*                                                                         *)
(* A copy runs on the helper's stream while the previous layer executes;   *)
(* every other action is the backend's.  A session's rows on the host and  *)
(* in the indexer are its own (the host pages: SparseTokenPool).  A record *)
(* is the number of the forward that wrote it.                             *)
(*                                                                         *)
(* Scheme "dense_prefetch" keeps `slots` this way.  Scheme "echo" takes    *)
(* the same steps without the copies, and changes prefetch hints instead;  *)
(* its slots are SparseTokenPool's and stay empty here.                    *)
(***************************************************************************)
EXTENDS Naturals, Sequences

CONSTANTS
  Session,      (* session objects, each created and released once         *)
  Layers,       (* num_layers                                              *)
  Capacity,     (* a session's capacity                                    *)
  Slots,        (* P, the pool's slots in one layer                        *)
  ChunkSize,    (* records in one prefill chunk                            *)
  Candidates,   (* candidate_slots                                         *)
  MaxForwards,  (* bounds the forwards begun                               *)
  None

ASSUME SizeAssumption ==
  /\ Layers \in Nat \ {0} /\ Capacity \in Nat \ {0} /\ Slots \in Nat \ {0}
  /\ ChunkSize \in Nat \ {0} /\ Candidates \in Nat /\ MaxForwards \in Nat
  /\ None \notin Session \cup Nat

VARIABLES
  scheme,
  session,   (* DeepSeekServingSession                                     *)
  cache,     (* per session and layer: the cursors of its token cache      *)
  rows,      (* per session and layer: host records, index keys, hint      *)
  layer,     (* per layer: the pool's slots and what it believes of them   *)
  forward,   (* the forward that runs                                      *)
  forwards,  (* how many have begun                                        *)
  failed,    (* PoolHistoryPrefetch.failed                                 *)
  poisoned   (* lifecycle.poisoned                                         *)

vars == <<scheme, session, cache, rows, layer, forward, forwards, failed, poisoned>>

Layer == 1 .. Layers
Position == 1 .. Capacity
Slot == 1 .. Slots
Blank == 0      (* torch.empty: a record no forward has written *)

NewSession ==
  [status |-> "new", length |-> 0, prefix |-> 0,
   prefixHint |-> [l \in Layer |-> 0],   (* prefix_offsets                 *)
   lastTransient |-> FALSE,              (* last_candidate_transient       *)
   atPrefix |-> FALSE,                   (* truncated to its prefix since  *)
                                         (* the last forward               *)
   strayHints |-> FALSE]                 (* the hints are not the prefix's *)
                                         (* since a candidate failed or    *)
                                         (* the prefix itself was cut      *)

IdleCache(n) == [length |-> n, written |-> n, stepEnd |-> None, transient |-> FALSE]

NewRows ==
  [host |-> [i \in Position |-> Blank], keys |-> [i \in Position |-> Blank], hint |-> 0]

Init ==
  /\ scheme \in {"dense_prefetch", "echo"}
  /\ session = [s \in Session |-> NewSession]
  /\ cache = [s \in Session |-> [l \in Layer |-> IdleCache(0)]]
  /\ rows = [s \in Session |-> [l \in Layer |-> NewRows]]
  /\ layer = [l \in Layer |->
       [slots |-> [k \in Slot |-> None], lease |-> None,
        denseOwner |-> None, denseEnd |-> 0, ticket |-> None]]
  /\ forward = None
  /\ forwards = 0
  /\ failed = FALSE
  /\ poisoned = FALSE

Live(s) == session[s].status = "live"
Dense == scheme = "dense_prefetch"
Hints(s) == [l \in Layer |-> rows[s][l].hint]

-----------------------------------------------------------------------------
(* The pool, one layer of it: functions of the layer's state.              *)

(* invalidate_residency; the next map_generation makes a ticket stale. *)
Invalidated(y) ==
  [y EXCEPT !.denseOwner = None, !.denseEnd = 0,
            !.ticket = IF @ = None THEN None ELSE [@ EXCEPT !.current = FALSE]]

(* operation: another session's lease of the layer ends the proof. *)
Leased(y, s) ==
  IF y.lease = s THEN y ELSE [Invalidated(y) EXCEPT !.lease = s]

(* dense_history_resident *)
Resident(y, s, n) == n = 0 \/ (y.denseOwner = s /\ y.denseEnd >= n)

(* certify_dense_history *)
Certified(y, s, n) == [y EXCEPT !.denseOwner = s, !.denseEnd = n]

(* release_ids of the session's positions after n *)
Unmapped(y, s, n) ==
  [Invalidated(y) EXCEPT !.slots =
     [k \in Slot |-> IF @[k] # None /\ @[k].owner = s /\ k > n THEN None ELSE @[k]]]

(* append_slots, the records and certify_append *)
AppendedTo(y, s, start, stop) ==
  LET fresh == IF start = 0 THEN Invalidated(y) ELSE y
  IN Certified([fresh EXCEPT !.slots =
                  [k \in Slot |-> IF k > start /\ k <= stop
                                  THEN [owner |-> s, record |-> forwards] ELSE @[k]]],
               s, stop)

(* The copy stream copies the rows of a history and publishes their maps. *)
Copied(y, l) ==
  [y EXCEPT !.ticket.copying = FALSE,
     !.slots = [k \in Slot |-> IF k <= y.ticket.requested
                               THEN [owner |-> forward.session,
                                     record |-> rows[forward.session][l].host[k]]
                               ELSE @[k]]]

Copying(y) == y.ticket # None /\ y.ticket.copying

(* PoolHistoryPrefetch.drain: every copy has ended, no ticket is left. *)
Drained ==
  [l \in Layer |-> [IF Copying(layer[l]) THEN Copied(layer[l], l) ELSE layer[l]
                    EXCEPT !.ticket = None]]

CopyLands(l) ==
  /\ Copying(layer[l])
  /\ layer' = [layer EXCEPT ![l] = Copied(@, l)]
  /\ UNCHANGED <<scheme, session, cache, rows, forward, forwards, failed, poisoned>>

-----------------------------------------------------------------------------
(* One forward. *)

Create(s) ==
  /\ ~poisoned /\ forward = None /\ session[s].status = "new"
  /\ session' = [session EXCEPT ![s].status = "live"]
  /\ UNCHANGED <<scheme, cache, rows, layer, forward, forwards, failed, poisoned>>

(* What prefill, extend and extend_candidate ask before _forward.  The     *)
(* runtime extends only sessions that were prefilled.                      *)
Accepts(s, kind, n) ==
  CASE kind = "prefill" -> session[s].length = 0 /\ n <= Capacity
    [] kind = "extend" -> session[s].prefix > 0 /\ session[s].length + n <= Capacity
    [] kind = "candidate" ->
         session[s].length = session[s].prefix /\ session[s].length > 0 /\ n <= Candidates

(* begin_step, or begin_transient under each layer's lease, of all layers. *)
Begin(s, kind, n) ==
  /\ ~poisoned /\ forward = None /\ Live(s)
  /\ forwards < MaxForwards /\ Accepts(s, kind, n)
  /\ session' = [session EXCEPT ![s].lastTransient = FALSE, ![s].atPrefix = FALSE]
  /\ cache' = [cache EXCEPT ![s] = [l \in Layer |->
       [length |-> @[l].length, written |-> @[l].length,
        stepEnd |-> @[l].length + n, transient |-> kind = "candidate"]]]
  /\ layer' = IF kind = "candidate" THEN [l \in Layer |-> Leased(layer[l], s)] ELSE layer
  /\ forward' = [session |-> s, kind |-> kind, layer |-> 1, saved |-> Hints(s),
                 chunk |-> IF kind = "prefill" THEN ChunkSize ELSE n]
  /\ forwards' = forwards + 1
  /\ UNCHANGED <<scheme, rows, failed, poisoned>>

Running == forward # None /\ ~poisoned
Cursor(l) == cache[forward.session][l]
ChunkEnd(l) ==
  IF Cursor(l).written + forward.chunk < Cursor(l).stepEnd
  THEN Cursor(l).written + forward.chunk ELSE Cursor(l).stepEnd

Joined(l) == layer[l].ticket # None /\ layer[l].ticket.waited

(* The layer whose history the forward has to ask for now: the first when  *)
(* a chunk starts, else the next one once the layer to execute is joined.  *)
Wanted(l) ==
  /\ Dense /\ layer[l].ticket = None
  /\ \/ l = 1 /\ forward.layer = 1
     \/ l = forward.layer + 1 /\ Joined(forward.layer)

Ticket(n, copying) == [requested |-> n, copying |-> copying, current |-> TRUE, waited |-> FALSE]

(* _submit: nothing to copy, or the slots are cleared for the copy. *)
Requested(l) ==
  LET s == forward.session
      n == Cursor(l).written
      y == Leased(layer[l], s)
  IN IF Resident(y, s, n)
     THEN [y EXCEPT !.ticket = Ticket(n, FALSE)]
     ELSE [Invalidated(y) EXCEPT
             !.slots = [k \in Slot |-> IF k <= n THEN None ELSE @[k]],
             !.ticket = Ticket(n, TRUE)]

Submit(l) ==
  /\ Running /\ Wanted(l)
  /\ ~failed /\ Cursor(l).written <= Slots
  /\ layer' = [layer EXCEPT ![l] = Requested(l)]
  /\ UNCHANGED <<scheme, session, cache, rows, forward, forwards, failed, poisoned>>

(* Mutant of Wait: the caller's stream does not wait for the copy. *)
WaitUnordered(l) ==
  /\ Running /\ Dense /\ l = forward.layer
  /\ layer[l].ticket # None /\ ~layer[l].ticket.waited
  /\ layer[l].ticket.current /\ ~failed
  /\ layer' = [layer EXCEPT
       ![l] = [Certified(@, forward.session, @.ticket.requested) EXCEPT !.ticket.waited = TRUE]]
  /\ UNCHANGED <<scheme, session, cache, rows, forward, forwards, failed, poisoned>>

(* wait: consumers come after the copy; the layout is certified. *)
Wait(l) ==
  /\ Running /\ Dense /\ l = forward.layer
  /\ layer[l].ticket # None /\ ~layer[l].ticket.waited
  /\ layer[l].ticket.current /\ ~failed
  /\ ~layer[l].ticket.copying
  /\ layer' = [layer EXCEPT
       ![l] = [Certified(@, forward.session, @.ticket.requested) EXCEPT !.ticket.waited = TRUE]]
  /\ UNCHANGED <<scheme, session, cache, rows, forward, forwards, failed, poisoned>>

(* The layer's block runs once its history is joined and the next layer's  *)
(* is on its way.                                                          *)
Ready(l) ==
  /\ Running /\ l = forward.layer
  /\ Dense => /\ Joined(l)
              /\ l < Layers => layer[l + 1].ticket # None

Stored(buffer, first, last) ==
  [i \in Position |-> IF i > first /\ i <= last THEN forwards ELSE buffer[i]]

(* Mutant of Written: each chunk goes after the committed length. *)
WrittenAtLength(l) ==
  LET c == Cursor(l)
      stop == c.length + ChunkEnd(l) - c.written
  IN [rows[forward.session][l] EXCEPT
        !.host = Stored(@, c.length, stop), !.keys = Stored(@, c.length, stop)]

(* The index keys and, by append, the host rows of a chunk. *)
Written(l) ==
  [rows[forward.session][l] EXCEPT
     !.host = Stored(@, Cursor(l).written, ChunkEnd(l)),
     !.keys = Stored(@, Cursor(l).written, ChunkEnd(l))]

(* A candidate reads the history, borrows the merged indexer view and puts *)
(* its records in the candidate rows: the session's rows stay.  With echo  *)
(* the hint may follow the scores of the chunk.                            *)
Block(l, hinted) ==
  /\ Ready(l) /\ (hinted => ~Dense)
  /\ LET s == forward.session
         kept == IF Cursor(l).transient THEN rows[s][l] ELSE Written(l)
         y == Leased(layer[l], s)
     IN /\ (Dense /\ ~Cursor(l).transient) =>
             (ChunkEnd(l) <= Slots /\ Resident(y, s, Cursor(l).written))
        /\ layer' = [layer EXCEPT ![l] =
             IF Dense /\ ~Cursor(l).transient
             THEN AppendedTo(y, s, Cursor(l).written, ChunkEnd(l)) ELSE y]
        /\ rows' = [rows EXCEPT ![s][l] =
             IF hinted THEN [kept EXCEPT !.hint = forwards] ELSE kept]
        /\ cache' = [cache EXCEPT ![s][l].written = ChunkEnd(l)]
  /\ forward' = [forward EXCEPT !.layer = @ + 1]
  /\ UNCHANGED <<scheme, session, forwards, failed, poisoned>>

(* The chunk is through all layers: drain, and the next one starts. *)
NextChunk ==
  /\ Running /\ forward.layer > Layers
  /\ Cursor(1).written < Cursor(1).stepEnd
  /\ layer' = Drained
  /\ forward' = [forward EXCEPT !.layer = 1]
  /\ UNCHANGED <<scheme, session, cache, rows, forwards, failed, poisoned>>

Complete == forward.layer > Layers /\ \A l \in Layer : Cursor(l).written = Cursor(l).stepEnd

(* Every layer commits, then the session; prefill keeps its hints. *)
Commit ==
  /\ Running /\ Complete /\ forward.kind # "candidate"
  /\ LET s == forward.session
         length == Cursor(1).stepEnd
         grown == [session[s] EXCEPT !.length = length]
     IN /\ session' = [session EXCEPT ![s] =
             IF forward.kind = "prefill"
             THEN [grown EXCEPT !.prefix = length, !.prefixHint = Hints(s), !.strayHints = FALSE]
             ELSE grown]
        /\ cache' = [cache EXCEPT ![s] = [l \in Layer |-> IdleCache(@[l].written)]]
  /\ layer' = Drained
  /\ forward' = None
  /\ UNCHANGED <<scheme, rows, forwards, failed, poisoned>>

Rehinted(s, hints) == [rows EXCEPT ![s] = [l \in Layer |-> [@[l] EXCEPT !.hint = hints[l]]]]

(* Every layer drops the candidates and the hints are put back. *)
Discard ==
  /\ Running /\ Complete /\ forward.kind = "candidate"
  /\ session' = [session EXCEPT ![forward.session].lastTransient = TRUE]
  /\ cache' = [cache EXCEPT ![forward.session] = [l \in Layer |-> IdleCache(@[l].length)]]
  /\ rows' = Rehinted(forward.session, forward.saved)
  /\ layer' = Drained
  /\ forward' = None
  /\ UNCHANGED <<scheme, forwards, failed, poisoned>>

-----------------------------------------------------------------------------
(* A forward that fails. *)

(* rollback of every started layer after the drain: candidates are         *)
(* discarded, other suffixes are unmapped under the layer's lease.         *)
RolledBack(layers, s) ==
  [l \in Layer |-> IF cache[s][l].transient THEN Leased(layers[l], s)
                   ELSE Unmapped(Leased(layers[l], s), s, cache[s][l].length)]

(* The rows when the body fails: of the layer that was executing, the      *)
(* index keys may be written and the host rows not.                        *)
Torn(s, part) ==
  IF part /\ forward.layer <= Layers /\ ~Cursor(forward.layer).transient
  THEN [rows EXCEPT ![s][forward.layer].keys = Written(forward.layer).keys] ELSE rows

(* The clean-up of _forward_leased.  A candidate's hints are not put back. *)
Unwound(s, layers, part) ==
  /\ layer' = RolledBack(layers, s)
  /\ cache' = [cache EXCEPT ![s] = [l \in Layer |-> IdleCache(@[l].length)]]
  /\ rows' = IF forward.kind = "candidate" THEN Torn(s, part)
             ELSE [Torn(s, part) EXCEPT ![s] =
                     [l \in Layer |-> [@[l] EXCEPT !.hint = forward.saved[l]]]]
  /\ session' = [session EXCEPT ![s].strayHints = @ \/ (forward.kind = "candidate")]
  /\ forward' = None

(* Anything in the body raises. *)
Fail(part) ==
  /\ Running
  /\ Unwound(forward.session, Drained, part)
  /\ UNCHANGED <<scheme, forwards, failed, poisoned>>

(* Something in _submit raises after the slots were cleared, before or     *)
(* after the copy was queued: the helper has failed for good.              *)
SubmitFails(l, queued) ==
  /\ Running /\ Wanted(l) /\ ~failed /\ Cursor(l).written <= Slots
  /\ LET y == [layer EXCEPT ![l] = Requested(l)]
         left == IF Copying(y[l]) /\ queued THEN [y EXCEPT ![l] = Copied(@, l)] ELSE y
     IN Unwound(forward.session,
                [k \in Layer |-> [IF k # l /\ Copying(left[k]) THEN Copied(left[k], k)
                                  ELSE left[k] EXCEPT !.ticket = None]], FALSE)
  /\ failed' = TRUE
  /\ UNCHANGED <<scheme, forwards, poisoned>>

(* The drain or a rollback raises, or a commit does once k layers have     *)
(* committed: nothing runs any more and no state is trusted.               *)
Break(k) ==
  /\ Running
  /\ k > 0 => Complete /\ forward.kind # "candidate"
  /\ cache' = [cache EXCEPT ![forward.session] =
       [l \in Layer |-> IF l <= k THEN IdleCache(@[l].written) ELSE @[l]]]
  /\ poisoned' = TRUE
  /\ UNCHANGED <<scheme, session, rows, layer, forward, forwards, failed>>

-----------------------------------------------------------------------------
(* Between forwards. *)

(* Mutant of NothingToCut: without last_candidate_transient. *)
NothingToCutByLength(s, n) ==
  /\ n = session[s].length /\ n = session[s].prefix
  /\ \A l \in Layer : cache[s][l] = IdleCache(n)

(* A completed candidate has left nothing to truncate. *)
NothingToCut(s, n) ==
  /\ session[s].lastTransient
  /\ n = session[s].length /\ n = session[s].prefix
  /\ \A l \in Layer : cache[s][l] = IdleCache(n)

(* truncate: all layers, then the hints of the prefix or none. *)
Truncate(s, n) ==
  /\ ~poisoned /\ forward = None /\ Live(s) /\ session[s].prefix > 0
  /\ n <= session[s].length
  /\ IF NothingToCut(s, n) THEN UNCHANGED <<cache, rows, layer>> ELSE
       /\ cache' = [cache EXCEPT ![s] = [l \in Layer |-> IdleCache(n)]]
       /\ layer' = [l \in Layer |-> Unmapped(Leased(layer[l], s), s, n)]
       /\ rows' = Rehinted(s, IF n = session[s].prefix THEN session[s].prefixHint
                              ELSE [l \in Layer |-> 0])
  /\ session' = [session EXCEPT
       ![s].length = n, ![s].atPrefix = (n = session[s].prefix),
       ![s].strayHints = IF session[s].lastTransient /\ n = session[s].length THEN @
                           ELSE n < session[s].prefix]
  /\ UNCHANGED <<scheme, forward, forwards, failed, poisoned>>

(* A layer's truncation, or the pool's release, raises. *)
BreakIdle(s, k) ==
  /\ ~poisoned /\ forward = None /\ Live(s) /\ session[s].length > 0
  /\ cache' = [cache EXCEPT ![s] = [l \in Layer |-> IF l <= k THEN IdleCache(0) ELSE @[l]]]
  /\ poisoned' = TRUE
  /\ UNCHANGED <<scheme, session, rows, layer, forward, forwards, failed>>

(* release_session *)
Release(s) ==
  /\ ~poisoned /\ forward = None /\ Live(s)
  /\ session' = [session EXCEPT ![s] = [NewSession EXCEPT !.status = "released"]]
  /\ cache' = [cache EXCEPT ![s] = [l \in Layer |-> IdleCache(0)]]
  /\ rows' = [rows EXCEPT ![s] = [l \in Layer |-> NewRows]]
  /\ layer' = [l \in Layer |-> Unmapped(layer[l], s, 0)]
  /\ UNCHANGED <<scheme, forward, forwards, failed, poisoned>>

Next ==
  \/ \E s \in Session : Create(s) \/ Release(s)
  \/ \E s \in Session, kind \in {"prefill", "extend", "candidate"}, n \in Position :
       Begin(s, kind, n)
  \/ \E l \in Layer : CopyLands(l) \/ Submit(l) \/ Wait(l)
  \/ \E l \in Layer, hinted \in BOOLEAN : Block(l, hinted)
  \/ NextChunk
  \/ Commit
  \/ Discard
  \/ \E part \in BOOLEAN : Fail(part)
  \/ \E l \in Layer, queued \in BOOLEAN : SubmitFails(l, queued)
  \/ \E k \in 0 .. Layers - 1 : Break(k)
  \/ \E s \in Session, n \in 0 .. Capacity : Truncate(s, n)
  \/ \E s \in Session, k \in 0 .. Layers - 1 : BreakIdle(s, k)

Spec == Init /\ [][Next]_vars

-----------------------------------------------------------------------------
(* Properties. *)

SessionState ==
  [status : {"new", "live", "released"}, length : 0 .. Capacity, prefix : 0 .. Capacity,
   prefixHint : [Layer -> 0 .. MaxForwards], lastTransient : BOOLEAN, atPrefix : BOOLEAN,
   strayHints : BOOLEAN]

CacheState ==
  [length : 0 .. Capacity, written : 0 .. Capacity + Candidates,
   stepEnd : (1 .. Capacity + Candidates) \cup {None}, transient : BOOLEAN]

RowState ==
  [host : [Position -> 0 .. MaxForwards], keys : [Position -> 0 .. MaxForwards],
   hint : 0 .. MaxForwards]

SlotRecord == [owner : Session, record : 1 .. MaxForwards]

TicketState == [requested : 0 .. Slots, copying : BOOLEAN, current : BOOLEAN, waited : BOOLEAN]

LayerState ==
  [slots : [Slot -> SlotRecord \cup {None}],
   lease : Session \cup {None}, denseOwner : Session \cup {None}, denseEnd : 0 .. Slots,
   ticket : TicketState \cup {None}]

ForwardState ==
  [session : Session, kind : {"prefill", "extend", "candidate"}, layer : 1 .. Layers + 1,
   saved : [Layer -> 0 .. MaxForwards], chunk : Nat \ {0}]

ASSUME NoneAssumption == None \notin SlotRecord \cup TicketState \cup ForwardState

TypeOK ==
  /\ scheme \in {"dense_prefetch", "echo"}
  /\ session \in [Session -> SessionState]
  /\ cache \in [Session -> [Layer -> CacheState]]
  /\ \A s \in Session, l \in Layer : cache[s][l].length <= cache[s][l].written
  /\ rows \in [Session -> [Layer -> RowState]]
  /\ layer \in [Layer -> LayerState]
  /\ forward \in ForwardState \cup {None}
  /\ forwards \in 0 .. MaxForwards /\ failed \in BOOLEAN /\ poisoned \in BOOLEAN

(* The variables keep their types.  What the pool believes of a layer is   *)
(* true: while it certifies a session's first records as resident, every   *)
(* one of those slots holds that record of the session as the host has it  *)
(* now, whatever copies, other sessions, failures and truncations came     *)
(* between.  The forward appends to and reads from the slots on the        *)
(* strength of this, without looking at the maps; and no ticket it has     *)
(* still to wait for has gone stale (certify_dense_history, _submit).      *)
DenseProofSound ==
  /\ TypeOK
  /\ \A l \in Layer :
       /\ layer[l].denseOwner # None =>
            \A k \in 1 .. layer[l].denseEnd :
              layer[l].slots[k] =
                [owner |-> layer[l].denseOwner,
                 record |-> rows[layer[l].denseOwner][l].host[k]]
       /\ layer[l].ticket # None /\ ~layer[l].ticket.waited => layer[l].ticket.current

(* While no forward runs, all layers of a session stand at its length with *)
(* no step pending, so the next forward starts from one position; and a    *)
(* session truncated to its retained prefix has the prefix's length and    *)
(* hints, whether the truncation did the work or found nothing to do       *)
(* (_forward_leased and _truncate_leased).  Two exceptions, strayHints,    *)
(* last until a truncation to the prefix does its work or a new prefill:   *)
(* the hints of a candidate that failed stay, and the next candidate saves *)
(* and restores them as if they were the prefix's; and a prefix is known   *)
(* by its length alone once it was cut and extended again.                 *)
UsableSessionsAgree ==
  ~poisoned /\ forward = None =>
    \A s \in Session :
      /\ \A l \in Layer : cache[s][l] = IdleCache(session[s].length)
      /\ session[s].atPrefix =>
           /\ session[s].length = session[s].prefix
           /\ session[s].strayHints \/ Hints(s) = session[s].prefixHint

(* The histories that the host rows and the index keys of a session's      *)
(* layers hold, up to its length.                                          *)
Histories(s) ==
  {[k \in 1 .. session[s].length |-> buffer[k]] :
     buffer \in UNION {{rows[s][l].host, rows[s][l].keys} : l \in Layer}}

History == INSTANCE HistoryStore WITH store <- [s \in Session |-> Histories(s)]

(* Every layer's host rows and index keys are one history, that a forward  *)
(* extends by all of its records or not at all, and a truncation cuts,     *)
(* even when layers commit one by one and a commit or a rollback breaks    *)
(* off (HistoryStore says it as a specification).                          *)
ImplementsHistoryStore == History!Spec
=============================================================================
