------------------------------ MODULE NosaCache ------------------------------
(***************************************************************************)
(* One request's NOSA cache with its full indexer, as the forward of       *)
(* models/nosa/model.py drives it: the main records of every layer, and in *)
(* an IndexerCache (cache/indexer_cache.py) the records derived from them, *)
(* move together through one step.                                         *)
(*                                                                         *)
(* Backend "offload" is NosaOffloadCache (models/nosa/cache/offload.py) on *)
(* HostBackingCache (cache/host_backing.py): the main records are in       *)
(* pinned host memory and write_layer sends them there on a write stream   *)
(* of its own.  CopyLands is that stream, every other action is a call.    *)
(* A device synchronization ends all copies or fails with any of them      *)
(* still running.  Backend "resident" is NosaKVCache (cache/resident.py)   *)
(* on ResidentCache (cache/manager.py): the records are on the device and  *)
(* written in the order of the calls.                                      *)
(*                                                                         *)
(* A record is the number of the step that wrote it, a derived record the  *)
(* sequence of the records it was computed from.                           *)
(***************************************************************************)
EXTENDS Naturals, Sequences, FiniteSetsExt

CONSTANTS
  Layers,      (* num_layers                                               *)
  Capacity,    (* max_seq_len                                              *)
  Stride,      (* tokens from one compression window to the next: 16; a    *)
               (* window is two strides                                    *)
  Pool,        (* strides from one pooled block to the next: 4             *)
  MaxSteps,    (* bounds the steps begun                                   *)
  None

ASSUME SizeAssumption ==
  /\ Layers \in Nat \ {0} /\ Capacity \in Nat \ {0} /\ Stride \in Nat \ {0} /\ Pool \in Nat \ {0}
  /\ MaxSteps \in Nat
  /\ None \notin Nat /\ None \notin [compressed : Nat, pooled : Nat, validated : Nat]

VARIABLES
  backend,   (* "offload" or "resident", never changed                     *)
  main,      (* the main cache: length and _pending_end                    *)
  indexer,   (* the IndexerCache: _length and _pending_end                 *)
  layer,     (* per layer: records, derived records, what they are worth   *)
  copies,    (* the write stream's queue                                   *)
  driver,    (* where the forward that uses the cache is                   *)
  step,      (* the pending step: its number, _deferred_validation, flags  *)
  history    (* what the caller has seen committed                         *)

vars == <<backend, main, indexer, layer, copies, driver, step, history>>

Offload == backend = "offload"
Layer == 1 .. Layers
Position == 0 .. Capacity - 1
Blank == 0    (* torch.empty: a record no step has written *)

(* IndexerLayerState *)
NothingDerived == [compressed |-> 0, pooled |-> 0, validated |-> 0]

FreshLayer ==
  [records |-> [i \in Position |-> Blank],   (* keys and values *)
   cis |-> [i \in Position |-> Blank],
   written |-> FALSE,              (* in _written_layers, its suffix kept  *)
   finite |-> TRUE,                (* are the values of the append finite  *)
   keys |-> <<>>,                  (* the compressed_keys buffer           *)
   compressedCis |-> <<>>, pooledCis |-> <<>>,
   committed |-> NothingDerived, pending |-> None]

Init ==
  /\ backend \in {"offload", "resident"}
  /\ main = [length |-> 0, pendingEnd |-> None]
  /\ indexer = [length |-> 0, pendingEnd |-> None]
  /\ layer = [l \in Layer |-> FreshLayer]
  /\ copies = <<>>
  /\ driver = "idle"
  /\ step = [number |-> 0, deferred |-> FALSE, seen |-> {}]
  /\ history = <<>>

-----------------------------------------------------------------------------
(* Derived records. *)

(* _indexer_lengths, with what a state that covers n tokens must say *)
DerivedAt(n) ==
  [compressed |-> IF n \div Stride > 1 THEN (n \div Stride) - 1 ELSE 0,
   pooled |-> IF n > Stride THEN (n - Stride) \div (Pool * Stride) ELSE 0,
   validated |-> n]

(* One compression window over `records`, a function of positions. *)
Window(records, w) == [i \in 1 .. 2 * Stride |-> records[(w * Stride) + i - 1]]

(* A pooled block takes the last window before it and its own. *)
PoolOf(compressed, b) ==
  [w \in {v \in Pool * b .. (Pool * b) + Pool : v > 0} |-> compressed[w]]

(* A buffer keeps its first n records and gets `appended` after them. *)
Rewritten(buffer, n, last, appended(_)) ==
  [w \in 1 .. last |-> IF w <= n THEN buffer[w] ELSE appended(w)]

LayerState(l) == IF layer[l].pending = None THEN layer[l].committed ELSE layer[l].pending

(* prepare_indexer_inputs for a layer that has written.  The compression   *)
(* reads `boundary` rows of the host, which this step has not sent, and    *)
(* then the suffix the device still holds; CIS scores never leave it.      *)
Appended(l, i) == IF i < main.length THEN layer[l].records[i] ELSE step.number

Prepared(l) ==
  LET old == LayerState(l)
      new == DerivedAt(main.pendingEnd)
      rows == [i \in 0 .. main.pendingEnd - 1 |-> Appended(l, i)]
      cisWindow(w) == Window(layer[l].cis, w - 1)
      keyWindow(w) == Window(rows, w - 1)
      cis == Rewritten(layer[l].compressedCis, old.compressed, new.compressed, cisWindow)
      block(b) == PoolOf(cis, b - 1)
  IN [layer[l] EXCEPT
        !.keys = Rewritten(@, old.compressed, new.compressed, keyWindow),
        !.compressedCis = cis,
        !.pooledCis = Rewritten(@, old.pooled, new.pooled, block),
        !.pending = new]

IsPrepared(l) == LayerState(l) = DerivedAt(main.pendingEnd)

(* "Offload indexer must materialize every committed append" and "Offload  *)
(* compression boundary exceeds 31 historical tokens", which raise; the    *)
(* resident indexer takes up from whatever is derived.                     *)
MayPrepare(l) ==
  Offload =>
  /\ LayerState(l).validated = main.length
  /\ LayerState(l).compressed < DerivedAt(main.pendingEnd).compressed =>
       main.length - (LayerState(l).compressed * Stride) \in 0 .. (2 * Stride) - 1

-----------------------------------------------------------------------------
(* The host. *)

Landed(layers, copy) ==
  [layers EXCEPT ![copy.layer].records =
     [i \in Position |-> IF i \in copy.rows THEN copy.number ELSE @[i]]]

(* torch.cuda.synchronize: a row holds what the last copy to it brought. *)
CopiesTo(l, i) == {k \in DOMAIN copies : copies[k].layer = l /\ i \in copies[k].rows}

Synchronized ==
  [l \in Layer |-> [layer[l] EXCEPT !.records =
     [i \in Position |->
        IF CopiesTo(l, i) = {} THEN layer[l].records[i] ELSE copies[Max(CopiesTo(l, i))].number]]]

Stepping == main.pendingEnd # None
AppendRows == main.length .. main.pendingEnd - 1

(* The write stream takes its copies in order. *)
CopyLands ==
  /\ copies # <<>>
  /\ layer' = Landed(layer, Head(copies))
  /\ copies' = Tail(copies)
  /\ UNCHANGED <<backend, main, indexer, driver, step, history>>

-----------------------------------------------------------------------------
(* One step. *)

(* begin_step of both sides; compute graphs begin a deferred validation. *)
BeginStep(end, deferred) ==
  /\ driver = "idle" /\ step.number < MaxSteps
  /\ ~Stepping /\ end \in main.length + 1 .. Capacity
  /\ indexer.pendingEnd = None /\ indexer.length < end
  /\ main' = [main EXCEPT !.pendingEnd = end]
  /\ indexer' = [indexer EXCEPT !.pendingEnd = end]
  /\ layer' = [l \in Layer |-> [layer[l] EXCEPT !.written = FALSE, !.finite = TRUE]]
  /\ driver' = "step"
  /\ step' = [number |-> step.number + 1, deferred |-> deferred, seen |-> {}]
  /\ UNCHANGED <<backend, copies, history>>

WithAppend(records) ==
  [i \in Position |-> IF i \in AppendRows THEN step.number ELSE records[i]]

(* ResidentCache.write_layer copies into its buffers; HostBackingCache has *)
(* cloned the append and sends it to the host.                             *)
MainWritten(records) == IF Offload THEN records ELSE WithAppend(records)

(* write_layer, called in the order of the model's layers.  The CIS scores *)
(* are on the device in either backend.                                    *)
WriteLayer(l, finite) ==
  /\ driver = "step" /\ Stepping /\ ~layer[l].written
  /\ \A k \in 1 .. l - 1 : layer[k].written
  /\ layer' = [layer EXCEPT
       ![l].written = TRUE, ![l].finite = finite,
       ![l].records = MainWritten(@),
       ![l].cis = WithAppend(@)]
  /\ copies' = IF Offload
               THEN Append(copies, [layer |-> l, rows |-> AppendRows, number |-> step.number])
               ELSE copies
  /\ UNCHANGED <<backend, main, indexer, driver, step, history>>

(* prepare_indexer_inputs with the layer's query.  Without a deferred flag *)
(* a value that is not finite raises before anything is reserved; with     *)
(* one, the flag keeps the answer for Commit.                              *)
Prepare(l) ==
  /\ driver = "step" /\ layer[l].written
  /\ ~IsPrepared(l) /\ MayPrepare(l)
  /\ IF step.deferred THEN l \notin step.seen ELSE layer[l].finite
  /\ layer' = [layer EXCEPT ![l] = Prepared(l)]
  /\ step' = IF step.deferred THEN [step EXCEPT !.seen = @ \cup {l}] ELSE step
  /\ UNCHANGED <<backend, main, indexer, copies, driver, history>>

(* Anything in the forward may raise: the caller goes on to abort_step. *)
Fail ==
  /\ driver = "step"
  /\ driver' = "unwinding"
  /\ UNCHANGED <<backend, main, indexer, layer, copies, step, history>>

(* Mutant of Checked: every layer was seen, the flags are not read. *)
CheckedSeen == step.deferred => step.seen = Layer

(* DeferredValidation.check: one answer for all layers, before commit_step *)
Checked ==
  step.deferred => (step.seen = Layer /\ \A l \in Layer : layer[l].finite)

(* The offload commit_step prepares a layer now unless it already is, the  *)
(* only case in which it is not checked again.  The resident one does not: *)
(* in a forward that reached it, every layer's attention has prepared the  *)
(* layer to select its blocks.                                             *)
PreparedForCommit(l) ==
  IsPrepared(l) \/ (Offload /\ MayPrepare(l) /\ layer[l].finite)

(* What commit_step checks before it publishes anything. *)
CommitValid ==
  /\ Stepping /\ indexer.pendingEnd # None
  /\ \A l \in Layer : layer[l].written /\ PreparedForCommit(l)

CommitPrepared(layers) ==
  [l \in Layer |-> [layers[l] EXCEPT
     !.keys = IF IsPrepared(l) THEN @ ELSE Prepared(l).keys,
     !.compressedCis = IF IsPrepared(l) THEN @ ELSE Prepared(l).compressedCis,
     !.pooledCis = IF IsPrepared(l) THEN @ ELSE Prepared(l).pooledCis,
     !.pending = DerivedAt(main.pendingEnd)]]

(* IndexerCache.commit_step *)
IndexerCommitted(layers) ==
  [l \in Layer |-> [layers[l] EXCEPT
     !.committed = layers[l].pending, !.pending = None, !.written = FALSE]]

(* commit_step: main synchronizes and publishes, then the indexer does. *)
Commit ==
  /\ driver = "step" /\ Checked /\ CommitValid
  /\ layer' = IndexerCommitted(CommitPrepared(Synchronized))
  /\ copies' = <<>>
  /\ main' = [length |-> main.pendingEnd, pendingEnd |-> None]
  /\ indexer' = [length |-> indexer.pendingEnd, pendingEnd |-> None]
  /\ driver' = "idle"
  /\ history' = history \o [k \in 1 .. main.pendingEnd - main.length |-> step.number]
  /\ UNCHANGED <<backend, step>>

(* The synchronization in commit_step raises: neither side has published. *)
CommitFails ==
  /\ Offload /\ driver = "step" /\ Checked /\ CommitValid
  /\ layer' = CommitPrepared(layer)
  /\ driver' = "unwinding"
  /\ UNCHANGED <<backend, main, indexer, copies, step, history>>

(* Mutant of AbortedLayers: the indexer's pending states stay. *)
AbortedMainOnly(layers) == [l \in Layer |-> [layers[l] EXCEPT !.written = FALSE]]

(* What abort_step leaves of both sides once the device is synchronized. *)
AbortedLayers(layers) ==
  [l \in Layer |-> [layers[l] EXCEPT !.pending = None, !.written = FALSE]]

(* Mutant of Abort: the step is dropped with its copies still running. *)
AbortUnsynchronized ==
  /\ driver = "unwinding"
  /\ layer' = AbortedLayers(layer)
  /\ main' = [main EXCEPT !.pendingEnd = None]
  /\ indexer' = [indexer EXCEPT !.pendingEnd = None]
  /\ driver' = "idle"
  /\ UNCHANGED <<backend, copies, step, history>>

(* abort_step: both sides forget the step after a synchronization. *)
Abort ==
  /\ driver = "unwinding"
  /\ layer' = AbortedLayers(Synchronized)
  /\ copies' = <<>>
  /\ main' = [main EXCEPT !.pendingEnd = None]
  /\ indexer' = [indexer EXCEPT !.pendingEnd = None]
  /\ driver' = "idle"
  /\ UNCHANGED <<backend, step, history>>

(* The synchronization raises: the step stays pending on both sides, and   *)
(* the backend takes no further work for the request.                      *)
AbortFails ==
  /\ Offload /\ driver = "unwinding"
  /\ driver' = "broken"
  /\ UNCHANGED <<backend, main, indexer, layer, copies, step, history>>

-----------------------------------------------------------------------------
(* Between steps. *)

Shorter(m, n) == IF m < n THEN m ELSE n

(* IndexerCache.truncate for one layer *)
TruncatedState(state, n) ==
  [compressed |-> Shorter(state.compressed, DerivedAt(n).compressed),
   pooled |-> Shorter(state.pooled, DerivedAt(n).pooled),
   validated |-> Shorter(state.validated, n)]

(* truncate: synchronize, then the indexer, then the length. *)
Truncate(n) ==
  /\ driver = "idle" /\ ~Stepping /\ n \in 0 .. main.length - 1
  /\ indexer.pendingEnd = None /\ n <= indexer.length
  /\ layer' = [l \in Layer |->
       [Synchronized[l] EXCEPT !.committed = TruncatedState(@, n)]]
  /\ copies' = <<>>
  /\ indexer' = [indexer EXCEPT !.length = n]
  /\ main' = [main EXCEPT !.length = n]
  /\ history' = SubSeq(history, 1, n)
  /\ UNCHANGED <<backend, driver, step>>

(* release, also of a request whose step could not be aborted: reset both  *)
(* sides after a synchronization, then drop the buffers.  If that raises   *)
(* nothing has changed.                                                    *)
Release ==
  /\ driver \in {"idle", "broken"}
  /\ copies' = <<>>
  /\ main' = [length |-> 0, pendingEnd |-> None]
  /\ indexer' = [length |-> 0, pendingEnd |-> None]
  /\ layer' = [l \in Layer |-> FreshLayer]
  /\ driver' = "released"
  /\ history' = <<>>
  /\ UNCHANGED <<backend, step>>

Next ==
  \/ CopyLands
  \/ \E end \in 1 .. Capacity, deferred \in BOOLEAN : BeginStep(end, deferred)
  \/ \E l \in Layer, finite \in BOOLEAN : WriteLayer(l, finite)
  \/ \E l \in Layer : Prepare(l)
  \/ Fail
  \/ Commit
  \/ CommitFails
  \/ Abort
  \/ AbortFails
  \/ \E n \in 0 .. Capacity - 1 : Truncate(n)
  \/ Release

Spec == Init /\ [][Next]_vars

-----------------------------------------------------------------------------
(* Properties. *)

Cursor == [length : 0 .. Capacity, pendingEnd : (1 .. Capacity) \cup {None}]
IndexerLayerState == [compressed : Nat, pooled : Nat, validated : 0 .. Capacity]

TypeOK ==
  /\ backend \in {"offload", "resident"}
  /\ main \in Cursor /\ indexer \in Cursor
  /\ \A l \in Layer :
       /\ layer[l].records \in [Position -> 0 .. MaxSteps]
       /\ layer[l].cis \in [Position -> 0 .. MaxSteps]
       /\ layer[l].written \in BOOLEAN /\ layer[l].finite \in BOOLEAN
       /\ layer[l].committed \in IndexerLayerState
       /\ layer[l].pending \in IndexerLayerState \cup {None}
  /\ \A k \in DOMAIN copies :
       copies[k] \in [layer : Layer, rows : SUBSET Position, number : 1 .. MaxSteps]
  /\ driver \in {"idle", "step", "unwinding", "broken", "released"}
  /\ step \in [number : 0 .. MaxSteps, deferred : BOOLEAN, seen : SUBSET Layer]
  /\ history \in Seq(1 .. MaxSteps)

(* The variables keep their types.  The main cache and the indexer never   *)
(* disagree on the length or on the pending step, whichever                *)
(* synchronization fails (offload.py commit_step, abort_step and truncate  *)
(* publish the two one after the other); and while no step is pending no   *)
(* host copy runs, so that a truncation, the next step or the release of   *)
(* the buffers finds the rows quiet.                                       *)
SidesAgree ==
  /\ TypeOK
  /\ main = indexer /\ main.length = Len(history)
  /\ ~Stepping => copies = <<>>

(* The rows of the committed prefix hold, in the main cache of every layer,*)
(* the records of the steps that were committed.                           *)
CommittedRowsKept ==
  \A l \in Layer : \A i \in 0 .. Len(history) - 1 :
    layer[l].records[i] = history[i + 1] /\ layer[l].cis[i] = history[i + 1]

Token == [i \in 0 .. Len(history) - 1 |-> history[i + 1]]

(* The derived records that a layer calls committed cover the whole        *)
(* history, each computed from the records of its window as they are now.  *)
DerivedFromHistory ==
  \A l \in Layer :
    LET state == layer[l].committed IN
    /\ state = DerivedAt(Len(history))
    /\ \A w \in 1 .. state.compressed :
         /\ layer[l].keys[w] = Window(Token, w - 1)
         /\ layer[l].compressedCis[w] = Window(Token, w - 1)
    /\ \A b \in 1 .. state.pooled :
         layer[l].pooledCis[b] =
           [w \in {v \in Pool * (b - 1) .. Pool * b : v > 0} |-> Window(Token, w - 1)]

(* The main rows, the CIS rows and every derived record of a layer belong  *)
(* to the history that the caller has seen committed, although appends,    *)
(* failed steps and truncations reuse rows while the write stream runs     *)
(* behind the calls, and derived records are kept over them by their       *)
(* lengths alone (write_layer, commit_step, prepare_indexer_inputs,        *)
(* IndexerCache.truncate and abort_step).                                  *)
CommittedHistoryKept == CommittedRowsKept /\ DerivedFromHistory

(* No step that wrote a value that is not finite is ever committed, though *)
(* a deferred validation lets its derived records be written first         *)
(* (DeferredValidation.check, prepare_indexer_inputs).                     *)
CommitsAreFinite ==
  [][main'.length > main.length => \A l \in Layer : layer[l].finite]_vars
=============================================================================
