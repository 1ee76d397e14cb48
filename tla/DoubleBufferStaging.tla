------------------------ MODULE DoubleBufferStaging ------------------------
(***************************************************************************)
(* cache/staging.py: two record slots, filled by a private copy stream and *)
(* read by the caller's stream, lent to one session execution at a time.   *)
(*                                                                         *)
(* Three things run concurrently: the Python caller, which only submits    *)
(* work and looks at its own bookkeeping, and the two CUDA streams, which  *)
(* run what was submitted to them in order, at any time later.  An event   *)
(* stands for all the work of one stream that precedes its recording, so   *)
(* it is the number of operations submitted to that stream so far; an      *)
(* operation waits for the event its stream was last told to wait for.     *)
(*                                                                         *)
(* On a CPU device every copy completes at once: that is the special case  *)
(* where the streams run before the caller goes on.                        *)
(***************************************************************************)
EXTENDS Integers, Sequences, FiniteSetsExt, Functions

CONSTANTS
  Borrower,      (* who takes a lease: a session with its generation       *)
  Layers,        (* layer indices are 0 .. Layers - 1                      *)
  None,
  MaxEpoch,      (* bound on leases and resets together                    *)
  MaxSubmitted   (* bounds on what is submitted to each stream between two *)
                 (* joins                                                  *)

ASSUME StagingAssumption ==
  /\ Layers \in Nat \ {0}
  /\ MaxEpoch \in Nat /\ MaxSubmitted \in [{"caller", "copy"} -> Nat]
  /\ None \notin Borrower

VARIABLES
  active,      (* staging._active: the lease, or None                      *)
  slot,        (* _slot_identities and _slot_ready                         *)
  sources,     (* lease._sources: the host records kept alive              *)
  poisoned,
  closed,
  fenced,      (* the allocation stream has been waited for                *)
  ready,       (* _ready_events: per slot, a point of the copy stream      *)
  stream,      (* per stream: the pending operations, how many are done    *)
               (* since the last join, whether one is running, and the     *)
               (* event to wait for                                        *)
  buffer,      (* _buffers: which records each slot holds, or Mixed        *)
  join,        (* a _join in progress, or None                             *)
  epoch        (* leases and resets so far: which records are meant        *)

bookkeeping == <<active, slot, sources, poisoned, closed, fenced>>
device      == <<ready, stream, buffer>>
vars == <<bookkeeping, device, join, epoch>>

Layer  == 0 .. Layers - 1
Slot   == 0 .. 1
SlotOf(layer) == layer % 2
Stream == {"caller", "copy"}
Other(x) == IF x = "caller" THEN "copy" ELSE "caller"

Mixed == [epoch |-> -1, layer |-> -1]

Idle == [ops |-> <<>>, done |-> 0, busy |-> FALSE, wait |-> 0]

Unowned == [owner |-> None, ready |-> FALSE]

LeaseState == [borrower : Borrower, cycle : 0 .. MaxEpoch,
               interrupted : BOOLEAN, closed : BOOLEAN]

SlotIdentity == [borrower : Borrower, layer : Layer, cycle : 0 .. MaxEpoch]

JoinState == [purpose : {"reset", "return", "close"}, left : Seq(Stream),
              failed : BOOLEAN]

ASSUME NoneAssumption == None \notin LeaseState \cup SlotIdentity \cup JoinState

Init ==
  /\ active = None
  /\ slot = [i \in Slot |-> Unowned]
  /\ sources = {}
  /\ poisoned = FALSE
  /\ closed = FALSE
  /\ fenced = FALSE
  /\ ready = [i \in Slot |-> 0]
  /\ stream = [x \in Stream |-> Idle]
  /\ buffer = [i \in Slot |-> Mixed]
  /\ join = None
  /\ epoch = 0

-----------------------------------------------------------------------------
(* The streams. *)

Records(layer) == [epoch |-> epoch, layer |-> layer]

Point(x)   == stream[x].done + Len(stream[x].ops)
Drained(x) == stream[x].ops = <<>>
NextOp(x)  == Head(stream[x].ops)

Start(x) ==
  /\ ~Drained(x) /\ ~stream[x].busy
  /\ stream[Other(x)].done >= NextOp(x).after
  /\ stream' = [stream EXCEPT ![x].busy = TRUE]
  /\ buffer' = IF x = "copy" THEN [buffer EXCEPT ![NextOp(x).slot] = Mixed]
                             ELSE buffer
  /\ UNCHANGED <<bookkeeping, ready, join, epoch>>

Complete(x) ==
  /\ stream[x].busy
  /\ stream' = [stream EXCEPT ![x].busy = FALSE, ![x].done = @ + 1,
                              ![x].ops = Tail(@)]
  /\ buffer' = IF x = "copy" /\ NextOp(x).whole
                 THEN [buffer EXCEPT ![NextOp(x).slot] = NextOp(x).data]
                 ELSE buffer
  /\ UNCHANGED <<bookkeeping, ready, join, epoch>>

(* `whole` is FALSE for the copies of a submission that failed half way.   *)
Submitted(x, layer, event, whole) ==
  [stream EXCEPT ![x].ops = Append(@, [slot |-> SlotOf(layer), data |-> Records(layer),
                                       after |-> event, whole |-> whole]),
                 ![x].wait = event]

-----------------------------------------------------------------------------
(* StagingLease. *)

Lease(b) ==
  /\ join = None
  /\ ~closed /\ ~poisoned
  /\ active = None
  /\ epoch < MaxEpoch
  /\ epoch' = epoch + 1
  /\ \E failed \in BOOLEAN :
       /\ failed => ~fenced
       /\ active' = [borrower |-> b, cycle |-> 0, interrupted |-> FALSE,
                     closed |-> failed]
       /\ poisoned' = failed
       /\ fenced' = ~failed
  /\ UNCHANGED <<slot, sources, closed, device, join>>

CheckMutant ==
  /\ join = None
  /\ active # None /\ ~active.closed
  /\ ~closed
  /\ ~active.interrupted

Check ==
  /\ join = None
  /\ active # None /\ ~active.closed
  /\ ~closed /\ ~poisoned
  /\ ~active.interrupted

Identity(layer) ==
  [borrower |-> active.borrower, layer |-> layer, cycle |-> active.cycle]

Interrupt == active' = [active EXCEPT !.interrupted = TRUE]

Replaceable(i) == slot[i].owner = None \/ slot[i].ready

(* The event that the copy waits for: all the consumers submitted so far.  *)
ConsumerEventStaleMutant(i) == stream["copy"].wait
ConsumerEvent(i) == Point("caller")

RetainMutant(records) == UNCHANGED sources
Retain(records) == sources' = sources \cup {records}

(* A submission that fails may have queued nothing, or copies without the  *)
(* ready event behind them; the slot is taken and its source retained in   *)
(* every case.                                                             *)
Prefetch(layer) ==
  LET i == SlotOf(layer)
      copies(whole) == Submitted("copy", layer, ConsumerEvent(i), whole) IN
  /\ Check
  /\ Point("copy") < MaxSubmitted["copy"]
  /\ Replaceable(i)
  /\ Retain(Records(layer))
  /\ slot' = [slot EXCEPT ![i] = [owner |-> Identity(layer), ready |-> FALSE]]
  /\ \/ /\ stream' = copies(TRUE)
        /\ ready' = [ready EXCEPT ![i] = Point("copy") + 1]
        /\ UNCHANGED active
     \/ /\ stream' \in {stream, copies(FALSE)}
        /\ Interrupt
        /\ UNCHANGED ready
  /\ UNCHANGED <<poisoned, closed, fenced, buffer, join, epoch>>

OwnsMutant(layer) == slot[SlotOf(layer)].owner # None
Owns(layer) == slot[SlotOf(layer)].owner = Identity(layer)

WaitReady(layer) ==
  LET i == SlotOf(layer) IN
  /\ Check
  /\ Owns(layer)
  /\ \/ /\ stream' = [stream EXCEPT !["caller"].wait = Max({@, ready[i]})]
        /\ slot' = [slot EXCEPT ![i].ready = TRUE]
        /\ UNCHANGED active
     \/ Interrupt /\ UNCHANGED <<stream, slot>>
  /\ UNCHANGED <<sources, poisoned, closed, fenced, ready, buffer, join, epoch>>

View(layer) == Owns(layer) /\ slot[SlotOf(layer)].ready

(* The model code takes a view and submits the attention and the suffix    *)
(* write that use it (DenseCache, NosaDensePrefetchKVCache).               *)
Consume(layer) ==
  /\ Check
  /\ View(layer)
  /\ Point("caller") < MaxSubmitted["caller"]
  /\ stream' = Submitted("caller", layer, stream["caller"].wait, TRUE)
  /\ UNCHANGED <<bookkeeping, ready, buffer, join, epoch>>

-----------------------------------------------------------------------------
(* _join and the three calls that need it.                                 *)

BeginJoin(purpose) ==
  /\ join' = [purpose |-> purpose, left |-> <<"caller", "copy">>, failed |-> FALSE]
  /\ UNCHANGED <<bookkeeping, device, epoch>>

Reset ==
  /\ join = None
  /\ active # None /\ ~active.closed
  /\ ~closed /\ ~poisoned
  /\ epoch < MaxEpoch
  /\ BeginJoin("reset")

Return ==
  /\ join = None
  /\ active # None /\ ~active.closed
  /\ BeginJoin("return")

(* stream.synchronize(): it returns when the stream has nothing left, or   *)
(* it fails and nothing is known.  Both streams are asked in any case.     *)
Synchronize ==
  /\ join # None /\ join.left # <<>>
  /\ Drained(Head(join.left))
  /\ join' = [join EXCEPT !.left = Tail(@)]
  /\ UNCHANGED <<bookkeeping, device, epoch>>

SynchronizeFails ==
  /\ join # None /\ join.left # <<>>
  /\ join' = [join EXCEPT !.left = Tail(@), !.failed = TRUE]
  /\ UNCHANGED <<bookkeeping, device, epoch>>

Joined(purpose) == join # None /\ join.purpose = purpose /\ join.left = <<>>

(* Every event of a drained stream has completed, so the points start      *)
(* again from zero.                                                        *)
RestartPoints ==
  /\ stream' = [x \in Stream |-> [stream[x] EXCEPT !.done = 0, !.wait = 0]]
  /\ ready' = [i \in Slot |-> 0]

ClearSlotsMutant == UNCHANGED slot
ClearOwnersMutant == slot' = [i \in Slot |-> [slot[i] EXCEPT !.owner = None]]
ClearSlots == slot' = [i \in Slot |-> Unowned]

JoinFails(purpose) ==
  /\ Joined(purpose) /\ join.failed
  /\ join' = None
  /\ poisoned' = TRUE
  /\ active' = IF purpose = "return" THEN [active EXCEPT !.closed = TRUE] ELSE active
  /\ UNCHANGED <<slot, sources, closed, fenced, device, epoch>>

ResetJoined ==
  /\ Joined("reset") /\ ~join.failed
  /\ join' = None
  /\ sources' = {}
  /\ ClearSlots
  /\ active' = [active EXCEPT !.cycle = @ + 1, !.interrupted = FALSE]
  /\ epoch' = epoch + 1
  /\ RestartPoints
  /\ UNCHANGED <<poisoned, closed, fenced, buffer>>

ReturnJoinedMutant ==
  /\ Joined("return")
  /\ join' = None
  /\ sources' = {}
  /\ ClearSlots
  /\ active' = None
  /\ RestartPoints
  /\ UNCHANGED <<poisoned, closed, fenced, buffer, epoch>>

ReturnJoined ==
  /\ Joined("return") /\ ~join.failed
  /\ join' = None
  /\ sources' = {}
  /\ ClearSlots
  /\ active' = None
  /\ RestartPoints
  /\ UNCHANGED <<poisoned, closed, fenced, buffer, epoch>>

-----------------------------------------------------------------------------
(* DoubleBufferStaging.close: at once without a lease; after one more join *)
(* when the lease's own return failed; never under a live lease.           *)

Dispose ==
  /\ closed' = TRUE
  /\ active' = None
  /\ ClearSlots
  /\ UNCHANGED <<poisoned, fenced, epoch>>

Close ==
  /\ join = None /\ ~closed
  /\ active = None
  /\ Dispose
  /\ UNCHANGED <<sources, device, join>>

CloseFailedLease ==
  /\ join = None /\ ~closed
  /\ active # None /\ active.closed
  /\ BeginJoin("close")

CloseJoined ==
  /\ Joined("close") /\ ~join.failed
  /\ join' = None
  /\ sources' = {}
  /\ RestartPoints
  /\ Dispose
  /\ UNCHANGED buffer

-----------------------------------------------------------------------------
Caller ==
  \/ \E b \in Borrower : Lease(b)
  \/ \E layer \in Layer : Prefetch(layer) \/ WaitReady(layer) \/ Consume(layer)
  \/ Reset \/ Return \/ Close \/ CloseFailedLease

Joining ==
  \/ Synchronize \/ SynchronizeFails
  \/ \E purpose \in {"reset", "return", "close"} : JoinFails(purpose)
  \/ ResetJoined \/ ReturnJoined \/ CloseJoined

Next ==
  \/ Caller
  \/ Joining
  \/ \E x \in Stream : Start(x) \/ Complete(x)

Spec == Init /\ [][Next]_vars

-----------------------------------------------------------------------------
(* Properties. *)

RecordsOf == [epoch : 0 .. MaxEpoch, layer : Layer]

Op == [slot : Slot, data : RecordsOf, after : Nat, whole : BOOLEAN]

Pending(x) == Range(stream[x].ops)

(* The types: a slot is owned by layers of its own parity only, is ready   *)
(* only while it is owned, and events stand for submitted work.            *)
TypeOK ==
  /\ active # None => active \in LeaseState
  /\ \A i \in Slot :
       /\ slot[i].ready \in BOOLEAN
       /\ slot[i].owner # None =>
            slot[i].owner \in SlotIdentity /\ SlotOf(slot[i].owner.layer) = i
       /\ slot[i].owner = None => ~slot[i].ready
  /\ sources \subseteq RecordsOf
  /\ {poisoned, closed, fenced} \subseteq BOOLEAN
  /\ \A x \in Stream :
       /\ Pending(x) \subseteq Op
       /\ Point(x) \in 0 .. MaxSubmitted[x]
       /\ stream[x].busy \in BOOLEAN
       /\ stream[x].wait \in 0 .. Point(Other(x))
  /\ \A i \in Slot : ready[i] \in 0 .. Point("copy")
  /\ buffer \in [Slot -> RecordsOf \cup {Mixed}]
  /\ epoch \in 0 .. MaxEpoch

(* The two streams never work on one slot at the same time: a copy starts  *)
(* only after the consumers of the slot's previous layer have completed,   *)
(* whichever of the two is slow.                                           *)
NoSlotRace ==
  stream["copy"].busy /\ stream["caller"].busy
    => NextOp("copy").slot # NextOp("caller").slot

(* A consumer that runs finds in its slot exactly the records that were    *)
(* prefetched for its layer in this chunk of this lease: not the previous  *)
(* layer's, not those of an interrupted copy, not those of an earlier      *)
(* lease or chunk with the same identity (_slot, 250-256).                 *)
ConsumesItsLayer ==
  stream["caller"].busy => buffer[NextOp("caller").slot] = NextOp("caller").data

(* Host records stay referenced until every copy that reads them has       *)
(* completed, also those of a submission that failed half way (line 303)   *)
(* and of a join that was not confirmed.                                   *)
SourcesOutliveCopies == {op.data : op \in Pending("copy")} \subseteq sources

(* The storage is free for another lease, or dropped, only when both       *)
(* streams have been joined: also the speculative copy of a layer whose    *)
(* consumer was never reached.                                             *)
IdleStorageIsQuiet ==
  active = None \/ closed => \A x \in Stream : Drained(x)

(* An unconfirmed join is final for the users of the storage: nothing is   *)
(* submitted and no lease is granted, while disposal stays possible.       *)
PoisonStopsWork ==
  [][poisoned => /\ poisoned'
                 /\ active' # active => active' = None \/ active'.closed
                 /\ \A x \in Stream : Len(stream'[x].ops) <= Len(stream[x].ops)]_vars
=============================================================================
