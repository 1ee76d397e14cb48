--------------------- MODULE DoubleBufferStaging_proofs ---------------------
(***************************************************************************)
(* The staging storage for any borrowers, layers and bounds: the types,    *)
(* that the two streams never meet in a slot, that a consumer reads its    *)
(* own layer, and what a join and a failed join promise.                   *)
(***************************************************************************)
EXTENDS DoubleBufferStaging, SequenceTheorems, TLAPS

-----------------------------------------------------------------------------
(* The inductive invariant. *)

copies    == stream["copy"].ops
consumers == stream["caller"].ops

(* The functions and records that TypeOK takes for granted. *)
ShapeOK ==
  /\ slot \in [Slot -> [owner : SlotIdentity \cup {None}, ready : BOOLEAN]]
  /\ stream \in [Stream -> [ops : Seq(Op), done : Nat, busy : BOOLEAN, wait : Nat]]
  /\ ready \in [Slot -> Nat]
  /\ poisoned \in BOOLEAN /\ closed \in BOOLEAN /\ fenced \in BOOLEAN

(* A stream is busy with the first of its pending operations, and the      *)
(* event that this one waits for has completed.                            *)
BusyWithFirst ==
  \A x \in Stream :
    stream[x].busy => ~Drained(x) /\ stream[Other(x)].done >= NextOp(x).after

(* What a join knows: the streams that it asked without a failure are      *)
(* drained, and the lease it was called for is still there.                *)
JoinKnows ==
  ~join.failed => /\ "caller" \notin Range(join.left) => Drained("caller")
                  /\ "copy" \notin Range(join.left) => Drained("copy")

JoinOK ==
  join # None =>
    /\ join \in JoinState
    /\ join.left \in {<<"caller", "copy">>, <<"copy">>, <<>>}
    /\ JoinKnows
    /\ active # None
    /\ join.purpose = "reset" => ~poisoned /\ epoch < MaxEpoch

(* Without a lease nothing is owned and nothing is under way; cycles are   *)
(* counted with the epochs.                                                *)
LeaseOK ==
  /\ closed => active = None
  /\ active = None => /\ \A x \in Stream : Drained(x)
                      /\ \A i \in Slot : slot[i].owner = None
  /\ active # None => active.cycle <= epoch

(* Slot i holds the records d once the copy stream has reached a point, as *)
(* far as copies submitted so far are concerned.                           *)
Arrives(i, d, point) ==
  \/ buffer[i] = d /\ \A p \in DOMAIN copies : copies[p].slot # i
  \/ \E p \in DOMAIN copies :
       /\ copies[p].slot = i /\ copies[p].data = d /\ copies[p].whole
       /\ stream["copy"].done + p <= point
       /\ \A r \in DOMAIN copies : r > p => copies[r].slot # i

(* A slot's ready event stands behind the copy of its identity, and so     *)
(* does the caller's stream once the slot is ready.                        *)
SlotsArrive ==
  active # None /\ ~active.interrupted =>
    \A i \in Slot :
      LET d == Records(slot[i].owner.layer) IN
      /\ slot[i].owner # None => Arrives(i, d, ready[i])
      /\ slot[i].ready => Arrives(i, d, stream["caller"].wait)

(* A copy submitted after a consumer waits for it; the last one submitted  *)
(* before it in the same slot brings its records, and it waits for that.   *)
After(p, q) == copies[p].after >= stream["caller"].done + q

Served(q) ==
  LET k == consumers[q] IN
  \/ /\ buffer[k.slot] = k.data
     /\ \A p \in DOMAIN copies : copies[p].slot = k.slot => After(p, q)
  \/ \E p \in DOMAIN copies :
       /\ copies[p].slot = k.slot /\ copies[p].data = k.data /\ copies[p].whole
       /\ stream["copy"].done + p <= k.after
       /\ \A r \in DOMAIN copies : r > p /\ copies[r].slot = k.slot => After(r, q)

ConsumersServed == \A q \in DOMAIN consumers : Served(q)

IInv ==
  /\ TypeOK
  /\ ShapeOK
  /\ BusyWithFirst
  /\ JoinOK
  /\ LeaseOK
  /\ SourcesOutliveCopies
  /\ SlotsArrive
  /\ ConsumersServed

-----------------------------------------------------------------------------
(* The streams. *)

StreamState == [ops : Seq(Op), done : Nat, busy : BOOLEAN, wait : Nat]

(* TypeOK in two parts: the caller's bookkeeping, and the device.          *)
BookTypes ==
  /\ active # None => active \in LeaseState
  /\ \A i \in Slot :
       /\ slot[i].owner # None => SlotOf(slot[i].owner.layer) = i
       /\ slot[i].owner = None => ~slot[i].ready
  /\ slot \in [Slot -> [owner : SlotIdentity \cup {None}, ready : BOOLEAN]]
  /\ sources \subseteq RecordsOf
  /\ poisoned \in BOOLEAN /\ closed \in BOOLEAN /\ fenced \in BOOLEAN
  /\ epoch \in 0 .. MaxEpoch

DeviceTypes ==
  /\ stream \in [Stream -> StreamState]
  /\ \A x \in Stream : /\ Point(x) \in 0 .. MaxSubmitted[x]
                       /\ stream[x].wait \in 0 .. Point(Other(x))
  /\ ready \in [Slot -> Nat]
  /\ \A i \in Slot : ready[i] \in 0 .. Point("copy")
  /\ buffer \in [Slot -> RecordsOf \cup {Mixed}]

(* The elements of a sequence are its range. *)
LEMMA OpsRange ==
  ASSUME NEW S, NEW s \in Seq(S)
  PROVE  Range(s) \subseteq S /\ DOMAIN s = 1 .. Len(s) /\ Len(s) \in Nat
<1>1. s \in [1 .. Len(s) -> S] /\ DOMAIN s = 1 .. Len(s) /\ Len(s) \in Nat
  BY LenProperties
<1>2. \A p \in DOMAIN s : s[p] \in S
  BY <1>1
<1>3. Range(s) \subseteq S
  BY <1>2 DEF Range
<1> QED
  BY <1>1, <1>3

(* The type invariant falls into these two parts. *)
LEMMA TypeOKParts ==
  /\ TypeOK /\ ShapeOK <=> BookTypes /\ DeviceTypes
  /\ TypeOK' /\ ShapeOK' <=> BookTypes' /\ DeviceTypes'
<1>1. ASSUME stream \in [Stream -> StreamState], NEW x \in Stream
      PROVE  Pending(x) \subseteq Op /\ stream[x].busy \in BOOLEAN
  BY <1>1, OpsRange DEF Pending, StreamState
<1>2. ASSUME stream' \in [Stream -> StreamState], NEW x \in Stream
      PROVE  Pending(x)' \subseteq Op /\ stream'[x].busy \in BOOLEAN
  BY <1>2, OpsRange DEF Pending, StreamState
<1>3. TypeOK /\ ShapeOK => BookTypes /\ DeviceTypes
  BY DEF TypeOK, ShapeOK, BookTypes, DeviceTypes, StreamState
<1>4. TypeOK' /\ ShapeOK' => BookTypes' /\ DeviceTypes'
  BY DEF TypeOK, ShapeOK, BookTypes, DeviceTypes, StreamState
<1>5. BookTypes /\ DeviceTypes => TypeOK /\ ShapeOK
  <2>1. SUFFICES ASSUME BookTypes, DeviceTypes PROVE TypeOK /\ ShapeOK
    OBVIOUS
  <2>2. ShapeOK
    BY <2>1 DEF ShapeOK, BookTypes, DeviceTypes, StreamState
  <2>3. \A x \in Stream : Pending(x) \subseteq Op /\ stream[x].busy \in BOOLEAN
    BY <1>1, <2>1 DEF DeviceTypes
  <2>4. \A i \in Slot : /\ slot[i].ready \in BOOLEAN
                        /\ slot[i].owner \in SlotIdentity \cup {None}
    BY <2>1 DEF BookTypes
  <2> QED
    BY <2>1, <2>2, <2>3, <2>4 DEF TypeOK, BookTypes, DeviceTypes
<1>6. BookTypes' /\ DeviceTypes' => TypeOK' /\ ShapeOK'
  <2>1. SUFFICES ASSUME BookTypes', DeviceTypes' PROVE TypeOK' /\ ShapeOK'
    OBVIOUS
  <2>2. ShapeOK'
    BY <2>1 DEF ShapeOK, BookTypes, DeviceTypes, StreamState
  <2>3. \A x \in Stream : Pending(x)' \subseteq Op /\ stream'[x].busy \in BOOLEAN
    BY <1>2, <2>1 DEF DeviceTypes
  <2>4. \A i \in Slot : /\ slot'[i].ready \in BOOLEAN
                        /\ slot'[i].owner \in SlotIdentity \cup {None}
    BY <2>1 DEF BookTypes
  <2> QED
    BY <2>1, <2>2, <2>3, <2>4 DEF TypeOK, BookTypes, DeviceTypes
<1> QED
  BY <1>3, <1>4, <1>5, <1>6

(* The streams as such, and the first operation of one that is not empty.  *)
LEMMA FirstOp ==
  ASSUME DeviceTypes, NEW x \in Stream
  PROVE  /\ Other(x) \in Stream /\ Other(Other(x)) = x /\ Other(x) # x
         /\ stream[x] \in StreamState
         /\ stream[x].ops \in Seq(Op) /\ stream[x].done \in Nat
         /\ Len(stream[x].ops) \in Nat /\ DOMAIN stream[x].ops = 1 .. Len(stream[x].ops)
         /\ \A p \in DOMAIN stream[x].ops : stream[x].ops[p] \in Op
         /\ ~Drained(x) => /\ 1 \in DOMAIN stream[x].ops
                           /\ NextOp(x) = stream[x].ops[1]
<1>1. stream[x] \in StreamState
  BY DEF DeviceTypes
<1>2. stream[x].ops \in Seq(Op) /\ stream[x].done \in Nat
  BY <1>1 DEF StreamState
<1>3. /\ Len(stream[x].ops) \in Nat /\ DOMAIN stream[x].ops = 1 .. Len(stream[x].ops)
      /\ \A p \in DOMAIN stream[x].ops : stream[x].ops[p] \in Op
  BY <1>2, LenProperties, ElementOfSeq
<1>4. ASSUME ~Drained(x) PROVE 1 \in DOMAIN stream[x].ops /\ NextOp(x) = stream[x].ops[1]
  <2>1. stream[x].ops # <<>>
    BY <1>4 DEF Drained
  <2>2. Len(stream[x].ops) \in Nat \ {0}
    BY <1>2, <2>1, EmptySeq
  <2>3. 1 \in DOMAIN stream[x].ops
    BY <1>3, <2>2
  <2> QED
    BY <2>3 DEF NextOp
<1>5. Other(x) \in Stream /\ Other(Other(x)) = x /\ Other(x) # x
  BY DEF Other, Stream
<1> QED
  BY <1>1, <1>2, <1>3, <1>4, <1>5

(* An empty stream has no operations. *)
LEMMA NoOps ==
  ASSUME NEW x, Drained(x)
  PROVE  DOMAIN stream[x].ops = {} /\ Pending(x) = {} /\ Len(stream[x].ops) = 0
  BY DEF Drained, Pending, Range

(* Starting an operation changes no queue. *)
LEMMA StartEffect ==
  ASSUME DeviceTypes, NEW x \in Stream, Start(x)
  PROVE  /\ stream' \in [Stream -> StreamState]
         /\ \A y \in Stream : /\ stream'[y].ops = stream[y].ops
                              /\ stream'[y].done = stream[y].done
                              /\ stream'[y].wait = stream[y].wait
         /\ \A y \in Stream : y # x => stream'[y].busy = stream[y].busy
<1>1. stream' = [stream EXCEPT ![x].busy = TRUE] /\ stream \in [Stream -> StreamState]
  BY DEF Start, DeviceTypes
<1> QED
  BY <1>1 DEF StreamState

(* Completing one removes it. *)
LEMMA CompleteEffect ==
  ASSUME DeviceTypes, NEW x \in Stream, Complete(x), ~Drained(x)
  PROVE  /\ stream' \in [Stream -> StreamState]
         /\ stream'[Other(x)] = stream[Other(x)]
         /\ stream'[x].done = stream[x].done + 1
         /\ stream'[x].wait = stream[x].wait /\ ~stream'[x].busy
         /\ Len(stream'[x].ops) = Len(stream[x].ops) - 1
         /\ DOMAIN stream'[x].ops = 1 .. Len(stream[x].ops) - 1
         /\ \A p \in DOMAIN stream'[x].ops : stream'[x].ops[p] = stream[x].ops[p + 1]
<1> DEFINE st == stream[x]
<1>1. stream' = [stream EXCEPT ![x].busy = FALSE, ![x].done = @ + 1, ![x].ops = Tail(@)]
  BY DEF Complete
<1>2. stream \in [Stream -> StreamState] /\ st \in StreamState
  BY DEF DeviceTypes
<1>3. st.ops \in Seq(Op) /\ st.ops # <<>>
  BY <1>2 DEF StreamState, Drained
<1>4. /\ Tail(st.ops) \in Seq(Op) /\ Len(Tail(st.ops)) = Len(st.ops) - 1
      /\ \A p \in 1 .. Len(Tail(st.ops)) : Tail(st.ops)[p] = st.ops[p + 1]
  BY <1>3, HeadTailProperties
<1>5. DOMAIN Tail(st.ops) = 1 .. Len(st.ops) - 1
  BY <1>4, LenProperties
<1>6. stream'[x] = [ops |-> Tail(st.ops), done |-> st.done + 1, busy |-> FALSE, wait |-> st.wait]
  BY <1>1, <1>2 DEF StreamState
<1>7. stream'[x] \in StreamState
  BY <1>2, <1>4, <1>6 DEF StreamState
<1>8. Other(x) \in Stream /\ Other(x) # x
  BY DEF Other, Stream
<1>9. stream'[Other(x)] = stream[Other(x)]
  BY <1>1, <1>2, <1>8
<1>10. stream' \in [Stream -> StreamState]
  <2>1. Stream = {x, Other(x)}
    BY DEF Other, Stream
  <2>2. stream' = [stream EXCEPT ![x] = stream'[x]]
    BY <1>1, <1>2
  <2> QED
    BY <1>2, <1>7, <2>2
<1> QED
  BY <1>4, <1>5, <1>6, <1>9, <1>10

(* Submitting one appends it, and the stream remembers the event.          *)
LEMMA SubmitEffect ==
  ASSUME DeviceTypes, epoch \in 0 .. MaxEpoch, NEW x \in Stream, NEW layer \in Layer,
         NEW event \in Nat, NEW whole \in BOOLEAN,
         stream' = Submitted(x, layer, event, whole)
  PROVE  /\ stream' \in [Stream -> StreamState]
         /\ stream'[Other(x)] = stream[Other(x)]
         /\ stream'[x].done = stream[x].done /\ stream'[x].busy = stream[x].busy
         /\ stream'[x].wait = event
         /\ Len(stream'[x].ops) = Len(stream[x].ops) + 1
         /\ DOMAIN stream'[x].ops = 1 .. Len(stream[x].ops) + 1
         /\ \A p \in DOMAIN stream[x].ops : stream'[x].ops[p] = stream[x].ops[p]
         /\ stream'[x].ops[Len(stream[x].ops) + 1]
              = [slot |-> SlotOf(layer), data |-> Records(layer), after |-> event,
                 whole |-> whole]
         /\ stream'[x].ops # <<>>
<1> DEFINE st == stream[x]
           op == [slot |-> SlotOf(layer), data |-> Records(layer), after |-> event,
                  whole |-> whole]
<1>1. stream' = [stream EXCEPT ![x].ops = Append(@, op), ![x].wait = event]
  BY DEF Submitted
<1>2. stream \in [Stream -> StreamState] /\ st \in StreamState
  BY DEF DeviceTypes
<1>3. op \in Op
  <2>1. SlotOf(layer) \in Slot
    BY StagingAssumption DEF SlotOf, Slot, Layer
  <2>2. Records(layer) \in RecordsOf
    BY DEF Records, RecordsOf
  <2> QED
    BY <2>1, <2>2 DEF Op
<1> HIDE DEF op
<1>4. st.ops \in Seq(Op)
  BY <1>2 DEF StreamState
<1>5. /\ Append(st.ops, op) \in Seq(Op) /\ Len(Append(st.ops, op)) = Len(st.ops) + 1
      /\ Append(st.ops, op) # <<>>
      /\ \A p \in 1 .. Len(st.ops) : Append(st.ops, op)[p] = st.ops[p]
      /\ Append(st.ops, op)[Len(st.ops) + 1] = op
  BY <1>3, <1>4, AppendProperties
<1>6. /\ DOMAIN Append(st.ops, op) = 1 .. Len(st.ops) + 1
      /\ DOMAIN st.ops = 1 .. Len(st.ops)
  BY <1>4, <1>5, LenProperties
<1>7. stream'[x] = [ops |-> Append(st.ops, op), done |-> st.done, busy |-> st.busy, wait |-> event]
  BY <1>1, <1>2 DEF StreamState
<1>8. stream'[x] \in StreamState
  BY <1>2, <1>5, <1>7 DEF StreamState
<1>9. Other(x) \in Stream /\ Other(x) # x
  BY DEF Other, Stream
<1>10. stream'[Other(x)] = stream[Other(x)]
  BY <1>1, <1>2, <1>9
<1>11. stream' \in [Stream -> StreamState]
  <2>1. stream' = [stream EXCEPT ![x] = stream'[x]]
    BY <1>1, <1>2
  <2> QED
    BY <1>2, <1>8, <2>1
<1> QED
  BY <1>5, <1>6, <1>7, <1>10, <1>11 DEF op

-----------------------------------------------------------------------------
(* The steps of the streams. *)

(* What the two streams stand at. *)
LEMMA Streams ==
  ASSUME DeviceTypes
  PROVE  /\ stream["copy"].done \in Nat /\ stream["caller"].done \in Nat
         /\ Len(copies) \in Nat /\ Len(consumers) \in Nat
         /\ DOMAIN copies = 1 .. Len(copies) /\ DOMAIN consumers = 1 .. Len(consumers)
         /\ \A p \in DOMAIN copies : copies[p] \in Op
         /\ \A q \in DOMAIN consumers : consumers[q] \in Op
         /\ Other("copy") = "caller" /\ Other("caller") = "copy"
         /\ "copy" \in Stream /\ "caller" \in Stream
         /\ Point("copy") = stream["copy"].done + Len(copies)
         /\ Point("caller") = stream["caller"].done + Len(consumers)
<1>1. "copy" \in Stream /\ "caller" \in Stream
  BY DEF Stream
<1> QED
  BY <1>1, FirstOp DEF copies, consumers, Other, Point

(* The copy that runs has waited for the consumers before it.              *)
LEMMA RunningCopy ==
  ASSUME DeviceTypes, BusyWithFirst, stream["copy"].busy
  PROVE  /\ 1 \in DOMAIN copies /\ NextOp("copy") = copies[1] /\ ~Drained("copy")
         /\ \A q \in DOMAIN consumers : ~After(1, q)
<1>1. ~Drained("copy") /\ stream["caller"].done >= NextOp("copy").after
  BY Streams DEF BusyWithFirst
<1>2. 1 \in DOMAIN copies /\ NextOp("copy") = copies[1]
  BY <1>1, FirstOp, Streams DEF copies
<1>3. copies[1].after \in Nat
  BY <1>2, Streams DEF Op
<1> QED
  BY <1>1, <1>2, <1>3, Streams DEF After

(* The consumer that runs has waited for its records. *)
LEMMA RunningConsumer ==
  ASSUME DeviceTypes, BusyWithFirst, ConsumersServed, stream["caller"].busy
  PROVE  /\ 1 \in DOMAIN consumers /\ NextOp("caller") = consumers[1]
         /\ ~Drained("caller")
         /\ buffer[consumers[1].slot] = consumers[1].data
         /\ \A p \in DOMAIN copies : copies[p].slot = consumers[1].slot => After(p, 1)
<1>1. ~Drained("caller") /\ stream["copy"].done >= NextOp("caller").after
  BY Streams DEF BusyWithFirst
<1>2. 1 \in DOMAIN consumers /\ NextOp("caller") = consumers[1]
  BY <1>1, FirstOp, Streams DEF consumers
<1>3. consumers[1].after \in Nat
  BY <1>2, Streams DEF Op
<1>4. ~ \E p \in DOMAIN copies : stream["copy"].done + p <= consumers[1].after
  BY <1>1, <1>2, <1>3, Streams
<1>5. Served(1)
  BY <1>2 DEF ConsumersServed
<1> QED
  BY <1>1, <1>2, <1>4, <1>5 DEF Served

(* The start of an operation: a copy that starts leaves alone every slot   *)
(* that a consumer still needs.                                            *)
LEMMA StartIInv == ASSUME IInv, NEW x \in Stream, Start(x) PROVE IInv'
<1> USE DEF IInv
<1>1. BookTypes /\ DeviceTypes
  BY TypeOKParts
<1>2. /\ stream' \in [Stream -> StreamState]
      /\ \A y \in Stream : /\ stream'[y].ops = stream[y].ops
                           /\ stream'[y].done = stream[y].done
                           /\ stream'[y].wait = stream[y].wait
      /\ \A y \in Stream : y # x => stream'[y].busy = stream[y].busy
  BY <1>1, StartEffect
<1>3. ~Drained(x) /\ stream[Other(x)].done >= NextOp(x).after
      /\ UNCHANGED <<bookkeeping, ready, join, epoch>>
  BY DEF Start
<1>4. /\ copies' = copies /\ consumers' = consumers
      /\ stream'["copy"].done = stream["copy"].done
      /\ stream'["caller"].done = stream["caller"].done
      /\ stream'["caller"].wait = stream["caller"].wait
  <2>1. "copy" \in Stream /\ "caller" \in Stream
    BY DEF Stream
  <2> QED
    BY <1>2, <2>1 DEF copies, consumers
<1>5. ASSUME NEW y \in Stream
      PROVE  /\ Point(y)' = Point(y) /\ (Drained(y)' <=> Drained(y))
             /\ Pending(y)' = Pending(y) /\ NextOp(y)' = NextOp(y)
             /\ Other(y) \in Stream
  <2>1. stream'[y].ops = stream[y].ops /\ stream'[y].done = stream[y].done
    BY <1>2
  <2>2. Other(y) \in Stream
    BY DEF Other, Stream
  <2> QED
    BY <2>1, <2>2 DEF Point, Drained, Pending, NextOp
<1>6. \/ buffer' = buffer
      \/ /\ 1 \in DOMAIN copies /\ (\A q \in DOMAIN consumers : ~After(1, q))
         /\ buffer' = [buffer EXCEPT ![copies[1].slot] = Mixed]
  <2>1. CASE x = "copy"
    <3>1. 1 \in DOMAIN copies /\ NextOp(x) = copies[1]
      BY <1>1, <1>3, <2>1, FirstOp DEF copies
    <3>2. copies[1].after \in Nat
      BY <1>1, <3>1, Streams DEF Op
    <3>3. \A q \in DOMAIN consumers : ~After(1, q)
      BY <1>1, <1>3, <2>1, <3>1, <3>2, Streams DEF After
    <3> QED
      BY <2>1, <3>1, <3>3 DEF Start
  <2>2. CASE x # "copy"
    BY <2>2 DEF Start
  <2> QED
    BY <2>1, <2>2
<1>7. BookTypes'
  BY <1>1, <1>3 DEF BookTypes, bookkeeping
<1>8. DeviceTypes'
  <2>1. buffer' \in [Slot -> RecordsOf \cup {Mixed}]
    BY <1>1, <1>6 DEF DeviceTypes
  <2>2. "copy" \in Stream
    BY DEF Stream
  <2>3. \A y \in Stream : /\ Point(y)' \in 0 .. MaxSubmitted[y]
                          /\ stream'[y].wait \in 0 .. Point(Other(y))'
    <3>1. TAKE y \in Stream
    <3>2. Other(y) \in Stream /\ Point(Other(y))' = Point(Other(y))
      BY <1>5
    <3> QED
      BY <1>1, <1>2, <1>5, <3>2 DEF DeviceTypes
  <2> QED
    BY <1>1, <1>2, <1>3, <1>5, <2>1, <2>2, <2>3 DEF DeviceTypes
<1>9. BusyWithFirst'
  <2>1. SUFFICES ASSUME NEW y \in Stream, stream'[y].busy
                 PROVE  ~Drained(y)' /\ stream'[Other(y)].done >= NextOp(y)'.after
    BY DEF BusyWithFirst
  <2>2. ~Drained(y) /\ stream[Other(y)].done >= NextOp(y).after
    BY <1>2, <1>3, <2>1 DEF BusyWithFirst
  <2> QED
    BY <1>2, <1>5, <2>2
<1>10. JoinOK' /\ LeaseOK'
  BY <1>1, <1>3, <1>5, Streams DEF JoinOK, JoinKnows, LeaseOK, bookkeeping
<1>11. SourcesOutliveCopies'
  BY <1>1, <1>3, <1>5, Streams DEF SourcesOutliveCopies, bookkeeping
<1>12. ASSUME NEW i \in Slot, NEW d, NEW n, Arrives(i, d, n) PROVE Arrives(i, d, n)'
  <2>1. CASE buffer[i] = d /\ \A p \in DOMAIN copies : copies[p].slot # i
    <3>1. buffer'[i] = buffer[i]
      BY <1>1, <1>6, <2>1 DEF DeviceTypes
    <3> QED
      BY <1>4, <2>1, <3>1 DEF Arrives
  <2>2. CASE ~(buffer[i] = d /\ \A p \in DOMAIN copies : copies[p].slot # i)
    BY <1>4, <1>12, <2>2 DEF Arrives
  <2> QED
    BY <2>1, <2>2
<1>13. SlotsArrive'
  BY <1>3, <1>4, <1>12 DEF SlotsArrive, bookkeeping, Records
<1>14. ASSUME NEW q \in DOMAIN consumers PROVE Served(q)'
  <2> DEFINE k == consumers[q]
  <2>1. Served(q) /\ \A p : After(p, q)' <=> After(p, q)
    BY <1>4 DEF ConsumersServed, After
  <2>2. k.slot \in Slot
    BY <1>1, Streams DEF Op
  <2>3. CASE buffer[k.slot] = k.data /\ \A p \in DOMAIN copies : copies[p].slot = k.slot => After(p, q)
    <3>1. buffer'[k.slot] = buffer[k.slot]
      BY <1>1, <1>6, <2>2, <2>3 DEF DeviceTypes
    <3> QED
      BY <1>4, <2>1, <2>3, <3>1 DEF Served
  <2>4. CASE ~(buffer[k.slot] = k.data /\ \A p \in DOMAIN copies : copies[p].slot = k.slot => After(p, q))
    BY <1>4, <2>1, <2>4 DEF Served
  <2> QED
    BY <2>3, <2>4
<1>15. ConsumersServed'
  BY <1>4, <1>14 DEF ConsumersServed
<1> QED
  BY <1>7, <1>8, <1>9, <1>10, <1>11, <1>13, <1>15, TypeOKParts

(* The completion of a consumer only shortens the caller's stream.         *)
LEMMA CompleteConsumerIInv == ASSUME IInv, Complete("caller") PROVE IInv'
<1> USE DEF IInv
<1>1. BookTypes /\ DeviceTypes
  BY TypeOKParts
<1>2. /\ stream["caller"].busy /\ buffer' = buffer
      /\ UNCHANGED <<bookkeeping, ready, join, epoch>>
  BY DEF Complete
<1>3. ~Drained("caller") /\ 1 \in DOMAIN consumers
  BY <1>1, <1>2, RunningConsumer
<1>4. /\ stream' \in [Stream -> StreamState]
      /\ stream'["copy"] = stream["copy"]
      /\ stream'["caller"].done = stream["caller"].done + 1
      /\ stream'["caller"].wait = stream["caller"].wait /\ ~stream'["caller"].busy
      /\ Len(consumers') = Len(consumers) - 1
      /\ DOMAIN consumers' = 1 .. Len(consumers) - 1
      /\ \A q \in DOMAIN consumers' : consumers'[q] = consumers[q + 1]
  BY <1>1, <1>3, CompleteEffect, Streams DEF consumers
<1>5. copies' = copies /\ DOMAIN consumers = 1 .. Len(consumers) /\ Len(consumers) \in Nat
      /\ stream["caller"].done \in Nat /\ stream["copy"].done \in Nat
  BY <1>1, <1>4, Streams DEF copies
<1>6. Point("caller")' = Point("caller") /\ Point("copy")' = Point("copy")
  <2>1. /\ Point("caller") = stream["caller"].done + Len(consumers)
        /\ Point("copy") = stream["copy"].done + Len(copies)
        /\ Point("caller")' = stream'["caller"].done + Len(consumers')
        /\ Point("copy")' = stream'["copy"].done + Len(copies')
    BY DEF Point, consumers, copies
  <2>2. Len(consumers) \in Nat /\ Len(copies) \in Nat
    BY <1>1, Streams
  <2> QED
    BY <1>4, <1>5, <2>1, <2>2
<1>7. Drained("copy")' <=> Drained("copy")
  BY <1>4 DEF Drained
<1>8. BookTypes'
  BY <1>1, <1>2 DEF BookTypes, bookkeeping
<1>9. DeviceTypes'
  <2>1. \A y \in Stream : y = "copy" \/ y = "caller"
    BY DEF Stream
  <2> QED
    BY <1>1, <1>2, <1>4, <1>6, <2>1, Streams, SMTT(40) DEF DeviceTypes
<1>10. BusyWithFirst'
  <2>1. NextOp("copy")' = NextOp("copy")
    BY <1>4 DEF NextOp
  <2>2. stream["copy"].busy => NextOp("copy").after \in Nat
    <3>1. SUFFICES ASSUME stream["copy"].busy PROVE NextOp("copy").after \in Nat
      OBVIOUS
    <3>2. 1 \in DOMAIN copies /\ NextOp("copy") = copies[1]
      BY <1>1, <3>1, RunningCopy
    <3> QED
      BY <1>1, <3>2, Streams DEF Op
  <2>3. stream'["copy"].busy => /\ ~Drained("copy")'
                                /\ stream'["caller"].done >= NextOp("copy")'.after
    BY <1>1, <1>4, <1>5, <1>7, <2>1, <2>2, Streams DEF BusyWithFirst
  <2>4. \A y \in Stream : y = "copy" \/ y = "caller"
    BY DEF Stream
  <2> QED
    BY <1>1, <1>4, <2>3, <2>4, Streams DEF BusyWithFirst
<1>11. JoinOK' /\ LeaseOK'
  <2>1. ~Drained("caller") /\ "caller" \in Stream
    BY <1>3 DEF Stream
  <2> QED
    BY <1>2, <1>7, <2>1 DEF JoinOK, JoinKnows, LeaseOK, bookkeeping
<1>12. SourcesOutliveCopies'
  BY <1>2, <1>4 DEF SourcesOutliveCopies, Pending, bookkeeping
<1>13. \A i, d, n : Arrives(i, d, n) <=> Arrives(i, d, n)'
  BY <1>2, <1>4, <1>5 DEF Arrives
<1>14. SlotsArrive'
  BY <1>2, <1>4, <1>13 DEF SlotsArrive, bookkeeping, Records
<1>15. ASSUME NEW q \in DOMAIN consumers' PROVE Served(q)'
  <2>1. q + 1 \in DOMAIN consumers /\ consumers'[q] = consumers[q + 1] /\ q \in Nat
    BY <1>4, <1>5
  <2>2. ASSUME NEW p \in DOMAIN copies PROVE After(p, q)' <=> After(p, q + 1)
    <3>1. copies[p].after \in Nat
      BY <1>1, Streams DEF Op
    <3> QED
      BY <1>4, <1>5, <2>1, <3>1, SMTT(40) DEF After
  <2>3. Served(q + 1)
    BY <2>1 DEF ConsumersServed
  <2>4. CASE /\ buffer[consumers[q + 1].slot] = consumers[q + 1].data
             /\ \A p \in DOMAIN copies : copies[p].slot = consumers[q + 1].slot => After(p, q + 1)
    BY <1>2, <1>5, <2>1, <2>2, <2>4 DEF Served
  <2>5. ASSUME NEW p \in DOMAIN copies,
               copies[p].slot = consumers[q + 1].slot, copies[p].data = consumers[q + 1].data,
               copies[p].whole, stream["copy"].done + p <= consumers[q + 1].after,
               \A r \in DOMAIN copies :
                  r > p /\ copies[r].slot = consumers[q + 1].slot => After(r, q + 1)
        PROVE  Served(q)'
    BY <1>4, <1>5, <2>1, <2>2, <2>5 DEF Served
  <2> QED
    BY <2>3, <2>4, <2>5 DEF Served
<1>16. ConsumersServed'
  BY <1>15 DEF ConsumersServed
<1> QED
  BY <1>8, <1>9, <1>10, <1>11, <1>12, <1>14, <1>16, TypeOKParts

(* The completion of a copy: its slot now holds what it brought, and the   *)
(* copies behind it move up.                                               *)
LEMMA CompleteCopyIInv == ASSUME IInv, Complete("copy") PROVE IInv'
<1> USE DEF IInv
<1> DEFINE head == copies[1]
<1>1. BookTypes /\ DeviceTypes
  BY TypeOKParts
<1>2. stream["copy"].busy /\ UNCHANGED <<bookkeeping, ready, join, epoch>>
  BY DEF Complete
<1>3. /\ ~Drained("copy") /\ 1 \in DOMAIN copies /\ NextOp("copy") = head
      /\ \A q \in DOMAIN consumers : ~After(1, q)
  BY <1>1, <1>2, RunningCopy
<1>4. /\ stream' \in [Stream -> StreamState]
      /\ stream'["caller"] = stream["caller"]
      /\ stream'["copy"].done = stream["copy"].done + 1
      /\ stream'["copy"].wait = stream["copy"].wait /\ ~stream'["copy"].busy
      /\ Len(copies') = Len(copies) - 1
      /\ DOMAIN copies' = 1 .. Len(copies) - 1
      /\ \A p \in DOMAIN copies' : copies'[p] = copies[p + 1]
  BY <1>1, <1>3, CompleteEffect, Streams DEF copies
<1>5. consumers' = consumers /\ DOMAIN copies = 1 .. Len(copies) /\ Len(copies) \in Nat
      /\ stream["caller"].done \in Nat /\ stream["copy"].done \in Nat
  BY <1>1, <1>4, Streams DEF consumers
<1>6. Point("caller")' = Point("caller") /\ Point("copy")' = Point("copy")
  <2>1. /\ Point("caller") = stream["caller"].done + Len(consumers)
        /\ Point("copy") = stream["copy"].done + Len(copies)
        /\ Point("caller")' = stream'["caller"].done + Len(consumers')
        /\ Point("copy")' = stream'["copy"].done + Len(copies')
    BY DEF Point, consumers, copies
  <2>2. Len(consumers) \in Nat /\ Len(copies) \in Nat
    BY <1>1, Streams
  <2> QED
    BY <1>4, <1>5, <2>1, <2>2
<1>7. Drained("caller")' <=> Drained("caller")
  BY <1>4 DEF Drained
<1>8. head \in Op
  BY <1>1, <1>3, Streams
<1>9. /\ buffer' \in [Slot -> RecordsOf \cup {Mixed}]
      /\ head.whole => buffer'[head.slot] = head.data
      /\ \A i \in Slot : i # head.slot => buffer'[i] = buffer[i]
  <2>1. buffer' = IF head.whole THEN [buffer EXCEPT ![head.slot] = head.data] ELSE buffer
    BY <1>3 DEF Complete
  <2>2. head.slot \in Slot /\ head.data \in RecordsOf
    BY <1>8 DEF Op
  <2> HIDE DEF head
  <2>3. buffer \in [Slot -> RecordsOf \cup {Mixed}]
    BY <1>1 DEF DeviceTypes
  <2> QED
    BY <2>1, <2>2, <2>3
<1>10. BookTypes'
  BY <1>1, <1>2 DEF BookTypes, bookkeeping
<1>11. DeviceTypes'
  <2>1. \A y \in Stream : y = "copy" \/ y = "caller"
    BY DEF Stream
  <2> QED
    BY <1>1, <1>2, <1>4, <1>6, <1>9, <2>1, Streams, SMTT(40) DEF DeviceTypes
<1>12. BusyWithFirst'
  <2>1. NextOp("caller")' = NextOp("caller")
    BY <1>4 DEF NextOp
  <2>2. stream["caller"].busy => NextOp("caller").after \in Nat
    <3>1. SUFFICES ASSUME stream["caller"].busy PROVE NextOp("caller").after \in Nat
      OBVIOUS
    <3>2. 1 \in DOMAIN consumers /\ NextOp("caller") = consumers[1]
      BY <1>1, <3>1, RunningConsumer
    <3> QED
      BY <1>1, <3>2, Streams DEF Op
  <2>3. stream'["caller"].busy => /\ ~Drained("caller")'
                                  /\ stream'["copy"].done >= NextOp("caller")'.after
    BY <1>1, <1>4, <1>5, <1>7, <2>1, <2>2, Streams DEF BusyWithFirst
  <2>4. \A y \in Stream : y = "copy" \/ y = "caller"
    BY DEF Stream
  <2> QED
    BY <1>1, <1>4, <2>3, <2>4, Streams DEF BusyWithFirst
<1>13. JoinOK' /\ LeaseOK'
  <2>1. ~Drained("copy") /\ "copy" \in Stream
    BY <1>3 DEF Stream
  <2> QED
    BY <1>2, <1>7, <2>1 DEF JoinOK, JoinKnows, LeaseOK, bookkeeping
<1>14. SourcesOutliveCopies'
  <2>1. ASSUME NEW op \in Pending("copy")' PROVE op \in Pending("copy")
    <3>1. PICK p \in DOMAIN copies' : op = copies'[p]
      BY DEF Pending, Range, copies
    <3>2. p + 1 \in DOMAIN copies /\ op = copies[p + 1]
      BY <1>4, <1>5, <3>1
    <3> QED
      BY <3>2 DEF Pending, Range, copies
  <2> QED
    BY <1>2, <2>1 DEF SourcesOutliveCopies, bookkeeping
<1>15. \A p \in DOMAIN copies' : /\ p + 1 \in DOMAIN copies /\ p + 1 > 1
                                 /\ copies'[p] = copies[p + 1]
  BY <1>4, <1>5
<1>16. ASSUME NEW p \in DOMAIN copies, p > 1
       PROVE  /\ p - 1 \in DOMAIN copies' /\ copies'[p - 1] = copies[p]
              /\ stream'["copy"].done + (p - 1) = stream["copy"].done + p
  <2>1. p \in Nat /\ p <= Len(copies) /\ (p - 1) + 1 = p
    BY <1>5
  <2>2. p - 1 \in DOMAIN copies' /\ (p - 1) + 1 = p
    BY <1>4, <1>5, <1>16, <2>1
  <2>3. copies'[p - 1] = copies[(p - 1) + 1]
    BY <1>4, <2>2
  <2>4. stream'["copy"].done + (p - 1) = stream["copy"].done + p
    BY <1>4, <1>5, <2>1
  <2>5. copies[(p - 1) + 1] = copies[p]
    BY <2>1
  <2> QED
    BY <2>2, <2>3, <2>4, <2>5
<1>17. ASSUME NEW i \in Slot, NEW d, NEW n, Arrives(i, d, n) PROVE Arrives(i, d, n)'
  <2>1. CASE buffer[i] = d /\ \A p \in DOMAIN copies : copies[p].slot # i
    <3>1. buffer'[i] = d
      BY <1>3, <1>9, <2>1
    <3> QED
      BY <1>15, <2>1, <3>1 DEF Arrives
  <2>2. ASSUME NEW p \in DOMAIN copies,
               copies[p].slot = i, copies[p].data = d, copies[p].whole,
               stream["copy"].done + p <= n,
               \A r \in DOMAIN copies : r > p => copies[r].slot # i
        PROVE  Arrives(i, d, n)'
    <3>1. CASE p = 1
      <4>1. buffer'[i] = d
        BY <1>9, <2>2, <3>1
      <4>2. \A r \in DOMAIN copies' : copies'[r].slot # i
        BY <1>15, <2>2, <3>1
      <4> QED
        BY <4>1, <4>2 DEF Arrives
    <3>2. CASE p > 1
      <4> DEFINE m == p - 1
      <4>1. m \in DOMAIN copies' /\ copies'[m] = copies[p] /\ stream'["copy"].done + m <= n
        BY <1>16, <2>2, <3>2
      <4>2. \A r \in DOMAIN copies' : r > m => copies'[r].slot # i
        BY <1>4, <1>5, <2>2
      <4> HIDE DEF m
      <4> QED
        BY <2>2, <4>1, <4>2 DEF Arrives
    <3> QED
      BY <1>5, <3>1, <3>2
  <2> QED
    BY <1>17, <2>1, <2>2 DEF Arrives
<1>18. SlotsArrive'
  BY <1>2, <1>4, <1>17 DEF SlotsArrive, bookkeeping, Records
<1>19. ASSUME NEW q \in DOMAIN consumers PROVE Served(q)'
  <2> DEFINE k == consumers[q]
  <2>1. Served(q) /\ k.slot \in Slot /\ ~After(1, q)
    BY <1>1, <1>3, Streams DEF ConsumersServed, Op
  <2>2. \A p \in DOMAIN copies' : After(p, q)' <=> After(p + 1, q)
    BY <1>4, <1>15 DEF After
  <2>3. CASE /\ buffer[k.slot] = k.data
             /\ \A p \in DOMAIN copies : copies[p].slot = k.slot => After(p, q)
    <3>1. head.slot # k.slot
      BY <1>3, <2>1, <2>3
    <3>2. buffer'[k.slot] = k.data
      BY <1>9, <2>1, <2>3, <3>1
    <3>3. \A p \in DOMAIN copies' : copies'[p].slot = k.slot => After(p, q)'
      BY <1>15, <2>2, <2>3
    <3> QED
      BY <1>5, <3>2, <3>3 DEF Served
  <2>4. ASSUME NEW p \in DOMAIN copies,
               copies[p].slot = k.slot, copies[p].data = k.data, copies[p].whole,
               stream["copy"].done + p <= k.after,
               \A r \in DOMAIN copies : r > p /\ copies[r].slot = k.slot => After(r, q)
        PROVE  Served(q)'
    <3>1. CASE p = 1
      <4>1. buffer'[k.slot] = k.data
        BY <1>9, <2>4, <3>1
      <4>2. \A r \in DOMAIN copies' : copies'[r].slot = k.slot => After(r, q)'
        BY <1>15, <2>2, <2>4, <3>1
      <4> QED
        BY <1>5, <4>1, <4>2 DEF Served
    <3>2. CASE p > 1
      <4> DEFINE m == p - 1
      <4>1. m \in DOMAIN copies' /\ copies'[m] = copies[p] /\ stream'["copy"].done + m <= k.after
        BY <1>16, <2>4, <3>2
      <4>2. \A r \in DOMAIN copies' : r > m /\ copies'[r].slot = k.slot => After(r, q)'
        <5>1. TAKE r \in DOMAIN copies'
        <5>2. HAVE r > m /\ copies'[r].slot = k.slot
        <5>3. r + 1 \in DOMAIN copies /\ r + 1 > p /\ copies[r + 1].slot = k.slot
          BY <1>4, <1>5, <1>15, <5>2
        <5> QED
          BY <2>2, <2>4, <5>3
      <4> HIDE DEF m
      <4> QED
        BY <1>5, <2>4, <4>1, <4>2 DEF Served
    <3> QED
      BY <1>5, <3>1, <3>2
  <2> QED
    BY <2>1, <2>3, <2>4 DEF Served
<1>20. ConsumersServed'
  BY <1>5, <1>19 DEF ConsumersServed
<1> QED
  BY <1>10, <1>11, <1>12, <1>13, <1>14, <1>18, <1>20, TypeOKParts

-----------------------------------------------------------------------------
(* The steps of the caller. *)

(* A step that submits nothing and reads nothing leaves the device as it   *)
(* is.                                                                     *)
LEMMA SameDevice ==
  ASSUME DeviceTypes, BusyWithFirst, ConsumersServed, UNCHANGED device
  PROVE  /\ DeviceTypes' /\ BusyWithFirst' /\ ConsumersServed'
         /\ Pending("copy")' = Pending("copy")
         /\ \A x : Drained(x)' <=> Drained(x)
         /\ \A i, d, n : Arrives(i, d, n)' <=> Arrives(i, d, n)
         /\ stream' = stream /\ ready' = ready
<1>1. stream' = stream /\ ready' = ready /\ buffer' = buffer
  BY DEF device
<1>2. DeviceTypes'
  BY <1>1 DEF DeviceTypes, Point
<1>3. BusyWithFirst' /\ \A x : Drained(x)' <=> Drained(x)
  BY <1>1 DEF BusyWithFirst, Drained, NextOp
<1>4. Pending("copy")' = Pending("copy")
  BY <1>1 DEF Pending
<1>5. copies' = copies /\ consumers' = consumers
  BY <1>1 DEF copies, consumers
<1>6. ConsumersServed'
  BY <1>1, <1>5 DEF ConsumersServed, Served, After
<1>7. \A i, d, n : Arrives(i, d, n)' <=> Arrives(i, d, n)
  BY <1>1, <1>5 DEF Arrives
<1> QED
  BY <1>1, <1>2, <1>3, <1>4, <1>6, <1>7

(* A step that neither touches the device nor the slots nor the lease.     *)
LEMMA QuietStep ==
  ASSUME IInv, UNCHANGED <<device, slot, sources, epoch, active, closed, fenced>>,
         poisoned' \in BOOLEAN, JoinOK'
  PROVE  IInv'
<1> USE DEF IInv
<1>1. BookTypes /\ DeviceTypes
  BY TypeOKParts
<1>2. /\ DeviceTypes' /\ BusyWithFirst' /\ ConsumersServed'
      /\ Pending("copy")' = Pending("copy")
      /\ \A x : Drained(x)' <=> Drained(x)
      /\ \A i, d, n : Arrives(i, d, n)' <=> Arrives(i, d, n)
      /\ stream' = stream /\ ready' = ready
  BY <1>1, SameDevice
<1>3. BookTypes'
  BY <1>1 DEF BookTypes
<1>4. LeaseOK' /\ SourcesOutliveCopies'
  BY <1>2 DEF LeaseOK, SourcesOutliveCopies
<1>5. SlotsArrive'
  BY <1>2 DEF SlotsArrive, Records
<1> QED
  BY <1>2, <1>3, <1>4, <1>5, TypeOKParts

(* A step that does nothing at all. *)
LEMMA StutterIInv == ASSUME IInv, UNCHANGED vars PROVE IInv'
<1> USE DEF IInv
<1>1. UNCHANGED <<device, slot, sources, epoch, active, closed, fenced, poisoned, join>>
  BY DEF vars, bookkeeping
<1>2. \A x : Drained(x)' <=> Drained(x)
  BY <1>1 DEF device, Drained
<1>3. JoinOK' /\ poisoned' \in BOOLEAN
  BY <1>1, <1>2 DEF JoinOK, JoinKnows, ShapeOK
<1> QED
  BY <1>1, <1>3, QuietStep

(* Reset, return and close begin with a join of both streams.              *)
LEMMA BeginJoinIInv ==
  ASSUME IInv, NEW purpose \in {"reset", "return", "close"}, BeginJoin(purpose),
         active # None, purpose = "reset" => ~poisoned /\ epoch < MaxEpoch
  PROVE  IInv'
<1> USE DEF IInv
<1>1. /\ join' = [purpose |-> purpose, left |-> <<"caller", "copy">>, failed |-> FALSE]
      /\ UNCHANGED <<bookkeeping, device, epoch>>
  BY DEF BeginJoin
<1>2. <<"caller", "copy">> \in Seq(Stream)
  BY DEF Stream
<1>3. "caller" \in Range(<<"caller", "copy">>) /\ "copy" \in Range(<<"caller", "copy">>)
  <2> DEFINE l == <<"caller", "copy">>
  <2>1. 1 \in DOMAIN l /\ 2 \in DOMAIN l /\ l[1] = "caller" /\ l[2] = "copy"
    OBVIOUS
  <2> HIDE DEF l
  <2>2. "caller" \in Range(l) /\ "copy" \in Range(l)
    BY <2>1 DEF Range
  <2> QED
    BY <2>2 DEF l
<1>4. JoinOK'
  BY <1>1, <1>2, <1>3 DEF JoinOK, JoinKnows, JoinState, bookkeeping
<1> QED
  BY <1>1, <1>4, QuietStep DEF bookkeeping, ShapeOK

(* One stream has been asked. *)
LEMMA LeftAfterOne ==
  ASSUME NEW l \in {<<"caller", "copy">>, <<"copy">>, <<>>}, l # <<>>
  PROVE  /\ Tail(l) \in {<<"copy">>, <<>>} /\ Tail(l) \in Seq(Stream)
         /\ Head(l) \in Stream
         /\ \A x \in Stream : x \notin Range(Tail(l)) => x = Head(l) \/ x \notin Range(l)
<1>1. CASE l = <<"caller", "copy">>
  <2>1. Head(l) = "caller" /\ Tail(l) = <<"copy">>
    BY <1>1
  <2>2. "copy" \in Range(Tail(l))
    BY <2>1 DEF Range
  <2>3. Tail(l) \in Seq(Stream)
    BY <2>1 DEF Stream
  <2> QED
    BY <2>1, <2>2, <2>3 DEF Stream
<1>2. CASE l = <<"copy">>
  <2>1. Head(l) = "copy" /\ Tail(l) = <<>>
    BY <1>2
  <2>2. "caller" \notin Range(l)
    <3>1. DOMAIN l = {1} /\ l[1] = "copy"
      BY <1>2
    <3> QED
      BY <3>1 DEF Range
  <2>3. Tail(l) \in Seq(Stream)
    BY <2>1 DEF Stream
  <2> QED
    BY <2>1, <2>2, <2>3 DEF Stream
<1> QED
  BY <1>1, <1>2

(* A synchronise returns from an empty stream, or fails and says nothing.  *)
LEMMA SynchronizeIInv == ASSUME IInv, Synchronize \/ SynchronizeFails PROVE IInv'
<1> USE DEF IInv
<1>1. /\ join # None /\ join.left # <<>>
      /\ UNCHANGED <<bookkeeping, device, epoch>>
      /\ \/ Drained(Head(join.left)) /\ join' = [join EXCEPT !.left = Tail(@)]
         \/ join' = [join EXCEPT !.left = Tail(@), !.failed = TRUE]
  BY DEF Synchronize, SynchronizeFails
<1>2. join \in JoinState /\ join.left \in {<<"caller", "copy">>, <<"copy">>, <<>>}
  BY <1>1 DEF JoinOK
<1> DEFINE l == join.left
<1>3. /\ Tail(l) \in {<<"copy">>, <<>>} /\ Tail(l) \in Seq(Stream)
      /\ \A x \in Stream : x \notin Range(Tail(l)) => x = Head(l) \/ x \notin Range(l)
  BY <1>1, <1>2, LeftAfterOne
<1>4. /\ join'.left = Tail(l) /\ join'.purpose = join.purpose
      /\ join' \in JoinState
      /\ ~join'.failed => ~join.failed /\ Drained(Head(l))
  BY <1>1, <1>2, <1>3 DEF JoinState
<1>5. \A x : Drained(x)' <=> Drained(x)
  BY <1>1 DEF device, Drained
<1>6. "caller" \in Stream /\ "copy" \in Stream
  BY DEF Stream
<1>7. JoinKnows'
  <2>1. SUFFICES ASSUME ~join'.failed
                 PROVE  /\ "caller" \notin Range(Tail(l)) => Drained("caller")
                        /\ "copy" \notin Range(Tail(l)) => Drained("copy")
    BY <1>4, <1>5 DEF JoinKnows
  <2>2. /\ "caller" \notin Range(l) => Drained("caller")
        /\ "copy" \notin Range(l) => Drained("copy")
    BY <1>1, <1>4, <2>1 DEF JoinOK, JoinKnows
  <2> QED
    BY <1>3, <1>4, <1>6, <2>1, <2>2
<1>8. JoinOK'
  <2>1. active' # None /\ (join'.purpose = "reset" => ~poisoned' /\ epoch' < MaxEpoch)
    BY <1>1, <1>4 DEF JoinOK, bookkeeping
  <2>2. join'.left \in {<<"caller", "copy">>, <<"copy">>, <<>>}
    BY <1>3, <1>4
  <2>3. join' \in JoinState
    BY <1>4
  <2> QED
    BY <1>7, <2>1, <2>2, <2>3 DEF JoinOK
<1> QED
  BY <1>1, <1>8, QuietStep DEF bookkeeping, ShapeOK

(* A join that was not confirmed poisons the storage.                      *)
LEMMA JoinFailsIInv ==
  ASSUME IInv, NEW purpose \in {"reset", "return", "close"}, JoinFails(purpose)
  PROVE  IInv'
<1> USE DEF IInv
<1>1. /\ join' = None /\ poisoned' = TRUE /\ active # None
      /\ active' = IF purpose = "return" THEN [active EXCEPT !.closed = TRUE] ELSE active
      /\ UNCHANGED <<slot, sources, closed, fenced, device, epoch>>
  BY DEF JoinFails, Joined, JoinOK
<1>2. BookTypes /\ DeviceTypes
  BY TypeOKParts
<1>3. /\ DeviceTypes' /\ BusyWithFirst' /\ ConsumersServed'
      /\ Pending("copy")' = Pending("copy")
      /\ \A x : Drained(x)' <=> Drained(x)
      /\ \A i, d, n : Arrives(i, d, n)' <=> Arrives(i, d, n)
      /\ stream' = stream /\ ready' = ready
  BY <1>1, <1>2, SameDevice
<1>4. /\ active' \in LeaseState /\ active'.interrupted = active.interrupted
      /\ active'.cycle = active.cycle
  BY <1>1, <1>2 DEF BookTypes, LeaseState
<1>5. active' # None
  BY <1>4, NoneAssumption
<1>6. BookTypes' /\ JoinOK'
  BY <1>1, <1>2, <1>4 DEF BookTypes, JoinOK
<1>7. LeaseOK' /\ SourcesOutliveCopies'
  BY <1>1, <1>3, <1>4, <1>5 DEF LeaseOK, SourcesOutliveCopies
<1>8. SlotsArrive'
  BY <1>1, <1>3, <1>4 DEF SlotsArrive, Records
<1> QED
  BY <1>3, <1>6, <1>7, <1>8, TypeOKParts

AllDrained == \A x \in Stream : Drained(x)

(* A join that was confirmed has seen both streams empty. *)
LEMMA JoinedIsDrained ==
  ASSUME IInv, NEW purpose, Joined(purpose), ~join.failed
  PROVE  AllDrained /\ active # None
<1>1. join # None /\ join.left = <<>>
  BY DEF Joined
<1>2. Range(join.left) = {}
  BY <1>1 DEF Range
<1>3. Drained("caller") /\ Drained("copy") /\ active # None
  BY <1>1, <1>2 DEF IInv, JoinOK, JoinKnows
<1> QED
  BY <1>3 DEF AllDrained, Stream

(* With nothing under way, the device satisfies whatever is asked of it.   *)
LEMMA EmptyStreams ==
  ASSUME AllDrained, BusyWithFirst
  PROVE  /\ \A x \in Stream : ~stream[x].busy /\ Len(stream[x].ops) = 0
         /\ DOMAIN copies = {} /\ DOMAIN consumers = {} /\ Pending("copy") = {}
<1>1. Drained("copy") /\ Drained("caller")
  BY DEF AllDrained, Stream
<1>2. \A x \in Stream : ~stream[x].busy /\ Len(stream[x].ops) = 0
  BY DEF AllDrained, BusyWithFirst, Drained
<1> QED
  BY <1>1, <1>2, NoOps DEF copies, consumers

(* After a confirmed join the slots are cleared, the sources dropped and   *)
(* the points counted anew.                                                *)
LEMMA JoinedStep ==
  ASSUME IInv, AllDrained, join' = None, sources' = {}, ClearSlots, RestartPoints,
         buffer' = buffer, poisoned' = poisoned, fenced' = fenced,
         closed' \in BOOLEAN, closed' => active' = None,
         epoch' \in 0 .. MaxEpoch,
         active' # None => active' \in LeaseState /\ active'.cycle <= epoch'
  PROVE  IInv'
<1> USE DEF IInv
<1>1. BookTypes /\ DeviceTypes
  BY TypeOKParts
<1>2. /\ \A x \in Stream : ~stream[x].busy /\ Len(stream[x].ops) = 0
      /\ DOMAIN copies = {} /\ DOMAIN consumers = {} /\ Pending("copy") = {}
  BY EmptyStreams
<1>3. stream' = [x \in Stream |-> [stream[x] EXCEPT !.done = 0, !.wait = 0]]
      /\ ready' = [i \in Slot |-> 0] /\ slot' = [i \in Slot |-> Unowned]
  BY DEF RestartPoints, ClearSlots
<1>4. /\ stream' \in [Stream -> StreamState]
      /\ \A x \in Stream : /\ stream'[x].ops = stream[x].ops
                           /\ stream'[x].busy = stream[x].busy
                           /\ stream'[x].done = 0 /\ stream'[x].wait = 0
  <2>1. \A x \in Stream : stream[x] \in StreamState
    BY <1>1 DEF DeviceTypes
  <2>2. \A x \in Stream :
          /\ [stream[x] EXCEPT !.done = 0, !.wait = 0] \in StreamState
          /\ [stream[x] EXCEPT !.done = 0, !.wait = 0].ops = stream[x].ops
          /\ [stream[x] EXCEPT !.done = 0, !.wait = 0].busy = stream[x].busy
          /\ [stream[x] EXCEPT !.done = 0, !.wait = 0].done = 0
          /\ [stream[x] EXCEPT !.done = 0, !.wait = 0].wait = 0
    BY <2>1 DEF StreamState
  <2> QED
    BY <1>3, <2>2
<1>5. \A x \in Stream : /\ Point(x)' = 0 /\ Drained(x)' /\ ~stream'[x].busy
                        /\ MaxSubmitted[x] \in Nat
  BY <1>2, <1>4, StagingAssumption DEF Point, Drained, AllDrained, Stream
<1>6. DeviceTypes'
  <2>1. \A x \in Stream : Other(x) \in Stream
    BY DEF Stream, Other
  <2>2. "copy" \in Stream
    BY DEF Stream
  <2>3. \A x \in Stream : /\ Point(x)' \in 0 .. MaxSubmitted[x]
                          /\ stream'[x].wait \in 0 .. Point(Other(x))'
    BY <1>4, <1>5, <2>1
  <2>4. ready' \in [Slot -> Nat] /\ \A i \in Slot : ready'[i] \in 0 .. Point("copy")'
    <3>1. Point("copy")' = 0 /\ 0 \in 0 .. 0
      BY <1>5, <2>2
    <3> QED
      BY <1>3, <3>1
  <2>5. buffer' \in [Slot -> RecordsOf \cup {Mixed}]
    BY <1>1 DEF DeviceTypes
  <2> QED
    BY <1>4, <2>3, <2>4, <2>5 DEF DeviceTypes
<1>7. BusyWithFirst' /\ JoinOK'
  BY <1>5 DEF BusyWithFirst, JoinOK
<1>8. \A i \in Slot : slot'[i].owner = None /\ ~slot'[i].ready
  BY <1>3 DEF Unowned
<1>9. BookTypes'
  <2>1. slot' \in [Slot -> [owner : SlotIdentity \cup {None}, ready : BOOLEAN]]
    BY <1>3 DEF Unowned
  <2> QED
    BY <1>1, <1>8, <2>1 DEF BookTypes
<1>10. LeaseOK'
  BY <1>5, <1>8 DEF LeaseOK
<1>11. "copy" \in Stream /\ "caller" \in Stream
  BY DEF Stream
<1>12. SourcesOutliveCopies' /\ ConsumersServed'
  <2>1. Pending("copy")' = {} /\ DOMAIN consumers' = {}
    BY <1>2, <1>4, <1>11 DEF Pending, consumers
  <2> QED
    BY <2>1 DEF SourcesOutliveCopies, ConsumersServed
<1>13. SlotsArrive'
  BY <1>8 DEF SlotsArrive
<1> QED
  BY <1>6, <1>7, <1>9, <1>10, <1>12, <1>13, TypeOKParts

(* A reset begins the next cycle of the lease. *)
LEMMA ResetJoinedIInv == ASSUME IInv, ResetJoined PROVE IInv'
<1>1. AllDrained /\ active # None
  BY JoinedIsDrained DEF ResetJoined
<1>2. active \in LeaseState /\ active.cycle <= epoch /\ epoch \in 0 .. MaxEpoch
      /\ closed \in BOOLEAN /\ ~closed /\ epoch < MaxEpoch
  BY <1>1 DEF IInv, TypeOK, LeaseOK, ShapeOK, ResetJoined, Joined, JoinOK
<1>3. /\ active' = [active EXCEPT !.cycle = @ + 1, !.interrupted = FALSE]
      /\ epoch' = epoch + 1 /\ closed' = closed
  BY DEF ResetJoined
<1>4. epoch' \in 0 .. MaxEpoch /\ active' \in LeaseState /\ active'.cycle <= epoch'
  <2>1. active.cycle \in Nat /\ epoch \in Nat /\ MaxEpoch \in Nat
    BY <1>2, StagingAssumption DEF LeaseState
  <2>2. epoch + 1 \in 0 .. MaxEpoch /\ active.cycle + 1 \in 0 .. MaxEpoch
        /\ active.cycle + 1 <= epoch + 1
    BY <1>2, <2>1
  <2>3. active' = [borrower |-> active.borrower, cycle |-> active.cycle + 1,
                   interrupted |-> FALSE, closed |-> active.closed]
    BY <1>2, <1>3 DEF LeaseState
  <2>4. active' \in LeaseState
    BY <1>2, <2>2, <2>3 DEF LeaseState
  <2> QED
    BY <1>3, <2>2, <2>3, <2>4
<1> QED
  BY <1>1, <1>2, <1>3, <1>4, JoinedStep DEF ResetJoined

(* A return gives the lease up. *)
LEMMA ReturnJoinedIInv == ASSUME IInv, ReturnJoined PROVE IInv'
<1>1. AllDrained /\ active # None
  BY JoinedIsDrained DEF ReturnJoined
<1>2. epoch \in 0 .. MaxEpoch /\ closed \in BOOLEAN
  BY DEF IInv, TypeOK, ShapeOK
<1> QED
  BY <1>1, <1>2, JoinedStep DEF ReturnJoined

(* A close after a failed return, once a join was confirmed.               *)
LEMMA CloseJoinedIInv == ASSUME IInv, CloseJoined PROVE IInv'
<1>1. AllDrained
  BY JoinedIsDrained DEF CloseJoined
<1>2. epoch \in 0 .. MaxEpoch
  BY DEF IInv, TypeOK
<1> QED
  BY <1>1, <1>2, JoinedStep DEF CloseJoined, Dispose

(* A close without a lease finds nothing under way. *)
LEMMA CloseIInv == ASSUME IInv, Close PROVE IInv'
<1> USE DEF IInv
<1>1. /\ join' = None /\ ~closed /\ active = None /\ closed' = TRUE /\ active' = None
      /\ slot' = [i \in Slot |-> Unowned]
      /\ UNCHANGED <<poisoned, fenced, epoch, sources, device>>
  BY DEF Close, Dispose, ClearSlots
<1>2. BookTypes /\ DeviceTypes
  BY TypeOKParts
<1>3. /\ DeviceTypes' /\ BusyWithFirst' /\ ConsumersServed'
      /\ Pending("copy")' = Pending("copy")
      /\ \A x : Drained(x)' <=> Drained(x)
  BY <1>1, <1>2, SameDevice
<1>4. \A i \in Slot : slot'[i].owner = None /\ ~slot'[i].ready
  BY <1>1 DEF Unowned
<1>5. BookTypes'
  <2>1. slot' \in [Slot -> [owner : SlotIdentity \cup {None}, ready : BOOLEAN]]
    BY <1>1 DEF Unowned
  <2> QED
    BY <1>1, <1>2, <1>4, <2>1 DEF BookTypes
<1>6. JoinOK' /\ LeaseOK' /\ SourcesOutliveCopies' /\ SlotsArrive'
  BY <1>1, <1>3, <1>4 DEF JoinOK, LeaseOK, SourcesOutliveCopies, SlotsArrive
<1> QED
  BY <1>3, <1>5, <1>6, TypeOKParts

(* A lease starts over clean slots, whether or not the allocation stream   *)
(* could be waited for.                                                    *)
LEMMA LeaseIInv == ASSUME IInv, NEW b \in Borrower, Lease(b) PROVE IInv'
<1> USE DEF IInv
<1>1. PICK failed \in BOOLEAN :
        /\ active' = [borrower |-> b, cycle |-> 0, interrupted |-> FALSE, closed |-> failed]
        /\ poisoned' = failed /\ fenced' = ~failed
  BY DEF Lease
<1>2. /\ join = None /\ ~closed /\ active = None /\ epoch < MaxEpoch /\ epoch' = epoch + 1
      /\ UNCHANGED <<slot, sources, closed, device, join>>
  BY DEF Lease
<1>3. BookTypes /\ DeviceTypes
  BY TypeOKParts
<1>4. /\ DeviceTypes' /\ BusyWithFirst' /\ ConsumersServed'
      /\ Pending("copy")' = Pending("copy")
      /\ \A x : Drained(x)' <=> Drained(x)
  BY <1>2, <1>3, SameDevice
<1>5. epoch' \in 0 .. MaxEpoch /\ 0 \in 0 .. MaxEpoch /\ 0 <= epoch'
  BY <1>2, <1>3, StagingAssumption DEF BookTypes
<1>6. active' \in LeaseState /\ active'.cycle = 0
  BY <1>1, <1>5 DEF LeaseState
<1>7. active' # None
  BY <1>6, NoneAssumption
<1>8. BookTypes'
  BY <1>1, <1>2, <1>3, <1>5, <1>6 DEF BookTypes
<1>9. JoinOK' /\ LeaseOK' /\ SourcesOutliveCopies'
  BY <1>2, <1>4, <1>5, <1>6, <1>7 DEF JoinOK, LeaseOK, SourcesOutliveCopies
<1>10. SlotsArrive'
  <2>1. \A i \in Slot : slot'[i].owner = None /\ ~slot'[i].ready
    BY <1>2, <1>3 DEF LeaseOK, BookTypes
  <2> QED
    BY <2>1 DEF SlotsArrive
<1> QED
  BY <1>4, <1>8, <1>9, <1>10, TypeOKParts

(* What every call of a lease has checked. *)
LEMMA Checked ==
  ASSUME BookTypes, Check
  PROVE  /\ join = None /\ active # None /\ ~active.interrupted /\ ~closed /\ ~poisoned
         /\ active \in LeaseState
         /\ \A layer \in Layer : /\ Identity(layer) \in SlotIdentity
                                 /\ Identity(layer) # None
                                 /\ Identity(layer).layer = layer
                                 /\ SlotOf(layer) \in Slot
                                 /\ Records(layer) \in RecordsOf
<1>1. /\ join = None /\ active # None /\ ~active.interrupted /\ ~closed /\ ~poisoned
      /\ active \in LeaseState
  BY DEF Check, BookTypes
<1>2. ASSUME NEW layer \in Layer
      PROVE  /\ Identity(layer) \in SlotIdentity /\ Identity(layer).layer = layer
             /\ SlotOf(layer) \in Slot /\ Records(layer) \in RecordsOf
  BY <1>1, StagingAssumption DEF Identity, SlotIdentity, LeaseState, SlotOf, Slot, Layer,
                                 Records, RecordsOf, BookTypes
<1>3. ASSUME NEW layer \in Layer PROVE Identity(layer) # None
  BY <1>2, NoneAssumption
<1> QED
  BY <1>1, <1>2, <1>3

(* A copy is submitted behind all the consumers submitted so far: none of  *)
(* them loses what it waits for.                                           *)
LEMMA CopySubmitted ==
  ASSUME DeviceTypes, BusyWithFirst, ConsumersServed, epoch \in 0 .. MaxEpoch,
         NEW layer \in Layer, NEW whole \in BOOLEAN,
         Point("copy") < MaxSubmitted["copy"], buffer' = buffer,
         stream' = Submitted("copy", layer, Point("caller"), whole)
  PROVE  /\ stream' \in [Stream -> StreamState]
         /\ \A x \in Stream : /\ Point(x)' \in 0 .. MaxSubmitted[x]
                              /\ stream'[x].wait \in 0 .. Point(Other(x))'
         /\ Point("copy")' = Point("copy") + 1
         /\ BusyWithFirst' /\ ConsumersServed'
         /\ Pending("copy")' = Pending("copy") \cup
               {[slot |-> SlotOf(layer), data |-> Records(layer),
                 after |-> Point("caller"), whole |-> whole]}
         /\ stream'["caller"] = stream["caller"]
         /\ stream'["copy"].done = stream["copy"].done
         /\ DOMAIN copies' = 1 .. Len(copies) + 1
         /\ \A p \in DOMAIN copies : copies'[p] = copies[p]
         /\ copies'[Len(copies) + 1]
              = [slot |-> SlotOf(layer), data |-> Records(layer),
                 after |-> Point("caller"), whole |-> whole]
<1>0. PICK n \in Nat : n = Len(copies)
  BY Streams
<1> DEFINE event == Point("caller")
           op == [slot |-> SlotOf(layer), data |-> Records(layer), after |-> event,
                  whole |-> whole]
<1>1. /\ n \in Nat /\ DOMAIN copies = 1 .. n /\ event \in Nat
      /\ Len(consumers) \in Nat /\ DOMAIN consumers = 1 .. Len(consumers)
      /\ stream["copy"].done \in Nat /\ stream["caller"].done \in Nat
      /\ event = stream["caller"].done + Len(consumers)
      /\ Point("copy") = stream["copy"].done + n
      /\ "copy" \in Stream /\ "caller" \in Stream
      /\ Other("copy") = "caller" /\ Other("caller") = "copy"
  BY <1>0, Streams
<1>2. /\ stream' \in [Stream -> StreamState]
      /\ stream'["caller"] = stream["caller"]
      /\ stream'["copy"].done = stream["copy"].done
      /\ stream'["copy"].busy = stream["copy"].busy
      /\ stream'["copy"].wait = event
      /\ Len(copies') = n + 1
      /\ DOMAIN copies' = 1 .. n + 1
      /\ \A p \in DOMAIN copies : copies'[p] = copies[p]
      /\ copies'[n + 1] = op
      /\ copies' # <<>>
  BY <1>0, <1>1, SubmitEffect, SMTT(40) DEF copies
<1> HIDE DEF op, event
<1>3. consumers' = consumers
  BY <1>2 DEF consumers
<1>4. Point("copy")' = Point("copy") + 1 /\ Point("caller")' = event
  <2>1. /\ Point("copy")' = stream'["copy"].done + Len(copies')
        /\ Point("caller")' = stream'["caller"].done + Len(consumers')
    BY DEF Point, copies, consumers
  <2>2. Point("copy")' = Point("copy") + 1
    <3>1. stream'["copy"].done = stream["copy"].done /\ Len(copies') = n + 1
      BY <1>2
    <3>2. Point("copy") = stream["copy"].done + n /\ stream["copy"].done \in Nat
      BY <1>1
    <3>3. Point("copy")' = stream["copy"].done + (n + 1)
      BY <2>1, <3>1
    <3> QED
      BY <3>2, <3>3
  <2>3. Point("caller")' = event
    BY <1>1, <1>2, <1>3, <2>1
  <2> QED
    BY <2>2, <2>3
<1>5. \A x \in Stream : x = "copy" \/ x = "caller"
  BY DEF Stream
<1>6. \A x \in Stream : /\ Point(x)' \in 0 .. MaxSubmitted[x]
                        /\ stream'[x].wait \in 0 .. Point(Other(x))'
  <2>1. /\ MaxSubmitted["copy"] \in Nat /\ event \in 0 .. MaxSubmitted["caller"]
        /\ stream["caller"].wait \in 0 .. Point("copy")
    BY <1>1, StagingAssumption DEF DeviceTypes, event
  <2>2. Point("copy")' \in 0 .. MaxSubmitted["copy"] /\ Point("caller")' \in 0 .. MaxSubmitted["caller"]
    <3>1. Point("copy") \in Nat /\ Point("copy")' = Point("copy") + 1
      BY <1>1, <1>4
    <3>2. Point("copy")' \in 0 .. MaxSubmitted["copy"]
      BY <2>1, <3>1
    <3> QED
      BY <1>4, <2>1, <3>2
  <2>3. stream'["copy"].wait \in 0 .. Point("caller")' /\ stream'["caller"].wait \in 0 .. Point("copy")'
    <3>1. Point("copy") \in Nat /\ Point("copy")' = Point("copy") + 1
      BY <1>1, <1>4
    <3>2. stream'["caller"].wait = stream["caller"].wait /\ stream'["copy"].wait = event
      BY <1>2
    <3>3. stream'["caller"].wait \in 0 .. Point("copy")'
      BY <2>1, <3>1, <3>2
    <3>4. stream'["copy"].wait \in 0 .. Point("caller")'
      <4>1. event \in Nat /\ Point("caller")' = event
        BY <1>1, <1>4
      <4> QED
        BY <3>2, <4>1
    <3> QED
      BY <3>3, <3>4
  <2> QED
    BY <1>1, <1>5, <2>2, <2>3
<1>7. BusyWithFirst'
  <2>1. stream'["caller"].busy =>
          ~Drained("caller")' /\ stream'["copy"].done >= NextOp("caller")'.after
    BY <1>1, <1>2 DEF BusyWithFirst, Drained, NextOp
  <2>2. stream'["copy"].busy =>
          ~Drained("copy")' /\ stream'["caller"].done >= NextOp("copy")'.after
    <3>1. SUFFICES ASSUME stream["copy"].busy
                   PROVE  ~Drained("copy")' /\ stream'["caller"].done >= NextOp("copy")'.after
      BY <1>2
    <3>2. stream["caller"].done >= NextOp("copy").after /\ 1 \in DOMAIN copies
          /\ NextOp("copy") = copies[1]
      BY <1>1, <3>1, RunningCopy DEF BusyWithFirst
    <3>3. ~Drained("copy")'
      BY <1>2 DEF Drained, copies
    <3>4. NextOp("copy")' = copies'[1]
      <4>1. 1 \in DOMAIN copies'
        BY <1>1, <1>2
      <4> QED
        BY <4>1 DEF NextOp, copies
    <3> QED
      BY <1>2, <3>2, <3>3, <3>4
  <2> QED
    BY <1>1, <1>5, <2>1, <2>2 DEF BusyWithFirst
<1>8. \A p \in DOMAIN copies' : p \in DOMAIN copies \/ p = n + 1
  BY <1>1, <1>2
<1>9. Pending("copy")' = Pending("copy") \cup {op}
  <2>1. \A p \in DOMAIN copies : p \in DOMAIN copies'
    BY <1>1, <1>2
  <2>2. n + 1 \in DOMAIN copies'
    BY <1>1, <1>2
  <2>3. Pending("copy") = {copies[p] : p \in DOMAIN copies}
        /\ Pending("copy")' = {copies'[p] : p \in DOMAIN copies'}
    BY DEF Pending, Range, copies
  <2>4. {copies'[p] : p \in DOMAIN copies'} = {copies[p] : p \in DOMAIN copies} \cup {op}
    BY <1>2, <1>8, <2>1, <2>2
  <2> QED
    BY <2>3, <2>4
<1>10. ASSUME NEW q \in DOMAIN consumers PROVE Served(q)'
  <2> DEFINE k == consumers[q]
  <2>1. \A p \in DOMAIN copies : After(p, q)' <=> After(p, q)
    BY <1>2 DEF After
  <2>2. After(n + 1, q)'
    <3>1. q \in Nat /\ q <= Len(consumers) /\ copies'[n + 1].after = event
      BY <1>1, <1>2 DEF op
    <3>2. event >= stream'["caller"].done + q
      BY <1>1, <1>2, <3>1
    <3> QED
      BY <3>1, <3>2 DEF After
  <2>3. Served(q)
    BY DEF ConsumersServed
  <2>4. CASE /\ buffer[k.slot] = k.data
             /\ \A p \in DOMAIN copies : copies[p].slot = k.slot => After(p, q)
    <3>1. \A p \in DOMAIN copies' : copies'[p].slot = k.slot => After(p, q)'
      BY <1>2, <1>8, <2>1, <2>2, <2>4
    <3> QED
      BY <1>3, <2>4, <3>1 DEF Served
  <2>5. ASSUME NEW p \in DOMAIN copies,
               copies[p].slot = k.slot, copies[p].data = k.data, copies[p].whole,
               stream["copy"].done + p <= k.after,
               \A r \in DOMAIN copies : r > p /\ copies[r].slot = k.slot => After(r, q)
        PROVE  Served(q)'
    <3>1. p \in DOMAIN copies' /\ copies'[p] = copies[p]
      BY <1>1, <1>2
    <3>2. \A r \in DOMAIN copies' : r > p /\ copies'[r].slot = k.slot => After(r, q)'
      BY <1>2, <1>8, <2>1, <2>2, <2>5
    <3> QED
      BY <1>2, <1>3, <2>5, <3>1, <3>2 DEF Served
  <2> QED
    BY <2>3, <2>4, <2>5 DEF Served
<1>11. ConsumersServed'
  BY <1>3, <1>10 DEF ConsumersServed
<1> QED
  BY <1>0, <1>2, <1>4, <1>6, <1>7, <1>9, <1>11, SMTT(40) DEF op, event

(* A prefetch takes its slot and retains its source, whatever its          *)
(* submission comes to; only a whole one leaves the lease usable.          *)
LEMMA PrefetchIInv == ASSUME IInv, NEW layer \in Layer, Prefetch(layer) PROVE IInv'
<1> USE DEF IInv
<1> DEFINE i == SlotOf(layer)
           id == Identity(layer)
<1>1. BookTypes /\ DeviceTypes
  BY TypeOKParts
<1>2. /\ Check /\ Point("copy") < MaxSubmitted["copy"]
      /\ sources' = sources \cup {Records(layer)}
      /\ slot' = [slot EXCEPT ![i] = [owner |-> id, ready |-> FALSE]]
      /\ UNCHANGED <<poisoned, closed, fenced, buffer, join, epoch>>
  BY DEF Prefetch, Retain
<1>3. /\ join = None /\ active # None /\ ~active.interrupted /\ ~closed
      /\ active \in LeaseState
      /\ id \in SlotIdentity /\ id # None /\ id.layer = layer
      /\ i \in Slot /\ Records(layer) \in RecordsOf
  BY <1>1, <1>2, Checked
<1>4. epoch \in 0 .. MaxEpoch
  BY <1>1 DEF BookTypes
<1>5. /\ slot' \in [Slot -> [owner : SlotIdentity \cup {None}, ready : BOOLEAN]]
      /\ slot'[i].owner = id /\ ~slot'[i].ready
      /\ \A j \in Slot : j # i => slot'[j] = slot[j]
  <2> HIDE DEF id, i
  <2> QED
    BY <1>1, <1>2, <1>3 DEF BookTypes
<1>6. ASSUME active' \in LeaseState PROVE BookTypes'
  <2>1. \A j \in Slot : /\ slot'[j].owner # None => SlotOf(slot'[j].owner.layer) = j
                        /\ slot'[j].owner = None => ~slot'[j].ready
    BY <1>1, <1>3, <1>5 DEF BookTypes
  <2> QED
    BY <1>1, <1>2, <1>3, <1>5, <1>6, <2>1 DEF BookTypes
<1>7. ASSUME NEW whole \in BOOLEAN,
             stream' = Submitted("copy", layer, Point("caller"), whole)
      PROVE  /\ stream' \in [Stream -> StreamState]
             /\ \A x \in Stream : /\ Point(x)' \in 0 .. MaxSubmitted[x]
                                  /\ stream'[x].wait \in 0 .. Point(Other(x))'
             /\ Point("copy")' = Point("copy") + 1
             /\ BusyWithFirst' /\ ConsumersServed' /\ SourcesOutliveCopies'
  <2>1. /\ stream' \in [Stream -> StreamState]
        /\ \A x \in Stream : /\ Point(x)' \in 0 .. MaxSubmitted[x]
                             /\ stream'[x].wait \in 0 .. Point(Other(x))'
        /\ Point("copy")' = Point("copy") + 1
        /\ BusyWithFirst' /\ ConsumersServed'
        /\ Pending("copy")' = Pending("copy") \cup
              {[slot |-> i, data |-> Records(layer), after |-> Point("caller"),
                whole |-> whole]}
    BY <1>1, <1>2, <1>4, <1>7, CopySubmitted
  <2>2. SourcesOutliveCopies'
    <3>1. \A op \in Pending("copy")' : op \in Pending("copy") \/ op.data = Records(layer)
      BY <2>1
    <3> QED
      BY <1>2, <3>1 DEF SourcesOutliveCopies
  <2> QED
    BY <2>1, <2>2
<1>8. \A j \in Slot : ready[j] \in 0 .. Point("copy") /\ ready[j] \in Nat
  BY <1>1 DEF DeviceTypes
<1>9. Point("copy") \in Nat
  BY <1>1, Streams
<1>10. CASE /\ stream' = Submitted("copy", layer, Point("caller"), TRUE)
            /\ ready' = [ready EXCEPT ![i] = Point("copy") + 1]
            /\ UNCHANGED active
  <2>1. /\ stream' \in [Stream -> StreamState]
        /\ \A x \in Stream : /\ Point(x)' \in 0 .. MaxSubmitted[x]
                             /\ stream'[x].wait \in 0 .. Point(Other(x))'
        /\ Point("copy")' = Point("copy") + 1
        /\ BusyWithFirst' /\ ConsumersServed' /\ SourcesOutliveCopies'
    BY <1>7, <1>10
  <2>2. ready' \in [Slot -> Nat] /\ (\A j \in Slot : ready'[j] \in 0 .. Point("copy")')
        /\ ready'[i] = Point("copy") + 1 /\ \A j \in Slot : j # i => ready'[j] = ready[j]
    <3>1. ready \in [Slot -> Nat]
      BY <1>1 DEF DeviceTypes
    <3> HIDE DEF i
    <3>2. ready' \in [Slot -> Nat] /\ ready'[i] = Point("copy") + 1
          /\ \A j \in Slot : j # i => ready'[j] = ready[j]
      BY <1>3, <1>9, <1>10, <3>1
    <3>3. \A j \in Slot : ready'[j] \in 0 .. Point("copy")'
      <4>1. TAKE j \in Slot
      <4>2. CASE j = i
        BY <1>9, <2>1, <3>2, <4>2
      <4>3. CASE j # i
        BY <1>8, <1>9, <2>1, <3>2, <4>3
      <4> QED
        BY <4>2, <4>3
    <3> QED
      BY <3>2, <3>3
  <2>3. DeviceTypes'
    BY <1>1, <1>2, <2>1, <2>2 DEF DeviceTypes
  <2>4. BookTypes'
    BY <1>3, <1>6, <1>10
  <2>5. JoinOK' /\ LeaseOK'
    BY <1>2, <1>3, <1>10 DEF JoinOK, LeaseOK
  <2>6. PICK n \in Nat : n = Len(copies)
    BY <1>1, Streams
  <2>7. /\ DOMAIN copies = 1 .. n /\ DOMAIN copies' = 1 .. n + 1
        /\ stream'["copy"].done = stream["copy"].done
        /\ \A p \in DOMAIN copies : copies'[p] = copies[p]
        /\ copies'[n + 1] = [slot |-> i, data |-> Records(layer),
                             after |-> Point("caller"), whole |-> TRUE]
        /\ stream'["caller"] = stream["caller"]
        /\ Point("copy") = stream["copy"].done + n /\ stream["copy"].done \in Nat
    BY <1>1, <1>2, <1>4, <1>10, <2>6, CopySubmitted, Streams
  <2>8. PICK m \in Nat : m = Point("copy") + 1
    BY <1>9
  <2>9. PICK d \in RecordsOf : d = Records(layer)
    BY <1>3
  <2>10. Arrives(i, d, m)'
    <3>1. n + 1 \in DOMAIN copies' /\ stream'["copy"].done + (n + 1) <= m
      BY <2>7, <2>8
    <3>2. copies'[n + 1].slot = i /\ copies'[n + 1].data = d /\ copies'[n + 1].whole
      BY <2>7, <2>9
    <3>3. \A r \in DOMAIN copies' : ~(r > n + 1)
      BY <2>7
    <3> QED
      BY <3>1, <3>2, <3>3 DEF Arrives
  <2>11. ASSUME NEW j \in Slot, j # i, NEW e, NEW t, Arrives(j, e, t)
         PROVE  Arrives(j, e, t)'
    <3>1. \A r \in DOMAIN copies' : r \in DOMAIN copies \/ copies'[r].slot # j
      BY <2>7, <2>11
    <3>2. CASE buffer[j] = e /\ \A p \in DOMAIN copies : copies[p].slot # j
      BY <1>2, <2>7, <3>1, <3>2 DEF Arrives
    <3>3. ASSUME NEW p \in DOMAIN copies,
                 copies[p].slot = j, copies[p].data = e, copies[p].whole,
                 stream["copy"].done + p <= t,
                 \A r \in DOMAIN copies : r > p => copies[r].slot # j
          PROVE  Arrives(j, e, t)'
      <4>1. p \in DOMAIN copies' /\ copies'[p] = copies[p]
        BY <2>7
      <4>2. \A r \in DOMAIN copies' : r > p => copies'[r].slot # j
        BY <2>7, <3>1, <3>3
      <4> QED
        BY <2>7, <3>3, <4>1, <4>2 DEF Arrives
    <3> QED
      BY <2>11, <3>2, <3>3 DEF Arrives
  <2>12. SlotsArrive'
    <3>1. \A l : Records(l)' = Records(l)
      BY <1>2 DEF Records
    <3>2. ready'[i] = m /\ Records(slot[i].owner.layer)' = d
      BY <1>3, <1>5, <2>2, <2>8, <2>9, <3>1
    <3>3. ASSUME NEW j \in Slot, j # i
          PROVE  /\ slot'[j] = slot[j] /\ ready'[j] = ready[j]
                 /\ stream'["caller"].wait = stream["caller"].wait
                 /\ slot[j].owner # None => Arrives(j, Records(slot[j].owner.layer), ready[j])
                 /\ slot[j].ready
                     => Arrives(j, Records(slot[j].owner.layer), stream["caller"].wait)
      BY <1>3, <1>5, <2>2, <2>7, <3>3 DEF SlotsArrive
    <3>4. ASSUME NEW j \in Slot
          PROVE  /\ slot'[j].owner # None
                     => Arrives(j, Records(slot[j].owner.layer), ready[j])'
                 /\ slot'[j].ready
                     => Arrives(j, Records(slot[j].owner.layer), stream["caller"].wait)'
      <4>1. CASE j = i
        BY <1>5, <2>10, <3>2, <4>1
      <4>2. CASE j # i
        <5>1. PICK e : e = Records(slot[j].owner.layer)
          OBVIOUS
        <5>2. PICK a : a = ready[j]
          OBVIOUS
        <5>3. PICK b : b = stream["caller"].wait
          OBVIOUS
        <5>4. /\ slot'[j].owner # None => Arrives(j, e, a)'
              /\ slot'[j].ready => Arrives(j, e, b)'
          BY <2>11, <3>3, <4>2, <5>1, <5>2, <5>3
        <5>5. /\ Records(slot[j].owner.layer)' = e /\ ready'[j] = a
              /\ stream'["caller"].wait = b
          BY <3>1, <3>3, <4>2, <5>1, <5>2, <5>3
        <5> QED
          BY <5>4, <5>5
      <4> QED
        BY <4>1, <4>2
    <3> QED
      BY <3>4 DEF SlotsArrive
  <2> QED
    BY <2>1, <2>3, <2>4, <2>5, <2>12, TypeOKParts
<1>11. CASE /\ stream' \in {stream, Submitted("copy", layer, Point("caller"), FALSE)}
            /\ Interrupt
            /\ ready' = ready
  <2>1. /\ active' \in LeaseState /\ active'.interrupted /\ active'.cycle = active.cycle
    BY <1>3, <1>11 DEF Interrupt, LeaseState
  <2>2. active' # None
    BY <2>1, NoneAssumption
  <2>3. DeviceTypes' /\ BusyWithFirst' /\ ConsumersServed' /\ SourcesOutliveCopies'
    <3>1. CASE stream' = stream
      <4>1. UNCHANGED device
        BY <1>2, <1>11, <3>1 DEF device
      <4>2. /\ DeviceTypes' /\ BusyWithFirst' /\ ConsumersServed'
            /\ Pending("copy")' = Pending("copy")
        BY <1>1, <4>1, SameDevice
      <4> QED
        BY <1>2, <4>2 DEF SourcesOutliveCopies
    <3>2. CASE stream' = Submitted("copy", layer, Point("caller"), FALSE)
      <4>1. /\ stream' \in [Stream -> StreamState]
            /\ \A x \in Stream : /\ Point(x)' \in 0 .. MaxSubmitted[x]
                                 /\ stream'[x].wait \in 0 .. Point(Other(x))'
            /\ Point("copy")' = Point("copy") + 1
            /\ BusyWithFirst' /\ ConsumersServed' /\ SourcesOutliveCopies'
        BY <1>7, <3>2
      <4>2. \A j \in Slot : ready'[j] \in 0 .. Point("copy")'
        BY <1>8, <1>9, <1>11, <4>1
      <4> QED
        BY <1>1, <1>2, <1>11, <4>1, <4>2 DEF DeviceTypes
    <3> QED
      BY <1>11, <3>1, <3>2
  <2>4. BookTypes' /\ SlotsArrive'
    BY <1>6, <2>1 DEF SlotsArrive
  <2>5. JoinOK' /\ LeaseOK'
    BY <1>2, <1>3, <2>1, <2>2 DEF JoinOK, LeaseOK
  <2> QED
    BY <2>3, <2>4, <2>5, TypeOKParts
<1> QED
  BY <1>10, <1>11 DEF Prefetch, ConsumerEvent

(* An interrupted lease asks nothing of its slots.                         *)
LEMMA InterruptStep ==
  ASSUME IInv, active # None, join = None, ~closed, Interrupt,
         UNCHANGED <<slot, sources, poisoned, closed, fenced, device, join, epoch>>
  PROVE  IInv'
<1> USE DEF IInv
<1>1. BookTypes /\ DeviceTypes
  BY TypeOKParts
<1>2. /\ active' \in LeaseState /\ active'.interrupted /\ active'.cycle = active.cycle
  BY <1>1 DEF BookTypes, Interrupt, LeaseState
<1>3. active' # None
  BY <1>2, NoneAssumption
<1>4. /\ DeviceTypes' /\ BusyWithFirst' /\ ConsumersServed'
      /\ Pending("copy")' = Pending("copy")
  BY <1>1, SameDevice
<1>5. BookTypes' /\ SlotsArrive' /\ SourcesOutliveCopies'
  BY <1>1, <1>2, <1>4 DEF BookTypes, SlotsArrive, SourcesOutliveCopies
<1>6. JoinOK' /\ LeaseOK'
  BY <1>2, <1>3 DEF JoinOK, LeaseOK
<1> QED
  BY <1>4, <1>5, <1>6, TypeOKParts

(* What has arrived by one point is there at every later one. *)
LEMMA ArrivesLater ==
  ASSUME DeviceTypes, NEW i, NEW d, NEW t \in Nat, NEW u \in Nat, t <= u, Arrives(i, d, t)
  PROVE  Arrives(i, d, u)
<1>1. \A p \in DOMAIN copies :
        stream["copy"].done + p <= t => stream["copy"].done + p <= u
  BY Streams
<1> QED
  BY <1>1 DEF Arrives

(* The later of two points. *)
LEMMA LaterPoint ==
  ASSUME NEW t \in Nat, NEW u \in Nat
  PROVE  Max({t, u}) \in {t, u} /\ t <= Max({t, u}) /\ u <= Max({t, u})
<1>1. \E m \in {t, u} : \A y \in {t, u} : m >= y
  BY \A y \in {t, u} : y = t \/ y = u
<1> QED
  BY <1>1 DEF Max

(* The caller's stream waits for the slot's ready event, and only then is  *)
(* the slot ready.                                                         *)
LEMMA WaitReadyIInv == ASSUME IInv, NEW layer \in Layer, WaitReady(layer) PROVE IInv'
<1> USE DEF IInv
<1> DEFINE i == SlotOf(layer)
<1>1. BookTypes /\ DeviceTypes
  BY TypeOKParts
<1>2. /\ Check /\ slot[i].owner = Identity(layer)
      /\ UNCHANGED <<sources, poisoned, closed, fenced, ready, buffer, join, epoch>>
  BY DEF WaitReady, Owns
<1>3. /\ join = None /\ active # None /\ ~active.interrupted /\ ~closed
      /\ i \in Slot /\ slot[i].owner # None
  BY <1>1, <1>2, Checked
<1>4. CASE Interrupt /\ UNCHANGED <<stream, slot>>
  <2>1. UNCHANGED <<slot, sources, poisoned, closed, fenced, device, join, epoch>>
    BY <1>2, <1>4 DEF device
  <2> QED
    BY <1>3, <1>4, <2>1, InterruptStep
<1>5. CASE /\ stream' = [stream EXCEPT !["caller"].wait = Max({@, ready[i]})]
           /\ slot' = [slot EXCEPT ![i].ready = TRUE]
           /\ UNCHANGED active
  <2>1. /\ stream["caller"].wait \in 0 .. Point("copy") /\ ready[i] \in 0 .. Point("copy")
        /\ stream["caller"] \in StreamState
        /\ Point("copy") \in Nat
        /\ "copy" \in Stream /\ "caller" \in Stream /\ Other("caller") = "copy"
    BY <1>1, <1>3, Streams DEF DeviceTypes
  <2> DEFINE t == stream["caller"].wait
             u == ready[i]
  <2>2. PICK w \in Nat : w = Max({t, u})
    <3>1. t \in Nat /\ u \in Nat
      BY <2>1
    <3> HIDE DEF t, u
    <3>2. Max({t, u}) \in {t, u}
      BY <3>1, LaterPoint
    <3> QED
      BY <3>1, <3>2
  <2>3. /\ w \in 0 .. Point("copy") /\ stream["caller"].wait <= w /\ ready[i] <= w
    <3>1. t \in Nat /\ u \in Nat
      BY <2>1
    <3>2. w \in {t, u} /\ t <= w /\ u <= w
      <4> HIDE DEF t, u
      <4> QED
        BY <2>2, <3>1, LaterPoint
    <3> QED
      BY <2>1, <3>2
  <2>4. /\ stream' \in [Stream -> StreamState]
        /\ stream'["caller"].wait = w
        /\ stream'["caller"].ops = stream["caller"].ops
        /\ stream'["caller"].done = stream["caller"].done
        /\ stream'["caller"].busy = stream["caller"].busy
        /\ stream'["copy"] = stream["copy"]
    <3>1. stream \in [Stream -> StreamState]
      BY <1>1 DEF DeviceTypes
    <3>2. stream' = [stream EXCEPT !["caller"] = [stream["caller"] EXCEPT !.wait = w]]
      BY <1>5, <2>1, <2>2, <3>1
    <3>3. [stream["caller"] EXCEPT !.wait = w]
            = [ops |-> stream["caller"].ops, done |-> stream["caller"].done,
               busy |-> stream["caller"].busy, wait |-> w]
      BY <2>1 DEF StreamState
    <3>4. [stream["caller"] EXCEPT !.wait = w] \in StreamState
      BY <2>1, <2>2, <3>3 DEF StreamState
    <3> QED
      BY <2>1, <3>1, <3>2, <3>3, <3>4
  <2>5. copies' = copies /\ consumers' = consumers
    BY <2>4 DEF copies, consumers
  <2>6. \A x \in Stream : x = "copy" \/ x = "caller"
    BY DEF Stream
  <2>7. /\ Point("copy")' = Point("copy") /\ Point("caller")' = Point("caller")
        /\ NextOp("copy")' = NextOp("copy") /\ NextOp("caller")' = NextOp("caller")
        /\ Drained("copy")' <=> Drained("copy")
        /\ Drained("caller")' <=> Drained("caller")
        /\ Pending("copy")' = Pending("copy")
    BY <2>4 DEF Point, NextOp, Drained, Pending
  <2>8. DeviceTypes'
    <3>1. \A x \in Stream : /\ Point(x)' \in 0 .. MaxSubmitted[x]
                            /\ stream'[x].wait \in 0 .. Point(Other(x))'
      BY <1>1, <2>3, <2>4, <2>6, <2>7, Streams DEF DeviceTypes
    <3> QED
      BY <1>1, <1>2, <2>4, <2>7, <3>1 DEF DeviceTypes
  <2>9. BusyWithFirst'
    BY <1>1, <2>4, <2>6, <2>7, Streams DEF BusyWithFirst
  <2>10. ConsumersServed'
    BY <1>2, <2>4, <2>5 DEF ConsumersServed, Served, After
  <2>11. /\ slot' \in [Slot -> [owner : SlotIdentity \cup {None}, ready : BOOLEAN]]
         /\ \A j \in Slot : slot'[j].owner = slot[j].owner
         /\ \A j \in Slot : j # i => slot'[j].ready = slot[j].ready
    <3> HIDE DEF i
    <3>1. slot \in [Slot -> [owner : SlotIdentity \cup {None}, ready : BOOLEAN]]
      BY <1>1 DEF BookTypes
    <3> QED
      BY <1>3, <1>5, <3>1
  <2>12. BookTypes'
    <3>1. \A j \in Slot : slot'[j].owner = None => ~slot'[j].ready
      BY <1>1, <1>3, <2>11 DEF BookTypes
    <3>2. \A j \in Slot : slot'[j].owner # None => SlotOf(slot'[j].owner.layer) = j
      BY <1>1, <2>11 DEF BookTypes
    <3> QED
      BY <1>1, <1>2, <1>5, <2>11, <3>1, <3>2 DEF BookTypes
  <2>13. JoinOK' /\ LeaseOK' /\ SourcesOutliveCopies'
    BY <1>2, <1>3, <1>5, <2>7 DEF JoinOK, LeaseOK, SourcesOutliveCopies
  <2>14. SlotsArrive'
    <3>1. \A l : Records(l)' = Records(l)
      BY <1>2 DEF Records
    <3>2. \A j, d, x : Arrives(j, d, x)' <=> Arrives(j, d, x)
      BY <1>2, <2>4, <2>5 DEF Arrives
    <3>3. ASSUME NEW j \in Slot
          PROVE  /\ slot'[j].owner # None
                     => Arrives(j, Records(slot[j].owner.layer), ready[j])'
                 /\ slot'[j].ready
                     => Arrives(j, Records(slot[j].owner.layer), stream["caller"].wait)'
      <4>1. PICK d : d = Records(slot[j].owner.layer)
        OBVIOUS
      <4>2. /\ slot[j].owner # None => Arrives(j, d, ready[j])
            /\ slot[j].ready => Arrives(j, d, stream["caller"].wait)
            /\ ready[j] \in Nat /\ stream["caller"].wait \in Nat
        BY <1>1, <1>3, <2>1, <4>1 DEF SlotsArrive, DeviceTypes
      <4>3. slot'[j].ready => Arrives(j, d, w)
        <5>1. CASE j = i
          BY <1>1, <1>3, <2>3, <4>2, <5>1, ArrivesLater
        <5>2. CASE j # i
          BY <1>1, <2>3, <2>11, <4>2, <5>2, ArrivesLater
        <5> QED
          BY <5>1, <5>2
      <4>4. Records(slot[j].owner.layer)' = d
        BY <2>11, <3>1, <4>1
      <4> QED
        BY <1>2, <2>4, <2>11, <3>2, <4>2, <4>3, <4>4
    <3> QED
      BY <3>3 DEF SlotsArrive
  <2> QED
    BY <2>8, <2>9, <2>10, <2>12, <2>13, <2>14, TypeOKParts
<1> QED
  BY <1>4, <1>5 DEF WaitReady

(* A consumer is submitted behind its stream's wait for the slot it reads. *)
LEMMA ConsumeIInv == ASSUME IInv, NEW layer \in Layer, Consume(layer) PROVE IInv'
<1> USE DEF IInv
<1> DEFINE i == SlotOf(layer)
           d == Records(layer)
           w == stream["caller"].wait
           op == [slot |-> i, data |-> d, after |-> w, whole |-> TRUE]
<1>1. BookTypes /\ DeviceTypes
  BY TypeOKParts
<1>2. /\ Check /\ slot[i].owner = Identity(layer) /\ slot[i].ready
      /\ Point("caller") < MaxSubmitted["caller"]
      /\ stream' = Submitted("caller", layer, w, TRUE)
      /\ UNCHANGED <<bookkeeping, ready, buffer, join, epoch>>
  BY DEF Consume, View, Owns
<1>3. /\ join = None /\ active # None /\ ~active.interrupted /\ ~closed
      /\ i \in Slot /\ slot[i].owner.layer = layer
  BY <1>1, <1>2, Checked
<1>4. /\ "copy" \in Stream /\ "caller" \in Stream
      /\ Other("copy") = "caller" /\ Other("caller") = "copy"
      /\ w \in Nat /\ w \in 0 .. Point("copy") /\ epoch \in 0 .. MaxEpoch
      /\ Point("copy") \in Nat /\ Point("caller") \in Nat
  BY <1>1, Streams, SMTT(40) DEF DeviceTypes, BookTypes
<1>5. PICK n \in Nat : n = Len(consumers) /\ DOMAIN consumers = 1 .. n
  BY <1>1, Streams
<1>6. /\ stream' \in [Stream -> StreamState]
      /\ stream'["copy"] = stream["copy"]
      /\ stream'["caller"].done = stream["caller"].done
      /\ stream'["caller"].busy = stream["caller"].busy
      /\ stream'["caller"].wait = w
      /\ Len(consumers') = n + 1
      /\ DOMAIN consumers' = 1 .. n + 1
      /\ \A q \in DOMAIN consumers : consumers'[q] = consumers[q]
      /\ consumers'[n + 1] = op
      /\ consumers' # <<>>
  <2>1. DeviceTypes /\ epoch \in 0 .. MaxEpoch /\ "caller" \in Stream /\ w \in Nat
        /\ TRUE \in BOOLEAN /\ stream' = Submitted("caller", layer, w, TRUE)
    BY <1>1, <1>2, <1>4
  <2> HIDE DEF w
  <2>2. /\ stream' \in [Stream -> StreamState]
        /\ stream'[Other("caller")] = stream[Other("caller")]
        /\ stream'["caller"].done = stream["caller"].done
        /\ stream'["caller"].busy = stream["caller"].busy
        /\ stream'["caller"].wait = w
        /\ Len(stream'["caller"].ops) = Len(stream["caller"].ops) + 1
        /\ DOMAIN stream'["caller"].ops = 1 .. Len(stream["caller"].ops) + 1
        /\ \A p \in DOMAIN stream["caller"].ops :
              stream'["caller"].ops[p] = stream["caller"].ops[p]
        /\ stream'["caller"].ops[Len(stream["caller"].ops) + 1] = op
        /\ stream'["caller"].ops # <<>>
    BY <2>1, SubmitEffect
  <2> HIDE DEF op
  <2> QED
    BY <2>2, <1>4, <1>5 DEF consumers
<1>7. copies' = copies
  BY <1>6 DEF copies
<1>8. \A x \in Stream : x = "copy" \/ x = "caller"
  BY DEF Stream
<1>9. Point("copy")' = Point("copy") /\ Point("caller")' = Point("caller") + 1
  <2>1. /\ Point("copy")' = stream'["copy"].done + Len(copies')
        /\ Point("copy") = stream["copy"].done + Len(copies)
        /\ Point("caller")' = stream'["caller"].done + Len(consumers')
        /\ Point("caller") = stream["caller"].done + Len(consumers)
    BY DEF Point, copies, consumers
  <2>2. Point("copy")' = Point("copy")
    BY <1>6, <1>7, <2>1
  <2>3. stream'["caller"].done = stream["caller"].done /\ Len(consumers') = Len(consumers) + 1
        /\ stream["caller"].done \in Nat /\ Len(consumers) \in Nat
    BY <1>1, <1>5, <1>6, Streams
  <2> QED
    BY <2>1, <2>2, <2>3
<1> HIDE DEF d, w, op, i
<1>10. DeviceTypes'
  <2>1. MaxSubmitted["caller"] \in Nat
    BY StagingAssumption
  <2>2. Point("caller")' \in 0 .. MaxSubmitted["caller"]
    BY <1>2, <1>4, <1>9, <2>1
  <2>3. stream["copy"].wait \in 0 .. Point("caller") /\ Point("copy") \in 0 .. MaxSubmitted["copy"]
    BY <1>1, <1>4 DEF DeviceTypes
  <2>4. stream'["copy"].wait \in 0 .. Point("caller")'
    BY <1>4, <1>6, <1>9, <2>3
  <2>5. stream'["caller"].wait \in 0 .. Point("copy")'
    BY <1>4, <1>6, <1>9
  <2>6. \A x \in Stream : /\ Point(x)' \in 0 .. MaxSubmitted[x]
                          /\ stream'[x].wait \in 0 .. Point(Other(x))'
    BY <1>4, <1>8, <1>9, <2>2, <2>3, <2>4, <2>5
  <2> QED
    BY <1>1, <1>2, <1>6, <1>9, <2>6 DEF DeviceTypes
<1>11. BusyWithFirst'
  <2>1. stream'["copy"].busy =>
          ~Drained("copy")' /\ stream'["caller"].done >= NextOp("copy")'.after
    BY <1>4, <1>6 DEF BusyWithFirst, Drained, NextOp
  <2>2. stream'["caller"].busy =>
          ~Drained("caller")' /\ stream'["copy"].done >= NextOp("caller")'.after
    <3>1. SUFFICES ASSUME stream["caller"].busy
                   PROVE  ~Drained("caller")' /\ stream'["copy"].done >= NextOp("caller")'.after
      BY <1>6
    <3>2. stream["copy"].done >= NextOp("caller").after /\ 1 \in DOMAIN consumers
          /\ NextOp("caller") = consumers[1]
      BY <1>1, <1>4, <3>1, RunningConsumer DEF BusyWithFirst
    <3>3. ~Drained("caller")'
      BY <1>6 DEF Drained, consumers
    <3>4. NextOp("caller")' = consumers'[1]
      <4>1. 1 \in DOMAIN consumers'
        BY <1>6
      <4> QED
        BY <4>1 DEF NextOp, consumers
    <3> QED
      BY <1>6, <3>2, <3>3, <3>4
  <2> QED
    BY <1>4, <1>8, <2>1, <2>2 DEF BusyWithFirst
<1>12. BookTypes' /\ JoinOK' /\ LeaseOK'
  BY <1>1, <1>2, <1>3 DEF BookTypes, JoinOK, LeaseOK, bookkeeping
<1>13. SourcesOutliveCopies'
  BY <1>2, <1>6 DEF SourcesOutliveCopies, Pending, bookkeeping
<1>14. SlotsArrive'
  <2>1. \A j, e, t : Arrives(j, e, t)' <=> Arrives(j, e, t)
    BY <1>2, <1>6, <1>7 DEF Arrives
  <2>2. \A l : Records(l)' = Records(l)
    BY <1>2 DEF Records
  <2> QED
    BY <1>2, <1>6, <2>1, <2>2 DEF SlotsArrive, bookkeeping, w
<1>15. ASSUME NEW q \in DOMAIN consumers PROVE Served(q)'
  <2> DEFINE k == consumers[q]
  <2>1. \A p : After(p, q)' <=> After(p, q)
    BY <1>6, <1>7 DEF After
  <2>2. Served(q) /\ consumers'[q] = k /\ buffer' = buffer
    BY <1>2, <1>6, <1>15 DEF ConsumersServed
  <2>3. CASE /\ buffer[k.slot] = k.data
             /\ \A p \in DOMAIN copies : copies[p].slot = k.slot => After(p, q)
    BY <1>7, <2>1, <2>2, <2>3 DEF Served
  <2>4. ASSUME NEW p \in DOMAIN copies,
               copies[p].slot = k.slot, copies[p].data = k.data, copies[p].whole,
               stream["copy"].done + p <= k.after,
               \A r \in DOMAIN copies : r > p /\ copies[r].slot = k.slot => After(r, q)
        PROVE  Served(q)'
    BY <1>6, <1>7, <2>1, <2>2, <2>4 DEF Served
  <2> QED
    BY <2>2, <2>3, <2>4 DEF Served
<1>16. Served(n + 1)'
  <2>1. Arrives(i, d, w)
    BY <1>2, <1>3 DEF SlotsArrive, d, w
  <2>2. op.slot = i /\ op.data = d /\ op.after = w
    BY DEF op
  <2>3. CASE buffer[i] = d /\ \A p \in DOMAIN copies : copies[p].slot # i
    BY <1>2, <1>6, <1>7, <2>2, <2>3 DEF Served
  <2>4. ASSUME NEW p \in DOMAIN copies,
               copies[p].slot = i, copies[p].data = d, copies[p].whole,
               stream["copy"].done + p <= w,
               \A r \in DOMAIN copies : r > p => copies[r].slot # i
        PROVE  Served(n + 1)'
    BY <1>6, <1>7, <2>2, <2>4 DEF Served
  <2> QED
    BY <2>1, <2>3, <2>4 DEF Arrives
<1>17. ConsumersServed'
  <2>1. \A q \in DOMAIN consumers' : q \in DOMAIN consumers \/ q = n + 1
    BY <1>5, <1>6
  <2> QED
    BY <1>15, <1>16, <2>1 DEF ConsumersServed
<1> QED
  BY <1>10, <1>11, <1>12, <1>13, <1>14, <1>17, TypeOKParts

-----------------------------------------------------------------------------
(* The theorems. *)

(* Nothing is lent, submitted or joined at first. *)
LEMMA InitIInv == ASSUME Init PROVE IInv
<1> USE DEF Init
<1>1. /\ "copy" \in Stream /\ "caller" \in Stream
      /\ \A x \in Stream : x = "copy" \/ x = "caller"
      /\ Other("copy") = "caller" /\ Other("caller") = "copy"
  BY DEF Stream, Other
<1>2. \A x \in Stream : stream[x].ops = <<>> /\ stream[x].done = 0 /\ ~stream[x].busy
                         /\ stream[x].wait = 0 /\ Len(stream[x].ops) = 0
  BY DEF Idle
<1>3. \A x \in Stream : Drained(x) /\ Point(x) = 0
  BY <1>2 DEF Drained, Point
<1>4. DeviceTypes
  <2>1. Idle \in StreamState
    BY DEF Idle, StreamState
  <2>2. stream \in [Stream -> StreamState]
    BY <2>1
  <2>3. \A x \in Stream : Other(x) \in Stream /\ MaxSubmitted[x] \in Nat
    BY <1>1, StagingAssumption DEF Stream
  <2>4. \A x \in Stream : /\ Point(x) \in 0 .. MaxSubmitted[x]
                          /\ stream[x].wait \in 0 .. Point(Other(x))
    BY <1>2, <1>3, <2>3
  <2>5. \A i \in Slot : ready[i] \in 0 .. Point("copy")
    BY <1>1, <1>3
  <2> QED
    BY <2>2, <2>4, <2>5 DEF DeviceTypes
<1>5. BookTypes
  <2>1. \A i \in Slot : slot[i].owner = None /\ slot[i].ready = FALSE
    BY DEF Unowned
  <2>2. slot \in [Slot -> [owner : SlotIdentity \cup {None}, ready : BOOLEAN]]
    BY DEF Unowned
  <2>3. epoch \in 0 .. MaxEpoch
    BY StagingAssumption
  <2> QED
    BY <2>1, <2>2, <2>3 DEF BookTypes
<1>6. BusyWithFirst
  BY <1>2 DEF BusyWithFirst
<1>7. JoinOK
  BY DEF JoinOK
<1>8. LeaseOK
  BY <1>3 DEF LeaseOK, Unowned
<1>9. copies = <<>> /\ consumers = <<>>
  BY <1>1, <1>2 DEF copies, consumers
<1>10. SourcesOutliveCopies
  BY <1>9 DEF SourcesOutliveCopies, Pending, Range, copies
<1>11. SlotsArrive
  BY DEF SlotsArrive
<1>12. ConsumersServed
  BY <1>9 DEF ConsumersServed
<1> QED
  BY <1>4, <1>5, <1>6, <1>7, <1>8, <1>10, <1>11, <1>12, TypeOKParts DEF IInv

(* Every step keeps the invariant. *)
LEMMA NextIInv == ASSUME IInv, [Next]_vars PROVE IInv'
<1>1. CASE Caller
  <2>1. ASSUME NEW b \in Borrower, Lease(b) PROVE IInv'
    BY <2>1, LeaseIInv
  <2>2. ASSUME NEW layer \in Layer, Prefetch(layer) PROVE IInv'
    BY <2>2, PrefetchIInv
  <2>3. ASSUME NEW layer \in Layer, WaitReady(layer) PROVE IInv'
    BY <2>3, WaitReadyIInv
  <2>4. ASSUME NEW layer \in Layer, Consume(layer) PROVE IInv'
    BY <2>4, ConsumeIInv
  <2>5. CASE Reset
    BY <2>5, BeginJoinIInv DEF Reset, IInv
  <2>6. CASE Return
    BY <2>6, BeginJoinIInv DEF Return
  <2>7. CASE Close
    BY <2>7, CloseIInv
  <2>8. CASE CloseFailedLease
    BY <2>8, BeginJoinIInv DEF CloseFailedLease
  <2> QED
    BY <1>1, <2>1, <2>2, <2>3, <2>4, <2>5, <2>6, <2>7, <2>8 DEF Caller
<1>2. CASE Joining
  BY <1>2, SynchronizeIInv, JoinFailsIInv, ResetJoinedIInv, ReturnJoinedIInv, CloseJoinedIInv
     DEF Joining
<1>3. ASSUME NEW x \in Stream, Start(x) PROVE IInv'
  BY <1>3, StartIInv
<1>4. ASSUME NEW x \in Stream, Complete(x) PROVE IInv'
  BY <1>4, CompleteCopyIInv, CompleteConsumerIInv DEF Stream
<1>5. CASE UNCHANGED vars
  BY <1>5, StutterIInv
<1> QED
  BY <1>1, <1>2, <1>3, <1>4, <1>5 DEF Next

(* The parts of IInv hold in every reachable state: what the slots and the *)
(* consumers can count on, and what a join in progress knows.              *)
THEOREM Invariant == Spec => []IInv
<1>1. Init => IInv
  BY InitIInv
<1>2. IInv /\ [Next]_vars => IInv'
  BY NextIInv
<1> QED
  BY <1>1, <1>2, PTL DEF Spec

(* TypeOK is an invariant: among others, a slot is owned by layers of its  *)
(* own parity only, and is ready only while it is owned.                   *)
THEOREM TypeCorrect == Spec => []TypeOK
<1>1. IInv => TypeOK
  BY DEF IInv
<1> QED
  BY <1>1, Invariant, PTL

(* A copy and a consumer that run at the same time are in different slots: *)
(* either waits for the other one's event (prefetch, wait_ready).          *)
THEOREM SlotsNeverRace == Spec => []NoSlotRace
<1>1. ASSUME IInv, stream["copy"].busy, stream["caller"].busy
      PROVE  NextOp("copy").slot # NextOp("caller").slot
  <2>1. DeviceTypes /\ BusyWithFirst /\ ConsumersServed
    BY <1>1, TypeOKParts DEF IInv
  <2>2. 1 \in DOMAIN copies /\ NextOp("copy") = copies[1]
        /\ 1 \in DOMAIN consumers /\ NextOp("caller") = consumers[1]
    BY <1>1, <2>1, RunningCopy, RunningConsumer
  <2>3. ~After(1, 1)
    BY <1>1, <2>1, <2>2, RunningCopy
  <2>4. copies[1].slot = consumers[1].slot => After(1, 1)
    BY <1>1, <2>1, <2>2, RunningConsumer
  <2> QED
    BY <2>2, <2>3, <2>4
<1>2. IInv => NoSlotRace
  BY <1>1 DEF NoSlotRace
<1> QED
  BY <1>2, Invariant, PTL

(* A consumer reads the records that were prefetched for its layer in this *)
(* chunk of this lease (_slot, view).                                      *)
THEOREM ConsumersReadTheirLayer == Spec => []ConsumesItsLayer
<1>1. IInv => ConsumesItsLayer
  <2>1. SUFFICES ASSUME IInv, stream["caller"].busy
                 PROVE  buffer[NextOp("caller").slot] = NextOp("caller").data
    BY DEF ConsumesItsLayer
  <2>2. DeviceTypes /\ BusyWithFirst /\ ConsumersServed
    BY <2>1, TypeOKParts DEF IInv
  <2> QED
    BY <2>1, <2>2, RunningConsumer
<1> QED
  BY <1>1, Invariant, PTL

(* The host records of a pending copy are retained, whether the submission *)
(* and the last join succeeded or not.                                     *)
THEOREM CopiesKeepTheirSources == Spec => []SourcesOutliveCopies
<1>1. IInv => SourcesOutliveCopies
  BY DEF IInv
<1> QED
  BY <1>1, Invariant, PTL

(* Storage without a lease, and closed storage, has nothing under way.     *)
THEOREM IdleStorageQuiet == Spec => []IdleStorageIsQuiet
<1>1. IInv => IdleStorageIsQuiet
  BY DEF IInv, LeaseOK, IdleStorageIsQuiet
<1> QED
  BY <1>1, Invariant, PTL

(* Once a join has failed, nothing is submitted and no lease is granted:   *)
(* of a caller's steps only those that give the storage back are left, and *)
(* a chunk's reset, which was refused from then on, cannot be under way.   *)
THEOREM PoisonIsFinal == Spec => PoisonStopsWork
<1> DEFINE Final == poisoned => /\ poisoned'
                                /\ active' # active => active' = None \/ active'.closed
                                /\ \A x \in Stream : Len(stream'[x].ops) <= Len(stream[x].ops)
<1>1. IInv /\ [Next]_vars => [Final]_vars
  <2> SUFFICES ASSUME IInv, Next, poisoned PROVE Final
    OBVIOUS
  <2>1. DeviceTypes /\ JoinOK
    BY TypeOKParts DEF IInv
  <2>2. \A x \in Stream : Len(stream[x].ops) \in Nat
    BY <2>1, Streams DEF Stream, copies, consumers
  <2>3. ASSUME poisoned', UNCHANGED stream, UNCHANGED active PROVE Final
    BY <2>2, <2>3
  <2>4. CASE Caller
    <3>1. \A b \in Borrower : ~Lease(b)
      BY DEF Lease
    <3>2. \A layer \in Layer : ~Prefetch(layer) /\ ~WaitReady(layer) /\ ~Consume(layer)
      BY DEF Prefetch, WaitReady, Consume, Check
    <3>3. CASE Reset \/ Return \/ CloseFailedLease
      BY <2>3, <3>3 DEF Reset, Return, CloseFailedLease, BeginJoin, bookkeeping, device
    <3>4. CASE Close
      BY <2>3, <3>4 DEF Close, Dispose, device
    <3> QED
      BY <2>4, <3>1, <3>2, <3>3, <3>4 DEF Caller
  <2>5. CASE Synchronize \/ SynchronizeFails
    BY <2>3, <2>5 DEF Synchronize, SynchronizeFails, bookkeeping, device
  <2>6. ASSUME NEW purpose \in {"reset", "return", "close"}, JoinFails(purpose) PROVE Final
    <3>1. poisoned' /\ UNCHANGED stream
          /\ active' = IF purpose = "return" THEN [active EXCEPT !.closed = TRUE] ELSE active
      BY <2>6 DEF JoinFails, device
    <3>2. active \in LeaseState
      BY <2>1, <2>6, TypeOKParts DEF IInv, JoinOK, JoinFails, Joined, BookTypes
    <3>3. active' = active \/ active'.closed
      BY <3>1, <3>2 DEF LeaseState
    <3> QED
      BY <2>2, <3>1, <3>3
  <2>7. ~ResetJoined
    BY <2>1 DEF ResetJoined, Joined, JoinOK
  <2>8. CASE ReturnJoined \/ CloseJoined
    <3>1. poisoned' /\ active' = None /\ RestartPoints
      BY <2>8 DEF ReturnJoined, CloseJoined, Dispose
    <3>2. \A x \in Stream : stream'[x].ops = stream[x].ops
      BY <2>1, <3>1 DEF RestartPoints, DeviceTypes, StreamState
    <3> QED
      BY <2>2, <3>1, <3>2
  <2>9. ASSUME NEW x \in Stream, Start(x) PROVE Final
    <3>1. poisoned' /\ active' = active
      BY <2>9 DEF Start, bookkeeping
    <3>2. \A y \in Stream : stream'[y].ops = stream[y].ops
      BY <2>1, <2>9, StartEffect
    <3> QED
      BY <2>2, <3>1, <3>2
  <2>10. ASSUME NEW x \in Stream, Complete(x) PROVE Final
    <3>1. poisoned' /\ active' = active
      BY <2>10 DEF Complete, bookkeeping
    <3>2. \A y \in Stream : Len(stream'[y].ops) <= Len(stream[y].ops)
      <4>1. ~Drained(x)
        BY <2>10 DEF IInv, BusyWithFirst, Complete
      <4>2. stream'[Other(x)] = stream[Other(x)]
            /\ Len(stream'[x].ops) = Len(stream[x].ops) - 1
        BY <2>1, <2>10, <4>1, CompleteEffect
      <4>3. \A y \in Stream : y = x \/ y = Other(x)
        BY DEF Stream, Other
      <4>4. TAKE y \in Stream
      <4>5. CASE y = x
        BY <2>2, <4>2, <4>5
      <4>6. CASE y = Other(x)
        BY <2>2, <4>2, <4>6
      <4> QED
        BY <4>3, <4>5, <4>6
    <3> QED
      BY <3>1, <3>2
  <2> QED
    BY <2>4, <2>5, <2>6, <2>7, <2>8, <2>9, <2>10 DEF Next, Joining
<1> QED
  BY <1>1, Invariant, PTL DEF Spec, PoisonStopsWork
=============================================================================
