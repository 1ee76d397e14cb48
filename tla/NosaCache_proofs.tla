--------------------------- MODULE NosaCache_proofs ---------------------------
(***************************************************************************)
(* The NOSA cache for any number of layers, any capacity, stride and pool: *)
(* the main cache and the indexer agree, the committed history and what is *)
(* derived from it are kept, and every commit is finite.                   *)
(***************************************************************************)
EXTENDS NosaCache, PoolLemmas

-----------------------------------------------------------------------------
(* The inductive invariant. *)

LayerFields ==
  {"records", "cis", "written", "finite", "keys", "compressedCis", "pooledCis",
   "committed", "pending"}

Copy == [layer : Layer, rows : SUBSET Position, number : 1 .. MaxSteps]

(* What EXCEPT and Head need to know of the variables beside TypeOK. *)
Shaped ==
  /\ DOMAIN layer = Layer /\ \A l \in Layer : DOMAIN layer[l] = LayerFields
  /\ copies \in Seq(Copy)

(* A step is pending from BeginStep to the end of the forward. *)
StepOK ==
  /\ main = indexer /\ main.length = Len(history) /\ main.length \in 0 .. Capacity
  /\ Stepping <=> driver \in {"step", "unwinding", "broken"}
  /\ Stepping => step.number > 0 /\ main.length < main.pendingEnd /\ main.pendingEnd <= Capacity

(* The write stream only holds copies of the pending step's suffix. *)
CopiesOK ==
  /\ ~Stepping => copies = <<>>
  /\ copies # <<>> => Offload
  /\ \A k \in DOMAIN copies : copies[k].rows = AppendRows /\ copies[k].number = step.number

(* What a layer says of itself: committed covers the history, pending the  *)
(* step, which the layer has then written; and nothing that is not finite  *)
(* is prepared unless the deferred check is to see it.                     *)
StateOK ==
  \A l \in Layer :
    /\ layer[l].committed = DerivedAt(main.length)
    /\ layer[l].written => Stepping
    /\ layer[l].pending # None => layer[l].written /\ layer[l].pending = DerivedAt(main.pendingEnd)
    /\ (layer[l].pending # None /\ ~step.deferred) => layer[l].finite

(* The rows of a layer that has written are the step's, but for the main   *)
(* rows that a queued copy has still to bring.                             *)
WrittenOK ==
  \A l \in Layer : layer[l].written => \A i \in AppendRows :
    /\ layer[l].cis[i] = step.number
    /\ (\A k \in DOMAIN copies : copies[k].layer # l) => layer[l].records[i] = step.number

(* The record that row i of the history or of the pending step is to hold. *)
Record(i) == IF i < main.length THEN history[i + 1] ELSE step.number

WindowAt(w) == [i \in 1 .. 2 * Stride |-> Record((w * Stride) + i - 1)]

(* A layer's derived records that cover m tokens are of their windows. *)
DerivedFrom(l, m) ==
  /\ \A w \in 1 .. DerivedAt(m).compressed :
       layer[l].keys[w] = WindowAt(w - 1) /\ layer[l].compressedCis[w] = WindowAt(w - 1)
  /\ \A b \in 1 .. DerivedAt(m).pooled :
       layer[l].pooledCis[b] =
         [w \in {v \in Pool * (b - 1) .. Pool * b : v > 0} |-> WindowAt(w - 1)]

(* They cover the history, and the pending step once it is prepared. *)
Reach(l) == IF layer[l].pending = None THEN main.length ELSE main.pendingEnd

DerivedOK == \A l \in Layer : DerivedFrom(l, Reach(l))

IInv ==
  /\ TypeOK /\ Shaped /\ StepOK /\ CopiesOK /\ StateOK /\ WrittenOK
  /\ CommittedRowsKept /\ DerivedOK
-----------------------------------------------------------------------------
(* Windows and lengths. *)

(* The lengths that cover n tokens are numbers. *)
LEMMA DerivedTypes ==
  ASSUME NEW n \in Nat
  PROVE  /\ DerivedAt(n).compressed \in Nat /\ DerivedAt(n).pooled \in Nat
         /\ DerivedAt(n).validated = n
         /\ DerivedAt(n) \in [compressed : Nat, pooled : Nat, validated : Nat]
<1>1. n \div Stride \in Nat
  BY Division, SizeAssumption
<1>2. Pool * Stride \in Nat \ {0}
  BY SizeAssumption
<1>3. n > Stride => (n - Stride) \div (Pool * Stride) \in Nat
  <2> SUFFICES ASSUME n > Stride PROVE (n - Stride) \div (Pool * Stride) \in Nat
    OBVIOUS
  <2> n - Stride \in Nat
    BY SizeAssumption
  <2> HIDE <1>2
  <2> QED
    BY <1>2, Division
<1>4. (n \div Stride > 1 => (n \div Stride) - 1 \in Nat)
  BY <1>1
<1> QED
  BY <1>3, <1>4 DEF DerivedAt

(* They grow with the tokens. *)
LEMMA DerivedMonotone ==
  ASSUME NEW m \in Nat, NEW n \in Nat, m <= n
  PROVE  /\ DerivedAt(m).compressed <= DerivedAt(n).compressed
         /\ DerivedAt(m).pooled <= DerivedAt(n).pooled
<1>1. m \div Stride \in Nat /\ n \div Stride \in Nat /\ m \div Stride <= n \div Stride
  BY Division, DivisionMonotone, SizeAssumption
<1>2. DerivedAt(m).compressed <= DerivedAt(n).compressed
  BY <1>1 DEF DerivedAt
<1>3. DerivedAt(m).pooled <= DerivedAt(n).pooled
  <2> DEFINE d == Pool * Stride
  <2>1. d \in Nat \ {0}
    BY SizeAssumption
  <2> HIDE DEF d
  <2>2. CASE m > Stride
    <3>1. m - Stride \in Nat /\ n - Stride \in Nat /\ m - Stride <= n - Stride /\ n > Stride
      BY <2>2, SizeAssumption
    <3>2. (m - Stride) \div d <= (n - Stride) \div d
      BY <2>1, <3>1, DivisionMonotone
    <3> QED
      BY <2>2, <3>1, <3>2 DEF DerivedAt, d
  <2>3. CASE ~(m > Stride)
    <3>1. DerivedAt(m).pooled = 0
      BY <2>3 DEF DerivedAt
    <3> QED
      BY <3>1, DerivedTypes
  <2> QED
    BY <2>2, <2>3
<1> QED
  BY <1>2, <1>3

(* A window that n tokens complete lies within them. *)
LEMMA WindowWithin ==
  ASSUME NEW n \in Nat, NEW w \in 1 .. DerivedAt(n).compressed, NEW i \in 1 .. 2 * Stride
  PROVE  ((w - 1) * Stride) + i - 1 \in 0 .. n - 1
<1>1. /\ n \div Stride \in Nat /\ (n \div Stride) * Stride <= n
      /\ Stride \in Nat \ {0}
  BY Division, SizeAssumption
<1>2. w \in Nat /\ w >= 1 /\ w + 1 <= n \div Stride
  BY <1>1 DEF DerivedAt
<1>3. (w + 1) * Stride <= (n \div Stride) * Stride
  BY <1>1, <1>2, TimesMonotone
<1>4. (w + 1) * Stride <= n
  <2> DEFINE p == (n \div Stride) * Stride
             q == (w + 1) * Stride
  <2>1. p \in Nat /\ q \in Nat
    BY <1>1, <1>2, TimesMonotone
  <2> HIDE DEF p, q
  <2>2. q <= p /\ p <= n
    BY <1>1, <1>3 DEF p, q
  <2>3. q <= n
    BY <2>1, <2>2
  <2> QED
    BY <2>3 DEF q
<1>5. (w + 1) * Stride = ((w - 1) * Stride) + (2 * Stride) /\ (w - 1) * Stride \in Nat
  BY <1>1, <1>2
<1> QED
  BY <1>1, <1>4, <1>5

(* The windows of a block that n tokens complete are complete. *)
LEMMA BlockWithin ==
  ASSUME NEW n \in Nat, NEW b \in 1 .. DerivedAt(n).pooled,
         NEW v \in Pool * (b - 1) .. Pool * b, v > 0
  PROVE  v \in 1 .. DerivedAt(n).compressed
<1> DEFINE d == Pool * Stride
<1>1. d \in Nat \ {0} /\ Pool \in Nat \ {0} /\ Stride \in Nat \ {0}
  BY SizeAssumption
<1>2. n > Stride /\ b \in Nat /\ b >= 1 /\ b <= (n - Stride) \div d
  BY DEF DerivedAt
<1>3. n - Stride \in Nat
  BY <1>1, <1>2
<1>4. b * d <= ((n - Stride) \div d) * d /\ ((n - Stride) \div d) * d <= n - Stride
      /\ b * d \in Nat /\ ((n - Stride) \div d) * d \in Nat
  <2> HIDE DEF d
  <2> QED
    BY <1>1, <1>2, <1>3, TimesMonotone, Division
<1>5. b * d <= n - Stride
  BY <1>3, <1>4
<1>6. Pool * b \in Nat /\ Pool * (b - 1) \in Nat /\ b * d = (Pool * b) * Stride
  BY <1>1, <1>2
<1>7. v \in Nat /\ v >= 1 /\ v <= Pool * b
  BY <1>6
<1>8. v * Stride <= (Pool * b) * Stride /\ v * Stride \in Nat
  BY <1>1, <1>6, <1>7, TimesMonotone
<1>9. (v + 1) * Stride = (v * Stride) + Stride
  BY <1>1, <1>7
<1>10. (v + 1) * Stride <= n
  BY <1>1, <1>3, <1>5, <1>6, <1>8, <1>9
<1>11. ~((n \div Stride) + 1 <= v + 1)
  <2> SUFFICES ASSUME (n \div Stride) + 1 <= v + 1 PROVE FALSE
    OBVIOUS
  <2>1. /\ n \div Stride \in Nat /\ n < ((n \div Stride) + 1) * Stride
        /\ ((n \div Stride) + 1) * Stride \in Nat
    BY <1>1, Division
  <2>2. ((n \div Stride) + 1) * Stride <= (v + 1) * Stride
    BY <1>1, <1>7, <2>1, TimesMonotone
  <2> QED
    BY <1>1, <1>7, <1>10, <2>1, <2>2
<1>12. v + 1 <= n \div Stride /\ n \div Stride \in Nat
  BY <1>1, <1>7, <1>11, Division
<1> QED
  BY <1>7, <1>12 DEF DerivedAt

-----------------------------------------------------------------------------
(* What the handlers compute. *)

(* Every layer's record has the fields EXCEPT needs. *)
LEMMA SynchronizedFields ==
  ASSUME IInv, NEW l \in Layer
  PROVE  /\ DOMAIN Synchronized = Layer /\ DOMAIN Synchronized[l] = LayerFields
         /\ Synchronized[l].cis = layer[l].cis
         /\ Synchronized[l].written = layer[l].written
         /\ Synchronized[l].finite = layer[l].finite
         /\ Synchronized[l].keys = layer[l].keys
         /\ Synchronized[l].compressedCis = layer[l].compressedCis
         /\ Synchronized[l].pooledCis = layer[l].pooledCis
         /\ Synchronized[l].committed = layer[l].committed
         /\ Synchronized[l].pending = layer[l].pending
  BY DEF IInv, Shaped, LayerFields, Synchronized

(* A synchronization brings the suffix to the layers that wait for it, and *)
(* leaves every other row.                                                 *)
LEMMA SynchronizedRows ==
  ASSUME IInv, NEW l \in Layer, NEW i \in Position
  PROVE  Synchronized[l].records[i] =
           IF i \in AppendRows /\ \E k \in DOMAIN copies : copies[k].layer = l
           THEN step.number ELSE layer[l].records[i]
<1>1. Synchronized[l].records[i] =
        IF CopiesTo(l, i) = {} THEN layer[l].records[i] ELSE copies[Max(CopiesTo(l, i))].number
  BY DEF IInv, Shaped, LayerFields, Synchronized
<1>2. Len(copies) \in Nat /\ DOMAIN copies = 1 .. Len(copies)
  BY LenProperties DEF IInv, Shaped
<1>3. CopiesTo(l, i) \in SUBSET (1 .. Len(copies))
  BY <1>2 DEF CopiesTo
<1>4. CASE CopiesTo(l, i) = {}
  BY <1>1, <1>4 DEF CopiesTo, IInv, CopiesOK
<1>5. CASE CopiesTo(l, i) # {}
  <2>1. Max(CopiesTo(l, i)) \in CopiesTo(l, i)
    BY <1>2, <1>3, <1>5, LastIn
  <2> QED
    BY <1>1, <1>5, <2>1 DEF CopiesTo, IInv, CopiesOK
<1> QED
  BY <1>4, <1>5

(* What holds of a step while it is pending. *)
LEMMA StepFacts ==
  ASSUME IInv
  PROVE  /\ main.length \in 0 .. Capacity /\ main.length = Len(history) /\ main = indexer
         /\ Stepping => /\ main.pendingEnd \in 1 .. Capacity /\ main.length < main.pendingEnd
                        /\ step.number \in 1 .. MaxSteps
         /\ Stepping => AppendRows \subseteq Position
         /\ Capacity \in Nat \ {0}
  BY SizeAssumption DEF IInv, StepOK, TypeOK, Cursor, Stepping, AppendRows, Position

(* No pending state is None, and what a layer has covers its reach. *)
LEMMA ReachFacts ==
  ASSUME IInv, NEW l \in Layer
  PROVE  /\ Reach(l) \in 0 .. Capacity
         /\ LayerState(l) = DerivedAt(Reach(l))
         /\ layer[l].pending # None => Stepping /\ Reach(l) = main.pendingEnd
         /\ layer[l].pending = None => Reach(l) = main.length
         /\ Stepping => (IsPrepared(l) <=> layer[l].pending # None)
<1>1. CASE layer[l].pending = None
  <2>1. Reach(l) = main.length /\ LayerState(l) = DerivedAt(main.length)
    BY <1>1 DEF Reach, LayerState, IInv, StateOK
  <2>2. Stepping => ~IsPrepared(l)
    <3> SUFFICES ASSUME Stepping PROVE ~IsPrepared(l)
      OBVIOUS
    <3>1. main.length \in Nat /\ main.pendingEnd \in Nat /\ main.length # main.pendingEnd
      BY StepFacts
    <3>2. DerivedAt(main.length).validated # DerivedAt(main.pendingEnd).validated
      BY <3>1, DerivedTypes
    <3> QED
      BY <2>1, <3>2 DEF IsPrepared
  <2> QED
    BY <1>1, <2>1, <2>2, StepFacts
<1>2. CASE layer[l].pending # None
  <2>1. Reach(l) = main.pendingEnd /\ LayerState(l) = DerivedAt(main.pendingEnd) /\ Stepping
    BY <1>2 DEF Reach, LayerState, IInv, StateOK
  <2> QED
    BY <1>2, <2>1, StepFacts DEF IsPrepared
<1> QED
  BY <1>1, <1>2

(* A layer that has written holds the step's CIS rows, and a layer never   *)
(* anything but the history before them.                                   *)
LEMMA RowsAre ==
  ASSUME IInv, NEW l \in Layer, Stepping, NEW i \in 0 .. main.pendingEnd - 1
  PROVE  /\ Appended(l, i) = Record(i)
         /\ layer[l].written => layer[l].cis[i] = Record(i)
<1>1. main.length \in Nat /\ main.pendingEnd \in Nat /\ main.length = Len(history)
  BY StepFacts
<1>2. CASE i < main.length
  <2>1. i \in 0 .. Len(history) - 1
    BY <1>1, <1>2
  <2> QED
    BY <1>2, <2>1 DEF Record, Appended, IInv, CommittedRowsKept
<1>3. CASE ~(i < main.length)
  <2>1. i \in AppendRows
    BY <1>1, <1>3 DEF AppendRows
  <2> QED
    BY <1>3, <2>1 DEF Record, Appended, IInv, WrittenOK
<1> QED
  BY <1>2, <1>3

(* prepare_indexer_inputs leaves the rest of the layer alone. *)
LEMMA PreparedFields ==
  ASSUME IInv, NEW l \in Layer
  PROVE  /\ DOMAIN Prepared(l) = LayerFields
         /\ Prepared(l).records = layer[l].records
         /\ Prepared(l).cis = layer[l].cis
         /\ Prepared(l).written = layer[l].written
         /\ Prepared(l).finite = layer[l].finite
         /\ Prepared(l).committed = layer[l].committed
         /\ Prepared(l).pending = DerivedAt(main.pendingEnd)
<1>1. DOMAIN layer[l] = LayerFields
  BY DEF IInv, Shaped
<1> QED
  BY <1>1, Zenon DEF Prepared, LayerFields

(* What prepare_indexer_inputs writes is derived from the rows of the      *)
(* history and of the step, also where the buffers keep what they held.    *)
LEMMA PreparedDerived ==
  ASSUME IInv, NEW l \in Layer, Stepping, layer[l].written
  PROVE  /\ \A w \in 1 .. DerivedAt(main.pendingEnd).compressed :
              /\ Prepared(l).keys[w] = WindowAt(w - 1)
              /\ Prepared(l).compressedCis[w] = WindowAt(w - 1)
         /\ \A b \in 1 .. DerivedAt(main.pendingEnd).pooled :
              Prepared(l).pooledCis[b] =
                [w \in {v \in Pool * (b - 1) .. Pool * b : v > 0} |-> WindowAt(w - 1)]
<1> DEFINE old == LayerState(l)
           new == DerivedAt(main.pendingEnd)
           rows == [i \in 0 .. main.pendingEnd - 1 |-> Appended(l, i)]
           cis == [w \in 1 .. new.compressed |->
                     IF w <= old.compressed THEN layer[l].compressedCis[w]
                     ELSE Window(layer[l].cis, w - 1)]
<1>1. DOMAIN layer[l] = LayerFields
  BY DEF IInv, Shaped
<1>2. Prepared(l).keys = [w \in 1 .. new.compressed |->
         IF w <= old.compressed THEN layer[l].keys[w] ELSE Window(rows, w - 1)]
  BY <1>1 DEF Prepared, LayerFields, Rewritten
<1>3. Prepared(l).compressedCis = cis
  BY <1>1 DEF Prepared, LayerFields, Rewritten
<1>4. Prepared(l).pooledCis = [b \in 1 .. new.pooled |->
         IF b <= old.pooled THEN layer[l].pooledCis[b] ELSE PoolOf(cis, b - 1)]
  BY <1>1 DEF Prepared, LayerFields, Rewritten
<1>5. /\ main.pendingEnd \in Nat /\ Reach(l) \in Nat
      /\ old = DerivedAt(Reach(l)) /\ DerivedFrom(l, Reach(l))
  BY StepFacts, ReachFacts DEF IInv, DerivedOK
<1>6. ASSUME NEW w \in 1 .. new.compressed
      PROVE  Window(rows, w - 1) = WindowAt(w - 1) /\ Window(layer[l].cis, w - 1) = WindowAt(w - 1)
  <2>1. ASSUME NEW i \in 1 .. 2 * Stride
        PROVE  /\ rows[((w - 1) * Stride) + i - 1] = Record(((w - 1) * Stride) + i - 1)
               /\ layer[l].cis[((w - 1) * Stride) + i - 1] = Record(((w - 1) * Stride) + i - 1)
    <3> DEFINE at == ((w - 1) * Stride) + i - 1
    <3>1. at \in 0 .. main.pendingEnd - 1
      BY <1>5, WindowWithin
    <3> HIDE DEF at
    <3>2. rows[at] = Record(at) /\ layer[l].cis[at] = Record(at)
      BY <3>1, RowsAre
    <3> QED
      BY <3>2 DEF at
  <2> HIDE DEF rows
  <2> QED
    BY <2>1 DEF Window, WindowAt
<1>7. ASSUME NEW w \in 1 .. new.compressed
      PROVE  Prepared(l).keys[w] = WindowAt(w - 1) /\ cis[w] = WindowAt(w - 1)
  <2>1. CASE w <= old.compressed
    <3>1. w \in 1 .. DerivedAt(Reach(l)).compressed
      BY <1>5, <2>1, DerivedTypes
    <3> QED
      BY <1>2, <1>5, <2>1, <3>1 DEF DerivedFrom
  <2>2. CASE ~(w <= old.compressed)
    BY <1>2, <1>6, <2>2
  <2> QED
    BY <2>1, <2>2
<1>8. ASSUME NEW b \in 1 .. new.pooled
      PROVE  Prepared(l).pooledCis[b] =
               [w \in {v \in Pool * (b - 1) .. Pool * b : v > 0} |-> WindowAt(w - 1)]
  <2>1. CASE b <= old.pooled
    <3>1. b \in 1 .. DerivedAt(Reach(l)).pooled
      BY <1>5, <2>1, DerivedTypes
    <3> QED
      BY <1>4, <1>5, <2>1, <3>1 DEF DerivedFrom
  <2>2. CASE ~(b <= old.pooled)
    <3>1. Prepared(l).pooledCis[b] = PoolOf(cis, b - 1)
      BY <1>4, <2>2
    <3>2. Pool * (b - 1) + Pool = Pool * b
      BY SizeAssumption
    <3>3. PoolOf(cis, b - 1) = [w \in {v \in Pool * (b - 1) .. Pool * b : v > 0} |-> cis[w]]
      BY <3>2 DEF PoolOf
    <3>4. \A w \in {v \in Pool * (b - 1) .. Pool * b : v > 0} : cis[w] = WindowAt(w - 1)
      <4> HIDE DEF cis, new
      <4> SUFFICES ASSUME NEW w \in Pool * (b - 1) .. Pool * b, w > 0 PROVE cis[w] = WindowAt(w - 1)
        OBVIOUS
      <4>1. w \in 1 .. new.compressed
        BY <1>5, BlockWithin DEF new
      <4> QED
        BY <1>7, <4>1
    <3> HIDE DEF cis
    <3> QED
      BY <3>1, <3>3, <3>4, Zenon
  <2> QED
    BY <2>1, <2>2
<1> QED
  BY <1>3, <1>7, <1>8

(* Derived records of fewer tokens are among those of more. *)
LEMMA DerivedOfFewer ==
  ASSUME NEW l \in Layer, NEW n \in Nat, NEW m \in Nat, m <= n, DerivedFrom(l, n)
  PROVE  DerivedFrom(l, m)
<1>1. /\ DerivedAt(m).compressed \in Nat /\ DerivedAt(n).compressed \in Nat
      /\ DerivedAt(m).pooled \in Nat /\ DerivedAt(n).pooled \in Nat
      /\ DerivedAt(m).compressed <= DerivedAt(n).compressed
      /\ DerivedAt(m).pooled <= DerivedAt(n).pooled
  BY DerivedTypes, DerivedMonotone
<1>2. /\ 1 .. DerivedAt(m).compressed \subseteq 1 .. DerivedAt(n).compressed
      /\ 1 .. DerivedAt(m).pooled \subseteq 1 .. DerivedAt(n).pooled
  BY <1>1
<1> QED
  BY <1>2, Zenon DEF DerivedFrom

(* Derived records that a step of the program leaves alone still belong to *)
(* the first m rows if these keep their records.                           *)
LEMMA DerivedKept ==
  ASSUME NEW l \in Layer, NEW m \in Nat, DerivedFrom(l, m),
         \A i \in 0 .. m - 1 : Record(i)' = Record(i),
         layer'[l].keys = layer[l].keys,
         layer'[l].compressedCis = layer[l].compressedCis,
         layer'[l].pooledCis = layer[l].pooledCis
  PROVE  DerivedFrom(l, m)'
<1>1. ASSUME NEW w \in 1 .. DerivedAt(m).compressed PROVE WindowAt(w - 1)' = WindowAt(w - 1)
  <2>1. ASSUME NEW i \in 1 .. 2 * Stride
        PROVE  Record(((w - 1) * Stride) + i - 1)' = Record(((w - 1) * Stride) + i - 1)
    BY WindowWithin
  <2> QED
    BY <2>1 DEF WindowAt
<1>2. ASSUME NEW b \in 1 .. DerivedAt(m).pooled
      PROVE  [w \in {v \in Pool * (b - 1) .. Pool * b : v > 0} |-> WindowAt(w - 1)'] =
             [w \in {v \in Pool * (b - 1) .. Pool * b : v > 0} |-> WindowAt(w - 1)]
  <2>1. \A w \in {v \in Pool * (b - 1) .. Pool * b : v > 0} : WindowAt(w - 1)' = WindowAt(w - 1)
    <3> SUFFICES ASSUME NEW w \in Pool * (b - 1) .. Pool * b, w > 0
                 PROVE  WindowAt(w - 1)' = WindowAt(w - 1)
      OBVIOUS
    <3>1. w \in 1 .. DerivedAt(m).compressed
      BY BlockWithin
    <3> QED
      BY <1>1, <3>1
  <2> QED
    BY <2>1, Zenon
<1> QED
  BY <1>1, <1>2 DEF DerivedFrom

-----------------------------------------------------------------------------
(* Each step keeps the invariant. *)

(* The types of what a layer holds, for a layer that a step changes. *)
LayerTyped(record) ==
  /\ DOMAIN record = LayerFields
  /\ record.records \in [Position -> 0 .. MaxSteps]
  /\ record.cis \in [Position -> 0 .. MaxSteps]
  /\ record.written \in BOOLEAN /\ record.finite \in BOOLEAN
  /\ record.committed \in IndexerLayerState
  /\ record.pending \in IndexerLayerState \cup {None}

(* TypeOK and Shaped type every layer. *)
LEMMA LayersTyped == IInv => \A l \in Layer : LayerTyped(layer[l])
  BY DEF IInv, TypeOK, Shaped, LayerTyped

(* A state of the indexer that covers no more than the capacity. *)
LEMMA DerivedTyped ==
  ASSUME NEW n \in 0 .. Capacity
  PROVE  DerivedAt(n) \in IndexerLayerState /\ DerivedAt(n) # None
<1>1. n \in Nat
  OBVIOUS
<1>2. DerivedAt(n) = [compressed |-> DerivedAt(n).compressed, pooled |-> DerivedAt(n).pooled,
                      validated |-> n]
  BY DEF DerivedAt
<1>3. DerivedAt(n).compressed \in Nat /\ DerivedAt(n).pooled \in Nat
  BY <1>1, DerivedTypes
<1>4. DerivedAt(n) \in IndexerLayerState
  BY <1>2, <1>3 DEF IndexerLayerState
<1>5. DerivedAt(n) # None
  BY <1>1, DerivedTypes, SizeAssumption
<1> QED
  BY <1>4, <1>5

(* A fresh layer covers nothing. *)
LEMMA NothingAtFirst ==
  /\ DerivedAt(0) = NothingDerived /\ NothingDerived.compressed = 0 /\ NothingDerived.pooled = 0
  /\ LayerTyped(FreshLayer)
<1>1. DerivedAt(0) = NothingDerived /\ NothingDerived.compressed = 0 /\ NothingDerived.pooled = 0
  <2>1. Stride \in Nat \ {0} /\ 0 * Stride = 0 /\ 1 * Stride = Stride
    BY SizeAssumption
  <2>2. 0 \div Stride \in Nat /\ (0 \div Stride) * Stride <= 0
    BY <2>1, Division
  <2>3. ~(1 <= 0 \div Stride)
    BY <2>1, <2>2, TimesMonotone
  <2>4. ~(0 \div Stride > 1) /\ ~(0 > Stride)
    BY <2>1, <2>2, <2>3
  <2> QED
    BY <2>4 DEF DerivedAt, NothingDerived
<1>2. NothingDerived \in IndexerLayerState
  BY <1>1, DerivedTyped, SizeAssumption
<1>3. LayerTyped(FreshLayer)
  BY <1>2, SizeAssumption DEF LayerTyped, FreshLayer, LayerFields, Blank
<1> QED
  BY <1>1, <1>3

(* At first nothing is written or derived. *)
LEMMA InitInvariant == Init => IInv
<1> SUFFICES ASSUME Init PROVE IInv
  OBVIOUS
<1>1. /\ \A l \in Layer : layer[l] = FreshLayer
      /\ main.length = 0 /\ main.pendingEnd = None /\ ~Stepping /\ Len(history) = 0
      /\ 0 \in 0 .. Capacity
  BY SizeAssumption DEF Init, Stepping
<1>2. TypeOK
  <2>1. main \in Cursor /\ indexer \in Cursor
    BY <1>1 DEF Init, Cursor
  <2>2. step \in [number : 0 .. MaxSteps, deferred : BOOLEAN, seen : SUBSET Layer]
    BY SizeAssumption DEF Init
  <2> QED
    BY <1>1, <2>1, <2>2, NothingAtFirst DEF Init, TypeOK, LayerTyped
<1>3. Shaped
  BY <1>1, NothingAtFirst DEF Init, Shaped, LayerTyped
<1>4. StepOK /\ CopiesOK
  BY <1>1 DEF Init, StepOK, CopiesOK
<1>5. StateOK /\ WrittenOK
  BY <1>1, NothingAtFirst DEF StateOK, WrittenOK, FreshLayer
<1>6. CommittedRowsKept
  BY <1>1 DEF CommittedRowsKept
<1>7. DerivedOK
  BY <1>1, NothingAtFirst DEF DerivedOK, DerivedFrom, Reach, FreshLayer
<1> QED
  BY <1>2, <1>3, <1>4, <1>5, <1>6, <1>7 DEF IInv

(* A raise in the forward, or an abort that cannot synchronize, only moves *)
(* the driver on.                                                          *)
LEMMA FailInvariant ==
  ASSUME IInv, Fail \/ AbortFails PROVE IInv'
<1>1. /\ driver \in {"step", "unwinding"} /\ driver' \in {"unwinding", "broken"}
      /\ UNCHANGED <<backend, main, indexer, layer, copies, step, history>>
  BY DEF Fail, AbortFails
<1>2. TypeOK' /\ Shaped'
  BY <1>1 DEF IInv, TypeOK, Shaped
<1>3. StepOK' /\ CopiesOK' /\ StateOK' /\ WrittenOK'
  BY <1>1 DEF IInv, StepOK, CopiesOK, StateOK, WrittenOK, Stepping, Offload, AppendRows
<1>4. CommittedRowsKept'
  BY <1>1 DEF IInv, CommittedRowsKept
<1>5. DerivedOK'
  BY <1>1 DEF IInv, DerivedOK, DerivedFrom, Reach, WindowAt, Record
<1> QED
  BY <1>2, <1>3, <1>4, <1>5 DEF IInv

(* A landing copy brings its layer the suffix, and is gone. *)
LEMMA CopyLandsInvariant ==
  ASSUME IInv, CopyLands PROVE IInv'
<1> DEFINE L == copies[1].layer
<1>1. /\ copies # <<>> /\ layer' = Landed(layer, Head(copies)) /\ copies' = Tail(copies)
      /\ UNCHANGED <<backend, main, indexer, driver, step, history>>
  BY DEF CopyLands
<1>2. /\ Len(copies) \in Nat /\ DOMAIN copies = 1 .. Len(copies) /\ 1 \in DOMAIN copies
      /\ copies \in Seq(Copy) /\ copies[1] \in Copy /\ Head(copies) = copies[1]
  BY <1>1, EmptySeq, LenProperties, ElementOfSeq DEF IInv, Shaped
<1>3. /\ L \in Layer /\ copies[1].rows = AppendRows /\ copies[1].number = step.number
      /\ Stepping /\ Offload
  BY <1>1, <1>2 DEF Copy, IInv, CopiesOK
<1>4. /\ copies' \in Seq(Copy) /\ DOMAIN copies' = 1 .. Len(copies) - 1
      /\ \A k \in DOMAIN copies' : k + 1 \in DOMAIN copies /\ copies'[k] = copies[k + 1]
  BY <1>1, <1>2, HeadTailProperties, LenProperties
<1>5. \A k \in DOMAIN copies : k = 1 \/ (k - 1 \in DOMAIN copies' /\ copies'[k - 1] = copies[k])
  BY <1>2, <1>4, SMTT(40)
<1>6. /\ DOMAIN layer' = Layer
      /\ \A l \in Layer \ {L} : layer'[l] = layer[l]
      /\ DOMAIN layer'[L] = LayerFields
      /\ layer'[L].records = [i \in Position |-> IF i \in AppendRows THEN step.number ELSE layer[L].records[i]]
      /\ layer'[L].cis = layer[L].cis
      /\ layer'[L].written = layer[L].written
      /\ layer'[L].finite = layer[L].finite
      /\ layer'[L].keys = layer[L].keys
      /\ layer'[L].compressedCis = layer[L].compressedCis
      /\ layer'[L].pooledCis = layer[L].pooledCis
      /\ layer'[L].committed = layer[L].committed
      /\ layer'[L].pending = layer[L].pending
  BY <1>1, <1>2, <1>3 DEF Landed, IInv, Shaped, LayerFields
<1>7. step.number \in 0 .. MaxSteps /\ main.length = Len(history) /\ main.length \in Nat
  BY <1>3, StepFacts
<1>8. TypeOK'
  <2>1. \A l \in Layer : LayerTyped(layer'[l])
    <3>1. layer'[L].records \in [Position -> 0 .. MaxSteps]
      BY <1>3, <1>6, <1>7, LayersTyped DEF LayerTyped
    <3>2. LayerTyped(layer[L]) /\ \A l \in Layer : LayerTyped(layer[l])
      BY <1>3, LayersTyped
    <3>3. LayerTyped(layer'[L])
      BY <1>6, <3>1, <3>2 DEF LayerTyped
    <3> QED
      BY <1>6, <3>2, <3>3, SMTT(40)
  <2>2. \A k \in DOMAIN copies' :
          copies'[k] \in [layer : Layer, rows : SUBSET Position, number : 1 .. MaxSteps]
    BY <1>4, ElementOfSeq DEF Copy, IInv, TypeOK
  <2> QED
    BY <1>1, <2>1, <2>2 DEF IInv, TypeOK, LayerTyped
<1>9. Shaped'
  BY <1>3, <1>4, <1>6 DEF IInv, Shaped, Copy
<1>10. StepOK' /\ CopiesOK'
  BY <1>1, <1>3, <1>4, SMTT(40) DEF IInv, StepOK, CopiesOK, Stepping, Offload, AppendRows
<1>11. StateOK'
  BY <1>1, <1>3, <1>6, SMTT(40) DEF IInv, StateOK, Stepping
<1>12. WrittenOK'
  <2> SUFFICES ASSUME NEW l \in Layer, layer[l].written, NEW i \in AppendRows
               PROVE  /\ layer'[l].cis[i] = step.number
                      /\ (\A k \in DOMAIN copies' : copies'[k].layer # l)
                           => layer'[l].records[i] = step.number
    BY <1>1, <1>3, <1>6 DEF WrittenOK, AppendRows
  <2>1. i \in Position
    BY <1>3, StepFacts
  <2>2. layer[l].cis[i] = step.number
    BY SMTT(40) DEF IInv, WrittenOK
  <2>3. CASE l = L
    BY <1>6, <2>1, <2>2, <2>3
  <2>4. CASE l # L
    <3>1. ASSUME \A k \in DOMAIN copies' : copies'[k].layer # l
          PROVE  \A k \in DOMAIN copies : copies[k].layer # l
      BY <1>5, <2>4, <3>1
    <3>2. layer'[l] = layer[l]
      BY <1>6, <2>4
    <3> QED
      BY <2>2, <3>1, <3>2 DEF IInv, WrittenOK
  <2> QED
    BY <2>3, <2>4
<1>13. CommittedRowsKept'
  <2> SUFFICES ASSUME NEW l \in Layer, NEW i \in 0 .. Len(history) - 1
               PROVE  layer'[l].records[i] = history[i + 1] /\ layer'[l].cis[i] = history[i + 1]
    BY <1>1 DEF CommittedRowsKept
  <2>1. layer[l].records[i] = history[i + 1] /\ layer[l].cis[i] = history[i + 1]
    BY DEF IInv, CommittedRowsKept
  <2>2. i \notin AppendRows /\ i \in Position
    BY <1>7, StepFacts DEF AppendRows, Position
  <2> QED
    BY <1>6, <2>1, <2>2
<1>14. DerivedOK'
  <2> SUFFICES ASSUME NEW l \in Layer PROVE DerivedFrom(l, Reach(l))'
    BY DEF DerivedOK
  <2>1. /\ layer'[l].keys = layer[l].keys /\ layer'[l].compressedCis = layer[l].compressedCis
        /\ layer'[l].pooledCis = layer[l].pooledCis /\ layer'[l].pending = layer[l].pending
    BY <1>3, <1>6
  <2>2. PICK m \in Nat : Reach(l) = m /\ Reach(l)' = m
    BY <1>1, <2>1, ReachFacts DEF Reach
  <2>3. \A i \in 0 .. m - 1 : Record(i)' = Record(i)
    BY <1>1 DEF Record
  <2>4. DerivedFrom(l, m)
    BY <2>2 DEF IInv, DerivedOK
  <2>5. DerivedFrom(l, m)'
    BY <2>1, <2>3, <2>4, DerivedKept
  <2> QED
    BY <2>2, <2>5
<1> QED
  BY <1>8, <1>9, <1>10, <1>11, <1>12, <1>13, <1>14 DEF IInv

(* A new step: nothing is written, nothing prepared. *)
LEMMA BeginStepInvariant ==
  ASSUME IInv, NEW end \in 1 .. Capacity, NEW deferred \in BOOLEAN, BeginStep(end, deferred)
  PROVE  IInv'
<1>1. /\ driver = "idle" /\ step.number < MaxSteps /\ ~Stepping
      /\ end \in main.length + 1 .. Capacity
      /\ main' = [main EXCEPT !.pendingEnd = end]
      /\ indexer' = [indexer EXCEPT !.pendingEnd = end]
      /\ layer' = [l \in Layer |-> [layer[l] EXCEPT !.written = FALSE, !.finite = TRUE]]
      /\ driver' = "step"
      /\ step' = [number |-> step.number + 1, deferred |-> deferred, seen |-> {}]
      /\ UNCHANGED <<backend, copies, history>>
  BY DEF BeginStep
<1>2. /\ main \in Cursor /\ indexer \in Cursor /\ main = indexer
      /\ main.length \in 0 .. Capacity /\ main.length = Len(history) /\ copies = <<>>
      /\ step.number \in 0 .. MaxSteps /\ Capacity \in Nat /\ MaxSteps \in Nat
  BY <1>1, StepFacts, SizeAssumption DEF IInv, TypeOK, CopiesOK
<1>3. /\ main' \in Cursor /\ indexer' = main' /\ main'.length = main.length
      /\ main'.pendingEnd = end /\ Stepping' /\ step'.number = step.number + 1
      /\ step'.number \in 1 .. MaxSteps
  <2>1. /\ main'.length = main.length /\ main'.pendingEnd = end
        /\ main' = [length |-> main.length, pendingEnd |-> end]
    BY <1>1, <1>2 DEF Cursor
  <2>2. end \in 1 .. Capacity /\ end # None
    BY SizeAssumption
  <2>3. main' \in Cursor
    BY <1>2, <2>1, <2>2 DEF Cursor
  <2>4. indexer' = main'
    BY <1>1, <1>2, Zenon
  <2>5. step'.number = step.number + 1
    BY <1>1
  <2>6. step'.number \in 1 .. MaxSteps
    <3>1. step.number < MaxSteps
      BY <1>1
    <3> QED
      BY <1>2, <2>5, <3>1
  <2> QED
    BY <2>1, <2>2, <2>3, <2>4, <2>5, <2>6 DEF Stepping
<1>31. driver' = "step" /\ copies' = copies /\ history' = history /\ backend' = backend
  BY <1>1
<1>4. /\ DOMAIN layer' = Layer
      /\ \A l \in Layer :
           /\ DOMAIN layer'[l] = LayerFields
           /\ layer'[l].records = layer[l].records
           /\ layer'[l].cis = layer[l].cis
           /\ layer'[l].written = FALSE
           /\ layer'[l].finite = TRUE
           /\ layer'[l].keys = layer[l].keys
           /\ layer'[l].compressedCis = layer[l].compressedCis
           /\ layer'[l].pooledCis = layer[l].pooledCis
           /\ layer'[l].committed = layer[l].committed
           /\ layer'[l].pending = layer[l].pending
  BY <1>1 DEF IInv, Shaped, LayerFields
<1>5. \A l \in Layer : layer[l].pending = None
  BY <1>1 DEF IInv, StateOK
<1>6. TypeOK'
  <2>1. \A l \in Layer : LayerTyped(layer'[l])
    BY <1>4, LayersTyped DEF LayerTyped
  <2>2. step' \in [number : 0 .. MaxSteps, deferred : BOOLEAN, seen : SUBSET Layer]
    <3>1. step.number + 1 \in 0 .. MaxSteps
      BY <1>2, <1>3, SMTT(40)
    <3> QED
      BY <1>1, <3>1
  <2> QED
    BY <1>31, <1>2, <1>3, <2>1, <2>2 DEF IInv, TypeOK, LayerTyped
<1>7. Shaped'
  BY <1>1, <1>4 DEF IInv, Shaped
<1>8. StepOK'
  <2>1. end \in main.length + 1 .. Capacity
    BY <1>1
  <2>2. main.length < end /\ end <= Capacity
    BY <1>2, <2>1
  <2>3. step'.number > 0
    BY <1>3
  <2> QED
    BY <1>2, <1>3, <1>31, <2>2, <2>3 DEF StepOK
<1>9. CopiesOK'
  BY <1>2, <1>3, <1>31 DEF CopiesOK
<1>10. StateOK' /\ WrittenOK'
  BY <1>3, <1>4, <1>5 DEF IInv, StateOK, WrittenOK
<1>11. CommittedRowsKept'
  BY <1>31, <1>4 DEF IInv, CommittedRowsKept
<1>12. DerivedOK'
  <2> SUFFICES ASSUME NEW l \in Layer PROVE DerivedFrom(l, Reach(l))'
    BY DEF DerivedOK
  <2>1. PICK m \in Nat : m = main.length
    BY <1>2
  <2>2. Reach(l) = m /\ Reach(l)' = m
    BY <1>3, <1>4, <1>5, <2>1 DEF Reach
  <2>3. \A i \in 0 .. m - 1 : Record(i)' = Record(i)
    BY <1>3, <1>31, <2>1 DEF Record
  <2>4. DerivedFrom(l, m)
    BY <2>2 DEF IInv, DerivedOK
  <2>5. DerivedFrom(l, m)'
    BY <1>4, <2>3, <2>4, DerivedKept
  <2> QED
    BY <2>2, <2>5
<1> QED
  BY <1>6, <1>7, <1>8, <1>9, <1>10, <1>11, <1>12 DEF IInv

(* Writing a layer puts the suffix into it, or sends it on its way. *)
LEMMA WriteLayerInvariant ==
  ASSUME IInv, NEW L \in Layer, NEW finite \in BOOLEAN, WriteLayer(L, finite)
  PROVE  IInv'
<1> DEFINE copy == [layer |-> L, rows |-> AppendRows, number |-> step.number]
<1>1. /\ driver = "step" /\ Stepping /\ ~layer[L].written
      /\ layer' = [layer EXCEPT ![L].written = TRUE, ![L].finite = finite,
                                ![L].records = MainWritten(@), ![L].cis = WithAppend(@)]
      /\ copies' = IF Offload THEN Append(copies, copy) ELSE copies
      /\ UNCHANGED <<backend, main, indexer, driver, step, history>>
  BY DEF WriteLayer
<1>2. /\ main.length \in Nat /\ main.length = Len(history) /\ AppendRows \subseteq Position
      /\ step.number \in 1 .. MaxSteps /\ MaxSteps \in Nat
  BY <1>1, StepFacts, SizeAssumption
<1>3. /\ DOMAIN layer' = Layer
      /\ \A l \in Layer \ {L} : layer'[l] = layer[l]
      /\ DOMAIN layer'[L] = LayerFields
      /\ layer'[L].records = MainWritten(layer[L].records)
      /\ layer'[L].cis = WithAppend(layer[L].cis)
      /\ layer'[L].written = TRUE
      /\ layer'[L].finite = finite
      /\ layer'[L].keys = layer[L].keys
      /\ layer'[L].compressedCis = layer[L].compressedCis
      /\ layer'[L].pooledCis = layer[L].pooledCis
      /\ layer'[L].committed = layer[L].committed
      /\ layer'[L].pending = layer[L].pending
  BY <1>1 DEF IInv, Shaped, LayerFields
<1>4. /\ \A i \in AppendRows : layer'[L].cis[i] = step.number
      /\ ~Offload => \A i \in AppendRows : layer'[L].records[i] = step.number
      /\ \A i \in Position \ AppendRows :
           layer'[L].cis[i] = layer[L].cis[i] /\ layer'[L].records[i] = layer[L].records[i]
  BY <1>2, <1>3 DEF MainWritten, WithAppend
<1>5. copy \in Copy
  BY <1>2 DEF Copy
<1>6. copies \in Seq(Copy) /\ Len(copies) \in Nat /\ DOMAIN copies = 1 .. Len(copies)
  BY LenProperties DEF IInv, Shaped
<1>7. Append(copies, copy) \in Seq(Copy)
  BY <1>5, <1>6, AppendProperties
<1>8. /\ Len(Append(copies, copy)) = Len(copies) + 1
      /\ DOMAIN Append(copies, copy) = 1 .. Len(copies) + 1
      /\ Append(copies, copy)[Len(copies) + 1] = copy
      /\ \A k \in 1 .. Len(copies) : Append(copies, copy)[k] = copies[k]
  <2> HIDE DEF copy
  <2> QED
    BY <1>5, <1>6, <1>7, AppendProperties, LenProperties
<1>9. copies' \in Seq(Copy)
  BY <1>1, <1>6, <1>7
<1>10. /\ DOMAIN copies \subseteq DOMAIN copies'
       /\ \A k \in DOMAIN copies : copies'[k] = copies[k]
       /\ \A k \in DOMAIN copies' : k \notin DOMAIN copies => copies'[k] = copy
       /\ Offload => Len(copies) + 1 \in DOMAIN copies' /\ copies'[Len(copies) + 1] = copy
  <2> HIDE DEF copy
  <2> QED
    BY <1>1, <1>6, <1>8
<1>11. layer[L].pending = None
  BY <1>1, SMTT(40) DEF IInv, StateOK
<1>12. TypeOK'
  <2>1. layer'[L].records \in [Position -> 0 .. MaxSteps] /\ layer'[L].cis \in [Position -> 0 .. MaxSteps]
    BY <1>2, <1>3, LayersTyped DEF LayerTyped, MainWritten, WithAppend
  <2>2. \A l \in Layer : LayerTyped(layer'[l])
    BY <1>3, <2>1, LayersTyped, ZenonT(60) DEF LayerTyped
  <2>3. \A k \in DOMAIN copies' :
          copies'[k] \in [layer : Layer, rows : SUBSET Position, number : 1 .. MaxSteps]
    <3> HIDE DEF copy
    <3> QED
      BY <1>5, <1>9, <1>10 DEF Copy, IInv, TypeOK
  <2> QED
    BY <1>1, <2>2, <2>3 DEF IInv, TypeOK, LayerTyped
<1>13. Shaped'
  BY <1>3, <1>9 DEF IInv, Shaped, Copy
<1>14. StepOK'
  BY <1>1 DEF IInv, StepOK, Stepping
<1>15. CopiesOK'
  <2>1. \A k \in DOMAIN copies' : copies'[k].rows = AppendRows /\ copies'[k].number = step.number
    BY <1>10 DEF IInv, CopiesOK
  <2> QED
    BY <1>1, <2>1 DEF IInv, CopiesOK, Stepping, Offload, AppendRows
<1>16. StateOK'
  BY <1>1, <1>3, <1>11 DEF IInv, StateOK, Stepping
<1>17. WrittenOK'
  <2> SUFFICES ASSUME NEW l \in Layer, layer'[l].written, NEW i \in AppendRows
               PROVE  /\ layer'[l].cis[i] = step.number
                      /\ (\A k \in DOMAIN copies' : copies'[k].layer # l)
                           => layer'[l].records[i] = step.number
    BY <1>1 DEF WrittenOK, AppendRows
  <2>1. CASE l = L
    <3>1. Offload => \E k \in DOMAIN copies' : copies'[k].layer = L
      BY <1>10
    <3> QED
      BY <1>4, <2>1, <3>1
  <2>2. CASE l # L
    <3>1. layer'[l] = layer[l]
      BY <1>3, <2>2
    <3> QED
      BY <1>10, <3>1 DEF IInv, WrittenOK
  <2> QED
    BY <2>1, <2>2
<1>18. CommittedRowsKept'
  <2> SUFFICES ASSUME NEW l \in Layer, NEW i \in 0 .. Len(history) - 1
               PROVE  layer'[l].records[i] = history[i + 1] /\ layer'[l].cis[i] = history[i + 1]
    BY <1>1 DEF CommittedRowsKept
  <2>1. layer[l].records[i] = history[i + 1] /\ layer[l].cis[i] = history[i + 1]
    BY DEF IInv, CommittedRowsKept
  <2>2. i \in Position \ AppendRows
    BY <1>2, StepFacts DEF AppendRows, Position
  <2> QED
    BY <1>3, <1>4, <2>1, <2>2
<1>19. DerivedOK'
  <2> SUFFICES ASSUME NEW l \in Layer PROVE DerivedFrom(l, Reach(l))'
    BY DEF DerivedOK
  <2>1. /\ layer'[l].keys = layer[l].keys /\ layer'[l].compressedCis = layer[l].compressedCis
        /\ layer'[l].pooledCis = layer[l].pooledCis /\ layer'[l].pending = layer[l].pending
    BY <1>3, SMTT(40)
  <2>2. PICK m \in Nat : Reach(l) = m /\ Reach(l)' = m
    BY <1>1, <2>1, ReachFacts DEF Reach
  <2>3. \A i \in 0 .. m - 1 : Record(i)' = Record(i)
    BY <1>1 DEF Record
  <2>4. DerivedFrom(l, m)
    BY <2>2 DEF IInv, DerivedOK
  <2>5. DerivedFrom(l, m)'
    BY <2>1, <2>3, <2>4, DerivedKept
  <2> QED
    BY <2>2, <2>5
<1> QED
  BY <1>12, <1>13, <1>14, <1>15, <1>16, <1>17, <1>18, <1>19 DEF IInv

(* Preparing a layer covers the pending step. *)
LEMMA PrepareInvariant ==
  ASSUME IInv, NEW L \in Layer, Prepare(L)
  PROVE  IInv'
<1>1. /\ driver = "step" /\ layer[L].written /\ ~IsPrepared(L)
      /\ IF step.deferred THEN L \notin step.seen ELSE layer[L].finite
      /\ layer' = [layer EXCEPT ![L] = Prepared(L)]
      /\ step' = IF step.deferred THEN [step EXCEPT !.seen = @ \cup {L}] ELSE step
      /\ UNCHANGED <<backend, main, indexer, copies, driver, history>>
  BY DEF Prepare
<1>2. /\ Stepping /\ main.pendingEnd \in 1 .. Capacity /\ main.pendingEnd \in 0 .. Capacity
      /\ main.pendingEnd \in Nat /\ main.length \in Nat /\ main.length = Len(history)
  BY <1>1, StepFacts DEF IInv, StateOK
<1>3. /\ step \in [number : 0 .. MaxSteps, deferred : BOOLEAN, seen : SUBSET Layer]
      /\ step'.number = step.number /\ step'.deferred = step.deferred
      /\ step' \in [number : 0 .. MaxSteps, deferred : BOOLEAN, seen : SUBSET Layer]
  BY <1>1 DEF IInv, TypeOK
<1>4. /\ DOMAIN layer' = Layer
      /\ \A l \in Layer \ {L} : layer'[l] = layer[l]
      /\ layer'[L] = Prepared(L)
  BY <1>1 DEF IInv, Shaped
<1>5. /\ DOMAIN layer'[L] = LayerFields
      /\ layer'[L].records = layer[L].records
      /\ layer'[L].cis = layer[L].cis
      /\ layer'[L].written = layer[L].written
      /\ layer'[L].finite = layer[L].finite
      /\ layer'[L].committed = layer[L].committed
      /\ layer'[L].pending = DerivedAt(main.pendingEnd)
  BY <1>4, PreparedFields
<1>6. UNCHANGED <<backend, main, indexer, copies, driver, history>>
  BY <1>1
<1>7. DerivedAt(main.pendingEnd) \in IndexerLayerState /\ DerivedAt(main.pendingEnd) # None
  BY <1>2, DerivedTyped
<1>8. TypeOK'
  <2>1. \A l \in Layer : LayerTyped(layer'[l])
    BY <1>4, <1>5, <1>7, LayersTyped DEF LayerTyped
  <2> QED
    BY <1>3, <1>6, <2>1 DEF IInv, TypeOK, LayerTyped
<1>9. Shaped'
  BY <1>4, <1>5, <1>6 DEF IInv, Shaped, Copy
<1>10. StepOK' /\ CopiesOK'
  BY <1>3, <1>6 DEF IInv, StepOK, CopiesOK, Stepping, Offload, AppendRows
<1>11. StateOK'
  <2> SUFFICES ASSUME NEW l \in Layer
               PROVE  /\ layer'[l].committed = DerivedAt(main.length)
                      /\ layer'[l].written => Stepping
                      /\ layer'[l].pending # None =>
                           layer'[l].written /\ layer'[l].pending = DerivedAt(main.pendingEnd)
                      /\ (layer'[l].pending # None /\ ~step.deferred) => layer'[l].finite
    BY <1>3, <1>6 DEF StateOK, Stepping
  <2>1. CASE l = L
    BY <1>1, <1>2, <1>5, <2>1 DEF IInv, StateOK
  <2>2. CASE l # L
    BY <1>4, <2>2 DEF IInv, StateOK
  <2> QED
    BY <2>1, <2>2
<1>12. \A l \in Layer : /\ layer'[l].records = layer[l].records /\ layer'[l].cis = layer[l].cis
                        /\ layer'[l].written = layer[l].written
  BY <1>4, <1>5
<1>13. WrittenOK'
  BY <1>3, <1>6, <1>12 DEF IInv, WrittenOK, AppendRows
<1>14. CommittedRowsKept'
  BY <1>6, <1>12 DEF IInv, CommittedRowsKept
<1>15. DerivedOK'
  <2> SUFFICES ASSUME NEW l \in Layer PROVE DerivedFrom(l, Reach(l))'
    BY DEF DerivedOK
  <2>1. PICK m \in Nat : Reach(l)' = m /\ (l = L => m = main.pendingEnd) /\ (l # L => m = Reach(l))
    <3>1. l = L => Reach(l)' = main.pendingEnd
      BY <1>5, <1>6, <1>7 DEF Reach
    <3>2. l # L => Reach(l)' = Reach(l)
      BY <1>4, <1>6 DEF Reach
    <3> QED
      BY <1>2, <3>1, <3>2, ReachFacts
  <2>2. \A i \in 0 .. m - 1 : Record(i)' = Record(i)
    BY <1>3, <1>6 DEF Record
  <2>3. \A w : WindowAt(w)' = WindowAt(w)
    BY <1>3, <1>6 DEF WindowAt, Record
  <2>4. CASE l = L
    <3>1. /\ \A w \in 1 .. DerivedAt(m).compressed :
               /\ layer'[l].keys[w] = WindowAt(w - 1)
               /\ layer'[l].compressedCis[w] = WindowAt(w - 1)
          /\ \A b \in 1 .. DerivedAt(m).pooled :
               layer'[l].pooledCis[b] =
                 [w \in {v \in Pool * (b - 1) .. Pool * b : v > 0} |-> WindowAt(w - 1)]
      BY <1>1, <1>2, <1>4, <2>1, <2>4, PreparedDerived, SMTT(40)
    <3>2. DerivedFrom(l, m)'
      BY <2>3, <3>1 DEF DerivedFrom
    <3> QED
      BY <2>1, <3>2
  <2>5. CASE l # L
    <3>1. layer'[l] = layer[l]
      BY <1>4, <2>5
    <3>2. DerivedFrom(l, m)
      BY <2>1, <2>5 DEF IInv, DerivedOK
    <3>3. DerivedFrom(l, m)'
      BY <2>2, <3>1, <3>2, DerivedKept
    <3> QED
      BY <2>1, <3>3
  <2> QED
    BY <2>4, <2>5
<1> QED
  BY <1>8, <1>9, <1>10, <1>11, <1>13, <1>14, <1>15 DEF IInv

(* What commit_step makes of the layers before it publishes, when every    *)
(* layer has been written: all of them cover the step.                     *)
LEMMA CommitPreparedFields ==
  ASSUME IInv, CommitValid, NEW layers, NEW l \in Layer, DOMAIN layers[l] = LayerFields,
         layers[l].keys = layer[l].keys,
         layers[l].compressedCis = layer[l].compressedCis,
         layers[l].pooledCis = layer[l].pooledCis
  PROVE  LET new == CommitPrepared(layers)[l] IN
         /\ DOMAIN CommitPrepared(layers) = Layer
         /\ DOMAIN new = LayerFields
         /\ new.records = layers[l].records
         /\ new.cis = layers[l].cis
         /\ new.written = layers[l].written
         /\ new.finite = layers[l].finite
         /\ new.committed = layers[l].committed
         /\ new.pending = DerivedAt(main.pendingEnd)
         /\ \A w \in 1 .. DerivedAt(main.pendingEnd).compressed :
              new.keys[w] = WindowAt(w - 1) /\ new.compressedCis[w] = WindowAt(w - 1)
         /\ \A b \in 1 .. DerivedAt(main.pendingEnd).pooled :
              new.pooledCis[b] =
                [w \in {v \in Pool * (b - 1) .. Pool * b : v > 0} |-> WindowAt(w - 1)]
<1> DEFINE new == CommitPrepared(layers)[l]
           pending == DerivedAt(main.pendingEnd)
<1>1. new = [layers[l] EXCEPT
               !.keys = IF IsPrepared(l) THEN @ ELSE Prepared(l).keys,
               !.compressedCis = IF IsPrepared(l) THEN @ ELSE Prepared(l).compressedCis,
               !.pooledCis = IF IsPrepared(l) THEN @ ELSE Prepared(l).pooledCis,
               !.pending = pending]
  BY DEF CommitPrepared
<1>2. DOMAIN CommitPrepared(layers) = Layer
  BY DEF CommitPrepared
<1> HIDE DEF new, pending
<1>3. /\ DOMAIN new = LayerFields
      /\ new.records = layers[l].records
      /\ new.cis = layers[l].cis
      /\ new.written = layers[l].written
      /\ new.finite = layers[l].finite
      /\ new.committed = layers[l].committed
      /\ new.pending = pending
      /\ new.keys = IF IsPrepared(l) THEN layer[l].keys ELSE Prepared(l).keys
      /\ new.compressedCis = IF IsPrepared(l) THEN layer[l].compressedCis ELSE Prepared(l).compressedCis
      /\ new.pooledCis = IF IsPrepared(l) THEN layer[l].pooledCis ELSE Prepared(l).pooledCis
  BY <1>1 DEF LayerFields
<1>4. Stepping /\ layer[l].written
  BY DEF CommitValid
<1>5. /\ \A w \in 1 .. pending.compressed :
           new.keys[w] = WindowAt(w - 1) /\ new.compressedCis[w] = WindowAt(w - 1)
      /\ \A b \in 1 .. pending.pooled :
           new.pooledCis[b] =
             [w \in {v \in Pool * (b - 1) .. Pool * b : v > 0} |-> WindowAt(w - 1)]
  <2>1. CASE IsPrepared(l)
    <3>1. Reach(l) = main.pendingEnd
      BY <1>4, <2>1, ReachFacts
    <3>2. DerivedFrom(l, main.pendingEnd)
      BY <3>1 DEF IInv, DerivedOK
    <3>3. new.keys = layer[l].keys /\ new.compressedCis = layer[l].compressedCis
          /\ new.pooledCis = layer[l].pooledCis
      BY <1>3, <2>1
    <3> QED
      BY <3>2, <3>3, Zenon DEF DerivedFrom, pending
  <2>2. CASE ~IsPrepared(l)
    <3>1. new.keys = Prepared(l).keys /\ new.compressedCis = Prepared(l).compressedCis
          /\ new.pooledCis = Prepared(l).pooledCis
      BY <1>3, <2>2
    <3> QED
      BY <1>4, <3>1, PreparedDerived DEF pending
  <2> QED
    BY <2>1, <2>2
<1> QED
  BY <1>2, <1>3, <1>5 DEF new, pending

(* A step that may be published is finite in every layer. *)
LEMMA ValidIsFinite ==
  ASSUME IInv, Checked, CommitValid
  PROVE  \A l \in Layer : layer[l].finite
<1>1. CASE step.deferred
  BY <1>1 DEF Checked
<1>2. CASE ~step.deferred
  <2> SUFFICES ASSUME NEW l \in Layer PROVE layer[l].finite
    OBVIOUS
  <2>1. Stepping /\ (IsPrepared(l) \/ layer[l].finite)
    BY DEF CommitValid, PreparedForCommit
  <2>2. IsPrepared(l) => layer[l].finite
    BY <1>2, <2>1, ReachFacts DEF IInv, StateOK
  <2> QED
    BY <2>1, <2>2
<1> QED
  BY <1>1, <1>2 DEF IInv, TypeOK

(* After a synchronization the main rows of a layer are the history's, and *)
(* the step's if the layer has written it.                                 *)
LEMMA SynchronizedKept ==
  ASSUME IInv, NEW l \in Layer
  PROVE  /\ LayerTyped(Synchronized[l])
         /\ \A i \in 0 .. Len(history) - 1 : Synchronized[l].records[i] = history[i + 1]
         /\ (Stepping /\ layer[l].written) =>
              \A i \in AppendRows : Synchronized[l].records[i] = step.number
<1>1. main.length = Len(history) /\ main.length \in 0 .. Capacity /\ Capacity \in Nat
  BY StepFacts
<1>2. Synchronized[l].records \in [Position -> 0 .. MaxSteps]
  <2>1. \A i \in Position : Synchronized[l].records[i] \in 0 .. MaxSteps
    <3>1. step.number \in 0 .. MaxSteps /\ layer[l].records \in [Position -> 0 .. MaxSteps]
      BY DEF IInv, TypeOK
    <3> QED
      BY <3>1, SynchronizedRows
  <2>2. Synchronized[l].records = [i \in Position |->
          IF CopiesTo(l, i) = {} THEN layer[l].records[i] ELSE copies[Max(CopiesTo(l, i))].number]
    BY DEF IInv, Shaped, LayerFields, Synchronized
  <2> QED
    BY <2>1, <2>2
<1>3. LayerTyped(Synchronized[l])
  BY <1>2, SynchronizedFields, LayersTyped DEF LayerTyped
<1>4. ASSUME NEW i \in 0 .. Len(history) - 1
      PROVE  Synchronized[l].records[i] = history[i + 1]
  <2>1. i \in Position /\ i \notin AppendRows
    BY <1>1 DEF Position, AppendRows
  <2>2. layer[l].records[i] = history[i + 1]
    BY DEF IInv, CommittedRowsKept
  <2> QED
    BY <2>1, <2>2, SynchronizedRows
<1>5. ASSUME Stepping, layer[l].written, NEW i \in AppendRows
      PROVE  Synchronized[l].records[i] = step.number
  <2>1. i \in Position
    BY <1>5, StepFacts
  <2>2. (\A k \in DOMAIN copies : copies[k].layer # l) => layer[l].records[i] = step.number
    BY <1>5 DEF IInv, WrittenOK
  <2> QED
    BY <1>5, <2>1, <2>2, SynchronizedRows
<1> QED
  BY <1>3, <1>4, <1>5

(* A commit that cannot synchronize has prepared every layer. *)
LEMMA CommitFailsInvariant ==
  ASSUME IInv, CommitFails
  PROVE  IInv'
<1>1. /\ Checked /\ CommitValid /\ driver = "step" /\ driver' = "unwinding"
      /\ layer' = CommitPrepared(layer)
      /\ UNCHANGED <<backend, main, indexer, copies, step, history>>
  BY DEF CommitFails
<1>2. /\ Stepping /\ main.pendingEnd \in 0 .. Capacity /\ main.pendingEnd \in Nat
      /\ \A l \in Layer : layer[l].written /\ layer[l].finite
  BY <1>1, StepFacts, ValidIsFinite, SMTT(40) DEF CommitValid
<1>3. /\ DOMAIN layer' = Layer
      /\ \A l \in Layer :
           /\ DOMAIN layer'[l] = LayerFields
           /\ layer'[l].records = layer[l].records
           /\ layer'[l].cis = layer[l].cis
           /\ layer'[l].written = layer[l].written
           /\ layer'[l].finite = layer[l].finite
           /\ layer'[l].committed = layer[l].committed
           /\ layer'[l].pending = DerivedAt(main.pendingEnd)
  <2>1. ASSUME NEW l \in Layer PROVE DOMAIN layer[l] = LayerFields
    BY DEF IInv, Shaped
  <2> QED
    BY <1>1, <2>1, CommitPreparedFields DEF CommitPrepared
<1>4. ASSUME NEW l \in Layer
      PROVE  /\ \A w \in 1 .. DerivedAt(main.pendingEnd).compressed :
                  /\ layer'[l].keys[w] = WindowAt(w - 1)
                  /\ layer'[l].compressedCis[w] = WindowAt(w - 1)
             /\ \A b \in 1 .. DerivedAt(main.pendingEnd).pooled :
                  layer'[l].pooledCis[b] =
                    [w \in {v \in Pool * (b - 1) .. Pool * b : v > 0} |-> WindowAt(w - 1)]
  <2>1. DOMAIN layer[l] = LayerFields
    BY DEF IInv, Shaped
  <2> QED
    BY <1>1, <2>1, CommitPreparedFields
<1>5. DerivedAt(main.pendingEnd) \in IndexerLayerState /\ DerivedAt(main.pendingEnd) # None
  BY <1>2, DerivedTyped
<1>6. UNCHANGED <<backend, main, indexer, copies, step, history>> /\ driver' = "unwinding"
  BY <1>1
<1>7. TypeOK'
  <2>1. \A l \in Layer : LayerTyped(layer'[l])
    BY <1>3, <1>5, LayersTyped DEF LayerTyped
  <2> QED
    BY <1>6, <2>1 DEF IInv, TypeOK, LayerTyped
<1>8. Shaped'
  BY <1>3, <1>6 DEF IInv, Shaped, Copy
<1>9. StepOK' /\ CopiesOK'
  BY <1>1, <1>6 DEF IInv, StepOK, CopiesOK, Stepping, Offload, AppendRows
<1>10. StateOK'
  BY <1>2, <1>3, <1>6 DEF IInv, StateOK, Stepping
<1>11. WrittenOK'
  BY <1>3, <1>6 DEF IInv, WrittenOK, AppendRows
<1>12. CommittedRowsKept'
  BY <1>3, <1>6 DEF IInv, CommittedRowsKept
<1>13. DerivedOK'
  <2> SUFFICES ASSUME NEW l \in Layer PROVE DerivedFrom(l, Reach(l))'
    BY DEF DerivedOK
  <2>1. PICK m \in Nat : Reach(l)' = m /\ m = main.pendingEnd
    BY <1>2, <1>3, <1>5, <1>6 DEF Reach
  <2>2. \A w : WindowAt(w)' = WindowAt(w)
    BY <1>6 DEF WindowAt, Record
  <2>3. DerivedFrom(l, m)'
    BY <1>4, <2>1, <2>2 DEF DerivedFrom
  <2> QED
    BY <2>1, <2>3
<1> QED
  BY <1>7, <1>8, <1>9, <1>10, <1>11, <1>12, <1>13 DEF IInv

(* A commit: the pending step becomes history. *)
LEMMA CommitInvariant ==
  ASSUME IInv, Commit
  PROVE  IInv'
<1> DEFINE added == [k \in 1 .. main.pendingEnd - main.length |-> step.number]
           prepared == CommitPrepared(Synchronized)
<1>1. /\ Checked /\ CommitValid /\ driver' = "idle" /\ copies' = <<>>
      /\ layer' = IndexerCommitted(prepared)
      /\ main' = [length |-> main.pendingEnd, pendingEnd |-> None]
      /\ indexer' = [length |-> indexer.pendingEnd, pendingEnd |-> None]
      /\ history' = history \o added
      /\ UNCHANGED <<backend, step>>
  BY DEF Commit
<1>2. /\ Stepping /\ main = indexer
      /\ main.length \in Nat /\ main.length = Len(history)
      /\ main.pendingEnd \in Nat /\ main.pendingEnd \in 0 .. Capacity /\ main.length < main.pendingEnd
      /\ step.number \in 1 .. MaxSteps /\ history \in Seq(1 .. MaxSteps)
      /\ \A l \in Layer : layer[l].written
  BY <1>1, StepFacts DEF CommitValid, IInv, TypeOK
<1>3. added \in Seq(1 .. MaxSteps) /\ Len(added) = main.pendingEnd - main.length
  <2>1. PICK n \in Nat : n = main.pendingEnd - main.length
    BY <1>2
  <2>2. added \in [1 .. n -> 1 .. MaxSteps]
    BY <1>2, <2>1
  <2> HIDE DEF added
  <2>3. added \in Seq(1 .. MaxSteps) /\ Len(added) = n
    BY <2>2, IntervalIsSequence
  <2> QED
    BY <2>1, <2>3
<1>4. /\ history' \in Seq(1 .. MaxSteps) /\ Len(history') = main.pendingEnd
      /\ \A i \in 0 .. main.pendingEnd - 1 : history'[i + 1] = Record(i)
  <2>0. PICK h : h = history' /\ h = history \o added
    BY <1>1
  <2>1. /\ h \in Seq(1 .. MaxSteps) /\ Len(h) = Len(history) + Len(added)
        /\ \A i \in 1 .. Len(history) + Len(added) :
             h[i] = IF i <= Len(history) THEN history[i] ELSE added[i - Len(history)]
    <3>1. history \in Seq(1 .. MaxSteps) /\ added \in Seq(1 .. MaxSteps)
      BY <1>2, <1>3
    <3> QED
      BY <2>0, <3>1, ConcatProperties, ZenonT(60)
  <2>2. Len(history') = main.pendingEnd
    BY <1>2, <1>3, <2>0, <2>1
  <2>3. ASSUME NEW i \in 0 .. main.pendingEnd - 1 PROVE history'[i + 1] = Record(i)
    <3>1. i + 1 \in 1 .. Len(history) + Len(added)
      BY <1>2, <1>3, SMTT(40)
    <3>2. history'[i + 1] = IF i + 1 <= Len(history) THEN history[i + 1] ELSE added[i + 1 - Len(history)]
      <4>1. h[i + 1] = IF i + 1 <= Len(history) THEN history[i + 1] ELSE added[i + 1 - Len(history)]
        <5>1. \A k \in 1 .. Len(history) + Len(added) :
                h[k] = IF k <= Len(history) THEN history[k] ELSE added[k - Len(history)]
          BY <2>1
        <5>2. PICK k \in 1 .. Len(history) + Len(added) : k = i + 1
          BY <3>1
        <5>3. h[k] = IF k <= Len(history) THEN history[k] ELSE added[k - Len(history)]
          BY <5>1
        <5> QED
          BY <5>2, <5>3
      <4> QED
        BY <2>0, <4>1, Zenon
    <3>3. CASE i < main.length
      BY <1>2, <3>2, <3>3 DEF Record
    <3>4. CASE ~(i < main.length)
      <4>1. i + 1 - Len(history) \in 1 .. main.pendingEnd - main.length
        BY <1>2, <3>4
      <4> QED
        BY <1>2, <3>2, <3>4, <4>1 DEF Record
    <3> QED
      BY <3>3, <3>4
  <2> QED
    BY <2>0, <2>1, <2>2, <2>3
<1> HIDE DEF added
<1>5. ASSUME NEW l \in Layer
      PROVE  /\ DOMAIN prepared[l] = LayerFields
             /\ prepared[l].records = Synchronized[l].records
             /\ prepared[l].cis = layer[l].cis
             /\ prepared[l].finite = layer[l].finite
             /\ prepared[l].pending = DerivedAt(main.pendingEnd)
             /\ \A w \in 1 .. DerivedAt(main.pendingEnd).compressed :
                  prepared[l].keys[w] = WindowAt(w - 1) /\ prepared[l].compressedCis[w] = WindowAt(w - 1)
             /\ \A b \in 1 .. DerivedAt(main.pendingEnd).pooled :
                  prepared[l].pooledCis[b] =
                    [w \in {v \in Pool * (b - 1) .. Pool * b : v > 0} |-> WindowAt(w - 1)]
  <2>1. /\ DOMAIN Synchronized[l] = LayerFields
        /\ Synchronized[l].keys = layer[l].keys
        /\ Synchronized[l].compressedCis = layer[l].compressedCis
        /\ Synchronized[l].pooledCis = layer[l].pooledCis
        /\ Synchronized[l].cis = layer[l].cis
        /\ Synchronized[l].finite = layer[l].finite
    BY SynchronizedFields
  <2> QED
    BY <1>1, <2>1, CommitPreparedFields, SMTT(40)
<1> HIDE DEF prepared
<1>6. /\ DOMAIN layer' = Layer
      /\ \A l \in Layer :
           /\ DOMAIN layer'[l] = LayerFields
           /\ layer'[l].records = Synchronized[l].records
           /\ layer'[l].cis = layer[l].cis
           /\ layer'[l].written = FALSE
           /\ layer'[l].finite = layer[l].finite
           /\ layer'[l].committed = DerivedAt(main.pendingEnd)
           /\ layer'[l].pending = None
           /\ layer'[l].keys = prepared[l].keys
           /\ layer'[l].compressedCis = prepared[l].compressedCis
           /\ layer'[l].pooledCis = prepared[l].pooledCis
  BY <1>1, <1>5 DEF IndexerCommitted, LayerFields
<1>7. /\ main'.length = main.pendingEnd /\ main'.pendingEnd = None /\ indexer' = main'
      /\ main' \in Cursor /\ ~Stepping'
  BY <1>1, <1>2 DEF Cursor, Stepping
<1>8. TypeOK'
  <2>1. \A l \in Layer : LayerTyped(layer'[l])
    <3>1. DerivedAt(main.pendingEnd) \in IndexerLayerState
      BY <1>2, DerivedTyped
    <3> QED
      BY <1>6, <3>1, LayersTyped, SynchronizedKept DEF LayerTyped
  <2> QED
    BY <1>1, <1>4, <1>7, <2>1 DEF IInv, TypeOK, LayerTyped
<1>9. Shaped'
  BY <1>1, <1>6 DEF Shaped, Copy
<1>10. StepOK' /\ CopiesOK'
  BY <1>1, <1>2, <1>4, <1>7 DEF StepOK, CopiesOK
<1>11. StateOK' /\ WrittenOK'
  BY <1>6, <1>7 DEF StateOK, WrittenOK
<1>12. CommittedRowsKept'
  <2> SUFFICES ASSUME NEW l \in Layer, NEW i \in 0 .. main.pendingEnd - 1
               PROVE  layer'[l].records[i] = history'[i + 1] /\ layer'[l].cis[i] = history'[i + 1]
    BY <1>4 DEF CommittedRowsKept
  <2>1. layer[l].cis[i] = Record(i)
    BY <1>2, RowsAre
  <2>2. Synchronized[l].records[i] = Record(i)
    <3>1. CASE i < main.length
      <4>1. i \in 0 .. Len(history) - 1
        BY <1>2, <3>1
      <4> QED
        BY <3>1, <4>1, SynchronizedKept DEF Record
    <3>2. CASE ~(i < main.length)
      <4>1. i \in AppendRows
        BY <1>2, <3>2 DEF AppendRows
      <4> QED
        BY <1>2, <3>2, <4>1, SynchronizedKept DEF Record
    <3> QED
      BY <3>1, <3>2
  <2> QED
    BY <1>4, <1>6, <2>1, <2>2
<1>13. DerivedOK'
  <2> SUFFICES ASSUME NEW l \in Layer PROVE DerivedFrom(l, Reach(l))'
    BY DEF DerivedOK
  <2>1. PICK m \in Nat : Reach(l)' = m /\ m = main.pendingEnd
    BY <1>2, <1>6, <1>7 DEF Reach
  <2>2. ASSUME NEW w \in 1 .. DerivedAt(m).compressed PROVE WindowAt(w - 1)' = WindowAt(w - 1)
    <3>1. ASSUME NEW i \in 1 .. 2 * Stride
          PROVE  Record(((w - 1) * Stride) + i - 1)' = Record(((w - 1) * Stride) + i - 1)
      <4> DEFINE at == ((w - 1) * Stride) + i - 1
      <4>1. at \in 0 .. m - 1
        BY WindowWithin
      <4> HIDE DEF at
      <4>2. at < main.pendingEnd
        BY <2>1, <4>1
      <4>3. Record(at)' = Record(at)
        BY <1>4, <1>7, <2>1, <4>1, <4>2 DEF Record
      <4> QED
        BY <4>3 DEF at
    <3> QED
      BY <3>1 DEF WindowAt
  <2>3. ASSUME NEW b \in 1 .. DerivedAt(m).pooled
        PROVE  [w \in {v \in Pool * (b - 1) .. Pool * b : v > 0} |-> WindowAt(w - 1)'] =
               [w \in {v \in Pool * (b - 1) .. Pool * b : v > 0} |-> WindowAt(w - 1)]
    <3>1. \A w \in {v \in Pool * (b - 1) .. Pool * b : v > 0} : WindowAt(w - 1)' = WindowAt(w - 1)
      <4> SUFFICES ASSUME NEW w \in Pool * (b - 1) .. Pool * b, w > 0
                   PROVE  WindowAt(w - 1)' = WindowAt(w - 1)
        OBVIOUS
      <4>1. w \in 1 .. DerivedAt(m).compressed
        BY BlockWithin
      <4> QED
        BY <2>2, <4>1
    <3> QED
      BY <3>1, Zenon
  <2>4. DerivedFrom(l, m)'
    BY <1>5, <1>6, <2>1, <2>2, <2>3 DEF DerivedFrom
  <2> QED
    BY <2>1, <2>4
<1> QED
  BY <1>8, <1>9, <1>10, <1>11, <1>12, <1>13 DEF IInv

(* An abort: the pending step leaves nothing but rows after the history    *)
(* and derived records after those of the history.                         *)
LEMMA AbortInvariant ==
  ASSUME IInv, Abort
  PROVE  IInv'
<1>1. /\ driver = "unwinding" /\ driver' = "idle" /\ copies' = <<>>
      /\ layer' = AbortedLayers(Synchronized)
      /\ main' = [main EXCEPT !.pendingEnd = None]
      /\ indexer' = [indexer EXCEPT !.pendingEnd = None]
      /\ UNCHANGED <<backend, step, history>>
  BY DEF Abort
<1>2. /\ main \in Cursor /\ main = indexer /\ Stepping
      /\ main.length \in 0 .. Capacity /\ main.length \in Nat /\ main.length = Len(history)
      /\ main.pendingEnd \in Nat /\ main.length < main.pendingEnd
  BY <1>1, StepFacts DEF IInv, TypeOK, StepOK
<1>3. /\ main'.length = main.length /\ main'.pendingEnd = None /\ indexer' = main'
      /\ main' \in Cursor /\ ~Stepping'
  <2>1. main'.length = main.length /\ main'.pendingEnd = None /\ main' \in Cursor
    BY <1>1, <1>2 DEF Cursor
  <2>2. indexer' = main'
    BY <1>1, <1>2, Zenon
  <2> QED
    BY <2>1, <2>2 DEF Stepping
<1>4. /\ DOMAIN layer' = Layer
      /\ \A l \in Layer :
           /\ DOMAIN layer'[l] = LayerFields
           /\ layer'[l].records = Synchronized[l].records
           /\ layer'[l].cis = layer[l].cis
           /\ layer'[l].written = FALSE
           /\ layer'[l].finite = layer[l].finite
           /\ layer'[l].committed = layer[l].committed
           /\ layer'[l].pending = None
           /\ layer'[l].keys = layer[l].keys
           /\ layer'[l].compressedCis = layer[l].compressedCis
           /\ layer'[l].pooledCis = layer[l].pooledCis
  BY <1>1, SynchronizedFields DEF AbortedLayers, LayerFields
<1>5. driver' = "idle" /\ copies' = <<>> /\ UNCHANGED <<backend, step, history>>
  BY <1>1
<1>6. TypeOK'
  <2>1. \A l \in Layer : LayerTyped(layer'[l])
    BY <1>4, LayersTyped, SynchronizedKept DEF LayerTyped
  <2> QED
    BY <1>3, <1>5, <2>1 DEF IInv, TypeOK, LayerTyped
<1>7. Shaped'
  BY <1>4, <1>5 DEF Shaped, Copy
<1>8. StepOK' /\ CopiesOK'
  BY <1>2, <1>3, <1>5 DEF StepOK, CopiesOK
<1>9. StateOK' /\ WrittenOK'
  BY <1>3, <1>4 DEF IInv, StateOK, WrittenOK
<1>10. CommittedRowsKept'
  <2>1. \A l \in Layer : \A i \in 0 .. Len(history) - 1 :
          Synchronized[l].records[i] = history[i + 1] /\ layer[l].cis[i] = history[i + 1]
    BY SynchronizedKept DEF IInv, CommittedRowsKept
  <2> QED
    BY <1>4, <1>5, <2>1 DEF CommittedRowsKept
<1>11. DerivedOK'
  <2> SUFFICES ASSUME NEW l \in Layer PROVE DerivedFrom(l, Reach(l))'
    BY DEF DerivedOK
  <2>1. PICK m \in Nat : m = main.length
    BY <1>2
  <2>2. Reach(l)' = m
    BY <1>3, <1>4, <2>1 DEF Reach
  <2>3. \A i \in 0 .. m - 1 : Record(i)' = Record(i)
    BY <1>3, <1>5, <2>1 DEF Record
  <2>4. DerivedFrom(l, m)
    <3>1. PICK n \in Nat : n = Reach(l) /\ m <= n
      BY <1>2, <2>1, ReachFacts
    <3>2. DerivedFrom(l, n)
      BY <3>1 DEF IInv, DerivedOK
    <3> QED
      BY <3>1, <3>2, DerivedOfFewer
  <2>5. DerivedFrom(l, m)'
    BY <1>4, <2>3, <2>4, DerivedKept
  <2> QED
    BY <2>2, <2>5
<1> QED
  BY <1>6, <1>7, <1>8, <1>9, <1>10, <1>11 DEF IInv

(* IndexerCache.truncate takes a state that covers the history to the      *)
(* state that covers its first n tokens.                                   *)
LEMMA TruncatedDerived ==
  ASSUME NEW n \in Nat, NEW m \in Nat, n <= m
  PROVE  TruncatedState(DerivedAt(m), n) = DerivedAt(n)
<1>1. /\ DerivedAt(m).compressed \in Nat /\ DerivedAt(n).compressed \in Nat
      /\ DerivedAt(m).pooled \in Nat /\ DerivedAt(n).pooled \in Nat
      /\ DerivedAt(m).validated = m
      /\ DerivedAt(n).compressed <= DerivedAt(m).compressed
      /\ DerivedAt(n).pooled <= DerivedAt(m).pooled
  BY DerivedTypes, DerivedMonotone
<1>2. DerivedAt(n) = [compressed |-> DerivedAt(n).compressed, pooled |-> DerivedAt(n).pooled,
                      validated |-> n]
  BY DEF DerivedAt
<1>3. /\ Shorter(DerivedAt(m).compressed, DerivedAt(n).compressed) = DerivedAt(n).compressed
      /\ Shorter(DerivedAt(m).pooled, DerivedAt(n).pooled) = DerivedAt(n).pooled
      /\ Shorter(DerivedAt(m).validated, n) = n
  BY <1>1 DEF Shorter
<1> QED
  BY <1>2, <1>3, Zenon DEF TruncatedState

(* A truncation leaves what belongs to the prefix. *)
LEMMA TruncateInvariant ==
  ASSUME IInv, NEW n \in 0 .. Capacity - 1, Truncate(n)
  PROVE  IInv'
<1>1. /\ driver = "idle" /\ ~Stepping /\ n \in 0 .. main.length - 1
      /\ layer' = [l \in Layer |-> [Synchronized[l] EXCEPT !.committed = TruncatedState(@, n)]]
      /\ copies' = <<>>
      /\ indexer' = [indexer EXCEPT !.length = n]
      /\ main' = [main EXCEPT !.length = n]
      /\ history' = SubSeq(history, 1, n)
      /\ UNCHANGED <<backend, driver, step>>
  BY DEF Truncate
<1>2. /\ main \in Cursor /\ main = indexer /\ copies = <<>>
      /\ main.length \in 0 .. Capacity /\ main.length \in Nat /\ main.length = Len(history)
      /\ n \in Nat /\ n < main.length /\ n \in 0 .. Capacity
      /\ Capacity \in Nat /\ history \in Seq(1 .. MaxSteps)
  BY <1>1, StepFacts, SizeAssumption, SMTT(40) DEF IInv, TypeOK, CopiesOK
<1>3. /\ main'.length = n /\ main'.pendingEnd = None /\ indexer' = main'
      /\ main' \in Cursor /\ ~Stepping'
  <2>1. main'.length = n /\ main'.pendingEnd = main.pendingEnd /\ main' \in Cursor
    BY <1>1, <1>2 DEF Cursor
  <2>2. indexer' = main'
    BY <1>1, <1>2, Zenon
  <2>3. main.pendingEnd = None
    BY <1>1 DEF Stepping
  <2> QED
    BY <2>1, <2>2, <2>3 DEF Stepping
<1>4. /\ history' \in Seq(1 .. MaxSteps) /\ Len(history') = n
      /\ \A i \in 0 .. n - 1 : history'[i + 1] = history[i + 1]
  <2>1. 1 \in Int /\ n \in Int /\ \A i \in 1 .. n : history[i] \in 1 .. MaxSteps
    <3>1. ASSUME NEW i \in 1 .. n PROVE history[i] \in 1 .. MaxSteps
      <4>1. i \in 1 .. Len(history)
        BY <1>2
      <4> QED
        BY <1>2, <4>1, ElementOfSeq
    <3> QED
      BY <1>2, <3>1
  <2>2. /\ SubSeq(history, 1, n) \in Seq(1 .. MaxSteps)
        /\ Len(SubSeq(history, 1, n)) = IF 1 <= n THEN n - 1 + 1 ELSE 0
        /\ \A i \in 1 .. n - 1 + 1 : SubSeq(history, 1, n)[i] = history[1 + i - 1]
    BY <2>1, SubSeqProperties
  <2>3. Len(history') = n
    BY <1>1, <1>2, <2>2
  <2>4. ASSUME NEW i \in 0 .. n - 1 PROVE history'[i + 1] = history[i + 1]
    <3>1. i + 1 \in 1 .. n - 1 + 1 /\ 1 + (i + 1) - 1 = i + 1
      BY <1>2
    <3> QED
      BY <1>1, <2>2, <3>1
  <2> QED
    BY <1>1, <2>2, <2>3, <2>4
<1>5. \A l \in Layer : layer[l].pending = None /\ layer[l].committed = DerivedAt(main.length)
                      /\ ~layer[l].written
  BY <1>1 DEF IInv, StateOK
<1>6. /\ DOMAIN layer' = Layer
      /\ \A l \in Layer :
           /\ DOMAIN layer'[l] = LayerFields
           /\ layer'[l].records = Synchronized[l].records
           /\ layer'[l].cis = layer[l].cis
           /\ layer'[l].written = layer[l].written
           /\ layer'[l].finite = layer[l].finite
           /\ layer'[l].committed = TruncatedState(layer[l].committed, n)
           /\ layer'[l].pending = layer[l].pending
           /\ layer'[l].keys = layer[l].keys
           /\ layer'[l].compressedCis = layer[l].compressedCis
           /\ layer'[l].pooledCis = layer[l].pooledCis
  BY <1>1, SynchronizedFields DEF LayerFields
<1>7. \A l \in Layer : layer'[l].committed = DerivedAt(n)
  BY <1>2, <1>5, <1>6, TruncatedDerived
<1>8. driver' = "idle" /\ copies' = <<>> /\ UNCHANGED <<backend, step>>
  BY <1>1
<1>9. TypeOK'
  <2>1. \A l \in Layer : LayerTyped(layer'[l])
    <3>1. DerivedAt(n) \in IndexerLayerState
      BY <1>2, DerivedTyped
    <3> QED
      BY <1>6, <1>7, <3>1, LayersTyped, SynchronizedKept DEF LayerTyped
  <2> QED
    BY <1>3, <1>4, <1>8, <2>1 DEF IInv, TypeOK, LayerTyped
<1>10. Shaped'
  BY <1>6, <1>8 DEF Shaped, Copy
<1>11. StepOK' /\ CopiesOK'
  BY <1>2, <1>3, <1>4, <1>8 DEF StepOK, CopiesOK
<1>12. StateOK' /\ WrittenOK'
  BY <1>3, <1>5, <1>6, <1>7 DEF StateOK, WrittenOK
<1>13. CommittedRowsKept'
  <2> SUFFICES ASSUME NEW l \in Layer, NEW i \in 0 .. n - 1
               PROVE  layer'[l].records[i] = history'[i + 1] /\ layer'[l].cis[i] = history'[i + 1]
    BY <1>4 DEF CommittedRowsKept
  <2>1. i \in 0 .. Len(history) - 1
    BY <1>2
  <2>2. Synchronized[l].records[i] = history[i + 1] /\ layer[l].cis[i] = history[i + 1]
    BY <2>1, SynchronizedKept DEF IInv, CommittedRowsKept
  <2> QED
    BY <1>4, <1>6, <2>2
<1>14. DerivedOK'
  <2> SUFFICES ASSUME NEW l \in Layer PROVE DerivedFrom(l, Reach(l))'
    BY DEF DerivedOK
  <2>1. Reach(l)' = n
    BY <1>3, <1>5, <1>6 DEF Reach
  <2>2. \A i \in 0 .. n - 1 : Record(i)' = Record(i)
    <3> TAKE i \in 0 .. n - 1
    <3>1. i < n /\ i < main.length
      BY <1>2
    <3> QED
      BY <1>3, <1>4, <3>1 DEF Record
  <2>3. DerivedFrom(l, n)
    <3>1. Reach(l) = main.length
      BY <1>5, ReachFacts
    <3>2. DerivedFrom(l, main.length)
      BY <3>1 DEF IInv, DerivedOK
    <3> QED
      BY <1>2, <3>2, DerivedOfFewer
  <2>4. DerivedFrom(l, n)'
    BY <1>2, <1>6, <2>2, <2>3, DerivedKept
  <2> QED
    BY <2>1, <2>4
<1> QED
  BY <1>9, <1>10, <1>11, <1>12, <1>13, <1>14 DEF IInv

(* A release leaves what there was at first. *)
LEMMA ReleaseInvariant ==
  ASSUME IInv, Release
  PROVE  IInv'
<1>1. /\ copies' = <<>> /\ driver' = "released" /\ history' = <<>>
      /\ main' = [length |-> 0, pendingEnd |-> None]
      /\ indexer' = [length |-> 0, pendingEnd |-> None]
      /\ layer' = [l \in Layer |-> FreshLayer]
      /\ UNCHANGED <<backend, step>>
  BY DEF Release
<1>2. /\ DOMAIN layer' = Layer /\ \A l \in Layer : layer'[l] = FreshLayer
      /\ main'.length = 0 /\ main'.pendingEnd = None /\ indexer' = main'
      /\ ~Stepping' /\ Len(history') = 0 /\ 0 \in 0 .. Capacity
  BY <1>1, SizeAssumption DEF Stepping
<1>3. LayerTyped(FreshLayer)
  BY NothingAtFirst
<1>4. TypeOK'
  <2>1. main' \in Cursor
    BY <1>1, <1>2 DEF Cursor
  <2> QED
    BY <1>1, <1>2, <1>3, <2>1 DEF IInv, TypeOK, LayerTyped
<1>5. Shaped'
  BY <1>1, <1>2, <1>3 DEF Shaped, LayerTyped, Copy
<1>6. StepOK' /\ CopiesOK'
  BY <1>1, <1>2 DEF StepOK, CopiesOK
<1>7. StateOK' /\ WrittenOK'
  BY <1>2, NothingAtFirst DEF StateOK, WrittenOK, FreshLayer
<1>8. CommittedRowsKept'
  BY <1>2 DEF CommittedRowsKept
<1>9. DerivedOK'
  BY <1>2, NothingAtFirst DEF DerivedOK, DerivedFrom, Reach, FreshLayer
<1> QED
  BY <1>4, <1>5, <1>6, <1>7, <1>8, <1>9 DEF IInv

(* Every step keeps the invariant. *)
LEMMA NextInvariant == IInv /\ [Next]_vars => IInv'
<1> SUFFICES ASSUME IInv, [Next]_vars PROVE IInv'
  OBVIOUS
<1>1. CASE CopyLands
  BY <1>1, CopyLandsInvariant
<1>2. ASSUME NEW end \in 1 .. Capacity, NEW deferred \in BOOLEAN, BeginStep(end, deferred)
      PROVE  IInv'
  BY <1>2, BeginStepInvariant
<1>3. ASSUME NEW l \in Layer, NEW finite \in BOOLEAN, WriteLayer(l, finite)
      PROVE  IInv'
  BY <1>3, WriteLayerInvariant
<1>4. ASSUME NEW l \in Layer, Prepare(l) PROVE IInv'
  BY <1>4, PrepareInvariant
<1>5. CASE Fail \/ AbortFails
  BY <1>5, FailInvariant
<1>6. CASE Commit
  BY <1>6, CommitInvariant
<1>7. CASE CommitFails
  BY <1>7, CommitFailsInvariant
<1>8. CASE Abort
  BY <1>8, AbortInvariant
<1>9. ASSUME NEW n \in 0 .. Capacity - 1, Truncate(n) PROVE IInv'
  BY <1>9, TruncateInvariant
<1>10. CASE Release
  BY <1>10, ReleaseInvariant
<1>11. CASE UNCHANGED vars
  <2>1. UNCHANGED <<backend, main, indexer, layer, copies, driver, step, history>>
    BY <1>11 DEF vars
  <2>2. TypeOK' /\ Shaped' /\ CommittedRowsKept'
    BY <2>1 DEF IInv, TypeOK, Shaped, CommittedRowsKept
  <2>3. StepOK' /\ CopiesOK' /\ StateOK' /\ WrittenOK'
    BY <2>1 DEF IInv, StepOK, CopiesOK, StateOK, WrittenOK, Stepping, Offload, AppendRows
  <2>4. DerivedOK'
    BY <2>1 DEF IInv, DerivedOK, DerivedFrom, Reach, WindowAt, Record
  <2> QED
    BY <2>2, <2>3, <2>4 DEF IInv
<1> QED
  BY <1>1, <1>2, <1>3, <1>4, <1>5, <1>6, <1>7, <1>8, <1>9, <1>10, <1>11 DEF Next

-----------------------------------------------------------------------------
(* The theorems. *)

(* The inductive invariant holds of every behaviour of one request's cache,*)
(* whichever synchronization fails and whenever the write stream lands.    *)
THEOREM Invariant == Spec => []IInv
<1>1. Init => IInv
  BY InitInvariant
<1>2. IInv /\ [Next]_vars => IInv'
  BY NextInvariant
<1> QED
  BY <1>1, <1>2, PTL DEF Spec

(* The main cache and the indexer never disagree, and no copy runs while   *)
(* no step is pending (offload.py commit_step, abort_step, truncate).      *)
THEOREM SidesNeverDisagree == Spec => []SidesAgree
<1>1. IInv => SidesAgree
  BY DEF IInv, SidesAgree, StepOK, CopiesOK
<1> QED
  BY <1>1, Invariant, PTL

(* In a state of the invariant, committed derived records are of the       *)
(* history, also while a step is pending that has written on after them.   *)
LEMMA CommittedAreDerived == IInv => DerivedFromHistory
<1> SUFFICES ASSUME IInv, NEW l \in Layer
             PROVE  LET state == layer[l].committed IN
                    /\ state = DerivedAt(Len(history))
                    /\ \A w \in 1 .. state.compressed :
                         /\ layer[l].keys[w] = Window(Token, w - 1)
                         /\ layer[l].compressedCis[w] = Window(Token, w - 1)
                    /\ \A b \in 1 .. state.pooled :
                         layer[l].pooledCis[b] =
                           [w \in {v \in Pool * (b - 1) .. Pool * b : v > 0} |-> Window(Token, w - 1)]
  BY DEF DerivedFromHistory
<1>1. PICK m \in Nat : m = main.length /\ m = Len(history)
  BY StepFacts
<1>2. layer[l].committed = DerivedAt(m)
  BY <1>1 DEF IInv, StateOK
<1>3. PICK n \in Nat : n = Reach(l) /\ m <= n
  <2>1. Reach(l) \in Nat /\ Reach(l) >= main.length
    BY StepFacts, ReachFacts
  <2> QED
    BY <1>1, <2>1
<1>4. DerivedFrom(l, n)
  BY <1>3 DEF IInv, DerivedOK
<1>5. DerivedFrom(l, m)
  BY <1>3, <1>4, DerivedOfFewer
<1>6. ASSUME NEW w \in 1 .. DerivedAt(m).compressed PROVE WindowAt(w - 1) = Window(Token, w - 1)
  <2>1. ASSUME NEW i \in 1 .. 2 * Stride
        PROVE  Record(((w - 1) * Stride) + i - 1) = Token[((w - 1) * Stride) + i - 1]
    <3> DEFINE at == ((w - 1) * Stride) + i - 1
    <3>1. at \in 0 .. m - 1
      BY WindowWithin
    <3> HIDE DEF at
    <3>2. Record(at) = Token[at]
      BY <1>1, <3>1 DEF Record, Token
    <3> QED
      BY <3>2 DEF at
  <2> QED
    BY <2>1 DEF WindowAt, Window
<1>7. ASSUME NEW b \in 1 .. DerivedAt(m).pooled
      PROVE  [w \in {v \in Pool * (b - 1) .. Pool * b : v > 0} |-> WindowAt(w - 1)] =
             [w \in {v \in Pool * (b - 1) .. Pool * b : v > 0} |-> Window(Token, w - 1)]
  <2>1. \A w \in {v \in Pool * (b - 1) .. Pool * b : v > 0} : WindowAt(w - 1) = Window(Token, w - 1)
    <3> SUFFICES ASSUME NEW w \in Pool * (b - 1) .. Pool * b, w > 0
                 PROVE  WindowAt(w - 1) = Window(Token, w - 1)
      OBVIOUS
    <3>1. w \in 1 .. DerivedAt(m).compressed
      BY BlockWithin
    <3> QED
      BY <1>6, <3>1
  <2> QED
    BY <2>1, Zenon
<1> QED
  BY <1>1, <1>2, <1>5, <1>6, <1>7 DEF DerivedFrom

(* The rows and the derived records of the committed history are kept      *)
(* through appends, failed steps, truncations and late copies.             *)
THEOREM CommittedHistoryIsKept == Spec => []CommittedHistoryKept
<1>1. IInv => CommittedHistoryKept
  BY CommittedAreDerived DEF IInv, CommittedHistoryKept
<1> QED
  BY <1>1, Invariant, PTL

(* A step is committed only when every layer was found finite, at once or  *)
(* by the deferred check.                                                  *)
THEOREM CommittedStepsAreFinite == Spec => CommitsAreFinite
<1>1. IInv /\ [Next]_vars => [main'.length > main.length => \A l \in Layer : layer[l].finite]_vars
  <2> SUFFICES ASSUME IInv, Next, main'.length > main.length
               PROVE  \A l \in Layer : layer[l].finite
    BY Zenon
  <2>1. /\ main \in Cursor /\ main.length \in Nat
    BY StepFacts DEF IInv, TypeOK
  <2>2. CASE Commit
    BY <2>2, ValidIsFinite DEF Commit
  <2>3. ASSUME main'.length = main.length PROVE FALSE
    BY <2>1, <2>3
  <2>4. ASSUME main'.length \in Nat, main'.length < main.length PROVE FALSE
    BY <2>1, <2>4
  <2>5. CASE CopyLands \/ Fail \/ CommitFails \/ AbortFails
    BY <2>3, <2>5 DEF CopyLands, Fail, CommitFails, AbortFails
  <2>6. CASE \E end \in 1 .. Capacity, deferred \in BOOLEAN : BeginStep(end, deferred)
    <3>1. PICK end : main' = [main EXCEPT !.pendingEnd = end]
      BY <2>6 DEF BeginStep
    <3> QED
      BY <2>1, <2>3, <3>1 DEF Cursor
  <2>7. CASE \E l \in Layer, finite \in BOOLEAN : WriteLayer(l, finite)
    BY <2>3, <2>7 DEF WriteLayer
  <2>8. CASE \E l \in Layer : Prepare(l)
    BY <2>3, <2>8 DEF Prepare
  <2>9. CASE Abort
    BY <2>1, <2>3, <2>9 DEF Abort, Cursor
  <2>10. CASE \E n \in 0 .. Capacity - 1 : Truncate(n)
    <3>1. PICK n : n \in 0 .. main.length - 1 /\ main' = [main EXCEPT !.length = n]
      BY <2>10 DEF Truncate
    <3>2. main'.length = n
      BY <2>1, <3>1 DEF Cursor
    <3> QED
      BY <2>1, <2>4, <3>1, <3>2
  <2>11. CASE Release
    <3>1. main'.length = 0
      BY <2>11 DEF Release
    <3> QED
      BY <2>1, <2>3, <2>4, <3>1
  <2> QED
    BY <2>2, <2>5, <2>6, <2>7, <2>8, <2>9, <2>10, <2>11 DEF Next
<1> QED
  BY <1>1, Invariant, PTL DEF Spec, CommitsAreFinite
=============================================================================
