----------------------- MODULE FixedHistoryPool_proofs -----------------------
(***************************************************************************)
(* The shared page pool for any sessions, capacities, layers and bounds:   *)
(* what is tagged as a session's page is that page, attention reads the    *)
(* session's own history, and the prefetch stream disturbs nobody.         *)
(***************************************************************************)
EXTENDS FixedHistoryPool, PoolLemmas

-----------------------------------------------------------------------------
(* The inductive invariant. *)

(* Owners are issued in increasing order, never twice; a tag names one     *)
(* that was issued.                                                        *)
OwnersOK ==
  /\ \A s \in Live : sessions[s].owner \in 1 .. nextOwner - 1
  /\ \A s, t \in Live : s # t => sessions[s].owner # sessions[t].owner
  /\ \A l \in Layer, p \in Slot : tags[l][p] < nextOwner

HistoryOK ==
  \A s \in Session : /\ Len(history[s]) = sessions[s].length
                     /\ s \in Live => sessions[s].length <= Capacity[s]
                     /\ s \notin Live => sessions[s].length = 0

(* The host has every committed page of every layer. *)
HostOK ==
  \A s \in Live, l \in Layer : \A p \in 0 .. sessions[s].length - 1 :
    sessions[s].host[l][p] = history[s][p + 1]

(* What begin_step admitted, and how far the step is. *)
StepOK ==
  current # None =>
    /\ current.session \in Live
    /\ current.end > Cache.length
    /\ current.end <= Longest + CandidatePages
    /\ ~current.transient => current.end <= Capacity[current.session]
    /\ current.attended \in {current.written, current.written - 1}
    /\ current.reads \subseteq 0 .. current.end - 1
    /\ current.reads # {} => current.attended >= 1
    /\ steps >= 1

(* Only the layer that is to be written next is ever queued. *)
PrefetchOK ==
  prefetches # <<>> =>
    Dense /\ current # None /\ current.written < Layers /\ prefetches = <<current.written + 1>>

(* The layers whose pool slots already have the append of this step. *)
InSlots(l) == IF Dense THEN l <= current.written ELSE l <= current.attended

SuffixOK ==
  current # None => \A l \in Layer, p \in Suffix :
    /\ InSlots(l) => pool[l][p] = steps
    /\ ~current.transient /\ l <= current.written => Cache.host[l][p] = steps

(* The layers that the prefetch stream is done with. *)
BroughtIn(l) ==
  l <= current.written \/ (l = current.written + 1 /\ prefetches = <<>>)

FetchedOK ==
  current # None /\ Dense =>
    \A l \in Layer : BroughtIn(l) =>
      \A p \in 0 .. Cache.length - 1 : tags[l][p] = Cache.owner

QuotaOK == SumFunctionOnSet(Capacity, Live) <= HostPages

IInv ==
  /\ TypeOK
  /\ OwnersOK /\ HistoryOK /\ HostOK /\ QuotaOK
  /\ HitsAreCurrent
  /\ StepOK /\ PrefetchOK /\ SuffixOK /\ FetchedOK
  /\ AttentionReadsOwnTokens

-----------------------------------------------------------------------------
(* Slots. *)

SessionState ==
  [live : BOOLEAN, owner : Owner, length : 0 .. Longest,
   host : [Layer -> [Slot -> Content]]]

(* A finite set has an element at which f is largest. *)
LEMMA Largest ==
  ASSUME NEW S, IsFiniteSet(S), S # {}, NEW f, \A x \in S : f[x] \in Nat
  PROVE  \E x \in S : \A y \in S : f[x] >= f[y]
<1> DEFINE Has(s) == \E x \in s : \A y \in s : f[x] >= f[y]
           F == {s \in SUBSET S : s # {} /\ ~Has(s)}
<1>1. SUFFICES ASSUME F # {} PROVE FALSE
  OBVIOUS
<1>2. PICK s \in F : \A t \in F : Cardinality(s) <= Cardinality(t)
  BY <1>1, LeastSet
<1>3. PICK e : e \in s
  BY <1>2
<1> DEFINE r == s \ {e}
<1>4. /\ IsFiniteSet(s) /\ Cardinality(s) \in Nat /\ r \in SUBSET S
      /\ Cardinality(r) = Cardinality(s) - 1
  BY <1>2, <1>3, FS_Subset, FS_CardinalityType, FS_RemoveElement
<1>5. r \notin F
  <2> HIDE DEF F, r
  <2> QED
    BY <1>2, <1>4
<1>6. CASE r = {}
  <2>1. \A y \in s : y = e /\ f[e] >= f[y]
    BY <1>2, <1>3, <1>6
  <2> QED
    BY <1>2, <1>3, <2>1
<1>7. CASE r # {}
  <2>1. PICK m \in r : \A y \in r : f[m] >= f[y]
    BY <1>4, <1>5, <1>7
  <2>2. f[m] \in Nat /\ f[e] \in Nat /\ \A y \in s : f[y] \in Nat /\ (y = e \/ y \in r)
    BY <1>2, <1>3, <1>4
  <2>3. CASE f[m] >= f[e]
    <3>1. \A y \in s : f[m] >= f[y]
      BY <2>1, <2>2, <2>3
    <3> QED
      BY <1>2, <3>1
  <2>4. CASE f[e] > f[m]
    <3>1. \A y \in s : f[e] >= f[y]
      BY <2>1, <2>2, <2>4
    <3> QED
      BY <1>2, <1>3, <3>1
  <2> QED
    BY <2>2, <2>3, <2>4
<1> QED
  BY <1>6, <1>7

(* Every retained page and every page of a step has a slot. *)
LEMMA Bounds ==
  /\ Longest \in Nat /\ \A s \in Session : Capacity[s] \in Nat /\ Capacity[s] <= Longest
  /\ Layers \in Nat /\ Layers >= 1 /\ CandidatePages \in Nat /\ CandidatePages >= 1
  /\ MaxSteps \in Nat /\ MaxOwners \in Nat
  /\ Slot = 0 .. Longest + CandidatePages - 1 /\ 0 \in Slot
  /\ 1 \in Layer
<1>1. IsFiniteSet(Session) /\ Session # {} /\ \A s \in Session : Capacity[s] \in Nat
  BY PoolAssumption
<1>2. PICK m \in Session : \A s \in Session : Capacity[m] >= Capacity[s]
  BY <1>1, Largest
<1> DEFINE Sizes == {Capacity[s] : s \in Session}
<1>3. \E x \in Sizes : \A y \in Sizes : x >= y
  BY <1>2
<1>4. Longest \in Sizes /\ \A y \in Sizes : Longest >= y
  BY <1>3 DEF Longest, Max
<1>5. Longest \in Nat /\ \A s \in Session : Capacity[s] \in Nat /\ Capacity[s] <= Longest
  BY <1>1, <1>4
<1>6. Layers \in Nat /\ Layers >= 1 /\ CandidatePages \in Nat /\ CandidatePages >= 1
      /\ MaxSteps \in Nat /\ MaxOwners \in Nat
  BY PoolAssumption
<1> HIDE DEF Sizes
<1> QED
  BY <1>5, <1>6 DEF Slot, Layer

(* The types of what the sessions keep, of the pool, and of the step.      *)
SessionTypes ==
  /\ sessions \in [Session -> SessionState]
  /\ nextOwner \in 1 .. MaxOwners + 1
  /\ history \in [Session -> Seq(1 .. MaxSteps)]

PoolTypes ==
  /\ pool \in [Layer -> [Slot -> Content]]
  /\ tags \in [Layer -> [Slot -> Owner]]

StepTypes ==
  /\ scheme \in {"dense_prefetch", "serial_sparse"}
  /\ current \in Step \cup {None}
  /\ prefetches \in Seq(Layer)
  /\ steps \in 0 .. MaxSteps

(* The type invariant falls into these three parts. *)
LEMMA TypeOKParts ==
  /\ TypeOK <=> SessionTypes /\ PoolTypes /\ StepTypes
  /\ TypeOK' <=> SessionTypes' /\ PoolTypes' /\ StepTypes'
BY DEF TypeOK, SessionTypes, PoolTypes, StepTypes, SessionState

(* The step in the lease: whose it is, and the slots of its append. *)
LEMMA CurrentStep ==
  ASSUME SessionTypes, StepTypes, HistoryOK, StepOK, current # None
  PROVE  /\ current \in Step /\ current.session \in Session /\ current.session \in Live
         /\ Cache \in SessionState /\ Cache = sessions[current.session]
         /\ Cache.length \in Nat /\ Cache.length <= Longest
         /\ Len(history[current.session]) = Cache.length
         /\ current.end \in Nat /\ Cache.length < current.end
         /\ Suffix \subseteq Slot
         /\ 0 .. Cache.length - 1 \subseteq Slot
         /\ 0 .. current.end - 1 \subseteq Slot
         /\ \A p \in Slot : p \in Nat /\ (p \in Suffix <=> p >= Cache.length /\ p < current.end)
         /\ steps \in 1 .. MaxSteps
<1>1. current \in Step /\ current.session \in Session /\ current.session \in Live
  BY DEF StepTypes, StepOK, Step
<1>2. Cache \in SessionState /\ Cache = sessions[current.session]
  BY <1>1 DEF SessionTypes, Cache
<1>3. Cache.length \in Nat /\ Cache.length <= Longest
  BY <1>2, Bounds DEF SessionState
<1>4. Len(history[current.session]) = Cache.length
  BY <1>1, <1>2 DEF HistoryOK
<1>5. /\ current.end \in Nat /\ Cache.length < current.end
      /\ current.end <= Longest + CandidatePages /\ steps \in 1 .. MaxSteps
  BY <1>1, <1>3, Bounds DEF StepOK, Step, StepTypes
<1>6. /\ Suffix \subseteq Slot
      /\ 0 .. Cache.length - 1 \subseteq Slot
      /\ 0 .. current.end - 1 \subseteq Slot
  BY <1>3, <1>5, Bounds DEF Suffix
<1>7. \A p \in Slot : p \in Nat /\ (p \in Suffix <=> p >= Cache.length /\ p < current.end)
  BY <1>3, <1>5, Bounds DEF Suffix
<1> QED
  BY <1>1, <1>2, <1>3, <1>4, <1>5, <1>6, <1>7

(* What comes in from the host is the session's history.                   *)
LEMMA BringIn ==
  ASSUME SessionTypes, PoolTypes, StepTypes, HistoryOK, StepOK, HostOK, current # None,
         NEW l \in Layer, NEW wanted \in SUBSET Slot
  PROVE  /\ Filled(l, wanted) \in [Slot -> Content]
         /\ Claimed(l, wanted) \in [Slot -> Owner]
         /\ \A p \in Slot :
              \/ Filled(l, wanted)[p] = pool[l][p] /\ Claimed(l, wanted)[p] = tags[l][p]
              \/ /\ p < Cache.length /\ Claimed(l, wanted)[p] = Cache.owner
                 /\ Filled(l, wanted)[p] = history[current.session][p + 1]
         /\ \A p \in wanted : p < Cache.length => Claimed(l, wanted)[p] = Cache.owner
<1>1. /\ Cache \in SessionState /\ current.session \in Live
      /\ Cache = sessions[current.session] /\ Cache.length \in Nat
      /\ \A p \in Slot : p \in Nat
  BY CurrentStep
<1>2. /\ Cache.host[l] \in [Slot -> Content] /\ Cache.owner \in Owner
      /\ pool[l] \in [Slot -> Content] /\ tags[l] \in [Slot -> Owner]
  BY <1>1 DEF SessionState, PoolTypes
<1>3. \A p \in Slot : p < Cache.length => Cache.host[l][p] = history[current.session][p + 1]
  BY <1>1 DEF HostOK
<1>4. Filled(l, wanted) \in [Slot -> Content] /\ Claimed(l, wanted) \in [Slot -> Owner]
  BY <1>2 DEF Filled, Claimed
<1>5. \A p \in Slot :
        /\ Filled(l, wanted)[p] = IF p \in Missing(l, wanted) THEN Cache.host[l][p] ELSE pool[l][p]
        /\ Claimed(l, wanted)[p] = IF p \in Missing(l, wanted) THEN Cache.owner ELSE tags[l][p]
  BY DEF Filled, Claimed
<1>6. \A p \in Missing(l, wanted) : p \in wanted /\ p < Cache.length
  BY DEF Missing
<1>7. \A p \in wanted : p < Cache.length => p \in Missing(l, wanted) \/ tags[l][p] = Cache.owner
  BY DEF Missing
<1>8. \A p \in wanted : p < Cache.length => Claimed(l, wanted)[p] = Cache.owner
  BY <1>5, <1>7
<1> QED
  BY <1>3, <1>4, <1>5, <1>6, <1>8

(* The append takes its slots, *)
LEMMA TakesSlots ==
  ASSUME NEW slots \in [Slot -> Content], steps \in Content
  PROVE  /\ WithSuffix(slots) \in [Slot -> Content]
         /\ \A p \in Slot : WithSuffix(slots)[p] = IF p \in Suffix THEN steps ELSE slots[p]
BY DEF WithSuffix

(* and nobody's tag stays on them. *)
LEMMA TakesTags ==
  ASSUME NEW tagged \in [Slot -> Owner]
  PROVE  /\ InvalidateSuffix(tagged) \in [Slot -> Owner]
         /\ \A p \in Slot : InvalidateSuffix(tagged)[p] = IF p \in Suffix THEN 0 ELSE tagged[p]
<1>1. 0 \in Owner
  BY Bounds DEF Owner
<1> QED
  BY <1>1 DEF InvalidateSuffix

(* A step of the pool keeps the hits right when, in every slot, it changes *)
(* nothing, or trusts it no more, or brings in a page of the session.      *)
LEMMA PoolStepKeepsHits ==
  ASSUME SessionTypes, PoolTypes, OwnersOK, HitsAreCurrent, PoolTypes',
         NEW c \in Live,
         history' = history, nextOwner' = nextOwner,
         \A s \in Session : /\ sessions'[s].live = sessions[s].live
                            /\ sessions'[s].owner = sessions[s].owner
                            /\ sessions'[s].length = sessions[s].length,
         \A l \in Layer, p \in Slot :
           \/ tags'[l][p] = tags[l][p] /\ pool'[l][p] = pool[l][p]
           \/ tags'[l][p] = 0
           \/ /\ tags'[l][p] = sessions[c].owner /\ p < sessions[c].length
              /\ pool'[l][p] = history[c][p + 1]
  PROVE  OwnersOK' /\ HitsAreCurrent'
<1>1. Live' = Live /\ Live \subseteq Session
  BY DEF Live
<1>2. nextOwner \in Nat /\ nextOwner >= 1
  BY Bounds DEF SessionTypes
<1>3. \A s \in Live : sessions[s].owner \in Nat /\ sessions[s].owner >= 1 /\ sessions[s].owner < nextOwner
  BY <1>2 DEF OwnersOK
<1>4. OwnersOK'
  <2>1. ASSUME NEW l \in Layer, NEW p \in Slot PROVE tags'[l][p] < nextOwner
    BY <1>2, <1>3 DEF OwnersOK
  <2>2. \A s \in Live' : sessions'[s].owner \in 1 .. nextOwner' - 1
    BY <1>1 DEF OwnersOK
  <2>3. \A s, t \in Live' : s # t => sessions'[s].owner # sessions'[t].owner
    BY <1>1 DEF OwnersOK
  <2> QED
    BY <2>1, <2>2, <2>3 DEF OwnersOK
<1>5. ASSUME NEW s \in Live, NEW l \in Layer, NEW p \in 0 .. sessions[s].length - 1,
             tags'[l][p] = sessions[s].owner
      PROVE  pool'[l][p] = history[s][p + 1]
  <2>1. p \in Slot
    <3>1. sessions[s].length \in 0 .. Longest
      BY <1>1 DEF SessionTypes, SessionState
    <3> QED
      BY <3>1, Bounds
  <2>2. CASE tags'[l][p] = tags[l][p] /\ pool'[l][p] = pool[l][p]
    <3>1. tags[l][p] = sessions[s].owner => pool[l][p] = history[s][p + 1]
      BY DEF HitsAreCurrent
    <3> QED
      BY <1>5, <2>2, <3>1
  <2>3. CASE tags'[l][p] = 0
    <3>1. sessions[s].owner # 0
      BY <1>3
    <3> QED
      BY <1>5, <2>3, <3>1
  <2>4. CASE /\ tags'[l][p] = sessions[c].owner
             /\ pool'[l][p] = history[c][p + 1]
    <3>1. c # s => sessions[c].owner # sessions[s].owner
      BY DEF OwnersOK
    <3>2. c = s
      BY <1>5, <2>4, <3>1
    <3> QED
      BY <2>4, <3>2
  <2> QED
    BY <2>1, <2>2, <2>3, <2>4
<1>6. HitsAreCurrent'
  BY <1>1, <1>5 DEF HitsAreCurrent
<1> QED
  BY <1>4, <1>6

-----------------------------------------------------------------------------
(* The steps between executions. *)

(* Without a step nothing is queued, and the step's parts of IInv are void. *)
LEMMA NoStep ==
  ASSUME current' = None, prefetches' = <<>>
  PROVE  StepOK' /\ PrefetchOK' /\ SuffixOK' /\ FetchedOK' /\ AttentionReadsOwnTokens'
BY DEF StepOK, PrefetchOK, SuffixOK, FetchedOK, AttentionReadsOwnTokens

(* Without a step nothing is queued. *)
LEMMA IdlePrefetches == ASSUME IInv, current = None PROVE prefetches = <<>>
BY DEF IInv, PrefetchOK

(* A session that is gone keeps nothing. *)
LEMMA GoneState ==
  /\ Gone \in SessionState
  /\ ~Gone.live /\ Gone.length = 0 /\ Gone.owner = 0
<1>1. 0 \in Owner /\ 0 \in Content /\ 0 \in 0 .. Longest
  BY Bounds DEF Owner, Content
<1> QED
  BY <1>1 DEF Gone, SessionState, Undefined

(* The live sessions are finitely many, and their capacities naturals. *)
LEMMA LiveSum ==
  ASSUME NEW T \in SUBSET Session
  PROVE  /\ IsFiniteSet(T) /\ SumFunctionOnSet(Capacity, T) \in Nat
         /\ \A e \in T : SumFunctionOnSet(Capacity, T)
                           = Capacity[e] + SumFunctionOnSet(Capacity, T \ {e})
<1>1. IsFiniteSet(T)
  BY PoolAssumption, FS_Subset
<1>2. \A x \in T : Capacity[x] \in Nat
  BY Bounds
<1> QED
  BY <1>1, <1>2, SumIsNatural, SumOfElement

(* A new session has an owner that no tag and no session ever had.         *)
LEMMA CreateIInv == ASSUME IInv, NEW s \in Session, Create(s) PROVE IInv'
<1>1. SessionTypes /\ PoolTypes /\ StepTypes
  BY TypeOKParts DEF IInv
<1>2. /\ s \notin Live /\ current = None /\ nextOwner <= MaxOwners
      /\ nextOwner' = nextOwner + 1
      /\ UNCHANGED <<scheme, pool, tags, current, prefetches, steps, history>>
  BY DEF Create, NextOwner
<1> DEFINE new == [Gone EXCEPT !.live = TRUE, !.owner = nextOwner]
<1>3. sessions' = [sessions EXCEPT ![s] = new]
  BY DEF Create
<1>4. new \in SessionState /\ new.live = TRUE /\ new.owner = nextOwner /\ new.length = 0
  <2>1. nextOwner \in Owner /\ nextOwner \in Nat
    BY <1>1, <1>2, Bounds DEF SessionTypes, Owner
  <2>2. Gone \in SessionState /\ Gone.length = 0
    BY GoneState
  <2>3. PICK g \in SessionState : g = Gone
    BY <2>2
  <2>4. new = [g EXCEPT !.live = TRUE, !.owner = nextOwner]
    BY <2>3
  <2>5. [g EXCEPT !.live = TRUE, !.owner = nextOwner] \in SessionState
    BY <2>1 DEF SessionState
  <2>6. /\ [g EXCEPT !.live = TRUE, !.owner = nextOwner].live = TRUE
        /\ [g EXCEPT !.live = TRUE, !.owner = nextOwner].owner = nextOwner
        /\ [g EXCEPT !.live = TRUE, !.owner = nextOwner].length = g.length
    BY DEF SessionState
  <2> QED
    BY <2>2, <2>3, <2>4, <2>5, <2>6
<1> HIDE DEF new
<1>5. /\ sessions'[s] = new /\ \A t \in Session : t # s => sessions'[t] = sessions[t]
      /\ sessions' \in [Session -> SessionState]
  BY <1>1, <1>3, <1>4 DEF SessionTypes
<1>6. Live' = Live \cup {s} /\ Live \subseteq Session
  BY <1>4, <1>5 DEF Live
<1>7. nextOwner \in Nat /\ nextOwner >= 1
  BY <1>1, Bounds DEF SessionTypes
<1>8. SessionTypes' /\ PoolTypes' /\ StepTypes'
  <2>1. nextOwner' \in 1 .. MaxOwners + 1
    BY <1>2, <1>7, Bounds
  <2> QED
    BY <1>1, <1>2, <1>5, <2>1 DEF SessionTypes, PoolTypes, StepTypes
<1>9. OwnersOK'
  <2>1. ASSUME NEW t \in Live PROVE /\ sessions[t].owner \in 1 .. nextOwner - 1
                                    /\ sessions'[t] = sessions[t] /\ t # s
    BY <1>2, <1>5, <1>6 DEF IInv, OwnersOK
  <2>2. \A t \in Live' : sessions'[t].owner \in 1 .. nextOwner' - 1
    BY <1>2, <1>4, <1>5, <1>6, <1>7, <2>1
  <2>3. \A t \in Live : sessions[t].owner # nextOwner
    BY <1>7, <2>1
  <2>4. \A t, u \in Live : t # u => sessions[t].owner # sessions[u].owner
    BY DEF IInv, OwnersOK
  <2>5. \A t, u \in Live' : t # u => sessions'[t].owner # sessions'[u].owner
    BY <1>4, <1>5, <1>6, <2>1, <2>3, <2>4
  <2>6. \A l \in Layer, p \in Slot : tags'[l][p] < nextOwner'
    <3>1. \A l \in Layer, p \in Slot : tags[l][p] < nextOwner /\ tags[l][p] \in Nat
      BY <1>1 DEF IInv, OwnersOK, PoolTypes, Owner
    <3> QED
      BY <1>2, <1>7, <3>1
  <2> QED
    BY <2>2, <2>5, <2>6 DEF OwnersOK
<1>10. HistoryOK' /\ HostOK' /\ HitsAreCurrent'
  <2>1. Capacity[s] \in Nat /\ sessions[s].length = 0
    BY <1>2, Bounds DEF IInv, HistoryOK
  <2>2. HistoryOK'
    <3>1. Len(history'[s]) = sessions'[s].length /\ sessions'[s].length <= Capacity[s]
      BY <1>2, <1>4, <1>5, <2>1 DEF IInv, HistoryOK
    <3>2. ASSUME NEW t \in Session, t # s
          PROVE  /\ Len(history'[t]) = sessions'[t].length
                 /\ t \in Live => sessions'[t].length <= Capacity[t]
                 /\ t \notin Live => sessions'[t].length = 0
      BY <1>2, <1>5, <3>2 DEF IInv, HistoryOK
    <3> QED
      BY <1>6, <3>1, <3>2 DEF HistoryOK
  <2>3. 0 .. sessions'[s].length - 1 = {}
    BY <1>4, <1>5
  <2>4. \A t \in Live : sessions'[t] = sessions[t]
    BY <1>2, <1>5, <1>6
  <2>5. HostOK'
    BY <1>2, <1>6, <2>3, <2>4 DEF IInv, HostOK
  <2>6. HitsAreCurrent'
    BY <1>2, <1>6, <2>3, <2>4 DEF IInv, HitsAreCurrent
  <2> QED
    BY <2>2, <2>5, <2>6
<1>11. QuotaOK'
  <2>1. SumFunctionOnSet(Capacity, Live) + Capacity[s] <= HostPages
    BY DEF Create, WithinQuota
  <2>2. SumFunctionOnSet(Capacity, Live') = Capacity[s] + SumFunctionOnSet(Capacity, Live)
    <3>1. Live' \in SUBSET Session /\ s \in Live' /\ Live' \ {s} = Live
      BY <1>2, <1>6
    <3> QED
      BY <3>1, LiveSum
  <2>3. Capacity[s] \in Nat /\ SumFunctionOnSet(Capacity, Live) \in Nat
    BY <1>6, Bounds, LiveSum
  <2> QED
    BY <2>1, <2>2, <2>3 DEF QuotaOK
<1>12. current' = None /\ prefetches' = <<>>
  BY <1>2, IdlePrefetches
<1> QED
  BY <1>8, <1>9, <1>10, <1>11, <1>12, NoStep, TypeOKParts DEF IInv

(* A shorter history is as good as the longer one was.                     *)
LEMMA TruncateIInv == ASSUME IInv, NEW s \in Session, NEW n \in Nat, Truncate(s, n) PROVE IInv'
<1>1. SessionTypes /\ PoolTypes /\ StepTypes
  BY TypeOKParts DEF IInv
<1>2. /\ s \in Live /\ current = None /\ n < sessions[s].length
      /\ UNCHANGED <<scheme, nextOwner, pool, tags, current, prefetches, steps>>
  BY DEF Truncate, Idle
<1>3. sessions[s] \in SessionState /\ sessions[s].length \in 0 .. Longest
  BY <1>1 DEF SessionTypes, SessionState
<1>4. /\ sessions' \in [Session -> SessionState]
      /\ sessions'[s].live = sessions[s].live /\ sessions'[s].owner = sessions[s].owner
      /\ sessions'[s].host = sessions[s].host /\ sessions'[s].length = n
      /\ \A t \in Session : t # s => sessions'[t] = sessions[t]
  <2> DEFINE new == [sessions[s] EXCEPT !.length = n]
  <2>1. sessions' = [sessions EXCEPT ![s] = new]
    BY <1>1 DEF Truncate, SessionTypes
  <2>2. new = [live |-> sessions[s].live, owner |-> sessions[s].owner, length |-> n,
               host |-> sessions[s].host]
    BY <1>3 DEF SessionState
  <2>3. n \in 0 .. Longest
    BY <1>2, <1>3, Bounds
  <2>4. new \in SessionState
    BY <1>3, <2>2, <2>3 DEF SessionState
  <2>5. new.live = sessions[s].live /\ new.owner = sessions[s].owner
        /\ new.host = sessions[s].host /\ new.length = n
    BY <2>2
  <2> HIDE DEF new
  <2>6. sessions'[s] = new /\ \A t \in Session : t # s => sessions'[t] = sessions[t]
    BY <1>1, <2>1 DEF SessionTypes
  <2>7. sessions' \in [Session -> SessionState]
    BY <1>1, <2>1, <2>4 DEF SessionTypes
  <2> QED
    BY <2>5, <2>6, <2>7
<1>5. /\ history' \in [Session -> Seq(1 .. MaxSteps)]
      /\ Len(history'[s]) = n /\ \A k \in 1 .. n : history'[s][k] = history[s][k]
      /\ \A t \in Session : t # s => history'[t] = history[t]
  <2> DEFINE h == history[s]
             g == SubSeq(h, 1, n)
  <2>1. h \in Seq(1 .. MaxSteps) /\ Len(h) = sessions[s].length
    BY <1>1 DEF SessionTypes, IInv, HistoryOK
  <2> HIDE DEF h
  <2>2. ASSUME NEW k \in 1 .. n PROVE h[k] \in 1 .. MaxSteps
    <3>1. k \in 1 .. Len(h)
      BY <1>2, <1>3, <2>1
    <3> QED
      BY <2>1, <3>1, ElementOfSeq
  <2>3. g \in Seq(1 .. MaxSteps) /\ Len(g) = n /\ \A k \in 1 .. n : g[k] = h[k]
    <3>1. 1 \in Int /\ n \in Int
      OBVIOUS
    <3>2. /\ g \in Seq(1 .. MaxSteps)
          /\ Len(g) = IF 1 <= n THEN n - 1 + 1 ELSE 0
          /\ \A i \in 1 .. n - 1 + 1 : g[i] = h[1 + i - 1]
      BY <2>1, <2>2, <3>1, SubSeqProperties
    <3> HIDE DEF g
    <3>3. Len(g) = n
      BY <3>2
    <3>4. ASSUME NEW k \in 1 .. n PROVE g[k] = h[k]
      <4>1. k \in 1 .. n - 1 + 1 /\ 1 + k - 1 = k
        OBVIOUS
      <4> QED
        BY <3>2, <4>1
    <3> QED
      BY <3>2, <3>3, <3>4
  <2>4. history' = [history EXCEPT ![s] = g]
    BY DEF Truncate, h
  <2> HIDE DEF g
  <2> QED
    BY <1>1, <2>3, <2>4 DEF SessionTypes, h
<1>6. Live' = Live /\ Live \subseteq Session
  BY <1>4 DEF Live
<1>7. SessionTypes' /\ PoolTypes' /\ StepTypes'
  BY <1>1, <1>2, <1>4, <1>5 DEF SessionTypes, PoolTypes, StepTypes
<1>8. \A t \in Session : sessions'[t].owner = sessions[t].owner
                          /\ sessions'[t].host = sessions[t].host
                          /\ sessions'[t].length <= sessions[t].length
  <2>1. \A t \in Session : sessions[t].length \in Nat
    BY <1>1 DEF SessionTypes, SessionState
  <2> QED
    BY <1>2, <1>4, <2>1
<1>9. OwnersOK'
  BY <1>2, <1>6, <1>8 DEF IInv, OwnersOK
<1>10. HistoryOK'
  <2>1. \A t \in Session : t # s => /\ Len(history'[t]) = sessions'[t].length
                                    /\ t \in Live => sessions'[t].length <= Capacity[t]
                                    /\ t \notin Live => sessions'[t].length = 0
    BY <1>4, <1>5 DEF IInv, HistoryOK
  <2>2. sessions'[s].length <= Capacity[s]
    <3>1. sessions[s].length <= Capacity[s] /\ Capacity[s] \in Nat
      BY <1>2, Bounds DEF IInv, HistoryOK
    <3> QED
      BY <1>2, <1>3, <1>4, <3>1
  <2> QED
    BY <1>2, <1>4, <1>5, <1>6, <2>1, <2>2 DEF HistoryOK
<1>11. ASSUME NEW t \in Session, NEW p \in 0 .. sessions'[t].length - 1
       PROVE  p \in 0 .. sessions[t].length - 1 /\ history'[t][p + 1] = history[t][p + 1]
  <2>1. sessions'[t].length \in Nat /\ sessions[t].length \in Nat
    BY <1>1, <1>4 DEF SessionTypes, SessionState
  <2>2. p \in 0 .. sessions[t].length - 1 /\ p + 1 \in 1 .. sessions'[t].length
    BY <1>8, <2>1
  <2> QED
    BY <1>4, <1>5, <2>2
<1>12. HostOK'
  BY <1>6, <1>8, <1>11 DEF IInv, HostOK
<1>13. HitsAreCurrent'
  BY <1>2, <1>6, <1>8, <1>11 DEF IInv, HitsAreCurrent
<1>14. QuotaOK'
  BY <1>6 DEF IInv, QuotaOK
<1>15. current' = None /\ prefetches' = <<>>
  BY <1>2, IdlePrefetches
<1> QED
  BY <1>7, <1>9, <1>10, <1>12, <1>13, <1>14, <1>15, NoStep, TypeOKParts DEF IInv

(* A session that is released takes its owner with it: its tags say        *)
(* nothing to the sessions that stay.                                      *)
LEMMA ReleaseIInv == ASSUME IInv, NEW s \in Session, Release(s) PROVE IInv'
<1>1. SessionTypes /\ PoolTypes /\ StepTypes
  BY TypeOKParts DEF IInv
<1>2. /\ s \in Live /\ current = None
      /\ sessions' = [sessions EXCEPT ![s] = Gone]
      /\ history' = [history EXCEPT ![s] = <<>>]
      /\ UNCHANGED <<scheme, nextOwner, pool, tags, current, prefetches, steps>>
  BY DEF Release, Idle
<1>3. Gone \in SessionState /\ ~Gone.live /\ Gone.length = 0
  BY GoneState
<1>4. /\ sessions' \in [Session -> SessionState] /\ sessions'[s] = Gone
      /\ \A t \in Session : t # s => sessions'[t] = sessions[t]
  BY <1>1, <1>2, <1>3 DEF SessionTypes
<1>5. /\ history' \in [Session -> Seq(1 .. MaxSteps)] /\ history'[s] = <<>>
      /\ \A t \in Session : t # s => history'[t] = history[t]
  BY <1>1, <1>2 DEF SessionTypes
<1>6. Live' = Live \ {s} /\ Live \subseteq Session
  BY <1>3, <1>4 DEF Live
<1>7. SessionTypes' /\ PoolTypes' /\ StepTypes'
  BY <1>1, <1>2, <1>4, <1>5 DEF SessionTypes, PoolTypes, StepTypes
<1>8. \A t \in Live' : t \in Live /\ sessions'[t] = sessions[t] /\ history'[t] = history[t]
  BY <1>4, <1>5, <1>6
<1>9. OwnersOK'
  BY <1>2, <1>8 DEF IInv, OwnersOK
<1>10. HistoryOK'
  BY <1>3, <1>4, <1>5, <1>6, <1>8 DEF IInv, HistoryOK
<1>11. HostOK' /\ HitsAreCurrent'
  BY <1>2, <1>8 DEF IInv, HostOK, HitsAreCurrent
<1>12. QuotaOK'
  <2>1. SumFunctionOnSet(Capacity, Live) = Capacity[s] + SumFunctionOnSet(Capacity, Live')
    BY <1>2, <1>6, LiveSum
  <2>2. SumFunctionOnSet(Capacity, Live') \in Nat /\ Capacity[s] \in Nat
    BY <1>6, Bounds, LiveSum
  <2>3. HostPages \in Nat /\ SumFunctionOnSet(Capacity, Live) <= HostPages
    BY PoolAssumption DEF IInv, QuotaOK
  <2> QED
    BY <2>1, <2>2, <2>3 DEF QuotaOK
<1>13. current' = None /\ prefetches' = <<>>
  BY <1>2, IdlePrefetches
<1> QED
  BY <1>7, <1>9, <1>10, <1>11, <1>12, <1>13, NoStep, TypeOKParts DEF IInv

-----------------------------------------------------------------------------
(* The steps of an execution. *)

(* A step begins with nothing written, and under dense_prefetch with the   *)
(* first layer queued.                                                     *)
LEMMA BeginIInv ==
  ASSUME IInv, NEW s \in Session, NEW n \in Nat, NEW transient \in BOOLEAN,
         Begin(s, n, transient)
  PROVE  IInv'
<1>1. SessionTypes /\ PoolTypes /\ StepTypes
  BY TypeOKParts DEF IInv
<1>2. /\ s \in Live /\ current = None /\ steps < MaxSteps /\ n > 0
      /\ Admitted(s, n, transient)
      /\ current' = [session |-> s, end |-> sessions[s].length + n,
                     transient |-> transient, written |-> 0, attended |-> 0, reads |-> {}]
      /\ prefetches' = IF Dense THEN <<1>> ELSE <<>>
      /\ steps' = steps + 1
      /\ UNCHANGED <<scheme, sessions, nextOwner, pool, tags, history>>
  BY DEF Begin, Idle
<1>3. sessions[s].length \in Nat /\ sessions[s].length <= Capacity[s]
      /\ Capacity[s] \in Nat /\ Capacity[s] <= Longest
      /\ steps \in Nat /\ MaxSteps \in Nat
  BY <1>1, <1>2, Bounds DEF SessionTypes, SessionState, IInv, HistoryOK, StepTypes
<1>4. current' \in Step
  BY <1>2, <1>3, Bounds DEF Step
<1>5. current' # None
  BY <1>4, NoneAssumption
<1>6. SessionTypes' /\ PoolTypes' /\ StepTypes'
  <2>1. steps' \in 0 .. MaxSteps
    BY <1>2, <1>3
  <2>2. prefetches' \in Seq(Layer)
    BY <1>2, Bounds
  <2> QED
    BY <1>1, <1>2, <1>4, <2>1, <2>2 DEF SessionTypes, PoolTypes, StepTypes
<1>7. Live' = Live /\ Cache' = sessions[s] /\ (Dense' <=> Dense)
  BY <1>2 DEF Live, Cache, Dense
<1>8. OwnersOK' /\ HistoryOK' /\ HostOK' /\ QuotaOK' /\ HitsAreCurrent'
  BY <1>2, <1>7 DEF IInv, OwnersOK, HistoryOK, HostOK, QuotaOK, HitsAreCurrent
<1>9. StepOK'
  <2>1. current'.end = sessions[s].length + n /\ current'.session = s
        /\ current'.written = 0 /\ current'.attended = 0 /\ current'.reads = {}
        /\ current'.transient = transient
    BY <1>2
  <2>2. current'.end > Cache'.length
    BY <1>2, <1>3, <1>7, <2>1
  <2>3. /\ current'.end <= Longest + CandidatePages
        /\ ~current'.transient => current'.end <= Capacity[s]
    <3>1. CASE transient
      BY <1>2, <1>3, <2>1, <3>1, Bounds DEF Admitted
    <3>2. CASE ~transient
      BY <1>2, <1>3, <2>1, <3>2, Bounds DEF Admitted
    <3> QED
      BY <3>1, <3>2
  <2>4. steps' >= 1
    BY <1>2, <1>3
  <2> QED
    BY <1>2, <1>7, <2>1, <2>2, <2>3, <2>4 DEF StepOK
<1>10. PrefetchOK'
  BY <1>2, <1>5, <1>7, Bounds DEF PrefetchOK
<1>11. \A l \in Layer : l \in Nat /\ l >= 1
  BY Bounds DEF Layer
<1>12. SuffixOK'
  <2>1. \A l \in Layer : ~InSlots(l)' /\ ~(l <= current'.written)
    BY <1>2, <1>11 DEF InSlots
  <2> QED
    BY <2>1 DEF SuffixOK
<1>13. FetchedOK'
  <2>1. \A l \in Layer : Dense => ~BroughtIn(l)'
    BY <1>2, <1>11 DEF BroughtIn
  <2> QED
    BY <1>7, <2>1 DEF FetchedOK
<1>14. AttentionReadsOwnTokens'
  BY <1>2 DEF AttentionReadsOwnTokens
<1> QED
  BY <1>6, <1>8, <1>9, <1>10, <1>12, <1>13, <1>14, TypeOKParts DEF IInv

(* The prefetch stream brings the next layer in while the one before it is *)
(* read.                                                                   *)
LEMMA PrefetchRunsIInv == ASSUME IInv, PrefetchRuns PROVE IInv'
<1>1. SessionTypes /\ PoolTypes /\ StepTypes
  BY TypeOKParts DEF IInv
<1>2. /\ Dense /\ current # None /\ current.written < Layers
      /\ prefetches = <<current.written + 1>>
  BY DEF PrefetchRuns, IInv, PrefetchOK
<1>3. /\ current \in Step /\ current.session \in Live /\ Cache = sessions[current.session]
      /\ Cache.length \in Nat
      /\ 0 .. Cache.length - 1 \subseteq Slot
  BY <1>1, <1>2, CurrentStep DEF IInv
<1>4. PICK h \in Layer : h = current.written + 1
  BY <1>2, <1>3, Bounds DEF Step, Layer
<1>5. /\ pool' = [pool EXCEPT ![h] = Filled(h, Slot)]
      /\ tags' = [tags EXCEPT ![h] = Claimed(h, Slot)]
      /\ prefetches' = <<>>
      /\ UNCHANGED <<scheme, sessions, nextOwner, current, steps, history>>
  BY <1>2, <1>4 DEF PrefetchRuns
<1>6. /\ Filled(h, Slot) \in [Slot -> Content]
      /\ Claimed(h, Slot) \in [Slot -> Owner]
      /\ \A p \in Slot :
           \/ Filled(h, Slot)[p] = pool[h][p] /\ Claimed(h, Slot)[p] = tags[h][p]
           \/ /\ p < Cache.length /\ Claimed(h, Slot)[p] = Cache.owner
              /\ Filled(h, Slot)[p] = history[current.session][p + 1]
      /\ \A p \in Slot : p < Cache.length => Claimed(h, Slot)[p] = Cache.owner
  BY <1>1, <1>2, BringIn DEF IInv
<1>7. /\ PoolTypes'
      /\ pool'[h] = Filled(h, Slot) /\ tags'[h] = Claimed(h, Slot)
      /\ \A l \in Layer : l # h => pool'[l] = pool[l] /\ tags'[l] = tags[l]
  BY <1>1, <1>5, <1>6 DEF PoolTypes
<1>8. SessionTypes' /\ StepTypes'
  BY <1>1, <1>5 DEF SessionTypes, StepTypes
<1>9. OwnersOK' /\ HitsAreCurrent'
  <2>1. ASSUME NEW l \in Layer, NEW p \in Slot
        PROVE  \/ tags'[l][p] = tags[l][p] /\ pool'[l][p] = pool[l][p]
               \/ tags'[l][p] = 0
               \/ /\ tags'[l][p] = sessions[current.session].owner
                  /\ p < sessions[current.session].length
                  /\ pool'[l][p] = history[current.session][p + 1]
    BY <1>3, <1>6, <1>7
  <2> QED
    BY <1>1, <1>3, <1>5, <1>7, <2>1, PoolStepKeepsHits DEF IInv
<1>10. Cache' = Cache /\ Suffix' = Suffix /\ Live' = Live /\ (Dense' <=> Dense)
  BY <1>5 DEF Cache, Suffix, Live, Dense
<1>11. HistoryOK' /\ HostOK' /\ QuotaOK' /\ StepOK'
  BY <1>5, <1>10 DEF IInv, HistoryOK, HostOK, QuotaOK, StepOK
<1>12. PrefetchOK'
  BY <1>5 DEF PrefetchOK
<1>13. current.written \in Nat /\ h = current.written + 1
  BY <1>3, <1>4 DEF Step
<1>14. SuffixOK'
  <2>1. \A l \in Layer : InSlots(l)' => InSlots(l) /\ l # h
    BY <1>2, <1>5, <1>10, <1>13 DEF InSlots, Layer
  <2> QED
    BY <1>2, <1>5, <1>7, <1>10, <2>1 DEF IInv, SuffixOK
<1>15. FetchedOK'
  <2>1. ASSUME NEW l \in Layer, BroughtIn(l)', NEW p \in 0 .. Cache.length - 1
        PROVE  tags'[l][p] = Cache.owner
    <3>1. CASE l = h
      BY <1>3, <1>6, <1>7, <3>1
    <3>2. CASE l # h
      <4>1. BroughtIn(l)
        BY <1>5, <1>13, <2>1, <3>2 DEF BroughtIn
      <4> QED
        BY <1>2, <1>7, <3>2, <4>1 DEF IInv, FetchedOK
    <3> QED
      BY <3>1, <3>2
  <2> QED
    BY <1>10, <2>1 DEF FetchedOK
<1>16. AttentionReadsOwnTokens'
  <2>1. ASSUME current.reads # {} PROVE pool'[current.attended] = pool[current.attended]
    <3>1. current.attended \in {current.written, current.written - 1} /\ current.attended >= 1
      BY <1>2, <2>1 DEF IInv, StepOK
    <3>2. current.attended \in Layer /\ current.attended # h
      BY <1>3, <1>13, <3>1, Bounds DEF Step, Layer
    <3> QED
      BY <1>7, <3>2
  <2> QED
    BY <1>2, <1>5, <1>10, <2>1 DEF IInv, AttentionReadsOwnTokens
<1> QED
  BY <1>7, <1>8, <1>9, <1>11, <1>12, <1>14, <1>15, <1>16, TypeOKParts DEF IInv

(* The append goes behind the history, on the host and, under              *)
(* dense_prefetch, in the pool.                                            *)
LEMMA WriteLayerIInv == ASSUME IInv, NEW l \in Layer, WriteLayer(l) PROVE IInv'
<1>1. SessionTypes /\ PoolTypes /\ StepTypes
  BY TypeOKParts DEF IInv
<1> DEFINE c == current.session
<1>2. /\ current # None /\ l = current.written + 1 /\ current.attended = current.written
      /\ l \notin ToSet(prefetches)
      /\ sessions' = IF current.transient THEN sessions
                     ELSE [sessions EXCEPT ![c].host[l] = WithSuffix(@)]
      /\ pool' = IF Dense THEN [pool EXCEPT ![l] = WithSuffix(@)] ELSE pool
      /\ tags' = IF Dense THEN [tags EXCEPT ![l] = InvalidateSuffix(@)] ELSE tags
      /\ prefetches' = IF Dense /\ l < Layers THEN Append(prefetches, l + 1) ELSE prefetches
      /\ current' = [current EXCEPT !.written = l, !.reads = {}]
      /\ UNCHANGED <<scheme, nextOwner, steps, history>>
  BY DEF WriteLayer
<1>3. /\ current \in Step /\ c \in Session /\ c \in Live /\ Cache = sessions[c]
      /\ Cache \in SessionState
      /\ Cache.length \in Nat /\ Suffix \subseteq Slot
      /\ 0 .. Cache.length - 1 \subseteq Slot
      /\ \A p \in Slot : p \in Nat /\ (p \in Suffix <=> p >= Cache.length /\ p < current.end)
      /\ steps \in 1 .. MaxSteps
  BY <1>1, <1>2, CurrentStep DEF IInv
<1>4. steps \in Content /\ current.written \in Nat /\ l \in Nat /\ l >= 1 /\ l <= Layers
  BY <1>2, <1>3, Bounds, SMTT(40) DEF Content, Step, Layer
<1>5. prefetches = <<>>
  <2>1. SUFFICES ASSUME prefetches # <<>> PROVE FALSE
    OBVIOUS
  <2>2. prefetches = <<l>>
    BY <1>2, <2>1 DEF IInv, PrefetchOK
  <2> QED
    BY <1>2, <2>2 DEF ToSet
<1>6. prefetches' = IF Dense /\ l < Layers THEN <<l + 1>> ELSE <<>>
  BY <1>2, <1>5
<1>7. /\ current' \in Step /\ current'.session = c /\ current'.end = current.end
      /\ current'.transient = current.transient /\ current'.written = l
      /\ current'.attended = current.attended /\ current'.reads = {}
  <2>1. current' = [current EXCEPT !.written = l, !.reads = {}] /\ l \in 0 .. Layers
    BY <1>2, <1>4
  <2> QED
    BY <1>3, <2>1 DEF Step
<1>8. current' # None
  BY <1>7, NoneAssumption
<1> HIDE DEF c
<1>9. /\ sessions' \in [Session -> SessionState]
      /\ \A s \in Session : /\ sessions'[s].live = sessions[s].live
                            /\ sessions'[s].owner = sessions[s].owner
                            /\ sessions'[s].length = sessions[s].length
      /\ \A s \in Session \ {c} : sessions'[s].host = sessions[s].host
      /\ \A m \in Layer \ {l} : sessions'[c].host[m] = sessions[c].host[m]
      /\ \A p \in Slot : sessions'[c].host[l][p]
                          = IF p \in Suffix /\ ~current.transient THEN steps ELSE sessions[c].host[l][p]
  <2>1. CASE current.transient
    <3>1. sessions' = sessions
      BY <1>2, <2>1
    <3> QED
      BY <1>1, <2>1, <3>1 DEF SessionTypes
  <2>2. CASE ~current.transient
    <3> DEFINE h == sessions[c].host
               g == [h EXCEPT ![l] = WithSuffix(h[l])]
               new == [sessions[c] EXCEPT !.host = g]
    <3>1. h \in [Layer -> [Slot -> Content]] /\ sessions[c] \in SessionState
      BY <1>3 DEF SessionState
    <3>2. /\ WithSuffix(h[l]) \in [Slot -> Content]
          /\ \A p \in Slot : WithSuffix(h[l])[p] = IF p \in Suffix THEN steps ELSE h[l][p]
      BY <1>4, <3>1, TakesSlots
    <3>3. sessions' = [sessions EXCEPT ![c] = new]
      BY <1>1, <1>2, <1>3, <2>2 DEF SessionTypes, c
    <3> HIDE DEF h
    <3>4. /\ g \in [Layer -> [Slot -> Content]]
          /\ g[l] = WithSuffix(h[l])
          /\ \A m \in Layer \ {l} : g[m] = h[m]
      BY <3>1, <3>2
    <3> HIDE DEF g
    <3>5. /\ new \in SessionState /\ new.live = sessions[c].live /\ new.owner = sessions[c].owner
          /\ new.length = sessions[c].length /\ new.host = g
      BY <3>1, <3>4 DEF SessionState
    <3> HIDE DEF new
    <3>6. /\ sessions'[c] = new
          /\ \A s \in Session \ {c} : sessions'[s] = sessions[s]
          /\ sessions' \in [Session -> SessionState]
      BY <1>1, <1>3, <3>3, <3>5 DEF SessionTypes
    <3>7. \A s \in Session : /\ sessions'[s].live = sessions[s].live
                             /\ sessions'[s].owner = sessions[s].owner
                             /\ sessions'[s].length = sessions[s].length
      BY <3>5, <3>6
    <3>10. \A s \in Session \ {c} : sessions'[s].host = sessions[s].host
      BY <3>6
    <3>8. \A m \in Layer \ {l} : sessions'[c].host[m] = sessions[c].host[m]
      BY <3>4, <3>5, <3>6 DEF h
    <3>9. \A p \in Slot : sessions'[c].host[l][p]
                          = IF p \in Suffix /\ ~current.transient THEN steps ELSE sessions[c].host[l][p]
      BY <2>2, <3>2, <3>4, <3>5, <3>6 DEF h
    <3> QED
      BY <3>6, <3>7, <3>8, <3>9, <3>10
  <2> QED
    BY <2>1, <2>2
<1>9a. \A s \in Session : /\ sessions'[s].live = sessions[s].live
                          /\ sessions'[s].owner = sessions[s].owner
                          /\ sessions'[s].length = sessions[s].length
  BY <1>9
<1>9b. /\ \A s \in Session \ {c} : sessions'[s].host = sessions[s].host
       /\ \A m \in Layer \ {l} : sessions'[c].host[m] = sessions[c].host[m]
       /\ \A p \in Slot \ Suffix : sessions'[c].host[l][p] = sessions[c].host[l][p]
  BY <1>9
<1>10. /\ PoolTypes'
       /\ \A m \in Layer \ {l} : pool'[m] = pool[m] /\ tags'[m] = tags[m]
       /\ \A p \in Slot : /\ pool'[l][p] = IF Dense /\ p \in Suffix THEN steps ELSE pool[l][p]
                          /\ tags'[l][p] = IF Dense /\ p \in Suffix THEN 0 ELSE tags[l][p]
  <2>1. CASE ~Dense
    <3>1. pool' = pool /\ tags' = tags
      BY <1>2, <2>1
    <3> QED
      BY <1>1, <2>1, <3>1 DEF PoolTypes
  <2>2. CASE Dense
    <3>1. pool[l] \in [Slot -> Content] /\ tags[l] \in [Slot -> Owner]
      BY <1>1 DEF PoolTypes
    <3>2. /\ WithSuffix(pool[l]) \in [Slot -> Content]
          /\ \A p \in Slot : WithSuffix(pool[l])[p] = IF p \in Suffix THEN steps ELSE pool[l][p]
          /\ InvalidateSuffix(tags[l]) \in [Slot -> Owner]
          /\ \A p \in Slot : InvalidateSuffix(tags[l])[p] = IF p \in Suffix THEN 0 ELSE tags[l][p]
      BY <1>4, <3>1, TakesSlots, TakesTags
    <3>3. /\ pool' = [pool EXCEPT ![l] = WithSuffix(pool[l])]
          /\ tags' = [tags EXCEPT ![l] = InvalidateSuffix(tags[l])]
      BY <1>2, <2>2
    <3>4. PICK a \in [Slot -> Content] : a = WithSuffix(pool[l])
      BY <3>2
    <3>5. PICK b \in [Slot -> Owner] : b = InvalidateSuffix(tags[l])
      BY <3>2
    <3>6. pool' = [pool EXCEPT ![l] = a] /\ tags' = [tags EXCEPT ![l] = b]
      BY <3>3, <3>4, <3>5
    <3>7. /\ PoolTypes' /\ pool'[l] = a /\ tags'[l] = b
          /\ \A m \in Layer \ {l} : pool'[m] = pool[m] /\ tags'[m] = tags[m]
      BY <1>1, <3>6 DEF PoolTypes
    <3>8. \A p \in Slot : /\ a[p] = IF p \in Suffix THEN steps ELSE pool[l][p]
                          /\ b[p] = IF p \in Suffix THEN 0 ELSE tags[l][p]
      BY <3>2, <3>4, <3>5
    <3> QED
      BY <2>2, <3>7, <3>8
  <2> QED
    BY <2>1, <2>2
<1>10a. \A m \in Layer \ {l} : pool'[m] = pool[m] /\ tags'[m] = tags[m]
  BY <1>10
<1>10b. /\ \A p \in Slot : ~(Dense /\ p \in Suffix) => pool'[l][p] = pool[l][p] /\ tags'[l][p] = tags[l][p]
        /\ \A p \in Slot : Dense /\ p \in Suffix => pool'[l][p] = steps /\ tags'[l][p] = 0
  BY <1>10
<1>11. /\ Live' = Live /\ (Dense' <=> Dense)
       /\ Cache' = sessions'[c] /\ Cache'.length = Cache.length /\ Cache'.owner = Cache.owner
       /\ Suffix' = Suffix
  <2>1. Live' = Live /\ (Dense' <=> Dense)
    BY <1>2, <1>9a DEF Live, Dense
  <2>2. Cache' = sessions'[c]
    BY <1>7 DEF Cache
  <2>3. Cache'.length = Cache.length /\ Cache'.owner = Cache.owner
    BY <1>3, <1>9a, <2>2
  <2> QED
    BY <1>7, <2>1, <2>2, <2>3 DEF Suffix
<1>12. SessionTypes' /\ StepTypes'
  <2>1. prefetches' \in Seq(Layer)
    <3>1. CASE Dense /\ l < Layers
      <4>1. l + 1 \in Layer
        BY <1>4, <3>1, Bounds DEF Layer
      <4> QED
        BY <1>6, <3>1, <4>1
    <3>2. CASE ~(Dense /\ l < Layers)
      BY <1>6, <3>2
    <3> QED
      BY <3>1, <3>2
  <2> QED
    BY <1>1, <1>2, <1>7, <1>9, <2>1 DEF SessionTypes, StepTypes
<1>13. OwnersOK' /\ HitsAreCurrent'
  <2>1. ASSUME NEW m \in Layer, NEW p \in Slot
        PROVE  \/ tags'[m][p] = tags[m][p] /\ pool'[m][p] = pool[m][p]
               \/ tags'[m][p] = 0
    <3>1. CASE m # l
      BY <1>10a, <3>1
    <3>2. CASE m = l
      BY <1>10b, <3>2
    <3> QED
      BY <3>1, <3>2
  <2>2. PoolTypes' /\ history' = history /\ nextOwner' = nextOwner
    BY <1>2, <1>10
  <2> QED
    BY <1>1, <1>3, <1>9a, <2>1, <2>2, PoolStepKeepsHits DEF IInv
<1>14. HistoryOK' /\ QuotaOK'
  BY <1>2, <1>9a, <1>11 DEF IInv, HistoryOK, QuotaOK
<1>15. HostOK'
  <2>1. ASSUME NEW s \in Live, NEW m \in Layer, NEW p \in 0 .. sessions[s].length - 1
        PROVE  sessions'[s].host[m][p] = sessions[s].host[m][p]
    <3>1. CASE s = c /\ m = l
      <4>1. p \in Slot /\ p \notin Suffix
        BY <1>3, <3>1
      <4> QED
        BY <1>9b, <3>1, <4>1
    <3>2. CASE s # c \/ m # l
      <4>1. s \in Session
        BY DEF Live
      <4> QED
        BY <1>9b, <3>2, <4>1
    <3> QED
      BY <3>1, <3>2
  <2>2. \A s \in Live : sessions'[s].length = sessions[s].length
    BY <1>9a DEF Live
  <2> QED
    BY <1>2, <1>11, <2>1, <2>2 DEF IInv, HostOK
<1>16. StepOK'
  <2>1. /\ current.end > Cache.length /\ current.end <= Longest + CandidatePages
        /\ ~current.transient => current.end <= Capacity[c]
        /\ steps >= 1
    BY <1>2 DEF IInv, StepOK, c
  <2>2. current'.attended = current'.written - 1
    BY <1>2, <1>4, <1>7
  <2> QED
    BY <1>2, <1>3, <1>7, <1>11, <2>1, <2>2 DEF StepOK
<1>17. PrefetchOK'
  BY <1>6, <1>7, <1>8, <1>11 DEF PrefetchOK
<1>18. SuffixOK'
  <2>1. ASSUME NEW m \in Layer, NEW p \in Suffix, InSlots(m)' PROVE pool'[m][p] = steps
    <3>1. CASE m = l /\ Dense
      BY <1>3, <1>10b, <3>1
    <3>2. CASE ~(m = l /\ Dense)
      <4>1. InSlots(m) /\ pool'[m][p] = pool[m][p]
        <5>1. m \in Nat
          BY Bounds DEF Layer
        <5>2. InSlots(m)
          <6>1. CASE Dense
            <7>1. m <= l /\ m # l
              BY <1>7, <1>11, <2>1, <3>2, <6>1 DEF InSlots
            <7>2. m <= current.written
              BY <1>2, <1>4, <5>1, <7>1
            <7> QED
              BY <6>1, <7>2 DEF InSlots
          <6>2. CASE ~Dense
            BY <1>7, <1>11, <2>1, <6>2 DEF InSlots
          <6> QED
            BY <6>1, <6>2
        <5>3. p \in Slot
          BY <1>3
        <5> QED
          BY <1>10a, <1>10b, <3>2, <5>2, <5>3
      <4> QED
        BY <1>2, <4>1 DEF IInv, SuffixOK
    <3> QED
      BY <3>1, <3>2
  <2>2. ASSUME NEW m \in Layer, NEW p \in Suffix, ~current.transient, m <= l
        PROVE  sessions'[c].host[m][p] = steps
    <3>1. p \in Slot /\ m \in Nat
      BY <1>3, Bounds DEF Layer
    <3>2. CASE m = l
      BY <1>9, <2>2, <3>1, <3>2
    <3>3. CASE m # l
      <4>1. m <= current.written
        BY <1>2, <1>4, <2>2, <3>1, <3>3
      <4>2. sessions[c].host[m][p] = steps
        BY <1>2, <1>3, <2>2, <4>1 DEF IInv, SuffixOK
      <4> QED
        BY <1>9b, <3>3, <4>2
    <3> QED
      BY <3>2, <3>3
  <2> QED
    BY <1>2, <1>7, <1>11, <2>1, <2>2 DEF SuffixOK
<1>19. FetchedOK'
  <2>1. ASSUME Dense, NEW m \in Layer, BroughtIn(m)', NEW p \in 0 .. Cache.length - 1
        PROVE  tags'[m][p] = Cache.owner
    <3>1. m \in Nat /\ m <= Layers /\ p \in Slot /\ p \notin Suffix
      BY <1>3, Bounds DEF Layer
    <3>2. m <= l
      <4>1. m <= l \/ (m = l + 1 /\ prefetches' = <<>>)
        BY <1>7, <2>1 DEF BroughtIn
      <4>2. CASE m = l + 1 /\ prefetches' = <<>>
        <5>1. ~(l < Layers)
          BY <1>6, <2>1, <4>2
        <5> QED
          BY <1>4, <3>1, <4>2, <5>1, Bounds
      <4> QED
        BY <4>1, <4>2
    <3>3. BroughtIn(m)
      BY <1>2, <1>4, <1>5, <3>1, <3>2 DEF BroughtIn
    <3>4. tags[m][p] = Cache.owner
      BY <1>2, <2>1, <3>3 DEF IInv, FetchedOK
    <3>5. tags'[m][p] = tags[m][p]
      BY <1>10a, <1>10b, <3>1
    <3> QED
      BY <3>4, <3>5
  <2> QED
    BY <1>11, <2>1 DEF FetchedOK
<1>20. AttentionReadsOwnTokens'
  BY <1>7 DEF AttentionReadsOwnTokens
<1> QED
  BY <1>10, <1>12, <1>13, <1>14, <1>15, <1>16, <1>17, <1>18, <1>19, <1>20, TypeOKParts DEF IInv

(* The step goes on and nothing but what attention reads changes.          *)
LEMMA Attended ==
  ASSUME current \in Step, NEW l \in Layer, NEW reads \in SUBSET Slot,
         current' = [current EXCEPT !.attended = l, !.reads = reads]
  PROVE  /\ current' \in Step /\ current' # None
         /\ current'.session = current.session /\ current'.end = current.end
         /\ current'.transient = current.transient /\ current'.written = current.written
         /\ current'.attended = l /\ current'.reads = reads
<1>1. l \in 0 .. Layers
  BY Bounds DEF Layer
<1>2. /\ current' \in Step
      /\ current'.session = current.session /\ current'.end = current.end
      /\ current'.transient = current.transient /\ current'.written = current.written
      /\ current'.attended = l /\ current'.reads = reads
  BY <1>1 DEF Step
<1> QED
  BY <1>2, NoneAssumption

(* Dense attention reads the whole layer: the history that was brought in, *)
(* and the append behind it.                                               *)
LEMMA AttendDenseIInv == ASSUME IInv, NEW l \in Layer, AttendDense(l) PROVE IInv'
<1>1. SessionTypes /\ PoolTypes /\ StepTypes
  BY TypeOKParts DEF IInv
<1>2. /\ Dense /\ current # None /\ l = current.written /\ current.attended = l - 1
      /\ current' = [current EXCEPT !.attended = l, !.reads = 0 .. current.end - 1]
      /\ UNCHANGED <<scheme, sessions, nextOwner, pool, tags, prefetches, steps, history>>
  BY DEF AttendDense, ReadyToAttend
<1>3. /\ current \in Step /\ current.session \in Live /\ Cache = sessions[current.session]
      /\ Cache.length \in Nat /\ current.end \in Nat
      /\ 0 .. current.end - 1 \subseteq Slot
      /\ \A p \in Slot : p \in Nat /\ (p \in Suffix <=> p >= Cache.length /\ p < current.end)
  BY <1>1, <1>2, CurrentStep DEF IInv
<1>4. /\ current' \in Step /\ current' # None
      /\ current'.session = current.session /\ current'.end = current.end
      /\ current'.transient = current.transient /\ current'.written = current.written
      /\ current'.attended = l /\ current'.reads = 0 .. current.end - 1
  BY <1>2, <1>3, Attended, ZenonT(60)
<1>5. l \in Nat /\ l >= 1
  BY Bounds DEF Layer
<1>6. Cache' = Cache /\ Suffix' = Suffix /\ Live' = Live /\ (Dense' <=> Dense)
  BY <1>2, <1>4 DEF Cache, Suffix, Live, Dense
<1>7. SessionTypes' /\ PoolTypes' /\ StepTypes'
  BY <1>1, <1>2, <1>4 DEF SessionTypes, PoolTypes, StepTypes
<1>8. OwnersOK' /\ HistoryOK' /\ HostOK' /\ QuotaOK' /\ HitsAreCurrent'
  BY <1>2, <1>6 DEF IInv, OwnersOK, HistoryOK, HostOK, QuotaOK, HitsAreCurrent
<1>9. StepOK' /\ PrefetchOK'
  BY <1>2, <1>4, <1>5, <1>6 DEF IInv, StepOK, PrefetchOK
<1>10. SuffixOK' /\ FetchedOK'
  BY <1>2, <1>4, <1>6 DEF IInv, SuffixOK, FetchedOK, InSlots, BroughtIn
<1>11. AttentionReadsOwnTokens'
  <2>1. ASSUME NEW p \in 0 .. current.end - 1, p < Cache.length
        PROVE  pool[l][p] = history[current.session][p + 1]
    <3>1. p \in 0 .. Cache.length - 1
      BY <1>3, <2>1
    <3>2. BroughtIn(l)
      BY <1>2, <1>5 DEF BroughtIn
    <3>3. tags[l][p] = Cache.owner
      BY <1>2, <3>1, <3>2 DEF IInv, FetchedOK
    <3> QED
      BY <1>3, <3>1, <3>3 DEF IInv, HitsAreCurrent
  <2>2. ASSUME NEW p \in 0 .. current.end - 1, ~(p < Cache.length) PROVE pool[l][p] = steps
    <3>1. p \in Suffix /\ InSlots(l)
      BY <1>2, <1>3, <1>5, <2>2 DEF InSlots
    <3> QED
      BY <1>2, <3>1 DEF IInv, SuffixOK
  <2> QED
    BY <1>2, <1>4, <1>6, <2>1, <2>2 DEF AttentionReadsOwnTokens
<1> QED
  BY <1>7, <1>8, <1>9, <1>10, <1>11, TypeOKParts DEF IInv

(* What sparse attention leaves in a layer: pages of the history with      *)
(* their tags, the append without, and a cleared page without.             *)
LEMMA SparseEffect ==
  ASSUME SessionTypes, PoolTypes, StepTypes, HistoryOK, StepOK, HostOK, OwnersOK,
         HitsAreCurrent, current # None,
         NEW l \in Layer, NEW selected \in SUBSET (0 .. Cache.length - 1),
         NEW q, q = [p \in Slot |-> IF p \in Missing(l, selected) THEN Cache.host[l][p]
                                                               ELSE PreparedSlots(l)[p]],
         NEW g, g = PublishedTags(l, selected)
  PROVE  /\ q \in [Slot -> Content] /\ g \in [Slot -> Owner]
         /\ \A p \in Slot : \/ g[p] = tags[l][p] /\ q[p] = pool[l][p]
                            \/ g[p] = 0
                            \/ /\ g[p] = Cache.owner /\ p < Cache.length
                               /\ q[p] = history[current.session][p + 1]
         /\ \A p \in Suffix : q[p] = steps
         /\ \A p \in selected : q[p] = history[current.session][p + 1]
<1> DEFINE c == current.session
<1>1. /\ Cache \in SessionState /\ c \in Live /\ Cache = sessions[c] /\ Cache.length \in Nat
      /\ Suffix \subseteq Slot /\ selected \subseteq Slot /\ 0 \in Slot
      /\ \A p \in Slot : p \in Nat /\ (p \in Suffix <=> p >= Cache.length /\ p < current.end)
      /\ steps \in 1 .. MaxSteps
  BY CurrentStep, Bounds
<1> HIDE DEF c
<1>2. /\ Cache.host[l] \in [Slot -> Content] /\ Cache.owner \in Owner
      /\ pool[l] \in [Slot -> Content] /\ tags[l] \in [Slot -> Owner]
      /\ steps \in Content /\ 0 \in Content /\ 0 \in Owner
  <2>1. Cache.host[l] \in [Slot -> Content] /\ Cache.owner \in Owner
    BY <1>1 DEF SessionState
  <2>2. pool[l] \in [Slot -> Content] /\ tags[l] \in [Slot -> Owner]
    BY DEF PoolTypes
  <2>3. steps \in Content /\ 0 \in Content /\ 0 \in Owner
    BY <1>1, Bounds DEF Content, Owner
  <2> QED
    BY <2>1, <2>2, <2>3
<1>3. \A p \in Slot : p < Cache.length => Cache.host[l][p] = history[c][p + 1]
  BY <1>1 DEF HostOK
<1>4. \A p \in Slot : p < Cache.length /\ tags[l][p] = Cache.owner => pool[l][p] = history[c][p + 1]
  BY <1>1 DEF HitsAreCurrent
<1>5. PICK w \in [Slot -> Content] :
        w = WithSuffix(pool[l]) /\ \A p \in Slot : w[p] = IF p \in Suffix THEN steps ELSE pool[l][p]
  BY <1>2, TakesSlots
<1> DEFINE zero == IF 0 \in Missing(l, {0}) THEN Undefined ELSE w[0]
<1>6. zero \in Content
  BY <1>1, <1>2, <1>5 DEF Undefined
<1>7. PreparedSlots(l) = [w EXCEPT ![0] = zero]
  BY <1>5 DEF PreparedSlots
<1>8. PICK r \in [Slot -> Content] :
        r = PreparedSlots(l) /\ \A p \in Slot : r[p] = IF p = 0 THEN zero ELSE w[p]
  <2> HIDE DEF zero
  <2> QED
    BY <1>1, <1>5, <1>6, <1>7
<1>9. \A p \in Slot : q[p] = IF p \in Missing(l, selected) THEN Cache.host[l][p] ELSE r[p]
  BY <1>8
<1>10. q \in [Slot -> Content]
  BY <1>2, <1>8
<1>11. PICK t \in [Slot -> Owner] :
         t = Claimed(l, selected)
         /\ \A p \in Slot : t[p] = IF p \in Missing(l, selected) THEN Cache.owner ELSE tags[l][p]
  <2>1. Claimed(l, selected)
          = [p \in Slot |-> IF p \in Missing(l, selected) THEN Cache.owner ELSE tags[l][p]]
    BY DEF Claimed
  <2>2. Claimed(l, selected) \in [Slot -> Owner]
    BY <1>2, <2>1
  <2> QED
    BY <2>1, <2>2
<1>12. PICK u \in [Slot -> Owner] :
         u = InvalidateSuffix(t) /\ \A p \in Slot : u[p] = IF p \in Suffix THEN 0 ELSE t[p]
  BY TakesTags
<1>13. g = [u EXCEPT ![0] = IF 0 \in Missing(l, {0} \ selected) THEN 0 ELSE u[0]]
  BY <1>11, <1>12 DEF PublishedTags
<1>14. /\ g \in [Slot -> Owner]
       /\ \A p \in Slot : g[p] = IF p = 0 /\ 0 \in Missing(l, {0} \ selected) THEN 0 ELSE u[p]
  BY <1>1, <1>2, <1>12, <1>13
<1>15. \A wanted : \A p : p \in Missing(l, wanted)
                        <=> p \in wanted /\ p < Cache.length /\ tags[l][p] # Cache.owner
  BY DEF Missing
<1>16. ASSUME NEW p \in Suffix PROVE q[p] = steps /\ g[p] = 0
  <2>1. p \in Slot /\ p \notin Missing(l, selected) /\ ~(p < Cache.length)
    BY <1>1, <1>15
  <2>2. p = 0 => 0 \notin Missing(l, {0})
    BY <1>15, <2>1
  <2>3. r[p] = steps
    BY <1>5, <1>8, <2>1, <2>2
  <2>4. g[p] = 0
    BY <1>12, <1>14, <2>1
  <2> QED
    BY <1>9, <2>1, <2>3, <2>4
<1>17. ASSUME NEW p \in Missing(l, selected)
       PROVE  /\ p \in Slot /\ p < Cache.length /\ g[p] = Cache.owner
              /\ q[p] = history[c][p + 1]
  <2>1. p \in selected /\ p \in Slot /\ p < Cache.length /\ p \notin Suffix
    <3>1. p \in selected /\ p < Cache.length
      BY <1>15
    <3> QED
      BY <1>1, <3>1
  <2>2. ~(p = 0 /\ 0 \in Missing(l, {0} \ selected))
    BY <1>15, <2>1
  <2>3. g[p] = Cache.owner
    BY <1>11, <1>12, <1>14, <2>1, <2>2
  <2> QED
    BY <1>3, <1>9, <2>1, <2>3
<1>18. ASSUME NEW p \in Slot, p \notin Suffix, p \notin Missing(l, selected),
              p = 0 => 0 \notin Missing(l, {0} \ selected)
       PROVE  q[p] = pool[l][p] /\ g[p] = tags[l][p]
  <2>1. g[p] = tags[l][p]
    BY <1>11, <1>12, <1>14, <1>18
  <2>2. p = 0 => 0 \notin Missing(l, {0})
    BY <1>15, <1>18
  <2>3. r[p] = pool[l][p]
    BY <1>5, <1>8, <1>18, <2>2
  <2> QED
    BY <1>9, <1>18, <2>1, <2>3
<1>19. ASSUME NEW p \in Slot
       PROVE  \/ g[p] = tags[l][p] /\ q[p] = pool[l][p]
              \/ g[p] = 0
              \/ /\ g[p] = Cache.owner /\ p < Cache.length
                 /\ q[p] = history[c][p + 1]
  <2>1. CASE p = 0 /\ 0 \in Missing(l, {0} \ selected)
    BY <1>14, <2>1
  <2> QED
    BY <1>16, <1>17, <1>18, <2>1
<1>20. ASSUME NEW p \in selected PROVE q[p] = history[c][p + 1]
  <2>1. p \in Slot /\ p < Cache.length /\ p \notin Suffix
    BY <1>1
  <2>2. CASE p \in Missing(l, selected)
    BY <1>17, <2>2
  <2>3. CASE p \notin Missing(l, selected)
    <3>1. tags[l][p] = Cache.owner /\ (p = 0 => 0 \notin Missing(l, {0} \ selected))
      BY <1>15, <2>1, <2>3
    <3> QED
      BY <1>4, <1>18, <2>1, <2>3, <3>1
  <2> QED
    BY <2>2, <2>3
<1> QED
  BY <1>10, <1>14, <1>16, <1>19, <1>20 DEF c

(* Sparse attention fetches what it selected and reads it with the append. *)
LEMMA AttendSparseIInv ==
  ASSUME IInv, NEW l \in Layer, NEW selected, AttendSparse(l, selected)
  PROVE  IInv'
<1>1. SessionTypes /\ PoolTypes /\ StepTypes
  BY TypeOKParts DEF IInv
<1> DEFINE q == [p \in Slot |-> IF p \in Missing(l, selected) THEN Cache.host[l][p]
                                                            ELSE PreparedSlots(l)[p]]
           g == PublishedTags(l, selected)
<1>2. /\ ~Dense /\ current # None /\ l = current.written /\ current.attended = l - 1
      /\ selected \in SUBSET (0 .. Cache.length - 1)
      /\ pool' = [pool EXCEPT ![l] = q] /\ tags' = [tags EXCEPT ![l] = g]
      /\ current' = [current EXCEPT !.attended = l, !.reads = selected \cup Suffix]
      /\ UNCHANGED <<scheme, sessions, nextOwner, prefetches, steps, history>>
  BY DEF AttendSparse, ReadyToAttend
<1>3. /\ current \in Step /\ current.session \in Live /\ Cache = sessions[current.session]
      /\ Cache.length \in Nat /\ current.end \in Nat /\ Cache.length < current.end
      /\ Suffix \subseteq Slot /\ 0 .. Cache.length - 1 \subseteq Slot
      /\ \A p \in Slot : p \in Nat /\ (p \in Suffix <=> p >= Cache.length /\ p < current.end)
  BY <1>1, <1>2, CurrentStep DEF IInv
<1>4. PICK n : n = q
  OBVIOUS
<1>5. PICK t : t = g
  OBVIOUS
<1>6. /\ n \in [Slot -> Content] /\ t \in [Slot -> Owner]
      /\ \A p \in Slot : \/ t[p] = tags[l][p] /\ n[p] = pool[l][p]
                         \/ t[p] = 0
                         \/ /\ t[p] = Cache.owner /\ p < Cache.length
                            /\ n[p] = history[current.session][p + 1]
      /\ \A p \in Suffix : n[p] = steps
      /\ \A p \in selected : n[p] = history[current.session][p + 1]
  BY <1>1, <1>2, <1>4, <1>5, SparseEffect DEF IInv
<1>7. pool' = [pool EXCEPT ![l] = n] /\ tags' = [tags EXCEPT ![l] = t]
  BY <1>2, <1>4, <1>5
<1> HIDE DEF q, g
<1>8. /\ PoolTypes' /\ pool'[l] = n /\ tags'[l] = t
      /\ \A m \in Layer \ {l} : pool'[m] = pool[m] /\ tags'[m] = tags[m]
  BY <1>1, <1>6, <1>7 DEF PoolTypes
<1>9. /\ current' \in Step /\ current' # None
      /\ current'.session = current.session /\ current'.end = current.end
      /\ current'.transient = current.transient /\ current'.written = current.written
      /\ current'.attended = l /\ current'.reads = selected \cup Suffix
  <2>1. selected \cup Suffix \in SUBSET Slot
    BY <1>2, <1>3
  <2> QED
    BY <1>2, <1>3, <2>1, Attended
<1>10. Cache' = Cache /\ Suffix' = Suffix /\ Live' = Live /\ (Dense' <=> Dense)
  BY <1>2, <1>9 DEF Cache, Suffix, Live, Dense
<1>11. SessionTypes' /\ StepTypes'
  BY <1>1, <1>2, <1>9 DEF SessionTypes, StepTypes
<1>12. OwnersOK' /\ HitsAreCurrent'
  <2>1. ASSUME NEW m \in Layer, NEW p \in Slot
        PROVE  \/ tags'[m][p] = tags[m][p] /\ pool'[m][p] = pool[m][p]
               \/ tags'[m][p] = 0
               \/ /\ tags'[m][p] = sessions[current.session].owner
                  /\ p < sessions[current.session].length
                  /\ pool'[m][p] = history[current.session][p + 1]
    BY <1>3, <1>6, <1>8
  <2> QED
    BY <1>1, <1>2, <1>3, <1>8, <2>1, PoolStepKeepsHits DEF IInv
<1>13. HistoryOK' /\ HostOK' /\ QuotaOK' /\ PrefetchOK'
  BY <1>2, <1>9, <1>10 DEF IInv, HistoryOK, HostOK, QuotaOK, PrefetchOK
<1>14. StepOK'
  <2>1. selected \cup Suffix \subseteq 0 .. current.end - 1
    BY <1>2, <1>3
  <2>2. l >= 1
    BY Bounds DEF Layer
  <2> QED
    BY <1>2, <1>9, <1>10, <2>1, <2>2 DEF IInv, StepOK
<1>15. SuffixOK'
  <2>1. ASSUME NEW m \in Layer, NEW p \in Suffix, InSlots(m)' PROVE pool'[m][p] = steps
    <3>1. CASE m = l
      BY <1>6, <1>8, <3>1
    <3>2. CASE m # l
      <4>1. m <= l /\ m \in Nat /\ l \in Nat
        BY <1>2, <1>9, <1>10, <2>1, Bounds DEF InSlots, Layer
      <4>2. InSlots(m)
        BY <1>2, <3>2, <4>1 DEF InSlots
      <4> QED
        BY <1>2, <1>8, <3>2, <4>2 DEF IInv, SuffixOK
    <3> QED
      BY <3>1, <3>2
  <2> QED
    BY <1>2, <1>9, <1>10, <2>1 DEF IInv, SuffixOK
<1>16. FetchedOK'
  BY <1>2, <1>10 DEF FetchedOK
<1>17. AttentionReadsOwnTokens'
  <2>1. ASSUME NEW p \in selected \cup Suffix
        PROVE  n[p] = IF p < Cache.length THEN history[current.session][p + 1] ELSE steps
    <3>1. CASE p \in selected
      <4>1. p < Cache.length
        BY <1>2, <1>3, <3>1
      <4> QED
        BY <1>6, <3>1, <4>1
    <3>2. CASE p \in Suffix
      <4>1. ~(p < Cache.length)
        BY <1>3, <3>2
      <4> QED
        BY <1>6, <3>2, <4>1
    <3> QED
      BY <3>1, <3>2
  <2> QED
    BY <1>2, <1>8, <1>9, <1>10, <2>1 DEF AttentionReadsOwnTokens
<1> QED
  BY <1>8, <1>11, <1>12, <1>13, <1>14, <1>15, <1>16, <1>17, TypeOKParts DEF IInv

(* After a failed fetch no tag of the layer is trusted.                    *)
LEMMA FetchFailsIInv == ASSUME IInv, NEW l \in Layer, FetchFails(l) PROVE IInv'
<1>1. SessionTypes /\ PoolTypes /\ StepTypes
  BY TypeOKParts DEF IInv
<1> DEFINE r == PreparedSlots(l)
           z == [p \in Slot |-> 0]
<1>2. /\ ~Dense /\ current # None /\ current' = None
      /\ pool' = [pool EXCEPT ![l] = r] /\ tags' = [tags EXCEPT ![l] = z]
      /\ UNCHANGED <<scheme, sessions, nextOwner, prefetches, steps, history>>
  BY DEF FetchFails, ReadyToAttend
<1>3. current.session \in Live /\ steps \in 1 .. MaxSteps
  BY <1>1, <1>2, CurrentStep DEF IInv
<1>4. r \in [Slot -> Content]
  <2>1. steps \in Content /\ Undefined \in Content /\ pool[l] \in [Slot -> Content] /\ 0 \in Slot
    BY <1>1, <1>3, Bounds DEF Content, Undefined, PoolTypes
  <2>2. PICK w \in [Slot -> Content] : w = WithSuffix(pool[l])
    BY <2>1, TakesSlots
  <2>3. r = [w EXCEPT ![0] = IF 0 \in Missing(l, {0}) THEN Undefined ELSE w[0]]
    BY <2>2 DEF PreparedSlots
  <2> QED
    BY <2>1, <2>2, <2>3
<1>5. z \in [Slot -> Owner] /\ \A p \in Slot : z[p] = 0
  BY Bounds DEF Owner
<1> HIDE DEF r, z
<1>6. /\ PoolTypes' /\ tags'[l] = z
      /\ \A m \in Layer \ {l} : pool'[m] = pool[m] /\ tags'[m] = tags[m]
  BY <1>1, <1>2, <1>4, <1>5 DEF PoolTypes
<1>7. OwnersOK' /\ HitsAreCurrent'
  <2>1. ASSUME NEW m \in Layer, NEW p \in Slot
        PROVE  \/ tags'[m][p] = tags[m][p] /\ pool'[m][p] = pool[m][p]
               \/ tags'[m][p] = 0
    BY <1>5, <1>6
  <2> QED
    BY <1>1, <1>2, <1>3, <1>6, <2>1, PoolStepKeepsHits DEF IInv
<1>8. SessionTypes' /\ StepTypes' /\ Live' = Live
  BY <1>1, <1>2 DEF SessionTypes, StepTypes, Live
<1>9. HistoryOK' /\ HostOK' /\ QuotaOK'
  BY <1>2, <1>8 DEF IInv, HistoryOK, HostOK, QuotaOK
<1>10. prefetches' = <<>>
  BY <1>2 DEF IInv, PrefetchOK
<1> QED
  BY <1>2, <1>6, <1>7, <1>8, <1>9, <1>10, NoStep, TypeOKParts DEF IInv

(* An aborted step leaves its session as it was, whether or not the        *)
(* prefetch that was queued came in.                                       *)
LEMMA AbortIInv == ASSUME IInv, NEW queued, Abort(queued) PROVE IInv'
<1>1. SessionTypes /\ PoolTypes /\ StepTypes
  BY TypeOKParts DEF IInv
<1>2. /\ current # None /\ current' = None /\ prefetches' = <<>>
      /\ pool' = [l \in Layer |-> IF l \in ToSet(queued) THEN Filled(l, Slot) ELSE pool[l]]
      /\ tags' = [l \in Layer |-> IF l \in ToSet(queued) THEN Claimed(l, Slot) ELSE tags[l]]
      /\ UNCHANGED <<scheme, sessions, nextOwner, steps, history>>
  BY DEF Abort, Drained
<1>3. current.session \in Live /\ Cache = sessions[current.session]
  BY <1>1, <1>2, CurrentStep DEF IInv
<1>4. ASSUME NEW l \in Layer
      PROVE  /\ pool'[l] \in [Slot -> Content] /\ tags'[l] \in [Slot -> Owner]
             /\ \A p \in Slot :
                  \/ pool'[l][p] = pool[l][p] /\ tags'[l][p] = tags[l][p]
                  \/ /\ p < Cache.length /\ tags'[l][p] = Cache.owner
                     /\ pool'[l][p] = history[current.session][p + 1]
  <2>1. CASE l \in ToSet(queued)
    <3>1. pool'[l] = Filled(l, Slot) /\ tags'[l] = Claimed(l, Slot)
      BY <1>2, <2>1
    <3>2. /\ Filled(l, Slot) \in [Slot -> Content]
          /\ Claimed(l, Slot) \in [Slot -> Owner]
          /\ \A p \in Slot :
               \/ Filled(l, Slot)[p] = pool[l][p] /\ Claimed(l, Slot)[p] = tags[l][p]
               \/ /\ p < Cache.length /\ Claimed(l, Slot)[p] = Cache.owner
                  /\ Filled(l, Slot)[p] = history[current.session][p + 1]
      BY <1>1, <1>2, BringIn DEF IInv
    <3> QED
      BY <3>1, <3>2
  <2>2. CASE l \notin ToSet(queued)
    <3>1. pool'[l] = pool[l] /\ tags'[l] = tags[l]
      BY <1>2, <2>2
    <3> QED
      BY <1>1, <3>1 DEF PoolTypes
  <2> QED
    BY <2>1, <2>2
<1>5. PoolTypes'
  <2>1. \A l \in Layer : pool'[l] \in [Slot -> Content] /\ tags'[l] \in [Slot -> Owner]
    BY <1>4
  <2>2. /\ pool' = [l \in Layer |-> pool'[l]]
        /\ tags' = [l \in Layer |-> tags'[l]]
    BY <1>2
  <2> QED
    BY <2>1, <2>2 DEF PoolTypes
<1>6. OwnersOK' /\ HitsAreCurrent'
  <2>1. ASSUME NEW m \in Layer, NEW p \in Slot
        PROVE  \/ tags'[m][p] = tags[m][p] /\ pool'[m][p] = pool[m][p]
               \/ tags'[m][p] = 0
               \/ /\ tags'[m][p] = sessions[current.session].owner
                  /\ p < sessions[current.session].length
                  /\ pool'[m][p] = history[current.session][p + 1]
    BY <1>3, <1>4
  <2> QED
    BY <1>1, <1>2, <1>3, <1>5, <2>1, PoolStepKeepsHits DEF IInv
<1>7. SessionTypes' /\ StepTypes' /\ Live' = Live
  BY <1>1, <1>2 DEF SessionTypes, StepTypes, Live
<1>8. HistoryOK' /\ HostOK' /\ QuotaOK'
  BY <1>2, <1>7 DEF IInv, HistoryOK, HostOK, QuotaOK
<1> QED
  BY <1>2, <1>5, <1>6, <1>7, <1>8, NoStep, TypeOKParts DEF IInv

(* The append becomes history: every layer has it, in the pool and on the  *)
(* host, so that its slots may be tagged.                                  *)
LEMMA CommitIInv == ASSUME IInv, Commit PROVE IInv'
<1>1. SessionTypes /\ PoolTypes /\ StepTypes
  BY TypeOKParts DEF IInv
<1> DEFINE c == current.session
           more == [k \in 1 .. current.end - Cache.length |-> steps]
<1>2. /\ current # None /\ ~current.transient /\ current.attended = Layers
      /\ sessions' = [sessions EXCEPT ![c].length = current.end]
      /\ history' = [history EXCEPT ![c] = @ \o more]
      /\ tags' = CommittedTags
      /\ current' = None
      /\ UNCHANGED <<scheme, nextOwner, pool, prefetches, steps>>
  BY DEF Commit
<1>3. /\ current \in Step /\ c \in Session /\ c \in Live /\ Cache = sessions[c]
      /\ Cache \in SessionState
      /\ Cache.length \in Nat /\ current.end \in Nat /\ Cache.length < current.end
      /\ Len(history[c]) = Cache.length /\ Suffix \subseteq Slot
      /\ \A p \in Slot : p \in Nat /\ (p \in Suffix <=> p >= Cache.length /\ p < current.end)
      /\ steps \in 1 .. MaxSteps
  BY <1>1, <1>2, CurrentStep DEF IInv
<1>4. current.end <= Capacity[c] /\ current.end \in 0 .. Longest
  <2>1. current.end <= Capacity[c]
    BY <1>2 DEF IInv, StepOK
  <2> QED
    BY <1>3, <2>1, Bounds
<1>5. current.written = Layers
  <2>1. current.attended \in {current.written, current.written - 1}
    BY <1>2 DEF IInv, StepOK
  <2>2. current.written \in 0 .. Layers
    BY <1>3 DEF Step
  <2> QED
    BY <1>2, <2>1, <2>2, Bounds
<1>6. \A l \in Layer, p \in Suffix : pool[l][p] = steps /\ Cache.host[l][p] = steps
  <2>1. \A l \in Layer : InSlots(l) /\ l <= current.written
    BY <1>2, <1>5, Bounds DEF InSlots, Layer
  <2> QED
    BY <1>2, <2>1 DEF IInv, SuffixOK
<1> DEFINE h == history[c]
           g == h \o more
<1>7. /\ g \in Seq(1 .. MaxSteps) /\ Len(g) = current.end
      /\ \A k \in 1 .. Cache.length : g[k] = h[k]
      /\ \A k \in Cache.length + 1 .. current.end : g[k] = steps
  <2>1. PICK n \in Nat : n = current.end - Cache.length
    BY <1>3
  <2>2. more \in Seq(1 .. MaxSteps) /\ Len(more) = n /\ \A k \in 1 .. n : more[k] = steps
    <3>1. PICK m : m = [k \in 1 .. n |-> steps]
      OBVIOUS
    <3>2. m \in Seq(1 .. MaxSteps) /\ Len(m) = n /\ \A k \in 1 .. n : m[k] = steps
      BY <1>3, <3>1
    <3> QED
      BY <2>1, <3>1, <3>2
  <2>3. h \in Seq(1 .. MaxSteps) /\ Len(h) = Cache.length
    BY <1>1, <1>3 DEF SessionTypes
  <2> HIDE DEF h, more
  <2>4. /\ g \in Seq(1 .. MaxSteps) /\ Len(g) = Len(h) + Len(more)
        /\ \A k \in 1 .. Len(h) + Len(more) :
             g[k] = IF k <= Len(h) THEN h[k] ELSE more[k - Len(h)]
    BY <2>2, <2>3, ConcatProperties
  <2> HIDE DEF g
  <2>5. Len(g) = current.end
    BY <1>3, <2>1, <2>2, <2>3, <2>4
  <2>6. ASSUME NEW k \in 1 .. Cache.length PROVE g[k] = h[k]
    <3>1. k \in 1 .. Len(h) + Len(more) /\ k <= Len(h)
      BY <1>3, <2>2, <2>3
    <3> QED
      BY <2>4, <3>1
  <2>7. ASSUME NEW k \in Cache.length + 1 .. current.end PROVE g[k] = steps
    <3>1. k \in 1 .. Len(h) + Len(more) /\ ~(k <= Len(h)) /\ k - Len(h) \in 1 .. n
      <4>1. PICK a \in Nat : a = Cache.length
        BY <1>3
      <4>2. Len(h) = a /\ Len(more) = n /\ current.end = a + n /\ k \in a + 1 .. a + n
        BY <1>3, <2>1, <2>2, <2>3, <2>7, <4>1
      <4> QED
        BY <4>1, <4>2
    <3> QED
      BY <2>2, <2>4, <3>1
  <2> QED
    BY <2>4, <2>5, <2>6, <2>7
<1>8. PICK new \in Seq(1 .. MaxSteps) : new = g
  BY <1>7
<1>9. /\ history' \in [Session -> Seq(1 .. MaxSteps)] /\ history'[c] = new
      /\ \A s \in Session \ {c} : history'[s] = history[s]
  <2>1. history' = [history EXCEPT ![c] = new]
    BY <1>2, <1>8
  <2> HIDE DEF c
  <2> QED
    BY <1>1, <1>3, <2>1 DEF SessionTypes
<1>10. /\ Len(new) = current.end
       /\ \A k \in 1 .. Cache.length : new[k] = history[c][k]
       /\ \A k \in Cache.length + 1 .. current.end : new[k] = steps
  BY <1>7, <1>8
<1> HIDE DEF g, h, more, c
<1>11. /\ sessions' \in [Session -> SessionState]
       /\ sessions'[c].live = sessions[c].live /\ sessions'[c].owner = sessions[c].owner
       /\ sessions'[c].host = sessions[c].host /\ sessions'[c].length = current.end
       /\ \A s \in Session \ {c} : sessions'[s] = sessions[s]
  <2> DEFINE st == [sessions[c] EXCEPT !.length = current.end]
  <2>1. sessions' = [sessions EXCEPT ![c] = st]
    BY <1>1, <1>2, <1>3 DEF SessionTypes
  <2>2. st \in SessionState /\ st.live = sessions[c].live /\ st.owner = sessions[c].owner
        /\ st.host = sessions[c].host /\ st.length = current.end
    BY <1>3, <1>4 DEF SessionState
  <2> HIDE DEF st
  <2> QED
    BY <1>1, <1>3, <2>1, <2>2 DEF SessionTypes
<1>12. Live' = Live /\ Live \subseteq Session
  BY <1>11 DEF Live
<1>13. /\ PoolTypes'
       /\ \A l \in Layer, p \in Slot : tags'[l][p] = IF p \in Suffix THEN Cache.owner ELSE tags[l][p]
  <2>1. Cache.owner \in Owner
    BY <1>3 DEF SessionState
  <2>2. tags' = [l \in Layer |-> [p \in Slot |-> IF p \in Suffix THEN Cache.owner ELSE tags[l][p]]]
    BY <1>2 DEF CommittedTags
  <2>3. tags' \in [Layer -> [Slot -> Owner]]
    BY <1>1, <2>1, <2>2 DEF PoolTypes
  <2>4. \A l \in Layer, p \in Slot : tags'[l][p] = IF p \in Suffix THEN Cache.owner ELSE tags[l][p]
    BY <2>2
  <2> QED
    BY <1>1, <1>2, <2>3, <2>4 DEF PoolTypes
<1>14. SessionTypes' /\ StepTypes'
  BY <1>1, <1>2, <1>9, <1>11 DEF SessionTypes, StepTypes
<1>15. \A s \in Session : sessions'[s].owner = sessions[s].owner /\ sessions'[s].host = sessions[s].host
  BY <1>11
<1>16. \A s, t \in Live : s # t => sessions[s].owner # sessions[t].owner
  BY DEF IInv, OwnersOK
<1>17. OwnersOK'
  <2>1. \A s \in Live : sessions[s].owner \in 1 .. nextOwner - 1
    BY DEF IInv, OwnersOK
  <2>2. nextOwner \in Nat
    BY <1>1, Bounds DEF SessionTypes
  <2>3. Cache.owner < nextOwner
    BY <1>3, <2>1, <2>2
  <2>4. \A l \in Layer, p \in Slot : tags'[l][p] < nextOwner
    BY <1>13, <2>3 DEF IInv, OwnersOK
  <2> QED
    BY <1>2, <1>12, <1>15, <1>16, <2>1, <2>4 DEF OwnersOK
<1>18. HistoryOK'
  <2>1. \A s \in Session \ {c} : /\ Len(history'[s]) = sessions'[s].length
                                 /\ s \in Live => sessions'[s].length <= Capacity[s]
                                 /\ s \notin Live => sessions'[s].length = 0
    BY <1>9, <1>11 DEF IInv, HistoryOK
  <2>2. Len(history'[c]) = sessions'[c].length /\ sessions'[c].length <= Capacity[c]
    BY <1>4, <1>9, <1>10, <1>11
  <2> QED
    BY <1>3, <1>12, <2>1, <2>2 DEF HistoryOK
<1>19. ASSUME NEW p \in 0 .. current.end - 1
       PROVE  \/ /\ p \in 0 .. Cache.length - 1 /\ p \in Slot /\ p \notin Suffix
                 /\ history'[c][p + 1] = history[c][p + 1]
              \/ p \in Suffix /\ history'[c][p + 1] = steps
  <2>1. p \in Slot
    BY <1>3, <1>4, Bounds
  <2>2. CASE p < Cache.length
    <3>1. p + 1 \in 1 .. Cache.length /\ p \in 0 .. Cache.length - 1 /\ p \notin Suffix
      BY <1>3, <2>1, <2>2
    <3> QED
      BY <1>9, <1>10, <2>1, <3>1
  <2>3. CASE p >= Cache.length
    <3>1. p + 1 \in Cache.length + 1 .. current.end /\ p \in Suffix
      BY <1>3, <2>1, <2>3
    <3> QED
      BY <1>9, <1>10, <3>1
  <2> QED
    BY <1>3, <2>2, <2>3
<1>20. HostOK'
  <2>1. ASSUME NEW s \in Live, NEW l \in Layer, NEW p \in 0 .. sessions'[s].length - 1
        PROVE  sessions'[s].host[l][p] = history'[s][p + 1]
    <3>1. CASE s = c
      <4>1. p \in 0 .. current.end - 1 /\ sessions'[s].host = Cache.host
        BY <1>3, <1>11, <3>1
      <4>2. \A i \in 0 .. Cache.length - 1 : Cache.host[l][i] = history[c][i + 1]
        BY <1>3 DEF IInv, HostOK
      <4> QED
        BY <1>6, <1>19, <3>1, <4>1, <4>2
    <3>2. CASE s # c
      <4>1. sessions'[s] = sessions[s] /\ history'[s] = history[s]
        BY <1>9, <1>11, <1>12, <3>2
      <4> QED
        BY <4>1 DEF IInv, HostOK
    <3> QED
      BY <3>1, <3>2
  <2> QED
    BY <1>12, <2>1 DEF HostOK
<1>21. HitsAreCurrent'
  <2>1. ASSUME NEW s \in Live, NEW l \in Layer, NEW p \in 0 .. sessions'[s].length - 1,
               tags'[l][p] = sessions'[s].owner
        PROVE  pool'[l][p] = history'[s][p + 1]
    <3>1. CASE s = c
      <4>1. p \in 0 .. current.end - 1 /\ sessions'[s].owner = Cache.owner
        BY <1>3, <1>11, <3>1
      <4>2. CASE p \in Suffix /\ history'[c][p + 1] = steps
        BY <1>2, <1>6, <3>1, <4>2
      <4>3. CASE /\ p \in 0 .. Cache.length - 1 /\ p \in Slot /\ p \notin Suffix
                 /\ history'[c][p + 1] = history[c][p + 1]
        <5>1. tags[l][p] = sessions[c].owner
          BY <1>3, <1>13, <2>1, <4>1, <4>3
        <5>2. pool[l][p] = history[c][p + 1]
          BY <1>3, <4>3, <5>1 DEF IInv, HitsAreCurrent
        <5> QED
          BY <1>2, <3>1, <4>3, <5>2
      <4> QED
        BY <1>19, <4>1, <4>2, <4>3
    <3>2. CASE s # c
      <4>1. sessions'[s] = sessions[s] /\ history'[s] = history[s] /\ s \in Session
        BY <1>9, <1>11, <1>12, <3>2
      <4>2. p \in Slot
        <5>1. sessions[s].length \in 0 .. Longest
          BY <1>1, <4>1 DEF SessionTypes, SessionState
        <5> QED
          BY <4>1, <5>1, Bounds
      <4>3. sessions[s].owner # Cache.owner
        BY <1>3, <1>16, <3>2
      <4>4. tags[l][p] = sessions[s].owner
        BY <1>13, <2>1, <4>1, <4>2, <4>3
      <4>5. pool[l][p] = history[s][p + 1]
        BY <4>1, <4>4 DEF IInv, HitsAreCurrent
      <4> QED
        BY <1>2, <4>1, <4>5
    <3> QED
      BY <3>1, <3>2
  <2> QED
    BY <1>12, <2>1 DEF HitsAreCurrent
<1>22. QuotaOK'
  BY <1>12 DEF IInv, QuotaOK
<1>23. prefetches' = <<>>
  <2>1. ~(current.written < Layers)
    BY <1>5, Bounds
  <2> QED
    BY <1>2, <2>1 DEF IInv, PrefetchOK
<1> QED
  BY <1>2, <1>13, <1>14, <1>17, <1>18, <1>20, <1>21, <1>22, <1>23, NoStep, TypeOKParts DEF IInv

-----------------------------------------------------------------------------
(* The theorems. *)

(* Without sessions nothing is live, tagged or under way. *)
LEMMA InitIInv == ASSUME Init PROVE IInv
<1> USE DEF Init
<1>1. Gone \in SessionState /\ ~Gone.live /\ Gone.length = 0
  BY GoneState
<1>2. 0 \in Owner /\ 0 \in Content /\ 0 \in 0 .. MaxSteps /\ 1 \in 1 .. MaxOwners + 1
  BY Bounds DEF Owner, Content
<1>3. SessionTypes
  BY <1>1, <1>2 DEF SessionTypes
<1>4. PoolTypes /\ StepTypes
  BY <1>2 DEF PoolTypes, StepTypes, Undefined
<1>5. Live = {}
  BY <1>1 DEF Live
<1>6. \A l \in Layer, p \in Slot : tags[l][p] < nextOwner
  OBVIOUS
<1>7. OwnersOK /\ HostOK /\ HitsAreCurrent
  BY <1>5, <1>6 DEF OwnersOK, HostOK, HitsAreCurrent
<1>8. HistoryOK
  BY <1>1, <1>5 DEF HistoryOK
<1>9. QuotaOK
  BY <1>5, SumOfNothing, PoolAssumption DEF QuotaOK
<1>10. StepOK /\ PrefetchOK /\ SuffixOK /\ FetchedOK /\ AttentionReadsOwnTokens
  BY DEF StepOK, PrefetchOK, SuffixOK, FetchedOK, AttentionReadsOwnTokens
<1> QED
  BY <1>3, <1>4, <1>7, <1>8, <1>9, <1>10, TypeOKParts DEF IInv

(* Every step keeps the invariant. *)
LEMMA NextIInv == ASSUME IInv, [Next]_vars PROVE IInv'
<1>1. ASSUME NEW s \in Session, Create(s) PROVE IInv'
  BY <1>1, CreateIInv
<1>2. ASSUME NEW s \in Session, NEW n \in 0 .. Longest, Truncate(s, n) PROVE IInv'
  BY <1>2, TruncateIInv, Bounds
<1>3. ASSUME NEW s \in Session, Release(s) PROVE IInv'
  BY <1>3, ReleaseIInv
<1>4. CASE PrefetchRuns
  BY <1>4, PrefetchRunsIInv
<1>5. ASSUME NEW s \in Session, NEW n \in 1 .. Longest, NEW transient \in BOOLEAN,
             Begin(s, n, transient)
      PROVE  IInv'
  BY <1>5, BeginIInv, Bounds
<1>6. ASSUME NEW l \in Layer, WriteLayer(l) PROVE IInv'
  BY <1>6, WriteLayerIInv
<1>7. ASSUME NEW l \in Layer, AttendDense(l) PROVE IInv'
  BY <1>7, AttendDenseIInv
<1>8. ASSUME NEW l \in Layer, NEW selected, AttendSparse(l, selected) PROVE IInv'
  BY <1>8, AttendSparseIInv
<1>9. ASSUME NEW l \in Layer, FetchFails(l) PROVE IInv'
  BY <1>9, FetchFailsIInv
<1>10. ASSUME NEW queued, Abort(queued) PROVE IInv'
  BY <1>10, AbortIInv
<1>11. CASE Commit
  BY <1>11, CommitIInv
<1>12. CASE UNCHANGED vars
  <2> USE <1>12 DEF vars
  <2>1. TypeOK' /\ Live' = Live /\ (Dense' <=> Dense)
    BY DEF IInv, TypeOK, Live, Dense
  <2>2. current # None => Cache' = Cache /\ Suffix' = Suffix
    BY DEF Cache, Suffix
  <2>3. OwnersOK' /\ HistoryOK' /\ HostOK' /\ QuotaOK' /\ HitsAreCurrent'
    BY <2>1 DEF IInv, OwnersOK, HistoryOK, HostOK, QuotaOK, HitsAreCurrent
  <2>4. StepOK' /\ PrefetchOK' /\ AttentionReadsOwnTokens'
    BY <2>1, <2>2 DEF IInv, StepOK, PrefetchOK, AttentionReadsOwnTokens
  <2>5. SuffixOK' /\ FetchedOK'
    BY <2>1, <2>2 DEF IInv, SuffixOK, FetchedOK, InSlots, BroughtIn
  <2> QED
    BY <2>1, <2>3, <2>4, <2>5 DEF IInv
<1> QED
  BY <1>1, <1>2, <1>3, <1>4, <1>5, <1>6, <1>7, <1>8, <1>9, <1>10, <1>11, <1>12 DEF Next

(* The parts of IInv hold in every reachable state: whose pages the slots  *)
(* hold, and how far the layers of the current step are.                   *)
THEOREM Invariant == Spec => []IInv
<1>1. Init => IInv
  BY InitIInv
<1>2. IInv /\ [Next]_vars => IInv'
  BY NextIInv
<1> QED
  BY <1>1, <1>2, PTL DEF Spec

(* TypeOK is an invariant: every slot that is read or written exists.      *)
THEOREM TypeCorrect == Spec => []TypeOK
<1>1. IInv => TypeOK
  BY DEF IInv
<1> QED
  BY <1>1, Invariant, PTL

(* A slot tagged with a live session's owner holds that session's page     *)
(* (_copy_reference, prefetch_cached_kernel, publish_cache_kernel).        *)
THEOREM TaggedPagesAreCurrent == Spec => []HitsAreCurrent
<1>1. IInv => HitsAreCurrent
  BY DEF IInv
<1> QED
  BY <1>1, Invariant, PTL

(* Attention reads the history and the append of its own session           *)
(* (NosaFixedAttention), under either scheme.                              *)
THEOREM AttentionReadsItsSession == Spec => []AttentionReadsOwnTokens
<1>1. IInv => AttentionReadsOwnTokens
  BY DEF IInv
<1> QED
  BY <1>1, Invariant, PTL

(* The prefetch stream works for the step in the lease only, on the layer  *)
(* to be written next, and sessions keep within the quota (prefetch,       *)
(* abort_step, commit_step, check_quota).                                  *)
THEOREM NothingDisturbsThePool == Spec => []PoolUndisturbed
<1>1. IInv => PoolUndisturbed
  BY DEF IInv, PoolUndisturbed, PrefetchOK, HistoryOK, QuotaOK, Live
<1> QED
  BY <1>1, Invariant, PTL
=============================================================================
