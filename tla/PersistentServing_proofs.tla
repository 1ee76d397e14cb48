---------------------- MODULE PersistentServing_proofs ----------------------
(***************************************************************************)
(* The persistent runner and its prefix pool, for every set of users,      *)
(* histories and sessions, every budget and every chunk size: the safety   *)
(* that a run checks on a small instance.                                  *)
(***************************************************************************)
EXTENDS PersistentServing, PoolLemmas

-----------------------------------------------------------------------------
(* The inductive invariant. *)

PoolOK ==
  /\ lru \in Seq(User) /\ IsInjective(lru) /\ Range(lru) = Cached
  /\ entry \in [User -> Entry \cup {None}]

Serving == {"allocated", "admitted", "prefill", "built", "candidate",
            "executed", "cleaned", "discard"}

(* From its admission to its end a request has an entry of its history,    *)
(* large enough for it.                                                    *)
RequestHasItsSession ==
  phase \in Serving =>
    /\ entry[request.user] # None
    /\ entry[request.user].plan.history = request.history
    /\ requestPlan.capacity <= entry[request.user].plan.capacity

(* The eviction loop runs only for a plan that fits an empty pool, so that *)
(* it never looks for a victim in one.                                     *)
RequestIsPossible == phase = "evict" => Possible(requestPlan)

(* What the steps of one request leave for the next step. *)
RequestProgress ==
  /\ phase = "built" => content[current] = Full(request.history)
  /\ phase \in {"prefill", "built"} => ~entry[request.user].ready
  /\ phase = "candidate" =>
       /\ entry[request.user].ready
       /\ current \in over => live[current].failed \/ CanRun(current)
  /\ phase \in {"executed", "cleaned"} =>
       /\ content[current].of = request.history
       /\ content[current].tokens = HistoryTokens[request.history]
       /\ answer # None

InUse(u) == phase \in {"executed", "cleaned"} /\ u = request.user

(* ReusableSessionIntact, and while a candidate is being scored for one    *)
(* user the sessions of all others.                                        *)
UnusedSessionIntact ==
  \A u \in Cached :
    LET s == entry[u].session IN
    entry[u].ready /\ ~live[s].failed /\ ~InUse(u)
      => content[s] = Full(entry[u].plan.history)

(* Between two scorings no session that a request may run on is larger     *)
(* than its reservation.                                                   *)
Outgrown(u) ==
  /\ entry[u].session \in over
  /\ entry[u].ready
  /\ ~live[entry[u].session].failed

NoneOutgrown == \A u \in Cached : ~Outgrown(u)

(* An owner once unbound is final. *)
UnboundIsFinal == ~ownerBound => phase = "complete"

IInv ==
  /\ TypeOK
  /\ NoOrphanSession
  /\ QuotaHeld
  /\ RequestHasItsSession
  /\ RequestIsPossible
  /\ RequestProgress
  /\ UnusedSessionIntact
  /\ OutgrownNotReused
  /\ ServedFromOwnHistory
  /\ OwnerOutlivesSessions
  /\ UnboundIsFinal

-----------------------------------------------------------------------------
(* The pool's updates. *)

(* A plan is charged a number of bytes and a number of pages. *)
LEMMA PlanCharge ==
  ASSUME NEW p \in Plan
  PROVE  Bytes(p) \in Nat /\ Pages(p) \in Nat
<1>1. p.capacity \in Nat \ {0}
  BY DEF Plan
<1>2. (p.capacity + PageTokens - 1) \div PageTokens \in Nat
  <2> DEFINE c == p.capacity + PageTokens - 1
  <2>1. c \in Nat /\ PageTokens \in Nat \ {0}
    BY <1>1, PoolAssumption
  <2> HIDE DEF c
  <2>2. c \div PageTokens \in Nat
    BY <2>1
  <2> QED
    BY <2>2 DEF c
<1> QED
  BY <1>1, <1>2 DEF Bytes, Pages

(* The pool keeps finitely many entries. *)
LEMMA OrderIsFinite ==
  ASSUME NEW order \in Seq(User)
  PROVE  IsFiniteSet(Range(order))
<1>1. Len(order) \in Nat /\ DOMAIN order = 1 .. Len(order)
  BY LenProperties
<1>2. Range(order) = {order[i] : i \in 1 .. Len(order)}
  BY <1>1 DEF Range
<1>3. IsFiniteSet(1 .. Len(order))
  BY <1>1, FS_Interval
<1>4. order \in [1 .. Len(order) -> Range(order)]
  BY <1>1, LenProperties DEF Range
<1>5. order \in Surjection(1 .. Len(order), Range(order))
  BY <1>2, <1>4 DEF Surjection
<1> QED
  BY <1>3, <1>5, FS_Surjection

BytesOf(C, e) == SumFunction([u \in C |-> Bytes(e[u].plan)])
PagesOf(C, e) == SumFunction([u \in C |-> Pages(e[u].plan)])

Planned(C, e) == \A u \in C : e[u].plan \in Plan
SamePlans(C, e, f) == \A u \in C : f[u].plan = e[u].plan

(* One entry more: its charge comes on top. *)
LEMMA EntryAdded ==
  ASSUME NEW C, NEW w, NEW e, NEW f
  PROVE  /\ IsFiniteSet(C) /\ w \notin C
         /\ Planned(C, e) /\ Planned(C \cup {w}, f) /\ SamePlans(C, e, f)
         => /\ BytesOf(C, e) \in Nat /\ PagesOf(C, e) \in Nat
            /\ BytesOf(C \cup {w}, f) = Bytes(f[w].plan) + BytesOf(C, e)
            /\ PagesOf(C \cup {w}, f) = Pages(f[w].plan) + PagesOf(C, e)
<1>1. HAVE /\ IsFiniteSet(C) /\ w \notin C
           /\ Planned(C, e) /\ Planned(C \cup {w}, f) /\ SamePlans(C, e, f)
<1> DEFINE D == C \cup {w}
           be == [u \in C |-> Bytes(e[u].plan)]
           pe == [u \in C |-> Pages(e[u].plan)]
           bf == [u \in D |-> Bytes(f[u].plan)]
           pf == [u \in D |-> Pages(f[u].plan)]
<1>2. be \in [C -> Nat] /\ bf \in [C \cup {w} -> Nat] /\ \A u \in C : bf[u] = be[u]
  BY <1>1, PlanCharge DEF Planned, SamePlans
<1>3. pe \in [C -> Nat] /\ pf \in [C \cup {w} -> Nat] /\ \A u \in C : pf[u] = pe[u]
  BY <1>1, PlanCharge DEF Planned, SamePlans
<1>5. bf[w] = Bytes(f[w].plan) /\ pf[w] = Pages(f[w].plan)
  OBVIOUS
<1>6. /\ BytesOf(C, e) = SumFunction(be) /\ PagesOf(C, e) = SumFunction(pe)
      /\ BytesOf(D, f) = SumFunction(bf) /\ PagesOf(D, f) = SumFunction(pf)
  BY DEF BytesOf, PagesOf
<1> HIDE DEF be, pe, bf, pf
<1>7. IsFiniteSet(C) /\ w \notin C
  BY <1>1
<1>8. IsFiniteSet(D) /\ w \in D /\ D \ {w} = C
  BY <1>7, FS_AddElement
<1>9. DOMAIN be = C /\ DOMAIN pe = C /\ DOMAIN bf = D /\ DOMAIN pf = D
  BY <1>2, <1>3
<1>10. SumFunctionOnSet(be, C) \in Nat /\ SumFunctionOnSet(pe, C) \in Nat
  <2>1. (\A u \in C : be[u] \in Nat) /\ (\A u \in C : pe[u] \in Nat)
    BY <1>2, <1>3
  <2> QED
    BY <1>7, <2>1, SumIsNatural
<1>11. /\ SumFunctionOnSet(bf, C) = SumFunctionOnSet(be, C)
       /\ SumFunctionOnSet(pf, C) = SumFunctionOnSet(pe, C)
  BY <1>2, <1>3, <1>7, SumOfEquals
<1>12. /\ SumFunctionOnSet(bf, D) = bf[w] + SumFunctionOnSet(bf, D \ {w})
       /\ SumFunctionOnSet(pf, D) = pf[w] + SumFunctionOnSet(pf, D \ {w})
  <2>1. (\A u \in D : bf[u] \in Nat) /\ (\A u \in D : pf[u] \in Nat)
    BY <1>2, <1>3
  <2> HIDE DEF D
  <2> QED
    BY <1>8, <2>1, SumOfElement
<1> QED
  BY <1>5, <1>6, <1>8, <1>9, <1>10, <1>11, <1>12 DEF SumFunction

(* The quotas in these terms. *)
LEMMA Quotas ==
  /\ QuotaHeld <=> /\ SharedBytes + BytesOf(Cached, entry) <= Budget
                   /\ PagesOf(Cached, entry) <= PageCapacity
  /\ QuotaHeld' <=> /\ SharedBytes + BytesOf(Cached', entry') <= Budget
                    /\ PagesOf(Cached', entry') <= PageCapacity
  BY DEF QuotaHeld, BytesOf, PagesOf, ReservedBytes, ReservedPages

(* Deleting an entry. *)
LEMMA PoolDelete ==
  ASSUME PoolOK, QuotaHeld, NEW u \in Cached, Delete(u)
  PROVE  /\ PoolOK' /\ QuotaHeld'
         /\ Cached' = Cached \ {u}
         /\ \A v \in Cached' : entry'[v] = entry[v]
<1> USE DEF Delete
<1>1. u \in User /\ u \in Range(lru) /\ lru \in Seq(User) /\ IsInjective(lru)
  BY DEF PoolOK, Cached
<1>2. entry' \in [User -> Entry \cup {None}]
  BY <1>1 DEF PoolOK
<1>3. Cached' = Cached \ {u} /\ \A v \in Cached' : entry'[v] = entry[v]
  BY <1>1 DEF Cached, PoolOK
<1>4. lru' \in Seq(User) /\ IsInjective(lru') /\ Range(lru') = Cached'
  BY <1>1, <1>3, RemoveFirstKey DEF PoolOK
<1>5. PoolOK'
  BY <1>2, <1>4 DEF PoolOK
<1>6. QuotaHeld'
  <2>1. IsFiniteSet(Cached')
    BY <1>4, OrderIsFinite
  <2>2. Cached = Cached' \cup {u} /\ u \notin Cached'
    BY <1>3
  <2>3. \A v \in Cached : entry[v].plan \in Plan
    BY <1>3 DEF PoolOK, Cached, Entry
  <2>4. /\ BytesOf(Cached', entry') \in Nat /\ PagesOf(Cached', entry') \in Nat
        /\ BytesOf(Cached, entry) = Bytes(entry[u].plan) + BytesOf(Cached', entry')
        /\ PagesOf(Cached, entry) = Pages(entry[u].plan) + PagesOf(Cached', entry')
    <3>1. /\ Planned(Cached', entry') /\ Planned(Cached' \cup {u}, entry)
          /\ SamePlans(Cached', entry', entry)
      BY <1>3, <2>2, <2>3 DEF Planned, SamePlans
    <3> QED
      BY <2>1, <2>2, <3>1, EntryAdded
  <2>5. Bytes(entry[u].plan) \in Nat /\ Pages(entry[u].plan) \in Nat
    BY <2>3, PlanCharge
  <2> QED
    BY <2>2, <2>4, <2>5, Quotas, PoolAssumption
<1> QED
  BY <1>3, <1>5, <1>6

(* A new entry, once it fits. *)
LEMMA PoolInsert ==
  ASSUME PoolOK, QuotaHeld, NEW u \in User \ Cached, NEW s \in Session,
         NEW p \in Plan, Fits(p), Insert(u, s, p)
  PROVE  /\ PoolOK' /\ QuotaHeld'
         /\ Cached' = Cached \cup {u}
         /\ entry'[u] = [session |-> s, plan |-> p, ready |-> FALSE]
         /\ \A v \in Cached : entry'[v] = entry[v]
<1> DEFINE new == [session |-> s, plan |-> p, ready |-> FALSE]
<1>1. lru' = Append(lru, u) /\ entry' = [entry EXCEPT ![u] = new]
  BY DEF Insert
<1>2. lru \in Seq(User) /\ IsInjective(lru) /\ u \notin Range(lru)
  BY DEF PoolOK
<1>3. new \in Entry /\ new # None
  <2>1. new \in Entry
    BY DEF Entry
  <2> HIDE DEF new
  <2> QED
    BY <2>1, NoneAssumption
<1> HIDE DEF new
<1>4. entry' \in [User -> Entry \cup {None}]
  BY <1>1, <1>3 DEF PoolOK
<1>5. /\ Cached' = Cached \cup {u} /\ entry'[u] = new
      /\ \A v \in Cached : entry'[v] = entry[v]
  BY <1>1, <1>3 DEF Cached, PoolOK
<1>6. lru' \in Seq(User) /\ IsInjective(lru') /\ Range(lru') = Cached'
  BY <1>1, <1>2, <1>5, AppendNew DEF PoolOK
<1>7. PoolOK'
  BY <1>4, <1>6 DEF PoolOK
<1>8. QuotaHeld'
  <2>1. IsFiniteSet(Cached) /\ u \notin Cached
    BY <1>2, OrderIsFinite DEF PoolOK
  <2>2. \A v \in Cached : entry[v].plan \in Plan
    BY DEF PoolOK, Cached, Entry
  <2>3. new.plan = p
    BY DEF new
  <2>4. /\ BytesOf(Cached, entry) \in Nat /\ PagesOf(Cached, entry) \in Nat
        /\ BytesOf(Cached', entry') = Bytes(p) + BytesOf(Cached, entry)
        /\ PagesOf(Cached', entry') = Pages(p) + PagesOf(Cached, entry)
    <3>1. /\ Planned(Cached, entry) /\ Planned(Cached \cup {u}, entry')
          /\ SamePlans(Cached, entry, entry')
      BY <1>5, <2>2, <2>3 DEF Planned, SamePlans
    <3> QED
      BY <1>5, <2>1, <2>3, <3>1, EntryAdded
  <2>5. /\ SharedBytes + BytesOf(Cached, entry) + Bytes(p) <= Budget
        /\ PagesOf(Cached, entry) + Pages(p) <= PageCapacity
    BY DEF Fits, BytesOf, PagesOf, ReservedBytes, ReservedPages
  <2> QED
    BY <2>4, <2>5, PlanCharge, Quotas, PoolAssumption
<1> QED
  BY <1>5, <1>7, <1>8 DEF new

(* A hit moves the key to the end. *)
LEMMA PoolTouch ==
  ASSUME PoolOK, QuotaHeld, NEW u \in Cached, Touch(u)
  PROVE  PoolOK' /\ QuotaHeld' /\ entry' = entry /\ Cached' = Cached
<1>1. lru' = Append(RemoveFirst(lru, u), u) /\ entry' = entry
  BY DEF Touch
<1>2. Cached' = Cached /\ u \in User
  BY <1>1 DEF Cached
<1>3. lru \in Seq(User) /\ IsInjective(lru) /\ u \in Range(lru)
  BY DEF PoolOK
<1> DEFINE rest == RemoveFirst(lru, u)
<1>4. rest \in Seq(User) /\ IsInjective(rest) /\ Range(rest) = Range(lru) \ {u}
  BY <1>3, RemoveFirstKey
<1> HIDE DEF rest
<1>5. /\ Append(rest, u) \in Seq(User) /\ IsInjective(Append(rest, u))
      /\ Range(Append(rest, u)) = Range(rest) \cup {u}
  BY <1>2, <1>4, AppendNew
<1>6. lru' \in Seq(User) /\ IsInjective(lru') /\ Range(lru') = Cached'
  BY <1>1, <1>2, <1>3, <1>4, <1>5 DEF rest, PoolOK
<1>7. QuotaHeld'
  BY <1>1, <1>2, Quotas
<1> QED
  BY <1>1, <1>2, <1>6, <1>7 DEF PoolOK

(* Publishing an entry does not change what it is charged. *)
LEMMA PoolMarkReady ==
  ASSUME PoolOK, QuotaHeld, NEW u \in Cached, MarkReady(u)
  PROVE  /\ PoolOK' /\ QuotaHeld' /\ Cached' = Cached
         /\ entry'[u].session = entry[u].session /\ entry'[u].plan = entry[u].plan
         /\ entry'[u].ready
         /\ \A v \in Cached \ {u} : entry'[v] = entry[v]
<1>1. lru' = lru /\ entry' = [entry EXCEPT ![u].ready = TRUE]
  BY DEF MarkReady
<1>2. u \in User /\ entry[u] \in Entry
  BY DEF Cached, PoolOK
<1>3. /\ entry' \in [User -> Entry \cup {None}] /\ entry'[u] \in Entry
      /\ entry'[u].session = entry[u].session /\ entry'[u].plan = entry[u].plan
      /\ entry'[u].ready
      /\ \A v \in User \ {u} : entry'[v] = entry[v]
  BY <1>1, <1>2 DEF PoolOK, Entry
<1>4. Cached' = Cached
  BY <1>2, <1>3, NoneAssumption DEF Cached
<1>5. PoolOK'
  BY <1>1, <1>3, <1>4 DEF PoolOK
<1>6. BytesOf(Cached', entry') = BytesOf(Cached, entry)
  BY <1>3, <1>4 DEF BytesOf, Cached
<1>7. PagesOf(Cached', entry') = PagesOf(Cached, entry)
  BY <1>3, <1>4 DEF PagesOf, Cached
<1>8. QuotaHeld'
  BY <1>6, <1>7, Quotas
<1> QED
  BY <1>3, <1>4, <1>5, <1>8 DEF Cached

-----------------------------------------------------------------------------
(* The driver's updates. *)

DriverOK ==
  /\ live \in [Session -> LiveSession \cup {None}]
  /\ content \in [Session -> Content]
  /\ over \in SUBSET Session
  /\ poisoned \in BOOLEAN

ControlOK ==
  /\ phase \in Phase
  /\ request \in Request \cup {None}
  /\ request = None <=> phase \in {"idle", "closing", "complete"}
  /\ answer \in Answer \cup {None}
  /\ transient \in BOOLEAN /\ closed \in BOOLEAN /\ ownerBound \in BOOLEAN

(* The type invariant falls into these three parts. *)
LEMMA TypeOKParts ==
  /\ TypeOK <=> PoolOK /\ DriverOK /\ ControlOK
  /\ TypeOK' <=> PoolOK' /\ DriverOK' /\ ControlOK'
  BY DEF TypeOK, PoolOK, DriverOK, ControlOK

AllIntact ==
  \A u \in Cached :
    entry[u].ready /\ ~live[entry[u].session].failed
      => content[entry[u].session] = Full(entry[u].plan.history)

(* The session of an entry is live. *)
LEMMA EntrySession ==
  ASSUME PoolOK, DriverOK, NoOrphanSession, NEW u \in Cached
  PROVE  /\ entry[u] \in Entry /\ entry[u].session \in Session
         /\ live[entry[u].session] \in LiveSession
         /\ live[entry[u].session] # None
         /\ live[entry[u].session].plan = entry[u].plan
         /\ entry[u].plan \in Plan
<1>1. entry[u] \in Entry
  BY DEF PoolOK, Cached
<1>2. entry[u].session \in Session /\ entry[u].plan \in Plan
  BY <1>1 DEF Entry
<1>3. entry[u].session \in Sessions(live)
  BY DEF NoOrphanSession
<1>4. live[entry[u].session] # None
  BY <1>3 DEF Sessions
<1>5. live[entry[u].session] \in LiveSession
  BY <1>2, <1>4 DEF DriverOK
<1> QED
  BY <1>1, <1>2, <1>4, <1>5 DEF NoOrphanSession

(* A discard releases the session with its entry, or keeps both. *)
LEMMA DiscardKeeps ==
  ASSUME PoolOK, QuotaHeld, DriverOK, NoOrphanSession, AllIntact, NoneOutgrown,
         NEW u \in Cached, Discard(u)
  PROVE  /\ PoolOK' /\ QuotaHeld' /\ DriverOK' /\ NoOrphanSession' /\ AllIntact'
         /\ NoneOutgrown'
         /\ \/ entry' = entry
            \/ Cached' = Cached \ {u} /\ \A v \in Cached' : entry'[v] = entry[v]
<1> DEFINE s == entry[u].session
<1>1. CASE Fails /\ UNCHANGED <<pool, driver>>
  <2> USE <1>1 DEF Fails, pool, driver
  <2>1. Cached' = Cached
    BY DEF Cached
  <2>2. PoolOK'
    BY <2>1 DEF PoolOK
  <2>3. QuotaHeld'
    BY <2>1, Quotas
  <2>4. DriverOK'
    BY DEF DriverOK
  <2>5. NoOrphanSession' /\ AllIntact'
    BY <2>1 DEF NoOrphanSession, AllIntact, Sessions
  <2>6. NoneOutgrown'
    BY <2>1 DEF NoneOutgrown, Outgrown
  <2> QED
    BY <2>2, <2>3, <2>4, <2>5, <2>6
<1>2. CASE /\ Succeeds
           /\ Delete(u)
           /\ live' = [live EXCEPT ![s] = None]
           /\ content' = [content EXCEPT ![s] = Empty]
           /\ over' = over \ {s}
  <2>1. /\ PoolOK' /\ QuotaHeld' /\ Cached' = Cached \ {u}
        /\ \A v \in Cached' : entry'[v] = entry[v]
    BY <1>2, PoolDelete
  <2>2. s \in Session /\ live[s] # None
    BY EntrySession
  <2>3. Empty \in Content
    BY DEF Empty, Content
  <2>4. DriverOK'
    BY <1>2, <2>2, <2>3 DEF DriverOK, Succeeds
  <2>5. \A v \in Cached' : entry[v].session \in Session /\ entry[v].session # s
    BY <2>1, EntrySession DEF NoOrphanSession
  <2>6. \A v \in Cached' : /\ live'[entry'[v].session] = live[entry[v].session]
                           /\ content'[entry'[v].session] = content[entry[v].session]
    BY <1>2, <2>1, <2>5 DEF DriverOK
  <2>7. Sessions(live') = Sessions(live) \ {s}
    BY <1>2, <2>2 DEF Sessions, DriverOK
  <2>8. {entry'[v].session : v \in Cached'} = {entry[v].session : v \in Cached} \ {s}
    BY <2>1, <2>5
  <2>9. NoOrphanSession'
    BY <2>1, <2>6, <2>7, <2>8 DEF NoOrphanSession
  <2>10. AllIntact'
    BY <2>1, <2>6 DEF AllIntact, Full
  <2>11. NoneOutgrown'
    BY <1>2, <2>1, <2>6 DEF NoneOutgrown, Outgrown
  <2> QED
    BY <2>1, <2>4, <2>9, <2>10, <2>11
<1> QED
  BY <1>1, <1>2 DEF Discard

(* Marking a session failed changes nothing else. *)
LEMMA MarkFailedKeeps ==
  ASSUME PoolOK, DriverOK, NoOrphanSession, NEW u \in Cached,
         MarkFailed(entry[u].session), UNCHANGED pool
  PROVE  /\ live' \in [Session -> LiveSession \cup {None}]
         /\ NoOrphanSession'
         /\ live'[entry[u].session].failed
         /\ \A v \in Cached : v # u => live'[entry[v].session] = live[entry[v].session]
<1> DEFINE s == entry[u].session
<1>1. live' = [live EXCEPT ![s].failed = TRUE] /\ entry' = entry /\ Cached' = Cached
  BY DEF MarkFailed, pool, Cached
<1>2. s \in Session /\ live[s] \in LiveSession /\ live[s].plan = entry[u].plan
  BY EntrySession
<1> HIDE DEF s
<1>3. /\ live'[s] \in LiveSession /\ live'[s].failed /\ live'[s].plan = entry[u].plan
      /\ live'[s] # None
  <2>1. live'[s] = [live[s] EXCEPT !.failed = TRUE]
    BY <1>1, <1>2 DEF DriverOK
  <2>2. live'[s] \in LiveSession
    BY <1>2, <2>1 DEF LiveSession
  <2>3. live'[s].failed /\ live'[s].plan = live[s].plan
    BY <1>2, <2>1 DEF LiveSession
  <2> QED
    BY <1>2, <2>2, <2>3, NoneAssumption
<1>4. \A x \in Session : x # s => live'[x] = live[x]
  BY <1>1 DEF DriverOK
<1>5. live' \in [Session -> LiveSession \cup {None}]
  BY <1>1, <1>2, <1>3, <1>4 DEF DriverOK
<1>6. Sessions(live') = Sessions(live)
  <2>1. live[s] # None
    BY EntrySession DEF s
  <2> QED
    BY <1>2, <1>3, <1>4, <2>1 DEF Sessions
<1>7. \A v \in Cached : v # u => live'[entry[v].session] = live[entry[v].session]
  <2>1. \A v \in Cached : v # u => entry[v].session # s /\ entry[v].session \in Session
    BY EntrySession DEF NoOrphanSession, s
  <2> QED
    BY <1>4, <2>1
<1>8. NoOrphanSession'
  <2>1. \A v \in Cached : live'[entry[v].session].plan = entry[v].plan
    BY <1>3, <1>7 DEF NoOrphanSession, s
  <2> QED
    BY <1>1, <1>6, <2>1, ZenonT(60) DEF NoOrphanSession
<1> QED
  BY <1>3, <1>5, <1>7, <1>8 DEF s

-----------------------------------------------------------------------------
(* The steps. *)

(* What a step leaves alone keeps its invariants. *)
LEMMA PoolUnchanged ==
  ASSUME PoolOK, QuotaHeld, UNCHANGED pool
  PROVE  PoolOK' /\ QuotaHeld' /\ Cached' = Cached /\ entry' = entry
<1>1. lru' = lru /\ entry' = entry /\ Cached' = Cached
  BY DEF pool, Cached
<1> QED
  BY <1>1, Quotas DEF PoolOK

(* A step that leaves the driver alone keeps its sessions accounted for,   *)
(* also when it publishes an entry.                                        *)
LEMMA DriverUnchanged ==
  ASSUME DriverOK, NoOrphanSession, UNCHANGED driver, poisoned' \in BOOLEAN,
         Cached' = Cached,
         \A u \in Cached : /\ entry'[u].session = entry[u].session
                           /\ entry'[u].plan = entry[u].plan
  PROVE  DriverOK' /\ NoOrphanSession'
<1>1. live' = live /\ content' = content /\ over' = over
  BY DEF driver
<1>2. DriverOK'
  BY <1>1 DEF DriverOK
<1>3. {entry'[u].session : u \in Cached'} = {entry[u].session : u \in Cached}
  OBVIOUS
<1>4. Sessions(live') = Sessions(live)
  BY <1>1
<1> QED
  BY <1>1, <1>2, <1>3, <1>4 DEF NoOrphanSession

(* Nor does a step that leaves pool and driver alone outgrow a session.    *)
LEMMA NoneOutgrownKept ==
  ASSUME NoneOutgrown, UNCHANGED driver, Cached' = Cached, entry' = entry
  PROVE  NoneOutgrown'
  BY DEF NoneOutgrown, Outgrown, driver

(* An empty runner. *)
LEMMA InitIInv == Init => IInv
<1> SUFFICES ASSUME Init PROVE IInv
  OBVIOUS
<1> USE DEF Init, PoolInit
<1>1. Cached = {}
  BY DEF Cached
<1>2. PoolOK
  <2>1. Range(lru) = {} /\ IsInjective(lru)
    BY DEF Range, IsInjective
  <2> QED
    BY <1>1, <2>1 DEF PoolOK
<1>3. QuotaHeld
  <2>1. BytesOf({}, entry) = 0 /\ PagesOf({}, entry) = 0
    <3>1. \A f : SumFunctionOnSet(f, {}) = 0
      BY SumOfNothing
    <3> QED
      BY <3>1 DEF BytesOf, PagesOf, SumFunction
  <2> QED
    BY <1>1, <2>1, Quotas, PoolAssumption
<1>4. DriverOK
  BY DEF DriverOK, Empty, Content
<1>5. ControlOK
  BY DEF ControlOK, Phase
<1>6. NoOrphanSession /\ UnusedSessionIntact
  BY <1>1 DEF NoOrphanSession, Sessions, UnusedSessionIntact
<1>7. RequestHasItsSession /\ RequestIsPossible /\ RequestProgress
  BY DEF RequestHasItsSession, Serving, RequestIsPossible, RequestProgress
<1>8. ServedFromOwnHistory /\ OwnerOutlivesSessions /\ UnboundIsFinal
  BY DEF ServedFromOwnHistory, OwnerOutlivesSessions, UnboundIsFinal
<1>9. OutgrownNotReused
  BY <1>1 DEF OutgrownNotReused
<1> QED
  BY <1>2, <1>3, <1>4, <1>5, <1>6, <1>7, <1>8, <1>9, TypeOKParts DEF IInv

(* Outside a scoring no session counts as outgrown, and inside one only    *)
(* the request's own.                                                      *)
LEMMA Scored ==
  /\ phase \notin {"candidate", "executed", "cleaned"}
       => (NoneOutgrown <=> OutgrownNotReused)
  /\ phase' \notin {"candidate", "executed", "cleaned"}
       => (NoneOutgrown' <=> OutgrownNotReused')
  /\ OutgrownNotReused => \A u \in Cached : u # request.user => ~Outgrown(u)
  BY DEF NoneOutgrown, Outgrown, OutgrownNotReused

(* The plan of a request is a plan. *)
LEMMA PlanOfRequest ==
  ASSUME NEW r \in Request, ControlOK
  PROVE  PlanSession(r) \in Plan /\ PlanSession(r).history = r.history
<1>1. r.history \in History /\ r.candidate \in Nat
  BY CandidateAssumption DEF Request
<1>2. HistoryTokens[r.history] \in Nat \ {0}
  BY <1>1, PoolAssumption
<1>3. HistoryTokens[r.history] + (IF transient THEN 0 ELSE r.candidate) \in Nat \ {0}
  BY <1>1, <1>2
<1> QED
  BY <1>1, <1>3 DEF PlanSession, Plan

(* Execute: a hit is admitted, everything else goes to the eviction loop. *)
LEMMA ExecuteIInv == ASSUME IInv, NEW r \in Request, Execute(r) PROVE IInv'
<1> USE DEF IInv
<1>1. /\ phase = "idle" /\ Possible(PlanSession(r)) /\ request' = r /\ answer' = None
      /\ UNCHANGED <<transient, driver, poisoned, runner>>
      /\ \/ /\ Reusable(r.user, PlanSession(r))
            /\ Touch(r.user) /\ phase' = "admitted"
         \/ UNCHANGED pool /\ phase' = "evict"
  BY DEF Execute
<1>2. PoolOK /\ DriverOK /\ ControlOK
  BY TypeOKParts
<1>3. r.user \in User /\ r # None
  BY NoneAssumption DEF Request
<1>4. PoolOK' /\ QuotaHeld' /\ entry' = entry /\ Cached' = Cached
  <2>1. CASE Reusable(r.user, PlanSession(r)) /\ Touch(r.user)
    <3>1. r.user \in Cached
      BY <1>3, <2>1 DEF Reusable, Cached
    <3> QED
      BY <1>2, <2>1, <3>1, PoolTouch
  <2>2. CASE UNCHANGED pool
    BY <1>2, <2>2, PoolUnchanged
  <2> QED
    BY <1>1, <2>1, <2>2
<1>5. DriverOK' /\ NoOrphanSession'
  BY <1>1, <1>2, <1>4, DriverUnchanged DEF DriverOK
<1>6. ControlOK'
  BY <1>1, <1>2, <1>3 DEF ControlOK, Phase, runner
<1>7. RequestHasItsSession'
  <2>1. requestPlan' = PlanSession(r) /\ PlanSession(r) \in Plan
    BY <1>1, <1>2, PlanOfRequest DEF requestPlan, PlanSession
  <2>2. CASE phase' = "evict"
    BY <2>2 DEF RequestHasItsSession, Serving
  <2>3. CASE Reusable(r.user, PlanSession(r))
    <3>1. entry[r.user] \in Entry /\ entry[r.user].plan.capacity \in Nat
      BY <1>2, <1>3, <2>3 DEF Reusable, PoolOK, Entry, Plan
    <3> QED
      BY <1>1, <1>2, <1>4, <2>1, <2>3, <3>1, PlanOfRequest
         DEF RequestHasItsSession, Reusable, Plan
  <2> QED
    BY <1>1, <2>2, <2>3
<1>8. RequestIsPossible'
  BY <1>1 DEF RequestIsPossible, requestPlan, PlanSession
<1>9. RequestProgress' /\ ServedFromOwnHistory'
  BY <1>1 DEF RequestProgress, ServedFromOwnHistory
<1>10. UnusedSessionIntact'
  BY <1>1, <1>4 DEF UnusedSessionIntact, InUse, driver
<1>11. OwnerOutlivesSessions' /\ UnboundIsFinal'
  BY <1>1 DEF OwnerOutlivesSessions, UnboundIsFinal, runner
<1>12. OutgrownNotReused'
  BY <1>1, <1>4, Scored, NoneOutgrownKept
<1> QED
  BY <1>4, <1>5, <1>6, <1>7, <1>8, <1>9, <1>10, <1>11, <1>12, TypeOKParts

(* Between requests' candidates every session counts. *)
LEMMA Intact ==
  /\ phase \notin {"executed", "cleaned"} => (AllIntact <=> UnusedSessionIntact)
  /\ phase' \notin {"executed", "cleaned"} => (AllIntact' <=> UnusedSessionIntact')
  BY DEF AllIntact, UnusedSessionIntact, InUse

(* The eviction loop always finds a victim. *)
LEMMA VictimIsCached ==
  ASSUME IInv, phase = "evict", MustEvict
  PROVE  Victim \in Cached
<1> USE DEF IInv
<1>1. PoolOK /\ ControlOK
  BY TypeOKParts
<1>2. request \in Request
  BY <1>1 DEF ControlOK
<1>3. CASE Stale
  BY <1>2, <1>3 DEF Stale, Victim, Cached, Request
<1>4. CASE ~Stale
  <2>1. ~Fits(requestPlan) /\ Possible(requestPlan)
    BY <1>4 DEF MustEvict, RequestIsPossible
  <2>2. lru # <<>>
    <3>1. SUFFICES ASSUME lru = <<>> PROVE FALSE
      OBVIOUS
    <3>2. Cached = {}
      BY <1>1, <3>1 DEF PoolOK, Range
    <3>3. ReservedBytes = 0 /\ ReservedPages = 0
      <4>1. \A f : SumFunctionOnSet(f, {}) = 0
        BY SumOfNothing
      <4> QED
        BY <3>2, <4>1 DEF ReservedBytes, ReservedPages, SumFunction
    <3>4. requestPlan \in Plan
      BY <1>1, <1>2, PlanOfRequest DEF requestPlan
    <3> QED
      BY <2>1, <3>3, <3>4, PlanCharge, PoolAssumption DEF Fits, Possible
  <2>3. Head(lru) \in Range(lru)
    <3>1. lru \in Seq(User) /\ 1 \in DOMAIN lru
      BY <1>1, <2>2, LenProperties, EmptySeq DEF PoolOK
    <3>2. Head(lru) = lru[1]
      BY <3>1
    <3> QED
      BY <3>1, <3>2 DEF Range
  <2> QED
    BY <1>1, <1>4, <2>3 DEF Victim, PoolOK
<1> QED
  BY <1>3, <1>4

(* A step that discards and leaves the request, or goes on to the next     *)
(* victim.                                                                 *)
LEMMA DiscardStep ==
  ASSUME IInv, NEW u \in Cached, Discard(u),
         phase \notin {"candidate", "executed", "cleaned", "complete"},
         \/ UNCHANGED control /\ phase \in {"evict", "closing"}
         \/ Done,
         UNCHANGED <<transient, answer, runner>>
  PROVE  IInv'
<1> USE DEF IInv
<1>1. PoolOK /\ DriverOK /\ ControlOK /\ AllIntact /\ NoneOutgrown
  BY TypeOKParts, Intact, Scored
<1>2. /\ PoolOK' /\ QuotaHeld' /\ DriverOK' /\ NoOrphanSession' /\ AllIntact'
      /\ NoneOutgrown'
  BY <1>1, DiscardKeeps
<1>3. phase' \notin Serving /\ phase' # "complete" /\ phase' \in {phase, "idle"}
  BY DEF Done, control, Serving
<1>4. ControlOK'
  BY <1>1 DEF ControlOK, Done, control, runner, Phase
<1>5. RequestHasItsSession' /\ RequestProgress'
  BY <1>3 DEF RequestHasItsSession, RequestProgress, Serving
<1>6. RequestIsPossible'
  BY DEF RequestIsPossible, requestPlan, PlanSession, Done, control
<1>7. UnusedSessionIntact' /\ OutgrownNotReused'
  BY <1>2, <1>3, Intact, Scored DEF Serving
<1>8. ServedFromOwnHistory'
  BY DEF ServedFromOwnHistory
<1>9. OwnerOutlivesSessions' /\ UnboundIsFinal'
  BY <1>3 DEF OwnerOutlivesSessions, UnboundIsFinal, runner
<1> QED
  BY <1>2, <1>4, <1>5, <1>6, <1>7, <1>8, <1>9, TypeOKParts

(* An eviction releases one victim, or gives the request up. *)
LEMMA EvictIInv == ASSUME IInv, Evict PROVE IInv'
<1>1. /\ phase = "evict" /\ MustEvict /\ Discard(Victim)
      /\ UNCHANGED control \/ Done
      /\ UNCHANGED <<transient, answer, runner>>
  BY DEF Evict
<1>2. Victim \in Cached
  BY <1>1, VictimIsCached
<1> QED
  BY <1>1, <1>2, DiscardStep

(* execute's except clause discards the request's own entry. *)
LEMMA DiscardFailedIInv == ASSUME IInv, DiscardFailed PROVE IInv'
<1>1. /\ phase = "discard" /\ Discard(request.user) /\ Done
      /\ UNCHANGED <<transient, answer, runner>>
  BY DEF DiscardFailed
<1>2. request.user \in Cached
  BY <1>1 DEF IInv, TypeOK, RequestHasItsSession, Serving, Cached, Request
<1> QED
  BY <1>1, <1>2, DiscardStep

(* close releases the entries one by one, the oldest first. *)
LEMMA CloseEntryIInv == ASSUME IInv, CloseEntry PROVE IInv'
<1>1. /\ phase = "closing" /\ lru # <<>> /\ Discard(Head(lru))
      /\ UNCHANGED control \/ Done
      /\ UNCHANGED <<transient, answer, runner>>
  BY DEF CloseEntry
<1>2. Head(lru) \in Cached
  <2>1. PoolOK
    BY TypeOKParts DEF IInv
  <2>2. lru \in Seq(User) /\ 1 \in DOMAIN lru
    BY <1>1, <2>1, LenProperties, EmptySeq DEF PoolOK
  <2>3. Head(lru) = lru[1]
    BY <2>2
  <2> QED
    BY <2>1, <2>2, <2>3 DEF PoolOK, Range
<1> QED
  BY <1>1, <1>2, DiscardStep

(* A request that is being served, and its session. *)
LEMMA ServedSession ==
  ASSUME IInv, phase \in Serving
  PROVE  /\ request \in Request /\ request.user \in Cached
         /\ request.history \in History
         /\ HistoryTokens[request.history] \in Nat \ {0}
         /\ current \in Session /\ live[current] \in LiveSession
         /\ live[current].plan = entry[request.user].plan
         /\ entry[request.user].plan.history = request.history
         /\ content[current] \in Content
         /\ requestPlan.capacity <= entry[request.user].plan.capacity
         /\ ownerBound /\ phase # "evict"
<1> USE DEF IInv
<1>1. PoolOK /\ DriverOK /\ ControlOK
  BY TypeOKParts
<1>2. request \in Request
  BY <1>1 DEF ControlOK, Serving
<1>3. request.user \in User /\ request.history \in History
  BY <1>2 DEF Request
<1>4. request.user \in Cached /\ entry[request.user].plan.history = request.history
  BY <1>3 DEF RequestHasItsSession, Cached
<1>5. /\ current \in Session /\ live[current] \in LiveSession
      /\ live[current].plan = entry[request.user].plan
  BY <1>1, <1>4, EntrySession DEF current
<1>6. content[current] \in Content
  BY <1>1, <1>5 DEF DriverOK
<1>7. ownerBound /\ phase # "evict"
  BY <1>1 DEF UnboundIsFinal, Serving, ControlOK
<1>8. requestPlan.capacity <= entry[request.user].plan.capacity
  BY DEF RequestHasItsSession
<1> QED
  BY <1>2, <1>3, <1>4, <1>5, <1>6, <1>7, <1>8, PoolAssumption

(* Steps from one point of a request to another that leave the pool alone. *)
LEMMA ServingStep ==
  ASSUME IInv, phase \in Serving, UNCHANGED <<pool, transient, runner, request>>,
         phase' \in Serving, answer' \in Answer \cup {None},
         DriverOK', NoOrphanSession', UnusedSessionIntact', OutgrownNotReused',
         RequestProgress', ServedFromOwnHistory'
  PROVE  IInv'
<1> USE DEF IInv
<1>1. PoolOK /\ DriverOK /\ ControlOK
  BY TypeOKParts
<1>2. PoolOK' /\ QuotaHeld' /\ Cached' = Cached /\ entry' = entry
  BY <1>1, PoolUnchanged
<1>3. ControlOK'
  BY <1>1 DEF ControlOK, Serving, Phase, runner
<1>4. RequestHasItsSession' /\ RequestIsPossible'
  <2>1. requestPlan' = requestPlan
    BY DEF requestPlan, PlanSession
  <2> QED
    BY <1>2, <2>1 DEF RequestHasItsSession, RequestIsPossible, Serving
<1>5. OwnerOutlivesSessions' /\ UnboundIsFinal'
  BY ServedSession DEF OwnerOutlivesSessions, UnboundIsFinal, Serving, runner
<1> QED
  BY <1>2, <1>3, <1>4, <1>5, TypeOKParts

(* A fresh session enters the pool and the runtime together, or neither. *)
LEMMA AllocateIInv == ASSUME IInv, Allocate PROVE IInv'
<1> USE DEF IInv
<1>1. /\ phase = "evict" /\ ~Stale /\ Fits(requestPlan)
      /\ UNCHANGED <<transient, content, answer, runner>>
  BY DEF Allocate, MustEvict
<1>2. PoolOK /\ DriverOK /\ ControlOK /\ AllIntact /\ NoneOutgrown /\ request \in Request
  <2>1. PoolOK /\ DriverOK /\ ControlOK /\ AllIntact /\ NoneOutgrown
    BY <1>1, TypeOKParts, Intact, Scored
  <2> QED
    BY <1>1, <2>1 DEF ControlOK
<1>3. /\ request.user \in User \ Cached /\ requestPlan \in Plan
      /\ requestPlan.history = request.history
  BY <1>1, <1>2, PlanOfRequest DEF Stale, Cached, Request, requestPlan
<1>4. CASE Fails /\ Done /\ UNCHANGED <<pool, live, over>>
  <2>1. PoolOK' /\ QuotaHeld' /\ Cached' = Cached /\ entry' = entry
    BY <1>2, <1>4, PoolUnchanged
  <2>2. DriverOK' /\ NoOrphanSession'
    <3>1. UNCHANGED driver /\ poisoned' \in BOOLEAN
      BY <1>1, <1>2, <1>4 DEF driver, Fails, DriverOK
    <3> QED
      BY <1>2, <2>1, <3>1, DriverUnchanged
  <2>3. AllIntact' /\ NoneOutgrown'
    BY <1>1, <1>2, <1>4, <2>1 DEF AllIntact, NoneOutgrown, Outgrown
  <2>4. ControlOK' /\ phase' = "idle"
    BY <1>1, <1>2, <1>4 DEF ControlOK, Done, Phase, runner
  <2>5. UnusedSessionIntact' /\ OutgrownNotReused'
    BY <2>3, <2>4, Intact, Scored
  <2>6. RequestHasItsSession' /\ RequestIsPossible' /\ RequestProgress'
    BY <2>4 DEF RequestHasItsSession, RequestIsPossible, RequestProgress, Serving
  <2>7. ServedFromOwnHistory' /\ OwnerOutlivesSessions' /\ UnboundIsFinal'
    BY <1>1, <2>4 DEF ServedFromOwnHistory, OwnerOutlivesSessions, UnboundIsFinal, runner
  <2> QED
    BY <2>1, <2>2, <2>4, <2>5, <2>6, <2>7, TypeOKParts
<1>5. ASSUME NEW s \in Session, live[s] = None, Succeeds,
             live' = [live EXCEPT ![s] = [plan |-> requestPlan, failed |-> FALSE]],
             over' \in {over, over \cup {s}},
             Insert(request.user, s, requestPlan), Goto("allocated")
      PROVE  IInv'
  <2> DEFINE u == request.user
             fresh == [plan |-> requestPlan, failed |-> FALSE]
  <2>1. /\ PoolOK' /\ QuotaHeld' /\ Cached' = Cached \cup {u}
        /\ entry'[u] = [session |-> s, plan |-> requestPlan, ready |-> FALSE]
        /\ \A v \in Cached : entry'[v] = entry[v]
    BY <1>1, <1>2, <1>3, <1>5, PoolInsert
  <2>2. fresh \in LiveSession /\ fresh # None
    <3>1. fresh \in LiveSession
      BY <1>3 DEF LiveSession
    <3> HIDE DEF fresh
    <3> QED
      BY <3>1, NoneAssumption
  <2>3. DriverOK'
    BY <1>1, <1>2, <1>5, <2>2 DEF DriverOK, Succeeds
  <2>4. \A v \in Cached : entry[v].session \in Session /\ entry[v].session # s
    BY <1>2, <1>5, EntrySession
  <2>5. \A v \in Cached : live'[entry'[v].session] = live[entry[v].session]
    BY <1>2, <1>5, <2>1, <2>4 DEF DriverOK
  <2>6. Sessions(live') = Sessions(live) \cup {s}
    <3> HIDE DEF fresh
    <3>1. live' = [live EXCEPT ![s] = fresh]
      BY <1>5 DEF fresh
    <3> QED
      BY <1>2, <2>2, <3>1 DEF Sessions, DriverOK
  <2>7. entry'[u].session = s /\ entry'[u].plan = requestPlan /\ ~entry'[u].ready
    BY <2>1
  <2>8. live'[s].plan = requestPlan
    BY <1>2, <1>5 DEF DriverOK
  <2>9. NoOrphanSession'
    <3>1. {entry'[v].session : v \in Cached'} = {entry[v].session : v \in Cached} \cup {s}
      BY <2>1, <2>7
    <3>2. \A v, w \in Cached' : entry'[v].session = entry'[w].session => v = w
      BY <2>1, <2>4, <2>7 DEF NoOrphanSession
    <3>3. \A v \in Cached' : live'[entry'[v].session].plan = entry'[v].plan
      BY <2>1, <2>5, <2>7, <2>8 DEF NoOrphanSession
    <3> QED
      BY <2>6, <3>1, <3>2, <3>3 DEF NoOrphanSession
  <2>10. AllIntact' /\ NoneOutgrown'
    <3>1. AllIntact'
      BY <1>1, <1>2, <2>1, <2>5, <2>7 DEF AllIntact, Full
    <3>2. NoneOutgrown'
      BY <1>2, <1>5, <2>1, <2>4, <2>5, <2>7 DEF NoneOutgrown, Outgrown
    <3> QED
      BY <3>1, <3>2
  <2>11. phase' = "allocated" /\ request' = request
    BY <1>5 DEF Goto
  <2>12. ControlOK'
    BY <1>1, <1>2, <2>11 DEF ControlOK, Phase, runner
  <2>13. UnusedSessionIntact' /\ OutgrownNotReused'
    BY <2>10, <2>11, Intact, Scored
  <2>14. RequestHasItsSession'
    <3>1. u \in Cached' /\ entry'[u].plan.history = request.history
      BY <1>3, <2>1, <2>7
    <3>2. requestPlan' = requestPlan /\ requestPlan.capacity \in Nat
      BY <1>1, <1>3, <2>11 DEF requestPlan, PlanSession, Plan
    <3>3. requestPlan.capacity <= entry'[u].plan.capacity
      BY <2>7, <3>2
    <3> QED
      BY <2>11, <3>1, <3>2, <3>3 DEF RequestHasItsSession, Cached
  <2>15. RequestIsPossible' /\ RequestProgress'
    BY <2>11 DEF RequestIsPossible, RequestProgress
  <2>16. ServedFromOwnHistory' /\ OwnerOutlivesSessions' /\ UnboundIsFinal'
    BY <1>1, <2>11 DEF ServedFromOwnHistory, OwnerOutlivesSessions, UnboundIsFinal, runner
  <2> QED
    BY <2>1, <2>3, <2>9, <2>12, <2>13, <2>14, <2>15, <2>16, TypeOKParts
<1> QED
  BY <1>4, <1>5 DEF Allocate

(* The audit of an admission passes, or takes the new entry back. *)
LEMMA AuditAdmissionIInv == ASSUME IInv, AuditAdmission PROVE IInv'
<1> USE DEF IInv
<1>1. phase = "allocated" /\ UNCHANGED <<transient, answer, runner>>
  BY DEF AuditAdmission
<1>2. PoolOK /\ DriverOK /\ ControlOK /\ AllIntact /\ NoneOutgrown
  BY <1>1, TypeOKParts, Intact, Scored
<1>3. CASE Discard(request.user) /\ Done
  <2>1. request.user \in Cached
    BY <1>1, ServedSession DEF Serving
  <2> QED
    BY <1>1, <1>3, <2>1, DiscardStep
<1>4. CASE Goto("admitted") /\ UNCHANGED <<pool, driver, poisoned>>
  <2>1. phase' = "admitted" /\ request' = request
    BY <1>4 DEF Goto
  <2>2. PoolOK' /\ Cached' = Cached /\ entry' = entry
    BY <1>2, <1>4, PoolUnchanged
  <2>3. DriverOK' /\ NoOrphanSession'
    BY <1>2, <1>4, <2>2, DriverUnchanged DEF DriverOK
  <2>4. AllIntact'
    BY <1>2, <1>4, <2>2 DEF AllIntact, driver
  <2>5. UnusedSessionIntact' /\ OutgrownNotReused' /\ RequestProgress'
    BY <1>2, <1>4, <2>1, <2>2, <2>4, Intact, Scored, NoneOutgrownKept DEF RequestProgress
  <2>6. ServedFromOwnHistory' /\ answer' \in Answer \cup {None}
    BY <1>1, <1>2 DEF ServedFromOwnHistory, ControlOK
  <2> QED
    BY <1>1, <1>4, <2>1, <2>3, <2>5, <2>6, ServingStep DEF Serving
<1> QED
  BY <1>3, <1>4 DEF AuditAdmission

(* Steps that touch neither pool nor driver. *)
LEMMA ControlStep ==
  ASSUME IInv, phase \in {"admitted", "built", "candidate"}, request' = request,
         UNCHANGED <<pool, transient, driver, poisoned, answer, runner>>,
         NoneOutgrown,
         phase' \in {"prefill", "candidate", "discard"},
         phase' = "prefill" => ~entry[request.user].ready,
         phase' = "candidate" => entry[request.user].ready
  PROVE  IInv'
<1> USE DEF IInv
<1>1. PoolOK /\ DriverOK /\ ControlOK /\ AllIntact
  BY TypeOKParts, Intact
<1>2. PoolOK' /\ Cached' = Cached /\ entry' = entry
  BY <1>1, PoolUnchanged
<1>3. DriverOK' /\ NoOrphanSession'
  BY <1>1, <1>2, DriverUnchanged DEF DriverOK
<1>4. AllIntact' /\ NoneOutgrown'
  BY <1>1, <1>2, NoneOutgrownKept DEF AllIntact, driver
<1>5. UnusedSessionIntact' /\ OutgrownNotReused'
  BY <1>4, Intact DEF NoneOutgrown, Outgrown, OutgrownNotReused
<1>6. RequestProgress'
  <2>1. request.user \in Cached
    BY ServedSession DEF Serving
  <2>2. ~Outgrown(request.user)
    BY <2>1 DEF NoneOutgrown
  <2>3. live' = live /\ over' = over /\ current' = current
    BY <1>2 DEF driver, current
  <2> QED
    BY <1>2, <2>2, <2>3 DEF RequestProgress, Outgrown, current
<1>7. ServedFromOwnHistory' /\ answer' \in Answer \cup {None}
  BY <1>1 DEF ServedFromOwnHistory, ControlOK
<1> QED
  BY <1>3, <1>5, <1>6, <1>7, ServingStep DEF Serving

(* A hit goes to the candidates, a miss to the prefill. *)
LEMMA AdmittedIInv == ASSUME IInv, Admitted PROVE IInv'
<1>1. /\ phase = "admitted" /\ request' = request
      /\ UNCHANGED <<pool, transient, driver, poisoned, answer, runner>>
      /\ phase' \in {"prefill", "candidate", "discard"}
      /\ phase' = "prefill" => ~entry[request.user].ready
      /\ phase' = "candidate" => entry[request.user].ready
  BY DEF Admitted, Goto
<1>2. NoneOutgrown
  BY <1>1, Scored DEF IInv
<1> QED
  BY <1>1, <1>2, ControlStep

(* A session that is failed or incomplete is refused, and nothing changes. *)
(* One that its own prefill outgrew is not refused unless it failed.       *)
LEMMA RejectedIInv == ASSUME IInv, Rejected PROVE IInv'
<1>1. /\ phase = "candidate" /\ request' = request /\ phase' = "discard"
      /\ ~CanRun(current)
      /\ UNCHANGED <<pool, transient, driver, poisoned, answer, runner>>
  BY DEF Rejected, Goto
<1>2. NoneOutgrown
  <2>1. ~Outgrown(request.user)
    BY <1>1 DEF IInv, RequestProgress, Outgrown, current
  <2> QED
    BY <2>1, Scored DEF IInv, NoneOutgrown
<1> QED
  BY <1>1, <1>2, ControlStep

(* A prefill that succeeds leaves the whole history; one that fails marks  *)
(* the session.                                                            *)
LEMMA PrefillIInv == ASSUME IInv, Prefill PROVE IInv'
<1> USE DEF IInv
<1> DEFINE u == request.user
           h == request.history
<1>1. phase = "prefill" /\ UNCHANGED <<pool, transient, answer, runner>>
      /\ over' \in {over, over \cup {current}}
  BY DEF Prefill, MayOutgrow
<1>2. PoolOK /\ DriverOK /\ ControlOK /\ AllIntact /\ NoneOutgrown /\ ~entry[u].ready
  BY <1>1, TypeOKParts, Intact, Scored DEF RequestProgress
<1>3. /\ u \in Cached /\ current \in Session /\ h \in History
      /\ HistoryTokens[h] \in Nat /\ entry[u].plan.history = h
  BY <1>1, ServedSession DEF Serving
<1>4. Cached' = Cached /\ entry' = entry
  BY <1>1 DEF pool, Cached
<1>5. \A v \in Cached : v # u =>
        entry[v].session \in Session /\ entry[v].session # current
  BY <1>2, <1>3, EntrySession DEF NoOrphanSession, current
<1>6. Full(h) \in Content
  BY <1>3 DEF Full, Content
<1>7. ServedFromOwnHistory' /\ answer' \in Answer \cup {None}
  BY <1>1, <1>2 DEF ServedFromOwnHistory, ControlOK
<1>8. CASE /\ Succeeds
           /\ content' = [content EXCEPT ![current] = Full(h)]
           /\ Goto("built")
           /\ UNCHANGED live
  <2>1. phase' = "built" /\ request' = request /\ current' = current
    BY <1>4, <1>8 DEF Goto, current
  <2>2. DriverOK'
    BY <1>1, <1>2, <1>3, <1>6, <1>8 DEF DriverOK, Succeeds
  <2>3. NoOrphanSession'
    BY <1>4, <1>8 DEF NoOrphanSession, Sessions
  <2>4. content'[current] = Full(h)
    BY <1>2, <1>3, <1>8 DEF DriverOK
  <2>5. AllIntact'
    <3>1. \A v \in Cached : v # u => content'[entry[v].session] = content[entry[v].session]
      BY <1>2, <1>5, <1>8 DEF DriverOK
    <3> QED
      BY <1>2, <1>3, <1>4, <1>8, <2>4, <3>1 DEF AllIntact, current, Full
  <2>6. NoneOutgrown'
    BY <1>1, <1>2, <1>4, <1>5, <1>8 DEF NoneOutgrown, Outgrown
  <2>7. UnusedSessionIntact' /\ OutgrownNotReused'
    BY <2>1, <2>5, <2>6, Intact, Scored
  <2>8. RequestProgress'
    BY <1>2, <1>4, <2>1, <2>4 DEF RequestProgress, Full
  <2> QED
    BY <1>1, <1>7, <2>1, <2>2, <2>3, <2>7, <2>8, ServingStep DEF Serving
<1>9. ASSUME NEW n \in Partial(HistoryTokens[h]), Fails,
             content' = [content EXCEPT ![current] = [of |-> h, tokens |-> n, suffix |-> 0]],
             MarkFailed(current), Goto("discard")
      PROVE  IInv'
  <2>1. phase' = "discard" /\ request' = request
    BY <1>9 DEF Goto
  <2>2. n \in Nat
    BY <1>3, <1>9 DEF Partial
  <2>3. /\ live' \in [Session -> LiveSession \cup {None}] /\ NoOrphanSession'
        /\ live'[current].failed
        /\ \A v \in Cached : v # u => live'[entry[v].session] = live[entry[v].session]
    BY <1>1, <1>2, <1>3, <1>9, MarkFailedKeeps DEF current
  <2>4. DriverOK'
    <3>1. [of |-> h, tokens |-> n, suffix |-> 0] \in Content
      BY <1>3, <2>2 DEF Content
    <3> QED
      BY <1>1, <1>2, <1>3, <1>9, <2>3, <3>1 DEF DriverOK, Fails
  <2>5. AllIntact'
    <3>1. \A v \in Cached : v # u => content'[entry[v].session] = content[entry[v].session]
      BY <1>2, <1>5, <1>9 DEF DriverOK
    <3> QED
      BY <1>2, <1>4, <2>3, <3>1 DEF AllIntact, current, Full
  <2>6. NoneOutgrown'
    BY <1>1, <1>2, <1>4, <1>5, <2>3 DEF NoneOutgrown, Outgrown
  <2>7. UnusedSessionIntact' /\ OutgrownNotReused' /\ RequestProgress'
    BY <2>1, <2>5, <2>6, Intact, Scored DEF RequestProgress
  <2> QED
    BY <1>1, <1>7, <2>1, <2>3, <2>4, <2>7, ServingStep DEF Serving
<1> QED
  BY <1>8, <1>9 DEF Prefill

(* A session that was just built is not refused unless it failed: it holds *)
(* its history, and its plan has room for the candidates.                  *)
LEMMA BuiltCanRun ==
  ASSUME IInv, phase = "built"
  PROVE  live[current].failed \/ CanRun(current)
<1> DEFINE h == request.history
<1>1. /\ request \in Request /\ HistoryTokens[h] \in Nat \ {0}
      /\ live[current].plan.history = h
      /\ requestPlan.capacity <= live[current].plan.capacity
  BY ServedSession DEF Serving
<1>2. content[current] = Full(h)
  BY DEF IInv, RequestProgress
<1>3. Length(current) = HistoryTokens[h]
  BY <1>1, <1>2 DEF Length, Full
<1>4. transient \/ requestPlan.capacity = HistoryTokens[h] + request.candidate
  BY DEF requestPlan, PlanSession, IInv, TypeOK
<1> QED
  BY <1>1, <1>3, <1>4 DEF CanRun

(* An entry becomes ready only after its prefill left the whole history. *)
LEMMA PublishIInv == ASSUME IInv, Publish PROVE IInv'
<1> USE DEF IInv
<1> DEFINE u == request.user
<1>1. phase = "built" /\ request' = request
      /\ UNCHANGED <<transient, driver, poisoned, answer, runner>>
  BY DEF Publish, Goto
<1>2. PoolOK /\ DriverOK /\ ControlOK /\ AllIntact /\ NoneOutgrown
  BY <1>1, TypeOKParts, Intact, Scored
<1>3. u \in Cached /\ entry[u].plan.history = request.history
  BY <1>1, ServedSession DEF Serving
<1>4. CASE phase' = "discard" /\ UNCHANGED pool
  BY <1>1, <1>2, <1>4, ControlStep
<1>5. CASE phase' = "candidate" /\ MarkReady(u)
  <2>1. /\ PoolOK' /\ QuotaHeld' /\ Cached' = Cached
        /\ entry'[u].session = entry[u].session /\ entry'[u].plan = entry[u].plan
        /\ entry'[u].ready
        /\ \A v \in Cached \ {u} : entry'[v] = entry[v]
    BY <1>2, <1>3, <1>5, PoolMarkReady
  <2>2. DriverOK' /\ NoOrphanSession'
    <3>1. \A v \in Cached : /\ entry'[v].session = entry[v].session
                            /\ entry'[v].plan = entry[v].plan
      BY <2>1
    <3> QED
      BY <1>1, <1>2, <2>1, <3>1, DriverUnchanged DEF DriverOK
  <2>3. AllIntact'
    <3>1. content[entry[u].session] = Full(entry[u].plan.history)
      BY <1>1, <1>3 DEF RequestProgress, current
    <3> QED
      BY <1>1, <1>2, <1>3, <2>1, <3>1 DEF AllIntact, driver, Full
  <2>4. UnusedSessionIntact'
    BY <1>1, <1>5, <2>1, <2>3, Intact
  <2>5. RequestHasItsSession' /\ RequestIsPossible'
    <3>1. requestPlan' = requestPlan
      BY <1>1 DEF requestPlan, PlanSession
    <3>2. requestPlan.capacity <= entry[u].plan.capacity
      BY <1>1, ServedSession DEF Serving
    <3> QED
      BY <1>1, <1>3, <1>5, <2>1, <3>1, <3>2
         DEF RequestHasItsSession, RequestIsPossible, Cached
  <2>6. OutgrownNotReused'
    BY <1>1, <1>2, <1>5, <2>1 DEF NoneOutgrown, Outgrown, OutgrownNotReused, driver
  <2>7. RequestProgress'
    <3>1. /\ current' = current /\ live' = live /\ content' = content
          /\ transient' = transient
      BY <1>1, <2>1 DEF current, driver
    <3>2. live[current].failed \/ CanRun(current)
      BY <1>1, BuiltCanRun
    <3>3. live'[current'].failed \/ CanRun(current)'
      BY <1>1, <3>1, <3>2 DEF CanRun, Length
    <3> QED
      BY <1>1, <1>5, <2>1, <3>3 DEF RequestProgress
  <2>8. ControlOK'
    BY <1>1, <1>2, <1>5 DEF ControlOK, Phase, runner
  <2>9. ServedFromOwnHistory' /\ OwnerOutlivesSessions' /\ UnboundIsFinal'
    BY <1>1, <1>5 DEF ServedFromOwnHistory, OwnerOutlivesSessions, UnboundIsFinal, runner
  <2> QED
    BY <2>1, <2>2, <2>4, <2>5, <2>6, <2>7, <2>8, <2>9, TypeOKParts
<1> QED
  BY <1>1, <1>4, <1>5 DEF Publish, Goto

(* While a request uses its session, only the others are intact.           *)
OthersIntact ==
  \A u \in Cached :
    u # request.user /\ entry[u].ready /\ ~live[entry[u].session].failed
      => content[entry[u].session] = Full(entry[u].plan.history)

OthersWithin == \A u \in Cached : u # request.user => ~Outgrown(u)

(* A step inside a request that changes at most its own session: its       *)
(* content, its `failed` and its measured use.                             *)
LEMMA OwnSessionStep ==
  ASSUME IInv, phase \in {"candidate", "executed", "cleaned"},
         UNCHANGED <<pool, transient, runner, request>>,
         poisoned' \in BOOLEAN, answer' \in Answer \cup {None}, ServedFromOwnHistory',
         over' \in {over, over \cup {current}},
         NEW c \in Content, content' = [content EXCEPT ![current] = c],
         \/ /\ live' = live /\ phase' \in {"executed", "cleaned"} /\ answer' # None
            /\ c.of = request.history /\ c.tokens = HistoryTokens[request.history]
         \/ MarkFailed(current) /\ phase' = "discard"
  PROVE  IInv'
<1> USE DEF IInv
<1> DEFINE u == request.user
<1>1. PoolOK /\ DriverOK /\ ControlOK
  BY TypeOKParts
<1>2. u \in Cached /\ current \in Session
  BY ServedSession DEF Serving
<1>3. Cached' = Cached /\ entry' = entry /\ current' = current /\ request' = request
  BY DEF pool, Cached, current
<1>4. \A v \in Cached : v # u =>
        entry[v].session \in Session /\ entry[v].session # current
  BY <1>1, <1>2, EntrySession DEF NoOrphanSession, current
<1>5. \A v \in Cached : v # u => content'[entry[v].session] = content[entry[v].session]
  BY <1>1, <1>4 DEF DriverOK
<1>6. OthersIntact /\ OthersWithin
  BY Scored DEF OthersIntact, OthersWithin, UnusedSessionIntact, InUse
<1>7. content' \in [Session -> Content] /\ over' \in SUBSET Session
      /\ content'[current] = c
  BY <1>1, <1>2 DEF DriverOK
<1>8. CASE /\ live' = live /\ phase' \in {"executed", "cleaned"} /\ answer' # None
           /\ c.of = request.history /\ c.tokens = HistoryTokens[request.history]
  <2>1. DriverOK' /\ NoOrphanSession'
    BY <1>1, <1>3, <1>7, <1>8 DEF DriverOK, NoOrphanSession, Sessions
  <2>2. UnusedSessionIntact'
    BY <1>3, <1>5, <1>6, <1>8 DEF OthersIntact, UnusedSessionIntact, InUse, Full
  <2>3. RequestProgress'
    BY <1>3, <1>7, <1>8 DEF RequestProgress
  <2>4. OutgrownNotReused'
    BY <1>3, <1>4, <1>6, <1>8 DEF OthersWithin, Outgrown, OutgrownNotReused
  <2> QED
    BY <1>8, <2>1, <2>2, <2>3, <2>4, ServingStep DEF Serving
<1>9. CASE MarkFailed(current) /\ phase' = "discard"
  <2>1. /\ live' \in [Session -> LiveSession \cup {None}] /\ NoOrphanSession'
        /\ live'[current].failed
        /\ \A v \in Cached : v # u => live'[entry[v].session] = live[entry[v].session]
    BY <1>1, <1>2, <1>9, MarkFailedKeeps DEF current
  <2>2. DriverOK'
    BY <1>7, <2>1 DEF DriverOK
  <2>3. UnusedSessionIntact'
    BY <1>3, <1>5, <1>6, <2>1 DEF OthersIntact, UnusedSessionIntact, current, Full
  <2>4. RequestProgress'
    BY <1>9 DEF RequestProgress
  <2>5. OutgrownNotReused'
    BY <1>3, <1>4, <1>6, <2>1 DEF OthersWithin, Outgrown, OutgrownNotReused, current
  <2> QED
    BY <1>9, <2>1, <2>2, <2>3, <2>4, <2>5, ServingStep DEF Serving
<1> QED
  BY <1>8, <1>9

(* A session whose suffix changes is one session's content. *)
LEMMA SuffixContent ==
  ASSUME DriverOK, current \in Session, NEW n \in Nat
  PROVE  LET c == [content[current] EXCEPT !.suffix = n] IN
         /\ [content EXCEPT ![current].suffix = n] = [content EXCEPT ![current] = c]
         /\ c \in Content
         /\ c.of = content[current].of /\ c.tokens = content[current].tokens
<1>1. content[current] \in Content
  BY DEF DriverOK
<1> QED
  BY <1>1 DEF Content

(* The content a step leaves alone, written as an update. *)
LEMMA SameContent ==
  ASSUME DriverOK, current \in Session
  PROVE  content = [content EXCEPT ![current] = content[current]]
  BY DEF DriverOK

(* The answer is computed from the complete history; only the suffix of the *)
(* request's own session may change.                                       *)
LEMMA CandidatesIInv == ASSUME IInv, Candidates PROVE IInv'
<1> USE DEF IInv
<1> DEFINE h == request.history
           kept == IF transient THEN 0 ELSE request.candidate
<1>1. phase = "candidate" /\ CanRun(current) /\ UNCHANGED <<pool, transient, runner>>
      /\ over' \in {over, over \cup {current}}
  BY DEF Candidates, MayOutgrow
<1>2. PoolOK /\ DriverOK /\ ControlOK /\ AllIntact
  BY <1>1, TypeOKParts, Intact
<1>3. /\ request \in Request /\ request.user \in Cached /\ h \in History
      /\ current \in Session /\ content[current] \in Content
      /\ entry[request.user].plan.history = h
  BY <1>1, ServedSession DEF Serving
<1>4. kept \in Nat
  BY <1>3, CandidateAssumption DEF Request
<1>5. content[current] = Full(h)
  BY <1>1, <1>2, <1>3 DEF AllIntact, RequestProgress, CanRun, current
<1>6. content[current].of = h /\ content[current].tokens = HistoryTokens[h]
  BY <1>5 DEF Full
<1>7. CASE /\ Succeeds
           /\ content' = [content EXCEPT ![current].suffix = kept]
           /\ answer' = [request |-> request, from |-> content[current]]
           /\ Goto("executed")
           /\ UNCHANGED live
  <2>1. answer' \in Answer
    BY <1>3, <1>7 DEF Answer
  <2>2. answer' # None
    BY <2>1, NoneAssumption
  <2>3. ServedFromOwnHistory'
    BY <1>5, <1>7 DEF ServedFromOwnHistory, Full
  <2>4. phase' = "executed" /\ request' = request /\ poisoned' \in BOOLEAN
    BY <1>2, <1>7 DEF Goto, Succeeds, DriverOK
  <2>5. PICK c \in Content :
          /\ content' = [content EXCEPT ![current] = c]
          /\ c.of = content[current].of /\ c.tokens = content[current].tokens
    BY <1>2, <1>3, <1>4, <1>7, SuffixContent
  <2> QED
    BY <1>1, <1>6, <1>7, <2>1, <2>2, <2>3, <2>4, <2>5, OwnSessionStep
<1>8. ASSUME NEW n \in Partial(kept), Fails,
             content' = [content EXCEPT ![current].suffix = n],
             MarkFailed(current), Goto("discard"), UNCHANGED answer
      PROVE  IInv'
  <2>1. n \in Nat
    BY <1>4 DEF Partial
  <2>2. phase' = "discard" /\ request' = request /\ poisoned' \in BOOLEAN
    BY <1>2, <1>8 DEF Goto, Fails, DriverOK
  <2>3. ServedFromOwnHistory' /\ answer' \in Answer \cup {None}
    BY <1>2, <1>8 DEF ServedFromOwnHistory, ControlOK
  <2>4. PICK c \in Content : content' = [content EXCEPT ![current] = c]
    BY <1>2, <1>3, <1>8, <2>1, SuffixContent
  <2> QED
    BY <1>1, <1>8, <2>2, <2>3, <2>4, OwnSessionStep
<1> QED
  BY <1>7, <1>8 DEF Candidates

(* The clean-up truncates the suffix, or leaves it there. *)
LEMMA FinishIInv == ASSUME IInv, Finish PROVE IInv'
<1> USE DEF IInv
<1> DEFINE h == request.history
           truncated == [content EXCEPT ![current].suffix = 0]
<1>1. phase = "executed" /\ UNCHANGED <<pool, transient, answer, runner>>
      /\ over' \in {over, over \cup {current}}
  BY DEF Finish, MayOutgrow
<1>2. PoolOK /\ DriverOK /\ ControlOK
  BY TypeOKParts
<1>3. current \in Session /\ content[current] \in Content
  BY <1>1, ServedSession DEF Serving
<1>4. content[current].of = h /\ content[current].tokens = HistoryTokens[h] /\ answer # None
  BY <1>1 DEF RequestProgress
<1>5. ServedFromOwnHistory' /\ answer' \in Answer /\ answer' # None
  BY <1>1, <1>2, <1>4 DEF ServedFromOwnHistory, ControlOK
<1>6. ASSUME content' \in {content, truncated}
      PROVE  \E c \in Content : /\ content' = [content EXCEPT ![current] = c]
                                /\ c.of = h /\ c.tokens = HistoryTokens[h]
  <2>1. CASE content' = content
    BY <1>2, <1>3, <1>4, <2>1, SameContent
  <2>2. CASE content' = truncated
    BY <1>2, <1>3, <1>4, <2>2, SuffixContent
  <2> QED
    BY <1>6, <2>1, <2>2
<1>7. CASE /\ Succeeds
           /\ content' \in {content, truncated}
           /\ Goto("cleaned")
           /\ UNCHANGED live
  <2>1. phase' = "cleaned" /\ request' = request /\ poisoned' \in BOOLEAN
    BY <1>2, <1>7 DEF Goto, Succeeds, DriverOK
  <2>2. PICK c \in Content : /\ content' = [content EXCEPT ![current] = c]
                             /\ c.of = h /\ c.tokens = HistoryTokens[h]
    BY <1>6, <1>7
  <2> QED
    BY <1>1, <1>5, <1>7, <2>1, <2>2, OwnSessionStep
<1>8. CASE /\ IF over = {}
                THEN Fails /\ content' \in {content, truncated} /\ MayOutgrow(current)
                ELSE UNCHANGED <<poisoned, content, over>>
           /\ MarkFailed(current)
           /\ Goto("discard")
  <2>1. phase' = "discard" /\ request' = request /\ poisoned' \in BOOLEAN
    BY <1>2, <1>8 DEF Goto, Fails, DriverOK
  <2>2. PICK c \in Content : content' = [content EXCEPT ![current] = c]
    BY <1>6, <1>8
  <2> QED
    BY <1>1, <1>5, <1>8, <2>1, <2>2, OwnSessionStep
<1> QED
  BY <1>7, <1>8 DEF Finish

(* A return leaves the request's own session intact as well: its length    *)
(* was checked, and its history was complete.                              *)
LEMMA DeliverIInv == ASSUME IInv, Deliver PROVE IInv'
<1> USE DEF IInv
<1> DEFINE u == request.user
           h == request.history
<1>1. phase = "cleaned"
      /\ UNCHANGED <<pool, transient, content, over, poisoned, answer, runner>>
  BY DEF Deliver
<1>2. PoolOK /\ DriverOK /\ ControlOK
  BY TypeOKParts
<1>3. /\ u \in Cached /\ current \in Session /\ content[current] \in Content
      /\ HistoryTokens[h] \in Nat /\ entry[u].plan.history = h
      /\ live[current].plan = entry[u].plan
  BY <1>1, ServedSession DEF Serving
<1>4. content[current].of = h /\ content[current].tokens = HistoryTokens[h] /\ answer # None
  BY <1>1 DEF RequestProgress
<1>5. answer \in Answer
  BY <1>2, <1>4 DEF ControlOK
<1>6. CASE /\ Length(current) = HistoryTokens[live[current].plan.history]
           /\ over = {}
           /\ Done
           /\ UNCHANGED live
  <2>1. phase' = "idle" /\ request' = None
    BY <1>6 DEF Done
  <2>2. content[current].suffix = 0
    BY <1>3, <1>4, <1>6 DEF Length, Content
  <2>3. content[current] = Full(h)
    BY <1>3, <1>4, <2>2 DEF Content, Full
  <2>4. AllIntact
    <3>1. \A v \in Cached \ {u} :
            entry[v].ready /\ ~live[entry[v].session].failed
              => content[entry[v].session] = Full(entry[v].plan.history)
      BY DEF UnusedSessionIntact, InUse
    <3>2. content[entry[u].session] = Full(entry[u].plan.history)
      BY <1>3, <2>3 DEF current
    <3> QED
      BY <3>1, <3>2 DEF AllIntact
  <2>5. PoolOK' /\ QuotaHeld' /\ Cached' = Cached /\ entry' = entry
    BY <1>1, <1>2, PoolUnchanged
  <2>6. DriverOK' /\ NoOrphanSession'
    <3>1. UNCHANGED driver /\ poisoned' \in BOOLEAN
      BY <1>1, <1>2, <1>6 DEF driver, DriverOK
    <3> QED
      BY <1>2, <2>5, <3>1, DriverUnchanged
  <2>7. AllIntact'
    BY <1>1, <1>6, <2>4, <2>5 DEF AllIntact
  <2>8. answer' = answer /\ answer' \in Answer
    BY <1>1, <1>5
  <2>9. ControlOK'
    BY <1>1, <1>2, <2>1, <2>8 DEF ControlOK, Phase, runner
  <2>10. ServedFromOwnHistory'
    BY <2>8 DEF ServedFromOwnHistory
  <2>11. RequestHasItsSession' /\ RequestIsPossible' /\ RequestProgress'
    BY <2>1 DEF RequestHasItsSession, RequestIsPossible, RequestProgress, Serving
  <2>12. UnusedSessionIntact' /\ OutgrownNotReused'
    <3>1. NoneOutgrown'
      BY <1>1, <1>6 DEF NoneOutgrown, Outgrown
    <3> QED
      BY <2>1, <2>7, <3>1, Intact, Scored
  <2>13. OwnerOutlivesSessions' /\ UnboundIsFinal'
    BY <1>1, <2>1 DEF OwnerOutlivesSessions, UnboundIsFinal, runner
  <2> QED
    BY <2>5, <2>6, <2>9, <2>10, <2>11, <2>12, <2>13, TypeOKParts
<1>7. CASE MarkFailed(current) /\ Goto("discard")
  <2>1. phase' = "discard" /\ request' = request /\ poisoned' \in BOOLEAN
    BY <1>1, <1>2, <1>7 DEF Goto, DriverOK
  <2>2. content' = [content EXCEPT ![current] = content[current]]
    BY <1>1, <1>2, <1>3, SameContent
  <2>3. ServedFromOwnHistory' /\ answer' \in Answer \cup {None}
    BY <1>1, <1>2 DEF ServedFromOwnHistory, ControlOK
  <2>4. over' \in {over, over \cup {current}}
    BY <1>1
  <2> QED
    BY <1>1, <1>3, <1>7, <2>1, <2>2, <2>3, <2>4, OwnSessionStep
<1> QED
  BY <1>6, <1>7 DEF Deliver

(* close begins: nothing but the runner's own state changes.               *)
LEMMA CloseIInv == ASSUME IInv, Close PROVE IInv'
<1> USE DEF IInv
<1>1. /\ phase = "idle" /\ closed' = TRUE /\ phase' = "closing"
      /\ UNCHANGED <<pool, transient, driver, poisoned, request, answer, ownerBound>>
  BY DEF Close
<1>2. PoolOK /\ DriverOK /\ ControlOK /\ AllIntact /\ NoneOutgrown
  BY <1>1, TypeOKParts, Intact, Scored
<1>3. PoolOK' /\ QuotaHeld' /\ Cached' = Cached /\ entry' = entry
  BY <1>1, <1>2, PoolUnchanged
<1>4. DriverOK' /\ NoOrphanSession'
  BY <1>1, <1>2, <1>3, DriverUnchanged DEF DriverOK
<1>5. ControlOK'
  BY <1>1, <1>2 DEF ControlOK, Phase
<1>6. UnusedSessionIntact' /\ OutgrownNotReused'
  <2>1. AllIntact' /\ NoneOutgrown'
    BY <1>1, <1>2, <1>3, NoneOutgrownKept DEF AllIntact, driver
  <2> QED
    BY <1>1, <2>1, Intact, Scored
<1>7. RequestHasItsSession' /\ RequestIsPossible' /\ RequestProgress'
  BY <1>1 DEF RequestHasItsSession, RequestIsPossible, RequestProgress, Serving
<1>8. ServedFromOwnHistory'
  BY <1>1 DEF ServedFromOwnHistory
<1>9. OwnerOutlivesSessions' /\ UnboundIsFinal'
  BY <1>1 DEF OwnerOutlivesSessions, UnboundIsFinal
<1> QED
  BY <1>3, <1>4, <1>5, <1>6, <1>7, <1>8, <1>9, TypeOKParts

(* The owner is unbound over an empty pool, and so over an empty runtime.  *)
LEMMA UnbindIInv == ASSUME IInv, Unbind PROVE IInv'
<1> USE DEF IInv
<1>1. /\ phase = "closing" /\ lru = <<>>
      /\ UNCHANGED <<pool, transient, driver, answer, closed>>
      /\ \/ Succeeds /\ ownerBound' = FALSE /\ Goto("complete")
         \/ Fails /\ Done /\ UNCHANGED ownerBound
  BY DEF Unbind
<1>2. PoolOK /\ DriverOK /\ ControlOK /\ AllIntact /\ NoneOutgrown
  BY <1>1, TypeOKParts, Intact, Scored
<1>3. PoolOK' /\ QuotaHeld' /\ Cached' = Cached /\ entry' = entry
  BY <1>1, <1>2, PoolUnchanged
<1>4. DriverOK' /\ NoOrphanSession'
  <2>1. poisoned' \in BOOLEAN
    BY <1>1, <1>2 DEF Succeeds, Fails, DriverOK
  <2> QED
    BY <1>1, <1>2, <1>3, <2>1, DriverUnchanged
<1>5. phase' \in {"idle", "complete"} /\ request' = None
  BY <1>1, <1>2 DEF Goto, Done, ControlOK
<1>6. ControlOK'
  BY <1>1, <1>2, <1>5 DEF ControlOK, Phase
<1>7. UnusedSessionIntact' /\ OutgrownNotReused'
  <2>1. AllIntact' /\ NoneOutgrown'
    BY <1>1, <1>2, <1>3, NoneOutgrownKept DEF AllIntact, driver
  <2> QED
    BY <1>5, <2>1, Intact, Scored
<1>8. RequestHasItsSession' /\ RequestIsPossible' /\ RequestProgress'
  BY <1>5 DEF RequestHasItsSession, RequestIsPossible, RequestProgress, Serving
<1>9. ServedFromOwnHistory'
  BY <1>1 DEF ServedFromOwnHistory
<1>10. Sessions(live') = {}
  <2>1. Cached = {}
    BY <1>1, <1>2 DEF PoolOK, Range
  <2> QED
    BY <1>1, <2>1 DEF NoOrphanSession, driver
<1>11. closed'
  BY <1>1 DEF OwnerOutlivesSessions
<1>12. OwnerOutlivesSessions'
  BY <1>10, <1>11 DEF OwnerOutlivesSessions
<1>13. UnboundIsFinal'
  BY <1>1 DEF UnboundIsFinal, Goto
<1> QED
  BY <1>3, <1>4, <1>6, <1>7, <1>8, <1>9, <1>12, <1>13, TypeOKParts

(* A step that changes nothing. *)
LEMMA StutterIInv == ASSUME IInv, UNCHANGED vars PROVE IInv'
<1> USE DEF IInv
<1>1. UNCHANGED <<pool, transient, driver, poisoned, control, answer, runner>>
  BY DEF vars
<1>2. PoolOK /\ DriverOK /\ ControlOK
  BY TypeOKParts
<1>3. PoolOK' /\ QuotaHeld' /\ Cached' = Cached /\ entry' = entry
  BY <1>1, <1>2, PoolUnchanged
<1>4. DriverOK' /\ NoOrphanSession'
  BY <1>1, <1>2, <1>3, DriverUnchanged DEF DriverOK
<1>5. ControlOK'
  BY <1>1, <1>2 DEF ControlOK, control, runner
<1>6. RequestHasItsSession' /\ RequestIsPossible'
  BY <1>1, <1>3 DEF RequestHasItsSession, RequestIsPossible, requestPlan, PlanSession, control
<1>7. RequestProgress' /\ UnusedSessionIntact' /\ OutgrownNotReused'
  BY <1>1, <1>3 DEF RequestProgress, UnusedSessionIntact, OutgrownNotReused, InUse, CanRun,
                    Length, current, control, driver
<1>8. ServedFromOwnHistory' /\ OwnerOutlivesSessions' /\ UnboundIsFinal'
  BY <1>1 DEF ServedFromOwnHistory, OwnerOutlivesSessions, UnboundIsFinal,
              Sessions, driver, control, runner
<1> QED
  BY <1>3, <1>4, <1>5, <1>6, <1>7, <1>8, TypeOKParts

(* Every step keeps the inductive invariant. *)
LEMMA NextIInv == IInv /\ [Next]_vars => IInv'
<1> SUFFICES ASSUME IInv, [Next]_vars PROVE IInv'
  OBVIOUS
<1>1. ASSUME NEW r \in Request, Execute(r) PROVE IInv'
  BY <1>1, ExecuteIInv
<1>2. CASE Close
  BY <1>2, CloseIInv
<1>3. CASE Evict
  BY <1>3, EvictIInv
<1>4. CASE Allocate
  BY <1>4, AllocateIInv
<1>5. CASE AuditAdmission
  BY <1>5, AuditAdmissionIInv
<1>6. CASE Admitted
  BY <1>6, AdmittedIInv
<1>7. CASE Prefill
  BY <1>7, PrefillIInv
<1>8. CASE Publish
  BY <1>8, PublishIInv
<1>9. CASE Rejected
  BY <1>9, RejectedIInv
<1>10. CASE Candidates
  BY <1>10, CandidatesIInv
<1>11. CASE Finish
  BY <1>11, FinishIInv
<1>12. CASE Deliver
  BY <1>12, DeliverIInv
<1>13. CASE DiscardFailed
  BY <1>13, DiscardFailedIInv
<1>14. CASE CloseEntry
  BY <1>14, CloseEntryIInv
<1>15. CASE Unbind
  BY <1>15, UnbindIInv
<1>16. CASE UNCHANGED vars
  BY <1>16, StutterIInv
<1> QED
  BY <1>1, <1>2, <1>3, <1>4, <1>5, <1>6, <1>7, <1>8, <1>9, <1>10, <1>11, <1>12,
     <1>13, <1>14, <1>15, <1>16 DEF Next, Running

-----------------------------------------------------------------------------
(* The theorems. *)

(* The inductive invariant holds in every reachable state. *)
THEOREM Invariant == Spec => []IInv
  BY InitIInv, NextIInv, PTL DEF Spec

(* Types, and that a request is being executed exactly in its phases. *)
THEOREM TypeCorrect == Spec => []TypeOK
<1>1. IInv => TypeOK
  BY DEF IInv
<1> QED
  BY <1>1, Invariant, PTL

(* An answer, from a fresh session or a retained one, is computed from     *)
(* exactly the history of its own request: all of it, and no candidate of  *)
(* an earlier request (execute of serving/persistent.py).                  *)
THEOREM AnswersOwnHistory == Spec => []ServedFromOwnHistory
<1>1. IInv => ServedFromOwnHistory
  BY DEF IInv
<1> QED
  BY <1>1, Invariant, PTL

(* No failure of a driver call, of a release or of a roll-back makes the   *)
(* runtime's live sessions differ from those the pool charges for.         *)
THEOREM SessionsAccounted == Spec => []NoOrphanSession
<1>1. IInv => NoOrphanSession
  BY DEF IInv
<1> QED
  BY <1>1, Invariant, PTL

(* The plans of the cached sessions never exceed the byte budget nor the   *)
(* pages, for any sizes of plans (acquire of serving/prefix_pool.py).      *)
THEOREM QuotaRespected == Spec => []QuotaHeld
<1>1. IInv => QuotaHeld
  BY DEF IInv
<1> QED
  BY <1>1, Invariant, PTL

(* A session the next request may run on holds its planned history and     *)
(* nothing else, whatever failed since it was built.                       *)
THEOREM ReuseIsSafe == Spec => []ReusableSessionIntact
<1>1. IInv => ReusableSessionIntact
  BY DEF IInv, UnusedSessionIntact, InUse, ReusableSessionIntact
<1> QED
  BY <1>1, Invariant, PTL

(* Unbinding the owner leaves no session behind, and a runner that began   *)
(* to close never serves again (close of serving/persistent.py).           *)
THEOREM OwnerReleasedLast == Spec => []OwnerOutlivesSessions
<1>1. IInv => OwnerOutlivesSessions
  BY DEF IInv
<1> QED
  BY <1>1, Invariant, PTL

(* No session scores a second request after it outgrew its reservation,    *)
(* whatever failed and however late it was noticed: the request that made  *)
(* it grow marks it before it ends, or takes it away (the two audits of    *)
(* execute, 203-209, and candidate's except clause).                       *)
THEOREM OutgrownSessionsRetire == Spec => []OutgrownNotReused
<1>1. IInv => OutgrownNotReused
  BY DEF IInv
<1> QED
  BY <1>1, Invariant, PTL
=============================================================================
