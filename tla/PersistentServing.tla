-------------------------- MODULE PersistentServing --------------------------
(***************************************************************************)
(* serving/persistent.py (PersistentGRRunner) over executor/runtime.py     *)
(* (TokenRuntime) over a driver (executor/adapters.py, BackendAdapter):    *)
(* one request at a time, its history kept in the user's session between   *)
(* requests, its candidate suffix never.                                   *)
(*                                                                         *)
(* Execution is serial; what makes it hard is that every driver call may   *)
(* fail, that some failures leave tokens behind, and that the release in   *)
(* the failure path may fail as well.  One action per driver call, so that *)
(* each failure finds the state the code has at that point.  A failed      *)
(* driver call may also poison the backend (see ResourceLifecycle), after  *)
(* which every driver call fails, but not synchronize, which asks nobody.  *)
(***************************************************************************)
EXTENDS PrefixSessionPool

CONSTANTS
  Candidate,    (* the numbers of candidate tokens a request may have      *)
  ChunkTokens   (* the backend's chunk size                                *)

ASSUME CandidateAssumption ==
  Candidate \subseteq Nat \ {0} /\ ChunkTokens \in Nat \ {0}

VARIABLES
  transient,     (* driver.candidate_mode = "gpu_transient"                *)
  live,          (* runtime._sessions: per session its plan and `failed`,  *)
                 (* or None                                                *)
  content,       (* driver: the history a session was built from, how many *)
                 (* of its tokens and how many suffix tokens it holds      *)
  over,          (* sessions whose measured use exceeds their reservation  *)
  poisoned,      (* the backend's lifecycle is poisoned                    *)
  phase,         (* where execute or close stands                          *)
  request,       (* the request being executed, or None                    *)
  answer,        (* the last request's answer and what it was computed     *)
                 (* from, or None; a history variable                      *)
  closed,        (* runner.closed                                          *)
  ownerBound     (* runner._owner_bound                                    *)

pool    == <<lru, entry>>
driver  == <<live, content, over>>
control == <<phase, request>>
runner  == <<closed, ownerBound>>
vars == <<pool, transient, driver, poisoned, control, answer, runner>>

Request == [user : User, history : History, candidate : Candidate]

LiveSession == [plan : Plan, failed : BOOLEAN]

Content == [of : History \cup {None}, tokens : Nat, suffix : Nat]

Answer == [request : Request, from : Content]

ASSUME NoneAssumption == None \notin Request \cup Entry \cup LiveSession \cup Answer

Phase == {"idle", "evict", "allocated", "admitted", "prefill", "built",
          "candidate", "executed", "cleaned", "discard", "closing", "complete"}

Empty == [of |-> None, tokens |-> 0, suffix |-> 0]

Full(h) == [of |-> h, tokens |-> HistoryTokens[h], suffix |-> 0]

(* How much of n tokens a call that fails may have committed: whole chunks *)
(* (executor/model_executor.py, run_chunks), and nothing once poisoned.    *)
Partial(n) ==
  IF poisoned THEN {0} ELSE {k \in 0 .. n : k = n \/ k % ChunkTokens = 0}

Length(s) == content[s].tokens + content[s].suffix

PlanSession(r) ==
  [history |-> r.history,
   capacity |-> HistoryTokens[r.history] + (IF transient THEN 0 ELSE r.candidate)]

requestPlan == PlanSession(request)
current == entry[request.user].session

Init ==
  /\ PoolInit
  /\ transient \in BOOLEAN
  /\ live = [s \in Session |-> None]
  /\ content = [s \in Session |-> Empty]
  /\ over = {}
  /\ poisoned = FALSE
  /\ phase = "idle"
  /\ request = None
  /\ answer = None
  /\ closed = FALSE
  /\ ownerBound = TRUE

-----------------------------------------------------------------------------
(* Driver outcomes. *)

Succeeds == ~poisoned /\ UNCHANGED poisoned
Fails    == poisoned' \in {poisoned, TRUE}

Goto(p) == phase' = p /\ UNCHANGED request
Done    == phase' = "idle" /\ request' = None

MarkFailedMutant(s) == UNCHANGED live
MarkFailed(s) == live' = [live EXCEPT ![s].failed = TRUE]

(* A driver call that works on a session, also one that fails, may leave   *)
(* it with more than its reservation; only an audit notices.               *)
MayOutgrow(s) == over' \in {over, over \cup {s}}

(* pool.discard: the release callback first, and the entry only after it. *)
DiscardMutant(u) ==
  LET s == entry[u].session IN
  /\ Delete(u)
  /\ \/ /\ Succeeds
        /\ live' = [live EXCEPT ![s] = None]
        /\ content' = [content EXCEPT ![s] = Empty]
        /\ over' = over \ {s}
     \/ Fails /\ UNCHANGED driver

Discard(u) ==
  LET s == entry[u].session IN
  \/ /\ Succeeds
     /\ Delete(u)
     /\ live' = [live EXCEPT ![s] = None]
     /\ content' = [content EXCEPT ![s] = Empty]
     /\ over' = over \ {s}
  \/ Fails /\ UNCHANGED <<pool, driver>>

Discarded(u) == entry'[u] = None

-----------------------------------------------------------------------------
(* pool.acquire. *)

Execute(r) ==
  /\ phase = "idle"
  /\ ~closed
  /\ Possible(PlanSession(r))
  /\ request' = r
  /\ answer' = None
  /\ IF Reusable(r.user, PlanSession(r))
       THEN Touch(r.user) /\ phase' = "admitted"
       ELSE UNCHANGED pool /\ phase' = "evict"
  /\ UNCHANGED <<transient, driver, poisoned, runner>>

Stale == entry[request.user] # None
Victim == IF Stale THEN request.user ELSE Head(lru)
MustEvict == Stale \/ ~Fits(requestPlan)

EvictRetriesMutant ==
  /\ phase = "evict"
  /\ MustEvict
  /\ Discard(Victim)
  /\ UNCHANGED <<control, transient, answer, runner>>

(* Give up the user's own unusable entry, then least recent users.  A      *)
(* failed release leaves acquire, and so execute, with everything retained.*)
Evict ==
  /\ phase = "evict"
  /\ MustEvict
  /\ Discard(Victim)
  /\ IF Discarded(Victim) THEN UNCHANGED control ELSE Done
  /\ UNCHANGED <<transient, answer, runner>>

Allocate ==
  /\ phase = "evict"
  /\ ~MustEvict
  /\ \/ \E s \in {x \in Session : live[x] = None} :
          /\ Succeeds
          /\ live' = [live EXCEPT ![s] = [plan |-> requestPlan, failed |-> FALSE]]
          /\ over' \in {over, over \cup {s}}
          /\ Insert(request.user, s, requestPlan)
          /\ Goto("allocated")
     \/ Fails /\ Done /\ UNCHANGED <<pool, live, over>>
  /\ UNCHANGED <<transient, content, answer, runner>>

(* The audit that ends an admission.  It runs before execute's `try`: its  *)
(* failure discards the new entry itself and leaves.                       *)
AuditAdmission ==
  /\ phase = "allocated"
  /\ IF over = {}
       THEN Goto("admitted") /\ UNCHANGED <<pool, driver, poisoned>>
       ELSE Discard(request.user) /\ Done
  /\ UNCHANGED <<transient, answer, runner>>

(* execute's `try` begins with a synchronise, which may fail.              *)
Admitted ==
  /\ phase = "admitted"
  /\ \/ Goto(IF entry[request.user].ready THEN "candidate" ELSE "prefill")
     \/ Goto("discard")
  /\ UNCHANGED <<pool, transient, driver, poisoned, answer, runner>>

-----------------------------------------------------------------------------
(* runtime.prefill, then mark_ready.  A failed prefill leaves the chunks   *)
(* that were already committed.                                            *)

Prefill ==
  /\ phase = "prefill"
  /\ Length(current) = 0
  /\ LET h == request.history
         built(n) == [of |-> h, tokens |-> n, suffix |-> 0] IN
     \/ /\ Succeeds
        /\ content' = [content EXCEPT ![current] = Full(h)]
        /\ Goto("built")
        /\ UNCHANGED live
     \/ \E n \in Partial(HistoryTokens[h]) :
        /\ Fails
        /\ content' = [content EXCEPT ![current] = built(n)]
        /\ MarkFailed(current)
        /\ Goto("discard")
  /\ MayOutgrow(current)
  /\ UNCHANGED <<pool, transient, answer, runner>>

(* The synchronise between prefill and mark_ready is outside the runtime:  *)
(* its failure discards the session without marking it failed.             *)
Publish ==
  /\ phase = "built"
  /\ \/ MarkReady(request.user) /\ Goto("candidate")
     \/ Goto("discard") /\ UNCHANGED pool
  /\ UNCHANGED <<transient, driver, poisoned, answer, runner>>

-----------------------------------------------------------------------------
(* runtime.candidate. *)

CanRun(s) ==
  /\ ~live[s].failed
  /\ Length(s) = HistoryTokens[live[s].plan.history]
  /\ transient \/ Length(s) + request.candidate <= live[s].plan.capacity

Rejected ==
  /\ phase = "candidate"
  /\ ~CanRun(current)
  /\ Goto("discard")
  /\ UNCHANGED <<pool, transient, driver, poisoned, answer, runner>>

(* What the suffix leaves in the session: nothing when it is transient,    *)
(* all of it when it was appended, and any part of it when that failed.    *)
Candidates ==
  LET suffix(n) == [content EXCEPT ![current].suffix = n]
      appended == IF transient THEN 0 ELSE request.candidate IN
  /\ phase = "candidate"
  /\ CanRun(current)
  /\ \/ /\ Succeeds
        /\ content' = suffix(appended)
        /\ answer' = [request |-> request, from |-> content[current]]
        /\ Goto("executed")
        /\ UNCHANGED live
     \/ /\ Fails
        /\ \E n \in Partial(appended) : content' = suffix(n)
        /\ MarkFailed(current)
        /\ Goto("discard")
        /\ UNCHANGED answer
  /\ MayOutgrow(current)
  /\ UNCHANGED <<pool, transient, runner>>

(* observer("executed") audits, then finish_candidate truncates; a failure *)
(* may come before or after the truncation.  The driver is not trusted: it *)
(* may return with the suffix still there, or with more than was reserved. *)
Finish ==
  LET truncated == [content EXCEPT ![current].suffix = 0] IN
  /\ phase = "executed"
  /\ \/ /\ over = {}
        /\ Succeeds
        /\ content' \in {content, truncated}
        /\ MayOutgrow(current)
        /\ Goto("cleaned")
        /\ UNCHANGED live
     \/ /\ IF over = {}
             THEN Fails /\ content' \in {content, truncated} /\ MayOutgrow(current)
             ELSE UNCHANGED <<poisoned, content, over>>
        /\ MarkFailed(current)
        /\ Goto("discard")
  /\ UNCHANGED <<pool, transient, answer, runner>>

(* The length check, observer("cleaned") and its audit, and the return.    *)
(* The diagnostics read on the way out may still raise, but change nothing.*)
DeliverUnmarkedMutant ==
  /\ phase = "cleaned"
  /\ IF /\ Length(current) = HistoryTokens[live[current].plan.history]
        /\ over = {}
       THEN Done
       ELSE Goto("discard")
  /\ UNCHANGED <<pool, transient, driver, poisoned, answer, runner>>

Deliver ==
  /\ phase = "cleaned"
  /\ IF /\ Length(current) = HistoryTokens[live[current].plan.history]
        /\ over = {}
       THEN Done /\ UNCHANGED live
       ELSE MarkFailed(current) /\ Goto("discard")
  /\ UNCHANGED <<pool, transient, content, over, poisoned, answer, runner>>

(* execute's except clause. *)
DiscardFailed ==
  /\ phase = "discard"
  /\ Discard(request.user)
  /\ Done
  /\ UNCHANGED <<transient, answer, runner>>

-----------------------------------------------------------------------------
(* runner.close, which may be called again after it failed.                *)

Close ==
  /\ phase = "idle"
  /\ closed' = TRUE
  /\ phase' = "closing"
  /\ UNCHANGED <<pool, transient, driver, poisoned, request, answer, ownerBound>>

CloseEntry ==
  /\ phase = "closing"
  /\ lru # <<>>
  /\ Discard(Head(lru))
  /\ IF Discarded(Head(lru)) THEN UNCHANGED control ELSE Done
  /\ UNCHANGED <<transient, answer, runner>>

Unbind ==
  /\ phase = "closing"
  /\ lru = <<>>
  /\ \/ Succeeds /\ ownerBound' = FALSE /\ Goto("complete")
     \/ Fails /\ Done /\ UNCHANGED ownerBound
  /\ UNCHANGED <<pool, transient, driver, answer, closed>>

-----------------------------------------------------------------------------
Running ==
  \/ Evict \/ Allocate \/ AuditAdmission \/ Admitted
  \/ Prefill \/ Publish \/ Rejected
  \/ Candidates \/ Finish \/ Deliver \/ DiscardFailed \/ CloseEntry \/ Unbind

Next ==
  \/ \E r \in Request : Execute(r)
  \/ Close
  \/ Running

(* The runner's thread goes on once it has been called; nobody has to call *)
(* it.                                                                     *)
Spec == Init /\ [][Next]_vars /\ WF_vars(Running)

-----------------------------------------------------------------------------
(* Properties. *)

Sessions(state) == {s \in Session : state[s] # None}

(* The types, and that a request is being executed exactly in its phases.  *)
TypeOK ==
  /\ lru \in Seq(User) /\ IsInjective(lru) /\ Range(lru) = Cached
  /\ entry \in [User -> Entry \cup {None}]
  /\ transient \in BOOLEAN
  /\ live \in [Session -> LiveSession \cup {None}]
  /\ content \in [Session -> Content]
  /\ over \in SUBSET Session
  /\ poisoned \in BOOLEAN
  /\ phase \in Phase
  /\ request \in Request \cup {None}
  /\ request = None <=> phase \in {"idle", "closing", "complete"}
  /\ answer \in Answer \cup {None}
  /\ closed \in BOOLEAN
  /\ ownerBound \in BOOLEAN

(* Every answer, from a fresh session or from a retained one, is computed  *)
(* from exactly the history of its own request: complete, and with nothing *)
(* left over from the candidates of an earlier request that was truncated, *)
(* failed, or could not be cleaned up (execute, 195-229).                  *)
ServedFromOwnHistory ==
  answer # None => answer.from = Full(answer.request.history)

(* The pool and the runtime agree: the runtime's live sessions are exactly *)
(* those the pool charges for, one per entry and with the same plan.  No   *)
(* failure of a release, an audit or a roll-back loses a session or keeps  *)
(* the charge of one that is gone (discard, 128-132: release, then del).   *)
NoOrphanSession ==
  /\ Sessions(live) = {entry[u].session : u \in Cached}
  /\ \A u, v \in Cached : entry[u].session = entry[v].session => u = v
  /\ \A u \in Cached : live[entry[u].session].plan = entry[u].plan

(* A session that the next request may run on holds its planned history    *)
(* and nothing else, unless the runtime will refuse it.  The pool's        *)
(* `ready` outlives a failed request whose discard failed, so only the     *)
(* runtime's `failed` flag and the length check stand in between.          *)
ReusableSessionIntact ==
  \A u \in Cached :
    LET s == entry[u].session IN
    entry[u].ready /\ ~live[s].failed /\ phase \notin {"executed", "cleaned"}
      => content[s] = Full(entry[u].plan.history)

(* While the owner is unbound no session of its runner is left, so the     *)
(* backend may be handed to another runner or closed, and the retire that  *)
(* follows the unbind cannot refuse; and a runner that began to close      *)
(* never serves again, however its close failed.                           *)
OwnerOutlivesSessions ==
  /\ ~ownerBound => closed /\ Sessions(live) = {}
  /\ phase \in {"closing", "complete"} => closed

(* A session that outgrew its reservation never scores a second request,   *)
(* though its entry stays when its release fails, in the index and with    *)
(* its `ready`, and nobody measures it before the scoring: the request     *)
(* that made it grow is not over before an audit has found it and the      *)
(* runtime has marked it (observer in execute, 203-209; candidate's except *)
(* clause).                                                                *)
OutgrownNotReused ==
  \A u \in Cached :
    LET s == entry[u].session
        scoring == phase \in {"candidate", "executed", "cleaned"} /\ u = request.user IN
    s \in over /\ entry[u].ready /\ ~live[s].failed => scoring

(* Every request and every close comes to an end, by success or by an      *)
(* error: no failure makes the eviction or the clean-up loop retry.        *)
RequestEnds == phase \notin {"idle", "complete"} ~> phase \in {"idle", "complete"}
=============================================================================
