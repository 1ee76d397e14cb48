-------------------------- MODULE ResourceLifecycle --------------------------
(***************************************************************************)
(* cache/lifecycle.py: who may use a backend's shared storage, and when.   *)
(*                                                                         *)
(* A backend (DeepSeekServingBackend, NosaExecutionResources) owns shared  *)
(* storage and asks one ResourceLifecycle before it allocates, registers,  *)
(* runs, releases or closes.  The provider half of a call (allocation, the *)
(* release callback, the drain of an operation) may fail; a failure whose  *)
(* completion is unknown poisons the lifecycle.                            *)
(*                                                                         *)
(* Execution is serial: between Begin and End only calls made from inside  *)
(* the operation's body can run, and the body may call anything.  A call   *)
(* that the code rejects changes nothing and is no step here.              *)
(***************************************************************************)
EXTENDS Naturals

CONSTANTS
  Session,        (* session objects                                       *)
  Owner,          (* admission owners (a PersistentGRRunner, a GRRunner)   *)
  Plan,           (* resource plans                                        *)
  None,           (* Python's None: no plan, no owner, no session, no kind *)
  MaxGeneration,  (* bound on `generation`                                 *)
  MaxBindings     (* bound on the number of bind_owner calls               *)

ASSUME ConstantsAssumption ==
  /\ None \notin Session \cup Owner \cup Plan \cup Nat
  /\ None \notin {"execution", "mutation", "release"}
  /\ MaxGeneration \in Nat
  /\ MaxBindings \in Nat

VARIABLES
  plan,           (* lifecycle.plan                                        *)
  generation,     (* lifecycle.generation                                  *)
  sessions,       (* lifecycle._sessions                                   *)
  owner,          (* lifecycle._admission_owner                            *)
  binding,        (* lifecycle._owner_identity: object() is numbered       *)
  bindings,       (* how many owner identities have been made              *)
  initialPlan,    (* lifecycle.admission_initial_plan                      *)
  active,         (* lifecycle._active_session                             *)
  kind,           (* lifecycle.active_kind                                 *)
  locked,         (* lifecycle._lock is held                               *)
  poisoned,
  closed,
  registration,   (* the SessionRegistration and storage plan a session    *)
                  (* carries; kept by the session object after its release *)
  storage         (* the provider's reachable storage: the plan it was     *)
                  (* built from, or None                                   *)

admission == <<owner, binding, bindings, initialPlan>>
lease     == <<active, kind, locked>>
vars == <<plan, generation, sessions, admission, lease, poisoned, closed,
          registration, storage>>

Kind == {"execution", "mutation", "release"}

Registration ==
  [generation : 0 .. MaxGeneration, binding : 1 .. MaxBindings \cup {None},
   plan : Plan \cup {None}]

Init ==
  /\ plan = None
  /\ generation = 0
  /\ sessions = {}
  /\ owner = None
  /\ binding = None
  /\ bindings = 0
  /\ initialPlan = None
  /\ active = None
  /\ kind = None
  /\ locked = FALSE
  /\ poisoned = FALSE
  /\ closed = FALSE
  /\ registration = [s \in Session |-> None]
  /\ storage = None

-----------------------------------------------------------------------------
(* The checks: read-only, and a raise means that the caller stops. *)

CheckAccessMutant(caller, allowClosed) ==
  /\ closed => allowClosed
  /\ caller = owner

CheckAccess(caller, allowClosed) ==
  /\ ~poisoned
  /\ closed => allowClosed
  /\ caller = owner

QuiescentMutant == active = None

(* "sessions or active_session is not None", the refusal of every call     *)
(* that changes what the sessions stand on.                                *)
Quiescent == sessions = {} /\ active = None

CheckSession(s) ==
  /\ s \in sessions
  /\ registration[s].generation = generation

CheckExecution(s) ==
  /\ ~poisoned
  /\ active = s
  /\ kind = "execution"

CheckMutationMutant(s, releasing) ==
  /\ ~poisoned
  /\ IF active = None THEN CheckAccess(None, FALSE) ELSE active = s

CheckMutation(s, releasing) ==
  /\ ~poisoned
  /\ IF active = None
       THEN CheckAccess(None, FALSE)
       ELSE active = s /\ (releasing => kind = "release")

-----------------------------------------------------------------------------
(* Owners and plans. *)

BindOwner(o) ==
  /\ bindings < MaxBindings
  /\ ~poisoned
  /\ owner = None
  /\ Quiescent
  /\ owner' = o
  /\ bindings' = bindings + 1
  /\ binding' = bindings + 1
  /\ initialPlan' = plan
  /\ closed' = FALSE
  /\ UNCHANGED <<plan, generation, sessions, lease, poisoned, registration,
                 storage>>

(* The provider's release callback: it refuses a poisoned lifecycle, frees *)
(* every pool and drops the plan, or fails part way, keeps the storage     *)
(* reachable and poisons.                                                  *)
ReleaseShared ==
  /\ ~poisoned
  /\ \/ /\ storage' = None
        /\ plan' = None
        /\ UNCHANGED poisoned
     \/ /\ poisoned' = TRUE
        /\ UNCHANGED <<storage, plan>>

ClearOwner ==
  /\ owner' = None
  /\ binding' = None
  /\ initialPlan' = None
  /\ UNCHANGED bindings

RollbackReleasesMutant(rollback) == rollback

RollbackReleases(rollback) == rollback /\ initialPlan = None

UnbindOwner(o, rollback) ==
  /\ owner = o
  /\ Quiescent
  /\ CheckAccess(o, FALSE)
  /\ IF RollbackReleases(rollback)
       THEN /\ ReleaseShared
            /\ IF poisoned' THEN UNCHANGED admission ELSE ClearOwner
       ELSE /\ ClearOwner
            /\ UNCHANGED <<storage, plan, poisoned>>
  /\ UNCHANGED <<generation, sessions, lease, closed, registration>>

Allocated(p, caller) ==
  /\ CheckAccess(caller, TRUE)
  /\ Quiescent
  /\ plan = None
  /\ plan' = p
  /\ generation' = generation + 1
  /\ closed' = FALSE

(* The provider builds its storage and only then publishes the plan.  A    *)
(* failed construction that is cleaned up leaves no trace; one whose       *)
(* clean-up fails too keeps the partial storage and poisons.               *)
AllocateShared(p, caller) ==
  /\ generation < MaxGeneration
  /\ CheckAccess(caller, TRUE)
  /\ plan = None /\ storage = None
  /\ Quiescent
  /\ storage' = p
  /\ \/ Allocated(p, caller) /\ UNCHANGED poisoned
     \/ poisoned' = TRUE /\ UNCHANGED <<plan, generation, closed>>
  /\ UNCHANGED <<sessions, admission, lease, registration>>

Close ==
  /\ Quiescent
  /\ owner = None
  /\ CheckAccess(None, TRUE)
  /\ ~closed
  /\ ReleaseShared
  /\ closed' = ~poisoned'
  /\ UNCHANGED <<generation, sessions, admission, lease, registration>>

-----------------------------------------------------------------------------
(* Sessions and their operations. *)

Reopen == closed

Register(s, caller, allowUnplanned) ==
  /\ CheckAccess(caller, allowUnplanned)
  /\ plan = None => allowUnplanned
  /\ s \notin sessions
  /\ Reopen => plan = None /\ Quiescent /\ generation < MaxGeneration
  /\ generation' = generation + (IF Reopen THEN 1 ELSE 0)
  /\ closed' = FALSE
  /\ sessions' = sessions \cup {s}
  /\ registration' = [registration EXCEPT ![s] =
       [generation |-> generation', binding |-> binding, plan |-> plan]]
  /\ UNCHANGED <<plan, admission, lease, poisoned, storage>>

Detach(s) ==
  /\ s \in sessions
  /\ CheckMutation(s, TRUE)
  /\ sessions' = sessions \ {s}
  /\ UNCHANGED <<plan, generation, admission, lease, poisoned, closed,
                 registration, storage>>

Begin(s, caller, k) ==
  /\ CheckSession(s)
  /\ CheckAccess(caller, FALSE)
  /\ ~locked
  /\ active = None
  /\ locked' = TRUE
  /\ active' = s
  /\ kind' = k
  /\ UNCHANGED <<plan, generation, sessions, admission, poisoned, closed,
                 registration, storage>>

EndKeepsKindMutant ==
  /\ locked
  /\ locked' = FALSE
  /\ active' = None
  /\ UNCHANGED <<plan, generation, sessions, admission, kind, poisoned, closed,
                 registration, storage>>

EndAlwaysClearsMutant ==
  /\ locked
  /\ locked' = FALSE
  /\ \/ UNCHANGED poisoned
     \/ kind = "execution" /\ poisoned' = TRUE
  /\ active' = None /\ kind' = None
  /\ UNCHANGED <<plan, generation, sessions, admission, closed, registration,
                 storage>>

(* The way out of the `with` block, after a complete body, a failed body   *)
(* or a failed prepare: drain (executions only), then give up the session  *)
(* unless somebody poisoned the lifecycle, then the lock in any case.      *)
End ==
  /\ locked
  /\ locked' = FALSE
  /\ \/ UNCHANGED poisoned
     \/ kind = "execution" /\ poisoned' = TRUE
  /\ IF poisoned' THEN UNCHANGED <<active, kind>>
                  ELSE active' = None /\ kind' = None
  /\ UNCHANGED <<plan, generation, sessions, admission, closed, registration,
                 storage>>

(* A provider that cannot establish completion: a failed synchronise, a    *)
(* failed roll-back, a failed clean-up after a failed registration.        *)
Poison ==
  /\ ~poisoned
  /\ poisoned' = TRUE
  /\ UNCHANGED <<plan, generation, sessions, admission, lease, closed,
                 registration, storage>>

Next ==
  \/ \E o \in Owner : BindOwner(o)
  \/ \E o \in Owner, rollback \in BOOLEAN : UnbindOwner(o, rollback)
  \/ \E p \in Plan, caller \in Owner \cup {None} : AllocateShared(p, caller)
  \/ Close
  \/ \E s \in Session, caller \in Owner \cup {None}, unplanned \in BOOLEAN :
        Register(s, caller, unplanned)
  \/ \E s \in Session : Detach(s)
  \/ \E s \in Session, caller \in Owner \cup {None}, k \in Kind :
        Begin(s, caller, k)
  \/ End
  \/ Poison

Spec == Init /\ [][Next]_vars

-----------------------------------------------------------------------------
(* Properties. *)

Paired ==
  /\ active = None <=> kind = None
  /\ owner = None <=> binding = None
  /\ locked => active # None

(* The types, with what always goes together: a lease has a session and a  *)
(* kind, a binding has an owner, and the lock is held only for a lease.    *)
TypeOK ==
  /\ plan \in Plan \cup {None}
  /\ generation \in 0 .. MaxGeneration
  /\ sessions \in SUBSET Session
  /\ owner \in Owner \cup {None}
  /\ bindings \in 0 .. MaxBindings
  /\ binding \in 1 .. bindings \cup {None}
  /\ initialPlan \in Plan \cup {None}
  /\ active \in Session \cup {None}
  /\ kind \in Kind \cup {None}
  /\ locked \in BOOLEAN
  /\ poisoned \in BOOLEAN
  /\ closed \in BOOLEAN
  /\ registration \in [Session -> Registration \cup {None}]
  /\ storage \in Plan \cup {None}
  /\ Paired

(* A session that is still registered stands on the plan, the generation   *)
(* and the owner binding it was registered under: no sequence of close,    *)
(* allocate, bind, roll back and reopen slips new storage or a new owner   *)
(* under a live session, so check_session's generation test (line 159)     *)
(* never rejects one and never has to.                                     *)
LiveSessionsCurrent ==
  \A s \in sessions :
    registration[s] = [generation |-> generation, binding |-> binding,
                       plan |-> plan]

(* An execution or a mutation runs on a session that is still registered:  *)
(* nothing its body calls can release the session under it.  Only a        *)
(* release operation outlives the registration of its session.             *)
OperationOnLiveSession ==
  active # None => active \in sessions \/ kind = "release"

(* Storage that an owner found when it bound is never freed or replaced    *)
(* while it is bound, nor by the unbinding itself, whether or not that is  *)
(* a construction roll-back (unbind_owner, line 97).                       *)
PriorPlanSurvives ==
  [][initialPlan # None => plan' = plan /\ storage' = storage]_vars

(* A failed completion keeps the active session, the owner, the registered *)
(* sessions and the storage reachable: nothing frees or hands over what a  *)
(* device may still be writing.                                            *)
PoisonIsFinal ==
  [][poisoned => /\ poisoned'
                 /\ UNCHANGED <<active, kind, owner, sessions, plan, storage>>
    ]_vars

Exclusive == INSTANCE ExclusiveStorage
  WITH store <- storage, users <- sessions, busy <- active, broken <- poisoned

(* The lifecycle implements the exclusive store of ExclusiveStorage: one   *)
(* operation at a time, storage withdrawn or replaced only when no session *)
(* and no operation can reach it, and nothing at all after a failure.      *)
ImplementsExclusiveStorage == Exclusive!Spec

(* The strengthening that makes the properties inductive. *)
StorageMatchesPlan ==
  \/ storage = plan
  \/ poisoned /\ plan = None /\ Quiescent

ClosedIsEmpty ==
  closed => plan = None /\ Quiescent /\ owner = None

PriorPlanKept ==
  /\ owner = None => initialPlan = None
  /\ initialPlan # None => plan = initialPlan

IInv ==
  /\ TypeOK
  /\ LiveSessionsCurrent
  /\ OperationOnLiveSession
  /\ StorageMatchesPlan
  /\ ClosedIsEmpty
  /\ PriorPlanKept
=============================================================================
