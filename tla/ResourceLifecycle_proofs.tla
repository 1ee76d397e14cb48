---------------------- MODULE ResourceLifecycle_proofs ----------------------
(***************************************************************************)
(* The lifecycle's safety for every set of sessions, owners and plans and  *)
(* for every bound on generations and bindings.                            *)
(***************************************************************************)
EXTENDS ResourceLifecycle, TLAPS

(* The strengthened invariant holds of a fresh lifecycle. *)
LEMMA InitIInv == Init => IInv
<1> SUFFICES ASSUME Init PROVE IInv
  OBVIOUS
<1> USE DEF Init
<1>1. TypeOK
  <2>1. /\ generation \in 0 .. MaxGeneration
        /\ bindings \in 0 .. MaxBindings
        /\ binding \in 1 .. bindings \cup {None}
    BY ConstantsAssumption
  <2>2. registration \in [Session -> Registration \cup {None}]
    OBVIOUS
  <2>3. Paired
    BY DEF Paired
  <2> QED
    BY <2>1, <2>2, <2>3 DEF TypeOK
<1>2. LiveSessionsCurrent /\ OperationOnLiveSession
  BY DEF LiveSessionsCurrent, OperationOnLiveSession
<1>3. StorageMatchesPlan /\ ClosedIsEmpty /\ PriorPlanKept
  BY DEF StorageMatchesPlan, ClosedIsEmpty, PriorPlanKept
<1> QED
  BY <1>1, <1>2, <1>3 DEF IInv

(* Every call and every failure inside a call preserves it. *)
LEMMA NextIInv == IInv /\ [Next]_vars => IInv'
<1> SUFFICES ASSUME IInv, [Next]_vars PROVE IInv'
  OBVIOUS
<1> USE ConstantsAssumption DEF IInv, TypeOK, Kind, Quiescent, CheckAccess
<1>1. ASSUME NEW o \in Owner, BindOwner(o) PROVE IInv'
  <2> USE <1>1 DEF BindOwner, lease
  <2>1. binding' \in 1 .. bindings' /\ bindings' \in 0 .. MaxBindings
    OBVIOUS
  <2>2. TypeOK'
    <3>1. Paired'
      BY <2>1 DEF Paired
    <3> QED
      BY <2>1, <3>1
  <2>3. LiveSessionsCurrent' /\ OperationOnLiveSession'
    BY DEF LiveSessionsCurrent, OperationOnLiveSession
  <2>4. StorageMatchesPlan' /\ ClosedIsEmpty' /\ PriorPlanKept'
    BY DEF StorageMatchesPlan, ClosedIsEmpty, PriorPlanKept
  <2> QED
    BY <2>2, <2>3, <2>4
<1>2. ASSUME NEW o \in Owner, NEW rollback \in BOOLEAN, UnbindOwner(o, rollback)
      PROVE IInv'
  BY <1>2 DEF UnbindOwner, RollbackReleases, ReleaseShared, ClearOwner, lease,
              admission, Paired, LiveSessionsCurrent, OperationOnLiveSession,
              StorageMatchesPlan, ClosedIsEmpty, PriorPlanKept
<1>3. ASSUME NEW p \in Plan, NEW caller \in Owner \cup {None},
             AllocateShared(p, caller)
      PROVE IInv'
  <2> USE <1>3 DEF AllocateShared, Allocated, lease, admission
  <2>1. TypeOK'
    <3>1. generation' \in 0 .. MaxGeneration
      OBVIOUS
    <3>2. Paired'
      BY DEF Paired
    <3> QED
      BY <3>1, <3>2
  <2>2. LiveSessionsCurrent' /\ OperationOnLiveSession'
    BY DEF LiveSessionsCurrent, OperationOnLiveSession
  <2>3. StorageMatchesPlan' /\ ClosedIsEmpty' /\ PriorPlanKept'
    BY DEF StorageMatchesPlan, ClosedIsEmpty, PriorPlanKept
  <2> QED
    BY <2>1, <2>2, <2>3
<1>4. CASE Close
  BY <1>4 DEF Close, ReleaseShared, lease, admission, Paired, LiveSessionsCurrent,
              OperationOnLiveSession, StorageMatchesPlan, ClosedIsEmpty,
              PriorPlanKept
<1>5. ASSUME NEW s \in Session, NEW caller \in Owner \cup {None},
             NEW unplanned \in BOOLEAN, Register(s, caller, unplanned)
      PROVE IInv'
  <2> USE <1>5 DEF Register, Reopen, lease, admission
  <2>1. generation' \in 0 .. MaxGeneration
    OBVIOUS
  <2>2. registration' \in [Session -> Registration \cup {None}]
    <3>1. binding \in 1 .. MaxBindings \cup {None}
      OBVIOUS
    <3>2. [generation |-> generation', binding |-> binding, plan |-> plan]
            \in Registration
      BY <2>1, <3>1 DEF Registration
    <3> QED
      BY <3>2
  <2>3. TypeOK'
    BY <2>1, <2>2 DEF Paired
  <2>4. LiveSessionsCurrent'
    BY DEF LiveSessionsCurrent
  <2>5. OperationOnLiveSession' /\ StorageMatchesPlan'
    BY DEF OperationOnLiveSession, StorageMatchesPlan
  <2>6. ClosedIsEmpty' /\ PriorPlanKept'
    BY DEF ClosedIsEmpty, PriorPlanKept
  <2> QED
    BY <2>3, <2>4, <2>5, <2>6
<1>6. ASSUME NEW s \in Session, Detach(s) PROVE IInv'
  BY <1>6 DEF Detach, CheckMutation, lease, admission, Paired, LiveSessionsCurrent,
              OperationOnLiveSession, StorageMatchesPlan, ClosedIsEmpty,
              PriorPlanKept
<1>7. ASSUME NEW s \in Session, NEW caller \in Owner \cup {None}, NEW k \in Kind,
             Begin(s, caller, k)
      PROVE IInv'
  BY <1>7 DEF Begin, CheckSession, lease, admission, Paired, LiveSessionsCurrent,
              OperationOnLiveSession, StorageMatchesPlan, ClosedIsEmpty,
              PriorPlanKept
<1>8. CASE End
  BY <1>8 DEF End, lease, admission, Paired, LiveSessionsCurrent,
              OperationOnLiveSession, StorageMatchesPlan, ClosedIsEmpty,
              PriorPlanKept
<1>9. CASE Poison
  BY <1>9 DEF Poison, lease, admission, Paired, LiveSessionsCurrent,
              OperationOnLiveSession, StorageMatchesPlan, ClosedIsEmpty,
              PriorPlanKept
<1>10. CASE UNCHANGED vars
  BY <1>10 DEF vars, lease, admission, Paired, LiveSessionsCurrent,
               OperationOnLiveSession, StorageMatchesPlan, ClosedIsEmpty,
               PriorPlanKept
<1> QED
  BY <1>1, <1>2, <1>3, <1>4, <1>5, <1>6, <1>7, <1>8, <1>9, <1>10 DEF Next

(* The strengthened invariant holds in every reachable state. *)
THEOREM Invariant == Spec => []IInv
  BY InitIInv, NextIInv, PTL DEF Spec

(* The types, and what always goes together, hold in every state. *)
THEOREM TypeCorrect == Spec => []TypeOK
<1>1. IInv => TypeOK
  BY DEF IInv
<1> QED
  BY <1>1, Invariant, PTL

(* No live session ever stands on a plan, a generation or an owner binding *)
(* other than the one it was registered under.                             *)
THEOREM SessionsStayCurrent == Spec => []LiveSessionsCurrent
<1>1. IInv => LiveSessionsCurrent
  BY DEF IInv
<1> QED
  BY <1>1, Invariant, PTL

(* Nothing an operation's body can call releases the session under it. *)
THEOREM OperationsKeepTheirSession == Spec => []OperationOnLiveSession
<1>1. IInv => OperationOnLiveSession
  BY DEF IInv
<1> QED
  BY <1>1, Invariant, PTL

(* Storage that predates an owner survives that owner, roll-back included. *)
THEOREM RollbackReleasesOnlyNewStorage == Spec => PriorPlanSurvives
<1>1. ASSUME IInv, [Next]_vars
      PROVE [initialPlan # None => plan' = plan /\ storage' = storage]_vars
  <2> SUFFICES ASSUME initialPlan # None
               PROVE plan' = plan /\ storage' = storage
    OBVIOUS
  <2> USE <1>1 DEF IInv, TypeOK, PriorPlanKept, StorageMatchesPlan
  <2>1. CASE \E o \in Owner : BindOwner(o)
    BY <2>1 DEF BindOwner
  <2>2. CASE \E o \in Owner, rollback \in BOOLEAN : UnbindOwner(o, rollback)
    BY <2>2 DEF UnbindOwner, RollbackReleases
  <2>3. CASE \E p \in Plan, caller \in Owner \cup {None} :
               AllocateShared(p, caller)
    BY <2>3 DEF AllocateShared
  <2>4. CASE Close
    BY <2>4 DEF Close
  <2>5. CASE \E s \in Session, caller \in Owner \cup {None},
               unplanned \in BOOLEAN : Register(s, caller, unplanned)
    BY <2>5 DEF Register
  <2>6. CASE \E s \in Session : Detach(s)
    BY <2>6 DEF Detach
  <2>7. CASE \E s \in Session, caller \in Owner \cup {None}, k \in Kind :
               Begin(s, caller, k)
    BY <2>7 DEF Begin
  <2>8. CASE End \/ Poison \/ UNCHANGED vars
    BY <2>8 DEF End, Poison, vars
  <2> QED
    BY <2>1, <2>2, <2>3, <2>4, <2>5, <2>6, <2>7, <2>8 DEF Next
<1> QED
  BY <1>1, Invariant, PTL DEF Spec, PriorPlanSurvives

(* After a failed completion nothing is freed, released or handed over. *)
THEOREM PoisonFreezes == Spec => PoisonIsFinal
<1>1. ASSUME [Next]_vars
      PROVE [poisoned => /\ poisoned'
                         /\ UNCHANGED <<active, kind, owner, sessions, plan,
                                        storage>>]_vars
  <2> SUFFICES ASSUME poisoned
               PROVE /\ poisoned'
                     /\ UNCHANGED <<active, kind, owner, sessions, plan,
                                    storage>>
    OBVIOUS
  <2>1. CASE End
    BY <2>1 DEF End, admission
  <2>2. CASE UNCHANGED vars
    BY <2>2 DEF vars, admission, lease
  <2>3. CASE Next /\ ~End
    BY <2>3 DEF Next, BindOwner, UnbindOwner, AllocateShared, Close, Register,
                Detach, Begin, Poison, CheckAccess, CheckMutation
  <2> QED
    BY <1>1, <2>1, <2>2, <2>3
<1> QED
  BY <1>1, PTL DEF Spec, PoisonIsFinal

-----------------------------------------------------------------------------
(* Refinement. *)

(* A fresh lifecycle is a fresh exclusive store. *)
LEMMA InitRefines == Init => Exclusive!Init
  BY DEF Init, Exclusive!Init

(* Every step of the lifecycle is a step of the exclusive store or leaves  *)
(* it alone.                                                               *)
LEMMA StepRefines == IInv /\ [Next]_vars => [Exclusive!Next]_Exclusive!vars
<1> SUFFICES ASSUME IInv, [Next]_vars
             PROVE Exclusive!Next \/ UNCHANGED Exclusive!vars
  OBVIOUS
<1> USE ConstantsAssumption
    DEF IInv, TypeOK, StorageMatchesPlan, Quiescent, CheckAccess,
        Exclusive!vars, Exclusive!Next, Exclusive!Unused
<1>1. ASSUME NEW o \in Owner, BindOwner(o) PROVE UNCHANGED Exclusive!vars
  BY <1>1 DEF BindOwner, lease
<1>2. ASSUME NEW o \in Owner, NEW rollback \in BOOLEAN, UnbindOwner(o, rollback)
      PROVE Exclusive!Next \/ UNCHANGED Exclusive!vars
  BY <1>2 DEF UnbindOwner, RollbackReleases, ReleaseShared, lease,
              Exclusive!Withdraw, Exclusive!Break
<1>3. ASSUME NEW p \in Plan, NEW caller \in Owner \cup {None},
             AllocateShared(p, caller)
      PROVE Exclusive!Provide(p)
  BY <1>3 DEF AllocateShared, Allocated, lease, Exclusive!Provide
<1>4. CASE Close
  BY <1>4 DEF Close, ReleaseShared, lease, Exclusive!Withdraw, Exclusive!Break
<1>5. ASSUME NEW s \in Session, NEW caller \in Owner \cup {None},
             NEW unplanned \in BOOLEAN, Register(s, caller, unplanned)
      PROVE Exclusive!Join(s)
  BY <1>5 DEF Register, lease, Exclusive!Join
<1>6. ASSUME NEW s \in Session, Detach(s) PROVE Exclusive!Leave(s)
  BY <1>6 DEF Detach, CheckMutation, lease, Exclusive!Leave
<1>7. ASSUME NEW s \in Session, NEW caller \in Owner \cup {None}, NEW k \in Kind,
             Begin(s, caller, k)
      PROVE Exclusive!Start(s)
  BY <1>7 DEF Begin, CheckSession, Exclusive!Start
<1>8. CASE End
  BY <1>8 DEF End, Exclusive!Finish, Exclusive!Break
<1>9. CASE Poison
  BY <1>9 DEF Poison, lease, Exclusive!Break
<1>10. CASE UNCHANGED vars
  BY <1>10 DEF vars, lease
<1> QED
  BY <1>1, <1>2, <1>3, <1>4, <1>5, <1>6, <1>7, <1>8, <1>9, <1>10 DEF Next

(* The lifecycle, with the provider's failures, implements the exclusive   *)
(* store that serving relies on.                                           *)
THEOREM LifecycleImplementsExclusiveStorage == Spec => ImplementsExclusiveStorage
  BY InitRefines, StepRefines, Invariant, PTL
  DEF Spec, ImplementsExclusiveStorage, Exclusive!Spec
=============================================================================
