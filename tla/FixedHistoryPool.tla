-------------------------- MODULE FixedHistoryPool --------------------------
(***************************************************************************)
(* models/nosa/execution/fixed_resources.py and models/nosa/cache/fixed.py *)
(* (NosaFixedResources, NosaFixedOffloadCache): the sessions of a backend  *)
(* keep their committed history on the host and share, in every layer, one *)
(* pool of device pages.  Page p of any history belongs in slot p, and the *)
(* slot's tag names the session whose page it holds.  Candidates run in    *)
(* the slots behind the history and are never retained.                    *)
(*                                                                         *)
(* Under dense_prefetch a copy stream brings in the whole history of the   *)
(* next layer while a layer computes (PrefetchRuns); under serial_sparse,  *)
(* and overlap, which differs inside one kernel, attention fetches the     *)
(* pages it selects (operators/nosa/attention/offload/api.py).  The        *)
(* caller's stream runs in the order of the calls, so its work is part of  *)
(* each action.  One execution lease is held at a time (ResourceLifecycle).*)
(*                                                                         *)
(* The unit is the page, so that appends are page aligned, which           *)
(* commit_history demands; a candidate's last page may be partly filled.   *)
(* KV heads do not interact: one is modelled.  A page's content is the     *)
(* number of the step that wrote it.  NosaCache has the host copies        *)
(* and the derived records of one session, which are synchronous here.     *)
(***************************************************************************)
EXTENDS Integers, Sequences, SequencesExt, FiniteSetsExt

CONSTANTS
  Session,
  Layers,
  Capacity,        (* per session, history_capacity in pages               *)
  CandidatePages,  (* pages that max_candidate_tokens can touch            *)
  HostPages,       (* host_arena_tokens in pages                           *)
  MaxSteps,        (* bounds the steps begun                               *)
  MaxOwners,       (* bounds the sessions created                          *)
  None

ASSUME PoolAssumption ==
  /\ IsFiniteSet(Session) /\ Session # {}
  /\ Capacity \in [Session -> Nat \ {0}]
  /\ Layers \in Nat \ {0} /\ CandidatePages \in Nat \ {0} /\ HostPages \in Nat
  /\ MaxSteps \in Nat /\ MaxOwners \in Nat /\ None \notin Session

VARIABLES
  scheme,      (* of the backend, never changed                            *)
  sessions,    (* per session: live, cache_owner, length and host pages    *)
  nextOwner,   (* _next_owner                                              *)
  pool,        (* keys and values: per layer and slot, what is there       *)
  tags,        (* per layer and slot, an owner or 0                        *)
  current,     (* the step in the execution lease, or None                 *)
  prefetches,  (* the layers queued on _prefetch_stream                    *)
  steps,       (* how many steps were begun                                *)
  history      (* per session, the steps of its committed pages            *)

vars == <<scheme, sessions, nextOwner, pool, tags, current, prefetches, steps, history>>

Layer == 1 .. Layers
Longest == Max({Capacity[s] : s \in Session})
Slot == 0 .. Longest + CandidatePages - 1
Step ==
  [session : Session, end : Nat, transient : BOOLEAN,
   written : 0 .. Layers, attended : 0 .. Layers, reads : SUBSET Slot]

ASSUME NoneAssumption == None \notin Step

Undefined == 0    (* what torch.empty, zeroing or nothing has left in a page *)

Gone ==
  [live |-> FALSE, owner |-> 0, length |-> 0,
   host |-> [l \in Layer |-> [p \in Slot |-> Undefined]]]

Init ==
  /\ scheme \in {"dense_prefetch", "serial_sparse"}
  /\ sessions = [s \in Session |-> Gone]
  /\ nextOwner = 1
  /\ pool = [l \in Layer |-> [p \in Slot |-> Undefined]]
  /\ tags = [l \in Layer |-> [p \in Slot |-> 0]]
  /\ current = None
  /\ prefetches = <<>>
  /\ steps = 0
  /\ history = [s \in Session |-> <<>>]

-----------------------------------------------------------------------------
(* Sessions. *)

Live == {s \in Session : sessions[s].live}
Idle(s) == s \in Live /\ current = None

(* check_quota *)
WithinQuota(s) ==
  SumFunctionOnSet(Capacity, Live) + Capacity[s] <= HostPages

(* next_cache_owner: identities are never used again. *)
NextOwner == nextOwner + 1

(* create_session: _allocate_session, with the constructor and attach. *)
Create(s) ==
  /\ s \notin Live /\ current = None /\ nextOwner <= MaxOwners
  /\ WithinQuota(s)
  /\ sessions' = [sessions EXCEPT ![s] = [Gone EXCEPT !.live = TRUE, !.owner = nextOwner]]
  /\ nextOwner' = NextOwner
  /\ UNCHANGED <<scheme, pool, tags, current, prefetches, steps, history>>

(* truncate: the tags stay, also of the pages that are cut off. *)
Truncate(s, n) ==
  /\ Idle(s) /\ n < sessions[s].length
  /\ sessions' = [sessions EXCEPT ![s].length = n]
  /\ history' = [history EXCEPT ![s] = SubSeq(@, 1, n)]
  /\ UNCHANGED <<scheme, nextOwner, pool, tags, current, prefetches, steps>>

(* release_session: the tags stay, with an owner that no session has. *)
Release(s) ==
  /\ Idle(s)
  /\ sessions' = [sessions EXCEPT ![s] = Gone]
  /\ history' = [history EXCEPT ![s] = <<>>]
  /\ UNCHANGED <<scheme, nextOwner, pool, tags, current, prefetches, steps>>

-----------------------------------------------------------------------------
(* The pool. *)

Dense == scheme = "dense_prefetch"
Cache == sessions[current.session]
Suffix == Cache.length .. current.end - 1

(* The pages of `wanted` that are not hits are copied from the host. *)
Missing(l, wanted) == {p \in wanted : p < Cache.length /\ tags[l][p] # Cache.owner}

Filled(l, wanted) ==
  [p \in Slot |-> IF p \in Missing(l, wanted) THEN Cache.host[l][p] ELSE pool[l][p]]

Claimed(l, wanted) ==
  [p \in Slot |-> IF p \in Missing(l, wanted) THEN Cache.owner ELSE tags[l][p]]

(* The append goes into the slots behind the history. *)
WithSuffix(slots) == [p \in Slot |-> IF p \in Suffix THEN steps ELSE slots[p]]

(* Mutant of InvalidateSuffix: the append takes slots and leaves their tags. *)
SuffixTagsKept(tagged) == tagged

(* invalidate_suffix, and publish_cache for the same slots *)
InvalidateSuffix(tagged) == [p \in Slot |-> IF p \in Suffix THEN 0 ELSE tagged[p]]

(* The prefetch stream takes its layers in order. *)
PrefetchRuns ==
  /\ prefetches # <<>>
  /\ LET l == Head(prefetches) IN
     /\ pool' = [pool EXCEPT ![l] = Filled(l, Slot)]
     /\ tags' = [tags EXCEPT ![l] = Claimed(l, Slot)]
  /\ prefetches' = Tail(prefetches)
  /\ UNCHANGED <<scheme, sessions, nextOwner, current, steps, history>>

(* What is in pool and tags once these layers were brought in, too. *)
Drained(layers, queued, of(_, _)) ==
  [l \in Layer |-> IF l \in ToSet(queued) THEN of(l, Slot) ELSE layers[l]]

-----------------------------------------------------------------------------
(* A step: begin_step, and for each layer write_layer and the attention.   *)

(* begin_step: a history append stays within the retained capacity, a      *)
(* candidate (extend_candidate) follows a complete history.                *)
Admitted(s, n, transient) ==
  IF transient THEN sessions[s].length = Capacity[s] /\ n <= CandidatePages
               ELSE sessions[s].length + n <= Capacity[s]

Begin(s, n, transient) ==
  /\ Idle(s) /\ steps < MaxSteps /\ n > 0
  /\ Admitted(s, n, transient)
  /\ current' = [session |-> s, end |-> sessions[s].length + n,
                 transient |-> transient, written |-> 0, attended |-> 0, reads |-> {}]
  /\ prefetches' = IF Dense THEN <<1>> ELSE <<>>
  /\ steps' = steps + 1
  /\ UNCHANGED <<scheme, sessions, nextOwner, pool, tags, history>>

(* write_layer: a candidate has no host rows.  Dense: behind the layer's   *)
(* prefetch (wait_prefetch) the suffix takes its slots, and the prefetch   *)
(* of the next layer is queued.                                            *)
WriteLayer(l) ==
  /\ current # None /\ l = current.written + 1 /\ current.attended = current.written
  /\ l \notin ToSet(prefetches)
  /\ sessions' =
       IF current.transient THEN sessions
       ELSE [sessions EXCEPT ![current.session].host[l] = WithSuffix(@)]
  /\ pool' = IF Dense THEN [pool EXCEPT ![l] = WithSuffix(@)] ELSE pool
  /\ tags' = IF Dense THEN [tags EXCEPT ![l] = InvalidateSuffix(@)] ELSE tags
  /\ prefetches' = IF Dense /\ l < Layers THEN Append(prefetches, l + 1) ELSE prefetches
  /\ current' = [current EXCEPT !.written = l, !.reads = {}]
  /\ UNCHANGED <<scheme, nextOwner, steps, history>>

ReadyToAttend(l) ==
  current # None /\ l = current.written /\ current.attended = l - 1

(* dense_layer_view: attention may read every page up to the suffix. *)
AttendDense(l) ==
  /\ Dense /\ ReadyToAttend(l)
  /\ current' = [current EXCEPT !.attended = l, !.reads = 0 .. current.end - 1]
  /\ UNCHANGED <<scheme, sessions, nextOwner, pool, tags, prefetches, steps, history>>

(* prepare_cached: page 0 is cleared unless it is a hit, because padding   *)
(* reads it, and the suffix takes its slots.                               *)
PreparedSlots(l) ==
  [WithSuffix(pool[l]) EXCEPT
     ![0] = IF 0 \in Missing(l, {0}) THEN Undefined ELSE @]

(* Mutant of PublishedTags: a cleared page 0 stays the page of its owner. *)
PublishedTagsButPageZero(l, selected) == InvalidateSuffix(Claimed(l, selected))

(* publish_cache: fetched pages and hits are tagged, the suffix is not,    *)
(* and neither is a page 0 that was cleared and not fetched.               *)
PublishedTags(l, selected) ==
  LET claimed == InvalidateSuffix(Claimed(l, selected)) IN
  [claimed EXCEPT ![0] = IF 0 \in Missing(l, {0} \ selected) THEN 0 ELSE @]

(* NosaFetchWorkspace.run on the pages that the indexer selected. *)
AttendSparse(l, selected) ==
  /\ ~Dense /\ ReadyToAttend(l) /\ selected \subseteq 0 .. Cache.length - 1
  /\ pool' = [pool EXCEPT ![l] =
       [p \in Slot |-> IF p \in Missing(l, selected) THEN Cache.host[l][p]
                                                     ELSE PreparedSlots(l)[p]]]
  /\ tags' = [tags EXCEPT ![l] = PublishedTags(l, selected)]
  /\ current' = [current EXCEPT !.attended = l, !.reads = selected \cup Suffix]
  /\ UNCHANGED <<scheme, sessions, nextOwner, prefetches, steps, history>>

(* The submission fails with slots overwritten and nothing published: no   *)
(* tag of the layer is trusted any more (cache_tags.zero_()), so that what *)
(* was fetched is as good as nothing, and the step is aborted.             *)
FetchFails(l) ==
  /\ ~Dense /\ ReadyToAttend(l)
  /\ pool' = [pool EXCEPT ![l] = PreparedSlots(l)]
  /\ tags' = [tags EXCEPT ![l] = [p \in Slot |-> 0]]
  /\ current' = None
  /\ UNCHANGED <<scheme, sessions, nextOwner, prefetches, steps, history>>

(* Mutant of Abort: the prefetch stream is not waited for. *)
AbortUndrained(queued) ==
  /\ current # None
  /\ current' = None
  /\ UNCHANGED <<scheme, sessions, nextOwner, pool, tags, prefetches, steps, history>>

(* abort_step, after a failure anywhere in the forward or for a candidate  *)
(* that is done: the device is synchronized, the cursors are dropped.  The *)
(* call that failed may have been the prefetch itself, with nothing queued.*)
Abort(queued) ==
  /\ current # None
  /\ queued \in {prefetches, <<>>}
  /\ pool' = Drained(pool, queued, Filled)
  /\ tags' = Drained(tags, queued, Claimed)
  /\ prefetches' = <<>>
  /\ current' = None
  /\ UNCHANGED <<scheme, sessions, nextOwner, steps, history>>

(* commit_history: the slots of the append become pages of the session. *)
CommittedTags ==
  [l \in Layer |-> [p \in Slot |-> IF p \in Suffix THEN Cache.owner ELSE tags[l][p]]]

(* commit_step of a history append; a candidate takes Abort instead. *)
Commit ==
  /\ current # None /\ ~current.transient /\ current.attended = Layers
  /\ sessions' = [sessions EXCEPT ![current.session].length = current.end]
  /\ history' = [history EXCEPT
       ![current.session] = @ \o [k \in 1 .. current.end - Cache.length |-> steps]]
  /\ tags' = CommittedTags
  /\ current' = None
  /\ UNCHANGED <<scheme, nextOwner, pool, prefetches, steps>>

Next ==
  \/ \E s \in Session : Create(s)
  \/ \E s \in Session, n \in 0 .. Longest : Truncate(s, n)
  \/ \E s \in Session : Release(s)
  \/ PrefetchRuns
  \/ \E s \in Session, n \in 1 .. Longest, transient \in BOOLEAN : Begin(s, n, transient)
  \/ \E l \in Layer : WriteLayer(l)
  \/ \E l \in Layer : AttendDense(l)
  \/ \E l \in Layer, selected \in SUBSET (0 .. Longest - 1) : AttendSparse(l, selected)
  \/ \E l \in Layer : FetchFails(l)
  \/ \E queued \in {<<>>} \cup {<<l>> : l \in Layer} : Abort(queued)
  \/ Commit

Spec == Init /\ [][Next]_vars

-----------------------------------------------------------------------------
(* Properties. *)

Content == 0 .. MaxSteps
Owner == 0 .. MaxOwners

(* The variables keep their types (NosaFixedResources and its caches). *)
TypeOK ==
  /\ scheme \in {"dense_prefetch", "serial_sparse"}
  /\ sessions \in [Session -> [live : BOOLEAN, owner : Owner, length : 0 .. Longest,
                               host : [Layer -> [Slot -> Content]]]]
  /\ nextOwner \in 1 .. MaxOwners + 1
  /\ pool \in [Layer -> [Slot -> Content]]
  /\ tags \in [Layer -> [Slot -> Owner]]
  /\ current \in Step \cup {None}
  /\ prefetches \in Seq(Layer)
  /\ steps \in 0 .. MaxSteps
  /\ history \in [Session -> Seq(1 .. MaxSteps)]

(* A tag that makes a page a hit tells the truth: the slot holds the page  *)
(* of the session's committed history, whatever other sessions, candidates,*)
(* truncations, releases and failed steps did to the slot since            *)
(* (_copy_reference, prefetch_cached_kernel and publish_cache_kernel copy  *)
(* nothing for a hit).                                                     *)
HitsAreCurrent ==
  \A s \in Live, l \in Layer : \A p \in 0 .. sessions[s].length - 1 :
    tags[l][p] = sessions[s].owner => pool[l][p] = history[s][p + 1]

(* Attention reads, in every page it may touch, the history that its       *)
(* session committed and behind it the append of this step, while the      *)
(* prefetch stream, other sessions' leftovers and earlier candidates are   *)
(* in the same slots (NosaFixedAttention).                                 *)
AttentionReadsOwnTokens ==
  current # None => \A p \in current.reads :
    pool[current.attended][p] =
      IF p < Cache.length THEN history[current.session][p + 1] ELSE steps

(* The prefetch stream works only for the step in the lease, only on the   *)
(* layer that is to be written next, and sessions retain no more than the  *)
(* quota: no copy reads the host pages of a session that may be truncated  *)
(* or released, none writes slots that attention reads, and no candidate   *)
(* becomes history (prefetch, abort_step, commit_step, check_quota).       *)
PoolUndisturbed ==
  /\ TypeOK
  /\ prefetches # <<>> =>
       current # None /\ prefetches = <<current.written + 1>>
  /\ \A s \in Live : sessions[s].length <= Capacity[s]
  /\ SumFunctionOnSet(Capacity, Live) <= HostPages
=============================================================================
