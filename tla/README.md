# Verification of the KV-offloading serving system

TLA+ models of the stateful core of this repository, checked with TLC on small
instances, and theorems about them proved with TLAPS. The models are written
from the Python source; every definition names the lines it stands for in
`PROJECT.json` ("map").

Contents: 1 the system, 2 modules and code, 3 the runs, 4 fairness, 5 proofs,
6 what the checks found, 7 what is not modelled, 8 the plan.


## 1. The system

The program serves generative-recommendation requests with sparse-attention
models (DeepSeek V3.2, NOSA) whose KV history does not fit the GPU. A request has
a long user *history*, kept between requests in the user's session, and a short
*candidate* suffix, thrown away after the request. One process, one GPU, one
request at a time. What runs concurrently with the Python caller are CUDA streams:
the caller's own, a copy stream that reads host records into the device, one that
writes new records back.

    run_gr / run_multi_user            command lines
      PersistentGRRunner               serving/persistent.py
        PrefixSessionPool              cache/prefix_pool.py      LRU, quotas
        TokenRuntime, BackendAdapter   executor/                 sessions by handle
          DeepSeek / NOSA backend      models/*/execution
            ResourceLifecycle          cache/lifecycle.py        who may do what
            SparseTokenPool/Cache      cache/sparse_token_*.py   DeepSeek's history
              _forward_leased          deepseek_v32/execution/adapter.py  over all layers
              PoolHistoryPrefetch      deepseek_v32/cache/prefetch.py     whole histories
            DoubleBufferStaging        cache/staging.py          NOSA's layer prefetch
            NosaOffloadCache           nosa/cache/offload.py     one session's transaction
              HostBackingCache, IndexerCache      cache/         its host and derived records
            NosaKVCache on ResidentCache  nosa/cache, cache/     the same on the device
            NosaFixedResources         nosa/execution/fixed_resources.py  shared slots

### 1.1 Resource lifecycle (`cache/lifecycle.py`)

- State: plan, generation, registered sessions, admission owner and its identity,
  the plan found when the owner was bound, the active session and its kind, a
  lock, `poisoned`, `closed`.
- Operations: `bind_owner`, `unbind_owner`, `allocated`, `register`, `detach`,
  `operation` (a context manager), `close`, `reopen`, `poison`, the checks.
- Interaction: a backend calls it before it allocates, registers, runs or frees;
  the backend's allocation, release callback and drain run inside its calls.
- Hard: failure of an allocation's clean-up, of a release half way, of the drain
  after a body that succeeded; calls made from inside an operation's body.
- Correct when: a live session always stands on the current storage and owner;
  storage is freed or replaced only when nobody can reach it; after an
  unconfirmed completion nothing is freed or handed on.

### 1.2 Prefix session pool and persistent runner (`cache/prefix_pool.py`, `serving/persistent.py`, `executor/`)

- State: entries in LRU order, each a session with its plan and a `ready` flag;
  the runtime's live sessions and their `failed` flags; the tokens a session
  really holds; the runner's owner binding and `closed`.
- Operations: `acquire` (hit, eviction loop, allocation, audit), `mark_ready`,
  `discard`, `close`; `create`, `prefill`, `candidate`, `finish_candidate`,
  `release`, `retire`; `execute`, `close`.
- Interaction: the pool calls the runtime's allocate and release in the middle of
  its own loops; the runtime calls the driver; observers audit all reservations.
- Hard: any driver call may fail, may leave whole chunks behind and may poison the
  backend; the release in the failure path may fail as well.
- Correct when: an answer is computed from exactly its own request's history; the
  pool and the runtime agree on what exists; the quotas hold; every request ends.

### 1.3 Double-buffer staging (`cache/staging.py`)

- State: the active lease, two slot identities with a ready flag and a ready
  event each, host records kept alive, `poisoned`, `closed`; on the device two
  buffers and two streams.
- Operations: `lease`, `prefetch`, `wait_ready`, `view`, `reset`, lease `close`,
  storage `close`, the private `_join`.
- Hard: copy stream and caller stream run at any time after submission; a
  submission fails half way; a join fails.
- Correct when: a copy never overlaps a consumer of its slot, a consumer reads its
  own layer, host records outlive their copies, idle storage has no work in flight.

### 1.4 Sparse token pool and caches (`cache/sparse_token_pool.py`, `cache/sparse_token_cache.py`)

- State: a host arena in pages; per layer two maps between host rows and device
  slots, FIFO priorities with a bounded clock, two host-side proofs (a certified
  resident prefix, a precomputed append order); per cache `length`, `written`,
  `_step_end`, the transient start; the layer's transient owner; one prefetch
  workspace; the queue of host writes.
- Operations: session allocate and release; `begin_step`, `begin_transient`,
  `append`, `ensure` (recall), `prepare_prefetch` / `finalize_prefetch`,
  `commit`, `rollback`, `discard_transient`, `truncate`; `snapshot`, `restore`.
- Hard: any session's append or recall may evict any other session's record;
  an evicted record may exist only in a copy still under way to the host; the
  proofs that save a look at the maps must not outlive what they prove; the clock
  is renumbered in the middle of a call; each call may fail half way.
- Correct when: the maps stay inverse; a mapped slot holds the current record of
  its row; the history is in the host, or on its way; the proofs are sound; pages
  have one owner; a recall delivers every selected record.

### 1.5 DeepSeek forward and history prefetch (`models/deepseek_v32/execution/adapter.py`, `cache/prefetch.py`)

- State: per session its length, the retained prefix and its prefetch hints
  (`prefix_offsets`), `last_candidate_transient`; per layer a cache with a step of its
  own, host rows, index keys and a hint; per layer of a dense pool the certified
  prefix, the lease and the generation of the maps; tickets; `failed`, `poisoned`.
- Operations: `prefill` in chunks, `extend`, `extend_candidate`, `truncate`,
  `release_session`; `prefetch`, `wait`, `drain` of whole-history copies.
- Interaction: each layer's history is asked for while the previous layer runs; an
  append relies on what the pool certifies, not on the maps; a failure drains the
  copies and then rolls the layers back one by one.
- Hard: a transaction over layers made of per-layer transactions; copies that publish
  maps later; hints that a candidate changes and only a success puts back; a
  truncation that may find nothing to do.
- Correct when: all layers and stores hold one history, extended by all of a forward
  or nothing; what is certified as resident is there; nothing runs after a commit or
  rollback that broke off.

### 1.6 NOSA caches and indexer (`cache/host_backing.py`, `cache/manager.py`, `cache/indexer_cache.py`, `models/nosa/cache/offload.py`, `resident.py`)

One transaction with two backends: the offload cache keeps the main records in pinned
host memory, the resident one on the device.

- State: two lengths and two pending ends; main rows and CIS scores per layer;
  derived records (compressed keys and scores, pooled scores) with committed and
  pending counts; offload: a write stream; the deferred flag of the step.
- Operations: `begin_step`, `write_layer`, `prepare_indexer_inputs`, `commit_step`,
  `abort_step`, `truncate`, `release`; `DeferredValidation.begin`, `check`, `clear`.
- Hard: the host rows arrive behind the calls; derived records stay over truncations
  and aborted steps and are told apart by counts alone; the answer whether the values
  are finite may come after the derived records are written.
- Correct when: the two sides agree; every committed row and derived record is that of
  the history the caller has seen committed; nothing that is not finite is committed.

### 1.7 Fixed slots of NOSA (`models/nosa/execution/fixed_resources.py`, `models/nosa/cache/fixed.py`)

- State: per layer one pool of page slots with an owner tag each; sessions with an
  owner number, a length and host pages; the prefetch stream; one step.
- Operations: session create, truncate, release; history append, candidate, abort,
  commit; prefetch of a layer; the fetch kernel's prepare and publish.
- Hard: sessions share the slots by position; nothing is cleared on truncation or
  release; candidates and failed fetches overwrite foreign slots.
- Correct when: a tag that makes a hit tells the truth, attention reads only its own
  session's records, and no copy outlives its step.

### 1.8 Parts outside the modules

- **Graph capture** (`cache/sparse_token_graph.py`, `compute_graphs.py`): recipes captured
  in one host state and replayed in another.
- **Capacity planning** (`cache/capacity.py`, `models/*/execution/capacity.py`): byte
  arithmetic; used here as numbers.
- **Batch runners, pipeline, operators, allocator accounting, workload and evaluation code**:
  no protocol state of their own.

Component status is in `PROJECT.json` "components", the list of things that are
hard to test, each at its line, under "hazards".


## 2. Modules and code

| module | models | extends / uses |
|---|---|---|
| `ExclusiveStorage` | abstract: storage that one operation at a time uses and that is withdrawn only when nobody can | |
| `ResourceLifecycle` | `cache/lifecycle.py` with the provider half in `deepseek_v32/execution/adapter.py` | INSTANCE `ExclusiveStorage` |
| `ResourceLifecycle_proofs` | theorems | EXTENDS both, TLAPS |
| `PrefixSessionPool` | entries, plans, quotas and LRU of `cache/prefix_pool.py` | |
| `PersistentServing` | `serving/persistent.py`, `executor/runtime.py`, the driver's outcomes | EXTENDS `PrefixSessionPool` |
| `DoubleBufferStaging` | `cache/staging.py` and the two streams | |
| `TokenSlots` | one layer of `sparse_token_pool.py` as a value: maps, clock, eviction, proofs | |
| `SparseTokenPool` | sessions, pages, steps, appends, recalls, prefetch, host writes | EXTENDS `TokenSlots` |
| `HistoryStore` | abstract: one history per session, the same in all its stores | |
| `DenseForward` | the forward, truncate and release of `deepseek_v32/execution/adapter.py` over all layers, with `cache/prefetch.py` and the dense layout of `sparse_token_pool.py` | INSTANCE `HistoryStore` |
| `NosaCache` | `nosa/cache/offload.py` on `cache/host_backing.py` and `nosa/cache/resident.py` on `cache/manager.py`, with `cache/indexer_cache.py` and `nosa/execution/deferred_validation.py` | |
| `FixedHistoryPool` | `nosa/execution/fixed_resources.py`, `nosa/cache/fixed.py`, the tag logic of `nosa_offload.cu` | |
| `PoolLemmas` | lemmas: sums over finite sets, sequences without duplicates, least elements, pages of a size, ranks | EXTENDS TLAPS |
| `PersistentServing_proofs`, `FixedHistoryPool_proofs`, `NosaCache_proofs`, `SparseTokenPool_proofs` | theorems | EXTENDS the component, `PoolLemmas` |
| `DoubleBufferStaging_proofs`, `DenseForward_proofs` | theorems | EXTENDS the component, TLAPS |
| `MC...` | constants for TLC | |

**ResourceLifecycle.** One action per call. A call that the code rejects changes nothing
and is no step. `binding` numbers the `object()` that a bound owner is identified
by. `registration` is what the session object carries away, so it stays after a
release. `storage` is the provider's: allocation may fail cleanly (no step), or
fail with its clean-up failing too; a release may fail half way. Between `Begin`
and `End` any other action may happen: the body of an operation may call anything
that the code does not reject.

**PersistentServing.** One action per driver call, because each may fail and the
failure must find the state the code has there: `Execute` is the hit test of
`acquire`; `Evict`, `Allocate`, `AuditAdmission` the rest of it; then `Admitted` (the
first synchronise), `Prefill`, `Publish` (`mark_ready`), `Candidates` or `Rejected`,
`Finish`, `Deliver`, and `DiscardFailed` for the except clause. `Partial(n)` says what a
failed call leaves: whole chunks. The driver is not trusted: it may return with the suffix still in the session or
with more memory used than was reserved (`over`), which the code's audits exist to
notice. Bytes of a session are its token capacity, pages that capacity rounded up.

**DoubleBufferStaging.** A stream is a queue of operations and the number already done;
an event is a number of operations of one stream; an operation carries the event
its stream had last been told to wait for. `Start` needs that many operations of the
other stream done. A running copy makes its buffer `Mixed`; a complete one gives it
the record's identity (`epoch`, `layer`), where `epoch` numbers leases and resets so
that two chunks with equal identities are told apart.

**TokenSlots / SparseTokenPool.** A layer is one record (`LayerState`), what a call does to
it an operator, an action a composition of operators in the order of the code.
A record `<<s, i>>` is what session s *last* appended at index i: when a step
begins again from an index, or a suffix is truncated or a session released, copies
of what was there become `Stale` (`Superseded`). Work on the caller's stream is
ordered like the calls and belongs to the action; host writes happen later
(`HostWrite`), and a call that waits for them is not enabled before. `AppendFails`
and `EnsureFails` stop at the points where the code has already changed something.
`failed` is the caller's knowledge that a step failed: the adapter then only rolls
back, discards or releases (`Calls`). It stays set when a rollback is refused, and such a cache makes the
backend `Poisoned`: no step begins and no snapshot is taken or restored any more. `SerialSteps` is what a
backend's lifecycle guarantees; without it the pool's own checks are alone, and nobody is poisoned.
Victims are chosen by a stable argsort of the ages; `Oldest` is that order as a function: the k-th slot is the one
that has k - 1 slots `Ahead` of it. A snapshot is a copy of the device side of the
layers and of the lengths; `session` stands for the topology count, which changes with it.

**DenseForward.** One action per layer and call of the forward: `Begin` starts the step of
every layer, `Submit` asks for a layer's history, `CopyLands` is the helper's stream, `Wait`
joins it, `Block` is the layer's index write and append, `NextChunk` drains, `Commit` and
`Discard` end it. `Fail(part)` is the except clause after a failure anywhere, with the
index keys of the layer that was executing written or not; `SubmitFails` leaves the helper
failed as well; `Break(k)` and `BreakIdle` are failures of the clean-up, or of the commit
after k layers, which poison. Rows are numbered by the forward that wrote them. Two
fields are not the code's: `atPrefix` remembers that the last call was a truncation to
the prefix, `strayHints` the exceptions of section 6. The scheme is chosen in Init: under
`dense_prefetch` the slots follow the dense layout, under `echo` they are `SparseTokenPool`'s
and only the hints are here.

**NosaCache.** `backend` is chosen in Init: under `offload` the main records travel on the write
stream and a synchronisation may fail; under `resident` they are written by the calls
(`MainWritten`), commit and abort publish metadata only and cannot fail, and commit
requires the indexer to be prepared already (`PreparedForCommit`). A record is the number of the step that wrote it, a derived record the
sequence (or function) of the records in its window, so that a derived record of other
rows is a different value; `Stride` and `Pool` scale the windows of 32 and 5 down. One
action per call; `Synchronized` is the state when the write stream is empty, each row with what the
last copy to it brought. `Commit`
prepares what no attention had prepared, as `commit_step` does. `Fail`, `CommitFails` and
`AbortFails` are the three places where the code can stop with something changed;
`history` is what the caller has seen.

**FixedHistoryPool.** The unit is a page. `PrefetchRuns` is the copy stream; `WriteLayer`,
`AttendDense` and `AttendSparse` are the calls of one layer; the kernels' writes to slots and
tags are `PreparedSlots` and `PublishedTags`. `FetchFails` leaves slots overwritten and all tags of
the layer zero. A candidate that has run ends in `Abort`, as `commit_step` does. `reads` is what
the last attention may touch. A truncated or released session leaves its tags behind.


## 3. The runs

A run shows its properties on its instance; section 5 says which of them are proved for all.

All runs set `CHECK_DEADLOCK FALSE`: these are passive components, nobody has to
call them, and the named bounds (or a complete close, or a poisoned state) stop
the models. Where something must go on, a liveness property says so.

| run | instance | states |
|---|---|---|
| `lifecycle` | 2 owners, 2 plans, 2 sessions, 3 generations, 2 bindings | 57 200 |
| `serving` | 3 users, 3 sessions, histories of 1 and 4 tokens, candidates of 1 or 4, chunk 3, budget 8 of which 1 shared, 2 pages of 4 tokens | 593 066 |
| `staging_pipeline` | 1 borrower, 3 layers, 1 lease, 2 consumers, 3 copies | 260 419 |
| `staging_handoff` | 2 borrowers, 2 layers, 3 leases or resets, 2 consumers, 2 copies between joins | 463 777 |
| `sparse_pool` | sessions of 3 and 1 tokens, 2 slots, pages of 2, clock limit 4, 1 candidate row, 2 host writes in flight | 105 973 |
| `sparse_pool_reuse` | sessions of 2, 1 and 1 tokens (the last two symmetric) over 2 pages, 1 snapshot | 281 018 |
| `sparse_pool_interleaved` | sessions of 2 and 1 tokens, one-token pages, steps overlap | 268 529 |
| `sparse_pool_layers` | 1 session of 3 tokens, 2 layers of 1 slot, serial steps; violated | |
| `sparse_pool_stale_snapshot` | 1 session of 2 tokens, 2 snapshots; violated | |
| `nosa_cache` | both backends, 2 layers, 6 tokens, stride 2, pools of 1 stride, 3 steps | 1 524 000 |
| `fixed_history_pool` | sessions of 2 and 1 pages, 2 layers, 1 candidate page, 4 steps, 3 owners | 955 000 |
| `dense_forward` | 2 sessions (symmetric) of 2 tokens, 2 layers, 2 slots, chunks of 1, 1 candidate, 3 forwards | 504 939 |

**lifecycle** - `LiveSessionsCurrent`: close, allocate, bind, roll back and reopen in
any order slip no new storage or owner under a live session. `OperationOnLiveSession`:
nothing an operation's body can call releases its session. `PriorPlanSurvives`: a
failed construction gives back only storage it brought. `PoisonIsFinal`: after a
failed completion nothing is freed or handed over. `ImplementsExclusiveStorage`: the
whole is an exclusive store. Bounds: three generations and two bindings allow a
session of the first generation to meet storage of the next and an owner that came
between; the proofs of section 5 remove all bounds.

**serving** - `ServedFromOwnHistory`, `ReusableSessionIntact`: an answer comes from
exactly its own complete history, although partial prefills, suffixes left behind
and discards that failed stay in the pool. `NoOrphanSession`: the runtime's sessions are
those the pool charges for. `QuotaHeld`; `OwnerOutlivesSessions`: the owner is unbound only without sessions, over
retried closes; `OutgrownNotReused`: a session that outgrew its reservation is marked or gone before
the request that made it grow is over, although a hit is not audited at its admission, a failed
discard leaves the entry ready, and three places mark (a failed call, the audit before the
clean-up, the one after it); `RequestEnds` (liveness). Bounds: two pages hold
two users at most; two long histories fit the pages and not the bytes; a long one with
one appended candidate takes both pages, with four it is impossible; three users
therefore evict for either reason, and without evicting can be hit again;
a prefill of 4 with chunks of 3 can stop at 0, 3 or 4.

**staging_pipeline** - `NoSlotRace`, `SourcesOutliveCopies`, `ConsumesItsLayer`: three layers are the
least with which a slot is filled, consumed and filled again for another layer while the other
slot is in use.
**staging_handoff** - `IdleStorageIsQuiet`, `PoisonStopsWork` and again `ConsumesItsLayer`:
several leases and chunks with equal identities, joins that fail, closes. With two layers a
slot belongs to one of them; what it may find there are the records of an earlier chunk or lease.

**sparse_pool** - two slots for four tokens make every append and recall evict;
limit 4 lets the clock be renumbered in the first and in the second event of one
call; two writes in flight let a recall meet a record whose copy has not arrived.
`MapsSound` (the maps are inverse and a mapped slot holds its row's current record),
`HostKeepsHistory`, `HostProofsSound` (the residency proof and the append plan are true
whenever they would be used), and as action properties `EnsureDelivers` and `FifoOrderKept`.
**sparse_pool_reuse** - two pages for three sessions: released pages are used again, and a
snapshot taken at any quiet moment is restored at any later one that `restore` accepts.
`MapsSound`, `PagesOwnedOnce`, `SoleSessionHasRoom` (why the native paths need no victim
search). The VIEW leaves out what an unmapped slot holds, which nothing reads, and a
snapshot that can never be accepted again. **sparse_pool_interleaved** - steps of two sessions overlap,
as the pool alone allows. `StepsKeepApart`: no record and no lease is lost, even
through the rollbacks that the pool refuses.

**nosa_cache** - `SidesAgree`: main cache and indexer have one length and one pending
step whichever synchronisation fails, and no copy runs without a step.
`CommittedHistoryKept`: main rows, scores and derived records belong to the committed
history, over aborted steps and truncations that reuse rows. `CommitsAreFinite`: a
deferred answer is read before anything is published. Bounds: six tokens at stride 2
give two compression windows and two pooled blocks, the second reaching back into the
first's window; three steps are commit, abort or truncate, and append again.

**fixed_history_pool** - `HitsAreCurrent`: no tag that makes a hit lies, whatever happened
to its slot since. `AttentionReadsOwnTokens`: attention reads history and suffix of its own
session, also in page 0 that padding clears. `PoolUndisturbed`: the prefetch stream is
never ahead of, or outlives, its step, and the quota bounds what is retained. Bounds: the
shorter session's candidate lands on the longer one's second page; three owner numbers
allow a session to be replaced while its tags stay.

**dense_forward** - `DenseProofSound`: what is certified as resident is there, as the host has
it now, and no pending ticket goes stale. `UsableSessionsAgree`: between forwards all layers
stand at the session's length without a step, and a truncated session has the prefix's
hints. `ImplementsHistoryStore`: the histories in the host rows and index keys of all layers
are one, extended by a whole forward or not at all. Bounds: two tokens in chunks of one
need both a cold and a certified chunk; the session that takes the slots in between
costs a copy of the whole history; three forwards are prefill, extend or candidate, and
another. Sessions never exceed the pool's slots here: a longer history is refused
by the helper, which `Fail` covers.

Every property of a passing run has a mutant in `PROJECT.json`: a plausible bug put into
a modelled definition that makes TLC report the property violated.


## 4. Fairness

- `PersistentServing`: `WF_vars(Running)`. A called method of a single thread goes on;
  nobody has to call it. No outcome is fair: every driver call may fail for ever.
- All other modules: safety only, no fairness. In particular nothing is claimed of the
  termination of a join in `DoubleBufferStaging`: a stream waits only for an event that was
  recorded before the wait was submitted, so the waits form no circle whatever the code does.


## 5. Proofs

Every theorem holds for every value of the constants that the named assumptions of
its module allow: any number of sessions, layers, owners or tokens, and any value of
the bounds, which are naturals and limit nothing else. In each module `IInv` is the inductive
invariant; a lemma or step per action shows that the action keeps it, `Invariant` is
`Spec => []IInv`, and the other theorems follow from it. Each `IInv` was checked with
TLC on the module's run before it was proved.

The assumptions are on constants only. Sizes that the code divides by or allocates are not
zero, sets that are summed over are finite, and `None` is none of the values it stands beside
(`NoneAssumption`, which says no more than that Python's `None` is not a lease, a
ticket or a session).

### 5.1 Lifecycle (`ResourceLifecycle_proofs`, from `ConstantsAssumption`)

The invariants of the run are not inductive. Closing, for instance, must not
leave a plan behind, or a reopened registration would stand on it; an unbinding
may release only what the owner brought, which needs to know that `plan` still is
`initialPlan`; and the storage is the plan's except in the one poisoned state of a
failed allocation. `IInv` adds `StorageMatchesPlan`, `ClosedIsEmpty` and `PriorPlanKept` to `TypeOK`,
`LiveSessionsCurrent` and `OperationOnLiveSession`. `InitIInv` and `NextIInv` show it inductive, one step per action;
`Invariant`, `TypeCorrect`, `SessionsStayCurrent` and `OperationsKeepTheirSession` follow.
`RollbackReleasesOnlyNewStorage` and `PoisonFreezes` prove the action properties from it, action by action.
`LifecycleImplementsExclusiveStorage` proves the refinement with the mapping store = storage,
users = sessions, busy = active session, broken = poisoned: `InitRefines` and `StepRefines` map the
initial states and each action (binding stutters, an unbinding with rollback withdraws,
a failed drain breaks).

### 5.2 Serving (`PersistentServing_proofs`, from `PoolAssumption`, `CandidateAssumption`, `NoneAssumption`)

Proved: all its safety properties (`AnswersOwnHistory`, `SessionsAccounted`, `QuotaRespected`, `ReuseIsSafe`,
`OwnerReleasedLast`, `OutgrownSessionsRetire`). They are not
inductive because a request runs over many calls: what `Deliver` returns was computed several
steps before, from a session that `Prefill` filled in chunks. `IInv` therefore says for each
phase what the session in use holds, and that
a session nobody uses is unchanged since it was published.

`OutgrownSessionsRetire` has one step that is not obvious. A prefill may outgrow the session
without failing, and `candidate` refuses a session, before its `try`, without marking it: a refusal
right after the prefill, with a discard that fails, would leave an outgrown session that looks
reusable. It cannot happen (`BuiltCanRun`): the session holds its whole planned history, and its
plan has room for the request's candidates, because the plan was made for this request or passed the
capacity check of the hit. `RequestHasItsSession` and `RequestProgress` carry these two facts from
the admission to the scoring.

The quotas are sums over the cached entries. The community modules define such a sum by a fold
that CHOOSEs a recursive function over subsets, so even its existence needs an
induction, and the library's induction theorems cannot be cited here. `PoolLemmas` does each
induction by a least counterexample: `LeastNatural` and `LeastSet` give a smallest set on which the
claim fails, and one element less contradicts it. `SumIsRecursive` and `SumOfElement`
are what `QuotaRespected` rests on: an eviction takes away exactly the entry's charge.

### 5.3 Staging (`DoubleBufferStaging_proofs`, from `StagingAssumption`, `NoneAssumption`)

Proved: all its safety properties, among them `SlotsNeverRace`, `ConsumersReadTheirLayer`,
`CopiesKeepTheirSources` and `IdleStorageQuiet`, and the action property `PoisonIsFinal`. That two running
operations are in different slots says nothing of the operations still queued. `IInv` says
where in the two queues each slot's last copy and each consumer stand and what each waits for,
so that when an operation may start, everything it must come after is done; and
what a join half way already knows of the two streams.

### 5.4 Fixed slots (`FixedHistoryPool_proofs`, from `PoolAssumption`, `NoneAssumption`)

Proved: `TaggedPagesAreCurrent`, `AttentionReadsItsSession`, `NothingDisturbsThePool`. A tag may stay for
ever, so `HitsAreCurrent` needs that owner numbers are not issued twice (`OwnersOK`) and that the host
holds every committed page (`HostOK`); what attention reads needs to know which layers of the step
have had their history fetched (`FetchedOK`) and their append written (`SuffixOK`).

### 5.5 Forward (`DenseForward_proofs`, from `SizeAssumption`, `NoneAssumption`)

Proved: `CertifiedHistoryIsThere`, `LayersAgreeBetweenForwards` and the refinement
`ForwardImplementsHistoryStore`. A forward is a transaction over layers, each with a step of its own: `IInv`
relates the layers' cursors to each other (`CachesOK`, `KindOK`), says that the rows below the session's length
are one history in all layers and stores and those above it the forward's own (`HistoryOK`,
`PendingOK`), which hints a success would put back (`HintsOK`), and per layer what
the pool certifies and what a ticket's copy is still to bring (`LayersOK`).

The refinement maps a session's store to the set of histories found in its layers' host rows and
index keys, which `IInv` shows to have one member. `Begin` is the abstract `Begin`, a `Commit` extends that history by the
whole forward, a truncation or release cuts it, and every other step, every failure and every copy is a stutter:
each is shown to leave the rows below the length alone.

### 5.6 NOSA cache (`NosaCache_proofs`, from `SizeAssumption`)

Proved: `SidesNeverDisagree`, `CommittedHistoryIsKept` and the action property `CommittedStepsAreFinite`, for any number of layers, any stride and any pool.
The committed prefix is kept only because of what holds in the middle of a step, so `IInv` adds:
every queued copy is one of the pending step's suffix (`CopiesOK`); a layer that has written holds the
step's records, but for rows a queued copy still has to bring (`WrittenOK`); pending derived records are those
of the history followed by the step (`DerivedOK`); and what is prepared without a deferred flag is finite (`StateOK`).
The arithmetic is in lemmas of its own: a window or block that n tokens complete lies within
n tokens (`WindowWithin`, `BlockWithin`), the counts grow with the tokens (`DerivedMonotone`), and truncating the counts of m tokens to n
gives those of n (`TruncatedDerived`), which is why derived records can be told apart by counts alone.

### 5.7 Token pool, host side (first part of `SparseTokenPool_proofs`, from `SlotsAssumption`, `PoolAssumption`)

Proved: `PagesAreOwnedOnce`, `HistoryStaysInHost` and `StepsStayApart`, for any sessions,
capacities, layers, pages and slots, with `SerialSteps` or without it. These are the host side of the
pool, and the proof does not depend on the maps between rows and slots: one lemma per operator
of `TokenSlots` (`LeasedKeeps`, `EvictedKeeps`, `InstalledKeeps`, ...) says that it leaves the host rows alone, and
`SupersededKeeps` that aging touches one session's records from an index on.
`IInv` adds to the three properties what they need in the middle of a step:

- a live session has the pages of its capacity, so that each of its indices has a row
  (`AllocationOK`; `IndexHasRow`), and by the page ownership no two tokens of live sessions share one (`RowsAreApart`);
- the ends of a step are ordered and within the capacity, also after a rollback was refused (`CacheOK`);
- the prefetch workspace is held on a layer whose candidate rows are free or its
  holder's own (`WorkspaceOK`). Without it a refused rollback could give up a step that still holds the workspace.

`QuietStep` covers every call that neither appends nor completes a copy. `AppendRecordsKeeps` shows that a new copy is the
last to reach its own rows and reaches no other row of a history, and `HostWriteKeeps` that completing
the oldest copy does not change what any row will hold in the end.

### 5.8 Token pool, device side (second part of `SparseTokenPool_proofs`, with `WorkspaceAssumption`)

Proved, for any sessions, layers, pages, slots, candidate rows and any clock limit above the number of slots:

| theorem | property | hypotheses |
|---|---|---|
| `MapsStaySound` | `MapsSound` | serial steps, at most one snapshot |
| `HostProofsStaySound` | `HostProofsSound` | the same |
| `RecallsDeliver` | `EnsureDelivers` | the same |
| `RoomForSoleSession` | `SoleSessionHasRoom` | the same |
| `TypesStay` | `TypeOK` | the same |
| `FifoOrderStays` | `FifoOrderKept` | serial steps, no snapshot |

The hypotheses are needed, not convenient. `SerialSteps` is what `ResourceLifecycle` guarantees; without it a
refused rollback leaves rows mapped that nobody will undo, and TLC finds `MapsSound`, `HostProofsSound` and
`SoleSessionHasRoom` violated on the instance of `sparse_pool_interleaved`. Two snapshots are the
finding `sparse_pool_stale_snapshot`; on its instance `MapsSound` falls as well. A
restore brings earlier ages back on purpose, so `FifoOrderKept` is a property of a pool without one. The number
of layers is free: the theorems also hold of a backend that the rollback of section 6 has poisoned.

Three invariants carry the proofs, each on top of `IInv`:

- `DInv` (`DeviceInvariant`). Per layer: the maps mirror each other, every age is below the clock, free flags and
  ages agree with the maps but for the slots claimed by a prefetch that is not finalised, and every mapped slot
  shows its record (`LayerSound`). What makes it inductive are the places where the caller does not look: the order a
  prefetch works through has no slot twice and its host copies have arrived (`PrefetchOK`); a cache in no step shows what is
  committed unless its step failed (`IdleCommitted`); and the snapshot, while it would be accepted, shows records within its lengths
  that nobody has written anew (`SnapshotsOK`) - which is where two snapshots break it.
- `CInv` (`CallerInvariant`, without hypotheses). The caches' fields, and that a transient suffix fits the
  candidate rows and is in them.
- `GInv` (`ProofInvariant`). Per layer: a residency proof belongs to the holder of the lease and names mapped rows, no more than
  its history unless its step has failed (`ResidencyOK`); a plan's slots up to its cursor hold the history in order, and from the
  cursor on they are in FIFO order and older than those (`PlanOK`, `InOrder`); and while a prefetch is pending the layer has neither.
  A proof that said only that the plan agrees with the search now would not survive the next append.

Below them is one lemma per operator of `TokenSlots` about maps, ages, records and proofs (`EvictedIs`, `InstalledIs`,
`LeasedProofsAged`, ...), and three groups of facts about data. `OldestLists`: the argsort exists and lists its set
once, because the numbers of slots ahead are different and below the size of the set. `RanksKeepOrder` (`PoolLemmas`): ranks keep the order of the ages, so that
a renumbering in the middle of a call changes no victim and leaves the clock below its limit. `PlanTail`: a list that is in order
from a place on is, from there, the head of the argsort. Room for a recall or an append is counted by
comparing cardinalities of the slots and of the rows that must stay.

### 5.9 Only model-checked

- Liveness: `RequestEnds`. The prover has no ENABLED, so nothing that rests on
  weak fairness can be derived.
- The two violations of section 6 are counterexamples and need no proof.
- Induction over data in general: where a definition folds over a sequence, the modules with theorems use
  a declarative equivalent (`Synchronized` of `NosaCache`) or the least counterexamples of `PoolLemmas`.


## 6. What the checks found

`sparse_pool_layers`: `SparseTokenCache.rollback` gives up its step before a truncation that can be
refused. After the exception the cache is in no step, still shows uncommitted records, and cannot be rolled
back again; only `truncate` repairs it. A backend gets there with one session and several layers: when a
forward fails while layer m's fused prefetch is pending, the rollback loop (adapter.py:886) starts with
layer 0, and the workspace that m still holds refuses every layer before m. Layer m, rolled back
afterwards, would have released the workspace. The backend is poisoned, so nothing is computed from these
rows; but the failed chunk is not undone everywhere and the earlier chunks can no longer be used, which
`executor/README.md:37` says they can. The loop in `model.py:796` is the same. Without a backend, two sessions on one
layer reach the same state, because `begin_transient` asks only for a transient owner; a backend never overlaps two sessions
(`ResourceLifecycle` admits one operation at a time, proved), and with that (`SerialSteps = TRUE`) the pool's
invariants hold (proved).

`sparse_pool_stale_snapshot`: `restore` shortens a cache without `invalidate_snapshots`, which
every truncation calls. A longer snapshot stays valid, and once the prefix has been written
anew up to its length it is accepted: its slots show the old records, the host rows hold the
new ones. It takes two snapshots; with one kept at a time (`sparse_pool_reuse`) what is
restored is current. Snapshots are taken by diagnostics and measurements.

Modelling the forward (`DenseForward`) showed two places where a session's prefetch hints,
which only predict what to fetch, are not those of its prefix. First, a candidate that
fails does not put the hints back
(adapter.py:892). The next one that succeeds saves and restores the changed hints, and
the truncation after it takes the fast path, whose comment (adapter.py:969) says that
the retained offset tensors were restored. The runtime marks the session failed
(executor/runtime.py:150) and does not retry, so a served session does not meet this.
Second, a session that was cut below its prefix and extended to the same length again
is taken for its prefix. `strayHints` marks both; everything else of `UsableSessionsAgree`
holds without exception.

One more was met reading, outside the models: `truncate(session, 0)` of a session never
prefilled meets empty `prefix_offsets` and `zip(..., strict=True)` raises after the caches
were truncated (adapter.py:980); no caller does it, and the model truncates prefilled
sessions only.


## 7. What is not modelled

- In the lifecycle: nothing that changes its state.
- In serving: the HBM-token quota (same arithmetic as pages), `runtime.append` (not
  used by the runner), metrics, digests, argument types.
- In staging: the check that the caller uses one stream; a CPU device is the case in
  which every submitted operation has run before the caller goes on.
- In the forward: an `extend` in several chunks (`extend_chunk_size`, by default none; here an
  extend is one chunk, a prefill takes several), an extend of a session that was never prefilled (the
  runtime's rule, executor/runtime.py `append`); the staging lease that `dense_prefetch` uses without a pool
  (`_dense_lease`: `DoubleBufferStaging` has the storage), graph capture of the
  copies, metrics, hooks, `configure_scheme`.
- In the NOSA cache: opaque layer states (`set_layer_state`, which only tests call), the weak
  set of sessions in `CacheManager`, a resident cache without an indexer, the query
  that a prepared layer is checked with again.
- In the fixed slots: histories that do not end on a page. A planned session never has
  one (`nosa/execution/fixed.py:147`); a direct append of one is rejected by
  `commit_history` after the length was published (`nosa/cache/fixed.py:35`). Also
  left out: the scheme `hbm`, which has no pool, the byte plans; KV heads do not interact and one is modelled; the fetch kernel's tiles.
- In the token pool: graph capture, the unshared cache, counters; several caller streams; the indexer's own visible end,
  which follows `written`. The native metadata kernels replace the reference path
  that is modelled, with the same effect. `Layer` is a constant set; the passing runs use one
  layer, since layers share only the prefetch workspace and the write queue; `sparse_pool_layers` has two, and
  the theorems any number.
- Numerical code: kernels, attention, quantisation, top-k.
- Data is abstract: records are owner and index, histories are names.


## 8. The plan

Done: `ExclusiveStorage`, `ResourceLifecycle` and its proofs (everything else relies on
one operation at a time); `PrefixSessionPool`, `PersistentServing`; `DoubleBufferStaging`;
`TokenSlots`, `SparseTokenPool`; `NosaCache`; `DenseForward` with `HistoryStore`;
`FixedHistoryPool`.

The proofs of section 5 cover every safety property of the passing runs.

Left: graph recipes (`cache/sparse_token_graph.py`), the one hazard without a property, and the
unshared cache of `sparse_token_cache.py`.
