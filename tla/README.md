# TLA+ models of the gfx803 stack

The repository keeps a Polaris (gfx803) GPU usable with current ROCm: patches to
the HSA runtime, the HIP runtime and the math libraries, a build pipeline that
applies them, and a fork of vLLM that is the main workload.  The models here
cover the parts whose correctness depends on an order of events that is hard to
provoke in a test: what happens to freed GPU memory under the patched memory
manager, how packets reach the GPU through the patched queue, what happens to
KV-cache blocks in the inference engine while steps are in flight or loads fail,
and how the engine's processes talk to each other.

## Inventory

| Part | State | Operations | What is hard |
|---|---|---|---|
| Deferred release in libhsakmt (`patches/rocm-systems/va-reuse-defer*.patch`) | per aperture: object tree, free list, FIFO of freed objects, two counters; per object: kernel handles, mapping, `deferred` flag | allocate, map, unmap, free, eviction loop, scratch teardown at exit | double frees, failed ioctls and `calloc`, GPU work in flight, two limits |
| AQL ring and legacy doorbell (`aql-ring-queue-full-workaround`, `hsa-agent-rejects-legacy-doorbell`) | read and write index, slot headers, doorbell watermark, spin lock | reserve, wait for a slot, fill, ring doorbell, fetch, reload of the write pointer | several producers, a ring that is exactly full, indices that wrap |
| Graph replay batching (`graph-replay-batch-chunk-deadlock`) | the chunk being submitted | reserve a chunk, wait for its slots, submit | a chunk waiting for itself |
| TC cache maintenance (`gfx803-tc-invalidate-acquire-mem`) | cache lines, memory, packets in order | dispatch, copy, event record | stale or unflushed lines across queues |
| Device-to-host copies (`d2h-*`, `pinned-release-system-scope`) | staging buffer, pinned mapping | copy, drain, unpin | late drain against unlock |
| SGEMM shim (`patches/rocblas/sgemm-shim`) | loaded symbols | intercept, choose kernel | fallbacks |
| vLLM free block queue (`kv_cache_utils.py`) | doubly linked list and a counter | pop, remove, prepend, append | links and counter maintained by hand |
| vLLM block pool (`block_pool.py`) | reference counts, block hashes, map from hash to blocks, KV events | touch, get new blocks, cache, evict, free, reset | eviction against hits, duplicates |
| vLLM KV-cache manager (`kv_cache_manager.py`, `single_type_kv_cache_manager.py`) | block tables, cached counts | lookup, allocate slots, free | capacity at the limit, hit blocks on the free queue |
| vLLM scheduler (`sched/scheduler.py`) | running and waiting requests, computed tokens, the step being built | schedule, preempt, admit, output, finish, reset | preemption inside a step |
| Async scheduler (`sched/async_scheduler.py`, `scheduler.py`) and the engine's batch queue (`engine/core.py`) | placeholders, in-flight and stale token counts, parked releases behind fences, batches in flight | schedule ahead, take output, preempt, abort, reset | output that arrives after a preemption, blocks freed under a running step, copy-on-write |
| KV connectors in the scheduler | requests set aside for a load, received and failed sets | load synchronously or not, promote, invalidate, evict | a failed load of blocks that are shared and cached, aborts |
| vLLM shared-memory broadcast (`shm_broadcast.py`) | ring of chunks with flags, sockets, notifications | enqueue, dequeue, shutdown | two sides without a lock, lost notifications, timeouts, a dying writer |
| Engine core and executor processes | processes, RPC | broadcast, collect, restart | lost workers |
| CI pipeline, relaunch supervisor | pins, job graph, restart loop | resolve, build, retry | retries, partial failure |

The runtime patches sit under everything that allocates GPU memory or dispatches
to the GPU; the scheduler calls the KV-cache manager, which calls the pool, which
keeps its free blocks in the queue; the engine sends what it schedules to its
workers through the broadcast queue.  The pool is used from the scheduler's
thread only; what runs concurrently with it is the model on the GPU, which writes
into blocks some time after they were handed out and entered into the prefix
cache, and the connector's transfers.  `src/rocm7.14` and `src/rocm6.4.4` are
archived lines of the same patches and are left aside.

## Modules

* `FmmDefer`: libhsakmt's memory manager as the patches leave it.  An area is a
  virtual-address range; the object for it, its kernel handles (`live`,
  `mapped`), the FIFO and the counters are variables with the names of the C
  fields.  `Release` is `__fmm_release` with its four outcomes; a release that
  parked an object then runs the eviction loop as `Evict` steps while it holds
  the aperture's mutex (`draining`), so that GPU work, other apertures and ioctl
  failures interleave with the loop.  The kernel driver, the GPU, process exit
  and `fmm_release_scratch` are external to the repository and modelled from how
  the patches describe and use them.  `frees`, `held`, `faulted`, `orphan` and
  `lastFreed` are history variables.
* `AqlQueue`: the queue of one agent.  A producer takes a chunk of ids, waits for
  the slots, fills them and rings: the lock, the store of the watermark, the
  doorbell write and the unlock are separate steps.  A producer in `Graph`
  replays a captured graph in chunks no larger than `kPeriod`, after the clamp of
  `graph-replay-batch-chunk-deadlock.patch`; the others dispatch one packet at a
  time.  The packet processor is external: it fetches while its masked pointers
  differ (`CpFetch`), and re-reads the write pointer when the queue is mapped
  again (`CpReload`).
* `BlockQueue`: what the free block queue promises, a sequence of blocks; its
  operators are also what `BlockPool` uses.
* `FreeBlockQueue`: the linked list itself, one action for each method.
* `BlockPool`: the pool as one record (`free`, `ref`, `hash`, `map`, `stored`),
  its methods as functions of the record, the manager's `allocate_slots` and
  `free`, and the synchronous scheduler's step.  `cursor` walks `running` as
  `req_index` does; `Schedule`, `Skip` and `Preempt` are the outcomes for the
  request at the cursor, `want` keeps `num_new_tokens` while the request is
  retried, `open` becomes false when the step preempts or refuses somebody,
  `Admit` and `Refuse` are the waiting loop, and `Execute` is the end of
  `schedule()` with the run of the model.  `Reset` is the plain reset of the
  prefix cache; the forced one preempts the running requests one by one
  (`ResetPreempt`) before it resets (`ResetForced`), with nothing in between
  (`forced`).  A hash is the prefix it is computed from.  `content` is what the
  GPU last wrote into a block; `stored` is what a subscriber that replays the KV
  events believes in.  Token budgets are abstracted to any chunk, the order of
  the waiting queue to any order, and the admission watermark, the reserved blocks
  and the demand that a whole sequence fit are left out; each admits more
  behaviours than the code.
* `DeferredFrees`: the scheduler with several batches in flight and
  `defer_block_free`.  What `BlockPool` proves and checks of reference counts is
  used as the abstraction: a block is free exactly when nothing refers to it.
  `schedule()` is not one step; `phase` is where the engine is in it, and
  requests, preemptions and copies are added to `cur` one by one.  `deferred` is
  `deferred_frees`, a fence and the blocks behind it; `flight` is the batch queue
  with what each step touches on the device.  A request that ends, by its output
  or by an abort in any state, may have its free delayed by the connector.
* `AsyncStep`: the counters of one request under `AsyncScheduler`
  (`num_output_placeholders`, `num_in_flight_tokens`, `num_stale_output_tokens`,
  the drafts, the pipeline gap).  Other requests appear as memory pressure
  (preemption at any time) and as steps without this one.  A token is modelled by
  its position and by the run of the worker that sampled it, which is enough to
  see one dropped, repeated or reordered.
* `KvLoad`: `_handle_invalid_blocks` and what surrounds it, one batch at a time:
  synchronous loads inside a step, asynchronous ones with the request set aside,
  both failure policies, shared blocks, preemptions and aborts.  `kv[b]` says
  whether a block holds the right KV.  A request is followed to its first token;
  those that go on decoding are the environment: they take free blocks out of the
  cache (`TakenByOthers`), and when `allocate_slots` fails for one of them,
  `BeginSchedule` preempts any of the others (FCFS takes the last of `running`,
  PRIORITY any), whose blocks are freed with their hashes; such a step admits
  nobody (`phase = "preempted"`).  Aborts come between two steps (`Abort`) or while
  one runs: those are processed before its output is (`engine/core.py:619-622`),
  so the scan for failed loads misses these requests (the set `A` of `Update`).
  `abandoned` is a history variable: the requests that left the batch, preempted or
  aborted, when they had still to compute again a block that is in the cache, or
  while the step ran in which one of their cached blocks failed.  Of several blocks with one hash a hit returns the one
  cached first (`get_one_block`; `second` marks the others), and under the
  recompute policy, where nothing is evicted, blocks are reused children first:
  `Closed` states what `PrefixClosedHolds` proves of `BlockPool`.  With hits of
  any block, or parents reused first, a request could end with wrong KV.
* `Broadcast`: what the message queue promises: every message to every reader,
  once and in order, with the writer at most `Backlog` ahead of a local reader.
* `ShmBroadcast`: `enqueue`, `dequeue`, `acquire_write`, `acquire_read`,
  `SpinCondition` and `shutdown`, with one step for each access to shared memory
  or to a socket: the two flags are loaded one after the other, the read flags
  are reset one by one, the written flag is raised last.  A notification may be
  lost, an exception may leave the body of `acquire_write`, a timeout may end
  either side, the writer may die anywhere.
* `FmmDeferProofs`, `AqlQueueProofs`, `FreeBlockQueueProofs`, `BlockPoolProofs`,
  `ShmBroadcastProofs`, `DeferredFreesProofs`, `AsyncStepProofs`, `KvLoadProofs`: the
  theorems.
* `MCFmmDefer`, `MCAqlQueue`, `MCBlockPool`, `MCAsyncStep`, `MCKvLoad`: the
  constants of the runs.

Settings that are fixed when a process starts are a variable that no action
changes: `doorbell_type` in `AqlQueue`, `conf` in `AsyncStep` and `KvLoad`.  A
run then covers several settings.

## Runs

| Run | Checks | Shows |
|---|---|---|
| `fmm_window` | `FifoConsistent`, `NoOrphanBO`, `WindowHonoured` | FIFO, flags, tree and counters agree under every order of frees, double frees and failed `calloc`; no kernel buffer outlives its object; a parked address waits for its window |
| `fmm_faults` | `ParkedKeepsBOs`, `NeverPopsEmpty`, `DrainTerminates`, `ScratchTornDown` | with ioctls that fail at will, two handles per object and an object larger than the byte limit, parked memory stays allocated, the loop never follows a null pointer and ends, and so does the teardown at exit |
| `aql` | `NoOverwrite`, `FetchInOrder`, `DoorbellExact`, `AllFetched` | with either doorbell, packets of three producers are neither overwritten nor reordered, a full ring is not taken for an empty one, no chunk waits for itself, everything is fetched |
| `free_queue` | `CountAgrees`, `ImplementsQueue` | the linked list refines the sequence; its counter counts it |
| `pool` | `RefsAreHolders`, `HashesAgree`, `TablesHoldOwnKV`, `NoPhantom`, `PrefixClosed`, `FaultFree`, `CachedKVRight`, `InUseUndisturbed` | sharing, duplicates, eviction, preemption and resumption, blocks that several steps fill, both resets |
| `pool_priority` | `CachedKVRight` (violated) | finding 1 |
| `defer` | `NoLateAccess`, `LoadTargetsQuiet`, `NearMonotone`, `ParkedReturn` | with three batches in flight no block is in the pool, or the target of a load, while a step may touch it; the fences keep the order the drain relies on; parked releases are let go |
| `async` | `TypeOK`, `InOrder`, `KVInPlace`, `CountersExact`, `NoOverschedule`, `Finishes` | the counters never go negative and say exactly what is in flight; the output is in order; the request ends |
| `kv` | `OutputsRight`, `WrongIsOwed`, `CacheRight`, `FailedLoadEvicted` | no output comes from KV that was not loaded; what is wrong in the cache is owed by a running request, or evicted; the only exceptions are requests that were preempted or aborted before they could recompute or be scanned (`abandoned`) |
| `kv_shared` | `DependentsEvicted` (violated) | finding 2 |
| `shm_ring` | `NoTornRead` | no reader sees a chunk while it is rewritten, with timeouts, exceptions, a dying writer and shutdowns |
| `shm_overflow` | `PayloadMatches`, `BroadcastSpec`, `Delivered`, `EnqueueReturns` | without timeouts, with local and remote readers and messages that overflow a chunk the queue implements the broadcast, delivers everything although notifications are lost, and does not block its writer for ever |

`ParkedBounded`, `ReservedWhileObject`, `RingInv`
of `ShmBroadcast`, `LinksAgree` of `FreeBlockQueue`, and the type invariants of
`FmmDefer`, `AqlQueue`, `FreeBlockQueue`, `BlockPool`, `ShmBroadcast`,
`DeferredFrees` and `KvLoad` are proved and not in a run; so is the safety part
of progress (see below).

### Bounds

* `FmmDefer`: areas of one and of three units with `QueueMax = 2` and `BytesMax =
  3` make the length limit, the byte limit and a single object at the byte limit
  each occur alone; `BytesMax = 2` in `fmm_faults` makes one object exceed it.
  One aperture of each kind is enough because apertures share no state.  The run
  with failing ioctls uses fewer areas and two handles, so that a free fails for
  one handle and succeeds for the other.  The model may stop (no more calls),
  hence `CHECK_DEADLOCK FALSE`.
* `AqlQueue`: four slots, a graph of five packets and two single dispatches by
  each of two more producers: the ring is filled exactly, twice lapped, and
  `BatchSize = Size` makes the clamp of the chunk matter.  `Wrap = 8` lets the
  low bits of a type-1 doorbell wrap.  The budgets end, hence no deadlock check.
* `FreeBlockQueue`: four blocks give lists of every length from empty to full and
  a middle with neighbours on both sides.
* `BlockPool`: four blocks of two tokens, one of them the null block, are fewer
  than the three requests need together, so the pool runs dry; texts share a
  block, or only a part of one, and then part; a request may arrive again after
  it finished, so behaviours are unbounded though the states are finite.
  Deadlock is checked.
* `DeferredFrees`: `Depth = 3` puts two batches between a step and the one that
  may reuse its blocks; two blocks and two requests make every release matter.
  `MaxSteps = 4` is one step more than the batches that can be in flight.
* `AsyncStep`: prompt of two, four output tokens and two preemptions; two drafts
  with two stages, one draft with three stages and a connector that drops stale
  output, and no drafts.  The request ends, hence no deadlock check.
* `KvLoad`: three requests whose prompts share one or two blocks for synchronous
  loads, one of them a single block that is computed twice when it is shared, and
  two for asynchronous ones, all with preemptions and aborts; five blocks are fewer
  than two requests of three need with nothing shared.  The requests end.
* `ShmBroadcast`: three chunks and six messages take the writer twice round the
  ring, an overflowing message in each lap; two readers make the loop over the
  flags observable.  With liveness and a remote reader two chunks, three messages and the first two of them too large, so that a large
  message meets a large and a small one.  The messages end.

### Fairness

* `FairSpec` of `FmmDefer`: the eviction loop (a thread that holds the mutex and
  does not block keeps running) and the teardown at exit (the exiting thread).
  Nothing is assumed of callers or of the GPU.  `ScratchTornDown` excuses a
  failed ioctl: the loop of `fmm_release_scratch` retries an object whose free
  failed, without a bound.
* `LiveSpec` of `AqlQueue`: producer threads run and the packet processor
  fetches.  Nothing obliges the queue to be mapped again (`CpReload`), so lost
  doorbells would not be repaired.
* `LiveSpec` of `DeferredFrees`: the engine's loop, which schedules and takes
  outputs while there is work.  Aborts, resets and transfers owe nothing.
* `LiveSpec` of `AsyncStep`: weak fairness for taking output and for calling
  `schedule()`; strong fairness for the request's own turn, because the scheduler
  walks its queues from the front and other requests end.
* `LiveSpec` of `ShmBroadcast`: a writer inside `enqueue` and a reader of a
  dequeue loop are processes the operating system runs.  Notifications are not
  fair: the recheck interval of `SpinCondition` is what delivers.

## Findings

1. **Blocks that were never computed can be hit under the PRIORITY policy**
   (`pool_priority`).  `allocate_slots` caches the blocks the step is going to
   fill.  A running request of lower priority that comes earlier in `running` is
   scheduled, a later one does not fit, and the first is preempted inside the
   step (`scheduler.py:685`): it is taken out of the batch and its blocks are
   freed, but they keep their hashes.  The next lookup, its own resumption for
   one, returns them as computed.  FCFS preempts the last of `running`, which the
   step has not reached yet, and `pool` shows that this is enough.
2. **Blocks that depend on a failed load can stay in the cache under the fail
   policy** (`kv_shared`).  `_update_requests_with_invalid_blocks` promises the
   "invalid blocks and downstream dependent blocks" (`scheduler.py:2952-2953`),
   but a request whose failed blocks were all marked by an earlier request adds
   nothing (2983-2990): its own later blocks, computed in the same step and
   already cached, stay.

### Disagreements without a run

The following properties are defined in the modules and TLC violates them on the
instances named here; they are not among the runs.

* `LateReaderTolerated` (`FmmDefer`; `MaxInFlight = 1`, `BytesMax = 3`): the
  patch's comment (`va-reuse-defer.patch:136-140`) promises a valid page to a
  kernel in flight.  The runtime unmaps before it frees, and since
  `va-reuse-defer-noremap.patch` the park no longer maps the object again.
* `NotHandedStraightBack` (`FmmDefer`; `BytesMax = 2` and an object of size 3):
  `va-reuse-defer.patch:198-199` excludes that an address is handed straight
  back; an object larger than `FMM_REUSE_BYTES_MAX` evicts itself in the call that
  parks it.
* `TimeoutLosesNothing` (`ShmBroadcast`; one reader, `Big = {1, 2}`, `MaxMsgs =
  3`, `MaxChunks = 2`, `Timeouts`): a local reader marks the chunk read before it
  waits for the payload of an overflowing message (`shm_broadcast.py:811-819`,
  `913-914`).  If that wait times out the chunk is consumed, and the next dequeue
  takes the next chunk while the late payload stays at the head of the socket.
  `tests/distributed/test_shm_broadcast.py:265-274` expects that a dequeue after
  a `TimeoutError` returns the message sent meanwhile.
* `ShutdownWakes` (`ShmBroadcast`, `LiveSpec`; `Big = {1}`, `WriterDies`,
  `ShutDowns`): "a separate thread in the reader's process must be able to wake
  the reader so that it can exit" (`shm_broadcast.py:124-126`).  `shutdown` pings
  the cancel socket, which only `acquire_read` polls; a reader in `recv` for a
  payload whose writer died polls the data socket alone.
* `ForcedResetSucceeds` (`DeferredFrees`; two blocks, `Depth = 2`, `MaxSteps = 3`,
  no copies): "we can make sure the reset is successful"
  (`scheduler.py:2617-2619`).  With `defer_block_free` the blocks of a preempted
  request that a step in flight has scheduled are parked and keep their
  reference counts, so the reset raises; the error's text names only requests
  waiting for remote KV.
* `WillBeRecomputed` (`KvLoad`; `Configs = {Config(TRUE, FALSE, FALSE, {ra, rb})}`):
  failed blocks stay cached under the recompute policy because they "will be
  recomputed and reused by other requests sharing them" (`scheduler.py:3069-3071`).
  The request that was to recompute them is in `running` with its blocks, and the
  next `schedule()` may preempt it for a decoding request before it in `running`
  that finds the pool empty (657-719): `_preempt_request` frees its blocks with
  their hashes (1405-1446), and its own resumption, or another request with that
  prefix, hits the wrong KV.  No abort is needed; an abort has the same effect.
  TLC also finds the wrong output (`wrong # {}`) on that instance.
* `FailedLoadEvicted` for aborted requests (`KvLoad`; `Configs = {Config(FALSE,
  FALSE, TRUE, {ra, rb})}`, without the exception for `abandoned`): "evict invalid
  blocks and downstream dependent blocks from cache" (`scheduler.py:3069`).  A
  request aborted while the step runs is finished before `update_from_output`
  (`engine/core.py:619-622`); it is not in `running` when the failed blocks are
  looked for (3057-3061), and they stay cached under the fail policy.

## Proofs

Each proof is of the shape: an inductive invariant of the specification, then the
properties as consequences of it.  TLC has checked the invariants on small
instances.

`FmmDeferProofs`, for any set of areas and apertures, any sizes and limits,
failing ioctls and failing `calloc`, from `AreaAssumption` and `LimitAssumption`:

* `Inductive`: `TypeOK /\ IInv`.  `FifoConsistent` is not inductive by itself:
  the byte counter is only known to be right if `held` of each entry is its own
  size plus `held` of the next, so `IInv` relates neighbouring entries of the
  FIFO, fixes the number of frees since an entry's park by its position, ties
  `reserved`, `tree` and the flags together, and says that the handles of a parked
  object are all alive.
* `TypeCorrect`, `FifoCorrect`, `LoopSafe`, `MemorySafe`, `FifoBounded`,
  `AddressesReserved`, `NoBOOrphaned`: consequences of it.
* `WindowCorrect`: the action property, from `IInv` and the position of the head.
* `ScratchTeardown`: every scratch object the exiting thread can meet is
  releasable, and a turn of its loop takes an object from the tree or unmaps one
  and puts none back, unless an ioctl fails.  `ScratchInv`: until one does, an
  object of a scratch tree has all its handles, all mapped or none.

`AqlQueueProofs`, for any ring and batch size, number of producers and budget,
with either doorbell, from `AqlAssumption`:

* `RingSafe`: the invariant `RingInv`.  `NoOverwrite` depends on where every
  other packet is: reserved chunks lie between the read and the write pointer and
  are apart from each other, a chunk that has been let through ends at most a ring
  after the read pointer, a packet in the ring is of the current lap, in its own
  slot and nobody's still to write; the write pointer of the packet processor is
  the mask of an id between the read pointer and the watermark, and the lock's
  holder rings for the watermark it stored.  Two ids of one lap in one slot are
  equal (`SameSlot`), and the distance of two masked pointers is that of the ids
  if it is less than the mask (`ModDiff`): this is where the doubled ring is
  needed.
* `TypeCorrect`, `NeverOverwrites`, `FetchesInOrder`, `DoorbellIsExact`:
  consequences.
* `DispatchNeverStuck`: until all is fetched a producer can take a step or the
  packet processor can fetch.  `ProgressInv` accounts for every id between the two
  pointers, as a producer's own or as in the ring below the watermark, and says
  that no chunk is longer than the ring's capacity, the clamp of
  `graph-replay-batch-chunk-deadlock.patch`.  Then the producer of the oldest
  chunk has its slots.

`FreeBlockQueueProofs`, for any number of blocks, from `QueueAssumption`:

* `Invariance`: the invariant `IInv` names the sequence the list holds.  Some
  sequence of distinct blocks is threaded by the links in both directions between
  the fake head and the fake tail, blocks outside it have no links, and the counter
  is its length.  Every method is one of two things: a stretch is cut out
  (`CutLinked`: `popleft`, `popleft_n`, `remove`) or inserted (`InsertLinked`:
  `append`, `append_n`, `prepend_n`).
* A walk along the links is a recursive function; that it meets the nodes in order
  (`WalkIs`) is proved by induction, and so is what `remove` makes of the abstract
  sequence (`RemoveCut`).
* `TypeCorrect`, `LinksCorrect`, `CountCorrect`: consequences.
  `ImplementsQueueHolds`: the sequence of the invariant is `FreeList`, and every
  step of the list is a step of `BlockQueue`, whose operators `BlockPool` uses.

`BlockPoolProofs`, for any number of blocks, block size, finite set of requests,
texts and either policy, from `PoolAssumption` (which says that there are finitely
many requests, so that reference counts are numbers):

* The pool's methods are described first (`AllocateIs`, `FreeIs`, ...): what
  `Keep`, `Touch`, `GetNewBlocks`, `CacheFullBlocks` and `FreeBlocks` do to each
  field of the record.  `Keep` is a recursive function, and what it returns is
  proved by induction over its length (`Smallest`, `Induction`, `KeepFacts`).
* `HashesCorrect`: each method preserves the agreement of map and hashes of the
  record it is given.  `CacheFullBlocks` needs that the blocks had no hash, which
  is the assertion in `cache_full_blocks`.
* `Invariance`: the invariant `IInv`.  `FaultFree` and `RefsAreHolders` depend on
  each other and on nearly everything else: `allocate_slots` finds its blocks
  because the free queue is exactly what nobody holds (`RefInv`); its assertion on
  the blocks it caches holds because a table's first `cached[r]` blocks, the full
  ones, carry the hashes of `r` and the others none (`TableInv`), which other
  requests leave alone because a block without a hash has one holder (`ShareInv`);
  the step asks for tokens the request has (`RunInv`, `StepInv`).  For
  `PrefixClosed`, `OrderInv` says that some block with the parent's hash is held or
  behind the child on the free queue: preserved by a release because it frees a
  table backwards and appends, by an allocation because it takes from the front.
* `TypeCorrect`, `NoFault`, `RefsCorrect`, `NoPhantomHolds`, `PrefixClosedHolds`:
  consequences.  `InUseHolds` is the action property.
* `CachedKVHolds`, `OwnKVHolds`, under FCFS: a block with a hash holds its KV or is
  due, that is, a request in the step will write exactly that (`CacheInv`,
  `OwnInv`).  A preemption keeps this because the last of `running` is not in the
  step yet (`StepInv`), and the model run because a block that is still to be
  computed by somebody has one writer (`ShareInv`, `OneWriter`).  Under PRIORITY
  the first of these is finding 1.

`AsyncStepProofs`, for any prompt, limit, number of drafts, stages and
preemptions, from `AsyncAssumption`:

* `Invariance`: placeholders, in-flight and stale counts are sums over the steps in
  flight (`CountInv`), sums being a recursive function whose laws for appending a
  step, dropping the first and marking all stale are proved by induction.  `InOrder`
  needs besides where the positions of each step in flight start and that the steps
  of one run of the request follow each other without a gap (`StepInv`,
  `OrderInv`), that the KV of the next position is in place whatever was rejected
  (`KVInPlace`), and how far the request may still go (`EndInv`).
* `TypeCorrect`, `OutputInOrder`, `KVStaysInPlace`, `CountersAreExact`,
  `NothingOverscheduled`: consequences.
* `RequestNeverStranded`, from the same invariant: a running request has a token to
  compute; the check for `max_tokens` holds it back only for one missing token,
  which a step in flight samples; a preempted one is held back for stale output
  only while a step in flight brings some.

`ShmBroadcastProofs`, for any number of readers, chunks and messages, with
timeouts, exceptions, crashes and shutdowns, from `ShmAssumption`:

* The invariant is `TypeOK`, that data is published before the chunk is, and
  `RingInv`: each reader's next `Lag` chunks are written, unread and hold the
  messages it is due; the other chunks cannot look readable to it; inside
  `acquire_write` the chunk is the writer's alone.  `NoTornRead` is not inductive,
  since what a reader finds in a chunk depends on flags set a lap earlier.
* `TypeCorrect`, `RingConsistent`, `ReadsWhole`: consequences.
* `PayloadMatchesHolds`, `ImplementsBroadcast`, for any set of overflowing messages
  if callers pass no timeout, and for any timeouts if no message overflows: a
  `recv` that times out has already freed the chunk and gives up on its payload,
  which the next overflowing message's reader would then find.  `DeliveryInv` says
  that a local reader's socket holds, in increasing order, exactly the overflowing
  messages after the last one it was given and up to the last payload sent, which a
  writer that dies may leave one short of the last chunk published; and that a
  remote reader's socket holds the messages between its last and the writer's.
  Every step is then a step of `Broadcast` or a stutter.
* `ReadersSeeExactly`, `NoCircularWait`, from `RingInv`: the reader's check succeeds
  exactly when a message is published that it has not read, and a chunk the writer
  waits for is the next one of a reader a whole round behind, whose check succeeds.
* `PayloadsComing`, under the conditions of `PayloadMatchesHolds`: a reader in
  `recv` with an empty socket waits for the last message, with the writer about to
  send it or dead.  So the writer's death at that point is the only thing that
  leaves such a reader without its payload (`ShutdownWakes` above).

`DeferredFreesProofs`, for any requests, blocks and number of batches in flight,
from `DeferAssumption`:

* `FencesHold`: the invariant `FenceInv`.  `NoLateAccess` needs to know why a
  block keeps its reference, and for how long: every block a step in flight
  touches is in the table of a request that ran in that step or later, or parked
  behind a fence at least as new (`Cover`); steps in flight are numbered in order,
  past the processed ones (`SeqOK`); no two requests share a block (`HeldApart`);
  a request that waits for a load has no block such a step touches
  (`RemoteQuiet`); the step being built touches blocks of running requests only
  (`CurOK`).
* `TypeCorrect`, `FreedBlocksQuiet`, `LoadsQuiet`: consequences.
* `FencesInOrder`: `NearMonotone`, with the bound that no fence is newer than the
  step to come; preserved by parking at the end and by draining from the front.
* `ReleasesAwaited`: the front of `deferred_frees` waits for a step in flight, or for
  the next one scheduled, and nothing is parked longer than one step past its own
  fence.  `AwaitInv`: every number between the processed step and the last one
  scheduled is that of a step in flight, and the drain left a fence that is not
  processed in front.

`KvLoadProofs`, for any finite set of requests, any blocks, any prompts whose hashes
are chained, both policies, both kinds of loads, any set of loads failing in any
step, any requests preempted when a step is scheduled and any aborted between steps
or during one, from `KvLoadAssumption`:

* `Invariance`: the invariant relates every cached block to somebody who answers
  for it.  `CacheRight` says nothing of a step under way, when blocks are cached
  before they are computed; `AsyncOK` adds that a cached block is right or due (a
  running request computes it in the step), that a block being loaded is not
  cached and has one holder, who waits for it, and that what a request set aside
  counts as computed is cached, has arrived or is on its way.  `SyncOK` says that a
  block loaded inside the step counts as computed for everyone who has it.
* A request that leaves, preempted, aborted or done, takes its table with it
  (`Leave`, `LeaveTable`, `LeaveFirst`).  If it was the one to answer for a wrong
  cached block it is in `abandoned` from then on; if not, every cached block of its
  is right or still another's to compute, and the invariant is kept.
* An abort during a step changes who is scanned.  `StepWrong`: the step
  does not mend a failed block.  So a request that has one and was aborted is in
  `abandoned` (`SyncLost`), and if a request that has one was not aborted the scan
  finds it, evicts the block by policy, and sends a request back to before it
  (`SyncMarked`).
* `ScanFacts`, by induction over the requests scanned: what
  `_update_requests_with_invalid_blocks` finds.  A failed block that a request
  keeps, because one before it in the scan was told to recompute it, is beyond
  the computed tokens of some affected request.
* `RightKeeps`, by induction over positions: a set of blocks is right after the
  step if each is right before it or computed in it, and whoever computes one has
  only blocks of the set before it.
* `OutputsRightHolds`, `WrongIsOwedHolds`: under the recompute policy a request sent
  back and one that delivers may both compute a block they share.  It is right
  because both have the same blocks before it: of the blocks with one hash, all
  but the last of a table are the first (`FirstOK`), which in turn rests on
  children being reused before parents (`Closed`).
* `CacheRightHolds`, `FailedLoadEvictedHolds`, `TypeCorrect`: consequences.

With synchronous loads `OutputsRightHolds` and `WrongIsOwedHolds` say that nobody is
in `abandoned`, and `FailedLoadEvictedHolds` leaves out the blocks only such requests
have: what the code does not keep is under the disagreements above, and the theorems
say that nothing else is lost.

Recursive functions (`Scan`, `Right`, `remove_all`, the sums of `AsyncStep`) are
proved about through an explicit function that satisfies their recursion, built
with the induction of `WellFoundedInduction` on sets of numbers.

Only model-checked: the liveness properties (`DrainTerminates`,
`ScratchTornDown`, `AllFetched`, `ParkedReturn`, `Finishes`, `Delivered`,
`EnqueueReturns`): the prover knows neither fairness nor `ENABLED`.  What these
rest on besides fairness is proved, for every value of the constants:
`ScratchTeardown` for `ScratchTornDown`, `DispatchNeverStuck` for `AllFetched`,
`ReleasesAwaited` for `ParkedReturn`, `RequestNeverStranded` for `Finishes`,
`ReadersSeeExactly`, `NoCircularWait` and `PayloadsComing` for `Delivered` and
`EnqueueReturns`: somebody can move, or what is waited for is under way.

## Not modelled

* `AqlQueue`: the doorbell of type 2, the small-model branch, the limits on the
  ring's size at creation; `graph-replay-queue-size-cap.patch`, which the
  repository marks as superseded.  Fences are as x86 orders stores.
* `ShmBroadcast`: the handshake of `wait_until_ready`, messages that the
  publisher's high-water mark drops for remote readers, buffers out of band.
* `AsyncStep`: `max_model_len`; the pipeline gap is that of the v2 model runner.
* `KvLoad`: blocks of more than one token; `long_prefill_token_threshold` other
  than its default 0; steps that leave out the end of `running`, because the token
  budget is used up or a request before it preempted itself (such a step admits
  nobody either), and the balancing of prefills between data-parallel engines; what
  a request does after its first token, other than taking blocks and having others
  preempted; that a block taken by the others is not free until they give it back;
  resets of the prefix cache; several batches in flight; several KV-cache groups.
* `BlockPool`: sub-block hits (`cache_partial_block`, `move_block_hashes`),
  managers other than full attention, encoder inputs, speculative tokens beyond
  the cap on what may be cached.
* Kernels' arithmetic (miscompute patches of rocBLAS, MIOpen, Composable Kernel),
  packaging and Docker files, vLLM's models, tokenizers, API servers and attention
  backends, sizing of the KV cache: no state machine worth a model, and most of
  the repository's lines.

## Plan

1. `TcFence`: cache lines, queues and copy engines; every read sees the last write
   ordered before it; device-to-host staging and pinned release as part of it.
2. `BlockPool`: sub-block hits with copy-on-write; the KV-cache coordinator with
   two groups.
3. `ShmBroadcast`: the handshake; executor processes that die and are restarted.
4. SGEMM shim, build pipeline, relaunch supervisor.
