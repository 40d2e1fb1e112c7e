------------------------------ MODULE BlockPool ------------------------------
(***************************************************************************)
(* The KV-cache block pool of the inference engine with prefix caching     *)
(* (vllm/v1/core/block_pool.py) as the full-attention manager              *)
(* (single_type_kv_cache_manager.py) and the KV-cache manager              *)
(* (kv_cache_manager.py) drive it for one KV-cache group whose block size  *)
(* is the hash block size, and the step of the synchronous scheduler       *)
(* (sched/scheduler.py) that drives them: the loop over the running        *)
(* requests with its preemptions, the admission of waiting ones, the model *)
(* run and its output.                                                     *)
(*                                                                         *)
(* A block hash chains over the whole prefix up to the end of its block,   *)
(* so it is modelled by that prefix.  `content' is no variable of the      *)
(* program: it is the prefix whose KV the GPU has last written into a      *)
(* block.                                                                  *)
(*                                                                         *)
(* The pool is one record and its methods are functions of it, because a   *)
(* handler of the manager calls several of them in one step.               *)
(***************************************************************************)
EXTENDS Integers, Sequences, FiniteSets, Functions

CONSTANTS
  NumBlocks,    \* num_gpu_blocks; block 0 is the null block
  BlockSize,    \* tokens per block
  Requests,
  Text,         \* Text[r]: the tokens request r has when it runs to its end
  PromptLen,    \* PromptLen[r]: how many of them it arrives with
  ReportFull,   \* the requests with kv_cache_report_mode = "full"
  Priority,     \* the scheduling policy is PRIORITY, otherwise FCFS
  Rank          \* Rank[r]: place of (priority, arrival_time) among the requests

Blocks == 1 .. NumBlocks - 1
Prefix(r, n) == SubSeq(Text[r], 1, n)
Hash(r, i) == Prefix(r, i * BlockSize)
Hashes == UNION {{Hash(r, i) : i \in 1 .. Len(Text[r]) \div BlockSize} : r \in Requests}
NoHash == <<>>

ASSUME PoolAssumption ==
  /\ NumBlocks \in Nat \ {0}
  /\ BlockSize \in Nat \ {0}
  /\ Priority \in BOOLEAN
  /\ ReportFull \subseteq Requests
  /\ IsFiniteSet(Requests)
  /\ PromptLen \in [Requests -> Nat]
  /\ \A r \in Requests : /\ Text[r] \in Seq(Nat)
                         /\ PromptLen[r] \in 1 .. Len(Text[r])
                         /\ Rank[r] \in Nat

VARIABLES
  pool,         \* the BlockPool object, see InitPool
  table,        \* req_to_blocks
  cached,       \* num_cached_block
  computed,     \* num_computed_tokens of each request
  ntok,         \* num_tokens of each request
  status,       \* "waiting", "running" or "finished"
  running,      \* self.running
  cursor,       \* req_index + 1: the running request the step has come to
  want,         \* num_new_tokens while it is retried after a preemption, or 0
  open,         \* the step has preempted nobody and refused nobody yet
  sched,        \* num_scheduled_tokens of the step, 0 for who is not in it
  forced,       \* reset_prefix_cache is preempting the running requests
  content,      \* what the GPU wrote into each block
  fault         \* an assertion failed or get_new_blocks raised

tables == <<pool, table, cached>>
step == <<running, cursor, want, open, sched, forced>>
vars == <<tables, step, computed, ntok, status, content, fault>>

Queue == INSTANCE BlockQueue WITH queue <- pool.free, call <- <<>>

Reversed(s) == [i \in 1 .. Len(s) |-> s[Len(s) + 1 - i]]
Cdiv(a, b) == (a + b - 1) \div b
MaxOf(a, b) == IF a > b THEN a ELSE b
MinOf(a, b) == IF a < b THEN a ELSE b

-----------------------------------------------------------------------------
\* The pool's methods.

InitPool == [
  free |-> [i \in 1 .. NumBlocks - 1 |-> i],       \* free_block_queue
  ref |-> [b \in Blocks |-> 0],                    \* ref_cnt
  hash |-> [b \in Blocks |-> NoHash],              \* block_hash
  map |-> [h \in Hashes |-> {}],                   \* cached_block_hash_to_block
  stored |-> {}]      \* the hashes a subscriber that replays the events holds

\* Bug: the hash stays in the map, or stays announced.
ForgetBlocksOnly(p, S) == [p EXCEPT
  !.hash = [b \in Blocks |-> IF b \in S THEN NoHash ELSE p.hash[b]]]
ForgetSilently(p, S) == [p EXCEPT
  !.hash = [b \in Blocks |-> IF b \in S THEN NoHash ELSE p.hash[b]],
  !.map = [h \in Hashes |-> p.map[h] \ S]]

\* _maybe_evict_cached_block for every block of S: off the map, no hash, and
\* one BlockRemoved event for each, whether or not another copy remains.
Forget(p, S) == [p EXCEPT
  !.hash = [b \in Blocks |-> IF b \in S THEN NoHash ELSE p.hash[b]],
  !.map = [h \in Hashes |-> p.map[h] \ S],
  !.stored = p.stored \ {p.hash[b] : b \in S}]

\* Bug: a hit block that is free stays on the free queue.
TouchKeepingFree(p, S) == [p EXCEPT
  !.ref = [b \in Blocks |-> IF b \in S THEN p.ref[b] + 1 ELSE p.ref[b]]]

Touch(p, S) == [p EXCEPT
  !.free = Queue!AfterRemove(p.free, {b \in S : p.ref[b] = 0}),
  !.ref = [b \in Blocks |-> IF b \in S THEN p.ref[b] + 1 ELSE p.ref[b]]]

GetNewBlocks(p, n) ==
  LET S == Range(Queue!PoppedN(p.free, n)) IN
  [Forget(p, S) EXCEPT
     !.free = Queue!AfterPopN(p.free, n),
     !.ref = [b \in Blocks |-> IF b \in S THEN p.ref[b] + 1 ELSE p.ref[b]]]

\* Bug: a hash names one block, and the block it named before loses it.
CacheFullBlocksUnique(p, r, bs, lo, hi) ==
  LET at(b) == CHOOSE i \in lo .. hi : bs[i] = b
      S == {bs[i] : i \in lo .. hi}
      New == {Hash(r, i) : i \in lo .. hi} IN
  [p EXCEPT
     !.hash = [b \in Blocks |-> IF b \in S THEN Hash(r, at(b))
                                ELSE IF p.hash[b] \in New THEN NoHash ELSE p.hash[b]],
     !.map = [h \in Hashes |-> IF h \in New THEN {b \in S : Hash(r, at(b)) = h}
                                ELSE p.map[h]],
     !.stored = p.stored \union New]

\* cache_full_blocks: blocks bs[lo], ..., bs[hi] of request r become hits.
CacheFullBlocks(p, r, bs, lo, hi) ==
  LET at(b) == CHOOSE i \in lo .. hi : bs[i] = b
      S == {bs[i] : i \in lo .. hi} IN
  [p EXCEPT
     !.hash = [b \in Blocks |-> IF b \in S THEN Hash(r, at(b)) ELSE p.hash[b]],
     !.map = [h \in Hashes |-> p.map[h] \union {b \in S : Hash(r, at(b)) = h}],
     !.stored = p.stored \union {Hash(r, i) : i \in lo .. hi}]

\* free_blocks: blocks nobody refers to any more go to the front of the queue
\* when they have no hash and to its end when they can still be hit.
FreeBlocks(p, bs) ==
  LET ref == [b \in Blocks |-> IF b \in Range(bs) THEN p.ref[b] - 1 ELSE p.ref[b]]
      last == {b \in Blocks : ref[b] = 0 /\ p.hash[b] # NoHash}
      first == {b \in Blocks : ref[b] = 0 /\ p.hash[b] = NoHash} IN
  [p EXCEPT
     !.ref = ref,
     !.free = Queue!AfterAppendN(
                Queue!AfterPrependN(p.free, Queue!Keep(bs, first)),
                Queue!Keep(bs, last))]

ResetPrefixCache(p) == [p EXCEPT
  !.hash = [b \in Blocks |-> NoHash],
  !.map = [h \in Hashes |-> {}],
  !.stored = {}]

-----------------------------------------------------------------------------
\* The manager's handlers.

Init ==
  /\ pool = InitPool
  /\ table = [r \in Requests |-> <<>>]
  /\ cached = [r \in Requests |-> 0]
  /\ computed = [r \in Requests |-> 0]
  /\ ntok = PromptLen
  /\ status = [r \in Requests |-> "waiting"]
  /\ running = <<>> /\ cursor = 1 /\ want = 0 /\ open = TRUE
  /\ sched = [r \in Requests |-> 0]
  /\ forced = FALSE
  /\ content = [b \in Blocks |-> <<>>]
  /\ fault = FALSE

\* The last token is always recomputed, to get its logits.
MaxHit(r) == (ntok[r] - 1) \div BlockSize

\* What cached_block_hash_to_block holds for h: one block or several.
CachedBlocks(h) == pool.map[h]

\* find_longest_cache_hit: the longest run of cached blocks from the start, one
\* block for each hash (which copy, when there are several, is left open).
Hits(r) ==
  LET hit(k) == \A i \in 1 .. k : CachedBlocks(Hash(r, i)) # {}
      k == CHOOSE k \in 0 .. MaxHit(r) :
             hit(k) /\ \A j \in k + 1 .. MaxHit(r) : ~hit(j)
  IN  {bs \in [1 .. k -> Blocks] : \A i \in 1 .. k : bs[i] \in CachedBlocks(Hash(r, i))}

\* emit_cached_block_events, called by get_computed_blocks.
Announce(p, r, hits) ==
  IF r \in ReportFull
  THEN [p EXCEPT !.stored = p.stored \union {Hash(r, i) : i \in DOMAIN hits}]
  ELSE p

\* Bug: a hit block that has to leave the free queue is not counted.
BlocksToAllocateNoHits(r, hits, slots) ==
  MaxOf(Cdiv(slots, BlockSize) - (Len(hits) + Len(table[r])), 0)

\* get_num_blocks_to_allocate: new blocks, and the hit blocks that are free now.
BlocksToAllocate(r, hits, slots) ==
  MaxOf(Cdiv(slots, BlockSize) - (Len(hits) + Len(table[r])), 0)
  + Cardinality({b \in Range(hits) : pool.ref[b] = 0})

\* What the request has computed once its hits are counted in.
TotalComputed(r, hits) == computed[r] + Len(hits) * BlockSize

\* allocate_slots returns blocks, and not None.
Fits(r, hits, n) ==
  BlocksToAllocate(r, hits, TotalComputed(r, hits) + n) <= Len(pool.free)

\* The blocks that are full once n tokens are computed; draft tokens, which may
\* be rejected, do not count.
FullBlocks(r, n) == MinOf(n, ntok[r]) \div BlockSize

\* add_local_computed_blocks: the hits join the request's table.
AddComputed(p, hits) == Touch(p, Range(hits))

\* allocate_new_blocks: how many blocks the table lacks, with the hits in it.
NewBlocks(r, hits, slots) ==
  MaxOf(Cdiv(slots, BlockSize) - Len(table[r]) - Len(hits), 0)

\* allocate_slots for n new tokens: touch the hits, allocate, cache what will be
\* full once the step has run.
Allocate(r, hits, n) ==
  LET total == TotalComputed(r, hits)
      p1 == AddComputed(Announce(pool, r, hits), hits)
      k == NewBlocks(r, hits, total + n)
      new == Queue!PoppedN(p1.free, k)
      p2 == GetNewBlocks(p1, k)
      bs == table[r] \o hits \o new
      lo == cached[r] + Len(hits)
      hi == MaxOf(lo, FullBlocks(r, total + n))
      raises == \/ n = 0
                \/ k > Len(p1.free)
                \/ \E i \in DOMAIN new : p1.ref[new[i]] # 0
                \/ \E i \in lo + 1 .. hi : p2.hash[bs[i]] # NoHash
  IN  IF raises
      THEN fault' = TRUE /\ UNCHANGED <<tables, computed, sched>>
      ELSE /\ pool' = CacheFullBlocks(p2, r, bs, lo + 1, hi)
           /\ table' = [table EXCEPT ![r] = bs]
           /\ cached' = [cached EXCEPT ![r] = hi]
           /\ computed' = [computed EXCEPT ![r] = total]
           /\ sched' = [sched EXCEPT ![r] = n]
           /\ UNCHANGED fault

-----------------------------------------------------------------------------
\* The scheduler's step.

\* No step is under way.
Between == cursor = 1 /\ open /\ ~forced

\* A request whose step has run and whose token update_from_output still appends.
Sampled(r) == status[r] = "running" /\ computed[r] = ntok[r]

\* A step starts once the output of the one before has been processed.
Stepping == ~fault /\ ~forced /\ ~\E r \in Requests : Sampled(r)

AtRunning == Stepping /\ cursor <= Len(running)
AtWaiting == Stepping /\ cursor > Len(running) /\ open

\* The tokens a step may compute for a request that has `total': any chunk of
\* those it has not computed, and the empty chunk when a lookup left nothing.
Chunks(r, total) ==
  IF want > 0 THEN {want}
  ELSE IF ntok[r] = total THEN {0} ELSE 1 .. ntok[r] - total

\* The running request the step has come to gets its slots.
Schedule(r) ==
  /\ AtRunning /\ r = running[cursor]
  /\ \E n \in Chunks(r, computed[r]) : Fits(r, <<>>, n) /\ Allocate(r, <<>>, n)
  /\ cursor' = cursor + 1
  /\ want' = 0
  /\ UNCHANGED <<running, open, forced, ntok, status, content>>

\* It gets none because a budget is used up.
Skip ==
  /\ AtRunning /\ want = 0
  /\ cursor' = cursor + 1
  /\ UNCHANGED <<tables, computed, ntok, status, running, want, open, sched, forced,
                 content, fault>>

\* Bug: the blocks are released in table order, the prefix first.
FreeInOrder(r) ==
  /\ pool' = FreeBlocks(pool, table[r])
  /\ table' = [table EXCEPT ![r] = <<>>]
  /\ cached' = [cached EXCEPT ![r] = 0]
  /\ computed' = [computed EXCEPT ![r] = 0]

\* free: the request's blocks go back, the last ones first.
Free(r) ==
  /\ pool' = FreeBlocks(pool, Reversed(table[r]))
  /\ table' = [table EXCEPT ![r] = <<>>]
  /\ cached' = [cached EXCEPT ![r] = 0]
  /\ computed' = [computed EXCEPT ![r] = 0]

\* Bug: FCFS takes the first of the running requests.
IsFirst(v) ==
  IF Priority THEN \A r \in Range(running) : Rank[r] <= Rank[v]
  ELSE v = running[1]

\* Who is preempted: the request of the lowest priority, or the last one.
IsVictim(v) ==
  IF Priority THEN \A r \in Range(running) : Rank[r] <= Rank[v]
  ELSE v = running[Len(running)]

\* _preempt_request, and v leaves self.running and the step.
Preempted(v) ==
  /\ Free(v)
  /\ running' = Queue!Keep(running, Range(running) \ {v})
  /\ sched' = [sched EXCEPT ![v] = 0]
  /\ status' = [status EXCEPT ![v] = "waiting"]
  /\ UNCHANGED <<ntok, content>>

\* It does not fit: v is preempted, dropped from the step if it was already in
\* it, and the request is retried; it gives up when it was itself the victim.
Preempt(v) ==
  LET r == running[cursor]
      at == CHOOSE i \in DOMAIN running : running[i] = v
  IN  /\ AtRunning /\ v \in Range(running) /\ IsVictim(v)
      /\ \E n \in Chunks(r, computed[r]) :
           /\ ~Fits(r, <<>>, n)
           /\ want' = IF v = r THEN 0 ELSE n
      /\ Preempted(v)
      /\ cursor' = IF v = r THEN Len(running)
                   ELSE IF at < cursor THEN cursor - 1 ELSE cursor
      /\ open' = FALSE
      /\ UNCHANGED <<forced, fault>>

\* A waiting request is looked up, gets its slots and joins the step.
Admit(r) ==
  /\ AtWaiting /\ status[r] = "waiting"
  /\ \E hits \in Hits(r) : \E n \in Chunks(r, TotalComputed(r, hits)) :
       Fits(r, hits, n) /\ Allocate(r, hits, n)
  /\ status' = [status EXCEPT ![r] = "running"]
  /\ running' = Append(running, r)
  /\ cursor' = cursor + 1
  /\ UNCHANGED <<want, open, forced, ntok, content>>

\* allocate_slots returns None, which ends the admissions of this step; the
\* lookup has been announced all the same.
Refuse(r) ==
  /\ AtWaiting /\ status[r] = "waiting"
  /\ \E hits \in Hits(r) : \E n \in Chunks(r, TotalComputed(r, hits)) :
       /\ ~Fits(r, hits, n)
       /\ pool' = Announce(pool, r, hits)
  /\ open' = FALSE
  /\ UNCHANGED <<table, cached, computed, ntok, status, running, cursor, want, sched,
                 forced, content, fault>>

\* The KV the model writes for the requests in the step, in the blocks that hold
\* the tokens computed + 1 .. computed + sched of each.
Written(b) ==
  LET last(r) == computed[r] + sched[r]
      in(r) == {i \in computed[r] \div BlockSize + 1 .. Cdiv(last(r), BlockSize) :
                  sched[r] > 0 /\ table[r][i] = b}
      KV(r) == Prefix(r, MinOf((CHOOSE i \in in(r) : TRUE) * BlockSize, last(r)))
      writers == {r \in Requests : in(r) # {}}
  IN  CASE writers = {} -> content[b]
        [] Cardinality(writers) = 1 -> KV(CHOOSE r \in writers : TRUE)
        [] OTHER -> <<>>        \* garbled

\* The end of schedule() and the model run: the step's tokens are computed.
Execute ==
  /\ Stepping /\ cursor > Len(running) /\ ~Between
  /\ content' = [b \in Blocks |-> Written(b)]
  /\ computed' = [r \in Requests |-> computed[r] + sched[r]]
  /\ sched' = [r \in Requests |-> 0]
  /\ cursor' = 1
  /\ open' = TRUE
  /\ UNCHANGED <<tables, ntok, status, running, want, forced, fault>>

\* update_from_output: one more token.
Output(r) ==
  /\ Between /\ ~fault /\ Sampled(r) /\ ntok[r] < Len(Text[r])
  /\ ntok' = [ntok EXCEPT ![r] = @ + 1]
  /\ UNCHANGED <<tables, step, computed, status, content, fault>>

\* A request stops or is aborted, running or waiting.
Finish(r) ==
  /\ Between /\ ~fault
  /\ status[r] # "finished"
  /\ Free(r)
  /\ status' = [status EXCEPT ![r] = "finished"]
  /\ running' = Queue!Keep(running, Range(running) \ {r})
  /\ UNCHANGED <<ntok, cursor, want, open, sched, forced, content, fault>>

\* Another request with the same prompt arrives.
Arrive(r) ==
  /\ Between /\ ~fault
  /\ status[r] = "finished"
  /\ ntok' = [ntok EXCEPT ![r] = PromptLen[r]]
  /\ status' = [status EXCEPT ![r] = "waiting"]
  /\ UNCHANGED <<tables, step, computed, content, fault>>

\* Bug: the cache is reset under the requests that use it.
ResetAllowedAlways == TRUE

\* No block but the null block is in use.
ResetAllowed == NumBlocks - Len(pool.free) = 1

\* The weights change, what was computed with the old ones is of no use, and the
\* prefix cache is reset for it.
CacheReset ==
  /\ pool' = ResetPrefixCache(pool)
  /\ content' = [b \in Blocks |-> <<>>]
  /\ UNCHANGED <<table, cached, computed, ntok, status>>

\* reset_prefix_cache, which does nothing while blocks are in use.
Reset ==
  /\ Between /\ ~fault
  /\ ResetAllowed
  /\ CacheReset
  /\ UNCHANGED <<step, fault>>

\* reset_prefix_cache with reset_running_requests: the running requests are
\* preempted first, the last one first ...
ResetPreempt(v) ==
  /\ (Between /\ Stepping) \/ (forced /\ ~fault)
  /\ running # <<>> /\ v = running[Len(running)]
  /\ Preempted(v)
  /\ forced' = TRUE
  /\ UNCHANGED <<cursor, want, open, fault>>

\* ... and then the reset has to succeed.
ResetForced ==
  /\ forced /\ ~fault /\ running = <<>>
  /\ IF ResetAllowed THEN CacheReset /\ UNCHANGED fault
     ELSE fault' = TRUE /\ UNCHANGED <<tables, computed, ntok, status, content>>
  /\ forced' = FALSE
  /\ UNCHANGED <<running, cursor, want, open, sched>>

Next ==
  \/ \E r \in Requests : \/ Schedule(r) \/ Preempt(r) \/ Admit(r) \/ Refuse(r)
                         \/ Output(r) \/ Finish(r) \/ Arrive(r) \/ ResetPreempt(r)
  \/ Skip \/ Execute \/ Reset \/ ResetForced

Spec == Init /\ [][Next]_vars

-----------------------------------------------------------------------------
PoolType == [free : Seq(Blocks), ref : [Blocks -> Nat],
             hash : [Blocks -> Hashes \union {NoHash}],
             map : [Hashes -> SUBSET Blocks], stored : SUBSET Hashes]

(* Type invariant. *)
TypeOK ==
  /\ pool \in PoolType
  /\ table \in [Requests -> Seq(Blocks)]
  /\ cached \in [Requests -> Nat]
  /\ computed \in [Requests -> Nat]
  /\ ntok \in [Requests -> Nat]
  /\ \A r \in Requests : ntok[r] \in PromptLen[r] .. Len(Text[r])
  /\ status \in [Requests -> {"waiting", "running", "finished"}]
  /\ running \in Seq(Requests)
  /\ cursor \in 1 .. Len(running) + 1
  /\ want \in Nat
  /\ open \in BOOLEAN
  /\ sched \in [Requests -> Nat]
  /\ forced \in BOOLEAN
  /\ fault \in BOOLEAN

(* A block's reference count is the number of requests whose table holds it, *)
(* and the free queue holds exactly the blocks nobody refers to, once each:  *)
(* no block is leaked or handed out twice by any order of hits, allocations, *)
(* preemptions and releases.                                                 *)
RefsAreHolders ==
  /\ \A b \in Blocks :
       pool.ref[b] = Cardinality({r \in Requests : b \in Range(table[r])})
  /\ Range(pool.free) = {b \in Blocks : pool.ref[b] = 0}
  /\ Len(pool.free) = Cardinality(Range(pool.free))

(* The map from hashes to blocks and the hash a block carries tell the same  *)
(* story: a lookup never finds a block that has been given to someone else.  *)
HashesAgree ==
  \A h \in Hashes, b \in Blocks : b \in pool.map[h] <=> pool.hash[b] = h

(* A running request reads its own KV: once the step has run, every block of *)
(* its table holds the prefix of its own text that it has computed or hit,   *)
(* the blocks it hit while the same step was about to compute them included. *)
TablesHoldOwnKV ==
  Between => \A r \in Requests : \A i \in 1 .. Cdiv(computed[r], BlockSize) :
    content[table[r][i]] = Prefix(r, MinOf(i * BlockSize, computed[r]))

(* What a lookup returns between two steps has been computed, with the       *)
(* current weights, and is what its hash says: although allocate_slots caches *)
(* a block before the model has filled it, no preemption leaves an unfilled  *)
(* block in the cache, and reset_prefix_cache leaves no older one.           *)
CachedKVRight ==
  Between => \A h \in Hashes : \A b \in pool.map[h] : content[b] = h

(* A subscriber of the KV events never believes in a block that cannot be    *)
(* hit: an evicted hash has been announced as removed.                       *)
NoPhantom == \A h \in pool.stored : pool.map[h] # {}

(* "A missing block implies every later block misses too": the eviction      *)
(* order never takes a block before the blocks that extend it.               *)
PrefixClosed ==
  \A h \in Hashes : Len(h) > BlockSize /\ pool.map[h] # {} =>
    pool.map[SubSeq(h, 1, Len(h) - BlockSize)] # {}

(* None of the assertions on this path fails, get_new_blocks finds the       *)
(* blocks that get_num_blocks_to_allocate promised, and a forced reset       *)
(* succeeds once the running requests are preempted.                         *)
FaultFree == ~fault

(* KV in use stays: while a request holds a cached block that has been       *)
(* computed, no step of any request writes into it, takes its hash away or   *)
(* resets it.                                                                *)
InUseUndisturbed ==
  [][\A r \in Requests : \A i \in DOMAIN table[r] \intersect DOMAIN table'[r] :
       LET b == table[r][i] IN
       pool.hash[b] # NoHash /\ content[b] = pool.hash[b] =>
         content'[b] = content[b] /\ pool'.hash[b] = pool.hash[b]]_vars
=============================================================================
