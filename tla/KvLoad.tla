-------------------------------- MODULE KvLoad --------------------------------
(***************************************************************************)
(* Failed loads of remote KV: what vLLM's scheduler does with the blocks a *)
(* connector could not fill (_handle_invalid_blocks and what surrounds it  *)
(* in vllm/v1/core/sched/scheduler.py), one batch at a time.  A load is    *)
(* synchronous, inside the step that uses it, with its blocks in the prefix*)
(* cache from the start; or asynchronous, with the request set aside and   *)
(* its blocks cached when the load is over.                                *)
(*                                                                         *)
(* A block holds one token, so tokens and blocks are counted alike; a      *)
(* request is followed to its first output token.  The requests that go on *)
(* decoding are the others: schedule() serves them as well, they take free *)
(* blocks out of the cache and, when the pool runs dry, have requests      *)
(* preempted.  A request that is scheduled computes all it has left:       *)
(* long_prefill_token_threshold is 0, its default (a request the token     *)
(* budget cuts short leaves none for those behind it).  kv[b] says whether *)
(* block b holds the right KV for its tokens.                              *)
(***************************************************************************)
EXTENDS Integers, Sequences, SequencesExt

CONSTANTS Reqs, Blocks, NoHash,
          PromptOf,   \* PromptOf[r]: the block hashes of r's prompt
          MaxLen,     \* max_model_len
          Configs     \* the settings to look at:
                      \*   recompute: kv_load_failure_policy is "recompute",
                      \*     not "fail"
                      \*   async: the connector loads asynchronously
                      \*   aborts: clients may abort requests
                      \*   reqs: the requests that arrive

\* A block's hash covers its parent's: it names the tokens before it as well.
Chained(s, t) ==
    \A i \in DOMAIN s, j \in DOMAIN t :
        s[i] = t[j] => i = j /\ \A k \in 1..i : s[k] = t[k]

ASSUME KvLoadAssumption ==
    /\ NoHash \notin Nat /\ MaxLen \in Nat /\ IsFiniteSet(Reqs)
    /\ PromptOf \in [Reqs -> Seq(Nat)]
    /\ \A r \in Reqs : Len(PromptOf[r]) \in 1..MaxLen
    /\ \A r, s \in Reqs : Chained(PromptOf[r], PromptOf[s])
    /\ Configs \subseteq [recompute : BOOLEAN, async : BOOLEAN,
                           aborts : BOOLEAN, reqs : SUBSET Reqs]

VARIABLES
    conf,      \* the settings, fixed when the engine starts
    status,    \* "waiting", "remote", "running", "zombie" or "done"
    running,   \* the running requests, in order
    table,     \* table[r]: r's blocks
    computed,  \* computed[r]: num_computed_tokens
    hash,      \* hash[b]: the hash b is cached under, or NoHash
    second,    \* the blocks cached when another had their hash already
    kv,        \* kv[b]: b holds the right KV
    recvd,     \* finished_recving_kv_req_ids
    failed,    \* failed_recving_kv_req_ids
    phase,     \* "out", "schedule", "preempted" (schedule() after it preempted
               \* somebody) or "execute"
    tokens,    \* tokens[r]: num_scheduled_tokens of the step, 0 outside it
    loads,     \* blocks being loaded
    wrong,     \* requests whose output came from wrong KV
    abandoned  \* requests that left the batch when they had still to compute a
               \* cached block again, or while it ran and failed to load one

requests == <<status, running, table, computed, recvd, failed>>
vars     == <<conf, requests, hash, second, kv, phase, tokens, loads, wrong,
              abandoned>>

Recompute  == conf.recompute
AsyncLoads == conf.async
Aborts     == conf.aborts

Init ==
    /\ conf \in Configs
    /\ status = [r \in Reqs |-> IF r \in conf.reqs THEN "waiting" ELSE "done"]
    /\ running = <<>>
    /\ table = [r \in Reqs |-> <<>>]
    /\ computed = [r \in Reqs |-> 0]
    /\ hash = [b \in Blocks |-> NoHash]
    /\ second = {} /\ kv = [b \in Blocks |-> FALSE]
    /\ recvd = {} /\ failed = {} /\ phase = "out"
    /\ tokens = [r \in Reqs |-> 0] /\ loads = {} /\ wrong = {}
    /\ abandoned = {}

numTokens(r) == Len(PromptOf[r])
Free == Blocks \ UNION {ToSet(table[r]) : r \in Reqs}

\* r has a cached block past its first n whose KV is not among the right ones.
HasWrong(r, n, right) ==
    \E i \in (n + 1)..Len(table[r]) :
        hash[table[r][i]] # NoHash /\ table[r][i] \notin right

\* r has still to compute again a block that others may find in the cache.
Owes(r) == HasWrong(r, computed[r], {b \in Blocks : kv[b]})

\* The running requests without those that end or are preempted.
remove_all(lst, items) ==
    LET left[i \in 0..Len(lst)] ==
          IF i = 0 THEN <<>>
          ELSE IF lst[i] \in items THEN left[i - 1] ELSE Append(left[i - 1], lst[i])
    IN  left[Len(lst)]

-----------------------------------------------------------------------------
(***************************************************************************)
(* schedule(): the running requests, then the waiting ones.                *)
(***************************************************************************)
\* Blocks are handed out again: they leave the cache (get_new_blocks), and the
\* hits are the first under their hashes.  Then cache_blocks: the first n blocks
\* of r's new table t are in the cache.
CacheBlocks(r, hit, new, t, n) ==
    LET left == [b \in Blocks |-> IF b \in ToSet(new) THEN NoHash ELSE hash[b]]
        At(b) == CHOOSE i \in 1..n : t[i] = b
        full == {t[i] : i \in 1..n}
        again == {b \in full : left[b] = NoHash
                                /\ \E c \in Blocks : left[c] = PromptOf[r][At(b)]}
    IN  /\ hash' = [b \in Blocks |-> IF b \in full THEN PromptOf[r][At(b)] ELSE left[b]]
        /\ second' = (second \ (ToSet(hit) \cup ToSet(new))) \cup again

\* The running requests get what they have to compute; they have the blocks for
\* it.  The others may not: for their sake allocate_slots fails, and those of
\* gone are preempted, from the end of running or by priority.  Their blocks are
\* freed with their hashes.
BeginSchedule(gone) ==
    /\ phase = "out" /\ \E r \in Reqs : status[r] # "done"
    /\ gone \subseteq ToSet(running)
    /\ phase' = IF gone = {} THEN "schedule" ELSE "preempted"
    /\ tokens' = [r \in Reqs |-> IF status[r] = "running" /\ r \notin gone
                      THEN numTokens(r) - computed[r] ELSE 0]
    /\ status' = [r \in Reqs |-> IF r \in gone THEN "waiting" ELSE status[r]]
    /\ running' = remove_all(running, gone)
    /\ table' = [r \in Reqs |-> IF r \in gone THEN <<>> ELSE table[r]]
    /\ computed' = [r \in Reqs |-> IF r \in gone THEN 0 ELSE computed[r]]
    /\ abandoned' = abandoned \cup {r \in gone : Owes(r)}
    /\ UNCHANGED <<recvd, failed, hash, second, kv, loads, wrong>>

\* get_one_block: the block cached first under the hash, of several.
Found(h) ==
    LET C == {b \in Blocks : hash[b] = h}
    IN  IF C \subseteq second THEN C ELSE C \ second

\* The longest cached prefix, short of the last token: t is one such table.
IsHit(r, t) ==
    /\ Len(t) < numTokens(r)
    /\ \A i \in DOMAIN t : t[i] \in Found(PromptOf[r][i])
    /\ Len(t) < numTokens(r) - 1 =>
          \A b \in Blocks : hash[b] # PromptOf[r][Len(t) + 1]

\* With each block in S that is cached, one with its parent's hash is.
Closed(S) ==
    \A r \in Reqs : \A i \in 2..numTokens(r) :
        (\E b \in S : hash[b] = PromptOf[r][i]) =>
            \E b \in S : hash[b] = PromptOf[r][i - 1]

\* New blocks, not cached any more, in any order the free queue may have: while
\* nothing is evicted, a block comes after those cached behind it (PrefixClosed
\* of BlockPool).
IsNew(hit, new) ==
    /\ IsInjective(new)
    /\ ToSet(new) \subseteq Free \ ToSet(hit)
    /\ Recompute => Closed(Blocks \ ToSet(new))

\* get_new_blocks for one of the others: the block leaves the cache and is
\* written.  That it is not free until they give it back is left out.
TakenByOthers(b) ==
    /\ phase \in {"schedule", "preempted"}
    /\ hash[b] # NoHash /\ IsNew(<<>>, <<b>>)
    /\ hash' = [hash EXCEPT ![b] = NoHash]
    /\ second' = second \ {b}
    /\ kv' = [kv EXCEPT ![b] = FALSE]
    /\ UNCHANGED <<requests, phase, tokens, loads, wrong, abandoned>>

\* allocate_slots for a request without blocks: local hits, then new blocks of
\* which ext are to be loaded.
Admit(r, hit, new, ext) ==
    /\ phase = "schedule" /\ status[r] = "waiting" /\ computed[r] = 0
    /\ IsHit(r, hit) /\ IsNew(hit, new)
    /\ table' = [table EXCEPT ![r] = hit \o new]
    /\ ext <= Len(new)
    /\ loads' = loads \cup {new[i] : i \in 1..ext}
    /\ kv' = [b \in Blocks |-> kv[b] /\ b \notin ToSet(new)]

\* A waiting request joins the step, ext of its tokens loaded in the step; the
\* blocks of all its tokens so far are cached at once.
ScheduleWaiting(r, hit, new, ext) ==
    LET n == numTokens(r) - Len(hit) - ext
    IN  /\ Admit(r, hit, new, ext)
        /\ ~AsyncLoads \/ ext = 0
        /\ n > 0 /\ Len(new) = ext + n
        /\ CacheBlocks(r, hit, new, hit \o new, Len(hit \o new))
        /\ computed' = [computed EXCEPT ![r] = Len(hit) + ext]
        /\ tokens' = [tokens EXCEPT ![r] = n]
        /\ status' = [status EXCEPT ![r] = "running"]
        /\ running' = Append(running, r)
        /\ UNCHANGED <<recvd, failed, phase, wrong, abandoned>>

\* An asynchronous load sets the request aside; its blocks stay uncached.
AdmitRemote(r, hit, new) ==
    /\ AsyncLoads /\ Admit(r, hit, new, Len(new))
    /\ new # <<>> /\ Len(hit) + Len(new) <= numTokens(r)
    /\ CacheBlocks(r, hit, new, hit \o new, Len(hit))
    /\ computed' = [computed EXCEPT ![r] = Len(hit) + Len(new)]
    /\ status' = [status EXCEPT ![r] = "remote"]
    /\ UNCHANGED <<running, recvd, failed, phase, tokens, wrong, abandoned>>

\* What of r's table may be cached when its load is over.
Loaded(r) == computed[r]

\* Mutant: the request comes back before its load is over.
BugReady(r) == TRUE

\* The worker has reported r's load.
Ready(r) == r \in recvd

\* _update_waiting_for_remote_kv: what was loaded is cached, nothing if the
\* load failed from the start; the last token is always computed here.
Promote(r) ==
    /\ phase = "schedule" /\ status[r] = "remote" /\ Ready(r)
    /\ CacheBlocks(r, <<>>, <<>>, table[r], Loaded(r))
    /\ table' = [table EXCEPT ![r] = IF computed[r] = 0 THEN <<>> ELSE @]
    /\ computed' = [computed EXCEPT ![r] =
                       IF r \notin failed /\ @ = numTokens(r) THEN @ - 1 ELSE @]
    /\ status' = [status EXCEPT ![r] = "waiting"]
    /\ recvd' = recvd \ {r} /\ failed' = failed \ {r}
    /\ UNCHANGED <<running, kv, phase, tokens, loads, wrong, abandoned>>

\* A request back from its load joins the step; it may lack its last blocks.
ScheduleLoaded(r, new) ==
    LET t == table[r] \o new
    IN  /\ phase = "schedule" /\ status[r] = "waiting" /\ computed[r] > 0
        /\ IsNew(<<>>, new) /\ Len(t) = numTokens(r)
        /\ table' = [table EXCEPT ![r] = t]
        /\ CacheBlocks(r, <<>>, new, t, Len(t))
        /\ kv' = [b \in Blocks |-> kv[b] /\ b \notin ToSet(new)]
        /\ tokens' = [tokens EXCEPT ![r] = numTokens(r) - computed[r]]
        /\ status' = [status EXCEPT ![r] = "running"]
        /\ running' = Append(running, r)
        /\ UNCHANGED <<computed, recvd, failed, phase, loads, wrong, abandoned>>

\* _update_after_schedule counts the step's tokens as computed.
EndSchedule ==
    /\ phase \in {"schedule", "preempted"}
    /\ phase' = "execute"
    /\ computed' = [r \in Reqs |-> computed[r] + tokens[r]]
    /\ UNCHANGED <<status, running, table, recvd, failed, hash, second, kv, tokens,
                   loads, wrong, abandoned>>

-----------------------------------------------------------------------------
(***************************************************************************)
(* The step runs.  The worker fills the loads that succeed, then computes  *)
(* position after position; what it writes is right when everything before *)
(* it in the table is.                                                     *)
(***************************************************************************)
\* What the computation of position p makes of the blocks with the right KV.
ComputeAt(right, p) ==
    LET C == {r \in Reqs : computed[r] - tokens[r] < p /\ p <= computed[r]}
        Sound == {r \in C : \A q \in 1..(p - 1) : table[r][q] \in right}
    IN  (right \ {table[r][p] : r \in C}) \cup {table[r][p] : r \in Sound}

\* The blocks with the right KV after a step whose loads left Ok right.
Right(Ok) ==
    LET right[p \in 0..MaxLen] == IF p = 0 THEN Ok ELSE ComputeAt(right[p - 1], p)
    IN  right[MaxLen]

-----------------------------------------------------------------------------
(***************************************************************************)
(* update_from_output, with the blocks Inv the connector failed to load.   *)
(***************************************************************************)
First(S) == CHOOSE i \in S : \A j \in S : i <= j

\* Mutant: the request keeps the first block it should compute again.
BugTruncate(i) == i

\* num_computed_tokens when block i is the first the request must recompute.
Truncate(i) == i - 1

\* Mutant: the failed block itself is left in the cache.
BugDownstream(t, i) == {t[j] : j \in (i + 1)..Len(t)}

\* The block that failed and all that depend on it.
Downstream(t, i) == {t[j] : j \in i..Len(t)}

\* One turn of _update_requests_with_invalid_blocks: the invalid blocks that a
\* request before this one marked count as computed again already.
ScanOne(Inv, acc, r) ==
    LET before == computed[r] - tokens[r]
        bad    == {i \in 1..before : table[r][i] \in Inv}
        fresh  == {i \in bad : table[r][i] \notin acc.marked}
    IN  IF bad = {} THEN acc
        ELSE [marked   |-> acc.marked \cup {table[r][i] : i \in bad},
              affected |-> acc.affected \cup {r},
              computed |-> [acc.computed EXCEPT ![r] =
                               IF fresh = {} THEN before ELSE Truncate(First(fresh))],
              evict    |-> acc.evict \cup
                           (IF fresh = {} THEN {} ELSE Downstream(table[r], First(fresh)))]

Scan(Inv, comp, seq) ==
    LET acc[i \in 0..Len(seq)] ==
          IF i = 0 THEN [marked |-> {}, affected |-> {}, computed |-> comp, evict |-> {}]
          ELSE ScanOne(Inv, acc[i - 1], seq[i])
    IN  acc[Len(seq)]

\* Mutant: the requests whose KV failed deliver with the others.
BugDelivers(Affected) == {r \in Reqs : tokens[r] > 0}

\* The main loop skips the failed, the rescheduled and the aborted requests.
Delivers(Affected) == {r \in Reqs : tokens[r] > 0 /\ r \notin Affected}

Remote == {r \in Reqs : status[r] = "remote"}

\* Its load goes on: the connector has the blocks when the request is aborted.
Loading(r) == status[r] = "remote" /\ r \notin recvd

\* The requests a client may abort.
Abortable == {r \in Reqs : Aborts /\ status[r] \notin {"zombie", "done"}}

\* The end of a step.  The worker is done; the aborts of A that came meanwhile
\* are processed; then update_from_output.  The requests set aside are scanned,
\* then the running ones; a request whose KV failed is left out or, by policy,
\* ends in error; the others that have all their tokens deliver one.  The
\* transfers of D are reported over, at the latest with their failures.
Update(Inv, D, A) ==
    LET async  == Scan(Inv, computed, SetToSeq(Remote \ A))
        sync   == Scan(Inv, async.computed, remove_all(running, A))
        Errors == IF Recompute THEN {} ELSE async.affected \cup sync.affected
        Done   == Delivers(sync.affected \cup A)
        Over   == {r \in D : status[r] = "zombie"} \cup ((Errors \cup A) \cap D)
                  \cup {r \in Errors \cup A : ~Loading(r)}
        Ended  == Done \cup Over
        Evicted == IF Recompute THEN {} ELSE sync.evict
        Filled == IF AsyncLoads THEN UNION {ToSet(table[r]) : r \in D} ELSE Blocks
        good   == Right({b \in Blocks : IF b \in loads \cap Filled
                                          THEN b \notin Inv ELSE kv[b]})
    IN  /\ phase = "execute"
        /\ Inv \subseteq loads /\ A \subseteq Abortable
        /\ D \subseteq {r \in Reqs \ recvd : status[r] \in {"remote", "zombie"}}
        /\ phase' = "out"
        /\ kv' = [b \in Blocks |-> b \in good]
        /\ loads' = loads \ (Filled \cup Inv)
        /\ wrong' = wrong \cup {r \in Done : ~(ToSet(table[r]) \subseteq good)}
        /\ abandoned' = abandoned \cup {r \in A : HasWrong(r, 0, good)}
        /\ hash' = [b \in Blocks |-> IF b \in Evicted THEN NoHash ELSE hash[b]]
        /\ second' = second \ Evicted
        /\ computed' = sync.computed
        /\ table' = [r \in Reqs |-> IF r \in Ended THEN <<>> ELSE table[r]]
        /\ status' = [r \in Reqs |-> IF r \in Ended THEN "done"
                                     ELSE IF r \in Errors \cup A THEN "zombie"
                                     ELSE status[r]]
        /\ running' = remove_all(running, Ended)
        /\ recvd' = (recvd \cup (D \cap Remote)) \ (Errors \cup A)
        /\ failed' = (IF Recompute THEN failed \cup async.affected ELSE failed) \ A
        /\ tokens' = [r \in Reqs |-> 0]

\* finish_requests, on a client's abort between two steps.
Abort(r) ==
    /\ phase = "out" /\ r \in Abortable
    /\ status' = [status EXCEPT ![r] = IF Loading(r) THEN "zombie" ELSE "done"]
    /\ table' = IF Loading(r) THEN table ELSE [table EXCEPT ![r] = <<>>]
    /\ running' = remove_all(running, {r})
    /\ recvd' = recvd \ {r} /\ failed' = failed \ {r}
    /\ abandoned' = IF Owes(r) THEN abandoned \cup {r} ELSE abandoned
    /\ UNCHANGED <<computed, hash, second, kv, phase, tokens, loads, wrong>>

-----------------------------------------------------------------------------
Tables == UNION {[1..n -> Blocks] : n \in 0..MaxLen}

Step ==
    \/ \E gone \in SUBSET ToSet(running) : BeginSchedule(gone)
    \/ \E b \in Blocks : TakenByOthers(b)
    \/ EndSchedule
    \/ \E r \in Reqs :
          \/ /\ phase = "schedule" /\ status[r] = "waiting" /\ computed[r] = 0
             /\ \E hit \in {t \in Tables : IsHit(r, t)} :
                \E new \in {t \in Tables : IsNew(hit, t)} :
                   \/ AdmitRemote(r, hit, new)
                   \/ \E ext \in 0..(numTokens(r) - 1) :
                         ScheduleWaiting(r, hit, new, ext)
          \/ /\ phase = "schedule" /\ computed[r] > 0
             /\ \E new \in {t \in Tables : IsNew(<<>>, t)} : ScheduleLoaded(r, new)
          \/ Promote(r) \/ Abort(r)
    \/ \E Inv \in SUBSET loads, D \in SUBSET Reqs, A \in SUBSET Abortable :
          Update(Inv, D, A)

Next == Step /\ UNCHANGED conf

Spec == Init /\ [][Next]_vars

-----------------------------------------------------------------------------
(***************************************************************************)
(* Properties.                                                             *)
(***************************************************************************)
\* The scheduler's books have their types, and only requests set aside are
\* reported received.
TypeOK ==
    /\ conf \in Configs
    /\ status \in [Reqs -> {"waiting", "remote", "running", "zombie", "done"}]
    /\ running \in Seq(Reqs) /\ ToSet(running) = {r \in Reqs : status[r] = "running"}
    /\ table \in [Reqs -> Seq(Blocks)]
    /\ computed \in [Reqs -> Nat]
    /\ hash \in [Blocks -> Nat \cup {NoHash}]
    /\ kv \in [Blocks -> BOOLEAN]
    /\ recvd \subseteq Remote /\ failed \subseteq Remote

\* No request ever returns a token that was computed from KV it did not have,
\* whichever loads fail and whoever shares their blocks: when they are not cached
\* before they are loaded; or when failed blocks are computed again, as long as no
\* request was preempted or aborted before it did that.
OutputsRight == AsyncLoads \/ (Recompute /\ abandoned = {}) => wrong = {}

\* The comment in _handle_invalid_blocks on the failed blocks it leaves in the
\* cache: they "will be recomputed and reused by other requests sharing them".  A
\* running request has each of them beyond its computed tokens.
WillBeRecomputed ==
    Recompute /\ ~AsyncLoads /\ phase = "out" =>
        \A b \in Blocks : hash[b] # NoHash /\ ~kv[b] =>
            \E r \in ToSet(running) :
                \E i \in DOMAIN table[r] : table[r][i] = b /\ i > computed[r]

\* Under the recompute policy a block that is cached before its load, and whose
\* load failed, is owed by a running request, until the first time that a request
\* is preempted before it has computed such a block again, or aborted.
WrongIsOwed == abandoned = {} => WillBeRecomputed

\* What the prefix cache offers between two steps is right.
OffersRight ==
    phase = "out" => \A b \in Blocks : hash[b] # NoHash => kv[b]

\* The blocks of an asynchronous load enter the cache when it is over, without
\* those that failed: the cache is never wrong, under either policy, although
\* requests are aborted and their loads end later.
CacheRight == AsyncLoads => OffersRight

\* Under the fail policy a block that failed to load is out of the cache when
\* the step's output has been handled, if one of its requests was not aborted
\* while the step ran: the scan does not see those that were.
FailedLoadEvicted ==
    [][~Recompute /\ phase = "execute" /\ phase' = "out"
          => \A r \in Reqs \ abandoned' : \A b \in loads \cap ToSet(table[r]) :
                ~kv'[b] => hash'[b] = NoHash]_vars

\* The docstring of _update_requests_with_invalid_blocks: "invalid blocks and
\* downstream dependent blocks" are evicted when a load fails a request.
DependentsEvicted == ~Recompute => OffersRight
=============================================================================
