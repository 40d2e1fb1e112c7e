--------------------------- MODULE DeferredFrees ---------------------------
(***************************************************************************)
(* vLLM's scheduler with several batches in flight and a KV connector that *)
(* loads remote KV (vllm/v1/core/sched/scheduler.py, defer_block_free on;  *)
(* the batch queue is vllm/v1/engine/core.py).  A load is not ordered      *)
(* against the device, so a block must not return to the pool while a step *)
(* in flight may still write it: its release is parked behind a fence, the *)
(* sequence number of the newest step.                                     *)
(*                                                                         *)
(* A block is in the pool exactly while nothing refers to it (RefsAreHolders*)
(* of BlockPool): not a request's table, not a retained copy, not a parked *)
(* release.  free_blocks is the removal of a reference.  The engine is one *)
(* thread; phase is where it is in schedule().                             *)
(***************************************************************************)
EXTENDS Integers, Sequences, FiniteSets

CONSTANTS Reqs, Blocks, NoReq,
          Depth,      \* batch_queue_size
          MaxBlocks,  \* bound: blocks of one request
          MaxSteps,   \* bound: non-empty steps
          Copies      \* TRUE: partial prefix hits are copied on write

ASSUME DeferAssumption ==
    /\ NoReq \notin Reqs
    /\ Depth \in Nat \ {0} /\ MaxBlocks \in Nat /\ MaxSteps \in Nat
    /\ Copies \in BOOLEAN

VARIABLES
    status,     \* status[r]; a zombie is finished and waits for a transfer
    held,       \* held[r]: the blocks of r's table
    lastSeq,    \* lastSeq[r]: last_sched_seq, the newest step that ran r
    recvd,      \* finished_recving_kv_req_ids
    sched,      \* sched_step_seq
    processed,  \* processed_step_seq
    deferred,   \* deferred_frees, oldest first
    flight,     \* the batch queue, oldest first
    phase,      \* "out", or inside schedule(): "run", "wait" or "end"
    cur,        \* the step schedule() is building
    fin,        \* finished_req_ids is not empty
    resetFailed \* a forced reset_prefix_cache raised with no load under way

requests == <<status, held, lastSeq, recvd, fin>>
fences   == <<sched, processed, deferred>>
vars     == <<requests, fences, flight, phase, cur, resetFailed>>

\* A step not begun: no requests, no copy endpoints, nobody asking for blocks.
NoStep == [reqs |-> {}, copies |-> {}, want |-> NoReq, preempted |-> FALSE]

Init ==
    /\ status = [r \in Reqs |-> "waiting"]
    /\ held = [r \in Reqs |-> {}]
    /\ lastSeq = [r \in Reqs |-> 0]
    /\ recvd = {}
    /\ sched = 0 /\ processed = 0 /\ deferred = <<>>
    /\ flight = <<>> /\ phase = "out" /\ cur = NoStep
    /\ fin = FALSE /\ resetFailed = FALSE

Parked == UNION {deferred[i].blocks : i \in DOMAIN deferred}
Held   == UNION {held[r] : r \in Reqs}

\* The block pool.
Free == Blocks \ (Held \cup cur.copies \cup Parked)

Running == {r \in Reqs : status[r] = "running"}

-----------------------------------------------------------------------------
(***************************************************************************)
(* Releasing blocks.                                                       *)
(***************************************************************************)
\* Mutant: the last step that ran the request is not looked at.
BugMustWait(r, done) == FALSE

\* An in-flight step may still write r's blocks.
MustWait(r, done) == lastSeq[r] > done

\* Mutant: the fence is the newest step of the requests themselves.
BugFence(F) ==
    CHOOSE n \in {lastSeq[r] : r \in F} : \A r \in F : lastSeq[r] <= n

\* The newest step there is, whatever requests of F it ran.
Fence(F) == sched

Park(q, f, B) == IF B = {} THEN q ELSE Append(q, [fence |-> f, blocks |-> B])

\* _free_request_blocks of each request in F, `done` steps being processed:
\* the releases that must wait share one fence, so one entry stands for them.
FreeRequestBlocks(F, q, done) ==
    /\ held' = [r \in Reqs |-> IF r \in F THEN {} ELSE held[r]]
    /\ LET Late == {r \in F : MustWait(r, done)}
       IN  deferred' = IF Late = {} THEN q
                       ELSE Park(q, Fence(Late), UNION {held[r] : r \in Late})

\* Mutant: the entry of the step just processed stays.
BugDrainLate(q, done) ==
    LET Pending == {i \in DOMAIN q : q[i].fence >= done}
        first   == CHOOSE i \in Pending : \A j \in Pending : i <= j
    IN  IF Pending = {} THEN <<>> ELSE SubSeq(q, first, Len(q))

\* _drain_deferred_frees: from the front, up to the first pending fence.
Drain(q, done) ==
    LET Pending == {i \in DOMAIN q : q[i].fence > done}
        first   == CHOOSE i \in Pending : \A j \in Pending : i <= j
    IN  IF Pending = {} THEN <<>> ELSE SubSeq(q, first, Len(q))

-----------------------------------------------------------------------------
(***************************************************************************)
(* schedule().                                                             *)
(***************************************************************************)
HasRequests == fin \/ \E r \in Reqs : status[r] # "done"

BeginSchedule ==
    /\ phase = "out" /\ Len(flight) < Depth /\ HasRequests
    /\ phase' = "run"
    /\ UNCHANGED <<requests, fences, flight, cur, resetFailed>>

\* Mutant: a parked block counts as free.
BugInPool(New) == New \cap (Held \cup cur.copies) = {}

\* get_new_blocks takes blocks from the pool only.
InPool(New) == New \subseteq Free

\* allocate_slots gives r the blocks New; with a partial hit, the last of them
\* is the private copy of the cached block src, which no request writes.
Allocate(r, New, copied) ==
    /\ InPool(New)
    /\ Cardinality(held[r] \cup New) <= MaxBlocks
    /\ held' = [held EXCEPT ![r] = held[r] \cup New]
    /\ copied \subseteq Blocks
    /\ copied # {} =>
         /\ Copies
         /\ \E src \in Blocks \ (Held \cup New), dst \in New :
                copied = {src, dst}

\* A running request gets this step, and up to one block it asks for.
ScheduleRunning(r, New, copied) ==
    /\ phase = "run" /\ sched < MaxSteps
    /\ status[r] = "running" /\ r \notin cur.reqs
    /\ cur.want \in {NoReq, r}
    /\ Cardinality(New) <= 1 /\ (cur.want = r => New # {})
    /\ Allocate(r, New, copied)
    /\ cur' = [cur EXCEPT !.reqs = @ \cup {r}, !.want = NoReq,
                          !.copies = @ \cup copied]
    /\ UNCHANGED <<status, lastSeq, recvd, fin, fences, flight, phase,
                   resetFailed>>

\* The request q finds no block: v is preempted for it, the lowest priority or
\* the last to run, q itself in the end.  v loses a place it had in this step.
Preempt(q, v) ==
    /\ phase = "run" /\ Free = {} /\ sched < MaxSteps
    /\ q \in Running \ cur.reqs /\ cur.want \in {NoReq, q}
    /\ Cardinality(held[q]) < MaxBlocks
    /\ v \in Running
    /\ FreeRequestBlocks({v}, deferred, processed)
    /\ status' = [status EXCEPT ![v] = "waiting"]
    /\ cur' = [cur EXCEPT !.reqs = @ \ {v}, !.preempted = TRUE,
                          !.want = IF v = q THEN NoReq ELSE q]
    /\ phase' = IF v = q THEN "end" ELSE "run"
    /\ UNCHANGED <<lastSeq, recvd, fin, sched, processed, flight, resetFailed>>

\* The waiting requests are looked at only when nobody was preempted.
ToWaiting ==
    /\ phase = "run" /\ cur.want = NoReq /\ ~cur.preempted
    /\ phase' = "wait"
    /\ UNCHANGED <<requests, fences, flight, cur, resetFailed>>

ScheduleWaiting(r, New, copied) ==
    /\ phase = "wait" /\ sched < MaxSteps
    /\ status[r] = "waiting"
    /\ Cardinality(New) <= 2 /\ held[r] \cup New # {}
    /\ Allocate(r, New, copied)
    /\ status' = [status EXCEPT ![r] = "running"]
    /\ cur' = [cur EXCEPT !.reqs = @ \cup {r}, !.copies = @ \cup copied]
    /\ UNCHANGED <<lastSeq, recvd, fin, fences, flight, phase, resetFailed>>

\* load_kv_async: blocks now, a transfer into them, no place in the step.
AdmitRemote(r, New) ==
    /\ phase = "wait"
    /\ status[r] = "waiting" /\ held[r] = {} /\ New # {}
    /\ Allocate(r, New, {})
    /\ status' = [status EXCEPT ![r] = "remote"]
    /\ UNCHANGED <<lastSeq, recvd, fin, fences, flight, phase, cur, resetFailed>>

\* The load is over; a load that failed from its first block on leaves nothing
\* worth keeping, and the blocks go straight back.
PromoteRemote(r, failed) ==
    /\ phase = "wait" /\ r \in recvd
    /\ status' = [status EXCEPT ![r] = "waiting"]
    /\ recvd' = recvd \ {r}
    /\ held' = IF failed THEN [held EXCEPT ![r] = {}] ELSE held
    /\ UNCHANGED <<lastSeq, fin, fences, flight, phase, cur, resetFailed>>

\* The first non-empty step from this one on implies the copies have run.
CopyFence == sched + 1

\* The end of schedule(): retained copies are released behind CopyFence, an
\* empty step keeps the sequence number, and the step goes to the executor.
EndSchedule ==
    /\ \/ phase = "run" /\ cur.want = NoReq /\ cur.preempted
       \/ phase \in {"wait", "end"}
    /\ LET n == IF cur.reqs = {} THEN sched ELSE sched + 1
       IN  /\ sched' = n
           /\ deferred' = Park(deferred, CopyFence, cur.copies)
           /\ lastSeq' = [r \in Reqs |-> IF r \in cur.reqs THEN n
                                                         ELSE lastSeq[r]]
           /\ flight' = Append(flight,
                  [seq |-> n, reqs |-> cur.reqs,
                   touch |-> cur.copies \cup UNION {held[r] : r \in cur.reqs}])
    /\ cur' = NoStep /\ phase' = "out" /\ fin' = FALSE
    /\ UNCHANGED <<status, held, recvd, processed, resetFailed>>

-----------------------------------------------------------------------------
(***************************************************************************)
(* update_from_output, aborts and resets: between two calls of schedule(). *)
(***************************************************************************)
\* processed_step_seq after the output of step s.
Processed(s) == IF s.reqs = {} THEN processed ELSE processed + 1

\* The oldest step's output: the fence moves and the deque drains, then of the
\* step's requests those in F stop, those in Z of them keep their blocks for a
\* transfer out, and the transfers of D are over.  The batch queue is full, or
\* there is nothing to schedule, or the newest step waits for this output.
UpdateFromOutput(F, Z, D) ==
    /\ phase = "out" /\ flight # <<>>
    /\ Len(flight) = Depth \/ ~HasRequests \/ Len(flight) > 1
    /\ F \subseteq {r \in Head(flight).reqs : status[r] \in {"running", "waiting"}}
    /\ Z \subseteq F
    /\ D \subseteq {r \in Reqs \ recvd : status[r] \in {"remote", "zombie"}}
    /\ LET n    == Processed(Head(flight))
           Gone == (F \ Z) \cup {r \in D : status[r] = "zombie"}
       IN  /\ processed' = n
           /\ FreeRequestBlocks(Gone,
                  IF Head(flight).reqs = {} THEN deferred ELSE Drain(deferred, n),
                  n)
           /\ status' = [r \in Reqs |-> IF r \in Gone THEN "done"
                                        ELSE IF r \in Z THEN "zombie"
                                        ELSE status[r]]
    /\ recvd' = recvd \cup {r \in D : status[r] = "remote"}
    /\ fin' = (fin \/ F # {})
    /\ flight' = Tail(flight)
    /\ UNCHANGED <<lastSeq, sched, phase, cur, resetFailed>>

\* finish_requests: an abort.  A load in progress keeps the blocks, and so may the
\* connector, for a transfer out (kept).
FinishRequest(r, kept) ==
    /\ phase = "out"
    /\ status[r] \in {"waiting", "running", "remote"}
    /\ LET delayed == kept \/ (status[r] = "remote" /\ r \notin recvd)
       IN  /\ status' = [status EXCEPT ![r] = IF delayed THEN "zombie" ELSE "done"]
           /\ FreeRequestBlocks(IF delayed THEN {} ELSE {r}, deferred, processed)
    /\ recvd' = recvd \ {r}
    /\ fin' = TRUE
    /\ UNCHANGED <<lastSeq, sched, processed, flight, phase, cur, resetFailed>>

\* reset_prefix_cache(reset_running_requests=True): everything running is
\* preempted, and the pool must then be whole.
ForceReset ==
    /\ phase = "out"
    /\ FreeRequestBlocks(Running, deferred, processed)
    /\ status' = [r \in Reqs |-> IF r \in Running THEN "waiting" ELSE status[r]]
    /\ UNCHANGED <<lastSeq, recvd, fin, sched, processed, flight, phase, cur>>
    /\ resetFailed' =
          (resetFailed \/ /\ Free' # Blocks
                          /\ \A r \in Reqs \ Running : held[r] = {})

-----------------------------------------------------------------------------
Schedule ==
    \/ BeginSchedule \/ ToWaiting \/ EndSchedule
    \/ \E r \in Reqs, New \in SUBSET Blocks, copied \in SUBSET Blocks :
          /\ Cardinality(New) <= 2 /\ Cardinality(copied) <= 2
          /\ ScheduleRunning(r, New, copied) \/ ScheduleWaiting(r, New, copied)
    \/ \E r \in Reqs, New \in SUBSET Blocks : AdmitRemote(r, New)
    \/ \E q, v \in Reqs : Preempt(q, v)
    \/ \E r \in Reqs, failed \in BOOLEAN : PromoteRemote(r, failed)

Update == \E F, Z, D \in SUBSET Reqs : UpdateFromOutput(F, Z, D)

Next ==
    \/ Schedule \/ Update \/ ForceReset
    \/ \E r \in Reqs, kept \in BOOLEAN : FinishRequest(r, kept)

Spec == Init /\ [][Next]_vars

(***************************************************************************)
(* Fairness: the engine's loop schedules and takes outputs for as long as  *)
(* there are requests or batches; a call of schedule() ends.  Aborts,      *)
(* resets, stops and transfers owe nothing.                                *)
(***************************************************************************)
LiveSpec == Spec /\ WF_vars(BeginSchedule) /\ WF_vars(ToWaiting)
                 /\ WF_vars(EndSchedule) /\ WF_vars(Schedule) /\ WF_vars(Update)

-----------------------------------------------------------------------------
(***************************************************************************)
(* Properties.                                                             *)
(***************************************************************************)
Statuses == {"waiting", "running", "remote", "zombie", "done"}

\* Requests, fences and steps have their types, and the counters their order.
TypeOK ==
    /\ status \in [Reqs -> Statuses]
    /\ held \in [Reqs -> SUBSET Blocks]
    /\ lastSeq \in [Reqs -> Nat]
    /\ recvd \subseteq {r \in Reqs : status[r] = "remote"}
    /\ sched \in Nat /\ processed \in Nat
    /\ deferred \in Seq([fence : Nat, blocks : SUBSET Blocks])
    /\ flight \in Seq([seq : Nat, reqs : SUBSET Reqs, touch : SUBSET Blocks])
    /\ phase \in {"out", "run", "wait", "end"}
    /\ cur \in [reqs : SUBSET Reqs, copies : SUBSET Blocks,
                want : Reqs \cup {NoReq}, preempted : BOOLEAN]
    /\ fin \in BOOLEAN /\ resetFailed \in BOOLEAN

\* No step in flight touches a block that is in the pool: through finishes,
\* aborts, preemptions, resets and copies, every block a step writes or copies
\* keeps a reference until the step's output has been processed.
NoLateAccess ==
    \A i \in DOMAIN flight : flight[i].touch \cap Free = {}

\* A remote load in progress fills blocks that no step in flight touches; the
\* two writes are not ordered against each other.
LoadTargetsQuiet ==
    \A i \in DOMAIN flight, r \in Reqs :
        status[r] = "remote" /\ r \notin recvd => held[r] \cap flight[i].touch = {}

\* _drain_deferred_frees stops at the first pending fence: the order its comment
\* relies on.  A fence behind another is older by one step at the most.
NearMonotone ==
    \A i, j \in DOMAIN deferred :
        i < j => deferred[j].fence >= deferred[i].fence - 1

\* A parked release whose step has been scheduled is let go in the end.
ParkedReturn ==
    \A f \in 1..MaxSteps :
        (deferred # <<>> /\ Head(deferred).fence = f /\ sched >= f)
            ~> (deferred = <<>> \/ Head(deferred).fence > f)

\* reset_prefix_cache says that preempting every running request makes sure
\* the reset is successful; only remote loads are named as an obstacle.
ForcedResetSucceeds == ~resetFailed
=============================================================================
