------------------------------ MODULE AsyncStep ------------------------------
(***************************************************************************)
(* One request under vLLM's asynchronous scheduler (AsyncScheduler in      *)
(* vllm/v1/core/sched/async_scheduler.py over Scheduler in scheduler.py):  *)
(* steps are scheduled before the output of earlier ones is known, so the  *)
(* token counts run ahead with placeholders, and a preemption leaves stale *)
(* output in flight.  Other requests are seen as memory pressure and as    *)
(* steps without this one.                                                 *)
(*                                                                         *)
(* A token is where it stands: its position, and the run of the worker it  *)
(* was sampled in, a run being what the worker computes from one (re)start *)
(* of the request to the next.                                             *)
(***************************************************************************)
EXTENDS Integers, Sequences

CONSTANTS Prompt,     \* num_prompt_tokens
          MaxTokens,  \* max_tokens
          MaxPreempts,\* bound: preemptions and resets
          Configs     \* the engine's settings to look at:
                      \*   spec: num_spec_tokens, the drafts of a step
                      \*   pp: pipeline_parallel_size; pp + 1 batches may be
                      \*     queued
                      \*   producer: requires_kv_delivery, the connector hands
                      \*     KV off

ASSUME AsyncAssumption ==
    /\ Prompt \in Nat \ {0} /\ MaxTokens \in Nat \ {0}
    /\ MaxPreempts \in Nat
    /\ Configs \subseteq [spec : Nat, pp : Nat \ {0}, producer : BOOLEAN]

VARIABLES
    conf,         \* the engine's settings, fixed when it starts
    status,       \* "waiting", "running", "preempted" or "finished"
    out,          \* the output tokens appended to the request
    computed,     \* num_computed_tokens
    placeholders, \* num_output_placeholders
    spec,         \* the number of spec_token_ids
    inFlight,     \* num_in_flight_tokens
    stale,        \* num_stale_output_tokens
    drop,         \* drop_stale_output
    gap,          \* schedule() calls since the last decode, PP at the most
    preempts,     \* num_preemptions
    flight,       \* the batch queue, oldest first
    wpos          \* the tokens the worker has

counts == <<computed, placeholders, spec, inFlight, stale, drop>>
vars   == <<conf, status, out, counts, gap, preempts, flight, wpos>>

NumSpec  == conf.spec
PP       == conf.pp
Producer == conf.producer

numTokens == Prompt + Len(out)

\* A step: n tokens of the request, d of them drafts; whether it samples; the
\* run it belongs to and, for the first of a run, the tokens it starts from.
NotInStep == [n |-> 0, d |-> 0, samples |-> FALSE, run |-> 0, base |-> 0,
              first |-> FALSE]

Init ==
    /\ conf \in Configs
    /\ status = "waiting" /\ out = <<>>
    /\ computed = 0 /\ placeholders = 0 /\ spec = 0
    /\ inFlight = 0 /\ stale = 0 /\ drop = FALSE
    /\ gap = PP /\ preempts = 0
    /\ flight = <<>>
    /\ wpos = 0

-----------------------------------------------------------------------------
(***************************************************************************)
(* schedule() and _update_after_schedule.                                  *)
(***************************************************************************)
CanSchedule == status # "finished" /\ Len(flight) <= PP

NextGap == IF gap < PP THEN gap + 1 ELSE PP

\* The steps in flight reach max_tokens even if every draft is rejected.
MaxTokensReached ==
    placeholders > 0 /\ computed + 2 - placeholders >= Prompt + MaxTokens

\* Mutant: consecutive decodes are not kept apart.
BugEligible == TRUE

\* next_decode_eligible_step: PP schedule() calls between two decodes.
Eligible == gap >= PP

\* Mutant: the drafts of a step earn no placeholders.
BugEarned(samples, d) == IF samples THEN 1 ELSE 0

\* What a step will produce at the most: one token, and its drafts.
Earned(samples, d) == IF samples THEN 1 + d ELSE 0

\* The request goes into the step with n tokens from position c on, d of them
\* drafts, and the counters run ahead.  A step that reaches the last known
\* token samples, and earns placeholders for what it will produce.
PutInStep(c, n, d, first) ==
    LET samples == c + n >= numTokens + placeholders
    IN  /\ computed' = c + n
        /\ inFlight' = inFlight + n
        /\ placeholders' = placeholders + Earned(samples, d)
        /\ spec' = IF samples THEN NumSpec ELSE 0
        /\ gap' = IF samples THEN 1 ELSE NextGap
        /\ flight' = Append(flight,
              [n |-> n, d |-> d, samples |-> samples, run |-> preempts,
               base |-> IF first THEN numTokens ELSE 0, first |-> first])

\* A running request: all it has to compute, or what the token budget leaves.
ScheduleRunning(n) ==
    /\ status = "running" /\ CanSchedule
    /\ ~MaxTokensReached /\ Eligible
    /\ n \in 1..(numTokens + spec + placeholders - computed)
    /\ LET d == n + computed - numTokens - placeholders
       IN  PutInStep(computed, n, IF d > 0 THEN d ELSE 0, FALSE)
    /\ UNCHANGED <<status, out, stale, drop, preempts, wpos>>

\* Mutant: drop_stale_output, which outlives the output, holds it back.
BugMayResume == stale = 0 /\ ~drop

\* Deliverable stale output must come in first.
MayResume == stale = 0 \/ drop

\* A waiting or preempted request: hit tokens are cached, n more are computed;
\* a single one may be padded with drafts.
ScheduleWaiting(hit, n, padded) ==
    /\ status \in {"waiting", "preempted"} /\ CanSchedule /\ MayResume
    /\ hit \in 0..(numTokens - 1) /\ n \in 1..(numTokens - hit)
    /\ padded => n = 1 /\ hit = numTokens - 1 /\ NumSpec > 0
    /\ LET d == IF padded THEN NumSpec ELSE 0
       IN  PutInStep(hit, n + d, d, TRUE)
    /\ status' = "running"
    /\ UNCHANGED <<out, stale, drop, preempts, wpos>>

\* The step leaves the request out: no budget, or other requests come first.
ScheduleOthers ==
    /\ CanSchedule
    /\ gap' = NextGap
    /\ flight' = Append(flight, NotInStep)
    /\ UNCHANGED <<status, out, counts, preempts, wpos>>

\* Mutant: a drop in progress is forgotten by the next preemption.
BugPreemptRequest(dropNow) ==
    /\ status = "running" /\ preempts < MaxPreempts
    /\ status' = "preempted"
    /\ drop' = dropNow
    /\ stale' = inFlight
    /\ computed' = 0 /\ placeholders' = 0 /\ spec' = 0
    /\ preempts' = preempts + 1
    /\ UNCHANGED <<out, inFlight, wpos>>

\* _preempt_request: all output in flight becomes stale, to be dropped or not.
PreemptRequest(dropNow) ==
    /\ status = "running" /\ preempts < MaxPreempts
    /\ status' = "preempted"
    /\ drop' = (dropNow \/ (drop /\ stale > 0))
    /\ stale' = inFlight
    /\ computed' = 0 /\ placeholders' = 0 /\ spec' = 0
    /\ preempts' = preempts + 1
    /\ UNCHANGED <<out, inFlight, wpos>>

\* Blocks run out in schedule(): the request is preempted, for another one.
Preempt ==
    /\ CanSchedule
    /\ PreemptRequest(Producer)
    /\ gap' = NextGap
    /\ flight' = Append(flight, NotInStep)

\* reset_prefix_cache(reset_running_requests=True), between two steps.
ForceReset ==
    /\ PreemptRequest(TRUE)
    /\ UNCHANGED <<gap, flight>>

-----------------------------------------------------------------------------
(***************************************************************************)
(* update_from_output.                                                     *)
(***************************************************************************)
Min2(a, b) == IF a < b THEN a ELSE b

\* Mutant: rejected drafts are not rolled back.
BugRejected(isStale, r) == 0

\* Rejected drafts roll the counters back, unless the preemption already did.
Rejected(isStale, r) == IF isStale THEN 0 ELSE r

\* Mutant: stale output is counted against placeholders it never had.
BugFilled(isStale, k) == k

\* Placeholders that k tokens fill; a preemption zeroed those of stale output.
Filled(isStale, k) == IF isStale THEN 0 ELSE k

\* The oldest step's output: a of its drafts are accepted, and of the tokens
\* it yields the first k are kept, fewer only at a stop.  What the worker had
\* when it sampled them is wpos, or the base of a run that begins.
UpdateFromOutput(a, k, stop) ==
    LET s     == Head(flight)
        from  == IF s.first THEN s.base ELSE wpos
        made  == IF s.samples THEN 1 + a ELSE 0
        isStale  == stale > 0
        ignore   == status = "finished" \/ (isStale /\ drop)
        left  == Prompt + MaxTokens - numTokens
        r     == Rejected(isStale, s.d - a)
    IN  /\ flight # <<>> /\ s.n > 0
        /\ a \in 0..s.d
        /\ flight' = Tail(flight)
        /\ wpos' = from + made
        /\ inFlight' = inFlight - s.n
        /\ stale' = IF isStale THEN stale - s.n ELSE stale
        /\ IF ignore \/ made = 0
             THEN /\ k = 0 /\ stop = FALSE
                  /\ UNCHANGED <<status, out, computed, placeholders>>
             ELSE /\ k \in 1..Min2(made, left)
                  /\ (k < made \/ k = left) => stop
                  /\ out' = out \o [i \in 1..k |->
                               [pos |-> from + i, run |-> s.run]]
                  /\ computed' = IF computed > 0 THEN computed - r ELSE computed
                  /\ LET p == IF placeholders > 0 THEN placeholders - r
                                                  ELSE placeholders
                     IN  placeholders' = p - Filled(isStale, k)
                  /\ status' = IF stop THEN "finished" ELSE status
        /\ UNCHANGED <<spec, drop, gap, preempts>>

\* The output of a step without the request.
UpdateOthers ==
    /\ flight # <<>> /\ Head(flight).n = 0
    /\ flight' = Tail(flight)
    /\ UNCHANGED <<status, out, counts, gap, preempts, wpos>>

\* finish_requests: the client goes away.
Abort ==
    /\ status # "finished"
    /\ status' = "finished"
    /\ UNCHANGED <<out, counts, gap, preempts, flight, wpos>>

-----------------------------------------------------------------------------
ScheduleRequest ==
    /\ \/ \E n \in 1..(Prompt + MaxTokens + NumSpec) : ScheduleRunning(n)
       \/ \E hit \in 0..(Prompt + MaxTokens), n \in 1..(Prompt + MaxTokens),
             padded \in BOOLEAN : ScheduleWaiting(hit, n, padded)
    /\ UNCHANGED conf

ScheduleNone == (ScheduleOthers \/ Preempt) /\ UNCHANGED conf

Update ==
    /\ \/ \E a \in 0..NumSpec, k \in 0..(NumSpec + 1), stop \in BOOLEAN :
             UpdateFromOutput(a, k, stop)
       \/ UpdateOthers
    /\ UNCHANGED conf

\* What comes from outside the engine's loop.
Outside == (ForceReset \/ Abort) /\ UNCHANGED conf

Next == ScheduleRequest \/ ScheduleNone \/ Update \/ Outside

Spec == Init /\ [][Next]_vars

(***************************************************************************)
(* Fairness: the engine takes the output of every batch it queues, and the *)
(* scheduler, which walks its queues from the front, does not pass over a  *)
(* request it could run for ever.                                          *)
(***************************************************************************)
LiveSpec == /\ Spec /\ WF_vars(Update) /\ SF_vars(ScheduleRequest)
            /\ WF_vars(ScheduleRequest \/ ScheduleNone)

-----------------------------------------------------------------------------
(***************************************************************************)
(* Properties.                                                             *)
(***************************************************************************)
StepType == [n : Nat, d : Nat, samples : BOOLEAN, run : Nat, base : Nat,
             first : BOOLEAN]

\* No count is ever negative: the assertions of update_from_output and of
\* _update_request_with_output never fail.
TypeOK ==
    /\ conf \in Configs
    /\ status \in {"waiting", "running", "preempted", "finished"}
    /\ out \in Seq([pos : Nat, run : Nat])
    /\ {computed, placeholders, spec, inFlight, stale} \subseteq Nat
    /\ drop \in BOOLEAN /\ gap \in 1..PP /\ preempts \in Nat
    /\ flight \in Seq(StepType) /\ wpos \in Nat

\* The i-th output token of the request is one the worker sampled for the i-th
\* output position: no preemption, reset or rejection ever drops a token from
\* the middle, delivers one twice or lets two runs interleave.
InOrder ==
    \A i \in DOMAIN out :
        /\ out[i].pos = Prompt + i
        /\ i > 1 => out[i].run >= out[i - 1].run

Stale(i) == flight[i].run # preempts \/ status = "preempted"

\* The sum of a sequence of numbers.
Total(q) ==
    LET sum[i \in 0..Len(q)] == IF i = 0 THEN 0 ELSE sum[i - 1] + q[i]
    IN  sum[Len(q)]

\* The counters say exactly what is in flight: the tokens of its steps, those
\* of them that a preemption made stale, and the output the others may bring.
CountersExact ==
    status # "finished" =>
    /\ inFlight = Total([i \in DOMAIN flight |-> flight[i].n])
    /\ stale = Total([i \in DOMAIN flight |->
                        IF Stale(i) THEN flight[i].n ELSE 0])
    /\ placeholders = Total([i \in DOMAIN flight |->
                        IF Stale(i) \/ ~flight[i].samples
                          THEN 0 ELSE 1 + flight[i].d])

\* Between the prefill and the end the KV of every token but the last is there
\* or on its way: the next step computes the newest token and its drafts.
KVInPlace ==
    status = "running" /\ (placeholders > 0 \/ computed >= numTokens)
        => computed = numTokens + placeholders - 1

\* The deferred-free tests: a request that reaches max_tokens was not scheduled
\* past its final token, so nothing of it is in flight.  Drafts may be.
NoOverschedule ==
    status = "finished" /\ numTokens = Prompt + MaxTokens /\ NumSpec = 0
        => inFlight = 0

\* A request ends: it is never left waiting for stale output that does not
\* come, for a turn that is not its own, or short of tokens with none coming.
Finishes == <>(status = "finished")
=============================================================================
