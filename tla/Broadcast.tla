----------------------------- MODULE Broadcast -----------------------------
(***************************************************************************)
(* What vLLM's MessageQueue promises its callers: the writer's messages,   *)
(* numbered 1, 2, 3, ..., reach every reader once each and in order, and   *)
(* the writer is never more than Backlog messages ahead of a local reader. *)
(***************************************************************************)
EXTENDS Naturals

CONSTANTS Readers,   \* every reader of the queue
          Paced,     \* the readers the writer waits for (the local ones)
          Backlog,   \* how far the writer may run ahead of a paced reader
          MaxMsgs    \* bound: messages the writer sends

VARIABLES sent,      \* number of messages sent
          last       \* last[r]: the message reader r got last, 0 for none

bvars == <<sent, last>>

BInit == sent = 0 /\ last = [r \in Readers |-> 0]

Send ==
    /\ sent < MaxMsgs
    /\ \A r \in Paced : sent < last[r] + Backlog
    /\ sent' = sent + 1
    /\ UNCHANGED last

Deliver(r) ==
    /\ last[r] < sent
    /\ last' = [last EXCEPT ![r] = last[r] + 1]
    /\ UNCHANGED sent

BNext == Send \/ \E r \in Readers : Deliver(r)

BSpec == BInit /\ [][BNext]_bvars
=============================================================================
