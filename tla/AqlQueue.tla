------------------------------ MODULE AqlQueue ------------------------------
(***************************************************************************)
(* A gfx803 AQL queue as the patches under src/patches/rocm-systems leave  *)
(* it: producers that reserve slots, fill them and ring a legacy doorbell  *)
(* (hsa-agent-rejects-legacy-doorbell.patch), the doubled ring that lets   *)
(* the packet processor tell full from empty                               *)
(* (aql-ring-queue-full-workaround.patch), and the graph-replay path that  *)
(* submits a captured graph in chunks                                      *)
(* (graph-replay-batch-chunk-deadlock.patch).                              *)
(*                                                                         *)
(* Packets are numbered by dispatch id, 0, 1, 2, ...  The ring memory is   *)
(* write-back and x86 keeps stores in order, so a packet is visible before *)
(* the doorbell that follows it.  The packet processor (CP) is external,   *)
(* modelled from what the patches say of it.                               *)
(***************************************************************************)
EXTENDS Integers

CONSTANTS Producers,      \* threads that dispatch to this queue
          Graph,          \* the ones that replay graphs; the others dispatch
                          \* one packet at a time
          Size,           \* hsa_queue.size, a power of two
          BatchSize,      \* DEBUG_HIP_GRAPH_BATCH_SIZE
          DoorbellTypes,  \* the doorbell types to look at, of 0 and 1
          Wrap,           \* 2^32: a type-1 doorbell is the id's low 32 bits
          Budget          \* bound: packets each producer dispatches

Free == "free"

ASSUME AqlAssumption ==
    /\ Graph \subseteq Producers
    /\ Size \in Nat \ {0, 1} /\ BatchSize \in Nat \ {0}
    /\ DoorbellTypes \subseteq {0, 1}
    /\ Free \notin Producers
    /\ \E k \in 2..Wrap : Wrap = k * Size
    /\ Budget \in [Producers -> Nat]

Slots   == 0..(Size - 1)
INVALID == -1

VARIABLES
    doorbell_type,       \* what the agent has, fixed when the queue is made
    write_dispatch_id,   \* next id to reserve
    read_dispatch_id,    \* next id the CP fetches
    header,              \* header[s]: the packet id in slot s, or INVALID
    lock,                \* legacy_doorbell_lock: Free or its holder
    watermark,           \* max_legacy_doorbell_dispatch_id_plus_1
    wptr,                \* what the last doorbell write left in the CP
    pc,                  \* pc[p]: where producer p is
    base,                \* base[p]: first id of p's chunk
    count,               \* count[p]: packets in p's chunk
    filled,              \* filled[p]: how many of them are in the ring
    left                 \* left[p]: packets p has still to reserve

prod == <<pc, base, count, filled, left>>
vars == <<doorbell_type, write_dispatch_id, read_dispatch_id, header, lock,
          watermark, wptr, prod>>

Init ==
    /\ doorbell_type \in DoorbellTypes
    /\ write_dispatch_id = 0 /\ read_dispatch_id = 0
    /\ header = [s \in Slots |-> INVALID]
    /\ lock = Free /\ watermark = 0 /\ wptr = 0
    /\ pc = [p \in Producers |-> "idle"]
    /\ base = [p \in Producers |-> 0]
    /\ count = [p \in Producers |-> 0]
    /\ filled = [p \in Producers |-> 0]
    /\ left = Budget

Goto(p, l) == pc' = [pc EXCEPT ![p] = l]

-----------------------------------------------------------------------------
(***************************************************************************)
(* Dispatch.  A graph-replay chunk keeps one slot of the ring unused       *)
(* (sw_queue_size is the queue's mask); a plain dispatch may fill it.      *)
(***************************************************************************)
Capacity(p) == IF p \in Graph THEN Size - 1 ELSE Size

\* Mutant: the chunk size is the flag's value, whatever the queue.
BugkPeriod(p) == IF p \in Graph THEN BatchSize ELSE 1

kPeriod(p) ==
    IF p \notin Graph THEN 1
    ELSE IF BatchSize < Capacity(p) THEN BatchSize ELSE Capacity(p)

ChunkSizes(p) == {n \in 1..kPeriod(p) : n <= left[p]}

\* The write index moves by a whole chunk; the first chunk of a graph may be
\* a shorter lead.
Reserve(p) ==
    /\ pc[p] = "idle" /\ left[p] > 0
    /\ \E n \in ChunkSizes(p) :
        /\ count' = [count EXCEPT ![p] = n]
        /\ left' = [left EXCEPT ![p] = left[p] - n]
        /\ write_dispatch_id' = write_dispatch_id + n
    /\ base' = [base EXCEPT ![p] = write_dispatch_id]
    /\ filled' = [filled EXCEPT ![p] = 0]
    /\ Goto(p, "slot")
    /\ UNCHANGED <<doorbell_type, read_dispatch_id, header, lock,
                   watermark, wptr>>

LastId(p) == base[p] + count[p] - 1

\* Mutant: one packet too many.
BugHasSlot(p) == LastId(p) - read_dispatch_id < Capacity(p) + 1

\* Mutant: the room is measured from the doorbell, not from the read pointer.
BugHasSlotRung(p) == LastId(p) - watermark < Capacity(p)

\* WaitForQueueSlot's condition, for the chunk's last packet.
HasSlot(p) == LastId(p) - read_dispatch_id < Capacity(p)

WaitForQueueSlot(p) ==
    /\ pc[p] = "slot" /\ HasSlot(p)
    /\ Goto(p, "fill")
    /\ UNCHANGED <<doorbell_type, write_dispatch_id, read_dispatch_id,
                   header, lock, watermark, wptr, base, count, filled, left>>

\* One packet of the chunk, its header last.
FillPacket(p) ==
    /\ pc[p] = "fill"
    /\ header' = [header EXCEPT ![(base[p] + filled[p]) % Size] =
                                    base[p] + filled[p]]
    /\ filled' = [filled EXCEPT ![p] = filled[p] + 1]
    /\ Goto(p, IF filled[p] + 1 = count[p] THEN "lock" ELSE "fill")
    /\ UNCHANGED <<doorbell_type, write_dispatch_id, read_dispatch_id,
                   lock, watermark, wptr, base, count, left>>

-----------------------------------------------------------------------------
(***************************************************************************)
(* AqlQueue::StoreRelaxed, legacy branch, for the chunk's last id.         *)
(***************************************************************************)
AcquireLock(p) ==
    /\ pc[p] = "lock" /\ lock = Free
    /\ lock' = p
    /\ Goto(p, "mark")
    /\ UNCHANGED <<doorbell_type, write_dispatch_id, read_dispatch_id,
                   header, watermark, wptr, base, count, filled, left>>

LegacyId(p) == LastId(p) + 1

\* Mutant: a doorbell is never discarded.
BugNews(p) == TRUE
News(p)    == LegacyId(p) > watermark

\* A backwards or duplicate doorbell is discarded; a new one moves the
\* watermark, which the CP's write pointer is also restored from.
StoreWatermark(p) ==
    /\ pc[p] = "mark"
    /\ watermark' = IF News(p) THEN LegacyId(p) ELSE watermark
    /\ Goto(p, IF News(p) THEN "ring" ELSE "unlock")
    /\ UNCHANGED <<doorbell_type, write_dispatch_id, read_dispatch_id,
                   header, lock, wptr, base, count, filled, left>>

\* Mutant: the index is masked to the ring, not to the doubled ring.
BugMasked(id) == IF doorbell_type = 0 THEN id % Size ELSE id % Wrap

\* What the doorbell holds of an id: type 0 masks it with the doubled queue
\* size (the packet-size factor left out), type 1 keeps the low 32 bits.
Masked(id) == IF doorbell_type = 0 THEN id % (2 * Size) ELSE id % Wrap

RingDoorbell(p) ==
    /\ pc[p] = "ring"
    /\ wptr' = Masked(LegacyId(p))
    /\ Goto(p, "unlock")
    /\ UNCHANGED <<doorbell_type, write_dispatch_id, read_dispatch_id,
                   header, lock, watermark, base, count, filled, left>>

ReleaseLock(p) ==
    /\ pc[p] = "unlock"
    /\ lock' = Free
    /\ Goto(p, "idle")
    /\ UNCHANGED <<doorbell_type, write_dispatch_id, read_dispatch_id,
                   header, watermark, wptr, base, count, filled, left>>

-----------------------------------------------------------------------------
(***************************************************************************)
(* The packet processor (external).  It compares masked pointers: equal    *)
(* means empty, and then it parks.  It waits at a slot whose header is     *)
(* still INVALID, and invalidates the header of a packet it has fetched.   *)
(***************************************************************************)
CpHasWork == wptr # Masked(read_dispatch_id)

CpFetch ==
    /\ CpHasWork
    /\ header[read_dispatch_id % Size] # INVALID
    /\ header' = [header EXCEPT ![read_dispatch_id % Size] = INVALID]
    /\ read_dispatch_id' = read_dispatch_id + 1
    /\ UNCHANGED <<doorbell_type, write_dispatch_id, lock, watermark,
                   wptr, prod>>

\* The queue is mapped again and its write pointer read from memory.
CpReload ==
    /\ wptr' = Masked(watermark)
    /\ UNCHANGED <<doorbell_type, write_dispatch_id, read_dispatch_id,
                   header, lock, watermark, prod>>

-----------------------------------------------------------------------------
Dispatch(p) ==
    \/ Reserve(p) \/ WaitForQueueSlot(p) \/ FillPacket(p)
    \/ AcquireLock(p) \/ StoreWatermark(p) \/ RingDoorbell(p) \/ ReleaseLock(p)

Next == (\E p \in Producers : Dispatch(p)) \/ CpFetch \/ CpReload

Spec == Init /\ [][Next]_vars

(***************************************************************************)
(* Fairness: producer threads run and the CP fetches.  The budgets are     *)
(* finite, so weak fairness is enough for the unfair spinlock.  Nothing    *)
(* obliges the queue ever to be mapped again.                              *)
(***************************************************************************)
LiveSpec == /\ Spec /\ WF_vars(CpFetch)
            /\ \A p \in Producers : WF_vars(Dispatch(p))

-----------------------------------------------------------------------------
(***************************************************************************)
(* Properties.                                                             *)
(***************************************************************************)
\* Every variable keeps its type; in particular no chunk of a graph is longer
\* than what is left of it (left[p] never goes below zero).
TypeOK ==
    /\ doorbell_type \in DoorbellTypes
    /\ write_dispatch_id \in Nat /\ read_dispatch_id \in Nat
    /\ header \in [Slots -> Nat \cup {INVALID}]
    /\ lock \in Producers \cup {Free}
    /\ watermark \in Nat /\ wptr \in Nat
    /\ pc \in [Producers -> {"idle", "slot", "fill", "lock", "mark", "ring",
                             "unlock"}]
    /\ base \in [Producers -> Nat] /\ count \in [Producers -> Nat]
    /\ filled \in [Producers -> Nat] /\ left \in [Producers -> Nat]

\* A producer that WaitForQueueSlot let through never writes over a packet the
\* CP has not fetched, although it reserved its ids before it looked.
NoOverwrite ==
    \A p \in Producers : pc[p] = "fill" =>
        header[(base[p] + filled[p]) % Size] = INVALID

\* What the CP fetches at the read pointer is the packet with that id: no
\* packet is skipped, fetched twice or left from the previous lap.
FetchInOrder ==
    \A s \in Slots : header[s] # INVALID =>
        /\ read_dispatch_id <= header[s]
        /\ header[s] < read_dispatch_id + Size
        /\ header[s] % Size = s

\* Packets the CP believes it has to fetch.
Pending == (wptr - Masked(read_dispatch_id)) %
               (IF doorbell_type = 0 THEN 2 * Size ELSE Wrap)

\* The masked pointers say exactly how many rung packets are left, a ring that
\* is exactly full included, except while the lock's holder is between its two
\* stores, when the CP may have either value.
DoorbellExact ==
    /\ (\A p \in Producers : pc[p] # "ring") =>
            Pending = watermark - read_dispatch_id
    /\ read_dispatch_id + Pending <= watermark

\* Every packet of every producer and every chunk of every graph is fetched:
\* no chunk waits for slots only its own packets could free, no doorbell is
\* lost and a full ring is drained.
AllFetched == <>[](/\ \A p \in Producers : left[p] = 0 /\ pc[p] = "idle"
                   /\ read_dispatch_id = write_dispatch_id)
=============================================================================
