---------------------------- MODULE ShmBroadcast ----------------------------
(***************************************************************************)
(* vLLM's broadcast queue, vllm/distributed/device_communicators/          *)
(* shm_broadcast.py: one writer, local readers that share a ring of chunks *)
(* with it and no lock, remote readers behind a socket.  Each chunk has a  *)
(* written flag and one read flag per local reader; the order in which the *)
(* two sides read and write those bytes is the whole synchronisation.      *)
(*                                                                         *)
(* Message m is the writer's m-th; a chunk's data is the message it holds, *)
(* 0 while the writer's caller is filling it.  The messages in Big do not  *)
(* fit a chunk: the chunk then carries only the overflow byte and the      *)
(* payload follows over local_socket.                                      *)
(***************************************************************************)
EXTENDS Integers, Sequences

CONSTANTS NLocal,      \* n_local_reader
          NRemote,     \* n_remote_reader
          MaxChunks,   \* max_chunks
          Big,         \* the messages that overflow a chunk
          MaxMsgs,     \* bound: messages the writer sends
          Timeouts,    \* TRUE: callers pass a timeout to enqueue and dequeue
          WriterDies,  \* TRUE: the writer's process may die
          ShutDowns    \* TRUE: readers may be shut down

ASSUME ShmAssumption ==
    /\ NLocal \in Nat \ {0}
    /\ NRemote \in Nat
    /\ MaxChunks \in Nat \ {0}
    /\ MaxMsgs \in Nat
    /\ Big \subseteq 1..MaxMsgs
    /\ {Timeouts, WriterDies, ShutDowns} \subseteq BOOLEAN

Local   == 1..NLocal
Readers == 1..(NLocal + NRemote)
Remote  == Readers \ Local
Chunks  == 0..(MaxChunks - 1)

VARIABLES
    written,     \* written[c]: the chunk's written flag
    flag,        \* flag[c][r]: reader r's read flag in chunk c
    data,        \* data[c]: the message in the chunk
    wpc,         \* where the writer is in enqueue
    widx,        \* the writer's current_idx
    wi,          \* the read flag the writer resets next
    sent,        \* messages published
    rpc,         \* rpc[r]: where reader r is in dequeue
    ridx,        \* ridx[r]: local reader r's current_idx
    taken,       \* taken[r]: chunks local reader r has marked read
    hold,        \* hold[r]: what r copied out of the chunk
    last,        \* last[r]: the message dequeue returned last
    sock,        \* sock[r]: payloads on r's subscription socket
    ping,        \* ping[r]: a notification waits on r's notify socket
    down         \* down[r]: r's shutting_down, and its cancel socket readable

ring    == <<written, flag, data>>
writer  == <<wpc, widx, wi, sent>>
reader  == <<rpc, ridx, taken, hold, last>>
vars    == <<ring, writer, reader, sock, ping, down>>

(***************************************************************************)
(* Creation.  The metadata section is zeroed; both sides start at chunk 0. *)
(* wait_until_ready has returned everywhere, so every socket delivers.     *)
(***************************************************************************)
Init ==
    /\ written = [c \in Chunks |-> FALSE]
    /\ flag = [c \in Chunks |-> [r \in Local |-> FALSE]]
    /\ data = [c \in Chunks |-> 0]
    /\ wpc = "idle" /\ widx = 0 /\ wi = 1 /\ sent = 0
    /\ rpc = [r \in Readers |-> "idle"]
    /\ ridx = [r \in Local |-> 0]
    /\ taken = [r \in Local |-> 0]
    /\ hold = [r \in Local |-> 0]
    /\ last = [r \in Readers |-> 0]
    /\ sock = [r \in Readers |-> <<>>]
    /\ ping = [r \in Local |-> FALSE]
    /\ down = [r \in Readers |-> FALSE]

NextIdx(i) == (i + 1) % MaxChunks

-----------------------------------------------------------------------------
(***************************************************************************)
(* The writer: enqueue, with acquire_write around the copy.                *)
(***************************************************************************)
Enqueue ==
    /\ wpc = "idle" /\ sent < MaxMsgs
    /\ wpc' = "check"
    /\ UNCHANGED <<ring, widx, wi, sent, reader, sock, ping, down>>

\* Mutant: a chunk every reader has read is not free again.
BugWritableOnce == ~written[widx]

\* The chunk is not written, or every local reader has read it.  The flags
\* are summed before the written flag is read; readers only ever raise them
\* and nobody else writes the written flag, so one step sees the same.
Writable == written[widx] => \A r \in Local : flag[widx][r]

\* The written flag goes down before the caller touches the data.
AcquireWrite ==
    /\ wpc = "check" /\ Writable
    /\ written' = [written EXCEPT ![widx] = FALSE]
    /\ data' = [data EXCEPT ![widx] = 0]
    /\ wpc' = "write"
    /\ UNCHANGED <<flag, widx, wi, sent, reader, sock, ping, down>>

\* enqueue raises TimeoutError having changed nothing.
WriteTimeout ==
    /\ Timeouts /\ wpc = "check" /\ ~Writable
    /\ wpc' = "idle"
    /\ UNCHANGED <<ring, widx, wi, sent, reader, sock, ping, down>>

WriteBody ==
    /\ wpc = "write"
    /\ data' = [data EXCEPT ![widx] = sent + 1]
    /\ wpc' = "reset" /\ wi' = 1
    /\ UNCHANGED <<written, flag, widx, sent, reader, sock, ping, down>>

\* An exception in the caller's body leaves acquire_write at its yield: the
\* chunk stays unwritten and current_idx where it was.
WriteAbort ==
    /\ wpc = "write"
    /\ wpc' = "idle"
    /\ UNCHANGED <<ring, widx, wi, sent, reader, sock, ping, down>>

\* The read flags come down one byte at a time.
ResetFlag ==
    /\ wpc = "reset" /\ wi <= NLocal
    /\ flag' = [flag EXCEPT ![widx][wi] = FALSE]
    /\ wi' = wi + 1
    /\ UNCHANGED <<written, data, wpc, widx, sent, reader, sock, ping, down>>

\* Only then does the written flag go up, and the chunk is the readers'.
Publish ==
    /\ wpc = "reset" /\ wi > NLocal
    /\ written' = [written EXCEPT ![widx] = TRUE]
    /\ widx' = NextIdx(widx)
    /\ sent' = sent + 1
    /\ wpc' = IF sent + 1 \in Big THEN "send" ELSE "notify"
    /\ UNCHANGED <<flag, data, wi, reader, sock, ping, down>>

\* The payload of an overflowing message, after the chunk that announces it.
SendPayload ==
    /\ wpc = "send"
    /\ sock' = [r \in Readers |-> IF r \in Local THEN Append(sock[r], sent)
                                                ELSE sock[r]]
    /\ wpc' = "notify"
    /\ UNCHANGED <<ring, widx, wi, sent, reader, ping, down>>

\* A lossy publish: SNDHWM is 1 and the readers' sockets conflate, so any
\* subset of the local readers gets the ping, and one ping at most waits.
Notify ==
    /\ wpc = "notify"
    /\ \E S \in SUBSET Local : ping' = [r \in Local |-> ping[r] \/ r \in S]
    /\ wpc' = IF NRemote > 0 THEN "remote" ELSE "idle"
    /\ UNCHANGED <<ring, widx, wi, sent, reader, sock, down>>

\* Mutant: an overflowing message is sent to the local readers only.
BugSendRemote ==
    /\ wpc = "remote"
    /\ sock' = [r \in Readers |-> IF r \in Remote /\ sent \notin Big
                                  THEN Append(sock[r], sent) ELSE sock[r]]
    /\ wpc' = "idle"
    /\ UNCHANGED <<ring, widx, wi, sent, reader, ping, down>>

SendRemote ==
    /\ wpc = "remote"
    /\ sock' = [r \in Readers |-> IF r \in Remote THEN Append(sock[r], sent)
                                                 ELSE sock[r]]
    /\ wpc' = "idle"
    /\ UNCHANGED <<ring, widx, wi, sent, reader, ping, down>>

\* The writer's process is killed between two of its steps.
WriterDie ==
    /\ WriterDies /\ wpc # "dead"
    /\ wpc' = "dead"
    /\ UNCHANGED <<ring, widx, wi, sent, reader, sock, ping, down>>

-----------------------------------------------------------------------------
(***************************************************************************)
(* A reader: dequeue, with acquire_read around the copy.                   *)
(***************************************************************************)
Goto(r, pc) == rpc' = [rpc EXCEPT ![r] = pc]

Dequeue(r) ==
    /\ rpc[r] = "idle"
    /\ Goto(r, IF r \in Local THEN "check" ELSE "recv")
    /\ UNCHANGED <<ring, writer, ridx, taken, hold, last, sock, ping, down>>

\* Mutant: the two loads the other way round.
BugReadCheck(r) ==
    /\ \/ /\ rpc[r] = "check"
          /\ Goto(r, IF written[ridx[r]] THEN "check2" ELSE "wait")
       \/ /\ rpc[r] = "check2"
          /\ Goto(r, IF flag[ridx[r]][r] THEN "wait" ELSE "copy")
    /\ UNCHANGED <<ring, writer, ridx, taken, hold, last, sock, ping, down>>

\* check(): this reader's own read flag first, then the written flag.
ReadCheck(r) ==
    /\ \/ /\ rpc[r] = "check"
          /\ Goto(r, IF flag[ridx[r]][r] THEN "wait" ELSE "check2")
       \/ /\ rpc[r] = "check2"
          /\ Goto(r, IF written[ridx[r]] THEN "copy" ELSE "wait")
    /\ UNCHANGED <<ring, writer, ridx, taken, hold, last, sock, ping, down>>

\* timeout_ms() finds the deadline passed and raises.
ReadTimeout(r) ==
    /\ Timeouts /\ rpc[r] = "wait"
    /\ Goto(r, "idle")
    /\ UNCHANGED <<ring, writer, ridx, taken, hold, last, sock, ping, down>>

\* SpinCondition.wait: yield while reads are frequent, else park on the
\* notify and cancel sockets.  Which of the two depends on the clock.
Spin(r) ==
    /\ rpc[r] = "wait"
    /\ Goto(r, "woken")
    /\ UNCHANGED <<ring, writer, ridx, taken, hold, last, sock, ping, down>>

Park(r) ==
    /\ rpc[r] = "wait"
    /\ Goto(r, "parked")
    /\ UNCHANGED <<ring, writer, ridx, taken, hold, last, sock, ping, down>>

\* The poller returns: a cancel, which stays readable, or else a ping, which
\* is consumed.
Pinged(r) ==
    /\ rpc[r] = "parked" /\ (down[r] \/ ping[r])
    /\ Goto(r, "woken")
    /\ ping' = IF down[r] THEN ping ELSE [ping EXCEPT ![r] = FALSE]
    /\ UNCHANGED <<ring, writer, ridx, taken, hold, last, sock, down>>

\* Mutant: without the recheck interval the poll waits for a socket alone.
BugRecheck(r) ==
    /\ rpc[r] = "parked" /\ ping[r]
    /\ Goto(r, "woken")
    /\ UNCHANGED <<ring, writer, ridx, taken, hold, last, sock, ping, down>>

\* The poll ends by itself: its timeout is capped at the recheck interval,
\* whatever the caller's timeout.
Recheck(r) ==
    /\ rpc[r] = "parked" /\ ~down[r] /\ ~ping[r]
    /\ Goto(r, "woken")
    /\ UNCHANGED <<ring, writer, ridx, taken, hold, last, sock, ping, down>>

\* After any wait, shutting_down raises "cancelled", else the loop goes on.
AfterWait(r) ==
    /\ rpc[r] = "woken"
    /\ Goto(r, IF down[r] THEN "cancelled" ELSE "check")
    /\ UNCHANGED <<ring, writer, ridx, taken, hold, last, sock, ping, down>>

\* The caller's body: the message, or the overflow byte, out of the chunk.
CopyOut(r) ==
    /\ rpc[r] = "copy"
    /\ hold' = [hold EXCEPT ![r] = data[ridx[r]]]
    /\ Goto(r, "mark")
    /\ UNCHANGED <<ring, writer, ridx, taken, last, sock, ping, down>>

\* The finally block: the read flag goes up and current_idx moves on, and a
\* message that fitted its chunk is returned.  An exception while unpickling
\* runs the same block: the message is spent.
MarkRead(r) ==
    /\ rpc[r] = "mark"
    /\ flag' = [flag EXCEPT ![ridx[r]][r] = TRUE]
    /\ ridx' = [ridx EXCEPT ![r] = NextIdx(ridx[r])]
    /\ taken' = [taken EXCEPT ![r] = taken[r] + 1]
    /\ last' = IF hold[r] \in Big THEN last ELSE [last EXCEPT ![r] = hold[r]]
    /\ Goto(r, IF hold[r] \in Big THEN "recv" ELSE "idle")
    /\ UNCHANGED <<written, data, writer, hold, sock, ping, down>>

\* Mutant: the payload is looked at and left on the socket.
BugRecv(r) ==
    /\ rpc[r] = "recv" /\ sock[r] # <<>>
    /\ last' = [last EXCEPT ![r] = Head(sock[r])]
    /\ Goto(r, "idle")
    /\ UNCHANGED <<ring, writer, ridx, taken, hold, sock, ping, down>>

\* recv: the payload at the head of this reader's socket is the result.
Recv(r) ==
    /\ rpc[r] = "recv" /\ sock[r] # <<>>
    /\ last' = [last EXCEPT ![r] = Head(sock[r])]
    /\ sock' = [sock EXCEPT ![r] = Tail(sock[r])]
    /\ Goto(r, "idle")
    /\ UNCHANGED <<ring, writer, ridx, taken, hold, ping, down>>

\* recv's poll times out and raises; the chunk is already marked read.
RecvTimeout(r) ==
    /\ Timeouts /\ rpc[r] = "recv" /\ sock[r] = <<>>
    /\ Goto(r, "idle")
    /\ UNCHANGED <<ring, writer, ridx, taken, hold, last, sock, ping, down>>

\* shutdown(), from another thread of the reader's process.
Shutdown(r) ==
    /\ ShutDowns /\ ~down[r]
    /\ down' = [down EXCEPT ![r] = TRUE]
    /\ UNCHANGED <<ring, writer, reader, sock, ping>>

-----------------------------------------------------------------------------
InEnqueue ==
    \/ AcquireWrite \/ WriteBody \/ ResetFlag \/ Publish
    \/ SendPayload \/ Notify \/ SendRemote

WriterStep == Enqueue \/ InEnqueue \/ WriteTimeout \/ WriteAbort \/ WriterDie

InDequeue(r) ==
    \/ Dequeue(r) \/ Recv(r)
    \/ /\ r \in Local
       /\ \/ ReadCheck(r) \/ Spin(r) \/ Park(r) \/ Pinged(r) \/ Recheck(r)
          \/ AfterWait(r) \/ CopyOut(r) \/ MarkRead(r)

ReaderStep(r) ==
    \/ InDequeue(r)
    \/ r \in Local /\ ReadTimeout(r)
    \/ RecvTimeout(r)
    \/ Shutdown(r)

Next == WriterStep \/ \E r \in Readers : ReaderStep(r)

Spec == Init /\ [][Next]_vars

(***************************************************************************)
(* Fairness: a writer inside enqueue and a reader of a dequeue loop keep   *)
(* running; the operating system schedules both processes.  The body's     *)
(* exception, the timeouts, a crash, a shutdown and the next enqueue are   *)
(* nobody's duty, and neither is the delivery of a ping.                   *)
(***************************************************************************)
Fairness == WF_vars(InEnqueue) /\ \A r \in Readers : WF_vars(InDequeue(r))

LiveSpec == Spec /\ Fairness
-----------------------------------------------------------------------------
(***************************************************************************)
(* Properties.                                                             *)
(***************************************************************************)
WriterAt == {"idle", "check", "write", "reset", "send", "notify", "remote",
             "dead"}
ReaderAt == {"idle", "check", "check2", "wait", "parked", "woken", "copy",
             "mark", "recv", "cancelled"}

\* Every flag, index and message number has its type.
TypeOK ==
    /\ written \in [Chunks -> BOOLEAN]
    /\ flag \in [Chunks -> [Local -> BOOLEAN]]
    /\ data \in [Chunks -> Nat]
    /\ wpc \in WriterAt /\ widx \in Chunks /\ wi \in 1..(NLocal + 1)
    /\ sent \in 0..MaxMsgs
    /\ rpc \in [Readers -> ReaderAt]
    /\ ridx \in [Local -> Chunks]
    /\ taken \in [Local -> Nat]
    /\ hold \in [Local -> Nat]
    /\ last \in [Readers -> Nat]
    /\ sock \in [Readers -> Seq(1..MaxMsgs)]
    /\ ping \in [Local -> BOOLEAN]
    /\ down \in [Readers -> BOOLEAN]

\* A reader inside acquire_read has the next message of the sequence in front
\* of it for as long as it is there: the writer neither overwrites the chunk
\* under it nor leads it to a chunk it has read before.
NoTornRead ==
    \A r \in Local :
        /\ rpc[r] = "copy" => /\ written[ridx[r]]
                              /\ data[ridx[r]] = taken[r] + 1
        /\ rpc[r] = "mark" => hold[r] = taken[r] + 1

\* How far chunk c is ahead of reader r, and how many chunks r has to read.
Off(r, c) == IF c >= ridx[r] THEN c - ridx[r] ELSE c + MaxChunks - ridx[r]
Lag(r)    == sent - taken[r]

\* The writer is Lag chunks ahead of each reader, at most once round.
LagOK ==
    \A r \in Local :
        /\ Lag(r) \in 0..MaxChunks
        /\ widx = IF ridx[r] + Lag(r) < MaxChunks
                    THEN ridx[r] + Lag(r)
                    ELSE ridx[r] + Lag(r) - MaxChunks

\* A reader's chunks: the ones it has to read are written, unread and hold
\* the messages it is due, in order; the others cannot look readable to it.
FlagOK(r, c) ==
    /\ Off(r, c) < Lag(r) => /\ written[c] /\ ~flag[c][r]
                             /\ data[c] = taken[r] + Off(r, c) + 1
    /\ Off(r, c) >= Lag(r) => (written[c] => flag[c][r])

FlagsOK == \A r \in Local, c \in Chunks : FlagOK(r, c)

\* Inside acquire_write the chunk is the writer's alone.
WriterOK ==
    /\ wpc \in {"write", "reset"} =>
          ~written[widx] /\ \A r \in Local : Lag(r) < MaxChunks
    /\ wpc = "reset" =>
          data[widx] = sent + 1 /\ \A r \in Local : r < wi => ~flag[widx][r]
    /\ wpc \in {"check", "write", "reset"} => sent < MaxMsgs

\* Inside acquire_read the chunk is the reader's.
ReaderOK ==
    \A r \in Local :
        /\ rpc[r] = "check2" => ~flag[ridx[r]][r]
        /\ rpc[r] \in {"copy", "mark"} => Lag(r) > 0
        /\ rpc[r] = "mark" => hold[r] = taken[r] + 1

\* The flag protocol of acquire_write and acquire_read keeps writer and readers
\* on consistent, disjoint parts of the ring, whatever the interleaving.
RingInv == LagOK /\ FlagsOK /\ WriterOK /\ ReaderOK

\* An overflowing message's payload is never ahead of the chunk announcing it,
\* and the payload a local reader would take next is the one it waits for.
PayloadMatches ==
    \A r \in Local :
        rpc[r] = "recv" /\ sock[r] # <<>> => Head(sock[r]) = hold[r]

\* The queue delivers every message to every reader once and in order, and
\* paces the writer by the ring's size.  A reader waiting for a payload has
\* already freed its chunk, hence one message more when messages overflow.
Backlog == MaxChunks + (IF Big = {} THEN 0 ELSE 1)
B == INSTANCE Broadcast WITH Paced <- Local
BroadcastSpec == B!BSpec

\* test_shm_broadcast.py: a dequeue that raises TimeoutError takes nothing, and
\* the next one returns the message.  Deliveries advance one message at a time.
TimeoutLosesNothing ==
    [][\A r \in Readers : last'[r] # last[r] => last'[r] = last[r] + 1]_vars

\* Every published message reaches every reader, although any notification may
\* be lost: the recheck interval bounds how long a parked reader misses it.
Delivered ==
    \A r \in Readers, m \in 1..MaxMsgs : (sent >= m) ~> (last[r] >= m)

\* A writer in enqueue gets out of it: no ring of readers and writer waits for
\* itself.
EnqueueReturns == (wpc # "idle") ~> (wpc = "idle")

\* SpinCondition: a shutdown wakes the reader so that it can exit.  No local
\* reader stays in dequeue for good once it has been shut down.
ShutdownWakes ==
    \A r \in Local : down[r] ~> (rpc[r] \in {"idle", "cancelled"})
=============================================================================
