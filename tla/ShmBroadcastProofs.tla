------------------------- MODULE ShmBroadcastProofs -------------------------
(***************************************************************************)
(* Proofs about ShmBroadcast, for every number of readers, chunks and      *)
(* messages: the ring keeps its flag protocol, no reader sees a torn or a  *)
(* stale chunk, payloads that overflow a chunk meet the reader that waits  *)
(* for them, and the queue implements Broadcast.                           *)
(***************************************************************************)
EXTENDS ShmBroadcast, SequenceTheorems, TLAPS

\* current_idx = (current_idx + 1) % max_chunks steps to the next chunk or
\* wraps to the first one.
LEMMA NextIdxFact ==
    ASSUME NEW i \in Chunks
    PROVE  /\ NextIdx(i) \in Chunks
           /\ NextIdx(i) = IF i + 1 < MaxChunks THEN i + 1 ELSE 0
<1>1. MaxChunks \in Nat /\ 0 < MaxChunks /\ i \in Nat /\ i < MaxChunks
  BY ShmAssumption DEF Chunks
<1>2. CASE i + 1 < MaxChunks
  BY <1>1, <1>2 DEF NextIdx, Chunks
<1>3. CASE ~(i + 1 < MaxChunks)
  <2>1. i + 1 = MaxChunks
    BY <1>1, <1>3
  <2>2. MaxChunks % MaxChunks = 0
    BY <1>1
  <2> QED
    BY <1>1, <1>3, <2>1, <2>2 DEF NextIdx, Chunks
<1> QED
  BY <1>2, <1>3

-----------------------------------------------------------------------------
(***************************************************************************)
(* Types.  What is sent over a socket is a message only because enqueue    *)
(* publishes before it sends.                                              *)
(***************************************************************************)
Published == wpc \in {"send", "notify", "remote"} => sent > 0

\* The types hold when the queue is created.
LEMMA TypeInit == Init => TypeOK /\ Published
<1> SUFFICES ASSUME Init PROVE TypeOK /\ Published
  OBVIOUS
<1> USE ShmAssumption
<1>1. 0 \in Chunks /\ 1 \in 1..(NLocal + 1) /\ 0 \in 0..MaxMsgs
  BY DEF Chunks
<1>2. <<>> \in Seq(1..MaxMsgs)
  BY EmptySeq
<1> QED
  BY <1>1, <1>2 DEF Init, TypeOK, Published, WriterAt, ReaderAt

\* The steps of the writer keep the types.
LEMMA TypeWriter ==
    ASSUME TypeOK, Published, WriterOK, WriterStep
    PROVE  TypeOK' /\ Published'
<1> USE ShmAssumption
<1>1. CASE Enqueue
  BY <1>1 DEF Enqueue, TypeOK, Published, ring, reader, WriterAt
<1>2. CASE AcquireWrite
  BY <1>2 DEF AcquireWrite, TypeOK, Published, reader, WriterAt
<1>3. CASE WriteBody
  <2>1. sent + 1 \in Nat /\ 1 \in 1..(NLocal + 1)
    BY DEF TypeOK
  <2> QED
    BY <1>3, <2>1 DEF WriteBody, TypeOK, Published, reader, WriterAt
<1>4. CASE ResetFlag
  <2>1. wi + 1 \in 1..(NLocal + 1) /\ wi \in Local
    BY <1>4 DEF ResetFlag, TypeOK, Local
  <2>2. flag' \in [Chunks -> [Local -> BOOLEAN]]
    BY <1>4, <2>1 DEF ResetFlag, TypeOK
  <2> QED
    BY <1>4, <2>1, <2>2 DEF ResetFlag, TypeOK, Published, reader, WriterAt
<1>5. CASE Publish
  <2>1. NextIdx(widx) \in Chunks
    BY NextIdxFact DEF TypeOK
  <2>2. sent + 1 \in 0..MaxMsgs /\ sent + 1 > 0
    BY <1>5 DEF Publish, TypeOK, WriterOK
  <2> QED
    BY <1>5, <2>1, <2>2 DEF Publish, TypeOK, Published, reader, WriterAt
<1>6. CASE SendPayload \/ SendRemote
  <2>1. sent \in 1..MaxMsgs
    BY <1>6 DEF SendPayload, SendRemote, Published, TypeOK
  <2>2. \A r \in Readers : Append(sock[r], sent) \in Seq(1..MaxMsgs)
    BY <2>1, AppendProperties DEF TypeOK
  <2>3. sock' \in [Readers -> Seq(1..MaxMsgs)]
    <3>1. CASE SendPayload
      BY <2>2, <3>1 DEF SendPayload, TypeOK
    <3>2. CASE SendRemote
      BY <2>2, <3>2 DEF SendRemote, TypeOK
    <3> QED
      BY <1>6, <3>1, <3>2
  <2> QED
    BY <1>6, <2>3 DEF SendPayload, SendRemote, TypeOK, Published, ring, reader,
                      WriterAt
<1>7. CASE Notify
  <2>1. ping' \in [Local -> BOOLEAN]
    BY <1>7 DEF Notify, TypeOK
  <2> QED
    BY <1>7, <2>1 DEF Notify, TypeOK, Published, ring, reader, WriterAt
<1>8. CASE WriteTimeout \/ WriteAbort \/ WriterDie
  BY <1>8 DEF WriteTimeout, WriteAbort, WriterDie, TypeOK, Published, ring,
              reader, WriterAt
<1> QED
  BY <1>1, <1>2, <1>3, <1>4, <1>5, <1>6, <1>7, <1>8 DEF WriterStep, InEnqueue

\* The steps of a reader keep the types.
LEMMA TypeReader ==
    ASSUME TypeOK, Published, NEW r \in Readers, ReaderStep(r)
    PROVE  TypeOK' /\ Published'
<1> USE ShmAssumption
<1>1. CASE Dequeue(r) \/ Shutdown(r) \/ RecvTimeout(r)
  BY <1>1 DEF Dequeue, Shutdown, RecvTimeout, Goto, TypeOK, Published, ring,
              writer, reader, ReaderAt
<1>2. CASE Recv(r)
  <2>1. Head(sock[r]) \in Nat /\ Tail(sock[r]) \in Seq(1..MaxMsgs)
    BY <1>2, HeadTailProperties DEF Recv, TypeOK
  <2> QED
    BY <1>2, <2>1 DEF Recv, Goto, TypeOK, Published, ring, writer, ReaderAt
<1>3. CASE r \in Local /\ (ReadCheck(r) \/ Spin(r) \/ Park(r) \/ Recheck(r)
                             \/ AfterWait(r) \/ ReadTimeout(r))
  BY <1>3 DEF ReadCheck, Spin, Park, Recheck, AfterWait, ReadTimeout, Goto,
              TypeOK, Published, ring, writer, ReaderAt
<1>4. CASE r \in Local /\ Pinged(r)
  BY <1>4 DEF Pinged, Goto, TypeOK, Published, ring, writer, ReaderAt
<1>5. CASE r \in Local /\ CopyOut(r)
  <2>1. data[ridx[r]] \in Nat
    BY <1>5 DEF TypeOK
  <2> QED
    BY <1>5, <2>1 DEF CopyOut, Goto, TypeOK, Published, ring, writer, ReaderAt
<1>6. CASE r \in Local /\ MarkRead(r)
  <2>1. NextIdx(ridx[r]) \in Chunks
    BY <1>6, NextIdxFact DEF TypeOK
  <2>2. flag' \in [Chunks -> [Local -> BOOLEAN]]
    BY <1>6 DEF MarkRead, TypeOK
  <2>3. taken[r] + 1 \in Nat /\ hold[r] \in Nat
    BY <1>6 DEF TypeOK
  <2> QED
    BY <1>6, <2>1, <2>2, <2>3 DEF MarkRead, Goto, TypeOK, Published, writer,
                                  ReaderAt
<1> QED
  BY <1>1, <1>2, <1>3, <1>4, <1>5, <1>6 DEF ReaderStep, InDequeue

-----------------------------------------------------------------------------
(***************************************************************************)
(* The ring.                                                               *)
(***************************************************************************)
LEMMA RingInit == Init => RingInv
<1> SUFFICES ASSUME Init PROVE RingInv
  OBVIOUS
<1> USE ShmAssumption
<1>1. LagOK
  BY DEF Init, LagOK, Lag
<1>2. FlagsOK
  BY DEF Init, FlagsOK, FlagOK, Lag, Off, Chunks
<1>3. WriterOK /\ ReaderOK
  BY DEF Init, WriterOK, ReaderOK, Local, Readers
<1> QED
  BY <1>1, <1>2, <1>3 DEF RingInv

\* The writer's chunk is the first one past what reader r has to read; no
\* other chunk is that far.
LEMMA WriterOffset ==
    ASSUME TypeOK, LagOK, NEW r \in Local, Lag(r) < MaxChunks
    PROVE  /\ Off(r, widx) = Lag(r)
           /\ \A c \in Chunks : c # widx => Off(r, c) # Lag(r)
<1>1. PICK i, w, l, m : /\ i = ridx[r] /\ w = widx /\ l = Lag(r) /\ m = MaxChunks
                        /\ i \in Nat /\ w \in Nat /\ l \in Nat /\ m \in Nat
                        /\ i < m /\ w < m /\ l < m
                        /\ w = IF i + l < m THEN i + l ELSE i + l - m
  <2>1. ridx[r] \in Nat /\ ridx[r] < MaxChunks /\ widx \in Nat /\ widx < MaxChunks
    BY ShmAssumption DEF TypeOK, Chunks
  <2> QED
    BY <2>1, ShmAssumption DEF LagOK
<1>2. \A c \in Nat :
          c < m /\ (IF c >= i THEN c - i ELSE c + m - i) = l => c = w
  BY <1>1
<1>3. (IF w >= i THEN w - i ELSE w + m - i) = l
  BY <1>1
<1>4. \A c \in Chunks : c \in Nat /\ c < m
  BY <1>1 DEF Chunks
<1> QED
  BY <1>1, <1>2, <1>3, <1>4 DEF Off

\* Chunk ridx[r] is at distance 0, the others at 1 or more.
LEMMA ReaderOffset ==
    ASSUME TypeOK, NEW r \in Local
    PROVE  /\ Off(r, ridx[r]) = 0
           /\ \A c \in Chunks : /\ Off(r, c) \in 0..(MaxChunks - 1)
                                /\ c # ridx[r] => Off(r, c) > 0
<1>1. PICK i, m : /\ i = ridx[r] /\ m = MaxChunks
                  /\ i \in Nat /\ m \in Nat /\ i < m
  BY ShmAssumption DEF TypeOK, Chunks
<1>2. \A c \in Chunks : c \in Nat /\ c < m
  BY <1>1 DEF Chunks
<1>3. \A c \in Nat : c < m =>
          /\ (IF c >= i THEN c - i ELSE c + m - i) \in 0..(m - 1)
          /\ c # i => (IF c >= i THEN c - i ELSE c + m - i) > 0
  BY <1>1
<1> QED
  BY <1>1, <1>2, <1>3 DEF Off

\* A chunk acquire_write may take is no reader's: a reader a whole round
\* behind has not read it.
LEMMA AcquiredIsFree ==
    ASSUME TypeOK, RingInv, Writable
    PROVE  \A r \in Local : Lag(r) < MaxChunks
<1> SUFFICES ASSUME NEW r \in Local, Lag(r) >= MaxChunks
             PROVE  FALSE
  BY ShmAssumption DEF RingInv, LagOK
<1>1. Lag(r) = MaxChunks /\ widx = ridx[r] /\ 0 < MaxChunks
  BY ShmAssumption DEF RingInv, LagOK, TypeOK, Chunks
<1>2. Off(r, widx) = 0
  BY <1>1, ReaderOffset
<1>3. written[widx] /\ ~flag[widx][r]
  BY <1>1, <1>2 DEF RingInv, FlagsOK, FlagOK, TypeOK
<1> QED
  BY <1>3 DEF Writable

\* A step that changes nothing but the writer's own chunk, and leaves that
\* unwritten, disturbs no reader.
LEMMA OwnChunk ==
    ASSUME TypeOK, RingInv, \A r \in Local : Lag(r) < MaxChunks,
           UNCHANGED <<widx, sent, ridx, taken>>, ~written'[widx],
           \A c \in Chunks : c # widx => /\ written'[c] = written[c]
                                         /\ data'[c] = data[c]
                                         /\ flag'[c] = flag[c]
    PROVE  FlagsOK'
<1> SUFFICES ASSUME NEW r \in Local, NEW c \in Chunks
             PROVE  FlagOK(r, c)'
  BY DEF FlagsOK
<1>1. Off(r, c)' = Off(r, c) /\ Lag(r)' = Lag(r)
  BY DEF Off, Lag
<1>2. CASE c = widx
  <2>1. Off(r, c) = Lag(r) /\ Lag(r) \in Nat
    BY <1>2, WriterOffset, ShmAssumption DEF RingInv, LagOK
  <2> QED
    BY <1>1, <1>2, <2>1 DEF FlagOK
<1>3. CASE c # widx
  BY <1>1, <1>3 DEF RingInv, FlagsOK, FlagOK
<1> QED
  BY <1>2, <1>3

\* Each step of the writer keeps the ring's invariant.
LEMMA RingWriter ==
    ASSUME TypeOK, RingInv, WriterStep
    PROVE  RingInv'
<1> USE ShmAssumption
<1>1. CASE Enqueue \/ SendPayload \/ Notify \/ SendRemote \/ WriteTimeout
             \/ WriteAbort \/ WriterDie
  <2>1. UNCHANGED <<ring, widx, sent, reader>> /\ wpc' \notin {"write", "reset"}
    BY <1>1 DEF Enqueue, SendPayload, Notify, SendRemote, WriteTimeout,
                WriteAbort, WriterDie
  <2>2. wpc' = "check" => sent < MaxMsgs
    BY <1>1 DEF Enqueue, SendPayload, Notify, SendRemote, WriteTimeout,
                WriteAbort, WriterDie
  <2> QED
    BY <2>1, <2>2 DEF RingInv, LagOK, FlagsOK, FlagOK, WriterOK, ReaderOK, Lag,
                      Off, ring, reader
<1>2. CASE AcquireWrite
  <2>1. \A r \in Local : Lag(r) < MaxChunks
    BY <1>2, AcquiredIsFree DEF AcquireWrite
  <2>2. LagOK' /\ ReaderOK'
    BY <1>2 DEF AcquireWrite, RingInv, LagOK, ReaderOK, Lag, reader
  <2>3. WriterOK'
    BY <1>2, <2>1 DEF AcquireWrite, RingInv, WriterOK, Lag, reader, TypeOK
  <2>4. FlagsOK'
    BY <1>2, <2>1, OwnChunk DEF AcquireWrite, TypeOK, reader
  <2> QED
    BY <2>2, <2>3, <2>4 DEF RingInv
<1>3. CASE WriteBody
  <2>1. \A r \in Local : Lag(r) < MaxChunks
    BY <1>3 DEF WriteBody, RingInv, WriterOK
  <2>2. LagOK' /\ ReaderOK'
    BY <1>3 DEF WriteBody, RingInv, LagOK, ReaderOK, Lag, reader
  <2>3. WriterOK'
    BY <1>3, <2>1 DEF WriteBody, RingInv, WriterOK, Lag, reader, TypeOK, Local
  <2>4. FlagsOK'
    BY <1>3, <2>1, OwnChunk DEF WriteBody, TypeOK, reader, RingInv, WriterOK
  <2> QED
    BY <2>2, <2>3, <2>4 DEF RingInv
<1>4. CASE ResetFlag
  <2>1. (\A r \in Local : Lag(r) < MaxChunks) /\ ~written[widx]
    BY <1>4 DEF ResetFlag, RingInv, WriterOK
  <2>2. wi \in Local /\ wi \in Nat
    BY <1>4 DEF ResetFlag, TypeOK, Local
  <2>3. \A c \in Chunks, r \in Local :
            flag'[c][r] = IF c = widx /\ r = wi THEN FALSE ELSE flag[c][r]
    BY <1>4, <2>2 DEF ResetFlag, TypeOK
  <2>4. \A c \in Chunks : c # widx => flag'[c] = flag[c]
    BY <1>4, <2>2 DEF ResetFlag, TypeOK
  <2>5. LagOK'
    BY <1>4 DEF ResetFlag, RingInv, LagOK, Lag, reader
  <2>6. ReaderOK'
    BY <1>4, <2>3 DEF ResetFlag, RingInv, ReaderOK, Lag, reader, TypeOK
  <2>7. WriterOK'
    <3>1. ASSUME NEW r \in Local, r < wi + 1 PROVE ~flag'[widx][r]
      <4>1. r < wi \/ r = wi
        BY <2>2, <3>1 DEF Local
      <4>2. widx \in Chunks /\ (r < wi => ~flag[widx][r])
        BY <1>4 DEF ResetFlag, RingInv, WriterOK, TypeOK
      <4> QED
        BY <2>3, <4>1, <4>2
    <3> QED
      BY <1>4, <2>1, <3>1 DEF ResetFlag, RingInv, WriterOK, Lag, reader
  <2>8. FlagsOK'
    BY <1>4, <2>1, <2>4, OwnChunk DEF ResetFlag, reader
  <2> QED
    BY <2>5, <2>6, <2>7, <2>8 DEF RingInv
<1>5. CASE Publish
  <2>1. /\ \A r \in Local : Lag(r) < MaxChunks /\ ~flag[widx][r]
        /\ data[widx] = sent + 1 /\ sent < MaxMsgs
    BY <1>5 DEF Publish, RingInv, WriterOK, TypeOK, Local
  <2>2. \A r \in Local : Lag(r)' = Lag(r) + 1 /\ Lag(r) \in Nat
    BY <1>5 DEF Publish, Lag, reader, TypeOK, RingInv, LagOK
  <2>3. LagOK'
    <3> SUFFICES ASSUME NEW r \in Local
                 PROVE  /\ Lag(r)' \in 0..MaxChunks
                        /\ widx' = IF ridx[r] + Lag(r)' < MaxChunks
                                     THEN ridx[r] + Lag(r)'
                                     ELSE ridx[r] + Lag(r)' - MaxChunks
      BY <1>5 DEF LagOK, Publish, reader
    <3>1. widx' = IF widx + 1 < MaxChunks THEN widx + 1 ELSE 0
      BY <1>5, NextIdxFact DEF Publish, TypeOK
    <3>2. widx = IF ridx[r] + Lag(r) < MaxChunks THEN ridx[r] + Lag(r)
                                                 ELSE ridx[r] + Lag(r) - MaxChunks
      BY DEF RingInv, LagOK
    <3>3. PICK i, w, l, m : /\ i = ridx[r] /\ w = widx /\ l = Lag(r)
                            /\ m = MaxChunks
                            /\ i \in Nat /\ w \in Nat /\ l \in Nat /\ m \in Nat
                            /\ i < m /\ l < m
      BY <2>1, <2>2 DEF TypeOK, Chunks
    <3>4. w = IF i + l < m THEN i + l ELSE i + l - m
      BY <3>2, <3>3
    <3>5. (IF w + 1 < m THEN w + 1 ELSE 0)
             = IF i + (l + 1) < m THEN i + (l + 1) ELSE i + (l + 1) - m
      BY <3>3, <3>4
    <3> QED
      BY <2>2, <3>1, <3>3, <3>5
  <2>4. WriterOK'
    BY <1>5 DEF Publish, WriterOK
  <2>5. ReaderOK'
    BY <1>5, <2>2 DEF Publish, RingInv, ReaderOK, reader
  <2>6. FlagsOK'
    <3> SUFFICES ASSUME NEW r \in Local, NEW c \in Chunks
                 PROVE  FlagOK(r, c)'
      BY DEF FlagsOK
    <3>1. Off(r, c)' = Off(r, c) /\ Off(r, c) \in Nat
      BY <1>5, ReaderOffset DEF Publish, Off, reader
    <3>2. CASE c = widx
      <4>1. Off(r, c) = Lag(r)
        BY <3>2, <2>1, WriterOffset DEF RingInv
      <4>2. written'[c] /\ flag'[c][r] = flag[c][r] /\ data'[c] = data[c]
             /\ taken' = taken
        BY <1>5, <3>2 DEF Publish, TypeOK, reader
      <4>3. data[c] = taken[r] + Off(r, c) + 1
        BY <2>1, <3>2, <4>1 DEF Lag, TypeOK
      <4> QED
        BY <2>1, <2>2, <3>1, <3>2, <4>1, <4>2, <4>3 DEF FlagOK
    <3>3. CASE c # widx
      <4>1. Off(r, c) # Lag(r)
        BY <3>3, <2>1, WriterOffset DEF RingInv
      <4>2. written'[c] = written[c] /\ flag' = flag /\ data' = data
             /\ taken' = taken
        BY <1>5, <3>3 DEF Publish, TypeOK, reader
      <4> QED
        BY <2>2, <3>1, <4>1, <4>2 DEF FlagOK, RingInv, FlagsOK
    <3> QED
      BY <3>2, <3>3
  <2> QED
    BY <2>3, <2>4, <2>5, <2>6 DEF RingInv
<1> QED
  BY <1>1, <1>2, <1>3, <1>4, <1>5 DEF WriterStep, InEnqueue

\* Local readers are readers.
LEMMA LocalReaders == Local \subseteq Readers
  BY ShmAssumption DEF Local, Readers

\* Marking a chunk read moves reader r on: every other chunk comes one nearer
\* and the chunk just read becomes the farthest.
LEMMA NextOffset ==
    ASSUME TypeOK, NEW r \in Local, ridx' = [ridx EXCEPT ![r] = NextIdx(ridx[r])]
    PROVE  /\ \A c \in Chunks : c = ridx[r] => Off(r, c)' = MaxChunks - 1
           /\ \A c \in Chunks : c # ridx[r] => Off(r, c)' = Off(r, c) - 1
           /\ \A s \in Local \ {r}, c \in Chunks : Off(s, c)' = Off(s, c)
<1>1. PICK i, m : /\ i = ridx[r] /\ m = MaxChunks
                  /\ i \in Nat /\ m \in Nat /\ i < m /\ i \in Chunks
  BY ShmAssumption DEF TypeOK, Chunks
<1>2. PICK j : j = ridx'[r] /\ j = IF i + 1 < m THEN i + 1 ELSE 0
  BY <1>1, NextIdxFact DEF TypeOK
<1>3. \A c \in Chunks : c \in Nat /\ c < m
  BY <1>1 DEF Chunks
<1>4. (IF i >= j THEN i - j ELSE i + m - j) = m - 1
  BY <1>1, <1>2
<1>5. \A c \in Nat : c < m /\ c # i =>
          (IF c >= j THEN c - j ELSE c + m - j)
             = (IF c >= i THEN c - i ELSE c + m - i) - 1
  BY <1>1, <1>2
<1>6. \A c \in Chunks : c = ridx[r] => Off(r, c)' = MaxChunks - 1
  BY <1>1, <1>2, <1>4 DEF Off
<1>7. \A c \in Chunks : c # ridx[r] => Off(r, c)' = Off(r, c) - 1
  BY <1>1, <1>2, <1>3, <1>5 DEF Off
<1>8. \A s \in Local \ {r}, c \in Chunks : Off(s, c)' = Off(s, c)
  BY DEF Off, TypeOK
<1> QED
  BY <1>6, <1>7, <1>8

\* Each step of a reader keeps the ring's invariant.
LEMMA RingReader ==
    ASSUME TypeOK, RingInv, NEW r \in Readers, ReaderStep(r)
    PROVE  RingInv'
<1> USE ShmAssumption
<1>1. CASE \/ Dequeue(r) \/ Recv(r) \/ RecvTimeout(r) \/ Shutdown(r)
           \/ Spin(r) \/ Park(r) \/ Pinged(r) \/ Recheck(r) \/ AfterWait(r)
           \/ ReadTimeout(r)
  <2>1. UNCHANGED <<ring, writer, ridx, taken, hold>>
    BY <1>1 DEF Dequeue, Recv, RecvTimeout, Shutdown, Spin, Park, Pinged,
                Recheck, AfterWait, ReadTimeout, reader
  <2>2. \A q \in Local : rpc'[q] = rpc[q] \/ rpc'[q] \notin {"check2", "copy", "mark"}
    <3>1. \/ rpc' = rpc
          \/ \E pc \in {"check", "recv", "idle", "woken", "parked", "cancelled"} :
                rpc' = [rpc EXCEPT ![r] = pc]
      BY <1>1 DEF Dequeue, Recv, RecvTimeout, Shutdown, Spin, Park, Pinged,
                  Recheck, AfterWait, ReadTimeout, Goto, reader
    <3> QED
      BY <3>1, LocalReaders DEF TypeOK
  <2>3. LagOK' /\ FlagsOK' /\ WriterOK'
    BY <2>1 DEF RingInv, LagOK, FlagsOK, FlagOK, WriterOK, Lag, Off, ring, writer
  <2>4. ReaderOK'
    BY <2>1, <2>2 DEF RingInv, ReaderOK, Lag, ring, writer
  <2> QED
    BY <2>3, <2>4 DEF RingInv
<1>2. CASE r \in Local /\ ReadCheck(r)
  <2>1. UNCHANGED <<ring, writer, ridx, taken, hold>>
    BY <1>2 DEF ReadCheck
  <2>2. LagOK' /\ FlagsOK' /\ WriterOK'
    BY <2>1 DEF RingInv, LagOK, FlagsOK, FlagOK, WriterOK, Lag, Off, ring, writer
  <2>3. \A q \in Local \ {r} : rpc'[q] = rpc[q]
    BY <1>2, LocalReaders DEF ReadCheck, Goto, TypeOK
  <2>4. rpc'[r] = "check2" => ~flag[ridx[r]][r]
    BY <1>2 DEF ReadCheck, Goto, TypeOK
  <2>5. rpc'[r] \in {"copy", "mark"} => Lag(r) > 0
    <3> SUFFICES ASSUME rpc'[r] \in {"copy", "mark"} PROVE Lag(r) > 0
      OBVIOUS
    <3>1. written[ridx[r]] /\ ~flag[ridx[r]][r]
      BY <1>2 DEF ReadCheck, Goto, TypeOK, RingInv, ReaderOK
    <3>2. Off(r, ridx[r]) = 0 /\ Lag(r) \in Nat /\ ridx[r] \in Chunks
      BY <1>2, ReaderOffset DEF RingInv, LagOK, TypeOK
    <3> QED
      BY <1>2, <3>1, <3>2 DEF RingInv, FlagsOK, FlagOK
  <2>6. rpc'[r] # "mark"
    BY <1>2 DEF ReadCheck, Goto, TypeOK
  <2>7. ReaderOK'
    BY <2>1, <2>3, <2>4, <2>5, <2>6 DEF RingInv, ReaderOK, Lag, ring, writer
  <2> QED
    BY <2>2, <2>7 DEF RingInv
<1>3. CASE r \in Local /\ CopyOut(r)
  <2>1. UNCHANGED <<ring, writer, ridx, taken>>
    BY <1>3 DEF CopyOut
  <2>2. LagOK' /\ FlagsOK' /\ WriterOK'
    BY <2>1 DEF RingInv, LagOK, FlagsOK, FlagOK, WriterOK, Lag, Off, ring, writer
  <2>3. \A q \in Local \ {r} : rpc'[q] = rpc[q] /\ hold'[q] = hold[q]
    BY <1>3, LocalReaders DEF CopyOut, Goto, TypeOK
  <2>4. Lag(r) > 0 /\ rpc'[r] = "mark" /\ hold'[r] = data[ridx[r]]
    BY <1>3 DEF CopyOut, Goto, TypeOK, RingInv, ReaderOK
  <2>5. data[ridx[r]] = taken[r] + 1
    <3>1. Off(r, ridx[r]) = 0 /\ Lag(r) \in Nat /\ ridx[r] \in Chunks
           /\ taken[r] \in Nat
      BY <1>3, ReaderOffset DEF RingInv, LagOK, TypeOK
    <3> QED
      BY <1>3, <2>4, <3>1 DEF RingInv, FlagsOK, FlagOK
  <2>6. ReaderOK'
    BY <2>1, <2>3, <2>4, <2>5 DEF RingInv, ReaderOK, Lag, ring, writer
  <2> QED
    BY <2>2, <2>6 DEF RingInv
<1>4. CASE r \in Local /\ MarkRead(r)
  <2>1. r \in Local /\ ridx[r] \in Chunks /\ ridx[r] \in Nat /\ ridx[r] < MaxChunks
    BY <1>4 DEF TypeOK, Chunks
  <2>2. UNCHANGED <<written, data, writer, hold>>
    BY <1>4 DEF MarkRead
  <2>3. \A q \in Local \ {r} : /\ rpc'[q] = rpc[q] /\ taken'[q] = taken[q]
                               /\ ridx'[q] = ridx[q]
    BY <1>4, LocalReaders DEF MarkRead, Goto, TypeOK
  <2>4. /\ rpc'[r] \in {"recv", "idle"} /\ taken'[r] = taken[r] + 1
        /\ ridx'[r] = IF ridx[r] + 1 < MaxChunks THEN ridx[r] + 1 ELSE 0
    BY <1>4, NextIdxFact DEF MarkRead, Goto, TypeOK
  <2>5. \A c \in Chunks, q \in Local :
            flag'[c][q] = IF c = ridx[r] /\ q = r THEN TRUE ELSE flag[c][q]
    BY <1>4 DEF MarkRead, TypeOK
  <2>6. /\ Lag(r) \in Nat /\ Lag(r) > 0 /\ Lag(r) <= MaxChunks
        /\ Lag(r)' = Lag(r) - 1
        /\ \A q \in Local \ {r} : Lag(q)' = Lag(q)
    BY <1>4, <2>2, <2>3, <2>4 DEF MarkRead, RingInv, ReaderOK, LagOK, Lag, TypeOK,
                                  writer
  <2>7. LagOK'
    <3> SUFFICES ASSUME NEW q \in Local
                 PROVE  /\ Lag(q)' \in 0..MaxChunks
                        /\ widx' = IF ridx'[q] + Lag(q)' < MaxChunks
                                     THEN ridx'[q] + Lag(q)'
                                     ELSE ridx'[q] + Lag(q)' - MaxChunks
      BY DEF LagOK
    <3>1. CASE q # r
      BY <2>2, <2>3, <2>6, <3>1 DEF RingInv, LagOK, writer
    <3>2. CASE q = r
      <4>1. PICK i, w, l, m : /\ i = ridx[r] /\ w = widx /\ l = Lag(r)
                              /\ m = MaxChunks
                              /\ i \in Nat /\ l \in Nat /\ m \in Nat
                              /\ i < m /\ 0 < l /\ l <= m
                              /\ w = IF i + l < m THEN i + l ELSE i + l - m
        BY <2>1, <2>6 DEF RingInv, LagOK
      <4>2. PICK j : j = ridx'[r] /\ j = IF i + 1 < m THEN i + 1 ELSE 0
        BY <2>4, <4>1
      <4>3. w = IF j + (l - 1) < m THEN j + (l - 1) ELSE j + (l - 1) - m
        BY <4>1, <4>2
      <4> QED
        BY <2>2, <2>6, <3>2, <4>1, <4>2, <4>3 DEF writer
    <3> QED
      BY <3>1, <3>2
  <2>8. ReaderOK'
    <3> SUFFICES ASSUME NEW q \in Local \ {r}
                 PROVE  /\ rpc[q] = "check2" => ~flag'[ridx[q]][q]
                        /\ rpc[q] \in {"copy", "mark"} => Lag(q) > 0
                        /\ rpc[q] = "mark" => hold[q] = taken[q] + 1
      BY <2>2, <2>3, <2>4, <2>6 DEF ReaderOK
    <3>1. flag'[ridx[q]][q] = flag[ridx[q]][q]
      BY <2>5 DEF TypeOK
    <3> QED
      BY <3>1 DEF RingInv, ReaderOK
  <2>9. WriterOK'
    <3>1. \A q \in Local : Lag(q) \in 0..MaxChunks /\ Lag(q)' <= Lag(q)
      BY <2>6 DEF RingInv, LagOK
    <3>2. wpc = "reset" => ridx[r] # widx
      <4> SUFFICES ASSUME wpc = "reset" PROVE ridx[r] # widx
        OBVIOUS
      <4>1. Lag(r) < MaxChunks
        BY <2>1 DEF RingInv, WriterOK
      <4>2. Off(r, widx) = Lag(r) /\ Off(r, ridx[r]) = 0
        BY <2>1, <4>1, WriterOffset, ReaderOffset DEF RingInv
      <4> QED
        BY <2>6, <4>2
    <3>3. \A q \in Local : Lag(q) < MaxChunks => Lag(q)' < MaxChunks
      BY <3>1, <2>6
    <3> QED
      BY <2>2, <2>5, <3>2, <3>3 DEF RingInv, WriterOK, writer, TypeOK
  <2>10. FlagsOK'
    <3> SUFFICES ASSUME NEW q \in Local, NEW c \in Chunks
                 PROVE  FlagOK(q, c)'
      BY DEF FlagsOK
    <3>1. FlagOK(q, c) /\ Off(q, c) \in Nat
      BY ReaderOffset DEF RingInv, FlagsOK
    <3>2. CASE q # r
      <4>1. Off(q, c)' = Off(q, c) /\ taken'[q] = taken[q] /\ Lag(q)' = Lag(q)
        BY <1>4, <3>2, <2>3, <2>6, NextOffset DEF MarkRead
      <4> QED
        BY <2>2, <2>5, <3>1, <3>2, <4>1 DEF FlagOK
    <3>3. CASE q = r /\ c = ridx[r]
      <4>1. Off(q, c)' = MaxChunks - 1
        BY <1>4, <3>3, NextOffset DEF MarkRead
      <4>2. flag'[c][q]
        BY <2>1, <2>5, <3>3
      <4>3. ~(Off(q, c)' < Lag(q)')
        BY <2>6, <3>3, <4>1
      <4> QED
        BY <4>2, <4>3 DEF FlagOK
    <3>4. CASE q = r /\ c # ridx[r]
      <4>1. Off(q, c)' = Off(q, c) - 1
        BY <1>4, <3>4, NextOffset DEF MarkRead
      <4>2. flag'[c][q] = flag[c][q] /\ taken[r] \in Nat
        BY <2>1, <2>5, <3>4 DEF TypeOK
      <4> QED
        BY <2>2, <2>4, <2>6, <3>1, <3>4, <4>1, <4>2 DEF FlagOK
    <3> QED
      BY <3>2, <3>3, <3>4
  <2> QED
    BY <2>7, <2>8, <2>9, <2>10 DEF RingInv
<1> QED
  BY <1>1, <1>2, <1>3, <1>4 DEF ReaderStep, InDequeue

-----------------------------------------------------------------------------
ShmInv == TypeOK /\ Published /\ RingInv

\* The ring's invariant holds in every state.
LEMMA ShmInvariant == Spec => []ShmInv
<1>1. Init => ShmInv
  BY TypeInit, RingInit DEF ShmInv
<1>2. ShmInv /\ [Next]_vars => ShmInv'
  <2> SUFFICES ASSUME ShmInv, [Next]_vars PROVE ShmInv'
    OBVIOUS
  <2>1. CASE WriterStep
    BY <2>1, TypeWriter, RingWriter DEF ShmInv, RingInv
  <2>2. ASSUME NEW r \in Readers, ReaderStep(r) PROVE ShmInv'
    BY <2>2, TypeReader, RingReader DEF ShmInv
  <2>3. CASE UNCHANGED vars
    BY <2>3 DEF vars, ring, writer, reader, ShmInv, TypeOK, Published, RingInv,
                LagOK, FlagsOK, FlagOK, WriterOK, ReaderOK, Lag, Off
  <2> QED
    BY <2>1, <2>2, <2>3 DEF Next
<1> QED
  BY <1>1, <1>2, PTL DEF Spec

\* The queue's flags, indices and sockets have their types at every moment.
THEOREM TypeCorrect == Spec => []TypeOK
  BY ShmInvariant, PTL DEF ShmInv

\* acquire_write and acquire_read keep the writer and every local reader on
\* consistent parts of the ring, for any number of readers and chunks.
THEOREM RingConsistent == Spec => []RingInv
  BY ShmInvariant, PTL DEF ShmInv

\* A reader inside acquire_read has the next message before it until it leaves.
THEOREM ReadsWhole == Spec => []NoTornRead
<1>1. ShmInv => NoTornRead
  <2> SUFFICES ASSUME ShmInv, NEW r \in Local
               PROVE  /\ rpc[r] = "copy" => /\ written[ridx[r]]
                                            /\ data[ridx[r]] = taken[r] + 1
                      /\ rpc[r] = "mark" => hold[r] = taken[r] + 1
    BY DEF NoTornRead
  <2>1. Off(r, ridx[r]) = 0 /\ ridx[r] \in Chunks /\ taken[r] \in Nat
    BY ReaderOffset DEF ShmInv, TypeOK
  <2>2. rpc[r] = "copy" => Off(r, ridx[r]) < Lag(r)
    BY <2>1 DEF ShmInv, RingInv, ReaderOK
  <2> QED
    BY <2>1, <2>2 DEF ShmInv, RingInv, FlagsOK, FlagOK, ReaderOK
<1> QED
  BY <1>1, ShmInvariant, PTL

-----------------------------------------------------------------------------
(***************************************************************************)
(* The payloads of overflowing messages.  The socket of a local reader     *)
(* holds, in order, the payloads after the last message it was given and   *)
(* up to u: all that were published, or all but the one about to be sent,  *)
(* which a writer that dies never sends.                                   *)
(***************************************************************************)
Payloads(s, l, u) ==
    /\ l <= u
    /\ \A i, j \in 1..Len(s) : i < j => s[i] < s[j]
    /\ \A i \in 1..Len(s) : s[i] \in Big /\ l < s[i] /\ s[i] <= u
    /\ \A m \in Big : l < m /\ m <= u => \E i \in 1..Len(s) : s[i] = m

\* The payloads are out up to message u.
SentTo(u) ==
    /\ u \in {sent - 1, sent}
    /\ u = sent - 1 => sent \in Big /\ wpc \in {"send", "dead"}
    /\ wpc = "send" => u = sent - 1

\* A local reader has been given what it took off the ring, but for the message
\* whose payload it waits for.
LocalOK(r) ==
    /\ rpc[r] = "recv" => last[r] = taken[r] - 1 /\ hold[r] = taken[r] /\ hold[r] \in Big
    /\ rpc[r] # "recv" => last[r] = taken[r]
    /\ \E u : SentTo(u) /\ Payloads(sock[r], last[r], u)

\* A payload that is sent goes behind the others.
LEMMA AddPayload ==
    ASSUME NEW s \in Seq(1..MaxMsgs), NEW l \in Nat, NEW n \in Big,
           Payloads(s, l, n - 1), NEW w, w = Append(s, n)
    PROVE  Payloads(w, l, n)
<1>1. PICK k \in Nat : k = Len(s)
  OBVIOUS
<1>2. n \in Nat /\ n \in 1..MaxMsgs /\ MaxMsgs \in Nat
  BY ShmAssumption
<1>3. Len(w) = k + 1 /\ w[k + 1] = n /\ \A i \in 1..k : w[i] = s[i]
  BY <1>1, <1>2, AppendProperties
<1>4. \A i \in 1..k : s[i] \in Nat
  BY <1>1, <1>2
<1>5. /\ l <= n - 1
      /\ \A i, j \in 1..k : i < j => s[i] < s[j]
      /\ \A i \in 1..k : s[i] \in Big /\ l < s[i] /\ s[i] <= n - 1
      /\ \A m \in Big : l < m /\ m <= n - 1 => \E i \in 1..k : s[i] = m
  BY <1>1 DEF Payloads
<1>6. \A i \in 1..(k + 1) : i \in 1..k \/ i = k + 1
  OBVIOUS
<1>7. ASSUME NEW i \in 1..(k + 1) PROVE w[i] \in Big /\ l < w[i] /\ w[i] <= n
  BY <1>2, <1>3, <1>4, <1>5, <1>6
<1>8. ASSUME NEW i \in 1..(k + 1), NEW j \in 1..(k + 1), i < j PROVE w[i] < w[j]
  <2>1. i \in 1..k
    BY <1>8
  <2>2. CASE j \in 1..k
    BY <1>3, <1>5, <1>8, <2>1, <2>2
  <2>3. CASE j = k + 1
    <3>1. s[i] <= n - 1 /\ s[i] \in Nat
      BY <1>4, <1>5, <2>1
    <3> QED
      BY <1>2, <1>3, <2>1, <2>3, <3>1
  <2> QED
    BY <1>6, <2>2, <2>3
<1>9. ASSUME NEW m \in Big, l < m, m <= n PROVE \E i \in 1..(k + 1) : w[i] = m
  <2>1. m \in Nat
    BY ShmAssumption
  <2>2. CASE m = n
    BY <1>3, <2>2
  <2>3. CASE m # n
    <3>1. m <= n - 1
      BY <1>2, <1>9, <2>1, <2>3
    <3>2. PICK i \in 1..k : s[i] = m
      BY <1>5, <1>9, <3>1
    <3> QED
      BY <1>3, <3>2
  <2> QED
    BY <2>2, <2>3
<1>10. l <= n
  BY <1>2, <1>5
<1> QED
  BY <1>3, <1>7, <1>8, <1>9, <1>10 DEF Payloads

\* A message that fits its chunk has no payload.
LEMMA SkipPayload ==
    ASSUME NEW s, NEW l \in Nat, NEW u \in Nat, Payloads(s, l, u), l + 1 \notin Big
    PROVE  l + 1 <= u => Payloads(s, l + 1, u)
<1>1. Big \subseteq Nat
  BY ShmAssumption
<1>2. \A m \in Big : l < m <=> l + 1 < m
  BY <1>1
<1> QED
  BY <1>2 DEF Payloads

\* The payload in front is the next one.
LEMMA FirstPayload ==
    ASSUME NEW s \in Seq(1..MaxMsgs), NEW l \in Nat, NEW u \in Nat,
           Payloads(s, l, u), l + 1 \in Big, s # <<>>
    PROVE  Head(s) = l + 1 /\ l + 1 <= u /\ Payloads(Tail(s), l + 1, u)
<1>1. PICK k \in Nat : k = Len(s) /\ 0 < k
  BY LenProperties, EmptySeq
<1>2. PICK t : t = Tail(s)
  OBVIOUS
<1>3. /\ Head(s) = s[1] /\ Len(t) = k - 1
      /\ \A i \in 1..(k - 1) : t[i] = s[i + 1]
  BY <1>1, <1>2, HeadTailProperties
<1>4. MaxMsgs \in Nat /\ Big \subseteq Nat
  BY ShmAssumption
<1>5. \A i \in 1..k : s[i] \in Nat
  BY <1>1, <1>4
<1>6. /\ l <= u
      /\ \A i, j \in 1..k : i < j => s[i] < s[j]
      /\ \A i \in 1..k : s[i] \in Big /\ l < s[i] /\ s[i] <= u
      /\ \A m \in Big : l < m /\ m <= u => \E i \in 1..k : s[i] = m
  BY <1>1 DEF Payloads
<1>7. 1 \in 1..k
  BY <1>1
<1>8. l + 1 <= u
  BY <1>5, <1>6, <1>7
<1>9. s[1] = l + 1
  <2>1. PICK i \in 1..k : s[i] = l + 1
    BY <1>6, <1>8
  <2>2. i = 1 \/ 1 < i
    OBVIOUS
  <2>3. s[1] <= s[i] /\ l < s[1]
    BY <1>5, <1>6, <1>7, <2>2
  <2> QED
    BY <1>5, <1>7, <2>1, <2>3
<1>10. ASSUME NEW i \in 1..(k - 1) PROVE i + 1 \in 1..k /\ t[i] = s[i + 1]
  BY <1>3
<1>11. ASSUME NEW i \in 1..(k - 1), NEW j \in 1..(k - 1), i < j PROVE t[i] < t[j]
  <2>1. PICK a \in 1..k : a = i + 1 /\ t[i] = s[a]
    BY <1>10
  <2>2. PICK b \in 1..k : b = j + 1 /\ t[j] = s[b]
    BY <1>10
  <2>3. a < b
    BY <1>11, <2>1, <2>2
  <2> QED
    BY <1>6, <2>1, <2>2, <2>3
<1>12. ASSUME NEW i \in 1..(k - 1) PROVE t[i] \in Big /\ l + 1 < t[i] /\ t[i] <= u
  <2>1. PICK a \in 1..k : a = i + 1 /\ t[i] = s[a]
    BY <1>10
  <2>2. 1 < a
    BY <2>1
  <2> QED
    BY <1>6, <1>7, <1>9, <2>1, <2>2
<1>13. ASSUME NEW m \in Big, l + 1 < m, m <= u PROVE \E i \in 1..(k - 1) : t[i] = m
  <2>1. l < m /\ m # l + 1
    BY <1>4, <1>13
  <2>2. PICK a \in 1..k : s[a] = m
    BY <1>6, <1>13, <2>1
  <2>3. a # 1
    BY <1>9, <2>1, <2>2
  <2>4. PICK i \in 1..(k - 1) : i + 1 = a
    <3>1. PICK i : i = a - 1
      OBVIOUS
    <3>2. i \in 1..(k - 1) /\ i + 1 = a
      BY <1>1, <2>3, <3>1
    <3> QED
      BY <3>2
  <2> QED
    BY <1>3, <2>2, <2>4
<1>14. Payloads(t, l + 1, u)
  BY <1>3, <1>8, <1>11, <1>12, <1>13 DEF Payloads
<1> QED
  BY <1>2, <1>3, <1>8, <1>9, <1>14

(***************************************************************************)
(* The refinement.  A remote reader's socket holds the messages from its   *)
(* last one to the writer's, in order.                                     *)
(***************************************************************************)
InOrder(r) ==
    /\ \A i \in 1..Len(sock[r]) : sock[r][i] = last[r] + i
    /\ last[r] + Len(sock[r]) <= sent
    /\ wpc \in {"idle", "check", "write", "reset"} => last[r] + Len(sock[r]) = sent
    /\ wpc \in {"send", "notify", "remote"} => last[r] + Len(sock[r]) = sent - 1

DeliveryInv ==
    /\ \A r \in Local : LocalOK(r)
    /\ \A r \in Remote : InOrder(r)

\* At first nothing has been sent.
LEMMA DeliveryInit == Init => DeliveryInv
<1> SUFFICES ASSUME Init PROVE DeliveryInv
  OBVIOUS
<1>1. Remote \subseteq Readers /\ Local \subseteq Readers
  BY LocalReaders DEF Remote
<1>2. Len(<<>>) = 0
  OBVIOUS
<1>3. \A r \in Remote : InOrder(r)
  BY <1>1, <1>2 DEF Init, InOrder
<1>4. \A m \in Big : ~(0 < m /\ m <= 0)
  BY ShmAssumption
<1>5. Payloads(<<>>, 0, 0)
  BY <1>2, <1>4 DEF Payloads
<1>6. SentTo(0)
  BY DEF SentTo, Init
<1>7. \A r \in Local : LocalOK(r)
  BY <1>1, <1>5, <1>6 DEF LocalOK, Init
<1> QED
  BY <1>3, <1>7 DEF DeliveryInv

\* The steps of the writer keep what the local readers have and are due.
LEMMA LocalWriter ==
    ASSUME ShmInv, DeliveryInv, WriterStep, NEW r \in Local
    PROVE  LocalOK(r)'
<1> USE ShmAssumption
<1>1. UNCHANGED reader
  BY DEF WriterStep, InEnqueue, Enqueue, AcquireWrite, WriteBody, ResetFlag,
         Publish, SendPayload, Notify, SendRemote, WriteTimeout, WriteAbort,
         WriterDie
<1>2. /\ r \in Readers /\ r \notin Remote /\ sock[r] \in Seq(1..MaxMsgs)
      /\ last[r] \in Nat /\ sent \in Nat /\ wpc \in WriterAt
  BY LocalReaders DEF Remote, ShmInv, TypeOK
<1>3. PICK u : SentTo(u) /\ Payloads(sock[r], last[r], u)
  BY DEF DeliveryInv, LocalOK
<1>4. SUFFICES \E v : SentTo(v)' /\ Payloads(sock'[r], last'[r], v)
  BY <1>1 DEF DeliveryInv, LocalOK, reader
<1>5. last' = last
  BY <1>1 DEF reader
<1>6. CASE Publish
  <2>1. /\ wpc = "reset" /\ sent' = sent + 1 /\ sock' = sock
        /\ wpc' = IF sent + 1 \in Big THEN "send" ELSE "notify"
    BY <1>6 DEF Publish
  <2>2. u = sent
    BY <1>3, <2>1 DEF SentTo
  <2>3. CASE sent + 1 \in Big
    <3>1. SentTo(u)'
      BY <1>2, <2>1, <2>2, <2>3 DEF SentTo
    <3> QED
      BY <1>3, <1>5, <2>1, <3>1
  <2>4. CASE sent + 1 \notin Big
    <3>1. PICK v \in Nat : v = sent + 1 /\ v \notin Big
      BY <1>2, <2>4
    <3>2. SentTo(v)'
      BY <1>2, <2>1, <2>4, <3>1 DEF SentTo
    <3>3. ASSUME NEW m \in Big PROVE m <= v <=> m <= u
      <4>1. m \in Nat /\ m # v
        BY <3>1
      <4> QED
        BY <1>2, <2>2, <3>1, <4>1
    <3>4. last[r] <= u => last[r] <= v
      BY <1>2, <2>2, <3>1
    <3>5. Payloads(sock[r], last[r], v)
      BY <1>3, <3>3, <3>4 DEF Payloads
    <3> QED
      BY <1>5, <2>1, <3>2, <3>5
  <2> QED
    BY <2>3, <2>4
<1>7. CASE SendPayload
  <2>1. /\ wpc = "send" /\ wpc' = "notify" /\ sent' = sent
        /\ sock'[r] = Append(sock[r], sent)
    BY <1>2, <1>7 DEF SendPayload
  <2>2. u = sent - 1 /\ sent \in Big
    BY <1>2, <1>3, <2>1 DEF SentTo
  <2>3. PICK v \in Big : v = sent
    BY <2>2
  <2>4. Payloads(sock'[r], last[r], v)
    BY <1>2, <1>3, <2>1, <2>2, <2>3, AddPayload
  <2>5. SentTo(v)'
    BY <1>2, <2>1, <2>3 DEF SentTo
  <2> QED
    BY <1>5, <2>4, <2>5
<1>8. CASE ~Publish /\ ~SendPayload
  <2>1. sent' = sent /\ sock'[r] = sock[r] /\ wpc' # "send" /\ (wpc = "send" => wpc' = "dead")
        /\ (wpc = "dead" => wpc' = "dead")
    BY <1>2, <1>8 DEF WriterStep, InEnqueue, Enqueue, AcquireWrite, WriteBody, ResetFlag,
         Notify, SendRemote, WriteTimeout, WriteAbort, WriterDie
  <2>2. SentTo(u)'
    BY <1>3, <2>1 DEF SentTo
  <2> QED
    BY <1>3, <1>5, <2>1, <2>2
<1> QED
  BY <1>6, <1>7, <1>8

\* The steps of the writer keep the messages on the sockets in order.
LEMMA DeliveryWriter ==
    ASSUME ShmInv, DeliveryInv, WriterStep
    PROVE  DeliveryInv'
<1> USE ShmAssumption
<1>1. UNCHANGED reader
  BY DEF WriterStep, InEnqueue, Enqueue, AcquireWrite, WriteBody, ResetFlag,
         Publish, SendPayload, Notify, SendRemote, WriteTimeout, WriteAbort,
         WriterDie
<1> SUFFICES ASSUME NEW r \in Remote PROVE InOrder(r)'
  BY LocalWriter DEF DeliveryInv
<1>2. /\ r \in Readers /\ r \notin Local /\ NRemote > 0
      /\ sock[r] \in Seq(1..MaxMsgs) /\ last[r] \in Nat /\ sent \in Nat
      /\ Len(sock[r]) \in Nat /\ wpc \in WriterAt
  BY LenProperties DEF Remote, Readers, Local, ShmInv, TypeOK
<1>3. InOrder(r) /\ last' = last
  BY <1>1 DEF DeliveryInv, reader
<1>4. CASE SendRemote
  <2>1. /\ sent \in 1..MaxMsgs /\ wpc = "remote" /\ wpc' = "idle" /\ sent' = sent
        /\ sock'[r] = Append(sock[r], sent)
    BY <1>2, <1>4 DEF SendRemote, ShmInv, TypeOK, Published
  <2>2. /\ Len(sock'[r]) = Len(sock[r]) + 1
        /\ \A i \in 1..Len(sock[r]) : sock'[r][i] = sock[r][i]
        /\ sock'[r][Len(sock[r]) + 1] = sent
    BY <1>2, <2>1, AppendProperties
  <2>3. last[r] + (Len(sock[r]) + 1) = sent
    <3>1. last[r] + Len(sock[r]) = sent - 1
      BY <1>3, <2>1 DEF InOrder
    <3>2. PICK n \in Nat : n = Len(sock[r])
      BY <1>2
    <3>3. PICK l \in Nat : l = last[r]
      BY <1>2
    <3> QED
      BY <1>2, <3>1, <3>2, <3>3, SMTT(30)
  <2>4. \A i \in 1..(Len(sock[r]) + 1) : i \in 1..Len(sock[r]) \/ i = Len(sock[r]) + 1
    <3>1. PICK n \in Nat : n = Len(sock[r])
      BY <1>2
    <3>2. \A i \in 1..(n + 1) : i \in 1..n \/ i = n + 1
      OBVIOUS
    <3> QED
      BY <3>1, <3>2
  <2>5. \A i \in 1..Len(sock'[r]) : sock'[r][i] = last[r] + i
    <3> SUFFICES ASSUME NEW i \in 1..(Len(sock[r]) + 1)
                 PROVE  sock'[r][i] = last[r] + i
      BY <2>2
    <3>1. CASE i \in 1..Len(sock[r])
      BY <1>3, <2>2, <3>1 DEF InOrder
    <3>2. CASE i = Len(sock[r]) + 1
      <4>1. sock'[r][i] = sent
        BY <2>2, <3>2
      <4>2. last[r] + i = sent
        BY <2>3, <3>2
      <4> QED
        BY <4>1, <4>2
    <3> QED
      BY <2>4, <3>1, <3>2
  <2>6. last[r] + Len(sock'[r]) = sent
    BY <2>2, <2>3
  <2>7. last'[r] = last[r] /\ wpc' \notin {"send", "notify", "remote"} /\ sent <= sent
    BY <1>2, <1>3, <2>1
  <2> QED
    BY <2>1, <2>5, <2>6, <2>7 DEF InOrder
<1>5. CASE Publish
  <2>1. wpc = "reset" /\ wpc' \in {"send", "notify"} /\ sent' = sent + 1 /\ sock' = sock
    BY <1>5 DEF Publish
  <2> QED
    BY <1>2, <1>3, <2>1 DEF InOrder
<1>6. CASE Notify
  <2>1. wpc = "notify" /\ wpc' = "remote" /\ sent' = sent /\ sock' = sock
    BY <1>2, <1>6 DEF Notify
  <2> QED
    BY <1>3, <2>1 DEF InOrder
<1>7. CASE WriterDie
  <2>1. wpc' = "dead" /\ sent' = sent /\ sock' = sock
    BY <1>7 DEF WriterDie
  <2> QED
    BY <1>3, <2>1 DEF InOrder
<1>8. CASE Enqueue \/ AcquireWrite \/ WriteBody \/ ResetFlag \/ WriteTimeout
             \/ WriteAbort
  <2>1. /\ wpc \in {"idle", "check", "write", "reset"}
        /\ wpc' \in {"idle", "check", "write", "reset"}
        /\ sent' = sent /\ sock' = sock
    BY <1>8 DEF Enqueue, AcquireWrite, WriteBody, ResetFlag, WriteTimeout,
                WriteAbort
  <2> QED
    BY <1>3, <2>1 DEF InOrder
<1>9. CASE SendPayload
  <2>1. wpc = "send" /\ wpc' = "notify" /\ sent' = sent /\ sock'[r] = sock[r]
    BY <1>2, <1>9 DEF SendPayload
  <2> QED
    BY <1>3, <2>1 DEF InOrder
<1> QED
  BY <1>4, <1>5, <1>6, <1>7, <1>8, <1>9 DEF WriterStep, InEnqueue

\* A remote reader that returns a message returns the next one, and keeps the rest.
LEMMA RemoteRecv ==
    ASSUME ShmInv, DeliveryInv, NEW r \in Remote, Recv(r)
    PROVE  /\ last[r] < sent /\ last' = [last EXCEPT ![r] = last[r] + 1]
           /\ InOrder(r)'
<1>1. r \in Readers /\ sock[r] \in Seq(1..MaxMsgs) /\ sock[r] # <<>>
      /\ last[r] \in Nat /\ sent \in Nat
  BY ShmAssumption DEF DeliveryInv, Recv, Remote, ShmInv, TypeOK
<1>2. /\ Len(sock[r]) \in Nat /\ 0 < Len(sock[r])
      /\ Head(sock[r]) = sock[r][1]
      /\ Len(Tail(sock[r])) = Len(sock[r]) - 1
      /\ \A i \in 1..Len(Tail(sock[r])) : Tail(sock[r])[i] = sock[r][i + 1]
  BY <1>1, HeadTailProperties, LenProperties, EmptySeq
<1>3. InOrder(r)
  BY <1>1 DEF DeliveryInv
<1>4. Head(sock[r]) = last[r] + 1 /\ last[r] < sent
  BY <1>1, <1>2, <1>3 DEF InOrder
<1>5. /\ last' = [last EXCEPT ![r] = last[r] + 1] /\ sock'[r] = Tail(sock[r])
      /\ last'[r] = last[r] + 1 /\ sent' = sent /\ wpc' = wpc
  BY <1>1, <1>4 DEF Recv, ShmInv, TypeOK, writer
<1>6. \A i \in 1..Len(sock'[r]) : sock'[r][i] = last'[r] + i
  <2> SUFFICES ASSUME NEW i \in 1..Len(Tail(sock[r]))
               PROVE  Tail(sock[r])[i] = last[r] + 1 + i
    BY <1>5
  <2>1. i \in Nat /\ i + 1 \in 1..Len(sock[r])
    BY <1>2
  <2>2. sock[r][i + 1] = last[r] + (i + 1)
    BY <1>3, <2>1 DEF InOrder
  <2> QED
    BY <1>1, <1>2, <2>1, <2>2
<1>7. last'[r] + Len(sock'[r]) = last[r] + Len(sock[r])
  BY <1>1, <1>2, <1>5
<1> QED
  BY <1>1, <1>3, <1>4, <1>5, <1>6, <1>7 DEF InOrder

\* What LocalOK(q) speaks of.
Untouched(q) ==
    /\ rpc'[q] = rpc[q] /\ last'[q] = last[q] /\ sock'[q] = sock[q]
    /\ q \in Local => taken'[q] = taken[q] /\ hold'[q] = hold[q]

\* A reader's step leaves the other readers alone.
LEMMA OthersKeep ==
    ASSUME DeliveryInv, UNCHANGED writer, NEW q \in Readers, Untouched(q)
    PROVE  /\ q \in Local => LocalOK(q)'
           /\ q \in Remote => InOrder(q)'
<1>1. sent' = sent /\ wpc' = wpc
  BY DEF writer
<1>2. CASE q \in Local
  <2>1. PICK u : SentTo(u) /\ Payloads(sock[q], last[q], u)
    BY <1>2 DEF DeliveryInv, LocalOK
  <2>2. SentTo(u)' /\ Payloads(sock'[q], last'[q], u)
    BY <1>1, <2>1 DEF SentTo, Untouched
  <2> QED
    BY <1>2, <2>2 DEF DeliveryInv, LocalOK, Untouched, Remote
<1>3. CASE q \in Remote
  BY <1>1, <1>3 DEF DeliveryInv, InOrder, Untouched, Remote
<1> QED
  BY <1>2, <1>3

\* A local reader that waits for a payload gets the one it waits for.
LEMMA LocalRecv ==
    ASSUME ShmInv, DeliveryInv, NEW r \in Local, rpc[r] = "recv", sock[r] # <<>>
    PROVE  /\ Head(sock[r]) = hold[r] /\ hold[r] = last[r] + 1 /\ last[r] < sent
           /\ Recv(r) => LocalOK(r)'
<1>1. /\ r \in Readers /\ sock[r] \in Seq(1..MaxMsgs) /\ last[r] \in Nat /\ sent \in Nat
      /\ taken[r] \in Nat
  BY LocalReaders DEF ShmInv, TypeOK
<1>2. last[r] = taken[r] - 1 /\ hold[r] = taken[r] /\ hold[r] \in Big
  BY DEF DeliveryInv, LocalOK
<1>3. PICK u : SentTo(u) /\ Payloads(sock[r], last[r], u)
  BY DEF DeliveryInv, LocalOK
<1>4. u \in Nat /\ u <= sent
  BY <1>1, <1>3, ShmAssumption DEF SentTo
<1>5. last[r] + 1 \in Big /\ hold[r] = last[r] + 1 /\ taken[r] = last[r] + 1
  BY <1>1, <1>2
<1>6. /\ Head(sock[r]) = last[r] + 1 /\ last[r] + 1 <= u
      /\ Payloads(Tail(sock[r]), last[r] + 1, u)
  BY <1>1, <1>3, <1>4, <1>5, FirstPayload
<1>7. last[r] < sent
  BY <1>1, <1>4, <1>6
<1>8. ASSUME Recv(r) PROVE LocalOK(r)'
  <2>1. /\ last'[r] = last[r] + 1 /\ sock'[r] = Tail(sock[r]) /\ rpc'[r] = "idle"
        /\ taken' = taken /\ sent' = sent /\ wpc' = wpc
    BY <1>1, <1>6, <1>8 DEF Recv, Goto, ShmInv, TypeOK, writer
  <2>2. SentTo(u)'
    BY <1>3, <2>1 DEF SentTo
  <2>3. Payloads(sock'[r], last'[r], u)
    BY <1>6, <2>1
  <2> QED
    BY <1>5, <2>1, <2>2, <2>3 DEF LocalOK
<1> QED
  BY <1>5, <1>6, <1>7, <1>8

\* A local reader that has marked its chunk read returns the message, or waits
\* for its payload.
LEMMA LocalMark ==
    ASSUME ShmInv, DeliveryInv, NEW r \in Local, MarkRead(r)
    PROVE  /\ LocalOK(r)'
           /\ \/ last' = last
              \/ last[r] < sent /\ last' = [last EXCEPT ![r] = last[r] + 1]
<1>1. /\ r \in Readers /\ sock[r] \in Seq(1..MaxMsgs) /\ last[r] \in Nat /\ sent \in Nat
      /\ taken[r] \in Nat
  BY LocalReaders DEF ShmInv, TypeOK
<1>2. /\ hold[r] = taken[r] + 1 /\ last[r] = taken[r] /\ Lag(r) > 0
  BY DEF MarkRead, ShmInv, RingInv, ReaderOK, DeliveryInv, LocalOK
<1>3. PICK u : SentTo(u) /\ Payloads(sock[r], last[r], u)
  BY DEF DeliveryInv, LocalOK
<1>4. last[r] < sent /\ last[r] + 1 <= sent
  BY <1>1, <1>2 DEF Lag
<1>5. /\ sock' = sock /\ hold' = hold /\ sent' = sent /\ wpc' = wpc
      /\ taken'[r] = taken[r] + 1
  BY <1>1 DEF MarkRead, writer, ShmInv, TypeOK
<1>6. SentTo(u)'
  BY <1>3, <1>5 DEF SentTo
<1>7. CASE hold[r] \in Big
  <2>1. last' = last /\ rpc'[r] = "recv"
    BY <1>1, <1>7 DEF MarkRead, Goto, ShmInv, TypeOK
  <2>2. last'[r] = taken'[r] - 1 /\ hold'[r] = taken'[r]
    BY <1>1, <1>2, <1>5, <2>1
  <2> QED
    BY <1>3, <1>5, <1>6, <1>7, <2>1, <2>2 DEF LocalOK
<1>8. CASE hold[r] \notin Big
  <2>1. last' = [last EXCEPT ![r] = last[r] + 1] /\ rpc'[r] = "idle"
    BY <1>1, <1>2, <1>8 DEF MarkRead, Goto, ShmInv, TypeOK
  <2>2. last'[r] = last[r] + 1
    BY <1>1, <2>1 DEF ShmInv, TypeOK
  <2>3. last[r] + 1 \notin Big
    BY <1>2, <1>8
  <2>4. u \in Nat /\ last[r] + 1 <= u
    <3>1. CASE u = sent
      BY <1>1, <1>4, <3>1
    <3>2. CASE u = sent - 1
      <4>1. sent \in Big
        BY <1>3, <3>2 DEF SentTo
      <4>2. sent # last[r] + 1
        BY <2>3, <4>1
      <4> QED
        BY <1>1, <1>4, <3>2, <4>2
    <3> QED
      BY <1>3, <3>1, <3>2 DEF SentTo
  <2>5. Payloads(sock[r], last[r] + 1, u)
    BY <1>1, <1>3, <2>3, <2>4, SkipPayload
  <2> QED
    BY <1>2, <1>4, <1>5, <1>6, <2>1, <2>2, <2>5 DEF LocalOK
<1> QED
  BY <1>7, <1>8

\* A dequeue returns the next message or nothing.
LEMMA DeliveryReader ==
    ASSUME Big = {} \/ ~Timeouts, ShmInv, DeliveryInv, NEW r \in Readers, ReaderStep(r)
    PROVE  /\ DeliveryInv'
           /\ \/ UNCHANGED <<sent, last>>
              \/ /\ last[r] < sent /\ sent' = sent
                 /\ last' = [last EXCEPT ![r] = last[r] + 1]
<1>1. UNCHANGED writer /\ sent' = sent
  BY DEF ReaderStep, InDequeue, Dequeue, Recv, ReadCheck, Spin, Park, Pinged, Recheck,
         AfterWait, CopyOut, MarkRead, ReadTimeout, RecvTimeout, Shutdown, writer
<1>2. /\ Remote \subseteq Readers /\ Remote \cap Local = {} /\ Local \subseteq Readers
      /\ r \in Local \/ r \in Remote
  BY LocalReaders DEF Remote
<1>3. ASSUME NEW q \in Readers, q # r PROVE Untouched(q)
  <2>1. /\ rpc \in [Readers -> ReaderAt] /\ last \in [Readers -> Nat]
        /\ sock \in [Readers -> Seq(1..MaxMsgs)] /\ taken \in [Local -> Nat]
        /\ hold \in [Local -> Nat]
    BY DEF ShmInv, TypeOK
  <2>2. CASE Recv(r)
    BY <1>3, <2>1, <2>2 DEF Recv, Goto, Untouched
  <2>3. CASE r \in Local /\ MarkRead(r)
    BY <1>2, <1>3, <2>1, <2>3 DEF MarkRead, Goto, Untouched
  <2>4. CASE r \in Local /\ CopyOut(r)
    BY <1>2, <1>3, <2>1, <2>4 DEF CopyOut, Goto, Untouched
  <2>5. CASE \/ Dequeue(r) \/ ReadCheck(r) \/ Spin(r) \/ Park(r) \/ Pinged(r) \/ Recheck(r)
             \/ AfterWait(r) \/ ReadTimeout(r) \/ RecvTimeout(r) \/ Shutdown(r)
    <3>1. /\ UNCHANGED <<taken, hold, last, sock>>
          /\ rpc' = rpc \/ \E pc : Goto(r, pc)
      BY <2>5 DEF Dequeue, ReadCheck, Spin, Park, Pinged, Recheck, AfterWait, ReadTimeout,
                  RecvTimeout, Shutdown, reader
    <3> QED
      BY <1>3, <2>1, <3>1 DEF Goto, Untouched
  <2> QED
    BY <2>2, <2>3, <2>4, <2>5 DEF ReaderStep, InDequeue
<1>4. /\ \A q \in Local : q # r => LocalOK(q)'
      /\ \A q \in Remote : q # r => InOrder(q)'
  BY <1>1, <1>2, <1>3, OthersKeep
<1>5. SUFFICES /\ r \in Local => LocalOK(r)'
               /\ r \in Remote => InOrder(r)'
               /\ \/ last' = last
                  \/ last[r] < sent /\ last' = [last EXCEPT ![r] = last[r] + 1]
  BY <1>1, <1>4 DEF DeliveryInv
<1>6. CASE r \in Remote /\ Recv(r)
  BY <1>2, <1>6, RemoteRecv
<1>7. CASE r \in Local /\ Recv(r)
  <2>1. rpc[r] = "recv" /\ sock[r] # <<>> /\ last' = [last EXCEPT ![r] = Head(sock[r])]
    BY <1>7 DEF Recv
  <2>2. Head(sock[r]) = last[r] + 1 /\ last[r] < sent /\ LocalOK(r)'
    BY <1>7, <2>1, LocalRecv
  <2> QED
    BY <1>2, <1>7, <2>1, <2>2
<1>8. CASE r \in Local /\ MarkRead(r)
  BY <1>2, <1>8, LocalMark
<1>9. CASE ~Recv(r) /\ ~(r \in Local /\ MarkRead(r))
  <2>1. UNCHANGED <<taken, last, sock>>
    BY <1>9 DEF ReaderStep, InDequeue, Dequeue, ReadCheck, Spin, Park, Pinged, Recheck,
         AfterWait, CopyOut, ReadTimeout, RecvTimeout, Shutdown, reader
  <2>2. CASE r \in Remote
    BY <1>1, <1>2, <2>1, <2>2 DEF DeliveryInv, InOrder, writer
  <2>3. CASE r \in Local
    <3>1. rpc \in [Readers -> ReaderAt]
      BY DEF ShmInv, TypeOK
    <3>2. ~RecvTimeout(r)
      BY <2>3 DEF DeliveryInv, LocalOK, RecvTimeout
    <3>3. CASE rpc[r] = "recv"
      <4>1. UNCHANGED <<rpc, hold>>
        BY <1>9, <2>3, <3>2, <3>3 DEF ReaderStep, InDequeue, Dequeue, ReadCheck, Spin, Park,
           Pinged, Recheck, AfterWait, CopyOut, ReadTimeout, Shutdown, reader
      <4>2. Untouched(r)
        BY <2>1, <4>1 DEF Untouched
      <4> QED
        BY <1>1, <1>2, <2>1, <2>3, <4>2, OthersKeep
    <3>4. CASE rpc[r] # "recv"
      <4>1. rpc'[r] # "recv"
        BY <1>9, <2>3, <3>1, <3>4 DEF ReaderStep, InDequeue, Dequeue, ReadCheck, Spin, Park,
           Pinged, Recheck, AfterWait, CopyOut, ReadTimeout, RecvTimeout, Shutdown, reader, Goto
      <4>2. PICK u : SentTo(u) /\ Payloads(sock[r], last[r], u)
        BY <2>3 DEF DeliveryInv, LocalOK
      <4>3. SentTo(u)' /\ Payloads(sock'[r], last'[r], u)
        BY <1>1, <2>1, <4>2 DEF SentTo, writer
      <4>4. last[r] = taken[r]
        BY <2>3, <3>4 DEF DeliveryInv, LocalOK
      <4>5. last'[r] = taken'[r]
        BY <2>1, <4>4
      <4>6. LocalOK(r)'
        BY <4>1, <4>3, <4>5 DEF LocalOK
      <4> QED
        BY <1>2, <2>1, <2>3, <4>6
    <3> QED
      BY <3>3, <3>4
  <2> QED
    BY <1>2, <2>2, <2>3
<1> QED
  BY <1>2, <1>6, <1>7, <1>8, <1>9

\* Only Publish sends, and only when every local reader has room for it: one
\* message more than the ring if it waits for a payload.
LEMMA SendStep ==
    ASSUME ShmInv, DeliveryInv, WriterStep
    PROVE  UNCHANGED <<sent, last>> \/ B!Send
<1>1. CASE Publish
  <2>1. /\ sent' = sent + 1 /\ last' = last /\ sent < MaxMsgs
        /\ \A r \in Local : Lag(r) < MaxChunks
    BY <1>1 DEF Publish, reader, ShmInv, RingInv, WriterOK
  <2>2. ASSUME NEW r \in Local PROVE sent < last[r] + Backlog
    <3>1. /\ taken[r] \in Nat /\ sent \in Nat /\ MaxChunks \in Nat
          /\ sent - taken[r] < MaxChunks
      BY <2>1, ShmAssumption DEF ShmInv, TypeOK, Lag
    <3>2. CASE rpc[r] = "recv"
      <4>1. last[r] = taken[r] - 1 /\ Backlog = MaxChunks + 1
        BY <3>2 DEF DeliveryInv, LocalOK, Backlog
      <4> QED
        BY <3>1, <4>1
    <3>3. CASE rpc[r] # "recv"
      <4>1. last[r] = taken[r]
        BY <3>3 DEF DeliveryInv, LocalOK
      <4>2. Backlog = MaxChunks \/ Backlog = MaxChunks + 1
        BY <3>1 DEF Backlog
      <4> QED
        BY <3>1, <4>1, <4>2
    <3> QED
      BY <3>2, <3>3
  <2> QED
    BY <2>1, <2>2 DEF B!Send
<1>2. CASE ~Publish
  BY <1>2 DEF WriterStep, InEnqueue, Enqueue, AcquireWrite, WriteBody, ResetFlag,
         SendPayload, Notify, SendRemote, WriteTimeout, WriteAbort, WriterDie, reader
<1> QED
  BY <1>1, <1>2

\* The invariant, and what each step is to the broadcast.
LEMMA DeliveryStep ==
    ASSUME Big = {} \/ ~Timeouts, ShmInv, DeliveryInv, [Next]_vars
    PROVE  DeliveryInv' /\ [B!BNext]_(B!bvars)
<1>1. CASE WriterStep
  BY <1>1, DeliveryWriter, SendStep DEF B!BNext, B!bvars
<1>2. ASSUME NEW r \in Readers, ReaderStep(r)
      PROVE  DeliveryInv' /\ [B!BNext]_(B!bvars)
  BY <1>2, DeliveryReader DEF B!BNext, B!bvars, B!Deliver
<1>3. CASE UNCHANGED vars
  <2>1. UNCHANGED writer /\ \A q \in Readers : Untouched(q)
    BY <1>3 DEF vars, reader, Untouched
  <2>2. UNCHANGED <<sent, last>>
    BY <1>3 DEF vars, writer, reader
  <2>3. DeliveryInv'
    BY <2>1, LocalReaders, OthersKeep DEF DeliveryInv, Remote
  <2> QED
    BY <2>2, <2>3 DEF B!bvars
<1> QED
  BY <1>1, <1>2, <1>3 DEF Next

\* The payload at the head of a reader's socket is the one it waits for, unless
\* a dequeue gave up on an earlier one: callers pass no timeout, or no message
\* overflows.
THEOREM PayloadMatchesHolds ==
    ASSUME Big = {} \/ ~Timeouts
    PROVE  Spec => []PayloadMatches
<1>1. ShmInv /\ DeliveryInv /\ [Next]_vars => DeliveryInv'
  BY DeliveryStep
<1>2. ShmInv /\ DeliveryInv => PayloadMatches
  BY LocalRecv DEF PayloadMatches
<1> QED
  BY <1>1, <1>2, DeliveryInit, ShmInvariant, PTL DEF Spec

\* The ring, the sockets and the lossy pings together deliver each message once,
\* in order, to every local and remote reader, whether it fits a chunk or not,
\* and never let the writer run more than the backlog ahead: when no message
\* overflows, or callers pass no timeout.
THEOREM ImplementsBroadcast ==
    ASSUME Big = {} \/ ~Timeouts
    PROVE  Spec => BroadcastSpec
<1>1. Init => DeliveryInv /\ B!BInit
  BY DeliveryInit DEF Init, B!BInit
<1>2. ShmInv /\ DeliveryInv /\ [Next]_vars => DeliveryInv' /\ [B!BNext]_(B!bvars)
  BY DeliveryStep
<1> QED
  BY <1>1, <1>2, ShmInvariant, PTL DEF Spec, BroadcastSpec, B!BSpec

-----------------------------------------------------------------------------
(***************************************************************************)
(* Whom everyone waits for.  Nothing tells a reader or the writer that the *)
(* other side has moved: each rereads its own chunk's flags.  What it sees *)
(* there is exactly whether it has to wait, and somebody else is then able *)
(* to move.                                                                *)
(***************************************************************************)
\* What the two loads of acquire_read's check() look for.
Readable(r) == written[ridx[r]] /\ ~flag[ridx[r]][r]

\* check() succeeds exactly when the reader has a message to read: no published
\* message is hidden from it and none it has read looks new.
ReadableExact == \A r \in Local : Readable(r) <=> taken[r] < sent

\* acquire_write waits only for a reader a whole round behind, whose next chunk
\* is this one and whose check() succeeds: writer and readers never wait for
\* each other.
WriterWaitsForReader ==
    ~Writable => \E r \in Local : /\ Lag(r) = MaxChunks /\ ridx[r] = widx
                                  /\ Readable(r)

\* A local reader that waits in recv for a payload waits for the writer's last
\* message, which the writer is about to send unless it died there; a remote
\* reader has everything but the message the writer is still busy with.
PayloadOnItsWay ==
    /\ \A r \in Local :
          rpc[r] = "recv" /\ sock[r] = <<>> =>
              hold[r] = sent /\ wpc \in {"send", "dead"}
    /\ \A r \in Remote :
          sock[r] = <<>> /\ last[r] # sent /\ wpc # "dead" =>
              last[r] = sent - 1 /\ wpc \in {"send", "notify", "remote"}

\* A reader's own chunk is readable when it lags, and only then.
LEMMA OwnChunkReadable ==
    ASSUME ShmInv, NEW r \in Local
    PROVE  Readable(r) <=> taken[r] < sent
<1>1. /\ Off(r, ridx[r]) = 0 /\ ridx[r] \in Chunks
      /\ taken[r] \in Nat /\ sent \in Nat /\ Lag(r) = sent - taken[r]
  BY ReaderOffset DEF ShmInv, TypeOK, Lag
<1>2. FlagOK(r, ridx[r])
  BY <1>1 DEF ShmInv, RingInv, FlagsOK
<1>3. CASE taken[r] < sent
  <2>1. Off(r, ridx[r]) < Lag(r)
    BY <1>1, <1>3
  <2> QED
    BY <1>2, <1>3, <2>1 DEF FlagOK, Readable
<1>4. CASE ~(taken[r] < sent)
  <2>1. Off(r, ridx[r]) >= Lag(r)
    BY <1>1, <1>4
  <2> QED
    BY <1>2, <1>4, <2>1 DEF FlagOK, Readable
<1> QED
  BY <1>3, <1>4

\* The writer's chunk is free unless a reader is a whole round behind.
LEMMA RoundBehind ==
    ASSUME ShmInv, ~Writable
    PROVE  \E r \in Local : Lag(r) = MaxChunks /\ ridx[r] = widx /\ Readable(r)
<1>1. PICK r \in Local : written[widx] /\ ~flag[widx][r]
  BY DEF Writable
<1>2. /\ Lag(r) \in 0..MaxChunks /\ MaxChunks \in Nat \ {0} /\ widx \in Chunks
      /\ taken[r] \in Nat /\ sent \in Nat /\ ridx[r] \in Chunks
  BY ShmAssumption DEF ShmInv, TypeOK, RingInv, LagOK
<1>3. Lag(r) = MaxChunks
  <2> SUFFICES ASSUME Lag(r) < MaxChunks PROVE FALSE
    BY <1>2
  <2>1. Off(r, widx) = Lag(r)
    BY WriterOffset DEF ShmInv, RingInv
  <2>2. FlagOK(r, widx)
    BY <1>2 DEF ShmInv, RingInv, FlagsOK
  <2> QED
    BY <1>1, <1>2, <2>1, <2>2 DEF FlagOK
<1>4. ridx[r] = widx
  BY <1>2, <1>3 DEF ShmInv, RingInv, LagOK, Chunks
<1>5. taken[r] < sent
  BY <1>2, <1>3 DEF Lag
<1> QED
  BY <1>3, <1>4, <1>5, OwnChunkReadable

\* An empty socket under a waiting reader: its payload is the next to be sent.
LEMMA NextToBeSent ==
    ASSUME ShmInv, DeliveryInv, NEW r \in Local, rpc[r] = "recv", sock[r] = <<>>
    PROVE  hold[r] = sent /\ wpc \in {"send", "dead"}
<1>1. /\ last[r] = taken[r] - 1 /\ hold[r] = taken[r] /\ hold[r] \in Big
  BY DEF DeliveryInv, LocalOK
<1>2. PICK u : SentTo(u) /\ Payloads(<<>>, last[r], u)
  BY DEF DeliveryInv, LocalOK
<1>3. /\ taken[r] \in Nat /\ sent \in Nat /\ taken[r] <= sent
  BY ShmAssumption DEF ShmInv, TypeOK, RingInv, LagOK, Lag
<1>4. u \in {sent - 1, sent}
  BY <1>2 DEF SentTo
<1>5. ~(last[r] < hold[r] /\ hold[r] <= u)
  <2>1. Len(<<>>) = 0
    OBVIOUS
  <2> QED
    BY <1>1, <1>2, <2>1 DEF Payloads
<1>6. u = sent - 1 /\ hold[r] = sent
  BY <1>1, <1>3, <1>4, <1>5
<1> QED
  BY <1>2, <1>6 DEF SentTo

\* A reader's two loads tell it exactly whether it has a message to read.
THEOREM ReadersSeeExactly == Spec => []ReadableExact
<1>1. ShmInv => ReadableExact
  BY OwnChunkReadable DEF ReadableExact
<1> QED
  BY <1>1, ShmInvariant, PTL

\* enqueue and dequeue never wait for each other, for any number of readers and
\* chunks, whatever pings are lost and whoever times out, aborts or dies.
THEOREM NoCircularWait == Spec => []WriterWaitsForReader
<1>1. ShmInv => WriterWaitsForReader
  BY RoundBehind DEF WriterWaitsForReader
<1> QED
  BY <1>1, ShmInvariant, PTL

\* A reader that has given its chunk back and waits for the payload misses only
\* the send the writer is in: no payload is lost but by the writer's death.
THEOREM PayloadsComing ==
    ASSUME Big = {} \/ ~Timeouts
    PROVE  Spec => []PayloadOnItsWay
<1>1. ShmInv /\ DeliveryInv /\ [Next]_vars => DeliveryInv'
  BY DeliveryStep
<1>2. ShmInv /\ DeliveryInv => PayloadOnItsWay
  <2> SUFFICES ASSUME ShmInv, DeliveryInv PROVE PayloadOnItsWay
    OBVIOUS
  <2>1. ASSUME NEW r \in Remote, sock[r] = <<>>, last[r] # sent, wpc # "dead"
        PROVE  last[r] = sent - 1 /\ wpc \in {"send", "notify", "remote"}
    <3>1. InOrder(r) /\ Len(sock[r]) = 0 /\ last[r] \in Nat /\ sent \in Nat
      BY <2>1, ShmAssumption DEF DeliveryInv, ShmInv, TypeOK, Remote
    <3>2. wpc \in WriterAt
      BY DEF ShmInv, TypeOK
    <3> QED
      BY <2>1, <3>1, <3>2 DEF InOrder, WriterAt
  <2> QED
    BY <2>1, NextToBeSent DEF PayloadOnItsWay
<1> QED
  BY <1>1, <1>2, DeliveryInit, ShmInvariant, PTL DEF Spec
=============================================================================
