------------------------ MODULE DeferredFreesProofs ------------------------
(***************************************************************************)
(* Proofs about DeferredFrees, for every set of requests and blocks and    *)
(* every depth of the batch queue: no step in flight touches a block of    *)
(* the pool, and no remote load fills a block such a step touches.         *)
(***************************************************************************)
EXTENDS DeferredFrees, SequenceTheorems, WellFoundedInduction, TLAPS

Entries == [fence : Nat, blocks : SUBSET Blocks]
Steps   == [seq : Nat, reqs : SUBSET Reqs, touch : SUBSET Blocks]

(***************************************************************************)
(* The inductive invariant.  NoLateAccess says only that a touched block   *)
(* has some reference; to know that the reference outlives the step one    *)
(* must know how late it goes: the request that holds the block has run in *)
(* the step or later, or the block is parked behind the step's number.     *)
(***************************************************************************)
\* The fence that a parked block of step s must at least have.  An empty step
\* shares its number with the step before it, which retires earlier.
Due(s) == IF s.reqs = {} THEN s.seq + 1 ELSE s.seq

KeptBy(r, b, s) == s.reqs # {} /\ b \in held[r] /\ lastSeq[r] >= s.seq

ParkedBy(j, b, s) == b \in deferred[j].blocks /\ deferred[j].fence >= Due(s)

Covered(b, s) ==
    \/ \E r \in Reqs : KeptBy(r, b, s)
    \/ \E j \in 1..Len(deferred) : ParkedBy(j, b, s)

Cover == \A i \in 1..Len(flight) : \A b \in flight[i].touch : Covered(b, flight[i])

\* The steps in flight are numbered in order, past the processed ones.
SeqOK ==
    /\ processed <= sched
    /\ \A i \in 1..Len(flight) :
          flight[i].seq <= sched /\ processed < Due(flight[i])
    /\ \A i, j \in 1..Len(flight) : i < j => flight[i].seq < Due(flight[j])

\* Blocks belong to one request; those of a load belong to no step.
HeldApart == \A r, q \in Reqs : r # q => held[r] \cap held[q] = {}

RemoteQuiet ==
    \A r \in Reqs : status[r] = "remote" =>
        \A i \in 1..Len(flight) : held[r] \cap flight[i].touch = {}

\* What the step being built may touch.
CurOK ==
    /\ phase = "out" => cur = NoStep
    /\ cur.reqs \subseteq Running
    /\ \A r \in Reqs : held[r] \cap cur.copies # {} => status[r] = "running"

FenceInv == Cover /\ SeqOK /\ HeldApart /\ RemoteQuiet /\ CurOK

-----------------------------------------------------------------------------
(***************************************************************************)
(* Sequences of parked releases.                                           *)
(***************************************************************************)
LEMMA Smallest ==
    ASSUME NEW T, T \subseteq Nat, T # {}
    PROVE  \E n \in T : \A m \in T : n <= m
<1>1. PICK x \in T : \A y \in T : ~(<<y, x>> \in OpToRel(<, Nat))
  BY NatLessThanWellFounded, WFMin
<1>2. \A y \in T : ~(<<y, x>> \in {ss \in Nat \X Nat : ss[1] < ss[2]})
  BY <1>1 DEF OpToRel
<1>3. \A y \in T : ~(y < x)
  <2> SUFFICES ASSUME NEW y \in T, y < x PROVE FALSE
    OBVIOUS
  <2>1. <<y, x>> \in Nat \X Nat /\ <<y, x>>[1] = y /\ <<y, x>>[2] = x
    OBVIOUS
  <2> QED
    BY <1>2, <2>1
<1> QED
  BY <1>3

\* _drain_deferred_frees lets no entry go whose fence is still pending.
LEMMA DrainFacts ==
    ASSUME NEW q \in Seq(Entries), NEW done \in Nat
    PROVE  /\ Drain(q, done) \in Seq(Entries)
           /\ \A i \in 1..Len(q) : q[i].fence > done =>
                 \E j \in 1..Len(Drain(q, done)) : Drain(q, done)[j] = q[i]
<1> DEFINE Pending == {i \in DOMAIN q : q[i].fence > done}
           first   == CHOOSE i \in Pending : \A j \in Pending : i <= j
<1>1. DOMAIN q = 1..Len(q) /\ Len(q) \in Nat /\ \A i \in 1..Len(q) : q[i] \in Entries
  BY LenProperties, ElementOfSeq
<1>2. CASE Pending = {}
  <2>1. Drain(q, done) = <<>>
    BY <1>2 DEF Drain
  <2> QED
    BY <1>1, <1>2, <2>1, EmptySeq
<1>3. CASE Pending # {}
  <2>1. Drain(q, done) = SubSeq(q, first, Len(q))
    BY <1>3 DEF Drain
  <2>2. Pending \subseteq Nat
    BY <1>1
  <2>3. \E i \in Pending : \A j \in Pending : i <= j
    BY <1>3, <2>2, Smallest
  <2>4. first \in Pending /\ \A j \in Pending : first <= j
    BY <2>3
  <2>5. first \in 1..Len(q) /\ first \in Int /\ Len(q) \in Int
    BY <1>1, <2>4
  <2> HIDE DEF first, Pending
  <2>6. \A i \in first..Len(q) : q[i] \in Entries
    BY <1>1, <2>5
  <2>7. /\ SubSeq(q, first, Len(q)) \in Seq(Entries)
        /\ Len(SubSeq(q, first, Len(q))) = Len(q) - first + 1
        /\ \A i \in 1..(Len(q) - first + 1) :
              SubSeq(q, first, Len(q))[i] = q[first + i - 1]
    BY <2>5, <2>6, SubSeqProperties
  <2>8. ASSUME NEW i \in 1..Len(q), q[i].fence > done
        PROVE  \E j \in 1..Len(Drain(q, done)) : Drain(q, done)[j] = q[i]
    <3>1. i \in Pending
      BY <1>1, <2>8 DEF Pending
    <3>2. first <= i
      BY <2>4, <3>1
    <3>3. /\ i - first + 1 \in 1..(Len(q) - first + 1)
          /\ first + (i - first + 1) - 1 = i
      BY <1>1, <2>5, <3>2
    <3>4. SubSeq(q, first, Len(q))[i - first + 1] = q[i]
      BY <2>7, <3>3
    <3> QED
      BY <2>1, <2>7, <3>3, <3>4
  <2> QED
    BY <2>1, <2>7, <2>8
<1> QED
  BY <1>2, <1>3

\* What a release of F does, the entries q being left in the deque: they stay,
\* and the blocks some step may still write are parked behind the newest step.
Released(F, q, done) ==
    /\ \A r \in Reqs : held'[r] = IF r \in F THEN {} ELSE held[r]
    /\ \A j \in 1..Len(q) : j \in 1..Len(deferred') /\ deferred'[j] = q[j]
    /\ \A r \in F : \A b \in held[r] : lastSeq[r] > done =>
          \E j \in 1..Len(deferred') :
             b \in deferred'[j].blocks /\ deferred'[j].fence = sched

\* Releasing blocks keeps the types, and each block is freed or parked.
LEMMA ReleaseFacts ==
    ASSUME TypeOK, NEW F, F \subseteq Reqs, NEW q \in Seq(Entries),
           NEW done \in Nat, FreeRequestBlocks(F, q, done)
    PROVE  /\ deferred' \in Seq(Entries)
           /\ held' \in [Reqs -> SUBSET Blocks]
           /\ Released(F, q, done)
<1> DEFINE Late == {r \in F : MustWait(r, done)}
           e    == [fence |-> sched, blocks |-> UNION {held[r] : r \in Late}]
<1>1. held' = [r \in Reqs |-> IF r \in F THEN {} ELSE held[r]]
  BY DEF FreeRequestBlocks
<1>2. e \in Entries
  BY DEF TypeOK, Entries
<1>3. deferred' = IF e.blocks = {} THEN q ELSE Append(q, e)
  BY DEF FreeRequestBlocks, Park, Fence
<1>4. Len(q) \in Nat
  BY LenProperties
<1>5. /\ Append(q, e) \in Seq(Entries) /\ Len(Append(q, e)) = Len(q) + 1
      /\ \A j \in 1..Len(q) : Append(q, e)[j] = q[j]
      /\ Append(q, e)[Len(q) + 1] = e
  BY <1>2, AppendProperties
<1>6. ASSUME NEW r \in F, NEW b \in held[r], lastSeq[r] > done
      PROVE  \E j \in 1..Len(deferred') :
                b \in deferred'[j].blocks /\ deferred'[j].fence = sched
  <2>1. b \in e.blocks
    BY <1>6 DEF MustWait
  <2>2. deferred' = Append(q, e)
    BY <1>3, <2>1
  <2>3. Len(q) + 1 \in 1..Len(deferred')
    BY <1>4, <1>5, <2>2
  <2> QED
    BY <1>5, <2>1, <2>2, <2>3
<1> HIDE DEF e
<1>7. /\ deferred' \in Seq(Entries)
      /\ \A j \in 1..Len(q) : j \in 1..Len(deferred') /\ deferred'[j] = q[j]
  BY <1>3, <1>4, <1>5
<1>8. /\ held' \in [Reqs -> SUBSET Blocks]
      /\ \A r \in Reqs : held'[r] = IF r \in F THEN {} ELSE held[r]
  BY <1>1 DEF TypeOK
<1> QED
  BY <1>6, <1>7, <1>8 DEF Released

-----------------------------------------------------------------------------
(***************************************************************************)
(* Types.                                                                  *)
(***************************************************************************)
LEMMA NoStepType ==
    NoStep \in [reqs : SUBSET Reqs, copies : SUBSET Blocks,
                want : Reqs \cup {NoReq}, preempted : BOOLEAN]
  BY DEF NoStep

\* The types hold when the engine starts.
LEMMA TypeInit == Init => TypeOK
<1> SUFFICES ASSUME Init PROVE TypeOK
  OBVIOUS
<1>1. deferred \in Seq(Entries) /\ flight \in Seq(Steps)
  BY EmptySeq DEF Init
<1> QED
  BY <1>1, NoStepType DEF Init, TypeOK, Statuses, Entries, Steps

\* What the types say of the two queues and their entries.
LEMMA TypeSeqs ==
    ASSUME TypeOK
    PROVE  /\ deferred \in Seq(Entries) /\ flight \in Seq(Steps)
           /\ Len(deferred) \in Nat /\ Len(flight) \in Nat
           /\ \A i \in 1..Len(deferred) : deferred[i] \in Entries
           /\ \A i \in 1..Len(flight) : flight[i] \in Steps
<1>1. deferred \in Seq(Entries) /\ flight \in Seq(Steps)
  BY DEF TypeOK, Entries, Steps
<1> QED
  BY <1>1, LenProperties, ElementOfSeq

\* The deque p has q's entries and, behind fence f, the blocks C.
Parks(p, q, f, C) ==
    /\ \A j \in 1..Len(q) : j \in 1..Len(p) /\ p[j] = q[j]
    /\ \A b \in C : \E j \in 1..Len(p) : b \in p[j].blocks /\ p[j].fence = f

\* Parking appends one entry, or nothing if there is no block.
LEMMA ParkFacts ==
    ASSUME NEW q \in Seq(Entries), NEW f \in Nat, NEW C, C \subseteq Blocks
    PROVE  /\ Park(q, f, C) \in Seq(Entries)
           /\ Parks(Park(q, f, C), q, f, C)
<1> DEFINE e == [fence |-> f, blocks |-> C]
<1>1. e \in Entries
  BY DEF Entries
<1>2. Park(q, f, C) = IF C = {} THEN q ELSE Append(q, e)
  BY DEF Park
<1>3. Len(q) \in Nat
  BY LenProperties
<1>4. /\ Append(q, e) \in Seq(Entries) /\ Len(Append(q, e)) = Len(q) + 1
      /\ \A j \in 1..Len(q) : Append(q, e)[j] = q[j]
      /\ Append(q, e)[Len(q) + 1] = e
  BY <1>1, AppendProperties
<1>5. e.blocks = C /\ e.fence = f
  OBVIOUS
<1> HIDE DEF e
<1>6. CASE C = {}
  BY <1>2, <1>3, <1>6 DEF Parks
<1>7. CASE C # {}
  <2>1. Len(q) + 1 \in 1..Len(Append(q, e))
    BY <1>3, <1>4
  <2> QED
    BY <1>2, <1>3, <1>4, <1>5, <1>7, <2>1 DEF Parks
<1> QED
  BY <1>6, <1>7

\* Every step keeps the types.
LEMMA TypeStep ==
    ASSUME TypeOK, [Next]_vars
    PROVE  TypeOK'
<1> USE DeferAssumption, TypeSeqs
<1>1. CASE BeginSchedule \/ ToWaiting
  BY <1>1 DEF BeginSchedule, ToWaiting, TypeOK, requests, fences
<1>2. CASE EndSchedule
  <2>1. sched + 1 \in Nat /\ cur.copies \subseteq Blocks /\ cur.reqs \subseteq Reqs
    BY DEF TypeOK
  <2>2. deferred' \in Seq(Entries)
    BY <1>2, <2>1, ParkFacts DEF EndSchedule, CopyFence
  <2>3. PICK s : /\ flight' = Append(flight, s)
                 /\ s = [seq |-> sched', reqs |-> cur.reqs,
                         touch |-> cur.copies \cup UNION {held[r] : r \in cur.reqs}]
    BY <1>2 DEF EndSchedule
  <2>4. sched' \in Nat
    BY <1>2, <2>1 DEF EndSchedule, TypeOK
  <2>5. s \in Steps
    BY <2>1, <2>3, <2>4 DEF Steps, TypeOK
  <2>6. flight' \in Seq(Steps)
    BY <2>3, <2>5, AppendProperties
  <2>7. lastSeq' \in [Reqs -> Nat]
    BY <1>2, <2>4 DEF EndSchedule, TypeOK
  <2>8. cur' \in [reqs : SUBSET Reqs, copies : SUBSET Blocks,
                  want : Reqs \cup {NoReq}, preempted : BOOLEAN]
    BY <1>2, NoStepType DEF EndSchedule
  <2> QED
    BY <1>2, <2>2, <2>4, <2>6, <2>7, <2>8 DEF EndSchedule, TypeOK, Entries, Steps
<1>3. ASSUME NEW r \in Reqs, NEW New \in SUBSET Blocks, NEW copied \in SUBSET Blocks,
             ScheduleRunning(r, New, copied) \/ ScheduleWaiting(r, New, copied)
      PROVE  TypeOK'
  <2>1. held' \in [Reqs -> SUBSET Blocks]
    <3>1. held' = [held EXCEPT ![r] = held[r] \cup New]
      BY <1>3 DEF ScheduleRunning, ScheduleWaiting, Allocate, InPool
    <3> QED
      BY <3>1 DEF TypeOK
  <2>2. cur' \in [reqs : SUBSET Reqs, copies : SUBSET Blocks,
                  want : Reqs \cup {NoReq}, preempted : BOOLEAN]
    <3>1. cur.reqs \cup {r} \in SUBSET Reqs /\ cur.copies \cup copied \in SUBSET Blocks
      BY DEF TypeOK
    <3>2. CASE ScheduleRunning(r, New, copied)
      BY <3>1, <3>2 DEF ScheduleRunning, TypeOK
    <3>3. CASE ScheduleWaiting(r, New, copied)
      BY <3>1, <3>3 DEF ScheduleWaiting, TypeOK
    <3> QED
      BY <1>3, <3>2, <3>3
  <2>3. status' \in [Reqs -> Statuses]
    <3>1. status' = status \/ status' = [status EXCEPT ![r] = "running"]
      BY <1>3 DEF ScheduleRunning, ScheduleWaiting
    <3>2. "running" \in Statuses /\ status \in [Reqs -> Statuses]
      BY DEF TypeOK, Statuses
    <3> QED
      BY <3>1, <3>2
  <2>4. recvd' \subseteq {q \in Reqs : status'[q] = "remote"}
    BY <1>3 DEF ScheduleRunning, ScheduleWaiting, TypeOK
  <2> QED
    BY <1>3, <2>1, <2>2, <2>3, <2>4 DEF ScheduleRunning, ScheduleWaiting, TypeOK, fences
<1>4. ASSUME NEW r \in Reqs, NEW New \in SUBSET Blocks, AdmitRemote(r, New)
      PROVE  TypeOK'
  <2>1. held' \in [Reqs -> SUBSET Blocks]
    BY <1>4 DEF AdmitRemote, Allocate, InPool, TypeOK
  <2> QED
    BY <1>4, <2>1 DEF AdmitRemote, TypeOK, Statuses, fences
<1>5. ASSUME NEW r \in Reqs, NEW failed \in BOOLEAN, PromoteRemote(r, failed)
      PROVE  TypeOK'
  <2>1. held' \in [Reqs -> SUBSET Blocks]
    BY <1>5 DEF PromoteRemote, TypeOK
  <2> QED
    BY <1>5, <2>1 DEF PromoteRemote, TypeOK, Statuses, fences
<1>6. ASSUME NEW q \in Reqs, NEW v \in Reqs, Preempt(q, v)
      PROVE  TypeOK'
  <2>1. deferred' \in Seq(Entries) /\ held' \in [Reqs -> SUBSET Blocks]
    BY <1>6, ReleaseFacts DEF Preempt, TypeOK
  <2>2. cur' \in [reqs : SUBSET Reqs, copies : SUBSET Blocks,
                  want : Reqs \cup {NoReq}, preempted : BOOLEAN]
    BY <1>6 DEF Preempt, TypeOK
  <2>3. /\ status' \in [Reqs -> Statuses]
        /\ recvd' \subseteq {r \in Reqs : status'[r] = "remote"}
        /\ phase' \in {"out", "run", "wait", "end"}
    BY <1>6 DEF Preempt, Running, TypeOK, Statuses
  <2> QED
    BY <1>6, <2>1, <2>2, <2>3 DEF Preempt, TypeOK, Entries
<1>7. ASSUME NEW F \in SUBSET Reqs, NEW Z \in SUBSET Reqs, NEW D \in SUBSET Reqs,
             UpdateFromOutput(F, Z, D)
      PROVE  TypeOK'
  <2> DEFINE n    == Processed(Head(flight))
             Gone == (F \ Z) \cup {r \in D : status[r] = "zombie"}
             q    == IF Head(flight).reqs = {} THEN deferred ELSE Drain(deferred, n)
  <2>1. n \in Nat /\ flight' \in Seq(Steps)
    BY <1>7, HeadTailProperties, SMTT(30) DEF UpdateFromOutput, Processed, TypeOK
  <2>2. q \in Seq(Entries)
    BY <2>1, DrainFacts
  <2>3. FreeRequestBlocks(Gone, q, n) /\ Gone \subseteq Reqs
    BY <1>7 DEF UpdateFromOutput
  <2>4. deferred' \in Seq(Entries) /\ held' \in [Reqs -> SUBSET Blocks]
    BY <2>1, <2>2, <2>3, ReleaseFacts
  <2>5. /\ status' \in [Reqs -> Statuses]
        /\ recvd' \subseteq {r \in Reqs : status'[r] = "remote"}
    BY <1>7 DEF UpdateFromOutput, TypeOK, Statuses
  <2>6. processed' \in Nat /\ fin' \in BOOLEAN
    BY <1>7, <2>1 DEF UpdateFromOutput, TypeOK
  <2> QED
    BY <1>7, <2>1, <2>4, <2>5, <2>6 DEF UpdateFromOutput, TypeOK, Entries, Steps
<1>8. ASSUME NEW r \in Reqs, NEW kept \in BOOLEAN, FinishRequest(r, kept)
      PROVE  TypeOK'
  <2>1. deferred' \in Seq(Entries) /\ held' \in [Reqs -> SUBSET Blocks]
    <3>1. \E F \in SUBSET Reqs : FreeRequestBlocks(F, deferred, processed)
      BY <1>8 DEF FinishRequest
    <3> QED
      BY <3>1, ReleaseFacts DEF TypeOK
  <2>2. /\ status' \in [Reqs -> Statuses]
        /\ recvd' \subseteq {q \in Reqs : status'[q] = "remote"}
    BY <1>8 DEF FinishRequest, TypeOK, Statuses
  <2> QED
    BY <1>8, <2>1, <2>2 DEF FinishRequest, TypeOK, Entries
<1>9. CASE ForceReset
  <2>1. deferred' \in Seq(Entries) /\ held' \in [Reqs -> SUBSET Blocks]
    BY <1>9, ReleaseFacts DEF ForceReset, Running, TypeOK
  <2>2. /\ status' \in [Reqs -> Statuses]
        /\ recvd' \subseteq {r \in Reqs : status'[r] = "remote"}
    BY <1>9 DEF ForceReset, TypeOK, Statuses, Running
  <2>3. resetFailed' \in BOOLEAN
    BY <1>9 DEF ForceReset, TypeOK
  <2> QED
    BY <1>9, <2>1, <2>2, <2>3 DEF ForceReset, TypeOK, Entries
<1>10. CASE UNCHANGED vars
  BY <1>10 DEF vars, requests, fences, TypeOK
<1> QED
  BY <1>1, <1>2, <1>3, <1>4, <1>5, <1>6, <1>7, <1>8, <1>9, <1>10
     DEF Next, Schedule, Update

-----------------------------------------------------------------------------
(***************************************************************************)
(* The fences.                                                             *)
(***************************************************************************)
LEMMA FenceInit == Init => FenceInv
<1> SUFFICES ASSUME Init PROVE FenceInv
  OBVIOUS
<1>1. ~(\E i : i \in 1..Len(flight))
  BY EmptySeq DEF Init
<1>2. Cover /\ RemoteQuiet
  BY <1>1 DEF Cover, RemoteQuiet
<1>3. SeqOK
  BY <1>1 DEF SeqOK, Init
<1>4. HeldApart
  BY DEF HeldApart, Init
<1>5. CurOK
  BY DEF CurOK, Init, NoStep
<1> QED
  BY <1>2, <1>3, <1>4, <1>5 DEF FenceInv

\* A covered block has a reference, so the pool does not have it.
LEMMA CoveredNotFree ==
    ASSUME NEW b, NEW s, Covered(b, s)
    PROVE  b \notin Free
<1>1. CASE \E r \in Reqs : KeptBy(r, b, s)
  BY <1>1 DEF KeptBy, Free, Held
<1>2. CASE \E j \in 1..Len(deferred) : ParkedBy(j, b, s)
  <2>1. PICK j \in 1..Len(deferred) : ParkedBy(j, b, s)
    BY <1>2
  <2>2. j \in DOMAIN deferred
    BY <2>1
  <2> QED
    BY <2>1, <2>2 DEF ParkedBy, Parked, Free
<1> QED
  BY <1>1, <1>2 DEF Covered

\* Releasing the requests of F, with the entries q left in the deque, uncovers
\* no block of a step that is not yet processed.
LEMMA ReleaseCovers ==
    ASSUME TypeOK, NEW F, F \subseteq Reqs, NEW q \in Seq(Entries),
           NEW done \in Nat, FreeRequestBlocks(F, q, done),
           UNCHANGED <<lastSeq, sched>>,
           NEW s \in Steps, NEW b, s.seq <= sched, done < Due(s),
           \/ \E r \in Reqs : KeptBy(r, b, s)
           \/ \E j \in 1..Len(q) : b \in q[j].blocks /\ q[j].fence >= Due(s)
    PROVE  Covered(b, s)'
<1>0. Released(F, q, done)
  BY ReleaseFacts
<1>1. /\ \A r \in Reqs : held'[r] = IF r \in F THEN {} ELSE held[r]
      /\ \A j \in 1..Len(q) : j \in 1..Len(deferred') /\ deferred'[j] = q[j]
      /\ \A r \in F : \A c \in held[r] : lastSeq[r] > done =>
            \E j \in 1..Len(deferred') :
               c \in deferred'[j].blocks /\ deferred'[j].fence = sched
  BY <1>0 DEF Released
<1>2. CASE \E j \in 1..Len(q) : b \in q[j].blocks /\ q[j].fence >= Due(s)
  <2>1. PICK j \in 1..Len(q) : b \in q[j].blocks /\ q[j].fence >= Due(s)
    BY <1>2
  <2>2. j \in 1..Len(deferred') /\ ParkedBy(j, b, s)'
    BY <1>1, <2>1 DEF ParkedBy, Due
  <2> QED
    BY <2>2 DEF Covered
<1>3. ASSUME NEW r \in Reqs, KeptBy(r, b, s) PROVE Covered(b, s)'
  <2>1. s.reqs # {} /\ b \in held[r] /\ lastSeq[r] >= s.seq /\ Due(s) = s.seq
    BY <1>3 DEF KeptBy, Due
  <2>2. CASE r \notin F
    <3>1. KeptBy(r, b, s)'
      BY <1>1, <2>1, <2>2 DEF KeptBy
    <3> QED
      BY <3>1 DEF Covered
  <2>3. CASE r \in F
    <3>1. lastSeq[r] > done
      <4>1. lastSeq[r] \in Nat /\ s.seq \in Nat
        BY DEF TypeOK, Steps
      <4> QED
        BY <2>1, <4>1
    <3>2. PICK j \in 1..Len(deferred') :
              b \in deferred'[j].blocks /\ deferred'[j].fence = sched
      BY <1>1, <2>1, <2>3, <3>1
    <3>3. ParkedBy(j, b, s)'
      BY <2>1, <3>2 DEF ParkedBy, Due, TypeOK, Steps
    <3> QED
      BY <3>2, <3>3 DEF Covered
  <2> QED
    BY <2>2, <2>3
<1> QED
  BY <1>2, <1>3

\* The whole of Cover, from what each step in flight needs.
LEMMA CoverFrom ==
    ASSUME \A i \in 1..Len(flight') : \A b \in flight'[i].touch :
              \A s : s = flight'[i] => Covered(b, s)'
    PROVE  Cover'
<1> SUFFICES ASSUME NEW i \in 1..Len(flight'), NEW b \in flight'[i].touch
             PROVE  Covered(b, flight[i])'
  BY DEF Cover
<1>1. PICK s : s = flight'[i]
  OBVIOUS
<1>2. Covered(b, s)'
  BY <1>1
<1> QED
  BY <1>1, <1>2 DEF Covered, KeptBy, ParkedBy, Due

\* A release between the steps (an abort, a preemption, a reset).
LEMMA ReleaseStep ==
    ASSUME TypeOK, FenceInv, NEW F, F \subseteq Reqs,
           FreeRequestBlocks(F, deferred, processed),
           UNCHANGED <<lastSeq, sched, processed, flight>>
    PROVE  /\ Cover' /\ SeqOK' /\ HeldApart'
           /\ \A r \in Reqs : held'[r] = IF r \in F THEN {} ELSE held[r]
<1>1. /\ deferred \in Seq(Entries) /\ processed \in Nat
      /\ \A i \in 1..Len(flight) : flight[i] \in Steps
  BY TypeSeqs DEF TypeOK
<1>2. \A r \in Reqs : held'[r] = IF r \in F THEN {} ELSE held[r]
  BY <1>1, ReleaseFacts DEF Released
<1>3. ASSUME NEW i \in 1..Len(flight'), NEW b \in flight'[i].touch,
             NEW s, s = flight'[i]
      PROVE  Covered(b, s)'
  <2>1. /\ s \in Steps /\ s.seq <= sched /\ processed < Due(s) /\ Covered(b, s)
    BY <1>1, <1>3 DEF FenceInv, SeqOK, Cover
  <2>2. \/ \E r \in Reqs : KeptBy(r, b, s)
        \/ \E j \in 1..Len(deferred) :
              b \in deferred[j].blocks /\ deferred[j].fence >= Due(s)
    BY <2>1 DEF Covered, ParkedBy
  <2> QED
    BY <1>1, <2>1, <2>2, ReleaseCovers
<1>4. Cover'
  BY <1>3, CoverFrom
<1>5. SeqOK'
  BY DEF FenceInv, SeqOK, Due
<1>6. HeldApart'
  BY <1>2 DEF FenceInv, HeldApart
<1> QED
  BY <1>2, <1>4, <1>5, <1>6

\* A preemption inside schedule().
LEMMA PreemptStep ==
    ASSUME TypeOK, FenceInv, NEW q \in Reqs, NEW v \in Reqs, Preempt(q, v)
    PROVE  FenceInv'
<1>1. Cover' /\ SeqOK' /\ HeldApart'
      /\ \A r \in Reqs : held'[r] = IF r \in {v} THEN {} ELSE held[r]
  BY ReleaseStep DEF Preempt
<1>2. status' = [status EXCEPT ![v] = "waiting"] /\ flight' = flight
  BY DEF Preempt
<1>3. RemoteQuiet'
  BY <1>1, <1>2 DEF FenceInv, RemoteQuiet, TypeOK
<1>4. CurOK'
  <2>1. cur'.reqs = cur.reqs \ {v} /\ cur'.copies = cur.copies /\ phase' # "out"
    BY DEF Preempt, TypeOK
  <2> QED
    BY <1>1, <1>2, <2>1 DEF FenceInv, CurOK, Running, TypeOK
<1> QED
  BY <1>1, <1>3, <1>4 DEF FenceInv

\* An abort or a forced reset, between two calls of schedule().
LEMMA OutsideStep ==
    ASSUME TypeOK, FenceInv,
           ForceReset \/ \E r \in Reqs, kept \in BOOLEAN : FinishRequest(r, kept)
    PROVE  FenceInv'
<1>1. PICK F \in SUBSET Reqs : FreeRequestBlocks(F, deferred, processed)
  BY DEF ForceReset, FinishRequest, Running
<1>2. UNCHANGED <<lastSeq, sched, processed, flight, phase, cur>> /\ phase = "out"
  BY DEF ForceReset, FinishRequest
<1>3. Cover' /\ SeqOK' /\ HeldApart'
      /\ \A r \in Reqs : held'[r] = IF r \in F THEN {} ELSE held[r]
  BY <1>1, <1>2, ReleaseStep
<1>4. \A r \in Reqs : status'[r] = "remote" => status[r] = "remote"
  BY DEF ForceReset, FinishRequest, Running, TypeOK
<1>5. RemoteQuiet'
  BY <1>2, <1>3, <1>4 DEF FenceInv, RemoteQuiet
<1>6. CurOK'
  <2>1. cur' = NoStep
    BY <1>2 DEF FenceInv, CurOK
  <2> QED
    BY <2>1 DEF CurOK, NoStep
<1> QED
  BY <1>3, <1>5, <1>6 DEF FenceInv

\* New blocks come from the pool, so no step in flight touches them.
LEMMA NewIsQuiet ==
    ASSUME TypeOK, FenceInv, NEW b \in Free, NEW i \in 1..Len(flight)
    PROVE  b \notin flight[i].touch
  BY CoveredNotFree DEF FenceInv, Cover

\* A request r is given the blocks New; everything else stays.
LEMMA GrowStep ==
    ASSUME TypeOK, FenceInv, NEW r \in Reqs, NEW New, New \subseteq Free,
           held' = [held EXCEPT ![r] = held[r] \cup New],
           UNCHANGED <<lastSeq, fences, flight>>
    PROVE  Cover' /\ SeqOK' /\ HeldApart'
<1>1. \A q \in Reqs : held'[q] = IF q = r THEN held[r] \cup New ELSE held[q]
  BY DEF TypeOK
<1>2. Cover'
  <2>1. ASSUME NEW i \in 1..Len(flight'), NEW b \in flight'[i].touch,
               NEW s, s = flight'[i]
        PROVE  Covered(b, s)'
    <3>1. Covered(b, s)
      BY <2>1 DEF FenceInv, Cover
    <3> QED
      BY <1>1, <3>1 DEF Covered, KeptBy, ParkedBy, Due, fences
  <2> QED
    BY <2>1, CoverFrom
<1>3. SeqOK'
  BY DEF FenceInv, SeqOK, Due, fences
<1>4. HeldApart'
  BY <1>1 DEF FenceInv, HeldApart, Free, Held
<1> QED
  BY <1>2, <1>3, <1>4

\* A request gets a place in the step.
LEMMA PlaceStep ==
    ASSUME TypeOK, FenceInv, NEW r \in Reqs,
           NEW New \in SUBSET Blocks, NEW copied \in SUBSET Blocks,
           ScheduleRunning(r, New, copied) \/ ScheduleWaiting(r, New, copied)
    PROVE  FenceInv'
<1>1. /\ New \subseteq Free /\ held' = [held EXCEPT ![r] = held[r] \cup New]
      /\ UNCHANGED <<lastSeq, fences, flight, phase>>
      /\ \A b \in copied : b \in New \/ b \notin Held
  BY DEF ScheduleRunning, ScheduleWaiting, Allocate, InPool
<1>2. Cover' /\ SeqOK' /\ HeldApart'
  BY <1>1, GrowStep
<1>3. \A q \in Reqs : /\ q # r => held'[q] = held[q] /\ status'[q] = status[q]
                      /\ status'[r] = "running"
  BY <1>1 DEF ScheduleRunning, ScheduleWaiting, TypeOK
<1>4. RemoteQuiet'
  <2> SUFFICES ASSUME NEW q \in Reqs, status'[q] = "remote",
                      NEW i \in 1..Len(flight)
               PROVE  held'[q] \cap flight[i].touch = {}
    BY <1>1 DEF RemoteQuiet
  <2>1. q # r
    BY <1>3
  <2> QED
    BY <1>3, <2>1 DEF FenceInv, RemoteQuiet
<1>5. CurOK'
  <2>1. /\ cur'.reqs = cur.reqs \cup {r} /\ cur'.copies = cur.copies \cup copied
        /\ phase' # "out"
    BY DEF ScheduleRunning, ScheduleWaiting, TypeOK
  <2>2. cur'.reqs \subseteq Running'
    BY <1>3, <2>1 DEF FenceInv, CurOK, Running
  <2>3. ASSUME NEW q \in Reqs, held'[q] \cap cur'.copies # {}
        PROVE  status'[q] = "running"
    <3>1. CASE q = r
      BY <1>3, <3>1
    <3>2. CASE q # r
      <4>1. PICK b \in held[q] : b \in cur.copies \cup copied
        BY <1>3, <2>1, <2>3, <3>2
      <4>2. b \in Held
        BY <4>1 DEF Held
      <4>3. b \notin New
        BY <1>1, <4>2 DEF Free
      <4>4. b \in cur.copies
        BY <1>1, <4>1, <4>2, <4>3
      <4> QED
        BY <1>3, <3>2, <4>1, <4>4 DEF FenceInv, CurOK
    <3> QED
      BY <3>1, <3>2
  <2> QED
    BY <2>1, <2>2, <2>3 DEF CurOK
<1> QED
  BY <1>2, <1>4, <1>5 DEF FenceInv

\* A remote load starts, or ends.
LEMMA RemoteStep ==
    ASSUME TypeOK, FenceInv, NEW r \in Reqs,
           \/ \E New \in SUBSET Blocks : AdmitRemote(r, New)
           \/ \E failed \in BOOLEAN : PromoteRemote(r, failed)
    PROVE  FenceInv'
<1>1. ASSUME NEW New \in SUBSET Blocks, AdmitRemote(r, New) PROVE FenceInv'
  <2>1. /\ New \subseteq Free /\ held' = [held EXCEPT ![r] = held[r] \cup New]
        /\ UNCHANGED <<lastSeq, fences, flight, phase, cur>>
        /\ held[r] = {} /\ status' = [status EXCEPT ![r] = "remote"]
        /\ status[r] = "waiting" /\ phase = "wait"
    BY <1>1 DEF AdmitRemote, Allocate, InPool
  <2>2. Cover' /\ SeqOK' /\ HeldApart'
    BY <2>1, GrowStep
  <2>3. \A q \in Reqs : held'[q] = IF q = r THEN New ELSE held[q]
    BY <2>1 DEF TypeOK
  <2>4. RemoteQuiet'
    <3> SUFFICES ASSUME NEW q \in Reqs, status'[q] = "remote",
                        NEW i \in 1..Len(flight)
                 PROVE  held'[q] \cap flight[i].touch = {}
      BY <2>1 DEF RemoteQuiet
    <3>1. CASE q = r
      BY <2>1, <2>3, <3>1, NewIsQuiet
    <3>2. CASE q # r
      BY <2>1, <2>3, <3>2 DEF FenceInv, RemoteQuiet, TypeOK
    <3> QED
      BY <3>1, <3>2
  <2>5. CurOK'
    <3>1. cur.reqs \subseteq Running'
      BY <2>1 DEF FenceInv, CurOK, Running, TypeOK
    <3>2. New \cap cur.copies = {}
      BY <2>1 DEF Free
    <3> QED
      BY <2>1, <2>3, <3>1, <3>2 DEF FenceInv, CurOK, TypeOK
  <2> QED
    BY <2>2, <2>4, <2>5 DEF FenceInv
<1>2. ASSUME NEW failed \in BOOLEAN, PromoteRemote(r, failed) PROVE FenceInv'
  <2>1. /\ status[r] = "remote" /\ status' = [status EXCEPT ![r] = "waiting"]
        /\ UNCHANGED <<lastSeq, fences, flight, phase, cur>> /\ phase = "wait"
        /\ \A q \in Reqs : q # r => held'[q] = held[q]
        /\ held'[r] \subseteq held[r]
    BY <1>2 DEF PromoteRemote, TypeOK
  <2>2. Cover'
    <3>1. ASSUME NEW i \in 1..Len(flight'), NEW b \in flight'[i].touch,
                 NEW s, s = flight'[i]
          PROVE  Covered(b, s)'
      <4>1. Covered(b, s) /\ b \notin held[r]
        BY <2>1, <3>1 DEF FenceInv, Cover, RemoteQuiet
      <4> QED
        BY <2>1, <4>1 DEF Covered, KeptBy, ParkedBy, Due, fences
    <3> QED
      BY <3>1, CoverFrom
  <2>3. SeqOK'
    BY <2>1 DEF FenceInv, SeqOK, Due, fences
  <2>4. HeldApart'
    BY <2>1 DEF FenceInv, HeldApart
  <2>5. RemoteQuiet'
    BY <2>1 DEF FenceInv, RemoteQuiet, TypeOK
  <2>6. CurOK'
    <3>1. r \notin Running /\ held[r] \cap cur.copies = {}
      BY <2>1 DEF FenceInv, CurOK, Running
    <3> QED
      BY <2>1, <3>1 DEF FenceInv, CurOK, Running, TypeOK
  <2> QED
    BY <2>2, <2>3, <2>4, <2>5, <2>6 DEF FenceInv
<1> QED
  BY <1>1, <1>2

\* The step goes to the executor, its copies parked behind it.
LEMMA EndStep ==
    ASSUME TypeOK, FenceInv, EndSchedule
    PROVE  FenceInv'
<1> DEFINE n == IF cur.reqs = {} THEN sched ELSE sched + 1
           s == [seq |-> n, reqs |-> cur.reqs,
                 touch |-> cur.copies \cup UNION {held[r] : r \in cur.reqs}]
<1>1. /\ sched' = n /\ deferred' = Park(deferred, sched + 1, cur.copies)
      /\ lastSeq' = [r \in Reqs |-> IF r \in cur.reqs THEN n ELSE lastSeq[r]]
      /\ flight' = Append(flight, s)
      /\ UNCHANGED <<status, held, processed>>
      /\ cur' = NoStep
  BY DEF EndSchedule, CopyFence
<1>2. /\ deferred \in Seq(Entries) /\ flight \in Seq(Steps) /\ Len(flight) \in Nat
      /\ sched \in Nat /\ processed \in Nat /\ cur.copies \subseteq Blocks
      /\ cur.reqs \subseteq Reqs /\ sched + 1 \in Nat /\ n \in Nat
      /\ \A i \in 1..Len(flight) : flight[i] \in Steps
      /\ lastSeq \in [Reqs -> Nat]
  BY TypeSeqs DEF TypeOK
<1>3. s \in Steps
  BY <1>2 DEF Steps, TypeOK
<1>4. /\ Len(flight') = Len(flight) + 1
      /\ \A i \in 1..Len(flight) : flight'[i] = flight[i]
      /\ flight'[Len(flight) + 1] = s
  BY <1>1, <1>2, <1>3, AppendProperties
<1>5. \A i \in 1..Len(flight') : i \in 1..Len(flight) \/ i = Len(flight) + 1
  BY <1>2, <1>4
<1>6. /\ \A j \in 1..Len(deferred) :
            j \in 1..Len(deferred') /\ deferred'[j] = deferred[j]
      /\ \A b \in cur.copies : \E j \in 1..Len(deferred') :
            b \in deferred'[j].blocks /\ deferred'[j].fence = sched + 1
  <2>1. Parks(deferred', deferred, sched + 1, cur.copies)
    BY <1>1, <1>2, ParkFacts
  <2> QED
    BY <2>1 DEF Parks
<1>7. /\ s.seq = n /\ s.reqs = cur.reqs
      /\ s.touch = cur.copies \cup UNION {held[r] : r \in cur.reqs}
      /\ Due(s) = sched + 1 /\ n <= sched + 1 /\ sched <= n
  BY <1>2 DEF Due
<1> HIDE DEF s, n
<1>8. Cover'
  <2>1. ASSUME NEW i \in 1..Len(flight'), NEW b \in flight'[i].touch,
               NEW t, t = flight'[i]
        PROVE  Covered(b, t)'
    <3>1. CASE i \in 1..Len(flight)
      <4>1. Covered(b, t) /\ t \in Steps /\ t.seq <= sched
        BY <1>2, <1>4, <2>1, <3>1 DEF FenceInv, Cover, SeqOK
      <4>2. ASSUME NEW r \in Reqs, KeptBy(r, b, t) PROVE KeptBy(r, b, t)'
        <5>1. t.seq \in Nat /\ lastSeq'[r] = IF r \in cur.reqs THEN n ELSE lastSeq[r]
          BY <1>1, <4>1 DEF Steps
        <5>2. lastSeq'[r] >= t.seq
          BY <1>2, <1>7, <4>1, <4>2, <5>1 DEF KeptBy
        <5> QED
          BY <1>1, <4>2, <5>2 DEF KeptBy
      <4>3. ASSUME NEW j \in 1..Len(deferred), ParkedBy(j, b, t)
            PROVE  j \in 1..Len(deferred') /\ ParkedBy(j, b, t)'
        BY <1>6, <4>3 DEF ParkedBy, Due
      <4> QED
        BY <4>1, <4>2, <4>3 DEF Covered
    <3>2. CASE i = Len(flight) + 1
      <4>1. t = s /\ b \in s.touch
        BY <1>4, <2>1, <3>2
      <4>2. CASE b \in cur.copies
        <5>1. PICK j \in 1..Len(deferred') :
                  b \in deferred'[j].blocks /\ deferred'[j].fence = sched + 1
          BY <1>6, <4>2
        <5>2. ParkedBy(j, b, t)'
          BY <1>2, <1>7, <4>1, <5>1 DEF ParkedBy, Due
        <5> QED
          BY <5>1, <5>2 DEF Covered
      <4>3. ASSUME NEW r \in cur.reqs, b \in held[r] PROVE Covered(b, t)'
        <5>1. r \in Reqs /\ lastSeq'[r] = n /\ t.reqs # {} /\ t.seq = n
          BY <1>1, <1>2, <1>7, <4>1, <4>3
        <5>2. KeptBy(r, b, t)'
          BY <1>1, <1>2, <4>3, <5>1 DEF KeptBy
        <5> QED
          BY <5>1, <5>2 DEF Covered
      <4> QED
        BY <1>7, <4>1, <4>2, <4>3
    <3> QED
      BY <1>5, <3>1, <3>2
  <2> QED
    BY <2>1, CoverFrom
<1>9. SeqOK'
  <2>1. processed <= sched
    BY DEF FenceInv, SeqOK
  <2>2. \A i \in 1..Len(flight') : flight'[i].seq <= n /\ processed < Due(flight'[i])
    <3> SUFFICES ASSUME NEW i \in 1..Len(flight')
                 PROVE  flight'[i].seq <= n /\ processed < Due(flight'[i])
      OBVIOUS
    <3>1. CASE i \in 1..Len(flight)
      <4>1. flight'[i] = flight[i] /\ flight[i].seq \in Nat /\ flight[i].seq <= sched
             /\ processed < Due(flight[i])
        BY <1>2, <1>4, <3>1 DEF Steps, FenceInv, SeqOK
      <4> QED
        BY <1>2, <1>7, <4>1
    <3>2. CASE i = Len(flight) + 1
      BY <1>2, <1>4, <1>7, <2>1, <3>2
    <3> QED
      BY <1>5, <3>1, <3>2
  <2>3. ASSUME NEW i \in 1..Len(flight'), NEW j \in 1..Len(flight'), i < j
        PROVE  flight'[i].seq < Due(flight'[j])
    <3>1. i \in 1..Len(flight)
      BY <1>2, <1>4, <2>3
    <3>2. CASE j \in 1..Len(flight)
      BY <1>4, <2>3, <3>1, <3>2 DEF FenceInv, SeqOK
    <3>3. CASE j = Len(flight) + 1
      <4>1. flight[i].seq \in Nat /\ flight[i].seq <= sched
        BY <1>2, <3>1 DEF Steps, FenceInv, SeqOK
      <4> QED
        BY <1>2, <1>4, <1>7, <3>1, <3>3, <4>1
    <3> QED
      BY <1>5, <3>2, <3>3
  <2>4. processed <= n
    BY <1>2, <1>7, <2>1
  <2> QED
    BY <1>1, <2>2, <2>3, <2>4 DEF SeqOK, Due
<1>10. HeldApart'
  BY <1>1 DEF FenceInv, HeldApart
<1>11. RemoteQuiet'
  <2> SUFFICES ASSUME NEW r \in Reqs, status[r] = "remote", NEW i \in 1..Len(flight')
               PROVE  held[r] \cap flight'[i].touch = {}
    BY <1>1 DEF RemoteQuiet
  <2>1. CASE i \in 1..Len(flight)
    BY <1>4, <2>1 DEF FenceInv, RemoteQuiet
  <2>2. CASE i = Len(flight) + 1
    <3>1. held[r] \cap cur.copies = {}
      BY DEF FenceInv, CurOK
    <3>2. ASSUME NEW q \in cur.reqs PROVE held[r] \cap held[q] = {}
      <4>1. q # r /\ q \in Reqs
        BY <1>2 DEF FenceInv, CurOK, Running
      <4> QED
        BY <4>1 DEF FenceInv, HeldApart
    <3> QED
      BY <1>4, <1>7, <2>2, <3>1, <3>2
  <2> QED
    BY <1>5, <2>1, <2>2
<1>12. CurOK'
  BY <1>1 DEF CurOK, NoStep
<1> QED
  BY <1>8, <1>9, <1>10, <1>11, <1>12 DEF FenceInv

\* The oldest step's output is processed.  What the deque lets go was parked
\* for steps that are processed now; what the requests let go is parked anew
\* while a younger step has run them.
LEMMA UpdateStep ==
    ASSUME TypeOK, FenceInv,
           NEW F \in SUBSET Reqs, NEW Z \in SUBSET Reqs, NEW D \in SUBSET Reqs,
           UpdateFromOutput(F, Z, D)
    PROVE  FenceInv'
<1> DEFINE n    == Processed(Head(flight))
           Gone == (F \ Z) \cup {r \in D : status[r] = "zombie"}
           q    == IF Head(flight).reqs = {} THEN deferred ELSE Drain(deferred, n)
<1>1. /\ FreeRequestBlocks(Gone, q, n) /\ Gone \subseteq Reqs /\ processed' = n
      /\ flight' = Tail(flight) /\ flight # <<>> /\ phase = "out"
      /\ UNCHANGED <<lastSeq, sched, phase, cur>>
  BY DEF UpdateFromOutput
<1>2. /\ deferred \in Seq(Entries) /\ flight \in Seq(Steps) /\ Len(flight) \in Nat
      /\ sched \in Nat /\ processed \in Nat
      /\ \A i \in 1..Len(flight) : flight[i] \in Steps
      /\ \A i \in 1..Len(deferred) : deferred[i] \in Entries
  BY TypeSeqs DEF TypeOK
<1>3. /\ Len(flight') = Len(flight) - 1 /\ Head(flight) = flight[1]
      /\ \A i \in 1..Len(flight') : flight'[i] = flight[i + 1]
      /\ 1 \in 1..Len(flight)
  BY <1>1, <1>2, HeadTailProperties, EmptySeq
<1>4. \A i \in 1..Len(flight') : i + 1 \in 1..Len(flight) /\ 1 < i + 1
  BY <1>2, <1>3
<1>5. n \in Nat /\ q \in Seq(Entries)
  BY <1>2, DrainFacts DEF Processed
<1>6. n < flight[1].seq + 1 /\ n <= sched
  <2>1. flight[1].seq \in Nat /\ flight[1].seq <= sched /\ processed < Due(flight[1])
    BY <1>2, <1>3 DEF Steps, FenceInv, SeqOK
  <2>2. n = IF flight[1].reqs = {} THEN processed ELSE processed + 1
    BY <1>3 DEF Processed
  <2> QED
    BY <1>2, <2>1, <2>2 DEF Due, FenceInv, SeqOK
<1>7. \A i \in 1..Len(flight') : /\ flight'[i] \in Steps /\ flight'[i].seq <= sched
                                 /\ n < Due(flight'[i])
  <2> SUFFICES ASSUME NEW i \in 1..Len(flight')
               PROVE  /\ flight[i + 1] \in Steps /\ flight[i + 1].seq <= sched
                      /\ n < Due(flight[i + 1])
    BY <1>3
  <2>1. flight[1].seq < Due(flight[i + 1]) /\ flight[i + 1].seq <= sched
    BY <1>3, <1>4 DEF FenceInv, SeqOK
  <2>2. flight[i + 1] \in Steps /\ flight[1].seq \in Nat /\ Due(flight[i + 1]) \in Nat
    BY <1>2, <1>3, <1>4 DEF Steps, Due
  <2> QED
    BY <1>5, <1>6, <2>1, <2>2
<1>8. \A j \in 1..Len(deferred) : deferred[j].fence > n =>
          \E k \in 1..Len(q) : q[k] = deferred[j]
  BY <1>2, <1>5, DrainFacts
<1> HIDE DEF n, q, Gone
<1>9. Cover'
  <2>1. ASSUME NEW i \in 1..Len(flight'), NEW b \in flight'[i].touch,
               NEW s, s = flight'[i]
        PROVE  Covered(b, s)'
    <3>1. s \in Steps /\ s.seq <= sched /\ n < Due(s) /\ Covered(b, s)
      BY <1>3, <1>4, <1>7, <2>1 DEF FenceInv, Cover
    <3>2. \/ \E r \in Reqs : KeptBy(r, b, s)
          \/ \E j \in 1..Len(q) : b \in q[j].blocks /\ q[j].fence >= Due(s)
      <4>1. ASSUME NEW j \in 1..Len(deferred), ParkedBy(j, b, s)
            PROVE  \E k \in 1..Len(q) : b \in q[k].blocks /\ q[k].fence >= Due(s)
        <5>1. deferred[j].fence \in Nat /\ Due(s) \in Nat
          BY <1>2, <3>1 DEF Entries, Steps, Due
        <5>2. deferred[j].fence > n
          BY <1>5, <3>1, <4>1, <5>1 DEF ParkedBy
        <5> QED
          BY <1>8, <4>1, <5>2 DEF ParkedBy
      <4> QED
        BY <3>1, <4>1 DEF Covered
    <3> QED
      BY <1>1, <1>5, <3>1, <3>2, ReleaseCovers
  <2> QED
    BY <2>1, CoverFrom
<1>10. SeqOK'
  <2>1. ASSUME NEW i \in 1..Len(flight'), NEW j \in 1..Len(flight'), i < j
        PROVE  flight'[i].seq < Due(flight'[j])
    <3>1. i + 1 \in 1..Len(flight) /\ j + 1 \in 1..Len(flight) /\ i + 1 < j + 1
      BY <1>2, <1>3, <1>4, <2>1
    <3> QED
      BY <1>3, <3>1 DEF FenceInv, SeqOK
  <2> QED
    BY <1>1, <1>6, <1>7, <2>1 DEF SeqOK, Due
<1>11. \A r \in Reqs : held'[r] = IF r \in Gone THEN {} ELSE held[r]
  BY <1>1, <1>5, ReleaseFacts DEF Released
<1>12. HeldApart'
  BY <1>11 DEF FenceInv, HeldApart
<1>13. RemoteQuiet'
  <2>1. \A r \in Reqs : status'[r] = "remote" => status[r] = "remote"
    BY DEF UpdateFromOutput, TypeOK
  <2> QED
    BY <1>3, <1>4, <1>11, <2>1 DEF FenceInv, RemoteQuiet
<1>14. CurOK'
  <2>1. cur' = NoStep
    BY <1>1 DEF FenceInv, CurOK
  <2> QED
    BY <2>1 DEF CurOK, NoStep
<1> QED
  BY <1>9, <1>10, <1>12, <1>13, <1>14 DEF FenceInv

\* BeginSchedule and ToWaiting only move the engine on.
LEMMA PhaseStep ==
    ASSUME TypeOK, FenceInv, BeginSchedule \/ ToWaiting \/ UNCHANGED vars
    PROVE  FenceInv'
<1>1. UNCHANGED <<requests, fences, flight, cur>> /\ (phase' = "out" => phase = "out")
  BY DEF BeginSchedule, ToWaiting, vars
<1> QED
  BY <1>1 DEF FenceInv, Cover, Covered, KeptBy, ParkedBy, Due, SeqOK, HeldApart,
              RemoteQuiet, CurOK, Running, requests, fences

-----------------------------------------------------------------------------
\* The types and the fences hold in every reachable state.
THEOREM FencesHold == Spec => [](TypeOK /\ FenceInv)
<1>1. Init => TypeOK /\ FenceInv
  BY TypeInit, FenceInit
<1>2. TypeOK /\ FenceInv /\ [Next]_vars => (TypeOK /\ FenceInv)'
  <2> SUFFICES ASSUME TypeOK, FenceInv, [Next]_vars PROVE TypeOK' /\ FenceInv'
    OBVIOUS
  <2>1. TypeOK'
    BY TypeStep
  <2>2. FenceInv'
    BY PreemptStep, OutsideStep, PlaceStep, RemoteStep, EndStep, UpdateStep,
       PhaseStep DEF Next, Schedule, Update
  <2> QED
    BY <2>1, <2>2
<1> QED
  BY <1>1, <1>2, PTL DEF Spec

\* Every variable of the scheduler keeps its type, for any interleaving of
\* schedule(), outputs, aborts, resets and transfers.
THEOREM TypeCorrect == Spec => []TypeOK
  BY FencesHold, PTL

\* However many batches are in flight and whichever requests end, are preempted
\* or aborted meanwhile, _free_request_blocks and _drain_deferred_frees return
\* no block to the pool that a step in flight still touches.
THEOREM FreedBlocksQuiet == Spec => []NoLateAccess
<1>1. TypeOK /\ FenceInv => NoLateAccess
  <2> SUFFICES ASSUME TypeOK, FenceInv, NEW i \in DOMAIN flight
               PROVE  flight[i].touch \cap Free = {}
    BY DEF NoLateAccess
  <2>1. i \in 1..Len(flight)
    BY TypeSeqs, LenProperties
  <2> QED
    BY <2>1, NewIsQuiet
<1> QED
  BY <1>1, FencesHold, PTL

\* A remote load never fills a block that a step in flight reads or writes.
THEOREM LoadsQuiet == Spec => []LoadTargetsQuiet
<1>1. TypeOK /\ FenceInv => LoadTargetsQuiet
  <2> SUFFICES ASSUME TypeOK, FenceInv, NEW i \in DOMAIN flight, NEW r \in Reqs,
                      status[r] = "remote"
               PROVE  held[r] \cap flight[i].touch = {}
    BY DEF LoadTargetsQuiet
  <2>1. i \in 1..Len(flight)
    BY TypeSeqs, LenProperties
  <2> QED
    BY <2>1 DEF FenceInv, RemoteQuiet
<1> QED
  BY <1>1, FencesHold, PTL

-----------------------------------------------------------------------------
(***************************************************************************)
(* The order of the fences.                                                *)
(***************************************************************************)
\* The entries of q have fences up to the step after n, none of them older by
\* more than a step than one before it.
Near(q, n) ==
    /\ \A i \in 1..Len(q) : q[i].fence <= n + 1
    /\ \A i, j \in 1..Len(q) : i < j => q[j].fence >= q[i].fence - 1

NearInv == Near(deferred, sched)

\* The fences of a deque are step numbers.
LEMMA FencesNat ==
    ASSUME NEW q \in Seq(Entries)
    PROVE  Len(q) \in Nat /\ \A i \in 1..Len(q) : q[i].fence \in Nat
<1>1. Len(q) \in Nat /\ \A i \in 1..Len(q) : q[i] \in Entries
  BY LenProperties, ElementOfSeq
<1>2. \A i \in 1..Len(q) : q[i].fence \in Nat
  BY <1>1 DEF Entries
<1> QED
  BY <1>1, <1>2

\* Newer steps only move the limit.
LEMMA NearLater ==
    ASSUME NEW q \in Seq(Entries), NEW n \in Nat, NEW m \in Nat, n <= m,
           Near(q, n)
    PROVE  Near(q, m)
<1>1. \A i \in 1..Len(q) : q[i].fence \in Nat
  BY FencesNat
<1>2. \A i \in 1..Len(q) : q[i].fence <= n + 1 => q[i].fence <= m + 1
  BY <1>1
<1> QED
  BY <1>2 DEF Near

\* An entry parked behind the newest step or the one to come.
LEMMA ParkNear ==
    ASSUME NEW q \in Seq(Entries), NEW n \in Nat, NEW f \in {n, n + 1},
           NEW C, C \subseteq Blocks, Near(q, n)
    PROVE  Near(Park(q, f, C), n)
<1> DEFINE e == [fence |-> f, blocks |-> C]
<1>1. e \in Entries /\ e.fence = f /\ f \in Nat
  BY DEF Entries
<1>2. Park(q, f, C) = IF C = {} THEN q ELSE Append(q, e)
  BY DEF Park
<1>3. Len(q) \in Nat /\ \A i \in 1..Len(q) : q[i].fence \in Nat
  BY FencesNat
<1> HIDE DEF e
<1>4. PICK p : p = Append(q, e)
  OBVIOUS
<1>5. /\ Len(p) = Len(q) + 1 /\ p[Len(q) + 1] = e
      /\ \A j \in 1..Len(q) : p[j] = q[j]
  BY <1>1, <1>4, AppendProperties
<1>6. ASSUME NEW i \in 1..Len(p)
      PROVE  p[i].fence <= n + 1
  <2>1. i \in 1..Len(q) \/ i = Len(q) + 1
    BY <1>3, <1>5
  <2> QED
    BY <1>1, <1>5, <2>1 DEF Near
<1>7. ASSUME NEW i \in 1..Len(p), NEW j \in 1..Len(p), i < j
      PROVE  p[j].fence >= p[i].fence - 1
  <2>1. i \in 1..Len(q)
    BY <1>3, <1>5, <1>7
  <2>2. CASE j \in 1..Len(q)
    BY <1>5, <1>7, <2>1, <2>2 DEF Near
  <2>3. CASE j = Len(q) + 1
    <3>1. p[j].fence = f /\ p[i].fence = q[i].fence /\ q[i].fence <= n + 1
      BY <1>1, <1>5, <2>1, <2>3 DEF Near
    <3> QED
      BY <1>1, <1>3, <2>1, <3>1
  <2> QED
    BY <1>3, <1>5, <2>2, <2>3
<1>8. Near(p, n)
  BY <1>6, <1>7 DEF Near
<1> QED
  BY <1>2, <1>4, <1>8

\* The drain takes entries from the front and leaves the order.
LEMMA DrainNear ==
    ASSUME NEW q \in Seq(Entries), NEW done \in Nat, NEW n \in Nat, Near(q, n)
    PROVE  Near(Drain(q, done), n)
<1> DEFINE Pending == {i \in DOMAIN q : q[i].fence > done}
           first   == CHOOSE i \in Pending : \A j \in Pending : i <= j
<1>1. DOMAIN q = 1..Len(q) /\ Len(q) \in Nat /\ \A i \in 1..Len(q) : q[i] \in Entries
  BY LenProperties, ElementOfSeq
<1>2. CASE Pending = {}
  <2>1. Drain(q, done) = <<>>
    BY <1>2 DEF Drain
  <2>2. ~(\E i : i \in 1..Len(Drain(q, done)))
    BY <2>1, EmptySeq
  <2> QED
    BY <2>2 DEF Near
<1>3. CASE Pending # {}
  <2>1. Drain(q, done) = SubSeq(q, first, Len(q))
    BY <1>3 DEF Drain
  <2>2. \E i \in Pending : \A j \in Pending : i <= j
    <3>1. Pending \subseteq Nat
      BY <1>1
    <3> QED
      BY <1>3, <3>1, Smallest
  <2>3. first \in 1..Len(q) /\ first \in Int /\ Len(q) \in Int
    <3>1. first \in Pending
      BY <2>2
    <3> QED
      BY <1>1, <3>1
  <2> HIDE DEF first, Pending
  <2>4. \A i \in first..Len(q) : q[i] \in Entries
    BY <1>1, <2>3
  <2>5. PICK p : p = SubSeq(q, first, Len(q))
    OBVIOUS
  <2>6. /\ Len(p) = Len(q) - first + 1
        /\ \A i \in 1..(Len(q) - first + 1) : p[i] = q[first + i - 1]
    BY <2>3, <2>4, <2>5, SubSeqProperties
  <2>7. \A i \in 1..Len(p) : i \in Int /\ first + i - 1 \in 1..Len(q)
    BY <1>1, <2>3, <2>6
  <2>8. \A i \in 1..Len(p) : p[i].fence <= n + 1
    BY <2>6, <2>7 DEF Near
  <2>9. ASSUME NEW i \in 1..Len(p), NEW j \in 1..Len(p), i < j
        PROVE  p[j].fence >= p[i].fence - 1
    <3>1. first + i - 1 < first + j - 1
      BY <2>3, <2>7, <2>9
    <3> QED
      BY <2>6, <2>7, <3>1 DEF Near
  <2> QED
    BY <2>1, <2>5, <2>8, <2>9 DEF Near
<1> QED
  BY <1>2, <1>3

\* A release parks its blocks behind the newest step.
LEMMA ReleaseNear ==
    ASSUME TypeOK, NEW F, F \subseteq Reqs, NEW q \in Seq(Entries), NEW done,
           FreeRequestBlocks(F, q, done), Near(q, sched)
    PROVE  Near(deferred', sched)
<1> DEFINE Late == {r \in F : MustWait(r, done)}
           C    == UNION {held[r] : r \in Late}
<1>1. deferred' = IF Late = {} THEN q ELSE Park(q, sched, C)
  BY DEF FreeRequestBlocks, Fence
<1>2. C \subseteq Blocks /\ sched \in Nat
  BY DEF TypeOK
<1> HIDE DEF Late, C
<1>3. Near(Park(q, sched, C), sched)
  BY <1>2, ParkNear
<1> QED
  BY <1>1, <1>3

\* Every step keeps the order of the fences.
LEMMA NearStep ==
    ASSUME TypeOK, NearInv, [Next]_vars
    PROVE  NearInv'
<1>1. /\ deferred \in Seq(Entries) /\ sched \in Nat /\ processed \in Nat
      /\ Near(deferred, sched)
  BY TypeSeqs DEF TypeOK, NearInv
<1>2. CASE UNCHANGED <<deferred, sched>>
  BY <1>2 DEF NearInv, Near
<1>3. CASE EndSchedule
  <2>1. /\ deferred' = Park(deferred, sched + 1, cur.copies)
        /\ sched' \in {sched, sched + 1}
    BY <1>3 DEF EndSchedule, CopyFence
  <2>2. cur.copies \subseteq Blocks /\ sched + 1 \in Nat
    BY DEF TypeOK
  <2>3. deferred' \in Seq(Entries)
    BY <1>1, <2>1, <2>2, ParkFacts
  <2>4. Near(deferred', sched)
    BY <1>1, <2>1, <2>2, ParkNear
  <2>5. Near(deferred', sched')
    BY <1>1, <2>1, <2>2, <2>3, <2>4, NearLater
  <2> QED
    BY <2>5 DEF NearInv, Near
<1>4. ASSUME NEW F, F \subseteq Reqs, NEW q \in Seq(Entries), NEW done,
             FreeRequestBlocks(F, q, done), Near(q, sched), sched' = sched
      PROVE  NearInv'
  <2>1. Near(deferred', sched')
    BY <1>4, ReleaseNear
  <2> QED
    BY <2>1 DEF NearInv, Near
<1>5. ASSUME NEW q \in Reqs, NEW v \in Reqs, Preempt(q, v)
      PROVE  NearInv'
  BY <1>1, <1>4, <1>5 DEF Preempt
<1>6. CASE ForceReset
  BY <1>1, <1>4, <1>6 DEF ForceReset, Running
<1>7. ASSUME NEW r \in Reqs, NEW kept \in BOOLEAN, FinishRequest(r, kept)
      PROVE  NearInv'
  <2>1. PICK F \in {{}, {r}} : FreeRequestBlocks(F, deferred, processed)
    BY <1>7 DEF FinishRequest
  <2> QED
    BY <1>1, <1>4, <1>7, <2>1 DEF FinishRequest
<1>8. ASSUME NEW F \in SUBSET Reqs, NEW Z \in SUBSET Reqs, NEW D \in SUBSET Reqs,
             UpdateFromOutput(F, Z, D)
      PROVE  NearInv'
  <2> DEFINE n == Processed(Head(flight))
             G == (F \ Z) \cup {r \in D : status[r] = "zombie"}
             q == IF Head(flight).reqs = {} THEN deferred ELSE Drain(deferred, n)
  <2>1. n \in Nat
    BY <1>1 DEF Processed
  <2>2. FreeRequestBlocks(G, q, n) /\ sched' = sched
    BY <1>8 DEF UpdateFromOutput
  <2>3. q \in Seq(Entries) /\ Near(q, sched)
    BY <1>1, <2>1, DrainFacts, DrainNear
  <2>4. G \subseteq Reqs
    OBVIOUS
  <2> HIDE DEF n, G, q
  <2>5. PICK g, d, k : g = G /\ d = q /\ k = n
    OBVIOUS
  <2> QED
    BY <1>4, <2>2, <2>3, <2>4, <2>5
<1>9. CASE Schedule
  <2>1. CASE BeginSchedule
    BY <1>2, <2>1 DEF BeginSchedule, fences
  <2>2. ASSUME NEW r \in Reqs, NEW New, NEW copied, ScheduleRunning(r, New, copied)
        PROVE  NearInv'
    BY <1>2, <2>2 DEF ScheduleRunning, fences
  <2>3. ASSUME NEW r \in Reqs, NEW New, NEW copied, ScheduleWaiting(r, New, copied)
        PROVE  NearInv'
    BY <1>2, <2>3 DEF ScheduleWaiting, fences
  <2>4. ASSUME NEW r \in Reqs, NEW New, AdmitRemote(r, New) PROVE NearInv'
    BY <1>2, <2>4 DEF AdmitRemote, fences
  <2>5. ASSUME NEW r \in Reqs, NEW failed, PromoteRemote(r, failed) PROVE NearInv'
    BY <1>2, <2>5 DEF PromoteRemote, fences
  <2>6. CASE ToWaiting
    BY <1>2, <2>6 DEF ToWaiting, fences
  <2> QED
    BY <1>3, <1>5, <1>9, <2>1, <2>2, <2>3, <2>4, <2>5, <2>6 DEF Schedule
<1>10. CASE UNCHANGED vars
  BY <1>2, <1>10 DEF vars, fences
<1> QED
  BY <1>6, <1>7, <1>8, <1>9, <1>10 DEF Next, Update

\* The order that _drain_deferred_frees relies on when it stops at the first
\* pending fence: no fence is behind one that is newer by more than a step.
THEOREM FencesInOrder == Spec => []NearMonotone
<1>1. Init => NearInv
  BY EmptySeq DEF Init, NearInv, Near
<1>2. TypeOK /\ NearInv /\ [Next]_vars => NearInv'
  BY NearStep
<1>3. TypeOK /\ NearInv => NearMonotone
  <2> SUFFICES ASSUME TypeOK, NearInv PROVE NearMonotone
    OBVIOUS
  <2>1. DOMAIN deferred = 1..Len(deferred)
    BY TypeSeqs, LenProperties
  <2> QED
    BY <2>1 DEF NearInv, Near, NearMonotone
<1> QED
  BY <1>1, <1>2, <1>3, TypeCorrect, PTL DEF Spec

-----------------------------------------------------------------------------
(***************************************************************************)
(* Every parked release is awaited.  The deque drains only from its front  *)
(* and only when an output is processed, so an entry is let go in the end  *)
(* only if the step its fence names is under way, and the entries behind   *)
(* it wait for no more than that.                                          *)
(***************************************************************************)
\* Every number past the processed ones is that of a step in flight.
UnderWay(f) == \E i \in 1..Len(flight) : flight[i].reqs # {} /\ flight[i].seq = f

StepsUnderWay == \A f \in Nat : processed < f /\ f <= sched => UnderWay(f)

\* The entry in front of q waits for a step that is not processed.
FrontWaits(q, done) == Len(q) > 0 => q[1].fence > done

\* No request ran in a step that was not scheduled.
LastOK == \A r \in Reqs : lastSeq[r] <= sched

AwaitInv == LastOK /\ StepsUnderWay /\ FrontWaits(deferred, processed)

\* What _drain_deferred_frees stops at is a step in flight, or the next step to
\* be scheduled, which the copies parked in an empty step wait for.
FrontAwaited ==
    deferred # <<>> =>
        /\ Head(deferred).fence > processed
        /\ Head(deferred).fence = sched + 1 \/ UnderWay(Head(deferred).fence)

\* A release is held back by the entries before it for one step at the most.
NotOverdue == \A i \in DOMAIN deferred : deferred[i].fence >= processed

\* The drain stops at a pending fence.
LEMMA DrainFront ==
    ASSUME NEW q \in Seq(Entries), NEW done \in Nat
    PROVE  FrontWaits(Drain(q, done), done)
<1> DEFINE Pending == {i \in DOMAIN q : q[i].fence > done}
           first   == CHOOSE i \in Pending : \A j \in Pending : i <= j
<1>1. DOMAIN q = 1..Len(q) /\ Len(q) \in Nat /\ \A i \in 1..Len(q) : q[i] \in Entries
  BY LenProperties, ElementOfSeq
<1>2. CASE Pending = {}
  <2>1. Drain(q, done) = <<>> /\ Len(<<>>) = 0
    BY <1>2 DEF Drain
  <2> QED
    BY <2>1 DEF FrontWaits
<1>3. CASE Pending # {}
  <2>1. Drain(q, done) = SubSeq(q, first, Len(q))
    BY <1>3 DEF Drain
  <2>2. \E i \in Pending : \A j \in Pending : i <= j
    <3>1. Pending \subseteq Nat
      BY <1>1
    <3> QED
      BY <1>3, <3>1, Smallest
  <2>3. first \in 1..Len(q) /\ first \in Int /\ Len(q) \in Int /\ q[first].fence > done
    <3>1. first \in Pending
      BY <2>2
    <3> QED
      BY <1>1, <3>1
  <2> HIDE DEF first, Pending
  <2>4. \A i \in first..Len(q) : q[i] \in Entries
    BY <1>1, <2>3
  <2>5. PICK p : p = SubSeq(q, first, Len(q))
    OBVIOUS
  <2>6. \A i \in 1..(Len(q) - first + 1) : p[i] = q[first + i - 1]
    BY <2>3, <2>4, <2>5, SubSeqProperties
  <2>7. 1 \in 1..(Len(q) - first + 1) /\ first + 1 - 1 = first
    BY <2>3
  <2>8. p[1] = q[first]
    BY <2>6, <2>7
  <2> QED
    BY <2>1, <2>3, <2>5, <2>8 DEF FrontWaits
<1> QED
  BY <1>2, <1>3

\* An entry parked behind a pending step leaves a pending fence in front.
LEMMA ParkFront ==
    ASSUME NEW q \in Seq(Entries), NEW done \in Nat, NEW f \in Nat, f > done,
           NEW C, C \subseteq Blocks, FrontWaits(q, done)
    PROVE  FrontWaits(Park(q, f, C), done)
<1> DEFINE e == [fence |-> f, blocks |-> C]
<1>1. e \in Entries /\ e.fence = f
  BY DEF Entries
<1>2. Park(q, f, C) = IF C = {} THEN q ELSE Append(q, e)
  BY DEF Park
<1> HIDE DEF e
<1>3. PICK p : p = Append(q, e)
  OBVIOUS
<1>4. /\ Len(q) \in Nat /\ Len(p) = Len(q) + 1 /\ p[Len(q) + 1] = e
      /\ \A j \in 1..Len(q) : p[j] = q[j]
  BY <1>1, <1>3, AppendProperties, LenProperties
<1>5. p[1].fence > done
  <2>1. CASE Len(q) = 0
    BY <1>1, <1>4, <2>1
  <2>2. CASE Len(q) > 0
    <3>1. 1 \in 1..Len(q)
      BY <1>4, <2>2
    <3> QED
      BY <1>4, <2>2, <3>1 DEF FrontWaits
  <2> QED
    BY <1>4, <2>1, <2>2
<1> QED
  BY <1>2, <1>3, <1>5 DEF FrontWaits

\* A release parks blocks only for a request that a pending step ran, so the
\* newest step, its fence, is pending too.
LEMMA ReleaseFront ==
    ASSUME TypeOK, LastOK, NEW F, F \subseteq Reqs, NEW q \in Seq(Entries),
           NEW done \in Nat, FreeRequestBlocks(F, q, done), FrontWaits(q, done)
    PROVE  FrontWaits(deferred', done)
<1> DEFINE Late == {r \in F : MustWait(r, done)}
           C    == UNION {held[r] : r \in Late}
<1>1. deferred' = IF Late = {} THEN q ELSE Park(q, sched, C)
  BY DEF FreeRequestBlocks, Fence
<1>2. C \subseteq Blocks /\ sched \in Nat
  BY DEF TypeOK
<1>3. ASSUME NEW r \in Late PROVE sched > done
  <2>1. r \in Reqs /\ lastSeq[r] > done
    BY DEF MustWait
  <2>2. lastSeq[r] \in Nat /\ lastSeq[r] <= sched
    BY <2>1 DEF TypeOK, LastOK
  <2> QED
    BY <1>2, <2>1, <2>2
<1> HIDE DEF Late, C
<1>4. CASE Late = {}
  BY <1>1, <1>4
<1>5. CASE Late # {}
  <2>1. sched > done
    BY <1>3, <1>5
  <2>2. FrontWaits(Park(q, sched, C), done)
    BY <1>2, <2>1, ParkFront
  <2> QED
    BY <1>1, <1>5, <2>2
<1> QED
  BY <1>4, <1>5

\* A step that schedules nothing and takes no output.
LEMMA AwaitKept ==
    ASSUME AwaitInv, UNCHANGED <<lastSeq, sched, processed, flight>>,
           FrontWaits(deferred', processed)
    PROVE  AwaitInv'
<1>1. LastOK'
  BY DEF AwaitInv, LastOK
<1>2. StepsUnderWay'
  BY DEF AwaitInv, StepsUnderWay, UnderWay
<1>3. FrontWaits(deferred, processed)'
  BY DEF FrontWaits
<1> QED
  BY <1>1, <1>2, <1>3 DEF AwaitInv

\* A scheduled step takes the next number and is in flight.
LEMMA AwaitEnd ==
    ASSUME TypeOK, FenceInv, AwaitInv, EndSchedule
    PROVE  AwaitInv'
<1> DEFINE n == IF cur.reqs = {} THEN sched ELSE sched + 1
           s == [seq |-> n, reqs |-> cur.reqs,
                 touch |-> cur.copies \cup UNION {held[r] : r \in cur.reqs}]
<1>1. /\ sched' = n /\ deferred' = Park(deferred, sched + 1, cur.copies)
      /\ lastSeq' = [r \in Reqs |-> IF r \in cur.reqs THEN n ELSE lastSeq[r]]
      /\ flight' = Append(flight, s)
      /\ processed' = processed
  BY DEF EndSchedule, CopyFence
<1>2. /\ deferred \in Seq(Entries) /\ flight \in Seq(Steps) /\ Len(flight) \in Nat
      /\ sched \in Nat /\ processed \in Nat /\ cur.copies \subseteq Blocks
      /\ cur.reqs \subseteq Reqs /\ sched + 1 \in Nat /\ n \in Nat
      /\ lastSeq \in [Reqs -> Nat] /\ processed <= sched
  BY TypeSeqs DEF TypeOK, FenceInv, SeqOK
<1>3. s \in Steps
  BY <1>2 DEF Steps, TypeOK
<1>4. /\ Len(flight') = Len(flight) + 1
      /\ \A i \in 1..Len(flight) : flight'[i] = flight[i]
      /\ flight'[Len(flight) + 1] = s
  BY <1>1, <1>2, <1>3, AppendProperties
<1>5. s.seq = n /\ s.reqs = cur.reqs /\ sched <= n
  BY <1>2
<1>6. n # sched => n = sched + 1 /\ cur.reqs # {}
  OBVIOUS
<1> HIDE DEF s, n
<1>7. LastOK'
  <2> SUFFICES ASSUME NEW r \in Reqs PROVE lastSeq'[r] <= sched'
    BY DEF LastOK
  <2>1. lastSeq[r] \in Nat /\ lastSeq[r] <= sched
    BY <1>2 DEF AwaitInv, LastOK
  <2>2. lastSeq'[r] = n \/ lastSeq'[r] = lastSeq[r]
    BY <1>1
  <2> QED
    BY <1>1, <1>2, <1>5, <2>1, <2>2
<1>8. StepsUnderWay'
  <2> SUFFICES ASSUME NEW f \in Nat, processed < f, f <= n
               PROVE  UnderWay(f)'
    BY <1>1 DEF StepsUnderWay
  <2>1. CASE f <= sched
    <3>1. PICK i \in 1..Len(flight) : flight[i].reqs # {} /\ flight[i].seq = f
      BY <2>1 DEF AwaitInv, StepsUnderWay, UnderWay
    <3>2. i \in 1..Len(flight') /\ flight'[i] = flight[i]
      BY <1>2, <1>4
    <3> QED
      BY <3>1, <3>2 DEF UnderWay
  <2>2. CASE f > sched
    <3>1. n # sched
      BY <1>2, <2>2
    <3>2. f = n /\ cur.reqs # {}
      BY <1>2, <1>6, <2>2, <3>1
    <3>3. Len(flight) + 1 \in 1..Len(flight')
      BY <1>2, <1>4
    <3> QED
      BY <1>4, <1>5, <3>2, <3>3 DEF UnderWay
  <2> QED
    BY <1>2, <2>1, <2>2
<1>9. FrontWaits(deferred, processed)'
  <2>1. sched + 1 > processed /\ FrontWaits(deferred, processed)
    BY <1>2 DEF AwaitInv
  <2>2. FrontWaits(Park(deferred, sched + 1, cur.copies), processed)
    BY <1>2, <2>1, ParkFront
  <2>3. PICK d : d = Park(deferred, sched + 1, cur.copies) /\ FrontWaits(d, processed)
    BY <2>2
  <2> QED
    BY <1>1, <2>3 DEF FrontWaits
<1> QED
  BY <1>7, <1>8, <1>9 DEF AwaitInv

\* The step in front of a non-empty batch queue has the next number.
LEMMA NextInFront ==
    ASSUME TypeOK, FenceInv, AwaitInv, flight # <<>>, flight[1].reqs # {}
    PROVE  flight[1].seq = processed + 1
<1>1. /\ Len(flight) \in Nat /\ 1 \in 1..Len(flight)
      /\ \A i \in 1..Len(flight) : flight[i].seq \in Nat
      /\ sched \in Nat /\ processed \in Nat
  BY TypeSeqs, EmptySeq DEF TypeOK, Steps
<1>2. /\ flight[1].seq <= sched /\ processed < flight[1].seq
  BY <1>1 DEF FenceInv, SeqOK, Due
<1>3. PICK i \in 1..Len(flight) : flight[i].reqs # {} /\ flight[i].seq = processed + 1
  <2>1. processed + 1 \in Nat /\ processed < processed + 1 /\ processed + 1 <= sched
    BY <1>1, <1>2
  <2> QED
    BY <2>1 DEF AwaitInv, StepsUnderWay, UnderWay
<1>4. CASE 1 < i
  <2>1. flight[1].seq < flight[i].seq
    BY <1>1, <1>3, <1>4 DEF FenceInv, SeqOK, Due
  <2> QED
    BY <1>1, <1>2, <1>3, <2>1
<1> QED
  BY <1>1, <1>3, <1>4

\* An output retires the number it was awaited for and no other.
LEMMA AwaitUpdate ==
    ASSUME TypeOK, FenceInv, AwaitInv,
           NEW F \in SUBSET Reqs, NEW Z \in SUBSET Reqs, NEW D \in SUBSET Reqs,
           UpdateFromOutput(F, Z, D)
    PROVE  AwaitInv'
<1> DEFINE n    == Processed(Head(flight))
           Gone == (F \ Z) \cup {r \in D : status[r] = "zombie"}
           q    == IF Head(flight).reqs = {} THEN deferred ELSE Drain(deferred, n)
<1>1. /\ FreeRequestBlocks(Gone, q, n) /\ Gone \subseteq Reqs /\ processed' = n
      /\ flight' = Tail(flight) /\ flight # <<>>
      /\ UNCHANGED <<lastSeq, sched>>
  BY DEF UpdateFromOutput
<1>2. /\ deferred \in Seq(Entries) /\ flight \in Seq(Steps) /\ Len(flight) \in Nat
      /\ sched \in Nat /\ processed \in Nat
      /\ \A i \in 1..Len(flight) : flight[i].seq \in Nat
  BY TypeSeqs DEF TypeOK, Steps
<1>3. /\ Len(flight') = Len(flight) - 1 /\ Head(flight) = flight[1]
      /\ \A i \in 1..Len(flight') : flight'[i] = flight[i + 1]
      /\ 1 \in 1..Len(flight)
  BY <1>1, <1>2, HeadTailProperties, EmptySeq
<1>4. n \in Nat /\ q \in Seq(Entries)
  BY <1>2, DrainFacts DEF Processed
<1>5. n = IF flight[1].reqs = {} THEN processed ELSE processed + 1
  BY <1>3 DEF Processed
<1>6. FrontWaits(q, n)
  <2>1. CASE Head(flight).reqs = {}
    BY <2>1 DEF AwaitInv, Processed
  <2>2. CASE Head(flight).reqs # {}
    BY <1>2, <1>4, <2>2, DrainFront
  <2> QED
    BY <2>1, <2>2
<1> HIDE DEF n, q, Gone
<1>7. FrontWaits(deferred', n)
  BY <1>1, <1>4, <1>6, ReleaseFront DEF AwaitInv
<1>8. FrontWaits(deferred, processed)'
  BY <1>1, <1>7 DEF FrontWaits
<1>9. LastOK'
  BY <1>1 DEF AwaitInv, LastOK
<1>10. StepsUnderWay'
  <2> SUFFICES ASSUME NEW f \in Nat, n < f, f <= sched
               PROVE  UnderWay(f)'
    BY <1>1 DEF StepsUnderWay
  <2>1. processed < f
    BY <1>2, <1>5
  <2>2. PICK i \in 1..Len(flight) : flight[i].reqs # {} /\ flight[i].seq = f
    BY <2>1 DEF AwaitInv, StepsUnderWay, UnderWay
  <2>3. i # 1
    <3> SUFFICES ASSUME i = 1 PROVE FALSE
      OBVIOUS
    <3>1. flight[1].seq = processed + 1 /\ n = processed + 1
      BY <1>1, <1>5, <2>2, NextInFront
    <3> QED
      BY <1>2, <2>2, <3>1
  <2>4. PICK k : k = i - 1
    OBVIOUS
  <2>5. k \in 1..Len(flight') /\ i = k + 1
    BY <1>2, <1>3, <2>3, <2>4
  <2>6. flight'[k] = flight[i]
    BY <1>3, <2>5
  <2> QED
    BY <2>2, <2>5, <2>6 DEF UnderWay
<1> QED
  BY <1>8, <1>9, <1>10 DEF AwaitInv

\* Every step keeps every release awaited.
LEMMA AwaitStep ==
    ASSUME TypeOK, FenceInv, AwaitInv, [Next]_vars
    PROVE  AwaitInv'
<1>1. /\ deferred \in Seq(Entries) /\ processed \in Nat
      /\ FrontWaits(deferred, processed) /\ LastOK
  BY TypeSeqs DEF TypeOK, AwaitInv
<1>2. CASE UNCHANGED <<lastSeq, fences, flight>>
  BY <1>1, <1>2, AwaitKept DEF fences
<1>3. ASSUME NEW F, F \subseteq Reqs, FreeRequestBlocks(F, deferred, processed),
             UNCHANGED <<lastSeq, sched, processed, flight>>
      PROVE  AwaitInv'
  BY <1>1, <1>3, ReleaseFront, AwaitKept
<1>4. ASSUME NEW q \in Reqs, NEW v \in Reqs, Preempt(q, v)
      PROVE  AwaitInv'
  BY <1>3, <1>4 DEF Preempt
<1>5. CASE ForceReset
  BY <1>3, <1>5 DEF ForceReset, Running
<1>6. ASSUME NEW r \in Reqs, NEW kept \in BOOLEAN, FinishRequest(r, kept)
      PROVE  AwaitInv'
  <2>1. PICK F \in {{}, {r}} : FreeRequestBlocks(F, deferred, processed)
    BY <1>6 DEF FinishRequest
  <2> QED
    BY <1>3, <1>6, <2>1 DEF FinishRequest
<1>7. CASE Update
  BY <1>7, AwaitUpdate DEF Update
<1>8. CASE Schedule
  <2>1. CASE BeginSchedule
    BY <1>2, <2>1 DEF BeginSchedule, requests
  <2>2. ASSUME NEW r \in Reqs, NEW New, NEW copied, ScheduleRunning(r, New, copied)
        PROVE  AwaitInv'
    BY <1>2, <2>2 DEF ScheduleRunning
  <2>3. ASSUME NEW r \in Reqs, NEW New, NEW copied, ScheduleWaiting(r, New, copied)
        PROVE  AwaitInv'
    BY <1>2, <2>3 DEF ScheduleWaiting
  <2>4. ASSUME NEW r \in Reqs, NEW New, AdmitRemote(r, New) PROVE AwaitInv'
    BY <1>2, <2>4 DEF AdmitRemote
  <2>5. ASSUME NEW r \in Reqs, NEW failed, PromoteRemote(r, failed) PROVE AwaitInv'
    BY <1>2, <2>5 DEF PromoteRemote
  <2>6. CASE ToWaiting
    BY <1>2, <2>6 DEF ToWaiting, requests
  <2> QED
    BY <1>4, <1>8, <2>1, <2>2, <2>3, <2>4, <2>5, <2>6, AwaitEnd DEF Schedule
<1>9. CASE UNCHANGED vars
  BY <1>2, <1>9 DEF vars, requests
<1> QED
  BY <1>5, <1>6, <1>7, <1>8, <1>9 DEF Next

\* The release in front of the deque waits for a step that is in flight, or for
\* the next one, and those behind it for one step more at the most: whatever
\* finishes, is preempted, aborted or reset, no block is parked for good.
THEOREM ReleasesAwaited == Spec => [](FrontAwaited /\ NotOverdue)
<1>1. Init => NearInv /\ AwaitInv
  <2> SUFFICES ASSUME Init PROVE NearInv /\ AwaitInv
    OBVIOUS
  <2>1. Len(deferred) = 0 /\ sched = 0 /\ processed = 0
    BY DEF Init
  <2>2. NearInv
    BY <2>1 DEF NearInv, Near
  <2>3. LastOK
    BY <2>1 DEF Init, LastOK
  <2>4. StepsUnderWay
    BY <2>1 DEF StepsUnderWay
  <2> QED
    BY <2>1, <2>2, <2>3, <2>4 DEF AwaitInv, FrontWaits
<1>2. TypeOK /\ FenceInv /\ NearInv /\ AwaitInv /\ [Next]_vars => (NearInv /\ AwaitInv)'
  BY NearStep, AwaitStep
<1>3. TypeOK /\ NearInv /\ AwaitInv => FrontAwaited /\ NotOverdue
  <2> SUFFICES ASSUME TypeOK, NearInv, AwaitInv PROVE FrontAwaited /\ NotOverdue
    OBVIOUS
  <2>1. /\ DOMAIN deferred = 1..Len(deferred) /\ Len(deferred) \in Nat
        /\ \A i \in 1..Len(deferred) : deferred[i].fence \in Nat
        /\ sched \in Nat /\ processed \in Nat
    BY TypeSeqs, LenProperties, FencesNat DEF TypeOK
  <2>2. ASSUME Len(deferred) > 0
        PROVE  /\ 1 \in 1..Len(deferred) /\ deferred[1].fence > processed
               /\ deferred[1].fence <= sched + 1
    BY <2>1, <2>2 DEF AwaitInv, FrontWaits, NearInv, Near
  <2>3. FrontAwaited
    <3> SUFFICES ASSUME deferred # <<>> PROVE FrontAwaited
      BY DEF FrontAwaited
    <3>1. Len(deferred) > 0 /\ Head(deferred) = deferred[1]
      BY <2>1, TypeSeqs, EmptySeq, HeadTailProperties
    <3>2. PICK f : f = deferred[1].fence
      OBVIOUS
    <3>3. f \in Nat /\ f > processed /\ f <= sched + 1
      BY <2>1, <2>2, <3>1, <3>2
    <3>4. f = sched + 1 \/ UnderWay(f)
      BY <2>1, <3>3 DEF AwaitInv, StepsUnderWay
    <3> QED
      BY <3>1, <3>2, <3>3, <3>4 DEF FrontAwaited
  <2>4. ASSUME NEW i \in 1..Len(deferred) PROVE deferred[i].fence >= processed
    <3>1. Len(deferred) > 0
      BY <2>1
    <3>2. 1 \in 1..Len(deferred) /\ deferred[1].fence > processed
      BY <2>2, <3>1
    <3>3. CASE 1 < i
      <4>1. deferred[i].fence >= deferred[1].fence - 1
        BY <3>2, <3>3 DEF NearInv, Near
      <4> QED
        BY <2>1, <3>2, <4>1
    <3>4. CASE i = 1
      BY <2>1, <3>2, <3>4
    <3> QED
      BY <3>3, <3>4
  <2> QED
    BY <2>1, <2>3, <2>4 DEF NotOverdue
<1> QED
  BY <1>1, <1>2, <1>3, FencesHold, PTL DEF Spec
=============================================================================
