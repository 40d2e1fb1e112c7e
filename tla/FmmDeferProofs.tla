--------------------------- MODULE FmmDeferProofs ---------------------------
(***************************************************************************)
(* Proofs about FmmDefer for every set of areas and apertures, every size  *)
(* and both limits.                                                        *)
(***************************************************************************)
EXTENDS FmmDefer, TLAPS, SequenceTheorems

(***************************************************************************)
(* The inductive invariant.  FifoConsistent alone is not inductive: to     *)
(* know what deferred_bytes becomes when the oldest entry leaves, one must *)
(* know that the bytes held since an entry's park and since its            *)
(* successor's differ by the entry's size, all along the FIFO.             *)
(***************************************************************************)
FifoInv(a) ==
  LET f == fifo[a] IN
  /\ \A i \in 1..Len(f) : /\ f[i] \in tree
                          /\ deferred[f[i]]
                          /\ ApertureOf[f[i]] = a
  /\ \A v \in tree : deferred[v] /\ ApertureOf[v] = a
                       => \E i \in 1..Len(f) : f[i] = v
  /\ \A i, j \in 1..Len(f) : f[i] = f[j] => i = j

CountInv(a) ==
  LET f == fifo[a] IN
  /\ len[a] = Len(f)
  /\ bytes[a] = IF Len(f) > 0 THEN held[f[1]] ELSE 0
  /\ \A i \in 1..Len(f) : frees[f[i]] = Len(f) - i
  /\ \A i \in 1..Len(f) :
       held[f[i]] = Size[f[i]] + (IF i < Len(f) THEN held[f[i + 1]] ELSE 0)

(* Outside the scratch apertures an object in the tree has all its BOs.    *)
OwnsBOs == \A v \in tree : ApertureOf[v] \notin Scratch => live[v] = Handles

(* The FIFO of a scratch aperture is empty.                                *)
ScratchEmpty == \A v \in tree : deferred[v] => ApertureOf[v] \notin Scratch

IInv ==
  /\ \A a \in Apertures : FifoInv(a) /\ CountInv(a)
  /\ \A a \in Apertures : ~draining[a] => ~OverLimit(a)
  /\ ReservedWhileObject
  /\ OwnsBOs
  /\ ScratchEmpty
  /\ NoOrphanBO

-----------------------------------------------------------------------------
(* What appending to and taking the head off a FIFO does, index by index.  *)
LEMMA AppendFacts ==
  ASSUME NEW S, NEW s \in Seq(S), NEW e \in S
  PROVE  /\ Append(s, e) \in Seq(S)
         /\ Len(Append(s, e)) = Len(s) + 1
         /\ \A i \in 1..Len(s) : Append(s, e)[i] = s[i]
         /\ Append(s, e)[Len(s) + 1] = e
         /\ Append(s, e) # << >>
  BY AppendProperties

\* A sequence without its first entry.
LEMMA TailFacts ==
  ASSUME NEW S, NEW s \in Seq(S), s # << >>
  PROVE  /\ Tail(s) \in Seq(S)
         /\ Len(s) \in Nat \ {0}
         /\ Len(Tail(s)) = Len(s) - 1
         /\ \A i \in 1..(Len(s) - 1) : Tail(s)[i] = s[i + 1]
         /\ Head(s) = s[1]
         /\ s[1] \in S
  <1>1. Len(s) \in Nat \ {0}
    BY EmptySeq, LenProperties
  <1>2. Tail(s) \in Seq(S) /\ Len(Tail(s)) = Len(s) - 1
        /\ Head(s) = s[1]
        /\ \A i \in 1..(Len(s) - 1) : Tail(s)[i] = s[i + 1]
    BY <1>1, HeadTailProperties
  <1>3. s[1] \in S
    BY <1>1, ElementOfSeq
  <1> QED
    BY <1>1, <1>2, <1>3

(***************************************************************************)
(* Every variable keeps its type, in particular the unsigned counters      *)
(* never wrap below zero: deferred_bytes is only reduced by what it was    *)
(* increased by.  The last part needs the accounting of CountInv.          *)
(***************************************************************************)
LEMMA InitTypes == Init => TypeOK
  <1> SUFFICES ASSUME Init PROVE TypeOK
    OBVIOUS
  <1>1. fifo \in [Apertures -> Seq(Areas)]
    BY EmptySeq DEF Init
  <1>2. /\ len \in [Apertures -> Nat] /\ bytes \in [Apertures -> Nat]
        /\ frees \in [Areas -> Nat] /\ held \in [Areas -> Nat]
    BY DEF Init
  <1>3. /\ deferred \in [Areas -> BOOLEAN] /\ draining \in [Apertures -> BOOLEAN]
        /\ faulted \in BOOLEAN /\ exiting \in BOOLEAN
    BY DEF Init
  <1>4. live \in [Areas -> SUBSET Handles] /\ mapped \in [Areas -> SUBSET Handles]
    BY DEF Init
  <1> QED
    BY <1>1, <1>2, <1>3, <1>4 DEF Init, TypeOK

\* What is parked are the entries of the FIFO.
LEMMA ParkedInAreas ==
  ASSUME TypeOK, NEW a \in Apertures
  PROVE  /\ Parked(a) \subseteq Areas
         /\ \A v : v \in Parked(a) <=> \E i \in 1..Len(fifo[a]) : fifo[a][i] = v
  <1>1. fifo[a] \in Seq(Areas)
    BY DEF TypeOK
  <1> QED
    BY <1>1, ElementOfSeq DEF Parked

\* Every step keeps the types.
LEMMA StepTypes ==
  ASSUME TypeOK, IInv, [Next]_vars
  PROVE  TypeOK'
  <1> USE AreaAssumption, LimitAssumption
  <1>1. ASSUME NEW v \in Areas, Allocate(v) PROVE TypeOK'
    BY <1>1 DEF TypeOK, Allocate
  <1>2. ASSUME NEW v \in Areas, MapToGPU(v) PROVE TypeOK'
    BY <1>2 DEF TypeOK, MapToGPU, Releasable, fmmVars, histVars
  <1>3. ASSUME NEW v \in Areas, UnmapFromGPU(v) PROVE TypeOK'
    <2>1. mapped' \in [Areas -> SUBSET Handles]
      BY <1>3 DEF TypeOK, UnmapFromGPU, StillMapped
    <2>2. faulted' \in BOOLEAN
      BY <1>3 DEF TypeOK, UnmapFromGPU
    <2> QED
      BY <1>3, <2>1, <2>2 DEF TypeOK, UnmapFromGPU, Releasable, fmmVars, histVars
  <1>4. ASSUME NEW v \in Areas, ReleaseAgain(v) PROVE TypeOK'
    BY <1>4 DEF TypeOK, ReleaseAgain, vars, fmmVars, kfdVars, histVars
  <1>5. ASSUME NEW v \in Areas, ReleaseScratch(v) PROVE TypeOK'
    <2>1. live' \in [Areas -> SUBSET Handles]
      BY <1>5 DEF TypeOK, ReleaseScratch, BoFree
    <2>2. faulted' \in BOOLEAN
      BY <1>5 DEF TypeOK, ReleaseScratch
    <2>3. reserved' \subseteq Areas /\ tree' \subseteq Areas /\ orphan' \subseteq Areas
      BY <1>5 DEF TypeOK, ReleaseScratch, DropObject
    <2>4. mapped' \in [Areas -> SUBSET Handles]
      BY <1>5, <2>1 DEF TypeOK, ReleaseScratch
    <2> QED
      BY <1>5, <2>1, <2>2, <2>3, <2>4 DEF TypeOK, ReleaseScratch
  <1>6. ASSUME NEW v \in Areas, ReleasePark(v) PROVE TypeOK'
    <2> DEFINE a == ApertureOf[v]
    <2>1. fifo' \in [Apertures -> Seq(Areas)]
      BY <1>6, AppendFacts DEF TypeOK, ReleasePark
    <2>2. len' \in [Apertures -> Nat] /\ bytes' \in [Apertures -> Nat]
      BY <1>6 DEF TypeOK, ReleasePark
    <2>3. frees' \in [Areas -> Nat] /\ held' \in [Areas -> Nat]
      <3>1. ASSUME NEW w \in Areas
            PROVE  /\ frees[w] \in Nat /\ frees[w] + 1 \in Nat
                   /\ Size[v] \in Nat /\ held[w] \in Nat /\ held[w] + Size[v] \in Nat
        <4>1. frees[w] \in Nat /\ held[w] \in Nat
          BY <3>1 DEF TypeOK
        <4>2. Size[v] \in Nat
          BY <1>6, AreaAssumption
        <4> QED
          BY <4>1, <4>2
      <3>2. frees' \in [Areas -> Nat]
        <4>1. frees' = [w \in Areas |->
                          IF w = v THEN 0
                          ELSE IF w \in Parked(a) THEN frees[w] + 1 ELSE frees[w]]
          BY <1>6 DEF ReleasePark
        <4> QED
          BY <3>1, <4>1
      <3>3. held' \in [Areas -> Nat]
        <4>1. held' = [w \in Areas |->
                         IF w = v THEN Size[v]
                         ELSE IF w \in Parked(a) THEN held[w] + Size[v] ELSE held[w]]
          BY <1>6 DEF ReleasePark
        <4> QED
          BY <3>1, <4>1
      <3> QED
        BY <3>2, <3>3
    <2> QED
      BY <1>6, <2>1, <2>2, <2>3 DEF TypeOK, ReleasePark, kfdVars
  <1>7. ASSUME NEW v \in Areas, ReleaseNoMem(v) PROVE TypeOK'
    <2>1. live' \in [Areas -> SUBSET Handles]
      BY <1>7 DEF TypeOK, ReleaseNoMem, BoFree
    <2>2. faulted' \in BOOLEAN
      BY <1>7 DEF TypeOK, ReleaseNoMem
    <2> QED
      BY <1>7, <2>1, <2>2 DEF TypeOK, ReleaseNoMem, DropObject
  <1>8. ASSUME NEW a \in Apertures, Evict(a) PROVE TypeOK'
    <2>0. fifo[a] \in Seq(Areas) /\ fifo[a] # << >>
      BY <1>8 DEF TypeOK, Evict, Pop
    <2>n. Len(fifo[a]) \in Nat /\ Len(fifo[a]) > 0
      BY <2>0
    <2>1. /\ fifo[a] \in Seq(Areas) /\ fifo[a] # << >>
          /\ len[a] = Len(fifo[a]) /\ bytes[a] = held[fifo[a][1]]
      BY <2>0, <2>n DEF IInv, CountInv
    <2>t. Tail(fifo[a]) \in Seq(Areas)
      BY <2>1, TailFacts
    <2>v. PICK v \in Areas : v = Head(fifo[a]) /\ v = fifo[a][1]
      BY <2>1, TailFacts
    <2>3. bytes[a] - Size[v] \in Nat
      <3>1. held[v] = Size[v] + (IF 1 < Len(fifo[a]) THEN held[fifo[a][2]] ELSE 0)
        <4>1. /\ 1 \in 1..Len(fifo[a])
              /\ \A i \in 1..Len(fifo[a]) :
                   held[fifo[a][i]] = Size[fifo[a][i]]
                     + (IF i < Len(fifo[a]) THEN held[fifo[a][i + 1]] ELSE 0)
          BY <2>n DEF IInv, CountInv
        <4> QED
          BY <4>1, <2>v
      <3>2. CASE ~(1 < Len(fifo[a]))
        BY <2>1, <2>v, <3>1, <3>2 DEF TypeOK
      <3>3. CASE 1 < Len(fifo[a])
        <4>1. fifo[a][2] \in Areas
          BY <2>1, <2>n, <3>3
        <4>2. held[fifo[a][2]] \in Nat /\ Size[v] \in Nat
          BY <4>1 DEF TypeOK
        <4>3. bytes[a] = Size[v] + held[fifo[a][2]]
          BY <2>1, <2>v, <3>1, <3>3
        <4> QED
          BY <4>2, <4>3
      <3> QED
        BY <3>2, <3>3
    <2>4. /\ fifo' \in [Apertures -> Seq(Areas)]
          /\ len' \in [Apertures -> Nat] /\ bytes' \in [Apertures -> Nat]
      <3>1. len[a] - 1 \in Nat
        BY <2>1, <2>n
      <3>2. /\ fifo' = [fifo EXCEPT ![a] = Tail(fifo[a])]
            /\ len' = [len EXCEPT ![a] = len[a] - 1]
            /\ bytes' = [bytes EXCEPT ![a] = bytes[a] - Size[v]]
        BY <1>8, <2>v DEF Evict, Pop
      <3> QED
        BY <2>t, <2>3, <3>1, <3>2 DEF TypeOK
    <2>5. live' \in [Areas -> SUBSET Handles]
      <3>1. PICK left \in SUBSET live[v] : live' = [live EXCEPT ![v] = left]
        BY <1>8, <2>v DEF Evict, BoFree
      <3> QED
        BY <3>1 DEF TypeOK
    <2>6. faulted' \in BOOLEAN
      BY <1>8 DEF TypeOK, Evict
    <2> QED
      BY <1>8, <2>n, <2>v, <2>4, <2>5, <2>6 DEF TypeOK, Evict, DropObject
  <1>9. ASSUME NEW a \in Apertures, DrainDone(a) PROVE TypeOK'
    BY <1>9 DEF TypeOK, DrainDone, kfdVars, histVars
  <1>10. ASSUME NEW v \in Areas, Launch(v) \/ Retire(v) PROVE TypeOK'
    BY <1>10 DEF TypeOK, Launch, Retire, fmmVars, kfdVars, histVars
  <1>11. ASSUME Exit PROVE TypeOK'
    BY <1>11 DEF TypeOK, Exit, fmmVars, kfdVars, histVars
  <1>12. ASSUME UNCHANGED vars PROVE TypeOK'
    BY <1>12 DEF TypeOK, vars, fmmVars, kfdVars, histVars
  <1> QED
    BY <1>1, <1>2, <1>3, <1>4, <1>5, <1>6, <1>7, <1>8, <1>9, <1>10, <1>11, <1>12
    DEF Next, Release

-----------------------------------------------------------------------------
(***************************************************************************)
(* The actions that leave the tree, the FIFOs and the BOs alone.           *)
(***************************************************************************)
Quiet ==
  \/ \E v \in Areas : MapToGPU(v) \/ UnmapFromGPU(v) \/ ReleaseAgain(v)
                      \/ Launch(v) \/ Retire(v)
  \/ \E a \in Apertures : DrainDone(a)
  \/ Exit
  \/ UNCHANGED vars

\* What the quiet steps leave alone.
LEMMA QuietFrame ==
  ASSUME Quiet
  PROVE  UNCHANGED <<tree, reserved, deferred, fifo, len, bytes, live, orphan,
                     frees, held>>
  <1> USE DEF fmmVars, kfdVars, histVars, vars
  <1>1. ASSUME NEW v \in Areas, MapToGPU(v) \/ UnmapFromGPU(v)
        PROVE  UNCHANGED <<tree, reserved, deferred, fifo, len, bytes, live,
                           orphan, frees, held>>
    BY <1>1 DEF MapToGPU, UnmapFromGPU
  <1>2. ASSUME NEW v \in Areas, ReleaseAgain(v) \/ Launch(v) \/ Retire(v)
        PROVE  UNCHANGED <<tree, reserved, deferred, fifo, len, bytes, live,
                           orphan, frees, held>>
    BY <1>2 DEF ReleaseAgain, Launch, Retire
  <1>3. ASSUME NEW a \in Apertures, DrainDone(a)
        PROVE  UNCHANGED <<tree, reserved, deferred, fifo, len, bytes, live,
                           orphan, frees, held>>
    BY <1>3 DEF DrainDone
  <1>4. ASSUME Exit \/ UNCHANGED vars
        PROVE  UNCHANGED <<tree, reserved, deferred, fifo, len, bytes, live,
                           orphan, frees, held>>
    BY <1>4 DEF Exit
  <1> QED
    BY <1>1, <1>2, <1>3, <1>4 DEF Quiet

\* The steps, sorted by what they change.
LEMMA NextCases ==
  [Next]_vars <=> \/ Quiet
                  \/ \E v \in Areas : Allocate(v) \/ ReleaseScratch(v)
                                      \/ ReleasePark(v) \/ ReleaseNoMem(v)
                  \/ \E a \in Apertures : Evict(a)
  BY DEF Next, Release, Quiet

(* An area outside every FIFO, as those that Allocate, ReleaseScratch and  *)
(* ReleaseNoMem touch.                                                     *)
LEMMA NotParked ==
  ASSUME IInv, TypeOK, NEW v \in Areas, v \notin tree \/ ~deferred[v],
         NEW a \in Apertures, NEW i \in 1..Len(fifo[a])
  PROVE  fifo[a][i] # v
  BY DEF IInv, FifoInv

(* The FIFO of an aperture in which nothing is parked or taken out.        *)
LEMMA FifoKept ==
  ASSUME NEW a \in Apertures, FifoInv(a), fifo'[a] = fifo[a],
         \A w : (w \in tree /\ deferred[w] /\ ApertureOf[w] = a)
                 <=> (w \in tree' /\ deferred'[w] /\ ApertureOf[w] = a)
  PROVE  FifoInv(a)'
  <1>1. PICK f : f = fifo[a]
    OBVIOUS
  <1>2. \A i \in 1..Len(f) : f[i] \in tree' /\ deferred'[f[i]] /\ ApertureOf[f[i]] = a
    BY <1>1 DEF FifoInv
  <1>3. \A w \in tree' : deferred'[w] /\ ApertureOf[w] = a
                           => \E i \in 1..Len(f) : f[i] = w
    BY <1>1 DEF FifoInv
  <1>4. \A i, j \in 1..Len(f) : f[i] = f[j] => i = j
    BY <1>1 DEF FifoInv
  <1> QED
    BY <1>1, <1>2, <1>3, <1>4 DEF FifoInv

(***************************************************************************)
(* The FIFO holds the parked objects, each once.                           *)
(***************************************************************************)
LEMMA FifoStep ==
  ASSUME TypeOK, IInv, [Next]_vars, NEW a \in Apertures
  PROVE  FifoInv(a)'
  <1> USE AreaAssumption
  <1>0. fifo[a] \in Seq(Areas) /\ FifoInv(a) /\ Len(fifo[a]) \in Nat
    BY DEF TypeOK, IInv
  <1>1. CASE Quiet
    <2>1. fifo' = fifo /\ tree' = tree /\ deferred' = deferred
      BY <1>1, QuietFrame
    <2> QED
      BY <1>0, <2>1, FifoKept
  <1>2. ASSUME NEW v \in Areas, Allocate(v) PROVE FifoInv(a)'
    <2>1. v \notin tree /\ fifo' = fifo /\ tree' = tree \union {v}
          /\ deferred' = [deferred EXCEPT ![v] = FALSE]
      BY <1>2 DEF Allocate, IInv, ReservedWhileObject
    <2>2. \A i \in 1..Len(fifo[a]) : fifo[a][i] # v
      BY <2>1, NotParked
    <2>3. ~deferred'[v] /\ \A w \in Areas : w # v => deferred'[w] = deferred[w]
      BY <2>1 DEF TypeOK
    <2>4. \A i \in 1..Len(fifo[a]) : fifo[a][i] \in tree' /\ deferred'[fifo[a][i]]
                                     /\ ApertureOf[fifo[a][i]] = a
      BY <1>0, <2>1, <2>2, <2>3 DEF FifoInv, TypeOK
    <2>5. ASSUME NEW w \in tree', deferred'[w], ApertureOf[w] = a
          PROVE  \E i \in 1..Len(fifo[a]) : fifo[a][i] = w
      BY <1>0, <2>1, <2>3, <2>5 DEF FifoInv, TypeOK
    <2> QED
      BY <1>0, <2>1, <2>4, <2>5 DEF FifoInv
  <1>3. ASSUME NEW v \in Areas, ReleaseScratch(v) PROVE FifoInv(a)'
    <2>1. ~deferred[v] /\ fifo' = fifo /\ deferred' = deferred
          /\ (tree' = tree \/ tree' = tree \ {v})
      BY <1>3 DEF ReleaseScratch, Releasable, DropObject
    <2>2. \A i \in 1..Len(fifo[a]) : fifo[a][i] # v
      BY <2>1, NotParked
    <2> QED
      BY <1>0, <2>1, <2>2 DEF FifoInv, TypeOK
  <1>4. ASSUME NEW v \in Areas, ReleaseNoMem(v) PROVE FifoInv(a)'
    <2>1. ~deferred[v] /\ fifo' = fifo /\ tree' = tree \ {v}
          /\ deferred' = [deferred EXCEPT ![v] = FALSE]
      BY <1>4 DEF ReleaseNoMem, Releasable, DropObject
    <2>2. \A i \in 1..Len(fifo[a]) : fifo[a][i] # v
      BY <2>1, NotParked
    <2> QED
      BY <1>0, <2>1, <2>2 DEF FifoInv, TypeOK
  <1>5. ASSUME NEW v \in Areas, ReleasePark(v) PROVE FifoInv(a)'
    <2>1. /\ v \in tree /\ ~deferred[v] /\ tree' = tree
          /\ deferred' = [deferred EXCEPT ![v] = TRUE]
          /\ fifo' = [fifo EXCEPT ![ApertureOf[v]] = Append(fifo[ApertureOf[v]], v)]
      BY <1>5 DEF ReleasePark, Releasable
    <2>2. \A i \in 1..Len(fifo[a]) : fifo[a][i] # v
      BY <2>1, NotParked
    <2>3. CASE a # ApertureOf[v]
      <3>1. fifo'[a] = fifo[a]
        BY <2>1, <2>3 DEF TypeOK
      <3> QED
        BY <1>0, <2>1, <2>3, <3>1, FifoKept DEF TypeOK
    <2>4. CASE a = ApertureOf[v]
      <3> DEFINE g == fifo'[a]
      <3>1. g = Append(fifo[a], v)
        BY <2>1, <2>4 DEF TypeOK
      <3>2. /\ Len(g) = Len(fifo[a]) + 1
            /\ \A i \in 1..Len(fifo[a]) : g[i] = fifo[a][i]
            /\ g[Len(fifo[a]) + 1] = v
        BY <3>1, <1>0, AppendFacts
      <3> HIDE DEF g
      <3>3. ASSUME NEW i \in 1..Len(g)
            PROVE  g[i] \in tree' /\ deferred'[g[i]] /\ ApertureOf[g[i]] = a
        <4>1. CASE i \in 1..Len(fifo[a])
          <5>1. PICK w : w = g[i] /\ w = fifo[a][i] /\ w # v
            BY <2>2, <3>2, <4>1
          <5>2. w \in tree /\ deferred[w] /\ ApertureOf[w] = a
            BY <1>0, <4>1, <5>1 DEF FifoInv
          <5> QED
            BY <2>1, <5>1, <5>2 DEF TypeOK
        <4>2. CASE i = Len(fifo[a]) + 1
          BY <4>2, <2>1, <2>4, <3>2 DEF TypeOK
        <4> QED
          BY <4>1, <4>2, <1>0, <3>2
      <3>4. ASSUME NEW w \in tree', deferred'[w], ApertureOf[w] = a
            PROVE  \E i \in 1..Len(g) : g[i] = w
        <4>1. CASE w = v
          BY <4>1, <1>0, <3>2
        <4>2. CASE w # v
          <5>1. PICK i \in 1..Len(fifo[a]) : fifo[a][i] = w
            BY <4>2, <3>4, <1>0, <2>1 DEF FifoInv, TypeOK
          <5> QED
            BY <5>1, <1>0, <3>2
        <4> QED
          BY <4>1, <4>2
      <3>5. ASSUME NEW i \in 1..Len(g), NEW j \in 1..Len(g), g[i] = g[j]
            PROVE  i = j
        <4>1. CASE i \in 1..Len(fifo[a]) /\ j \in 1..Len(fifo[a])
          BY <4>1, <3>5, <1>0, <3>2 DEF FifoInv
        <4>2. CASE i = Len(fifo[a]) + 1 /\ j \in 1..Len(fifo[a])
          BY <4>2, <3>5, <2>2, <3>2
        <4>3. CASE j = Len(fifo[a]) + 1 /\ i \in 1..Len(fifo[a])
          BY <4>3, <3>5, <2>2, <3>2
        <4>4. /\ i \in 1..Len(fifo[a]) \/ i = Len(fifo[a]) + 1
              /\ j \in 1..Len(fifo[a]) \/ j = Len(fifo[a]) + 1
          BY <1>0, <3>2
        <4> QED
          BY <4>1, <4>2, <4>3, <4>4
      <3> QED
        BY <3>3, <3>4, <3>5 DEF FifoInv, g
    <2> QED
      BY <2>3, <2>4
  <1>6. ASSUME NEW b \in Apertures, Evict(b) PROVE FifoInv(a)'
    <2>1. fifo[b] \in Seq(Areas) /\ fifo[b] # << >> /\ FifoInv(b)
      BY <1>6 DEF TypeOK, Evict, Pop, IInv
    <2>2. Len(fifo[b]) \in Nat /\ Len(fifo[b]) > 0
      BY <2>1
    <2>3. PICK v \in Areas : v = Head(fifo[b]) /\ v = fifo[b][1]
      BY <2>1, TailFacts
    <2>4. /\ tree' = tree \ {v}
          /\ deferred' = [deferred EXCEPT ![v] = FALSE]
          /\ fifo' = [fifo EXCEPT ![b] = Tail(fifo[b])]
      BY <1>6, <2>3 DEF Evict, Pop, DropObject
    <2>5. v \in tree /\ deferred[v] /\ ApertureOf[v] = b
      BY <2>1, <2>2, <2>3 DEF FifoInv
    <2>6. CASE a # b
      <3>1. fifo'[a] = fifo[a]
        BY <2>4, <2>6 DEF TypeOK
      <3> QED
        BY <1>0, <2>4, <2>5, <2>6, <3>1, FifoKept DEF TypeOK
    <2>7. CASE a = b
      <3> DEFINE g == fifo'[a]
      <3>1. g = Tail(fifo[a])
        BY <2>4, <2>7 DEF TypeOK
      <3>2. /\ Len(g) = Len(fifo[a]) - 1
            /\ \A i \in 1..(Len(fifo[a]) - 1) : g[i] = fifo[a][i + 1]
        BY <3>1, <2>1, <2>7, TailFacts
      <3> HIDE DEF g
      <3>3. ASSUME NEW i \in 1..Len(g)
            PROVE  i + 1 \in 1..Len(fifo[a]) /\ g[i] = fifo[a][i + 1] /\ g[i] # v
        <4>1. i + 1 \in 1..Len(fifo[a]) /\ g[i] = fifo[a][i + 1]
          BY <1>0, <3>2
        <4>2. 1 \in 1..Len(fifo[a]) /\ i + 1 # 1
          BY <2>2, <2>7, <3>2, <1>0
        <4>3. fifo[a][i + 1] # fifo[a][1]
          BY <4>1, <4>2, <1>0 DEF FifoInv
        <4> QED
          BY <4>1, <4>3, <2>3, <2>7
      <3>4. ASSUME NEW i \in 1..Len(g)
            PROVE  g[i] \in tree' /\ deferred'[g[i]] /\ ApertureOf[g[i]] = a
        <4>1. g[i] \in tree /\ deferred[g[i]] /\ ApertureOf[g[i]] = a /\ g[i] # v
          <5>1. PICK j \in 1..Len(fifo[a]) : g[i] = fifo[a][j] /\ g[i] # v
            BY <3>3
          <5> QED
            BY <1>0, <5>1 DEF FifoInv
        <4> QED
          BY <4>1, <2>4 DEF TypeOK
      <3>5. ASSUME NEW w \in tree', deferred'[w], ApertureOf[w] = a
            PROVE  \E i \in 1..Len(g) : g[i] = w
        <4>1. w # v /\ w \in tree /\ deferred[w]
          BY <3>5, <2>4 DEF TypeOK
        <4>2. PICK i \in 1..Len(fifo[a]) : fifo[a][i] = w
          BY <3>5, <4>1, <1>0 DEF FifoInv
        <4>3. i # 1
          BY <4>1, <4>2, <2>3, <2>7
        <4>4. i - 1 \in 1..Len(g) /\ g[i - 1] = w
          BY <4>2, <4>3, <1>0, <3>2
        <4> QED
          BY <4>4
      <3>6. ASSUME NEW i \in 1..Len(g), NEW j \in 1..Len(g), g[i] = g[j]
            PROVE  i = j
        <4>0. /\ i + 1 \in 1..Len(fifo[a]) /\ j + 1 \in 1..Len(fifo[a])
              /\ fifo[a][i + 1] = fifo[a][j + 1]
          BY <3>6, <3>3
        <4>1. i + 1 = j + 1
          BY <4>0, <1>0 DEF FifoInv
        <4>2. i \in Int /\ j \in Int
          OBVIOUS
        <4> QED
          BY <4>1, <4>2
      <3> QED
        BY <3>4, <3>5, <3>6 DEF FifoInv, g
    <2> QED
      BY <2>6, <2>7
  <1> QED
    BY <1>1, <1>2, <1>3, <1>4, <1>5, <1>6, NextCases

(***************************************************************************)
(* deferred_len and deferred_bytes account for the FIFO.                   *)
(***************************************************************************)
LEMMA CountFrame ==
  ASSUME NEW a \in Apertures, fifo[a] \in Seq(Areas), CountInv(a),
         fifo'[a] = fifo[a], len'[a] = len[a], bytes'[a] = bytes[a],
         \A i \in 1..Len(fifo[a]) : /\ frees'[fifo[a][i]] = frees[fifo[a][i]]
                                    /\ held'[fifo[a][i]] = held[fifo[a][i]]
  PROVE  CountInv(a)'
  <1>1. ASSUME NEW i \in 1..Len(fifo[a])
        PROVE  held'[fifo[a][i]] = Size[fifo[a][i]]
                 + (IF i < Len(fifo[a]) THEN held'[fifo[a][i + 1]] ELSE 0)
    <2>1. i < Len(fifo[a]) => i + 1 \in 1..Len(fifo[a])
      OBVIOUS
    <2>2. held[fifo[a][i]] = Size[fifo[a][i]]
                 + (IF i < Len(fifo[a]) THEN held[fifo[a][i + 1]] ELSE 0)
      BY DEF CountInv
    <2> QED
      BY <2>1, <2>2
  <1>2. Len(fifo[a]) > 0 => 1 \in 1..Len(fifo[a])
    OBVIOUS
  <1>3. bytes'[a] = IF Len(fifo[a]) > 0 THEN held'[fifo[a][1]] ELSE 0
    BY <1>2 DEF CountInv
  <1> QED
    BY <1>1, <1>3 DEF CountInv

\* Every step keeps the counters of a FIFO right.
LEMMA CountStep ==
  ASSUME TypeOK, IInv, [Next]_vars, NEW a \in Apertures
  PROVE  CountInv(a)'
  <1> USE AreaAssumption
  <1>0. fifo[a] \in Seq(Areas) /\ FifoInv(a) /\ CountInv(a) /\ Len(fifo[a]) \in Nat
    BY DEF TypeOK, IInv
  <1>1. CASE Quiet
    BY <1>0, <1>1, QuietFrame DEF CountInv
  <1>2. ASSUME NEW v \in Areas, Allocate(v) \/ ReleaseScratch(v) \/ ReleaseNoMem(v)
        PROVE  CountInv(a)'
    <2>1. UNCHANGED <<fifo, len, bytes, frees, held>>
      BY <1>2 DEF Allocate, ReleaseScratch, ReleaseNoMem
    <2> QED
      BY <1>0, <2>1 DEF CountInv
  <1>3. ASSUME NEW v \in Areas, ReleasePark(v) PROVE CountInv(a)'
    <2> DEFINE c == ApertureOf[v]
    <2>1. /\ v \in tree /\ ~deferred[v]
          /\ fifo' = [fifo EXCEPT ![c] = Append(fifo[c], v)]
          /\ len' = [len EXCEPT ![c] = len[c] + 1]
          /\ bytes' = [bytes EXCEPT ![c] = bytes[c] + Size[v]]
          /\ frees' = [w \in Areas |->
                 IF w = v THEN 0
                 ELSE IF w \in Parked(c) THEN frees[w] + 1 ELSE frees[w]]
          /\ held' = [w \in Areas |->
                IF w = v THEN Size[v]
                ELSE IF w \in Parked(c) THEN held[w] + Size[v] ELSE held[w]]
      BY <1>3 DEF ReleasePark, Releasable
    <2>2. \A i \in 1..Len(fifo[a]) : fifo[a][i] # v /\ fifo[a][i] \in Areas
      BY <2>1, NotParked, <1>0
    <2>3. CASE a # c
      <3>1. fifo'[a] = fifo[a] /\ len'[a] = len[a] /\ bytes'[a] = bytes[a]
        BY <2>1, <2>3 DEF TypeOK
      <3>2. \A i \in 1..Len(fifo[a]) : fifo[a][i] \notin Parked(c)
        <4>1. c \in Apertures /\ FifoInv(c)
          BY DEF IInv
        <4>2. \A w \in Parked(c) : ApertureOf[w] = c
          BY <4>1, ParkedInAreas DEF FifoInv
        <4> QED
          BY <4>2, <2>3, <1>0 DEF FifoInv
      <3>3. \A i \in 1..Len(fifo[a]) : /\ frees'[fifo[a][i]] = frees[fifo[a][i]]
                                       /\ held'[fifo[a][i]] = held[fifo[a][i]]
        BY <2>1, <2>2, <3>2
      <3> QED
        BY <1>0, <3>1, <3>3, CountFrame
    <2>4. CASE a = c
      <3> DEFINE g == fifo'[a]
      <3> DEFINE n == Len(fifo[a])
      <3>1. g = Append(fifo[a], v) /\ len'[a] = len[a] + 1
            /\ bytes'[a] = bytes[a] + Size[v]
        BY <2>1, <2>4 DEF TypeOK
      <3>2. /\ Len(g) = n + 1
            /\ \A i \in 1..n : g[i] = fifo[a][i]
            /\ g[n + 1] = v
        BY <3>1, <1>0, AppendFacts
      <3> HIDE DEF g
      <3>3. \A i \in 1..n : fifo[a][i] \in Parked(c)
        BY <2>4, ParkedInAreas
      <3>4. \A i \in 1..n : /\ frees'[g[i]] = frees[g[i]] + 1
                            /\ held'[g[i]] = held[g[i]] + Size[v]
                            /\ held[g[i]] \in Nat /\ frees[g[i]] \in Nat
        BY <2>1, <2>2, <3>2, <3>3 DEF TypeOK
      <3>5. frees'[v] = 0 /\ held'[v] = Size[v] /\ Size[v] \in Nat
        BY <2>1
      <3>6. len'[a] = Len(g)
        BY <1>0, <3>1, <3>2 DEF CountInv
      <3>7. bytes'[a] = IF Len(g) > 0 THEN held'[g[1]] ELSE 0
        <4>1. CASE n > 0
          <5>1. 1 \in 1..n /\ Len(g) > 0
            BY <4>1, <1>0, <3>2
          <5>2. bytes[a] = held[fifo[a][1]]
            BY <4>1, <1>0 DEF CountInv
          <5>3. g[1] = fifo[a][1] /\ held'[g[1]] = held[g[1]] + Size[v]
            BY <5>1, <3>2, <3>4
          <5> QED
            BY <5>1, <5>2, <5>3, <3>1
        <4>2. CASE ~(n > 0)
          <5>1. bytes[a] = 0 /\ Len(g) > 0 /\ 1 = n + 1
            BY <4>2, <1>0, <3>2 DEF CountInv
          <5> QED
            BY <5>1, <3>1, <3>2, <3>5
        <4> QED
          BY <4>1, <4>2
      <3>8. ASSUME NEW i \in 1..Len(g) PROVE frees'[g[i]] = Len(g) - i
        <4>1. CASE i \in 1..n
          <5>1. frees[g[i]] = n - i
            BY <4>1, <1>0, <3>2 DEF CountInv
          <5> QED
            BY <4>1, <5>1, <1>0, <3>2, <3>4
        <4>2. CASE i = n + 1
          BY <4>2, <1>0, <3>2, <3>5
        <4> QED
          BY <4>1, <4>2, <1>0, <3>2
      <3>9. ASSUME NEW i \in 1..Len(g)
            PROVE  held'[g[i]] = Size[g[i]] + (IF i < Len(g) THEN held'[g[i + 1]] ELSE 0)
        <4>1. CASE i \in 1..n /\ i < n
          <5>1. i + 1 \in 1..n /\ i < Len(g)
            BY <4>1, <1>0, <3>2
          <5>2. held[g[i]] = Size[g[i]] + held[g[i + 1]] /\ Size[g[i]] \in Nat
            BY <4>1, <5>1, <1>0, <2>2, <3>2 DEF CountInv
          <5>3. /\ held'[g[i]] = held[g[i]] + Size[v]
                /\ held'[g[i + 1]] = held[g[i + 1]] + Size[v]
                /\ held[g[i + 1]] \in Nat
            BY <4>1, <5>1, <3>4
          <5> QED
            BY <5>1, <5>2, <5>3, <3>5
        <4>2. CASE i \in 1..n /\ ~(i < n)
          <5>1. i + 1 = n + 1 /\ i < Len(g)
            BY <4>2, <1>0, <3>2
          <5>2. held[g[i]] = Size[g[i]] /\ Size[g[i]] \in Nat
            BY <4>2, <1>0, <2>2, <3>2 DEF CountInv
          <5>3. held'[g[i]] = held[g[i]] + Size[v] /\ held'[g[i + 1]] = Size[v]
            BY <4>2, <5>1, <3>2, <3>4, <3>5
          <5> QED
            BY <5>1, <5>2, <5>3, <3>5
        <4>3. CASE i = n + 1
          <5>1. ~(i < Len(g)) /\ g[i] = v
            BY <4>3, <1>0, <3>2
          <5> QED
            BY <5>1, <3>5
        <4>4. i \in 1..n \/ i = n + 1
          BY <1>0, <3>2
        <4> QED
          BY <4>1, <4>2, <4>3, <4>4
      <3> QED
        BY <3>6, <3>7, <3>8, <3>9 DEF CountInv, g
    <2> QED
      BY <2>3, <2>4
  <1>4. ASSUME NEW b \in Apertures, Evict(b) PROVE CountInv(a)'
    <2>1. fifo[b] \in Seq(Areas) /\ fifo[b] # << >> /\ FifoInv(b) /\ CountInv(b)
      BY <1>4 DEF TypeOK, Evict, Pop, IInv
    <2>2. Len(fifo[b]) \in Nat /\ Len(fifo[b]) > 0
      BY <2>1
    <2>3. PICK v \in Areas : v = Head(fifo[b]) /\ v = fifo[b][1]
      BY <2>1, TailFacts
    <2>4. /\ fifo' = [fifo EXCEPT ![b] = Tail(fifo[b])]
          /\ len' = [len EXCEPT ![b] = len[b] - 1]
          /\ bytes' = [bytes EXCEPT ![b] = bytes[b] - Size[v]]
          /\ frees' = [frees EXCEPT ![v] = 0]
          /\ held' = [held EXCEPT ![v] = 0]
      BY <1>4, <2>3 DEF Evict, Pop
    <2>5. ApertureOf[v] = b
      BY <2>1, <2>2, <2>3 DEF FifoInv
    <2>6. CASE a # b
      <3>1. fifo'[a] = fifo[a] /\ len'[a] = len[a] /\ bytes'[a] = bytes[a]
        BY <2>4, <2>6 DEF TypeOK
      <3>2. \A i \in 1..Len(fifo[a]) : fifo[a][i] # v
        BY <1>0, <2>5, <2>6 DEF FifoInv
      <3>3. \A i \in 1..Len(fifo[a]) : /\ frees'[fifo[a][i]] = frees[fifo[a][i]]
                                       /\ held'[fifo[a][i]] = held[fifo[a][i]]
        <4>1. \A w \in Areas : w # v => frees'[w] = frees[w] /\ held'[w] = held[w]
          BY <2>4 DEF TypeOK
        <4>2. \A i \in 1..Len(fifo[a]) : fifo[a][i] \in Areas
          BY <1>0
        <4> QED
          BY <4>1, <4>2, <3>2
      <3> QED
        BY <1>0, <3>1, <3>3, CountFrame
    <2>7. CASE a = b
      <3> DEFINE g == fifo'[a]
      <3> DEFINE n == Len(fifo[a])
      <3>1. g = Tail(fifo[a]) /\ len'[a] = len[a] - 1 /\ bytes'[a] = bytes[a] - Size[v]
        BY <2>4, <2>7 DEF TypeOK
      <3>2. Len(g) = n - 1 /\ \A i \in 1..(n - 1) : g[i] = fifo[a][i + 1]
        BY <3>1, <2>1, <2>7, TailFacts
      <3> HIDE DEF g
      <3>3. ASSUME NEW i \in 1..Len(g)
            PROVE  /\ i + 1 \in 1..n /\ g[i] = fifo[a][i + 1] /\ g[i] \in Areas
                   /\ frees'[g[i]] = frees[g[i]] /\ held'[g[i]] = held[g[i]]
        <4>1. i + 1 \in 1..n /\ g[i] = fifo[a][i + 1] /\ g[i] \in Areas
          BY <1>0, <3>2
        <4>2. 1 \in 1..n /\ i + 1 # 1
          BY <2>2, <2>7, <3>2, <1>0
        <4>3. fifo[a][i + 1] # fifo[a][1]
          BY <4>1, <4>2, <1>0 DEF FifoInv
        <4> QED
          BY <4>1, <4>3, <2>3, <2>4, <2>7 DEF TypeOK
      <3>4. len'[a] = Len(g)
        BY <1>0, <3>1, <3>2 DEF CountInv
      <3>5. bytes'[a] = IF Len(g) > 0 THEN held'[g[1]] ELSE 0
        <4>1. /\ bytes[a] = held[v] /\ 1 \in 1..n
              /\ held[v] = Size[v] + (IF 1 < n THEN held[fifo[a][1 + 1]] ELSE 0)
          BY <1>0, <2>2, <2>3, <2>7 DEF CountInv
        <4>2. CASE 1 < n
          <5>1. 1 \in 1..Len(g) /\ Len(g) > 0
            BY <4>2, <1>0, <3>2
          <5>2. held'[g[1]] = held[fifo[a][1 + 1]] /\ held[fifo[a][1 + 1]] \in Nat
            BY <5>1, <3>3 DEF TypeOK
          <5>3. bytes[a] = Size[v] + held[fifo[a][1 + 1]] /\ Size[v] \in Nat
            BY <4>1, <4>2
          <5> QED
            BY <5>1, <5>2, <5>3, <3>1
        <4>3. CASE ~(1 < n)
          <5>1. bytes[a] = Size[v] /\ Size[v] \in Nat
            BY <4>1, <4>3
          <5>2. ~(Len(g) > 0)
            BY <4>3, <1>0, <3>2
          <5> QED
            BY <5>1, <5>2, <3>1
        <4> QED
          BY <4>2, <4>3
      <3>6. ASSUME NEW i \in 1..Len(g) PROVE frees'[g[i]] = Len(g) - i
        <4>1. frees[fifo[a][i + 1]] = n - (i + 1)
          BY <3>3, <1>0 DEF CountInv
        <4> QED
          BY <4>1, <3>2, <3>3, <1>0
      <3>7. ASSUME NEW i \in 1..Len(g)
            PROVE  held'[g[i]] = Size[g[i]] + (IF i < Len(g) THEN held'[g[i + 1]] ELSE 0)
        <4>1. held[fifo[a][i + 1]] = Size[fifo[a][i + 1]]
                + (IF i + 1 < n THEN held[fifo[a][(i + 1) + 1]] ELSE 0)
          BY <3>3, <1>0 DEF CountInv
        <4>2. CASE i < Len(g)
          <5>1. i + 1 \in 1..Len(g) /\ i + 1 < n
            BY <4>2, <1>0, <3>2
          <5> QED
            BY <4>1, <4>2, <5>1, <3>3
        <4>3. CASE ~(i < Len(g))
          <5>1. ~(i + 1 < n)
            BY <4>3, <1>0, <3>2
          <5> QED
            BY <4>1, <4>3, <5>1, <3>3
        <4> QED
          BY <4>2, <4>3
      <3> QED
        BY <3>4, <3>5, <3>6, <3>7 DEF CountInv, g
    <2> QED
      BY <2>6, <2>7
  <1> QED
    BY <1>1, <1>2, <1>3, <1>4, NextCases

(***************************************************************************)
(* The parts of the invariant about the limits, the free list and the BOs. *)
(***************************************************************************)
LEMMA LimitStep ==
  ASSUME TypeOK, IInv, [Next]_vars, NEW a \in Apertures, ~draining'[a]
  PROVE  ~OverLimit(a)'
  <1> USE AreaAssumption DEF vars, fmmVars, kfdVars, histVars
  <1>1. CASE draining[a]
    <2>1. ASSUME NEW b \in Apertures, DrainDone(b) PROVE ~OverLimit(a)'
      BY <1>1, <2>1 DEF DrainDone, OverLimit, TypeOK
    <2>2. ASSUME NEW b \in Apertures, Evict(b) PROVE FALSE
      BY <1>1, <2>2 DEF Evict
    <2>3. ASSUME NEW v \in Areas, ReleasePark(v) PROVE FALSE
      BY <1>1, <2>3 DEF ReleasePark, TypeOK
    <2>4. ASSUME NEW v \in Areas,
                 \/ Allocate(v) \/ MapToGPU(v) \/ UnmapFromGPU(v)
                 \/ ReleaseAgain(v) \/ ReleaseScratch(v) \/ ReleaseNoMem(v)
                 \/ Launch(v) \/ Retire(v)
          PROVE  FALSE
      BY <1>1, <2>4 DEF Allocate, MapToGPU, UnmapFromGPU, ReleaseAgain,
                        ReleaseScratch, ReleaseNoMem, Launch, Retire
    <2>5. ASSUME Exit \/ UNCHANGED vars PROVE FALSE
      BY <1>1, <2>5 DEF Exit
    <2> QED
      BY <2>1, <2>2, <2>3, <2>4, <2>5 DEF Next, Release
  <1>2. CASE ~draining[a]
    <2>0. ~OverLimit(a)
      BY <1>2 DEF IInv
    <2>1. CASE Quiet
      BY <2>0, <2>1, QuietFrame DEF OverLimit
    <2>2. ASSUME NEW v \in Areas, Allocate(v) \/ ReleaseScratch(v) \/ ReleaseNoMem(v)
          PROVE  ~OverLimit(a)'
      BY <2>0, <2>2 DEF Allocate, ReleaseScratch, ReleaseNoMem, OverLimit
    <2>3. ASSUME NEW v \in Areas, ReleasePark(v) PROVE ~OverLimit(a)'
      <3>1. ApertureOf[v] # a
        BY <2>3 DEF ReleasePark, TypeOK
      <3> QED
        BY <2>0, <2>3, <3>1 DEF ReleasePark, OverLimit, TypeOK
    <2>4. ASSUME NEW b \in Apertures, Evict(b) PROVE ~OverLimit(a)'
      <3>1. b # a
        BY <1>2, <2>4 DEF Evict
      <3> QED
        BY <2>0, <2>4, <3>1 DEF Evict, Pop, OverLimit, TypeOK
    <2> QED
      BY <2>1, <2>2, <2>3, <2>4, NextCases
  <1> QED
    BY <1>1, <1>2

(* Which object of b the eviction loop takes, and what its drop does.      *)
LEMMA EvictFacts ==
  ASSUME TypeOK, IInv, NEW b \in Apertures, Evict(b)
  PROVE  \E v \in Areas :
           /\ v \in tree /\ deferred[v] /\ v = fifo[b][1]
           /\ reserved' = reserved \ {v} /\ tree' = tree \ {v}
           /\ deferred' = [deferred EXCEPT ![v] = FALSE]
           /\ \E stuck \in StillMapped(v), failed \in SUBSET live[v] :
                /\ BoFree(v, stuck, failed)
                /\ faulted' = (faulted \/ failed # {} \/ (stuck # {} /\ KernelFaults))
           /\ orphan' = IF live'[v] = {} THEN orphan ELSE orphan \union {v}
  <1>1. fifo[b] \in Seq(Areas) /\ fifo[b] # << >> /\ FifoInv(b)
    BY DEF TypeOK, Evict, Pop, IInv
  <1>2. 1 \in 1..Len(fifo[b])
    BY <1>1
  <1>3. PICK v \in Areas : v = Head(fifo[b]) /\ v = fifo[b][1]
    BY <1>1, TailFacts
  <1>4. v \in tree /\ deferred[v]
    BY <1>1, <1>2, <1>3 DEF FifoInv
  <1> QED
    BY <1>3, <1>4 DEF Evict, DropObject

\* Every step keeps addresses reserved while their object exists.
LEMMA TreeStep ==
  ASSUME TypeOK, IInv, [Next]_vars
  PROVE  ReservedWhileObject' /\ OwnsBOs' /\ ScratchEmpty'
  <1> USE AreaAssumption DEF ReservedWhileObject, OwnsBOs, ScratchEmpty
  <1>0. reserved = tree /\ OwnsBOs /\ ScratchEmpty
    BY DEF IInv
  <1>1. CASE Quiet
    BY <1>0, <1>1, QuietFrame
  <1>2. ASSUME NEW v \in Areas, Allocate(v)
        PROVE  ReservedWhileObject' /\ OwnsBOs' /\ ScratchEmpty'
    BY <1>0, <1>2 DEF Allocate, TypeOK
  <1>3. ASSUME NEW v \in Areas, ReleaseScratch(v)
        PROVE  ReservedWhileObject' /\ OwnsBOs' /\ ScratchEmpty'
    <2>1. /\ (UNCHANGED <<reserved, tree>>
              \/ (reserved' = reserved \ {v} /\ tree' = tree \ {v}))
          /\ ApertureOf[v] \in Scratch
          /\ deferred' = deferred
          /\ \A w \in Areas : w # v => live'[w] = live[w]
      BY <1>3 DEF ReleaseScratch, DropObject, IsScratch, BoFree, TypeOK
    <2> QED
      BY <1>0, <2>1 DEF TypeOK
  <1>4. ASSUME NEW v \in Areas, ReleasePark(v)
        PROVE  ReservedWhileObject' /\ OwnsBOs' /\ ScratchEmpty'
    BY <1>0, <1>4 DEF ReleasePark, IsScratch, TypeOK, kfdVars
  <1>5. ASSUME NEW v \in Areas, ReleaseNoMem(v)
        PROVE  ReservedWhileObject' /\ OwnsBOs' /\ ScratchEmpty'
    <2>1. /\ reserved' = reserved \ {v} /\ tree' = tree \ {v}
          /\ deferred' = [deferred EXCEPT ![v] = FALSE]
          /\ \A w \in Areas : w # v => live'[w] = live[w]
      BY <1>5 DEF ReleaseNoMem, DropObject, BoFree, TypeOK
    <2> QED
      BY <1>0, <2>1 DEF TypeOK
  <1>6. ASSUME NEW b \in Apertures, Evict(b)
        PROVE  ReservedWhileObject' /\ OwnsBOs' /\ ScratchEmpty'
    <2>1. PICK v \in Areas :
             /\ reserved' = reserved \ {v} /\ tree' = tree \ {v}
             /\ deferred' = [deferred EXCEPT ![v] = FALSE]
             /\ \E stuck \in StillMapped(v), failed \in SUBSET live[v] :
                  BoFree(v, stuck, failed)
      BY <1>6, EvictFacts
    <2>2. \A w \in Areas : w # v => live'[w] = live[w]
      BY <2>1 DEF BoFree, TypeOK
    <2> QED
      BY <1>0, <2>1, <2>2 DEF TypeOK
  <1> QED
    BY <1>1, <1>2, <1>3, <1>4, <1>5, <1>6, NextCases

\* No step leaves a kernel buffer behind.
LEMMA OrphanStep ==
  ASSUME TypeOK, IInv, [Next]_vars
  PROVE  NoOrphanBO'
  <1> USE AreaAssumption, LimitAssumption DEF NoOrphanBO
  <1>0. orphan # {} => faulted
    BY DEF IInv
  <1>1. CASE Quiet
    <2>1. faulted => faulted'
      BY <1>1 DEF Quiet, MapToGPU, UnmapFromGPU, ReleaseAgain, Launch, Retire,
                  DrainDone, Exit, vars, kfdVars
    <2> QED
      BY <1>0, <1>1, <2>1, QuietFrame
  <1>2. ASSUME NEW v \in Areas, Allocate(v) \/ ReleasePark(v) PROVE NoOrphanBO'
    BY <1>0, <1>2 DEF Allocate, ReleasePark, kfdVars
  <1>3. ASSUME NEW v \in Areas, ReleaseScratch(v) PROVE NoOrphanBO'
    <2>1. orphan' = orphan /\ (faulted => faulted')
      BY <1>3 DEF ReleaseScratch, DropObject
    <2> QED
      BY <1>0, <2>1
  <1>4. ASSUME NEW v \in Areas, ReleaseNoMem(v) PROVE NoOrphanBO'
    <2>1. PICK failed \in SUBSET live[v] :
            /\ BoFree(v, mapped[v], failed)
            /\ faulted' = (faulted \/ failed # {} \/ mapped[v] # {})
      BY <1>4 DEF ReleaseNoMem
    <2>2. orphan' = IF live'[v] = {} THEN orphan ELSE orphan \union {v}
      BY <1>4 DEF ReleaseNoMem, DropObject
    <2>3. live'[v] = live[v] \intersect (mapped[v] \union failed)
      BY <2>1 DEF BoFree, TypeOK
    <2>4. failed = {} /\ mapped[v] = {} => live'[v] = {}
      BY <2>3
    <2> QED
      BY <1>0, <2>1, <2>2, <2>4
  <1>5. ASSUME NEW b \in Apertures, Evict(b) PROVE NoOrphanBO'
    <2>1. PICK v \in Areas :
            /\ \E stuck \in StillMapped(v), failed \in SUBSET live[v] :
                /\ BoFree(v, stuck, failed)
                /\ faulted' = (faulted \/ failed # {} \/ (stuck # {} /\ KernelFaults))
            /\ orphan' = IF live'[v] = {} THEN orphan ELSE orphan \union {v}
      BY <1>5, EvictFacts
    <2>2. PICK stuck \in StillMapped(v), failed \in SUBSET live[v] :
                /\ BoFree(v, stuck, failed)
                /\ faulted' = (faulted \/ failed # {} \/ (stuck # {} /\ KernelFaults))
      BY <2>1
    <2>3. live'[v] = live[v] \intersect (stuck \union failed)
      BY <2>2 DEF BoFree, TypeOK
    <2>4. ~KernelFaults => stuck = {}
      BY DEF StillMapped
    <2>5. failed = {} /\ stuck = {} => live'[v] = {}
      BY <2>3
    <2> QED
      BY <1>0, <2>1, <2>2, <2>4, <2>5
  <1> QED
    BY <1>1, <1>2, <1>3, <1>4, <1>5, NextCases

\* The invariant holds when the process starts.
LEMMA InitInv == Init => IInv
  <1> SUFFICES ASSUME Init PROVE IInv
    OBVIOUS
  <1>1. ASSUME NEW a \in Apertures PROVE FifoInv(a) /\ CountInv(a)
    BY EmptySeq DEF Init, FifoInv, CountInv
  <1>2. \A a \in Apertures : ~OverLimit(a)
    BY LimitAssumption DEF Init, OverLimit
  <1> QED
    BY <1>1, <1>2 DEF Init, IInv, ReservedWhileObject, OwnsBOs, ScratchEmpty, NoOrphanBO

(***************************************************************************)
(* The specification keeps its types and the inductive invariant.          *)
(***************************************************************************)
THEOREM Inductive == Spec => [](TypeOK /\ IInv)
  <1>1. Init => TypeOK /\ IInv
    BY InitTypes, InitInv
  <1>2. TypeOK /\ IInv /\ [Next]_vars => (TypeOK /\ IInv)'
    <2> SUFFICES ASSUME TypeOK, IInv, [Next]_vars PROVE TypeOK' /\ IInv'
      OBVIOUS
    <2>1. TypeOK'
      BY StepTypes
    <2>2. \A a \in Apertures : FifoInv(a)' /\ CountInv(a)'
      BY FifoStep, CountStep
    <2>3. \A a \in Apertures : ~draining'[a] => ~OverLimit(a)'
      BY LimitStep
    <2>4. ReservedWhileObject' /\ OwnsBOs' /\ ScratchEmpty' /\ NoOrphanBO'
      BY TreeStep, OrphanStep
    <2> QED
      BY <2>1, <2>2, <2>3, <2>4 DEF IInv
  <1> QED
    BY <1>1, <1>2, PTL DEF Spec

(* Type correctness: no counter of fmm.c wraps below zero.                 *)
THEOREM TypeCorrect == Spec => []TypeOK
  BY Inductive, PTL

(***************************************************************************)
(* List, flags and counters agree, for every number of apertures and       *)
(* areas, every size and both limits.                                      *)
(***************************************************************************)
THEOREM FifoCorrect == Spec => []FifoConsistent
  <1>1. TypeOK /\ IInv => FifoConsistent
    <2> SUFFICES ASSUME TypeOK, IInv, NEW a \in Apertures
                 PROVE  /\ Parked(a) = {v \in tree : deferred[v] /\ ApertureOf[v] = a}
                        /\ \A i, j \in 1..Len(fifo[a]) : fifo[a][i] = fifo[a][j] => i = j
                        /\ len[a] = Len(fifo[a])
                        /\ bytes[a] = IF fifo[a] = << >> THEN 0 ELSE held[Head(fifo[a])]
      BY DEF FifoConsistent
    <2>0. fifo[a] \in Seq(Areas) /\ FifoInv(a) /\ CountInv(a)
      BY DEF TypeOK, IInv
    <2>1. \A v : v \in Parked(a) <=> v \in tree /\ deferred[v] /\ ApertureOf[v] = a
      BY <2>0, ParkedInAreas DEF FifoInv
    <2>2. fifo[a] = << >> <=> ~(Len(fifo[a]) > 0)
      BY <2>0, EmptySeq
    <2>3. fifo[a] # << >> => Head(fifo[a]) = fifo[a][1]
      BY <2>0, TailFacts
    <2> QED
      BY <2>0, <2>1, <2>2, <2>3 DEF FifoInv, CountInv
  <1> QED
    BY <1>1, Inductive, PTL

(***************************************************************************)
(* The eviction loop stays within the limits and never follows a NULL      *)
(* head, whatever single object is parked.                                 *)
(***************************************************************************)
THEOREM LoopSafe == Spec => [](ParkedBounded /\ NeverPopsEmpty)
  <1>1. TypeOK /\ IInv => ParkedBounded /\ NeverPopsEmpty
    <2> SUFFICES ASSUME TypeOK, IInv, NEW a \in Apertures
                 PROVE  /\ ~draining[a] => Len(fifo[a]) <= QueueMax /\ bytes[a] <= BytesMax
                        /\ OverLimit(a) => fifo[a] # << >>
      BY DEF ParkedBounded, NeverPopsEmpty
    <2>0. fifo[a] \in Seq(Areas) /\ CountInv(a) /\ len[a] \in Nat /\ bytes[a] \in Nat
      BY DEF TypeOK, IInv
    <2>1. ~draining[a] => Len(fifo[a]) <= QueueMax /\ bytes[a] <= BytesMax
      BY <2>0, LimitAssumption DEF IInv, OverLimit, CountInv
    <2>2. ASSUME fifo[a] = << >> PROVE ~OverLimit(a)
      <3>1. ~(Len(fifo[a]) > 0) /\ Len(fifo[a]) \in Nat
        BY <2>2, <2>0, EmptySeq
      <3> QED
        BY <2>0, <3>1, LimitAssumption DEF CountInv, OverLimit
    <2> QED
      BY <2>1, <2>2
  <1> QED
    BY <1>1, Inductive, PTL

(* Addresses are withheld exactly while an object stands for them, parked  *)
(* objects keep their BOs, and no BO outlives its object unless an ioctl   *)
(* failed or a still mapped object met the out-of-memory path.             *)
THEOREM MemorySafe ==
  Spec => [](ReservedWhileObject /\ ParkedKeepsBOs /\ NoOrphanBO)
  <1>1. TypeOK /\ IInv => ReservedWhileObject /\ ParkedKeepsBOs /\ NoOrphanBO
    <2> SUFFICES ASSUME TypeOK, IInv, NEW a \in Apertures, NEW v \in Parked(a)
                 PROVE  live[v] = Handles
      BY DEF IInv, ParkedKeepsBOs
    <2>1. v \in tree /\ deferred[v]
      BY ParkedInAreas DEF IInv, FifoInv
    <2> QED
      BY <2>1 DEF IInv, OwnsBOs, ScratchEmpty
  <1> QED
    BY <1>1, Inductive, PTL

(* Between two releases an aperture holds at most FMM_REUSE_QUEUE_MAX       *)
(* objects and FMM_REUSE_BYTES_MAX bytes in its FIFO.                       *)
THEOREM FifoBounded == Spec => []ParkedBounded
  BY LoopSafe, PTL

(* No address is handed out twice and none is lost: fmm_defer_release and  *)
(* fmm_do_release give it back exactly when its object goes.               *)
THEOREM AddressesReserved == Spec => []ReservedWhileObject
  BY MemorySafe, PTL

(* No kernel BO outlives its object in fmm_do_release unless an ioctl       *)
(* failed or calloc did for an object still mapped.                        *)
THEOREM NoBOOrphaned == Spec => []NoOrphanBO
  BY MemorySafe, PTL

(***************************************************************************)
(* The window: what leaves the FIFO was followed by QueueMax frees, or by  *)
(* more than BytesMax bytes.                                               *)
(***************************************************************************)
THEOREM WindowCorrect == Spec => WindowHonoured
  <1>1. ASSUME TypeOK, IInv, [Next]_vars
        PROVE  [\A a \in Apertures : \A v \in Parked(a) \ Parked(a)' :
                  frees[v] >= QueueMax \/ held[v] > BytesMax]_vars
    <2> SUFFICES ASSUME NEW a \in Apertures, NEW v \in Parked(a), v \notin Parked(a)'
                 PROVE  frees[v] >= QueueMax \/ held[v] > BytesMax
      OBVIOUS
    <2>0. fifo[a] \in Seq(Areas) /\ FifoInv(a) /\ CountInv(a) /\ TypeOK'
      BY <1>1, StepTypes DEF TypeOK, IInv
    <2>1. PICK i \in 1..Len(fifo[a]) : fifo[a][i] = v
      BY <1>1, ParkedInAreas
    <2>2. fifo'[a] # fifo[a]
      BY <2>1 DEF Parked
    <2>3. ASSUME NEW w \in Areas, ReleasePark(w) PROVE FALSE
      <3>1. fifo'[a] = fifo[a] \/ fifo'[a] = Append(fifo[a], w)
        BY <1>1, <2>3 DEF ReleasePark, TypeOK
      <3>2. Len(fifo'[a]) \in Nat /\ Len(fifo[a]) \in Nat
            /\ Len(fifo'[a]) >= Len(fifo[a]) /\ fifo'[a][i] = v
        BY <2>0, <2>1, <2>2, <3>1, AppendFacts
      <3> QED
        BY <3>2 DEF Parked
    <2>4. ASSUME NEW w \in Areas,
                 Allocate(w) \/ ReleaseScratch(w) \/ ReleaseNoMem(w)
          PROVE  FALSE
      BY <2>2, <2>4 DEF Allocate, ReleaseScratch, ReleaseNoMem
    <2>5. ~Quiet
      BY <2>2, QuietFrame
    <2>6. PICK b \in Apertures : Evict(b)
      BY <1>1, <2>3, <2>4, <2>5, NextCases
    <2>7. b = a /\ OverLimit(a) /\ fifo[a] # << >> /\ fifo'[a] = Tail(fifo[a])
      BY <1>1, <2>2, <2>6 DEF Evict, Pop, TypeOK
    <2>8. ~(i > 1)
      <3>1. SUFFICES ASSUME i > 1 PROVE FALSE
        OBVIOUS
      <3>2. /\ i - 1 \in 1..(Len(fifo[a]) - 1) /\ Len(fifo'[a]) = Len(fifo[a]) - 1
            /\ fifo'[a][i - 1] = v
        BY <2>0, <2>1, <2>7, <3>1, TailFacts
      <3> QED
        BY <3>2 DEF Parked
    <2>9. i = 1 /\ Len(fifo[a]) \in Nat /\ Len(fifo[a]) > 0
      BY <2>0, <2>1, <2>8
    <2>10. frees[v] = Len(fifo[a]) - 1 /\ len[a] = Len(fifo[a]) /\ bytes[a] = held[v]
      BY <2>0, <2>1, <2>9 DEF CountInv
    <2> QED
      BY <2>7, <2>9, <2>10, LimitAssumption DEF OverLimit
  <1>2. WindowHonoured <=>
          [][\A a \in Apertures : \A v \in Parked(a) \ Parked(a)' :
               frees[v] >= QueueMax \/ held[v] > BytesMax]_vars
    BY DEF WindowHonoured
  <1> QED
    BY <1>1, <1>2, Inductive, PTL DEF Spec

-----------------------------------------------------------------------------
(***************************************************************************)
(* Process exit.  fmm_release_scratch loops until the scratch tree is      *)
(* empty: it must find every object of it releasable, and take one step    *)
(* nearer to the end with every turn.                                      *)
(***************************************************************************)
ScratchLeft   == {v \in tree : IsScratch(ApertureOf[v])}
ScratchMapped == {v \in ScratchLeft : mapped[v] # {}}

(* No release holds the mutex of a scratch aperture inside the eviction    *)
(* loop and no object of one is parked, so the exiting thread never waits  *)
(* and never meets an object whose release does nothing.                   *)
ScratchReleasable == \A v \in ScratchLeft : Releasable(v)

(* An object leaves the tree, or one that is in the way is unmapped.       *)
Nearer ==
  \/ /\ ScratchLeft' \subseteq ScratchLeft
     /\ ScratchLeft' # ScratchLeft
     /\ ScratchMapped' \subseteq ScratchMapped
  \/ /\ ScratchLeft' = ScratchLeft
     /\ ScratchMapped' \subseteq ScratchMapped
     /\ ScratchMapped' # ScratchMapped

(* A turn of the loop comes nearer to its end, unless an ioctl fails.      *)
TeardownAdvances == [][TeardownScratch => faulted' \/ Nearer]_vars

(* Until an ioctl fails, a scratch object has all of its BOs, all mapped   *)
(* or none.                                                                *)
Whole(v) == live[v] = Handles /\ mapped[v] \in {{}, Handles}

ScratchInv ==
  /\ \A a \in Scratch : ~draining[a]
  /\ ~faulted => \A v \in ScratchLeft : Whole(v)

(* A step on other objects leaves a scratch object whole.                  *)
LEMMA WholeKept ==
  ASSUME ScratchInv, tree' \subseteq tree, ~faulted' => ~faulted,
         \A v \in ScratchLeft' : live'[v] = live[v] /\ mapped'[v] = mapped[v]
  PROVE  ~faulted' => \A v \in ScratchLeft' : Whole(v)'
  BY DEF ScratchInv, ScratchLeft, Whole

(* Every step keeps the scratch apertures unlocked and their objects whole.*)
LEMMA ScratchStep ==
  ASSUME TypeOK, IInv, ScratchInv, [Next]_vars
  PROVE  ScratchInv'
  <1> USE AreaAssumption
  <1>0. TypeOK'
    BY StepTypes
  <1>1. \A a \in Scratch : ~draining'[a]
    <2>1. ASSUME NEW v \in Areas, ReleasePark(v) PROVE \A a \in Scratch : ~draining'[a]
      BY <2>1 DEF ReleasePark, IsScratch, ScratchInv, TypeOK
    <2>2. ASSUME NEW b \in Apertures, DrainDone(b)
          PROVE  \A a \in Scratch : ~draining'[a]
      BY <2>2 DEF DrainDone, ScratchInv, TypeOK
    <2>3. ASSUME UNCHANGED draining PROVE \A a \in Scratch : ~draining'[a]
      BY <2>3 DEF ScratchInv
    <2>4. ASSUME NEW v \in Areas,
                 \/ MapToGPU(v) \/ UnmapFromGPU(v) \/ ReleaseAgain(v)
                 \/ Launch(v) \/ Retire(v) \/ Allocate(v)
                 \/ ReleaseScratch(v) \/ ReleaseNoMem(v)
          PROVE  UNCHANGED draining
      BY <2>4 DEF MapToGPU, UnmapFromGPU, ReleaseAgain, Launch, Retire, Allocate,
                  ReleaseScratch, ReleaseNoMem, fmmVars, vars
    <2>5. ASSUME NEW b \in Apertures, Evict(b) PROVE UNCHANGED draining
      BY <2>5 DEF Evict
    <2>6. ASSUME Exit \/ UNCHANGED vars PROVE UNCHANGED draining
      BY <2>6 DEF Exit, fmmVars, vars
    <2> QED
      BY <2>1, <2>2, <2>3, <2>4, <2>5, <2>6 DEF Next, Release
  <1> DEFINE Kept == ~faulted' => \A v \in ScratchLeft' : Whole(v)'
  <1>2. ASSUME UNCHANGED <<tree, live, mapped, faulted>> PROVE Kept
    BY <1>2, WholeKept DEF ScratchLeft
  <1>3. ASSUME NEW v \in Areas, MapToGPU(v) PROVE Kept
    <2>1. /\ tree' = tree /\ live' = live /\ faulted' = faulted
          /\ mapped' = [mapped EXCEPT ![v] = live[v]]
      BY <1>3 DEF MapToGPU, fmmVars
    <2> QED
      BY <2>1 DEF ScratchInv, ScratchLeft, Whole, TypeOK
  <1>4. ASSUME NEW v \in Areas, UnmapFromGPU(v) PROVE Kept
    <2>1. PICK stuck \in StillMapped(v) : /\ mapped' = [mapped EXCEPT ![v] = stuck]
                                          /\ faulted' = (faulted \/ stuck # {})
      BY <1>4 DEF UnmapFromGPU
    <2>2. tree' = tree /\ live' = live
      BY <1>4 DEF UnmapFromGPU, fmmVars
    <2> QED
      BY <2>1, <2>2 DEF ScratchInv, ScratchLeft, Whole, TypeOK
  <1>5. ASSUME NEW v \in Areas, Allocate(v) PROVE Kept
    <2>1. /\ tree' = tree \union {v} /\ faulted' = faulted
          /\ live' = [live EXCEPT ![v] = Handles] /\ mapped' = [mapped EXCEPT ![v] = {}]
      BY <1>5 DEF Allocate
    <2> QED
      BY <2>1 DEF ScratchInv, ScratchLeft, Whole, TypeOK
  <1>6. ASSUME NEW v \in Areas, ReleaseScratch(v) PROVE Kept
    <2> SUFFICES ASSUME ~faulted', NEW w \in ScratchLeft' PROVE Whole(w)'
      OBVIOUS
    <2>1. PICK failed \in SUBSET live[v] :
            /\ live' = [live EXCEPT ![v] = live[v] \intersect (mapped[v] \union failed)]
            /\ faulted' = (faulted \/ failed # {})
            /\ IF live'[v] = {} /\ live[v] = Handles
                 THEN DropObject(v) ELSE UNCHANGED <<reserved, tree, orphan>>
      BY <1>6 DEF ReleaseScratch, BoFree
    <2>2. mapped' = [mapped EXCEPT ![v] = mapped[v] \intersect live'[v]]
      BY <1>6 DEF ReleaseScratch
    <2>3. ~faulted /\ failed = {} /\ w \in ScratchLeft
      BY <2>1 DEF ScratchLeft, DropObject
    <2>4. Whole(w)
      BY <2>3 DEF ScratchInv
    <2>5. CASE w # v
      BY <2>1, <2>2, <2>4, <2>5 DEF Whole, TypeOK
    <2>6. CASE w = v
      <3>1. live[v] = Handles /\ mapped[v] \in {{}, Handles}
        BY <2>4, <2>6 DEF Whole
      <3>2. live'[v] = live[v] \intersect mapped[v]
            /\ mapped'[v] = mapped[v] \intersect live'[v]
        BY <2>1, <2>2, <2>3 DEF TypeOK
      <3>3. CASE mapped[v] = {} /\ Handles # {}
        <4>1. tree' = tree \ {v}
          BY <2>1, <3>1, <3>2, <3>3 DEF DropObject
        <4> QED
          BY <2>6, <4>1 DEF ScratchLeft
      <3> QED
        BY <2>6, <3>1, <3>2, <3>3 DEF Whole
    <2> QED
      BY <2>5, <2>6
  <1>7. ASSUME NEW v \in Areas, ReleaseNoMem(v) PROVE Kept
    <2>1. /\ tree' = tree \ {v} /\ (~faulted' => ~faulted)
          /\ \A w \in Areas : w # v => live'[w] = live[w] /\ mapped'[w] = mapped[w]
      BY <1>7 DEF ReleaseNoMem, BoFree, DropObject, TypeOK
    <2>2. \A w \in ScratchLeft' : w \in Areas /\ w # v
      BY <1>0, <2>1 DEF ScratchLeft, TypeOK
    <2> QED
      BY <2>1, <2>2, WholeKept
  <1>8. ASSUME NEW b \in Apertures, Evict(b) PROVE Kept
    <2>1. PICK v : v = Head(fifo[b])
      OBVIOUS
    <2>2. fifo[b] \in Seq(Areas) /\ fifo[b] # << >>
      BY <1>8 DEF Evict, Pop, TypeOK
    <2>3. v \in Areas
      BY <2>1, <2>2, TailFacts
    <2>4. /\ tree' = tree \ {v} /\ mapped' = [mapped EXCEPT ![v] = {}]
          /\ \E stuck, failed : /\ BoFree(v, stuck, failed)
                                /\ faulted' = (faulted \/ failed # {}
                                               \/ (stuck # {} /\ KernelFaults))
      BY <1>8, <2>1 DEF Evict, DropObject
    <2>5. /\ ~faulted' => ~faulted
          /\ \A w \in Areas : w # v => live'[w] = live[w] /\ mapped'[w] = mapped[w]
      BY <2>3, <2>4 DEF BoFree, TypeOK
    <2>6. \A w \in ScratchLeft' : w \in Areas /\ w # v
      BY <1>0, <2>4 DEF ScratchLeft, TypeOK
    <2> QED
      BY <2>4, <2>5, <2>6, WholeKept
  <1>9. ASSUME NEW v \in Areas,
               ReleaseAgain(v) \/ ReleasePark(v) \/ Launch(v) \/ Retire(v)
        PROVE  UNCHANGED <<tree, live, mapped, faulted>>
    BY <1>9 DEF ReleaseAgain, ReleasePark, Launch, Retire, fmmVars, kfdVars, vars
  <1>10. ASSUME NEW b \in Apertures, DrainDone(b)
         PROVE  UNCHANGED <<tree, live, mapped, faulted>>
    BY <1>10 DEF DrainDone, kfdVars
  <1>11. ASSUME Exit \/ UNCHANGED vars
         PROVE  UNCHANGED <<tree, live, mapped, faulted>>
    BY <1>11 DEF Exit, fmmVars, kfdVars, vars
  <1>12. Kept
    BY <1>2, <1>3, <1>4, <1>5, <1>6, <1>7, <1>8, <1>9, <1>10, <1>11
    DEF Next, Release
  <1> QED
    BY <1>1, <1>12 DEF ScratchInv

(* A turn of fmm_release_scratch's loop.                                   *)
LEMMA TeardownStep ==
  ASSUME TypeOK, IInv, ScratchInv, TeardownScratch, ~faulted'
  PROVE  Nearer
  <1>1. PICK v \in tree : /\ IsScratch(ApertureOf[v])
                          /\ IF mapped[v] # {} THEN UnmapFromGPU(v) ELSE Release(v)
    BY DEF TeardownScratch
  <1>2. v \in ScratchLeft /\ v \in Areas /\ ~deferred[v]
    BY <1>1 DEF ScratchLeft, TypeOK, IInv, ScratchEmpty, IsScratch
  <1>3. CASE mapped[v] # {}
    <2>1. PICK stuck : /\ mapped' = [mapped EXCEPT ![v] = stuck]
                       /\ faulted' = (faulted \/ stuck # {})
      BY <1>1, <1>3 DEF UnmapFromGPU
    <2>2. tree' = tree
      BY <1>1, <1>3 DEF UnmapFromGPU, fmmVars
    <2>3. ScratchLeft' = ScratchLeft
      BY <2>2 DEF ScratchLeft, IsScratch
    <2>4. mapped'[v] = {} /\ \A w \in Areas : w # v => mapped'[w] = mapped[w]
      BY <1>2, <2>1 DEF TypeOK
    <2>5. ScratchLeft \subseteq Areas
      BY DEF ScratchLeft, TypeOK
    <2>6. ScratchMapped' \subseteq ScratchMapped
      BY <2>3, <2>4, <2>5 DEF ScratchMapped
    <2>7. v \in ScratchMapped /\ v \notin ScratchMapped'
      BY <1>2, <1>3, <2>4 DEF ScratchMapped
    <2> QED
      BY <2>3, <2>6, <2>7 DEF Nearer
  <1>4. CASE mapped[v] = {}
    <2>1. ReleaseScratch(v)
      BY <1>1, <1>2, <1>4 DEF Release, ReleaseAgain, ReleasePark, ReleaseNoMem
    <2>2. PICK failed \in SUBSET live[v] :
            /\ live' = [live EXCEPT ![v] = live[v] \intersect (mapped[v] \union failed)]
            /\ faulted' = (faulted \/ failed # {})
            /\ IF live'[v] = {} /\ live[v] = Handles
                 THEN DropObject(v) ELSE UNCHANGED <<reserved, tree, orphan>>
      BY <2>1 DEF ReleaseScratch, BoFree
    <2>3. ~faulted /\ failed = {}
      BY <2>2
    <2>4. live[v] = Handles
      BY <1>2, <2>3 DEF ScratchInv, Whole
    <2>5. live'[v] = {}
      BY <1>2, <1>4, <2>2, <2>3 DEF TypeOK
    <2>6. tree' = tree \ {v}
      BY <2>2, <2>4, <2>5 DEF DropObject
    <2>7. /\ ScratchLeft' \subseteq ScratchLeft
          /\ v \notin ScratchLeft'
      BY <2>6 DEF ScratchLeft, IsScratch
    <2>8. \A w \in Areas : w # v => mapped'[w] = mapped[w]
      BY <2>1 DEF ReleaseScratch, TypeOK
    <2>9. ScratchLeft \subseteq Areas
      BY DEF ScratchLeft, TypeOK
    <2>10. ScratchMapped' \subseteq ScratchMapped
      BY <2>7, <2>8, <2>9 DEF ScratchMapped
    <2> QED
      BY <1>2, <2>7, <2>10 DEF Nearer
  <1> QED
    BY <1>3, <1>4

(* fmm_release_scratch finds every object of a scratch tree releasable and *)
(* comes nearer to the empty tree with every turn, whatever the other      *)
(* apertures do meanwhile: it ends unless an ioctl fails.                  *)
THEOREM ScratchTeardown == Spec => []ScratchReleasable /\ TeardownAdvances
  <1>1. Init => ScratchInv
    BY AreaAssumption DEF Init, ScratchInv, ScratchLeft
  <1>2. TypeOK /\ IInv /\ ScratchInv /\ [Next]_vars => ScratchInv'
    BY ScratchStep
  <1>3. TypeOK /\ IInv /\ ScratchInv => ScratchReleasable
    BY DEF IInv, ScratchEmpty, ScratchInv, ScratchReleasable, ScratchLeft,
           Releasable, IsScratch
  <1>4. ASSUME TypeOK, IInv, ScratchInv, [Next]_vars
        PROVE  [TeardownScratch => faulted' \/ Nearer]_vars
    BY <1>4, TeardownStep
  <1>5. TeardownAdvances <=> [][TeardownScratch => faulted' \/ Nearer]_vars
    BY DEF TeardownAdvances
  <1> QED
    BY <1>1, <1>2, <1>3, <1>4, <1>5, Inductive, PTL DEF Spec

=============================================================================
