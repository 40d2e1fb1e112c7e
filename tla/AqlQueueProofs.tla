--------------------------- MODULE AqlQueueProofs ---------------------------
(***************************************************************************)
(* The safety of the AQL ring, for every ring size, number of producers    *)
(* and chunk size: packets are neither overwritten nor fetched out of      *)
(* order, and the masked doorbell says exactly what is left.               *)
(***************************************************************************)
EXTENDS AqlQueue, TLAPS

\* A producer with packets still to put into the ring: First(p)..LastId(p).
Unfilled(p) == pc[p] \in {"slot", "fill"}
First(p)    == base[p] + filled[p]
Rung(p)     == pc[p] \in {"lock", "mark", "ring", "unlock"}
InLock(p)   == pc[p] \in {"mark", "ring", "unlock"}

\* Chunks lie between the read and the write pointer, and a chunk that has its
\* slots, or is in the ring, ends at most a ring after the read pointer.
ChunkOK(p) ==
    /\ Unfilled(p) => filled[p] < count[p] /\ read_dispatch_id <= First(p)
    /\ pc[p] # "idle" => LegacyId(p) <= write_dispatch_id
    /\ pc[p] = "fill" \/ Rung(p) => LegacyId(p) <= read_dispatch_id + Size

ChunksOK == \A p \in Producers : ChunkOK(p)

\* No two producers have the same packet to write.
Apart ==
    \A p, q \in Producers :
        p # q /\ Unfilled(p) /\ Unfilled(q) =>
            LastId(p) < First(q) \/ LastId(q) < First(p)

\* A packet in the ring stands in its own slot, has not been fetched, and is
\* nobody's still to write.
HeaderOK(s) ==
    header[s] # INVALID =>
        /\ read_dispatch_id <= header[s]
        /\ header[s] < read_dispatch_id + Size
        /\ header[s] % Size = s
        /\ header[s] < write_dispatch_id
        /\ \A p \in Producers : Unfilled(p) =>
              header[s] < First(p) \/ header[s] > LastId(p)

HeadersOK == \A s \in Slots : HeaderOK(s)

\* The watermark is at most a ring ahead of the CP, whose write pointer is the
\* watermark's mask or, while the lock's holder has yet to ring, an older one.
BellOK ==
    /\ read_dispatch_id <= write_dispatch_id
    /\ watermark <= read_dispatch_id + Size
    /\ \E w \in read_dispatch_id..watermark : wptr = Masked(w)
    /\ (\A p \in Producers : pc[p] # "ring") => wptr = Masked(watermark)

\* The spinlock excludes, and its holder rings for the watermark it stored.
LockOK ==
    \A p \in Producers :
        /\ InLock(p) => lock = p
        /\ pc[p] = "ring" => watermark = LegacyId(p)

RingInv == TypeOK /\ ChunksOK /\ Apart /\ HeadersOK /\ BellOK /\ LockOK

-----------------------------------------------------------------------------
(***************************************************************************)
(* Arithmetic of slots and masks.                                          *)
(***************************************************************************)
\* A remainder lies in its range.
LEMMA ModRange ==
    ASSUME NEW m \in Nat \ {0}, NEW i \in Int
    PROVE  i % m \in 0..(m - 1)
  OBVIOUS

\* Quotient and remainder.
LEMMA DivMod ==
    ASSUME NEW m \in Nat \ {0}, NEW i \in Int
    PROVE  i \div m \in Int /\ i = m * (i \div m) + (i % m)
  OBVIOUS

\* The only multiple of m closer to zero than m is zero.
LEMMA NoMultiple ==
    ASSUME NEW m \in Nat \ {0}, NEW q \in Int, NEW d \in Int,
           d = m * q, -m < d, d < m
    PROVE  d = 0
  <1>1. CASE q >= 1
    <2>1. m * q >= m
      BY <1>1
    <2> QED BY <2>1
  <1>2. CASE q <= -1
    <2>1. m * q <= -m
      BY <1>2
    <2> QED BY <2>1
  <1>3. CASE q = 0
    BY <1>3
  <1> QED BY <1>1, <1>2, <1>3

\* Products distribute over a difference.
LEMMA Distribute ==
    ASSUME NEW m \in Int, NEW p \in Int, NEW q \in Int
    PROVE  m * p - m * q = m * (p - q) /\ m * (p - q) \in Int
  OBVIOUS

\* Two ids of the same lap in the same slot are the same id.
LEMMA SameSlot ==
    ASSUME NEW m \in Nat \ {0}, NEW i \in Int, NEW j \in Int,
           i % m = j % m, i - j < m, j - i < m
    PROVE  i = j
  <1> DEFINE p == i \div m
             q == j \div m
             r == i % m
  <1>1. p \in Int /\ q \in Int /\ r \in Int
    BY DivMod, ModRange
  <1>2. i = m * p + r /\ j = m * q + r
    BY DivMod
  <1>3. m * p \in Int /\ m * q \in Int
    BY <1>1
  <1> HIDE DEF p, q, r
  <1>4. i - j = m * p - m * q
    BY <1>1, <1>2, <1>3
  <1>5. i - j = m * (p - q)
    BY <1>4, <1>1, Distribute
  <1>6. p - q \in Int
    BY <1>1
  <1>7. i - j = 0
    BY <1>5, <1>6, NoMultiple
  <1> QED BY <1>7

\* The distance of two masked pointers less than the mask apart.
LEMMA ModDiff ==
    ASSUME NEW m \in Nat \ {0}, NEW i \in Nat, NEW j \in Nat,
           j <= i, i - j < m
    PROVE  ((i % m) - (j % m)) % m = i - j
  <1> DEFINE p == i \div m
             q == j \div m
             r == i % m
             s == j % m
             d == r - s
             t == d \div m
             u == d % m
  <1>1. p \in Int /\ q \in Int /\ r \in Int /\ s \in Int
    BY DivMod, ModRange
  <1>2. i = m * p + r /\ j = m * q + s
    BY DivMod
  <1>3. d \in Int
    BY <1>1
  <1>4. t \in Int /\ u \in 0..(m - 1) /\ d = m * t + u
    BY <1>3, DivMod, ModRange
  <1>5. m * p \in Int /\ m * q \in Int /\ m * t \in Int
    BY <1>1, <1>4
  <1>6. r - s = m * t + u
    BY <1>4
  <1>16. ((i % m) - (j % m)) % m = u
    OBVIOUS
  <1> HIDE DEF p, q, r, s, d, t, u
  <1>7. (i - j) - u = m * p - m * q + m * t
    BY <1>1, <1>2, <1>4, <1>5, <1>6
  <1>8. p - q \in Int /\ -t \in Int /\ (p - q) - (-t) \in Int
    BY <1>1, <1>4
  <1>9. m * p - m * q = m * (p - q) /\ m * (p - q) \in Int
    BY <1>1, Distribute
  <1>10. m * (-t) = -(m * t)
    BY <1>4
  <1>11. m * (p - q) - m * (-t) = m * ((p - q) - (-t))
    BY <1>8, Distribute
  <1>12. (i - j) - u = m * ((p - q) - (-t))
    BY <1>5, <1>7, <1>9, <1>10, <1>11
  <1>13. (i - j) - u \in Int /\ -m < (i - j) - u /\ (i - j) - u < m
    BY <1>4
  <1>14. (i - j) - u = 0
    BY <1>8, <1>12, <1>13, NoMultiple
  <1>15. u = i - j
    BY <1>4, <1>14
  <1> QED BY <1>15, <1>16

-----------------------------------------------------------------------------
(***************************************************************************)
(* Facts of every state.                                                   *)
(***************************************************************************)
Modulus == IF doorbell_type = 0 THEN 2 * Size ELSE Wrap

\* The mask is of the doubled ring at least.
LEMMA ModulusLarge == Modulus \in Nat \ {0} /\ Size < Modulus
  <1>1. Size \in Nat /\ Size > 1
    BY AqlAssumption DEF AqlAssumption
  <1>2. PICK k \in 2..Wrap : Wrap = k * Size
    BY AqlAssumption DEF AqlAssumption
  <1>3. Wrap \in Nat /\ Size < Wrap
    <2>1. k \in Nat /\ k >= 2
      BY <1>2
    <2>2. k * Size >= 2 * Size /\ k * Size \in Nat
      BY <1>1, <2>1
    <2> QED BY <1>1, <1>2, <2>2
  <1> QED BY <1>1, <1>3 DEF Modulus

\* A masked id is its remainder.
LEMMA MaskedIsMod == ASSUME NEW i \in Int PROVE Masked(i) = i % Modulus
  BY DEF Masked, Modulus

\* A masked id is a natural number.
LEMMA MaskedNat == ASSUME NEW i \in Nat PROVE Masked(i) \in Nat
  <1>1. i % Modulus \in 0..(Modulus - 1)
    BY ModulusLarge, ModRange
  <1> QED BY <1>1, MaskedIsMod, ModulusLarge

\* What a producer's chunk is, in numbers.
LEMMA ChunkNumbers ==
    ASSUME TypeOK, NEW p \in Producers
    PROVE  /\ base[p] \in Nat /\ count[p] \in Nat /\ filled[p] \in Nat
           /\ left[p] \in Nat
           /\ First(p) = base[p] + filled[p]
           /\ LastId(p) = base[p] + count[p] - 1
           /\ LegacyId(p) = base[p] + count[p]
  BY DEF TypeOK, First, LastId, LegacyId

\* The ring has slots.
LEMMA SizeNat == Size \in Nat \ {0}
  BY AqlAssumption DEF AqlAssumption

\* Every id has a slot.
LEMMA SlotOf == ASSUME NEW i \in Int PROVE i % Size \in Slots
  BY SizeNat, ModRange DEF Slots

\* A packet's slot is free when WaitForQueueSlot has let its producer through.
LEMMA SlotFree ==
    ASSUME RingInv, NEW p \in Producers, pc[p] = "fill"
    PROVE  header[First(p) % Size] = INVALID
  <1>1. TypeOK /\ ChunkOK(p)
    BY DEF RingInv, ChunksOK
  <1>2. First(p) \in Nat /\ LastId(p) \in Int
    BY <1>1, ChunkNumbers
  <1> DEFINE s == First(p) % Size
             h == header[s]
  <1>3. s \in Slots
    BY <1>2, SlotOf
  <1>4. h \in Nat \cup {INVALID}
    BY <1>1, <1>3 DEF TypeOK
  <1>5. SUFFICES ASSUME h # INVALID PROVE FALSE
    OBVIOUS
  <1>6. h \in Nat
    BY <1>4, <1>5
  <1>7. HeaderOK(s)
    BY <1>3 DEF RingInv, HeadersOK
  <1>8. /\ read_dispatch_id <= h /\ h < read_dispatch_id + Size
        /\ h % Size = s
        /\ h < First(p) \/ h > LastId(p)
    BY <1>5, <1>7 DEF HeaderOK, Unfilled
  <1>9. /\ read_dispatch_id \in Nat
        /\ read_dispatch_id <= First(p) /\ First(p) <= LastId(p)
        /\ First(p) < read_dispatch_id + Size
    <2>1. /\ filled[p] < count[p] /\ read_dispatch_id <= First(p)
          /\ LegacyId(p) <= read_dispatch_id + Size
      BY <1>1 DEF ChunkOK, Unfilled
    <2>2. read_dispatch_id \in Nat
      BY <1>1 DEF TypeOK
    <2> QED BY <1>1, <2>1, <2>2, ChunkNumbers, SizeNat
  <1>10. h - First(p) < Size /\ First(p) - h < Size
    BY <1>2, <1>6, <1>8, <1>9, SizeNat
  <1>11. h = First(p)
    BY <1>2, <1>6, <1>8, <1>10, SizeNat, SameSlot DEF s
  <1> QED BY <1>2, <1>8, <1>9, <1>11

\* The packet at the read pointer is the one with that id.
LEMMA HeadOfRing ==
    ASSUME RingInv, header[read_dispatch_id % Size] # INVALID
    PROVE  header[read_dispatch_id % Size] = read_dispatch_id
  <1> DEFINE s == read_dispatch_id % Size
             h == header[s]
  <1>1. TypeOK /\ read_dispatch_id \in Nat
    BY DEF RingInv, TypeOK
  <1>2. s \in Slots
    BY <1>1, SlotOf
  <1>3. h \in Nat
    BY <1>1, <1>2 DEF TypeOK
  <1>4. HeaderOK(s)
    BY <1>2 DEF RingInv, HeadersOK
  <1>5. /\ read_dispatch_id <= h /\ h < read_dispatch_id + Size
        /\ h % Size = s
    BY <1>4 DEF HeaderOK
  <1>6. s = read_dispatch_id % Size
    OBVIOUS
  <1> HIDE DEF s, h
  <1>7. h - read_dispatch_id < Size /\ read_dispatch_id - h < Size
    BY <1>1, <1>3, <1>5, SizeNat
  <1>8. h % Size = read_dispatch_id % Size
    BY <1>5, <1>6
  <1>9. h \in Int /\ read_dispatch_id \in Int
    BY <1>1, <1>3
  <1>10. h = read_dispatch_id
    BY <1>7, <1>8, <1>9, SizeNat, SameSlot
  <1> QED BY <1>10 DEF h, s

-----------------------------------------------------------------------------
(***************************************************************************)
(* The consequences of the invariant.                                      *)
(***************************************************************************)
\* The invariant implies the three safety properties.
LEMMA Consequences ==
    ASSUME RingInv PROVE NoOverwrite /\ FetchInOrder /\ DoorbellExact
  <1>1. NoOverwrite
    BY SlotFree DEF NoOverwrite, First
  <1>2. FetchInOrder
    BY DEF RingInv, HeadersOK, HeaderOK, FetchInOrder
  <1>3. DoorbellExact
    <2>1. /\ read_dispatch_id \in Nat /\ watermark \in Nat /\ wptr \in Nat
          /\ watermark <= read_dispatch_id + Size
          /\ (\A p \in Producers : pc[p] # "ring") => wptr = Masked(watermark)
      BY DEF RingInv, TypeOK, BellOK
    <2>2. PICK w \in read_dispatch_id..watermark : wptr = Masked(w)
      BY DEF RingInv, BellOK
    <2>3. Pending = (wptr - Masked(read_dispatch_id)) % Modulus
      BY DEF Pending, Modulus
    <2>4. ASSUME NEW v \in read_dispatch_id..watermark, wptr = Masked(v)
          PROVE  Pending = v - read_dispatch_id
      <3>1. v \in Nat /\ read_dispatch_id <= v /\ v - read_dispatch_id < Modulus
        BY <2>1, ModulusLarge, SizeNat
      <3>2. Pending = ((v % Modulus) - (read_dispatch_id % Modulus)) % Modulus
        BY <2>1, <2>3, <2>4, <3>1, MaskedIsMod
      <3> QED BY <2>1, <3>1, <3>2, ModulusLarge, ModDiff
    <2>5. read_dispatch_id + Pending <= watermark
      BY <2>1, <2>2, <2>4
    <2>6. watermark \in read_dispatch_id..watermark
      BY <2>1, <2>2
    <2>7. (\A p \in Producers : pc[p] # "ring") =>
              Pending = watermark - read_dispatch_id
      BY <2>1, <2>4, <2>6
    <2> QED BY <2>5, <2>7 DEF DoorbellExact
  <1> QED BY <1>1, <1>2, <1>3

-----------------------------------------------------------------------------
(***************************************************************************)
(* The invariant is inductive: one lemma for each action.                  *)
(***************************************************************************)
\* A new queue satisfies the invariant.
LEMMA InitInv == Init => RingInv
  <1> SUFFICES ASSUME Init PROVE RingInv
    OBVIOUS
  <1>1. TypeOK
    BY AqlAssumption DEF AqlAssumption, Init, TypeOK, Slots, Free
  <1>2. ChunksOK /\ Apart /\ HeadersOK /\ LockOK
    BY DEF Init, ChunksOK, ChunkOK, Apart, HeadersOK, HeaderOK, LockOK,
           Unfilled, Rung, InLock
  <1>3. BellOK
    <2>1. 0 % Modulus = 0
      BY ModulusLarge
    <2>2. Masked(0) = 0
      BY <2>1, MaskedIsMod
    <2> QED BY <2>2, SizeNat DEF Init, BellOK
  <1> QED BY <1>1, <1>2, <1>3 DEF RingInv

\* While nothing moves but program counters, and no producer gets new packets
\* to write, chunks stay apart and headers right.
LEMMA RingKept ==
    ASSUME RingInv,
           UNCHANGED <<header, read_dispatch_id, write_dispatch_id,
                       base, count, filled>>,
           \A q \in Producers : Unfilled(q)' => Unfilled(q)
    PROVE  Apart' /\ HeadersOK'
  <1>1. \A q \in Producers : First(q)' = First(q) /\ LastId(q)' = LastId(q)
    BY DEF First, LastId
  <1>2. Apart'
    BY <1>1 DEF RingInv, Apart
  <1>3. HeadersOK'
    BY <1>1 DEF RingInv, HeadersOK, HeaderOK
  <1> QED BY <1>2, <1>3

\* While a producer that is not about to ring moves, and the doorbell does not,
\* the doorbell stays right.
LEMMA BellKept ==
    ASSUME RingInv, NEW p \in Producers, pc[p] # "ring",
           \A q \in Producers \ {p} : pc'[q] = pc[q],
           UNCHANGED <<doorbell_type, read_dispatch_id, watermark, wptr>>,
           write_dispatch_id' \in Nat, write_dispatch_id <= write_dispatch_id'
    PROVE  BellOK'
  <1>1. \A i : Masked(i)' = Masked(i)
    BY DEF Masked
  <1>2. read_dispatch_id \in Nat /\ write_dispatch_id \in Nat
    BY DEF RingInv, TypeOK
  <1>3. (read_dispatch_id <= write_dispatch_id)'
    BY <1>2 DEF RingInv, BellOK
  <1>4. (watermark <= read_dispatch_id + Size)'
    BY DEF RingInv, BellOK
  <1>5. (\E w \in read_dispatch_id..watermark : wptr = Masked(w))'
    BY <1>1 DEF RingInv, BellOK
  <1>6. ((\A q \in Producers : pc[q] # "ring") => wptr = Masked(watermark))'
    BY <1>1 DEF RingInv, BellOK
  <1> QED BY <1>3, <1>4, <1>5, <1>6 DEF BellOK

\* While nothing but a program counter moves, the other chunks are unchanged.
LEMMA ChunkKept ==
    ASSUME RingInv, NEW q \in Producers, pc'[q] = pc[q],
           UNCHANGED <<read_dispatch_id, write_dispatch_id>>,
           base'[q] = base[q], count'[q] = count[q], filled'[q] = filled[q]
    PROVE  ChunkOK(q)'
  <1>1. First(q)' = First(q) /\ LegacyId(q)' = LegacyId(q)
    BY DEF First, LegacyId, LastId
  <1> QED BY <1>1 DEF RingInv, ChunksOK, ChunkOK, Unfilled, Rung

\* A producer that takes ids takes them behind everybody else's.
LEMMA ReserveInv ==
    ASSUME RingInv, NEW p \in Producers, Reserve(p) PROVE RingInv'
  <1>1. TypeOK
    BY DEF RingInv
  <1>2. PICK n \in ChunkSizes(p) :
            /\ count' = [count EXCEPT ![p] = n]
            /\ left' = [left EXCEPT ![p] = left[p] - n]
            /\ write_dispatch_id' = write_dispatch_id + n
    BY DEF Reserve
  <1>3. /\ pc[p] = "idle"
        /\ base' = [base EXCEPT ![p] = write_dispatch_id]
        /\ filled' = [filled EXCEPT ![p] = 0]
        /\ pc' = [pc EXCEPT ![p] = "slot"]
        /\ UNCHANGED <<doorbell_type, read_dispatch_id, header, lock,
                       watermark, wptr>>
    BY DEF Reserve, Goto
  <1>4. n \in Nat /\ 1 <= n /\ n <= left[p]
    BY <1>2 DEF ChunkSizes
  <1>5. TypeOK'
    BY <1>1, <1>2, <1>3, <1>4 DEF TypeOK
  <1>6. /\ pc'[p] = "slot" /\ base'[p] = write_dispatch_id
        /\ count'[p] = n /\ filled'[p] = 0
        /\ \A q \in Producers \ {p} :
              /\ pc'[q] = pc[q] /\ base'[q] = base[q]
              /\ count'[q] = count[q] /\ filled'[q] = filled[q]
    BY <1>1, <1>2, <1>3 DEF TypeOK
  <1>7. /\ write_dispatch_id \in Nat /\ read_dispatch_id \in Nat
        /\ read_dispatch_id <= write_dispatch_id
    BY <1>1 DEF TypeOK, RingInv, BellOK
  <1>8. /\ First(p)' = write_dispatch_id
        /\ LastId(p)' = write_dispatch_id + n - 1
        /\ LegacyId(p)' = write_dispatch_id + n
    BY <1>4, <1>6, <1>7 DEF First, LastId, LegacyId
  <1>9. \A q \in Producers \ {p} :
            /\ First(q)' = First(q) /\ LastId(q)' = LastId(q)
            /\ LegacyId(q)' = LegacyId(q)
            /\ Unfilled(q)' = Unfilled(q) /\ Rung(q)' = Rung(q)
    BY <1>6 DEF First, LastId, LegacyId, Unfilled, Rung
  <1>10. ChunksOK'
    <2>1. ChunkOK(p)'
      BY <1>2, <1>3, <1>4, <1>6, <1>7, <1>8 DEF ChunkOK, Unfilled, Rung
    <2>2. ASSUME NEW q \in Producers \ {p} PROVE ChunkOK(q)'
      <3>1. ChunkOK(q) /\ LegacyId(q) \in Int
        BY <1>1, ChunkNumbers DEF RingInv, ChunksOK
      <3> QED BY <1>2, <1>3, <1>4, <1>6, <1>7, <1>9, <3>1 DEF ChunkOK
    <2> QED BY <2>1, <2>2 DEF ChunksOK
  <1>11. Apart'
    <2>1. ASSUME NEW q \in Producers \ {p}, Unfilled(q)
          PROVE  LastId(q) < write_dispatch_id
      <3>1. LegacyId(q) <= write_dispatch_id
        BY <2>1 DEF RingInv, ChunksOK, ChunkOK, Unfilled
      <3> QED BY <1>1, <1>7, <3>1, ChunkNumbers
    <2>2. ASSUME NEW q \in Producers, NEW r \in Producers, q # r,
                 Unfilled(q)', Unfilled(r)'
          PROVE  (LastId(q) < First(r) \/ LastId(r) < First(q))'
      <3>1. CASE q = p
        BY <1>8, <1>9, <2>1, <2>2, <3>1
      <3>2. CASE r = p
        BY <1>8, <1>9, <2>1, <2>2, <3>2
      <3>3. CASE q # p /\ r # p
        BY <1>9, <2>2, <3>3 DEF RingInv, Apart
      <3> QED BY <3>1, <3>2, <3>3
    <2> QED BY <2>2 DEF Apart
  <1>12. HeadersOK'
    <2>1. ASSUME NEW s \in Slots, header[s] # INVALID PROVE HeaderOK(s)'
      <3>1. HeaderOK(s) /\ header[s] \in Nat
        BY <1>1, <2>1 DEF RingInv, HeadersOK, TypeOK
      <3>2. /\ read_dispatch_id <= header[s]
            /\ header[s] < read_dispatch_id + Size /\ header[s] % Size = s
            /\ header[s] < write_dispatch_id
            /\ \A q \in Producers : Unfilled(q) =>
                  header[s] < First(q) \/ header[s] > LastId(q)
        BY <2>1, <3>1 DEF HeaderOK
      <3>3. header[s] < write_dispatch_id + n
        BY <1>4, <1>7, <3>1, <3>2
      <3>4. \A q \in Producers : Unfilled(q)' =>
                header[s] < First(q)' \/ header[s] > LastId(q)'
        BY <1>8, <1>9, <3>2
      <3> QED BY <1>2, <1>3, <3>2, <3>3, <3>4 DEF HeaderOK
    <2> QED BY <1>3, <2>1 DEF HeadersOK, HeaderOK
  <1>13. BellOK'
    BY <1>2, <1>3, <1>4, <1>6, <1>7, BellKept
  <1>14. LockOK'
    BY <1>3, <1>6, <1>9 DEF RingInv, LockOK, InLock
  <1> QED BY <1>5, <1>10, <1>11, <1>12, <1>13, <1>14 DEF RingInv

\* A chunk that has room ends at most a ring after the read pointer.
LEMMA WaitInv ==
    ASSUME RingInv, NEW p \in Producers, WaitForQueueSlot(p) PROVE RingInv'
  <1>1. TypeOK
    BY DEF RingInv
  <1>2. /\ pc[p] = "slot" /\ HasSlot(p)
        /\ pc' = [pc EXCEPT ![p] = "fill"]
        /\ UNCHANGED <<doorbell_type, write_dispatch_id, read_dispatch_id,
                       header, lock, watermark, wptr, base, count, filled, left>>
    BY DEF WaitForQueueSlot, Goto
  <1>3. TypeOK'
    BY <1>1, <1>2 DEF TypeOK
  <1>4. pc'[p] = "fill" /\ \A q \in Producers \ {p} : pc'[q] = pc[q]
    BY <1>1, <1>2 DEF TypeOK
  <1>5. ChunksOK'
    <2>1. ChunkOK(p)'
      <3>1. LegacyId(p) <= read_dispatch_id + Size
        <4>1. LastId(p) - read_dispatch_id < Size
          <5>1. Capacity(p) \in Int /\ Capacity(p) <= Size
            BY SizeNat DEF Capacity
          <5> QED BY <1>1, <1>2, <5>1, ChunkNumbers, SizeNat DEF HasSlot, TypeOK
        <4> QED BY <1>1, <4>1, ChunkNumbers, SizeNat DEF TypeOK
      <3>2. First(p)' = First(p) /\ LegacyId(p)' = LegacyId(p)
        BY <1>2 DEF First, LegacyId, LastId
      <3> QED BY <1>2, <1>4, <3>1, <3>2
              DEF RingInv, ChunksOK, ChunkOK, Unfilled, Rung
    <2> QED BY <1>2, <1>4, <2>1, ChunkKept DEF ChunksOK
  <1>6. Apart' /\ HeadersOK'
    BY <1>2, <1>4, RingKept DEF Unfilled
  <1>7. BellOK'
    BY <1>1, <1>2, <1>4, BellKept DEF TypeOK
  <1>8. LockOK'
    <2>1. \A q \in Producers : LegacyId(q)' = LegacyId(q)
      BY <1>2 DEF LegacyId, LastId
    <2> QED BY <1>2, <1>4, <2>1 DEF RingInv, LockOK, InLock
  <1> QED BY <1>3, <1>5, <1>6, <1>7, <1>8 DEF RingInv

\* A packet goes into its own, free slot, and stops being anybody's to write.
LEMMA FillInv ==
    ASSUME RingInv, NEW p \in Producers, FillPacket(p) PROVE RingInv'
  <1>1. TypeOK /\ ChunkOK(p)
    BY DEF RingInv, ChunksOK
  <1>2. PICK f : f = First(p)
    OBVIOUS
  <1>3. PICK t : t = f % Size
    OBVIOUS
  <1>4. /\ pc[p] = "fill"
        /\ header' = [header EXCEPT ![t] = f]
        /\ filled' = [filled EXCEPT ![p] = filled[p] + 1]
        /\ pc' = [pc EXCEPT ![p] = IF filled[p] + 1 = count[p] THEN "lock"
                                                              ELSE "fill"]
        /\ UNCHANGED <<doorbell_type, write_dispatch_id, read_dispatch_id,
                       lock, watermark, wptr, base, count, left>>
    BY <1>3, <1>2 DEF FillPacket, Goto, First
  <1>5. f \in Nat /\ filled[p] \in Nat /\ count[p] \in Nat
    BY <1>1, <1>2, ChunkNumbers
  <1>6. t \in Slots
    BY <1>5, <1>3, SlotOf
  <1>7. TypeOK'
    BY <1>1, <1>4, <1>5, <1>6 DEF TypeOK
  <1>8. /\ pc'[p] = (IF filled[p] + 1 = count[p] THEN "lock" ELSE "fill")
        /\ filled'[p] = filled[p] + 1
        /\ \A q \in Producers \ {p} : pc'[q] = pc[q] /\ filled'[q] = filled[q]
    BY <1>1, <1>4 DEF TypeOK
  <1>9. /\ header'[t] = f
        /\ \A s \in Slots \ {t} : header'[s] = header[s]
    BY <1>1, <1>4, <1>6 DEF TypeOK
  <1>10. /\ First(p)' = f + 1 /\ LastId(p)' = LastId(p)
         /\ LegacyId(p)' = LegacyId(p)
    <2>1. base[p] \in Nat /\ f = base[p] + filled[p]
      BY <1>1, <1>2, ChunkNumbers
    <2>2. base'[p] + filled'[p] = f + 1
      BY <1>4, <1>5, <1>8, <2>1
    <2> QED BY <1>4, <2>2 DEF First, LastId, LegacyId
  <1>11. \A q \in Producers \ {p} :
            /\ First(q)' = First(q) /\ LastId(q)' = LastId(q)
            /\ LegacyId(q)' = LegacyId(q) /\ Unfilled(q)' = Unfilled(q)
    BY <1>4, <1>8 DEF First, LastId, LegacyId, Unfilled
  <1>12. /\ filled[p] < count[p] /\ read_dispatch_id <= f /\ f <= LastId(p)
         /\ LegacyId(p) <= write_dispatch_id
         /\ LegacyId(p) <= read_dispatch_id + Size
         /\ f < LegacyId(p)
    <2>1. /\ filled[p] < count[p] /\ read_dispatch_id <= First(p)
          /\ LegacyId(p) <= write_dispatch_id
          /\ LegacyId(p) <= read_dispatch_id + Size
      BY <1>1, <1>4 DEF ChunkOK, Unfilled
    <2> QED BY <1>1, <1>2, <2>1, ChunkNumbers
  <1>13. /\ read_dispatch_id \in Nat /\ write_dispatch_id \in Nat
         /\ LastId(p) \in Int /\ LegacyId(p) \in Int
    BY <1>1, ChunkNumbers DEF TypeOK
  <1>14. ChunksOK'
    <2>1. (Unfilled(p) => filled[p] < count[p] /\ read_dispatch_id <= First(p))'
      <3>1. Unfilled(p)' => filled[p] + 1 # count[p]
        BY <1>8 DEF Unfilled
      <3>2. filled[p] + 1 # count[p] => filled[p] + 1 < count[p]
        BY <1>5, <1>12
      <3>3. read_dispatch_id <= f + 1
        BY <1>5, <1>12, <1>13
      <3> QED BY <1>4, <1>8, <1>10, <3>1, <3>2, <3>3
    <2>2. ChunkOK(p)'
      BY <1>4, <1>10, <1>12, <2>1 DEF ChunkOK
    <2> QED BY <1>4, <1>8, <2>2, ChunkKept DEF ChunksOK
  <1>15. Apart'
    <2>1. ASSUME NEW q \in Producers \ {p}, Unfilled(q)
          PROVE  LastId(p) < First(q) \/ LastId(q) < f
      BY <1>4, <1>2, <2>1 DEF RingInv, Apart, Unfilled
    <2>2. ASSUME NEW q \in Producers \ {p}, Unfilled(q)
          PROVE  LastId(p) < First(q) \/ LastId(q) < f + 1
      <3>1. LastId(q) \in Int
        BY <1>1, ChunkNumbers
      <3> QED BY <1>5, <2>1, <2>2, <3>1
    <2>3. ASSUME NEW q \in Producers, NEW r \in Producers, q # r,
                 Unfilled(q)', Unfilled(r)'
          PROVE  (LastId(q) < First(r) \/ LastId(r) < First(q))'
      <3>1. CASE q = p
        BY <1>10, <1>11, <2>2, <2>3, <3>1
      <3>2. CASE r = p
        BY <1>10, <1>11, <2>2, <2>3, <3>2
      <3>3. CASE q # p /\ r # p
        BY <1>11, <2>3, <3>3 DEF RingInv, Apart
      <3> QED BY <3>1, <3>2, <3>3
    <2> QED BY <2>3 DEF Apart
  <1>16. HeadersOK'
    <2>1. HeaderOK(t)'
      <3>1. f < read_dispatch_id + Size /\ f < write_dispatch_id
        BY <1>5, <1>12, <1>13, SizeNat
      <3>2. ASSUME NEW q \in Producers, Unfilled(q)'
            PROVE  f < First(q)' \/ f > LastId(q)'
        <4>1. CASE q = p
          BY <1>5, <1>10, <4>1
        <4>2. CASE q # p
          <5>1. LastId(p) < First(q) \/ LastId(q) < f
            BY <1>4, <1>2, <1>11, <3>2, <4>2 DEF RingInv, Apart, Unfilled
          <5>2. First(q) \in Nat /\ LastId(q) \in Int
            BY <1>1, ChunkNumbers
          <5> QED BY <1>5, <1>11, <1>12, <1>13, <4>2, <5>1, <5>2
        <4> QED BY <4>1, <4>2
      <3> QED BY <1>4, <1>3, <1>9, <1>12, <3>1, <3>2 DEF HeaderOK
    <2>2. ASSUME NEW s \in Slots \ {t}, header[s] # INVALID PROVE HeaderOK(s)'
      <3>1. HeaderOK(s) /\ header[s] \in Nat
        BY <1>1, <2>2 DEF RingInv, HeadersOK, TypeOK
      <3>2. /\ read_dispatch_id <= header[s]
            /\ header[s] < read_dispatch_id + Size /\ header[s] % Size = s
            /\ header[s] < write_dispatch_id
            /\ \A q \in Producers : Unfilled(q) =>
                  header[s] < First(q) \/ header[s] > LastId(q)
        BY <2>2, <3>1 DEF HeaderOK
      <3>3. header[s] < f + 1 \/ header[s] > LastId(p)
        <4>1. header[s] < f \/ header[s] > LastId(p)
          BY <1>4, <1>2, <3>2 DEF Unfilled
        <4> QED BY <1>5, <3>1, <4>1
      <3>4. \A q \in Producers : Unfilled(q)' =>
                header[s] < First(q)' \/ header[s] > LastId(q)'
        BY <1>10, <1>11, <3>2, <3>3
      <3> QED BY <1>4, <1>9, <3>2, <3>4 DEF HeaderOK
    <2>3. ASSUME NEW s \in Slots \ {t}, header[s] = INVALID PROVE HeaderOK(s)'
      BY <1>9, <2>3 DEF HeaderOK
    <2> QED BY <2>1, <2>2, <2>3 DEF HeadersOK
  <1>17. BellOK'
    BY <1>4, <1>8, <1>13, BellKept
  <1>18. LockOK'
    BY <1>4, <1>8, <1>10, <1>11 DEF RingInv, LockOK, InLock
  <1> QED BY <1>7, <1>14, <1>15, <1>16, <1>17, <1>18 DEF RingInv

\* A producer that has its chunk in the ring keeps it there as it rings.
LEMMA RungKept ==
    ASSUME RingInv, NEW p \in Producers, Rung(p),
           pc'[p] \in {"lock", "mark", "ring", "unlock", "idle"},
           \A q \in Producers \ {p} : pc'[q] = pc[q],
           UNCHANGED <<write_dispatch_id, read_dispatch_id, header,
                       base, count, filled>>
    PROVE  ChunksOK' /\ Apart' /\ HeadersOK'
  <1>1. ChunkOK(p)'
    <2>1. First(p)' = First(p) /\ LegacyId(p)' = LegacyId(p)
      BY DEF First, LegacyId, LastId
    <2>2. ChunkOK(p)
      BY DEF RingInv, ChunksOK
    <2> QED BY <2>1, <2>2 DEF ChunkOK, Unfilled, Rung
  <1>2. ChunksOK'
    BY <1>1, ChunkKept DEF ChunksOK
  <1>3. \A q \in Producers : Unfilled(q)' => Unfilled(q)
    BY DEF Unfilled
  <1>4. Apart' /\ HeadersOK'
    BY <1>3, RingKept
  <1> QED BY <1>2, <1>4

\* The lock is taken only when nobody has it.
LEMMA AcquireInv ==
    ASSUME RingInv, NEW p \in Producers, AcquireLock(p) PROVE RingInv'
  <1>1. TypeOK
    BY DEF RingInv
  <1>2. /\ pc[p] = "lock" /\ lock = Free /\ lock' = p
        /\ pc' = [pc EXCEPT ![p] = "mark"]
        /\ UNCHANGED <<doorbell_type, write_dispatch_id, read_dispatch_id,
                       header, watermark, wptr, base, count, filled, left>>
    BY DEF AcquireLock, Goto
  <1>3. TypeOK'
    BY <1>1, <1>2 DEF TypeOK
  <1>4. pc'[p] = "mark" /\ \A q \in Producers \ {p} : pc'[q] = pc[q]
    BY <1>1, <1>2 DEF TypeOK
  <1>5. ChunksOK' /\ Apart' /\ HeadersOK'
    BY <1>2, <1>4, RungKept DEF Rung
  <1>6. BellOK'
    BY <1>1, <1>2, <1>4, BellKept DEF TypeOK
  <1>7. LockOK'
    <2>1. \A q \in Producers : ~InLock(q)
      BY <1>2, AqlAssumption DEF AqlAssumption, RingInv, LockOK
    <2> QED BY <1>2, <1>4, <2>1 DEF LockOK, InLock
  <1> QED BY <1>3, <1>5, <1>6, <1>7 DEF RingInv

\* Nobody else is about to ring while a producer holds the lock.
LEMMA Alone ==
    ASSUME RingInv, NEW p \in Producers, InLock(p)
    PROVE  \A q \in Producers \ {p} : ~InLock(q)
  BY DEF RingInv, LockOK

\* The watermark moves to an id a ring at the most ahead of the CP.
LEMMA MarkInv ==
    ASSUME RingInv, NEW p \in Producers, StoreWatermark(p) PROVE RingInv'
  <1>1. TypeOK
    BY DEF RingInv
  <1>2. /\ pc[p] = "mark"
        /\ watermark' = IF News(p) THEN LegacyId(p) ELSE watermark
        /\ pc' = [pc EXCEPT ![p] = IF News(p) THEN "ring" ELSE "unlock"]
        /\ UNCHANGED <<doorbell_type, write_dispatch_id, read_dispatch_id,
                       header, lock, wptr, base, count, filled, left>>
    BY DEF StoreWatermark, Goto
  <1>3. /\ pc'[p] = (IF News(p) THEN "ring" ELSE "unlock")
        /\ \A q \in Producers \ {p} : pc'[q] = pc[q]
    BY <1>1, <1>2 DEF TypeOK
  <1>4. /\ LegacyId(p) \in Nat /\ watermark \in Nat
        /\ read_dispatch_id \in Nat /\ write_dispatch_id \in Nat
    BY <1>1, ChunkNumbers DEF TypeOK
  <1>5. TypeOK'
    BY <1>1, <1>2, <1>4 DEF TypeOK
  <1>6. ChunksOK' /\ Apart' /\ HeadersOK'
    BY <1>2, <1>3, RungKept DEF Rung
  <1>7. \A q \in Producers : pc[q] # "ring"
    BY <1>2, Alone DEF InLock
  <1>8. BellOK'
    <2>1. \A i : Masked(i)' = Masked(i)
      BY <1>2 DEF Masked
    <2>2. LegacyId(p) <= read_dispatch_id + Size
      BY <1>2 DEF RingInv, ChunksOK, ChunkOK, Rung
    <2>3. /\ read_dispatch_id <= write_dispatch_id
          /\ watermark <= read_dispatch_id + Size
          /\ wptr = Masked(watermark)
      BY <1>7 DEF RingInv, BellOK
    <2>4. watermark \in read_dispatch_id..watermark
      BY <1>4 DEF RingInv, BellOK
    <2>5. watermark' \in Nat /\ watermark <= watermark'
      BY <1>2, <1>4 DEF News
    <2>6. watermark \in read_dispatch_id..watermark'
      BY <1>4, <2>4, <2>5
    <2>7. (watermark <= read_dispatch_id + Size)'
      BY <1>2, <2>2, <2>3
    <2>8. (\E w \in read_dispatch_id..watermark : wptr = Masked(w))'
      BY <1>2, <2>1, <2>3, <2>6
    <2>9. ((\A q \in Producers : pc[q] # "ring") => wptr = Masked(watermark))'
      BY <1>2, <1>3, <2>1, <2>3
    <2> QED BY <1>2, <2>3, <2>7, <2>8, <2>9 DEF BellOK
  <1>9. LockOK'
    <2>1. \A q \in Producers : LegacyId(q)' = LegacyId(q)
      BY <1>2 DEF LegacyId, LastId
    <2> QED BY <1>2, <1>3, <1>7, <2>1 DEF RingInv, LockOK, InLock
  <1> QED BY <1>5, <1>6, <1>8, <1>9 DEF RingInv

\* The doorbell write catches up with the watermark.
LEMMA DoorbellInv ==
    ASSUME RingInv, NEW p \in Producers, RingDoorbell(p) PROVE RingInv'
  <1>1. TypeOK
    BY DEF RingInv
  <1>2. /\ pc[p] = "ring" /\ wptr' = Masked(LegacyId(p))
        /\ pc' = [pc EXCEPT ![p] = "unlock"]
        /\ UNCHANGED <<doorbell_type, write_dispatch_id, read_dispatch_id,
                       header, lock, watermark, base, count, filled, left>>
    BY DEF RingDoorbell, Goto
  <1>3. pc'[p] = "unlock" /\ \A q \in Producers \ {p} : pc'[q] = pc[q]
    BY <1>1, <1>2 DEF TypeOK
  <1>4. watermark = LegacyId(p) /\ watermark \in Nat
    BY <1>1, <1>2 DEF RingInv, LockOK, TypeOK
  <1>5. wptr' = Masked(watermark) /\ wptr' \in Nat
    BY <1>2, <1>4, MaskedNat
  <1>6. TypeOK'
    BY <1>1, <1>2, <1>5 DEF TypeOK
  <1>7. ChunksOK' /\ Apart' /\ HeadersOK'
    BY <1>2, <1>3, RungKept DEF Rung
  <1>8. BellOK'
    <2>1. \A i : Masked(i)' = Masked(i)
      BY <1>2 DEF Masked
    <2>2. watermark \in read_dispatch_id..watermark
      BY <1>1, <1>4 DEF RingInv, BellOK, TypeOK
    <2> QED BY <1>2, <1>5, <2>1, <2>2 DEF RingInv, BellOK
  <1>9. LockOK'
    <2>1. \A q \in Producers : LegacyId(q)' = LegacyId(q)
      BY <1>2 DEF LegacyId, LastId
    <2> QED BY <1>2, <1>3, <2>1 DEF RingInv, LockOK, InLock
  <1> QED BY <1>6, <1>7, <1>8, <1>9 DEF RingInv

\* A released lock has no holder.
LEMMA ReleaseInv ==
    ASSUME RingInv, NEW p \in Producers, ReleaseLock(p) PROVE RingInv'
  <1>1. TypeOK
    BY DEF RingInv
  <1>2. /\ pc[p] = "unlock" /\ lock' = Free
        /\ pc' = [pc EXCEPT ![p] = "idle"]
        /\ UNCHANGED <<doorbell_type, write_dispatch_id, read_dispatch_id,
                       header, watermark, wptr, base, count, filled, left>>
    BY DEF ReleaseLock, Goto
  <1>3. TypeOK'
    BY <1>1, <1>2 DEF TypeOK
  <1>4. pc'[p] = "idle" /\ \A q \in Producers \ {p} : pc'[q] = pc[q]
    BY <1>1, <1>2 DEF TypeOK
  <1>5. ChunksOK' /\ Apart' /\ HeadersOK'
    BY <1>2, <1>4, RungKept DEF Rung
  <1>6. BellOK'
    BY <1>1, <1>2, <1>4, BellKept DEF TypeOK
  <1>7. LockOK'
    <2>1. \A q \in Producers \ {p} : ~InLock(q)
      BY <1>2, Alone DEF InLock
    <2> QED BY <1>4, <2>1 DEF LockOK, InLock
  <1> QED BY <1>3, <1>5, <1>6, <1>7 DEF RingInv

\* The CP fetches the packet whose turn it is, and no further than was rung.
LEMMA FetchInv ==
    ASSUME RingInv, CpFetch PROVE RingInv'
  <1>1. TypeOK
    BY DEF RingInv
  <1>2. PICK c : c = read_dispatch_id
    OBVIOUS
  <1>3. PICK t : t = c % Size
    OBVIOUS
  <1>4. /\ wptr # Masked(c) /\ header[t] # INVALID
        /\ header' = [header EXCEPT ![t] = INVALID]
        /\ read_dispatch_id' = c + 1
        /\ UNCHANGED <<doorbell_type, write_dispatch_id, lock, watermark,
                       wptr, pc, base, count, filled, left>>
    BY <1>2, <1>3 DEF CpFetch, CpHasWork, prod
  <1>5. c \in Nat /\ write_dispatch_id \in Nat /\ watermark \in Nat
    BY <1>1, <1>2 DEF TypeOK
  <1>6. t \in Slots
    BY <1>3, <1>5, SlotOf
  <1>7. header[t] = c
    BY <1>2, <1>3, <1>4, HeadOfRing
  <1>8. /\ header'[t] = INVALID
        /\ \A s \in Slots \ {t} : header'[s] = header[s]
    BY <1>1, <1>4, <1>6 DEF TypeOK
  <1>9. TypeOK'
    BY <1>1, <1>4, <1>5, <1>6 DEF TypeOK
  <1>10. \A q \in Producers :
            /\ First(q)' = First(q) /\ LastId(q)' = LastId(q)
            /\ LegacyId(q)' = LegacyId(q)
            /\ Unfilled(q)' = Unfilled(q) /\ Rung(q)' = Rung(q)
            /\ InLock(q)' = InLock(q)
    BY <1>4 DEF First, LastId, LegacyId, Unfilled, Rung, InLock
  <1>11. /\ c < write_dispatch_id
         /\ \A q \in Producers : Unfilled(q) => c < First(q) \/ c > LastId(q)
    <2>1. HeaderOK(t)
      BY <1>6 DEF RingInv, HeadersOK
    <2> QED BY <1>4, <1>7, <2>1 DEF HeaderOK
  <1>12. ChunksOK'
    <2>1. ASSUME NEW q \in Producers PROVE ChunkOK(q)'
      <3>1. ChunkOK(q)
        BY DEF RingInv, ChunksOK
      <3>2. /\ First(q) \in Nat /\ LegacyId(q) \in Nat /\ LastId(q) \in Int
            /\ filled[q] < count[q] => First(q) <= LastId(q)
        BY <1>1, ChunkNumbers
      <3>3. Unfilled(q) => filled[q] < count[q] /\ c + 1 <= First(q)
        <4> SUFFICES ASSUME Unfilled(q)
                     PROVE  filled[q] < count[q] /\ c + 1 <= First(q)
          OBVIOUS
        <4>1. filled[q] < count[q] /\ c <= First(q)
          BY <1>2, <3>1 DEF ChunkOK
        <4> QED BY <1>5, <1>11, <3>2, <4>1
      <3>4. LegacyId(q) <= c + Size => LegacyId(q) <= (c + 1) + Size
        BY <1>5, <3>2, SizeNat
      <3> QED BY <1>2, <1>4, <1>10, <3>1, <3>3, <3>4 DEF ChunkOK
    <2> QED BY <2>1 DEF ChunksOK
  <1>13. Apart'
    BY <1>10 DEF RingInv, Apart
  <1>14. HeadersOK'
    <2>1. HeaderOK(t)'
      BY <1>8 DEF HeaderOK
    <2>2. ASSUME NEW s \in Slots \ {t}, header[s] # INVALID PROVE HeaderOK(s)'
      <3>1. HeaderOK(s) /\ header[s] \in Nat
        BY <1>1, <2>2 DEF RingInv, HeadersOK, TypeOK
      <3>2. /\ c <= header[s] /\ header[s] < c + Size
            /\ header[s] % Size = s /\ header[s] < write_dispatch_id
            /\ \A q \in Producers : Unfilled(q) =>
                  header[s] < First(q) \/ header[s] > LastId(q)
        BY <1>2, <2>2, <3>1 DEF HeaderOK
      <3>3. header[s] # c
        BY <1>3, <2>2, <3>2
      <3>4. c + 1 <= header[s] /\ header[s] < (c + 1) + Size
        BY <1>5, <3>1, <3>2, <3>3, SizeNat
      <3> QED BY <1>4, <1>8, <1>10, <3>2, <3>4 DEF HeaderOK
    <2>3. ASSUME NEW s \in Slots \ {t}, header[s] = INVALID PROVE HeaderOK(s)'
      BY <1>8, <2>3 DEF HeaderOK
    <2> QED BY <2>1, <2>2, <2>3 DEF HeadersOK
  <1>15. BellOK'
    <2>1. \A i : Masked(i)' = Masked(i)
      BY <1>4 DEF Masked
    <2>2. PICK w \in c..watermark : wptr = Masked(w)
      BY <1>2 DEF RingInv, BellOK
    <2>3. w # c
      BY <1>4, <2>2
    <2>4. w \in (c + 1)..watermark
      BY <1>5, <2>2, <2>3
    <2>5. watermark <= c + Size
      BY <1>2 DEF RingInv, BellOK
    <2>6. c + 1 <= write_dispatch_id /\ watermark <= (c + 1) + Size
      BY <1>5, <1>11, <2>5, SizeNat
    <2>7. (\A q \in Producers : pc[q] # "ring") => wptr = Masked(watermark)
      BY DEF RingInv, BellOK
    <2> QED BY <1>4, <2>1, <2>2, <2>4, <2>6, <2>7 DEF BellOK
  <1>16. LockOK'
    BY <1>4, <1>10 DEF RingInv, LockOK
  <1> QED BY <1>9, <1>12, <1>13, <1>14, <1>15, <1>16 DEF RingInv

\* A write pointer read again from memory is the watermark's.
LEMMA ReloadInv ==
    ASSUME RingInv, CpReload PROVE RingInv'
  <1>1. TypeOK
    BY DEF RingInv
  <1>2. /\ wptr' = Masked(watermark)
        /\ UNCHANGED <<doorbell_type, write_dispatch_id, read_dispatch_id,
                       header, lock, watermark, pc, base, count, filled, left>>
    BY DEF CpReload, prod
  <1>3. watermark \in Nat /\ wptr' \in Nat
    BY <1>1, <1>2, MaskedNat DEF TypeOK
  <1>4. TypeOK'
    BY <1>1, <1>2, <1>3 DEF TypeOK
  <1>5. \A q \in Producers : pc'[q] = pc[q] /\ LegacyId(q)' = LegacyId(q)
    BY <1>2 DEF LegacyId, LastId
  <1>6. ChunksOK'
    BY <1>2, <1>5, ChunkKept DEF ChunksOK
  <1>7. Apart' /\ HeadersOK'
    BY <1>2, RingKept DEF Unfilled
  <1>8. BellOK'
    <2>1. \A i : Masked(i)' = Masked(i)
      BY <1>2 DEF Masked
    <2>2. watermark \in read_dispatch_id..watermark
      BY <1>1, <1>3 DEF RingInv, BellOK, TypeOK
    <2> QED BY <1>2, <2>1, <2>2 DEF RingInv, BellOK
  <1>9. LockOK'
    BY <1>2, <1>5 DEF RingInv, LockOK, InLock
  <1> QED BY <1>4, <1>6, <1>7, <1>8, <1>9 DEF RingInv

\* A step that changes nothing keeps the invariant.
LEMMA StutterInv ==
    ASSUME RingInv, UNCHANGED vars PROVE RingInv'
  BY DEF vars, prod, RingInv, TypeOK, ChunksOK, ChunkOK, Apart, HeadersOK,
         HeaderOK, BellOK, LockOK, Unfilled, First, Rung, InLock, LastId,
         LegacyId, Masked

-----------------------------------------------------------------------------
(***************************************************************************)
(* The theorems.                                                           *)
(***************************************************************************)
\* The ring invariant holds in every reachable state, for every ring size,
\* batch size and set of producers, with either doorbell and with the write
\* pointer read again at any time.
THEOREM RingSafe == Spec => []RingInv
  <1>1. Init => RingInv
    BY InitInv
  <1>2. RingInv /\ [Next]_vars => RingInv'
    <2> SUFFICES ASSUME RingInv, [Next]_vars PROVE RingInv'
      OBVIOUS
    <2>1. ASSUME NEW p \in Producers, Dispatch(p) PROVE RingInv'
      BY <2>1, ReserveInv, WaitInv, FillInv, AcquireInv, MarkInv, DoorbellInv,
         ReleaseInv DEF Dispatch
    <2>2. CASE CpFetch
      BY <2>2, FetchInv
    <2>3. CASE CpReload
      BY <2>3, ReloadInv
    <2>4. CASE UNCHANGED vars
      BY <2>4, StutterInv
    <2> QED BY <2>1, <2>2, <2>3, <2>4 DEF Next
  <1> QED BY <1>1, <1>2, PTL DEF Spec

\* Every variable keeps its type: no chunk of a graph is longer than what is
\* left of the graph, and the lock is free or has a producer for its holder.
THEOREM TypeCorrect == Spec => []TypeOK
  <1>1. RingInv => TypeOK
    BY DEF RingInv
  <1> QED BY <1>1, RingSafe, PTL

\* A producer that WaitForQueueSlot let through never writes over a packet the
\* CP has not fetched.
THEOREM NeverOverwrites == Spec => []NoOverwrite
  <1>1. RingInv => NoOverwrite
    BY Consequences
  <1> QED BY <1>1, RingSafe, PTL

\* The ring holds packets of the current lap only, each in its slot: the CP
\* fetches every id once and in order.
THEOREM FetchesInOrder == Spec => []FetchInOrder
  <1>1. RingInv => FetchInOrder
    BY Consequences
  <1> QED BY <1>1, RingSafe, PTL

\* The doubled mask of a type-0 doorbell, and the wrapping low bits of a type-1
\* one, leave the CP with the exact number of packets it was told of.
THEOREM DoorbellIsExact == Spec => []DoorbellExact
  <1>1. RingInv => DoorbellExact
    BY Consequences
  <1> QED BY <1>1, RingSafe, PTL

-----------------------------------------------------------------------------
(***************************************************************************)
(* Nobody waits for himself.  The chunked replay reserves its ids before   *)
(* it waits for their slots, so a chunk that waits for a packet of its own *)
(* waits for ever: the deadlock graph-replay-batch-chunk-deadlock.patch    *)
(* removes.  Every id reserved and not yet fetched is either in the hands  *)
(* of a producer that has not rung for it, or in the ring and rung for.    *)
(***************************************************************************)
\* Id i is in the ring.
InRing(i) == header[i % Size] = i

\* Producer p has reserved id i and not rung for it.
Owns(p, i) == /\ pc[p] \in {"slot", "fill", "lock", "mark"}
              /\ base[p] <= i /\ i <= LastId(p)

\* A chunk is never longer than what WaitForQueueSlot can ever let through.
CountOK(p) == pc[p] # "idle" => count[p] \in 1..Capacity(p)

\* What a producer has filled is in the ring until the CP fetches it.
FilledOK(p) ==
    /\ pc[p] \in {"fill", "lock", "mark"} =>
          \A i \in base[p]..(First(p) - 1) :
              read_dispatch_id <= i => InRing(i)
    /\ pc[p] = "slot" => filled[p] = 0
    /\ pc[p] \in {"lock", "mark"} => filled[p] = count[p]

\* An id between the two pointers is not lost.
Kept(i) == \/ \E p \in Producers : Owns(p, i)
           \/ i < watermark /\ InRing(i)

Accounted ==
    \A i \in Nat :
        read_dispatch_id <= i /\ i < write_dispatch_id => Kept(i)

\* The spinlock is held by somebody who will release it.
LockHeld == lock # Free => InLock(lock)

ProgressInv ==
    /\ \A p \in Producers : CountOK(p) /\ FilledOK(p)
    /\ Accounted
    /\ LockHeld

\* A producer that has a step to take: it does not wait for slots or the lock.
CanMove(p) ==
    \/ pc[p] = "idle" /\ ChunkSizes(p) # {}
    \/ pc[p] = "slot" /\ HasSlot(p)
    \/ pc[p] = "lock" /\ lock = Free
    \/ pc[p] \in {"fill", "mark", "ring", "unlock"}

\* The CP has a packet to fetch and finds it written.
CpCanMove == CpHasWork /\ header[read_dispatch_id % Size] # INVALID

\* Every packet was dispatched and fetched.
Settled == /\ \A p \in Producers : left[p] = 0 /\ pc[p] = "idle"
           /\ read_dispatch_id = write_dispatch_id

\* Until every packet is fetched, some producer can take a step or the CP can
\* fetch, without the queue being mapped again.
NeverStuck == Settled \/ CpCanMove \/ \E p \in Producers : CanMove(p)

\* The chunk size the patch computes fits the ring, whatever the flag says.
LEMMA PeriodFits ==
    ASSUME NEW p \in Producers
    PROVE  /\ kPeriod(p) \in Nat /\ Capacity(p) \in Nat
           /\ 1 <= kPeriod(p) /\ kPeriod(p) <= Capacity(p)
  BY AqlAssumption DEF AqlAssumption, kPeriod, Capacity

\* With the chunks in their place, somebody can always move.
LEMMA SomebodyMoves == ASSUME RingInv, ProgressInv PROVE NeverStuck
  <1> SUFFICES ASSUME ~CpCanMove, \A p \in Producers : ~CanMove(p)
               PROVE  Settled
    BY DEF NeverStuck
  <1>1. TypeOK /\ read_dispatch_id \in Nat /\ write_dispatch_id \in Nat
    BY DEF RingInv, TypeOK
  <1>2. \A p \in Producers : pc[p] \in {"idle", "slot"}
    <2> SUFFICES ASSUME NEW p \in Producers, pc[p] \notin {"idle", "slot"}
                 PROVE  FALSE
      OBVIOUS
    <2>1. pc[p] = "lock" /\ lock # Free
      BY <1>1 DEF TypeOK, CanMove
    <2>2. lock \in Producers /\ InLock(lock)
      BY <1>1, <2>1 DEF TypeOK, ProgressInv, LockHeld
    <2> QED BY <2>2 DEF InLock, CanMove
  <1>3. \A p \in Producers : pc[p] = "idle" => left[p] = 0
    <2> SUFFICES ASSUME NEW p \in Producers, pc[p] = "idle", left[p] # 0
                 PROVE  FALSE
      OBVIOUS
    <2>1. 1 \in ChunkSizes(p)
      BY <1>1, PeriodFits DEF TypeOK, ChunkSizes
    <2> QED BY <2>1 DEF CanMove
  <1>4. ASSUME NEW p \in Producers, pc[p] = "slot"
        PROVE  read_dispatch_id < base[p] /\ base[p] < write_dispatch_id
    <2>1. ~(LastId(p) - read_dispatch_id < Capacity(p))
      BY <1>4 DEF CanMove, HasSlot
    <2>2. count[p] \in 1..Capacity(p) /\ LegacyId(p) <= write_dispatch_id
      BY <1>4 DEF ProgressInv, CountOK, RingInv, ChunksOK, ChunkOK
    <2> QED BY <1>1, <2>1, <2>2, ChunkNumbers, PeriodFits
  <1>5. read_dispatch_id = write_dispatch_id
    <2> SUFFICES ASSUME read_dispatch_id # write_dispatch_id PROVE FALSE
      OBVIOUS
    <2>1. read_dispatch_id < write_dispatch_id
      BY <1>1 DEF RingInv, BellOK
    <2>2. Kept(read_dispatch_id)
      BY <1>1, <2>1 DEF ProgressInv, Accounted
    <2>3. \A p \in Producers : ~Owns(p, read_dispatch_id)
      <3> SUFFICES ASSUME NEW p \in Producers, Owns(p, read_dispatch_id)
                   PROVE  FALSE
        OBVIOUS
      <3>1. pc[p] = "slot" /\ base[p] <= read_dispatch_id
        BY <1>2 DEF Owns
      <3> QED BY <1>1, <1>4, <3>1, ChunkNumbers
    <2>4. read_dispatch_id < watermark /\ InRing(read_dispatch_id)
      BY <2>2, <2>3 DEF Kept
    <2>5. header[read_dispatch_id % Size] # INVALID
      BY <1>1, <2>4 DEF InRing, INVALID
    <2>6. Pending = watermark - read_dispatch_id /\ watermark \in Nat
      BY <1>1, <1>2, Consequences DEF DoorbellExact, TypeOK
    <2>7. wptr # Masked(read_dispatch_id)
      <3> SUFFICES ASSUME wptr = Masked(read_dispatch_id) PROVE FALSE
        OBVIOUS
      <3>1. wptr \in Nat
        BY <1>1 DEF TypeOK
      <3>2. Pending = (wptr - wptr) % Modulus
        BY DEF Pending, Modulus
      <3>3. Pending = 0
        BY <3>1, <3>2, ModulusLarge
      <3> QED BY <1>1, <2>4, <2>6, <3>3
    <2> QED BY <2>5, <2>7 DEF CpCanMove, CpHasWork
  <1>6. ASSUME NEW p \in Producers, pc[p] = "slot" PROVE FALSE
    <2>1. base[p] \in Nat
      BY <1>1, ChunkNumbers
    <2>2. read_dispatch_id < base[p] /\ base[p] < read_dispatch_id
      BY <1>4, <1>5, <1>6
    <2> QED BY <1>1, <2>1, <2>2
  <1> QED BY <1>2, <1>3, <1>5, <1>6 DEF Settled

\* Packets stay in the ring until they are fetched.
RingKeeps ==
    \A i \in Nat : read_dispatch_id' <= i /\ InRing(i) => InRing(i)'

\* A producer that does not move.
Still(q) == /\ pc'[q] = pc[q] /\ base'[q] = base[q]
            /\ count'[q] = count[q] /\ filled'[q] = filled[q]

\* Whatever happens to the ring, a producer that does not move keeps what it
\* has filled and what it owns.
LEMMA StillKept ==
    ASSUME TypeOK, RingKeeps, read_dispatch_id' \in Nat,
           read_dispatch_id <= read_dispatch_id',
           NEW q \in Producers, Still(q), CountOK(q), FilledOK(q)
    PROVE  CountOK(q)' /\ FilledOK(q)' /\ \A i : Owns(q, i)' <=> Owns(q, i)
  <1>1. /\ First(q)' = First(q) /\ LastId(q)' = LastId(q)
        /\ Capacity(q)' = Capacity(q)
    BY DEF Still, First, LastId, Capacity
  <1>2. base[q] \in Nat /\ First(q) \in Nat /\ read_dispatch_id \in Nat
    BY ChunkNumbers DEF TypeOK
  <1>3. CountOK(q)'
    BY <1>1 DEF Still, CountOK
  <1>4. FilledOK(q)'
    <2>1. ASSUME pc[q] \in {"fill", "lock", "mark"},
                 NEW i \in base[q]..(First(q) - 1), read_dispatch_id' <= i
          PROVE  InRing(i)'
      <3>1. i \in Nat /\ read_dispatch_id <= i
        BY <1>2, <2>1
      <3>2. InRing(i)
        BY <2>1, <3>1 DEF FilledOK
      <3> QED BY <2>1, <3>1, <3>2 DEF RingKeeps
    <2> QED BY <1>1, <2>1 DEF FilledOK, Still
  <1>5. \A i : Owns(q, i)' <=> Owns(q, i)
    BY <1>1 DEF Owns, Still
  <1> QED BY <1>3, <1>4, <1>5

\* Ids are not lost if their owners keep them or ring for them.
LEMMA IdsKept ==
    ASSUME Accounted, RingKeeps, TypeOK, TypeOK', write_dispatch_id' = write_dispatch_id,
           read_dispatch_id <= read_dispatch_id', watermark <= watermark',
           \A q \in Producers : \A i \in Nat :
               read_dispatch_id' <= i /\ Owns(q, i) => Kept(i)'
    PROVE  Accounted'
  <1> SUFFICES ASSUME NEW i \in Nat,
                      read_dispatch_id' <= i, i < write_dispatch_id
               PROVE  Kept(i)'
    BY DEF Accounted
  <1>1. /\ read_dispatch_id \in Nat /\ read_dispatch_id' \in Nat
        /\ watermark \in Nat /\ watermark' \in Nat
    BY DEF TypeOK
  <1>2. Kept(i)
    BY <1>1 DEF Accounted
  <1>3. CASE i < watermark /\ InRing(i)
    <2>1. i < watermark' /\ InRing(i)'
      BY <1>1, <1>3 DEF RingKeeps
    <2> QED BY <2>1 DEF Kept
  <1> QED BY <1>2, <1>3 DEF Kept

\* Where the program counter of a producer may go while its chunk stays.
Advances(q) ==
    /\ pc'[q] # "idle" => pc[q] # "idle"
    /\ pc'[q] = "slot" => pc[q] = "slot"
    /\ pc'[q] = "fill" => pc[q] \in {"slot", "fill"}
    /\ pc'[q] \in {"lock", "mark"} => pc[q] \in {"lock", "mark"}

\* A step of program counters alone.
LEMMA ChunkStill ==
    ASSUME TypeOK, UNCHANGED <<header, read_dispatch_id, base, count, filled>>,
           NEW q \in Producers, Advances(q), CountOK(q), FilledOK(q)
    PROVE  CountOK(q)' /\ FilledOK(q)'
  <1>1. /\ First(q)' = First(q) /\ Capacity(q)' = Capacity(q)
        /\ \A i : InRing(i)' <=> InRing(i)
    BY DEF First, Capacity, InRing
  <1>2. CountOK(q)'
    BY <1>1 DEF Advances, CountOK
  <1>3. pc'[q] = "fill" /\ pc[q] = "slot" => base[q]..(First(q) - 1) = {}
    BY ChunkNumbers DEF FilledOK
  <1>4. FilledOK(q)'
    <2>1. ASSUME pc'[q] \in {"fill", "lock", "mark"},
                 NEW i \in base[q]..(First(q) - 1), read_dispatch_id <= i
          PROVE  InRing(i)
      BY <1>3, <2>1 DEF FilledOK, Advances
    <2> QED BY <1>1, <2>1 DEF FilledOK, Advances
  <1> QED BY <1>2, <1>4

\* The same for all producers, when nobody drops or rings for an id.
LEMMA ChunksStill ==
    ASSUME TypeOK, TypeOK', ProgressInv,
           UNCHANGED <<header, read_dispatch_id, write_dispatch_id, watermark,
                       base, count, filled>>,
           \A q \in Producers :
               /\ Advances(q)
               /\ pc[q] \in {"slot", "fill", "lock", "mark"} =>
                      pc'[q] \in {"slot", "fill", "lock", "mark"}
    PROVE  (\A q \in Producers : CountOK(q)' /\ FilledOK(q)') /\ Accounted'
  <1>1. \A q \in Producers : CountOK(q)' /\ FilledOK(q)'
    BY ChunkStill DEF ProgressInv
  <1>2. RingKeeps
    BY DEF RingKeeps, InRing
  <1>3. \A q \in Producers : \A i \in Nat : Owns(q, i) => Owns(q, i)'
    BY DEF Owns, LastId
  <1>4. \A q \in Producers : \A i \in Nat : Owns(q, i) => Kept(i)'
    BY <1>3 DEF Kept
  <1>5. read_dispatch_id <= read_dispatch_id' /\ watermark <= watermark'
    BY DEF TypeOK
  <1>6. Accounted'
    BY <1>2, <1>4, <1>5, IdsKept DEF ProgressInv
  <1> QED BY <1>1, <1>6

\* At first there is nothing to lose.
LEMMA ProgressInit == Init => ProgressInv
  <1> SUFFICES ASSUME Init PROVE ProgressInv
    OBVIOUS
  <1>1. \A p \in Producers : CountOK(p) /\ FilledOK(p)
    BY DEF Init, CountOK, FilledOK
  <1>2. Accounted
    BY DEF Init, Accounted
  <1> QED BY <1>1, <1>2 DEF Init, ProgressInv, LockHeld

\* New ids belong to the producer that reserved them.
LEMMA ReserveProgress ==
    ASSUME RingInv, RingInv', ProgressInv, NEW p \in Producers, Reserve(p)
    PROVE  ProgressInv'
  <1>1. TypeOK /\ TypeOK'
    BY DEF RingInv
  <1>2. PICK n \in ChunkSizes(p) :
            /\ count' = [count EXCEPT ![p] = n]
            /\ write_dispatch_id' = write_dispatch_id + n
    BY DEF Reserve
  <1>3. /\ pc[p] = "idle"
        /\ base' = [base EXCEPT ![p] = write_dispatch_id]
        /\ filled' = [filled EXCEPT ![p] = 0]
        /\ pc' = [pc EXCEPT ![p] = "slot"]
        /\ UNCHANGED <<read_dispatch_id, header, lock, watermark>>
    BY DEF Reserve, Goto
  <1>4. n \in 1..Capacity(p)
    BY <1>2, PeriodFits DEF ChunkSizes
  <1>5. /\ pc'[p] = "slot" /\ base'[p] = write_dispatch_id
        /\ count'[p] = n /\ filled'[p] = 0
    BY <1>1, <1>2, <1>3 DEF TypeOK
  <1>6. \A q \in Producers \ {p} : Still(q)
    BY <1>1, <1>2, <1>3 DEF TypeOK, Still
  <1>7. RingKeeps /\ read_dispatch_id <= read_dispatch_id'
                  /\ read_dispatch_id \in Nat /\ write_dispatch_id \in Nat
    BY <1>1, <1>3 DEF RingKeeps, InRing, TypeOK
  <1>8. CountOK(p)' /\ FilledOK(p)'
    BY <1>4, <1>5 DEF CountOK, FilledOK, Capacity
  <1>9. ASSUME NEW q \in Producers \ {p}
        PROVE  CountOK(q)' /\ FilledOK(q)' /\ \A i : Owns(q, i)' <=> Owns(q, i)
    BY <1>1, <1>3, <1>6, <1>7, StillKept DEF ProgressInv
  <1>10. ASSUME NEW i \in Nat, read_dispatch_id' <= i, i < write_dispatch_id'
         PROVE  Kept(i)'
    <2>1. CASE i < write_dispatch_id
      <3>1. Kept(i)
        BY <1>3, <1>10, <2>1 DEF ProgressInv, Accounted
      <3>2. \A q \in Producers : Owns(q, i) => Owns(q, i)'
        BY <1>3, <1>9 DEF Owns
      <3>3. (i < watermark /\ InRing(i)) => (i < watermark /\ InRing(i))'
        BY <1>3 DEF InRing
      <3> QED BY <3>1, <3>2, <3>3 DEF Kept
    <2>2. CASE ~(i < write_dispatch_id)
      <3>1. LastId(p)' = write_dispatch_id + n - 1
        BY <1>5 DEF LastId
      <3>2. i <= write_dispatch_id + n - 1 /\ write_dispatch_id <= i
        BY <1>2, <1>4, <1>7, <1>10, <2>2, PeriodFits
      <3>3. Owns(p, i)'
        BY <1>5, <3>1, <3>2 DEF Owns
      <3> QED BY <3>3 DEF Kept
    <2> QED BY <2>1, <2>2
  <1>11. Accounted'
    BY <1>10 DEF Accounted
  <1>12. LockHeld'
    BY <1>1, <1>3, AqlAssumption DEF ProgressInv, LockHeld, InLock, TypeOK, AqlAssumption
  <1> QED BY <1>8, <1>9, <1>11, <1>12 DEF ProgressInv

\* A packet is written into a free slot.
LEMMA FillProgress ==
    ASSUME RingInv, RingInv', ProgressInv, NEW p \in Producers, FillPacket(p)
    PROVE  ProgressInv'
  <1>1. TypeOK /\ TypeOK'
    BY DEF RingInv
  <1>2. /\ pc[p] = "fill"
        /\ header' = [header EXCEPT ![First(p) % Size] = First(p)]
        /\ filled' = [filled EXCEPT ![p] = filled[p] + 1]
        /\ pc' = [pc EXCEPT ![p] =
                      IF filled[p] + 1 = count[p] THEN "lock" ELSE "fill"]
        /\ UNCHANGED <<write_dispatch_id, read_dispatch_id, lock, watermark,
                       base, count>>
    BY DEF FillPacket, Goto, First
  <1>3. /\ base[p] \in Nat /\ filled[p] \in Nat /\ First(p) = base[p] + filled[p]
        /\ read_dispatch_id \in Nat /\ watermark \in Nat
    BY <1>1, ChunkNumbers DEF TypeOK
  <1>4. First(p) % Size \in Slots /\ header[First(p) % Size] = INVALID
    BY <1>2, <1>3, SlotFree, SlotOf
  <1>5. header'[First(p) % Size] = First(p)
    BY <1>1, <1>2, <1>4 DEF TypeOK
  <1>6. \A i \in Nat : InRing(i) => InRing(i)'
    <2> SUFFICES ASSUME NEW i \in Nat, InRing(i) PROVE InRing(i)'
      OBVIOUS
    <2>1. i % Size # First(p) % Size /\ i % Size \in Slots
      BY <1>4, SlotOf DEF InRing, INVALID
    <2> QED BY <1>1, <1>2, <2>1 DEF InRing, TypeOK
  <1>7. RingKeeps
    BY <1>6 DEF RingKeeps
  <1>8. /\ filled'[p] = filled[p] + 1 /\ base'[p] = base[p] /\ count'[p] = count[p]
        /\ pc'[p] = IF filled[p] + 1 = count[p] THEN "lock" ELSE "fill"
    BY <1>1, <1>2 DEF TypeOK
  <1>9. \A q \in Producers \ {p} : Still(q)
    BY <1>1, <1>2 DEF TypeOK, Still
  <1>10. read_dispatch_id' \in Nat /\ read_dispatch_id <= read_dispatch_id'
                                   /\ watermark <= watermark'
    BY <1>2, <1>3
  <1>11. ASSUME NEW q \in Producers \ {p}
         PROVE  CountOK(q)' /\ FilledOK(q)' /\ \A i : Owns(q, i)' <=> Owns(q, i)
    BY <1>1, <1>7, <1>9, <1>10, StillKept DEF ProgressInv
  <1>12. CountOK(p)'
    BY <1>2, <1>8 DEF ProgressInv, CountOK, Capacity
  <1>13. FilledOK(p)'
    <2>1. ASSUME NEW i \in base[p]..First(p), read_dispatch_id <= i PROVE InRing(i)'
      <3>1. CASE i = First(p)
        BY <1>5, <3>1 DEF InRing
      <3>2. CASE i # First(p)
        <4>1. i \in base[p]..(First(p) - 1) /\ i \in Nat
          BY <1>3, <3>2
        <4> QED BY <1>2, <1>6, <2>1, <4>1 DEF ProgressInv, FilledOK
      <3> QED BY <3>1, <3>2
    <2>2. First(p)' - 1 = First(p)
      BY <1>3, <1>8 DEF First
    <2> QED BY <1>2, <1>8, <2>1, <2>2 DEF FilledOK
  <1>14. \A i : Owns(p, i) => Owns(p, i)'
    BY <1>2, <1>8 DEF Owns, LastId
  <1>15. \A q \in Producers : \A i \in Nat : Owns(q, i) => Kept(i)'
    BY <1>11, <1>14 DEF Kept
  <1>16. Accounted'
    BY <1>1, <1>2, <1>7, <1>10, <1>15, IdsKept DEF ProgressInv
  <1>17. LockHeld'
    BY <1>1, <1>2, AqlAssumption DEF ProgressInv, LockHeld, InLock, TypeOK, AqlAssumption
  <1> QED BY <1>11, <1>12, <1>13, <1>16, <1>17 DEF ProgressInv

\* Ringing hands a chunk over: all of it is in the ring, below the watermark.
LEMMA MarkProgress ==
    ASSUME RingInv, RingInv', ProgressInv, NEW p \in Producers, StoreWatermark(p)
    PROVE  ProgressInv'
  <1>1. TypeOK /\ TypeOK'
    BY DEF RingInv
  <1>2. /\ pc[p] = "mark"
        /\ watermark' = IF News(p) THEN LegacyId(p) ELSE watermark
        /\ pc' = [pc EXCEPT ![p] = IF News(p) THEN "ring" ELSE "unlock"]
        /\ UNCHANGED <<write_dispatch_id, read_dispatch_id, header, lock,
                       base, count, filled>>
    BY DEF StoreWatermark, Goto
  <1>3. /\ base[p] \in Nat /\ count[p] \in Nat /\ filled[p] \in Nat
        /\ First(p) = base[p] + filled[p] /\ LastId(p) = base[p] + count[p] - 1
        /\ LegacyId(p) = base[p] + count[p]
        /\ read_dispatch_id \in Nat /\ watermark \in Nat
    BY <1>1, ChunkNumbers DEF TypeOK
  <1>4. watermark <= watermark' /\ LegacyId(p) <= watermark' /\ watermark' \in Nat
    BY <1>2, <1>3 DEF News
  <1>5. pc'[p] \in {"ring", "unlock"}
        /\ \A q \in Producers \ {p} : pc'[q] = pc[q]
    BY <1>1, <1>2 DEF TypeOK
  <1>6. \A q \in Producers : Advances(q)
    BY <1>2, <1>5 DEF Advances
  <1>7. \A q \in Producers : CountOK(q)' /\ FilledOK(q)'
    BY <1>1, <1>2, <1>6, ChunkStill DEF ProgressInv
  <1>8. RingKeeps
    BY <1>2 DEF RingKeeps, InRing
  <1>9. ASSUME NEW i \in Nat, read_dispatch_id <= i, Owns(p, i) PROVE Kept(i)'
    <2>1. FilledOK(p)
      BY DEF ProgressInv
    <2>2. filled[p] = count[p]
      BY <1>2, <2>1 DEF FilledOK
    <2>3. i \in base[p]..(First(p) - 1) /\ i < LegacyId(p)
      BY <1>3, <1>9, <2>2 DEF Owns
    <2>4. InRing(i)
      BY <1>2, <1>9, <2>1, <2>3 DEF FilledOK
    <2>5. i < watermark' /\ InRing(i)'
      BY <1>2, <1>3, <1>4, <2>3, <2>4 DEF InRing
    <2> QED BY <2>5 DEF Kept
  <1>10. \A q \in Producers \ {p} : \A i \in Nat : Owns(q, i) => Owns(q, i)'
    BY <1>2, <1>5 DEF Owns, LastId
  <1>11. \A q \in Producers : \A i \in Nat :
             read_dispatch_id' <= i /\ Owns(q, i) => Kept(i)'
    <2>1. \A q \in Producers \ {p} : \A i \in Nat : Owns(q, i) => Kept(i)'
      BY <1>10 DEF Kept
    <2> QED BY <1>2, <1>9, <2>1
  <1>12. Accounted'
    BY <1>1, <1>2, <1>3, <1>4, <1>8, <1>11, IdsKept DEF ProgressInv
  <1>13. LockHeld'
    BY <1>1, <1>2, <1>5, AqlAssumption DEF ProgressInv, LockHeld, InLock, TypeOK, AqlAssumption
  <1> QED BY <1>7, <1>12, <1>13 DEF ProgressInv

\* The CP takes the packet at the read pointer and no other.
LEMMA FetchProgress ==
    ASSUME RingInv, RingInv', ProgressInv, CpFetch PROVE ProgressInv'
  <1>1. TypeOK /\ TypeOK'
    BY DEF RingInv
  <1>2. /\ header[read_dispatch_id % Size] # INVALID
        /\ header' = [header EXCEPT ![read_dispatch_id % Size] = INVALID]
        /\ read_dispatch_id' = read_dispatch_id + 1
        /\ UNCHANGED <<write_dispatch_id, lock, watermark,
                       pc, base, count, filled>>
    BY DEF CpFetch, prod
  <1>3. /\ read_dispatch_id \in Nat /\ watermark \in Nat /\ read_dispatch_id' \in Nat
        /\ read_dispatch_id <= read_dispatch_id' /\ watermark <= watermark'
    BY <1>1, <1>2 DEF TypeOK
  <1>4. header[read_dispatch_id % Size] = read_dispatch_id
    BY <1>2, HeadOfRing
  <1>5. RingKeeps
    <2> SUFFICES ASSUME NEW i \in Nat, read_dispatch_id' <= i, InRing(i)
                 PROVE  InRing(i)'
      BY DEF RingKeeps
    <2>1. i # read_dispatch_id /\ i % Size \in Slots
      BY <1>2, <1>3, SlotOf
    <2>2. i % Size # read_dispatch_id % Size
      BY <1>4, <2>1 DEF InRing
    <2> QED BY <1>1, <1>2, <2>1, <2>2 DEF InRing, TypeOK
  <1>6. \A q \in Producers : Still(q)
    BY <1>2 DEF Still
  <1>7. ASSUME NEW q \in Producers
        PROVE  CountOK(q)' /\ FilledOK(q)' /\ \A i : Owns(q, i)' <=> Owns(q, i)
    BY <1>1, <1>3, <1>5, <1>6, StillKept DEF ProgressInv
  <1>8. \A q \in Producers : \A i \in Nat : Owns(q, i) => Kept(i)'
    BY <1>7 DEF Kept
  <1>9. Accounted'
    BY <1>1, <1>2, <1>3, <1>5, <1>8, IdsKept DEF ProgressInv
  <1>10. LockHeld'
    BY <1>2 DEF ProgressInv, LockHeld, InLock
  <1> QED BY <1>7, <1>9, <1>10 DEF ProgressInv

\* Waiting, locking, ringing and unlocking move a program counter alone.
LEMMA OtherProgress ==
    ASSUME RingInv, RingInv', ProgressInv, NEW p \in Producers,
           \/ WaitForQueueSlot(p) \/ AcquireLock(p) \/ RingDoorbell(p)
           \/ ReleaseLock(p)
    PROVE  ProgressInv'
  <1>1. TypeOK /\ TypeOK'
    BY DEF RingInv
  <1>2. UNCHANGED <<header, read_dispatch_id, write_dispatch_id, watermark,
                    base, count, filled>>
    BY DEF WaitForQueueSlot, AcquireLock, RingDoorbell, ReleaseLock
  <1>3. \A q \in Producers \ {p} : pc'[q] = pc[q]
    BY <1>1 DEF WaitForQueueSlot, AcquireLock, RingDoorbell, ReleaseLock,
                Goto, TypeOK
  <1>4. \/ pc[p] = "slot" /\ pc'[p] = "fill" /\ lock' = lock
        \/ pc[p] = "lock" /\ pc'[p] = "mark" /\ lock' = p
        \/ pc[p] = "ring" /\ pc'[p] = "unlock" /\ lock' = lock
        \/ pc[p] = "unlock" /\ pc'[p] = "idle" /\ lock' = Free
    BY <1>1 DEF WaitForQueueSlot, AcquireLock, RingDoorbell, ReleaseLock,
                Goto, TypeOK
  <1>5. \A q \in Producers :
            /\ Advances(q)
            /\ pc[q] \in {"slot", "fill", "lock", "mark"} =>
                   pc'[q] \in {"slot", "fill", "lock", "mark"}
    BY <1>3, <1>4 DEF Advances
  <1>6. (\A q \in Producers : CountOK(q)' /\ FilledOK(q)') /\ Accounted'
    BY <1>1, <1>2, <1>5, ChunksStill
  <1>7. LockHeld'
    BY <1>1, <1>3, <1>4 DEF ProgressInv, LockHeld, InLock, TypeOK
  <1> QED BY <1>6, <1>7 DEF ProgressInv

\* Mapping the queue again, and steps that change nothing.
LEMMA IdleProgress ==
    ASSUME RingInv, RingInv', ProgressInv, CpReload \/ UNCHANGED vars
    PROVE  ProgressInv'
  <1>1. TypeOK /\ TypeOK'
    BY DEF RingInv
  <1>2. UNCHANGED <<header, read_dispatch_id, write_dispatch_id, watermark,
                    lock, pc, base, count, filled>>
    BY DEF CpReload, vars, prod
  <1>3. \A q \in Producers : Advances(q)
    BY <1>2 DEF Advances
  <1>4. (\A q \in Producers : CountOK(q)' /\ FilledOK(q)') /\ Accounted'
    BY <1>1, <1>2, <1>3, ChunksStill
  <1>5. LockHeld'
    BY <1>2 DEF ProgressInv, LockHeld, InLock
  <1> QED BY <1>4, <1>5 DEF ProgressInv

\* Until every packet has been fetched somebody can move, for every ring size,
\* batch size, number of producers and graph length: no chunk waits for slots
\* that its own packets hold, no ring is full and unrung, and the spinlock is
\* never left held.
THEOREM DispatchNeverStuck == Spec => []NeverStuck
  <1>1. RingInv /\ RingInv' /\ ProgressInv /\ [Next]_vars => ProgressInv'
    <2> SUFFICES ASSUME RingInv, RingInv', ProgressInv, [Next]_vars
                 PROVE  ProgressInv'
      OBVIOUS
    <2>1. ASSUME NEW p \in Producers, Dispatch(p) PROVE ProgressInv'
      BY <2>1, ReserveProgress, FillProgress, MarkProgress, OtherProgress
         DEF Dispatch
    <2>2. CASE CpFetch
      BY <2>2, FetchProgress
    <2>3. CASE CpReload \/ UNCHANGED vars
      BY <2>3, IdleProgress
    <2> QED BY <2>1, <2>2, <2>3 DEF Next
  <1>2. RingInv /\ ProgressInv => NeverStuck
    BY SomebodyMoves
  <1> QED BY <1>1, <1>2, ProgressInit, RingSafe, PTL DEF Spec
=============================================================================
