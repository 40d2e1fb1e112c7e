-------------------------- MODULE BlockPoolProofs --------------------------
(***************************************************************************)
(* Proofs about BlockPool, for every number of blocks, block size, finite  *)
(* set of requests and texts.  The pool's methods are described one by one *)
(* (what Keep, Touch, GetNewBlocks, CacheFullBlocks and FreeBlocks return), *)
(* a handler is a composition of them, and the invariants are shown of the *)
(* handlers.                                                               *)
(***************************************************************************)
EXTENDS BlockPool, SequenceTheorems, FiniteSetTheorems, TLAPS

-----------------------------------------------------------------------------
(***************************************************************************)
(* The map from hashes to blocks and the hashes the blocks carry agree.    *)
(* The argument is local to the pool's methods: each of them is shown to   *)
(* preserve the agreement of the record it is given.                       *)
(***************************************************************************)
\* HashesAgree of one pool record, with the shape the EXCEPTs need.
Agrees(p) ==
  /\ p = [free |-> p.free, ref |-> p.ref, hash |-> p.hash, map |-> p.map,
          stored |-> p.stored]
  /\ DOMAIN p.hash = Blocks
  /\ DOMAIN p.map = Hashes
  /\ \A h \in Hashes, b \in Blocks : b \in p.map[h] <=> p.hash[b] = h

\* The inductive invariant.
PoolAgrees == Agrees(pool)

(* A hash covers at least one token, so no hash is the absent one.           *)
LEMMA HashIsNotNoHash == \A h \in Hashes : h # NoHash
<1> SUFFICES ASSUME NEW r \in Requests, NEW i \in 1 .. Len(Text[r]) \div BlockSize
             PROVE  Hash(r, i) # NoHash
  BY DEF Hashes
<1>1. BlockSize \in Nat /\ BlockSize > 0 /\ Text[r] \in Seq(Nat)
  BY PoolAssumption
<1>2. i \in Int /\ i >= 1
  OBVIOUS
<1>3. i * BlockSize \in Int /\ i * BlockSize >= 1
  BY <1>1, <1>2
<1>4. Len(Hash(r, i)) >= 1
  BY <1>1, <1>3 DEF Hash, Prefix
<1> QED
  BY <1>4 DEF NoHash

(* _remove_cached_block_hashes takes a block off the map and its hash off    *)
(* the block together.                                                       *)
LEMMA ForgetAgrees ==
  ASSUME NEW p, NEW S, Agrees(p)
  PROVE  Agrees(Forget(p, S))
<1>1. PICK H : H = [b \in Blocks |-> IF b \in S THEN NoHash ELSE p.hash[b]]
  OBVIOUS
<1>2. PICK M : M = [h \in Hashes |-> p.map[h] \ S]
  OBVIOUS
<1>3. PICK T : T = p.stored \ {p.hash[b] : b \in S}
  OBVIOUS
<1>4. Forget(p, S) = [p EXCEPT !.hash = H, !.map = M, !.stored = T]
  BY <1>1, <1>2, <1>3 DEF Forget
<1>5. ASSUME NEW h \in Hashes, NEW b \in Blocks
      PROVE  b \in M[h] <=> H[b] = h
  BY <1>1, <1>2, HashIsNotNoHash DEF Agrees
<1>6. DOMAIN H = Blocks /\ DOMAIN M = Hashes
  BY <1>1, <1>2
<1> QED
  BY <1>4, <1>5, <1>6 DEF Agrees

(* touch changes reference counts and the queue only.                        *)
LEMMA TouchAgrees ==
  ASSUME NEW p, NEW S, Agrees(p)
  PROVE  Agrees(Touch(p, S))
<1>1. PICK f : f = Queue!AfterRemove(p.free, {b \in S : p.ref[b] = 0})
  OBVIOUS
<1>2. PICK g : g = [b \in Blocks |-> IF b \in S THEN p.ref[b] + 1 ELSE p.ref[b]]
  OBVIOUS
<1>3. Touch(p, S) = [p EXCEPT !.free = f, !.ref = g]
  BY <1>1, <1>2 DEF Touch
<1> QED
  BY <1>3 DEF Agrees

(* get_new_blocks evicts what it pops.                                       *)
LEMMA GetNewBlocksAgrees ==
  ASSUME NEW p, NEW n, Agrees(p)
  PROVE  Agrees(GetNewBlocks(p, n))
<1>1. PICK S : S = Range(Queue!PoppedN(p.free, n))
  OBVIOUS
<1>2. PICK f : f = Queue!AfterPopN(p.free, n)
  OBVIOUS
<1>3. PICK g : g = [b \in Blocks |-> IF b \in S THEN p.ref[b] + 1 ELSE p.ref[b]]
  OBVIOUS
<1>4. PICK q : q = Forget(p, S)
  OBVIOUS
<1>5. Agrees(q)
  BY <1>4, ForgetAgrees
<1>6. GetNewBlocks(p, n) = [q EXCEPT !.free = f, !.ref = g]
  BY <1>1, <1>2, <1>3, <1>4 DEF GetNewBlocks
<1> QED
  BY <1>5, <1>6 DEF Agrees

(* cache_full_blocks gives hashes to blocks that had none.                   *)
LEMMA CacheFullBlocksAgrees ==
  ASSUME NEW p, NEW r, NEW bs, NEW lo, NEW hi, Agrees(p),
         \A i \in lo .. hi : p.hash[bs[i]] = NoHash
  PROVE  Agrees(CacheFullBlocks(p, r, bs, lo, hi))
<1> DEFINE at(b) == CHOOSE i \in lo .. hi : bs[i] = b
           S == {bs[i] : i \in lo .. hi}
<1>1. PICK H : H = [b \in Blocks |-> IF b \in S THEN Hash(r, at(b)) ELSE p.hash[b]]
  OBVIOUS
<1>2. PICK M : M = [h \in Hashes |->
                      p.map[h] \union {b \in S : Hash(r, at(b)) = h}]
  OBVIOUS
<1>3. PICK T : T = p.stored \union {Hash(r, i) : i \in lo .. hi}
  OBVIOUS
<1>4. CacheFullBlocks(p, r, bs, lo, hi) = [p EXCEPT !.hash = H, !.map = M, !.stored = T]
  BY <1>1, <1>2, <1>3 DEF CacheFullBlocks
<1>5. ASSUME NEW h \in Hashes, NEW b \in Blocks
      PROVE  b \in M[h] <=> H[b] = h
  <2>1. CASE b \in S
    <3>1. p.hash[b] = NoHash
      BY <2>1
    <3>2. b \notin p.map[h]
      BY <3>1, HashIsNotNoHash DEF Agrees
    <3> QED
      BY <1>1, <1>2, <2>1, <3>2
  <2>2. CASE b \notin S
    BY <1>1, <1>2, <2>2 DEF Agrees
  <2> QED
    BY <2>1, <2>2
<1>6. DOMAIN H = Blocks /\ DOMAIN M = Hashes
  BY <1>1, <1>2
<1> HIDE DEF at, S
<1> QED
  BY <1>4, <1>5, <1>6 DEF Agrees

(* free_blocks and the announcement of a lookup leave the hashes alone.      *)
LEMMA FreeBlocksAgrees ==
  ASSUME NEW p, NEW bs, Agrees(p)
  PROVE  Agrees(FreeBlocks(p, bs))
<1>1. PICK f, g : FreeBlocks(p, bs) = [p EXCEPT !.ref = g, !.free = f]
  BY DEF FreeBlocks
<1> QED
  BY <1>1 DEF Agrees

(* emit_cached_block_events only announces.                                  *)
LEMMA AnnounceAgrees ==
  ASSUME NEW p, NEW r, NEW hits, Agrees(p)
  PROVE  Agrees(Announce(p, r, hits))
<1>1. PICK T : T = p.stored \union {Hash(r, i) : i \in DOMAIN hits}
  OBVIOUS
<1>2. Announce(p, r, hits) = p \/ Announce(p, r, hits) = [p EXCEPT !.stored = T]
  BY <1>1 DEF Announce
<1> QED
  BY <1>2 DEF Agrees

(* reset_prefix_cache empties both sides.                                    *)
LEMMA ResetAgrees ==
  ASSUME NEW p, Agrees(p)
  PROVE  Agrees(ResetPrefixCache(p))
<1>1. PICK H : H = [b \in Blocks |-> NoHash]
  OBVIOUS
<1>2. PICK M : M = [h \in Hashes |-> {}]
  OBVIOUS
<1>3. ResetPrefixCache(p) = [p EXCEPT !.hash = H, !.map = M, !.stored = {}]
  BY <1>1, <1>2 DEF ResetPrefixCache
<1>4. ASSUME NEW h \in Hashes, NEW b \in Blocks
      PROVE  b \in M[h] <=> H[b] = h
  BY <1>1, <1>2, HashIsNotNoHash
<1>5. DOMAIN H = Blocks /\ DOMAIN M = Hashes
  BY <1>1, <1>2
<1> QED
  BY <1>3, <1>4, <1>5 DEF Agrees

(* The handler allocate_slots, which touches, evicts and caches in one step. *)
LEMMA AllocateAgrees ==
  ASSUME Agrees(pool), NEW r, NEW hits, NEW n, Allocate(r, hits, n)
  PROVE  Agrees(pool')
<1> DEFINE total == TotalComputed(r, hits)
           p1 == AddComputed(Announce(pool, r, hits), hits)
           k == NewBlocks(r, hits, total + n)
           bs == table[r] \o hits \o Queue!PoppedN(p1.free, k)
           p2 == GetNewBlocks(p1, k)
           lo == cached[r] + Len(hits)
           hi == MaxOf(lo, FullBlocks(r, total + n))
<1>1. Agrees(p2)
  BY AnnounceAgrees, TouchAgrees, GetNewBlocksAgrees DEF AddComputed
<1>2. pool' = pool
      \/ /\ pool' = CacheFullBlocks(p2, r, bs, lo + 1, hi)
         /\ \A i \in lo + 1 .. hi : p2.hash[bs[i]] = NoHash
  BY DEF Allocate, tables
<1> HIDE DEF p2, bs, hi, lo
<1>3. CASE pool' = pool
  BY <1>3
<1> QED
  BY <1>1, <1>2, <1>3, CacheFullBlocksAgrees

(* They agree at first ...                                                    *)
LEMMA AgreesInit == Init => PoolAgrees
<1> SUFFICES ASSUME Init PROVE Agrees(pool)
  BY DEF PoolAgrees
<1>1. ASSUME NEW h \in Hashes, NEW b \in Blocks
      PROVE  b \in InitPool.map[h] <=> InitPool.hash[b] = h
  BY HashIsNotNoHash DEF InitPool
<1>2. DOMAIN InitPool.hash = Blocks /\ DOMAIN InitPool.map = Hashes
  BY DEF InitPool
<1>3. InitPool = [free |-> InitPool.free, ref |-> InitPool.ref,
                  hash |-> InitPool.hash, map |-> InitPool.map,
                  stored |-> InitPool.stored]
  BY DEF InitPool
<1> QED
  BY <1>1, <1>2, <1>3 DEF Init, Agrees

(* ... and every step of the scheduler preserves that.                        *)
LEMMA AgreesNext == PoolAgrees /\ [Next]_vars => PoolAgrees'
<1> SUFFICES ASSUME Agrees(pool), [Next]_vars PROVE Agrees(pool')
  BY DEF PoolAgrees
<1>1. ASSUME NEW r \in Requests, Schedule(r) \/ Admit(r) PROVE Agrees(pool')
  BY <1>1, AllocateAgrees DEF Schedule, Admit
<1>2. ASSUME NEW r \in Requests, Refuse(r) PROVE Agrees(pool')
  BY <1>2, AnnounceAgrees DEF Refuse
<1>3. ASSUME NEW r \in Requests, Output(r) \/ Arrive(r) PROVE Agrees(pool')
  BY <1>3 DEF Output, Arrive, tables
<1>4. ASSUME NEW r \in Requests, Preempt(r) \/ ResetPreempt(r) \/ Finish(r)
      PROVE  Agrees(pool')
  BY <1>4, FreeBlocksAgrees DEF Preempt, ResetPreempt, Preempted, Finish, Free
<1>5. CASE Skip \/ Execute
  BY <1>5 DEF Skip, Execute, tables
<1>6. CASE Reset \/ ResetForced
  BY <1>6, ResetAgrees DEF Reset, ResetForced, CacheReset, tables
<1>7. CASE UNCHANGED vars
  BY <1>7 DEF vars, tables
<1> QED
  BY <1>1, <1>2, <1>3, <1>4, <1>5, <1>6, <1>7 DEF Next

(* The map from hashes to blocks and the hash each block carries agree in    *)
(* every reachable state: a lookup never returns a block that was given to   *)
(* another prefix.                                                           *)
THEOREM HashesCorrect == Spec => []HashesAgree
<1>1. PoolAgrees => HashesAgree
  BY DEF PoolAgrees, Agrees, HashesAgree
<1> QED
  BY <1>1, AgreesInit, AgreesNext, PTL DEF Spec
-----------------------------------------------------------------------------
(***************************************************************************)
(* Induction over the numbers up to n.                                     *)
(***************************************************************************)
\* A set of numbers has a smallest one.
LEMMA Smallest ==
    ASSUME NEW T, T \subseteq Nat, T # {}
    PROVE  \E n \in T : \A m \in T : n <= m
<1>1. PICK x \in T : \A y \in T : ~(<<y, x>> \in OpToRel(<, Nat))
  BY NatLessThanWellFounded, WFMin
<1>2. \A y \in T : ~(<<y, x>> \in {ss \in Nat \X Nat : ss[1] < ss[2]})
  BY <1>1 DEF OpToRel
<1>3. \A y \in T : ~(y < x)
  <2> SUFFICES ASSUME NEW y \in T, y < x PROVE FALSE
    OBVIOUS
  <2>1. <<y, x>> \in Nat \X Nat /\ <<y, x>>[1] = y /\ <<y, x>>[2] = x
    OBVIOUS
  <2> QED
    BY <1>2, <2>1
<1> QED
  BY <1>3

\* What holds of 0 and is handed on from i - 1 to i holds up to n.
LEMMA Induction ==
  ASSUME NEW n \in Nat, NEW G, 0 \in G,
         \A i \in 1..n : i - 1 \in G => i \in G
  PROVE  0..n \subseteq G
<1> DEFINE T == (0..n) \ G
<1>1. T \subseteq Nat
  OBVIOUS
<1>2. ASSUME T # {} PROVE FALSE
  <2> HIDE DEF T
  <2>1. PICK m \in T : \A k \in T : m <= k
    BY <1>1, <1>2, Smallest
  <2>2. m \in 0..n /\ m \notin G
    BY DEF T
  <2>3. m # 0
    BY <2>2
  <2>4. m \in 1..n /\ m - 1 \in 0..n /\ ~(m <= m - 1)
    BY <2>2, <2>3
  <2>5. m - 1 \in G
    BY <2>1, <2>4 DEF T
  <2> QED
    BY <2>2, <2>4, <2>5
<1> QED
  BY <1>2

-----------------------------------------------------------------------------
(***************************************************************************)
(* Sequences of blocks: what Keep takes of one, and what it leaves.        *)
(***************************************************************************)
\* A function on 1..n is a sequence of length n.
LEMMA LenOf ==
  ASSUME NEW T, NEW n \in Nat, NEW f \in [1..n -> T]
  PROVE  f \in Seq(T) /\ Len(f) = n
BY LenProperties, SeqDef

\* w is what Keep(s, S) has taken of the first n elements of s; g[j] is the
\* place in s of its j-th element.
IsKept(n, s, S, w, g) ==
  /\ g \in [1..Len(w) -> 1..n]
  /\ \A j \in 1..Len(w) : w[j] = s[g[j]] /\ s[g[j]] \in S
  /\ \A j, k \in 1..Len(w) : j < k => g[j] < g[k]
  /\ \A i \in 1..n : s[i] \in S => \E j \in 1..Len(w) : g[j] = i

\* One more element of s is kept or passed over.
LEMMA KeptStep ==
  ASSUME NEW T, NEW n \in Nat, NEW s, NEW S, NEW i \in 1..n,
         NEW w \in Seq(T), NEW g, IsKept(i - 1, s, S, w, g), s[i] \in T
  PROVE  \E h : IsKept(i, s, S, IF s[i] \in S THEN Append(w, s[i]) ELSE w, h)
<1>1. PICK m \in Nat : m = Len(w)
  OBVIOUS
<1>2. /\ g \in [1..m -> 1..(i - 1)]
      /\ \A j \in 1..m : w[j] = s[g[j]] /\ s[g[j]] \in S
      /\ \A j, k \in 1..m : j < k => g[j] < g[k]
      /\ \A k \in 1..(i - 1) : s[k] \in S => \E j \in 1..m : g[j] = k
  BY <1>1 DEF IsKept
<1>3. CASE s[i] \notin S
  <2>1. \A k \in 1..i : k # i => k \in 1..(i - 1)
    OBVIOUS
  <2>2. \A k \in 1..i : s[k] \in S => \E j \in 1..m : g[j] = k
    BY <1>2, <1>3, <2>1
  <2>3. g \in [1..m -> 1..i]
    BY <1>2
  <2>4. IsKept(i, s, S, w, g)
    BY <1>1, <1>2, <2>2, <2>3 DEF IsKept
  <2> QED
    BY <1>3, <2>4
<1>4. CASE s[i] \in S
  <2>1. PICK v : v = Append(w, s[i])
    OBVIOUS
  <2>2. /\ Len(v) = m + 1 /\ v[m + 1] = s[i]
        /\ \A j \in 1..m : v[j] = w[j]
    BY <1>1, <2>1
  <2>3. PICK h : h = [j \in 1..(m + 1) |-> IF j = m + 1 THEN i ELSE g[j]]
    OBVIOUS
  <2>4. \A j \in 1..(m + 1) : j # m + 1 => j \in 1..m
    OBVIOUS
  <2>5. /\ h[m + 1] = i /\ m + 1 \in 1..(m + 1)
        /\ \A j \in 1..m : h[j] = g[j] /\ j \in 1..(m + 1)
    BY <2>3
  <2>6. \A j \in 1..m : g[j] \in 1..(i - 1) /\ g[j] \in 1..i /\ g[j] < i
    BY <1>2
  <2>7. h \in [1..(m + 1) -> 1..i]
    BY <2>3, <2>4, <2>6
  <2>8. ASSUME NEW j \in 1..(m + 1) PROVE v[j] = s[h[j]] /\ s[h[j]] \in S
    <3>1. CASE j = m + 1
      BY <1>4, <2>2, <2>5, <3>1
    <3>2. CASE j \in 1..m
      BY <1>2, <2>2, <2>5, <3>2
    <3> QED
      BY <2>4, <3>1, <3>2
  <2>9. ASSUME NEW j \in 1..(m + 1), NEW k \in 1..(m + 1), j < k
        PROVE  h[j] < h[k]
    <3>1. j \in 1..m
      BY <2>9
    <3>2. CASE k = m + 1
      BY <2>5, <2>6, <3>1, <3>2
    <3>3. CASE k \in 1..m
      BY <1>2, <2>5, <2>9, <3>1, <3>3
    <3> QED
      BY <2>4, <3>2, <3>3
  <2>10. ASSUME NEW k \in 1..i, s[k] \in S
         PROVE  \E j \in 1..(m + 1) : h[j] = k
    <3>1. CASE k = i
      BY <2>5, <3>1
    <3>2. CASE k # i
      <4>1. k \in 1..(i - 1)
        BY <3>2
      <4> QED
        BY <1>2, <2>5, <2>10, <4>1
    <3> QED
      BY <3>1, <3>2
  <2>11. IsKept(i, s, S, v, h)
    BY <2>2, <2>7, <2>8, <2>9, <2>10 DEF IsKept
  <2> QED
    BY <1>4, <2>1, <2>11
<1> QED
  BY <1>3, <1>4

\* Keep, by a name of its own: the provers do not unify the ones with a prefix.
Taken(s, S) == Queue!Keep(s, S)

\* Keep takes the elements of S in their order.
LEMMA KeepFacts ==
  ASSUME NEW T, NEW s \in Seq(T), NEW S
  PROVE  /\ Taken(s, S) \in Seq(T)
         /\ \E g : IsKept(Len(s), s, S, Taken(s, S), g)
<1>1. PICK n \in Nat : n = Len(s)
  OBVIOUS
<1> DEFINE Add(w, i) == IF s[i] \in S THEN Append(w, s[i]) ELSE w
           Rec(f) == f = [i \in 0..n |-> IF i = 0 THEN <<>> ELSE Add(f[i - 1], i)]
           c == CHOOSE f : Rec(f)
<1>2. Taken(s, S) = c[n]
  BY <1>1, Zenon DEF Taken, Queue!Keep
<1>3. ASSUME NEW i \in 1..n, NEW w \in Seq(T) PROVE Add(w, i) \in Seq(T)
  <2>1. s[i] \in T
    BY <1>1
  <2> QED
    BY <2>1
<1> DEFINE Part(m, f) == /\ f \in [0..m -> Seq(T)] /\ f[0] = <<>>
                         /\ \A i \in 1..m : f[i] = Add(f[i - 1], i)
<1> HIDE DEF Add
<1>4. \E f : Part(n, f)
  <2> DEFINE G == {m \in 0..n : \E f : Part(m, f)}
  <2>1. 0 \in G
    <3>1. PICK f : f = [i \in 0..0 |-> <<>>]
      OBVIOUS
    <3>2. f \in [0..0 -> Seq(T)] /\ f[0] = <<>> /\ \A i \in 1..0 : f[i] = Add(f[i - 1], i)
      BY <3>1
    <3> QED
      BY <3>2
  <2>2. ASSUME NEW i \in 1..n, i - 1 \in G PROVE i \in G
    <3>1. PICK h : Part(i - 1, h)
      BY <2>2
    <3>2. PICK f : f = [j \in 0..i |-> IF j = i THEN Add(h[i - 1], i) ELSE h[j]]
      OBVIOUS
    <3>3. i - 1 \in 0..(i - 1) /\ i \in 0..i /\ i - 1 \in 0..i /\ i - 1 # i /\ 0 \in 0..i
          /\ 0 # i
      OBVIOUS
    <3>4. h[i - 1] \in Seq(T)
      BY <3>1, <3>3
    <3>5. Add(h[i - 1], i) \in Seq(T)
      BY <1>3, <3>4
    <3>6. \A j \in 0..i : j # i => j \in 0..(i - 1)
      OBVIOUS
    <3>7. f \in [0..i -> Seq(T)]
      BY <3>1, <3>2, <3>5, <3>6
    <3>8. f[0] = <<>>
      BY <3>1, <3>2, <3>3
    <3>9. ASSUME NEW j \in 1..i PROVE f[j] = Add(f[j - 1], j)
      <4>1. CASE j = i
        BY <3>2, <3>3, <4>1
      <4>2. CASE j # i
        <5>1. j \in 1..(i - 1) /\ j \in 0..i /\ j - 1 \in 0..i /\ j - 1 # i
          BY <4>2
        <5>2. f[j] = h[j] /\ f[j - 1] = h[j - 1]
          BY <3>2, <4>2, <5>1
        <5> QED
          BY <3>1, <5>1, <5>2
      <4> QED
        BY <4>1, <4>2
    <3>10. Part(i, f) /\ i \in 0..n
      BY <3>7, <3>8, <3>9
    <3> QED
      BY <3>10
  <2> HIDE DEF G
  <2>3. 0..n \subseteq G
    BY <2>1, <2>2, Induction
  <2>4. n \in 0..n
    OBVIOUS
  <2> QED
    BY <2>3, <2>4 DEF G
<1>5. \E f : Rec(f)
  <2>1. PICK f : Part(n, f)
    BY <1>4
  <2>2. ASSUME NEW i \in 0..n
        PROVE  f[i] = IF i = 0 THEN <<>> ELSE Add(f[i - 1], i)
    <3>1. CASE i = 0
      BY <2>1, <3>1
    <3>2. CASE i # 0
      <4>1. i \in 1..n
        BY <3>2
      <4> QED
        BY <2>1, <3>2, <4>1
    <3> QED
      BY <3>1, <3>2
  <2>3. f = [i \in 0..n |-> f[i]]
    BY <2>1
  <2> QED
    BY <2>2, <2>3
<1>6. Rec(c)
  BY <1>5
<1> HIDE DEF c
<1>7. c[0] = <<>> /\ \A i \in 1..n : c[i] = Add(c[i - 1], i)
  BY <1>6
<1> HIDE DEF Rec, Part
<1> DEFINE H == {m \in 0..n : c[m] \in Seq(T) /\ \E g : IsKept(m, s, S, c[m], g)}
<1>8. 0 \in H
  <2>1. PICK g : g = [j \in 1..0 |-> 0]
    OBVIOUS
  <2>2. Len(<<>>) = 0 /\ <<>> \in Seq(T)
    OBVIOUS
  <2>3. IsKept(0, s, S, <<>>, g)
    BY <2>1, <2>2 DEF IsKept
  <2>4. c[0] \in Seq(T) /\ IsKept(0, s, S, c[0], g) /\ 0 \in 0..n
    BY <1>7, <2>2, <2>3
  <2> QED
    BY <2>4
<1>9. ASSUME NEW i \in 1..n, i - 1 \in H PROVE i \in H
  <2>1. PICK w : w = c[i - 1]
    OBVIOUS
  <2>2. w \in Seq(T) /\ \E g : IsKept(i - 1, s, S, w, g)
    BY <1>9, <2>1
  <2>3. PICK g : IsKept(i - 1, s, S, w, g)
    BY <2>2
  <2>4. s[i] \in T
    BY <1>1
  <2>5. \E h : IsKept(i, s, S, Add(w, i), h)
    BY <2>2, <2>3, <2>4, KeptStep DEF Add
  <2>6. c[i] = Add(w, i) /\ Add(w, i) \in Seq(T) /\ i \in 0..n
    BY <1>3, <1>7, <2>1, <2>2
  <2> QED
    BY <2>5, <2>6
<1> HIDE DEF H
<1>10. 0..n \subseteq H
  BY <1>8, <1>9, Induction
<1>11. n \in H
  BY <1>10
<1> QED
  BY <1>1, <1>2, <1>11 DEF H

\* What Keep takes is what s has of S.
LEMMA KeepRange ==
  ASSUME NEW T, NEW s \in Seq(T), NEW S
  PROVE  Range(Taken(s, S)) = Range(s) \cap S
<1>1. PICK w \in Seq(T) : w = Taken(s, S)
  BY KeepFacts
<1>2. PICK g : IsKept(Len(s), s, S, w, g)
  BY <1>1, KeepFacts
<1>3. DOMAIN w = 1..Len(w) /\ DOMAIN s = 1..Len(s)
  OBVIOUS
<1>4. ASSUME NEW x \in Range(w) PROVE x \in Range(s) /\ x \in S
  <2>1. PICK j \in 1..Len(w) : x = w[j]
    BY <1>3 DEF Range
  <2> QED
    BY <1>2, <1>3, <2>1 DEF IsKept, Range
<1>5. ASSUME NEW x \in Range(s), x \in S PROVE x \in Range(w)
  <2>1. PICK i \in 1..Len(s) : x = s[i]
    BY <1>3 DEF Range
  <2>2. PICK j \in 1..Len(w) : g[j] = i
    BY <1>2, <1>5, <2>1 DEF IsKept
  <2>3. w[j] = x
    BY <1>2, <2>1, <2>2 DEF IsKept
  <2> QED
    BY <1>3, <2>3 DEF Range
<1> QED
  BY <1>1, <1>4, <1>5

\* s has no element twice.
Distinct(s) == \A i, j \in 1..Len(s) : s[i] = s[j] => i = j

\* Keep preserves that, and the order of what it takes.
LEMMA KeepOrder ==
  ASSUME NEW T, NEW s \in Seq(T), NEW S, Distinct(s)
  PROVE  /\ Distinct(Taken(s, S))
         /\ \A i, j \in 1..Len(s) : i < j /\ s[i] \in S /\ s[j] \in S =>
              \E k, l \in 1..Len(Taken(s, S)) :
                 /\ k < l
                 /\ Taken(s, S)[k] = s[i] /\ Taken(s, S)[l] = s[j]
<1>1. PICK w \in Seq(T) : w = Taken(s, S)
  BY KeepFacts
<1>2. PICK g : IsKept(Len(s), s, S, w, g)
  BY <1>1, KeepFacts
<1>3. PICK m \in Nat : m = Len(w)
  OBVIOUS
<1>4. PICK n \in Nat : n = Len(s)
  OBVIOUS
<1>5. /\ g \in [1..m -> 1..n]
      /\ \A j \in 1..m : w[j] = s[g[j]] /\ s[g[j]] \in S
      /\ \A j, k \in 1..m : j < k => g[j] < g[k]
      /\ \A i \in 1..n : s[i] \in S => \E j \in 1..m : g[j] = i
  BY <1>2, <1>3, <1>4 DEF IsKept
<1>6. ASSUME NEW i \in 1..m, NEW j \in 1..m, w[i] = w[j] PROVE i = j
  <2>1. g[i] \in 1..n /\ g[j] \in 1..n
    BY <1>5
  <2>2. g[i] = g[j]
    BY <1>4, <1>5, <1>6, <2>1 DEF Distinct
  <2>3. ~(i < j) /\ ~(j < i)
    BY <1>5, <2>1, <2>2
  <2> QED
    BY <2>3
<1>7. ASSUME NEW i \in 1..n, NEW j \in 1..n, i < j, s[i] \in S, s[j] \in S
      PROVE  \E k, l \in 1..m : k < l /\ w[k] = s[i] /\ w[l] = s[j]
  <2>1. PICK k \in 1..m : g[k] = i
    BY <1>5, <1>7
  <2>2. PICK l \in 1..m : g[l] = j
    BY <1>5, <1>7
  <2>3. ~(l < k) /\ l # k
    BY <1>5, <1>7, <2>1, <2>2
  <2>4. k < l
    BY <2>3
  <2> QED
    BY <1>5, <2>1, <2>2, <2>4
<1> QED
  BY <1>1, <1>3, <1>4, <1>6, <1>7 DEF Distinct

\* Where the elements are once one of them is taken out.
LEMMA KeepButOne ==
  ASSUME NEW T, NEW s \in Seq(T), Distinct(s), NEW a \in 1..Len(s)
  PROVE  LET w == Taken(s, Range(s) \ {s[a]}) IN
         /\ w \in Seq(T) /\ Len(w) = Len(s) - 1
         /\ \A i \in 1..(Len(s) - 1) : w[i] = IF i < a THEN s[i] ELSE s[i + 1]
<1>1. PICK S : S = Range(s) \ {s[a]}
  OBVIOUS
<1>2. PICK w \in Seq(T) : w = Taken(s, S)
  BY KeepFacts
<1>3. PICK g : IsKept(Len(s), s, S, w, g)
  BY <1>2, KeepFacts
<1>4. PICK m \in Nat : m = Len(w)
  OBVIOUS
<1>5. PICK n \in Nat : n = Len(s)
  OBVIOUS
<1>6. \A i \in 1..n : s[i] \in S <=> i # a
  <2>1. DOMAIN s = 1..n
    BY <1>5
  <2> QED
    BY <1>1, <1>5, <2>1 DEF Range, Distinct
<1>7. /\ \A j \in 1..m : g[j] \in 1..n /\ g[j] # a /\ w[j] = s[g[j]]
      /\ \A j, k \in 1..m : j < k => g[j] < g[k]
      /\ \A i \in 1..n : i # a => \E j \in 1..m : g[j] = i
  <2>1. /\ g \in [1..m -> 1..n]
        /\ \A j \in 1..m : w[j] = s[g[j]] /\ s[g[j]] \in S
        /\ \A j, k \in 1..m : j < k => g[j] < g[k]
        /\ \A i \in 1..n : s[i] \in S => \E j \in 1..m : g[j] = i
    BY <1>3, <1>4, <1>5 DEF IsKept
  <2> QED
    BY <1>6, <2>1
<1>8. a \in 1..n
  BY <1>5
<1> DEFINE x(j) == IF j < a THEN j ELSE j + 1
           G == {j \in 0..m : j = 0 \/ g[j] = x(j)}
<1>9. 0 \in G
  OBVIOUS
<1>10. ASSUME NEW j \in 1..m, j - 1 \in G PROVE j \in G
  <2>1. g[j] \in 1..n /\ g[j] # a
    BY <1>7
  <2>2. g[j] >= x(j)
    <3>1. CASE j = 1
      BY <1>8, <2>1, <3>1
    <3>2. CASE j # 1
      <4>1. j - 1 \in 1..m /\ j - 1 < j /\ j - 1 # 0
        BY <3>2
      <4>2. g[j - 1] < g[j] /\ g[j - 1] = x(j - 1)
        BY <1>7, <1>10, <4>1
      <4> QED
        BY <1>8, <2>1, <4>2
    <3> QED
      BY <3>1, <3>2
  <2>3. x(j) \in 1..n /\ x(j) # a
    BY <1>8, <2>1, <2>2
  <2>4. PICK k \in 1..m : g[k] = x(j)
    BY <1>7, <2>3
  <2>5. ~(j < k)
    BY <1>7, <2>1, <2>2, <2>4
  <2>6. ~(k < j)
    <3> SUFFICES ASSUME k < j PROVE FALSE
      OBVIOUS
    <3>1. j - 1 \in 1..m /\ j - 1 # 0 /\ (k = j - 1 \/ k < j - 1)
      OBVIOUS
    <3>2. g[j - 1] = x(j - 1) /\ g[k] \in 1..n /\ g[j - 1] \in 1..n
      BY <1>7, <1>10, <3>1
    <3>3. g[k] <= g[j - 1]
      BY <1>7, <3>1, <3>2, SMTT(30)
    <3> QED
      BY <1>8, <2>4, <3>2, <3>3
  <2>7. k = j
    BY <2>5, <2>6
  <2> QED
    BY <2>4, <2>7
<1> HIDE DEF G
<1>11. 0..m \subseteq G
  BY <1>9, <1>10, Induction
<1>12. \A j \in 1..m : g[j] = x(j)
  BY <1>11 DEF G
<1>13. m = n - 1
  <2>1. m <= n - 1
    <3> SUFFICES ASSUME m >= n PROVE FALSE
      OBVIOUS
    <3>1. n \in 1..m /\ n >= a
      BY <1>8
    <3>2. g[n] = n + 1 /\ g[n] \in 1..n
      BY <1>7, <1>12, <3>1
    <3> QED
      BY <3>2
  <2>2. m >= n - 1
    <3> SUFFICES ASSUME m < n - 1 PROVE FALSE
      OBVIOUS
    <3>1. CASE a = n
      <4>1. n - 1 \in 1..n /\ n - 1 # a
        BY <1>8, <3>1
      <4>2. PICK k \in 1..m : g[k] = n - 1
        BY <1>7, <4>1
      <4>3. g[k] = k
        BY <1>12, <3>1
      <4> QED
        BY <4>2, <4>3
    <3>2. CASE a # n
      <4>1. n \in 1..n
        BY <1>8
      <4>2. PICK k \in 1..m : g[k] = n
        BY <1>7, <3>2, <4>1
      <4>3. g[k] <= k + 1
        BY <1>12
      <4> QED
        BY <4>2, <4>3
    <3> QED
      BY <3>1, <3>2
  <2> QED
    BY <2>1, <2>2
<1>14. \A i \in 1..(n - 1) : w[i] = IF i < a THEN s[i] ELSE s[i + 1]
  BY <1>7, <1>12, <1>13
<1> QED
  BY <1>1, <1>2, <1>4, <1>5, <1>13, <1>14

\* A sequence without repetitions is as long as its range is large.
LEMMA DistinctCardinality ==
  ASSUME NEW T, NEW s \in Seq(T), Distinct(s)
  PROVE  IsFiniteSet(Range(s)) /\ Cardinality(Range(s)) = Len(s)
<1>1. PICK n \in Nat : n = Len(s)
  OBVIOUS
<1>2. DOMAIN s = 1..n
  BY <1>1
<1>3. PICK f : f = [i \in 1..n |-> s[i]]
  OBVIOUS
<1>4. f \in [1..n -> Range(s)] /\ \A i \in 1..n : f[i] = s[i]
  BY <1>2, <1>3 DEF Range
<1>5. \A i, j \in 1..n : f[i] = f[j] => i = j
  BY <1>1, <1>4 DEF Distinct
<1>6. \A x \in Range(s) : \E i \in 1..n : f[i] = x
  BY <1>2, <1>4 DEF Range
<1>7. f \in Bijection(1..n, Range(s))
  BY <1>4, <1>5, <1>6 DEF Bijection, Injection, Surjection, IsInjective
<1>8. ExistsBijection(1..n, Range(s))
  BY <1>7 DEF ExistsBijection
<1>9. IsFiniteSet(1..n) /\ Cardinality(1..n) = n
  <2>1. IsFiniteSet(1..n) /\ Cardinality(1..n) = IF 1 > n THEN 0 ELSE n - 1 + 1
    BY FS_Interval
  <2> QED
    BY <2>1
<1> QED
  BY <1>1, <1>8, <1>9, FS_Bijection

\* The range of a concatenation.
LEMMA ConcatRange ==
  ASSUME NEW T, NEW s \in Seq(T), NEW u \in Seq(T)
  PROVE  Range(s \o u) = Range(s) \cup Range(u)
<1>1. PICK m \in Nat : m = Len(s)
  OBVIOUS
<1>2. PICK n \in Nat : n = Len(u)
  OBVIOUS
<1>3. PICK w \in Seq(T) : w = s \o u
  BY ConcatProperties
<1>4. /\ DOMAIN w = 1..(m + n) /\ DOMAIN s = 1..m /\ DOMAIN u = 1..n
      /\ \A i \in 1..m : w[i] = s[i]
      /\ \A i \in (m + 1)..(m + n) : w[i] = u[i - m]
  <2>1. /\ Len(w) = m + n
        /\ \A i \in 1..(m + n) : w[i] = IF i <= m THEN s[i] ELSE u[i - m]
    BY <1>1, <1>2, <1>3, ConcatProperties
  <2> QED
    BY <1>1, <1>2, <2>1
<1>5. \A i \in 1..n : i + m \in (m + 1)..(m + n) /\ (i + m) - m = i /\ i + m \in 1..(m + n)
  OBVIOUS
<1>6. \A i \in 1..n : w[i + m] = u[i]
  BY <1>4, <1>5
<1>7. \A i \in 1..(m + n) : i \in 1..m \/ (i \in (m + 1)..(m + n) /\ i - m \in 1..n)
  OBVIOUS
<1>8. ASSUME NEW x \in Range(w) PROVE x \in Range(s) \cup Range(u)
  <2>1. PICK i \in 1..(m + n) : x = w[i]
    BY <1>4 DEF Range
  <2>2. CASE i \in 1..m
    BY <1>4, <2>1, <2>2 DEF Range
  <2>3. CASE i \in (m + 1)..(m + n) /\ i - m \in 1..n
    BY <1>4, <2>1, <2>3 DEF Range
  <2> QED
    BY <1>7, <2>2, <2>3
<1>9. ASSUME NEW x \in Range(s) PROVE x \in Range(w)
  <2>1. PICK i \in 1..m : x = s[i]
    BY <1>4 DEF Range
  <2>2. i \in 1..(m + n)
    OBVIOUS
  <2> QED
    BY <1>4, <2>1, <2>2 DEF Range
<1>10. ASSUME NEW x \in Range(u) PROVE x \in Range(w)
  <2>1. PICK i \in 1..n : x = u[i]
    BY <1>4 DEF Range
  <2> QED
    BY <1>4, <1>5, <1>6, <2>1 DEF Range
<1> QED
  BY <1>3, <1>8, <1>9, <1>10

-----------------------------------------------------------------------------
(***************************************************************************)
(* Blocks, tokens and hashes.                                              *)
(***************************************************************************)
\* Multiplication by the block size, for provers that take it as it is.
LEMMA Times ==
  ASSUME NEW a \in Nat, NEW b \in Nat
  PROVE  /\ a * BlockSize \in Nat /\ b * BlockSize \in Nat
         /\ a <= b => a * BlockSize <= b * BlockSize
         /\ a < b => a * BlockSize + BlockSize <= b * BlockSize
         /\ a < b <=> a * BlockSize < b * BlockSize
         /\ (a + 1) * BlockSize = a * BlockSize + BlockSize
         /\ (a + b) * BlockSize = a * BlockSize + b * BlockSize
<1>1. PICK B \in Nat : B = BlockSize /\ B > 0
  BY PoolAssumption
<1>2. a * B \in Nat /\ b * B \in Nat /\ (a + 1) * B = a * B + B
      /\ (a + b) * B = a * B + b * B
  BY <1>1
<1>3. a <= b => a * B <= b * B
  BY <1>1
<1>4. ASSUME a < b PROVE a * B + B <= b * B
  <2>1. (a + 1) * B <= b * B
    BY <1>1, <1>4
  <2> QED
    BY <1>2, <2>1
<1>5. b <= a => b * B <= a * B
  BY <1>1
<1> QED
  BY <1>1, <1>2, <1>3, <1>4, <1>5

\* Rounding down and up to blocks.
LEMMA Divides ==
  ASSUME NEW a \in Nat
  PROVE  /\ a \div BlockSize \in Nat
         /\ (a \div BlockSize) * BlockSize <= a
         /\ a < (a \div BlockSize) * BlockSize + BlockSize
         /\ Cdiv(a, BlockSize) \in Nat
         /\ a <= Cdiv(a, BlockSize) * BlockSize
         /\ a > 0 => Cdiv(a, BlockSize) * BlockSize < a + BlockSize
<1>1. PICK B \in Nat : B = BlockSize /\ B > 0
  BY PoolAssumption
<1>2. ASSUME NEW x \in Nat
      PROVE  x \div B \in Nat /\ (x \div B) * B <= x /\ x < (x \div B) * B + B
  <2>1. x = B * (x \div B) + (x % B) /\ (x % B) \in 0..(B - 1) /\ x \div B \in Int
    BY <1>1
  <2>2. PICK q \in Int : q = x \div B
    BY <2>1
  <2>3. PICK m \in Int : m = (x % B)
    BY <2>1
  <2>4. x = B * q + m /\ m >= 0 /\ m < B
    BY <1>1, <2>1, <2>2, <2>3
  <2>5. q * B = B * q /\ q * B \in Int
    BY <1>1
  <2>6. q >= 0
    <3> SUFFICES ASSUME q < 0 PROVE FALSE
      OBVIOUS
    <3>1. q <= -1 /\ q + 1 <= 0
      OBVIOUS
    <3>2. (q + 1) * B <= 0 /\ (q + 1) * B = q * B + B
      BY <1>1, <3>1
    <3> QED
      BY <1>1, <2>4, <2>5, <3>2
  <2> QED
    BY <2>2, <2>4, <2>5, <2>6
<1>3. a + B - 1 \in Nat
  BY <1>1
<1>4. PICK y \in Nat : y = a + B - 1
  BY <1>3
<1>5. y \div B \in Nat /\ (y \div B) * B <= y /\ y < (y \div B) * B + B
  BY <1>2
<1>6. Cdiv(a, BlockSize) = y \div B
  BY <1>1, <1>4 DEF Cdiv
<1>7. PICK c \in Nat : c = y \div B
  BY <1>5
<1>8. PICK d \in Nat : d = c * B
  BY <1>1
<1>9. d <= y /\ y < d + B
  BY <1>5, <1>7, <1>8
<1>10. a <= d /\ (a > 0 => d < a + B)
  BY <1>1, <1>4, <1>9
<1> QED
  BY <1>1, <1>2, <1>6, <1>7, <1>8, <1>10

\* Between the multiples of the block size.
LEMMA FloorIs ==
  ASSUME NEW a \in Nat, NEW q \in Nat
  PROVE  q <= a \div BlockSize <=> q * BlockSize <= a
<1>1. PICK d \in Nat : d = a \div BlockSize
  BY Divides
<1>2. d * BlockSize <= a /\ a < d * BlockSize + BlockSize
  BY <1>1, Divides
<1>3. PICK B \in Nat : B = BlockSize /\ B > 0
  BY PoolAssumption
<1>4. q * B \in Nat /\ d * B \in Nat
  BY <1>3
<1>5. q <= d => q * B <= d * B
  BY <1>3
<1>6. q > d => d * B + B <= q * B
  BY <1>3, Times
<1>7. q <= d <=> q * B <= a
  BY <1>2, <1>3, <1>4, <1>5, <1>6
<1> QED
  BY <1>1, <1>3, <1>7

\* And above them.
LEMMA CeilingIs ==
  ASSUME NEW a \in Nat, NEW q \in Nat
  PROVE  q < Cdiv(a, BlockSize) <=> q * BlockSize < a
<1>1. PICK c \in Nat : c = Cdiv(a, BlockSize)
  BY Divides
<1>2. a <= c * BlockSize /\ (a > 0 => c * BlockSize < a + BlockSize)
  BY <1>1, Divides
<1>3. PICK B \in Nat : B = BlockSize /\ B > 0
  BY PoolAssumption
<1>4. q * B \in Nat /\ c * B \in Nat
  BY <1>3
<1>5. c <= q => c * B <= q * B
  BY <1>3
<1>6. q < c => q * B + B <= c * B
  BY <1>3, Times
<1>7. CASE a = 0
  <2>1. a + B - 1 \in 0..(B - 1)
    BY <1>3, <1>7
  <2>2. \A x \in 0..(B - 1) : x \div B = 0
    BY <1>3
  <2>3. c = 0
    BY <1>1, <1>3, <2>1, <2>2 DEF Cdiv
  <2> QED
    BY <1>1, <1>3, <1>4, <1>7, <2>3
<1>8. CASE a > 0
  <2>1. q < c <=> q * B < a
    BY <1>2, <1>3, <1>4, <1>5, <1>6, <1>8
  <2> QED
    BY <1>1, <1>3, <2>1
<1> QED
  BY <1>7, <1>8

\* A block of r that its text fills.
Full(r, i) == i \in Nat /\ i * BlockSize <= Len(Text[r])

\* A hash is as long as the prefix it stands for.
LEMMA HashLen ==
  ASSUME NEW r \in Requests, NEW i, Full(r, i)
  PROVE  /\ Hash(r, i) \in Seq(Nat) /\ Len(Hash(r, i)) = i * BlockSize
         /\ \A k \in 1..(i * BlockSize) : Hash(r, i)[k] = Text[r][k]
         /\ i >= 1 => Hash(r, i) \in Hashes
<1>1. i \in Nat /\ i * BlockSize \in Nat /\ BlockSize \in Nat /\ Text[r] \in Seq(Nat)
  BY PoolAssumption, Times DEF Full
<1>2. PICK m \in Nat : m = i * BlockSize
  BY <1>1
<1>3. PICK t \in Seq(Nat) : t = Text[r]
  BY <1>1
<1>4. m <= Len(t)
  BY <1>2, <1>3 DEF Full
<1>5. Hash(r, i) = SubSeq(t, 1, m)
  BY <1>2, <1>3 DEF Hash, Prefix
<1>6. PICK h : h = SubSeq(t, 1, m)
  OBVIOUS
<1>7. h \in Seq(Nat) /\ Len(h) = m /\ \A k \in 1..m : h[k] = t[k]
  BY <1>4, <1>6
<1>8. ASSUME i >= 1 PROVE Hash(r, i) \in Hashes
  <2>1. Len(Text[r]) \in Nat
    BY <1>1
  <2>2. i <= Len(Text[r]) \div BlockSize
    BY <1>1, <2>1, FloorIs DEF Full
  <2>3. PICK d \in Nat : d = Len(Text[r]) \div BlockSize
    BY <2>1, Divides
  <2>4. i \in 1 .. d
    <3>1. i <= d /\ i \in Nat
      BY <1>1, <2>2, <2>3
    <3> QED
      BY <1>8, <3>1
  <2> QED
    BY <2>3, <2>4 DEF Hashes
<1> QED
  BY <1>2, <1>3, <1>5, <1>6, <1>7, <1>8

\* Every hash is that of some full block.
LEMMA HashOf ==
  ASSUME NEW h \in Hashes
  PROVE  \E r \in Requests : \E i \in Nat : i >= 1 /\ Full(r, i) /\ h = Hash(r, i)
<1>1. PICK r \in Requests : \E i \in 1 .. Len(Text[r]) \div BlockSize : h = Hash(r, i)
  BY DEF Hashes
<1>2. PICK i \in 1 .. Len(Text[r]) \div BlockSize : h = Hash(r, i)
  BY <1>1
<1>3. Len(Text[r]) \in Nat
  BY PoolAssumption
<1>4. Len(Text[r]) \div BlockSize \in Nat
  BY <1>3, Divides
<1>5. i \in Nat /\ i >= 1 /\ i <= Len(Text[r]) \div BlockSize
  BY <1>4
<1>6. i * BlockSize <= Len(Text[r])
  BY <1>3, <1>5, FloorIs
<1> QED
  BY <1>2, <1>5, <1>6 DEF Full

\* Blocks with the same hash are at the same place, and so are those before.
LEMMA HashPlace ==
  ASSUME NEW r \in Requests, NEW s \in Requests, NEW i, NEW j,
         Full(r, i), Full(s, j), Hash(r, i) = Hash(s, j)
  PROVE  i = j
<1>1. i * BlockSize = j * BlockSize
  BY HashLen
<1>2. i \in Nat /\ j \in Nat
  BY DEF Full
<1>3. i * BlockSize \in Nat /\ (i < j <=> i * BlockSize < j * BlockSize)
  BY <1>2, Times
<1>4. j * BlockSize \in Nat /\ (j < i <=> j * BlockSize < i * BlockSize)
  BY <1>2, Times
<1> QED
  BY <1>1, <1>2, <1>3, <1>4

\* The hash of the block before.
LEMMA HashParent ==
  ASSUME NEW r \in Requests, NEW i, Full(r, i), i >= 1
  PROVE  /\ Full(r, i - 1)
         /\ SubSeq(Hash(r, i), 1, Len(Hash(r, i)) - BlockSize) = Hash(r, i - 1)
         /\ Len(Hash(r, i)) > BlockSize <=> i > 1
<1>1. i \in Nat /\ i - 1 \in Nat /\ (i - 1) + 1 = i
  BY DEF Full
<1>2. PICK B \in Nat : B = BlockSize /\ B > 0
  BY PoolAssumption
<1>3. PICK d \in Nat : d = (i - 1) * B
  BY <1>1, <1>2
<1>4. i * BlockSize = d + B
  BY <1>1, <1>2, <1>3, Times
<1>5. Full(r, i - 1)
  <2>1. d + B <= Len(Text[r]) /\ Len(Text[r]) \in Nat
    BY <1>4, PoolAssumption DEF Full
  <2> QED
    BY <1>1, <1>2, <1>3, <2>1 DEF Full
<1>6. PICK t \in Seq(Nat) : t = Text[r]
  BY PoolAssumption
<1>7. d + B <= Len(t)
  BY <1>4, <1>6 DEF Full
<1>8. Hash(r, i) = SubSeq(t, 1, d + B) /\ Hash(r, i - 1) = SubSeq(t, 1, d)
  BY <1>2, <1>3, <1>4, <1>6 DEF Hash, Prefix
<1>9. PICK h : h = SubSeq(t, 1, d + B)
  OBVIOUS
<1>10. h \in Seq(Nat) /\ Len(h) = d + B /\ \A k \in 1..(d + B) : h[k] = t[k]
  BY <1>7, <1>9
<1>11. SubSeq(h, 1, d) = SubSeq(t, 1, d)
  <2>1. PICK u : u = SubSeq(h, 1, d)
    OBVIOUS
  <2>2. PICK v : v = SubSeq(t, 1, d)
    OBVIOUS
  <2>3. u \in Seq(Nat) /\ Len(u) = d /\ \A k \in 1..d : u[k] = h[k]
    BY <1>10, <2>1
  <2>4. v \in Seq(Nat) /\ Len(v) = d /\ \A k \in 1..d : v[k] = t[k]
    BY <1>7, <2>2
  <2>5. ASSUME NEW k \in 1..d PROVE u[k] = v[k]
    <3>1. k \in 1..(d + B)
      BY <1>2
    <3> QED
      BY <1>10, <2>3, <2>4, <3>1
  <2> QED
    BY <2>1, <2>2, <2>3, <2>4, <2>5, SeqEqual
<1>12. Len(Hash(r, i)) - BlockSize = d
  BY <1>2, <1>8, <1>9, <1>10
<1>13. d + B > B <=> i > 1
  <2>1. CASE i = 1
    BY <1>2, <1>3, <2>1
  <2>2. CASE i > 1
    <3>1. (i - 1) * B >= 1
      BY <1>1, <1>2, <2>2
    <3> QED
      BY <1>2, <1>3, <2>2, <3>1
  <2> QED
    BY <1>1, <2>1, <2>2
<1> QED
  BY <1>2, <1>5, <1>8, <1>9, <1>10, <1>11, <1>12, <1>13

-----------------------------------------------------------------------------
(***************************************************************************)
(* The inductive invariant.                                                *)
(***************************************************************************)
\* The requests that hold a block.
Holders(b) == {r \in Requests : b \in Range(table[r])}

\* The running requests, each once; the others hold nothing.
RunInv ==
  /\ Distinct(running)
  /\ \A r \in Requests : status[r] = "running" <=> r \in Range(running)
  /\ \A r \in Requests : status[r] # "running" =>
       table[r] = <<>> /\ cached[r] = 0 /\ computed[r] = 0 /\ sched[r] = 0

\* Where the step stands: only requests before the cursor are in it, and a
\* request that is retried asks for tokens it has.
StepInv ==
  /\ forced => cursor = 1 /\ open
  /\ want > 0 => /\ ~open /\ cursor <= Len(running)
                 /\ computed[running[cursor]] + want <= ntok[running[cursor]]
  /\ \A i \in 1..Len(running) : i >= cursor => sched[running[i]] = 0
  /\ \A r \in Requests : computed[r] + sched[r] <= ntok[r]

\* A reference is a place in a table; who has none is on the free queue.
RefInv ==
  /\ \A b \in Blocks : pool.ref[b] = Cardinality(Holders(b))
  /\ \A b \in Blocks : b \in Range(pool.free) <=> pool.ref[b] = 0
  /\ Distinct(pool.free)

\* A table holds a block once, has room for what the step computes, and its
\* first cached[r] blocks, which are the full ones, carry the hashes of r.
TableInv == \A r \in Requests :
  /\ Distinct(table[r])
  /\ computed[r] + sched[r] <= Len(table[r]) * BlockSize
  /\ cached[r] * BlockSize <= computed[r] + sched[r]
  /\ computed[r] + sched[r] < cached[r] * BlockSize + BlockSize
  /\ \A i \in 1..Len(table[r]) :
       pool.hash[table[r][i]] = IF i <= cached[r] THEN Hash(r, i) ELSE NoHash

\* A block without a hash has one holder, and one still to be computed has at
\* most one holder that is to compute it.
ShareInv == \A r, s \in Requests :
  \A i \in 1..Len(table[r]), j \in 1..Len(table[s]) :
    r # s /\ table[r][i] = table[s][j] =>
      /\ i <= cached[r]
      /\ i * BlockSize <= computed[r] \/ j * BlockSize <= computed[s]

\* A subscriber believes in hashes that some block carries.
StoredInv == \A h \in pool.stored : \E b \in Blocks : pool.hash[b] = h

\* Of two free blocks, b is evicted before c.
Before(b, c) == \E i, j \in 1..Len(pool.free) :
  i < j /\ pool.free[i] = b /\ pool.free[j] = c

\* A block with the prefix that the hash of b extends outlives a free block b.
OrderInv == \A b \in Blocks :
  pool.ref[b] = 0 /\ pool.hash[b] # NoHash /\ Len(pool.hash[b]) > BlockSize =>
    \E c \in Blocks :
      /\ pool.hash[c] = SubSeq(pool.hash[b], 1, Len(pool.hash[b]) - BlockSize)
      /\ pool.ref[c] > 0 \/ Before(b, c)

\* The step under way will write h into b.
Due(b, h) == \E r \in Requests : \E i \in 1..Len(table[r]) :
  /\ table[r][i] = b /\ Hash(r, i) = h
  /\ computed[r] < i * BlockSize /\ i * BlockSize <= computed[r] + sched[r]

\* A block that is cached holds what its hash says, or will after the step.
CacheInv == \A b \in Blocks :
  pool.hash[b] # NoHash => content[b] = pool.hash[b] \/ Due(b, pool.hash[b])

\* So does a block that a request has computed or hit.
OwnInv == \A r \in Requests : \A i \in 1..Len(table[r]) :
  (i - 1) * BlockSize < computed[r] =>
    \/ content[table[r][i]] = Prefix(r, MinOf(i * BlockSize, computed[r]))
    \/ i * BlockSize <= computed[r] /\ Due(table[r][i], Hash(r, i))

\* What holds under either scheduling policy, and what needs FCFS.
PoolInv == RefInv /\ TableInv /\ ShareInv /\ StoredInv /\ OrderInv
KVInv == ~Priority => CacheInv /\ OwnInv

\* The scheduler's side, and everything together.
SchedInv == TypeOK /\ FaultFree /\ RunInv /\ StepInv
IInv == PoolAgrees /\ SchedInv /\ PoolInv /\ KVInv

-----------------------------------------------------------------------------
(***************************************************************************)
(* What allocate_slots does to the pool.                                   *)
(***************************************************************************)
\* The free queue q without the hits, the k blocks taken from it, the table bs
\* with them, and the blocks lo + 1 .. hi that are cached.
Plan(r, hits, n, q, k, new, bs, lo, hi) ==
  /\ q = Taken(pool.free, Range(pool.free) \ {b \in Range(hits) : pool.ref[b] = 0})
  /\ k = NewBlocks(r, hits, TotalComputed(r, hits) + n)
  /\ new = SubSeq(q, 1, k)
  /\ bs = table[r] \o hits \o new
  /\ lo = cached[r] + Len(hits)
  /\ hi = MaxOf(lo, FullBlocks(r, TotalComputed(r, hits) + n))

\* An assertion fails.
Raises(hits, n, q, k, new, bs, lo, hi) ==
  \/ n = 0
  \/ k > Len(q)
  \/ \E i \in 1..k : new[i] \in Range(hits) \/ pool.ref[new[i]] # 0
  \/ \E i \in lo + 1 .. hi : bs[i] \notin Range(new) /\ pool.hash[bs[i]] # NoHash

\* The outcome otherwise.
Done(r, hits, n, q, k, new, bs, lo, hi) ==
  /\ pool' \in PoolType
  /\ pool'.free = SubSeq(q, k + 1, Len(q))
  /\ \A b \in Blocks : pool'.ref[b] =
       IF b \in Range(hits) \/ b \in Range(new) THEN pool.ref[b] + 1 ELSE pool.ref[b]
  /\ \A b \in Blocks :
       /\ (\E i \in lo + 1 .. hi : bs[i] = b) =>
            \E i \in lo + 1 .. hi : bs[i] = b /\ pool'.hash[b] = Hash(r, i)
       /\ ~(\E i \in lo + 1 .. hi : bs[i] = b) =>
            pool'.hash[b] = IF b \in Range(new) THEN NoHash ELSE pool.hash[b]
  /\ \A h \in pool'.stored :
       \/ \E i \in lo + 1 .. hi : h = Hash(r, i)
       \/ /\ h \in pool.stored \/ \E i \in 1..Len(hits) : h = Hash(r, i)
          /\ \A b \in Range(new) : pool.hash[b] # h
  /\ table' = [table EXCEPT ![r] = bs]
  /\ cached' = [cached EXCEPT ![r] = hi]
  /\ computed' = [computed EXCEPT ![r] = TotalComputed(r, hits)]
  /\ sched' = [sched EXCEPT ![r] = n]
  /\ fault' = fault

\* emit_cached_block_events adds hashes of hits.
LEMMA AnnounceIs ==
  ASSUME NEW p \in PoolType, NEW r \in Requests, NEW hits \in Seq(Blocks),
         \A i \in 1..Len(hits) : Full(r, i), NEW x, x = Announce(p, r, hits)
  PROVE  /\ x \in PoolType /\ x.free = p.free /\ x.ref = p.ref /\ x.hash = p.hash
         /\ x.map = p.map
         /\ \A h \in x.stored : h \in p.stored \/ \E i \in 1..Len(hits) : h = Hash(r, i)
<1>1. DOMAIN hits = 1..Len(hits)
  OBVIOUS
<1>2. p.stored \in SUBSET Hashes
  BY DEF PoolType
<1>3. CASE r \in ReportFull
  <2>1. PICK A : A = p.stored \union {Hash(r, i) : i \in DOMAIN hits}
    OBVIOUS
  <2>2. x = [p EXCEPT !.stored = A]
    BY <1>3, <2>1 DEF Announce
  <2>3. ASSUME NEW i \in 1..Len(hits) PROVE Hash(r, i) \in Hashes
    <3>1. Full(r, i) /\ i >= 1
      OBVIOUS
    <3> QED
      BY <3>1, HashLen
  <2>4. A \in SUBSET Hashes
    BY <1>1, <1>2, <2>1, <2>3
  <2>5. x = [free |-> p.free, ref |-> p.ref, hash |-> p.hash, map |-> p.map, stored |-> A]
    BY <2>2 DEF PoolType
  <2>6. x \in PoolType
    BY <2>4, <2>5 DEF PoolType
  <2>7. \A h \in A : h \in p.stored \/ \E i \in 1..Len(hits) : h = Hash(r, i)
    BY <1>1, <2>1
  <2> QED
    BY <2>5, <2>6, <2>7
<1>4. CASE r \notin ReportFull
  BY <1>4 DEF Announce
<1> QED
  BY <1>3, <1>4

\* Touching the hits takes them off the queue ...
LEMMA TouchFree ==
  ASSUME NEW p \in PoolType, NEW S
  PROVE  \E Z : /\ Z = Range(p.free) \ {b \in S : p.ref[b] = 0}
                /\ Touch(p, S).free = Taken(p.free, Z)
<1>1. PICK Z : Z = Range(p.free) \ {b \in S : p.ref[b] = 0}
  OBVIOUS
<1>2. PICK R : R = [b \in Blocks |-> IF b \in S THEN p.ref[b] + 1 ELSE p.ref[b]]
  OBVIOUS
<1>3. PICK f : f = Queue!AfterRemove(p.free, {b \in S : p.ref[b] = 0})
  OBVIOUS
<1>4. f = Taken(p.free, Z)
  BY <1>1, <1>3 DEF Taken, Queue!AfterRemove, Range
<1>5. Touch(p, S) = [p EXCEPT !.free = f, !.ref = R]
  BY <1>2, <1>3 DEF Touch
<1>6. Touch(p, S).free = Taken(p.free, Z)
  BY <1>4, <1>5 DEF PoolType
<1> QED
  BY <1>1, <1>6

\* ... and counts a reference for each.
LEMMA TouchIs ==
  ASSUME NEW p \in PoolType, NEW S, NEW x, x = Touch(p, S)
  PROVE  /\ x \in PoolType /\ x.hash = p.hash /\ x.stored = p.stored
         /\ \A b \in Blocks : x.ref[b] = IF b \in S THEN p.ref[b] + 1 ELSE p.ref[b]
<1>1. PICK R : R = [b \in Blocks |-> IF b \in S THEN p.ref[b] + 1 ELSE p.ref[b]]
  OBVIOUS
<1>2. p.ref \in [Blocks -> Nat] /\ p.free \in Seq(Blocks)
  BY DEF PoolType
<1>3. R \in [Blocks -> Nat]
  BY <1>1, <1>2
<1>4. PICK f : f = Queue!AfterRemove(p.free, {b \in S : p.ref[b] = 0})
  OBVIOUS
<1>5. PICK Z : Z = Range(p.free) \ {b \in S : p.ref[b] = 0}
  OBVIOUS
<1>6. f = Taken(p.free, Z)
  BY <1>4, <1>5 DEF Taken, Queue!AfterRemove, Range
<1>7. f \in Seq(Blocks)
  BY <1>2, <1>6, KeepFacts
<1>8. x = [p EXCEPT !.free = f, !.ref = R]
  BY <1>1, <1>4 DEF Touch
<1>9. x = [free |-> f, ref |-> R, hash |-> p.hash, map |-> p.map, stored |-> p.stored]
  BY <1>8 DEF PoolType
<1>10. x \in PoolType
  BY <1>3, <1>7, <1>9 DEF PoolType
<1>11. \A b \in Blocks : R[b] = IF b \in S THEN p.ref[b] + 1 ELSE p.ref[b]
  BY <1>1
<1> QED
  BY <1>9, <1>10, <1>11

\* get_new_blocks takes the first n blocks, which lose their hashes.
LEMMA GetNewBlocksIs ==
  ASSUME NEW p \in PoolType, NEW n \in Nat, n <= Len(p.free), NEW x,
         x = GetNewBlocks(p, n), NEW S, S = Range(SubSeq(p.free, 1, n))
  PROVE  /\ x \in PoolType
         /\ x.free = SubSeq(p.free, n + 1, Len(p.free))
         /\ \A b \in Blocks :
              /\ x.ref[b] = IF b \in S THEN p.ref[b] + 1 ELSE p.ref[b]
              /\ x.hash[b] = IF b \in S THEN NoHash ELSE p.hash[b]
         /\ \A h \in x.stored : h \in p.stored /\ \A b \in S : p.hash[b] # h
<1>1. /\ p.ref \in [Blocks -> Nat] /\ p.hash \in [Blocks -> Hashes \union {NoHash}]
      /\ p.map \in [Hashes -> SUBSET Blocks] /\ p.stored \in SUBSET Hashes
      /\ p.free \in Seq(Blocks)
  BY DEF PoolType
<1>2. PICK R : R = [b \in Blocks |-> IF b \in S THEN p.ref[b] + 1 ELSE p.ref[b]]
  OBVIOUS
<1>3. PICK H : H = [b \in Blocks |-> IF b \in S THEN NoHash ELSE p.hash[b]]
  OBVIOUS
<1>4. PICK M : M = [h \in Hashes |-> p.map[h] \ S]
  OBVIOUS
<1>5. PICK A : A = p.stored \ {p.hash[b] : b \in S}
  OBVIOUS
<1>6. PICK f : f = SubSeq(p.free, n + 1, Len(p.free))
  OBVIOUS
<1>7. Queue!PoppedN(p.free, n) = SubSeq(p.free, 1, n)
      /\ Queue!AfterPopN(p.free, n) = f
  BY <1>6 DEF Queue!PoppedN, Queue!AfterPopN
<1>8. PICK q : q = Forget(p, S)
  OBVIOUS
<1>9. q = [p EXCEPT !.hash = H, !.map = M, !.stored = A]
  BY <1>3, <1>4, <1>5, <1>8 DEF Forget
<1>10. x = [q EXCEPT !.free = f, !.ref = R]
  BY <1>2, <1>7, <1>8 DEF GetNewBlocks
<1>11. x = [free |-> f, ref |-> R, hash |-> H, map |-> M, stored |-> A]
  BY <1>9, <1>10 DEF PoolType
<1>12. /\ R \in [Blocks -> Nat] /\ H \in [Blocks -> Hashes \union {NoHash}]
       /\ M \in [Hashes -> SUBSET Blocks] /\ A \in SUBSET Hashes
  BY <1>1, <1>2, <1>3, <1>4, <1>5
<1>13. f \in Seq(Blocks)
  <2>1. PICK m \in Nat : m = Len(p.free)
    BY <1>1
  <2>2. n <= m
    BY <2>1
  <2> QED
    BY <1>1, <1>6, <2>1, <2>2
<1>14. x \in PoolType
  BY <1>11, <1>12, <1>13 DEF PoolType
<1>15. \A b \in Blocks :
         /\ R[b] = IF b \in S THEN p.ref[b] + 1 ELSE p.ref[b]
         /\ H[b] = IF b \in S THEN NoHash ELSE p.hash[b]
  BY <1>2, <1>3
<1>16. \A h \in A : h \in p.stored /\ \A b \in S : p.hash[b] # h
  BY <1>5
<1> QED
  BY <1>6, <1>11, <1>14, <1>15, <1>16

\* cache_full_blocks gives the blocks bs[lo], ..., bs[hi] the hashes of r.
LEMMA CacheFullBlocksIs ==
  ASSUME NEW p \in PoolType, NEW r \in Requests, NEW bs, NEW lo, NEW hi,
         \A i \in lo .. hi : bs[i] \in Blocks /\ Hash(r, i) \in Hashes,
         NEW x, x = CacheFullBlocks(p, r, bs, lo, hi)
  PROVE  /\ x \in PoolType /\ x.free = p.free /\ x.ref = p.ref
         /\ \A b \in Blocks :
              /\ (\E i \in lo .. hi : bs[i] = b) =>
                   \E i \in lo .. hi : bs[i] = b /\ x.hash[b] = Hash(r, i)
              /\ ~(\E i \in lo .. hi : bs[i] = b) => x.hash[b] = p.hash[b]
         /\ \A h \in x.stored : h \in p.stored \/ \E i \in lo .. hi : h = Hash(r, i)
<1> DEFINE at(b) == CHOOSE i \in lo .. hi : bs[i] = b
           S == {bs[i] : i \in lo .. hi}
<1>1. PICK H : H = [b \in Blocks |-> IF b \in S THEN Hash(r, at(b)) ELSE p.hash[b]]
  OBVIOUS
<1>2. PICK M : M = [h \in Hashes |->
                      p.map[h] \union {b \in S : Hash(r, at(b)) = h}]
  OBVIOUS
<1>3. PICK A : A = p.stored \union {Hash(r, i) : i \in lo .. hi}
  OBVIOUS
<1>4. x = [p EXCEPT !.hash = H, !.map = M, !.stored = A]
  BY <1>1, <1>2, <1>3 DEF CacheFullBlocks
<1>5. /\ p.hash \in [Blocks -> Hashes \union {NoHash}]
      /\ p.map \in [Hashes -> SUBSET Blocks] /\ p.stored \in SUBSET Hashes
  BY DEF PoolType
<1>6. ASSUME NEW b \in S PROVE at(b) \in lo .. hi /\ bs[at(b)] = b
  BY <1>6
<1> HIDE DEF at
<1>7. \A b \in S : Hash(r, at(b)) \in Hashes /\ b \in Blocks
  BY <1>6
<1>8. H \in [Blocks -> Hashes \union {NoHash}]
  BY <1>1, <1>5, <1>7
<1>9. M \in [Hashes -> SUBSET Blocks]
  BY <1>2, <1>5, <1>7
<1>10. A \in SUBSET Hashes
  BY <1>3, <1>5
<1>11. ASSUME NEW b \in Blocks
       PROVE  /\ (\E i \in lo .. hi : bs[i] = b) =>
                   \E i \in lo .. hi : bs[i] = b /\ H[b] = Hash(r, i)
              /\ ~(\E i \in lo .. hi : bs[i] = b) => H[b] = p.hash[b]
  BY <1>1, <1>6
<1>12. \A h \in A : h \in p.stored \/ \E i \in lo .. hi : h = Hash(r, i)
  BY <1>3
<1>13. x = [free |-> p.free, ref |-> p.ref, hash |-> H, map |-> M, stored |-> A]
  BY <1>4 DEF PoolType
<1>14. x \in PoolType
  BY <1>8, <1>9, <1>10, <1>13 DEF PoolType
<1> HIDE DEF S
<1> QED
  BY <1>11, <1>12, <1>13, <1>14

\* allocate_slots raises, or does what Done says.
LEMMA AllocateIs ==
  ASSUME TypeOK, NEW r \in Requests, NEW hits \in Seq(Blocks), NEW n \in Nat,
         NEW q, NEW k, NEW new, NEW bs, NEW lo, NEW hi,
         Plan(r, hits, n, q, k, new, bs, lo, hi),
         k \in Nat, lo \in Nat, hi \in Nat, Len(hits) <= hi,
         \A i \in 1..hi : Full(r, i),
         k <= Len(q) => \A i \in lo + 1 .. hi : bs[i] \in Blocks,
         Allocate(r, hits, n)
  PROVE  \/ Raises(hits, n, q, k, new, bs, lo, hi)
         \/ Done(r, hits, n, q, k, new, bs, lo, hi)
<1>1. pool \in PoolType
  BY DEF TypeOK
<1>2. PICK a : a = Announce(pool, r, hits)
  OBVIOUS
<1>3. \A i \in 1..Len(hits) : Full(r, i)
  <2>1. Len(hits) \in Nat
    OBVIOUS
  <2>2. \A i \in 1..Len(hits) : i \in 1..hi
    BY <2>1
  <2> QED
    BY <2>2
<1>4. /\ a \in PoolType /\ a.free = pool.free /\ a.ref = pool.ref /\ a.hash = pool.hash
      /\ \A h \in a.stored : h \in pool.stored \/ \E i \in 1..Len(hits) : h = Hash(r, i)
  BY <1>1, <1>2, <1>3, AnnounceIs
<1>5. PICK p1 : p1 = Touch(a, Range(hits))
  OBVIOUS
<1>6. /\ p1 \in PoolType /\ p1.free = q /\ p1.hash = pool.hash /\ p1.stored = a.stored
      /\ \A b \in Blocks : p1.ref[b] = IF b \in Range(hits) THEN pool.ref[b] + 1
                                                            ELSE pool.ref[b]
  <2>1. PICK X : X = Range(hits)
    OBVIOUS
  <2>2. p1 = Touch(a, X)
    BY <1>5, <2>1
  <2>3. a \in PoolType
    BY <1>4
  <2>4. PICK Z : Z = Range(a.free) \ {b \in X : a.ref[b] = 0} /\ Touch(a, X).free = Taken(a.free, Z)
    BY <2>3, TouchFree
  <2>5. q = Taken(a.free, Z)
    BY <1>4, <2>1, <2>4 DEF Plan
  <2>6. /\ p1 \in PoolType /\ p1.free = q /\ p1.hash = a.hash /\ p1.stored = a.stored
        /\ \A b \in Blocks : p1.ref[b] = IF b \in X THEN a.ref[b] + 1 ELSE a.ref[b]
    BY <2>2, <2>3, <2>4, <2>5, TouchIs
  <2> QED
    BY <1>4, <2>1, <2>6
<1>7. CASE k > Len(q)
  BY <1>7 DEF Raises
<1>8. CASE k <= Len(q)
  <2>1. PICK m \in Nat : m = Len(q)
    BY <1>6 DEF PoolType
  <2>2. q \in Seq(Blocks) /\ new = SubSeq(q, 1, k)
    BY <1>6 DEF PoolType, Plan
  <2>3. /\ new \in Seq(Blocks) /\ DOMAIN new = 1..k /\ Len(new) = k
        /\ \A i \in 1..k : new[i] \in Blocks
    BY <1>8, <2>1, <2>2
  <2>4. PICK p2 : p2 = GetNewBlocks(p1, k)
    OBVIOUS
  <2>5. PICK S : S = Range(new)
    OBVIOUS
  <2>6. /\ p2 \in PoolType /\ p2.free = SubSeq(q, k + 1, Len(q))
        /\ \A b \in Blocks :
             /\ p2.ref[b] = IF b \in S THEN p1.ref[b] + 1 ELSE p1.ref[b]
             /\ p2.hash[b] = IF b \in S THEN NoHash ELSE pool.hash[b]
        /\ \A h \in p2.stored : h \in a.stored /\ \A b \in S : pool.hash[b] # h
    <3>1. S = Range(SubSeq(p1.free, 1, k)) /\ k <= Len(p1.free)
      BY <1>6, <1>8, <2>2, <2>5
    <3>2. /\ p2 \in PoolType
          /\ p2.free = SubSeq(p1.free, k + 1, Len(p1.free))
          /\ \A b \in Blocks :
               /\ p2.ref[b] = IF b \in S THEN p1.ref[b] + 1 ELSE p1.ref[b]
               /\ p2.hash[b] = IF b \in S THEN NoHash ELSE p1.hash[b]
          /\ \A h \in p2.stored : h \in p1.stored /\ \A b \in S : p1.hash[b] # h
      BY <1>6, <2>4, <3>1, GetNewBlocksIs, SMTT(30)
    <3> QED
      BY <1>6, <3>2
  <2>7. \/ n = 0 \/ k > Len(q)
        \/ \E i \in 1..k : p1.ref[new[i]] # 0
        \/ \E i \in lo + 1 .. hi : p2.hash[bs[i]] # NoHash
        \/ /\ pool' = CacheFullBlocks(p2, r, bs, lo + 1, hi)
           /\ table' = [table EXCEPT ![r] = bs]
           /\ cached' = [cached EXCEPT ![r] = hi]
           /\ computed' = [computed EXCEPT ![r] = TotalComputed(r, hits)]
           /\ sched' = [sched EXCEPT ![r] = n]
           /\ fault' = fault
    <3>1. p1 = AddComputed(Announce(pool, r, hits), hits)
      BY <1>2, <1>5 DEF AddComputed
    <3>2. new = Queue!PoppedN(p1.free, k)
      BY <1>6, <2>2 DEF Queue!PoppedN
    <3>3. /\ k = NewBlocks(r, hits, TotalComputed(r, hits) + n)
          /\ bs = table[r] \o hits \o new /\ lo = cached[r] + Len(hits)
          /\ hi = MaxOf(lo, FullBlocks(r, TotalComputed(r, hits) + n))
      BY DEF Plan
    <3>4. \/ n = 0 \/ k > Len(p1.free)
          \/ \E i \in DOMAIN new : p1.ref[new[i]] # 0
          \/ \E i \in lo + 1 .. hi : p2.hash[bs[i]] # NoHash
          \/ /\ pool' = CacheFullBlocks(p2, r, bs, lo + 1, hi)
             /\ table' = [table EXCEPT ![r] = bs]
             /\ cached' = [cached EXCEPT ![r] = hi]
             /\ computed' = [computed EXCEPT ![r] = TotalComputed(r, hits)]
             /\ sched' = [sched EXCEPT ![r] = n]
             /\ fault' = fault
      BY <2>4, <3>1, <3>2, <3>3, Zenon DEF Allocate
    <3> QED
      BY <1>6, <2>3, <3>4
  <2>8. CASE \E i \in 1..k : p1.ref[new[i]] # 0
    <3>1. PICK i \in 1..k : p1.ref[new[i]] # 0
      BY <2>8
    <3>2. new[i] \in Range(hits) \/ pool.ref[new[i]] # 0
      BY <1>6, <2>3, <3>1
    <3> QED
      BY <3>2 DEF Raises
  <2>9. CASE \E i \in lo + 1 .. hi : p2.hash[bs[i]] # NoHash
    <3>1. PICK i \in lo + 1 .. hi : p2.hash[bs[i]] # NoHash
      BY <2>9
    <3>2. bs[i] \in Blocks
      BY <1>8
    <3>3. bs[i] \notin Range(new) /\ pool.hash[bs[i]] # NoHash
      BY <2>5, <2>6, <3>1, <3>2
    <3> QED
      BY <3>3 DEF Raises
  <2>10. CASE /\ pool' = CacheFullBlocks(p2, r, bs, lo + 1, hi)
              /\ table' = [table EXCEPT ![r] = bs]
              /\ cached' = [cached EXCEPT ![r] = hi]
              /\ computed' = [computed EXCEPT ![r] = TotalComputed(r, hits)]
              /\ sched' = [sched EXCEPT ![r] = n]
              /\ fault' = fault
    <3>1. CASE \E i \in 1..k : p1.ref[new[i]] # 0
      BY <2>8, <3>1
    <3>2. CASE \A i \in 1..k : p1.ref[new[i]] = 0
      <4>1. ASSUME NEW i \in lo + 1 .. hi PROVE bs[i] \in Blocks /\ Hash(r, i) \in Hashes
        <5>1. i \in 1..hi /\ i >= 1
          OBVIOUS
        <5> QED
          BY <1>8, <5>1, HashLen
      <4>2. PICK x : x = pool'
        OBVIOUS
      <4>3. /\ x \in PoolType /\ x.free = p2.free /\ x.ref = p2.ref
            /\ \A b \in Blocks :
                 /\ (\E i \in lo + 1 .. hi : bs[i] = b) =>
                      \E i \in lo + 1 .. hi : bs[i] = b /\ x.hash[b] = Hash(r, i)
                 /\ ~(\E i \in lo + 1 .. hi : bs[i] = b) => x.hash[b] = p2.hash[b]
            /\ \A h \in x.stored : h \in p2.stored \/ \E i \in lo + 1 .. hi : h = Hash(r, i)
        <5>1. PICK l : l = lo + 1
          OBVIOUS
        <5>2. x = CacheFullBlocks(p2, r, bs, l, hi)
          BY <2>10, <4>2, <5>1
        <5>3. \A i \in l .. hi : bs[i] \in Blocks /\ Hash(r, i) \in Hashes
          BY <4>1, <5>1
        <5>4. /\ x \in PoolType /\ x.free = p2.free /\ x.ref = p2.ref
              /\ \A b \in Blocks :
                   /\ (\E i \in l .. hi : bs[i] = b) =>
                        \E i \in l .. hi : bs[i] = b /\ x.hash[b] = Hash(r, i)
                   /\ ~(\E i \in l .. hi : bs[i] = b) => x.hash[b] = p2.hash[b]
              /\ \A h \in x.stored : h \in p2.stored \/ \E i \in l .. hi : h = Hash(r, i)
          BY <2>6, <5>2, <5>3, CacheFullBlocksIs, SMTT(30)
        <5> QED
          BY <5>1, <5>4, Zenon
      <4>4. ASSUME NEW b \in Blocks
            PROVE  x.ref[b] = IF b \in Range(hits) \/ b \in Range(new)
                                THEN pool.ref[b] + 1 ELSE pool.ref[b]
        <5>1. pool.ref[b] \in Nat
          BY <1>1 DEF PoolType
        <5>2. b \in S => p1.ref[b] = 0
          <6> SUFFICES ASSUME b \in S PROVE p1.ref[b] = 0
            OBVIOUS
          <6>1. PICK i \in 1..k : b = new[i]
            BY <2>3, <2>5 DEF Range
          <6> QED
            BY <3>2, <6>1
        <5>3. b \in S => b \notin Range(hits)
          BY <1>6, <5>1, <5>2
        <5> QED
          BY <1>6, <2>5, <2>6, <4>3, <5>3
      <4>5. \A b \in Blocks :
              /\ (\E i \in lo + 1 .. hi : bs[i] = b) =>
                   \E i \in lo + 1 .. hi : bs[i] = b /\ x.hash[b] = Hash(r, i)
              /\ ~(\E i \in lo + 1 .. hi : bs[i] = b) =>
                   x.hash[b] = IF b \in Range(new) THEN NoHash ELSE pool.hash[b]
        BY <2>5, <2>6, <4>3
      <4>6. \A h \in x.stored :
              \/ \E i \in lo + 1 .. hi : h = Hash(r, i)
              \/ /\ h \in pool.stored \/ \E i \in 1..Len(hits) : h = Hash(r, i)
                 /\ \A b \in Range(new) : pool.hash[b] # h
        BY <1>4, <2>5, <2>6, <4>3
      <4>7. x.free = SubSeq(q, k + 1, Len(q))
        BY <2>6, <4>3
      <4> QED
        BY <2>10, <4>2, <4>3, <4>4, <4>5, <4>6, <4>7 DEF Done
    <3> QED
      BY <3>1, <3>2
  <2>11. CASE n = 0
    BY <2>11 DEF Raises
  <2> QED
    BY <1>8, <2>1, <2>7, <2>8, <2>9, <2>10, <2>11
<1> QED
  <2>1. Len(q) \in Nat
    BY <1>6 DEF PoolType
  <2> QED
    BY <1>7, <1>8, <2>1

-----------------------------------------------------------------------------
(***************************************************************************)
(* allocate_slots finds what it was promised.                              *)
(***************************************************************************)
\* The types one by one.
LEMMA Types ==
  ASSUME TypeOK
  PROVE  /\ pool \in PoolType /\ pool.free \in Seq(Blocks)
         /\ pool.ref \in [Blocks -> Nat]
         /\ pool.hash \in [Blocks -> Hashes \union {NoHash}]
         /\ table \in [Requests -> Seq(Blocks)]
         /\ cached \in [Requests -> Nat] /\ computed \in [Requests -> Nat]
         /\ sched \in [Requests -> Nat] /\ ntok \in [Requests -> Nat]
         /\ \A r \in Requests : /\ ntok[r] \in Nat /\ ntok[r] >= 1 /\ ntok[r] <= Len(Text[r])
                                /\ Len(Text[r]) \in Nat
<1>1. ASSUME NEW r \in Requests
      PROVE  /\ ntok[r] \in Nat /\ ntok[r] >= 1 /\ ntok[r] <= Len(Text[r])
             /\ Len(Text[r]) \in Nat
  <2>1. Len(Text[r]) \in Nat /\ PromptLen[r] \in 1..Len(Text[r])
    BY PoolAssumption
  <2>2. ntok[r] \in PromptLen[r]..Len(Text[r])
    BY DEF TypeOK
  <2> QED
    BY <2>1, <2>2
<1> QED
  BY <1>1 DEF TypeOK, PoolType

\* A block is referred to when a table holds it.
LEMMA HeldRef ==
  ASSUME TypeOK, RefInv, NEW b \in Blocks
  PROVE  pool.ref[b] > 0 <=> \E s \in Requests : b \in Range(table[s])
<1>1. IsFiniteSet(Requests)
  BY PoolAssumption
<1>2. Holders(b) \in SUBSET Requests
  BY DEF Holders
<1> DEFINE D == Holders(b)
<1>3. IsFiniteSet(D)
  BY <1>1, <1>2, FS_Subset
<1> HIDE DEF D
<1>4. Cardinality(D) \in Nat /\ (Cardinality(D) = 0 <=> D = {})
  BY <1>3, FS_CardinalityType, FS_EmptySet
<1>5. pool.ref[b] = Cardinality(D)
  BY DEF RefInv, D
<1>6. D # {} <=> \E s \in Requests : b \in Range(table[s])
  BY DEF D, Holders
<1> QED
  BY <1>4, <1>5, <1>6

\* What a caller of allocate_slots knows: r is not in the step yet, hits are
\* those of a request that has nothing, and it fits.
Ask(r, hits, n) ==
  /\ n >= 1 /\ sched[r] = 0
  /\ \/ hits = <<>>
     \/ table[r] = <<>> /\ cached[r] = 0 /\ computed[r] = 0
  /\ \A i \in 1..Len(hits) : Full(r, i) /\ pool.hash[hits[i]] = Hash(r, i)
  /\ TotalComputed(r, hits) + n <= ntok[r]
  /\ Fits(r, hits, n)

\* The free queue without the hits is long enough.
QueueOK(hits, q, k, new) ==
  /\ q \in Seq(Blocks) /\ Distinct(q)
  /\ \A b \in Blocks : b \in Range(q) <=> pool.ref[b] = 0 /\ b \notin Range(hits)
  /\ \A b, c \in Range(q) : Before(b, c) =>
       \E i, j \in 1..Len(q) : i < j /\ q[i] = b /\ q[j] = c
  /\ k \in Nat /\ k <= Len(q)
  /\ new \in Seq(Blocks) /\ Len(new) = k /\ \A i \in 1..k : new[i] = q[i]
  /\ \A b \in Range(new) : b \in Blocks /\ pool.ref[b] = 0 /\ b \notin Range(hits)

\* get_num_blocks_to_allocate counted the hits that are free now.
LEMMA PlanQueue ==
  ASSUME TypeOK, RefInv, NEW r \in Requests, NEW hits \in Seq(Blocks), NEW n \in Nat,
         NEW q, NEW k, NEW new, NEW bs, NEW lo, NEW hi,
         Plan(r, hits, n, q, k, new, bs, lo, hi), Ask(r, hits, n)
  PROVE  QueueOK(hits, q, k, new)
<1> DEFINE X == {b \in Range(hits) : pool.ref[b] = 0}
           Z == Range(pool.free) \ X
<1>1. PICK f \in Seq(Blocks) : f = pool.free
  BY Types
<1>2. Distinct(f)
  BY <1>1 DEF RefInv
<1>3. q = Taken(f, Z)
  BY <1>1 DEF Plan
<1>4. \A b \in Range(hits) : b \in Blocks
  BY DEF Range
<1>5. \A b \in Blocks : b \in Range(f) <=> pool.ref[b] = 0
  BY <1>1 DEF RefInv
<1>6. \A b \in Range(f) : b \in Blocks
  BY <1>1 DEF Range
<1>7. \A b \in Blocks : b \in Z <=> pool.ref[b] = 0 /\ b \notin Range(hits)
  BY <1>1, <1>5
<1>8. X \subseteq Range(f)
  BY <1>4, <1>5
<1>9. Range(f) \cap Z = Range(f) \ X
  BY <1>1
<1> HIDE DEF Z
<1>10. q \in Seq(Blocks)
  BY <1>1, <1>3, KeepFacts
<1>11. Range(q) = Range(f) \cap Z
  BY <1>1, <1>3, KeepRange
<1>12. Distinct(q)
  BY <1>1, <1>2, <1>3, KeepOrder
<1>13. \A b \in Blocks : b \in Range(q) <=> pool.ref[b] = 0 /\ b \notin Range(hits)
  BY <1>5, <1>7, <1>11
<1>14. ASSUME NEW b \in Range(q), NEW c \in Range(q), Before(b, c)
       PROVE  \E i, j \in 1..Len(q) : i < j /\ q[i] = b /\ q[j] = c
  <2>1. PICK i \in 1..Len(f), j \in 1..Len(f) : i < j /\ f[i] = b /\ f[j] = c
    BY <1>1, <1>14 DEF Before
  <2>2. f[i] \in Z /\ f[j] \in Z
    BY <1>11, <2>1
  <2>3. \E a, d \in 1..Len(Taken(f, Z)) :
          a < d /\ Taken(f, Z)[a] = f[i] /\ Taken(f, Z)[d] = f[j]
    BY <1>1, <1>2, <2>1, <2>2, KeepOrder
  <2> QED
    BY <1>3, <2>1, <2>3
<1> HIDE DEF X
<1>15. IsFiniteSet(Range(f)) /\ Cardinality(Range(f)) = Len(f)
  BY <1>1, <1>2, DistinctCardinality
<1>16. Cardinality(Range(q)) = Len(q) /\ IsFiniteSet(Range(q))
  BY <1>10, <1>12, DistinctCardinality
<1>17. IsFiniteSet(X) /\ Cardinality(X) \in Nat
  BY <1>8, <1>15, FS_Subset, FS_CardinalityType
<1>18. Len(f) <= Len(q) + Cardinality(X)
  <2>1. Range(q) \cup X = Range(f) /\ Range(q) \cap X = {}
    BY <1>8, <1>9, <1>11
  <2>2. Cardinality(Range(q) \cup X) =
          Cardinality(Range(q)) + Cardinality(X) - Cardinality(Range(q) \cap X)
    BY <1>16, <1>17, FS_Union
  <2>3. Cardinality(Range(q) \cap X) = 0
    BY <2>1, FS_EmptySet
  <2>4. PICK a \in Nat : a = Len(q)
    BY <1>10
  <2>5. PICK c \in Nat : c = Cardinality(X)
    BY <1>17
  <2>6. Cardinality(Range(f)) = a + c - 0
    BY <1>16, <2>1, <2>2, <2>3, <2>4, <2>5
  <2>7. Len(f) = a + c
    BY <1>15, <2>6
  <2> QED
    BY <2>4, <2>5, <2>7
<1>19. k + Cardinality(X) <= Len(f) /\ k \in Nat
  <2>1. PICK t : t = TotalComputed(r, hits) + n
    OBVIOUS
  <2>2. BlocksToAllocate(r, hits, t) <= Len(f)
    BY <1>1, <2>1 DEF Ask, Fits
  <2>3. TotalComputed(r, hits) \in Nat
    <3>1. computed[r] \in Nat /\ Len(hits) \in Nat
      BY Types
    <3>2. Len(hits) * BlockSize \in Nat
      BY <3>1, Times
    <3> QED
      BY <3>1, <3>2 DEF TotalComputed
  <2>4. Cdiv(t, BlockSize) \in Nat
    BY <2>1, <2>3, Divides
  <2>5. PICK c \in Nat : c = Cdiv(t, BlockSize)
    BY <2>4
  <2>6. Len(hits) \in Nat /\ Len(table[r]) \in Nat
    BY Types
  <2>7. k = MaxOf(c - Len(table[r]) - Len(hits), 0)
    BY <2>1, <2>5 DEF Plan, NewBlocks
  <2>8. BlocksToAllocate(r, hits, t) = MaxOf(c - (Len(hits) + Len(table[r])), 0) + Cardinality(X)
    BY <2>5 DEF BlocksToAllocate, X
  <2>9. k \in Nat /\ k = MaxOf(c - (Len(hits) + Len(table[r])), 0)
    <3>1. PICK a \in Nat, b \in Nat : a = Len(hits) /\ b = Len(table[r])
      BY <2>6
    <3>2. k = MaxOf(c - b - a, 0)
      BY <2>7, <3>1
    <3>3. k \in Nat /\ k = MaxOf(c - (a + b), 0)
      BY <3>2 DEF MaxOf
    <3> QED
      BY <3>1, <3>3
  <2> QED
    BY <2>2, <2>8, <2>9
<1>20. k <= Len(q)
  <2>1. Len(q) \in Nat /\ Len(f) \in Nat
    BY <1>1, <1>10
  <2> QED
    BY <1>17, <1>18, <1>19, <2>1
<1>21. new \in Seq(Blocks) /\ Len(new) = k /\ DOMAIN new = 1..k
       /\ \A i \in 1..k : new[i] = q[i]
  <2>1. PICK m \in Nat : m = Len(q)
    BY <1>10
  <2>2. new = SubSeq(q, 1, k) /\ k <= m /\ k \in Nat
    BY <1>19, <1>20, <2>1 DEF Plan
  <2> QED
    BY <1>10, <2>1, <2>2
<1>22. ASSUME NEW b \in Range(new)
       PROVE  b \in Blocks /\ pool.ref[b] = 0 /\ b \notin Range(hits)
  <2>1. PICK i \in 1..k : b = new[i]
    BY <1>21 DEF Range
  <2>2. b = q[i] /\ i \in DOMAIN q
    BY <1>10, <1>19, <1>20, <1>21, <2>1
  <2>3. b \in Blocks /\ b \in Range(q)
    BY <1>10, <2>2 DEF Range
  <2> QED
    BY <1>13, <2>3
<1> QED
  BY <1>10, <1>12, <1>13, <1>14, <1>19, <1>20, <1>21, <1>22 DEF QueueOK

\* The table with the hits, before the new blocks join it: of its m blocks the
\* first lo, which are the full ones, carry the hashes of r.
BaseOK(r, hits, base, m, lo, t) ==
  /\ base \in Seq(Blocks) /\ m \in Nat /\ Len(base) = m /\ Distinct(base)
  /\ m = Len(table[r]) + Len(hits)
  /\ lo \in Nat /\ t \in Nat /\ lo <= m
  /\ lo * BlockSize <= t /\ t < lo * BlockSize + BlockSize /\ t <= m * BlockSize
  /\ \A i \in 1..m : pool.hash[base[i]] = IF i <= lo THEN Hash(r, i) ELSE NoHash
  /\ \A i \in 1..m : \/ i \in 1..Len(table[r]) /\ base[i] = table[r][i]
                     \/ i \in 1..Len(hits) /\ base[i] = hits[i] /\ i <= lo
  /\ \A i \in 1..Len(table[r]) : i <= m /\ base[i] = table[r][i]
  /\ \A i \in 1..Len(hits) : i <= m /\ base[i] = hits[i]

\* It is the table of a request that runs, or the hits of one that does not.
LEMMA PlanBase ==
  ASSUME TypeOK, TableInv, NEW r \in Requests, NEW hits \in Seq(Blocks), NEW n \in Nat,
         Ask(r, hits, n), NEW base, base = table[r] \o hits
  PROVE  BaseOK(r, hits, base, Len(base), cached[r] + Len(hits), TotalComputed(r, hits))
<1>1. table[r] \in Seq(Blocks) /\ computed[r] \in Nat /\ cached[r] \in Nat /\ sched[r] = 0
  BY Types DEF Ask
<1>2. BlockSize \in Nat /\ BlockSize > 0
  BY PoolAssumption
<1>3. CASE hits = <<>>
  <2>1. base = table[r] /\ Len(hits) = 0
    BY <1>1, <1>3
  <2>2. PICK m \in Nat : m = Len(table[r])
    BY <1>1
  <2>3. PICK c \in Nat, t \in Nat : c = cached[r] /\ t = computed[r]
    BY <1>1
  <2>4. /\ Distinct(table[r]) /\ t <= m * BlockSize
        /\ c * BlockSize <= t /\ t < c * BlockSize + BlockSize
        /\ \A i \in 1..m : pool.hash[table[r][i]] = IF i <= c THEN Hash(r, i) ELSE NoHash
    <3>1. computed[r] + sched[r] = t
      BY <1>1, <2>3
    <3> QED
      BY <2>2, <2>3, <3>1 DEF TableInv
  <2>5. c <= m
    <3>1. c * BlockSize \in Nat /\ m * BlockSize \in Nat
      BY Times
    <3>2. ~(m * BlockSize < c * BlockSize)
      BY <2>4, <3>1
    <3>3. ~(m < c)
      BY <3>2, Times
    <3> QED
      BY <3>3
  <2>6. cached[r] + Len(hits) = c
    BY <2>1, <2>3
  <2>7. TotalComputed(r, hits) = t
    <3>1. 0 * BlockSize = 0
      BY <1>2
    <3> QED
      BY <2>1, <2>3, <3>1 DEF TotalComputed
  <2>8. m = Len(table[r]) + Len(hits)
    BY <2>1, <2>2
  <2>9. \A i \in 1..Len(table[r]) : i <= m
    BY <2>2
  <2> QED
    BY <1>1, <2>1, <2>2, <2>4, <2>5, <2>6, <2>7, <2>8, <2>9 DEF BaseOK
<1>4. CASE table[r] = <<>> /\ cached[r] = 0 /\ computed[r] = 0
  <2>1. base = hits /\ Len(table[r]) = 0
    BY <1>4
  <2>2. PICK m \in Nat : m = Len(hits)
    OBVIOUS
  <2>3. cached[r] + Len(hits) = m /\ m = Len(table[r]) + Len(hits)
    BY <1>4, <2>1, <2>2
  <2>4. PICK t \in Nat : t = m * BlockSize
    BY Times
  <2>5. TotalComputed(r, hits) = t
    BY <1>4, <2>2, <2>4 DEF TotalComputed
  <2>6. m * BlockSize <= t /\ t < m * BlockSize + BlockSize
    BY <1>2, <2>4
  <2>7. \A i \in 1..m : i <= m /\ Full(r, i) /\ pool.hash[hits[i]] = Hash(r, i)
    BY <2>2 DEF Ask
  <2>8. Distinct(hits)
    <3> SUFFICES ASSUME NEW i \in 1..m, NEW j \in 1..m, hits[i] = hits[j] PROVE i = j
      BY <2>2 DEF Distinct
    <3>1. Hash(r, i) = Hash(r, j)
      BY <2>7
    <3> QED
      BY <2>7, <3>1, HashPlace
  <2>9. \A i \in 1..m : i <= m
    OBVIOUS
  <2> QED
    BY <2>1, <2>2, <2>3, <2>4, <2>5, <2>6, <2>7, <2>8, <2>9 DEF BaseOK
<1> QED
  BY <1>3, <1>4 DEF Ask

\* The table bs that comes out: which of its blocks are the ones of before, the
\* hits and the new ones, and which of them are cached.
TableOK(r, hits, n, new, bs, lo, hi, m, t) ==
  /\ m \in Nat /\ t \in Nat /\ t = TotalComputed(r, hits)
  /\ m = Len(table[r]) + Len(hits)
  /\ lo \in Nat /\ hi \in Nat /\ lo <= hi /\ lo <= m
  /\ lo * BlockSize <= t /\ t < lo * BlockSize + BlockSize /\ t <= m * BlockSize
  /\ hi * BlockSize <= t + n /\ t + n < hi * BlockSize + BlockSize
  /\ t + n <= Len(bs) * BlockSize /\ hi <= Len(bs)
  /\ bs \in Seq(Blocks) /\ Len(bs) = m + Len(new) /\ Distinct(bs)
  /\ \A i \in 1..m :
       /\ i \in 1..Len(bs)
       /\ pool.hash[bs[i]] = IF i <= lo THEN Hash(r, i) ELSE NoHash
       /\ \/ i \in 1..Len(table[r]) /\ bs[i] = table[r][i]
          \/ i \in 1..Len(hits) /\ bs[i] = hits[i] /\ i <= lo
  /\ \A i \in 1..Len(bs) : i \in 1..m \/ (i > m /\ bs[i] \in Range(new))
  /\ \A i \in 1..Len(table[r]) : i \in 1..m /\ bs[i] = table[r][i]
  /\ \A i \in 1..Len(hits) : i \in 1..m /\ bs[i] = hits[i]
  /\ \A b \in Range(new) : \E i \in 1..Len(bs) : i > m /\ bs[i] = b
  /\ \A i \in 1..hi : Full(r, i)

\* The blocks a caller is given fit the tokens it asks for.
LEMMA PlanTable ==
  ASSUME TypeOK, RefInv, TableInv, NEW r \in Requests, NEW hits \in Seq(Blocks),
         NEW n \in Nat, NEW q, NEW k, NEW new, NEW bs, NEW lo, NEW hi,
         Plan(r, hits, n, q, k, new, bs, lo, hi), Ask(r, hits, n)
  PROVE  \E m, t : TableOK(r, hits, n, new, bs, lo, hi, m, t)
<1>1. PICK base : base = table[r] \o hits
  OBVIOUS
<1>2. PICK m : m = Len(base)
  OBVIOUS
<1>3. PICK t : t = TotalComputed(r, hits)
  OBVIOUS
<1>4. BaseOK(r, hits, base, m, lo, t)
  BY <1>1, <1>2, <1>3, PlanBase DEF Plan
<1>5. /\ base \in Seq(Blocks) /\ m \in Nat /\ Len(base) = m /\ Distinct(base)
      /\ m = Len(table[r]) + Len(hits) /\ lo \in Nat /\ t \in Nat /\ lo <= m
      /\ lo * BlockSize <= t /\ t < lo * BlockSize + BlockSize /\ t <= m * BlockSize
      /\ \A i \in 1..m : pool.hash[base[i]] = IF i <= lo THEN Hash(r, i) ELSE NoHash
      /\ \A i \in 1..m : \/ i \in 1..Len(table[r]) /\ base[i] = table[r][i]
                         \/ i \in 1..Len(hits) /\ base[i] = hits[i] /\ i <= lo
      /\ \A i \in 1..Len(table[r]) : i <= m /\ base[i] = table[r][i]
      /\ \A i \in 1..Len(hits) : i <= m /\ base[i] = hits[i]
  BY <1>4 DEF BaseOK
<1>6. QueueOK(hits, q, k, new)
  BY PlanQueue
<1>7. /\ k \in Nat /\ new \in Seq(Blocks) /\ Len(new) = k
      /\ q \in Seq(Blocks) /\ Distinct(q) /\ k <= Len(q) /\ \A i \in 1..k : new[i] = q[i]
      /\ \A b \in Range(new) : b \in Blocks /\ pool.ref[b] = 0 /\ b \notin Range(hits)
  BY <1>6 DEF QueueOK
<1>8. bs = base \o new
  BY <1>1 DEF Plan
<1>9. /\ bs \in Seq(Blocks) /\ Len(bs) = m + k
      /\ \A i \in 1..m : i \in 1..(m + k) /\ bs[i] = base[i]
      /\ \A i \in 1..(m + k) : i > m => i - m \in 1..k /\ bs[i] = new[i - m]
  <2>1. /\ bs \in Seq(Blocks) /\ Len(bs) = Len(base) + Len(new)
        /\ \A i \in 1..(Len(base) + Len(new)) :
             bs[i] = IF i <= Len(base) THEN base[i] ELSE new[i - Len(base)]
    <3>1. base \in Seq(Blocks) /\ new \in Seq(Blocks)
      BY <1>5, <1>7
    <3> QED
      BY <1>8, <3>1, ConcatProperties
  <2>2. \A i \in 1..(m + k) : bs[i] = IF i <= m THEN base[i] ELSE new[i - m]
    BY <1>5, <1>7, <2>1
  <2>3. \A i \in 1..m : i \in 1..(m + k) /\ i <= m
    BY <1>5, <1>7
  <2>4. \A i \in 1..(m + k) : i > m => i - m \in 1..k /\ ~(i <= m)
    BY <1>5, <1>7
  <2> QED
    BY <1>5, <1>7, <2>1, <2>2, <2>3, <2>4
<1>10. \A i \in 1..(m + k) : i \in 1..m \/ (i > m /\ bs[i] \in Range(new))
  <2>1. DOMAIN new = 1..k
    BY <1>7
  <2>2. \A i \in 1..(m + k) : i \in 1..m \/ i > m
    BY <1>5, <1>7
  <2> QED
    BY <1>9, <2>1, <2>2 DEF Range
<1>11. \A b \in Range(new) : \E i \in 1..(m + k) : i > m /\ bs[i] = b
  <2> SUFFICES ASSUME NEW b \in Range(new)
               PROVE  \E i \in 1..(m + k) : i > m /\ bs[i] = b
    OBVIOUS
  <2>1. PICK j \in 1..k : b = new[j]
    BY <1>7 DEF Range
  <2>2. m + j \in 1..(m + k) /\ m + j > m /\ (m + j) - m = j
    BY <1>5, <1>7
  <2> QED
    BY <1>9, <2>1, <2>2
<1>12. \A i \in 1..m : bs[i] \notin Range(new)
  <2> SUFFICES ASSUME NEW i \in 1..m PROVE base[i] \notin Range(new)
    BY <1>9
  <2>1. CASE i \in 1..Len(table[r]) /\ base[i] = table[r][i]
    <3>1. table[r] \in Seq(Blocks)
      BY Types
    <3>2. base[i] \in Range(table[r]) /\ base[i] \in Blocks
      BY <2>1, <3>1 DEF Range
    <3>3. pool.ref[base[i]] > 0
      BY <3>2, HeldRef
    <3> QED
      BY <1>7, <3>3
  <2>2. CASE i \in 1..Len(hits) /\ base[i] = hits[i]
    <3>1. base[i] \in Range(hits)
      BY <2>2 DEF Range
    <3> QED
      BY <1>7, <3>1
  <2> QED
    BY <1>5, <2>1, <2>2
<1>13. Distinct(bs)
  <2> SUFFICES ASSUME NEW i \in 1..(m + k), NEW j \in 1..(m + k), bs[i] = bs[j]
               PROVE  i = j
    BY <1>9 DEF Distinct
  <2>1. CASE i \in 1..m /\ j \in 1..m
    BY <1>5, <1>9, <2>1 DEF Distinct
  <2>2. CASE i > m /\ j > m
    <3>1. /\ i - m \in 1..k /\ bs[i] = q[i - m] /\ j - m \in 1..k /\ bs[j] = q[j - m]
      BY <1>7, <1>9, <2>2
    <3>2. PICK l \in Nat : l = Len(q)
      BY <1>7
    <3>3. i - m \in 1..l /\ j - m \in 1..l
      BY <1>7, <3>1, <3>2
    <3>4. i - m = j - m
      BY <1>7, <3>1, <3>2, <3>3 DEF Distinct
    <3> QED
      BY <1>5, <1>7, <3>4
  <2> QED
    BY <1>10, <1>12, <2>1, <2>2
<1>14. t + n \in Nat /\ t + n <= ntok[r]
  BY <1>3, <1>5 DEF Ask
<1>15. ntok[r] \in Nat /\ ntok[r] <= Len(Text[r]) /\ Len(Text[r]) \in Nat
  BY Types
<1>16. PICK d \in Nat : d = t + n
  BY <1>14
<1>17. hi = d \div BlockSize /\ hi \in Nat /\ lo <= hi
  <2>1. FullBlocks(r, d) = d \div BlockSize
    <3>1. MinOf(d, ntok[r]) = d
      BY <1>14, <1>15, <1>16 DEF MinOf
    <3> QED
      BY <3>1 DEF FullBlocks
  <2>2. d \div BlockSize \in Nat
    BY Divides
  <2>3. lo <= d \div BlockSize
    <3>1. lo * BlockSize \in Nat
      BY <1>5, Times
    <3>2. lo * BlockSize <= d
      BY <1>5, <1>16, <3>1
    <3> QED
      BY <1>5, <3>2, FloorIs
  <2>4. hi = MaxOf(lo, d \div BlockSize)
    BY <1>3, <1>16, <2>1 DEF Plan
  <2> QED
    BY <1>5, <2>2, <2>3, <2>4 DEF MaxOf
<1>18. hi * BlockSize <= d /\ d < hi * BlockSize + BlockSize
  BY <1>17, Divides
<1>19. d <= (m + k) * BlockSize
  <2>1. PICK c \in Nat : c = Cdiv(d, BlockSize)
    BY Divides
  <2>2. d <= c * BlockSize
    BY <2>1, Divides
  <2>3. c <= m + k
    <3>1. PICK x \in Nat, y \in Nat : x = Len(table[r]) /\ y = Len(hits)
      BY <1>5, Types
    <3>2. k = MaxOf(c - x - y, 0) /\ m = x + y
      BY <1>3, <1>5, <1>16, <2>1, <3>1 DEF Plan, NewBlocks
    <3> QED
      BY <3>2 DEF MaxOf
  <2>4. PICK e \in Nat : e = m + k
    BY <1>5, <1>7
  <2>5. c * BlockSize <= e * BlockSize /\ c * BlockSize \in Nat /\ e * BlockSize \in Nat
    BY <2>3, <2>4, Times
  <2>6. d <= e * BlockSize
    BY <2>2, <2>5
  <2> QED
    BY <2>4, <2>6
<1>20. hi <= m + k
  <2>1. PICK e \in Nat : e = m + k
    BY <1>5, <1>7
  <2>2. hi * BlockSize \in Nat /\ e * BlockSize \in Nat
    BY <1>17, Times
  <2>3. ~(e * BlockSize < hi * BlockSize)
    BY <1>18, <1>19, <2>1, <2>2
  <2>4. ~(e < hi)
    BY <1>17, <2>3, Times
  <2> QED
    BY <1>17, <2>1, <2>4
<1>21. ASSUME NEW i \in 1..hi PROVE Full(r, i)
  <2>1. i \in Nat /\ i <= hi
    BY <1>17
  <2>2. i * BlockSize <= hi * BlockSize /\ i * BlockSize \in Nat /\ hi * BlockSize \in Nat
    BY <1>17, <2>1, Times
  <2>3. i * BlockSize <= Len(Text[r])
    BY <1>14, <1>15, <1>16, <1>18, <2>2
  <2> QED
    BY <2>1, <2>3 DEF Full
<1>22. /\ \A i \in 1..Len(table[r]) : i \in 1..m /\ bs[i] = table[r][i]
       /\ \A i \in 1..Len(hits) : i \in 1..m /\ bs[i] = hits[i]
  <2>1. Len(table[r]) \in Nat /\ Len(hits) \in Nat
    BY Types
  <2>2. /\ \A i \in 1..Len(table[r]) : i \in 1..m
        /\ \A i \in 1..Len(hits) : i \in 1..m
    BY <1>5, <2>1
  <2> QED
    BY <1>5, <1>9, <2>2
<1>23. \A i \in 1..m :
         /\ i \in 1..Len(bs)
         /\ pool.hash[bs[i]] = IF i <= lo THEN Hash(r, i) ELSE NoHash
         /\ \/ i \in 1..Len(table[r]) /\ bs[i] = table[r][i]
            \/ i \in 1..Len(hits) /\ bs[i] = hits[i] /\ i <= lo
  BY <1>5, <1>9
<1>24. TableOK(r, hits, n, new, bs, lo, hi, m, t)
  BY <1>3, <1>5, <1>7, <1>9, <1>10, <1>11, <1>13, <1>16, <1>17, <1>18, <1>19, <1>20,
     <1>21, <1>22, <1>23 DEF TableOK
<1> QED
  BY <1>24

-----------------------------------------------------------------------------
(***************************************************************************)
(* allocate_slots succeeds and preserves the invariants.                   *)
(***************************************************************************)
\* A successful call, with all it has computed on the way.
Alloc(r, hits, n, q, k, new, bs, lo, hi, m, t) ==
  /\ Ask(r, hits, n) /\ QueueOK(hits, q, k, new)
  /\ TableOK(r, hits, n, new, bs, lo, hi, m, t)
  /\ Done(r, hits, n, q, k, new, bs, lo, hi)

\* No assertion of allocate_slots fails.
LEMMA AllocateDone ==
  ASSUME TypeOK, RefInv, TableInv, NEW r \in Requests, NEW hits \in Seq(Blocks),
         NEW n \in Nat, Ask(r, hits, n), Allocate(r, hits, n)
  PROVE  \E q, k, new, bs, lo, hi, m, t :
           Alloc(r, hits, n, q, k, new, bs, lo, hi, m, t)
<1>1. PICK q : q = Taken(pool.free,
                         Range(pool.free) \ {b \in Range(hits) : pool.ref[b] = 0})
  OBVIOUS
<1>2. PICK k : k = NewBlocks(r, hits, TotalComputed(r, hits) + n)
  OBVIOUS
<1>3. PICK new : new = SubSeq(q, 1, k)
  OBVIOUS
<1>4. PICK bs : bs = table[r] \o hits \o new
  OBVIOUS
<1>5. PICK lo : lo = cached[r] + Len(hits)
  OBVIOUS
<1>6. PICK hi : hi = MaxOf(lo, FullBlocks(r, TotalComputed(r, hits) + n))
  OBVIOUS
<1>7. Plan(r, hits, n, q, k, new, bs, lo, hi)
  BY <1>1, <1>2, <1>3, <1>4, <1>5, <1>6 DEF Plan
<1>8. QueueOK(hits, q, k, new)
  BY <1>7, PlanQueue
<1>9. PICK m, t : TableOK(r, hits, n, new, bs, lo, hi, m, t)
  BY <1>7, PlanTable
<1>10. /\ k \in Nat /\ k <= Len(q) /\ Len(new) = k
       /\ \A i \in 1..k : new[i] \in Range(new)
       /\ \A b \in Range(new) : pool.ref[b] = 0 /\ b \notin Range(hits)
  <2>1. /\ k \in Nat /\ k <= Len(q) /\ Len(new) = k /\ new \in Seq(Blocks)
        /\ \A b \in Range(new) : pool.ref[b] = 0 /\ b \notin Range(hits)
    BY <1>8 DEF QueueOK
  <2>2. DOMAIN new = 1..k
    BY <2>1
  <2> QED
    BY <2>1, <2>2 DEF Range
<1>11. /\ lo \in Nat /\ hi \in Nat /\ lo <= hi /\ m \in Nat /\ hi <= Len(bs)
       /\ bs \in Seq(Blocks)
       /\ \A i \in 1..m : pool.hash[bs[i]] = IF i <= lo THEN Hash(r, i) ELSE NoHash
       /\ \A i \in 1..Len(bs) : i \in 1..m \/ (i > m /\ bs[i] \in Range(new))
       /\ \A i \in 1..hi : Full(r, i)
  BY <1>9 DEF TableOK
<1>12. Len(hits) <= hi
  <2>1. cached[r] \in Nat /\ Len(hits) \in Nat
    BY Types
  <2> QED
    BY <1>5, <1>11, <2>1
<1>13. \A i \in lo + 1 .. hi : i \in 1..Len(bs) /\ ~(i <= lo)
  <2>1. Len(bs) \in Nat
    BY <1>11
  <2> QED
    BY <1>11, <2>1
<1>14. \A i \in lo + 1 .. hi : bs[i] \in Blocks
  BY <1>11, <1>13
<1>15. \/ Raises(hits, n, q, k, new, bs, lo, hi)
       \/ Done(r, hits, n, q, k, new, bs, lo, hi)
  BY <1>7, <1>10, <1>11, <1>12, <1>14, AllocateIs
<1>16. ~Raises(hits, n, q, k, new, bs, lo, hi)
  <2>1. n # 0
    BY DEF Ask
  <2>2. ~(k > Len(q))
    <3>1. Len(q) \in Nat
      BY <1>8 DEF QueueOK
    <3> QED
      BY <1>10, <3>1
  <2>3. ~\E i \in 1..k : new[i] \in Range(hits) \/ pool.ref[new[i]] # 0
    BY <1>10
  <2>4. ~\E i \in lo + 1 .. hi : bs[i] \notin Range(new) /\ pool.hash[bs[i]] # NoHash
    BY <1>11, <1>13
  <2> QED
    BY <2>1, <2>2, <2>3, <2>4 DEF Raises
<1>17. Alloc(r, hits, n, q, k, new, bs, lo, hi, m, t)
  BY <1>8, <1>9, <1>15, <1>16 DEF Alloc
<1> QED
  BY <1>17

\* The hashes that the first cached[r] blocks of r carry are hashes.
LEMMA CachedFull ==
  ASSUME TypeOK, StepInv, TableInv, NEW r \in Requests, NEW i \in 1..Len(table[r]),
         i <= cached[r]
  PROVE  /\ Full(r, i) /\ Hash(r, i) \in Hashes /\ Hash(r, i) # NoHash
         /\ pool.hash[table[r][i]] = Hash(r, i)
<1>1. PICK c \in Nat, d \in Nat : c = cached[r] /\ d = computed[r] + sched[r]
  BY Types
<1>2. c * BlockSize <= d /\ d <= ntok[r]
  BY <1>1 DEF TableInv, StepInv
<1>3. ntok[r] \in Nat /\ ntok[r] <= Len(Text[r]) /\ Len(Text[r]) \in Nat
  BY Types
<1>4. i \in Nat /\ i >= 1 /\ i <= c
  <2>1. Len(table[r]) \in Nat
    BY Types
  <2> QED
    BY <1>1, <2>1
<1>5. i * BlockSize <= c * BlockSize /\ i * BlockSize \in Nat /\ c * BlockSize \in Nat
  BY <1>4, Times
<1>6. Full(r, i)
  BY <1>2, <1>3, <1>4, <1>5 DEF Full
<1>7. Hash(r, i) \in Hashes
  BY <1>4, <1>6, HashLen
<1>8. pool.hash[table[r][i]] = Hash(r, i)
  BY DEF TableInv
<1> QED
  BY <1>6, <1>7, <1>8, HashIsNotNoHash

\* The hashes after allocate_slots: the table of r carries its own, no other
\* block changes, and only the blocks taken from the queue lose theirs.
LEMMA AllocHash ==
  ASSUME TypeOK, NEW r \in Requests, NEW hits \in Seq(Blocks), NEW n \in Nat,
         NEW q, NEW k, NEW new, NEW bs, NEW lo, NEW hi, NEW m, NEW t,
         Alloc(r, hits, n, q, k, new, bs, lo, hi, m, t)
  PROVE  /\ \A i \in 1..Len(bs) :
              pool'.hash[bs[i]] = IF i <= hi THEN Hash(r, i) ELSE NoHash
         /\ \A b \in Blocks : b \notin Range(bs) => pool'.hash[b] = pool.hash[b]
         /\ \A b \in Blocks : b \notin Range(new) /\ pool.hash[b] # NoHash =>
              pool'.hash[b] = pool.hash[b]
         /\ \A i \in 1..m : bs[i] \notin Range(new)
<1>1. /\ lo \in Nat /\ hi \in Nat /\ lo <= hi /\ m \in Nat /\ lo <= m /\ hi <= Len(bs)
      /\ bs \in Seq(Blocks) /\ Distinct(bs)
      /\ \A i \in 1..m : /\ i \in 1..Len(bs)
                         /\ pool.hash[bs[i]] = IF i <= lo THEN Hash(r, i) ELSE NoHash
      /\ \A i \in 1..Len(bs) : i \in 1..m \/ (i > m /\ bs[i] \in Range(new))
      /\ \A b \in Range(new) : \E i \in 1..Len(bs) : i > m /\ bs[i] = b
  BY DEF Alloc, TableOK
<1>2. PICK l \in Nat : l = Len(bs)
  BY <1>1
<1>3. \A b \in Blocks :
        /\ (\E i \in lo + 1 .. hi : bs[i] = b) =>
             \E i \in lo + 1 .. hi : bs[i] = b /\ pool'.hash[b] = Hash(r, i)
        /\ ~(\E i \in lo + 1 .. hi : bs[i] = b) =>
             pool'.hash[b] = IF b \in Range(new) THEN NoHash ELSE pool.hash[b]
  BY DEF Alloc, Done
<1>4. \A i \in 1..l, j \in 1..l : bs[i] = bs[j] => i = j
  BY <1>1, <1>2 DEF Distinct
<1>5. \A i \in 1..l : bs[i] \in Blocks
  BY <1>1, <1>2
<1>6. \A i \in lo + 1 .. hi : i \in 1..l
  BY <1>1, <1>2
<1>7. ASSUME NEW i \in 1..m PROVE bs[i] \notin Range(new)
  <2> SUFFICES ASSUME bs[i] \in Range(new) PROVE FALSE
    OBVIOUS
  <2>1. PICK j \in 1..l : j > m /\ bs[j] = bs[i]
    BY <1>1, <1>2
  <2>2. i \in 1..l
    BY <1>1, <1>2
  <2>3. i = j
    BY <1>4, <2>1, <2>2
  <2> QED
    BY <1>1, <2>1, <2>3
<1>8. ASSUME NEW i \in 1..l
      PROVE  pool'.hash[bs[i]] = IF i <= hi THEN Hash(r, i) ELSE NoHash
  <2>1. CASE i \in lo + 1 .. hi
    <3>1. PICK j \in lo + 1 .. hi : bs[j] = bs[i] /\ pool'.hash[bs[i]] = Hash(r, j)
      BY <1>3, <1>5, <2>1
    <3>2. i = j
      BY <1>4, <1>6, <3>1
    <3>3. i <= hi
      BY <1>1, <2>1
    <3> QED
      BY <3>1, <3>2, <3>3
  <2>2. CASE ~(i \in lo + 1 .. hi)
    <3>1. ~\E j \in lo + 1 .. hi : bs[j] = bs[i]
      BY <1>4, <1>6, <2>2
    <3>2. pool'.hash[bs[i]] = IF bs[i] \in Range(new) THEN NoHash ELSE pool.hash[bs[i]]
      BY <1>3, <1>5, <3>1
    <3>3. CASE i \in 1..m
      <4>1. pool'.hash[bs[i]] = IF i <= lo THEN Hash(r, i) ELSE NoHash
        BY <1>1, <1>7, <3>2, <3>3
      <4>2. i <= lo <=> i <= hi
        BY <1>1, <2>2
      <4> QED
        BY <4>1, <4>2
    <3>4. CASE i > m /\ bs[i] \in Range(new)
      <4>1. ~(i <= hi)
        BY <1>1, <2>2, <3>4
      <4> QED
        BY <3>2, <3>4, <4>1
    <3> QED
      BY <1>1, <1>2, <3>3, <3>4
  <2> QED
    BY <2>1, <2>2
<1>9. ASSUME NEW b \in Blocks, b \notin Range(bs) PROVE pool'.hash[b] = pool.hash[b]
  <2>1. DOMAIN bs = 1..l
    BY <1>1, <1>2
  <2>2. \A i \in 1..l : bs[i] # b
    BY <1>9, <2>1 DEF Range
  <2>3. b \notin Range(new)
    BY <1>1, <1>2, <2>2
  <2>4. ~\E i \in lo + 1 .. hi : bs[i] = b
    BY <1>6, <2>2
  <2> QED
    BY <1>3, <2>3, <2>4
<1>10. ASSUME NEW b \in Blocks, b \notin Range(new), pool.hash[b] # NoHash
       PROVE  pool'.hash[b] = pool.hash[b]
  <2>1. CASE b \notin Range(bs)
    BY <1>9, <2>1
  <2>2. CASE b \in Range(bs)
    <3>1. PICK i \in 1..l : bs[i] = b
      BY <1>1, <1>2, <2>2 DEF Range
    <3>2. i \in 1..m
      BY <1>1, <1>2, <1>10, <3>1
    <3>3. i <= lo /\ pool.hash[b] = Hash(r, i)
      BY <1>1, <1>10, <3>1, <3>2
    <3>4. i <= hi
      BY <1>1, <3>3
    <3> QED
      BY <1>8, <3>1, <3>3, <3>4
  <2> QED
    BY <2>1, <2>2
<1> QED
  BY <1>2, <1>7, <1>8, <1>9, <1>10

\* One holder more, and one less.
LEMMA OneMore ==
  ASSUME NEW D, D \subseteq Requests, NEW r \in Requests, r \notin D
  PROVE  /\ Cardinality(D \cup {r}) = Cardinality(D) + 1
         /\ IsFiniteSet(D) /\ Cardinality(D) \in Nat
<1>1. IsFiniteSet(Requests)
  BY PoolAssumption
<1>2. IsFiniteSet(D)
  BY <1>1, FS_Subset
<1> QED
  BY <1>2, FS_AddElement, FS_CardinalityType

\* References are places in tables after allocate_slots.
LEMMA AllocRef ==
  ASSUME TypeOK, RefInv, NEW r \in Requests, NEW hits \in Seq(Blocks), NEW n \in Nat,
         NEW q, NEW k, NEW new, NEW bs, NEW lo, NEW hi, NEW m, NEW t,
         Alloc(r, hits, n, q, k, new, bs, lo, hi, m, t)
  PROVE  RefInv'
<1>1. /\ bs \in Seq(Blocks) /\ m \in Nat
      /\ \A i \in 1..m :
           /\ i \in 1..Len(bs)
           /\ \/ i \in 1..Len(table[r]) /\ bs[i] = table[r][i]
              \/ i \in 1..Len(hits) /\ bs[i] = hits[i]
      /\ \A i \in 1..Len(bs) : i \in 1..m \/ (i > m /\ bs[i] \in Range(new))
      /\ \A i \in 1..Len(table[r]) : i \in 1..m /\ bs[i] = table[r][i]
      /\ \A i \in 1..Len(hits) : i \in 1..m /\ bs[i] = hits[i]
      /\ \A b \in Range(new) : \E i \in 1..Len(bs) : i > m /\ bs[i] = b
  BY DEF Alloc, TableOK
<1>2. table[r] \in Seq(Blocks)
  BY Types
<1>3. /\ DOMAIN bs = 1..Len(bs) /\ DOMAIN table[r] = 1..Len(table[r])
      /\ DOMAIN hits = 1..Len(hits)
  BY <1>1, <1>2
<1>4. Range(bs) = Range(table[r]) \cup Range(hits) \cup Range(new)
  <2>1. ASSUME NEW b \in Range(bs)
        PROVE  b \in Range(table[r]) \/ b \in Range(hits) \/ b \in Range(new)
    <3>1. PICK i \in 1..Len(bs) : b = bs[i]
      BY <1>3 DEF Range
    <3> QED
      BY <1>1, <1>3, <3>1 DEF Range
  <2>2. ASSUME NEW b \in Range(table[r]) PROVE b \in Range(bs)
    BY <1>1, <1>3 DEF Range
  <2>3. ASSUME NEW b \in Range(hits) PROVE b \in Range(bs)
    BY <1>1, <1>3 DEF Range
  <2>4. ASSUME NEW b \in Range(new) PROVE b \in Range(bs)
    BY <1>1, <1>3 DEF Range
  <2> QED
    BY <2>1, <2>2, <2>3, <2>4
<1>5. /\ q \in Seq(Blocks) /\ Distinct(q) /\ k \in Nat /\ k <= Len(q)
      /\ \A b \in Blocks : b \in Range(q) <=> pool.ref[b] = 0 /\ b \notin Range(hits)
      /\ new \in Seq(Blocks) /\ Len(new) = k /\ \A i \in 1..k : new[i] = q[i]
      /\ \A b \in Range(new) : b \in Blocks /\ pool.ref[b] = 0 /\ b \notin Range(hits)
  BY DEF Alloc, QueueOK
<1>6. /\ pool'.free = SubSeq(q, k + 1, Len(q))
      /\ \A b \in Blocks : pool'.ref[b] =
           IF b \in Range(hits) \/ b \in Range(new) THEN pool.ref[b] + 1 ELSE pool.ref[b]
      /\ table' = [table EXCEPT ![r] = bs]
  BY DEF Alloc, Done
<1>7. table'[r] = bs /\ \A s \in Requests : s # r => table'[s] = table[s]
  BY <1>6, Types
<1>8. ASSUME NEW b \in Blocks PROVE pool'.ref[b] = Cardinality(Holders(b)')
  <2>1. PICK D : D = Holders(b)
    OBVIOUS
  <2>2. D \subseteq Requests /\ pool.ref[b] = Cardinality(D)
    BY <2>1 DEF Holders, RefInv
  <2>3. CASE b \in Range(hits) \/ b \in Range(new)
    <3>1. r \notin D
      <4>1. CASE b \in Range(hits)
        <5>1. hits # <<>>
          BY <4>1 DEF Range
        <5>2. table[r] = <<>>
          BY <5>1 DEF Alloc, Ask
        <5> QED
          BY <2>1, <5>2 DEF Holders, Range
      <4>2. CASE b \in Range(new)
        <5>1. ~(pool.ref[b] > 0)
          BY <1>5, <4>2
        <5> QED
          BY <2>1, <5>1, HeldRef DEF Holders
      <4> QED
        BY <2>3, <4>1, <4>2
    <3>2. Holders(b)' = D \cup {r}
      BY <1>4, <1>7, <2>1, <2>3 DEF Holders
    <3>3. Cardinality(D \cup {r}) = Cardinality(D) + 1
      BY <2>2, <3>1, OneMore
    <3> QED
      BY <1>6, <2>2, <2>3, <3>2, <3>3
  <2>4. CASE ~(b \in Range(hits) \/ b \in Range(new))
    <3>1. Holders(b)' = D
      BY <1>4, <1>7, <2>1, <2>4 DEF Holders
    <3> QED
      BY <1>6, <2>2, <2>4, <3>1
  <2> QED
    BY <2>3, <2>4
<1>9. PICK l \in Nat : l = Len(q)
  BY <1>5
<1>10. PICK f : f = pool'.free
  OBVIOUS
<1>11. /\ f \in Seq(Blocks) /\ Len(f) = l - k /\ DOMAIN f = 1..(l - k)
       /\ \A i \in 1..(l - k) : f[i] = q[k + i]
  <2>1. f = SubSeq(q, k + 1, l) /\ k <= l
    BY <1>5, <1>6, <1>9, <1>10
  <2> QED
    BY <1>5, <1>9, <2>1
<1>12. Distinct(f)
  <2> SUFFICES ASSUME NEW i \in 1..(l - k), NEW j \in 1..(l - k), f[i] = f[j] PROVE i = j
    BY <1>11 DEF Distinct
  <2>1. k + i \in 1..l /\ k + j \in 1..l
    BY <1>5
  <2>2. k + i = k + j
    BY <1>5, <1>9, <1>11, <2>1 DEF Distinct
  <2> QED
    BY <1>5, <2>2
<1>13. ASSUME NEW b \in Blocks
       PROVE  b \in Range(f) <=> b \in Range(q) /\ b \notin Range(new)
  <2>1. DOMAIN q = 1..l /\ DOMAIN new = 1..k
    BY <1>5, <1>9
  <2>2. ASSUME b \in Range(f) PROVE b \in Range(q) /\ b \notin Range(new)
    <3>1. PICK i \in 1..(l - k) : b = f[i]
      BY <1>11, <2>2 DEF Range
    <3>2. k + i \in 1..l /\ b = q[k + i]
      BY <1>5, <1>11, <3>1
    <3>3. ASSUME NEW j \in 1..k, b = new[j] PROVE FALSE
      <4>1. j \in 1..l /\ b = q[j]
        BY <1>5, <1>9, <3>3
      <4>2. k + i = j
        BY <1>5, <1>9, <3>2, <4>1 DEF Distinct
      <4> QED
        BY <1>5, <4>2
    <3> QED
      BY <2>1, <3>2, <3>3 DEF Range
  <2>3. ASSUME b \in Range(q), b \notin Range(new) PROVE b \in Range(f)
    <3>1. PICK i \in 1..l : b = q[i]
      BY <2>1, <2>3 DEF Range
    <3>2. ~(i \in 1..k)
      BY <1>5, <2>1, <2>3, <3>1 DEF Range
    <3>3. i - k \in 1..(l - k) /\ k + (i - k) = i
      BY <1>5, <3>2
    <3> QED
      BY <1>11, <3>1, <3>3 DEF Range
  <2> QED
    BY <2>2, <2>3
<1>14. ASSUME NEW b \in Blocks PROVE b \in Range(f) <=> pool'.ref[b] = 0
  <2>1. pool.ref[b] \in Nat
    BY Types
  <2> QED
    BY <1>5, <1>6, <1>13, <2>1
<1> QED
  BY <1>8, <1>10, <1>12, <1>14 DEF RefInv

\* A block that another request holds keeps its hash: if it has none, nobody
\* shares it.
LEMMA AllocOther ==
  ASSUME TypeOK, RefInv, StepInv, TableInv, ShareInv, NEW r \in Requests,
         NEW hits \in Seq(Blocks), NEW n \in Nat,
         NEW q, NEW k, NEW new, NEW bs, NEW lo, NEW hi, NEW m, NEW t,
         Alloc(r, hits, n, q, k, new, bs, lo, hi, m, t),
         NEW s \in Requests, s # r, NEW i \in 1..Len(table[s])
  PROVE  /\ table[s][i] \notin Range(new)
         /\ pool'.hash[table[s][i]] = pool.hash[table[s][i]]
<1>1. PICK b : b = table[s][i]
  OBVIOUS
<1>2. b \in Blocks /\ b \in Range(table[s])
  <2>1. table[s] \in Seq(Blocks)
    BY Types
  <2> QED
    BY <1>1, <2>1 DEF Range
<1>3. b \notin Range(new)
  <2>1. pool.ref[b] > 0
    BY <1>2, HeldRef
  <2> QED
    BY <2>1 DEF Alloc, QueueOK
<1>4. /\ bs \in Seq(Blocks)
      /\ \A j \in 1..m :
           /\ pool.hash[bs[j]] = IF j <= lo THEN Hash(r, j) ELSE NoHash
           /\ \/ j \in 1..Len(table[r]) /\ bs[j] = table[r][j]
              \/ j \in 1..Len(hits) /\ bs[j] = hits[j] /\ j <= lo
      /\ \A j \in 1..Len(bs) : j \in 1..m \/ (j > m /\ bs[j] \in Range(new))
      /\ \A j \in 1..Len(hits) : Full(r, j) /\ pool.hash[hits[j]] = Hash(r, j)
  BY DEF Alloc, TableOK, Ask
<1>5. CASE pool.hash[b] # NoHash
  BY <1>1, <1>2, <1>3, <1>5, AllocHash
<1>6. CASE b \notin Range(bs)
  <2>1. pool'.hash[b] = pool.hash[b]
    BY <1>2, <1>6, AllocHash
  <2> QED
    BY <1>1, <1>3, <2>1
<1>7. CASE pool.hash[b] = NoHash /\ b \in Range(bs)
  <2>1. PICK j \in 1..Len(bs) : bs[j] = b
    BY <1>4, <1>7 DEF Range
  <2>2. j \in 1..m
    BY <1>3, <1>4, <2>1
  <2>3. CASE j \in 1..Len(table[r]) /\ bs[j] = table[r][j]
    <3>1. i <= cached[s]
      BY <1>1, <2>1, <2>3 DEF ShareInv
    <3>2. pool.hash[b] # NoHash
      BY <1>1, <3>1, CachedFull
    <3> QED
      BY <1>7, <3>2
  <2>4. CASE j \in 1..Len(hits) /\ bs[j] = hits[j]
    <3>1. Full(r, j) /\ pool.hash[b] = Hash(r, j)
      BY <1>4, <2>1, <2>4
    <3>2. j >= 1
      BY <2>4
    <3>3. Hash(r, j) # NoHash
      BY <3>1, <3>2, HashLen, HashIsNotNoHash
    <3> QED
      BY <1>7, <3>1, <3>3
  <2> QED
    BY <1>4, <2>2, <2>3, <2>4
<1> QED
  BY <1>5, <1>6, <1>7

\* What allocate_slots changes of the requests.
LEMMA AllocFrame ==
  ASSUME TypeOK, NEW r \in Requests, NEW hits, NEW n,
         NEW q, NEW k, NEW new, NEW bs, NEW lo, NEW hi, NEW m, NEW t,
         Alloc(r, hits, n, q, k, new, bs, lo, hi, m, t)
  PROVE  /\ table'[r] = bs /\ cached'[r] = hi /\ computed'[r] = t /\ sched'[r] = n
         /\ \A s \in Requests : s # r =>
              /\ table'[s] = table[s] /\ cached'[s] = cached[s]
              /\ computed'[s] = computed[s] /\ sched'[s] = sched[s]
<1>1. /\ table' = [table EXCEPT ![r] = bs] /\ cached' = [cached EXCEPT ![r] = hi]
      /\ computed' = [computed EXCEPT ![r] = t] /\ sched' = [sched EXCEPT ![r] = n]
  BY DEF Alloc, Done, TableOK
<1> QED
  BY <1>1, Types

\* The tables after allocate_slots.
LEMMA AllocTable ==
  ASSUME TypeOK, RefInv, StepInv, TableInv, ShareInv, NEW r \in Requests,
         NEW hits \in Seq(Blocks), NEW n \in Nat,
         NEW q, NEW k, NEW new, NEW bs, NEW lo, NEW hi, NEW m, NEW t,
         Alloc(r, hits, n, q, k, new, bs, lo, hi, m, t)
  PROVE  TableInv'
<1> SUFFICES ASSUME NEW s \in Requests
             PROVE  /\ Distinct(table'[s])
                    /\ computed'[s] + sched'[s] <= Len(table'[s]) * BlockSize
                    /\ cached'[s] * BlockSize <= computed'[s] + sched'[s]
                    /\ computed'[s] + sched'[s] < cached'[s] * BlockSize + BlockSize
                    /\ \A i \in 1..Len(table'[s]) :
                         pool'.hash[table'[s][i]] =
                           IF i <= cached'[s] THEN Hash(s, i) ELSE NoHash
  BY DEF TableInv
<1>1. /\ table'[r] = bs /\ cached'[r] = hi /\ computed'[r] = t /\ sched'[r] = n
      /\ s # r => /\ table'[s] = table[s] /\ cached'[s] = cached[s]
                  /\ computed'[s] = computed[s] /\ sched'[s] = sched[s]
  BY AllocFrame
<1>2. CASE s = r
  <2>1. /\ Distinct(bs) /\ t + n <= Len(bs) * BlockSize
        /\ hi * BlockSize <= t + n /\ t + n < hi * BlockSize + BlockSize
    BY DEF Alloc, TableOK
  <2>2. \A i \in 1..Len(bs) :
          pool'.hash[bs[i]] = IF i <= hi THEN Hash(r, i) ELSE NoHash
    BY AllocHash
  <2> QED
    BY <1>1, <1>2, <2>1, <2>2
<1>3. CASE s # r
  <2>1. ASSUME NEW i \in 1..Len(table[s])
        PROVE  pool'.hash[table[s][i]] = IF i <= cached[s] THEN Hash(s, i) ELSE NoHash
    <3>1. pool'.hash[table[s][i]] = pool.hash[table[s][i]]
      BY <1>3, AllocOther
    <3> QED
      BY <3>1 DEF TableInv
  <2> QED
    BY <1>1, <1>3, <2>1 DEF TableInv
<1> QED
  BY <1>2, <1>3

\* Who shares a block with r after allocate_slots.
LEMMA AllocPair ==
  ASSUME TypeOK, RefInv, StepInv, TableInv, ShareInv, NEW r \in Requests,
         NEW hits \in Seq(Blocks), NEW n \in Nat,
         NEW q, NEW k, NEW new, NEW bs, NEW lo, NEW hi, NEW m, NEW t,
         Alloc(r, hits, n, q, k, new, bs, lo, hi, m, t),
         NEW s \in Requests, s # r, NEW i \in 1..Len(bs), NEW j \in 1..Len(table[s]),
         bs[i] = table[s][j]
  PROVE  /\ i <= hi /\ j <= cached[s]
         /\ i * BlockSize <= t \/ j * BlockSize <= computed[s]
<1>1. /\ lo \in Nat /\ hi \in Nat /\ lo <= hi /\ m \in Nat /\ t \in Nat
      /\ lo * BlockSize <= t
      /\ \A a \in 1..m :
           /\ pool.hash[bs[a]] = IF a <= lo THEN Hash(r, a) ELSE NoHash
           /\ \/ a \in 1..Len(table[r]) /\ bs[a] = table[r][a]
              \/ a \in 1..Len(hits) /\ bs[a] = hits[a] /\ a <= lo
      /\ \A a \in 1..Len(bs) : a \in 1..m \/ (a > m /\ bs[a] \in Range(new))
      /\ \A a \in 1..hi : Full(r, a)
  BY DEF Alloc, TableOK
<1>2. i \in 1..m
  <2>1. bs[i] \notin Range(new)
    <3>1. table[s][j] \notin Range(new)
      BY AllocOther
    <3> QED
      BY <3>1
  <2> QED
    BY <1>1, <2>1
<1>3. i \in Nat /\ i >= 1
  BY <1>1, <1>2
<1>4. CASE i \in 1..Len(table[r]) /\ bs[i] = table[r][i]
  <2>1. i <= cached[r] /\ (i * BlockSize <= computed[r] \/ j * BlockSize <= computed[s])
    BY <1>4 DEF ShareInv
  <2>2. j <= cached[s]
    BY <1>4 DEF ShareInv
  <2>3. pool.hash[bs[i]] # NoHash
    BY <1>4, <2>1, CachedFull
  <2>4. i <= lo
    BY <1>1, <1>2, <2>3
  <2>5. i <= hi
    BY <1>1, <1>3, <2>4
  <2>6. i * BlockSize <= t
    <3>1. i * BlockSize <= lo * BlockSize /\ i * BlockSize \in Nat /\ lo * BlockSize \in Nat
      BY <1>1, <1>3, <2>4, Times
    <3> QED
      BY <1>1, <3>1
  <2> QED
    BY <2>2, <2>5, <2>6
<1>5. CASE i \in 1..Len(hits) /\ bs[i] = hits[i] /\ i <= lo
  <2>1. i <= hi
    BY <1>1, <1>3, <1>5
  <2>2. i * BlockSize <= t
    <3>1. i * BlockSize <= lo * BlockSize /\ i * BlockSize \in Nat /\ lo * BlockSize \in Nat
      BY <1>1, <1>3, <1>5, Times
    <3> QED
      BY <1>1, <3>1
  <2>3. pool.hash[table[s][j]] # NoHash
    <3>1. Full(r, i)
      BY <1>1, <1>3, <2>1
    <3>2. Hash(r, i) # NoHash
      BY <1>3, <3>1, HashLen, HashIsNotNoHash
    <3> QED
      BY <1>1, <1>2, <1>5, <3>2
  <2>4. j <= cached[s]
    BY <2>3 DEF TableInv
  <2> QED
    BY <2>1, <2>2, <2>4
<1> QED
  BY <1>1, <1>2, <1>4, <1>5

\* Who shares a block after allocate_slots.
LEMMA AllocShare ==
  ASSUME TypeOK, RefInv, StepInv, TableInv, ShareInv, NEW r \in Requests,
         NEW hits \in Seq(Blocks), NEW n \in Nat,
         NEW q, NEW k, NEW new, NEW bs, NEW lo, NEW hi, NEW m, NEW t,
         Alloc(r, hits, n, q, k, new, bs, lo, hi, m, t)
  PROVE  ShareInv'
<1> SUFFICES ASSUME NEW u \in Requests, NEW s \in Requests,
                    NEW i \in 1..Len(table'[u]), NEW j \in 1..Len(table'[s]),
                    u # s, table'[u][i] = table'[s][j]
             PROVE  /\ i <= cached'[u]
                    /\ i * BlockSize <= computed'[u] \/ j * BlockSize <= computed'[s]
  BY DEF ShareInv
<1>1. /\ table'[r] = bs /\ cached'[r] = hi /\ computed'[r] = t
      /\ \A v \in Requests : v # r =>
           table'[v] = table[v] /\ cached'[v] = cached[v] /\ computed'[v] = computed[v]
  BY AllocFrame
<1>2. CASE u = r
  <2>1. i \in 1..Len(bs) /\ j \in 1..Len(table[s]) /\ bs[i] = table[s][j] /\ s # r
    BY <1>1, <1>2
  <2>2. i <= hi /\ (i * BlockSize <= t \/ j * BlockSize <= computed[s])
    BY <2>1, AllocPair
  <2> QED
    BY <1>1, <1>2, <2>1, <2>2
<1>3. CASE s = r
  <2>1. j \in 1..Len(bs) /\ i \in 1..Len(table[u]) /\ bs[j] = table[u][i] /\ u # r
    BY <1>1, <1>3
  <2>2. i <= cached[u] /\ (j * BlockSize <= t \/ i * BlockSize <= computed[u])
    BY <2>1, AllocPair
  <2> QED
    BY <1>1, <1>3, <2>1, <2>2
<1>4. CASE u # r /\ s # r
  BY <1>1, <1>4 DEF ShareInv
<1> QED
  BY <1>2, <1>3, <1>4

\* What a subscriber believes after allocate_slots.
LEMMA AllocStored ==
  ASSUME TypeOK, StoredInv, NEW r \in Requests, NEW hits \in Seq(Blocks), NEW n \in Nat,
         NEW q, NEW k, NEW new, NEW bs, NEW lo, NEW hi, NEW m, NEW t,
         Alloc(r, hits, n, q, k, new, bs, lo, hi, m, t)
  PROVE  StoredInv'
<1> SUFFICES ASSUME NEW h \in pool'.stored PROVE \E b \in Blocks : pool'.hash[b] = h
  BY DEF StoredInv
<1>1. \/ \E i \in lo + 1 .. hi : h = Hash(r, i)
      \/ /\ h \in pool.stored \/ \E i \in 1..Len(hits) : h = Hash(r, i)
         /\ \A b \in Range(new) : pool.hash[b] # h
  BY DEF Alloc, Done
<1>2. h # NoHash
  <2>1. h \in Hashes
    BY DEF Alloc, Done, PoolType
  <2> QED
    BY <2>1, HashIsNotNoHash
<1>3. CASE \E i \in lo + 1 .. hi : h = Hash(r, i)
  <2>1. PICK i \in lo + 1 .. hi : h = Hash(r, i)
    BY <1>3
  <2>2. lo \in Nat /\ hi \in Nat /\ hi <= Len(bs) /\ bs \in Seq(Blocks)
    BY DEF Alloc, TableOK
  <2>3. i \in 1..Len(bs) /\ i <= hi
    <3>1. Len(bs) \in Nat
      BY <2>2
    <3> QED
      BY <2>2, <3>1
  <2>4. pool'.hash[bs[i]] = h /\ bs[i] \in Blocks
    BY <2>1, <2>2, <2>3, AllocHash
  <2> QED
    BY <2>4
<1>4. CASE /\ h \in pool.stored \/ \E i \in 1..Len(hits) : h = Hash(r, i)
           /\ \A b \in Range(new) : pool.hash[b] # h
  <2>1. \E b \in Blocks : pool.hash[b] = h
    <3>1. CASE h \in pool.stored
      BY <3>1 DEF StoredInv
    <3>2. CASE \E i \in 1..Len(hits) : h = Hash(r, i)
      <4>1. PICK i \in 1..Len(hits) : h = Hash(r, i)
        BY <3>2
      <4>2. pool.hash[hits[i]] = h
        BY <4>1 DEF Alloc, Ask
      <4>3. hits[i] \in Blocks
        OBVIOUS
      <4> QED
        BY <4>2, <4>3
    <3> QED
      BY <1>4, <3>1, <3>2
  <2>2. PICK b \in Blocks : pool.hash[b] = h
    BY <2>1
  <2>3. b \notin Range(new) /\ pool.hash[b] # NoHash
    BY <1>2, <1>4, <2>2
  <2>4. pool'.hash[b] = pool.hash[b]
    BY <2>3, AllocHash
  <2> QED
    BY <2>2, <2>4
<1> QED
  BY <1>1, <1>3, <1>4

\* The eviction order after allocate_slots.
LEMMA AllocOrder ==
  ASSUME TypeOK, RefInv, OrderInv, NEW r \in Requests, NEW hits \in Seq(Blocks),
         NEW n \in Nat,
         NEW q, NEW k, NEW new, NEW bs, NEW lo, NEW hi, NEW m, NEW t,
         Alloc(r, hits, n, q, k, new, bs, lo, hi, m, t)
  PROVE  OrderInv'
<1> SUFFICES ASSUME NEW b \in Blocks, pool'.ref[b] = 0, pool'.hash[b] # NoHash,
                    Len(pool'.hash[b]) > BlockSize
             PROVE  \E c \in Blocks :
                      /\ pool'.hash[c] =
                           SubSeq(pool'.hash[b], 1, Len(pool'.hash[b]) - BlockSize)
                      /\ pool'.ref[c] > 0 \/ Before(b, c)'
  BY DEF OrderInv
<1>1. /\ pool'.free = SubSeq(q, k + 1, Len(q))
      /\ \A d \in Blocks : pool'.ref[d] =
           IF d \in Range(hits) \/ d \in Range(new) THEN pool.ref[d] + 1 ELSE pool.ref[d]
  BY DEF Alloc, Done
<1>2. /\ q \in Seq(Blocks) /\ k \in Nat /\ k <= Len(q)
      /\ \A d \in Blocks : d \in Range(q) <=> pool.ref[d] = 0 /\ d \notin Range(hits)
      /\ \A d, e \in Range(q) : Before(d, e) =>
           \E i, j \in 1..Len(q) : i < j /\ q[i] = d /\ q[j] = e
      /\ new \in Seq(Blocks) /\ Len(new) = k /\ \A i \in 1..k : new[i] = q[i]
      /\ \A d \in Range(new) : pool.ref[d] = 0
  BY DEF Alloc, QueueOK
<1>3. \A d \in Blocks : pool.ref[d] \in Nat
  BY Types
<1>4. pool.ref[b] = 0 /\ b \notin Range(hits) /\ b \notin Range(new)
  BY <1>1, <1>3
<1>5. b \notin Range(bs)
  <2> SUFFICES ASSUME b \in Range(bs) PROVE FALSE
    OBVIOUS
  <2>1. /\ bs \in Seq(Blocks)
        /\ \A j \in 1..m : \/ j \in 1..Len(table[r]) /\ bs[j] = table[r][j]
                           \/ j \in 1..Len(hits) /\ bs[j] = hits[j]
        /\ \A j \in 1..Len(bs) : j \in 1..m \/ (j > m /\ bs[j] \in Range(new))
    BY DEF Alloc, TableOK
  <2>2. PICK j \in 1..Len(bs) : bs[j] = b
    BY <2>1 DEF Range
  <2>3. j \in 1..m
    BY <1>4, <2>1, <2>2
  <2>4. table[r] \in Seq(Blocks)
    BY Types
  <2>5. CASE j \in 1..Len(table[r]) /\ bs[j] = table[r][j]
    <3>1. b \in Range(table[r])
      BY <2>2, <2>4, <2>5 DEF Range
    <3>2. pool.ref[b] > 0
      BY <3>1, HeldRef
    <3> QED
      BY <1>4, <3>2
  <2>6. CASE j \in 1..Len(hits) /\ bs[j] = hits[j]
    BY <1>4, <2>2, <2>6 DEF Range
  <2> QED
    BY <2>1, <2>3, <2>5, <2>6
<1>6. PICK h : h = pool.hash[b]
  OBVIOUS
<1>7. pool'.hash[b] = h
  BY <1>5, <1>6, AllocHash
<1>8. h # NoHash /\ Len(h) > BlockSize
  BY <1>7
<1>9. PICK c \in Blocks : /\ pool.hash[c] = SubSeq(h, 1, Len(h) - BlockSize)
                          /\ pool.ref[c] > 0 \/ Before(b, c)
  BY <1>4, <1>6, <1>8 DEF OrderInv
<1>10. pool.hash[c] # NoHash
  <2>1. h \in Hashes
    BY <1>6, <1>8, Types
  <2>2. PICK s \in Requests, i \in Nat : i >= 1 /\ Full(s, i) /\ h = Hash(s, i)
    BY <2>1, HashOf
  <2>3. Full(s, i - 1) /\ pool.hash[c] = Hash(s, i - 1) /\ i > 1
    BY <1>8, <1>9, <2>2, HashParent
  <2>4. i - 1 >= 1
    BY <2>2, <2>3
  <2> QED
    BY <2>3, <2>4, HashLen, HashIsNotNoHash
<1>11. PICK l \in Nat : l = Len(q)
  BY <1>2
<1>12. DOMAIN q = 1..l /\ DOMAIN new = 1..k
  BY <1>2, <1>11
<1>13. CASE pool.ref[c] > 0 \/ c \in Range(hits)
  <2>1. c \notin Range(new)
    BY <1>2, <1>13 DEF Alloc, QueueOK
  <2>2. pool'.hash[c] = pool.hash[c]
    BY <1>10, <2>1, AllocHash
  <2>3. pool'.ref[c] > 0
    BY <1>1, <1>3, <1>13
  <2> QED
    BY <1>7, <1>9, <2>2, <2>3
<1>14. CASE pool.ref[c] = 0 /\ c \notin Range(hits)
  <2>1. b \in Range(q) /\ c \in Range(q) /\ Before(b, c)
    BY <1>2, <1>4, <1>9, <1>14
  <2>2. PICK i \in 1..l, j \in 1..l : i < j /\ q[i] = b /\ q[j] = c
    BY <1>2, <1>11, <2>1
  <2>3. i > k
    <3> SUFFICES ASSUME i <= k PROVE FALSE
      BY <1>2, <1>11
    <3>1. i \in 1..k
      BY <1>2
    <3>2. b \in Range(new)
      BY <1>2, <1>12, <2>2, <3>1 DEF Range
    <3> QED
      BY <1>4, <3>2
  <2>4. PICK f : f = pool'.free
    OBVIOUS
  <2>5. Len(f) = l - k /\ \A a \in 1..(l - k) : f[a] = q[k + a]
    <3>1. f = SubSeq(q, k + 1, l) /\ k <= l
      BY <1>1, <1>2, <1>11, <2>4
    <3> QED
      BY <1>2, <1>11, <3>1
  <2>6. /\ i - k \in 1..(l - k) /\ j - k \in 1..(l - k) /\ i - k < j - k
        /\ k + (i - k) = i /\ k + (j - k) = j
    BY <1>2, <2>2, <2>3
  <2>7. f[i - k] = b /\ f[j - k] = c
    BY <2>2, <2>5, <2>6
  <2>8. Before(b, c)'
    BY <2>4, <2>5, <2>6, <2>7 DEF Before
  <2>9. c \notin Range(new)
    <3> SUFFICES ASSUME c \in Range(new) PROVE FALSE
      OBVIOUS
    <3>1. PICK a \in 1..k : c = q[a]
      BY <1>2, <1>12 DEF Range
    <3>2. a \in 1..l /\ j \in 1..l
      BY <1>2, <1>11
    <3>3. a = j
      BY <1>11, <2>2, <3>1, <3>2 DEF Alloc, QueueOK, Distinct
    <3> QED
      BY <1>2, <2>2, <2>3, <3>3
  <2>10. pool'.hash[c] = pool.hash[c]
    BY <1>10, <2>9, AllocHash
  <2> QED
    BY <1>7, <1>9, <2>8, <2>10
<1> QED
  BY <1>3, <1>13, <1>14

\* What the step was going to write it still is.
LEMMA AllocDue ==
  ASSUME TypeOK, NEW r \in Requests, NEW hits \in Seq(Blocks), NEW n \in Nat,
         NEW q, NEW k, NEW new, NEW bs, NEW lo, NEW hi, NEW m, NEW t,
         Alloc(r, hits, n, q, k, new, bs, lo, hi, m, t),
         NEW b, NEW h, Due(b, h)
  PROVE  Due(b, h)'
<1>1. PICK s \in Requests : \E i \in 1..Len(table[s]) :
                               /\ table[s][i] = b /\ Hash(s, i) = h
                               /\ computed[s] < i * BlockSize
                               /\ i * BlockSize <= computed[s] + sched[s]
  BY DEF Due
<1>2. PICK i \in 1..Len(table[s]) : /\ table[s][i] = b /\ Hash(s, i) = h
                                    /\ computed[s] < i * BlockSize
                                    /\ i * BlockSize <= computed[s] + sched[s]
  BY <1>1
<1>3. s # r
  <2> SUFFICES ASSUME s = r PROVE FALSE
    OBVIOUS
  <2>1. sched[s] = 0
    BY DEF Alloc, Ask
  <2>2. computed[s] \in Nat /\ i \in Nat
    <3>1. Len(table[s]) \in Nat
      BY Types
    <3> QED
      BY <1>2, <3>1, Types
  <2>3. i * BlockSize \in Nat
    BY <2>2, Times
  <2> QED
    BY <1>2, <2>1, <2>2, <2>3
<1>4. table'[s] = table[s] /\ computed'[s] = computed[s] /\ sched'[s] = sched[s]
  BY <1>3, AllocFrame
<1> QED
  BY <1>2, <1>4 DEF Due

\* The cache holds what it says after allocate_slots, or the step will write it.
LEMMA AllocCache ==
  ASSUME TypeOK, CacheInv, NEW r \in Requests, NEW hits \in Seq(Blocks), NEW n \in Nat,
         NEW q, NEW k, NEW new, NEW bs, NEW lo, NEW hi, NEW m, NEW t,
         Alloc(r, hits, n, q, k, new, bs, lo, hi, m, t), UNCHANGED content
  PROVE  CacheInv'
<1> SUFFICES ASSUME NEW b \in Blocks, NEW h, h = pool'.hash[b], h # NoHash
             PROVE  content[b] = h \/ Due(b, h)'
  BY DEF CacheInv, Due
<1>1. /\ lo \in Nat /\ hi \in Nat /\ lo <= hi /\ m \in Nat /\ t \in Nat /\ hi <= Len(bs)
      /\ t < lo * BlockSize + BlockSize /\ hi * BlockSize <= t + n /\ bs \in Seq(Blocks)
  BY DEF Alloc, TableOK
<1>2. table'[r] = bs /\ computed'[r] = t /\ sched'[r] = n
  BY AllocFrame
<1>3. CASE \E i \in lo + 1 .. hi : bs[i] = b
  <2>1. PICK i \in lo + 1 .. hi : bs[i] = b
    BY <1>3
  <2>2. PICK l \in Nat : l = Len(bs)
    BY <1>1
  <2>3. i \in Nat /\ i \in 1..l /\ i <= hi /\ lo < i
    BY <1>1, <2>2
  <2>4. h = Hash(r, i)
    BY <2>1, <2>2, <2>3, AllocHash
  <2>5. /\ lo * BlockSize + BlockSize <= i * BlockSize /\ i * BlockSize <= hi * BlockSize
        /\ i * BlockSize \in Nat /\ lo * BlockSize \in Nat /\ hi * BlockSize \in Nat
    BY <1>1, <2>3, Times
  <2>6. t < i * BlockSize /\ i * BlockSize <= t + n
    <3>1. PICK x \in Nat, y \in Nat, z \in Nat :
             x = i * BlockSize /\ y = lo * BlockSize /\ z = hi * BlockSize
      BY <2>5
    <3>2. BlockSize \in Nat /\ t \in Nat /\ n \in Nat
      BY <1>1, PoolAssumption DEF Alloc
    <3>3. y + BlockSize <= x /\ x <= z /\ t < y + BlockSize /\ z <= t + n
      BY <1>1, <2>5, <3>1
    <3>4. t < x /\ x <= t + n
      BY <3>2, <3>3
    <3> QED
      BY <3>1, <3>4
  <2>7. Due(b, h)'
    BY <1>2, <2>1, <2>2, <2>3, <2>4, <2>6 DEF Due
  <2> QED
    BY <2>7
<1>4. CASE ~\E i \in lo + 1 .. hi : bs[i] = b
  <2>1. h = IF b \in Range(new) THEN NoHash ELSE pool.hash[b]
    BY <1>4 DEF Alloc, Done
  <2>2. h = pool.hash[b] /\ pool.hash[b] # NoHash
    BY <2>1
  <2>3. content[b] = h \/ Due(b, h)
    BY <2>2 DEF CacheInv
  <2>4. Due(b, h) => Due(b, h)'
    BY AllocDue
  <2> QED
    BY <2>3, <2>4
<1> QED
  BY <1>3, <1>4

\* So do the blocks r has hit, and what the others hold is not touched.
LEMMA AllocOwn ==
  ASSUME TypeOK, CacheInv, OwnInv, NEW r \in Requests, NEW hits \in Seq(Blocks),
         NEW n \in Nat,
         NEW q, NEW k, NEW new, NEW bs, NEW lo, NEW hi, NEW m, NEW t,
         Alloc(r, hits, n, q, k, new, bs, lo, hi, m, t), UNCHANGED content
  PROVE  OwnInv'
<1> SUFFICES ASSUME NEW s \in Requests, NEW i \in 1..Len(table'[s]),
                    (i - 1) * BlockSize < computed'[s], NEW b, b = table'[s][i]
             PROVE  \/ content[b] = Prefix(s, MinOf(i * BlockSize, computed'[s]))
                    \/ i * BlockSize <= computed'[s] /\ Due(b, Hash(s, i))'
  BY DEF OwnInv, Due
<1>1. /\ table'[r] = bs /\ computed'[r] = t
      /\ s # r => table'[s] = table[s] /\ computed'[s] = computed[s]
  BY AllocFrame
<1>2. CASE s # r
  <2>1. b = table[s][i]
    BY <1>1, <1>2
  <2>2. \/ content[b] = Prefix(s, MinOf(i * BlockSize, computed[s]))
        \/ i * BlockSize <= computed[s] /\ Due(b, Hash(s, i))
    BY <1>1, <1>2, <2>1 DEF OwnInv
  <2>3. Due(b, Hash(s, i)) => Due(b, Hash(s, i))'
    BY AllocDue
  <2> QED
    BY <1>1, <1>2, <2>1, <2>2, <2>3
<1>3. CASE s = r
  <2>1. /\ lo \in Nat /\ m \in Nat /\ t \in Nat /\ lo * BlockSize <= t /\ lo <= hi /\ hi \in Nat
        /\ t <= m * BlockSize /\ bs \in Seq(Blocks) /\ t = TotalComputed(r, hits)
        /\ \A a \in 1..m :
             /\ pool.hash[bs[a]] = IF a <= lo THEN Hash(r, a) ELSE NoHash
             /\ \/ a \in 1..Len(table[r]) /\ bs[a] = table[r][a]
                \/ a \in 1..Len(hits) /\ bs[a] = hits[a] /\ a <= lo
        /\ \A a \in 1..hi : Full(r, a)
    BY DEF Alloc, TableOK
  <2>2. i \in Nat /\ i >= 1 /\ i - 1 \in Nat /\ bs[i] \in Blocks
    <3>1. PICK l \in Nat : l = Len(bs)
      BY <2>1
    <3> QED
      BY <1>1, <1>3, <2>1, <3>1
  <2>3. i \in 1..m
    <3>1. (i - 1) * BlockSize < m * BlockSize
      <4>1. (i - 1) * BlockSize \in Nat /\ m * BlockSize \in Nat
        BY <2>1, <2>2, Times
      <4> QED
        BY <1>1, <1>3, <2>1, <4>1
    <3>2. i - 1 < m
      BY <2>1, <2>2, <3>1, Times
    <3> QED
      BY <2>1, <2>2, <3>2
  <2>4. b = bs[i]
    BY <1>1, <1>3
  <2>5. CASE i \in 1..Len(table[r]) /\ bs[i] = table[r][i]
    <3>1. hits = <<>>
      BY <2>5 DEF Alloc, Ask
    <3>2. t = computed[r]
      <4>1. computed[r] \in Nat /\ 0 * BlockSize = 0
        BY PoolAssumption, Types
      <4> QED
        BY <2>1, <3>1, <4>1 DEF TotalComputed
    <3>3. \/ content[b] = Prefix(r, MinOf(i * BlockSize, t))
          \/ i * BlockSize <= t /\ Due(b, Hash(r, i))
      BY <1>1, <1>3, <2>4, <2>5, <3>2 DEF OwnInv
    <3>4. Due(b, Hash(r, i)) => Due(b, Hash(r, i))'
      BY AllocDue
    <3> QED
      BY <1>1, <1>3, <2>4, <3>3, <3>4
  <2>6. CASE i <= lo
    <3>1. i * BlockSize <= t /\ i * BlockSize \in Nat
      <4>1. i * BlockSize <= lo * BlockSize /\ i * BlockSize \in Nat /\ lo * BlockSize \in Nat
        BY <2>1, <2>2, <2>6, Times
      <4> QED
        BY <2>1, <4>1
    <3>2. Full(r, i)
      <4>1. i \in 1..hi
        BY <2>1, <2>2, <2>6
      <4> QED
        BY <2>1, <4>1
    <3>3. Hash(r, i) # NoHash
      BY <2>2, <3>2, HashLen, HashIsNotNoHash
    <3>4. pool.hash[b] = Hash(r, i)
      BY <2>1, <2>3, <2>4, <2>6
    <3>5. content[b] = Hash(r, i) \/ Due(b, Hash(r, i))
      BY <2>2, <2>4, <3>3, <3>4 DEF CacheInv
    <3>6. MinOf(i * BlockSize, t) = i * BlockSize
      BY <2>1, <3>1 DEF MinOf
    <3>7. Due(b, Hash(r, i)) => Due(b, Hash(r, i))'
      BY AllocDue
    <3>8. CASE content[b] = Hash(r, i)
      BY <1>1, <1>3, <2>4, <3>6, <3>8 DEF Hash
    <3> QED
      BY <1>1, <1>3, <2>4, <3>1, <3>5, <3>7, <3>8
  <2> QED
    BY <2>1, <2>3, <2>5, <2>6
<1> QED
  BY <1>2, <1>3

-----------------------------------------------------------------------------
(***************************************************************************)
(* A release preserves the invariants.                                     *)
(***************************************************************************)
\* x comes before y in s.
Prec(s, x, y) == \E i, j \in 1..Len(s) : i < j /\ s[i] = x /\ s[j] = y

\* A concatenation without repetitions, and the order of its elements.
LEMMA ConcatOrder ==
  ASSUME NEW T, NEW s \in Seq(T), NEW u \in Seq(T)
  PROVE  /\ Distinct(s) /\ Distinct(u) /\ Range(s) \cap Range(u) = {} => Distinct(s \o u)
         /\ \A x, y : Prec(s, x, y) => Prec(s \o u, x, y)
         /\ \A x, y : Prec(u, x, y) => Prec(s \o u, x, y)
         /\ \A x \in Range(s), y \in Range(u) : Prec(s \o u, x, y)
<1>1. PICK m \in Nat, n \in Nat : m = Len(s) /\ n = Len(u)
  OBVIOUS
<1>2. PICK w \in Seq(T) : w = s \o u
  BY ConcatProperties
<1>3. Len(w) = m + n /\ \A i \in 1..(m + n) : w[i] = IF i <= m THEN s[i] ELSE u[i - m]
  BY <1>1, <1>2, ConcatProperties
<1>4. /\ \A i \in 1..m : i \in 1..(m + n) /\ i <= m
      /\ \A i \in 1..n : i + m \in 1..(m + n) /\ ~(i + m <= m) /\ (i + m) - m = i
  OBVIOUS
<1>5. /\ \A i \in 1..m : i \in 1..(m + n) /\ w[i] = s[i]
      /\ \A i \in 1..n : i + m \in 1..(m + n) /\ w[i + m] = u[i]
  BY <1>3, <1>4
<1>6. DOMAIN s = 1..m /\ DOMAIN u = 1..n
  BY <1>1
<1>7. ASSUME Distinct(s), Distinct(u), Range(s) \cap Range(u) = {} PROVE Distinct(w)
  <2> SUFFICES ASSUME NEW i \in 1..(m + n), NEW j \in 1..(m + n), w[i] = w[j] PROVE i = j
    BY <1>3 DEF Distinct
  <2>1. \A a \in 1..(m + n) : \/ a \in 1..m /\ w[a] = s[a] /\ w[a] \in Range(s)
                              \/ a - m \in 1..n /\ w[a] = u[a - m] /\ w[a] \in Range(u)
    <3> TAKE a \in 1..(m + n)
    <3>1. CASE a <= m
      <4>1. a \in 1..m
        BY <3>1
      <4> QED
        BY <1>5, <1>6, <4>1 DEF Range
    <3>2. CASE ~(a <= m)
      <4>1. a - m \in 1..n
        BY <3>2
      <4> QED
        BY <1>3, <1>6, <3>2, <4>1 DEF Range
    <3> QED
      BY <3>1, <3>2
  <2>2. CASE i \in 1..m /\ w[i] = s[i] /\ w[i] \in Range(s)
    <3>1. w[j] \notin Range(u)
      BY <1>7, <2>2
    <3>2. j \in 1..m /\ w[j] = s[j]
      BY <2>1, <3>1
    <3> QED
      BY <1>1, <1>7, <2>2, <3>2 DEF Distinct
  <2>3. CASE i - m \in 1..n /\ w[i] = u[i - m] /\ w[i] \in Range(u)
    <3>1. w[j] \notin Range(s)
      BY <1>7, <2>3
    <3>2. j - m \in 1..n /\ w[j] = u[j - m]
      BY <2>1, <3>1
    <3>3. i - m = j - m
      BY <1>1, <1>7, <2>3, <3>2 DEF Distinct
    <3> QED
      BY <3>3
  <2> QED
    BY <2>1, <2>2, <2>3
<1>8. ASSUME NEW x, NEW y, Prec(s, x, y) PROVE Prec(w, x, y)
  <2>1. PICK i \in 1..m, j \in 1..m : i < j /\ s[i] = x /\ s[j] = y
    BY <1>1, <1>8 DEF Prec
  <2> QED
    BY <1>3, <1>5, <2>1 DEF Prec
<1>9. ASSUME NEW x, NEW y, Prec(u, x, y) PROVE Prec(w, x, y)
  <2>1. PICK i \in 1..n, j \in 1..n : i < j /\ u[i] = x /\ u[j] = y
    BY <1>1, <1>9 DEF Prec
  <2>2. i + m < j + m
    BY <2>1
  <2> QED
    BY <1>3, <1>5, <2>1, <2>2 DEF Prec
<1>10. ASSUME NEW x \in Range(s), NEW y \in Range(u) PROVE Prec(w, x, y)
  <2>1. PICK i \in 1..m : s[i] = x
    BY <1>6 DEF Range
  <2>2. PICK j \in 1..n : u[j] = y
    BY <1>6 DEF Range
  <2>3. i < j + m
    OBVIOUS
  <2> QED
    BY <1>3, <1>5, <2>1, <2>2, <2>3 DEF Prec
<1> QED
  BY <1>2, <1>7, <1>8, <1>9, <1>10

\* A table backwards.
LEMMA ReversedIs ==
  ASSUME NEW T, NEW s \in Seq(T), NEW v, v = Reversed(s)
  PROVE  /\ v \in Seq(T) /\ Len(v) = Len(s) /\ Range(v) = Range(s)
         /\ Distinct(s) => Distinct(v)
         /\ \A i \in 1..Len(s) : i > 1 => Prec(v, s[i], s[i - 1])
<1>1. PICK n \in Nat : n = Len(s)
  OBVIOUS
<1>2. v = [i \in 1..n |-> s[n + 1 - i]]
  BY <1>1 DEF Reversed
<1>3. \A i \in 1..n : (n + 1 - i) \in 1..n /\ n + 1 - (n + 1 - i) = i
  OBVIOUS
<1>4. \A i \in 1..n : s[i] \in T
  BY <1>1
<1>5. v \in [1..n -> T] /\ \A i \in 1..n : v[i] = s[n + 1 - i]
  BY <1>2, <1>3, <1>4
<1>6. v \in Seq(T) /\ Len(v) = n
  BY <1>5, LenOf
<1>7. DOMAIN v = 1..n /\ DOMAIN s = 1..n
  BY <1>1, <1>2
<1>8. \A i \in 1..n : v[n + 1 - i] = s[i]
  BY <1>3, <1>5
<1>9. ASSUME NEW x \in Range(v) PROVE x \in Range(s)
  BY <1>3, <1>5, <1>7 DEF Range
<1>10. ASSUME NEW x \in Range(s) PROVE x \in Range(v)
  BY <1>3, <1>7, <1>8 DEF Range
<1>11. ASSUME Distinct(s), NEW i \in 1..n, NEW j \in 1..n, v[i] = v[j] PROVE i = j
  <2>1. PICK a \in 1..n, b \in 1..n : a = n + 1 - i /\ b = n + 1 - j
    BY <1>3
  <2>2. s[a] = s[b]
    BY <1>5, <1>11, <2>1
  <2>3. a = b
    BY <1>1, <1>11, <2>2 DEF Distinct
  <2> QED
    BY <2>1, <2>3
<1>12. ASSUME NEW i \in 1..n, i > 1 PROVE Prec(v, s[i], s[i - 1])
  <2>1. i - 1 \in 1..n /\ n + 1 - i < n + 1 - (i - 1)
    BY <1>12
  <2> QED
    BY <1>3, <1>6, <1>8, <2>1 DEF Prec
<1> QED
  BY <1>1, <1>6, <1>9, <1>10, <1>11, <1>12 DEF Distinct

\* What free does to the pool: one reference less for each block of r, and the
\* ones nobody refers to any more join the queue, those without a hash at its
\* front and those with one at its end.
Freed(r, fst, lst) ==
  /\ pool' \in PoolType /\ pool'.hash = pool.hash /\ pool'.stored = pool.stored
  /\ \A b \in Blocks : pool'.ref[b] = IF b \in Range(table[r]) THEN pool.ref[b] - 1
                                                              ELSE pool.ref[b]
  /\ fst \in Seq(Blocks) /\ lst \in Seq(Blocks) /\ Distinct(fst) /\ Distinct(lst)
  /\ pool'.free = (fst \o pool.free) \o lst
  /\ \A b \in Blocks : b \in Range(fst) <=>
       b \in Range(table[r]) /\ pool'.ref[b] = 0 /\ pool.hash[b] = NoHash
  /\ \A b \in Blocks : b \in Range(lst) <=>
       b \in Range(table[r]) /\ pool'.ref[b] = 0 /\ pool.hash[b] # NoHash
  /\ \A i \in 1..Len(table[r]) :
       i > 1 /\ table[r][i] \in Range(lst) /\ table[r][i - 1] \in Range(lst) =>
         Prec(lst, table[r][i], table[r][i - 1])
  /\ table' = [table EXCEPT ![r] = <<>>]
  /\ cached' = [cached EXCEPT ![r] = 0]
  /\ computed' = [computed EXCEPT ![r] = 0]

\* The handler free.
LEMMA FreeIs ==
  ASSUME TypeOK, RefInv, TableInv, NEW r \in Requests, Free(r)
  PROVE  \E fst, lst : Freed(r, fst, lst)
<1>1. PICK v : v = Reversed(table[r])
  OBVIOUS
<1>2. table[r] \in Seq(Blocks) /\ Distinct(table[r])
  BY Types DEF TableInv
<1>3. /\ v \in Seq(Blocks) /\ Range(v) = Range(table[r]) /\ Distinct(v)
      /\ \A i \in 1..Len(table[r]) : i > 1 => Prec(v, table[r][i], table[r][i - 1])
  BY <1>1, <1>2, ReversedIs
<1>4. PICK R : R = [b \in Blocks |-> IF b \in Range(v) THEN pool.ref[b] - 1 ELSE pool.ref[b]]
  OBVIOUS
<1>5. PICK L : L = {b \in Blocks : R[b] = 0 /\ pool.hash[b] # NoHash}
  OBVIOUS
<1>6. PICK F : F = {b \in Blocks : R[b] = 0 /\ pool.hash[b] = NoHash}
  OBVIOUS
<1>7. PICK fst : fst = Taken(v, F)
  OBVIOUS
<1>8. PICK lst : lst = Taken(v, L)
  OBVIOUS
<1>9. pool' = [pool EXCEPT !.ref = R, !.free = (fst \o pool.free) \o lst]
  <2>1. pool' = FreeBlocks(pool, v)
    BY <1>1 DEF Free
  <2>2. FreeBlocks(pool, v) = [pool EXCEPT !.ref = R,
          !.free = Queue!AfterAppendN(Queue!AfterPrependN(pool.free, Queue!Keep(v, F)),
                                      Queue!Keep(v, L))]
    BY <1>4, <1>5, <1>6 DEF FreeBlocks
  <2> QED
    BY <1>7, <1>8, <2>1, <2>2 DEF Taken, Queue!AfterAppendN, Queue!AfterPrependN
<1>10. fst \in Seq(Blocks) /\ lst \in Seq(Blocks)
  BY <1>3, <1>7, <1>8, KeepFacts
<1>11. Range(fst) = Range(v) \cap F /\ Range(lst) = Range(v) \cap L
  BY <1>3, <1>7, <1>8, KeepRange
<1>12. Distinct(fst)
  BY <1>3, <1>7, KeepOrder
<1>13. Distinct(lst)
  BY <1>3, <1>8, KeepOrder
<1>14. ASSUME NEW i \in 1..Len(table[r]), i > 1, table[r][i] \in Range(lst),
              table[r][i - 1] \in Range(lst)
       PROVE  Prec(lst, table[r][i], table[r][i - 1])
  <2>1. PICK x, y : x = table[r][i] /\ y = table[r][i - 1]
    OBVIOUS
  <2>2. Prec(v, x, y) /\ x \in L /\ y \in L
    BY <1>3, <1>11, <1>14, <2>1
  <2>3. PICK a \in 1..Len(v), b \in 1..Len(v) : a < b /\ v[a] = x /\ v[b] = y
    BY <2>2 DEF Prec
  <2>4. v[a] \in L /\ v[b] \in L
    BY <2>2, <2>3
  <2>5. \E c, d \in 1..Len(Taken(v, L)) :
          c < d /\ Taken(v, L)[c] = v[a] /\ Taken(v, L)[d] = v[b]
    <3>1. v \in Seq(Blocks) /\ Distinct(v)
      BY <1>3
    <3>2. \A x1, x2 \in 1..Len(v) : x1 < x2 /\ v[x1] \in L /\ v[x2] \in L =>
            \E c, d \in 1..Len(Taken(v, L)) :
              c < d /\ Taken(v, L)[c] = v[x1] /\ Taken(v, L)[d] = v[x2]
      BY <3>1, KeepOrder
    <3> QED
      BY <2>3, <2>4, <3>2
  <2>6. Prec(lst, x, y)
    BY <1>8, <2>3, <2>5 DEF Prec
  <2> QED
    BY <2>1, <2>6
<1>15. R \in [Blocks -> Nat]
  <2>1. ASSUME NEW b \in Blocks PROVE R[b] \in Nat
    <3>1. pool.ref[b] \in Nat
      BY Types
    <3>2. b \in Range(v) => pool.ref[b] > 0
      BY <1>3, HeldRef
    <3> QED
      BY <1>4, <3>1, <3>2
  <2> QED
    BY <1>4, <2>1
<1>16. PICK f : f = (fst \o pool.free) \o lst
  OBVIOUS
<1>17. f \in Seq(Blocks)
  <2>1. pool.free \in Seq(Blocks)
    BY Types
  <2>2. fst \o pool.free \in Seq(Blocks)
    BY <1>10, <2>1, ConcatProperties
  <2> QED
    BY <1>10, <1>16, <2>2, ConcatProperties
<1>18. pool \in PoolType
  BY Types
<1>19. pool' = [free |-> f, ref |-> R, hash |-> pool.hash, map |-> pool.map,
                stored |-> pool.stored]
  BY <1>9, <1>16, <1>18 DEF PoolType
<1>20. pool' \in PoolType
  BY <1>15, <1>17, <1>18, <1>19 DEF PoolType
<1>21. /\ pool'.hash = pool.hash /\ pool'.stored = pool.stored /\ pool'.free = f
       /\ pool'.ref = R
  BY <1>19
<1>22. \A b \in Blocks : R[b] = IF b \in Range(table[r]) THEN pool.ref[b] - 1
                                                        ELSE pool.ref[b]
  BY <1>3, <1>4
<1>23. \A b \in Blocks : /\ b \in Range(fst) <=>
                              b \in Range(table[r]) /\ R[b] = 0 /\ pool.hash[b] = NoHash
                         /\ b \in Range(lst) <=>
                              b \in Range(table[r]) /\ R[b] = 0 /\ pool.hash[b] # NoHash
  BY <1>3, <1>5, <1>6, <1>11
<1>24. /\ table' = [table EXCEPT ![r] = <<>>] /\ cached' = [cached EXCEPT ![r] = 0]
       /\ computed' = [computed EXCEPT ![r] = 0]
  BY DEF Free
<1>25. Freed(r, fst, lst)
  BY <1>10, <1>12, <1>13, <1>14, <1>16, <1>20, <1>21, <1>22, <1>23, <1>24 DEF Freed
<1> QED
  BY <1>25

\* References are places in tables after a release.
LEMMA FreedRef ==
  ASSUME TypeOK, RefInv, NEW r \in Requests, NEW fst, NEW lst, Freed(r, fst, lst)
  PROVE  RefInv'
<1>1. /\ \A b \in Blocks : pool'.ref[b] = IF b \in Range(table[r]) THEN pool.ref[b] - 1
                                                                  ELSE pool.ref[b]
      /\ fst \in Seq(Blocks) /\ lst \in Seq(Blocks) /\ Distinct(fst) /\ Distinct(lst)
      /\ pool'.free = (fst \o pool.free) \o lst
      /\ \A b \in Blocks : b \in Range(fst) <=>
           b \in Range(table[r]) /\ pool'.ref[b] = 0 /\ pool.hash[b] = NoHash
      /\ \A b \in Blocks : b \in Range(lst) <=>
           b \in Range(table[r]) /\ pool'.ref[b] = 0 /\ pool.hash[b] # NoHash
      /\ table' = [table EXCEPT ![r] = <<>>]
  BY DEF Freed
<1>2. \A s \in Requests : table'[s] = IF s = r THEN <<>> ELSE table[s]
  BY <1>1, Types
<1>3. ASSUME NEW b \in Blocks PROVE pool'.ref[b] = Cardinality(Holders(b)')
  <2>1. PICK D : D = Holders(b)'
    OBVIOUS
  <2>2. D = {s \in Requests : s # r /\ b \in Range(table[s])}
    BY <1>2, <2>1 DEF Holders, Range
  <2>3. D \subseteq Requests /\ r \notin D
    BY <2>2
  <2>4. CASE b \in Range(table[r])
    <3>1. Holders(b) = D \cup {r}
      BY <2>2, <2>4 DEF Holders
    <3>2. PICK c \in Nat : c = Cardinality(D) /\ Cardinality(D \cup {r}) = c + 1
      BY <2>3, OneMore
    <3>3. pool.ref[b] = c + 1
      BY <3>1, <3>2 DEF RefInv
    <3> QED
      BY <1>1, <2>1, <2>4, <3>2, <3>3
  <2>5. CASE b \notin Range(table[r])
    <3>1. Holders(b) = D
      BY <2>2, <2>5 DEF Holders
    <3> QED
      BY <1>1, <2>1, <2>5, <3>1 DEF RefInv
  <2> QED
    BY <2>4, <2>5
<1>4. pool.free \in Seq(Blocks) /\ Distinct(pool.free)
  BY Types DEF RefInv
<1>5. PICK g \in Seq(Blocks) : g = fst \o pool.free
  BY <1>1, <1>4, ConcatProperties
<1>6. Range(g) = Range(fst) \cup Range(pool.free)
  BY <1>1, <1>4, <1>5, ConcatRange
<1>7. PICK f \in Seq(Blocks) : f = g \o lst
  BY <1>1, <1>5, ConcatProperties
<1>8. Range(f) = Range(g) \cup Range(lst)
  <2>1. lst \in Seq(Blocks) /\ g \in Seq(Blocks)
    BY <1>1
  <2>2. Range(g \o lst) = Range(g) \cup Range(lst)
    BY <2>1, ConcatRange
  <2> QED
    BY <1>7, <2>2
<1>9. ASSUME NEW b \in Blocks
      PROVE  b \in Range(pool.free) <=> pool.ref[b] = 0
  BY DEF RefInv
<1>10. ASSUME NEW b \in Blocks, b \in Range(table[r]) PROVE b \notin Range(pool.free)
  <2>1. pool.ref[b] > 0
    BY <1>10, HeldRef
  <2> QED
    BY <1>9, <2>1
<1>11. /\ \A b \in Range(fst) : b \in Blocks
       /\ \A b \in Range(lst) : b \in Blocks
  BY <1>1 DEF Range
<1>12. Range(fst) \cap Range(pool.free) = {}
  BY <1>1, <1>10, <1>11
<1>13. Range(g) \cap Range(lst) = {}
  BY <1>1, <1>6, <1>10, <1>11
<1>14. Distinct(g)
  BY <1>1, <1>4, <1>5, <1>12, ConcatOrder
<1>15. Distinct(f)
  BY <1>1, <1>5, <1>7, <1>13, <1>14, ConcatOrder
<1>16. ASSUME NEW b \in Blocks PROVE b \in Range(f) <=> pool'.ref[b] = 0
  <2>1. CASE b \in Range(table[r])
    BY <1>1, <1>6, <1>8, <1>10, <2>1
  <2>2. CASE b \notin Range(table[r])
    BY <1>1, <1>6, <1>8, <1>9, <2>2
  <2> QED
    BY <2>1, <2>2
<1>17. pool'.free = f
  BY <1>1, <1>5, <1>7
<1> QED
  BY <1>3, <1>15, <1>16, <1>17 DEF RefInv

\* The eviction order after a release.
LEMMA FreedOrder ==
  ASSUME TypeOK, RefInv, StepInv, TableInv, OrderInv, NEW r \in Requests,
         NEW fst, NEW lst, Freed(r, fst, lst)
  PROVE  OrderInv'
<1>1. /\ \A b \in Blocks : pool'.ref[b] = IF b \in Range(table[r]) THEN pool.ref[b] - 1
                                                                  ELSE pool.ref[b]
      /\ fst \in Seq(Blocks) /\ lst \in Seq(Blocks)
      /\ pool'.free = (fst \o pool.free) \o lst /\ pool'.hash = pool.hash
      /\ \A b \in Blocks : b \in Range(lst) <=>
           b \in Range(table[r]) /\ pool'.ref[b] = 0 /\ pool.hash[b] # NoHash
      /\ \A i \in 1..Len(table[r]) :
           i > 1 /\ table[r][i] \in Range(lst) /\ table[r][i - 1] \in Range(lst) =>
             Prec(lst, table[r][i], table[r][i - 1])
      /\ pool' \in PoolType
  BY DEF Freed
<1>2. pool.free \in Seq(Blocks)
  BY Types
<1>3. PICK g \in Seq(Blocks) : g = fst \o pool.free
  BY <1>1, <1>2, ConcatProperties
<1>4. PICK f \in Seq(Blocks) : f = g \o lst /\ pool'.free = f
  BY <1>1, <1>3, ConcatProperties
<1>5. ASSUME NEW b, NEW c, Before(b, c) PROVE Before(b, c)'
  <2>1. Prec(pool.free, b, c)
    BY <1>5 DEF Before, Prec
  <2>2. Prec(g, b, c)
    BY <1>1, <1>2, <1>3, <2>1, ConcatOrder
  <2>3. Prec(f, b, c)
    BY <1>1, <1>3, <1>4, <2>2, ConcatOrder
  <2> QED
    BY <1>4, <2>3 DEF Before, Prec
<1>6. ASSUME NEW b \in Range(pool.free), NEW c \in Range(lst) PROVE Before(b, c)'
  <2>1. b \in Range(g)
    <3>1. Range(g) = Range(fst) \cup Range(pool.free)
      BY <1>1, <1>2, <1>3, ConcatRange
    <3> QED
      BY <3>1
  <2>2. Prec(f, b, c)
    BY <1>1, <1>3, <1>4, <2>1, ConcatOrder
  <2> QED
    BY <1>4, <2>2 DEF Before, Prec
<1>7. ASSUME NEW b, NEW c, Prec(lst, b, c) PROVE Before(b, c)'
  <2>1. Prec(f, b, c)
    BY <1>1, <1>3, <1>4, <1>7, ConcatOrder
  <2> QED
    BY <1>4, <2>1 DEF Before, Prec
<1> SUFFICES ASSUME NEW b \in Blocks, pool'.ref[b] = 0, NEW h, h = pool.hash[b],
                    h # NoHash, Len(h) > BlockSize
             PROVE  \E c \in Blocks :
                      /\ pool.hash[c] = SubSeq(h, 1, Len(h) - BlockSize)
                      /\ pool'.ref[c] > 0 \/ Before(b, c)'
  BY <1>1 DEF OrderInv
<1>8. PICK s \in Requests, d \in Nat : d >= 1 /\ Full(s, d) /\ h = Hash(s, d)
  <2>1. h \in Hashes
    BY Types
  <2> QED
    BY <2>1, HashOf
<1>9. /\ d > 1 /\ Full(s, d - 1)
      /\ SubSeq(h, 1, Len(h) - BlockSize) = Hash(s, d - 1)
  BY <1>8, HashParent
<1>10. \A c \in Blocks : pool'.ref[c] \in Nat
  BY <1>1 DEF PoolType
<1>11. CASE b \notin Range(table[r])
  <2>1. pool.ref[b] = 0
    BY <1>1, <1>11
  <2>2. PICK c \in Blocks : /\ pool.hash[c] = SubSeq(h, 1, Len(h) - BlockSize)
                            /\ pool.ref[c] > 0 \/ Before(b, c)
    BY <2>1 DEF OrderInv
  <2>3. CASE pool'.ref[c] > 0 \/ Before(b, c)
    BY <1>5, <2>2, <2>3
  <2>4. CASE ~(pool'.ref[c] > 0) /\ pool.ref[c] > 0
    <3>1. pool'.ref[c] = 0 /\ c \in Range(table[r])
      BY <1>1, <1>10, <2>4
    <3>2. pool.hash[c] # NoHash
      <4>1. d - 1 >= 1
        BY <1>8, <1>9
      <4> QED
        BY <1>9, <2>2, <4>1, HashLen, HashIsNotNoHash
    <3>3. c \in Range(lst)
      BY <1>1, <3>1, <3>2
    <3>4. b \in Range(pool.free)
      BY <2>1 DEF RefInv
    <3> QED
      BY <1>6, <2>2, <3>3, <3>4
  <2> QED
    BY <2>2, <2>3, <2>4
<1>12. CASE b \in Range(table[r])
  <2>1. table[r] \in Seq(Blocks)
    BY Types
  <2>2. PICK n \in Nat : n = Len(table[r])
    BY <2>1
  <2>3. PICK i \in 1..n : table[r][i] = b
    BY <1>12, <2>1, <2>2 DEF Range
  <2>4. cached[r] \in Nat
    BY Types
  <2>5. i <= cached[r]
    BY <2>2, <2>3 DEF TableInv
  <2>6. Full(r, i) /\ h = Hash(r, i)
    BY <2>2, <2>3, <2>5, CachedFull
  <2>7. i > 1
    <3>1. i >= 1
      OBVIOUS
    <3> QED
      BY <2>6, <3>1, HashParent
  <2>8. i - 1 \in 1..n /\ i - 1 <= cached[r]
    BY <2>4, <2>5, <2>7
  <2>9. PICK c : c = table[r][i - 1]
    OBVIOUS
  <2>10. c \in Blocks /\ c \in Range(table[r])
    BY <2>1, <2>2, <2>8, <2>9 DEF Range
  <2>11. pool.hash[c] = Hash(r, i - 1) /\ pool.hash[c] # NoHash
    BY <2>2, <2>8, <2>9, CachedFull
  <2>12. pool.hash[c] = SubSeq(h, 1, Len(h) - BlockSize)
    <3>1. i >= 1
      OBVIOUS
    <3> QED
      BY <2>6, <2>11, <3>1, HashParent
  <2>13. CASE pool'.ref[c] > 0
    BY <2>10, <2>12, <2>13
  <2>14. CASE pool'.ref[c] = 0
    <3>1. c \in Range(lst) /\ b \in Range(lst)
      BY <1>1, <1>12, <2>10, <2>11, <2>14
    <3>2. Prec(lst, b, c)
      BY <1>1, <2>2, <2>3, <2>7, <2>9, <3>1
    <3> QED
      BY <1>7, <2>10, <2>12, <3>2
  <2> QED
    BY <1>10, <2>10, <2>13, <2>14
<1> QED
  BY <1>11, <1>12

\* The other invariants after a release; the KV in the pool stays right if the
\* step was not about to write for r.
LEMMA FreedRest ==
  ASSUME TypeOK, NEW r \in Requests, NEW fst, NEW lst, Freed(r, fst, lst),
         sched' = [sched EXCEPT ![r] = 0], UNCHANGED content
  PROVE  /\ TableInv => TableInv'
         /\ ShareInv => ShareInv'
         /\ StoredInv => StoredInv'
         /\ sched[r] = 0 /\ CacheInv => CacheInv'
         /\ sched[r] = 0 /\ OwnInv => OwnInv'
<1>1. /\ \A s \in Requests : s # r =>
           /\ table'[s] = table[s] /\ cached'[s] = cached[s]
           /\ computed'[s] = computed[s] /\ sched'[s] = sched[s]
      /\ table'[r] = <<>> /\ cached'[r] = 0 /\ computed'[r] = 0 /\ sched'[r] = 0
  <2>1. /\ table' = [table EXCEPT ![r] = <<>>] /\ cached' = [cached EXCEPT ![r] = 0]
        /\ computed' = [computed EXCEPT ![r] = 0]
    BY DEF Freed
  <2> QED
    BY <2>1, Types
<1>2. pool'.hash = pool.hash /\ pool'.stored = pool.stored
  BY DEF Freed
<1>3. BlockSize \in Nat /\ BlockSize > 0 /\ 0 * BlockSize = 0
  BY PoolAssumption
<1>4. \A s \in Requests : \A i \in 1..Len(table'[s]) : s # r
  BY <1>1
<1>5. ASSUME TableInv PROVE TableInv'
  <2> SUFFICES ASSUME NEW s \in Requests
               PROVE  /\ Distinct(table'[s])
                      /\ computed'[s] + sched'[s] <= Len(table'[s]) * BlockSize
                      /\ cached'[s] * BlockSize <= computed'[s] + sched'[s]
                      /\ computed'[s] + sched'[s] < cached'[s] * BlockSize + BlockSize
                      /\ \A i \in 1..Len(table'[s]) :
                           pool'.hash[table'[s][i]] =
                             IF i <= cached'[s] THEN Hash(s, i) ELSE NoHash
    BY DEF TableInv
  <2>1. CASE s = r
    <3>1. Distinct(<<>>) /\ Len(<<>>) = 0
      BY DEF Distinct
    <3> QED
      BY <1>1, <1>3, <2>1, <3>1
  <2>2. CASE s # r
    BY <1>1, <1>2, <1>5, <2>2 DEF TableInv
  <2> QED
    BY <2>1, <2>2
<1>6. ASSUME ShareInv PROVE ShareInv'
  <2> SUFFICES ASSUME NEW s \in Requests, NEW x \in Requests, s # x,
                      NEW i \in 1..Len(table'[s]), NEW j \in 1..Len(table'[x]),
                      table'[s][i] = table'[x][j]
               PROVE  /\ i <= cached'[s]
                      /\ i * BlockSize <= computed'[s] \/ j * BlockSize <= computed'[x]
    BY DEF ShareInv
  <2>1. s # r /\ x # r
    BY <1>4
  <2>2. /\ table'[s] = table[s] /\ cached'[s] = cached[s] /\ computed'[s] = computed[s]
        /\ table'[x] = table[x] /\ computed'[x] = computed[x]
    BY <1>1, <2>1
  <2> QED
    BY <1>6, <2>2 DEF ShareInv
<1>7. ASSUME StoredInv PROVE StoredInv'
  BY <1>2, <1>7 DEF StoredInv
<1>8. ASSUME sched[r] = 0, NEW b, NEW h, Due(b, h) PROVE Due(b, h)'
  <2>1. PICK s \in Requests : \E i \in 1..Len(table[s]) :
                                 /\ table[s][i] = b /\ Hash(s, i) = h
                                 /\ computed[s] < i * BlockSize
                                 /\ i * BlockSize <= computed[s] + sched[s]
    BY <1>8 DEF Due
  <2>2. PICK i \in 1..Len(table[s]) : /\ table[s][i] = b /\ Hash(s, i) = h
                                      /\ computed[s] < i * BlockSize
                                      /\ i * BlockSize <= computed[s] + sched[s]
    BY <2>1
  <2>3. s # r
    <3> SUFFICES ASSUME s = r PROVE FALSE
      OBVIOUS
    <3>1. computed[s] \in Nat /\ i \in Nat
      <4>1. Len(table[s]) \in Nat
        BY Types
      <4> QED
        BY <4>1, Types
    <3>2. i * BlockSize \in Nat
      BY <3>1, Times
    <3> QED
      BY <1>8, <2>2, <3>1, <3>2
  <2> QED
    BY <1>1, <2>2, <2>3 DEF Due
<1>9. ASSUME sched[r] = 0, CacheInv PROVE CacheInv'
  <2> SUFFICES ASSUME NEW b \in Blocks, NEW h, h = pool.hash[b], h # NoHash
               PROVE  content[b] = h \/ Due(b, h)'
    BY <1>2 DEF CacheInv, Due
  <2>1. content[b] = h \/ Due(b, h)
    BY <1>9 DEF CacheInv
  <2> QED
    BY <1>8, <1>9, <2>1
<1>10. ASSUME sched[r] = 0, OwnInv PROVE OwnInv'
  <2> SUFFICES ASSUME NEW s \in Requests, NEW i \in 1..Len(table'[s]),
                      (i - 1) * BlockSize < computed'[s], NEW b, b = table'[s][i]
               PROVE  \/ content[b] = Prefix(s, MinOf(i * BlockSize, computed'[s]))
                      \/ i * BlockSize <= computed'[s] /\ Due(b, Hash(s, i))'
    BY DEF OwnInv, Due
  <2>1. s # r
    BY <1>4
  <2>2. table'[s] = table[s] /\ computed'[s] = computed[s]
    BY <1>1, <2>1
  <2>3. \/ content[b] = Prefix(s, MinOf(i * BlockSize, computed[s]))
        \/ i * BlockSize <= computed[s] /\ Due(b, Hash(s, i))
    BY <1>10, <2>2 DEF OwnInv
  <2>4. Due(b, Hash(s, i)) => Due(b, Hash(s, i))'
    BY <1>8, <1>10
  <2> QED
    BY <2>2, <2>3, <2>4
<1> QED
  BY <1>5, <1>6, <1>7, <1>9, <1>10

-----------------------------------------------------------------------------
(***************************************************************************)
(* The model run preserves the invariants.                                 *)
(***************************************************************************)
\* The step writes KV of r into b, which is block i of its table.
Writes(r, i, b) ==
  /\ i \in 1..Len(table[r]) /\ table[r][i] = b /\ sched[r] > 0
  /\ computed[r] < i * BlockSize /\ (i - 1) * BlockSize < computed[r] + sched[r]

\* A block has one writer, which writes it as one of its blocks.
LEMMA OneWriter ==
  ASSUME TypeOK, TableInv, ShareInv, NEW r \in Requests, NEW s \in Requests,
         NEW i, NEW j, NEW b, Writes(r, i, b), Writes(s, j, b)
  PROVE  r = s /\ i = j
<1>1. /\ i \in 1..Len(table[r]) /\ table[r][i] = b /\ computed[r] < i * BlockSize
      /\ j \in 1..Len(table[s]) /\ table[s][j] = b /\ computed[s] < j * BlockSize
  BY DEF Writes
<1>2. r = s
  <2> SUFFICES ASSUME r # s PROVE FALSE
    OBVIOUS
  <2>1. i * BlockSize <= computed[r] \/ j * BlockSize <= computed[s]
    BY <1>1 DEF ShareInv
  <2>2. i \in Nat /\ j \in Nat /\ computed[r] \in Nat /\ computed[s] \in Nat
    <3>1. Len(table[r]) \in Nat /\ Len(table[s]) \in Nat
      BY Types
    <3> QED
      BY <1>1, <3>1, Types
  <2>3. i * BlockSize \in Nat /\ j * BlockSize \in Nat
    BY <2>2, Times
  <2> QED
    BY <1>1, <2>1, <2>2, <2>3
<1>3. i = j
  <2>1. Distinct(table[r])
    BY DEF TableInv
  <2> QED
    BY <1>1, <1>2, <2>1 DEF Distinct
<1> QED
  BY <1>2, <1>3

\* What the model leaves in a block.
LEMMA WrittenIs ==
  ASSUME TypeOK, TableInv, ShareInv, NEW b \in Blocks
  PROVE  /\ (\A r \in Requests : \A i \in 1..Len(table[r]) : ~Writes(r, i, b)) =>
              Written(b) = content[b]
         /\ \A r \in Requests : \A i \in 1..Len(table[r]) : Writes(r, i, b) =>
              Written(b) = Prefix(r, MinOf(i * BlockSize, computed[r] + sched[r]))
<1> DEFINE last(r) == computed[r] + sched[r]
           in(r) == {i \in computed[r] \div BlockSize + 1 .. Cdiv(last(r), BlockSize) :
                       sched[r] > 0 /\ table[r][i] = b}
           KV(r) == Prefix(r, MinOf((CHOOSE i \in in(r) : TRUE) * BlockSize, last(r)))
           writers == {r \in Requests : in(r) # {}}
<1>1. Written(b) = CASE writers = {} -> content[b]
                     [] Cardinality(writers) = 1 -> KV(CHOOSE r \in writers : TRUE)
                     [] OTHER -> <<>>
  BY DEF Written
<1>2. ASSUME NEW r \in Requests, NEW i
      PROVE  i \in in(r) <=> Writes(r, i, b)
  <2>1. PICK c \in Nat, d \in Nat, l \in Nat :
          c = computed[r] /\ d = last(r) /\ l = Len(table[r])
    <3>1. computed[r] \in Nat /\ sched[r] \in Nat /\ Len(table[r]) \in Nat
      BY Types
    <3> QED
      BY <3>1
  <2>2. d <= l * BlockSize
    BY <2>1 DEF TableInv
  <2>3. PICK a \in Nat, e \in Nat : a = c \div BlockSize /\ e = Cdiv(d, BlockSize)
    BY Divides
  <2>4. i \in in(r) <=> i \in a + 1 .. e /\ sched[r] > 0 /\ table[r][i] = b
    BY <2>1, <2>3
  <2>5. ASSUME i \in Nat, i >= 1
        PROVE  /\ i \in a + 1 .. e <=> c < i * BlockSize /\ (i - 1) * BlockSize < d
               /\ (i - 1) * BlockSize < d => i \in 1..l
    <3>1. i <= a <=> i * BlockSize <= c
      BY <2>3, <2>5, FloorIs
    <3>2. i - 1 \in Nat
      BY <2>5
    <3>3. i - 1 < e <=> (i - 1) * BlockSize < d
      BY <2>3, <3>2, CeilingIs
    <3>4. i * BlockSize \in Nat /\ (i - 1) * BlockSize \in Nat /\ l * BlockSize \in Nat
      BY <2>5, <3>2, Times
    <3>5. i \in a + 1 .. e <=> c < i * BlockSize /\ (i - 1) * BlockSize < d
      BY <2>5, <3>1, <3>3, <3>4
    <3>6. ASSUME (i - 1) * BlockSize < d PROVE i \in 1..l
      <4>1. (i - 1) * BlockSize < l * BlockSize
        BY <2>2, <3>4, <3>6
      <4>2. i - 1 < l
        BY <3>2, <4>1, Times
      <4> QED
        BY <2>5, <4>2
    <3> QED
      BY <3>5, <3>6
  <2>6. i \in a + 1 .. e => i \in Nat /\ i >= 1
    OBVIOUS
  <2>7. i \in 1..l => i \in Nat /\ i >= 1
    OBVIOUS
  <2> QED
    BY <2>1, <2>4, <2>5, <2>6, <2>7 DEF Writes
<1> HIDE DEF in
<1>3. \A r \in Requests : \A i : Writes(r, i, b) => i \in 1..Len(table[r])
  BY DEF Writes
<1>4. ASSUME \A r \in Requests : \A i \in 1..Len(table[r]) : ~Writes(r, i, b)
      PROVE  Written(b) = content[b]
  <2>1. writers = {}
    BY <1>2, <1>3, <1>4
  <2>2. Cardinality(writers) # 1
    BY <2>1, FS_EmptySet
  <2> HIDE DEF writers, KV
  <2> QED
    BY <1>1, <2>1, <2>2
<1>5. ASSUME NEW r \in Requests, NEW i \in 1..Len(table[r]), Writes(r, i, b)
      PROVE  Written(b) = Prefix(r, MinOf(i * BlockSize, computed[r] + sched[r]))
  <2>1. ASSUME NEW s \in Requests, NEW j PROVE j \in in(s) => s = r /\ j = i
    BY <1>2, <1>5, OneWriter
  <2>2. i \in in(r)
    BY <1>2, <1>5
  <2>3. in(r) = {i}
    BY <2>1, <2>2
  <2>4. writers = {r}
    BY <2>1, <2>2
  <2>5. (CHOOSE x \in in(r) : TRUE) = i
    BY <2>3
  <2>6. KV(r) = Prefix(r, MinOf(i * BlockSize, computed[r] + sched[r]))
    BY <2>5
  <2>7. (CHOOSE x \in writers : TRUE) = r
    BY <2>4
  <2>8. Cardinality(writers) = 1 /\ writers # {}
    BY <2>4, FS_Singleton
  <2> HIDE DEF writers, KV
  <2> QED
    BY <1>1, <2>6, <2>7, <2>8
<1> QED
  BY <1>4, <1>5

\* A cached block that is written gets what its hash says.
LEMMA WrittenHash ==
  ASSUME TypeOK, StepInv, TableInv, ShareInv, NEW b \in Blocks, pool.hash[b] # NoHash,
         NEW r \in Requests, NEW i, Writes(r, i, b)
  PROVE  Written(b) = pool.hash[b]
<1>1. i \in 1..Len(table[r]) /\ table[r][i] = b
  BY DEF Writes
<1>2. Written(b) = Prefix(r, MinOf(i * BlockSize, computed[r] + sched[r]))
  BY <1>1, WrittenIs
<1>3. i <= cached[r]
  BY <1>1 DEF TableInv
<1>4. pool.hash[b] = Hash(r, i)
  BY <1>1, <1>3, CachedFull
<1>5. PICK c \in Nat, d \in Nat : c = cached[r] /\ d = computed[r] + sched[r]
  BY Types
<1>6. i \in Nat
  <2>1. Len(table[r]) \in Nat
    BY Types
  <2> QED
    BY <1>1, <2>1
<1>7. i * BlockSize <= c * BlockSize /\ i * BlockSize \in Nat /\ c * BlockSize \in Nat
  BY <1>3, <1>5, <1>6, Times
<1>8. c * BlockSize <= d
  BY <1>5 DEF TableInv
<1>9. MinOf(i * BlockSize, d) = i * BlockSize
  BY <1>7, <1>8 DEF MinOf
<1> QED
  BY <1>2, <1>4, <1>5, <1>9 DEF Hash

\* Block i of r that the step is to write is one that it writes.
LEMMA DueWrites ==
  ASSUME TypeOK, NEW b, NEW h, Due(b, h)
  PROVE  \E r \in Requests : \E i \in 1..Len(table[r]) : Writes(r, i, b)
<1>1. PICK r \in Requests : \E i \in 1..Len(table[r]) :
                               /\ table[r][i] = b /\ Hash(r, i) = h
                               /\ computed[r] < i * BlockSize
                               /\ i * BlockSize <= computed[r] + sched[r]
  BY DEF Due
<1>2. PICK i \in 1..Len(table[r]) : /\ table[r][i] = b
                                    /\ computed[r] < i * BlockSize
                                    /\ i * BlockSize <= computed[r] + sched[r]
  BY <1>1
<1>3. PICK c \in Nat, d \in Nat : c = computed[r] /\ d = sched[r]
  BY Types
<1>4. i \in Nat /\ i >= 1 /\ i - 1 \in Nat
  <2>1. Len(table[r]) \in Nat
    BY Types
  <2> QED
    BY <2>1
<1>5. i * BlockSize \in Nat
  BY <1>4, Times
<1>6. (i - 1) * BlockSize \in Nat /\ (i - 1) * BlockSize < i * BlockSize
  <2>1. i - 1 < i
    BY <1>4
  <2> QED
    BY <1>4, <2>1, Times
<1>7. d > 0 /\ (i - 1) * BlockSize < c + d
  BY <1>2, <1>3, <1>5, <1>6
<1> QED
  BY <1>2, <1>3, <1>7 DEF Writes

\* The model run.
LEMMA ExecuteKeeps ==
  ASSUME TypeOK, StepInv, TableInv, ShareInv, Execute
  PROVE  /\ RefInv => RefInv'
         /\ TableInv' /\ ShareInv'
         /\ StoredInv => StoredInv'
         /\ OrderInv => OrderInv'
         /\ CacheInv => CacheInv'
         /\ OwnInv => OwnInv'
<1>1. /\ content' = [b \in Blocks |-> Written(b)]
      /\ computed' = [r \in Requests |-> computed[r] + sched[r]]
      /\ sched' = [r \in Requests |-> 0]
      /\ pool' = pool /\ table' = table /\ cached' = cached
  BY DEF Execute, tables
<1>2. \A r \in Requests : computed'[r] = computed[r] + sched[r] /\ sched'[r] = 0
  BY <1>1
<1>3. \A b \in Blocks : content'[b] = Written(b)
  BY <1>1
<1>4. \A r \in Requests : /\ computed[r] \in Nat /\ sched[r] \in Nat
                          /\ computed'[r] \in Nat /\ computed[r] <= computed'[r]
                          /\ computed'[r] + sched'[r] = computed[r] + sched[r]
  <2> TAKE r \in Requests
  <2>1. computed[r] \in Nat /\ sched[r] \in Nat
    BY Types
  <2> QED
    BY <1>2, <2>1
<1>5. ASSUME RefInv PROVE RefInv'
  BY <1>1, <1>5 DEF RefInv, Holders
<1>6. TableInv'
  BY <1>1, <1>4 DEF TableInv
<1>7. ShareInv'
  <2> SUFFICES ASSUME NEW r \in Requests, NEW s \in Requests,
                      NEW i \in 1..Len(table[r]), NEW j \in 1..Len(table[s]),
                      r # s, table[r][i] = table[s][j]
               PROVE  /\ i <= cached[r]
                      /\ i * BlockSize <= computed'[r] \/ j * BlockSize <= computed'[s]
    BY <1>1 DEF ShareInv
  <2>1. /\ i <= cached[r]
        /\ i * BlockSize <= computed[r] \/ j * BlockSize <= computed[s]
    BY DEF ShareInv
  <2>2. i \in Nat /\ j \in Nat
    <3>1. table[r] \in Seq(Blocks) /\ table[s] \in Seq(Blocks)
      BY Types
    <3> QED
      BY <3>1
  <2>3. i * BlockSize \in Nat /\ j * BlockSize \in Nat
    BY <2>2, Times
  <2> QED
    BY <1>4, <2>1, <2>3
<1>8. ASSUME StoredInv PROVE StoredInv'
  BY <1>1, <1>8 DEF StoredInv
<1>9. ASSUME OrderInv PROVE OrderInv'
  BY <1>1, <1>9 DEF OrderInv, Before
<1>10. ASSUME CacheInv PROVE CacheInv'
  <2> SUFFICES ASSUME NEW b \in Blocks, pool.hash[b] # NoHash
               PROVE  Written(b) = pool.hash[b]
    BY <1>1, <1>3 DEF CacheInv
  <2>1. CASE \E r \in Requests : \E i \in 1..Len(table[r]) : Writes(r, i, b)
    BY <2>1, WrittenHash
  <2>2. CASE ~\E r \in Requests : \E i \in 1..Len(table[r]) : Writes(r, i, b)
    <3>1. Written(b) = content[b]
      BY <2>2, WrittenIs
    <3>2. ~Due(b, pool.hash[b])
      BY <2>2, DueWrites
    <3> QED
      BY <1>10, <3>1, <3>2 DEF CacheInv
  <2> QED
    BY <2>1, <2>2
<1>11. ASSUME OwnInv PROVE OwnInv'
  <2> SUFFICES ASSUME NEW r \in Requests, NEW i \in 1..Len(table[r]),
                      (i - 1) * BlockSize < computed'[r], NEW b, b = table[r][i]
               PROVE  Written(b) = Prefix(r, MinOf(i * BlockSize, computed'[r]))
    <3>1. ASSUME NEW r \in Requests, NEW i \in 1..Len(table[r]) PROVE table[r][i] \in Blocks
      BY Types
    <3> QED
      BY <1>1, <1>3, <3>1 DEF OwnInv
  <2>1. PICK c \in Nat, d \in Nat : c = computed[r] /\ d = sched[r]
    BY <1>4
  <2>2. computed'[r] = c + d
    BY <1>2, <2>1
  <2>3. i \in Nat /\ i >= 1 /\ i - 1 \in Nat /\ b \in Blocks
    <3>1. Len(table[r]) \in Nat /\ table[r] \in Seq(Blocks)
      BY Types
    <3> QED
      BY <3>1
  <2>4. i * BlockSize \in Nat /\ (i - 1) * BlockSize \in Nat
        /\ (i - 1) * BlockSize < i * BlockSize
    <3>1. i - 1 < i
      BY <2>3
    <3> QED
      BY <2>3, <3>1, Times
  <2>5. CASE Writes(r, i, b)
    <3>1. Written(b) = Prefix(r, MinOf(i * BlockSize, computed[r] + sched[r]))
      BY <2>3, <2>5, WrittenIs
    <3> QED
      BY <2>1, <2>2, <3>1
  <2>6. CASE ~Writes(r, i, b) /\ i * BlockSize <= c
    <3>1. MinOf(i * BlockSize, c + d) = i * BlockSize /\ MinOf(i * BlockSize, c) = i * BlockSize
      BY <2>4, <2>6 DEF MinOf
    <3>2. (i - 1) * BlockSize < computed[r]
      BY <2>1, <2>4, <2>6
    <3>3. content[b] = Prefix(r, i * BlockSize) \/ Due(b, Hash(r, i))
      BY <1>11, <2>1, <3>1, <3>2 DEF OwnInv
    <3>4. CASE \E s \in Requests : \E j \in 1..Len(table[s]) : Writes(s, j, b)
      <4>1. PICK s \in Requests : \E j \in 1..Len(table[s]) : Writes(s, j, b)
        BY <3>4
      <4>2. PICK j \in 1..Len(table[s]) : Writes(s, j, b)
        BY <4>1
      <4>3. s # r
        <5> SUFFICES ASSUME s = r PROVE FALSE
          OBVIOUS
        <5>1. table[r][j] = b /\ Distinct(table[r])
          BY <4>2 DEF Writes, TableInv
        <5>2. i = j
          BY <5>1 DEF Distinct
        <5> QED
          BY <2>6, <4>2, <5>2
      <4>4. i <= cached[r]
        <5>1. table[s][j] = table[r][i]
          BY <4>2 DEF Writes
        <5> QED
          BY <4>3, <5>1 DEF ShareInv
      <4>5. pool.hash[b] = Hash(r, i) /\ pool.hash[b] # NoHash
        BY <4>4, CachedFull
      <4>6. Written(b) = Hash(r, i)
        BY <2>3, <4>2, <4>5, WrittenHash
      <4> QED
        BY <2>2, <3>1, <4>6 DEF Hash
    <3>5. CASE ~\E s \in Requests : \E j \in 1..Len(table[s]) : Writes(s, j, b)
      <4>1. Written(b) = content[b]
        BY <2>3, <3>5, WrittenIs
      <4>2. ~Due(b, Hash(r, i))
        BY <3>5, DueWrites
      <4> QED
        BY <2>2, <3>1, <3>3, <4>1, <4>2
    <3> QED
      BY <3>4, <3>5
  <2>7. CASE ~Writes(r, i, b) /\ c < i * BlockSize
    <3>1. d = 0
      BY <1>2, <2>1, <2>2, <2>7 DEF Writes
    <3>2. (i - 1) * BlockSize < computed[r] /\ c + d = c
      BY <2>1, <2>2, <3>1
    <3>3. ~(i * BlockSize <= computed[r])
      BY <2>1, <2>4, <2>7
    <3>4. content[b] = Prefix(r, MinOf(i * BlockSize, c))
      BY <1>11, <2>1, <3>2, <3>3 DEF OwnInv
    <3>5. ASSUME NEW s \in Requests, NEW j \in 1..Len(table[s]), Writes(s, j, b)
          PROVE  FALSE
      <4>1. s # r
        <5>1. sched[s] > 0 /\ sched[r] = 0
          BY <2>1, <3>1, <3>5 DEF Writes
        <5> QED
          BY <5>1
      <4>2. table[s][j] = table[r][i]
        BY <3>5 DEF Writes
      <4>3. i <= cached[r]
        BY <4>1, <4>2 DEF ShareInv
      <4>4. PICK e \in Nat : e = cached[r]
        BY Types
      <4>5. i * BlockSize <= e * BlockSize /\ e * BlockSize \in Nat
        BY <2>3, <4>3, <4>4, Times
      <4>6. e * BlockSize <= c + d
        BY <2>1, <4>4 DEF TableInv
      <4> QED
        BY <2>4, <2>7, <3>2, <4>5, <4>6
    <3>6. Written(b) = content[b]
      BY <2>3, <3>5, WrittenIs
    <3> QED
      BY <2>2, <3>2, <3>4, <3>6
  <2> QED
    BY <2>4, <2>5, <2>6, <2>7
<1> QED
  BY <1>5, <1>6, <1>7, <1>8, <1>9, <1>10, <1>11

-----------------------------------------------------------------------------
(***************************************************************************)
(* A reset of the prefix cache.                                            *)
(***************************************************************************)
\* The free queue is as long as it can be when no table holds a block.
LEMMA AllFree ==
  ASSUME TypeOK, RefInv
  PROVE  ResetAllowed <=> \A r \in Requests : table[r] = <<>>
<1>1. pool.free \in Seq(Blocks) /\ Distinct(pool.free)
  BY Types DEF RefInv
<1>2. IsFiniteSet(Range(pool.free)) /\ Cardinality(Range(pool.free)) = Len(pool.free)
  BY <1>1, DistinctCardinality
<1>3. PICK N \in Nat : N >= 1 /\ N = NumBlocks
  BY PoolAssumption
<1>4. IsFiniteSet(Blocks) /\ Cardinality(Blocks) = N - 1
  <2>1. /\ IsFiniteSet(1 .. N - 1)
        /\ Cardinality(1 .. N - 1) = IF 1 > N - 1 THEN 0 ELSE (N - 1) - 1 + 1
    BY <1>3, FS_Interval
  <2> QED
    BY <1>3, <2>1 DEF Blocks
<1>5. PICK F : F = Range(pool.free)
  OBVIOUS
<1>6. F \in SUBSET Blocks
  BY <1>1, <1>5 DEF Range
<1>7. PICK l \in Nat : l = Len(pool.free)
  BY <1>1
<1>8. ResetAllowed <=> l = N - 1
  BY <1>3, <1>7 DEF ResetAllowed
<1>9. ResetAllowed <=> F = Blocks
  <2>1. Cardinality(F) = l
    BY <1>2, <1>5, <1>7
  <2>2. Cardinality(Blocks) = Cardinality(F) => Blocks = F
    BY <1>4, <1>6, FS_Subset
  <2> QED
    BY <1>4, <1>8, <2>1, <2>2
<1>10. F = Blocks <=> \A b \in Blocks : pool.ref[b] = 0
  BY <1>5, <1>6 DEF RefInv
<1>11. (\A b \in Blocks : pool.ref[b] = 0) <=> \A r \in Requests : table[r] = <<>>
  <2>1. ASSUME \A b \in Blocks : pool.ref[b] = 0, NEW r \in Requests
        PROVE  table[r] = <<>>
    <3> SUFFICES ASSUME table[r] # <<>> PROVE FALSE
      OBVIOUS
    <3>1. table[r] \in Seq(Blocks)
      BY Types
    <3>2. PICK n \in Nat : n = Len(table[r])
      BY <3>1
    <3>3. n >= 1
      BY <3>1, <3>2
    <3>4. 1 \in 1..n
      BY <3>3
    <3>5. table[r][1] \in Blocks /\ table[r][1] \in Range(table[r])
      BY <3>1, <3>2, <3>4 DEF Range
    <3>6. pool.ref[table[r][1]] > 0
      BY <3>5, HeldRef
    <3> QED
      BY <2>1, <3>5, <3>6
  <2>2. ASSUME \A r \in Requests : table[r] = <<>>, NEW b \in Blocks
        PROVE  pool.ref[b] = 0
    <3>1. ~\E s \in Requests : b \in Range(table[s])
      BY <2>2 DEF Range
    <3>2. pool.ref[b] \in Nat
      BY Types
    <3> QED
      BY <3>1, <3>2, HeldRef
  <2> QED
    BY <2>1, <2>2
<1> QED
  BY <1>9, <1>10, <1>11

\* The reset leaves nothing in the cache that anybody uses.
LEMMA ResetKeeps ==
  ASSUME TypeOK, PoolInv, ResetAllowed, CacheReset, UNCHANGED sched
  PROVE  pool' \in PoolType /\ PoolInv' /\ CacheInv' /\ OwnInv'
<1>1. /\ pool' = ResetPrefixCache(pool) /\ table' = table /\ cached' = cached
      /\ computed' = computed /\ sched' = sched
  BY DEF CacheReset
<1>2. PICK H : H = [b \in Blocks |-> NoHash]
  OBVIOUS
<1>3. PICK M : M = [h \in Hashes |-> {}]
  OBVIOUS
<1>4. pool' = [pool EXCEPT !.hash = H, !.map = M, !.stored = {}]
  BY <1>1, <1>2, <1>3 DEF ResetPrefixCache
<1>5. pool \in PoolType
  BY Types
<1>6. pool' = [free |-> pool.free, ref |-> pool.ref, hash |-> H, map |-> M, stored |-> {}]
  BY <1>4, <1>5 DEF PoolType
<1>7. H \in [Blocks -> Hashes \union {NoHash}] /\ M \in [Hashes -> SUBSET Blocks]
  BY <1>2, <1>3
<1>8. pool' \in PoolType
  BY <1>5, <1>6, <1>7 DEF PoolType
<1>9. \A r \in Requests : table[r] = <<>>
  BY AllFree DEF PoolInv
<1>10. pool'.free = pool.free /\ pool'.ref = pool.ref /\ pool'.hash = H /\ pool'.stored = {}
  BY <1>6
<1>11. \A b \in Blocks : H[b] = NoHash
  BY <1>2
<1>12. \A r \in Requests : \A i \in 1..Len(table[r]) : FALSE
  BY <1>9
<1>13. RefInv'
  BY <1>1, <1>10 DEF PoolInv, RefInv, Holders
<1>14. TableInv'
  BY <1>1, <1>12 DEF PoolInv, TableInv
<1>15. ShareInv'
  BY <1>1, <1>12 DEF ShareInv
<1>16. StoredInv'
  BY <1>10 DEF StoredInv
<1>17. OrderInv'
  BY <1>10, <1>11 DEF OrderInv
<1>18. CacheInv'
  BY <1>10, <1>11 DEF CacheInv
<1>19. OwnInv'
  BY <1>1, <1>12 DEF OwnInv
<1> QED
  BY <1>8, <1>13, <1>14, <1>15, <1>16, <1>17, <1>18, <1>19 DEF PoolInv

-----------------------------------------------------------------------------
(***************************************************************************)
(* The lookup.                                                             *)
(***************************************************************************)
\* What find_longest_cache_hit returns: blocks that carry the hashes of r, and
\* never the block of its last token.
LEMMA HitsAre ==
  ASSUME TypeOK, PoolAgrees, NEW r \in Requests, NEW hits \in Hits(r)
  PROVE  /\ hits \in Seq(Blocks)
         /\ Len(hits) * BlockSize \in Nat /\ Len(hits) * BlockSize < ntok[r]
         /\ \A i \in 1..Len(hits) : Full(r, i) /\ pool.hash[hits[i]] = Hash(r, i)
<1> DEFINE hit(k) == \A i \in 1 .. k : CachedBlocks(Hash(r, i)) # {}
           good(k) == hit(k) /\ \A j \in k + 1 .. MaxHit(r) : ~hit(j)
           k == CHOOSE k \in 0 .. MaxHit(r) : good(k)
<1>1. hits \in [1 .. k -> Blocks] /\ \A i \in 1 .. k : hits[i] \in CachedBlocks(Hash(r, i))
  BY DEF Hits
<1>2. ntok[r] \in Nat /\ ntok[r] >= 1 /\ ntok[r] <= Len(Text[r]) /\ Len(Text[r]) \in Nat
  BY Types
<1>3. PICK a \in Nat : a = ntok[r] - 1
  BY <1>2
<1>4. PICK m \in Nat : m = MaxHit(r) /\ m * BlockSize <= a
  BY <1>3, Divides DEF MaxHit
<1>5. \E c \in 0..m : good(c)
  <2> DEFINE T == {x \in 0..m : hit(m - x)}
  <2>1. T \subseteq Nat
    OBVIOUS
  <2>2. m \in T
    <3>1. m - m = 0
      OBVIOUS
    <3> QED
      BY <3>1
  <2>3. PICK x \in T : \A y \in T : x <= y
    BY <2>1, <2>2, Smallest
  <2>4. m - x \in 0..m /\ hit(m - x)
    BY <2>3
  <2>5. ASSUME NEW j \in (m - x) + 1 .. m PROVE ~hit(j)
    <3> SUFFICES ASSUME hit(j) PROVE FALSE
      OBVIOUS
    <3>1. m - j \in 0..m /\ m - (m - j) = j
      BY <2>4
    <3>2. m - j \in T
      BY <3>1
    <3>3. x <= m - j
      BY <2>3, <3>2
    <3> QED
      BY <2>4, <3>3
  <2> HIDE DEF hit
  <2> QED
    BY <1>4, <2>4, <2>5
<1>6. k \in 0..m
  <2> HIDE DEF good
  <2> QED
    BY <1>4, <1>5
<1> HIDE DEF k
<1>7. PICK l \in Nat : l = k /\ l <= m
  BY <1>6
<1>8. hits \in Seq(Blocks) /\ Len(hits) = l
  BY <1>1, <1>7, LenOf
<1>9. l * BlockSize \in Nat /\ l * BlockSize <= m * BlockSize /\ m * BlockSize \in Nat
  BY <1>7, Times
<1>10. l * BlockSize < ntok[r]
  BY <1>2, <1>3, <1>4, <1>9
<1>11. ASSUME NEW i \in 1..l PROVE Full(r, i) /\ pool.hash[hits[i]] = Hash(r, i)
  <2>1. i \in Nat /\ i >= 1 /\ i <= l
    OBVIOUS
  <2>2. i * BlockSize <= l * BlockSize /\ i * BlockSize \in Nat
    BY <2>1, Times
  <2>3. i * BlockSize <= Len(Text[r])
    BY <1>2, <1>9, <1>10, <2>2
  <2>4. Full(r, i)
    BY <2>1, <2>3 DEF Full
  <2>5. Hash(r, i) \in Hashes
    BY <2>1, <2>4, HashLen
  <2>6. hits[i] \in Blocks /\ hits[i] \in pool.map[Hash(r, i)]
    BY <1>1, <1>7 DEF CachedBlocks
  <2>7. pool.hash[hits[i]] = Hash(r, i)
    BY <2>5, <2>6 DEF PoolAgrees, Agrees
  <2> QED
    BY <2>4, <2>7
<1> QED
  BY <1>8, <1>9, <1>10, <1>11

\* The announcement of a lookup.
LEMMA AnnounceKeeps ==
  ASSUME TypeOK, PoolAgrees, PoolInv, NEW r \in Requests, NEW hits \in Hits(r),
         pool' = Announce(pool, r, hits),
         UNCHANGED <<table, cached, computed, sched, content>>
  PROVE  /\ pool' \in PoolType /\ PoolInv'
         /\ CacheInv => CacheInv'
         /\ OwnInv => OwnInv'
<1>1. hits \in Seq(Blocks)
      /\ \A i \in 1..Len(hits) : Full(r, i) /\ pool.hash[hits[i]] = Hash(r, i)
  BY HitsAre
<1>2. pool \in PoolType /\ \A i \in 1..Len(hits) : Full(r, i)
  BY <1>1, Types
<1>3. PICK x : x = pool'
  OBVIOUS
<1>4. /\ x \in PoolType /\ x.free = pool.free /\ x.ref = pool.ref /\ x.hash = pool.hash
      /\ \A h \in x.stored : h \in pool.stored \/ \E i \in 1..Len(hits) : h = Hash(r, i)
  BY <1>1, <1>2, <1>3, AnnounceIs
<1>5. /\ pool'.free = pool.free /\ pool'.ref = pool.ref /\ pool'.hash = pool.hash
      /\ table' = table /\ cached' = cached /\ computed' = computed /\ sched' = sched
      /\ content' = content
  BY <1>3, <1>4
<1>6. RefInv'
  BY <1>5 DEF PoolInv, RefInv, Holders
<1>7. TableInv'
  BY <1>5 DEF PoolInv, TableInv
<1>8. ShareInv'
  BY <1>5 DEF PoolInv, ShareInv
<1>9. StoredInv'
  <2> SUFFICES ASSUME NEW h \in x.stored PROVE \E b \in Blocks : pool.hash[b] = h
    BY <1>3, <1>5 DEF StoredInv
  <2>1. CASE h \in pool.stored
    BY <2>1 DEF PoolInv, StoredInv
  <2>2. CASE \E i \in 1..Len(hits) : h = Hash(r, i)
    <3>1. PICK i \in 1..Len(hits) : h = Hash(r, i)
      BY <2>2
    <3>2. hits[i] \in Blocks /\ pool.hash[hits[i]] = h
      BY <1>1, <3>1
    <3> QED
      BY <3>2
  <2> QED
    BY <1>4, <2>1, <2>2
<1>10. OrderInv'
  BY <1>5 DEF PoolInv, OrderInv, Before
<1>11. ASSUME CacheInv PROVE CacheInv'
  BY <1>5, <1>11 DEF CacheInv, Due
<1>12. ASSUME OwnInv PROVE OwnInv'
  BY <1>5, <1>12 DEF OwnInv, Due
<1> QED
  BY <1>3, <1>4, <1>6, <1>7, <1>8, <1>9, <1>10, <1>11, <1>12 DEF PoolInv

\* What touches neither the pool nor what the requests have of it.
LEMMA Unchanged ==
  ASSUME UNCHANGED <<pool, table, cached, computed, sched, content>>
  PROVE  (PoolInv => PoolInv') /\ (CacheInv => CacheInv') /\ (OwnInv => OwnInv')
<1>1. RefInv => RefInv'
  BY DEF RefInv, Holders
<1>2. TableInv => TableInv'
  BY DEF TableInv
<1>3. ShareInv => ShareInv'
  BY DEF ShareInv
<1>4. StoredInv => StoredInv'
  BY DEF StoredInv
<1>5. OrderInv => OrderInv'
  BY DEF OrderInv, Before
<1>6. CacheInv => CacheInv'
  BY DEF CacheInv, Due
<1>7. OwnInv => OwnInv'
  BY DEF OwnInv, Due
<1> QED
  BY <1>1, <1>2, <1>3, <1>4, <1>5, <1>6, <1>7 DEF PoolInv

-----------------------------------------------------------------------------
(***************************************************************************)
(* The handlers, for the scheduler's actions.                              *)
(***************************************************************************)
\* allocate_slots, as its callers see it.
LEMMA AllocKeeps ==
  ASSUME TypeOK, StepInv, PoolInv, KVInv, NEW r \in Requests, NEW hits \in Seq(Blocks),
         NEW n \in Nat, Ask(r, hits, n), Allocate(r, hits, n), UNCHANGED content
  PROVE  /\ PoolInv' /\ KVInv' /\ fault' = fault
         /\ pool' \in PoolType /\ table' \in [Requests -> Seq(Blocks)]
         /\ cached' \in [Requests -> Nat] /\ computed' \in [Requests -> Nat]
         /\ sched' \in [Requests -> Nat]
         /\ computed'[r] + sched'[r] <= ntok[r]
         /\ \A s \in Requests : s # r =>
              /\ table'[s] = table[s] /\ cached'[s] = cached[s]
              /\ computed'[s] = computed[s] /\ sched'[s] = sched[s]
<1>1. RefInv /\ TableInv /\ ShareInv /\ StoredInv /\ OrderInv
  BY DEF PoolInv
<1>2. PICK q, k, new, bs, lo, hi, m, t : Alloc(r, hits, n, q, k, new, bs, lo, hi, m, t)
  BY <1>1, AllocateDone
<1>3. RefInv'
  BY <1>1, <1>2, AllocRef
<1>4. TableInv'
  BY <1>1, <1>2, AllocTable
<1>5. ShareInv'
  BY <1>1, <1>2, AllocShare
<1>6. StoredInv'
  BY <1>1, <1>2, AllocStored
<1>7. OrderInv'
  BY <1>1, <1>2, AllocOrder
<1>8. KVInv'
  <2> SUFFICES ASSUME ~Priority PROVE CacheInv' /\ OwnInv'
    BY DEF KVInv
  <2>1. CacheInv /\ OwnInv
    BY DEF KVInv
  <2>2. CacheInv'
    BY <1>2, <2>1, AllocCache
  <2>3. OwnInv'
    BY <1>2, <2>1, AllocOwn
  <2> QED
    BY <2>2, <2>3
<1>9. /\ table'[r] = bs /\ cached'[r] = hi /\ computed'[r] = t /\ sched'[r] = n
      /\ \A s \in Requests : s # r =>
           /\ table'[s] = table[s] /\ cached'[s] = cached[s]
           /\ computed'[s] = computed[s] /\ sched'[s] = sched[s]
  BY <1>2, AllocFrame
<1>10. /\ pool' \in PoolType /\ fault' = fault
       /\ table' = [table EXCEPT ![r] = bs] /\ cached' = [cached EXCEPT ![r] = hi]
       /\ computed' = [computed EXCEPT ![r] = t] /\ sched' = [sched EXCEPT ![r] = n]
  BY <1>2 DEF Alloc, Done, TableOK
<1>11. bs \in Seq(Blocks) /\ hi \in Nat /\ t \in Nat /\ t = TotalComputed(r, hits)
  BY <1>2 DEF Alloc, TableOK
<1>12. /\ table' \in [Requests -> Seq(Blocks)] /\ cached' \in [Requests -> Nat]
       /\ computed' \in [Requests -> Nat] /\ sched' \in [Requests -> Nat]
  BY <1>10, <1>11, Types
<1>13. t + n <= ntok[r]
  BY <1>11 DEF Ask
<1> QED
  BY <1>3, <1>4, <1>5, <1>6, <1>7, <1>8, <1>9, <1>10, <1>12, <1>13 DEF PoolInv

\* free, as its callers see it; under FCFS they release nobody in the step.
LEMMA FreeKeeps ==
  ASSUME TypeOK, StepInv, PoolInv, KVInv, NEW r \in Requests, Free(r),
         sched' = [sched EXCEPT ![r] = 0], ~Priority => sched[r] = 0, UNCHANGED content
  PROVE  /\ PoolInv' /\ KVInv'
         /\ pool' \in PoolType /\ table' \in [Requests -> Seq(Blocks)]
         /\ cached' \in [Requests -> Nat] /\ computed' \in [Requests -> Nat]
         /\ sched' \in [Requests -> Nat]
         /\ table'[r] = <<>> /\ cached'[r] = 0 /\ computed'[r] = 0 /\ sched'[r] = 0
         /\ \A s \in Requests : s # r =>
              /\ table'[s] = table[s] /\ cached'[s] = cached[s]
              /\ computed'[s] = computed[s] /\ sched'[s] = sched[s]
<1>1. RefInv /\ TableInv /\ ShareInv /\ StoredInv /\ OrderInv
  BY DEF PoolInv
<1>2. PICK fst, lst : Freed(r, fst, lst)
  BY <1>1, FreeIs
<1>3. RefInv'
  BY <1>1, <1>2, FreedRef
<1>4. OrderInv'
  BY <1>1, <1>2, FreedOrder
<1>5. TableInv' /\ ShareInv' /\ StoredInv'
  BY <1>1, <1>2, FreedRest
<1>6. KVInv'
  <2> SUFFICES ASSUME ~Priority PROVE CacheInv' /\ OwnInv'
    BY DEF KVInv
  <2>1. CacheInv /\ OwnInv /\ sched[r] = 0
    BY DEF KVInv
  <2> QED
    BY <1>2, <2>1, FreedRest
<1>7. /\ pool' \in PoolType
      /\ table' = [table EXCEPT ![r] = <<>>] /\ cached' = [cached EXCEPT ![r] = 0]
      /\ computed' = [computed EXCEPT ![r] = 0]
  BY <1>2 DEF Freed
<1>8. <<>> \in Seq(Blocks) /\ 0 \in Nat
  OBVIOUS
<1>9. /\ table' \in [Requests -> Seq(Blocks)] /\ cached' \in [Requests -> Nat]
      /\ computed' \in [Requests -> Nat] /\ sched' \in [Requests -> Nat]
  BY <1>7, <1>8, Types
<1>10. /\ table'[r] = <<>> /\ cached'[r] = 0 /\ computed'[r] = 0 /\ sched'[r] = 0
       /\ \A s \in Requests : s # r =>
            /\ table'[s] = table[s] /\ cached'[s] = cached[s]
            /\ computed'[s] = computed[s] /\ sched'[s] = sched[s]
  BY <1>7, Types
<1> QED
  BY <1>3, <1>4, <1>5, <1>6, <1>7, <1>9, <1>10 DEF PoolInv

-----------------------------------------------------------------------------
(***************************************************************************)
(* The scheduler's actions.                                                *)
(***************************************************************************)
\* Where the step stands.
LEMMA StepTypes ==
  ASSUME TypeOK
  PROVE  /\ running \in Seq(Requests) /\ Len(running) \in Nat /\ cursor \in Nat
         /\ DOMAIN running = 1..Len(running)
         /\ 1 <= cursor /\ cursor <= Len(running) + 1
         /\ want \in Nat /\ open \in BOOLEAN /\ forced \in BOOLEAN /\ fault \in BOOLEAN
         /\ status \in [Requests -> {"waiting", "running", "finished"}]
<1>1. running \in Seq(Requests) /\ cursor \in 1 .. Len(running) + 1
  BY DEF TypeOK
<1>2. PICK n \in Nat : n = Len(running)
  BY <1>1
<1>3. cursor \in Nat /\ 1 <= cursor /\ cursor <= n + 1
  BY <1>1, <1>2
<1> QED
  BY <1>1, <1>2, <1>3 DEF TypeOK

\* The tokens that the running request at the cursor may ask for.
LEMMA AskRunning ==
  ASSUME SchedInv, AtRunning, NEW n \in Chunks(running[cursor], computed[running[cursor]])
  PROVE  LET r == running[cursor] IN
         /\ r \in Requests /\ status[r] = "running" /\ sched[r] = 0
         /\ n \in Nat /\ n >= 1 /\ computed[r] + n <= ntok[r]
<1>1. PICK r : r = running[cursor]
  OBVIOUS
<1>2. TypeOK /\ RunInv /\ StepInv
  BY DEF SchedInv
<1>3. cursor \in 1..Len(running)
  BY <1>2, StepTypes DEF AtRunning
<1>4. r \in Requests /\ r \in Range(running)
  BY <1>1, <1>2, <1>3, StepTypes DEF Range
<1>5. status[r] = "running"
  BY <1>2, <1>4 DEF RunInv
<1>6. sched[r] = 0
  <2>1. cursor >= cursor
    BY <1>2, StepTypes
  <2> QED
    BY <1>1, <1>2, <1>3, <2>1 DEF StepInv
<1>7. computed[r] # ntok[r]
  BY <1>4, <1>5 DEF AtRunning, Stepping, Sampled
<1>8. PICK c \in Nat, d \in Nat, w \in Nat : c = computed[r] /\ d = ntok[r] /\ w = want
  BY <1>2, <1>4, StepTypes, Types
<1>9. n \in IF w > 0 THEN {w} ELSE IF d = c THEN {0} ELSE 1 .. d - c
  BY <1>1, <1>8 DEF Chunks
<1>10. CASE w > 0
  <2>1. n = w
    BY <1>9, <1>10
  <2>2. c + w <= d
    BY <1>1, <1>2, <1>8, <1>10 DEF StepInv
  <2> QED
    BY <1>1, <1>4, <1>5, <1>6, <1>8, <1>10, <2>1, <2>2
<1>11. CASE ~(w > 0)
  <2>1. n \in 1 .. d - c
    BY <1>7, <1>8, <1>9, <1>11
  <2>2. n \in Nat /\ n >= 1 /\ c + n <= d
    BY <2>1
  <2> QED
    BY <1>1, <1>4, <1>5, <1>6, <1>8, <2>2
<1> QED
  BY <1>10, <1>11

\* It calls allocate_slots for tokens it has, and without hits.
LEMMA ScheduleAsks ==
  ASSUME IInv, NEW r \in Requests, Schedule(r)
  PROVE  /\ status[r] = "running"
         /\ \E hits \in Seq(Blocks), n \in Nat : Ask(r, hits, n) /\ Allocate(r, hits, n)
<1>1. SchedInv /\ TypeOK /\ FaultFree /\ RunInv /\ StepInv
  BY DEF IInv, SchedInv
<1>2. AtRunning /\ r = running[cursor]
  BY DEF Schedule
<1>3. PICK n \in Chunks(r, computed[r]) : Fits(r, <<>>, n) /\ Allocate(r, <<>>, n)
  BY DEF Schedule
<1>4. /\ status[r] = "running" /\ sched[r] = 0
      /\ n \in Nat /\ n >= 1 /\ computed[r] + n <= ntok[r]
  BY <1>1, <1>2, <1>3, AskRunning
<1>5. TotalComputed(r, <<>>) = computed[r]
  <2>1. computed[r] \in Nat /\ 0 * BlockSize = 0
    BY <1>1, PoolAssumption, Types
  <2> QED
    BY <2>1 DEF TotalComputed
<1>6. PICK hits : hits = <<>>
  OBVIOUS
<1>7. hits \in Seq(Blocks) /\ hits = <<>> /\ Len(hits) = 0
  BY <1>6
<1>8. Ask(r, hits, n)
  BY <1>3, <1>4, <1>5, <1>7 DEF Ask
<1>9. Allocate(r, hits, n)
  BY <1>3, <1>7
<1> QED
  BY <1>4, <1>7, <1>8, <1>9

\* The running request at the cursor gets its slots.
LEMMA ScheduleKeeps ==
  ASSUME IInv, NEW r \in Requests, Schedule(r)
  PROVE  SchedInv' /\ PoolInv' /\ KVInv'
<1>1. SchedInv /\ PoolInv /\ KVInv /\ TypeOK /\ FaultFree /\ RunInv /\ StepInv
  BY DEF IInv, SchedInv
<1>2. AtRunning /\ r = running[cursor]
  BY DEF Schedule
<1>3. status[r] = "running"
  BY ScheduleAsks
<1>4. /\ cursor' = cursor + 1 /\ want' = 0 /\ running' = running /\ open' = open
      /\ forced' = forced /\ ntok' = ntok /\ status' = status /\ content' = content
  BY DEF Schedule
<1>5. PICK hits \in Seq(Blocks), n \in Nat : Ask(r, hits, n) /\ Allocate(r, hits, n)
  BY ScheduleAsks
<1>6. /\ PoolInv' /\ KVInv' /\ fault' = fault
       /\ pool' \in PoolType /\ table' \in [Requests -> Seq(Blocks)]
       /\ cached' \in [Requests -> Nat] /\ computed' \in [Requests -> Nat]
       /\ sched' \in [Requests -> Nat]
       /\ computed'[r] + sched'[r] <= ntok[r]
       /\ \A s \in Requests : s # r =>
            /\ table'[s] = table[s] /\ cached'[s] = cached[s]
            /\ computed'[s] = computed[s] /\ sched'[s] = sched[s]
  BY <1>1, <1>4, <1>5, AllocKeeps
<1>7. PICK l \in Nat : l = Len(running)
  BY <1>1, StepTypes
<1>8. cursor \in Nat /\ 1 <= cursor /\ cursor <= l /\ ~fault /\ ~forced
  BY <1>1, <1>2, <1>7, StepTypes DEF AtRunning, Stepping
<1>9. cursor' \in 1 .. Len(running') + 1
  BY <1>4, <1>7, <1>8
<1>10. TypeOK'
  BY <1>1, <1>4, <1>6, <1>9 DEF TypeOK
<1>11. RunInv'
  BY <1>1, <1>3, <1>4, <1>6 DEF RunInv
<1>12. ASSUME NEW i \in 1..l, i >= cursor + 1 PROVE sched'[running[i]] = 0
  <2>1. i >= cursor /\ i # cursor /\ cursor \in 1..l
    BY <1>8, <1>12
  <2>2. running[i] # running[cursor]
    BY <1>1, <1>7, <2>1 DEF RunInv, Distinct
  <2>3. running[i] \in Requests
    BY <1>1, <1>7, StepTypes
  <2>4. sched[running[i]] = 0
    BY <1>1, <1>7, <2>1 DEF StepInv
  <2> QED
    BY <1>2, <1>6, <2>2, <2>3, <2>4
<1>13. \A s \in Requests : computed'[s] + sched'[s] <= ntok[s]
  BY <1>1, <1>6 DEF StepInv
<1>14. StepInv'
  BY <1>4, <1>7, <1>8, <1>12, <1>13 DEF StepInv
<1>15. FaultFree'
  BY <1>6, <1>8 DEF FaultFree
<1> QED
  BY <1>6, <1>10, <1>11, <1>14, <1>15 DEF SchedInv

\* It gets none.
LEMMA SkipKeeps ==
  ASSUME IInv, Skip
  PROVE  SchedInv' /\ PoolInv' /\ KVInv'
<1>1. SchedInv /\ PoolInv /\ KVInv /\ TypeOK /\ FaultFree /\ RunInv /\ StepInv
  BY DEF IInv, SchedInv
<1>2. /\ want = 0 /\ cursor' = cursor + 1
      /\ UNCHANGED <<pool, table, cached, computed, ntok, status, running, want, open,
                     sched, forced, content, fault>>
  BY DEF Skip, tables
<1>3. PICK l \in Nat : l = Len(running)
  BY <1>1, StepTypes
<1>4. cursor \in Nat /\ 1 <= cursor /\ cursor <= l /\ ~forced
  BY <1>1, <1>3, StepTypes DEF Skip, AtRunning, Stepping
<1>5. cursor' \in 1 .. Len(running') + 1
  BY <1>2, <1>3, <1>4
<1>6. TypeOK'
  BY <1>1, <1>2, <1>5 DEF TypeOK
<1>7. RunInv'
  BY <1>1, <1>2 DEF RunInv
<1>8. \A i \in 1..l : i >= cursor + 1 => i >= cursor
  BY <1>4
<1>9. StepInv'
  BY <1>1, <1>2, <1>3, <1>4, <1>8 DEF StepInv
<1>10. PoolInv' /\ KVInv'
  BY <1>1, <1>2, Unchanged DEF KVInv
<1>11. FaultFree'
  BY <1>1, <1>2 DEF FaultFree
<1> QED
  BY <1>6, <1>7, <1>9, <1>10, <1>11 DEF SchedInv

\* Who is preempted leaves self.running; under FCFS it was not in the step yet.
LEMMA PreemptedKeeps ==
  ASSUME SchedInv, PoolInv, KVInv, NEW v \in Requests, Preempted(v),
         v \in Range(running), ~Priority => sched[v] = 0
  PROVE  /\ PoolInv' /\ KVInv' /\ RunInv'
         /\ pool' \in PoolType /\ table' \in [Requests -> Seq(Blocks)]
         /\ cached' \in [Requests -> Nat] /\ computed' \in [Requests -> Nat]
         /\ sched' \in [Requests -> Nat] /\ ntok' = ntok
         /\ status' \in [Requests -> {"waiting", "running", "finished"}]
         /\ \A s \in Requests : computed'[s] + sched'[s] <= ntok[s]
         /\ \A s \in Requests : sched[s] = 0 => sched'[s] = 0
         /\ \A s \in Requests : s # v => computed'[s] = computed[s]
         /\ running' = Taken(running, Range(running) \ {v})
<1>1. TypeOK /\ RunInv /\ StepInv
  BY DEF SchedInv
<1>2. /\ Free(v) /\ running' = Taken(running, Range(running) \ {v})
      /\ sched' = [sched EXCEPT ![v] = 0] /\ status' = [status EXCEPT ![v] = "waiting"]
      /\ ntok' = ntok /\ content' = content
  BY DEF Preempted, Taken
<1>3. /\ PoolInv' /\ KVInv'
      /\ pool' \in PoolType /\ table' \in [Requests -> Seq(Blocks)]
      /\ cached' \in [Requests -> Nat] /\ computed' \in [Requests -> Nat]
      /\ sched' \in [Requests -> Nat]
      /\ table'[v] = <<>> /\ cached'[v] = 0 /\ computed'[v] = 0 /\ sched'[v] = 0
      /\ \A s \in Requests : s # v =>
           /\ table'[s] = table[s] /\ cached'[s] = cached[s]
           /\ computed'[s] = computed[s] /\ sched'[s] = sched[s]
  BY <1>1, <1>2, FreeKeeps
<1>4. status \in [Requests -> {"waiting", "running", "finished"}]
  BY <1>1, StepTypes
<1>5. /\ status' \in [Requests -> {"waiting", "running", "finished"}]
      /\ \A s \in Requests : status'[s] = IF s = v THEN "waiting" ELSE status[s]
  BY <1>2, <1>4
<1>6. PICK S : S = Range(running) \ {v}
  OBVIOUS
<1>7. running \in Seq(Requests) /\ Distinct(running)
  BY <1>1, StepTypes DEF RunInv
<1>8. PICK w : w = Taken(running, S)
  OBVIOUS
<1>9. Distinct(w)
  BY <1>7, <1>8, KeepOrder
<1>10. Range(w) = Range(running) \cap S
  BY <1>7, <1>8, KeepRange
<1>11. \A s \in Requests : s \in Range(w) <=> s \in Range(running) /\ s # v
  BY <1>6, <1>10
<1>12. w = running'
  BY <1>2, <1>6, <1>8
<1>13. \A s \in Requests : status'[s] = "running" <=> s \in Range(w)
  <2> TAKE s \in Requests
  <2>1. status[s] = "running" <=> s \in Range(running)
    BY <1>1 DEF RunInv
  <2> QED
    BY <1>5, <1>11, <2>1
<1>14. \A s \in Requests : status'[s] # "running" =>
         table'[s] = <<>> /\ cached'[s] = 0 /\ computed'[s] = 0 /\ sched'[s] = 0
  BY <1>1, <1>3, <1>5 DEF RunInv
<1>15. RunInv'
  BY <1>9, <1>12, <1>13, <1>14 DEF RunInv
<1>16. ASSUME NEW s \in Requests
       PROVE  computed'[s] + sched'[s] <= ntok[s] /\ (sched[s] = 0 => sched'[s] = 0)
  <2>1. CASE s = v
    <3>1. ntok[s] \in Nat
      BY <1>1, Types
    <3> QED
      BY <1>3, <2>1, <3>1
  <2>2. CASE s # v
    BY <1>1, <1>3, <2>2 DEF StepInv
  <2> QED
    BY <2>1, <2>2
<1> QED
  BY <1>2, <1>3, <1>5, <1>15, <1>16

\* A running request is preempted and the one at the cursor retried.
LEMMA PreemptKeeps ==
  ASSUME IInv, NEW v \in Requests, Preempt(v)
  PROVE  SchedInv' /\ PoolInv' /\ KVInv'
<1>1. SchedInv /\ PoolInv /\ KVInv /\ TypeOK /\ FaultFree /\ RunInv /\ StepInv
  BY DEF IInv, SchedInv
<1>2. PICK r : r = running[cursor]
  OBVIOUS
<1>3. /\ AtRunning /\ v \in Range(running) /\ IsVictim(v) /\ Preempted(v)
      /\ open' = FALSE /\ forced' = forced /\ fault' = fault
  BY DEF Preempt
<1>4. PICK n \in Chunks(r, computed[r]) : want' = IF v = r THEN 0 ELSE n
  BY <1>2 DEF Preempt
<1>5. PICK at : at = CHOOSE i \in DOMAIN running : running[i] = v
  OBVIOUS
<1>6. cursor' = IF v = r THEN Len(running)
                ELSE IF at < cursor THEN cursor - 1 ELSE cursor
  BY <1>2, <1>5 DEF Preempt
<1>7. PICK l \in Nat : l = Len(running)
  BY <1>1, StepTypes
<1>8. running \in Seq(Requests) /\ DOMAIN running = 1..l /\ Distinct(running)
  BY <1>1, <1>7, StepTypes DEF RunInv
<1>9. at \in 1..l /\ running[at] = v
  BY <1>3, <1>5, <1>8 DEF Range
<1>10. cursor \in Nat /\ 1 <= cursor /\ cursor <= l /\ ~forced /\ ~fault
  BY <1>1, <1>3, <1>7, StepTypes DEF AtRunning, Stepping
<1>11. /\ r \in Requests /\ n \in Nat /\ n >= 1 /\ computed[r] + n <= ntok[r]
  BY <1>1, <1>2, <1>3, <1>4, AskRunning
<1>12. \A i \in 1..l : i >= cursor => running[i] \in Requests /\ sched[running[i]] = 0
  BY <1>1, <1>7, <1>8 DEF StepInv
<1>13. ~Priority => sched[v] = 0
  <2> SUFFICES ASSUME ~Priority PROVE sched[v] = 0
    OBVIOUS
  <2>1. v = running[l]
    BY <1>3, <1>7 DEF IsVictim
  <2>2. l \in 1..l /\ l >= cursor
    BY <1>10
  <2> QED
    BY <1>12, <2>1, <2>2
<1>14. /\ PoolInv' /\ KVInv' /\ RunInv'
       /\ pool' \in PoolType /\ table' \in [Requests -> Seq(Blocks)]
       /\ cached' \in [Requests -> Nat] /\ computed' \in [Requests -> Nat]
       /\ sched' \in [Requests -> Nat] /\ ntok' = ntok
       /\ status' \in [Requests -> {"waiting", "running", "finished"}]
       /\ \A s \in Requests : computed'[s] + sched'[s] <= ntok[s]
       /\ \A s \in Requests : sched[s] = 0 => sched'[s] = 0
       /\ \A s \in Requests : s # v => computed'[s] = computed[s]
       /\ running' = Taken(running, Range(running) \ {v})
  BY <1>1, <1>3, <1>13, PreemptedKeeps
<1>15. PICK w : w = running'
  OBVIOUS
<1>16. /\ w \in Seq(Requests) /\ Len(w) = l - 1
       /\ \A i \in 1..(l - 1) : w[i] = IF i < at THEN running[i] ELSE running[i + 1]
  <2>1. at \in 1..Len(running)
    BY <1>7, <1>9
  <2>2. w = Taken(running, Range(running) \ {running[at]})
    BY <1>9, <1>14, <1>15
  <2>3. /\ w \in Seq(Requests) /\ Len(w) = Len(running) - 1
        /\ \A i \in 1..(Len(running) - 1) :
             w[i] = IF i < at THEN running[i] ELSE running[i + 1]
    BY <1>8, <2>1, <2>2, KeepButOne
  <2> QED
    BY <1>7, <2>3
<1>17. v # r => at # cursor
  BY <1>2, <1>9
<1>18. cursor' \in 1..l
  BY <1>6, <1>7, <1>9, <1>10, <1>17
<1>19. cursor' \in 1 .. Len(w) + 1
  BY <1>16, <1>18
<1>20. want' \in Nat
  BY <1>4, <1>11
<1>21. TypeOK'
  BY <1>1, <1>3, <1>14, <1>15, <1>16, <1>19, <1>20 DEF TypeOK
<1>22. ASSUME want' > 0
       PROVE  /\ cursor' <= Len(w)
              /\ computed'[w[cursor']] + want' <= ntok[w[cursor']]
  <2>1. v # r /\ want' = n
    BY <1>4, <1>22
  <2>2. at # cursor
    BY <1>17, <2>1
  <2>3. cursor' \in 1..(l - 1) /\ w[cursor'] = r
    <3>1. CASE at < cursor
      <4>1. cursor' = cursor - 1
        BY <1>6, <2>1, <3>1
      <4>2. cursor' \in 1..(l - 1) /\ ~(cursor' < at) /\ cursor' + 1 = cursor
        BY <1>9, <1>10, <3>1, <4>1
      <4> QED
        BY <1>2, <1>16, <4>2
    <3>2. CASE ~(at < cursor)
      <4>1. cursor' = cursor
        BY <1>6, <2>1, <3>2
      <4>2. cursor' \in 1..(l - 1) /\ cursor' < at
        BY <1>9, <1>10, <2>2, <3>2, <4>1
      <4> QED
        BY <1>2, <1>16, <4>1, <4>2
    <3> QED
      BY <3>1, <3>2
  <2>4. cursor' <= Len(w)
    BY <1>16, <2>3
  <2>5. computed'[r] = computed[r]
    BY <1>11, <1>14, <2>1
  <2> QED
    BY <1>11, <2>1, <2>3, <2>4, <2>5
<1>23. ASSUME NEW i \in 1..(l - 1), i >= cursor' PROVE sched'[w[i]] = 0
  <2>1. CASE v = r
    <3>1. cursor' = l
      BY <1>6, <1>7, <2>1
    <3> QED
      BY <1>23, <3>1
  <2>2. CASE v # r
    <3>1. at # cursor
      BY <1>17, <2>2
    <3>2. PICK j \in 1..l : w[i] = running[j] /\ j >= cursor
      <4>1. CASE i < at
        <5>1. w[i] = running[i] /\ i \in 1..l
          BY <1>16, <4>1
        <5>2. i >= cursor
          BY <1>6, <1>9, <1>10, <1>23, <2>2, <3>1, <4>1
        <5> QED
          BY <5>1, <5>2
      <4>2. CASE ~(i < at)
        <5>1. w[i] = running[i + 1] /\ i + 1 \in 1..l
          BY <1>16, <4>2
        <5>2. i + 1 >= cursor
          BY <1>6, <1>9, <1>10, <1>23, <2>2, <3>1, <4>2
        <5> QED
          BY <5>1, <5>2
      <4> QED
        BY <4>1, <4>2
    <3> QED
      BY <1>12, <1>14, <3>2
  <2> QED
    BY <2>1, <2>2
<1>24. Len(w) = l - 1
  BY <1>16
<1>25. StepInv'
  BY <1>3, <1>10, <1>14, <1>15, <1>22, <1>23, <1>24 DEF StepInv
<1>26. FaultFree'
  BY <1>3, <1>10 DEF FaultFree
<1> QED
  BY <1>14, <1>21, <1>25, <1>26 DEF SchedInv

\* Between two steps nobody is in one.
LEMMA IdleSched ==
  ASSUME SchedInv, cursor = 1, open
  PROVE  want = 0 /\ \A s \in Requests : sched[s] = 0
<1>1. TypeOK /\ RunInv /\ StepInv
  BY DEF SchedInv
<1>2. want = 0
  <2>1. want \in Nat
    BY <1>1, StepTypes
  <2>2. ~(want > 0)
    BY <1>1 DEF StepInv
  <2> QED
    BY <2>1, <2>2
<1>3. ASSUME NEW s \in Requests PROVE sched[s] = 0
  <2>1. CASE status[s] # "running"
    BY <1>1, <2>1 DEF RunInv
  <2>2. CASE status[s] = "running"
    <3>1. s \in Range(running)
      BY <1>1, <2>2 DEF RunInv
    <3>2. PICK i \in 1..Len(running) : running[i] = s
      BY <1>1, <3>1, StepTypes DEF Range
    <3>3. i >= 1
      BY <1>1, StepTypes
    <3> QED
      BY <1>1, <3>2, <3>3 DEF StepInv
  <2> QED
    BY <2>1, <2>2
<1> QED
  BY <1>2, <1>3

\* reset_prefix_cache preempts a running request.
LEMMA ResetPreemptKeeps ==
  ASSUME IInv, NEW v \in Requests, ResetPreempt(v)
  PROVE  SchedInv' /\ PoolInv' /\ KVInv'
<1>1. SchedInv /\ PoolInv /\ KVInv /\ TypeOK /\ FaultFree /\ RunInv /\ StepInv
  BY DEF IInv, SchedInv
<1>2. /\ running # <<>> /\ v = running[Len(running)] /\ Preempted(v) /\ forced' = TRUE
      /\ cursor' = cursor /\ want' = want /\ open' = open /\ fault' = fault
  BY DEF ResetPreempt
<1>3. cursor = 1 /\ open
  BY <1>1 DEF ResetPreempt, Between, StepInv
<1>4. want = 0 /\ \A s \in Requests : sched[s] = 0
  BY <1>1, <1>3, IdleSched
<1>5. v \in Range(running)
  <2>1. running \in Seq(Requests) /\ DOMAIN running = 1..Len(running)
    BY <1>1, StepTypes
  <2>2. PICK l \in Nat : l = Len(running)
    BY <1>1, StepTypes
  <2>3. l >= 1
    BY <1>2, <2>1, <2>2
  <2>4. l \in 1..l
    BY <2>3
  <2> QED
    BY <1>2, <2>1, <2>2, <2>4 DEF Range
<1>6. /\ PoolInv' /\ KVInv' /\ RunInv'
      /\ pool' \in PoolType /\ table' \in [Requests -> Seq(Blocks)]
      /\ cached' \in [Requests -> Nat] /\ computed' \in [Requests -> Nat]
      /\ sched' \in [Requests -> Nat] /\ ntok' = ntok
      /\ status' \in [Requests -> {"waiting", "running", "finished"}]
      /\ \A s \in Requests : computed'[s] + sched'[s] <= ntok[s]
      /\ \A s \in Requests : sched[s] = 0 => sched'[s] = 0
      /\ running' = Taken(running, Range(running) \ {v})
  BY <1>1, <1>2, <1>4, <1>5, PreemptedKeeps
<1>7. running' \in Seq(Requests)
  BY <1>1, <1>6, StepTypes, KeepFacts
<1>8. cursor' \in 1 .. Len(running') + 1
  <2>1. Len(running') \in Nat
    BY <1>7
  <2> QED
    BY <1>2, <1>3, <2>1
<1>9. TypeOK'
  BY <1>1, <1>2, <1>6, <1>7, <1>8 DEF TypeOK
<1>10. \A i \in 1..Len(running') : running'[i] \in Requests
  BY <1>7
<1>11. StepInv'
  <2>1. \A i \in 1..Len(running') : sched'[running'[i]] = 0
    BY <1>4, <1>6, <1>10
  <2>2. ~(want' > 0) /\ cursor' = 1 /\ open'
    BY <1>2, <1>3, <1>4
  <2> QED
    BY <1>6, <2>1, <2>2 DEF StepInv
<1>12. FaultFree'
  BY <1>1, <1>2 DEF FaultFree
<1> QED
  BY <1>6, <1>9, <1>11, <1>12 DEF SchedInv

\* A request finishes.
LEMMA FinishKeeps ==
  ASSUME IInv, NEW r \in Requests, Finish(r)
  PROVE  SchedInv' /\ PoolInv' /\ KVInv'
<1>1. SchedInv /\ PoolInv /\ KVInv /\ TypeOK /\ FaultFree /\ RunInv /\ StepInv
  BY DEF IInv, SchedInv
<1>2. /\ cursor = 1 /\ open /\ ~forced /\ Free(r)
      /\ status' = [status EXCEPT ![r] = "finished"]
      /\ running' = Taken(running, Range(running) \ {r})
      /\ ntok' = ntok /\ cursor' = cursor /\ want' = want /\ open' = open
      /\ sched' = sched /\ forced' = forced /\ content' = content /\ fault' = fault
  BY DEF Finish, Between, Taken
<1>3. want = 0 /\ \A s \in Requests : sched[s] = 0
  BY <1>1, <1>2, IdleSched
<1>4. sched' = [sched EXCEPT ![r] = 0]
  BY <1>1, <1>2, <1>3, Types
<1>5. /\ PoolInv' /\ KVInv'
      /\ pool' \in PoolType /\ table' \in [Requests -> Seq(Blocks)]
      /\ cached' \in [Requests -> Nat] /\ computed' \in [Requests -> Nat]
      /\ sched' \in [Requests -> Nat]
      /\ table'[r] = <<>> /\ cached'[r] = 0 /\ computed'[r] = 0 /\ sched'[r] = 0
      /\ \A s \in Requests : s # r =>
           /\ table'[s] = table[s] /\ cached'[s] = cached[s]
           /\ computed'[s] = computed[s] /\ sched'[s] = sched[s]
  BY <1>1, <1>2, <1>3, <1>4, FreeKeeps
<1>6. running \in Seq(Requests) /\ Distinct(running)
  BY <1>1, StepTypes DEF RunInv
<1>7. PICK S : S = Range(running) \ {r}
  OBVIOUS
<1>8. PICK w : w = Taken(running, S) /\ w = running'
  BY <1>2, <1>7
<1>9. w \in Seq(Requests)
  BY <1>6, <1>8, KeepFacts
<1>10. Distinct(w)
  BY <1>6, <1>8, KeepOrder
<1>11. Range(w) = Range(running) \cap S
  BY <1>6, <1>8, KeepRange
<1>12. \A s \in Requests : s \in Range(w) <=> s \in Range(running) /\ s # r
  BY <1>7, <1>11
<1>13. status \in [Requests -> {"waiting", "running", "finished"}]
  BY <1>1, StepTypes
<1>14. /\ status' \in [Requests -> {"waiting", "running", "finished"}]
       /\ \A s \in Requests : status'[s] = IF s = r THEN "finished" ELSE status[s]
  BY <1>2, <1>13
<1>15. \A s \in Requests : status'[s] = "running" <=> s \in Range(w)
  <2> TAKE s \in Requests
  <2>1. status[s] = "running" <=> s \in Range(running)
    BY <1>1 DEF RunInv
  <2> QED
    BY <1>12, <1>14, <2>1
<1>16. \A s \in Requests : status'[s] # "running" =>
         table'[s] = <<>> /\ cached'[s] = 0 /\ computed'[s] = 0 /\ sched'[s] = 0
  BY <1>1, <1>5, <1>14 DEF RunInv
<1>17. RunInv'
  BY <1>8, <1>10, <1>15, <1>16 DEF RunInv
<1>18. cursor' \in 1 .. Len(w) + 1
  <2>1. Len(w) \in Nat
    BY <1>9
  <2> QED
    BY <1>2, <2>1
<1>19. TypeOK'
  BY <1>1, <1>2, <1>5, <1>8, <1>9, <1>14, <1>18 DEF TypeOK
<1>20. \A s \in Requests : computed'[s] + sched'[s] <= ntok[s]
  <2> TAKE s \in Requests
  <2>1. ntok[s] \in Nat
    BY <1>1, Types
  <2>2. CASE s = r
    BY <1>5, <2>1, <2>2
  <2>3. CASE s # r
    BY <1>1, <1>5, <2>3 DEF StepInv
  <2> QED
    BY <2>2, <2>3
<1>21. \A i \in 1..Len(w) : w[i] \in Requests
  BY <1>9
<1>22. StepInv'
  <2>1. \A i \in 1..Len(w) : sched'[w[i]] = 0
    BY <1>2, <1>3, <1>21
  <2>2. ~(want' > 0) /\ ~forced'
    BY <1>2, <1>3
  <2> QED
    BY <1>2, <1>8, <1>20, <2>1, <2>2 DEF StepInv
<1>23. FaultFree'
  BY <1>1, <1>2 DEF FaultFree
<1> QED
  BY <1>5, <1>17, <1>19, <1>22, <1>23 DEF SchedInv

\* A waiting request is looked up and calls allocate_slots with its hits.
LEMMA AdmitAsks ==
  ASSUME IInv, NEW r \in Requests, Admit(r)
  PROVE  \E hits \in Seq(Blocks), n \in Nat : Ask(r, hits, n) /\ Allocate(r, hits, n)
<1>1. SchedInv /\ TypeOK /\ RunInv /\ StepInv /\ PoolAgrees
  BY DEF IInv, SchedInv
<1>2. AtWaiting /\ status[r] = "waiting"
  BY DEF Admit
<1>3. PICK hits \in Hits(r) : \E n \in Chunks(r, TotalComputed(r, hits)) :
        Fits(r, hits, n) /\ Allocate(r, hits, n)
  BY DEF Admit
<1>4. PICK n \in Chunks(r, TotalComputed(r, hits)) : Fits(r, hits, n) /\ Allocate(r, hits, n)
  BY <1>3
<1>5. /\ hits \in Seq(Blocks)
      /\ Len(hits) * BlockSize \in Nat /\ Len(hits) * BlockSize < ntok[r]
      /\ \A i \in 1..Len(hits) : Full(r, i) /\ pool.hash[hits[i]] = Hash(r, i)
  BY <1>1, HitsAre
<1>6. /\ status[r] # "running"
      /\ table[r] = <<>> /\ cached[r] = 0 /\ computed[r] = 0 /\ sched[r] = 0
  BY <1>1, <1>2 DEF RunInv
<1>7. want = 0
  <2>1. want \in Nat /\ open
    BY <1>1, <1>2, StepTypes DEF AtWaiting
  <2>2. ~(want > 0)
    BY <1>1, <2>1 DEF StepInv
  <2> QED
    BY <2>1, <2>2
<1>8. PICK t \in Nat, d \in Nat : t = TotalComputed(r, hits) /\ d = ntok[r] /\ t < d
  <2>1. TotalComputed(r, hits) = Len(hits) * BlockSize
    BY <1>5, <1>6 DEF TotalComputed
  <2>2. ntok[r] \in Nat
    BY <1>1, Types
  <2> QED
    BY <1>5, <2>1, <2>2
<1>9. n \in Nat /\ n >= 1 /\ t + n <= d
  <2>1. n \in 1 .. d - t
    BY <1>4, <1>7, <1>8 DEF Chunks
  <2> QED
    BY <2>1
<1>10. Ask(r, hits, n)
  BY <1>4, <1>5, <1>6, <1>8, <1>9 DEF Ask
<1> QED
  BY <1>4, <1>5, <1>9, <1>10

\* A waiting request gets its slots and runs.
LEMMA AdmitKeeps ==
  ASSUME IInv, NEW r \in Requests, Admit(r)
  PROVE  SchedInv' /\ PoolInv' /\ KVInv'
<1>1. SchedInv /\ PoolInv /\ KVInv /\ TypeOK /\ FaultFree /\ RunInv /\ StepInv
  BY DEF IInv, SchedInv
<1>2. AtWaiting /\ status[r] = "waiting"
  BY DEF Admit
<1>3. /\ status' = [status EXCEPT ![r] = "running"] /\ running' = Append(running, r)
      /\ cursor' = cursor + 1 /\ want' = want /\ open' = open /\ forced' = forced
      /\ ntok' = ntok /\ content' = content
  BY DEF Admit
<1>4. /\ status[r] # "running"
      /\ table[r] = <<>> /\ cached[r] = 0 /\ computed[r] = 0 /\ sched[r] = 0
  BY <1>1, <1>2 DEF RunInv
<1>5. want = 0
  <2>1. want \in Nat /\ open
    BY <1>1, <1>2, StepTypes DEF AtWaiting
  <2>2. ~(want > 0)
    BY <1>1, <2>1 DEF StepInv
  <2> QED
    BY <2>1, <2>2
<1>6. PICK hits \in Seq(Blocks), n \in Nat : Ask(r, hits, n) /\ Allocate(r, hits, n)
  BY AdmitAsks
<1>7. /\ PoolInv' /\ KVInv' /\ fault' = fault
       /\ pool' \in PoolType /\ table' \in [Requests -> Seq(Blocks)]
       /\ cached' \in [Requests -> Nat] /\ computed' \in [Requests -> Nat]
       /\ sched' \in [Requests -> Nat]
       /\ computed'[r] + sched'[r] <= ntok[r]
       /\ \A s \in Requests : s # r =>
            /\ table'[s] = table[s] /\ cached'[s] = cached[s]
            /\ computed'[s] = computed[s] /\ sched'[s] = sched[s]
  BY <1>1, <1>3, <1>6, AllocKeeps
<1>8. PICK l \in Nat : l = Len(running)
  BY <1>1, StepTypes
<1>9. running \in Seq(Requests) /\ DOMAIN running = 1..l /\ Distinct(running)
  BY <1>1, <1>8, StepTypes DEF RunInv
<1>10. cursor = l + 1 /\ ~fault /\ ~forced
  BY <1>1, <1>2, <1>8, StepTypes DEF AtWaiting, Stepping
<1>11. PICK w : w = running'
  OBVIOUS
<1>12. /\ w \in Seq(Requests) /\ Len(w) = l + 1 /\ w[l + 1] = r
       /\ \A i \in 1..l : w[i] = running[i]
  BY <1>3, <1>8, <1>9, <1>11
<1>13. r \notin Range(running)
  BY <1>1, <1>4 DEF RunInv
<1>14. \A i \in 1..l : running[i] # r
  BY <1>9, <1>13 DEF Range
<1>15. \A i \in 1..(l + 1) : i \in 1..l \/ i = l + 1
  OBVIOUS
<1>16. Distinct(w)
  <2> SUFFICES ASSUME NEW i \in 1..(l + 1), NEW j \in 1..(l + 1), w[i] = w[j] PROVE i = j
    BY <1>12 DEF Distinct
  <2>1. CASE i \in 1..l /\ j \in 1..l
    BY <1>8, <1>9, <1>12, <2>1 DEF Distinct
  <2> QED
    BY <1>12, <1>14, <1>15, <2>1
<1>17. \A s \in Requests : s \in Range(w) <=> s \in Range(running) \/ s = r
  <2>1. DOMAIN w = 1..(l + 1)
    BY <1>12
  <2>2. \A i \in 1..l : i \in 1..(l + 1)
    OBVIOUS
  <2>3. l + 1 \in 1..(l + 1)
    OBVIOUS
  <2> QED
    BY <1>9, <1>12, <1>15, <2>1, <2>2, <2>3 DEF Range
<1>18. status \in [Requests -> {"waiting", "running", "finished"}]
  BY <1>1, StepTypes
<1>19. /\ status' \in [Requests -> {"waiting", "running", "finished"}]
       /\ \A s \in Requests : status'[s] = IF s = r THEN "running" ELSE status[s]
  BY <1>3, <1>18
<1>20. \A s \in Requests : status'[s] = "running" <=> s \in Range(w)
  <2> TAKE s \in Requests
  <2>1. status[s] = "running" <=> s \in Range(running)
    BY <1>1 DEF RunInv
  <2> QED
    BY <1>17, <1>19, <2>1
<1>21. \A s \in Requests : status'[s] # "running" =>
         table'[s] = <<>> /\ cached'[s] = 0 /\ computed'[s] = 0 /\ sched'[s] = 0
  BY <1>1, <1>7, <1>19 DEF RunInv
<1>22. RunInv'
  BY <1>11, <1>16, <1>20, <1>21 DEF RunInv
<1>23. cursor' \in 1 .. Len(w) + 1
  BY <1>3, <1>10, <1>12
<1>24. TypeOK'
  BY <1>1, <1>3, <1>7, <1>11, <1>12, <1>19, <1>23 DEF TypeOK
<1>25. \A s \in Requests : computed'[s] + sched'[s] <= ntok[s]
  BY <1>1, <1>7 DEF StepInv
<1>26. StepInv'
  <2>1. ~(want' > 0) /\ ~forced'
    BY <1>3, <1>5, <1>10
  <2>2. \A i \in 1..Len(w) : ~(i >= cursor')
    BY <1>3, <1>10, <1>12
  <2> QED
    BY <1>3, <1>11, <1>25, <2>1, <2>2 DEF StepInv
<1>27. FaultFree'
  BY <1>7, <1>10 DEF FaultFree
<1> QED
  BY <1>7, <1>22, <1>24, <1>26, <1>27 DEF SchedInv

\* A waiting request is looked up and refused.
LEMMA RefuseKeeps ==
  ASSUME IInv, NEW r \in Requests, Refuse(r)
  PROVE  SchedInv' /\ PoolInv' /\ KVInv'
<1>1. /\ SchedInv /\ PoolInv /\ KVInv /\ TypeOK /\ FaultFree /\ RunInv /\ StepInv
      /\ PoolAgrees
  BY DEF IInv, SchedInv
<1>2. PICK hits \in Hits(r) : pool' = Announce(pool, r, hits)
  BY DEF Refuse
<1>3. /\ open' = FALSE /\ AtWaiting
      /\ UNCHANGED <<table, cached, computed, ntok, status, running, cursor, want, sched,
                     forced, content, fault>>
  BY DEF Refuse
<1>4. pool' \in PoolType /\ PoolInv' /\ (CacheInv => CacheInv') /\ (OwnInv => OwnInv')
  BY <1>1, <1>2, <1>3, AnnounceKeeps
<1>5. KVInv'
  BY <1>1, <1>4 DEF KVInv
<1>6. TypeOK'
  BY <1>1, <1>3, <1>4 DEF TypeOK
<1>7. RunInv'
  BY <1>1, <1>3 DEF RunInv
<1>8. ~forced /\ ~(want > 0)
  BY <1>1, <1>3 DEF AtWaiting, Stepping, StepInv
<1>9. StepInv'
  BY <1>1, <1>3, <1>8 DEF StepInv
<1>10. FaultFree'
  BY <1>1, <1>3 DEF FaultFree
<1> QED
  BY <1>4, <1>5, <1>6, <1>7, <1>9, <1>10 DEF SchedInv

\* The model run ends the step.
LEMMA ExecuteInv ==
  ASSUME IInv, Execute
  PROVE  SchedInv' /\ PoolInv' /\ KVInv'
<1>1. SchedInv /\ PoolInv /\ KVInv /\ TypeOK /\ FaultFree /\ RunInv /\ StepInv
  BY DEF IInv, SchedInv
<1>2. /\ Stepping /\ cursor > Len(running)
      /\ computed' = [r \in Requests |-> computed[r] + sched[r]]
      /\ sched' = [r \in Requests |-> 0] /\ cursor' = 1 /\ open' = TRUE
      /\ UNCHANGED <<pool, table, cached, ntok, status, running, want, forced, fault>>
  BY DEF Execute, tables
<1>3. \A r \in Requests : computed'[r] = computed[r] + sched[r] /\ sched'[r] = 0
  BY <1>2
<1>4. \A r \in Requests : computed[r] \in Nat /\ sched[r] \in Nat
  BY <1>1, Types
<1>5. PoolInv' /\ (CacheInv => CacheInv') /\ (OwnInv => OwnInv')
  BY <1>1, ExecuteKeeps DEF PoolInv
<1>6. KVInv'
  BY <1>1, <1>5 DEF KVInv
<1>7. /\ computed' \in [Requests -> Nat] /\ sched' \in [Requests -> Nat]
  BY <1>2, <1>4
<1>8. cursor' \in 1 .. Len(running') + 1
  <2>1. Len(running) \in Nat
    BY <1>1, StepTypes
  <2> QED
    BY <1>2, <2>1
<1>9. TypeOK'
  BY <1>1, <1>2, <1>7, <1>8 DEF TypeOK
<1>10. RunInv'
  BY <1>1, <1>2, <1>3 DEF RunInv
<1>11. ~(want > 0) /\ ~forced
  <2>1. ~(cursor <= Len(running))
    BY <1>1, <1>2, StepTypes
  <2> QED
    BY <1>1, <1>2, <2>1 DEF StepInv, Stepping
<1>12. \A r \in Requests : computed'[r] + sched'[r] <= ntok[r]
  <2> TAKE r \in Requests
  <2>1. computed[r] + sched[r] <= ntok[r]
    BY <1>1 DEF StepInv
  <2> QED
    BY <1>3, <1>4, <2>1
<1>13. \A i \in 1..Len(running) : sched'[running[i]] = 0
  BY <1>1, <1>3, StepTypes
<1>14. StepInv'
  BY <1>2, <1>11, <1>12, <1>13 DEF StepInv
<1>15. FaultFree'
  BY <1>1, <1>2 DEF FaultFree
<1> QED
  BY <1>5, <1>6, <1>9, <1>10, <1>14, <1>15 DEF SchedInv

\* A token is appended, or a request arrives.
LEMMA TokensKeep ==
  ASSUME IInv, NEW r \in Requests, Output(r) \/ Arrive(r)
  PROVE  SchedInv' /\ PoolInv' /\ KVInv'
<1>1. SchedInv /\ PoolInv /\ KVInv /\ TypeOK /\ FaultFree /\ RunInv /\ StepInv
  BY DEF IInv, SchedInv
<1>2. /\ cursor = 1 /\ open /\ ~forced
      /\ UNCHANGED <<pool, table, cached, running, cursor, want, open, sched, forced,
                     computed, content, fault>>
  BY DEF Output, Arrive, Between, tables, step
<1>3. want = 0 /\ \A s \in Requests : sched[s] = 0
  BY <1>1, <1>2, IdleSched
<1>4. status \in [Requests -> {"waiting", "running", "finished"}]
  BY <1>1, StepTypes
<1>5. /\ ntok[r] \in Nat /\ Len(Text[r]) \in Nat /\ PromptLen[r] \in Nat /\ computed[r] \in Nat
      /\ ntok[r] \in PromptLen[r] .. Len(Text[r]) /\ PromptLen[r] <= Len(Text[r])
  <2>1. /\ ntok[r] \in Nat /\ Len(Text[r]) \in Nat /\ computed[r] \in Nat
        /\ ntok[r] \in PromptLen[r] .. Len(Text[r])
    BY <1>1, Types DEF TypeOK
  <2>2. PromptLen[r] \in 1 .. Len(Text[r])
    BY PoolAssumption
  <2> QED
    BY <2>1, <2>2
<1>6. /\ \A s \in Requests : status'[s] = "running" <=> status[s] = "running"
      /\ status' \in [Requests -> {"waiting", "running", "finished"}]
      /\ \E x \in PromptLen[r] .. Len(Text[r]) :
           ntok' = [ntok EXCEPT ![r] = x] /\ computed[r] <= x
  <2>1. CASE Output(r)
    <3>1. /\ status' = status /\ ntok' = [ntok EXCEPT ![r] = ntok[r] + 1]
          /\ ntok[r] < Len(Text[r]) /\ computed[r] = ntok[r]
      BY <2>1 DEF Output, Sampled
    <3>2. ntok[r] + 1 \in PromptLen[r] .. Len(Text[r]) /\ computed[r] <= ntok[r] + 1
      BY <1>5, <3>1
    <3> QED
      BY <1>4, <3>1, <3>2
  <2>2. CASE Arrive(r)
    <3>1. /\ status[r] = "finished" /\ ntok' = [ntok EXCEPT ![r] = PromptLen[r]]
          /\ status' = [status EXCEPT ![r] = "waiting"]
      BY <2>2 DEF Arrive
    <3>2. computed[r] = 0
      BY <1>1, <3>1 DEF RunInv
    <3>3. PromptLen[r] \in PromptLen[r] .. Len(Text[r]) /\ computed[r] <= PromptLen[r]
      BY <1>5, <3>2
    <3> QED
      BY <1>4, <3>1, <3>3
  <2> QED
    BY <2>1, <2>2
<1>7. PICK x \in PromptLen[r] .. Len(Text[r]) :
        ntok' = [ntok EXCEPT ![r] = x] /\ computed[r] <= x
  BY <1>6
<1>8. x \in Nat
  BY <1>5
<1>9. /\ ntok' \in [Requests -> Nat]
      /\ \A s \in Requests : ntok'[s] = IF s = r THEN x ELSE ntok[s]
  BY <1>1, <1>7, <1>8, Types
<1>10. \A s \in Requests : ntok'[s] \in PromptLen[s] .. Len(Text[s])
  BY <1>1, <1>9 DEF TypeOK
<1>11. TypeOK'
  BY <1>1, <1>2, <1>6, <1>9, <1>10 DEF TypeOK
<1>12. RunInv'
  BY <1>1, <1>2, <1>6 DEF RunInv
<1>13. \A s \in Requests : computed'[s] + sched'[s] <= ntok'[s]
  <2> TAKE s \in Requests
  <2>1. CASE s = r
    <3>1. computed'[s] + sched'[s] = computed[r]
      BY <1>2, <1>3, <1>5, <2>1
    <3> QED
      BY <1>7, <1>9, <2>1, <3>1
  <2>2. CASE s # r
    BY <1>1, <1>2, <1>9, <2>2 DEF StepInv
  <2> QED
    BY <2>1, <2>2
<1>14. StepInv'
  <2>1. ~(want' > 0) /\ ~forced'
    BY <1>2, <1>3
  <2>2. \A i \in 1..Len(running) : sched[running[i]] = 0
    BY <1>1, <1>3, StepTypes
  <2> QED
    BY <1>2, <1>13, <2>1, <2>2 DEF StepInv
<1>15. PoolInv' /\ KVInv'
  BY <1>1, <1>2, Unchanged DEF KVInv
<1>16. FaultFree'
  BY <1>1, <1>2 DEF FaultFree
<1> QED
  BY <1>11, <1>12, <1>14, <1>15, <1>16 DEF SchedInv

\* The prefix cache is reset, when nothing is in use or after all was preempted.
LEMMA ResetInv ==
  ASSUME IInv, Reset \/ ResetForced
  PROVE  SchedInv' /\ PoolInv' /\ KVInv'
<1>1. SchedInv /\ PoolInv /\ KVInv /\ TypeOK /\ FaultFree /\ RunInv /\ StepInv
  BY DEF IInv, SchedInv
<1>2. /\ ResetAllowed /\ CacheReset /\ fault' = fault /\ forced' \in BOOLEAN
      /\ cursor = 1 /\ open
      /\ UNCHANGED <<running, cursor, want, open, sched>>
  <2>1. CASE Reset
    <3>1. forced' = forced /\ forced \in BOOLEAN
      BY <1>1, <2>1, StepTypes DEF Reset, step
    <3> QED
      BY <2>1, <3>1 DEF Reset, step, Between
  <2>2. CASE ResetForced
    <3>1. /\ running = <<>> /\ forced /\ forced' = FALSE
          /\ UNCHANGED <<running, cursor, want, open, sched>>
          /\ ResetAllowed => CacheReset /\ fault' = fault
      BY <2>2 DEF ResetForced
    <3>2. \A r \in Requests : table[r] = <<>>
      BY <1>1, <3>1 DEF RunInv, Range
    <3>3. ResetAllowed
      BY <1>1, <3>2, AllFree DEF PoolInv
    <3>4. cursor = 1 /\ open
      BY <1>1, <3>1 DEF StepInv
    <3> QED
      BY <3>1, <3>3, <3>4
  <2> QED
    BY <2>1, <2>2
<1>3. table' = table /\ cached' = cached /\ computed' = computed /\ ntok' = ntok
      /\ status' = status
  BY <1>2 DEF CacheReset
<1>4. pool' \in PoolType /\ PoolInv' /\ CacheInv' /\ OwnInv'
  BY <1>1, <1>2, ResetKeeps
<1>5. KVInv'
  BY <1>4 DEF KVInv
<1>6. TypeOK'
  BY <1>1, <1>2, <1>3, <1>4 DEF TypeOK
<1>7. RunInv'
  BY <1>1, <1>2, <1>3 DEF RunInv
<1>8. StepInv'
  BY <1>1, <1>2, <1>3 DEF StepInv
<1>9. FaultFree'
  BY <1>1, <1>2 DEF FaultFree
<1> QED
  BY <1>4, <1>5, <1>6, <1>7, <1>8, <1>9 DEF SchedInv

-----------------------------------------------------------------------------
(***************************************************************************)
(* The invariant holds in every reachable state.                           *)
(***************************************************************************)
\* An engine that starts: every block is free and nobody holds one.
LEMMA InitInv == Init => IInv
<1> SUFFICES ASSUME Init PROVE IInv
  OBVIOUS
<1>1. /\ pool = InitPool /\ table = [r \in Requests |-> <<>>]
      /\ cached = [r \in Requests |-> 0] /\ computed = [r \in Requests |-> 0]
      /\ ntok = PromptLen /\ status = [r \in Requests |-> "waiting"]
      /\ running = <<>> /\ cursor = 1 /\ want = 0 /\ open = TRUE
      /\ sched = [r \in Requests |-> 0] /\ forced = FALSE /\ fault = FALSE
  BY DEF Init
<1>2. PICK f : f = [i \in 1 .. NumBlocks - 1 |-> i]
  OBVIOUS
<1>3. f \in Seq(Blocks) /\ Len(f) = NumBlocks - 1 /\ \A i \in Blocks : f[i] = i
  <2>1. PICK N \in Nat : N >= 1 /\ N = NumBlocks
    BY PoolAssumption
  <2>2. PICK n \in Nat : n = N - 1
    BY <2>1
  <2>3. f \in [1..n -> Blocks]
    BY <1>2, <2>1, <2>2 DEF Blocks
  <2>4. f \in Seq(Blocks) /\ Len(f) = n
    BY <2>2, <2>3, LenOf
  <2> QED
    BY <1>2, <2>1, <2>2, <2>4 DEF Blocks
<1>4. PICK R, H, M : /\ R = [b \in Blocks |-> 0] /\ H = [b \in Blocks |-> NoHash]
                     /\ M = [h \in Hashes |-> {}]
  OBVIOUS
<1>5. pool = [free |-> f, ref |-> R, hash |-> H, map |-> M, stored |-> {}]
  BY <1>1, <1>2, <1>4 DEF InitPool
<1>6. pool \in PoolType
  BY <1>3, <1>4, <1>5 DEF PoolType
<1>7. /\ pool.free = f /\ pool.stored = {}
      /\ \A b \in Blocks : pool.ref[b] = 0 /\ pool.hash[b] = NoHash
  BY <1>4, <1>5
<1>8. \A r \in Requests : /\ table[r] = <<>> /\ cached[r] = 0 /\ computed[r] = 0
                          /\ sched[r] = 0 /\ status[r] = "waiting"
  BY <1>1
<1>9. /\ Len(running) = 0 /\ Range(running) = {} /\ running \in Seq(Requests)
      /\ \A r \in Requests : table[r] \in Seq(Blocks) /\ Len(table[r]) = 0 /\ Range(table[r]) = {}
  BY <1>1, <1>8 DEF Range
<1>10. TypeOK
  <2>1. \A r \in Requests : ntok[r] \in PromptLen[r] .. Len(Text[r])
    <3> SUFFICES ASSUME NEW r \in Requests PROVE ntok[r] \in PromptLen[r] .. Len(Text[r])
      OBVIOUS
    <3>1. PromptLen[r] \in 1 .. Len(Text[r]) /\ ntok[r] = PromptLen[r] /\ Text[r] \in Seq(Nat)
      BY <1>1, PoolAssumption
    <3>2. Len(Text[r]) \in Nat
      BY <3>1
    <3> QED
      BY <3>1, <3>2
  <2>2. ntok \in [Requests -> Nat]
    BY <1>1, PoolAssumption
  <2>3. table \in [Requests -> Seq(Blocks)]
    BY <1>1
  <2>4. /\ cached \in [Requests -> Nat] /\ computed \in [Requests -> Nat]
        /\ sched \in [Requests -> Nat]
        /\ status \in [Requests -> {"waiting", "running", "finished"}]
    BY <1>1
  <2>5. cursor \in 1 .. Len(running) + 1
    BY <1>1, <1>9
  <2> QED
    BY <1>1, <1>6, <1>9, <2>1, <2>2, <2>3, <2>4, <2>5 DEF TypeOK
<1>11. RunInv
  BY <1>8, <1>9 DEF RunInv, Distinct
<1>12. StepInv
  <2>1. \A r \in Requests : computed[r] + sched[r] <= ntok[r]
    BY <1>8, <1>10, Types
  <2> QED
    BY <1>1, <1>9, <2>1 DEF StepInv
<1>13. RefInv
  <2>1. ASSUME NEW b \in Blocks PROVE pool.ref[b] = Cardinality(Holders(b))
    <3>1. Holders(b) = {}
      BY <1>9 DEF Holders
    <3> QED
      BY <1>7, <3>1, FS_EmptySet
  <2>2. ASSUME NEW b \in Blocks PROVE b \in Range(pool.free)
    <3>1. DOMAIN f = Blocks /\ f[b] = b
      BY <1>2, <1>3 DEF Blocks
    <3> QED
      BY <1>7, <3>1 DEF Range
  <2>3. Distinct(pool.free)
    BY <1>3, <1>7 DEF Distinct, Blocks
  <2> QED
    BY <1>7, <2>1, <2>2, <2>3 DEF RefInv
<1>14. TableInv
  <2>1. 0 * BlockSize = 0 /\ BlockSize \in Nat /\ BlockSize > 0
    BY PoolAssumption
  <2> SUFFICES ASSUME NEW r \in Requests
               PROVE  /\ Distinct(table[r])
                      /\ computed[r] + sched[r] <= Len(table[r]) * BlockSize
                      /\ cached[r] * BlockSize <= computed[r] + sched[r]
                      /\ computed[r] + sched[r] < cached[r] * BlockSize + BlockSize
                      /\ \A i \in 1..Len(table[r]) :
                           pool.hash[table[r][i]] = IF i <= cached[r] THEN Hash(r, i)
                                                    ELSE NoHash
    BY DEF TableInv
  <2>2. Len(table[r]) = 0 /\ cached[r] = 0 /\ computed[r] = 0 /\ sched[r] = 0
    BY <1>8, <1>9
  <2>3. Distinct(table[r])
    BY <2>2 DEF Distinct
  <2> QED
    BY <2>1, <2>2, <2>3
<1>15. ShareInv
  BY <1>9 DEF ShareInv
<1>16. StoredInv
  BY <1>7 DEF StoredInv
<1>17. OrderInv
  BY <1>7 DEF OrderInv
<1>18. CacheInv
  BY <1>7 DEF CacheInv
<1>19. OwnInv
  BY <1>9 DEF OwnInv
<1>20. FaultFree
  BY <1>1 DEF FaultFree
<1> QED
  BY <1>10, <1>11, <1>12, <1>13, <1>14, <1>15, <1>16, <1>17, <1>18, <1>19, <1>20, AgreesInit
     DEF IInv, SchedInv, PoolInv, KVInv

\* Every step keeps it.
LEMMA NextInv == IInv /\ [Next]_vars => IInv'
<1> SUFFICES ASSUME IInv, [Next]_vars PROVE IInv'
  OBVIOUS
<1>1. PoolAgrees'
  BY AgreesNext DEF IInv
<1>2. ASSUME NEW r \in Requests, Schedule(r) \/ Preempt(r) \/ Admit(r) \/ Refuse(r)
      PROVE  SchedInv' /\ PoolInv' /\ KVInv'
  BY <1>2, ScheduleKeeps, PreemptKeeps, AdmitKeeps, RefuseKeeps
<1>3. ASSUME NEW r \in Requests, Output(r) \/ Finish(r) \/ Arrive(r) \/ ResetPreempt(r)
      PROVE  SchedInv' /\ PoolInv' /\ KVInv'
  BY <1>3, TokensKeep, FinishKeeps, ResetPreemptKeeps
<1>4. CASE Skip \/ Execute \/ Reset \/ ResetForced
  BY <1>1, <1>4, SkipKeeps, ExecuteInv, ResetInv DEF IInv
<1>5. CASE UNCHANGED vars
  <2>1. /\ UNCHANGED <<pool, table, cached, computed, sched, content>>
        /\ UNCHANGED <<ntok, status, running, cursor, want, open, forced, fault>>
    BY <1>5 DEF vars, tables, step
  <2>2. SchedInv' <=> SchedInv
    BY <2>1 DEF SchedInv, TypeOK, FaultFree, RunInv, StepInv
  <2>3. PoolInv' /\ (CacheInv => CacheInv') /\ (OwnInv => OwnInv')
    BY <2>1, Unchanged DEF IInv
  <2> QED
    BY <1>1, <2>2, <2>3 DEF IInv, KVInv
<1> QED
  BY <1>1, <1>2, <1>3, <1>4, <1>5 DEF Next, IInv

(* The inductive invariant, of which the theorems below are consequences.    *)
THEOREM Invariance == Spec => []IInv
BY InitInv, NextInv, PTL DEF Spec

(* Every state of the pool and of the scheduler has its type.                *)
THEOREM TypeCorrect == Spec => []TypeOK
<1>1. IInv => TypeOK
  BY DEF IInv, SchedInv
<1> QED
  BY <1>1, Invariance, PTL

(* No assertion of allocate_slots, get_new_blocks or cache_full_blocks fails, *)
(* a request that fits finds its blocks, and a forced reset succeeds.         *)
THEOREM NoFault == Spec => []FaultFree
<1>1. IInv => FaultFree
  BY DEF IInv, SchedInv
<1> QED
  BY <1>1, Invariance, PTL

(* A block's reference count is the number of requests that hold it, and the *)
(* free queue holds the blocks nobody refers to, once each.                  *)
THEOREM RefsCorrect == Spec => []RefsAreHolders
<1>1. ASSUME IInv PROVE RefsAreHolders
  <2>1. TypeOK /\ RefInv
    BY <1>1 DEF IInv, SchedInv, PoolInv
  <2>2. pool.free \in Seq(Blocks)
    BY <2>1, Types
  <2>3. Range(pool.free) \subseteq Blocks
    BY <2>2 DEF Range
  <2>4. Range(pool.free) = {b \in Blocks : pool.ref[b] = 0}
    BY <2>1, <2>3 DEF RefInv
  <2>5. Len(pool.free) = Cardinality(Range(pool.free))
    BY <2>1, <2>2, DistinctCardinality DEF RefInv
  <2>6. \A b \in Blocks :
          pool.ref[b] = Cardinality({r \in Requests : b \in Range(table[r])})
    BY <2>1 DEF RefInv, Holders
  <2> QED
    BY <2>4, <2>5, <2>6 DEF RefsAreHolders
<1> QED
  BY <1>1, Invariance, PTL

(* A hash that a subscriber of the KV events holds can be hit.               *)
THEOREM NoPhantomHolds == Spec => []NoPhantom
<1>1. ASSUME IInv PROVE NoPhantom
  <2> SUFFICES ASSUME NEW h \in pool.stored PROVE pool.map[h] # {}
    BY DEF NoPhantom
  <2>1. StoredInv /\ PoolAgrees /\ TypeOK
    BY <1>1 DEF IInv, SchedInv, PoolInv
  <2>2. PICK b \in Blocks : pool.hash[b] = h
    BY <2>1 DEF StoredInv
  <2>3. h \in Hashes
    BY <2>1 DEF TypeOK, PoolType
  <2> QED
    BY <2>1, <2>2, <2>3 DEF PoolAgrees, Agrees
<1> QED
  BY <1>1, Invariance, PTL

(* A cached block that is free leaves the pool before the block its prefix   *)
(* ends in, and one in use holds it through its holder: the cache is closed  *)
(* under prefixes, which find_longest_cache_hit relies on when it stops at   *)
(* the first miss.                                                           *)
THEOREM PrefixClosedHolds == Spec => []PrefixClosed
<1>1. ASSUME IInv PROVE PrefixClosed
  <2> SUFFICES ASSUME NEW h \in Hashes, Len(h) > BlockSize, pool.map[h] # {}
               PROVE  pool.map[SubSeq(h, 1, Len(h) - BlockSize)] # {}
    BY DEF PrefixClosed
  <2>1. /\ PoolAgrees /\ TypeOK /\ StepInv /\ RefInv /\ TableInv /\ OrderInv
    BY <1>1 DEF IInv, SchedInv, PoolInv
  <2>2. PICK b \in Blocks : b \in pool.map[h] /\ pool.hash[b] = h
    BY <2>1 DEF PoolAgrees, Agrees, TypeOK, PoolType
  <2>3. PICK g : g = SubSeq(h, 1, Len(h) - BlockSize)
    OBVIOUS
  <2>4. PICK r \in Requests, i \in Nat : i >= 1 /\ Full(r, i) /\ h = Hash(r, i)
    BY HashOf
  <2>5. i > 1 /\ Full(r, i - 1) /\ g = Hash(r, i - 1)
    BY <2>3, <2>4, HashParent
  <2>6. g \in Hashes
    <3>1. i - 1 >= 1
      BY <2>5
    <3> QED
      BY <2>5, <3>1, HashLen
  <2>7. \E c \in Blocks : pool.hash[c] = g
    <3>1. CASE pool.ref[b] = 0
      BY <2>1, <2>2, <2>3, <3>1, HashIsNotNoHash DEF OrderInv
    <3>2. CASE pool.ref[b] # 0
      <4>1. pool.ref[b] \in Nat
        BY <2>1, Types
      <4>2. PICK s \in Requests : b \in Range(table[s])
        BY <2>1, <3>2, <4>1, HeldRef
      <4>3. table[s] \in Seq(Blocks)
        BY <2>1, Types
      <4>4. PICK j \in 1..Len(table[s]) : table[s][j] = b
        BY <4>2, <4>3 DEF Range
      <4>5. j <= cached[s]
        BY <2>1, <2>2, <4>4, HashIsNotNoHash DEF TableInv
      <4>6. Full(s, j) /\ Hash(s, j) = h
        BY <2>1, <2>2, <4>4, <4>5, CachedFull
      <4>7. j = i
        BY <2>4, <4>6, HashPlace
      <4>8. PICK c \in Nat, n \in Nat : c = cached[s] /\ n = Len(table[s])
        BY <2>1, <4>3, Types
      <4>9. i - 1 \in 1..Len(table[s]) /\ i - 1 <= cached[s]
        BY <2>5, <4>4, <4>5, <4>7, <4>8
      <4>10. pool.hash[table[s][i - 1]] = Hash(s, i - 1)
        BY <2>1, <4>9, CachedFull
      <4>11. Hash(s, i - 1) = g
        BY <2>3, <4>6, <4>7, <2>4, HashParent
      <4>12. table[s][i - 1] \in Blocks
        BY <4>3, <4>9
      <4> QED
        BY <4>10, <4>11, <4>12
    <3> QED
      BY <3>1, <3>2
  <2> QED
    BY <2>1, <2>3, <2>6, <2>7 DEF PoolAgrees, Agrees
<1> QED
  BY <1>1, Invariance, PTL

\* Between two steps nothing is due.
LEMMA IdleDue ==
  ASSUME SchedInv, Between, NEW b, NEW h
  PROVE  ~Due(b, h)
<1> SUFFICES ASSUME Due(b, h) PROVE FALSE
  OBVIOUS
<1>1. PICK r \in Requests : \E i \in 1..Len(table[r]) :
        computed[r] < i * BlockSize /\ i * BlockSize <= computed[r] + sched[r]
  BY DEF Due
<1>2. PICK i \in 1..Len(table[r]) :
        computed[r] < i * BlockSize /\ i * BlockSize <= computed[r] + sched[r]
  BY <1>1
<1>3. sched[r] = 0
  BY IdleSched DEF Between
<1>4. computed[r] \in Nat /\ table[r] \in Seq(Blocks)
  BY Types DEF SchedInv
<1>5. i \in Nat
  BY <1>4
<1>6. PICK x \in Nat : x = i * BlockSize
  BY <1>5, Times
<1> QED
  BY <1>2, <1>3, <1>4, <1>6

(* Under FCFS what a lookup returns between two steps has been computed and  *)
(* is what its hash says.  (Under PRIORITY a request that is in the step can *)
(* be preempted, and CachedKVRight fails.)                                   *)
THEOREM CachedKVHolds == ~Priority => (Spec => []CachedKVRight)
<1> SUFFICES ASSUME ~Priority PROVE Spec => []CachedKVRight
  OBVIOUS
<1>1. ASSUME IInv PROVE CachedKVRight
  <2> SUFFICES ASSUME Between, NEW h \in Hashes, NEW b \in pool.map[h]
               PROVE  content[b] = h
    BY DEF CachedKVRight
  <2>1. PoolAgrees /\ SchedInv /\ TypeOK /\ CacheInv
    BY <1>1 DEF IInv, SchedInv, KVInv
  <2>2. b \in Blocks
    BY <2>1 DEF TypeOK, PoolType
  <2>3. pool.hash[b] = h /\ h # NoHash
    BY <2>1, <2>2, HashIsNotNoHash DEF PoolAgrees, Agrees
  <2>4. ~Due(b, h)
    BY <2>1, IdleDue
  <2> QED
    BY <2>1, <2>2, <2>3, <2>4 DEF CacheInv
<1> QED
  BY <1>1, Invariance, PTL

(* Under FCFS a request reads its own KV: once the step has run, the blocks  *)
(* of its table hold the prefix of its text that it has computed or hit.     *)
THEOREM OwnKVHolds == ~Priority => (Spec => []TablesHoldOwnKV)
<1> SUFFICES ASSUME ~Priority PROVE Spec => []TablesHoldOwnKV
  OBVIOUS
<1>1. ASSUME IInv PROVE TablesHoldOwnKV
  <2> SUFFICES ASSUME Between, NEW r \in Requests,
                      NEW i \in 1 .. Cdiv(computed[r], BlockSize)
               PROVE  content[table[r][i]] = Prefix(r, MinOf(i * BlockSize, computed[r]))
    BY DEF TablesHoldOwnKV
  <2>1. SchedInv /\ TypeOK /\ TableInv /\ OwnInv
    BY <1>1 DEF IInv, SchedInv, PoolInv, KVInv
  <2>2. PICK c \in Nat, n \in Nat : c = computed[r] /\ n = Len(table[r])
    <3>1. computed[r] \in Nat /\ table[r] \in Seq(Blocks)
      BY <2>1, Types
    <3> QED
      BY <3>1
  <2>3. PICK d \in Nat : d = Cdiv(c, BlockSize)
    BY <2>2, Divides
  <2>4. PICK j \in Nat : j = i - 1
    BY <2>2, <2>3
  <2>5. j * BlockSize < c
    BY <2>2, <2>3, <2>4, CeilingIs
  <2>6. c <= n * BlockSize
    <3>1. sched[r] = 0
      BY <2>1, IdleSched DEF Between
    <3>2. computed[r] + sched[r] <= Len(table[r]) * BlockSize
      BY <2>1 DEF TableInv
    <3> QED
      BY <2>2, <3>1, <3>2
  <2>7. j < n
    <3>1. PICK x \in Nat, y \in Nat : x = j * BlockSize /\ y = n * BlockSize
      BY <2>2, <2>4, Times
    <3>2. x < y
      BY <2>2, <2>5, <2>6, <3>1
    <3> QED
      BY <2>2, <2>4, <3>1, <3>2, Times
  <2>8. i \in 1..Len(table[r]) /\ (i - 1) * BlockSize < computed[r]
    <3>1. i = j + 1
      BY <2>3, <2>4, <2>2
    <3> QED
      BY <2>2, <2>4, <2>5, <2>7, <3>1
  <2>9. ~Due(table[r][i], Hash(r, i))
    BY <2>1, IdleDue
  <2> QED
    BY <2>1, <2>8, <2>9 DEF OwnInv
<1> QED
  BY <1>1, Invariance, PTL

-----------------------------------------------------------------------------
(***************************************************************************)
(* KV in use is not disturbed.                                             *)
(***************************************************************************)
\* A block in a table is not one that allocate_slots takes, so it keeps its hash.
LEMMA AllocUndisturbed ==
  ASSUME TypeOK, PoolInv, NEW r \in Requests, NEW hits \in Seq(Blocks), NEW n \in Nat,
         Ask(r, hits, n), Allocate(r, hits, n), NEW s \in Requests,
         NEW b \in Range(table[s]), pool.hash[b] # NoHash
  PROVE  pool'.hash[b] = pool.hash[b]
<1>1. RefInv /\ TableInv
  BY DEF PoolInv
<1>2. PICK q, k, new, bs, lo, hi, m, t : Alloc(r, hits, n, q, k, new, bs, lo, hi, m, t)
  BY <1>1, AllocateDone
<1>3. table[s] \in Seq(Blocks)
  BY Types
<1>4. b \in Blocks
  BY <1>3 DEF Range
<1>5. pool.ref[b] > 0
  BY <1>1, <1>4, HeldRef
<1>6. b \notin Range(new)
  <2>1. \A c \in Range(new) : pool.ref[c] = 0
    BY <1>2 DEF Alloc, QueueOK
  <2> QED
    BY <1>5, <2>1
<1> QED
  BY <1>2, <1>4, <1>6, AllocHash

\* The model writes into such a block nothing but what it holds.
LEMMA ExecuteUndisturbed ==
  ASSUME TypeOK, StepInv, PoolInv, Execute, NEW b \in Blocks, pool.hash[b] # NoHash,
         content[b] = pool.hash[b]
  PROVE  content'[b] = content[b]
<1>1. TableInv /\ ShareInv
  BY DEF PoolInv
<1>2. content'[b] = Written(b)
  BY DEF Execute
<1>3. CASE \A r \in Requests : \A i \in 1..Len(table[r]) : ~Writes(r, i, b)
  BY <1>1, <1>2, <1>3, WrittenIs
<1>4. CASE ~(\A r \in Requests : \A i \in 1..Len(table[r]) : ~Writes(r, i, b))
  <2>1. PICK r \in Requests : \E i \in 1..Len(table[r]) : Writes(r, i, b)
    BY <1>4
  <2>2. PICK i \in 1..Len(table[r]) : Writes(r, i, b)
    BY <2>1
  <2>3. Written(b) = pool.hash[b]
    BY <1>1, <2>2, WrittenHash
  <2> QED
    BY <1>2, <2>3
<1> QED
  BY <1>3, <1>4

\* A step of any kind.
LEMMA StepUndisturbed ==
  ASSUME IInv, [Next]_vars, NEW s \in Requests, NEW b \in Range(table[s]),
         pool.hash[b] # NoHash, content[b] = pool.hash[b]
  PROVE  content'[b] = content[b] /\ pool'.hash[b] = pool.hash[b]
<1>1. TypeOK /\ StepInv /\ PoolInv /\ RefInv /\ TableInv
  BY DEF IInv, SchedInv, PoolInv
<1>2. b \in Blocks
  <2>1. table[s] \in Seq(Blocks)
    BY <1>1, Types
  <2> QED
    BY <2>1 DEF Range
<1>3. ASSUME NEW r \in Requests, Schedule(r) \/ Admit(r)
      PROVE  content'[b] = content[b] /\ pool'.hash[b] = pool.hash[b]
  <2>1. PICK hits \in Seq(Blocks), n \in Nat : Ask(r, hits, n) /\ Allocate(r, hits, n)
    BY <1>3, ScheduleAsks, AdmitAsks
  <2>2. pool'.hash[b] = pool.hash[b]
    BY <1>1, <2>1, AllocUndisturbed
  <2>3. content' = content
    BY <1>3 DEF Schedule, Admit
  <2> QED
    BY <2>2, <2>3
<1>4. ASSUME NEW r \in Requests, Preempt(r) \/ Finish(r) \/ ResetPreempt(r)
      PROVE  content'[b] = content[b] /\ pool'.hash[b] = pool.hash[b]
  <2>1. Free(r) /\ content' = content
    BY <1>4 DEF Preempt, Finish, ResetPreempt, Preempted
  <2>2. PICK fst, lst : Freed(r, fst, lst)
    BY <1>1, <2>1, FreeIs
  <2> QED
    BY <2>1, <2>2 DEF Freed
<1>5. ASSUME NEW r \in Requests, Refuse(r)
      PROVE  content'[b] = content[b] /\ pool'.hash[b] = pool.hash[b]
  <2>1. PICK hits \in Hits(r) : pool' = Announce(pool, r, hits)
    BY <1>5 DEF Refuse
  <2>2. hits \in Seq(Blocks) /\ \A i \in 1..Len(hits) : Full(r, i)
    BY <1>1, HitsAre DEF IInv
  <2>3. pool \in PoolType
    BY <1>1, Types
  <2>4. pool'.hash = pool.hash
    BY <2>1, <2>2, <2>3, AnnounceIs
  <2> QED
    BY <1>5, <2>4 DEF Refuse
<1>6. ASSUME NEW r \in Requests, Output(r) \/ Arrive(r)
      PROVE  content'[b] = content[b] /\ pool'.hash[b] = pool.hash[b]
  BY <1>6 DEF Output, Arrive, tables
<1>7. CASE Skip
  BY <1>7 DEF Skip, tables
<1>8. CASE Execute
  <2>1. pool' = pool
    BY <1>8 DEF Execute, tables
  <2> QED
    BY <1>1, <1>2, <1>8, <2>1, ExecuteUndisturbed
<1>9. CASE Reset \/ ResetForced
  <2>1. ~ResetAllowed
    <3>1. table[s] # <<>>
      BY DEF Range
    <3> QED
      BY <1>1, <3>1, AllFree
  <2> QED
    BY <1>9, <2>1 DEF Reset, ResetForced, tables
<1>10. CASE UNCHANGED vars
  BY <1>10 DEF vars, tables
<1> QED
  BY <1>3, <1>4, <1>5, <1>6, <1>7, <1>8, <1>9, <1>10 DEF Next

(* While a request holds a cached block whose KV has been computed, no step  *)
(* of any request takes its hash away, writes other KV into it or resets it: *)
(* under either policy.                                                      *)
THEOREM InUseHolds == Spec => InUseUndisturbed
<1>1. ASSUME IInv, [Next]_vars
      PROVE  [\A r \in Requests : \A i \in DOMAIN table[r] \intersect DOMAIN table'[r] :
                LET b == table[r][i] IN
                pool.hash[b] # NoHash /\ content[b] = pool.hash[b] =>
                  content'[b] = content[b] /\ pool'.hash[b] = pool.hash[b]]_vars
  <2> SUFFICES ASSUME NEW r \in Requests, NEW i \in DOMAIN table[r],
                      pool.hash[table[r][i]] # NoHash,
                      content[table[r][i]] = pool.hash[table[r][i]]
               PROVE  /\ content'[table[r][i]] = content[table[r][i]]
                      /\ pool'.hash[table[r][i]] = pool.hash[table[r][i]]
    OBVIOUS
  <2>1. PICK b : b = table[r][i]
    OBVIOUS
  <2>2. b \in Range(table[r])
    BY <2>1 DEF Range
  <2>3. content'[b] = content[b] /\ pool'.hash[b] = pool.hash[b]
    BY <1>1, <2>1, <2>2, StepUndisturbed
  <2> QED
    BY <2>1, <2>3
<1> QED
  BY <1>1, Invariance, PTL DEF Spec, InUseUndisturbed
=============================================================================
