----------------------------- MODULE BlockQueue -----------------------------
(***************************************************************************)
(* What FreeKVCacheBlockQueue promises to the block pool                   *)
(* (vllm/v1/core/kv_cache_utils.py): the free blocks in eviction order, as *)
(* one sequence without repetitions.  Allocation takes from the front; a   *)
(* cache hit takes a block out of the middle; a release puts blocks at     *)
(* either end.                                                             *)
(***************************************************************************)
EXTENDS Naturals, Sequences

CONSTANT NumBlocks      \* num_gpu_blocks, the null block 0 included

Blocks == 0 .. NumBlocks - 1

\* The sequences of distinct blocks that are not in q: what a caller may put in.
Fresh(q) ==
  {s \in UNION {[1 .. n -> Blocks] : n \in 0 .. NumBlocks - Len(q)} :
     /\ \A i, j \in DOMAIN s : s[i] = s[j] => i = j
     /\ \A i \in DOMAIN s, k \in DOMAIN q : s[i] # q[k]}

-----------------------------------------------------------------------------
\* The operations, as functions of the sequence.

\* The elements of s that are in S, in their order.
Keep(s, S) ==
  LET kept[i \in 0 .. Len(s)] ==
        IF i = 0 THEN <<>>
        ELSE IF s[i] \in S THEN Append(kept[i - 1], s[i]) ELSE kept[i - 1]
  IN  kept[Len(s)]

PoppedN(q, n) == SubSeq(q, 1, n)
AfterPopN(q, n) == SubSeq(q, n + 1, Len(q))
AfterRemove(q, S) == Keep(q, {q[i] : i \in DOMAIN q} \ S)
AfterPrependN(q, s) == s \o q
AfterAppendN(q, s) == q \o s

-----------------------------------------------------------------------------
VARIABLES
  queue,        \* the free blocks, the next one to be allocated first
  call          \* the last operation and the blocks it returned or was given

Init ==
  /\ queue = [i \in 1 .. NumBlocks |-> i - 1]
  /\ call = <<"init", <<>>>>

PopleftN == \E n \in 1 .. Len(queue) :
  /\ queue' = AfterPopN(queue, n)
  /\ call' = <<"popleft", PoppedN(queue, n)>>

Remove == \E i \in DOMAIN queue :
  /\ queue' = AfterRemove(queue, {queue[i]})
  /\ call' = <<"remove", <<queue[i]>>>>

PrependN == \E s \in Fresh(queue) :
  /\ queue' = AfterPrependN(queue, s)
  /\ call' = <<"prepend", s>>

AppendN == \E s \in Fresh(queue) :
  /\ queue' = AfterAppendN(queue, s)
  /\ call' = <<"append", s>>

Next == PopleftN \/ Remove \/ PrependN \/ AppendN

Spec == Init /\ [][Next]_<<queue, call>>
=============================================================================
