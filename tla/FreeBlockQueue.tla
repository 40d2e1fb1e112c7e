--------------------------- MODULE FreeBlockQueue ---------------------------
(***************************************************************************)
(* FreeKVCacheBlockQueue (vllm/v1/core/kv_cache_utils.py): the free blocks *)
(* as a doubly linked list threaded through the blocks themselves          *)
(* (prev_free_block, next_free_block) between a fake head and a fake tail, *)
(* with the length kept apart in num_free_blocks.  Every operation is one  *)
(* step: the pool is only used from the scheduler's thread.                *)
(***************************************************************************)
EXTENDS Integers, Sequences

CONSTANTS
  NumBlocks,    \* num_gpu_blocks
  None          \* Python's None

Blocks == 0 .. NumBlocks - 1
HeadBlock == -1             \* fake_free_list_head
TailBlock == NumBlocks      \* fake_free_list_tail
Nodes == HeadBlock .. TailBlock

ASSUME QueueAssumption ==
  /\ NumBlocks \in Nat \ {0}
  /\ None \notin Nodes

VARIABLES
  next,         \* next_free_block of every node
  prev,         \* prev_free_block of every node
  num,          \* num_free_blocks
  call          \* the last operation and the blocks it returned or was given

vars == <<next, prev, num, call>>

\* A block that is off the list has both links None.
Listed(b) == next[b] # None /\ prev[b] # None

\* The lists of blocks a caller may put in: distinct blocks, none of them on
\* the list (a block is released when its last reference goes).
Releasable ==
  {s \in UNION {[1 .. n -> Blocks] : n \in 0 .. NumBlocks} :
     /\ \A i, j \in DOMAIN s : s[i] = s[j] => i = j
     /\ \A i \in DOMAIN s : ~Listed(s[i])}

-----------------------------------------------------------------------------
Init ==
  /\ next = [b \in Nodes |-> IF b = TailBlock THEN None ELSE b + 1]
  /\ prev = [b \in Nodes |-> IF b = HeadBlock THEN None ELSE b - 1]
  /\ num = NumBlocks
  /\ call = <<"init", <<>>>>

Popleft ==
  LET first == next[HeadBlock] IN
  /\ first # TailBlock
  /\ next' = [next EXCEPT ![HeadBlock] = next[first], ![first] = None]
  /\ prev' = [prev EXCEPT ![next[first]] = HeadBlock, ![first] = None]
  /\ num' = num - 1
  /\ call' = <<"popleft", <<first>>>>

\* The nodes reached from the head in at most n steps: curr_block of the loop
\* in popleft_n.
Walk(n) ==
  LET at[i \in 0 .. n] ==
        IF i = 0 THEN HeadBlock
        ELSE IF at[i - 1] = None THEN None ELSE next[at[i - 1]]
  IN at

PopleftN(n) ==
  LET at == Walk(n + 1)
      popped == {at[i] : i \in 1 .. n}
      curr == at[n + 1] IN
  /\ n <= num                 \* assert self.num_free_blocks >= n
  /\ n > 0
  /\ num' = num - n
  /\ next' = [b \in Nodes |->
       IF b \in popped THEN None
       ELSE IF b = HeadBlock /\ curr # None THEN curr ELSE next[b]]
  /\ prev' = [b \in Nodes |->
       IF b \in popped THEN None
       ELSE IF b = curr THEN HeadBlock ELSE prev[b]]
  /\ call' = <<"popleft", [i \in 1 .. n |-> at[i]]>>

\* Bug: the block leaves the list and is still counted.
RemoveKeepingCount(b) ==
  /\ Listed(b)
  /\ next' = [next EXCEPT ![prev[b]] = next[b], ![b] = None]
  /\ prev' = [prev EXCEPT ![next[b]] = prev[b], ![b] = None]
  /\ call' = <<"remove", <<b>>>>
  /\ UNCHANGED num

Remove(b) ==
  /\ Listed(b)
  /\ next' = [next EXCEPT ![prev[b]] = next[b], ![b] = None]
  /\ prev' = [prev EXCEPT ![next[b]] = prev[b], ![b] = None]
  /\ num' = num - 1
  /\ call' = <<"remove", <<b>>>>

Append1(b) ==
  LET last == prev[TailBlock] IN
  /\ ~Listed(b)
  /\ next' = [next EXCEPT ![last] = b, ![b] = TailBlock]
  /\ prev' = [prev EXCEPT ![b] = last, ![TailBlock] = b]
  /\ num' = num + 1
  /\ call' = <<"append", <<b>>>>

\* The links after the blocks of s have been chained between the nodes a and z.
ChainedNext(s, a, z) == [b \in Nodes |->
  IF b = a THEN s[1]
  ELSE IF \E i \in DOMAIN s : s[i] = b
       THEN LET i == CHOOSE i \in DOMAIN s : s[i] = b
            IN  IF i = Len(s) THEN z ELSE s[i + 1]
       ELSE next[b]]

ChainedPrev(s, a, z) == [b \in Nodes |->
  IF b = z THEN s[Len(s)]
  ELSE IF \E i \in DOMAIN s : s[i] = b
       THEN LET i == CHOOSE i \in DOMAIN s : s[i] = b
            IN  IF i = 1 THEN a ELSE s[i - 1]
       ELSE prev[b]]

\* Bug: each block goes in front of the ones before it.
PrependReversed(s) ==
  LET n == Len(s)
      r == [i \in 1 .. n |-> s[n + 1 - i]] IN
  /\ n > 0
  /\ next' = ChainedNext(r, HeadBlock, next[HeadBlock])
  /\ prev' = ChainedPrev(r, HeadBlock, next[HeadBlock])
  /\ num' = num + n
  /\ call' = <<"prepend", s>>

PrependN(s) ==
  /\ Len(s) > 0
  /\ next' = ChainedNext(s, HeadBlock, next[HeadBlock])
  /\ prev' = ChainedPrev(s, HeadBlock, next[HeadBlock])
  /\ num' = num + Len(s)
  /\ call' = <<"prepend", s>>

AppendN(s) ==
  /\ Len(s) > 0
  /\ next' = ChainedNext(s, prev[TailBlock], TailBlock)
  /\ prev' = ChainedPrev(s, prev[TailBlock], TailBlock)
  /\ num' = num + Len(s)
  /\ call' = <<"append", s>>

Next ==
  \/ Popleft
  \/ \E n \in 1 .. NumBlocks : PopleftN(n)
  \/ \E b \in Blocks : Remove(b) \/ Append1(b)
  \/ \E s \in Releasable : PrependN(s) \/ AppendN(s)

Spec == Init /\ [][Next]_vars
-----------------------------------------------------------------------------
\* get_all_free_blocks: the blocks met from the fake head to the fake tail.
FreeList ==
  LET at == Walk(NumBlocks + 1)
      ends == {k \in 1 .. NumBlocks + 1 : at[k] = TailBlock}
  IN  [i \in 1 .. (CHOOSE k \in ends : \A j \in ends : k <= j) - 1 |-> at[i]]

(* Type invariant. *)
TypeOK ==
  /\ next \in [Nodes -> Nodes \union {None}]
  /\ prev \in [Nodes -> Nodes \union {None}]
  /\ num \in 0 .. NumBlocks

(* The two threads of links agree: the backward link of the node after b is  *)
(* b, and a block has either both links or neither.  remove() trusts this to *)
(* take a hit block out of the middle, popleft_n() to reconnect the head.    *)
LinksAgree ==
  /\ \A b \in Nodes \ {TailBlock} : next[b] # None =>
       next[b] # HeadBlock /\ prev[next[b]] = b
  /\ \A b \in Nodes \ {HeadBlock} : prev[b] # None =>
       prev[b] # TailBlock /\ next[prev[b]] = b
  /\ \A b \in Blocks : (next[b] = None) <=> (prev[b] = None)

(* num_free_blocks, on which every admission decision rests, is the number   *)
(* of blocks on the list, and every block with links is on that list: no     *)
(* block is lost by an operation at the ends or in the middle.               *)
CountAgrees ==
  /\ num = Len(FreeList)
  /\ \A b \in Blocks : Listed(b) => \E i \in DOMAIN FreeList : FreeList[i] = b

Queue == INSTANCE BlockQueue WITH queue <- FreeList

(* The linked list implements the queue of free blocks: each operation does  *)
(* to the order of the blocks what the pool expects of it.                   *)
ImplementsQueue == Queue!Spec
=============================================================================
