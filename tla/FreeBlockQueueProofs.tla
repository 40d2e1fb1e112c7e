------------------------ MODULE FreeBlockQueueProofs ------------------------
(***************************************************************************)
(* Proofs about FreeBlockQueue, for every number of blocks: the links form *)
(* one list whose length is the counter, and the list implements the       *)
(* sequence of free blocks.  The invariant names that sequence; an         *)
(* operation either cuts a stretch out of it or inserts one.               *)
(***************************************************************************)
EXTENDS FreeBlockQueue, FiniteSetTheorems, SequenceTheorems, TLAPS

-----------------------------------------------------------------------------
(***************************************************************************)
(* Induction over the numbers up to n.                                     *)
(***************************************************************************)
\* A set of numbers has a smallest one.
LEMMA Smallest ==
  ASSUME NEW T, T \subseteq Nat, T # {}
  PROVE  \E n \in T : \A m \in T : n <= m
<1>1. PICK x \in T : \A y \in T : ~(<<y, x>> \in OpToRel(<, Nat))
  BY NatLessThanWellFounded, WFMin
<1>2. \A y \in T : ~(<<y, x>> \in {ss \in Nat \X Nat : ss[1] < ss[2]})
  BY <1>1 DEF OpToRel
<1>3. \A y \in T : ~(y < x)
  <2> SUFFICES ASSUME NEW y \in T, y < x PROVE FALSE
    OBVIOUS
  <2>1. <<y, x>> \in Nat \X Nat /\ <<y, x>>[1] = y /\ <<y, x>>[2] = x
    OBVIOUS
  <2> QED
    BY <1>2, <2>1
<1> QED
  BY <1>3

\* What holds of 0 and is handed on from i - 1 to i holds up to n.
LEMMA Induction ==
  ASSUME NEW n \in Nat, NEW G, 0 \in G,
         \A i \in 1..n : i - 1 \in G => i \in G
  PROVE  0..n \subseteq G
<1> DEFINE T == (0..n) \ G
<1>1. T \subseteq Nat
  OBVIOUS
<1>2. ASSUME T # {} PROVE FALSE
  <2> HIDE DEF T
  <2>1. PICK m \in T : \A k \in T : m <= k
    BY <1>1, <1>2, Smallest
  <2>2. m \in 0..n /\ m \notin G
    BY DEF T
  <2>3. m # 0
    BY <2>2
  <2>4. m \in 1..n /\ m - 1 \in 0..n /\ ~(m <= m - 1)
    BY <2>2, <2>3
  <2>5. m - 1 \in G
    BY <2>1, <2>4 DEF T
  <2> QED
    BY <2>2, <2>4, <2>5
<1> QED
  BY <1>2

\* f starts as g does and continues as g does, up to n.
Follows(f, g, n) ==
  f[0] = g[0] /\ \A i \in 1..n : f[i - 1] = g[i - 1] => f[i] = g[i]

Alike(f, g, n) == \A i \in 0..n : f[i] = g[i]

\* Two functions that start alike and continue alike are alike.
LEMMA SameWalk ==
  ASSUME NEW n \in Nat, NEW f, NEW g, Follows(f, g, n)
  PROVE  Alike(f, g, n)
<1> USE DEF Follows, Alike
<1> DEFINE G == {i \in 0..n : f[i] = g[i]}
<1>1. 0 \in G
  OBVIOUS
<1>2. ASSUME NEW i \in 1..n, i - 1 \in G PROVE i \in G
  BY <1>2
<1> HIDE DEF G
<1>3. 0..n \subseteq G
  BY <1>1, <1>2, Induction
<1> QED
  BY <1>3 DEF G

-----------------------------------------------------------------------------
(***************************************************************************)
(* The list that the links thread.                                         *)
(***************************************************************************)
Distinct(s) == \A i, j \in 1..Len(s) : s[i] = s[j] => i = j

\* The nodes in order: the fake head, the blocks of q, the fake tail.
Node(q, i) == IF i = 0 THEN HeadBlock
              ELSE IF i = Len(q) + 1 THEN TailBlock ELSE q[i]

\* The links nx and pv thread the blocks of q, and no others.
Linked(q, nx, pv) ==
  /\ nx \in [Nodes -> Nodes \union {None}] /\ pv \in [Nodes -> Nodes \union {None}]
  /\ q \in Seq(Blocks) /\ Distinct(q)
  /\ \A i \in 0..Len(q) : nx[Node(q, i)] = Node(q, i + 1)
  /\ \A i \in 1..(Len(q) + 1) : pv[Node(q, i)] = Node(q, i - 1)
  /\ nx[TailBlock] = None /\ pv[HeadBlock] = None
  /\ \A b \in Blocks : (\A i \in 1..Len(q) : q[i] # b) => nx[b] = None /\ pv[b] = None

\* The inductive invariant.
IInv == \E q : Linked(q, next, prev) /\ num = Len(q)

\* The fake ends are no blocks, and no node is met twice.
LEMMA NodeFacts ==
  ASSUME NEW q \in Seq(Blocks), Distinct(q)
  PROVE  /\ Node(q, 0) = HeadBlock /\ Node(q, Len(q) + 1) = TailBlock
         /\ \A i \in 1..Len(q) : Node(q, i) = q[i] /\ q[i] \in Blocks
         /\ \A i \in 0..(Len(q) + 1) : Node(q, i) \in Nodes /\ Node(q, i) # None
         /\ \A i, j \in 0..(Len(q) + 1) : Node(q, i) = Node(q, j) => i = j
<1>1. PICK n \in Nat : n = Len(q)
  OBVIOUS
<1>2. \A i \in 1..n : q[i] \in Blocks
  BY <1>1
<1>3. /\ Node(q, 0) = HeadBlock /\ Node(q, n + 1) = TailBlock
      /\ \A i \in 1..n : Node(q, i) = q[i]
  BY <1>1 DEF Node
<1>4. /\ HeadBlock \in Nodes /\ TailBlock \in Nodes /\ HeadBlock # TailBlock
      /\ Blocks \subseteq Nodes
      /\ \A b \in Blocks : b # HeadBlock /\ b # TailBlock
  BY QueueAssumption DEF HeadBlock, TailBlock, Nodes, Blocks
<1>5. \A i \in 0..(n + 1) : i = 0 \/ i = n + 1 \/ i \in 1..n
  OBVIOUS
<1>6. \A i \in 0..(n + 1) : Node(q, i) \in Nodes
  BY <1>2, <1>3, <1>4, <1>5
<1>7. None \notin Nodes
  BY QueueAssumption
<1>8. \A i, j \in 1..n : q[i] = q[j] => i = j
  BY <1>1 DEF Distinct
<1>9. ASSUME NEW i \in 0..(n + 1), NEW j \in 0..(n + 1), Node(q, i) = Node(q, j)
      PROVE  i = j
  BY <1>2, <1>3, <1>4, <1>5, <1>8, <1>9
<1> QED
  BY <1>1, <1>2, <1>3, <1>6, <1>7, <1>9

\* There are no more blocks on the list than blocks.
LEMMA LengthBound ==
  ASSUME NEW q \in Seq(Blocks), Distinct(q)
  PROVE  Len(q) \in 0..NumBlocks
<1>1. PICK n \in Nat : n = Len(q)
  OBVIOUS
<1>2. PICK N \in Nat : N = NumBlocks /\ N >= 1
  BY QueueAssumption
<1>3. IsFiniteSet(1..n) /\ Cardinality(1..n) = n
  BY FS_Interval
<1>4. IsFiniteSet(0 .. N - 1) /\ Cardinality(0 .. N - 1) = N
  BY <1>2, FS_Interval
<1>5. q \in [1..n -> Blocks] /\ \A i, j \in 1..n : q[i] = q[j] => i = j
  BY <1>1 DEF Distinct
<1> DEFINE S == {q[i] : i \in 1..n}
<1>6. S \subseteq Blocks
  BY <1>5
<1>7. q \in Bijection(1..n, S)
  <2>1. q \in [1..n -> S] /\ \A x \in S : \E i \in 1..n : q[i] = x
    BY <1>5
  <2> QED
    BY <1>5, <2>1 DEF Bijection, Injection, Surjection, IsInjective
<1>8. ExistsBijection(1..n, S)
  BY <1>7 DEF ExistsBijection
<1> HIDE DEF S
<1>9. Cardinality(S) = n
  BY <1>3, <1>8, FS_Bijection
<1>10. Cardinality(S) <= N
  BY <1>2, <1>4, <1>6, FS_Subset DEF Blocks
<1> QED
  BY <1>1, <1>2, <1>9, <1>10

-----------------------------------------------------------------------------
(***************************************************************************)
(* A walk from the head meets the nodes in order.                          *)
(***************************************************************************)
\* Walk and get_all_free_blocks of given links.
WalkIn(nx, n) ==
  LET at[i \in 0 .. n] ==
        IF i = 0 THEN HeadBlock
        ELSE IF at[i - 1] = None THEN None ELSE nx[at[i - 1]]
  IN at

ListIn(nx) ==
  LET at == WalkIn(nx, NumBlocks + 1)
      ends == {k \in 1 .. NumBlocks + 1 : at[k] = TailBlock}
  IN  [i \in 1 .. (CHOOSE k \in ends : \A j \in ends : k <= j) - 1 |-> at[i]]

\* They are those of the model.
LEMMA FreeListIn == FreeList = ListIn(next) /\ FreeList' = ListIn(next')
BY Zenon DEF FreeList, ListIn, Walk, WalkIn

\* After n steps the walk has met the first n nodes; past the tail is None.
LEMMA WalkIs ==
  ASSUME NEW q, NEW nx, NEW pv, Linked(q, nx, pv), NEW n \in Nat,
         NEW at, at = WalkIn(nx, n)
  PROVE  \A i \in 0..n : at[i] = IF i <= Len(q) + 1 THEN Node(q, i) ELSE None
<1>1. PICK l \in Nat : l = Len(q)
  BY DEF Linked
<1> DEFINE Rec(f) == f = [i \in 0..n |-> IF i = 0 THEN HeadBlock
                                         ELSE IF f[i - 1] = None THEN None
                                         ELSE nx[f[i - 1]]]
           c == CHOOSE f : Rec(f)
<1>2. at = c
  BY Zenon DEF WalkIn
<1>3. PICK g : g = [i \in 0..n |-> IF i <= l + 1 THEN Node(q, i) ELSE None]
  OBVIOUS
<1>4. /\ Node(q, 0) = HeadBlock /\ Node(q, l + 1) = TailBlock /\ nx[TailBlock] = None
      /\ \A i \in 0..(l + 1) : Node(q, i) # None
      /\ \A i \in 0..l : nx[Node(q, i)] = Node(q, i + 1)
  BY <1>1, NodeFacts DEF Linked
<1>5. ASSUME NEW i \in 1..n
      PROVE  g[i] = IF g[i - 1] = None THEN None ELSE nx[g[i - 1]]
  <2>1. i - 1 \in 0..n /\ i \in 0..n /\ i - 1 + 1 = i
    OBVIOUS
  <2>2. CASE i <= l + 1
    <3>1. i - 1 \in 0..l /\ i - 1 \in 0..(l + 1) /\ i - 1 <= l + 1
      BY <2>2
    <3>2. g[i] = Node(q, i) /\ g[i - 1] = Node(q, i - 1)
      BY <1>3, <2>1, <2>2, <3>1
    <3> QED
      BY <1>4, <2>1, <3>1, <3>2
  <2>3. CASE i = l + 2
    <3>1. i - 1 = l + 1 /\ ~(i <= l + 1) /\ l + 1 \in 0..(l + 1)
      BY <2>3
    <3>2. g[i] = None /\ g[i - 1] = Node(q, l + 1)
      BY <1>3, <2>1, <3>1
    <3> QED
      BY <1>4, <3>1, <3>2
  <2>4. CASE i > l + 2
    <3>1. ~(i - 1 <= l + 1) /\ ~(i <= l + 1)
      BY <2>4
    <3> QED
      BY <1>3, <2>1, <3>1
  <2> QED
    BY <2>2, <2>3, <2>4
<1>6. g[0] = HeadBlock
  BY <1>3, <1>4
<1>7. Rec(g)
  <2>1. ASSUME NEW i \in 0..n
        PROVE  g[i] = IF i = 0 THEN HeadBlock
                      ELSE IF g[i - 1] = None THEN None ELSE nx[g[i - 1]]
    <3>1. CASE i = 0
      BY <1>6, <3>1
    <3>2. CASE i # 0
      <4>1. i \in 1..n
        BY <3>2
      <4> QED
        BY <1>5, <3>2, <4>1
    <3> QED
      BY <3>1, <3>2
  <2>2. g = [i \in 0..n |-> g[i]]
    BY <1>3
  <2> QED
    BY <2>1, <2>2
<1>8. Rec(c)
  BY <1>7
<1> HIDE DEF c
<1>9. c[0] = g[0]
  BY <1>6, <1>8
<1>10. ASSUME NEW i \in 1..n, c[i - 1] = g[i - 1] PROVE c[i] = g[i]
  <2>1. i \in 0..n /\ i # 0
    OBVIOUS
  <2>2. c[i] = IF c[i - 1] = None THEN None ELSE nx[c[i - 1]]
    BY <1>8, <2>1
  <2> QED
    BY <1>5, <1>10, <2>2
<1>11. \A i \in 0..n : c[i] = g[i]
  <2>1. PICK x, y : x = c /\ y = g
    OBVIOUS
  <2>2. Follows(x, y, n)
    BY <1>9, <1>10, <2>1 DEF Follows
  <2>3. n \in Nat
    OBVIOUS
  <2>4. Alike(x, y, n)
    BY <2>2, <2>3, SameWalk
  <2> QED
    BY <2>1, <2>4 DEF Alike
<1> QED
  BY <1>1, <1>2, <1>3, <1>11

\* get_all_free_blocks returns q.
LEMMA ListIs ==
  ASSUME NEW q, NEW nx, NEW pv, Linked(q, nx, pv)
  PROVE  ListIn(nx) = q
<1>1. PICK l \in Nat : l = Len(q) /\ l <= NumBlocks
  <2>1. q \in Seq(Blocks) /\ Distinct(q)
    BY DEF Linked
  <2> QED
    BY <2>1, LengthBound
<1>2. PICK N \in Nat : N = NumBlocks + 1
  BY QueueAssumption
<1>3. PICK at : at = WalkIn(nx, N)
  OBVIOUS
<1>4. \A i \in 0..N : at[i] = IF i <= l + 1 THEN Node(q, i) ELSE None
  BY <1>1, <1>2, <1>3, WalkIs
<1>5. PICK ends : ends = {k \in 1..N : at[k] = TailBlock}
  OBVIOUS
<1>6. /\ Node(q, l + 1) = TailBlock /\ TailBlock # None
      /\ \A i \in 0..(l + 1) : Node(q, i) = TailBlock => i = l + 1
      /\ \A i \in 1..l : Node(q, i) = q[i]
  <2>1. q \in Seq(Blocks) /\ Distinct(q) /\ l + 1 \in 0..(l + 1)
    BY DEF Linked
  <2> QED
    BY <1>1, <2>1, NodeFacts
<1>7. ends = {l + 1}
  <2>1. l + 1 \in 1..N /\ l + 1 \in 0..N /\ l + 1 <= l + 1
    BY <1>1, <1>2, QueueAssumption
  <2>2. l + 1 \in ends
    BY <1>4, <1>5, <1>6, <2>1
  <2>3. ASSUME NEW k \in ends PROVE k = l + 1
    <3>1. k \in 1..N /\ k \in 0..N /\ at[k] = TailBlock
      BY <1>5, <2>3
    <3>2. k <= l + 1
      BY <1>4, <1>6, <3>1
    <3>3. k \in 0..(l + 1)
      BY <3>1, <3>2
    <3> QED
      BY <1>4, <1>6, <3>1, <3>2, <3>3
  <2> QED
    BY <2>2, <2>3
<1>8. PICK e : e = CHOOSE k \in ends : \A j \in ends : k <= j
  OBVIOUS
<1>9. e = l + 1
  BY <1>7, <1>8
<1>10. ListIn(nx) = [i \in 1 .. e - 1 |-> at[i]]
  BY <1>2, <1>3, <1>5, <1>8 DEF ListIn
<1>11. 1 .. e - 1 = 1..l
  BY <1>9
<1>12. \A i \in 1..l : at[i] = q[i]
  <2> TAKE i \in 1..l
  <2>1. i \in 0..N /\ i <= l + 1
    BY <1>1, <1>2, QueueAssumption
  <2> QED
    BY <1>4, <1>6, <2>1
<1>13. q = [i \in 1..l |-> q[i]]
  BY <1>1 DEF Linked
<1> QED
  BY <1>10, <1>11, <1>12, <1>13

-----------------------------------------------------------------------------
(***************************************************************************)
(* Cutting a stretch out of the list.                                      *)
(***************************************************************************)
\* w is q without its places k + 1, ..., k + m.
IsCut(w, q, k, m) ==
  /\ k \in Nat /\ m \in Nat /\ k + m <= Len(q)
  /\ w \in Seq(Blocks) /\ Len(w) = Len(q) - m
  /\ \A i \in 1..Len(w) : w[i] = IF i <= k THEN q[i] ELSE q[i + m]

\* The links after the cut: its blocks have none, and its neighbours are joined.
CutLinks(q, k, m, nx, pv, n2, p2) ==
  /\ n2 \in [Nodes -> Nodes \union {None}] /\ p2 \in [Nodes -> Nodes \union {None}]
  /\ \A i \in k + 1 .. k + m : n2[q[i]] = None /\ p2[q[i]] = None
  /\ n2[Node(q, k)] = Node(q, k + m + 1) /\ p2[Node(q, k + m + 1)] = Node(q, k)
  /\ \A b \in Nodes : (\A i \in k .. k + m : Node(q, i) # b) => n2[b] = nx[b]
  /\ \A b \in Nodes : (\A i \in k + 1 .. k + m + 1 : Node(q, i) # b) => p2[b] = pv[b]

\* The nodes of a list after a cut.
LEMMA CutNodes ==
  ASSUME NEW q \in Seq(Blocks), NEW w, NEW k, NEW m, IsCut(w, q, k, m),
         NEW i \in 0..(Len(w) + 1)
  PROVE  Node(w, i) = IF i <= k THEN Node(q, i) ELSE Node(q, i + m)
<1>1. PICK l \in Nat : l = Len(q)
  OBVIOUS
<1>2. k \in Nat /\ m \in Nat /\ k + m <= l /\ Len(w) = l - m
  BY <1>1 DEF IsCut
<1>3. CASE i = 0
  BY <1>2, <1>3 DEF Node
<1>4. CASE i = l - m + 1
  <2>1. ~(i <= k) /\ i # 0 /\ i + m = l + 1 /\ i + m # 0
    BY <1>2, <1>4
  <2> QED
    BY <1>1, <1>2, <1>4, <2>1 DEF Node
<1>5. CASE i # 0 /\ i # l - m + 1
  <2>1. /\ i \in 1..(l - m) /\ i # l + 1 /\ i + m # 0 /\ i + m # l + 1
    BY <1>2, <1>5
  <2>2. w[i] = IF i <= k THEN q[i] ELSE q[i + m]
    BY <1>2, <2>1 DEF IsCut
  <2> QED
    BY <1>1, <1>2, <1>5, <2>1, <2>2 DEF Node
<1> QED
  BY <1>3, <1>4, <1>5

\* A cut leaves a list.
LEMMA CutLinked ==
  ASSUME NEW q, NEW nx, NEW pv, Linked(q, nx, pv), NEW w, NEW k, NEW m,
         IsCut(w, q, k, m), NEW n2, NEW p2, CutLinks(q, k, m, nx, pv, n2, p2)
  PROVE  Linked(w, n2, p2)
<1>1. q \in Seq(Blocks) /\ Distinct(q)
  BY DEF Linked
<1>2. PICK l \in Nat : l = Len(q)
  BY <1>1
<1>3. k \in Nat /\ m \in Nat /\ k + m <= l /\ Len(w) = l - m /\ w \in Seq(Blocks)
  BY <1>2 DEF IsCut
<1>4. PICK o \in Nat : o = l - m /\ o = Len(w) /\ k <= o
  BY <1>3
<1>5. /\ Node(q, 0) = HeadBlock /\ Node(q, l + 1) = TailBlock
      /\ \A i \in 1..l : Node(q, i) = q[i] /\ q[i] \in Blocks
      /\ \A i \in 0..(l + 1) : Node(q, i) \in Nodes /\ Node(q, i) # None
      /\ \A i, j \in 0..(l + 1) : Node(q, i) = Node(q, j) => i = j
  BY <1>1, <1>2, NodeFacts
<1>6. \A i \in 0..(o + 1) : Node(w, i) = IF i <= k THEN Node(q, i) ELSE Node(q, i + m)
  BY <1>1, <1>4, CutNodes
<1>7. Distinct(w)
  <2> SUFFICES ASSUME NEW i \in 1..o, NEW j \in 1..o, w[i] = w[j] PROVE i = j
    BY <1>4 DEF Distinct
  <2>1. /\ w[i] = IF i <= k THEN q[i] ELSE q[i + m]
        /\ w[j] = IF j <= k THEN q[j] ELSE q[j + m]
    BY <1>4 DEF IsCut
  <2>2. \A x, y \in 1..l : q[x] = q[y] => x = y
    BY <1>1, <1>2 DEF Distinct
  <2>3. PICK x \in 1..l, y \in 1..l :
          /\ x = IF i <= k THEN i ELSE i + m
          /\ y = IF j <= k THEN j ELSE j + m
    BY <1>3, <1>4
  <2>4. q[x] = q[y]
    BY <2>1, <2>3
  <2>5. x = y
    BY <2>2, <2>4
  <2> QED
    BY <1>3, <2>3, <2>5
<1>8. ASSUME NEW i \in 0..o PROVE n2[Node(w, i)] = Node(w, i + 1)
  <2>1. i \in 0..(o + 1) /\ i + 1 \in 0..(o + 1)
    OBVIOUS
  <2>2. CASE i = k
    <3>1. Node(w, i) = Node(q, k) /\ Node(w, i + 1) = Node(q, k + 1 + m)
      BY <1>3, <1>6, <2>1, <2>2
    <3>2. k + 1 + m = k + m + 1
      BY <1>3
    <3> QED
      BY <3>1, <3>2 DEF CutLinks
  <2>3. CASE i # k
    <3>1. PICK j \in 0..l : j = IF i <= k THEN i ELSE i + m
      BY <1>3, <1>4
    <3>2. Node(w, i) = Node(q, j) /\ Node(w, i + 1) = Node(q, j + 1)
      <4>1. CASE i < k
        <5>1. i <= k /\ i + 1 <= k /\ j = i
          BY <1>3, <3>1, <4>1
        <5> QED
          BY <1>6, <2>1, <5>1
      <4>2. CASE i > k
        <5>1. ~(i <= k) /\ ~(i + 1 <= k) /\ j = i + m /\ i + 1 + m = j + 1
          BY <1>3, <3>1, <4>2
        <5> QED
          BY <1>6, <2>1, <5>1
      <4> QED
        BY <1>3, <2>3, <4>1, <4>2
    <3>3. \A x \in k .. k + m : x # j /\ x \in 0..(l + 1)
      BY <1>3, <2>3, <3>1
    <3>4. j \in 0..(l + 1) /\ Node(q, j) \in Nodes
      BY <1>5
    <3>5. \A x \in k .. k + m : Node(q, x) # Node(q, j)
      BY <1>5, <3>3, <3>4
    <3>6. n2[Node(q, j)] = nx[Node(q, j)]
      BY <3>4, <3>5 DEF CutLinks
    <3>7. nx[Node(q, j)] = Node(q, j + 1)
      BY <1>2 DEF Linked
    <3> QED
      BY <3>2, <3>6, <3>7
  <2> QED
    BY <2>2, <2>3
<1>9. ASSUME NEW i \in 1..(o + 1) PROVE p2[Node(w, i)] = Node(w, i - 1)
  <2>1. i \in 0..(o + 1) /\ i - 1 \in 0..(o + 1)
    OBVIOUS
  <2>2. CASE i = k + 1
    <3>1. Node(w, i) = Node(q, k + 1 + m) /\ Node(w, i - 1) = Node(q, k)
      BY <1>3, <1>6, <2>1, <2>2
    <3>2. k + 1 + m = k + m + 1
      BY <1>3
    <3> QED
      BY <3>1, <3>2 DEF CutLinks
  <2>3. CASE i # k + 1
    <3>1. PICK j \in 1..(l + 1) : j = IF i <= k THEN i ELSE i + m
      BY <1>3, <1>4
    <3>2. Node(w, i) = Node(q, j) /\ Node(w, i - 1) = Node(q, j - 1)
      <4>1. CASE i <= k
        <5>1. i <= k /\ i - 1 <= k /\ j = i
          BY <1>3, <3>1, <4>1
        <5> QED
          BY <1>6, <2>1, <5>1
      <4>2. CASE i > k + 1
        <5>1. ~(i <= k) /\ ~(i - 1 <= k) /\ j = i + m /\ i - 1 + m = j - 1
          BY <1>3, <3>1, <4>2
        <5> QED
          BY <1>6, <2>1, <5>1
      <4> QED
        BY <1>3, <2>3, <4>1, <4>2
    <3>3. \A x \in k + 1 .. k + m + 1 : x # j /\ x \in 0..(l + 1)
      BY <1>3, <2>3, <3>1
    <3>4. j \in 0..(l + 1) /\ Node(q, j) \in Nodes
      BY <1>5
    <3>5. \A x \in k + 1 .. k + m + 1 : Node(q, x) # Node(q, j)
      BY <1>5, <3>3, <3>4
    <3>6. p2[Node(q, j)] = pv[Node(q, j)]
      BY <3>4, <3>5 DEF CutLinks
    <3>7. pv[Node(q, j)] = Node(q, j - 1)
      BY <1>2 DEF Linked
    <3> QED
      BY <3>2, <3>6, <3>7
  <2> QED
    BY <2>2, <2>3
<1>10. n2[TailBlock] = None /\ p2[HeadBlock] = None
  <2>1. \A x \in k .. k + m : x \in 0..(l + 1) /\ x # l + 1
    BY <1>3
  <2>2. \A x \in k + 1 .. k + m + 1 : x \in 0..(l + 1) /\ x # 0
    BY <1>3
  <2>3. l + 1 \in 0..(l + 1) /\ 0 \in 0..(l + 1)
    OBVIOUS
  <2>4. \A x \in k .. k + m : Node(q, x) # TailBlock
    BY <1>5, <2>1, <2>3
  <2>5. \A x \in k + 1 .. k + m + 1 : Node(q, x) # HeadBlock
    BY <1>5, <2>2, <2>3
  <2>6. TailBlock \in Nodes /\ HeadBlock \in Nodes
    BY <1>5, <2>3
  <2>7. n2[TailBlock] = nx[TailBlock] /\ p2[HeadBlock] = pv[HeadBlock]
    BY <2>4, <2>5, <2>6 DEF CutLinks
  <2> QED
    BY <2>7 DEF Linked
<1>11. ASSUME NEW b \in Blocks, \A i \in 1..o : w[i] # b
       PROVE  n2[b] = None /\ p2[b] = None
  <2>1. CASE \E i \in k + 1 .. k + m : q[i] = b
    BY <2>1 DEF CutLinks
  <2>2. CASE ~(\E i \in k + 1 .. k + m : q[i] = b)
    <3>1. \A i \in 1..l : q[i] # b
      <4> SUFFICES ASSUME NEW i \in 1..l, q[i] = b PROVE FALSE
        OBVIOUS
      <4>1. i <= k \/ i > k + m
        BY <1>3, <2>2
      <4>2. PICK j \in 1..o : j = IF i <= k THEN i ELSE i - m
        <5>1. CASE i <= k
          BY <1>3, <1>4, <5>1
        <5>2. CASE ~(i <= k)
          <6>1. i - m \in 1..o
            BY <1>3, <1>4, <4>1, <5>2
          <6> QED
            BY <5>2, <6>1
        <5> QED
          BY <5>1, <5>2
      <4>3. w[j] = q[i]
        <5>1. w[j] = IF j <= k THEN q[j] ELSE q[j + m]
          BY <1>4 DEF IsCut
        <5>2. (j <= k /\ j = i) \/ (~(j <= k) /\ j + m = i)
          BY <1>3, <4>1, <4>2
        <5> QED
          BY <5>1, <5>2
      <4> QED
        BY <1>11, <4>3
    <3>2. nx[b] = None /\ pv[b] = None
      BY <1>2, <3>1 DEF Linked
    <3>3. b \in Nodes /\ b # HeadBlock /\ b # TailBlock
      BY QueueAssumption DEF Blocks, Nodes, HeadBlock, TailBlock
    <3>4. \A i \in 0..(l + 1) : Node(q, i) # b
      <4> TAKE i \in 0..(l + 1)
      <4>1. i = 0 \/ i = l + 1 \/ i \in 1..l
        OBVIOUS
      <4> QED
        BY <1>5, <3>1, <3>3, <4>1
    <3>5. /\ \A i \in k .. k + m : i \in 0..(l + 1)
          /\ \A i \in k + 1 .. k + m + 1 : i \in 0..(l + 1)
      BY <1>3
    <3>6. n2[b] = nx[b] /\ p2[b] = pv[b]
      BY <3>3, <3>4, <3>5 DEF CutLinks
    <3> QED
      BY <3>2, <3>6
  <2> QED
    BY <2>1, <2>2
<1>12. n2 \in [Nodes -> Nodes \union {None}] /\ p2 \in [Nodes -> Nodes \union {None}]
  BY DEF CutLinks
<1> QED
  BY <1>3, <1>4, <1>7, <1>8, <1>9, <1>10, <1>11, <1>12 DEF Linked

-----------------------------------------------------------------------------
(***************************************************************************)
(* Inserting a stretch.                                                    *)
(***************************************************************************)
\* w is q with the blocks of s, none of them in q, after its place k.
IsInsert(w, q, s, k) ==
  /\ k \in 0..Len(q) /\ s \in Seq(Blocks) /\ Len(s) >= 1 /\ Distinct(s)
  /\ \A i \in 1..Len(s), j \in 1..Len(q) : s[i] # q[j]
  /\ w \in Seq(Blocks) /\ Len(w) = Len(q) + Len(s)
  /\ \A i \in 1..Len(w) : w[i] = IF i <= k THEN q[i]
                                 ELSE IF i <= k + Len(s) THEN s[i - k] ELSE q[i - Len(s)]

\* The links after the insertion: s is chained between its new neighbours.
InsertLinks(q, s, k, nx, pv, n2, p2) ==
  /\ n2 \in [Nodes -> Nodes \union {None}] /\ p2 \in [Nodes -> Nodes \union {None}]
  /\ n2[Node(q, k)] = s[1] /\ p2[Node(q, k + 1)] = s[Len(s)]
  /\ \A i \in 1..Len(s) : /\ n2[s[i]] = IF i = Len(s) THEN Node(q, k + 1) ELSE s[i + 1]
                          /\ p2[s[i]] = IF i = 1 THEN Node(q, k) ELSE s[i - 1]
  /\ \A b \in Nodes : (\A i \in 1..Len(s) : s[i] # b) =>
       (b # Node(q, k) => n2[b] = nx[b]) /\ (b # Node(q, k + 1) => p2[b] = pv[b])

\* The nodes of a list after an insertion.
LEMMA InsertNodes ==
  ASSUME NEW q \in Seq(Blocks), NEW w, NEW s, NEW k, IsInsert(w, q, s, k),
         NEW i \in 0..(Len(w) + 1)
  PROVE  Node(w, i) = IF i <= k THEN Node(q, i)
                      ELSE IF i <= k + Len(s) THEN s[i - k] ELSE Node(q, i - Len(s))
<1>1. PICK l \in Nat, m \in Nat : l = Len(q) /\ m = Len(s) /\ m >= 1
  BY DEF IsInsert
<1>2. k \in Nat /\ k <= l /\ Len(w) = l + m
  BY <1>1 DEF IsInsert
<1>3. CASE i = 0
  BY <1>2, <1>3 DEF Node
<1>4. CASE i = l + m + 1
  <2>1. ~(i <= k) /\ ~(i <= k + m) /\ i # 0 /\ i - m = l + 1 /\ i - m # 0
    BY <1>1, <1>2, <1>4
  <2> QED
    BY <1>1, <1>2, <1>4, <2>1 DEF Node
<1>5. CASE i # 0 /\ i # l + m + 1
  <2>1. i \in 1..(l + m)
    BY <1>1, <1>2, <1>5
  <2>2. w[i] = IF i <= k THEN q[i] ELSE IF i <= k + m THEN s[i - k] ELSE q[i - m]
    BY <1>1, <1>2, <2>1 DEF IsInsert
  <2>3. Node(w, i) = w[i]
    BY <1>2, <1>5 DEF Node
  <2>4. /\ i <= k => i # l + 1
        /\ ~(i <= k + m) => i - m # 0 /\ i - m # l + 1
    BY <1>1, <1>2, <1>5, <2>1
  <2>5. /\ i <= k => Node(q, i) = q[i]
        /\ ~(i <= k + m) => Node(q, i - m) = q[i - m]
    BY <1>1, <1>5, <2>4 DEF Node
  <2> QED
    BY <1>1, <2>2, <2>3, <2>5
<1> QED
  BY <1>3, <1>4, <1>5

\* An insertion leaves a list.
LEMMA InsertLinked ==
  ASSUME NEW q, NEW nx, NEW pv, Linked(q, nx, pv), NEW w, NEW s, NEW k,
         IsInsert(w, q, s, k), NEW n2, NEW p2, InsertLinks(q, s, k, nx, pv, n2, p2)
  PROVE  Linked(w, n2, p2)
<1>1. q \in Seq(Blocks) /\ Distinct(q)
  BY DEF Linked
<1>2. PICK l \in Nat : l = Len(q)
  BY <1>1
<1>3. PICK m \in Nat : m = Len(s) /\ m >= 1
  BY DEF IsInsert
<1>4. k \in Nat /\ k <= l /\ Len(w) = l + m /\ w \in Seq(Blocks)
  BY <1>2, <1>3 DEF IsInsert
<1>5. /\ Node(q, 0) = HeadBlock /\ Node(q, l + 1) = TailBlock
      /\ \A i \in 1..l : Node(q, i) = q[i] /\ q[i] \in Blocks
      /\ \A i \in 0..(l + 1) : Node(q, i) \in Nodes /\ Node(q, i) # None
      /\ \A i, j \in 0..(l + 1) : Node(q, i) = Node(q, j) => i = j
  BY <1>1, <1>2, NodeFacts
<1>6. \A i \in 0..(l + m + 1) :
        Node(w, i) = IF i <= k THEN Node(q, i)
                     ELSE IF i <= k + m THEN s[i - k] ELSE Node(q, i - m)
  BY <1>1, <1>3, <1>4, InsertNodes
<1>7. /\ \A i \in 1..m : s[i] \in Blocks /\ s[i] # HeadBlock /\ s[i] # TailBlock
      /\ \A i \in 1..m, j \in 1..l : s[i] # q[j]
      /\ \A i, j \in 1..m : s[i] = s[j] => i = j
  <2>1. s \in Seq(Blocks) /\ Distinct(s) /\ \A i \in 1..m, j \in 1..l : s[i] # q[j]
    BY <1>2, <1>3 DEF IsInsert
  <2>2. \A b \in Blocks : b # HeadBlock /\ b # TailBlock
    BY QueueAssumption DEF Blocks, HeadBlock, TailBlock
  <2> QED
    BY <1>3, <2>1, <2>2 DEF Distinct
<1>8. \A i \in 1..m, j \in 0..(l + 1) : s[i] # Node(q, j)
  <2> TAKE i \in 1..m, j \in 0..(l + 1)
  <2>1. j = 0 \/ j = l + 1 \/ j \in 1..l
    OBVIOUS
  <2> QED
    BY <1>5, <1>7, <2>1
<1>9. \A i \in 1..(l + m) : w[i] = IF i <= k THEN q[i]
                                   ELSE IF i <= k + m THEN s[i - k] ELSE q[i - m]
  BY <1>3, <1>4 DEF IsInsert
<1>10. Distinct(w)
  <2> SUFFICES ASSUME NEW i \in 1..(l + m), NEW j \in 1..(l + m), w[i] = w[j] PROVE i = j
    BY <1>4 DEF Distinct
  <2>1. \A x, y \in 1..l : q[x] = q[y] => x = y
    BY <1>1, <1>2 DEF Distinct
  <2> DEFINE In(x) == ~(x <= k) /\ x <= k + m
  <2>2. ASSUME NEW x \in 1..(l + m), In(x) PROVE x - k \in 1..m /\ w[x] = s[x - k]
    BY <1>4, <1>9, <2>2
  <2>3. ASSUME NEW x \in 1..(l + m), ~In(x)
        PROVE  \E y \in 1..l : w[x] = q[y] /\ (x <= k => y = x) /\ (x > k => y = x - m /\ y > k)
    <3>1. CASE x <= k
      <4>1. x \in 1..l /\ w[x] = q[x] /\ ~(x > k)
        BY <1>4, <1>9, <3>1
      <4> QED
        BY <4>1
    <3>2. CASE x > k
      <4>1. x - m \in 1..l /\ x - m > k /\ ~(x <= k) /\ ~(x <= k + m)
        BY <1>3, <1>4, <2>3, <3>2
      <4>2. w[x] = q[x - m]
        BY <1>9, <4>1
      <4> QED
        BY <4>1, <4>2
    <3> QED
      BY <1>4, <3>1, <3>2
  <2>4. CASE In(i) /\ In(j)
    <3>1. i - k = j - k
      BY <1>7, <2>2, <2>4
    <3> QED
      BY <1>4, <3>1
  <2>5. CASE In(i) /\ ~In(j)
    BY <1>7, <2>2, <2>3, <2>5
  <2>6. CASE ~In(i) /\ In(j)
    BY <1>7, <2>2, <2>3, <2>6
  <2>7. CASE ~In(i) /\ ~In(j)
    <3>1. PICK x \in 1..l : w[i] = q[x] /\ (i <= k => x = i) /\ (i > k => x = i - m /\ x > k)
      BY <2>3, <2>7
    <3>2. PICK y \in 1..l : w[j] = q[y] /\ (j <= k => y = j) /\ (j > k => y = j - m /\ y > k)
      BY <2>3, <2>7
    <3>3. x = y
      BY <2>1, <3>1, <3>2
    <3> QED
      BY <1>3, <1>4, <3>1, <3>2, <3>3
  <2> QED
    BY <2>4, <2>5, <2>6, <2>7
<1>11. \A j \in 0..(l + 1) :
         /\ j # k => n2[Node(q, j)] = nx[Node(q, j)]
         /\ j # k + 1 => p2[Node(q, j)] = pv[Node(q, j)]
  <2> TAKE j \in 0..(l + 1)
  <2>1. k \in 0..(l + 1) /\ k + 1 \in 0..(l + 1)
    BY <1>4
  <2>2. Node(q, j) \in Nodes /\ \A i \in 1..m : s[i] # Node(q, j)
    BY <1>5, <1>8
  <2>3. (j # k => Node(q, j) # Node(q, k)) /\ (j # k + 1 => Node(q, j) # Node(q, k + 1))
    BY <1>5, <2>1
  <2> QED
    BY <1>3, <2>2, <2>3 DEF InsertLinks
<1>12. /\ n2[Node(q, k)] = s[1] /\ p2[Node(q, k + 1)] = s[m]
       /\ \A i \in 1..m : /\ n2[s[i]] = IF i = m THEN Node(q, k + 1) ELSE s[i + 1]
                          /\ p2[s[i]] = IF i = 1 THEN Node(q, k) ELSE s[i - 1]
  BY <1>3 DEF InsertLinks
<1>13. /\ \A j \in 0..l : nx[Node(q, j)] = Node(q, j + 1)
       /\ \A j \in 1..(l + 1) : pv[Node(q, j)] = Node(q, j - 1)
  BY <1>2 DEF Linked
<1>14. ASSUME NEW i \in 0..(l + m) PROVE n2[Node(w, i)] = Node(w, i + 1)
  <2>1. i \in 0..(l + m + 1) /\ i + 1 \in 0..(l + m + 1)
    OBVIOUS
  <2>2. CASE i < k
    <3>1. i <= k /\ i + 1 <= k /\ i # k /\ i \in 0..l /\ i \in 0..(l + 1)
      BY <1>4, <2>2
    <3> QED
      BY <1>6, <1>11, <1>13, <2>1, <3>1
  <2>3. CASE i = k
    <3>1. i <= k /\ ~(i + 1 <= k) /\ i + 1 <= k + m /\ i + 1 - k = 1
      BY <1>3, <1>4, <2>3
    <3> QED
      BY <1>6, <1>12, <2>1, <2>3, <3>1
  <2>4. CASE i > k /\ i < k + m
    <3>1. PICK j \in 1..m : j = i - k /\ j # m /\ i + 1 - k = j + 1
      BY <1>3, <1>4, <2>4
    <3>2. ~(i <= k) /\ i <= k + m /\ ~(i + 1 <= k) /\ i + 1 <= k + m
      BY <1>3, <1>4, <2>4
    <3>3. Node(w, i) = s[j]
      BY <1>6, <2>1, <3>1, <3>2
    <3>4. Node(w, i + 1) = s[j + 1]
      <4>1. PICK x \in 0..(l + m + 1) : x = i + 1
        BY <2>1
      <4>2. ~(x <= k) /\ x <= k + m /\ x - k = j + 1
        BY <1>4, <3>1, <3>2, <4>1
      <4>3. Node(w, x) = s[x - k]
        BY <1>6, <4>2
      <4> QED
        BY <4>1, <4>2, <4>3
    <3> QED
      BY <1>12, <3>1, <3>3, <3>4
  <2>5. CASE i = k + m
    <3>1. ~(i <= k) /\ i <= k + m /\ ~(i + 1 <= k) /\ ~(i + 1 <= k + m)
      BY <1>3, <1>4, <2>5
    <3>2. i - k = m /\ i + 1 - m = k + 1 /\ m \in 1..m
      BY <1>3, <1>4, <2>5
    <3>3. Node(w, i) = s[m] /\ Node(w, i + 1) = Node(q, k + 1)
      BY <1>6, <2>1, <3>1, <3>2
    <3> QED
      BY <1>12, <3>2, <3>3
  <2>6. CASE i > k + m
    <3>1. PICK j \in 0..l : j = i - m /\ j # k /\ i + 1 - m = j + 1 /\ j \in 0..(l + 1)
      <4>1. m \in Nat /\ k \in Nat /\ l \in Nat
        BY <1>3, <1>4
      <4>2. i - m \in 0..l /\ i - m # k
        BY <2>6, <4>1
      <4>3. i + 1 - m = (i - m) + 1 /\ i - m \in 0..(l + 1)
        BY <4>1, <4>2
      <4> QED
        BY <4>2, <4>3
    <3>2. ~(i <= k) /\ ~(i <= k + m) /\ ~(i + 1 <= k) /\ ~(i + 1 <= k + m)
      BY <1>3, <1>4, <2>6
    <3>3. Node(w, i) = Node(q, j) /\ Node(w, i + 1) = Node(q, j + 1)
      BY <1>6, <2>1, <3>1, <3>2
    <3> QED
      BY <1>11, <1>13, <3>1, <3>3
  <2> QED
    BY <1>4, <2>2, <2>3, <2>4, <2>5, <2>6
<1>15. ASSUME NEW i \in 1..(l + m + 1) PROVE p2[Node(w, i)] = Node(w, i - 1)
  <2>1. i \in 0..(l + m + 1) /\ i - 1 \in 0..(l + m + 1)
    OBVIOUS
  <2>2. CASE i <= k
    <3>1. i - 1 <= k /\ i # k + 1 /\ i \in 1..(l + 1) /\ i \in 0..(l + 1)
      BY <1>4, <2>2
    <3> QED
      BY <1>6, <1>11, <1>13, <2>1, <2>2, <3>1
  <2>3. CASE i = k + 1
    <3>1. ~(i <= k) /\ i <= k + m /\ i - 1 <= k /\ i - k = 1 /\ i - 1 = k /\ 1 \in 1..m
      BY <1>3, <1>4, <2>3
    <3>2. Node(w, i) = s[1] /\ Node(w, i - 1) = Node(q, k)
      BY <1>6, <2>1, <3>1
    <3> QED
      BY <1>12, <3>1, <3>2
  <2>4. CASE i > k + 1 /\ i <= k + m
    <3>1. PICK j \in 1..m : j = i - k /\ j # 1 /\ i - 1 - k = j - 1
      BY <1>3, <1>4, <2>4
    <3>2. ~(i <= k) /\ i <= k + m /\ ~(i - 1 <= k) /\ i - 1 <= k + m
      BY <1>3, <1>4, <2>4
    <3>3. Node(w, i) = s[j] /\ Node(w, i - 1) = s[j - 1]
      BY <1>6, <2>1, <3>1, <3>2
    <3> QED
      BY <1>12, <3>1, <3>3
  <2>5. CASE i = k + m + 1
    <3>1. ~(i <= k) /\ ~(i <= k + m) /\ ~(i - 1 <= k) /\ i - 1 <= k + m
      BY <1>3, <1>4, <2>5
    <3>2. i - m = k + 1 /\ i - 1 - k = m
      BY <1>3, <1>4, <2>5
    <3>3. Node(w, i) = Node(q, k + 1) /\ Node(w, i - 1) = s[m]
      BY <1>6, <2>1, <3>1, <3>2
    <3> QED
      BY <1>12, <3>3
  <2>6. CASE i > k + m + 1
    <3>1. PICK j \in 1..(l + 1) : j = i - m /\ j # k + 1 /\ i - 1 - m = j - 1 /\ j \in 0..(l + 1)
      <4>1. i - m \in 1..(l + 1) /\ i - m # k + 1 /\ i - 1 - m = i - m - 1
        BY <1>3, <1>4, <2>6
      <4> QED
        BY <4>1
    <3>2. ~(i <= k) /\ ~(i <= k + m) /\ ~(i - 1 <= k) /\ ~(i - 1 <= k + m)
      BY <1>3, <1>4, <2>6
    <3>3. Node(w, i) = Node(q, j) /\ Node(w, i - 1) = Node(q, j - 1)
      BY <1>6, <2>1, <3>1, <3>2
    <3> QED
      BY <1>11, <1>13, <3>1, <3>3
  <2> QED
    BY <1>3, <1>4, <2>2, <2>3, <2>4, <2>5, <2>6
<1>16. n2[TailBlock] = None /\ p2[HeadBlock] = None
  <2>1. l + 1 \in 0..(l + 1) /\ 0 \in 0..(l + 1) /\ l + 1 # k /\ 0 # k + 1
    BY <1>4
  <2>2. n2[TailBlock] = nx[TailBlock] /\ p2[HeadBlock] = pv[HeadBlock]
    BY <1>5, <1>11, <2>1
  <2> QED
    BY <2>2 DEF Linked
<1>17. ASSUME NEW b \in Blocks, \A i \in 1..(l + m) : w[i] # b
       PROVE  n2[b] = None /\ p2[b] = None
  <2>1. \A i \in 1..m : s[i] # b
    <3> SUFFICES ASSUME NEW i \in 1..m, s[i] = b PROVE FALSE
      OBVIOUS
    <3>1. PICK j \in 1..(l + m) : j = k + i /\ ~(j <= k) /\ j <= k + m /\ j - k = i
      BY <1>4
    <3>2. w[j] = s[i]
      BY <1>9, <3>1
    <3> QED
      BY <1>17, <3>2
  <2>2. \A i \in 1..l : q[i] # b
    <3> SUFFICES ASSUME NEW i \in 1..l, q[i] = b PROVE FALSE
      OBVIOUS
    <3>1. CASE i <= k
      <4>1. i \in 1..(l + m)
        OBVIOUS
      <4> QED
        BY <1>9, <1>17, <3>1, <4>1
    <3>2. CASE i > k
      <4>1. PICK j \in 1..(l + m) : j = i + m /\ ~(j <= k) /\ ~(j <= k + m) /\ j - m = i
        BY <1>4, <3>2
      <4>2. w[j] = q[i]
        BY <1>9, <4>1
      <4> QED
        BY <1>17, <4>2
    <3> QED
      BY <1>4, <3>1, <3>2
  <2>3. nx[b] = None /\ pv[b] = None
    BY <1>2, <2>2 DEF Linked
  <2>4. b \in Nodes /\ b # HeadBlock /\ b # TailBlock
    BY QueueAssumption DEF Blocks, Nodes, HeadBlock, TailBlock
  <2>5. \A i \in 0..(l + 1) : Node(q, i) # b
    <3> TAKE i \in 0..(l + 1)
    <3>1. i = 0 \/ i = l + 1 \/ i \in 1..l
      OBVIOUS
    <3> QED
      BY <1>5, <2>2, <2>4, <3>1
  <2>6. b # Node(q, k) /\ b # Node(q, k + 1)
    <3>1. k \in 0..(l + 1) /\ k + 1 \in 0..(l + 1)
      BY <1>4
    <3> QED
      BY <2>5, <3>1
  <2>7. n2[b] = nx[b] /\ p2[b] = pv[b]
    BY <1>3, <2>1, <2>4, <2>6 DEF InsertLinks
  <2> QED
    BY <2>3, <2>7
<1>18. n2 \in [Nodes -> Nodes \union {None}] /\ p2 \in [Nodes -> Nodes \union {None}]
  BY DEF InsertLinks
<1> QED
  BY <1>4, <1>10, <1>14, <1>15, <1>16, <1>17, <1>18 DEF Linked

-----------------------------------------------------------------------------
(***************************************************************************)
(* The operations.                                                         *)
(***************************************************************************)
\* What an operation on the list q makes of it.
Becomes(q) == Linked(q, next', prev') /\ num' = Len(q)

\* popleft and popleft_n take the first m blocks.
LEMMA SubSeqCut ==
  ASSUME NEW q \in Seq(Blocks), NEW m \in 1..Len(q)
  PROVE  IsCut(SubSeq(q, m + 1, Len(q)), q, 0, m)
<1>1. PICK l \in Nat : l = Len(q)
  OBVIOUS
<1>2. m \in Nat /\ m <= l /\ m >= 1
  BY <1>1
<1>3. PICK w : w = SubSeq(q, m + 1, l)
  OBVIOUS
<1>4. w \in Seq(Blocks) /\ Len(w) = l - m /\ \A i \in 1..(l - m) : w[i] = q[i + m]
  BY <1>1, <1>2, <1>3
<1>5. \A i \in 1..(l - m) : ~(i <= 0)
  OBVIOUS
<1> QED
  BY <1>1, <1>2, <1>3, <1>4, <1>5 DEF IsCut

\* popleft.
LEMMA PopleftIs ==
  ASSUME NEW q, Linked(q, next, prev), num = Len(q), Popleft
  PROVE  /\ Becomes(SubSeq(q, 2, Len(q)))
         /\ Len(q) >= 1 /\ call' = <<"popleft", <<q[1]>>>>
<1>1. q \in Seq(Blocks) /\ Distinct(q)
  BY DEF Linked
<1>2. PICK l \in Nat : l = Len(q)
  BY <1>1
<1>3. PICK f : f = next[HeadBlock]
  OBVIOUS
<1>4. /\ f # TailBlock /\ num' = num - 1 /\ call' = <<"popleft", <<f>>>>
      /\ next' = [next EXCEPT ![HeadBlock] = next[f], ![f] = None]
      /\ prev' = [prev EXCEPT ![next[f]] = HeadBlock, ![f] = None]
  BY <1>3 DEF Popleft
<1>5. /\ Node(q, 0) = HeadBlock /\ Node(q, l + 1) = TailBlock
      /\ \A i \in 1..l : Node(q, i) = q[i] /\ q[i] \in Blocks
      /\ \A i \in 0..(l + 1) : Node(q, i) \in Nodes /\ Node(q, i) # None
      /\ \A i, j \in 0..(l + 1) : Node(q, i) = Node(q, j) => i = j
  BY <1>1, <1>2, NodeFacts
<1>6. \A i \in 0..l : next[Node(q, i)] = Node(q, i + 1)
  BY <1>2 DEF Linked
<1>7. f = Node(q, 1)
  <2>1. 0 \in 0..l /\ 0 + 1 = 1
    OBVIOUS
  <2> QED
    BY <1>3, <1>5, <1>6, <2>1
<1>8. l >= 1
  <2>1. l # 0
    BY <1>4, <1>5, <1>7
  <2> QED
    BY <2>1
<1>9. /\ 0 \in 0..(l + 1) /\ 1 \in 0..(l + 1) /\ 2 \in 0..(l + 1) /\ 1 \in 0..l /\ 1 \in 1..l
      /\ 1 + 1 = 2
  BY <1>8
<1>10. f = q[1] /\ next[f] = Node(q, 2)
  BY <1>5, <1>6, <1>7, <1>9
<1>11. PICK z : z = Node(q, 2)
  OBVIOUS
<1>12. /\ f \in Nodes /\ HeadBlock \in Nodes /\ z \in Nodes
       /\ f # HeadBlock /\ z # f /\ z # HeadBlock
  BY <1>5, <1>7, <1>9, <1>11
<1>13. next \in [Nodes -> Nodes \union {None}] /\ prev \in [Nodes -> Nodes \union {None}]
  BY DEF Linked
<1>14. /\ next' \in [Nodes -> Nodes \union {None}] /\ prev' \in [Nodes -> Nodes \union {None}]
       /\ next'[HeadBlock] = z /\ next'[f] = None /\ prev'[z] = HeadBlock /\ prev'[f] = None
       /\ \A b \in Nodes : b # HeadBlock /\ b # f => next'[b] = next[b]
       /\ \A b \in Nodes : b # z /\ b # f => prev'[b] = prev[b]
  BY <1>4, <1>10, <1>11, <1>12, <1>13
<1>15. CutLinks(q, 0, 1, next, prev, next', prev')
  <2>1. 0 + 1 = 1 /\ 0 + 1 + 1 = 2 /\ 0 + 1 .. 0 + 1 = {1} /\ 0 .. 0 + 1 = {0, 1}
        /\ 0 + 1 .. 0 + 1 + 1 = {1, 2}
    OBVIOUS
  <2>2. \A b \in Nodes : (\A i \in {0, 1} : Node(q, i) # b) => next'[b] = next[b]
    BY <1>5, <1>7, <1>14
  <2>3. \A b \in Nodes : (\A i \in {1, 2} : Node(q, i) # b) => prev'[b] = prev[b]
    BY <1>7, <1>11, <1>14
  <2> QED
    BY <1>5, <1>10, <1>11, <1>14, <2>1, <2>2, <2>3 DEF CutLinks
<1>16. PICK w : w = SubSeq(q, 2, Len(q))
  OBVIOUS
<1>17. IsCut(w, q, 0, 1)
  <2>1. IsCut(SubSeq(q, 1 + 1, Len(q)), q, 0, 1)
    BY <1>1, <1>2, <1>9, SubSeqCut
  <2> QED
    BY <1>16, <2>1
<1>18. Linked(w, next', prev')
  BY <1>15, <1>17, CutLinked
<1>19. Len(w) = l - 1
  BY <1>2, <1>17 DEF IsCut
<1> QED
  BY <1>2, <1>4, <1>8, <1>10, <1>16, <1>18, <1>19 DEF Becomes

\* popleft_n.
LEMMA PopleftNIs ==
  ASSUME NEW q, Linked(q, next, prev), num = Len(q), NEW n \in 1..NumBlocks, PopleftN(n)
  PROVE  /\ Becomes(SubSeq(q, n + 1, Len(q)))
         /\ n \in 1..Len(q) /\ call' = <<"popleft", SubSeq(q, 1, n)>>
<1>1. q \in Seq(Blocks) /\ Distinct(q)
  BY DEF Linked
<1>2. PICK l \in Nat : l = Len(q)
  BY <1>1
<1>3. n \in Nat /\ n >= 1
  BY QueueAssumption
<1>4. PICK at : at = Walk(n + 1)
  OBVIOUS
<1>5. PICK popped : popped = {at[i] : i \in 1..n}
  OBVIOUS
<1>6. PICK curr : curr = at[n + 1]
  OBVIOUS
<1>7. /\ n <= num /\ num' = num - n
      /\ next' = [b \in Nodes |-> IF b \in popped THEN None
                                  ELSE IF b = HeadBlock /\ curr # None THEN curr ELSE next[b]]
      /\ prev' = [b \in Nodes |-> IF b \in popped THEN None
                                  ELSE IF b = curr THEN HeadBlock ELSE prev[b]]
      /\ call' = <<"popleft", [i \in 1..n |-> at[i]]>>
  BY <1>4, <1>5, <1>6 DEF PopleftN
<1>8. n <= l
  BY <1>2, <1>7
<1>9. \A i \in 0..(n + 1) : at[i] = Node(q, i)
  <2>1. at = WalkIn(next, n + 1)
    BY <1>4, Zenon DEF Walk, WalkIn
  <2>2. n + 1 \in Nat
    BY <1>3
  <2>3. \A i \in 0..(n + 1) : at[i] = IF i <= l + 1 THEN Node(q, i) ELSE None
    BY <1>2, <2>1, <2>2, WalkIs
  <2>4. \A i \in 0..(n + 1) : i <= l + 1
    BY <1>3, <1>8
  <2> QED
    BY <2>3, <2>4
<1>10. /\ Node(q, 0) = HeadBlock
       /\ \A i \in 1..l : Node(q, i) = q[i] /\ q[i] \in Blocks
       /\ \A i \in 0..(l + 1) : Node(q, i) \in Nodes /\ Node(q, i) # None
       /\ \A i, j \in 0..(l + 1) : Node(q, i) = Node(q, j) => i = j
  BY <1>1, <1>2, NodeFacts
<1>11. /\ n + 1 \in 0..(l + 1) /\ n + 1 \in 0..(n + 1) /\ 0 \in 0..(l + 1)
       /\ \A i \in 1..n : i \in 0..(n + 1) /\ i \in 0..(l + 1) /\ i \in 1..l /\ i # n + 1 /\ i # 0
       /\ n + 1 # 0
  BY <1>3, <1>8
<1>12. curr = Node(q, n + 1) /\ curr \in Nodes /\ curr # None
  BY <1>6, <1>9, <1>10, <1>11
<1>13. \A i \in 1..n : at[i] = Node(q, i) /\ at[i] = q[i]
  BY <1>9, <1>10, <1>11
<1>14. curr \notin popped /\ HeadBlock \notin popped /\ HeadBlock \in Nodes
  BY <1>5, <1>10, <1>11, <1>12, <1>13
<1>15. next \in [Nodes -> Nodes \union {None}] /\ prev \in [Nodes -> Nodes \union {None}]
  BY DEF Linked
<1>16. next' \in [Nodes -> Nodes \union {None}] /\ prev' \in [Nodes -> Nodes \union {None}]
  BY <1>7, <1>12, <1>14, <1>15
<1>17. CutLinks(q, 0, n, next, prev, next', prev')
  <2>1. 0 + 1 = 1 /\ 0 + n = n /\ 0 + n + 1 = n + 1
    BY <1>3
  <2>2. \A i \in 1..n : next'[q[i]] = None /\ prev'[q[i]] = None
    <3> TAKE i \in 1..n
    <3>1. q[i] \in popped
      BY <1>5, <1>13
    <3>2. q[i] \in Nodes
      BY <1>10, <1>11
    <3> QED
      BY <1>7, <3>1, <3>2
  <2>3. next'[HeadBlock] = curr /\ prev'[curr] = HeadBlock
    BY <1>7, <1>12, <1>14
  <2>4. ASSUME NEW b \in Nodes, \A i \in 0..n : Node(q, i) # b PROVE next'[b] = next[b]
    <3>1. b # HeadBlock /\ b \notin popped
      <4>1. 0 \in 0..n /\ \A i \in 1..n : i \in 0..n
        BY <1>3
      <4> QED
        BY <1>5, <1>10, <1>13, <2>4, <4>1
    <3> QED
      BY <1>7, <3>1
  <2>5. ASSUME NEW b \in Nodes, \A i \in 1..(n + 1) : Node(q, i) # b PROVE prev'[b] = prev[b]
    <3>1. b # curr /\ b \notin popped
      <4>1. n + 1 \in 1..(n + 1) /\ \A i \in 1..n : i \in 1..(n + 1)
        BY <1>3
      <4> QED
        BY <1>5, <1>12, <1>13, <2>5, <4>1
    <3> QED
      BY <1>7, <3>1
  <2> QED
    BY <1>10, <1>12, <1>16, <2>1, <2>2, <2>3, <2>4, <2>5 DEF CutLinks
<1>18. PICK w : w = SubSeq(q, n + 1, Len(q))
  OBVIOUS
<1>19. n \in 1..Len(q)
  BY <1>2, <1>3, <1>8
<1>20. IsCut(w, q, 0, n)
  BY <1>1, <1>18, <1>19, SubSeqCut
<1>21. Linked(w, next', prev')
  BY <1>17, <1>20, CutLinked
<1>22. Len(w) = l - n
  BY <1>2, <1>20 DEF IsCut
<1>23. [i \in 1..n |-> at[i]] = SubSeq(q, 1, n)
  <2>1. PICK u : u = SubSeq(q, 1, n)
    OBVIOUS
  <2>2. u \in Seq(Blocks) /\ Len(u) = n /\ \A i \in 1..n : u[i] = q[i]
    BY <1>1, <1>2, <1>3, <1>8, <2>1
  <2>3. u = [i \in 1..n |-> u[i]]
    BY <2>2
  <2> QED
    BY <1>13, <2>1, <2>2, <2>3
<1> QED
  BY <1>2, <1>7, <1>18, <1>19, <1>21, <1>22, <1>23 DEF Becomes

\* A block with links is on the list.
LEMMA ListedIs ==
  ASSUME NEW q, Linked(q, next, prev), NEW b \in Blocks
  PROVE  Listed(b) <=> \E i \in 1..Len(q) : q[i] = b
<1>1. q \in Seq(Blocks) /\ Distinct(q)
  BY DEF Linked
<1>2. PICK l \in Nat : l = Len(q)
  BY <1>1
<1>3. (\A i \in 1..l : q[i] # b) => ~Listed(b)
  BY <1>2 DEF Linked, Listed
<1>4. ASSUME NEW i \in 1..l, q[i] = b PROVE Listed(b)
  <2>1. i \in 0..l /\ i \in 1..(l + 1) /\ i + 1 \in 0..(l + 1) /\ i - 1 \in 0..(l + 1)
    OBVIOUS
  <2>2. next[Node(q, i)] = Node(q, i + 1) /\ prev[Node(q, i)] = Node(q, i - 1)
    BY <1>2, <2>1 DEF Linked
  <2>3. Node(q, i) = b /\ Node(q, i + 1) # None /\ Node(q, i - 1) # None
    BY <1>1, <1>2, <1>4, <2>1, NodeFacts
  <2> QED
    BY <2>2, <2>3 DEF Listed
<1> QED
  BY <1>2, <1>3, <1>4

\* remove, of the block at place a; w is the list without it.
LEMMA RemoveIs ==
  ASSUME NEW q, Linked(q, next, prev), num = Len(q), NEW a \in 1..Len(q), Remove(q[a]),
         NEW w, IsCut(w, q, a - 1, 1)
  PROVE  Becomes(w) /\ call' = <<"remove", <<q[a]>>>>
<1>1. q \in Seq(Blocks) /\ Distinct(q)
  BY DEF Linked
<1>2. PICK l \in Nat : l = Len(q)
  BY <1>1
<1>3. PICK b : b = q[a]
  OBVIOUS
<1>4. a \in 1..l /\ a \in 0..(l + 1) /\ a - 1 \in 0..(l + 1) /\ a + 1 \in 0..(l + 1) /\ a \in 0..l
      /\ a \in 1..(l + 1)
  BY <1>2
<1>5. /\ \A i \in 1..l : Node(q, i) = q[i] /\ q[i] \in Blocks
      /\ \A i \in 0..(l + 1) : Node(q, i) \in Nodes /\ Node(q, i) # None
      /\ \A i, j \in 0..(l + 1) : Node(q, i) = Node(q, j) => i = j
  BY <1>1, <1>2, NodeFacts
<1>6. PICK x, z : x = Node(q, a - 1) /\ z = Node(q, a + 1)
  OBVIOUS
<1>7. next[b] = z /\ prev[b] = x /\ b = Node(q, a)
  <2>1. next[Node(q, a)] = Node(q, a + 1) /\ prev[Node(q, a)] = Node(q, a - 1)
    BY <1>2, <1>4 DEF Linked
  <2> QED
    BY <1>3, <1>4, <1>5, <1>6, <2>1
<1>8. /\ next' = [next EXCEPT ![x] = z, ![b] = None]
      /\ prev' = [prev EXCEPT ![z] = x, ![b] = None]
      /\ num' = num - 1 /\ call' = <<"remove", <<b>>>>
  BY <1>3, <1>7 DEF Remove
<1>9. x \in Nodes /\ z \in Nodes /\ b \in Nodes /\ x # b /\ z # b
  <2>1. a - 1 # a /\ a + 1 # a
    BY <1>4
  <2> QED
    BY <1>4, <1>5, <1>6, <1>7, <2>1
<1>10. next \in [Nodes -> Nodes \union {None}] /\ prev \in [Nodes -> Nodes \union {None}]
  BY DEF Linked
<1>11. /\ next' \in [Nodes -> Nodes \union {None}] /\ prev' \in [Nodes -> Nodes \union {None}]
       /\ next'[x] = z /\ next'[b] = None /\ prev'[z] = x /\ prev'[b] = None
       /\ \A c \in Nodes : c # x /\ c # b => next'[c] = next[c]
       /\ \A c \in Nodes : c # z /\ c # b => prev'[c] = prev[c]
  BY <1>8, <1>9, <1>10
<1>12. PICK k : k = a - 1
  OBVIOUS
<1>13. /\ k + 1 = a /\ k + 1 + 1 = a + 1 /\ k + 1 .. k + 1 = {a} /\ k .. k + 1 = {k, a}
       /\ k + 1 .. k + 1 + 1 = {a, a + 1}
  BY <1>4, <1>12
<1>14. CutLinks(q, k, 1, next, prev, next', prev')
  <2>1. \A c \in Nodes : (\A i \in {k, a} : Node(q, i) # c) => next'[c] = next[c]
    BY <1>6, <1>7, <1>11, <1>12
  <2>2. \A c \in Nodes : (\A i \in {a, a + 1} : Node(q, i) # c) => prev'[c] = prev[c]
    BY <1>6, <1>7, <1>11
  <2> QED
    BY <1>3, <1>6, <1>11, <1>12, <1>13, <2>1, <2>2 DEF CutLinks
<1>15. Linked(w, next', prev')
  BY <1>12, <1>14, CutLinked
<1>16. Len(w) = l - 1
  BY <1>2 DEF IsCut
<1> QED
  BY <1>2, <1>3, <1>8, <1>15, <1>16 DEF Becomes

\* The nodes at both ends of the list.
LEMMA Ends ==
  ASSUME NEW q, Linked(q, next, prev)
  PROVE  /\ q \in Seq(Blocks) /\ Len(q) \in Nat
         /\ HeadBlock = Node(q, 0) /\ next[HeadBlock] = Node(q, 1)
         /\ TailBlock = Node(q, Len(q) + 1) /\ prev[TailBlock] = Node(q, Len(q))
<1>1. q \in Seq(Blocks) /\ Distinct(q)
  BY DEF Linked
<1>2. PICK l \in Nat : l = Len(q)
  BY <1>1
<1>3. Node(q, 0) = HeadBlock /\ Node(q, l + 1) = TailBlock
  BY <1>1, <1>2, NodeFacts
<1>4. 0 \in 0..l /\ l + 1 \in 1..(l + 1) /\ l + 1 - 1 = l /\ 0 + 1 = 1
  OBVIOUS
<1>5. next[Node(q, 0)] = Node(q, 0 + 1) /\ prev[Node(q, l + 1)] = Node(q, l + 1 - 1)
  BY <1>2, <1>4 DEF Linked
<1> QED
  BY <1>1, <1>2, <1>3, <1>4, <1>5

\* What a caller may put in.
Fits(q, s) ==
  /\ s \in Seq(Blocks) /\ Len(s) >= 1 /\ Distinct(s)
  /\ \A i \in 1..Len(s), j \in 1..Len(q) : s[i] # q[j]

\* A list of releasable blocks.
LEMMA ReleasableFits ==
  ASSUME NEW q, Linked(q, next, prev), NEW s \in Releasable, Len(s) > 0
  PROVE  Fits(q, s)
<1>1. PICK n \in 0..NumBlocks : s \in [1..n -> Blocks]
  BY DEF Releasable
<1>2. n \in Nat
  BY QueueAssumption
<1>3. s \in Seq(Blocks) /\ Len(s) = n /\ DOMAIN s = 1..n
  BY <1>1, <1>2, LenProperties, SeqDef
<1>4. (\A i, j \in 1..n : s[i] = s[j] => i = j) /\ \A i \in 1..n : ~Listed(s[i])
  BY <1>3 DEF Releasable
<1>5. ASSUME NEW i \in 1..n, NEW j \in 1..Len(q), s[i] = q[j] PROVE FALSE
  <2>1. s[i] \in Blocks /\ ~Listed(s[i])
    BY <1>1, <1>4
  <2> QED
    BY <1>5, <2>1, ListedIs
<1> QED
  BY <1>2, <1>3, <1>4, <1>5 DEF Fits, Distinct

\* A block that is off the list.
LEMMA UnlistedFits ==
  ASSUME NEW q, Linked(q, next, prev), NEW b \in Blocks, ~Listed(b)
  PROVE  Fits(q, <<b>>)
<1>1. PICK s : s = <<b>>
  OBVIOUS
<1>2. s \in Seq(Blocks) /\ Len(s) = 1 /\ \A i \in 1..1 : i = 1 /\ s[i] = b
  BY <1>1
<1>3. \A j \in 1..Len(q) : q[j] # b
  BY ListedIs
<1> QED
  BY <1>1, <1>2, <1>3 DEF Fits, Distinct

\* Where prepend_n and append_n put it.
LEMMA ConcatInsert ==
  ASSUME NEW q \in Seq(Blocks), NEW s, Fits(q, s)
  PROVE  IsInsert(s \o q, q, s, 0) /\ IsInsert(q \o s, q, s, Len(q))
<1>1. PICK l \in Nat, m \in Nat : l = Len(q) /\ m = Len(s) /\ m >= 1 /\ s \in Seq(Blocks)
  BY DEF Fits
<1>2. PICK u, w : u = s \o q /\ w = q \o s
  OBVIOUS
<1>3. /\ u \in Seq(Blocks) /\ Len(u) = m + l
      /\ \A i \in 1..(m + l) : u[i] = IF i <= m THEN s[i] ELSE q[i - m]
  BY <1>1, <1>2, ConcatProperties
<1>4. /\ w \in Seq(Blocks) /\ Len(w) = l + m
      /\ \A i \in 1..(l + m) : w[i] = IF i <= l THEN q[i] ELSE s[i - l]
  BY <1>1, <1>2, ConcatProperties
<1>5. /\ Distinct(s) /\ \A i \in 1..Len(s), j \in 1..Len(q) : s[i] # q[j]
  BY DEF Fits
<1>6. IsInsert(u, q, s, 0)
  <2>1. \A i \in 1..(m + l) : ~(i <= 0) /\ 0 + m = m /\ i - 0 = i
    OBVIOUS
  <2>2. \A i \in 1..(m + l) : u[i] = IF i <= 0 THEN q[i]
                                     ELSE IF i <= 0 + m THEN s[i - 0] ELSE q[i - m]
    BY <1>3, <2>1
  <2>3. m + l = l + m /\ 0 \in 0..l
    BY <1>1
  <2> QED
    BY <1>1, <1>3, <1>5, <2>2, <2>3 DEF IsInsert
<1>7. IsInsert(w, q, s, l)
  <2>1. \A i \in 1..(l + m) : i <= l + m
    OBVIOUS
  <2>2. \A i \in 1..(l + m) : w[i] = IF i <= l THEN q[i]
                                     ELSE IF i <= l + m THEN s[i - l] ELSE q[i - m]
    BY <1>4, <2>1
  <2>3. l \in 0..l
    BY <1>1
  <2> QED
    BY <1>1, <1>4, <1>5, <2>2, <2>3 DEF IsInsert
<1> QED
  BY <1>1, <1>2, <1>6, <1>7

\* The chain that prepend_n and append_n build.
LEMMA ChainLinks ==
  ASSUME NEW q, Linked(q, next, prev), NEW s, Fits(q, s), NEW k \in 0..Len(q),
         NEW n2, n2 = ChainedNext(s, Node(q, k), Node(q, k + 1)),
         NEW p2, p2 = ChainedPrev(s, Node(q, k), Node(q, k + 1))
  PROVE  InsertLinks(q, s, k, next, prev, n2, p2)
<1>1. q \in Seq(Blocks) /\ Distinct(q)
  BY DEF Linked
<1>2. PICK l \in Nat, m \in Nat : l = Len(q) /\ m = Len(s) /\ m >= 1 /\ DOMAIN s = 1..m
  BY <1>1 DEF Fits
<1>3. PICK a, z : a = Node(q, k) /\ z = Node(q, k + 1)
  OBVIOUS
<1>4. /\ Node(q, 0) = HeadBlock /\ Node(q, l + 1) = TailBlock
      /\ \A i \in 1..l : Node(q, i) = q[i]
      /\ \A i \in 0..(l + 1) : Node(q, i) \in Nodes
  BY <1>1, <1>2, NodeFacts
<1>5. k \in 0..(l + 1) /\ k + 1 \in 0..(l + 1)
  BY <1>2
<1>6. a \in Nodes /\ z \in Nodes
  BY <1>3, <1>4, <1>5
<1>7. /\ \A i \in 1..m : s[i] \in Blocks
      /\ \A i, j \in 1..m : s[i] = s[j] => i = j
      /\ \A i \in 1..m, j \in 1..l : s[i] # q[j]
  BY <1>2 DEF Fits, Distinct
<1>8. \A i \in 1..m : s[i] \in Nodes /\ s[i] # HeadBlock /\ s[i] # TailBlock
  BY <1>7, QueueAssumption DEF Blocks, Nodes, HeadBlock, TailBlock
<1>9. \A i \in 1..m : s[i] # a /\ s[i] # z
  <2>1. \A i \in 1..m, j \in 0..(l + 1) : s[i] # Node(q, j)
    <3> TAKE i \in 1..m, j \in 0..(l + 1)
    <3>1. j = 0 \/ j = l + 1 \/ j \in 1..l
      OBVIOUS
    <3> QED
      BY <1>4, <1>7, <1>8, <3>1
  <2> QED
    BY <1>3, <1>5, <2>1
<1> DEFINE at(b) == CHOOSE i \in 1..m : s[i] = b
<1>10. \A i \in 1..m : at(s[i]) = i
  BY <1>7
<1>11. n2 = [b \in Nodes |-> IF b = a THEN s[1]
                             ELSE IF \E i \in 1..m : s[i] = b
                                  THEN IF at(b) = m THEN z ELSE s[at(b) + 1]
                                  ELSE next[b]]
  BY <1>2, <1>3 DEF ChainedNext
<1>12. p2 = [b \in Nodes |-> IF b = z THEN s[m]
                             ELSE IF \E i \in 1..m : s[i] = b
                                  THEN IF at(b) = 1 THEN a ELSE s[at(b) - 1]
                                  ELSE prev[b]]
  BY <1>2, <1>3 DEF ChainedPrev
<1> HIDE DEF at
<1>13. n2[a] = s[1] /\ p2[z] = s[m]
  BY <1>6, <1>11, <1>12
<1>14. ASSUME NEW i \in 1..m
       PROVE  /\ n2[s[i]] = IF i = m THEN z ELSE s[i + 1]
              /\ p2[s[i]] = IF i = 1 THEN a ELSE s[i - 1]
  BY <1>8, <1>9, <1>10, <1>11, <1>12
<1>15. ASSUME NEW b \in Nodes, \A i \in 1..m : s[i] # b
       PROVE  (b # a => n2[b] = next[b]) /\ (b # z => p2[b] = prev[b])
  BY <1>11, <1>12, <1>15
<1>16. next \in [Nodes -> Nodes \union {None}] /\ prev \in [Nodes -> Nodes \union {None}]
  BY DEF Linked
<1>17. ASSUME NEW b \in Nodes
       PROVE  n2[b] \in Nodes \union {None} /\ p2[b] \in Nodes \union {None}
  <2>1. CASE \E i \in 1..m : s[i] = b
    <3>1. PICK i \in 1..m : s[i] = b
      BY <2>1
    <3>2. i # m => i + 1 \in 1..m
      OBVIOUS
    <3>3. i # 1 => i - 1 \in 1..m
      OBVIOUS
    <3> QED
      BY <1>6, <1>8, <1>14, <3>1, <3>2, <3>3
  <2>2. CASE ~(\E i \in 1..m : s[i] = b)
    <3>1. 1 \in 1..m /\ m \in 1..m
      BY <1>2
    <3>2. n2[b] = s[1] \/ n2[b] = next[b]
      BY <1>13, <1>15, <2>2
    <3>3. p2[b] = s[m] \/ p2[b] = prev[b]
      BY <1>13, <1>15, <2>2
    <3> QED
      BY <1>8, <1>16, <3>1, <3>2, <3>3
  <2> QED
    BY <2>1, <2>2
<1>18. n2 \in [Nodes -> Nodes \union {None}]
  BY <1>11, <1>17
<1>19. p2 \in [Nodes -> Nodes \union {None}]
  BY <1>12, <1>17
<1> QED
  BY <1>2, <1>3, <1>13, <1>14, <1>15, <1>18, <1>19 DEF InsertLinks

\* prepend_n and append_n.
LEMMA ChainIs ==
  ASSUME NEW q, Linked(q, next, prev), num = Len(q), NEW s \in Releasable
  PROVE  /\ PrependN(s) => Fits(q, s) /\ Becomes(s \o q) /\ call' = <<"prepend", s>>
         /\ AppendN(s) => Fits(q, s) /\ Becomes(q \o s) /\ call' = <<"append", s>>
<1>1. PICK l \in Nat : l = Len(q)
  BY Ends
<1>2. /\ q \in Seq(Blocks) /\ HeadBlock = Node(q, 0) /\ next[HeadBlock] = Node(q, 1)
      /\ TailBlock = Node(q, l + 1) /\ prev[TailBlock] = Node(q, l)
  BY <1>1, Ends
<1>3. ASSUME Fits(q, s) PROVE Len(s \o q) = l + Len(s) /\ Len(q \o s) = l + Len(s)
  <2>1. IsInsert(s \o q, q, s, 0) /\ IsInsert(q \o s, q, s, Len(q))
    BY <1>2, <1>3, ConcatInsert
  <2> QED
    BY <1>1, <2>1 DEF IsInsert
<1>4. CASE PrependN(s)
  <2>1. Fits(q, s)
    BY <1>4, ReleasableFits DEF PrependN
  <2>2. 0 \in 0..Len(q) /\ 0 + 1 = 1
    BY <1>1
  <2>3. /\ next' = ChainedNext(s, Node(q, 0), Node(q, 0 + 1))
        /\ prev' = ChainedPrev(s, Node(q, 0), Node(q, 0 + 1))
    BY <1>2, <1>4, <2>2 DEF PrependN
  <2>4. InsertLinks(q, s, 0, next, prev, next', prev')
    BY <2>1, <2>2, <2>3, ChainLinks
  <2>5. IsInsert(s \o q, q, s, 0)
    BY <1>2, <2>1, ConcatInsert
  <2>6. Linked(s \o q, next', prev')
    BY <2>4, <2>5, InsertLinked
  <2>7. num' = Len(s \o q)
    BY <1>1, <1>3, <1>4, <2>1 DEF PrependN
  <2> QED
    BY <1>4, <2>1, <2>6, <2>7 DEF PrependN, Becomes, AppendN
<1>5. CASE AppendN(s)
  <2>1. Fits(q, s)
    BY <1>5, ReleasableFits DEF AppendN
  <2>2. l \in 0..Len(q)
    BY <1>1
  <2>3. /\ next' = ChainedNext(s, Node(q, l), Node(q, l + 1))
        /\ prev' = ChainedPrev(s, Node(q, l), Node(q, l + 1))
    BY <1>2, <1>5 DEF AppendN
  <2>4. InsertLinks(q, s, l, next, prev, next', prev')
    BY <2>1, <2>2, <2>3, ChainLinks
  <2>5. IsInsert(q \o s, q, s, l)
    BY <1>1, <1>2, <2>1, ConcatInsert
  <2>6. Linked(q \o s, next', prev')
    BY <2>4, <2>5, InsertLinked
  <2>7. num' = Len(q \o s)
    BY <1>1, <1>3, <1>5, <2>1 DEF AppendN
  <2> QED
    BY <1>5, <2>1, <2>6, <2>7 DEF AppendN, Becomes, PrependN
<1> QED
  BY <1>4, <1>5

\* append.
LEMMA AppendIs ==
  ASSUME NEW q, Linked(q, next, prev), num = Len(q), NEW b \in Blocks, Append1(b)
  PROVE  Fits(q, <<b>>) /\ Becomes(q \o <<b>>) /\ call' = <<"append", <<b>>>>
<1>1. PICK l \in Nat : l = Len(q)
  BY Ends
<1>2. /\ q \in Seq(Blocks) /\ TailBlock = Node(q, l + 1) /\ prev[TailBlock] = Node(q, l)
  BY <1>1, Ends
<1>3. PICK a : a = prev[TailBlock]
  OBVIOUS
<1>4. /\ ~Listed(b) /\ num' = num + 1 /\ call' = <<"append", <<b>>>>
      /\ next' = [next EXCEPT ![a] = b, ![b] = TailBlock]
      /\ prev' = [prev EXCEPT ![b] = a, ![TailBlock] = b]
  BY <1>3 DEF Append1
<1>5. PICK s : s = <<b>>
  OBVIOUS
<1>6. Fits(q, s)
  BY <1>4, <1>5, UnlistedFits
<1>7. Len(s) = 1 /\ s[1] = b /\ \A i \in 1..1 : i = 1
  BY <1>5
<1>8. b \in Nodes /\ b # TailBlock /\ TailBlock \in Nodes /\ b # HeadBlock
  BY QueueAssumption DEF Blocks, Nodes, TailBlock, HeadBlock
<1>9. a \in Nodes /\ a # b
  <2>1. Distinct(q) /\ l \in 0..(l + 1)
    BY DEF Linked
  <2>2. a \in Nodes /\ (l = 0 => a = HeadBlock) /\ (l # 0 => a = q[l])
    <3>1. l # 0 => l \in 1..l
      OBVIOUS
    <3> QED
      BY <1>1, <1>2, <1>3, <2>1, <3>1, NodeFacts
  <2>3. l # 0 => q[l] # b
    <3>1. l # 0 => l \in 1..Len(q)
      BY <1>1
    <3>2. \A j \in 1..Len(q) : s[1] # q[j]
      <4>1. 1 \in 1..Len(s)
        BY <1>7
      <4> QED
        BY <1>6, <4>1 DEF Fits
    <3> QED
      BY <1>7, <3>1, <3>2
  <2> QED
    BY <1>8, <2>2, <2>3
<1>10. next \in [Nodes -> Nodes \union {None}] /\ prev \in [Nodes -> Nodes \union {None}]
  BY DEF Linked
<1>11. /\ next' \in [Nodes -> Nodes \union {None}] /\ prev' \in [Nodes -> Nodes \union {None}]
       /\ next'[a] = b /\ next'[b] = TailBlock /\ prev'[b] = a /\ prev'[TailBlock] = b
       /\ \A c \in Nodes : c # a /\ c # b => next'[c] = next[c]
       /\ \A c \in Nodes : c # b /\ c # TailBlock => prev'[c] = prev[c]
  BY <1>4, <1>8, <1>9, <1>10
<1>12. InsertLinks(q, s, l, next, prev, next', prev')
  <2>1. 1 \in 1..1
    OBVIOUS
  <2> QED
    BY <1>2, <1>3, <1>7, <1>11, <2>1 DEF InsertLinks
<1>13. IsInsert(q \o s, q, s, l)
  BY <1>1, <1>2, <1>6, ConcatInsert
<1>14. Linked(q \o s, next', prev')
  BY <1>12, <1>13, InsertLinked
<1>15. Len(q \o s) = l + 1
  BY <1>1, <1>7, <1>13 DEF IsInsert
<1> QED
  BY <1>1, <1>4, <1>5, <1>6, <1>14, <1>15 DEF Becomes

\* Taking one block out of the sequence is a cut.
LEMMA RemoveCut ==
  ASSUME NEW q \in Seq(Blocks), Distinct(q), NEW a \in 1..Len(q),
         NEW w, w = Queue!AfterRemove(q, {q[a]})
  PROVE  IsCut(w, q, a - 1, 1)
<1>1. PICK l \in Nat : l = Len(q)
  OBVIOUS
<1>2. a \in Nat /\ a >= 1 /\ a <= l
  BY <1>1
<1>3. PICK S : S = {q[i] : i \in DOMAIN q} \ {q[a]}
  OBVIOUS
<1>4. \A i \in 1..l : q[i] \in Blocks /\ (q[i] \in S <=> i # a)
  <2>1. DOMAIN q = 1..l /\ \A i \in 1..l : q[i] \in Blocks
    BY <1>1
  <2>2. \A i, j \in 1..l : q[i] = q[j] => i = j
    BY <1>1 DEF Distinct
  <2>3. a \in 1..l
    BY <1>1
  <2> QED
    BY <1>3, <2>1, <2>2, <2>3
<1> DEFINE Rec(f) == f = [i \in 0..Len(q) |->
                            IF i = 0 THEN <<>>
                            ELSE IF q[i] \in S THEN Append(f[i - 1], q[i]) ELSE f[i - 1]]
           c == CHOOSE f : Rec(f)
<1>5. w = c[Len(q)]
  BY <1>3, Zenon DEF Queue!AfterRemove, Queue!Keep
<1> DEFINE Size(i) == IF i < a THEN i ELSE i - 1
           Short(i) == [j \in 1..Size(i) |-> IF j < a THEN q[j] ELSE q[j + 1]]
<1>6. PICK g : g = [i \in 0..l |-> Short(i)]
  OBVIOUS
<1>7. \A i \in 0..l : Size(i) \in 0..l
  BY <1>2
<1>8. ASSUME NEW i \in 0..l
      PROVE  /\ g[i] \in Seq(Blocks) /\ Len(g[i]) = Size(i)
             /\ \A j \in 1..Size(i) : g[i][j] = IF j < a THEN q[j] ELSE q[j + 1]
  <2>1. PICK n \in Nat : n = Size(i) /\ n <= l /\ (n >= a => n + 1 <= l)
    BY <1>2
  <2>2. g[i] = [j \in 1..n |-> IF j < a THEN q[j] ELSE q[j + 1]]
    BY <1>6, <2>1
  <2>3. ASSUME NEW j \in 1..n PROVE (IF j < a THEN q[j] ELSE q[j + 1]) \in Blocks
    <3>1. CASE j < a
      BY <1>4, <2>1, <3>1
    <3>2. CASE ~(j < a)
      <4>1. j + 1 \in 1..l
        BY <1>2, <2>1, <3>2
      <4> QED
        BY <1>4, <3>2, <4>1
    <3> QED
      BY <3>1, <3>2
  <2>4. g[i] \in [1..n -> Blocks]
    BY <2>2, <2>3
  <2>5. g[i] \in Seq(Blocks) /\ Len(g[i]) = n
    BY <2>4, LenProperties, SeqDef
  <2> QED
    BY <2>1, <2>2, <2>5
<1> HIDE DEF Short
<1>9. ASSUME NEW i \in 1..l
      PROVE  g[i] = IF q[i] \in S THEN Append(g[i - 1], q[i]) ELSE g[i - 1]
  <2>1. PICK k \in 0..l : k = i - 1
    OBVIOUS
  <2>2. i \in 0..l /\ q[i] \in Blocks
    BY <1>4
  <2>3. PICK u \in Seq(Blocks) : /\ u = g[k] /\ Len(u) = Size(k)
                                 /\ \A j \in 1..Size(k) : u[j] = IF j < a THEN q[j] ELSE q[j + 1]
    BY <1>8
  <2>4. PICK v \in Seq(Blocks) : /\ v = g[i] /\ Len(v) = Size(i)
                                 /\ \A j \in 1..Size(i) : v[j] = IF j < a THEN q[j] ELSE q[j + 1]
    BY <1>8, <2>2
  <2>5. PICK m \in Nat : m = Size(k)
    BY <1>7
  <2>6. CASE i = a
    <3>1. Size(i) = m
      BY <1>2, <2>1, <2>5, <2>6
    <3>2. Len(u) = Len(v) /\ \A j \in 1..Len(u) : u[j] = v[j]
      <4>1. Len(u) = m /\ Len(v) = m
        BY <2>3, <2>4, <2>5, <3>1
      <4>2. ASSUME NEW j \in 1..m PROVE u[j] = v[j]
        BY <2>3, <2>4, <2>5, <3>1
      <4> QED
        BY <4>1, <4>2
    <3>3. u = v
      BY <3>2, SeqEqual
    <3> QED
      BY <1>4, <2>1, <2>3, <2>4, <2>6, <3>3
  <2>7. CASE i # a
    <3>1. Size(i) = m + 1 /\ (IF m + 1 < a THEN m + 1 ELSE m + 2) = i
      BY <1>2, <2>1, <2>5, <2>7
    <3>2. PICK x : x = Append(u, q[i])
      OBVIOUS
    <3>3. x \in Seq(Blocks)
      <4>1. PICK e \in Blocks : e = q[i]
        BY <2>2
      <4>2. Append(u, e) \in Seq(Blocks)
        BY <2>3
      <4> QED
        BY <3>2, <4>1, <4>2
    <3>4. Len(x) = m + 1 /\ x[m + 1] = q[i] /\ \A j \in 1..m : x[j] = u[j]
      BY <2>2, <2>3, <2>5, <3>2
    <3>5. ASSUME NEW j \in 1..(m + 1) PROVE x[j] = v[j]
      <4>1. CASE j \in 1..m
        BY <2>3, <2>4, <2>5, <3>1, <3>4, <4>1
      <4>2. CASE j = m + 1
        <5>1. v[m + 1] = IF m + 1 < a THEN q[m + 1] ELSE q[m + 1 + 1]
          BY <2>4, <2>5, <3>1, <4>2
        <5>2. v[m + 1] = q[i]
          BY <1>2, <2>5, <3>1, <5>1
        <5> QED
          BY <3>4, <4>2, <5>2
      <4> QED
        BY <2>5, <4>1, <4>2
    <3>6. x = v
      BY <2>4, <3>1, <3>3, <3>4, <3>5, SeqEqual
    <3> QED
      BY <1>4, <2>1, <2>3, <2>4, <2>7, <3>2, <3>6
  <2> QED
    BY <2>6, <2>7
<1>10. g[0] = <<>>
  <2>1. 0 \in 0..l /\ Size(0) = 0
    BY <1>2
  <2>2. g[0] \in Seq(Blocks) /\ Len(g[0]) = 0
    BY <1>8, <2>1
  <2> QED
    BY <2>2
<1>11. Rec(g)
  <2>1. ASSUME NEW i \in 0..l
        PROVE  g[i] = IF i = 0 THEN <<>>
                      ELSE IF q[i] \in S THEN Append(g[i - 1], q[i]) ELSE g[i - 1]
    <3>1. CASE i = 0
      BY <1>10, <3>1
    <3>2. CASE i # 0
      <4>1. i \in 1..l
        BY <3>2
      <4> QED
        BY <1>9, <3>2, <4>1
    <3> QED
      BY <3>1, <3>2
  <2>2. g = [i \in 0..Len(q) |-> g[i]]
    BY <1>1, <1>6
  <2> QED
    BY <1>1, <2>1, <2>2
<1>12. Rec(c)
  BY <1>11
<1> HIDE DEF c
<1>13. c[0] = g[0]
  BY <1>1, <1>10, <1>12
<1>14. ASSUME NEW i \in 1..l, c[i - 1] = g[i - 1] PROVE c[i] = g[i]
  <2>1. i \in 0..Len(q) /\ i # 0
    BY <1>1
  <2>2. c[i] = IF q[i] \in S THEN Append(c[i - 1], q[i]) ELSE c[i - 1]
    BY <1>12, <2>1
  <2> QED
    BY <1>9, <1>14, <2>2
<1>15. \A i \in 0..l : c[i] = g[i]
  <2>1. PICK x, y : x = c /\ y = g
    OBVIOUS
  <2>2. Follows(x, y, l)
    BY <1>13, <1>14, <2>1 DEF Follows
  <2>3. l \in Nat
    BY <1>1
  <2>4. Alike(x, y, l)
    BY <2>2, <2>3, SameWalk
  <2> QED
    BY <2>1, <2>4 DEF Alike
<1>16. w = g[l] /\ l \in 0..l /\ Size(l) = l - 1
  BY <1>1, <1>2, <1>5, <1>15
<1>17. /\ w \in Seq(Blocks) /\ Len(w) = l - 1
       /\ \A j \in 1..(l - 1) : w[j] = IF j < a THEN q[j] ELSE q[j + 1]
  BY <1>8, <1>16
<1>18. ASSUME NEW j \in 1..(l - 1) PROVE w[j] = IF j <= a - 1 THEN q[j] ELSE q[j + 1]
  <2>1. j < a <=> j <= a - 1
    BY <1>2
  <2> QED
    BY <1>17, <2>1
<1>19. a - 1 \in Nat /\ a - 1 + 1 <= l
  BY <1>2
<1> QED
  BY <1>1, <1>17, <1>18, <1>19 DEF IsCut

-----------------------------------------------------------------------------
(***************************************************************************)
(* The invariant and the refinement.                                       *)
(***************************************************************************)
\* A step of BlockQueue from the sequence q to the sequence w.
QueueStep(q, w) ==
  \/ \E n \in 1..Len(q) :
       w = Queue!AfterPopN(q, n) /\ call' = <<"popleft", Queue!PoppedN(q, n)>>
  \/ \E i \in DOMAIN q :
       w = Queue!AfterRemove(q, {q[i]}) /\ call' = <<"remove", <<q[i]>>>>
  \/ \E s \in Queue!Fresh(q) :
       \/ w = Queue!AfterPrependN(q, s) /\ call' = <<"prepend", s>>
       \/ w = Queue!AfterAppendN(q, s) /\ call' = <<"append", s>>

\* At first the list holds every block in order.
LEMMA InitLinked ==
  ASSUME Init, NEW q, q = [i \in 1..NumBlocks |-> i - 1]
  PROVE  Linked(q, next, prev) /\ num = Len(q)
<1>1. PICK N \in Nat : N = NumBlocks /\ N >= 1
  BY QueueAssumption
<1>2. Nodes = -1 .. N /\ Blocks = 0 .. N - 1 /\ HeadBlock = -1 /\ TailBlock = N
  BY <1>1 DEF Nodes, Blocks, HeadBlock, TailBlock
<1>3. q \in [1..N -> Blocks]
  BY <1>1, <1>2
<1>4. q \in Seq(Blocks) /\ Len(q) = N
  BY <1>1, <1>3, LenProperties, SeqDef
<1>5. \A i \in 1..N : q[i] = i - 1
  BY <1>1
<1>6. Distinct(q)
  <2> SUFFICES ASSUME NEW i \in 1..N, NEW j \in 1..N, q[i] = q[j] PROVE i = j
    BY <1>4 DEF Distinct
  <2>1. q[i] = i - 1 /\ q[j] = j - 1
    BY <1>5
  <2> QED
    BY <2>1
<1>7. \A i \in 0..(N + 1) : Node(q, i) = i - 1
  BY <1>1, <1>2, <1>4, <1>5 DEF Node
<1>8. \A b \in -1 .. N : /\ next[b] = IF b = N THEN None ELSE b + 1
                         /\ prev[b] = IF b = -1 THEN None ELSE b - 1
  BY <1>2 DEF Init
<1>9. next \in [Nodes -> Nodes \union {None}] /\ prev \in [Nodes -> Nodes \union {None}]
  <2>1. next = [b \in Nodes |-> next[b]] /\ prev = [b \in Nodes |-> prev[b]]
    BY DEF Init
  <2>2. \A b \in Nodes : next[b] \in Nodes \union {None} /\ prev[b] \in Nodes \union {None}
    BY <1>2, <1>8
  <2> QED
    BY <2>1, <2>2
<1>10. ASSUME NEW i \in 0..N PROVE next[Node(q, i)] = Node(q, i + 1)
  <2>1. i \in 0..(N + 1) /\ i + 1 \in 0..(N + 1) /\ i - 1 \in -1 .. N /\ i - 1 # N
    BY <1>1
  <2>2. PICK k \in 0..(N + 1) : k = i + 1
    BY <2>1
  <2>3. Node(q, i) = i - 1 /\ Node(q, k) = k - 1
    BY <1>7, <2>1
  <2> QED
    BY <1>8, <2>1, <2>2, <2>3
<1>11. ASSUME NEW i \in 1..(N + 1) PROVE prev[Node(q, i)] = Node(q, i - 1)
  <2>1. i \in 0..(N + 1) /\ i - 1 \in 0..(N + 1) /\ i - 1 \in -1 .. N /\ i - 1 # -1
    BY <1>1
  <2>2. PICK k \in 0..(N + 1) : k = i - 1
    BY <2>1
  <2>3. Node(q, i) = i - 1 /\ Node(q, k) = k - 1
    BY <1>7, <2>1
  <2> QED
    BY <1>8, <2>1, <2>2, <2>3
<1>12. next[TailBlock] = None /\ prev[HeadBlock] = None
  BY <1>1, <1>2, <1>8
<1>13. ASSUME NEW b \in Blocks PROVE \E i \in 1..N : q[i] = b
  <2>1. PICK k \in 1..N : k - 1 = b
    <3>1. PICK k : k = b + 1
      OBVIOUS
    <3>2. k \in 1..N /\ k - 1 = b
      BY <1>1, <1>2, <3>1
    <3> QED
      BY <3>2
  <2> QED
    BY <1>5, <2>1
<1>14. num = N
  BY <1>1 DEF Init
<1> QED
  BY <1>4, <1>6, <1>9, <1>10, <1>11, <1>12, <1>13, <1>14 DEF Linked

\* What fits into the list is what a caller of BlockQueue may put in.
LEMMA FitsFresh ==
  ASSUME NEW q \in Seq(Blocks), NEW s, Fits(q, s), NEW u, Len(u) = Len(q) + Len(s),
         u \in Seq(Blocks), Distinct(u)
  PROVE  s \in Queue!Fresh(q)
<1>1. PICK m \in Nat : m = Len(s)
  BY DEF Fits
<1>2. PICK l \in Nat : l = Len(q)
  OBVIOUS
<1>3. PICK N \in Nat : N = NumBlocks
  BY QueueAssumption
<1>4. l + m <= N
  BY <1>1, <1>2, <1>3, LengthBound
<1>5. s \in [1..m -> Blocks] /\ DOMAIN s = 1..m /\ DOMAIN q = 1..l
  BY <1>1, <1>2 DEF Fits
<1>6. m \in 0 .. NumBlocks - Len(q)
  BY <1>2, <1>3, <1>4
<1>7. s \in UNION {[1 .. n -> Blocks] : n \in 0 .. NumBlocks - Len(q)}
  BY <1>5, <1>6
<1>8. /\ \A i, j \in DOMAIN s : s[i] = s[j] => i = j
      /\ \A i \in DOMAIN s, k \in DOMAIN q : s[i] # q[k]
  BY <1>1, <1>2, <1>5 DEF Fits, Distinct
<1>9. Queue!Blocks = Blocks
  BY DEF Queue!Blocks, Blocks
<1> QED
  BY <1>7, <1>8, <1>9 DEF Queue!Fresh

\* Every step of the list is a step of the sequence that it threads.
LEMMA StepIs ==
  ASSUME NEW q, Linked(q, next, prev), num = Len(q), Next
  PROVE  \E w : Becomes(w) /\ QueueStep(q, w)
<1>1. q \in Seq(Blocks) /\ Distinct(q) /\ Len(q) \in Nat /\ DOMAIN q = 1..Len(q)
  BY DEF Linked
<1>2. ASSUME NEW n \in 1..Len(q), NEW w, w = SubSeq(q, n + 1, Len(q)), Becomes(w),
             call' = <<"popleft", SubSeq(q, 1, n)>>
      PROVE  \E v : Becomes(v) /\ QueueStep(q, v)
  <2>1. QueueStep(q, w)
    BY <1>2 DEF QueueStep, Queue!AfterPopN, Queue!PoppedN
  <2> QED
    BY <1>2, <2>1
<1>3. ASSUME NEW s, Fits(q, s), NEW w, Becomes(w), Len(w) = Len(q) + Len(s),
             \/ w = s \o q /\ call' = <<"prepend", s>>
             \/ w = q \o s /\ call' = <<"append", s>>
      PROVE  \E v : Becomes(v) /\ QueueStep(q, v)
  <2>1. w \in Seq(Blocks) /\ Distinct(w)
    BY <1>3 DEF Becomes, Linked
  <2>2. s \in Queue!Fresh(q)
    BY <1>1, <1>3, <2>1, FitsFresh
  <2>3. QueueStep(q, w)
    BY <1>3, <2>2 DEF QueueStep, Queue!AfterPrependN, Queue!AfterAppendN
  <2> QED
    BY <1>3, <2>3
<1>4. CASE Popleft
  <2>1. /\ Becomes(SubSeq(q, 2, Len(q))) /\ Len(q) >= 1
        /\ call' = <<"popleft", <<q[1]>>>>
    BY <1>4, PopleftIs
  <2>2. SubSeq(q, 1, 1) = <<q[1]>>
    <3>1. PICK x : x = SubSeq(q, 1, 1)
      OBVIOUS
    <3>2. x \in Seq(Blocks) /\ Len(x) = 1 /\ x[1] = q[1]
      BY <1>1, <2>1, <3>1
    <3>3. PICK e \in Blocks : e = q[1]
      BY <1>1, <2>1
    <3>4. <<e>> \in Seq(Blocks) /\ Len(<<e>>) = 1 /\ <<e>>[1] = e
      OBVIOUS
    <3>5. PICK y \in Seq(Blocks) : y = <<e>> /\ Len(y) = 1 /\ y[1] = e
      BY <3>4
    <3>6. x = y
      BY <3>2, <3>3, <3>5, SeqEqual
    <3> QED
      BY <3>1, <3>3, <3>5, <3>6
  <2>3. PICK w : w = SubSeq(q, 1 + 1, Len(q))
    OBVIOUS
  <2>4. 1 \in 1..Len(q) /\ Becomes(w) /\ call' = <<"popleft", SubSeq(q, 1, 1)>>
    BY <1>1, <2>1, <2>2, <2>3
  <2> QED
    BY <1>2, <2>3, <2>4
<1>5. CASE \E n \in 1..NumBlocks : PopleftN(n)
  <2>1. PICK n \in 1..NumBlocks : PopleftN(n)
    BY <1>5
  <2>2. /\ Becomes(SubSeq(q, n + 1, Len(q))) /\ n \in 1..Len(q)
        /\ call' = <<"popleft", SubSeq(q, 1, n)>>
    BY <2>1, PopleftNIs
  <2> QED
    BY <1>2, <2>2
<1>6. CASE \E b \in Blocks : Remove(b)
  <2>1. PICK b \in Blocks : Remove(b)
    BY <1>6
  <2>2. Listed(b)
    BY <2>1 DEF Remove
  <2>3. PICK a \in 1..Len(q) : q[a] = b
    BY <2>2, ListedIs
  <2>4. PICK w : w = Queue!AfterRemove(q, {q[a]})
    OBVIOUS
  <2>5. IsCut(w, q, a - 1, 1)
    BY <1>1, <2>4, RemoveCut
  <2>6. Remove(q[a])
    BY <2>1, <2>3
  <2>7. Becomes(w) /\ call' = <<"remove", <<q[a]>>>>
    BY <2>5, <2>6, RemoveIs
  <2>8. QueueStep(q, w)
    BY <1>1, <2>4, <2>7 DEF QueueStep
  <2> QED
    BY <2>7, <2>8
<1>7. CASE \E b \in Blocks : Append1(b)
  <2>1. PICK b \in Blocks : Append1(b)
    BY <1>7
  <2>2. Fits(q, <<b>>) /\ Becomes(q \o <<b>>) /\ call' = <<"append", <<b>>>>
    BY <2>1, AppendIs
  <2>3. PICK w : w = q \o <<b>>
    OBVIOUS
  <2>4. Len(w) = Len(q) + Len(<<b>>)
    BY <1>1, <2>3
  <2> QED
    BY <1>3, <2>2, <2>3, <2>4
<1>8. CASE \E s \in Releasable : PrependN(s) \/ AppendN(s)
  <2>1. PICK s \in Releasable : PrependN(s) \/ AppendN(s)
    BY <1>8
  <2>2. CASE PrependN(s)
    <3>1. Fits(q, s) /\ Becomes(s \o q) /\ call' = <<"prepend", s>>
      BY <2>2, ChainIs
    <3>2. PICK w : w = s \o q
      OBVIOUS
    <3>3. Len(w) = Len(q) + Len(s)
      BY <1>1, <3>1, <3>2 DEF Fits
    <3> QED
      BY <1>3, <3>1, <3>2, <3>3
  <2>3. CASE AppendN(s)
    <3>1. Fits(q, s) /\ Becomes(q \o s) /\ call' = <<"append", s>>
      BY <2>3, ChainIs
    <3>2. PICK w : w = q \o s
      OBVIOUS
    <3>3. Len(w) = Len(q) + Len(s)
      BY <1>1, <3>1, <3>2 DEF Fits
    <3> QED
      BY <1>3, <3>1, <3>2, <3>3
  <2> QED
    BY <2>1, <2>2, <2>3
<1> QED
  BY <1>4, <1>5, <1>6, <1>7, <1>8 DEF Next

\* The links always thread one sequence of distinct blocks, in both directions,
\* and num_free_blocks is its length.
THEOREM Invariance == Spec => []IInv
<1>1. ASSUME Init PROVE IInv
  BY <1>1, InitLinked DEF IInv
<1>2. ASSUME IInv, [Next]_vars PROVE IInv'
  <2>1. PICK q : Linked(q, next, prev) /\ num = Len(q)
    BY <1>2 DEF IInv
  <2>2. CASE Next
    <3>1. PICK w : Becomes(w)
      BY <2>1, <2>2, StepIs
    <3> QED
      BY <3>1 DEF IInv, Becomes
  <2>3. CASE UNCHANGED vars
    BY <2>1, <2>3 DEF IInv, vars
  <2> QED
    BY <1>2, <2>2, <2>3
<1> QED
  BY <1>1, <1>2, PTL DEF Spec

\* The links are links between nodes, and the counter never leaves 0..NumBlocks.
THEOREM TypeCorrect == Spec => []TypeOK
<1>1. ASSUME IInv PROVE TypeOK
  <2>1. PICK q : Linked(q, next, prev) /\ num = Len(q)
    BY <1>1 DEF IInv
  <2>2. q \in Seq(Blocks) /\ Distinct(q)
    BY <2>1 DEF Linked
  <2>3. num \in 0..NumBlocks
    BY <2>1, <2>2, LengthBound
  <2> QED
    BY <2>1, <2>3 DEF TypeOK, Linked
<1> QED
  BY <1>1, Invariance, PTL

\* Both threads of links agree, and a block has both links or neither.
THEOREM LinksCorrect == Spec => []LinksAgree
<1>1. ASSUME IInv PROVE LinksAgree
  <2>1. PICK q : Linked(q, next, prev) /\ num = Len(q)
    BY <1>1 DEF IInv
  <2>2. PICK l \in Nat : l = Len(q)
    BY <2>1 DEF Linked
  <2>3. q \in Seq(Blocks) /\ Distinct(q)
    BY <2>1 DEF Linked
  <2>4. /\ Node(q, 0) = HeadBlock /\ Node(q, l + 1) = TailBlock
        /\ \A i \in 1..l : Node(q, i) = q[i]
        /\ \A i \in 0..(l + 1) : Node(q, i) # None
        /\ \A i, j \in 0..(l + 1) : Node(q, i) = Node(q, j) => i = j
    BY <2>2, <2>3, NodeFacts
  <2>5. /\ \A i \in 0..l : next[Node(q, i)] = Node(q, i + 1)
        /\ \A i \in 1..(l + 1) : prev[Node(q, i)] = Node(q, i - 1)
        /\ \A b \in Blocks : (\A i \in 1..l : q[i] # b) => next[b] = None /\ prev[b] = None
    BY <2>1, <2>2 DEF Linked
  <2>6. \A b \in Nodes : b = HeadBlock \/ b = TailBlock \/ b \in Blocks
    BY QueueAssumption DEF Nodes, HeadBlock, TailBlock, Blocks
  <2>7. ASSUME NEW b \in Nodes, b # TailBlock, next[b] # None
        PROVE  next[b] # HeadBlock /\ prev[next[b]] = b
    <3>1. PICK i \in 0..l : b = Node(q, i)
      BY <2>2, <2>4, <2>5, <2>6, <2>7
    <3>2. PICK k \in 1..(l + 1) : k = i + 1
      OBVIOUS
    <3>3. k - 1 = i /\ k \in 0..(l + 1) /\ 0 \in 0..(l + 1) /\ k # 0
      BY <3>2
    <3> QED
      BY <2>4, <2>5, <3>1, <3>2, <3>3
  <2>8. ASSUME NEW b \in Nodes, b # HeadBlock, prev[b] # None
        PROVE  prev[b] # TailBlock /\ next[prev[b]] = b
    <3>1. PICK i \in 1..(l + 1) : b = Node(q, i)
      BY <2>2, <2>4, <2>5, <2>6, <2>8, SMTT(30)
    <3>2. PICK k \in 0..l : k = i - 1
      OBVIOUS
    <3>3. k + 1 = i /\ k \in 0..(l + 1) /\ l + 1 \in 0..(l + 1) /\ k # l + 1
      BY <3>2
    <3> QED
      BY <2>4, <2>5, <3>1, <3>2, <3>3
  <2>9. ASSUME NEW b \in Blocks PROVE next[b] = None <=> prev[b] = None
    <3>1. CASE \E i \in 1..l : q[i] = b
      <4>1. PICK i \in 1..l : q[i] = b
        BY <3>1
      <4>2. PICK j \in 0..(l + 1) : j = i + 1
        OBVIOUS
      <4>3. PICK k \in 0..(l + 1) : k = i - 1
        OBVIOUS
      <4>4. i \in 0..l /\ i \in 1..(l + 1)
        OBVIOUS
      <4>5. next[b] = Node(q, j) /\ prev[b] = Node(q, k)
        BY <2>4, <2>5, <4>1, <4>2, <4>3, <4>4
      <4> QED
        BY <2>4, <4>5
    <3>2. CASE ~\E i \in 1..l : q[i] = b
      BY <2>5, <3>2
    <3> QED
      BY <3>1, <3>2
  <2> QED
    BY <2>7, <2>8, <2>9 DEF LinksAgree
<1> QED
  BY <1>1, Invariance, PTL

\* num_free_blocks is the number of blocks that get_all_free_blocks finds, and
\* every block with links is among them.
THEOREM CountCorrect == Spec => []CountAgrees
<1>1. ASSUME IInv PROVE CountAgrees
  <2>1. PICK q : Linked(q, next, prev) /\ num = Len(q)
    BY <1>1 DEF IInv
  <2>2. FreeList = q
    BY <2>1, FreeListIn, ListIs
  <2>3. DOMAIN q = 1..Len(q)
    BY <2>1 DEF Linked
  <2>4. \A b \in Blocks : Listed(b) => \E i \in DOMAIN q : q[i] = b
    BY <2>1, <2>3, ListedIs
  <2> QED
    BY <2>1, <2>2, <2>4 DEF CountAgrees
<1> QED
  BY <1>1, Invariance, PTL

\* The linked list implements the sequence of free blocks: popleft_n takes from
\* the front, remove out of the middle, prepend_n and append_n put in at the ends.
THEOREM ImplementsQueueHolds == Spec => ImplementsQueue
<1>1. ASSUME Init PROVE Queue!Init
  <2>1. PICK q : q = [i \in 1..NumBlocks |-> i - 1]
    OBVIOUS
  <2>2. Linked(q, next, prev)
    BY <1>1, <2>1, InitLinked
  <2>3. FreeList = q
    BY <2>2, FreeListIn, ListIs
  <2> QED
    BY <1>1, <2>1, <2>3 DEF Init, Queue!Init
<1>2. ASSUME IInv, [Next]_vars PROVE [Queue!Next]_<<FreeList, call>>
  <2>1. PICK q : Linked(q, next, prev) /\ num = Len(q)
    BY <1>2 DEF IInv
  <2>2. FreeList = q
    BY <2>1, FreeListIn, ListIs
  <2>3. CASE Next
    <3>1. PICK w : Becomes(w) /\ QueueStep(q, w)
      BY <2>1, <2>3, StepIs
    <3>2. Linked(w, next', prev')
      BY <3>1 DEF Becomes
    <3>3. FreeList' = w
      BY <3>2, FreeListIn, ListIs
    <3>4. QueueStep(FreeList, FreeList')
      BY <2>2, <3>1, <3>3
    <3>5. Queue!Next
      BY <3>4, Zenon DEF QueueStep, Queue!Next, Queue!PopleftN, Queue!Remove, Queue!PrependN,
                         Queue!AppendN
    <3> QED
      BY <3>5
  <2>4. CASE UNCHANGED vars
    <3>1. next' = next /\ call' = call
      BY <2>4 DEF vars
    <3>2. FreeList' = FreeList
      BY <3>1, FreeListIn
    <3> QED
      BY <3>1, <3>2
  <2> QED
    BY <1>2, <2>3, <2>4
<1> QED
  BY <1>1, <1>2, Invariance, PTL DEF Spec, ImplementsQueue, Queue!Spec
=============================================================================
