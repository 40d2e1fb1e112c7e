---------------------------- MODULE KvLoadProofs ----------------------------
(***************************************************************************)
(* Proofs about KvLoad, for any requests, blocks and hash-chained prompts. *)
(***************************************************************************)
EXTENDS KvLoad, FiniteSetTheorems, SequenceTheorems, WellFoundedInduction, TLAPS

-----------------------------------------------------------------------------
(***************************************************************************)
(* Induction, and functions defined by it.                                 *)
(***************************************************************************)
\* A set of numbers has a smallest one.
LEMMA Smallest ==
  ASSUME NEW T, T \subseteq Nat, T # {}
  PROVE  \E n \in T : \A m \in T : n <= m
<1>1. PICK x \in T : \A y \in T : ~(<<y, x>> \in OpToRel(<, Nat))
  BY NatLessThanWellFounded, WFMin
<1>2. \A y \in T : ~(<<y, x>> \in {ss \in Nat \X Nat : ss[1] < ss[2]})
  BY <1>1 DEF OpToRel
<1>3. \A y \in T : ~(y < x)
  <2> SUFFICES ASSUME NEW y \in T, y < x PROVE FALSE
    OBVIOUS
  <2>1. <<y, x>> \in Nat \X Nat /\ <<y, x>>[1] = y /\ <<y, x>>[2] = x
    OBVIOUS
  <2> QED
    BY <1>2, <2>1
<1> QED
  BY <1>3

\* What holds of 0 and is handed on from i - 1 to i holds up to n.
LEMMA Induction ==
  ASSUME NEW n \in Nat, NEW G, 0 \in G,
         \A i \in 1..n : i - 1 \in G => i \in G
  PROVE  0..n \subseteq G
<1> DEFINE T == (0..n) \ G
<1>1. T \subseteq Nat
  OBVIOUS
<1>2. ASSUME T # {} PROVE FALSE
  <2> HIDE DEF T
  <2>1. PICK m \in T : \A k \in T : m <= k
    BY <1>1, <1>2, Smallest
  <2>2. m \in 0..n /\ m \notin G
    BY DEF T
  <2>3. m # 0
    BY <2>2
  <2>4. m \in 1..n /\ m - 1 \in 0..n /\ ~(m <= m - 1)
    BY <2>2, <2>3
  <2>5. m - 1 \in G
    BY <2>1, <2>4 DEF T
  <2> QED
    BY <2>2, <2>4, <2>5
<1> QED
  BY <1>2

\* h[<<x, i>>] is what step i makes of x, and g[i] what the first i make of e.
StepsIn(n, D, h) == \A x \in D, i \in 1..n : h[<<x, i>>] \in D
Iterates(n, D, e, h, g) ==
    g \in [0..n -> D] /\ g[0] = e /\ \A i \in 1..n : g[i] = h[<<g[i - 1], i>>]

\* A step function on D can be iterated.
LEMMA Iterate ==
  ASSUME NEW n \in Nat, NEW D, NEW e \in D, NEW h, StepsIn(n, D, h)
  PROVE  \E g : Iterates(n, D, e, h, g)
<1> DEFINE G == {k \in 0..n : \E g \in [0..k -> D] :
                   g[0] = e /\ \A i \in 1..k : g[i] = h[<<g[i - 1], i>>]}
<1>1. 0 \in G
  <2>1. PICK g : g = [i \in 0..0 |-> e]
    OBVIOUS
  <2>2. g \in [0..0 -> D] /\ g[0] = e /\ \A i \in 1..0 : g[i] = h[<<g[i - 1], i>>]
    BY <2>1
  <2> QED
    BY <2>2
<1>2. ASSUME NEW k \in 1..n, k - 1 \in G PROVE k \in G
  <2>1. PICK l \in Nat : l = k - 1 /\ k = l + 1
    OBVIOUS
  <2>2. PICK g \in [0..l -> D] : g[0] = e /\ \A i \in 1..l : g[i] = h[<<g[i - 1], i>>]
    BY <1>2, <2>1
  <2>3. PICK f : f = [i \in 0..k |-> IF i <= l THEN g[i] ELSE h[<<g[l], k>>]]
    OBVIOUS
  <2>4. f \in [0..k -> D]
    <3>1. g[l] \in D /\ h[<<g[l], k>>] \in D
      BY <2>1, <2>2 DEF StepsIn
    <3>2. \A i \in 0..k : (IF i <= l THEN g[i] ELSE h[<<g[l], k>>]) \in D
      BY <2>1, <2>2, <3>1
    <3> QED
      BY <2>3, <3>2
  <2>5. f[0] = e
    BY <2>1, <2>2, <2>3
  <2>6. ASSUME NEW i \in 1..k PROVE f[i] = h[<<f[i - 1], i>>]
    <3>1. i - 1 \in 0..k /\ i - 1 <= l /\ f[i - 1] = g[i - 1]
      BY <2>1, <2>3
    <3>2. CASE i <= l
      <4>1. f[i] = g[i] /\ i \in 1..l
        BY <2>1, <2>3, <3>2
      <4> QED
        BY <2>2, <3>1, <4>1
    <3>3. CASE ~(i <= l)
      <4>1. i = k /\ i - 1 = l
        BY <2>1, <3>3
      <4>2. f[i] = h[<<g[l], k>>]
        BY <2>3, <3>3
      <4> QED
        BY <3>1, <4>1, <4>2
    <3> QED
      BY <3>2, <3>3
  <2> QED
    BY <2>4, <2>5, <2>6
<1> HIDE DEF G
<1>3. 0..n \subseteq G
  BY <1>1, <1>2, Induction
<1>4. n \in G
  BY <1>3
<1> QED
  BY <1>4 DEF G, Iterates

\* The elements of a sequence.
LEMMA SeqSet ==
  ASSUME NEW T, NEW s \in Seq(T)
  PROVE  /\ Len(s) \in Nat /\ DOMAIN s = 1..Len(s)
         /\ ToSet(s) = {s[i] : i \in 1..Len(s)} /\ ToSet(s) \subseteq T
         /\ \A i \in 1..Len(s) : s[i] \in T /\ s[i] \in ToSet(s)
BY DEF ToSet

\* Appending to a sequence without repetition.
LEMMA AppendSet ==
  ASSUME NEW T, NEW s \in Seq(T), NEW x \in T
  PROVE  /\ Append(s, x) \in Seq(T) /\ ToSet(Append(s, x)) = ToSet(s) \cup {x}
         /\ IsInjective(s) /\ x \notin ToSet(s) => IsInjective(Append(s, x))
<1>1. PICK m \in Nat : m = Len(s)
  OBVIOUS
<1>2. PICK a : a = Append(s, x)
  OBVIOUS
<1>3. a \in Seq(T) /\ Len(a) = m + 1
  BY <1>1, <1>2, AppendProperties
<1>4. a[m + 1] = x /\ \A i \in 1..m : a[i] = s[i]
  BY <1>1, <1>2, AppendProperties
<1>5. ToSet(s) = {s[i] : i \in 1..m} /\ DOMAIN s = 1..m
  BY <1>1, SeqSet
<1>6. ToSet(a) = {a[i] : i \in 1..(m + 1)} /\ DOMAIN a = 1..(m + 1)
  BY <1>3, SeqSet
<1>7. \A i \in 1..(m + 1) : i \in 1..m \/ i = m + 1
  OBVIOUS
<1>8. 1..m \subseteq 1..(m + 1) /\ m + 1 \in 1..(m + 1)
  OBVIOUS
<1>9. ToSet(a) = ToSet(s) \cup {x}
  BY <1>4, <1>5, <1>6, <1>7, <1>8
<1>10. ASSUME IsInjective(s), x \notin ToSet(s) PROVE IsInjective(a)
  <2>1. \A i, j \in 1..m : s[i] = s[j] => i = j
    BY <1>5, <1>10 DEF IsInjective
  <2>2. \A i \in 1..m : s[i] # x
    BY <1>5, <1>10
  <2>3. \A i, j \in 1..(m + 1) : a[i] = a[j] => i = j
    BY <1>4, <1>7, <2>1, <2>2
  <2> QED
    BY <1>6, <2>3 DEF IsInjective
<1> QED
  BY <1>2, <1>3, <1>9, <1>10

\* remove_all removes those, and only those.
LEMMA RemoveAllIs ==
  ASSUME NEW T, NEW lst \in Seq(T), IsInjective(lst), NEW items, NEW out, out = remove_all(lst, items)
  PROVE  out \in Seq(T) /\ IsInjective(out) /\ ToSet(out) = ToSet(lst) \ items
<1>1. PICK n \in Nat : n = Len(lst)
  OBVIOUS
<1> DEFINE Add(w, i) == IF lst[i] \in items THEN w ELSE Append(w, lst[i])
           Rec(f) == f = [i \in 0..n |-> IF i = 0 THEN <<>> ELSE
                            IF lst[i] \in items THEN f[i - 1] ELSE Append(f[i - 1], lst[i])]
           c == CHOOSE f : Rec(f)
<1>2. out = c[n]
  BY <1>1, Zenon DEF remove_all
<1>3. \A i \in 1..n : lst[i] \in T
  BY <1>1
<1>4. ASSUME NEW x \in Seq(T), NEW i \in 1..n PROVE Add(x, i) \in Seq(T)
  BY <1>3, AppendProperties
<1>5. PICK h : h = [y \in Seq(T) \X (1..n) |-> Add(y[1], y[2])]
  OBVIOUS
<1>6. ASSUME NEW x \in Seq(T), NEW i \in 1..n PROVE h[<<x, i>>] = Add(x, i)
  BY <1>5
<1>7. StepsIn(n, Seq(T), h)
  BY <1>4, <1>6 DEF StepsIn
<1>8. <<>> \in Seq(T)
  OBVIOUS
<1>9. PICK g : Iterates(n, Seq(T), <<>>, h, g)
  BY <1>7, <1>8, Iterate
<1>10. ASSUME NEW i \in 1..n PROVE g[i] = Add(g[i - 1], i) /\ g[i - 1] \in Seq(T)
  <2>1. PICK q : q = i - 1 /\ q \in 0..n
    OBVIOUS
  <2>2. g[q] \in Seq(T) /\ g[i] = h[<<g[q], i>>]
    BY <1>9, <2>1 DEF Iterates
  <2> QED
    BY <1>6, <2>1, <2>2
<1>11. Rec(g)
  <2>1. ASSUME NEW i \in 0..n
        PROVE  g[i] = IF i = 0 THEN <<>> ELSE
                         IF lst[i] \in items THEN g[i - 1] ELSE Append(g[i - 1], lst[i])
    <3>1. CASE i = 0
      BY <1>9, <3>1 DEF Iterates
    <3>2. CASE i # 0
      <4>1. i \in 1..n
        BY <3>2
      <4> QED
        BY <1>10, <3>2, <4>1
    <3> QED
      BY <3>1, <3>2
  <2>2. g = [i \in 0..n |-> g[i]]
    BY <1>9 DEF Iterates
  <2> QED
    BY <2>1, <2>2
<1>12. Rec(c)
  BY <1>11
<1> HIDE DEF c
<1>13. c[0] = <<>>
  BY <1>12
<1>14. ASSUME NEW i \in 1..n PROVE c[i] = Add(c[i - 1], i)
  <2>1. i \in 0..n /\ i # 0
    OBVIOUS
  <2>2. c[i] = IF i = 0 THEN <<>> ELSE IF lst[i] \in items THEN c[i - 1] ELSE Append(c[i - 1], lst[i])
    BY <1>12, <2>1, Zenon
  <2> QED
    BY <2>1, <2>2
<1> DEFINE To(k) == {lst[j] : j \in 1..k}
           G == {k \in 0..n : c[k] \in Seq(T) /\ IsInjective(c[k]) /\ ToSet(c[k]) = To(k) \ items}
<1>15. 0 \in G
  <2>1. To(0) = {} /\ ToSet(<<>>) = {} /\ IsInjective(<<>>)
    BY DEF ToSet, IsInjective
  <2>2. 0 \in 0..n
    OBVIOUS
  <2> HIDE DEF To
  <2>3. c[0] \in Seq(T) /\ IsInjective(c[0]) /\ ToSet(c[0]) = To(0) \ items
    BY <1>8, <1>13, <2>1
  <2> QED
    BY <2>2, <2>3, Zenon DEF To
<1>16. ASSUME NEW k \in 1..n, k - 1 \in G PROVE k \in G
  <2>1. PICK o \in 0..n : o = k - 1
    OBVIOUS
  <2>2. c[o] \in Seq(T) /\ IsInjective(c[o]) /\ ToSet(c[o]) = To(o) \ items /\ c[k] = Add(c[o], k)
    BY <1>14, <1>16, <2>1
  <2>3. PICK x \in T : x = lst[k]
    BY <1>3
  <2>4. To(k) = To(o) \cup {x}
    BY <2>1, <2>3
  <2>5. x \notin To(o)
    <3>1. DOMAIN lst = 1..n
      BY <1>1
    <3> QED
      BY <2>1, <2>3, <3>1 DEF IsInjective
  <2> HIDE DEF To
  <2>6. c[k] \in Seq(T) /\ IsInjective(c[k]) /\ ToSet(c[k]) = To(k) \ items
    <3>1. CASE x \in items
      <4>1. c[k] = c[o] /\ To(k) \ items = To(o) \ items
        BY <2>2, <2>3, <2>4, <3>1
      <4> QED
        BY <2>2, <4>1
    <3>2. CASE x \notin items
      <4>1. PICK w \in Seq(T) : w = c[o]
        BY <2>2
      <4>2. c[k] = Append(w, x) /\ To(k) \ items = (To(o) \ items) \cup {x} /\ x \notin ToSet(w)
        BY <2>2, <2>3, <2>4, <2>5, <3>2, <4>1
      <4>3. Append(w, x) \in Seq(T) /\ IsInjective(Append(w, x)) /\ ToSet(Append(w, x)) = ToSet(w) \cup {x}
        BY <2>2, <4>1, <4>2, AppendSet
      <4> QED
        BY <2>2, <4>1, <4>2, <4>3
    <3> QED
      BY <3>1, <3>2
  <2>7. k \in 0..n
    OBVIOUS
  <2> QED
    BY <2>6, <2>7, Zenon DEF To
<1>17. n \in G
  <2> HIDE DEF G
  <2>1. 0..n \subseteq G
    BY <1>15, <1>16, Induction
  <2> QED
    BY <2>1
<1>18. ToSet(lst) = To(n)
  BY <1>1, SeqSet
<1> QED
  BY <1>2, <1>17, <1>18

\* The l elements of t that a has come before the m of b, without repetition.
Splice(l, m, a, b, t) ==
    /\ (\A i \in 1..l : t[i] = a[i]) /\ (\A i \in 1..m : t[l + i] = b[i])
    /\ \A i, j \in 1..l : a[i] = a[j] => i = j
    /\ \A i, j \in 1..m : b[i] = b[j] => i = j
    /\ \A i \in 1..l, j \in 1..m : a[i] # b[j]

\* Where an element of t comes from, and that it is there once.
LEMMA Spliced ==
  ASSUME NEW l \in Nat, NEW m \in Nat, NEW a, NEW b, NEW t, Splice(l, m, a, b, t)
  PROVE  /\ \A i \in 1..(l + m) : l < i => i - l \in 1..m /\ t[i] = b[i - l]
         /\ \A i, j \in 1..(l + m) : t[i] = t[j] => i = j
<1> USE DEF Splice
<1>1. ASSUME NEW i \in 1..(l + m), l < i PROVE i - l \in 1..m /\ t[i] = b[i - l]
  <2>1. PICK k \in 1..m : k = i - l /\ i = l + k
    BY <1>1
  <2> QED
    BY <2>1
<1>2. \A i \in 1..(l + m) : i \in 1..l \/ l < i
  OBVIOUS
<1>3. ASSUME NEW i \in 1..(l + m), NEW j \in 1..(l + m), t[i] = t[j] PROVE i = j
  <2>1. CASE i \in 1..l /\ j \in 1..l
    BY <1>3, <2>1
  <2>2. CASE i \in 1..l /\ l < j
    <3>1. PICK y \in 1..m : y = j - l /\ t[j] = b[y]
      BY <1>1, <2>2
    <3> QED
      BY <1>3, <2>2, <3>1
  <2>3. CASE l < i /\ j \in 1..l
    <3>1. PICK y \in 1..m : y = i - l /\ t[i] = b[y]
      BY <1>1, <2>3
    <3> QED
      BY <1>3, <2>3, <3>1
  <2>4. CASE l < i /\ l < j
    <3>1. PICK x \in 1..m : x = i - l /\ t[i] = b[x]
      BY <1>1, <2>4
    <3>2. PICK y \in 1..m : y = j - l /\ t[j] = b[y]
      BY <1>1, <2>4
    <3>3. x = y
      BY <1>3, <3>1, <3>2
    <3> QED
      BY <3>1, <3>2, <3>3
  <2> QED
    BY <1>2, <2>1, <2>2, <2>3, <2>4
<1> QED
  BY <1>1, <1>3

\* t has the elements of a and then those of b, without repetition.
Cat(a, b, t) ==
    /\ Len(t) = Len(a) + Len(b) /\ Len(a) \in Nat /\ Len(b) \in Nat
    /\ \A i \in 1..Len(a) : t[i] = a[i] /\ i \in 1..Len(t)
    /\ \A i \in 1..Len(b) : t[Len(a) + i] = b[i] /\ Len(a) + i \in 1..Len(t)
    /\ \A i \in 1..Len(t) : i \in 1..Len(a) \/ Len(a) < i
    /\ \A i \in 1..Len(t) : Len(a) < i =>
          i - Len(a) \in 1..Len(b) /\ t[i] = b[i - Len(a)] /\ t[i] \in ToSet(b)
    /\ IsInjective(t)

\* Two sequences with nothing in common, one after the other.
LEMMA Concatenated ==
  ASSUME NEW T, NEW a \in Seq(T), NEW b \in Seq(T), IsInjective(a), IsInjective(b),
         \A i \in 1..Len(a) : a[i] \notin ToSet(b)
  PROVE  a \o b \in Seq(T) /\ Cat(a, b, a \o b)
<1>1. PICK l \in Nat, m \in Nat : l = Len(a) /\ m = Len(b)
  OBVIOUS
<1>2. \A i, j \in 1..l : a[i] = a[j] => i = j
  BY <1>1, SeqSet DEF IsInjective
<1>3. \A i, j \in 1..m : b[i] = b[j] => i = j
  BY <1>1, SeqSet DEF IsInjective
<1>4. ToSet(b) = {b[i] : i \in 1..m}
  BY <1>1, SeqSet
<1>5. \A i \in 1..l, j \in 1..m : a[i] # b[j]
  BY <1>1, <1>4
<1>6. a \o b \in Seq(T) /\ Len(a \o b) = l + m /\ DOMAIN (a \o b) = 1..(l + m)
  BY <1>1, ConcatProperties
<1>7. \A i \in 1..l : (a \o b)[i] = a[i]
  BY <1>1, ConcatProperties
<1>8. \A i \in 1..m : (a \o b)[l + i] = b[i]
  BY <1>1, ConcatProperties
<1>9. PICK t : t = a \o b
  OBVIOUS
<1>10. /\ \A i \in 1..(l + m) : l < i => i - l \in 1..m /\ t[i] = b[i - l]
       /\ \A i, j \in 1..(l + m) : t[i] = t[j] => i = j
  <2>1. Splice(l, m, a, b, t)
    BY <1>2, <1>3, <1>5, <1>7, <1>8, <1>9 DEF Splice
  <2> QED
    BY <2>1, Spliced
<1>11. t \in Seq(T) /\ Len(t) = l + m /\ DOMAIN t = 1..(l + m)
  BY <1>6, <1>9
<1>12. IsInjective(t)
  BY <1>10, <1>11 DEF IsInjective
<1>13. \A i \in 1..(l + m) : l < i => t[i] \in ToSet(b)
  BY <1>4, <1>10
<1>14. \A i \in 1..(l + m) : i \in 1..l \/ l < i
  OBVIOUS
<1>15. (\A i \in 1..l : t[i] = a[i]) /\ (\A i \in 1..m : t[l + i] = b[i])
  BY <1>7, <1>8, <1>9
<1>16. (\A i \in 1..l : i \in 1..(l + m)) /\ (\A i \in 1..m : l + i \in 1..(l + m))
  OBVIOUS
<1>17. Cat(a, b, t)
  BY <1>1, <1>10, <1>11, <1>12, <1>13, <1>14, <1>15, <1>16 DEF Cat
<1> QED
  BY <1>9, <1>11, <1>17

-----------------------------------------------------------------------------
(***************************************************************************)
(* The inductive invariant.  Where a request stands when the step begins   *)
(* is Before; a block is due when a running request computes it in the step*)
(* or, between two steps, in the next one.                                 *)
(***************************************************************************)
Running(r) == status[r] = "running"
Before(r)  == IF phase = "execute" THEN computed[r] - tokens[r] ELSE computed[r]
Due(b)     == \E r \in Reqs : Running(r) /\
                 \E i \in 1..numTokens(r) : Before(r) < i /\ table[r][i] = b
Cached(b)  == hash[b] # NoHash

\* The variables have their types.
TypesOK ==
    /\ TypeOK /\ IsInjective(running)
    /\ phase \in {"out", "schedule", "preempted", "execute"} /\ tokens \in [Reqs -> Nat]
    /\ second \subseteq Blocks /\ loads \subseteq Blocks
    /\ wrong \subseteq Reqs /\ abandoned \subseteq Reqs

\* A running request has something left to compute, and computes it in a step.
StepOK ==
    \A r \in Reqs :
        /\ phase = "execute" /\ Running(r) => computed[r] = numTokens(r)
        /\ phase # "execute" /\ Running(r) => computed[r] < numTokens(r)
        /\ phase # "out" => (Running(r) <=> tokens[r] > 0)
        /\ phase # "out" /\ Running(r) => tokens[r] = numTokens(r) - Before(r)
        /\ status[r] \in {"waiting", "remote"} => computed[r] <= Len(table[r])
        /\ status[r] \in {"waiting", "remote"} => tokens[r] = 0
        /\ status[r] = "waiting" => computed[r] < numTokens(r)

\* The tables: blocks are cached under the hash of their position, an uncached
\* one has a single holder, and a running request has all its blocks cached.
TableOK ==
    /\ \A r \in Reqs : Len(table[r]) <= numTokens(r) /\ IsInjective(table[r])
    /\ \A r \in Reqs : \A i \in 1..Len(table[r]) :
          Cached(table[r][i]) => hash[table[r][i]] = PromptOf[r][i]
    /\ \A r, s \in Reqs : \A i \in 1..Len(table[r]), j \in 1..Len(table[s]) :
          table[r][i] = table[s][j] /\ ~Cached(table[r][i]) => r = s
    /\ \A r \in Reqs : Running(r) =>
          Len(table[r]) = numTokens(r) /\ \A i \in 1..numTokens(r) : Cached(table[r][i])

\* Asynchronous loads: a block being loaded is not cached and its request is
\* waiting for it; what a request counts as computed is cached, or has arrived,
\* or is on its way; what is cached is right or due.
AsyncOK ==
    AsyncLoads =>
      /\ phase = "out" => \A r \in Reqs : ~Running(r)
      /\ \A b \in loads : ~Cached(b) /\
            \E r \in Reqs : status[r] \in {"remote", "zombie"} /\ r \notin recvd
                            /\ b \in ToSet(table[r])
      /\ \A r \in Reqs : status[r] = "remote" => \A i \in 1..computed[r] :
            Cached(table[r][i]) \/ kv[table[r][i]] \/ (table[r][i] \in loads /\ r \notin recvd)
      /\ \A r \in Reqs : status[r] = "waiting" =>
            \A i \in 1..computed[r] : Cached(table[r][i])
      /\ \A b \in Blocks : Cached(b) => kv[b] \/ Due(b)

\* Synchronous loads: they are over when the step is, and a block being loaded
\* counts as computed for every running request that has it.
SyncOK ==
    ~AsyncLoads =>
      /\ \A r \in Reqs : status[r] \in {"waiting", "running", "done"}
      /\ \A r \in Reqs : status[r] = "waiting" => table[r] = <<>> /\ computed[r] = 0
      /\ \A r \in Reqs : status[r] = "done" => table[r] = <<>>
      /\ phase = "out" => loads = {}
      /\ ~Recompute /\ phase = "out" => \A r \in Reqs : ~Running(r)
      /\ \A b \in loads : ~Due(b) /\ \E r \in Reqs : Running(r) /\
            \E i \in 1..numTokens(r) : i <= Before(r) /\ table[r][i] = b

\* Failed loads are computed again and no request left before it had: a cached
\* block is right, being loaded or due; of the blocks with one hash one is first, and running requests
\* have only first blocks but for the last.
FirstOK ==
    Recompute /\ ~AsyncLoads /\ abandoned = {} =>
      /\ \A b \in Blocks : Cached(b) => kv[b] \/ b \in loads \/ Due(b)
      /\ \A b, c \in Blocks \ second : Cached(b) /\ hash[b] = hash[c] => b = c
      /\ \A r \in Reqs : Running(r) =>
            \A i \in 1..numTokens(r) : i < numTokens(r) => table[r][i] \notin second

\* No output was wrong; failures are remembered under recompute alone, and leave
\* the request something to compute.
OutOK ==
    /\ AsyncLoads \/ (Recompute /\ abandoned = {}) => wrong = {}
    /\ ~Recompute => failed = {}
    /\ \A r \in failed : computed[r] < numTokens(r)

IInv == TypesOK /\ StepOK /\ TableOK /\ AsyncOK /\ SyncOK /\ FirstOK /\ OutOK

-----------------------------------------------------------------------------
(***************************************************************************)
(* What the model runner leaves right.                                     *)
(***************************************************************************)
\* The recursion of Right, unfolded.
LEMMA RightIs ==
  ASSUME KvLoadAssumption, NEW Ok \in SUBSET Blocks
  PROVE  \E g : /\ g[0] = Ok /\ Right(Ok) = g[MaxLen]
                /\ \A p \in 1..MaxLen : g[p] = ComputeAt(g[p - 1], p)
<1>1. PICK n \in Nat : n = MaxLen
  BY DEF KvLoadAssumption
<1> DEFINE B == Blocks \cup {table[y[1]][y[2]] : y \in Reqs \X (1..n)}
<1>2. PICK D : D = SUBSET B
  OBVIOUS
<1> DEFINE Rec(f) == f = [p \in 0..n |-> IF p = 0 THEN Ok ELSE ComputeAt(f[p - 1], p)]
           c == CHOOSE f : Rec(f)
<1>3. Right(Ok) = c[n]
  BY <1>1, Zenon DEF Right
<1>4. ASSUME NEW x \in D, NEW p \in 1..n PROVE ComputeAt(x, p) \in D
  <2>1. \A r \in Reqs : table[r][p] \in {table[y[1]][y[2]] : y \in Reqs \X (1..n)}
    <3> TAKE r \in Reqs
    <3>1. <<r, p>> \in Reqs \X (1..n) /\ <<r, p>>[1] = r /\ <<r, p>>[2] = p
      OBVIOUS
    <3> QED
      BY <3>1
  <2>2. ComputeAt(x, p) \subseteq x \cup {table[r][p] : r \in Reqs}
    BY DEF ComputeAt
  <2>3. x \subseteq B /\ \A r \in Reqs : table[r][p] \in B
    BY <1>2, <2>1
  <2> HIDE DEF B
  <2> QED
    BY <1>2, <2>2, <2>3
<1>5. PICK h : h = [y \in D \X (1..n) |-> ComputeAt(y[1], y[2])]
  OBVIOUS
<1>6. ASSUME NEW x \in D, NEW p \in 1..n PROVE h[<<x, p>>] = ComputeAt(x, p)
  BY <1>5
<1>7. StepsIn(n, D, h)
  BY <1>4, <1>6 DEF StepsIn
<1>8. Ok \in D
  BY <1>2
<1>9. PICK g : Iterates(n, D, Ok, h, g)
  BY <1>7, <1>8, Iterate
<1>10. ASSUME NEW p \in 1..n PROVE g[p] = ComputeAt(g[p - 1], p)
  <2>1. PICK q : q = p - 1 /\ q \in 0..n
    OBVIOUS
  <2> QED
    BY <1>6, <1>9, <2>1 DEF Iterates
<1>11. Rec(g)
  <2>1. ASSUME NEW p \in 0..n PROVE g[p] = IF p = 0 THEN Ok ELSE ComputeAt(g[p - 1], p)
    BY <1>9, <1>10 DEF Iterates
  <2>2. g = [p \in 0..n |-> g[p]]
    BY <1>9 DEF Iterates
  <2> QED
    BY <2>1, <2>2
<1>12. Rec(c)
  BY <1>11
<1> HIDE DEF c
<1>13. c[0] = Ok
  BY <1>12
<1>14. ASSUME NEW p \in 1..n PROVE c[p] = ComputeAt(c[p - 1], p)
  BY <1>12
<1> QED
  BY <1>1, <1>3, <1>13, <1>14

\* A block that is computed in the step: r computes position p.
Computes(r, p) == p \in 1..MaxLen /\ computed[r] - tokens[r] < p /\ p <= computed[r]

\* The blocks of U end up right if each of them is right already or computed, and
\* whatever is before it in a table that computes it is in U too: a block has one
\* position in all the tables that matter.
LEMMA RightKeeps ==
  ASSUME KvLoadAssumption, NEW Ok \in SUBSET Blocks, NEW U,
         computed \in [Reqs -> Nat], tokens \in [Reqs -> Nat],
         \A b \in U : b \in Ok \/ \E r \in Reqs, p \in 1..MaxLen : Computes(r, p) /\ table[r][p] = b,
         \A r \in Reqs, p \in 1..MaxLen : Computes(r, p) /\ table[r][p] \in U =>
             \A q \in 1..(p - 1) : table[r][q] \in U,
         \A r, s \in Reqs, p, q, x \in 1..MaxLen :
             Computes(r, p) /\ Computes(s, x) /\ q <= p /\ table[r][q] = table[s][x] => q = x
  PROVE  U \subseteq Right(Ok)
<1>1. PICK n \in Nat : n = MaxLen
  BY DEF KvLoadAssumption
<1>2. PICK g : /\ g[0] = Ok /\ Right(Ok) = g[MaxLen]
               /\ \A p \in 1..MaxLen : g[p] = ComputeAt(g[p - 1], p)
  BY RightIs
<1> DEFINE In(b, p) == b \in Ok \/ \E s \in Reqs, x \in 1..n : x <= p /\ Computes(s, x) /\ table[s][x] = b
           G == {p \in 0..n : \A b \in U : In(b, p) => b \in g[p]}
<1>3. 0 \in G
  BY <1>1, <1>2
<1>4. ASSUME NEW p \in 1..n, p - 1 \in G PROVE p \in G
  <2>1. PICK o \in 0..n : o = p - 1 /\ p = o + 1
    OBVIOUS
  <2> SUFFICES ASSUME NEW b \in U, In(b, p) PROVE b \in g[p]
    OBVIOUS
  <2>2. g[p] = ComputeAt(g[o], p)
    BY <1>1, <1>2, <2>1
  <2>3. \A r \in Reqs : Computes(r, p) <=> computed[r] - tokens[r] < p /\ p <= computed[r]
    BY <1>1 DEF Computes
  <2>4. CASE \E r \in Reqs : Computes(r, p) /\ table[r][p] = b
    <3>1. PICK r \in Reqs : Computes(r, p) /\ table[r][p] = b
      BY <2>4
    <3>2. ASSUME NEW q \in 1..(p - 1) PROVE table[r][q] \in g[o]
      <4>1. table[r][q] \in U
        BY <1>1, <3>1
      <4>2. q \in 1..n /\ q <= p /\ q <= o
        BY <2>1
      <4>3. In(table[r][q], o)
        <5>1. CASE table[r][q] \in Ok
          BY <5>1
        <5>2. CASE table[r][q] \notin Ok
          <6>1. PICK s \in Reqs, x \in 1..n : Computes(s, x) /\ table[s][x] = table[r][q]
            BY <1>1, <4>1, <5>2
          <6>2. x = q
            BY <1>1, <3>1, <4>2, <6>1
          <6> QED
            BY <4>2, <6>1, <6>2
        <5> QED
          BY <5>1, <5>2
      <4> QED
        BY <1>4, <2>1, <4>1, <4>3
    <3> QED
      BY <2>2, <2>3, <3>1, <3>2 DEF ComputeAt
  <2>5. CASE ~\E r \in Reqs : Computes(r, p) /\ table[r][p] = b
    <3>1. In(b, o)
      <4>1. CASE b \in Ok
        BY <4>1
      <4>2. CASE b \notin Ok
        <5>1. PICK s \in Reqs, x \in 1..n : x <= p /\ Computes(s, x) /\ table[s][x] = b
          BY <4>2
        <5>2. x # p
          BY <2>5, <5>1
        <5>3. x <= o
          BY <2>1, <5>1, <5>2
        <5> QED
          BY <5>1, <5>3
      <4> QED
        BY <4>1, <4>2
    <3>2. b \in g[o]
      BY <1>4, <2>1, <3>1
    <3> QED
      BY <2>2, <2>3, <2>5, <3>2 DEF ComputeAt
  <2> QED
    BY <2>4, <2>5
<1>5. 0..n \subseteq G
  <2> HIDE DEF G
  <2> QED
    BY <1>3, <1>4, Induction
<1>6. n \in G
  BY <1>5
<1>7. ASSUME NEW b \in U PROVE In(b, n)
  <2>1. CASE b \in Ok
    BY <2>1
  <2>2. CASE b \notin Ok
    <3>1. PICK s \in Reqs, x \in 1..n : Computes(s, x) /\ table[s][x] = b
      BY <1>1, <2>2
    <3>2. x <= n
      OBVIOUS
    <3> QED
      BY <3>1, <3>2
  <2> QED
    BY <2>1, <2>2
<1> QED
  BY <1>1, <1>2, <1>6, <1>7

-----------------------------------------------------------------------------
(***************************************************************************)
(* What the scan of the invalid blocks finds.                              *)
(***************************************************************************)
\* The positions of r, of those computed before the step, that failed to load.
Hurt(Inv, r) == {i \in 1..(computed[r] - tokens[r]) : table[r][i] \in Inv}

\* The books a scan works on have their types.
ScanTypes ==
    computed \in [Reqs -> Nat] /\ tokens \in [Reqs -> Nat] /\ table \in [Reqs -> Seq(Blocks)]

\* The requests that have the blocks they count as computed.
Within == {r \in Reqs : computed[r] - tokens[r] <= Len(table[r])}

Accs == [marked : SUBSET Blocks, affected : SUBSET Reqs, computed : [Reqs -> Nat],
         evict : SUBSET Blocks]

\* What the scan of the requests in S leaves in a: the affected ones are those
\* with failed blocks; a failed block that a request keeps was another affected
\* one's first; every failed block is to be evicted, and is beyond the computed
\* tokens of some affected request.
ScanOK(Inv, comp, S, a) ==
    /\ a \in Accs
    /\ a.affected = {r \in S : Hurt(Inv, r) # {}}
    /\ \A b \in a.marked : \E r \in a.affected : \E i \in Hurt(Inv, r) : table[r][i] = b
    /\ \A r \in Reqs \ a.affected : a.computed[r] = comp[r]
    /\ \A r \in a.affected : a.computed[r] <= computed[r] - tokens[r]
    /\ \A r \in a.affected : \A i \in Hurt(Inv, r) : i <= a.computed[r] =>
          \E s \in a.affected : s # r /\ \E j \in Hurt(Inv, s) : table[s][j] = table[r][i]
    /\ a.marked \subseteq a.evict
    /\ \A r \in a.affected : \A i \in Hurt(Inv, r) : table[r][i] \in a.marked
    /\ \A b \in a.marked : \E s \in a.affected : \E j \in Hurt(Inv, s) :
          j > a.computed[s] /\ table[s][j] = b
    /\ a.affected = {} => a.evict = {}

\* The smallest of a set of numbers.
LEMMA FirstIs ==
  ASSUME NEW S, S \subseteq Nat, S # {}
  PROVE  First(S) \in S /\ \A j \in S : First(S) <= j
BY Smallest DEF First

\* What a turn of the scan does for a request with failed blocks.
Turn(Inv, a, r, c) ==
    /\ c.marked = a.marked \cup {table[r][i] : i \in Hurt(Inv, r)}
    /\ c.affected = a.affected \cup {r}
    /\ \A s \in Reqs : s # r => c.computed[s] = a.computed[s]
    /\ c.computed[r] <= computed[r] - tokens[r]
    /\ a.evict \subseteq c.evict
    /\ \A i \in Hurt(Inv, r) : table[r][i] \notin a.marked =>
          i > c.computed[r] /\ table[r][i] \in c.evict

\* One turn of the scan, with its cases apart.
LEMMA ScanOneIs ==
  ASSUME ScanTypes, NEW Inv, NEW a \in Accs, NEW r \in Within, NEW c, c = ScanOne(Inv, a, r)
  PROVE  /\ c \in Accs
         /\ Hurt(Inv, r) = {} => c = a
         /\ Hurt(Inv, r) # {} => Turn(Inv, a, r, c)
<1>1. r \in Reqs
  BY DEF Within
<1>2. PICK before \in Int : before = computed[r] - tokens[r] /\ before <= Len(table[r])
  BY DEF ScanTypes, Within
<1>3. PICK bad : bad = Hurt(Inv, r)
  OBVIOUS
<1>4. bad \subseteq 1..before /\ bad = {i \in 1..before : table[r][i] \in Inv}
  BY <1>2, <1>3 DEF Hurt
<1>5. PICK fresh : fresh = {i \in bad : table[r][i] \notin a.marked}
  OBVIOUS
<1>6. fresh \subseteq 1..before /\ fresh \subseteq Nat
  BY <1>2, <1>4, <1>5
<1>7. CASE bad = {}
  <2>1. c = a
    BY <1>2, <1>4, <1>7 DEF ScanOne
  <2> QED
    BY <1>3, <1>7, <2>1
<1>8. CASE bad # {}
  <2>1. before \in Nat \ {0}
    BY <1>2, <1>4, <1>8
  <2>2. PICK k : k = IF fresh = {} THEN before ELSE Truncate(First(fresh))
    OBVIOUS
  <2>3. PICK E : E = IF fresh = {} THEN {} ELSE Downstream(table[r], First(fresh))
    OBVIOUS
  <2>4. c = [marked |-> a.marked \cup {table[r][i] : i \in bad},
             affected |-> a.affected \cup {r},
             computed |-> [a.computed EXCEPT ![r] = k],
             evict |-> a.evict \cup E]
    BY <1>2, <1>4, <1>5, <1>8, <2>2, <2>3 DEF ScanOne
  <2>5. table[r] \in Seq(Blocks) /\ \A i \in 1..Len(table[r]) : table[r][i] \in Blocks
    BY <1>1 DEF ScanTypes
  <2>6. k \in Nat /\ k <= before /\ \A i \in fresh : i > k
    <3>1. CASE fresh = {}
      BY <2>1, <2>2, <3>1
    <3>2. CASE fresh # {}
      <4>1. PICK f : f = First(fresh) /\ f \in fresh /\ \A j \in fresh : f <= j
        BY <1>6, <3>2, FirstIs
      <4>2. k = f - 1
        BY <2>2, <3>2, <4>1 DEF Truncate
      <4>3. f \in 1..before /\ \A j \in fresh : j \in Nat
        BY <1>6, <4>1
      <4> QED
        BY <4>1, <4>2, <4>3
    <3> QED
      BY <3>1, <3>2
  <2>7. E \subseteq Blocks /\ \A i \in fresh : table[r][i] \in E
    <3>1. CASE fresh = {}
      BY <2>3, <3>1
    <3>2. CASE fresh # {}
      <4>1. PICK f : f = First(fresh) /\ f \in fresh /\ \A j \in fresh : f <= j
        BY <1>6, <3>2, FirstIs
      <4>2. E = {table[r][j] : j \in f..Len(table[r])}
        BY <2>3, <3>2, <4>1 DEF Downstream
      <4>3. f \in 1..before /\ \A j \in fresh : j \in f..Len(table[r])
        BY <1>2, <1>6, <2>5, <4>1
      <4> QED
        BY <2>5, <4>2, <4>3
    <3> QED
      BY <3>1, <3>2
  <2>8. {table[r][i] : i \in bad} \subseteq Blocks
    BY <1>2, <1>4, <2>5
  <2>9. [a.computed EXCEPT ![r] = k] \in [Reqs -> Nat]
    BY <1>1, <2>6 DEF Accs
  <2>10. c \in Accs
    BY <1>1, <2>4, <2>7, <2>8, <2>9 DEF Accs
  <2>11. \A s \in Reqs : s # r => c.computed[s] = a.computed[s]
    BY <1>1, <2>4 DEF Accs
  <2>12. c.computed[r] = k
    BY <1>1, <2>4 DEF Accs
  <2> QED
    BY <1>2, <1>3, <1>5, <1>8, <2>4, <2>6, <2>7, <2>10, <2>11, <2>12 DEF Turn
<1> QED
  BY <1>7, <1>8

\* A turn keeps what the scan knows, if it is the request's only one.
LEMMA ScanStep ==
  ASSUME ScanTypes, NEW Inv, NEW comp, NEW S \in SUBSET Reqs, NEW a, ScanOK(Inv, comp, S, a),
         NEW r \in Within \ S, NEW c, c = ScanOne(Inv, a, r)
  PROVE  ScanOK(Inv, comp, S \cup {r}, c)
<1>1. a \in Accs /\ a.affected \subseteq S /\ r \in Reqs
  BY DEF ScanOK, Within
<1>2. c \in Accs
  BY <1>1, ScanOneIs
<1>3. CASE Hurt(Inv, r) = {}
  <2>1. c = a
    BY <1>1, <1>3, ScanOneIs
  <2>2. {s \in S \cup {r} : Hurt(Inv, s) # {}} = {s \in S : Hurt(Inv, s) # {}}
    BY <1>3
  <2> QED
    BY <2>1, <2>2 DEF ScanOK
<1>4. CASE Hurt(Inv, r) # {}
  <2>1. Turn(Inv, a, r, c)
    BY <1>1, <1>4, ScanOneIs
  <2>2. r \notin a.affected /\ \A s \in a.affected : s \in Reqs /\ s # r /\ c.computed[s] = a.computed[s]
    BY <1>1, <2>1 DEF Turn
  <2>3. c.affected = {s \in S \cup {r} : Hurt(Inv, s) # {}}
    BY <1>4, <2>1 DEF ScanOK, Turn
  <2>4. \A b \in c.marked : \E s \in c.affected : \E i \in Hurt(Inv, s) : table[s][i] = b
    BY <2>1 DEF ScanOK, Turn
  <2>5. \A s \in Reqs \ c.affected : c.computed[s] = comp[s]
    BY <2>1 DEF ScanOK, Turn
  <2>6. \A s \in c.affected : c.computed[s] <= computed[s] - tokens[s]
    BY <2>1, <2>2 DEF ScanOK, Turn
  <2>7. ASSUME NEW s \in c.affected, NEW i \in Hurt(Inv, s), i <= c.computed[s]
        PROVE  \E x \in c.affected : x # s /\ \E j \in Hurt(Inv, x) : table[x][j] = table[s][i]
    <3>1. CASE s = r
      <4>1. i \in Nat /\ c.computed[r] \in Nat
        BY <1>1, <1>2 DEF Hurt, Accs
      <4>2. table[r][i] \in a.marked
        BY <2>1, <2>7, <3>1, <4>1 DEF Turn
      <4>3. PICK x \in a.affected : \E j \in Hurt(Inv, x) : table[x][j] = table[r][i]
        BY <4>2 DEF ScanOK
      <4> QED
        BY <2>1, <2>2, <3>1, <4>3 DEF Turn
    <3>2. CASE s # r
      <4>1. s \in a.affected /\ i <= a.computed[s]
        BY <2>1, <2>2, <2>7, <3>2 DEF Turn
      <4> QED
        BY <2>1, <4>1 DEF ScanOK, Turn
    <3> QED
      BY <3>1, <3>2
  <2>8. c.marked \subseteq c.evict
    <3>1. a.marked \subseteq c.evict
      BY <2>1 DEF ScanOK, Turn
    <3> QED
      BY <2>1, <3>1 DEF Turn
  <2>9. \A s \in c.affected : \A i \in Hurt(Inv, s) : table[s][i] \in c.marked
    BY <2>1 DEF ScanOK, Turn
  <2>10. ASSUME NEW b \in c.marked
         PROVE  \E s \in c.affected : \E j \in Hurt(Inv, s) : j > c.computed[s] /\ table[s][j] = b
    <3>1. CASE b \in a.marked
      <4>1. PICK s \in a.affected : \E j \in Hurt(Inv, s) : j > a.computed[s] /\ table[s][j] = b
        BY <3>1 DEF ScanOK
      <4> QED
        BY <2>1, <2>2, <4>1 DEF Turn
    <3>2. CASE b \notin a.marked
      <4>1. PICK i \in Hurt(Inv, r) : table[r][i] = b
        BY <2>1, <3>2 DEF Turn
      <4> QED
        BY <2>1, <3>2, <4>1 DEF Turn
    <3> QED
      BY <3>1, <3>2
  <2>11. c.affected # {}
    BY <2>1 DEF Turn
  <2> QED
    BY <1>2, <2>3, <2>4, <2>5, <2>6, <2>7, <2>8, <2>9, <2>10, <2>11 DEF ScanOK
<1> QED
  BY <1>3, <1>4

\* g[i] is what the scan has after i requests.
ScanTrace(Inv, comp, seq, g) ==
    /\ g[0] = [marked |-> {}, affected |-> {}, computed |-> comp, evict |-> {}]
    /\ Scan(Inv, comp, seq) = g[Len(seq)]
    /\ \A i \in 1..Len(seq) : g[i] = ScanOne(Inv, g[i - 1], seq[i])

\* The recursion of Scan, unfolded.
LEMMA ScanIs ==
  ASSUME ScanTypes, NEW Inv, NEW comp \in [Reqs -> Nat], NEW seq \in Seq(Within)
  PROVE  \E g : ScanTrace(Inv, comp, seq, g)
<1>1. PICK n \in Nat : n = Len(seq)
  OBVIOUS
<1>2. PICK e : e = [marked |-> {}, affected |-> {}, computed |-> comp, evict |-> {}]
  OBVIOUS
<1> DEFINE Rec(f) == f = [i \in 0..n |-> IF i = 0 THEN e ELSE ScanOne(Inv, f[i - 1], seq[i])]
           c == CHOOSE f : Rec(f)
<1>3. Scan(Inv, comp, seq) = c[n]
  BY <1>1, <1>2, Zenon DEF Scan
<1>4. ASSUME NEW x \in Accs, NEW i \in 1..n PROVE ScanOne(Inv, x, seq[i]) \in Accs
  <2>1. PICK r \in Within : r = seq[i]
    BY <1>1
  <2>2. PICK y : y = ScanOne(Inv, x, r)
    OBVIOUS
  <2>3. y \in Accs
    BY <2>2, ScanOneIs
  <2> QED
    BY <2>1, <2>2, <2>3
<1>5. PICK h : h = [y \in Accs \X (1..n) |-> ScanOne(Inv, y[1], seq[y[2]])]
  OBVIOUS
<1>6. ASSUME NEW x \in Accs, NEW i \in 1..n PROVE h[<<x, i>>] = ScanOne(Inv, x, seq[i])
  BY <1>5
<1>7. StepsIn(n, Accs, h)
  BY <1>4, <1>6 DEF StepsIn
<1>8. e \in Accs
  BY <1>2 DEF Accs
<1>9. PICK g : Iterates(n, Accs, e, h, g)
  BY <1>7, <1>8, Iterate
<1>10. ASSUME NEW i \in 1..n PROVE g[i] = ScanOne(Inv, g[i - 1], seq[i])
  <2>1. PICK q : q = i - 1 /\ q \in 0..n
    OBVIOUS
  <2> QED
    BY <1>6, <1>9, <2>1 DEF Iterates
<1>11. Rec(g)
  <2>1. ASSUME NEW i \in 0..n PROVE g[i] = IF i = 0 THEN e ELSE ScanOne(Inv, g[i - 1], seq[i])
    BY <1>9, <1>10 DEF Iterates
  <2>2. g = [i \in 0..n |-> g[i]]
    BY <1>9 DEF Iterates
  <2> QED
    BY <2>1, <2>2
<1>12. Rec(c)
  BY <1>11
<1> HIDE DEF c
<1>13. c[0] = e
  BY <1>12
<1>14. ASSUME NEW i \in 1..n PROVE c[i] = ScanOne(Inv, c[i - 1], seq[i])
  BY <1>12
<1>15. ScanTrace(Inv, comp, seq, c)
  BY <1>1, <1>2, <1>3, <1>13, <1>14 DEF ScanTrace
<1> QED
  BY <1>15

\* A scan of distinct requests.
LEMMA ScanFacts ==
  ASSUME ScanTypes, NEW Inv, NEW comp \in [Reqs -> Nat], NEW seq \in Seq(Within), IsInjective(seq)
  PROVE  ScanOK(Inv, comp, ToSet(seq), Scan(Inv, comp, seq))
<1>1. PICK n \in Nat : n = Len(seq)
  OBVIOUS
<1>2. PICK g : ScanTrace(Inv, comp, seq, g)
  BY ScanIs
<1> DEFINE To(k) == {seq[j] : j \in 1..k}
           G == {k \in 0..n : ScanOK(Inv, comp, To(k), g[k])}
<1>3. 0 \in G
  <2>1. To(0) = {}
    OBVIOUS
  <2>2. ScanOK(Inv, comp, {}, g[0])
    BY <1>2 DEF ScanOK, Accs, ScanTrace
  <2>3. 0 \in 0..n
    OBVIOUS
  <2>4. ScanOK(Inv, comp, To(0), g[0])
    <3> HIDE DEF To
    <3> QED
      BY <2>1, <2>2, Zenon
  <2> QED
    BY <2>3, <2>4, Zenon
<1>4. ASSUME NEW k \in 1..n, k - 1 \in G PROVE k \in G
  <2>1. PICK o \in 0..n : o = k - 1
    OBVIOUS
  <2>2. seq[k] \in Within /\ \A j \in 1..o : seq[j] \in Within /\ seq[j] # seq[k]
    BY <1>1, <2>1 DEF IsInjective
  <2>3. To(k) = To(o) \cup {seq[k]}
    BY <2>1
  <2>4. To(o) \subseteq Reqs /\ seq[k] \in Within \ To(o)
    BY <2>2 DEF Within
  <2>5. ScanOK(Inv, comp, To(o), g[o]) /\ g[k] = ScanOne(Inv, g[o], seq[k])
    BY <1>1, <1>2, <1>4, <2>1 DEF ScanTrace
  <2> HIDE DEF To
  <2>6. ScanOK(Inv, comp, To(o) \cup {seq[k]}, g[k])
    BY <2>4, <2>5, ScanStep
  <2>7. ScanOK(Inv, comp, To(k), g[k]) /\ k \in 0..n
    BY <2>3, <2>6
  <2> QED
    BY <2>7, Zenon DEF To
<1>5. n \in G
  <2> HIDE DEF G
  <2>1. 0..n \subseteq G
    BY <1>3, <1>4, Induction
  <2> QED
    BY <2>1
<1>6. ToSet(seq) = To(n)
  BY <1>1 DEF ToSet
<1> HIDE DEF To
<1> QED
  BY <1>1, <1>2, <1>5, <1>6 DEF ScanTrace

\* The members of a finite set in some order.
LEMMA SetToSeqIs ==
  ASSUME NEW S, IsFiniteSet(S)
  PROVE  SetToSeq(S) \in Seq(S) /\ IsInjective(SetToSeq(S)) /\ ToSet(SetToSeq(S)) = S
<1>1. PICK n \in Nat : n = Cardinality(S)
  BY FS_CardinalityType
<1>2. PICK f \in Bijection(1..n, S) : TRUE
  BY <1>1, FS_CardinalityType DEF ExistsBijection
<1>3. f \in [1..n -> S] /\ IsInjective(f)
  BY <1>2 DEF Bijection, Injection, IsInjective
<1>4. PICK q : q = SetToSeq(S)
  OBVIOUS
<1>5. q \in [1..n -> S] /\ IsInjective(q)
  BY <1>1, <1>3, <1>4 DEF SetToSeq
<1>6. q \in Seq(S) /\ Len(q) = n
  BY <1>5
<1>7. q \in Injection(1..n, S)
  BY <1>5 DEF Injection
<1>8. Cardinality(1..n) = n
  BY FS_Interval
<1>9. q \in Surjection(1..n, S)
  BY <1>1, <1>7, <1>8, FS_Injection
<1>10. ToSet(q) = S
  BY <1>5, <1>6, <1>9 DEF ToSet, Surjection
<1> QED
  BY <1>4, <1>5, <1>6, <1>10

-----------------------------------------------------------------------------
(***************************************************************************)
(* Handing out blocks and caching them.                                    *)
(***************************************************************************)
\* Prompts and their hashes.
LEMMA PromptFacts ==
  ASSUME KvLoadAssumption
  PROVE  /\ \A r \in Reqs : numTokens(r) \in Nat /\ numTokens(r) \in 1..MaxLen
         /\ \A r \in Reqs : \A i \in 1..numTokens(r) :
               PromptOf[r][i] \in Nat /\ PromptOf[r][i] # NoHash
         /\ \A r, s \in Reqs : \A i \in 1..numTokens(r), j \in 1..numTokens(s) :
               PromptOf[r][i] = PromptOf[s][j] =>
                  i = j /\ \A k \in 1..i : PromptOf[r][k] = PromptOf[s][k]
<1>1. \A r \in Reqs : PromptOf[r] \in Seq(Nat) /\ Len(PromptOf[r]) \in 1..MaxLen
                      /\ DOMAIN PromptOf[r] = 1..Len(PromptOf[r])
  BY DEF KvLoadAssumption
<1>2. \A r \in Reqs : numTokens(r) \in Nat /\ numTokens(r) \in 1..MaxLen
  BY <1>1 DEF KvLoadAssumption, numTokens
<1>3. \A r \in Reqs : \A i \in 1..numTokens(r) : PromptOf[r][i] \in Nat /\ PromptOf[r][i] # NoHash
  BY <1>1 DEF KvLoadAssumption, numTokens
<1>4. ASSUME NEW r \in Reqs, NEW s \in Reqs, NEW i \in 1..numTokens(r), NEW j \in 1..numTokens(s),
             PromptOf[r][i] = PromptOf[s][j]
      PROVE  i = j /\ \A k \in 1..i : PromptOf[r][k] = PromptOf[s][k]
  <2>1. Chained(PromptOf[r], PromptOf[s])
    BY DEF KvLoadAssumption
  <2> QED
    BY <1>1, <1>4, <2>1 DEF Chained, numTokens
<1> QED
  BY <1>2, <1>3, <1>4

\* What CacheBlocks makes of the hashes and of second.
CacheDone(r, hit, new, t, n) ==
    /\ hash' \in [Blocks -> Nat \cup {NoHash}]
    /\ \A i \in 1..n : hash'[t[i]] = PromptOf[r][i]
    /\ \A b \in Blocks : (\A i \in 1..n : t[i] # b) =>
          hash'[b] = IF b \in ToSet(new) THEN NoHash ELSE hash[b]
    /\ second' \subseteq Blocks
    /\ \A b \in Blocks : b \in second' <=>
          \/ b \in second /\ b \notin ToSet(hit) /\ b \notin ToSet(new)
          \/ \E i \in 1..n : /\ t[i] = b /\ (b \in ToSet(new) \/ hash[b] = NoHash)
                             /\ \E c \in Blocks : c \notin ToSet(new) /\ hash[c] = PromptOf[r][i]

\* CacheBlocks, in these terms.
LEMMA CacheBlocksIs ==
  ASSUME KvLoadAssumption, hash \in [Blocks -> Nat \cup {NoHash}], second \subseteq Blocks,
         NEW r \in Reqs, NEW hit, NEW new, NEW t \in Seq(Blocks), NEW n \in 0..Len(t),
         IsInjective(t), n <= numTokens(r), CacheBlocks(r, hit, new, t, n)
  PROVE  CacheDone(r, hit, new, t, n)
<1> DEFINE left == [b \in Blocks |-> IF b \in ToSet(new) THEN NoHash ELSE hash[b]]
           At(b) == CHOOSE i \in 1..n : t[i] = b
           full == {t[i] : i \in 1..n}
           again == {b \in full : left[b] = NoHash
                                   /\ \E c \in Blocks : left[c] = PromptOf[r][At(b)]}
<1>1. hash' = [b \in Blocks |-> IF b \in full THEN PromptOf[r][At(b)] ELSE left[b]]
  BY DEF CacheBlocks
<1>2. second' = (second \ (ToSet(hit) \cup ToSet(new))) \cup again
  BY DEF CacheBlocks
<1>3. \A i \in 1..n : t[i] \in Blocks /\ i \in 1..numTokens(r) /\ i \in DOMAIN t
  BY PromptFacts
<1>4. ASSUME NEW i \in 1..n PROVE At(t[i]) = i
  BY <1>3 DEF IsInjective
<1>5. \A b \in Blocks : left[b] = IF b \in ToSet(new) THEN NoHash ELSE hash[b]
  OBVIOUS
<1>6. \A b \in Blocks : left[b] \in Nat \cup {NoHash}
  OBVIOUS
<1> HIDE DEF At, left
<1>7. hash' \in [Blocks -> Nat \cup {NoHash}]
  <2>1. ASSUME NEW b \in Blocks
        PROVE  (IF b \in full THEN PromptOf[r][At(b)] ELSE left[b]) \in Nat \cup {NoHash}
    <3>1. CASE b \in full
      <4>1. PICK i \in 1..n : b = t[i]
        BY <3>1
      <4> QED
        BY <1>3, <1>4, <3>1, <4>1, PromptFacts
    <3> QED
      BY <1>6, <3>1
  <2> QED
    BY <1>1, <2>1
<1>8. \A i \in 1..n : hash'[t[i]] = PromptOf[r][i]
  BY <1>1, <1>3, <1>4
<1>9. \A b \in Blocks : (\A i \in 1..n : t[i] # b) =>
          hash'[b] = IF b \in ToSet(new) THEN NoHash ELSE hash[b]
  BY <1>1, <1>5
<1>10. ASSUME NEW b \in Blocks
       PROVE  b \in again <=>
                \E i \in 1..n : /\ t[i] = b /\ (b \in ToSet(new) \/ hash[b] = NoHash)
                                /\ \E c \in Blocks : c \notin ToSet(new) /\ hash[c] = PromptOf[r][i]
  <2>1. ASSUME NEW i \in 1..n, t[i] = b
        PROVE  /\ At(b) = i
               /\ \A c \in Blocks : left[c] = PromptOf[r][i] <=>
                     c \notin ToSet(new) /\ hash[c] = PromptOf[r][i]
    BY <1>3, <1>4, <1>5, <2>1, PromptFacts
  <2>2. left[b] = NoHash <=> b \in ToSet(new) \/ hash[b] = NoHash
    BY <1>5
  <2> QED
    BY <2>1, <2>2
<1>11. again \subseteq Blocks
  BY <1>3
<1> HIDE DEF again
<1>12. second' \subseteq Blocks
  BY <1>2, <1>11
<1>13. \A b \in Blocks : b \in second' <=>
          \/ b \in second /\ b \notin ToSet(hit) /\ b \notin ToSet(new)
          \/ \E i \in 1..n : /\ t[i] = b /\ (b \in ToSet(new) \/ hash[b] = NoHash)
                             /\ \E c \in Blocks : c \notin ToSet(new) /\ hash[c] = PromptOf[r][i]
  BY <1>2, <1>10
<1> QED
  BY <1>7, <1>8, <1>9, <1>12, <1>13 DEF CacheDone

\* r's table becomes t: its blocks come from new, from the cache or from where
\* they were, and the first n are cached.
Gives(r, t, n, new) ==
    /\ t \in Seq(Blocks) /\ IsInjective(t) /\ Len(t) <= numTokens(r) /\ n \in 0..Len(t)
    /\ new \subseteq Free
    /\ \A i \in 1..Len(t) : \/ t[i] \in new \/ hash[t[i]] = PromptOf[r][i]
                            \/ (i \in 1..Len(table[r]) /\ t[i] = table[r][i])
    /\ table' = [table EXCEPT ![r] = t]
    /\ hash' \in [Blocks -> Nat \cup {NoHash}]
    /\ \A i \in 1..n : hash'[t[i]] = PromptOf[r][i]
    /\ \A b \in Blocks : (\A i \in 1..n : t[i] # b) =>
          hash'[b] = IF b \in new THEN NoHash ELSE hash[b]

\* A free block is in no table.
LEMMA FreeFacts ==
  ASSUME table \in [Reqs -> Seq(Blocks)]
  PROVE  /\ Free \subseteq Blocks
         /\ \A r \in Reqs : \A i \in 1..Len(table[r]) : table[r][i] \in Blocks /\ table[r][i] \notin Free
<1>1. \A r \in Reqs : \A i \in 1..Len(table[r]) : table[r][i] \in Blocks /\ table[r][i] \in ToSet(table[r])
  BY DEF ToSet
<1> QED
  BY <1>1 DEF Free

\* Cached blocks stay cached under their hash, unless they are handed out.
LEMMA GivesKeeps ==
  ASSUME KvLoadAssumption, TypesOK, TableOK, NEW r \in Reqs, NEW t, NEW n, NEW new, Gives(r, t, n, new)
  PROVE  \A b \in Blocks \ new : Cached(b) => hash'[b] = hash[b]
<1> SUFFICES ASSUME NEW b \in Blocks \ new, Cached(b) PROVE hash'[b] = hash[b]
  OBVIOUS
<1>1. CASE \A i \in 1..n : t[i] # b
  BY <1>1 DEF Gives
<1>2. CASE \E i \in 1..n : t[i] = b
  <2>1. PICK i \in 1..n : t[i] = b
    BY <1>2
  <2>2. i \in 1..Len(t) /\ hash'[b] = PromptOf[r][i]
    BY <2>1 DEF Gives
  <2>3. CASE hash[t[i]] = PromptOf[r][i]
    BY <2>1, <2>2, <2>3
  <2>4. CASE i \in 1..Len(table[r]) /\ t[i] = table[r][i]
    BY <2>1, <2>2, <2>4 DEF TableOK
  <2> QED
    BY <2>1, <2>2, <2>3, <2>4 DEF Gives
<1> QED
  BY <1>1, <1>2

\* The tables stay as they should be.
LEMMA GivesTable ==
  ASSUME KvLoadAssumption, TypesOK, TableOK, NEW r \in Reqs, NEW t, NEW n, NEW new, Gives(r, t, n, new),
         \A s \in Reqs \ {r} : status'[s] = "running" => Running(s),
         status'[r] = "running" => Len(t) = numTokens(r) /\ n = Len(t)
  PROVE  TableOK'
<1>1. /\ \A s \in Reqs \ {r} : table'[s] = table[s]
      /\ table'[r] = t
  BY DEF Gives, TypesOK, TypeOK
<1>2. /\ t \in Seq(Blocks) /\ IsInjective(t) /\ Len(t) \in Nat /\ Len(t) <= numTokens(r) /\ n \in 0..Len(t)
      /\ \A i \in 1..Len(t) : t[i] \in Blocks
      /\ \A i \in 1..Len(t) : \/ t[i] \in new \/ hash[t[i]] = PromptOf[r][i]
                              \/ (i \in 1..Len(table[r]) /\ t[i] = table[r][i])
  <2>1. t \in Seq(Blocks) /\ IsInjective(t) /\ Len(t) <= numTokens(r) /\ n \in 0..Len(t)
    BY DEF Gives
  <2>2. Len(t) \in Nat /\ \A i \in 1..Len(t) : t[i] \in Blocks
    BY <2>1
  <2>3. \A i \in 1..Len(t) : \/ t[i] \in new \/ hash[t[i]] = PromptOf[r][i]
                             \/ (i \in 1..Len(table[r]) /\ t[i] = table[r][i])
    BY Zenon DEF Gives
  <2> QED
    BY <2>1, <2>2, <2>3, Zenon
<1>3. /\ \A i \in 1..n : hash'[t[i]] = PromptOf[r][i]
      /\ \A b \in Blocks : (\A i \in 1..n : t[i] # b) =>
            hash'[b] = IF b \in new THEN NoHash ELSE hash[b]
  BY DEF Gives
<1>4. \A s \in Reqs : \A i \in 1..Len(table[s]) : table[s][i] \in Blocks /\ table[s][i] \notin new
  BY FreeFacts DEF Gives, TypesOK, TypeOK
<1>5. \A b \in Blocks \ new : Cached(b) => hash'[b] = hash[b]
  BY GivesKeeps
<1>6. \A s \in Reqs : Len(table[s]) <= numTokens(s) /\ IsInjective(table[s]) /\ Len(table[s]) \in Nat
  BY DEF TableOK, TypesOK, TypeOK
<1>7. \A i \in 1..numTokens(r) : PromptOf[r][i] # NoHash
  BY PromptFacts
<1>8. numTokens(r) \in Nat
  BY PromptFacts
\* A block of another request that t has without a hash.
<1>9. ASSUME NEW s \in Reqs \ {r}, NEW i \in 1..Len(t), NEW j \in 1..Len(table[s]), t[i] = table[s][j]
      PROVE  Cached(t[i])
  <2>1. t[i] \notin new
    BY <1>4, <1>9
  <2>2. i \in 1..numTokens(r)
    BY <1>2, <1>8
  <2>3. CASE hash[t[i]] = PromptOf[r][i]
    BY <1>7, <2>2, <2>3 DEF Cached
  <2>4. CASE i \in 1..Len(table[r]) /\ t[i] = table[r][i]
    BY <1>9, <2>4 DEF TableOK
  <2> QED
    BY <1>2, <2>1, <2>3, <2>4
<1>10. \A s \in Reqs : Len(table'[s]) <= numTokens(s) /\ IsInjective(table'[s])
  BY <1>1, <1>2, <1>6
<1>11. ASSUME NEW s \in Reqs, NEW i \in 1..Len(table'[s]), hash'[table'[s][i]] # NoHash
       PROVE  hash'[table'[s][i]] = PromptOf[s][i]
  <2>1. CASE s = r
    <3>1. CASE i \in 1..n
      BY <1>1, <1>3, <2>1, <3>1
    <3>2. CASE i \notin 1..n
      <4>1. i \in 1..Len(t) /\ \A k \in 1..n : t[k] # t[i]
        BY <1>1, <1>2, <2>1, <3>2 DEF IsInjective
      <4>2. t[i] \in Blocks /\ hash'[t[i]] = IF t[i] \in new THEN NoHash ELSE hash[t[i]]
        BY <1>2, <1>3, <4>1
      <4>3. t[i] \notin new /\ hash'[t[i]] = hash[t[i]] /\ Cached(t[i])
        BY <1>1, <1>11, <2>1, <4>2 DEF Cached
      <4>4. CASE hash[t[i]] = PromptOf[r][i]
        BY <1>1, <2>1, <4>3, <4>4
      <4>5. CASE i \in 1..Len(table[r]) /\ t[i] = table[r][i]
        BY <1>1, <2>1, <4>3, <4>5 DEF TableOK
      <4> QED
        BY <1>2, <4>1, <4>3, <4>4, <4>5
    <3> QED
      BY <3>1, <3>2
  <2>2. CASE s # r
    <3>1. PICK b : b = table[s][i] /\ b = table'[s][i] /\ b \in Blocks \ new /\ i \in 1..Len(table[s])
      BY <1>1, <1>4, <2>2
    <3>2. Cached(b)
      <4>1. CASE \A k \in 1..n : t[k] # b
        BY <1>3, <1>11, <3>1, <4>1 DEF Cached
      <4>2. CASE \E k \in 1..n : t[k] = b
        <5>1. PICK k \in 1..n : t[k] = b
          BY <4>2
        <5>2. k \in 1..Len(t)
          BY <1>2
        <5> QED
          BY <1>9, <2>2, <3>1, <5>1, <5>2
      <4> QED
        BY <4>1, <4>2
    <3>3. hash[b] = PromptOf[s][i]
      BY <3>1, <3>2 DEF TableOK
    <3> QED
      BY <1>5, <3>1, <3>2, <3>3
  <2> QED
    BY <2>1, <2>2
<1>12. ASSUME NEW b \in Blocks \ new, hash'[b] = NoHash PROVE ~Cached(b)
  BY <1>5, <1>12 DEF Cached
<1>13. ASSUME NEW s \in Reqs, NEW x \in Reqs, NEW i \in 1..Len(table'[s]), NEW j \in 1..Len(table'[x]),
              table'[s][i] = table'[x][j], hash'[table'[s][i]] = NoHash
       PROVE  s = x
  <2>1. CASE s # r /\ x # r
    BY <1>1, <1>4, <1>12, <1>13, <2>1 DEF TableOK
  <2>2. CASE s = r /\ x # r
    <3>1. i \in 1..Len(t) /\ j \in 1..Len(table[x]) /\ t[i] = table[x][j] /\ hash'[t[i]] = NoHash
      BY <1>1, <1>13, <2>2
    <3>2. Cached(t[i]) /\ t[i] \in Blocks \ new
      BY <1>4, <1>9, <2>2, <3>1
    <3> QED
      BY <1>12, <3>1, <3>2
  <2>3. CASE s # r /\ x = r
    <3>1. j \in 1..Len(t) /\ i \in 1..Len(table[s]) /\ t[j] = table[s][i] /\ hash'[t[j]] = NoHash
      BY <1>1, <1>13, <2>3
    <3>2. Cached(t[j]) /\ t[j] \in Blocks \ new
      BY <1>4, <1>9, <2>3, <3>1
    <3> QED
      BY <1>12, <3>1, <3>2
  <2> QED
    BY <2>1, <2>2, <2>3
<1>14. ASSUME NEW s \in Reqs, status'[s] = "running"
       PROVE  Len(table'[s]) = numTokens(s) /\ \A i \in 1..numTokens(s) : hash'[table'[s][i]] # NoHash
  <2>1. CASE s = r
    <3>1. Len(t) = numTokens(r) /\ n = Len(t) /\ table'[s] = t
      BY <1>1, <1>14, <2>1
    <3> QED
      BY <1>3, <1>7, <2>1, <3>1
  <2>2. CASE s # r
    <3>1. Running(s) /\ table'[s] = table[s]
      BY <1>1, <1>14, <2>2
    <3>2. Len(table[s]) = numTokens(s) /\ \A i \in 1..numTokens(s) : Cached(table[s][i])
      BY <3>1 DEF TableOK
    <3> QED
      BY <1>4, <1>5, <3>1, <3>2 DEF Cached
  <2> QED
    BY <2>1, <2>2
<1> QED
  BY <1>10, <1>11, <1>13, <1>14 DEF TableOK, Running, Cached, numTokens

-----------------------------------------------------------------------------
(***************************************************************************)
(* schedule(): a request joins the step, is set aside or comes back.       *)
(***************************************************************************)
\* A block that t shares with another request's table is cached already.
LEMMA GivesShares ==
  ASSUME KvLoadAssumption, TypesOK, TableOK, NEW r \in Reqs, NEW t, NEW n, NEW new, Gives(r, t, n, new),
         NEW s \in Reqs \ {r}, NEW i \in 1..Len(t), NEW j \in 1..Len(table[s]), t[i] = table[s][j]
  PROVE  Cached(t[i])
<1>1. t[i] \notin new
  BY FreeFacts DEF Gives, TypesOK, TypeOK
<1>2. i \in 1..numTokens(r)
  BY PromptFacts DEF Gives
<1>3. CASE hash[t[i]] = PromptOf[r][i]
  BY <1>2, <1>3, PromptFacts DEF Cached
<1>4. CASE i \in 1..Len(table[r]) /\ t[i] = table[r][i]
  BY <1>4 DEF TableOK
<1> QED
  BY <1>1, <1>3, <1>4 DEF Gives

\* What other requests hold stays as it is: uncached blocks stay uncached and
\* cached ones keep their hash.
LEMMA GivesOthers ==
  ASSUME KvLoadAssumption, TypesOK, TableOK, NEW r \in Reqs, NEW t, NEW n, NEW new, Gives(r, t, n, new),
         NEW s \in Reqs \ {r}, NEW i \in 1..Len(table[s])
  PROVE  /\ table'[s] = table[s] /\ table[s][i] \in Blocks \ new
         /\ hash'[table[s][i]] = hash[table[s][i]]
<1>1. PICK b : b = table[s][i] /\ b \in Blocks \ new
  BY FreeFacts DEF Gives, TypesOK, TypeOK
<1>2. table'[s] = table[s]
  BY DEF Gives, TypesOK, TypeOK
<1>3. CASE Cached(b)
  BY <1>1, <1>2, <1>3, GivesKeeps
<1>4. CASE ~Cached(b)
  <2>1. ASSUME NEW k \in 1..n PROVE t[k] # b
    <3>1. k \in 1..Len(t)
      BY DEF Gives
    <3> QED
      BY <1>1, <1>4, <3>1, GivesShares
  <2> QED
    BY <1>1, <1>2, <2>1 DEF Gives
<1> QED
  BY <1>3, <1>4

\* r joins the step with table t, c of whose tokens count as computed.
Joins(r, t, c, new) ==
    /\ phase = "schedule" /\ phase' = "schedule" /\ status[r] = "waiting"
    /\ Gives(r, t, numTokens(r), new) /\ Len(t) = numTokens(r)
    /\ second' \subseteq Blocks /\ c \in 0..(numTokens(r) - 1)
    /\ computed' = [computed EXCEPT ![r] = c]
    /\ tokens' = [tokens EXCEPT ![r] = numTokens(r) - c]
    /\ status' = [status EXCEPT ![r] = "running"]
    /\ running' = Append(running, r)
    /\ kv' = [b \in Blocks |-> kv[b] /\ b \notin new]
    /\ UNCHANGED <<conf, recvd, failed, wrong, abandoned>>

\* Types are kept.
LEMMA JoinsTypes ==
  ASSUME KvLoadAssumption, TypesOK, NEW r \in Reqs, NEW t, NEW c, NEW new, Joins(r, t, c, new),
         loads' \subseteq Blocks
  PROVE  TypesOK'
<1>1. status' \in [Reqs -> {"waiting", "remote", "running", "zombie", "done"}]
  BY DEF Joins, TypesOK, TypeOK
<1>2. \A s \in Reqs : status'[s] = IF s = r THEN "running" ELSE status[s]
  BY DEF Joins, TypesOK, TypeOK
<1>3. running \in Seq(Reqs) /\ r \notin ToSet(running) /\ IsInjective(running) /\ running' = Append(running, r)
  BY DEF Joins, TypesOK, TypeOK
<1>4. running' \in Seq(Reqs) /\ IsInjective(running') /\ ToSet(running') = ToSet(running) \cup {r}
  BY <1>3, AppendSet
<1>5. ToSet(running') = {s \in Reqs : status'[s] = "running"}
  BY <1>2, <1>4 DEF TypesOK, TypeOK
<1>6. table' \in [Reqs -> Seq(Blocks)]
  BY DEF Joins, Gives, TypesOK, TypeOK
<1>7. computed' \in [Reqs -> Nat] /\ tokens' \in [Reqs -> Nat]
  <2>1. c \in Nat /\ numTokens(r) - c \in Nat
    BY PromptFacts DEF Joins
  <2> QED
    BY <2>1 DEF Joins, TypesOK, TypeOK
<1>8. hash' \in [Blocks -> Nat \cup {NoHash}]
  BY DEF Joins, Gives
<1>9. kv' \in [Blocks -> BOOLEAN]
  BY DEF Joins
<1>10. recvd' \subseteq Remote' /\ failed' \subseteq Remote'
  BY <1>2 DEF Joins, TypesOK, TypeOK, Remote
<1>11. conf' \in Configs /\ phase' \in {"out", "schedule", "preempted", "execute"} /\ second' \subseteq Blocks
       /\ wrong' \subseteq Reqs /\ abandoned' \subseteq Reqs
  BY DEF Joins, TypesOK, TypeOK
<1>12. TypeOK'
  BY <1>1, <1>4, <1>5, <1>6, <1>7, <1>8, <1>9, <1>10, <1>11 DEF TypeOK
<1> QED
  BY <1>4, <1>7, <1>11, <1>12 DEF TypesOK

\* The request has something to compute.
LEMMA JoinsStep ==
  ASSUME KvLoadAssumption, TypesOK, StepOK, TableOK, NEW r \in Reqs, NEW t, NEW c, NEW new,
         Joins(r, t, c, new)
  PROVE  StepOK' /\ TableOK'
<1>1. \A s \in Reqs : status'[s] = IF s = r THEN "running" ELSE status[s]
  BY DEF Joins, TypesOK, TypeOK
<1>2. \A s \in Reqs : computed'[s] = IF s = r THEN c ELSE computed[s]
  BY DEF Joins, TypesOK, TypeOK
<1>3. \A s \in Reqs : tokens'[s] = IF s = r THEN numTokens(r) - c ELSE tokens[s]
  BY DEF Joins, TypesOK, TypeOK
<1>4. \A s \in Reqs : s # r => table'[s] = table[s]
  BY DEF Joins, Gives, TypesOK, TypeOK
<1>5. c \in Nat /\ numTokens(r) \in Nat /\ c < numTokens(r) /\ numTokens(r) - c > 0
  BY PromptFacts DEF Joins
<1>6. phase = "schedule" /\ phase' = "schedule"
  BY DEF Joins
<1>7. ASSUME NEW s \in Reqs
      PROVE /\ status'[s] = "running" => computed'[s] < numTokens(s)
            /\ status'[s] = "running" <=> tokens'[s] > 0
            /\ status'[s] = "running" => tokens'[s] = numTokens(s) - computed'[s]
            /\ status'[s] \in {"waiting", "remote"} => computed'[s] <= Len(table'[s])
            /\ status'[s] \in {"waiting", "remote"} => tokens'[s] = 0
            /\ status'[s] = "waiting" => computed'[s] < numTokens(s)
  <2>1. CASE s = r
    BY <1>1, <1>2, <1>3, <1>5, <2>1
  <2>2. CASE s # r
    BY <1>1, <1>2, <1>3, <1>4, <1>6, <2>2 DEF StepOK, Running, Before
  <2> QED
    BY <2>1, <2>2
<1>8. StepOK'
  BY <1>6, <1>7 DEF StepOK, Running, Before, numTokens
<1>9. TableOK'
  <2>1. Gives(r, t, numTokens(r), new)
    BY DEF Joins
  <2>2. \A s \in Reqs \ {r} : status'[s] = "running" => Running(s)
    BY <1>1 DEF Running
  <2>3. status'[r] = "running" => Len(t) = numTokens(r) /\ numTokens(r) = Len(t)
    BY DEF Joins
  <2> QED
    BY <2>1, <2>2, <2>3, GivesTable
<1> QED
  BY <1>8, <1>9

\* What was due stays due, and the rest of r's table is due too.
LEMMA JoinsDue ==
  ASSUME KvLoadAssumption, TypesOK, NEW r \in Reqs, NEW t, NEW c, NEW new, Joins(r, t, c, new)
  PROVE  /\ \A b : Due(b) => Due(b)'
         /\ \A i \in 1..numTokens(r) : c < i => Due(t[i])'
         /\ \A b : Due(b)' => Due(b) \/ \E i \in 1..numTokens(r) : c < i /\ t[i] = b
<1>1. \A s \in Reqs : status'[s] = IF s = r THEN "running" ELSE status[s]
  BY DEF Joins, TypesOK, TypeOK
<1>2. \A s \in Reqs : computed'[s] = IF s = r THEN c ELSE computed[s]
  BY DEF Joins, TypesOK, TypeOK
<1>3. \A s \in Reqs : table'[s] = IF s = r THEN t ELSE table[s]
  BY DEF Joins, Gives, TypesOK, TypeOK
<1>4. phase = "schedule" /\ phase' = "schedule" /\ status[r] = "waiting"
  BY DEF Joins
<1>5. \A s \in Reqs : s # r =>
        (Running(s)' <=> Running(s)) /\ Before(s)' = Before(s) /\ table'[s] = table[s]
  BY <1>1, <1>2, <1>3, <1>4 DEF Running, Before
<1>6. Running(r)' /\ ~Running(r) /\ Before(r)' = c /\ table'[r] = t
  BY <1>1, <1>2, <1>3, <1>4 DEF Running, Before
<1>7. ASSUME NEW b, Due(b) PROVE Due(b)'
  <2>1. PICK s \in Reqs : Running(s) /\ \E i \in 1..numTokens(s) : Before(s) < i /\ table[s][i] = b
    BY <1>7 DEF Due
  <2>2. s # r
    BY <1>6, <2>1
  <2> QED
    BY <1>5, <2>1, <2>2 DEF Due, numTokens
<1>8. ASSUME NEW i \in 1..numTokens(r), c < i PROVE Due(t[i])'
  BY <1>6, <1>8 DEF Due, numTokens
<1>9. ASSUME NEW b, Due(b)', ~Due(b) PROVE \E i \in 1..numTokens(r) : c < i /\ t[i] = b
  <2>1. PICK s \in Reqs : Running(s)' /\ \E i \in 1..numTokens(s) : Before(s)' < i /\ table'[s][i] = b
    BY <1>9 DEF Due, numTokens
  <2>2. s = r
    BY <1>5, <1>9, <2>1 DEF Due
  <2> QED
    BY <1>6, <2>1, <2>2
<1> QED
  BY <1>7, <1>8, <1>9

\* Asynchronous loads: a request joins with nothing to load, the tokens that
\* count as computed in the cache.
LEMMA JoinsAsync ==
  ASSUME KvLoadAssumption, TypesOK, StepOK, TableOK, AsyncOK, NEW r \in Reqs, NEW t, NEW c, NEW new,
         Joins(r, t, c, new), AsyncLoads, loads' = loads,
         \A i \in 1..c : Cached(t[i]) /\ t[i] \notin new
  PROVE  AsyncOK'
<1>1. \A s \in Reqs : status'[s] = IF s = r THEN "running" ELSE status[s]
  BY DEF Joins, TypesOK, TypeOK
<1>2. \A s \in Reqs : s # r => computed'[s] = computed[s] /\ table'[s] = table[s]
  BY DEF Joins, Gives, TypesOK, TypeOK
<1>3. phase' = "schedule" /\ status[r] = "waiting" /\ recvd' = recvd /\ conf' = conf
  BY DEF Joins
<1>4. Gives(r, t, numTokens(r), new) /\ Len(t) = numTokens(r) /\ numTokens(r) \in Nat
  BY PromptFacts DEF Joins
<1>5. \A b \in Blocks : kv'[b] <=> kv[b] /\ b \notin new
  BY DEF Joins
<1>6. \A s \in Reqs \ {r} : \A i \in 1..Len(table[s]) :
         table[s][i] \in Blocks \ new /\ hash'[table[s][i]] = hash[table[s][i]]
  BY <1>4, GivesOthers
<1>7. \A s \in Reqs : Len(table[s]) \in Nat
  BY DEF TypesOK, TypeOK
<1>8. ASSUME NEW b \in loads
      PROVE  hash'[b] = NoHash /\ \E s \in Reqs : status'[s] \in {"remote", "zombie"} /\ s \notin recvd'
                                                  /\ b \in ToSet(table'[s])
  <2>1. PICK s \in Reqs : status[s] \in {"remote", "zombie"} /\ s \notin recvd /\ b \in ToSet(table[s])
    BY DEF AsyncOK
  <2>2. s # r /\ hash[b] = NoHash
    BY <1>3, <2>1 DEF AsyncOK, Cached
  <2>3. PICK i \in 1..Len(table[s]) : table[s][i] = b
    BY <2>1 DEF ToSet, TypesOK, TypeOK
  <2> QED
    BY <1>1, <1>2, <1>3, <1>6, <2>1, <2>2, <2>3
<1>9. ASSUME NEW s \in Reqs, status'[s] = "remote", NEW i \in 1..computed'[s]
      PROVE  \/ hash'[table'[s][i]] # NoHash \/ kv'[table'[s][i]]
             \/ (table'[s][i] \in loads /\ s \notin recvd)
  <2>1. s # r /\ status[s] = "remote" /\ i \in 1..computed[s] /\ table'[s] = table[s]
    BY <1>1, <1>2, <1>9
  <2>2. i \in 1..Len(table[s])
    BY <1>7, <1>9, <2>1 DEF StepOK, TypesOK, TypeOK
  <2>3. Cached(table[s][i]) \/ kv[table[s][i]] \/ (table[s][i] \in loads /\ s \notin recvd)
    BY <2>1 DEF AsyncOK
  <2> QED
    BY <1>5, <1>6, <2>1, <2>2, <2>3 DEF Cached
<1>10. ASSUME NEW s \in Reqs, status'[s] = "waiting", NEW i \in 1..computed'[s]
       PROVE  hash'[table'[s][i]] # NoHash
  <2>1. s # r /\ status[s] = "waiting" /\ i \in 1..computed[s] /\ table'[s] = table[s]
    BY <1>1, <1>2, <1>10
  <2>2. i \in 1..Len(table[s])
    BY <1>7, <1>10, <2>1 DEF StepOK, TypesOK, TypeOK
  <2>3. Cached(table[s][i])
    BY <2>1 DEF AsyncOK
  <2> QED
    BY <1>6, <2>1, <2>2, <2>3 DEF Cached
<1>11. ASSUME NEW b \in Blocks, hash'[b] # NoHash PROVE kv'[b] \/ Due(b)'
  <2>1. CASE \E i \in 1..numTokens(r) : t[i] = b /\ c < i
    BY <2>1, JoinsDue
  <2>2. CASE ~\E i \in 1..numTokens(r) : t[i] = b /\ c < i
    <3>1. Cached(b) /\ b \notin new
      <4>1. CASE \E i \in 1..numTokens(r) : t[i] = b
        <5>1. PICK i \in 1..numTokens(r) : t[i] = b /\ ~(c < i)
          BY <2>2, <4>1
        <5>2. i \in 1..c
          BY <5>1 DEF Joins
        <5> QED
          BY <5>1, <5>2
      <4>2. CASE \A i \in 1..numTokens(r) : t[i] # b
        BY <1>4, <1>11, <4>2 DEF Gives, Cached
      <4> QED
        BY <4>1, <4>2
    <3>2. kv[b] \/ Due(b)
      BY <3>1 DEF AsyncOK
    <3> QED
      BY <1>5, <3>1, <3>2, JoinsDue
  <2> QED
    BY <2>1, <2>2
<1> QED
  BY <1>3, <1>8, <1>9, <1>10, <1>11 DEF AsyncOK, Cached, Running, AsyncLoads

\* Hits are blocks of the cache, each under the hash of its position.
LEMMA HitFacts ==
  ASSUME KvLoadAssumption, NEW r \in Reqs, NEW hit \in Seq(Blocks), IsHit(r, hit)
  PROVE  /\ Len(hit) \in Nat /\ Len(hit) < numTokens(r) /\ IsInjective(hit)
         /\ \A i \in 1..Len(hit) : /\ i \in 1..numTokens(r) /\ hit[i] \in Blocks
                                    /\ hit[i] \in Found(PromptOf[r][i])
                                    /\ hash[hit[i]] = PromptOf[r][i] /\ Cached(hit[i])
<1>1. PICK l \in Nat : l = Len(hit) /\ DOMAIN hit = 1..l
  OBVIOUS
<1>2. l < numTokens(r) /\ numTokens(r) \in Nat
  BY <1>1, PromptFacts DEF IsHit
<1>3. ASSUME NEW i \in 1..l
      PROVE  /\ i \in 1..numTokens(r) /\ hit[i] \in Blocks /\ hit[i] \in Found(PromptOf[r][i])
             /\ hash[hit[i]] = PromptOf[r][i] /\ Cached(hit[i])
  <2>1. hit[i] \in Found(PromptOf[r][i])
    BY <1>1 DEF IsHit
  <2>2. i \in 1..numTokens(r)
    BY <1>2
  <2>3. hit[i] \in {b \in Blocks : hash[b] = PromptOf[r][i]}
    BY <2>1 DEF Found
  <2> QED
    BY <2>1, <2>3, <2>2, PromptFacts DEF Cached
<1>4. ASSUME NEW i \in 1..l, NEW j \in 1..l, hit[i] = hit[j] PROVE i = j
  <2>1. PromptOf[r][i] = PromptOf[r][j]
    BY <1>3, <1>4
  <2> QED
    BY <1>3, <2>1, PromptFacts
<1> QED
  BY <1>1, <1>2, <1>3, <1>4 DEF IsInjective

\* The hits and the new blocks make a table.
LEMMA AdmitCat ==
  ASSUME KvLoadAssumption, NEW r \in Reqs, NEW hit \in Seq(Blocks), NEW new \in Seq(Blocks),
         IsHit(r, hit), IsNew(hit, new)
  PROVE  hit \o new \in Seq(Blocks) /\ Cat(hit, new, hit \o new)
<1>1. IsInjective(hit) /\ IsInjective(new)
  BY HitFacts DEF IsNew
<1>2. \A i \in 1..Len(hit) : hit[i] \notin ToSet(new)
  BY SeqSet DEF IsNew
<1> QED
  BY <1>1, <1>2, Concatenated

\* What Admit and CacheBlocks do together.
LEMMA AdmitGives ==
  ASSUME KvLoadAssumption, TypesOK, NEW r \in Reqs, NEW hit \in Seq(Blocks), NEW new \in Seq(Blocks),
         IsHit(r, hit), IsNew(hit, new), NEW t \in Seq(Blocks), Cat(hit, new, t), Len(t) <= numTokens(r),
         table' = [table EXCEPT ![r] = t], NEW n \in 0..Len(t), CacheBlocks(r, hit, new, t, n)
  PROVE  Gives(r, t, n, ToSet(new)) /\ CacheDone(r, hit, new, t, n)
<1>1. Len(t) \in Nat /\ n <= numTokens(r) /\ IsInjective(t) /\ ToSet(new) \subseteq Free
  BY PromptFacts DEF Cat, IsNew
<1>2. ASSUME NEW i \in 1..Len(t) PROVE t[i] \in ToSet(new) \/ hash[t[i]] = PromptOf[r][i]
  <2>1. CASE i \in 1..Len(hit)
    <3>1. t[i] = hit[i]
      BY <2>1 DEF Cat
    <3>2. hash[hit[i]] = PromptOf[r][i]
      BY <2>1, HitFacts
    <3> QED
      BY <3>1, <3>2
  <2>2. CASE Len(hit) < i
    BY <2>2 DEF Cat
  <2> QED
    BY <2>1, <2>2 DEF Cat
<1>3. CacheDone(r, hit, new, t, n)
  BY <1>1, CacheBlocksIs DEF TypesOK, TypeOK
<1> QED
  BY <1>1, <1>2, <1>3 DEF Gives, CacheDone

\* Tables are sequences.
LEMMA TablesAre ==
  ASSUME KvLoadAssumption, NEW t \in Tables
  PROVE  t \in Seq(Blocks)
BY DEF Tables, KvLoadAssumption

\* A waiting request joins the step with hits, loads and the rest.
LEMMA WaitingJoins ==
  ASSUME KvLoadAssumption, TypesOK, NEW r \in Reqs, NEW hit \in Seq(Blocks), NEW new \in Seq(Blocks),
         NEW ext \in Nat, ScheduleWaiting(r, hit, new, ext), UNCHANGED conf
  PROVE  \E t \in Seq(Blocks), c \in Nat :
            /\ Cat(hit, new, t) /\ c = Len(hit) + ext /\ ext <= Len(new)
            /\ Joins(r, t, c, ToSet(new)) /\ CacheDone(r, hit, new, t, numTokens(r))
            /\ IsHit(r, hit) /\ IsNew(hit, new)
            /\ loads' = loads \cup {new[i] : i \in 1..ext}
<1>1. Admit(r, hit, new, ext) /\ IsHit(r, hit) /\ IsNew(hit, new)
  BY DEF ScheduleWaiting, Admit
<1>2. PICK t \in Seq(Blocks) : t = hit \o new /\ Cat(hit, new, t)
  BY <1>1, AdmitCat
<1>3. PICK l \in Nat, m \in Nat, k \in Nat : l = Len(hit) /\ m = Len(new) /\ k = numTokens(r)
  BY PromptFacts
<1>4. PICK c \in Nat : c = l + ext
  BY <1>3
<1>5. k - l - ext > 0 /\ m = ext + (k - l - ext) /\ Len(t) = l + m
  BY <1>2, <1>3 DEF ScheduleWaiting, Cat
<1>6. Len(t) = k /\ c \in 0..(k - 1) /\ k - l - ext = k - c /\ ext <= m
  BY <1>4, <1>5
<1>7. table' = [table EXCEPT ![r] = t] /\ CacheBlocks(r, hit, new, t, k)
  BY <1>2, <1>6 DEF ScheduleWaiting, Admit
<1>8. Gives(r, t, k, ToSet(new)) /\ CacheDone(r, hit, new, t, k)
  <2>1. k \in 0..Len(t) /\ Len(t) <= numTokens(r)
    BY <1>3, <1>6
  <2> QED
    BY <1>1, <1>2, <1>7, <2>1, AdmitGives
<1>9. /\ phase = "schedule" /\ phase' = "schedule" /\ status[r] = "waiting"
      /\ computed' = [computed EXCEPT ![r] = c]
      /\ tokens' = [tokens EXCEPT ![r] = k - l - ext]
      /\ status' = [status EXCEPT ![r] = "running"]
      /\ running' = Append(running, r)
      /\ kv' = [b \in Blocks |-> kv[b] /\ b \notin ToSet(new)]
      /\ UNCHANGED <<conf, recvd, failed, wrong, abandoned>>
      /\ loads' = loads \cup {new[i] : i \in 1..ext}
  BY <1>3, <1>4 DEF ScheduleWaiting, Admit
<1>10. Joins(r, t, c, ToSet(new))
  BY <1>3, <1>6, <1>8, <1>9 DEF Joins, CacheDone
<1> QED
  BY <1>1, <1>2, <1>3, <1>4, <1>6, <1>8, <1>9, <1>10

\* A request back from its load joins the step.
LEMMA LoadedJoins ==
  ASSUME KvLoadAssumption, TypesOK, StepOK, TableOK, NEW r \in Reqs, NEW new \in Seq(Blocks),
         ScheduleLoaded(r, new), UNCHANGED conf
  PROVE  \E t \in Seq(Blocks) :
            /\ Joins(r, t, computed[r], ToSet(new)) /\ loads' = loads
            /\ \A i \in 1..computed[r] :
                  i \in 1..Len(table[r]) /\ t[i] = table[r][i] /\ t[i] \notin ToSet(new)
<1>1. IsNew(<<>>, new) /\ ToSet(new) \subseteq Free /\ IsInjective(new)
  BY DEF ScheduleLoaded, IsNew
<1>2. PICK a \in Seq(Blocks) : a = table[r]
  BY DEF TypesOK, TypeOK
<1>3. \A i \in 1..Len(a) : a[i] \notin ToSet(new)
  BY <1>1, <1>2, FreeFacts DEF TypesOK, TypeOK
<1>4. IsInjective(a)
  BY <1>2 DEF TableOK
<1>5. PICK t \in Seq(Blocks) : t = a \o new /\ Cat(a, new, t)
  BY <1>1, <1>3, <1>4, Concatenated
<1>6. PICK k \in Nat : k = numTokens(r)
  BY PromptFacts
<1>7. /\ phase = "schedule" /\ phase' = "schedule" /\ status[r] = "waiting" /\ computed[r] > 0
      /\ Len(t) = k
      /\ table' = [table EXCEPT ![r] = t]
      /\ CacheBlocks(r, <<>>, new, t, k)
      /\ kv' = [b \in Blocks |-> kv[b] /\ b \notin ToSet(new)]
      /\ tokens' = [tokens EXCEPT ![r] = k - computed[r]]
      /\ status' = [status EXCEPT ![r] = "running"]
      /\ running' = Append(running, r)
      /\ UNCHANGED <<conf, computed, recvd, failed, phase, loads, wrong, abandoned>>
  BY <1>2, <1>5, <1>6 DEF ScheduleLoaded
<1>8. IsInjective(t) /\ k \in 0..Len(t) /\ k <= numTokens(r)
  BY <1>5, <1>6, <1>7 DEF Cat
<1>9. CacheDone(r, <<>>, new, t, k)
  BY <1>7, <1>8, CacheBlocksIs DEF TypesOK, TypeOK
<1>10. \A i \in 1..Len(t) : t[i] \in ToSet(new) \/ (i \in 1..Len(table[r]) /\ t[i] = table[r][i])
  BY <1>2, <1>5 DEF Cat
<1>11. Gives(r, t, k, ToSet(new))
  BY <1>1, <1>6, <1>7, <1>8, <1>9, <1>10 DEF Gives, CacheDone
<1>12. PICK c \in Nat : c = computed[r]
  BY DEF TypesOK, TypeOK
<1>13. c <= Len(a) /\ c < k /\ Len(a) \in Nat
  BY <1>2, <1>6, <1>7, <1>12 DEF StepOK
<1>14. computed' = [computed EXCEPT ![r] = c]
  BY <1>7, <1>12 DEF TypesOK, TypeOK
<1>15. c \in 0..(k - 1) /\ \A i \in 1..c : i \in 1..Len(a)
  BY <1>13
<1>16. Joins(r, t, c, ToSet(new))
  BY <1>6, <1>7, <1>9, <1>11, <1>12, <1>14, <1>15 DEF Joins, CacheDone
<1>17. \A i \in 1..c : i \in 1..Len(a) /\ t[i] = a[i] /\ t[i] \notin ToSet(new)
  BY <1>3, <1>5, <1>15 DEF Cat
<1> QED
  BY <1>2, <1>7, <1>12, <1>16, <1>17

\* The settings do not change, nor does what depends on them alone.
LEMMA SameConf ==
  ASSUME UNCHANGED conf
  PROVE  (Recompute' <=> Recompute) /\ (AsyncLoads' <=> AsyncLoads)
BY DEF Recompute, AsyncLoads

\* Some block of S has the hash h.
HasHash(S, h) == \E b \in S : hash[b] = h

\* If a position of a prompt is cached, those before it are.
LEMMA NoOrphans ==
  ASSUME KvLoadAssumption, NEW r \in Reqs, NEW S, Closed(S), NEW i \in 1..numTokens(r), NEW j \in 1..i,
         HasHash(S, PromptOf[r][i])
  PROVE  HasHash(S, PromptOf[r][j])
<1>1. PICK k \in Nat : k = numTokens(r)
  BY PromptFacts
<1>2. i \in 1..k /\ j \in 1..k /\ i \in Nat /\ j \in Nat /\ j <= i
  BY <1>1
<1>3. PICK n \in Nat : n = i - j
  BY <1>2
<1> DEFINE Has(x) == HasHash(S, PromptOf[r][x])
           G == {d \in 0..n : Has(i - d)}
<1>4. 0 \in G
  <2>1. i - 0 = i /\ Has(i)
    BY <1>2
  <2> QED
    BY <2>1
<1>5. ASSUME NEW d \in 1..n, d - 1 \in G PROVE d \in G
  <2>1. PICK x \in 2..k : x = i - (d - 1) /\ x - 1 = i - d
    BY <1>2, <1>3
  <2>2. Has(x)
    BY <1>5, <2>1
  <2>3. Has(x - 1)
    BY <1>1, <2>2 DEF Closed, HasHash
  <2> QED
    BY <2>1, <2>3
<1>6. n \in G
  <2> HIDE DEF G
  <2>1. 0..n \subseteq G
    BY <1>4, <1>5, Induction
  <2> QED
    BY <2>1
<1>7. i - n = j
  BY <1>2, <1>3
<1> QED
  BY <1>6, <1>7

\* Blocks that join the cache at their first caching are first there.
LEMMA WaitingFirst ==
  ASSUME KvLoadAssumption, TypesOK, TableOK, FirstOK, NEW r \in Reqs, NEW hit \in Seq(Blocks),
         NEW new \in Seq(Blocks), NEW t \in Seq(Blocks), NEW c \in Nat, Cat(hit, new, t),
         Joins(r, t, c, ToSet(new)), CacheDone(r, hit, new, t, numTokens(r)),
         IsHit(r, hit), IsNew(hit, new), Recompute, ~AsyncLoads, abandoned = {}
  PROVE  /\ \A b, d \in Blocks \ second' : hash'[b] # NoHash /\ hash'[b] = hash'[d] => b = d
         /\ \A s \in Reqs : status'[s] = "running" =>
               \A i \in 1..numTokens(s) : i < numTokens(s) => table'[s][i] \notin second'
<1>1. PICK k \in Nat : k = numTokens(r) /\ k = Len(t)
  BY PromptFacts DEF Joins
<1>2. PICK l \in Nat : l = Len(hit) /\ l < k
  BY <1>1, HitFacts
<1>3. DOMAIN t = 1..k /\ \A i \in 1..k : t[i] \in Blocks
  BY <1>1
<1>4. \A i \in 1..k, j \in 1..k : t[i] = t[j] => i = j
  BY <1>3 DEF Cat, IsInjective
<1>5. PICK N : N = ToSet(new)
  OBVIOUS
<1>6. N \subseteq Free /\ \A i \in 1..l : t[i] \notin N /\ t[i] = hit[i] /\ t[i] \in ToSet(hit)
  BY <1>2, <1>5, SeqSet DEF Cat, IsNew
<1>7. \A i \in 1..k : i \in 1..l \/ (l < i /\ t[i] \in N)
  BY <1>1, <1>2, <1>5 DEF Cat
<1>8. ASSUME NEW i \in 1..l PROVE hash[t[i]] = PromptOf[r][i] /\ t[i] \in Found(PromptOf[r][i])
  <2>1. i \in 1..Len(hit) /\ t[i] = hit[i]
    BY <1>2, <1>6
  <2>2. hash[hit[i]] = PromptOf[r][i] /\ hit[i] \in Found(PromptOf[r][i])
    BY <2>1, HitFacts
  <2> QED
    BY <2>1, <2>2
<1>9. ASSUME NEW i \in 1..k, NEW j \in 1..k, PromptOf[r][i] = PromptOf[r][j] PROVE i = j
  <2>1. i \in 1..numTokens(r) /\ j \in 1..numTokens(r)
    BY <1>1
  <2> QED
    BY <1>9, <2>1, PromptFacts
<1>10. \A i \in 1..k : PromptOf[r][i] # NoHash
  BY <1>1, PromptFacts
<1>11. \A i \in 1..k : hash'[t[i]] = PromptOf[r][i]
  BY <1>1 DEF CacheDone
<1>12. \A b \in Blocks : (\A i \in 1..k : t[i] # b) => hash'[b] = IF b \in N THEN NoHash ELSE hash[b]
  BY <1>1, <1>5 DEF CacheDone
<1>13. \A b \in Blocks : b \in second' <=>
          \/ b \in second /\ b \notin ToSet(hit) /\ b \notin N
          \/ \E i \in 1..k : /\ t[i] = b /\ (b \in N \/ hash[b] = NoHash)
                             /\ \E x \in Blocks : x \notin N /\ hash[x] = PromptOf[r][i]
  <2>1. \A b \in Blocks : b \in second' <=>
           \/ b \in second /\ b \notin ToSet(hit) /\ b \notin ToSet(new)
           \/ \E i \in 1..numTokens(r) :
                 /\ t[i] = b /\ (b \in ToSet(new) \/ hash[b] = NoHash)
                 /\ \E x \in Blocks : x \notin ToSet(new) /\ hash[x] = PromptOf[r][i]
    BY Zenon DEF CacheDone
  <2> QED
    BY <1>1, <1>5, <2>1
<1>14. ToSet(hit) = {t[i] : i \in 1..l}
  <2>1. ToSet(hit) = {hit[i] : i \in 1..l}
    BY <1>2, SeqSet
  <2>2. \A i \in 1..l : t[i] = hit[i]
    BY <1>6
  <2> QED
    BY <2>1, <2>2
<1>15. 1..l \subseteq 1..k
  BY <1>2
\* A block computed or loaded now and first under its hash has it alone.
<1>16. ASSUME NEW i \in 1..k, l < i, t[i] \notin second', NEW d \in Blocks, hash'[d] = hash'[t[i]]
       PROVE  d = t[i]
  <2>1. t[i] \in N /\ hash'[d] = PromptOf[r][i] /\ t[i] \in Blocks
    BY <1>3, <1>7, <1>11, <1>16
  <2>2. \A x \in Blocks : x \in N \/ hash[x] # PromptOf[r][i]
    BY <1>13, <1>16, <2>1
  <2>3. CASE \A j \in 1..k : t[j] # d
    BY <1>10, <1>12, <2>1, <2>2, <2>3
  <2>4. CASE \E j \in 1..k : t[j] = d
    BY <1>9, <1>11, <2>1, <2>4
  <2> QED
    BY <2>3, <2>4
\* The others keep their hashes.
<1>17. ASSUME NEW b \in Blocks, hash'[b] # NoHash, \A i \in 1..k : t[i] = b => i \in 1..l
       PROVE  hash'[b] = hash[b] /\ b \notin N
  <2>1. CASE \E i \in 1..l : t[i] = b
    <3>1. PICK i \in 1..l : t[i] = b
      BY <2>1
    <3>2. i \in 1..k
      BY <1>15
    <3> QED
      BY <1>6, <1>8, <1>11, <3>1, <3>2
  <2>2. CASE \A i \in 1..k : t[i] # b
    BY <1>12, <1>17, <2>2
  <2> QED
    BY <1>17, <2>1, <2>2
\* A hit among second blocks: there is no first one.
<1>18. ASSUME NEW i \in 1..l, t[i] \in second, NEW d \in Blocks, hash[d] = PromptOf[r][i] PROVE d \in second
  BY <1>8, <1>18 DEF Found
<1>19. ASSUME NEW i \in 1..l, NEW d \in Blocks, t[i] \in second, d \notin second', d \notin N,
              hash[d] = hash[t[i]]
       PROVE  d = t[i]
  <2>1. d \in second
    BY <1>8, <1>18, <1>19
  <2>2. PICK j \in 1..l : d = t[j]
    BY <1>13, <1>14, <1>19, <2>1
  <2> QED
    BY <1>8, <1>9, <1>15, <1>19, <2>2
<1>20. ASSUME NEW b \in Blocks \ second', NEW d \in Blocks \ second', hash'[b] # NoHash, hash'[b] = hash'[d]
       PROVE  b = d
  <2>1. CASE \E i \in 1..k : t[i] = b /\ l < i
    BY <1>16, <1>20, <2>1
  <2>2. CASE \E i \in 1..k : t[i] = d /\ l < i
    BY <1>16, <1>20, <2>2
  <2>3. CASE (\A i \in 1..k : t[i] = b => i \in 1..l) /\ (\A i \in 1..k : t[i] = d => i \in 1..l)
    <3>1. hash'[b] = hash[b] /\ b \notin N /\ hash'[d] = hash[d] /\ d \notin N
      BY <1>17, <1>20, <2>3
    <3>2. CASE b \in second
      <4>1. PICK i \in 1..l : t[i] = b
        BY <1>13, <1>14, <1>20, <3>1, <3>2
      <4> QED
        BY <1>19, <1>20, <3>1, <3>2, <4>1
    <3>3. CASE d \in second
      <4>1. PICK i \in 1..l : t[i] = d
        BY <1>13, <1>14, <1>20, <3>1, <3>3
      <4> QED
        BY <1>19, <1>20, <3>1, <3>3, <4>1
    <3>4. CASE b \notin second /\ d \notin second
      BY <1>20, <3>1, <3>4 DEF FirstOK, Cached
    <3> QED
      BY <3>2, <3>3, <3>4
  <2> QED
    BY <1>7, <2>1, <2>2, <2>3
<1>21. ASSUME NEW s \in Reqs, status'[s] = "running", NEW i \in 1..numTokens(s), i < numTokens(s)
       PROVE  table'[s][i] \notin second'
  <2>1. CASE s = r
    <3>1. table'[s] = t /\ i \in 1..k /\ i < k
      BY <1>1, <1>21, <2>1 DEF Joins, Gives, TypesOK, TypeOK
    <3>2. CASE i \in 1..l
      <4>1. \A j \in 1..k : t[j] = t[i] => j = i
        BY <1>4, <3>1
      <4>2. t[i] \in Blocks /\ t[i] \in ToSet(hit) /\ t[i] \notin N /\ hash[t[i]] # NoHash
        <5>1. t[i] \in Blocks /\ t[i] \in ToSet(hit) /\ t[i] \notin N
          BY <1>3, <1>6, <3>1, <3>2
        <5>2. hash[t[i]] = PromptOf[r][i] /\ PromptOf[r][i] # NoHash
          BY <1>8, <1>10, <3>1, <3>2
        <5> QED
          BY <5>1, <5>2
      <4> QED
        BY <1>13, <3>1, <4>1, <4>2
    <3>3. CASE l < i
      <4>1. t[i] \in N /\ t[i] \in Blocks
        BY <1>3, <1>7, <3>1, <3>3
      <4>2. ASSUME NEW x \in Blocks, x \notin N, hash[x] = PromptOf[r][i] PROVE FALSE
        <5> DEFINE S == Blocks \ N
        <5>1. Closed(S)
          BY <1>5 DEF IsNew
        <5>2. PICK j \in 1..i : j = l + 1
          BY <3>1, <3>3
        <5>3. i \in 1..numTokens(r) /\ HasHash(S, PromptOf[r][i])
          BY <1>1, <3>1, <4>2 DEF HasHash
        <5>4. HasHash(S, PromptOf[r][j])
          <6> HIDE DEF S
          <6> QED
            BY <5>1, <5>3, NoOrphans
        <5>5. l < k - 1
          BY <3>1, <3>3
        <5>6. \A b \in Blocks : hash[b] # PromptOf[r][l + 1]
          BY <1>1, <1>2, <5>5 DEF IsHit
        <5> QED
          BY <5>2, <5>4, <5>6 DEF HasHash
      <4> QED
        <5>1. \A j \in 1..k : t[j] = t[i] => j = i
          BY <1>4, <3>1
        <5> QED
          BY <1>13, <3>1, <4>1, <4>2, <5>1
    <3> QED
      BY <1>7, <3>1, <3>2, <3>3
  <2>2. CASE s # r
    <3>1. table'[s] = table[s] /\ status[s] = "running"
      BY <1>21, <2>2 DEF Joins, Gives, TypesOK, TypeOK
    <3>2. Running(s)
      BY <3>1 DEF Running
    <3>3. table[s][i] \notin second
      BY <1>21, <3>2 DEF FirstOK
    <3>4. Cached(table[s][i]) /\ i \in 1..Len(table[s])
      BY <1>21, <3>2 DEF TableOK
    <3>5. table[s][i] \in Blocks /\ table[s][i] \notin N
      BY <1>6, <3>4, FreeFacts DEF TypesOK, TypeOK
    <3> QED
      BY <1>13, <3>1, <3>3, <3>4, <3>5 DEF Cached
  <2> QED
    BY <2>1, <2>2
<1> QED
  BY <1>20, <1>21

\* A waiting request joins the step: the invariant holds.
LEMMA WaitingInv ==
  ASSUME KvLoadAssumption, IInv, NEW r \in Reqs, NEW hit \in Seq(Blocks), NEW new \in Seq(Blocks),
         NEW ext \in Nat, ScheduleWaiting(r, hit, new, ext), UNCHANGED conf
  PROVE  IInv'
<1> USE DEF IInv
<1>1. PICK t \in Seq(Blocks), c \in Nat :
            /\ Cat(hit, new, t) /\ c = Len(hit) + ext /\ ext <= Len(new)
            /\ Joins(r, t, c, ToSet(new)) /\ CacheDone(r, hit, new, t, numTokens(r))
            /\ IsHit(r, hit) /\ IsNew(hit, new)
            /\ loads' = loads \cup {new[i] : i \in 1..ext}
  BY WaitingJoins
<1>2. PICK k \in Nat : k = numTokens(r) /\ k = Len(t)
  BY <1>1, PromptFacts DEF Joins
<1>3. PICK l \in Nat, m \in Nat : l = Len(hit) /\ m = Len(new) /\ l + m = k /\ c = l + ext /\ ext <= m
  BY <1>1, <1>2 DEF Cat
<1>4. PICK N : N = ToSet(new) /\ N = {new[i] : i \in 1..m} /\ N \subseteq Free
  BY <1>1, <1>3, SeqSet DEF IsNew
<1>5. \A i \in 1..l : t[i] = hit[i] /\ t[i] \notin N /\ Cached(t[i])
  <2> TAKE i \in 1..l
  <2>1. i \in 1..Len(hit)
    BY <1>3
  <2>2. t[i] = hit[i] /\ hit[i] \in ToSet(hit)
    BY <1>1, <2>1, SeqSet DEF Cat
  <2>3. Cached(hit[i])
    BY <1>1, <2>1, HitFacts
  <2>4. hit[i] \notin N
    BY <1>1, <1>4, <2>2 DEF IsNew
  <2> QED
    BY <2>2, <2>3, <2>4
<1>6. \A i \in 1..m : new[i] \in Blocks /\ t[l + i] = new[i] /\ l + i \in 1..k
  BY <1>1, <1>2, <1>3 DEF Cat
<1>7. \A i \in 1..k : l < i => t[i] \in N /\ i - l \in 1..m /\ t[i] = new[i - l]
  BY <1>1, <1>2, <1>3, <1>4 DEF Cat
<1>8. loads' = loads \cup {new[i] : i \in 1..ext} /\ loads' \subseteq Blocks
  BY <1>1, <1>3, <1>6 DEF TypesOK
<1>9. Joins(r, t, c, N) /\ Gives(r, t, k, N)
  BY <1>1, <1>2, <1>4 DEF Joins
<1>10. TypesOK'
  BY <1>8, <1>9, JoinsTypes
<1>11. StepOK' /\ TableOK'
  BY <1>9, JoinsStep
<1>12. (Recompute' <=> Recompute) /\ (AsyncLoads' <=> AsyncLoads)
  BY SameConf
<1>13. AsyncOK'
  <2>1. CASE AsyncLoads
    <3>1. ext = 0
      BY <2>1 DEF ScheduleWaiting
    <3>2. loads' = loads /\ c = l
      BY <1>3, <1>8, <3>1
    <3>3. \A i \in 1..c : Cached(t[i]) /\ t[i] \notin N
      BY <1>5, <3>2
    <3> QED
      BY <1>9, <2>1, <3>2, <3>3, JoinsAsync
  <2>2. CASE ~AsyncLoads
    BY <1>12, <2>2 DEF AsyncOK
  <2> QED
    BY <2>1, <2>2
<1>14. /\ \A b : Due(b) => Due(b)'
       /\ \A i \in 1..k : c < i => Due(t[i])'
       /\ \A b : Due(b)' => Due(b) \/ \E i \in 1..k : c < i /\ t[i] = b
  <2>1. /\ \A b : Due(b) => Due(b)'
        /\ \A i \in 1..numTokens(r) : c < i => Due(t[i])'
        /\ \A b : Due(b)' => Due(b) \/ \E i \in 1..numTokens(r) : c < i /\ t[i] = b
    BY <1>9, JoinsDue
  <2> QED
    BY <1>2, <2>1
<1>15. \A s \in Reqs : /\ status'[s] = IF s = r THEN "running" ELSE status[s]
                       /\ computed'[s] = IF s = r THEN c ELSE computed[s]
                       /\ table'[s] = IF s = r THEN t ELSE table[s]
  BY <1>9 DEF Joins, Gives, TypesOK, TypeOK
<1>16. phase = "schedule" /\ phase' = "schedule" /\ status[r] = "waiting"
  BY <1>9 DEF Joins
<1>17. ASSUME NEW s \in Reqs, Running(s), NEW i \in 1..numTokens(s)
       PROVE  table[s][i] \notin N
  <2>1. i \in 1..Len(table[s])
    BY <1>17 DEF TableOK
  <2> QED
    BY <1>4, <2>1, FreeFacts DEF TypesOK, TypeOK
<1>18. \A b \in N : ~Due(b)
  BY <1>17 DEF Due
<1>19. SyncOK'
  <2> SUFFICES ASSUME ~AsyncLoads PROVE SyncOK'
    BY <1>12 DEF SyncOK
  <2>1. \A s \in Reqs : status'[s] \in {"waiting", "running", "done"}
    BY <1>15 DEF SyncOK
  <2>2. \A s \in Reqs : status'[s] = "waiting" => table'[s] = <<>> /\ computed'[s] = 0
    BY <1>15 DEF SyncOK
  <2>3. ASSUME NEW b \in loads'
        PROVE  ~Due(b)' /\ \E s \in Reqs : status'[s] = "running" /\
                  \E i \in 1..numTokens(s) : i <= computed'[s] /\ table'[s][i] = b
    <3>1. CASE b \in loads
      <4>1. PICK s \in Reqs : Running(s) /\ \E i \in 1..numTokens(s) : i <= Before(s) /\ table[s][i] = b
        BY <3>1 DEF SyncOK
      <4>2. PICK i \in 1..numTokens(s) : i <= Before(s) /\ table[s][i] = b
        BY <4>1
      <4>3. ~Due(b) /\ b \notin N
        BY <1>17, <3>1, <4>1, <4>2 DEF SyncOK
      <4>4. \A j \in 1..k : c < j => t[j] \in N
        BY <1>3, <1>7, SMTT(30)
      <4>5. ~Due(b)'
        BY <1>14, <4>3, <4>4
      <4>6. s # r
        BY <1>16, <4>1 DEF Running
      <4> QED
        BY <1>15, <1>16, <4>1, <4>2, <4>5, <4>6 DEF Running, Before
    <3>2. CASE b \notin loads
      <4>1. PICK j \in 1..ext : b = new[j]
        BY <1>8, <3>2
      <4>2. j \in 1..m /\ l + j <= c
        BY <1>3
      <4>3. t[l + j] = b /\ l + j \in 1..k /\ b \in N
        BY <1>4, <1>6, <4>1, <4>2
      <4>4. ASSUME NEW i \in 1..k, c < i, t[i] = b PROVE FALSE
        <5>1. IsInjective(t) /\ DOMAIN t = 1..k
          BY <1>1, <1>2 DEF Cat
        <5>2. i = l + j
          BY <4>3, <4>4, <5>1 DEF IsInjective
        <5> QED
          BY <4>2, <4>4, <5>2
      <4>5. ~Due(b)'
        BY <1>14, <1>18, <4>3, <4>4
      <4> QED
        BY <1>2, <1>15, <4>2, <4>3, <4>5
    <3> QED
      BY <3>1, <3>2
  <2>4. \A s \in Reqs : status'[s] = "done" => table'[s] = <<>>
    BY <1>15 DEF SyncOK
  <2> QED
    BY <1>16, <2>1, <2>2, <2>3, <2>4 DEF SyncOK, Running, Before, numTokens
<1>20. FirstOK'
  <2>0. abandoned' = abandoned
    BY <1>9 DEF Joins
  <2> SUFFICES ASSUME Recompute, ~AsyncLoads, abandoned = {} PROVE FirstOK'
    BY <1>12, <2>0 DEF FirstOK
  <2>1. /\ \A b, d \in Blocks \ second' : hash'[b] # NoHash /\ hash'[b] = hash'[d] => b = d
        /\ \A s \in Reqs : status'[s] = "running" =>
               \A i \in 1..numTokens(s) : i < numTokens(s) => table'[s][i] \notin second'
    BY <1>1, WaitingFirst
  <2>2. ASSUME NEW b \in Blocks, hash'[b] # NoHash PROVE kv'[b] \/ b \in loads' \/ Due(b)'
    <3>1. CASE \E i \in 1..k : t[i] = b /\ c < i
      BY <1>14, <3>1
    <3>2. CASE \E i \in 1..k : t[i] = b /\ l < i /\ i <= c
      <4>1. PICK i \in 1..k : t[i] = b /\ l < i /\ i <= c
        BY <3>2
      <4>2. PICK j \in 1..m : j = i - l /\ b = new[j]
        BY <1>7, <4>1
      <4>3. j \in 1..ext
        BY <1>3, <4>1, <4>2
      <4> QED
        BY <1>8, <4>2, <4>3
    <3>3. CASE \A i \in 1..k : t[i] = b => i \in 1..l
      <4>1. Cached(b) /\ b \notin N
        <5>1. CASE \E i \in 1..l : t[i] = b
          BY <1>5, <5>1
        <5>2. CASE \A i \in 1..k : t[i] # b
          BY <1>9, <2>2, <5>2 DEF Gives, Cached
        <5> QED
          BY <3>3, <5>1, <5>2
      <4>2. kv[b] \/ b \in loads \/ Due(b)
        BY <4>1 DEF FirstOK
      <4>3. kv[b] => kv'[b]
        BY <1>9, <4>1 DEF Joins
      <4> QED
        BY <1>8, <1>14, <4>2, <4>3
    <3>4. \A i \in 1..k : i \in 1..l \/ (l < i /\ i <= c) \/ c < i
      BY <1>3
    <3> QED
      BY <3>1, <3>2, <3>3, <3>4
  <2> QED
    BY <2>1, <2>2 DEF FirstOK, Cached, Running, numTokens
<1>21. OutOK'
  <2>1. wrong' = wrong /\ abandoned' = abandoned /\ failed' = failed
    BY <1>9 DEF Joins
  <2>2. \A s \in failed : s # r /\ s \in Reqs
    BY <1>16 DEF TypesOK, TypeOK, Remote
  <2>3. \A s \in failed : computed'[s] < numTokens(s)
    BY <1>15, <2>2 DEF OutOK
  <2> QED
    BY <1>12, <2>1, <2>3 DEF OutOK, numTokens
<1> QED
  BY <1>10, <1>11, <1>13, <1>19, <1>20, <1>21

\* A request back from its load joins the step: the invariant holds.
LEMMA LoadedInv ==
  ASSUME KvLoadAssumption, IInv, NEW r \in Reqs, NEW new \in Seq(Blocks), ScheduleLoaded(r, new),
         UNCHANGED conf
  PROVE  IInv'
<1> USE DEF IInv
<1>1. PICK t \in Seq(Blocks) :
         /\ Joins(r, t, computed[r], ToSet(new)) /\ loads' = loads
         /\ \A i \in 1..computed[r] :
               i \in 1..Len(table[r]) /\ t[i] = table[r][i] /\ t[i] \notin ToSet(new)
  BY LoadedJoins
<1>2. PICK c \in Nat : c = computed[r]
  BY DEF TypesOK, TypeOK
<1>3. Joins(r, t, c, ToSet(new)) /\ status[r] = "waiting" /\ c > 0
  BY <1>1, <1>2 DEF ScheduleLoaded
<1>4. AsyncLoads
  BY <1>2, <1>3 DEF SyncOK
<1>5. \A i \in 1..c : Cached(t[i]) /\ t[i] \notin ToSet(new)
  BY <1>1, <1>2, <1>3, <1>4 DEF AsyncOK
<1>6. TypesOK'
  BY <1>1, <1>3, JoinsTypes DEF TypesOK
<1>7. StepOK' /\ TableOK'
  BY <1>3, JoinsStep
<1>8. AsyncOK'
  BY <1>1, <1>3, <1>4, <1>5, JoinsAsync
<1>9. SyncOK' /\ FirstOK'
  BY <1>4, SameConf DEF SyncOK, FirstOK
<1>10. OutOK'
  <2>1. wrong' = wrong /\ abandoned' = abandoned /\ failed' = failed
    BY <1>3 DEF Joins
  <2>2. computed' = computed
    BY DEF ScheduleLoaded
  <2> QED
    BY <2>1, <2>2, SameConf DEF OutOK, numTokens
<1> QED
  BY <1>6, <1>7, <1>8, <1>9, <1>10

\* The statuses that other requests keep when r is set aside or comes back.
Moves(r, st) ==
    /\ phase = "schedule" /\ phase' = "schedule" /\ st \in {"waiting", "remote"}
    /\ status[r] \in {"waiting", "remote"}
    /\ status' = [status EXCEPT ![r] = st]
    /\ UNCHANGED <<conf, running, tokens, wrong, abandoned>>

\* The same with its new table and count.
Placed(r, st, t, n, new, c) ==
    /\ Moves(r, st) /\ Gives(r, t, n, new)
    /\ c \in Nat /\ computed' = [computed EXCEPT ![r] = c] /\ c <= Len(t)
    /\ st = "waiting" => c < numTokens(r)

\* What each request has after that.
PlacedAt(r, st, t, c) ==
    /\ status'[r] = st /\ computed'[r] = c /\ table'[r] = t
    /\ \A s \in Reqs \ {r} :
          status'[s] = status[s] /\ computed'[s] = computed[s] /\ table'[s] = table[s]

\* A request holds its blocks somewhere in its table.
LEMMA HolderAt ==
  ASSUME TypesOK, NEW s \in Reqs, NEW b \in ToSet(table[s])
  PROVE  \E i \in 1..Len(table[s]) : table[s][i] = b
<1>1. table[s] \in Seq(Blocks)
  BY DEF TypesOK, TypeOK
<1> QED
  BY <1>1 DEF ToSet

\* Setting a request aside, or back, changes no running request.
LEMMA MovesFacts ==
  ASSUME KvLoadAssumption, TypesOK, StepOK, TableOK, NEW r \in Reqs, NEW st,
         NEW t, NEW n, NEW new, NEW c, Placed(r, st, t, n, new, c)
  PROVE  PlacedAt(r, st, t, c) /\ StepOK' /\ TableOK' /\ (\A b : Due(b) <=> Due(b)')
<1>1. Moves(r, st) /\ Gives(r, t, n, new) /\ c \in Nat /\ computed' = [computed EXCEPT ![r] = c]
      /\ c <= Len(t) /\ (st = "waiting" => c < numTokens(r))
  BY DEF Placed
<1>2. \A s \in Reqs : /\ status'[s] = IF s = r THEN st ELSE status[s]
                      /\ computed'[s] = IF s = r THEN c ELSE computed[s]
                      /\ table'[s] = IF s = r THEN t ELSE table[s]
  BY <1>1 DEF Moves, Gives, TypesOK, TypeOK
<1>3. phase = "schedule" /\ phase' = "schedule" /\ st # "running" /\ tokens' = tokens
      /\ status[r] \in {"waiting", "remote"}
  BY <1>1 DEF Moves
<1>4. ASSUME NEW s \in Reqs
      PROVE /\ status'[s] = "running" => computed'[s] < numTokens(s)
            /\ status'[s] = "running" <=> tokens'[s] > 0
            /\ status'[s] = "running" => tokens'[s] = numTokens(s) - computed'[s]
            /\ status'[s] \in {"waiting", "remote"} => computed'[s] <= Len(table'[s])
            /\ status'[s] \in {"waiting", "remote"} => tokens'[s] = 0
            /\ status'[s] = "waiting" => computed'[s] < numTokens(s)
  <2>1. CASE s = r
    BY <1>1, <1>2, <1>3, <2>1 DEF StepOK
  <2>2. CASE s # r
    BY <1>2, <1>3, <2>2 DEF StepOK, Running, Before
  <2> QED
    BY <2>1, <2>2
<1>5. StepOK'
  BY <1>3, <1>4 DEF StepOK, Running, Before, numTokens
<1>6. TableOK'
  <2>1. \A s \in Reqs \ {r} : status'[s] = "running" => Running(s)
    BY <1>2 DEF Running
  <2>2. status'[r] # "running"
    BY <1>2, <1>3
  <2> QED
    BY <1>1, <2>1, <2>2, GivesTable
<1>7. \A b : Due(b) <=> Due(b)'
  <2>1. ~Running(r) /\ ~Running(r)'
    BY <1>2, <1>3 DEF Running
  <2>2. \A s \in Reqs : s # r =>
          (Running(s)' <=> Running(s)) /\ Before(s)' = Before(s) /\ table'[s] = table[s]
    BY <1>2, <1>3 DEF Running, Before
  <2>3. ASSUME NEW b, Due(b) PROVE Due(b)'
    <3>1. PICK s \in Reqs : Running(s) /\ \E i \in 1..numTokens(s) : Before(s) < i /\ table[s][i] = b
      BY <2>3 DEF Due
    <3> QED
      BY <2>1, <2>2, <3>1 DEF Due, numTokens
  <2>4. ASSUME NEW b, Due(b)' PROVE Due(b)
    <3>1. PICK s \in Reqs : Running(s)' /\ \E i \in 1..numTokens(s) : Before(s)' < i /\ table'[s][i] = b
      BY <2>4 DEF Due, numTokens
    <3> QED
      BY <2>1, <2>2, <3>1 DEF Due
  <2> QED
    BY <2>3, <2>4
<1>8. PlacedAt(r, st, t, c)
  BY <1>2 DEF PlacedAt
<1> QED
  BY <1>5, <1>6, <1>7, <1>8

\* Types, where a request is set aside or comes back.
LEMMA MovesTypes ==
  ASSUME KvLoadAssumption, TypesOK, NEW r \in Reqs, NEW st,
         NEW t, NEW n, NEW new, NEW c, Placed(r, st, t, n, new, c),
         second' \subseteq Blocks, loads' \subseteq Blocks, kv' \in [Blocks -> BOOLEAN],
         recvd' \subseteq Remote', failed' \subseteq Remote'
  PROVE  TypesOK'
<1>1. status' \in [Reqs -> {"waiting", "remote", "running", "zombie", "done"}]
  BY DEF Placed, Moves, TypesOK, TypeOK
<1>2. {s \in Reqs : status'[s] = "running"} = {s \in Reqs : status[s] = "running"}
  BY DEF Placed, Moves, TypesOK, TypeOK
<1>3. running' = running /\ conf' = conf /\ tokens' = tokens /\ wrong' = wrong
      /\ abandoned' = abandoned /\ phase' = "schedule"
  BY DEF Placed, Moves
<1>4. table' \in [Reqs -> Seq(Blocks)] /\ hash' \in [Blocks -> Nat \cup {NoHash}]
  BY DEF Placed, Gives, TypesOK, TypeOK
<1>5. computed' \in [Reqs -> Nat]
  BY DEF Placed, TypesOK, TypeOK
<1>6. TypeOK'
  BY <1>1, <1>2, <1>3, <1>4, <1>5 DEF TypesOK, TypeOK
<1> QED
  BY <1>3, <1>6 DEF TypesOK

\* An asynchronous load sets a request aside: the invariant holds.
LEMMA RemoteInv ==
  ASSUME KvLoadAssumption, IInv, NEW r \in Reqs, NEW hit \in Seq(Blocks), NEW new \in Seq(Blocks),
         AdmitRemote(r, hit, new), UNCHANGED conf
  PROVE  IInv'
<1>1. TypesOK /\ StepOK /\ TableOK /\ AsyncOK /\ SyncOK /\ FirstOK /\ OutOK
  BY DEF IInv
<1>2. /\ AsyncLoads /\ IsHit(r, hit) /\ IsNew(hit, new) /\ table' = [table EXCEPT ![r] = hit \o new]
      /\ CacheBlocks(r, hit, new, hit \o new, Len(hit)) /\ Len(hit) + Len(new) <= numTokens(r)
      /\ computed' = [computed EXCEPT ![r] = Len(hit) + Len(new)]
      /\ loads' = loads \cup {new[i] : i \in 1..Len(new)}
      /\ kv' = [b \in Blocks |-> kv[b] /\ b \notin ToSet(new)]
      /\ status[r] = "waiting" /\ UNCHANGED <<recvd, failed>>
  BY DEF AdmitRemote, Admit
<1>3. PICK t \in Seq(Blocks) : t = hit \o new /\ Cat(hit, new, t)
  BY <1>1, <1>2, AdmitCat
<1>4. PICK l \in Nat, m \in Nat, c \in Nat : l = Len(hit) /\ m = Len(new) /\ c = l + m /\ c = Len(t)
  <2>1. Len(hit) \in Nat /\ Len(new) \in Nat /\ Len(t) = Len(hit) + Len(new)
    BY <1>3 DEF Cat
  <2> QED
    BY <2>1
<1>5. table' = [table EXCEPT ![r] = t] /\ CacheBlocks(r, hit, new, t, l) /\ l \in 0..Len(t)
      /\ Len(t) <= numTokens(r) /\ computed' = [computed EXCEPT ![r] = c]
  BY <1>1, <1>2, <1>3, <1>4
<1>6. PICK N : N = ToSet(new) /\ N = {new[i] : i \in 1..m} /\ N \subseteq Free /\ N \subseteq Blocks
  BY <1>1, <1>2, <1>4, SeqSet DEF IsNew
<1>7. Gives(r, t, l, N) /\ CacheDone(r, hit, new, t, l)
  <2>1. IsHit(r, hit) /\ IsNew(hit, new) /\ Cat(hit, new, t)
    BY <1>2, <1>3
  <2>2. Gives(r, t, l, ToSet(new)) /\ CacheDone(r, hit, new, t, l)
    BY <1>1, <1>5, <2>1, AdmitGives
  <2> QED
    BY <1>6, <2>2
<1>8. Moves(r, "remote")
  BY <1>1, <1>2 DEF AdmitRemote, Admit, Moves
<1>9. Placed(r, "remote", t, l, N, c)
  <2>1. c <= Len(t)
    BY <1>4
  <2> QED
    BY <1>5, <1>7, <1>8, <2>1 DEF Placed
<1>10. PlacedAt(r, "remote", t, c) /\ StepOK' /\ TableOK' /\ (\A b : Due(b) <=> Due(b)')
  BY <1>1, <1>9, MovesFacts
<1>11. /\ status'[r] = "remote" /\ computed'[r] = c /\ table'[r] = t
       /\ \A s \in Reqs \ {r} :
           status'[s] = status[s] /\ computed'[s] = computed[s] /\ table'[s] = table[s]
       /\ StepOK' /\ TableOK' /\ (\A b : Due(b) <=> Due(b)')
  BY <1>1, <1>10 DEF PlacedAt
<1>12. loads' = loads \cup N /\ recvd' = recvd /\ failed' = failed /\ (\A b \in Blocks : kv'[b] <=> kv[b] /\ b \notin N)
  BY <1>1, <1>2, <1>4, <1>6
<1>13. r \notin recvd /\ r \notin failed /\ recvd' \subseteq Remote' /\ failed' \subseteq Remote'
  BY <1>1, <1>2, <1>11, <1>12 DEF TypesOK, TypeOK, Remote
<1>14. TypesOK'
  <2>1. second' \subseteq Blocks /\ loads' \subseteq Blocks /\ kv' \in [Blocks -> BOOLEAN]
    BY <1>1, <1>2, <1>6, <1>7, <1>12 DEF CacheDone, TypesOK
  <2> QED
    BY <1>1, <1>9, <1>13, <2>1, MovesTypes
<1>15. (Recompute' <=> Recompute) /\ AsyncLoads'
  BY <1>1, <1>2, SameConf
<1>16. \A s \in Reqs \ {r} : \A i \in 1..Len(table[s]) :
         table[s][i] \in Blocks \ N /\ hash'[table[s][i]] = hash[table[s][i]]
  BY <1>1, <1>7, GivesOthers
<1>17. \A i \in 1..c : i \in 1..l \/ (l < i /\ t[i] \in N /\ hash'[t[i]] = NoHash)
  <2> SUFFICES ASSUME NEW i \in 1..c, i \notin 1..l PROVE l < i /\ t[i] \in N /\ hash'[t[i]] = NoHash
    OBVIOUS
  <2>1. l < i /\ i \in 1..Len(t)
    BY <1>1, <1>4
  <2>2. t[i] \in N /\ t[i] \in Blocks
    BY <1>1, <1>3, <1>4, <1>6, <2>1 DEF Cat
  <2>3. \A j \in 1..l : t[j] # t[i]
    <3>1. DOMAIN t = 1..c /\ 1..l \subseteq 1..c
      BY <1>1, <1>4
    <3> QED
      BY <1>1, <1>3, <2>1, <3>1 DEF Cat, IsInjective
  <2> QED
    BY <1>1, <1>7, <2>1, <2>2, <2>3 DEF Gives
<1>18. \A i \in 1..l : hash'[t[i]] # NoHash /\ Cached(t[i]) /\ t[i] \notin N
  <2> TAKE i \in 1..l
  <2>1. i \in 1..Len(hit) /\ i \in 1..numTokens(r)
    BY <1>1, <1>2, <1>4, HitFacts
  <2>2. t[i] = hit[i] /\ hit[i] \in ToSet(hit) /\ Cached(hit[i])
    BY <1>1, <1>2, <1>3, <2>1, HitFacts, SeqSet DEF Cat
  <2>3. hit[i] \notin N
    BY <1>1, <1>2, <1>6, <2>2 DEF IsNew
  <2>4. hash'[t[i]] = PromptOf[r][i]
    BY <1>1, <1>7 DEF Gives
  <2> QED
    BY <1>1, <2>1, <2>2, <2>3, <2>4, PromptFacts
<1>19. ASSUME NEW b \in loads'
       PROVE  hash'[b] = NoHash /\ \E s \in Reqs : status'[s] \in {"remote", "zombie"} /\ s \notin recvd'
                                                  /\ b \in ToSet(table'[s])
  <2>1. CASE b \in loads
    <3>1. PICK s \in Reqs : status[s] \in {"remote", "zombie"} /\ s \notin recvd /\ b \in ToSet(table[s])
      BY <1>1, <1>2, <2>1 DEF AsyncOK
    <3>2. s # r /\ hash[b] = NoHash
      BY <1>1, <1>2, <2>1, <3>1 DEF AsyncOK, Cached
    <3>3. PICK i \in 1..Len(table[s]) : table[s][i] = b
      BY <1>1, <3>1, HolderAt
    <3> QED
      BY <1>1, <1>11, <1>12, <1>16, <3>1, <3>2, <3>3
  <2>2. CASE b \notin loads
    <3>1. PICK j \in 1..m : b = new[j]
      BY <1>1, <1>6, <1>12, <2>2
    <3>2. l + j \in 1..c /\ l + j \notin 1..l
      BY <1>1, <1>4
    <3>3. t[l + j] = b
      BY <1>1, <1>3, <1>4, <3>1 DEF Cat
    <3>4. b \in ToSet(t)
      BY <1>1, <1>4, <3>2, <3>3, SeqSet
    <3> QED
      BY <1>1, <1>11, <1>12, <1>13, <1>17, <3>2, <3>3, <3>4
  <2> QED
    BY <1>1, <2>1, <2>2
<1>20. ASSUME NEW s \in Reqs, status'[s] = "remote", NEW i \in 1..computed'[s]
       PROVE  \/ hash'[table'[s][i]] # NoHash \/ kv'[table'[s][i]]
              \/ (table'[s][i] \in loads' /\ s \notin recvd')
  <2>1. CASE s = r
    BY <1>1, <1>11, <1>12, <1>13, <1>17, <1>18, <2>1
  <2>2. CASE s # r
    <3>1. status[s] = "remote" /\ i \in 1..computed[s] /\ table'[s] = table[s]
      BY <1>1, <1>11, <1>20, <2>2
    <3>2. i \in 1..Len(table[s])
      BY <1>1, <3>1 DEF StepOK, TypesOK, TypeOK
    <3>3. Cached(table[s][i]) \/ kv[table[s][i]] \/ (table[s][i] \in loads /\ s \notin recvd)
      BY <1>1, <1>2, <3>1 DEF AsyncOK
    <3> QED
      <4>1. PICK b : b = table[s][i] /\ b = table'[s][i]
        BY <3>1
      <4>2. b \in Blocks /\ b \notin N /\ hash'[b] = hash[b]
        <5>1. s \in Reqs \ {r}
          BY <2>2
        <5>2. table[s][i] \in Blocks \ N /\ hash'[table[s][i]] = hash[table[s][i]]
          BY <1>16, <3>2, <5>1
        <5> QED
          BY <4>1, <5>2
      <4>3. CASE Cached(b)
        BY <4>1, <4>2, <4>3 DEF Cached
      <4>4. CASE kv[b]
        BY <1>12, <4>1, <4>2, <4>4
      <4>5. CASE b \in loads /\ s \notin recvd
        BY <1>12, <4>1, <4>5
      <4> QED
        BY <3>3, <4>1, <4>3, <4>4, <4>5
  <2> QED
    BY <1>1, <2>1, <2>2
<1>21. ASSUME NEW s \in Reqs, status'[s] = "waiting", NEW i \in 1..computed'[s]
       PROVE  hash'[table'[s][i]] # NoHash
  <2>1. s # r /\ status[s] = "waiting" /\ i \in 1..computed[s] /\ table'[s] = table[s]
    BY <1>1, <1>11, <1>21
  <2>2. i \in 1..Len(table[s])
    BY <1>1, <2>1 DEF StepOK, TypesOK, TypeOK
  <2>3. Cached(table[s][i])
    BY <1>1, <1>2, <2>1 DEF AsyncOK
  <2> QED
    BY <1>1, <1>16, <2>1, <2>2, <2>3 DEF Cached
<1>22. ASSUME NEW b \in Blocks, hash'[b] # NoHash PROVE kv'[b] \/ Due(b)'
  <2>1. Cached(b) /\ b \notin N
    <3>1. CASE \E i \in 1..l : t[i] = b
      BY <1>1, <1>18, <3>1
    <3>2. CASE \A i \in 1..l : t[i] # b
      BY <1>1, <1>7, <1>22, <3>2 DEF Gives, Cached
    <3> QED
      BY <1>1, <3>1, <3>2
  <2>2. kv[b] \/ Due(b)
    BY <1>1, <1>2, <2>1 DEF AsyncOK
  <2> QED
    BY <1>1, <1>11, <1>12, <2>1, <2>2
<1>23. AsyncOK'
  <2>1. phase' = "schedule"
    BY <1>1, <1>8 DEF Moves
  <2> QED
    BY <1>1, <1>19, <1>20, <1>21, <1>22, <2>1 DEF AsyncOK, Cached
<1>24. SyncOK' /\ FirstOK'
  BY <1>1, <1>15 DEF SyncOK, FirstOK
<1>25. OutOK'
  <2>1. wrong' = wrong /\ abandoned' = abandoned
    BY <1>1, <1>8 DEF Moves
  <2>2. \A s \in failed : s \in Reqs /\ s # r
    BY <1>1, <1>13 DEF TypesOK, TypeOK, Remote
  <2>3. \A s \in failed' : computed'[s] < numTokens(s)
    BY <1>1, <1>11, <1>12, <2>2 DEF OutOK
  <2>4. AsyncLoads \/ (Recompute /\ abandoned = {}) => wrong = {}
    BY <1>1 DEF OutOK
  <2>5. ~Recompute => failed = {}
    BY <1>1 DEF OutOK
  <2> QED
    BY <1>2, <1>12, <1>15, <2>1, <2>3, <2>4, <2>5 DEF OutOK, numTokens
<1> QED
  BY <1>11, <1>14, <1>23, <1>24, <1>25 DEF IInv

\* A request comes back from its load: the invariant holds.
LEMMA PromoteInv ==
  ASSUME KvLoadAssumption, IInv, NEW r \in Reqs, Promote(r), UNCHANGED conf
  PROVE  IInv'
<1>1. TypesOK /\ StepOK /\ TableOK /\ AsyncOK /\ SyncOK /\ FirstOK /\ OutOK
  BY DEF IInv
<1>2. /\ phase = "schedule" /\ phase' = "schedule" /\ status[r] = "remote" /\ r \in recvd
      /\ CacheBlocks(r, <<>>, <<>>, table[r], computed[r])
      /\ table' = [table EXCEPT ![r] = IF computed[r] = 0 THEN <<>> ELSE table[r]]
      /\ computed' = [computed EXCEPT ![r] =
                       IF r \notin failed /\ computed[r] = numTokens(r) THEN computed[r] - 1 ELSE computed[r]]
      /\ status' = [status EXCEPT ![r] = "waiting"]
      /\ recvd' = recvd \ {r} /\ failed' = failed \ {r}
      /\ UNCHANGED <<running, kv, phase, tokens, loads, wrong, abandoned>>
  BY <1>1 DEF Promote, Ready, Loaded, TypesOK, TypeOK
<1>3. AsyncLoads
  BY <1>1, <1>2 DEF SyncOK
<1>4. PICK a \in Seq(Blocks), n \in Nat, k \in Nat : a = table[r] /\ n = computed[r] /\ k = numTokens(r)
  BY <1>1, PromptFacts DEF TypesOK, TypeOK
<1>5. n <= Len(a) /\ Len(a) <= k /\ k > 0 /\ Len(a) \in Nat /\ IsInjective(a)
  BY <1>1, <1>2, <1>4, PromptFacts DEF StepOK, TableOK
<1>6. n \in 0..Len(a) /\ n <= numTokens(r)
  BY <1>1, <1>4, <1>5
<1>7. CacheBlocks(r, <<>>, <<>>, a, n)
  BY <1>1, <1>2, <1>4
<1>8. CacheDone(r, <<>>, <<>>, a, n)
  BY <1>1, <1>5, <1>6, <1>7, CacheBlocksIs DEF TypesOK, TypeOK
<1>9. PICK t : t = IF n = 0 THEN <<>> ELSE a
  OBVIOUS
<1>10. t \in Seq(Blocks) /\ IsInjective(t) /\ Len(t) <= numTokens(r) /\ n \in 0..Len(t)
       /\ \A i \in 1..Len(t) : i \in 1..Len(table[r]) /\ t[i] = table[r][i]
  <2>1. CASE n = 0
    <3>1. t = <<>> /\ Len(t) = 0 /\ IsInjective(t)
      BY <1>1, <1>9, <2>1 DEF IsInjective
    <3> QED
      BY <1>1, <1>4, <1>5, <2>1, <3>1
  <2>2. CASE n # 0
    <3>1. t = a
      BY <1>1, <1>9, <2>2
    <3> QED
      BY <1>1, <1>4, <1>5, <1>6, <3>1
  <2> QED
    BY <1>1, <2>1, <2>2
<1>11. \A i \in 1..n : t[i] = a[i]
  BY <1>1, <1>9
<1>12. ToSet(<<>>) = {}
  BY DEF ToSet
<1>13. Gives(r, t, n, {})
  <2>1. table' = [table EXCEPT ![r] = t]
    BY <1>1, <1>2, <1>4, <1>9
  <2>2. /\ hash' \in [Blocks -> Nat \cup {NoHash}]
        /\ \A i \in 1..n : hash'[t[i]] = PromptOf[r][i]
        /\ \A b \in Blocks : (\A i \in 1..n : t[i] # b) => hash'[b] = hash[b]
    <3>1. \A x \in Blocks : x \notin ToSet(<<>>)
      BY <1>12
    <3>2. /\ hash' \in [Blocks -> Nat \cup {NoHash}]
          /\ \A i \in 1..n : hash'[a[i]] = PromptOf[r][i]
          /\ \A b \in Blocks : (\A i \in 1..n : a[i] # b) =>
                hash'[b] = IF b \in ToSet(<<>>) THEN NoHash ELSE hash[b]
      BY <1>8 DEF CacheDone
    <3> QED
      BY <1>11, <3>1, <3>2
  <2> QED
    BY <1>1, <1>10, <2>1, <2>2 DEF Gives
<1>14. PICK c : c = IF r \notin failed /\ n = k THEN n - 1 ELSE n
  OBVIOUS
<1>15. c \in Nat /\ c <= n /\ c < k
  <2>1. CASE r \in failed
    BY <1>1, <1>4, <1>14, <2>1 DEF OutOK
  <2>2. CASE r \notin failed
    BY <1>1, <1>5, <1>14, <2>2
  <2> QED
    BY <1>1, <2>1, <2>2
<1>16. computed' = [computed EXCEPT ![r] = c] /\ c <= Len(t) /\ c < numTokens(r)
  BY <1>1, <1>2, <1>4, <1>10, <1>14, <1>15
<1>17. Moves(r, "waiting")
  BY <1>1, <1>2 DEF Moves
<1>18. Placed(r, "waiting", t, n, {}, c)
  BY <1>1, <1>13, <1>15, <1>16, <1>17 DEF Placed
<1>19. PlacedAt(r, "waiting", t, c) /\ StepOK' /\ TableOK' /\ (\A b : Due(b) <=> Due(b)')
  BY <1>1, <1>18, MovesFacts
<1>20. /\ status'[r] = "waiting" /\ computed'[r] = c /\ table'[r] = t
       /\ \A s \in Reqs \ {r} :
            status'[s] = status[s] /\ computed'[s] = computed[s] /\ table'[s] = table[s]
       /\ StepOK' /\ TableOK' /\ (\A b : Due(b) <=> Due(b)')
  BY <1>1, <1>19 DEF PlacedAt
<1>21. recvd' \subseteq Remote' /\ failed' \subseteq Remote'
  BY <1>1, <1>2, <1>20 DEF TypesOK, TypeOK, Remote
<1>22. TypesOK'
  <2>1. second' \subseteq Blocks /\ loads' \subseteq Blocks /\ kv' \in [Blocks -> BOOLEAN]
    BY <1>1, <1>2, <1>8 DEF CacheDone, TypesOK, TypeOK
  <2> QED
    BY <1>1, <1>18, <1>21, <2>1, MovesTypes
<1>23. (Recompute' <=> Recompute) /\ AsyncLoads'
  BY <1>1, <1>3, SameConf
<1>24. \A s \in Reqs \ {r} : \A i \in 1..Len(table[s]) :
         table[s][i] \in Blocks /\ hash'[table[s][i]] = hash[table[s][i]]
  BY <1>1, <1>13, GivesOthers
<1>25. ASSUME NEW b \in loads'
       PROVE  hash'[b] = NoHash /\ \E s \in Reqs : status'[s] \in {"remote", "zombie"} /\ s \notin recvd'
                                                  /\ b \in ToSet(table'[s])
  <2>1. PICK s \in Reqs : status[s] \in {"remote", "zombie"} /\ s \notin recvd /\ b \in ToSet(table[s])
    BY <1>1, <1>2, <1>3 DEF AsyncOK
  <2>2. s # r /\ hash[b] = NoHash
    BY <1>1, <1>2, <1>3, <2>1 DEF AsyncOK, Cached
  <2>3. PICK i \in 1..Len(table[s]) : table[s][i] = b
    BY <1>1, <2>1, HolderAt
  <2> QED
    BY <1>1, <1>2, <1>20, <1>24, <2>1, <2>2, <2>3
<1>26. ASSUME NEW s \in Reqs, status'[s] = "remote", NEW i \in 1..computed'[s]
       PROVE  \/ hash'[table'[s][i]] # NoHash \/ kv'[table'[s][i]]
              \/ (table'[s][i] \in loads' /\ s \notin recvd')
  <2>1. s # r /\ status[s] = "remote" /\ i \in 1..computed[s] /\ table'[s] = table[s]
    BY <1>1, <1>20, <1>26
  <2>2. i \in 1..Len(table[s])
    BY <1>1, <2>1 DEF StepOK, TypesOK, TypeOK
  <2>3. Cached(table[s][i]) \/ kv[table[s][i]] \/ (table[s][i] \in loads /\ s \notin recvd)
    BY <1>1, <1>3, <2>1 DEF AsyncOK
  <2> QED
    BY <1>1, <1>2, <1>24, <2>1, <2>2, <2>3 DEF Cached
<1>27. ASSUME NEW s \in Reqs, status'[s] = "waiting", NEW i \in 1..computed'[s]
       PROVE  hash'[table'[s][i]] # NoHash
  <2>1. CASE s = r
    <3>1. i \in 1..n /\ i \in 1..numTokens(r) /\ table'[s] = t
      BY <1>1, <1>4, <1>15, <1>20, <1>27, <2>1
    <3>2. hash'[t[i]] = PromptOf[r][i]
      BY <1>1, <1>13, <3>1 DEF Gives
    <3> QED
      BY <1>1, <2>1, <3>1, <3>2, PromptFacts
  <2>2. CASE s # r
    <3>1. status[s] = "waiting" /\ i \in 1..computed[s] /\ table'[s] = table[s]
      BY <1>1, <1>20, <1>27, <2>2
    <3>2. i \in 1..Len(table[s])
      BY <1>1, <3>1 DEF StepOK, TypesOK, TypeOK
    <3>3. Cached(table[s][i])
      BY <1>1, <1>3, <3>1 DEF AsyncOK
    <3> QED
      BY <1>1, <1>24, <2>2, <3>1, <3>2, <3>3 DEF Cached
  <2> QED
    BY <1>1, <2>1, <2>2
<1>28. ASSUME NEW b \in Blocks, hash'[b] # NoHash PROVE kv'[b] \/ Due(b)'
  <2>1. Cached(b) \/ kv[b]
    <3>1. CASE \E i \in 1..n : t[i] = b
      <4>1. PICK i \in 1..n : table[r][i] = b
        BY <1>1, <1>4, <1>11, <3>1
      <4> QED
        BY <1>1, <1>2, <1>3, <1>4, <4>1 DEF AsyncOK
    <3>2. CASE \A i \in 1..n : t[i] # b
      BY <1>1, <1>13, <1>28, <3>2 DEF Gives, Cached
    <3> QED
      BY <1>1, <3>1, <3>2
  <2>2. kv[b] \/ Due(b)
    BY <1>1, <1>3, <2>1 DEF AsyncOK
  <2> QED
    <3>1. kv' = kv /\ (Due(b) <=> Due(b)')
      BY <1>2, <1>20
    <3> QED
      BY <2>2, <3>1
<1>29. AsyncOK'
  BY <1>1, <1>2, <1>25, <1>26, <1>27, <1>28 DEF AsyncOK, Cached
<1>30. SyncOK' /\ FirstOK'
  BY <1>1, <1>23 DEF SyncOK, FirstOK
<1>31. OutOK'
  <2>1. \A s \in failed' : s \in Reqs /\ s # r /\ s \in failed
    BY <1>1, <1>2 DEF TypesOK, TypeOK, Remote
  <2>2. \A s \in failed' : computed'[s] < numTokens(s)
    BY <1>1, <1>20, <2>1 DEF OutOK
  <2>3. AsyncLoads \/ (Recompute /\ abandoned = {}) => wrong = {}
    BY <1>1 DEF OutOK
  <2>4. ~Recompute => failed' = {}
    BY <1>1, <1>2 DEF OutOK
  <2>5. wrong' = wrong /\ abandoned' = abandoned
    BY <1>2
  <2> QED
    BY <1>3, <1>23, <2>2, <2>3, <2>4, <2>5 DEF OutOK, numTokens
<1> QED
  BY <1>20, <1>22, <1>29, <1>30, <1>31 DEF IInv

-----------------------------------------------------------------------------
(***************************************************************************)
(* The steps that begin and end the scheduling, and the abort.             *)
(***************************************************************************)
\* The engine starts in the invariant.
LEMMA InitInv ==
  ASSUME KvLoadAssumption, Init
  PROVE  IInv
<1>1. \A r \in Reqs : status[r] \in {"waiting", "done"} /\ table[r] = <<>> /\ computed[r] = 0 /\ tokens[r] = 0
  BY DEF Init
<1>2. \A b \in Blocks : hash[b] = NoHash /\ ~Cached(b)
  BY DEF Init, Cached
<1>3. phase = "out" /\ running = <<>> /\ loads = {} /\ failed = {} /\ wrong = {} /\ abandoned = {} /\ recvd = {} /\ second = {}
  BY DEF Init
<1>4. IsInjective(<<>>)
  BY DEF IsInjective
<1>5. ToSet(running) = {r \in Reqs : status[r] = "running"}
  BY <1>1, <1>3 DEF ToSet
<1>6. status \in [Reqs -> {"waiting", "remote", "running", "zombie", "done"}]
  BY DEF Init
<1>7. /\ conf \in Configs /\ running \in Seq(Reqs) /\ table \in [Reqs -> Seq(Blocks)]
      /\ computed \in [Reqs -> Nat] /\ hash \in [Blocks -> Nat \cup {NoHash}]
      /\ kv \in [Blocks -> BOOLEAN] /\ tokens \in [Reqs -> Nat]
  BY DEF Init
<1>8. TypesOK
  BY <1>3, <1>4, <1>5, <1>6, <1>7 DEF TypesOK, TypeOK
<1>9. StepOK
  BY <1>1, <1>3, PromptFacts DEF StepOK, Running
<1>10. TableOK
  <2>1. \A r \in Reqs : Len(table[r]) = 0 /\ IsInjective(table[r]) /\ ~Running(r)
    BY <1>1, <1>4 DEF Running
  <2> QED
    BY <2>1, PromptFacts DEF TableOK
<1>11. \A r \in Reqs : ~Running(r)
  BY <1>1 DEF Running
<1>12. AsyncOK /\ SyncOK
  BY <1>1, <1>2, <1>3, <1>11 DEF AsyncOK, SyncOK
<1>13. FirstOK /\ OutOK
  BY <1>2, <1>3, <1>11 DEF FirstOK, OutOK
<1> QED
  BY <1>8, <1>9, <1>10, <1>12, <1>13 DEF IInv

\* What the invariant says of the blocks and of the requests that run, which no
\* step changes that leaves the tables, the cache and Before alone.
LEMMA SameBooks ==
  ASSUME KvLoadAssumption, IInv, UNCHANGED <<conf, status, table, recvd, failed, hash, second, kv, loads, wrong, abandoned>>,
         phase' # "out", \A r \in Reqs : Running(r) => Before(r)' = Before(r),
         \A r \in Reqs : ~Running(r) => computed'[r] = computed[r]
  PROVE  TableOK' /\ AsyncOK' /\ SyncOK' /\ FirstOK' /\ OutOK'
<1>1. \A r \in Reqs : Running(r) <=> Running(r)'
  BY DEF Running
<1>2. \A b : Cached(b) <=> Cached(b)'
  BY DEF Cached
<1>3. \A b : Due(b) <=> Due(b)'
  BY <1>1 DEF Due, numTokens
<1>4. (Recompute' <=> Recompute) /\ (AsyncLoads' <=> AsyncLoads)
  BY SameConf
<1>5. TableOK'
  <2>1. TableOK
    BY DEF IInv
  <2> QED
    BY <1>1, <1>2, <2>1 DEF TableOK, numTokens
<1>6. AsyncOK'
  <2>1. AsyncOK
    BY DEF IInv
  <2>2. \A r \in Reqs : status[r] \in {"remote", "waiting"} => computed'[r] = computed[r]
    BY DEF Running
  <2> QED
    BY <1>2, <1>3, <1>4, <2>1, <2>2 DEF AsyncOK
<1>7. SyncOK'
  <2>1. SyncOK
    BY DEF IInv
  <2>2. \A r \in Reqs : status[r] = "waiting" => computed'[r] = computed[r]
    BY DEF Running
  <2> QED
    BY <1>1, <1>3, <1>4, <2>1, <2>2 DEF SyncOK, numTokens
<1>8. FirstOK'
  <2>1. FirstOK
    BY DEF IInv
  <2> QED
    BY <1>1, <1>2, <1>3, <1>4, <2>1 DEF FirstOK, numTokens
<1>9. OutOK'
  <2>1. OutOK
    BY DEF IInv
  <2>2. \A r \in failed : computed'[r] = computed[r]
    BY DEF IInv, TypesOK, TypeOK, Remote, Running
  <2> QED
    BY <1>4, <2>1, <2>2 DEF OutOK, numTokens
<1> QED
  BY <1>5, <1>6, <1>7, <1>8, <1>9

\* The requests of G leave between two steps, and those of them that have still
\* to compute a cached block again are put down as abandoned.
Leave(G) ==
    /\ phase = "out" /\ phase' # "execute" /\ UNCHANGED <<conf, hash, second, kv, loads>>
    /\ \A r \in Reqs : status'[r] = "running" <=> status[r] = "running" /\ r \notin G
    /\ \A r \in Reqs : status'[r] = "running" => table'[r] = table[r] /\ computed'[r] = computed[r]
    /\ \A r \in Reqs : table'[r] = table[r] \/ table'[r] = <<>>
    /\ abandoned \subseteq abandoned'
    /\ \A r \in G : Owes(r) => r \in abandoned'

\* The tables of the others are as they should be.
LEMMA LeaveTable ==
  ASSUME KvLoadAssumption, TableOK, NEW G \in SUBSET Reqs, Leave(G)
  PROVE  TableOK'
<1>1. \A s \in Reqs : table'[s] = table[s] \/ table'[s] = <<>>
  BY DEF Leave
<1>2. \A s \in Reqs : status'[s] = "running" => status[s] = "running" /\ table'[s] = table[s]
  BY DEF Leave
<1>3. hash' = hash
  BY DEF Leave
<1>4. IsInjective(<<>>) /\ Len(<<>>) = 0
  BY DEF IsInjective
<1>5. \A s \in Reqs : \A i \in 1..Len(table'[s]) : table'[s] = table[s] /\ i \in 1..Len(table[s])
  BY <1>1, <1>4
<1>6. \A s \in Reqs : Len(table'[s]) <= numTokens(s) /\ IsInjective(table'[s])
  BY <1>1, <1>4, PromptFacts DEF TableOK
<1>7. \A s \in Reqs : \A i \in 1..Len(table'[s]) :
        hash[table'[s][i]] # NoHash => hash[table'[s][i]] = PromptOf[s][i]
  <2> SUFFICES ASSUME NEW s \in Reqs, NEW i \in 1..Len(table'[s]), hash[table'[s][i]] # NoHash
               PROVE  hash[table'[s][i]] = PromptOf[s][i]
    OBVIOUS
  <2>1. i \in 1..Len(table[s]) /\ table'[s] = table[s]
    BY <1>5
  <2>2. Cached(table[s][i]) => hash[table[s][i]] = PromptOf[s][i]
    BY <2>1 DEF TableOK
  <2> QED
    BY <2>1, <2>2 DEF Cached
<1>8. \A s, x \in Reqs : \A i \in 1..Len(table'[s]), j \in 1..Len(table'[x]) :
        table'[s][i] = table'[x][j] /\ hash[table'[s][i]] = NoHash => s = x
  <2> SUFFICES ASSUME NEW s \in Reqs, NEW x \in Reqs, NEW i \in 1..Len(table'[s]), NEW j \in 1..Len(table'[x]),
                      table'[s][i] = table'[x][j], hash[table'[s][i]] = NoHash
               PROVE  s = x
    OBVIOUS
  <2>1. i \in 1..Len(table[s]) /\ j \in 1..Len(table[x]) /\ table[s][i] = table[x][j] /\ ~Cached(table[s][i])
    BY <1>5 DEF Cached
  <2> QED
    BY <2>1 DEF TableOK
<1>9. \A s \in Reqs : status'[s] = "running" =>
        Len(table'[s]) = numTokens(s) /\ \A i \in 1..numTokens(s) : hash[table'[s][i]] # NoHash
  <2> SUFFICES ASSUME NEW s \in Reqs, status'[s] = "running"
               PROVE  Len(table'[s]) = numTokens(s) /\ \A i \in 1..numTokens(s) : hash[table'[s][i]] # NoHash
    OBVIOUS
  <2>1. Running(s) /\ table'[s] = table[s]
    BY <1>2 DEF Running
  <2>2. Len(table[s]) = numTokens(s) /\ \A i \in 1..numTokens(s) : Cached(table[s][i])
    BY <2>1 DEF TableOK
  <2> QED
    BY <2>1, <2>2 DEF Cached
<1> QED
  BY <1>3, <1>6, <1>7, <1>8, <1>9, SMTT(30) DEF TableOK, Cached, Running, numTokens

\* What only those of G were to compute is right already, if none is abandoned.
LEMMA LeaveFirst ==
  ASSUME KvLoadAssumption, IInv, NEW G \in SUBSET Reqs, Leave(G)
  PROVE  FirstOK'
<1>1. (Recompute' <=> Recompute) /\ (AsyncLoads' <=> AsyncLoads)
  BY SameConf DEF Leave
<1>2. phase = "out" /\ phase' # "execute" /\ UNCHANGED <<hash, second, kv, loads>>
  BY DEF Leave
<1> SUFFICES ASSUME Recompute, ~AsyncLoads, abandoned' = {} PROVE FirstOK'
  BY <1>1 DEF FirstOK
<1>3. FirstOK /\ TableOK /\ TypesOK /\ StepOK
  BY DEF IInv
<1>4. abandoned = {}
  BY DEF Leave
<1>5. \A s \in Reqs : status'[s] = "running" => Running(s) /\ s \notin G /\ table'[s] = table[s] /\ computed'[s] = computed[s]
  BY DEF Leave, Running
<1>6. \A s \in Reqs : Running(s) /\ s \notin G => status'[s] = "running"
  BY DEF Leave, Running
<1>7. ASSUME NEW b \in Blocks, hash[b] # NoHash PROVE kv[b] \/ b \in loads \/ Due(b)'
  <2> SUFFICES ASSUME Due(b), ~kv[b] PROVE Due(b)'
    BY <1>3, <1>4, <1>7 DEF FirstOK, Cached
  <2>1. PICK s \in Reqs : Running(s) /\ \E i \in 1..numTokens(s) : computed[s] < i /\ table[s][i] = b
    BY <1>2 DEF Due, Before
  <2>2. PICK i \in 1..numTokens(s) : computed[s] < i /\ table[s][i] = b
    BY <2>1
  <2>3. CASE s \in G
    <3>1. PICK n \in Nat : n = numTokens(s) /\ Len(table[s]) = n
      BY <1>3, <2>1, PromptFacts DEF TableOK
    <3>2. PICK c \in Nat : c = computed[s]
      BY <1>3 DEF TypesOK, TypeOK
    <3>3. i \in (c + 1)..n
      BY <2>2, <3>1, <3>2
    <3>4. Owes(s)
      BY <1>7, <2>2, <3>1, <3>2, <3>3 DEF Owes, HasWrong
    <3> QED
      BY <2>3, <3>4 DEF Leave
  <2>4. CASE s \notin G
    <3>1. status'[s] = "running"
      BY <1>6, <2>1, <2>4
    <3>2. table'[s] = table[s] /\ computed'[s] = computed[s]
      BY <1>5, <3>1
    <3>3. Before(s)' = computed[s]
      BY <1>2, <3>2 DEF Before
    <3> QED
      BY <2>2, <3>1, <3>2, <3>3 DEF Due, Running, numTokens
  <2> QED
    BY <2>3, <2>4
<1>8. \A b, c \in Blocks \ second : hash[b] # NoHash /\ hash[b] = hash[c] => b = c
  BY <1>3, <1>4 DEF FirstOK, Cached
<1>9. \A s \in Reqs : status'[s] = "running" =>
        \A i \in 1..numTokens(s) : i < numTokens(s) => table'[s][i] \notin second
  BY <1>3, <1>4, <1>5 DEF FirstOK
<1> QED
  BY <1>2, <1>7, <1>8, <1>9 DEF FirstOK, Cached, Running, numTokens

\* schedule() begins, with some requests preempted: the invariant holds.
LEMMA BeginInv ==
  ASSUME KvLoadAssumption, IInv, NEW gone, BeginSchedule(gone), UNCHANGED conf
  PROVE  IInv'
<1>1. /\ phase = "out" /\ phase' \in {"schedule", "preempted"} /\ gone \subseteq ToSet(running)
      /\ UNCHANGED <<conf, recvd, failed, hash, second, kv, loads, wrong>>
      /\ running' = remove_all(running, gone)
      /\ abandoned' = abandoned \cup {r \in gone : Owes(r)}
  BY DEF BeginSchedule
<1>2. TypesOK /\ StepOK /\ TableOK /\ AsyncOK /\ SyncOK /\ OutOK
  BY DEF IInv
<1>3. (Recompute' <=> Recompute) /\ (AsyncLoads' <=> AsyncLoads)
  BY <1>1, SameConf
<1>4. ToSet(running) = {r \in Reqs : Running(r)} /\ gone \subseteq Reqs /\ \A r \in gone : Running(r)
  BY <1>1, <1>2 DEF TypesOK, TypeOK, Running
<1>5. ASSUME NEW r \in gone
      PROVE  status'[r] = "waiting" /\ table'[r] = <<>> /\ computed'[r] = 0 /\ tokens'[r] = 0
  BY <1>4 DEF BeginSchedule
<1>6. ASSUME NEW r \in Reqs \ gone
      PROVE  /\ status'[r] = status[r] /\ table'[r] = table[r] /\ computed'[r] = computed[r]
             /\ tokens'[r] = IF status[r] = "running" THEN numTokens(r) - computed[r] ELSE 0
  BY DEF BeginSchedule
<1>7. \A r \in Reqs : status'[r] = "running" <=> status[r] = "running" /\ r \notin gone
  BY <1>5, <1>6
<1>8. \A r \in Reqs : numTokens(r) \in Nat /\ numTokens(r) > 0 /\ computed[r] \in Nat
  BY <1>2, PromptFacts DEF TypesOK, TypeOK
<1>9. ASSUME NEW r \in Reqs
      PROVE  /\ status'[r] = "running" => /\ computed'[r] = computed[r] /\ computed[r] < numTokens(r)
                                          /\ tokens'[r] = numTokens(r) - computed[r]
             /\ status'[r] # "running" => tokens'[r] = 0
  <2>1. status[r] = "running" => computed[r] < numTokens(r)
    BY <1>1, <1>2 DEF StepOK, Running
  <2> QED
    BY <1>5, <1>6, <2>1
<1>10. ASSUME NEW r \in Reqs PROVE tokens'[r] \in Nat /\ (status'[r] = "running" <=> tokens'[r] > 0)
  BY <1>8, <1>9
<1>11. Leave(gone)
  <2>1. \A r \in Reqs : table'[r] = table[r] \/ table'[r] = <<>>
    BY <1>5, <1>6
  <2>2. \A r \in Reqs : status'[r] = "running" => table'[r] = table[r] /\ computed'[r] = computed[r]
    BY <1>6, <1>7
  <2> QED
    BY <1>1, <1>4, <1>7, <2>1, <2>2 DEF Leave
<1>12. TypesOK'
  <2>1. running \in Seq(Reqs) /\ IsInjective(running)
    BY <1>2 DEF TypesOK, TypeOK
  <2>2. running' \in Seq(Reqs) /\ IsInjective(running') /\ ToSet(running') = ToSet(running) \ gone
    BY <1>1, <2>1, RemoveAllIs
  <2>3. ToSet(running) \ gone = {r \in Reqs : status'[r] = "running"}
    BY <1>4, <1>7 DEF Running
  <2>4. recvd \subseteq Remote' /\ failed \subseteq Remote'
    BY <1>2, <1>4, <1>6 DEF TypesOK, TypeOK, Remote, Running
  <2>5. status' \in [Reqs -> {"waiting", "remote", "running", "zombie", "done"}]
    BY <1>2 DEF BeginSchedule, TypesOK, TypeOK
  <2>6. table' \in [Reqs -> Seq(Blocks)]
    BY <1>2 DEF BeginSchedule, TypesOK, TypeOK
  <2>7. computed' \in [Reqs -> Nat]
    BY <1>8 DEF BeginSchedule
  <2>8. tokens' \in [Reqs -> Nat]
    BY <1>10 DEF BeginSchedule
  <2>9. TypeOK'
    BY <1>1, <1>2, <2>2, <2>3, <2>4, <2>5, <2>6, <2>7 DEF TypesOK, TypeOK
  <2> QED
    BY <1>1, <1>2, <1>4, <2>2, <2>8, <2>9 DEF TypesOK
<1>13. StepOK'
  <2>1. ASSUME NEW r \in Reqs
        PROVE  /\ status'[r] \in {"waiting", "remote"} => computed'[r] <= Len(table'[r]) /\ tokens'[r] = 0
               /\ status'[r] = "waiting" => computed'[r] < numTokens(r)
    <3>1. CASE r \in gone
      <4>1. Len(<<>>) = 0
        OBVIOUS
      <4> QED
        BY <1>5, <1>8, <3>1, <4>1
    <3>2. CASE r \notin gone
      BY <1>2, <1>6, <3>2 DEF StepOK
    <3> QED
      BY <3>1, <3>2
  <2>2. ASSUME NEW r \in Reqs PROVE status'[r] = "running" => tokens'[r] = numTokens(r) - Before(r)'
    BY <1>1, <1>9 DEF Before
  <2>3. ASSUME NEW r \in Reqs PROVE status'[r] = "running" => computed'[r] < numTokens(r)
    BY <1>9
  <2> QED
    BY <1>1, <1>10, <2>1, <2>2, <2>3 DEF StepOK, Running, numTokens
<1>14. TableOK' /\ FirstOK'
  BY <1>2, <1>4, <1>11, LeaveTable, LeaveFirst
<1>15. AsyncOK'
  <2> SUFFICES ASSUME AsyncLoads PROVE AsyncOK'
    BY <1>3 DEF AsyncOK
  <2>1. gone = {} /\ \A r \in Reqs : ~Running(r)
    BY <1>1, <1>2, <1>4 DEF AsyncOK
  <2>2. \A r \in Reqs : status'[r] = status[r] /\ table'[r] = table[r] /\ computed'[r] = computed[r]
    BY <1>6, <2>1
  <2>3. abandoned' = abandoned
    BY <1>1, <2>1
  <2>4. status' = status /\ table' = table
    BY <1>2, <2>2 DEF BeginSchedule, TypesOK, TypeOK
  <2>5. \A r \in Reqs : Running(r) => Before(r)' = Before(r)
    BY <2>1
  <2> QED
    BY <1>1, <2>1, <2>2, <2>3, <2>4, <2>5, SameBooks
<1>16. SyncOK'
  <2> SUFFICES ASSUME ~AsyncLoads PROVE SyncOK'
    BY <1>3 DEF SyncOK
  <2>1. ASSUME NEW r \in Reqs
        PROVE  /\ status'[r] \in {"waiting", "running", "done"}
               /\ status'[r] = "waiting" => table'[r] = <<>> /\ computed'[r] = 0
               /\ status'[r] = "done" => table'[r] = <<>>
    BY <1>2, <1>5, <1>6 DEF SyncOK
  <2>2. loads' = {} /\ phase' # "out"
    BY <1>1, <1>2 DEF SyncOK
  <2> QED
    BY <2>1, <2>2 DEF SyncOK
<1>17. OutOK'
  <2>1. \A r \in failed : r \in Reqs /\ computed'[r] = computed[r]
    BY <1>2, <1>4, <1>6 DEF TypesOK, TypeOK, Remote, Running
  <2>2. abandoned' = {} => abandoned = {}
    BY <1>1
  <2> QED
    BY <1>1, <1>2, <1>3, <2>1, <2>2 DEF OutOK, numTokens
<1> QED
  BY <1>12, <1>13, <1>14, <1>15, <1>16, <1>17 DEF IInv

\* A decoding request takes a free block: the invariant holds.
LEMMA OthersInv ==
  ASSUME KvLoadAssumption, IInv, NEW b \in Blocks, TakenByOthers(b), UNCHANGED conf
  PROVE  IInv'
<1>1. /\ phase \in {"schedule", "preempted"} /\ IsNew(<<>>, <<b>>)
      /\ hash' = [hash EXCEPT ![b] = NoHash] /\ second' = second \ {b} /\ kv' = [kv EXCEPT ![b] = FALSE]
      /\ UNCHANGED <<conf, status, running, table, computed, recvd, failed, phase, tokens, loads, wrong, abandoned>>
  BY DEF TakenByOthers, requests
<1>2. TypesOK /\ StepOK /\ TableOK /\ AsyncOK /\ SyncOK /\ FirstOK /\ OutOK
  BY DEF IInv
<1>3. (Recompute' <=> Recompute) /\ (AsyncLoads' <=> AsyncLoads)
  BY <1>1, SameConf
<1>4. hash \in [Blocks -> Nat \cup {NoHash}] /\ kv \in [Blocks -> BOOLEAN] /\ table \in [Reqs -> Seq(Blocks)]
  BY <1>2 DEF TypesOK, TypeOK
<1>5. b \in Free
  <2>1. ToSet(<<b>>) \subseteq Free
    BY <1>1 DEF IsNew
  <2>2. b \in ToSet(<<b>>)
    BY DEF ToSet
  <2> QED
    BY <2>1, <2>2
<1>6. \A r \in Reqs : \A i \in 1..Len(table[r]) : table[r][i] \in Blocks /\ table[r][i] # b
  BY <1>4, <1>5, FreeFacts
<1>7. hash'[b] = NoHash /\ \A c \in Blocks \ {b} : hash'[c] = hash[c] /\ kv'[c] = kv[c]
  BY <1>1, <1>4
<1>8. \A r \in Reqs : \A i \in 1..Len(table[r]) :
        hash'[table[r][i]] = hash[table[r][i]] /\ kv'[table[r][i]] = kv[table[r][i]]
  BY <1>6, <1>7
<1>9. \A c \in Blocks : hash'[c] # NoHash => c # b /\ hash'[c] = hash[c] /\ hash[c] # NoHash /\ kv'[c] = kv[c]
  BY <1>7
<1>10. \A c : Due(c)' <=> Due(c)
  BY <1>1 DEF Due, Running, Before, numTokens
<1>11. TypesOK'
  <2>1. hash' \in [Blocks -> Nat \cup {NoHash}] /\ kv' \in [Blocks -> BOOLEAN]
    BY <1>1, <1>4
  <2> QED
    BY <1>1, <1>2, <2>1 DEF TypesOK, TypeOK, Remote
<1>12. StepOK'
  BY <1>1, <1>2 DEF StepOK, Running, Before, numTokens
<1>13. TableOK'
  <2>1. \A r \in Reqs : Running(r) => \A i \in 1..numTokens(r) : i \in 1..Len(table[r])
    BY <1>2 DEF TableOK
  <2>2. \A r \in Reqs : Len(table[r]) <= numTokens(r) /\ IsInjective(table[r])
    BY <1>2 DEF TableOK
  <2>3. \A r \in Reqs : \A i \in 1..Len(table[r]) :
          hash'[table[r][i]] # NoHash => hash'[table[r][i]] = PromptOf[r][i]
    <3> SUFFICES ASSUME NEW r \in Reqs, NEW i \in 1..Len(table[r]), hash'[table[r][i]] # NoHash
                 PROVE  hash'[table[r][i]] = PromptOf[r][i]
      OBVIOUS
    <3>1. hash'[table[r][i]] = hash[table[r][i]]
      BY <1>8
    <3>2. Cached(table[r][i]) => hash[table[r][i]] = PromptOf[r][i]
      BY <1>2 DEF TableOK
    <3> QED
      BY <3>1, <3>2 DEF Cached
  <2>4. ASSUME NEW r \in Reqs, NEW s \in Reqs, NEW i \in 1..Len(table[r]), NEW j \in 1..Len(table[s]),
               table[r][i] = table[s][j], hash'[table[r][i]] = NoHash
        PROVE  r = s
    <3>1. ~Cached(table[r][i])
      BY <1>8, <2>4 DEF Cached
    <3> QED
      BY <1>2, <2>4, <3>1 DEF TableOK
  <2>5. \A r \in Reqs : Running(r) =>
          Len(table[r]) = numTokens(r) /\ \A i \in 1..numTokens(r) : hash'[table[r][i]] # NoHash
    BY <1>2, <1>8, <2>1 DEF TableOK, Cached
  <2> QED
    BY <1>1, <2>2, <2>3, <2>4, <2>5, SMTT(30) DEF TableOK, Cached, Running, numTokens
<1>14. AsyncOK'
  <2> SUFFICES ASSUME AsyncLoads PROVE AsyncOK'
    BY <1>3 DEF AsyncOK
  <2>1. ASSUME NEW c \in loads
        PROVE  hash'[c] = NoHash /\ \E r \in Reqs : status[r] \in {"remote", "zombie"} /\ r \notin recvd
                                                   /\ c \in ToSet(table[r])
    BY <1>2, <1>7 DEF AsyncOK, Cached, TypesOK
  <2>2. ASSUME NEW r \in Reqs, status[r] \in {"waiting", "remote"}, NEW i \in 1..computed[r]
        PROVE  i \in 1..Len(table[r])
    <3>1. PICK n \in Nat : n = Len(table[r])
      BY <1>4
    <3>2. PICK c \in Nat : c = computed[r] /\ c <= n
      BY <1>2, <2>2, <3>1 DEF TypesOK, TypeOK, StepOK
    <3> QED
      BY <3>1, <3>2
  <2>3. ASSUME NEW r \in Reqs, status[r] = "remote", NEW i \in 1..computed[r]
        PROVE  hash'[table[r][i]] # NoHash \/ kv'[table[r][i]] \/ (table[r][i] \in loads /\ r \notin recvd)
    <3>1. hash'[table[r][i]] = hash[table[r][i]] /\ kv'[table[r][i]] = kv[table[r][i]]
      BY <1>8, <2>2, <2>3
    <3>2. Cached(table[r][i]) \/ kv[table[r][i]] \/ (table[r][i] \in loads /\ r \notin recvd)
      BY <1>2, <2>3 DEF AsyncOK
    <3> QED
      BY <3>1, <3>2 DEF Cached
  <2>4. ASSUME NEW r \in Reqs, status[r] = "waiting", NEW i \in 1..computed[r]
        PROVE  hash'[table[r][i]] # NoHash
    <3>1. hash'[table[r][i]] = hash[table[r][i]]
      BY <1>8, <2>2, <2>4
    <3>2. Cached(table[r][i])
      BY <1>2, <2>4 DEF AsyncOK
    <3> QED
      BY <3>1, <3>2 DEF Cached
  <2>5. \A c \in Blocks : hash'[c] # NoHash => kv'[c] \/ Due(c)'
    BY <1>2, <1>9, <1>10 DEF AsyncOK, Cached
  <2> QED
    <3>1. \A r \in Reqs : status'[r] = "remote" => \A i \in 1..computed'[r] :
            hash'[table'[r][i]] # NoHash \/ kv'[table'[r][i]] \/ (table'[r][i] \in loads' /\ r \notin recvd')
      BY <1>1, <2>3
    <3>2. \A r \in Reqs : status'[r] = "waiting" => \A i \in 1..computed'[r] : hash'[table'[r][i]] # NoHash
      BY <1>1, <2>4
    <3>3. \A c \in loads' : (~Cached(c))' /\
            \E r \in Reqs : status'[r] \in {"remote", "zombie"} /\ r \notin recvd' /\ c \in ToSet(table'[r])
      BY <1>1, <2>1 DEF Cached
    <3>4. phase' # "out"
      BY <1>1
    <3> QED
      BY <2>5, <3>1, <3>2, <3>3, <3>4 DEF AsyncOK, Cached
<1>15. SyncOK'
  BY <1>1, <1>2, <1>3, <1>10 DEF SyncOK, Running, Before, numTokens
<1>16. FirstOK'
  <2> SUFFICES ASSUME Recompute, ~AsyncLoads, abandoned = {} PROVE FirstOK'
    BY <1>1, <1>3 DEF FirstOK
  <2>1. \A c \in Blocks : hash'[c] # NoHash => kv'[c] \/ c \in loads \/ Due(c)'
    BY <1>2, <1>9, <1>10 DEF FirstOK, Cached
  <2>2. ASSUME NEW c \in Blocks \ second', NEW d \in Blocks \ second', hash'[c] # NoHash, hash'[c] = hash'[d]
        PROVE  c = d
    <3>1. c # b /\ d # b /\ hash[c] # NoHash /\ hash[c] = hash[d]
      BY <1>9, <2>2
    <3>2. c \in Blocks \ second /\ d \in Blocks \ second
      BY <1>1, <3>1
    <3> QED
      BY <1>2, <3>1, <3>2 DEF FirstOK, Cached
  <2>3. \A r \in Reqs : Running(r) =>
          \A i \in 1..numTokens(r) : i < numTokens(r) => table[r][i] \notin second'
    BY <1>1, <1>2 DEF FirstOK
  <2> QED
    BY <1>1, <2>1, <2>2, <2>3 DEF FirstOK, Cached, Running, numTokens
<1>17. OutOK'
  BY <1>1, <1>2, <1>3 DEF OutOK, numTokens
<1> QED
  BY <1>11, <1>12, <1>13, <1>14, <1>15, <1>16, <1>17 DEF IInv

\* schedule() ends: the invariant holds.
LEMMA EndInv ==
  ASSUME KvLoadAssumption, IInv, EndSchedule, UNCHANGED conf
  PROVE  IInv'
<1>1. /\ phase \in {"schedule", "preempted"} /\ phase' = "execute"
      /\ UNCHANGED <<conf, status, running, table, tokens, recvd, failed, hash, second, kv, loads, wrong, abandoned>>
      /\ computed' = [r \in Reqs |-> computed[r] + tokens[r]]
  BY DEF EndSchedule
<1>2. TypesOK /\ StepOK
  BY DEF IInv
<1>3. \A r \in Reqs : numTokens(r) \in Nat /\ computed[r] \in Nat /\ tokens[r] \in Nat
  BY <1>2, PromptFacts DEF TypesOK, TypeOK
<1>4. ASSUME NEW r \in Reqs PROVE computed'[r] = computed[r] + tokens[r] /\ Before(r)' = Before(r)
  BY <1>1, <1>3 DEF Before
<1>5. ASSUME NEW r \in Reqs
      PROVE  /\ status[r] = "running" => tokens[r] = numTokens(r) - computed[r] /\ tokens[r] > 0
             /\ status[r] # "running" => tokens[r] = 0
  <2>1. tokens[r] > 0 <=> status[r] = "running"
    BY <1>1, <1>2 DEF StepOK, Running
  <2>2. status[r] = "running" => tokens[r] = numTokens(r) - computed[r]
    BY <1>1, <1>2 DEF StepOK, Running, Before
  <2> QED
    BY <1>3, <2>1, <2>2
<1>6. ASSUME NEW r \in Reqs
      PROVE  /\ status[r] = "running" => computed'[r] = numTokens(r)
             /\ status[r] # "running" => computed'[r] = computed[r]
  BY <1>3, <1>4, <1>5
<1>7. computed' \in [Reqs -> Nat]
  BY <1>1, <1>3
<1>8. TypesOK'
  BY <1>1, <1>2, <1>7 DEF TypesOK, TypeOK, Remote
<1>9. StepOK'
  <2>1. ASSUME NEW r \in Reqs
        PROVE  /\ status[r] \in {"waiting", "remote"} => computed[r] <= Len(table[r]) /\ tokens[r] = 0
               /\ status[r] = "waiting" => computed[r] < numTokens(r)
    BY <1>2 DEF StepOK
  <2>2. ASSUME NEW r \in Reqs
        PROVE  status[r] = "running" => tokens[r] = numTokens(r) - Before(r)'
    BY <1>1, <1>4, <1>5 DEF Before
  <2>3. ASSUME NEW r \in Reqs
        PROVE  tokens[r] > 0 <=> status[r] = "running"
    BY <1>3, <1>5
  <2> QED
    BY <1>1, <1>6, <2>1, <2>2, <2>3 DEF StepOK, Running, numTokens
<1>10. TableOK' /\ AsyncOK' /\ SyncOK' /\ FirstOK' /\ OutOK'
  <2>1. \A r \in Reqs : ~Running(r) => computed'[r] = computed[r]
    BY <1>6 DEF Running
  <2> QED
    BY <1>1, <1>4, <2>1, SameBooks
<1> QED
  BY <1>8, <1>9, <1>10 DEF IInv

\* A client aborts a request: the invariant holds.
LEMMA AbortInv ==
  ASSUME KvLoadAssumption, IInv, NEW r \in Reqs, Abort(r), UNCHANGED conf
  PROVE  IInv'
<1>1. TypesOK /\ StepOK /\ TableOK /\ AsyncOK /\ SyncOK /\ OutOK
  BY DEF IInv
<1>2. PICK delayed \in BOOLEAN : delayed <=> (status[r] = "remote" /\ r \notin recvd)
  OBVIOUS
<1>3. /\ phase = "out" /\ phase' = "out" /\ status[r] \notin {"zombie", "done"}
      /\ status' = [status EXCEPT ![r] = IF delayed THEN "zombie" ELSE "done"]
      /\ table' = IF delayed THEN table ELSE [table EXCEPT ![r] = <<>>]
      /\ recvd' = recvd \ {r} /\ failed' = failed \ {r}
      /\ UNCHANGED <<conf, computed, hash, second, kv, tokens, loads, wrong>>
  BY <1>2 DEF Abort, Loading, Abortable
<1>4. (Recompute' <=> Recompute) /\ (AsyncLoads' <=> AsyncLoads)
  BY SameConf
<1>5. /\ status \in [Reqs -> {"waiting", "remote", "running", "zombie", "done"}]
      /\ table \in [Reqs -> Seq(Blocks)]
  BY <1>1 DEF TypesOK, TypeOK
<1>6. \A s \in Reqs \ {r} : status'[s] = status[s] /\ table'[s] = table[s]
  BY <1>3, <1>5
<1>7. /\ delayed => status'[r] = "zombie" /\ table'[r] = table[r]
      /\ ~delayed => status'[r] = "done" /\ table'[r] = <<>>
  BY <1>3, <1>5
<1>8. status' \in [Reqs -> {"waiting", "remote", "running", "zombie", "done"}]
      /\ table' \in [Reqs -> Seq(Blocks)]
  <2>1. CASE delayed
    BY <1>3, <1>5, <2>1
  <2>2. CASE ~delayed
    BY <1>3, <1>5, <2>2
  <2> QED
    BY <2>1, <2>2
<1>9. \A s \in Reqs : status'[s] \in {"waiting", "remote", "running"} =>
         s # r /\ status'[s] = status[s] /\ table'[s] = table[s]
  BY <1>6, <1>7
<1>10. \A s \in Reqs : table'[s] = table[s] \/ table'[s] = <<>>
  BY <1>6, <1>7
<1>11. TypesOK'
  <2>1. running' = remove_all(running, {r}) /\ running \in Seq(Reqs) /\ IsInjective(running)
    BY <1>1 DEF Abort, TypesOK, TypeOK
  <2>2. running' \in Seq(Reqs) /\ IsInjective(running') /\ ToSet(running') = ToSet(running) \ {r}
    BY <2>1, RemoveAllIs
  <2>3. ToSet(running) \ {r} = {s \in Reqs : status'[s] = "running"}
    BY <1>1, <1>6, <1>7 DEF TypesOK, TypeOK
  <2>4. recvd' \subseteq Remote' /\ failed' \subseteq Remote'
    BY <1>1, <1>3, <1>6 DEF TypesOK, TypeOK, Remote
  <2>5. TypeOK'
    BY <1>1, <1>3, <1>8, <2>2, <2>3, <2>4 DEF TypesOK, TypeOK
  <2>6. abandoned' \subseteq Reqs
    BY <1>1 DEF Abort, TypesOK
  <2> QED
    BY <1>1, <1>3, <2>2, <2>5, <2>6 DEF TypesOK
<1>12. StepOK'
  <2>1. ASSUME NEW s \in Reqs
        PROVE  /\ status'[s] = "running" => computed[s] < numTokens(s)
               /\ status'[s] \in {"waiting", "remote"} => computed[s] <= Len(table'[s]) /\ tokens[s] = 0
               /\ status'[s] = "waiting" => computed[s] < numTokens(s)
    BY <1>1, <1>3, <1>9 DEF StepOK, Running
  <2> QED
    BY <1>3, <2>1 DEF StepOK, Running, numTokens
<1>13. TableOK' /\ FirstOK' /\ abandoned \subseteq abandoned'
  <2>1. abandoned' = IF Owes(r) THEN abandoned \cup {r} ELSE abandoned
    BY DEF Abort
  <2>2. abandoned \subseteq abandoned' /\ (Owes(r) => r \in abandoned')
    BY <1>1, <2>1 DEF TypesOK
  <2>3. \A s \in Reqs : status'[s] = "running" <=> status[s] = "running" /\ s \notin {r}
    BY <1>6, <1>7
  <2>4. Leave({r})
    BY <1>3, <1>9, <1>10, <2>2, <2>3 DEF Leave
  <2> QED
    BY <1>1, <2>2, <2>4, LeaveTable, LeaveFirst
<1>14. AsyncOK'
  <2> SUFFICES ASSUME AsyncLoads PROVE AsyncOK'
    BY <1>4 DEF AsyncOK
  <2>1. \A s \in Reqs : ~Running(s) /\ status'[s] # "running"
    BY <1>1, <1>3, <1>9 DEF AsyncOK, Running
  <2>2. ASSUME NEW b \in loads
        PROVE  hash[b] = NoHash /\ \E s \in Reqs : status'[s] \in {"remote", "zombie"} /\ s \notin recvd'
                                                  /\ b \in ToSet(table'[s])
    <3>1. PICK s \in Reqs : status[s] \in {"remote", "zombie"} /\ s \notin recvd /\ b \in ToSet(table[s])
      BY <1>1 DEF AsyncOK
    <3>2. hash[b] = NoHash
      BY <1>1 DEF AsyncOK, Cached
    <3>3. CASE s = r
      BY <1>2, <1>3, <1>7, <3>1, <3>2, <3>3
    <3>4. CASE s # r
      BY <1>3, <1>6, <3>1, <3>2, <3>4
    <3> QED
      BY <3>3, <3>4
  <2>3. ASSUME NEW s \in Reqs, status'[s] = "remote", NEW i \in 1..computed[s]
        PROVE  \/ hash[table'[s][i]] # NoHash \/ kv[table'[s][i]]
               \/ (table'[s][i] \in loads /\ s \notin recvd')
    BY <1>1, <1>3, <1>9, <2>3 DEF AsyncOK, Cached
  <2>4. ASSUME NEW s \in Reqs, status'[s] = "waiting", NEW i \in 1..computed[s]
        PROVE  hash[table'[s][i]] # NoHash
    <3>1. status[s] = "waiting" /\ table'[s] = table[s]
      BY <1>9, <2>4
    <3>2. Cached(table[s][i])
      BY <1>1, <3>1 DEF AsyncOK
    <3> QED
      BY <3>1, <3>2 DEF Cached
  <2>5. \A b \in Blocks : hash[b] # NoHash => kv[b]
    BY <1>1, <2>1 DEF AsyncOK, Cached, Due
  <2> QED
    <3>1. /\ hash' = hash /\ kv' = kv /\ loads' = loads /\ computed' = computed
      BY <1>3
    <3>2. \A b \in loads' : (~Cached(b))' /\
            \E s \in Reqs : status'[s] \in {"remote", "zombie"} /\ s \notin recvd' /\ b \in ToSet(table'[s])
      BY <2>2, <3>1 DEF Cached
    <3>3. \A s \in Reqs : status'[s] = "remote" => \A i \in 1..computed'[s] :
            hash'[table'[s][i]] # NoHash \/ kv'[table'[s][i]] \/ (table'[s][i] \in loads' /\ s \notin recvd')
      BY <2>3, <3>1
    <3>4. \A s \in Reqs : status'[s] = "waiting" => \A i \in 1..computed'[s] : hash'[table'[s][i]] # NoHash
      BY <2>4, <3>1
    <3>5. \A b \in Blocks : hash'[b] # NoHash => kv'[b]
      BY <2>5, <3>1
    <3> QED
      BY <2>1, <3>2, <3>3, <3>4, <3>5 DEF AsyncOK, Cached, Running
<1>15. SyncOK'
  <2> SUFFICES ASSUME ~AsyncLoads PROVE SyncOK'
    BY <1>4 DEF SyncOK
  <2>1. \A s \in Reqs : status[s] \in {"waiting", "running", "done"}
    BY <1>1 DEF SyncOK
  <2>2. ~delayed
    BY <1>2, <2>1
  <2>3. \A s \in Reqs : status'[s] \in {"waiting", "running", "done"}
    BY <1>6, <1>7, <2>1, <2>2
  <2>4. \A s \in Reqs : status'[s] = "waiting" => table'[s] = <<>> /\ computed[s] = 0
    BY <1>1, <1>9 DEF SyncOK
  <2>5. loads = {}
    BY <1>1, <1>3 DEF SyncOK
  <2>6. ~Recompute => \A s \in Reqs : status'[s] # "running"
    BY <1>1, <1>3, <1>9 DEF SyncOK, Running
  <2>7. \A s \in Reqs : status'[s] = "done" => table'[s] = <<>>
    BY <1>1, <1>6, <1>7, <2>2 DEF SyncOK
  <2> QED
    BY <1>3, <1>4, <2>3, <2>4, <2>5, <2>6, <2>7 DEF SyncOK, Running
<1>16. OutOK'
  BY <1>1, <1>3, <1>4, <1>13 DEF OutOK, numTokens
<1> QED
  BY <1>11, <1>12, <1>13, <1>14, <1>15, <1>16 DEF IInv
-----------------------------------------------------------------------------
(***************************************************************************)
(* update_from_output.                                                     *)
(***************************************************************************)
\* In a step, running requests compute and nobody else does.
LEMMA ExecuteFacts ==
  ASSUME KvLoadAssumption, TypesOK, StepOK, phase = "execute", NEW r \in Reqs
  PROVE  /\ computed[r] \in Nat /\ tokens[r] \in Nat /\ numTokens(r) \in Nat /\ numTokens(r) \in 1..MaxLen
         /\ Before(r) = computed[r] - tokens[r]
         /\ Running(r) <=> tokens[r] > 0
         /\ ~Running(r) => tokens[r] = 0 /\ Before(r) = computed[r]
         /\ Running(r) => computed[r] = numTokens(r) /\ Before(r) \in Int /\ Before(r) < numTokens(r)
<1>1. computed[r] \in Nat /\ tokens[r] \in Nat /\ numTokens(r) \in Nat /\ numTokens(r) \in 1..MaxLen
  BY PromptFacts DEF TypesOK, TypeOK
<1>2. Before(r) = computed[r] - tokens[r]
  BY DEF Before
<1>3. Running(r) <=> tokens[r] > 0
  BY DEF StepOK
<1>4. ~Running(r) => tokens[r] = 0 /\ Before(r) = computed[r]
  BY <1>1, <1>2, <1>3
<1>5. ASSUME Running(r) PROVE computed[r] = numTokens(r) /\ Before(r) \in Int /\ Before(r) < numTokens(r)
  <2>1. computed[r] = numTokens(r) /\ tokens[r] = numTokens(r) - Before(r)
    BY <1>5 DEF StepOK
  <2>2. tokens[r] = computed[r] - Before(r) /\ tokens[r] > 0
    BY <1>3, <1>5, <2>1
  <2> QED
    BY <1>1, <1>2, <2>1, <2>2
<1> QED
  BY <1>1, <1>2, <1>3, <1>4, <1>5

\* What the blocks of U rest on in the step: they are right before it or due, and
\* whoever computes one of them has blocks of U before it.
Sustains(Ok, U) ==
    /\ \A b \in U : b \in Ok \/ Due(b)
    /\ \A r \in Reqs : Running(r) => \A p \in 1..numTokens(r) :
          Before(r) < p /\ table[r][p] \in U => \A q \in 1..(p - 1) : table[r][q] \in U

\* A cached block has the same position in every table, and what is before it
\* has the same hashes.
LEMMA SamePosition ==
  ASSUME KvLoadAssumption, TypesOK, TableOK, NEW r \in Reqs, NEW s \in Reqs, Running(r), Running(s),
         NEW i \in 1..numTokens(r), NEW j \in 1..numTokens(s), table[r][i] = table[s][j]
  PROVE  i = j /\ \A k \in 1..i : hash[table[r][k]] = hash[table[s][k]]
<1>1. \A x \in Reqs : Running(x) => \A k \in 1..numTokens(x) :
        Cached(table[x][k]) /\ k \in 1..Len(table[x]) /\ hash[table[x][k]] = PromptOf[x][k]
  BY DEF TableOK
<1>2. PromptOf[r][i] = PromptOf[s][j]
  <2>1. hash[table[r][i]] = PromptOf[r][i]
    BY <1>1
  <2>2. hash[table[s][j]] = PromptOf[s][j]
    BY <1>1
  <2> QED
    BY <2>1, <2>2
<1>3. i = j /\ \A k \in 1..i : PromptOf[r][k] = PromptOf[s][k]
  BY <1>2, PromptFacts
<1>4. \A k \in 1..i : k \in 1..numTokens(r) /\ k \in 1..numTokens(s)
  BY <1>3, PromptFacts
<1> QED
  BY <1>1, <1>3, <1>4

\* The step leaves right what is sustained.
LEMMA StepRight ==
  ASSUME KvLoadAssumption, TypesOK, StepOK, TableOK, phase = "execute",
         NEW Ok \in SUBSET Blocks, NEW U, Sustains(Ok, U)
  PROVE  U \subseteq Right(Ok)
<1>1. computed \in [Reqs -> Nat] /\ tokens \in [Reqs -> Nat]
  BY DEF TypesOK, TypeOK
<1>2. ASSUME NEW r \in Reqs, NEW p \in 1..MaxLen
      PROVE  Computes(r, p) <=> Running(r) /\ Before(r) < p /\ p \in 1..numTokens(r)
  <2>1. /\ computed[r] \in Nat /\ tokens[r] \in Nat /\ numTokens(r) \in Nat /\ numTokens(r) \in 1..MaxLen
        /\ Before(r) = computed[r] - tokens[r]
        /\ Running(r) <=> tokens[r] > 0
        /\ ~Running(r) => tokens[r] = 0
        /\ Running(r) => computed[r] = numTokens(r)
    BY ExecuteFacts
  <2>2. MaxLen \in Nat
    BY DEF KvLoadAssumption
  <2> QED
    BY <2>1, <2>2 DEF Computes
<1>3. \A r \in Reqs : 1..numTokens(r) \subseteq 1..MaxLen
  BY PromptFacts DEF KvLoadAssumption
<1>4. ASSUME NEW b \in U
      PROVE  b \in Ok \/ \E r \in Reqs, p \in 1..MaxLen : Computes(r, p) /\ table[r][p] = b
  <2>1. CASE b \in Ok
    BY <2>1
  <2>2. CASE Due(b)
    <3>1. PICK r \in Reqs : Running(r) /\ \E i \in 1..numTokens(r) : Before(r) < i /\ table[r][i] = b
      BY <2>2 DEF Due
    <3>2. PICK p \in 1..numTokens(r) : Before(r) < p /\ table[r][p] = b
      BY <3>1
    <3>3. p \in 1..MaxLen
      BY <1>3
    <3>4. Computes(r, p)
      BY <1>2, <3>1, <3>2, <3>3
    <3> QED
      BY <3>2, <3>3, <3>4
  <2> QED
    BY <2>1, <2>2 DEF Sustains
<1>5. ASSUME NEW r \in Reqs, NEW p \in 1..MaxLen, Computes(r, p), table[r][p] \in U
      PROVE  \A q \in 1..(p - 1) : table[r][q] \in U
  BY <1>2, <1>5 DEF Sustains
<1>6. ASSUME NEW r \in Reqs, NEW s \in Reqs, NEW p \in 1..MaxLen, NEW q \in 1..MaxLen, NEW x \in 1..MaxLen,
             Computes(r, p), Computes(s, x), q <= p, table[r][q] = table[s][x]
      PROVE  q = x
  <2>1. Running(r) /\ Running(s) /\ p \in 1..numTokens(r) /\ x \in 1..numTokens(s)
    BY <1>2, <1>6
  <2>2. q \in 1..numTokens(r)
    <3>1. PICK n \in Nat : n = numTokens(r)
      BY PromptFacts
    <3> QED
      BY <1>6, <2>1, <3>1
  <2> QED
    BY <1>6, <2>1, <2>2, SamePosition
<1> QED
  BY <1>1, <1>4, <1>5, <1>6, RightKeeps

\* The step does not mend what it does not compute.
LEMMA StepWrong ==
  ASSUME KvLoadAssumption, TypesOK, StepOK, phase = "execute",
         NEW Ok \in SUBSET Blocks, NEW b, b \notin Ok, ~Due(b)
  PROVE  b \notin Right(Ok)
<1>1. PICK n \in Nat : n = MaxLen
  BY DEF KvLoadAssumption
<1>2. PICK g : /\ g[0] = Ok /\ Right(Ok) = g[MaxLen]
               /\ \A p \in 1..MaxLen : g[p] = ComputeAt(g[p - 1], p)
  BY RightIs
<1>3. ASSUME NEW r \in Reqs, NEW p \in 1..n, computed[r] - tokens[r] < p, p <= computed[r]
      PROVE  table[r][p] # b
  <2>1. /\ computed[r] \in Nat /\ tokens[r] \in Nat /\ numTokens(r) \in Nat
        /\ Before(r) = computed[r] - tokens[r]
        /\ Running(r) <=> tokens[r] > 0
        /\ Running(r) => computed[r] = numTokens(r)
    BY ExecuteFacts
  <2>2. Running(r) /\ p \in 1..numTokens(r) /\ Before(r) < p
    BY <1>3, <2>1
  <2> QED
    BY <2>2 DEF Due
<1> DEFINE G == {p \in 0..n : b \notin g[p]}
<1>4. 0 \in G
  BY <1>2
<1>5. ASSUME NEW p \in 1..n, p - 1 \in G PROVE p \in G
  <2>1. PICK o \in 0..n : o = p - 1
    OBVIOUS
  <2>2. g[p] = ComputeAt(g[o], p) /\ b \notin g[o]
    BY <1>1, <1>2, <1>5, <2>1
  <2>3. b \notin ComputeAt(g[o], p)
    BY <1>3, <2>2 DEF ComputeAt
  <2> QED
    BY <2>2, <2>3
<1>6. 0..n \subseteq G
  <2> HIDE DEF G
  <2> QED
    BY <1>4, <1>5, Induction
<1>7. n \in G
  BY <1>6
<1> QED
  BY <1>1, <1>2, <1>7

\* What is right when the loads are over and before anything is computed.
Arrived(Inv, F) == {b \in Blocks : IF b \in loads \cap F THEN b \notin Inv ELSE kv[b]}

\* The output of a step, its parts named: a and y are what the two scans found,
\* E the requests in error, X those that end, F the blocks the worker is done
\* with, V the evicted ones and g those with the right KV.  The aborted requests A
\* are counted with those in error.
Outcome(Inv, D, A, a, y, E, X, F, V, g) ==
    /\ ScanOK(Inv, computed, Remote \ A, a)
    /\ ScanOK(Inv, a.computed, {r \in Reqs : Running(r)} \ A, y)
    /\ E = (IF Recompute THEN {} ELSE a.affected \cup y.affected) \cup A
    /\ X = Delivers(y.affected \cup A) \cup
           ({r \in D : status[r] = "zombie"} \cup (E \cap D) \cup {r \in E : ~Loading(r)})
    /\ V = IF Recompute THEN {} ELSE y.evict
    /\ F = IF AsyncLoads THEN UNION {ToSet(table[r]) : r \in D} ELSE Blocks
    /\ g = Right(Arrived(Inv, F))
    /\ phase = "execute" /\ phase' = "out" /\ Inv \subseteq loads /\ A \subseteq Abortable
    /\ D \subseteq {r \in Reqs \ recvd : status[r] \in {"remote", "zombie"}}
    /\ kv' = [b \in Blocks |-> b \in g]
    /\ loads' = loads \ (F \cup Inv)
    /\ wrong' = wrong \cup {r \in Delivers(y.affected \cup A) : ~(ToSet(table[r]) \subseteq g)}
    /\ abandoned' = abandoned \cup {r \in A : HasWrong(r, 0, g)}
    /\ hash' = [b \in Blocks |-> IF b \in V THEN NoHash ELSE hash[b]]
    /\ second' = second \ V
    /\ computed' = y.computed
    /\ table' = [r \in Reqs |-> IF r \in X THEN <<>> ELSE table[r]]
    /\ status' = [r \in Reqs |-> IF r \in X THEN "done"
                                 ELSE IF r \in E THEN "zombie" ELSE status[r]]
    /\ running' = remove_all(running, X)
    /\ recvd' = (recvd \cup (D \cap Remote)) \ E
    /\ failed' = (IF Recompute THEN failed \cup a.affected ELSE failed) \ A
    /\ tokens' = [r \in Reqs |-> 0]

\* update_from_output, in these names.
LEMMA UpdateIs ==
  ASSUME KvLoadAssumption, TypesOK, StepOK, TableOK, NEW Inv, NEW D, NEW A, Update(Inv, D, A)
  PROVE  \E a, y, E, X, F, V, g : Outcome(Inv, D, A, a, y, E, X, F, V, g)
<1>1. phase = "execute"
  BY DEF Update
<1>2. ScanTypes
  BY DEF ScanTypes, TypesOK, TypeOK
<1>3. Remote \subseteq Within
  <2> SUFFICES ASSUME NEW r \in Remote PROVE r \in Within
    OBVIOUS
  <2>1. r \in Reqs /\ status[r] = "remote"
    BY DEF Remote
  <2>2. tokens[r] = 0 /\ computed[r] <= Len(table[r]) /\ computed[r] \in Nat
    BY <2>1 DEF StepOK, TypesOK, TypeOK
  <2> QED
    BY <2>1, <2>2 DEF Within
<1>4. {r \in Reqs : Running(r)} \subseteq Within
  <2> SUFFICES ASSUME NEW r \in Reqs, Running(r) PROVE r \in Within
    OBVIOUS
  <2>1. Before(r) = computed[r] - tokens[r] /\ Before(r) \in Int /\ Before(r) < numTokens(r)
    BY <1>1, ExecuteFacts
  <2>2. Len(table[r]) = numTokens(r) /\ numTokens(r) \in Nat
    BY PromptFacts DEF TableOK
  <2>3. computed[r] - tokens[r] <= Len(table[r])
    BY <2>1, <2>2
  <2> QED
    BY <2>3 DEF Within
<1>5. PICK q : q = SetToSeq(Remote \ A)
  OBVIOUS
<1>6. q \in Seq(Within) /\ IsInjective(q) /\ ToSet(q) = Remote \ A
  <2>1. IsFiniteSet(Remote \ A)
    <3>1. Remote \ A \subseteq Reqs /\ IsFiniteSet(Reqs)
      BY DEF Remote, KvLoadAssumption
    <3> QED
      BY <3>1, FS_Subset
  <2>2. q \in Seq(Remote \ A) /\ IsInjective(q) /\ ToSet(q) = Remote \ A
    BY <1>5, <2>1, SetToSeqIs
  <2> QED
    BY <1>3, <2>2
<1>7. PICK u \in Seq(Within) : u = remove_all(running, A) /\ IsInjective(u) /\ ToSet(u) = {r \in Reqs : Running(r)} \ A
  <2>1. running \in Seq(Reqs) /\ IsInjective(running) /\ ToSet(running) = {r \in Reqs : Running(r)}
    BY DEF TypesOK, TypeOK, Running
  <2>2. PICK u : u = remove_all(running, A)
    OBVIOUS
  <2>3. u \in Seq(Reqs) /\ IsInjective(u) /\ ToSet(u) = ToSet(running) \ A
    BY <2>1, <2>2, RemoveAllIs
  <2>4. \A i \in 1..Len(u) : u[i] \in Within
    BY <1>4, <2>1, <2>3, SeqSet
  <2>5. u \in Seq(Within)
    <3>1. PICK n \in Nat : n = Len(u)
      BY <2>3
    <3>2. DOMAIN u = 1..n /\ u = [i \in 1..n |-> u[i]]
      BY <2>3, <3>1
    <3>3. u \in [1..n -> Within]
      BY <2>4, <3>1, <3>2
    <3> QED
      BY <3>3
  <2> QED
    BY <2>1, <2>2, <2>3, <2>5
<1>8. PICK a : a = Scan(Inv, computed, q)
  OBVIOUS
<1>9. ScanOK(Inv, computed, Remote \ A, a)
  <2>1. computed \in [Reqs -> Nat]
    BY DEF TypesOK, TypeOK
  <2>2. ScanOK(Inv, computed, ToSet(q), Scan(Inv, computed, q))
    BY <1>2, <1>6, <2>1, ScanFacts
  <2> QED
    BY <1>6, <1>8, <2>2
<1>10. PICK y : y = Scan(Inv, a.computed, u)
  OBVIOUS
<1>11. ScanOK(Inv, a.computed, {r \in Reqs : Running(r)} \ A, y)
  <2>1. a.computed \in [Reqs -> Nat]
    BY <1>9 DEF ScanOK, Accs
  <2>2. ScanOK(Inv, a.computed, ToSet(u), Scan(Inv, a.computed, u))
    BY <1>2, <1>7, <2>1, ScanFacts
  <2> QED
    BY <1>7, <1>10, <2>2
<1>12. PICK e : e = IF Recompute THEN {} ELSE a.affected \cup y.affected
  OBVIOUS
<1>13. PICK O : O = {r \in D : status[r] = "zombie"} \cup ((e \cup A) \cap D)
                    \cup {r \in e \cup A : ~Loading(r)}
  OBVIOUS
<1>14. PICK X : X = Delivers(y.affected \cup A) \cup O
  OBVIOUS
<1>15. PICK V : V = IF Recompute THEN {} ELSE y.evict
  OBVIOUS
<1>16. PICK F : F = IF AsyncLoads THEN UNION {ToSet(table[r]) : r \in D} ELSE Blocks
  OBVIOUS
<1>17. PICK g : g = Right({b \in Blocks : IF b \in loads \cap F THEN b \notin Inv ELSE kv[b]})
  OBVIOUS
<1>18. /\ phase = "execute" /\ phase' = "out" /\ Inv \subseteq loads /\ A \subseteq Abortable
       /\ D \subseteq {r \in Reqs \ recvd : status[r] \in {"remote", "zombie"}}
       /\ kv' = [b \in Blocks |-> b \in g]
       /\ loads' = loads \ (F \cup Inv)
       /\ wrong' = wrong \cup {r \in Delivers(y.affected \cup A) : ~(ToSet(table[r]) \subseteq g)}
       /\ abandoned' = abandoned \cup {r \in A : HasWrong(r, 0, g)}
       /\ hash' = [b \in Blocks |-> IF b \in V THEN NoHash ELSE hash[b]]
       /\ second' = second \ V
       /\ computed' = y.computed
       /\ table' = [r \in Reqs |-> IF r \in X THEN <<>> ELSE table[r]]
       /\ status' = [r \in Reqs |-> IF r \in X THEN "done"
                                    ELSE IF r \in e \cup A THEN "zombie" ELSE status[r]]
       /\ running' = remove_all(running, X)
       /\ recvd' = (recvd \cup (D \cap Remote)) \ (e \cup A)
       /\ failed' = (IF Recompute THEN failed \cup a.affected ELSE failed) \ A
       /\ tokens' = [r \in Reqs |-> 0]
  BY <1>5, <1>7, <1>8, <1>10, <1>12, <1>13, <1>14, <1>15, <1>16, <1>17, Zenon DEF Update
<1>19. Outcome(Inv, D, A, a, y, e \cup A, X, F, V, g)
  BY <1>9, <1>11, <1>12, <1>13, <1>14, <1>15, <1>16, <1>17, <1>18, Zenon DEF Outcome, Arrived
<1> QED
  BY <1>19

\* Where the requests are after the step: those that run are the ones to be
\* recomputed, at most where they were before the step; those set aside and not in
\* error stay so, with at most what they had; the waiting ones that are not aborted
\* stay as they are.
Settled(a, y, E) ==
    /\ a.affected \subseteq Remote /\ y.affected \subseteq {r \in Reqs : Running(r)}
    /\ \A r \in Reqs : status'[r] = "running" <=> Recompute /\ r \in y.affected
    /\ \A r \in Reqs : Recompute /\ r \in y.affected =>
          table'[r] = table[r] /\ computed'[r] = y.computed[r] /\ y.computed[r] <= Before(r)
    /\ \A r \in Reqs : status'[r] = "remote" <=> r \in Remote \ E
    /\ \A r \in Remote : computed'[r] = a.computed[r] /\ a.computed[r] <= computed[r]
    /\ \A r \in Remote \ E : table'[r] = table[r]
    /\ \A r \in Reqs : status'[r] = "waiting" <=> status[r] = "waiting" /\ r \notin E
    /\ \A r \in Reqs : status'[r] = "waiting" => table'[r] = table[r] /\ computed'[r] = computed[r]
    /\ \A r \in Reqs : table'[r] = table[r] \/ table'[r] = <<>>

\* The step leaves them there.
LEMMA UpdateSettles ==
  ASSUME KvLoadAssumption, TypesOK, StepOK,
         NEW Inv, NEW D, NEW A, NEW a, NEW y, NEW E, NEW X, NEW F, NEW V, NEW g, Outcome(Inv, D, A, a, y, E, X, F, V, g)
  PROVE  Settled(a, y, E)
<1>1. phase = "execute"
  BY DEF Outcome
<1>2. /\ a \in Accs /\ y \in Accs /\ a.affected \subseteq Remote \ A
      /\ y.affected \subseteq {r \in Reqs : Running(r)} \ A
  BY DEF Outcome, ScanOK
<1>3. \A r \in Reqs : tokens[r] > 0 <=> Running(r)
  BY <1>1, ExecuteFacts
<1>4. \A r : r \in Delivers(y.affected \cup A) <=> r \in Reqs /\ Running(r) /\ r \notin y.affected /\ r \notin A
  BY <1>3 DEF Delivers
<1>5. /\ E = (IF Recompute THEN {} ELSE a.affected \cup y.affected) \cup A
      /\ X = Delivers(y.affected \cup A) \cup
           ({r \in D : status[r] = "zombie"} \cup (E \cap D) \cup {r \in E : ~Loading(r)})
      /\ computed' = y.computed
      /\ table' = [r \in Reqs |-> IF r \in X THEN <<>> ELSE table[r]]
      /\ status' = [r \in Reqs |-> IF r \in X THEN "done"
                                   ELSE IF r \in E THEN "zombie" ELSE status[r]]
  BY DEF Outcome
<1>6. ASSUME NEW r \in Reqs
      PROVE  /\ r \in E <=> r \in A \/ (~Recompute /\ (r \in a.affected \/ r \in y.affected))
             /\ Running(r) => (r \in X <=> ~(Recompute /\ r \in y.affected))
             /\ r \in Remote => (r \in X => r \in E)
             /\ status[r] = "waiting" => (r \in X <=> r \in E)
  <2>1. r \in E <=> r \in A \/ (~Recompute /\ (r \in a.affected \/ r \in y.affected))
    BY <1>5
  <2>2. r \in X <=> \/ Running(r) /\ r \notin y.affected /\ r \notin A
                    \/ r \in D /\ status[r] = "zombie"
                    \/ r \in E /\ r \in D
                    \/ r \in E /\ ~Loading(r)
    BY <1>4, <1>5 DEF Running
  <2>3. r \in a.affected => status[r] = "remote"
    BY <1>2 DEF Remote
  <2>4. r \in y.affected => status[r] = "running" /\ r \notin A
    BY <1>2 DEF Running
  <2> QED
    BY <2>1, <2>2, <2>3, <2>4 DEF Remote, Running, Loading
<1>7. \A r \in Reqs : /\ status'[r] = IF r \in X THEN "done" ELSE IF r \in E THEN "zombie" ELSE status[r]
                      /\ table'[r] = IF r \in X THEN <<>> ELSE table[r]
  BY <1>5
<1>8. \A r \in Reqs : status'[r] = "running" <=> Recompute /\ r \in y.affected
  <2> TAKE r \in Reqs
  <2>1. status'[r] = "running" => status[r] = "running" /\ r \notin X
    BY <1>7
  <2>2. r \in y.affected => status[r] = "running" /\ r \notin A
    BY <1>2 DEF Running
  <2>3. Recompute /\ r \notin A => r \notin E
    BY <1>6
  <2>4. status[r] = "running" => (r \in X <=> ~(Recompute /\ r \in y.affected))
    BY <1>6 DEF Running
  <2> QED
    BY <1>7, <2>1, <2>2, <2>3, <2>4
<1>9. \A r \in Reqs : Recompute /\ r \in y.affected =>
          table'[r] = table[r] /\ computed'[r] = y.computed[r] /\ y.computed[r] <= Before(r)
  <2> TAKE r \in Reqs
  <2> HAVE Recompute /\ r \in y.affected
  <2>1. y.computed[r] <= computed[r] - tokens[r]
    BY DEF Outcome, ScanOK
  <2>2. y.computed[r] <= Before(r)
    BY <1>1, <2>1 DEF Before
  <2>3. r \notin X
    BY <1>2, <1>6
  <2> QED
    BY <1>5, <1>7, <2>2, <2>3
<1>10. \A r \in Reqs : status'[r] = "remote" <=> r \in Remote \ E
  BY <1>6, <1>7 DEF Remote
<1>11. \A r \in Remote : computed'[r] = a.computed[r] /\ a.computed[r] <= computed[r]
  <2> TAKE r \in Remote
  <2>1. r \in Reqs /\ status[r] = "remote" /\ ~Running(r)
    BY DEF Remote, Running
  <2>2. y.computed[r] = a.computed[r]
    BY <1>2, <2>1 DEF Outcome, ScanOK
  <2>3. tokens[r] = 0 /\ computed[r] \in Nat
    BY <1>1, <2>1, ExecuteFacts
  <2>4. a.computed[r] <= computed[r]
    <3>1. CASE r \in a.affected
      <4>1. a.computed[r] <= computed[r] - tokens[r]
        BY <3>1 DEF Outcome, ScanOK
      <4> QED
        BY <2>3, <4>1
    <3>2. CASE r \notin a.affected
      <4>1. a.computed[r] = computed[r]
        BY <2>1, <3>2 DEF Outcome, ScanOK
      <4> QED
        BY <2>3, <4>1
    <3> QED
      BY <3>1, <3>2
  <2> QED
    BY <1>5, <2>2, <2>4
<1>12. \A r \in Remote \ E : table'[r] = table[r]
  BY <1>6, <1>7 DEF Remote
<1>13. \A r \in Reqs : status'[r] = "waiting" <=> status[r] = "waiting" /\ r \notin E
  BY <1>6, <1>7
<1>14. ASSUME NEW r \in Reqs, status'[r] = "waiting" PROVE table'[r] = table[r] /\ computed'[r] = computed[r]
  <2>1. r \notin a.affected /\ r \notin y.affected
    BY <1>2, <1>13, <1>14 DEF Remote, Running
  <2>2. y.computed[r] = a.computed[r] /\ a.computed[r] = computed[r]
    BY <2>1 DEF Outcome, ScanOK
  <2> QED
    BY <1>5, <1>6, <1>7, <1>13, <1>14, <2>2
<1>15. \A r \in Reqs : table'[r] = table[r] \/ table'[r] = <<>>
  BY <1>7
<1> QED
  BY <1>2, <1>8, <1>9, <1>10, <1>11, <1>12, <1>13, <1>14, <1>15, Zenon DEF Settled

\* The types after the step.
LEMMA UpdateTypes ==
  ASSUME KvLoadAssumption, IInv, UNCHANGED conf,
         NEW Inv, NEW D, NEW A, NEW a, NEW y, NEW E, NEW X, NEW F, NEW V, NEW g, Outcome(Inv, D, A, a, y, E, X, F, V, g)
  PROVE  TypesOK'
<1>0. A \subseteq Reqs
  BY DEF Outcome, Abortable
<1>1. TypesOK /\ StepOK /\ OutOK
  BY DEF IInv
<1>2. Settled(a, y, E)
  BY <1>1, UpdateSettles
<1>3. a \in Accs /\ y \in Accs
  BY DEF Outcome, ScanOK
<1>4. X \subseteq Reqs /\ E \subseteq Reqs
  <2>1. a.affected \subseteq Reqs /\ y.affected \subseteq Reqs
    BY <1>3 DEF Accs
  <2>2. D \subseteq Reqs /\ Delivers(y.affected \cup A) \subseteq Reqs
    BY DEF Outcome, Delivers
  <2>3. E \subseteq Reqs
    BY <1>0, <2>1 DEF Outcome
  <2> QED
    BY <2>2, <2>3 DEF Outcome
<1>5. status' \in [Reqs -> {"waiting", "remote", "running", "zombie", "done"}]
  BY <1>1 DEF Outcome, TypesOK, TypeOK
<1>6. running' \in Seq(Reqs) /\ IsInjective(running') /\ ToSet(running') = ToSet(running) \ X
  <2>1. running' = remove_all(running, X) /\ running \in Seq(Reqs) /\ IsInjective(running)
    BY <1>1 DEF Outcome, TypesOK, TypeOK
  <2> QED
    BY <2>1, RemoveAllIs
<1>7. ToSet(running) \ X = {r \in Reqs : status'[r] = "running"}
  <2>1. ToSet(running) = {r \in Reqs : status[r] = "running"}
    BY <1>1 DEF TypesOK, TypeOK
  <2>2. \A r \in Reqs : status'[r] = IF r \in X THEN "done" ELSE IF r \in E THEN "zombie" ELSE status[r]
    BY DEF Outcome
  <2>3. \A r \in E : status[r] = "running" => r \in X
    BY DEF Outcome, Loading
  <2> QED
    BY <2>1, <2>2, <2>3
<1>8. table' \in [Reqs -> Seq(Blocks)]
  <2>1. \A r \in Reqs : table[r] \in Seq(Blocks)
    BY <1>1 DEF TypesOK, TypeOK
  <2>2. table' = [r \in Reqs |-> IF r \in X THEN <<>> ELSE table[r]]
    BY DEF Outcome
  <2> QED
    BY <2>1, <2>2
<1>9. computed' \in [Reqs -> Nat]
  BY <1>3 DEF Outcome, Accs
<1>10. hash' \in [Blocks -> Nat \cup {NoHash}]
  <2>1. \A b \in Blocks : hash[b] \in Nat \cup {NoHash}
    BY <1>1 DEF TypesOK, TypeOK
  <2>2. hash' = [b \in Blocks |-> IF b \in V THEN NoHash ELSE hash[b]]
    BY DEF Outcome
  <2> QED
    BY <2>1, <2>2
<1>11. kv' \in [Blocks -> BOOLEAN]
  BY DEF Outcome
<1>12. Remote' = Remote \ E
  BY <1>2 DEF Settled, Remote
<1>13. recvd' \subseteq Remote'
  <2>1. recvd \subseteq Remote
    BY <1>1 DEF TypesOK, TypeOK
  <2>2. recvd' = (recvd \cup (D \cap Remote)) \ E
    BY DEF Outcome
  <2> QED
    BY <1>12, <2>1, <2>2
<1>14. failed' \subseteq Remote'
  <2>1. failed \subseteq Remote /\ a.affected \subseteq Remote
    BY <1>1, <1>2 DEF TypesOK, TypeOK, Settled
  <2>2. CASE Recompute
    <3>1. E = A /\ failed' = (failed \cup a.affected) \ A
      BY <2>2 DEF Outcome
    <3> QED
      BY <1>12, <2>1, <3>1
  <2>3. CASE ~Recompute
    <3>1. failed' = {}
      BY <1>1, <2>3 DEF Outcome, OutOK
    <3> QED
      BY <3>1
  <2> QED
    BY <2>2, <2>3
<1>15. conf' \in Configs
  BY <1>1 DEF TypesOK, TypeOK
<1>16. TypeOK'
  BY <1>5, <1>6, <1>7, <1>8, <1>9, <1>10, <1>11, <1>13, <1>14, <1>15 DEF TypeOK
<1>17. tokens' \in [Reqs -> Nat] /\ phase' = "out"
  BY DEF Outcome
<1>18. second' \subseteq Blocks /\ loads' \subseteq Blocks
  BY <1>1 DEF Outcome, TypesOK
<1>19. wrong' \subseteq Reqs /\ abandoned' \subseteq Reqs
  BY <1>0, <1>1 DEF Outcome, TypesOK, Delivers
<1> QED
  BY <1>6, <1>16, <1>17, <1>18, <1>19 DEF TypesOK

\* What the requests count as computed after the step.
LEMMA UpdateStep ==
  ASSUME KvLoadAssumption, TypesOK, StepOK,
         NEW Inv, NEW D, NEW A, NEW a, NEW y, NEW E, NEW X, NEW F, NEW V, NEW g, Outcome(Inv, D, A, a, y, E, X, F, V, g)
  PROVE  StepOK'
<1>1. Settled(a, y, E)
  BY UpdateSettles
<1>2. phase = "execute" /\ phase' = "out" /\ \A r \in Reqs : tokens'[r] = 0
  BY DEF Outcome
<1>3. a \in Accs /\ y \in Accs
  BY DEF Outcome, ScanOK
<1>4. ASSUME NEW r \in Reqs, status'[r] = "running" PROVE computed'[r] < numTokens(r)
  <2>1. Running(r) /\ computed'[r] <= Before(r)
    BY <1>1, <1>4 DEF Settled
  <2>2. Before(r) \in Int /\ Before(r) < numTokens(r) /\ numTokens(r) \in Nat
    BY <1>2, <2>1, ExecuteFacts
  <2>3. computed'[r] \in Nat
    BY <1>3 DEF Outcome, Accs
  <2> QED
    BY <2>1, <2>2, <2>3
<1>5. ASSUME NEW r \in Reqs, status'[r] = "waiting" PROVE computed'[r] < numTokens(r) /\ computed'[r] <= Len(table'[r])
  <2>1. status[r] = "waiting" /\ computed'[r] = computed[r] /\ table'[r] = table[r]
    BY <1>1, <1>5 DEF Settled
  <2> QED
    BY <2>1 DEF StepOK
<1>6. ASSUME NEW r \in Reqs, status'[r] = "remote" PROVE computed'[r] <= Len(table'[r])
  <2>1. r \in Remote /\ computed'[r] <= computed[r] /\ table'[r] = table[r]
    BY <1>1, <1>6 DEF Settled
  <2>2. computed[r] <= Len(table[r])
    BY <2>1 DEF StepOK, Remote
  <2>3. computed[r] \in Nat /\ computed'[r] \in Nat /\ Len(table[r]) \in Nat
    BY <1>3 DEF Outcome, Accs, TypesOK, TypeOK
  <2> QED
    BY <2>1, <2>2, <2>3
<1> QED
  BY <1>2, <1>4, <1>5, <1>6 DEF StepOK, Running, numTokens

\* Asynchronous loads: no running request is hurt, nothing is evicted, and a
\* request whose load failed keeps nothing from the first failed block on.
LEMMA AsyncScan ==
  ASSUME KvLoadAssumption, IInv, AsyncLoads,
         NEW Inv, NEW D, NEW A, NEW a, NEW y, NEW E, NEW X, NEW F, NEW V, NEW g, Outcome(Inv, D, A, a, y, E, X, F, V, g)
  PROVE  /\ y.affected = {} /\ V = {}
         /\ \A r \in a.affected : \A i \in 1..computed[r] : table[r][i] \in Inv => a.computed[r] < i
         /\ \A r \in Remote \ A : \A i \in 1..computed[r] : table[r][i] \in Inv => r \in a.affected
<1>1. TypesOK /\ StepOK /\ TableOK /\ AsyncOK
  BY DEF IInv
<1>2. /\ phase = "execute" /\ Inv \subseteq loads /\ ScanOK(Inv, computed, Remote \ A, a)
      /\ ScanOK(Inv, a.computed, {r \in Reqs : Running(r)} \ A, y)
  BY DEF Outcome
<1>3. \A b \in Inv : ~Cached(b)
  BY <1>1, <1>2 DEF AsyncOK
<1>4. ASSUME NEW r \in Reqs, Running(r) PROVE Hurt(Inv, r) = {}
  <2>1. Before(r) = computed[r] - tokens[r] /\ Before(r) \in Int /\ Before(r) < numTokens(r) /\ numTokens(r) \in Nat
    BY <1>1, <1>2, <1>4, ExecuteFacts
  <2>2. \A i \in 1..numTokens(r) : Cached(table[r][i])
    BY <1>1, <1>4 DEF TableOK
  <2>3. \A i \in 1..Before(r) : i \in 1..numTokens(r)
    BY <2>1
  <2> QED
    BY <1>3, <2>1, <2>2, <2>3 DEF Hurt
<1>5. y.affected = {}
  BY <1>2, <1>4 DEF ScanOK
<1>6. V = {}
  BY <1>2, <1>5 DEF Outcome, ScanOK
<1>7. ASSUME NEW r \in Remote
      PROVE  /\ r \in Reqs /\ computed[r] \in Nat /\ Hurt(Inv, r) = {i \in 1..computed[r] : table[r][i] \in Inv}
             /\ \A i \in 1..computed[r] : i \in 1..Len(table[r])
  <2>1. r \in Reqs /\ status[r] = "remote" /\ ~Running(r)
    BY DEF Remote, Running
  <2>2. computed[r] \in Nat /\ tokens[r] = 0
    BY <1>1, <1>2, <2>1, ExecuteFacts
  <2>3. computed[r] <= Len(table[r]) /\ Len(table[r]) \in Nat
    BY <1>1, <2>1 DEF StepOK, TypesOK, TypeOK
  <2>4. computed[r] - tokens[r] = computed[r]
    BY <2>2
  <2> QED
    BY <2>1, <2>2, <2>3, <2>4 DEF Hurt
<1>8. a.affected = {r \in Remote \ A : Hurt(Inv, r) # {}} /\ a \in Accs
  BY <1>2 DEF ScanOK
<1>9. ASSUME NEW r \in a.affected, NEW i \in 1..computed[r], table[r][i] \in Inv PROVE a.computed[r] < i
  <2>1. r \in Remote /\ i \in Hurt(Inv, r) /\ i \in 1..Len(table[r])
    BY <1>7, <1>8, <1>9
  <2>2. ASSUME i <= a.computed[r] PROVE FALSE
    <3>0. \A x \in a.affected : \A k \in Hurt(Inv, x) : k <= a.computed[x] =>
            \E s \in a.affected : s # x /\ \E j \in Hurt(Inv, s) : table[s][j] = table[x][k]
      BY <1>2, Zenon DEF ScanOK
    <3>1. PICK s \in a.affected : s # r /\ \E j \in Hurt(Inv, s) : table[s][j] = table[r][i]
      BY <2>1, <2>2, <3>0
    <3>2. PICK j \in Hurt(Inv, s) : table[s][j] = table[r][i]
      BY <3>1
    <3>3. s \in Remote /\ s \in Reqs /\ r \in Reqs
      BY <1>8, <2>1 DEF Remote
    <3>4. j \in 1..Len(table[s])
      BY <1>7, <3>2, <3>3
    <3>5. ~Cached(table[r][i])
      BY <1>3, <1>9
    <3> QED
      BY <1>1, <2>1, <3>1, <3>2, <3>3, <3>4, <3>5 DEF TableOK
  <2>3. a.computed[r] \in Nat /\ i \in Nat
    <3>1. r \in Reqs /\ computed[r] \in Nat
      BY <1>7, <2>1
    <3> QED
      BY <1>8, <3>1 DEF Accs
  <2> QED
    BY <2>2, <2>3
<1>10. ASSUME NEW r \in Remote \ A, NEW i \in 1..computed[r], table[r][i] \in Inv PROVE r \in a.affected
  BY <1>7, <1>8, <1>10
<1> QED
  BY <1>5, <1>6, <1>9, <1>10

\* Asynchronous loads: what has arrived and what is cached is right after the step.
LEMMA AsyncGood ==
  ASSUME KvLoadAssumption, IInv, AsyncLoads,
         NEW Inv, NEW D, NEW A, NEW a, NEW y, NEW E, NEW X, NEW F, NEW V, NEW g, Outcome(Inv, D, A, a, y, E, X, F, V, g)
  PROVE  /\ Arrived(Inv, F) \subseteq g
         /\ \A b \in Blocks : Cached(b) => b \in g
<1>1. TypesOK /\ StepOK /\ TableOK /\ AsyncOK
  BY DEF IInv
<1>2. PICK Ok \in SUBSET Blocks : Ok = Arrived(Inv, F)
  BY DEF Arrived
<1>3. PICK U : U = Ok \cup {b \in Blocks : Due(b)}
  OBVIOUS
<1>4. \A b \in Blocks : Cached(b) => b \in U
  <2> TAKE b \in Blocks
  <2> HAVE Cached(b)
  <2>1. b \notin loads /\ (kv[b] \/ Due(b))
    BY <1>1 DEF AsyncOK
  <2> QED
    BY <1>2, <1>3, <2>1 DEF Arrived
<1>5. \A r \in Reqs : Running(r) => \A i \in 1..numTokens(r) : table[r][i] \in U
  <2> SUFFICES ASSUME NEW r \in Reqs, Running(r), NEW i \in 1..numTokens(r) PROVE table[r][i] \in U
    OBVIOUS
  <2>1. Cached(table[r][i]) /\ i \in 1..Len(table[r])
    BY <1>1 DEF TableOK
  <2>2. table[r][i] \in Blocks
    BY <1>1, <2>1 DEF TypesOK, TypeOK
  <2> QED
    BY <1>4, <2>1, <2>2
<1>6. Sustains(Ok, U)
  <2>1. \A b \in U : b \in Ok \/ Due(b)
    BY <1>3
  <2>2. ASSUME NEW r \in Reqs, Running(r), NEW p \in 1..numTokens(r), NEW q \in 1..(p - 1)
        PROVE  table[r][q] \in U
    <3>1. PICK n \in Nat : n = numTokens(r)
      BY PromptFacts
    <3>2. q \in 1..numTokens(r)
      BY <3>1
    <3> QED
      BY <1>5, <2>2, <3>2
  <2> QED
    BY <2>1, <2>2 DEF Sustains
<1>7. U \subseteq Right(Ok)
  BY <1>1, <1>6, StepRight DEF Outcome
<1>8. g = Right(Ok)
  BY <1>2 DEF Outcome
<1> QED
  BY <1>2, <1>3, <1>4, <1>7, <1>8

\* Asynchronous loads: the invariant's part about them after the step.
LEMMA UpdateAsync ==
  ASSUME KvLoadAssumption, IInv, UNCHANGED conf, AsyncLoads,
         NEW Inv, NEW D, NEW A, NEW a, NEW y, NEW E, NEW X, NEW F, NEW V, NEW g, Outcome(Inv, D, A, a, y, E, X, F, V, g)
  PROVE  AsyncOK' /\ wrong' = {}
<1>1. TypesOK /\ StepOK /\ TableOK /\ AsyncOK /\ OutOK
  BY DEF IInv
<1>2. Settled(a, y, E)
  BY <1>1, UpdateSettles
<1>3. /\ y.affected = {} /\ V = {}
      /\ \A r \in a.affected : \A i \in 1..computed[r] : table[r][i] \in Inv => a.computed[r] < i
      /\ \A r \in Remote \ A : \A i \in 1..computed[r] : table[r][i] \in Inv => r \in a.affected
  BY AsyncScan
<1>4. Arrived(Inv, F) \subseteq g /\ \A b \in Blocks : Cached(b) => b \in g
  BY AsyncGood
<1>5. /\ \A b \in Blocks : hash'[b] = hash[b]
      /\ \A b \in Blocks : kv'[b] <=> b \in g
      /\ loads' = loads \ (F \cup Inv) /\ phase' = "out" /\ phase = "execute"
      /\ F = UNION {ToSet(table[r]) : r \in D}
      /\ recvd' = (recvd \cup (D \cap Remote)) \ E
  BY <1>3 DEF Outcome
<1>6. \A r \in Reqs : status'[r] # "running"
  BY <1>2, <1>3 DEF Settled
<1>7. ASSUME NEW b \in loads'
      PROVE  hash'[b] = NoHash /\ \E r \in Reqs : status'[r] \in {"remote", "zombie"} /\ r \notin recvd'
                                                  /\ b \in ToSet(table'[r])
  <2>1. b \in loads /\ b \in Blocks /\ b \notin F /\ b \notin Inv
    BY <1>1, <1>5 DEF TypesOK
  <2>2. PICK r \in Reqs : status[r] \in {"remote", "zombie"} /\ r \notin recvd /\ b \in ToSet(table[r])
    BY <1>1, <2>1 DEF AsyncOK
  <2>3. hash'[b] = NoHash
    BY <1>1, <1>5, <2>1 DEF AsyncOK, Cached
  <2>4. r \notin D
    BY <1>5, <2>1, <2>2
  <2>5. r \notin X
    <3>1. r \notin Delivers(y.affected \cup A)
      <4>1. ~Running(r)
        BY <2>2 DEF Running
      <4>2. tokens[r] = 0
        BY <1>1, <1>5, <4>1, ExecuteFacts
      <4> QED
        BY <4>2 DEF Delivers
    <3>2. r \in E => Loading(r)
      <4>1. r \in A => status[r] # "zombie"
        BY DEF Outcome, Abortable
      <4>2. r \in a.affected => status[r] = "remote"
        BY <1>2 DEF Settled, Remote
      <4>3. r \in E => r \in A \/ r \in a.affected \/ r \in y.affected
        BY DEF Outcome
      <4> QED
        BY <1>3, <2>2, <4>1, <4>2, <4>3 DEF Loading
    <3> QED
      BY <2>2, <2>4, <3>1, <3>2 DEF Outcome
  <2>6. status'[r] \in {"remote", "zombie"} /\ table'[r] = table[r]
    <3>1. /\ status'[r] = IF r \in E THEN "zombie" ELSE status[r]
          /\ table'[r] = table[r]
      BY <2>5 DEF Outcome
    <3> QED
      BY <2>2, <3>1
  <2>7. r \notin recvd'
    BY <1>5, <2>2, <2>4
  <2> QED
    BY <2>2, <2>3, <2>6, <2>7
<1>8. ASSUME NEW r \in Reqs, status'[r] = "remote", NEW i \in 1..computed'[r]
      PROVE  \/ hash'[table'[r][i]] # NoHash \/ kv'[table'[r][i]]
             \/ (table'[r][i] \in loads' /\ r \notin recvd')
  <2>1. r \in Remote /\ r \notin E /\ computed'[r] = a.computed[r] /\ a.computed[r] <= computed[r] /\ table'[r] = table[r]
    BY <1>2, <1>8 DEF Settled
  <2>0. r \notin A
    BY <2>1 DEF Outcome
  <2>2. computed[r] \in Nat /\ a.computed[r] \in Nat /\ computed[r] <= Len(table[r]) /\ Len(table[r]) \in Nat
    <3>1. a.computed[r] \in Nat
      BY DEF Outcome, ScanOK, Accs
    <3> QED
      BY <1>1, <2>1, <3>1 DEF StepOK, TypesOK, TypeOK, Remote
  <2>3. i \in 1..computed[r] /\ i \in 1..Len(table[r]) /\ i <= a.computed[r]
    BY <2>1, <2>2
  <2>4. PICK b \in Blocks : b = table[r][i]
    BY <1>1, <2>3 DEF TypesOK, TypeOK
  <2>5. b \notin Inv
    <3>1. ASSUME b \in Inv PROVE FALSE
      <4>1. r \in a.affected
        BY <1>3, <2>0, <2>1, <2>3, <2>4, <3>1
      <4>2. a.computed[r] < i
        BY <1>3, <2>3, <2>4, <3>1, <4>1
      <4> QED
        BY <2>2, <2>3, <4>2
    <3> QED
      BY <3>1
  <2>6. Cached(b) \/ kv[b] \/ (b \in loads /\ r \notin recvd)
    <3>1. status[r] = "remote"
      BY <2>1 DEF Remote
    <3> QED
      BY <1>1, <2>3, <2>4, <3>1 DEF AsyncOK
  <2>7. CASE Cached(b)
    BY <1>5, <2>1, <2>4, <2>7 DEF Cached
  <2>8. CASE kv[b]
    <3>1. b \in Arrived(Inv, F)
      BY <2>5, <2>8 DEF Arrived
    <3> QED
      BY <1>4, <1>5, <2>1, <2>4, <3>1
  <2>9. CASE b \in loads /\ r \notin recvd
    <3>1. CASE b \in F
      <4>1. b \in Arrived(Inv, F)
        BY <2>5, <2>9, <3>1 DEF Arrived
      <4> QED
        BY <1>4, <1>5, <2>1, <2>4, <4>1
    <3>2. CASE b \notin F
      <4>1. b \in ToSet(table[r])
        <5>1. table[r] \in Seq(Blocks)
          BY <1>1 DEF TypesOK, TypeOK
        <5> QED
          BY <2>3, <2>4, <5>1, SeqSet
      <4>2. r \notin D
        BY <1>5, <3>2, <4>1
      <4> QED
        BY <1>5, <2>1, <2>4, <2>5, <2>9, <3>2, <4>2
    <3> QED
      BY <3>1, <3>2
  <2> QED
    BY <2>6, <2>7, <2>8, <2>9
<1>9. ASSUME NEW r \in Reqs, status'[r] = "waiting", NEW i \in 1..computed'[r]
      PROVE  hash'[table'[r][i]] # NoHash
  <2>1. status[r] = "waiting" /\ computed'[r] = computed[r] /\ table'[r] = table[r]
    BY <1>2, <1>9 DEF Settled
  <2>2. i \in 1..computed[r] /\ i \in 1..Len(table[r])
    BY <1>1, <2>1 DEF StepOK, TypesOK, TypeOK
  <2>3. PICK b \in Blocks : b = table[r][i]
    BY <1>1, <2>2 DEF TypesOK, TypeOK
  <2>4. Cached(b)
    BY <1>1, <2>1, <2>2, <2>3 DEF AsyncOK
  <2> QED
    BY <1>5, <2>1, <2>3, <2>4 DEF Cached
<1>10. ASSUME NEW b \in Blocks, hash'[b] # NoHash PROVE kv'[b]
  BY <1>4, <1>5, <1>10 DEF Cached
<1>11. AsyncOK'
  <2>1. \A b \in loads' : (~Cached(b))' /\
          \E r \in Reqs : status'[r] \in {"remote", "zombie"} /\ r \notin recvd' /\ b \in ToSet(table'[r])
    BY <1>7 DEF Cached
  <2> QED
    BY <1>6, <1>8, <1>9, <1>10, <2>1 DEF AsyncOK, Cached, Running
<1>12. wrong' = {}
  <2>1. wrong = {}
    BY <1>1 DEF OutOK
  <2>2. ASSUME NEW r \in Delivers(y.affected \cup A) PROVE ToSet(table[r]) \subseteq g
    <3>1. r \in Reqs /\ tokens[r] > 0
      BY DEF Delivers
    <3>2. Running(r)
      BY <1>1, <1>5, <3>1, ExecuteFacts
    <3>3. Len(table[r]) = numTokens(r) /\ \A i \in 1..numTokens(r) : Cached(table[r][i])
      BY <1>1, <3>1, <3>2 DEF TableOK
    <3>4. table[r] \in Seq(Blocks)
      BY <1>1, <3>1 DEF TypesOK, TypeOK
    <3>5. \A i \in 1..Len(table[r]) : table[r][i] \in g
      BY <1>4, <3>3, <3>4
    <3> QED
      BY <3>4, <3>5, SeqSet
  <2> QED
    BY <2>1, <2>2 DEF Outcome
<1> QED
  BY <1>11, <1>12

\* Synchronous loads: nobody is set aside, so the first scan finds nothing.
LEMMA SyncScan ==
  ASSUME KvLoadAssumption, IInv, ~AsyncLoads,
         NEW Inv, NEW D, NEW A, NEW a, NEW y, NEW E, NEW X, NEW F, NEW V, NEW g, Outcome(Inv, D, A, a, y, E, X, F, V, g)
  PROVE  Remote = {} /\ a.affected = {} /\ D = {} /\ F = Blocks
<1>1. \A r \in Reqs : status[r] \in {"waiting", "running", "done"}
  BY DEF IInv, SyncOK
<1>2. Remote = {}
  BY <1>1 DEF Remote
<1>3. a.affected = {}
  BY <1>2 DEF Outcome, ScanOK
<1>4. D = {}
  BY <1>1 DEF Outcome
<1> QED
  BY <1>2, <1>3, <1>4 DEF Outcome

\* The scan finds every request that has a block that failed to load and was not
\* aborted in the step: the block is among those to evict, and beyond what a
\* request found keeps.
LEMMA SyncMarked ==
  ASSUME KvLoadAssumption, IInv, ~AsyncLoads,
         NEW Inv, NEW D, NEW A, NEW a, NEW y, NEW E, NEW X, NEW F, NEW V, NEW g, Outcome(Inv, D, A, a, y, E, X, F, V, g),
         NEW b \in Inv, NEW r \in Reqs \ A, Running(r), NEW i \in 1..numTokens(r), table[r][i] = b
  PROVE  /\ r \in y.affected /\ b \in y.evict
         /\ \E s \in y.affected : \E j \in 1..numTokens(s) : y.computed[s] < j /\ table[s][j] = b
<1>1. TypesOK /\ StepOK /\ TableOK /\ SyncOK
  BY DEF IInv
<1>2. /\ phase = "execute" /\ Inv \subseteq loads
      /\ ScanOK(Inv, a.computed, {s \in Reqs : Running(s)} \ A, y)
  BY DEF Outcome
<1>3. ~Due(b)
  BY <1>1, <1>2 DEF SyncOK
<1>4. i <= Before(r)
  <2>1. Before(r) \in Int
    BY <1>1, <1>2, ExecuteFacts
  <2>2. ~(Before(r) < i)
    BY <1>3 DEF Due
  <2> QED
    BY <2>1, <2>2, PromptFacts
<1>5. i \in Hurt(Inv, r)
  <2>1. Before(r) = computed[r] - tokens[r] /\ Before(r) \in Int
    BY <1>1, <1>2, ExecuteFacts
  <2>2. i \in 1..(computed[r] - tokens[r])
    BY <1>4, <2>1
  <2> QED
    BY <2>2 DEF Hurt
<1>6. r \in y.affected
  BY <1>2, <1>5 DEF ScanOK
<1>7. b \in y.marked
  BY <1>2, <1>5, <1>6 DEF ScanOK
<1>8. b \in y.evict
  BY <1>2, <1>7 DEF ScanOK
<1>9. PICK s \in y.affected : \E j \in Hurt(Inv, s) : j > y.computed[s] /\ table[s][j] = b
  BY <1>2, <1>7 DEF ScanOK
<1>10. PICK j \in Hurt(Inv, s) : j > y.computed[s] /\ table[s][j] = b
  BY <1>9
<1>11. s \in Reqs /\ Running(s) /\ y.computed[s] \in Nat
  BY <1>2 DEF ScanOK, Accs
<1>12. j \in 1..numTokens(s) /\ y.computed[s] < j
  <2>1. Before(s) = computed[s] - tokens[s] /\ Before(s) \in Int /\ Before(s) < numTokens(s) /\ numTokens(s) \in Nat
    BY <1>1, <1>2, <1>11, ExecuteFacts
  <2>2. j \in 1..Before(s)
    BY <2>1 DEF Hurt
  <2> QED
    BY <1>10, <1>11, <2>1, <2>2
<1> QED
  BY <1>6, <1>8, <1>10, <1>12

\* A block that failed to load is wrong after the step; so a request that has it
\* and was aborted in the step is abandoned.
LEMMA SyncLost ==
  ASSUME KvLoadAssumption, IInv, ~AsyncLoads,
         NEW Inv, NEW D, NEW A, NEW a, NEW y, NEW E, NEW X, NEW F, NEW V, NEW g, Outcome(Inv, D, A, a, y, E, X, F, V, g),
         NEW b \in Inv, NEW r \in A, Running(r), NEW i \in 1..numTokens(r), table[r][i] = b
  PROVE  r \in abandoned'
<1>1. TypesOK /\ StepOK /\ TableOK /\ SyncOK
  BY DEF IInv
<1>2. r \in Reqs /\ phase = "execute" /\ b \in loads /\ g = Right(Arrived(Inv, F)) /\ F = Blocks
  BY SyncScan DEF Outcome, Abortable
<1>3. ~Due(b)
  BY <1>1, <1>2 DEF SyncOK
<1>4. PICK Ok \in SUBSET Blocks : Ok = Arrived(Inv, F)
  BY DEF Arrived
<1>5. b \notin Ok
  BY <1>1, <1>2, <1>4 DEF Arrived, TypesOK
<1>6. b \notin g
  BY <1>1, <1>2, <1>3, <1>4, <1>5, StepWrong
<1>7. i \in (0 + 1)..Len(table[r]) /\ hash[table[r][i]] # NoHash
  <2>1. Len(table[r]) = numTokens(r) /\ Cached(table[r][i])
    BY <1>1, <1>2 DEF TableOK
  <2> QED
    BY <2>1 DEF Cached
<1>8. HasWrong(r, 0, g)
  BY <1>6, <1>7 DEF HasWrong
<1> QED
  BY <1>8 DEF Outcome

\* The tables after the step: where something is evicted, no request has blocks.
LEMMA UpdateTable ==
  ASSUME KvLoadAssumption, IInv,
         NEW Inv, NEW D, NEW A, NEW a, NEW y, NEW E, NEW X, NEW F, NEW V, NEW g, Outcome(Inv, D, A, a, y, E, X, F, V, g)
  PROVE  TableOK'
<1>1. TypesOK /\ StepOK /\ TableOK /\ SyncOK
  BY DEF IInv
<1>2. Settled(a, y, E)
  BY <1>1, UpdateSettles
<1>3. \A b \in Blocks : hash'[b] = IF b \in V THEN NoHash ELSE hash[b]
  BY DEF Outcome
<1>4. IsInjective(<<>>) /\ Len(<<>>) = 0
  BY DEF IsInjective
<1>5. \A r \in Reqs : table'[r] = table[r] \/ table'[r] = <<>>
  BY <1>2 DEF Settled
<1>6. ASSUME NEW r \in Reqs, NEW i \in 1..Len(table'[r])
      PROVE table'[r] = table[r] /\ i \in 1..Len(table[r]) /\ table[r][i] \in Blocks
  BY <1>1, <1>4, <1>5 DEF TypesOK, TypeOK
<1>7. V = {} \/ \A r \in Reqs : table'[r] = <<>>
  <2>1. CASE Recompute
    BY <2>1 DEF Outcome
  <2>2. CASE AsyncLoads
    BY <2>2, AsyncScan
  <2>3. CASE ~Recompute /\ ~AsyncLoads
    <3> SUFFICES ASSUME NEW r \in Reqs PROVE table'[r] = <<>>
      OBVIOUS
    <3>1. status[r] \in {"waiting", "done"} => table[r] = <<>>
      BY <1>1, <2>3 DEF SyncOK
    <3>2. status[r] \in {"waiting", "running", "done"}
      BY <1>1, <2>3 DEF SyncOK
    <3>3. Running(r) => table'[r] = <<>>
      <4>1. Running(r) => tokens[r] > 0
        BY <1>1, ExecuteFacts DEF Outcome
      <4>2. Running(r) => r \in Delivers(y.affected \cup A) \/ r \in y.affected \/ r \in A
        BY <4>1 DEF Delivers
      <4>3. Running(r) => ~Loading(r)
        BY DEF Running, Loading
      <4>4. Running(r) => r \in X
        BY <2>3, <4>2, <4>3 DEF Outcome
      <4> QED
        BY <4>4 DEF Outcome
    <3> QED
      BY <1>5, <3>1, <3>2, <3>3 DEF Running
  <2> QED
    BY <2>1, <2>2, <2>3
<1>8. \A r \in Reqs : Len(table'[r]) <= numTokens(r) /\ IsInjective(table'[r])
  BY <1>1, <1>4, <1>5, PromptFacts DEF TableOK
<1>9. \A r \in Reqs : \A i \in 1..Len(table'[r]) :
        hash'[table'[r][i]] # NoHash => hash'[table'[r][i]] = PromptOf[r][i]
  <2> SUFFICES ASSUME NEW r \in Reqs, NEW i \in 1..Len(table'[r]), hash'[table'[r][i]] # NoHash
               PROVE  hash'[table'[r][i]] = PromptOf[r][i]
    OBVIOUS
  <2>1. table'[r] = table[r] /\ i \in 1..Len(table[r]) /\ table[r][i] \in Blocks
    BY <1>6
  <2>2. hash'[table[r][i]] = hash[table[r][i]] /\ Cached(table[r][i])
    BY <1>3, <2>1 DEF Cached
  <2> QED
    BY <1>1, <2>1, <2>2 DEF TableOK
<1>10. \A r, s \in Reqs : \A i \in 1..Len(table'[r]), j \in 1..Len(table'[s]) :
          table'[r][i] = table'[s][j] /\ hash'[table'[r][i]] = NoHash => r = s
  <2> SUFFICES ASSUME NEW r \in Reqs, NEW s \in Reqs, NEW i \in 1..Len(table'[r]), NEW j \in 1..Len(table'[s]),
                      table'[r][i] = table'[s][j], hash'[table'[r][i]] = NoHash
               PROVE  r = s
    OBVIOUS
  <2>1. /\ table'[r] = table[r] /\ i \in 1..Len(table[r]) /\ table[r][i] \in Blocks
        /\ table'[s] = table[s] /\ j \in 1..Len(table[s])
    BY <1>6
  <2>2. V = {}
    BY <1>4, <1>7
  <2>3. table[r][i] = table[s][j] /\ ~Cached(table[r][i])
    BY <1>3, <2>1, <2>2 DEF Cached
  <2> QED
    BY <1>1, <2>1, <2>3 DEF TableOK
<1>11. \A r \in Reqs : status'[r] = "running" =>
          Len(table'[r]) = numTokens(r) /\ \A i \in 1..numTokens(r) : hash'[table'[r][i]] # NoHash
  <2> SUFFICES ASSUME NEW r \in Reqs, status'[r] = "running"
               PROVE  Len(table'[r]) = numTokens(r) /\ \A i \in 1..numTokens(r) : hash'[table'[r][i]] # NoHash
    OBVIOUS
  <2>1. Recompute /\ Running(r) /\ table'[r] = table[r]
    BY <1>2 DEF Settled
  <2>2. Len(table[r]) = numTokens(r) /\ \A i \in 1..numTokens(r) : Cached(table[r][i])
    BY <1>1, <2>1 DEF TableOK
  <2>3. V = {}
    BY <2>1 DEF Outcome
  <2>4. \A i \in 1..numTokens(r) : table[r][i] \in Blocks
    BY <1>1, <2>2 DEF TypesOK, TypeOK
  <2> QED
    BY <1>3, <2>1, <2>2, <2>3, <2>4 DEF Cached
<1> QED
  BY <1>8, <1>9, <1>10, <1>11 DEF TableOK, Cached, Running, numTokens

\* Synchronous loads: the invariant's part about them after the step.
LEMMA UpdateSync ==
  ASSUME KvLoadAssumption, IInv, UNCHANGED conf, ~AsyncLoads,
         NEW Inv, NEW D, NEW A, NEW a, NEW y, NEW E, NEW X, NEW F, NEW V, NEW g, Outcome(Inv, D, A, a, y, E, X, F, V, g)
  PROVE  SyncOK'
<1>1. TypesOK /\ StepOK /\ SyncOK
  BY DEF IInv
<1>2. Settled(a, y, E)
  BY <1>1, UpdateSettles
<1>3. Remote = {} /\ a.affected = {} /\ D = {} /\ F = Blocks
  BY SyncScan
<1>4. loads' = {}
  BY <1>1, <1>3 DEF Outcome, TypesOK
<1>5. ASSUME NEW r \in Reqs
      PROVE  status'[r] \in {"waiting", "running", "done"} /\ (status'[r] = "done" => table'[r] = <<>>)
  <2>1. /\ status'[r] = IF r \in X THEN "done" ELSE IF r \in E THEN "zombie" ELSE status[r]
        /\ table'[r] = IF r \in X THEN <<>> ELSE table[r]
    BY DEF Outcome
  <2>2. r \in E => r \in X
    <3>1. ~Loading(r)
      BY <1>3 DEF Loading, Remote
    <3> QED
      BY <3>1 DEF Outcome
  <2>3. status[r] \in {"waiting", "running", "done"} /\ (status[r] = "done" => table[r] = <<>>)
    BY <1>1 DEF SyncOK
  <2> QED
    BY <2>1, <2>2, <2>3
<1>6. \A r \in Reqs : status'[r] = "waiting" => table'[r] = <<>> /\ computed'[r] = 0
  BY <1>1, <1>2 DEF Settled, SyncOK
<1>7. ~Recompute => \A r \in Reqs : status'[r] # "running"
  BY <1>2 DEF Settled
<1>8. Recompute' <=> Recompute
  BY SameConf
<1> QED
  BY <1>4, <1>5, <1>6, <1>7, <1>8 DEF SyncOK, Running

\* Synchronous loads, recomputed when they fail, and nobody abandoned: what is cached
\* and not owed by a request that runs again is right after the step, and so is
\* all that an unhurt request has.  A hurt request and an unhurt one that compute
\* the same block have the same blocks before it.
LEMMA SyncGood ==
  ASSUME KvLoadAssumption, IInv, ~AsyncLoads, Recompute, abandoned' = {},
         NEW Inv, NEW D, NEW A, NEW a, NEW y, NEW E, NEW X, NEW F, NEW V, NEW g, Outcome(Inv, D, A, a, y, E, X, F, V, g)
  PROVE  /\ \A b \in Blocks : Cached(b) =>
              b \in g \/ \E s \in y.affected : \E j \in 1..numTokens(s) : y.computed[s] < j /\ table[s][j] = b
         /\ \A r \in Delivers(y.affected \cup A) : ToSet(table[r]) \subseteq g
<1>1. TypesOK /\ StepOK /\ TableOK /\ SyncOK /\ FirstOK
  BY DEF IInv
<1>2. /\ phase = "execute" /\ ScanOK(Inv, a.computed, {r \in Reqs : Running(r)} \ A, y) /\ F = Blocks
      /\ Inv \subseteq loads /\ abandoned = {}
  BY SyncScan DEF Outcome
<1> DEFINE Owed(b) == \E s \in y.affected : \E j \in 1..numTokens(s) : y.computed[s] < j /\ table[s][j] = b
           Unhurt(r) == r \in Reqs /\ Running(r) /\ r \notin y.affected
           Kept(b) == \E r \in Reqs : Unhurt(r) /\ \E i \in 1..numTokens(r) : table[r][i] = b
<1>3. PICK Ok \in SUBSET Blocks : Ok = Arrived(Inv, F)
  BY DEF Arrived
<1>4. PICK U : U = {b \in Blocks : Cached(b) /\ (Kept(b) \/ ~Owed(b))}
  OBVIOUS
<1>5. ASSUME NEW r \in Reqs, Running(r), NEW i \in 1..numTokens(r)
      PROVE  table[r][i] \in Blocks /\ Cached(table[r][i]) /\ i \in 1..Len(table[r])
  <2>1. Cached(table[r][i]) /\ i \in 1..Len(table[r])
    BY <1>1, <1>5 DEF TableOK
  <2> QED
    BY <1>1, <2>1 DEF TypesOK, TypeOK
<1>6. ASSUME NEW r \in Reqs, Running(r), r \in y.affected, NEW p \in 1..numTokens(r), Before(r) < p
      PROVE  Owed(table[r][p])
  <2>1. y.computed[r] <= computed[r] - tokens[r] /\ y.computed[r] \in Nat
    BY <1>2, <1>6 DEF ScanOK, Accs
  <2>2. Before(r) = computed[r] - tokens[r] /\ Before(r) \in Int
    BY <1>1, <1>2, <1>6, ExecuteFacts
  <2>3. y.computed[r] < p
    BY <1>6, <2>1, <2>2
  <2> QED
    BY <1>6, <2>3
<1>7. ASSUME NEW b \in Inv PROVE Owed(b) /\ ~Kept(b)
  <2>1. ASSUME NEW r \in Reqs, Running(r), NEW i \in 1..numTokens(r), table[r][i] = b
        PROVE  Owed(b) /\ r \in y.affected
    <3>1. r \notin A
      BY <2>1, SyncLost
    <3> QED
      BY <2>1, <3>1, SyncMarked
  <2>2. PICK r \in Reqs : Running(r) /\ \E i \in 1..numTokens(r) : i <= Before(r) /\ table[r][i] = b
    BY <1>1, <1>2 DEF SyncOK
  <2> QED
    BY <2>1, <2>2
<1>8. \A b \in U : b \in Ok \/ Due(b)
  <2> TAKE b \in U
  <2>1. b \in Blocks /\ Cached(b) /\ b \notin Inv
    BY <1>4, <1>7
  <2>2. kv[b] \/ b \in loads \/ Due(b)
    BY <1>1, <1>2, <2>1 DEF FirstOK
  <2> QED
    BY <1>2, <1>3, <2>1, <2>2 DEF Arrived
<1>9. ASSUME NEW r \in Reqs, Running(r), NEW p \in 1..numTokens(r), Before(r) < p, table[r][p] \in U, NEW q \in 1..(p - 1)
      PROVE  table[r][q] \in U
  <2>1. q \in 1..numTokens(r) /\ q \in 1..p /\ q < p
    <3>1. PICK n \in Nat : n = numTokens(r)
      BY PromptFacts
    <3> QED
      BY <3>1
  <2>2. table[r][q] \in Blocks /\ Cached(table[r][q])
    BY <1>5, <1>9, <2>1
  <2>3. Kept(table[r][q])
    <3>1. CASE r \notin y.affected
      BY <1>9, <2>1, <3>1
    <3>2. CASE r \in y.affected
      <4>1. Kept(table[r][p])
        BY <1>4, <1>6, <1>9, <3>2
      <4>2. PICK s \in Reqs : Unhurt(s) /\ \E i \in 1..numTokens(s) : table[s][i] = table[r][p]
        BY <4>1
      <4>3. PICK i \in 1..numTokens(s) : table[s][i] = table[r][p]
        BY <4>2
      <4>4. p = i /\ \A k \in 1..p : hash[table[r][k]] = hash[table[s][k]]
        BY <1>1, <1>9, <4>2, <4>3, SamePosition
      <4>5. q \in 1..numTokens(s) /\ q < numTokens(s) /\ q < numTokens(r)
        <5>1. PICK n \in Nat, m \in Nat : n = numTokens(r) /\ m = numTokens(s)
          BY PromptFacts
        <5> QED
          BY <2>1, <4>3, <4>4, <5>1
      <4>6. table[s][q] \in Blocks
        BY <1>5, <4>2, <4>5
      <4>7. table[r][q] \notin second /\ table[s][q] \notin second
        BY <1>1, <1>2, <1>9, <2>1, <4>2, <4>5 DEF FirstOK
      <4>8. hash[table[r][q]] = hash[table[s][q]]
        BY <2>1, <4>4
      <4>9. table[r][q] = table[s][q]
        BY <1>1, <1>2, <2>2, <4>6, <4>7, <4>8 DEF FirstOK
      <4> QED
        BY <4>2, <4>5, <4>9
    <3> QED
      BY <3>1, <3>2
  <2> QED
    BY <1>4, <2>2, <2>3
<1>10. Sustains(Ok, U)
  <2> HIDE DEF Owed, Kept, Unhurt
  <2> QED
    BY <1>8, <1>9 DEF Sustains
<1>11. U \subseteq g
  <2>1. U \subseteq Right(Ok)
    BY <1>1, <1>2, <1>10, StepRight
  <2> QED
    BY <1>3, <2>1 DEF Outcome
<1>12. ASSUME NEW r \in Delivers(y.affected \cup A) PROVE ToSet(table[r]) \subseteq g
  <2>1. r \in Reqs /\ tokens[r] > 0 /\ r \notin y.affected
    BY DEF Delivers
  <2>2. Running(r)
    BY <1>1, <1>2, <2>1, ExecuteFacts
  <2>3. Len(table[r]) = numTokens(r) /\ table[r] \in Seq(Blocks)
    BY <1>1, <2>1, <2>2 DEF TableOK, TypesOK, TypeOK
  <2>4. ASSUME NEW i \in 1..numTokens(r) PROVE table[r][i] \in U
    <3>1. table[r][i] \in Blocks /\ Cached(table[r][i])
      BY <1>5, <2>1, <2>2
    <3>2. Kept(table[r][i])
      BY <2>1, <2>2
    <3> QED
      BY <1>4, <3>1, <3>2
  <2>5. \A i \in 1..Len(table[r]) : table[r][i] \in g
    BY <1>11, <2>3, <2>4
  <2> QED
    BY <2>3, <2>5, SeqSet
<1>13. \A b \in Blocks : Cached(b) => b \in g \/ Owed(b)
  <2> HIDE DEF Owed, Kept
  <2> QED
    BY <1>4, <1>11
<1> QED
  BY <1>12, <1>13

\* The invariant's part about first blocks, and about the output, after the step.
LEMMA UpdateFirst ==
  ASSUME KvLoadAssumption, IInv, UNCHANGED conf,
         NEW Inv, NEW D, NEW A, NEW a, NEW y, NEW E, NEW X, NEW F, NEW V, NEW g, Outcome(Inv, D, A, a, y, E, X, F, V, g),
         ~AsyncLoads, Recompute, abandoned' = {}
  PROVE  FirstOK' /\ wrong' = {}
<1>1. TypesOK /\ StepOK /\ TableOK /\ FirstOK /\ OutOK
  BY DEF IInv
<1>2. Settled(a, y, E)
  BY <1>1, UpdateSettles
<1>3. /\ \A b \in Blocks : Cached(b) =>
           b \in g \/ \E s \in y.affected : \E j \in 1..numTokens(s) : y.computed[s] < j /\ table[s][j] = b
      /\ \A r \in Delivers(y.affected \cup A) : ToSet(table[r]) \subseteq g
  BY SyncGood
<1>4. /\ \A b \in Blocks : hash'[b] = hash[b]
      /\ \A b \in Blocks : kv'[b] <=> b \in g
      /\ second' = second /\ phase' = "out" /\ abandoned = {}
  <2>1. V = {}
    BY DEF Outcome
  <2> QED
    BY <2>1 DEF Outcome
<1>5. ASSUME NEW s \in y.affected
      PROVE  s \in Reqs /\ status'[s] = "running" /\ computed'[s] = y.computed[s] /\ table'[s] = table[s] /\ Running(s)
  BY <1>2 DEF Settled
<1>6. ASSUME NEW b \in Blocks, hash'[b] # NoHash PROVE kv'[b] \/ Due(b)'
  <2>1. Cached(b)
    BY <1>4, <1>6 DEF Cached
  <2>2. CASE b \in g
    BY <1>4, <2>2
  <2>3. CASE \E s \in y.affected : \E j \in 1..numTokens(s) : y.computed[s] < j /\ table[s][j] = b
    <3>1. PICK s \in y.affected : \E j \in 1..numTokens(s) : y.computed[s] < j /\ table[s][j] = b
      BY <2>3
    <3>2. PICK j \in 1..numTokens(s) : y.computed[s] < j /\ table[s][j] = b
      BY <3>1
    <3>3. Before(s)' = computed'[s]
      BY <1>4 DEF Before
    <3>4. s \in Reqs /\ Running(s)' /\ Before(s)' < j /\ table'[s][j] = b
      BY <1>5, <3>2, <3>3 DEF Running
    <3> QED
      BY <3>4 DEF Due, numTokens
  <2> QED
    BY <1>3, <2>1, <2>2, <2>3
<1>7. \A b, c \in Blocks \ second' : hash'[b] # NoHash /\ hash'[b] = hash'[c] => b = c
  BY <1>1, <1>4 DEF FirstOK, Cached
<1>8. ASSUME NEW r \in Reqs, status'[r] = "running", NEW i \in 1..numTokens(r), i < numTokens(r)
      PROVE  table'[r][i] \notin second'
  <2>1. Running(r) /\ table'[r] = table[r]
    BY <1>2, <1>8 DEF Settled
  <2> QED
    BY <1>1, <1>4, <1>8, <2>1 DEF FirstOK
<1>9. FirstOK'
  <2>1. \A b \in Blocks : Cached(b)' => kv'[b] \/ Due(b)'
    BY <1>6 DEF Cached
  <2>2. \A b, c \in Blocks \ second' : Cached(b)' /\ hash'[b] = hash'[c] => b = c
    BY <1>7 DEF Cached
  <2>3. \A r \in Reqs : Running(r)' => \A i \in 1..numTokens(r) : i < numTokens(r) => table'[r][i] \notin second'
    BY <1>8 DEF Running
  <2> QED
    BY <2>1, <2>2, <2>3 DEF FirstOK, numTokens
<1>10. wrong' = {}
  <2>1. wrong = {}
    BY <1>1, <1>4 DEF OutOK
  <2> QED
    BY <1>3, <2>1 DEF Outcome
<1> QED
  BY <1>9, <1>10

\* update_from_output keeps the invariant.
LEMMA UpdateInv ==
  ASSUME KvLoadAssumption, IInv, UNCHANGED conf, NEW Inv, NEW D, NEW A, Update(Inv, D, A)
  PROVE  IInv'
<1>1. TypesOK /\ StepOK /\ TableOK /\ OutOK
  BY DEF IInv
<1>2. PICK a, y, E, X, F, V, g : Outcome(Inv, D, A, a, y, E, X, F, V, g)
  BY <1>1, UpdateIs
<1>3. Settled(a, y, E)
  BY <1>1, <1>2, UpdateSettles
<1>4. (Recompute' <=> Recompute) /\ (AsyncLoads' <=> AsyncLoads)
  BY SameConf
<1>5. TypesOK' /\ StepOK' /\ TableOK'
  BY <1>1, <1>2, UpdateTypes, UpdateStep, UpdateTable
<1>6. AsyncOK'
  <2>1. CASE AsyncLoads
    BY <1>2, <2>1, UpdateAsync
  <2>2. CASE ~AsyncLoads
    BY <1>4, <2>2 DEF AsyncOK
  <2> QED
    BY <2>1, <2>2
<1>7. SyncOK'
  <2>1. CASE AsyncLoads
    BY <1>4, <2>1 DEF SyncOK
  <2>2. CASE ~AsyncLoads
    BY <1>2, <2>2, UpdateSync
  <2> QED
    BY <2>1, <2>2
<1>8. FirstOK'
  <2>1. CASE ~AsyncLoads /\ Recompute /\ abandoned' = {}
    BY <1>2, <2>1, UpdateFirst
  <2>2. CASE ~(~AsyncLoads /\ Recompute /\ abandoned' = {})
    BY <1>4, <2>2 DEF FirstOK
  <2> QED
    BY <2>1, <2>2
<1>9. OutOK'
  <2>1. AsyncLoads \/ (Recompute /\ abandoned' = {}) => wrong' = {}
    BY <1>2, UpdateAsync, UpdateFirst
  <2>2. ~Recompute => failed' = {}
    BY <1>1, <1>2 DEF OutOK, Outcome
  <2>3. ASSUME NEW r \in failed' PROVE computed'[r] < numTokens(r)
    <3>1. r \in failed \/ r \in a.affected
      BY <1>2 DEF Outcome
    <3>2. r \in Remote /\ r \in Reqs
      BY <1>1, <1>3, <3>1 DEF TypesOK, TypeOK, Settled, Remote
    <3>3. /\ computed'[r] = a.computed[r] /\ a.computed[r] <= computed[r]
          /\ computed'[r] \in Nat /\ computed[r] \in Nat /\ numTokens(r) \in Nat
      BY <1>1, <1>2, <1>3, <1>5, <3>2, PromptFacts DEF Settled, TypesOK, TypeOK
    <3>4. CASE r \in failed
      <4>1. computed[r] < numTokens(r)
        BY <1>1, <3>4 DEF OutOK
      <4> QED
        BY <3>3, <4>1
    <3>5. CASE r \in a.affected
      <4>1. AsyncLoads
        BY <1>2, <3>5, SyncScan
      <4>2. Hurt(Inv, r) # {} /\ phase = "execute"
        BY <1>2, <3>5 DEF Outcome, ScanOK
      <4>3. tokens[r] = 0
        BY <1>1, <3>2, <4>2, ExecuteFacts DEF Remote, Running
      <4>4. computed[r] - tokens[r] = computed[r]
        BY <3>3, <4>3
      <4>5. PICK i \in 1..computed[r] : table[r][i] \in Inv
        BY <4>2, <4>4 DEF Hurt
      <4>6. a.computed[r] < i
        BY <1>2, <3>5, <4>1, <4>5, AsyncScan
      <4>7. computed[r] <= Len(table[r]) /\ Len(table[r]) <= numTokens(r) /\ Len(table[r]) \in Nat
        BY <1>1, <3>2 DEF StepOK, TableOK, TypesOK, TypeOK, Remote
      <4> QED
        BY <3>3, <4>6, <4>7
    <3> QED
      BY <3>1, <3>4, <3>5
  <2> QED
    BY <1>4, <2>1, <2>2, <2>3 DEF OutOK, numTokens
<1> QED
  BY <1>5, <1>6, <1>7, <1>8, <1>9 DEF IInv

\* Every step keeps the invariant.
LEMMA StepInv ==
  ASSUME KvLoadAssumption, IInv, [Next]_vars
  PROVE  IInv'
<1>1. CASE UNCHANGED vars
  <2>1. UNCHANGED <<conf, status, running, table, computed, recvd, failed, hash, second, kv, phase, tokens, loads, wrong, abandoned>>
    BY <1>1 DEF vars, requests
  <2>2. \A r : Running(r) <=> Running(r)'
    BY <2>1 DEF Running
  <2>3. \A r : Before(r)' = Before(r)
    BY <2>1 DEF Before
  <2>4. \A b : Cached(b) <=> Cached(b)'
    BY <2>1 DEF Cached
  <2>5. \A b : Due(b) <=> Due(b)'
    BY <2>1, <2>2, <2>3 DEF Due, numTokens
  <2>6. (Recompute' <=> Recompute) /\ (AsyncLoads' <=> AsyncLoads)
    BY <2>1, SameConf
  <2>7. TypesOK'
    BY <2>1 DEF IInv, TypesOK, TypeOK, Remote
  <2>8. StepOK'
    BY <2>1, <2>2, <2>3 DEF IInv, StepOK, numTokens
  <2>9. TableOK'
    BY <2>1, <2>2, <2>4 DEF IInv, TableOK, numTokens
  <2>10. AsyncOK'
    BY <2>1, <2>2, <2>4, <2>5, <2>6 DEF IInv, AsyncOK
  <2>11. SyncOK'
    BY <2>1, <2>2, <2>3, <2>5, <2>6 DEF IInv, SyncOK, numTokens
  <2>12. FirstOK'
    BY <2>1, <2>2, <2>4, <2>5, <2>6 DEF IInv, FirstOK, numTokens
  <2>13. OutOK'
    BY <2>1, <2>6 DEF IInv, OutOK, numTokens
  <2> QED
    BY <2>7, <2>8, <2>9, <2>10, <2>11, <2>12, <2>13 DEF IInv
<1>2. CASE Next
  <2>1. Step /\ UNCHANGED conf
    BY <1>2 DEF Next
  <2>2. \A t \in Tables : t \in Seq(Blocks)
    BY DEF Tables
  <2>3. ASSUME NEW gone, BeginSchedule(gone) PROVE IInv'
    BY <2>1, <2>3, BeginInv
  <2>4. CASE EndSchedule
    BY <2>1, <2>4, EndInv
  <2>5. ASSUME NEW r \in Reqs, NEW hit \in Tables, NEW new \in Tables, AdmitRemote(r, hit, new)
        PROVE  IInv'
    BY <2>1, <2>2, <2>5, RemoteInv
  <2>6. ASSUME NEW r \in Reqs, NEW hit \in Tables, NEW new \in Tables, NEW ext \in 0..(numTokens(r) - 1),
               ScheduleWaiting(r, hit, new, ext)
        PROVE  IInv'
    <3>1. ext \in Nat
      BY PromptFacts
    <3> QED
      BY <2>1, <2>2, <2>6, <3>1, WaitingInv
  <2>7. ASSUME NEW r \in Reqs, NEW new \in Tables, ScheduleLoaded(r, new)
        PROVE  IInv'
    BY <2>1, <2>2, <2>7, LoadedInv
  <2>8. ASSUME NEW r \in Reqs, Promote(r) PROVE IInv'
    BY <2>1, <2>8, PromoteInv
  <2>9. ASSUME NEW r \in Reqs, Abort(r) PROVE IInv'
    BY <2>1, <2>9, AbortInv
  <2>10. ASSUME NEW Inv \in SUBSET loads, NEW D \in SUBSET Reqs, NEW A \in SUBSET Abortable, Update(Inv, D, A)
         PROVE  IInv'
    BY <2>1, <2>10, UpdateInv
  <2>11. ASSUME NEW b \in Blocks, TakenByOthers(b) PROVE IInv'
    BY <2>1, <2>11, OthersInv
  <2> QED
    BY <2>1, <2>3, <2>4, <2>5, <2>6, <2>7, <2>8, <2>9, <2>10, <2>11 DEF Step
<1> QED
  BY <1>1, <1>2

-----------------------------------------------------------------------------
(***************************************************************************)
(* The theorems.                                                           *)
(***************************************************************************)
\* The inductive invariant holds in every state the scheduler can be in, whatever
\* the settings, the prompts and the number of blocks.
THEOREM Invariance == Spec => []IInv
<1>1. Init => IInv
  BY KvLoadAssumption, InitInv
<1>2. IInv /\ [Next]_vars => IInv'
  BY KvLoadAssumption, StepInv
<1> QED
  BY <1>1, <1>2, PTL DEF Spec

\* The scheduler's books have their types, and only requests set aside are
\* reported received or failed.
THEOREM TypeCorrect == Spec => []TypeOK
<1>1. IInv => TypeOK
  BY DEF IInv, TypesOK
<1> QED
  BY <1>1, Invariance, PTL

\* Asynchronous loads: _update_waiting_for_remote_kv and update_from_output never
\* leave a block in the prefix cache without the right KV, under either policy,
\* although loads fail and clients abort.
THEOREM CacheRightHolds == Spec => []CacheRight
<1>1. IInv => CacheRight
  <2> SUFFICES ASSUME IInv, AsyncLoads, phase = "out", NEW b \in Blocks, hash[b] # NoHash PROVE kv[b]
    BY DEF CacheRight, OffersRight
  <2>1. \A r \in Reqs : ~Running(r)
    BY DEF IInv, AsyncOK
  <2>2. kv[b] \/ Due(b)
    BY DEF IInv, AsyncOK, Cached
  <2> QED
    BY <2>1, <2>2 DEF Due
<1> QED
  BY <1>1, Invariance, PTL

\* update_from_output delivers no token computed from KV that failed to load, if
\* loads are asynchronous, or until a request is preempted or aborted that had
\* still to compute a cached block again: the requests it delivers for, and what
\* they share with those it sends back, have the right KV.
THEOREM OutputsRightHolds == Spec => []OutputsRight
<1>1. IInv => OutputsRight
  BY DEF IInv, OutOK, OutputsRight
<1> QED
  BY <1>1, Invariance, PTL

\* _update_requests_with_invalid_blocks leaves failed blocks in the prefix cache
\* under the recompute policy.  As long as nobody was preempted or aborted that had
\* still to compute one of them, a running request has each beyond its computed
\* tokens.
THEOREM WrongIsOwedHolds == Spec => []WrongIsOwed
<1>1. IInv => WrongIsOwed
  <2> SUFFICES ASSUME IInv, abandoned = {}, Recompute, ~AsyncLoads, phase = "out", NEW b \in Blocks,
                      hash[b] # NoHash, ~kv[b]
               PROVE  \E r \in ToSet(running) : \E i \in DOMAIN table[r] : table[r][i] = b /\ i > computed[r]
    BY DEF WrongIsOwed, WillBeRecomputed
  <2>1. TypesOK /\ TableOK /\ SyncOK /\ FirstOK
    BY DEF IInv
  <2>2. loads = {}
    BY <2>1 DEF SyncOK
  <2>3. Due(b)
    BY <2>1, <2>2 DEF FirstOK, Cached
  <2>4. PICK r \in Reqs : Running(r) /\ \E i \in 1..numTokens(r) : Before(r) < i /\ table[r][i] = b
    BY <2>3 DEF Due
  <2>5. PICK i \in 1..numTokens(r) : Before(r) < i /\ table[r][i] = b
    BY <2>4
  <2>6. r \in ToSet(running) /\ Before(r) = computed[r] /\ computed[r] \in Nat
    BY <2>1, <2>4 DEF TypesOK, TypeOK, Running, Before
  <2>7. i \in DOMAIN table[r]
    <3>1. Len(table[r]) = numTokens(r) /\ table[r] \in Seq(Blocks)
      BY <2>1, <2>4 DEF TableOK, TypesOK, TypeOK
    <3> QED
      BY <3>1
  <2>8. i > computed[r]
    BY <2>5, <2>6, PromptFacts, KvLoadAssumption
  <2> QED
    BY <2>5, <2>6, <2>7, <2>8
<1> QED
  BY <1>1, Invariance, PTL

\* _evict_blocks under the fail policy: a block whose load failed is out of the
\* prefix cache when the step's output has been handled, if a request that has it
\* was not aborted while the step ran.
THEOREM FailedLoadEvictedHolds == Spec => FailedLoadEvicted
<1>1. ASSUME IInv, [Next]_vars
      PROVE  [~Recompute /\ phase = "execute" /\ phase' = "out"
                => \A r \in Reqs \ abandoned' : \A b \in loads \cap ToSet(table[r]) :
                      ~kv'[b] => hash'[b] = NoHash]_vars
  <2> SUFFICES ASSUME Next, ~Recompute, phase = "execute", phase' = "out", NEW r \in Reqs \ abandoned',
                      NEW b \in loads \cap ToSet(table[r]), ~kv'[b]
               PROVE  hash'[b] = NoHash
    BY <1>1
  <2>1. TypesOK /\ StepOK /\ TableOK /\ AsyncOK /\ SyncOK
    BY <1>1 DEF IInv
  <2>2. PICK Inv \in SUBSET loads, D \in SUBSET Reqs, A \in SUBSET Abortable : Update(Inv, D, A)
    BY DEF Next, Step, BeginSchedule, TakenByOthers, EndSchedule, AdmitRemote, Admit, ScheduleWaiting,
           ScheduleLoaded, Promote, Abort
  <2>3. PICK a, y, E, X, F, V, g : Outcome(Inv, D, A, a, y, E, X, F, V, g)
    BY <2>1, <2>2, UpdateIs, KvLoadAssumption
  <2>4. b \in Blocks /\ b \notin g /\ hash'[b] = (IF b \in V THEN NoHash ELSE hash[b])
    BY <2>1, <2>3 DEF Outcome, TypesOK
  <2>5. CASE AsyncLoads
    BY <2>1, <2>4, <2>5 DEF AsyncOK, Cached
  <2>6. CASE ~AsyncLoads /\ b \in Inv
    <3>1. table[r] \in Seq(Blocks)
      BY <2>1 DEF TypesOK, TypeOK
    <3>2. PICK i \in 1..Len(table[r]) : table[r][i] = b
      BY <3>1, SeqSet
    <3>3. Running(r)
      <4>1. table[r] # <<>>
        BY <3>2
      <4> QED
        BY <2>1, <2>6, <4>1 DEF SyncOK, Running
    <3>4. i \in 1..numTokens(r)
      BY <2>1, <3>2, <3>3 DEF TableOK
    <3>5. r \notin A
      BY <1>1, <2>3, <2>6, <3>2, <3>3, <3>4, SyncLost, KvLoadAssumption
    <3>6. b \in y.evict
      BY <1>1, <2>3, <2>6, <3>2, <3>3, <3>4, <3>5, SyncMarked, KvLoadAssumption
    <3>7. V = y.evict
      BY <2>3 DEF Outcome
    <3> QED
      BY <2>4, <3>6, <3>7
  <2>7. CASE ~AsyncLoads /\ b \notin Inv
    <3>1. F = Blocks /\ g = Right(Arrived(Inv, F))
      BY <1>1, <2>3, <2>7, SyncScan, KvLoadAssumption DEF Outcome
    <3>2. PICK Ok \in SUBSET Blocks : Ok = Arrived(Inv, F)
      BY DEF Arrived
    <3>3. b \in Ok
      BY <2>4, <2>7, <3>1, <3>2 DEF Arrived
    <3>4. ~Due(b)
      BY <2>1, <2>7 DEF SyncOK
    <3>5. Sustains(Ok, {b})
      BY <3>3, <3>4 DEF Sustains, Due
    <3>6. {b} \subseteq Right(Ok)
      BY <2>1, <3>5, StepRight, KvLoadAssumption
    <3> QED
      BY <2>4, <3>1, <3>2, <3>6
  <2> QED
    BY <2>5, <2>6, <2>7
<1> QED
  BY <1>1, Invariance, PTL DEF Spec, FailedLoadEvicted
=============================================================================
