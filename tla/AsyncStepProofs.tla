--------------------------- MODULE AsyncStepProofs ---------------------------
(***************************************************************************)
(* Proofs about AsyncStep, for every prompt, token limit, number of drafts *)
(* and of pipeline stages, and any number of preemptions: the counters of  *)
(* the asynchronous scheduler are exact, and its output is in order.       *)
(***************************************************************************)
EXTENDS AsyncStep, SequenceTheorems, WellFoundedInduction, TLAPS

-----------------------------------------------------------------------------
(***************************************************************************)
(* Induction over the numbers up to n, and sums of sequences.              *)
(***************************************************************************)
\* A set of numbers has a smallest one.
LEMMA Smallest ==
    ASSUME NEW T, T \subseteq Nat, T # {}
    PROVE  \E n \in T : \A m \in T : n <= m
<1>1. PICK x \in T : \A y \in T : ~(<<y, x>> \in OpToRel(<, Nat))
  BY NatLessThanWellFounded, WFMin
<1>2. \A y \in T : ~(<<y, x>> \in {ss \in Nat \X Nat : ss[1] < ss[2]})
  BY <1>1 DEF OpToRel
<1>3. \A y \in T : ~(y < x)
  <2> SUFFICES ASSUME NEW y \in T, y < x PROVE FALSE
    OBVIOUS
  <2>1. <<y, x>> \in Nat \X Nat /\ <<y, x>>[1] = y /\ <<y, x>>[2] = x
    OBVIOUS
  <2> QED
    BY <1>2, <2>1
<1> QED
  BY <1>3

\* What holds of 0 and is handed on from i - 1 to i holds up to n.
LEMMA Induction ==
  ASSUME NEW n \in Nat, NEW G, 0 \in G,
         \A i \in 1..n : i - 1 \in G => i \in G
  PROVE  0..n \subseteq G
<1> DEFINE T == (0..n) \ G
<1>1. T \subseteq Nat
  OBVIOUS
<1>2. ASSUME T # {} PROVE FALSE
  <2> HIDE DEF T
  <2>1. PICK m \in T : \A k \in T : m <= k
    BY <1>1, <1>2, Smallest
  <2>2. m \in 0..n /\ m \notin G
    BY DEF T
  <2>3. m # 0
    BY <2>2
  <2>4. m \in 1..n /\ m - 1 \in 0..n /\ ~(m <= m - 1)
    BY <2>2, <2>3
  <2>5. m - 1 \in G
    BY <2>1, <2>4 DEF T
  <2> QED
    BY <2>2, <2>4, <2>5
<1> QED
  BY <1>2

\* h[i] is the sum of the first i elements of q.
IsTotal(n, q, h) == h[0] = 0 /\ \A i \in 1..n : h[i] = h[i - 1] + q[i]

\* Two running sums of the same sequence end in the same number.
LEMMA TotalUnique ==
  ASSUME NEW n \in Nat, NEW q, NEW g, NEW h, IsTotal(n, q, g), IsTotal(n, q, h)
  PROVE  g[n] = h[n]
<1> DEFINE G == {i \in 0..n : g[i] = h[i]}
<1>1. 0 \in G
  BY DEF IsTotal
<1>2. ASSUME NEW i \in 1..n, i - 1 \in G PROVE i \in G
  BY <1>2 DEF IsTotal
<1> HIDE DEF G
<1>3. 0..n \subseteq G
  BY <1>1, <1>2, Induction
<1> QED
  BY <1>3 DEF G

\* Every sequence of numbers has a running sum.
LEMMA TotalExists ==
  ASSUME NEW n \in Nat, NEW q, \A i \in 1..n : q[i] \in Nat
  PROVE  \E h \in [0..n -> Nat] : IsTotal(n, q, h)
<1> DEFINE G == {m \in 0..n : \E h \in [0..m -> Nat] : IsTotal(m, q, h)}
<1>1. 0 \in G
  <2>1. PICK h : h = [i \in 0..0 |-> 0]
    OBVIOUS
  <2>2. h \in [0..0 -> Nat] /\ IsTotal(0, q, h)
    BY <2>1 DEF IsTotal
  <2> QED
    BY <2>2
<1>2. ASSUME NEW i \in 1..n, i - 1 \in G PROVE i \in G
  <2>1. PICK h \in [0..(i - 1) -> Nat] : IsTotal(i - 1, q, h)
    BY <1>2
  <2>2. PICK f : f = [j \in 0..i |-> IF j = i THEN h[i - 1] + q[i] ELSE h[j]]
    OBVIOUS
  <2>3. q[i] \in Nat /\ h[i - 1] \in Nat
    BY <2>1
  <2>4. f \in [0..i -> Nat]
    BY <2>1, <2>2, <2>3
  <2>5. f[0] = 0
    BY <2>1, <2>2 DEF IsTotal
  <2>6. ASSUME NEW j \in 1..i PROVE f[j] = f[j - 1] + q[j]
    <3>1. CASE j = i
      BY <2>2, <3>1
    <3>2. CASE j # i
      <4>1. j \in 1..(i - 1)
        BY <3>2
      <4> QED
        BY <2>1, <2>2, <4>1 DEF IsTotal
    <3> QED
      BY <3>1, <3>2
  <2>7. IsTotal(i, q, f) /\ i \in 0..n
    BY <2>5, <2>6 DEF IsTotal
  <2> QED
    BY <2>4, <2>7
<1> HIDE DEF G
<1>3. 0..n \subseteq G
  BY <1>1, <1>2, Induction
<1>4. n \in 0..n
  OBVIOUS
<1> QED
  BY <1>3, <1>4 DEF G

\* Total is where a running sum ends.
LEMMA TotalOf ==
  ASSUME NEW q, Len(q) \in Nat, \A i \in 1..Len(q) : q[i] \in Nat,
         NEW h, IsTotal(Len(q), q, h)
  PROVE  Total(q) = h[Len(q)]
<1>1. PICK n \in Nat : n = Len(q)
  OBVIOUS
<1> DEFINE Rec(f) == f = [i \in 0..n |-> IF i = 0 THEN 0 ELSE f[i - 1] + q[i]]
           g == CHOOSE f : Rec(f)
<1>2. Total(q) = g[n]
  BY <1>1, Zenon DEF Total
<1>3. \E f : Rec(f)
  <2>1. PICK f : f = [i \in 0..n |-> h[i]]
    OBVIOUS
  <2>2. ASSUME NEW i \in 0..n
        PROVE  f[i] = IF i = 0 THEN 0 ELSE f[i - 1] + q[i]
    <3>1. CASE i = 0
      BY <1>1, <2>1, <3>1 DEF IsTotal
    <3>2. CASE i # 0
      <4>1. i \in 1..n /\ i - 1 \in 0..n
        BY <3>2
      <4>2. h[i] = h[i - 1] + q[i]
        BY <1>1, <4>1 DEF IsTotal
      <4> QED
        BY <2>1, <3>2, <4>1, <4>2
    <3> QED
      BY <3>1, <3>2
  <2>3. f = [i \in 0..n |-> f[i]]
    BY <2>1
  <2> QED
    BY <2>2, <2>3
<1>4. Rec(g)
  BY <1>3
<1> HIDE DEF g
<1>5. IsTotal(n, q, g)
  <2>1. g[0] = 0
    BY <1>4
  <2>2. ASSUME NEW i \in 1..n PROVE g[i] = g[i - 1] + q[i]
    BY <1>4
  <2> QED
    BY <2>1, <2>2 DEF IsTotal
<1> QED
  BY <1>1, <1>2, <1>5, TotalUnique

\* The running sum that Total ends.
LEMMA TotalNat ==
  ASSUME NEW q, Len(q) \in Nat, \A i \in 1..Len(q) : q[i] \in Nat
  PROVE  \E h \in [0..Len(q) -> Nat] :
            IsTotal(Len(q), q, h) /\ Total(q) = h[Len(q)] /\ Total(q) \in Nat
<1>1. PICK h \in [0..Len(q) -> Nat] : IsTotal(Len(q), q, h)
  BY TotalExists
<1>2. Total(q) = h[Len(q)]
  BY <1>1, TotalOf
<1>3. PICK n \in Nat : n = Len(q)
  OBVIOUS
<1>4. h \in [0..n -> Nat]
  BY <1>3
<1>5. h[n] \in Nat
  BY <1>4
<1> QED
  BY <1>1, <1>2, <1>3, <1>5

\* A sum of zeros.
LEMMA TotalZero ==
  ASSUME NEW q, Len(q) \in Nat, \A i \in 1..Len(q) : q[i] = 0
  PROVE  Total(q) = 0
<1>1. PICK n \in Nat : n = Len(q)
  OBVIOUS
<1>2. PICK h : h = [i \in 0..n |-> 0]
  OBVIOUS
<1>3. \A i \in 1..n : i - 1 \in 0..n /\ i \in 0..n /\ q[i] = 0
  BY <1>1
<1>4. IsTotal(n, q, h)
  BY <1>2, <1>3 DEF IsTotal
<1>5. h[n] = 0
  BY <1>2
<1> QED
  BY <1>1, <1>4, <1>5, TotalOf

\* A sequence with one more element at its end.
LEMMA TotalAppend ==
  ASSUME NEW q, NEW p, NEW x \in Nat,
         Len(q) \in Nat, \A i \in 1..Len(q) : q[i] \in Nat,
         Len(p) = Len(q) + 1, p[Len(q) + 1] = x,
         \A i \in 1..Len(q) : p[i] = q[i]
  PROVE  Total(p) = Total(q) + x
<1>1. PICK n \in Nat : n = Len(q)
  OBVIOUS
<1>2. /\ \A i \in 1..n : q[i] \in Nat /\ p[i] = q[i]
      /\ p[n + 1] = x /\ Len(p) = n + 1
  BY <1>1
<1>3. PICK h \in [0..n -> Nat] : IsTotal(n, q, h) /\ Total(q) = h[n]
  BY <1>1, TotalNat
<1>4. PICK f : f = [i \in 0..(n + 1) |-> IF i = n + 1 THEN h[n] + x ELSE h[i]]
  OBVIOUS
<1>5. f[0] = 0
  BY <1>3, <1>4 DEF IsTotal
<1>6. ASSUME NEW i \in 1..(n + 1) PROVE f[i] = f[i - 1] + p[i]
  <2>1. CASE i = n + 1
    BY <1>2, <1>4, <2>1
  <2>2. CASE i # n + 1
    <3>1. i \in 1..n /\ i - 1 \in 0..(n + 1) /\ i - 1 # n + 1
      BY <2>2
    <3>2. h[i] = h[i - 1] + q[i] /\ p[i] = q[i]
      BY <1>2, <1>3, <3>1 DEF IsTotal
    <3> QED
      BY <1>4, <2>2, <3>1, <3>2
  <2> QED
    BY <2>1, <2>2
<1>7. IsTotal(n + 1, p, f)
  BY <1>5, <1>6 DEF IsTotal
<1>8. f[n + 1] = h[n] + x
  BY <1>4
<1>9. \A i \in 1..(n + 1) : p[i] \in Nat
  BY <1>2
<1>10. n + 1 \in Nat
  OBVIOUS
<1> QED
  BY <1>2, <1>3, <1>7, <1>8, <1>9, <1>10, TotalOf

\* A sequence without its first element.
LEMMA TotalTail ==
  ASSUME NEW q, NEW p,
         Len(q) \in Nat, Len(q) >= 1, \A i \in 1..Len(q) : q[i] \in Nat,
         Len(p) = Len(q) - 1, \A i \in 1..(Len(q) - 1) : p[i] = q[i + 1]
  PROVE  Total(p) = Total(q) - q[1]
<1>1. PICK n \in Nat : n = Len(q) - 1
  OBVIOUS
<1>2. /\ Len(q) = n + 1 /\ Len(p) = n
      /\ \A i \in 1..n : p[i] = q[i + 1]
      /\ \A i \in 1..(n + 1) : q[i] \in Nat
  BY <1>1
<1>3. \A i \in 1..n : p[i] \in Nat
  BY <1>2
<1>4. PICK h \in [0..n -> Nat] : IsTotal(n, p, h) /\ Total(p) = h[n]
  BY <1>2, <1>3, TotalNat
<1>5. PICK f : f = [i \in 0..(n + 1) |-> IF i = 0 THEN 0 ELSE h[i - 1] + q[1]]
  OBVIOUS
<1>6. f[0] = 0
  BY <1>5
<1>7. q[1] \in Nat /\ h[n] \in Nat
  BY <1>2, <1>4
<1>8. ASSUME NEW i \in 1..(n + 1) PROVE f[i] = f[i - 1] + q[i]
  <2>1. CASE i = 1
    <3>1. f[1] = h[0] + q[1] /\ f[1 - 1] = 0 /\ h[0] = 0
      BY <1>4, <1>5 DEF IsTotal
    <3> QED
      BY <1>7, <2>1, <3>1
  <2>2. CASE i # 1
    <3>1. i - 1 \in 1..n /\ i - 1 \in 0..(n + 1) /\ i - 1 # 0 /\ i # 0
      BY <2>2
    <3>2. h[i - 1] = h[(i - 1) - 1] + p[i - 1] /\ p[i - 1] = q[(i - 1) + 1]
      BY <1>2, <1>4, <3>1 DEF IsTotal
    <3>3. (i - 1) + 1 = i /\ f[i] = h[i - 1] + q[1] /\ f[i - 1] = h[(i - 1) - 1] + q[1]
      BY <1>5, <3>1
    <3>4. (i - 1) - 1 \in 0..n
      BY <3>1
    <3>5. q[i] \in Nat /\ h[(i - 1) - 1] \in Nat
      BY <1>2, <1>4, <3>4
    <3> QED
      BY <1>7, <3>2, <3>3, <3>5
  <2> QED
    BY <2>1, <2>2
<1>9. IsTotal(n + 1, q, f)
  BY <1>6, <1>8 DEF IsTotal
<1>10. f[n + 1] = h[n] + q[1] /\ n + 1 \in Nat
  BY <1>5
<1>11. Total(q) = h[n] + q[1]
  BY <1>2, <1>9, <1>10, TotalOf
<1> QED
  BY <1>4, <1>7, <1>11

\* No term is larger than the sum.
LEMMA TotalTerm ==
  ASSUME NEW q, Len(q) \in Nat, \A j \in 1..Len(q) : q[j] \in Nat,
         NEW i \in 1..Len(q)
  PROVE  q[i] <= Total(q)
<1>1. PICK n \in Nat : n = Len(q)
  OBVIOUS
<1>2. i \in 1..n /\ \A j \in 1..n : q[j] \in Nat
  BY <1>1
<1>3. PICK h \in [0..n -> Nat] : IsTotal(n, q, h) /\ Total(q) = h[n]
  BY <1>1, TotalNat
<1> DEFINE G == {j \in 0..n : j >= i => q[i] <= h[j]}
<1>4. 0 \in G
  BY <1>2
<1>5. ASSUME NEW j \in 1..n, j - 1 \in G PROVE j \in G
  <2>1. h[j] = h[j - 1] + q[j] /\ j - 1 \in 0..n
    BY <1>3 DEF IsTotal
  <2>2. h[j - 1] \in Nat /\ q[j] \in Nat /\ q[i] \in Nat
    BY <1>2, <1>3, <2>1
  <2>3. CASE j = i
    BY <2>1, <2>2, <2>3
  <2>4. CASE j # i
    <3>1. PICK x \in Nat, y \in Nat, z \in Nat : x = h[j - 1] /\ y = q[j] /\ z = q[i]
      BY <2>2
    <3>2. j - 1 >= i => z <= x
      BY <1>5, <3>1
    <3>3. j >= i => j - 1 >= i
      BY <1>2, <2>4
    <3>4. j >= i => z <= x + y
      BY <3>1, <3>2, <3>3
    <3> QED
      BY <2>1, <3>1, <3>4
  <2> QED
    BY <2>3, <2>4
<1> HIDE DEF G
<1>6. 0..n \subseteq G
  BY <1>4, <1>5, Induction
<1>7. n \in 0..n /\ n >= i
  BY <1>2
<1> QED
  BY <1>3, <1>6, <1>7 DEF G

-----------------------------------------------------------------------------
(***************************************************************************)
(* The inductive invariant.                                                *)
(***************************************************************************)
\* The request is in the i-th step of the batch queue.
InStep(i) == flight[i].n > 0

\* Its output will not be dropped, unless the request finishes first.
Live(i) == InStep(i) /\ (flight[i].run = preempts \/ ~drop)

\* Only a step with the request samples, only one that samples has drafts.
StepsInv == \A i \in DOMAIN flight :
    /\ flight[i].samples => InStep(i)
    /\ ~flight[i].samples => flight[i].d = 0
    /\ flight[i].d <= NumSpec
    /\ InStep(i) => flight[i].run <= preempts

\* The runs of the worker do not overlap.
RunsInv == \A i, j \in DOMAIN flight :
    i < j /\ InStep(i) /\ InStep(j) => flight[i].run <= flight[j].run

\* A request that does not run has nothing in flight but stale output.
IdleInv ==
    /\ status = "waiting" => preempts = 0
    /\ status \in {"waiting", "preempted"} =>
          /\ computed = 0 /\ placeholders = 0 /\ spec = 0
          /\ \A i \in DOMAIN flight : InStep(i) => flight[i].run < preempts

TokensOf == [i \in DOMAIN flight |-> flight[i].n]
StaleOf  == [i \in DOMAIN flight |->
                IF flight[i].run # preempts THEN flight[i].n ELSE 0]
FreshOf  == [i \in DOMAIN flight |->
                IF flight[i].run = preempts /\ flight[i].samples
                  THEN 1 + flight[i].d ELSE 0]

\* CountersExact, of which the first two parts outlive the request.
CountInv ==
    /\ inFlight = Total(TokensOf)
    /\ stale = Total(StaleOf)
    /\ status # "finished" => placeholders = Total(FreshOf)

\* A request resumes over stale output only if that is dropped, and then the
\* first step of its new run is still in flight.
DropInv == status = "running" =>
    \A i \in DOMAIN flight : InStep(i) /\ flight[i].run < preempts =>
        /\ drop
        /\ \E j \in DOMAIN flight :
              InStep(j) /\ flight[j].run = preempts

\* Live steps are of one run, whose first step is the first of them.
FirstInv == \A i, j \in DOMAIN flight :
    i < j /\ Live(i) /\ Live(j) => ~flight[j].first

\* The first live step goes on where the output ends.
ChainInv == status # "finished" =>
    \A i \in DOMAIN flight :
        Live(i) /\ (\A j \in DOMAIN flight : j < i => ~Live(j)) =>
            \/ flight[i].first /\ flight[i].base = numTokens
            \/ /\ ~flight[i].first /\ wpos = numTokens
               /\ \A j \in DOMAIN flight : j < i => ~InStep(j)

\* So does the worker when nothing is in flight.
RestInv == status = "running" /\ (\A i \in DOMAIN flight : ~InStep(i)) =>
    wpos = numTokens

\* What is in flight is of no older run than what was delivered.
OutInv == \A t \in DOMAIN out :
    /\ out[t].run <= preempts
    /\ \A i \in DOMAIN flight : InStep(i) => out[t].run <= flight[i].run

BudgetInv == status # "finished" => numTokens < Prompt + MaxTokens

\* gap counts no step more than were queued since the last decode.
GapInv == \A i \in DOMAIN flight :
    flight[i].samples => gap <= Len(flight) - i + 1

\* At most one decode is followed by another step in flight, and without
\* drafts that decode does not bring the last token.
LastInv == status # "finished" => \A i, j \in DOMAIN flight :
    i < j /\ Live(i) /\ Live(j) /\ flight[i].samples =>
       /\ \A h \in DOMAIN flight : h < i /\ Live(h) => ~flight[h].samples
       /\ NumSpec = 0 => numTokens + 1 < Prompt + MaxTokens

StepInv == StepsInv /\ RunsInv /\ IdleInv /\ DropInv /\ spec <= NumSpec
OrderInv == FirstInv /\ ChainInv /\ RestInv /\ OutInv /\ InOrder
EndInv == BudgetInv /\ GapInv /\ LastInv /\ NoOverschedule

IInv == TypeOK /\ StepInv /\ CountInv /\ KVInPlace /\ OrderInv /\ EndInv

-----------------------------------------------------------------------------
(***************************************************************************)
(* The settings, and what a step of the queue looks like.                  *)
(***************************************************************************)
\* The types of the settings.
LEMMA ConfFacts ==
    ASSUME conf \in Configs
    PROVE  NumSpec \in Nat /\ PP \in Nat /\ PP >= 1 /\ Producer \in BOOLEAN
<1>1. conf \in [spec : Nat, pp : Nat \ {0}, producer : BOOLEAN]
  BY AsyncAssumption
<1> QED
  BY <1>1 DEF NumSpec, PP, Producer

\* The types of the fields of a step.
LEMMA FlightFacts ==
    ASSUME TypeOK
    PROVE  /\ Len(flight) \in Nat /\ DOMAIN flight = 1..Len(flight)
           /\ \A i \in 1..Len(flight) :
                 /\ flight[i] \in StepType
                 /\ flight[i].n \in Nat /\ flight[i].d \in Nat
                 /\ flight[i].run \in Nat /\ flight[i].base \in Nat
                 /\ flight[i].samples \in BOOLEAN /\ flight[i].first \in BOOLEAN
<1>1. flight \in Seq(StepType)
  BY DEF TypeOK
<1>2. /\ Len(flight) \in Nat /\ DOMAIN flight = 1..Len(flight)
      /\ \A i \in 1..Len(flight) : flight[i] \in StepType
  BY <1>1, LenProperties, ElementOfSeq
<1>3. \A s \in StepType :
         /\ s.n \in Nat /\ s.d \in Nat /\ s.run \in Nat /\ s.base \in Nat
         /\ s.samples \in BOOLEAN /\ s.first \in BOOLEAN
  BY DEF StepType
<1> QED
  BY <1>2, <1>3

\* A batch is queued.
LEMMA FlightAppend ==
    ASSUME TypeOK, NEW s \in StepType, flight' = Append(flight, s)
    PROVE  /\ flight' \in Seq(StepType)
           /\ Len(flight') = Len(flight) + 1
           /\ DOMAIN flight' = 1..(Len(flight) + 1)
           /\ flight'[Len(flight) + 1] = s
           /\ \A i \in 1..Len(flight) : flight'[i] = flight[i]
<1>1. flight \in Seq(StepType)
  BY DEF TypeOK
<1>2. /\ Append(flight, s) \in Seq(StepType)
      /\ Len(Append(flight, s)) = Len(flight) + 1
      /\ Append(flight, s)[Len(flight) + 1] = s
      /\ \A i \in 1..Len(flight) : Append(flight, s)[i] = flight[i]
  BY <1>1, AppendProperties
<1> QED
  BY <1>2, LenProperties

\* The output of the oldest batch is taken.
LEMMA FlightTail ==
    ASSUME TypeOK, flight # <<>>, flight' = Tail(flight)
    PROVE  /\ flight' \in Seq(StepType)
           /\ Len(flight) >= 1 /\ Head(flight) = flight[1]
           /\ Len(flight') = Len(flight) - 1
           /\ DOMAIN flight' = 1..(Len(flight) - 1)
           /\ \A i \in 1..(Len(flight) - 1) : flight'[i] = flight[i + 1]
<1>1. flight \in Seq(StepType)
  BY DEF TypeOK
<1>2. Len(flight) >= 1
  BY <1>1, EmptySeq, LenProperties
<1>3. /\ Tail(flight) \in Seq(StepType) /\ Head(flight) = flight[1]
      /\ Len(Tail(flight)) = Len(flight) - 1
      /\ \A i \in 1..(Len(flight) - 1) : Tail(flight)[i] = flight[i + 1]
  BY <1>1, <1>2, HeadTailProperties
<1> QED
  BY <1>2, <1>3, LenProperties

\* The sequences that the counters sum up.
LEMMA SummedFacts ==
    ASSUME TypeOK
    PROVE  /\ Len(TokensOf) = Len(flight) /\ Len(StaleOf) = Len(flight)
           /\ Len(FreshOf) = Len(flight)
           /\ \A i \in 1..Len(flight) :
                 /\ TokensOf[i] = flight[i].n
                 /\ StaleOf[i] =
                      IF flight[i].run # preempts THEN flight[i].n ELSE 0
                 /\ FreshOf[i] =
                      IF flight[i].run = preempts /\ flight[i].samples
                        THEN 1 + flight[i].d ELSE 0
                 /\ TokensOf[i] \in Nat /\ StaleOf[i] \in Nat
                 /\ FreshOf[i] \in Nat
<1>1. PICK n \in Nat : n = Len(flight)
  BY FlightFacts
<1>2. DOMAIN flight = 1..n
  BY <1>1, FlightFacts
<1>3. \A i \in 1..n : flight[i].n \in Nat /\ flight[i].d \in Nat
  BY <1>1, FlightFacts
<1>4. \A i \in 1..n :
         /\ TokensOf[i] = flight[i].n
         /\ StaleOf[i] = IF flight[i].run # preempts THEN flight[i].n ELSE 0
         /\ FreshOf[i] = IF flight[i].run = preempts /\ flight[i].samples
                           THEN 1 + flight[i].d ELSE 0
  BY <1>2 DEF TokensOf, StaleOf, FreshOf
<1>5. \A i \in 1..n : TokensOf[i] \in Nat /\ StaleOf[i] \in Nat /\ FreshOf[i] \in Nat
  BY <1>3, <1>4
<1>6. Len(TokensOf) = n /\ Len(StaleOf) = n /\ Len(FreshOf) = n
  <2>1. /\ TokensOf \in [1..n -> Nat] /\ StaleOf \in [1..n -> Nat]
        /\ FreshOf \in [1..n -> Nat]
    <3>1. /\ TokensOf = [i \in 1..n |-> TokensOf[i]]
          /\ StaleOf = [i \in 1..n |-> StaleOf[i]]
          /\ FreshOf = [i \in 1..n |-> FreshOf[i]]
      BY <1>2 DEF TokensOf, StaleOf, FreshOf
    <3> QED
      BY <1>5, <3>1
  <2> QED
    BY <2>1, LenProperties, SeqDef
<1> QED
  BY <1>1, <1>4, <1>5, <1>6

\* What a counter that is zero, and one that is not, says of the queue.
LEMMA CountFacts ==
    ASSUME TypeOK, CountInv
    PROVE  /\ inFlight > 0 => \E i \in 1..Len(flight) : InStep(i)
           /\ \A i \in 1..Len(flight) : flight[i].n <= inFlight
           /\ stale > 0 => \E i \in 1..Len(flight) :
                              InStep(i) /\ flight[i].run # preempts
           /\ \A i \in 1..Len(flight) :
                 flight[i].run # preempts => flight[i].n <= stale
           /\ status # "finished" => \A i \in 1..Len(flight) :
                 flight[i].run = preempts /\ flight[i].samples =>
                    1 + flight[i].d <= placeholders
           /\ placeholders > 0 /\ status # "finished" =>
                 \E i \in 1..Len(flight) :
                    flight[i].samples /\ flight[i].run = preempts
<1>1. Len(flight) \in Nat /\ \A i \in 1..Len(flight) : flight[i].n \in Nat
  BY FlightFacts
<1>2. ASSUME inFlight > 0 PROVE \E i \in 1..Len(flight) : InStep(i)
  <2>1. ~ \A i \in 1..Len(flight) : TokensOf[i] = 0
    BY <1>1, <1>2, SummedFacts, TotalZero DEF CountInv
  <2> QED
    BY <1>1, <2>1, SummedFacts DEF InStep
<1>3. \A i \in 1..Len(flight) : flight[i].n <= inFlight
  BY <1>1, SummedFacts, TotalTerm DEF CountInv
<1>4. ASSUME stale > 0
      PROVE  \E i \in 1..Len(flight) : InStep(i) /\ flight[i].run # preempts
  <2>1. ~ \A i \in 1..Len(flight) : StaleOf[i] = 0
    BY <1>1, <1>4, SummedFacts, TotalZero DEF CountInv
  <2> QED
    BY <1>1, <2>1, SummedFacts DEF InStep
<1>5. \A i \in 1..Len(flight) : flight[i].run # preempts => flight[i].n <= stale
  BY <1>1, SummedFacts, TotalTerm DEF CountInv
<1>6. ASSUME status # "finished", NEW i \in 1..Len(flight),
             flight[i].run = preempts, flight[i].samples
      PROVE  1 + flight[i].d <= placeholders
  BY <1>1, <1>6, SummedFacts, TotalTerm DEF CountInv
<1>7. ASSUME status # "finished", placeholders > 0
      PROVE  \E i \in 1..Len(flight) :
                flight[i].samples /\ flight[i].run = preempts
  <2>1. ~ \A i \in 1..Len(flight) : FreshOf[i] = 0
    BY <1>1, <1>7, SummedFacts, TotalZero DEF CountInv
  <2> QED
    BY <2>1, SummedFacts
<1> QED
  BY <1>2, <1>3, <1>4, <1>5, <1>6, <1>7

\* A live step makes all later steps of the request live.
LEMMA LiveStays ==
    ASSUME TypeOK, StepInv,
           NEW i \in 1..Len(flight), NEW j \in 1..Len(flight),
           Live(i), i < j, InStep(j)
    PROVE  Live(j)
<1>1. /\ flight[i].run <= flight[j].run /\ flight[j].run <= preempts
      /\ flight[i].run \in Nat /\ flight[j].run \in Nat
  BY FlightFacts DEF StepInv, RunsInv, StepsInv, Live
<1>2. preempts \in Nat
  BY DEF TypeOK
<1> QED
  BY <1>1, <1>2 DEF Live

\* The length of a sequence given as a function of its positions.
LEMMA LenOf ==
    ASSUME NEW S, NEW n \in Nat, NEW f \in [1..n -> S]
    PROVE  f \in Seq(S) /\ Len(f) = n
BY LenProperties, SeqDef

\* The sums when a batch is queued.
LEMMA CountAppend ==
    ASSUME TypeOK, NEW s \in StepType, flight' = Append(flight, s),
           preempts' = preempts
    PROVE  /\ Total(TokensOf') = Total(TokensOf) + s.n
           /\ Total(StaleOf') =
                Total(StaleOf) + IF s.run # preempts THEN s.n ELSE 0
           /\ Total(FreshOf') =
                Total(FreshOf) + IF s.run = preempts /\ s.samples
                                   THEN 1 + s.d ELSE 0
<1>1. PICK n \in Nat : n = Len(flight)
  BY FlightFacts
<1>2. /\ DOMAIN flight' = 1..(n + 1) /\ flight'[n + 1] = s
      /\ \A i \in 1..n : flight'[i] = flight[i]
  BY <1>1, FlightAppend
<1>3. s.n \in Nat /\ s.d \in Nat
  BY DEF StepType
<1>4. /\ Len(TokensOf) = n /\ Len(StaleOf) = n /\ Len(FreshOf) = n
      /\ \A i \in 1..n : /\ TokensOf[i] \in Nat /\ StaleOf[i] \in Nat
                         /\ FreshOf[i] \in Nat
  BY <1>1, SummedFacts
<1>5. PICK tokens, old, new :
        tokens = TokensOf' /\ old = StaleOf' /\ new = FreshOf'
  OBVIOUS
<1>6. \A i \in 1..n : tokens[i] = TokensOf[i] /\ old[i] = StaleOf[i]
                      /\ new[i] = FreshOf[i]
  <2>1. ASSUME NEW i \in 1..n
        PROVE  tokens[i] = TokensOf[i] /\ old[i] = StaleOf[i] /\ new[i] = FreshOf[i]
    <3>1. i \in DOMAIN flight /\ i \in DOMAIN flight' /\ flight'[i] = flight[i]
      BY <1>1, <1>2, FlightFacts
    <3> QED
      BY <1>5, <3>1 DEF TokensOf, StaleOf, FreshOf
  <2> QED
    BY <2>1
<1>7. /\ tokens[n + 1] = s.n
      /\ old[n + 1] = IF s.run # preempts THEN s.n ELSE 0
      /\ new[n + 1] = IF s.run = preempts /\ s.samples THEN 1 + s.d ELSE 0
  <2>1. n + 1 \in DOMAIN flight'
    BY <1>2
  <2> QED
    BY <1>2, <1>5, <2>1 DEF TokensOf, StaleOf, FreshOf
<1>8. /\ tokens \in [1..(n + 1) -> Nat] /\ old \in [1..(n + 1) -> Nat]
      /\ new \in [1..(n + 1) -> Nat]
  <2>1. /\ tokens = [i \in 1..(n + 1) |-> tokens[i]]
        /\ old = [i \in 1..(n + 1) |-> old[i]]
        /\ new = [i \in 1..(n + 1) |-> new[i]]
    BY <1>2, <1>5 DEF TokensOf, StaleOf, FreshOf
  <2>2. \A i \in 1..(n + 1) : i \in 1..n \/ i = n + 1
    OBVIOUS
  <2>3. tokens[n + 1] \in Nat /\ old[n + 1] \in Nat /\ new[n + 1] \in Nat
    BY <1>3, <1>7
  <2>4. \A i \in 1..(n + 1) : tokens[i] \in Nat /\ old[i] \in Nat /\ new[i] \in Nat
    BY <1>4, <1>6, <2>2, <2>3
  <2> QED
    BY <2>1, <2>4
<1>9. Len(tokens) = n + 1 /\ Len(old) = n + 1 /\ Len(new) = n + 1
  BY <1>8, LenOf
<1>10. tokens[n + 1] \in Nat /\ old[n + 1] \in Nat /\ new[n + 1] \in Nat
  BY <1>8
<1>11. /\ Total(tokens) = Total(TokensOf) + tokens[n + 1]
       /\ Total(old) = Total(StaleOf) + old[n + 1]
       /\ Total(new) = Total(FreshOf) + new[n + 1]
  <2>1. Total(tokens) = Total(TokensOf) + tokens[n + 1]
    <3>1. PICK q, x : q = TokensOf /\ x = tokens[n + 1]
      OBVIOUS
    <3>2. Len(q) = n /\ \A i \in 1..n : q[i] \in Nat
      BY <1>4, <3>1
    <3>3. \A i \in 1..n : tokens[i] = q[i]
      BY <1>6, <3>1
    <3>4. Len(tokens) = n + 1 /\ tokens[n + 1] = x /\ x \in Nat
      BY <1>9, <1>10, <3>1
    <3>5. Total(tokens) = Total(q) + x
      BY <3>2, <3>3, <3>4, TotalAppend
    <3> QED
      BY <3>1, <3>5
  <2>2. Total(old) = Total(StaleOf) + old[n + 1]
    <3>1. PICK q, x : q = StaleOf /\ x = old[n + 1]
      OBVIOUS
    <3>2. Len(q) = n /\ \A i \in 1..n : q[i] \in Nat
      BY <1>4, <3>1
    <3>3. \A i \in 1..n : old[i] = q[i]
      BY <1>6, <3>1
    <3>4. Len(old) = n + 1 /\ old[n + 1] = x /\ x \in Nat
      BY <1>9, <1>10, <3>1
    <3>5. Total(old) = Total(q) + x
      BY <3>2, <3>3, <3>4, TotalAppend
    <3> QED
      BY <3>1, <3>5
  <2>3. Total(new) = Total(FreshOf) + new[n + 1]
    <3>1. PICK q, x : q = FreshOf /\ x = new[n + 1]
      OBVIOUS
    <3>2. Len(q) = n /\ \A i \in 1..n : q[i] \in Nat
      BY <1>4, <3>1
    <3>3. \A i \in 1..n : new[i] = q[i]
      BY <1>6, <3>1
    <3>4. Len(new) = n + 1 /\ new[n + 1] = x /\ x \in Nat
      BY <1>9, <1>10, <3>1
    <3>5. Total(new) = Total(q) + x
      BY <3>2, <3>3, <3>4, TotalAppend
    <3> QED
      BY <3>1, <3>5
  <2> QED
    BY <2>1, <2>2, <2>3
<1> QED
  BY <1>5, <1>7, <1>11

\* The sums when the oldest batch comes back.
LEMMA CountTail ==
    ASSUME TypeOK, flight # <<>>, flight' = Tail(flight), preempts' = preempts
    PROVE  /\ Total(TokensOf') = Total(TokensOf) - flight[1].n
           /\ Total(StaleOf') =
                Total(StaleOf) -
                  IF flight[1].run # preempts THEN flight[1].n ELSE 0
           /\ Total(FreshOf') =
                Total(FreshOf) - IF flight[1].run = preempts /\ flight[1].samples
                                   THEN 1 + flight[1].d ELSE 0
           /\ (\A i \in 2..Len(flight) : ~InStep(i)) => Total(TokensOf') = 0
<1>1. PICK n \in Nat : n = Len(flight) - 1
  <2>1. Len(flight) \in Nat /\ Len(flight) >= 1
    BY FlightFacts, FlightTail
  <2> QED
    BY <2>1
<1>2. /\ DOMAIN flight' = 1..n /\ Len(flight) = n + 1
      /\ \A i \in 1..n : flight'[i] = flight[i + 1]
  BY <1>1, FlightTail, FlightFacts
<1>3. /\ Len(TokensOf) = n + 1 /\ Len(StaleOf) = n + 1 /\ Len(FreshOf) = n + 1
      /\ \A i \in 1..(n + 1) : /\ TokensOf[i] \in Nat /\ StaleOf[i] \in Nat
                               /\ FreshOf[i] \in Nat
  BY <1>2, SummedFacts
<1>4. PICK tokens, old, new :
        tokens = TokensOf' /\ old = StaleOf' /\ new = FreshOf'
  OBVIOUS
<1>5. \A i \in 1..n : /\ tokens[i] = TokensOf[i + 1] /\ old[i] = StaleOf[i + 1]
                      /\ new[i] = FreshOf[i + 1]
  <2>1. ASSUME NEW i \in 1..n
        PROVE  /\ tokens[i] = TokensOf[i + 1] /\ old[i] = StaleOf[i + 1]
               /\ new[i] = FreshOf[i + 1]
    <3>1. i + 1 \in 1..(n + 1)
      OBVIOUS
    <3>2. i + 1 \in DOMAIN flight /\ i \in DOMAIN flight' /\ flight'[i] = flight[i + 1]
      BY <1>2, <3>1, FlightFacts
    <3> QED
      BY <1>4, <3>2 DEF TokensOf, StaleOf, FreshOf
  <2> QED
    BY <2>1
<1>6. /\ tokens \in [1..n -> Nat] /\ old \in [1..n -> Nat] /\ new \in [1..n -> Nat]
  <2>1. /\ tokens = [i \in 1..n |-> tokens[i]] /\ old = [i \in 1..n |-> old[i]]
        /\ new = [i \in 1..n |-> new[i]]
    BY <1>2, <1>4 DEF TokensOf, StaleOf, FreshOf
  <2>2. \A i \in 1..n : i + 1 \in 1..(n + 1)
    OBVIOUS
  <2>3. \A i \in 1..n : tokens[i] \in Nat /\ old[i] \in Nat /\ new[i] \in Nat
    BY <1>3, <1>5, <2>2
  <2> QED
    BY <2>1, <2>3
<1>7. Len(tokens) = n /\ Len(old) = n /\ Len(new) = n
  BY <1>6, LenOf
<1>8. n + 1 \in Nat /\ n + 1 >= 1 /\ (n + 1) - 1 = n
  OBVIOUS
<1>9. /\ Total(tokens) = Total(TokensOf) - TokensOf[1]
      /\ Total(old) = Total(StaleOf) - StaleOf[1]
      /\ Total(new) = Total(FreshOf) - FreshOf[1]
  BY <1>3, <1>5, <1>7, <1>8, TotalTail
<1>10. 1 \in 1..Len(flight)
  BY <1>2
<1>11. ASSUME \A i \in 2..Len(flight) : ~InStep(i) PROVE Total(tokens) = 0
  <2>1. ASSUME NEW i \in 1..n PROVE tokens[i] = 0
    <3>1. i + 1 \in 2..Len(flight) /\ i + 1 \in 1..Len(flight)
      BY <1>2
    <3>2. ~(flight[i + 1].n > 0) /\ flight[i + 1].n \in Nat
      BY <1>11, <3>1, FlightFacts DEF InStep
    <3>3. tokens[i] = flight[i + 1].n
      BY <1>5, <3>1, SummedFacts
    <3> QED
      BY <3>2, <3>3
  <2> QED
    BY <1>7, <2>1, TotalZero
<1> QED
  BY <1>4, <1>9, <1>10, <1>11, SummedFacts

\* The sums when the request is preempted: all of the tokens are stale.  The
\* queue may grow by a batch without the request.
LEMMA CountPreempt ==
    ASSUME TypeOK, StepsInv, preempts' = preempts + 1,
           flight' = flight \/ flight' = Append(flight, NotInStep)
    PROVE  /\ Total(TokensOf') = Total(TokensOf)
           /\ Total(StaleOf') = Total(TokensOf)
           /\ Total(FreshOf') = 0
<1>1. NotInStep \in StepType
  BY DEF NotInStep, StepType
<1>2. PICK n \in Nat : n = Len(flight)
  BY FlightFacts
<1>3. PICK m \in Nat : DOMAIN flight' = 1..m /\ (m = n \/ m = n + 1)
                       /\ (m = n + 1 => flight'[n + 1] = NotInStep)
                       /\ (m = n => flight' = flight)
                       /\ \A i \in 1..n : flight'[i] = flight[i]
  <2>1. CASE flight' = flight
    BY <1>2, <2>1, FlightFacts
  <2>2. CASE flight' = Append(flight, NotInStep)
    BY <1>1, <1>2, <2>2, FlightAppend
  <2> QED
    BY <2>1, <2>2
<1>4. preempts \in Nat
  BY DEF TypeOK
<1>5. PICK tokens, old, new :
        tokens = TokensOf' /\ old = StaleOf' /\ new = FreshOf'
  OBVIOUS
<1>6. ASSUME NEW i \in 1..m
      PROVE  /\ old[i] = tokens[i] /\ new[i] = 0 /\ tokens[i] \in Nat
             /\ i \in 1..n => tokens[i] = TokensOf[i]
             /\ i \notin 1..n => tokens[i] = 0
  <2>1. /\ tokens[i] = flight'[i].n
        /\ old[i] = IF flight'[i].run # preempts + 1 THEN flight'[i].n ELSE 0
        /\ new[i] = IF flight'[i].run = preempts + 1 /\ flight'[i].samples
                      THEN 1 + flight'[i].d ELSE 0
    BY <1>3, <1>5 DEF TokensOf, StaleOf, FreshOf
  <2>2. CASE i \in 1..n
    <3>1. flight'[i] = flight[i] /\ i \in DOMAIN flight /\ i \in 1..Len(flight)
      BY <1>2, <1>3, <2>2, FlightFacts
    <3>2. /\ flight[i].n \in Nat /\ flight[i].run \in Nat
          /\ flight[i].samples => flight[i].n > 0
          /\ flight[i].n > 0 => flight[i].run <= preempts
      BY <3>1, FlightFacts DEF StepsInv, InStep
    <3>3. TokensOf[i] = flight[i].n
      BY <3>1 DEF TokensOf
    <3> QED
      BY <1>4, <2>1, <2>2, <3>1, <3>2, <3>3
  <2>3. CASE i \notin 1..n
    <3>1. flight'[i] = NotInStep
      BY <1>3, <2>3
    <3>2. NotInStep.n = 0 /\ NotInStep.samples = FALSE
      BY DEF NotInStep
    <3> QED
      BY <2>1, <2>3, <3>1, <3>2
  <2> QED
    BY <2>2, <2>3
<1>7. /\ tokens \in [1..m -> Nat] /\ old \in [1..m -> Nat] /\ new \in [1..m -> Nat]
  <2>1. /\ tokens = [i \in 1..m |-> tokens[i]] /\ old = [i \in 1..m |-> old[i]]
        /\ new = [i \in 1..m |-> new[i]]
    BY <1>3, <1>5 DEF TokensOf, StaleOf, FreshOf
  <2> QED
    BY <1>6, <2>1
<1>8. old = tokens
  BY <1>6, <1>7
<1>9. Len(tokens) = m /\ Len(new) = m
  BY <1>7, LenOf
<1>10. Total(new) = 0
  BY <1>6, <1>9, TotalZero
<1>11. Total(tokens) = Total(TokensOf)
  <2>1. /\ Len(TokensOf) = n
        /\ \A i \in 1..n : TokensOf[i] \in Nat
    BY <1>2, SummedFacts
  <2>2. CASE m = n
    BY <1>3, <1>5, <2>2 DEF TokensOf
  <2>3. CASE m = n + 1
    <3>1. tokens[n + 1] = 0 /\ \A i \in 1..n : tokens[i] = TokensOf[i]
      BY <1>6, <2>3
    <3>2. Total(tokens) = Total(TokensOf) + 0
      BY <1>9, <2>1, <2>3, <3>1, TotalAppend
    <3>3. Total(TokensOf) \in Nat
      BY <2>1, TotalNat
    <3> QED
      BY <3>2, <3>3
  <2> QED
    BY <1>3, <2>2, <2>3
<1> QED
  BY <1>5, <1>8, <1>10, <1>11

-----------------------------------------------------------------------------
(***************************************************************************)
(* schedule(): the request goes into a step.                               *)
(***************************************************************************)
\* What ScheduleRunning and ScheduleWaiting have in common: s is queued, a step
\* of the current run.
Queued(s) ==
    /\ s \in StepType /\ s.n > 0 /\ s.run = preempts
    /\ s.d <= NumSpec /\ (~s.samples => s.d = 0)
    /\ flight' = Append(flight, s)
    /\ computed' \in Nat /\ inFlight' = inFlight + s.n
    /\ placeholders' = placeholders + (IF s.samples THEN 1 + s.d ELSE 0)
    /\ spec' \in Nat /\ spec' <= NumSpec
    /\ gap' = IF s.samples THEN 1 ELSE NextGap
    /\ status # "finished" /\ status' = "running"
    /\ conf' = conf /\ out' = out /\ stale' = stale /\ drop' = drop
    /\ preempts' = preempts /\ wpos' = wpos

\* gap stays between 1 and PP.
LEMMA GapFacts ==
    ASSUME TypeOK
    PROVE  /\ gap \in Nat /\ gap >= 1 /\ gap <= PP
           /\ NextGap \in Nat /\ NextGap >= 1 /\ NextGap <= PP
           /\ NextGap <= gap + 1
<1>1. PP \in Nat /\ gap \in 1..PP
  BY ConfFacts DEF TypeOK
<1> QED
  BY <1>1 DEF NextGap

\* The types of the counters.
LEMMA NumbersFacts ==
    ASSUME TypeOK
    PROVE  /\ Prompt \in Nat /\ Prompt >= 1 /\ MaxTokens \in Nat /\ MaxTokens >= 1
           /\ Len(out) \in Nat /\ numTokens = Prompt + Len(out)
           /\ numTokens \in Nat /\ numTokens >= Prompt
           /\ computed \in Nat /\ placeholders \in Nat /\ spec \in Nat
           /\ inFlight \in Nat /\ stale \in Nat /\ preempts \in Nat
           /\ wpos \in Nat
<1>1. Prompt \in Nat /\ Prompt >= 1 /\ MaxTokens \in Nat /\ MaxTokens >= 1
  BY AsyncAssumption
<1>2. Len(out) \in Nat
  BY LenProperties DEF TypeOK
<1>3. /\ computed \in Nat /\ placeholders \in Nat /\ spec \in Nat
      /\ inFlight \in Nat /\ stale \in Nat /\ preempts \in Nat /\ wpos \in Nat
  BY DEF TypeOK
<1> QED
  BY <1>1, <1>2, <1>3 DEF numTokens

\* What queueing a step of the current run preserves.
LEMMA QueuedInv ==
    ASSUME IInv, NEW s, Queued(s)
    PROVE  /\ TypeOK' /\ StepsInv' /\ RunsInv' /\ IdleInv' /\ (spec <= NumSpec)'
           /\ CountInv' /\ RestInv' /\ OutInv' /\ InOrder'
           /\ BudgetInv' /\ GapInv' /\ NoOverschedule'
<1>1. TypeOK /\ StepInv /\ CountInv /\ OrderInv /\ EndInv
  BY DEF IInv
<1>2. PICK N \in Nat : N = Len(flight)
  BY <1>1, FlightFacts
<1>3. /\ s \in StepType /\ s.n \in Nat /\ s.d \in Nat /\ s.run \in Nat
      /\ s.n > 0 /\ s.run = preempts /\ s.samples \in BOOLEAN
  BY DEF Queued, StepType
<1>4. /\ flight' \in Seq(StepType) /\ Len(flight') = N + 1
      /\ DOMAIN flight' = 1..(N + 1) /\ flight'[N + 1] = s
      /\ \A i \in 1..N : flight'[i] = flight[i]
  BY <1>1, <1>2, <1>3, FlightAppend DEF Queued
<1>5. /\ DOMAIN flight = 1..N
      /\ \A i \in 1..N : flight[i].n \in Nat /\ flight[i].d \in Nat
                         /\ flight[i].run \in Nat /\ flight[i].samples \in BOOLEAN
  BY <1>1, <1>2, FlightFacts
<1>6. \A i \in 1..(N + 1) : i \in 1..N \/ i = N + 1
  OBVIOUS
<1>7. preempts \in Nat /\ NumSpec \in Nat /\ NumSpec' = NumSpec /\ PP' = PP
  BY <1>1, ConfFacts DEF TypeOK, Queued, NumSpec, PP
<1>8. TypeOK'
  <2>1. inFlight' \in Nat /\ placeholders' \in Nat
    <3>1. inFlight \in Nat /\ placeholders \in Nat
      BY <1>1, NumbersFacts
    <3>2. /\ inFlight' = inFlight + s.n
          /\ placeholders' = placeholders + (IF s.samples THEN 1 + s.d ELSE 0)
      BY DEF Queued
    <3> QED
      BY <1>3, <3>1, <3>2
  <2>2. gap' \in 1..PP
    BY <1>1, GapFacts, ConfFacts DEF Queued, TypeOK
  <2> QED
    BY <1>1, <1>4, <1>7, <2>1, <2>2 DEF TypeOK, Queued
<1>9. StepsInv'
  <2>1. ASSUME NEW i \in 1..(N + 1)
        PROVE  /\ flight'[i].samples => flight'[i].n > 0
               /\ ~flight'[i].samples => flight'[i].d = 0
               /\ flight'[i].d <= NumSpec
               /\ flight'[i].n > 0 => flight'[i].run <= preempts
    <3>1. CASE i \in 1..N
      BY <1>1, <1>4, <1>5, <3>1 DEF StepInv, StepsInv, InStep
    <3>2. CASE i = N + 1
      BY <1>3, <1>4, <1>7, <3>2 DEF Queued
    <3> QED
      BY <3>1, <3>2
  <2> QED
    BY <1>4, <1>7, <2>1 DEF StepsInv, InStep, Queued
<1>10. RunsInv'
  <2>1. ASSUME NEW i \in 1..(N + 1), NEW j \in 1..(N + 1), i < j,
               flight'[i].n > 0, flight'[j].n > 0
        PROVE  flight'[i].run <= flight'[j].run
    <3>1. i \in 1..N /\ flight'[i] = flight[i]
      BY <1>4, <2>1
    <3>2. flight[i].run <= preempts
      BY <1>1, <1>5, <2>1, <3>1 DEF StepInv, StepsInv, InStep
    <3>3. CASE j \in 1..N
      BY <1>1, <1>4, <1>5, <2>1, <3>1, <3>3 DEF StepInv, RunsInv, InStep
    <3>4. CASE j = N + 1
      BY <1>3, <1>4, <3>1, <3>2, <3>4
    <3> QED
      BY <3>3, <3>4
  <2> QED
    BY <1>4, <2>1 DEF RunsInv, InStep
<1>11. IdleInv' /\ (spec <= NumSpec)'
  BY <1>7 DEF Queued, IdleInv
<1>12. CountInv'
  <2>1. /\ Total(TokensOf') = Total(TokensOf) + s.n
        /\ Total(StaleOf') = Total(StaleOf) + 0
        /\ Total(FreshOf') = Total(FreshOf) + IF s.samples THEN 1 + s.d ELSE 0
    BY <1>1, <1>3, CountAppend DEF Queued
  <2>2. /\ inFlight' = inFlight + s.n /\ stale' = stale
        /\ placeholders' = placeholders + (IF s.samples THEN 1 + s.d ELSE 0)
        /\ inFlight = Total(TokensOf) /\ stale = Total(StaleOf)
        /\ placeholders = Total(FreshOf) /\ stale \in Nat
    BY <1>1, NumbersFacts DEF Queued, CountInv
  <2> QED
    BY <2>1, <2>2 DEF CountInv
<1>13. RestInv'
  BY <1>3, <1>4 DEF RestInv, InStep
<1>14. OutInv'
  <2>1. ASSUME NEW t \in DOMAIN out, NEW i \in 1..(N + 1), flight'[i].n > 0
        PROVE  out[t].run <= flight'[i].run
    BY <1>1, <1>3, <1>4, <1>5, <1>6, <2>1 DEF OrderInv, OutInv, InStep
  <2> QED
    BY <1>1, <1>4, <2>1 DEF OrderInv, OutInv, InStep, Queued
<1>15. InOrder' /\ BudgetInv' /\ NoOverschedule'
  BY <1>1 DEF OrderInv, InOrder, EndInv, BudgetInv, NoOverschedule, numTokens,
       Queued
<1>16. GapInv'
  <2>1. ASSUME NEW i \in 1..(N + 1), flight'[i].samples
        PROVE  gap' <= (N + 1) - i + 1
    <3>1. gap' <= gap + 1 /\ gap \in Nat /\ gap' \in Nat
      BY <1>1, GapFacts DEF Queued
    <3>2. CASE i = N + 1
      <4>1. gap' = 1
        BY <1>4, <2>1, <3>2 DEF Queued
      <4> QED
        BY <3>2, <4>1
    <3>3. CASE i \in 1..N
      <4>1. gap <= N - i + 1
        BY <1>1, <1>2, <1>4, <1>5, <2>1, <3>3 DEF EndInv, GapInv
      <4> QED
        BY <3>1, <3>3, <4>1
    <3> QED
      BY <3>2, <3>3
  <2> QED
    BY <1>4, <2>1 DEF GapInv
<1> QED
  BY <1>8, <1>9, <1>10, <1>11, <1>12, <1>13, <1>14, <1>15, <1>16

\* PutInStep queues a step with the counts it was given.
PutIs(s, c, n, d, first) ==
    /\ s.n = n /\ s.d = d /\ s.run = preempts /\ (s.first <=> first)
    /\ s.samples <=> c + n >= numTokens + placeholders
    /\ first => s.base = numTokens
    /\ flight' = Append(flight, s)
    /\ computed' = c + n /\ inFlight' = inFlight + n
    /\ placeholders' = placeholders + (IF s.samples THEN 1 + s.d ELSE 0)
    /\ spec' = IF s.samples THEN NumSpec ELSE 0
    /\ gap' = IF s.samples THEN 1 ELSE NextGap

\* PutInStep does exactly what PutIs says, for some record of the step.
LEMMA PutFacts ==
    ASSUME TypeOK, NEW c \in Nat, NEW n \in Nat, NEW d \in Nat,
           NEW first \in BOOLEAN, PutInStep(c, n, d, first)
    PROVE  \E s \in StepType : PutIs(s, c, n, d, first)
<1>1. (c + n >= numTokens + placeholders) \in BOOLEAN
  OBVIOUS
<1>2. PICK b \in BOOLEAN : b = (c + n >= numTokens + placeholders)
  BY <1>1, Zenon
<1>3. b <=> c + n >= numTokens + placeholders
  BY <1>2, Zenon
<1>4. PICK s : s = [n |-> n, d |-> d, samples |-> b, run |-> preempts,
                    base |-> IF first THEN numTokens ELSE 0, first |-> first]
  OBVIOUS
<1>5. preempts \in Nat /\ numTokens \in Nat
  BY NumbersFacts
<1>6. s \in StepType
  BY <1>2, <1>4, <1>5 DEF StepType
<1>7. /\ s.n = n /\ s.d = d /\ s.run = preempts /\ s.first = first
      /\ s.samples = b /\ (first => s.base = numTokens)
  BY <1>4
<1>8. /\ flight' = Append(flight, s)
      /\ computed' = c + n /\ inFlight' = inFlight + n
      /\ placeholders' = placeholders + (IF b THEN 1 + d ELSE 0)
      /\ spec' = IF b THEN NumSpec ELSE 0
      /\ gap' = IF b THEN 1 ELSE NextGap
  BY <1>2, <1>4, Zenon DEF PutInStep, Earned
<1> QED
  BY <1>3, <1>6, <1>7, <1>8 DEF PutIs

\* In a running request every step that is not stale is live and fresh.
LEMMA RunningLive ==
    ASSUME TypeOK, StepInv, status = "running"
    PROVE  /\ \A i \in 1..Len(flight) : Live(i) => flight[i].run = preempts
           /\ (\E i \in 1..Len(flight) : InStep(i)) =>
                 \E i \in 1..Len(flight) : Live(i)
<1>1. /\ DOMAIN flight = 1..Len(flight) /\ preempts \in Nat
      /\ \A i \in 1..Len(flight) : flight[i].run \in Nat
  BY FlightFacts DEF TypeOK
<1>2. \A i \in 1..Len(flight) : InStep(i) =>
         \/ flight[i].run = preempts
         \/ flight[i].run < preempts
  BY <1>1 DEF StepInv, StepsInv
<1>3. \A i \in 1..Len(flight) : InStep(i) /\ flight[i].run < preempts =>
         drop /\ \E j \in 1..Len(flight) : InStep(j) /\ flight[j].run = preempts
  BY <1>1 DEF StepInv, DropInv
<1> QED
  BY <1>1, <1>2, <1>3 DEF Live

\* A running request is scheduled.
LEMMA ScheduleRunningInv ==
    ASSUME IInv, NEW n \in Nat, ScheduleRunning(n), conf' = conf
    PROVE  IInv'
<1>1. TypeOK /\ StepInv /\ CountInv /\ KVInPlace /\ OrderInv /\ EndInv
  BY DEF IInv
<1>2. /\ status = "running" /\ status' = "running" /\ Len(flight) <= PP
      /\ ~MaxTokensReached /\ gap >= PP
      /\ n \in 1..(numTokens + spec + placeholders - computed)
      /\ out' = out /\ stale' = stale /\ drop' = drop /\ preempts' = preempts
      /\ wpos' = wpos
  BY DEF ScheduleRunning, CanSchedule, Eligible
<1>3. PICK d : d = IF n + computed - numTokens - placeholders > 0
                     THEN n + computed - numTokens - placeholders ELSE 0
  OBVIOUS
<1>4. /\ numTokens \in Nat /\ spec \in Nat /\ placeholders \in Nat
      /\ computed \in Nat /\ Prompt \in Nat /\ MaxTokens \in Nat
      /\ NumSpec \in Nat /\ spec <= NumSpec /\ PP \in Nat
  BY <1>1, NumbersFacts, ConfFacts DEF TypeOK, StepInv
<1>5. d \in Nat /\ d <= NumSpec
  BY <1>2, <1>3, <1>4
<1>6. PutInStep(computed, n, d, FALSE)
  BY <1>3 DEF ScheduleRunning
<1>7. PICK s \in StepType : PutIs(s, computed, n, d, FALSE)
  BY <1>1, <1>4, <1>5, <1>6, PutFacts
<1>8. /\ s.n = n /\ s.d = d /\ s.run = preempts /\ ~s.first
      /\ s.samples <=> computed + n >= numTokens + placeholders
      /\ flight' = Append(flight, s)
      /\ computed' = computed + n /\ inFlight' = inFlight + n
      /\ placeholders' = placeholders + (IF s.samples THEN 1 + s.d ELSE 0)
      /\ spec' = IF s.samples THEN NumSpec ELSE 0
      /\ gap' = IF s.samples THEN 1 ELSE NextGap
  BY <1>7 DEF PutIs
<1>9. n >= 1 /\ computed' \in Nat
  BY <1>2, <1>4, <1>8
<1>10. ~s.samples => s.d = 0
  BY <1>3, <1>4, <1>8
<1>11. spec' \in Nat /\ spec' <= NumSpec
  BY <1>4, <1>8
<1>12. Queued(s)
  BY <1>2, <1>5, <1>8, <1>9, <1>10, <1>11 DEF Queued
<1>13. PICK N \in Nat : N = Len(flight)
  BY <1>1, FlightFacts
<1>14. /\ DOMAIN flight' = 1..(N + 1) /\ flight'[N + 1] = s
       /\ \A i \in 1..N : flight'[i] = flight[i]
       /\ DOMAIN flight = 1..N
  BY <1>1, <1>8, <1>13, FlightAppend, FlightFacts
<1>15. /\ \A i \in 1..N : /\ InStep(i)' <=> InStep(i)
                          /\ Live(i)' <=> Live(i)
       /\ InStep(N + 1)'
       /\ numTokens' = numTokens
  BY <1>2, <1>8, <1>9, <1>14 DEF InStep, Live, numTokens
<1>16. DropInv'
  <2>1. ASSUME NEW i \in 1..(N + 1), InStep(i)', flight'[i].run < preempts
        PROVE  drop /\ \E j \in 1..(N + 1) : InStep(j)' /\ flight'[j].run = preempts
    <3>1. i \in 1..N
      <4>1. preempts \in Nat
        BY <1>1, NumbersFacts
      <4>2. i # N + 1
        BY <1>8, <1>14, <2>1, <4>1
      <4> QED
        BY <4>2
    <3>2. drop
      BY <1>1, <1>2, <1>14, <1>15, <2>1, <3>1 DEF StepInv, DropInv
    <3> QED
      BY <1>8, <1>14, <1>15, <3>2
  <2> QED
    BY <1>2, <1>14, <2>1 DEF DropInv
<1>17. FirstInv'
  <2>1. ASSUME NEW i \in 1..(N + 1), NEW j \in 1..(N + 1), i < j, Live(i)', Live(j)'
        PROVE  ~flight'[j].first
    <3>1. i \in 1..N
      BY <2>1
    <3>2. CASE j \in 1..N
      BY <1>1, <1>14, <1>15, <2>1, <3>1, <3>2 DEF OrderInv, FirstInv
    <3>3. CASE j = N + 1
      BY <1>8, <1>14, <3>3
    <3> QED
      BY <3>2, <3>3
  <2> QED
    BY <1>14, <2>1 DEF FirstInv
<1>18. ChainInv'
  <2>1. ASSUME NEW i \in 1..(N + 1), Live(i)',
               \A j \in 1..(N + 1) : j < i => ~Live(j)'
        PROVE  \/ flight'[i].first /\ flight'[i].base = numTokens'
               \/ /\ ~flight'[i].first /\ wpos' = numTokens'
                  /\ \A j \in 1..(N + 1) : j < i => ~InStep(j)'
    <3>1. CASE i \in 1..N
      <4>1. Live(i) /\ \A j \in 1..N : j < i => ~Live(j)
        BY <1>15, <2>1, <3>1
      <4>2. \/ flight[i].first /\ flight[i].base = numTokens
            \/ /\ ~flight[i].first /\ wpos = numTokens
               /\ \A j \in 1..N : j < i => ~InStep(j)
        BY <1>1, <1>2, <1>14, <3>1, <4>1 DEF OrderInv, ChainInv
      <4>3. \A j \in 1..(N + 1) : j < i => j \in 1..N
        BY <3>1
      <4> QED
        BY <1>2, <1>14, <1>15, <3>1, <4>2, <4>3
    <3>2. CASE i = N + 1
      <4>1. \A j \in 1..N : ~Live(j)
        BY <1>15, <2>1, <3>2
      <4>2. \A j \in 1..N : ~InStep(j)
        BY <1>1, <1>2, <1>13, <4>1, RunningLive
      <4>3. wpos = numTokens
        BY <1>1, <1>2, <1>14, <4>2 DEF OrderInv, RestInv
      <4>4. \A j \in 1..(N + 1) : j < i => j \in 1..N
        BY <3>2
      <4> QED
        BY <1>2, <1>8, <1>14, <1>15, <3>2, <4>2, <4>3, <4>4
    <3> QED
      BY <3>1, <3>2
  <2> QED
    BY <1>14, <2>1 DEF ChainInv
<1>19. KVInPlace'
  <2>1. placeholders > 0 \/ computed >= numTokens =>
           computed = numTokens + placeholders - 1
    BY <1>1, <1>2 DEF KVInPlace
  <2>2. s.samples => computed + n = numTokens + placeholders + s.d
    BY <1>2, <1>3, <1>4, <1>8
  <2>3. CASE s.samples
    <3>1. computed' = numTokens + placeholders' - 1
      BY <1>4, <1>5, <1>8, <2>2, <2>3
    <3> QED
      BY <1>15, <3>1 DEF KVInPlace
  <2>4. CASE ~s.samples
    <3>1. computed' < numTokens + placeholders /\ placeholders' = placeholders
      BY <1>4, <1>8, <2>4
    <3>2. placeholders = 0 /\ computed' < numTokens
      BY <1>4, <1>8, <1>9, <2>1, <3>1
    <3> QED
      BY <1>4, <1>15, <1>9, <3>1, <3>2 DEF KVInPlace
  <2> QED
    BY <2>3, <2>4
<1>20. LastInv'
  <2>1. ASSUME NEW i \in 1..(N + 1), NEW j \in 1..(N + 1), i < j,
               Live(i)', Live(j)', flight'[i].samples
        PROVE  /\ \A h \in 1..(N + 1) : h < i /\ Live(h)' => ~flight'[h].samples
               /\ NumSpec = 0 => numTokens + 1 < Prompt + MaxTokens
    <3>1. i \in 1..N /\ Live(i) /\ flight[i].samples
      BY <1>14, <1>15, <2>1
    <3>2. \A h \in 1..(N + 1) : h < i => h \in 1..N
      BY <2>1, <3>1
    <3>3. CASE j \in 1..N
      BY <1>1, <1>2, <1>14, <1>15, <2>1, <3>1, <3>2, <3>3 DEF EndInv, LastInv
    <3>4. CASE j = N + 1
      <4>1. gap <= N - i + 1 /\ gap \in Nat
        BY <1>1, <1>13, <1>14, <3>1, GapFacts DEF EndInv, GapInv
      <4>2. ~(i > 1)
        BY <1>2, <1>4, <1>13, <3>1, <4>1
      <4>3. flight[i].run = preempts
        BY <1>1, <1>2, <1>13, <3>1, RunningLive
      <4>4. 1 + flight[i].d <= placeholders /\ flight[i].d \in Nat
        BY <1>1, <1>2, <1>13, <3>1, <4>3, CountFacts, FlightFacts
      <4>5. placeholders > 0
        BY <1>4, <4>4
      <4>6. computed + 2 - placeholders < Prompt + MaxTokens
        BY <1>2, <1>4, <4>5 DEF MaxTokensReached
      <4>7. computed = numTokens + placeholders - 1
        BY <1>1, <1>2, <4>5 DEF KVInPlace
      <4>8. numTokens + 1 < Prompt + MaxTokens
        BY <1>4, <4>6, <4>7
      <4>9. \A h \in 1..(N + 1) : ~(h < i)
        BY <3>1, <4>2
      <4> QED
        BY <4>8, <4>9
    <3> QED
      BY <3>3, <3>4
  <2>2. NumSpec' = NumSpec
    BY DEF NumSpec
  <2> QED
    BY <1>14, <1>15, <2>1, <2>2 DEF LastInv
<1> QED
  BY <1>12, <1>16, <1>17, <1>18, <1>19, <1>20, QueuedInv
     DEF IInv, StepInv, OrderInv, EndInv

\* A waiting or preempted request is scheduled.
LEMMA ScheduleWaitingInv ==
    ASSUME IInv, NEW hit \in Nat, NEW n \in Nat, NEW padded \in BOOLEAN,
           ScheduleWaiting(hit, n, padded), conf' = conf
    PROVE  IInv'
<1>1. TypeOK /\ StepInv /\ CountInv /\ KVInPlace /\ OrderInv /\ EndInv
  BY DEF IInv
<1>2. /\ status \in {"waiting", "preempted"} /\ status' = "running"
      /\ stale = 0 \/ drop
      /\ hit \in 0..(numTokens - 1) /\ n \in 1..(numTokens - hit)
      /\ padded => n = 1 /\ hit = numTokens - 1
      /\ out' = out /\ stale' = stale /\ drop' = drop /\ preempts' = preempts
      /\ wpos' = wpos
  BY DEF ScheduleWaiting, MayResume
<1>3. PICK d : d = IF padded THEN NumSpec ELSE 0
  OBVIOUS
<1>4. /\ numTokens \in Nat /\ NumSpec \in Nat /\ preempts \in Nat
  BY <1>1, NumbersFacts, ConfFacts DEF TypeOK
<1>5. d \in Nat /\ d <= NumSpec
  BY <1>3, <1>4
<1>6. PutInStep(hit, n + d, d, TRUE)
  BY <1>3 DEF ScheduleWaiting
<1>7. n + d \in Nat
  BY <1>5
<1>8. PICK s \in StepType : PutIs(s, hit, n + d, d, TRUE)
  BY <1>1, <1>5, <1>6, <1>7, PutFacts
<1>9. /\ s.n = n + d /\ s.d = d /\ s.run = preempts /\ s.first
      /\ s.base = numTokens
      /\ s.samples <=> hit + (n + d) >= numTokens + placeholders
      /\ flight' = Append(flight, s)
      /\ computed' = hit + (n + d) /\ inFlight' = inFlight + (n + d)
      /\ placeholders' = placeholders + (IF s.samples THEN 1 + s.d ELSE 0)
      /\ spec' = IF s.samples THEN NumSpec ELSE 0
      /\ gap' = IF s.samples THEN 1 ELSE NextGap
  BY <1>8 DEF PutIs
<1>10. /\ placeholders = 0
       /\ \A i \in DOMAIN flight : InStep(i) => flight[i].run < preempts
  BY <1>1, <1>2 DEF StepInv, IdleInv
<1>11. /\ s.samples => hit + (n + d) = numTokens + d
       /\ ~s.samples => d = 0 /\ hit + (n + d) < numTokens
  <2>1. CASE padded
    BY <1>2, <1>3, <1>4, <1>5, <1>9, <1>10, <2>1
  <2>2. CASE ~padded
    BY <1>2, <1>3, <1>4, <1>5, <1>9, <1>10, <2>2
  <2> QED
    BY <2>1, <2>2
<1>12. s.n > 0 /\ computed' \in Nat
  BY <1>2, <1>4, <1>5, <1>9
<1>13. spec' \in Nat /\ spec' <= NumSpec
  BY <1>4, <1>9
<1>14. Queued(s)
  BY <1>2, <1>5, <1>9, <1>11, <1>12, <1>13 DEF Queued
<1>15. PICK N \in Nat : N = Len(flight)
  BY <1>1, FlightFacts
<1>16. /\ DOMAIN flight' = 1..(N + 1) /\ flight'[N + 1] = s
       /\ \A i \in 1..N : flight'[i] = flight[i]
       /\ DOMAIN flight = 1..N
       /\ \A i \in 1..N : flight[i].run \in Nat /\ flight[i].n \in Nat
  BY <1>1, <1>9, <1>15, FlightAppend, FlightFacts
<1>17. /\ \A i \in 1..N : /\ InStep(i)' <=> InStep(i)
                          /\ Live(i)' <=> Live(i)
       /\ InStep(N + 1)'
       /\ numTokens' = numTokens
  BY <1>2, <1>9, <1>12, <1>16 DEF InStep, Live, numTokens
<1>18. \A i \in 1..N : InStep(i) => drop
  <2>1. ASSUME NEW i \in 1..N, InStep(i) PROVE drop
    <3>1. flight[i].run < preempts
      BY <1>10, <1>16, <2>1
    <3>2. flight[i].n <= stale
      BY <1>1, <1>4, <1>15, <1>16, <3>1, CountFacts
    <3>3. stale # 0
      BY <1>16, <2>1, <3>2 DEF InStep
    <3> QED
      BY <1>2, <3>3
  <2> QED
    BY <2>1
<1>19. \A i \in 1..N : ~Live(i)
  BY <1>4, <1>10, <1>16, <1>18 DEF Live
<1>20. DropInv'
  <2>1. ASSUME NEW i \in 1..(N + 1), InStep(i)', flight'[i].run < preempts
        PROVE  drop /\ \E j \in 1..(N + 1) : InStep(j)' /\ flight'[j].run = preempts
    <3>1. i # N + 1
      BY <1>4, <1>9, <1>16, <2>1
    <3>2. i \in 1..N
      BY <3>1
    <3> QED
      BY <1>9, <1>16, <1>17, <1>18, <2>1, <3>2
  <2> QED
    BY <1>2, <1>16, <2>1 DEF DropInv
<1>21. \A i \in 1..(N + 1) : Live(i)' => i = N + 1
  <2>1. \A i \in 1..(N + 1) : i \in 1..N \/ i = N + 1
    OBVIOUS
  <2> QED
    BY <1>17, <1>19, <2>1
<1>22. FirstInv' /\ LastInv'
  <2>1. ASSUME NEW i \in 1..(N + 1), NEW j \in 1..(N + 1), i < j, Live(i)', Live(j)'
        PROVE  FALSE
    BY <1>21, <2>1
  <2> QED
    BY <1>16, <2>1 DEF FirstInv, LastInv
<1>23. ChainInv'
  <2>1. ASSUME NEW i \in 1..(N + 1), Live(i)'
        PROVE  flight'[i].first /\ flight'[i].base = numTokens'
    BY <1>9, <1>16, <1>17, <1>21, <2>1
  <2> QED
    BY <1>16, <2>1 DEF ChainInv
<1>24. KVInPlace'
  <2>1. CASE s.samples
    <3>1. computed' = numTokens + placeholders' - 1
      BY <1>4, <1>5, <1>9, <1>10, <1>11, <2>1
    <3> QED
      BY <1>17, <3>1 DEF KVInPlace
  <2>2. CASE ~s.samples
    <3>1. computed' < numTokens /\ placeholders' = 0
      BY <1>9, <1>10, <1>11, <2>2
    <3> QED
      BY <1>4, <1>12, <1>17, <3>1 DEF KVInPlace
  <2> QED
    BY <2>1, <2>2
<1> QED
  BY <1>14, <1>20, <1>22, <1>23, <1>24, QueuedInv
     DEF IInv, StepInv, OrderInv, EndInv

-----------------------------------------------------------------------------
(***************************************************************************)
(* schedule(): the request is left out, or preempted.                      *)
(***************************************************************************)
\* The queue stays, or grows by a batch without the request.
Padded ==
    \/ flight' = flight /\ gap' = gap
    \/ flight' = Append(flight, NotInStep) /\ gap' = NextGap

\* Only what is said of the last N steps can change, and they do not matter.
LEMMA PaddedFacts ==
    ASSUME TypeOK, Padded, conf' = conf
    PROVE  \E m \in Nat :
              /\ Len(flight) <= m /\ DOMAIN flight' = 1..m /\ Len(flight') = m
              /\ flight' \in Seq(StepType)
              /\ \A i \in 1..Len(flight) : flight'[i] = flight[i]
              /\ \A i \in 1..m : i \notin 1..Len(flight) =>
                    /\ flight'[i].n = 0 /\ flight'[i].d = 0
                    /\ ~flight'[i].samples
              /\ gap' \in 1..PP /\ gap' <= gap + m - Len(flight)
<1>1. NotInStep \in StepType /\ NotInStep.n = 0 /\ NotInStep.d = 0
      /\ ~NotInStep.samples
  BY DEF NotInStep, StepType
<1>2. PICK N \in Nat : N = Len(flight)
  BY FlightFacts
<1>3. /\ gap \in Nat /\ gap \in 1..PP /\ NextGap \in Nat /\ NextGap \in 1..PP
      /\ NextGap <= gap + 1
  BY GapFacts, ConfFacts DEF TypeOK
<1>4. CASE flight' = flight /\ gap' = gap
  <2>1. DOMAIN flight' = 1..N /\ Len(flight') = N /\ flight' \in Seq(StepType)
    BY <1>2, <1>4, FlightFacts DEF TypeOK
  <2>2. gap' <= gap + N - N
    BY <1>3, <1>4
  <2> QED
    BY <1>2, <1>3, <1>4, <2>1, <2>2
<1>5. CASE flight' = Append(flight, NotInStep) /\ gap' = NextGap
  <2>1. /\ flight' \in Seq(StepType) /\ Len(flight') = N + 1
        /\ DOMAIN flight' = 1..(N + 1) /\ flight'[N + 1] = NotInStep
        /\ \A i \in 1..N : flight'[i] = flight[i]
    BY <1>1, <1>2, <1>5, FlightAppend
  <2>2. \A i \in 1..(N + 1) : i \in 1..N \/ i = N + 1
    OBVIOUS
  <2>3. N + 1 \in Nat /\ N <= N + 1 /\ gap' <= gap + (N + 1) - N
    BY <1>3, <1>5
  <2> QED
    BY <1>1, <1>2, <1>3, <1>5, <2>1, <2>2, <2>3
<1> QED
  BY <1>4, <1>5 DEF Padded

\* A batch without the request is queued.
LEMMA ScheduleOthersInv ==
    ASSUME IInv, ScheduleOthers, conf' = conf
    PROVE  IInv'
<1>1. TypeOK /\ StepInv /\ CountInv /\ KVInPlace /\ OrderInv /\ EndInv
  BY DEF IInv
<1>2. /\ status' = status /\ out' = out /\ computed' = computed
      /\ placeholders' = placeholders /\ spec' = spec /\ inFlight' = inFlight
      /\ stale' = stale /\ drop' = drop /\ preempts' = preempts /\ wpos' = wpos
      /\ flight' = Append(flight, NotInStep) /\ gap' = NextGap
  BY DEF ScheduleOthers, counts
<1>3. PICK N \in Nat : N = Len(flight)
  BY <1>1, FlightFacts
<1>4. PICK m \in Nat :
         /\ N <= m /\ DOMAIN flight' = 1..m /\ Len(flight') = m
         /\ flight' \in Seq(StepType)
         /\ \A i \in 1..N : flight'[i] = flight[i]
         /\ \A i \in 1..m : i \notin 1..N =>
               /\ flight'[i].n = 0 /\ flight'[i].d = 0 /\ ~flight'[i].samples
         /\ gap' \in 1..PP /\ gap' <= gap + m - N
  BY <1>1, <1>2, <1>3, PaddedFacts DEF Padded
<1>5. /\ numTokens' = numTokens /\ NumSpec' = NumSpec /\ PP' = PP
      /\ DOMAIN flight = 1..N /\ \A i \in 1..N : i \in 1..m
      /\ NumSpec \in Nat
  BY <1>1, <1>2, <1>3, <1>4, FlightFacts, ConfFacts
     DEF numTokens, NumSpec, PP, TypeOK
<1>6. /\ \A i \in 1..N : (InStep(i)' <=> InStep(i)) /\ (Live(i)' <=> Live(i))
      /\ \A i \in 1..m : InStep(i)' => i \in 1..N
      /\ \A i \in 1..m : flight'[i].samples => i \in 1..N
      /\ \A i \in 1..m : Live(i)' => i \in 1..N
  BY <1>2, <1>4 DEF InStep, Live
<1>7. TypeOK'
  BY <1>1, <1>2, <1>4, <1>5 DEF TypeOK
<1>8. StepInv'
  <2>1. StepsInv'
    <3>1. ASSUME NEW i \in 1..m
          PROVE  /\ flight'[i].samples => InStep(i)'
                 /\ ~flight'[i].samples => flight'[i].d = 0
                 /\ flight'[i].d <= NumSpec
                 /\ InStep(i)' => flight'[i].run <= preempts
      <4>1. CASE i \in 1..N
        BY <1>1, <1>4, <1>5, <1>6, <4>1 DEF StepInv, StepsInv
      <4>2. CASE i \notin 1..N
        BY <1>4, <1>5, <1>6, <4>2
      <4> QED
        BY <4>1, <4>2
    <3> QED
      BY <1>2, <1>4, <1>5, <3>1 DEF StepsInv
  <2>2. RunsInv'
    BY <1>1, <1>4, <1>5, <1>6 DEF StepInv, RunsInv
  <2>3. IdleInv'
    BY <1>1, <1>2, <1>4, <1>5, <1>6 DEF StepInv, IdleInv
  <2>4. DropInv'
    BY <1>1, <1>2, <1>4, <1>5, <1>6 DEF StepInv, DropInv
  <2> QED
    BY <1>1, <1>2, <1>5, <2>1, <2>2, <2>3, <2>4 DEF StepInv
<1>9. CountInv'
  <2>1. NotInStep \in StepType /\ NotInStep.n = 0 /\ ~NotInStep.samples
    BY DEF NotInStep, StepType
  <2>2. /\ Total(TokensOf') = Total(TokensOf) + 0
        /\ Total(StaleOf') = Total(StaleOf) + 0
        /\ Total(FreshOf') = Total(FreshOf) + 0
    BY <1>1, <1>2, <2>1, CountAppend
  <2>3. /\ inFlight \in Nat /\ stale \in Nat /\ placeholders \in Nat
        /\ inFlight = Total(TokensOf) /\ stale = Total(StaleOf)
        /\ status # "finished" => placeholders = Total(FreshOf)
    BY <1>1, NumbersFacts DEF CountInv
  <2> QED
    BY <1>2, <2>2, <2>3 DEF CountInv
<1>10. KVInPlace'
  BY <1>1, <1>2, <1>5 DEF KVInPlace
<1>11. OrderInv'
  <2>1. FirstInv'
    BY <1>1, <1>4, <1>5, <1>6 DEF OrderInv, FirstInv
  <2>2. ChainInv'
    <3>1. ASSUME status # "finished", NEW i \in 1..m, Live(i)',
                 \A j \in 1..m : j < i => ~Live(j)'
          PROVE  \/ flight'[i].first /\ flight'[i].base = numTokens'
                 \/ /\ ~flight'[i].first /\ wpos' = numTokens'
                    /\ \A j \in 1..m : j < i => ~InStep(j)'
      <4>1. i \in 1..N /\ Live(i) /\ \A j \in 1..N : j < i => ~Live(j)
        BY <1>5, <1>6, <3>1
      <4>2. \/ flight[i].first /\ flight[i].base = numTokens
            \/ /\ ~flight[i].first /\ wpos = numTokens
               /\ \A j \in 1..N : j < i => ~InStep(j)
        BY <1>1, <1>5, <3>1, <4>1 DEF OrderInv, ChainInv
      <4> QED
        BY <1>2, <1>4, <1>5, <1>6, <4>1, <4>2
    <3> QED
      BY <1>2, <1>4, <3>1 DEF ChainInv
  <2>3. RestInv'
    BY <1>1, <1>2, <1>4, <1>5, <1>6 DEF OrderInv, RestInv
  <2>4. OutInv'
    BY <1>1, <1>2, <1>4, <1>5, <1>6 DEF OrderInv, OutInv
  <2>5. InOrder'
    BY <1>1, <1>2 DEF OrderInv, InOrder
  <2> QED
    BY <2>1, <2>2, <2>3, <2>4, <2>5 DEF OrderInv
<1>12. EndInv'
  <2>1. GapInv'
    <3>1. ASSUME NEW i \in 1..m, flight'[i].samples PROVE gap' <= m - i + 1
      <4>1. i \in 1..N /\ flight[i].samples
        BY <1>4, <1>6, <3>1
      <4>2. gap <= N - i + 1 /\ gap \in Nat /\ gap' \in Nat
        BY <1>1, <1>2, <1>3, <1>5, <4>1, GapFacts DEF EndInv, GapInv
      <4> QED
        BY <1>4, <4>1, <4>2
    <3> QED
      BY <1>4, <3>1 DEF GapInv
  <2>2. LastInv'
    <3>1. ASSUME status # "finished", NEW i \in 1..m, NEW j \in 1..m, i < j,
                 Live(i)', Live(j)', flight'[i].samples
          PROVE  /\ \A h \in 1..m : h < i /\ Live(h)' => ~flight'[h].samples
                 /\ NumSpec = 0 => numTokens + 1 < Prompt + MaxTokens
      BY <1>1, <1>4, <1>5, <1>6, <3>1 DEF EndInv, LastInv
    <3> QED
      BY <1>2, <1>4, <1>5, <3>1 DEF LastInv
  <2>3. BudgetInv' /\ NoOverschedule'
    BY <1>1, <1>2, <1>5 DEF EndInv, BudgetInv, NoOverschedule
  <2> QED
    BY <2>1, <2>2, <2>3 DEF EndInv
<1> QED
  BY <1>7, <1>8, <1>9, <1>10, <1>11, <1>12 DEF IInv

\* The types of the output tokens.
LEMMA OutFacts ==
    ASSUME TypeOK
    PROVE  /\ Len(out) \in Nat /\ DOMAIN out = 1..Len(out)
           /\ \A t \in DOMAIN out : out[t].pos \in Nat /\ out[t].run \in Nat
<1>1. out \in Seq([pos : Nat, run : Nat])
  BY DEF TypeOK
<1>2. /\ Len(out) \in Nat /\ DOMAIN out = 1..Len(out)
      /\ \A t \in DOMAIN out : out[t] \in [pos : Nat, run : Nat]
  BY <1>1, LenProperties, ElementOfSeq
<1> QED
  BY <1>2

\* _preempt_request, in schedule() or from outside.
LEMMA PreemptInv ==
    ASSUME IInv, NEW dropNow \in BOOLEAN, PreemptRequest(dropNow), Padded,
           conf' = conf
    PROVE  IInv'
<1>1. TypeOK /\ StepInv /\ CountInv /\ KVInPlace /\ OrderInv /\ EndInv
  BY DEF IInv
<1>2. /\ status = "running" /\ status' = "preempted"
      /\ drop' = (dropNow \/ (drop /\ stale > 0))
      /\ stale' = inFlight /\ inFlight' = inFlight
      /\ computed' = 0 /\ placeholders' = 0 /\ spec' = 0
      /\ preempts' = preempts + 1 /\ out' = out /\ wpos' = wpos
  BY DEF PreemptRequest
<1>3. PICK N \in Nat : N = Len(flight)
  BY <1>1, FlightFacts
<1>4. PICK m \in Nat :
         /\ N <= m /\ DOMAIN flight' = 1..m /\ Len(flight') = m
         /\ flight' \in Seq(StepType)
         /\ \A i \in 1..N : flight'[i] = flight[i]
         /\ \A i \in 1..m : i \notin 1..N =>
               /\ flight'[i].n = 0 /\ flight'[i].d = 0 /\ ~flight'[i].samples
         /\ gap' \in 1..PP /\ gap' <= gap + m - N
  BY <1>1, <1>3, PaddedFacts
<1>5. /\ numTokens' = numTokens /\ NumSpec' = NumSpec /\ PP' = PP
      /\ DOMAIN flight = 1..N /\ \A i \in 1..N : i \in 1..m
      /\ NumSpec \in Nat /\ preempts \in Nat /\ stale \in Nat /\ inFlight \in Nat
      /\ \A i \in 1..N : flight[i].run \in Nat /\ flight[i].n \in Nat
  <2>1. numTokens' = numTokens /\ NumSpec' = NumSpec /\ PP' = PP
    BY <1>2 DEF numTokens, NumSpec, PP
  <2>2. NumSpec \in Nat
    BY <1>1, ConfFacts DEF TypeOK, NumSpec
  <2>3. preempts \in Nat /\ stale \in Nat /\ inFlight \in Nat
    BY <1>1 DEF TypeOK
  <2>4. DOMAIN flight = 1..N
    BY <1>1, <1>3, FlightFacts
  <2>5. \A i \in 1..N : i \in 1..m
    BY <1>4
  <2>6. \A i \in 1..N : flight[i].run \in Nat /\ flight[i].n \in Nat
    BY <1>1, <2>4, FlightFacts
  <2> QED
    BY <2>1, <2>2, <2>3, <2>4, <2>5, <2>6
<1>6. /\ \A i \in 1..N : InStep(i)' <=> InStep(i)
      /\ \A i \in 1..m : InStep(i)' => i \in 1..N
      /\ \A i \in 1..m : flight'[i].samples => i \in 1..N
      /\ \A i \in 1..m : Live(i)' => InStep(i)'
  BY <1>4 DEF InStep, Live
<1>7. \A i \in 1..N : InStep(i) => flight[i].run <= preempts
  BY <1>1, <1>5 DEF StepInv, StepsInv
<1>8. ASSUME NEW i \in 1..m, Live(i)' PROVE i \in 1..N /\ Live(i)
  <2>1. i \in 1..N /\ InStep(i)
    BY <1>6, <1>8
  <2>2. flight'[i].run # preempts'
    BY <1>2, <1>4, <1>5, <1>7, <2>1
  <2>3. ~drop'
    BY <1>8, <2>2 DEF Live
  <2>4. ~(drop /\ stale > 0)
    BY <1>2, <2>3
  <2>5. CASE ~drop
    BY <2>1, <2>5 DEF Live
  <2>6. CASE ~(stale > 0)
    <3>1. flight[i].run # preempts => flight[i].n <= stale
      BY <1>1, <1>3, <2>1, CountFacts
    <3>2. flight[i].run = preempts
      BY <1>5, <2>1, <2>6, <3>1 DEF InStep
    <3> QED
      BY <2>1, <3>2 DEF Live
  <2> QED
    BY <2>1, <2>4, <2>5, <2>6
<1>9. ASSUME NEW i \in 1..m, Live(i)', NEW j \in 1..N, InStep(j)
      PROVE  Live(j)' /\ Live(j)
  <2>1. ~drop'
    BY <1>2, <1>4, <1>5, <1>6, <1>7, <1>9 DEF Live
  <2>2. InStep(j)' /\ j \in 1..m
    BY <1>5, <1>6, <1>9
  <2>3. Live(j)'
    BY <2>1, <2>2 DEF Live
  <2> QED
    BY <1>8, <2>2, <2>3
<1>10. TypeOK'
  <2>1. drop' \in BOOLEAN
    BY <1>1, <1>2, Zenon DEF TypeOK
  <2> QED
    BY <1>1, <1>2, <1>4, <1>5, <2>1 DEF TypeOK
<1>11. StepInv'
  <2>1. StepsInv'
    <3>1. ASSUME NEW i \in 1..m
          PROVE  /\ flight'[i].samples => InStep(i)'
                 /\ ~flight'[i].samples => flight'[i].d = 0
                 /\ flight'[i].d <= NumSpec
                 /\ InStep(i)' => flight'[i].run <= preempts'
      <4>1. CASE i \in 1..N
        <5>1. /\ flight[i].samples => InStep(i)
              /\ ~flight[i].samples => flight[i].d = 0
              /\ flight[i].d <= NumSpec
          BY <1>1, <1>5, <4>1 DEF StepInv, StepsInv
        <5>2. flight'[i] = flight[i]
          BY <1>4, <4>1
        <5>3. InStep(i)' <=> InStep(i)
          BY <1>6, <4>1
        <5>4. InStep(i) => flight[i].run <= preempts'
          BY <1>2, <1>5, <1>7, <4>1
        <5> QED
          BY <1>5, <5>1, <5>2, <5>3, <5>4
      <4>2. CASE i \notin 1..N
        BY <1>4, <1>5, <1>6, <4>2
      <4> QED
        BY <4>1, <4>2
    <3> QED
      BY <1>4, <1>5, <3>1 DEF StepsInv
  <2>2. RunsInv'
    BY <1>1, <1>4, <1>5, <1>6 DEF StepInv, RunsInv
  <2>3. IdleInv'
    <3>1. ASSUME NEW i \in 1..m, InStep(i)' PROVE flight'[i].run < preempts'
      BY <1>2, <1>4, <1>5, <1>6, <1>7, <3>1
    <3> QED
      BY <1>2, <1>4, <3>1 DEF IdleInv
  <2>4. DropInv' /\ (spec <= NumSpec)'
    BY <1>2, <1>5 DEF DropInv
  <2> QED
    BY <2>1, <2>2, <2>3, <2>4 DEF StepInv
<1>12. CountInv'
  <2>1. StepsInv
    BY <1>1 DEF StepInv
  <2>2. flight' = flight \/ flight' = Append(flight, NotInStep)
    BY DEF Padded
  <2>3. /\ Total(TokensOf') = Total(TokensOf) /\ Total(StaleOf') = Total(TokensOf)
        /\ Total(FreshOf') = 0
    BY <1>1, <1>2, <2>1, <2>2, CountPreempt
  <2> QED
    BY <1>1, <1>2, <2>3 DEF CountInv
<1>13. KVInPlace'
  BY <1>2 DEF KVInPlace
<1>14. OrderInv'
  <2>1. FirstInv'
    BY <1>1, <1>4, <1>5, <1>8 DEF OrderInv, FirstInv
  <2>2. ChainInv'
    <3>1. ASSUME NEW i \in 1..m, Live(i)', \A j \in 1..m : j < i => ~Live(j)'
          PROVE  \/ flight'[i].first /\ flight'[i].base = numTokens'
                 \/ /\ ~flight'[i].first /\ wpos' = numTokens'
                    /\ \A j \in 1..m : j < i => ~InStep(j)'
      <4>1. i \in 1..N /\ Live(i)
        BY <1>8, <3>1
      <4>2. \A j \in 1..N : j < i => ~InStep(j)
        BY <1>5, <1>9, <3>1
      <4>3. \A j \in 1..N : j < i => ~Live(j)
        BY <4>2 DEF Live
      <4>4. \/ flight[i].first /\ flight[i].base = numTokens
            \/ ~flight[i].first /\ wpos = numTokens
        BY <1>1, <1>2, <1>5, <4>1, <4>3 DEF OrderInv, ChainInv
      <4> QED
        BY <1>2, <1>4, <1>5, <1>6, <4>1, <4>2, <4>4
    <3> QED
      BY <1>4, <3>1 DEF ChainInv
  <2>3. RestInv'
    BY <1>2 DEF RestInv
  <2>4. OutInv'
    <3>1. ASSUME NEW t \in DOMAIN out
          PROVE  /\ out[t].run <= preempts'
                 /\ \A i \in 1..m : InStep(i)' => out[t].run <= flight'[i].run
      <4>1. out[t].run \in Nat
        BY <1>1, OutFacts
      <4>2. /\ out[t].run <= preempts
            /\ \A i \in 1..N : InStep(i) => out[t].run <= flight[i].run
        BY <1>1, <1>5 DEF OrderInv, OutInv
      <4> QED
        BY <1>2, <1>4, <1>5, <1>6, <4>1, <4>2
    <3> QED
      BY <1>2, <1>4, <3>1 DEF OutInv
  <2>5. InOrder'
    BY <1>1, <1>2 DEF OrderInv, InOrder
  <2> QED
    BY <2>1, <2>2, <2>3, <2>4, <2>5 DEF OrderInv
<1>15. EndInv'
  <2>1. GapInv'
    <3>1. ASSUME NEW i \in 1..m, flight'[i].samples PROVE gap' <= m - i + 1
      <4>1. i \in 1..N /\ flight[i].samples
        BY <1>4, <1>6, <3>1
      <4>2. gap <= N - i + 1 /\ gap \in Nat
        BY <1>1, <1>3, <1>5, <4>1, GapFacts DEF EndInv, GapInv
      <4>3. gap' \in Int
        BY <1>4
      <4> QED
        BY <1>4, <4>1, <4>2, <4>3
    <3> QED
      BY <1>4, <3>1 DEF GapInv
  <2>2. LastInv'
    <3>1. ASSUME NEW i \in 1..m, NEW j \in 1..m, i < j,
                 Live(i)', Live(j)', flight'[i].samples
          PROVE  /\ \A h \in 1..m : h < i /\ Live(h)' => ~flight'[h].samples
                 /\ NumSpec = 0 => numTokens + 1 < Prompt + MaxTokens
      <4>1. i \in 1..N /\ j \in 1..N /\ Live(i) /\ Live(j) /\ flight[i].samples
        BY <1>4, <1>8, <3>1
      <4>2. /\ \A h \in 1..N : h < i /\ Live(h) => ~flight[h].samples
            /\ NumSpec = 0 => numTokens + 1 < Prompt + MaxTokens
        BY <1>1, <1>2, <1>5, <3>1, <4>1 DEF EndInv, LastInv
      <4> QED
        BY <1>4, <1>8, <4>2
    <3> QED
      BY <1>4, <1>5, <3>1 DEF LastInv
  <2>3. BudgetInv' /\ NoOverschedule'
    BY <1>1, <1>2, <1>5 DEF EndInv, BudgetInv, NoOverschedule
  <2> QED
    BY <2>1, <2>2, <2>3 DEF EndInv
<1> QED
  BY <1>10, <1>11, <1>12, <1>13, <1>14, <1>15 DEF IInv

\* The client goes away.
LEMMA AbortInv ==
    ASSUME IInv, Abort, conf' = conf
    PROVE  IInv'
<1>1. TypeOK /\ StepInv /\ CountInv /\ KVInPlace /\ OrderInv /\ EndInv
  BY DEF IInv
<1>2. /\ status # "finished" /\ status' = "finished"
      /\ out' = out /\ computed' = computed /\ placeholders' = placeholders
      /\ spec' = spec /\ inFlight' = inFlight /\ stale' = stale /\ drop' = drop
      /\ gap' = gap /\ preempts' = preempts /\ flight' = flight /\ wpos' = wpos
  BY DEF Abort, counts
<1>3. TypeOK'
  BY <1>1, <1>2 DEF TypeOK, PP
<1>4. StepInv'
  BY <1>1, <1>2 DEF StepInv, StepsInv, RunsInv, IdleInv, DropInv, InStep, NumSpec
<1>5. CountInv'
  BY <1>1, <1>2 DEF CountInv, TokensOf, StaleOf
<1>6. KVInPlace'
  BY <1>2 DEF KVInPlace
<1>7. OrderInv'
  BY <1>1, <1>2 DEF OrderInv, FirstInv, ChainInv, RestInv, OutInv, InOrder, Live,
       InStep
<1>8. EndInv'
  <2>1. numTokens' = numTokens /\ numTokens < Prompt + MaxTokens
    BY <1>1, <1>2 DEF EndInv, BudgetInv, numTokens
  <2>2. numTokens \in Nat /\ Prompt \in Nat /\ MaxTokens \in Nat
    BY <1>1, NumbersFacts
  <2>3. NoOverschedule'
    BY <1>2, <2>1, <2>2 DEF NoOverschedule
  <2> QED
    BY <1>1, <1>2, <2>3 DEF EndInv, BudgetInv, GapInv, LastInv
<1> QED
  BY <1>3, <1>4, <1>5, <1>6, <1>7, <1>8 DEF IInv

-----------------------------------------------------------------------------
(***************************************************************************)
(* update_from_output.                                                     *)
(***************************************************************************)
\* What only depends on the queue losing its oldest step.
LEMMA TailInv ==
    ASSUME IInv, flight # <<>>, flight' = Tail(flight), conf' = conf,
           preempts' = preempts, drop' = drop, gap' = gap, spec' = spec,
           status' = status \/ status' = "finished",
           status' \in {"waiting", "preempted"} =>
              computed' = computed /\ placeholders' = placeholders
    PROVE  StepInv' /\ FirstInv' /\ GapInv'
<1>1. TypeOK /\ StepInv /\ CountInv /\ KVInPlace /\ OrderInv /\ EndInv
  BY DEF IInv
<1>2. PICK N \in Nat : N = Len(flight) - 1
  <2>1. Len(flight) \in Nat /\ Len(flight) >= 1
    BY <1>1, FlightFacts, FlightTail
  <2> QED
    BY <2>1
<1>3. /\ DOMAIN flight' = 1..N /\ Len(flight') = N /\ Len(flight) = N + 1
      /\ DOMAIN flight = 1..(N + 1)
      /\ \A i \in 1..N : flight'[i] = flight[i + 1]
  BY <1>1, <1>2, FlightTail, FlightFacts
<1>4. /\ \A i \in 1..N : i + 1 \in 1..(N + 1)
      /\ \A i, j \in 1..N : i < j => i + 1 < j + 1
  OBVIOUS
<1>5. \A i \in 1..N : (InStep(i)' <=> InStep(i + 1)) /\ (Live(i)' <=> Live(i + 1))
  BY <1>3 DEF InStep, Live
<1>6. NumSpec' = NumSpec /\ preempts \in Nat
  BY <1>1 DEF NumSpec, TypeOK
<1>7. \A i \in 1..(N + 1) : flight[i].run \in Nat
  BY <1>1, <1>3, FlightFacts
<1>8. StepsInv'
  BY <1>1, <1>3, <1>4, <1>5, <1>6 DEF StepInv, StepsInv
<1>9. RunsInv'
  <2>1. ASSUME NEW i \in 1..N, NEW j \in 1..N, i < j, InStep(i)', InStep(j)'
        PROVE  flight'[i].run <= flight'[j].run
    <3>1. /\ InStep(i + 1) /\ InStep(j + 1) /\ i + 1 < j + 1
          /\ i + 1 \in DOMAIN flight /\ j + 1 \in DOMAIN flight
      BY <1>3, <1>4, <1>5, <2>1
    <3>2. flight[i + 1].run <= flight[j + 1].run
      BY <1>1, <3>1 DEF StepInv, RunsInv
    <3> QED
      BY <1>3, <3>2
  <2> QED
    BY <1>3, <2>1 DEF RunsInv
<1>10. IdleInv'
  BY <1>1, <1>3, <1>4, <1>5 DEF StepInv, IdleInv
<1>11. DropInv'
  <2>1. ASSUME status = "running", NEW i \in 1..N, InStep(i)',
               flight'[i].run < preempts
        PROVE  drop /\ \E j \in 1..N : InStep(j)' /\ flight'[j].run = preempts
    <3>1. InStep(i + 1) /\ flight[i + 1].run < preempts /\ i + 1 \in 1..(N + 1)
      BY <1>3, <1>4, <1>5, <2>1
    <3>2. drop
      BY <1>1, <1>3, <2>1, <3>1 DEF StepInv, DropInv
    <3>3. PICK j \in 1..(N + 1) : InStep(j) /\ flight[j].run = preempts
      BY <1>1, <1>3, <2>1, <3>1 DEF StepInv, DropInv
    <3>4. j # 1
      <4>1. CASE InStep(1)
        <5>1. 1 \in 1..(N + 1) /\ 1 < i + 1
          BY <3>1
        <5>2. flight[1].run <= flight[i + 1].run
          BY <1>1, <1>3, <3>1, <4>1, <5>1 DEF StepInv, RunsInv
        <5>3. flight[1].run # preempts
          BY <1>6, <1>7, <3>1, <5>1, <5>2
        <5> QED
          BY <3>3, <5>3
      <4>2. CASE ~InStep(1)
        BY <3>3, <4>2
      <4> QED
        BY <4>1, <4>2
    <3>5. j - 1 \in 1..N /\ (j - 1) + 1 = j
      BY <3>4
    <3>6. InStep(j - 1)' /\ flight'[j - 1].run = preempts
      BY <1>3, <1>5, <3>3, <3>5
    <3> QED
      BY <3>2, <3>5, <3>6
  <2> QED
    BY <1>3, <2>1 DEF DropInv
<1>12. FirstInv'
  BY <1>1, <1>3, <1>4, <1>5 DEF OrderInv, FirstInv
<1>13. GapInv'
  <2>1. ASSUME NEW i \in 1..N, flight'[i].samples PROVE gap' <= N - i + 1
    <3>1. i + 1 \in 1..(N + 1) /\ flight[i + 1].samples
      BY <1>3, <1>4, <2>1
    <3>2. gap <= (N + 1) - (i + 1) + 1 /\ gap \in Nat
      BY <1>1, <1>3, <3>1, GapFacts DEF EndInv, GapInv
    <3> QED
      BY <3>2
  <2> QED
    BY <1>3, <2>1 DEF GapInv
<1> QED
  BY <1>1, <1>6, <1>8, <1>9, <1>10, <1>11, <1>12, <1>13 DEF StepInv

\* The output of a batch without the request.
LEMMA UpdateOthersInv ==
    ASSUME IInv, UpdateOthers, conf' = conf
    PROVE  IInv'
<1>1. TypeOK /\ StepInv /\ CountInv /\ KVInPlace /\ OrderInv /\ EndInv
  BY DEF IInv
<1>2. /\ flight # <<>> /\ Head(flight).n = 0 /\ flight' = Tail(flight)
      /\ status' = status /\ out' = out /\ computed' = computed
      /\ placeholders' = placeholders /\ spec' = spec /\ inFlight' = inFlight
      /\ stale' = stale /\ drop' = drop /\ gap' = gap /\ preempts' = preempts
      /\ wpos' = wpos
  BY DEF UpdateOthers, counts
<1>3. PICK N \in Nat : N = Len(flight) - 1
  <2>1. Len(flight) \in Nat /\ Len(flight) >= 1
    BY <1>1, <1>2, FlightFacts, FlightTail
  <2> QED
    BY <2>1
<1>4. /\ DOMAIN flight' = 1..N /\ Len(flight) = N + 1
      /\ DOMAIN flight = 1..(N + 1) /\ flight' \in Seq(StepType)
      /\ \A i \in 1..N : flight'[i] = flight[i + 1]
      /\ flight[1].n = 0
  BY <1>1, <1>2, <1>3, FlightTail, FlightFacts
<1>5. /\ \A i \in 1..N : i + 1 \in 1..(N + 1)
      /\ \A i, j \in 1..N : i < j => i + 1 < j + 1
      /\ \A i \in 1..(N + 1) : i = 1 \/ (i - 1 \in 1..N /\ (i - 1) + 1 = i)
      /\ 1 \in 1..(N + 1)
  OBVIOUS
<1>6. /\ \A i \in 1..N : (InStep(i)' <=> InStep(i + 1)) /\ (Live(i)' <=> Live(i + 1))
      /\ ~InStep(1) /\ ~Live(1)
  BY <1>2, <1>4 DEF InStep, Live
<1>7. ~flight[1].samples
  BY <1>1, <1>4, <1>5, <1>6 DEF StepInv, StepsInv
<1>8. /\ numTokens' = numTokens /\ NumSpec' = NumSpec /\ PP' = PP
  BY <1>2 DEF numTokens, NumSpec, PP
<1>9. TypeOK'
  BY <1>1, <1>2, <1>4, <1>8 DEF TypeOK
<1>10. StepInv' /\ FirstInv' /\ GapInv'
  BY <1>2, TailInv
<1>11. CountInv'
  <2>1. /\ Total(TokensOf') = Total(TokensOf) - 0
        /\ Total(StaleOf') = Total(StaleOf) - 0
        /\ Total(FreshOf') = Total(FreshOf) - 0
    BY <1>1, <1>2, <1>4, <1>7, CountTail
  <2>2. /\ inFlight \in Nat /\ stale \in Nat /\ placeholders \in Nat
        /\ inFlight = Total(TokensOf) /\ stale = Total(StaleOf)
        /\ status # "finished" => placeholders = Total(FreshOf)
    BY <1>1, NumbersFacts DEF CountInv
  <2> QED
    BY <1>2, <2>1, <2>2 DEF CountInv
<1>12. KVInPlace'
  BY <1>1, <1>2, <1>8 DEF KVInPlace
<1>13. OrderInv'
  <2>1. ChainInv'
    <3>1. ASSUME status # "finished", NEW i \in 1..N, Live(i)',
                 \A j \in 1..N : j < i => ~Live(j)'
          PROVE  \/ flight'[i].first /\ flight'[i].base = numTokens'
                 \/ /\ ~flight'[i].first /\ wpos' = numTokens'
                    /\ \A j \in 1..N : j < i => ~InStep(j)'
      <4>1. i + 1 \in DOMAIN flight /\ Live(i + 1)
        BY <1>4, <1>5, <1>6, <3>1
      <4>2. ASSUME NEW j \in DOMAIN flight, j < i + 1 PROVE ~Live(j)
        <5>1. CASE j = 1
          BY <1>6, <5>1
        <5>2. CASE j # 1
          <6>1. j - 1 \in 1..N /\ (j - 1) + 1 = j /\ j - 1 < i
            BY <1>4, <4>2, <5>2
          <6> QED
            BY <1>6, <3>1, <6>1
        <5> QED
          BY <5>1, <5>2
      <4>3. \/ flight[i + 1].first /\ flight[i + 1].base = numTokens
            \/ /\ ~flight[i + 1].first /\ wpos = numTokens
               /\ \A j \in DOMAIN flight : j < i + 1 => ~InStep(j)
        BY <1>1, <3>1, <4>1, <4>2 DEF OrderInv, ChainInv
      <4> QED
        BY <1>2, <1>4, <1>5, <1>6, <1>8, <4>3
    <3> QED
      BY <1>2, <1>4, <3>1 DEF ChainInv
  <2>2. RestInv'
    <3>1. (\A i \in 1..N : ~InStep(i)') => \A i \in 1..(N + 1) : ~InStep(i)
      BY <1>5, <1>6
    <3> QED
      BY <1>1, <1>2, <1>4, <1>8, <3>1 DEF OrderInv, RestInv
  <2>3. OutInv'
    BY <1>1, <1>2, <1>4, <1>5, <1>6 DEF OrderInv, OutInv
  <2>4. InOrder'
    BY <1>1, <1>2 DEF OrderInv, InOrder
  <2> QED
    BY <1>10, <2>1, <2>2, <2>3, <2>4 DEF OrderInv
<1>14. EndInv'
  <2>1. LastInv'
    <3>1. ASSUME status # "finished", NEW i \in 1..N, NEW j \in 1..N, i < j,
                 Live(i)', Live(j)', flight'[i].samples
          PROVE  /\ \A h \in 1..N : h < i /\ Live(h)' => ~flight'[h].samples
                 /\ NumSpec = 0 => numTokens + 1 < Prompt + MaxTokens
      <4>1. /\ i + 1 \in DOMAIN flight /\ j + 1 \in DOMAIN flight
            /\ i + 1 < j + 1 /\ Live(i + 1) /\ Live(j + 1)
            /\ flight[i + 1].samples
        BY <1>4, <1>5, <1>6, <3>1
      <4>2. /\ \A h \in DOMAIN flight :
                  h < i + 1 /\ Live(h) => ~flight[h].samples
            /\ NumSpec = 0 => numTokens + 1 < Prompt + MaxTokens
        BY <1>1, <3>1, <4>1 DEF EndInv, LastInv
      <4> QED
        BY <1>4, <1>5, <1>6, <4>2
    <3> QED
      BY <1>2, <1>4, <1>8, <3>1 DEF LastInv
  <2>2. BudgetInv' /\ NoOverschedule'
    BY <1>1, <1>2, <1>8 DEF EndInv, BudgetInv, NoOverschedule
  <2> QED
    BY <1>10, <2>1, <2>2 DEF EndInv
<1> QED
  BY <1>9, <1>10, <1>11, <1>12, <1>13, <1>14 DEF IInv

\* Output is stale exactly when its step is of an older run.
LEMMA HeadStale ==
    ASSUME TypeOK, StepInv, CountInv, 1 \in 1..Len(flight), InStep(1)
    PROVE  /\ stale > 0 <=> flight[1].run # preempts
           /\ stale > 0 => flight[1].n <= stale
           /\ Live(1) <=> ~(stale > 0 /\ drop)
<1>1. /\ preempts \in Nat /\ stale \in Nat
      /\ \A i \in 1..Len(flight) : flight[i].run \in Nat /\ flight[i].n \in Nat
      /\ DOMAIN flight = 1..Len(flight) /\ Len(flight) \in Nat
  BY FlightFacts, NumbersFacts
<1>2. ASSUME stale > 0 PROVE flight[1].run # preempts
  <2>1. PICK i \in 1..Len(flight) : InStep(i) /\ flight[i].run # preempts
    BY <1>2, CountFacts
  <2>2. flight[i].run < preempts
    BY <1>1, <2>1 DEF StepInv, StepsInv
  <2>3. CASE i = 1
    BY <2>1, <2>3
  <2>4. CASE i # 1
    <3>1. 1 < i
      BY <1>1, <2>4
    <3>2. flight[1].run <= flight[i].run
      BY <1>1, <2>1, <3>1 DEF StepInv, RunsInv
    <3> QED
      BY <1>1, <2>2, <3>2
  <2> QED
    BY <2>3, <2>4
<1>3. ASSUME flight[1].run # preempts PROVE stale > 0 /\ flight[1].n <= stale
  <2>1. flight[1].n <= stale
    BY <1>3, CountFacts
  <2>2. flight[1].n > 0
    BY DEF InStep
  <2> QED
    BY <1>1, <2>1, <2>2
<1> QED
  BY <1>2, <1>3 DEF Live

\* What update_from_output does with the k tokens it keeps of the oldest step.
Updated(a, k, stop, s, from, made) ==
    /\ flight # <<>> /\ flight' = Tail(flight) /\ s = flight[1] /\ s.n > 0
    /\ a \in 0..s.d /\ wpos' = from + made
    /\ inFlight' = inFlight - s.n
    /\ stale' = IF stale > 0 THEN stale - s.n ELSE stale
    /\ spec' = spec /\ drop' = drop /\ gap' = gap /\ preempts' = preempts
    /\ from = IF s.first THEN s.base ELSE wpos
    /\ made = IF s.samples THEN 1 + a ELSE 0

\* Nothing is kept.
Ignored(k, made) ==
    /\ status = "finished" \/ (stale > 0 /\ drop) \/ made = 0
    /\ k = 0 /\ status' = status /\ out' = out /\ computed' = computed
    /\ placeholders' = placeholders

\* The output goes to the request.
Delivered(a, k, stop, s, from, made) ==
    /\ status # "finished" /\ ~(stale > 0 /\ drop) /\ made > 0
    /\ k >= 1 /\ k <= made /\ k <= Prompt + MaxTokens - numTokens
    /\ k < made \/ k = Prompt + MaxTokens - numTokens => stop
    /\ out' = out \o [i \in 1..k |-> [pos |-> from + i, run |-> s.run]]
    /\ computed' = IF computed > 0
                     THEN computed - (IF stale > 0 THEN 0 ELSE s.d - a)
                     ELSE computed
    /\ placeholders' =
          (IF placeholders > 0
             THEN placeholders - (IF stale > 0 THEN 0 ELSE s.d - a)
             ELSE placeholders) - (IF stale > 0 THEN 0 ELSE k)
    /\ status' = IF stop THEN "finished" ELSE status

\* update_from_output ignores the output or delivers it.
LEMMA UpdateCases ==
    ASSUME IInv, NEW a \in Nat, NEW k \in Nat, NEW stop \in BOOLEAN,
           UpdateFromOutput(a, k, stop)
    PROVE  \E s, from, made :
              /\ Updated(a, k, stop, s, from, made)
              /\ Ignored(k, made) \/ Delivered(a, k, stop, s, from, made)
<1>1. TypeOK
  BY DEF IInv
<1>2. PICK s : s = Head(flight)
  OBVIOUS
<1>3. PICK from : from = IF s.first THEN s.base ELSE wpos
  OBVIOUS
<1>4. PICK made : made = IF s.samples THEN 1 + a ELSE 0
  OBVIOUS
<1>5. flight # <<>> /\ flight' = Tail(flight) /\ s.n > 0 /\ a \in 0..s.d
  BY <1>2 DEF UpdateFromOutput
<1>6. s = flight[1]
  BY <1>1, <1>2, <1>5, FlightTail
<1>7. Updated(a, k, stop, s, from, made)
  BY <1>2, <1>3, <1>4, <1>5, <1>6 DEF UpdateFromOutput, Updated
<1>8. made \in Nat
  BY <1>4
<1>9. CASE status = "finished" \/ (stale > 0 /\ drop) \/ made = 0
  <2>1. Ignored(k, made)
    BY <1>2, <1>4, <1>9 DEF UpdateFromOutput, Ignored
  <2> QED
    BY <1>7, <2>1
<1>10. CASE ~(status = "finished" \/ (stale > 0 /\ drop) \/ made = 0)
  <2>1. /\ k \in 1..Min2(made, Prompt + MaxTokens - numTokens)
        /\ (k < made \/ k = Prompt + MaxTokens - numTokens) => stop
        /\ out' = out \o [i \in 1..k |-> [pos |-> from + i, run |-> s.run]]
        /\ computed' = IF computed > 0
                         THEN computed - (IF stale > 0 THEN 0 ELSE s.d - a)
                         ELSE computed
        /\ placeholders' =
              (IF placeholders > 0
                 THEN placeholders - (IF stale > 0 THEN 0 ELSE s.d - a)
                 ELSE placeholders) - (IF stale > 0 THEN 0 ELSE k)
        /\ status' = IF stop THEN "finished" ELSE status
    BY <1>2, <1>3, <1>4, <1>10 DEF UpdateFromOutput, Rejected, Filled
  <2>2. numTokens \in Nat /\ Prompt \in Nat /\ MaxTokens \in Nat
    BY <1>1, NumbersFacts
  <2>3. k >= 1 /\ k <= made /\ k <= Prompt + MaxTokens - numTokens
    BY <1>8, <2>1, <2>2 DEF Min2
  <2>4. Delivered(a, k, stop, s, from, made)
    BY <1>8, <1>10, <2>1, <2>3 DEF Delivered
  <2> QED
    BY <1>7, <2>4
<1> QED
  BY <1>9, <1>10

\* What the rest of the proof needs to know of the k tokens kept.
LEMMA UpdateFacts ==
    ASSUME IInv, NEW a \in Nat, NEW k \in Nat, NEW stop \in BOOLEAN, conf' = conf,
           NEW s, NEW from, NEW made, Updated(a, k, stop, s, from, made),
           Ignored(k, made) \/ Delivered(a, k, stop, s, from, made)
    PROVE  /\ made \in Nat /\ from \in Nat
           /\ numTokens' = numTokens + k /\ numTokens' \in Nat
           /\ status' = status \/ status' = "finished"
           /\ Live(1) /\ status' # "finished" => k = made
           /\ Live(1) /\ status # "finished" => from = numTokens
           /\ k > 0 => /\ Live(1) /\ s.samples /\ k <= made /\ status # "finished"
                       /\ numTokens + k <= Prompt + MaxTokens
                       /\ status' # "finished" =>
                             numTokens + k < Prompt + MaxTokens
           /\ status' # status => k > 0
           /\ out' \in Seq([pos : Nat, run : Nat])
           /\ Len(out') = Len(out) + k
           /\ DOMAIN out' = 1..(Len(out) + k)
           /\ \A t \in 1..Len(out) : out'[t] = out[t]
           /\ \A t \in 1..(Len(out) + k) : t \notin 1..Len(out) =>
                 out'[t].pos = Prompt + t /\ out'[t].run = s.run
<1>1. TypeOK /\ StepInv /\ CountInv /\ KVInPlace /\ OrderInv /\ EndInv
  BY DEF IInv
<1>2. /\ flight # <<>> /\ flight' = Tail(flight) /\ s = flight[1] /\ s.n > 0
      /\ from = IF s.first THEN s.base ELSE wpos
      /\ made = IF s.samples THEN 1 + a ELSE 0
  BY DEF Updated
<1>3. 1 \in 1..Len(flight) /\ 1 \in DOMAIN flight /\ InStep(1)
  <2>1. Len(flight) \in Nat /\ Len(flight) >= 1
    BY <1>1, <1>2, FlightTail, FlightFacts
  <2> QED
    BY <1>1, <1>2, <2>1, FlightFacts DEF InStep
<1>4. s.base \in Nat /\ s.run \in Nat
  BY <1>1, <1>2, <1>3, FlightFacts
<1>5. /\ numTokens \in Nat /\ Prompt \in Nat /\ MaxTokens \in Nat
      /\ Len(out) \in Nat /\ numTokens = Prompt + Len(out) /\ wpos \in Nat
  BY <1>1, NumbersFacts
<1>6. made \in Nat /\ from \in Nat
  BY <1>2, <1>4, <1>5
<1>7. ASSUME Live(1), status # "finished" PROVE from = numTokens
  <2>1. \A j \in DOMAIN flight : ~(j < 1)
    BY <1>1, FlightFacts
  <2>2. \/ flight[1].first /\ flight[1].base = numTokens
        \/ ~flight[1].first /\ wpos = numTokens
    BY <1>1, <1>3, <1>7, <2>1 DEF OrderInv, ChainInv
  <2> QED
    BY <1>2, <2>2
<1>8. Live(1) <=> ~(stale > 0 /\ drop)
  BY <1>1, <1>3, HeadStale
<1>9. /\ out \in Seq([pos : Nat, run : Nat]) /\ DOMAIN out = 1..Len(out)
  BY <1>1, OutFacts DEF TypeOK
<1>10. CASE Ignored(k, made)
  <2>1. /\ status = "finished" \/ (stale > 0 /\ drop) \/ made = 0
        /\ k = 0 /\ status' = status /\ out' = out
    BY <1>10 DEF Ignored
  <2>2. numTokens' = numTokens
    BY <2>1 DEF numTokens
  <2>3. Len(out) + k = Len(out) /\ numTokens + k = numTokens /\ ~(k > 0)
    BY <1>5, <2>1
  <2>4. Live(1) /\ status' # "finished" => k = made
    BY <1>8, <2>1
  <2> QED
    BY <1>5, <1>6, <1>7, <1>9, <2>1, <2>2, <2>3, <2>4
<1>11. CASE Delivered(a, k, stop, s, from, made)
  <2>1. /\ status # "finished" /\ ~(stale > 0 /\ drop) /\ made > 0
        /\ k >= 1 /\ k <= made /\ k <= Prompt + MaxTokens - numTokens
        /\ k < made \/ k = Prompt + MaxTokens - numTokens => stop
        /\ status' = IF stop THEN "finished" ELSE status
    BY <1>11 DEF Delivered
  <2>2. Live(1) /\ from = numTokens
    BY <1>7, <1>8, <2>1
  <2>3. PICK new : new = [i \in 1..k |-> [pos |-> from + i, run |-> s.run]]
    OBVIOUS
  <2>4. out' = out \o new
    BY <1>11, <2>3 DEF Delivered
  <2>5. new \in [1..k -> [pos : Nat, run : Nat]]
    BY <1>4, <1>6, <2>3
  <2>6. new \in Seq([pos : Nat, run : Nat]) /\ Len(new) = k
    BY <2>5, LenOf
  <2>7. /\ out' \in Seq([pos : Nat, run : Nat]) /\ Len(out') = Len(out) + k
        /\ \A t \in 1..(Len(out) + k) :
              out'[t] = IF t <= Len(out) THEN out[t] ELSE new[t - Len(out)]
    <3>1. PICK S, x, y : S = [pos : Nat, run : Nat] /\ x = out /\ y = out'
      OBVIOUS
    <3>2. x \in Seq(S) /\ new \in Seq(S) /\ Len(new) = k /\ y = x \o new
      BY <1>9, <2>4, <2>6, <3>1
    <3>3. /\ y \in Seq(S) /\ Len(y) = Len(x) + Len(new)
          /\ \A t \in 1..(Len(x) + Len(new)) :
                y[t] = IF t <= Len(x) THEN x[t] ELSE new[t - Len(x)]
      BY <3>2, ConcatProperties
    <3> QED
      BY <3>1, <3>2, <3>3
  <2>8. DOMAIN out' = 1..(Len(out) + k)
    BY <2>7, LenProperties
  <2>9. \A t \in 1..Len(out) : out'[t] = out[t]
    <3> SUFFICES ASSUME NEW t \in 1..Len(out) PROVE out'[t] = out[t]
      OBVIOUS
    <3>1. PICK n \in Nat : n = Len(out)
      BY <1>5
    <3>2. t \in 1..(n + k) /\ t <= n
      BY <3>1
    <3> QED
      BY <2>7, <3>1, <3>2
  <2>10. ASSUME NEW t \in 1..(Len(out) + k), t \notin 1..Len(out)
         PROVE  out'[t].pos = Prompt + t /\ out'[t].run = s.run
    <3>1. t - Len(out) \in 1..k /\ ~(t <= Len(out))
      BY <1>5, <2>10
    <3>2. out'[t] = [pos |-> from + (t - Len(out)), run |-> s.run]
      BY <2>3, <2>7, <3>1
    <3>3. from + (t - Len(out)) = Prompt + t
      BY <1>5, <2>2
    <3> QED
      BY <3>2, <3>3
  <2>11. numTokens' = numTokens + k
    BY <1>5, <2>7 DEF numTokens
  <2>12. s.samples
    BY <1>2, <2>1
  <2>13. /\ numTokens + k <= Prompt + MaxTokens
         /\ status' # "finished" => numTokens + k < Prompt + MaxTokens /\ k = made
    BY <1>5, <1>6, <2>1
  <2>14. numTokens + k \in Nat /\ k > 0
    BY <1>5, <2>1
  <2> QED
    BY <1>6, <2>1, <2>2, <2>7, <2>8, <2>9, <2>10, <2>11, <2>12, <2>13, <2>14
<1> QED
  BY <1>10, <1>11

\* The counters of the request after its output was taken.
LEMMA UpdateCounts ==
    ASSUME IInv, NEW a \in Nat, NEW k \in Nat, NEW stop \in BOOLEAN, conf' = conf,
           NEW s, NEW from, NEW made, Updated(a, k, stop, s, from, made),
           Ignored(k, made) \/ Delivered(a, k, stop, s, from, made)
    PROVE  /\ computed' \in Nat /\ placeholders' \in Nat
           /\ status' \in {"waiting", "preempted"} =>
                 computed' = computed /\ placeholders' = placeholders
           /\ status' # "finished" =>
                 placeholders' = placeholders -
                    IF s.run = preempts /\ s.samples THEN 1 + s.d ELSE 0
           /\ KVInPlace'
<1>1. TypeOK /\ StepInv /\ CountInv /\ KVInPlace /\ OrderInv /\ EndInv
  BY DEF IInv
<1>2. /\ flight # <<>> /\ flight' = Tail(flight) /\ s = flight[1] /\ s.n > 0
      /\ a \in 0..s.d /\ made = IF s.samples THEN 1 + a ELSE 0
  BY DEF Updated
<1>3. 1 \in 1..Len(flight) /\ 1 \in DOMAIN flight /\ InStep(1)
  <2>1. Len(flight) \in Nat /\ Len(flight) >= 1
    BY <1>1, <1>2, FlightTail, FlightFacts
  <2> QED
    BY <1>1, <1>2, <2>1, FlightFacts DEF InStep
<1>4. s.d \in Nat /\ s.run \in Nat
  BY <1>1, <1>2, <1>3, FlightFacts
<1>5. /\ numTokens \in Nat /\ computed \in Nat /\ placeholders \in Nat
      /\ stale \in Nat /\ preempts \in Nat /\ Prompt \in Nat
      /\ numTokens >= Prompt
  BY <1>1, NumbersFacts
<1>6. /\ stale > 0 <=> s.run # preempts
      /\ Live(1) <=> ~(stale > 0 /\ drop)
  BY <1>1, <1>2, <1>3, HeadStale
<1>7. /\ numTokens' = numTokens + k
      /\ status' = status \/ status' = "finished"
      /\ Live(1) /\ status' # "finished" => k = made
  BY UpdateFacts
<1>8. status \in {"waiting", "preempted"} =>
         s.run # preempts /\ computed = 0 /\ placeholders = 0
  BY <1>1, <1>2, <1>3, <1>4, <1>5 DEF StepInv, IdleInv
<1>9. CASE Ignored(k, made)
  <2>1. /\ status = "finished" \/ (stale > 0 /\ drop) \/ made = 0
        /\ k = 0 /\ status' = status /\ out' = out /\ computed' = computed
        /\ placeholders' = placeholders
    BY <1>9 DEF Ignored
  <2>2. made = 0 => ~s.samples
    BY <1>2
  <2>3. KVInPlace'
    BY <1>1, <2>1 DEF KVInPlace, numTokens
  <2> QED
    BY <1>5, <1>6, <2>1, <2>2, <2>3
<1>10. CASE Delivered(a, k, stop, s, from, made) /\ stale > 0
  <2>1. /\ status # "finished" /\ ~drop
        /\ computed' = computed /\ placeholders' = placeholders
    BY <1>5, <1>10 DEF Delivered
  <2>2. status # "running"
    <3>1. s.run < preempts
      <4>1. s.run <= preempts
        BY <1>1, <1>2, <1>3 DEF StepInv, StepsInv
      <4> QED
        BY <1>4, <1>5, <1>6, <1>10, <4>1
    <3> QED
      BY <1>1, <1>2, <1>3, <2>1, <3>1 DEF StepInv, DropInv
  <2>3. status' # "running"
    BY <1>7, <2>2
  <2> QED
    BY <1>5, <1>6, <1>10, <2>1, <2>3 DEF KVInPlace
<1>11. CASE Delivered(a, k, stop, s, from, made) /\ ~(stale > 0)
  <2>1. /\ status # "finished" /\ made > 0 /\ k >= 1 /\ k <= made
        /\ computed' = IF computed > 0 THEN computed - (s.d - a) ELSE computed
        /\ placeholders' =
              (IF placeholders > 0 THEN placeholders - (s.d - a)
                                   ELSE placeholders) - k
    BY <1>11 DEF Delivered
  <2>2. s.run = preempts /\ s.samples
    BY <1>2, <1>6, <1>11, <2>1
  <2>3. 1 + s.d <= placeholders
    BY <1>1, <1>2, <1>3, <2>1, <2>2, CountFacts
  <2>4. status = "running"
    BY <1>1, <1>8, <2>1, <2>2 DEF TypeOK
  <2>5. computed = numTokens + placeholders - 1
    <3>1. placeholders > 0
      BY <1>4, <1>5, <2>3
    <3> QED
      BY <1>1, <2>4, <3>1 DEF KVInPlace
  <2>6. Prompt >= 1
    BY <1>1, NumbersFacts
  <2>7. computed' = computed - (s.d - a) /\ computed' \in Nat
    <3>1. computed > 0 /\ computed >= s.d
      BY <1>4, <1>5, <2>3, <2>5, <2>6
    <3> QED
      BY <1>2, <1>4, <1>5, <2>1, <3>1
  <2>8. made = 1 + a
    BY <1>2, <2>2
  <2>9. placeholders' = placeholders - (s.d - a) - k /\ placeholders' \in Nat
    <3>1. placeholders > 0
      BY <1>4, <1>5, <2>3
    <3>2. placeholders' = placeholders - (s.d - a) - k
      BY <2>1, <3>1
    <3> QED
      BY <1>2, <1>4, <1>5, <2>1, <2>3, <2>8, <3>2, SMTT(30)
  <2>10. Live(1)
    BY <1>6, <1>11
  <2>11. status' # "finished" => placeholders' = placeholders - (1 + s.d)
    BY <1>4, <1>5, <1>7, <2>8, <2>9, <2>10
  <2>12. KVInPlace'
    <3>1. status' # "finished" => computed' = numTokens' + placeholders' - 1
      BY <1>4, <1>5, <1>7, <2>5, <2>7, <2>8, <2>10, <2>11
    <3> QED
      BY <3>1 DEF KVInPlace
  <2>13. status' \notin {"waiting", "preempted"}
    BY <1>7, <2>4
  <2> QED
    BY <2>2, <2>7, <2>9, <2>11, <2>12, <2>13
<1> QED
  BY <1>9, <1>10, <1>11

\* The output of a batch with the request.
LEMMA UpdateFromOutputInv ==
    ASSUME IInv, NEW a \in Nat, NEW k \in Nat, NEW stop \in BOOLEAN, conf' = conf,
           UpdateFromOutput(a, k, stop)
    PROVE  IInv'
<1>1. TypeOK /\ StepInv /\ CountInv /\ KVInPlace /\ OrderInv /\ EndInv
  BY DEF IInv
<1>2. PICK s, from, made :
         /\ Updated(a, k, stop, s, from, made)
         /\ Ignored(k, made) \/ Delivered(a, k, stop, s, from, made)
  BY UpdateCases
<1>3. /\ flight # <<>> /\ flight' = Tail(flight) /\ s = flight[1] /\ s.n > 0
      /\ a \in 0..s.d /\ wpos' = from + made
      /\ inFlight' = inFlight - s.n
      /\ stale' = IF stale > 0 THEN stale - s.n ELSE stale
      /\ spec' = spec /\ drop' = drop /\ gap' = gap /\ preempts' = preempts
      /\ made = IF s.samples THEN 1 + a ELSE 0
  BY <1>2 DEF Updated
<1>4. PICK N \in Nat : N = Len(flight) - 1
  <2>1. Len(flight) \in Nat /\ Len(flight) >= 1
    BY <1>1, <1>3, FlightFacts, FlightTail
  <2> QED
    BY <2>1
<1>5. /\ DOMAIN flight' = 1..N /\ Len(flight) = N + 1
      /\ DOMAIN flight = 1..(N + 1) /\ flight' \in Seq(StepType)
      /\ \A i \in 1..N : flight'[i] = flight[i + 1]
      /\ \A i \in 1..(N + 1) : flight[i].run \in Nat
      /\ s.n \in Nat /\ s.d \in Nat /\ s.run \in Nat
  <2>1. 1 \in 1..(N + 1)
    OBVIOUS
  <2> QED
    BY <1>1, <1>3, <1>4, <2>1, FlightTail, FlightFacts
<1>6. /\ \A i \in 1..N : i + 1 \in 1..(N + 1) /\ 1 < i + 1
      /\ \A i, j \in 1..N : i < j => i + 1 < j + 1
      /\ \A i \in 1..(N + 1) : i = 1 \/ (i - 1 \in 1..N /\ (i - 1) + 1 = i)
      /\ 1 \in 1..(N + 1)
  OBVIOUS
<1>7. /\ \A i \in 1..N : (InStep(i)' <=> InStep(i + 1)) /\ (Live(i)' <=> Live(i + 1))
      /\ InStep(1)
  BY <1>3, <1>5 DEF InStep, Live
<1>8. /\ made \in Nat /\ from \in Nat
      /\ numTokens' = numTokens + k /\ numTokens' \in Nat
      /\ status' = status \/ status' = "finished"
      /\ Live(1) /\ status' # "finished" => k = made
      /\ Live(1) /\ status # "finished" => from = numTokens
      /\ k > 0 => /\ Live(1) /\ s.samples /\ k <= made /\ status # "finished"
                  /\ numTokens + k <= Prompt + MaxTokens
                  /\ status' # "finished" => numTokens + k < Prompt + MaxTokens
      /\ status' # status => k > 0
      /\ out' \in Seq([pos : Nat, run : Nat])
      /\ Len(out') = Len(out) + k
      /\ DOMAIN out' = 1..(Len(out) + k)
      /\ \A t \in 1..Len(out) : out'[t] = out[t]
      /\ \A t \in 1..(Len(out) + k) : t \notin 1..Len(out) =>
            out'[t].pos = Prompt + t /\ out'[t].run = s.run
  BY <1>2, UpdateFacts
<1>9. /\ computed' \in Nat /\ placeholders' \in Nat
      /\ status' \in {"waiting", "preempted"} =>
            computed' = computed /\ placeholders' = placeholders
      /\ status' # "finished" =>
            placeholders' = placeholders -
               IF s.run = preempts /\ s.samples THEN 1 + s.d ELSE 0
      /\ KVInPlace'
  BY <1>2, UpdateCounts
<1>10. /\ NumSpec' = NumSpec /\ PP' = PP /\ NumSpec \in Nat
       /\ numTokens \in Nat /\ Prompt \in Nat /\ MaxTokens \in Nat
       /\ stale \in Nat /\ inFlight \in Nat /\ preempts \in Nat /\ k \in Nat
       /\ Len(out) \in Nat
  BY <1>1, ConfFacts, NumbersFacts DEF NumSpec, PP, TypeOK
<1>11. /\ stale > 0 <=> s.run # preempts
       /\ stale > 0 => s.n <= stale
       /\ s.n <= inFlight
       /\ Live(1) <=> ~(stale > 0 /\ drop)
  BY <1>1, <1>3, <1>5, <1>6, <1>7, HeadStale, CountFacts
<1>12. TypeOK'
  <2>1. inFlight' \in Nat /\ stale' \in Nat
    <3>1. PICK n \in Nat : n = s.n
      BY <1>5
    <3>2. inFlight' = inFlight - n /\ n <= inFlight
      BY <1>3, <1>11, <3>1
    <3>3. CASE stale > 0
      <4>1. stale' = stale - n /\ n <= stale
        BY <1>3, <1>11, <3>1, <3>3
      <4>2. stale \in Nat /\ inFlight \in Nat
        BY <1>10
      <4> QED
        BY <3>2, <4>1, <4>2
    <3>4. CASE ~(stale > 0)
      <4>1. stale' = stale
        BY <1>3, <3>4
      <4>2. stale \in Nat /\ inFlight \in Nat
        BY <1>10
      <4> QED
        BY <3>2, <4>1, <4>2
    <3> QED
      BY <3>3, <3>4
  <2>2. wpos' \in Nat
    BY <1>3, <1>8
  <2>3. status' \in {"waiting", "running", "preempted", "finished"}
    BY <1>1, <1>8 DEF TypeOK
  <2> QED
    BY <1>1, <1>3, <1>5, <1>8, <1>9, <1>10, <2>1, <2>2, <2>3 DEF TypeOK
<1>13. StepInv' /\ FirstInv' /\ GapInv'
  BY <1>3, <1>8, <1>9, TailInv
<1>14. /\ Total(TokensOf') = Total(TokensOf) - s.n
       /\ Total(StaleOf') =
            Total(StaleOf) - IF s.run # preempts THEN s.n ELSE 0
       /\ Total(FreshOf') =
            Total(FreshOf) - IF s.run = preempts /\ s.samples
                               THEN 1 + s.d ELSE 0
       /\ (\A i \in 2..Len(flight) : ~InStep(i)) => Total(TokensOf') = 0
  BY <1>1, <1>3, CountTail
<1>15. CountInv'
  <2>1. /\ inFlight = Total(TokensOf) /\ stale = Total(StaleOf)
        /\ status # "finished" => placeholders = Total(FreshOf)
    BY <1>1 DEF CountInv
  <2>2. inFlight' = Total(TokensOf')
    BY <1>3, <1>14, <2>1
  <2>3. stale' = Total(StaleOf')
    <3>1. CASE stale > 0
      <4>1. stale' = stale - s.n /\ s.run # preempts
        BY <1>3, <1>11, <3>1
      <4> QED
        BY <1>14, <2>1, <4>1
    <3>2. CASE ~(stale > 0)
      <4>1. stale' = stale /\ s.run = preempts
        BY <1>3, <1>11, <3>2
      <4>2. stale = stale - 0
        BY <1>10
      <4> QED
        BY <1>14, <2>1, <4>1, <4>2
    <3> QED
      BY <3>1, <3>2
  <2>4. status' # "finished" => placeholders' = Total(FreshOf')
    BY <1>8, <1>9, <1>14, <2>1
  <2> QED
    BY <2>2, <2>3, <2>4 DEF CountInv
<1>16. \A j \in 1..(N + 1) : Live(1) /\ InStep(j) => Live(j)
  <2>1. ASSUME NEW j \in 1..(N + 1), Live(1), InStep(j) PROVE Live(j)
    <3>1. CASE j = 1
      BY <2>1, <3>1
    <3>2. CASE j # 1
      <4>1. 1 < j
        BY <3>2
      <4> QED
        BY <1>1, <1>5, <1>6, <2>1, <4>1, LiveStays
    <3> QED
      BY <3>1, <3>2
  <2> QED
    BY <2>1
<1>17. ChainInv'
  <2>1. ASSUME status' # "finished", NEW i \in 1..N, Live(i)',
               \A j \in 1..N : j < i => ~Live(j)'
        PROVE  \/ flight'[i].first /\ flight'[i].base = numTokens'
               \/ /\ ~flight'[i].first /\ wpos' = numTokens'
                  /\ \A j \in 1..N : j < i => ~InStep(j)'
    <3>1. i + 1 \in DOMAIN flight /\ 1 \in DOMAIN flight /\ 1 < i + 1
          /\ Live(i + 1)
      BY <1>5, <1>6, <1>7, <2>1
    <3>2. CASE Live(1)
      <4>1. ~flight'[i].first
        BY <1>1, <1>5, <3>1, <3>2 DEF OrderInv, FirstInv
      <4>2. wpos' = numTokens'
        BY <1>3, <1>8, <2>1, <3>2
      <4>3. \A j \in 1..N : j < i => ~InStep(j)'
        BY <1>6, <1>7, <1>16, <2>1, <3>2
      <4> QED
        BY <4>1, <4>2, <4>3
    <3>3. CASE ~Live(1)
      <4>1. k = 0 /\ numTokens' = numTokens
        BY <1>8, <1>10, <3>3
      <4>2. ASSUME NEW j \in DOMAIN flight, j < i + 1 PROVE ~Live(j)
        <5>1. CASE j = 1
          BY <3>3, <5>1
        <5>2. CASE j # 1
          <6>1. j - 1 \in 1..N /\ (j - 1) + 1 = j /\ j - 1 < i
            BY <1>5, <4>2, <5>2
          <6> QED
            BY <1>7, <2>1, <6>1
        <5> QED
          BY <5>1, <5>2
      <4>3. status # "finished"
        BY <1>8, <2>1
      <4>4. \/ flight[i + 1].first /\ flight[i + 1].base = numTokens
            \/ /\ ~flight[i + 1].first /\ wpos = numTokens
               /\ \A j \in DOMAIN flight : j < i + 1 => ~InStep(j)
        BY <1>1, <3>1, <4>2, <4>3 DEF OrderInv, ChainInv
      <4> QED
        BY <1>5, <1>7, <3>1, <4>1, <4>4
    <3> QED
      BY <3>2, <3>3
  <2> QED
    BY <1>5, <2>1 DEF ChainInv
<1>18. RestInv'
  <2> SUFFICES ASSUME status' = "running", \A i \in 1..N : ~InStep(i)'
               PROVE  wpos' = numTokens'
    BY <1>5 DEF RestInv
  <2>1. status = "running"
    BY <1>8
  <2>2. Live(1)
    <3> SUFFICES ASSUME ~Live(1) PROVE FALSE
      OBVIOUS
    <3>1. s.run < preempts
      <4>1. s.run <= preempts
        BY <1>1, <1>3, <1>5, <1>6, <1>7 DEF StepInv, StepsInv
      <4> QED
        BY <1>5, <1>10, <1>11, <4>1
    <3>2. PICK j \in 1..(N + 1) : InStep(j) /\ flight[j].run = preempts
      BY <1>1, <1>3, <1>5, <1>6, <1>7, <2>1, <3>1 DEF StepInv, DropInv
    <3>3. j # 1
      BY <1>3, <1>5, <1>10, <3>1, <3>2
    <3> QED
      BY <1>6, <1>7, <3>2, <3>3
  <2> QED
    BY <1>3, <1>8, <2>1, <2>2
<1>19. OutInv'
  <2>1. s.run <= preempts
    BY <1>1, <1>3, <1>5, <1>6, <1>7 DEF StepInv, StepsInv
  <2>2. DOMAIN out = 1..Len(out)
    BY <1>1, OutFacts
  <2>3. ASSUME NEW i \in 1..N, InStep(i)' PROVE s.run <= flight'[i].run
    BY <1>1, <1>3, <1>5, <1>6, <1>7, <2>3 DEF StepInv, RunsInv
  <2>4. ASSUME NEW t \in 1..(Len(out) + k)
        PROVE  /\ out'[t].run <= preempts
               /\ \A i \in 1..N : InStep(i)' => out'[t].run <= flight'[i].run
    <3>1. CASE t \in 1..Len(out)
      <4>1. out'[t] = out[t]
        BY <1>8, <3>1
      <4>2. /\ out[t].run <= preempts
            /\ \A i \in 1..(N + 1) : InStep(i) => out[t].run <= flight[i].run
        BY <1>1, <1>5, <2>2, <3>1 DEF OrderInv, OutInv
      <4> QED
        BY <1>5, <1>6, <1>7, <4>1, <4>2
    <3>2. CASE t \notin 1..Len(out)
      BY <1>8, <2>1, <2>3, <2>4, <3>2
    <3> QED
      BY <3>1, <3>2
  <2> QED
    BY <1>3, <1>5, <1>8, <2>4 DEF OutInv
<1>20. InOrder'
  <2>1. DOMAIN out = 1..Len(out)
    BY <1>1, OutFacts
  <2>2. ASSUME NEW t \in 1..(Len(out) + k)
        PROVE  /\ out'[t].pos = Prompt + t
               /\ t > 1 => out'[t].run >= out'[t - 1].run
    <3>1. CASE t \in 1..Len(out)
      <4>1. /\ out[t].pos = Prompt + t
            /\ t > 1 => out[t].run >= out[t - 1].run
        BY <1>1, <2>1, <3>1 DEF OrderInv, InOrder
      <4>2. t > 1 => t - 1 \in 1..Len(out)
        BY <1>10, <3>1
      <4> QED
        BY <1>8, <3>1, <4>1, <4>2
    <3>2. CASE t \notin 1..Len(out)
      <4>1. out'[t].pos = Prompt + t /\ out'[t].run = s.run
        BY <1>8, <3>2
      <4>2. ASSUME t > 1 PROVE s.run >= out'[t - 1].run
        <5>1. t - 1 \in 1..(Len(out) + k)
          BY <1>10, <4>2
        <5>2. CASE t - 1 \in 1..Len(out)
          <6>1. out[t - 1].run <= flight[1].run /\ out[t - 1].run \in Nat
            BY <1>1, <1>5, <1>6, <1>7, <2>1, <5>2, OutFacts DEF OrderInv, OutInv
          <6> QED
            BY <1>3, <1>5, <1>8, <5>2, <6>1
        <5>3. CASE t - 1 \notin 1..Len(out)
          <6>1. out'[t - 1].run = s.run
            BY <1>8, <5>1, <5>3
          <6> QED
            BY <1>5, <6>1
        <5> QED
          BY <5>2, <5>3
      <4> QED
        BY <4>1, <4>2
    <3> QED
      BY <3>1, <3>2
  <2> QED
    BY <1>8, <2>2 DEF InOrder
<1>21. BudgetInv'
  <2>1. ASSUME status' # "finished" PROVE numTokens' < Prompt + MaxTokens
    <3>1. CASE k > 0
      BY <1>8, <2>1, <3>1
    <3>2. CASE ~(k > 0)
      <4>1. numTokens' = numTokens /\ status # "finished"
        BY <1>8, <1>10, <2>1, <3>2
      <4> QED
        BY <1>1, <4>1 DEF EndInv, BudgetInv
    <3> QED
      BY <3>1, <3>2
  <2> QED
    BY <2>1 DEF BudgetInv
<1>22. LastInv'
  <2>1. ASSUME status' # "finished", NEW i \in 1..N, NEW j \in 1..N, i < j,
               Live(i)', Live(j)', flight'[i].samples
        PROVE  /\ \A h \in 1..N : h < i /\ Live(h)' => ~flight'[h].samples
               /\ NumSpec = 0 => numTokens' + 1 < Prompt + MaxTokens
    <3>1. /\ i + 1 \in DOMAIN flight /\ j + 1 \in DOMAIN flight
          /\ i + 1 < j + 1 /\ Live(i + 1) /\ Live(j + 1)
          /\ flight[i + 1].samples /\ 1 \in DOMAIN flight /\ 1 < i + 1
      BY <1>5, <1>6, <1>7, <2>1
    <3>2. status # "finished"
      BY <1>8, <2>1
    <3>3. /\ \A h \in DOMAIN flight :
                h < i + 1 /\ Live(h) => ~flight[h].samples
          /\ NumSpec = 0 => numTokens + 1 < Prompt + MaxTokens
      BY <1>1, <3>1, <3>2 DEF EndInv, LastInv
    <3>4. ~(k > 0)
      BY <1>3, <1>8, <3>1, <3>3
    <3>5. numTokens' = numTokens
      BY <1>8, <1>10, <3>4
    <3> QED
      BY <1>5, <1>6, <1>7, <3>3, <3>5
  <2> QED
    BY <1>5, <1>10, <2>1 DEF LastInv
<1>23. NoOverschedule'
  <2> SUFFICES ASSUME status' = "finished", numTokens' = Prompt + MaxTokens,
                      NumSpec = 0
               PROVE  inFlight' = 0
    BY <1>10 DEF NoOverschedule
  <2>1. CASE ~(k > 0)
    <3>1. numTokens' = numTokens /\ status = "finished"
      BY <1>8, <1>10, <2>1
    <3>2. inFlight = 0
      BY <1>1, <3>1 DEF EndInv, NoOverschedule
    <3> QED
      BY <1>3, <1>5, <1>11, <3>2
  <2>2. CASE k > 0
    <3>1. Live(1) /\ s.samples /\ k <= made /\ status # "finished"
      BY <1>8, <2>2
    <3>2. s.d <= 0
      BY <1>1, <1>3, <1>5, <1>6 DEF StepInv, StepsInv
    <3>3. a = 0 /\ made = 1
      BY <1>3, <1>5, <3>1, <3>2
    <3>4. numTokens + 1 = Prompt + MaxTokens
      BY <1>8, <1>10, <2>2, <3>1, <3>3
    <3>5. ASSUME NEW j \in 2..Len(flight), InStep(j) PROVE FALSE
      <4>1. j \in 1..(N + 1) /\ 1 < j
        BY <1>5, <3>5
      <4>2. Live(j)
        BY <1>16, <3>1, <3>5, <4>1
      <4>3. numTokens + 1 < Prompt + MaxTokens
        BY <1>1, <1>3, <1>5, <1>6, <3>1, <4>1, <4>2 DEF EndInv, LastInv
      <4> QED
        BY <1>10, <3>4, <4>3
    <3>6. Total(TokensOf') = 0
      BY <1>14, <3>5
    <3> QED
      BY <1>15, <3>6 DEF CountInv
  <2> QED
    BY <2>1, <2>2
<1> QED
  BY <1>9, <1>12, <1>13, <1>15, <1>17, <1>18, <1>19, <1>20, <1>21, <1>22, <1>23
     DEF IInv, OrderInv, EndInv

-----------------------------------------------------------------------------
(***************************************************************************)
(* The theorems.                                                           *)
(***************************************************************************)
\* The invariant holds when the engine starts.
LEMMA InitInv ==
    ASSUME Init
    PROVE  IInv
<1>1. /\ conf \in Configs /\ status = "waiting" /\ out = <<>>
      /\ computed = 0 /\ placeholders = 0 /\ spec = 0 /\ inFlight = 0
      /\ stale = 0 /\ drop = FALSE /\ gap = PP /\ preempts = 0
      /\ flight = <<>> /\ wpos = 0
  BY DEF Init
<1>2. NumSpec \in Nat /\ PP \in Nat /\ PP >= 1
  BY <1>1, ConfFacts
<1>3. /\ out \in Seq([pos : Nat, run : Nat]) /\ flight \in Seq(StepType)
      /\ DOMAIN out = {} /\ DOMAIN flight = {} /\ Len(out) = 0
      /\ Len(flight) = 0
  BY <1>1
<1>4. TypeOK
  <2>1. {computed, placeholders, spec, inFlight, stale} \subseteq Nat
    BY <1>1
  <2>2. gap \in 1..PP /\ preempts \in Nat /\ wpos \in Nat
    BY <1>1, <1>2
  <2>3. drop \in BOOLEAN
    BY <1>1
  <2>4. status \in {"waiting", "running", "preempted", "finished"}
    BY <1>1
  <2> QED
    BY <1>1, <1>3, <2>1, <2>2, <2>3, <2>4 DEF TypeOK
<1>5. StepInv
  BY <1>1, <1>2, <1>3 DEF StepInv, StepsInv, RunsInv, IdleInv, DropInv
<1>6. CountInv
  <2>1. Len(TokensOf) = 0 /\ Len(StaleOf) = 0 /\ Len(FreshOf) = 0
    BY <1>3, <1>4, SummedFacts
  <2>2. 0 \in Nat /\ \A i \in 1..0 : FALSE
    OBVIOUS
  <2>3. Total(TokensOf) = 0 /\ Total(StaleOf) = 0 /\ Total(FreshOf) = 0
    BY <2>1, <2>2, TotalZero
  <2> QED
    BY <1>1, <2>3 DEF CountInv
<1>7. KVInPlace
  BY <1>1 DEF KVInPlace
<1>8. OrderInv
  BY <1>1, <1>3 DEF OrderInv, FirstInv, ChainInv, RestInv, OutInv, InOrder
<1>9. EndInv
  <2>1. numTokens < Prompt + MaxTokens
    BY <1>3, AsyncAssumption DEF numTokens
  <2> QED
    BY <1>1, <1>3, <2>1 DEF EndInv, BudgetInv, GapInv, LastInv, NoOverschedule
<1> QED
  BY <1>4, <1>5, <1>6, <1>7, <1>8, <1>9 DEF IInv

\* A step that changes nothing preserves the invariant.
LEMMA StutterInv ==
    ASSUME IInv, UNCHANGED vars
    PROVE  IInv'
<1>1. TypeOK /\ StepInv /\ CountInv /\ KVInPlace /\ OrderInv /\ EndInv
  BY DEF IInv
<1>2. /\ conf' = conf /\ status' = status /\ out' = out
      /\ computed' = computed /\ placeholders' = placeholders /\ spec' = spec
      /\ inFlight' = inFlight /\ stale' = stale /\ drop' = drop /\ gap' = gap
      /\ preempts' = preempts /\ flight' = flight /\ wpos' = wpos
  BY DEF vars, counts
<1>3. TypeOK' /\ StepInv' /\ CountInv'
  BY <1>1, <1>2 DEF TypeOK, PP, StepInv, StepsInv, RunsInv, IdleInv, DropInv,
       InStep, NumSpec, CountInv, TokensOf, StaleOf, FreshOf
<1>4. KVInPlace' /\ OrderInv'
  BY <1>1, <1>2 DEF KVInPlace, numTokens, OrderInv, FirstInv, ChainInv, RestInv,
       OutInv, InOrder, Live, InStep
<1>5. EndInv'
  BY <1>1, <1>2 DEF EndInv, BudgetInv, GapInv, LastInv, NoOverschedule,
       numTokens, NumSpec, Live, InStep
<1> QED
  BY <1>3, <1>4, <1>5 DEF IInv

\* Every step of the scheduler and of the engine preserves the invariant.
LEMMA NextInv ==
    ASSUME IInv, [Next]_vars
    PROVE  IInv'
<1>1. ASSUME ScheduleRequest PROVE IInv'
  <2>1. conf' = conf
    BY <1>1 DEF ScheduleRequest
  <2>2. ASSUME NEW n \in 1..(Prompt + MaxTokens + NumSpec), ScheduleRunning(n)
        PROVE  IInv'
    <3>1. n \in Nat
      BY <2>2
    <3> QED
      BY <2>1, <2>2, <3>1, ScheduleRunningInv
  <2>3. ASSUME NEW hit \in 0..(Prompt + MaxTokens),
               NEW n \in 1..(Prompt + MaxTokens), NEW padded \in BOOLEAN,
               ScheduleWaiting(hit, n, padded)
        PROVE  IInv'
    <3>1. hit \in Nat /\ n \in Nat
      BY <2>3
    <3> QED
      BY <2>1, <2>3, <3>1, ScheduleWaitingInv
  <2> QED
    BY <1>1, <2>2, <2>3 DEF ScheduleRequest
<1>2. ASSUME ScheduleNone PROVE IInv'
  <2>1. conf' = conf
    BY <1>2 DEF ScheduleNone
  <2>2. CASE ScheduleOthers
    BY <2>1, <2>2, ScheduleOthersInv
  <2>3. CASE Preempt
    <3>1. PreemptRequest(Producer) /\ Padded /\ Producer \in BOOLEAN
      BY <2>3, ConfFacts DEF Preempt, Padded, IInv, TypeOK
    <3> QED
      BY <2>1, <3>1, PreemptInv
  <2> QED
    BY <1>2, <2>2, <2>3 DEF ScheduleNone
<1>3. ASSUME Update PROVE IInv'
  <2>1. conf' = conf
    BY <1>3 DEF Update
  <2>2. ASSUME NEW a \in 0..NumSpec, NEW k \in 0..(NumSpec + 1),
               NEW stop \in BOOLEAN, UpdateFromOutput(a, k, stop)
        PROVE  IInv'
    <3>1. a \in Nat /\ k \in Nat
      BY <2>2
    <3> QED
      BY <2>1, <2>2, <3>1, UpdateFromOutputInv
  <2>3. CASE UpdateOthers
    BY <2>1, <2>3, UpdateOthersInv
  <2> QED
    BY <1>3, <2>2, <2>3 DEF Update
<1>4. ASSUME Outside PROVE IInv'
  <2>1. conf' = conf
    BY <1>4 DEF Outside
  <2>2. CASE ForceReset
    <3>1. PreemptRequest(TRUE) /\ Padded /\ TRUE \in BOOLEAN
      BY <2>2 DEF ForceReset, Padded
    <3> QED
      BY <2>1, <3>1, PreemptInv
  <2>3. CASE Abort
    BY <2>1, <2>3, AbortInv
  <2> QED
    BY <1>4, <2>2, <2>3 DEF Outside
<1> QED
  BY <1>1, <1>2, <1>3, <1>4, StutterInv DEF Next

\* The queue of batches, the counters, the worker and the output fit together
\* in every state the asynchronous scheduler can reach.
THEOREM Invariance == Spec => []IInv
<1>1. Init => IInv
  BY InitInv
<1>2. IInv /\ [Next]_vars => IInv'
  BY NextInv
<1> QED
  BY <1>1, <1>2, PTL DEF Spec

\* No counter of the request is ever negative, whatever is preempted, reset or
\* rejected while output is in flight: the assertions of update_from_output
\* and _update_request_with_output hold.
THEOREM TypeCorrect == Spec => []TypeOK
<1>1. IInv => TypeOK
  BY DEF IInv
<1> QED
  BY <1>1, Invariance, PTL

\* Every output token stands where the worker sampled it: no preemption, reset
\* or rejected draft loses one, delivers one twice or mixes two runs.
THEOREM OutputInOrder == Spec => []InOrder
<1>1. IInv => InOrder
  BY DEF IInv, OrderInv
<1> QED
  BY <1>1, Invariance, PTL

\* After the prefill the scheduler asks for exactly the newest token and its
\* drafts: num_computed_tokens is one short of what is known and promised.
THEOREM KVStaysInPlace == Spec => []KVInPlace
<1>1. IInv => KVInPlace
  BY DEF IInv
<1> QED
  BY <1>1, Invariance, PTL

\* num_in_flight_tokens, num_stale_output_tokens and num_output_placeholders
\* are the sums over the batch queue that they are kept for.
THEOREM CountersAreExact == Spec => []CountersExact
<1>1. ASSUME IInv PROVE CountersExact
  <2> SUFFICES ASSUME status # "finished"
               PROVE  /\ inFlight = Total([i \in DOMAIN flight |-> flight[i].n])
                      /\ stale = Total([i \in DOMAIN flight |->
                                   IF Stale(i) THEN flight[i].n ELSE 0])
                      /\ placeholders = Total([i \in DOMAIN flight |->
                                   IF Stale(i) \/ ~flight[i].samples
                                     THEN 0 ELSE 1 + flight[i].d])
    BY DEF CountersExact
  <2>1. TypeOK /\ StepInv /\ CountInv
    BY <1>1 DEF IInv
  <2>2. ASSUME NEW i \in DOMAIN flight
        PROVE  /\ (IF Stale(i) THEN flight[i].n ELSE 0) =
                     IF flight[i].run # preempts THEN flight[i].n ELSE 0
               /\ (IF Stale(i) \/ ~flight[i].samples
                     THEN 0 ELSE 1 + flight[i].d) =
                     IF flight[i].run = preempts /\ flight[i].samples
                       THEN 1 + flight[i].d ELSE 0
    <3>1. flight[i].n \in Nat /\ flight[i].run \in Nat /\ preempts \in Nat
      BY <2>1, <2>2, FlightFacts, NumbersFacts
    <3>2. /\ status = "preempted" /\ flight[i].n > 0 => flight[i].run < preempts
          /\ flight[i].samples => flight[i].n > 0
      BY <2>1, <2>2 DEF StepInv, IdleInv, StepsInv, InStep
    <3> QED
      BY <3>1, <3>2 DEF Stale
  <2>3. /\ TokensOf = [i \in DOMAIN flight |-> flight[i].n]
        /\ StaleOf = [i \in DOMAIN flight |->
                        IF Stale(i) THEN flight[i].n ELSE 0]
        /\ FreshOf = [i \in DOMAIN flight |->
                        IF Stale(i) \/ ~flight[i].samples
                          THEN 0 ELSE 1 + flight[i].d]
    BY <2>2 DEF TokensOf, StaleOf, FreshOf
  <2> QED
    BY <2>1, <2>3 DEF CountInv
<1>2. IInv => CountersExact
  BY <1>1
<1> QED
  BY <1>2, Invariance, PTL

\* A request without drafts that reaches max_tokens was not scheduled past its
\* last token: nothing of it is left in flight to defer its frees.
THEOREM NothingOverscheduled == Spec => []NoOverschedule
<1>1. IInv => NoOverschedule
  BY DEF IInv, EndInv
<1> QED
  BY <1>1, Invariance, PTL

-----------------------------------------------------------------------------
(***************************************************************************)
(* What holds a request back.  A request that is not scheduled waits for   *)
(* output, or for its turn; it must not wait for output that nothing in    *)
(* flight will bring.                                                      *)
(***************************************************************************)
\* Stale output to be delivered, and a token of the current run, in flight.
StaleComing == \E i \in DOMAIN flight : InStep(i) /\ flight[i].run # preempts
TokenComing == \E i \in DOMAIN flight :
                   flight[i].samples /\ flight[i].run = preempts

\* A request that is not finished is short of max_tokens; while it runs there
\* is a token to compute; MaxTokensReached holds it back only when one token is
\* missing and a step that samples it is in flight; and a preempted request is
\* held back for stale output only while some is in flight.
NeverStranded ==
    status # "finished" =>
        /\ numTokens < Prompt + MaxTokens
        /\ status = "running" => computed < numTokens + placeholders
        /\ MaxTokensReached =>
              numTokens = Prompt + MaxTokens - 1 /\ TokenComing
        /\ ~MayResume => StaleComing

\* No preemption, reset, rejected draft or stop leaves the request short of
\* tokens with none coming, or waiting for output that does not come.
THEOREM RequestNeverStranded == Spec => []NeverStranded
<1>1. ASSUME IInv, status # "finished"
      PROVE  /\ numTokens < Prompt + MaxTokens
             /\ status = "running" => computed < numTokens + placeholders
             /\ MaxTokensReached =>
                   numTokens = Prompt + MaxTokens - 1 /\ TokenComing
             /\ ~MayResume => StaleComing
  <2>1. TypeOK /\ StepInv /\ CountInv /\ KVInPlace /\ EndInv
    BY <1>1 DEF IInv
  <2>2. /\ computed \in Nat /\ placeholders \in Nat /\ stale \in Nat
        /\ numTokens \in Nat /\ Prompt \in Nat /\ MaxTokens \in Nat
        /\ DOMAIN flight = 1..Len(flight)
    BY <2>1, FlightFacts, LenProperties, AsyncAssumption DEF TypeOK, numTokens
  <2>3. numTokens < Prompt + MaxTokens
    BY <1>1, <2>1 DEF EndInv, BudgetInv
  <2>4. ASSUME status = "running" PROVE computed < numTokens + placeholders
    <3>1. placeholders > 0 \/ computed >= numTokens =>
              computed = numTokens + placeholders - 1
      BY <2>1, <2>4 DEF KVInPlace
    <3> QED
      BY <2>2, <3>1
  <2>5. ASSUME MaxTokensReached
        PROVE  numTokens = Prompt + MaxTokens - 1 /\ TokenComing
    <3>1. /\ placeholders > 0
          /\ computed + 2 - placeholders >= Prompt + MaxTokens
      BY <2>5 DEF MaxTokensReached
    <3>2. status = "running"
      <4>1. status \notin {"waiting", "preempted"}
        BY <2>1, <2>2, <3>1 DEF StepInv, IdleInv
      <4> QED
        BY <1>1, <2>1, <4>1 DEF TypeOK
    <3>3. computed = numTokens + placeholders - 1
      BY <2>1, <3>1, <3>2 DEF KVInPlace
    <3>4. numTokens = Prompt + MaxTokens - 1
      BY <2>2, <2>3, <3>1, <3>3
    <3>5. TokenComing
      BY <1>1, <2>1, <2>2, <3>1, CountFacts DEF TokenComing
    <3> QED
      BY <3>4, <3>5
  <2>6. ASSUME ~MayResume PROVE StaleComing
    <3>1. stale > 0
      BY <2>2, <2>6 DEF MayResume
    <3> QED
      BY <2>1, <2>2, <3>1, CountFacts DEF StaleComing
  <2> QED
    BY <2>3, <2>4, <2>5, <2>6
<1>2. IInv => NeverStranded
  BY <1>1 DEF NeverStranded
<1> QED
  BY <1>2, Invariance, PTL
=============================================================================
