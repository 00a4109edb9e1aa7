---------------------------- MODULE CommonLemmas ----------------------------
(***************************************************************************)
(* Facts that the proofs of several components need: the least element of  *)
(* a set of numbers, the wrap-around of an index, recursive definitions,   *)
(* and what a machine makes of a sequence it takes element by element.     *)
(***************************************************************************)
EXTENDS Integers, Sequences, SequenceTheorems, WellFoundedInduction, TLAPS

LEMMA LeastNumber ==
  ASSUME NEW S \in SUBSET Nat, S # {}
  PROVE  \E m \in S : \A n \in S : m <= n
<1> DEFINE R == OpToRel(<, Nat)
<1>1. R = {ss \in Nat \X Nat : ss[1] < ss[2]}
  BY DEF OpToRel
<1>2. IsWellFoundedOn(R, Nat)
  BY NatLessThanWellFounded
<1>3. \A m, n \in Nat : m < n => <<m, n>> \in R
  BY <1>1
<1> HIDE DEF R
<1>4. PICK m \in S : \A n \in S : <<n, m>> \notin R
  BY <1>2, WFMin
<1>5. ASSUME NEW n \in S PROVE m <= n
  <2>1. m \in Nat /\ n \in Nat /\ ~(n < m)
    BY <1>3, <1>4
  <2>2. QED
    BY <2>1
<1>6. QED
  BY <1>5

LEMMA ModOfMultiple ==
  ASSUME NEW size \in Nat \ {0}, NEW k \in Int, NEW p \in 0..size - 1
  PROVE  (size * k + p) % size = p
<1> DEFINE x == size * k + p
           e == k - (x \div size)
<1>1. x = size * (x \div size) + (x % size) /\ x % size \in 0..size - 1
      /\ x \div size \in Int
  OBVIOUS
<1>2. size * e = (x % size) - p
  BY <1>1
<1>3. e \in Int /\ size * e < size /\ size * e > -size
  BY <1>1, <1>2
<1> HIDE DEF e
<1>4. e < 1 /\ e > -1
  BY <1>3
<1>5. k = x \div size
  BY <1>1, <1>3, <1>4 DEF e
<1>6. QED
  BY <1>1, <1>5

LEMMA ModInRange ==
  ASSUME NEW a \in Nat, NEW size \in Nat \ {0}
  PROVE  a % size \in 0..size - 1
  OBVIOUS

(* From any start, stepping round a ring reaches every place of it.        *)
LEMMA EveryPlaceIsReached ==
  ASSUME NEW a \in Nat, NEW size \in Nat \ {0}, NEW p \in 0..size - 1
  PROVE  \E d \in 0..size - 1 : (a + d) % size = p
<1> DEFINE q == a % size
           d == IF q <= p THEN p - q ELSE p - q + size
<1>1. q \in 0..size - 1 /\ a = size * (a \div size) + q /\ a \div size \in Int
  OBVIOUS
<1>2. d \in 0..size - 1
  BY <1>1
<1>3. (a + d) % size = p
  <2>1. CASE q <= p
    <3>1. a + d = size * (a \div size) + p
      BY <1>1, <2>1
    <3>2. QED
      BY <1>1, <3>1, ModOfMultiple
  <2>2. CASE q > p
    <3>1. a + d = size * ((a \div size) + 1) + p
      BY <1>1, <2>2
    <3>2. (a \div size) + 1 \in Int
      BY <1>1
    <3>3. QED
      BY <3>1, <3>2, ModOfMultiple
  <2>3. QED
    BY <1>1, <2>1, <2>2
<1>4. QED
  BY <1>2, <1>3

(***************************************************************************)
(* A recursion along a successor of lower rank is a definition: it goes    *)
(* from stop to stop, where its value is base, and makes the value at a    *)
(* place from that at the successor by step.                               *)
(***************************************************************************)
Descends(N, rank, stop, succ) ==
  /\ rank \in [N -> Nat] /\ stop \in SUBSET N
  /\ \A a \in N \ stop : succ[a] \in N /\ rank[succ[a]] < rank[a]

PassedOn(N, stop, succ, S) == \A a \in N : a \in stop \/ succ[a] \in S => a \in S

LEMMA RecursionEnds ==
  ASSUME NEW N, NEW rank, NEW stop, NEW succ, Descends(N, rank, stop, succ),
         NEW S, PassedOn(N, stop, succ, S)
  PROVE  N \subseteq S
<1> USE DEF Descends, PassedOn
<1> DEFINE Rest == N \ S
           R == {rank[a] : a \in Rest}
<1> SUFFICES ASSUME Rest # {} PROVE FALSE
  OBVIOUS
<1>1. R \in SUBSET Nat /\ R # {}
  OBVIOUS
<1>2. PICK m \in R : \A n \in R : m <= n
  BY <1>1, LeastNumber
<1>3. PICK a \in Rest : m = rank[a]
  OBVIOUS
<1>4. a \in N \ stop /\ succ[a] \in Rest /\ rank[succ[a]] < rank[a]
  BY <1>3
<1>5. rank[a] <= rank[succ[a]] /\ rank[a] \in Nat /\ rank[succ[a]] \in Nat
  BY <1>2, <1>3, <1>4
<1> QED BY <1>4, <1>5

Stepping(N, V, stop, base, step) ==
  base \in [stop -> V] /\ \A a \in N \ stop, v \in V : step[a][v] \in V

Recurs(f, N, stop, succ, base, step) ==
  \A a \in N : f[a] = IF a \in stop THEN base[a] ELSE step[a][f[succ[a]]]

LEMMA RecursionExists ==
  ASSUME NEW N, NEW V, NEW rank, NEW stop, NEW succ, Descends(N, rank, stop, succ),
         NEW base, NEW step, Stepping(N, V, stop, base, step)
  PROVE  \E f \in [N -> V] : Recurs(f, N, stop, succ, base, step)
(* R relates a place to all that is forced to be its value.                *)
<1>1. /\ rank \in [N -> Nat] /\ stop \in SUBSET N
      /\ \A a \in N \ stop : succ[a] \in N /\ rank[succ[a]] < rank[a]
      /\ base \in [stop -> V] /\ \A a \in N \ stop, v \in V : step[a][v] \in V
  BY DEF Descends, Stepping
<1> USE <1>1
<1> DEFINE Closed(R) ==
             /\ \A a \in stop : <<a, base[a]>> \in R
             /\ \A a \in N \ stop, v \in V :
                  <<succ[a], v>> \in R => <<a, step[a][v]>> \in R
           R0 == {p \in N \X V : \A R \in SUBSET (N \X V) : Closed(R) => p \in R}
           Values(a) == {v \in V : <<a, v>> \in R0}
<1>2. R0 \in SUBSET (N \X V) /\ Closed(R0)
  <2>1. \A a \in stop : <<a, base[a]>> \in R0
    OBVIOUS
  <2>2. ASSUME NEW a \in N \ stop, NEW v \in V, <<succ[a], v>> \in R0
        PROVE  <<a, step[a][v]>> \in R0
    <3>1. <<a, step[a][v]>> \in N \X V
      OBVIOUS
    <3>2. ASSUME NEW R \in SUBSET (N \X V), Closed(R) PROVE <<a, step[a][v]>> \in R
      BY <2>2, <3>2
    <3> QED BY <3>1, <3>2
  <2> QED BY <2>1, <2>2
<1>3. ASSUME NEW R \in SUBSET (N \X V), Closed(R) PROVE R0 \subseteq R
  BY <1>3
<1> HIDE DEF R0
<1>4. ASSUME NEW a \in stop PROVE Values(a) = {base[a]}
  <2>1. base[a] \in Values(a)
    BY <1>2
  <2>2. ASSUME NEW w \in Values(a), w # base[a] PROVE FALSE
    <3> DEFINE R == R0 \ {<<a, w>>}
    <3>1. R \in SUBSET (N \X V)
      BY <1>2
    <3>2. \A c \in stop : <<c, base[c]>> \in R
      BY <1>2, <2>2
    <3>3. \A c \in N \ stop, v \in V : <<succ[c], v>> \in R => <<c, step[c][v]>> \in R
      BY <1>2
    <3>4. R0 \subseteq R
      <4> HIDE DEF R
      <4> QED BY <3>1, <3>2, <3>3, <1>3
    <3> QED BY <3>4
  <2> QED BY <2>1, <2>2
<1>5. ASSUME NEW a \in N \ stop, NEW v \in V, Values(succ[a]) = {v}
      PROVE  Values(a) = {step[a][v]}
  <2>1. step[a][v] \in Values(a)
    <3>1. v \in Values(succ[a])
      BY <1>5
    <3>2. <<succ[a], v>> \in R0 /\ step[a][v] \in V
      BY <3>1
    <3> QED BY <3>2, <1>2
  <2>2. ASSUME NEW w \in Values(a), w # step[a][v] PROVE FALSE
    <3> DEFINE R == R0 \ {<<a, w>>}
    <3>1. R \in SUBSET (N \X V)
      BY <1>2
    <3>2. \A c \in stop : <<c, base[c]>> \in R
      BY <1>2
    <3>3. ASSUME NEW c \in N \ stop, NEW u \in V, <<succ[c], u>> \in R
          PROVE  <<c, step[c][u]>> \in R
      <4>1. <<succ[c], u>> \in R0
        BY <3>3
      <4>2. <<c, step[c][u]>> \in R0
        BY <4>1, <1>2
      <4>3. c = a => u = v
        <5>1. u \in Values(succ[c])
          BY <4>1
        <5> QED BY <5>1, <1>5
      <4>4. <<c, step[c][u]>> # <<a, w>>
        BY <4>3, <2>2
      <4> QED BY <4>2, <4>4
    <3>4. R0 \subseteq R
      <4> HIDE DEF R
      <4> QED BY <3>1, <3>2, <3>3, <1>3
    <3> QED BY <3>4
  <2> QED BY <2>1, <2>2
<1> HIDE DEF Values
<1>6. \A a \in N : \E v \in V : Values(a) = {v}
  <2> DEFINE S == {a \in N : \E v \in V : Values(a) = {v}}
  <2>1. ASSUME NEW a \in N, a \in stop \/ succ[a] \in S PROVE a \in S
    <3>1. CASE a \in stop
      BY <3>1, <1>4
    <3>2. CASE a \notin stop
      <4>1. PICK v \in V : Values(succ[a]) = {v}
        BY <2>1, <3>2
      <4> QED BY <4>1, <3>2, <1>5
    <3> QED BY <3>1, <3>2
  <2>2. PassedOn(N, stop, succ, S)
    BY <2>1 DEF PassedOn
  <2> HIDE DEF S
  <2>3. N \subseteq S
    BY <2>2, RecursionEnds
  <2> QED BY <2>3 DEF S
<1> DEFINE f == [a \in N |-> CHOOSE v \in V : Values(a) = {v}]
<1>7. \A a \in N : f[a] \in V /\ Values(a) = {f[a]}
  BY <1>6
<1>8. f \in [N -> V]
  BY <1>6
<1> HIDE DEF f
<1>9. ASSUME NEW a \in N
      PROVE  f[a] = IF a \in stop THEN base[a] ELSE step[a][f[succ[a]]]
  <2>1. CASE a \in stop
    <3>1. {f[a]} = {base[a]}
      BY <2>1, <1>4, <1>7
    <3> QED BY <2>1, <3>1
  <2>2. CASE a \notin stop
    <3>1. succ[a] \in N
      BY <2>2
    <3>2. Values(a) = {step[a][f[succ[a]]]}
      BY <2>2, <3>1, <1>5, <1>7
    <3>3. {f[a]} = {step[a][f[succ[a]]]}
      BY <3>2, <1>7
    <3> QED BY <2>2, <3>3
  <2> QED BY <2>1, <2>2
<1> QED BY <1>8, <1>9 DEF Recurs

(***************************************************************************)
(* A machine takes a sequence element by element: `step' gives its state   *)
(* after an element from the state in front of it.                         *)
(***************************************************************************)
IsRun(f, step, base, s) ==
  f = [i \in 0..Len(s) |-> IF i = 0 THEN base ELSE step[f[i - 1]][s[i]]]

Run(step, base, s) == (CHOOSE f : IsRun(f, step, base, s))[Len(s)]

Machine(A, B, step) == step \in [A -> [B -> A]]

(* What holds at place 0, and at a place when it holds at the one before,  *)
(* holds at every place.                                                   *)
LEMMA PlaceByPlace ==
  ASSUME NEW n \in Nat, NEW S, 0 \in S, \A i \in 1..n : i - 1 \in S => i \in S
  PROVE  \A i \in 0..n : i \in S
<1> DEFINE R == (0..n) \ S
<1> SUFFICES ASSUME R # {} PROVE FALSE
  OBVIOUS
<1>1. R \in SUBSET Nat
  OBVIOUS
<1>2. PICK m \in R : \A k \in R : m <= k
  BY <1>1, LeastNumber
<1>3. m \in 1..n /\ m - 1 \notin R
  BY <1>2
<1> QED BY <1>3

LEMMA RunExists ==
  ASSUME NEW A, NEW B, NEW step, Machine(A, B, step), NEW base \in A, NEW s \in Seq(B)
  PROVE  \E f \in [0..Len(s) -> A] : IsRun(f, step, base, s)
<1> DEFINE n    == Len(s)
           back == [i \in 0..n |-> i - 1]
           here == [i \in 0..n |-> i]
           one  == [i \in {0} |-> base]
           go   == [i \in 0..n |-> [a \in A |-> step[a][s[i]]]]
<1>1. n \in Nat /\ \A i \in 1..n : s[i] \in B
  OBVIOUS
<1>2. ASSUME NEW i \in (0..n) \ {0}
      PROVE  back[i] \in 0..n /\ here[back[i]] < here[i]
  BY <1>1
<1>3. here \in [0..n -> Nat] /\ {0} \in SUBSET (0..n)
  BY <1>1
<1>4. Descends(0..n, here, {0}, back)
  <2> HIDE DEF n, back, here
  <2> QED BY <1>2, <1>3 DEF Descends
<1>5. ASSUME NEW i \in (0..n) \ {0}, NEW a \in A PROVE go[i][a] \in A
  <2>1. s[i] \in B
    BY <1>1
  <2>2. step[a][s[i]] \in A
    BY <2>1 DEF Machine
  <2> QED BY <2>2
<1>6. one \in [{0} -> A]
  OBVIOUS
<1>7. Stepping(0..n, A, {0}, one, go)
  <2> HIDE DEF n, one, go
  <2> QED BY <1>5, <1>6 DEF Stepping
<1>8. PICK f \in [0..n -> A] : Recurs(f, 0..n, {0}, back, one, go)
  <2> HIDE DEF n, one, go, back, here
  <2> QED BY <1>4, <1>7, RecursionExists
<1>9. ASSUME NEW i \in 0..n PROVE f[i] = IF i = 0 THEN base ELSE step[f[i - 1]][s[i]]
  <2>1. f[i] = IF i \in {0} THEN one[i] ELSE go[i][f[back[i]]]
    <3> HIDE DEF n, one, go, back
    <3> QED BY <1>8 DEF Recurs
  <2>2. CASE i = 0
    BY <2>1, <2>2
  <2>3. CASE i # 0
    <3>1. back[i] = i - 1 /\ f[i - 1] \in A
      BY <2>3, <1>1
    <3> QED BY <2>1, <2>3, <3>1
  <2> QED BY <2>2, <2>3
<1>10. f = [i \in 0..n |-> IF i = 0 THEN base ELSE step[f[i - 1]][s[i]]]
  BY <1>9
<1> QED BY <1>10 DEF IsRun

(* Two runs that go on alike from equal states are the same.               *)
LEMMA SameRun ==
  ASSUME NEW n \in Nat, NEW f, NEW g, f[0] = g[0],
         \A i \in 1..n : f[i - 1] = g[i - 1] => f[i] = g[i]
  PROVE  \A i \in 0..n : f[i] = g[i]
<1> DEFINE S == {i \in 0..n : f[i] = g[i]}
<1>1. 0 \in S /\ \A i \in 1..n : i - 1 \in S => i \in S
  OBVIOUS
<1>2. \A i \in 0..n : i \in S
  <2> HIDE DEF S
  <2> QED BY <1>1, PlaceByPlace
<1> QED BY <1>2

LEMMA StepOfRun ==
  ASSUME NEW f, NEW step, NEW base, NEW s, IsRun(f, step, base, s), Len(s) \in Nat
  PROVE  /\ DOMAIN f = 0..Len(s) /\ f[0] = base
         /\ \A i \in 1..Len(s) : f[i] = step[f[i - 1]][s[i]]
<1>1. f = [i \in 0..Len(s) |-> IF i = 0 THEN base ELSE step[f[i - 1]][s[i]]]
  BY DEF IsRun
<1>2. \A i \in 0..Len(s) : f[i] = IF i = 0 THEN base ELSE step[f[i - 1]][s[i]]
  BY <1>1
<1>3. 0 \in 0..Len(s) /\ \A i \in 1..Len(s) : i \in 0..Len(s) /\ i # 0
  OBVIOUS
<1>4. DOMAIN f = 0..Len(s)
  BY <1>1
<1> QED BY <1>2, <1>3, <1>4

LEMMA RunIsDefined ==
  ASSUME NEW A, NEW B, NEW step, Machine(A, B, step), NEW base \in A, NEW s \in Seq(B)
  PROVE  \E f \in [0..Len(s) -> A] :
           /\ f[0] = base /\ f[Len(s)] = Run(step, base, s)
           /\ \A i \in 1..Len(s) : f[i] = step[f[i - 1]][s[i]]
<1>1. PICK g \in [0..Len(s) -> A] : IsRun(g, step, base, s)
  BY RunExists
<1> DEFINE f == CHOOSE h : IsRun(h, step, base, s)
<1>2. IsRun(f, step, base, s)
  BY <1>1
<1>3. f[Len(s)] = Run(step, base, s)
  BY DEF Run
<1> HIDE DEF f
<1>4. Len(s) \in Nat
  OBVIOUS
<1>5. /\ f[0] = base /\ g[0] = base
      /\ \A i \in 1..Len(s) : f[i] = step[f[i - 1]][s[i]] /\ g[i] = step[g[i - 1]][s[i]]
  BY <1>1, <1>2, <1>4, StepOfRun
<1>6. \A i \in 0..Len(s) : f[i] = g[i]
  <2>1. f[0] = g[0] /\ \A i \in 1..Len(s) : f[i - 1] = g[i - 1] => f[i] = g[i]
    BY <1>5
  <2> QED BY ONLY ZenonT(30), <1>4, <2>1, SameRun
<1>7. f \in [0..Len(s) -> A]
  <2>1. f = [i \in 0..Len(s) |-> f[i]]
    BY <1>2 DEF IsRun
  <2> QED BY <1>6, <2>1
<1> QED BY <1>3, <1>5, <1>7

LEMMA RunType ==
  ASSUME NEW A, NEW B, NEW step, Machine(A, B, step), NEW base \in A, NEW s \in Seq(B)
  PROVE  Run(step, base, s) \in A
<1>1. PICK f \in [0..Len(s) -> A] : f[Len(s)] = Run(step, base, s)
  BY RunIsDefined
<1>2. Len(s) \in 0..Len(s)
  OBVIOUS
<1> QED BY <1>1, <1>2

LEMMA RunOfNothing == \A step, base : Run(step, base, <<>>) = base
<1> TAKE step, base
<1> DEFINE h == CHOOSE f : IsRun(f, step, base, <<>>)
<1>1. Len(<<>>) = 0
  OBVIOUS
<1>2. IsRun([i \in 0..0 |-> base], step, base, <<>>)
  BY <1>1 DEF IsRun
<1>3. IsRun(h, step, base, <<>>)
  BY <1>2
<1>4. Run(step, base, <<>>) = h[0]
  BY <1>1 DEF Run
<1> HIDE DEF h
<1>5. h = [i \in 0..0 |-> IF i = 0 THEN base ELSE step[h[i - 1]][<<>>[i]]]
  BY <1>1, <1>3 DEF IsRun
<1>6. h[0] = base
  BY <1>5
<1> QED BY <1>4, <1>6

(* What holds in front of every element of a run and behind it.            *)
LEMMA RunKeeps ==
  ASSUME NEW A, NEW B, NEW step, Machine(A, B, step), NEW base \in A, NEW s \in Seq(B),
         NEW I, base \in I, \A a \in A, i \in 1..Len(s) : a \in I => step[a][s[i]] \in I
  PROVE  Run(step, base, s) \in I
<1>1. PICK f \in [0..Len(s) -> A] :
        /\ f[0] = base /\ f[Len(s)] = Run(step, base, s)
        /\ \A i \in 1..Len(s) : f[i] = step[f[i - 1]][s[i]]
  BY RunIsDefined
<1> DEFINE S == {i \in 0..Len(s) : f[i] \in I}
<1>2. Len(s) \in Nat
  OBVIOUS
<1>3. 0 \in S
  BY <1>1, <1>2
<1>4. ASSUME NEW i \in 1..Len(s), i - 1 \in S PROVE i \in S
  <2>1. i - 1 \in 0..Len(s) /\ i \in 0..Len(s)
    BY <1>2
  <2>2. f[i - 1] \in A /\ f[i - 1] \in I
    BY <1>4, <2>1
  <2>3. f[i] = step[f[i - 1]][s[i]]
    BY <1>1
  <2> QED BY <2>1, <2>2, <2>3
<1>5. \A i \in 0..Len(s) : i \in S
  <2> HIDE DEF S
  <2> QED BY <1>2, <1>3, <1>4, PlaceByPlace
<1> QED BY <1>1, <1>2, <1>5

LEMMA RunAppend ==
  ASSUME NEW A, NEW B, NEW step, Machine(A, B, step), NEW base \in A, NEW s \in Seq(B),
         NEW x \in B
  PROVE  Run(step, base, Append(s, x)) = step[Run(step, base, s)][x]
<1> DEFINE t == Append(s, x)
           n == Len(s)
<1>1. t \in Seq(B) /\ n \in Nat /\ Len(t) = n + 1 /\ t[n + 1] = x
      /\ \A i \in 1..n : t[i] = s[i]
  OBVIOUS
<1> HIDE DEF t
<1>2. PICK f \in [0..Len(s) -> A] :
        /\ f[0] = base /\ f[Len(s)] = Run(step, base, s)
        /\ \A i \in 1..Len(s) : f[i] = step[f[i - 1]][s[i]]
  BY RunIsDefined
<1>3. PICK g \in [0..Len(t) -> A] :
        /\ g[0] = base /\ g[Len(t)] = Run(step, base, t)
        /\ \A i \in 1..Len(t) : g[i] = step[g[i - 1]][t[i]]
  BY <1>1, RunIsDefined
<1>4. n \in Nat /\ f[0] = g[0]
  BY <1>2, <1>3
<1>5. ASSUME NEW i \in 1..n, f[i - 1] = g[i - 1] PROVE f[i] = g[i]
  <2>1. f[i] = step[f[i - 1]][s[i]]
    BY <1>2
  <2>2. g[i] = step[g[i - 1]][t[i]]
    BY <1>1, <1>3
  <2> QED BY <1>1, <1>5, <2>1, <2>2
<1>8. \A i \in 0..n : f[i] = g[i]
  <2> DEFINE S == {i \in 0..n : f[i] = g[i]}
  <2>1. 0 \in S /\ \A i \in 1..n : i - 1 \in S => i \in S
    BY <1>4, <1>5
  <2>2. \A i \in 0..n : i \in S
    <3> HIDE DEF S, n
    <3> QED BY <1>4, <2>1, PlaceByPlace
  <2> QED BY <2>2
<1>6. g[n] = Run(step, base, s)
  BY <1>1, <1>2, <1>8
<1>7. g[n + 1] = step[g[n]][t[n + 1]]
  BY <1>1, <1>3
<1> QED BY <1>1, <1>3, <1>6, <1>7 DEF t

LEMMA PrefixGrows ==
  ASSUME NEW B, NEW t \in Seq(B), NEW i \in 1..Len(t)
  PROVE  /\ SubSeq(t, 1, i - 1) \in Seq(B) /\ SubSeq(t, 1, i) \in Seq(B)
         /\ SubSeq(t, 1, i) = Append(SubSeq(t, 1, i - 1), t[i])
<1>1. /\ SubSeq(t, 1, i - 1) \in Seq(B) /\ SubSeq(t, 1, i) \in Seq(B)
      /\ Len(SubSeq(t, 1, i)) = i /\ Len(SubSeq(t, 1, i - 1)) = i - 1
      /\ \A j \in 1..i : SubSeq(t, 1, i)[j] = t[j]
      /\ \A j \in 1..i - 1 : SubSeq(t, 1, i - 1)[j] = t[j]
  OBVIOUS
<1> DEFINE p == SubSeq(t, 1, i)
           q == SubSeq(t, 1, i - 1)
           a == Append(q, t[i])
<1>2. t[i] \in B
  OBVIOUS
<1> HIDE DEF p, q
<1>3. a \in Seq(B) /\ Len(a) = i /\ a[i] = t[i] /\ \A j \in 1..i - 1 : a[j] = q[j]
  BY <1>1, <1>2 DEF p, q
<1>4. \A j \in 1..Len(p) : p[j] = a[j]
  BY <1>1, <1>3 DEF p, q
<1> HIDE DEF a
<1>5. p = a
  BY <1>1, <1>3, <1>4, SeqEqual DEF p, q
<1> QED BY <1>1, <1>5 DEF a, p, q

LEMMA RunConcat ==
  ASSUME NEW A, NEW B, NEW step, Machine(A, B, step), NEW base \in A, NEW s \in Seq(B),
         NEW t \in Seq(B)
  PROVE  Run(step, base, s \o t) = Run(step, Run(step, base, s), t)
<1> DEFINE mid == Run(step, base, s)
           part(i) == SubSeq(t, 1, i)
           S == {i \in 0..Len(t) : Run(step, base, s \o part(i)) = Run(step, mid, part(i))}
<1>1. mid = Run(step, base, s) /\ mid \in A /\ Len(t) \in Nat
  BY RunType
<1> HIDE DEF mid
<1>2. 0 \in S
  <2>1. part(0) = <<>> /\ s \o <<>> = s
    OBVIOUS
  <2>2. Run(step, mid, <<>>) = mid
    BY <1>1, RunOfNothing
  <2>3. Run(step, base, s \o part(0)) = Run(step, mid, part(0))
    BY <1>1, <2>1, <2>2
  <2>4. 0 \in 0..Len(t)
    BY <1>1
  <2> HIDE DEF part
  <2> QED BY <2>3, <2>4
<1>3. ASSUME NEW i \in 1..Len(t), i - 1 \in S PROVE i \in S
  <2> DEFINE q == part(i - 1)
             x == t[i]
  <2>1. q \in Seq(B) /\ x \in B /\ part(i) = Append(q, x)
    BY PrefixGrows
  <2>2. Run(step, base, s \o q) = Run(step, mid, q)
    BY <1>3
  <2> HIDE DEF q, x, part
  <2> DEFINE u == s \o q
  <2>3. u \in Seq(B) /\ s \o Append(q, x) = Append(u, x)
    BY <2>1
  <2> HIDE DEF u
  <2>7. Run(step, base, Append(u, x)) = step[Run(step, base, u)][x]
    BY <2>1, <2>3, RunAppend
  <2>4. Run(step, base, s \o Append(q, x)) = step[Run(step, base, s \o q)][x]
    BY <2>3, <2>7 DEF u
  <2>5. Run(step, mid, Append(q, x)) = step[Run(step, mid, q)][x]
    BY <1>1, <2>1, RunAppend
  <2>6. i \in 0..Len(t)
    BY <1>1
  <2> QED BY <2>1, <2>2, <2>4, <2>5, <2>6
<1>4. \A i \in 0..Len(t) : i \in S
  <2> HIDE DEF S
  <2> QED BY <1>1, <1>2, <1>3, PlaceByPlace
<1>5. Len(t) \in S
  BY <1>1, <1>4
<1>6. part(Len(t)) = t
  OBVIOUS
<1> QED BY <1>1, <1>5, <1>6
=============================================================================
