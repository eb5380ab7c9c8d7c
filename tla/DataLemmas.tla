----------------------------- MODULE DataLemmas -----------------------------
(***************************************************************************)
(* Lemmas about data that the proofs of several modules need.              *)
(*                                                                         *)
(* Induction over the natural numbers, for the loops of the program.  The  *)
(* induction theorems of the library range over predicates, which the      *)
(* provers at hand cannot instantiate; these range over sets of numbers,   *)
(* and a predicate P is used as {n \in Nat : P(n)}.                        *)
(*                                                                         *)
(* Queues of commands, for the channels of the system.  A command is a     *)
(* record with the fields cmd, its kind, and arg, its value.               *)
(***************************************************************************)
EXTENDS Integers, Sequences, SequenceTheorems, WellFoundedInduction, TLAPS

-----------------------------------------------------------------------------
(* Induction *)

\* A set of natural numbers that is not empty has a least element.
LEMMA LeastNumber ==
  ASSUME NEW T \in SUBSET Nat, T # {}
  PROVE  \E x \in T : \A y \in T : x <= y
<1> DEFINE R == OpToRel(<, Nat)
<1>1. IsWellFoundedOn(R, Nat)
  BY NatLessThanWellFounded
<1>2. \A x, y \in Nat : <<x, y>> \in R <=> x < y
  BY DEF OpToRel
<1> HIDE DEF R
<1>3. PICK x \in T : \A y \in T : ~(<<y, x>> \in R)
  BY <1>1, WFMin
<1>4. \A y \in T : ~(y < x)
  BY <1>2, <1>3
<1>5. \A y \in T : x <= y
  BY <1>4
<1> QED
  BY <1>5

\* And a greatest one, if there is a bound.
LEMMA GreatestNumber ==
  ASSUME NEW T \in SUBSET Nat, T # {}, NEW N \in Nat, \A x \in T : x <= N
  PROVE  \E x \in T : \A y \in T : x >= y
<1> DEFINE D == {k \in 0..N : N - k \in T}
<1>1. \A x \in T : x \in Nat /\ N - x \in 0..N /\ N - (N - x) = x
  OBVIOUS
<1>2. D \in SUBSET Nat /\ D # {} /\ \A x \in T : N - x \in D
  <2>1. \A x \in T : N - x \in D
    BY <1>1
  <2>2. 0..N \subseteq Nat
    OBVIOUS
  <2>3. D \subseteq 0..N
    OBVIOUS
  <2> HIDE DEF D
  <2> QED
    BY <2>1, <2>2, <2>3
<1>3. PICK k \in D : \A j \in D : k <= j
  BY <1>2, LeastNumber
<1>4. \A y \in T : N - k >= y
  <2> TAKE y \in T
  <2>1. k <= N - y
    BY <1>2, <1>3
  <2> QED
    BY <1>1, <2>1
<1> QED
  BY <1>4

\* What holds of the start of an interval and is passed on from each of its
\* numbers to the next one holds of the whole interval.
LEMMA IntervalInduction ==
  ASSUME NEW T, NEW m \in Nat, NEW n \in Nat, m \in T,
         \A i \in m..(n - 1) : i \in T => i + 1 \in T
  PROVE  m..n \subseteq T
<1> DEFINE Bad == (m..n) \ T
<1> SUFFICES ASSUME Bad # {} PROVE FALSE
  OBVIOUS
<1>1. PICK x \in Bad : \A y \in Bad : x <= y
  <2>1. Bad \in SUBSET Nat
    OBVIOUS
  <2> QED BY <2>1, LeastNumber
<1>2. x # m /\ x \in (m + 1)..n /\ x \notin T
  OBVIOUS
<1>3. x - 1 \in m..(n - 1) /\ x - 1 \notin Bad
  BY <1>1, <1>2
<1>4. x - 1 \in T /\ (x - 1) + 1 = x
  BY <1>2, <1>3
<1> QED
  BY <1>2, <1>3, <1>4

\* What it takes to define a function by recursion over numbers: of each number of
\* D the value is given, or it comes from the value of a lower one.
Recursion(D, V, stop, base, step, up) ==
  /\ D \in SUBSET Nat /\ \E N \in Nat : \A n \in D : n <= N
  /\ base \in [D -> V] /\ step \in [D -> [V -> V]]
  /\ \A n \in D : ~stop[n] => up[n] \in D /\ up[n] < n
Recursive(f, D, V, stop, base, step, up) ==
  /\ f \in [D -> V]
  /\ \A n \in D : f[n] = IF stop[n] THEN base[n] ELSE step[n][f[up[n]]]

\* And there is such a function.
LEMMA RecursionDown ==
  ASSUME NEW D, NEW V, NEW stop, NEW base, NEW step, NEW up,
         Recursion(D, V, stop, base, step, up)
  PROVE  \E f : Recursive(f, D, V, stop, base, step, up)
<1> USE DEF Recursion, Recursive
<1> PICK N \in Nat : \A n \in D : n <= N
  OBVIOUS
<1> DEFINE Below(k) == {n \in D : n < k}
           Good(f, n) == f[n] = IF stop[n] THEN base[n] ELSE step[n][f[up[n]]]
           T == {k \in Nat : \E f \in [Below(k) -> V] : \A n \in Below(k) : Good(f, n)}
<1>0. \A n \in D : n \in Nat /\ n <= N
  OBVIOUS
<1>1. 0 \in T
  <2>1. Below(0) = {}
    <3>1. \A n \in D : ~(n < 0)
      BY <1>0
    <3> QED
      BY <3>1
  <2>2. [n \in {} |-> base[n]] \in [{} -> V]
    OBVIOUS
  <2> QED
    BY <2>1, <2>2
<1>2. ASSUME NEW k \in Nat, k \in T PROVE k + 1 \in T
  <2>1. PICK f \in [Below(k) -> V] : \A n \in Below(k) : Good(f, n)
    BY <1>2
  <2> DEFINE value == IF stop[k] THEN base[k] ELSE step[k][f[up[k]]]
             g == [n \in Below(k + 1) |-> IF n = k THEN value ELSE f[n]]
  <2>2. /\ \A n \in Below(k) : n \in Below(k + 1) /\ n # k
        /\ \A n \in Below(k + 1) : n = k \/ n \in Below(k)
        /\ \A n \in Below(k + 1) : ~stop[n] => up[n] \in Below(k)
    <3>1. \A n \in D : ~stop[n] => up[n] \in D /\ up[n] \in Nat /\ up[n] < n
      BY <1>0
    <3> QED
      BY <1>0, <3>1
  <2>3. k \in D => value \in V
    <3>1. CASE stop[k]
      BY <3>1
    <3>2. ASSUME ~stop[k], k \in D PROVE value \in V
      <4>1. f[up[k]] \in V
        BY <2>2, <3>2
      <4>2. step[k] \in [V -> V]
        BY <3>2
      <4> QED
        BY <3>2, <4>1, <4>2
    <3> QED
      BY <3>1, <3>2
  <2>4. g \in [Below(k + 1) -> V]
    BY <2>2, <2>3
  <2>5. ASSUME NEW n \in Below(k + 1) PROVE Good(g, n)
    <3>1. ~stop[n] => g[up[n]] = f[up[n]]
      BY <2>2, <2>5
    <3>2. CASE n = k
      BY <3>1, <3>2
    <3>3. CASE n # k
      <4>1. n \in Below(k) /\ g[n] = f[n]
        BY <2>2, <3>3
      <4>2. Good(f, n)
        BY <2>1, <4>1
      <4> QED
        BY <3>1, <4>1, <4>2
    <3> QED
      BY <3>2, <3>3
  <2> HIDE DEF g, value
  <2>6. \E f2 \in [Below(k + 1) -> V] : \A n \in Below(k + 1) : Good(f2, n)
    BY <2>4, <2>5
  <2>7. k + 1 \in Nat
    OBVIOUS
  <2> HIDE DEF Good, Below
  <2> QED
    BY <2>6, <2>7
<1>3. N + 1 \in T
  <2>1. \A i \in 0..(N + 1 - 1) : i \in T => i + 1 \in T
    BY <1>2
  <2> HIDE DEF T
  <2>2. 0..(N + 1) \subseteq T
    BY <1>1, <2>1, IntervalInduction
  <2> QED
    BY <2>2
<1>4. Below(N + 1) = D
  <2>1. \A n \in D : n < N + 1
    BY <1>0
  <2> QED
    BY <2>1
<1> QED
  BY <1>3, <1>4

-----------------------------------------------------------------------------
(* Queues of commands *)

\* The values of the commands of a kind that are in the queue, and that there
\* is one of the kind at most.
Args(q, what) == {q[i].arg : i \in {j \in DOMAIN q : q[j].cmd = what}}
Once(q, what) ==
  \A i, j \in DOMAIN q : q[i].cmd = what /\ q[j].cmd = what => i = j

LEMMA QueueEmpty ==
  ASSUME NEW S
  PROVE  /\ << >> \in Seq(S)
         /\ \A w : Args(<< >>, w) = {} /\ Once(<< >>, w)
BY DEF Args, Once

LEMMA QueueOfOne ==
  ASSUME NEW S, NEW x \in S
  PROVE  /\ <<x>> \in Seq(S)
         /\ \A w : Args(<<x>>, w) = IF x.cmd = w THEN {x.arg} ELSE {}
         /\ \A w : Once(<<x>>, w)
<1>1. DOMAIN <<x>> = {1} /\ <<x>>[1] = x
  OBVIOUS
<1>2. \A w : Args(<<x>>, w) = IF x.cmd = w THEN {x.arg} ELSE {}
  BY <1>1 DEF Args
<1> QED
  BY <1>1, <1>2 DEF Once

\* The queue after its first command was taken.
LEMMA QueueTail ==
  ASSUME NEW S, NEW q \in Seq(S), q # << >>
  PROVE  /\ Head(q) \in S /\ Tail(q) \in Seq(S)
         /\ \A w : Args(q, w) =
              (IF Head(q).cmd = w THEN {Head(q).arg} ELSE {}) \union Args(Tail(q), w)
         /\ \A w : Once(q, w) =>
              Once(Tail(q), w) /\ (Head(q).cmd = w => Args(Tail(q), w) = {})
<1> DEFINE t == Tail(q)
<1>1. /\ Head(q) \in S /\ t \in Seq(S)
      /\ Len(q) \in Nat /\ Len(q) > 0
      /\ Len(t) = Len(q) - 1
      /\ \A i \in 1..Len(t) : t[i] = q[i + 1]
  BY HeadTailProperties, LenProperties
<1>2. Head(q) = q[1] /\ DOMAIN q = 1..Len(q) /\ DOMAIN t = 1..Len(t)
  BY <1>1
<1> HIDE DEF t
<1>3. \A i \in DOMAIN q : i = 1 \/ (i - 1 \in DOMAIN t /\ t[i - 1] = q[i])
  BY <1>1, <1>2
<1>4. 1 \in DOMAIN q /\ \A i \in DOMAIN t : i + 1 \in DOMAIN q /\ t[i] = q[i + 1]
                                            /\ i + 1 # 1
  BY <1>1, <1>2
<1>5. ASSUME NEW w
      PROVE  Args(q, w) =
              (IF Head(q).cmd = w THEN {Head(q).arg} ELSE {}) \union Args(t, w)
  <2>1. Args(q, w) \subseteq
          (IF Head(q).cmd = w THEN {Head(q).arg} ELSE {}) \union Args(t, w)
    BY <1>2, <1>3 DEF Args
  <2>2. Args(t, w) \subseteq Args(q, w)
    BY <1>4 DEF Args
  <2>3. (IF Head(q).cmd = w THEN {Head(q).arg} ELSE {}) \subseteq Args(q, w)
    BY <1>2, <1>4 DEF Args
  <2> QED
    BY <2>1, <2>2, <2>3
<1>6. ASSUME NEW w, Once(q, w)
      PROVE  Once(t, w) /\ (Head(q).cmd = w => Args(t, w) = {})
  <2>1. ASSUME NEW i \in DOMAIN t, NEW j \in DOMAIN t, t[i].cmd = w, t[j].cmd = w
        PROVE  i = j
    <3>1. i + 1 \in DOMAIN q /\ j + 1 \in DOMAIN q
          /\ q[i + 1].cmd = w /\ q[j + 1].cmd = w
      BY <2>1, <1>4
    <3>2. i + 1 = j + 1
      BY <3>1, <1>6 DEF Once
    <3> QED
      BY <3>2, <1>2
  <2>2. ASSUME Head(q).cmd = w, NEW i \in DOMAIN t, t[i].cmd = w
        PROVE  FALSE
    <3>1. i + 1 \in DOMAIN q /\ q[i + 1].cmd = w /\ q[1].cmd = w
      BY <2>2, <1>2, <1>4
    <3> QED
      BY <3>1, <1>4, <1>6 DEF Once
  <2> QED
    BY <2>1, <2>2 DEF Once, Args
<1> QED
  BY <1>1, <1>5, <1>6 DEF t

\* Two queues, one after the other.
LEMMA QueueJoined ==
  ASSUME NEW S, NEW p \in Seq(S), NEW q \in Seq(S)
  PROVE  /\ p \o q \in Seq(S)
         /\ \A w : Args(p \o q, w) = Args(p, w) \union Args(q, w)
         /\ \A w : Once(p, w) /\ Once(q, w) /\ (Args(p, w) = {} \/ Args(q, w) = {}) =>
              Once(p \o q, w)
<1> DEFINE r == p \o q
           m == Len(p)
           n == Len(q)
<1>1. /\ r \in Seq(S) /\ m \in Nat /\ n \in Nat
      /\ Len(r) = m + n
      /\ \A i \in 1..(m + n) : r[i] = IF i <= m THEN p[i] ELSE q[i - m]
  BY ConcatProperties, LenProperties
<1>2. DOMAIN r = 1..(m + n) /\ DOMAIN p = 1..m /\ DOMAIN q = 1..n
  BY <1>1, LenProperties
<1> HIDE DEF r, m, n
<1>3. \A i \in DOMAIN r : \/ i \in DOMAIN p /\ r[i] = p[i]
                          \/ i - m \in DOMAIN q /\ r[i] = q[i - m] /\ i \notin DOMAIN p
  BY <1>1, <1>2
<1>4. /\ \A i \in DOMAIN p : i \in DOMAIN r /\ r[i] = p[i]
      /\ \A i \in DOMAIN q : i + m \in DOMAIN r /\ r[i + m] = q[i]
  BY <1>1, <1>2
<1>5. ASSUME NEW w
      PROVE  Args(r, w) = Args(p, w) \union Args(q, w)
  <2>1. Args(r, w) \subseteq Args(p, w) \union Args(q, w)
    BY <1>3 DEF Args
  <2>2. Args(p, w) \subseteq Args(r, w)
    BY <1>4 DEF Args
  <2>3. Args(q, w) \subseteq Args(r, w)
    BY <1>4 DEF Args
  <2> QED
    BY <2>1, <2>2, <2>3
<1>6. ASSUME NEW w, Once(p, w), Once(q, w), Args(p, w) = {} \/ Args(q, w) = {}
      PROVE  Once(r, w)
  <2>1. ASSUME NEW i \in DOMAIN r, NEW j \in DOMAIN r, r[i].cmd = w, r[j].cmd = w
        PROVE  i = j
    <3>1. CASE i \in DOMAIN p /\ r[i] = p[i] /\ j \in DOMAIN p /\ r[j] = p[j]
      BY <3>1, <2>1, <1>6 DEF Once
    <3>2. CASE i - m \in DOMAIN q /\ r[i] = q[i - m] /\ j - m \in DOMAIN q /\ r[j] = q[j - m]
      <4>1. i - m = j - m
        BY <3>2, <2>1, <1>6 DEF Once
      <4> QED
        BY <4>1, <1>1, <1>2
    <3>3. CASE i \in DOMAIN p /\ r[i] = p[i] /\ j - m \in DOMAIN q /\ r[j] = q[j - m]
      BY <3>3, <2>1, <1>6 DEF Args
    <3>4. CASE j \in DOMAIN p /\ r[j] = p[j] /\ i - m \in DOMAIN q /\ r[i] = q[i - m]
      BY <3>4, <2>1, <1>6 DEF Args
    <3> QED
      BY <1>3, <3>1, <3>2, <3>3, <3>4
  <2> QED
    BY <2>1 DEF Once
<1> QED
  BY <1>1, <1>5, <1>6 DEF r

=============================================================================
