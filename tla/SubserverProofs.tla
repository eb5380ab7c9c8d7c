-------------------------- MODULE SubserverProofs ---------------------------
(***************************************************************************)
(* Proofs about the subsystem server, for any finite sets of addresses and *)
(* of names.                                                               *)
(*                                                                         *)
(* The first part is about the arrays: what registering, deleting and the  *)
(* loop that deletes while it iterates do to an array that is sound.  The  *)
(* second part is the inductive invariant: both arrays are sound, the      *)
(* links have their types, the two halves of every link agree, and nothing *)
(* outside the arrays is linked.  The agreement is needed for the rest: an *)
(* object that is deleted finds its partners in its own lists only.  The   *)
(* third part is the refinement of Broker.                                 *)
(***************************************************************************)
EXTENDS Subserver, DataLemmas, SequenceTheorems, FiniteSetTheorems, TLAPS

-----------------------------------------------------------------------------
(* The arrays *)

\* An array whose objects know their places, and are known to be in it.
Sound(r, S) ==
  /\ r \in [list : Seq(S), index : [S -> Nat]]
  /\ Indexed(r, S)

\* No object is twice in a sound array, and its index is its place.
LEMMA PlacesAreIndices ==
  ASSUME NEW S, NEW r, Sound(r, S)
  PROVE  /\ \A i \in 1..Len(r.list) : r.list[i] \in S /\ r.index[r.list[i]] = i
         /\ Len(r.list) \in Nat
         /\ Objects(r) \subseteq S
         /\ \A x \in S : r.index[x] # 0 =>
              r.index[x] \in 1..Len(r.list) /\ r.list[r.index[x]] = x
         /\ \A x \in Objects(r) : r.index[x] # 0
<1>1. r.list \in Seq(S) /\ r.index \in [S -> Nat]
  BY DEF Sound
<1>2. \A i \in 1..Len(r.list) : r.list[i] \in S
  BY <1>1, ElementOfSeq
<1>3. \A i \in 1..Len(r.list) : r.index[r.list[i]] = i
  BY DEF Sound, Indexed
<1>4. Len(r.list) \in Nat
  BY <1>1, LenProperties
<1>5. Objects(r) \subseteq S
  BY <1>2 DEF Objects
<1>6. \A x \in S : r.index[x] # 0 =>
        r.index[x] \in 1..Len(r.list) /\ r.list[r.index[x]] = x
  <2> TAKE x \in S
  <2> SUFFICES ASSUME r.index[x] # 0
               PROVE  r.index[x] \in 1..Len(r.list) /\ r.list[r.index[x]] = x
    OBVIOUS
  <2>1. x \in Objects(r)
    BY DEF Sound, Indexed
  <2>2. PICK i \in 1..Len(r.list) : r.list[i] = x
    BY <2>1 DEF Objects
  <2> QED
    BY <2>2, <1>3
<1>7. \A x \in Objects(r) : r.index[x] # 0
  <2> TAKE x \in Objects(r)
  <2>1. PICK i \in 1..Len(r.list) : r.list[i] = x
    BY DEF Objects
  <2> QED
    BY <2>1, <1>3
<1> QED
  BY <1>2, <1>3, <1>4, <1>5, <1>6, <1>7

\* The index of an object of a sound array does not exceed the number of
\* objects there can be.
LEMMA SoundIsRegistry ==
  ASSUME NEW S, IsFiniteSet(S), NEW r, Sound(r, S)
  PROVE  r \in Registry(S)
<1> DEFINE n == Len(r.list)
           f == [i \in 1..n |-> r.list[i]]
<1>1. /\ \A i \in 1..n : r.list[i] \in S /\ r.index[r.list[i]] = i
      /\ n \in Nat
      /\ \A x \in S : r.index[x] # 0 => r.index[x] \in 1..n
  BY PlacesAreIndices
<1>2. f \in Injection(1..n, S)
  <2>1. f \in [1..n -> S]
    BY <1>1
  <2>2. \A i, j \in 1..n : f[i] = f[j] => i = j
    BY <1>1
  <2> QED
    BY <2>1, <2>2 DEF Injection, IsInjective
<1>3. Cardinality(S) \in Nat /\ Cardinality(1..n) = n
  <2>1. Cardinality(1..n) = IF 1 > n THEN 0 ELSE n - 1 + 1
    BY SMTT(30), <1>1, FS_Interval
  <2>2. Cardinality(1..n) = n
    BY <2>1, <1>1
  <2>3. Cardinality(S) \in Nat
    BY FS_CardinalityType
  <2> QED
    BY <2>2, <2>3
<1>4. Cardinality(1..n) <= Cardinality(S)
  BY <1>2, FS_Injection
<1>5. \A x \in S : r.index[x] \in 0..Cardinality(S)
  <2> TAKE x \in S
  <2>1. r.index[x] = 0 \/ r.index[x] \in 1..n
    BY <1>1
  <2> QED
    BY <2>1, <1>1, <1>3, <1>4
<1>6. r.index \in [S -> 0..Cardinality(S)]
  BY <1>5 DEF Sound
<1>7. r.list \in Seq(S) /\ r = [list |-> r.list, index |-> r.index]
  BY DEF Sound
<1> QED
  BY <1>6, <1>7 DEF Registry

\* A client or an abo that is looked up is in its array afterwards, at the
\* index it remembers, and nobody else comes or goes.
LEMMA RegisterSound ==
  ASSUME NEW S, NEW r, Sound(r, S), NEW x \in S
  PROVE  /\ Sound(Register(r, x), S)
         /\ Objects(Register(r, x)) = Objects(r) \union {x}
         /\ Register(r, x).index[x] \in 1..Len(Register(r, x).list)
         /\ Register(r, x).list[Register(r, x).index[x]] = x
<1> DEFINE n == Len(r.list)
           q == Register(r, x)
<1>1. /\ \A i \in 1..n : r.list[i] \in S /\ r.index[r.list[i]] = i
      /\ n \in Nat
      /\ \A y \in S : r.index[y] # 0 =>
           r.index[y] \in 1..n /\ r.list[r.index[y]] = y
  BY PlacesAreIndices
<1>2. r.list \in Seq(S) /\ r.index \in [S -> Nat]
  BY DEF Sound
<1>3. CASE r.index[x] # 0
  <2>1. q = r
    BY <1>3 DEF Register
  <2>2. x \in Objects(r)
    BY <1>1, <1>3 DEF Objects
  <2> QED
    BY <1>1, <1>3, <2>1, <2>2
<1>4. CASE r.index[x] = 0
  <2>1. q.list = Append(r.list, x) /\ q.index = [r.index EXCEPT ![x] = n + 1]
        /\ q = [list |-> q.list, index |-> q.index]
    BY <1>4 DEF Register
  <2> HIDE DEF q
  <2>2. /\ q.list \in Seq(S)
        /\ Len(q.list) = n + 1
        /\ q.list[n + 1] = x
        /\ \A i \in 1..n : q.list[i] = r.list[i]
    BY <1>2, <2>1
  <2>3. \A y \in S : q.index[y] = IF y = x THEN n + 1 ELSE r.index[y]
    BY <1>2, <2>1
  <2>4. q.index \in [S -> Nat]
    BY <1>1, <1>2, <2>1
  <2>5. \A i \in 1..n : r.list[i] # x
    BY <1>1, <1>4
  <2>6. \A i \in 1..Len(q.list) : q.index[q.list[i]] = i
    <3> TAKE i \in 1..Len(q.list)
    <3>1. CASE i = n + 1
      BY <3>1, <2>2, <2>3
    <3>2. CASE i \in 1..n
      BY <3>2, <1>1, <2>2, <2>3, <2>5
    <3> QED
      BY <3>1, <3>2, <2>2, <1>1
  <2>7. Objects(q) = Objects(r) \union {x}
    <3>1. \A i \in 1..Len(q.list) : i = n + 1 \/ i \in 1..n
      BY <1>1, <2>2
    <3>2. Objects(q) \subseteq Objects(r) \union {x}
      BY <3>1, <2>2 DEF Objects
    <3>3. 1..n \subseteq 1..Len(q.list) /\ n + 1 \in 1..Len(q.list)
      BY <1>1, <2>2
    <3>4. \A i \in 1..n : r.list[i] \in Objects(q)
      <4> TAKE i \in 1..n
      <4>1. i \in 1..Len(q.list) /\ q.list[i] = r.list[i]
        BY <3>3, <2>2
      <4> QED
        BY <4>1 DEF Objects
    <3>5. x \in Objects(q)
      BY <3>3, <2>2 DEF Objects
    <3>6. Objects(r) \subseteq Objects(q)
      BY <3>4 DEF Objects
    <3> QED
      BY <3>2, <3>5, <3>6
  <2>8. \A y \in S : q.index[y] # 0 => y \in Objects(q)
    <3>1. \A y \in S : r.index[y] # 0 => y \in Objects(r)
      BY DEF Sound, Indexed
    <3> QED
      BY <3>1, <2>3, <2>7
  <2>9. Sound(q, S)
    <3>1. q \in [list : Seq(S), index : [S -> Nat]]
      BY <2>1, <2>2, <2>4
    <3> QED
      BY <3>1, <2>6, <2>8 DEF Sound, Indexed
  <2>10. q.index[x] = n + 1 /\ n + 1 \in 1..Len(q.list)
    BY <1>1, <2>2, <2>3
  <2> QED
    BY <2>2, <2>7, <2>9, <2>10 DEF q
<1>5. r.index[x] # 0 \/ r.index[x] = 0
  OBVIOUS
<1> HIDE DEF q
<1>6. /\ Sound(q, S)
      /\ Objects(q) = Objects(r) \union {x}
      /\ q.index[x] \in 1..Len(q.list)
      /\ q.list[q.index[x]] = x
  BY <1>3, <1>4, <1>5 DEF q
<1> QED
  BY <1>6 DEF q

\* A destructor takes exactly its object out of the array, and leaves the
\* array sound: the object that moves learns its new index.
LEMMA DeleteAtSound ==
  ASSUME NEW S, NEW r, Sound(r, S), NEW i \in 1..Len(r.list)
  PROVE  /\ Sound(DeleteAt(r, i), S)
         /\ Objects(DeleteAt(r, i)) = Objects(r) \ {r.list[i]}
<1> DEFINE n == Len(r.list)
           q == DeleteAt(r, i)
           x == r.list[i]
           z == r.list[n]
<1>1. /\ \A j \in 1..n : r.list[j] \in S /\ r.index[r.list[j]] = j
      /\ n \in Nat
      /\ \A y \in S : r.index[y] # 0 =>
           r.index[y] \in 1..n /\ r.list[r.index[y]] = y
  BY PlacesAreIndices
<1>2. r.list \in Seq(S) /\ r.index \in [S -> Nat]
  BY DEF Sound
<1>3. n \in 1..n /\ i \in 1..n /\ x \in S /\ z \in S
  BY <1>1
<1>4. /\ q.list = SubSeq([r.list EXCEPT ![i] = z], 1, n - 1)
      /\ q.index = [r.index EXCEPT ![z] = i, ![x] = 0]
      /\ q = [list |-> q.list, index |-> q.index]
  BY DEF DeleteAt
<1>5. /\ q.list \in Seq(S)
      /\ Len(q.list) = n - 1
      /\ \A j \in 1..(n - 1) : q.list[j] = IF j = i THEN z ELSE r.list[j]
  <2> DEFINE t == [r.list EXCEPT ![i] = z]
  <2>1. \A j \in 1..n : t[j] = IF j = i THEN z ELSE r.list[j]
    BY <1>2, <1>3, ExceptSeq
  <2>2. \A j \in 1..(n - 1) : j \in 1..n /\ t[j] \in S
    BY <1>1, <1>3, <2>1
  <2> HIDE DEF t
  <2>3. /\ SubSeq(t, 1, n - 1) \in Seq(S)
        /\ Len(SubSeq(t, 1, n - 1)) =
             IF 1 <= n - 1 THEN (n - 1) - 1 + 1 ELSE 0
        /\ \A j \in 1..((n - 1) - 1 + 1) : SubSeq(t, 1, n - 1)[j] = t[1 + j - 1]
    BY <1>1, <2>2, SubSeqProperties
  <2>4. q.list = SubSeq(t, 1, n - 1)
    BY <1>4 DEF t
  <2>5. n \in Nat \ {0}
    BY <1>1, <1>3
  <2> HIDE DEF n, q, z
  <2>6. Len(q.list) = n - 1
    BY <2>3, <2>4, <2>5
  <2>7. \A j \in 1..(n - 1) : j \in 1..((n - 1) - 1 + 1) /\ 1 + j - 1 = j
    BY <2>5
  <2>8. \A j \in 1..(n - 1) : q.list[j] = t[j]
    BY <2>3, <2>4, <2>7
  <2> QED
    BY <2>1, <2>2, <2>3, <2>4, <2>6, <2>8
<1> HIDE DEF q
<1>6. \A y \in S : q.index[y] = IF y = x THEN 0
                                ELSE IF y = z THEN i ELSE r.index[y]
  BY <1>2, <1>3, <1>4
<1>7. q.index \in [S -> Nat]
  <2>1. i \in Nat /\ 0 \in Nat
    BY <1>1
  <2> HIDE DEF x, z
  <2> QED
    BY <2>1, <1>2, <1>3, <1>4
<1>8. \A j \in 1..n : (r.list[j] = x => j = i) /\ (r.list[j] = z => j = n)
  BY <1>1, <1>3
<1>9. \A j \in 1..Len(q.list) : q.index[q.list[j]] = j
  <2> TAKE j \in 1..Len(q.list)
  <2>1. j \in 1..(n - 1) /\ j \in 1..n /\ j # n
    BY <1>1, <1>5
  <2>2. CASE j = i
    <3>1. q.list[j] = z /\ z # x
      BY <2>1, <2>2, <1>3, <1>5, <1>8
    <3> QED
      BY <3>1, <2>2, <1>3, <1>6
  <2>3. CASE j # i
    <3>1. q.list[j] = r.list[j] /\ r.list[j] # x /\ r.list[j] # z
      BY <2>1, <2>3, <1>5, <1>8
    <3> QED
      BY <3>1, <2>1, <1>1, <1>6
  <2> QED
    BY <2>2, <2>3
<1>10. Objects(q) = Objects(r) \ {x}
  <2>1. ASSUME NEW j \in 1..Len(q.list)
        PROVE  q.list[j] \in Objects(r) /\ q.list[j] # x
    <3>1. j \in 1..(n - 1) /\ j \in 1..n /\ j # n
      BY <1>1, <1>5
    <3>2. CASE j = i
      BY <3>1, <3>2, <1>3, <1>5, <1>8 DEF Objects
    <3>3. CASE j # i
      BY <3>1, <3>3, <1>5, <1>8 DEF Objects
    <3> QED
      BY <3>2, <3>3
  <2>2. ASSUME NEW j \in 1..n, r.list[j] # x
        PROVE  r.list[j] \in Objects(q)
    <3>1. j # i
      BY <2>2
    <3>2. CASE j = n
      <4>1. i \in 1..Len(q.list) /\ q.list[i] = r.list[j]
        BY <3>1, <3>2, <1>1, <1>3, <1>5
      <4> QED
        BY <4>1 DEF Objects
    <3>3. CASE j # n
      <4>1. j \in 1..Len(q.list) /\ q.list[j] = r.list[j]
        BY <3>1, <3>3, <1>1, <1>3, <1>5
      <4> QED
        BY <4>1 DEF Objects
    <3> QED
      BY <3>2, <3>3
  <2>3. Objects(q) \subseteq Objects(r) \ {x}
    BY <2>1 DEF Objects
  <2>4. Objects(r) \ {x} \subseteq Objects(q)
    BY <2>2 DEF Objects
  <2> QED
    BY <2>3, <2>4
<1>11. \A y \in S : q.index[y] # 0 => y \in Objects(q)
  <2> TAKE y \in S
  <2> SUFFICES ASSUME q.index[y] # 0
               PROVE  y \in Objects(q)
    OBVIOUS
  <2>1. y # x /\ (y = z \/ r.index[y] # 0)
    BY <1>6
  <2>2. z \in Objects(r)
    BY <1>3 DEF Objects
  <2>3. y \in Objects(r)
    BY <2>1, <2>2 DEF Sound, Indexed
  <2> QED
    BY <2>1, <2>3, <1>10
<1>12. Sound(q, S)
  <2>1. q \in [list : Seq(S), index : [S -> Nat]]
    BY <1>4, <1>5, <1>7
  <2> QED
    BY <2>1, <1>9, <1>11 DEF Sound, Indexed
<1> QED
  BY <1>10, <1>12 DEF q

\* The loop passes through a sequence of arrays, each of which is the one
\* before after one more place was looked at.
LEMMA SweepRuns ==
  ASSUME NEW r, NEW doomed, Len(r.list) \in Nat
  PROVE  \E f : /\ f[0] = r
                /\ \A i \in 1..Len(r.list) : f[i] = Looked(f[i - 1], i, doomed)
                /\ Sweep(r, doomed) = f[Len(r.list)]
<1> DEFINE n == Len(r.list)
           Run(f, k) == [i \in 0..k |-> IF i = 0 THEN r
                                        ELSE Looked(f[i - 1], i, doomed)]
           T == {k \in 0..n : \E f : f = Run(f, k)}
<1>1. 0 \in T
  <2> DEFINE g == [i \in 0..0 |-> r]
  <2>1. \A i \in 0..0 : i = 0
    OBVIOUS
  <2>2. g = Run(g, 0)
    BY <2>1
  <2>3. 0 \in 0..n /\ \E f : f = Run(f, 0)
    <3> HIDE DEF g, Run
    <3>1. \E f : f = Run(f, 0)
      BY <2>2
    <3> QED
      BY <3>1
  <2> QED
    BY <2>3
<1>2. ASSUME NEW k \in 0..(n - 1), k \in T
      PROVE  k + 1 \in T
  <2>1. PICK f : f = Run(f, k)
    BY <1>2
  <2> DEFINE g == [i \in 0..(k + 1) |-> IF i <= k THEN f[i]
                                        ELSE Looked(f[k], k + 1, doomed)]
  <2>2. f[0] = r /\ \A i \in 1..k : f[i] = Looked(f[i - 1], i, doomed)
    BY <2>1
  <2>3. /\ \A i \in 0..k : g[i] = f[i]
        /\ g[k + 1] = Looked(f[k], k + 1, doomed)
    OBVIOUS
  <2>4. g = [i \in 0..(k + 1) |-> g[i]]
    OBVIOUS
  <2> HIDE DEF g
  <2>5. \A i \in 0..(k + 1) : g[i] = IF i = 0 THEN r
                                     ELSE Looked(g[i - 1], i, doomed)
    <3> TAKE i \in 0..(k + 1)
    <3>1. CASE i = 0
      BY <3>1, <2>2, <2>3
    <3>2. CASE i \in 1..k
      <4>1. i \in 0..k /\ i - 1 \in 0..k /\ i # 0
        BY <3>2
      <4> QED
        BY <4>1, <3>2, <2>2, <2>3
    <3>3. CASE i = k + 1
      <4>1. i # 0 /\ i - 1 = k /\ k \in 0..k
        BY <3>3
      <4> QED
        BY <4>1, <3>3, <2>3
    <3> QED
      BY <3>1, <3>2, <3>3
  <2>6. g = Run(g, k + 1)
    BY <2>4, <2>5
  <2>7. k + 1 \in 0..n
    OBVIOUS
  <2> QED
    BY <2>6, <2>7
<1>3. n \in T
  <2> HIDE DEF T, n
  <2>1. n \in Nat
    BY DEF n
  <2>2. 0..n \subseteq T
    BY <2>1, <1>1, <1>2, IntervalInduction
  <2> QED
    BY <2>1, <2>2
<1> DEFINE f == CHOOSE g : g = Run(g, n)
<1>4. f = Run(f, n)
  BY <1>3
<1>5. Sweep(r, doomed) = f[n]
  BY DEF Sweep
<1> HIDE DEF f
<1>6. f[0] = r /\ \A i \in 1..n : f[i] = Looked(f[i - 1], i, doomed)
  <2>1. 0 \in 0..n /\ \A i \in 1..n : i \in 0..n /\ i # 0
    OBVIOUS
  <2> QED
    BY <1>4, <2>1
<1> QED
  BY <1>5, <1>6

\* One turn of the loop deletes an object that is doomed, or nothing.
LEMMA LookedSound ==
  ASSUME NEW S, NEW s, Sound(s, S), NEW i \in Nat \ {0}, NEW doomed
  PROVE  /\ Sound(Looked(s, i, doomed), S)
         /\ Objects(Looked(s, i, doomed)) \subseteq Objects(s)
         /\ Objects(s) \ doomed \subseteq Objects(Looked(s, i, doomed))
<1>1. CASE i <= Len(s.list) /\ s.list[i] \in doomed
  <2>1. Len(s.list) \in Nat
    BY PlacesAreIndices
  <2>2. i \in 1..Len(s.list)
    BY <1>1, <2>1
  <2>3. Looked(s, i, doomed) = DeleteAt(s, i)
    BY <1>1 DEF Looked
  <2>4. Sound(DeleteAt(s, i), S) /\ Objects(DeleteAt(s, i)) = Objects(s) \ {s.list[i]}
    BY <2>2, DeleteAtSound
  <2> QED
    BY <1>1, <2>3, <2>4
<1>2. CASE ~(i <= Len(s.list) /\ s.list[i] \in doomed)
  <2>1. Looked(s, i, doomed) = s
    BY <1>2 DEF Looked
  <2> QED
    BY <2>1
<1> QED
  BY <1>1, <1>2

\* The loop that deletes while it iterates leaves a sound array, takes nobody
\* out of it who is not doomed, and brings nobody in.  (It may leave some who
\* are doomed.)
THEOREM SweepSound ==
  ASSUME NEW S, NEW r, Sound(r, S), NEW doomed
  PROVE  /\ Sound(Sweep(r, doomed), S)
         /\ Objects(Sweep(r, doomed)) \subseteq Objects(r)
         /\ Objects(r) \ doomed \subseteq Objects(Sweep(r, doomed))
<1> DEFINE n == Len(r.list)
<1>1. n \in Nat
  BY PlacesAreIndices
<1>2. PICK f : /\ f[0] = r
               /\ \A i \in 1..n : f[i] = Looked(f[i - 1], i, doomed)
               /\ Sweep(r, doomed) = f[n]
  BY <1>1, SweepRuns
<1> DEFINE Fine(s) == /\ Sound(s, S)
                      /\ Objects(s) \subseteq Objects(r)
                      /\ Objects(r) \ doomed \subseteq Objects(s)
           T == {i \in 0..n : Fine(f[i])}
<1>3. 0 \in T
  <2>1. Fine(r)
    OBVIOUS
  <2> QED
    BY <1>1, <1>2, <2>1
<1>4. ASSUME NEW i \in 0..(n - 1), i \in T
      PROVE  i + 1 \in T
  <2>1. /\ i + 1 \in 1..n /\ i + 1 \in 0..n
        /\ i + 1 \in Nat \ {0}
        /\ (i + 1) - 1 = i
    BY <1>1
  <2>2. f[i + 1] = Looked(f[i], i + 1, doomed)
    BY <1>2, <2>1
  <2>3. Fine(f[i])
    BY <1>4
  <2>4. /\ Sound(Looked(f[i], i + 1, doomed), S)
        /\ Objects(Looked(f[i], i + 1, doomed)) \subseteq Objects(f[i])
        /\ Objects(f[i]) \ doomed \subseteq Objects(Looked(f[i], i + 1, doomed))
    BY <2>1, <2>3, LookedSound
  <2>5. Fine(f[i + 1])
    BY <2>2, <2>3, <2>4
  <2> HIDE DEF Fine
  <2> QED
    BY <2>1, <2>5
<1>5. n \in T
  <2> HIDE DEF T, n
  <2>1. 0..n \subseteq T
    BY <1>1, <1>3, <1>4, IntervalInduction
  <2> QED
    BY <1>1, <2>1
<1> QED
  BY <1>2, <1>5

\* The loop does delete an object that is the only one it looks for.
THEOREM SweepOfOne ==
  ASSUME NEW S, NEW r, Sound(r, S), NEW x \in S
  PROVE  Objects(Sweep(r, {x})) = Objects(r) \ {x}
<1> DEFINE n == Len(r.list)
           p == r.index[x]
<1>1. /\ n \in Nat
      /\ \A i \in 1..n : r.list[i] \in S /\ r.index[r.list[i]] = i
      /\ p # 0 => p \in 1..n /\ r.list[p] = x
      /\ \A y \in Objects(r) : r.index[y] # 0
  BY PlacesAreIndices
<1>2. /\ Objects(Sweep(r, {x})) \subseteq Objects(r)
      /\ Objects(r) \ {x} \subseteq Objects(Sweep(r, {x}))
  BY SweepSound
<1>3. SUFFICES ASSUME x \in Objects(r)
               PROVE  x \notin Objects(Sweep(r, {x}))
  BY <1>2
<1>4. p \in 1..n /\ r.list[p] = x
  BY <1>1, <1>3
<1>5. PICK f : /\ f[0] = r
               /\ \A i \in 1..n : f[i] = Looked(f[i - 1], i, {x})
               /\ Sweep(r, {x}) = f[n]
  BY <1>1, SweepRuns
<1>6. f[p - 1] = r
  <2> DEFINE T == {i \in 0..(p - 1) : f[i] = r}
  <2>1. p - 1 \in Nat /\ 0 \in T
    BY <1>1, <1>4, <1>5
  <2>2. ASSUME NEW i \in 0..((p - 1) - 1), i \in T
        PROVE  i + 1 \in T
    <3>1. i + 1 \in 1..n /\ i + 1 \in 0..(p - 1) /\ i + 1 # p /\ (i + 1) - 1 = i
      BY <1>1, <1>4
    <3>2. r.list[i + 1] # x
      BY <1>1, <3>1
    <3>3. f[i + 1] = Looked(r, i + 1, {x})
      BY <1>5, <2>2, <3>1
    <3>4. f[i + 1] = r
      BY <3>2, <3>3 DEF Looked
    <3> QED
      BY <3>1, <3>4
  <2>3. 0..(p - 1) \subseteq T
    <3> HIDE DEF T, p
    <3> QED
      BY <2>1, <2>2, IntervalInduction
  <2> QED
    BY <2>1, <2>3
<1> DEFINE Gone(s) == Sound(s, S) /\ x \notin Objects(s)
           U == {i \in p..n : Gone(f[i])}
<1>7. p \in U
  <2>1. f[p] = Looked(r, p, {x})
    BY <1>4, <1>5, <1>6
  <2>2. p <= Len(r.list) /\ r.list[p] \in {x}
    BY <1>4
  <2>3. f[p] = DeleteAt(r, p)
    BY <2>1, <2>2 DEF Looked
  <2>4. Gone(f[p])
    BY <1>4, <2>3, DeleteAtSound
  <2> QED
    BY <1>1, <1>4, <2>4
<1>8. ASSUME NEW i \in p..(n - 1), i \in U
      PROVE  i + 1 \in U
  <2>1. i + 1 \in 1..n /\ i + 1 \in p..n /\ i + 1 \in Nat \ {0} /\ (i + 1) - 1 = i
    BY <1>1, <1>4
  <2>2. f[i + 1] = Looked(f[i], i + 1, {x})
    BY <1>5, <2>1
  <2>3. Gone(f[i])
    BY <1>8
  <2>4. Gone(f[i + 1])
    BY <2>1, <2>2, <2>3, LookedSound
  <2> HIDE DEF Gone
  <2> QED
    BY <2>1, <2>4
<1>9. n \in U
  <2> HIDE DEF U, n, p
  <2>1. p \in Nat /\ n \in p..n
    BY <1>1, <1>4
  <2>2. p..n \subseteq U
    BY <2>1, <1>1, <1>7, <1>8, IntervalInduction
  <2> QED
    BY <2>1, <2>2
<1> QED
  BY <1>5, <1>9

-----------------------------------------------------------------------------
(* The inductive invariant *)

Arrays == Sound(clients, Address) /\ Sound(abos, Name)

LinkTypes ==
  /\ supply \in [Address -> SUBSET Name]
  /\ subscription \in [Address -> SUBSET Name]
  /\ supplier \in [Name -> SUBSET Address]
  /\ subscriber \in [Name -> SUBSET Address]

\* Both ends of a link are in their arrays.
Linked ==
  \A c \in Address, n \in Name :
    n \in supply[c] \/ n \in subscription[c] =>
      c \in Objects(clients) /\ n \in Objects(abos)

SentTyped == sent \subseteq [kind : {"data", "setdata"}, topic : Name, to : Address]

Links == LinkTypes /\ LinksAgree /\ Linked

Inv == Arrays /\ Links /\ SentTyped

LEMMA PacketsTyped ==
  ASSUME NEW kind \in {"data", "setdata"}, NEW n \in Name, NEW d \in SUBSET Address
  PROVE  Packets(kind, n, d) \subseteq
           [kind : {"data", "setdata"}, topic : Name, to : Address]
BY DEF Packets

\* A packet that names a client and an abo only adds them to the arrays.
LEMMA KnownArrays ==
  ASSUME Arrays, NEW c \in Address, NEW n \in Name, Known(c, n)
  PROVE  /\ Arrays'
         /\ Objects(clients') = Objects(clients) \union {c}
         /\ Objects(abos') = Objects(abos) \union {n}
BY RegisterSound DEF Arrays, Known

\* A new link, or a link less, on both sides: the ends are in the arrays.
LEMMA KnownLinks ==
  ASSUME Links, NEW c \in Address, NEW n \in Name,
         Objects(clients') = Objects(clients) \union {c},
         Objects(abos') = Objects(abos) \union {n},
         \/ AddSupply(c, n) /\ UNCHANGED <<subscription, subscriber>>
         \/ /\ supply' = [supply EXCEPT ![c] = @ \ {n}]
            /\ supplier' = [supplier EXCEPT ![n] = @ \ {c}]
            /\ UNCHANGED <<subscription, subscriber>>
         \/ /\ subscription' = [subscription EXCEPT ![c] = @ \union {n}]
            /\ subscriber' = [subscriber EXCEPT ![n] = @ \union {c}]
            /\ UNCHANGED <<supply, supplier>>
         \/ /\ subscription' = [subscription EXCEPT ![c] = @ \ {n}]
            /\ subscriber' = [subscriber EXCEPT ![n] = @ \ {c}]
            /\ UNCHANGED <<supply, supplier>>
         \/ UNCHANGED links
  PROVE  Links'
<1> USE DEF Links
<1>1. LinkTypes'
  BY DEF LinkTypes, AddSupply, links
<1>2. LinksAgree'
  BY DEF LinkTypes, LinksAgree, AddSupply, links
<1>3. Linked'
  BY DEF LinkTypes, Linked, AddSupply, links
<1> QED
  BY <1>1, <1>2, <1>3

\* The clients that are deleted take all their links with them, since the
\* abos in their own lists are all that know of them.
LEMMA ForgetClientsLinks ==
  ASSUME Links, NEW gone \in SUBSET Address, ForgetClients(gone),
         Objects(clients) \ gone \subseteq Objects(clients'),
         UNCHANGED abos
  PROVE  Links'
<1> USE DEF Links
<1>1. /\ \A c \in Address : supply'[c] = IF c \in gone THEN {} ELSE supply[c]
      /\ \A c \in Address : subscription'[c] =
                              IF c \in gone THEN {} ELSE subscription[c]
  BY DEF ForgetClients
<1>2. /\ \A n \in Name : supplier'[n] = supplier[n] \ gone
      /\ \A n \in Name : subscriber'[n] = subscriber[n] \ gone
  BY DEF ForgetClients, LinkTypes, LinksAgree
<1>3. LinkTypes'
  BY DEF LinkTypes, ForgetClients
<1>4. LinksAgree'
  BY <1>1, <1>2 DEF LinkTypes, LinksAgree
<1>5. Linked'
  BY <1>1 DEF LinkTypes, Linked
<1> QED
  BY <1>3, <1>4, <1>5

\* The same for the abos that are deleted.
LEMMA ForgetAbosLinks ==
  ASSUME Links, NEW gone \in SUBSET Name, ForgetAbos(gone),
         Objects(abos) \ gone \subseteq Objects(abos'),
         Objects(clients) \subseteq Objects(clients')
  PROVE  Links'
<1> USE DEF Links
<1>1. /\ \A n \in Name : supplier'[n] = IF n \in gone THEN {} ELSE supplier[n]
      /\ \A n \in Name : subscriber'[n] =
                           IF n \in gone THEN {} ELSE subscriber[n]
  BY DEF ForgetAbos
<1>2. /\ \A c \in Address : supply'[c] = supply[c] \ gone
      /\ \A c \in Address : subscription'[c] = subscription[c] \ gone
  BY DEF ForgetAbos, LinkTypes, LinksAgree
<1>3. LinkTypes'
  BY DEF LinkTypes, ForgetAbos
<1>4. LinksAgree'
  BY <1>1, <1>2 DEF LinkTypes, LinksAgree
<1>5. Linked'
  BY <1>2 DEF LinkTypes, Linked
<1> QED
  BY <1>3, <1>4, <1>5

LEMMA EmptySound ==
  ASSUME NEW S
  PROVE  Sound(Empty(S), S)
<1>1. Empty(S).list = << >> /\ Empty(S).index = [x \in S |-> 0]
  BY DEF Empty
<1>2. Empty(S) \in [list : Seq(S), index : [S -> Nat]]
  BY DEF Empty
<1>3. 1..Len(Empty(S).list) = {}
  BY <1>1
<1> QED
  BY <1>1, <1>2, <1>3 DEF Sound, Indexed

LEMMA InitInv == Init => Inv
<1> SUFFICES ASSUME Init PROVE Inv
  OBVIOUS
<1>1. Arrays
  BY EmptySound DEF Init, Arrays
<1>2. Links
  BY DEF Init, Links, LinkTypes, LinksAgree, Linked
<1>3. SentTyped
  BY DEF Init, SentTyped
<1> QED
  BY <1>1, <1>2, <1>3 DEF Inv

LEMMA NextInv == Inv /\ [Next]_vars => Inv'
<1> SUFFICES ASSUME Inv, [Next]_vars PROVE Inv'
  OBVIOUS
<1> USE DEF Inv
<1>1. ASSUME NEW c \in Address, NEW n \in Name,
             \/ Data(c, n) \/ SetData(c, n)
             \/ Supply(c, n) \/ Unsupply(c, n)
             \/ Subscribe(c, n) \/ Unsubscribe(c, n)
             \/ Configure(c, n)
      PROVE  Inv'
  <2>1. Known(c, n)
    BY <1>1 DEF Data, SetData, Supply, Unsupply, Subscribe, Unsubscribe, Configure
  <2>2. /\ Arrays'
        /\ Objects(clients') = Objects(clients) \union {c}
        /\ Objects(abos') = Objects(abos) \union {n}
    BY <2>1, KnownArrays
  <2>3. Links'
    <3>1. CASE Data(c, n) \/ SetData(c, n) \/ Supply(c, n)
      BY <3>1, <2>2, KnownLinks DEF Data, SetData, Supply
    <3>2. CASE Unsupply(c, n)
      BY <3>2, <2>2, KnownLinks DEF Unsupply
    <3>3. CASE Subscribe(c, n)
      BY <3>3, <2>2, KnownLinks DEF Subscribe
    <3>4. CASE Unsubscribe(c, n)
      BY <3>4, <2>2, KnownLinks DEF Unsubscribe
    <3>5. CASE Configure(c, n)
      BY <3>5, <2>2, KnownLinks DEF Configure
    <3> QED
      BY <1>1, <3>1, <3>2, <3>3, <3>4, <3>5
  <2>4. SentTyped'
    <3>1. /\ subscriber[n] \ {c} \in SUBSET Address
          /\ supplier[n] \ {c} \in SUBSET Address
      BY DEF Links, LinkTypes
    <3>2. CASE Data(c, n)
      BY <3>1, <3>2, PacketsTyped DEF Data, SentTyped
    <3>3. CASE SetData(c, n)
      BY <3>1, <3>3, PacketsTyped DEF SetData, SentTyped
    <3>4. CASE ~Data(c, n) /\ ~SetData(c, n)
      <4>1. sent' = {}
        BY <1>1, <3>4 DEF Supply, Unsupply, Subscribe, Unsubscribe, Configure
      <4> QED
        BY <4>1 DEF SentTyped
    <3> QED
      BY <3>2, <3>3, <3>4
  <2> QED
    BY <2>2, <2>3, <2>4
<1>2. ASSUME NEW c \in Address, ClientTerm(c)
      PROVE  Inv'
  <2> DEFINE known == Register(clients, c)
  <2>1. /\ Sound(known, Address)
        /\ Objects(known) = Objects(clients) \union {c}
        /\ known.index[c] \in 1..Len(known.list)
        /\ known.list[known.index[c]] = c
    BY RegisterSound DEF Arrays
  <2>2. clients' = DeleteAt(known, known.index[c]) /\ ForgetClients({c})
        /\ sent' = {} /\ UNCHANGED abos
    BY <1>2 DEF ClientTerm
  <2> HIDE DEF known
  <2>3. Sound(clients', Address) /\ Objects(clients') = Objects(known) \ {c}
    BY <2>1, <2>2, DeleteAtSound
  <2>4. Arrays'
    BY <2>2, <2>3 DEF Arrays
  <2>5. Links'
    BY <2>1, <2>2, <2>3, ForgetClientsLinks
  <2> QED
    BY <2>2, <2>4, <2>5 DEF SentTyped
<1>3. ASSUME NEW c \in Address, OtherPacket(c)
      PROVE  Inv'
  <2>1. Sound(clients', Address) /\ Objects(clients') = Objects(clients) \union {c}
    BY <1>3, RegisterSound DEF OtherPacket, Arrays
  <2>2. Arrays'
    BY <1>3, <2>1 DEF OtherPacket, Arrays
  <2>3. Links'
    BY <1>3, <2>1 DEF OtherPacket, links, Links, LinkTypes, LinksAgree, Linked
  <2> QED
    BY <1>3, <2>2, <2>3 DEF OtherPacket, SentTyped
<1>4. ASSUME NEW c \in Address, RemoveClients(c)
      PROVE  Inv'
  <2> DEFINE known == Register(clients, c)
  <2>1. PICK doomed \in SUBSET Address :
          /\ clients' = Sweep(known, doomed)
          /\ ForgetClients(Objects(known) \ Objects(Sweep(known, doomed)))
          /\ sent' = {}
          /\ UNCHANGED abos
    BY <1>4 DEF RemoveClients
  <2>2. Sound(known, Address) /\ Objects(known) = Objects(clients) \union {c}
    BY RegisterSound DEF Arrays
  <2> HIDE DEF known
  <2>3. Sound(clients', Address)
    BY <2>1, <2>2, SweepSound
  <2>4. Arrays'
    BY <2>1, <2>3 DEF Arrays
  <2>5. Objects(known) \ Objects(Sweep(known, doomed)) \in SUBSET Address
    BY <2>2, PlacesAreIndices
  <2>6. Links'
    BY <2>1, <2>2, <2>5, ForgetClientsLinks
  <2> QED
    BY <2>1, <2>4, <2>6 DEF SentTyped
<1>5. ASSUME NEW c \in Address, NEW doomed, RemoveAbosIn(c, doomed)
      PROVE  Inv'
  <2>1. /\ clients' = Register(clients, c)
        /\ abos' = Sweep(abos, doomed)
        /\ ForgetAbos(Objects(abos) \ Objects(Sweep(abos, doomed)))
        /\ sent' = {}
    BY <1>5 DEF RemoveAbosIn
  <2>2. Sound(clients', Address) /\ Objects(clients') = Objects(clients) \union {c}
    BY <2>1, RegisterSound DEF Arrays
  <2>3. Sound(abos', Name)
    BY <2>1, SweepSound DEF Arrays
  <2>4. Objects(abos) \ Objects(Sweep(abos, doomed)) \in SUBSET Name
    BY PlacesAreIndices DEF Arrays
  <2>5. Links'
    BY <2>1, <2>2, <2>4, ForgetAbosLinks
  <2> QED
    BY <2>1, <2>2, <2>3, <2>5 DEF Arrays, SentTyped
<1>6. CASE UNCHANGED vars
  BY <1>6 DEF vars, links, Arrays, Links, LinkTypes, LinksAgree, Linked, SentTyped
<1> QED
  BY <1>1, <1>2, <1>3, <1>4, <1>5, <1>6
     DEF Next, RemoveAbo, RemoveUnsupplied

LEMMA Invariance == Spec => []Inv
BY InitInv, NextInv, PTL DEF Spec

-----------------------------------------------------------------------------
(* The invariants of Subserver *)

\* Every variable has its type; in particular an index never exceeds the
\* number of objects there can be.
THEOREM TypeCorrect == Spec => []TypeOK
<1>1. Inv => TypeOK
  <2> SUFFICES ASSUME Inv PROVE TypeOK
    OBVIOUS
  <2>1. clients \in Registry(Address) /\ abos \in Registry(Name)
    BY FiniteNetwork, SoundIsRegistry DEF Inv, Arrays
  <2> QED
    BY <2>1 DEF Inv, Links, LinkTypes, SentTyped, TypeOK
<1> QED
  BY <1>1, Invariance, PTL

\* The lookup finds the object it looks for: whatever was deleted, and by
\* whichever loop, every object of an array is at the index it remembers.
THEOREM LookupsFind == Spec => []ArraysSound
<1>1. Inv => ArraysSound
  BY DEF Inv, Arrays, Sound, ArraysSound
<1> QED
  BY <1>1, Invariance, PTL

\* The lists of the clients and those of the abos describe the same links.
THEOREM BothSidesAgree == Spec => []LinksAgree
<1>1. Inv => LinksAgree
  BY DEF Inv, Links
<1> QED
  BY <1>1, Invariance, PTL

\* No list keeps a pointer to an object that was deleted.
THEOREM NoPointerDangles == Spec => []NothingDangles
<1>1. Inv => NothingDangles
  <2> SUFFICES ASSUME Inv PROVE NothingDangles
    OBVIOUS
  <2>1. \A c \in Address :
          /\ supply[c] \union subscription[c] \subseteq Objects(abos)
          /\ supply[c] \union subscription[c] # {} => c \in Objects(clients)
    BY DEF Inv, Links, LinkTypes, Linked
  <2>2. \A n \in Name :
          /\ supplier[n] \union subscriber[n] \subseteq Objects(clients)
          /\ supplier[n] \union subscriber[n] # {} => n \in Objects(abos)
    BY DEF Inv, Links, LinkTypes, LinksAgree, Linked
  <2> QED
    BY <2>1, <2>2 DEF NothingDangles
<1> QED
  BY <1>1, Invariance, PTL

\* "rma" with the name of an abo does remove it, wherever it is in the array.
THEOREM NamedAboRemoved ==
  Spec => [][\A c \in Address, n \in Name :
               RemoveAbosIn(c, {n}) => n \notin Objects(abos')]_vars
<1>1. ASSUME Inv, NEW c \in Address, NEW n \in Name, RemoveAbosIn(c, {n})
      PROVE  n \notin Objects(abos')
  <2>1. abos' = Sweep(abos, {n})
    BY <1>1 DEF RemoveAbosIn
  <2>2. Objects(Sweep(abos, {n})) = Objects(abos) \ {n}
    BY <1>1, SweepOfOne DEF Inv, Arrays
  <2> QED
    BY <2>1, <2>2
<1>2. Inv => \A c \in Address, n \in Name :
               RemoveAbosIn(c, {n}) => n \notin Objects(abos')
  BY <1>1
<1> QED
  BY <1>2, Invariance, PTL

-----------------------------------------------------------------------------
(* Subserver implements Broker. *)

\* The links of the abstraction: those the clients hold.
Subscribed == {l \in Address \X Name : l[2] \in subscription[l[1]]}
Supplied == {l \in Address \X Name : l[2] \in supply[l[1]]}

LEMMA PairsSubscribed ==
  \A c \in Address, n \in Name : <<c, n>> \in Subscribed <=> n \in subscription[c]
BY DEF Subscribed

LEMMA PairsSupplied ==
  \A c \in Address, n \in Name : <<c, n>> \in Supplied <=> n \in supply[c]
BY DEF Supplied

\* What is forwarded goes to those the abstraction names, since an abo's lists
\* agree with those of the clients.
LEMMA TargetsAgree ==
  ASSUME Links, NEW c \in Address, NEW n \in Name
  PROVE  /\ subscriber[n] \ {c} = {d \in Address \ {c} : <<d, n>> \in Subscribed}
         /\ supplier[n] \ {c} = {d \in Address \ {c} : <<d, n>> \in Supplied}
BY PairsSubscribed, PairsSupplied DEF Links, LinkTypes, LinksAgree

\* A link more or less in the lists of a client is one more or less in the
\* abstraction.
LEMMA LinksAbstracted ==
  ASSUME Links, NEW c \in Address, NEW n \in Name
  PROVE  /\ AddSupply(c, n) => Supplied' = Supplied \union {<<c, n>>}
         /\ supply' = [supply EXCEPT ![c] = @ \ {n}] =>
              Supplied' = Supplied \ {<<c, n>>}
         /\ UNCHANGED supply => Supplied' = Supplied
         /\ subscription' = [subscription EXCEPT ![c] = @ \union {n}] =>
              Subscribed' = Subscribed \union {<<c, n>>}
         /\ subscription' = [subscription EXCEPT ![c] = @ \ {n}] =>
              Subscribed' = Subscribed \ {<<c, n>>}
         /\ UNCHANGED subscription => Subscribed' = Subscribed
<1>1. AddSupply(c, n) => Supplied' = Supplied \union {<<c, n>>}
  BY DEF AddSupply, Supplied, Links, LinkTypes
<1>2. supply' = [supply EXCEPT ![c] = @ \ {n}] =>
        Supplied' = Supplied \ {<<c, n>>}
  BY DEF Supplied, Links, LinkTypes
<1>3. subscription' = [subscription EXCEPT ![c] = @ \union {n}] =>
        Subscribed' = Subscribed \union {<<c, n>>}
  BY DEF Subscribed, Links, LinkTypes
<1>4. subscription' = [subscription EXCEPT ![c] = @ \ {n}] =>
        Subscribed' = Subscribed \ {<<c, n>>}
  BY DEF Subscribed, Links, LinkTypes
<1>5. /\ UNCHANGED supply => Supplied' = Supplied
      /\ UNCHANGED subscription => Subscribed' = Subscribed
  BY DEF Supplied, Subscribed
<1> QED
  BY <1>1, <1>2, <1>3, <1>4, <1>5

\* Deleting clients or abos takes exactly their links out of the abstraction.
LEMMA LeftAbstracted ==
  ASSUME Links
  PROVE  /\ \A gone \in SUBSET Address : ForgetClients(gone) =>
              /\ Subscribed' = {l \in Subscribed : l[1] \notin gone}
              /\ Supplied' = {l \in Supplied : l[1] \notin gone}
         /\ \A gone \in SUBSET Name : ForgetAbos(gone) =>
              /\ Subscribed' = {l \in Subscribed : l[2] \notin gone}
              /\ Supplied' = {l \in Supplied : l[2] \notin gone}
<1>1. ASSUME NEW gone \in SUBSET Address, ForgetClients(gone)
      PROVE  /\ Subscribed' = {l \in Subscribed : l[1] \notin gone}
             /\ Supplied' = {l \in Supplied : l[1] \notin gone}
  BY <1>1 DEF ForgetClients, Subscribed, Supplied
<1>2. ASSUME NEW gone \in SUBSET Name, ForgetAbos(gone)
      PROVE  /\ Subscribed' = {l \in Subscribed : l[2] \notin gone}
             /\ Supplied' = {l \in Supplied : l[2] \notin gone}
  <2>1. /\ \A c \in Address : supply'[c] = supply[c] \ gone
        /\ \A c \in Address : subscription'[c] = subscription[c] \ gone
    BY <1>2 DEF ForgetAbos, Links, LinkTypes, LinksAgree
  <2> QED
    BY <2>1 DEF Subscribed, Supplied
<1> QED
  BY <1>1, <1>2

LEMMA InitAbstract == Init => Server!Init
BY DEF Init, Server!Init

\* Every packet is one step of the broker.  A packet that changes no link is
\* the leaving of nobody.
LEMMA NextAbstract == Inv /\ [Next]_vars => [Server!Next]_(Server!vars)
<1> SUFFICES ASSUME Inv, [Next]_vars
             PROVE  Server!Next \/ UNCHANGED Server!vars
  OBVIOUS
<1> USE DEF Inv
<1>1. ASSUME NEW c \in Address, NEW n \in Name, Data(c, n)
      PROVE  Server!Publish(c, n)
  <2>1. sent' = Packets("data", n, {d \in Address \ {c} : <<d, n>> \in Subscribed})
    BY <1>1, TargetsAgree DEF Data
  <2>2. Supplied' = Supplied \union {<<c, n>>} /\ Subscribed' = Subscribed
    BY <1>1, LinksAbstracted DEF Data
  <2> QED
    BY <2>1, <2>2 DEF Server!Publish, Server!Packets, Packets, Subscribed, Supplied
<1>2. ASSUME NEW c \in Address, NEW n \in Name, SetData(c, n)
      PROVE  Server!Command(c, n)
  <2>1. sent' = Packets("setdata", n, {d \in Address \ {c} : <<d, n>> \in Supplied})
    BY <1>2, TargetsAgree DEF SetData
  <2>2. Supplied' = Supplied \union {<<c, n>>} /\ Subscribed' = Subscribed
    BY <1>2, LinksAbstracted DEF SetData
  <2> QED
    BY <2>1, <2>2 DEF Server!Command, Server!Packets, Packets, Subscribed, Supplied
<1>3. ASSUME NEW c \in Address, NEW n \in Name, Supply(c, n)
      PROVE  Server!Supply(c, n)
  <2>1. Supplied' = Supplied \union {<<c, n>>} /\ Subscribed' = Subscribed
    BY <1>3, LinksAbstracted DEF Supply
  <2> QED
    BY <1>3, <2>1 DEF Supply, Server!Supply, Subscribed, Supplied
<1>4. ASSUME NEW c \in Address, NEW n \in Name, Unsupply(c, n)
      PROVE  Server!Unsupply(c, n)
  <2>1. Supplied' = Supplied \ {<<c, n>>} /\ Subscribed' = Subscribed
    BY <1>4, LinksAbstracted DEF Unsupply
  <2> QED
    BY <1>4, <2>1 DEF Unsupply, Server!Unsupply, Subscribed, Supplied
<1>5. ASSUME NEW c \in Address, NEW n \in Name, Subscribe(c, n)
      PROVE  Server!Subscribe(c, n)
  <2>1. Subscribed' = Subscribed \union {<<c, n>>} /\ Supplied' = Supplied
    BY <1>5, LinksAbstracted DEF Subscribe
  <2> QED
    BY <1>5, <2>1 DEF Subscribe, Server!Subscribe, Subscribed, Supplied
<1>6. ASSUME NEW c \in Address, NEW n \in Name, Unsubscribe(c, n)
      PROVE  Server!Unsubscribe(c, n)
  <2>1. Subscribed' = Subscribed \ {<<c, n>>} /\ Supplied' = Supplied
    BY <1>6, LinksAbstracted DEF Unsubscribe
  <2> QED
    BY <1>6, <2>1 DEF Unsubscribe, Server!Unsubscribe, Subscribed, Supplied
<1>7. ASSUME UNCHANGED links, sent' = {}
      PROVE  Server!Leave({})
  <2>1. Subscribed' = Subscribed /\ Supplied' = Supplied
    BY <1>7 DEF links, Subscribed, Supplied
  <2>2. /\ Subscribed' = {l \in Subscribed : l[1] \notin {}}
        /\ Supplied' = {l \in Supplied : l[1] \notin {}}
    BY <2>1
  <2> QED
    BY <1>7, <2>2 DEF Server!Leave, Subscribed, Supplied
<1>8. ASSUME NEW gone \in SUBSET Address, ForgetClients(gone), sent' = {}
      PROVE  Server!Leave(gone)
  <2>1. /\ Subscribed' = {l \in Subscribed : l[1] \notin gone}
        /\ Supplied' = {l \in Supplied : l[1] \notin gone}
    BY <1>8, LeftAbstracted
  <2> QED
    BY <1>8, <2>1 DEF Server!Leave, Subscribed, Supplied
<1>9. ASSUME NEW gone \in SUBSET Name, ForgetAbos(gone), sent' = {}
      PROVE  Server!Drop(gone)
  <2>1. /\ Subscribed' = {l \in Subscribed : l[2] \notin gone}
        /\ Supplied' = {l \in Supplied : l[2] \notin gone}
    BY <1>9, LeftAbstracted
  <2> QED
    BY <1>9, <2>1 DEF Server!Drop, Subscribed, Supplied
<1>10. ASSUME NEW c \in Address, RemoveClients(c)
       PROVE  Server!Next
  <2> DEFINE known == Register(clients, c)
  <2>1. PICK doomed \in SUBSET Address :
          /\ ForgetClients(Objects(known) \ Objects(Sweep(known, doomed)))
          /\ sent' = {}
    BY <1>10 DEF RemoveClients
  <2>2. PICK gone \in SUBSET Address :
          gone = Objects(known) \ Objects(Sweep(known, doomed))
    BY RegisterSound, PlacesAreIndices DEF Arrays
  <2>3. ForgetClients(gone)
    BY <2>1, <2>2 DEF ForgetClients
  <2>4. Server!Leave(gone)
    BY <2>1, <2>3, <1>8
  <2> QED
    BY <2>4 DEF Server!Next
<1>11. ASSUME NEW c \in Address, NEW doomed, RemoveAbosIn(c, doomed)
       PROVE  Server!Next
  <2>1. /\ ForgetAbos(Objects(abos) \ Objects(Sweep(abos, doomed)))
        /\ sent' = {}
    BY <1>11 DEF RemoveAbosIn
  <2>2. PICK gone \in SUBSET Name :
          gone = Objects(abos) \ Objects(Sweep(abos, doomed))
    BY PlacesAreIndices DEF Arrays
  <2>3. ForgetAbos(gone)
    BY <2>1, <2>2 DEF ForgetAbos
  <2>4. Server!Drop(gone)
    BY <2>1, <2>3, <1>9
  <2> QED
    BY <2>4 DEF Server!Next
<1>12. ASSUME NEW c \in Address, ClientTerm(c) \/ OtherPacket(c)
       PROVE  Server!Next
  <2>1. CASE ClientTerm(c)
    <3>1. Server!Leave({c})
      BY <2>1, <1>8 DEF ClientTerm
    <3> QED
      BY <3>1 DEF Server!Next
  <2>2. CASE OtherPacket(c)
    <3>1. Server!Leave({})
      BY <2>2, <1>7 DEF OtherPacket
    <3> QED
      BY <3>1 DEF Server!Next
  <2> QED
    BY <1>12, <2>1, <2>2
<1>13. ASSUME NEW c \in Address, NEW n \in Name, Configure(c, n)
       PROVE  Server!Next
  <2>1. Server!Leave({})
    BY <1>13, <1>7 DEF Configure
  <2> QED
    BY <2>1 DEF Server!Next
<1>14. ASSUME NEW c \in Address, NEW n \in Name,
              \/ Data(c, n) \/ SetData(c, n)
              \/ Supply(c, n) \/ Unsupply(c, n)
              \/ Subscribe(c, n) \/ Unsubscribe(c, n)
       PROVE  Server!Next
  BY <1>14, <1>1, <1>2, <1>3, <1>4, <1>5, <1>6 DEF Server!Next
<1>15. CASE UNCHANGED vars
  BY <1>15 DEF vars, Server!vars
<1> QED
  BY <1>10, <1>11, <1>12, <1>13, <1>14, <1>15
     DEF Next, RemoveAbo, RemoveUnsupplied

\* The server keeps what Broker promises: data reaches every subscriber but
\* its sender, a command every supplier but its sender, and whoever leaves or
\* is dropped loses all links at once and no others are touched.
THEOREM Implements == Spec => ServerSpec
<1>1. Init => Server!Init
  BY InitAbstract
<1>2. Inv /\ [Next]_vars => [Server!Next]_(Server!vars)
  BY NextAbstract
<1> QED
  BY <1>1, <1>2, Invariance, PTL DEF Spec, ServerSpec, Server!Spec

=============================================================================
