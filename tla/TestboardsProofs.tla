-------------------------- MODULE TestboardsProofs --------------------------
(***************************************************************************)
(* Proofs about the test boards.  TypeCorrect needs no assumption; the     *)
(* other theorems assume InTime and FewErrors.                             *)
(*                                                                         *)
(* Their inductive invariant Inv says, besides the types:                  *)
(*   Machines  where the worker of a board is, the process and the fields  *)
(*             of TBmaster fit together, though nothing locks them;        *)
(*   Phases    what commands may be on their way, and in which phases the  *)
(*             two kinds of tests are met;                                 *)
(*   Course    where each board has come to, by the phase of psi_agente    *)
(*             and by the board its loop has reached;                      *)
(*   Trusted   a board psi_agente no longer waits for has ended its test,  *)
(*             and behind the first Old[k] packets every one that says a   *)
(*             board is ready tells the truth, when the packets were       *)
(*             cleared k times since the test began;                       *)
(*   Count     how many packets there are and may still come.              *)
(* clearPackets leaves every second packet, so packets of an earlier test  *)
(* survive it.  That they are all gone when psi_agente begins to wait is a *)
(* matter of counting: with n boards a test leaves six packets and one for *)
(* each line with an error of every board, and one more, and n + 2 calls   *)
(* of clearPackets halve that number each time.  FewErrors says that this  *)
(* is often enough.  The packets that come meanwhile are why Count is      *)
(* needed.                                                                 *)
(***************************************************************************)
EXTENDS Testboards, DataLemmas, SequenceTheorems, FiniteSetTheorems, TLAPS

USE DEF MaxWorkers

-----------------------------------------------------------------------------
(* Sums over the boards *)

\* The sum of the numbers f gives to the boards.
Total(f) ==
  LET sum[i \in 0..NumBoards] == IF i = 0 THEN 0 ELSE sum[i - 1] + f[i]
  IN sum[NumBoards]

LEMMA Boards ==
  /\ NumBoards \in Nat /\ NumBoards > 0 /\ NumTests \in Nat /\ MaxErrorLines \in Nat
  /\ Board = 1..NumBoards /\ IsFiniteSet(Board) /\ Cardinality(Board) = NumBoards
<1>1. NumBoards \in Nat /\ NumBoards > 0 /\ NumTests \in Nat /\ MaxErrorLines \in Nat
  BY TestboardsAssumption
<1>2. IsFiniteSet(1..NumBoards) /\ Cardinality(1..NumBoards) = NumBoards
  BY <1>1, FS_Interval
<1> QED
  BY <1>1, <1>2 DEF Board

\* The sum is reached board by board.
LEMMA TotalRuns ==
  ASSUME NEW f \in [Board -> Nat]
  PROVE  \E s : /\ s[0] = 0
                /\ \A i \in Board : s[i] = s[i - 1] + f[i]
                /\ \A i \in 0..NumBoards : s[i] \in Nat
                /\ Total(f) = s[NumBoards]
<1> DEFINE n == NumBoards
           Run(s, k) == [i \in 0..k |-> IF i = 0 THEN 0 ELSE s[i - 1] + f[i]]
           T == {k \in 0..n : \E s : s = Run(s, k)}
<1>0. n \in Nat /\ Board = 1..n
  BY Boards
<1>1. 0 \in T
  <2> DEFINE g == [i \in 0..0 |-> 0]
  <2>1. \A i \in 0..0 : i = 0
    OBVIOUS
  <2>2. g = Run(g, 0)
    BY <2>1
  <2>3. \E s : s = Run(s, 0)
    <3> HIDE DEF g, Run
    <3> QED
      BY <2>2
  <2> QED
    BY <2>3, <1>0
<1>2. ASSUME NEW k \in 0..(n - 1), k \in T
      PROVE  k + 1 \in T
  <2>1. PICK s : s = Run(s, k)
    BY <1>2
  <2> DEFINE g == [i \in 0..(k + 1) |-> IF i <= k THEN s[i] ELSE s[k] + f[k + 1]]
  <2>2. s[0] = 0 /\ \A i \in 1..k : s[i] = s[i - 1] + f[i]
    BY <2>1
  <2>3. (\A i \in 0..k : g[i] = s[i]) /\ g[k + 1] = s[k] + f[k + 1]
    OBVIOUS
  <2>4. g = [i \in 0..(k + 1) |-> g[i]]
    OBVIOUS
  <2> HIDE DEF g
  <2>5. \A i \in 0..(k + 1) : g[i] = IF i = 0 THEN 0 ELSE g[i - 1] + f[i]
    <3> TAKE i \in 0..(k + 1)
    <3>1. CASE i = 0
      BY <3>1, <2>2, <2>3
    <3>2. CASE i \in 1..k
      <4>1. i \in 0..k /\ i - 1 \in 0..k /\ i # 0
        BY <3>2
      <4> QED
        BY <4>1, <3>2, <2>2, <2>3
    <3>3. CASE i = k + 1
      <4>1. i # 0 /\ i - 1 = k /\ k \in 0..k
        BY <3>3
      <4> QED
        BY <4>1, <3>3, <2>3
    <3> QED
      BY <3>1, <3>2, <3>3
  <2>6. g = Run(g, k + 1)
    BY <2>4, <2>5
  <2>7. k + 1 \in 0..n
    BY <1>0
  <2> QED
    BY <2>6, <2>7
<1>3. n \in T
  <2> HIDE DEF T, n
  <2>1. 0..n \subseteq T
    BY <1>0, <1>1, <1>2, IntervalInduction
  <2> QED
    BY <2>1, <1>0
<1> DEFINE s == CHOOSE g : g = Run(g, n)
<1>4. s = Run(s, n)
  BY <1>3
<1>5. Total(f) = s[n]
  BY DEF Total
<1> HIDE DEF s
<1>6. s[0] = 0 /\ \A i \in 1..n : s[i] = s[i - 1] + f[i]
  <2>1. 0 \in 0..n /\ \A i \in 1..n : i \in 0..n /\ i # 0
    BY <1>0
  <2> QED
    BY <1>4, <2>1
<1>7. \A i \in 0..n : s[i] \in Nat
  <2> DEFINE U == {i \in 0..n : s[i] \in Nat}
  <2>1. 0 \in U
    BY <1>0, <1>6
  <2>2. ASSUME NEW i \in 0..(n - 1), i \in U
        PROVE  i + 1 \in U
    <3>1. i + 1 \in 1..n /\ i + 1 \in 0..n /\ (i + 1) - 1 = i
      BY <1>0
    <3>2. f[i + 1] \in Nat /\ s[i] \in Nat
      BY <3>1, <2>2, <1>0
    <3>3. s[i + 1] = s[i] + f[i + 1]
      BY <3>1, <1>6
    <3> QED
      BY <3>1, <3>2, <3>3
  <2> HIDE DEF U, n
  <2>3. 0..n \subseteq U
    BY <1>0, <2>1, <2>2, IntervalInduction
  <2> QED
    BY <2>3 DEF U
<1> QED
  BY <1>0, <1>5, <1>6, <1>7

\* A sum of which every part has grown by c at most.
LEMMA TotalGrows ==
  ASSUME NEW f \in [Board -> Nat], NEW g \in [Board -> Nat], NEW c \in Nat,
         \A b \in Board : g[b] <= f[b] + c
  PROVE  Total(f) \in Nat /\ Total(g) \in Nat /\ Total(g) <= Total(f) + c * NumBoards
<1>1. PICK s : /\ s[0] = 0
               /\ \A i \in Board : s[i] = s[i - 1] + f[i]
               /\ \A i \in 0..NumBoards : s[i] \in Nat
               /\ Total(f) = s[NumBoards]
  BY TotalRuns
<1>2. PICK t : /\ t[0] = 0
               /\ \A i \in Board : t[i] = t[i - 1] + g[i]
               /\ \A i \in 0..NumBoards : t[i] \in Nat
               /\ Total(g) = t[NumBoards]
  BY TotalRuns
<1> DEFINE T == {i \in 0..NumBoards : t[i] <= s[i] + c * i}
<1>3. 0 \in T
  BY <1>1, <1>2, Boards
<1>4. ASSUME NEW i \in 0..(NumBoards - 1), i \in T
      PROVE  i + 1 \in T
  <2>1. i + 1 \in Board /\ i + 1 \in 0..NumBoards /\ (i + 1) - 1 = i /\ i \in 0..NumBoards
        /\ i \in Nat
    BY Boards
  <2>2. /\ f[i + 1] \in Nat /\ g[i + 1] \in Nat /\ g[i + 1] <= f[i + 1] + c
        /\ s[i] \in Nat /\ t[i] \in Nat
        /\ s[i + 1] = s[i] + f[i + 1] /\ t[i + 1] = t[i] + g[i + 1]
    BY <2>1, <1>1, <1>2
  <2>3. t[i] <= s[i] + c * i /\ c * i \in Nat
    BY <1>4, <2>1
  <2>4. c * (i + 1) = c * i + c
    BY <2>1
  <2>5. t[i + 1] <= s[i + 1] + c * (i + 1)
    BY <2>2, <2>3, <2>4
  <2> QED
    BY <2>1, <2>5
<1>5. NumBoards \in T
  <2> HIDE DEF T
  <2>1. 0..NumBoards \subseteq T
    BY <1>3, <1>4, Boards, IntervalInduction
  <2> QED
    BY <2>1, Boards
<1>6. NumBoards \in 0..NumBoards
  BY Boards
<1> QED
  BY <1>1, <1>2, <1>5, <1>6

\* A sum of which one part has changed.
LEMMA TotalStep ==
  ASSUME NEW f \in [Board -> Nat], NEW g \in [Board -> Nat], NEW b \in Board,
         \A a \in Board \ {b} : g[a] = f[a]
  PROVE  Total(f) \in Nat /\ Total(g) \in Nat /\ Total(g) + f[b] = Total(f) + g[b]
<1>1. PICK s : /\ s[0] = 0
               /\ \A i \in Board : s[i] = s[i - 1] + f[i]
               /\ \A i \in 0..NumBoards : s[i] \in Nat
               /\ Total(f) = s[NumBoards]
  BY TotalRuns
<1>2. PICK t : /\ t[0] = 0
               /\ \A i \in Board : t[i] = t[i - 1] + g[i]
               /\ \A i \in 0..NumBoards : t[i] \in Nat
               /\ Total(g) = t[NumBoards]
  BY TotalRuns
<1> DEFINE T == {i \in 0..NumBoards : IF i < b THEN t[i] = s[i] ELSE t[i] + f[b] = s[i] + g[b]}
<1>0. b \in 1..NumBoards /\ f[b] \in Nat /\ g[b] \in Nat
  BY Boards
<1>3. 0 \in T
  BY <1>0, <1>1, <1>2, Boards
<1>4. ASSUME NEW i \in 0..(NumBoards - 1), i \in T
      PROVE  i + 1 \in T
  <2>1. i + 1 \in Board /\ i + 1 \in 0..NumBoards /\ (i + 1) - 1 = i /\ i \in 0..NumBoards
        /\ i \in Nat
    BY Boards
  <2>2. /\ f[i + 1] \in Nat /\ g[i + 1] \in Nat
        /\ s[i] \in Nat /\ t[i] \in Nat
        /\ s[i + 1] = s[i] + f[i + 1] /\ t[i + 1] = t[i] + g[i + 1]
    BY <2>1, <1>1, <1>2
  <2>3. IF i < b THEN t[i] = s[i] ELSE t[i] + f[b] = s[i] + g[b]
    BY <1>4
  <2>4. i + 1 # b => g[i + 1] = f[i + 1]
    BY <2>1
  <2>5. IF i + 1 < b THEN t[i + 1] = s[i + 1] ELSE t[i + 1] + f[b] = s[i + 1] + g[b]
    BY <1>0, <2>1, <2>2, <2>3, <2>4
  <2> QED
    BY <2>1, <2>5
<1>5. NumBoards \in T
  <2> HIDE DEF T
  <2>1. 0..NumBoards \subseteq T
    BY <1>3, <1>4, Boards, IntervalInduction
  <2> QED
    BY <2>1, Boards
<1>6. NumBoards \in 0..NumBoards
  BY Boards
<1> QED
  BY <1>0, <1>1, <1>2, <1>5, <1>6

\* A sum to which only some of the boards contribute, c at most each.
LEMMA TotalOfSome ==
  ASSUME NEW f \in [Board -> Nat], NEW E \in SUBSET Board, NEW c \in Nat,
         \A b \in Board : f[b] <= IF b \in E THEN c ELSE 0
  PROVE  Total(f) \in Nat /\ Cardinality(E) \in Nat /\ Total(f) <= c * Cardinality(E)
<1>1. PICK s : /\ s[0] = 0
               /\ \A i \in Board : s[i] = s[i - 1] + f[i]
               /\ \A i \in 0..NumBoards : s[i] \in Nat
               /\ Total(f) = s[NumBoards]
  BY TotalRuns
<1> DEFINE Part(i) == E \intersect (1..i)
           T == {i \in 0..NumBoards : s[i] <= c * Cardinality(Part(i))}
<1>2. \A i \in 0..NumBoards : IsFiniteSet(Part(i)) /\ Cardinality(Part(i)) \in Nat
  <2> TAKE i \in 0..NumBoards
  <2>1. IsFiniteSet(Part(i))
    BY FS_Subset, Boards
  <2> QED
    BY <2>1, FS_CardinalityType
<1>3. 0 \in T
  <2>1. 0 \in 0..NumBoards
    BY Boards
  <2>2. Cardinality(Part(0)) \in Nat
    BY <1>2, <2>1
  <2>3. s[0] <= c * Cardinality(Part(0))
    <3> HIDE DEF Part
    <3> QED
      BY <1>1, <2>2
  <2> QED
    BY <2>1, <2>3
<1>4. ASSUME NEW i \in 0..(NumBoards - 1), i \in T
      PROVE  i + 1 \in T
  <2>1. i + 1 \in Board /\ i + 1 \in 0..NumBoards /\ (i + 1) - 1 = i /\ i \in 0..NumBoards
        /\ i \in Nat
    BY Boards
  <2>2. /\ f[i + 1] \in Nat /\ s[i] \in Nat /\ s[i + 1] = s[i] + f[i + 1]
        /\ s[i] <= c * Cardinality(Part(i))
    BY <2>1, <1>1, <1>4
  <2>3. CASE i + 1 \in E
    <3>1. Part(i + 1) = Part(i) \union {i + 1} /\ i + 1 \notin Part(i)
      BY <2>1, <2>3
    <3>2. Cardinality(Part(i + 1)) = Cardinality(Part(i)) + 1
      <4> HIDE DEF Part
      <4> QED
        BY <3>1, <2>1, <1>2, FS_AddElement
    <3>3. f[i + 1] <= c
      BY <2>1, <2>3
    <3>4. Cardinality(Part(i)) \in Nat
      BY <2>1, <1>2
    <3> HIDE DEF Part
    <3> QED
      BY <2>1, <2>2, <3>2, <3>3, <3>4
  <2>4. CASE i + 1 \notin E
    <3>1. Part(i + 1) = Part(i)
      BY <2>1, <2>4
    <3>2. f[i + 1] = 0
      BY <2>1, <2>2, <2>4
    <3> HIDE DEF Part
    <3> QED
      BY <2>1, <2>2, <3>1, <3>2
  <2> QED
    BY <2>3, <2>4
<1>5. NumBoards \in T
  <2> HIDE DEF T
  <2>1. 0..NumBoards \subseteq T
    BY <1>3, <1>4, Boards, IntervalInduction
  <2> QED
    BY <2>1, Boards
<1>6. Part(NumBoards) = E /\ NumBoards \in 0..NumBoards
  <2>1. Board = 1..NumBoards
    BY Boards
  <2>2. Part(NumBoards) = E
    BY <2>1
  <2> QED
    BY <2>2, Boards
<1> QED
  BY <1>1, <1>2, <1>5, <1>6

-----------------------------------------------------------------------------
(* Packets and commands *)

\* Clearing leaves half of the packets at most: the one that is left at place i
\* was at twice that place or further behind.
LEMMA ClearHalves ==
  ASSUME NEW S, NEW q \in Seq(S), NEW r \in ClearPackets(q)
  PROVE  /\ r \in Seq(S)
         /\ Len(q) \in Nat /\ Len(r) \in Nat /\ Len(r) <= Len(q) \div 2
         /\ \A i \in 1..Len(r) : \E j \in 1..Len(q) : 2 * i <= j /\ r[i] = q[j]
<1>1. PICK n \in 0..(Len(q) \div 2) :
        r \in {[i \in 1..n |-> q[2 * i + later[i]]] :
                 later \in {f \in [1..n -> 0..(Len(q) - 2 * n)] : \A i \in 2..n : f[i - 1] <= f[i]}}
  BY DEF ClearPackets, ClearedAmongOthers
<1>2. PICK later \in [1..n -> 0..(Len(q) - 2 * n)] : r = [i \in 1..n |-> q[2 * i + later[i]]]
  BY <1>1
<1>3. Len(q) \in Nat /\ n \in Nat /\ n <= Len(q) \div 2
  BY LenProperties
<1>4. \A i \in 1..n : 2 * i + later[i] \in 1..Len(q) /\ 2 * i <= 2 * i + later[i]
  <2> TAKE i \in 1..n
  <2>1. later[i] \in 0..(Len(q) - 2 * n)
    OBVIOUS
  <2> QED
    BY <2>1, <1>3
<1>5. \A i \in 1..n : r[i] = q[2 * i + later[i]] /\ r[i] \in S
  BY <1>2, <1>4, ElementOfSeq
<1>6. r \in Seq(S) /\ Len(r) = n
  <2>1. r = [i \in 1..n |-> r[i]]
    BY <1>2
  <2>2. r \in [1..n -> S]
    BY <2>1, <1>5
  <2> QED
    BY <2>2, <1>3, IsASeq, LenProperties
<1> QED
  BY <1>3, <1>4, <1>5, <1>6

\* The kinds of the commands for a board that are in a queue, and that there is
\* one command for each board at most.
OnWay(q, b) == {q[i].cmd : i \in {j \in DOMAIN q : q[j].board = b}}
Separate(q) == \A i, j \in DOMAIN q : q[i].board = q[j].board => i = j

LEMMA CommandTaken ==
  ASSUME NEW S, NEW q \in Seq(S), q # <<>>, Separate(q)
  PROVE  /\ Head(q) \in S /\ Tail(q) \in Seq(S) /\ Separate(Tail(q))
         /\ OnWay(q, Head(q).board) = {Head(q).cmd}
         /\ OnWay(Tail(q), Head(q).board) = {}
         /\ \A b : b # Head(q).board => OnWay(Tail(q), b) = OnWay(q, b)
         /\ \A i \in DOMAIN Tail(q) : i + 1 \in DOMAIN q /\ Tail(q)[i] = q[i + 1]
         /\ 1 \in DOMAIN q /\ Head(q) = q[1]
<1> DEFINE t == Tail(q)
<1>1. /\ Head(q) \in S /\ t \in Seq(S)
      /\ Len(q) \in Nat /\ Len(q) > 0
      /\ Len(t) = Len(q) - 1
      /\ \A i \in 1..Len(t) : t[i] = q[i + 1]
  BY HeadTailProperties, LenProperties
<1>2. Head(q) = q[1] /\ DOMAIN q = 1..Len(q) /\ DOMAIN t = 1..Len(t)
  BY <1>1
<1> HIDE DEF t
<1>3. \A i \in DOMAIN q : i = 1 \/ (i - 1 \in DOMAIN t /\ t[i - 1] = q[i])
  BY <1>1, <1>2
<1>4. 1 \in DOMAIN q /\ \A i \in DOMAIN t : i + 1 \in DOMAIN q /\ t[i] = q[i + 1]
                                            /\ i + 1 # 1
  BY <1>1, <1>2
<1>5. Separate(t)
  <2> SUFFICES ASSUME NEW i \in DOMAIN t, NEW j \in DOMAIN t, t[i].board = t[j].board
               PROVE  i = j
    BY DEF Separate
  <2>1. i + 1 = j + 1
    BY <1>4 DEF Separate
  <2> QED
    BY <2>1, <1>2
<1>6. \A i \in DOMAIN q : q[i].board = Head(q).board => i = 1
  BY <1>2, <1>4 DEF Separate
<1>7. OnWay(q, Head(q).board) = {Head(q).cmd}
  BY <1>2, <1>4, <1>6 DEF OnWay
<1>8. OnWay(t, Head(q).board) = {}
  BY <1>4, <1>6 DEF OnWay
<1>9. ASSUME NEW b, b # Head(q).board
      PROVE  OnWay(t, b) = OnWay(q, b)
  <2>1. OnWay(t, b) \subseteq OnWay(q, b)
    BY <1>4 DEF OnWay
  <2>2. OnWay(q, b) \subseteq OnWay(t, b)
    BY <1>2, <1>3, <1>9 DEF OnWay
  <2> QED
    BY <2>1, <2>2
<1> QED
  BY <1>1, <1>2, <1>4, <1>5, <1>7, <1>8, <1>9 DEF t

LEMMA CommandSent ==
  ASSUME NEW S, NEW q \in Seq(S), NEW x \in S, Separate(q), OnWay(q, x.board) = {}
  PROVE  /\ Append(q, x) \in Seq(S) /\ Separate(Append(q, x))
         /\ OnWay(Append(q, x), x.board) = {x.cmd}
         /\ \A b : b # x.board => OnWay(Append(q, x), b) = OnWay(q, b)
         /\ \A i \in DOMAIN Append(q, x) :
              Append(q, x)[i] = x \/ (i \in DOMAIN q /\ Append(q, x)[i] = q[i])
<1> DEFINE r == Append(q, x)
           n == Len(q)
<1>1. /\ r \in Seq(S) /\ n \in Nat
      /\ DOMAIN q = 1..n /\ DOMAIN r = 1..(n + 1)
      /\ \A i \in 1..n : r[i] = q[i]
      /\ r[n + 1] = x
  BY AppendProperties, LenProperties
<1> HIDE DEF r, n
<1>2. \A i \in DOMAIN r : (i = n + 1 /\ r[i] = x) \/ (i \in DOMAIN q /\ r[i] = q[i])
  BY <1>1
<1>3. \A i \in DOMAIN q : q[i].board # x.board /\ i \in DOMAIN r /\ r[i] = q[i]
  <2> TAKE i \in DOMAIN q
  <2>1. q[i].board = x.board => q[i].cmd \in OnWay(q, x.board)
    BY DEF OnWay
  <2> QED
    BY <2>1, <1>1
<1>4. n + 1 \in DOMAIN r /\ r[n + 1] = x
  BY <1>1
<1>5. Separate(r)
  BY <1>2, <1>3 DEF Separate
<1>6. OnWay(r, x.board) = {x.cmd}
  BY <1>2, <1>3, <1>4 DEF OnWay
<1>7. ASSUME NEW b, b # x.board
      PROVE  OnWay(r, b) = OnWay(q, b)
  <2>1. OnWay(r, b) \subseteq OnWay(q, b)
    BY <1>2, <1>7 DEF OnWay
  <2>2. OnWay(q, b) \subseteq OnWay(r, b)
    BY <1>3 DEF OnWay
  <2> QED
    BY <2>1, <2>2
<1> QED
  BY <1>1, <1>2, <1>5, <1>6, <1>7 DEF r

-----------------------------------------------------------------------------
(* Types *)

Packet == [board : Board, says : {"busy", "error", "finished", "failed", "unknown"}]
Order == [cmd : {"start", "open", "close", "stat"}, board : Board, test : 1..NumTests]
Fields == [busy : BOOLEAN, failed : BOOLEAN, ended : BOOLEAN, close : BOOLEAN, proc : 0..MaxWorkers]
Places == {"reset", "spawn", "readout", "check", "answer", "wait", "exit", "gone"}

Types ==
  /\ TypeOK
  /\ phase # "idle" => test > 0
  /\ phase = "slept" => turn <= NumBoards
  /\ running \in [Board -> SUBSET (1..MaxWorkers)]

\* One worker of a board has changed.
LEMMA WorkerChanged ==
  ASSUME TypeOK, NEW b \in Board, NEW i \in DOMAIN workers[b], NEW w \in Worker,
         workers' = [workers EXCEPT ![b] = [workers[b] EXCEPT ![i] = w]]
  PROVE  /\ workers' \in [Board -> Seq(Worker)]
         /\ \A a \in Board : /\ Len(workers'[a]) = Len(workers[a])
                             /\ DOMAIN workers'[a] = DOMAIN workers[a]
         /\ \A a \in Board \ {b} : workers'[a] = workers[a]
         /\ workers'[b][i] = w
         /\ \A j \in DOMAIN workers[b] \ {i} : workers'[b][j] = workers[b][j]
<1> DEFINE q == workers[b]
           r == [q EXCEPT ![i] = w]
<1>1. q \in Seq(Worker) /\ i \in 1..Len(q) /\ workers \in [Board -> Seq(Worker)]
  BY DEF TypeOK
<1>2. /\ r \in Seq(Worker) /\ Len(r) = Len(q)
      /\ \A j \in 1..Len(q) : r[j] = IF j = i THEN w ELSE q[j]
  BY <1>1, ExceptSeq
<1>3. DOMAIN r = 1..Len(q) /\ DOMAIN q = 1..Len(q)
  BY <1>1, <1>2, LenProperties
<1>4. workers'[b] = r /\ \A a \in Board \ {b} : workers'[a] = workers[a]
  BY <1>1
<1>5. workers' \in [Board -> Seq(Worker)]
  <2> HIDE DEF r
  <2> QED
    BY <1>1, <1>2
<1> HIDE DEF r
<1>6. \A a \in Board : Len(workers'[a]) = Len(workers[a]) /\ DOMAIN workers'[a] = DOMAIN workers[a]
  BY <1>2, <1>3, <1>4
<1> QED
  BY <1>1, <1>2, <1>3, <1>4, <1>5, <1>6

\* ... namely its place in the program.
LEMMA WorkerMoves ==
  ASSUME TypeOK, NEW b \in Board, NEW i \in DOMAIN workers[b], NEW p \in Places,
         Go(b, i, p)
  PROVE  /\ workers' \in [Board -> Seq(Worker)]
         /\ \A a \in Board : /\ Len(workers'[a]) = Len(workers[a])
                             /\ DOMAIN workers'[a] = DOMAIN workers[a]
         /\ \A a \in Board \ {b} : workers'[a] = workers[a]
         /\ workers'[b][i] = [workers[b][i] EXCEPT !.at = p]
         /\ workers'[b][i] \in Worker
         /\ \A j \in DOMAIN workers[b] \ {i} : workers'[b][j] = workers[b][j]
<1>1. workers[b] \in Seq(Worker) /\ workers \in [Board -> Seq(Worker)]
  BY DEF TypeOK
<1>2. workers[b][i] \in Worker
  BY <1>1, ElementOfSeq
<1>3. PICK w \in Worker : w = [workers[b][i] EXCEPT !.at = p]
  BY <1>2 DEF Worker, Places
<1>4. workers' = [workers EXCEPT ![b] = [workers[b] EXCEPT ![i] = w]]
  BY <1>3 DEF Go
<1>5. /\ workers' \in [Board -> Seq(Worker)]
      /\ \A a \in Board : /\ Len(workers'[a]) = Len(workers[a])
                          /\ DOMAIN workers'[a] = DOMAIN workers[a]
      /\ \A a \in Board \ {b} : workers'[a] = workers[a]
      /\ workers'[b][i] = w
      /\ \A j \in DOMAIN workers[b] \ {i} : workers'[b][j] = workers[b][j]
  BY <1>4, WorkerChanged
<1> QED
  BY <1>3, <1>5

\* An answer is one packet or two of the board, a status one more.
LEMMA AnswerPackets ==
  ASSUME TypeOK, NEW b \in Board
  PROVE  /\ Answer(b, tb[b]) \in Seq(Packet) /\ Len(Answer(b, tb[b])) \in 1..2
         /\ Status(b) \in Seq(Packet) /\ Len(Status(b)) \in 1..3
         /\ \A i \in DOMAIN Answer(b, tb[b]) :
              /\ Answer(b, tb[b])[i].board = b
              /\ Answer(b, tb[b])[i].says # "busy" => tb[b].failed \/ ~tb[b].busy
         /\ \A i \in DOMAIN Status(b) :
              /\ Status(b)[i].board = b
              /\ Status(b)[i].says # "busy" => tb[b].failed \/ ~tb[b].busy
<1> DEFINE A == Answer(b, tb[b])
<1>1. \A x \in {"busy", "finished", "failed", "unknown"} :
        Says(b, x) \in Packet /\ Says(b, x).board = b /\ Says(b, x).says = x
  BY DEF Says, Packet
<1>2. \/ tb[b].failed /\ A = <<Says(b, "failed"), Says(b, "failed")>>
      \/ tb[b].busy /\ A = <<Says(b, "busy")>>
      \/ ~tb[b].busy /\ A = <<Says(b, "finished")>>
  BY DEF Answer
<1>3. /\ A \in Seq(Packet) /\ Len(A) \in 1..2
      /\ \A i \in DOMAIN A : A[i].board = b /\ (A[i].says # "busy" => tb[b].failed \/ ~tb[b].busy)
  <2> HIDE DEF A
  <2>1. CASE tb[b].failed /\ A = <<Says(b, "failed"), Says(b, "failed")>>
    BY <1>1, <2>1
  <2>2. CASE tb[b].busy /\ A = <<Says(b, "busy")>>
    BY <1>1, <2>2
  <2>3. CASE ~tb[b].busy /\ A = <<Says(b, "finished")>>
    BY <1>1, <2>3
  <2> QED
    BY <1>2, <2>1, <2>2, <2>3
<1>4. PICK x \in {"busy", "finished", "failed", "unknown"} :
        /\ Status(b) = A \o <<Says(b, x)>>
        /\ x # "busy" => ~tb[b].busy
  <2>1. CASE tb[b].busy
    BY <2>1 DEF Status
  <2>2. CASE ~tb[b].busy /\ tb[b].failed
    BY <2>2 DEF Status
  <2>3. CASE ~tb[b].busy /\ ~tb[b].failed /\ tb[b].ended
    BY <2>3 DEF Status
  <2>4. CASE ~tb[b].busy /\ ~tb[b].failed /\ ~tb[b].ended
    BY <2>4 DEF Status
  <2> QED
    BY <2>1, <2>2, <2>3, <2>4
<1> HIDE DEF A
<1> DEFINE B == <<Says(b, x)>>
<1>5. B \in Seq(Packet) /\ Len(B) = 1 /\ B[1] = Says(b, x)
  BY <1>1
<1> HIDE DEF B
<1>6. /\ A \o B \in Seq(Packet) /\ Len(A \o B) = Len(A) + 1
      /\ \A i \in 1..(Len(A) + 1) : (A \o B)[i] = IF i <= Len(A) THEN A[i] ELSE B[i - Len(A)]
  BY <1>3, <1>5, ConcatProperties
<1>7. Len(A) \in 1..2 /\ DOMAIN A = 1..Len(A) /\ DOMAIN (A \o B) = 1..(Len(A) + 1)
  BY <1>3, <1>6, LenProperties
<1>8. ASSUME NEW i \in DOMAIN (A \o B)
      PROVE  (A \o B)[i].board = b /\ ((A \o B)[i].says # "busy" => tb[b].failed \/ ~tb[b].busy)
  <2>1. CASE i <= Len(A)
    <3>1. i \in DOMAIN A /\ (A \o B)[i] = A[i]
      BY <2>1, <1>6, <1>7
    <3> QED
      BY <3>1, <1>3
  <2>2. CASE ~(i <= Len(A))
    <3>1. (A \o B)[i] = Says(b, x)
      BY <2>2, <1>5, <1>6, <1>7
    <3> QED
      BY <3>1, <1>1, <1>4
  <2> QED
    BY <2>1, <2>2
<1>9. Status(b) = A \o B
  BY <1>4 DEF B
<1>10. /\ Status(b) \in Seq(Packet) /\ Len(Status(b)) \in 1..3
       /\ \A i \in DOMAIN Status(b) :
            /\ Status(b)[i].board = b
            /\ Status(b)[i].says # "busy" => tb[b].failed \/ ~tb[b].busy
  BY SMTT(30), <1>6, <1>7, <1>8, <1>9
<1> QED
  BY <1>3, <1>10 DEF A

LEMMA SendTyped ==
  ASSUME TypeOK, test > 0, NEW b \in Board, NEW c \in {"start", "open", "close", "stat"}
  PROVE  /\ Command(c, b) \in Order
         /\ Command(c, b).cmd = c /\ Command(c, b).board = b /\ Command(c, b).test = test
         /\ Send(c, b) => toMaster' \in Seq(Order)
<1>1. test \in 1..NumTests
  BY Boards DEF TypeOK
<1>2. /\ Command(c, b) \in Order
      /\ Command(c, b).cmd = c /\ Command(c, b).board = b /\ Command(c, b).test = test
  BY <1>1 DEF Command, Order
<1>3. toMaster \in Seq(Order)
  BY DEF TypeOK, Order
<1> QED
  BY <1>2, <1>3, AppendProperties DEF Send

\* The answers that are left after a packet was taken or all were cleared.
LEMMA AnswersTyped ==
  ASSUME TypeOK
  PROVE  /\ toAgente \in Seq(Packet)
         /\ \A r \in ClearPackets(toAgente) : r \in Seq(Packet)
         /\ toAgente # <<>> => Tail(toAgente) \in Seq(Packet) /\ Head(toAgente) \in Packet
<1>1. toAgente \in Seq(Packet)
  BY DEF TypeOK, Packet
<1> QED
  BY <1>1, ClearHalves, HeadTailProperties

LEMMA PrepareTyped ==
  ASSUME Types, PrepareTest \/ PrepareTestboard \/ Prepared
  PROVE  Types'
<1>1. CASE PrepareTest
  <2>1. test + 1 \in 0..NumTests /\ test + 1 > 0 /\ 1 \in 1..(NumBoards + 1)
    BY <1>1, Boards DEF PrepareTest, Types, TypeOK
  <2>2. kind' \in TestKinds
    BY <1>1, TestboardsAssumption DEF PrepareTest
  <2>3. active' \subseteq Board
    BY <1>1 DEF PrepareTest, Actives
  <2> QED
    BY <1>1, <2>1, <2>2, <2>3 DEF PrepareTest, Types, TypeOK, masterVars
<1>2. CASE PrepareTestboard
  <2>1. turn \in Board /\ turn + 1 \in 1..(NumBoards + 1) /\ test > 0
    BY <1>2, Boards DEF PrepareTestboard, MoreBoards, Types, TypeOK
  <2>2. toMaster' \in Seq(Order) /\ toAgente' \in Seq(Packet)
    <3>1. CASE kind = "iv" /\ turn \in active
      BY <1>2, <2>1, <3>1, SendTyped, AnswersTyped DEF PrepareTestboard, Types
    <3>2. CASE ~(kind = "iv" /\ turn \in active)
      BY <1>2, <3>2, AnswersTyped DEF PrepareTestboard, Types, TypeOK, Order
    <3> QED
      BY <3>1, <3>2
  <2>3. UNCHANGED <<phase, test, kind, active, busy, retries, pending, tb, workers, running>>
        /\ turn' = turn + 1 /\ phase = "prepare"
    BY <1>2 DEF PrepareTestboard, masterVars
  <2> QED
    BY <2>1, <2>2, <2>3 DEF Types, TypeOK, Order, Packet
<1>3. CASE Prepared
  <2>1. test > 0
    BY <1>3 DEF Prepared, Types
  <2> QED
    BY <1>3, <2>1 DEF Prepared, Types, TypeOK, masterVars
<1> QED
  BY <1>1, <1>2, <1>3

LEMMA ExecuteTyped ==
  ASSUME Types, ExecuteTest \/ ExecuteTestboard \/ NextTestboard \/ Started
  PROVE  Types'
<1>1. CASE ExecuteTest
  <2>1. /\ toAgente' \in Seq(Packet) /\ pending' \in BOOLEAN /\ phase' \in {"ask", "start"}
        /\ turn' \in 1..(NumBoards + 1) /\ test > 0
    BY <1>1, AnswersTyped, Boards DEF ExecuteTest, Types
  <2>2. UNCHANGED <<test, kind, active, busy, retries, toMaster, tb, workers, running>>
    BY <1>1 DEF ExecuteTest, masterVars
  <2> QED
    BY <2>1, <2>2 DEF Types, TypeOK, Packet
<1>2. CASE ExecuteTestboard
  <2>1. turn \in Board /\ turn <= NumBoards /\ test > 0
    BY <1>2, Boards DEF ExecuteTestboard, MoreBoards, Types, TypeOK
  <2>2. /\ toAgente' \in Seq(Packet) /\ toMaster' \in Seq(Order) /\ phase' = "slept"
        /\ busy' \in [Board -> BOOLEAN]
    BY <1>2, <2>1, AnswersTyped, SendTyped DEF ExecuteTestboard, Types, TypeOK
  <2>3. UNCHANGED <<turn, test, kind, active, retries, pending, tb, workers, running>>
    BY <1>2 DEF ExecuteTestboard, masterVars
  <2> QED
    BY <2>1, <2>2, <2>3 DEF Types, TypeOK, Packet, Order
<1>3. CASE NextTestboard
  <2>1. turn + 1 \in 1..(NumBoards + 1)
    BY <1>3, Boards DEF NextTestboard, Types, TypeOK
  <2> QED
    BY <1>3, <2>1 DEF NextTestboard, Types, TypeOK, masterVars
<1>4. CASE Started
  <2>1. toAgente' \in Seq(Packet) /\ test > 0 /\ phase' = "ask"
    BY <1>4, AnswersTyped DEF Started, Types
  <2>2. UNCHANGED <<turn, test, kind, active, busy, retries, pending, toMaster, tb, workers, running>>
    BY <1>4 DEF Started, masterVars
  <2> QED
    BY <2>1, <2>2 DEF Types, TypeOK, Packet
<1> QED
  BY <1>1, <1>2, <1>3, <1>4

\* The questions of a sweep: one for each busy board, no board twice.
LEMMA Questions ==
  ASSUME TypeOK, test > 0, NEW order \in [1..Cardinality(BusyBoards) -> BusyBoards],
         \A i, j \in DOMAIN order : i < j => order[i] < order[j]
  PROVE  /\ [i \in DOMAIN order |-> Command("stat", order[i])] \in Seq(Order)
         /\ \A i \in DOMAIN order : order[i] \in Board /\ busy[order[i]]
         /\ DOMAIN [i \in DOMAIN order |-> Command("stat", order[i])] = DOMAIN order
         /\ \A i, j \in DOMAIN order : order[i] = order[j] => i = j
<1> DEFINE m == Cardinality(BusyBoards)
<1>1. m \in Nat
  <2>1. IsFiniteSet(BusyBoards)
    BY Boards, FS_Subset DEF BusyBoards
  <2> QED
    BY <2>1, FS_CardinalityType
<1> HIDE DEF m
<1>2. DOMAIN order = 1..m /\ \A i \in 1..m : order[i] \in BusyBoards
  BY DEF m
<1>3. \A i \in 1..m : order[i] \in Board /\ busy[order[i]]
  BY <1>2 DEF BusyBoards
<1>4. \A i \in 1..m : Command("stat", order[i]) \in Order
  BY <1>3, SendTyped
<1>5. [i \in 1..m |-> Command("stat", order[i])] \in [1..m -> Order]
  BY <1>4
<1>6. [i \in 1..m |-> Command("stat", order[i])] \in Seq(Order)
  BY <1>1, <1>5, IsASeq, LenProperties
<1>7. \A i, j \in 1..m : order[i] = order[j] => i = j
  <2> SUFFICES ASSUME NEW i \in 1..m, NEW j \in 1..m, order[i] = order[j], i # j
               PROVE  FALSE
    OBVIOUS
  <2>1. order[i] \in Nat /\ order[j] \in Nat
    BY <1>3, Boards
  <2>2. i < j \/ j < i
    BY <1>1
  <2> QED
    BY <2>1, <2>2, <1>2
<1> QED
  BY <1>2, <1>3, <1>6, <1>7

LEMMA ReadTyped ==
  ASSUME Types, AskStatus \/ ReadAnswer \/ AnswersRead
  PROVE  Types'
<1>1. CASE AskStatus
  <2>1. test > 0 /\ toMaster \in Seq(Order)
    BY <1>1 DEF AskStatus, Types, TypeOK, Order
  <2>2. PICK order \in [1..Cardinality(BusyBoards) -> BusyBoards] :
          /\ \A i, j \in DOMAIN order : i < j => order[i] < order[j]
          /\ toMaster' = toMaster \o [i \in DOMAIN order |-> Command("stat", order[i])]
    BY <1>1 DEF AskStatus
  <2>3. [i \in DOMAIN order |-> Command("stat", order[i])] \in Seq(Order)
    BY <2>1, <2>2, Questions DEF Types
  <2>4. toMaster' \in Seq(Order)
    BY <2>1, <2>2, <2>3, ConcatProperties
  <2>5. phase' = "read"
        /\ UNCHANGED <<turn, test, kind, active, busy, retries, pending, toAgente, tb, workers, running>>
    BY <1>1 DEF AskStatus, masterVars
  <2> QED
    BY <2>1, <2>4, <2>5 DEF Types, TypeOK, Order
<1>2. CASE ReadAnswer
  <2> DEFINE m == Head(toAgente)
  <2>1. /\ toAgente \in Seq(Packet) /\ Tail(toAgente) \in Seq(Packet) /\ m \in Packet
        /\ test > 0 /\ phase = "read" /\ toMaster \in Seq(Order)
        /\ busy \in [Board -> BOOLEAN] /\ retries \in [Board -> 0..3]
    BY <1>2, AnswersTyped DEF ReadAnswer, Types, TypeOK, Order
  <2>2. m.board \in Board
    BY <2>1 DEF Packet
  <2>3. UNCHANGED <<phase, turn, test, kind, active, tb, workers, running>>
    BY <1>2 DEF ReadAnswer, masterVars
  <2> HIDE DEF m
  <2>4. /\ toAgente' \in Seq(Packet) /\ pending' \in BOOLEAN /\ toMaster' \in Seq(Order)
        /\ busy' \in [Board -> BOOLEAN] /\ retries' \in [Board -> 0..3]
    <3>1. CASE /\ m.says \in {"busy", "error"}
               /\ toAgente' = Tail(toAgente)
               /\ UNCHANGED <<busy, retries, pending, toMaster>>
      BY <3>1, <2>1 DEF Types, TypeOK
    <3>2. CASE /\ m.says \in {"finished", "unknown"}
               /\ busy' = [busy EXCEPT ![m.board] = FALSE]
               /\ retries' = [retries EXCEPT ![m.board] =
                                IF busy[m.board] /\ m.says = "finished" THEN 0 ELSE @]
               /\ toAgente' = Tail(toAgente)
               /\ pending' = \E b \in Board : busy'[b]
               /\ UNCHANGED toMaster
      BY <3>2, <2>1, <2>2
    <3>3. CASE /\ m.says = "failed"
               /\ BoardFailed(m.board, Tail(toAgente))
               /\ pending' = \E b \in Board : busy'[b]
      <4>1. CASE kind = "powercycle"
        <5>1. retries' \in [Board -> 0..3]
          BY <3>3, <4>1, <2>1, <2>2 DEF BoardFailed
        <5>2. toAgente' \in Seq(Packet) /\ busy' \in [Board -> BOOLEAN] /\ toMaster' \in Seq(Order)
          <6>1. CASE retries[m.board] < 2
            BY <3>3, <4>1, <6>1, <2>1, <2>2, ClearHalves, SendTyped DEF BoardFailed, Types
          <6>2. CASE ~(retries[m.board] < 2)
            BY <3>3, <4>1, <6>2, <2>1, <2>2 DEF BoardFailed
          <6> QED
            BY <6>1, <6>2
        <5> QED
          BY <5>1, <5>2, <3>3
      <4>2. CASE kind # "powercycle"
        BY <3>3, <4>2, <2>1, <2>2 DEF BoardFailed
      <4> QED
        BY <4>1, <4>2
    <3> QED
      BY <1>2, <3>1, <3>2, <3>3 DEF ReadAnswer, m
  <2> QED
    BY <2>1, <2>3, <2>4 DEF Types, TypeOK, Packet, Order
<1>3. CASE AnswersRead
  <2>1. test > 0
    BY <1>3 DEF AnswersRead, Types
  <2> QED
    BY <1>3, <2>1 DEF AnswersRead, Types, TypeOK, masterVars
<1> QED
  BY <1>1, <1>2, <1>3

LEMMA CleanupTyped ==
  ASSUME Types, CleanupTest \/ CleanupTestboard \/ CleanedUp
  PROVE  Types'
<1>1. CASE CleanupTest
  <2>1. toAgente' \in Seq(Packet) /\ test > 0 /\ 1 \in 1..(NumBoards + 1)
    BY <1>1, AnswersTyped, Boards DEF CleanupTest, Types
  <2>2. phase' = "clean" /\ turn' = 1
        /\ UNCHANGED <<test, kind, active, busy, retries, pending, toMaster, tb, workers, running>>
    BY <1>1 DEF CleanupTest, masterVars
  <2> QED
    BY <2>1, <2>2 DEF Types, TypeOK, Packet
<1>2. CASE CleanupTestboard
  <2>1. turn \in Board /\ turn + 1 \in 1..(NumBoards + 1) /\ test > 0 /\ phase = "clean"
    BY <1>2, Boards DEF CleanupTestboard, MoreBoards, Types, TypeOK
  <2>2. toMaster' \in Seq(Order)
    BY <1>2, <2>1, SendTyped DEF CleanupTestboard, CloseTestboard, Types, TypeOK, Order
  <2>3. UNCHANGED <<phase, test, kind, active, busy, retries, pending, toAgente, tb, workers, running>>
        /\ turn' = turn + 1
    BY <1>2 DEF CleanupTestboard, masterVars
  <2> QED
    BY <2>1, <2>2, <2>3 DEF Types, TypeOK, Order
<1>3. CASE CleanedUp
  <2>1. toAgente' \in Seq(Packet)
    BY <1>3, AnswersTyped DEF CleanedUp, Types
  <2>2. phase' = "idle"
        /\ UNCHANGED <<turn, test, kind, active, busy, retries, pending, toMaster, tb, workers, running>>
    BY <1>3 DEF CleanedUp, masterVars
  <2> QED
    BY <2>1, <2>2 DEF Types, TypeOK, Packet
<1> QED
  BY <1>1, <1>2, <1>3

\* What the agente does leaves the types of the master's variables alone, and
\* the other way round.
LEMMA MasterTyped ==
  ASSUME Types, UNCHANGED agenteVars,
         toMaster' \in Seq(Order), toAgente' \in Seq(Packet),
         tb' \in [Board -> Fields], workers' \in [Board -> Seq(Worker)],
         running' \in [Board -> SUBSET (1..MaxWorkers)],
         \A b \in Board : Len(workers'[b]) <= 2 /\ running'[b] \subseteq DOMAIN workers'[b]
  PROVE  Types'
BY DEF Types, TypeOK, agenteVars, Packet, Order, Fields

LEMMA NewWorkerTyped ==
  ASSUME Types, NEW b \in Board, NEW job \in {"start", "open"}, NEW n \in 1..NumTests,
         NewWorker(b, job, n), UNCHANGED running
  PROVE  /\ workers' \in [Board -> Seq(Worker)]
         /\ \A a \in Board : Len(workers'[a]) <= 2 /\ running'[a] \subseteq DOMAIN workers'[a]
<1> DEFINE w == [job |-> job, test |-> n, bad |-> FALSE, errors |-> 0, at |-> "reset"]
           idle == running[b] = {} /\ \A i \in DOMAIN workers[b] : workers[b][i].at = "gone"
<1>1. /\ w \in Worker
      /\ workers \in [Board -> Seq(Worker)] /\ workers[b] \in Seq(Worker)
      /\ \A a \in Board : Len(workers[a]) <= 2 /\ running[a] \subseteq DOMAIN workers[a]
  <2>1. 0 \in 0..MaxErrorLines
    BY Boards
  <2>2. w \in Worker
    BY <2>1 DEF Worker
  <2> HIDE DEF w, idle
  <2> QED
    BY <2>2 DEF Types, TypeOK
<1>2. idle \/ Len(workers[b]) < 2
  BY DEF NewWorker
<1>3. workers' = [workers EXCEPT ![b] = IF idle THEN <<w>> ELSE Append(workers[b], w)]
  BY DEF NewWorker
<1> HIDE DEF w, idle
<1>4. \A a \in Board \ {b} : workers'[a] = workers[a]
  BY <1>1, <1>3
<1>5. CASE idle
  <2>1. workers'[b] = <<w>> /\ <<w>> \in Seq(Worker) /\ Len(<<w>>) <= 2
    BY <1>1, <1>3, <1>5
  <2>2. workers' = [workers EXCEPT ![b] = <<w>>]
    BY <1>3, <1>5
  <2>3. workers' \in [Board -> Seq(Worker)]
    BY <1>1, <2>1, <2>2
  <2>4. running[b] = {}
    BY <1>5 DEF idle
  <2> QED
    BY <1>1, <1>4, <2>1, <2>3, <2>4
<1>6. CASE ~idle
  <2> DEFINE q == Append(workers[b], w)
  <2>1. /\ q \in Seq(Worker) /\ Len(q) = Len(workers[b]) + 1 /\ Len(workers[b]) \in Nat
        /\ DOMAIN workers[b] = 1..Len(workers[b]) /\ DOMAIN q = 1..Len(q)
    BY <1>1, AppendProperties, LenProperties
  <2>2. workers' = [workers EXCEPT ![b] = q]
    BY <1>3, <1>6
  <2> HIDE DEF q
  <2>3. Len(q) <= 2 /\ DOMAIN workers[b] \subseteq DOMAIN q
    BY <1>2, <1>6, <2>1
  <2>4. workers' \in [Board -> Seq(Worker)] /\ workers'[b] = q
    BY <1>1, <2>1, <2>2
  <2>5. running'[b] \subseteq DOMAIN workers'[b] /\ Len(workers'[b]) <= 2
    BY <1>1, <2>3, <2>4
  <2> QED
    BY <1>1, <1>4, <2>4, <2>5
<1> QED
  BY <1>5, <1>6

LEMMA MainLoopTyped ==
  ASSUME Types, MainLoop
  PROVE  Types'
<1> DEFINE c == Head(toMaster)
           b == c.board
<1>1. /\ toMaster \in Seq(Order) /\ toAgente \in Seq(Packet) /\ toMaster # <<>>
      /\ tb \in [Board -> Fields] /\ workers \in [Board -> Seq(Worker)]
      /\ running \in [Board -> SUBSET (1..MaxWorkers)]
      /\ \A a \in Board : Len(workers[a]) <= 2 /\ running[a] \subseteq DOMAIN workers[a]
  BY DEF MainLoop, Types, TypeOK, Order, Packet, Fields
<1>2. c \in Order /\ Tail(toMaster) \in Seq(Order)
  BY <1>1, HeadTailProperties
<1>3. b \in Board /\ c.test \in 1..NumTests
  BY <1>2 DEF Order
<1>4. toMaster' = Tail(toMaster) /\ UNCHANGED <<agenteVars, running>>
  BY DEF MainLoop
<1>5. \/ c.cmd = "stat" /\ toAgente' = toAgente \o Status(b) /\ UNCHANGED <<tb, workers>>
      \/ c.cmd = "start" /\ ~tb[b].busy /\ Accept(b, "start", c.test)
      \/ c.cmd = "start" /\ tb[b].busy /\ Refuse(b)
      \/ c.cmd = "open" /\ ~tb[b].busy /\ Accept(b, "open", c.test)
      \/ c.cmd = "open" /\ tb[b].busy /\ UNCHANGED <<tb, workers, toAgente>>
      \/ /\ c.cmd = "close"
         /\ tb' = [tb EXCEPT ![b].close = TRUE]
         /\ UNCHANGED <<workers, toAgente>>
  BY DEF MainLoop
<1>6. Answer(b, tb[b]) \in Seq(Packet) /\ Status(b) \in Seq(Packet)
  BY <1>3, AnswerPackets DEF Types
<1> HIDE DEF c, b
<1>7. ASSUME NEW job \in {"start", "open"}, Accept(b, job, c.test)
      PROVE  /\ toAgente' \in Seq(Packet) /\ tb' \in [Board -> Fields]
             /\ workers' \in [Board -> Seq(Worker)]
             /\ \A a \in Board : Len(workers'[a]) <= 2 /\ running'[a] \subseteq DOMAIN workers'[a]
  <2>1. NewWorker(b, job, c.test) /\ UNCHANGED running
    BY <1>4, <1>7 DEF Accept
  <2>2. tb' = [tb EXCEPT ![b].busy = (tb[b].busy \/ job = "start")]
    BY <1>7 DEF Accept
  <2>3. tb' \in [Board -> Fields]
    <3>1. (tb[b].busy \/ job = "start") \in BOOLEAN /\ tb[b] \in Fields
      BY <1>1, <1>3
    <3>2. [tb[b] EXCEPT !.busy = (tb[b].busy \/ job = "start")] \in Fields
      BY <3>1 DEF Fields
    <3> QED
      BY <1>1, <1>3, <2>2, <3>2
  <2>4. toAgente' \in Seq(Packet)
    <3>1. <<Says(b, "busy"), Says(b, "busy")>> \in Seq(Packet)
      BY <1>3 DEF Says, Packet
    <3> QED
      BY ZenonT(30), <1>1, <1>7, <3>1, ConcatProperties DEF Accept
  <2> QED
    BY <1>3, <2>1, <2>3, <2>4, NewWorkerTyped
<1>8. /\ toAgente' \in Seq(Packet) /\ tb' \in [Board -> Fields]
      /\ workers' \in [Board -> Seq(Worker)]
      /\ \A a \in Board : Len(workers'[a]) <= 2 /\ running'[a] \subseteq DOMAIN workers'[a]
  <2>1. CASE c.cmd = "stat" /\ toAgente' = toAgente \o Status(b) /\ UNCHANGED <<tb, workers>>
    BY <1>1, <1>4, <1>6, <2>1, ConcatProperties
  <2>2. CASE c.cmd = "start" /\ ~tb[b].busy /\ Accept(b, "start", c.test)
    BY <1>7, <2>2
  <2>3. CASE c.cmd = "start" /\ tb[b].busy /\ Refuse(b)
    BY <1>1, <1>4, <1>6, <2>3, ConcatProperties DEF Refuse
  <2>4. CASE c.cmd = "open" /\ ~tb[b].busy /\ Accept(b, "open", c.test)
    BY <1>7, <2>4
  <2>5. CASE c.cmd = "open" /\ tb[b].busy /\ UNCHANGED <<tb, workers, toAgente>>
    BY <1>1, <1>4, <2>5
  <2>6. CASE /\ c.cmd = "close"
             /\ tb' = [tb EXCEPT ![b].close = TRUE]
             /\ UNCHANGED <<workers, toAgente>>
    <3>1. [tb[b] EXCEPT !.close = TRUE] \in Fields
      BY <1>1, <1>3 DEF Fields
    <3>2. tb' \in [Board -> Fields]
      BY <1>1, <1>3, <2>6, <3>1
    <3> QED
      BY <1>1, <1>4, <2>6, <3>2
  <2> QED
    BY <1>5, <2>1, <2>2, <2>3, <2>4, <2>5, <2>6
<1> QED
  BY <1>1, <1>2, <1>4, <1>8, MasterTyped

LEMMA ThreadTyped ==
  ASSUME Types, NEW b \in Board, NEW i \in 1..MaxWorkers,
         Thread(b, i) \/ ErrorLine(b, i) \/ ProcessEnds(b, i)
  PROVE  Types'
<1>1. /\ toMaster \in Seq(Order) /\ toAgente \in Seq(Packet)
      /\ tb \in [Board -> Fields] /\ tb[b] \in Fields /\ workers \in [Board -> Seq(Worker)]
      /\ running \in [Board -> SUBSET (1..MaxWorkers)]
      /\ \A a \in Board : Len(workers[a]) <= 2 /\ running[a] \subseteq DOMAIN workers[a]
  BY DEF Types, TypeOK, Order, Packet, Fields
<1>2. Answer(b, tb[b]) \in Seq(Packet)
  BY AnswerPackets DEF Types
<1>3. toAgente \o Answer(b, tb[b]) \in Seq(Packet)
  BY <1>1, <1>2, ConcatProperties
<1>4. ASSUME i \in DOMAIN workers[b], NEW p \in Places, Go(b, i, p)
      PROVE  /\ workers' \in [Board -> Seq(Worker)]
             /\ \A a \in Board : /\ Len(workers'[a]) <= 2
                                 /\ DOMAIN workers'[a] = DOMAIN workers[a]
  BY <1>1, <1>4, WorkerMoves DEF Types
<1>5. CASE Reset(b, i)
  <2>1. [Fresh EXCEPT !.proc = tb[b].proc] \in Fields
    BY <1>1 DEF Fresh, Fields
  <2>2. i \in DOMAIN workers[b] /\ "spawn" \in Places /\ Go(b, i, "spawn")
        /\ tb' = [tb EXCEPT ![b] = [Fresh EXCEPT !.proc = tb[b].proc]]
        /\ UNCHANGED <<agenteVars, toMaster, toAgente, running>>
    BY <1>5 DEF Reset, At, Places
  <2>3. tb' \in [Board -> Fields]
    BY <1>1, <2>1, <2>2
  <2> QED
    BY <1>1, <1>4, <2>2, <2>3, MasterTyped
<1>6. CASE Spawn(b, i)
  <2>1. [tb[b] EXCEPT !.proc = i, !.busy = TRUE] \in Fields
    <3>1. i \in 0..2
      OBVIOUS
    <3> QED
      BY <1>1, <3>1 DEF Fields
  <2>2. /\ i \in DOMAIN workers[b] /\ "readout" \in Places /\ Go(b, i, "readout")
        /\ tb' = [tb EXCEPT ![b] = [tb[b] EXCEPT !.proc = i, !.busy = TRUE]]
        /\ running' = [running EXCEPT ![b] = running[b] \union {i}]
        /\ UNCHANGED <<agenteVars, toMaster, toAgente>>
    BY <1>1, <1>6 DEF Spawn, At, Places
  <2>3. tb' \in [Board -> Fields]
    BY <1>1, <2>1, <2>2
  <2>4. /\ running' \in [Board -> SUBSET (1..MaxWorkers)]
        /\ \A a \in Board : running'[a] \subseteq DOMAIN workers[a]
    BY <1>1, <2>2
  <2> QED
    BY <1>1, <1>4, <2>2, <2>3, <2>4, MasterTyped
<1>7. CASE Release(b, i)
  <2>1. [tb[b] EXCEPT !.ended = TRUE, !.busy = FALSE] \in Fields
    BY <1>1 DEF Fields
  <2>2. /\ i \in DOMAIN workers[b] /\ "check" \in Places /\ Go(b, i, "check")
        /\ tb' = [tb EXCEPT ![b] = [tb[b] EXCEPT !.ended = TRUE, !.busy = FALSE]]
        /\ UNCHANGED <<agenteVars, toMaster, toAgente, running>>
    BY <1>1, <1>7 DEF Release, Idle, At, Places
  <2>3. tb' \in [Board -> Fields]
    BY <1>1, <2>1, <2>2
  <2> QED
    BY <1>1, <1>4, <2>2, <2>3, MasterTyped
<1>8. CASE CheckFiles(b, i)
  <2>1. i \in DOMAIN workers[b] /\ workers[b] \in Seq(Worker)
    BY <1>1, <1>8 DEF CheckFiles, At
  <2>2. workers[b][i] \in Worker
    BY <2>1, ElementOfSeq
  <2>3. PICK bad \in BOOLEAN :
          /\ tb' = [tb EXCEPT ![b] = [tb[b] EXCEPT !.failed = bad]]
          /\ workers' = [workers EXCEPT ![b] = [workers[b] EXCEPT ![i] =
                            [workers[b][i] EXCEPT !.bad = bad, !.at = "answer"]]]
    <3>1. workers[b][i].bad \in BOOLEAN
      BY <2>2 DEF Worker
    <3>2. PICK bad \in {workers[b][i].bad, TRUE} :
            /\ tb' = [tb EXCEPT ![b].failed = bad]
            /\ workers' = [workers EXCEPT ![b][i].bad = bad, ![b][i].at = "answer"]
      BY <1>8 DEF CheckFiles
    <3>3. bad \in BOOLEAN
      BY <3>1, <3>2
    <3>4. [workers EXCEPT ![b][i].bad = bad, ![b][i].at = "answer"]
            = [workers EXCEPT ![b] = [workers[b] EXCEPT ![i] =
                  [workers[b][i] EXCEPT !.bad = bad, !.at = "answer"]]]
      BY <1>1, <2>1, <2>2 DEF Worker
    <3> QED
      BY <3>2, <3>3, <3>4
  <2>4. PICK w \in Worker : w = [workers[b][i] EXCEPT !.bad = bad, !.at = "answer"]
    BY <2>2 DEF Worker
  <2>5. workers' = [workers EXCEPT ![b] = [workers[b] EXCEPT ![i] = w]]
    BY <2>3, <2>4
  <2>6. /\ workers' \in [Board -> Seq(Worker)]
        /\ \A a \in Board : /\ Len(workers'[a]) = Len(workers[a])
                            /\ DOMAIN workers'[a] = DOMAIN workers[a]
    BY <2>1, <2>5, WorkerChanged DEF Types
  <2>7. [tb[b] EXCEPT !.failed = bad] \in Fields
    BY <1>1 DEF Fields
  <2>8. tb' \in [Board -> Fields]
    BY <1>1, <2>3, <2>7
  <2>9. UNCHANGED <<agenteVars, toMaster, toAgente, running>>
    BY <1>8 DEF CheckFiles
  <2> QED
    BY <1>1, <2>6, <2>8, <2>9, MasterTyped
<1>9. CASE AnswerAtEnd(b, i)
  <2>1. PICK p \in Places : Go(b, i, p)
    BY <1>9 DEF AnswerAtEnd, Places
  <2>2. /\ i \in DOMAIN workers[b] /\ toAgente' = toAgente \o Answer(b, tb[b])
        /\ UNCHANGED <<agenteVars, toMaster, tb, running>>
    BY <1>9 DEF AnswerAtEnd, At
  <2> QED
    BY <1>1, <1>3, <1>4, <2>1, <2>2, MasterTyped
<1>10. CASE ClosePSI(b, i)
  <2>1. /\ i \in DOMAIN workers[b] /\ "exit" \in Places /\ Go(b, i, "exit")
        /\ UNCHANGED <<agenteVars, toMaster, toAgente, tb, running>>
    BY <1>10 DEF ClosePSI, At, Places
  <2> QED
    BY <1>1, <1>4, <2>1, MasterTyped
<1>11. CASE Closed(b, i)
  <2>1. /\ i \in DOMAIN workers[b] /\ "gone" \in Places /\ Go(b, i, "gone")
        /\ toAgente' = toAgente \o Answer(b, tb[b])
        /\ UNCHANGED <<agenteVars, toMaster, tb, running>>
    BY <1>11 DEF Closed, At, Places
  <2> QED
    BY <1>1, <1>3, <1>4, <2>1, MasterTyped
<1>12. CASE ErrorLine(b, i)
  <2>1. i \in DOMAIN workers[b] /\ workers[b] \in Seq(Worker)
    BY <1>1, <1>12 DEF ErrorLine, At
  <2>2. workers[b][i] \in Worker
    BY <2>1, ElementOfSeq
  <2>3. PICK w \in Worker :
          w = [workers[b][i] EXCEPT !.bad = TRUE, !.errors = workers[b][i].errors + 1]
    <3>1. workers[b][i].errors + 1 \in 0..MaxErrorLines
      BY <1>12, <2>2, Boards DEF ErrorLine, Worker
    <3> QED
      BY <2>2, <3>1 DEF Worker
  <2>4. workers' = [workers EXCEPT ![b] = [workers[b] EXCEPT ![i] = w]]
    BY <1>1, <1>12, <2>1, <2>2, <2>3 DEF ErrorLine, Worker
  <2>5. /\ workers' \in [Board -> Seq(Worker)]
        /\ \A a \in Board : /\ Len(workers'[a]) = Len(workers[a])
                            /\ DOMAIN workers'[a] = DOMAIN workers[a]
    BY <2>1, <2>4, WorkerChanged DEF Types
  <2>6. [tb[b] EXCEPT !.failed = TRUE] \in Fields
    BY <1>1 DEF Fields
  <2>7. /\ tb' = [tb EXCEPT ![b] = [tb[b] EXCEPT !.failed = TRUE]]
        /\ running' = [running EXCEPT ![b] = running[b] \ {tb[b].proc}]
        /\ toAgente' = Append(toAgente, Says(b, "error"))
        /\ UNCHANGED <<agenteVars, toMaster>>
    BY <1>12 DEF ErrorLine
  <2>8. tb' \in [Board -> Fields]
    BY <1>1, <2>6, <2>7
  <2>9. /\ running' \in [Board -> SUBSET (1..MaxWorkers)]
        /\ \A a \in Board : running'[a] \subseteq DOMAIN workers[a]
    BY <1>1, <2>7
  <2>10. toAgente' \in Seq(Packet)
    <3>1. Says(b, "error") \in Packet
      BY DEF Says, Packet
    <3> QED
      BY <1>1, <2>7, <3>1, AppendProperties
  <2> QED
    BY <1>1, <2>10, <2>5, <2>7, <2>8, <2>9, MasterTyped
<1>13. CASE ProcessEnds(b, i)
  <2>1. /\ running' = [running EXCEPT ![b] = running[b] \ {i}]
        /\ UNCHANGED <<agenteVars, toMaster, toAgente, tb, workers>>
    BY <1>13 DEF ProcessEnds
  <2>2. /\ running' \in [Board -> SUBSET (1..MaxWorkers)]
        /\ \A a \in Board : running'[a] \subseteq DOMAIN workers[a]
    BY <1>1, <2>1
  <2> QED
    BY <1>1, <2>1, <2>2, MasterTyped
<1> QED
  BY <1>5, <1>6, <1>7, <1>8, <1>9, <1>10, <1>11, <1>12, <1>13 DEF Thread

LEMMA AgenteTyped ==
  ASSUME Types, Agente
  PROVE  Types'
BY PrepareTyped, ExecuteTyped, ReadTyped, CleanupTyped DEF Agente

LEMMA InitTypes ==
  ASSUME Init
  PROVE  Types
<1>1. /\ kind \in TestKinds /\ 1 \in 1..(NumBoards + 1) /\ 0 \in 0..NumTests
      /\ retries \in [Board -> 0..3] /\ busy \in [Board -> BOOLEAN]
  BY TestboardsAssumption, Boards DEF Init
<1>2. Fresh \in Fields
  BY DEF Fresh, Fields
<1>3. tb \in [Board -> Fields]
  BY <1>2 DEF Init
<1>4. \A S : <<>> \in Seq(S) /\ Len(<<>>) = 0
  BY EmptySeq
<1>5. /\ workers \in [Board -> Seq(Worker)] /\ running \in [Board -> SUBSET (1..MaxWorkers)]
      /\ \A b \in Board : Len(workers[b]) <= 2 /\ running[b] \subseteq DOMAIN workers[b]
  BY <1>4 DEF Init
<1> QED
  BY <1>1, <1>3, <1>4, <1>5 DEF Init, Types, TypeOK, Fields

LEMMA NextTypes ==
  ASSUME Types, [Next]_vars
  PROVE  Types'
<1>1. CASE UNCHANGED vars
  BY <1>1 DEF vars, Types, TypeOK
<1>2. CASE Agente
  BY <1>2, AgenteTyped
<1>3. CASE MainLoop
  BY <1>3, MainLoopTyped
<1>4. CASE \E b \in Board, i \in 1..MaxWorkers : Thread(b, i) \/ ErrorLine(b, i) \/ ProcessEnds(b, i)
  BY <1>4, ThreadTyped
<1>5. CASE Over
  BY <1>5 DEF Over, vars, Types, TypeOK
<1> QED
  BY <1>1, <1>2, <1>3, <1>4, <1>5 DEF Next

\* Every variable of the test boards keeps its type, for any number of boards
\* and tests, with powercycles and slow exits too.
THEOREM TypeCorrect == Spec => []TypeOK
<1>1. Types => TypeOK
  BY DEF Types
<1> QED
  BY <1>1, InitTypes, NextTypes, PTL DEF Spec

-----------------------------------------------------------------------------
(* The boards *)

\* What the proofs below need to know of the campaign: psi46 has ended when the
\* next test is prepared, and a powercycle is not among the tests.
InTime == ExitsInTime /\ "powercycle" \notin Kinds

\* Where the worker of a board is, and what it was started for.
Stage(b) == IF workers[b] = <<>> THEN "none" ELSE workers[b][1].at
Job(b, j) == workers[b] # <<>> /\ workers[b][1].job = j

\* A board has one worker at most; what its place says about the process and
\* about the fields that the main thread shares with it.
Machine(b) ==
  /\ Len(workers[b]) <= 1
  /\ Stage(b) \in {"none", "reset", "spawn", "gone"} => running[b] = {}
  /\ Stage(b) \in {"none", "check", "answer", "wait", "exit", "gone"} => ~tb[b].busy
  /\ Stage(b) \in {"readout", "check", "answer", "wait", "exit"} => tb[b].proc = 1
  /\ Stage(b) = "readout" => tb[b].busy /\ (tb[b].failed => running[b] = {})
  /\ Stage(b) = "spawn" => ~tb[b].failed /\ ~tb[b].close
  /\ Job(b, "start") =>
       /\ Stage(b) \notin {"wait", "exit"}
       /\ Stage(b) # "reset" => ~tb[b].close
       /\ Stage(b) \in {"check", "answer"} => running[b] = {}

Machines == \A b \in Board : Machine(b)

\* The packets the worker of a board may still send: its answers, and one for
\* each line with an error.
AnswersLeft(b) ==
  IF Stage(b) \in {"none", "gone"} THEN 0
  ELSE IF Stage(b) \in {"wait", "exit"} \/ Job(b, "start") THEN 2 ELSE 4

LinesLeft(b) ==
  IF Stage(b) \in {"reset", "spawn", "readout"} THEN MaxErrorLines - workers[b][1].errors ELSE 0

WorkerOwes(b) == AnswersLeft(b) + LinesLeft(b)

LEMMA ErrorsCounted ==
  ASSUME NEW q \in Seq(Worker), q # <<>>
  PROVE  q[1] \in Worker /\ q[1].errors \in 0..MaxErrorLines
<1>1. 1 \in 1..Len(q)
  BY HeadTailProperties, LenProperties
<1>2. q[1] \in Worker
  BY <1>1, ElementOfSeq
<1> QED
  BY <1>2 DEF Worker

\* A step of the worker of board b, or of its process.
Works(b) ==
  /\ UNCHANGED agenteVars /\ UNCHANGED toMaster
  /\ \A a \in Board \ {b} :
       workers'[a] = workers[a] /\ tb'[a] = tb[a] /\ running'[a] = running[a]
  /\ workers[b] # <<>> /\ workers'[b] # <<>> /\ Stage(b) # "gone"
  /\ workers'[b][1].job = workers[b][1].job /\ workers'[b][1].test = workers[b][1].test
  /\ Stage(b) \notin {"reset", "spawn"} =>
       /\ Stage(b)' \notin {"reset", "spawn"}
       /\ running'[b] \subseteq running[b]
       /\ tb'[b].close = tb[b].close
  /\ \/ toAgente' = toAgente /\ WorkerOwes(b)' <= WorkerOwes(b)
     \/ /\ toAgente' = toAgente \o Answer(b, tb[b])
        /\ WorkerOwes(b)' + 2 <= WorkerOwes(b)
        /\ Stage(b) \in {"answer", "exit"}
     \/ toAgente' = Append(toAgente, Says(b, "error")) /\ WorkerOwes(b)' + 1 <= WorkerOwes(b)

LEMMA OwesNumber ==
  ASSUME Types, NEW b \in Board
  PROVE  WorkerOwes(b) \in Nat /\ WorkerOwes(b) <= 4 + MaxErrorLines
<1>1. workers[b] \in Seq(Worker) /\ MaxErrorLines \in Nat
  BY Boards DEF Types, TypeOK
<1>2. AnswersLeft(b) \in {0, 2, 4}
  BY DEF AnswersLeft
<1>3. LinesLeft(b) \in 0..MaxErrorLines
  <2>1. CASE Stage(b) \in {"reset", "spawn", "readout"}
    <3>1. workers[b] # <<>>
      BY <2>1 DEF Stage
    <3>2. workers[b][1].errors \in 0..MaxErrorLines
      BY <1>1, <3>1, ErrorsCounted
    <3> QED
      BY <1>1, <2>1, <3>2 DEF LinesLeft
  <2>2. CASE Stage(b) \notin {"reset", "spawn", "readout"}
    BY <1>1, <2>2 DEF LinesLeft
  <2> QED
    BY <2>1, <2>2
<1> QED
  BY <1>1, <1>2, <1>3 DEF WorkerOwes

LEMMA OneWorker ==
  ASSUME Types, NEW b \in Board, Machine(b), NEW i \in DOMAIN workers[b]
  PROVE  /\ i = 1 /\ workers[b] # <<>> /\ Len(workers[b]) = 1
         /\ workers[b] \in Seq(Worker) /\ workers[b][1] \in Worker
         /\ Stage(b) = workers[b][1].at
         /\ \A j : Job(b, j) <=> workers[b][1].job = j
         /\ Stage(b) \in Places
<1>1. workers[b] \in Seq(Worker)
  BY DEF Types, TypeOK
<1>2. /\ Len(workers[b]) \in Nat /\ DOMAIN workers[b] = 1..Len(workers[b])
      /\ Len(workers[b]) <= 1
  BY <1>1, LenProperties DEF Machine
<1>3. i = 1 /\ Len(workers[b]) = 1
  <2>1. PICK n \in Nat : n = Len(workers[b])
    BY <1>2
  <2>2. i \in 1..n /\ n <= 1
    BY <1>2, <2>1
  <2>3. i = 1 /\ n = 1
    BY <2>2
  <2> QED
    BY <2>1, <2>3
<1>4. workers[b] # <<>>
  <2>1. Len(<<>>) = 0
    OBVIOUS
  <2> QED
    BY <1>3, <2>1
<1>5. workers[b][1] \in Worker
  BY <1>1, <1>3, ElementOfSeq
<1> QED
  BY <1>1, <1>3, <1>4, <1>5 DEF Stage, Job, Worker, Places

LEMMA WorkerBecomes ==
  ASSUME Types, NEW b \in Board, Machine(b), 1 \in DOMAIN workers[b], NEW w \in Worker,
         workers' = [workers EXCEPT ![b] = [workers[b] EXCEPT ![1] = w]]
  PROVE  /\ workers'[b] # <<>> /\ Len(workers'[b]) = 1 /\ workers'[b][1] = w
         /\ Stage(b)' = w.at
         /\ \A j : Job(b, j)' <=> w.job = j
         /\ \A a \in Board \ {b} : workers'[a] = workers[a]
<1>1. Len(workers[b]) = 1
  BY OneWorker
<1>2. /\ Len(workers'[b]) = 1 /\ workers'[b][1] = w
      /\ \A a \in Board \ {b} : workers'[a] = workers[a]
  BY <1>1, WorkerChanged DEF Types
<1>3. workers'[b] # <<>>
  <2>1. Len(<<>>) = 0
    OBVIOUS
  <2> QED
    BY <1>2, <2>1
<1> QED
  BY <1>2, <1>3 DEF Stage, Job

LEMMA WorkerGoes ==
  ASSUME Types, NEW b \in Board, Machine(b), 1 \in DOMAIN workers[b], NEW p \in Places,
         Go(b, 1, p)
  PROVE  /\ workers'[b] # <<>> /\ Len(workers'[b]) = 1
         /\ workers'[b][1].job = workers[b][1].job /\ workers'[b][1].test = workers[b][1].test
         /\ workers'[b][1].errors = workers[b][1].errors
         /\ Stage(b)' = p
         /\ \A j : Job(b, j)' <=> Job(b, j)
         /\ \A a \in Board \ {b} : workers'[a] = workers[a]
<1>1. workers[b][1] \in Worker /\ \A j : Job(b, j) <=> workers[b][1].job = j
  BY OneWorker
<1>2. PICK w \in Worker : w = [workers[b][1] EXCEPT !.at = p]
  BY <1>1 DEF Worker, Places
<1>3. workers' = [workers EXCEPT ![b] = [workers[b] EXCEPT ![1] = w]]
  BY <1>2 DEF Go
<1>4. w.job = workers[b][1].job /\ w.test = workers[b][1].test /\ w.at = p
      /\ w.errors = workers[b][1].errors
  BY <1>1, <1>2 DEF Worker
<1>5. /\ workers'[b] # <<>> /\ Len(workers'[b]) = 1 /\ workers'[b][1] = w
      /\ Stage(b)' = w.at
      /\ \A j : Job(b, j)' <=> w.job = j
      /\ \A a \in Board \ {b} : workers'[a] = workers[a]
  BY <1>3, WorkerBecomes
<1> QED
  BY <1>1, <1>4, <1>5

LEMMA WorkerWorks ==
  ASSUME Types, NEW b \in Board, Machine(b), NEW i \in 1..MaxWorkers,
         Thread(b, i) \/ ErrorLine(b, i) \/ ProcessEnds(b, i)
  PROVE  Works(b) /\ Machine(b)'
<1>1. i \in DOMAIN workers[b]
  <2>1. running[b] \subseteq DOMAIN workers[b]
    BY DEF Types, TypeOK
  <2> QED
    BY <2>1 DEF Thread, ErrorLine, ProcessEnds, Reset, Spawn, Release, CheckFiles, AnswerAtEnd,
      ClosePSI, Closed, At
<1>2. /\ i = 1 /\ 1 \in DOMAIN workers[b]
      /\ workers[b] # <<>> /\ Len(workers[b]) = 1
      /\ workers[b][1] \in Worker
      /\ Stage(b) = workers[b][1].at /\ Stage(b) \in Places
      /\ \A j : Job(b, j) <=> workers[b][1].job = j
  BY <1>1, OneWorker
<1>3. \A p : At(b, i, p) => Stage(b) = p
  BY <1>2 DEF At
<1>4. /\ tb \in [Board -> Fields] /\ tb[b] \in Fields
      /\ running \in [Board -> SUBSET (1..MaxWorkers)] /\ running[b] \subseteq {1}
  <2>1. DOMAIN workers[b] = 1..Len(workers[b]) /\ running[b] \subseteq DOMAIN workers[b]
    BY LenProperties DEF Types, TypeOK
  <2>2. running[b] \subseteq {1}
    BY <2>1, <1>2
  <2> QED
    BY <2>2 DEF Types, TypeOK, Fields
<1>5. ASSUME NEW p \in Places, Go(b, i, p)
      PROVE  /\ workers'[b] # <<>> /\ Len(workers'[b]) = 1
             /\ workers'[b][1].job = workers[b][1].job
             /\ workers'[b][1].test = workers[b][1].test
             /\ workers'[b][1].errors = workers[b][1].errors
             /\ Stage(b)' = p
             /\ \A j : Job(b, j)' <=> Job(b, j)
             /\ \A a \in Board \ {b} : workers'[a] = workers[a]
  BY <1>2, <1>5, WorkerGoes
<1>6. Alive(b) <=> tb[b].proc \in running[b]
  BY DEF Alive
<1>7. Job(b, "start") \/ Job(b, "open")
  BY <1>2 DEF Worker
<1>8. ~(Job(b, "start") /\ Job(b, "open"))
  BY <1>2
<1>9. workers[b][1].errors \in 0..MaxErrorLines /\ MaxErrorLines \in Nat
  BY <1>2, Boards DEF Worker
<1>10. CASE Reset(b, i)
  <2>1. /\ Stage(b) = "reset" /\ "spawn" \in Places /\ Go(b, i, "spawn")
        /\ tb' = [tb EXCEPT ![b] = [Fresh EXCEPT !.proc = tb[b].proc]]
        /\ UNCHANGED <<agenteVars, toMaster, toAgente, running>>
    BY <1>10, <1>3 DEF Reset, Places
  <2>0. /\ Stage(b)' = "spawn" /\ Len(workers'[b]) = 1
        /\ Job(b, "start")' <=> Job(b, "start")
    BY <1>5, <2>1
  <2>2. ~tb'[b].busy /\ ~tb'[b].failed /\ ~tb'[b].close /\ \A a \in Board \ {b} : tb'[a] = tb[a]
    BY <1>4, <2>1 DEF Fresh
  <2>3. Machine(b)'
    BY <2>0, <2>1, <2>2 DEF Machine
  <2>4. WorkerOwes(b)' <= WorkerOwes(b)
    <3>1. AnswersLeft(b)' = AnswersLeft(b)
      BY <2>0, <2>1 DEF AnswersLeft
    <3>2. LinesLeft(b)' = LinesLeft(b)
      BY <1>5, <2>0, <2>1 DEF LinesLeft
    <3> QED
      BY <3>1, <3>2, OwesNumber DEF WorkerOwes
  <2> QED
    BY <1>2, <1>5, <2>1, <2>2, <2>3, <2>4 DEF Works
<1>11. CASE Spawn(b, i)
  <2>1. /\ Stage(b) = "spawn" /\ "readout" \in Places /\ Go(b, i, "readout")
        /\ tb' = [tb EXCEPT ![b] = [tb[b] EXCEPT !.proc = 1, !.busy = TRUE]]
        /\ running' = [running EXCEPT ![b] = running[b] \union {1}]
        /\ UNCHANGED <<agenteVars, toMaster, toAgente>>
    BY <1>2, <1>3, <1>4, <1>11 DEF Spawn, Places
  <2>0. /\ Stage(b)' = "readout" /\ Len(workers'[b]) = 1
        /\ Job(b, "start")' <=> Job(b, "start")
    BY <1>5, <2>1
  <2>2. /\ tb'[b].busy /\ tb'[b].proc = 1 /\ tb'[b].failed = tb[b].failed
        /\ tb'[b].close = tb[b].close
        /\ \A a \in Board \ {b} : tb'[a] = tb[a] /\ running'[a] = running[a]
    BY <1>4, <2>1 DEF Fields
  <2>3. Machine(b)'
    BY <2>0, <2>1, <2>2 DEF Machine
  <2>4. WorkerOwes(b)' <= WorkerOwes(b)
    BY SMTT(30), <1>9, <1>5, <2>1 DEF WorkerOwes, AnswersLeft, LinesLeft
  <2> QED
    BY <1>2, <1>5, <2>1, <2>2, <2>3, <2>4 DEF Works
<1>12. CASE ErrorLine(b, i)
  <2>1. /\ Stage(b) = "readout"
        /\ tb' = [tb EXCEPT ![b] = [tb[b] EXCEPT !.failed = TRUE]]
        /\ running' = [running EXCEPT ![b] = running[b] \ {tb[b].proc}]
        /\ workers[b][1].errors < MaxErrorLines
        /\ workers' = [workers EXCEPT ![b][1].bad = TRUE, ![b][1].errors = @ + 1]
        /\ toAgente' = Append(toAgente, Says(b, "error"))
        /\ UNCHANGED <<agenteVars, toMaster>>
    BY <1>2, <1>3, <1>12 DEF ErrorLine
  <2>2. tb[b].proc = 1 /\ tb[b].busy
    BY <2>1 DEF Machine
  <2>3. /\ tb'[b].busy /\ tb'[b].proc = 1 /\ tb'[b].close = tb[b].close
        /\ running'[b] = {}
        /\ \A a \in Board \ {b} : tb'[a] = tb[a] /\ running'[a] = running[a]
    BY <1>4, <2>1, <2>2 DEF Fields
  <2>4. PICK w \in Worker :
          w = [workers[b][1] EXCEPT !.bad = TRUE, !.errors = workers[b][1].errors + 1]
    <3>1. workers[b][1].errors + 1 \in 0..MaxErrorLines
      BY <1>9, <2>1
    <3> QED
      BY <1>2, <3>1 DEF Worker
  <2>5. workers' = [workers EXCEPT ![b] = [workers[b] EXCEPT ![1] = w]]
    <3>1. workers \in [Board -> Seq(Worker)] /\ workers[b] \in Seq(Worker)
      BY DEF Types, TypeOK
    <3> QED
      BY <1>2, <2>1, <2>4, <3>1 DEF Worker
  <2>6. w.job = workers[b][1].job /\ w.test = workers[b][1].test /\ w.at = workers[b][1].at
        /\ w.errors = workers[b][1].errors + 1
    BY <1>2, <2>4 DEF Worker
  <2>7. /\ workers'[b] # <<>> /\ Len(workers'[b]) = 1 /\ workers'[b][1] = w
        /\ Stage(b)' = w.at
        /\ \A j : Job(b, j)' <=> w.job = j
        /\ \A a \in Board \ {b} : workers'[a] = workers[a]
    BY <1>2, <2>5, WorkerBecomes
  <2>8. Stage(b)' = "readout" /\ \A j : Job(b, j)' <=> Job(b, j)
    BY <1>2, <2>1, <2>6, <2>7
  <2>9. Machine(b)'
    <3>1. Job(b, "start") => ~tb[b].close
      BY <2>1 DEF Machine
    <3>2. Job(b, "start")' => ~tb'[b].close
      BY ZenonT(30), <2>3, <2>8, <3>1
    <3>3. Len(workers'[b]) <= 1
      BY <2>7
    <3> QED
      BY <2>3, <2>8, <3>2, <3>3 DEF Machine
  <2>10. WorkerOwes(b)' + 1 <= WorkerOwes(b)
    BY SMTT(30), <1>9, <2>1, <2>6, <2>7, <2>8 DEF WorkerOwes, AnswersLeft, LinesLeft
  <2> QED
    BY <1>2, <2>1, <2>3, <2>6, <2>7, <2>8, <2>9, <2>10 DEF Works
<1>13. CASE Release(b, i)
  <2>1. /\ Stage(b) = "readout" /\ "check" \in Places /\ Go(b, i, "check")
        /\ ~Alive(b) \/ tb[b].close
        /\ tb' = [tb EXCEPT ![b] = [tb[b] EXCEPT !.ended = TRUE, !.busy = FALSE]]
        /\ UNCHANGED <<agenteVars, toMaster, toAgente, running>>
    BY <1>3, <1>4, <1>13 DEF Release, Released, Idle, Places
  <2>2. /\ ~tb'[b].busy /\ tb'[b].proc = tb[b].proc /\ tb'[b].close = tb[b].close
        /\ \A a \in Board \ {b} : tb'[a] = tb[a]
    BY <1>4, <2>1 DEF Fields
  <2>3. tb[b].proc = 1 /\ (Job(b, "start") => running[b] = {})
    BY <1>4, <1>6, <2>1 DEF Machine
  <2>4. Machine(b)'
    <3>1. /\ Stage(b)' = "check" /\ Len(workers'[b]) <= 1
          /\ Job(b, "start")' <=> Job(b, "start")
          /\ running'[b] = running[b] /\ tb'[b].proc = 1
      <4>1. /\ Stage(b)' = "check" /\ Len(workers'[b]) = 1
            /\ Job(b, "start")' <=> Job(b, "start")
        BY ZenonT(30), <1>5, <2>1
      <4>2. running'[b] = running[b] /\ tb'[b].proc = 1
        BY <2>1, <2>2, <2>3
      <4>3. Len(workers'[b]) <= 1
        BY <4>1
      <4> QED
        BY <4>1, <4>2, <4>3
    <3>2. Job(b, "start") => ~tb[b].close
      BY <2>1 DEF Machine
    <3>3. Job(b, "start")' => ~tb'[b].close /\ running'[b] = {}
      BY ZenonT(30), <2>2, <2>3, <3>1, <3>2
    <3> QED
      BY <2>2, <3>1, <3>3 DEF Machine
  <2>5. WorkerOwes(b)' <= WorkerOwes(b)
    BY <1>9, <1>5, <2>1 DEF WorkerOwes, AnswersLeft, LinesLeft
  <2> QED
    BY <1>2, <1>5, <2>1, <2>2, <2>4, <2>5 DEF Works
<1>14. CASE CheckFiles(b, i)
  <2>1. Stage(b) = "check" /\ UNCHANGED <<agenteVars, toMaster, toAgente, running>>
    BY <1>3, <1>14 DEF CheckFiles
  <2>2. PICK bad \in {workers[b][1].bad, TRUE} :
          /\ tb' = [tb EXCEPT ![b].failed = bad]
          /\ workers' = [workers EXCEPT ![b][1].bad = bad, ![b][1].at = "answer"]
    BY <1>2, <1>14 DEF CheckFiles
  <2>3. bad \in BOOLEAN
    BY <1>2, <2>2 DEF Worker
  <2>4. PICK w \in Worker : w = [workers[b][1] EXCEPT !.bad = bad, !.at = "answer"]
    BY <1>2, <2>3 DEF Worker
  <2>5. workers' = [workers EXCEPT ![b] = [workers[b] EXCEPT ![1] = w]]
    <3>1. workers \in [Board -> Seq(Worker)] /\ workers[b] \in Seq(Worker)
      BY DEF Types, TypeOK
    <3> QED
      BY <1>2, <2>2, <2>4, <3>1 DEF Worker
  <2>6. w.job = workers[b][1].job /\ w.test = workers[b][1].test /\ w.at = "answer"
    BY <1>2, <2>4 DEF Worker
  <2>7. /\ workers'[b] # <<>> /\ Len(workers'[b]) = 1 /\ workers'[b][1] = w
        /\ Stage(b)' = w.at
        /\ \A j : Job(b, j)' <=> w.job = j
        /\ \A a \in Board \ {b} : workers'[a] = workers[a]
    BY <1>2, <2>5, WorkerBecomes
  <2>8. Stage(b)' = "answer" /\ \A j : Job(b, j)' <=> Job(b, j)
    BY <1>2, <2>6, <2>7
  <2>9. /\ tb'[b].busy = tb[b].busy /\ tb'[b].proc = tb[b].proc /\ tb'[b].close = tb[b].close
        /\ \A a \in Board \ {b} : tb'[a] = tb[a]
    BY <1>4, <2>2 DEF Fields
  <2>10. Machine(b)'
    BY <2>1, <2>7, <2>8, <2>9 DEF Machine
  <2>11. WorkerOwes(b)' <= WorkerOwes(b)
    BY <1>9, <2>1, <2>8 DEF WorkerOwes, AnswersLeft, LinesLeft
  <2> QED
    BY <1>2, <2>1, <2>6, <2>7, <2>8, <2>9, <2>10, <2>11 DEF Works
<1>15. CASE AnswerAtEnd(b, i)
  <2>1. /\ Stage(b) = "answer" /\ toAgente' = toAgente \o Answer(b, tb[b])
        /\ UNCHANGED <<agenteVars, toMaster, tb, running>>
    BY <1>3, <1>15 DEF AnswerAtEnd
  <2>2. PICK p \in Places : /\ Go(b, i, p)
                            /\ Job(b, "open") => p = "wait"
                            /\ Job(b, "start") => p = "gone"
    BY <1>2, <1>7, <1>8, <1>15 DEF AnswerAtEnd, Places
  <2>0. /\ Stage(b)' = p /\ Len(workers'[b]) = 1
        /\ Job(b, "start")' <=> Job(b, "start")
    BY <1>5, <2>2
  <2>3. Machine(b)'
    BY <1>7, <1>8, <2>0, <2>1, <2>2 DEF Machine
  <2>4. WorkerOwes(b)' + 2 <= WorkerOwes(b)
    BY <1>9, <1>5, <1>7, <1>8, <2>1, <2>2 DEF WorkerOwes, AnswersLeft, LinesLeft
  <2>5. Stage(b)' \in {"wait", "gone"}
    BY <1>5, <1>7, <2>2
  <2> QED
    BY <1>2, <1>5, <2>1, <2>2, <2>3, <2>4, <2>5 DEF Works
<1>16. CASE ClosePSI(b, i)
  <2>1. /\ Stage(b) = "wait" /\ "exit" \in Places /\ Go(b, i, "exit")
        /\ UNCHANGED <<agenteVars, toMaster, toAgente, tb, running>>
    BY <1>3, <1>16 DEF ClosePSI, Places
  <2>0. /\ Stage(b)' = "exit" /\ Len(workers'[b]) = 1
        /\ Job(b, "start")' <=> Job(b, "start")
    BY <1>5, <2>1
  <2>2. Machine(b)'
    BY <2>0, <2>1 DEF Machine
  <2>3. WorkerOwes(b)' <= WorkerOwes(b)
    BY <1>9, <1>5, <2>1 DEF WorkerOwes, AnswersLeft, LinesLeft
  <2> QED
    BY <1>2, <1>5, <2>1, <2>2, <2>3 DEF Works
<1>17. CASE Closed(b, i)
  <2>1. /\ Stage(b) = "exit" /\ "gone" \in Places /\ Go(b, i, "gone") /\ ~Alive(b)
        /\ toAgente' = toAgente \o Answer(b, tb[b])
        /\ UNCHANGED <<agenteVars, toMaster, tb, running>>
    BY <1>3, <1>17 DEF Closed, Places
  <2>0. /\ Stage(b)' = "gone" /\ Len(workers'[b]) = 1
        /\ Job(b, "start")' <=> Job(b, "start")
    BY <1>5, <2>1
  <2>2. running[b] = {}
    BY <1>4, <1>6, <2>1 DEF Machine
  <2>3. Machine(b)'
    BY <2>0, <2>1, <2>2 DEF Machine
  <2>4. WorkerOwes(b)' + 2 <= WorkerOwes(b)
    BY <1>9, <1>5, <2>1 DEF WorkerOwes, AnswersLeft, LinesLeft
  <2> QED
    BY <1>2, <1>5, <2>1, <2>3, <2>4 DEF Works
<1>18. CASE ProcessEnds(b, i)
  <2>1. /\ 1 \in running[b]
        /\ running' = [running EXCEPT ![b] = running[b] \ {1}]
        /\ UNCHANGED <<agenteVars, toMaster, toAgente, tb, workers>>
    BY <1>2, <1>18 DEF ProcessEnds
  <2>2. /\ running'[b] = {} /\ \A a \in Board \ {b} : running'[a] = running[a]
    BY <1>4, <2>1
  <2>3. Stage(b)' = Stage(b) /\ \A j : Job(b, j)' <=> Job(b, j)
    BY <2>1 DEF Stage, Job
  <2>4. Machine(b)'
    BY <2>1, <2>2, <2>3 DEF Machine
  <2>5. Stage(b) # "gone"
    BY <2>1 DEF Machine
  <2>6. WorkerOwes(b)' <= WorkerOwes(b)
    <3>1. AnswersLeft(b)' = AnswersLeft(b)
      BY <2>3 DEF AnswersLeft
    <3>2. LinesLeft(b)' = LinesLeft(b)
      BY <2>1, <2>3 DEF LinesLeft
    <3> QED
      BY <3>1, <3>2, OwesNumber DEF WorkerOwes
  <2> QED
    BY <1>2, <2>1, <2>2, <2>3, <2>4, <2>5, <2>6 DEF Works
<1> QED
  BY <1>10, <1>11, <1>12, <1>13, <1>14, <1>15, <1>16, <1>17, <1>18 DEF Thread

-----------------------------------------------------------------------------
(* The boards in the course of a test *)

Orders(b) == OnWay(toMaster, b)

\* The worker of a board is this test's, and has spawned its process.
Mine(b, j) == Job(b, j) /\ workers[b][1].test = test
Up(b, j) == Mine(b, j) /\ Stage(b) \notin {"reset", "spawn"}

\* No worker but one of an earlier test, that is gone.
Vacant(b) ==
  /\ Stage(b) \in {"none", "gone"}
  /\ workers[b] # <<>> => workers[b][1].test < test

Free(b) == Orders(b) = {} /\ Vacant(b)
Begun(b, j) == \/ Orders(b) = {j} /\ Vacant(b)
               \/ Orders(b) = {} /\ Mine(b, j)
Closing(b) == Orders(b) = {"close"} \/ (Orders(b) = {} /\ tb[b].close)

\* The process of the test that is being waited for has ended.
Done(b) == Up(b, "start") /\ running[b] = {}

\* Where a board is to be, by where psi_agente is ...
Due(b) ==
  IF phase = "idle" /\ test = 0 THEN "free"
  ELSE IF kind = "iv"
    THEN IF b \notin active THEN "free"
         ELSE IF phase = "prepare" THEN (IF b < turn THEN "opening" ELSE "free")
         ELSE IF phase \in {"ready", "ask"} \/ (phase = "clean" /\ b >= turn) THEN "open"
         ELSE "closing"
    ELSE IF phase \in {"prepare", "ready"} THEN "free"
         ELSE IF phase \in {"start", "slept"}
           THEN IF b < turn THEN "started"
                ELSE IF phase = "slept" /\ b = turn THEN "starting" ELSE "free"
         ELSE IF phase = "ask" THEN "started" ELSE IF phase = "read" THEN "asked" ELSE "done"

\* ... and what that means.
IsIn(b, d) ==
  /\ d = "free" => Free(b)
  /\ d = "opening" => Begun(b, "open")
  /\ d = "open" => Orders(b) = {} /\ Up(b, "open")
  /\ d = "closing" => Up(b, "open") /\ Closing(b)
  /\ d = "starting" => Begun(b, "start")
  /\ d = "started" => Orders(b) = {} /\ Up(b, "start")
  /\ d = "asked" => Orders(b) \subseteq {"stat"} /\ Up(b, "start")
  /\ d = "done" => Orders(b) \subseteq {"stat"} /\ Done(b)

Course == \A b \in Board : IsIn(b, Due(b))

\* Which tests and which phases there are, and that there is one command for
\* each board at most, a command of this test.
Phases ==
  /\ kind \in {"batch", "iv"}
  /\ kind = "iv" => /\ phase \notin {"start", "slept", "read"}
                    /\ phase = "ask" => ~pending
  /\ kind = "batch" => active = Board
  /\ kind = "iv" => active \in Actives("iv")
  /\ \A i \in DOMAIN toMaster : toMaster[i].test = test
  /\ Separate(toMaster)

Dues == {"free", "opening", "open", "closing", "starting", "started", "asked", "done"}

LEMMA DueKnown == \A b : Due(b) \in Dues
BY DEF Due, Dues

LEMMA NothingOrdered ==
  ASSUME NEW b
  PROVE  Delivered(b) <=> Orders(b) = {}
BY DEF Delivered, Orders, OnWay

\* A command to start or to open goes to a board that is free, one to close to
\* a board that is open.
LEMMA WhatIsOrdered ==
  ASSUME NEW b \in Board, IsIn(b, Due(b))
  PROVE  /\ "start" \in Orders(b) \/ "open" \in Orders(b) => Vacant(b)
         /\ "close" \in Orders(b) => Job(b, "open") /\ Stage(b) \notin {"reset", "spawn"}
         /\ "stat" \in Orders(b) => Job(b, "start") /\ Stage(b) \notin {"reset", "spawn"}
<1>1. Due(b) \in Dues
  BY DueKnown
<1>2. CASE Due(b) \in {"free", "open", "started"}
  BY <1>2 DEF IsIn, Free
<1>3. CASE Due(b) \in {"opening", "starting"}
  BY <1>3 DEF IsIn, Begun
<1>4. CASE Due(b) = "closing"
  BY <1>4 DEF IsIn, Closing, Up, Mine
<1>5. CASE Due(b) \in {"asked", "done"}
  BY <1>5 DEF IsIn, Done, Up, Mine
<1> QED
  BY <1>1, <1>2, <1>3, <1>4, <1>5 DEF Dues

\* The main thread takes the command for board b.
Handles(b) ==
  /\ UNCHANGED <<agenteVars, running>>
  /\ \A a \in Board \ {b} :
       workers'[a] = workers[a] /\ tb'[a] = tb[a] /\ Orders(a)' = Orders(a)
  /\ Orders(b)' = {}
  /\ \/ /\ Orders(b) = {"stat"}
        /\ toAgente' = toAgente \o Status(b)
        /\ UNCHANGED <<tb, workers>>
     \/ \E j \in {"start", "open"} :
          /\ Orders(b) = {j}
          /\ Stage(b)' = "reset" /\ Mine(b, j)'
          /\ tb'[b].close = tb[b].close
          /\ \/ toAgente' = toAgente
             \/ j = "start" /\ toAgente' = toAgente \o <<Says(b, "busy"), Says(b, "busy")>>
     \/ /\ Orders(b) = {"close"}
        /\ tb'[b].close
        /\ UNCHANGED <<workers, toAgente>>

LEMMA NewWorkerStarts ==
  ASSUME Types, NEW b \in Board, Machine(b), Stage(b) \in {"none", "gone"},
         NEW job, NEW n, NewWorker(b, job, n)
  PROVE  /\ workers'[b] # <<>> /\ Len(workers'[b]) = 1
         /\ Stage(b)' = "reset"
         /\ workers'[b][1].test = n
         /\ \A j : Job(b, j)' <=> job = j
         /\ \A a \in Board \ {b} : workers'[a] = workers[a]
         /\ running[b] = {}
<1> DEFINE w == [job |-> job, test |-> n, bad |-> FALSE, errors |-> 0, at |-> "reset"]
           idle == running[b] = {} /\ \A i \in DOMAIN workers[b] : workers[b][i].at = "gone"
<1>1. workers \in [Board -> Seq(Worker)]
  BY DEF Types, TypeOK
<1>2. running[b] = {}
  BY DEF Machine
<1>3. ASSUME NEW i \in DOMAIN workers[b]
      PROVE  workers[b][i].at = "gone"
  <2>1. i = 1 /\ workers[b] # <<>> /\ Stage(b) = workers[b][1].at
    BY OneWorker
  <2>2. Stage(b) # "none"
    <3>1. Stage(b) \in Places
      BY OneWorker
    <3> QED
      BY <3>1 DEF Places
  <2> QED
    BY <2>1, <2>2
<1>4. idle
  BY <1>2, <1>3
<1>5. workers' = [workers EXCEPT ![b] = IF idle THEN <<w>> ELSE Append(workers[b], w)]
  BY DEF NewWorker
<1>6. w.job = job /\ w.test = n /\ w.at = "reset"
  OBVIOUS
<1> HIDE DEF w, idle
<1>7. workers'[b] = <<w>> /\ \A a \in Board \ {b} : workers'[a] = workers[a]
  BY <1>1, <1>4, <1>5
<1>8. <<w>> # <<>> /\ Len(<<w>>) = 1 /\ <<w>>[1] = w
  OBVIOUS
<1>9. workers'[b] # <<>> /\ Len(workers'[b]) = 1 /\ workers'[b][1] = w
  BY <1>7, <1>8
<1> QED
  BY <1>2, <1>6, <1>7, <1>9 DEF Stage, Job

LEMMA MainLoopHandles ==
  ASSUME Types, Machines, Phases, Course, MainLoop
  PROVE  Machines' /\ Phases' /\ \E b \in Board : Handles(b)
<1>0. PICK c : c = Head(toMaster)
  OBVIOUS
<1>1. /\ toMaster \in Seq(Order) /\ toMaster # <<>> /\ Separate(toMaster)
      /\ tb \in [Board -> Fields] /\ workers \in [Board -> Seq(Worker)]
  BY DEF MainLoop, Types, TypeOK, Order, Fields, Phases
<1>2. /\ c \in Order /\ Tail(toMaster) \in Seq(Order) /\ Separate(Tail(toMaster))
      /\ OnWay(toMaster, c.board) = {c.cmd}
      /\ OnWay(Tail(toMaster), c.board) = {}
      /\ \A a : a # c.board => OnWay(Tail(toMaster), a) = OnWay(toMaster, a)
      /\ \A i \in DOMAIN Tail(toMaster) :
           i + 1 \in DOMAIN toMaster /\ Tail(toMaster)[i] = toMaster[i + 1]
      /\ 1 \in DOMAIN toMaster /\ c = toMaster[1]
  BY ZenonT(30), <1>0, <1>1, CommandTaken
<1>20. PICK b \in Board : b = c.board
  BY <1>2 DEF Order
<1>3. c.test = test /\ tb[b] \in Fields
  BY <1>1, <1>2 DEF Phases
<1>4. toMaster' = Tail(toMaster) /\ UNCHANGED <<agenteVars, running>> /\ UNCHANGED test
      /\ UNCHANGED <<phase, kind, active, pending>>
  BY DEF MainLoop, agenteVars
<1>5. \/ c.cmd = "stat" /\ toAgente' = toAgente \o Status(b) /\ UNCHANGED <<tb, workers>>
      \/ c.cmd = "start" /\ ~tb[b].busy /\ Accept(b, "start", c.test)
      \/ c.cmd = "start" /\ tb[b].busy /\ Refuse(b)
      \/ c.cmd = "open" /\ ~tb[b].busy /\ Accept(b, "open", c.test)
      \/ c.cmd = "open" /\ tb[b].busy /\ UNCHANGED <<tb, workers, toAgente>>
      \/ /\ c.cmd = "close"
         /\ tb' = [tb EXCEPT ![b].close = TRUE]
         /\ UNCHANGED <<workers, toAgente>>
  BY <1>0, <1>20 DEF MainLoop
<1>6. Phases'
  BY <1>2, <1>4 DEF Phases
<1>7. /\ Orders(b) = {c.cmd} /\ Orders(b)' = {}
      /\ \A a \in Board \ {b} : Orders(a)' = Orders(a)
  BY <1>2, <1>20, <1>4 DEF Orders
<1>8. Machine(b) /\ IsIn(b, Due(b)) /\ \A a \in Board : Machine(a)
  BY <1>3 DEF Machines, Course
<1>9. /\ c.cmd \in {"start", "open"} => Stage(b) \in {"none", "gone"} /\ ~tb[b].busy
      /\ c.cmd = "close" => Job(b, "open") /\ Stage(b) \notin {"reset", "spawn"}
  BY <1>3, <1>7, <1>8, WhatIsOrdered DEF Machine, Vacant
<1>10. ASSUME \A a \in Board \ {b} : workers'[a] = workers[a] /\ tb'[a] = tb[a],
              Machine(b)'
       PROVE  Machines'
  <2>1. ASSUME NEW a \in Board \ {b} PROVE Machine(a)'
    BY <1>4, <1>8, <1>10 DEF Machine, Stage, Job
  <2>2. \A a \in Board : Machine(a)'
    BY <1>10, <2>1
  <2> QED
    BY <2>2 DEF Machines
<1>11. ASSUME NEW j \in {"start", "open"}, c.cmd = j, Accept(b, j, c.test)
       PROVE  Machines' /\ Handles(b)
  <2>1. NewWorker(b, j, test)
        /\ tb' = [tb EXCEPT ![b].busy = (tb[b].busy \/ j = "start")]
    BY <1>3, <1>11 DEF Accept
  <2>2. \/ toAgente' = toAgente
        \/ j = "start" /\ toAgente' = toAgente \o <<Says(b, "busy"), Says(b, "busy")>>
    BY <1>11 DEF Accept
  <2>3. Stage(b) \in {"none", "gone"}
    BY <1>9, <1>11
  <2>4. /\ workers'[b] # <<>> /\ Len(workers'[b]) = 1
        /\ Stage(b)' = "reset" /\ workers'[b][1].test = test
        /\ \A k : Job(b, k)' <=> j = k
        /\ \A a \in Board \ {b} : workers'[a] = workers[a]
        /\ running[b] = {}
    BY <1>3, <1>8, <2>1, <2>3, NewWorkerStarts
  <2>5. /\ tb'[b].close = tb[b].close
        /\ \A a \in Board \ {b} : tb'[a] = tb[a]
    BY <1>1, <1>3, <2>1 DEF Fields
  <2>6. Machine(b)'
    BY <1>4, <2>4 DEF Machine
  <2>7. Mine(b, j)'
    BY <1>4, <2>4 DEF Mine
  <2> QED
    BY <1>4, <1>7, <1>10, <1>11, <2>2, <2>4, <2>5, <2>6, <2>7 DEF Handles
<1>12. CASE c.cmd = "stat" /\ toAgente' = toAgente \o Status(b) /\ UNCHANGED <<tb, workers>>
  <2>1. Machine(b)'
    BY <1>4, <1>8, <1>12 DEF Machine, Stage, Job
  <2> QED
    BY <1>3, <1>4, <1>6, <1>7, <1>10, <1>12, <2>1 DEF Handles
<1>13. CASE c.cmd = "start" /\ ~tb[b].busy /\ Accept(b, "start", c.test)
  BY <1>3, <1>6, <1>11, <1>13
<1>14. CASE c.cmd = "start" /\ tb[b].busy /\ Refuse(b)
  BY <1>9, <1>14
<1>15. CASE c.cmd = "open" /\ ~tb[b].busy /\ Accept(b, "open", c.test)
  BY <1>3, <1>6, <1>11, <1>15
<1>16. CASE c.cmd = "open" /\ tb[b].busy /\ UNCHANGED <<tb, workers, toAgente>>
  BY <1>9, <1>16
<1>17. CASE /\ c.cmd = "close"
            /\ tb' = [tb EXCEPT ![b].close = TRUE]
            /\ UNCHANGED <<workers, toAgente>>
  <2>1. /\ tb'[b].close /\ tb'[b].busy = tb[b].busy /\ tb'[b].failed = tb[b].failed
        /\ tb'[b].proc = tb[b].proc
        /\ \A a \in Board \ {b} : tb'[a] = tb[a]
    BY <1>1, <1>3, <1>17 DEF Fields
  <2>2. Stage(b)' = Stage(b) /\ ~Job(b, "start")' /\ Stage(b) \notin {"reset", "spawn"}
    BY <1>9, <1>17 DEF Stage, Job
  <2>3. Machine(b)'
    BY <1>4, <1>8, <1>17, <2>1, <2>2 DEF Machine
  <2> QED
    BY <1>3, <1>4, <1>6, <1>7, <1>10, <1>17, <2>1, <2>3 DEF Handles
<1> QED
  BY <1>5, <1>12, <1>13, <1>14, <1>15, <1>16, <1>17

-----------------------------------------------------------------------------
(* The answers *)

\* The packets of earlier tests that may be left after they were cleared k
\* times.
Most == (6 + MaxErrorLines) * NumBoards + 1

Old[k \in 0..(NumBoards + 2)] == IF k = 0 THEN Most ELSE Old[k - 1] \div 2

\* None is left of those the test before could leave.
FewErrors == Old[NumBoards + 2] = 0

\* How often the packets were cleared since the test is executed.
Clears == IF phase = "start" THEN turn ELSE IF phase = "slept" THEN turn + 1 ELSE NumBoards + 2

\* What check_finished skips.
Skipped == {"busy", "error"}

\* Behind the first p packets a board is said to be ready only when it is.
Honest(p) ==
  \A i \in DOMAIN toAgente, b \in Board :
    i > p /\ toAgente[i].board = b /\ toAgente[i].says \notin Skipped => Done(b)

\* psi_agente is right about the boards it no longer waits for.
Trusted ==
  kind = "batch" /\ phase \in {"start", "slept", "ask", "read"} =>
    /\ \E p \in 0..Old[Clears] : Honest(p)
    /\ \A b \in Board : ~busy[b] => Due(b) \in {"free", "starting"} \/ Done(b)
    /\ phase = "slept" => busy[turn]
    /\ phase \in {"start", "slept"} => pending
    /\ ~pending => \A b \in Board : ~busy[b]

\* The packets that a command for board b may cause.
CommandOwes(b) ==
  IF Orders(b) \intersect {"open", "start"} # {} THEN 4 + MaxErrorLines
  ELSE IF "stat" \in Orders(b) THEN 3 ELSE 0

Owed == [b \in Board |-> WorkerOwes(b) + CommandOwes(b)]

\* The boards that were opened so far, when they are opened.
Opened == {b \in Board : kind = "iv" /\ b \in active /\ b < turn}

Bound ==
  IF phase = "prepare"
    THEN Old[Cardinality(Opened)] + (4 + MaxErrorLines) * Cardinality(Opened)
  ELSE IF phase = "start" THEN Old[turn] + (4 + MaxErrorLines) * (turn - 1)
  ELSE IF phase = "slept" THEN Old[turn + 1] + (4 + MaxErrorLines) * turn
  ELSE IF phase = "ask" /\ kind = "batch" THEN (3 + MaxErrorLines) * NumBoards
  ELSE IF phase = "read" THEN (6 + MaxErrorLines) * NumBoards
  ELSE Most

\* The packets there are and the packets still to come.
Count == Len(toAgente) + Total(Owed) <= Bound

-----------------------------------------------------------------------------
(* Steps of the workers and of the main thread *)

LEMMA SameDue ==
  ASSUME UNCHANGED agenteVars
  PROVE  /\ \A b : Due(b)' = Due(b)
         /\ Clears' = Clears /\ Bound' = Bound
         /\ UNCHANGED <<phase, turn, test, kind, active, busy, retries, pending>>
<1>1. UNCHANGED <<phase, turn, test, kind, active, busy, retries, pending>>
  BY DEF agenteVars
<1> QED
  BY <1>1 DEF Due, Clears, Bound, Opened

\* A board that a step leaves alone stays where it is.
LEMMA StaysIn ==
  ASSUME NEW b \in Board, NEW d, IsIn(b, d), workers'[b] = workers[b], tb'[b] = tb[b],
         running'[b] = running[b], test' = test, Orders(b)' = Orders(b)
  PROVE  IsIn(b, d)' /\ (Done(b) => Done(b)')
<1>1. /\ Stage(b)' = Stage(b) /\ \A j : Up(b, j)' <=> Up(b, j)
      /\ \A j : Mine(b, j)' <=> Mine(b, j)
      /\ Vacant(b)' <=> Vacant(b)
  BY DEF Stage, Up, Mine, Job, Vacant
<1>2. Free(b) => Free(b)'
  BY <1>1 DEF Free
<1>3. \A j : Begun(b, j) => Begun(b, j)'
  BY <1>1 DEF Begun
<1>4. Closing(b) => Closing(b)'
  BY DEF Closing
<1>5. Done(b) => Done(b)'
  BY <1>1 DEF Done
<1> QED
  BY <1>1, <1>2, <1>3, <1>4, <1>5 DEF IsIn

LEMMA WorksKeepCourse ==
  ASSUME Types, NEW b \in Board, Machine(b), Works(b), Course
  PROVE  /\ Course' /\ \A a \in Board : Orders(a)' = Orders(a) /\ (Done(a) => Done(a)')
         /\ Stage(b) # "none" /\ ~Vacant(b)
<1>1. /\ \A a : Due(a)' = Due(a)
      /\ UNCHANGED <<phase, turn, test, kind, active, busy, retries, pending>>
  BY SameDue DEF Works
<1>2. /\ \A a \in Board : Orders(a)' = Orders(a)
      /\ \A a \in Board \ {b} :
           workers'[a] = workers[a] /\ tb'[a] = tb[a] /\ running'[a] = running[a]
  BY DEF Works, Orders
<1>3. \A a \in Board \ {b} : IsIn(a, Due(a))' /\ (Done(a) => Done(a)')
  BY <1>1, <1>2, StaysIn DEF Course
<1>4. Stage(b) \notin {"none", "gone"}
  <2>1. workers[b] \in Seq(Worker) /\ workers[b] # <<>>
    BY DEF Types, TypeOK, Works
  <2>2. 1 \in DOMAIN workers[b]
    BY <2>1, HeadTailProperties, LenProperties
  <2>3. Stage(b) \in Places
    BY <2>2, OneWorker
  <2> QED
    BY <2>3 DEF Places, Works
<1>5. /\ \A j : Mine(b, j) => Mine(b, j)'
      /\ \A j : Up(b, j) => Up(b, j)' /\ tb'[b].close = tb[b].close
                            /\ running'[b] \subseteq running[b]
  BY <1>1 DEF Works, Mine, Up, Job
<1>6. /\ ~Free(b) /\ ~Vacant(b)
      /\ \A j : Begun(b, j) => Begun(b, j)'
      /\ Done(b) => Done(b)'
  BY <1>2, <1>4, <1>5 DEF Free, Vacant, Begun, Done
<1>7. Up(b, "open") /\ Closing(b) => Closing(b)'
  BY <1>2, <1>5 DEF Closing
<1>8. \A d : IsIn(b, d) => IsIn(b, d)'
  BY <1>2, <1>5, <1>6, <1>7 DEF IsIn
<1>9. IsIn(b, Due(b))'
  BY <1>1, <1>8 DEF Course
<1> QED
  BY <1>2, <1>3, <1>4, <1>6, <1>9 DEF Course

LEMMA HandlesKeepCourse ==
  ASSUME Types, NEW b \in Board, Handles(b), Course
  PROVE  Course' /\ \A a \in Board : Done(a) => Done(a)'
<1>1. /\ \A a : Due(a)' = Due(a)
      /\ UNCHANGED <<phase, turn, test, kind, active, busy, retries, pending>>
  BY SameDue DEF Handles
<1>2. /\ \A a \in Board \ {b} : /\ workers'[a] = workers[a] /\ tb'[a] = tb[a]
                                /\ running'[a] = running[a] /\ Orders(a)' = Orders(a)
      /\ running'[b] = running[b] /\ Orders(b)' = {}
  BY DEF Handles
<1>3. \A a \in Board \ {b} : IsIn(a, Due(a))' /\ (Done(a) => Done(a)')
  BY <1>1, <1>2, StaysIn DEF Course
<1>4. IsIn(b, Due(b))
  BY DEF Course
<1>5. CASE Orders(b) = {"stat"} /\ UNCHANGED <<tb, workers>>
  <2>1. Due(b) \in {"asked", "done"}
    BY <1>4, <1>5, DueKnown DEF IsIn, Free, Begun, Closing, Dues
  <2>2. (Up(b, "start")' <=> Up(b, "start")) /\ (Done(b)' <=> Done(b))
    BY <1>1, <1>2, <1>5 DEF Up, Mine, Job, Stage, Done
  <2>3. IsIn(b, Due(b))'
    BY <1>1, <1>2, <1>4, <2>1, <2>2 DEF IsIn
  <2> QED
    BY <1>3, <2>2, <2>3 DEF Course
<1>6. ASSUME NEW j \in {"start", "open"}, Orders(b) = {j}, Mine(b, j)'
      PROVE  Course' /\ \A a \in Board : Done(a) => Done(a)'
  <2>1. Due(b) = (IF j = "start" THEN "starting" ELSE "opening") /\ Vacant(b)
    BY <1>4, <1>6, DueKnown DEF IsIn, Free, Begun, Closing, Dues
  <2>2. Begun(b, j)'
    BY <1>2, <1>6 DEF Begun
  <2>3. IsIn(b, Due(b))'
    BY <1>1, <2>1, <2>2 DEF IsIn
  <2>4. ~Done(b)
    BY <2>1 DEF Done, Up, Mine, Job, Vacant, Types, TypeOK
  <2> QED
    BY <1>3, <2>3, <2>4 DEF Course
<1>7. CASE Orders(b) = {"close"} /\ tb'[b].close /\ UNCHANGED workers
  <2>1. Due(b) = "closing"
    BY <1>4, <1>7, DueKnown DEF IsIn, Free, Begun, Closing, Dues
  <2>2. (\A j : Up(b, j)' <=> Up(b, j)) /\ (Done(b)' <=> Done(b))
    BY <1>1, <1>2, <1>7 DEF Up, Mine, Job, Stage, Done
  <2>3. Closing(b)'
    BY <1>2, <1>7 DEF Closing
  <2>4. IsIn(b, Due(b))'
    BY <1>1, <1>4, <2>1, <2>2, <2>3 DEF IsIn
  <2> QED
    BY <1>3, <2>2, <2>4 DEF Course
<1> QED
  BY <1>5, <1>6, <1>7 DEF Handles

LEMMA OwesNumbers ==
  ASSUME Types, Types', NEW b \in Board
  PROVE  /\ WorkerOwes(b) \in Nat /\ WorkerOwes(b) <= 4 + MaxErrorLines
         /\ CommandOwes(b) \in {0, 3, 4 + MaxErrorLines} /\ CommandOwes(b) \in Nat
         /\ WorkerOwes(b)' \in Nat
         /\ CommandOwes(b)' \in {0, 3, 4 + MaxErrorLines} /\ CommandOwes(b)' \in Nat
<1>1. MaxErrorLines \in Nat
  BY Boards
<1>2. /\ CommandOwes(b) \in {0, 3, 4 + MaxErrorLines}
      /\ CommandOwes(b)' \in {0, 3, 4 + MaxErrorLines}
  BY DEF CommandOwes
<1>3. CommandOwes(b) \in Nat /\ CommandOwes(b)' \in Nat
  BY <1>1, <1>2
<1>4. WorkerOwes(b) \in Nat /\ WorkerOwes(b) <= 4 + MaxErrorLines
  BY OwesNumber
<1>5. WorkerOwes(b)' \in Nat
  <2>1. workers'[b] \in Seq(Worker)
    BY DEF Types, TypeOK
  <2>2. AnswersLeft(b)' \in {0, 2, 4}
    BY DEF AnswersLeft
  <2>3. LinesLeft(b)' \in 0..MaxErrorLines
    <3>1. CASE Stage(b)' \in {"reset", "spawn", "readout"}
      <4>1. workers'[b] # <<>>
        BY <3>1 DEF Stage
      <4>2. workers'[b][1].errors \in 0..MaxErrorLines
        BY <2>1, <4>1, ErrorsCounted
      <4> QED
        BY <1>1, <3>1, <4>2 DEF LinesLeft
    <3>2. CASE Stage(b)' \notin {"reset", "spawn", "readout"}
      BY <1>1, <3>2 DEF LinesLeft
    <3> QED
      BY <3>1, <3>2
  <2> QED
    BY <1>1, <2>2, <2>3 DEF WorkerOwes
<1> QED
  BY <1>2, <1>3, <1>4, <1>5

\* While a batch is started and waited for.
Waiting == kind = "batch" /\ phase \in {"start", "slept", "ask", "read"}

\* The packets of a step are among those that board b owes, and tell the truth.
Replies(b) ==
  \E s \in Seq(Packet) :
    /\ toAgente' = toAgente \o s
    /\ Len(s) + WorkerOwes(b)' + CommandOwes(b)' <= WorkerOwes(b) + CommandOwes(b)
    /\ Waiting => \A i \in DOMAIN s : s[i].says \notin Skipped => Done(s[i].board)

LEMMA NoReply ==
  ASSUME Types, Types', NEW b \in Board, toAgente' = toAgente,
         WorkerOwes(b)' + CommandOwes(b)' <= WorkerOwes(b) + CommandOwes(b)
  PROVE  Replies(b)
<1>1. toAgente \in Seq(Packet)
  BY DEF Types, TypeOK, Packet
<1>2. /\ <<>> \in Seq(Packet) /\ Len(<<>>) = 0 /\ toAgente \o <<>> = toAgente
      /\ \A i \in DOMAIN <<>> : FALSE
  BY <1>1, EmptySeq, ConcatEmptySeq
<1>3. /\ WorkerOwes(b) \in Nat /\ WorkerOwes(b)' \in Nat
      /\ CommandOwes(b) \in Nat /\ CommandOwes(b)' \in Nat
  BY OwesNumbers
<1>4. 0 + WorkerOwes(b)' + CommandOwes(b)' <= WorkerOwes(b) + CommandOwes(b)
  BY <1>3
<1> QED
  BY <1>2, <1>4 DEF Replies

LEMMA WorksReplies ==
  ASSUME Types, Types', NEW b \in Board, Machine(b), Works(b), Course
  PROVE  Replies(b)
<1>1. Orders(b)' = Orders(b) /\ Stage(b) # "none" /\ ~Vacant(b)
  BY WorksKeepCourse
<1>2. CommandOwes(b)' = CommandOwes(b)
  BY <1>1 DEF CommandOwes
<1>3. /\ WorkerOwes(b) \in Nat /\ WorkerOwes(b)' \in Nat
      /\ CommandOwes(b) \in Nat /\ CommandOwes(b)' \in Nat
  BY OwesNumbers
<1>4. CASE toAgente' = toAgente /\ WorkerOwes(b)' <= WorkerOwes(b)
  BY <1>2, <1>3, <1>4, NoReply
<1>5. CASE /\ toAgente' = toAgente \o Answer(b, tb[b])
           /\ WorkerOwes(b)' + 2 <= WorkerOwes(b)
           /\ Stage(b) \in {"answer", "exit"}
  <2>1. PICK s : s = Answer(b, tb[b])
    OBVIOUS
  <2>2. s \in Seq(Packet) /\ Len(s) \in 1..2 /\ \A i \in DOMAIN s : s[i].board = b
    BY <2>1, AnswerPackets DEF Types
  <2>3. Len(s) + WorkerOwes(b)' + CommandOwes(b)' <= WorkerOwes(b) + CommandOwes(b)
    BY SMTT(30), <1>2, <1>3, <1>5, <2>2
  <2>4. ASSUME Waiting PROVE Done(b)
    <3>1. kind = "batch" /\ phase \notin {"idle", "prepare", "ready", "clean"}
      BY <2>4 DEF Waiting
    <3>2. Due(b) \in {"free", "starting", "started", "asked"}
      BY <3>1, <2>4 DEF Due, Waiting
    <3>3. Mine(b, "start")
      BY <3>2, <1>1 DEF Course, IsIn, Free, Begun, Up
    <3>4. Job(b, "start")
      BY <3>3 DEF Mine
    <3>5. running[b] = {}
      BY <1>5, <3>4 DEF Machine
    <3> QED
      BY <1>5, <3>3, <3>5 DEF Done, Up
  <2> QED
    BY <1>5, <2>1, <2>2, <2>3, <2>4 DEF Replies
<1>6. CASE toAgente' = Append(toAgente, Says(b, "error")) /\ WorkerOwes(b)' + 1 <= WorkerOwes(b)
  <2>1. PICK s : s = <<Says(b, "error")>>
    OBVIOUS
  <2>2. Says(b, "error") \in Packet /\ Says(b, "error").says \in Skipped
    BY DEF Says, Packet, Skipped
  <2>3. s \in Seq(Packet) /\ Len(s) = 1 /\ \A i \in DOMAIN s : s[i].says \in Skipped
    BY <2>1, <2>2
  <2>4. toAgente' = toAgente \o s
    <3>1. toAgente \in Seq(Packet)
      BY DEF Types, TypeOK, Packet
    <3> QED
      BY <1>6, <2>1, <2>2, <3>1, AppendIsConcat
  <2>5. Len(s) + WorkerOwes(b)' + CommandOwes(b)' <= WorkerOwes(b) + CommandOwes(b)
    BY <1>2, <1>3, <1>6, <2>3
  <2> QED
    BY <2>3, <2>4, <2>5 DEF Replies
<1> QED
  BY <1>4, <1>5, <1>6 DEF Works

LEMMA HandlesReplies ==
  ASSUME Types, Types', NEW b \in Board, Machine(b), Handles(b), Course
  PROVE  Replies(b)
<1>1. Orders(b)' = {} /\ IsIn(b, Due(b)) /\ CommandOwes(b)' = 0
  BY DEF Handles, CommandOwes, Course
<1>2. /\ WorkerOwes(b) \in Nat /\ WorkerOwes(b)' \in Nat
      /\ CommandOwes(b) \in Nat
  BY OwesNumbers
<1>3. CASE /\ Orders(b) = {"stat"}
           /\ toAgente' = toAgente \o Status(b)
           /\ UNCHANGED <<tb, workers>>
  <2>1. PICK s : s = Status(b)
    OBVIOUS
  <2>2. /\ s \in Seq(Packet) /\ Len(s) \in 1..3
        /\ \A i \in DOMAIN s : /\ s[i].board = b
                               /\ s[i].says \notin Skipped => tb[b].failed \/ ~tb[b].busy
    BY <2>1, AnswerPackets DEF Types, Skipped
  <2>3. CommandOwes(b) = 3 /\ WorkerOwes(b)' = WorkerOwes(b)
    BY <1>3 DEF CommandOwes, WorkerOwes, AnswersLeft, LinesLeft, Stage, Job
  <2>4. Len(s) + WorkerOwes(b)' + CommandOwes(b)' <= WorkerOwes(b) + CommandOwes(b)
    BY <1>1, <1>2, <2>2, <2>3
  <2>5. Up(b, "start")
    BY <1>1, <1>3, DueKnown DEF IsIn, Free, Begun, Closing, Dues, Done
  <2>6. tb[b].failed \/ ~tb[b].busy => Done(b)
    <3>0. Job(b, "start") /\ Stage(b) \notin {"reset", "spawn"}
      BY <2>5 DEF Up, Mine
    <3>1. Job(b, "start") /\ Stage(b) \notin {"reset", "spawn", "wait", "exit"}
      BY <3>0 DEF Machine
    <3>2. Stage(b) \in {"readout", "check", "answer", "gone"}
      <4>1. workers[b] \in Seq(Worker) /\ workers[b] # <<>>
        BY <3>1 DEF Types, TypeOK, Job
      <4>2. 1 \in DOMAIN workers[b]
        BY <4>1, HeadTailProperties, LenProperties
      <4>3. Stage(b) \in Places
        BY <4>2, OneWorker
      <4> QED
        BY <3>1, <4>3 DEF Places
    <3> QED
      BY <2>5, <3>1, <3>2 DEF Done, Machine
  <2> QED
    BY <1>3, <2>1, <2>2, <2>4, <2>6 DEF Replies
<1>4. ASSUME NEW j \in {"start", "open"}, Orders(b) = {j},
             Stage(b)' = "reset" /\ Mine(b, j)',
             \/ toAgente' = toAgente
             \/ j = "start" /\ toAgente' = toAgente \o <<Says(b, "busy"), Says(b, "busy")>>
      PROVE  Replies(b)
  <2>0. MaxErrorLines \in Nat
    BY Boards
  <2>1. /\ CommandOwes(b) = 4 + MaxErrorLines
        /\ WorkerOwes(b)' <= (IF j = "start" THEN 2 ELSE 4) + MaxErrorLines
    <3>1. CommandOwes(b) = 4 + MaxErrorLines
      BY <1>4 DEF CommandOwes
    <3>2. workers'[b] # <<>> /\ workers'[b] \in Seq(Worker)
      BY <1>4 DEF Mine, Job, Types, TypeOK
    <3>3. workers'[b][1].errors \in 0..MaxErrorLines
      BY <3>2, ErrorsCounted
    <3>4. LinesLeft(b)' \in 0..MaxErrorLines
      BY <1>4, <2>0, <3>3 DEF LinesLeft
    <3>5. AnswersLeft(b)' = IF j = "start" THEN 2 ELSE 4
      BY <1>4 DEF AnswersLeft, Mine, Job
    <3> QED
      BY <2>0, <3>1, <3>4, <3>5 DEF WorkerOwes
  <2>2. CASE toAgente' = toAgente
    BY <1>1, <1>2, <2>0, <2>1, <2>2, NoReply
  <2>3. CASE j = "start" /\ toAgente' = toAgente \o <<Says(b, "busy"), Says(b, "busy")>>
    <3>1. PICK s : s = <<Says(b, "busy"), Says(b, "busy")>>
      OBVIOUS
    <3>2. Says(b, "busy") \in Packet /\ Says(b, "busy").says \in Skipped
      BY DEF Says, Packet, Skipped
    <3>3. s \in Seq(Packet) /\ Len(s) = 2 /\ \A i \in DOMAIN s : s[i].says \in Skipped
      BY <3>1, <3>2
    <3>4. Len(s) + WorkerOwes(b)' + CommandOwes(b)' <= WorkerOwes(b) + CommandOwes(b)
      BY <1>1, <1>2, <2>0, <2>1, <2>3, <3>3
    <3> QED
      BY <2>3, <3>1, <3>3, <3>4 DEF Replies
  <2> QED
    BY <1>4, <2>2, <2>3
<1>5. CASE Orders(b) = {"close"} /\ UNCHANGED <<workers, toAgente>>
  <2>1. WorkerOwes(b)' = WorkerOwes(b)
    BY <1>5 DEF WorkerOwes, AnswersLeft, LinesLeft, Stage, Job
  <2> QED
    BY <1>1, <1>2, <1>5, <2>1, NoReply
<1> QED
  BY <1>3, <1>4, <1>5 DEF Handles

LEMMA HalfOf ==
  ASSUME NEW n \in Nat
  PROVE  n \div 2 \in Nat /\ n \div 2 <= n
BY SMT

\* Old is defined step by step.
LEMMA OldRuns ==
  /\ Old[0] = Most
  /\ \A k \in 0..(NumBoards + 1) : Old[k + 1] = Old[k] \div 2
<1> DEFINE n == NumBoards + 2
           Run(s, k) == [i \in 0..k |-> IF i = 0 THEN Most ELSE s[i - 1] \div 2]
           T == {k \in 0..n : \E s : s = Run(s, k)}
<1>0. n \in Nat /\ NumBoards + 1 = n - 1
  BY Boards
<1>1. 0 \in T
  <2> DEFINE g == [i \in 0..0 |-> Most]
  <2>1. \A i \in 0..0 : i = 0
    OBVIOUS
  <2>2. g = Run(g, 0)
    BY <2>1
  <2>3. \E s : s = Run(s, 0)
    <3> HIDE DEF g, Run
    <3> QED
      BY <2>2
  <2> QED
    BY <2>3, <1>0
<1>2. ASSUME NEW k \in 0..(n - 1), k \in T
      PROVE  k + 1 \in T
  <2>1. PICK s : s = Run(s, k)
    BY <1>2
  <2> DEFINE g == [i \in 0..(k + 1) |-> IF i <= k THEN s[i] ELSE s[k] \div 2]
  <2>2. s[0] = Most /\ \A i \in 1..k : s[i] = s[i - 1] \div 2
    BY <2>1
  <2>3. (\A i \in 0..k : g[i] = s[i]) /\ g[k + 1] = s[k] \div 2
    OBVIOUS
  <2>4. g = [i \in 0..(k + 1) |-> g[i]]
    OBVIOUS
  <2> HIDE DEF g
  <2>5. \A i \in 0..(k + 1) : g[i] = IF i = 0 THEN Most ELSE g[i - 1] \div 2
    <3> TAKE i \in 0..(k + 1)
    <3>1. CASE i = 0
      BY <3>1, <2>2, <2>3
    <3>2. CASE i \in 1..k
      <4>1. i \in 0..k /\ i - 1 \in 0..k /\ i # 0
        BY <3>2
      <4> QED
        BY <4>1, <3>2, <2>2, <2>3
    <3>3. CASE i = k + 1
      <4>1. i # 0 /\ i - 1 = k /\ k \in 0..k
        BY <3>3
      <4> QED
        BY <4>1, <3>3, <2>3
    <3> QED
      BY <3>1, <3>2, <3>3
  <2>6. g = Run(g, k + 1)
    BY <2>4, <2>5
  <2>7. k + 1 \in 0..n
    BY <1>0
  <2> QED
    BY <2>6, <2>7
<1>3. n \in T
  <2> HIDE DEF T, n
  <2>1. 0..n \subseteq T
    BY <1>0, <1>1, <1>2, IntervalInduction
  <2> QED
    BY <2>1, <1>0
<1> DEFINE s == CHOOSE g : g = Run(g, n)
<1>4. s = Run(s, n)
  BY <1>3
<1>5. Old = s
  BY DEF Old
<1> HIDE DEF s
<1>6. s[0] = Most /\ \A i \in 1..n : s[i] = s[i - 1] \div 2
  <2>1. 0 \in 0..n /\ \A i \in 1..n : i \in 0..n /\ i # 0
    BY <1>0
  <2> QED
    BY <1>4, <2>1
<1>7. ASSUME NEW k \in 0..(NumBoards + 1)
      PROVE  s[k + 1] = s[k] \div 2
  <2>1. k + 1 \in 1..n /\ (k + 1) - 1 = k
    BY <1>0
  <2> QED
    BY <1>6, <2>1
<1> QED
  BY <1>5, <1>6, <1>7

LEMMA Olds ==
  /\ \A k \in 0..(NumBoards + 2) : Old[k] \in Nat
  /\ \A k \in 0..(NumBoards + 1) : Old[k] \div 2 <= Old[k + 1]
  /\ Old[0] = Most /\ Most \in Nat
<1>1. NumBoards \in Nat /\ MaxErrorLines \in Nat
  BY Boards
<1>2. Most \in Nat
  BY <1>1 DEF Most
<1> DEFINE T == {k \in 0..(NumBoards + 2) : Old[k] \in Nat}
<1>3. 0 \in T
  BY <1>1, <1>2, OldRuns
<1>4. ASSUME NEW k \in 0..((NumBoards + 2) - 1), k \in T
      PROVE  k + 1 \in T
  <2>1. k \in 0..(NumBoards + 1) /\ k + 1 \in 0..(NumBoards + 2)
    BY <1>1
  <2>2. Old[k] \in Nat /\ Old[k + 1] = Old[k] \div 2
    BY <1>4, <2>1, OldRuns
  <2>3. Old[k + 1] \in Nat
    BY <2>2, HalfOf
  <2> QED
    BY <2>1, <2>3
<1>5. \A k \in 0..(NumBoards + 2) : Old[k] \in Nat
  <2>1. NumBoards + 2 \in Nat
    BY <1>1
  <2> HIDE DEF T
  <2>2. 0..(NumBoards + 2) \subseteq T
    BY <1>3, <1>4, <2>1, IntervalInduction
  <2> QED
    BY <2>2 DEF T
<1>6. ASSUME NEW k \in 0..(NumBoards + 1)
      PROVE  Old[k] \div 2 <= Old[k + 1]
  <2>1. k \in 0..(NumBoards + 2)
    BY <1>1
  <2>2. Old[k] \in Nat /\ Old[k + 1] = Old[k] \div 2
    BY <1>5, <2>1, OldRuns
  <2>3. PICK x \in Nat : x = Old[k]
    BY <2>2
  <2> QED
    BY <2>2, <2>3, HalfOf
<1> QED
  BY <1>2, <1>5, <1>6, OldRuns

\* When the packets that may be left are gone in time, few were left before the
\* last two times.
LEMMA FewLeft ==
  ASSUME FewErrors
  PROVE  Old[NumBoards] \in 0..3 /\ Old[NumBoards + 1] \in 0..1 /\ Old[NumBoards + 2] = 0
<1>1. NumBoards \in Nat
  BY Boards
<1>2. PICK n \in Nat : n = NumBoards
  BY <1>1
<1>3. n \in 0..(n + 1) /\ n + 1 \in 0..(n + 1) /\ (n + 1) + 1 = n + 2 /\ n \in 0..(n + 2)
  BY <1>2
<1>4. Old[n + 1] = Old[n] \div 2 /\ Old[n + 2] = Old[n + 1] \div 2 /\ Old[n] \in Nat
  BY <1>2, <1>3, OldRuns, Olds
<1>5. PICK x \in Nat : x = Old[n]
  BY <1>4
<1>6. Old[n + 1] = x \div 2 /\ (x \div 2) \div 2 = 0
  BY <1>2, <1>4, <1>5 DEF FewErrors
<1>7. x \in 0..3
  BY <1>6
<1>8. x \div 2 \in 0..1
  BY <1>7
<1> QED
  BY <1>2, <1>5, <1>6, <1>7, <1>8 DEF FewErrors

LEMMA BoundNumber ==
  ASSUME Types
  PROVE  Bound \in Int /\ IsFiniteSet(Opened) /\ Cardinality(Opened) \in 0..NumBoards
<1>1. IsFiniteSet(Opened) /\ Cardinality(Opened) <= Cardinality(Board)
  BY Boards, FS_Subset DEF Opened
<1>2. Cardinality(Opened) \in 0..NumBoards
  BY <1>1, Boards, FS_CardinalityType
<1>3. NumBoards \in Nat /\ MaxErrorLines \in Nat /\ turn \in 1..(NumBoards + 1)
  BY Boards DEF Types, TypeOK
<1>4. PICK k \in 0..NumBoards : k = Cardinality(Opened)
  BY <1>2
<1>5. Old[k] \in Int /\ Old[turn] \in Int /\ Old[turn + 1] \in Int /\ Most \in Int
  <2>1. k \in 0..(NumBoards + 2) /\ turn \in 0..(NumBoards + 2) /\ turn + 1 \in 0..(NumBoards + 2)
    BY <1>3
  <2> QED
    BY <2>1, Olds
<1>6. \A x, y \in Int : x * y \in Int
  OBVIOUS
<1>7. Bound \in {Old[k] + (4 + MaxErrorLines) * k, Old[turn] + (4 + MaxErrorLines) * (turn - 1),
                 Old[turn + 1] + (4 + MaxErrorLines) * turn, (3 + MaxErrorLines) * NumBoards,
                 (6 + MaxErrorLines) * NumBoards, Most}
  BY <1>4 DEF Bound
<1> QED
  BY <1>1, <1>2, <1>3, <1>5, <1>6, <1>7

\* The numbers that are summed up.
LEMMA OwedNumbers ==
  ASSUME Types, Types'
  PROVE
  /\ Owed \in [Board -> Nat] /\ \A b \in Board : Owed[b] = WorkerOwes(b) + CommandOwes(b)
  /\ Owed' \in [Board -> Nat]
  /\ \A b \in Board : Owed'[b] = WorkerOwes(b)' + CommandOwes(b)'
BY OwesNumbers DEF Owed

LEMMA RepliesKeep ==
  ASSUME Types, Types', NEW b \in Board, Replies(b), UNCHANGED agenteVars,
         \A a \in Board \ {b} : WorkerOwes(a)' = WorkerOwes(a) /\ CommandOwes(a)' = CommandOwes(a),
         \A a \in Board : Done(a) => Done(a)',
         Trusted, Count
  PROVE  Trusted' /\ Count'
<1>1. PICK s \in Seq(Packet) :
        /\ toAgente' = toAgente \o s
        /\ Len(s) + WorkerOwes(b)' + CommandOwes(b)' <= WorkerOwes(b) + CommandOwes(b)
        /\ Waiting => \A i \in DOMAIN s : s[i].says \notin Skipped => Done(s[i].board)
  BY DEF Replies
<1>2. /\ toAgente \in Seq(Packet) /\ toAgente' \in Seq(Packet)
      /\ DOMAIN toAgente = 1..Len(toAgente) /\ DOMAIN s = 1..Len(s)
      /\ DOMAIN toAgente' = 1..Len(toAgente')
      /\ Len(toAgente) \in Nat /\ Len(s) \in Nat /\ Len(toAgente') = Len(toAgente) + Len(s)
      /\ \A i \in 1..(Len(toAgente) + Len(s)) :
           toAgente'[i] = IF i <= Len(toAgente) THEN toAgente[i] ELSE s[i - Len(toAgente)]
  <2>1. toAgente \in Seq(Packet) /\ toAgente' \in Seq(Packet)
    BY DEF Types, TypeOK, Packet
  <2> QED
    BY <1>1, <2>1, ConcatProperties, LenProperties
<1>3. /\ \A a : Due(a)' = Due(a)
      /\ Clears' = Clears /\ Bound' = Bound
      /\ UNCHANGED <<phase, turn, test, kind, active, busy, retries, pending>>
  BY SameDue
<1>4. ASSUME Waiting, NEW p \in Nat, Honest(p)
      PROVE  Honest(p)'
  <2>1. ASSUME NEW i \in DOMAIN toAgente', NEW a \in Board,
               i > p, toAgente'[i].board = a, toAgente'[i].says \notin Skipped
        PROVE  Done(a)'
    <3>1. CASE i <= Len(toAgente)
      <4>1. i \in DOMAIN toAgente /\ toAgente'[i] = toAgente[i]
        BY <1>2, <3>1
      <4> QED
        BY <1>4, <2>1, <4>1 DEF Honest
    <3>2. CASE ~(i <= Len(toAgente))
      <4>1. i - Len(toAgente) \in DOMAIN s /\ toAgente'[i] = s[i - Len(toAgente)]
        BY <1>2, <3>2
      <4> QED
        BY <1>1, <1>4, <2>1, <4>1
    <3> QED
      BY <3>1, <3>2
  <2> QED
    BY <2>1 DEF Honest
<1>5. Trusted'
  <2>1. SUFFICES ASSUME Waiting
                 PROVE  Trusted'
    BY <1>3 DEF Trusted, Waiting
  <2>2. PICK p \in 0..Old[Clears] : Honest(p)
    BY <2>1 DEF Trusted, Waiting
  <2>3. Honest(p)' /\ p \in 0..Old[Clears']
    BY <1>3, <1>4, <2>1, <2>2
  <2>4. \A a \in Board : ~busy[a] => Due(a) \in {"free", "starting"} \/ Done(a)
    BY <2>1 DEF Trusted, Waiting
  <2>5. \A a \in Board : ~busy'[a] => Due(a)' \in {"free", "starting"} \/ Done(a)'
    BY <1>3, <2>4
  <2>6. /\ phase = "slept" => busy[turn]
        /\ phase \in {"start", "slept"} => pending
        /\ ~pending => \A a \in Board : ~busy[a]
    BY <2>1 DEF Trusted, Waiting
  <2>7. /\ phase' = "slept" => busy'[turn']
        /\ phase' \in {"start", "slept"} => pending'
        /\ ~pending' => \A a \in Board : ~busy'[a]
    BY <1>3, <2>6
  <2>8. \E q \in 0..Old[Clears]' : Honest(q)'
    BY <2>3 DEF Old
  <2> QED
    BY <2>5, <2>7, <2>8 DEF Trusted
<1>6. Count'
  <2>1. PICK f \in [Board -> Nat] : f = Owed /\ \A a \in Board : f[a] = WorkerOwes(a) + CommandOwes(a)
    BY OwedNumbers
  <2>2. PICK g \in [Board -> Nat] :
          g = Owed' /\ \A a \in Board : g[a] = WorkerOwes(a)' + CommandOwes(a)'
    BY OwedNumbers
  <2>3. \A a \in Board \ {b} : g[a] = f[a]
    BY <2>1, <2>2
  <2>4. Total(f) \in Nat /\ Total(g) \in Nat /\ Total(g) + f[b] = Total(f) + g[b]
    BY <2>3, TotalStep
  <2>5. Len(s) + g[b] <= f[b]
    <3>1. f[b] = WorkerOwes(b) + CommandOwes(b) /\ g[b] = WorkerOwes(b)' + CommandOwes(b)'
      BY <2>1, <2>2
    <3>2. /\ WorkerOwes(b) \in Nat /\ WorkerOwes(b)' \in Nat
          /\ CommandOwes(b) \in Nat /\ CommandOwes(b)' \in Nat
      BY SMTT(30), OwesNumbers
    <3> QED
      BY <1>1, <1>2, <3>1, <3>2
  <2>6. Len(toAgente) + Total(f) <= Bound /\ Bound' = Bound
    BY <1>3, <2>1 DEF Count
  <2>7. Len(toAgente') + Total(g) <= Bound
    <3>1. Bound \in Int
      BY BoundNumber DEF Types
    <3> QED
      BY <1>2, <2>4, <2>5, <2>6, <3>1
  <2> QED
    BY <2>2, <2>6, <2>7 DEF Count
<1> QED
  BY <1>5, <1>6

-----------------------------------------------------------------------------
(* The inductive invariant *)

Inv == Types /\ Machines /\ Phases /\ Course /\ Trusted /\ Count

LEMMA ThreadKeeps ==
  ASSUME Inv, NEW b \in Board, NEW i \in 1..MaxWorkers,
         Thread(b, i) \/ ErrorLine(b, i) \/ ProcessEnds(b, i)
  PROVE  Inv'
<1>1. Types /\ Machines /\ Phases /\ Course /\ Trusted /\ Count /\ Machine(b)
  BY DEF Inv, Machines
<1>2. Types'
  BY <1>1, ThreadTyped
<1>3. Works(b) /\ Machine(b)'
  BY <1>1, WorkerWorks
<1>4. /\ UNCHANGED agenteVars /\ UNCHANGED toMaster
      /\ \A a \in Board \ {b} :
           workers'[a] = workers[a] /\ tb'[a] = tb[a] /\ running'[a] = running[a]
  BY <1>3 DEF Works
<1>5. Course' /\ \A a \in Board : Orders(a)' = Orders(a) /\ (Done(a) => Done(a)')
  BY <1>1, <1>3, WorksKeepCourse
<1>6. Machines'
  <2>1. ASSUME NEW a \in Board \ {b} PROVE Machine(a)'
    <3>1. Machine(a)
      BY <1>1 DEF Machines
    <3> QED
      BY <1>4, <3>1 DEF Machine, Stage, Job
  <2>2. \A a \in Board : Machine(a)'
    BY <1>3, <2>1
  <2> QED
    BY <2>2 DEF Machines
<1>7. Phases'
  BY <1>1, <1>4 DEF Phases, agenteVars
<1>8. \A a \in Board \ {b} : WorkerOwes(a)' = WorkerOwes(a) /\ CommandOwes(a)' = CommandOwes(a)
  <2>1. \A a \in Board \ {b} : Stage(a)' = Stage(a) /\ \A j : Job(a, j)' <=> Job(a, j)
    BY <1>4 DEF Stage, Job
  <2> QED
    BY <1>4, <1>5, <2>1 DEF WorkerOwes, AnswersLeft, LinesLeft, CommandOwes
<1>9. Replies(b)
  BY <1>1, <1>2, <1>3, WorksReplies
<1>10. Trusted' /\ Count'
  BY <1>1, <1>2, <1>4, <1>5, <1>8, <1>9, RepliesKeep
<1> QED
  BY <1>2, <1>5, <1>6, <1>7, <1>10 DEF Inv

LEMMA MainLoopKeeps ==
  ASSUME Inv, MainLoop
  PROVE  Inv'
<1>1. Types /\ Machines /\ Phases /\ Course /\ Trusted /\ Count
  BY DEF Inv
<1>2. Types'
  BY <1>1, MainLoopTyped
<1>3. Machines' /\ Phases' /\ \E b \in Board : Handles(b)
  BY <1>1, MainLoopHandles
<1>4. PICK b \in Board : Handles(b)
  BY <1>3
<1>5. /\ UNCHANGED agenteVars /\ Machine(b)
      /\ \A a \in Board \ {b} : workers'[a] = workers[a] /\ Orders(a)' = Orders(a)
  BY <1>1, <1>4 DEF Handles, Machines
<1>6. Course' /\ \A a \in Board : Done(a) => Done(a)'
  BY <1>1, <1>4, HandlesKeepCourse
<1>7. \A a \in Board \ {b} : WorkerOwes(a)' = WorkerOwes(a) /\ CommandOwes(a)' = CommandOwes(a)
  <2>1. \A a \in Board \ {b} : Stage(a)' = Stage(a) /\ \A j : Job(a, j)' <=> Job(a, j)
    BY <1>5 DEF Stage, Job
  <2> QED
    BY <1>5, <2>1 DEF WorkerOwes, AnswersLeft, LinesLeft, CommandOwes
<1>8. Replies(b)
  BY <1>1, <1>2, <1>4, <1>5, HandlesReplies
<1>9. Trusted' /\ Count'
  BY <1>1, <1>2, <1>5, <1>6, <1>7, <1>8, RepliesKeep
<1> QED
  BY <1>2, <1>3, <1>6, <1>9 DEF Inv

-----------------------------------------------------------------------------
(* Steps of psi_agente *)

LEMMA SameMaster ==
  ASSUME UNCHANGED masterVars
  PROVE  /\ Machines => Machines'
         /\ \A b : WorkerOwes(b)' = WorkerOwes(b) /\ Stage(b)' = Stage(b)
         /\ test' = test =>
              \A b : /\ Done(b)' <=> Done(b)
                     /\ Vacant(b)' <=> Vacant(b)
                     /\ \A j : Up(b, j)' <=> Up(b, j)
         /\ UNCHANGED tb /\ UNCHANGED workers /\ UNCHANGED running
<1>1. UNCHANGED tb /\ UNCHANGED workers /\ UNCHANGED running
  BY DEF masterVars
<1>2. \A b : Stage(b)' = Stage(b) /\ \A j : Job(b, j)' <=> Job(b, j)
  BY <1>1 DEF Stage, Job
<1>3. \A b : WorkerOwes(b)' = WorkerOwes(b)
  BY <1>1, <1>2 DEF WorkerOwes, AnswersLeft, LinesLeft
<1>4. Machines => Machines'
  <2> SUFFICES ASSUME Machines, NEW b \in Board PROVE Machine(b)'
    BY DEF Machines
  <2>1. Machine(b)
    BY DEF Machines
  <2> QED
    BY <1>1, <1>2, <2>1 DEF Machine
<1>5. ASSUME test' = test, NEW b
      PROVE  /\ Done(b)' <=> Done(b)
             /\ Vacant(b)' <=> Vacant(b)
             /\ \A j : Up(b, j)' <=> Up(b, j)
  <2>1. \A j : Up(b, j)' <=> Up(b, j)
    BY <1>1, <1>2, <1>5 DEF Up, Mine
  <2>2. Vacant(b)' <=> Vacant(b)
    BY <1>1, <1>2, <1>5 DEF Vacant
  <2> QED
    BY <1>1, <2>1, <2>2 DEF Done
<1> QED
  BY <1>1, <1>2, <1>3, <1>4, <1>5

\* The boards are where psi_agente takes them to be next.
LEMMA MovesOn ==
  ASSUME UNCHANGED masterVars, test' = test,
         \A b \in Board : Orders(b)' = Orders(b) /\ IsIn(b, Due(b)')
  PROVE  Course'
<1> SUFFICES ASSUME NEW b \in Board PROVE IsIn(b, Due(b))'
  BY DEF Course
<1>1. PICK d : d = Due(b)'
  OBVIOUS
<1>2. IsIn(b, d)
  BY <1>1
<1>3. IsIn(b, d)'
  BY <1>2, StaysIn DEF masterVars
<1> QED
  BY <1>1, <1>3

LEMMA SameOrders ==
  ASSUME UNCHANGED toMaster
  PROVE  \A b : Orders(b)' = Orders(b) /\ CommandOwes(b)' = CommandOwes(b)
<1>1. \A b : Orders(b)' = Orders(b)
  BY DEF Orders
<1> QED
  BY <1>1 DEF CommandOwes

\* No command is on its way when none is for any board.
LEMMA NoCommands ==
  ASSUME TypeOK, \A b \in Board : Orders(b) = {}
  PROVE  toMaster = <<>> /\ \A i \in DOMAIN toMaster : FALSE
<1>1. toMaster \in Seq(Order)
  BY DEF TypeOK, Order
<1>2. ASSUME NEW i \in DOMAIN toMaster PROVE FALSE
  <2>1. toMaster[i] \in Order
    BY <1>1, ElementOfSeq
  <2>2. toMaster[i].board \in Board
    BY <2>1 DEF Order
  <2> QED
    BY <2>2 DEF Orders, OnWay
<1>3. toMaster = <<>>
  <2> SUFFICES ASSUME toMaster # <<>> PROVE FALSE
    OBVIOUS
  <2>1. 1 \in DOMAIN toMaster
    BY <1>1, HeadTailProperties, LenProperties
  <2> QED
    BY <1>2, <2>1
<1> QED
  BY <1>2, <1>3

LEMMA AnswersKnown ==
  ASSUME TypeOK
  PROVE  /\ toAgente \in Seq(Packet) /\ Len(toAgente) \in Nat
         /\ DOMAIN toAgente = 1..Len(toAgente)
<1>1. toAgente \in Seq(Packet)
  BY DEF TypeOK, Packet
<1> QED
  BY <1>1, LenProperties

\* After the packets were cleared.
LEMMA FewerPackets ==
  ASSUME Types, Types', toAgente' \in ClearPackets(toAgente)
  PROVE  /\ Len(toAgente) \in Nat /\ Len(toAgente') \in Nat
         /\ Len(toAgente') <= Len(toAgente) \div 2
         /\ \E p \in 0..Len(toAgente') : Honest(p)'
         /\ masterVars' = masterVars /\ test' = test =>
              \A p \in Nat : Honest(p) => Honest(p \div 2)'
<1>1. /\ toAgente \in Seq(Packet) /\ toAgente' \in Seq(Packet)
      /\ DOMAIN toAgente = 1..Len(toAgente) /\ DOMAIN toAgente' = 1..Len(toAgente')
  BY LenProperties DEF Types, TypeOK, Packet
<1>2. /\ Len(toAgente) \in Nat /\ Len(toAgente') \in Nat
      /\ Len(toAgente') <= Len(toAgente) \div 2
      /\ \A i \in 1..Len(toAgente') :
           \E j \in 1..Len(toAgente) : 2 * i <= j /\ toAgente'[i] = toAgente[j]
  BY <1>1, ClearHalves
<1>3. \E p \in 0..Len(toAgente') : Honest(p)'
  <2>1. PICK n \in Nat : n = Len(toAgente')
    BY <1>2
  <2>2. ASSUME NEW i \in DOMAIN toAgente' PROVE ~(i > n)
    BY <1>1, <2>1
  <2>3. Honest(n)'
    BY <2>2 DEF Honest
  <2>4. n \in 0..Len(toAgente')
    BY <2>1
  <2> QED
    BY <2>3, <2>4
<1>4. ASSUME masterVars' = masterVars, test' = test
      PROVE  \A p \in Nat : Honest(p) => Honest(p \div 2)'
  <2> SUFFICES ASSUME NEW p \in Nat, Honest(p)
               PROVE  Honest(p \div 2)'
    OBVIOUS
  <2>1. ASSUME NEW i \in DOMAIN toAgente', NEW b \in Board,
               i > p \div 2, toAgente'[i].board = b, toAgente'[i].says \notin Skipped
        PROVE  Done(b)'
    <3>1. PICK j \in 1..Len(toAgente) : 2 * i <= j /\ toAgente'[i] = toAgente[j]
      BY <1>1, <1>2
    <3>2. i \in Nat /\ j \in Nat /\ j > p
      BY <1>1, <1>2, <2>1, <3>1
    <3>3. Done(b)
      BY <1>1, <1>4, <2>1, <3>1, <3>2 DEF Honest
    <3> QED
      BY <1>4, <3>3, SameMaster
  <2> QED
    BY <2>1 DEF Honest
<1> QED
  BY <1>2, <1>3, <1>4

\* The count when nothing is added.
LEMMA CountKept ==
  ASSUME Types, Types', UNCHANGED masterVars, Len(toAgente') <= Len(toAgente),
         \A b \in Board : CommandOwes(b)' <= CommandOwes(b),
         Bound <= Bound', Count
  PROVE  Count'
<1>1. PICK f \in [Board -> Nat] : f = Owed /\ \A b \in Board : f[b] = WorkerOwes(b) + CommandOwes(b)
  BY OwedNumbers
<1>2. PICK g \in [Board -> Nat] :
        g = Owed' /\ \A b \in Board : g[b] = WorkerOwes(b)' + CommandOwes(b)'
  BY OwedNumbers
<1>3. \A b \in Board : g[b] <= f[b] + 0
  <2> TAKE b \in Board
  <2>1. f[b] = WorkerOwes(b) + CommandOwes(b) /\ g[b] = WorkerOwes(b)' + CommandOwes(b)'
    BY <1>1, <1>2
  <2>2. WorkerOwes(b) \in Nat /\ CommandOwes(b) \in Nat /\ CommandOwes(b)' \in Nat
    BY OwesNumbers
  <2>3. WorkerOwes(b)' = WorkerOwes(b) /\ CommandOwes(b)' <= CommandOwes(b)
    BY SameMaster
  <2> QED
    BY <2>1, <2>2, <2>3
<1>4. Total(f) \in Nat /\ Total(g) \in Nat /\ Total(g) <= Total(f) + 0 * NumBoards
  BY <1>3, TotalGrows
<1>5. Len(toAgente) \in Nat /\ Len(toAgente') \in Nat
  BY LenProperties DEF Types, TypeOK
<1>6. Bound \in Int /\ NumBoards \in Nat
  BY Boards, BoundNumber DEF Types
<1>7. Bound' \in Int
  <2>1. turn' \in 1..(NumBoards + 1) /\ Opened' \subseteq Board /\ MaxErrorLines \in Nat
    BY <1>6, Boards DEF Types, TypeOK, Opened
  <2>2. Cardinality(Opened') \in 0..NumBoards
    <3>1. IsFiniteSet(Opened') /\ Cardinality(Opened') <= Cardinality(Board)
      BY <2>1, Boards, FS_Subset
    <3> QED
      BY <3>1, Boards, FS_CardinalityType
  <2>3. PICK k \in 0..NumBoards : k = Cardinality(Opened')
    BY <2>2
  <2>4. PICK t \in 1..(NumBoards + 1) : t = turn'
    BY <2>1
  <2>5. Old[k] \in Int /\ Old[t] \in Int /\ Old[t + 1] \in Int /\ Most \in Int
    <3>1. k \in 0..(NumBoards + 2) /\ t \in 0..(NumBoards + 2) /\ t + 1 \in 0..(NumBoards + 2)
      BY <1>6
    <3> QED
      BY <3>1, Olds
  <2>6. \A x, y \in Int : x * y \in Int
    OBVIOUS
  <2>7. Bound' \in {Old[k] + (4 + MaxErrorLines) * k, Old[t] + (4 + MaxErrorLines) * (t - 1),
                    Old[t + 1] + (4 + MaxErrorLines) * t, (3 + MaxErrorLines) * NumBoards,
                    (6 + MaxErrorLines) * NumBoards, Most}
    BY <2>3, <2>4 DEF Bound
  <2> QED
    BY <1>6, <2>1, <2>5, <2>6, <2>7
<1>8. Len(toAgente) + Total(f) <= Bound
  BY <1>1 DEF Count
<1>9. Len(toAgente') + Total(g) <= Bound'
  BY <1>4, <1>5, <1>6, <1>7, <1>8
<1> QED
  BY <1>2, <1>9 DEF Count

\* While each board owes c packets at most.
LEMMA SomeEach ==
  ASSUME NEW f \in [Board -> Nat], NEW c \in Nat, \A b \in Board : f[b] <= c
  PROVE  Total(f) \in Nat /\ Total(f) <= c * NumBoards
<1>1. \A b \in Board : f[b] <= IF b \in Board THEN c ELSE 0
  OBVIOUS
<1>2. Total(f) \in Nat /\ Total(f) <= c * Cardinality(Board)
  BY <1>1, TotalOfSome
<1> QED
  BY <1>2, Boards

\* What the places of the workers are, by way of Spawned and Settled.
LEMMA WorkersAt ==
  ASSUME Types, NEW b \in Board
  PROVE  /\ workers[b] = <<>> => Stage(b) = "none"
         /\ workers[b] # <<>> => Stage(b) \in Places /\ \A p : At(b, 1, p) <=> Stage(b) = p
         /\ workers[b] # <<>> => workers[b][1].test \in 1..NumTests
<1>1. workers[b] \in Seq(Worker)
  BY DEF Types, TypeOK
<1>2. ASSUME workers[b] # <<>>
      PROVE  /\ Stage(b) \in Places /\ \A p : At(b, 1, p) <=> Stage(b) = p
             /\ workers[b][1].test \in 1..NumTests
  <2>1. 1 \in DOMAIN workers[b]
    BY <1>1, <1>2, HeadTailProperties, LenProperties
  <2>2. workers[b][1] \in Worker
    BY <1>1, <2>1, ElementOfSeq
  <2> QED
    BY <1>2, <2>1, <2>2 DEF Worker, Places, Stage, At
<1> QED
  BY <1>2 DEF Stage

LEMMA SpawnedUp ==
  ASSUME Types, NEW b \in Board, Spawned(b)
  PROVE  Orders(b) = {} /\ Stage(b) \notin {"reset", "spawn"}
<1>1. Orders(b) = {}
  BY NothingOrdered DEF Spawned
<1>2. CASE workers[b] = <<>>
  BY <1>1, <1>2, WorkersAt
<1>3. CASE workers[b] # <<>>
  <2>1. \A p : At(b, 1, p) <=> Stage(b) = p
    BY <1>3, WorkersAt
  <2>2. At(b, 1, "reset") \/ At(b, 1, "spawn") => 1 \in DOMAIN workers[b]
    BY DEF At
  <2> QED
    BY <1>1, <2>1, <2>2 DEF Spawned
<1> QED
  BY <1>2, <1>3

LEMMA SettledDown ==
  ASSUME Types, NEW b \in Board, Settled(b)
  PROVE  /\ Orders(b) = {}
         /\ Stage(b) \in {"none", "gone"} \/ (Stage(b) = "readout" /\ ~Released(b))
<1>1. Orders(b) = {}
  BY NothingOrdered DEF Settled
<1>2. CASE workers[b] = <<>>
  BY <1>1, <1>2, WorkersAt
<1>3. CASE workers[b] # <<>>
  <2>1. (\A p : At(b, 1, p) <=> Stage(b) = p) /\ Stage(b) \in Places
    BY <1>3, WorkersAt
  <2>2. At(b, 1, Stage(b)) => 1 \in DOMAIN workers[b]
    BY DEF At
  <2>3. 1 \in DOMAIN workers[b]
    BY <2>1, <2>2
  <2>4. At(b, 1, "gone") \/ (At(b, 1, "readout") /\ ~Released(b))
    BY <2>3 DEF Settled
  <2> QED
    BY <1>1, <2>1, <2>4
<1> QED
  BY <1>2, <1>3

\* A board that must be settled before the next test is free for it.
LEMMA FreeAgain ==
  ASSUME Types, NEW b \in Board, IsIn(b, Due(b)), Settled(b), phase = "idle",
         kind \in {"batch", "iv"}
  PROVE  /\ Orders(b) = {} /\ Stage(b) \in {"none", "gone"}
         /\ workers[b] # <<>> => workers[b][1].test <= test
<1>1. /\ Orders(b) = {}
      /\ Stage(b) \in {"none", "gone"} \/ (Stage(b) = "readout" /\ ~Released(b))
  BY SettledDown
<1>2. Due(b) \in {"free", "closing", "done"}
  BY DEF Due
<1>3. test \in Nat /\ (workers[b] # <<>> => workers[b][1].test \in Nat)
  <2>1. \A t \in 1..NumTests : t \in Nat
    OBVIOUS
  <2> QED
    BY <2>1, WorkersAt, Boards DEF Types, TypeOK
<1>4. CASE Due(b) = "free"
  BY <1>1, <1>3, <1>4 DEF IsIn, Free, Vacant
<1>5. CASE Due(b) = "closing"
  <2>1. Up(b, "open") /\ tb[b].close
    BY <1>1, <1>5 DEF IsIn, Closing
  <2>2. Released(b)
    BY <2>1 DEF Released
  <2> QED
    BY <1>1, <1>3, <2>1, <2>2 DEF Up, Mine
<1>6. CASE Due(b) = "done"
  <2>1. Up(b, "start") /\ running[b] = {}
    BY <1>6 DEF IsIn, Done
  <2>2. Released(b)
    BY <2>1 DEF Released, Alive
  <2> QED
    BY <1>1, <1>3, <2>1, <2>2 DEF Up, Mine
<1> QED
  BY <1>2, <1>4, <1>5, <1>6

LEMMA PrepareTestKeeps ==
  ASSUME InTime, Inv, PrepareTest
  PROVE  Inv'
<1>1. /\ Types /\ Machines /\ Phases /\ Course /\ Trusted /\ Count
      /\ Types' /\ masterVars' = masterVars /\ toMaster' = toMaster /\ toAgente' = toAgente
      /\ phase = "idle" /\ phase' = "prepare" /\ test' = test + 1 /\ turn' = 1
      /\ kind' \in Kinds /\ active' \in Actives(kind')
      /\ \A b \in Board : Settled(b)
  BY PrepareTyped DEF Inv, PrepareTest, InTime
<1>2. Machines' /\ \A b : Stage(b)' = Stage(b) /\ WorkerOwes(b)' = WorkerOwes(b)
  BY <1>1, SameMaster
<1>3. \A b : Orders(b)' = Orders(b) /\ CommandOwes(b)' = CommandOwes(b)
  BY <1>1, SameOrders
<1>4. \A b \in Board : /\ Orders(b) = {} /\ Stage(b) \in {"none", "gone"}
                       /\ workers[b] # <<>> => workers[b][1].test <= test
  BY <1>1, FreeAgain DEF Course, Phases
<1>5. \A b \in Board : Free(b)'
  <2> TAKE b \in Board
  <2>1. /\ workers'[b] = workers[b] /\ test \in Nat
        /\ workers[b] # <<>> => workers[b][1].test \in Nat
    <3>1. \A t \in 1..NumTests : t \in Nat
      OBVIOUS
    <3> QED
      BY SMTT(30), <1>1, <3>1, WorkersAt, Boards DEF Types, TypeOK, masterVars
  <2>2. workers'[b] # <<>> => workers'[b][1].test < test'
    BY <1>1, <1>4, <2>1
  <2> QED
    BY <1>2, <1>3, <1>4, <2>2 DEF Free, Vacant
<1>6. /\ kind' \in {"batch", "iv"} /\ (kind' = "batch" => active' = Board)
      /\ (kind' = "iv" => active' \in Actives("iv"))
  BY <1>1, TestboardsAssumption DEF InTime, TestKinds, Actives
<1>7. Phases'
  <2>1. \A i \in DOMAIN toMaster : FALSE
    BY <1>1, <1>4, NoCommands DEF Types
  <2> QED
    BY <1>1, <1>6, <2>1 DEF Phases, Separate
<1>8. Course'
  <2>1. \A b \in Board : Due(b)' = "free"
    <3>1. \A b \in Board : ~(b < 1)
      BY Boards
    <3> QED
      BY <1>1, <1>6, <3>1 DEF Due
  <2> QED
    BY <1>5, <2>1 DEF Course, IsIn
<1>9. Trusted'
  BY <1>1 DEF Trusted
<1>10. Count'
  <2>1. Bound = Most
    BY <1>1 DEF Bound
  <2>2. Opened' = {}
    <3>1. \A b \in Board : ~(b < 1)
      BY Boards
    <3> QED
      BY <1>1, <3>1 DEF Opened
  <2>3. Bound' = Most
    <3>1. Cardinality(Opened') = 0
      BY <2>2, FS_EmptySet
    <3>2. Bound' = Old[0] + (4 + MaxErrorLines) * 0
      BY <1>1, <3>1 DEF Bound
    <3> QED
      BY <3>2, Olds, Boards
  <2>4. /\ Bound <= Bound' /\ Len(toAgente') <= Len(toAgente)
        /\ \A b \in Board : CommandOwes(b)' <= CommandOwes(b)
    <3>1. \A b \in Board : CommandOwes(b) \in Nat
      BY <1>1, OwesNumbers
    <3>2. Len(toAgente) \in Nat
      BY <1>1, AnswersKnown DEF Types
    <3> QED
      BY <1>1, <1>3, <2>1, <2>3, <3>1, <3>2, Olds
  <2> QED
    BY <1>1, <2>4, CountKept
<1> QED
  BY <1>1, <1>2, <1>7, <1>8, <1>9, <1>10 DEF Inv

\* One more command was sent, to board b, which was free, and the packets were
\* cleared: k boards had got such a command before.
LEMMA OneMore ==
  ASSUME Types, Types', masterVars' = masterVars, Count,
         NEW b \in Board, Free(b), toAgente' \in ClearPackets(toAgente),
         NEW c \in Nat, c = 4 + MaxErrorLines, CommandOwes(b)' = c,
         \A a \in Board \ {b} : CommandOwes(a)' = CommandOwes(a),
         NEW E \in SUBSET Board, b \notin E,
         \A a \in Board \ E : WorkerOwes(a) + CommandOwes(a) = 0,
         \A a \in E : WorkerOwes(a) + CommandOwes(a) <= c,
         NEW k \in 0..NumBoards, k = Cardinality(E), NEW o \in 0..(NumBoards + 1),
         Bound = Old[o] + c * k, Bound' = Old[o + 1] + c * (k + 1)
  PROVE  Count'
<1>1. PICK f \in [Board -> Nat] : f = Owed /\ \A a \in Board : f[a] = WorkerOwes(a) + CommandOwes(a)
  BY OwedNumbers
<1>2. PICK g \in [Board -> Nat] :
        g = Owed' /\ \A a \in Board : g[a] = WorkerOwes(a)' + CommandOwes(a)'
  BY OwedNumbers
<1>3. \A a : WorkerOwes(a)' = WorkerOwes(a)
  BY SameMaster
<1>4. \A a \in Board \ {b} : g[a] = f[a]
  BY <1>1, <1>2, <1>3
<1>5. f[b] = 0 /\ g[b] = c
  <2>1. AnswersLeft(b) = 0 /\ LinesLeft(b) = 0
    BY DEF Free, Vacant, AnswersLeft, LinesLeft
  <2>2. CommandOwes(b) = 0
    BY DEF Free, CommandOwes
  <2>3. WorkerOwes(b) = 0
    BY <2>1 DEF WorkerOwes
  <2> QED
    BY <1>1, <1>2, <1>3, <2>2, <2>3
<1>6. Total(f) \in Nat /\ Total(g) \in Nat /\ Total(g) = Total(f) + c
  BY <1>4, <1>5, TotalStep
<1>7. \A a \in Board : f[a] <= IF a \in E THEN c ELSE 0
  BY <1>1
<1>8. Total(f) <= c * k
  BY <1>7, TotalOfSome
<1>9. Old[o] \in Nat /\ Old[o + 1] \in Nat /\ Old[o] \div 2 <= Old[o + 1]
  <2>1. o \in 0..(NumBoards + 2) /\ o + 1 \in 0..(NumBoards + 2)
    BY Boards
  <2> QED
    BY <2>1, Olds
<1>10. PICK l \in Nat : l = Len(toAgente)
  BY FewerPackets
<1>11. PICK m \in Nat : m = Len(toAgente') /\ m <= l \div 2
  BY <1>10, FewerPackets
<1>12. PICK x \in Nat : x = Old[o]
  BY <1>9
<1>13. PICK y \in Nat : y = Old[o + 1] /\ x \div 2 <= y
  BY <1>9, <1>12
<1>14. PICK t \in Nat : t = Total(f) /\ t <= c * k /\ l + t <= x + c * k
  BY <1>1, <1>6, <1>8, <1>10, <1>12 DEF Count
<1>15. PICK r \in Nat : r = c * k - t
  BY <1>14
<1>16. l <= x + r
  BY <1>14, <1>15
<1>17. l \div 2 <= (x \div 2) + r
  BY <1>16
<1>18. m + (t + c) <= y + c * (k + 1)
  <2>1. l \div 2 \in Nat /\ x \div 2 \in Nat /\ k \in Nat
    <3>1. l \div 2 \in Nat
      BY HalfOf
    <3>2. x \div 2 \in Nat
      BY HalfOf
    <3>3. k \in Nat
      BY Boards
    <3> QED
      BY <3>1, <3>2, <3>3
  <2>2. m <= y + r
    <3>1. PICK u \in Nat : u = l \div 2
      BY <2>1
    <3>2. PICK v \in Nat : v = x \div 2
      BY <2>1
    <3>3. m <= u /\ v <= y /\ u <= v + r
      BY <1>11, <1>13, <1>17, <3>1, <3>2
    <3> QED
      BY <3>3
  <2>3. PICK z \in Nat : z = c * k /\ c * (k + 1) = z + c
    BY <2>1
  <2>4. r + t = z
    BY <1>14, <1>15, <2>3
  <2> QED
    BY <2>2, <2>3, <2>4
<1> QED
  BY <1>2, <1>6, <1>11, <1>13, <1>14, <1>18 DEF Count

LEMMA PrepareTestboardKeeps ==
  ASSUME Inv, PrepareTestboard
  PROVE  Inv'
<1>1. /\ Types /\ Machines /\ Phases /\ Course /\ Trusted /\ Count
      /\ Types' /\ masterVars' = masterVars
      /\ phase = "prepare" /\ phase' = "prepare" /\ turn <= NumBoards /\ turn' = turn + 1
      /\ UNCHANGED <<test, kind, active, busy, retries, pending>>
      /\ test > 0
  BY PrepareTyped DEF Inv, PrepareTestboard, MoreBoards, Types
<1>2. Machines' /\ \A b : WorkerOwes(b)' = WorkerOwes(b)
  BY <1>1, SameMaster
<1>3. turn \in Board /\ NumBoards \in Nat /\ \A b \in Board : b \in Nat
  BY <1>1, Boards DEF Types, TypeOK
<1>4. Trusted'
  BY <1>1 DEF Trusted
<1>5. CASE kind = "iv" /\ turn \in active
  <2>1. toAgente' \in ClearPackets(toAgente) /\ Send("open", turn)
    BY <1>5 DEF PrepareTestboard
  <2>2. PICK b \in Board : b = turn
    BY <1>3
  <2>3. PICK c \in Order : c = Command("open", b) /\ c.cmd = "open" /\ c.board = b /\ c.test = test
    BY <1>1, SendTyped DEF Types
  <2>4. toMaster' = Append(toMaster, c)
    BY <2>1, <2>2, <2>3 DEF Send
  <2>5. Free(b)
    <3>1. Due(b) = "free"
      BY <1>1, <1>3, <1>5, <2>2 DEF Due
    <3> QED
      BY <1>1, <3>1 DEF Course, IsIn
  <2>6. /\ Separate(toMaster') /\ Orders(b)' = {"open"}
        /\ \A a \in Board \ {b} : Orders(a)' = Orders(a)
        /\ \A i \in DOMAIN toMaster' :
             toMaster'[i] = c \/ (i \in DOMAIN toMaster /\ toMaster'[i] = toMaster[i])
    <3>1. toMaster \in Seq(Order) /\ Separate(toMaster) /\ OnWay(toMaster, c.board) = {}
      BY <1>1, <2>3, <2>5 DEF Types, TypeOK, Order, Phases, Free, Orders
    <3>2. /\ Separate(toMaster')
          /\ OnWay(toMaster', c.board) = {c.cmd}
          /\ \A a : a # c.board => OnWay(toMaster', a) = OnWay(toMaster, a)
          /\ \A i \in DOMAIN toMaster' :
               toMaster'[i] = c \/ (i \in DOMAIN toMaster /\ toMaster'[i] = toMaster[i])
      BY <2>4, <3>1, CommandSent
    <3> QED
      BY <2>3, <3>2 DEF Orders
  <2>7. Phases'
    BY <1>1, <2>3, <2>6 DEF Phases
  <2>8. Course'
    <3>1. ASSUME NEW a \in Board \ {b} PROVE IsIn(a, Due(a))'
      <4>1. Due(a)' = Due(a)
        <5>1. a < turn' <=> a < turn
          BY <1>1, <1>3, <2>2
        <5> QED
          BY <1>1, <1>5, <5>1 DEF Due
      <4>2. IsIn(a, Due(a))'
        BY <1>1, <2>6, <4>1, StaysIn DEF Course, masterVars
      <4> QED
        BY <4>2
    <3>2. Due(b)' = "opening"
      <4>1. b < turn'
        BY <1>1, <1>3, <2>2
      <4> QED
        BY <1>1, <1>5, <2>2, <4>1 DEF Due
    <3>3. Begun(b, "open")'
      <4>1. Vacant(b)'
        BY <1>1, <2>5, SameMaster DEF Free
      <4> QED
        BY <2>6, <4>1 DEF Begun
    <3>4. IsIn(b, Due(b))'
      BY <3>2, <3>3 DEF IsIn
    <3>5. \A a \in Board : IsIn(a, Due(a))'
      BY <3>1, <3>4
    <3> QED
      BY <3>5 DEF Course
  <2>9. Count'
    <3>1. PICK E \in SUBSET Board : E = Opened
      BY DEF Opened
    <3>0. PICK d \in Nat : d = 4 + MaxErrorLines
      BY Boards
    <3>2. \A a \in E : WorkerOwes(a) + CommandOwes(a) <= d
      <4> TAKE a \in E
      <4>1. Due(a) = "opening"
        BY <1>1, <1>3, <3>1 DEF Due, Opened
      <4>2. Begun(a, "open")
        BY <1>1, <4>1 DEF Course, IsIn
      <4>3. WorkerOwes(a) = 0 \/ CommandOwes(a) = 0
        BY <4>2 DEF Begun, Vacant, WorkerOwes, AnswersLeft, LinesLeft, CommandOwes
      <4>4. /\ WorkerOwes(a) \in Nat /\ WorkerOwes(a) <= 4 + MaxErrorLines
            /\ CommandOwes(a) \in {0, 3, 4 + MaxErrorLines} /\ MaxErrorLines \in Nat
        BY <1>1, OwesNumbers, Boards
      <4> QED
        BY <3>0, <4>3, <4>4
    <3>3. \A a \in Board \ E : WorkerOwes(a) + CommandOwes(a) = 0
      <4> TAKE a \in Board \ E
      <4>1. Due(a) = "free"
        BY <1>1, <1>3, <1>5, <3>1 DEF Due, Opened
      <4>2. Free(a)
        BY <1>1, <4>1 DEF Course, IsIn
      <4> QED
        BY <4>2 DEF Free, Vacant, WorkerOwes, AnswersLeft, LinesLeft, CommandOwes
    <3>4. b \notin E /\ Opened' = E \union {b}
      <4>1. b \notin E
        BY <1>3, <2>2, <3>1 DEF Opened
      <4>2. \A a \in Board : a < turn' <=> a < turn \/ a = b
        BY <1>1, <1>3, <2>2
      <4>3. Opened' = E \union {b}
        BY <1>1, <1>5, <2>2, <3>1, <4>2 DEF Opened
      <4> QED
        BY <4>1, <4>3
    <3>5. PICK k \in 0..NumBoards : k = Cardinality(E)
      <4>1. IsFiniteSet(E) /\ Cardinality(E) \in Nat /\ Cardinality(E) <= NumBoards
        <5>1. IsFiniteSet(E) /\ Cardinality(E) <= Cardinality(Board)
          BY Boards, FS_Subset
        <5> QED
          BY <5>1, Boards, FS_CardinalityType
      <4> QED
        BY <4>1, <1>3
    <3>6. Cardinality(Opened') = k + 1
      <4>1. IsFiniteSet(E)
        BY Boards, FS_Subset
      <4> QED
        BY <3>4, <3>5, <4>1, FS_AddElement
    <3>7. Bound = Old[k] + d * k /\ Bound' = Old[k + 1] + d * (k + 1)
      BY <1>1, <3>0, <3>1, <3>5, <3>6 DEF Bound
    <3>8. CommandOwes(b)' = d /\ \A a \in Board \ {b} : CommandOwes(a)' = CommandOwes(a)
      BY <2>6, <3>0 DEF CommandOwes
    <3>9. k \in 0..(NumBoards + 1)
      BY <1>3
    <3> QED
      BY <1>1, <3>0, <2>1, <2>5, <3>2, <3>3, <3>4, <3>5, <3>7, <3>8, <3>9, OneMore
  <2> QED
    BY <1>1, <1>2, <1>4, <2>7, <2>8, <2>9 DEF Inv
<1>6. CASE ~(kind = "iv" /\ turn \in active)
  <2>1. UNCHANGED <<toMaster, toAgente>>
    BY <1>6 DEF PrepareTestboard
  <2>2. \A b : Orders(b)' = Orders(b) /\ CommandOwes(b)' = CommandOwes(b)
    BY <2>1, SameOrders
  <2>3. \A b \in Board : b # turn => (b < turn' <=> b < turn)
    BY <1>1, <1>3
  <2>4. \A b \in Board : Due(b)' = Due(b)
    BY <1>1, <1>6, <2>3 DEF Due
  <2>5. Course'
    BY <1>1, <2>2, <2>4, MovesOn DEF Course
  <2>6. Phases'
    BY <1>1, <2>1 DEF Phases
  <2>7. Count'
    <3>1. Opened' = Opened
      BY <1>1, <1>6, <2>3 DEF Opened
    <3>2. Bound' = Bound
      BY <1>1, <3>1 DEF Bound
    <3>3. Bound <= Bound' /\ Len(toAgente') <= Len(toAgente)
      BY <1>1, <2>1, <3>2, BoundNumber, AnswersKnown DEF Types
    <3>4. \A b \in Board : CommandOwes(b)' <= CommandOwes(b)
      BY <1>1, <2>2, OwesNumbers
    <3> QED
      BY <1>1, <3>3, <3>4, CountKept
  <2> QED
    BY <1>1, <1>2, <1>4, <2>5, <2>6, <2>7 DEF Inv
<1> QED
  BY <1>5, <1>6

LEMMA PreparedKeeps ==
  ASSUME FewErrors, Inv, Prepared
  PROVE  Inv'
<1>1. /\ Types /\ Machines /\ Phases /\ Course /\ Trusted /\ Count
      /\ Types' /\ masterVars' = masterVars
      /\ phase = "prepare" /\ phase' = "ready" /\ ~(turn <= NumBoards) /\ pending' = FALSE
      /\ UNCHANGED <<turn, test, kind, active, busy, retries, toMaster, toAgente>>
      /\ \A b \in Board : Spawned(b)
  BY PrepareTyped DEF Inv, Prepared, MoreBoards
<1>2. Machines'
  BY <1>1, SameMaster
<1>3. Phases'
  BY <1>1 DEF Phases
<1>4. Trusted'
  BY <1>1 DEF Trusted
<1>5. \A b : Orders(b)' = Orders(b) /\ CommandOwes(b)' = CommandOwes(b)
  BY <1>1, SameOrders
<1>6. Course'
  <2>1. ASSUME NEW b \in Board PROVE IsIn(b, Due(b)')
    <3>1. b < turn
      BY <1>1, Boards DEF Types, TypeOK
    <3>2. CASE kind = "iv" /\ b \in active
      <4>1. Due(b) = "opening" /\ Due(b)' = "open"
        BY <1>1, <3>1, <3>2 DEF Due
      <4>2. Orders(b) = {} /\ Up(b, "open")
        BY <1>1, <4>1, SpawnedUp DEF Course, IsIn, Begun, Up
      <4> QED
        BY <4>1, <4>2 DEF IsIn
    <3>3. CASE ~(kind = "iv" /\ b \in active)
      <4>1. Due(b) = "free" /\ Due(b)' = "free"
        BY <1>1, <3>3 DEF Due, Types
      <4> QED
        BY <1>1, <4>1 DEF Course
    <3> QED
      BY <3>2, <3>3
  <2> QED
    BY <1>1, <1>5, <2>1, MovesOn
<1>7. Count'
  <2>1. PICK c \in Nat : c = 4 + MaxErrorLines /\ Most = (c + 2) * NumBoards + 1
    BY Boards DEF Most
  <2>2. PICK n \in Nat : n = NumBoards /\ n > 0
    BY Boards
  <2>3. Cardinality(Opened) \in {0, 1, n}
    <3>1. Opened = IF kind = "iv" THEN active ELSE {}
      <4>1. \A b \in Board : b < turn
        BY <1>1, Boards DEF Types, TypeOK
      <4>2. active \subseteq Board
        BY <1>1 DEF Types, TypeOK
      <4> QED
        BY <4>1, <4>2 DEF Opened
    <3>2. Opened = {} \/ Opened = Board \/ \E b \in Board : Opened = {b}
      BY <1>1, <3>1 DEF Phases, Actives
    <3> QED
      BY <2>2, <3>2, Boards, FS_EmptySet, FS_Singleton
  <2>4. PICK k \in {0, 1, n} : k = Cardinality(Opened)
    BY <2>3
  <2>7. Bound = Old[k] + c * k /\ Bound' = Most
    BY <1>1, <2>1, <2>4 DEF Bound
  <2>8. Old[k] \in Nat /\ Old[k] + c * k <= Most
    <3>1. Most \in Nat /\ Old[0] = Most /\ Old[1] = Most \div 2 /\ Old[n] \in 0..3
      <4>1. 0 \in 0..(NumBoards + 1)
        BY <2>2
      <4> QED
        BY <2>2, <4>1, OldRuns, Olds, FewLeft
    <3>2. PICK z \in Nat : z = c * n
      BY <2>2
    <3>3. Most = z + 2 * n + 1
      <4>1. (c + 2) * n = c * n + 2 * n
        BY <2>1
      <4> QED
        BY <2>1, <2>2, <3>2, <4>1
    <3>4. CASE k = 0
      BY <2>1, <3>1, <3>4
    <3>5. CASE k = n
      BY <2>2, <3>1, <3>2, <3>3, <3>5
    <3>6. CASE k = 1 /\ k # n
      <4>1. n >= 2
        BY <2>2, <3>6
      <4>2. 2 * c <= c * n
        <5>1. PICK j \in Nat : n = 2 + j
          <6>1. n - 2 \in Nat /\ n = 2 + (n - 2)
            BY <4>1
          <6> QED
            BY <6>1
        <5>2. c * (2 + j) = 2 * c + c * j /\ c * j \in Nat
          BY <2>1
        <5> QED
          BY <5>1, <5>2
      <4>3. (Most \div 2) + c <= Most
        BY <2>1, <2>2, <3>2, <3>3, <4>2
      <4>4. c * 1 = c /\ Most \div 2 \in Nat
        BY <3>1, HalfOf
      <4> QED
        BY <3>1, <3>6, <4>3, <4>4
    <3> QED
      BY <3>4, <3>5, <3>6
  <2>5. Bound <= Bound' /\ Len(toAgente') <= Len(toAgente)
    BY <1>1, <2>7, <2>8, AnswersKnown DEF Types
  <2>6. \A b \in Board : CommandOwes(b)' <= CommandOwes(b)
    BY <1>1, <1>5, OwesNumbers
  <2> QED
    BY <1>1, <2>5, <2>6, CountKept
<1> QED
  BY <1>1, <1>2, <1>3, <1>4, <1>6, <1>7 DEF Inv

LEMMA ExecuteTestKeeps ==
  ASSUME Inv, ExecuteTest
  PROVE  Inv'
<1>1. /\ Types /\ Machines /\ Phases /\ Course /\ Trusted /\ Count
      /\ Types' /\ masterVars' = masterVars
      /\ phase = "ready" /\ toAgente' \in ClearPackets(toAgente)
      /\ pending' = (kind # "iv") /\ phase' = (IF kind = "iv" THEN "ask" ELSE "start")
      /\ turn' = 1
      /\ UNCHANGED <<test, kind, active, busy, retries, toMaster>>
  BY ExecuteTyped DEF Inv, ExecuteTest
<1>2. Machines'
  BY <1>1, SameMaster
<1>3. Phases'
  BY <1>1 DEF Phases
<1>4. \A b : Orders(b)' = Orders(b) /\ CommandOwes(b)' = CommandOwes(b)
  BY <1>1, SameOrders
<1>5. \A b \in Board : ~(b < 1)
  BY Boards
<1>6. Course'
  <2>1. ASSUME NEW b \in Board PROVE Due(b)' = Due(b)
    BY <1>1, <1>5 DEF Due, Phases
  <2> QED
    BY <1>1, <1>4, <2>1, MovesOn DEF Course
<1>7. /\ Len(toAgente) \in Nat /\ Len(toAgente') \in Nat
      /\ Len(toAgente') <= Len(toAgente) \div 2
      /\ \E p \in 0..Len(toAgente') : Honest(p)'
  BY <1>1, FewerPackets
<1>8. Bound = Most /\ Most \in Nat /\ Most \div 2 \in Nat
  BY <1>1, Olds, HalfOf DEF Bound
<1>9. CASE kind = "iv"
  <2>1. Trusted'
    BY <1>1, <1>9 DEF Trusted
  <2>2. Bound' = Most
    BY <1>1, <1>9 DEF Bound
  <2>3. Bound <= Bound' /\ Len(toAgente') <= Len(toAgente)
    BY <1>7, <1>8, <2>2
  <2>4. \A b \in Board : CommandOwes(b)' <= CommandOwes(b)
    BY <1>1, <1>4, OwesNumbers
  <2>5. Count'
    BY <1>1, <2>3, <2>4, CountKept
  <2> QED
    BY <1>1, <1>2, <1>3, <1>6, <2>1, <2>5 DEF Inv
<1>10. CASE kind = "batch"
  <2>1. \A b \in Board : Due(b) = "free" /\ Due(b)' = "free"
    BY <1>1, <1>5, <1>10 DEF Due, Types
  <2>2. \A b \in Board : WorkerOwes(b) = 0 /\ CommandOwes(b) = 0
    <3>1. \A b \in Board : Free(b)
      BY <1>1, <2>1 DEF Course, IsIn
    <3> QED
      BY <3>1 DEF Free, Vacant, WorkerOwes, AnswersLeft, LinesLeft, CommandOwes
  <2>3. PICK f \in [Board -> Nat] :
          f = Owed' /\ \A b \in Board : f[b] = WorkerOwes(b)' + CommandOwes(b)'
    BY <1>1, OwedNumbers
  <2>4. \A b \in Board : f[b] = 0
    BY <1>1, <1>4, <2>2, <2>3, SameMaster
  <2>5. Total(f) = 0
    <3>1. \A b \in Board : f[b] <= 0
      BY <2>4
    <3>2. Total(f) \in Nat /\ Total(f) <= 0 * NumBoards
      BY <3>1, SomeEach
    <3> QED
      BY <3>2, Boards
  <2>6. PICK g \in [Board -> Nat] :
          g = Owed /\ \A b \in Board : g[b] = WorkerOwes(b) + CommandOwes(b)
    BY <1>1, OwedNumbers
  <2>7. Total(g) \in Nat
    <3>1. \A b \in Board : g[b] <= g[b] + 0
      OBVIOUS
    <3> QED
      BY <3>1, TotalGrows
  <2>8. Len(toAgente) + Total(g) <= Most
    BY <1>1, <1>8, <2>6 DEF Count
  <2>9. Len(toAgente') <= Most \div 2
    <3>1. PICK l \in Nat : l = Len(toAgente)
      BY <1>7
    <3>2. PICK w \in Nat : w = Most
      BY <1>8
    <3>3. PICK t \in Nat : t = Total(g)
      BY <2>7
    <3>4. l <= w
      BY <2>8, <3>1, <3>2, <3>3
    <3>5. l \div 2 <= w \div 2
      BY <3>4
    <3>6. l \div 2 \in Nat /\ w \div 2 \in Nat
      BY HalfOf
    <3> QED
      BY <1>7, <3>1, <3>2, <3>5, <3>6
  <2>10. Old[1] = Most \div 2
    <3>1. 0 \in 0..(NumBoards + 1)
      BY Boards
    <3> QED
      BY <3>1, OldRuns
  <2>11. Count'
    <3>1. Bound' = Old[1] + (4 + MaxErrorLines) * (1 - 1)
      BY <1>1, <1>10 DEF Bound
    <3>2. Bound' = Most \div 2
      BY <1>8, <2>10, <3>1, Boards
    <3>3. Len(toAgente') + Total(f) <= Most \div 2
      BY <1>7, <2>5, <2>9
    <3> QED
      BY <2>3, <3>2, <3>3 DEF Count
  <2>12. Trusted'
    <3>1. PICK p \in 0..Len(toAgente') : Honest(p)'
      BY <1>7
    <3>2. p \in 0..(Most \div 2)
      BY <1>7, <1>8, <2>9, <3>1
    <3>3. Old[Clears]' = Most \div 2
      BY <1>1, <1>10, <2>10 DEF Clears
    <3>4. phase' = "start" /\ pending'
      BY <1>1, <1>10
    <3> QED
      BY <2>1, <3>1, <3>2, <3>3, <3>4 DEF Trusted
  <2> QED
    BY <1>1, <1>2, <1>3, <1>6, <2>11, <2>12 DEF Inv
<1> QED
  BY <1>1, <1>9, <1>10 DEF Phases

LEMMA ExecuteTestboardKeeps ==
  ASSUME Inv, ExecuteTestboard
  PROVE  Inv'
<1>1. /\ Types /\ Machines /\ Phases /\ Course /\ Trusted /\ Count
      /\ Types' /\ masterVars' = masterVars
      /\ phase = "start" /\ turn <= NumBoards /\ phase' = "slept"
      /\ busy' = [busy EXCEPT ![turn] = TRUE]
      /\ Send("start", turn) /\ toAgente' \in ClearPackets(toAgente)
      /\ UNCHANGED <<turn, test, kind, active, retries, pending>>
      /\ test > 0
  BY ExecuteTyped DEF Inv, ExecuteTestboard, MoreBoards, Types
<1>2. Machines' /\ kind = "batch"
  BY <1>1, SameMaster DEF Phases
<1>3. turn \in Board /\ NumBoards \in Nat /\ \A b \in Board : b \in Nat
  BY <1>1, Boards DEF Types, TypeOK
<1>4. PICK b \in Board : b = turn
  BY <1>3
<1>5. PICK c \in Order : c = Command("start", b) /\ c.cmd = "start" /\ c.board = b /\ c.test = test
  BY <1>1, SendTyped DEF Types
<1>6. toMaster' = Append(toMaster, c)
  BY <1>1, <1>4, <1>5 DEF Send
<1>7. \A a \in Board : Due(a) = IF a < b THEN "started" ELSE "free"
  BY <1>1, <1>2, <1>4 DEF Due, Types
<1>8. Due(b)' = "starting" /\ \A a \in Board \ {b} : Due(a)' = Due(a)
  BY <1>1, <1>2, <1>3, <1>4, <1>7 DEF Due, Types
<1>9. Free(b)
  <2>1. ~(b < b)
    BY <1>3
  <2> QED
    BY <1>1, <1>7, <2>1 DEF Course, IsIn
<1>10. /\ Separate(toMaster') /\ Orders(b)' = {"start"}
       /\ \A a \in Board \ {b} : Orders(a)' = Orders(a)
       /\ \A i \in DOMAIN toMaster' :
            toMaster'[i] = c \/ (i \in DOMAIN toMaster /\ toMaster'[i] = toMaster[i])
  <2>1. toMaster \in Seq(Order) /\ Separate(toMaster) /\ OnWay(toMaster, c.board) = {}
    BY <1>1, <1>5, <1>9 DEF Types, TypeOK, Order, Phases, Free, Orders
  <2>2. /\ Separate(toMaster')
        /\ OnWay(toMaster', c.board) = {c.cmd}
        /\ \A a : a # c.board => OnWay(toMaster', a) = OnWay(toMaster, a)
        /\ \A i \in DOMAIN toMaster' :
             toMaster'[i] = c \/ (i \in DOMAIN toMaster /\ toMaster'[i] = toMaster[i])
    BY <1>6, <2>1, CommandSent
  <2> QED
    BY <1>5, <2>2 DEF Orders
<1>11. Phases'
  BY <1>1, <1>2, <1>5, <1>10 DEF Phases
<1>12. Course'
  <2>1. ASSUME NEW a \in Board \ {b} PROVE IsIn(a, Due(a))'
    <3>1. IsIn(a, Due(a))'
      BY <1>1, <1>8, <1>10, StaysIn DEF Course, masterVars
    <3> QED
      BY <3>1
  <2>2. Begun(b, "start")'
    <3>1. Vacant(b)'
      BY <1>1, <1>9, SameMaster DEF Free
    <3> QED
      BY <1>10, <3>1 DEF Begun
  <2>3. IsIn(b, Due(b))'
    BY <1>8, <2>2 DEF IsIn
  <2>4. \A a \in Board : IsIn(a, Due(a))'
    BY <2>1, <2>3
  <2> QED
    BY <2>4 DEF Course
<1>13. Trusted'
  <2>1. PICK p \in 0..Old[b] : Honest(p)
    BY <1>1, <1>2, <1>4 DEF Trusted, Clears
  <2>2. Old[b] \in Nat /\ Old[b + 1] \in Nat /\ Old[b] \div 2 <= Old[b + 1]
    <3>1. b \in 0..(NumBoards + 2) /\ b + 1 \in 0..(NumBoards + 2) /\ b \in 0..(NumBoards + 1)
      BY Boards
    <3> QED
      BY <3>1, Olds
  <2>3. PICK q \in 0..Old[b + 1] : q = p \div 2
    <3>1. PICK x \in Nat : x = Old[b] /\ p \in 0..x
      BY <2>1, <2>2
    <3>2. p \div 2 \in Nat /\ p \div 2 <= x \div 2
      <4>1. p \in Nat /\ p <= x
        BY <3>1
      <4>2. p \div 2 \in Nat
        BY <4>1, HalfOf
      <4> QED
        BY <4>1, <4>2, <3>1
    <3> QED
      BY <2>2, <3>1, <3>2
  <2>4. Honest(q)'
    <3>1. p \in Nat
      BY <2>1, <2>2
    <3> QED
      BY <1>1, <2>1, <2>3, <3>1, FewerPackets
  <2>5. Clears' = b + 1 /\ Old[Clears]' = Old[b + 1]
    BY <1>1, <1>4 DEF Clears
  <2>6. \A a \in Board : ~busy'[a] => Due(a)' \in {"free", "starting"} \/ Done(a)'
    <3> SUFFICES ASSUME NEW a \in Board, ~busy'[a]
                 PROVE  Due(a)' \in {"free", "starting"} \/ Done(a)'
      OBVIOUS
    <3>1. CASE a = b
      BY <1>8, <3>1
    <3>2. CASE a # b
      <4>1. ~busy[a]
        BY <1>1, <1>4, <3>2 DEF Types, TypeOK
      <4>2. Due(a) \in {"free", "starting"} \/ Done(a)
        BY <1>1, <1>2, <4>1 DEF Trusted
      <4> QED
        BY <1>1, <1>8, <3>2, <4>2, SameMaster
    <3> QED
      BY <3>1, <3>2
  <2>7. busy'[turn'] /\ pending'
    BY <1>1, <1>2, <1>3 DEF Types, TypeOK, Trusted
  <2> QED
    BY <1>1, <2>3, <2>4, <2>5, <2>6, <2>7 DEF Trusted
<1>14. Count'
  <2>1. PICK E \in SUBSET Board : E = 1..(b - 1)
    BY Boards
  <2>0. PICK d \in Nat : d = 4 + MaxErrorLines
    BY Boards
  <2>2. \A a \in E : WorkerOwes(a) + CommandOwes(a) <= d
    <3> TAKE a \in E
    <3>1. Due(a) = "started"
      <4>1. a < b
        BY <1>3, <2>1
      <4> QED
        BY <1>7, <4>1
    <3>2. CommandOwes(a) = 0
      BY <1>1, <3>1 DEF Course, IsIn, CommandOwes
    <3> QED
      BY <1>1, <2>0, <3>2, OwesNumbers
  <2>3. \A a \in Board \ E : WorkerOwes(a) + CommandOwes(a) = 0
    <3> TAKE a \in Board \ E
    <3>1. ~(a < b)
      BY <1>3, <2>1, Boards
    <3>2. Free(a)
      BY <1>1, <1>7, <3>1 DEF Course, IsIn
    <3> QED
      BY <3>2 DEF Free, Vacant, WorkerOwes, AnswersLeft, LinesLeft, CommandOwes
  <2>4. b \notin E
    BY <1>3, <2>1
  <2>5. PICK k \in 0..NumBoards : k = b - 1 /\ k = Cardinality(E)
    <3>1. b - 1 \in 0..NumBoards /\ b - 1 \in Nat
      BY Boards
    <3>2. Cardinality(1..(b - 1)) = b - 1
      BY <3>1, FS_Interval
    <3> QED
      BY <2>1, <3>1, <3>2
  <2>6. /\ b \in 0..(NumBoards + 1)
        /\ Bound = Old[b] + d * k /\ Bound' = Old[b + 1] + d * (k + 1)
    <3>1. b \in 0..(NumBoards + 1) /\ k + 1 = b
      BY <2>5, Boards
    <3>2. Bound = Old[b] + d * (b - 1) /\ Bound' = Old[b + 1] + d * b
      BY <1>1, <1>4, <2>0 DEF Bound
    <3> QED
      BY <2>5, <3>1, <3>2
  <2>7. CommandOwes(b)' = d /\ \A a \in Board \ {b} : CommandOwes(a)' = CommandOwes(a)
    BY <1>10, <2>0 DEF CommandOwes
  <2> QED
    BY <1>1, <2>0, <1>9, <2>2, <2>3, <2>4, <2>5, <2>6, <2>7, OneMore
<1> QED
  BY <1>1, <1>2, <1>11, <1>12, <1>13, <1>14 DEF Inv

LEMMA NextTestboardKeeps ==
  ASSUME Inv, NextTestboard
  PROVE  Inv'
<1>1. /\ Types /\ Machines /\ Phases /\ Course /\ Trusted /\ Count
      /\ Types' /\ masterVars' = masterVars
      /\ phase = "slept" /\ phase' = "start" /\ turn' = turn + 1 /\ Spawned(turn)
      /\ UNCHANGED <<test, kind, active, busy, retries, pending, toMaster, toAgente>>
      /\ turn <= NumBoards
  BY ExecuteTyped DEF Inv, NextTestboard, Types
<1>2. Machines' /\ kind = "batch"
  BY <1>1, SameMaster DEF Phases
<1>3. turn \in Board /\ NumBoards \in Nat /\ \A b \in Board : b \in Nat
  BY <1>1, Boards DEF Types, TypeOK
<1>4. Phases'
  BY <1>1 DEF Phases
<1>5. \A b : Orders(b)' = Orders(b) /\ CommandOwes(b)' = CommandOwes(b)
  BY <1>1, SameOrders
<1>6. PICK t \in Board : t = turn
  BY <1>3
<1>7. /\ Due(t) = "starting" /\ Due(t)' = "started"
      /\ \A b \in Board \ {t} : Due(b)' = Due(b) /\ Due(b) # "starting"
  <2>1. ~(t < t) /\ t < turn' /\ \A b \in Board \ {t} : b < turn' <=> b < t
    BY <1>1, <1>3, <1>6
  <2> QED
    BY <1>1, <1>2, <1>6, <2>1 DEF Due, Types
<1>8. Course'
  <2>1. IsIn(t, Due(t)')
    <3>1. Begun(t, "start")
      BY <1>1, <1>7 DEF Course, IsIn
    <3>2. Orders(t) = {} /\ Stage(t) \notin {"reset", "spawn"}
      BY <1>1, <1>6, SpawnedUp
    <3>3. Up(t, "start")
      BY <3>1, <3>2 DEF Begun, Up
    <3> QED
      BY <1>7, <3>2, <3>3 DEF IsIn
  <2>2. ASSUME NEW b \in Board PROVE IsIn(b, Due(b)')
    <3>1. CASE b = t
      BY <2>1, <3>1
    <3>2. CASE b # t
      BY <1>1, <1>7, <3>2 DEF Course
    <3> QED
      BY <3>1, <3>2
  <2> QED
    BY <1>1, <1>5, <2>2, MovesOn
<1>9. Trusted'
  <2>1. /\ \E p \in 0..Old[turn + 1] : Honest(p)
        /\ \A b \in Board : ~busy[b] => Due(b) \in {"free", "starting"} \/ Done(b)
        /\ busy[t] /\ pending
    BY <1>1, <1>2, <1>6 DEF Trusted, Clears
  <2>2. \A p : Honest(p) => Honest(p)'
    <3>1. \A b : Done(b)' <=> Done(b)
      BY <1>1, SameMaster
    <3> QED
      BY <1>1, <3>1 DEF Honest
  <2>3. Old[Clears]' = Old[turn + 1]
    BY <1>1 DEF Clears
  <2>4. \A b \in Board : ~busy'[b] => Due(b)' \in {"free", "starting"} \/ Done(b)'
    <3> SUFFICES ASSUME NEW b \in Board, ~busy[b]
                 PROVE  Due(b)' \in {"free", "starting"} \/ Done(b)'
      BY <1>1
    <3>1. b # t
      BY <2>1
    <3> QED
      BY <1>1, <1>7, <2>1, <3>1, SameMaster
  <2>5. \E p \in 0..Old[Clears]' : Honest(p)'
    BY <2>1, <2>2, <2>3
  <2> QED
    BY <1>1, <2>1, <2>4, <2>5 DEF Trusted
<1>10. Count'
  <2>1. /\ Bound = Old[turn + 1] + (4 + MaxErrorLines) * turn
        /\ Bound' = Old[turn + 1] + (4 + MaxErrorLines) * (turn' - 1)
    BY <1>1 DEF Bound
  <2>2. turn' - 1 = turn
    BY <1>1, <1>3
  <2>3. Bound <= Bound' /\ Len(toAgente') <= Len(toAgente)
    BY <1>1, <2>1, <2>2, BoundNumber, AnswersKnown DEF Types
  <2>4. \A b \in Board : CommandOwes(b)' <= CommandOwes(b)
    BY <1>1, <1>5, OwesNumbers
  <2> QED
    BY <1>1, <2>3, <2>4, CountKept
<1> QED
  BY <1>1, <1>2, <1>4, <1>8, <1>9, <1>10 DEF Inv

\* Once every board was started and has got its command, it owes two packets
\* and one for each line with an error.
LEMMA StartedOwes ==
  ASSUME Types, NEW b \in Board, Orders(b) = {}, Up(b, "start")
  PROVE  WorkerOwes(b) + CommandOwes(b) <= 2 + MaxErrorLines /\ CommandOwes(b) = 0
<1>1. CommandOwes(b) = 0
  BY DEF CommandOwes
<1>2. AnswersLeft(b) \in {0, 2}
  BY DEF AnswersLeft, Up, Mine
<1>3. workers[b] # <<>> /\ workers[b] \in Seq(Worker) /\ MaxErrorLines \in Nat
  BY Boards DEF Up, Mine, Job, Types, TypeOK
<1>4. workers[b][1].errors \in 0..MaxErrorLines
  BY <1>3, ErrorsCounted
<1>5. LinesLeft(b) \in 0..MaxErrorLines
  BY <1>3, <1>4 DEF LinesLeft
<1> QED
  BY <1>1, <1>2, <1>3, <1>5 DEF WorkerOwes

LEMMA StartedKeeps ==
  ASSUME FewErrors, Inv, Started
  PROVE  Inv'
<1>1. /\ Types /\ Machines /\ Phases /\ Course /\ Trusted /\ Count
      /\ Types' /\ masterVars' = masterVars
      /\ phase = "start" /\ ~(turn <= NumBoards) /\ phase' = "ask"
      /\ toAgente' \in ClearPackets(toAgente)
      /\ UNCHANGED <<turn, test, kind, active, busy, retries, pending, toMaster>>
  BY ExecuteTyped DEF Inv, Started, MoreBoards
<1>2. Machines' /\ kind = "batch"
  BY <1>1, SameMaster DEF Phases
<1>3. turn = NumBoards + 1 /\ NumBoards \in Nat /\ NumBoards > 0 /\ \A b \in Board : b < turn
  BY <1>1, Boards DEF Types, TypeOK
<1>4. Phases'
  BY <1>1, <1>2 DEF Phases
<1>5. \A b : Orders(b)' = Orders(b) /\ CommandOwes(b)' = CommandOwes(b)
  BY <1>1, SameOrders
<1>6. \A b \in Board : Due(b) = "started" /\ Due(b)' = "started"
  BY <1>1, <1>2, <1>3 DEF Due, Types
<1>7. Course'
  BY <1>1, <1>5, <1>6, MovesOn DEF Course
<1>8. Old[NumBoards + 1] \in 0..1 /\ Old[NumBoards + 2] = 0
  BY FewLeft
<1>9. /\ Len(toAgente) \in Nat /\ Len(toAgente') \in Nat
      /\ Len(toAgente') <= Len(toAgente) \div 2
      /\ \A p \in Nat : Honest(p) => Honest(p \div 2)'
  BY <1>1, FewerPackets
<1>10. Trusted'
  <2>1. /\ \E p \in 0..Old[turn] : Honest(p)
        /\ \A b \in Board : ~busy[b] => Due(b) \in {"free", "starting"} \/ Done(b)
        /\ pending
    BY <1>1, <1>2 DEF Trusted, Clears
  <2>2. PICK p \in 0..1 : Honest(p)
    <3>1. Old[turn] \in 0..1
      BY <1>3, <1>8
    <3>2. \A p \in 0..Old[turn] : p \in 0..1
      BY <3>1
    <3> QED
      BY <2>1, <3>2
  <2>3. p \div 2 = 0 /\ p \in Nat
    BY <2>2
  <2>4. Honest(0)'
    BY <1>9, <2>2, <2>3
  <2>5. Old[Clears]' = 0
    BY <1>1, <1>8 DEF Clears
  <2>6. \A b \in Board : ~busy'[b] => Done(b)'
    BY <1>1, <1>6, <2>1, SameMaster
  <2>7. \E q \in 0..Old[Clears]' : Honest(q)'
    BY <2>4, <2>5
  <2> QED
    BY <1>1, <2>1, <2>6, <2>7 DEF Trusted
<1>11. Count'
  <2>1. PICK f \in [Board -> Nat] : f = Owed /\ \A b \in Board : f[b] = WorkerOwes(b) + CommandOwes(b)
    BY <1>1, OwedNumbers
  <2>2. Owed' = f
    <3>1. \A b \in Board : WorkerOwes(b)' = WorkerOwes(b) /\ CommandOwes(b)' = CommandOwes(b)
      BY <1>1, <1>5, SameMaster
    <3> QED
      BY <2>1, <3>1 DEF Owed
  <2>0. PICK c \in Nat : c = 2 + MaxErrorLines
    BY Boards
  <2>3. \A b \in Board : f[b] <= c
    <3> TAKE b \in Board
    <3>1. Orders(b) = {} /\ Up(b, "start")
      BY <1>1, <1>6 DEF Course, IsIn
    <3> QED
      BY <1>1, <2>0, <2>1, <3>1, StartedOwes
  <2>4. PICK t \in Nat : t = Total(f) /\ t <= c * NumBoards
    BY <2>3, SomeEach
  <2>5. PICK l \in Nat : l = Len(toAgente)
    BY <1>9
  <2>10. PICK n \in Nat : n = NumBoards /\ n > 0
    BY <1>3
  <2>11. PICK z \in Nat : z = c * n
    BY <2>10
  <2>12. (4 + MaxErrorLines) * NumBoards = z + 2 * n /\ (3 + MaxErrorLines) * NumBoards = z + n
    <3>1. (c + 2) * n = c * n + 2 * n /\ (c + 1) * n = c * n + n
      BY <2>0, <2>10
    <3>2. c + 2 = 4 + MaxErrorLines /\ c + 1 = 3 + MaxErrorLines
      BY <2>0, Boards
    <3> QED
      BY <2>10, <2>11, <3>1, <3>2
  <2>6. l + t <= 1 + z + 2 * n
    <3>1. Bound = Old[NumBoards + 1] + (4 + MaxErrorLines) * NumBoards
      BY <1>1, <1>3 DEF Bound
    <3>2. l + t <= Old[NumBoards + 1] + (z + 2 * n)
      BY <1>1, <2>1, <2>4, <2>5, <2>12, <3>1 DEF Count
    <3> QED
      BY <1>8, <2>10, <3>2
  <2>7. (l \div 2) + t <= z + n
    BY <2>4, <2>6, <2>10, <2>11
  <2>8. Bound' = z + n
    BY <1>1, <1>2, <2>12 DEF Bound
  <2>9. Len(toAgente') + t <= z + n
    <3>1. l \div 2 \in Nat
      BY HalfOf
    <3> QED
      BY <1>9, <2>5, <2>7, <2>10, <3>1
  <2> QED
    BY <2>2, <2>4, <2>8, <2>9 DEF Count
<1> QED
  BY <1>1, <1>2, <1>4, <1>7, <1>10, <1>11 DEF Inv

LEMMA AskStatusKeeps ==
  ASSUME Inv, AskStatus
  PROVE  Inv'
<1>1. /\ Types /\ Machines /\ Phases /\ Course /\ Trusted /\ Count
      /\ Types' /\ masterVars' = masterVars
      /\ phase = "ask" /\ pending /\ phase' = "read"
      /\ UNCHANGED <<turn, test, kind, active, busy, retries, pending, toAgente>>
      /\ test > 0 /\ TypeOK /\ \A b \in Board : Spawned(b)
  BY ReadTyped DEF Inv, AskStatus, Types
<1>2. Machines' /\ kind = "batch"
  BY <1>1, SameMaster DEF Phases
<1>3. \A b \in Board : Orders(b) = {}
  BY <1>1, SpawnedUp
<1>4. toMaster = <<>>
  BY <1>1, <1>3, NoCommands
<1>5. PICK order \in [1..Cardinality(BusyBoards) -> BusyBoards] :
        /\ \A i, j \in DOMAIN order : i < j => order[i] < order[j]
        /\ toMaster' = toMaster \o [i \in DOMAIN order |-> Command("stat", order[i])]
  BY DEF AskStatus
<1>6. PICK q \in Seq(Order) : q = [i \in DOMAIN order |-> Command("stat", order[i])]
  BY <1>1, <1>5, Questions
<1>7. toMaster' = q
  BY <1>4, <1>5, <1>6, ConcatEmptySeq
<1>8. /\ DOMAIN q = DOMAIN order
      /\ \A i \in DOMAIN q : order[i] \in Board /\ q[i] = Command("stat", order[i])
      /\ \A i, j \in DOMAIN q : order[i] = order[j] => i = j
  BY <1>1, <1>5, <1>6, Questions
<1>9. \A i \in DOMAIN q : q[i].cmd = "stat" /\ q[i].board = order[i] /\ q[i].test = test
  BY <1>8 DEF Command
<1>10. Phases'
  BY <1>1, <1>2, <1>7, <1>8, <1>9 DEF Phases, Separate
<1>11. \A b \in Board : Orders(b)' \subseteq {"stat"}
  BY <1>7, <1>9 DEF Orders, OnWay
<1>12. \A b \in Board : Due(b) = "started" /\ Due(b)' = "asked"
  BY <1>1, <1>2 DEF Due
<1>13. \A b \in Board : Up(b, "start")
  BY <1>1, <1>12 DEF Course, IsIn
<1>14. Course'
  <2>1. \A b \in Board : Up(b, "start")'
    BY <1>1, <1>13, SameMaster
  <2> QED
    BY <1>11, <1>12, <2>1 DEF Course, IsIn
<1>15. Trusted'
  <2>1. /\ \E p \in 0..Old[NumBoards + 2] : Honest(p)
        /\ \A b \in Board : ~busy[b] => Done(b)
    BY <1>1, <1>2, <1>12 DEF Trusted, Clears
  <2>2. \A p : Honest(p) => Honest(p)'
    <3>1. \A b : Done(b)' <=> Done(b)
      BY <1>1, SameMaster
    <3> QED
      BY <1>1, <3>1 DEF Honest
  <2>3. Old[Clears]' = Old[NumBoards + 2]
    BY <1>1 DEF Clears
  <2>4. \A b \in Board : ~busy'[b] => Done(b)'
    BY <1>1, <2>1, SameMaster
  <2>5. \E p \in 0..Old[Clears]' : Honest(p)'
    BY <2>1, <2>2, <2>3
  <2> QED
    BY <1>1, <2>4, <2>5 DEF Trusted
<1>16. Count'
  <2>1. PICK f \in [Board -> Nat] : f = Owed /\ \A b \in Board : f[b] = WorkerOwes(b) + CommandOwes(b)
    BY <1>1, OwedNumbers
  <2>2. PICK g \in [Board -> Nat] :
          g = Owed' /\ \A b \in Board : g[b] = WorkerOwes(b)' + CommandOwes(b)'
    BY <1>1, OwedNumbers
  <2>3. ASSUME NEW b \in Board PROVE g[b] <= f[b] + 3
    <3>1. CommandOwes(b)' \in {0, 3}
      <4>1. Orders(b)' \intersect {"open", "start"} = {}
        BY <1>11
      <4> QED
        BY <4>1 DEF CommandOwes
    <3>2. WorkerOwes(b)' = WorkerOwes(b)
      BY <1>1, SameMaster
    <3>4. WorkerOwes(b) \in Nat /\ CommandOwes(b) \in Nat
      BY <1>1, OwesNumbers
    <3>3. f[b] = WorkerOwes(b) + CommandOwes(b) /\ g[b] = WorkerOwes(b)' + CommandOwes(b)'
      BY <2>1, <2>2
    <3> QED
      BY <3>1, <3>2, <3>3, <3>4
  <2>4. Total(f) \in Nat /\ Total(g) \in Nat /\ Total(g) <= Total(f) + 3 * NumBoards
    BY <2>3, TotalGrows
  <2>5. Bound = (3 + MaxErrorLines) * NumBoards /\ Bound' = (6 + MaxErrorLines) * NumBoards
    BY <1>1, <1>2 DEF Bound
  <2>6. PICK z \in Nat :
          /\ z = (3 + MaxErrorLines) * NumBoards
          /\ (6 + MaxErrorLines) * NumBoards = z + 3 * NumBoards
    <3>1. PICK c \in Nat : c = 3 + MaxErrorLines
      BY Boards
    <3>2. PICK n \in Nat : n = NumBoards
      BY Boards
    <3>3. c * n \in Nat /\ (c + 3) * n = c * n + 3 * n
      BY <3>1, <3>2
    <3>4. c + 3 = 6 + MaxErrorLines
      BY <3>1, Boards
    <3> QED
      BY <3>1, <3>2, <3>3, <3>4
  <2>8. Len(toAgente) + Total(f) <= z
    BY <1>1, <2>1, <2>5, <2>6 DEF Count
  <2>7. Len(toAgente') + Total(g) <= (6 + MaxErrorLines) * NumBoards
    <3>1. Len(toAgente) \in Nat /\ toAgente' = toAgente /\ NumBoards \in Nat
      BY <1>1, AnswersKnown, Boards
    <3> QED
      BY <2>4, <2>6, <2>8, <3>1
  <2> QED
    BY <2>2, <2>5, <2>7 DEF Count
<1> QED
  BY <1>1, <1>2, <1>10, <1>14, <1>15, <1>16 DEF Inv

LEMMA ReadAnswerKeeps ==
  ASSUME FewErrors, Inv, ReadAnswer
  PROVE  Inv'
<1>1. /\ Types /\ Machines /\ Phases /\ Course /\ Trusted /\ Count
      /\ Types' /\ masterVars' = masterVars /\ TypeOK
      /\ phase = "read" /\ pending /\ phase' = "read" /\ toAgente # <<>>
      /\ UNCHANGED <<phase, turn, test, kind, active>>
  BY ReadTyped DEF Inv, ReadAnswer, Types
<1>2. Machines' /\ kind = "batch"
  BY <1>1, SameMaster DEF Phases
<1>3. PICK m \in Packet : m = Head(toAgente)
  BY <1>1, AnswersTyped
<1>4. /\ toAgente' = Tail(toAgente) /\ toMaster' = toMaster
      /\ \/ m.says \in Skipped /\ busy' = busy /\ pending' = pending
         \/ /\ m.says \notin Skipped /\ busy' = [busy EXCEPT ![m.board] = FALSE]
            /\ pending' = \E b \in Board : busy'[b]
  <2>1. CASE /\ m.says \in {"busy", "error"}
             /\ toAgente' = Tail(toAgente)
             /\ UNCHANGED <<busy, retries, pending, toMaster>>
    BY <2>1 DEF Skipped
  <2>2. CASE /\ m.says \in {"finished", "unknown"}
             /\ busy' = [busy EXCEPT ![m.board] = FALSE]
             /\ toAgente' = Tail(toAgente)
             /\ pending' = \E b \in Board : busy'[b]
             /\ UNCHANGED toMaster
    BY <2>2 DEF Skipped
  <2>3. CASE /\ m.says = "failed"
             /\ BoardFailed(m.board, Tail(toAgente))
             /\ pending' = \E b \in Board : busy'[b]
    <3>1. /\ busy' = [busy EXCEPT ![m.board] = FALSE]
          /\ toAgente' = Tail(toAgente) /\ toMaster' = toMaster
      BY <1>2, <2>3 DEF BoardFailed
    <3> QED
      BY <2>3, <3>1 DEF Skipped
  <2> QED
    BY <1>3, <2>1, <2>2, <2>3 DEF ReadAnswer
<1>5. Phases'
  BY <1>1, <1>2, <1>4 DEF Phases
<1>6. \A b : Orders(b)' = Orders(b) /\ CommandOwes(b)' = CommandOwes(b)
  BY <1>4, SameOrders
<1>7. \A b \in Board : Due(b) = "asked" /\ Due(b)' = "asked"
  BY <1>1, <1>2 DEF Due
<1>8. Course'
  BY <1>1, <1>6, <1>7, MovesOn DEF Course
<1>9. /\ toAgente \in Seq(Packet) /\ toAgente' \in Seq(Packet)
      /\ Len(toAgente) \in Nat /\ Len(toAgente') = Len(toAgente) - 1
      /\ DOMAIN toAgente = 1..Len(toAgente) /\ DOMAIN toAgente' = 1..Len(toAgente')
      /\ \A i \in 1..Len(toAgente') : toAgente'[i] = toAgente[i + 1]
      /\ 1 \in DOMAIN toAgente /\ toAgente[1] = m
  <2>1. /\ toAgente \in Seq(Packet) /\ Len(toAgente) \in Nat
        /\ DOMAIN toAgente = 1..Len(toAgente)
    BY <1>1, AnswersKnown
  <2> QED
    BY <1>1, <1>3, <1>4, <2>1, HeadTailProperties, LenProperties
<1>10. /\ Honest(0)
       /\ \A b \in Board : ~busy[b] => Done(b)
  <2>1. Old[Clears] = 0
    BY <1>1, FewLeft DEF Clears
  <2>2. /\ \E p \in 0..0 : Honest(p)
        /\ \A b \in Board : ~busy[b] => Due(b) \in {"free", "starting"} \/ Done(b)
    BY <1>1, <1>2, <2>1 DEF Trusted
  <2>3. \A p \in 0..0 : p = 0
    OBVIOUS
  <2> QED
    BY <1>7, <2>2, <2>3
<1>11. \A b : Done(b)' <=> Done(b)
  BY <1>1, SameMaster
<1>12. Trusted'
  <2>1. Honest(0)'
    <3>1. ASSUME NEW i \in DOMAIN toAgente', NEW b \in Board,
                 toAgente'[i].board = b, toAgente'[i].says \notin Skipped
          PROVE  Done(b)'
      <4>1. i + 1 \in DOMAIN toAgente /\ toAgente'[i] = toAgente[i + 1] /\ i + 1 > 0
        BY <1>9
      <4> QED
        BY <1>10, <1>11, <3>1, <4>1 DEF Honest
    <3> QED
      BY <3>1 DEF Honest
  <2>2. PICK a \in Board : a = m.board
    BY DEF Packet
  <2>3. m.says \notin Skipped => Done(a)
    <3>1. 1 > 0
      OBVIOUS
    <3> QED
      BY <1>9, <1>10, <2>2, <3>1 DEF Honest
  <2>4. ASSUME NEW b \in Board, ~busy'[b] PROVE Done(b)'
    <3>1. CASE busy[b]
      <4>1. m.says \notin Skipped /\ b = a
        BY <1>1, <1>4, <2>2, <2>4, <3>1 DEF TypeOK
      <4> QED
        BY <1>11, <2>3, <4>1
    <3>2. CASE ~busy[b]
      BY <1>10, <1>11, <3>2
    <3> QED
      BY <3>1, <3>2
  <2>5. ~pending' => \A b \in Board : ~busy'[b]
    BY <1>1, <1>4
  <2>6. Old[Clears]' = 0
    BY <1>1, FewLeft DEF Clears
  <2>7. \E p \in 0..Old[Clears]' : Honest(p)'
    BY <2>1, <2>6
  <2> QED
    BY <1>1, <2>4, <2>5, <2>7 DEF Trusted
<1>13. Count'
  <2>1. Bound' = Bound
    BY <1>1 DEF Bound
  <2>2. Bound <= Bound' /\ Len(toAgente') <= Len(toAgente)
    BY <1>1, <1>9, <2>1, BoundNumber
  <2>3. \A b \in Board : CommandOwes(b)' <= CommandOwes(b)
    BY <1>1, <1>6, OwesNumbers
  <2> QED
    BY <1>1, <2>2, <2>3, CountKept
<1> QED
  BY <1>1, <1>2, <1>5, <1>8, <1>12, <1>13 DEF Inv

LEMMA AnswersReadKeeps ==
  ASSUME Inv, AnswersRead
  PROVE  Inv'
<1>1. /\ Types /\ Machines /\ Phases /\ Course /\ Trusted /\ Count
      /\ Types' /\ masterVars' = masterVars /\ TypeOK
      /\ phase = "read" /\ pending /\ phase' = "ask" /\ toAgente = <<>> /\ toMaster = <<>>
      /\ UNCHANGED <<turn, test, kind, active, busy, retries, pending, toMaster, toAgente>>
  BY ReadTyped DEF Inv, AnswersRead, Types
<1>2. Machines' /\ kind = "batch"
  BY <1>1, SameMaster DEF Phases
<1>3. Phases'
  BY <1>1, <1>2 DEF Phases
<1>4. \A b : Orders(b)' = Orders(b) /\ CommandOwes(b)' = CommandOwes(b)
  BY <1>1, SameOrders
<1>5. \A b : Orders(b) = {}
  BY <1>1 DEF Orders, OnWay
<1>6. \A b \in Board : Due(b) = "asked" /\ Due(b)' = "started"
  BY <1>1, <1>2 DEF Due
<1>7. \A b \in Board : Up(b, "start")
  BY <1>1, <1>6 DEF Course, IsIn
<1>8. Course'
  <2>1. \A b \in Board : IsIn(b, Due(b)')
    BY <1>5, <1>6, <1>7 DEF IsIn
  <2> QED
    BY <1>1, <1>4, <2>1, MovesOn
<1>9. Trusted'
  <2>1. /\ \E p \in 0..Old[NumBoards + 2] : Honest(p)
        /\ \A b \in Board : ~busy[b] => Done(b)
    BY <1>1, <1>2, <1>6 DEF Trusted, Clears
  <2>2. \A p : Honest(p) => Honest(p)'
    <3>1. \A b : Done(b)' <=> Done(b)
      BY <1>1, SameMaster
    <3> QED
      BY <1>1, <3>1 DEF Honest
  <2>3. Old[Clears]' = Old[NumBoards + 2]
    BY <1>1 DEF Clears
  <2>4. \A b \in Board : ~busy'[b] => Done(b)'
    BY <1>1, <2>1, SameMaster
  <2>5. \E p \in 0..Old[Clears]' : Honest(p)'
    BY <2>1, <2>2, <2>3
  <2> QED
    BY <1>1, <2>4, <2>5 DEF Trusted
<1>10. Count'
  <2>1. PICK f \in [Board -> Nat] :
          f = Owed' /\ \A b \in Board : f[b] = WorkerOwes(b)' + CommandOwes(b)'
    BY <1>1, OwedNumbers
  <2>0. PICK c \in Nat : c = 2 + MaxErrorLines
    BY Boards
  <2>2. \A b \in Board : f[b] <= c
    <3> TAKE b \in Board
    <3>1. WorkerOwes(b) + CommandOwes(b) <= c
      BY <1>1, <1>5, <1>7, <2>0, StartedOwes
    <3> QED
      BY <1>1, <1>4, <2>1, <3>1, SameMaster
  <2>3. Total(f) \in Nat /\ Total(f) <= c * NumBoards /\ NumBoards \in Nat
    BY <2>2, SomeEach, Boards
  <2>4. Len(toAgente') = 0
    BY <1>1
  <2>5. Bound' = (3 + MaxErrorLines) * NumBoards
    BY <1>1, <1>2 DEF Bound
  <2>6. (3 + MaxErrorLines) * NumBoards = c * NumBoards + NumBoards /\ c * NumBoards \in Nat
    <3>1. (c + 1) * NumBoards = c * NumBoards + NumBoards
      BY <2>3
    <3>2. c + 1 = 3 + MaxErrorLines
      BY <2>0, Boards
    <3> QED
      BY <2>3, <3>1, <3>2
  <2>7. 0 + Total(f) <= Bound'
    BY <2>3, <2>5, <2>6
  <2> QED
    BY <2>1, <2>4, <2>7 DEF Count
<1> QED
  BY <1>1, <1>2, <1>3, <1>8, <1>9, <1>10 DEF Inv

LEMMA CleanupTestKeeps ==
  ASSUME Inv, CleanupTest
  PROVE  Inv'
<1>1. /\ Types /\ Machines /\ Phases /\ Course /\ Trusted /\ Count
      /\ Types' /\ masterVars' = masterVars /\ TypeOK /\ test > 0
      /\ phase \in {"ask", "read"} /\ ~pending /\ phase' = "clean" /\ turn' = 1
      /\ toAgente' = (IF phase = "read" /\ toAgente # <<>> THEN Tail(toAgente) ELSE toAgente)
      /\ UNCHANGED <<test, kind, active, busy, retries, pending, toMaster>>
  BY CleanupTyped DEF Inv, CleanupTest, Types
<1>2. Machines'
  BY <1>1, SameMaster
<1>3. Phases'
  BY <1>1 DEF Phases
<1>4. Trusted'
  BY <1>1 DEF Trusted
<1>5. \A b : Orders(b)' = Orders(b) /\ CommandOwes(b)' = CommandOwes(b)
  BY <1>1, SameOrders
<1>6. Course'
  <2>1. CASE kind = "iv"
    <3>1. \A b \in Board : b >= 1
      BY Boards
    <3>2. \A b \in Board : Due(b)' = Due(b)
      BY <1>1, <2>1, <3>1 DEF Due, Phases
    <3> QED
      BY <1>1, <1>5, <3>2, MovesOn DEF Course
  <2>2. CASE kind = "batch"
    <3>1. ASSUME NEW b \in Board PROVE IsIn(b, Due(b)')
      <4>1. Due(b) \in {"started", "asked"} /\ Due(b)' = "done"
        BY <1>1, <2>2 DEF Due
      <4>2. Done(b)
        BY <1>1, <2>2, <4>1 DEF Trusted
      <4>3. Orders(b) \subseteq {"stat"}
        BY <1>1, <4>1 DEF Course, IsIn
      <4> QED
        BY <4>1, <4>2, <4>3 DEF IsIn
    <3> QED
      BY <1>1, <1>5, <3>1, MovesOn
  <2> QED
    BY <1>1, <2>1, <2>2 DEF Phases
<1>7. Count'
  <2>1. Bound' = Most
    BY <1>1 DEF Bound
  <2>2. Bound \in {(3 + MaxErrorLines) * NumBoards, (6 + MaxErrorLines) * NumBoards, Most}
    BY <1>1 DEF Bound
  <2>3. Len(toAgente') <= Len(toAgente)
    <3>1. toAgente \in Seq(Packet) /\ Len(toAgente) \in Nat
      BY <1>1, AnswersKnown
    <3>2. toAgente # <<>> => Len(Tail(toAgente)) = Len(toAgente) - 1
      BY <3>1, HeadTailProperties
    <3> QED
      BY <1>1, <3>1, <3>2
  <2>4. Bound <= Bound'
    <3>1. PICK c \in Nat : c = 3 + MaxErrorLines
      BY Boards
    <3>2. PICK n \in Nat : n = NumBoards
      BY Boards
    <3>3. c * n \in Nat /\ (c + 3) * n = c * n + 3 * n /\ c + 3 = 6 + MaxErrorLines
      BY <3>1, <3>2, Boards
    <3>4. Most = (c + 3) * n + 1
      BY <3>2, <3>3 DEF Most
    <3> QED
      BY <2>1, <2>2, <3>1, <3>2, <3>3, <3>4
  <2>5. \A b \in Board : CommandOwes(b)' <= CommandOwes(b)
    BY <1>1, <1>5, OwesNumbers
  <2> QED
    BY <1>1, <2>3, <2>4, <2>5, CountKept
<1> QED
  BY <1>1, <1>2, <1>3, <1>4, <1>6, <1>7 DEF Inv

LEMMA CleanupTestboardKeeps ==
  ASSUME Inv, CleanupTestboard
  PROVE  Inv'
<1>1. /\ Types /\ Machines /\ Phases /\ Course /\ Trusted /\ Count
      /\ Types' /\ masterVars' = masterVars
      /\ phase = "clean" /\ phase' = "clean" /\ turn <= NumBoards /\ turn' = turn + 1
      /\ UNCHANGED <<test, kind, active, busy, retries, pending, toAgente>>
      /\ test > 0
  BY CleanupTyped DEF Inv, CleanupTestboard, MoreBoards, Types
<1>2. Machines'
  BY <1>1, SameMaster
<1>3. turn \in Board /\ NumBoards \in Nat /\ \A b \in Board : b \in Nat
  BY <1>1, Boards DEF Types, TypeOK
<1>4. Trusted'
  BY <1>1 DEF Trusted
<1>5. ASSUME \A b \in Board : CommandOwes(b)' <= CommandOwes(b)
      PROVE  Count'
  <2>1. Bound' = Bound
    BY <1>1 DEF Bound
  <2>2. Bound <= Bound' /\ Len(toAgente') <= Len(toAgente)
    BY <1>1, <2>1, BoundNumber, AnswersKnown DEF Types
  <2> QED
    BY <1>1, <1>5, <2>2, CountKept
<1>6. \A b \in Board : b # turn => (b >= turn' <=> b >= turn)
  BY <1>1, <1>3
<1>7. CASE kind = "iv" /\ turn \in active
  <2>1. PICK b \in Board : b = turn
    BY <1>3
  <2>2. PICK c \in Order : c = Command("close", b) /\ c.cmd = "close" /\ c.board = b /\ c.test = test
    BY <1>1, SendTyped DEF Types
  <2>3. toMaster' = Append(toMaster, c)
    BY <1>7, <2>1, <2>2 DEF CleanupTestboard, CloseTestboard, Send
  <2>4. Due(b) = "open" /\ Due(b)' = "closing"
    <3>1. b >= turn /\ ~(b >= turn')
      BY <1>1, <1>3, <2>1
    <3> QED
      BY <1>1, <1>7, <2>1, <3>1 DEF Due
  <2>5. Orders(b) = {} /\ Up(b, "open")
    BY <1>1, <2>4 DEF Course, IsIn
  <2>6. /\ Separate(toMaster') /\ Orders(b)' = {"close"}
        /\ \A a \in Board \ {b} : Orders(a)' = Orders(a)
        /\ \A i \in DOMAIN toMaster' :
             toMaster'[i] = c \/ (i \in DOMAIN toMaster /\ toMaster'[i] = toMaster[i])
    <3>1. toMaster \in Seq(Order) /\ Separate(toMaster) /\ OnWay(toMaster, c.board) = {}
      BY <1>1, <2>2, <2>5 DEF Types, TypeOK, Order, Phases, Orders
    <3>2. /\ Separate(toMaster')
          /\ OnWay(toMaster', c.board) = {c.cmd}
          /\ \A a : a # c.board => OnWay(toMaster', a) = OnWay(toMaster, a)
          /\ \A i \in DOMAIN toMaster' :
               toMaster'[i] = c \/ (i \in DOMAIN toMaster /\ toMaster'[i] = toMaster[i])
      BY <2>3, <3>1, CommandSent
    <3> QED
      BY <2>2, <3>2 DEF Orders
  <2>7. Phases'
    BY <1>1, <2>2, <2>6 DEF Phases
  <2>8. Course'
    <3>1. ASSUME NEW a \in Board \ {b} PROVE IsIn(a, Due(a))'
      <4>1. Due(a)' = Due(a)
        BY <1>1, <1>6, <1>7, <2>1 DEF Due
      <4>2. IsIn(a, Due(a))'
        BY <1>1, <2>6, <4>1, StaysIn DEF Course, masterVars
      <4> QED
        BY <4>2
    <3>2. Up(b, "open")'
      BY <1>1, <2>5, SameMaster
    <3>3. IsIn(b, Due(b))'
      BY <2>4, <2>6, <3>2 DEF IsIn, Closing
    <3>4. \A a \in Board : IsIn(a, Due(a))'
      BY <3>1, <3>3
    <3> QED
      BY <3>4 DEF Course
  <2>9. \A a \in Board : CommandOwes(a)' <= CommandOwes(a)
    <3> TAKE a \in Board
    <3>1. CommandOwes(b)' = 0
      BY <2>6 DEF CommandOwes
    <3>2. a # b => CommandOwes(a)' = CommandOwes(a)
      BY <2>6 DEF CommandOwes
    <3>3. CommandOwes(a) \in Nat
      BY <1>1, OwesNumbers
    <3> QED
      BY <3>1, <3>2, <3>3
  <2> QED
    BY <1>1, <1>2, <1>4, <1>5, <2>7, <2>8, <2>9 DEF Inv
<1>8. CASE ~(kind = "iv" /\ turn \in active)
  <2>1. toMaster' = toMaster
    BY <1>8 DEF CleanupTestboard, CloseTestboard
  <2>2. \A b : Orders(b)' = Orders(b) /\ CommandOwes(b)' = CommandOwes(b)
    BY <2>1, SameOrders
  <2>3. \A b \in Board : Due(b)' = Due(b)
    BY <1>1, <1>6, <1>8 DEF Due
  <2>4. Course'
    BY <1>1, <2>2, <2>3, MovesOn DEF Course
  <2>5. Phases'
    BY <1>1, <2>1 DEF Phases
  <2>6. Count'
    BY <1>1, <1>5, <2>2, OwesNumbers
  <2> QED
    BY <1>1, <1>2, <1>4, <2>4, <2>5, <2>6 DEF Inv
<1> QED
  BY <1>7, <1>8

LEMMA CleanedUpKeeps ==
  ASSUME Inv, CleanedUp
  PROVE  Inv'
<1>1. /\ Types /\ Machines /\ Phases /\ Course /\ Trusted /\ Count
      /\ Types' /\ masterVars' = masterVars
      /\ phase = "clean" /\ phase' = "idle" /\ ~(turn <= NumBoards)
      /\ toAgente' \in ClearPackets(toAgente)
      /\ UNCHANGED <<turn, test, kind, active, busy, retries, pending, toMaster>>
      /\ test > 0
  BY CleanupTyped DEF Inv, CleanedUp, MoreBoards, Types
<1>2. Machines'
  BY <1>1, SameMaster
<1>3. Phases'
  BY <1>1 DEF Phases
<1>4. Trusted'
  BY <1>1 DEF Trusted
<1>5. \A b : Orders(b)' = Orders(b) /\ CommandOwes(b)' = CommandOwes(b)
  BY <1>1, SameOrders
<1>6. Course'
  <2>1. \A b \in Board : ~(b >= turn)
    BY <1>1, Boards DEF Types, TypeOK
  <2>2. test \in Nat
    BY <1>1, Boards DEF Types, TypeOK
  <2>3. test # 0
    BY <1>1, <2>2
  <2>4. \A b \in Board : Due(b)' = Due(b)
    BY <1>1, <2>1, <2>3 DEF Due
  <2> QED
    BY <1>1, <1>5, <2>4, MovesOn DEF Course
<1>7. Count'
  <2>1. Bound' = Most /\ Bound = Most /\ Most \in Nat
    BY <1>1, Olds DEF Bound
  <2>4. Len(toAgente) \div 2 \in Nat /\ Len(toAgente) \div 2 <= Len(toAgente)
    BY <1>1, FewerPackets, HalfOf
  <2>2. Bound <= Bound' /\ Len(toAgente') <= Len(toAgente)
    BY <1>1, <2>1, <2>4, FewerPackets
  <2>3. \A b \in Board : CommandOwes(b)' <= CommandOwes(b)
    BY <1>1, <1>5, OwesNumbers
  <2> QED
    BY <1>1, <2>2, <2>3, CountKept
<1> QED
  BY <1>1, <1>2, <1>3, <1>4, <1>6, <1>7 DEF Inv

LEMMA InitInv ==
  ASSUME InTime, Init
  PROVE  Inv
<1>1. Types
  BY InitTypes
<1>2. /\ phase = "idle" /\ test = 0 /\ kind \in {"batch", "iv"} /\ active = Board
      /\ toMaster = <<>> /\ toAgente = <<>>
      /\ \A b \in Board : workers[b] = <<>> /\ tb[b] = Fresh /\ running[b] = {}
  BY TestboardsAssumption DEF Init, InTime, TestKinds
<1>3. Len(<<>>) = 0 /\ \A i \in DOMAIN <<>> : FALSE
  OBVIOUS
<1>4. \A b \in Board : Stage(b) = "none" /\ \A j : ~Job(b, j)
  BY <1>2 DEF Stage, Job
<1>5. Machines
  <2> SUFFICES ASSUME NEW b \in Board PROVE Machine(b)
    BY DEF Machines
  <2>1. ~tb[b].busy
    BY <1>2 DEF Fresh
  <2> QED
    BY <1>2, <1>3, <1>4, <2>1 DEF Machine
<1>6. Phases
  BY <1>2, <1>3 DEF Phases, Separate, Actives
<1>7. \A b : Orders(b) = {}
  BY <1>2 DEF Orders, OnWay
<1>8. Course
  <2>1. \A b \in Board : Due(b) = "free" /\ Free(b)
    BY <1>2, <1>4, <1>7 DEF Due, Free, Vacant
  <2> QED
    BY <2>1 DEF Course, IsIn
<1>9. Trusted
  BY <1>2 DEF Trusted
<1>10. Count
  <2>1. \A b \in Board : WorkerOwes(b) = 0 /\ CommandOwes(b) = 0
    BY <1>4, <1>7 DEF WorkerOwes, AnswersLeft, LinesLeft, CommandOwes
  <2>2. PICK f \in [Board -> Nat] : f = [b \in Board |-> 0]
    OBVIOUS
  <2>3. Owed = f
    BY <2>1, <2>2 DEF Owed
  <2>4. Total(f) = 0
    <3>1. \A b \in Board : f[b] <= 0
      BY <2>2
    <3>2. Total(f) \in Nat /\ Total(f) <= 0 * NumBoards
      BY <3>1, SomeEach
    <3> QED
      BY <3>2, Boards
  <2>5. Bound = Most /\ Most \in Nat
    BY <1>2, Olds DEF Bound
  <2> QED
    BY <1>2, <1>3, <2>3, <2>4, <2>5 DEF Count
<1> QED
  BY <1>1, <1>5, <1>6, <1>8, <1>9, <1>10 DEF Inv

LEMMA NextInv ==
  ASSUME InTime, FewErrors, Inv, [Next]_vars
  PROVE  Inv'
<1>1. CASE UNCHANGED vars
  <2>1. /\ UNCHANGED agenteVars /\ masterVars' = masterVars
        /\ toMaster' = toMaster /\ toAgente' = toAgente
        /\ test' = test
    BY <1>1 DEF vars, agenteVars, masterVars
  <2>2. Types /\ Machines /\ Phases /\ Course /\ Trusted /\ Count /\ Types'
    BY <1>1, NextTypes DEF Inv
  <2>3. Machines' /\ \A b : Done(b)' <=> Done(b)
    BY <2>1, <2>2, SameMaster
  <2>4. /\ \A b : Due(b)' = Due(b)
        /\ Clears' = Clears /\ Bound' = Bound
        /\ UNCHANGED <<phase, turn, test, kind, active, busy, retries, pending>>
    BY <2>1, SameDue
  <2>5. \A b : Orders(b)' = Orders(b) /\ CommandOwes(b)' = CommandOwes(b)
    BY <2>1, SameOrders
  <2>6. Phases'
    BY <2>1, <2>2, <2>4 DEF Phases
  <2>7. Course'
    BY <2>1, <2>2, <2>4, <2>5, MovesOn DEF Course
  <2>8. Trusted'
    <3>1. \A p : Honest(p)' <=> Honest(p)
      BY <2>1, <2>3 DEF Honest
    <3>2. Old[Clears]' = Old[Clears]
      BY <2>4
    <3> QED
      BY <2>2, <2>3, <2>4, <3>1, <3>2 DEF Trusted
  <2>9. Count'
    <3>1. Bound <= Bound' /\ Len(toAgente') <= Len(toAgente)
      BY <2>1, <2>2, <2>4, BoundNumber, AnswersKnown DEF Types
    <3>2. \A b \in Board : CommandOwes(b)' <= CommandOwes(b)
      BY <2>2, <2>5, OwesNumbers
    <3> QED
      BY <2>1, <2>2, <3>1, <3>2, CountKept
  <2> QED
    BY <2>2, <2>3, <2>6, <2>7, <2>8, <2>9 DEF Inv
<1>2. CASE Agente
  BY <1>2, PrepareTestKeeps, PrepareTestboardKeeps, PreparedKeeps, ExecuteTestKeeps,
     ExecuteTestboardKeeps, NextTestboardKeeps, StartedKeeps, AskStatusKeeps, ReadAnswerKeeps,
     AnswersReadKeeps, CleanupTestKeeps, CleanupTestboardKeeps, CleanedUpKeeps DEF Agente
<1>3. CASE MainLoop
  BY <1>3, MainLoopKeeps
<1>4. CASE \E b \in Board, i \in 1..MaxWorkers : Thread(b, i) \/ ErrorLine(b, i) \/ ProcessEnds(b, i)
  BY <1>4, ThreadKeeps
<1>5. CASE Over
  BY <1>1, <1>5 DEF Over
<1> QED
  BY <1>1, <1>2, <1>3, <1>4, <1>5 DEF Next

-----------------------------------------------------------------------------
(* What was to be shown *)

\* Two processes never drive the same test board, if psi46 has ended whenever
\* the next test is prepared, and if the lines with errors are so few that the
\* old packets are gone before psi_agente begins to wait.
THEOREM ProcessesApart ==
  ASSUME InTime, FewErrors
  PROVE  Spec => []OneProcess
<1>1. Inv => OneProcess
  <2> HAVE Inv
  <2> SUFFICES ASSUME NEW b \in Board PROVE Cardinality(running[b]) <= 1
    BY DEF OneProcess
  <2>1. Machine(b) /\ Types
    BY DEF Inv, Machines
  <2>2. workers[b] \in Seq(Worker) /\ running[b] \subseteq DOMAIN workers[b]
    BY <2>1 DEF Types, TypeOK
  <2>3. DOMAIN workers[b] = 1..Len(workers[b]) /\ Len(workers[b]) \in Nat
    BY <2>2, LenProperties
  <2>4. \A i \in running[b] : i = 1
    BY <2>1, <2>2, <2>3 DEF Machine
  <2>5. running[b] = {} \/ running[b] = {1}
    BY <2>4
  <2>6. Cardinality({}) = 0 /\ Cardinality({1}) = 1
    BY FS_EmptySet, FS_Singleton
  <2> QED
    BY <2>5, <2>6
<1>2. Init => Inv
  BY InitInv
<1>3. Inv /\ [Next]_vars => Inv'
  BY NextInv
<1> QED
  BY <1>1, <1>2, <1>3, PTL DEF Spec

\* No process of a batch is left when elComandante is told that the test is
\* over.  Old answers are never taken for new ones if clearPackets halves the
\* packets often enough before psi_agente begins to wait: FewErrors says how many
\* packets there may be for that, those of the lines with errors included.
THEOREM BoardsLeftAlone ==
  ASSUME InTime, FewErrors
  PROVE  Spec => []NoProcessLeft
<1>1. Inv => NoProcessLeft
  <2> HAVE Inv
  <2> SUFFICES ASSUME phase = "idle", kind # "iv", NEW b \in Board PROVE running[b] = {}
    BY DEF NoProcessLeft
  <2>1. Machine(b) /\ IsIn(b, Due(b)) /\ Phases
    BY DEF Inv, Machines, Course
  <2>2. Due(b) \in {"free", "done"}
    BY DEF Due
  <2>3. Free(b) \/ Done(b)
    BY <2>1, <2>2 DEF IsIn
  <2> QED
    BY <2>1, <2>3 DEF Free, Vacant, Done, Machine
<1>2. Init => Inv
  BY InitInv
<1>3. Inv /\ [Next]_vars => Inv'
  BY NextInv
<1> QED
  BY <1>1, <1>2, <1>3, PTL DEF Spec

\* Every board that a test is for runs it: no start and no open is refused or
\* lost, under the same two conditions.
THEOREM TestsRun ==
  ASSUME InTime, FewErrors
  PROVE  Spec => []EveryBoardRan
<1>1. Inv => EveryBoardRan
  <2> HAVE Inv
  <2> SUFFICES ASSUME phase \in {"clean", "idle"}, test > 0, NEW b \in active
               PROVE  workers[b] # <<>> /\ workers[b][Len(workers[b])].test = test
    BY DEF EveryBoardRan
  <2>1. b \in Board /\ Types /\ Phases /\ Course /\ Machines
    BY DEF Inv, Types, TypeOK
  <2>2. Machine(b) /\ IsIn(b, Due(b)) /\ workers[b] \in Seq(Worker)
    BY <2>1 DEF Machines, Course, Types, TypeOK
  <2>3. test # 0
    BY <2>1, Boards DEF Types, TypeOK
  <2>4. Due(b) \in {"open", "closing", "done"}
    BY <2>1, <2>3 DEF Due, Phases
  <2>5. Up(b, "open") \/ Up(b, "start")
    BY <2>2, <2>4 DEF IsIn, Done
  <2>6. workers[b] # <<>> /\ workers[b][1].test = test
    BY <2>5 DEF Up, Mine, Job
  <2>7. 1 \in DOMAIN workers[b]
    BY <2>2, <2>6, HeadTailProperties, LenProperties
  <2>8. Len(workers[b]) = 1
    BY <2>1, <2>2, <2>7, OneWorker
  <2> QED
    BY <2>6, <2>8
<1>2. Init => Inv
  BY InitInv
<1>3. Inv /\ [Next]_vars => Inv'
  BY NextInv
<1> QED
  BY <1>1, <1>2, <1>3, PTL DEF Spec

=============================================================================
