-------------------------- MODULE TestChainProofs --------------------------
(***************************************************************************)
(* Proofs about the tree of tests: for every text, every choice of the     *)
(* tests that need the high voltage and every number of boards, the three  *)
(* invariants of TestChain.                                                *)
(*                                                                         *)
(*   TypeOK         from Types, in which a node has a higher number than   *)
(*                  its parent: that makes the recursive functions of the  *)
(*                  model defined everywhere.                              *)
(*   ParsedAsMeant  from ParserInv: the parser is right behind a piece, in *)
(*                  the lists the user had in mind when he wrote it        *)
(*                  (Reading), or has seen all tests (Over).  The loops    *)
(*                  start from the tree of any text, so that the lemma     *)
(*                  (TakenAsMeant) is about those cut short as well.       *)
(*   RunInOrder     from LoopInv: the lists of children follow the order   *)
(*                  of the text, copies included (Ordered), and the first  *)
(*                  loop has been everywhere behind its place (Visited);   *)
(*                  and from DoneInv: the second loop goes through that    *)
(*                  tree with next().                                      *)
(***************************************************************************)
EXTENDS TestChain, DataLemmas

-----------------------------------------------------------------------------
(* The tree.  A node was made after its parent, so that its number is higher. *)

Record == [name : 0..MaxTests, board : 0..NumBoards, parent : Nat, children : Seq(Nat)]

HeapOK(h) ==
  /\ h \in [DOMAIN h -> Record]
  /\ Root \in DOMAIN h
  /\ \E N \in Nat : DOMAIN h \subseteq 1..N
  /\ \A n \in DOMAIN h :
       /\ h[n].parent = NoNode <=> n = Root
       /\ n # Root => h[n].parent \in DOMAIN h /\ h[n].parent < n
       /\ IsInjective(h[n].children)
       /\ Range(h[n].children) = {m \in DOMAIN h : h[m].parent = n}

\* The children among which a node is.
Siblings(h, n) == h[h[n].parent].children

\* The last copy of the current test, while multiply() goes on.
LastCopy == Index(Siblings(heap, current), current) + board - 1

TestNumbers == 0..MaxTests
Piece == [tok : {"name", ">", ",", "{", "}"}, test : TestNumbers, open : Seq(TestNumbers)]
OpenList == [parent : Nat, back : Nat \ {0}, some : BOOLEAN]

UserOK ==
  /\ text \in Seq(Piece) /\ meant \in Seq(TestNumbers) /\ needsHV \subseteq Tests
  /\ Len(meant) <= MaxTests /\ Written.test = Len(meant)
  /\ \A p \in DOMAIN text : text[p].open # <<>>

ParserOK ==
  /\ place \in {"tree", "chain", "end"} /\ pos \in Nat \ {0} /\ parent \in Nodes
  /\ lists \in Seq(OpenList) /\ lists # <<>>
  /\ \A d \in DOMAIN lists : lists[d].parent \in Nodes

LoopOK ==
  /\ phase \in {"write", "parse", "expand", "multiply", "run"}
  /\ current \in (Nodes \ {Root}) \union {NoNode} /\ board \in 0..NumBoards
  /\ phase = "multiply" =>
       current # NoNode /\ board >= 1 /\ LastCopy <= Len(Siblings(heap, current))

Types == HeapOK(heap) /\ UserOK /\ ParserOK /\ LoopOK

-----------------------------------------------------------------------------
(* The text and the parser. *)

Before(p) == IF p = 1 THEN Start ELSE text[p - 1]

\* The piece x was written after the piece q; m is what is meant.
Continues(m, q, x) ==
  \/ /\ x.tok = "name" /\ q.tok \in {",", "{", ">"}
     /\ x.test = q.test + 1 /\ x.open = q.open /\ x.test <= Len(m)
     /\ m[x.test] = IF q.tok = ">" THEN q.test ELSE Last(q.open)
  \/ x.tok = ">" /\ q.tok = "name" /\ x.test = q.test /\ x.open = q.open
  \/ x.tok = "," /\ q.tok \in {"name", "}"} /\ x.test = q.test /\ x.open = q.open
  \/ x.tok = "{" /\ q.tok = ">" /\ x.test = q.test /\ x.open = Append(q.open, q.test)
  \/ /\ x.tok = "}" /\ q.tok \in {"name", "}"}
     /\ Len(q.open) > 1 /\ x.test = q.test /\ x.open = Front(q.open)

WellWritten == \A p \in DOMAIN text : Continues(meant, Before(p), text[p])

\* The tree is that of the first k tests.
Holds(k) ==
  /\ Nodes = 1..(k + 1)
  /\ \A i \in 1..k : heap[i + 1].name = i /\ heap[i + 1].parent = meant[i] + 1

\* No test was multiplied yet, and the children are in the order of the text.
Plain(h) ==
  /\ h[Root].name = NoTest
  /\ \A n \in DOMAIN h :
       /\ h[n].board = NoBoard
       /\ \A i, j \in DOMAIN h[n].children : i < j => h[n].children[i] < h[n].children[j]

\* The parser is right behind the piece q, in the lists that the user has in mind.
Aligned(q) ==
  /\ Holds(q.test)
  /\ Len(lists) = Len(q.open)
  /\ \A d \in 1..Len(lists) : lists[d].parent = q.open[d] + 1

Reading ==
  LET q == Before(pos) IN
  /\ pos <= Len(text) + 1
  /\ Aligned(q)
  /\ \/ place = "chain" /\ q.tok = "name" /\ parent = q.test + 1
     \/ place = "tree" /\ ~Inner.some /\ (q.tok = "{" \/ pos = 1)
     \/ place = "tree" /\ Inner.some /\ q.tok \in {"name", "}"} /\ ~At(pos, ">")
     \/ place = "end" /\ q.tok \in {"name", "}"} /\ At(pos, "}")

\* The parser has seen all tests and does not find another one.
Over ==
  /\ Holds(Len(meant))
  /\ place \in {"tree", "end"}
  /\ ~At(pos, "name") /\ ~At(pos, "}") /\ (At(pos, ",") => ~At(pos + 1, "name"))

\* Where a list began, the parser finds a brace again and no test.
Backs == \A d \in 2..Len(lists) : At(lists[d].back, ">")

ParserInv ==
  /\ WellWritten
  /\ phase # "write" => text # <<>>
  /\ phase = "write" => Reading /\ pos = 1 /\ place = "tree" /\ ~Inner.some
  /\ phase = "parse" => Reading \/ Over
  /\ phase \in {"write", "parse"} => Plain(heap) /\ Backs

-----------------------------------------------------------------------------
(* The walk.  In the list of the children of a node the tests that belong to it *)
(* come one after the other, each with its copies, or alone if it was not       *)
(* multiplied yet.  The node e has not got all its copies.                      *)

Starts(h, n) == h[n].board \in {NoBoard, FirstBoard(h[n].name)}
Complete(h, n, e) == n = e \/ h[n].board \in {NoBoard, LastBoard(h[n].name)}

NextCopy(h, m, n) ==
  h[m].board # NoBoard /\ h[n].name = h[m].name /\ h[n].board = h[m].board + 1
NextTest(h, m, n, e) ==
  /\ Complete(h, m, e) /\ LaterKids(h[m].name) # {}
  /\ h[n].name = Min(LaterKids(h[m].name)) /\ Starts(h, n)

Adjacent(h, m, n, e) == NextCopy(h, m, n) \/ NextTest(h, m, n, e)

ListOK(h, n, e) ==
  LET c == h[n].children IN
  /\ c = <<>> <=> Kids(h[n].name) = {}
  /\ c # <<>> =>
       /\ h[c[1]].name = Min(Kids(h[n].name)) /\ Starts(h, c[1])
       /\ LaterKids(h[c[Len(c)]].name) = {} /\ Complete(h, c[Len(c)], e)
  /\ \A k \in 1..(Len(c) - 1) : Adjacent(h, c[k], c[k + 1], e)

NamesOK(h) ==
  /\ h[Root].name = NoTest
  /\ \A n \in DOMAIN h :
       /\ n # Root => h[n].name \in Tests
       /\ h[n].board # NoBoard => h[n].name \in needsHV

Ordered(h, e) == NamesOK(h) /\ \A n \in DOMAIN h : ListOK(h, n, e)

\* The test n has copies up to the one for the board b.
CopyPlace(h, n, b) == Index(Siblings(h, n), n) + b - 1
CopyAt(h, n, b) == Siblings(h, n)[CopyPlace(h, n, b)]
CopiesOK(h, n, b) ==
  LET e == CopyAt(h, n, b)
      k == CopyPlace(h, n, b)
  IN  /\ h[n].board # NoBoard /\ h[e].name = h[n].name /\ h[e].board = b
      /\ k < Len(Siblings(h, n)) => NextTest(h, e, Siblings(h, n)[k + 1], e)

Unfinished == IF phase = "multiply" THEN CopyAt(heap, current, board) ELSE NoNode

TreeInv ==
  /\ Kids(NoTest) # {}
  /\ Ordered(heap, Unfinished)
  /\ phase = "multiply" => CopiesOK(heap, current, board)

\* The loop has been at the tests V and at all that belongs to the tests F; it is
\* at the test n.
Multi(h, n) == (h[n].name \in needsHV /\ NumBoards > 0) => h[n].board # NoBoard
Reached(h, n, V, F) ==
  n # NoNode =>
    /\ h[n].parent \in V
    /\ \A i, j \in DOMAIN Siblings(h, n) : Siblings(h, n)[i] = n /\ j < i => Siblings(h, n)[j] \in F
Seen(h, V, F) ==
  /\ V \subseteq DOMAIN h /\ F \subseteq DOMAIN h
  /\ \A m \in V \union F : Multi(h, m)
  /\ \A m \in F : Range(h[m].children) \subseteq F
  /\ Root \in V
  /\ \A m \in V \ {Root} : Reached(h, m, V, F)
Visited(h, n, V, F) ==
  /\ Seen(h, V, F)
  /\ Reached(h, n, V, F)
  /\ n = NoNode => Root \in F

WalkInv ==
  /\ phase = "expand" => \E V, F \in SUBSET Nodes : Visited(heap, current, V, F)
  /\ phase = "multiply" =>
       \E V, F \in SUBSET Nodes : Visited(heap, current, V, F) /\ current \notin F
  /\ phase = "run" => \A n \in Nodes : Multi(heap, n)

LoopInv == phase \in {"expand", "multiply", "run"} => TreeInv /\ WalkInv

Steps == [name : 0..MaxTests, board : 0..NumBoards]

DoneInv ==
  /\ done \in Seq(Seq(Steps))
  /\ phase # "run" => done = <<>>
  /\ phase = "run" =>
       \/ done = <<>> /\ current = Successor(heap, Root)
       \/ /\ done # <<>>
          /\ \E n \in Nodes \ {Root} :
               Last(done) = Path(heap)[n] /\ current = Successor(heap, n)

-----------------------------------------------------------------------------
(* Sequences *)

\* A sequence with one more element at the end.
LEMMA Appended ==
  ASSUME NEW S, NEW s \in Seq(S), NEW e \in S
  PROVE  /\ Append(s, e) \in Seq(S) /\ Append(s, e) # <<>>
         /\ Len(Append(s, e)) = Len(s) + 1 /\ Len(s) \in Nat
         /\ DOMAIN s = 1..Len(s) /\ DOMAIN Append(s, e) = 1..(Len(s) + 1)
         /\ \A i \in 1..Len(s) : Append(s, e)[i] = s[i] /\ s[i] \in S
         /\ Append(s, e)[Len(s) + 1] = e
         /\ Last(Append(s, e)) = e
<1>1. /\ Append(s, e) \in Seq(S) /\ Append(s, e) # <<>>
      /\ Len(Append(s, e)) = Len(s) + 1 /\ Len(s) \in Nat
      /\ \A i \in 1..Len(s) : Append(s, e)[i] = s[i]
      /\ Append(s, e)[Len(s) + 1] = e
  BY AppendProperties, LenProperties
<1>2. DOMAIN s = 1..Len(s) /\ DOMAIN Append(s, e) = 1..Len(Append(s, e))
  BY <1>1, LenProperties
<1>3. \A i \in 1..Len(s) : s[i] \in S
  BY ElementOfSeq
<1> QED
  BY <1>1, <1>2, <1>3 DEF Last

\* A sequence without its last element.
LEMMA Fronted ==
  ASSUME NEW S, NEW s \in Seq(S), s # <<>>
  PROVE  /\ Front(s) \in Seq(S)
         /\ Len(s) \in Nat /\ Len(s) >= 1 /\ Len(Front(s)) = Len(s) - 1
         /\ \A i \in 1..(Len(s) - 1) : Front(s)[i] = s[i]
         /\ Last(s) \in S /\ Last(s) = s[Len(s)]
<1> DEFINE m == Len(s)
           f == SubSeq(s, 1, m - 1)
<1>1. m \in Nat /\ m >= 1
  BY EmptySeq, LenProperties
<1>2. \A i \in 1..m : s[i] \in S
  BY ElementOfSeq
<1>3. Last(s) = s[m] /\ Front(s) = f
  BY DEF Last, Front
<1> HIDE DEF m
<1>4. 1 \in Int /\ m - 1 \in Int /\ \A i \in 1..(m - 1) : s[i] \in S
  BY <1>1, <1>2
<1>5. /\ f \in Seq(S)
      /\ Len(f) = IF 1 <= m - 1 THEN m - 1 - 1 + 1 ELSE 0
      /\ \A i \in 1..(m - 1 - 1 + 1) : f[i] = s[1 + i - 1]
  BY <1>4, SubSeqProperties
<1> HIDE DEF f
<1>6. Len(f) = m - 1 /\ \A i \in 1..(m - 1) : f[i] = s[i]
  BY <1>1, <1>5
<1>7. Last(s) \in S
  BY <1>1, <1>2, <1>3
<1> QED
  BY <1>1, <1>3, <1>5, <1>6, <1>7 DEF m

\* A sequence with one more element somewhere.
LEMMA Inserted ==
  ASSUME NEW S, NEW s \in Seq(S), NEW e \in S, NEW k \in 1..(Len(s) + 1)
  PROVE  /\ InsertAt(s, k, e) \in Seq(S)
         /\ Len(s) \in Nat /\ Len(InsertAt(s, k, e)) = Len(s) + 1
         /\ DOMAIN s = 1..Len(s) /\ DOMAIN InsertAt(s, k, e) = 1..(Len(s) + 1)
         /\ \A i \in 1..(k - 1) : InsertAt(s, k, e)[i] = s[i]
         /\ InsertAt(s, k, e)[k] = e
         /\ \A i \in (k + 1)..(Len(s) + 1) : InsertAt(s, k, e)[i] = s[i - 1]
<1> DEFINE a == SubSeq(s, 1, k - 1)
           b == SubSeq(s, k, Len(s))
           m == Len(s)
<1>1. m \in Nat /\ k \in Int /\ 1 <= k /\ k <= m + 1 /\ DOMAIN s = 1..m
  BY LenProperties
<1>2. \A i \in 1..m : s[i] \in S
  BY ElementOfSeq
<1>3. a \in Seq(S) /\ Len(a) = k - 1 /\ \A i \in 1..(k - 1) : a[i] = s[i]
  <2>1. k - 1 \in Int /\ \A i \in 1..(k - 1) : s[i] \in S
    BY <1>1, <1>2
  <2>2. /\ a \in Seq(S)
        /\ Len(a) = IF 1 <= k - 1 THEN k - 1 - 1 + 1 ELSE 0
        /\ \A i \in 1..(k - 1 - 1 + 1) : a[i] = s[1 + i - 1]
    BY <2>1, SubSeqProperties
  <2> QED
    BY <1>1, <2>2
<1>4. b \in Seq(S) /\ Len(b) = m - k + 1 /\ \A i \in 1..(m - k + 1) : b[i] = s[k + i - 1]
  <2>1. m \in Int /\ \A i \in k..m : s[i] \in S
    BY <1>1, <1>2
  <2>2. /\ b \in Seq(S)
        /\ Len(b) = IF k <= m THEN m - k + 1 ELSE 0
        /\ \A i \in 1..(m - k + 1) : b[i] = s[k + i - 1]
    BY <1>1, <2>1, SubSeqProperties
  <2> QED
    BY <1>1, <2>2
<1> DEFINE d == <<e>>
           c == a \o d
<1>5. d \in Seq(S) /\ Len(d) = 1 /\ d[1] = e
  OBVIOUS
<1> HIDE DEF a, b, m, d
<1>6. /\ c \in Seq(S) /\ Len(c) = k
      /\ \A i \in 1..(k - 1) : c[i] = s[i]
      /\ c[k] = e
  <2>1. /\ c \in Seq(S) /\ Len(c) = Len(a) + Len(d)
        /\ \A i \in 1..(Len(a) + Len(d)) :
             c[i] = IF i <= Len(a) THEN a[i] ELSE d[i - Len(a)]
    BY <1>3, <1>5, ConcatProperties
  <2> HIDE DEF c
  <2>2. Len(c) = k /\ c[k] = d[k - Len(a)] /\ k - Len(a) = 1
    BY <1>1, <1>3, <1>5, <2>1
  <2>3. \A i \in 1..(k - 1) : c[i] = a[i]
    BY <1>1, <1>3, <1>5, <2>1
  <2> QED
    BY <1>3, <1>5, <2>1, <2>2, <2>3
<1> HIDE DEF c
<1>7. /\ c \o b \in Seq(S) /\ Len(c \o b) = m + 1
      /\ \A i \in 1..(m + 1) : (c \o b)[i] = IF i <= k THEN c[i] ELSE b[i - k]
  <2>1. /\ c \o b \in Seq(S) /\ Len(c \o b) = Len(c) + Len(b)
        /\ \A i \in 1..(Len(c) + Len(b)) :
             (c \o b)[i] = IF i <= Len(c) THEN c[i] ELSE b[i - Len(c)]
    BY <1>4, <1>6, ConcatProperties
  <2>2. Len(c) + Len(b) = m + 1
    BY <1>1, <1>4, <1>6
  <2> QED
    BY <1>6, <2>1, <2>2
<1>8. InsertAt(s, k, e) = c \o b
  BY DEF InsertAt, a, b, c, d
<1>9. \A i \in (k + 1)..(m + 1) : (c \o b)[i] = s[i - 1]
  <2> TAKE i \in (k + 1)..(m + 1)
  <2>1. i - k \in 1..(m - k + 1) /\ i \in 1..(m + 1) /\ ~(i <= k) /\ k + (i - k) - 1 = i - 1
    BY <1>1
  <2> QED
    BY <1>4, <1>7, <2>1
<1>10. (c \o b)[k] = e /\ \A i \in 1..(k - 1) : (c \o b)[i] = s[i]
  BY <1>1, <1>6, <1>7
<1>11. DOMAIN (c \o b) = 1..(m + 1)
  BY <1>7, LenProperties
<1> QED
  BY <1>1, <1>7, <1>8, <1>9, <1>10, <1>11 DEF m

-----------------------------------------------------------------------------
(* The nodes *)

\* What HeapOK says of a node, ready to use.
LEMMA HeapFacts ==
  ASSUME NEW h, HeapOK(h)
  PROVE  /\ Root \in DOMAIN h /\ DOMAIN h \subseteq Nat \ {0}
         /\ \A n \in DOMAIN h :
              /\ n \in Nat /\ n >= 1 /\ h[n] \in Record
              /\ h[n].name \in 0..MaxTests /\ h[n].board \in 0..NumBoards
              /\ h[n].parent \in Nat /\ h[n].children \in Seq(Nat)
              /\ h[n].parent = NoNode <=> n = Root
              /\ n # Root => h[n].parent \in DOMAIN h /\ h[n].parent < n
              /\ IsInjective(h[n].children)
              /\ Range(h[n].children) = {m \in DOMAIN h : h[m].parent = n}
              /\ DOMAIN h[n].children = 1..Len(h[n].children) /\ Len(h[n].children) \in Nat
              /\ \A i \in 1..Len(h[n].children) :
                   h[n].children[i] \in DOMAIN h /\ h[h[n].children[i]].parent = n
<1>1. PICK N \in Nat : DOMAIN h \subseteq 1..N
  BY DEF HeapOK
<1>2. Root \in DOMAIN h /\ DOMAIN h \subseteq Nat \ {0}
  BY <1>1 DEF HeapOK
<1>3. ASSUME NEW n \in DOMAIN h
      PROVE  /\ n \in Nat /\ n >= 1 /\ h[n] \in Record
             /\ h[n].name \in 0..MaxTests /\ h[n].board \in 0..NumBoards
             /\ h[n].parent \in Nat /\ h[n].children \in Seq(Nat)
  <2>1. n \in Nat /\ n >= 1
    BY <1>2
  <2>2. h[n] \in Record
    BY DEF HeapOK
  <2> QED
    BY <2>1, <2>2 DEF Record
<1>4. ASSUME NEW n \in DOMAIN h
      PROVE  /\ DOMAIN h[n].children = 1..Len(h[n].children) /\ Len(h[n].children) \in Nat
             /\ \A i \in 1..Len(h[n].children) :
                  h[n].children[i] \in DOMAIN h /\ h[h[n].children[i]].parent = n
  <2>1. DOMAIN h[n].children = 1..Len(h[n].children) /\ Len(h[n].children) \in Nat
    BY <1>3, LenProperties
  <2>2. Range(h[n].children) = {m \in DOMAIN h : h[m].parent = n}
    BY DEF HeapOK
  <2> QED
    BY <2>1, <2>2 DEF Range
<1> QED
  BY <1>2, <1>3, <1>4 DEF HeapOK

\* The node that was made last has the highest number.
LEMMA TopIs ==
  ASSUME NEW h, HeapOK(h)
  PROVE  /\ Top(h) \in DOMAIN h /\ Top(h) \in Nat /\ Top(h) >= 1
         /\ \A n \in DOMAIN h : n <= Top(h)
<1>1. PICK N \in Nat : DOMAIN h \subseteq 1..N
  BY DEF HeapOK
<1>2. DOMAIN h \in SUBSET Nat /\ DOMAIN h # {} /\ \A n \in DOMAIN h : n <= N
  BY <1>1 DEF HeapOK
<1>3. \E x \in DOMAIN h : \A y \in DOMAIN h : x >= y
  BY <1>2, GreatestNumber
<1>4. Top(h) \in DOMAIN h /\ \A y \in DOMAIN h : Top(h) >= y
  BY <1>3 DEF Top, Max
<1> QED
  BY <1>1, <1>4

\* A node has one place among the children of its parent.
LEMMA IndexIs ==
  ASSUME NEW S, NEW c \in Seq(S), IsInjective(c), NEW n \in Range(c)
  PROVE  /\ Index(c, n) \in 1..Len(c) /\ Len(c) \in Nat /\ c[Index(c, n)] = n
         /\ \A i \in 1..Len(c) : c[i] = n => i = Index(c, n)
<1>1. DOMAIN c = 1..Len(c) /\ Len(c) \in Nat
  BY LenProperties
<1>2. PICK k \in DOMAIN c : c[k] = n
  BY DEF Range
<1>3. \A j \in DOMAIN c : j < k => c[j] # n
  BY <1>1, <1>2 DEF IsInjective
<1>4. /\ Index(c, n) \in DOMAIN c
      /\ c[Index(c, n)] = n
  BY <1>2, <1>3 DEF Index
<1> QED
  BY <1>1, <1>4 DEF IsInjective

\* The place of a node of the tree.
LEMMA PlaceIs ==
  ASSUME NEW h, HeapOK(h), NEW n \in DOMAIN h \ {Root}
  PROVE  /\ h[n].parent \in DOMAIN h /\ h[n].parent < n /\ h[n].parent # NoNode
         /\ n \in Range(Siblings(h, n))
         /\ Siblings(h, n) \in Seq(Nat) /\ Len(Siblings(h, n)) \in Nat
         /\ DOMAIN Siblings(h, n) = 1..Len(Siblings(h, n))
         /\ Index(Siblings(h, n), n) \in 1..Len(Siblings(h, n))
         /\ Siblings(h, n)[Index(Siblings(h, n), n)] = n
         /\ \A i \in 1..Len(Siblings(h, n)) :
              /\ Siblings(h, n)[i] \in DOMAIN h /\ h[Siblings(h, n)[i]].parent = h[n].parent
              /\ Siblings(h, n)[i] = n => i = Index(Siblings(h, n), n)
<1> DEFINE p == h[n].parent
           c == h[p].children
<1>1. p \in DOMAIN h /\ p < n /\ p # NoNode
  BY HeapFacts
<1>2. /\ c \in Seq(Nat) /\ IsInjective(c) /\ Range(c) = {m \in DOMAIN h : h[m].parent = p}
      /\ DOMAIN c = 1..Len(c) /\ Len(c) \in Nat
      /\ \A i \in 1..Len(c) : c[i] \in DOMAIN h /\ h[c[i]].parent = p
  BY SMTT(30), <1>1, HeapFacts
<1>3. n \in Range(c)
  BY <1>2
<1>4. /\ Index(c, n) \in 1..Len(c) /\ c[Index(c, n)] = n
      /\ \A i \in 1..Len(c) : c[i] = n => i = Index(c, n)
  BY <1>2, <1>3, IndexIs
<1>5. c = Siblings(h, n)
  BY DEF Siblings
<1> HIDE DEF p, c
<1>6. p = h[n].parent
  BY DEF p
<1> QED
  BY <1>1, <1>2, <1>3, <1>4, <1>5, <1>6

-----------------------------------------------------------------------------
(* The recursive functions *)

\* up_next() is defined for every node, as parents have lower numbers.
LEMMA UpNextIs ==
  ASSUME NEW h, HeapOK(h)
  PROVE  \A n \in DOMAIN h :
           /\ UpNext(h)[n] \in (DOMAIN h \ {Root}) \union {NoNode}
           /\ n = Root => UpNext(h)[n] = NoNode
           /\ n # Root /\ Index(Siblings(h, n), n) < Len(Siblings(h, n)) =>
                UpNext(h)[n] = Siblings(h, n)[Index(Siblings(h, n), n) + 1]
           /\ n # Root /\ ~(Index(Siblings(h, n), n) < Len(Siblings(h, n))) =>
                UpNext(h)[n] = UpNext(h)[h[n].parent]
<1> DEFINE D == DOMAIN h
           V == (D \ {Root}) \union {NoNode}
           next(g, n) ==
             IF h[n].parent = NoNode \/ n \notin Range(Siblings(h, n)) THEN NoNode
             ELSE IF Index(Siblings(h, n), n) < Len(Siblings(h, n))
               THEN Siblings(h, n)[Index(Siblings(h, n), n) + 1]
             ELSE g[h[n].parent]
           P(g) == g = [n \in D |-> next(g, n)]
           here(n) == n # Root /\ Index(Siblings(h, n), n) < Len(Siblings(h, n))
           stop == [n \in D |-> n = Root \/ here(n)]
           base == [n \in D |-> IF here(n) THEN Siblings(h, n)[Index(Siblings(h, n), n) + 1] ELSE NoNode]
           step == [n \in D |-> [v \in V |-> v]]
           up == [n \in D |-> h[n].parent]
<1>1. UpNext(h) = CHOOSE g : P(g)
  BY DEF UpNext, Siblings
<1>2. PICK N \in Nat : \A n \in D : n <= N
  BY TopIs
<1>3. D \in SUBSET Nat
  BY HeapFacts
<1>4. ASSUME NEW n \in D PROVE base[n] \in V
  <2>1. CASE here(n)
    <3>1. Index(Siblings(h, n), n) + 1 \in 1..Len(Siblings(h, n))
      BY <2>1, PlaceIs
    <3> DEFINE m == Siblings(h, n)[Index(Siblings(h, n), n) + 1]
    <3>2. m \in D /\ h[m].parent = h[n].parent /\ h[n].parent # NoNode
      BY <2>1, <3>1, PlaceIs
    <3> HIDE DEF m
    <3>3. m # Root
      BY <3>2, HeapFacts
    <3> QED
      BY <2>1, <3>2, <3>3 DEF m
  <2>2. CASE ~here(n)
    BY <2>2
  <2> QED
    BY <2>1, <2>2
<1>5. base \in [D -> V] /\ step \in [D -> [V -> V]]
  BY <1>4
<1>6. ASSUME NEW n \in D, ~stop[n] PROVE up[n] \in D /\ up[n] < n
  BY <1>6, PlaceIs
<1>7. \A n \in D : /\ n = Root <=> h[n].parent = NoNode
                   /\ n # Root => n \in Range(Siblings(h, n)) /\ h[n].parent \in D
  BY PlaceIs, HeapFacts
<1> HIDE DEF V
<1>8. PICK f : Recursive(f, D, V, stop, base, step, up)
  <2>1. Recursion(D, V, stop, base, step, up)
    <3> HIDE DEF D, stop, base, step, up
    <3> QED
      BY <1>2, <1>3, <1>5, <1>6 DEF Recursion
  <2> HIDE DEF D, stop, base, step, up
  <2> QED
    BY <2>1, RecursionDown
<1>9. ASSUME NEW n \in D PROVE f[n] = next(f, n)
  BY <1>7, <1>8 DEF Recursive
<1>10. f = [n \in D |-> next(f, n)]
  BY <1>8, <1>9 DEF Recursive
<1>11. P(f)
  BY <1>10
<1> DEFINE u == CHOOSE g : P(g)
<1> HIDE DEF P
<1>12. P(u)
  BY <1>11
<1> HIDE DEF u
<1>13. u = [n \in D |-> next(u, n)]
  BY <1>12 DEF P
<1>14. \A n \in D : u[n] = next(u, n)
  BY <1>13
<1>15. ASSUME NEW n \in D
       PROVE  u[n] = IF n = Root THEN NoNode
                     ELSE IF here(n) THEN base[n] ELSE u[h[n].parent]
  BY <1>7, <1>14
<1> DEFINE Bad == {n \in D : u[n] \notin V}
<1>16. Bad = {}
  <2> SUFFICES ASSUME Bad # {} PROVE FALSE
    OBVIOUS
  <2>1. Bad \in SUBSET Nat
    BY <1>3
  <2>2. PICK n \in Bad : \A m \in Bad : n <= m
    BY <2>1, LeastNumber
  <2>3. n \in D /\ u[n] \notin V
    BY <2>2
  <2>4. NoNode \in V /\ base[n] \in V
    BY <1>5, <2>3 DEF V
  <2>5. n # Root /\ u[n] = u[h[n].parent]
    BY <1>15, <2>3, <2>4
  <2>6. h[n].parent \in D /\ h[n].parent < n
    BY <2>3, <2>5, PlaceIs
  <2>7. h[n].parent \in Bad
    BY <2>3, <2>5, <2>6
  <2> HIDE DEF Bad
  <2>8. n <= h[n].parent
    BY <2>2, <2>7
  <2> QED
    BY <1>3, <2>3, <2>6, <2>8
<1>17. \A n \in D : u[n] \in V
  BY <1>16
<1>18. UpNext(h) = u
  BY <1>1 DEF u
<1> HIDE DEF u
<1> QED
  BY <1>15, <1>17, <1>18 DEF V

\* The nodes of a subtree are its root and those whose parent is in it.
LEMMA SubtreeIs ==
  ASSUME NEW h, HeapOK(h), NEW n \in DOMAIN h \ {Root}
  PROVE  /\ Subtree(h, n) \subseteq DOMAIN h /\ n \in Subtree(h, n)
         /\ \A m \in DOMAIN h \ {Root, n} : m \in Subtree(h, n) <=> h[m].parent \in Subtree(h, n)
         /\ \A m \in Subtree(h, n) : m >= n /\ Range(h[m].children) \subseteq Subtree(h, n)
         /\ h[n].parent \notin Subtree(h, n) /\ Root \notin Subtree(h, n)
<1> DEFINE D == DOMAIN h
           next(g, m) == m = n \/ (h[m].parent # NoNode /\ g[h[m].parent])
           P(g) == g = [m \in D |-> next(g, m)]
           stop == [m \in D |-> m = n \/ m = Root]
           base == [m \in D |-> m = n]
           step == [m \in D |-> [v \in BOOLEAN |-> v]]
           up == [m \in D |-> h[m].parent]
           b == CHOOSE g : P(g)
<1>1. Subtree(h, n) = {m \in D : b[m]}
  BY DEF Subtree
<1>2. PICK N \in Nat : \A m \in D : m <= N
  BY TopIs
<1>3. D \in SUBSET Nat /\ 0 \notin D
  BY HeapFacts
<1>4. base \in [D -> BOOLEAN] /\ step \in [D -> [BOOLEAN -> BOOLEAN]]
  OBVIOUS
<1>5. ASSUME NEW m \in D, ~stop[m] PROVE up[m] \in D /\ up[m] < m
  BY <1>5, PlaceIs
<1>6. \A m \in D : /\ m = Root <=> h[m].parent = NoNode
                   /\ m # Root => h[m].parent \in D /\ h[m].parent < m
  BY PlaceIs, HeapFacts
<1>7. PICK f : Recursive(f, D, BOOLEAN, stop, base, step, up)
  <2>1. Recursion(D, BOOLEAN, stop, base, step, up)
    <3> HIDE DEF D, stop, base, step, up
    <3> QED
      BY <1>2, <1>3, <1>4, <1>5 DEF Recursion
  <2> HIDE DEF D, stop, base, step, up
  <2> QED
    BY <2>1, RecursionDown
<1>8. f \in [D -> BOOLEAN] /\ \A m \in D : f[m] = IF stop[m] THEN base[m] ELSE step[m][f[up[m]]]
  BY <1>7 DEF Recursive
<1>9. ASSUME NEW m \in D PROVE f[m] = next(f, m)
  <2>1. CASE m = n
    BY <1>8, <2>1
  <2>2. CASE m # n /\ m = Root
    BY <1>6, <1>8, <2>2
  <2>3. CASE m # n /\ m # Root
    <3>1. h[m].parent \in D /\ f[h[m].parent] \in BOOLEAN
      BY <1>6, <1>8, <2>3
    <3>2. f[m] = f[h[m].parent]
      BY <1>8, <2>3, <3>1
    <3>3. next(f, m) <=> f[h[m].parent]
      BY <1>6, <2>3
    <3> QED
      BY <3>1, <3>2, <3>3
  <2> QED
    BY <2>1, <2>2, <2>3
<1>10. P(f)
  BY <1>8, <1>9
<1> HIDE DEF P
<1>11. P(b)
  BY <1>10
<1> HIDE DEF b
<1>12. \A m \in D : b[m] = next(b, m)
  <2>1. b = [m \in D |-> next(b, m)]
    BY <1>11 DEF P
  <2> QED
    BY <2>1
<1> DEFINE S == {m \in D : b[m]}
<1>13. S \subseteq D /\ n \in S
  BY <1>12
<1>14. \A m \in D \ {Root, n} : m \in S <=> h[m].parent \in S
  <2> TAKE m \in D \ {Root, n}
  <2>1. h[m].parent \in D /\ h[m].parent # NoNode
    BY <1>6
  <2>2. b[m] = next(b, m)
    BY <1>12
  <2>3. m # n
    OBVIOUS
  <2> QED
    BY <2>1, <2>2, <2>3
<1>15. Root \notin S
  BY <1>6, <1>12
<1> HIDE DEF S
<1>16. \A m \in S : m >= n
  <2> DEFINE Low == {m \in S : m < n}
  <2> SUFFICES ASSUME Low # {} PROVE FALSE
    BY <1>3, <1>13
  <2>1. Low \in SUBSET Nat
    BY <1>3, <1>13
  <2>2. PICK m \in Low : \A k \in Low : m <= k
    BY <2>1, LeastNumber
  <2>3. m \in S /\ m < n /\ m \in D /\ m # n /\ m # Root
    BY <1>3, <1>13, <1>15, <2>2
  <2>4. h[m].parent \in S /\ h[m].parent < m
    BY <1>6, <1>14, <2>3
  <2>5. h[m].parent \in Low
    BY <1>3, <1>13, <2>3, <2>4
  <2> HIDE DEF Low
  <2>6. m <= h[m].parent
    BY <2>2, <2>5
  <2> QED
    BY <1>3, <1>13, <2>3, <2>4, <2>6
<1>17. h[n].parent \notin S
  BY <1>3, <1>6, <1>13, <1>16
<1>18. ASSUME NEW m \in S PROVE Range(h[m].children) \subseteq S
  <2>1. m \in D /\ m >= n
    BY <1>13, <1>16
  <2> SUFFICES ASSUME NEW c \in Range(h[m].children) PROVE c \in S
    OBVIOUS
  <2>2. c \in D /\ h[c].parent = m
    BY <2>1, HeapFacts
  <2>3. c # Root
    BY <1>3, <1>6, <2>1, <2>2 DEF NoNode
  <2>4. CASE c = n
    BY <1>13, <2>4
  <2>5. CASE c # n
    BY <1>14, <2>2, <2>3, <2>5
  <2> QED
    BY <2>4, <2>5
<1>19. Subtree(h, n) = S
  BY <1>1 DEF S
<1> QED
  BY <1>13, <1>14, <1>15, <1>16, <1>17, <1>18, <1>19

\* The tests that a node belongs to are those of its parent and the node.
Step(h, n) == [name |-> h[n].name, board |-> h[n].board]

LEMMA PathIs ==
  ASSUME NEW h, HeapOK(h)
  PROVE  /\ Path(h)[Root] = <<>>
         /\ \A n \in DOMAIN h :
              /\ Path(h)[n] \in Seq(Steps)
              /\ n # Root => Path(h)[n] = Append(Path(h)[h[n].parent], Step(h, n))
              /\ Step(h, n) \in Steps
<1> DEFINE D == DOMAIN h
           V == Seq(Steps)
           next(g, n) == IF h[n].parent = NoNode THEN <<>> ELSE Append(g[h[n].parent], Step(h, n))
           P(g) == g = [n \in D |-> next(g, n)]
           stop == [n \in D |-> n = Root]
           base == [n \in D |-> <<>>]
           step == [n \in D |-> [v \in V |-> Append(v, Step(h, n))]]
           up == [n \in D |-> h[n].parent]
           u == CHOOSE g : P(g)
<1>1. Path(h) = u
  BY DEF Path, Step
<1>2. PICK N \in Nat : \A n \in D : n <= N
  BY TopIs
<1>3. D \in SUBSET Nat /\ Root \in D
  BY HeapFacts
<1>4. ASSUME NEW n \in D PROVE Step(h, n) \in Steps
  BY HeapFacts DEF Step, Steps
<1>5. base \in [D -> V] /\ step \in [D -> [V -> V]]
  <2>1. <<>> \in V
    BY EmptySeq
  <2>2. \A n \in D : \A v \in V : Append(v, Step(h, n)) \in V
    BY <1>4, AppendProperties
  <2> QED
    BY <2>1, <2>2
<1>6. ASSUME NEW n \in D, ~stop[n] PROVE up[n] \in D /\ up[n] < n
  BY <1>6, PlaceIs
<1>7. \A n \in D : /\ n = Root <=> h[n].parent = NoNode
                   /\ n # Root => h[n].parent \in D /\ h[n].parent < n
  BY PlaceIs, HeapFacts
<1> HIDE DEF V
<1>8. PICK f : Recursive(f, D, V, stop, base, step, up)
  <2>1. Recursion(D, V, stop, base, step, up)
    <3> HIDE DEF D, stop, base, step, up
    <3> QED
      BY <1>2, <1>3, <1>5, <1>6 DEF Recursion
  <2> HIDE DEF D, stop, base, step, up
  <2> QED
    BY <2>1, RecursionDown
<1>9. f \in [D -> V] /\ \A n \in D : f[n] = IF stop[n] THEN base[n] ELSE step[n][f[up[n]]]
  BY <1>8 DEF Recursive
<1>10. ASSUME NEW n \in D PROVE f[n] = next(f, n)
  <2>1. CASE n = Root
    BY <1>7, <1>9, <2>1
  <2>2. CASE n # Root
    <3>1. h[n].parent \in D /\ h[n].parent # NoNode
      BY <1>7, <2>2
    <3>2. f[h[n].parent] \in V /\ f[n] = step[n][f[h[n].parent]]
      BY <1>9, <2>2, <3>1
    <3> QED
      BY <3>1, <3>2
  <2> QED
    BY <2>1, <2>2
<1>11. P(f)
  BY <1>9, <1>10
<1> HIDE DEF P
<1>12. P(u)
  BY <1>11
<1> HIDE DEF u
<1>13. u = [n \in D |-> next(u, n)]
  BY <1>12 DEF P
<1>14. ASSUME NEW n \in D
       PROVE  u[n] = IF n = Root THEN <<>> ELSE Append(u[h[n].parent], Step(h, n))
  <2>1. u[n] = next(u, n)
    BY <1>13
  <2> QED
    BY <1>7, <2>1
<1> DEFINE Bad == {n \in D : u[n] \notin V}
<1>15. Bad = {}
  <2> SUFFICES ASSUME Bad # {} PROVE FALSE
    OBVIOUS
  <2>1. Bad \in SUBSET Nat
    BY <1>3
  <2>2. PICK n \in Bad : \A m \in Bad : n <= m
    BY <2>1, LeastNumber
  <2>3. n \in D /\ u[n] \notin V
    BY <2>2
  <2>4. n # Root
    <3>1. <<>> \in V
      BY EmptySeq DEF V
    <3> QED
      BY <1>14, <2>3, <3>1
  <2>5. u[n] = Append(u[h[n].parent], Step(h, n)) /\ h[n].parent \in D /\ h[n].parent < n
    BY <1>7, <1>14, <2>3, <2>4
  <2>6. u[h[n].parent] \notin V
    BY <1>4, <2>3, <2>5, AppendProperties DEF V
  <2>7. h[n].parent \in Bad
    BY <2>5, <2>6
  <2> HIDE DEF Bad
  <2>8. n <= h[n].parent
    BY <2>2, <2>7
  <2> QED
    BY <1>3, <2>3, <2>5, <2>8
<1>16. \A n \in D : u[n] \in V
  BY <1>15
<1> QED
  BY <1>1, <1>3, <1>4, <1>14, <1>16 DEF V

\* next() leads to a node below ROOT, or is over.
LEMMA SuccessorIs ==
  ASSUME NEW h, HeapOK(h), NEW n \in DOMAIN h
  PROVE  Successor(h, n) \in (DOMAIN h \ {Root}) \union {NoNode}
<1>1. CASE h[n].children # <<>>
  <2>1. Len(h[n].children) \in Nat /\ Len(h[n].children) >= 1
    BY <1>1, HeapFacts, EmptySeq
  <2>2. h[n].children[1] \in DOMAIN h /\ h[h[n].children[1]].parent = n /\ n # NoNode
    BY <2>1, HeapFacts DEF NoNode
  <2>3. h[n].children[1] # Root
    BY <2>2, HeapFacts
  <2> QED
    BY <1>1, <2>2, <2>3 DEF Successor
<1>2. CASE h[n].children = <<>>
  BY <1>2, UpNextIs DEF Successor
<1> QED
  BY <1>1, <1>2

-----------------------------------------------------------------------------
(* What is done to the tree *)

LEMMA FirstTree == HeapOK([n \in {Root} |-> Node(NoTest, NoNode)])
<1> DEFINE h == [n \in {Root} |-> Node(NoTest, NoNode)]
<1>1. DOMAIN h = {1} /\ h[1] = Node(0, 0) /\ Root = 1
  BY DEF Root, NoTest, NoNode
<1>2. h[1].name = 0 /\ h[1].board = 0 /\ h[1].parent = 0 /\ h[1].children = <<>>
  BY <1>1 DEF Node, NoBoard
<1>3. Node(0, 0) \in Record
  BY TestChainAssumption DEF Node, Record, NoBoard
<1>4. IsInjective(<<>>) /\ Range(<<>>) = {}
  BY DEF IsInjective, Range
<1>5. h \in [DOMAIN h -> Record]
  BY <1>1, <1>3
<1> HIDE DEF h
<1>6. DOMAIN h \subseteq 1..1
  BY <1>1
<1>7. {m \in DOMAIN h : h[m].parent = 1} = {}
  BY <1>1, <1>2
<1> QED
  BY <1>1, <1>2, <1>4, <1>5, <1>6, <1>7 DEF HeapOK, NoNode, h

\* What a new test does to the nodes.
Grown(g, h, name, p) ==
  LET t == Top(h) + 1 IN
  /\ HeapOK(g)
  /\ t \notin DOMAIN h /\ DOMAIN g = DOMAIN h \union {t}
  /\ g[t].name = name /\ g[t].board = NoBoard
  /\ g[t].parent = p /\ g[t].children = <<>>
  /\ \A n \in DOMAIN h :
       /\ g[n].name = h[n].name /\ g[n].board = h[n].board
       /\ g[n].parent = h[n].parent
       /\ g[n].children = IF n = p THEN Append(h[n].children, t) ELSE h[n].children

\* A new child comes last among its siblings and changes nothing else.
LEMMA WithChildIs ==
  ASSUME NEW h, HeapOK(h), NEW name \in TestNumbers, NEW p \in DOMAIN h
  PROVE  Grown(WithChild(h, name, p), h, name, p)
<1> DEFINE g == WithChild(h, name, p)
           t == Top(h) + 1
           r == [h[p] EXCEPT !.children = Append(@, t)]
<1>1. PICK N \in Nat : DOMAIN h \subseteq 1..N
  BY DEF HeapOK
<1>2. /\ t \in Nat /\ t > 1 /\ t \notin DOMAIN h /\ \A n \in DOMAIN h : n \in Nat /\ n >= 1 /\ n < t
      /\ Root \in DOMAIN h
  BY TopIs, HeapFacts
<1>3. /\ DOMAIN g = DOMAIN h \union {t}
      /\ g[t] = Node(name, p)
      /\ \A n \in DOMAIN h : g[n] = IF n = p THEN r ELSE h[n]
  BY <1>2 DEF WithChild
<1> HIDE DEF g, t
<1>4. \A n \in DOMAIN h : h[n] \in Record /\ h[n].children \in Seq(Nat)
  BY HeapFacts
<1>5. r.name = h[p].name /\ r.board = h[p].board /\ r.parent = h[p].parent
      /\ r.children = Append(h[p].children, t) /\ r \in Record
  <2>1. Append(h[p].children, t) \in Seq(Nat)
    BY <1>2, <1>4, AppendProperties
  <2> QED
    BY <1>4, <2>1 DEF Record
<1>6. /\ g[t].name = name /\ g[t].board = NoBoard
      /\ g[t].parent = p /\ g[t].children = <<>> /\ g[t] \in Record
  BY <1>2, <1>3, TestChainAssumption DEF Node, Record, NoBoard, TestNumbers
<1> HIDE DEF r
<1>7. \A n \in DOMAIN h :
        /\ g[n].name = h[n].name /\ g[n].board = h[n].board
        /\ g[n].parent = h[n].parent /\ g[n] \in Record
        /\ g[n].children = IF n = p THEN Append(h[n].children, t) ELSE h[n].children
  BY <1>3, <1>4, <1>5
<1>8. HeapOK(g)
  <2>1. g \in [DOMAIN g -> Record]
    <3>1. \A n \in DOMAIN g : g[n] \in Record
      BY <1>3, <1>6, <1>7
    <3>2. g = [n \in DOMAIN g |-> g[n]]
      BY DEF g, WithChild
    <3> QED
      BY <3>1, <3>2
  <2>2. Root \in DOMAIN g /\ \E M \in Nat : DOMAIN g \subseteq 1..M
    <3>1. N + t \in Nat /\ DOMAIN g \subseteq 1..(N + t)
      BY <1>1, <1>2, <1>3
    <3> QED
      BY <1>2, <1>3, <3>1
  <2>3. ASSUME NEW n \in DOMAIN g
        PROVE  /\ g[n].parent = NoNode <=> n = Root
               /\ n # Root => g[n].parent \in DOMAIN g /\ g[n].parent < n
    <3>1. CASE n = t
      BY <1>2, <1>3, <1>6, <3>1 DEF NoNode, Root
    <3>2. CASE n \in DOMAIN h
      BY <1>3, <1>7, <3>2, HeapFacts
    <3> QED
      BY <1>3, <3>1, <3>2
  <2>4. ASSUME NEW n \in DOMAIN h, n # p
        PROVE  IsInjective(g[n].children) /\ Range(g[n].children) = {m \in DOMAIN g : g[m].parent = n}
    <3>1. g[n].children = h[n].children
      BY <1>7, <2>4
    <3>2. {m \in DOMAIN g : g[m].parent = n} = {m \in DOMAIN h : h[m].parent = n}
      BY <1>3, <1>6, <1>7, <2>4
    <3> QED
      BY <3>1, <3>2, HeapFacts
  <2>5. IsInjective(g[t].children) /\ Range(g[t].children) = {m \in DOMAIN g : g[m].parent = t}
    <3>1. IsInjective(<<>>) /\ Range(<<>>) = {}
      BY DEF IsInjective, Range
    <3>2. \A m \in DOMAIN g : g[m].parent # t
      <4>1. \A m \in DOMAIN h : h[m].parent \in DOMAIN h \/ h[m].parent = NoNode
        BY HeapFacts
      <4>2. t # NoNode /\ p # t
        BY <1>2 DEF NoNode
      <4> QED
        BY <1>2, <1>3, <1>6, <1>7, <4>1, <4>2
    <3> QED
      BY <1>6, <3>1, <3>2
  <2>6. IsInjective(g[p].children) /\ Range(g[p].children) = {m \in DOMAIN g : g[m].parent = p}
    <3> DEFINE c == h[p].children
               d == Append(c, t)
               k == Len(c)
    <3>1. /\ k \in Nat /\ DOMAIN c = 1..k /\ DOMAIN d = 1..(k + 1)
          /\ \A i \in 1..k : d[i] = c[i]
          /\ d[k + 1] = t
      BY <1>2, <1>4, Appended
    <3>2. IsInjective(c) /\ Range(c) = {m \in DOMAIN h : h[m].parent = p}
      BY HeapFacts
    <3>3. g[p].children = d
      BY <1>7
    <3> HIDE DEF c, d, k
    <3>4. \A i \in 1..k : c[i] # t
      BY <1>2, <3>1, <3>2 DEF Range
    <3>5. \A i \in 1..(k + 1) : i \in 1..k \/ i = k + 1
      BY <3>1
    <3>6. IsInjective(d)
      <4> SUFFICES ASSUME NEW i \in 1..(k + 1), NEW j \in 1..(k + 1), d[i] = d[j] PROVE i = j
        BY <3>1 DEF IsInjective
      <4>1. CASE i \in 1..k /\ j \in 1..k
        BY <3>1, <3>2, <4>1 DEF IsInjective
      <4>2. CASE i = k + 1 \/ j = k + 1
        BY <3>1, <3>4, <3>5, <4>2
      <4> QED
        BY <3>5, <4>1, <4>2
    <3>7. Range(d) = Range(c) \union {t}
      <4>1. \A x \in Range(d) : x \in Range(c) \/ x = t
        BY <3>1, <3>5 DEF Range
      <4>2. \A x \in Range(c) : x \in Range(d)
        <5>1. \A i \in 1..k : i \in 1..(k + 1)
          BY <3>1
        <5> QED
          BY <3>1, <5>1 DEF Range
      <4>3. t \in Range(d)
        <5>1. k + 1 \in 1..(k + 1)
          BY <3>1
        <5> QED
          BY <3>1, <5>1 DEF Range
      <4> QED
        BY <4>1, <4>2, <4>3
    <3>8. {m \in DOMAIN g : g[m].parent = p} = {m \in DOMAIN h : h[m].parent = p} \union {t}
      BY <1>3, <1>6, <1>7
    <3> QED
      BY <3>2, <3>3, <3>6, <3>7, <3>8
  <2>7. ASSUME NEW n \in DOMAIN g
        PROVE  IsInjective(g[n].children) /\ Range(g[n].children) = {m \in DOMAIN g : g[m].parent = n}
    BY <1>3, <2>4, <2>5, <2>6
  <2> QED
    BY <2>1, <2>2, <2>3, <2>7 DEF HeapOK
<1> QED
  BY <1>2, <1>3, <1>6, <1>7, <1>8 DEF g, t, Grown

\* What one more copy of a test, and of all that belongs to it, does to the nodes.
Copied(g, h, n, b) ==
  LET S == Subtree(h, n)
      t == Top(h)
      k == Index(Siblings(h, n), n) + b - 1
  IN  /\ DOMAIN g = DOMAIN h \union {s + t : s \in S}
      /\ g = [m \in DOMAIN g |-> g[m]]
      /\ \A m \in DOMAIN h :
           /\ g[m].name = h[m].name /\ g[m].board = h[m].board
           /\ g[m].parent = h[m].parent /\ g[m] \in Record
           /\ g[m].children = IF m = h[n].parent
                                THEN InsertAt(h[m].children, k, n + t)
                                ELSE h[m].children
      /\ \A s \in S :
           /\ s + t \notin DOMAIN h /\ s + t > t /\ g[s + t] \in Record
           /\ g[s + t].name = h[s].name
           /\ g[s + t].board = IF s = n THEN b ELSE h[s].board
           /\ g[s + t].parent = IF s = n THEN h[n].parent ELSE h[s].parent + t
           /\ g[s + t].children = [i \in DOMAIN h[s].children |-> h[s].children[i] + t]

\* multiply() inserts the copy of a subtree and changes nothing else.
LEMMA CopyIs ==
  ASSUME NEW h, HeapOK(h), NEW n \in DOMAIN h \ {Root}, NEW b \in 0..NumBoards,
         Index(Siblings(h, n), n) + b - 1 \in 1..(Len(Siblings(h, n)) + 1)
  PROVE  Copied(Multiplied(h, n, b), h, n, b)
<1> DEFINE g == Multiplied(h, n, b)
           c == Clone(h, n)
           S == Subtree(h, n)
           t == Top(h)
           p == h[n].parent
           k == Index(Siblings(h, n), n) + b - 1
           copy(s) == [h[s] EXCEPT !.parent = IF s = n THEN @ ELSE @ + t,
                                   !.children = [i \in DOMAIN @ |-> @[i] + t]]
<1>1. /\ S \subseteq DOMAIN h /\ n \in S /\ p \in DOMAIN h /\ p \notin S
      /\ t \in Nat /\ t \in DOMAIN h
      /\ \A m \in DOMAIN h : m \in Nat /\ m >= 1 /\ m <= t
  BY SubtreeIs, PlaceIs, TopIs, HeapFacts
<1>2. \A s \in S : s + t \notin DOMAIN h /\ s + t > t /\ (s + t) - t = s
  BY <1>1
<1>3. DOMAIN c = DOMAIN h \union {s + t : s \in S}
  BY DEF Clone
<1>4. \A m \in DOMAIN h : c[m] = h[m]
  BY DEF Clone
<1>5. \A s \in S : c[s + t] = copy(s)
  <2> TAKE s \in S
  <2>1. s + t \in DOMAIN c /\ s + t \notin DOMAIN h /\ (s + t) - t = s
    BY <1>2, <1>3
  <2>2. c[s + t] = LET of == (s + t) - t IN
            [h[of] EXCEPT !.parent = IF of = n THEN @ ELSE @ + t,
                          !.children = [i \in DOMAIN @ |-> @[i] + t]]
    BY <2>1 DEF Clone
  <2> QED
    BY <2>1, <2>2
<1>6. \A s \in DOMAIN h : h[s] \in Record /\ h[s].children \in Seq(Nat) /\ h[s].parent \in Nat
                          /\ DOMAIN h[s].children = 1..Len(h[s].children) /\ Len(h[s].children) \in Nat
                          /\ \A i \in 1..Len(h[s].children) : h[s].children[i] \in Nat
  <2>1. \A s \in DOMAIN h : \A i \in 1..Len(h[s].children) : h[s].children[i] \in DOMAIN h
    BY HeapFacts
  <2> QED
    BY <1>1, <2>1, HeapFacts
<1>7. ASSUME NEW s \in S
      PROVE  /\ copy(s).name = h[s].name /\ copy(s).board = h[s].board
             /\ copy(s).parent = IF s = n THEN p ELSE h[s].parent + t
             /\ copy(s).children = [i \in DOMAIN h[s].children |-> h[s].children[i] + t]
             /\ copy(s) \in Record
  <2>1. h[s] \in Record
    BY <1>1, <1>6
  <2> DEFINE cc == [i \in DOMAIN h[s].children |-> h[s].children[i] + t]
  <2>2. cc \in Seq(Nat)
    <3>1. Len(h[s].children) \in Nat /\ cc \in [1..Len(h[s].children) -> Nat]
      BY <1>1, <1>6, SMTT(30)
    <3> HIDE DEF cc
    <3>2. \E m \in Nat : cc \in [1..m -> Nat]
      BY <3>1
    <3> QED
      BY <3>2, SeqDef
  <2> DEFINE pp == IF s = n THEN h[s].parent ELSE h[s].parent + t
  <2>3. pp \in Nat
    BY <1>1, <1>6
  <2>4. copy(s) = [h[s] EXCEPT !.parent = pp, !.children = cc]
    OBVIOUS
  <2> HIDE DEF cc, pp, copy
  <2>5. /\ copy(s).name = h[s].name /\ copy(s).board = h[s].board
        /\ copy(s).parent = pp /\ copy(s).children = cc
    BY <2>1, <2>4 DEF Record
  <2>6. copy(s) \in Record
    BY <2>1, <2>2, <2>3, <2>4 DEF Record
  <2> QED
    BY <2>5, <2>6 DEF cc, pp
<1>8. g = [c EXCEPT ![n + t].board = b,
                    ![p].children = InsertAt(@, Index(@, n) + b - 1, n + t)]
  BY DEF Multiplied
<1>9. n + t \in DOMAIN c /\ p \in DOMAIN c /\ n + t # p
  BY <1>1, <1>2, <1>3
<1>10. c[p].children = h[p].children /\ Siblings(h, n) = h[p].children
  BY <1>1, <1>4 DEF Siblings
<1> HIDE DEF g, c, copy, S, t, p
<1>11. /\ DOMAIN g = DOMAIN c
       /\ \A m \in DOMAIN c : g[m] =
            IF m = p THEN [c[p] EXCEPT !.children = InsertAt(@, Index(@, n) + b - 1, n + t)]
            ELSE IF m = n + t THEN [c[n + t] EXCEPT !.board = b] ELSE c[m]
  BY <1>8, <1>9
<1>12. g = [m \in DOMAIN g |-> g[m]]
  BY <1>8
<1>13. InsertAt(h[p].children, k, n + t) \in Seq(Nat)
  <2>1. n + t \in Nat /\ h[p].children \in Seq(Nat) /\ k \in 1..(Len(h[p].children) + 1)
    BY <1>1, <1>6, <1>10
  <2> HIDE DEF k
  <2> QED
    BY <2>1, Inserted
<1>14. ASSUME NEW m \in DOMAIN h
       PROVE  /\ g[m].name = h[m].name /\ g[m].board = h[m].board
              /\ g[m].parent = h[m].parent /\ g[m] \in Record
              /\ g[m].children = IF m = p THEN InsertAt(h[m].children, k, n + t)
                                          ELSE h[m].children
  <2>1. CASE m = p
    <3> DEFINE e == InsertAt(h[p].children, k, n + t)
    <3>1. g[p] = [h[p] EXCEPT !.children = e]
      BY <1>1, <1>4, <1>9, <1>10, <1>11
    <3>2. h[p] \in Record
      BY <1>1, <1>6
    <3>3. e \in Seq(Nat)
      BY <1>13
    <3> HIDE DEF e, k
    <3>4. /\ g[p].name = h[p].name /\ g[p].board = h[p].board
          /\ g[p].parent = h[p].parent /\ g[p] \in Record /\ g[p].children = e
      BY <3>1, <3>2, <3>3 DEF Record
    <3> QED
      BY <2>1, <3>4 DEF e
  <2>2. CASE m # p
    <3>1. m \in DOMAIN c /\ m # n + t
      BY <1>1, <1>2, <1>3
    <3>2. g[m] = h[m]
      BY <1>4, <1>11, <2>2, <3>1
    <3> QED
      BY <1>6, <2>2, <3>2
  <2> QED
    BY <2>1, <2>2
<1>15. ASSUME NEW s \in S
       PROVE  /\ s + t \notin DOMAIN h /\ s + t > t /\ g[s + t] \in Record
              /\ g[s + t].name = h[s].name
              /\ g[s + t].board = IF s = n THEN b ELSE h[s].board
              /\ g[s + t].parent = IF s = n THEN p ELSE h[s].parent + t
              /\ g[s + t].children = [i \in DOMAIN h[s].children |-> h[s].children[i] + t]
  <2>1. s + t \in DOMAIN c /\ s + t # p
    BY <1>1, <1>2, <1>3
  <2>2. CASE s = n
    <3>1. g[s + t] = [copy(s) EXCEPT !.board = b]
      BY <1>5, <1>11, <2>1, <2>2
    <3>2. /\ copy(s).name = h[s].name /\ copy(s).parent = p
          /\ copy(s).children = [i \in DOMAIN h[s].children |-> h[s].children[i] + t]
          /\ copy(s) \in Record
      BY <1>7, <2>2
    <3>3. /\ g[s + t].name = copy(s).name /\ g[s + t].board = b
          /\ g[s + t].parent = copy(s).parent /\ g[s + t].children = copy(s).children
          /\ g[s + t] \in Record
      BY <3>1, <3>2 DEF Record
    <3> QED
      BY <1>2, <2>2, <3>2, <3>3
  <2>3. CASE s # n
    <3>1. s + t # n + t
      BY <1>1, <2>3
    <3>2. g[s + t] = copy(s)
      BY <1>5, <1>11, <2>1, <3>1
    <3> QED
      BY <1>2, <1>7, <2>3, <3>2
  <2> QED
    BY <2>2, <2>3
<1>16. DOMAIN g = DOMAIN h \union {s + t : s \in S}
  BY <1>3, <1>11
<1> QED
  BY <1>12, <1>14, <1>15, <1>16 DEF g, S, t, p, Copied

\* A sequence without repetitions into which something new was put.
LEMMA InsertedOnce ==
  ASSUME NEW S, NEW s \in Seq(S), NEW e \in S, NEW k \in 1..(Len(s) + 1),
         IsInjective(s), e \notin Range(s)
  PROVE  /\ IsInjective(InsertAt(s, k, e))
         /\ Range(InsertAt(s, k, e)) = Range(s) \union {e}
<1> DEFINE d == InsertAt(s, k, e)
           m == Len(s)
           old(i) == IF i < k THEN i ELSE i - 1
<1>1. /\ m \in Nat /\ DOMAIN s = 1..m /\ DOMAIN d = 1..(m + 1)
      /\ \A i \in 1..(k - 1) : d[i] = s[i]
      /\ d[k] = e
      /\ \A i \in (k + 1)..(m + 1) : d[i] = s[i - 1]
  BY Inserted
<1>2. k \in Nat /\ k >= 1 /\ k <= m + 1
  BY <1>1
<1> HIDE DEF d, m
<1>3. ASSUME NEW i \in 1..(m + 1), i # k PROVE old(i) \in 1..m /\ d[i] = s[old(i)]
  <2>1. CASE i < k
    BY <1>1, <1>2, <2>1
  <2>2. CASE i > k
    <3>1. i \in (k + 1)..(m + 1) /\ i - 1 \in 1..m /\ ~(i < k)
      BY <1>1, <1>2, <2>2
    <3> QED
      BY <1>1, <3>1
  <2> QED
    BY <1>2, <1>3, <2>1, <2>2
<1>4. ASSUME NEW i \in 1..(m + 1), NEW j \in 1..(m + 1), d[i] = d[j] PROVE i = j
  <2>1. CASE i # k /\ j # k
    <3>1. old(i) \in 1..m /\ old(j) \in 1..m /\ s[old(i)] = s[old(j)]
      BY <1>3, <1>4, <2>1
    <3>2. old(i) = old(j)
      BY <1>1, <3>1 DEF IsInjective
    <3> QED
      BY <1>2, <2>1, <3>2
  <2>2. CASE (i = k /\ j # k) \/ (i # k /\ j = k)
    <3>1. \A x \in 1..(m + 1) : x # k => d[x] \in Range(s)
      BY <1>1, <1>3 DEF Range
    <3> QED
      BY <1>1, <1>4, <2>2, <3>1
  <2> QED
    BY <2>1, <2>2
<1>5. IsInjective(d)
  BY <1>1, <1>4 DEF IsInjective
<1>6. ASSUME NEW x \in Range(d) PROVE x \in Range(s) \union {e}
  <2>1. PICK i \in 1..(m + 1) : x = d[i]
    BY <1>1 DEF Range
  <2>2. CASE i = k
    BY <1>1, <2>1, <2>2
  <2>3. CASE i # k
    BY <1>1, <1>3, <2>1, <2>3 DEF Range
  <2> QED
    BY <2>2, <2>3
<1>7. ASSUME NEW x \in Range(s) PROVE x \in Range(d)
  <2>1. PICK i \in 1..m : x = s[i]
    BY <1>1 DEF Range
  <2>2. CASE i < k
    <3>1. i \in 1..(k - 1) /\ i \in 1..(m + 1)
      BY <1>1, <1>2, <2>2
    <3> QED
      BY <1>1, <2>1, <3>1 DEF Range
  <2>3. CASE i >= k
    <3>1. i + 1 \in (k + 1)..(m + 1) /\ i + 1 \in 1..(m + 1) /\ (i + 1) - 1 = i
      BY <1>1, <1>2, <2>3
    <3> QED
      BY <1>1, <2>1, <3>1 DEF Range
  <2> QED
    BY <1>1, <1>2, <2>2, <2>3
<1>8. e \in Range(d)
  <2>1. k \in 1..(m + 1)
    BY <1>1, <1>2
  <2> QED
    BY <1>1, <2>1 DEF Range
<1> QED
  BY <1>5, <1>6, <1>7, <1>8 DEF d

\* The tree with the copy is a tree again, and the test has its old place in it.
LEMMA CopyOK ==
  ASSUME NEW h, HeapOK(h), NEW n \in DOMAIN h \ {Root}, NEW b \in 0..NumBoards,
         Index(Siblings(h, n), n) + b - 1 \in 1..(Len(Siblings(h, n)) + 1), b >= 2
  PROVE  LET g == Multiplied(h, n, b)
             k == Index(Siblings(h, n), n) + b - 1
         IN  /\ HeapOK(g)
             /\ Siblings(g, n) = InsertAt(Siblings(h, n), k, n + Top(h))
             /\ Index(Siblings(g, n), n) = Index(Siblings(h, n), n)
<1> DEFINE g == Multiplied(h, n, b)
           S == Subtree(h, n)
           t == Top(h)
           p == h[n].parent
           k == Index(Siblings(h, n), n) + b - 1
           c == h[p].children
           d == InsertAt(c, k, n + t)
           C == {s + t : s \in S}
<1>0. Copied(g, h, n, b)
  BY CopyIs
<1>1. /\ DOMAIN g = DOMAIN h \union C
      /\ g = [m \in DOMAIN g |-> g[m]]
      /\ \A m \in DOMAIN h :
           /\ g[m].name = h[m].name /\ g[m].board = h[m].board
           /\ g[m].parent = h[m].parent /\ g[m] \in Record
           /\ g[m].children = IF m = p THEN InsertAt(h[m].children, k, n + t) ELSE h[m].children
      /\ \A s \in S :
           /\ s + t \notin DOMAIN h /\ s + t > t /\ g[s + t] \in Record
           /\ g[s + t].name = h[s].name
           /\ g[s + t].board = IF s = n THEN b ELSE h[s].board
           /\ g[s + t].parent = IF s = n THEN p ELSE h[s].parent + t
           /\ g[s + t].children = [i \in DOMAIN h[s].children |-> h[s].children[i] + t]
  BY <1>0 DEF Copied
<1>2. /\ S \subseteq DOMAIN h /\ n \in S /\ p \in DOMAIN h /\ p \notin S
      /\ p < n /\ Root \notin S
      /\ t \in Nat /\ t \in DOMAIN h /\ Root \in DOMAIN h
      /\ \A m \in DOMAIN h : m \in Nat /\ m >= 1 /\ m <= t
      /\ \A s \in S : Range(h[s].children) \subseteq S
      /\ \A s \in S \ {n} : h[s].parent \in S
  <2>1. \A s \in S \ {n} : s \in DOMAIN h \ {Root, n}
    BY SubtreeIs
  <2> QED
    BY <2>1, SubtreeIs, PlaceIs, TopIs, HeapFacts
<1>3. /\ c = Siblings(h, n) /\ c \in Seq(Nat) /\ Len(c) \in Nat /\ k \in 1..(Len(c) + 1)
      /\ IsInjective(c) /\ Range(c) = {m \in DOMAIN h : h[m].parent = p}
      /\ Index(c, n) \in 1..Len(c) /\ c[Index(c, n)] = n /\ Index(c, n) < k
  <2>1. c = Siblings(h, n)
    BY DEF Siblings
  <2>2. /\ c \in Seq(Nat) /\ Len(c) \in Nat
        /\ IsInjective(c) /\ Range(c) = {m \in DOMAIN h : h[m].parent = p}
    BY <1>2, HeapFacts
  <2>3. Index(c, n) \in 1..Len(c) /\ c[Index(c, n)] = n
    BY <2>1, PlaceIs
  <2>4. Index(c, n) < k
    BY <2>1, <2>2, <2>3
  <2> HIDE DEF c
  <2> QED
    BY <2>1, <2>2, <2>3, <2>4
<1>4. /\ \A s \in S : (s + t) - t = s /\ s + t \in Nat
      /\ \A s \in S : s + t \notin DOMAIN h /\ s + t > t
  BY <1>1, <1>2
<1> HIDE DEF g, S, t, c, k
<1>5. n + t \notin Range(c) /\ n + t \in Nat
  BY <1>2, <1>3, <1>4
<1>6. /\ d \in Seq(Nat) /\ IsInjective(d) /\ Range(d) = Range(c) \union {n + t}
      /\ DOMAIN d = 1..(Len(c) + 1)
      /\ \A i \in 1..(k - 1) : d[i] = c[i]
  <2> DEFINE e == n + t
  <2>1. c \in Seq(Nat) /\ e \in Nat /\ k \in 1..(Len(c) + 1) /\ IsInjective(c) /\ e \notin Range(c)
    BY <1>3, <1>5
  <2> HIDE DEF e
  <2>2. IsInjective(InsertAt(c, k, e)) /\ Range(InsertAt(c, k, e)) = Range(c) \union {e}
    BY <2>1, InsertedOnce
  <2>3. /\ InsertAt(c, k, e) \in Seq(Nat) /\ DOMAIN InsertAt(c, k, e) = 1..(Len(c) + 1)
        /\ \A i \in 1..(k - 1) : InsertAt(c, k, e)[i] = c[i]
    <3> DEFINE X == Nat
    <3>1. c \in Seq(X) /\ e \in X /\ k \in 1..(Len(c) + 1)
      BY <2>1
    <3> HIDE DEF X
    <3>2. /\ InsertAt(c, k, e) \in Seq(X) /\ DOMAIN InsertAt(c, k, e) = 1..(Len(c) + 1)
          /\ \A i \in 1..(k - 1) : InsertAt(c, k, e)[i] = c[i]
      BY <3>1, Inserted
    <3> QED
      BY <3>2 DEF X
  <2> QED
    BY <2>2, <2>3 DEF e
<1>7. g[p].children = d /\ g[n].parent = p
  BY <1>1, <1>2 DEF c
<1> HIDE DEF d
<1>8. Siblings(g, n) = d
  BY <1>7 DEF Siblings
<1>9. Index(d, n) = Index(c, n)
  <2>1. Index(c, n) \in 1..(k - 1) /\ Index(c, n) \in 1..(Len(c) + 1)
    BY <1>3
  <2>2. d[Index(c, n)] = n
    BY <1>3, <1>6, <2>1
  <2>3. n \in Range(d)
    BY <1>6, <2>1, <2>2 DEF Range
  <2>4. \A i \in 1..Len(d) : d[i] = n => i = Index(d, n)
    BY <1>6, <2>3, IndexIs
  <2>5. DOMAIN d = 1..Len(d)
    BY <1>6, LenProperties
  <2> QED
    BY <1>6, <2>1, <2>2, <2>4, <2>5
<1>10. HeapOK(g)
  <2>1. g \in [DOMAIN g -> Record]
    <3>1. \A m \in DOMAIN g : g[m] \in Record
      BY <1>1
    <3> QED
      BY <1>1, <3>1
  <2>2. Root \in DOMAIN g /\ \E M \in Nat : DOMAIN g \subseteq 1..M
    <3>1. t + t \in Nat /\ \A m \in DOMAIN h : m \in 1..(t + t)
      BY <1>2
    <3>2. \A s \in S : s + t \in 1..(t + t)
      BY <1>2
    <3>3. DOMAIN g \subseteq 1..(t + t)
      BY <1>1, <3>1, <3>2
    <3> QED
      BY <1>1, <1>2, <3>1, <3>3
  <2>3. ASSUME NEW m \in DOMAIN g
        PROVE  /\ g[m].parent = NoNode <=> m = Root
               /\ m # Root => g[m].parent \in DOMAIN g /\ g[m].parent < m
    <3>1. CASE m \in DOMAIN h
      BY <1>1, <3>1, HeapFacts
    <3>2. ASSUME NEW s \in S, m = s + t
          PROVE  m # Root /\ g[m].parent \in DOMAIN g /\ g[m].parent < m /\ g[m].parent # NoNode
      <4>1. m # Root
        BY <1>1, <1>2, <3>2
      <4>2. CASE s = n
        <5>1. g[m].parent = p
          BY <1>1, <3>2, <4>2
        <5>2. m > t /\ p <= t /\ p >= 1 /\ p \in Nat /\ m \in Nat
          BY <1>2, <1>4, <3>2
        <5> QED
          BY SMTT(30), <1>1, <1>2, <4>1, <5>1, <5>2 DEF NoNode
      <4>3. CASE s # n
        <5>1. h[s].parent \in S /\ g[m].parent = h[s].parent + t /\ s \in DOMAIN h \ {Root}
          BY <1>1, <1>2, <3>2, <4>3
        <5>2. h[s].parent < s /\ h[s].parent \in Nat /\ s \in Nat /\ h[s].parent >= 1
          BY <1>2, <5>1, PlaceIs
        <5> QED
          BY <1>1, <1>2, <3>2, <4>1, <5>1, <5>2, SMTT(30) DEF NoNode
      <4> QED
        BY <4>1, <4>2, <4>3
    <3> QED
      BY <1>1, <3>1, <3>2
  <2>4. ASSUME NEW m \in DOMAIN h, m # p
        PROVE  IsInjective(g[m].children) /\ Range(g[m].children) = {q \in DOMAIN g : g[q].parent = m}
    <3>1. g[m].children = h[m].children
      BY <1>1, <2>4
    <3>2. ASSUME NEW s \in S PROVE g[s + t].parent # m
      <4>1. CASE s = n
        BY <1>1, <2>4, <4>1
      <4>2. CASE s # n
        <5>1. h[s].parent \in S /\ g[s + t].parent = h[s].parent + t
          BY <1>1, <1>2, <4>2
        <5> QED
          BY <1>4, <5>1
      <4> QED
        BY <4>1, <4>2
    <3>3. {q \in DOMAIN g : g[q].parent = m} = {q \in DOMAIN h : h[q].parent = m}
      BY <1>1, <3>2
    <3> QED
      BY <3>1, <3>3, HeapFacts
  <2>5. Range(d) = {q \in DOMAIN g : g[q].parent = p}
    <3>1. ASSUME NEW s \in S PROVE g[s + t].parent = p <=> s = n
      <4>1. CASE s = n
        BY <1>1, <4>1
      <4>2. CASE s # n
        <5>1. h[s].parent \in S /\ g[s + t].parent = h[s].parent + t
          BY <1>1, <1>2, <4>2
        <5> QED
          BY SMTT(30), <1>1, <1>2, <4>2, <5>1
      <4> QED
        BY <4>1, <4>2
    <3>2. {q \in DOMAIN g : g[q].parent = p} = {q \in DOMAIN h : h[q].parent = p} \union {n + t}
      BY <1>1, <1>2, <3>1, SMTT(30)
    <3> QED
      BY <1>3, <1>6, <3>2
  <2>6. ASSUME NEW s \in S
        PROVE  /\ IsInjective(g[s + t].children)
               /\ Range(g[s + t].children) = {q \in DOMAIN g : g[q].parent = s + t}
    <3> DEFINE a == h[s].children
               e == g[s + t].children
    <3>1. /\ e = [i \in DOMAIN a |-> a[i] + t] /\ IsInjective(a)
          /\ Range(a) = {m \in DOMAIN h : h[m].parent = s} /\ Range(a) \subseteq S
          /\ \A i \in DOMAIN a : a[i] \in Nat
      <4>1. IsInjective(a) /\ Range(a) = {m \in DOMAIN h : h[m].parent = s}
        BY <1>2, HeapFacts
      <4>2. \A i \in DOMAIN a : a[i] \in DOMAIN h
        BY <1>2, <4>1 DEF Range
      <4> QED
        BY <1>1, <1>2, <4>1, <4>2
    <3> HIDE DEF a, e
    <3>2. IsInjective(e)
      BY <1>2, <3>1 DEF IsInjective
    <3>3. ASSUME NEW x \in Range(e) PROVE x \in DOMAIN g /\ g[x].parent = s + t
      <4>1. PICK i \in DOMAIN a : x = a[i] + t
        BY <3>1, <3>3 DEF Range
      <4>2. a[i] \in S /\ a[i] \in DOMAIN h /\ h[a[i]].parent = s
        BY <3>1 DEF Range
      <4>3. a[i] # n
        BY <1>2, <4>2
      <4> QED
        BY <1>1, <4>1, <4>2, <4>3
    <3>4. ASSUME NEW x \in DOMAIN g, g[x].parent = s + t PROVE x \in Range(e)
      <4>1. x \notin DOMAIN h
        <5>1. SUFFICES ASSUME x \in DOMAIN h PROVE FALSE
          OBVIOUS
        <5>2. h[x].parent = s + t
          BY <1>1, <3>4, <5>1
        <5>3. h[x].parent \in DOMAIN h \/ h[x].parent = NoNode
          BY <5>1, HeapFacts
        <5> QED
          BY <1>1, <1>2, <5>2, <5>3 DEF NoNode
      <4>2. PICK r \in S : x = r + t
        BY <1>1, <4>1
      <4>3. r # n
        <5>1. r = n => g[x].parent = p
          BY <1>1, <4>2
        <5> QED
          BY <1>2, <1>4, <3>4, <5>1
      <4>4. h[r].parent + t = s + t /\ h[r].parent \in S
        BY <1>1, <1>2, <3>4, <4>2, <4>3
      <4>5. h[r].parent = s
        <5>1. h[r].parent \in Nat /\ s \in Nat
          BY <1>2, <4>4
        <5> QED
          BY SMTT(30), <1>2, <4>4, <5>1
      <4>6. r \in Range(a)
        BY <1>2, <3>1, <4>5
      <4> QED
        BY <3>1, <4>2, <4>6 DEF Range
    <3> QED
      BY <3>2, <3>3, <3>4 DEF e
  <2>7. ASSUME NEW m \in DOMAIN g
        PROVE  IsInjective(g[m].children) /\ Range(g[m].children) = {q \in DOMAIN g : g[q].parent = m}
    <3>1. CASE m \in DOMAIN h /\ m # p
      BY <2>4, <3>1
    <3>2. CASE m = p
      BY <1>6, <1>7, <2>5, <3>2
    <3>3. CASE m \notin DOMAIN h
      BY <1>1, <2>6, <3>3
    <3> QED
      BY <3>1, <3>2, <3>3
  <2> QED
    BY <2>1, <2>2, <2>3, <2>7 DEF HeapOK
<1> QED
  BY <1>3, <1>8, <1>9, <1>10 DEF g, k, d, t

-----------------------------------------------------------------------------
(* Types *)

\* The pieces that the user writes after the piece q.
Named(q) == [q EXCEPT !.tok = "name", !.test = @ + 1]
Signs == {">", ",", "{", "}"}
Signed(q, tok, open) == [q EXCEPT !.tok = tok, !.open = open]

\* The fields of a piece.
LEMMA PieceIs ==
  ASSUME NEW q \in Piece
  PROVE  q.test \in TestNumbers /\ q.test \in 0..MaxTests /\ q.open \in Seq(TestNumbers)
BY DEF Piece, TestNumbers

LEMMA NamedIs ==
  ASSUME NEW q \in Piece, q.test < MaxTests
  PROVE  /\ Named(q) \in Piece /\ Named(q).tok = "name"
         /\ Named(q).test = q.test + 1 /\ Named(q).open = q.open
<1> DEFINE k == q.test + 1
           x == [q EXCEPT !.tok = "name", !.test = k]
<1>1. k \in TestNumbers
  BY PieceIs, TestChainAssumption DEF TestNumbers
<1>2. Named(q) = x
  BY DEF Named
<1> HIDE DEF k
<1>3. x \in Piece /\ x.tok = "name" /\ x.test = k /\ x.open = q.open
  BY <1>1 DEF Piece
<1> QED
  BY <1>2, <1>3 DEF k

LEMMA SignedIs ==
  ASSUME NEW q \in Piece, NEW tok \in Signs, NEW open \in Seq(TestNumbers)
  PROVE  /\ Signed(q, tok, open) \in Piece /\ Signed(q, tok, open).tok = tok
         /\ Signed(q, tok, open).test = q.test /\ Signed(q, tok, open).open = open
BY DEF Piece, Signed, Signs

\* The piece written last.
LEMMA WrittenIs ==
  ASSUME UserOK
  PROVE  /\ Written \in Piece /\ Written.open # <<>>
         /\ Written.test \in TestNumbers /\ Written.open \in Seq(TestNumbers)
         /\ Last(Written.open) \in TestNumbers
         /\ Len(meant) \in Nat /\ DOMAIN meant = 1..Len(meant)
<1>1. Start \in Piece /\ Start.open # <<>>
  BY TestChainAssumption DEF Start, Piece, NoTest, TestNumbers
<1>2. ASSUME text # <<>> PROVE Last(text) \in Piece /\ Last(text).open # <<>>
  <2>1. Last(text) \in Piece /\ Last(text) = text[Len(text)] /\ Len(text) \in Nat /\ Len(text) >= 1
    BY <1>2, Fronted DEF UserOK
  <2>2. Len(text) \in DOMAIN text
    BY <2>1, LenProperties DEF UserOK
  <2> QED
    BY <2>1, <2>2 DEF UserOK
<1>3. Written \in Piece /\ Written.open # <<>>
  BY <1>1, <1>2 DEF Written
<1>4. Written.test \in TestNumbers /\ Written.open \in Seq(TestNumbers)
  BY <1>3 DEF Piece
<1>5. Last(Written.open) \in TestNumbers
  BY <1>3, <1>4, Fronted
<1>6. Len(meant) \in Nat /\ DOMAIN meant = 1..Len(meant)
  BY LenProperties DEF UserOK
<1> QED
  BY <1>3, <1>4, <1>5, <1>6

\* A piece that was just written is the piece written last.
LEMMA WrittenNext ==
  ASSUME UserOK, NEW x \in Piece, x.open # <<>>, text' = Append(text, x)
  PROVE  /\ text' \in Seq(Piece) /\ text' # <<>> /\ Written' = x
         /\ \A p \in DOMAIN text' : text'[p].open # <<>>
<1>1. /\ text' \in Seq(Piece) /\ text' # <<>> /\ Last(text') = x
      /\ DOMAIN text = 1..Len(text) /\ Len(text) \in Nat /\ DOMAIN text' = 1..(Len(text) + 1)
      /\ \A i \in 1..Len(text) : text'[i] = text[i]
      /\ text'[Len(text) + 1] = x
  BY Appended DEF UserOK
<1>2. \A i \in 1..(Len(text) + 1) : i \in 1..Len(text) \/ i = Len(text) + 1
  BY <1>1
<1>3. \A p \in DOMAIN text' : text'[p].open # <<>>
  BY <1>1, <1>2 DEF UserOK
<1> QED
  BY <1>1, <1>3 DEF Written

\* The user only writes pieces, and one number after the other.
LEMMA WriteUser ==
  ASSUME UserOK, Write
  PROVE  UserOK'
<1>1. Written \in Piece /\ Written.open # <<>>
      /\ Written.test \in TestNumbers /\ Written.open \in Seq(TestNumbers)
      /\ Last(Written.open) \in TestNumbers
      /\ Len(meant) \in Nat /\ DOMAIN meant = 1..Len(meant) /\ Written.test = Len(meant)
  BY WrittenIs DEF UserOK
<1>2. needsHV' = needsHV
  BY DEF Write
<1>3. CASE WriteTest
  <2> DEFINE x == Named(Written)
             m == IF Written.tok = ">" THEN Written.test ELSE Last(Written.open)
  <2>1. Len(meant) < MaxTests /\ text' = Append(text, x) /\ meant' = Append(meant, m)
    BY <1>3 DEF WriteTest, Named
  <2>2. x \in Piece /\ x.open = Written.open /\ x.test = Written.test + 1
    <3>1. Written \in Piece /\ Written.test < MaxTests
      BY <1>1, <2>1
    <3> QED
      BY <3>1, NamedIs
  <2>3. m \in TestNumbers
    BY <1>1
  <2> HIDE DEF x, m
  <2>4. /\ text' \in Seq(Piece) /\ Written' = x
        /\ \A p \in DOMAIN text' : text'[p].open # <<>>
    BY <1>1, <2>1, <2>2, WrittenNext
  <2>5. /\ meant' \in Seq(TestNumbers) /\ Len(meant') = Len(meant) + 1
        /\ DOMAIN meant' = 1..(Len(meant) + 1)
    BY <2>1, <2>3, Appended DEF UserOK
  <2>6. needsHV' \subseteq DOMAIN meant'
    <3>1. needsHV \subseteq 1..Len(meant)
      BY <1>1 DEF UserOK, Tests
    <3>2. 1..Len(meant) \subseteq 1..(Len(meant) + 1)
      BY <1>1
    <3> QED
      BY <1>2, <2>5, <3>1, <3>2
  <2>7. Len(meant') <= MaxTests /\ (Written').test = Len(meant')
    <3>1. (Written').test = Len(meant) + 1
      BY <1>1, <2>2, <2>4
    <3> QED
      BY <1>1, <2>1, <2>5, <3>1, TestChainAssumption
  <2> QED
    BY <2>4, <2>5, <2>6, <2>7 DEF UserOK, Tests
<1>4. ASSUME NEW tok \in Signs, NEW open \in Seq(TestNumbers), open # <<>>,
             WriteSign(tok, open)
      PROVE  UserOK'
  <2> DEFINE x == Signed(Written, tok, open)
  <2>1. text' = Append(text, x) /\ meant' = meant
    BY <1>4 DEF WriteSign, Signed
  <2>2. x \in Piece /\ x.open = open /\ x.test = Written.test
    <3>1. Written \in Piece
      BY <1>1
    <3>2. /\ Signed(Written, tok, open) \in Piece
          /\ Signed(Written, tok, open).test = Written.test
          /\ Signed(Written, tok, open).open = open
      BY <3>1, SignedIs
    <3> QED
      BY <3>2
  <2> HIDE DEF x
  <2>3. /\ text' \in Seq(Piece) /\ Written' = x
        /\ \A p \in DOMAIN text' : text'[p].open # <<>>
    BY <1>4, <2>1, <2>2, WrittenNext
  <2> QED
    BY <1>1, <1>2, <2>1, <2>2, <2>3 DEF UserOK, Tests
<1>5. CASE WriteChild \/ WriteComma
  BY <1>1, <1>4, <1>5 DEF WriteChild, WriteComma, Signs
<1>6. CASE OpenBrace
  <2>1. Append(Written.open, Written.test) \in Seq(TestNumbers)
        /\ Append(Written.open, Written.test) # <<>>
    BY <1>1, Appended
  <2> QED
    BY <1>4, <1>6, <2>1 DEF OpenBrace, Signs
<1>7. CASE CloseBrace
  <2>1. Front(Written.open) \in Seq(TestNumbers) /\ Len(Front(Written.open)) = Len(Written.open) - 1
        /\ Len(Written.open) \in Nat
    BY <1>1, Fronted
  <2>0. Len(Written.open) > 1
    BY <1>7 DEF CloseBrace
  <2>2. Front(Written.open) # <<>>
    <3> DEFINE f == Front(Written.open)
               k == Len(Written.open)
    <3>1. k \in Nat /\ k > 1 /\ Len(f) = k - 1
      BY <2>0, <2>1
    <3> HIDE DEF f, k
    <3>2. Len(f) # 0
      BY <3>1
    <3>3. f # <<>>
      BY <3>2, EmptySeq
    <3> QED
      BY <3>3 DEF f
  <2> QED
    BY <1>4, <1>7, <2>1, <2>2 DEF CloseBrace, Signs
<1> QED
  BY <1>3, <1>5, <1>6, <1>7 DEF Write

\* WithTree() marks the innermost list and changes no other.
LEMMA WithTreeIs ==
  ASSUME NEW ls \in Seq(OpenList), ls # <<>>
  PROVE  /\ WithTree(ls) \in Seq(OpenList) /\ WithTree(ls) # <<>>
         /\ Len(ls) \in Nat /\ Len(ls) >= 1 /\ Len(WithTree(ls)) = Len(ls)
         /\ DOMAIN ls = 1..Len(ls) /\ DOMAIN WithTree(ls) = 1..Len(ls)
         /\ \A d \in 1..Len(ls) : /\ WithTree(ls)[d].parent = ls[d].parent
                                 /\ WithTree(ls)[d].back = ls[d].back
         /\ Last(WithTree(ls)).some = TRUE
<1> DEFINE k == Len(ls)
           r == [ls[k] EXCEPT !.some = TRUE]
           w == [ls EXCEPT ![k] = r]
<1>1. /\ k \in Nat /\ k >= 1 /\ DOMAIN ls = 1..k /\ k \in 1..k
      /\ \A d \in 1..k : ls[d] \in OpenList
  BY EmptySeq, LenProperties, ElementOfSeq
<1>2. WithTree(ls) = w
  BY DEF WithTree
<1>3. ls[k] \in OpenList
  BY <1>1
<1>4. r \in OpenList /\ r.parent = ls[k].parent /\ r.back = ls[k].back /\ r.some = TRUE
  BY <1>3 DEF OpenList
<1> HIDE DEF r
<1>5. w \in Seq(OpenList) /\ Len(w) = k /\ \A d \in 1..k : w[d] = IF d = k THEN r ELSE ls[d]
  BY <1>1, <1>4, ExceptSeq
<1> HIDE DEF w, k
<1>6. \A d \in 1..k : w[d].parent = ls[d].parent /\ w[d].back = ls[d].back
  BY <1>4, <1>5
<1>7. Last(w) = r
  BY <1>1, <1>5 DEF Last
<1>8. w # <<>> /\ DOMAIN w = 1..k
  <2>1. Len(w) # 0
    BY <1>1, <1>5
  <2> QED
    BY <1>5, <2>1, EmptySeq, LenProperties
<1> QED
  BY <1>1, <1>2, <1>4, <1>5, <1>6, <1>7, <1>8 DEF k

\* The innermost list is one of the lists.
LEMMA InnerIs ==
  ASSUME ParserOK
  PROVE  /\ Inner \in OpenList /\ Inner = lists[Len(lists)] /\ Inner.parent \in Nodes
         /\ Inner.back \in Nat \ {0}
         /\ DOMAIN lists = 1..Len(lists) /\ Len(lists) \in Nat /\ Len(lists) >= 1
<1>1. lists \in Seq(OpenList) /\ lists # <<>>
  BY DEF ParserOK
<1>2. /\ Inner \in OpenList /\ Inner = lists[Len(lists)]
      /\ DOMAIN lists = 1..Len(lists) /\ Len(lists) \in Nat /\ Len(lists) >= 1
  BY <1>1, Fronted, LenProperties DEF Inner
<1>3. Len(lists) \in DOMAIN lists
  BY <1>2
<1> QED
  BY <1>2, <1>3 DEF ParserOK, OpenList

\* A name is read, and its test becomes the last child of a node.
LEMMA ParseTestTypes ==
  ASSUME UserOK, ParserOK, HeapOK(heap), NEW p \in Nat \ {0}, NEW under \in Nodes, ParseTest(p, under)
  PROVE  /\ HeapOK(heap') /\ Nodes \subseteq Nodes' /\ parent' \in Nodes'
         /\ pos' \in Nat \ {0} /\ place' \in {"tree", "chain", "end"}
<1>1. p \in DOMAIN text
  <2>1. p <= Len(text) /\ DOMAIN text = 1..Len(text) /\ Len(text) \in Nat
    BY LenProperties DEF ParseTest, At, UserOK
  <2> QED
    BY <2>1
<1>2. text[p].test \in TestNumbers
  <2>1. text[p] \in Piece
    BY <1>1, ElementOfSeq, LenProperties DEF UserOK
  <2> QED
    BY <2>1, PieceIs
<1>3. heap' = WithChild(heap, text[p].test, under)
  BY DEF ParseTest
<1>4. HeapOK(heap') /\ DOMAIN heap' = DOMAIN heap \union {Top(heap) + 1}
  <2> DEFINE name == text[p].test
  <2>1. name \in TestNumbers /\ under \in DOMAIN heap /\ heap' = WithChild(heap, name, under)
    BY <1>2, <1>3 DEF Nodes
  <2> HIDE DEF name
  <2>2. Grown(heap', heap, name, under)
    BY <2>1, WithChildIs
  <2> QED
    BY <2>2 DEF Grown
<1> QED
  BY <1>4 DEF ParseTest, Nodes

\* The parser keeps the types.
LEMMA ParseTypes ==
  ASSUME Types, Parse
  PROVE  HeapOK(heap') /\ Nodes \subseteq Nodes' /\ ParserOK'
<1>1. /\ Inner \in OpenList /\ Inner = lists[Len(lists)] /\ Inner.parent \in Nodes
      /\ Inner.back \in Nat \ {0}
      /\ DOMAIN lists = 1..Len(lists) /\ Len(lists) \in Nat /\ Len(lists) >= 1
  BY InnerIs DEF Types
<1>2. /\ pos \in Nat \ {0} /\ parent \in Nodes /\ lists \in Seq(OpenList) /\ lists # <<>>
      /\ \A d \in DOMAIN lists : lists[d].parent \in Nodes
      /\ HeapOK(heap)
  BY DEF Types, ParserOK
<1>3. \A tok : Past(pos, tok) \in Nat \ {0}
  BY <1>2 DEF Past
<1>4. ASSUME NEW p \in Nat \ {0}, NEW under \in Nodes, ParseTest(p, under), UNCHANGED lists
      PROVE  HeapOK(heap') /\ Nodes \subseteq Nodes' /\ ParserOK'
  BY <1>2, <1>4, ParseTestTypes DEF Types, ParserOK
<1>5. ASSUME heap' = heap, parent' = parent, pos' \in Nat \ {0}, place' \in {"tree", "chain", "end"},
             lists' \in Seq(OpenList), lists' # <<>>,
             \A d \in DOMAIN lists' : lists'[d].parent \in Nodes
      PROVE  HeapOK(heap') /\ Nodes \subseteq Nodes' /\ ParserOK'
  BY <1>2, <1>5 DEF ParserOK, Nodes
<1>6. ASSUME NEW ls \in Seq(OpenList), ls # <<>>, \A d \in DOMAIN ls : ls[d].parent \in Nodes
      PROVE  /\ WithTree(ls) \in Seq(OpenList) /\ WithTree(ls) # <<>>
             /\ \A d \in DOMAIN WithTree(ls) : WithTree(ls)[d].parent \in Nodes
  BY <1>6, WithTreeIs
<1>7. CASE Tree
  <2> DEFINE p == IF Inner.some THEN Past(pos, ",") ELSE pos
  <2>1. p \in Nat \ {0} /\ UNCHANGED lists
    BY <1>2, <1>3, <1>7 DEF Tree
  <2>2. CASE ParseTest(p, ListParent)
    <3>1. ListParent \in Nodes
      BY <1>1 DEF ListParent
    <3> QED
      BY <1>4, <2>1, <2>2, <3>1
  <2>3. CASE place' = "end" /\ UNCHANGED <<heap, parent, pos>>
    BY <1>2, <1>5, <2>1, <2>3
  <2> QED
    BY <1>7, <2>2, <2>3 DEF Tree
<1>8. CASE Chain
  <2> DEFINE p == Past(pos, ">")
  <2>1. p \in Nat \ {0}
    BY <1>3
  <2>2. CASE ParseTest(p, parent) /\ UNCHANGED lists
    BY <1>2, <1>4, <2>1, <2>2
  <2>3. CASE /\ lists' = Append(lists, List(parent, pos))
             /\ pos' = p + 1 /\ place' = "tree" /\ UNCHANGED <<heap, parent>>
    <3> DEFINE l == List(parent, pos)
    <3>1. parent \in Nat
      BY <1>2, HeapFacts DEF Nodes
    <3>2. l \in OpenList /\ l.parent = parent
      BY <1>2, <3>1 DEF List, OpenList
    <3> HIDE DEF l
    <3>3. /\ lists' \in Seq(OpenList) /\ lists' # <<>>
          /\ DOMAIN lists' = 1..(Len(lists) + 1)
          /\ \A d \in 1..Len(lists) : lists'[d] = lists[d]
          /\ lists'[Len(lists) + 1] = l
      BY <1>2, <2>3, <3>2, Appended DEF l
    <3>4. \A d \in 1..(Len(lists) + 1) : d \in 1..Len(lists) \/ d = Len(lists) + 1
      BY <1>1
    <3>5. \A d \in DOMAIN lists' : lists'[d].parent \in Nodes
      BY <1>1, <1>2, <3>2, <3>3, <3>4
    <3> QED
      BY <1>5, <2>1, <2>3, <3>3, <3>5
  <2>4. CASE /\ lists' = WithTree(lists)
             /\ place' = "tree" /\ UNCHANGED <<heap, parent, pos>>
    BY <1>2, <1>5, <1>6, <2>4
  <2> QED
    BY <1>8, <2>2, <2>3, <2>4 DEF Chain
<1>9. CASE Bracket
  <2>1. /\ Len(lists) > 1 /\ pos' = IF At(pos, "}") THEN pos + 1 ELSE Inner.back
        /\ lists' = WithTree(Front(lists)) /\ place' = "tree" /\ UNCHANGED <<heap, parent>>
    BY <1>9 DEF Bracket
  <2>2. /\ Front(lists) \in Seq(OpenList) /\ Len(Front(lists)) = Len(lists) - 1
        /\ \A i \in 1..(Len(lists) - 1) : Front(lists)[i] = lists[i]
    BY <1>2, Fronted
  <2> DEFINE ls == Front(lists)
  <2> HIDE DEF ls
  <2>3. ls \in Seq(OpenList) /\ ls # <<>> /\ \A d \in DOMAIN ls : ls[d].parent \in Nodes
    <3>1. /\ ls \in Seq(OpenList) /\ Len(ls) = Len(lists) - 1
          /\ \A i \in 1..(Len(lists) - 1) : ls[i] = lists[i]
      BY <2>2 DEF ls
    <3>2. ls # <<>> /\ DOMAIN ls = 1..Len(ls)
      <4>1. Len(ls) # 0
        <5>1. Len(lists) > 1
          BY <2>1
        <5> QED
          BY <1>1, <3>1, <5>1
      <4> QED
        BY <3>1, <4>1, EmptySeq, LenProperties
    <3>3. \A d \in DOMAIN ls : d \in DOMAIN lists /\ ls[d] = lists[d]
      BY <1>1, <3>1, <3>2
    <3> QED
      BY <1>2, <3>1, <3>2, <3>3
  <2>4. pos' \in Nat \ {0}
    <3>1. pos' = pos + 1 \/ pos' = Inner.back
      BY <2>1
    <3> QED
      BY <1>1, <1>2, <3>1
  <2>5. lists' = WithTree(ls)
    BY <2>1 DEF ls
  <2> QED
    BY <1>5, <1>6, <2>1, <2>3, <2>4, <2>5
<1> QED
  BY <1>7, <1>8, <1>9 DEF Parse

\* The nodes and what the loop knows of them are well typed at every step.
LEMMA InitTypes ==
  ASSUME Init
  PROVE  Types
<1>1. heap = [n \in {Root} |-> Node(NoTest, NoNode)] /\ HeapOK(heap) /\ Nodes = {Root}
  BY FirstTree DEF Init, Nodes
<1>2. UserOK
  BY EmptySeq, TestChainAssumption DEF Init, UserOK, Written, Start, NoTest
<1>3. ParserOK
  <2> DEFINE l == List(Root, 1)
  <2>1. l \in OpenList /\ l.parent = Root
    BY DEF List, OpenList, Root
  <2>2. lists = <<l>> /\ place = "tree" /\ pos = 1 /\ parent = Root
    BY DEF Init
  <2> HIDE DEF l
  <2>3. lists \in Seq(OpenList) /\ lists # <<>> /\ DOMAIN lists = {1} /\ lists[1] = l
    BY <2>1, <2>2
  <2> QED
    BY <1>1, <2>1, <2>2, <2>3 DEF ParserOK
<1>4. LoopOK
  BY TestChainAssumption DEF Init, LoopOK, NoNode, NoBoard
<1> QED
  BY <1>1, <1>2, <1>3, <1>4 DEF Types

LEMMA ParserStays ==
  ASSUME ParserOK, UNCHANGED parserVars, Nodes \subseteq Nodes'
  PROVE  ParserOK'
BY DEF ParserOK, parserVars

LEMMA UserStays ==
  ASSUME UserOK, UNCHANGED userVars
  PROVE  UserOK'
BY DEF UserOK, userVars, Written, Tests

\* The loop goes on with another test.
LEMMA GoneOn ==
  ASSUME Types, UNCHANGED <<userVars, parserVars, heap, board>>,
         phase' \in {"expand", "run"}, NEW n \in Nodes, current' = Successor(heap, n)
  PROVE  Types'
<1>1. Nodes' = Nodes
  BY DEF Nodes
<1>2. UserOK' /\ ParserOK' /\ HeapOK(heap')
  BY <1>1, ParserStays, UserStays DEF Types
<1>3. current' \in (Nodes \ {Root}) \union {NoNode}
  BY SuccessorIs DEF Types, Nodes
<1>4. LoopOK'
  BY <1>1, <1>3 DEF Types, LoopOK
<1> QED
  BY <1>2, <1>4 DEF Types

\* A test gets a board.
Boarded(g, h, n, b) ==
  /\ HeapOK(g) /\ DOMAIN g = DOMAIN h
  /\ \A m \in DOMAIN h :
       /\ g[m].name = h[m].name /\ g[m].parent = h[m].parent
       /\ g[m].children = h[m].children
       /\ g[m].board = IF m = n THEN b ELSE h[m].board

\* A test gets its board and nothing else changes.
LEMMA BoardIs ==
  ASSUME NEW h, HeapOK(h), NEW n \in DOMAIN h, NEW b \in Nat, b <= NumBoards
  PROVE  Boarded([h EXCEPT ![n].board = b], h, n, b)
<1> DEFINE g == [h EXCEPT ![n].board = b]
<1>0. b \in 0..NumBoards
  BY TestChainAssumption
<1>1. \A m \in DOMAIN h : h[m] \in Record
  BY HeapFacts
<1>2. \A m \in DOMAIN h :
        /\ g[m].name = h[m].name /\ g[m].parent = h[m].parent
        /\ g[m].children = h[m].children
        /\ g[m].board = (IF m = n THEN b ELSE h[m].board)
        /\ g[m] \in Record
  BY <1>0, <1>1 DEF Record
<1>3. DOMAIN g = DOMAIN h
  OBVIOUS
<1>4. g \in [DOMAIN g -> Record]
  BY <1>2, <1>3
<1>5. \A m \in DOMAIN g : {q \in DOMAIN g : g[q].parent = m} = {q \in DOMAIN h : h[q].parent = m}
  BY <1>2, <1>3
<1>6. HeapOK(g)
  BY <1>2, <1>3, <1>4, <1>5 DEF HeapOK
<1> QED
  BY <1>2, <1>3, <1>6 DEF Boarded

\* The first loop keeps the types.
LEMMA ExpandTypes ==
  ASSUME Types, Expand
  PROVE  Types'
<1>1. /\ phase = "expand" /\ current \in Nodes \ {Root}
      /\ UNCHANGED <<userVars, parserVars>>
  BY DEF Expand, Types, LoopOK
<1>2. CASE NumBoards > 0 /\ heap' = [heap EXCEPT ![current].board = 1] /\ board' = 1
           /\ phase' = "multiply" /\ UNCHANGED current
  <2>1. 1 \in 0..NumBoards
    BY <1>2, TestChainAssumption
  <2>2. HeapOK(heap') /\ Nodes' = Nodes
        /\ \A m \in Nodes : heap'[m].parent = heap[m].parent /\ heap'[m].children = heap[m].children
    <3>1. HeapOK(heap) /\ current \in DOMAIN heap
      BY <1>1 DEF Types, Nodes
    <3>2. 1 \in Nat /\ 1 <= NumBoards
      BY <1>2, TestChainAssumption
    <3>3. Boarded(heap', heap, current, 1)
      BY <1>2, <3>1, <3>2, BoardIs
    <3> QED
      BY <3>3 DEF Boarded, Nodes
  <2>3. /\ Index(Siblings(heap, current), current) \in 1..Len(Siblings(heap, current))
        /\ Len(Siblings(heap, current)) \in Nat /\ heap[current].parent \in Nodes
    <3>1. HeapOK(heap) /\ current \in DOMAIN heap \ {Root}
      BY <1>1 DEF Types, Nodes
    <3> QED
      BY <3>1, PlaceIs DEF Nodes
  <2>4. Siblings(heap', current) = Siblings(heap, current)
    BY <1>1, <2>2, <2>3 DEF Siblings
  <2>5. LastCopy' <= Len(Siblings(heap', current'))
    BY <1>2, <2>3, <2>4 DEF LastCopy
  <2>6. UserOK' /\ ParserOK'
    BY <1>1, <2>2, ParserStays, UserStays DEF Types
  <2>7. current' # NoNode /\ board' >= 1
    <3>1. NoNode \notin DOMAIN heap
      BY HeapFacts DEF Types, NoNode
    <3> QED
      BY <1>1, <1>2, <3>1 DEF Nodes
  <2>8. LoopOK'
    BY <1>1, <1>2, <2>1, <2>2, <2>5, <2>7 DEF LoopOK
  <2> QED
    BY <2>2, <2>6, <2>8 DEF Types
<1>3. CASE current' = Successor(heap, current) /\ UNCHANGED <<heap, board, phase>>
  BY <1>1, <1>3, GoneOn
<1> QED
  BY <1>2, <1>3 DEF Expand

\* multiply() keeps the types.
LEMMA MultiplyTypes ==
  ASSUME Types, Multiply
  PROVE  Types'
<1>1. /\ phase = "multiply" /\ current \in Nodes \ {Root} /\ UNCHANGED <<userVars, parserVars>>
      /\ board \in 0..NumBoards /\ board >= 1
      /\ LastCopy <= Len(Siblings(heap, current)) /\ HeapOK(heap)
  BY DEF Multiply, Types, LoopOK
<1>2. CASE board < NumBoards /\ heap' = Multiplied(heap, current, board + 1)
           /\ board' = board + 1 /\ UNCHANGED <<phase, current>>
  <2> DEFINE b == board + 1
             i == Index(Siblings(heap, current), current)
             m == Len(Siblings(heap, current))
  <2>1. b \in 0..NumBoards /\ b >= 2 /\ b \in Nat
    BY <1>1, <1>2, TestChainAssumption
  <2>2. current \in DOMAIN heap \ {Root}
    BY <1>1 DEF Nodes
  <2>3. i \in 1..m /\ m \in Nat /\ Siblings(heap, current) \in Seq(Nat)
    BY <1>1, <2>2, PlaceIs
  <2>4. i + board - 1 <= m
    BY <1>1 DEF LastCopy
  <2>5. i + b - 1 \in 1..(m + 1)
    BY <1>1, <2>3, <2>4
  <2> HIDE DEF b
  <2>6. LET g == Multiplied(heap, current, b)
            k == Index(Siblings(heap, current), current) + b - 1
        IN  /\ HeapOK(g)
            /\ Siblings(g, current) = InsertAt(Siblings(heap, current), k, current + Top(heap))
            /\ Index(Siblings(g, current), current) = Index(Siblings(heap, current), current)
    BY <1>1, <2>1, <2>2, <2>5, CopyOK
  <2>7. Copied(Multiplied(heap, current, b), heap, current, b)
    BY <1>1, <2>1, <2>2, <2>5, CopyIs
  <2>8. heap' = Multiplied(heap, current, b)
    BY <1>2 DEF b
  <2>9. HeapOK(heap') /\ Nodes \subseteq Nodes'
    BY <2>6, <2>7, <2>8 DEF Copied, Nodes
  <2>10. Len(Siblings(heap', current)) = m + 1
    <3> DEFINE k == i + b - 1
               e == current + Top(heap)
               c == Siblings(heap, current)
               S == Nat
    <3>1. e \in S /\ c \in Seq(S)
      BY <1>1, <2>3, TopIs, HeapFacts DEF Nodes
    <3>2. Siblings(heap', current) = InsertAt(c, k, e)
      BY <2>6, <2>8
    <3>3. k \in 1..(Len(c) + 1)
      BY <2>5
    <3> HIDE DEF k, e, c, S
    <3>4. Len(InsertAt(c, k, e)) = Len(c) + 1
      BY <3>1, <3>3, Inserted
    <3> QED
      BY <3>2, <3>4 DEF c
  <2>11. Index(Siblings(heap', current), current) = i
    BY <2>6, <2>8
  <2>12. LastCopy' <= Len(Siblings(heap', current'))
    <3>1. LastCopy' = i + board' - 1 /\ Siblings(heap', current') = Siblings(heap', current)
      BY <1>2, <2>11 DEF LastCopy
    <3> HIDE DEF i, m
    <3> QED
      BY <1>1, <1>2, <2>3, <2>4, <2>10, <3>1
  <2>13. UserOK' /\ ParserOK'
    BY <1>1, <2>9, ParserStays, UserStays DEF Types
  <2>14. LoopOK'
    <3>1. current' \in Nodes' \ {Root} /\ current' # NoNode
      <4>1. current # NoNode
        BY <1>1 DEF Types, LoopOK
      <4> QED
        BY <1>1, <1>2, <2>9, <4>1
    <3>2. board' \in 0..NumBoards /\ board' >= 1
      BY <1>2, <2>1 DEF b
    <3> QED
      BY <1>1, <1>2, <2>12, <3>1, <3>2 DEF LoopOK
  <2> QED
    BY <2>9, <2>13, <2>14 DEF Types
<1>3. CASE phase' = "expand" /\ current' = Successor(heap, current) /\ UNCHANGED <<heap, board>>
  BY <1>1, <1>3, GoneOn
<1> QED
  BY <1>2, <1>3 DEF Multiply

\* Each step keeps them.
LEMMA NextTypes ==
  ASSUME Types, [Next]_vars
  PROVE  Types'
<1>1. CASE Write
  <2>1. UserOK' /\ UNCHANGED <<phase, parserVars, heap, loopVars>>
    BY <1>1, WriteUser DEF Types, Write
  <2>2. Nodes' = Nodes
    BY <2>1 DEF Nodes
  <2> QED
    BY <2>1, <2>2, ParserStays DEF Types, LoopOK, loopVars, LastCopy
<1>2. CASE Read
  <2>1. /\ needsHV' \subseteq Tests /\ phase' = "parse"
        /\ UNCHANGED <<text, meant, parserVars, heap, loopVars>>
    BY <1>2 DEF Read
  <2>2. Nodes' = Nodes
    BY <2>1 DEF Nodes
  <2>3. UserOK'
    BY <2>1 DEF Types, UserOK, Written, Tests
  <2> QED
    BY <2>1, <2>2, <2>3, ParserStays DEF Types, LoopOK, loopVars
<1>3. CASE Parse
  <2>1. HeapOK(heap') /\ Nodes \subseteq Nodes' /\ ParserOK'
    BY <1>3, ParseTypes
  <2>2. UNCHANGED <<userVars, phase, loopVars>> /\ phase = "parse"
    BY <1>3 DEF Parse
  <2> QED
    BY <2>1, <2>2, UserStays DEF Types, LoopOK, loopVars
<1>4. ASSUME UNCHANGED <<userVars, parserVars, heap, board>>, phase' \in {"expand", "run"},
             current' = Successor(heap, Root)
      PROVE  Types'
  <2>1. Root \in Nodes
    BY DEF Types, HeapOK, Nodes
  <2> QED
    BY <1>4, <2>1, GoneOn
<1>5. CASE Walk \/ Rewind
  BY <1>4, <1>5 DEF Walk, Rewind
<1>6. CASE Run
  <2>1. current \in Nodes
    BY <1>6 DEF Run, Types, LoopOK
  <2> QED
    BY <1>6, <2>1, GoneOn DEF Run
<1>7. CASE UNCHANGED vars
  BY <1>7 DEF vars, userVars, parserVars, loopVars, Types, UserOK, ParserOK, LoopOK, Written, Nodes, Tests,
              LastCopy
<1> QED
  BY <1>1, <1>2, <1>3, <1>5, <1>6, <1>7, ExpandTypes, MultiplyTypes DEF Next, Terminating

\* The invariant that all of the next theorems need.
THEOREM TypesHold == Spec => []Types
<1>1. Init => Types
  BY InitTypes
<1>2. Types /\ [Next]_vars => Types'
  BY NextTypes
<1> QED
  BY <1>1, <1>2, PTL DEF Spec

\* Whatever is written and run, each node but ROOT is just once among the children
\* of its parent and of no other node, the copies of clone() included.
THEOREM TypeCorrect == Spec => []TypeOK
<1>1. Types => TypeOK
  <2> SUFFICES ASSUME Types PROVE TypeOK
    OBVIOUS
  <2>1. \A n \in Nodes :
          /\ heap[n].name \in 0..MaxTests /\ heap[n].board \in 0..NumBoards
          /\ heap[n].parent = NoNode <=> n = Root
          /\ IsInjective(heap[n].children)
          /\ Range(heap[n].children) = {m \in Nodes : heap[m].parent = n}
    BY HeapFacts DEF Types, Nodes
  <2>2. current \in Nodes \union {NoNode}
    BY DEF Types, LoopOK
  <2> QED
    BY <2>1, <2>2 DEF Types, ParserOK, LoopOK, TypeOK
<1> QED
  BY <1>1, TypesHold, PTL

-----------------------------------------------------------------------------
(* The text is understood as it was meant *)

\* The pieces of the text by their positions.
LEMMA TextIs ==
  ASSUME UserOK, WellWritten, NEW p \in Nat \ {0}
  PROVE  /\ Len(text) \in Nat /\ DOMAIN text = 1..Len(text)
         /\ p <= Len(text) + 1 =>
              Before(p) \in Piece /\ Before(p).test \in Nat /\ Before(p).open \in Seq(TestNumbers)
         /\ p <= Len(text) =>
              /\ text[p] \in Piece /\ text[p].test \in Nat /\ text[p].open \in Seq(TestNumbers)
              /\ Before(p + 1) = text[p] /\ Continues(meant, Before(p), text[p])
         /\ p = Len(text) + 1 => Before(p).test = Len(meant)
<1>1. /\ Len(text) \in Nat /\ DOMAIN text = 1..Len(text)
      /\ \A i \in 1..Len(text) : text[i] \in Piece
  BY LenProperties, ElementOfSeq DEF UserOK
<1>2. \A q \in Piece : q.test \in Nat /\ q.open \in Seq(TestNumbers)
  BY PieceIs
<1>3. Start \in Piece
  BY TestChainAssumption DEF Start, Piece, NoTest, TestNumbers
<1>4. ASSUME p <= Len(text) + 1 PROVE Before(p) \in Piece
  <2>1. CASE p = 1
    BY <1>3, <2>1 DEF Before
  <2>2. CASE p # 1
    <3>1. p - 1 \in 1..Len(text)
      BY <1>1, <1>4, <2>2
    <3> QED
      BY <1>1, <2>2, <3>1 DEF Before
  <2> QED
    BY <2>1, <2>2
<1>5. ASSUME p <= Len(text)
      PROVE  text[p] \in Piece /\ Before(p + 1) = text[p] /\ Continues(meant, Before(p), text[p])
  <2>1. p \in 1..Len(text) /\ p + 1 # 1 /\ (p + 1) - 1 = p
    BY <1>1, <1>5
  <2>2. text[p] \in Piece /\ Continues(meant, Before(p), text[p])
    BY <1>1, <2>1 DEF WellWritten
  <2>3. Before(p + 1) = text[(p + 1) - 1]
    BY <2>1 DEF Before
  <2> QED
    BY <2>1, <2>2, <2>3
<1>6. ASSUME p = Len(text) + 1 PROVE Before(p).test = Len(meant)
  <2>1. CASE text = <<>>
    <3>1. p = 1 /\ Written = Start
      BY <1>6, <2>1 DEF Written
    <3> QED
      BY <3>1 DEF Before, UserOK
  <2>2. CASE text # <<>>
    <3>1. Len(text) # 0
      BY <2>2, EmptySeq DEF UserOK
    <3>2. p # 1 /\ p - 1 = Len(text)
      BY <1>1, <1>6, <3>1
    <3>3. Before(p) = Last(text) /\ Written = Last(text)
      BY <2>2, <3>2 DEF Before, Last, Written
    <3> QED
      BY <3>3 DEF UserOK
  <2> QED
    BY <2>1, <2>2
<1> QED
  BY <1>1, <1>2, <1>4, <1>5, <1>6

\* What the user writes goes on with what he wrote before.
LEMMA WrittenWell ==
  ASSUME UserOK, WellWritten, Write
  PROVE  WellWritten'
<1>1. Written \in Piece /\ Written.open # <<>>
      /\ Written.test \in TestNumbers /\ Written.open \in Seq(TestNumbers)
      /\ Len(meant) \in Nat /\ DOMAIN meant = 1..Len(meant) /\ Written.test = Len(meant)
  BY WrittenIs DEF UserOK
<1>2. Len(text) \in Nat /\ DOMAIN text = 1..Len(text) /\ Before(Len(text) + 1) = Written
  <2>1. Len(text) \in Nat /\ DOMAIN text = 1..Len(text)
    BY LenProperties DEF UserOK
  <2>2. text = <<>> => Len(text) = 0
    OBVIOUS
  <2>3. text # <<>> => Len(text) # 0
    BY EmptySeq DEF UserOK
  <2>4. (Len(text) + 1 = 1) <=> text = <<>>
    BY <2>1, <2>2, <2>3
  <2>5. (Len(text) + 1) - 1 = Len(text)
    BY <2>1
  <2> QED
    BY <2>1, <2>4, <2>5 DEF Before, Written, Last
<1>3. ASSUME NEW x \in Piece, text' = Append(text, x), Continues(meant', Written, x),
             \A q \in Piece, y \in Piece : Continues(meant, q, y) => Continues(meant', q, y)
      PROVE  WellWritten'
  <2>1. /\ DOMAIN text' = 1..(Len(text) + 1)
        /\ \A i \in 1..Len(text) : text'[i] = text[i]
        /\ text'[Len(text) + 1] = x
    BY <1>3, Appended DEF UserOK
  <2>2. \A p \in 1..(Len(text) + 1) : Before(p)' = Before(p)
    <3>1. \A p \in 1..(Len(text) + 1) : p # 1 => p - 1 \in 1..Len(text)
      BY <1>2
    <3> QED
      BY <2>1, <3>1 DEF Before
  <2> SUFFICES ASSUME NEW p \in DOMAIN text' PROVE Continues(meant', Before(p)', text'[p])
    BY DEF WellWritten
  <2>3. CASE p \in 1..Len(text)
    <3>1. p \in Nat \ {0} /\ p <= Len(text) /\ p <= Len(text) + 1 /\ p \in 1..(Len(text) + 1)
      BY <1>2, <2>3
    <3>2. Before(p) \in Piece /\ text[p] \in Piece /\ Continues(meant, Before(p), text[p])
      BY <3>1, TextIs
    <3>3. Continues(meant', Before(p), text[p])
      BY <1>3, <3>2
    <3> QED
      BY <2>1, <2>2, <2>3, <3>1, <3>3
  <2>4. CASE p = Len(text) + 1
    <3>1. Before(p)' = Written /\ text'[p] = x
      BY <1>2, <2>1, <2>2, <2>4
    <3> QED
      BY <1>3, <3>1
  <2>5. p \in 1..Len(text) \/ p = Len(text) + 1
    BY <1>2, <2>1
  <2> QED
    BY <2>3, <2>4, <2>5
<1>4. CASE WriteTest
  <2> DEFINE x == Named(Written)
             m == IF Written.tok = ">" THEN Written.test ELSE Last(Written.open)
  <2>1. /\ Len(meant) < MaxTests /\ text' = Append(text, x) /\ meant' = Append(meant, m)
        /\ Written.tok \in {",", "{", ">"}
    BY <1>4 DEF WriteTest, Named
  <2>2. x \in Piece /\ x.open = Written.open /\ x.test = Written.test + 1 /\ x.tok = "name"
    <3>1. Written \in Piece /\ Written.test < MaxTests
      BY <1>1, <2>1
    <3> QED
      BY <3>1, NamedIs
  <2>3. m \in TestNumbers
    BY WrittenIs
  <2> HIDE DEF x
  <2>4. /\ Len(meant') = Len(meant) + 1 /\ meant'[Len(meant) + 1] = m
        /\ \A i \in 1..Len(meant) : meant'[i] = meant[i]
    <3>1. meant \in Seq(TestNumbers)
      BY DEF UserOK
    <3> DEFINE n == Append(meant, m)
    <3> HIDE DEF m
    <3>2. /\ Len(n) = Len(meant) + 1 /\ n[Len(meant) + 1] = m
          /\ \A i \in 1..Len(meant) : n[i] = meant[i]
      BY <2>3, <3>1, Appended
    <3>3. meant' = n
      BY <2>1
    <3> HIDE DEF n
    <3> QED
      BY <3>2, <3>3
  <2>5. Continues(meant', Written, x)
    <3>1. x.test = Len(meant) + 1 /\ x.test <= Len(meant')
      BY <1>1, <2>2, <2>4
    <3> QED
      BY <2>1, <2>2, <2>4, <3>1 DEF Continues
  <2>6. ASSUME NEW q \in Piece, NEW y \in Piece, Continues(meant, q, y)
        PROVE  Continues(meant', q, y)
    <3>1. CASE y.tok = "name"
      <4>1. q.test \in Nat
        BY PieceIs
      <4>2. y.test = q.test + 1 /\ y.test <= Len(meant)
        BY <2>6, <3>1 DEF Continues
      <4>3. y.test \in 1..Len(meant) /\ y.test <= Len(meant')
        BY <1>1, <2>4, <4>1, <4>2
      <4>4. meant'[y.test] = meant[y.test]
        BY <2>4, <4>3
      <4> QED
        BY <2>6, <3>1, <4>3, <4>4 DEF Continues
    <3>2. CASE y.tok # "name"
      BY <2>6, <3>2 DEF Continues
    <3> QED
      BY <3>1, <3>2
  <2> QED
    BY <1>3, <2>1, <2>2, <2>5, <2>6
<1>5. ASSUME NEW tok \in Signs, NEW open \in Seq(TestNumbers), WriteSign(tok, open),
             \A x : x.tok = tok /\ x.test = Written.test /\ x.open = open =>
                       Continues(meant, Written, x)
      PROVE  WellWritten'
  <2> DEFINE x == Signed(Written, tok, open)
  <2>1. text' = Append(text, x) /\ meant' = meant
    BY <1>5 DEF WriteSign, Signed
  <2>2. x \in Piece /\ x.open = open /\ x.test = Written.test /\ x.tok = tok
    <3>1. Written \in Piece
      BY <1>1
    <3>2. /\ Signed(Written, tok, open) \in Piece /\ Signed(Written, tok, open).tok = tok
          /\ Signed(Written, tok, open).test = Written.test
          /\ Signed(Written, tok, open).open = open
      BY <3>1, SignedIs
    <3> QED
      BY <3>2
  <2> HIDE DEF x
  <2> QED
    BY <1>3, <1>5, <2>1, <2>2
<1>6. CASE WriteChild
  BY <1>1, <1>5, <1>6 DEF WriteChild, Signs, Continues
<1>7. CASE WriteComma
  BY <1>1, <1>5, <1>7 DEF WriteComma, Signs, Continues
<1>8. CASE OpenBrace
  <2>1. Append(Written.open, Written.test) \in Seq(TestNumbers)
    BY <1>1, Appended
  <2> QED
    BY <1>5, <1>8, <2>1 DEF OpenBrace, Signs, Continues
<1>9. CASE CloseBrace
  <2>1. Front(Written.open) \in Seq(TestNumbers)
    BY <1>1, Fronted
  <2> QED
    BY <1>5, <1>9, <2>1 DEF CloseBrace, Signs, Continues
<1> QED
  BY <1>4, <1>6, <1>7, <1>8, <1>9 DEF Write

\* The first piece of a text is a name, and at first the parser is before it.
LEMMA InitReading ==
  ASSUME Init
  PROVE  ParserInv
<1>1. heap = [n \in {Root} |-> Node(NoTest, NoNode)] /\ Nodes = {1}
  BY DEF Init, Nodes, Root
<1>2. text = <<>> /\ phase = "write" /\ place = "tree" /\ pos = 1
      /\ lists = <<List(Root, 1)>>
  BY DEF Init
<1>3. WellWritten
  BY <1>2 DEF WellWritten
<1>4. Plain(heap)
  BY <1>1 DEF Plain, Node, Root
<1>5. Len(lists) = 1 /\ lists[1].parent = 1 /\ Inner = lists[1] /\ ~Inner.some
  BY <1>2 DEF List, Root, Inner, Last
<1>6. Before(pos) = Start /\ Start.test = 0 /\ Start.open = <<0>>
  BY <1>2 DEF Before, Start, NoTest
<1>7. Holds(0)
  BY <1>1 DEF Holds
<1>8. Aligned(Start)
  BY <1>5, <1>6, <1>7 DEF Aligned
<1>9. Reading
  <2>1. pos <= Len(text) + 1
    BY <1>2
  <2>2. Aligned(Before(pos))
    BY <1>6, <1>8
  <2>3. place = "tree" /\ ~Inner.some /\ pos = 1
    BY <1>2, <1>5
  <2> QED
    BY <2>1, <2>2, <2>3 DEF Reading
<1> QED
  BY <1>2, <1>3, <1>4, <1>5, <1>9 DEF ParserInv, Backs

\* Writing leaves the parser where it is, before the first piece.
LEMMA WriteReading ==
  ASSUME Types, ParserInv, Write
  PROVE  ParserInv'
<1>1. /\ phase = "write" /\ UNCHANGED <<phase, parserVars, heap>>
  BY DEF Write
<1>2. WellWritten' /\ UserOK'
  BY WrittenWell, WriteUser DEF Types, ParserInv
<1>3. Reading /\ pos = 1 /\ place = "tree" /\ ~Inner.some /\ Plain(heap)
  BY <1>1 DEF ParserInv
<1>4. Aligned(Start) /\ Start.test = 0 /\ Start.open = <<0>>
  BY <1>3 DEF Reading, Before, Start, NoTest
<1>5. Aligned(Start)'
  BY <1>1, <1>4 DEF Aligned, Holds, Nodes, parserVars, Start
<1>6. Len(lists) = 1
  BY <1>4 DEF Aligned
<1>7. Before(pos)' = Start /\ Len(text') \in Nat
  BY <1>1, <1>2, <1>3, LenProperties DEF Before, parserVars, Start, UserOK
<1>8. Reading'
  <2>1. pos' <= Len(text') + 1
    BY <1>1, <1>3, <1>7 DEF parserVars
  <2>2. Aligned(Before(pos))'
    BY <1>5, <1>7 DEF Start
  <2>3. place' = "tree" /\ ~Inner'.some /\ pos' = 1
    BY <1>1, <1>3 DEF parserVars, Inner
  <2> QED
    BY <2>1, <2>2, <2>3 DEF Reading
<1> QED
  BY <1>1, <1>2, <1>3, <1>6, <1>8 DEF ParserInv, Backs, parserVars, Inner

\* The parser begins before the first piece.
LEMMA ReadReading ==
  ASSUME Types, ParserInv, Read
  PROVE  ParserInv'
<1>1. /\ phase = "write" /\ phase' = "parse" /\ text # <<>>
      /\ UNCHANGED <<text, meant, parserVars, heap>>
  BY DEF Read
<1>2. Reading /\ Plain(heap) /\ WellWritten /\ Backs
  BY <1>1 DEF ParserInv
<1>3. Reading' /\ WellWritten'
  BY <1>1, <1>2 DEF Reading, Aligned, Holds, Before, WellWritten, At, Nodes, parserVars, Inner, Start
<1> QED
  BY <1>1, <1>2, <1>3 DEF ParserInv, Backs, parserVars, At

\* Of a name the next node is made, for the test that was meant.
LEMMA NameParsed ==
  ASSUME Types, WellWritten, Plain(heap), UNCHANGED <<text, meant, lists>>,
         NEW q \in Piece, Aligned(q), NEW p \in Nat \ {0}, NEW under \in Nodes,
         ParseTest(p, under), NEW x, x = text[p], x.test = q.test + 1, x.open = q.open,
         under = meant[q.test + 1] + 1
  PROVE  Reading' /\ Plain(heap')
<1> DEFINE k == q.test
<1>1. p <= Len(text) /\ x.tok = "name" /\ heap' = WithChild(heap, x.test, under)
      /\ parent' = Top(heap) + 1 /\ pos' = p + 1 /\ place' = "chain"
  BY DEF ParseTest, At
<1>2. x \in Piece /\ Len(text) \in Nat /\ k \in Nat /\ x.test \in TestNumbers
  BY <1>1, TextIs, PieceIs DEF Types
<1>3. Holds(k) /\ Len(lists) = Len(q.open) /\ \A d \in 1..Len(lists) : lists[d].parent = q.open[d] + 1
  BY DEF Aligned
<1>4. Nodes = 1..(k + 1) /\ \A i \in 1..k : heap[i + 1].name = i /\ heap[i + 1].parent = meant[i] + 1
  BY <1>3 DEF Holds
<1>5. Top(heap) = k + 1
  <2>1. Top(heap) \in 1..(k + 1) /\ \A n \in 1..(k + 1) : n <= Top(heap)
    BY <1>4, TopIs DEF Types, Nodes
  <2> QED
    BY <1>2, <2>1
<1>6. Grown(heap', heap, x.test, under)
  <2>1. HeapOK(heap) /\ under \in DOMAIN heap
    BY DEF Types, Nodes
  <2> DEFINE name == x.test
  <2>2. name \in TestNumbers /\ heap' = WithChild(heap, name, under)
    BY <1>1, <1>2
  <2> HIDE DEF name
  <2>3. Grown(WithChild(heap, name, under), heap, name, under)
    BY <2>1, <2>2, WithChildIs
  <2> QED
    BY <2>2, <2>3 DEF name
<1>7. /\ Nodes' = Nodes \union {k + 2}
      /\ heap'[k + 2].name = k + 1 /\ heap'[k + 2].board = NoBoard
      /\ heap'[k + 2].parent = under /\ heap'[k + 2].children = <<>>
      /\ \A n \in Nodes :
           /\ heap'[n].name = heap[n].name /\ heap'[n].board = heap[n].board
           /\ heap'[n].parent = heap[n].parent
           /\ heap'[n].children = IF n = under THEN Append(heap[n].children, k + 2)
                                               ELSE heap[n].children
  <2>1. Top(heap) + 1 = k + 2 /\ x.test = k + 1
    BY <1>2, <1>5
  <2> QED
    BY <1>6, <2>1 DEF Grown, Nodes
<1> HIDE DEF k
<1>8. Holds(k + 1)'
  <2>1. Nodes' = 1..(k + 2) /\ (k + 1) + 1 = k + 2
    BY <1>2, <1>4, <1>7
  <2>2. heap'[(k + 1) + 1].name = k + 1 /\ heap'[(k + 1) + 1].parent = meant[k + 1] + 1
    BY <1>7, <2>1 DEF k
  <2>3. \A i \in 1..k : heap'[i + 1].name = i /\ heap'[i + 1].parent = meant[i] + 1
    <3>1. \A i \in 1..k : i + 1 \in Nodes
      BY <1>2, <1>4
    <3> QED
      BY <1>4, <1>7, <3>1
  <2>4. \A i \in 1..(k + 1) : i \in 1..k \/ i = k + 1
    BY <1>2
  <2> QED
    BY <2>1, <2>2, <2>3, <2>4 DEF Holds
<1>9. Before(pos)' = x
  <2>1. p + 1 # 1 /\ (p + 1) - 1 = p
    OBVIOUS
  <2> QED
    BY <1>1, <2>1 DEF Before
<1>10. Reading'
  <2>1. x.test = k + 1 /\ x.open = q.open
    BY DEF k
  <2>2. (Len(lists) = Len(x.open))' /\ \A d \in 1..Len(lists') : lists'[d].parent = x.open[d] + 1
    BY <1>3, <2>1
  <2>3. parent' = x.test + 1
    BY <1>1, <1>2, <1>5, <2>1
  <2>4. pos' <= Len(text') + 1
    BY <1>1, <1>2
  <2>5. Aligned(x)'
    BY <1>8, <2>1, <2>2 DEF Aligned
  <2> QED
    BY <1>1, <1>9, <2>3, <2>4, <2>5 DEF Reading
<1>11. Plain(heap')
  <2>1. heap[Root].name = NoTest /\ Root \in Nodes
    BY HeapFacts DEF Plain, Types, Nodes
  <2>2. \A n \in Nodes : /\ heap[n].board = NoBoard
                         /\ \A i, j \in DOMAIN heap[n].children :
                              i < j => heap[n].children[i] < heap[n].children[j]
    BY DEF Plain, Nodes
  <2>3. ASSUME NEW i \in DOMAIN heap'[under].children, NEW j \in DOMAIN heap'[under].children, i < j
        PROVE  heap'[under].children[i] < heap'[under].children[j]
    <3> DEFINE c == heap[under].children
               e == k + 2
               S == Nat
               d == Append(c, e)
    <3>1. c \in Seq(S) /\ e \in S /\ \A a \in 1..Len(c) : c[a] \in Nodes
      BY <1>2, HeapFacts, SMTT(30) DEF Types, Nodes
    <3>2. heap'[under].children = d
      BY <1>7
    <3>3. \A a, b \in DOMAIN c : a < b => c[a] < c[b]
      BY <2>2
    <3> HIDE DEF c, e, S
    <3>4. /\ Len(c) \in Nat /\ DOMAIN c = 1..Len(c) /\ DOMAIN d = 1..(Len(c) + 1)
          /\ \A a \in 1..Len(c) : d[a] = c[a]
          /\ d[Len(c) + 1] = e
      BY <3>1, Appended
    <3>5. \A a \in 1..Len(c) : c[a] < e
      BY <1>2, <1>4, <3>1 DEF e
    <3> HIDE DEF d
    <3>6. i \in 1..Len(c) /\ (j \in 1..Len(c) \/ j = Len(c) + 1)
      BY <2>3, <3>2, <3>4
    <3> QED
      BY <2>3, <3>2, <3>3, <3>4, <3>5, <3>6
  <2>4. \A n \in Nodes' : \A i, j \in DOMAIN heap'[n].children :
          i < j => heap'[n].children[i] < heap'[n].children[j]
    BY <1>7, <2>2, <2>3
  <2> QED
    BY <1>7, <2>1, <2>2, <2>4 DEF Plain, Nodes
<1> QED
  BY <1>10, <1>11

\* The parser is behind the piece q, and what it has done fits what the user had in
\* mind there.
LEMMA ReadingIs ==
  ASSUME Types, WellWritten, Reading
  PROVE  /\ pos \in Nat \ {0} /\ pos <= Len(text) + 1 /\ Len(text) \in Nat
         /\ Before(pos) \in Piece /\ Aligned(Before(pos))
         /\ Before(pos).test \in Nat /\ Before(pos).open \in Seq(TestNumbers)
         /\ Len(Before(pos).open) = Len(lists)
         /\ Inner.parent = Last(Before(pos).open) + 1
         /\ pos <= Len(text) => Continues(meant, Before(pos), text[pos])
         /\ pos = Len(text) + 1 => Before(pos).test = Len(meant)
<1>1. pos \in Nat \ {0} /\ pos <= Len(text) + 1
  BY DEF Types, ParserOK, Reading
<1>2. /\ Len(text) \in Nat /\ Before(pos) \in Piece /\ Before(pos).test \in Nat
      /\ Before(pos).open \in Seq(TestNumbers)
      /\ pos <= Len(text) => Continues(meant, Before(pos), text[pos])
      /\ pos = Len(text) + 1 => Before(pos).test = Len(meant)
  BY <1>1, TextIs DEF Types
<1>3. Aligned(Before(pos))
  BY DEF Reading
<1>4. Inner = lists[Len(lists)] /\ Len(lists) \in 1..Len(lists)
  BY InnerIs DEF Types
<1>5. /\ Len(lists) = Len(Before(pos).open)
      /\ lists[Len(lists)].parent = Before(pos).open[Len(lists)] + 1
  BY <1>3, <1>4 DEF Aligned
<1>6. Inner.parent = Last(Before(pos).open) + 1
  BY <1>4, <1>5 DEF Last
<1> QED
  BY <1>1, <1>2, <1>3, <1>5, <1>6

\* The piece that comes next.
LEMMA NextPiece ==
  ASSUME Types, WellWritten, NEW p \in Nat \ {0}, p <= Len(text)
  PROVE  /\ text[p] \in Piece /\ text[p].test \in Nat
         /\ p + 1 <= Len(text) + 1 /\ p + 1 \in Nat \ {0} /\ Before(p + 1) = text[p]
         /\ p + 1 <= Len(text) => Continues(meant, text[p], text[p + 1])
         /\ ~(p + 1 <= Len(text)) => text[p].test = Len(meant)
<1>1. /\ Len(text) \in Nat /\ text[p] \in Piece /\ text[p].test \in Nat /\ Before(p + 1) = text[p]
  BY TextIs DEF Types
<1>2. p + 1 \in Nat \ {0} /\ p + 1 <= Len(text) + 1
  BY <1>1
<1>3. /\ p + 1 <= Len(text) => Continues(meant, Before(p + 1), text[p + 1])
      /\ p + 1 = Len(text) + 1 => Before(p + 1).test = Len(meant)
  BY <1>2, TextIs DEF Types
<1>4. ~(p + 1 <= Len(text)) => p + 1 = Len(text) + 1
  BY <1>1
<1> QED
  BY <1>1, <1>2, <1>3, <1>4

\* Where the parser is depends on what it has made only.
LEMMA AlignedStays ==
  ASSUME NEW q, Aligned(q), UNCHANGED <<text, meant, heap>>, Len(lists') = Len(lists),
         \A d \in 1..Len(lists) : lists'[d].parent = lists[d].parent
  PROVE  Aligned(q)'
BY DEF Aligned, Holds, Nodes

LEMMA OverStays ==
  ASSUME NEW k, Holds(k), UNCHANGED <<text, meant, heap>>, k = Len(meant)
  PROVE  Holds(Len(meant))'
BY DEF Holds, Nodes

\* The beginning of a tree is read as it was meant.
LEMMA TreeReading ==
  ASSUME Types, WellWritten, text # <<>>, Reading, Plain(heap), Tree, UNCHANGED <<text, meant>>
  PROVE  (Reading \/ Over)' /\ Plain(heap') /\ UNCHANGED lists
<1>1. place = "tree" /\ UNCHANGED lists
  BY DEF Tree
<1>2. PICK q : q = Before(pos)
  OBVIOUS
<1>3. /\ pos \in Nat \ {0} /\ pos <= Len(text) + 1 /\ Len(text) \in Nat
      /\ q \in Piece /\ Aligned(q) /\ q.test \in Nat
      /\ Inner.parent = Last(q.open) + 1
      /\ pos <= Len(text) => Continues(meant, q, text[pos])
      /\ pos = Len(text) + 1 => q.test = Len(meant)
  BY <1>2, ReadingIs
<1>4. \/ ~Inner.some /\ (q.tok = "{" \/ (pos = 1 /\ q.tok = ","))
      \/ Inner.some /\ q.tok \in {"name", "}"} /\ ~At(pos, ">")
  <2>1. pos = 1 => q.tok = ","
    BY <1>2 DEF Before, Start
  <2>2. place # "chain" /\ place # "end"
    BY <1>1
  <2>3. \/ ~Inner.some /\ (q.tok = "{" \/ pos = 1)
        \/ Inner.some /\ q.tok \in {"name", "}"} /\ ~At(pos, ">")
    BY <1>2, <2>2 DEF Reading
  <2> QED
    BY <2>1, <2>3
<1>5. Inner.parent \in Nodes
  BY InnerIs DEF Types
<1>6. Holds(q.test)
  BY <1>3 DEF Aligned
<1>7. ASSUME NEW r \in Piece, r.test = q.test, r.open = q.open, r.tok \in {"{", ","},
             NEW p \in Nat \ {0}, ParseTest(p, ListParent), Continues(meant, r, text[p])
      PROVE  Reading' /\ Plain(heap')
  <2>1. At(p, "name")
    BY <1>7 DEF ParseTest
  <2>2. /\ text[p].test = q.test + 1 /\ text[p].open = q.open
        /\ meant[q.test + 1] = Last(q.open)
    BY <1>7, <2>1 DEF Continues, At
  <2>3. ListParent \in Nodes /\ ListParent = meant[q.test + 1] + 1
    BY <1>3, <1>5, <2>2 DEF ListParent
  <2> QED
    BY <1>1, <1>3, <1>7, <2>2, <2>3, NameParsed
<1>8. ASSUME place' = "end", UNCHANGED <<heap, parent, pos>>, q.test = Len(meant),
             pos <= Len(text) => text[pos].tok \notin {"name", "}"},
             At(pos, ",") => ~At(pos + 1, "name")
      PROVE  Over'
  <2>1. Holds(Len(meant))'
    BY <1>6, <1>8, OverStays
  <2> QED
    BY <1>8, <2>1 DEF Over, At
<1>9. CASE ~Inner.some
  <2>1. q.tok \in {"{", ","}
    BY <1>4, <1>9
  <2>2. CASE ParseTest(pos, ListParent)
    <3>1. pos <= Len(text)
      BY <2>2 DEF ParseTest, At
    <3> QED
      BY <1>1, <1>3, <1>7, <2>1, <2>2, <3>1
  <2>3. CASE ~At(pos, "name") /\ place' = "end" /\ UNCHANGED <<heap, parent, pos>>
    <3>1. ~(pos <= Len(text))
      BY <1>3, <2>1, <2>3 DEF Continues, At
    <3>2. pos = Len(text) + 1
      BY <1>3, <3>1
    <3>3. Over'
      BY <1>3, <1>8, <2>3, <3>1, <3>2 DEF At
    <3> QED
      BY <1>1, <2>3, <3>3
  <2> QED
    BY <1>9, <2>2, <2>3 DEF Tree
<1>10. CASE Inner.some /\ At(pos, ",")
  <2> DEFINE p == pos + 1
  <2>0. q.tok \in {"name", "}"}
    BY <1>4, <1>10
  <2>1. pos <= Len(text) /\ text[pos].tok = ","
    BY <1>10 DEF At
  <2>2. text[pos].test = q.test /\ text[pos].open = q.open
    BY <1>3, <2>1 DEF Continues
  <2>3. /\ text[pos] \in Piece /\ p \in Nat \ {0}
        /\ p <= Len(text) => Continues(meant, text[pos], text[p])
        /\ ~(p <= Len(text)) => text[pos].test = Len(meant)
    BY <1>3, <2>1, NextPiece
  <2>4. Past(pos, ",") = p
    BY <1>10 DEF Past
  <2> HIDE DEF p
  <2>5. CASE ParseTest(p, ListParent)
    <3>1. p <= Len(text)
      BY <2>5 DEF ParseTest, At
    <3> QED
      BY <1>1, <1>7, <2>1, <2>2, <2>3, <2>5, <3>1
  <2>6. CASE ~At(p, "name") /\ place' = "end" /\ UNCHANGED <<heap, parent, pos>>
    <3>1. ~(p <= Len(text))
      BY <2>1, <2>3, <2>6 DEF Continues, At
    <3>2. Over'
      BY <1>8, <2>1, <2>2, <2>3, <2>6, <3>1 DEF p
    <3> QED
      BY <1>1, <2>6, <3>2
  <2> QED
    BY <1>10, <2>4, <2>5, <2>6 DEF Tree
<1>11. CASE Inner.some /\ ~At(pos, ",")
  <2>0. q.tok \in {"name", "}"} /\ ~At(pos, ">")
    BY <1>4, <1>11
  <2>1. pos <= Len(text) => text[pos].tok = "}"
    BY <1>3, <1>11, <2>0 DEF Continues, At
  <2>2. ~At(pos, "name")
    BY <2>1 DEF At
  <2>3. Past(pos, ",") = pos
    BY <1>11 DEF Past
  <2>4. place' = "end" /\ UNCHANGED <<heap, parent, pos>>
    BY <1>11, <2>2, <2>3 DEF Tree, ParseTest
  <2>5. CASE pos <= Len(text)
    <3>1. Before(pos)' = q /\ Aligned(q)' /\ At(pos, "}")'
      BY <1>1, <1>2, <1>3, <2>1, <2>4, <2>5, AlignedStays DEF Before, Start, At
    <3>2. pos' <= Len(text') + 1
      BY <1>3, <2>4
    <3> QED
      BY <1>1, <2>0, <2>4, <3>1, <3>2 DEF Reading
  <2>6. CASE ~(pos <= Len(text))
    <3>1. pos = Len(text) + 1
      BY <1>3, <2>6
    <3>2. Over'
      BY <1>3, <1>8, <2>4, <2>6, <3>1 DEF At
    <3> QED
      BY <1>1, <2>4, <3>2
  <2> QED
    BY <2>5, <2>6
<1> QED
  BY <1>9, <1>10, <1>11

\* A chain is read as it was meant.
LEMMA ChainReading ==
  ASSUME Types, WellWritten, Backs, Reading, Plain(heap), Chain, UNCHANGED <<text, meant>>
  PROVE  (Reading \/ Over)' /\ Plain(heap') /\ Backs'
<1>1. place = "chain"
  BY DEF Chain
<1>2. PICK q : q = Before(pos)
  OBVIOUS
<1>3. /\ pos \in Nat \ {0} /\ pos <= Len(text) + 1 /\ Len(text) \in Nat
      /\ q \in Piece /\ Aligned(q) /\ q.test \in Nat /\ q.open \in Seq(TestNumbers)
      /\ Len(q.open) = Len(lists)
      /\ pos <= Len(text) => Continues(meant, q, text[pos])
      /\ pos = Len(text) + 1 => q.test = Len(meant)
  BY <1>2, ReadingIs
<1>4. q.tok = "name" /\ parent = q.test + 1
  BY <1>1, <1>2 DEF Reading
<1>5. Holds(q.test)
  BY <1>3 DEF Aligned
<1>6. lists \in Seq(OpenList) /\ lists # <<>> /\ Len(lists) \in Nat
  BY InnerIs DEF Types, ParserOK
<1>7. CASE At(pos, ">")
  <2> DEFINE p == pos + 1
  <2>1. pos <= Len(text) /\ text[pos].tok = ">"
    BY <1>7 DEF At
  <2>2. text[pos].test = q.test /\ text[pos].open = q.open
    BY <1>3, <2>1 DEF Continues
  <2>3. /\ text[pos] \in Piece /\ p \in Nat \ {0}
        /\ p <= Len(text) => /\ Continues(meant, text[pos], text[p])
                             /\ p + 1 <= Len(text) + 1 /\ Before(p + 1) = text[p]
        /\ ~(p <= Len(text)) => text[pos].test = Len(meant)
    BY <1>3, <2>1, NextPiece
  <2>4. Past(pos, ">") = p
    BY <1>7 DEF Past
  <2> HIDE DEF p
  <2>5. CASE ParseTest(p, parent) /\ UNCHANGED lists
    <3>1. p <= Len(text) /\ text[p].tok = "name"
      BY <2>5 DEF ParseTest, At
    <3>2. /\ text[p].test = q.test + 1 /\ text[p].open = q.open
          /\ meant[q.test + 1] = q.test
      BY <2>1, <2>2, <2>3, <3>1 DEF Continues
    <3>3. parent \in Nodes /\ parent = meant[q.test + 1] + 1
      BY <1>4, <3>2 DEF Types, ParserOK
    <3>4. Reading' /\ Plain(heap')
      BY <1>3, <2>3, <2>5, <3>2, <3>3, NameParsed
    <3> QED
      BY <2>5, <3>4 DEF Backs, At
  <2>6. CASE /\ At(p, "{") /\ lists' = Append(lists, List(parent, pos))
             /\ pos' = p + 1 /\ place' = "tree" /\ UNCHANGED <<heap, parent>>
    <3> DEFINE l == List(parent, pos)
               o == Append(q.open, q.test)
               m == Len(lists)
    <3>1. p <= Len(text) /\ text[p].tok = "{"
      BY <2>6 DEF At
    <3>2. text[p].test = q.test /\ text[p].open = o
      BY <2>1, <2>2, <2>3, <3>1 DEF Continues
    <3>3. l \in OpenList /\ l.parent = q.test + 1 /\ l.back = pos /\ l.some = FALSE
      BY <1>3, <1>4 DEF List, OpenList
    <3> HIDE DEF l
    <3>4. /\ Len(lists') = m + 1 /\ \A d \in 1..m : lists'[d] = lists[d]
          /\ lists'[m + 1] = l /\ Last(lists') = l
      <4>1. lists' = Append(lists, l)
        BY <2>6 DEF l
      <4> QED
        BY <1>6, <3>3, <4>1, Appended
    <3>5. Len(o) = m + 1 /\ (\A d \in 1..m : o[d] = q.open[d]) /\ o[m + 1] = q.test
      <4>1. q.test \in TestNumbers
        BY <1>3, PieceIs
      <4> QED
        BY <1>3, <4>1, Appended
    <3> HIDE DEF o, m
    <3>6. m \in Nat /\ \A d \in 1..(m + 1) : d \in 1..m \/ d = m + 1
      BY <1>6 DEF m
    <3>7. \A d \in 1..m : lists[d].parent = q.open[d] + 1
      BY <1>3 DEF Aligned, m
    <3>8. \A d \in 1..(m + 1) : lists'[d].parent = o[d] + 1
      BY <3>3, <3>4, <3>5, <3>6, <3>7
    <3>9. PICK y : y = text[p]
      OBVIOUS
    <3>10. Before(pos)' = y
      <4>1. Before(p + 1) = text[p] /\ pos' = p + 1
        BY <2>3, <2>6, <3>1
      <4> QED
        BY <3>9, <4>1 DEF Before, Start
    <3>11. Holds(q.test)'
      BY <1>5, <2>6 DEF Holds, Nodes
    <3>12. Aligned(y)'
      <4>1. y.test = q.test /\ y.open = o
        BY <3>2, <3>9
      <4> QED
        BY <3>4, <3>5, <3>8, <3>11, <4>1 DEF Aligned
    <3>13. y.tok = "{" /\ Inner' = l
      BY <3>1, <3>4, <3>9 DEF Inner
    <3>14. Reading'
      BY <2>3, <2>6, <3>1, <3>3, <3>10, <3>12, <3>13 DEF Reading
    <3>15. Backs'
      <4> SUFFICES ASSUME NEW d \in 2..(m + 1) PROVE At(lists[d].back, ">")'
        BY <3>4 DEF Backs
      <4>1. CASE d \in 2..m
        <5>1. d \in 1..m
          BY <3>6, <4>1
        <5> QED
          BY <3>4, <4>1, <5>1 DEF Backs, At, m
      <4>2. CASE d = m + 1
        BY <1>7, <3>3, <3>4, <4>2 DEF At
      <4>3. d \in 2..m \/ d = m + 1
        BY <3>6
      <4> QED
        BY <4>1, <4>2, <4>3
    <3> QED
      BY <2>6, <3>14, <3>15
  <2>7. CASE /\ ~At(p, "name") /\ ~At(p, "{")
             /\ lists' = WithTree(lists) /\ place' = "tree" /\ UNCHANGED <<heap, parent, pos>>
    <3>1. ~(p <= Len(text))
      BY <2>1, <2>3, <2>7 DEF Continues, At
    <3>2. q.test = Len(meant)
      BY <2>2, <2>3, <3>1
    <3>3. Holds(Len(meant))'
      BY <1>5, <2>7, <3>2, OverStays
    <3>4. Over'
      BY <2>1, <2>7, <3>3 DEF Over, At
    <3>5. Backs'
      <4>1. /\ Len(lists') = Len(lists)
            /\ \A d \in 1..Len(lists) : lists'[d].back = lists[d].back
        BY <1>6, <2>7, WithTreeIs
      <4>2. \A d \in 2..Len(lists) : d \in 1..Len(lists)
        BY <1>6
      <4> QED
        BY <4>1, <4>2 DEF Backs, At
    <3> QED
      BY <2>7, <3>4, <3>5
  <2> QED
    BY <2>4, <2>5, <2>6, <2>7 DEF Chain
<1>8. CASE ~At(pos, ">")
  <2>1. Past(pos, ">") = pos
    BY <1>8 DEF Past
  <2>2. ~At(pos, "name") /\ ~At(pos, "{")
    BY <1>3, <1>4 DEF Continues, At
  <2>3. lists' = WithTree(lists) /\ place' = "tree" /\ UNCHANGED <<heap, parent, pos>>
    BY <2>1, <2>2 DEF Chain, ParseTest
  <2>4. /\ Len(lists') = Len(lists)
        /\ \A d \in 1..Len(lists) : /\ lists'[d].parent = lists[d].parent
                                   /\ lists'[d].back = lists[d].back
        /\ Last(lists').some = TRUE
    BY <1>6, <2>3, WithTreeIs
  <2>5. Aligned(q)'
    BY <1>3, <2>3, <2>4, AlignedStays
  <2>6. Before(pos)' = q /\ ~At(pos, ">")' /\ pos' <= Len(text') + 1
    BY <1>2, <1>3, <1>8, <2>3 DEF Before, Start, At
  <2>7. Reading'
    BY <1>4, <2>3, <2>4, <2>5, <2>6 DEF Reading, Inner
  <2>8. Backs'
    <3>1. \A d \in 2..Len(lists) : d \in 1..Len(lists)
      BY <1>6
    <3> QED
      BY <2>3, <2>4, <3>1 DEF Backs, At
  <2> QED
    BY <2>3, <2>7, <2>8
<1> QED
  BY <1>7, <1>8

\* The end of a list is read as it was meant.
LEMMA BracketReading ==
  ASSUME Types, WellWritten, Backs, Reading, Bracket, UNCHANGED <<text, meant>>
  PROVE  Reading'
<1>1. /\ place = "end" /\ Len(lists) > 1
      /\ pos' = IF At(pos, "}") THEN pos + 1 ELSE Inner.back
      /\ lists' = WithTree(Front(lists)) /\ place' = "tree" /\ UNCHANGED <<heap, parent>>
  BY DEF Bracket
<1>2. PICK q : q = Before(pos)
  OBVIOUS
<1>3. /\ pos \in Nat \ {0} /\ Len(text) \in Nat
      /\ q \in Piece /\ Aligned(q) /\ q.test \in Nat /\ q.open \in Seq(TestNumbers)
      /\ Len(q.open) = Len(lists)
      /\ pos <= Len(text) => Continues(meant, q, text[pos])
  BY <1>2, ReadingIs
<1>4. pos <= Len(text) /\ text[pos].tok = "}" /\ pos' = pos + 1
  BY <1>1 DEF Reading, At
<1>5. PICK y : y = text[pos]
  OBVIOUS
<1>6. y.tok = "}" /\ y.test = q.test /\ y.open = Front(q.open)
  BY <1>3, <1>4, <1>5 DEF Continues
<1>7. /\ pos + 1 <= Len(text) + 1 /\ Before(pos + 1) = y
      /\ pos + 1 <= Len(text) => Continues(meant, y, text[pos + 1])
  BY <1>3, <1>4, <1>5, NextPiece
<1>8. Before(pos)' = y /\ ~At(pos, ">")'
  BY <1>4, <1>6, <1>7 DEF Before, Start, At, Continues
<1>9. lists \in Seq(OpenList) /\ lists # <<>> /\ Len(lists) \in Nat
  BY InnerIs DEF Types, ParserOK
<1>0. Len(lists) # 0 /\ Len(lists) - 1 # 0
  <2> DEFINE n == Len(lists)
  <2>1. n > 1 /\ n \in Nat
    BY <1>1, <1>9
  <2> HIDE DEF n
  <2>2. n # 0 /\ n - 1 # 0
    BY <2>1
  <2> QED
    BY <2>2 DEF n
<1> DEFINE ls == Front(lists)
           m == Len(lists) - 1
           o == Front(q.open)
<1>10. /\ ls \in Seq(OpenList) /\ Len(ls) = m /\ \A i \in 1..m : ls[i] = lists[i]
  BY <1>9, Fronted
<1>11. Len(o) = m /\ \A i \in 1..m : o[i] = q.open[i]
  <2>1. q.open # <<>>
    <3>1. Len(q.open) # 0
      BY <1>0, <1>3
    <3> QED
      BY <1>3, <3>1, EmptySeq
  <2>2. /\ Len(o) = Len(q.open) - 1 /\ \A i \in 1..(Len(q.open) - 1) : o[i] = q.open[i]
    BY <1>3, <2>1, Fronted
  <2> QED
    BY <1>3, <2>2
<1> HIDE DEF ls, o
<1>12. ls # <<>>
  <2>1. Len(ls) # 0
    BY <1>0, <1>10
  <2> QED
    BY <2>1
<1>13. /\ Len(lists') = m
       /\ \A d \in 1..m : lists'[d].parent = ls[d].parent
       /\ Last(lists').some = TRUE
  <2>1. lists' = WithTree(ls)
    BY <1>1 DEF ls
  <2>2. /\ Len(WithTree(ls)) = Len(ls) /\ \A d \in 1..Len(ls) : WithTree(ls)[d].parent = ls[d].parent
        /\ Last(WithTree(ls)).some = TRUE
    BY <1>10, <1>12, WithTreeIs
  <2> QED
    BY <1>10, <2>1, <2>2
<1>14. Aligned(y)'
  <2>1. Holds(q.test)'
    BY <1>1, <1>3 DEF Aligned, Holds, Nodes
  <2>2. \A d \in 1..m : d \in 1..Len(lists)
    BY <1>9
  <2>3. \A d \in 1..m : lists[d].parent = q.open[d] + 1
    BY <1>3, <2>2 DEF Aligned
  <2> HIDE DEF m
  <2>4. \A d \in 1..m : lists'[d].parent = o[d] + 1
    BY <1>10, <1>11, <1>13, <2>3
  <2>5. y.open = o
    BY <1>6 DEF o
  <2> QED
    BY <1>6, <1>11, <1>13, <2>1, <2>4, <2>5 DEF Aligned
<1> QED
  BY <1>1, <1>4, <1>6, <1>7, <1>8, <1>13, <1>14 DEF Reading, Inner

\* When the parser is over, no test is left for it, wherever it goes.
LEMMA OverParse ==
  ASSUME Types, Backs, Over, Tree \/ Chain \/ Bracket, UNCHANGED <<text, meant>>
  PROVE  Over' /\ heap' = heap
<1>1. /\ place # "chain" /\ ~At(pos, "name") /\ ~At(pos, "}")
      /\ At(pos, ",") => ~At(pos + 1, "name")
      /\ Holds(Len(meant))
  BY DEF Over
<1>2. CASE Tree
  <2>1. /\ ~At(IF Inner.some THEN Past(pos, ",") ELSE pos, "name")
    BY <1>1 DEF Past
  <2>2. place' = "end" /\ UNCHANGED <<heap, parent, pos>>
    BY <1>2, <2>1 DEF Tree, ParseTest
  <2>3. Holds(Len(meant))'
    BY <1>1, <2>2 DEF Holds, Nodes
  <2> QED
    BY <1>1, <2>2, <2>3 DEF Over, At
<1>3. CASE Bracket
  <2>1. Len(lists) > 1 /\ pos' = Inner.back /\ place' = "tree" /\ heap' = heap
    BY <1>1, <1>3 DEF Bracket
  <2>2. Inner = lists[Len(lists)] /\ Len(lists) \in 2..Len(lists)
    BY <2>1, InnerIs DEF Types
  <2>3. At(Inner.back, ">")
    BY <2>2 DEF Backs
  <2>4. Holds(Len(meant))'
    BY <1>1, <2>1 DEF Holds, Nodes
  <2> QED
    BY <2>1, <2>3, <2>4 DEF Over, At
<1> QED
  BY <1>1, <1>2, <1>3 DEF Chain

\* The lists that stay open keep the place where they began.
LEMMA BracketBacks ==
  ASSUME Types, Backs, Bracket, UNCHANGED text
  PROVE  Backs'
<1>1. Len(lists) > 1 /\ lists' = WithTree(Front(lists))
  BY DEF Bracket
<1>2. lists \in Seq(OpenList) /\ lists # <<>> /\ Len(lists) \in Nat
  BY InnerIs DEF Types, ParserOK
<1> DEFINE ls == Front(lists)
           m == Len(lists) - 1
<1>3. ls \in Seq(OpenList) /\ Len(ls) = m /\ \A i \in 1..m : ls[i] = lists[i]
  BY <1>2, Fronted
<1>4. lists' = WithTree(ls)
  BY <1>1
<1>5. m \in Nat /\ m # 0 /\ \A d \in 2..m : d \in 1..m /\ d \in 2..Len(lists)
  <2> DEFINE n == Len(lists)
  <2>1. n > 1 /\ n \in Nat
    BY <1>1, <1>2
  <2> HIDE DEF n
  <2>2. n - 1 \in Nat /\ n - 1 # 0 /\ \A d \in 2..(n - 1) : d \in 1..(n - 1) /\ d \in 2..n
    BY <2>1
  <2> QED
    BY <2>2 DEF n
<1> HIDE DEF ls, m
<1>6. ls # <<>>
  <2>1. Len(ls) # 0
    BY <1>3, <1>5
  <2> QED
    BY <2>1
<1>7. /\ Len(WithTree(ls)) = Len(ls) /\ \A d \in 1..Len(ls) : WithTree(ls)[d].back = ls[d].back
  BY <1>3, <1>6, WithTreeIs
<1>8. Len(lists') = m /\ \A d \in 2..m : lists'[d].back = lists[d].back
  BY <1>3, <1>4, <1>5, <1>7
<1> QED
  BY <1>5, <1>8 DEF Backs, At

\* The parser keeps to what was meant, or has seen all tests.
LEMMA ParseReading ==
  ASSUME Types, ParserInv, Parse
  PROVE  ParserInv'
<1>1. /\ phase = "parse" /\ UNCHANGED <<phase, text, meant>> /\ (Tree \/ Chain \/ Bracket)
  BY DEF Parse, userVars
<1>2. WellWritten /\ text # <<>> /\ Plain(heap) /\ Backs /\ (Reading \/ Over)
  BY <1>1 DEF ParserInv
<1>3. WellWritten'
  BY <1>1, <1>2 DEF WellWritten, Before, Start
<1>4. ASSUME UNCHANGED lists PROVE Backs'
  BY <1>1, <1>2, <1>4 DEF Backs, At
<1>5. Backs'
  <2>1. CASE Tree
    BY <1>4, <2>1 DEF Tree
  <2>2. CASE Bracket
    BY <1>1, <1>2, <2>2, BracketBacks
  <2>3. CASE Chain /\ Reading
    BY <1>1, <1>2, <2>3, ChainReading
  <2>4. ~(Chain /\ Over)
    BY DEF Chain, Over
  <2> QED
    BY <1>1, <1>2, <2>1, <2>2, <2>3, <2>4
<1>6. (Reading \/ Over)' /\ Plain(heap')
  <2>1. CASE Over
    BY <1>1, <1>2, <2>1, OverParse
  <2>2. CASE Reading /\ Tree
    BY <1>1, <1>2, <2>2, TreeReading
  <2>3. CASE Reading /\ Chain
    BY <1>1, <1>2, <2>3, ChainReading
  <2>4. CASE Reading /\ Bracket
    <3>1. heap' = heap
      BY <2>4 DEF Bracket
    <3> QED
      BY <1>1, <1>2, <2>4, <3>1, BracketReading
  <2> QED
    BY <1>1, <1>2, <2>1, <2>2, <2>3, <2>4
<1> QED
  BY <1>1, <1>2, <1>3, <1>5, <1>6 DEF ParserInv

\* The parser is where the user has it in mind, or has seen all of the tests.
LEMMA NextReading ==
  ASSUME Types, ParserInv, [Next]_vars
  PROVE  ParserInv'
<1>1. ASSUME phase \notin {"write", "parse"} \/ Parsed, phase' \notin {"write", "parse"},
             UNCHANGED <<text, meant>>
      PROVE  ParserInv'
  <2>1. WellWritten /\ text # <<>>
    BY <1>1 DEF ParserInv, Parsed
  <2>2. WellWritten'
    BY <1>1, <2>1 DEF WellWritten, Before, Start
  <2> QED
    BY <1>1, <2>1, <2>2 DEF ParserInv
<1>2. CASE Walk \/ Expand \/ Multiply \/ Rewind \/ Run
  BY <1>1, <1>2 DEF Walk, Expand, Multiply, Rewind, Run, userVars
<1>3. CASE UNCHANGED vars
  BY <1>3 DEF vars, userVars, parserVars, loopVars, ParserInv, WellWritten, Before, Start, Reading,
              Over, Backs, Aligned, Holds, Nodes, At, Inner
<1> QED
  BY <1>2, <1>3, WriteReading, ReadReading, ParseReading DEF Next, Terminating

\* What becomes of any text, be it complete or cut short: the tests that are in it.
TakenAsMeant ==
  Parsed =>
    /\ Nodes = 1..(Len(meant) + 1)
    /\ \A i \in Tests : heap[i + 1].name = i /\ heap[i + 1].parent = meant[i] + 1
    /\ \A n \in Nodes : \A i, j \in DOMAIN heap[n].children :
         i < j => heap[n].children[i] < heap[n].children[j]

\* The parser is done when it has seen all tests.
LEMMA MeantWhenParsed ==
  ASSUME Types, ParserInv
  PROVE  TakenAsMeant
<1> SUFFICES ASSUME Parsed
             PROVE  /\ Nodes = 1..(Len(meant) + 1)
                    /\ \A i \in Tests : heap[i + 1].name = i /\ heap[i + 1].parent = meant[i] + 1
                    /\ \A n \in Nodes : \A i, j \in DOMAIN heap[n].children :
                         i < j => heap[n].children[i] < heap[n].children[j]
  BY DEF TakenAsMeant
<1>1. phase = "parse" /\ place = "end" /\ Len(lists) = 1
  BY DEF Parsed
<1>2. (Reading \/ Over) /\ Plain(heap) /\ WellWritten
  BY <1>1 DEF ParserInv
<1>3. ~Reading
  <2> SUFFICES ASSUME Reading PROVE FALSE
    OBVIOUS
  <2>1. At(pos, "}")
    BY <1>1 DEF Reading
  <2>2. /\ Len(Before(pos).open) = Len(lists)
        /\ pos <= Len(text) => Continues(meant, Before(pos), text[pos])
    BY <1>2, ReadingIs
  <2>3. Len(Before(pos).open) > 1
    BY <2>1, <2>2 DEF At, Continues
  <2> QED
    BY <1>1, <2>2, <2>3
<1>4. Holds(Len(meant))
  BY <1>2, <1>3 DEF Over
<1>5. Tests = 1..Len(meant)
  BY LenProperties DEF Types, UserOK, Tests
<1> QED
  BY <1>2, <1>4, <1>5 DEF Holds, Plain, Nodes

\* The invariant that the next theorem needs.
THEOREM ParserHolds == Spec => []ParserInv
<1>1. Init => ParserInv
  BY InitReading
<1>2. Types /\ ParserInv /\ [Next]_vars => ParserInv'
  BY NextReading
<1> QED
  BY <1>1, <1>2, TypesHold, PTL DEF Spec

\* However the user writes a complete tree of tests, with braces around one test or
\* without them, parse_test_list makes the tree he meant of it, in the order in which
\* he wrote the tests.
THEOREM ParsedCorrectly == Spec => []ParsedAsMeant
<1>1. Types /\ ParserInv => ParsedAsMeant
  BY MeantWhenParsed DEF TakenAsMeant, ParsedAsMeant
<1> QED
  BY <1>1, TypesHold, ParserHolds, PTL

-----------------------------------------------------------------------------
(* The order of the tests, as they are multiplied *)

\* Nodes of the same test and board come one after the other as others do.
Alike(g, a, h, m) == g[a].name = h[m].name /\ g[a].board = h[m].board

LEMMA AlikeStarts ==
  ASSUME NEW g, NEW h, NEW a, NEW m, Alike(g, a, h, m), Starts(h, m)
  PROVE  Starts(g, a)
BY DEF Alike, Starts

LEMMA AlikeComplete ==
  ASSUME NEW g, NEW h, NEW a, NEW m, NEW e, NEW f, Alike(g, a, h, m), m # e, Complete(h, m, e)
  PROVE  Complete(g, a, f)
BY DEF Alike, Complete

LEMMA AlikeNodes ==
  ASSUME NEW g, NEW h, NEW a, NEW b, NEW m, NEW n, NEW e, NEW f,
         Alike(g, a, h, m), Alike(g, b, h, n), m # e
  PROVE  /\ Starts(h, m) => Starts(g, a)
         /\ Complete(h, m, e) => Complete(g, a, f)
         /\ Adjacent(h, m, n, e) => Adjacent(g, a, b, f)
<1>1. /\ g[a].name = h[m].name /\ g[a].board = h[m].board
      /\ g[b].name = h[n].name /\ g[b].board = h[n].board
  BY DEF Alike
<1>2. Starts(h, m) => Starts(g, a)
  BY <1>1 DEF Starts
<1>3. Complete(h, m, e) => Complete(g, a, f)
  BY <1>1 DEF Complete
<1>4. Starts(h, n) => Starts(g, b)
  BY <1>1 DEF Starts
<1>5. NextCopy(h, m, n) => NextCopy(g, a, b)
  BY <1>1 DEF NextCopy
<1>6. NextTest(h, m, n, e) => NextTest(g, a, b, f)
  BY <1>1, <1>3, <1>4 DEF NextTest
<1> QED
  BY <1>2, <1>3, <1>5, <1>6 DEF Adjacent

\* Lists of the same tests and boards are both in order.
LEMMA AlikeLists ==
  ASSUME NEW g, NEW h, NEW x, NEW y, NEW e, NEW f, NEW k \in Nat,
         g[x].name = h[y].name, Len(h[y].children) = k, Len(g[x].children) = k,
         h[y].children = <<>> <=> k = 0, g[x].children = <<>> <=> k = 0,
         \A i \in 1..k : Alike(g, g[x].children[i], h, h[y].children[i]) /\ h[y].children[i] # e,
         ListOK(h, y, e)
  PROVE  ListOK(g, x, f)
<1> DEFINE c == h[y].children
           d == g[x].children
<1>1. /\ c = <<>> <=> Kids(h[y].name) = {}
      /\ c # <<>> =>
           /\ h[c[1]].name = Min(Kids(h[y].name)) /\ Starts(h, c[1])
           /\ LaterKids(h[c[k]].name) = {} /\ Complete(h, c[k], e)
      /\ \A i \in 1..(k - 1) : Adjacent(h, c[i], c[i + 1], e)
  BY DEF ListOK
<1>2. \A i \in 1..k : Alike(g, d[i], h, c[i]) /\ c[i] # e
  OBVIOUS
<1>3. (c = <<>> <=> k = 0) /\ (d = <<>> <=> k = 0) /\ Len(d) = k
  OBVIOUS
<1> HIDE DEF c, d
<1>4. d = <<>> <=> Kids(g[x].name) = {}
  BY <1>1, <1>3
<1>5. ASSUME d # <<>>
      PROVE  /\ g[d[1]].name = Min(Kids(g[x].name)) /\ Starts(g, d[1])
             /\ LaterKids(g[d[k]].name) = {} /\ Complete(g, d[k], f)
  <2>1. 1 \in 1..k /\ k \in 1..k /\ c # <<>>
    BY <1>3, <1>5
  <2>2. Alike(g, d[1], h, c[1]) /\ Alike(g, d[k], h, c[k]) /\ c[1] # e /\ c[k] # e
    BY <1>2, <2>1
  <2>3. Starts(g, d[1]) /\ Complete(g, d[k], f)
    BY <1>1, <2>1, <2>2, AlikeNodes
  <2>4. g[d[1]].name = h[c[1]].name /\ g[d[k]].name = h[c[k]].name
    BY <2>2 DEF Alike
  <2> QED
    BY <1>1, <2>1, <2>3, <2>4
<1>6. ASSUME NEW i \in 1..(k - 1) PROVE Adjacent(g, d[i], d[i + 1], f)
  <2>1. i \in 1..k /\ i + 1 \in 1..k
    OBVIOUS
  <2>2. Alike(g, d[i], h, c[i]) /\ Alike(g, d[i + 1], h, c[i + 1]) /\ c[i] # e
    BY <1>2, <2>1
  <2>3. Adjacent(h, c[i], c[i + 1], e)
    BY <1>1
  <2> QED
    BY <2>2, <2>3, AlikeNodes
<1>7. /\ d = <<>> <=> Kids(g[x].name) = {}
      /\ d # <<>> =>
           /\ g[d[1]].name = Min(Kids(g[x].name)) /\ Starts(g, d[1])
           /\ LaterKids(g[d[Len(d)]].name) = {} /\ Complete(g, d[Len(d)], f)
      /\ \A i \in 1..(Len(d) - 1) : Adjacent(g, d[i], d[i + 1], f)
  BY <1>3, <1>4, <1>5, <1>6
<1> QED
  BY <1>7 DEF ListOK, d

\* The list of the children of a node that follows the order.
LEMMA ListIs ==
  ASSUME NEW h, HeapOK(h), NEW n \in DOMAIN h, NEW e, ListOK(h, n, e)
  PROVE  LET c == h[n].children IN
         /\ Len(c) \in Nat /\ DOMAIN c = 1..Len(c) /\ c \in Seq(Nat)
         /\ c = <<>> <=> Len(c) = 0
         /\ Len(c) = 0 <=> Kids(h[n].name) = {}
         /\ \A i \in 1..Len(c) : c[i] \in DOMAIN h \ {Root} /\ h[c[i]].parent = n
         /\ \A i, j \in 1..Len(c) : c[i] = c[j] => i = j
         /\ Len(c) # 0 =>
              /\ h[c[1]].name = Min(Kids(h[n].name)) /\ Starts(h, c[1])
              /\ LaterKids(h[c[Len(c)]].name) = {} /\ Complete(h, c[Len(c)], e)
         /\ \A k \in 1..(Len(c) - 1) : Adjacent(h, c[k], c[k + 1], e)
<1> DEFINE c == h[n].children
<1>1. /\ Len(c) \in Nat /\ DOMAIN c = 1..Len(c) /\ c \in Seq(Nat) /\ IsInjective(c)
      /\ \A i \in 1..Len(c) : c[i] \in DOMAIN h /\ h[c[i]].parent = n
      /\ n >= 1 /\ n \in Nat
  BY HeapFacts
<1>2. c = <<>> <=> Len(c) = 0
  BY <1>1, EmptySeq
<1>3. \A i \in 1..Len(c) : c[i] # Root
  <2>1. h[Root].parent = NoNode
    BY HeapFacts
  <2> QED
    BY <1>1, <2>1 DEF NoNode
<1>4. \A i, j \in 1..Len(c) : c[i] = c[j] => i = j
  BY <1>1 DEF IsInjective
<1> QED
  BY <1>1, <1>2, <1>3, <1>4 DEF ListOK

\* A test that needs the high voltage is made the one for the first board.
LEMMA OrderedFirst ==
  ASSUME NEW h, HeapOK(h), Ordered(h, NoNode), NEW n \in DOMAIN h \ {Root},
         h[n].board = NoBoard, h[n].name \in needsHV, NumBoards > 0,
         NEW g, Boarded(g, h, n, 1)
  PROVE  Ordered(g, n) /\ CopiesOK(g, n, 1) /\ CopyAt(g, n, 1) = n
<1> DEFINE p == h[n].parent
           c == h[p].children
           k == Index(c, n)
           l == Len(c)
<1>1. /\ HeapOK(g) /\ DOMAIN g = DOMAIN h
      /\ \A m \in DOMAIN h : g[m].name = h[m].name /\ g[m].parent = h[m].parent
                             /\ g[m].children = h[m].children
      /\ \A m \in DOMAIN h : g[m].board = IF m = n THEN 1 ELSE h[m].board
  BY DEF Boarded
<1>2. \A m \in DOMAIN h : m # n => Alike(g, m, h, m)
  BY <1>1 DEF Alike
<1>3. NoNode \notin DOMAIN h /\ \A m \in DOMAIN h : h[m].board \in Nat
  BY HeapFacts, TestChainAssumption DEF NoNode
<1>4. /\ p \in DOMAIN h /\ k \in 1..l /\ c[k] = n /\ Siblings(h, n) = c /\ l \in Nat
      /\ \A i \in 1..l : c[i] = n => i = k
  BY PlaceIs DEF Siblings
<1>5. Starts(g, n) /\ Complete(g, n, n)
  BY <1>1 DEF Starts, Complete, FirstBoard
<1>6. NamesOK(h) /\ \A m \in DOMAIN h : ListOK(h, m, NoNode)
  BY DEF Ordered
<1>7. NamesOK(g)
  <2>1. h[Root].name = NoTest /\ Root \in DOMAIN h
    BY <1>6, HeapFacts DEF NamesOK
  <2>2. \A m \in DOMAIN h : /\ m # Root => h[m].name \in Tests
                            /\ h[m].board # NoBoard => h[m].name \in needsHV
    BY <1>6 DEF NamesOK
  <2>3. g[n].name \in needsHV
    BY <1>1
  <2>4. \A m \in DOMAIN g : /\ m # Root => g[m].name \in Tests
                            /\ g[m].board # NoBoard => g[m].name \in needsHV
    BY <1>1, <2>2, <2>3
  <2> QED
    BY <1>1, <2>1, <2>4 DEF NamesOK
<1>8. ASSUME NEW m \in DOMAIN h, m # p PROVE ListOK(g, m, n)
  <2> DEFINE a == h[m].children
  <2>1. /\ Len(a) \in Nat /\ (a = <<>> <=> Len(a) = 0)
        /\ \A i \in 1..Len(a) : a[i] \in DOMAIN h /\ h[a[i]].parent = m
    BY <1>6, ListIs
  <2>2. \A i \in 1..Len(a) : a[i] # n /\ a[i] # NoNode
    BY <1>3, <1>8, <2>1
  <2>3. g[m].children = a /\ g[m].name = h[m].name
    BY <1>1
  <2>4. \A i \in 1..Len(a) : Alike(g, a[i], h, a[i])
    BY <1>2, <2>1, <2>2
  <2> QED
    BY <1>6, <2>1, <2>2, <2>3, <2>4, AlikeLists
<1>9. /\ c = <<>> <=> Kids(h[p].name) = {}
      /\ c = <<>> <=> l = 0
      /\ \A i \in 1..l : c[i] \in DOMAIN h
      /\ h[c[1]].name = Min(Kids(h[p].name)) /\ Starts(h, c[1])
      /\ LaterKids(h[c[l]].name) = {} /\ Complete(h, c[l], NoNode)
      /\ \A i \in 1..(l - 1) : Adjacent(h, c[i], c[i + 1], NoNode)
  <2>1. l # 0
    BY <1>4
  <2>2. HeapOK(h) /\ p \in DOMAIN h /\ ListOK(h, p, NoNode)
    BY <1>4, <1>6
  <2> HIDE DEF p
  <2> QED
    BY ZenonT(30), <2>1, <2>2, ListIs
<1> HIDE DEF c, l, k, p
<1>10. \A i \in 1..l : c[i] # n => Alike(g, c[i], h, c[i]) /\ c[i] # NoNode
  BY <1>2, <1>3, <1>9
<1>20. ASSUME NEW i \in 1..(l - 1), c[i] = n PROVE NextTest(g, n, c[i + 1], n)
  <2>1. i \in 1..l /\ i + 1 \in 1..l
    BY <1>4
  <2>2. c[i + 1] # n
    BY <1>4, <1>20, <2>1
  <2>3. NextTest(h, n, c[i + 1], NoNode)
    BY <1>9, <1>20 DEF Adjacent, NextCopy
  <2>4. Starts(g, c[i + 1])
    BY <1>10, <2>1, <2>2, <2>3, AlikeStarts DEF NextTest
  <2>5. g[c[i + 1]].name = h[c[i + 1]].name
    BY <1>1, <1>9, <2>1
  <2> QED
    BY <1>1, <1>5, <2>3, <2>4, <2>5 DEF NextTest
<1>11. ASSUME NEW i \in 1..(l - 1) PROVE Adjacent(g, c[i], c[i + 1], n)
  <2>1. i \in 1..l /\ i + 1 \in 1..l
    BY <1>4
  <2>2. Adjacent(h, c[i], c[i + 1], NoNode)
    BY <1>9
  <2>3. CASE c[i] = n
    BY <1>20, <2>3 DEF Adjacent
  <2>4. CASE c[i + 1] = n
    <3>1. c[i] # n
      BY <1>4, <2>1, <2>4
    <3>2. ~NextCopy(h, c[i], n)
      <4>1. h[c[i]].board \in Nat
        BY <1>3, <1>9, <2>1
      <4> QED
        BY <4>1 DEF NextCopy, NoBoard
    <3>3. NextTest(h, c[i], n, NoNode)
      BY <2>2, <2>4, <3>2 DEF Adjacent
    <3>4. Complete(g, c[i], n)
      BY <1>10, <2>1, <3>1, <3>3, AlikeComplete DEF NextTest
    <3>5. g[c[i]].name = h[c[i]].name
      BY <1>1, <1>9, <2>1
    <3>6. NextTest(g, c[i], n, n)
      BY <1>1, <1>5, <3>3, <3>4, <3>5 DEF NextTest
    <3> QED
      BY <2>4, <3>6 DEF Adjacent
  <2>5. CASE c[i] # n /\ c[i + 1] # n
    BY <1>10, <2>1, <2>2, <2>5, AlikeNodes
  <2> QED
    BY <2>3, <2>4, <2>5
<1>12. /\ h[c[1]].name = g[c[1]].name /\ Starts(g, c[1])
       /\ h[c[l]].name = g[c[l]].name /\ Complete(g, c[l], n)
  <2>1. 1 \in 1..l /\ l \in 1..l
    BY <1>4
  <2>2. h[c[1]].name = g[c[1]].name /\ h[c[l]].name = g[c[l]].name
    BY <1>1, <1>9, <2>1
  <2>3. Starts(g, c[1])
    <3>1. CASE c[1] = n
      BY <1>5, <3>1
    <3>2. CASE c[1] # n
      BY <1>9, <1>10, <2>1, <3>2, AlikeStarts
    <3> QED
      BY <3>1, <3>2
  <2>4. Complete(g, c[l], n)
    <3>1. CASE c[l] = n
      BY <1>5, <3>1
    <3>2. CASE c[l] # n
      BY <1>9, <1>10, <2>1, <3>2, AlikeComplete
    <3> QED
      BY <3>1, <3>2
  <2> QED
    BY <2>2, <2>3, <2>4
<1>13. ListOK(g, p, n)
  <2>1. g[p].children = c /\ Len(c) = l /\ g[p].name = h[p].name
    BY <1>1, <1>4 DEF c, l
  <2>2. /\ c = <<>> <=> Kids(g[p].name) = {}
        /\ g[c[1]].name = Min(Kids(g[p].name)) /\ Starts(g, c[1])
        /\ LaterKids(g[c[l]].name) = {} /\ Complete(g, c[l], n)
        /\ \A i \in 1..(l - 1) : Adjacent(g, c[i], c[i + 1], n)
    BY <1>9, <1>11, <1>12, <2>1
  <2> QED
    BY <2>1, <2>2 DEF ListOK
<1>14. Ordered(g, n)
  BY <1>1, <1>7, <1>8, <1>13 DEF Ordered
<1>15. Siblings(g, n) = c
  BY <1>1, <1>4 DEF Siblings, c, p
<1>16. CopyPlace(g, n, 1) = k /\ CopyAt(g, n, 1) = n
  <2>1. k + 1 - 1 = k
    BY <1>4
  <2>2. CopyPlace(g, n, 1) = k
    BY <1>15, <2>1 DEF CopyPlace, k
  <2> QED
    BY <1>4, <1>15, <2>2 DEF CopyAt
<1>17. ASSUME k < l PROVE NextTest(g, n, c[k + 1], n)
  <2>1. k \in 1..(l - 1)
    BY <1>4, <1>17
  <2> QED
    BY <1>4, <1>20, <2>1
<1>18. g[n].board # NoBoard /\ g[n].board = 1
  BY <1>1 DEF NoBoard
<1> QED
  BY <1>4, <1>14, <1>15, <1>16, <1>17, <1>18 DEF CopiesOK, l

\* The domain says how long a sequence is.
LEMMA SameLength ==
  ASSUME NEW S, NEW s \in Seq(S), NEW n \in Nat, DOMAIN s = 1..n
  PROVE  Len(s) = n
<1> DEFINE m == Len(s)
<1>1. m \in Nat /\ 1..m = 1..n
  BY LenProperties
<1> HIDE DEF m
<1>2. (m >= 1 => m \in 1..n) /\ (n >= 1 => n \in 1..m)
  <2>1. (m >= 1 => m \in 1..m) /\ (n >= 1 => n \in 1..n)
    BY <1>1
  <2> QED
    BY <1>1, <2>1
<1>3. m = n
  BY <1>1, <1>2
<1> QED
  BY <1>3 DEF m

\* One more copy comes after the ones there are, with all that belongs to it.
LEMMA OrderedCopy ==
  ASSUME NEW h, HeapOK(h), NEW n \in DOMAIN h \ {Root}, NEW b \in Nat, b >= 1, b < NumBoards,
         CopyPlace(h, n, b) <= Len(Siblings(h, n)),
         Ordered(h, CopyAt(h, n, b)), CopiesOK(h, n, b),
         NEW g, g = Multiplied(h, n, b + 1)
  PROVE  Ordered(g, n + Top(h)) /\ CopiesOK(g, n, b + 1) /\ CopyAt(g, n, b + 1) = n + Top(h)
<1> DEFINE p == h[n].parent
           c == Siblings(h, n)
           l == Len(c)
           k == CopyPlace(h, n, b)
           e == CopyAt(h, n, b)
           t == Top(h)
           x == n + t
           S == Subtree(h, n)
           N == Nat
           d == InsertAt(c, k + 1, x)
<1>1. /\ p \in DOMAIN h /\ c \in Seq(N) /\ l \in Nat /\ DOMAIN c = 1..l
      /\ Index(c, n) \in 1..l /\ c[Index(c, n)] = n
      /\ \A i \in 1..l : c[i] \in DOMAIN h /\ h[c[i]].parent = p
      /\ c = h[p].children
  BY PlaceIs DEF Siblings
<1>2. k = Index(c, n) + b - 1 /\ k \in 1..l /\ e = c[k] /\ Index(c, n) + (b + 1) - 1 = k + 1
  <2> DEFINE i == Index(c, n)
  <2>1. i \in 1..l /\ k = i + b - 1 /\ k <= l
    BY <1>1 DEF CopyPlace
  <2>2. e = c[k]
    BY DEF CopyAt
  <2> HIDE DEF i, k, l, c, e
  <2>3. k \in 1..l /\ i + (b + 1) - 1 = k + 1
    BY <1>1, <2>1
  <2> QED
    BY <2>1, <2>2, <2>3 DEF i
<1>3. b + 1 \in 0..NumBoards /\ b + 1 >= 2
  BY TestChainAssumption
<1>4. Copied(g, h, n, b + 1)
  <2>1. Index(Siblings(h, n), n) + (b + 1) - 1 \in 1..(Len(Siblings(h, n)) + 1)
    <3> HIDE DEF k, l
    <3>1. k + 1 \in 1..(l + 1)
      BY <1>1, <1>2, SMTT(30)
    <3> QED
      BY <1>2, <3>1 DEF l
  <2> QED
    BY <1>3, <2>1, CopyIs
<1>5. HeapOK(g) /\ Siblings(g, n) = d /\ Index(d, n) = Index(c, n)
  <2>1. Index(Siblings(h, n), n) + (b + 1) - 1 \in 1..(Len(Siblings(h, n)) + 1)
    <3> HIDE DEF k, l
    <3>1. k + 1 \in 1..(l + 1)
      BY <1>1, <1>2, SMTT(30)
    <3> QED
      BY <1>2, <3>1 DEF l
  <2>2. LET f == Multiplied(h, n, b + 1)
            i == Index(Siblings(h, n), n) + (b + 1) - 1
        IN  /\ HeapOK(f)
            /\ Siblings(f, n) = InsertAt(Siblings(h, n), i, n + Top(h))
            /\ Index(Siblings(f, n), n) = Index(Siblings(h, n), n)
    BY <1>3, <2>1, CopyOK
  <2> QED
    BY <1>2, <2>2
<1>6. /\ DOMAIN g = DOMAIN h \union {s + t : s \in S}
      /\ \A m \in DOMAIN h : /\ g[m].name = h[m].name /\ g[m].board = h[m].board
                             /\ g[m].parent = h[m].parent
                             /\ m # p => g[m].children = h[m].children
      /\ \A s \in S :
           /\ s + t \notin DOMAIN h /\ g[s + t].name = h[s].name
           /\ g[s + t].board = IF s = n THEN b + 1 ELSE h[s].board
           /\ g[s + t].children = [i \in DOMAIN h[s].children |-> h[s].children[i] + t]
  BY <1>4 DEF Copied
<1>7. /\ S \subseteq DOMAIN h /\ n \in S /\ p \notin S /\ Root \notin S
      /\ \A s \in S : Range(h[s].children) \subseteq S
  BY SubtreeIs
<1>8. x \in N /\ x \notin DOMAIN h
  BY <1>6, <1>7, TopIs, HeapFacts
<1>9. g[p].children = d
  BY <1>1, <1>5, <1>6 DEF Siblings
<1>10. /\ DOMAIN d = 1..(l + 1) /\ Len(d) = l + 1
       /\ \A i \in 1..k : d[i] = c[i]
       /\ d[k + 1] = x
       /\ \A i \in (k + 2)..(l + 1) : d[i] = c[i - 1]
  <2> DEFINE j == k + 1
  <2>1. j \in 1..(l + 1) /\ j - 1 = k /\ j + 1 = k + 2
    <3>1. k \in 1..l /\ l \in Nat
      BY <1>1, <1>2
    <3> HIDE DEF k, l
    <3> QED
      BY <3>1
  <2>2. d = InsertAt(c, j, x) /\ l = Len(c)
    OBVIOUS
  <2>4. c \in Seq(N) /\ x \in N
    BY <1>1, <1>8
  <2> HIDE DEF j, l, d, c, x, k, N
  <2>5. j \in 1..(Len(c) + 1)
    BY <2>1, <2>2
  <2>3. /\ Len(d) = l + 1 /\ DOMAIN d = 1..(l + 1)
        /\ \A i \in 1..(j - 1) : d[i] = c[i]
        /\ d[j] = x
        /\ \A i \in (j + 1)..(l + 1) : d[i] = c[i - 1]
    BY <2>2, <2>4, <2>5, Inserted, SMTT(30)
  <2> QED
    BY <2>1, <2>3 DEF j
<1>11. /\ NamesOK(h) /\ \A m \in DOMAIN h : ListOK(h, m, e)
       /\ h[n].board # NoBoard /\ h[e].name = h[n].name /\ h[e].board = b
       /\ k < l => NextTest(h, e, c[k + 1], e)
  BY DEF Ordered, CopiesOK
<1>12. h[n].name \in needsHV
  BY <1>11 DEF NamesOK
<1> HIDE DEF k, l, e, t, x, S, d, N
<1>13. \A m \in DOMAIN h : Alike(g, m, h, m)
  BY <1>6 DEF Alike
<1>14. \A s \in S : s # n => Alike(g, s + t, h, s)
  BY <1>6 DEF Alike
<1>15. g[x].name = h[n].name /\ g[x].board = b + 1
  BY <1>6, <1>7 DEF x
<1>16. e \in DOMAIN h /\ h[e].parent = p /\ e # x
  BY <1>1, <1>2, <1>8
<1>17. NamesOK(g)
  <2>1. h[Root].name = NoTest /\ Root \in DOMAIN h
    BY <1>11, HeapFacts DEF NamesOK
  <2>2. \A m \in DOMAIN h : /\ m # Root => h[m].name \in Tests
                            /\ h[m].board # NoBoard => h[m].name \in needsHV
    BY <1>11 DEF NamesOK
  <2>3. ASSUME NEW s \in S
        PROVE  g[s + t].name \in Tests /\ (g[s + t].board # NoBoard => g[s + t].name \in needsHV)
    BY <1>6, <1>7, <1>12, <2>2, ZenonT(30)
  <2>4. \A m \in DOMAIN g : /\ m # Root => g[m].name \in Tests
                            /\ g[m].board # NoBoard => g[m].name \in needsHV
    BY <1>6, <2>2, <2>3
  <2> QED
    BY <1>6, <2>1, <2>4 DEF NamesOK
<1>18. ASSUME NEW m \in DOMAIN h, m # p PROVE ListOK(g, m, x)
  <2> DEFINE a == h[m].children
  <2>1. /\ Len(a) \in Nat /\ (a = <<>> <=> Len(a) = 0)
        /\ \A i \in 1..Len(a) : a[i] \in DOMAIN h /\ h[a[i]].parent = m
    BY <1>11, ListIs
  <2>2. \A i \in 1..Len(a) : a[i] # e
    BY <1>16, <1>18, <2>1
  <2>3. g[m].children = a /\ g[m].name = h[m].name
    BY <1>6, <1>18
  <2>4. \A i \in 1..Len(a) : Alike(g, a[i], h, a[i])
    BY <1>13, <2>1
  <2> QED
    BY <1>11, <2>1, <2>2, <2>3, <2>4, AlikeLists
<1>19. ASSUME NEW s \in S PROVE ListOK(g, s + t, x)
  <2> DEFINE a == h[s].children
             q == [i \in DOMAIN a |-> a[i] + t]
  <2>0. s \in DOMAIN h /\ s # p
    BY <1>7
  <2>1. /\ Len(a) \in Nat /\ (a = <<>> <=> Len(a) = 0) /\ DOMAIN a = 1..Len(a)
        /\ \A i \in 1..Len(a) : a[i] \in DOMAIN h /\ h[a[i]].parent = s
    BY <1>11, <2>0, ListIs
  <2>2. \A i \in 1..Len(a) : a[i] # e /\ a[i] # n /\ a[i] \in S
    <3>1. \A i \in 1..Len(a) : a[i] # e /\ a[i] # n
      BY <1>16, <2>0, <2>1
    <3> QED
      BY <1>7, <2>1, <3>1 DEF Range
  <2>3. g[s + t].children = q /\ g[s + t].name = h[s].name
    BY <1>6
  <2>4. Len(q) = Len(a) /\ (q = <<>> <=> Len(a) = 0)
    <3>1. s + t \in DOMAIN g
      BY <1>6
    <3>2. q \in Seq(Nat)
      BY <1>5, <2>3, <3>1, HeapFacts
    <3>3. DOMAIN q = 1..Len(a)
      BY <2>1
    <3> HIDE DEF q, a
    <3>4. Len(q) = Len(a)
      BY <2>1, <3>2, <3>3, SameLength
    <3> QED
      BY <3>2, <3>4, EmptySeq
  <2>5. \A i \in 1..Len(a) : Alike(g, q[i], h, a[i])
    BY <1>14, <2>1, <2>2
  <2>6. \A i \in 1..Len(a) : Alike(g, g[s + t].children[i], h, a[i]) /\ a[i] # e
    BY <2>2, <2>3, <2>5
  <2>7. Len(g[s + t].children) = Len(a) /\ (g[s + t].children = <<>> <=> Len(a) = 0)
    BY <2>3, <2>4
  <2> HIDE DEF q
  <2> QED
    BY <1>11, <2>0, <2>1, <2>3, <2>6, <2>7, AlikeLists, SMTT(30)
<1>20. /\ c # <<>> /\ Kids(h[p].name) # {}
       /\ h[c[1]].name = Min(Kids(h[p].name)) /\ Starts(h, c[1])
       /\ LaterKids(h[c[l]].name) = {} /\ Complete(h, c[l], e)
       /\ \A i \in 1..(l - 1) : Adjacent(h, c[i], c[i + 1], e)
       /\ \A i, j \in 1..l : c[i] = c[j] => i = j
  <2>1. l # 0
    BY <1>1
  <2> DEFINE a == h[p].children
  <2>2. HeapOK(h) /\ p \in DOMAIN h /\ ListOK(h, p, e)
    BY <1>1, <1>11
  <2>3. a = c /\ Len(a) = l
    BY <1>1 DEF l
  <2> HIDE DEF p, c
  <2>4. /\ Len(a) # 0 => (a # <<>> /\ Kids(h[p].name) # {})
        /\ Len(a) # 0 =>
             /\ h[a[1]].name = Min(Kids(h[p].name)) /\ Starts(h, a[1])
             /\ LaterKids(h[a[Len(a)]].name) = {} /\ Complete(h, a[Len(a)], e)
        /\ \A i \in 1..(Len(a) - 1) : Adjacent(h, a[i], a[i + 1], e)
        /\ \A i, j \in 1..Len(a) : a[i] = a[j] => i = j
    BY <2>2, ListIs
  <2> HIDE DEF a
  <2> QED
    BY <2>1, <2>3, <2>4
<1> HIDE DEF p, c
<1>21. \A i \in 1..l : Alike(g, c[i], h, c[i]) /\ (i # k => c[i] # e)
  BY <1>1, <1>2, <1>13, <1>20
<1>22. \A i \in 1..(l + 1) : i \in 1..k \/ i = k + 1 \/ i \in (k + 2)..(l + 1)
  BY <1>1, <1>2, SMTT(30)
<1>23. ASSUME k < l PROVE NextTest(g, x, c[k + 1], x)
  <2>1. k + 1 \in 1..l
    BY <1>1, <1>2, <1>23
  <2>2. NextTest(h, e, c[k + 1], e)
    BY <1>11, <1>23
  <2>3. Starts(g, c[k + 1]) /\ g[c[k + 1]].name = h[c[k + 1]].name
    BY <1>21, <2>1, <2>2, AlikeStarts DEF NextTest, Alike
  <2>4. Complete(g, x, x) /\ g[x].name = h[e].name
    BY <1>11, <1>15 DEF Complete
  <2> QED
    BY <2>2, <2>3, <2>4 DEF NextTest
<1>24. NextCopy(g, e, x)
  <2>1. g[e].name = h[n].name /\ g[e].board = b
    BY <1>6, <1>11, <1>16
  <2> QED
    BY <1>15, <2>1 DEF NextCopy, NoBoard
<1>25. ASSUME NEW i \in 1..l PROVE Adjacent(g, d[i], d[i + 1], x)
  <2>1. CASE i < k
    <3>1. i \in 1..k /\ i + 1 \in 1..k /\ i \in 1..l /\ i + 1 \in 1..l /\ i \in 1..(l - 1) /\ i # k
      BY <1>1, <1>2, <2>1
    <3>2. Alike(g, c[i], h, c[i]) /\ Alike(g, c[i + 1], h, c[i + 1]) /\ c[i] # e
          /\ Adjacent(h, c[i], c[i + 1], e)
      BY <1>20, <1>21, <3>1
    <3>3. Adjacent(g, c[i], c[i + 1], x)
      BY <3>2, AlikeNodes
    <3> QED
      BY <1>10, <3>1, <3>3
  <2>2. CASE i = k
    <3>1. i \in 1..k
      BY <1>2, <2>2
    <3> QED
      BY <1>2, <1>10, <1>24, <2>2, <3>1 DEF Adjacent
  <2>3. CASE i = k + 1
    <3>1. k < l /\ i + 1 \in (k + 2)..(l + 1) /\ (i + 1) - 1 = k + 1
      BY <1>1, <1>2, <2>3, SMTT(30)
    <3>2. d[i + 1] = c[k + 1]
      BY <1>10, <3>1
    <3> QED
      BY <1>10, <1>23, <2>3, <3>1, <3>2 DEF Adjacent
  <2>4. CASE i > k + 1
    <3>1. /\ i \in (k + 2)..(l + 1) /\ i + 1 \in (k + 2)..(l + 1) /\ i - 1 \in 1..l
          /\ i - 1 # k /\ i - 1 \in 1..(l - 1) /\ (i + 1) - 1 = i /\ (i - 1) + 1 = i
      BY <1>1, <1>2, <2>4, SMTT(30)
    <3>2. Alike(g, c[i - 1], h, c[i - 1]) /\ Alike(g, c[i], h, c[i]) /\ c[i - 1] # e
      BY <1>21, <3>1
    <3>3. Adjacent(h, c[i - 1], c[i], e)
      BY <1>20, <3>1
    <3>4. Adjacent(g, c[i - 1], c[i], x)
      BY <3>2, <3>3, AlikeNodes
    <3>5. d[i] = c[i - 1] /\ d[i + 1] = c[i]
      BY <1>10, <3>1
    <3> QED
      BY <3>4, <3>5
  <2>5. i < k \/ i = k \/ i = k + 1 \/ i > k + 1
    BY <1>1, <1>2
  <2> QED
    BY <2>1, <2>2, <2>3, <2>4, <2>5
<1>26. g[d[1]].name = Min(Kids(g[p].name)) /\ Starts(g, d[1])
  <2>1. 1 \in 1..k /\ 1 \in 1..l
    BY <1>1, <1>2
  <2>2. d[1] = c[1] /\ Alike(g, c[1], h, c[1])
    BY <1>10, <1>21, <2>1
  <2>3. g[p].name = h[p].name
    BY <1>1, <1>6
  <2> QED
    BY <1>20, <2>2, <2>3, AlikeStarts DEF Alike
<1>27. LaterKids(g[d[l + 1]].name) = {} /\ Complete(g, d[l + 1], x)
  <2>1. CASE k = l
    <3>1. d[l + 1] = x
      BY <1>10, <2>1
    <3>2. g[x].name = h[c[l]].name
      BY <1>2, <1>11, <1>15, <2>1
    <3> QED
      BY <1>20, <3>1, <3>2 DEF Complete
  <2>2. CASE k # l
    <3>1. l + 1 \in (k + 2)..(l + 1) /\ l \in 1..l /\ (l + 1) - 1 = l
      BY <1>1, <1>2, <2>2, SMTT(30)
    <3>2. d[l + 1] = c[l] /\ Alike(g, c[l], h, c[l]) /\ c[l] # e
      BY <1>10, <1>21, <2>2, <3>1
    <3> QED
      BY <1>20, <3>2, AlikeComplete DEF Alike
  <2> QED
    BY <2>1, <2>2
<1>28. ListOK(g, p, x)
  <2>1. Kids(g[p].name) # {}
    BY <1>1, <1>6, <1>20
  <2>2. d # <<>>
    <3>1. Len(d) # 0
      BY <1>1, <1>10
    <3> QED
      BY <3>1
  <2>3. (l + 1) - 1 = l
    BY <1>1
  <2> QED
    BY <1>9, <1>10, <1>25, <1>26, <1>27, <2>1, <2>2, <2>3 DEF ListOK
<1>29. Ordered(g, x)
  <2>1. \A m \in DOMAIN g : ListOK(g, m, x)
    BY <1>6, <1>18, <1>19, <1>28
  <2> QED
    BY <1>17, <2>1 DEF Ordered
<1>30. CopyPlace(g, n, b + 1) = k + 1 /\ CopyAt(g, n, b + 1) = x
  <2>1. CopyPlace(g, n, b + 1) = k + 1
    BY <1>2, <1>5 DEF CopyPlace
  <2> QED
    BY <1>5, <1>10, <2>1 DEF CopyAt
<1>31. ASSUME k + 1 < Len(d) PROVE NextTest(g, x, d[(k + 1) + 1], x)
  <2>1. k < l /\ (k + 1) + 1 \in (k + 2)..(l + 1) /\ ((k + 1) + 1) - 1 = k + 1
    <3>1. k + 1 < l + 1 /\ k \in Nat /\ l \in Nat
      BY <1>1, <1>2, <1>10, <1>31
    <3> QED
      BY <3>1
  <2>2. d[(k + 1) + 1] = c[k + 1]
    BY <1>10, <2>1
  <2> QED
    BY <1>23, <2>1, <2>2
<1>32. g[n].board # NoBoard /\ g[x].name = g[n].name /\ g[x].board = b + 1
  BY <1>6, <1>11, <1>15
<1>33. CopiesOK(g, n, b + 1)
  BY <1>5, <1>30, <1>31, <1>32 DEF CopiesOK
<1> QED
  BY <1>29, <1>30, <1>33 DEF x, t

\* The copy for the last board makes the test complete.
LEMMA OrderedLast ==
  ASSUME NEW h, NEW n \in DOMAIN h, Ordered(h, CopyAt(h, n, NumBoards)), CopiesOK(h, n, NumBoards)
  PROVE  Ordered(h, NoNode)
<1> DEFINE e == CopyAt(h, n, NumBoards)
<1>1. /\ NamesOK(h) /\ \A m \in DOMAIN h : ListOK(h, m, e)
      /\ h[n].board # NoBoard /\ h[e].name = h[n].name /\ h[e].board = NumBoards
  BY DEF Ordered, CopiesOK
<1>2. h[n].name \in needsHV
  BY <1>1 DEF NamesOK
<1> HIDE DEF e
<1>3. \A y : Complete(h, y, e) => Complete(h, y, NoNode)
  BY <1>1, <1>2 DEF Complete, LastBoard
<1>4. \A y, z : Adjacent(h, y, z, e) => Adjacent(h, y, z, NoNode)
  BY <1>3 DEF Adjacent, NextTest
<1>5. ASSUME NEW m \in DOMAIN h PROVE ListOK(h, m, NoNode)
  <2> DEFINE c == h[m].children
  <2>1. /\ c = <<>> <=> Kids(h[m].name) = {}
        /\ c # <<>> =>
             /\ h[c[1]].name = Min(Kids(h[m].name)) /\ Starts(h, c[1])
             /\ LaterKids(h[c[Len(c)]].name) = {} /\ Complete(h, c[Len(c)], e)
        /\ \A k \in 1..(Len(c) - 1) : Adjacent(h, c[k], c[k + 1], e)
    BY <1>1 DEF ListOK
  <2>2. /\ c # <<>> => Complete(h, c[Len(c)], NoNode)
        /\ \A k \in 1..(Len(c) - 1) : Adjacent(h, c[k], c[k + 1], NoNode)
    BY <1>3, <1>4, <2>1
  <2> QED
    BY <2>1, <2>2 DEF ListOK
<1> QED
  BY <1>1, <1>5 DEF Ordered

-----------------------------------------------------------------------------
(* The walk of the loop that multiplies the tests *)

\* What is reached stays so when the loop has been at more tests.
LEMMA ReachedMore ==
  ASSUME NEW h, NEW n, NEW V, NEW F, NEW W, NEW G, Reached(h, n, V, F), V \subseteq W, F \subseteq G
  PROVE  Reached(h, n, W, G)
BY DEF Reached

\* From a test that has children the loop goes to the first one.
LEMMA Descend ==
  ASSUME NEW h, HeapOK(h), NEW V, NEW F, Seen(h, V, F), NEW n \in V, h[n].children # <<>>
  PROVE  Visited(h, Successor(h, n), V, F) /\ Successor(h, n) # NoNode
<1> DEFINE c == h[n].children
           s == c[1]
<1>1. n \in DOMAIN h
  BY DEF Seen
<1>2. /\ c \in Seq(Nat) /\ DOMAIN c = 1..Len(c) /\ Len(c) \in Nat /\ IsInjective(c)
      /\ \A i \in 1..Len(c) : c[i] \in DOMAIN h /\ h[c[i]].parent = n
  BY <1>1, HeapFacts
<1>3. 1 \in 1..Len(c)
  <2>1. Len(c) # 0
    BY <1>2, EmptySeq
  <2> QED
    BY <1>2, <2>1
<1>4. s \in DOMAIN h /\ h[s].parent = n /\ Successor(h, n) = s /\ s # NoNode
  <2>1. s \in DOMAIN h /\ h[s].parent = n /\ Successor(h, n) = s
    BY <1>2, <1>3 DEF Successor
  <2> QED
    BY <2>1, HeapFacts DEF NoNode
<1>5. Siblings(h, s) = c
  BY <1>4 DEF Siblings
<1> HIDE DEF c
<1>6. \A i, j \in DOMAIN c : c[i] = c[1] /\ j < i => FALSE
  <2>1. \A i \in DOMAIN c : c[i] = c[1] => i = 1
    BY <1>2, <1>3 DEF IsInjective
  <2> QED
    BY <1>2, <2>1
<1>7. Reached(h, s, V, F)
  BY <1>4, <1>5, <1>6 DEF Reached
<1> QED
  BY <1>4, <1>7 DEF Visited

\* From one where all is done it goes up, as far as all is done, and to the next one.
LEMMA Climb ==
  ASSUME NEW h, HeapOK(h)
  PROVE  \A n \in DOMAIN h : \A V, F :
           Seen(h, V, F) /\ n \in V /\ n \in F => \E G : Visited(h, UpNext(h)[n], V, G)
<1> DEFINE Good(n) == \A V, F :
             Seen(h, V, F) /\ n \in V /\ n \in F => \E G : Visited(h, UpNext(h)[n], V, G)
           Bad == {n \in DOMAIN h : ~Good(n)}
<1> SUFFICES ASSUME Bad # {} PROVE FALSE
  OBVIOUS
<1>1. PICK n \in Bad : \A y \in Bad : n <= y
  <2>1. Bad \in SUBSET Nat
    BY HeapFacts
  <2> HIDE DEF Bad
  <2> QED
    BY <2>1, LeastNumber
<1>2. n \in DOMAIN h /\ ~Good(n) /\ \A y \in DOMAIN h : y < n => Good(y)
  <2>1. \A y \in DOMAIN h : y \in Nat /\ n \in Nat
    BY HeapFacts
  <2> QED
    BY <1>1, <2>1
<1> HIDE DEF Bad
<1>3. PICK V, F : Seen(h, V, F) /\ n \in V /\ n \in F /\ ~\E G : Visited(h, UpNext(h)[n], V, G)
  BY <1>2
<1> HIDE DEF Good
<1>4. CASE n = Root
  <2>1. UpNext(h)[n] = NoNode
    BY <1>2, <1>4, UpNextIs
  <2> QED
    BY <1>3, <1>4, <2>1 DEF Visited, Reached
<1>5. CASE n # Root
  <2> DEFINE p == h[n].parent
             c == Siblings(h, n)
             k == Index(c, n)
             l == Len(c)
  <2>1. /\ p \in DOMAIN h /\ p < n /\ l \in Nat /\ DOMAIN c = 1..l /\ k \in 1..l /\ c[k] = n
        /\ \A i \in 1..l : /\ c[i] \in DOMAIN h /\ h[c[i]].parent = p
                           /\ c[i] = n => i = k
        /\ c = h[p].children
    BY <1>2, <1>5, PlaceIs DEF Siblings
  <2>2. Reached(h, n, V, F) /\ n # NoNode
    BY <1>2, <1>3, <1>5, HeapFacts DEF Seen, NoNode
  <2>3. p \in V /\ \A j \in 1..l : j < k => c[j] \in F
    BY <2>1, <2>2 DEF Reached
  <2>4. /\ k < l => UpNext(h)[n] = c[k + 1]
        /\ ~(k < l) => UpNext(h)[n] = UpNext(h)[p]
    BY <1>2, <1>5, UpNextIs
  <2>5. CASE k < l
    <3> DEFINE s == c[k + 1]
    <3>1. k + 1 \in 1..l
      BY <2>1, <2>5
    <3>2. s \in DOMAIN h /\ h[s].parent = p /\ Siblings(h, s) = c
      BY <2>1, <3>1 DEF Siblings
    <3>3. s \in DOMAIN h \ {Root} /\ s # NoNode
      <4>1. NoNode \notin DOMAIN h /\ h[Root].parent = NoNode
        BY HeapFacts DEF NoNode
      <4> QED
        BY <2>1, <3>2, <4>1
    <3>4. \A i \in 1..l : c[i] = s => i = Index(c, s)
      BY <3>2, <3>3, PlaceIs
    <3>5. \A i \in 1..l : c[i] = s => i = k + 1
      BY <3>1, <3>4
    <3> HIDE DEF c, k, l, p
    <3>6. \A j \in 1..l : j < k + 1 => c[j] \in F
      <4>1. \A j \in 1..l : j < k + 1 => j < k \/ j = k
        BY <2>1
      <4> QED
        BY <1>3, <2>1, <2>3, <4>1
    <3>7. Reached(h, s, V, F)
      BY <2>1, <2>3, <3>2, <3>5, <3>6 DEF Reached
    <3>8. Visited(h, s, V, F)
      BY <1>3, <3>3, <3>7 DEF Visited
    <3> QED
      BY <1>3, <2>4, <2>5, <3>8
  <2>6. CASE ~(k < l)
    <3> DEFINE G == F \union {p}
    <3>1. Range(h[p].children) \subseteq F
      <4>1. \A i \in 1..l : i < k \/ i = k
        BY <2>1, <2>6
      <4>2. \A i \in 1..l : c[i] \in F
        BY <1>3, <2>1, <2>3, <4>1
      <4> QED
        BY <2>1, <4>2 DEF Range
    <3>2. /\ V \subseteq DOMAIN h /\ F \subseteq DOMAIN h
          /\ \A m \in V \union F : Multi(h, m)
          /\ \A m \in F : Range(h[m].children) \subseteq F
          /\ Root \in V
          /\ \A m \in V \ {Root} : Reached(h, m, V, F)
      BY <1>3 DEF Seen
    <3> HIDE DEF p
    <3>3. \A m \in V \ {Root} : Reached(h, m, V, G)
      BY <3>2, ReachedMore
    <3>4. Seen(h, V, G)
      BY <2>1, <2>3, <3>1, <3>2, <3>3 DEF Seen
    <3>5. \E H : Visited(h, UpNext(h)[p], V, H)
      BY <1>2, <2>1, <2>3, <3>4 DEF Good
    <3> QED
      BY <1>3, <2>4, <2>6, <3>5
  <2> QED
    BY <2>5, <2>6
<1> QED
  BY <1>4, <1>5

\* A test that is multiplied, or does not have to be, is behind the loop.
LEMMA Advance ==
  ASSUME NEW h, HeapOK(h), NEW n \in DOMAIN h, NEW V, NEW F, Visited(h, n, V, F), Multi(h, n)
  PROVE  \E W, G : Visited(h, Successor(h, n), W, G)
<1> DEFINE W == V \union {n}
           G == F \union {n}
<1>1. /\ V \subseteq DOMAIN h /\ F \subseteq DOMAIN h
      /\ \A m \in V \union F : Multi(h, m)
      /\ \A m \in F : Range(h[m].children) \subseteq F
      /\ Root \in V
      /\ \A m \in V \ {Root} : Reached(h, m, V, F)
      /\ Reached(h, n, V, F)
  BY DEF Visited, Seen
<1>2. /\ \A m \in W \ {Root} : Reached(h, m, W, F)
      /\ \A m \in W \ {Root} : Reached(h, m, W, G)
  BY <1>1, ReachedMore
<1>3. n \in W /\ Seen(h, W, F)
  BY <1>1, <1>2 DEF Seen
<1>4. CASE h[n].children # <<>>
  BY <1>3, <1>4, Descend
<1>5. CASE h[n].children = <<>>
  <2>1. Range(h[n].children) = {}
    BY <1>5 DEF Range
  <2>2. Seen(h, W, G)
    BY <1>1, <1>2, <2>1 DEF Seen
  <2>3. Successor(h, n) = UpNext(h)[n]
    BY <1>5 DEF Successor
  <2> QED
    BY <1>3, <2>2, <2>3, Climb
<1> QED
  BY <1>4, <1>5

\* When the loop is over, it has been at all of the tests.
LEMMA AllSeen ==
  ASSUME NEW h, HeapOK(h), NEW V, NEW F, Visited(h, NoNode, V, F)
  PROVE  \A n \in DOMAIN h : Multi(h, n)
<1> DEFINE Bad == {n \in DOMAIN h : n \notin F}
<1>1. Root \in F /\ (\A m \in F : Multi(h, m)) /\ (\A m \in F : Range(h[m].children) \subseteq F)
  BY DEF Visited, Seen
<1> SUFFICES ASSUME Bad # {} PROVE FALSE
  BY <1>1
<1>2. PICK n \in Bad : \A y \in Bad : n <= y
  <2>1. Bad \in SUBSET Nat
    BY HeapFacts
  <2> HIDE DEF Bad
  <2> QED
    BY <2>1, LeastNumber
<1>3. n \in DOMAIN h \ {Root} /\ n \notin F
  BY <1>1, <1>2
<1>4. h[n].parent \in DOMAIN h /\ h[n].parent < n /\ n \in Range(h[h[n].parent].children)
  BY <1>3, PlaceIs DEF Siblings
<1>5. h[n].parent \in F
  <2>1. h[n].parent \in Nat /\ n \in Nat
    BY <1>3, <1>4, HeapFacts
  <2>2. h[n].parent \notin Bad
    BY <1>2, <1>4, <2>1
  <2> QED
    BY <1>4, <2>2
<1> QED
  BY <1>1, <1>3, <1>4, <1>5

\* What the loop has been at stays so, while it multiplies the test it is at.
LEMMA SeenFirst ==
  ASSUME NEW h, HeapOK(h), NEW n \in DOMAIN h, NEW g, Boarded(g, h, n, 1),
         NEW V, NEW F, Visited(h, n, V, F), ~Multi(h, n)
  PROVE  Visited(g, n, V, F) /\ n \notin F
<1>1. /\ V \subseteq DOMAIN h /\ F \subseteq DOMAIN h
      /\ \A m \in V \union F : Multi(h, m)
      /\ \A m \in F : Range(h[m].children) \subseteq F
      /\ Root \in V
      /\ \A m \in V \ {Root} : Reached(h, m, V, F)
      /\ Reached(h, n, V, F)
      /\ n = NoNode => Root \in F
  BY DEF Visited, Seen
<1>2. /\ DOMAIN g = DOMAIN h
      /\ \A m \in DOMAIN h :
           /\ g[m].name = h[m].name /\ g[m].parent = h[m].parent
           /\ g[m].children = h[m].children
           /\ g[m].board = IF m = n THEN 1 ELSE h[m].board
  BY DEF Boarded
<1>3. \A m \in DOMAIN h \ {Root} : Siblings(g, m) = Siblings(h, m) /\ g[m].parent = h[m].parent
  <2> TAKE m \in DOMAIN h \ {Root}
  <2>1. h[m].parent \in DOMAIN h /\ m \in DOMAIN h
    BY PlaceIs
  <2> QED
    BY <1>2, <2>1 DEF Siblings
<1>4. \A m \in DOMAIN h \ {Root} : Reached(h, m, V, F) => Reached(g, m, V, F)
  BY <1>3 DEF Reached
<1>5. \A m \in V \union F : Multi(g, m)
  BY <1>1, <1>2 DEF Multi, NoBoard
<1>6. n # Root /\ n \notin F
  BY <1>1
<1>7. Seen(g, V, F)
  BY <1>1, <1>2, <1>4, <1>5 DEF Seen
<1> QED
  BY <1>1, <1>4, <1>6, <1>7 DEF Visited

\* What the loop has been at stays so when a copy is inserted behind the test.
LEMMA SeenCopy ==
  ASSUME NEW h, HeapOK(h), NEW n \in DOMAIN h \ {Root}, NEW b \in Nat, b >= 1, b < NumBoards,
         CopyPlace(h, n, b) <= Len(Siblings(h, n)),
         NEW g, g = Multiplied(h, n, b + 1),
         NEW V, NEW F, Visited(h, n, V, F), n \notin F
  PROVE  Visited(g, n, V, F)
<1> DEFINE p == h[n].parent
           c == Siblings(h, n)
           l == Len(c)
           i == Index(c, n)
           k == CopyPlace(h, n, b) + 1
           t == Top(h)
           x == n + t
           S == Subtree(h, n)
           N == Nat
           d == InsertAt(c, k, x)
<1>1. /\ p \in DOMAIN h /\ c \in Seq(N) /\ l \in Nat /\ DOMAIN c = 1..l
      /\ i \in 1..l /\ c[i] = n
      /\ \A j \in 1..l : c[j] \in DOMAIN h /\ h[c[j]].parent = p
      /\ c = h[p].children
  BY PlaceIs DEF Siblings
<1>2. i + (b + 1) - 1 = k /\ i < k /\ k \in 1..(l + 1) /\ k \in Nat /\ i \in 1..l
  <2>1. i \in 1..l /\ CopyPlace(h, n, b) = i + b - 1 /\ CopyPlace(h, n, b) <= l
    BY <1>1 DEF CopyPlace
  <2> HIDE DEF i, l, c
  <2> QED
    BY SMTT(30), <1>1, <2>1
<1>3. b + 1 \in 0..NumBoards /\ b + 1 >= 2
  BY TestChainAssumption
<1>4. Index(Siblings(h, n), n) + (b + 1) - 1 \in 1..(Len(Siblings(h, n)) + 1)
  <2>1. k \in 1..(l + 1) /\ Index(Siblings(h, n), n) + (b + 1) - 1 = k
    BY <1>2
  <2> HIDE DEF k
  <2> QED
    BY <2>1 DEF l
<1>5. Copied(g, h, n, b + 1)
  BY <1>3, <1>4, CopyIs
<1>6. Index(Siblings(h, n), n) + (b + 1) - 1 = k
  BY <1>2
<1> HIDE DEF k
<1>7. /\ DOMAIN g = DOMAIN h \union {s + t : s \in S}
      /\ \A m \in DOMAIN h :
           /\ g[m].name = h[m].name /\ g[m].board = h[m].board
           /\ g[m].parent = h[m].parent
           /\ g[m].children = IF m = p THEN InsertAt(h[m].children, k, x) ELSE h[m].children
      /\ \A s \in S : s + t \notin DOMAIN h
      /\ n \in S
  BY <1>5, <1>6, SubtreeIs DEF Copied
<1>8. x \in N /\ x \notin DOMAIN h
  BY <1>7, TopIs, HeapFacts
<1>9. g[p].children = d
  BY <1>1, <1>7
<1>10. /\ DOMAIN d = 1..(l + 1)
       /\ \A j \in 1..(k - 1) : d[j] = c[j]
       /\ d[k] = x
       /\ \A j \in (k + 1)..(l + 1) : d[j] = c[j - 1]
  <2>1. c \in Seq(N) /\ x \in N /\ k \in 1..(Len(c) + 1)
    BY <1>1, <1>2, <1>8
  <2> HIDE DEF c, x, N
  <2> QED
    BY <2>1, Inserted
<1> HIDE DEF d, l, x, t, S, N
<1>11. /\ V \subseteq DOMAIN h /\ F \subseteq DOMAIN h
       /\ \A m \in V \union F : Multi(h, m)
       /\ \A m \in F : Range(h[m].children) \subseteq F
       /\ Root \in V
       /\ \A m \in V \ {Root} : Reached(h, m, V, F)
       /\ Reached(h, n, V, F)
       /\ n = NoNode => Root \in F
  BY DEF Visited, Seen
<1>12. p \notin F
  <2>1. n \in Range(h[p].children)
    BY PlaceIs DEF Siblings
  <2> QED
    BY <1>11, <2>1
<1>13. \A m \in F : g[m].children = h[m].children
  BY <1>7, <1>11, <1>12
<1>14. \A m \in V \union F : Multi(g, m)
  BY <1>7, <1>11 DEF Multi
<1>15. ASSUME NEW m \in DOMAIN h \ {Root}, Reached(h, m, V, F) PROVE Reached(g, m, V, F)
  <2> DEFINE r == h[m].parent
  <2>1. r \in DOMAIN h /\ r \in V /\ g[m].parent = r
    <3>1. r \in DOMAIN h /\ m # NoNode
      BY PlaceIs, HeapFacts DEF NoNode
    <3> QED
      BY <1>7, <1>15, <3>1 DEF Reached
  <2>2. CASE r # p
    <3>1. Siblings(g, m) = Siblings(h, m)
      BY <1>7, <2>1, <2>2 DEF Siblings
    <3> QED
      BY <1>15, <2>1, <3>1 DEF Reached
  <2>3. CASE r = p
    <3>1. Siblings(h, m) = c /\ Siblings(g, m) = d
      BY <1>1, <1>9, <2>1, <2>3 DEF Siblings
    <3>2. m # NoNode
      BY HeapFacts DEF NoNode
    <3>3. \A a, j \in 1..l : c[a] = m /\ j < a => c[j] \in F
      BY <1>1, <1>15, <3>1, <3>2 DEF Reached
    <3> HIDE DEF c, i, p, r
    <3>4. ASSUME NEW a \in 1..(l + 1), NEW j \in 1..(l + 1), d[a] = m, j < a
          PROVE  d[j] \in F
      <4>1. a # k
        BY <1>8, <1>10, <3>4
      <4>2. CASE a > k
        <5>1. a \in (k + 1)..(l + 1) /\ a - 1 \in 1..l /\ i < a - 1
          BY <1>1, <1>2, <4>2
        <5>2. c[a - 1] = m
          BY <1>10, <3>4, <5>1
        <5>3. c[i] \in F
          BY <1>2, <3>3, <5>1, <5>2
        <5> QED
          BY <1>1, <5>3
      <4>3. CASE a < k
        <5>1. a \in 1..(k - 1) /\ j \in 1..(k - 1) /\ a \in 1..l /\ j \in 1..l
          BY <1>1, <1>2, <3>4, <4>3
        <5> QED
          BY <1>10, <3>3, <3>4, <5>1
      <4>4. a > k \/ a < k
        BY <1>1, <1>2, <4>1
      <4> QED
        BY <4>2, <4>3, <4>4
    <3> QED
      BY <1>10, <2>1, <3>1, <3>4 DEF Reached
  <2> QED
    BY <2>2, <2>3
<1>16. Seen(g, V, F)
  BY <1>7, <1>11, <1>13, <1>14, <1>15 DEF Seen
<1> QED
  BY <1>11, <1>15, <1>16 DEF Visited

-----------------------------------------------------------------------------
(* The invariant of the two loops *)

\* The least of a set of numbers.
LEMMA MinIs ==
  ASSUME NEW S, NEW x \in S, S \subseteq Nat, \A y \in S : x <= y
  PROVE  Min(S) = x
<1>1. Min(S) \in S /\ \A y \in S : Min(S) <= y
  BY DEF Min
<1>2. Min(S) <= x /\ x <= Min(S) /\ x \in Nat /\ Min(S) \in Nat
  BY <1>1
<1> QED
  BY <1>2

\* The tree that the parser made.
LEMMA ParsedOrdered ==
  ASSUME Types, Holds(Len(meant)), Plain(heap)
  PROVE  Ordered(heap, NoNode)
<1> DEFINE k == Len(meant)
<1>1. /\ Tests = 1..k /\ k \in Nat /\ \A i \in Tests : meant[i] \in Nat
  <2>1. k \in Nat /\ DOMAIN meant = 1..k /\ \A i \in 1..k : meant[i] \in TestNumbers
    BY LenProperties, ElementOfSeq DEF Types, UserOK
  <2> QED
    BY <2>1, TestChainAssumption DEF TestNumbers, Tests
<1>2. /\ Nodes = 1..(k + 1)
      /\ \A i \in 1..k : heap[i + 1].name = i /\ heap[i + 1].parent = meant[i] + 1
  BY DEF Holds
<1>3. /\ heap[1].name = 0 /\ \A n \in Nodes : heap[n].board = NoBoard
      /\ \A n \in Nodes : \A i, j \in DOMAIN heap[n].children :
           i < j => heap[n].children[i] < heap[n].children[j]
  BY DEF Plain, Root, NoTest, Nodes
<1> HIDE DEF k
<1>4. \A n \in Nodes : n # 1 => n - 1 \in 1..k /\ (n - 1) + 1 = n
  BY <1>1, <1>2
<1>5. \A n \in Nodes : /\ n \in Nat /\ n >= 1 /\ heap[n].name = n - 1
                       /\ n # 1 => heap[n].parent = meant[n - 1] + 1
  <2> TAKE n \in Nodes
  <2>1. n \in Nat /\ n >= 1
    BY <1>1, <1>2
  <2>2. CASE n = 1
    BY <1>3, <2>2
  <2>3. CASE n # 1
    BY <1>2, <1>4, <2>1, <2>3
  <2> QED
    BY <2>1, <2>2, <2>3
<1>6. NamesOK(heap)
  <2>1. \A n \in Nodes : n # Root => heap[n].name \in Tests
    BY <1>1, <1>4, <1>5 DEF Root
  <2> QED
    BY <1>3, <2>1 DEF NamesOK, Nodes, Root, NoTest
<1>7. ASSUME NEW n \in Nodes PROVE ListOK(heap, n, NoNode)
  <2> DEFINE c == heap[n].children
             l == Len(c)
             K == Kids(n - 1)
  <2>1. /\ c \in Seq(Nat) /\ l \in Nat /\ DOMAIN c = 1..l
        /\ \A i \in 1..l : c[i] \in Nodes /\ heap[c[i]].parent = n
        /\ Range(c) = {m \in Nodes : heap[m].parent = n}
        /\ heap[1].parent = NoNode /\ n # NoNode
    BY HeapFacts DEF Types, Nodes, NoNode, Root
  <2>2. c = <<>> <=> l = 0
    BY <2>1, EmptySeq
  <2>3. \A i, j \in 1..l : i < j => c[i] < c[j]
    BY <1>3, <2>1
  <2> HIDE DEF l
  <2>4. \A i \in 1..l : /\ c[i] \in Nodes /\ c[i] # 1 /\ c[i] \in Nat
                        /\ c[i] - 1 \in K /\ heap[c[i]].name = c[i] - 1
                        /\ heap[c[i]].board = NoBoard /\ meant[c[i] - 1] = n - 1
    <3> TAKE i \in 1..l
    <3>1. c[i] \in Nodes /\ c[i] # 1 /\ c[i] \in Nat /\ heap[c[i]].parent = n /\ n \in Nat
      BY <1>5, <2>1
    <3> HIDE DEF c, K
    <3>2. heap[c[i]].name = c[i] - 1 /\ heap[c[i]].board = NoBoard /\ c[i] - 1 \in Tests
          /\ n = meant[c[i] - 1] + 1 /\ meant[c[i] - 1] \in Nat
      BY <1>1, <1>3, <1>4, <1>5, <3>1
    <3>3. meant[c[i] - 1] = n - 1
      BY <3>1, <3>2
    <3> QED
      BY <3>1, <3>2, <3>3 DEF K, Kids
  <2>5. ASSUME NEW j \in K PROVE j \in Nat /\ \E i \in 1..l : c[i] - 1 = j
    <3>1. j \in Tests /\ meant[j] = n - 1
      BY DEF Kids
    <3>2. j \in Nat /\ j \in 1..k /\ n \in Nat
      BY <1>1, <1>5, <3>1
    <3>3. j + 1 \in Nodes /\ heap[j + 1].parent = n
      BY <1>1, <1>2, <3>1, <3>2
    <3>4. PICK i \in 1..l : c[i] = j + 1
      BY <2>1, <3>3 DEF Range
    <3> QED
      BY <3>2, <3>4
  <2>6. heap[n].name = n - 1
    BY <1>5
  <2> HIDE DEF K, c
  <2>7. l = 0 <=> K = {}
    <3>1. l # 0 => 1 \in 1..l
      BY <2>1
    <3> QED
      BY <2>1, <2>4, <2>5, <3>1
  <2>8. ASSUME NEW i \in 1..l
        PROVE  LaterKids(heap[c[i]].name) = {j \in K : j > c[i] - 1}
    BY <2>4 DEF LaterKids, K
  <2>9. K \subseteq Nat
    BY <2>5
  <2>10. ASSUME l # 0
         PROVE  /\ heap[c[1]].name = Min(K) /\ Starts(heap, c[1])
                /\ LaterKids(heap[c[l]].name) = {} /\ Complete(heap, c[l], NoNode)
    <3>1. 1 \in 1..l /\ l \in 1..l
      BY <2>1, <2>10
    <3>2. \A j \in K : c[1] - 1 <= j
      <4> TAKE j \in K
      <4>1. PICK i \in 1..l : c[i] - 1 = j
        BY <2>5
      <4>2. i = 1 \/ 1 < i
        OBVIOUS
      <4>3. c[1] <= c[i] /\ c[1] \in Nat /\ c[i] \in Nat
        BY <2>3, <2>4, <3>1, <4>2
      <4> QED
        BY <4>1, <4>3
    <3>3. Min(K) = c[1] - 1
      <4> DEFINE x == c[1] - 1
      <4>1. x \in K /\ \A j \in K : x <= j
        BY <2>4, <3>1, <3>2
      <4> HIDE DEF x
      <4>2. Min(K) = x
        BY <2>9, <4>1, MinIs
      <4> QED
        BY <4>2 DEF x
    <3>4. \A j \in K : ~(j > c[l] - 1)
      <4> TAKE j \in K
      <4>1. PICK i \in 1..l : c[i] - 1 = j
        BY <2>5
      <4>2. i = l \/ i < l
        BY <2>1
      <4>3. c[i] <= c[l] /\ c[l] \in Nat /\ c[i] \in Nat
        BY <2>3, <2>4, <3>1, <4>2
      <4> QED
        BY <4>1, <4>3
    <3>5. LaterKids(heap[c[l]].name) = {}
      BY <2>8, <3>1, <3>4
    <3> QED
      BY <2>4, <3>1, <3>3, <3>5 DEF Starts, Complete
  <2>11. ASSUME NEW i \in 1..(l - 1) PROVE Adjacent(heap, c[i], c[i + 1], NoNode)
    <3>1. i \in 1..l /\ i + 1 \in 1..l /\ i < i + 1
      BY <2>1
    <3> DEFINE L == LaterKids(heap[c[i]].name)
               x == c[i + 1] - 1
    <3>2. L = {j \in K : j > c[i] - 1}
      BY <2>8, <3>1
    <3>3. x \in L
      <4>1. c[i] < c[i + 1] /\ c[i] \in Nat /\ c[i + 1] \in Nat /\ x \in K
        BY <2>3, <2>4, <3>1
      <4> QED
        BY <3>2, <4>1
    <3>4. \A j \in L : x <= j
      <4> TAKE j \in L
      <4>1. PICK a \in 1..l : c[a] - 1 = j
        BY <2>5, <3>2
      <4>2. c[a] > c[i] /\ c[a] \in Nat /\ c[i] \in Nat
        <5>1. c[a] - 1 > c[i] - 1 /\ c[a] \in Nat /\ c[i] \in Nat
          BY <2>4, <3>1, <3>2, <4>1
        <5> QED
          BY <5>1
      <4>3. ~(a < i) /\ a # i
        <5>1. a < i => c[a] < c[i]
          BY <2>3, <3>1
        <5> QED
          BY <4>2, <5>1
      <4>4. a = i + 1 \/ i + 1 < a
        BY <2>1, <3>1, <4>3
      <4>5. c[i + 1] <= c[a] /\ c[i + 1] \in Nat
        BY <2>3, <2>4, <3>1, <4>2, <4>4
      <4> QED
        BY <4>1, <4>2, <4>5
    <3>5. L \subseteq Nat
      BY <2>9, <3>2
    <3> HIDE DEF L, x
    <3>6. Min(L) = x
      BY <3>3, <3>4, <3>5, MinIs
    <3>7. heap[c[i + 1]].name = Min(L) /\ L # {}
      BY <2>4, <3>1, <3>3, <3>6 DEF x
    <3>8. Complete(heap, c[i], NoNode) /\ Starts(heap, c[i + 1])
      BY <2>4, <3>1 DEF Complete, Starts
    <3> QED
      BY <3>7, <3>8 DEF L, Adjacent, NextTest
  <2>12. /\ c = <<>> <=> Kids(heap[n].name) = {}
         /\ c # <<>> =>
              /\ heap[c[1]].name = Min(Kids(heap[n].name)) /\ Starts(heap, c[1])
              /\ LaterKids(heap[c[Len(c)]].name) = {} /\ Complete(heap, c[Len(c)], NoNode)
         /\ \A i \in 1..(Len(c) - 1) : Adjacent(heap, c[i], c[i + 1], NoNode)
    BY <2>2, <2>6, <2>7, <2>10, <2>11 DEF K, l
  <2> QED
    BY <2>12 DEF ListOK, c
<1> QED
  BY <1>6, <1>7 DEF Ordered, Nodes

\* What is said of a tree does not depend on the step.
LEMMA UserKept ==
  ASSUME UNCHANGED userVars, NEW h, NEW e, NEW n, NEW b, NEW V, NEW F
  PROVE  /\ Kids(NoTest)' = Kids(NoTest)
         /\ Ordered(h, e) => Ordered(h, e)'
         /\ CopiesOK(h, n, b) => CopiesOK(h, n, b)'
         /\ Visited(h, n, V, F) => Visited(h, n, V, F)'
         /\ Multi(h, n) => Multi(h, n)'
<1>1. meant' = meant /\ needsHV' = needsHV
  BY DEF userVars
<1>2. \A i : Kids(i)' = Kids(i) /\ LaterKids(i)' = LaterKids(i)
  BY <1>1 DEF Kids, LaterKids, Tests
<1>3. \A i : FirstBoard(i)' = FirstBoard(i) /\ LastBoard(i)' = LastBoard(i)
  BY <1>1 DEF FirstBoard, LastBoard
<1>4. \A x : (Starts(h, x) <=> Starts(h, x)')
  BY <1>3 DEF Starts
<1>5. \A x, y : (Complete(h, x, y) <=> Complete(h, x, y)')
  BY <1>3 DEF Complete
<1>6. \A x, y, z : (NextTest(h, x, y, z) <=> NextTest(h, x, y, z)')
  BY <1>2, <1>4, <1>5 DEF NextTest
<1>7. \A x, y, z : (Adjacent(h, x, y, z) <=> Adjacent(h, x, y, z)')
  BY <1>6 DEF Adjacent
<1>8. \A x : ListOK(h, x, e) => ListOK(h, x, e)'
  BY <1>2, <1>4, <1>5, <1>7 DEF ListOK
<1>9. NamesOK(h) => NamesOK(h)'
  BY <1>1 DEF NamesOK, Tests
<1>10. \A x : (Multi(h, x) <=> Multi(h, x)')
  BY <1>1 DEF Multi
<1>11. Visited(h, n, V, F) => Visited(h, n, V, F)'
  BY <1>10 DEF Visited, Seen
<1>12. CopiesOK(h, n, b) => CopiesOK(h, n, b)'
  BY <1>6 DEF CopiesOK
<1> QED
  BY <1>2, <1>8, <1>9, <1>10, <1>11, <1>12 DEF Ordered

\* The parts of the invariant in the next state.
LEMMA LoopKept ==
  ASSUME UNCHANGED userVars, Kids(NoTest) # {},
         Ordered(heap', Unfinished'),
         phase' = "multiply" => CopiesOK(heap', current', board'),
         phase' = "expand" => \E V, F : Visited(heap', current', V, F),
         phase' = "multiply" => \E V, F : Visited(heap', current', V, F) /\ current' \notin F,
         phase' = "run" => \A n \in DOMAIN heap' : Multi(heap', n)
  PROVE  LoopInv'
<1>1. Kids(NoTest)' # {} /\ Ordered(heap, Unfinished)'
  BY UserKept
<1>2. phase' = "multiply" => CopiesOK(heap, current, board)'
  BY UserKept
<1>3. \A V, F : Visited(heap', current', V, F) =>
                  Visited(heap, current, V, F)' /\ V \in SUBSET Nodes' /\ F \in SUBSET Nodes'
  <2>1. \A V, F : Visited(heap', current', V, F) => Visited(heap, current, V, F)'
    BY UserKept
  <2> QED
    BY <2>1 DEF Visited, Seen, Nodes
<1>4. \A n : Multi(heap', n) => Multi(heap, n)'
  BY UserKept
<1>5. TreeInv'
  BY <1>1, <1>2 DEF TreeInv
<1>6. WalkInv'
  BY <1>3, <1>4 DEF WalkInv, Nodes
<1> QED
  BY <1>5, <1>6 DEF LoopInv

\* The first loop starts at a tree that is in order.
LEMMA WalkLoop ==
  ASSUME Types, ParserInv, Walk
  PROVE  LoopInv'
<1>1. /\ Parsed /\ current' = Successor(heap, Root) /\ phase' = "expand"
      /\ UNCHANGED <<userVars, parserVars, heap, board, done>>
  BY DEF Walk
<1>2. phase = "parse" /\ place = "end" /\ WellWritten /\ text # <<>> /\ Plain(heap)
  BY <1>1 DEF Parsed, ParserInv
<1>3. Holds(Len(meant))
  <2>1. TakenAsMeant
    BY MeantWhenParsed
  <2>2. Tests = 1..Len(meant)
    BY LenProperties DEF Types, UserOK, Tests
  <2> QED
    BY <1>1, <2>1, <2>2 DEF TakenAsMeant, Holds
<1>4. Ordered(heap, NoNode)
  BY <1>2, <1>3, ParsedOrdered
<1>5. 1 \in Kids(NoTest)
  <2>1. /\ Len(text) \in Nat /\ Len(text) # 0
    BY <1>2, EmptySeq, LenProperties DEF Types, UserOK
  <2>2. 1 \in Nat \ {0} /\ 1 <= Len(text)
    BY <2>1
  <2>3. Continues(meant, Before(1), text[1])
    BY <1>2, <2>2, TextIs DEF Types
  <2>4. Before(1) = Start /\ Start.tok = "," /\ Start.test = 0 /\ Start.open = <<0>>
    BY DEF Before, Start, NoTest
  <2>5. text[1].test = 1 /\ 1 <= Len(meant) /\ meant[1] = Last(<<0>>)
    <3>1. /\ text[1].tok = "name" /\ text[1].test = Start.test + 1 /\ text[1].test <= Len(meant)
          /\ meant[text[1].test] = Last(Start.open)
      BY <2>3, <2>4 DEF Continues
    <3>2. Start.test + 1 = 1
      <4>1. Start.test = 0
        BY <2>4
      <4> QED
        BY <4>1
    <3> QED
      BY <2>4, <3>1, <3>2
  <2>6. Last(<<0>>) = 0
    BY DEF Last
  <2>7. 1 \in Tests
    BY <2>5, LenProperties DEF Types, UserOK, Tests
  <2> QED
    BY <2>5, <2>6, <2>7 DEF Kids, NoTest
<1>6. HeapOK(heap) /\ Root \in DOMAIN heap /\ ListOK(heap, Root, NoNode)
      /\ heap[Root].name = NoTest
  BY <1>4, HeapFacts DEF Types, Ordered, NamesOK
<1>7. heap[Root].children # <<>>
  BY <1>5, <1>6 DEF ListOK
<1>8. Multi(heap, Root)
  <2>1. NoTest \notin needsHV
    <3>1. needsHV \subseteq 1..Len(meant)
      BY LenProperties DEF Types, UserOK, Tests
    <3> QED
      BY <3>1 DEF NoTest
  <2> QED
    BY <1>6, <2>1 DEF Multi
<1>9. Seen(heap, {Root}, {})
  BY <1>6, <1>8 DEF Seen
<1>10. \E V, F : Visited(heap, Successor(heap, Root), V, F)
  BY <1>6, <1>7, <1>9, Descend
<1>11. Unfinished' = NoNode
  BY <1>1 DEF Unfinished
<1> QED
  BY <1>1, <1>4, <1>5, <1>10, <1>11, LoopKept

\* The loop goes on from a test that is multiplied, or does not have to be.
LEMMA WalkOn ==
  ASSUME Types, LoopInv, UNCHANGED <<userVars, heap>>, Ordered(heap, NoNode),
         phase \in {"expand", "multiply"}, phase' = "expand", current # NoNode,
         Multi(heap, current), current' = Successor(heap, current)
  PROVE  LoopInv'
<1>1. Kids(NoTest) # {} /\ \E V, F : Visited(heap, current, V, F)
  BY DEF LoopInv, TreeInv, WalkInv
<1>2. HeapOK(heap) /\ current \in DOMAIN heap
  BY DEF Types, LoopOK, Nodes
<1>3. \E V, F : Visited(heap, current', V, F)
  BY <1>1, <1>2, Advance
<1>4. Unfinished' = NoNode /\ heap' = heap
  BY DEF Unfinished
<1> QED
  BY <1>1, <1>3, <1>4, LoopKept

\* The first loop goes on, or starts to multiply the test it is at.
LEMMA ExpandLoop ==
  ASSUME Types, LoopInv, Expand
  PROVE  LoopInv'
<1>1. /\ phase = "expand" /\ current # NoNode /\ UNCHANGED userVars
      /\ HeapOK(heap) /\ current \in DOMAIN heap \ {Root}
  BY DEF Expand, Types, LoopOK, Nodes
<1>2. Kids(NoTest) # {} /\ Ordered(heap, NoNode)
  BY <1>1 DEF LoopInv, TreeInv, Unfinished
<1>3. CASE heap[current].name \in needsHV /\ heap[current].board = NoBoard /\ NumBoards > 0
  <2>1. /\ heap' = [heap EXCEPT ![current].board = 1] /\ board' = 1
        /\ phase' = "multiply" /\ current' = current
    BY <1>3 DEF Expand
  <2>2. Boarded(heap', heap, current, 1)
    <3>1. 1 \in Nat /\ 1 <= NumBoards
      BY <1>3, TestChainAssumption
    <3> QED
      BY <1>1, <2>1, <3>1, BoardIs
  <2>3. Ordered(heap', current) /\ CopiesOK(heap', current, 1) /\ CopyAt(heap', current, 1) = current
    BY <1>1, <1>2, <1>3, <2>2, OrderedFirst
  <2>4. PICK V, F : Visited(heap, current, V, F)
    BY <1>1 DEF LoopInv, WalkInv
  <2>5. ~Multi(heap, current)
    BY <1>3 DEF Multi
  <2>6. Visited(heap', current, V, F) /\ current \notin F
    BY <1>1, <2>2, <2>4, <2>5, SeenFirst
  <2>7. Unfinished' = CopyAt(heap', current', board')
    BY <2>1 DEF Unfinished, CopyAt, CopyPlace, Siblings
  <2>8. Ordered(heap', Unfinished') /\ CopiesOK(heap', current', board')
        /\ \E W, G : Visited(heap', current', W, G) /\ current' \notin G
    BY <2>1, <2>3, <2>6, <2>7
  <2> QED
    BY <1>1, <1>2, <2>1, <2>8, LoopKept
<1>4. CASE ~(heap[current].name \in needsHV /\ heap[current].board = NoBoard /\ NumBoards > 0)
  <2>1. current' = Successor(heap, current) /\ UNCHANGED <<heap, board, phase>>
    BY <1>4 DEF Expand
  <2>2. Multi(heap, current)
    BY <1>4 DEF Multi
  <2> QED
    BY <1>1, <1>2, <2>1, <2>2, WalkOn
<1> QED
  BY <1>3, <1>4

\* multiply() inserts the next copy, or is done and the loop goes on.
LEMMA MultiplyLoop ==
  ASSUME Types, LoopInv, Multiply
  PROVE  LoopInv'
<1>1. /\ phase = "multiply" /\ current # NoNode /\ UNCHANGED userVars
      /\ HeapOK(heap) /\ current \in DOMAIN heap \ {Root}
      /\ board \in Nat /\ board >= 1 /\ board <= NumBoards
      /\ CopyPlace(heap, current, board) <= Len(Siblings(heap, current))
  <2>1. board \in 0..NumBoards
    BY DEF Types, LoopOK
  <2>2. board \in Nat /\ board <= NumBoards
    BY <2>1, TestChainAssumption
  <2> QED
    BY <2>2 DEF Multiply, Types, LoopOK, Nodes, LastCopy, CopyPlace
<1>2. /\ Kids(NoTest) # {} /\ Ordered(heap, CopyAt(heap, current, board))
      /\ CopiesOK(heap, current, board)
      /\ \E V, F : Visited(heap, current, V, F) /\ current \notin F
  BY <1>1 DEF LoopInv, TreeInv, WalkInv, Unfinished
<1>3. CASE board < NumBoards
  <2> DEFINE x == current + Top(heap)
  <2>1. /\ heap' = Multiplied(heap, current, board + 1) /\ board' = board + 1
        /\ phase' = "multiply" /\ current' = current
    BY <1>1, <1>3 DEF Multiply
  <2>2. Ordered(heap', x) /\ CopiesOK(heap', current, board + 1)
        /\ CopyAt(heap', current, board + 1) = x
    BY <1>1, <1>2, <1>3, <2>1, OrderedCopy
  <2>3. PICK V, F : Visited(heap, current, V, F) /\ current \notin F
    BY <1>2
  <2>4. Visited(heap', current, V, F)
    BY <1>1, <1>3, <2>1, <2>3, SeenCopy
  <2>5. Unfinished' = CopyAt(heap', current', board')
    BY <2>1 DEF Unfinished, CopyAt, CopyPlace, Siblings
  <2>6. Ordered(heap', Unfinished') /\ CopiesOK(heap', current', board')
        /\ \E W, G : Visited(heap', current', W, G) /\ current' \notin G
    BY <2>1, <2>2, <2>3, <2>4, <2>5
  <2> QED
    BY <1>1, <1>2, <2>1, <2>6, LoopKept
<1>4. CASE ~(board < NumBoards)
  <2>1. current' = Successor(heap, current) /\ phase' = "expand" /\ UNCHANGED <<heap, board>>
    BY <1>4 DEF Multiply
  <2>2. board = NumBoards
    BY <1>1, <1>4, TestChainAssumption
  <2>3. Ordered(heap, NoNode)
    <3>1. Ordered(heap, CopyAt(heap, current, NumBoards)) /\ CopiesOK(heap, current, NumBoards)
      BY <1>2, <2>2
    <3> QED
      BY <1>1, <3>1, OrderedLast
  <2>4. Multi(heap, current)
    BY <1>2 DEF Multi, CopiesOK
  <2> QED
    BY <1>1, <2>1, <2>3, <2>4, WalkOn
<1> QED
  BY <1>3, <1>4

\* The tree is in order at every step of the two loops, and when the second one
\* runs, all tests that need the high voltage are multiplied.
LEMMA NextLoop ==
  ASSUME Types, ParserInv, LoopInv, [Next]_vars
  PROVE  LoopInv'
<1>1. ASSUME UNCHANGED <<userVars, phase, heap, current, board>> PROVE LoopInv'
  <2>1. CASE phase \in {"expand", "multiply", "run"}
    <3>1. TreeInv /\ WalkInv
      BY <2>1 DEF LoopInv
    <3>2. Unfinished' = Unfinished
      BY <1>1 DEF Unfinished, CopyAt, CopyPlace, Siblings
    <3>3. /\ phase' = phase /\ heap' = heap /\ current' = current /\ board' = board
          /\ UNCHANGED userVars
      BY <1>1
    <3>4. /\ Kids(NoTest) # {} /\ Ordered(heap', Unfinished')
          /\ phase' = "multiply" => CopiesOK(heap', current', board')
      BY <3>1, <3>2, <3>3 DEF TreeInv
    <3>5. /\ phase' = "expand" => \E V, F : Visited(heap', current', V, F)
          /\ phase' = "multiply" => \E V, F : Visited(heap', current', V, F) /\ current' \notin F
          /\ phase' = "run" => \A n \in DOMAIN heap' : Multi(heap', n)
      BY <3>1, <3>3 DEF WalkInv, Nodes
    <3> QED
      BY <3>3, <3>4, <3>5, LoopKept
  <2>2. CASE phase \notin {"expand", "multiply", "run"}
    BY <1>1, <2>2 DEF LoopInv
  <2> QED
    BY <2>1, <2>2
<1>2. CASE Write \/ Read \/ Parse
  BY <1>2 DEF Write, Read, Parse, LoopInv
<1>3. CASE Rewind \/ Run
  <2>1. /\ phase \in {"expand", "run"} /\ phase' = "run" /\ heap' = heap /\ UNCHANGED userVars
        /\ phase = "expand" => current = NoNode
    BY <1>3 DEF Rewind, Run
  <2>2. TreeInv /\ WalkInv
    BY <2>1 DEF LoopInv
  <2>3. Unfinished' = NoNode /\ Unfinished = NoNode
    BY <2>1 DEF Unfinished
  <2>4. Kids(NoTest) # {} /\ Ordered(heap', Unfinished')
    BY <2>1, <2>2, <2>3 DEF TreeInv
  <2>5. \A n \in DOMAIN heap : Multi(heap, n)
    <3>1. CASE phase = "run"
      BY <2>2, <3>1 DEF WalkInv, Nodes
    <3>2. CASE phase = "expand"
      <4>1. \E V, F : Visited(heap, NoNode, V, F)
        BY <2>1, <2>2, <3>2 DEF WalkInv
      <4> QED
        BY <4>1, AllSeen DEF Types
    <3> QED
      BY <2>1, <3>1, <3>2
  <2> QED
    BY <2>1, <2>4, <2>5, LoopKept
<1>4. CASE UNCHANGED vars
  BY <1>1, <1>4 DEF vars, loopVars
<1> QED
  BY <1>2, <1>3, <1>4, WalkLoop, ExpandLoop, MultiplyLoop DEF Next, Terminating

\* The invariant that the next theorem needs.
THEOREM LoopsHold == Spec => []LoopInv
<1>1. Init => LoopInv
  BY DEF Init, LoopInv
<1>2. Types /\ ParserInv /\ LoopInv /\ [Next]_vars => LoopInv'
  BY NextLoop
<1> QED
  BY <1>1, <1>2, TypesHold, ParserHolds, PTL DEF Spec

-----------------------------------------------------------------------------
(* The order in which the second loop goes through the tree *)

\* The tree when the second loop begins.
Ready(h) == HeapOK(h) /\ Ordered(h, NoNode) /\ \A n \in DOMAIN h : Multi(h, n)

\* The alternatives of Follows() and Ends().
AllLast(p) == \A i \in DOMAIN p : IsLast(p[i])
NextStep(p, q) ==
  \E k \in DOMAIN p :
    /\ \A i \in (k + 1)..Len(p) : IsLast(p[i])
    /\ IsNext(p[k], q[k])
    /\ Len(q) = k /\ \A i \in 1..(k - 1) : q[i] = p[i]

\* The board of a test of this tree, if it is the first or the last one.
LEMMA BoardsAre ==
  ASSUME NEW h, Ready(h), NEW n \in DOMAIN h \ {Root}
  PROVE  /\ Starts(h, n) => h[n].board = FirstBoard(h[n].name)
         /\ Complete(h, n, NoNode) => h[n].board = LastBoard(h[n].name)
         /\ h[n].board <= LastBoard(h[n].name)
         /\ h[n].board \in Nat /\ LastBoard(h[n].name) \in Nat
<1>1. /\ h[n].board # NoBoard => h[n].name \in needsHV
      /\ h[n].name \in needsHV /\ NumBoards > 0 => h[n].board # NoBoard
  BY DEF Ready, Ordered, NamesOK, Multi
<1>2. n # NoNode /\ h[n].board \in 0..NumBoards
  BY HeapFacts DEF Ready, NoNode
<1>3. NumBoards \in Nat /\ NoBoard = 0
  BY TestChainAssumption DEF NoBoard
<1>4. CASE h[n].name \in needsHV
  BY <1>1, <1>2, <1>3, <1>4 DEF Starts, Complete, FirstBoard, LastBoard
<1>5. CASE h[n].name \notin needsHV
  BY <1>1, <1>2, <1>3, <1>5 DEF Starts, Complete, FirstBoard, LastBoard
<1> QED
  BY <1>4, <1>5

\* Of two neighbours in a list the second one is the step after the first one.
LEMMA NeighbourIs ==
  ASSUME NEW h, Ready(h), NEW m \in DOMAIN h \ {Root}, NEW s \in DOMAIN h \ {Root},
         Adjacent(h, m, s, NoNode)
  PROVE  IsNext(Step(h, m), Step(h, s))
<1> DEFINE x == Step(h, m)
           y == Step(h, s)
<1>1. /\ x = [name |-> h[m].name, board |-> h[m].board]
      /\ y = [name |-> h[s].name, board |-> h[s].board]
  BY DEF Step
<1>2. x.name = h[m].name /\ x.board = h[m].board
  BY <1>1
<1>3. CASE NextCopy(h, m, s)
  <2>1. h[s].name = h[m].name /\ h[s].board = h[m].board + 1
    BY <1>3 DEF NextCopy
  <2>2. h[m].board < LastBoard(h[m].name)
    <3>1. h[s].board <= LastBoard(h[s].name) /\ LastBoard(h[s].name) \in Nat
      BY BoardsAre
    <3>2. h[m].board \in Nat
      BY BoardsAre
    <3> QED
      BY <2>1, <3>1, <3>2
  <2>3. y = [x EXCEPT !.board = @ + 1]
    BY <1>1, <2>1
  <2> HIDE DEF x, y
  <2>4. x.board < LastBoard(x.name)
    BY <1>2, <2>2
  <2>5. IsNext(x, y)
    BY <2>3, <2>4 DEF IsNext
  <2> QED
    BY <2>5 DEF x, y
<1>4. CASE NextTest(h, m, s, NoNode)
  <2> DEFINE L == LaterKids(h[m].name)
  <2>1. Complete(h, m, NoNode) /\ L # {} /\ h[s].name = Min(L) /\ Starts(h, s)
    BY <1>4 DEF NextTest
  <2>2. h[m].board = LastBoard(h[m].name) /\ h[s].board = FirstBoard(h[s].name)
    BY <2>1, BoardsAre
  <2>3. y = First(L)
    BY <1>1, <2>1, <2>2 DEF First
  <2> HIDE DEF x, y
  <2>4. x.board = LastBoard(x.name) /\ LaterKids(x.name) # {} /\ y = First(LaterKids(x.name))
    BY <1>2, <2>1, <2>2, <2>3
  <2>5. IsNext(x, y)
    BY <2>4 DEF IsNext
  <2> QED
    BY <2>5 DEF x, y
<1> QED
  BY <1>3, <1>4 DEF Adjacent

\* Within a last step the same comes next as after it.
LEMMA LastWithin ==
  ASSUME NEW p \in Seq(Steps), NEW x \in Steps, IsLast(x), NEW q
  PROVE  /\ AllLast(p) => AllLast(Append(p, x))
         /\ NextStep(p, q) => NextStep(Append(p, x), q)
<1> DEFINE r == Append(p, x)
           l == Len(p)
<1>1. /\ Len(r) = l + 1 /\ l \in Nat /\ DOMAIN p = 1..l /\ DOMAIN r = 1..(l + 1)
      /\ \A i \in 1..l : r[i] = p[i]
      /\ r[l + 1] = x
  BY Appended
<1> HIDE DEF r, l
<1>2. ASSUME AllLast(p) PROVE AllLast(r)
  <2>1. \A i \in 1..(l + 1) : i \in 1..l \/ i = l + 1
    BY <1>1
  <2> QED
    BY <1>1, <1>2, <2>1 DEF AllLast
<1>3. ASSUME NextStep(p, q) PROVE NextStep(r, q)
  <2>1. PICK k \in 1..l :
          /\ \A i \in (k + 1)..l : IsLast(p[i])
          /\ IsNext(p[k], q[k])
          /\ Len(q) = k /\ \A i \in 1..(k - 1) : q[i] = p[i]
    BY <1>1, <1>3 DEF NextStep, l
  <2>2. ASSUME NEW i \in (k + 1)..(l + 1) PROVE IsLast(r[i])
    <3>1. CASE i = l + 1
      BY <1>1, <3>1
    <3>2. CASE i # l + 1
      <4>1. i \in (k + 1)..l /\ i \in 1..l
        BY <1>1, <2>1, <3>2
      <4> QED
        BY <1>1, <2>1, <4>1
    <3> QED
      BY <3>1, <3>2
  <2>3. k \in DOMAIN r /\ IsNext(r[k], q[k])
    BY <1>1, <2>1
  <2>4. \A i \in 1..(k - 1) : q[i] = r[i]
    <3>1. \A i \in 1..(k - 1) : i \in 1..l
      BY <1>1, <2>1
    <3> QED
      BY <1>1, <2>1, <3>1
  <2> QED
    BY <1>1, <2>1, <2>2, <2>3, <2>4 DEF NextStep
<1> QED
  BY <1>2, <1>3 DEF r

\* The next step in the same test.
LEMMA NextWithin ==
  ASSUME NEW p \in Seq(Steps), NEW x \in Steps, NEW y \in Steps, IsNext(x, y)
  PROVE  NextStep(Append(p, x), Append(p, y))
<1> DEFINE r == Append(p, x)
           q == Append(p, y)
           l == Len(p)
<1>1. /\ Len(r) = l + 1 /\ l \in Nat /\ DOMAIN r = 1..(l + 1)
      /\ \A i \in 1..l : r[i] = p[i]
      /\ r[l + 1] = x
  BY Appended
<1>2. Len(q) = l + 1 /\ q[l + 1] = y /\ \A i \in 1..l : q[i] = p[i]
  BY Appended
<1> HIDE DEF r, q, l
<1> DEFINE k == l + 1
<1>3. k \in DOMAIN r /\ (\A i \in (k + 1)..Len(r) : IsLast(r[i])) /\ Len(q) = k
  BY <1>1, <1>2
<1>4. \A i \in 1..(k - 1) : q[i] = r[i]
  BY <1>1, <1>2
<1>5. IsNext(r[k], q[k])
  BY <1>1, <1>2
<1> HIDE DEF k
<1>6. NextStep(r, q)
  BY <1>3, <1>4, <1>5 DEF NextStep
<1> QED
  BY <1>6 DEF r, q

\* Up from a test, the loop goes to the next step of the innermost test that is not
\* over, and it ends when there is none.
LEMMA UpIs ==
  ASSUME NEW h, Ready(h)
  PROVE  \A n \in DOMAIN h \ {Root} :
           /\ UpNext(h)[n] = NoNode => AllLast(Path(h)[n])
           /\ UpNext(h)[n] # NoNode => NextStep(Path(h)[n], Path(h)[UpNext(h)[n]])
<1> DEFINE Good(n) ==
             /\ UpNext(h)[n] = NoNode => AllLast(Path(h)[n])
             /\ UpNext(h)[n] # NoNode => NextStep(Path(h)[n], Path(h)[UpNext(h)[n]])
           Bad == {n \in DOMAIN h \ {Root} : ~Good(n)}
<1> SUFFICES ASSUME Bad # {} PROVE FALSE
  OBVIOUS
<1>1. HeapOK(h) /\ \A n \in DOMAIN h : ListOK(h, n, NoNode)
  BY DEF Ready, Ordered
<1>2. PICK n \in Bad : \A y \in Bad : n <= y
  <2>1. Bad \in SUBSET Nat
    BY <1>1, HeapFacts
  <2> HIDE DEF Bad
  <2> QED
    BY <2>1, LeastNumber
<1>3. n \in DOMAIN h \ {Root} /\ ~Good(n) /\ \A y \in DOMAIN h \ {Root} : y < n => Good(y)
  <2>1. \A y \in DOMAIN h : y \in Nat /\ n \in Nat
    BY <1>1, HeapFacts
  <2> QED
    BY <1>2, <2>1
<1> HIDE DEF Bad
<1> DEFINE p == h[n].parent
           c == h[p].children
           k == Index(c, n)
           l == Len(c)
<1>4. /\ p \in DOMAIN h /\ p < n /\ l \in Nat /\ k \in 1..l /\ c[k] = n
      /\ \A i \in 1..l : c[i] \in DOMAIN h /\ h[c[i]].parent = p
      /\ Siblings(h, n) = c
  BY <1>1, <1>3, PlaceIs DEF Siblings
<1>5. /\ \A i \in 1..l : c[i] \in DOMAIN h \ {Root}
      /\ LaterKids(h[c[l]].name) = {} /\ Complete(h, c[l], NoNode)
      /\ \A i \in 1..(l - 1) : Adjacent(h, c[i], c[i + 1], NoNode)
  <2>1. ListOK(h, p, NoNode) /\ l # 0 /\ p \in DOMAIN h
    BY <1>1, <1>4
  <2> HIDE DEF p
  <2>2. /\ \A i \in 1..Len(h[p].children) : h[p].children[i] \in DOMAIN h \ {Root}
        /\ Len(h[p].children) # 0 =>
             /\ LaterKids(h[h[p].children[Len(h[p].children)]].name) = {}
             /\ Complete(h, h[p].children[Len(h[p].children)], NoNode)
        /\ \A i \in 1..(Len(h[p].children) - 1) :
             Adjacent(h, h[p].children[i], h[p].children[i + 1], NoNode)
    BY <1>1, <2>1, ListIs
  <2> QED
    BY <2>1, <2>2
<1>6. /\ k < l => UpNext(h)[n] = c[k + 1]
      /\ ~(k < l) => UpNext(h)[n] = UpNext(h)[p]
  BY <1>1, <1>3, <1>4, UpNextIs
<1>7. /\ Path(h)[Root] = <<>> /\ Path(h)[p] \in Seq(Steps)
      /\ Path(h)[n] = Append(Path(h)[p], Step(h, n)) /\ Step(h, n) \in Steps
  BY <1>1, <1>3, <1>4, PathIs
<1>8. CASE k < l
  <2> DEFINE s == c[k + 1]
  <2>1. k \in 1..(l - 1) /\ k + 1 \in 1..l
    BY <1>4, <1>8
  <2>2. s \in DOMAIN h \ {Root} /\ h[s].parent = p /\ Adjacent(h, n, s, NoNode) /\ UpNext(h)[n] = s
    BY <1>4, <1>5, <1>6, <1>8, <2>1
  <2> HIDE DEF s
  <2>3. s # NoNode
    BY <1>1, <2>2, HeapFacts DEF NoNode
  <2>4. IsNext(Step(h, n), Step(h, s))
    BY <1>3, <2>2, NeighbourIs
  <2>5. Path(h)[s] = Append(Path(h)[p], Step(h, s)) /\ Step(h, s) \in Steps
    BY <1>1, <2>2, PathIs
  <2>6. NextStep(Path(h)[n], Path(h)[s])
    BY <1>7, <2>4, <2>5, NextWithin
  <2> QED
    BY <1>3, <2>2, <2>3, <2>6
<1>9. CASE ~(k < l)
  <2>1. k = l
    BY <1>4, <1>9
  <2>2. LaterKids(h[n].name) = {} /\ Complete(h, n, NoNode) /\ UpNext(h)[n] = UpNext(h)[p]
    BY <1>4, <1>5, <1>6, <1>9, <2>1
  <2>3. h[n].board = LastBoard(h[n].name)
    BY <1>3, <2>2, BoardsAre
  <2>4. IsLast(Step(h, n))
    BY <2>2, <2>3 DEF IsLast, Step
  <2>5. CASE p = Root
    <3>1. UpNext(h)[n] = NoNode
      BY <1>1, <1>4, <2>2, <2>5, UpNextIs
    <3>2. AllLast(Path(h)[p])
      BY <1>7, <2>5 DEF AllLast
    <3>3. AllLast(Path(h)[n])
      BY <1>7, <2>4, <3>2, LastWithin
    <3> QED
      BY <1>3, <3>1, <3>3
  <2>6. CASE p # Root
    <3>1. Good(p)
      BY <1>3, <1>4, <2>6
    <3> DEFINE q == Path(h)[UpNext(h)[p]]
    <3>2. /\ AllLast(Path(h)[p]) => AllLast(Path(h)[n])
          /\ NextStep(Path(h)[p], q) => NextStep(Path(h)[n], q)
      <4> HIDE DEF q
      <4> QED
        BY <1>7, <2>4, LastWithin
    <3> QED
      BY <1>3, <2>2, <3>1, <3>2
  <2> QED
    BY <2>5, <2>6
<1> QED
  BY <1>8, <1>9

\* Down from a test the loop goes to the first step in it.
LEMMA DownIs ==
  ASSUME NEW h, Ready(h), NEW n \in DOMAIN h
  PROVE  /\ Kids(h[n].name) = {} => Successor(h, n) = UpNext(h)[n]
         /\ Kids(h[n].name) # {} =>
              /\ Successor(h, n) # NoNode
              /\ Path(h)[Successor(h, n)] = Append(Path(h)[n], First(Kids(h[n].name)))
<1> DEFINE K == Kids(h[n].name)
           s == h[n].children[1]
<1>1. HeapOK(h) /\ ListOK(h, n, NoNode)
  BY DEF Ready, Ordered
<1>2. /\ Len(h[n].children) \in Nat
      /\ h[n].children = <<>> <=> Len(h[n].children) = 0
      /\ Len(h[n].children) = 0 <=> K = {}
      /\ \A i \in 1..Len(h[n].children) :
           h[n].children[i] \in DOMAIN h \ {Root} /\ h[h[n].children[i]].parent = n
      /\ Len(h[n].children) # 0 => h[s].name = Min(K) /\ Starts(h, s)
  BY <1>1, ListIs
<1>3. CASE K = {}
  BY <1>2, <1>3 DEF Successor
<1>4. CASE K # {}
  <2>1. 1 \in 1..Len(h[n].children) /\ h[n].children # <<>>
    BY <1>2, <1>4
  <2>2. /\ s \in DOMAIN h \ {Root} /\ h[s].parent = n
        /\ h[s].name = Min(K) /\ Starts(h, s) /\ Successor(h, n) = s
    BY <1>2, <2>1 DEF Successor
  <2> HIDE DEF s
  <2>3. s # NoNode
    BY <1>1, <2>2, HeapFacts DEF NoNode
  <2>4. h[s].board = FirstBoard(h[s].name)
    BY <2>2, BoardsAre
  <2>5. Step(h, s) = First(K)
    BY <2>2, <2>4 DEF Step, First
  <2>6. Path(h)[s] = Append(Path(h)[n], Step(h, s))
    BY <1>1, <2>2, PathIs
  <2> QED
    BY <1>4, <2>2, <2>3, <2>5, <2>6
<1> QED
  BY <1>3, <1>4

\* The first step of all.
LEMMA FirstIs ==
  ASSUME NEW h, Ready(h), Kids(NoTest) # {}
  PROVE  /\ Successor(h, Root) # NoNode
         /\ Path(h)[Successor(h, Root)] = <<First(Kids(NoTest))>>
<1>1. HeapOK(h) /\ Root \in DOMAIN h /\ h[Root].name = NoTest
  BY HeapFacts DEF Ready, Ordered, NamesOK
<1>2. Path(h)[Root] = <<>>
  BY <1>1, PathIs
<1>3. /\ Successor(h, Root) # NoNode
      /\ Path(h)[Successor(h, Root)] = Append(<<>>, First(Kids(NoTest)))
  BY <1>1, <1>2, DownIs
<1> QED
  BY <1>3

\* What the loop runs after a test follows that test, and where the loop ends there
\* is nothing left.
LEMMA FollowsIs ==
  ASSUME NEW h, Ready(h), NEW n \in DOMAIN h \ {Root}
  PROVE  /\ Successor(h, n) # NoNode => Follows(Path(h)[n], Path(h)[Successor(h, n)])
         /\ Successor(h, n) = NoNode => Ends(Path(h)[n])
<1> DEFINE p == Path(h)[n]
           q == Path(h)[Successor(h, n)]
<1>1. Last(p).name = h[n].name
  <2>1. /\ h[n].parent \in DOMAIN h
        /\ HeapOK(h)
    BY PlaceIs DEF Ready
  <2>2. /\ Path(h)[h[n].parent] \in Seq(Steps) /\ Step(h, n) \in Steps
        /\ p = Append(Path(h)[h[n].parent], Step(h, n))
    BY <2>1, PathIs
  <2>3. Last(p) = Step(h, n)
    BY <2>2, Appended
  <2> QED
    BY <2>3 DEF Step
<1>2. CASE Kids(h[n].name) # {}
  <2>1. Successor(h, n) # NoNode /\ q = Append(p, First(Kids(h[n].name)))
    BY <1>2, DownIs
  <2> HIDE DEF p, q
  <2>2. Follows(p, q)
    BY <1>1, <1>2, <2>1 DEF Follows
  <2> QED
    BY <2>1, <2>2 DEF p, q
<1>3. CASE Kids(h[n].name) = {}
  <2>1. Successor(h, n) = UpNext(h)[n]
    BY <1>3, DownIs
  <2>2. /\ Successor(h, n) = NoNode => AllLast(p)
        /\ Successor(h, n) # NoNode => NextStep(p, q)
    BY <2>1, UpIs
  <2> HIDE DEF p, q
  <2>3. Successor(h, n) # NoNode => Follows(p, q)
    BY <1>1, <1>3, <2>2 DEF Follows, NextStep
  <2>4. Successor(h, n) = NoNode => Ends(p)
    BY <1>1, <1>3, <2>2 DEF Ends, AllLast
  <2> QED
    BY <2>3, <2>4 DEF p, q
<1> QED
  BY <1>2, <1>3

\* What is said of the order does not depend on the step.
LEMMA OrderKept ==
  ASSUME UNCHANGED userVars, NEW p, NEW q
  PROVE  /\ First(Kids(NoTest))' = First(Kids(NoTest))
         /\ Follows(p, q) => Follows(p, q)'
         /\ Ends(p) => Ends(p)'
<1>1. meant' = meant /\ needsHV' = needsHV
  BY DEF userVars
<1>2. \A i : Kids(i)' = Kids(i) /\ LaterKids(i)' = LaterKids(i)
  BY <1>1 DEF Kids, LaterKids, Tests
<1>3. \A i : FirstBoard(i)' = FirstBoard(i) /\ LastBoard(i)' = LastBoard(i)
  BY <1>1 DEF FirstBoard, LastBoard
<1>4. \A tests : First(tests)' = First(tests)
  BY <1>3 DEF First
<1>5. \A x : (IsLast(x) <=> IsLast(x)')
  BY <1>2, <1>3 DEF IsLast
<1>6. \A x, y : (IsNext(x, y) <=> IsNext(x, y)')
  BY <1>2, <1>3, <1>4 DEF IsNext
<1>7. First(Kids(NoTest))' = First(Kids(NoTest))
  BY <1>2, <1>3 DEF First
<1>8. First(Kids(Last(p).name))' = First(Kids(Last(p).name))
  BY <1>2, <1>3 DEF First
<1>9. Follows(p, q) => Follows(p, q)'
  BY <1>2, <1>5, <1>6, <1>8 DEF Follows
<1>10. Ends(p) => Ends(p)'
  BY <1>2, <1>5 DEF Ends
<1> QED
  BY <1>7, <1>9, <1>10

\* The ways through a tree depend on nothing but the tree.
LEMMA TreeKept ==
  ASSUME heap' = heap, NEW n
  PROVE  Path(heap)' = Path(heap) /\ Successor(heap, n)' = Successor(heap, n)
BY DEF Path, Successor, UpNext, Index

\* The second loop has just run the test before the one it is at.
LEMMA NextDone ==
  ASSUME Types, DoneInv, [Next]_vars
  PROVE  DoneInv'
<1>1. HeapOK(heap) /\ current \in (Nodes \ {Root}) \union {NoNode}
  BY DEF Types, LoopOK
<1>2. ASSUME UNCHANGED <<phase, heap, current, done>> PROVE DoneInv'
  <2>1. Path(heap)' = Path(heap) /\ \A n : Successor(heap, n)' = Successor(heap, n)
    BY <1>2, TreeKept
  <2>2. DoneInv
    OBVIOUS
  <2> QED
    BY <1>2, <2>1, <2>2 DEF DoneInv, Nodes
<1>3. CASE Write \/ Read \/ Parse \/ Walk \/ Expand \/ Multiply
  <2>1. phase # "run" /\ phase' # "run" /\ done' = done
    BY <1>3 DEF Write, Read, Parse, Walk, Parsed, Expand, Multiply, loopVars
  <2> QED
    BY <2>1 DEF DoneInv
<1>4. CASE Rewind
  <2>1. /\ phase = "expand" /\ phase' = "run" /\ done' = done /\ heap' = heap
        /\ current' = Successor(heap, Root)
    BY <1>4 DEF Rewind
  <2>2. Successor(heap, Root)' = Successor(heap, Root)
    BY <2>1, TreeKept
  <2>3. done = <<>> /\ done \in Seq(Seq(Steps))
    BY <2>1 DEF DoneInv
  <2> QED
    BY <2>1, <2>2, <2>3 DEF DoneInv
<1>5. CASE Run
  <2> DEFINE S == Seq(Steps)
             x == Path(heap)[current]
  <2>1. /\ phase' = "run" /\ done' = Append(done, x) /\ heap' = heap
        /\ current' = Successor(heap, current) /\ current \in Nodes \ {Root}
    BY <1>1, <1>5 DEF Run
  <2>2. Path(heap)' = Path(heap)
    BY <2>1, TreeKept
  <2>3. x \in S
    BY <1>1, <2>1, PathIs DEF Nodes
  <2>4. done \in Seq(S)
    BY DEF DoneInv
  <2> HIDE DEF S, x
  <2>5. done' \in Seq(S) /\ done' # <<>> /\ Last(done') = x
    BY <2>1, <2>3, <2>4, Appended
  <2>6. PICK n : n = current
    OBVIOUS
  <2>7. Successor(heap, n)' = Successor(heap, n)
    BY <2>1, TreeKept
  <2>8. n \in Nodes' \ {Root} /\ Last(done)' = Path(heap)'[n] /\ current' = Successor(heap, n)'
    BY <2>1, <2>2, <2>5, <2>6, <2>7 DEF Nodes, x
  <2> QED
    BY <2>1, <2>5, <2>8 DEF DoneInv, S
<1>6. CASE UNCHANGED vars
  BY <1>2, <1>6 DEF vars, loopVars
<1> QED
  BY <1>3, <1>4, <1>5, <1>6 DEF Next, Terminating

\* Another test is run.
LEMMA RunOrder ==
  ASSUME Types, LoopInv, DoneInv, RunInOrder, Run
  PROVE  RunInOrder'
<1> DEFINE x == Path(heap)[current]
           l == Len(done)
<1>1. /\ phase = "run" /\ done' = Append(done, x) /\ heap' = heap /\ UNCHANGED userVars
      /\ current' = Successor(heap, current) /\ current \in DOMAIN heap \ {Root}
  BY DEF Run, Types, LoopOK, Nodes
<1>2. Kids(NoTest) # {} /\ Ready(heap)
  <2>1. TreeInv /\ WalkInv
    BY <1>1 DEF LoopInv
  <2>2. Unfinished = NoNode
    BY <1>1 DEF Unfinished
  <2> QED
    BY <1>1, <2>1, <2>2 DEF TreeInv, WalkInv, Ready, Types, Nodes
<1>3. /\ done \in Seq(Seq(Steps))
      /\ \/ done = <<>> /\ current = Successor(heap, Root)
         \/ /\ done # <<>>
            /\ \E n \in DOMAIN heap \ {Root} :
                 Last(done) = Path(heap)[n] /\ current = Successor(heap, n)
  BY <1>1 DEF DoneInv, Nodes
<1>4. x \in Seq(Steps)
  BY <1>1, <1>2, PathIs DEF Ready
<1>5. current' = NoNode => Ends(x)
  BY <1>1, <1>2, FollowsIs
<1>6. current # NoNode
  BY DEF Run
<1>7. done = <<>> => x = <<First(Kids(NoTest))>>
  BY <1>2, <1>3, FirstIs
<1>8. done # <<>> => Follows(done[l], x)
  <2> SUFFICES ASSUME done # <<>> PROVE Follows(done[l], x)
    OBVIOUS
  <2>1. PICK n \in DOMAIN heap \ {Root} :
          Last(done) = Path(heap)[n] /\ current = Successor(heap, n)
    BY <1>3
  <2>2. Follows(Path(heap)[n], Path(heap)[Successor(heap, n)])
    BY <1>2, <1>6, <2>1, FollowsIs
  <2> QED
    BY <2>1, <2>2 DEF Last
<1> HIDE DEF x
<1>9. /\ done' # <<>> /\ Len(done') = l + 1 /\ l \in Nat
      /\ \A i \in 1..l : done'[i] = done[i]
      /\ done'[l + 1] = x /\ Last(done') = x
      /\ done = <<>> <=> l = 0
  <2>1. /\ done' # <<>> /\ Len(done') = l + 1 /\ l \in Nat
        /\ \A i \in 1..l : done'[i] = done[i]
        /\ done'[l + 1] = x /\ Last(done') = x
    BY <1>1, <1>3, <1>4, Appended
  <2> QED
    BY <1>3, <2>1, EmptySeq
<1> HIDE DEF l
<1>10. /\ done # <<>> => done[1] = <<First(Kids(NoTest))>>
       /\ \A k \in 1..(l - 1) : Follows(done[k], done[k + 1])
  BY <1>1 DEF RunInOrder, l
<1>11. done'[1] = <<First(Kids(NoTest))>>
  <2>1. CASE l = 0
    BY <1>7, <1>9, <2>1
  <2>2. CASE l # 0
    BY <1>9, <1>10, <2>2
  <2> QED
    BY <2>1, <2>2
<1>12. ASSUME NEW k \in 1..l PROVE Follows(done'[k], done'[k + 1])
  <2>1. CASE k = l
    BY <1>8, <1>9, <2>1
  <2>2. CASE k # l
    <3>1. k \in 1..(l - 1) /\ k + 1 \in 1..l
      BY <1>9, <2>2
    <3> QED
      BY <1>9, <1>10, <3>1
  <2> QED
    BY <2>1, <2>2
<1>13. /\ First(Kids(NoTest))' = First(Kids(NoTest))
       /\ \A k \in 1..l : Follows(done[k], done[k + 1])'
       /\ current' = NoNode => Ends(Last(done))'
  <2>1. \A p, q : (Follows(p, q) => Follows(p, q)') /\ (Ends(p) => Ends(p)')
    BY <1>1, OrderKept
  <2>2. \A k \in 1..l : Follows(done'[k], done'[k + 1])
    BY <1>12
  <2>3. \A k \in 1..l : Follows(done[k], done[k + 1])'
    BY <2>1, <2>2
  <2>4. current' = NoNode => Ends(Last(done))'
    BY <1>5, <1>9, <2>1 DEF Ends
  <2> QED
    BY <1>1, <2>3, <2>4, OrderKept
<1> QED
  BY <1>9, <1>11, <1>13 DEF RunInOrder

\* When the second loop begins there is a test.
LEMMA RewindOrder ==
  ASSUME Types, LoopInv, DoneInv, Rewind
  PROVE  RunInOrder'
<1>1. /\ phase = "expand" /\ current = NoNode /\ phase' = "run" /\ done' = done
      /\ current' = Successor(heap, Root) /\ HeapOK(heap)
  BY DEF Rewind, Types
<1>2. Kids(NoTest) # {} /\ Ordered(heap, NoNode) /\ \E V, F : Visited(heap, NoNode, V, F)
  BY <1>1 DEF LoopInv, TreeInv, WalkInv, Unfinished
<1>3. Ready(heap)
  BY <1>1, <1>2, AllSeen DEF Ready
<1>4. current' # NoNode
  BY <1>1, <1>2, <1>3, FirstIs
<1>5. done' = <<>>
  BY <1>1 DEF DoneInv
<1>6. Len(done') = 0
  BY <1>5
<1>7. \A k \in 1..(Len(done') - 1) : FALSE
  BY <1>6
<1> QED
  BY <1>4, <1>5, <1>7 DEF RunInOrder

\* What was run before stays in order with what is run next.
LEMMA NextOrder ==
  ASSUME Types, LoopInv, DoneInv, RunInOrder, [Next]_vars
  PROVE  RunInOrder'
<1>1. CASE Write \/ Read \/ Parse \/ Walk \/ Expand \/ Multiply
  <2>1. phase' # "run"
    BY <1>1 DEF Write, Read, Parse, Walk, Parsed, Expand, Multiply
  <2> QED
    BY <2>1 DEF RunInOrder
<1>2. CASE UNCHANGED vars
  <2>1. UNCHANGED userVars /\ phase' = phase /\ current' = current /\ done' = done
    BY <1>2 DEF vars, loopVars
  <2>2. CASE phase # "run"
    BY <2>1, <2>2 DEF RunInOrder
  <2>3. CASE phase = "run"
    <3>1. /\ done # <<>> => done[1] = <<First(Kids(NoTest))>>
          /\ \A k \in 1..(Len(done) - 1) : Follows(done[k], done[k + 1])
          /\ current = NoNode => done # <<>> /\ Ends(Last(done))
      BY <2>3 DEF RunInOrder
    <3>2. \A p, q : (Follows(p, q) => Follows(p, q)') /\ (Ends(p) => Ends(p)')
      BY <2>1, OrderKept
    <3>3. First(Kids(NoTest))' = First(Kids(NoTest))
      BY <2>1, OrderKept
    <3>4. \A k \in 1..(Len(done') - 1) : Follows(done'[k], done'[k + 1])
      BY <2>1, <3>1
    <3>5. \A k \in 1..(Len(done') - 1) : Follows(done[k], done[k + 1])'
      BY <3>2, <3>4
    <3>6. current' = NoNode => Ends(Last(done'))
      BY <2>1, <3>1
    <3>7. current' = NoNode => Ends(Last(done))'
      BY <3>2, <3>6 DEF Ends
    <3> QED
      BY <2>1, <3>1, <3>3, <3>5, <3>7 DEF RunInOrder
  <2> QED
    BY <2>2, <2>3
<1> QED
  BY <1>1, <1>2, RewindOrder, RunOrder DEF Next, Terminating

\* The invariant that relates the test that was run last to the one the loop is at.
THEOREM DoneHolds == Spec => []DoneInv
<1>1. Init => DoneInv
  BY EmptySeq DEF Init, DoneInv
<1>2. Types /\ DoneInv /\ [Next]_vars => DoneInv'
  BY NextDone
<1> QED
  BY <1>1, <1>2, TypesHold, PTL DEF Spec

\* For every number of boards and every text run() goes through the tests in the
\* order in which they are written, those that need the high voltage once for each
\* board and each time with all that belongs to them, and leaves none of them out.
THEOREM RunCorrectly == Spec => []RunInOrder
<1>1. Init => RunInOrder
  BY DEF Init, RunInOrder
<1>2. Types /\ LoopInv /\ DoneInv /\ RunInOrder /\ [Next]_vars => RunInOrder'
  BY NextOrder
<1> QED
  BY <1>1, <1>2, TypesHold, LoopsHold, DoneHolds, PTL DEF Spec
=============================================================================
