----------------------------- MODULE TestChain -----------------------------
(***************************************************************************)
(* The tree of tests: myutils/testchain.py, and the two loops of           *)
(* elComandante that walk through it.                                      *)
(*                                                                         *)
(* The text of the configuration file is written by the user and parsed    *)
(* into linked nodes; the first loop replaces each test that needs the     *)
(* high voltage by one test for each test board, while it walks; the       *)
(* second one runs the tests.                                              *)
(*                                                                         *)
(* A text is a sequence of names and of the characters > { } ,             *)
(* Tests are numbered in the order in which they are written; meant says   *)
(* to which test each of them is meant to belong.  A node is a natural     *)
(* number; the nodes made so far are the domain of heap, 1 is ROOT.        *)
(*                                                                         *)
(* A definition headed "Deviation" is the next definition with a mistake,  *)
(* and no part of the model.                                               *)
(***************************************************************************)
EXTENDS Integers, Sequences, SequencesExt, FiniteSetsExt

CONSTANTS
  MaxTests,    \* bound on the tests of a text
  NumBoards    \* number of test boards

ASSUME TestChainAssumption == MaxTests \in Nat \ {0} /\ NumBoards \in Nat

VARIABLES
  text,
  meant,       \* the test that each test belongs to, 0 for the outermost ones
  needsHV,     \* the tests called IV, leakagecurrentPON or leakagecurrentPOFF
  phase,       \* where run() stands
  place,       \* where the parser stands: in a tree, in a chain, at the end of a list
  pos,         \* the position of the parser
  parent,      \* the variable of that name in testchain.py
  lists,       \* the calls of _parse_test_list_2 that go on, the innermost one last
  heap,
  current,     \* the test the loop is at
  board,       \* the last board that test was made for
  done         \* the tests that were run, each after the tests it belongs to

userVars == <<text, meant, needsHV>>
parserVars == <<place, pos, parent, lists>>
loopVars == <<current, board, done>>
vars == <<userVars, phase, parserVars, heap, loopVars>>

Tests == DOMAIN meant
NoTest == 0
NoNode == 0
Root == 1
NoBoard == 0

-----------------------------------------------------------------------------
(* The user writes a text as __repr__ does, with braces around one test, too, *)
(* if he likes.  Each piece comes with what he has in mind after it: the test *)
(* written last, and the tests whose lists in braces are open.                *)

Start == [tok |-> ",", test |-> NoTest, open |-> <<NoTest>>]
Written == IF text = <<>> THEN Start ELSE Last(text)

WriteTest ==
  /\ Written.tok \in {",", "{", ">"}
  /\ Len(meant) < MaxTests
  /\ text' = Append(text, [Written EXCEPT !.tok = "name", !.test = @ + 1])
  /\ meant' = Append(meant, IF Written.tok = ">" THEN Written.test ELSE Last(Written.open))

WriteSign(tok, open) ==
  /\ text' = Append(text, [Written EXCEPT !.tok = tok, !.open = open])
  /\ UNCHANGED meant

WriteChild == Written.tok = "name" /\ WriteSign(">", Written.open)
WriteComma == Written.tok \in {"name", "}"} /\ text # <<>> /\ WriteSign(",", Written.open)
OpenBrace == Written.tok = ">" /\ WriteSign("{", Append(Written.open, Written.test))
CloseBrace ==
  /\ Written.tok \in {"name", "}"}
  /\ Len(Written.open) > 1
  /\ WriteSign("}", Front(Written.open))

Write ==
  /\ phase = "write"
  /\ WriteTest \/ WriteChild \/ WriteComma \/ OpenBrace \/ CloseBrace
  /\ UNCHANGED <<needsHV, phase, parserVars, heap, loopVars>>

-----------------------------------------------------------------------------
(* test_chain: the nodes *)

Node(name, p) == [name |-> name, board |-> NoBoard, parent |-> p, children |-> <<>>]

\* A new node at the end of the children of its parent.
Top(h) == Max(DOMAIN h)
WithChild(h, name, p) ==
  [n \in DOMAIN h \union {Top(h) + 1} |->
     CASE n = Top(h) + 1 -> Node(name, p)
       [] n = p -> [h[p] EXCEPT !.children = Append(@, Top(h) + 1)]
       [] OTHER -> h[n]]

\* The place of a node among the children.
Index(children, n) ==
  CHOOSE i \in DOMAIN children :
    children[i] = n /\ \A j \in DOMAIN children : j < i => children[j] # n

\* Deviation: goes up one level only.
ParentsNext(h) ==
  [n \in DOMAIN h |->
     LET children == h[h[n].parent].children IN
     IF h[n].parent # NoNode /\ Index(children, n) < Len(children)
       THEN children[Index(children, n) + 1] ELSE NoNode]

\* The parent's up_next(), for each node.
UpNext(h) ==
  LET next[n \in DOMAIN h] ==
        LET p == h[n].parent
            children == h[p].children
        IN  IF p = NoNode \/ n \notin Range(children) THEN NoNode
            ELSE IF Index(children, n) < Len(children) THEN children[Index(children, n) + 1]
            ELSE next[p]
  IN  next

\* next().
Successor(h, n) == IF h[n].children # <<>> THEN h[n].children[1] ELSE UpNext(h)[n]

\* The test and all that belongs to it.
Subtree(h, n) ==
  LET below[m \in DOMAIN h] == m = n \/ (h[m].parent # NoNode /\ below[h[m].parent])
  IN  {m \in DOMAIN h : below[m]}

\* Deviation: the copy shares the children of the original.
Shared(h, n) == [m \in DOMAIN h \union {n + Top(h)} |-> IF m \in DOMAIN h THEN h[m] ELSE h[n]]

\* clone(): the copy of a node m is m + Top(h).
Clone(h, n) ==
  [m \in DOMAIN h \union {s + Top(h) : s \in Subtree(h, n)} |->
     IF m \in DOMAIN h
       THEN h[m]
       ELSE LET of == m - Top(h) IN
            [h[of] EXCEPT !.parent = IF of = n THEN @ ELSE @ + Top(h),
                          !.children = [i \in DOMAIN @ |-> @[i] + Top(h)]]]

\* One pass of the loop of multiply_child().
Multiplied(h, n, b) ==
  [Clone(h, n) EXCEPT
     ![n + Top(h)].board = b,
     ![h[n].parent].children = InsertAt(@, Index(@, n) + b - 1, n + Top(h))]

-----------------------------------------------------------------------------
(* The parser.  A list that is open has the parent of its trees, the position to *)
(* which the parser goes back when the list is not closed, and whether it has a  *)
(* tree yet.  Nodes that were made stay, whatever fails.                         *)

At(p, tok) == p <= Len(text) /\ text[p].tok = tok
Past(p, tok) == IF At(p, tok) THEN p + 1 ELSE p
List(p, back) == [parent |-> p, back |-> back, some |-> FALSE]
Inner == Last(lists)
WithTree(ls) == [ls EXCEPT ![Len(ls)].some = TRUE]

\* Deviation: the next tree of a list belongs to the last test of the one before.
LastParent == parent

\* Each tree of a list has the parent of the list.
ListParent == Inner.parent

\* _parse_test for a name.
ParseTest(p, under) ==
  /\ At(p, "name")
  /\ heap' = WithChild(heap, text[p].test, under)
  /\ parent' = Top(heap) + 1
  /\ pos' = p + 1
  /\ place' = "chain"

\* The first test of a tree, or there is no more tree in the list.
Tree ==
  /\ place = "tree"
  /\ LET p == IF Inner.some THEN Past(pos, ",") ELSE pos IN
       \/ ParseTest(p, ListParent)
       \/ ~At(p, "name") /\ place' = "end" /\ UNCHANGED <<heap, parent, pos>>
  /\ UNCHANGED lists

\* The next test of a chain, a list in braces after it, or the tree is over.
Chain ==
  /\ place = "chain"
  /\ LET p == Past(pos, ">") IN
       \/ ParseTest(p, parent) /\ UNCHANGED lists
       \/ /\ At(p, "{")
          /\ lists' = Append(lists, List(parent, pos))
          /\ pos' = p + 1
          /\ place' = "tree"
          /\ UNCHANGED <<heap, parent>>
       \/ /\ ~At(p, "name") /\ ~At(p, "{")
          /\ lists' = WithTree(lists)
          /\ place' = "tree"
          /\ UNCHANGED <<heap, parent, pos>>

\* _parse_test_bracket after its list.
Bracket ==
  /\ place = "end"
  /\ Len(lists) > 1
  /\ pos' = IF At(pos, "}") THEN pos + 1 ELSE Inner.back
  /\ lists' = WithTree(Front(lists))
  /\ place' = "tree"
  /\ UNCHANGED <<heap, parent>>

Parse ==
  /\ phase = "parse"
  /\ Tree \/ Chain \/ Bracket
  /\ UNCHANGED <<userVars, phase, loopVars>>

-----------------------------------------------------------------------------
(* elComandante *)

\* The test of a node, with the tests that it belongs to, the outermost one first.
Path(h) ==
  LET path[n \in DOMAIN h] ==
        IF h[n].parent = NoNode
          THEN <<>>
          ELSE Append(path[h[n].parent], [name |-> h[n].name, board |-> h[n].board])
  IN  path

Init ==
  /\ text = <<>> /\ meant = <<>> /\ needsHV = {}
  /\ phase = "write"
  /\ place = "tree" /\ pos = 1 /\ parent = Root /\ lists = <<List(Root, 1)>>
  /\ heap = [n \in {Root} |-> Node(NoTest, NoNode)]
  /\ current = NoNode /\ board = NoBoard /\ done = <<>>

\* run() reads the text, which may be cut short, as by a slip of the user.  Such a
\* text is accepted as well, with what is left of it.
Read ==
  /\ phase = "write" /\ text # <<>>
  /\ needsHV' \in SUBSET Tests
  /\ phase' = "parse"
  /\ UNCHANGED <<text, meant, parserVars, heap, loopVars>>

\* The parser is done.
Parsed == phase = "parse" /\ place = "end" /\ Len(lists) = 1

\* The first next().
Walk ==
  /\ Parsed
  /\ current' = Successor(heap, Root)
  /\ phase' = "expand"
  /\ UNCHANGED <<userVars, parserVars, heap, board, done>>

\* One pass of the first loop.  A name with its board added is another name.
Expand ==
  /\ phase = "expand" /\ current # NoNode
  /\ IF heap[current].name \in needsHV /\ heap[current].board = NoBoard /\ NumBoards > 0
       THEN /\ heap' = [heap EXCEPT ![current].board = 1]
            /\ board' = 1
            /\ phase' = "multiply"
            /\ UNCHANGED current
       ELSE /\ current' = Successor(heap, current)
            /\ UNCHANGED <<heap, board, phase>>
  /\ UNCHANGED <<userVars, parserVars, done>>

\* multiply() for the other boards.
Multiply ==
  /\ phase = "multiply"
  /\ IF board < NumBoards
       THEN /\ heap' = Multiplied(heap, current, board + 1)
            /\ board' = board + 1
            /\ UNCHANGED <<phase, current>>
       ELSE /\ phase' = "expand"
            /\ current' = Successor(heap, current)
            /\ UNCHANGED <<heap, board>>
  /\ UNCHANGED <<userVars, parserVars, done>>

Rewind ==
  /\ phase = "expand" /\ current = NoNode
  /\ phase' = "run"
  /\ current' = Successor(heap, Root)
  /\ UNCHANGED <<userVars, parserVars, heap, board, done>>

\* One pass of the second loop.
Run ==
  /\ phase = "run" /\ current # NoNode
  /\ done' = Append(done, Path(heap)[current])
  /\ current' = Successor(heap, current)
  /\ UNCHANGED <<userVars, phase, parserVars, heap, board>>

Terminating == phase = "run" /\ current = NoNode /\ UNCHANGED vars

Next == Write \/ Read \/ Parse \/ Walk \/ Expand \/ Multiply \/ Rewind \/ Run \/ Terminating

Spec == Init /\ [][Next]_vars

-----------------------------------------------------------------------------
Nodes == DOMAIN heap

\* The nodes, and the links: each node but ROOT is just once among the children of
\* its parent, and of no other node.
TypeOK ==
  /\ phase \in {"write", "parse", "expand", "multiply", "run"}
  /\ place \in {"tree", "chain", "end"}
  /\ current \in Nodes \union {NoNode} /\ board \in 0..NumBoards
  /\ \A n \in Nodes :
       /\ heap[n].name \in 0..MaxTests /\ heap[n].board \in 0..NumBoards
       /\ heap[n].parent = NoNode <=> n = Root
       /\ IsInjective(heap[n].children)
       /\ Range(heap[n].children) = {m \in Nodes : heap[m].parent = n}

\* A text of the grammar: no list in braces is open, and a tree follows each comma.
WellFormed == Written.tok \in {"name", "}"} /\ Len(Written.open) = 1

\* A complete text is understood as it was meant: the parser, which goes back and
\* forth and passes the parent of a test in a global variable, makes all tests of it,
\* in their order and each under its own parent.
ParsedAsMeant ==
  Parsed /\ WellFormed =>
    /\ Nodes = 1..(Len(meant) + 1)
    /\ \A i \in Tests : heap[i + 1].name = i /\ heap[i + 1].parent = meant[i] + 1
    /\ \A n \in Nodes : \A i, j \in DOMAIN heap[n].children :
         i < j => heap[n].children[i] < heap[n].children[j]

-----------------------------------------------------------------------------
(* The order in which the tests have to be run.  A step is a test on a board; *)
(* what is run is a sequence of steps, each within the one before.            *)

Kids(i) == {j \in Tests : meant[j] = i}
LaterKids(i) == {j \in Kids(meant[i]) : j > i}

\* The boards a test is run for, one after the other.
FirstBoard(i) == IF i \in needsHV /\ NumBoards > 0 THEN 1 ELSE NoBoard
LastBoard(i) == IF i \in needsHV THEN NumBoards ELSE NoBoard
First(tests) == [name |-> Min(tests), board |-> FirstBoard(Min(tests))]

\* A step has a next one in the same test: the next board, or the next test.
IsLast(x) == x.board = LastBoard(x.name) /\ LaterKids(x.name) = {}
IsNext(x, y) ==
  \/ x.board < LastBoard(x.name) /\ y = [x EXCEPT !.board = @ + 1]
  \/ x.board = LastBoard(x.name) /\ LaterKids(x.name) # {} /\ y = First(LaterKids(x.name))

\* After a test all that belongs to it is run, and then the next step of the
\* innermost test that is not over.
Follows(p, q) ==
  LET kids == Kids(Last(p).name) IN
  \/ kids # {} /\ q = Append(p, First(kids))
  \/ /\ kids = {}
     /\ \E k \in DOMAIN p :
          /\ \A i \in (k + 1)..Len(p) : IsLast(p[i])
          /\ IsNext(p[k], q[k])
          /\ Len(q) = k /\ \A i \in 1..(k - 1) : q[i] = p[i]

Ends(p) == Kids(Last(p).name) = {} /\ \A i \in DOMAIN p : IsLast(p[i])

\* The tests are run in the order in which they are written, those that need the
\* high voltage once for each board, each time with all that belongs to them; and
\* run() goes through all of them, as the loop that multiplies them while it walks
\* through the tree neither skips a test nor multiplies a copy again.
RunInOrder ==
  phase = "run" =>
    /\ done # <<>> => done[1] = <<First(Kids(NoTest))>>
    /\ \A k \in 1..(Len(done) - 1) : Follows(done[k], done[k + 1])
    /\ current = NoNode => done # <<>> /\ Ends(Last(done))
=============================================================================
