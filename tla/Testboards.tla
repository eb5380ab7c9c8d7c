----------------------------- MODULE Testboards -----------------------------
(***************************************************************************)
(* The psi46 part of the system: psi_agente inside elComandante            *)
(* (elComandante/psi_agente.py), the psi46master process                   *)
(* (psiClient/psi46master.py) with one TBmaster object per test board      *)
(* (myutils/tbmaster.py), the worker threads that run the tests, and the   *)
(* test processes they spawn.                                              *)
(*                                                                         *)
(* The main thread of psi46master and the workers share the fields of      *)
(* TBmaster without a lock.  psi_agente asks every busy board for its      *)
(* status again and again and drops packets of earlier tests.  Its sleeps  *)
(* keep it out of the way of the workers; Spawned and Settled say what     *)
(* they are taken to be long enough for.                                   *)
(*                                                                         *)
(* A definition headed "Deviation" is the next definition with a mistake,  *)
(* and no part of the model.                                               *)
(***************************************************************************)
EXTENDS Naturals, Sequences, FiniteSets, Packets

CONSTANTS
  NumBoards,   \* the test boards in use
  NumTests,    \* the tests of the campaign
  Kinds,       \* which kinds of tests occur: see TestKinds
  ExitsInTime, \* whether psi46 has ended when the next test is prepared
  MaxErrorLines  \* the error lines a worker reports at most: a bound

\* "batch" runs a batch file (start), "iv" only holds the board open for the
\* high voltage test (open, close), "powercycle" is a batch that is retried.
TestKinds == {"batch", "iv", "powercycle"}

ASSUME TestboardsAssumption ==
  /\ NumBoards \in Nat \ {0}
  /\ NumTests \in Nat
  /\ Kinds \subseteq TestKinds
  /\ ExitsInTime \in BOOLEAN
  /\ MaxErrorLines \in Nat

Board == 1..NumBoards

VARIABLES
  \* psi_agente
  phase,     \* what psi_agente is doing
  turn,      \* the next board of a loop over Testboards
  test,      \* tests begun
  kind,      \* kind of the current test
  active,    \* the boards an "iv" test opens: see activeTestboard
  busy,      \* Testboard.busy
  retries,   \* Testboard.failedPowercycles
  pending,   \* psi_agente.pending
  \* the psi46 channel
  toMaster, toAgente,
  \* psi46master
  tb,        \* the fields of each TBmaster; proc is the worker that spawned self.proc
  workers,   \* the worker threads of each board, the latest last
  running    \* the workers whose test process is alive

agenteVars == <<phase, turn, test, kind, active, busy, retries, pending>>
masterVars == <<tb, workers, running>>
vars == <<phase, turn, test, kind, active, busy, retries, pending, toMaster, toAgente,
          tb, workers, running>>

\* The bound of the model on the workers of a board that are remembered at a
\* time; the code has none.
MaxWorkers == 2

Worker == [job : {"start", "open"}, test : 1..NumTests, bad : BOOLEAN,
           errors : 0..MaxErrorLines,
           at : {"reset", "spawn", "readout", "check", "answer", "wait", "exit", "gone"}]

TypeOK ==
  /\ phase \in {"idle", "prepare", "ready", "start", "slept", "ask", "read", "clean"}
  /\ turn \in 1..(NumBoards + 1)
  /\ test \in 0..NumTests
  /\ kind \in TestKinds
  /\ active \subseteq Board
  /\ busy \in [Board -> BOOLEAN]
  /\ retries \in [Board -> 0..3]
  /\ pending \in BOOLEAN
  /\ toMaster \in Seq([cmd : {"start", "open", "close", "stat"}, board : Board,
                       test : 1..NumTests])
  /\ toAgente \in Seq([board : Board,
                       says : {"busy", "error", "finished", "failed", "unknown"}])
  /\ tb \in [Board -> [busy : BOOLEAN, failed : BOOLEAN, ended : BOOLEAN,
                       close : BOOLEAN, proc : 0..MaxWorkers]]
  /\ workers \in [Board -> Seq(Worker)]
  /\ \A b \in Board : Len(workers[b]) <= MaxWorkers /\ running[b] \subseteq DOMAIN workers[b]

Fresh == [busy |-> FALSE, failed |-> FALSE, ended |-> FALSE, close |-> FALSE, proc |-> 0]

Init ==
  /\ phase = "idle" /\ turn = 1 /\ test = 0
  /\ kind \in Kinds
  /\ active = Board
  /\ busy = [b \in Board |-> FALSE]
  /\ retries = [b \in Board |-> 0]
  /\ pending = FALSE
  /\ toMaster = <<>> /\ toAgente = <<>>
  /\ tb = [b \in Board |-> Fresh]
  /\ workers = [b \in Board |-> <<>>]
  /\ running = [b \in Board |-> {}]

-----------------------------------------------------------------------------
(* Timing *)

At(b, i, place) == i \in DOMAIN workers[b] /\ workers[b][i].at = place
Alive(b) == tb[b].proc \in running[b]

\* Deviation: the end of the process is not waited for.
ReleaseAtOnce(b) == TRUE

Released(b) == ~Alive(b) \/ tb[b].close

Delivered(b) == \A i \in DOMAIN toMaster : toMaster[i].board # b

\* A worker that was started has spawned its process: sleep(10) after a start,
\* sleep(3) after an open, sleep(2) before the status is asked for.
Spawned(b) ==
  /\ Delivered(b)
  /\ \A i \in DOMAIN workers[b] : ~At(b, i, "reset") /\ ~At(b, i, "spawn")

\* Every worker is gone, or at rest: it reads from a process that runs.  The
\* sleep(3) before a restart; from one test to the next no sleep ensures it.
Settled(b) ==
  /\ Delivered(b)
  /\ \A i \in DOMAIN workers[b] :
       At(b, i, "gone") \/ (At(b, i, "readout") /\ ~Released(b))

-----------------------------------------------------------------------------
(* psi_agente *)

\* Deviation: nothing is dropped.
KeepAll(q) == {q}

ClearPackets(q) == ClearedAmongOthers(q)

Command(cmd, b) == [cmd |-> cmd, board |-> b, test |-> test]
Send(cmd, b) == toMaster' = Append(toMaster, Command(cmd, b))

\* Deviation: one board too many.
MoreAndOne == turn <= NumBoards + 1

\* The loop over Testboards goes on.
MoreBoards == turn <= NumBoards

\* activeTestboard: with a high voltage source of one channel an IV test is
\* repeated for one board after the other.  A "Cycle" opens none.
Actives(k) == IF k = "iv" THEN {Board, {}} \union {{b} : b \in Board} ELSE {Board}

\* prepare_test begins with the loop over the boards.
PrepareTest ==
  /\ phase = "idle"
  /\ test < NumTests
  /\ ExitsInTime => \A b \in Board : Settled(b)
  /\ test' = test + 1
  /\ kind' \in Kinds
  /\ active' \in Actives(kind')
  /\ phase' = "prepare"
  /\ turn' = 1
  /\ UNCHANGED <<busy, retries, pending, toMaster, toAgente, masterVars>>

\* _prepare_testboard: an IV test opens the boards it is for (open_testboard
\* clears the packets first).
PrepareTestboard ==
  /\ phase = "prepare"
  /\ MoreBoards
  /\ IF kind = "iv" /\ turn \in active
       THEN toAgente' \in ClearPackets(toAgente) /\ Send("open", turn)
       ELSE UNCHANGED <<toMaster, toAgente>>
  /\ turn' = turn + 1
  /\ UNCHANGED <<phase, test, kind, active, busy, retries, pending, masterVars>>

Prepared ==
  /\ phase = "prepare"
  /\ ~MoreBoards
  /\ \A b \in Board : Spawned(b)
  /\ phase' = "ready"
  /\ pending' = FALSE
  /\ UNCHANGED <<turn, test, kind, active, busy, retries, toMaster, toAgente, masterVars>>

\* execute_test begins; for an IV test there is nothing to execute.
ExecuteTest ==
  /\ phase = "ready"
  /\ toAgente' \in ClearPackets(toAgente)
  /\ pending' = (kind # "iv")
  /\ phase' = IF kind = "iv" THEN "ask" ELSE "start"
  /\ turn' = 1
  /\ UNCHANGED <<test, kind, active, busy, retries, toMaster, masterVars>>

\* _execute_testboard, followed by sleep(10).
ExecuteTestboard ==
  /\ phase = "start"
  /\ MoreBoards
  /\ busy' = [busy EXCEPT ![turn] = TRUE]
  /\ Send("start", turn)
  /\ toAgente' \in ClearPackets(toAgente)
  /\ phase' = "slept"
  /\ UNCHANGED <<turn, test, kind, active, retries, pending, masterVars>>

NextTestboard ==
  /\ phase = "slept"
  /\ Spawned(turn)
  /\ phase' = "start"
  /\ turn' = turn + 1
  /\ UNCHANGED <<test, kind, active, busy, retries, pending, toMaster, toAgente, masterVars>>

Started ==
  /\ phase = "start"
  /\ ~MoreBoards
  /\ toAgente' \in ClearPackets(toAgente)
  /\ phase' = "ask"
  /\ UNCHANGED <<turn, test, kind, active, busy, retries, pending, toMaster, masterVars>>

BusyBoards == {b \in Board : busy[b]}

\* check_finished asks for the status of every busy board.  By the time it
\* reads the answers (a second per board and two more) they have come.
AskStatus ==
  /\ phase = "ask"
  /\ pending
  /\ \A b \in Board : Spawned(b)
  /\ \E order \in [1..Cardinality(BusyBoards) -> BusyBoards] :
       /\ \A i, j \in DOMAIN order : i < j => order[i] < order[j]
       /\ toMaster' = toMaster \o [i \in DOMAIN order |-> Command("stat", order[i])]
  /\ phase' = "read"
  /\ UNCHANGED <<turn, test, kind, active, busy, retries, pending, toAgente, masterVars>>

\* A failed powercycle is started again, twice; then the board is given up.
\* The failure of any other test ends it.
BoardFailed(b, rest) ==
  IF kind = "powercycle"
    THEN /\ Settled(b)
         /\ retries' = [retries EXCEPT ![b] = IF @ < 3 THEN @ + 1 ELSE @]
         /\ IF retries[b] < 2
              THEN /\ busy' = [busy EXCEPT ![b] = TRUE]
                   /\ Send("start", b)
                   /\ toAgente' \in ClearPackets(rest)
              ELSE /\ toAgente' = rest
                   /\ UNCHANGED <<busy, toMaster>>
    ELSE /\ busy' = [busy EXCEPT ![b] = FALSE]
         /\ toAgente' = rest
         /\ UNCHANGED <<retries, toMaster>>

\* check_finished reads an answer.  It skips a board that is busy, and a line
\* with an error, which decode makes a command of one word.
ReadAnswer ==
  /\ phase = "read"
  /\ pending
  /\ toAgente # <<>>
  /\ LET m == Head(toAgente) IN
       \/ /\ m.says \in {"busy", "error"}
          /\ toAgente' = Tail(toAgente)
          /\ UNCHANGED <<busy, retries, pending, toMaster>>
       \/ /\ m.says \in {"finished", "unknown"}
          /\ busy' = [busy EXCEPT ![m.board] = FALSE]
          /\ retries' = [retries EXCEPT ![m.board] =
                           IF busy[m.board] /\ m.says = "finished" THEN 0 ELSE @]
          /\ toAgente' = Tail(toAgente)
          /\ pending' = \E b \in Board : busy'[b]
          /\ UNCHANGED toMaster
       \/ /\ m.says = "failed"
          /\ BoardFailed(m.board, Tail(toAgente))
          /\ pending' = \E b \in Board : busy'[b]
  /\ UNCHANGED <<phase, turn, test, kind, active, masterVars>>

\* No answer is left; the next sweep asks again.
AnswersRead ==
  /\ phase = "read"
  /\ pending
  /\ toAgente = <<>>
  /\ toMaster = <<>>
  /\ phase' = "ask"
  /\ UNCHANGED <<turn, test, kind, active, busy, retries, pending, toMaster, toAgente, masterVars>>

\* check_finished returns True: cleanup_test.  The reading loop takes one more
\* packet before it notices that nothing is pending, and drops it.
CleanupTest ==
  /\ phase \in {"ask", "read"}
  /\ ~pending
  /\ toAgente' = IF phase = "read" /\ toAgente # <<>> THEN Tail(toAgente) ELSE toAgente
  /\ phase' = "clean"
  /\ turn' = 1
  /\ UNCHANGED <<test, kind, active, busy, retries, pending, toMaster, masterVars>>

\* Deviation: the boards stay open.
LeaveOpen == UNCHANGED toMaster

CloseTestboard ==
  IF kind = "iv" /\ turn \in active THEN Send("close", turn) ELSE UNCHANGED toMaster

CleanupTestboard ==
  /\ phase = "clean"
  /\ MoreBoards
  /\ CloseTestboard
  /\ turn' = turn + 1
  /\ UNCHANGED <<phase, test, kind, active, busy, retries, pending, toAgente, masterVars>>

CleanedUp ==
  /\ phase = "clean"
  /\ ~MoreBoards
  /\ toAgente' \in ClearPackets(toAgente)
  /\ phase' = "idle"
  /\ UNCHANGED <<turn, test, kind, active, busy, retries, pending, toMaster, masterVars>>

-----------------------------------------------------------------------------
(* The main thread of psi46master *)

Says(b, what) == [board |-> b, says |-> what]

\* TBmaster._answer for the state t of board b.
Answer(b, t) ==
  IF t.failed THEN <<Says(b, "failed"), Says(b, "failed")>>
  ELSE IF t.busy THEN <<Says(b, "busy")>>
  ELSE <<Says(b, "finished")>>

\* sendStatsTB adds an answer of its own.
Status(b) ==
  Answer(b, tb[b]) \o
    <<Says(b, CASE tb[b].busy   -> "busy"
                [] ~tb[b].busy /\ tb[b].failed -> "failed"
                [] ~tb[b].busy /\ ~tb[b].failed /\ tb[b].ended -> "finished"
                [] OTHER -> "unknown")>>

\* A new worker thread of board b.  When all earlier ones are gone and left no
\* process they are forgotten; a third one beside two others is not modelled.
NewWorker(b, job, n) ==
  LET w == [job |-> job, test |-> n, bad |-> FALSE, errors |-> 0, at |-> "reset"]
      idle == running[b] = {} /\ \A i \in DOMAIN workers[b] : workers[b][i].at = "gone"
  IN  /\ idle \/ Len(workers[b]) < MaxWorkers
      /\ workers' = [workers EXCEPT ![b] = IF idle THEN <<w>> ELSE Append(@, w)]

\* A first start whose worker has not set the directory yet is answered with
\* "started", which psi_agente skips as it does "busy", and "busy".
Accept(b, job, n) ==
  /\ NewWorker(b, job, n)
  /\ tb' = [tb EXCEPT ![b].busy = (@ \/ job = "start")]
  /\ \/ UNCHANGED toAgente
     \/ /\ job = "start" /\ workers[b] = <<>>
        /\ toAgente' = toAgente \o <<Says(b, "busy"), Says(b, "busy")>>

\* A start for a busy board is refused.
Refuse(b) ==
  /\ toAgente' = toAgente \o Answer(b, tb[b])
  /\ UNCHANGED <<tb, workers>>

\* analysePacket
MainLoop ==
  /\ toMaster # <<>>
  /\ toMaster' = Tail(toMaster)
  /\ LET c == Head(toMaster)
         b == c.board
     IN  \/ c.cmd = "stat" /\ toAgente' = toAgente \o Status(b) /\ UNCHANGED <<tb, workers>>
         \/ c.cmd = "start" /\ ~tb[b].busy /\ Accept(b, "start", c.test)
         \/ c.cmd = "start" /\ tb[b].busy /\ Refuse(b)
         \/ c.cmd = "open" /\ ~tb[b].busy /\ Accept(b, "open", c.test)
         \/ c.cmd = "open" /\ tb[b].busy /\ UNCHANGED <<tb, workers, toAgente>>
         \/ /\ c.cmd = "close"
            /\ tb' = [tb EXCEPT ![b].close = TRUE]
            /\ UNCHANGED <<workers, toAgente>>
  /\ UNCHANGED <<agenteVars, running>>

-----------------------------------------------------------------------------
(* A worker thread: executeTest ("start") or openTB ("open") *)

Go(b, i, place) == workers' = [workers EXCEPT ![b][i].at = place]

\* _resetVariables
Reset(b, i) ==
  /\ At(b, i, "reset")
  /\ tb' = [tb EXCEPT ![b] = [Fresh EXCEPT !.proc = tb[b].proc]]
  /\ Go(b, i, "spawn")
  /\ UNCHANGED <<agenteVars, toMaster, toAgente, running>>

\* _spawn
Spawn(b, i) ==
  /\ At(b, i, "spawn")
  /\ running' = [running EXCEPT ![b] = @ \union {i}]
  /\ tb' = [tb EXCEPT ![b].proc = i, ![b].busy = TRUE]
  /\ Go(b, i, "readout")
  /\ UNCHANGED <<agenteVars, toMaster, toAgente>>

\* _readout handles a line with an error: psi_agente gets a packet, and the
\* process is killed.  The lines that were read with it come after the kill.
ErrorLine(b, i) ==
  /\ At(b, i, "readout")
  /\ workers[b][i].errors < MaxErrorLines
  /\ toAgente' = Append(toAgente, Says(b, "error"))
  /\ tb' = [tb EXCEPT ![b].failed = TRUE]
  /\ workers' = [workers EXCEPT ![b][i].bad = TRUE, ![b][i].errors = @ + 1]
  /\ running' = [running EXCEPT ![b] = @ \ {tb[b].proc}]
  /\ UNCHANGED <<agenteVars, toMaster>>

\* Deviation: busy is not taken back.
StayBusy(b) == tb' = [tb EXCEPT ![b].ended = TRUE]

Idle(b) == tb' = [tb EXCEPT ![b].ended = TRUE, ![b].busy = FALSE]

\* The loop of _readout ends.
Release(b, i) ==
  /\ At(b, i, "readout")
  /\ Released(b)
  /\ Idle(b)
  /\ Go(b, i, "check")
  /\ UNCHANGED <<agenteVars, toMaster, toAgente, running>>

\* The log and the root file may turn out incomplete.
CheckFiles(b, i) ==
  /\ At(b, i, "check")
  /\ \E bad \in {workers[b][i].bad, TRUE} :
       /\ tb' = [tb EXCEPT ![b].failed = bad]
       /\ workers' = [workers EXCEPT ![b][i].bad = bad, ![b][i].at = "answer"]
  /\ UNCHANGED <<agenteVars, toMaster, toAgente, running>>

AnswerAtEnd(b, i) ==
  /\ At(b, i, "answer")
  /\ toAgente' = toAgente \o Answer(b, tb[b])
  /\ Go(b, i, IF workers[b][i].job = "open" THEN "wait" ELSE "gone")
  /\ UNCHANGED <<agenteVars, toMaster, tb, running>>

\* openTB waits for ClosePSI and tells the process to exit.
ClosePSI(b, i) ==
  /\ At(b, i, "wait")
  /\ tb[b].close
  /\ Go(b, i, "exit")
  /\ UNCHANGED <<agenteVars, toMaster, toAgente, tb, running>>

\* communicate returns when the process has ended.
Closed(b, i) ==
  /\ At(b, i, "exit")
  /\ ~Alive(b)
  /\ toAgente' = toAgente \o Answer(b, tb[b])
  /\ Go(b, i, "gone")
  /\ UNCHANGED <<agenteVars, toMaster, tb, running>>

\* A test process ends: a batch by itself, an opened one when told to exit.
ProcessEnds(b, i) ==
  /\ i \in running[b]
  /\ \/ workers[b][i].job = "start"
     \/ \E j \in DOMAIN workers[b] : workers[b][j].at = "exit" /\ tb[b].proc = i
  /\ running' = [running EXCEPT ![b] = @ \ {i}]
  /\ UNCHANGED <<agenteVars, toMaster, toAgente, tb, workers>>

-----------------------------------------------------------------------------
Agente ==
  \/ PrepareTest \/ PrepareTestboard \/ Prepared
  \/ ExecuteTest \/ ExecuteTestboard \/ NextTestboard \/ Started
  \/ AskStatus \/ ReadAnswer \/ AnswersRead
  \/ CleanupTest \/ CleanupTestboard \/ CleanedUp

Thread(b, i) ==
  \/ Reset(b, i) \/ Spawn(b, i) \/ Release(b, i) \/ CheckFiles(b, i)
  \/ AnswerAtEnd(b, i) \/ ClosePSI(b, i) \/ Closed(b, i)

Over == phase = "idle" /\ test = NumTests /\ UNCHANGED vars

Next ==
  \/ Agente
  \/ MainLoop
  \/ \E b \in Board, i \in 1..MaxWorkers : Thread(b, i) \/ ErrorLine(b, i) \/ ProcessEnds(b, i)
  \/ Over

Spec == Init /\ [][Next]_vars

\* Both programs and all threads run on, and every test process ends.
FairSpec ==
  /\ Spec
  /\ WF_vars(Agente)
  /\ WF_vars(MainLoop)
  /\ \A b \in Board, i \in 1..MaxWorkers : WF_vars(Thread(b, i)) /\ WF_vars(ProcessEnds(b, i))

-----------------------------------------------------------------------------
(* Properties *)

\* When a test is over for elComandante, no process of it is left on a board:
\* the answers of an earlier test are never taken for those of the current one.
\* (An IV test only tells its process to exit.)
NoProcessLeft ==
  phase = "idle" /\ kind # "iv" => \A b \in Board : running[b] = {}

\* Two processes never drive the same test board: "Testboard is still busy".
OneProcess == \A b \in Board : Cardinality(running[b]) <= 1

\* Every board the test is for has run it: a start or an open is neither
\* refused nor lost because of what the test before has left in TBmaster.
EveryBoardRan ==
  phase \in {"clean", "idle"} /\ test > 0 =>
    \A b \in active :
      workers[b] # <<>> /\ workers[b][Len(workers[b])].test = test

\* The wait for a test ends, whether its process succeeds or not.
EveryTestEnds ==
  (phase = "ask" /\ kind # "powercycle") ~> (phase = "clean")

\* The wait for a powercycle ends too: check_finished "check[s] for errors and
\* return[s] an error code if one occurs".
PowercycleEnds == (phase = "ask" /\ kind = "powercycle") ~> (phase = "clean")

=============================================================================
