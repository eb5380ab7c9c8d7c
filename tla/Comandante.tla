----------------------------- MODULE Comandante -----------------------------
(***************************************************************************)
(* The orchestration in elComandante/el_comandante.py: run() takes all     *)
(* agentes through the phases of every test and waits after each phase     *)
(* until every agente reports its client finished (wait_until_finished),   *)
(* then ends the clients; an exception or Ctrl-C goes through              *)
(* clean_up_exception instead.                                             *)
(*                                                                         *)
(* An agente is its position in los_agentes.  What it does in a phase is   *)
(* abstract here: a call may leave it pending on its client, and           *)
(* check_finished clears pending once the client has answered.  The        *)
(* modules of the single agentes say when that happens.                    *)
(*                                                                         *)
(* A definition headed "Deviation" is not part of the model: it is the     *)
(* next definition with a mistake in it, and shows that the properties     *)
(* notice that mistake.                                                    *)
(***************************************************************************)
EXTENDS Naturals

CONSTANTS
  NumAgentes,   \* len(los_agentes); the psi agente is always there
  NumTests      \* the tests of the test chain

ASSUME ComandanteAssumption ==
  /\ NumAgentes \in Nat \ {0}
  /\ NumTests \in Nat

Agente == 1..NumAgentes

VARIABLES
  pc,           \* where run() or clean_up_exception() is
  test,         \* the tests begun so far
  phase,        \* the phase of the test, "final", or "over"
  turn,         \* the next agente of the loop over los_agentes
  pending,      \* el_agente.pending of every agente
  reply,        \* a packet of the client the agente has not read yet
  working,      \* the clients that still owe an answer
  allFinished,  \* finished of wait_until_finished, as far as evaluated
  waiting,      \* whether its queue of agentes is not empty
  late,         \* whether the wait has reached agenteTimeoutMins
  alertSent,    \* agenteTimeoutAlertSent
  alerts,       \* the timeout alerts sent during this test
  stage,        \* which of the exit sequences is running
  asked,        \* the agentes whose request_client_exit was called
  killed        \* the agentes whose kill_client was called

waitVars == <<allFinished, waiting, late>>
alertVars == <<alertSent, alerts>>
agenteVars == <<pending, reply, working>>
exitVars == <<stage, asked, killed>>
vars == <<pc, test, phase, turn, pending, reply, working, allFinished,
          waiting, late, alertSent, alerts, stage, asked, killed>>

\* A loop over los_agentes begins.
Loop(place) == pc' = place /\ turn' = 1
\* Deviation: one iteration too many.
LoopOneTooFar == turn = NumAgentes + 2
LoopOver == turn = NumAgentes + 1

Running == {"next", "call", "poll", "queue", "enter"}
Terminated == {"done", "aborted", "crashed"}

TypeOK ==
  /\ pc \in Running \union Terminated \union {"failed", "ask", "kill", "save"}
  /\ test \in 0..NumTests
  /\ phase \in {"prepare", "execute", "cleanup", "final", "over"}
  /\ turn \in 1..(NumAgentes + 1)
  /\ pending \in [Agente -> BOOLEAN]
  /\ reply \in [Agente -> {"none", "finished", "error"}]
  /\ working \in SUBSET Agente
  /\ allFinished \in BOOLEAN
  /\ waiting \in BOOLEAN
  /\ late \in BOOLEAN
  /\ alertSent \in BOOLEAN
  /\ alerts \in Nat
  /\ stage \in {"none", "orderly", "first", "second", "cleanup"}
  /\ asked \in SUBSET Agente
  /\ killed \in SUBSET Agente

Init ==
  /\ pc = "next"
  /\ test = 0
  /\ phase = "cleanup"
  /\ turn = 1
  /\ pending = [a \in Agente |-> FALSE]
  /\ reply = [a \in Agente |-> "none"]
  /\ working = {}
  /\ allFinished = FALSE
  /\ waiting = FALSE
  /\ late = FALSE
  /\ alertSent = FALSE
  /\ alerts = 0
  /\ stage = "none"
  /\ asked = {}
  /\ killed = {}

-----------------------------------------------------------------------------
(* The loop over the tests *)

NextTest ==
  /\ pc = "next"
  /\ test < NumTests
  /\ test' = test + 1
  /\ phase' = "prepare"
  /\ alertSent' = FALSE
  /\ alerts' = 0
  /\ Loop("call")
  /\ UNCHANGED <<agenteVars, waitVars, exitVars>>

FinalCleanup ==
  /\ pc = "next"
  /\ test = NumTests
  /\ phase' = "final"
  /\ Loop("call")
  /\ UNCHANGED <<test, alertVars, agenteVars, waitVars, exitVars>>

\* prepare_test, execute_test, cleanup_test or final_test_cleanup of the next
\* agente: it either has nothing to wait for or becomes pending on its client.
Call ==
  /\ pc = "call"
  /\ ~LoopOver
  /\ \/ pending' = pending /\ working' = working
     \/ /\ pending' = [pending EXCEPT ![turn] = TRUE]
        /\ working' = working \union {turn}
  /\ turn' = turn + 1
  /\ UNCHANGED <<pc, test, phase, reply, alertVars, waitVars, exitVars>>

CallsDone ==
  /\ pc = "call"
  /\ LoopOver
  /\ Loop("poll")
  /\ allFinished' = TRUE
  /\ late' = FALSE
  /\ UNCHANGED <<test, phase, waiting, alertVars, agenteVars, exitVars>>

-----------------------------------------------------------------------------
(* wait_until_finished: a sweep that decides ("poll") and, as long as it   *)
(* finds an agente not finished, a sweep that lists who is waited for      *)
(* ("queue").  Every sweep calls check_finished of every agente.           *)

\* Deviation: the answer of the client is read but pending stays set.
PendingForEver(a) == pending[a]

StillPending(a) == pending[a] /\ reply[a] # "finished"

\* Deviation: finished is assigned instead of accumulated.
ThisOneFinished(a) == ~StillPending(a)

AllFinished(a) == allFinished /\ ~StillPending(a)

CheckFinished ==
  /\ pc \in {"poll", "queue"}
  /\ ~LoopOver
  /\ reply[turn] # "error"
  /\ pending' = [pending EXCEPT ![turn] = StillPending(turn)]
  /\ reply' = [reply EXCEPT ![turn] = "none"]
  /\ IF pc = "poll"
       THEN /\ allFinished' = AllFinished(turn)
            /\ UNCHANGED waiting
       ELSE /\ waiting' = (waiting \/ StillPending(turn))
            /\ UNCHANGED allFinished
  /\ turn' = turn + 1
  /\ UNCHANGED <<pc, test, phase, working, late, alertVars, exitVars>>

\* Somebody is not finished: list the queue.
WaitOn ==
  /\ pc = "poll"
  /\ LoopOver
  /\ ~allFinished
  /\ Loop("queue")
  /\ waiting' = FALSE
  /\ UNCHANGED <<test, phase, allFinished, late, alertVars, agenteVars, exitVars>>

\* Deviation: the flag is not asked.
AlertDueEverySweep == waiting /\ late

\* Deviation: the test of the queue is inverted.
AlertDueUnlessWaiting == ~waiting /\ late /\ ~alertSent

AlertDue == waiting /\ late /\ ~alertSent

\* The queue is listed, an alert sent if it is time for one and none was sent,
\* and a new sweep begins.
PollAgain ==
  /\ pc = "queue"
  /\ LoopOver
  /\ alerts' = alerts + (IF AlertDue THEN 1 ELSE 0)
  /\ alertSent' = (alertSent \/ AlertDue)
  /\ Loop("poll")
  /\ allFinished' = TRUE
  /\ UNCHANGED <<test, phase, waiting, late, agenteVars, exitVars>>

\* All agentes are finished: the next phase, test or the end of the campaign.
PhaseOver ==
  /\ pc = "poll"
  /\ LoopOver
  /\ allFinished
  /\ CASE phase = "prepare" -> phase' = "execute" /\ Loop("call")
       [] phase = "execute" -> phase' = "cleanup" /\ Loop("call")
       [] phase = "cleanup" -> phase' = "cleanup" /\ Loop("next")
       [] OTHER             -> phase' = "over"    /\ Loop("enter")
  /\ UNCHANGED <<test, alertVars, agenteVars, waitVars, exitVars>>

\* The clock: agenteTimeoutMins have passed since the wait began.
TimePasses ==
  /\ pc = "queue"
  /\ ~late
  /\ late' = TRUE
  /\ UNCHANGED <<pc, test, phase, turn, allFinished, waiting, alertVars,
                 agenteVars, exitVars>>

-----------------------------------------------------------------------------
(* The clients *)

\* The client has done what the phase asked for.
ClientAnswers(a) ==
  /\ a \in working
  /\ reply[a] = "none"
  /\ working' = working \ {a}
  /\ reply' = [reply EXCEPT ![a] = "finished"]
  /\ UNCHANGED <<pc, test, phase, turn, pending, alertVars, waitVars, exitVars>>

\* A client reports an error, whether it owes an answer or not.
ClientErrs(a) ==
  /\ reply[a] = "none"
  /\ working' = working \ {a}
  /\ reply' = [reply EXCEPT ![a] = "error"]
  /\ UNCHANGED <<pc, test, phase, turn, pending, alertVars, waitVars, exitVars>>

-----------------------------------------------------------------------------
(* Exceptions and the end *)

Fail ==
  /\ pc' = "failed"
  /\ UNCHANGED <<test, phase, turn, alertVars, waitVars, exitVars>>

\* check_finished reads the error of a client and raises.
RaiseOnError ==
  /\ pc \in {"poll", "queue"}
  /\ ~LoopOver
  /\ reply[turn] = "error"
  /\ reply' = [reply EXCEPT ![turn] = "none"]
  /\ pending' = [pending EXCEPT ![turn] = FALSE]
  /\ Fail
  /\ UNCHANGED working

\* The environment of a test is not defined, a phase call of an agente raises,
\* or the logfiles cannot be saved.
RaiseElsewhere ==
  /\ \/ pc = "next" /\ test < NumTests
     \/ pc = "call" /\ ~LoopOver
     \/ pc = "save"
  /\ Fail
  /\ UNCHANGED agenteVars

\* Ctrl-C while run() is executing.
Interrupt ==
  /\ \/ pc \in Running \union {"save"}
     \/ pc \in {"ask", "kill"} /\ stage # "cleanup"
  /\ Fail
  /\ UNCHANGED agenteVars

\* Ctrl-C once more, in the except clause: nothing catches it.
InterruptAgain ==
  /\ \/ pc = "failed"
     \/ pc \in {"ask", "kill"} /\ stage = "cleanup"
  /\ pc' = "crashed"
  /\ UNCHANGED <<test, phase, turn, alertVars, agenteVars, waitVars, exitVars>>

\* Deviation: clean_up_exception kills without asking.
KillAtOnce ==
  /\ \/ pc = "enter" /\ stage' = "orderly" /\ Loop("ask")
     \/ pc = "failed" /\ stage' = "cleanup" /\ Loop("kill")
  /\ UNCHANGED <<test, phase, alertVars, asked, killed, agenteVars, waitVars>>

\* Deviation: after the exception is acknowledged the tests go on.
Resume ==
  /\ \/ pc = "enter" /\ stage' = "orderly" /\ Loop("ask")
     \/ pc = "failed" /\ stage' = stage /\ Loop("next")
  /\ UNCHANGED <<test, phase, alertVars, asked, killed, agenteVars, waitVars>>

\* The user presses ENTER: after the campaign, or to acknowledge an exception.
UserEnter ==
  /\ \/ pc = "enter" /\ stage' = "orderly"
     \/ pc = "failed" /\ stage' = "cleanup"
  /\ Loop("ask")
  /\ UNCHANGED <<test, phase, alertVars, asked, killed, agenteVars, waitVars>>

\* request_client_exit of the next agente.
RequestClientExit ==
  /\ pc = "ask"
  /\ ~LoopOver
  /\ asked' = asked \union {turn}
  /\ turn' = turn + 1
  /\ UNCHANGED <<pc, test, phase, alertVars, stage, killed, agenteVars, waitVars>>

\* Deviation: after an exception the clients are asked but not killed.
AskOnly ==
  /\ pc = "ask"
  /\ LoopOver
  /\ CASE stage = "orderly" -> Loop("ask") /\ stage' = "first"
       [] stage = "cleanup" -> Loop("aborted") /\ UNCHANGED stage
       [] OTHER             -> Loop("kill") /\ UNCHANGED stage
  /\ UNCHANGED <<test, phase, alertVars, asked, killed, agenteVars, waitVars>>

\* The orderly request at the end of run() is followed by killChildren, which
\* asks again and then kills.
AllAsked ==
  /\ pc = "ask"
  /\ LoopOver
  /\ IF stage = "orderly"
       THEN Loop("ask") /\ stage' = "first"
       ELSE Loop("kill") /\ UNCHANGED stage
  /\ UNCHANGED <<test, phase, alertVars, asked, killed, agenteVars, waitVars>>

\* kill_client of the next agente.
KillClient ==
  /\ pc = "kill"
  /\ ~LoopOver
  /\ killed' = killed \union {turn}
  /\ turn' = turn + 1
  /\ UNCHANGED <<pc, test, phase, alertVars, stage, asked, agenteVars, waitVars>>

\* run() calls killChildren twice; then the logfiles are copied and archived.
AllKilled ==
  /\ pc = "kill"
  /\ LoopOver
  /\ CASE stage = "first"  -> Loop("ask") /\ stage' = "second"
       [] stage = "second" -> Loop("save") /\ UNCHANGED stage
       [] OTHER            -> Loop("aborted") /\ UNCHANGED stage
  /\ UNCHANGED <<test, phase, alertVars, asked, killed, agenteVars, waitVars>>

Save ==
  /\ pc = "save"
  /\ pc' = "done"
  /\ UNCHANGED <<test, phase, turn, alertVars, agenteVars, waitVars, exitVars>>

Terminating == pc \in Terminated /\ UNCHANGED vars

-----------------------------------------------------------------------------

\* What the main thread of elComandante does of its own accord.
Main ==
  \/ NextTest \/ FinalCleanup \/ Call \/ CallsDone
  \/ CheckFinished \/ WaitOn \/ PollAgain \/ PhaseOver
  \/ RaiseOnError
  \/ RequestClientExit \/ AllAsked \/ KillClient \/ AllKilled \/ Save

Next ==
  \/ Main
  \/ UserEnter
  \/ RaiseElsewhere \/ Interrupt \/ InterruptAgain
  \/ TimePasses
  \/ \E a \in Agente : ClientAnswers(a) \/ ClientErrs(a)
  \/ Terminating

Spec == Init /\ [][Next]_vars

\* The main thread keeps running; nobody else need do anything.
MainSpec == Spec /\ WF_vars(Main)

-----------------------------------------------------------------------------
(* Properties *)

\* The phase barrier of run(): while the agentes are called for a phase, one
\* not yet called has nothing left over from the phase before.
PhaseBarrier ==
  pc = "call" => \A a \in Agente : a >= turn => ~pending[a]

\* Between two tests, and when the campaign is over, no agente is pending.
QuietBetweenTests ==
  (pc \in {"next", "enter", "save", "done"}) => \A a \in Agente : ~pending[a]

\* No client is killed before every client was asked to exit: killChildren
\* asks all of them first, whichever way it is entered.
AskedBeforeKilled == killed # {} => asked = Agente

\* A campaign that ends in an orderly way or through clean_up_exception has
\* killed every client that an agente controls.
NoClientLeft == pc \in {"done", "aborted"} => killed = Agente

\* The timeout alert goes out at most once per test, however many sweeps of
\* its three waits find somebody pending after agenteTimeoutMins: the sweeps
\* come every 0.25 s, and the flag that stops the next alert outlives a wait.
OneAlertPerTest == alerts <= 1

\* After an exception or Ctrl-C, and once the clients are being ended, no
\* agente is called for a phase any more.
NoCallAfterFailure == [][pc \notin Running => pc' \notin Running]_vars

\* Somebody who is waited for longer than the limit is reported, or the wait
\* ends: the alert does not depend on any client.
StuckIsReported ==
  (pc \in {"poll", "queue"} /\ late)
    ~> (alerts > 0 \/ pc \notin {"poll", "queue"})

\* With clients that answer and a user at the keyboard the program ends.
Termination ==
  (WF_vars(UserEnter) /\ \A a \in Agente : WF_vars(ClientAnswers(a)))
    => <>(pc \in Terminated)

-----------------------------------------------------------------------------
(* Comandante implements TestCampaign *)

PhaseNumber ==
  CASE phase = "prepare" -> 1 [] phase = "execute" -> 2 [] OTHER -> 3

CampaignRound ==
  IF phase \in {"final", "over"} THEN 3 * NumTests + 1
  ELSE IF test = 0 THEN 0 ELSE 3 * (test - 1) + PhaseNumber

CampaignOutcome ==
  IF phase = "over" THEN "completed"
  ELSE IF pc \in Running THEN "running" ELSE "abandoned"

CampaignEntered ==
  IF CampaignOutcome = "abandoned" THEN {}
  ELSE IF pc = "call" THEN {a \in Agente : a < turn} ELSE Agente

CampaignBusy == {a \in CampaignEntered : phase # "over" /\ pending[a]}

Campaign == INSTANCE TestCampaign WITH
  NumRounds <- 3 * NumTests + 1,
  round     <- CampaignRound,
  entered   <- CampaignEntered,
  busy      <- CampaignBusy,
  outcome   <- CampaignOutcome

CampaignSpec == Campaign!Spec

=============================================================================
