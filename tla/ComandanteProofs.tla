-------------------------- MODULE ComandanteProofs --------------------------
(***************************************************************************)
(* Theorems about Comandante, for any number of agentes and of tests.      *)
(*                                                                         *)
(* The barrier between the phases rests on what the deciding sweep of      *)
(* wait_until_finished has seen: as long as "finished" is still true,      *)
(* every agente already passed is not pending (Swept), and nobody can make *)
(* an agente pending but the phase calls themselves.  The exit sequences   *)
(* rest on how far the loops over the agentes have come (ExitOrder).  That  *)
(* every step is one of TestCampaign, or none, rests on both and on where  *)
(* run() can be in which phase (PhaseInv).                                 *)
(***************************************************************************)
EXTENDS Comandante, TLAPS

Quiet == \A a \in Agente : ~pending[a]

\* What the deciding sweep has seen so far.
Swept ==
  pc = "poll" /\ allFinished => \A a \in Agente : a < turn => ~pending[a]

\* Nobody is pending between the tests nor while the campaign is wound up in
\* an orderly way.
QuietOutside ==
  \/ pc \in {"next", "enter", "save", "done"}
  \/ pc \in {"ask", "kill"} /\ stage # "cleanup"
  => Quiet

BarrierInv == PhaseBarrier /\ Swept /\ QuietOutside

\* The loops of killChildren: whom they have passed was asked, or killed.
ExitOrder ==
  /\ pc = "ask" => \A a \in Agente : a < turn => a \in asked
  /\ pc = "kill" => asked = Agente
  /\ pc = "kill" => \A a \in Agente : a < turn => a \in killed
  /\ pc = "save" => killed = Agente

ExitInv == AskedBeforeKilled /\ NoClientLeft /\ ExitOrder

\* Where run() is and which phase it is in.
PhaseInv ==
  /\ pc = "next" => phase = "cleanup"
  /\ pc \in {"call", "poll", "queue"} => phase # "over"
  /\ pc \in {"call", "poll", "queue"} /\ phase # "final" => test > 0
  /\ pc = "enter" => phase = "over"

Inv == TypeOK /\ BarrierInv /\ ExitInv /\ PhaseInv

-----------------------------------------------------------------------------

LEMMA InitTypeOK == Init => TypeOK
<1> SUFFICES ASSUME Init PROVE TypeOK
  OBVIOUS
<1>1. /\ allFinished \in BOOLEAN
      /\ waiting \in BOOLEAN
      /\ late \in BOOLEAN
      /\ alertSent \in BOOLEAN
      /\ alerts \in Nat
  BY Zenon DEF Init
<1>2. pending \in [Agente -> BOOLEAN]
  BY Zenon DEF Init
<1> QED
  BY <1>1, <1>2, ComandanteAssumption DEF Init, TypeOK, Running, Terminated

\* A loop that is not over is at an agente, and one more step of it passes
\* just that agente.
LEMMA AtAnAgente ==
  ASSUME TypeOK, ~LoopOver
  PROVE  /\ turn \in Agente
         /\ turn + 1 \in 1..(NumAgentes + 1)
         /\ \A a \in Agente : a < turn + 1 <=> a < turn \/ a = turn
         /\ \A a \in Agente : a >= turn + 1 <=> a >= turn /\ a # turn
  BY ComandanteAssumption DEF TypeOK, LoopOver, Agente

\* A loop that is over has passed every agente, one that begins none.
LEMMA AllPassed ==
  ASSUME TypeOK, LoopOver
  PROVE  \A a \in Agente : a < turn
  BY ComandanteAssumption DEF TypeOK, LoopOver, Agente

LEMMA NonePassed == \A a \in Agente : ~(a < 1) /\ a >= 1
  BY DEF Agente

\* Every step keeps the variables in their types.
LEMMA NextTypeOK == TypeOK /\ [Next]_vars => TypeOK'
<1> SUFFICES ASSUME TypeOK, [Next]_vars PROVE TypeOK'
  OBVIOUS
<1> USE ComandanteAssumption DEF TypeOK, Loop, Running, Terminated,
        waitVars, alertVars, agenteVars, exitVars
<1>1. CASE NextTest
  <2>1. alertSent' \in BOOLEAN
    BY <1>1, Zenon DEF NextTest
  <2> QED
    BY <1>1, <2>1 DEF NextTest
<1>2. CASE FinalCleanup
  BY <1>2 DEF FinalCleanup
<1>3. CASE Call
  BY ZenonT(30), <1>3, AtAnAgente DEF Call
<1>4. CASE CallsDone
  <2>1. late' \in BOOLEAN
    BY <1>4, Zenon DEF CallsDone
  <2> QED
    BY <1>4, <2>1 DEF CallsDone
<1>5. CASE CheckFinished
  BY <1>5, AtAnAgente DEF CheckFinished, AllFinished, StillPending
<1>6. CASE WaitOn
  <2>1. waiting' \in BOOLEAN
    BY <1>6, Zenon DEF WaitOn
  <2> QED
    BY <1>6, <2>1 DEF WaitOn
<1>7. CASE PollAgain
  BY <1>7 DEF PollAgain, AlertDue
<1>8. CASE PhaseOver
  BY <1>8 DEF PhaseOver
<1>9. CASE TimePasses
  BY <1>9 DEF TimePasses
<1>10. CASE \E a \in Agente : ClientAnswers(a) \/ ClientErrs(a)
  BY <1>10 DEF ClientAnswers, ClientErrs
<1>11. CASE RaiseOnError \/ RaiseElsewhere \/ Interrupt \/ InterruptAgain
  <2>1. CASE RaiseOnError
    BY <2>1, AtAnAgente DEF RaiseOnError, Fail
  <2>2. CASE RaiseElsewhere \/ Interrupt \/ InterruptAgain
    BY <2>2 DEF RaiseElsewhere, Interrupt, InterruptAgain, Fail
  <2> QED
    BY <1>11, <2>1, <2>2
<1>12. CASE UserEnter
  BY <1>12 DEF UserEnter
<1>13. CASE RequestClientExit
  BY <1>13, AtAnAgente DEF RequestClientExit
<1>14. CASE AllAsked
  BY <1>14 DEF AllAsked
<1>15. CASE KillClient
  BY <1>15, AtAnAgente DEF KillClient
<1>16. CASE AllKilled
  BY <1>16 DEF AllKilled
<1>17. CASE Save
  BY <1>17 DEF Save
<1>18. CASE UNCHANGED vars
  BY <1>18 DEF vars
<1> QED
  BY <1>1, <1>2, <1>3, <1>4, <1>5, <1>6, <1>7, <1>8, <1>9, <1>10, <1>11,
     <1>12, <1>13, <1>14, <1>15, <1>16, <1>17, <1>18
     DEF Next, Main, Terminating

\* The variables of run() and of the agentes stay in their types, however
\* many agentes and tests there are.
THEOREM TypeCorrect == Spec => []TypeOK
<1>1. Init => TypeOK
  BY InitTypeOK
<1>2. TypeOK /\ [Next]_vars => TypeOK'
  BY NextTypeOK
<1> QED
  BY <1>1, <1>2, PTL DEF Spec

-----------------------------------------------------------------------------
(* The barrier *)

LEMMA InitBarrier == Init => BarrierInv
  BY DEF Init, BarrierInv, PhaseBarrier, Swept, QuietOutside, Quiet

\* The sweep that found everybody finished found nobody pending.
LEMMA SweepOver ==
  ASSUME TypeOK, Swept, pc = "poll", LoopOver, allFinished
  PROVE  Quiet
  BY AllPassed DEF Swept, Quiet

LEMMA NextBarrier ==
  TypeOK /\ BarrierInv /\ [Next]_vars => BarrierInv'
<1> SUFFICES ASSUME TypeOK, BarrierInv, [Next]_vars PROVE BarrierInv'
  OBVIOUS
<1> USE DEF BarrierInv, PhaseBarrier, Swept, QuietOutside, Quiet, Loop,
        waitVars, alertVars, agenteVars, exitVars
<1>1. CASE NextTest
  BY <1>1 DEF NextTest
<1>2. CASE FinalCleanup
  BY <1>2 DEF FinalCleanup
<1>3. CASE Call
  BY <1>3, AtAnAgente DEF Call, TypeOK
<1>4. CASE CallsDone
  BY <1>4, NonePassed DEF CallsDone
<1>5. CASE CheckFinished
  BY <1>5, AtAnAgente DEF TypeOK, CheckFinished, AllFinished, StillPending
<1>6. CASE WaitOn
  BY <1>6, NonePassed DEF WaitOn
<1>7. CASE PollAgain
  BY <1>7, NonePassed DEF PollAgain
<1>8. CASE PhaseOver
  <2>1. Quiet
    BY <1>8, SweepOver DEF PhaseOver
  <2> QED
    BY <1>8, <2>1 DEF PhaseOver
<1>9. CASE TimePasses
  BY <1>9 DEF TimePasses
<1>10. CASE \E a \in Agente : ClientAnswers(a) \/ ClientErrs(a)
  BY <1>10 DEF ClientAnswers, ClientErrs
<1>11. CASE RaiseOnError \/ RaiseElsewhere \/ Interrupt \/ InterruptAgain
  BY <1>11 DEF RaiseOnError, RaiseElsewhere, Interrupt, InterruptAgain, Fail
<1>12. CASE UserEnter
  BY <1>12 DEF UserEnter
<1>13. CASE RequestClientExit
  BY <1>13, AtAnAgente DEF RequestClientExit
<1>14. CASE AllAsked
  BY <1>14 DEF AllAsked
<1>15. CASE KillClient
  BY <1>15, AtAnAgente DEF KillClient
<1>16. CASE AllKilled
  BY <1>16 DEF AllKilled
<1>17. CASE Save
  BY <1>17 DEF Save
<1>18. CASE UNCHANGED vars
  BY <1>18 DEF vars
<1> QED
  BY <1>1, <1>2, <1>3, <1>4, <1>5, <1>6, <1>7, <1>8, <1>9, <1>10, <1>11,
     <1>12, <1>13, <1>14, <1>15, <1>16, <1>17, <1>18
     DEF Next, Main, Terminating

-----------------------------------------------------------------------------
(* The exit sequences *)

LEMMA InitExit == Init => ExitInv
  BY DEF Init, ExitInv, AskedBeforeKilled, NoClientLeft, ExitOrder

LEMMA NextExit ==
  TypeOK /\ ExitInv /\ [Next]_vars => ExitInv'
<1> SUFFICES ASSUME TypeOK, ExitInv, [Next]_vars PROVE ExitInv'
  OBVIOUS
<1> USE DEF ExitInv, AskedBeforeKilled, NoClientLeft, ExitOrder, Loop,
        waitVars, alertVars, agenteVars, exitVars
<1>1. CASE NextTest
  BY <1>1 DEF NextTest
<1>2. CASE FinalCleanup
  BY <1>2 DEF FinalCleanup
<1>3. CASE Call
  BY <1>3, AtAnAgente DEF Call, TypeOK
<1>4. CASE CallsDone
  BY <1>4 DEF CallsDone
<1>5. CASE CheckFinished
  BY <1>5, AtAnAgente DEF TypeOK, CheckFinished, AllFinished, StillPending
<1>6. CASE WaitOn
  BY <1>6 DEF WaitOn
<1>7. CASE PollAgain
  BY <1>7 DEF PollAgain
<1>8. CASE PhaseOver
  BY <1>8 DEF PhaseOver
<1>9. CASE TimePasses
  BY <1>9 DEF TimePasses
<1>10. CASE \E a \in Agente : ClientAnswers(a) \/ ClientErrs(a)
  BY <1>10 DEF ClientAnswers, ClientErrs
<1>11. CASE RaiseOnError \/ RaiseElsewhere \/ Interrupt \/ InterruptAgain
  BY <1>11 DEF RaiseOnError, RaiseElsewhere, Interrupt, InterruptAgain, Fail
<1>12. CASE UserEnter
  BY <1>12, NonePassed DEF UserEnter
<1>13. CASE RequestClientExit
  BY <1>13, AtAnAgente DEF TypeOK, RequestClientExit
<1>14. CASE AllAsked
  BY <1>14, AllPassed, NonePassed DEF TypeOK, AllAsked
<1>15. CASE KillClient
  BY <1>15, AtAnAgente DEF TypeOK, KillClient
<1>16. CASE AllKilled
  BY <1>16, AllPassed, NonePassed DEF TypeOK, AllKilled
<1>17. CASE Save
  BY <1>17 DEF Save
<1>18. CASE UNCHANGED vars
  BY <1>18 DEF vars
<1> QED
  BY <1>1, <1>2, <1>3, <1>4, <1>5, <1>6, <1>7, <1>8, <1>9, <1>10, <1>11,
     <1>12, <1>13, <1>14, <1>15, <1>16, <1>17, <1>18
     DEF Next, Main, Terminating

-----------------------------------------------------------------------------
(* The invariant as a whole, and what follows from it *)

LEMMA InitPhase == Init => PhaseInv
  BY DEF Init, PhaseInv

LEMMA NextPhase ==
  TypeOK /\ PhaseInv /\ [Next]_vars => PhaseInv'
<1> SUFFICES ASSUME TypeOK, PhaseInv, [Next]_vars PROVE PhaseInv'
  OBVIOUS
<1> USE DEF TypeOK, PhaseInv, Loop, waitVars, alertVars, agenteVars, exitVars
<1>1. CASE NextTest
  BY <1>1 DEF NextTest
<1>2. CASE FinalCleanup
  BY <1>2 DEF FinalCleanup
<1>3. CASE Call
  BY <1>3 DEF Call
<1>4. CASE CallsDone
  BY <1>4 DEF CallsDone
<1>5. CASE CheckFinished
  BY <1>5 DEF CheckFinished
<1>6. CASE WaitOn
  BY <1>6 DEF WaitOn
<1>7. CASE PollAgain
  BY <1>7 DEF PollAgain
<1>8. CASE PhaseOver
  BY <1>8 DEF PhaseOver
<1>9. CASE TimePasses
  BY <1>9 DEF TimePasses
<1>10. CASE \E a \in Agente : ClientAnswers(a) \/ ClientErrs(a)
  BY <1>10 DEF ClientAnswers, ClientErrs
<1>11. CASE RaiseOnError \/ RaiseElsewhere \/ Interrupt \/ InterruptAgain
  BY <1>11 DEF RaiseOnError, RaiseElsewhere, Interrupt, InterruptAgain, Fail
<1>12. CASE UserEnter
  BY <1>12 DEF UserEnter
<1>13. CASE RequestClientExit
  BY <1>13 DEF RequestClientExit
<1>14. CASE AllAsked
  BY <1>14 DEF AllAsked
<1>15. CASE KillClient
  BY <1>15 DEF KillClient
<1>16. CASE AllKilled
  BY <1>16 DEF AllKilled
<1>17. CASE Save
  BY <1>17 DEF Save
<1>18. CASE UNCHANGED vars
  BY <1>18 DEF vars
<1> QED
  BY <1>1, <1>2, <1>3, <1>4, <1>5, <1>6, <1>7, <1>8, <1>9, <1>10, <1>11,
     <1>12, <1>13, <1>14, <1>15, <1>16, <1>17, <1>18
     DEF Next, Main, Terminating

LEMMA Invariance == Spec => []Inv
<1>1. Init => Inv
  BY InitTypeOK, InitBarrier, InitExit, InitPhase DEF Inv
<1>2. Inv /\ [Next]_vars => Inv'
  BY NextTypeOK, NextBarrier, NextExit, NextPhase DEF Inv
<1> QED
  BY <1>1, <1>2, PTL DEF Spec

\* The phase barrier of run(): nobody is called for a phase while an agente
\* not yet called is still pending from the phase before.
THEOREM Barrier == Spec => []PhaseBarrier
<1>1. Inv => PhaseBarrier
  BY DEF Inv, BarrierInv
<1> QED
  BY <1>1, Invariance, PTL

\* Nobody is pending between two tests and at the end of a campaign.
THEOREM QuietBetween == Spec => []QuietBetweenTests
<1>1. Inv => QuietBetweenTests
  BY DEF Inv, BarrierInv, QuietOutside, Quiet, QuietBetweenTests
<1> QED
  BY <1>1, Invariance, PTL

\* killChildren kills nobody before it has asked everybody to exit.
THEOREM AskedFirst == Spec => []AskedBeforeKilled
<1>1. Inv => AskedBeforeKilled
  BY DEF Inv, ExitInv
<1> QED
  BY <1>1, Invariance, PTL

\* However the program ends, unless it is interrupted while it ends, it has
\* killed the client of every agente.
THEOREM ClientsKilled == Spec => []NoClientLeft
<1>1. Inv => NoClientLeft
  BY DEF Inv, ExitInv
<1> QED
  BY <1>1, Invariance, PTL

\* Nobody is called for a phase after an exception or an interrupt.
THEOREM NoReturn == Spec => NoCallAfterFailure
<1>1. [Next]_vars => [pc \notin Running => pc' \notin Running]_vars
  <2> SUFFICES ASSUME Next, pc \notin Running PROVE pc' \notin Running
    BY DEF vars
  <2> QED
    BY DEF Running, Next, Main, Terminating, NextTest, FinalCleanup, Call,
       CallsDone, CheckFinished, WaitOn, PollAgain, PhaseOver, TimePasses,
       ClientAnswers, ClientErrs, RaiseOnError, RaiseElsewhere, Interrupt,
       InterruptAgain, Fail, UserEnter, RequestClientExit, AllAsked,
       KillClient, AllKilled, Save, Loop, vars
<1> QED
  BY <1>1, PTL DEF Spec, NoCallAfterFailure

\* The flag of the alert says how many were sent.
AlertInv == alerts = IF alertSent THEN 1 ELSE 0

\* The flag is set with the sending and cleared by the next test only, so it
\* stops every further alert of the test.
LEMMA AlertKept == AlertInv /\ [Next]_vars => AlertInv'
<1> SUFFICES ASSUME AlertInv, [Next]_vars PROVE AlertInv'
  OBVIOUS
<1>1. CASE NextTest
  BY <1>1 DEF NextTest, AlertInv
<1>2. CASE PollAgain
  <2>1. CASE AlertDue
    <3>1. ~alertSent /\ alertSent'
      BY <1>2, <2>1, Zenon DEF PollAgain, AlertDue
    <3>2. alerts' = alerts + 1
      BY <1>2, <2>1 DEF PollAgain
    <3> QED
      BY <3>1, <3>2 DEF AlertInv
  <2>2. CASE ~AlertDue
    <3>1. alertSent' <=> alertSent
      BY <1>2, <2>2, Zenon DEF PollAgain
    <3>2. alerts' = alerts + 0
      BY <1>2, <2>2 DEF PollAgain
    <3> QED
      BY <3>1, <3>2 DEF AlertInv
  <2> QED
    BY <2>1, <2>2
<1>3. CASE UNCHANGED alertVars
  BY <1>3 DEF alertVars, AlertInv
<1>4. NextTest \/ PollAgain \/ UNCHANGED alertVars
  BY DEF Next, Main, Terminating, FinalCleanup, Call, CallsDone,
     CheckFinished, WaitOn, PhaseOver, TimePasses, ClientAnswers, ClientErrs,
     RaiseOnError, RaiseElsewhere, Interrupt, InterruptAgain, Fail, UserEnter,
     RequestClientExit, AllAsked, KillClient, AllKilled, Save, vars, alertVars
<1> QED
  BY <1>1, <1>2, <1>3, <1>4

\* The timeout alert of a test is not sent twice.
THEOREM OneAlert == Spec => []OneAlertPerTest
<1>1. Init => AlertInv
  BY DEF Init, AlertInv
<1>2. AlertInv => OneAlertPerTest
  BY DEF AlertInv, OneAlertPerTest
<1> QED
  BY <1>1, <1>2, AlertKept, PTL DEF Spec

-----------------------------------------------------------------------------
(* Comandante implements TestCampaign *)

LEMMA InitCampaign == Init => Campaign!Init
<1> SUFFICES ASSUME Init PROVE Campaign!Init
  OBVIOUS
<1>1. CampaignRound = 0 /\ CampaignOutcome = "running"
  BY DEF Init, CampaignRound, CampaignOutcome, Running
<1>2. CampaignEntered = Agente
  BY <1>1 DEF Init, CampaignEntered
<1>3. CampaignBusy = {}
  BY <1>2 DEF Init, CampaignBusy
<1> QED
  BY <1>1, <1>2, <1>3 DEF Campaign!Init

\* The values of the refinement mapping, by the place run() is at.
MappedInPhase ==
  Inv /\ pc \in {"poll", "queue", "next"} =>
    /\ CampaignOutcome = "running"
    /\ CampaignEntered = Agente
    /\ CampaignBusy = {a \in Agente : pending[a]}

MappedInCalls ==
  Inv /\ pc = "call" =>
    /\ CampaignOutcome = "running"
    /\ CampaignEntered = {a \in Agente : a < turn}
    /\ CampaignBusy = {a \in Agente : a < turn /\ pending[a]}

MappedOver ==
  Inv /\ phase = "over" =>
    /\ CampaignOutcome = "completed"
    /\ CampaignEntered = Agente
    /\ CampaignBusy = {}
    /\ CampaignRound = 3 * NumTests + 1

MappedAbandoned ==
  phase # "over" /\ pc \notin Running =>
    /\ CampaignOutcome = "abandoned"
    /\ CampaignEntered = {}
    /\ CampaignBusy = {}

Mapped == MappedInPhase /\ MappedInCalls /\ MappedOver /\ MappedAbandoned

LEMMA Mapping == Mapped /\ Mapped'
<1>1. MappedOver
  BY DEF MappedOver, Inv, PhaseInv, CampaignOutcome, CampaignEntered, CampaignBusy,
         CampaignRound
<1>2. MappedAbandoned
  BY DEF MappedAbandoned, CampaignOutcome, CampaignEntered, CampaignBusy
<1>3. MappedInPhase
  <2> SUFFICES ASSUME Inv, pc \in {"poll", "queue", "next"}
      PROVE  /\ CampaignOutcome = "running"
             /\ CampaignEntered = Agente
             /\ CampaignBusy = {a \in Agente : pending[a]}
    BY DEF MappedInPhase
  <2>1. phase # "over"
    BY DEF Inv, PhaseInv
  <2>2. CampaignOutcome = "running"
    BY <2>1 DEF CampaignOutcome, Running
  <2>3. CampaignEntered = Agente
    BY <2>2 DEF CampaignEntered
  <2> QED
    BY <2>1, <2>2, <2>3 DEF CampaignBusy
<1>4. MappedInCalls
  <2> SUFFICES ASSUME Inv, pc = "call"
      PROVE  /\ CampaignOutcome = "running"
             /\ CampaignEntered = {a \in Agente : a < turn}
             /\ CampaignBusy = {a \in Agente : a < turn /\ pending[a]}
    BY DEF MappedInCalls
  <2>1. phase # "over"
    BY DEF Inv, PhaseInv
  <2>2. CampaignOutcome = "running"
    BY <2>1 DEF CampaignOutcome, Running
  <2>3. CampaignEntered = {a \in Agente : a < turn}
    BY <2>2 DEF CampaignEntered
  <2>4. CampaignBusy = {a \in CampaignEntered : pending[a]}
    BY <2>1 DEF CampaignBusy
  <2> QED
    BY <2>2, <2>3, <2>4
<1>5. Mapped
  BY <1>1, <1>2, <1>3, <1>4 DEF Mapped
<1> QED
  BY <1>5, PTL

\* A step that leaves the mapped values alone is no step of the campaign.
LEMMA Stutter ==
  ASSUME UNCHANGED <<CampaignRound, CampaignEntered, CampaignBusy, CampaignOutcome>>
  PROVE  [Campaign!Next]_(Campaign!vars)
  BY DEF Campaign!vars

LEMMA SameRound ==
  ASSUME UNCHANGED <<test, phase>>
  PROVE  UNCHANGED CampaignRound
  BY DEF CampaignRound, PhaseNumber

\* Once run() is left for good, the mapped values stay what they are.
LEMMA StepOutside ==
  ASSUME Inv, Inv', pc \notin Running, pc' \notin Running,
         UNCHANGED <<test, phase>>
  PROVE  [Campaign!Next]_(Campaign!vars)
<1>1. CASE phase = "over"
  BY <1>1, Mapping, Stutter DEF Mapped, MappedOver
<1>2. CASE phase # "over"
  BY <1>2, Mapping, SameRound, Stutter DEF Mapped, MappedAbandoned
<1> QED
  BY <1>1, <1>2

\* Leaving run() by an exception abandons the campaign, unless it was over.
LEMMA StepOut ==
  ASSUME Inv, Inv', pc \in Running, pc' \notin Running,
         UNCHANGED <<test, phase>>
  PROVE  [Campaign!Next]_(Campaign!vars)
<1>1. CASE phase = "over"
  BY <1>1, Mapping, Stutter DEF Mapped, MappedOver
<1>2. CASE phase # "over"
  <2>1. CampaignOutcome = "running"
    BY <1>2 DEF CampaignOutcome
  <2>2. /\ CampaignOutcome' = "abandoned"
        /\ CampaignEntered' = {}
        /\ CampaignBusy' = {}
    BY <1>2, Mapping DEF Mapped, MappedAbandoned
  <2>3. Campaign!Abandon
    BY <2>1, <2>2, SameRound DEF Campaign!Abandon
  <2> QED
    BY <2>3 DEF Campaign!Next
<1> QED
  BY <1>1, <1>2

\* The round that begins when the calls of a phase begin.
LEMMA StepAdvance ==
  ASSUME Inv, Inv', Quiet, pc \in {"next", "poll"}, pc' = "call", turn' = 1,
         CampaignRound < 3 * NumTests + 1,
         CampaignRound' = CampaignRound + 1
  PROVE  Campaign!Advance
<1>1. /\ CampaignOutcome = "running"
      /\ CampaignEntered = Agente
      /\ CampaignBusy = {}
  BY Mapping DEF Mapped, MappedInPhase, Quiet
<1>2. /\ CampaignOutcome' = "running"
      /\ CampaignEntered' = {}
      /\ CampaignBusy' = {}
  BY Mapping, NonePassed DEF Mapped, MappedInCalls
<1> QED
  BY <1>1, <1>2 DEF Campaign!Advance, Campaign!RoundOver

\* Every step of Comandante is a step of TestCampaign or a stutter.
LEMMA NextCampaign ==
  Inv /\ Inv' /\ [Next]_vars => [Campaign!Next]_(Campaign!vars)
<1> SUFFICES ASSUME Inv, Inv', [Next]_vars
             PROVE  [Campaign!Next]_(Campaign!vars)
  OBVIOUS
<1>0. TypeOK
  BY DEF Inv
<1>1. CASE NextTest
  <2>1. CampaignRound < 3 * NumTests + 1 /\ CampaignRound' = CampaignRound + 1
    BY <1>0, <1>1, ComandanteAssumption
       DEF NextTest, Loop, CampaignRound, PhaseNumber, Inv, PhaseInv, TypeOK
  <2>2. Quiet
    BY <1>1 DEF NextTest, Inv, BarrierInv, QuietOutside
  <2>3. Campaign!Advance
    BY <1>1, <2>1, <2>2, StepAdvance DEF NextTest, Loop
  <2> QED
    BY <2>3 DEF Campaign!Next
<1>2. CASE FinalCleanup
  <2>1. CampaignRound < 3 * NumTests + 1 /\ CampaignRound' = CampaignRound + 1
    BY <1>0, <1>2, ComandanteAssumption
       DEF FinalCleanup, Loop, CampaignRound, PhaseNumber, Inv, PhaseInv, TypeOK
  <2>2. Quiet
    BY <1>2 DEF FinalCleanup, Inv, BarrierInv, QuietOutside
  <2>3. Campaign!Advance
    BY <1>2, <2>1, <2>2, StepAdvance DEF FinalCleanup, Loop
  <2> QED
    BY <2>3 DEF Campaign!Next
<1>3. CASE Call
  <2>1. turn \in Agente /\ turn \notin {a \in Agente : a < turn}
    BY <1>0, <1>3, AtAnAgente DEF Call, TypeOK
  <2>2. /\ CampaignOutcome = "running" /\ CampaignOutcome' = "running"
        /\ CampaignEntered = {a \in Agente : a < turn}
        /\ CampaignEntered' = {a \in Agente : a < turn'}
        /\ CampaignBusy = {a \in Agente : a < turn /\ pending[a]}
        /\ CampaignBusy' = {a \in Agente : a < turn' /\ pending'[a]}
    BY <1>3, Mapping DEF Call, Mapped, MappedInCalls
  <2>3. CampaignEntered' = CampaignEntered \union {turn}
    BY <1>0, <1>3, <2>1, <2>2, AtAnAgente DEF Call
  <2>4. CampaignBusy' \in {CampaignBusy, CampaignBusy \union {turn}}
    <3>1. ~pending[turn]
      BY <1>0, <1>3, <2>1 DEF Inv, BarrierInv, PhaseBarrier, Call, TypeOK, Agente
    <3>2. CASE pending' = pending
      BY <1>0, <1>3, <2>2, <3>1, <3>2, AtAnAgente DEF Call
    <3>3. CASE pending' = [pending EXCEPT ![turn] = TRUE]
      BY ZenonT(30), <1>0, <1>3, <2>1, <2>2, <3>3, AtAnAgente DEF Call, TypeOK
    <3> QED
      BY <1>3, <3>2, <3>3 DEF Call
  <2>5. Campaign!Enter(turn)
    BY <1>3, <2>1, <2>2, <2>3, <2>4, SameRound DEF Call, Campaign!Enter
  <2> QED
    BY <2>1, <2>5 DEF Campaign!Next
<1>4. CASE CallsDone
  <2>1. UNCHANGED <<CampaignEntered, CampaignBusy, CampaignOutcome>>
    BY <1>0, <1>4, Mapping, AllPassed
       DEF CallsDone, Loop, agenteVars, Mapped, MappedInCalls, MappedInPhase
  <2> QED
    BY <1>4, <2>1, SameRound, Stutter DEF CallsDone
<1>5. CASE CheckFinished
  <2>1. turn \in Agente
    BY <1>0, <1>5, AtAnAgente DEF CheckFinished
  <2>2. /\ CampaignOutcome = "running" /\ CampaignOutcome' = "running"
        /\ CampaignEntered = Agente /\ CampaignEntered' = Agente
        /\ CampaignBusy = {a \in Agente : pending[a]}
        /\ CampaignBusy' = {a \in Agente : pending'[a]}
    BY <1>5, Mapping DEF CheckFinished, Mapped, MappedInPhase
  <2>3. UNCHANGED CampaignRound
    BY <1>5, SameRound DEF CheckFinished
  <2>4. CASE pending[turn] /\ ~StillPending(turn)
    <3>1. CampaignBusy' = CampaignBusy \ {turn} /\ turn \in CampaignBusy
      BY <1>0, <1>5, <2>1, <2>2, <2>4 DEF CheckFinished, TypeOK
    <3>2. Campaign!Finish(turn)
      BY <2>2, <2>3, <3>1 DEF Campaign!Finish
    <3> QED
      BY <2>1, <3>2 DEF Campaign!Next
  <2>5. CASE ~(pending[turn] /\ ~StillPending(turn))
    <3>1. CampaignBusy' = CampaignBusy
      BY <1>0, <1>5, <2>1, <2>2, <2>5 DEF CheckFinished, TypeOK, StillPending
    <3> QED
      BY <2>2, <2>3, <3>1, Stutter
  <2> QED
    BY <2>4, <2>5
<1>6. CASE WaitOn \/ PollAgain \/ TimePasses
  <2>1. UNCHANGED <<CampaignEntered, CampaignBusy, CampaignOutcome>>
    BY <1>6, Mapping
       DEF WaitOn, PollAgain, TimePasses, Loop, agenteVars, Mapped, MappedInPhase
  <2> QED
    BY <1>6, <2>1, SameRound, Stutter DEF WaitOn, PollAgain, TimePasses
<1>7. CASE PhaseOver
  <2>1. Quiet
    BY <1>0, <1>7, SweepOver DEF PhaseOver, Inv, BarrierInv
  <2>2. CASE phase \in {"prepare", "execute"}
    <3>1. test \in 1..NumTests /\ UNCHANGED test
      BY <1>0, <1>7, <2>2, ComandanteAssumption
         DEF PhaseOver, Inv, PhaseInv, TypeOK
    <3>2. pc = "poll" /\ pc' = "call" /\ turn' = 1
      BY <1>7, <2>2 DEF PhaseOver, Loop
    <3>3. \/ phase = "prepare" /\ phase' = "execute"
          \/ phase = "execute" /\ phase' = "cleanup"
      BY <1>7, <2>2 DEF PhaseOver
    <3>4. PhaseNumber \in 1..2 /\ PhaseNumber' = PhaseNumber + 1
      BY <3>3 DEF PhaseNumber
    <3>5. /\ CampaignRound = 3 * (test - 1) + PhaseNumber
          /\ CampaignRound' = 3 * (test - 1) + PhaseNumber'
      BY <3>1, <3>3 DEF CampaignRound
    <3>6. CampaignRound < 3 * NumTests + 1 /\ CampaignRound' = CampaignRound + 1
      BY <3>1, <3>4, <3>5, ComandanteAssumption
    <3>7. Campaign!Advance
      BY <2>1, <3>2, <3>6, StepAdvance
    <3> QED
      BY <3>7 DEF Campaign!Next
  <2>3. CASE phase = "cleanup"
    <3>1. pc = "poll" /\ pc' = "next" /\ phase' = phase /\ UNCHANGED <<test, pending>>
      BY <1>7, <2>3 DEF PhaseOver, Loop, agenteVars
    <3>2. UNCHANGED <<CampaignEntered, CampaignBusy, CampaignOutcome>>
      BY <3>1, Mapping DEF Mapped, MappedInPhase
    <3> QED
      BY <3>1, <3>2, SameRound, Stutter
  <2>4. CASE phase = "final"
    <3>1. pc = "poll" /\ phase' = "over"
      BY <1>7, <2>4 DEF PhaseOver, Loop
    <3>2. /\ CampaignOutcome = "running"
          /\ CampaignEntered = Agente
          /\ CampaignBusy = {}
      BY <2>1, <3>1, Mapping DEF Mapped, MappedInPhase, Quiet
    <3>3. /\ CampaignOutcome' = "completed"
          /\ CampaignEntered' = Agente
          /\ CampaignBusy' = {}
          /\ CampaignRound' = 3 * NumTests + 1
      BY <3>1, Mapping DEF Mapped, MappedOver
    <3>4. CampaignRound = 3 * NumTests + 1
      BY <2>4 DEF CampaignRound
    <3>5. Campaign!Complete
      BY <3>2, <3>3, <3>4 DEF Campaign!Complete, Campaign!RoundOver
    <3> QED
      BY <3>5 DEF Campaign!Next
  <2> QED
    BY <1>0, <1>7, <2>2, <2>3, <2>4 DEF Inv, PhaseInv, PhaseOver, TypeOK
<1>8. CASE \E a \in Agente : ClientAnswers(a) \/ ClientErrs(a)
  <2>1. UNCHANGED <<pc, test, phase, turn, pending>>
    BY <1>8 DEF ClientAnswers, ClientErrs
  <2>2. UNCHANGED <<CampaignEntered, CampaignBusy, CampaignOutcome>>
    BY <2>1 DEF CampaignEntered, CampaignBusy, CampaignOutcome
  <2> QED
    BY <2>1, <2>2, SameRound, Stutter
<1>9. CASE RaiseOnError \/ RaiseElsewhere \/ Interrupt \/ InterruptAgain
  <2>1. pc' \notin Running /\ UNCHANGED <<test, phase>>
    BY <1>9 DEF RaiseOnError, RaiseElsewhere, Interrupt, InterruptAgain, Fail,
                Running
  <2> QED
    BY <2>1, StepOut, StepOutside
<1>10. CASE \/ UserEnter \/ RequestClientExit \/ AllAsked
            \/ KillClient \/ AllKilled \/ Save
  <2>1. pc' \notin Running /\ UNCHANGED <<test, phase>>
    BY <1>10 DEF UserEnter, RequestClientExit, AllAsked, KillClient, AllKilled,
                 Save, Loop, Running
  <2> QED
    BY <2>1, StepOut, StepOutside
<1>11. CASE UNCHANGED vars
  <2>1. UNCHANGED <<pc, test, phase, turn, pending>>
    BY <1>11 DEF vars
  <2>2. UNCHANGED <<CampaignEntered, CampaignBusy, CampaignOutcome>>
    BY <2>1 DEF CampaignEntered, CampaignBusy, CampaignOutcome
  <2> QED
    BY <2>1, <2>2, SameRound, Stutter
<1> QED
  BY <1>1, <1>2, <1>3, <1>4, <1>5, <1>6, <1>7, <1>8, <1>9, <1>10, <1>11
     DEF Next, Main, Terminating

\* The loops of run() and wait_until_finished keep the promise of
\* TestCampaign: all rounds in order, everybody in every round, no round
\* before everybody has finished the one before.
THEOREM Implements == Spec => CampaignSpec
<1>1. Init => Campaign!Init
  BY InitCampaign
<1>2. Inv /\ Inv' /\ [Next]_vars => [Campaign!Next]_(Campaign!vars)
  BY NextCampaign
<1> QED
  BY <1>1, <1>2, Invariance, PTL DEF Spec, CampaignSpec, Campaign!Spec

=============================================================================
