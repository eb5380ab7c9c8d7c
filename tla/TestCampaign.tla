---------------------------- MODULE TestCampaign ----------------------------
(***************************************************************************)
(* What elComandante promises the operator of a qualification: a fixed     *)
(* number of rounds (prepare, execute and clean up of every test, then one *)
(* final clean-up) is run through in order, every agente takes part in     *)
(* every round, and no round starts while an agente is still busy with the *)
(* one before.  A campaign ends completed, or it is abandoned.             *)
(*                                                                         *)
(* The module is the abstract specification; Comandante implements it.     *)
(***************************************************************************)
EXTENDS Naturals

CONSTANTS
  Agente,      \* the agentes that take part
  NumRounds    \* the rounds of the campaign, at least one

VARIABLES
  round,       \* the round the campaign is in; 0 before the first
  entered,     \* the agentes that were called in this round
  busy,        \* the agentes whose operation of this round is not finished
  outcome      \* "running", "completed" or "abandoned"

vars == <<round, entered, busy, outcome>>

\* Before the first round nobody is busy.
Init ==
  /\ round = 0
  /\ entered = Agente
  /\ busy = {}
  /\ outcome = "running"

\* An agente is called; its operation may take time or need none.
Enter(a) ==
  /\ outcome = "running"
  /\ a \notin entered
  /\ entered' = entered \union {a}
  /\ busy' \in {busy, busy \union {a}}
  /\ UNCHANGED <<round, outcome>>

Finish(a) ==
  /\ outcome = "running"
  /\ a \in busy
  /\ busy' = busy \ {a}
  /\ UNCHANGED <<round, entered, outcome>>

\* The barrier: everybody took part and nobody is busy any more.
RoundOver == outcome = "running" /\ entered = Agente /\ busy = {}

Advance ==
  /\ RoundOver
  /\ round < NumRounds
  /\ round' = round + 1
  /\ entered' = {}
  /\ UNCHANGED <<busy, outcome>>

Complete ==
  /\ RoundOver
  /\ round = NumRounds
  /\ outcome' = "completed"
  /\ UNCHANGED <<round, entered, busy>>

\* An exception or the user ends the campaign; what the agentes were doing
\* is given up.
Abandon ==
  /\ outcome = "running"
  /\ outcome' = "abandoned"
  /\ entered' = {}
  /\ busy' = {}
  /\ UNCHANGED round

Next ==
  \/ \E a \in Agente : Enter(a) \/ Finish(a)
  \/ Advance
  \/ Complete
  \/ Abandon

Spec == Init /\ [][Next]_vars

=============================================================================
