-------------------------------- MODULE Xray --------------------------------
(***************************************************************************)
(* The x-ray part of the system: xray_agente inside elComandante           *)
(* (elComandante/xray_agente.py), the xrayClient process                   *)
(* (xrayClient/xrayClient.py) and the generator it drives, joined by the   *)
(* /xray channel of the subsystem in both directions.                      *)
(*                                                                         *)
(* The agente sends SET commands for what differs from what it last asked  *)
(* for, then FINISHED, and is pending until the client echoes FINISHED.    *)
(* The client works off its commands in order, answers ERROR when a        *)
(* command fails, and compares the generator with its saved state whenever *)
(* no command is waiting.  The channel keeps the order; on the one machine *)
(* all of this runs on, datagrams are taken not to be lost.                *)
(*                                                                         *)
(* A definition headed "Deviation" is the next definition with a mistake,  *)
(* and no part of the model.                                               *)
(***************************************************************************)
EXTENDS Naturals, Sequences, FiniteSets

CONSTANTS
  Environments,   \* environments of tests: [xray, voltage, current, target]
  Targets,        \* labels of the --targets argument of the client
  Direct,         \* the target "none": direct beam
  NumTests,       \* the tests of the campaign
  LeftOpen,       \* shutters that may be found open when the client starts
  None,           \* no value
  MaxTrips,       \* bound on interlock trips
  MaxFaults       \* bound on commands that the generator does not carry out

Voltages == {e.voltage : e \in Environments}
Currents == {e.current : e \in Environments}
Labels == {e.target : e \in Environments}

ASSUME XrayAssumption ==
  /\ \A e \in Environments : e.xray \in BOOLEAN
  /\ None \notin Voltages \union Currents \union Labels \union Targets \union BOOLEAN
  /\ Direct \notin Targets
  /\ NumTests \in Nat /\ MaxTrips \in Nat /\ MaxFaults \in Nat
  /\ LeftOpen \subseteq {1, 3}

VARIABLES
  \* elComandante with its xray_agente
  conf,         \* turnOffHV and beamOffBetweenTests of its configuration
  step,         \* where the campaign stands
  test,         \* tests begun
  env,          \* environment of the current test
  asked,        \* xray_agente.voltage, current and target
  hvon,         \* xray_agente.hvon
  beamon,       \* xray_agente.beamon
  pending,      \* xray_agente.pending
  finished,     \* what the last check_finished returned
  \* the /xray channel
  toClient,     \* commands the client has not read
  toAgente,     \* packets the agente has not read
  \* xrayClient
  up,           \* the client's main loop is running
  shutter,      \* the shutter the client uses for the beam
  beamed,       \* beam_turned_on_once
  saved,        \* state_kV, state_mA and state_HV
  \* the generator and the motor stage
  device,       \* voltage, current and high voltage
  position,     \* the target the stage stands at
  open,         \* the open shutters
  trips, faults

dialogue == <<env, asked, hvon, beamon, pending, finished, toClient, toAgente>>
agenteVars == <<conf, step, test, env, asked, hvon, beamon, pending, finished>>
clientVars == <<up, shutter, beamed, saved>>
deviceVars == <<device, position, open, trips, faults>>
vars == <<conf, step, test, env, asked, hvon, beamon, pending, finished, toClient,
          toAgente, up, shutter, beamed, saved, device, position, open,
          trips, faults>>

Set(what, value) == [cmd |-> what, arg |-> value]
FINISHED == [cmd |-> "FINISHED", arg |-> None]
EXIT == [cmd |-> "EXIT", arg |-> None]

Command ==
  [cmd : {"VOLTAGE"}, arg : Voltages] \union [cmd : {"CURRENT"}, arg : Currents]
    \union [cmd : {"TARGET"}, arg : Labels]
    \union [cmd : {"HV", "BEAM"}, arg : BOOLEAN] \union {FINISHED, EXIT}

Waits == {"preparing", "cleaning", "ending"}
Steps == Waits \union {"idle", "executing", "over", "failed", "exited"}

TypeOK ==
  /\ conf \in [turnOffHV : BOOLEAN, beamOffBetween : BOOLEAN]
  /\ step \in Steps
  /\ test \in 0..NumTests
  /\ env \in Environments
  /\ asked \in [voltage : Voltages \union {None}, current : Currents \union {None},
                target : Labels \union {None}]
  /\ hvon \in BOOLEAN
  /\ beamon \in BOOLEAN \union {None}
  /\ pending \in BOOLEAN /\ finished \in BOOLEAN
  /\ toClient \in Seq(Command)
  /\ toAgente \in Seq({"FINISHED", "ERROR"})
  /\ up \in BOOLEAN /\ beamed \in BOOLEAN
  /\ shutter \in {1, 3}
  /\ saved \in [voltage : Voltages, current : Currents, hv : BOOLEAN]
  /\ device \in [voltage : Voltages, current : Currents, hv : BOOLEAN]
  /\ position \in Targets \union {None}
  /\ open \subseteq {1, 3}
  /\ trips \in 0..MaxTrips /\ faults \in 0..MaxFaults

\* The generator may be found in any setting; the stage has been moved home.
Init ==
  /\ conf \in [turnOffHV : BOOLEAN, beamOffBetween : BOOLEAN]
  /\ step = "idle"
  /\ test = 0
  /\ env \in Environments
  /\ asked = [voltage |-> None, current |-> None, target |-> None]
  /\ hvon = FALSE
  /\ beamon = None
  /\ pending = FALSE /\ finished = FALSE
  /\ toClient = <<>> /\ toAgente = <<>>
  /\ up = TRUE
  /\ shutter = 3
  /\ beamed = FALSE
  /\ device \in [voltage : Voltages, current : Currents, hv : BOOLEAN]
  /\ saved = device
  /\ position = None
  /\ open \in SUBSET LeftOpen
  /\ trips = 0 /\ faults = 0

-----------------------------------------------------------------------------
(* xray_agente *)

If(condition, command) == IF condition THEN <<command>> ELSE <<>>

\* Deviation: the beam is switched on together with the high voltage only.
BeamWithHV == ~hvon /\ beamon # TRUE

BeamMissing == beamon # TRUE

\* The commands of prepare_test in the environment e.
Preparation(e) ==
  IF e.xray
    THEN If(e.voltage # asked.voltage, Set("VOLTAGE", e.voltage))
           \o If(e.current # asked.current, Set("CURRENT", e.current))
           \o If(e.target # asked.target, Set("TARGET", e.target))
           \o If(~hvon, Set("HV", TRUE))
           \o If(BeamMissing, Set("BEAM", TRUE))
    ELSE If(beamon # FALSE, Set("BEAM", FALSE))
           \o If(hvon /\ conf.turnOffHV, Set("HV", FALSE))

\* Deviation: waits only if a command was sent, but asks for the echo anyway.
PendingOnCommands(commands) ==
  /\ toClient' = toClient \o commands \o <<FINISHED>>
  /\ pending' = (commands # <<>>)
  /\ finished' = ~pending'

\* set_pending: ask for the echo and wait for it.
SetPending(commands) ==
  /\ toClient' = toClient \o commands \o <<FINISHED>>
  /\ pending' = TRUE
  /\ finished' = FALSE

PrepareTest ==
  /\ step = "idle"
  /\ test < NumTests
  /\ test' = test + 1
  /\ step' = "preparing"
  /\ \E e \in Environments :
       /\ env' = e
       /\ SetPending(Preparation(e))
       /\ asked' = IF e.xray
                     THEN [voltage |-> e.voltage, current |-> e.current,
                           target |-> e.target]
                     ELSE asked
       /\ hvon' = (e.xray \/ (hvon /\ ~conf.turnOffHV))
       /\ beamon' = e.xray
  /\ UNCHANGED <<toAgente, conf, clientVars, deviceVars>>

\* wait_until_finished lets the phase end once check_finished has returned
\* True.  execute_test leaves the x-rays alone.
PhaseOver ==
  /\ step \in Waits
  /\ finished
  /\ step' = CASE step = "preparing" -> "executing" [] step = "cleaning" -> "idle"
               [] step = "ending" -> "over"
  /\ UNCHANGED <<test, dialogue, conf, clientVars, deviceVars>>

CleanupTest ==
  /\ step = "executing"
  /\ step' = "cleaning"
  /\ IF beamon = TRUE /\ conf.beamOffBetween
       THEN SetPending(<<Set("BEAM", FALSE)>>) /\ beamon' = FALSE
       ELSE finished' = FALSE /\ UNCHANGED <<toClient, pending, beamon>>
  /\ UNCHANGED <<test, env, asked, hvon, toAgente, conf, clientVars, deviceVars>>

\* Deviation: only what the agente itself turned on is turned off.
OwnCleanup ==
  <<Set("BEAM", FALSE)>> \o If(hvon /\ conf.turnOffHV, Set("HV", FALSE))

FinalCommands ==
  <<Set("BEAM", FALSE)>> \o If(conf.turnOffHV, Set("HV", FALSE))

FinalTestCleanup ==
  /\ step = "idle"
  /\ test = NumTests
  /\ step' = "ending"
  /\ SetPending(FinalCommands)
  /\ UNCHANGED <<test, env, asked, hvon, beamon, toAgente, conf, clientVars, deviceVars>>

\* check_finished reads all packets up to the first ERROR, at which it raises.
\* In the execute phase it is polled while other agentes are waited for.
CheckFinished ==
  /\ step \in Waits \union {"executing"}
  /\ IF \E i \in DOMAIN toAgente : toAgente[i] = "ERROR"
       THEN LET first == CHOOSE i \in DOMAIN toAgente :
                           /\ toAgente[i] = "ERROR"
                           /\ \A j \in 1..(i - 1) : toAgente[j] # "ERROR"
            IN  /\ step' = "failed"
                /\ pending' = FALSE
                /\ toAgente' = SubSeq(toAgente, first + 1, Len(toAgente))
                /\ UNCHANGED finished
       ELSE /\ pending' = (pending /\ toAgente = <<>>)
            /\ finished' = ~pending'
            /\ toAgente' = <<>>
            /\ UNCHANGED step
  /\ UNCHANGED <<test, env, asked, hvon, beamon, toClient, conf, clientVars, deviceVars>>

\* Deviation: the client is ended only after a campaign without error.
EndOfCampaign == {"over"}

EndOfRun == {"over", "failed"}

\* request_client_exit, after the campaign or in clean_up_exception.
RequestClientExit ==
  /\ step \in EndOfRun
  /\ step' = "exited"
  /\ toClient' = Append(toClient, EXIT)
  /\ UNCHANGED <<test, env, asked, hvon, beamon, pending, finished, toAgente,
                 conf, clientVars, deviceVars>>

-----------------------------------------------------------------------------
(* xrayClient *)

\* The generator either carries out a command or, a bounded number of times,
\* does not; the client reads back what happened and reports it.
Outcome(done) == done \/ faults < MaxFaults
Report(done) ==
  /\ faults' = IF done THEN faults ELSE faults + 1
  /\ toAgente' = IF done THEN toAgente ELSE Append(toAgente, "ERROR")

Quantity(cmd) == CASE cmd = "VOLTAGE" -> "voltage" [] cmd = "CURRENT" -> "current"
                   [] cmd = "HV" -> "hv"

\* SET VOLTAGE, SET CURRENT and SET HV; a high voltage that does not settle is
\* turned off again.
SetQuantity(c) ==
  /\ c.cmd \in {"VOLTAGE", "CURRENT", "HV"}
  /\ \E done \in BOOLEAN :
       /\ Outcome(done)
       /\ Report(done)
       /\ IF done
            THEN /\ device' = [device EXCEPT ![Quantity(c.cmd)] = c.arg]
                 /\ saved' = [saved EXCEPT ![Quantity(c.cmd)] = c.arg]
            ELSE /\ \/ device' = device
                    \/ c.cmd = "HV" /\ c.arg /\ device' = [device EXCEPT !.hv = FALSE]
                 /\ UNCHANGED saved
  /\ UNCHANGED <<position, open, shutter, beamed>>

\* SET BEAM opens or closes the current shutter.
SetBeam(c) ==
  /\ c.cmd = "BEAM"
  /\ \E done \in BOOLEAN :
       /\ Outcome(done)
       /\ Report(done)
       /\ IF done
            THEN /\ open' = IF c.arg THEN open \union {shutter} ELSE open \ {shutter}
                 /\ beamed' = (beamed \/ c.arg)
            ELSE UNCHANGED <<open, beamed>>
  /\ UNCHANGED <<device, position, saved, shutter>>

ShutterOf(target) ==
  CASE target \in Targets -> 1 [] target = Direct -> 3 [] OTHER -> shutter

\* Deviation: the stage moves for every label.
AnyLabel(target) == target

PositionOf(target) == IF target \in Targets THEN target ELSE position

\* Deviation: the new shutter is opened even if the old one would not close.
OpenRegardless(closed, opened, new) ==
  (IF closed THEN open \ {shutter} ELSE open) \union (IF opened THEN {new} ELSE {})

\* The open shutters after a change to the shutter new.
ChangeOver(closed, opened, new) ==
  (IF closed THEN open \ {shutter} ELSE open)
    \union (IF closed /\ opened THEN {new} ELSE {})

\* SET TARGET moves the stage and, when the beam has been on before, changes
\* over to the other shutter: the old one is closed, then the new one opened.
SetTarget(c) ==
  /\ c.cmd = "TARGET"
  /\ position' = PositionOf(c.arg)
  /\ shutter' = ShutterOf(c.arg)
  /\ IF shutter' # shutter /\ beamed
       THEN \E closed, opened \in BOOLEAN :
              /\ Outcome(closed /\ opened)
              /\ Report(closed /\ opened)
              /\ open' = ChangeOver(closed, opened, shutter')
       ELSE UNCHANGED <<open, faults, toAgente>>
  /\ UNCHANGED <<device, saved, beamed>>

\* Deviation: the query is read and not answered.
NoAnswer == toAgente

Answer == Append(toAgente, "FINISHED")

Echo(c) ==
  /\ c.cmd = "FINISHED"
  /\ toAgente' = Answer
  /\ UNCHANGED <<device, position, open, saved, shutter, beamed, faults>>

\* One turn of the main loop with a packet.
Execute ==
  /\ up
  /\ toClient # <<>>
  /\ LET c == Head(toClient) IN
       \/ /\ SetQuantity(c) \/ SetBeam(c) \/ SetTarget(c) \/ Echo(c)
          /\ up' = up
       \/ /\ c.cmd = "EXIT"
          /\ up' = FALSE
          /\ UNCHANGED <<toAgente, device, position, open, saved, shutter, beamed, faults>>
  /\ toClient' = Tail(toClient)
  /\ UNCHANGED <<agenteVars, trips>>

\* Deviation: the change is only logged.
OnlyLogged == toAgente

Complaint == Append(toAgente, "ERROR")

\* One turn without: check_state, and an ERROR if the generator has changed.
Monitor ==
  /\ up
  /\ toClient = <<>>
  /\ device # saved
  /\ toAgente' = Complaint
  /\ saved' = device
  /\ UNCHANGED <<agenteVars, toClient, up, shutter, beamed, deviceVars>>

\* SIGINT: the handler closes the connection and the main loop ends.
Signal ==
  /\ up
  /\ up' = FALSE
  /\ UNCHANGED <<agenteVars, toClient, toAgente, shutter, beamed, saved, deviceVars>>

\* The interlock of the generator, when its door is opened: it turns the high
\* voltage off or closes the shutter.
Interlock ==
  /\ trips < MaxTrips
  /\ trips' = trips + 1
  /\ \/ device.hv /\ device' = [device EXCEPT !.hv = FALSE] /\ UNCHANGED open
     \/ open # {} /\ open' = {} /\ UNCHANGED device
  /\ UNCHANGED <<agenteVars, clientVars, toClient, toAgente, position, faults>>

Terminating == step = "exited" /\ ~up /\ UNCHANGED vars

-----------------------------------------------------------------------------
Agente ==
  \/ PrepareTest \/ PhaseOver \/ CleanupTest
  \/ FinalTestCleanup \/ CheckFinished \/ RequestClientExit

Client == Execute \/ Monitor

Next == Agente \/ Client \/ Interlock \/ Terminating

\* A user who ends the client with Ctrl-C is left out of Next, so that the
\* properties of the dialogue can be stated; SignalSpec has it.
Spec == Init /\ [][Next]_vars
SignalSpec == Init /\ [][Next \/ Signal]_vars

\* elComandante and xrayClient both run their loops for ever.
FairSpec == Spec /\ WF_vars(Agente) /\ WF_vars(Client)

-----------------------------------------------------------------------------
(* Properties *)

Valid(target) == target \in Targets \union {Direct}

\* What the test asked for in its environment e.
AsRequested(e) ==
  IF e.xray
    THEN /\ device = [voltage |-> e.voltage, current |-> e.current, hv |-> TRUE]
         /\ open = {shutter}
         /\ e.target # Direct => position = e.target /\ shutter = 1
         /\ e.target = Direct => shutter = 3
    ELSE open = {}

\* A test is executed only once the x-ray conditions of its environment are
\* reached, although the agente sends only the differences to what it asked
\* for before and never reads the device: a command that failed stops the
\* campaign first.  Interlock trips are left to TripWillBeReported.  (A target
\* that the client does not know is only logged: the test before goes on.)
ReadyForTest ==
  step = "executing" /\ trips = 0 /\ Valid(env.target) => AsRequested(env)

\* The beam never leaves through two shutters at once, in particular not when
\* a change of target fails half way.
OneBeam == Cardinality(open) <= 1

\* A campaign that ends without an error leaves no beam, and no high voltage
\* if elComandante was to turn it off; errors and trips on the way included.
SafeAtTheEnd == step = "over" => open = {} /\ (conf.turnOffHV => ~device.hv)

Count(seq, p) == Cardinality({i \in DOMAIN seq : seq[i] = p})

\* The agente is pending exactly while one FINISHED is on its way, as a
\* command or as its echo: no phase can end with the echo of an earlier one.
OneQuestionOneAnswer ==
  step \notin {"failed", "exited"} =>
    Count(toClient, FINISHED) + Count(toAgente, "FINISHED") = (IF pending THEN 1 ELSE 0)

ReportComes == device # saved \/ "ERROR" \in {toAgente[i] : i \in DOMAIN toAgente}

\* When the interlock has turned off the high voltage under a running test the
\* next check of the client sees it or the ERROR is already on its way.
TripWillBeReported ==
  step = "executing" /\ env.xray /\ ~device.hv => ReportComes

\* "In all devices there is an interlock that turns off the high voltage or
\* closes the shutter [...] the xrayClient needs to know about it".
BeamLossWillBeReported ==
  step = "executing" /\ env.xray /\ Valid(env.target) /\ open = {} => ReportComes

\* Ending the client ends the hazard: "the client is given a chance to clean up".
NoBeamWithoutClient == ~up => open = {}

\* The agente does not wait for ever: the echo or an ERROR arrives.
AnswerComes == pending ~> ~pending

\* The campaign ends, whatever the generator does.
CampaignEnds == <>(step = "exited" /\ ~up)

=============================================================================
