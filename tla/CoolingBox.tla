----------------------------- MODULE CoolingBox -----------------------------
(***************************************************************************)
(* The cooling box: coolingBox_agente inside elComandante, the process     *)
(* coolingBox/coolingBoxClient.py, and the box itself, driven through      *)
(* jumo_coolingBox by two threads of that process.                         *)
(*                                                                         *)
(* The agente sends a command and then asks for the status until it hears  *)
(* what it waits for: STABLE before a test, FINISHED after a cycle test,   *)
(* WAITING after the final heating.  The main thread of the client carries *)
(* the commands out and answers; its check thread calls stabilize() every  *)
(* half second, and so does the main thread whenever the setpoint changes. *)
(* Nothing locks the fields the two share.  stabilize() reads the box,     *)
(* decides, and only then calls cooling(), heating(), flushing() or        *)
(* stop_controlling().  Such a call tests the status, writes the           *)
(* controllers, writes the contacts and then sets the status: four steps,  *)
(* and before each the other thread may run.                               *)
(*                                                                         *)
(* Temperatures are in units of the tolerance deltaT_Max.  The unit of time *)
(* is a pass of the check thread, in which the temperature moves by at     *)
(* most one unit.                                                          *)
(*                                                                         *)
(* A definition headed "Deviation" is the next definition with a mistake,  *)
(* and no part of the model.                                               *)
(***************************************************************************)
EXTENDS Integers, Sequences, Packets

CONSTANTS
  Targets,              \* temperatures of the environments of the tests
  Room,                 \* temperature of the final clean-up, 17 degrees
  Warm,                 \* setpoint of the final heating, 20 degrees
  Hottest,              \* temperatures are 0..Hottest
  CycleLow, CycleHigh,  \* the turning points of a cycle test
  NumCycles,            \* number of cycles of a cycle test
  StableTime,           \* timeUntillStable, in passes of the check thread
  None,                 \* -9999: no setpoint yet
  CycleTest,            \* "cycle", in the place of the temperature of a test
  NumTests,             \* tests of the campaign
  MaxTroubles           \* bound on the questions repeated and the upsets: the box
                        \* gets wet, warmer or colder by itself, or Ctrl-C

ASSUME CoolingBoxAssumption ==
  /\ {Room, Warm, CycleLow, CycleHigh} \union Targets \subseteq 1..(Hottest - 1)
  /\ Room < Warm /\ CycleLow < CycleHigh
  /\ {Hottest, NumCycles, StableTime, NumTests, MaxTroubles} \subseteq Nat
  /\ NumCycles > 0 /\ {None, CycleTest} \intersect Nat = {}

VARIABLES
  \* elComandante with its coolingBox_agente
  step,        \* where the campaign stands
  test,        \* tests begun
  target,      \* temperature of the current test, CycleTest, or Room at the end
  pending,     \* coolingBox_agente.pending
  asking,      \* inside the loop of check_finished that waits for an answer
  repeats,     \* questions repeated after ten seconds without an answer
  \* the /jumo channel
  toClient, toAgente,
  \* coolingBoxClient
  up,          \* the main loop is running
  box,         \* the fields of jumo_coolingBox
  main, check, \* the calls either thread has still to make
  mainAt, checkAt, \* how far it is in the first of them
  \* the box
  device,      \* controllers and binary contacts of the box
  air,         \* temperature and humidity
  upsets,      \* times it got wet, warmer or colder by itself, or Ctrl-C
  \* history
  calm,        \* passes since the temperature came to the setpoint
  damp,        \* the box was not dry since the setpoint was last changed
  turns        \* extremes reached since the cycle test began

agenteVars == <<step, test, target, pending, asking, repeats>>
clientVars == <<up, box, main, check, mainAt, checkAt>>
weather == <<air, upsets>>
history == <<calm, damp, turns>>
vars == <<step, test, target, pending, asking, repeats, toClient, toAgente, up, box,
          main, check, mainAt, checkAt, device, air, upsets,
          calm, damp, turns>>

TroublesLeft == repeats + upsets < MaxTroubles

Ends == {"over", "exited", "stopped"}
Never == -1       \* reachedSetpointTime in the future; no cycles
Statuses == {"unknown", "flushing", "cooling", "heating", "final_heating"}
Calls == {"flushing", "cooling", "heating", "final_heating",
          "stop", "start", "dry", "stabilize", "close"}
Places == {"call", "safe", "control", "controllers", "contacts", "status"}
Setpoints ==
  Targets \union {Room, Warm, CycleLow - 1, CycleHigh, CycleHigh + 1, None}
\* An answer, with the setpoint it was given for and whether the temperature
\* had been kept by then: the agente reads neither of the two.
Answers ==
  [says : {"STABLE", "UNSTABLE", "CYCLING", "FINISHED", "FINAL_HEATING", "WAITING"},
   at : Setpoints, kept : BOOLEAN]
Commands == [cmd : {"START"}, arg : Setpoints]
              \union [cmd : {"CYCLE", "FINAL_HEAT", "STAT", "EXIT"}, arg : {None}]
Command(c) == [cmd |-> c, arg |-> None]
Air == [temp : 0..Hottest, humidity : {"dry", "damp", "wet"}]

TypeOK ==
  /\ step \in {"idle", "preparing", "executing", "enter", "heating"} \union Ends
  /\ test \in 0..NumTests
  /\ target \in Targets \union {CycleTest, Room}
  /\ {pending, asking, up, damp} \subseteq BOOLEAN
  /\ repeats \in 0..MaxTroubles
  /\ toClient \in Seq(Commands) /\ toAgente \in Seq(Answers)
  /\ box \in [controlling : BOOLEAN, status : Statuses, setpoint : Setpoints,
              doCycle : BOOLEAN, cycles : -1..(2 * NumCycles), reached : -1..(StableTime + 1)]
  /\ main \in Seq(Calls) /\ check \in Seq(Calls)
  /\ mainAt \in Places /\ checkAt \in Places
  /\ device \in [controllers : {"off", "cooling", "heating"},
                 contacts : {"off", "safe", "flushing", "cooling", "heating"}]
  /\ air \in Air
  /\ upsets \in 0..MaxTroubles
  /\ calm \in 0..(StableTime + 1) /\ turns \in 0..(2 * NumCycles + 1)

\* The constructor of jumo_coolingBox has begun to flush the box with dry air
\* and started the check thread.
Init ==
  /\ step = "idle" /\ test = 0 /\ target \in Targets
  /\ pending = FALSE /\ asking = FALSE /\ repeats = 0
  /\ toClient = <<>> /\ toAgente = <<>>
  /\ up = TRUE
  /\ box = [controlling |-> TRUE, status |-> "flushing", setpoint |-> None,
            doCycle |-> FALSE, cycles |-> Never, reached |-> Never]
  /\ main = <<>> /\ check = <<>> /\ mainAt = "call" /\ checkAt = "call"
  /\ device = [controllers |-> "off", contacts |-> "flushing"]
  /\ air \in [temp : {Room}, humidity : {"dry", "wet"}]
  /\ upsets = 0
  /\ calm = 0 /\ damp = FALSE /\ turns = 0

-----------------------------------------------------------------------------
(* jumo_coolingBox *)

\* is_dry: once the box is controlled, more humidity is tolerated.  (What is dry
\* enough also depends on the setpoint, by way of the dew point: a cold setpoint
\* asks for less humidity.  Here a box is dry for every setpoint or for none.)
IsDry(b, w) ==
  \/ w.humidity = "dry"
  \/ w.humidity = "damp" /\ b.status \notin {"unknown", "flushing"}
  \/ b.setpoint = None

\* check_cycles, with cycles counted in halves: an odd number is on its way to
\* the low temperature, an even one to the high temperature.
CheckCycles(b, w) ==
  LET done == b.cycles = 0 /\ w.temp > CycleHigh
      cold == b.cycles > 0 /\ b.cycles % 2 = 1 /\ w.temp < CycleLow
      hot  == b.cycles > 0 /\ b.cycles % 2 = 0 /\ w.temp > CycleHigh
  IN  CASE done -> [b EXCEPT !.cycles = Never, !.setpoint = CycleHigh]
        [] cold -> [b EXCEPT !.cycles = @ - 1, !.setpoint = CycleHigh + 1]
        [] hot  -> [b EXCEPT !.cycles = @ - 1, !.setpoint = CycleLow - 1]
        [] OTHER -> b

\* reachedSetpointTime after a pass.
Reached(b, w) ==
  IF b.doCycle \/ (w.temp = b.setpoint /\ b.reached # Never) THEN b.reached
  ELSE IF w.temp = b.setpoint THEN 0 ELSE Never

Pass(b, acts) == [box |-> b, acts |-> acts]

\* A final heating goes on until the box is warm.
FinalHeating(b, w) == Pass(b, IF w.temp > Room THEN <<"stop">> ELSE <<>>)

\* What stabilize() does to the fields, and what it calls afterwards.
Stabilize(b, w) ==
  LET c == CheckCycles(b, w) IN
  CASE ~b.controlling -> Pass(b, <<>>)
    [] b.controlling /\ b.status = "unknown" -> Pass(b, <<"flushing">>)
    [] b.controlling /\ b.status = "flushing" /\ ~IsDry(b, w) -> Pass(b, <<>>)
    [] b.controlling /\ b.status \notin {"unknown", "flushing"} /\ ~IsDry(b, w) ->
         Pass(b, <<"flushing">>)
    [] OTHER ->
         CASE c.setpoint = None /\ ~c.doCycle -> Pass(c, <<>>)
           [] c.status = "final_heating" /\ (c.setpoint # None \/ c.doCycle) ->
                FinalHeating(c, w)
           [] OTHER ->
                Pass([c EXCEPT !.reached = Reached(c, w)],
                     CASE w.temp > c.setpoint -> <<"cooling">>
                       [] w.temp < c.setpoint -> <<"heating">>
                       [] OTHER -> <<>>)

\* When a call does nothing: flushing(), cooling() and heating() look at the
\* status, stop_controlling() and start_controlling() at controlling; "dry" is
\* the latter's call of flushing().
Needless(call) ==
  \/ call \in {"flushing", "cooling", "heating"} /\ box.status = call
  \/ call = "dry" /\ box.status \in {"flushing", "cooling", "heating"}
  \/ call = "stop" /\ ~box.controlling
  \/ call = "start" /\ box.controlling

\* The place a call comes to after a step, "call" when it returns.
After(call, place) ==
  CASE place = "call" ->
         CASE Needless(call) \/ call = "final_heating" -> "call"
           [] ~Needless(call) /\ call \in {"stop", "start"} -> "safe"
           [] OTHER -> "controllers"
    [] place = "safe" -> "control"
    [] place = "control" -> IF call = "stop" THEN "controllers" ELSE "call"
    [] place = "controllers" -> "contacts"
    [] place = "contacts" -> "status"
    [] place = "status" -> "call"

\* Deviation: stop_controlling leaves the controllers as they are.
ControllersKept(call) == IF call \in {"cooling", "heating"} THEN call ELSE device.controllers

ControllersOf(call) == IF call \in {"cooling", "heating"} THEN call ELSE "off"

ContactsOf(call) ==
  CASE call = "dry" -> "flushing" [] call = "stop" -> "off" [] OTHER -> call

StatusOf(call) ==
  CASE call = "dry" -> "flushing" [] call = "stop" -> "unknown" [] OTHER -> call

\* A step of a call.  Each write to the device waits for its lock; what has been
\* written counts at once.
Perform(call, place) ==
  /\ device' = CASE place = "safe" -> [device EXCEPT !.contacts = "safe"]
                 [] place = "controllers" -> [device EXCEPT !.controllers = ControllersOf(call)]
                 [] place = "contacts" -> [device EXCEPT !.contacts = ContactsOf(call)]
                 [] OTHER -> device
  /\ box' = CASE place = "control" -> [box EXCEPT !.controlling = (call = "start")]
              [] place = "status" \/ call = "final_heating" ->
                   [box EXCEPT !.status = StatusOf(call)]
              [] OTHER -> box

\* is_stable.
Settle(b) == IF air.temp # b.setpoint THEN [b EXCEPT !.reached = Never] ELSE b
IsStable(b) == Settle(b).reached > StableTime

\* set_setpoint.
SetSetpoint(b, setpoint) ==
  IF b.setpoint = setpoint
    THEN Pass(b, <<>>)
    ELSE Stabilize([b EXCEPT !.setpoint = setpoint], air)

\* A new setpoint starts the history afresh; what was damp before the setpoint
\* was reached does not matter.
Remember(b, w, since) ==
  /\ calm' = IF b.setpoint = box.setpoint THEN since ELSE 0
  /\ damp' = (Never \notin {box.reached, b.reached} /\ (damp \/ ~IsDry(b, w)))

Capped(n, bound) == IF n < bound THEN n + 1 ELSE n

Aged(b) == IF b.reached = Never THEN b ELSE [b EXCEPT !.reached = Capped(@, StableTime + 1)]

Toward(t, goal) == IF t < goal THEN t + 1 ELSE IF t > goal THEN t - 1 ELSE t

\* The temperature follows the controllers, when the contacts are those of the
\* same call, or else may drift towards the room; dry air enters through the
\* contacts of flushing and heating.
Course(t) ==
  LET driven == CASE device.controllers = "cooling" /\ t > box.setpoint -> {t - 1}
                  [] device.controllers = "heating" /\ t < box.setpoint -> {t + 1}
                  [] OTHER -> {t}
  IN  IF device.controllers = device.contacts /\ device.controllers # "off"
        THEN driven ELSE driven \union {t, Toward(t, Room)}

Drying(h) ==
  IF device.contacts \in {"flushing", "heating"}
    THEN (IF h = "wet" THEN "damp" ELSE "dry") ELSE h

Weather(w) ==
  \/ w.temp \in Course(air.temp) /\ w.humidity = Drying(air.humidity) /\ upsets' = upsets
  \/ /\ TroublesLeft /\ upsets' = upsets + 1
     /\ \/ /\ w.temp \in {air.temp - 1, air.temp + 1}
           /\ w.humidity = Drying(air.humidity)
        \/ /\ w.temp \in Course(air.temp)
           /\ air.humidity = "dry" /\ w.humidity \in {"damp", "wet"}

\* The next extreme of a cycle test is reached.
AtTurn(w) == IF turns % 2 = 0 THEN w.temp > CycleHigh ELSE w.temp < CycleLow

\* Half a second passes, and check_status begins its next pass.
CheckStatus ==
  /\ up
  /\ check = <<>>
  /\ \E w \in Air :
       /\ air' = w
       /\ Weather(w)
       /\ LET pass == Stabilize(Aged(box), w) IN
            /\ box' = pass.box
            /\ check' = pass.acts
            /\ Remember(pass.box, w,
                        IF w.temp = box.setpoint THEN Capped(calm, StableTime + 1) ELSE 0)
       /\ turns' = IF box.doCycle /\ AtTurn(w) THEN Capped(turns, 2 * NumCycles + 1) ELSE turns
  /\ UNCHANGED <<agenteVars, toClient, toAgente, up, main, mainAt, checkAt, device>>

\* The check thread takes a step of its call.
CheckActs ==
  /\ up
  /\ check # <<>>
  /\ Perform(Head(check), checkAt)
  /\ checkAt' = After(Head(check), checkAt)
  /\ check' = IF checkAt' = "call" THEN Tail(check) ELSE check
  /\ UNCHANGED <<agenteVars, toClient, toAgente, up, main, mainAt, weather, history>>

-----------------------------------------------------------------------------
(* coolingBoxClient: the main loop *)

Handles(cmd) ==
  /\ up /\ main = <<>>
  /\ toClient # <<>> /\ Head(toClient).cmd = cmd
  /\ toClient' = Tail(toClient)
  /\ UNCHANGED <<agenteVars, up, check, mainAt, checkAt, device, weather>>

\* :PROG:START sets the setpoint and then sees to it that the box is controlled.
Start ==
  /\ Handles("START")
  /\ LET pass == SetSetpoint(box, Head(toClient).arg) IN
       /\ box' = pass.box
       /\ main' = Append(pass.acts, "start")
       /\ Remember(pass.box, air, calm)
  /\ UNCHANGED <<toAgente, turns>>

\* Deviation: one half of a cycle too many.
HalfMore == [box EXCEPT !.doCycle = TRUE, !.cycles = 2 * NumCycles + 1]

\* Deviation: the count of an earlier cycle test is kept.
KeepCount == [box EXCEPT !.doCycle = TRUE, !.cycles = IF @ = Never THEN 0 ELSE @]

NewCount == [box EXCEPT !.doCycle = TRUE, !.cycles = 2 * NumCycles]

\* :PROG:CYCLE, do_cycle.
Cycle ==
  /\ Handles("CYCLE")
  /\ LET pass == SetSetpoint(NewCount, CycleHigh + 1) IN
       /\ box' = pass.box
       /\ main' = pass.acts
       /\ Remember(pass.box, air, calm)
  /\ turns' = IF air.temp > CycleHigh THEN 1 ELSE 0
  /\ UNCHANGED toAgente

\* :PROG:FINAL_HEAT, final_heating.
FinalHeat ==
  /\ Handles("FINAL_HEAT")
  /\ LET pass == SetSetpoint(box, Warm) IN
       /\ box' = pass.box
       /\ main' = pass.acts \o <<"heating", "final_heating">>
       /\ Remember(pass.box, air, calm)
  /\ UNCHANGED <<toAgente, turns>>

\* Deviation: the end of a cycle test is reported as any other status.
NoReport == IF IsStable(box) THEN "STABLE" ELSE "UNSTABLE"

Status ==
  CASE ~box.controlling \/ box.status = "unknown" -> "WAITING"
    [] box.controlling /\ box.status # "unknown" ->
         CASE box.doCycle -> IF box.cycles = Never THEN "FINISHED" ELSE "CYCLING"
           [] box.status = "final_heating" /\ ~box.doCycle -> "FINAL_HEATING"
           [] OTHER -> IF IsStable(box) THEN "STABLE" ELSE "UNSTABLE"

Reply(status) ==
  [says |-> status,
   at |-> IF status = "STABLE" THEN box.setpoint ELSE None,
   kept |-> status = "STABLE" /\ (calm > StableTime \/ damp)]

\* :PROG:STAT? also ends a cycle test and forgets an outdated reachedSetpointTime.
Stat ==
  /\ Handles("STAT")
  /\ toAgente' = Append(toAgente, Reply(Status))
  /\ box' = CASE Status = "FINISHED" -> [box EXCEPT !.doCycle = FALSE, !.reached = Never]
              [] Status \in {"STABLE", "UNSTABLE"} -> Settle(box)
              [] OTHER -> box
  /\ turns' = IF Status = "FINISHED" THEN 0 ELSE turns
  /\ UNCHANGED <<main, calm, damp>>

\* :EXIT, the end of the main loop and endClient all call stop_controlling.
Exit ==
  /\ Handles("EXIT")
  /\ main' = <<"stop", "close">>
  /\ UNCHANGED <<box, toAgente, history>>

\* The main thread takes a step of its call.  start_controlling() goes on with
\* flushing() and stabilize().
MainActs ==
  /\ up
  /\ main # <<>> /\ Head(main) \notin {"stabilize", "close"}
  /\ Perform(Head(main), mainAt)
  /\ mainAt' = After(Head(main), mainAt)
  /\ main' = CASE mainAt' # "call" -> main
               [] mainAt = "control" /\ Head(main) = "start" -> <<"dry", "stabilize">>
               [] OTHER -> Tail(main)
  /\ UNCHANGED <<agenteVars, toClient, toAgente, up, check, checkAt, weather, history>>

\* The call of stabilize() at the end of start_controlling().
MainStabilizes ==
  /\ up
  /\ main = <<"stabilize">>
  /\ LET pass == Stabilize(box, air) IN
       /\ box' = pass.box
       /\ main' = pass.acts
       /\ Remember(pass.box, air, calm)
  /\ UNCHANGED <<agenteVars, toClient, toAgente, up, check, mainAt, checkAt, device,
                 weather, turns>>

\* The process ends a second or more after the last command; a call the check
\* thread is in comes to its end before that.
Close ==
  /\ up
  /\ main = <<"close">> /\ check = <<>>
  /\ up' = FALSE
  /\ main' = <<>>
  /\ UNCHANGED <<agenteVars, toClient, toAgente, box, check, mainAt, checkAt, device,
                 weather, history>>

-----------------------------------------------------------------------------
(* coolingBox_agente *)

Send(commands) == toClient' = toClient \o commands

ClearedTwice(q) == UNION {ClearedAmongOthers(r) : r \in ClearedAmongOthers(q)}

StabilizeTemperature(t) == <<[cmd |-> "START", arg |-> t]>>

PrepareTest ==
  /\ step = "idle" /\ test < NumTests
  /\ test' = test + 1
  /\ step' = "preparing"
  /\ \/ /\ target' \in Targets
        /\ Send(StabilizeTemperature(target'))
        /\ toAgente' \in ClearedTwice(toAgente)
        /\ pending' = TRUE
     \/ /\ target' = CycleTest
        /\ toAgente' \in ClearedAmongOthers(toAgente)
        /\ UNCHANGED <<toClient, pending>>
  /\ UNCHANGED <<asking, repeats, clientVars, device, weather, history>>

\* A cycle test is started; any other test is the business of other agentes.
ExecuteTest ==
  /\ step = "preparing" /\ ~pending
  /\ step' = "executing"
  /\ IF target = CycleTest
       THEN /\ Send(<<Command("CYCLE")>>)
            /\ toAgente' \in ClearedAmongOthers(toAgente)
            /\ pending' = TRUE
       ELSE UNCHANGED <<toClient, toAgente, pending>>
  /\ UNCHANGED <<test, target, asking, repeats, clientVars, device, weather, history>>

\* cleanup_test has nothing to do.
CleanupTest ==
  /\ step = "executing" /\ ~pending
  /\ step' = "idle"
  /\ UNCHANGED <<test, target, pending, asking, repeats, toClient, toAgente,
                 clientVars, device, weather, history>>

\* final_test_cleanup, up to the question to the user ...
FinalTestCleanup ==
  /\ step = "idle" /\ test = NumTests
  /\ step' = "enter"
  /\ target' = Room
  /\ Send(StabilizeTemperature(Room))
  /\ toAgente' \in ClearedAmongOthers(toAgente)
  /\ UNCHANGED <<test, pending, asking, repeats, clientVars, device,
                 weather, history>>

\* ... and from the answer of the user on.
UserEnter ==
  /\ step = "enter"
  /\ step' = "heating"
  /\ Send(<<Command("FINAL_HEAT")>>)
  /\ pending' = TRUE
  /\ UNCHANGED <<test, target, asking, repeats, toAgente, clientVars, device,
                 weather, history>>

\* check_finished asks for the status and waits for the answer.
Ask ==
  /\ step \in {"preparing", "executing", "heating"} /\ pending /\ ~asking
  /\ asking' = TRUE
  /\ toAgente' \in (IF step = "preparing" THEN ClearedTwice(toAgente)
                                         ELSE ClearedAmongOthers(toAgente))
  /\ Send(<<Command("STAT")>>)
  /\ UNCHANGED <<step, test, target, pending, repeats, clientVars, device, weather, history>>

\* check_cycleRunning and checkFinalHeating ask again after ten seconds.
AskAgain ==
  /\ step \in {"executing", "heating"} /\ asking
  /\ TroublesLeft /\ repeats' = repeats + 1
  /\ Send(<<Command("STAT")>>)
  /\ UNCHANGED <<step, test, target, pending, asking, toAgente, clientVars, device,
                 weather, history>>

\* Deviation: 'stable' is looked for anywhere in the answer.
AwaitedAnywhere ==
  CASE step = "preparing" -> {"STABLE", "UNSTABLE"} [] step = "executing" -> {"FINISHED"}
    [] step = "heating" -> {"WAITING"}

Awaited ==
  CASE step = "preparing" -> {"STABLE"} [] step = "executing" -> {"FINISHED"}
    [] step = "heating" -> {"WAITING"}

\* checkFinalHeating begins the final clean-up again when the box does not heat.
HeatingLost(answer) == step = "heating" /\ answer \notin {"WAITING", "FINAL_HEATING"}

\* Only the end of a cycle test is reported other than as a status; a wait for
\* something else passes over it.
Answer ==
  /\ asking /\ toAgente # <<>>
  /\ LET answer == Head(toAgente).says
         again == step = "preparing" /\ answer = "WAITING"
     IN  /\ asking' = (answer = "FINISHED" /\ step # "executing")
         /\ pending' = (pending /\ answer \notin Awaited)
         /\ step' = IF HeatingLost(answer) /\ ~asking' THEN "enter" ELSE step
         /\ Send(CASE again -> StabilizeTemperature(target)
                   [] HeatingLost(answer) /\ ~asking' -> StabilizeTemperature(Room)
                   [] OTHER -> <<>>)
         /\ toAgente' \in (IF again \/ (HeatingLost(answer) /\ ~asking')
                            THEN ClearedAmongOthers(Tail(toAgente)) ELSE {Tail(toAgente)})
  /\ UNCHANGED <<test, target, repeats, clientVars, device, weather, history>>

\* The last wait is over ...
Over ==
  /\ step = "heating" /\ ~pending
  /\ step' = "over"
  /\ UNCHANGED <<test, target, pending, asking, repeats, toClient, toAgente, clientVars,
                 device, weather, history>>

\* ... and the client is asked to end.
RequestClientExit ==
  /\ step = "over"
  /\ step' = "exited"
  /\ Send(<<Command("EXIT")>>)
  /\ UNCHANGED <<test, target, pending, asking, repeats, toAgente, clientVars, device,
                 weather, history>>

\* Or the campaign is given up, by Ctrl-C or by an error of another agente (this
\* one raises none), and the client is asked to end.
GiveUp ==
  /\ step \notin Ends
  /\ TroublesLeft /\ upsets' = upsets + 1
  /\ step' = "stopped"
  /\ asking' = FALSE
  /\ Send(<<Command("EXIT")>>)
  /\ UNCHANGED <<test, target, pending, repeats, toAgente, clientVars, device, air, history>>

-----------------------------------------------------------------------------
Terminating == ~up /\ step \in {"exited", "stopped"} /\ UNCHANGED vars

Agente ==
  \/ PrepareTest \/ ExecuteTest \/ CleanupTest \/ FinalTestCleanup
  \/ Ask \/ Answer \/ Over \/ RequestClientExit
MainLoop ==
  Start \/ Cycle \/ FinalHeat \/ Stat \/ Exit \/ MainActs \/ MainStabilizes \/ Close
CheckThread == CheckStatus \/ CheckActs

Next == Agente \/ AskAgain \/ UserEnter \/ GiveUp \/ MainLoop \/ CheckThread \/ Terminating

Spec == Init /\ [][Next]_vars

\* Every loop of the two programs polls; neither thread of the client waits for
\* the other.  The user may never come back.
FairSpec == Spec /\ WF_vars(Agente) /\ WF_vars(MainLoop) /\ WF_vars(CheckThread)

-----------------------------------------------------------------------------
\* The preparation of a test at a temperature is ended only by an answer that
\* the box gave when it was set to that temperature and had kept it for the whole
\* of timeUntillStable: no answer from before is taken for the present one
\* (unless a question was repeated), and no interruption goes unnoticed (unless
\* the box was wet after it had reached the temperature: while it is flushed
\* again, stabilize() does not look at the temperature).
PreparedAtTarget ==
  [][(step = "preparing" /\ pending /\ ~pending')
       => /\ Head(toAgente).at = target \/ repeats > 0
          /\ Head(toAgente).kept]_vars

\* The end of a cycle test is reported only when the box has been through all
\* the cycles, whatever flushing and drifts came in between.
AllCyclesDone ==
  [][(toAgente' = Append(toAgente, Reply("FINISHED")))
       => turns > 2 * NumCycles]_vars

\* A campaign that has come to its end leaves the box off, although main and
\* check thread may both have been about to drive it - as long as no question
\* was repeated, that is, every answer came within ten seconds.  (A late
\* UNSTABLE has the final clean-up begin again; its commands drive the box while
\* the check thread is inside stop_controlling(), and what the two calls write
\* to the box, one over the other, stays.)
OffAfterCampaign == step = "exited" /\ ~up /\ repeats = 0
                      => device = [controllers |-> "off", contacts |-> "off"]

\* The end of a cycle test is reported once: a question that was repeated may
\* have taken the report, and the answers to come are those of a box that cycles
\* no more.
ReportLost == repeats > 0 /\ step = "executing" /\ ~box.doCycle

DeviceOf(status) ==
  CASE status = "unknown" -> [controllers |-> "off", contacts |-> "off"]
    [] status = "flushing" -> [controllers |-> "off", contacts |-> "flushing"]
    [] status = "cooling" -> [controllers |-> "cooling", contacts |-> "cooling"]
    [] OTHER -> [controllers |-> "heating", contacts |-> "heating"]

\* Two calls that overlapped have left the device in another state than the
\* status says.
Mixed == main = <<>> /\ check = <<>> /\ device # DeviceOf(box.status)

\* No wait goes on for ever: the box reaches and keeps the temperature of a
\* test, a cycle test is reported as finished, and the final heating ends or the
\* user is asked again.  It takes one of two faults of the code to prevent that:
\* a lost report, or calls of the two threads that overlap and disagree, again
\* and again or, since cooling() and heating() believe the status, once for all.
WaitsEnd ==
  []<>(step \notin {"preparing", "executing", "heating"} \/ ReportLost \/ Mixed)
=============================================================================
