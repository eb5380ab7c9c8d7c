----------------------------- MODULE XrayProofs -----------------------------
(***************************************************************************)
(* Proofs about the x-ray part.                                            *)
(*                                                                         *)
(* The invariants of the runs are not inductive: that a test finds what it *)
(* asked for rests on the commands in the channel, on what the client took *)
(* over from those it has worked off, and on the errors that have not been *)
(* read.  The inductive invariant says so for each of them.                *)
(*                                                                         *)
(*   Dialogue   FINISHED is the last command; the agente is pending until  *)
(*              its echo is read, and nothing waits between two phases     *)
(*   Settings   what the agente asked for last is in the queue or is set,  *)
(*              as long as no ERROR has come                               *)
(*   Calm       an error answers a command, before the echo                *)
(*   Requested  a test goes by its environment                             *)
(*   Placing    the target asked for last is in the queue or is reached    *)
(*   Ending     the high voltage goes off at the end, or an ERROR waits    *)
(*   Beam       the open shutter is the one the client uses; the orders to *)
(*              the shutters are what the agente wants                     *)
(*                                                                         *)
(* Beam needs the shutters to be found closed when the client starts       *)
(* (LeftOpen = {}): the client never asks which of them is open.           *)
(***************************************************************************)
EXTENDS Xray, DataLemmas, SequenceTheorems, FiniteSetTheorems, TLAPS

-----------------------------------------------------------------------------
(* Commands *)

LEMMA Commands ==
  /\ FINISHED \in Command /\ EXIT \in Command
  /\ FINISHED.cmd = "FINISHED" /\ EXIT.cmd = "EXIT"
  /\ \A e \in Environments :
       /\ Set("VOLTAGE", e.voltage) \in Command
       /\ Set("CURRENT", e.current) \in Command
       /\ Set("TARGET", e.target) \in Command
  /\ \A b \in BOOLEAN : Set("HV", b) \in Command /\ Set("BEAM", b) \in Command
  /\ \A w, v : Set(w, v).cmd = w /\ Set(w, v).arg = v
<1>1. FINISHED \in Command /\ EXIT \in Command
  BY DEF FINISHED, EXIT, Command
<1>2. FINISHED.cmd = "FINISHED" /\ EXIT.cmd = "EXIT"
  BY DEF FINISHED, EXIT
<1>3. \A w, v : Set(w, v).cmd = w /\ Set(w, v).arg = v
  BY DEF Set
<1>4. ASSUME NEW e \in Environments
      PROVE  /\ Set("VOLTAGE", e.voltage) \in Command
             /\ Set("CURRENT", e.current) \in Command
             /\ Set("TARGET", e.target) \in Command
  <2>1. e.voltage \in Voltages /\ e.current \in Currents /\ e.target \in Labels
    BY DEF Voltages, Currents, Labels
  <2> QED
    BY <2>1 DEF Set, Command
<1>5. ASSUME NEW b \in BOOLEAN
      PROVE  Set("HV", b) \in Command /\ Set("BEAM", b) \in Command
  BY DEF Set, Command
<1> QED
  BY <1>1, <1>2, <1>3, <1>4, <1>5

\* A command of the kind w with the value v that is sent under a condition: the
\* queue has it, or is empty.
Option(q, w, v) ==
  /\ q \in Seq(Command)
  /\ Args(q, w) = IF q = << >> THEN {} ELSE {v}
  /\ \A u : u # w => Args(q, u) = {}
  /\ \A u : Once(q, u)

LEMMA QueueOption ==
  ASSUME NEW x \in Command, NEW q, q = << >> \/ q = <<x>>
  PROVE  Option(q, x.cmd, x.arg)
<1>1. CASE q = << >>
  BY <1>1, QueueEmpty DEF Option
<1>2. CASE q = <<x>>
  <2>1. q # << >>
    BY <1>2
  <2> QED
    BY <1>2, <2>1, QueueOfOne DEF Option
<1> QED
  BY <1>1, <1>2

\* The commands of prepare_test for a test with x-rays: what differs from what
\* was asked for before.
LEMMA PreparationWith ==
  ASSUME NEW e \in Environments, e.xray
  PROVE  /\ Preparation(e) \in Seq(Command)
         /\ Args(Preparation(e), "VOLTAGE") =
              IF e.voltage # asked.voltage THEN {e.voltage} ELSE {}
         /\ Args(Preparation(e), "CURRENT") =
              IF e.current # asked.current THEN {e.current} ELSE {}
         /\ Args(Preparation(e), "TARGET") =
              IF e.target # asked.target THEN {e.target} ELSE {}
         /\ Args(Preparation(e), "HV") = IF hvon THEN {} ELSE {TRUE}
         /\ Args(Preparation(e), "BEAM") = IF beamon # TRUE THEN {TRUE} ELSE {}
         /\ Args(Preparation(e), "FINISHED") = {}
         /\ Once(Preparation(e), "TARGET") /\ Once(Preparation(e), "BEAM")
<1> DEFINE a1 == If(e.voltage # asked.voltage, Set("VOLTAGE", e.voltage))
           a2 == If(e.current # asked.current, Set("CURRENT", e.current))
           a3 == If(e.target # asked.target, Set("TARGET", e.target))
           a4 == If(~hvon, Set("HV", TRUE))
           a5 == If(beamon # TRUE, Set("BEAM", TRUE))
           b2 == a1 \o a2
           b3 == b2 \o a3
           b4 == b3 \o a4
           b5 == b4 \o a5
<1>1. Option(a1, "VOLTAGE", e.voltage) /\ (a1 = << >> <=> ~(e.voltage # asked.voltage))
  <2> DEFINE x == Set("VOLTAGE", e.voltage)
  <2>1. x \in Command /\ x.cmd = "VOLTAGE" /\ x.arg = e.voltage
    BY Commands
  <2> HIDE DEF x
  <2>2. <<x>> # << >>
    OBVIOUS
  <2>3. a1 = IF e.voltage # asked.voltage THEN <<x>> ELSE << >>
    BY DEF If, x
  <2> HIDE DEF a1
  <2>4. a1 = <<x>> \/ a1 = << >>
    BY <2>3
  <2>5. a1 = << >> <=> ~(e.voltage # asked.voltage)
    BY <2>2, <2>3
  <2>6. Option(a1, x.cmd, x.arg)
    BY <2>1, <2>4, QueueOption
  <2> QED
    BY <2>1, <2>5, <2>6
<1>2. Option(a2, "CURRENT", e.current) /\ (a2 = << >> <=> ~(e.current # asked.current))
  <2> DEFINE x == Set("CURRENT", e.current)
  <2>1. x \in Command /\ x.cmd = "CURRENT" /\ x.arg = e.current
    BY Commands
  <2> HIDE DEF x
  <2>2. <<x>> # << >>
    OBVIOUS
  <2>3. a2 = IF e.current # asked.current THEN <<x>> ELSE << >>
    BY DEF If, x
  <2> HIDE DEF a2
  <2>4. a2 = <<x>> \/ a2 = << >>
    BY <2>3
  <2>5. a2 = << >> <=> ~(e.current # asked.current)
    BY <2>2, <2>3
  <2>6. Option(a2, x.cmd, x.arg)
    BY <2>1, <2>4, QueueOption
  <2> QED
    BY <2>1, <2>5, <2>6
<1>3. Option(a3, "TARGET", e.target) /\ (a3 = << >> <=> ~(e.target # asked.target))
  <2> DEFINE x == Set("TARGET", e.target)
  <2>1. x \in Command /\ x.cmd = "TARGET" /\ x.arg = e.target
    BY Commands
  <2> HIDE DEF x
  <2>2. <<x>> # << >>
    OBVIOUS
  <2>3. a3 = IF e.target # asked.target THEN <<x>> ELSE << >>
    BY DEF If, x
  <2> HIDE DEF a3
  <2>4. a3 = <<x>> \/ a3 = << >>
    BY <2>3
  <2>5. a3 = << >> <=> ~(e.target # asked.target)
    BY <2>2, <2>3
  <2>6. Option(a3, x.cmd, x.arg)
    BY <2>1, <2>4, QueueOption
  <2> QED
    BY <2>1, <2>5, <2>6
<1>4. Option(a4, "HV", TRUE) /\ (a4 = << >> <=> ~(~hvon))
  <2> DEFINE x == Set("HV", TRUE)
  <2>1. x \in Command /\ x.cmd = "HV" /\ x.arg = TRUE
    BY Commands
  <2> HIDE DEF x
  <2>2. <<x>> # << >>
    OBVIOUS
  <2>3. a4 = IF ~hvon THEN <<x>> ELSE << >>
    BY DEF If, x
  <2> HIDE DEF a4
  <2>4. a4 = <<x>> \/ a4 = << >>
    BY <2>3
  <2>5. a4 = << >> <=> ~(~hvon)
    BY <2>2, <2>3
  <2>6. Option(a4, x.cmd, x.arg)
    BY <2>1, <2>4, QueueOption
  <2> QED
    BY <2>1, <2>5, <2>6
<1>5. Option(a5, "BEAM", TRUE) /\ (a5 = << >> <=> ~(beamon # TRUE))
  <2> DEFINE x == Set("BEAM", TRUE)
  <2>1. x \in Command /\ x.cmd = "BEAM" /\ x.arg = TRUE
    BY Commands
  <2> HIDE DEF x
  <2>2. <<x>> # << >>
    OBVIOUS
  <2>3. a5 = IF beamon # TRUE THEN <<x>> ELSE << >>
    BY DEF If, x
  <2> HIDE DEF a5
  <2>4. a5 = <<x>> \/ a5 = << >>
    BY <2>3
  <2>5. a5 = << >> <=> ~(beamon # TRUE)
    BY <2>2, <2>3
  <2>6. Option(a5, x.cmd, x.arg)
    BY <2>1, <2>4, QueueOption
  <2> QED
    BY <2>1, <2>5, <2>6
<1>6. Preparation(e) = b5
  BY DEF Preparation, BeamMissing
<1> HIDE DEF a1, a2, a3, a4, a5
<1> USE DEF Option
<1>7. /\ b2 \in Seq(Command)
      /\ \A u : Args(b2, u) = Args(a1, u) \union Args(a2, u)
      /\ Once(b2, "TARGET") /\ Once(b2, "BEAM")
  BY <1>1, <1>2, QueueJoined
<1> HIDE DEF b2
<1>8. /\ b3 \in Seq(Command)
      /\ \A u : Args(b3, u) = Args(b2, u) \union Args(a3, u)
      /\ Once(b3, "TARGET") /\ Once(b3, "BEAM")
  <2>1. Args(b2, "TARGET") = {} /\ Args(b2, "BEAM") = {}
    BY <1>1, <1>2, <1>7
  <2> QED
    BY <1>3, <1>7, <2>1, QueueJoined
<1> HIDE DEF b3
<1>9. /\ b4 \in Seq(Command)
      /\ \A u : Args(b4, u) = Args(b3, u) \union Args(a4, u)
      /\ Once(b4, "TARGET") /\ Once(b4, "BEAM")
  <2>1. Args(a4, "TARGET") = {} /\ Args(a4, "BEAM") = {}
    BY <1>4
  <2> QED
    BY <1>4, <1>8, <2>1, QueueJoined
<1> HIDE DEF b4
<1>10. /\ b5 \in Seq(Command)
       /\ \A u : Args(b5, u) = Args(b4, u) \union Args(a5, u)
       /\ Once(b5, "TARGET") /\ Once(b5, "BEAM")
  <2>1. Args(a5, "TARGET") = {}
    BY <1>5
  <2>2. Args(b4, "BEAM") = {}
    BY ZenonT(30), <1>1, <1>2, <1>3, <1>4, <1>7, <1>8, <1>9
  <2> QED
    BY <1>5, <1>9, <2>1, <2>2, QueueJoined
<1> HIDE DEF b5
<1>11. \A u : Args(b5, u) = Args(a1, u) \union Args(a2, u) \union Args(a3, u)
                              \union Args(a4, u) \union Args(a5, u)
  BY <1>7, <1>8, <1>9, <1>10
<1>12. /\ Args(b5, "VOLTAGE") = Args(a1, "VOLTAGE")
       /\ Args(b5, "CURRENT") = Args(a2, "CURRENT")
       /\ Args(b5, "TARGET") = Args(a3, "TARGET")
       /\ Args(b5, "HV") = Args(a4, "HV")
       /\ Args(b5, "BEAM") = Args(a5, "BEAM")
       /\ Args(b5, "FINISHED") = {}
  BY ZenonT(30), <1>1, <1>2, <1>3, <1>4, <1>5, <1>11
<1> QED
  BY <1>1, <1>2, <1>3, <1>4, <1>5, <1>6, <1>10, <1>12

\* The commands of prepare_test for a test without x-rays.
LEMMA PreparationWithout ==
  ASSUME NEW e \in Environments, ~e.xray
  PROVE  /\ Preparation(e) \in Seq(Command)
         /\ Args(Preparation(e), "VOLTAGE") = {}
         /\ Args(Preparation(e), "CURRENT") = {}
         /\ Args(Preparation(e), "TARGET") = {}
         /\ Args(Preparation(e), "HV") = IF hvon /\ conf.turnOffHV THEN {FALSE} ELSE {}
         /\ Args(Preparation(e), "BEAM") = IF beamon # FALSE THEN {FALSE} ELSE {}
         /\ Args(Preparation(e), "FINISHED") = {}
         /\ Once(Preparation(e), "TARGET") /\ Once(Preparation(e), "BEAM")
<1> DEFINE a1 == If(beamon # FALSE, Set("BEAM", FALSE))
           a2 == If(hvon /\ conf.turnOffHV, Set("HV", FALSE))
<1>1. Option(a1, "BEAM", FALSE) /\ (a1 = << >> <=> ~(beamon # FALSE))
  <2> DEFINE x == Set("BEAM", FALSE)
  <2>1. x \in Command /\ x.cmd = "BEAM" /\ x.arg = FALSE
    BY Commands
  <2> HIDE DEF x
  <2>2. <<x>> # << >>
    OBVIOUS
  <2>3. a1 = IF beamon # FALSE THEN <<x>> ELSE << >>
    BY DEF If, x
  <2> HIDE DEF a1
  <2>4. a1 = <<x>> \/ a1 = << >>
    BY <2>3
  <2>5. a1 = << >> <=> ~(beamon # FALSE)
    BY <2>2, <2>3
  <2>6. Option(a1, x.cmd, x.arg)
    BY <2>1, <2>4, QueueOption
  <2> QED
    BY <2>1, <2>5, <2>6
<1>2. Option(a2, "HV", FALSE) /\ (a2 = << >> <=> ~(hvon /\ conf.turnOffHV))
  <2> DEFINE x == Set("HV", FALSE)
  <2>1. x \in Command /\ x.cmd = "HV" /\ x.arg = FALSE
    BY Commands
  <2> HIDE DEF x
  <2>2. <<x>> # << >>
    OBVIOUS
  <2>3. a2 = IF hvon /\ conf.turnOffHV THEN <<x>> ELSE << >>
    BY DEF If, x
  <2> HIDE DEF a2
  <2>4. a2 = <<x>> \/ a2 = << >>
    BY <2>3
  <2>5. a2 = << >> <=> ~(hvon /\ conf.turnOffHV)
    BY <2>2, <2>3
  <2>6. Option(a2, x.cmd, x.arg)
    BY <2>1, <2>4, QueueOption
  <2> QED
    BY <2>1, <2>5, <2>6
<1>3. Preparation(e) = a1 \o a2
  BY DEF Preparation
<1> HIDE DEF a1, a2
<1> USE DEF Option
<1>4. /\ a1 \o a2 \in Seq(Command)
      /\ \A u : Args(a1 \o a2, u) = Args(a1, u) \union Args(a2, u)
      /\ Once(a1 \o a2, "TARGET") /\ Once(a1 \o a2, "BEAM")
  BY <1>1, <1>2, QueueJoined
<1> QED
  BY <1>1, <1>2, <1>3, <1>4

\* What a command carries.
LEMMA CommandTypes ==
  ASSUME NEW c \in Command
  PROVE  /\ c.cmd \in {"VOLTAGE", "CURRENT", "TARGET", "HV", "BEAM", "FINISHED", "EXIT"}
         /\ c.cmd = "VOLTAGE" => c.arg \in Voltages
         /\ c.cmd = "CURRENT" => c.arg \in Currents
         /\ c.cmd = "TARGET" => c.arg \in Labels
         /\ c.cmd = "HV" => c.arg \in BOOLEAN
         /\ c.cmd = "BEAM" => c.arg \in BOOLEAN
BY DEF Command, FINISHED, EXIT

\* A phase that starts with a question: the commands, and FINISHED behind them.
LEMMA CommandsSent ==
  /\ \A e \in Environments : Preparation(e) \in Seq(Command)
                             /\ Args(Preparation(e), "FINISHED") = {}
  /\ <<Set("BEAM", FALSE)>> \in Seq(Command)
  /\ Args(<<Set("BEAM", FALSE)>>, "FINISHED") = {}
  /\ FinalCommands \in Seq(Command)
  /\ Args(FinalCommands, "FINISHED") = {}
  /\ Args(FinalCommands, "HV") = IF conf.turnOffHV THEN {FALSE} ELSE {}
  /\ Args(FinalCommands, "BEAM") = {FALSE}
  /\ \A w \in {"VOLTAGE", "CURRENT", "TARGET"} : Args(FinalCommands, w) = {}
  /\ Once(FinalCommands, "BEAM") /\ Once(FinalCommands, "TARGET")
<1>1. \A e \in Environments : Preparation(e) \in Seq(Command)
                             /\ Args(Preparation(e), "FINISHED") = {}
  BY PreparationWith, PreparationWithout
<1> DEFINE b == <<Set("BEAM", FALSE)>>
           h == If(conf.turnOffHV, Set("HV", FALSE))
<1>2. Option(b, "BEAM", FALSE) /\ b # << >>
  <2> DEFINE x == Set("BEAM", FALSE)
  <2>1. x \in Command /\ x.cmd = "BEAM" /\ x.arg = FALSE
    BY Commands
  <2>2. b = <<x>>
    OBVIOUS
  <2> HIDE DEF x, b
  <2>3. Option(b, x.cmd, x.arg)
    BY <2>1, <2>2, QueueOption
  <2> QED
    BY <2>1, <2>2, <2>3
<1>3. Option(h, "HV", FALSE) /\ (h = << >> <=> ~conf.turnOffHV)
  <2> DEFINE x == Set("HV", FALSE)
  <2>1. x \in Command /\ x.cmd = "HV" /\ x.arg = FALSE
    BY Commands
  <2> HIDE DEF x
  <2>2. <<x>> # << >>
    OBVIOUS
  <2>3. h = IF conf.turnOffHV THEN <<x>> ELSE << >>
    BY DEF If, x
  <2> HIDE DEF h
  <2>4. h = <<x>> \/ h = << >>
    BY <2>3
  <2>5. h = << >> <=> ~conf.turnOffHV
    BY <2>2, <2>3
  <2>6. Option(h, x.cmd, x.arg)
    BY <2>1, <2>4, QueueOption
  <2> QED
    BY <2>1, <2>5, <2>6
<1>4. FinalCommands = b \o h
  BY DEF FinalCommands
<1>5. b = <<Set("BEAM", FALSE)>>
  OBVIOUS
<1> HIDE DEF b, h
<1>6. /\ b \o h \in Seq(Command)
      /\ \A u : Args(b \o h, u) = Args(b, u) \union Args(h, u)
      /\ Once(b \o h, "TARGET") /\ Once(b \o h, "BEAM")
  BY <1>2, <1>3, QueueJoined DEF Option
<1> QED
  BY <1>1, <1>2, <1>3, <1>4, <1>5, <1>6 DEF Option

-----------------------------------------------------------------------------
(* Types *)

\* How the client keeps to the types.
LEMMA ExecuteTypes ==
  ASSUME TypeOK, Execute
  PROVE  /\ toClient' \in Seq(Command)
         /\ toAgente' \in Seq({"FINISHED", "ERROR"})
         /\ up' \in BOOLEAN /\ beamed' \in BOOLEAN
         /\ shutter' \in {1, 3}
         /\ saved' \in [voltage : Voltages, current : Currents, hv : BOOLEAN]
         /\ device' \in [voltage : Voltages, current : Currents, hv : BOOLEAN]
         /\ position' \in Targets \union {None}
         /\ open' \subseteq {1, 3}
         /\ faults' \in 0..MaxFaults
<1> DEFINE c == Head(toClient)
<1>1. toClient \in Seq(Command) /\ toClient # << >>
  BY DEF TypeOK, Execute
<1>2. c \in Command /\ Tail(toClient) \in Seq(Command)
  BY <1>1, QueueTail
<1>3. toClient' \in Seq(Command)
  BY <1>2 DEF Execute
<1>4. \/ (SetQuantity(c) \/ SetBeam(c) \/ SetTarget(c) \/ Echo(c)) /\ up' = up
      \/ up' = FALSE
         /\ UNCHANGED <<toAgente, device, position, open, saved, shutter, beamed, faults>>
  BY DEF Execute
<1> HIDE DEF c
<1>5. /\ toAgente \in Seq({"FINISHED", "ERROR"})
      /\ up \in BOOLEAN /\ beamed \in BOOLEAN /\ shutter \in {1, 3}
      /\ saved \in [voltage : Voltages, current : Currents, hv : BOOLEAN]
      /\ device \in [voltage : Voltages, current : Currents, hv : BOOLEAN]
      /\ position \in Targets \union {None} /\ open \subseteq {1, 3}
      /\ faults \in 0..MaxFaults
  BY DEF TypeOK
<1>6. \A p \in {"FINISHED", "ERROR"} : Append(toAgente, p) \in Seq({"FINISHED", "ERROR"})
  BY <1>5, AppendProperties
<1>7. MaxFaults \in Nat
  BY XrayAssumption
<1>8. ASSUME NEW done \in BOOLEAN, Outcome(done), Report(done)
      PROVE  toAgente' \in Seq({"FINISHED", "ERROR"}) /\ faults' \in 0..MaxFaults
  <2>1. CASE done
    BY <2>1, <1>5, <1>8 DEF Report
  <2>2. CASE ~done
    BY <2>2, <1>5, <1>6, <1>7, <1>8 DEF Report, Outcome
  <2> QED
    BY <2>1, <2>2
<1>9. CASE SetQuantity(c) /\ up' = up
  <2>1. PICK done \in BOOLEAN :
          /\ Outcome(done) /\ Report(done)
          /\ IF done
               THEN /\ device' = [device EXCEPT ![Quantity(c.cmd)] = c.arg]
                    /\ saved' = [saved EXCEPT ![Quantity(c.cmd)] = c.arg]
               ELSE /\ \/ device' = device
                       \/ c.cmd = "HV" /\ c.arg /\ device' = [device EXCEPT !.hv = FALSE]
                    /\ UNCHANGED saved
    BY <1>9 DEF SetQuantity
  <2>2. UNCHANGED <<position, open, shutter, beamed, up>>
    BY <1>9 DEF SetQuantity
  <2>3. CASE c.cmd = "VOLTAGE"
    <3>1. Quantity(c.cmd) = "voltage" /\ c.arg \in Voltages
      BY <2>3, <1>2, CommandTypes DEF Quantity
    <3>2. /\ saved' \in [voltage : Voltages, current : Currents, hv : BOOLEAN]
          /\ device' \in [voltage : Voltages, current : Currents, hv : BOOLEAN]
      BY <2>1, <2>3, <3>1, <1>5
    <3> QED
      BY <1>3, <1>5, <1>8, <2>1, <2>2, <3>2
  <2>4. CASE c.cmd = "CURRENT"
    <3>1. Quantity(c.cmd) = "current" /\ c.arg \in Currents
      BY <2>4, <1>2, CommandTypes DEF Quantity
    <3>2. /\ saved' \in [voltage : Voltages, current : Currents, hv : BOOLEAN]
          /\ device' \in [voltage : Voltages, current : Currents, hv : BOOLEAN]
      BY <2>1, <2>4, <3>1, <1>5
    <3> QED
      BY <1>3, <1>5, <1>8, <2>1, <2>2, <3>2
  <2>5. CASE c.cmd = "HV"
    <3>1. Quantity(c.cmd) = "hv" /\ c.arg \in BOOLEAN
      BY <2>5, <1>2, CommandTypes DEF Quantity
    <3>2. /\ saved' \in [voltage : Voltages, current : Currents, hv : BOOLEAN]
          /\ device' \in [voltage : Voltages, current : Currents, hv : BOOLEAN]
      BY <2>1, <2>5, <3>1, <1>5
    <3> QED
      BY <1>3, <1>5, <1>8, <2>1, <2>2, <3>2
  <2> QED
    BY <1>9, <2>3, <2>4, <2>5 DEF SetQuantity
<1>10. CASE SetBeam(c) /\ up' = up
  <2>1. PICK done \in BOOLEAN :
          /\ Outcome(done) /\ Report(done)
          /\ IF done
               THEN /\ open' = IF c.arg THEN open \union {shutter} ELSE open \ {shutter}
                    /\ beamed' = (beamed \/ c.arg)
               ELSE UNCHANGED <<open, beamed>>
    BY <1>10 DEF SetBeam
  <2>2. UNCHANGED <<device, position, saved, shutter, up>>
    BY <1>10 DEF SetBeam
  <2>3. open' \subseteq {1, 3}
    BY <2>1, <1>5
  <2>4. beamed' \in BOOLEAN
    BY <2>1, <1>5, Zenon
  <2> QED
    BY <1>3, <1>5, <1>8, <2>1, <2>2, <2>3, <2>4
<1>11. CASE SetTarget(c) /\ up' = up
  <2>1. position' = PositionOf(c.arg) /\ shutter' = ShutterOf(c.arg)
        /\ UNCHANGED <<device, saved, beamed, up>>
    BY <1>11 DEF SetTarget
  <2>2. position' \in Targets \union {None} /\ shutter' \in {1, 3}
    BY <2>1, <1>5 DEF PositionOf, ShutterOf
  <2>3. CASE shutter' # shutter /\ beamed
    <3>1. PICK closed \in BOOLEAN, opened \in BOOLEAN :
            /\ Outcome(closed /\ opened)
            /\ Report(closed /\ opened)
            /\ open' = ChangeOver(closed, opened, shutter')
      BY <1>11, <2>3 DEF SetTarget
    <3>2. open' \subseteq {1, 3}
      BY <3>1, <2>2, <1>5 DEF ChangeOver
    <3>3. (closed /\ opened) \in BOOLEAN
      OBVIOUS
    <3>4. toAgente' \in Seq({"FINISHED", "ERROR"}) /\ faults' \in 0..MaxFaults
      BY <3>1, <3>3, <1>8, Zenon
    <3> QED
      BY <1>3, <1>5, <2>1, <2>2, <3>2, <3>4
  <2>4. CASE ~(shutter' # shutter /\ beamed)
    <3>1. UNCHANGED <<open, faults, toAgente>>
      BY <1>11, <2>4 DEF SetTarget
    <3> QED
      BY <1>3, <1>5, <2>1, <2>2, <3>1
  <2> QED
    BY <2>3, <2>4
<1>12. CASE Echo(c) /\ up' = up
  BY <1>12, <1>3, <1>5, <1>6 DEF Echo, Answer
<1>13. CASE up' = FALSE
            /\ UNCHANGED <<toAgente, device, position, open, saved, shutter, beamed, faults>>
  BY <1>13, <1>3, <1>5
<1> QED
  BY <1>4, <1>9, <1>10, <1>11, <1>12, <1>13

LEMMA InitTypes ==
  ASSUME Init
  PROVE  TypeOK
<1>1. toClient \in Seq(Command) /\ toAgente \in Seq({"FINISHED", "ERROR"})
  BY QueueEmpty DEF Init
<1>2. open \subseteq {1, 3}
  BY XrayAssumption DEF Init
<1>3. test \in 0..NumTests /\ trips \in 0..MaxTrips /\ faults \in 0..MaxFaults
  BY XrayAssumption DEF Init
<1>4. asked \in [voltage : Voltages \union {None}, current : Currents \union {None},
                target : Labels \union {None}]
  BY DEF Init
<1>5. hvon \in BOOLEAN /\ pending \in BOOLEAN /\ finished \in BOOLEAN
      /\ up \in BOOLEAN /\ beamed \in BOOLEAN /\ beamon \in BOOLEAN \union {None}
  BY DEF Init
<1>6. /\ conf \in [turnOffHV : BOOLEAN, beamOffBetween : BOOLEAN]
      /\ step \in Steps
      /\ env \in Environments
      /\ shutter \in {1, 3}
      /\ saved \in [voltage : Voltages, current : Currents, hv : BOOLEAN]
      /\ device \in [voltage : Voltages, current : Currents, hv : BOOLEAN]
      /\ position \in Targets \union {None}
  BY DEF Init, Steps
<1> QED
  BY <1>1, <1>2, <1>3, <1>4, <1>5, <1>6 DEF TypeOK

\* The question behind the commands.
LEMMA Asked ==
  ASSUME TypeOK, NEW commands \in Seq(Command), SetPending(commands)
  PROVE  toClient' \in Seq(Command) /\ pending' = TRUE /\ finished' = FALSE
<1>1. <<FINISHED>> \in Seq(Command)
  BY Commands, QueueOfOne
<1>2. commands \o <<FINISHED>> \in Seq(Command)
  BY <1>1, QueueJoined
<1>3. toClient \o commands \in Seq(Command)
  BY QueueJoined DEF TypeOK
<1>4. (toClient \o commands) \o <<FINISHED>> \in Seq(Command)
  BY <1>1, <1>3, QueueJoined
<1> QED
  BY <1>4 DEF SetPending

LEMMA NextTypes ==
  ASSUME TypeOK, [Next]_vars
  PROVE  TypeOK'
<1> USE DEF TypeOK
<1>1. CASE PrepareTest
  <2>1. PICK e \in Environments :
          /\ env' = e
          /\ SetPending(Preparation(e))
          /\ asked' = IF e.xray
                        THEN [voltage |-> e.voltage, current |-> e.current,
                              target |-> e.target]
                        ELSE asked
          /\ hvon' = (e.xray \/ (hvon /\ ~conf.turnOffHV))
          /\ beamon' = e.xray
    BY <1>1 DEF PrepareTest
  <2>2. toClient' \in Seq(Command) /\ pending' \in BOOLEAN /\ finished' \in BOOLEAN
    BY <2>1, CommandsSent, Asked
  <2>3. asked' \in [voltage : Voltages \union {None}, current : Currents \union {None},
                    target : Labels \union {None}]
    BY <2>1 DEF Voltages, Currents, Labels
  <2>4. hvon' \in BOOLEAN
    BY <2>1, Zenon
  <2>5. beamon' \in BOOLEAN \union {None}
    BY <2>1, XrayAssumption
  <2>6. test' \in 0..NumTests /\ step' \in Steps
    BY <1>1, XrayAssumption DEF PrepareTest, Steps, Waits
  <2>7. UNCHANGED <<toAgente, conf, clientVars, deviceVars>>
    BY <1>1 DEF PrepareTest
  <2> QED
    BY <2>1, <2>2, <2>3, <2>4, <2>5, <2>6, <2>7 DEF clientVars, deviceVars
<1>2. CASE PhaseOver
  BY <1>2 DEF PhaseOver, dialogue, clientVars, deviceVars, Steps, Waits
<1>3. CASE CleanupTest
  <2>1. UNCHANGED <<test, env, asked, hvon, toAgente, conf, clientVars, deviceVars>>
        /\ step' \in Steps
    BY <1>3 DEF CleanupTest, Steps, Waits
  <2>2. CASE SetPending(<<Set("BEAM", FALSE)>>) /\ beamon' = FALSE
    <3>1. toClient' \in Seq(Command) /\ pending' \in BOOLEAN /\ finished' \in BOOLEAN
      BY <2>2, CommandsSent, Asked
    <3>2. beamon' \in BOOLEAN \union {None}
      BY <2>2
    <3> QED
      BY <2>1, <3>1, <3>2 DEF clientVars, deviceVars
  <2>3. CASE finished' = FALSE /\ UNCHANGED <<toClient, pending, beamon>>
    <3>1. finished' \in BOOLEAN /\ pending' \in BOOLEAN
          /\ beamon' \in BOOLEAN \union {None} /\ toClient' \in Seq(Command)
      BY <2>3
    <3> QED
      BY <2>1, <3>1 DEF clientVars, deviceVars
  <2> QED
    BY <1>3, <2>2, <2>3 DEF CleanupTest
<1>4. CASE FinalTestCleanup
  <2>1. UNCHANGED <<test, env, asked, hvon, beamon, toAgente, conf, clientVars, deviceVars>>
        /\ step' \in Steps
    BY <1>4 DEF FinalTestCleanup, Steps, Waits
  <2>2. toClient' \in Seq(Command) /\ pending' \in BOOLEAN /\ finished' \in BOOLEAN
    BY <1>4, CommandsSent, Asked DEF FinalTestCleanup
  <2> QED
    BY <2>1, <2>2 DEF clientVars, deviceVars
<1>5. CASE CheckFinished
  <2>1. UNCHANGED <<test, env, asked, hvon, beamon, toClient, conf, clientVars, deviceVars>>
    BY <1>5 DEF CheckFinished
  <2>2. CASE \E i \in DOMAIN toAgente : toAgente[i] = "ERROR"
    <3>1. PICK first :
            /\ first = CHOOSE i \in DOMAIN toAgente :
                          /\ toAgente[i] = "ERROR"
                          /\ \A j \in 1..(i - 1) : toAgente[j] # "ERROR"
            /\ step' = "failed"
            /\ pending' = FALSE
            /\ toAgente' = SubSeq(toAgente, first + 1, Len(toAgente))
            /\ UNCHANGED finished
      BY <1>5, <2>2 DEF CheckFinished
    <3>2. first \in DOMAIN toAgente
      <4> DEFINE S == {i \in DOMAIN toAgente : toAgente[i] = "ERROR"}
      <4>1. S # {} /\ S \subseteq Nat
        BY <2>2
      <4>2. PICK i \in S : \A j \in S : i <= j
        BY <4>1, LeastNumber
      <4>3. i \in 1..Len(toAgente) /\ DOMAIN toAgente = 1..Len(toAgente)
            /\ Len(toAgente) \in Nat
        BY <4>2, LenProperties
      <4>4. \A j \in 1..(i - 1) : j \in DOMAIN toAgente /\ ~(i <= j)
        BY <4>3
      <4>5. /\ i \in DOMAIN toAgente
            /\ toAgente[i] = "ERROR"
            /\ \A j \in 1..(i - 1) : toAgente[j] # "ERROR"
        BY <4>2, <4>4
      <4> QED
        BY <3>1, <4>5
    <3>3. toAgente' \in Seq({"FINISHED", "ERROR"})
      <4>1. Len(toAgente) \in Nat /\ first \in 1..Len(toAgente)
        BY <3>2, LenProperties
      <4>2. first + 1 \in Int /\ Len(toAgente) \in Int
            /\ \A i \in (first + 1)..Len(toAgente) : i \in 1..Len(toAgente)
        BY <4>1
      <4> QED
        BY <3>1, <4>1, <4>2, SubSeqProperties
    <3>4. pending' \in BOOLEAN /\ finished' \in BOOLEAN /\ step' \in Steps
      BY <3>1 DEF Steps
    <3> QED
      BY <2>1, <3>3, <3>4 DEF clientVars, deviceVars
  <2>3. CASE ~ \E i \in DOMAIN toAgente : toAgente[i] = "ERROR"
    <3>1. /\ pending' = (pending /\ toAgente = <<>>)
          /\ finished' = ~pending'
          /\ toAgente' = <<>>
          /\ UNCHANGED step
      BY <1>5, <2>3 DEF CheckFinished
    <3>2. pending' \in BOOLEAN /\ finished' \in BOOLEAN
      BY <3>1, Zenon
    <3>3. toAgente' \in Seq({"FINISHED", "ERROR"})
      BY <3>1
    <3> QED
      BY <2>1, <3>1, <3>2, <3>3 DEF clientVars, deviceVars
  <2> QED
    BY <2>2, <2>3
<1>6. CASE RequestClientExit
  <2>1. toClient' \in Seq(Command)
    BY <1>6, Commands, AppendProperties DEF RequestClientExit
  <2> QED
    BY <1>6, <2>1 DEF RequestClientExit, clientVars, deviceVars, Steps, Waits
<1>7. CASE Execute
  <2>1. UNCHANGED <<agenteVars, trips>>
    BY <1>7 DEF Execute
  <2> QED
    BY <1>7, <2>1, ExecuteTypes DEF agenteVars
<1>8. CASE Monitor
  <2>1. toAgente' \in Seq({"FINISHED", "ERROR"})
    BY <1>8, AppendProperties DEF Monitor, Complaint
  <2> QED
    BY <1>8, <2>1 DEF Monitor, agenteVars, deviceVars
<1>9. CASE Interlock
  <2>1. trips' \in 0..MaxTrips
    BY <1>9, XrayAssumption DEF Interlock
  <2>2. device' \in [voltage : Voltages, current : Currents, hv : BOOLEAN]
        /\ open' \subseteq {1, 3}
    BY <1>9 DEF Interlock
  <2> QED
    BY <1>9, <2>1, <2>2 DEF Interlock, agenteVars, clientVars
<1>10. CASE UNCHANGED vars
  BY <1>10 DEF vars
<1> QED
  BY <1>1, <1>2, <1>3, <1>4, <1>5, <1>6, <1>7, <1>8, <1>9, <1>10
     DEF Next, Agente, Client, Terminating

-----------------------------------------------------------------------------
(* The dialogue *)

Going == step \notin {"failed", "exited"}

\* The packets that the agente has not read, and the error among them.
Packets == {toAgente[i] : i \in DOMAIN toAgente}
Err == "ERROR" \in Packets

\* FINISHED is the last command of a queue that is not empty, and only that.
Asks(q) == \A i \in DOMAIN q : q[i].cmd = "FINISHED" <=> i = Len(q)

\* There is one FINISHED at most among the packets.
OneEcho(p) == \A i, j \in DOMAIN p : p[i] = "FINISHED" /\ p[j] = "FINISHED" => i = j

\* The agente is pending while its question, which is the last command, is with
\* the client, or the echo is on its way.
Dialogue ==
  /\ Asks(toClient)
  /\ OneEcho(toAgente)
  /\ pending <=> toClient # << >> \/ "FINISHED" \in Packets
  /\ toClient = << >> \/ "FINISHED" \notin Packets
  /\ step \in {"idle", "executing", "over"} => ~pending
  /\ finished => ~pending

\* A packet more.
LEMMA PacketAdded ==
  ASSUME NEW T, NEW p \in Seq(T), NEW x \in T
  PROVE  /\ {Append(p, x)[i] : i \in DOMAIN Append(p, x)} = {p[i] : i \in DOMAIN p} \union {x}
         /\ OneEcho(p) /\ (x = "FINISHED" => "FINISHED" \notin {p[i] : i \in DOMAIN p}) =>
              OneEcho(Append(p, x))
<1> DEFINE r == Append(p, x)
           n == Len(p)
<1>1. n \in Nat /\ DOMAIN p = 1..n
  BY LenProperties
<1>2. Len(r) = n + 1 /\ DOMAIN r = 1..(n + 1) /\ r[n + 1] = x /\ \A i \in 1..n : r[i] = p[i]
  BY AppendProperties, LenProperties
<1> HIDE DEF r, n
<1>3. \A i \in DOMAIN r : (i \in DOMAIN p /\ r[i] = p[i]) \/ (i = n + 1 /\ r[i] = x)
  <2> TAKE i \in DOMAIN r
  <2>1. CASE i \in 1..n
    BY <2>1, <1>1, <1>2
  <2>2. CASE i = n + 1
    BY <2>2, <1>2
  <2> QED
    BY <1>1, <1>2, <2>1, <2>2
<1>4. \A i \in DOMAIN p : i \in DOMAIN r /\ r[i] = p[i]
  BY <1>1, <1>2
<1>5. n + 1 \in DOMAIN r
  BY <1>1, <1>2
<1>6. {r[i] : i \in DOMAIN r} = {p[i] : i \in DOMAIN p} \union {x}
  <2>1. {r[i] : i \in DOMAIN r} \subseteq {p[i] : i \in DOMAIN p} \union {x}
    BY <1>3
  <2>2. {p[i] : i \in DOMAIN p} \subseteq {r[i] : i \in DOMAIN r}
    BY <1>4
  <2>3. x \in {r[i] : i \in DOMAIN r}
    BY <1>2, <1>5
  <2> QED
    BY <2>1, <2>2, <2>3
<1>7. ASSUME OneEcho(p), x = "FINISHED" => "FINISHED" \notin {p[i] : i \in DOMAIN p}
      PROVE  OneEcho(r)
  BY <1>3, <1>7 DEF OneEcho
<1> QED
  BY <1>6, <1>7 DEF r

\* A question is put behind the commands of a phase.
LEMMA QuestionSent ==
  ASSUME NEW q \in Seq(Command), Args(q, "FINISHED") = {}
  PROVE  /\ q \o <<FINISHED>> \in Seq(Command)
         /\ q \o <<FINISHED>> # << >>
         /\ Asks(q \o <<FINISHED>>)
         /\ \A w : w # "FINISHED" => Args(q \o <<FINISHED>>, w) = Args(q, w)
         /\ \A w : w # "FINISHED" /\ Once(q, w) => Once(q \o <<FINISHED>>, w)
<1> DEFINE f == <<FINISHED>>
           r == q \o f
           n == Len(q)
<1>1. /\ f \in Seq(Command)
      /\ \A w : w # "FINISHED" => Args(f, w) = {}
      /\ \A w : Once(f, w)
  BY Commands, QueueOfOne
<1>2. Len(f) = 1 /\ f[1].cmd = "FINISHED"
  BY Commands
<1> HIDE DEF f
<1>3. /\ r \in Seq(Command)
      /\ \A w : w # "FINISHED" => Args(r, w) = Args(q, w)
      /\ \A w : w # "FINISHED" /\ Once(q, w) => Once(r, w)
  <2>1. /\ r \in Seq(Command)
        /\ \A w : Args(r, w) = Args(q, w) \union Args(f, w)
        /\ \A w : Once(q, w) /\ Once(f, w) /\ (Args(q, w) = {} \/ Args(f, w) = {}) =>
             Once(r, w)
    BY <1>1, QueueJoined
  <2> HIDE DEF r
  <2>2. ASSUME NEW w, w # "FINISHED"
        PROVE  Args(r, w) = Args(q, w) /\ (Once(q, w) => Once(r, w))
    BY <2>1, <2>2, <1>1
  <2> QED
    BY <2>1, <2>2
<1>4. n \in Nat /\ Len(r) = n + 1 /\ \A i \in 1..(n + 1) : r[i] = IF i <= n THEN q[i] ELSE f[i - n]
  <2>1. /\ Len(r) = Len(q) + Len(f)
        /\ \A i \in 1..(Len(q) + Len(f)) :
             r[i] = IF i <= Len(q) THEN q[i] ELSE f[i - Len(q)]
    BY <1>1, ConcatProperties
  <2>2. n \in Nat
    BY LenProperties
  <2> QED
    BY <1>2, <2>1, <2>2
<1>5. DOMAIN r = 1..(n + 1) /\ DOMAIN q = 1..n
  BY <1>3, <1>4, LenProperties
<1> HIDE DEF r, n
<1>6. \A i \in DOMAIN q : q[i].cmd # "FINISHED"
  BY DEF Args
<1>7. r[n + 1].cmd = "FINISHED" /\ \A i \in 1..n : r[i] = q[i]
  BY <1>2, <1>4
<1>8. Asks(r)
  BY <1>4, <1>5, <1>6, <1>7 DEF Asks
<1>9. r # << >>
  BY <1>4
<1> QED
  BY <1>3, <1>8, <1>9 DEF r, f

\* What the client takes is the question only if nothing comes behind it.
LEMMA QuestionTaken ==
  ASSUME NEW q \in Seq(Command), q # << >>, Asks(q)
  PROVE  Asks(Tail(q)) /\ (Head(q).cmd = "FINISHED" <=> Tail(q) = << >>)
<1> DEFINE t == Tail(q)
<1>1. /\ t \in Seq(Command)
      /\ Len(q) \in Nat /\ Len(q) > 0
      /\ Len(t) = Len(q) - 1
      /\ \A i \in 1..Len(t) : t[i] = q[i + 1]
      /\ t = << >> <=> Len(t) = 0
  <2>1. /\ t \in Seq(Command)
        /\ Len(q) \in Nat /\ Len(q) > 0
        /\ Len(t) = Len(q) - 1
        /\ \A i \in 1..Len(t) : t[i] = q[i + 1]
    BY HeadTailProperties, LenProperties
  <2>2. t = << >> <=> Len(t) = 0
    BY <2>1, EmptySeq
  <2> QED
    BY <2>1, <2>2
<1>2. Head(q) = q[1] /\ DOMAIN q = 1..Len(q) /\ DOMAIN t = 1..Len(t)
  BY <1>1
<1> HIDE DEF t
<1>3. \A i \in DOMAIN t : i \in Nat /\ i + 1 \in DOMAIN q /\ t[i] = q[i + 1]
  BY <1>1, <1>2
<1>4. Asks(t)
  BY <1>1, <1>3 DEF Asks
<1>5. 1 \in DOMAIN q /\ (q[1].cmd = "FINISHED" <=> 1 = Len(q))
  BY <1>1, <1>2 DEF Asks
<1> QED
  BY <1>1, <1>2, <1>4, <1>5 DEF t

\* A phase that begins with an empty queue.
LEMMA QuestionPut ==
  ASSUME TypeOK, toClient = << >>,
         NEW q \in Seq(Command), Args(q, "FINISHED") = {}, SetPending(q)
  PROVE  /\ toClient' # << >> /\ Asks(toClient')
         /\ \A w : w # "FINISHED" => Args(toClient', w) = Args(q, w)
         /\ \A w : w # "FINISHED" /\ Once(q, w) => Once(toClient', w)
         /\ pending' = TRUE /\ finished' = FALSE
<1>1. toClient' = (<< >> \o q) \o <<FINISHED>>
  BY DEF SetPending
<1>2. << >> \o q = q
  BY ConcatEmptySeq
<1>3. toClient' = q \o <<FINISHED>>
  BY <1>1, <1>2
<1> QED
  BY <1>3, QuestionSent DEF SetPending

\* What the client answers: the echo to the question, and at most an ERROR to
\* every other command.
LEMMA Answers ==
  ASSUME TypeOK, Execute
  PROVE  /\ Head(toClient).cmd = "FINISHED" => toAgente' = Append(toAgente, "FINISHED")
         /\ Head(toClient).cmd # "FINISHED" =>
              toAgente' = toAgente \/ toAgente' = Append(toAgente, "ERROR")
<1> DEFINE c == Head(toClient)
<1>1. \/ (SetQuantity(c) \/ SetBeam(c) \/ SetTarget(c) \/ Echo(c)) /\ up' = up
      \/ c.cmd = "EXIT" /\ toAgente' = toAgente
  BY DEF Execute
<1> HIDE DEF c
<1>2. CASE SetQuantity(c)
  <2>1. c.cmd # "FINISHED"
    BY <1>2 DEF SetQuantity
  <2>2. toAgente' = toAgente \/ toAgente' = Append(toAgente, "ERROR")
    BY <1>2 DEF SetQuantity, Report
  <2> QED
    BY <2>1, <2>2 DEF c
<1>3. CASE SetBeam(c)
  <2>1. c.cmd # "FINISHED"
    BY <1>3 DEF SetBeam
  <2>2. toAgente' = toAgente \/ toAgente' = Append(toAgente, "ERROR")
    BY <1>3 DEF SetBeam, Report
  <2> QED
    BY <2>1, <2>2 DEF c
<1>4. CASE SetTarget(c)
  <2>1. c.cmd # "FINISHED"
    BY <1>4 DEF SetTarget
  <2>2. toAgente' = toAgente \/ toAgente' = Append(toAgente, "ERROR")
    BY <1>4 DEF SetTarget, Report
  <2> QED
    BY <2>1, <2>2 DEF c
<1>5. CASE Echo(c)
  BY <1>5 DEF Echo, Answer, c
<1>6. CASE c.cmd = "EXIT" /\ toAgente' = toAgente
  BY <1>6 DEF c
<1> QED
  BY <1>1, <1>2, <1>3, <1>4, <1>5, <1>6

\* The packets after a step of the client.
LEMMA AnswersAdded ==
  ASSUME TypeOK, NEW x \in {"FINISHED", "ERROR"}, toAgente' = Append(toAgente, x)
  PROVE  /\ Packets' = Packets \union {x}
         /\ OneEcho(toAgente) /\ (x = "FINISHED" => "FINISHED" \notin Packets) =>
              OneEcho(toAgente')
<1>1. toAgente \in Seq({"FINISHED", "ERROR"})
  BY DEF TypeOK
<1>2. PICK r : r = Append(toAgente, x)
  OBVIOUS
<1>3. /\ {r[i] : i \in DOMAIN r} = {toAgente[i] : i \in DOMAIN toAgente} \union {x}
      /\ OneEcho(toAgente)
           /\ (x = "FINISHED" => "FINISHED" \notin {toAgente[i] : i \in DOMAIN toAgente}) =>
             OneEcho(r)
  BY <1>1, <1>2, PacketAdded
<1>4. toAgente' = r
  BY <1>2
<1>5. Packets' = {r[i] : i \in DOMAIN r}
  BY <1>4 DEF Packets
<1>6. OneEcho(toAgente)' <=> OneEcho(r)
  BY <1>4 DEF OneEcho
<1> QED
  BY <1>3, <1>5, <1>6 DEF Packets

\* A check without an ERROR among the packets.
LEMMA Checked ==
  ASSUME TypeOK, CheckFinished, Going'
  PROVE  /\ ~Err /\ UNCHANGED step
         /\ pending' = (pending /\ toAgente = << >>)
         /\ finished' = ~pending'
         /\ toAgente' = << >>
         /\ Packets' = {}
         /\ toAgente # << >> => "FINISHED" \in Packets
         /\ UNCHANGED <<test, env, asked, hvon, beamon, toClient, conf, clientVars, deviceVars>>
<1>1. ~ \E i \in DOMAIN toAgente : toAgente[i] = "ERROR"
  BY DEF CheckFinished, Going
<1>2. /\ pending' = (pending /\ toAgente = << >>)
      /\ finished' = ~pending'
      /\ toAgente' = << >>
      /\ UNCHANGED step
      /\ UNCHANGED <<test, env, asked, hvon, beamon, toClient, conf, clientVars, deviceVars>>
  BY <1>1 DEF CheckFinished
<1>3. ~Err
  BY <1>1 DEF Err, Packets
<1>4. Packets' = {}
  BY <1>2 DEF Packets
<1>5. ASSUME toAgente # << >>
      PROVE  "FINISHED" \in Packets
  <2>1. Len(toAgente) \in Nat \ {0} /\ DOMAIN toAgente = 1..Len(toAgente)
    BY <1>5, EmptySeq, LenProperties DEF TypeOK
  <2>2. 1 \in DOMAIN toAgente
    BY <2>1
  <2>3. toAgente[1] \in {"FINISHED", "ERROR"}
    BY <2>1, <2>2, ElementOfSeq DEF TypeOK
  <2> QED
    BY <1>1, <2>2, <2>3 DEF Packets
<1> QED
  BY <1>2, <1>3, <1>4, <1>5

LEMMA NextDialogue ==
  ASSUME TypeOK, Going => Dialogue, [Next]_vars, Going'
  PROVE  Dialogue'
<1>0. CASE UNCHANGED vars
  BY <1>0 DEF vars, Going, Dialogue, Packets, Asks, OneEcho
<1>1. CASE PrepareTest
  <2>1. step = "idle" /\ step' = "preparing" /\ toAgente' = toAgente
    BY <1>1 DEF PrepareTest
  <2>2. Dialogue
    BY <2>1 DEF Going
  <2>3. ~pending /\ toClient = << >> /\ "FINISHED" \notin Packets
    BY <2>1, <2>2 DEF Dialogue
  <2>4. PICK e \in Environments : SetPending(Preparation(e))
    BY <1>1 DEF PrepareTest
  <2>5. toClient' # << >> /\ Asks(toClient)' /\ pending' = TRUE /\ finished' = FALSE
    BY <2>3, <2>4, QuestionPut, CommandsSent DEF Asks
  <2>6. Packets' = Packets /\ OneEcho(toAgente)'
    BY <2>1, <2>2 DEF Packets, OneEcho, Dialogue
  <2> QED
    BY <2>1, <2>3, <2>5, <2>6 DEF Dialogue
<1>2. CASE PhaseOver
  <2>1. /\ UNCHANGED dialogue /\ finished /\ step \in Waits
    BY <1>2 DEF PhaseOver
  <2>2. Dialogue /\ ~pending
    BY <2>1 DEF Dialogue, Going, Waits
  <2> QED
    BY <2>1, <2>2 DEF dialogue, Dialogue, Packets, Asks, OneEcho
<1>3. CASE CleanupTest
  <2>1. step = "executing" /\ step' = "cleaning" /\ toAgente' = toAgente
    BY <1>3 DEF CleanupTest
  <2>2. Dialogue
    BY <2>1 DEF Going
  <2>3. ~pending /\ toClient = << >> /\ "FINISHED" \notin Packets
    BY <2>1, <2>2 DEF Dialogue
  <2>4. Packets' = Packets /\ OneEcho(toAgente)'
    BY <2>1, <2>2 DEF Packets, OneEcho, Dialogue
  <2>5. CASE SetPending(<<Set("BEAM", FALSE)>>)
    <3>1. toClient' # << >> /\ Asks(toClient)' /\ pending' = TRUE /\ finished' = FALSE
      BY <2>3, <2>5, QuestionPut, CommandsSent DEF Asks
    <3> QED
      BY <2>1, <2>3, <2>4, <3>1 DEF Dialogue
  <2>6. CASE finished' = FALSE /\ UNCHANGED <<toClient, pending, beamon>>
    <3>1. Asks(toClient)'
      BY <2>2, <2>6 DEF Asks, Dialogue
    <3> QED
      BY <2>1, <2>3, <2>4, <2>6, <3>1 DEF Dialogue
  <2> QED
    BY <1>3, <2>5, <2>6 DEF CleanupTest
<1>4. CASE FinalTestCleanup
  <2>1. step = "idle" /\ step' = "ending" /\ toAgente' = toAgente /\ SetPending(FinalCommands)
    BY <1>4 DEF FinalTestCleanup
  <2>2. Dialogue
    BY <2>1 DEF Going
  <2>3. ~pending /\ toClient = << >> /\ "FINISHED" \notin Packets
    BY <2>1, <2>2 DEF Dialogue
  <2>4. Packets' = Packets /\ OneEcho(toAgente)'
    BY <2>1, <2>2 DEF Packets, OneEcho, Dialogue
  <2>5. toClient' # << >> /\ Asks(toClient)' /\ pending' = TRUE /\ finished' = FALSE
    BY <2>1, <2>3, QuestionPut, CommandsSent DEF Asks
  <2> QED
    BY <2>1, <2>3, <2>4, <2>5 DEF Dialogue
<1>5. CASE CheckFinished
  <2>1. /\ UNCHANGED step
        /\ pending' = (pending /\ toAgente = << >>)
        /\ finished' = ~pending'
        /\ toAgente' = << >>
        /\ Packets' = {}
        /\ toAgente # << >> => "FINISHED" \in Packets
        /\ UNCHANGED toClient
    BY <1>5, Checked
  <2>2. Dialogue
    BY <2>1 DEF Going
  <2>3. Asks(toClient)' /\ OneEcho(toAgente)'
    BY <2>1, <2>2 DEF Asks, OneEcho, Dialogue
  <2>4. CASE toAgente = << >>
    <3>1. Packets = {}
      BY <2>4 DEF Packets
    <3>2. pending' <=> pending
      BY <2>1, <2>4, Zenon
    <3> QED
      BY <2>1, <2>2, <2>3, <3>1, <3>2 DEF Dialogue
  <2>5. CASE toAgente # << >>
    <3>1. toClient = << >>
      BY <2>1, <2>2, <2>5 DEF Dialogue
    <3>2. ~pending'
      BY <2>1, <2>5, Zenon
    <3> QED
      BY <2>1, <2>2, <2>3, <3>1, <3>2 DEF Dialogue
  <2> QED
    BY <2>4, <2>5
<1>6. CASE RequestClientExit
  BY <1>6 DEF RequestClientExit, Going
<1>7. CASE Execute
  <2>1. toClient # << >> /\ toClient' = Tail(toClient) /\ UNCHANGED agenteVars
    BY <1>7 DEF Execute
  <2>2. Dialogue
    BY <2>1 DEF Going, agenteVars
  <2>3. /\ Asks(Tail(toClient))
        /\ Head(toClient).cmd = "FINISHED" <=> Tail(toClient) = << >>
    BY <2>1, <2>2, QuestionTaken DEF TypeOK, Dialogue
  <2>4. Asks(toClient)'
    BY <2>1, <2>3 DEF Asks
  <2>5. pending /\ "FINISHED" \notin Packets /\ ~(step \in {"idle", "executing", "over"})
        /\ ~finished
    BY <2>1, <2>2 DEF Dialogue
  <2>6. CASE Head(toClient).cmd = "FINISHED"
    <3>1. toAgente' = Append(toAgente, "FINISHED")
      BY <1>7, <2>6, Answers
    <3>2. Packets' = Packets \union {"FINISHED"} /\ OneEcho(toAgente)'
      BY <2>2, <2>5, <3>1, AnswersAdded DEF Dialogue, OneEcho
    <3> QED
      BY <2>1, <2>3, <2>4, <2>5, <2>6, <3>2 DEF Dialogue, agenteVars
  <2>7. CASE Head(toClient).cmd # "FINISHED" /\ toAgente' = toAgente
    <3>1. Packets' = Packets /\ OneEcho(toAgente)'
      BY <2>2, <2>7 DEF Packets, OneEcho, Dialogue
    <3> QED
      BY <2>1, <2>3, <2>4, <2>5, <2>7, <3>1 DEF Dialogue, agenteVars
  <2>8. CASE Head(toClient).cmd # "FINISHED" /\ toAgente' = Append(toAgente, "ERROR")
    <3>1. Packets' = Packets \union {"ERROR"} /\ OneEcho(toAgente)'
      BY <2>2, <2>5, <2>8, AnswersAdded DEF Dialogue, OneEcho
    <3> QED
      BY <2>1, <2>3, <2>4, <2>5, <2>8, <3>1 DEF Dialogue, agenteVars
  <2> QED
    BY <1>7, <2>6, <2>7, <2>8, Answers
<1>8. CASE Monitor
  <2>1. toAgente' = Append(toAgente, "ERROR") /\ UNCHANGED <<agenteVars, toClient>>
    BY <1>8 DEF Monitor, Complaint
  <2>2. Dialogue
    BY <2>1 DEF Going, agenteVars
  <2>3. Packets' = Packets \union {"ERROR"} /\ OneEcho(toAgente)'
    BY <2>1, <2>2, AnswersAdded DEF Dialogue, OneEcho
  <2>4. Asks(toClient)'
    BY <2>1, <2>2 DEF Asks, Dialogue
  <2> QED
    BY <2>1, <2>2, <2>3, <2>4 DEF Dialogue, agenteVars
<1>9. CASE Interlock
  BY <1>9 DEF Interlock, agenteVars, Going, Dialogue, Packets, Asks, OneEcho
<1> QED
  BY <1>0, <1>1, <1>2, <1>3, <1>4, <1>5, <1>6, <1>7, <1>8, <1>9
     DEF Next, Agente, Client, Terminating

LEMMA InitDialogue ==
  ASSUME Init
  PROVE  Dialogue
BY DEF Init, Dialogue, Asks, OneEcho, Packets

-----------------------------------------------------------------------------
(* The turns of the client *)

QuantitySet(c) ==
  /\ c.cmd \in {"VOLTAGE", "CURRENT", "HV"}
  /\ toAgente' = toAgente
  /\ device' = [device EXCEPT ![Quantity(c.cmd)] = c.arg]
  /\ saved' = [saved EXCEPT ![Quantity(c.cmd)] = c.arg]
  /\ UNCHANGED <<position, open, shutter, beamed>>

QuantityRefused(c) ==
  /\ c.cmd \in {"VOLTAGE", "CURRENT", "HV"}
  /\ toAgente' = Append(toAgente, "ERROR")
  /\ device' \in {device, [device EXCEPT !.hv = FALSE]}
  /\ UNCHANGED <<saved, position, open, shutter, beamed>>

BeamSet(c) ==
  /\ c.cmd = "BEAM"
  /\ toAgente' = toAgente
  /\ open' = IF c.arg THEN open \union {shutter} ELSE open \ {shutter}
  /\ beamed' = (beamed \/ c.arg)
  /\ UNCHANGED <<device, saved, position, shutter>>

BeamRefused(c) ==
  /\ c.cmd = "BEAM"
  /\ toAgente' = Append(toAgente, "ERROR")
  /\ UNCHANGED <<device, saved, position, open, shutter, beamed>>

TargetSet(c) ==
  /\ c.cmd = "TARGET"
  /\ toAgente' = toAgente
  /\ position' = PositionOf(c.arg) /\ shutter' = ShutterOf(c.arg)
  /\ open' = IF shutter' # shutter /\ beamed
               THEN (open \ {shutter}) \union {shutter'} ELSE open
  /\ UNCHANGED <<device, saved, beamed>>

TargetRefused(c) ==
  /\ c.cmd = "TARGET"
  /\ toAgente' = Append(toAgente, "ERROR")
  /\ position' = PositionOf(c.arg) /\ shutter' = ShutterOf(c.arg)
  /\ open' \in {open, open \ {shutter}}
  /\ UNCHANGED <<device, saved, beamed>>

Echoed(c) ==
  /\ c.cmd = "FINISHED"
  /\ toAgente' = Append(toAgente, "FINISHED")
  /\ UNCHANGED <<device, saved, position, open, shutter, beamed>>

Ended(c) ==
  /\ c.cmd = "EXIT"
  /\ UNCHANGED <<toAgente, device, saved, position, open, shutter, beamed>>

Turn(c) ==
  \/ QuantitySet(c) \/ QuantityRefused(c) \/ BeamSet(c) \/ BeamRefused(c)
  \/ TargetSet(c) \/ TargetRefused(c) \/ Echoed(c) \/ Ended(c)

\* A turn carries out the first command or reports that it could not.
LEMMA Turns ==
  ASSUME TypeOK, Execute
  PROVE  /\ toClient # << >> /\ toClient' = Tail(toClient)
         /\ toClient \in Seq(Command) /\ Head(toClient) \in Command
         /\ UNCHANGED <<agenteVars, trips>>
         /\ Turn(Head(toClient))
<1> DEFINE c == Head(toClient)
<1>1. /\ toClient # << >> /\ toClient' = Tail(toClient)
      /\ UNCHANGED <<agenteVars, trips>>
  BY DEF Execute
<1>2. toClient \in Seq(Command) /\ c \in Command
  BY <1>1, QueueTail DEF TypeOK
<1>3. \/ SetQuantity(c) \/ SetBeam(c) \/ SetTarget(c) \/ Echo(c)
      \/ /\ c.cmd = "EXIT"
         /\ UNCHANGED <<toAgente, device, position, open, saved, shutter, beamed>>
  BY DEF Execute
<1> HIDE DEF c
<1>4. ASSUME SetQuantity(c) PROVE Turn(c)
  <2>1. PICK done \in BOOLEAN :
          /\ Report(done)
          /\ IF done
               THEN /\ device' = [device EXCEPT ![Quantity(c.cmd)] = c.arg]
                    /\ saved' = [saved EXCEPT ![Quantity(c.cmd)] = c.arg]
               ELSE /\ \/ device' = device
                       \/ c.cmd = "HV" /\ c.arg /\ device' = [device EXCEPT !.hv = FALSE]
                    /\ UNCHANGED saved
    BY <1>4 DEF SetQuantity
  <2>2. c.cmd \in {"VOLTAGE", "CURRENT", "HV"} /\ UNCHANGED <<position, open, shutter, beamed>>
    BY <1>4 DEF SetQuantity
  <2>3. CASE done
    <3>1. toAgente' = toAgente
      BY <2>1, <2>3 DEF Report
    <3>9. QuantitySet(c)
      BY <2>1, <2>2, <2>3, <3>1 DEF QuantitySet
    <3> QED
      BY <3>9 DEF Turn
  <2>4. CASE ~done
    <3>1. toAgente' = Append(toAgente, "ERROR")
      BY <2>1, <2>4 DEF Report
    <3>2. device' \in {device, [device EXCEPT !.hv = FALSE]} /\ saved' = saved
      BY <2>1, <2>4
    <3>9. QuantityRefused(c)
      BY <2>2, <3>1, <3>2 DEF QuantityRefused
    <3> QED
      BY <3>9 DEF Turn
  <2> QED
    BY <2>3, <2>4
<1>5. ASSUME SetBeam(c) PROVE Turn(c)
  <2>1. PICK done \in BOOLEAN :
          /\ Report(done)
          /\ IF done
               THEN /\ open' = IF c.arg THEN open \union {shutter} ELSE open \ {shutter}
                    /\ beamed' = (beamed \/ c.arg)
               ELSE UNCHANGED <<open, beamed>>
    BY <1>5 DEF SetBeam
  <2>2. c.cmd = "BEAM" /\ UNCHANGED <<device, saved, position, shutter>>
    BY <1>5 DEF SetBeam
  <2>3. CASE done
    <3>1. toAgente' = toAgente
      BY <2>1, <2>3 DEF Report
    <3>9. BeamSet(c)
      BY <2>1, <2>2, <2>3, <3>1 DEF BeamSet
    <3> QED
      BY <3>9 DEF Turn
  <2>4. CASE ~done
    <3>1. toAgente' = Append(toAgente, "ERROR")
      BY <2>1, <2>4 DEF Report
    <3>9. BeamRefused(c)
      BY <2>1, <2>2, <2>4, <3>1 DEF BeamRefused
    <3> QED
      BY <3>9 DEF Turn
  <2> QED
    BY <2>3, <2>4
<1>6. ASSUME SetTarget(c) PROVE Turn(c)
  <2>1. c.cmd = "TARGET" /\ position' = PositionOf(c.arg) /\ shutter' = ShutterOf(c.arg)
        /\ UNCHANGED <<device, saved, beamed>>
    BY <1>6 DEF SetTarget
  <2>2. CASE shutter' # shutter /\ beamed
    <3>1. PICK closed \in BOOLEAN, opened \in BOOLEAN :
            Report(closed /\ opened) /\ open' = ChangeOver(closed, opened, shutter')
      BY <1>6, <2>2 DEF SetTarget
    <3>2. CASE closed /\ opened
      <4>1. toAgente' = toAgente
        BY <3>1, <3>2 DEF Report
      <4>2. open' = (open \ {shutter}) \union {shutter'}
        BY <3>1, <3>2 DEF ChangeOver
      <4>9. TargetSet(c)
        BY <2>1, <2>2, <4>1, <4>2 DEF TargetSet
      <4> QED
        BY <4>9 DEF Turn
    <3>3. CASE ~(closed /\ opened)
      <4>1. toAgente' = Append(toAgente, "ERROR")
        BY <3>1, <3>3 DEF Report
      <4>2. open' \in {open, open \ {shutter}}
        BY <3>1, <3>3 DEF ChangeOver
      <4>9. TargetRefused(c)
        BY <2>1, <4>1, <4>2 DEF TargetRefused
      <4> QED
        BY <4>9 DEF Turn
    <3> QED
      BY <3>2, <3>3
  <2>3. CASE ~(shutter' # shutter /\ beamed)
    <3>1. UNCHANGED <<open, toAgente>>
      BY <1>6, <2>3 DEF SetTarget
    <3>9. TargetSet(c)
      BY <2>1, <2>3, <3>1 DEF TargetSet
    <3> QED
      BY <3>9 DEF Turn
  <2> QED
    BY <2>2, <2>3
<1>7. ASSUME Echo(c) PROVE Turn(c)
  BY <1>7 DEF Echo, Answer, Echoed, Turn
<1>8. ASSUME /\ c.cmd = "EXIT"
             /\ UNCHANGED <<toAgente, device, position, open, saved, shutter, beamed>>
      PROVE  Turn(c)
  BY <1>8 DEF Ended, Turn
<1>9. Turn(c)
  BY <1>3, <1>4, <1>5, <1>6, <1>7, <1>8
<1> QED
  BY <1>1, <1>2, <1>9 DEF c

\* What a turn does to the queue and to the packets.
LEMMA TurnTakes ==
  ASSUME TypeOK, Execute
  PROVE  LET c == Head(toClient) IN
         /\ \A w : Args(toClient, w) =
              (IF c.cmd = w THEN {c.arg} ELSE {}) \union Args(toClient', w)
         /\ \A w : Once(toClient, w) =>
              Once(toClient', w) /\ (c.cmd = w => Args(toClient', w) = {})
         /\ QuantityRefused(c) \/ BeamRefused(c) \/ TargetRefused(c) => "ERROR" \in Packets'
         /\ Packets \subseteq Packets'
         /\ ~(QuantityRefused(c) \/ BeamRefused(c) \/ TargetRefused(c)) => (Err' => Err)
<1>1. PICK t : t = Tail(toClient)
  OBVIOUS
<1>2. toClient # << >> /\ toClient' = t /\ toClient \in Seq(Command) /\ Turn(Head(toClient))
  BY <1>1, Turns
<1>3. /\ \A w : Args(toClient, w) =
              (IF Head(toClient).cmd = w THEN {Head(toClient).arg} ELSE {}) \union Args(t, w)
      /\ \A w : Once(toClient, w) =>
              Once(t, w) /\ (Head(toClient).cmd = w => Args(t, w) = {})
  BY <1>1, <1>2, QueueTail
<1>4. /\ \A w : Args(toClient', w) = Args(t, w)
      /\ \A w : Once(toClient', w) <=> Once(t, w)
  BY <1>2
<1> DEFINE c == Head(toClient)
<1> HIDE DEF c
<1>5. Turn(c)
  BY <1>2 DEF c
<1>6. \/ toAgente' = toAgente
      \/ toAgente' = Append(toAgente, "FINISHED") /\ Echoed(c)
      \/ toAgente' = Append(toAgente, "ERROR")
           /\ (QuantityRefused(c) \/ BeamRefused(c) \/ TargetRefused(c))
  BY <1>5 DEF Turn, QuantitySet, QuantityRefused, BeamSet, BeamRefused, TargetSet,
              TargetRefused, Echoed, Ended
<1>7. \A x \in {"FINISHED", "ERROR"} :
        toAgente' = Append(toAgente, x) => Packets' = Packets \union {x}
  BY AnswersAdded
<1>8. toAgente' = toAgente => Packets' = Packets
  BY DEF Packets
<1>9. QuantityRefused(c) \/ BeamRefused(c) \/ TargetRefused(c) =>
        toAgente' = Append(toAgente, "ERROR")
  BY DEF QuantityRefused, BeamRefused, TargetRefused
<1>10. /\ QuantityRefused(c) \/ BeamRefused(c) \/ TargetRefused(c) => "ERROR" \in Packets'
       /\ Packets \subseteq Packets'
       /\ ~(QuantityRefused(c) \/ BeamRefused(c) \/ TargetRefused(c)) => (Err' => Err)
  BY <1>6, <1>7, <1>8, <1>9 DEF Err
<1> QED
  BY <1>3, <1>4, <1>10 DEF c

\* An ended campaign goes on no more, and an ERROR that was read ends it.
LEMMA Earlier ==
  ASSUME TypeOK, [Next]_vars, Going'
  PROVE  Going /\ (Err => Err' /\ ~CheckFinished)
<1>1. CASE CheckFinished
  <2>1. ~Err /\ UNCHANGED step
    BY <1>1, Checked
  <2> QED
    BY <2>1 DEF Going
<1>2. CASE Execute
  <2>1. Packets \subseteq Packets'
    BY <1>2, TurnTakes
  <2>2. UNCHANGED agenteVars
    BY <1>2, Turns
  <2> QED
    BY <2>1, <2>2, Checked DEF agenteVars, Going, Err
<1>3. CASE Monitor
  <2>1. toAgente' = Append(toAgente, "ERROR") /\ UNCHANGED agenteVars
    BY <1>3 DEF Monitor, Complaint
  <2>2. Packets' = Packets \union {"ERROR"}
    BY <2>1, AnswersAdded
  <2> QED
    BY <2>1, <2>2, Checked DEF agenteVars, Going, Err
<1>4. ASSUME ~CheckFinished, ~Execute, ~Monitor
      PROVE  toAgente' = toAgente /\ (Going' => Going)
  BY <1>4 DEF Next, Agente, Client, Terminating, vars, PrepareTest, PhaseOver,
              CleanupTest, FinalTestCleanup, RequestClientExit, Interlock, Going, dialogue,
              Waits, agenteVars
<1>5. toAgente' = toAgente => (Err <=> Err')
  BY DEF Err, Packets
<1> QED
  BY <1>1, <1>2, <1>3, <1>4, <1>5

\* What the agente asked for last is either in the queue or set, until an ERROR
\* comes; an interlock trip alone makes the generator differ from what the
\* client takes it for.
Settings ==
  /\ Args(toClient, "VOLTAGE") \subseteq {asked.voltage}
  /\ Args(toClient, "VOLTAGE") = {} => asked.voltage \in {None, saved.voltage}
  /\ Args(toClient, "CURRENT") \subseteq {asked.current}
  /\ Args(toClient, "CURRENT") = {} => asked.current \in {None, saved.current}
  /\ step \notin {"ending", "over"} =>
       /\ TRUE \in Args(toClient, "HV") => hvon
       /\ FALSE \in Args(toClient, "HV") => ~hvon
       /\ hvon /\ Args(toClient, "HV") = {} => saved.hv
  /\ trips = 0 => device = saved

\* The queue is empty between two phases.
LEMMA NothingWaits ==
  ASSUME Dialogue, step \in {"idle", "executing", "over"}
  PROVE  toClient = << >> /\ ~pending /\ \A w : Args(toClient, w) = {}
<1>1. toClient = << >> /\ ~pending
  BY DEF Dialogue
<1> QED
  BY <1>1, QueueEmpty

\* The queue with which prepare_test leaves, for either kind of test.
LEMMA Prepared ==
  ASSUME TypeOK, Dialogue, PrepareTest
  PROVE  /\ step = "idle" /\ step' = "preparing" /\ pending' = TRUE
         /\ \A w : Args(toClient, w) = {}
         /\ Once(toClient', "TARGET") /\ Once(toClient', "BEAM")
         /\ UNCHANGED <<toAgente, conf, clientVars, deviceVars>>
         /\ env' \in Environments /\ beamon' = env'.xray
         /\ \/ /\ env'.xray /\ hvon' = TRUE
               /\ asked' = [voltage |-> env'.voltage, current |-> env'.current,
                            target |-> env'.target]
               /\ Args(toClient', "VOLTAGE") =
                    IF env'.voltage # asked.voltage THEN {env'.voltage} ELSE {}
               /\ Args(toClient', "CURRENT") =
                    IF env'.current # asked.current THEN {env'.current} ELSE {}
               /\ Args(toClient', "TARGET") =
                    IF env'.target # asked.target THEN {env'.target} ELSE {}
               /\ Args(toClient', "HV") = IF hvon THEN {} ELSE {TRUE}
               /\ Args(toClient', "BEAM") = IF beamon # TRUE THEN {TRUE} ELSE {}
            \/ /\ ~env'.xray /\ asked' = asked
               /\ hvon' <=> hvon /\ ~conf.turnOffHV
               /\ \A w \in {"VOLTAGE", "CURRENT", "TARGET"} : Args(toClient', w) = {}
               /\ Args(toClient', "HV") =
                    IF hvon /\ conf.turnOffHV THEN {FALSE} ELSE {}
               /\ Args(toClient', "BEAM") = IF beamon # FALSE THEN {FALSE} ELSE {}
<1>1. /\ step = "idle" /\ step' = "preparing"
      /\ UNCHANGED <<toAgente, conf, clientVars, deviceVars>>
  BY DEF PrepareTest
<1>2. PICK e \in Environments :
        /\ env' = e
        /\ SetPending(Preparation(e))
        /\ asked' = IF e.xray
                      THEN [voltage |-> e.voltage, current |-> e.current,
                            target |-> e.target]
                      ELSE asked
        /\ hvon' = (e.xray \/ (hvon /\ ~conf.turnOffHV))
        /\ beamon' = e.xray
  BY DEF PrepareTest
<1>3. toClient = << >> /\ \A w : Args(toClient, w) = {}
  BY <1>1, NothingWaits
<1>4. /\ \A w : w # "FINISHED" => Args(toClient', w) = Args(Preparation(e), w)
      /\ \A w : w # "FINISHED" /\ Once(Preparation(e), w) => Once(toClient', w)
      /\ pending' = TRUE
  BY <1>2, <1>3, CommandsSent, QuestionPut
<1>5. /\ Args(toClient', "VOLTAGE") = Args(Preparation(e), "VOLTAGE")
      /\ Args(toClient', "CURRENT") = Args(Preparation(e), "CURRENT")
      /\ Args(toClient', "TARGET") = Args(Preparation(e), "TARGET")
      /\ Args(toClient', "HV") = Args(Preparation(e), "HV")
      /\ Args(toClient', "BEAM") = Args(Preparation(e), "BEAM")
      /\ Once(Preparation(e), "TARGET") => Once(toClient', "TARGET")
      /\ Once(Preparation(e), "BEAM") => Once(toClient', "BEAM")
  BY <1>4
<1>6. CASE e.xray
  <2>1. hvon' = TRUE
    BY <1>2, <1>6, Zenon
  <2>2. asked' = [voltage |-> e.voltage, current |-> e.current, target |-> e.target]
    BY <1>2, <1>6
  <2> QED
    BY <1>1, <1>2, <1>3, <1>4, <1>5, <1>6, <2>1, <2>2, PreparationWith
<1>7. CASE ~e.xray
  <2>1. hvon' <=> hvon /\ ~conf.turnOffHV
    BY <1>2, <1>7, Zenon
  <2>2. asked' = asked
    BY <1>2, <1>7
  <2> QED
    BY <1>1, <1>2, <1>3, <1>4, <1>5, <1>7, <2>1, <2>2, PreparationWithout
<1> QED
  BY <1>6, <1>7

\* The queue with which cleanup_test and final_test_cleanup leave.
LEMMA CleanedUp ==
  ASSUME TypeOK, Dialogue, CleanupTest
  PROVE  /\ step = "executing" /\ step' = "cleaning"
         /\ \A w : Args(toClient, w) = {}
         /\ \A w \in {"VOLTAGE", "CURRENT", "TARGET", "HV"} : Args(toClient', w) = {}
         /\ Once(toClient', "TARGET") /\ Once(toClient', "BEAM")
         /\ UNCHANGED <<env, asked, hvon, toAgente, conf, clientVars, deviceVars>>
         /\ \/ Args(toClient', "BEAM") = {FALSE} /\ beamon' = FALSE /\ pending' = TRUE
            \/ Args(toClient', "BEAM") = {} /\ beamon' = beamon /\ pending' = pending
<1>1. /\ step = "executing" /\ step' = "cleaning"
      /\ UNCHANGED <<env, asked, hvon, toAgente, conf, clientVars, deviceVars>>
  BY DEF CleanupTest
<1>2. toClient = << >> /\ \A w : Args(toClient, w) = {}
  BY <1>1, NothingWaits
<1>3. CASE SetPending(<<Set("BEAM", FALSE)>>) /\ beamon' = FALSE
  <2>1. PICK x : x = Set("BEAM", FALSE)
    OBVIOUS
  <2>2. x \in Command /\ x.cmd = "BEAM" /\ x.arg = FALSE
    BY <2>1, Commands
  <2>3. /\ <<x>> \in Seq(Command)
        /\ \A w : Args(<<x>>, w) = IF "BEAM" = w THEN {FALSE} ELSE {}
        /\ \A w : Once(<<x>>, w)
    BY <2>2, QueueOfOne
  <2>4. SetPending(<<x>>)
    BY <1>3, <2>1
  <2>5. /\ \A w : w # "FINISHED" => Args(toClient', w) = Args(<<x>>, w)
        /\ \A w : w # "FINISHED" => Once(toClient', w)
        /\ pending' = TRUE
    BY <1>2, <2>3, <2>4, QuestionPut
  <2>6. /\ Args(toClient', "VOLTAGE") = {} /\ Args(toClient', "CURRENT") = {}
        /\ Args(toClient', "TARGET") = {} /\ Args(toClient', "HV") = {}
        /\ Args(toClient', "BEAM") = {FALSE}
    BY <2>3, <2>5
  <2>7. Once(toClient', "TARGET") /\ Once(toClient', "BEAM")
    BY <2>5
  <2> QED
    BY <1>1, <1>2, <1>3, <2>5, <2>6, <2>7
<1>4. CASE UNCHANGED <<toClient, pending, beamon>>
  <2>1. toClient' = << >>
    BY <1>2, <1>4
  <2>2. \A w : Args(toClient', w) = {} /\ Once(toClient', w)
    BY <2>1, QueueEmpty
  <2> QED
    BY <1>1, <1>2, <1>4, <2>2
<1> QED
  BY <1>3, <1>4 DEF CleanupTest

LEMMA Closing ==
  ASSUME TypeOK, Dialogue, FinalTestCleanup
  PROVE  /\ step = "idle" /\ step' = "ending" /\ pending' = TRUE
         /\ \A w : Args(toClient, w) = {}
         /\ \A w \in {"VOLTAGE", "CURRENT", "TARGET"} : Args(toClient', w) = {}
         /\ Args(toClient', "HV") = IF conf.turnOffHV THEN {FALSE} ELSE {}
         /\ Args(toClient', "BEAM") = {FALSE}
         /\ Once(toClient', "TARGET") /\ Once(toClient', "BEAM")
         /\ UNCHANGED <<env, asked, hvon, beamon, toAgente, conf, clientVars, deviceVars>>
<1>1. /\ step = "idle" /\ step' = "ending" /\ SetPending(FinalCommands)
      /\ UNCHANGED <<env, asked, hvon, beamon, toAgente, conf, clientVars, deviceVars>>
  BY DEF FinalTestCleanup
<1>2. toClient = << >> /\ \A w : Args(toClient, w) = {}
  BY <1>1, NothingWaits
<1>3. /\ \A w : w # "FINISHED" => Args(toClient', w) = Args(FinalCommands, w)
      /\ \A w : w # "FINISHED" /\ Once(FinalCommands, w) => Once(toClient', w)
      /\ pending' = TRUE
  BY <1>1, <1>2, CommandsSent, QuestionPut
<1> QED
  BY <1>1, <1>2, <1>3, CommandsSent

LEMMA NextSettings ==
  ASSUME TypeOK, Going => Dialogue, Going /\ ~Err => Settings,
         [Next]_vars, Going', ~Err'
  PROVE  Settings'
<1>0. Going /\ ~Err /\ Dialogue /\ Settings
  BY Earlier
<1>1. CASE UNCHANGED vars
  BY <1>0, <1>1 DEF vars, Settings
<1>2. CASE PrepareTest
  <2>1. /\ step = "idle" /\ step' = "preparing"
        /\ \A w : Args(toClient, w) = {}
        /\ UNCHANGED <<clientVars, deviceVars>>
    BY <1>0, <1>2, Prepared
  <2>2. /\ asked.voltage \in {None, saved.voltage}
        /\ asked.current \in {None, saved.current}
        /\ hvon => saved.hv
        /\ trips = 0 => device = saved
    BY <1>0, <2>1 DEF Settings
  <2>3. saved' = saved /\ device' = device /\ trips' = trips
    BY <2>1 DEF clientVars, deviceVars
  <2>4. CASE env'.xray
    <3>1. /\ hvon' = TRUE
          /\ asked' = [voltage |-> env'.voltage, current |-> env'.current,
                       target |-> env'.target]
          /\ Args(toClient', "VOLTAGE") =
               IF env'.voltage # asked.voltage THEN {env'.voltage} ELSE {}
          /\ Args(toClient', "CURRENT") =
               IF env'.current # asked.current THEN {env'.current} ELSE {}
          /\ Args(toClient', "HV") = IF hvon THEN {} ELSE {TRUE}
      BY <1>0, <1>2, <2>4, Prepared
    <3>2. asked'.voltage = env'.voltage /\ asked'.current = env'.current
      BY <3>1
    <3>3. /\ Args(toClient', "VOLTAGE") \subseteq {asked'.voltage}
          /\ Args(toClient', "VOLTAGE") = {} => asked'.voltage \in {None, saved'.voltage}
          /\ Args(toClient', "CURRENT") \subseteq {asked'.current}
          /\ Args(toClient', "CURRENT") = {} => asked'.current \in {None, saved'.current}
      BY <2>2, <2>3, <3>1, <3>2
    <3>4. /\ FALSE \notin Args(toClient', "HV")
          /\ Args(toClient', "HV") = {} => saved.hv
      BY <2>2, <3>1
    <3> QED
      BY <2>2, <2>3, <3>1, <3>3, <3>4 DEF Settings
  <2>5. CASE ~env'.xray
    <3>1. /\ asked' = asked /\ (hvon' <=> hvon /\ ~conf.turnOffHV)
          /\ Args(toClient', "VOLTAGE") = {} /\ Args(toClient', "CURRENT") = {}
          /\ Args(toClient', "HV") = IF hvon /\ conf.turnOffHV THEN {FALSE} ELSE {}
      BY <1>0, <1>2, <2>5, Prepared
    <3>2. /\ TRUE \notin Args(toClient', "HV")
          /\ FALSE \in Args(toClient', "HV") => conf.turnOffHV
      BY <3>1
    <3> QED
      BY <2>2, <2>3, <3>1, <3>2 DEF Settings
  <2> QED
    BY <2>4, <2>5
<1>3. CASE PhaseOver
  <2>1. UNCHANGED <<dialogue, clientVars, deviceVars>>
        /\ (step' \notin {"ending", "over"} => step \notin {"ending", "over"})
    BY <1>3 DEF PhaseOver, Waits
  <2> QED
    BY <1>0, <2>1 DEF Settings, dialogue, clientVars, deviceVars
<1>4. CASE CleanupTest
  <2>1. /\ step = "executing" /\ step' = "cleaning"
        /\ \A w : Args(toClient, w) = {}
        /\ \A w \in {"VOLTAGE", "CURRENT", "TARGET", "HV"} : Args(toClient', w) = {}
        /\ UNCHANGED <<asked, hvon, clientVars, deviceVars>>
    BY <1>0, <1>4, CleanedUp
  <2> QED
    BY <1>0, <2>1 DEF Settings, clientVars, deviceVars
<1>5. CASE FinalTestCleanup
  <2>1. /\ step' = "ending"
        /\ \A w : Args(toClient, w) = {}
        /\ \A w \in {"VOLTAGE", "CURRENT", "TARGET"} : Args(toClient', w) = {}
        /\ UNCHANGED <<asked, hvon, clientVars, deviceVars>>
    BY <1>0, <1>5, Closing
  <2> QED
    BY <1>0, <2>1 DEF Settings, clientVars, deviceVars
<1>6. CASE CheckFinished
  <2>1. UNCHANGED <<step, asked, hvon, toClient, clientVars, deviceVars>>
    BY <1>6, Checked
  <2> QED
    BY <1>0, <2>1 DEF Settings, clientVars, deviceVars
<1>7. CASE RequestClientExit
  BY <1>7 DEF RequestClientExit, Going
<1>8. CASE Execute
  <2> DEFINE c == Head(toClient)
  <2>1. /\ c \in Command /\ Turn(c)
        /\ UNCHANGED <<agenteVars, trips>>
        /\ \A w : Args(toClient, w) =
             (IF c.cmd = w THEN {c.arg} ELSE {}) \union Args(toClient', w)
        /\ ~(QuantityRefused(c) \/ BeamRefused(c) \/ TargetRefused(c))
    BY <1>8, Turns, TurnTakes DEF Err
  <2> HIDE DEF c
  <2>2. UNCHANGED <<step, asked, hvon, trips>>
    BY <2>1 DEF agenteVars
  <2>3. CASE QuantitySet(c)
    <3>1. /\ device' = [device EXCEPT ![Quantity(c.cmd)] = c.arg]
          /\ saved' = [saved EXCEPT ![Quantity(c.cmd)] = c.arg]
          /\ c.cmd \in {"VOLTAGE", "CURRENT", "HV"}
      BY <2>3 DEF QuantitySet
    <3>2. /\ saved \in [voltage : Voltages, current : Currents, hv : BOOLEAN]
          /\ device \in [voltage : Voltages, current : Currents, hv : BOOLEAN]
      BY DEF TypeOK
    <3>3. CASE c.cmd = "VOLTAGE"
      <4>1. saved' = [saved EXCEPT !.voltage = c.arg] /\ device' = [device EXCEPT !.voltage = c.arg]
        BY <3>1, <3>3 DEF Quantity
      <4>2. /\ saved'.voltage = c.arg /\ saved'.current = saved.current /\ saved'.hv = saved.hv
            /\ device = saved => device' = saved'
        BY <3>2, <4>1
      <4>3. /\ Args(toClient, "VOLTAGE") = {c.arg} \union Args(toClient', "VOLTAGE")
            /\ Args(toClient, "CURRENT") = Args(toClient', "CURRENT")
            /\ Args(toClient, "HV") = Args(toClient', "HV")
        BY <2>1, <3>3
      <4> QED
        BY <1>0, <2>2, <4>2, <4>3 DEF Settings
    <3>4. CASE c.cmd = "CURRENT"
      <4>1. saved' = [saved EXCEPT !.current = c.arg] /\ device' = [device EXCEPT !.current = c.arg]
        BY <3>1, <3>4 DEF Quantity
      <4>2. /\ saved'.voltage = saved.voltage /\ saved'.current = c.arg /\ saved'.hv = saved.hv
            /\ device = saved => device' = saved'
        BY <3>2, <4>1
      <4>3. /\ Args(toClient, "VOLTAGE") = Args(toClient', "VOLTAGE")
            /\ Args(toClient, "CURRENT") = {c.arg} \union Args(toClient', "CURRENT")
            /\ Args(toClient, "HV") = Args(toClient', "HV")
        BY <2>1, <3>4
      <4> QED
        BY <1>0, <2>2, <4>2, <4>3 DEF Settings
    <3>5. CASE c.cmd = "HV"
      <4>1. saved' = [saved EXCEPT !.hv = c.arg] /\ device' = [device EXCEPT !.hv = c.arg]
        BY <3>1, <3>5 DEF Quantity
      <4>2. /\ saved'.voltage = saved.voltage /\ saved'.current = saved.current /\ saved'.hv = c.arg
            /\ device = saved => device' = saved'
        BY <3>2, <4>1
      <4>3. /\ Args(toClient, "VOLTAGE") = Args(toClient', "VOLTAGE")
            /\ Args(toClient, "CURRENT") = Args(toClient', "CURRENT")
            /\ Args(toClient, "HV") = {c.arg} \union Args(toClient', "HV")
            /\ c.arg \in BOOLEAN
        BY <2>1, <3>5, CommandTypes
      <4>4. CASE c.arg = TRUE
        BY <1>0, <2>2, <4>2, <4>3, <4>4 DEF Settings
      <4>5. CASE c.arg = FALSE
        BY <1>0, <2>2, <4>2, <4>3, <4>5 DEF Settings
      <4> QED
        BY <4>3, <4>4, <4>5
    <3> QED
      BY <3>1, <3>3, <3>4, <3>5
  <2>4. CASE BeamSet(c) \/ TargetSet(c) \/ Echoed(c) \/ Ended(c)
    <3>1. UNCHANGED <<device, saved>> /\ c.cmd \in {"BEAM", "TARGET", "FINISHED", "EXIT"}
      BY <2>4 DEF BeamSet, TargetSet, Echoed, Ended
    <3>2. /\ Args(toClient', "VOLTAGE") = Args(toClient, "VOLTAGE")
          /\ Args(toClient', "CURRENT") = Args(toClient, "CURRENT")
          /\ Args(toClient', "HV") = Args(toClient, "HV")
      BY <2>1, <3>1
    <3> QED
      BY <1>0, <2>2, <3>1, <3>2 DEF Settings
  <2> QED
    BY <2>1, <2>3, <2>4 DEF Turn
<1>9. CASE Monitor
  <2>1. toAgente' = Append(toAgente, "ERROR")
    BY <1>9 DEF Monitor, Complaint
  <2> QED
    BY <2>1, AnswersAdded DEF Err
<1>10. CASE Interlock
  <2>1. /\ UNCHANGED <<step, asked, hvon, toClient, saved>>
        /\ trips' # 0
    BY <1>10 DEF Interlock, agenteVars, clientVars, TypeOK
  <2> QED
    BY <1>0, <2>1 DEF Settings
<1> QED
  BY <1>1, <1>2, <1>3, <1>4, <1>5, <1>6, <1>7, <1>8, <1>9, <1>10
     DEF Next, Agente, Client, Terminating

\* A test that is prepared or executed goes by its environment.
Requested ==
  step \in {"preparing", "executing"} =>
    /\ beamon = env.xray
    /\ env.xray => /\ hvon
                   /\ asked = [voltage |-> env.voltage, current |-> env.current,
                               target |-> env.target]

LEMMA NextRequested ==
  ASSUME TypeOK, Going => Dialogue, Requested, [Next]_vars
  PROVE  Requested'
<1>1. CASE UNCHANGED vars
  BY <1>1 DEF vars, Requested
<1>2. CASE PrepareTest
  <2>1. Dialogue
    BY <1>2 DEF PrepareTest, Going
  <2>2. /\ beamon' = env'.xray
        /\ env'.xray => /\ hvon' = TRUE
                        /\ asked' = [voltage |-> env'.voltage, current |-> env'.current,
                                     target |-> env'.target]
    BY <1>2, <2>1, Prepared
  <2> QED
    BY <2>2 DEF Requested
<1>3. CASE PhaseOver
  <2>1. /\ UNCHANGED dialogue
        /\ step' \in {"preparing", "executing"} => step = "preparing"
    BY <1>3 DEF PhaseOver, Waits
  <2> QED
    BY <2>1 DEF Requested, dialogue
<1>4. CASE CleanupTest
  BY <1>4 DEF CleanupTest, Requested
<1>5. CASE FinalTestCleanup
  BY <1>5 DEF FinalTestCleanup, Requested
<1>6. CASE CheckFinished
  <2>1. UNCHANGED <<env, asked, hvon, beamon>> /\ step' \in {step, "failed"}
    BY <1>6 DEF CheckFinished
  <2> QED
    BY <2>1 DEF Requested
<1>7. CASE RequestClientExit
  BY <1>7 DEF RequestClientExit, Requested
<1>8. CASE Execute
  BY <1>8, Turns DEF agenteVars, Requested
<1>9. CASE Monitor \/ Interlock
  BY <1>9 DEF Monitor, Interlock, agenteVars, Requested
<1> QED
  BY <1>1, <1>2, <1>3, <1>4, <1>5, <1>6, <1>7, <1>8, <1>9
     DEF Next, Agente, Client, Terminating

\* Without an interlock trip an ERROR comes as an answer to commands only, before
\* their echo: a campaign that waits for nothing has missed no error.
Calm == Going /\ trips = 0 /\ ~pending => ~Err

LEMMA NextCalm ==
  ASSUME TypeOK, Going => Dialogue, Going /\ ~Err => Settings, Calm, [Next]_vars
  PROVE  Calm'
<1> SUFFICES ASSUME Going', trips' = 0, ~pending'
             PROVE  ~Err'
  BY DEF Calm
<1>0. Going /\ Dialogue
  BY Earlier
<1>1. trips = 0
  BY DEF Next, Agente, Client, Terminating, vars, PrepareTest, PhaseOver, CleanupTest,
         FinalTestCleanup, CheckFinished, RequestClientExit, Execute, Monitor, Interlock,
         deviceVars, TypeOK
<1>2. toAgente' = toAgente => (Err <=> Err')
  BY DEF Err, Packets
<1>3. CASE UNCHANGED vars
  BY <1>0, <1>1, <1>2, <1>3 DEF vars, Calm
<1>4. CASE PrepareTest
  BY <1>0, <1>4, Prepared
<1>5. CASE PhaseOver
  BY <1>0, <1>1, <1>2, <1>5 DEF PhaseOver, dialogue, Calm
<1>6. CASE CleanupTest
  <2>1. ~pending /\ toAgente' = toAgente
    BY <1>0, <1>6, NothingWaits DEF CleanupTest
  <2> QED
    BY <1>0, <1>1, <1>2, <2>1 DEF Calm
<1>7. CASE FinalTestCleanup
  BY <1>0, <1>7, Closing
<1>8. CASE CheckFinished
  BY <1>8, Checked DEF Err
<1>9. CASE RequestClientExit
  BY <1>9 DEF RequestClientExit, Going
<1>10. CASE Execute
  BY <1>0, <1>10, Turns DEF agenteVars, Dialogue
<1>11. CASE Monitor
  <2>1. ~pending /\ device # saved
    BY <1>11 DEF Monitor, agenteVars
  <2>2. ~Err
    BY <1>0, <1>1, <2>1 DEF Calm
  <2> QED
    BY <1>0, <1>1, <2>1, <2>2 DEF Settings
<1>12. CASE Interlock
  BY <1>12 DEF Interlock, TypeOK
<1> QED
  BY <1>3, <1>4, <1>5, <1>6, <1>7, <1>8, <1>9, <1>10, <1>11, <1>12
     DEF Next, Agente, Client, Terminating

\* The stage and the shutter of the target t.
Placed(t) ==
  /\ t \in Targets => position = t /\ shutter = 1
  /\ t = Direct => shutter = 3

\* The target asked for last is in the queue or has been set; whatever becomes
\* of the shutters, the stage moves.
Placing ==
  /\ Args(toClient, "TARGET") \subseteq {asked.target}
  /\ Args(toClient, "TARGET") = {} => asked.target = None \/ Placed(asked.target)

LEMMA NextPlacing ==
  ASSUME TypeOK, Going => Dialogue, Going => Placing, [Next]_vars, Going'
  PROVE  Placing'
<1>0. Going /\ Dialogue /\ Placing
  BY Earlier
<1>1. CASE UNCHANGED <<asked, toClient, position, shutter>>
  BY <1>0, <1>1 DEF Placing, Placed
<1>2. CASE PrepareTest
  <2>1. /\ \A w : Args(toClient, w) = {}
        /\ UNCHANGED <<clientVars, deviceVars>>
    BY <1>0, <1>2, Prepared
  <2>2. asked.target = None \/ Placed(asked.target)
    BY <1>0, <2>1 DEF Placing
  <2>3. position' = position /\ shutter' = shutter
    BY <2>1 DEF clientVars, deviceVars
  <2>4. CASE env'.xray
    <3>1. /\ asked' = [voltage |-> env'.voltage, current |-> env'.current,
                       target |-> env'.target]
          /\ Args(toClient', "TARGET") =
               IF env'.target # asked.target THEN {env'.target} ELSE {}
      BY <1>0, <1>2, <2>4, Prepared
    <3>2. asked'.target = env'.target
      BY <3>1
    <3> QED
      BY <2>2, <2>3, <3>1, <3>2 DEF Placing, Placed
  <2>5. CASE ~env'.xray
    <3>1. asked' = asked /\ Args(toClient', "TARGET") = {}
      BY <1>0, <1>2, <2>5, Prepared
    <3> QED
      BY <2>2, <2>3, <3>1 DEF Placing, Placed
  <2> QED
    BY <2>4, <2>5
<1>3. CASE CleanupTest
  <2>1. /\ Args(toClient, "TARGET") = {} /\ Args(toClient', "TARGET") = {}
        /\ UNCHANGED <<asked, clientVars, deviceVars>>
    BY <1>0, <1>3, CleanedUp
  <2> QED
    BY <1>0, <2>1 DEF Placing, Placed, clientVars, deviceVars
<1>4. CASE FinalTestCleanup
  <2>1. /\ Args(toClient, "TARGET") = {} /\ Args(toClient', "TARGET") = {}
        /\ UNCHANGED <<asked, clientVars, deviceVars>>
    BY <1>0, <1>4, Closing
  <2> QED
    BY <1>0, <2>1 DEF Placing, Placed, clientVars, deviceVars
<1>5. CASE CheckFinished
  BY <1>1, <1>5, Checked DEF clientVars, deviceVars
<1>6. CASE Execute
  <2> DEFINE c == Head(toClient)
  <2>1. /\ c \in Command /\ Turn(c)
        /\ UNCHANGED <<agenteVars, trips>>
        /\ \A w : Args(toClient, w) =
             (IF c.cmd = w THEN {c.arg} ELSE {}) \union Args(toClient', w)
    BY <1>6, Turns, TurnTakes
  <2> HIDE DEF c
  <2>2. asked' = asked
    BY <2>1 DEF agenteVars
  <2>3. CASE TargetSet(c) \/ TargetRefused(c)
    <3>1. /\ c.cmd = "TARGET"
          /\ position' = PositionOf(c.arg) /\ shutter' = ShutterOf(c.arg)
      BY <2>3 DEF TargetSet, TargetRefused
    <3>2. Args(toClient, "TARGET") = {c.arg} \union Args(toClient', "TARGET")
      BY <2>1, <3>1
    <3>3. asked.target = c.arg
      BY <1>0, <3>2 DEF Placing
    <3>4. /\ c.arg \in Targets => position' = c.arg /\ shutter' = 1
          /\ c.arg = Direct => shutter' = 3
      BY <3>1, XrayAssumption DEF PositionOf, ShutterOf
    <3>5. asked'.target = c.arg
      BY <2>2, <3>3
    <3> QED
      BY <1>0, <3>2, <3>3, <3>4, <3>5 DEF Placing, Placed
  <2>4. CASE ~(TargetSet(c) \/ TargetRefused(c))
    <3>1. UNCHANGED <<position, shutter>> /\ c.cmd # "TARGET"
      BY <2>1, <2>4 DEF Turn, QuantitySet, QuantityRefused, BeamSet, BeamRefused, Echoed, Ended
    <3>2. Args(toClient', "TARGET") = Args(toClient, "TARGET")
      BY <2>1, <3>1
    <3> QED
      BY <1>0, <2>2, <3>1, <3>2 DEF Placing, Placed
  <2> QED
    BY <2>3, <2>4
<1>7. CASE UNCHANGED vars \/ PhaseOver \/ Monitor \/ Interlock
  BY <1>1, <1>7 DEF vars, PhaseOver, dialogue, clientVars, deviceVars, Monitor, agenteVars,
                    Interlock
<1>8. CASE RequestClientExit
  BY <1>8 DEF RequestClientExit, Going
<1> QED
  BY <1>2, <1>3, <1>4, <1>5, <1>6, <1>7, <1>8
     DEF Next, Agente, Client, Terminating

\* The campaign has failed, or is about to: it waits, and an ERROR is among the
\* packets that it will read.
Failing == ~Going \/ (pending /\ Err)

LEMMA StillFailing ==
  ASSUME TypeOK, Going => Dialogue, [Next]_vars, ~Failing'
  PROVE  ~Failing /\ Going /\ Dialogue
<1>1. Going /\ Dialogue /\ Going' /\ (Err => Err' /\ ~CheckFinished)
  BY Earlier DEF Failing
<1>2. ASSUME pending, Err
      PROVE  FALSE
  <2>1. ~CheckFinished /\ ~pending'
    BY <1>1, <1>2 DEF Failing
  <2> QED
    BY <1>2, <2>1 DEF Next, Agente, Client, Terminating, vars, PrepareTest, PhaseOver, CleanupTest,
         FinalTestCleanup, SetPending, RequestClientExit, Execute, Monitor, Interlock,
         agenteVars, dialogue
<1> QED
  BY <1>1, <1>2 DEF Failing

\* The high voltage is switched off at the end, or an ERROR waits.
Ending ==
  /\ TRUE \notin Args(toClient, "HV")
  /\ conf.turnOffHV /\ Args(toClient, "HV") = {} => ~device.hv

LEMMA NextEnding ==
  ASSUME TypeOK, Going => Dialogue,
         ~Failing /\ step \in {"ending", "over"} => Ending,
         [Next]_vars, ~Failing', step' \in {"ending", "over"}
  PROVE  Ending'
<1>0. ~Failing /\ Going /\ Dialogue
  BY StillFailing
<1>1. CASE FinalTestCleanup
  <2>1. /\ Args(toClient', "HV") = IF conf.turnOffHV THEN {FALSE} ELSE {}
        /\ conf' = conf
    BY <1>0, <1>1, Closing
  <2> QED
    BY <2>1 DEF Ending
<1>2. ASSUME ~FinalTestCleanup
      PROVE  step \in {"ending", "over"}
  BY <1>2, Turns DEF Next, Agente, Client, Terminating, vars, PrepareTest, PhaseOver, CleanupTest,
         CheckFinished, RequestClientExit, Monitor, Interlock, agenteVars, dialogue, Waits
<1>3. CASE ~FinalTestCleanup /\ Execute
  <2> DEFINE c == Head(toClient)
  <2>1. /\ c \in Command /\ Turn(c)
        /\ toClient # << >>
        /\ UNCHANGED <<agenteVars, trips>>
        /\ \A w : Args(toClient, w) =
             (IF c.cmd = w THEN {c.arg} ELSE {}) \union Args(toClient', w)
        /\ QuantityRefused(c) \/ BeamRefused(c) \/ TargetRefused(c) => "ERROR" \in Packets'
    BY <1>3, Turns, TurnTakes
  <2> HIDE DEF c
  <2>2. pending' /\ conf' = conf
    BY <1>0, <2>1 DEF agenteVars, Dialogue
  <2>3. ~(QuantityRefused(c) \/ BeamRefused(c) \/ TargetRefused(c))
    BY <2>1, <2>2 DEF Failing, Err
  <2>4. Ending
    BY <1>0, <1>2, <1>3
  <2>5. CASE QuantitySet(c)
    <3>1. /\ device' = [device EXCEPT ![Quantity(c.cmd)] = c.arg]
          /\ c.cmd \in {"VOLTAGE", "CURRENT", "HV"}
      BY <2>5 DEF QuantitySet
    <3>2. device \in [voltage : Voltages, current : Currents, hv : BOOLEAN]
      BY DEF TypeOK
    <3>3. CASE c.cmd = "HV"
      <4>1. Args(toClient, "HV") = {c.arg} \union Args(toClient', "HV") /\ c.arg \in BOOLEAN
        BY <2>1, <3>3, CommandTypes
      <4>2. c.arg = FALSE
        BY <2>4, <4>1 DEF Ending
      <4>3. device' = [device EXCEPT !.hv = c.arg]
        BY <3>1, <3>3 DEF Quantity
      <4>4. device'.hv = FALSE
        BY <3>2, <4>2, <4>3
      <4> QED
        BY <2>4, <4>1, <4>4 DEF Ending
    <3>4. CASE c.cmd \in {"VOLTAGE", "CURRENT"}
      <4>1. Args(toClient, "HV") = Args(toClient', "HV")
        BY <2>1, <3>4
      <4>2. device'.hv = device.hv
        BY <3>1, <3>2, <3>4 DEF Quantity
      <4> QED
        BY <2>2, <2>4, <4>1, <4>2 DEF Ending
    <3> QED
      BY <3>1, <3>3, <3>4
  <2>6. CASE ~QuantitySet(c)
    <3>1. device' = device /\ c.cmd # "HV"
      BY <2>1, <2>3, <2>6 DEF Turn, BeamSet, TargetSet, Echoed, Ended
    <3>2. Args(toClient, "HV") = Args(toClient', "HV")
      BY <2>1, <3>1
    <3> QED
      BY <2>2, <2>4, <3>1, <3>2 DEF Ending
  <2> QED
    BY <2>5, <2>6
<1>4. CASE ~FinalTestCleanup /\ Interlock
  <2>1. UNCHANGED <<conf, toClient>> /\ device' \in {device, [device EXCEPT !.hv = FALSE]}
    BY <1>4 DEF Interlock, agenteVars
  <2>2. device.hv = FALSE => device'.hv = FALSE
    BY <2>1 DEF TypeOK
  <2>3. device'.hv \in BOOLEAN /\ device.hv \in BOOLEAN
    BY <2>1 DEF TypeOK
  <2> QED
    BY <1>0, <1>2, <1>4, <2>1, <2>2, <2>3 DEF Ending
<1>5. ASSUME ~FinalTestCleanup, ~Execute, ~Interlock
      PROVE  UNCHANGED <<toClient, conf, device>>
  <2>1. step' \notin {"preparing", "cleaning", "exited"}
    OBVIOUS
  <2> QED
    BY <1>5, <2>1 DEF Next, Agente, Client, Terminating, vars, PrepareTest, PhaseOver, CleanupTest,
         CheckFinished, RequestClientExit, Monitor, agenteVars, dialogue, deviceVars
<1>6. CASE ~FinalTestCleanup /\ UNCHANGED <<toClient, conf, device>>
  BY <1>0, <1>2, <1>6 DEF Ending
<1> QED
  BY <1>1, <1>3, <1>4, <1>5, <1>6

-----------------------------------------------------------------------------
(* The beam *)

\* The agente wants the beam on.
WantBeam == beamon = TRUE /\ step \notin {"ending", "over"}

\* One shutter is open at most.
OneShutter == open = {} \/ open = {1} \/ open = {3}

\* The order in the queue: TARGET and BEAM come once each, and a BEAM that
\* switches on waits for a target only while the shutters are closed.
Queued ==
  /\ Once(toClient, "TARGET") /\ Once(toClient, "BEAM")
  /\ TRUE \in Args(toClient, "BEAM") => open \subseteq {shutter}
  /\ TRUE \in Args(toClient, "BEAM") /\ Args(toClient, "TARGET") # {} => open = {}

\* What the commands in the queue say of the will of the agente.
Ordered ==
  /\ TRUE \in Args(toClient, "BEAM") => WantBeam
  /\ FALSE \in Args(toClient, "BEAM") => ~WantBeam
  /\ Args(toClient, "TARGET") # {} => WantBeam

\* As long as nothing has failed the open shutter is the one that the client
\* uses, and it is closed when the agente wants it to be.
Closed ==
  /\ open \subseteq {shutter}
  /\ ~WantBeam /\ Args(toClient, "BEAM") = {} => open = {}

Beam ==
  /\ OneShutter
  /\ Queued
  /\ ~beamed => open = {}
  /\ Going => Ordered
  /\ ~Failing => Closed
  /\ Going /\ ~Err /\ trips = 0 /\ WantBeam /\ Args(toClient, "BEAM") = {} =>
       open = {shutter}

\* A step that leaves the shutters and the commands to them alone.
LEMMA BeamUntouched ==
  ASSUME TypeOK, Going => Dialogue, Beam, [Next]_vars,
         UNCHANGED <<open, shutter, beamed, trips>>,
         Args(toClient', "BEAM") = Args(toClient, "BEAM"),
         Args(toClient', "TARGET") = Args(toClient, "TARGET"),
         Once(toClient', "BEAM"), Once(toClient', "TARGET"),
         Going' => (WantBeam' <=> WantBeam)
  PROVE  Beam'
<1>1. OneShutter' /\ Queued' /\ (~beamed' => open' = {})
  BY DEF Beam, OneShutter, Queued
<1>2. ASSUME Going'
      PROVE  Ordered'
  <2>1. Ordered
    BY <1>2, Earlier DEF Beam
  <2> QED
    BY <1>2, <2>1 DEF Ordered
<1>3. ASSUME ~Failing'
      PROVE  Closed'
  <2>1. Closed /\ Going'
    BY <1>3, StillFailing DEF Beam, Failing
  <2> QED
    BY <2>1 DEF Closed
<1>4. ASSUME Going', ~Err', trips' = 0, WantBeam', Args(toClient', "BEAM") = {}
      PROVE  open' = {shutter'}
  <2>1. Going /\ ~Err
    BY <1>4, Earlier
  <2> QED
    BY <1>4, <2>1 DEF Beam
<1> QED
  BY <1>1, <1>2, <1>3, <1>4 DEF Beam

\* A phase begins while nothing waits, so that the shutters are as they were
\* wanted last.
LEMMA BeamBetween ==
  ASSUME TypeOK, Dialogue, Beam, step \in {"idle", "executing"}
  PROVE  /\ Closed /\ (~WantBeam => open = {})
         /\ WantBeam <=> beamon = TRUE
         /\ ~Err /\ trips = 0 /\ WantBeam => open = {shutter}
<1>1. ~pending /\ \A w : Args(toClient, w) = {}
  BY NothingWaits
<1>2. Going /\ ~Failing
  BY <1>1 DEF Going, Failing
<1> QED
  BY <1>1, <1>2 DEF Beam, Closed, WantBeam

LEMMA BeamPrepared ==
  ASSUME TypeOK, Dialogue, Beam, PrepareTest
  PROVE  Beam'
<1>1. /\ step = "idle" /\ step' = "preparing"
      /\ Once(toClient', "TARGET") /\ Once(toClient', "BEAM")
      /\ UNCHANGED <<toAgente, conf, clientVars, deviceVars>>
      /\ beamon' = env'.xray
  BY Prepared
<1>2. UNCHANGED <<open, shutter, beamed, trips>> /\ (Err' <=> Err)
  BY <1>1 DEF clientVars, deviceVars, Err, Packets
<1>3. /\ Closed /\ (~WantBeam => open = {})
      /\ WantBeam <=> beamon = TRUE
      /\ ~Err /\ trips = 0 /\ WantBeam => open = {shutter}
  BY <1>1, BeamBetween
<1>4. OneShutter' /\ (~beamed' => open' = {})
  BY <1>2 DEF Beam, OneShutter
<1>5. CASE env'.xray
  <2>1. Args(toClient', "BEAM") = IF beamon # TRUE THEN {TRUE} ELSE {}
    BY <1>5, Prepared
  <2>2. WantBeam'
    <3>1. env'.xray \in BOOLEAN
      BY Prepared, XrayAssumption
    <3> QED
      BY <1>1, <1>5, <3>1 DEF WantBeam
  <2>3. FALSE \notin Args(toClient', "BEAM")
    BY <2>1
  <2>4. Args(toClient', "BEAM") = {} => WantBeam
    BY <1>3, <2>1
  <2>5. TRUE \in Args(toClient', "BEAM") => open = {}
    BY <1>3, <2>1
  <2>6. Queued'
    BY <1>1, <1>2, <2>5 DEF Queued
  <2>7. Ordered'
    BY <2>2, <2>3 DEF Ordered
  <2>8. Closed'
    BY <1>2, <1>3, <2>2 DEF Closed
  <2> QED
    BY <1>2, <1>3, <1>4, <2>4, <2>6, <2>7, <2>8 DEF Beam
<1>6. CASE ~env'.xray
  <2>1. /\ Args(toClient', "BEAM") = IF beamon # FALSE THEN {FALSE} ELSE {}
        /\ Args(toClient', "TARGET") = {}
    BY <1>6, Prepared
  <2>2. ~WantBeam'
    BY <1>1, <1>6 DEF WantBeam
  <2>3. TRUE \notin Args(toClient', "BEAM")
    BY <2>1
  <2>4. Args(toClient', "BEAM") = {} => ~WantBeam
    BY <1>3, <2>1
  <2>5. Queued'
    BY <1>1, <2>3 DEF Queued
  <2>6. Ordered'
    BY <2>1, <2>2, <2>3 DEF Ordered
  <2>7. Closed'
    BY <1>2, <1>3, <2>4 DEF Closed
  <2> QED
    BY <1>4, <2>2, <2>5, <2>6, <2>7 DEF Beam
<1> QED
  BY <1>5, <1>6

LEMMA BeamCleanedUp ==
  ASSUME TypeOK, Dialogue, Beam, CleanupTest
  PROVE  Beam'
<1>1. /\ step = "executing" /\ step' = "cleaning"
      /\ Args(toClient', "TARGET") = {}
      /\ Once(toClient', "TARGET") /\ Once(toClient', "BEAM")
      /\ UNCHANGED <<toAgente, clientVars, deviceVars>>
      /\ \/ Args(toClient', "BEAM") = {FALSE} /\ beamon' = FALSE
         \/ Args(toClient', "BEAM") = {} /\ beamon' = beamon
  BY CleanedUp
<1>2. UNCHANGED <<open, shutter, beamed, trips>> /\ (Err' <=> Err)
  BY <1>1 DEF clientVars, deviceVars, Err, Packets
<1>3. /\ Closed /\ (~WantBeam => open = {})
      /\ WantBeam <=> beamon = TRUE
      /\ ~Err /\ trips = 0 /\ WantBeam => open = {shutter}
  BY <1>1, BeamBetween
<1>4. OneShutter' /\ (~beamed' => open' = {})
  BY <1>2 DEF Beam, OneShutter
<1>5. TRUE \notin Args(toClient', "BEAM")
  BY <1>1
<1>6. Queued'
  BY <1>1, <1>5 DEF Queued
<1>7. FALSE \in Args(toClient', "BEAM") => ~WantBeam'
  BY <1>1 DEF WantBeam
<1>8. Args(toClient', "BEAM") = {} => (WantBeam' <=> WantBeam)
  BY <1>1 DEF WantBeam
<1>9. Ordered'
  BY <1>1, <1>5, <1>7 DEF Ordered
<1>10. Closed'
  BY <1>2, <1>3, <1>8 DEF Closed
<1> QED
  BY <1>2, <1>3, <1>4, <1>6, <1>8, <1>9, <1>10 DEF Beam

LEMMA BeamClosing ==
  ASSUME TypeOK, Dialogue, Beam, FinalTestCleanup
  PROVE  Beam'
<1>1. /\ step = "idle" /\ step' = "ending"
      /\ Args(toClient', "TARGET") = {} /\ Args(toClient', "BEAM") = {FALSE}
      /\ Once(toClient', "TARGET") /\ Once(toClient', "BEAM")
      /\ UNCHANGED <<clientVars, deviceVars>>
  BY Closing
<1>2. UNCHANGED <<open, shutter, beamed, trips>>
  BY <1>1 DEF clientVars, deviceVars
<1>3. Closed
  BY <1>1, BeamBetween
<1>4. OneShutter' /\ (~beamed' => open' = {})
  BY <1>2 DEF Beam, OneShutter
<1>5. TRUE \notin Args(toClient', "BEAM") /\ Args(toClient', "BEAM") # {} /\ ~WantBeam'
  BY <1>1 DEF WantBeam
<1>6. Queued' /\ Ordered'
  BY <1>1, <1>5 DEF Queued, Ordered
<1>7. Closed'
  BY <1>2, <1>3, <1>5 DEF Closed
<1> QED
  BY <1>4, <1>5, <1>6, <1>7 DEF Beam

\* A turn of the client with a command for the beam or for the target.
LEMMA BeamTurned ==
  ASSUME TypeOK, Going => Dialogue, Beam, [Next]_vars, Execute
  PROVE  Beam'
<1> DEFINE c == Head(toClient)
<1>1. /\ c \in Command /\ Turn(c)
      /\ toClient # << >>
      /\ UNCHANGED <<agenteVars, trips>>
      /\ \A w : Args(toClient, w) =
           (IF c.cmd = w THEN {c.arg} ELSE {}) \union Args(toClient', w)
      /\ \A w : Once(toClient, w) =>
           Once(toClient', w) /\ (c.cmd = w => Args(toClient', w) = {})
      /\ QuantityRefused(c) \/ BeamRefused(c) \/ TargetRefused(c) => Err'
  BY Turns, TurnTakes DEF Err
<1> HIDE DEF c
<1>2. /\ UNCHANGED <<step, beamon, pending>> /\ (WantBeam' <=> WantBeam)
      /\ (Going' <=> Going)
  BY <1>1 DEF agenteVars, WantBeam, Going
<1>3. Once(toClient', "TARGET") /\ Once(toClient', "BEAM")
  BY <1>1 DEF Beam, Queued
<1>4. Going => pending
  BY <1>1 DEF Dialogue
<1>5. /\ ~Failing' => ~Failing /\ Going
      /\ Going' /\ ~Err' => Going /\ ~Err
  BY StillFailing, Earlier
<1>6. shutter \in {1, 3} /\ open \subseteq {1, 3} /\ open' \subseteq {1, 3} /\ shutter' \in {1, 3}
  BY ExecuteTypes DEF TypeOK
<1>7. CASE c.cmd = "BEAM"
  <2>1. /\ Args(toClient', "BEAM") = {} /\ Args(toClient', "TARGET") = Args(toClient, "TARGET")
        /\ Args(toClient, "BEAM") = {c.arg}
    BY <1>1, <1>7 DEF Beam, Queued
  <2>2. c.arg \in BOOLEAN
    BY <1>1, <1>7, CommandTypes
  <2>3. Queued'
    BY <1>3, <2>1 DEF Queued
  <2>4. Going' => Ordered'
    BY <1>2, <2>1 DEF Beam, Ordered
  <2>5. CASE BeamSet(c) /\ c.arg = TRUE
    <3>1. /\ open' = open \union {shutter} /\ shutter' = shutter /\ beamed' = TRUE
      BY <2>5 DEF BeamSet
    <3>2. open \subseteq {shutter}
      BY <2>1, <2>5 DEF Beam, Queued
    <3>3. open' = {shutter'}
      BY <3>1, <3>2
    <3>4. OneShutter'
      BY <1>6, <3>3 DEF OneShutter
    <3>5. ~Failing' => Closed'
      BY <1>2, <1>5, <2>1, <2>5, <3>3 DEF Closed, Beam, Ordered
    <3> QED
      BY <2>3, <2>4, <3>1, <3>3, <3>4, <3>5 DEF Beam
  <2>6. CASE BeamSet(c) /\ c.arg = FALSE
    <3>1. /\ open' = open \ {shutter} /\ shutter' = shutter
      BY <2>6 DEF BeamSet
    <3>2. beamed' <=> beamed
      BY <2>6, Zenon DEF BeamSet
    <3>3. OneShutter'
      BY <3>1 DEF OneShutter, Beam
    <3>4. ~Failing' => Closed'
      BY <1>5, <3>1 DEF Closed, Beam
    <3>5. Going' => ~WantBeam'
      BY <1>2, <2>1, <2>6 DEF Beam, Ordered
    <3>6. ~beamed' => open' = {}
      BY <3>1, <3>2 DEF Beam
    <3> QED
      BY <2>3, <2>4, <3>3, <3>4, <3>5, <3>6 DEF Beam
  <2>7. CASE BeamRefused(c)
    <3>1. UNCHANGED <<open, shutter, beamed>>
      BY <2>7 DEF BeamRefused
    <3>2. Err' /\ Failing'
      BY <1>1, <1>2, <1>4, <2>7 DEF Failing
    <3>3. OneShutter' /\ (~beamed' => open' = {})
      BY <3>1 DEF OneShutter, Beam
    <3> QED
      BY <2>3, <2>4, <3>2, <3>3 DEF Beam
  <2> QED
    BY <1>1, <1>7, <2>2, <2>5, <2>6, <2>7
       DEF Turn, QuantitySet, QuantityRefused, TargetSet, TargetRefused, Echoed, Ended
<1>8. CASE c.cmd = "TARGET"
  <2>1. /\ Args(toClient', "TARGET") = {} /\ Args(toClient', "BEAM") = Args(toClient, "BEAM")
        /\ Args(toClient, "TARGET") # {}
    BY <1>1, <1>8 DEF Beam, Queued
  <2>2. Going' => Ordered' /\ WantBeam'
    BY <1>2, <2>1 DEF Beam, Ordered
  <2>3. TRUE \in Args(toClient', "BEAM") => open = {}
    BY <2>1 DEF Beam, Queued
  <2>4. CASE TargetSet(c)
    <3>1. /\ open' = IF shutter' # shutter /\ beamed
                       THEN (open \ {shutter}) \union {shutter'} ELSE open
          /\ (beamed' <=> beamed)
      BY <2>4 DEF TargetSet
    <3>2. CASE shutter' # shutter /\ beamed
      <4>1. open' = (open \ {shutter}) \union {shutter'} /\ beamed'
        BY <3>1, <3>2
      <4>2. open' = {shutter'}
        <5>1. \A x \in open \ {shutter} : x = shutter'
          BY <1>6, <3>2
        <5> QED
          BY <4>1, <5>1
      <4>3. OneShutter' /\ Queued'
        BY <1>3, <1>6, <2>1, <4>2 DEF OneShutter, Queued
      <4>4. ~Failing' => Closed'
        BY <1>5, <1>2, <2>2, <4>2 DEF Closed
      <4> QED
        BY <2>2, <4>1, <4>2, <4>3, <4>4 DEF Beam
    <3>3. CASE ~beamed
      <4>1. open' = open /\ ~beamed' /\ open = {}
        BY <3>1, <3>3 DEF Beam
      <4>2. OneShutter' /\ Queued'
        BY <1>3, <2>1, <4>1 DEF OneShutter, Queued
      <4>3. ~Failing' => Closed'
        BY <4>1 DEF Closed
      <4>4. ASSUME Going', ~Err', trips' = 0, WantBeam', Args(toClient', "BEAM") = {}
            PROVE  FALSE
        <5>1. trips' = trips
          BY <1>1
        <5>2. open = {shutter}
          BY <1>2, <1>5, <2>1, <4>4, <5>1 DEF Beam
        <5> QED
          BY <4>1, <5>2
      <4> QED
        BY <2>2, <4>1, <4>2, <4>3, <4>4 DEF Beam
    <3>4. CASE beamed /\ shutter' = shutter
      <4>1. open' = open /\ beamed'
        BY <3>1, <3>4
      <4>2. OneShutter' /\ Queued'
        BY <1>3, <2>1, <2>3, <3>4, <4>1 DEF OneShutter, Queued, Beam
      <4>3. ~Failing' => Closed'
        BY <1>2, <1>5, <2>1, <2>2, <3>4, <4>1 DEF Closed, Beam
      <4>4. trips' = trips
        BY <1>1
      <4>5. Going' /\ ~Err' /\ trips' = 0 /\ WantBeam' /\ Args(toClient', "BEAM") = {} =>
              open' = {shutter'}
        BY <1>2, <1>5, <2>1, <3>4, <4>1, <4>4 DEF Beam
      <4> QED
        BY <2>2, <4>1, <4>2, <4>3, <4>5 DEF Beam
    <3> QED
      BY <3>2, <3>3, <3>4
  <2>5. CASE TargetRefused(c)
    <3>1. open' \in {open, open \ {shutter}} /\ (beamed' <=> beamed)
      BY <2>5 DEF TargetRefused
    <3>2. Err' /\ Failing'
      BY <1>1, <1>2, <1>4, <2>5 DEF Failing
    <3>3. OneShutter' /\ (~beamed' => open' = {})
      BY <3>1 DEF OneShutter, Beam
    <3>4. Queued'
      BY <1>3, <2>1, <2>3, <3>1 DEF Queued
    <3> QED
      BY <2>2, <3>2, <3>3, <3>4 DEF Beam
  <2> QED
    BY <1>1, <1>8, <2>4, <2>5
       DEF Turn, QuantitySet, QuantityRefused, BeamSet, BeamRefused, Echoed, Ended
<1>9. CASE c.cmd \notin {"BEAM", "TARGET"}
  <2>1. UNCHANGED <<open, shutter, beamed>>
    BY <1>1, <1>9 DEF Turn, QuantitySet, QuantityRefused, BeamSet, BeamRefused, TargetSet,
                      TargetRefused, Echoed, Ended
  <2>2. /\ Args(toClient', "BEAM") = Args(toClient, "BEAM")
        /\ Args(toClient', "TARGET") = Args(toClient, "TARGET")
    BY <1>1, <1>9
  <2> QED
    BY <1>1, <1>2, <1>3, <2>1, <2>2, BeamUntouched
<1> QED
  BY <1>7, <1>8, <1>9

\* EXIT is no command to the shutters.
LEMMA BeamExit ==
  ASSUME TypeOK, Beam, RequestClientExit
  PROVE  Beam'
<1>1. /\ toClient' = Append(toClient, EXIT) /\ step' = "exited"
      /\ UNCHANGED <<clientVars, deviceVars>>
  BY DEF RequestClientExit
<1>2. PICK x : x = EXIT
  OBVIOUS
<1>3. x \in Command /\ x.cmd = "EXIT"
  BY <1>2, Commands
<1>4. toClient' = toClient \o <<x>>
  BY <1>1, <1>2, <1>3, AppendProperties, AppendIsConcat DEF TypeOK
<1>5. /\ <<x>> \in Seq(Command)
      /\ \A w : Args(<<x>>, w) = IF "EXIT" = w THEN {x.arg} ELSE {}
      /\ \A w : Once(<<x>>, w)
  BY <1>3, QueueOfOne
<1>6. Args(<<x>>, "BEAM") = {} /\ Args(<<x>>, "TARGET") = {}
  BY <1>5
<1>7. PICK r : r = toClient \o <<x>>
  OBVIOUS
<1>8. /\ \A w : Args(r, w) = Args(toClient, w) \union Args(<<x>>, w)
      /\ \A w : Once(toClient, w) /\ Once(<<x>>, w)
                  /\ (Args(toClient, w) = {} \/ Args(<<x>>, w) = {}) => Once(r, w)
  <2>1. toClient \in Seq(Command) /\ <<x>> \in Seq(Command)
    BY <1>5 DEF TypeOK
  <2>2. /\ \A w : Args(toClient \o <<x>>, w) = Args(toClient, w) \union Args(<<x>>, w)
        /\ \A w : Once(toClient, w) /\ Once(<<x>>, w)
                    /\ (Args(toClient, w) = {} \/ Args(<<x>>, w) = {}) =>
                      Once(toClient \o <<x>>, w)
    BY <2>1, QueueJoined
  <2> QED
    BY <2>2, <1>7
<1>9. toClient' = r
  BY <1>4, <1>7
<1>10. Args(toClient', "BEAM") = Args(toClient, "BEAM")
       /\ Args(toClient', "TARGET") = Args(toClient, "TARGET")
  BY <1>6, <1>8, <1>9
<1>11. Once(toClient', "BEAM") /\ Once(toClient', "TARGET")
  BY <1>5, <1>6, <1>8, <1>9 DEF Beam, Queued
<1>12. UNCHANGED <<open, shutter, beamed>> /\ ~Going' /\ Failing'
  BY <1>1 DEF clientVars, deviceVars, Going, Failing
<1>13. OneShutter' /\ Queued' /\ (~beamed' => open' = {})
  BY <1>10, <1>11, <1>12 DEF Beam, OneShutter, Queued
<1> QED
  BY <1>12, <1>13 DEF Beam

LEMMA NextBeam ==
  ASSUME TypeOK, Going => Dialogue, Beam, [Next]_vars
  PROVE  Beam'
<1>1. CASE PrepareTest \/ CleanupTest \/ FinalTestCleanup
  <2>1. Dialogue
    BY <1>1 DEF PrepareTest, CleanupTest, FinalTestCleanup, Going
  <2> QED
    BY <1>1, <2>1, BeamPrepared, BeamCleanedUp, BeamClosing
<1>2. CASE Execute
  BY <1>2, BeamTurned
<1>3. CASE RequestClientExit
  BY <1>3, BeamExit
<1>4. CASE Interlock
  <2>1. /\ open' = {} \/ open' = open
        /\ UNCHANGED <<agenteVars, clientVars, toClient, toAgente>>
        /\ trips' # 0
    BY <1>4 DEF Interlock, TypeOK
  <2>2. UNCHANGED <<step, beamon, pending, shutter, beamed, toClient, toAgente>>
    BY <2>1 DEF agenteVars, clientVars
  <2>3. (WantBeam' <=> WantBeam) /\ (Going' <=> Going) /\ (Failing' <=> Failing)
    BY <2>2 DEF WantBeam, Going, Failing, Err, Packets
  <2>4. OneShutter' /\ Queued' /\ (~beamed' => open' = {})
    BY <2>1, <2>2 DEF Beam, OneShutter, Queued
  <2>5. Going' => Ordered'
    BY <2>2, <2>3 DEF Beam, Ordered
  <2>6. ~Failing' => Closed'
    BY <2>1, <2>2, <2>3 DEF Beam, Closed
  <2> QED
    BY <2>1, <2>4, <2>5, <2>6 DEF Beam
<1>5. CASE PhaseOver \/ CheckFinished \/ Monitor \/ UNCHANGED vars
  <2>1. UNCHANGED <<toClient, beamon, shutter, beamed, open, trips>>
    BY <1>5 DEF PhaseOver, CheckFinished, Monitor, vars, dialogue, agenteVars, clientVars,
                deviceVars
  <2>2. Going' => (WantBeam' <=> WantBeam)
    BY <1>5, <2>1 DEF PhaseOver, CheckFinished, Monitor, vars, agenteVars, WantBeam, Waits, Going
  <2>3. /\ Args(toClient', "BEAM") = Args(toClient, "BEAM")
        /\ Args(toClient', "TARGET") = Args(toClient, "TARGET")
        /\ Once(toClient', "BEAM") /\ Once(toClient', "TARGET")
    BY <2>1 DEF Beam, Queued
  <2> QED
    BY <2>1, <2>2, <2>3, BeamUntouched
<1> QED
  BY <1>1, <1>2, <1>3, <1>4, <1>5 DEF Next, Agente, Client, Terminating

-----------------------------------------------------------------------------
(* The theorems *)

LEMMA CountNone ==
  ASSUME NEW s, NEW p, \A i \in DOMAIN s : s[i] # p
  PROVE  Count(s, p) = 0
<1>1. {i \in DOMAIN s : s[i] = p} = {}
  OBVIOUS
<1> QED
  BY <1>1, FS_EmptySet DEF Count

LEMMA CountOne ==
  ASSUME NEW s, NEW p, NEW k \in DOMAIN s, s[k] = p, \A i \in DOMAIN s : s[i] = p => i = k
  PROVE  Count(s, p) = 1
<1>1. {i \in DOMAIN s : s[i] = p} = {k}
  OBVIOUS
<1> QED
  BY <1>1, FS_Singleton DEF Count

\* What holds whatever shutters the client finds open.
Inv ==
  /\ TypeOK
  /\ Going => Dialogue
  /\ Going /\ ~Err => Settings
  /\ Calm
  /\ Requested
  /\ Going => Placing
  /\ ~Failing /\ step \in {"ending", "over"} => Ending

LEMMA InitInv ==
  ASSUME Init
  PROVE  Inv
<1>1. TypeOK /\ Dialogue
  BY InitTypes, InitDialogue
<1>2. \A w : Args(toClient, w) = {}
  BY QueueEmpty DEF Init
<1>3. ~Err
  BY DEF Init, Err, Packets
<1>4. Settings /\ Placing
  BY <1>2 DEF Init, Settings, Placing
<1>5. Calm /\ Requested /\ step \notin {"ending", "over"}
  BY <1>3 DEF Init, Calm, Requested
<1> QED
  BY <1>1, <1>4, <1>5 DEF Inv

LEMMA NextInv ==
  ASSUME Inv, [Next]_vars
  PROVE  Inv'
<1> USE DEF Inv
<1>1. TypeOK'
  BY NextTypes
<1>2. Going' => Dialogue'
  BY NextDialogue
<1>3. Going' /\ ~Err' => Settings'
  BY NextSettings
<1>4. Calm'
  BY NextCalm
<1>5. Requested'
  BY NextRequested
<1>6. Going' => Placing'
  BY NextPlacing
<1>7. ~Failing' /\ step' \in {"ending", "over"} => Ending'
  BY NextEnding
<1> QED
  BY <1>1, <1>2, <1>3, <1>4, <1>5, <1>6, <1>7

LEMMA Invariance == Spec => []Inv
<1>1. Init => Inv
  BY InitInv
<1>2. Inv /\ [Next]_vars => Inv'
  BY NextInv
<1> QED
  BY <1>1, <1>2, PTL DEF Spec

\* Every variable of the agente, of the client and of the generator keeps to its
\* type; with it the commands in the /xray channel keep to their kinds.
THEOREM TypeCorrect == Spec => []TypeOK
<1>1. Inv => TypeOK
  BY DEF Inv
<1> QED
  BY <1>1, Invariance, PTL

\* The agente is pending exactly while one FINISHED is on its way, so that no
\* phase of check_finished ends with the echo of an earlier one.
THEOREM OneEchoPerQuestion == Spec => []OneQuestionOneAnswer
<1>1. ASSUME Inv, Going
      PROVE  Count(toClient, FINISHED) + Count(toAgente, "FINISHED") = (IF pending THEN 1 ELSE 0)
  <2>1. Dialogue /\ toClient \in Seq(Command)
    BY <1>1 DEF Inv, TypeOK
  <2>2. \A i \in DOMAIN toClient : toClient[i] = FINISHED <=> i = Len(toClient)
    <3> TAKE i \in DOMAIN toClient
    <3>1. toClient[i] \in Command
      BY <2>1, ElementOfSeq, LenProperties
    <3>2. toClient[i].cmd = "FINISHED" => toClient[i] = FINISHED
      BY <3>1 DEF Command, EXIT
    <3>3. toClient[i].cmd = "FINISHED" <=> i = Len(toClient)
      BY <2>1 DEF Dialogue, Asks
    <3> QED
      BY <3>2, <3>3, Commands
  <2>3. CASE toClient # << >>
    <3>1. Len(toClient) \in DOMAIN toClient
      BY <2>1, <2>3, EmptySeq, LenProperties
    <3>2. Count(toClient, FINISHED) = 1
      BY <2>2, <3>1, CountOne
    <3>3. Count(toAgente, "FINISHED") = 0
      BY <2>1, <2>3, CountNone DEF Dialogue, Packets
    <3> QED
      BY <2>1, <2>3, <3>2, <3>3 DEF Dialogue
  <2>4. CASE toClient = << >>
    <3>1. Count(toClient, FINISHED) = 0
      BY <2>4, CountNone
    <3>2. CASE "FINISHED" \in Packets
      <4>1. PICK k \in DOMAIN toAgente : toAgente[k] = "FINISHED"
        BY <3>2 DEF Packets
      <4>2. Count(toAgente, "FINISHED") = 1
        BY <2>1, <4>1, CountOne DEF Dialogue, OneEcho
      <4> QED
        BY <2>1, <3>1, <3>2, <4>2 DEF Dialogue
    <3>3. CASE "FINISHED" \notin Packets
      <4>1. Count(toAgente, "FINISHED") = 0
        BY <3>3, CountNone DEF Packets
      <4> QED
        BY <2>1, <2>4, <3>1, <3>3, <4>1 DEF Dialogue
    <3> QED
      BY <3>2, <3>3
  <2> QED
    BY <2>3, <2>4
<1>2. Inv => OneQuestionOneAnswer
  BY <1>1 DEF OneQuestionOneAnswer, Going
<1> QED
  BY <1>2, Invariance, PTL

\* A test with x-rays that is executed without its high voltage is reported: the
\* generator differs from what the client takes it for, or the ERROR is there.
THEOREM TripReported == Spec => []TripWillBeReported
<1>1. ASSUME Inv, step = "executing", env.xray, ~device.hv
      PROVE  ReportComes
  <2>1. Dialogue /\ hvon
    BY <1>1 DEF Inv, Going, Requested
  <2>2. Args(toClient, "HV") = {}
    BY <1>1, <2>1, NothingWaits
  <2>3. ~Err => saved.hv
    BY <1>1, <2>1, <2>2 DEF Inv, Going, Settings
  <2> QED
    BY <1>1, <2>3 DEF ReportComes, Err, Packets
<1>2. Inv => TripWillBeReported
  BY <1>1 DEF TripWillBeReported
<1> QED
  BY <1>2, Invariance, PTL

\* With the shutters found closed.
LEMMA BeamInvariance ==
  ASSUME LeftOpen = {}
  PROVE  Spec => [](Inv /\ Beam)
<1>1. ASSUME Init PROVE Beam
  <2>1. open = {}
    BY <1>1 DEF Init
  <2>2. \A w : Args(toClient, w) = {} /\ Once(toClient, w)
    BY <1>1, QueueEmpty DEF Init
  <2>3. ~WantBeam
    BY <1>1, XrayAssumption DEF Init, WantBeam
  <2>4. OneShutter /\ Queued /\ Ordered /\ Closed
    BY <2>1, <2>2 DEF OneShutter, Queued, Ordered, Closed
  <2> QED
    BY <2>1, <2>3, <2>4 DEF Beam
<1>2. Init => Inv /\ Beam
  BY <1>1, InitInv
<1>3. Inv /\ Beam /\ [Next]_vars => (Inv /\ Beam)'
  BY NextInv, NextBeam DEF Inv
<1> QED
  BY <1>2, <1>3, PTL DEF Spec

\* The beam never leaves through two shutters at once, not even when a change of
\* target fails half way.
THEOREM OneBeamOnly ==
  ASSUME LeftOpen = {}
  PROVE  Spec => []OneBeam
<1>1. OneShutter => OneBeam
  <2>1. Cardinality({}) = 0 /\ Cardinality({1}) = 1 /\ Cardinality({3}) = 1
    BY FS_EmptySet, FS_Singleton
  <2> QED
    BY <2>1 DEF OneShutter, OneBeam
<1>2. Inv /\ Beam => OneBeam
  BY <1>1 DEF Beam
<1> QED
  BY <1>2, BeamInvariance, PTL

\* A campaign that ends without an error leaves no beam, and no high voltage if
\* it was to be turned off.
THEOREM LeftSafe ==
  ASSUME LeftOpen = {}
  PROVE  Spec => []SafeAtTheEnd
<1>1. ASSUME Inv, Beam, step = "over"
      PROVE  open = {} /\ (conf.turnOffHV => ~device.hv)
  <2>1. Dialogue /\ Going
    BY <1>1 DEF Inv, Going
  <2>2. ~pending /\ \A w : Args(toClient, w) = {}
    BY <1>1, <2>1, NothingWaits
  <2>3. ~Failing /\ ~WantBeam
    BY <1>1, <2>1, <2>2 DEF Failing, WantBeam
  <2>4. Closed /\ Ending
    BY <1>1, <2>3 DEF Inv, Beam
  <2> QED
    BY <2>2, <2>3, <2>4 DEF Closed, Ending
<1>2. Inv /\ Beam => SafeAtTheEnd
  BY <1>1 DEF SafeAtTheEnd
<1> QED
  BY <1>2, BeamInvariance, PTL

\* A test that is executed, before any interlock trip, has the generator, the
\* stage and the shutters as its environment asks for.
THEOREM ReadyWhenExecuted ==
  ASSUME LeftOpen = {}
  PROVE  Spec => []ReadyForTest
<1>1. ASSUME Inv, Beam, step = "executing", trips = 0, Valid(env.target)
      PROVE  AsRequested(env)
  <2>1. Dialogue /\ Going
    BY <1>1 DEF Inv, Going
  <2>2. ~pending /\ \A w : Args(toClient, w) = {}
    BY <1>1, <2>1, NothingWaits
  <2>3. ~Err /\ ~Failing
    BY <1>1, <2>1, <2>2 DEF Inv, Calm, Failing
  <2>4. Settings /\ Placing /\ Closed /\ Requested
    BY <1>1, <2>1, <2>3 DEF Inv, Beam
  <2>5. device = saved /\ saved \in [voltage : Voltages, current : Currents, hv : BOOLEAN]
    BY <1>1, <2>4 DEF Inv, TypeOK, Settings
  <2>6. env \in Environments /\ env.xray \in BOOLEAN /\ beamon = env.xray
    BY <1>1, <2>4, XrayAssumption DEF Inv, TypeOK, Requested
  <2>7. CASE env.xray
    <3>1. /\ hvon
          /\ asked = [voltage |-> env.voltage, current |-> env.current, target |-> env.target]
      BY <1>1, <2>4, <2>7 DEF Requested
    <3>2. asked.voltage = env.voltage /\ asked.current = env.current /\ asked.target = env.target
      BY <3>1
    <3>3. env.voltage # None /\ env.current # None /\ env.target # None
      BY <2>6, XrayAssumption DEF Voltages, Currents, Labels
    <3>4. saved.voltage = env.voltage /\ saved.current = env.current
      BY <2>2, <2>4, <3>2, <3>3 DEF Settings
    <3>5. saved.hv = TRUE
      BY <1>1, <2>2, <2>4, <2>5, <3>1 DEF Settings
    <3>6. device = [voltage |-> env.voltage, current |-> env.current, hv |-> TRUE]
      BY <2>5, <3>4, <3>5
    <3>7. Placed(env.target)
      BY <2>2, <2>4, <3>2, <3>3 DEF Placing
    <3>8. WantBeam
      BY <1>1, <2>6, <2>7 DEF WantBeam
    <3>9. open = {shutter}
      BY <1>1, <2>1, <2>2, <2>3, <3>8 DEF Beam
    <3> QED
      BY <1>1, <2>7, <3>6, <3>7, <3>9 DEF AsRequested, Placed, Valid
  <2>8. CASE ~env.xray
    <3>1. ~WantBeam
      BY <2>6, <2>8 DEF WantBeam
    <3>2. open = {}
      BY <2>2, <2>4, <3>1 DEF Closed
    <3> QED
      BY <2>8, <3>2 DEF AsRequested
  <2> QED
    BY <2>7, <2>8
<1>2. Inv /\ Beam => ReadyForTest
  BY <1>1 DEF ReadyForTest
<1> QED
  BY <1>2, BeamInvariance, PTL

=============================================================================
