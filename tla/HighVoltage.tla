---------------------------- MODULE HighVoltage ----------------------------
(***************************************************************************)
(* The bias voltage: highVoltage_agente inside elComandante and the        *)
(* process keithleyClient.py that drives a Keithley.                       *)
(*                                                                         *)
(* An IV curve and a leakage current measurement are started before all    *)
(* test boards run in turn and end with a FINISHED of the client.  For     *)
(* every other test the bias is merely on.  The main thread of the client  *)
(* takes one command at a time, and during a sweep none at all; the end of *)
(* a leakage current measurement is reported by a Timer thread.  Nobody    *)
(* waits for :OUTP ON or :OUTP OFF.                                        *)
(*                                                                         *)
(* A definition headed "Deviation" is the next definition with a mistake,  *)
(* and no part of the model.                                               *)
(***************************************************************************)
EXTENDS Integers, Sequences, Packets

CONSTANTS
  NumTests,        \* tests of the campaign
  MaxSweepTries,   \* maxSweepTries of the client
  Duration         \* of a leakage current measurement, in ticks

ASSUME HighVoltageAssumption ==
  /\ NumTests \in Nat
  /\ MaxSweepTries \in Nat \ {0}
  /\ Duration \in Nat \ {0}

VARIABLES
  \* elComandante with its highVoltage_agente
  step,        \* where the campaign stands
  test,        \* tests begun
  kind,        \* kind of the current test
  pending, ivDone, leakageCurrentTestDone,
  \* the /keithley channel
  toClient, toAgente,
  \* keithleyClient
  up,          \* the main loop is running
  sweep,       \* where sweep() stands
  tries,       \* ntries in sweep()
  outputStatus,  \* of the Keithley when the sweep began
  doLeakage,   \* do_leakage_current_measurement
  timer,       \* ticks until the Timer fires
  \* the Keithley
  output,
  \* history
  steady,      \* the output has been on since the leakage measurement began
  measured     \* the measurement of the current test ran to its end

doneVars == <<pending, ivDone, leakageCurrentTestDone>>
agenteVars == <<step, test, kind, doneVars>>
sweepVars == <<sweep, tries, outputStatus>>
leakVars == <<doLeakage, timer>>
history == <<steady, measured>>
vars == <<step, test, kind, pending, ivDone, leakageCurrentTestDone, toClient, toAgente,
          up, sweep, tries, outputStatus, doLeakage, timer, output, steady, measured>>

NoTimer == -1
Kinds == {"IV", "leakage", "cycle", "other"}
Commands == {"ON", "OFF", "SET", "MEAS", "LEAK", "EXIT"}
Answers == {"note", "IV", "LEAK"}    \* anything else, and either FINISHED

TypeOK ==
  /\ step \in {"idle", "preparing", "executing", "over", "given up", "exiting", "stopped"}
  /\ test \in 0..NumTests /\ kind \in Kinds
  /\ {pending, ivDone, leakageCurrentTestDone} \subseteq BOOLEAN
  /\ toClient \in Seq(Commands) /\ toAgente \in Seq(Answers)
  /\ {up, outputStatus, doLeakage, output, steady, measured} \subseteq BOOLEAN
  /\ sweep \in {"none", "running", "results"}
  /\ tries \in 0..(MaxSweepTries - 1)
  /\ timer \in {NoTimer} \union 0..Duration

Init ==
  /\ step = "idle" /\ test = 0 /\ kind = "other"
  /\ pending = FALSE /\ ivDone = TRUE /\ leakageCurrentTestDone = TRUE
  /\ toClient = <<>> /\ toAgente = <<>>
  /\ up = TRUE
  /\ sweep = "none" /\ tries = 0 /\ outputStatus = FALSE
  /\ doLeakage = FALSE /\ timer = NoTimer
  /\ output = FALSE
  /\ steady = FALSE /\ measured = FALSE

-----------------------------------------------------------------------------
(* highVoltage_agente *)

Send(commands) == toClient' = toClient \o commands

\* What prepare_test sends.
Preparation(k) ==
  CASE k \in {"IV", "leakage"} -> <<"SET">>
    [] k = "cycle" -> <<>>
    [] k = "other" -> <<"ON", "OFF", "ON">>

PrepareTest(k) ==
  /\ step = "idle" /\ test < NumTests
  /\ step' = "preparing"
  /\ test' = test + 1
  /\ kind' = k
  /\ Send(Preparation(k))
  /\ toAgente' \in (IF k \in {"IV", "leakage"} THEN ClearedAmongOthers(toAgente)
                                               ELSE {toAgente})
  /\ ivDone' = (ivDone /\ k # "IV")
  /\ leakageCurrentTestDone' = (leakageCurrentTestDone /\ k # "leakage")
  /\ measured' = FALSE
  /\ UNCHANGED <<pending, up, sweepVars, leakVars, output, steady>>

\* Deviation: the output is cycled after the measurement has begun.
LateBias(k) ==
  CASE k = "IV" -> <<"MEAS">>
    [] k = "leakage" -> <<"LEAK", "OFF", "ON">>
    [] OTHER -> <<"ON">>

\* What execute_test sends.
Execution(k) ==
  CASE k = "IV" -> <<"MEAS">>
    [] k = "leakage" -> <<"OFF", "ON", "LEAK">>
    [] OTHER -> <<"ON">>

\* execute_test sends and clears at once; no measurement is that short.
ExecuteTest ==
  /\ step = "preparing"
  /\ step' = "executing"
  /\ Send(Execution(kind))
  /\ toAgente' \in ClearedAmongOthers(toAgente)
  /\ pending' = TRUE
  /\ UNCHANGED <<test, kind, ivDone, leakageCurrentTestDone, up, sweepVars, leakVars,
                 output, history>>

\* Deviation: any answer of the client ends a measurement.
AnyAnswer(answer, k) == k \in {"IV", "leakage"} /\ answer \in Answers

\* Deviation: only the end of an IV curve is looked for.
IVOnly(answer, k) == k = "IV" /\ answer = "IV"

\* checkIVCurveFinished, checkLeakageCurrentFinished.
Finishes(answer, k) == (k = "IV" /\ answer = "IV") \/ (k = "leakage" /\ answer = "LEAK")

\* check_finished takes one packet in a measurement, and all of them otherwise.
CheckFinished ==
  /\ step = "executing" /\ pending /\ toAgente # <<>>
  /\ LET finished == Finishes(Head(toAgente), kind) IN
       /\ ivDone' = (ivDone \/ (kind = "IV" /\ finished))
       /\ leakageCurrentTestDone' =
            (leakageCurrentTestDone \/ (kind = "leakage" /\ finished))
  /\ toAgente' = IF kind \in {"IV", "leakage"} THEN Tail(toAgente) ELSE <<>>
  /\ UNCHANGED <<step, test, kind, pending, toClient, up, sweepVars, leakVars, output,
                 history>>

\* Deviation: the bias is left on after a leakage current measurement.
KeepBias(k) == IF k = "leakage" THEN <<>> ELSE <<"OFF">>

\* What cleanup_test sends.
Cleanup(k) == <<"OFF">>

\* The next phase begins when the other agentes have finished, too.
CleanupTest ==
  /\ step = "executing"
  /\ ivDone /\ leakageCurrentTestDone
  /\ kind \in {"IV", "leakage"} \/ toAgente = <<>>
  /\ step' = "idle"
  /\ Send(Cleanup(kind))
  /\ pending' = FALSE
  /\ UNCHANGED <<test, kind, ivDone, leakageCurrentTestDone, toAgente, up, sweepVars,
                 leakVars, output, history>>

\* The final clean-up of this agente does nothing.
FinalTestCleanup ==
  /\ step = "idle" /\ test = NumTests
  /\ step' = "over"
  /\ UNCHANGED <<test, kind, doneVars, toClient, toAgente, up, sweepVars, leakVars, output,
                 history>>

GiveUp ==
  /\ step \in {"idle", "preparing", "executing", "over"}
  /\ step' = "given up"
  /\ UNCHANGED <<test, kind, doneVars, toClient, toAgente, up, sweepVars, leakVars, output,
                 history>>

\* run() asks the client to exit before it calls killChildren, which does so again;
\* after an error or Ctrl-C only the latter is called.
ExitRequests == IF step = "over" THEN <<"EXIT", "EXIT">> ELSE <<"EXIT">>

RequestClientExit ==
  /\ step \in {"over", "given up"}
  /\ step' = IF step = "over" THEN "exiting" ELSE "stopped"
  /\ Send(ExitRequests)
  /\ UNCHANGED <<test, kind, doneVars, toAgente, up, sweepVars, leakVars, output, history>>

-----------------------------------------------------------------------------
(* keithleyClient *)

Handles(cmd) ==
  /\ up /\ sweep = "none"
  /\ toClient # <<>> /\ Head(toClient) = cmd
  /\ toClient' = Tail(toClient)
  /\ UNCHANGED agenteVars

Report(answer) == toAgente' = Append(toAgente, answer)

Switch(on) ==
  /\ output' = on
  /\ steady' = (steady /\ on)

\* :OUTP ON, :OUTP OFF.
Outp ==
  /\ \/ Handles("ON") /\ Switch(TRUE)
     \/ Handles("OFF") /\ Switch(FALSE)
  /\ UNCHANGED <<toAgente, up, sweepVars, leakVars, measured>>

\* :PROG:IV:START, STOP, STEP and DELAY, or :PROG:LEAKAGECURRENT:TIME.
Set ==
  /\ Handles("SET")
  /\ Report("note")
  /\ UNCHANGED <<up, sweepVars, leakVars, output, history>>

\* :PROG:IV MEAS.  doLinearSweep initialises the Keithley and switches it on.
Meas ==
  /\ Handles("MEAS")
  /\ sweep' = "running" /\ tries' = 0
  /\ outputStatus' = output
  /\ output' = TRUE /\ steady' = FALSE
  /\ Report("note")
  /\ UNCHANGED <<up, leakVars, measured>>

\* Deviation: one try too many.
OneMoreTry == tries < MaxSweepTries

MayTryAgain == tries + 1 < MaxSweepTries

\* The Keithley trips and the sweep is tried again.
Trip ==
  /\ sweep = "running" /\ MayTryAgain
  /\ tries' = tries + 1
  /\ Report("note")
  /\ UNCHANGED <<agenteVars, toClient, up, sweep, outputStatus, leakVars, output, history>>

\* The sweep ends, with a curve or without one, and the packets are cleared.
Results ==
  /\ sweep = "running"
  /\ sweep' = "results"
  /\ Report("note")
  /\ toClient' = Cleared(toClient)
  /\ measured' = TRUE
  /\ UNCHANGED <<agenteVars, up, tries, outputStatus, leakVars, output, steady>>

\* The Keithley is initialised, which switches it off, and set back.
EndSweep ==
  /\ sweep = "results"
  /\ sweep' = "none"
  /\ Switch(outputStatus)
  /\ Report("IV")
  /\ UNCHANGED <<agenteVars, toClient, up, tries, outputStatus, leakVars, measured>>

\* :PROG:LEAKAGECURRENT:START.
Leak ==
  /\ Handles("LEAK")
  /\ doLeakage' = TRUE
  /\ timer' = Duration
  /\ steady' = output
  /\ Report("note")
  /\ UNCHANGED <<up, sweepVars, output, measured>>

Tick ==
  /\ timer > 0
  /\ timer' = timer - 1
  /\ UNCHANGED <<agenteVars, toClient, toAgente, up, sweepVars, doLeakage, output, history>>

\* finish_leakage_current_measurement, in the Timer thread; a client that is
\* closed is no longer heard.
Fire ==
  /\ timer = 0
  /\ timer' = NoTimer
  /\ doLeakage' = FALSE
  /\ toAgente' = IF doLeakage /\ up THEN Append(toAgente, "LEAK") ELSE toAgente
  /\ measured' = (measured \/ steady)
  /\ UNCHANGED <<agenteVars, toClient, up, sweepVars, output, steady>>

\* :EXIT closes the connection and leaves the output as it is.
Exit ==
  /\ Handles("EXIT")
  /\ up' = FALSE
  /\ UNCHANGED <<toAgente, sweepVars, leakVars, output, history>>

-----------------------------------------------------------------------------
Terminating == step \in {"exiting", "stopped"} /\ (~up \/ toClient = <<>>) /\ UNCHANGED vars

Agente ==
  \/ \E k \in Kinds : PrepareTest(k)
  \/ ExecuteTest \/ CheckFinished \/ CleanupTest \/ FinalTestCleanup \/ RequestClientExit
Client == Outp \/ Set \/ Meas \/ Trip \/ Results \/ EndSweep \/ Leak \/ Exit
Timer == Tick \/ Fire

Next == Agente \/ GiveUp \/ Client \/ Timer \/ Terminating

Spec == Init /\ [][Next]_vars

\* Both programs poll, a sweep and its tries are finite, and so is the Timer.
FairSpec == Spec /\ WF_vars(Agente) /\ WF_vars(Client) /\ WF_vars(Timer)

-----------------------------------------------------------------------------
\* A measurement counts as done only when the one of this very test has run to
\* its end, a leakage current measurement with the bias on all the time: neither
\* an answer left over from before nor a note in between ends it.
MeasuredInFull ==
  [][(ivDone' /\ ~ivDone) \/ (leakageCurrentTestDone' /\ ~leakageCurrentTestDone)
       => measured]_vars

\* Between tests, when the modules may be touched, the bias is off as soon as the
\* client has carried out what it was told; a sweep puts back what it found.
OffBetweenTests ==
  step \in {"idle", "over", "exiting"} /\ toClient = <<>> => ~output

\* Every test ends: the end of its measurement is reported and noticed.
TestsEnd == []<>(step \notin {"preparing", "executing"})
=============================================================================
