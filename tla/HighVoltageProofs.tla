------------------------- MODULE HighVoltageProofs -------------------------
(***************************************************************************)
(* Theorems about HighVoltage, for any number of tests, of tries of a      *)
(* sweep and any duration of a leakage current measurement.                *)
(*                                                                         *)
(* Both safety properties rest on where the end of the measurement that is *)
(* waited for can be: still to be asked for, being worked on, or reported, *)
(* and only one of these.  The request is the last command on its way, so  *)
(* the client does nothing else until it has reported (IVInv, LeakInv),    *)
(* and the report is not another one's.  Thus nothing of a measurement is  *)
(* left when its test is cleaned up, and the :OUTP OFF of the clean-up has *)
(* the last word about the bias (BiasInv).                                 *)
(***************************************************************************)
EXTENDS HighVoltage, TLAPS

Has(q, x) == \E i \in DOMAIN q : q[i] = x
Once(q, x) == \A i, j \in DOMAIN q : q[i] = x /\ q[j] = x => i = j
OnlyLast(q, x) == \A i \in DOMAIN q : q[i] = x => i = Len(q)

\* An orderly campaign: nobody has given it up.
Orderly == step \in {"idle", "preparing", "executing", "over", "exiting"}

WaitsForIV == step = "executing" /\ kind = "IV" /\ ~ivDone
WaitsForLeak == step = "executing" /\ kind = "leakage" /\ ~leakageCurrentTestDone

\* What is waited for.
WaitInv ==
  Orderly =>
    /\ ~ivDone => kind = "IV" /\ step \in {"preparing", "executing"}
    /\ ~leakageCurrentTestDone => kind = "leakage" /\ step \in {"preparing", "executing"}
    /\ step = "preparing" /\ kind = "IV" => ~ivDone
    /\ step = "preparing" /\ kind = "leakage" => ~leakageCurrentTestDone

\* Where the IV curve is.
IVInv ==
  Orderly =>
    /\ ~WaitsForIV =>
         sweep = "none" /\ ~Has(toClient, "MEAS") /\ ~Has(toAgente, "IV")
    /\ WaitsForIV =>
         /\ Has(toClient, "MEAS") => sweep = "none" /\ ~Has(toAgente, "IV")
         /\ OnlyLast(toClient, "MEAS")
         /\ sweep # "none" => toClient = <<>> /\ ~Has(toAgente, "IV")
         /\ sweep = "results" => measured
         /\ Has(toAgente, "IV") => measured /\ toClient = <<>>
         /\ Once(toAgente, "IV")

\* The bias is on when the leakage current measurement is begun.
OnBeforeLeak ==
  \A i \in DOMAIN toClient :
    toClient[i] = "LEAK" => IF i = 1 THEN output ELSE toClient[i - 1] = "ON"

\* Where the leakage current measurement is.
LeakInv ==
  Orderly =>
    /\ ~WaitsForLeak =>
         timer = NoTimer /\ ~Has(toClient, "LEAK") /\ ~Has(toAgente, "LEAK")
    /\ WaitsForLeak =>
         /\ Has(toClient, "LEAK") => timer = NoTimer /\ ~Has(toAgente, "LEAK")
         /\ OnlyLast(toClient, "LEAK")
         /\ OnBeforeLeak
         /\ timer # NoTimer => toClient = <<>> /\ ~Has(toAgente, "LEAK") /\ steady
         /\ Has(toAgente, "LEAK") => measured /\ toClient = <<>>
         /\ Once(toAgente, "LEAK")

\* Once the client has carried out the commands q, the bias is off.
GoesOff(q, on) ==
  \/ ~on /\ ~Has(q, "ON")
  \/ \E i \in DOMAIN q : q[i] = "OFF" /\ \A j \in DOMAIN q : q[j] = "ON" => j < i

BiasInv == step \in {"idle", "over", "exiting"} => GoesOff(toClient, output)

Inv == TypeOK /\ WaitInv /\ IVInv /\ LeakInv /\ BiasInv

-----------------------------------------------------------------------------
(* Queues *)

LEMMA QueueSeq ==
  ASSUME NEW S, NEW q \in Seq(S)
  PROVE  /\ q # <<>> => Tail(q) \in Seq(S)
         /\ \A y \in S : Append(q, y) \in Seq(S)
  OBVIOUS

\* What is cleared does not bring anything back.
LEMMA HasLeft ==
  ASSUME NEW S, NEW q \in Seq(S)
  PROVE  /\ Cleared(q) \in Seq(S)
         /\ \A x : ~Has(q, x) => ~Has(Cleared(q), x)
<1>1. /\ Len(q) \div 2 \in Nat
      /\ \A i \in 1..(Len(q) \div 2) : 2 * i \in 1..Len(q)
  OBVIOUS
<1>2. \A i \in 1..(Len(q) \div 2) : q[2 * i] \in S
  BY <1>1
<1>3. Cleared(q) \in Seq(S)
  BY <1>1, <1>2 DEF Cleared
<1>4. \A x : ~Has(q, x) => ~Has(Cleared(q), x)
  BY <1>1 DEF Cleared, Has
<1> QED
  BY <1>3, <1>4

LEMMA HasCleared ==
  ASSUME NEW S, NEW q \in Seq(S), NEW r \in ClearedAmongOthers(q)
  PROVE  /\ r \in Seq(S)
         /\ \A x : ~Has(q, x) => ~Has(r, x) /\ Once(r, x)
<1>0. PICK n \in 0..(Len(q) \div 2) :
        \E stays \in [1..n -> 2..Len(q)] : r = [i \in 1..n |-> q[stays[i]]]
  <2>1. PICK n \in 0..(Len(q) \div 2) :
          r \in {[i \in 1..n |-> q[2 * i + later[i]]] :
                   later \in {f \in [1..n -> 0..(Len(q) - 2 * n)] :
                                \A i \in 2..n : f[i - 1] <= f[i]}}
    BY DEF ClearedAmongOthers
  <2>2. PICK later \in [1..n -> 0..(Len(q) - 2 * n)] : r = [i \in 1..n |-> q[2 * i + later[i]]]
    BY <2>1
  <2>3. PICK stays : stays = [i \in 1..n |-> 2 * i + later[i]]
    OBVIOUS
  <2>4. \A i \in 1..n : 2 * i + later[i] \in 2..Len(q)
    <3> TAKE i \in 1..n
    <3>1. later[i] \in 0..(Len(q) - 2 * n) /\ Len(q) \in Nat
      OBVIOUS
    <3> QED
      BY <3>1
  <2>5. stays \in [1..n -> 2..Len(q)] /\ r = [i \in 1..n |-> q[stays[i]]]
    BY <2>2, <2>3, <2>4
  <2> QED
    BY <2>5
<1>1. PICK stays \in [1..n -> 2..Len(q)] : r = [i \in 1..n |-> q[stays[i]]]
  BY <1>0
<1>2. /\ n \in Nat
      /\ \A i \in 1..n : stays[i] \in DOMAIN q /\ r[i] = q[stays[i]]
      /\ DOMAIN r = 1..n
  BY <1>1
<1>3. r \in Seq(S)
  <2>1. \A i \in 1..n : q[stays[i]] \in S
    BY <1>2
  <2> QED
    BY <1>1, <1>2, <2>1
<1>4. ASSUME NEW x, ~Has(q, x) PROVE ~Has(r, x) /\ Once(r, x)
  BY <1>2, <1>4 DEF Has, Once
<1> QED
  BY <1>3, <1>4

LEMMA HasAppend ==
  ASSUME NEW S, NEW q \in Seq(S), NEW y \in S, NEW x
  PROVE  /\ Has(Append(q, y), x) <=> Has(q, x) \/ y = x
         /\ Once(q, x) /\ (y # x \/ ~Has(q, x)) => Once(Append(q, y), x)
  BY DEF Has, Once

LEMMA HasConcat ==
  ASSUME NEW S, NEW q \in Seq(S), NEW r \in Seq(S), NEW x
  PROVE  Has(q \o r, x) <=> Has(q, x) \/ Has(r, x)
<1>1. /\ \A i \in DOMAIN q : i \in DOMAIN (q \o r) /\ (q \o r)[i] = q[i]
      /\ \A i \in DOMAIN r : i + Len(q) \in DOMAIN (q \o r) /\ (q \o r)[i + Len(q)] = r[i]
      /\ \A i \in DOMAIN (q \o r) :
           \/ i \in DOMAIN q /\ (q \o r)[i] = q[i]
           \/ i - Len(q) \in DOMAIN r /\ (q \o r)[i] = r[i - Len(q)]
  OBVIOUS
<1> QED
  BY <1>1 DEF Has

LEMMA HasTail ==
  ASSUME NEW S, NEW q \in Seq(S), q # <<>>, NEW x
  PROVE  /\ Tail(q) \in Seq(S) /\ Head(q) \in S
         /\ Has(Tail(q), x) => Has(q, x)
         /\ Head(q) = x => Has(q, x)
         /\ Once(q, x) => Once(Tail(q), x)
         /\ Once(q, x) /\ Head(q) = x => ~Has(Tail(q), x)
         /\ OnlyLast(q, x) => OnlyLast(Tail(q), x)
         /\ OnlyLast(q, x) /\ Head(q) = x => Tail(q) = <<>>
<1>1. /\ Tail(q) \in Seq(S) /\ Head(q) \in S /\ Head(q) = q[1]
      /\ Len(q) \in Nat /\ Len(q) > 0 /\ Len(Tail(q)) = Len(q) - 1
      /\ DOMAIN Tail(q) = 1..(Len(q) - 1) /\ DOMAIN q = 1..Len(q)
      /\ \A i \in DOMAIN Tail(q) : i + 1 \in DOMAIN q /\ Tail(q)[i] = q[i + 1]
  OBVIOUS
<1>2. 1 \in DOMAIN q
  BY <1>1
<1>3. Has(Tail(q), x) => Has(q, x)
  BY <1>1 DEF Has
<1>4. Once(q, x) => Once(Tail(q), x)
  BY <1>1 DEF Once
<1>5. Once(q, x) /\ Head(q) = x => ~Has(Tail(q), x)
  BY <1>1, <1>2 DEF Once, Has
<1>6. OnlyLast(q, x) => OnlyLast(Tail(q), x)
  BY <1>1 DEF OnlyLast
<1>7. OnlyLast(q, x) /\ Head(q) = x => Tail(q) = <<>>
  BY <1>1, <1>2 DEF OnlyLast
<1> QED
  BY <1>1, <1>2, <1>3, <1>4, <1>5, <1>6, <1>7 DEF Has

-----------------------------------------------------------------------------
(* Types *)

\* What the agente sends, and that it asks for a measurement only to start a test.
LEMMA Sent ==
  /\ \A k \in Kinds :
       /\ Preparation(k) \in Seq(Commands)
       /\ ~Has(Preparation(k), "MEAS") /\ ~Has(Preparation(k), "LEAK")
       /\ Execution(k) \in Seq(Commands)
       /\ Has(Execution(k), "MEAS") => k = "IV"
       /\ Has(Execution(k), "LEAK") => k = "leakage"
       /\ Cleanup(k) \in Seq(Commands)
       /\ ~Has(Cleanup(k), "MEAS") /\ ~Has(Cleanup(k), "LEAK")
  /\ ExitRequests \in Seq(Commands)
  /\ ~Has(ExitRequests, "MEAS") /\ ~Has(ExitRequests, "LEAK") /\ ~Has(ExitRequests, "ON")
<1>1. ASSUME NEW k \in Kinds
      PROVE  /\ Preparation(k) \in Seq(Commands)
             /\ ~Has(Preparation(k), "MEAS") /\ ~Has(Preparation(k), "LEAK")
  <2>1. CASE k = "IV"
    BY <2>1 DEF Preparation, Commands, Has
  <2>2. CASE k = "leakage"
    BY <2>2 DEF Preparation, Commands, Has
  <2>3. CASE k = "cycle"
    BY <2>3 DEF Preparation, Commands, Has
  <2>4. CASE k = "other"
    <3>1. Preparation(k) = <<"ON", "OFF", "ON">>
      BY <2>4 DEF Preparation
    <3> QED
      BY <3>1 DEF Commands, Has
  <2> QED
    BY <2>1, <2>2, <2>3, <2>4 DEF Kinds
<1>2. ASSUME NEW k \in Kinds
      PROVE  /\ Execution(k) \in Seq(Commands)
             /\ Has(Execution(k), "MEAS") => k = "IV"
             /\ Has(Execution(k), "LEAK") => k = "leakage"
  <2>1. CASE k = "IV"
    BY <2>1 DEF Execution, Commands, Has
  <2>2. CASE k = "leakage"
    BY <2>2 DEF Execution, Commands, Has
  <2>3. CASE k \notin {"IV", "leakage"}
    <3>1. Execution(k) = <<"ON">>
      BY <2>3 DEF Execution
    <3> QED
      BY <3>1 DEF Commands, Has
  <2> QED
    BY <2>1, <2>2, <2>3
<1>3. ASSUME NEW k \in Kinds
      PROVE  /\ Cleanup(k) \in Seq(Commands)
             /\ ~Has(Cleanup(k), "MEAS") /\ ~Has(Cleanup(k), "LEAK")
  BY DEF Cleanup, Commands, Has
<1>4. /\ ExitRequests \in Seq(Commands)
      /\ ~Has(ExitRequests, "MEAS") /\ ~Has(ExitRequests, "LEAK") /\ ~Has(ExitRequests, "ON")
  <2>1. CASE step = "over"
    BY <2>1 DEF ExitRequests, Commands, Has
  <2>2. CASE step # "over"
    BY <2>2 DEF ExitRequests, Commands, Has
  <2> QED
    BY <2>1, <2>2
<1> QED
  BY <1>1, <1>2, <1>3, <1>4

LEMMA SentTypes ==
  /\ \A k \in Kinds : /\ Preparation(k) \in Seq(Commands)
                     /\ Execution(k) \in Seq(Commands)
                     /\ Cleanup(k) \in Seq(Commands)
  /\ ExitRequests \in Seq(Commands)
  BY Sent

LEMMA QueueConcat ==
  ASSUME NEW S, NEW q \in Seq(S), NEW r \in Seq(S)
  PROVE  q \o r \in Seq(S)
  OBVIOUS

LEMMA InitInv == Init => Inv
<1> SUFFICES ASSUME Init PROVE Inv
  OBVIOUS
<1>1. TypeOK
  <2>1. {pending, ivDone, leakageCurrentTestDone} \subseteq BOOLEAN
    BY Zenon DEF Init
  <2>2. {up, outputStatus, doLeakage, output, steady, measured} \subseteq BOOLEAN
    BY Zenon DEF Init
  <2> QED
    BY <2>1, <2>2, HighVoltageAssumption DEF Init, TypeOK, Kinds, NoTimer
<1>2. WaitInv /\ IVInv /\ LeakInv /\ BiasInv
  BY DEF Init, WaitInv, IVInv, LeakInv, BiasInv, Orderly, WaitsForIV, WaitsForLeak, Has,
         GoesOff
<1> QED
  BY <1>1, <1>2 DEF Inv

LEMMA Counters ==
  /\ 0 \in 0..(MaxSweepTries - 1) /\ Duration \in 0..Duration
  /\ tries \in 0..(MaxSweepTries - 1) /\ MayTryAgain => tries + 1 \in 0..(MaxSweepTries - 1)
  /\ timer \in {NoTimer} \union 0..Duration /\ timer > 0 => timer - 1 \in 0..Duration
  BY HighVoltageAssumption DEF MayTryAgain, NoTimer

\* Every step keeps the variables in their types.
LEMMA NextTypeOK == TypeOK /\ [Next]_vars => TypeOK'
<1> SUFFICES ASSUME TypeOK, [Next]_vars PROVE TypeOK'
  OBVIOUS
<1> USE HighVoltageAssumption DEF TypeOK, doneVars, agenteVars, sweepVars, leakVars, history
<1>c. /\ Cleared(toClient) \in Seq(Commands)
      /\ \A r \in ClearedAmongOthers(toAgente) : r \in Seq(Answers)
  BY HasLeft, HasCleared
<1>t. /\ toClient # <<>> => Tail(toClient) \in Seq(Commands)
      /\ toAgente # <<>> => Tail(toAgente) \in Seq(Answers)
  BY QueueSeq
<1>r. /\ Append(toAgente, "note") \in Seq(Answers)
      /\ Append(toAgente, "IV") \in Seq(Answers)
      /\ Append(toAgente, "LEAK") \in Seq(Answers)
  BY QueueSeq DEF Answers
<1>1. ASSUME NEW k \in Kinds, PrepareTest(k) PROVE TypeOK'
  <2>1. {pending', ivDone', leakageCurrentTestDone'} \subseteq BOOLEAN
    BY <1>1, Zenon DEF PrepareTest
  <2>3. {up', outputStatus', doLeakage', output', steady', measured'} \subseteq BOOLEAN
    BY <1>1, Zenon DEF PrepareTest
  <2>2. toClient' \in Seq(Commands) /\ toAgente' \in Seq(Answers)
    BY <1>1, <1>c, SentTypes, QueueConcat DEF PrepareTest, Send
  <2> QED
    BY <1>1, <2>1, <2>2, <2>3 DEF PrepareTest
<1>2. CASE ExecuteTest
  <2>2. toClient' \in Seq(Commands) /\ toAgente' \in Seq(Answers)
    BY <1>2, <1>c, SentTypes, QueueConcat DEF ExecuteTest, Send
  <2> QED
    BY <1>2, <2>2 DEF ExecuteTest
<1>3. CASE CheckFinished
  <2>1. {ivDone', leakageCurrentTestDone'} \subseteq BOOLEAN
    BY <1>3, Zenon DEF CheckFinished
  <2>2. toAgente' \in Seq(Answers)
    BY <1>3, <1>t DEF CheckFinished
  <2> QED
    BY <1>3, <2>1, <2>2 DEF CheckFinished
<1>4. CASE CleanupTest
  <2>1. {pending', ivDone', leakageCurrentTestDone'} \subseteq BOOLEAN
    BY <1>4, Zenon DEF CleanupTest
  <2>2. toClient' \in Seq(Commands)
    BY <1>4, SentTypes, QueueConcat DEF CleanupTest, Send
  <2> QED
    BY <1>4, <2>1, <2>2 DEF CleanupTest
<1>5. CASE FinalTestCleanup
  BY <1>5 DEF FinalTestCleanup
<1>6. CASE RequestClientExit
  <2>1. toClient' \in Seq(Commands)
    BY <1>6, SentTypes, QueueConcat DEF RequestClientExit, Send
  <2> QED
    BY <1>6, <2>1 DEF RequestClientExit
<1>7. CASE GiveUp
  BY <1>7 DEF GiveUp
<1>8. CASE Outp
  <2>1. {output', steady'} \subseteq BOOLEAN
    BY <1>8, Zenon DEF Outp, Switch
  <2> QED
    BY <1>8, <1>t, <2>1 DEF Outp, Handles
<1>9. CASE Set
  BY <1>9, <1>t, <1>r DEF Set, Handles, Report
<1>10. CASE Meas
  <2>1. {up', outputStatus', doLeakage', output', steady', measured'} \subseteq BOOLEAN
    BY <1>10, Zenon DEF Meas
  <2>2. toClient' \in Seq(Commands) /\ toAgente' \in Seq(Answers)
    BY <1>10, <1>t, <1>r DEF Meas, Handles, Report
  <2> QED
    BY <1>10, <2>1, <2>2, Counters DEF Meas, Handles
<1>11. CASE Trip
  <2>1. tries' \in 0..(MaxSweepTries - 1)
    BY <1>11, Counters DEF Trip
  <2> QED
    BY <1>11, <2>1, <1>r DEF Trip, Report
<1>12. CASE Results
  BY <1>12, <1>r, <1>c DEF Results, Report, Answers
<1>13. CASE EndSweep
  <2>1. {output', steady'} \subseteq BOOLEAN
    BY <1>13, Zenon DEF EndSweep, Switch
  <2> QED
    BY <1>13, <2>1, <1>r DEF EndSweep, Report, Answers
<1>14. CASE Leak
  <2>1. {up', outputStatus', doLeakage', output', steady', measured'} \subseteq BOOLEAN
    BY <1>14, Zenon DEF Leak
  <2>2. toClient' \in Seq(Commands) /\ toAgente' \in Seq(Answers)
    BY <1>14, <1>t, <1>r DEF Leak, Handles, Report
  <2> QED
    BY <1>14, <2>1, <2>2, Counters DEF Leak, Handles
<1>15. CASE Exit
  BY <1>15, <1>t DEF Exit, Handles
<1>16. CASE Tick
  <2>1. timer' \in {NoTimer} \union 0..Duration
    BY <1>16, Counters DEF Tick
  <2> QED
    BY <1>16, <2>1 DEF Tick
<1>17. CASE Fire
  <2>1. measured' \in BOOLEAN
    BY <1>17, Zenon DEF Fire
  <2> QED
    BY <1>17, <2>1, <1>r DEF Fire, Answers, NoTimer
<1>18. CASE UNCHANGED vars
  BY <1>18 DEF vars
<1> QED
  BY <1>1, <1>2, <1>3, <1>4, <1>5, <1>6, <1>7, <1>8, <1>9, <1>10, <1>11, <1>12, <1>13,
     <1>14, <1>15, <1>16, <1>17, <1>18 DEF Next, Agente, Client, Timer, Terminating

-----------------------------------------------------------------------------
(* What is waited for *)

LEMMA NextWaitInv == WaitInv /\ [Next]_vars => WaitInv'
<1> SUFFICES ASSUME WaitInv, [Next]_vars PROVE WaitInv'
  OBVIOUS
<1> USE DEF WaitInv, Orderly, doneVars, agenteVars, sweepVars, leakVars, history
<1>1. ASSUME NEW k \in Kinds, PrepareTest(k) PROVE WaitInv'
  BY <1>1 DEF PrepareTest
<1>2. CASE ExecuteTest
  BY <1>2 DEF ExecuteTest
<1>3. CASE CheckFinished
  BY <1>3 DEF CheckFinished
<1>4. CASE CleanupTest
  BY <1>4 DEF CleanupTest
<1>5. CASE FinalTestCleanup \/ GiveUp
  BY <1>5 DEF FinalTestCleanup, GiveUp
<1>6. CASE RequestClientExit
  BY <1>6 DEF RequestClientExit
<1>7. CASE Client \/ Timer \/ UNCHANGED vars
  <2>1. UNCHANGED agenteVars
    BY <1>7 DEF Client, Timer, Outp, Set, Meas, Trip, Results, EndSweep, Leak, Exit, Tick,
                Fire, Handles, vars
  <2> QED
    BY <2>1
<1> QED
  BY <1>1, <1>2, <1>3, <1>4, <1>5, <1>6, <1>7 DEF Next, Agente, Terminating

-----------------------------------------------------------------------------
(* Where the IV curve is *)

LEMMA Queues ==
  ASSUME TypeOK
  PROVE  toClient \in Seq(Commands) /\ toAgente \in Seq(Answers) /\ kind \in Kinds
  BY DEF TypeOK

\* A command added at the end is the only one of its kind if there was none.
LEMMA LastIsOnly ==
  ASSUME NEW S, NEW q \in Seq(S), NEW r \in Seq(S), NEW x,
         ~Has(q, x), OnlyLast(r, x)
  PROVE  OnlyLast(q \o r, x)
<1>1. \A i \in DOMAIN (q \o r) :
        \/ i \in DOMAIN q /\ (q \o r)[i] = q[i]
        \/ i - Len(q) \in DOMAIN r /\ (q \o r)[i] = r[i - Len(q)] /\ i \in Int
  OBVIOUS
<1>2. Len(q \o r) = Len(q) + Len(r) /\ Len(q) \in Nat /\ Len(r) \in Nat
  OBVIOUS
<1> QED
  BY SMTT(30), <1>1, <1>2 DEF Has, OnlyLast

LEMMA ExecutionEnds ==
  /\ OnlyLast(Execution("IV"), "MEAS")
  /\ OnlyLast(Execution("leakage"), "LEAK")
  BY DEF OnlyLast, Execution

\* An answer that is reported does not matter to who waits for another one.
LEMMA OtherAnswer ==
  ASSUME TypeOK, NEW y \in Answers, NEW x, y # x,
         toAgente' = toAgente \/ toAgente' = Append(toAgente, y)
  PROVE  /\ Has(toAgente', x) <=> Has(toAgente, x)
         /\ Once(toAgente, x) => Once(toAgente', x)
<1>1. CASE toAgente' = toAgente
  BY <1>1
<1>2. CASE toAgente' = Append(toAgente, y)
  BY <1>2, Queues, HasAppend
<1> QED
  BY <1>1, <1>2

LEMMA NextIVInv == TypeOK /\ WaitInv /\ IVInv /\ [Next]_vars => IVInv'
<1> SUFFICES ASSUME TypeOK, WaitInv, IVInv, [Next]_vars PROVE IVInv'
  OBVIOUS
<1> USE DEF IVInv, WaitsForIV, Orderly, doneVars, agenteVars, sweepVars, leakVars, history
<1>1. ASSUME NEW k \in Kinds, PrepareTest(k) PROVE IVInv'
  <2>1. ~Has(toClient', "MEAS")
    BY <1>1, Queues, Sent, SentTypes, HasConcat DEF PrepareTest, Send
  <2>2. ~Has(toAgente', "IV")
    BY <1>1, Queues, HasCleared DEF PrepareTest
  <2> QED
    BY <1>1, <2>1, <2>2 DEF PrepareTest
<1>2. CASE ExecuteTest
  <2>1. ~Has(toClient, "MEAS") /\ sweep = "none"
    BY <1>2 DEF ExecuteTest
  <2>2. ~Has(toAgente', "IV") /\ Once(toAgente', "IV")
    BY <1>2, Queues, HasCleared DEF ExecuteTest
  <2>3. CASE kind = "IV"
    <3>1. OnlyLast(toClient', "MEAS")
      BY <1>2, <2>1, <2>3, Queues, SentTypes, LastIsOnly, ExecutionEnds DEF ExecuteTest, Send
    <3> QED
      BY <1>2, <2>1, <2>2, <2>3, <3>1 DEF ExecuteTest, WaitInv
  <2>4. CASE kind # "IV"
    <3>1. ~Has(toClient', "MEAS")
      BY <1>2, <2>1, <2>4, Queues, Sent, SentTypes, HasConcat DEF ExecuteTest, Send
    <3> QED
      BY <1>2, <2>1, <2>2, <2>4, <3>1 DEF ExecuteTest
  <2> QED
    BY <2>3, <2>4
<1>3. CASE CheckFinished
  <2>1. toAgente' = Tail(toAgente) \/ ~WaitsForIV
    BY <1>3 DEF CheckFinished
  <2>2. /\ Has(toAgente', "IV") => Has(toAgente, "IV")
        /\ Once(toAgente, "IV") => Once(Tail(toAgente), "IV")
        /\ Once(toAgente, "IV") /\ Head(toAgente) = "IV" => ~Has(Tail(toAgente), "IV")
        /\ Head(toAgente) = "IV" => Has(toAgente, "IV")
    <3>1. toAgente # <<>> /\ toAgente' \in {Tail(toAgente), <<>>}
      BY <1>3 DEF CheckFinished
    <3>2. ~Has(<<>>, "IV")
      BY DEF Has
    <3> QED
      BY <3>1, <3>2, Queues, HasTail
  <2>3. CASE WaitsForIV /\ Head(toAgente) = "IV"
    BY <1>3, <2>2, <2>3 DEF CheckFinished, Finishes
  <2>4. CASE WaitsForIV /\ Head(toAgente) # "IV"
    BY <1>3, <2>2, <2>4 DEF CheckFinished, Finishes
  <2>5. CASE ~WaitsForIV
    BY <1>3, <2>2, <2>5 DEF CheckFinished
  <2> QED
    BY <2>3, <2>4, <2>5
<1>4. CASE CleanupTest
  <2>1. ~Has(toClient', "MEAS")
    BY <1>4, Queues, Sent, SentTypes, HasConcat DEF CleanupTest, Send
  <2> QED
    BY <1>4, <2>1 DEF CleanupTest
<1>5. CASE FinalTestCleanup \/ GiveUp
  BY <1>5 DEF FinalTestCleanup, GiveUp
<1>6. CASE RequestClientExit
  <2>1. Orderly => ~Has(toClient', "MEAS")
    BY <1>6, Queues, Sent, SentTypes, HasConcat DEF RequestClientExit, Send
  <2> QED
    BY <1>6, <2>1 DEF RequestClientExit
<1>7. CASE Outp \/ Set \/ Leak \/ Exit
  <2>1. /\ sweep = "none" /\ toClient # <<>> /\ toClient' = Tail(toClient)
        /\ Head(toClient) # "MEAS"
        /\ UNCHANGED <<agenteVars, sweep, measured>>
    BY <1>7 DEF Outp, Set, Leak, Exit, Handles
  <2>2. toAgente' = toAgente \/ toAgente' = Append(toAgente, "note")
    BY <1>7 DEF Outp, Set, Leak, Exit, Report
  <2>3. /\ Has(toClient', "MEAS") => Has(toClient, "MEAS")
        /\ OnlyLast(toClient, "MEAS") => OnlyLast(toClient', "MEAS")
    BY <2>1, Queues, HasTail
  <2>4. /\ Has(toAgente', "IV") <=> Has(toAgente, "IV")
        /\ Once(toAgente, "IV") => Once(toAgente', "IV")
    BY <2>2, OtherAnswer DEF Answers
  <2> QED
    BY <2>1, <2>3, <2>4
<1>8. CASE Meas
  <2>1. /\ toClient # <<>> /\ toClient' = Tail(toClient) /\ Head(toClient) = "MEAS"
        /\ sweep' = "running" /\ UNCHANGED agenteVars
        /\ toAgente' = Append(toAgente, "note")
    BY <1>8 DEF Meas, Handles, Report
  <2>2. /\ Has(toClient, "MEAS")
        /\ OnlyLast(toClient, "MEAS") => toClient' = <<>>
        /\ OnlyLast(toClient, "MEAS") => OnlyLast(toClient', "MEAS")
    BY <2>1, Queues, HasTail
  <2>3. /\ Has(toAgente', "IV") <=> Has(toAgente, "IV")
        /\ Once(toAgente, "IV") => Once(toAgente', "IV")
    BY <2>1, OtherAnswer DEF Answers
  <2>4. ~Has(<<>>, "MEAS")
    BY DEF Has
  <2> QED
    BY <2>1, <2>2, <2>3, <2>4
<1>9. CASE Trip \/ Results
  <2>1. /\ sweep = "running" /\ sweep' \in {"running", "results"}
        /\ sweep' = "results" => measured' = TRUE
        /\ UNCHANGED agenteVars /\ toAgente' = Append(toAgente, "note")
        /\ toClient' \in {toClient, Cleared(toClient)}
    BY <1>9 DEF Trip, Results, Report
  <2>2. /\ Has(toAgente', "IV") <=> Has(toAgente, "IV")
        /\ Once(toAgente, "IV") => Once(toAgente', "IV")
    BY <2>1, OtherAnswer DEF Answers
  <2>3. toClient = <<>> => toClient' = <<>>
    BY <2>1 DEF Cleared
  <2>4. ~Has(<<>>, "MEAS") /\ OnlyLast(<<>>, "MEAS")
    BY DEF Has, OnlyLast
  <2> QED
    BY <2>1, <2>2, <2>3, <2>4
<1>10. CASE EndSweep
  <2>1. /\ sweep = "results" /\ sweep' = "none"
        /\ UNCHANGED <<agenteVars, toClient, measured>> /\ toAgente' = Append(toAgente, "IV")
    BY <1>10 DEF EndSweep, Report
  <2>2. /\ Has(toAgente', "IV")
        /\ Once(toAgente, "IV") /\ ~Has(toAgente, "IV") => Once(toAgente', "IV")
    BY <2>1, Queues, HasAppend DEF Answers
  <2>3. ~Has(<<>>, "MEAS") /\ OnlyLast(<<>>, "MEAS")
    BY DEF Has, OnlyLast
  <2> QED
    BY <2>1, <2>2, <2>3
<1>11. CASE Timer
  <2>1. /\ UNCHANGED <<step, kind, ivDone, toClient, sweep>>
        /\ toAgente' \in {toAgente, Append(toAgente, "LEAK")}
    BY <1>11 DEF Timer, Tick, Fire
  <2>2. /\ Has(toAgente', "IV") <=> Has(toAgente, "IV")
        /\ Once(toAgente, "IV") => Once(toAgente', "IV")
    BY <2>1, OtherAnswer DEF Answers
  <2>3. measured => measured'
    BY <1>11, Zenon DEF Timer, Tick, Fire
  <2> QED
    BY <2>1, <2>2, <2>3, Zenon
<1>12. CASE UNCHANGED vars
  BY <1>12 DEF vars
<1> QED
  BY <1>1, <1>2, <1>3, <1>4, <1>5, <1>6, <1>7, <1>8, <1>9, <1>10, <1>11, <1>12
  DEF Next, Agente, Client, Terminating

-----------------------------------------------------------------------------
(* Where the leakage current measurement is *)

\* The bias is still on before the measurement when a command has been taken.
LEMMA OnStays ==
  ASSUME TypeOK, toClient # <<>>, toClient' = Tail(toClient), OnBeforeLeak,
         Head(toClient) = "ON" => output'
  PROVE  OnBeforeLeak'
<1>1. toClient \in Seq(Commands)
  BY Queues
<1>2. /\ Head(toClient) = toClient[1] /\ Len(toClient) \in Nat /\ Len(toClient) > 0
      /\ \A i \in DOMAIN toClient' :
           /\ i \in Nat /\ i > 0
           /\ i + 1 \in DOMAIN toClient /\ toClient'[i] = toClient[i + 1]
           /\ i # 1 => toClient'[i - 1] = toClient[i]
  BY <1>1
<1> SUFFICES ASSUME NEW i \in DOMAIN toClient', toClient'[i] = "LEAK"
             PROVE  IF i = 1 THEN output' ELSE toClient'[i - 1] = "ON"
  BY DEF OnBeforeLeak
<1>3. i \in Nat /\ i + 1 \in DOMAIN toClient /\ toClient[i + 1] = "LEAK"
  BY <1>2
<1>4. i + 1 # 1 /\ (i + 1) - 1 = i
  BY <1>2
<1>5. IF i + 1 = 1 THEN output ELSE toClient[(i + 1) - 1] = "ON"
  BY <1>3, Zenon DEF OnBeforeLeak
<1>6. toClient[i] = "ON"
  BY <1>4, <1>5
<1>7. CASE i = 1
  <2>1. Head(toClient) = "ON"
    BY <1>2, <1>6, <1>7
  <2> QED
    BY <1>7, <2>1, Zenon
<1>8. CASE i # 1
  BY <1>2, <1>6, <1>8
<1> QED
  BY <1>7, <1>8

LEMMA OnFirst ==
  ASSUME TypeOK, ~Has(toClient, "LEAK"), toClient' = toClient \o Execution("leakage")
  PROVE  OnBeforeLeak'
<1>1. /\ toClient \in Seq(Commands)
      /\ Execution("leakage") = <<"OFF", "ON", "LEAK">>
  BY Queues DEF Execution
<1>2. LET q == toClient
          r == <<"OFF", "ON", "LEAK">>
      IN  /\ Len(q) \in Nat
          /\ \A i \in DOMAIN (q \o r) :
               \/ i \in DOMAIN q /\ (q \o r)[i] = q[i]
               \/ i \in Int /\ i - Len(q) \in 1..3 /\ (q \o r)[i] = r[i - Len(q)]
          /\ \A n \in 1..3 : (q \o r)[Len(q) + n] = r[n]
  BY <1>1
<1>3. toClient'[Len(toClient) + 2] = "ON" /\ Len(toClient) \in Nat
  BY <1>1, <1>2
<1>4. ASSUME NEW i \in DOMAIN toClient', toClient'[i] = "LEAK"
      PROVE  i = Len(toClient) + 3
  <2>1. ~(i \in DOMAIN toClient /\ toClient'[i] = toClient[i])
    BY <1>4 DEF Has
  <2>2. i \in Int /\ i - Len(toClient) \in 1..3
        /\ <<"OFF", "ON", "LEAK">>[i - Len(toClient)] = "LEAK"
    BY <1>1, <1>2, <1>4, <2>1
  <2> QED
    BY <1>2, <2>2
<1>5. ASSUME NEW i \in DOMAIN toClient', toClient'[i] = "LEAK"
      PROVE  i # 1 /\ toClient'[i - 1] = "ON"
  BY <1>3, <1>4, <1>5
<1> QED
  BY <1>5, Zenon DEF OnBeforeLeak

LEMMA NextLeakInv == TypeOK /\ WaitInv /\ IVInv /\ LeakInv /\ [Next]_vars => LeakInv'
<1> SUFFICES ASSUME TypeOK, WaitInv, IVInv, LeakInv, [Next]_vars PROVE LeakInv'
  OBVIOUS
<1> USE DEF LeakInv, WaitsForLeak, Orderly, doneVars, agenteVars, sweepVars, leakVars, history
<1>0. Orderly /\ WaitsForLeak => sweep = "none" /\ ~Has(toClient, "MEAS")
  BY DEF IVInv, WaitsForIV
<1>1. ASSUME NEW k \in Kinds, PrepareTest(k) PROVE LeakInv'
  <2>1. ~Has(toClient', "LEAK")
    BY <1>1, Queues, Sent, SentTypes, HasConcat DEF PrepareTest, Send
  <2>2. ~Has(toAgente', "LEAK")
    BY <1>1, Queues, HasCleared DEF PrepareTest
  <2> QED
    BY <1>1, <2>1, <2>2 DEF PrepareTest
<1>2. CASE ExecuteTest
  <2>1. ~Has(toClient, "LEAK") /\ timer = NoTimer
    BY <1>2 DEF ExecuteTest
  <2>2. ~Has(toAgente', "LEAK") /\ Once(toAgente', "LEAK")
    BY <1>2, Queues, HasCleared DEF ExecuteTest
  <2>3. CASE kind = "leakage"
    <3>1. OnlyLast(toClient', "LEAK")
      BY <1>2, <2>1, <2>3, Queues, SentTypes, LastIsOnly, ExecutionEnds DEF ExecuteTest, Send
    <3>2. OnBeforeLeak'
      BY <1>2, <2>1, <2>3, OnFirst DEF ExecuteTest, Send
    <3> QED
      BY <1>2, <2>1, <2>2, <2>3, <3>1, <3>2 DEF ExecuteTest, WaitInv
  <2>4. CASE kind # "leakage"
    <3>1. ~Has(toClient', "LEAK")
      BY <1>2, <2>1, <2>4, Queues, Sent, SentTypes, HasConcat DEF ExecuteTest, Send
    <3> QED
      BY <1>2, <2>1, <2>2, <2>4, <3>1 DEF ExecuteTest
  <2> QED
    BY <2>3, <2>4
<1>3. CASE CheckFinished
  <2>1. /\ UNCHANGED <<step, kind, toClient, timer, output, steady, measured>>
        /\ toAgente # <<>> /\ toAgente' \in {Tail(toAgente), <<>>}
        /\ kind = "leakage" => toAgente' = Tail(toAgente)
    BY <1>3 DEF CheckFinished
  <2>2. /\ Has(toAgente', "LEAK") => Has(toAgente, "LEAK")
        /\ Once(toAgente, "LEAK") => Once(Tail(toAgente), "LEAK")
        /\ Once(toAgente, "LEAK") /\ Head(toAgente) = "LEAK" => ~Has(Tail(toAgente), "LEAK")
        /\ Head(toAgente) = "LEAK" => Has(toAgente, "LEAK")
    <3>1. ~Has(<<>>, "LEAK")
      BY DEF Has
    <3> QED
      BY <2>1, <3>1, Queues, HasTail
  <2>3. OnBeforeLeak' <=> OnBeforeLeak
    BY <2>1 DEF OnBeforeLeak
  <2>4. CASE WaitsForLeak /\ Head(toAgente) = "LEAK"
    <3>1. ~WaitsForLeak'
      BY <1>3, <2>4 DEF CheckFinished, Finishes
    <3>2. ~Has(toClient', "LEAK")
      BY <2>1, <2>2, <2>4 DEF Has
    <3>3. timer' = NoTimer
      BY <2>1, <2>2, <2>4
    <3> QED
      BY <2>1, <2>2, <2>4, <3>1, <3>2, <3>3
  <2>5. CASE WaitsForLeak /\ Head(toAgente) # "LEAK"
    <3>1. WaitsForLeak'
      BY <1>3, <2>5 DEF CheckFinished, Finishes
    <3> QED
      BY <2>1, <2>2, <2>3, <2>5, <3>1
  <2>6. CASE ~WaitsForLeak
    <3>1. ~WaitsForLeak'
      BY <1>3, <2>6 DEF CheckFinished
    <3> QED
      BY <2>1, <2>2, <2>6, <3>1
  <2> QED
    BY <2>4, <2>5, <2>6
<1>4. CASE CleanupTest
  <2>1. ~Has(toClient', "LEAK")
    BY <1>4, Queues, Sent, SentTypes, HasConcat DEF CleanupTest, Send
  <2> QED
    BY <1>4, <2>1 DEF CleanupTest
<1>5. CASE FinalTestCleanup \/ GiveUp
  BY <1>5 DEF FinalTestCleanup, GiveUp
<1>6. CASE RequestClientExit
  <2>1. Orderly => ~Has(toClient', "LEAK")
    <3>1. toClient' = toClient \o ExitRequests
      BY <1>6 DEF RequestClientExit, Send
    <3>2. Has(toClient', "LEAK") => Has(toClient, "LEAK")
      BY <3>1, Queues, Sent, SentTypes, HasConcat
    <3>3. Orderly => ~Has(toClient, "LEAK")
      BY <1>6, Zenon DEF RequestClientExit
    <3> QED
      BY <3>2, <3>3
  <2> QED
    BY <1>6, <2>1 DEF RequestClientExit
<1>7. CASE Outp \/ Set \/ Meas \/ Exit
  <2>1. /\ UNCHANGED <<agenteVars, timer, measured>>
        /\ toClient # <<>> /\ toClient' = Tail(toClient) /\ Head(toClient) # "LEAK"
    BY <1>7 DEF Outp, Set, Meas, Exit, Handles
  <2>2. toAgente' = toAgente \/ toAgente' = Append(toAgente, "note")
    BY <1>7 DEF Outp, Set, Meas, Exit, Report
  <2>3. /\ Has(toClient', "LEAK") => Has(toClient, "LEAK")
        /\ OnlyLast(toClient, "LEAK") => OnlyLast(toClient', "LEAK")
    BY <2>1, Queues, HasTail
  <2>4. /\ Has(toAgente', "LEAK") <=> Has(toAgente, "LEAK")
        /\ Once(toAgente, "LEAK") => Once(toAgente', "LEAK")
    BY <2>2, OtherAnswer DEF Answers
  <2>5. OnBeforeLeak => OnBeforeLeak'
    <3>1. Head(toClient) = "ON" => output'
      BY <1>7, Zenon DEF Outp, Set, Meas, Exit, Handles, Switch
    <3> QED
      BY <2>1, <3>1, OnStays
  <2> QED
    BY <2>1, <2>3, <2>4, <2>5
<1>8. CASE Leak
  <2>1. /\ UNCHANGED agenteVars /\ toAgente' = Append(toAgente, "note")
        /\ toClient # <<>> /\ toClient' = Tail(toClient) /\ Head(toClient) = "LEAK"
    BY <1>8 DEF Leak, Handles, Report
  <2>2. /\ Has(toClient, "LEAK")
        /\ OnlyLast(toClient, "LEAK") => toClient' = <<>>
    BY <2>1, Queues, HasTail
  <2>3. /\ Has(toAgente', "LEAK") <=> Has(toAgente, "LEAK")
        /\ Once(toAgente, "LEAK") => Once(toAgente', "LEAK")
    BY <2>1, OtherAnswer DEF Answers
  <2>4. ~Orderly \/ (OnBeforeLeak /\ toClient' = <<>>)
    BY <2>1, <2>2
  <2>5. ~Orderly \/ (steady' /\ toClient' = <<>>)
    <3>1. toClient \in Seq(Commands)
      BY Queues
    <3>2. 1 \in DOMAIN toClient /\ toClient[1] = "LEAK"
      BY <2>1, <3>1
    <3>3. OnBeforeLeak => output
      BY <3>2 DEF OnBeforeLeak
    <3> QED
      BY <1>8, <2>4, <3>3, Zenon DEF Leak
  <2>6. /\ ~Has(<<>>, "LEAK") /\ OnlyLast(<<>>, "LEAK")
        /\ toClient' = <<>> => OnBeforeLeak'
    BY DEF Has, OnlyLast, OnBeforeLeak
  <2> QED
    BY <2>1, <2>2, <2>3, <2>5, <2>6
<1>9. CASE Trip \/ Results \/ EndSweep
  <2>1. /\ sweep # "none" /\ UNCHANGED <<agenteVars, timer>>
        /\ toClient' \in {toClient, Cleared(toClient)}
        /\ toAgente' = Append(toAgente, "note") \/ toAgente' = Append(toAgente, "IV")
    BY <1>9 DEF Trip, Results, EndSweep, Report
  <2>2. Has(toAgente', "LEAK") <=> Has(toAgente, "LEAK")
    BY <2>1, OtherAnswer DEF Answers
  <2>3. ~Has(toClient, "LEAK") => ~Has(toClient', "LEAK")
    BY <2>1, Queues, HasLeft
  <2> QED
    BY <1>0, <2>1, <2>2, <2>3
<1>10. CASE Tick
  <2>1. timer > 0 /\ UNCHANGED <<agenteVars, toClient, toAgente, output, history>>
    BY <1>10 DEF Tick
  <2>2. timer # NoTimer
    BY <2>1 DEF NoTimer
  <2>3. OnBeforeLeak' <=> OnBeforeLeak
    BY <2>1 DEF OnBeforeLeak
  <2>4. ~Has(<<>>, "LEAK")
    BY DEF Has
  <2> QED
    BY <2>1, <2>2, <2>3, <2>4
<1>11. CASE Fire
  <2>1. /\ timer = 0 /\ timer' = NoTimer /\ UNCHANGED <<agenteVars, toClient, output, steady>>
        /\ toAgente' \in {toAgente, Append(toAgente, "LEAK")}
    BY <1>11 DEF Fire
  <2>2. timer # NoTimer
    BY <2>1 DEF NoTimer
  <2>3. OnBeforeLeak' <=> OnBeforeLeak
    BY <2>1 DEF OnBeforeLeak
  <2>4. ~Has(toAgente, "LEAK") => Once(toAgente, "LEAK") /\ Once(toAgente', "LEAK")
    <3>1. ~Has(toAgente, "LEAK") => Once(toAgente, "LEAK")
      BY DEF Has, Once
    <3>2. CASE toAgente' = toAgente
      BY <3>1, <3>2
    <3>3. CASE toAgente' = Append(toAgente, "LEAK")
      BY <3>1, <3>3, Queues, HasAppend DEF Answers
    <3> QED
      BY <2>1, <3>2, <3>3
  <2>5. steady => measured'
    BY <1>11, Zenon DEF Fire
  <2>6. ~Has(<<>>, "LEAK")
    BY DEF Has
  <2> QED
    BY <2>1, <2>2, <2>3, <2>4, <2>5, <2>6, Zenon
<1>12. CASE UNCHANGED vars
  <2>1. OnBeforeLeak' <=> OnBeforeLeak
    BY <1>12 DEF vars, OnBeforeLeak
  <2> QED
    BY <1>12, <2>1 DEF vars
<1> QED
  BY <1>1, <1>2, <1>3, <1>4, <1>5, <1>6, <1>7, <1>8, <1>9, <1>10, <1>11, <1>12
  DEF Next, Agente, Client, Timer, Terminating

-----------------------------------------------------------------------------
(* The bias goes off *)

LEMMA OffAtTheEnd ==
  ASSUME NEW q \in Seq(Commands), NEW on
  PROVE  GoesOff(q \o <<"OFF">>, on)
<1>1. /\ Len(q) \in Nat /\ Len(q \o <<"OFF">>) = Len(q) + 1
      /\ DOMAIN (q \o <<"OFF">>) = 1..(Len(q) + 1)
      /\ (q \o <<"OFF">>)[Len(q) + 1] = "OFF"
  OBVIOUS
<1>2. \A j \in DOMAIN (q \o <<"OFF">>) :
        (q \o <<"OFF">>)[j] = "ON" => j < Len(q) + 1
  BY <1>1
<1>3. Len(q) + 1 \in DOMAIN (q \o <<"OFF">>)
  BY <1>1
<1> QED
  BY <1>1, <1>2, <1>3, Zenon DEF GoesOff

\* Commands that do not switch on change nothing about where it ends.
LEMMA NothingOn ==
  ASSUME NEW q \in Seq(Commands), NEW r \in Seq(Commands), NEW on,
         GoesOff(q, on), ~Has(r, "ON")
  PROVE  GoesOff(q \o r, on)
<1>1. CASE ~on /\ ~Has(q, "ON")
  <2>1. ~Has(q \o r, "ON")
    BY <1>1, HasConcat
  <2> QED
    BY <1>1, <2>1, Zenon DEF GoesOff
<1>2. CASE \E i \in DOMAIN q : q[i] = "OFF" /\ \A j \in DOMAIN q : q[j] = "ON" => j < i
  <2>1. PICK i \in DOMAIN q : q[i] = "OFF" /\ \A j \in DOMAIN q : q[j] = "ON" => j < i
    BY <1>2, Zenon
  <2>2. /\ i \in DOMAIN (q \o r) /\ (q \o r)[i] = q[i]
        /\ \A j \in DOMAIN (q \o r) :
             \/ j \in DOMAIN q /\ (q \o r)[j] = q[j]
             \/ j - Len(q) \in DOMAIN r /\ (q \o r)[j] = r[j - Len(q)]
    OBVIOUS
  <2>3. \A j \in DOMAIN (q \o r) : (q \o r)[j] = "ON" => j < i
    <3> SUFFICES ASSUME NEW j \in DOMAIN (q \o r), (q \o r)[j] = "ON" PROVE j < i
      OBVIOUS
    <3>1. ~(j - Len(q) \in DOMAIN r /\ (q \o r)[j] = r[j - Len(q)])
      BY Zenon DEF Has
    <3>2. j \in DOMAIN q /\ q[j] = "ON"
      BY <2>2, <3>1, Zenon
    <3> QED
      BY <2>1, <3>2, Zenon
  <2> QED
    BY <2>1, <2>2, <2>3, Zenon DEF GoesOff
<1> QED
  BY <1>1, <1>2, Zenon DEF GoesOff

\* Carrying out the first command leaves where it ends.
LEMMA GoesOffTail ==
  ASSUME NEW q \in Seq(Commands), q # <<>>, NEW on, NEW after, GoesOff(q, on),
         Head(q) = "OFF" => ~after,
         Head(q) \notin {"ON", "OFF"} => (after <=> on)
  PROVE  GoesOff(Tail(q), after)
<1>1. /\ Head(q) = q[1] /\ 1 \in DOMAIN q
      /\ \A j \in DOMAIN Tail(q) : j \in Nat /\ j > 0 /\ j + 1 \in DOMAIN q
                                 /\ Tail(q)[j] = q[j + 1]
      /\ \A i \in DOMAIN q : i \in Nat /\ i > 0
      /\ \A i \in DOMAIN q : i # 1 => i - 1 \in DOMAIN Tail(q) /\ Tail(q)[i - 1] = q[i]
  OBVIOUS
<1>2. CASE ~on /\ ~Has(q, "ON")
  <2>1. ~Has(Tail(q), "ON") /\ Head(q) # "ON"
    BY <1>2, HasTail
  <2>2. ~after
    BY <1>2, <2>1, Zenon
  <2> QED
    BY <2>1, <2>2, Zenon DEF GoesOff
<1>3. CASE \E i \in DOMAIN q : q[i] = "OFF" /\ \A j \in DOMAIN q : q[j] = "ON" => j < i
  <2>1. PICK i \in DOMAIN q : q[i] = "OFF" /\ \A j \in DOMAIN q : q[j] = "ON" => j < i
    BY <1>3, Zenon
  <2>2. CASE i = 1
    <3>1. Head(q) = "OFF"
      BY <1>1, <2>1, <2>2
    <3>2. ~Has(Tail(q), "ON")
      BY <1>1, <2>1, <2>2 DEF Has
    <3>3. ~after
      BY <3>1, Zenon
    <3> QED
      BY <3>2, <3>3, Zenon DEF GoesOff
  <2>3. CASE i # 1
    <3>1. i - 1 \in DOMAIN Tail(q) /\ Tail(q)[i - 1] = "OFF"
      BY <1>1, <2>1, <2>3
    <3>2. \A j \in DOMAIN Tail(q) : Tail(q)[j] = "ON" => j < i - 1
      BY <1>1, <2>1
    <3> QED
      BY <3>1, <3>2, Zenon DEF GoesOff
  <2> QED
    BY <2>2, <2>3
<1> QED
  BY <1>2, <1>3, Zenon DEF GoesOff

LEMMA NextBiasInv == TypeOK /\ WaitInv /\ IVInv /\ BiasInv /\ [Next]_vars => BiasInv'
<1> SUFFICES ASSUME TypeOK, WaitInv, IVInv, BiasInv, [Next]_vars PROVE BiasInv'
  OBVIOUS
<1> USE DEF BiasInv, doneVars, agenteVars, sweepVars, leakVars, history
<1>0. step \in {"idle", "over", "exiting"} => sweep = "none" /\ ~Has(toClient, "MEAS")
  BY DEF IVInv, WaitsForIV, Orderly
<1>1. CASE (\E k \in Kinds : PrepareTest(k)) \/ ExecuteTest \/ GiveUp
  BY <1>1 DEF PrepareTest, ExecuteTest, GiveUp
<1>2. CASE CheckFinished
  BY <1>2 DEF CheckFinished
<1>3. CASE CleanupTest
  <2>1. toClient' = toClient \o <<"OFF">>
    BY <1>3 DEF CleanupTest, Send, Cleanup
  <2> QED
    BY <2>1, Queues, OffAtTheEnd
<1>4. CASE FinalTestCleanup
  BY <1>4, Zenon DEF FinalTestCleanup
<1>5. CASE RequestClientExit
  <2>1. /\ toClient' = toClient \o ExitRequests /\ step \in {"over", "given up"}
        /\ step' \in {"exiting", "stopped"}
        /\ step' = "exiting" => step = "over"
    BY <1>5 DEF RequestClientExit, Send
  <2>2. output' = output
    BY <1>5 DEF RequestClientExit
  <2>3. CASE step = "over"
    <3>1. GoesOff(toClient', output)
      BY <2>1, <2>3, Queues, Sent, SentTypes, NothingOn
    <3> QED
      BY <2>2, <3>1, Zenon
  <2>4. CASE step # "over"
    BY <2>1, <2>4
  <2> QED
    BY <2>3, <2>4
<1>6. CASE Outp \/ Set \/ Leak \/ Exit
  <2>1. /\ toClient # <<>> /\ toClient' = Tail(toClient) /\ step' = step
        /\ Head(toClient) \in {"ON", "OFF", "SET", "LEAK", "EXIT"}
    BY <1>6 DEF Outp, Set, Leak, Exit, Handles
  <2>2. /\ Head(toClient) = "OFF" => ~output'
        /\ Head(toClient) \notin {"ON", "OFF"} => (output' <=> output)
    <3>1. CASE Handles("ON") /\ Switch(TRUE)
      BY <3>1 DEF Handles
    <3>2. CASE Handles("OFF") /\ Switch(FALSE)
      <4>1. Head(toClient) = "OFF" /\ ~output'
        BY <3>2, Zenon DEF Handles, Switch
      <4> QED
        BY <4>1, Zenon
    <3>3. CASE Set \/ Leak \/ Exit
      <4>1. output' = output /\ Head(toClient) # "OFF"
        BY <3>3 DEF Set, Leak, Exit, Handles
      <4> QED
        BY <4>1, Zenon
    <3> QED
      BY <1>6, <3>1, <3>2, <3>3, Zenon DEF Outp
  <2>3. step \in {"idle", "over", "exiting"} => GoesOff(toClient', output')
    BY <2>1, <2>2, Queues, GoesOffTail
  <2> QED
    BY <2>1, <2>3, Zenon
<1>7. CASE Meas
  <2>1. Has(toClient, "MEAS") /\ step' = step
    BY <1>7, Queues, HasTail DEF Meas, Handles
  <2> QED
    BY <1>0, <2>1, Zenon
<1>8. CASE Trip \/ Results \/ EndSweep
  <2>1. sweep # "none" /\ step' = step
    BY <1>8 DEF Trip, Results, EndSweep
  <2> QED
    BY <1>0, <2>1, Zenon
<1>9. CASE Timer \/ UNCHANGED vars
  <2>1. UNCHANGED <<step, toClient, output>>
    BY <1>9 DEF Timer, Tick, Fire, vars
  <2> QED
    BY <2>1, Zenon
<1> QED
  BY <1>1, <1>2, <1>3, <1>4, <1>5, <1>6, <1>7, <1>8, <1>9
  DEF Next, Agente, Client, Terminating

-----------------------------------------------------------------------------
LEMMA NextInv == Inv /\ [Next]_vars => Inv'
  BY NextTypeOK, NextWaitInv, NextIVInv, NextLeakInv, NextBiasInv DEF Inv

LEMMA Invariance == Spec => []Inv
<1> QED
  BY InitInv, NextInv, PTL DEF Spec

\* Every variable of the agente, of the client and of the queues between them
\* stays in its set, however many tests there are and however often a sweep trips.
THEOREM TypeCorrect == Spec => []TypeOK
<1>1. Inv => TypeOK
  BY DEF Inv
<1> QED
  BY <1>1, Invariance, PTL

\* Between tests and after the last one the bias is off once the client has
\* carried out what cleanup_test sent, whatever the tests before were.
THEOREM OffBetween == Spec => []OffBetweenTests
<1>1. Inv => OffBetweenTests
  BY DEF Inv, BiasInv, GoesOff, OffBetweenTests
<1> QED
  BY <1>1, Invariance, PTL

\* A FINISHED that ends a test is always the one of this test's own
\* measurement, and the measurement has run to its end by then.
THEOREM MeasuredFully == Spec => MeasuredInFull
<1> DEFINE Done == (ivDone' /\ ~ivDone) \/ (leakageCurrentTestDone' /\ ~leakageCurrentTestDone)
<1>1. Inv /\ [Next]_vars => [Done => measured]_vars
  <2> SUFFICES ASSUME Inv, [Next]_vars, Done PROVE measured
    OBVIOUS
  <2>1. CheckFinished
    <3>1. ASSUME NEW k \in Kinds, PrepareTest(k) PROVE FALSE
      BY <3>1, Zenon DEF PrepareTest
    <3>2. CASE ExecuteTest \/ CleanupTest \/ FinalTestCleanup \/ RequestClientExit \/ GiveUp
               \/ Client \/ Timer \/ UNCHANGED vars
      <4>1. UNCHANGED <<ivDone, leakageCurrentTestDone>>
        BY <3>2 DEF ExecuteTest, CleanupTest, FinalTestCleanup, RequestClientExit, GiveUp,
           Client, Timer, Outp, Set, Meas, Trip, Results, EndSweep, Leak, Exit, Tick, Fire,
           Handles, doneVars, agenteVars, vars
      <4> QED
        BY <4>1, Zenon
    <3> QED
      BY <3>1, <3>2, Zenon DEF Next, Agente, Terminating
  <2>2. Has(toAgente, Head(toAgente))
    BY <2>1, Queues, HasTail DEF Inv, CheckFinished
  <2>3. CASE ivDone' /\ ~ivDone
    <3>1. kind = "IV" /\ step = "executing" /\ Head(toAgente) = "IV"
      BY <2>1, <2>3 DEF CheckFinished, Finishes
    <3> QED
      BY <2>2, <2>3, <3>1 DEF Inv, IVInv, WaitsForIV, Orderly
  <2>4. CASE leakageCurrentTestDone' /\ ~leakageCurrentTestDone
    <3>1. kind = "leakage" /\ step = "executing" /\ Head(toAgente) = "LEAK"
      BY <2>1, <2>4 DEF CheckFinished, Finishes
    <3> QED
      BY <2>2, <2>4, <3>1 DEF Inv, LeakInv, WaitsForLeak, Orderly
  <2> QED
    BY <2>3, <2>4
<1> QED
  BY <1>1, Invariance, PTL DEF Spec, MeasuredInFull
=============================================================================
