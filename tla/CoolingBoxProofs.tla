--------------------------- MODULE CoolingBoxProofs -------------------------
(***************************************************************************)
(* Proofs about the cooling box: its types, the count of the cycles, the   *)
(* end of a campaign, and the temperature at which a test is prepared.     *)
(*                                                                         *)
(* The inductive invariant is a conjunction of parts, each with its lemmas *)
(* Init... and Next...: Types; Cycling, which ties the count of half       *)
(* cycles to the extremes the temperature has reached; Testing (the box    *)
(* stays under control while there are tests); Quiet (where the dialogue   *)
(* of agente and client stands when no question was repeated) with AtRest  *)
(* (the client has ended only when the check thread is at rest); and, for  *)
(* the temperature of a test, Keeping, Alternating and AnswersKept.        *)
(* StabilizeWays states the five ways through stabilize() that all of them *)
(* go over, Performed what a step of a call to the device does.            *)
(***************************************************************************)
EXTENDS CoolingBox, SequenceTheorems, TLAPS

-----------------------------------------------------------------------------
(* stabilize() *)

Box == [controlling : BOOLEAN, status : Statuses, setpoint : Setpoints,
        doCycle : BOOLEAN, cycles : -1..(2 * NumCycles), reached : -1..(StableTime + 1)]

\* What the box is set to when a call of stabilize() or a command drives it.
Stabilizing == {"flushing", "cooling", "heating"}

LEMMA Numbers ==
  /\ Hottest \in Nat /\ NumCycles \in Nat /\ NumCycles > 0 /\ StableTime \in Nat
  /\ NumTests \in Nat /\ MaxTroubles \in Nat
  /\ Room \in 1..(Hottest - 1) /\ Warm \in 1..(Hottest - 1)
  /\ CycleLow \in 1..(Hottest - 1) /\ CycleHigh \in 1..(Hottest - 1)
  /\ Room < Warm /\ CycleLow < CycleHigh
  /\ Targets \subseteq 1..(Hottest - 1)
  /\ None \notin Nat /\ CycleTest \notin Nat
  /\ Never = -1
BY CoolingBoxAssumption DEF Never

LEMMA SetpointTypes ==
  /\ Targets \union {Room, Warm, CycleLow - 1, CycleHigh, CycleHigh + 1, None} = Setpoints
  /\ \A s \in Setpoints : s \in 0..Hottest \/ s = None
BY Numbers DEF Setpoints

\* check_cycles passes over one extreme at a time.
LEMMA CyclesChecked ==
  ASSUME NEW b \in Box, NEW w \in Air, NEW c, c = CheckCycles(b, w)
  PROVE  /\ c \in Box
         /\ c.controlling = b.controlling /\ c.status = b.status
         /\ c.doCycle = b.doCycle /\ c.reached = b.reached
         /\ c = b \/ c.setpoint # None
         /\ \/ c = b
            \/ b.cycles = 0 /\ c.cycles = Never /\ w.temp > CycleHigh
            \/ /\ b.cycles > 0 /\ c.cycles = b.cycles - 1
               /\ \/ b.cycles % 2 = 1 /\ w.temp < CycleLow
                  \/ b.cycles % 2 = 0 /\ w.temp > CycleHigh
<1>1. /\ b.cycles \in -1..(2 * NumCycles) /\ 2 * NumCycles \in Nat
      /\ w.temp \in Int /\ CycleLow \in Int /\ CycleHigh \in Int /\ Never = -1
      /\ CycleHigh # None /\ CycleHigh + 1 # None /\ CycleLow - 1 # None
  BY Numbers DEF Box, Air
<1>2. CASE b.cycles = 0 /\ w.temp > CycleHigh
  <2>1. c = [b EXCEPT !.cycles = Never, !.setpoint = CycleHigh]
    BY <1>1, <1>2 DEF CheckCycles
  <2>2. CycleHigh \in Setpoints /\ Never \in -1..(2 * NumCycles)
    BY <1>1 DEF Setpoints
  <2> QED
    BY <1>1, <1>2, <2>1, <2>2 DEF Box
<1>3. CASE b.cycles > 0 /\ b.cycles % 2 = 1 /\ w.temp < CycleLow
  <2>1. c = [b EXCEPT !.cycles = @ - 1, !.setpoint = CycleHigh + 1]
    BY <1>1, <1>3 DEF CheckCycles
  <2>2. CycleHigh + 1 \in Setpoints /\ b.cycles - 1 \in -1..(2 * NumCycles)
    BY <1>1, <1>3 DEF Setpoints
  <2> QED
    BY <1>1, <1>3, <2>1, <2>2 DEF Box
<1>4. CASE b.cycles > 0 /\ b.cycles % 2 = 0 /\ w.temp > CycleHigh
  <2>1. c = [b EXCEPT !.cycles = @ - 1, !.setpoint = CycleLow - 1]
    BY <1>1, <1>4 DEF CheckCycles
  <2>2. CycleLow - 1 \in Setpoints /\ b.cycles - 1 \in -1..(2 * NumCycles)
    BY <1>1, <1>4 DEF Setpoints
  <2> QED
    BY <1>1, <1>4, <2>1, <2>2 DEF Box
<1>5. CASE /\ ~(b.cycles = 0 /\ w.temp > CycleHigh)
           /\ ~(b.cycles > 0 /\ b.cycles % 2 = 1 /\ w.temp < CycleLow)
           /\ ~(b.cycles > 0 /\ b.cycles % 2 = 0 /\ w.temp > CycleHigh)
  BY <1>5 DEF CheckCycles
<1> QED
  BY <1>2, <1>3, <1>4, <1>5

\* reachedSetpointTime after a pass is in the future or was not a moment ago.
LEMMA ReachedTypes ==
  ASSUME NEW c \in Box, NEW w \in Air
  PROVE  Reached(c, w) \in -1..(StableTime + 1)
BY Numbers DEF Reached, Box

\* The ways through stabilize(): it does nothing, has the box flushed, ends the
\* final heating, or looks after the temperature.
Rests(b, w, p) ==
  /\ p.box = b /\ p.acts = <<>>
  /\ b.controlling => b.status = "flushing" /\ ~IsDry(b, w)
Flushes(b, w, p) ==
  /\ p.box = b /\ p.acts = <<"flushing">>
  /\ b.controlling /\ b.status # "flushing" /\ (b.status = "unknown" \/ ~IsDry(b, w))
Waits(b, w, c, p) ==
  /\ p.box = c /\ p.acts = <<>>
  /\ b.controlling /\ b.status # "unknown" /\ IsDry(b, w)
  /\ \/ c.setpoint = None /\ ~c.doCycle
     \/ b.status = "final_heating" /\ ~(w.temp > Room)
Finishes(b, w, c, p) ==
  /\ p.box = c /\ p.acts = <<"stop">>
  /\ b.controlling /\ b.status = "final_heating" /\ w.temp > Room
Controls(b, w, c, p) ==
  /\ p.box = [c EXCEPT !.reached = Reached(c, w)]
  /\ p.acts \in {<<>>, <<"cooling">>, <<"heating">>}
  /\ b.controlling /\ b.status \in Stabilizing /\ IsDry(b, w)
  /\ c.setpoint # None \/ c.doCycle

LEMMA StabilizeWays ==
  ASSUME NEW b \in Box, NEW w \in Air,
         NEW c, c = CheckCycles(b, w), NEW p, p = Stabilize(b, w)
  PROVE  \/ Rests(b, w, p) \/ Flushes(b, w, p)
         \/ Waits(b, w, c, p) \/ Finishes(b, w, c, p) \/ Controls(b, w, c, p)
<1>1. /\ b.controlling \in BOOLEAN /\ b.status \in Statuses
      /\ c.status = b.status /\ c.doCycle = b.doCycle /\ c.doCycle \in BOOLEAN
  BY CyclesChecked DEF Box
<1>2. CASE ~b.controlling
  BY <1>2 DEF Stabilize, Pass, Rests
<1>3. CASE b.controlling /\ b.status = "unknown"
  BY <1>3 DEF Stabilize, Pass, Flushes
<1>4. CASE b.controlling /\ b.status = "flushing" /\ ~IsDry(b, w)
  <2>1. p = Pass(b, <<>>)
    BY <1>4 DEF Stabilize
  <2> QED
    BY <1>4, <2>1 DEF Pass, Rests
<1>5. CASE b.controlling /\ b.status \notin {"unknown", "flushing"} /\ ~IsDry(b, w)
  <2>1. p = Pass(b, <<"flushing">>)
    BY <1>5 DEF Stabilize
  <2> QED
    BY <1>5, <2>1 DEF Pass, Flushes
<1>6. CASE b.controlling /\ b.status # "unknown" /\ IsDry(b, w)
  <2> DEFINE idle == c.setpoint = None /\ ~c.doCycle
             final == c.status = "final_heating" /\ (c.setpoint # None \/ c.doCycle)
             acts == CASE w.temp > c.setpoint -> <<"cooling">>
                       [] w.temp < c.setpoint -> <<"heating">>
                       [] OTHER -> <<>>
  <2>1. p = CASE idle -> Pass(c, <<>>)
              [] final -> FinalHeating(c, w)
              [] OTHER -> Pass([c EXCEPT !.reached = Reached(c, w)], acts)
    BY <1>6 DEF Stabilize
  <2>2. acts \in {<<>>, <<"cooling">>, <<"heating">>}
    OBVIOUS
  <2> HIDE DEF acts
  <2>3. CASE idle
    BY <1>6, <2>1, <2>3 DEF Pass, Waits
  <2>4. CASE final
    <3>1. p = FinalHeating(c, w)
      BY <2>1, <2>4
    <3> QED
      BY <1>1, <1>6, <2>4, <3>1 DEF FinalHeating, Pass, Waits, Finishes
  <2>5. CASE ~idle /\ ~final
    <3>1. p = Pass([c EXCEPT !.reached = Reached(c, w)], acts)
      BY <2>1, <2>5
    <3>2. p.box = [c EXCEPT !.reached = Reached(c, w)] /\ p.acts = acts
      BY <3>1 DEF Pass
    <3>3. b.status \in Stabilizing
      BY <1>1, <1>6, <2>5 DEF Statuses, Stabilizing
    <3> QED
      BY <1>1, <1>6, <2>2, <2>5, <3>2, <3>3 DEF Controls
  <2> QED
    BY <2>3, <2>4, <2>5
<1> QED
  BY <1>1, <1>2, <1>3, <1>4, <1>5, <1>6

Passes == {<<>>, <<"flushing">>, <<"cooling">>, <<"heating">>, <<"stop">>}

LEMMA PassesDiffer ==
  /\ <<>> # <<"stop">> /\ <<"flushing">> # <<"stop">>
  /\ <<"cooling">> # <<"stop">> /\ <<"heating">> # <<"stop">>
<1>1. \A x : <<x>>[1] = x /\ Len(<<x>>) = 1
  OBVIOUS
<1>2. Len(<<>>) = 0
  OBVIOUS
<1>3. "flushing" # "stop" /\ "cooling" # "stop" /\ "heating" # "stop"
  OBVIOUS
<1> QED
  BY <1>1, <1>2, <1>3

\* What all of them have in common.
LEMMA Stabilized ==
  ASSUME NEW b \in Box, NEW w \in Air,
         NEW c, c = CheckCycles(b, w), NEW p, p = Stabilize(b, w)
  PROVE  /\ p.box \in Box /\ p.acts \in Passes
         /\ p.box.status = b.status /\ p.box.doCycle = b.doCycle
         /\ p.box.controlling = b.controlling
         /\ p.acts = <<"stop">> => b.status = "final_heating"
         /\ \/ p.box.cycles = b.cycles /\ p.box.setpoint = b.setpoint
            \/ p.box.cycles = c.cycles /\ p.box.setpoint = c.setpoint
<1>1. /\ c \in Box /\ c.controlling = b.controlling /\ c.status = b.status
      /\ c.doCycle = b.doCycle /\ c.reached = b.reached
  BY CyclesChecked
<1>2. CASE Rests(b, w, p)
  BY <1>2, PassesDiffer DEF Rests, Passes
<1>3. CASE Flushes(b, w, p)
  BY <1>3, PassesDiffer DEF Flushes, Passes
<1>4. CASE Waits(b, w, c, p)
  BY <1>1, <1>4, PassesDiffer DEF Waits, Passes
<1>5. CASE Finishes(b, w, c, p)
  BY <1>1, <1>5 DEF Finishes, Passes
<1>6. CASE Controls(b, w, c, p)
  <2>1. Reached(c, w) \in -1..(StableTime + 1)
    BY <1>1, ReachedTypes
  <2>2. p.box \in Box
    BY <1>1, <1>6, <2>1 DEF Controls, Box
  <2>3. /\ p.box.status = b.status /\ p.box.doCycle = b.doCycle
        /\ p.box.controlling = b.controlling
        /\ p.box.cycles = c.cycles /\ p.box.setpoint = c.setpoint
    BY <1>1, <1>6 DEF Controls, Box
  <2>4. p.acts \in Passes /\ p.acts # <<"stop">>
    BY <1>6, PassesDiffer DEF Controls, Passes
  <2> QED
    BY <2>2, <2>3, <2>4
<1> QED
  BY <1>2, <1>3, <1>4, <1>5, <1>6, StabilizeWays

-----------------------------------------------------------------------------
(* Sequences *)

LEMMA SeqTypes ==
  ASSUME NEW S, NEW q \in Seq(S)
  PROVE  /\ q # <<>> => Head(q) \in S /\ Tail(q) \in Seq(S)
         /\ \A y \in S : Append(q, y) \in Seq(S) /\ q \o <<y>> \in Seq(S)
         /\ q \o <<>> = q
OBVIOUS

\* What the client library leaves of the packets of an abo.
LEMMA ClearedTypes ==
  ASSUME NEW S, NEW q \in Seq(S), NEW r \in ClearedAmongOthers(q)
  PROVE  /\ r \in Seq(S)
         /\ Len(r) <= Len(q)
         /\ Len(q) <= 1 => r = <<>>
         /\ \A i \in DOMAIN r : \E j \in DOMAIN q : r[i] = q[j]
<1>1. PICK n \in 0..(Len(q) \div 2) :
        \E stays \in [1..n -> 2..Len(q)] : r = [i \in 1..n |-> q[stays[i]]]
  <2>1. PICK n \in 0..(Len(q) \div 2) :
          r \in {[i \in 1..n |-> q[2 * i + later[i]]] :
                   later \in {f \in [1..n -> 0..(Len(q) - 2 * n)] :
                                \A i \in 2..n : f[i - 1] <= f[i]}}
    BY DEF ClearedAmongOthers
  <2>2. PICK later \in [1..n -> 0..(Len(q) - 2 * n)] : r = [i \in 1..n |-> q[2 * i + later[i]]]
    BY <2>1
  <2>3. PICK stays : stays = [i \in 1..n |-> 2 * i + later[i]]
    OBVIOUS
  <2>4. \A i \in 1..n : 2 * i + later[i] \in 2..Len(q)
    <3> TAKE i \in 1..n
    <3>1. later[i] \in 0..(Len(q) - 2 * n) /\ Len(q) \in Nat
      OBVIOUS
    <3> QED
      BY <3>1
  <2>5. stays \in [1..n -> 2..Len(q)] /\ r = [i \in 1..n |-> q[stays[i]]]
    BY <2>2, <2>3, <2>4
  <2> QED
    BY <2>5
<1>2. PICK stays \in [1..n -> 2..Len(q)] : r = [i \in 1..n |-> q[stays[i]]]
  BY <1>1
<1>3. /\ n \in Nat /\ Len(q) \in Nat /\ Len(q) \div 2 <= Len(q)
      /\ Len(q) <= 1 => Len(q) \div 2 = 0
  BY LenProperties
<1>4. /\ \A i \in 1..n : stays[i] \in DOMAIN q /\ r[i] = q[stays[i]]
      /\ DOMAIN r = 1..n
  BY <1>2, <1>3
<1>5. r \in Seq(S)
  <2>1. \A i \in 1..n : q[stays[i]] \in S
    BY <1>4
  <2> QED
    BY <1>2, <1>3, <2>1
<1>6. Len(r) = n
  BY <1>3, <1>4, <1>5
<1>7. Len(q) <= 1 => r = <<>>
  <2> SUFFICES ASSUME Len(q) <= 1 PROVE r = <<>>
    OBVIOUS
  <2>1. n = 0
    BY <1>3
  <2> QED
    BY <1>5, <1>6, <2>1, EmptySeq
<1>8. Len(r) <= Len(q)
  BY <1>3, <1>6
<1>9. \A i \in DOMAIN r : stays[i] \in DOMAIN q /\ r[i] = q[stays[i]]
  BY <1>4
<1> QED
  BY <1>5, <1>7, <1>8, <1>9

LEMMA ClearedTwiceTypes ==
  ASSUME NEW S, NEW q \in Seq(S), NEW r \in ClearedTwice(q)
  PROVE  /\ r \in Seq(S)
         /\ Len(r) <= Len(q)
         /\ Len(q) <= 1 => r = <<>>
         /\ \A i \in DOMAIN r : \E j \in DOMAIN q : r[i] = q[j]
<1>1. PICK p \in ClearedAmongOthers(q) : r \in ClearedAmongOthers(p)
  BY DEF ClearedTwice
<1>2. /\ p \in Seq(S) /\ Len(p) <= Len(q)
      /\ \A i \in DOMAIN p : \E j \in DOMAIN q : p[i] = q[j]
  BY <1>1, ClearedTypes
<1>3. /\ r \in Seq(S) /\ Len(r) <= Len(p)
      /\ Len(p) <= 1 => r = <<>>
      /\ \A i \in DOMAIN r : \E j \in DOMAIN p : r[i] = p[j]
  BY <1>1, <1>2, ClearedTypes
<1>4. Len(p) \in Nat /\ Len(q) \in Nat /\ Len(r) \in Nat
  BY <1>2, <1>3, LenProperties
<1> QED
  BY <1>2, <1>3, <1>4

-----------------------------------------------------------------------------
(* Types *)

Device == [controllers : {"off", "cooling", "heating"},
           contacts : {"off", "safe", "flushing", "cooling", "heating"}]

\* The places a call comes to, and those of a thread that has calls to make.
PlacesOf(call) ==
  CASE call \in {"flushing", "cooling", "heating", "dry"} ->
         {"call", "controllers", "contacts", "status"}
    [] call = "stop" -> Places
    [] call = "start" -> {"call", "safe", "control"}
    [] OTHER -> {"call"}
Placed(calls, place) ==
  /\ place \in Places
  /\ calls = <<>> => place = "call"
  /\ calls # <<>> => place \in PlacesOf(Head(calls))

\* When the agente waits and asks, and for what.  The check thread has one call
\* to make at most.
Phases ==
  /\ step = "idle" => ~pending
  /\ asking => pending /\ step \in {"preparing", "executing", "heating"}
  /\ step = "preparing" /\ pending => target \in Targets
  /\ check \in Passes
  /\ Placed(main, mainAt) /\ Placed(check, checkAt)

Types == TypeOK /\ Phases

\* Every call begins at its first place.
LEMMA PlacedFirst == \A calls : Placed(calls, "call")
BY DEF Placed, PlacesOf, Places

LEMMA InitTypes == Init => Types
<1> SUFFICES ASSUME Init PROVE Types
  OBVIOUS
<1>1. /\ box \in Box /\ air \in Air
  BY Numbers DEF Init, Box, Air, Statuses, Setpoints, Never
<1>2. /\ toClient \in Seq(Commands) /\ toAgente \in Seq(Answers)
      /\ main \in Seq(Calls) /\ check \in Seq(Calls)
      /\ mainAt \in Places /\ checkAt \in Places /\ device \in Device
  BY DEF Init, Places, Device
<1>3. /\ calm \in 0..(StableTime + 1) /\ turns \in 0..(2 * NumCycles + 1)
      /\ test \in 0..NumTests /\ repeats \in 0..MaxTroubles
      /\ upsets \in 0..MaxTroubles
  BY Numbers DEF Init
<1>4. Phases
  BY PlacedFirst DEF Init, Phases, Passes
<1> QED
  BY <1>1, <1>2, <1>3, <1>4 DEF Init, TypeOK, Types, Box, Device

\* The calls a thread makes step by step.
Stepwise == Calls \ {"stabilize", "close"}

LEMMA CallsComeOn ==
  ASSUME NEW call \in Stepwise, NEW place \in PlacesOf(call)
  PROVE  After(call, place) \in PlacesOf(call) /\ place \in Places
<1>1. place \in Places
  BY DEF PlacesOf, Places
<1>2. CASE call \in {"flushing", "cooling", "heating", "dry"}
  <2>1. PlacesOf(call) = {"call", "controllers", "contacts", "status"}
    BY <1>2 DEF PlacesOf
  <2> QED
    BY <1>1, <1>2, <2>1 DEF After
<1>3. CASE call = "stop"
  BY <1>1, <1>3 DEF PlacesOf, Places, After
<1>4. CASE call = "start"
  <2>1. PlacesOf(call) = {"call", "safe", "control"}
    BY <1>4 DEF PlacesOf
  <2> QED
    BY <1>1, <1>4, <2>1 DEF After
<1>5. CASE call = "final_heating"
  <2>1. PlacesOf(call) = {"call"}
    BY <1>5 DEF PlacesOf
  <2> QED
    BY <1>1, <1>5, <2>1 DEF After
<1> QED
  BY <1>2, <1>3, <1>4, <1>5 DEF Stepwise, Calls

\* What a step of a call makes of the fields and of the device.
LEMMA Performed ==
  ASSUME TypeOK, NEW call \in Stepwise, NEW place \in PlacesOf(call), Perform(call, place)
  PROVE  /\ box' \in Box /\ device' \in Device
         /\ place = "control" => box' = [box EXCEPT !.controlling = (call = "start")]
         /\ place = "status" \/ call = "final_heating" =>
              box' = [box EXCEPT !.status = StatusOf(call)] /\ StatusOf(call) \in Statuses
         /\ place \notin {"control", "status"} /\ call # "final_heating" => box' = box
         /\ box'.setpoint = box.setpoint /\ box'.doCycle = box.doCycle
         /\ box'.cycles = box.cycles /\ box'.reached = box.reached
<1>1. box \in Box /\ device \in Device
  BY DEF TypeOK, Box, Device
<1>2. /\ call = "final_heating" => place # "control"
      /\ place = "status" \/ call = "final_heating" => StatusOf(call) \in Statuses
  BY DEF PlacesOf, Stepwise, Calls, StatusOf, Statuses
<1>3. /\ place = "control" => box' = [box EXCEPT !.controlling = (call = "start")]
      /\ place # "control" /\ (place = "status" \/ call = "final_heating") =>
           box' = [box EXCEPT !.status = StatusOf(call)]
      /\ place \notin {"control", "status"} /\ call # "final_heating" => box' = box
  BY <1>2 DEF Perform
<1>4. /\ box' \in Box
      /\ box'.setpoint = box.setpoint /\ box'.doCycle = box.doCycle
      /\ box'.cycles = box.cycles /\ box'.reached = box.reached
  <2>1. CASE place = "control"
    <3>1. (call = "start") \in BOOLEAN
      BY Zenon
    <3> QED
      BY <1>1, <1>3, <2>1, <3>1 DEF Box
  <2>2. CASE place # "control" /\ (place = "status" \/ call = "final_heating")
    BY <1>1, <1>2, <1>3, <2>2 DEF Box
  <2>3. CASE place \notin {"control", "status"} /\ call # "final_heating"
    BY <1>1, <1>3, <2>3
  <2> QED
    BY <2>1, <2>2, <2>3
<1>5. device' \in Device
  <2>1. CASE place = "safe"
    BY <1>1, <2>1 DEF Perform, Device
  <2>2. CASE place = "controllers"
    <3>1. ControllersOf(call) \in {"off", "cooling", "heating"}
      BY DEF ControllersOf
    <3> QED
      BY <1>1, <2>2, <3>1 DEF Perform, Device
  <2>3. CASE place = "contacts"
    <3>1. ContactsOf(call) \in {"off", "flushing", "cooling", "heating"}
      BY <2>3 DEF ContactsOf, PlacesOf, Stepwise, Calls
    <3> QED
      BY <1>1, <2>3, <3>1 DEF Perform, Device
  <2>4. CASE place \notin {"safe", "controllers", "contacts"}
    BY <1>1, <2>4 DEF Perform
  <2> QED
    BY <2>1, <2>2, <2>3, <2>4
<1> QED
  BY <1>2, <1>3, <1>4, <1>5

\* A setpoint from a command.
LEMMA SetpointTaken ==
  ASSUME NEW b \in Box, NEW s \in Setpoints, air \in Air, NEW p, p = SetSetpoint(b, s)
  PROVE  /\ p.box \in Box /\ p.acts \in Passes
         /\ p.box.status = b.status /\ p.box.doCycle = b.doCycle
         /\ p.box.controlling = b.controlling
         /\ p.acts = <<"stop">> => b.status = "final_heating"
<1>1. CASE b.setpoint = s
  BY <1>1, PassesDiffer DEF SetSetpoint, Pass, Passes
<1>2. CASE b.setpoint # s
  <2> DEFINE n == [b EXCEPT !.setpoint = s]
  <2>1. n \in Box /\ n.status = b.status /\ n.doCycle = b.doCycle
        /\ n.controlling = b.controlling
    BY DEF Box
  <2>2. p = Stabilize(n, air)
    BY <1>2 DEF SetSetpoint
  <2> HIDE DEF n
  <2> QED
    BY <2>1, <2>2, Stabilized
<1> QED
  BY <1>1, <1>2

LEMMA SettleTypes ==
  ASSUME box \in Box
  PROVE  /\ Settle(box) \in Box
         /\ Settle(box) \in {box, [box EXCEPT !.reached = Never]}
         /\ Settle(box).reached = IF air.temp # box.setpoint THEN Never ELSE box.reached
         /\ Settle(box).status = box.status
BY Numbers DEF Settle, Box

LEMMA CappedTypes ==
  ASSUME NEW m \in Nat, NEW n \in 0..m
  PROVE  /\ Capped(n, m) \in 0..m /\ Capped(n, m) >= n
         /\ n < m => Capped(n, m) = n + 1
BY DEF Capped

\* Time passes.
LEMMA AgedTypes ==
  ASSUME NEW b \in Box
  PROVE  /\ Aged(b) \in Box
         /\ Aged(b).controlling = b.controlling /\ Aged(b).status = b.status
         /\ Aged(b).setpoint = b.setpoint /\ Aged(b).doCycle = b.doCycle
         /\ Aged(b).cycles = b.cycles
         /\ b.reached = Never => Aged(b).reached = Never
         /\ b.reached # Never => Aged(b).reached = Capped(b.reached, StableTime + 1)
<1>1. b.reached \in -1..(StableTime + 1) /\ StableTime + 1 \in Nat
  BY Numbers DEF Box
<1>2. CASE b.reached = Never
  BY <1>2 DEF Aged
<1>3. CASE b.reached # Never
  <2>1. b.reached \in 0..(StableTime + 1)
    BY <1>1, <1>3 DEF Never
  <2>2. Capped(b.reached, StableTime + 1) \in 0..(StableTime + 1)
    BY <1>1, <2>1, CappedTypes
  <2>3. Capped(b.reached, StableTime + 1) \in -1..(StableTime + 1)
    BY <1>1, <2>2
  <2>4. Aged(b) = [b EXCEPT !.reached = Capped(b.reached, StableTime + 1)]
    BY <1>3 DEF Aged
  <2> QED
    BY <1>3, <2>3, <2>4 DEF Box
<1> QED
  BY <1>2, <1>3

LEMMA PassesTypes == Passes \subseteq Seq(Calls)
<1>1. \A a \in Calls : <<a>> \in Seq(Calls)
  OBVIOUS
<1>2. <<>> \in Seq(Calls)
  OBVIOUS
<1> QED
  BY <1>1, <1>2 DEF Passes, Calls

LEMMA RememberTypes ==
  ASSUME NEW b, NEW w, NEW since \in 0..(StableTime + 1), damp \in BOOLEAN,
         Remember(b, w, since)
  PROVE  calm' \in 0..(StableTime + 1) /\ damp' \in BOOLEAN
<1>1. calm' \in 0..(StableTime + 1)
  BY Numbers DEF Remember
<1>2. damp' \in BOOLEAN
  BY Zenon DEF Remember
<1> QED
  BY <1>1, <1>2

\* The check thread begins a pass.
LEMMA CheckTypes ==
  ASSUME Types, CheckStatus
  PROVE  Types'
<1>1. PICK w \in Air :
        /\ air' = w
        /\ Weather(w)
        /\ box' = Stabilize(Aged(box), w).box
        /\ check' = Stabilize(Aged(box), w).acts
        /\ Remember(box', w, IF w.temp = box.setpoint THEN Capped(calm, StableTime + 1) ELSE 0)
        /\ turns' = IF box.doCycle /\ AtTurn(w) THEN Capped(turns, 2 * NumCycles + 1) ELSE turns
  BY DEF CheckStatus
<1>2. /\ UNCHANGED <<agenteVars, toClient, toAgente, up, main, mainAt, checkAt, device>>
      /\ check = <<>>
  BY DEF CheckStatus
<1>3. box \in Box /\ Aged(box) \in Box
  BY AgedTypes DEF Types, TypeOK, Box
<1>4. box' \in Box /\ check' \in Passes
  BY <1>1, <1>3, Stabilized
<1>5. check' \in Seq(Calls)
  BY <1>4, PassesTypes
<1>6. upsets' \in 0..MaxTroubles
  <2>1. repeats \in Nat /\ upsets \in 0..MaxTroubles /\ MaxTroubles \in Nat
    BY Numbers DEF Types, TypeOK
  <2>2. upsets' = upsets \/ (repeats + upsets < MaxTroubles /\ upsets' = upsets + 1)
    BY <1>1 DEF Weather, TroublesLeft
  <2> QED
    BY <2>1, <2>2
<1>7. turns' \in 0..(2 * NumCycles + 1)
  <2>1. 2 * NumCycles + 1 \in Nat
    BY Numbers
  <2>2. Capped(turns, 2 * NumCycles + 1) \in 0..(2 * NumCycles + 1)
    BY <2>1, CappedTypes DEF Types, TypeOK
  <2> QED
    BY <1>1, <2>2 DEF Types, TypeOK
<1>8. calm' \in 0..(StableTime + 1) /\ damp' \in BOOLEAN
  <2> DEFINE since == IF w.temp = box.setpoint THEN Capped(calm, StableTime + 1) ELSE 0
  <2>1. since \in 0..(StableTime + 1)
    <3>1. StableTime + 1 \in Nat
      BY Numbers
    <3>2. Capped(calm, StableTime + 1) \in 0..(StableTime + 1)
      BY <3>1, CappedTypes DEF Types, TypeOK
    <3> QED
      BY <3>1, <3>2
  <2>2. Remember(box', w, since)
    BY <1>1
  <2> HIDE DEF since
  <2> QED
    BY <2>1, <2>2, RememberTypes DEF Types, TypeOK
<1>9. Phases'
  <2>1. checkAt' = "call"
    BY <1>2 DEF Types, Phases, Placed
  <2>2. Placed(check', checkAt')
    BY <2>1, PlacedFirst
  <2> QED
    BY <1>2, <1>4, <2>2 DEF Types, Phases, agenteVars
<1> QED
  BY <1>1, <1>2, <1>4, <1>5, <1>6, <1>7, <1>8, <1>9
     DEF Types, TypeOK, Box, agenteVars

\* A command is taken from the queue.
LEMMA Handled ==
  ASSUME TypeOK, Phases, NEW cmd, Handles(cmd)
  PROVE  /\ up /\ main = <<>> /\ toClient # <<>>
         /\ Head(toClient) = toClient[1] /\ toClient[1].cmd = cmd
         /\ Head(toClient) \in Commands /\ Head(toClient).arg \in Setpoints
         /\ toClient' \in Seq(Commands)
         /\ Len(toClient) \in Nat /\ Len(toClient') = Len(toClient) - 1
         /\ DOMAIN toClient = 1..Len(toClient) /\ DOMAIN toClient' = 1..Len(toClient')
         /\ \A i \in 1..Len(toClient') : toClient'[i] = toClient[i + 1]
         /\ UNCHANGED <<agenteVars, up, check, mainAt, checkAt, device, weather>>
         /\ mainAt = "call"
<1>1. /\ up /\ main = <<>> /\ toClient # <<>> /\ Head(toClient).cmd = cmd
      /\ toClient' = Tail(toClient)
      /\ UNCHANGED <<agenteVars, up, check, mainAt, checkAt, device, weather>>
  BY DEF Handles
<1>2. toClient \in Seq(Commands)
  BY DEF TypeOK
<1>3. /\ Head(toClient) = toClient[1] /\ Head(toClient) \in Commands
      /\ toClient' \in Seq(Commands)
      /\ Len(toClient) \in Nat /\ Len(toClient') = Len(toClient) - 1
      /\ \A i \in 1..Len(toClient') : toClient'[i] = toClient[i + 1]
  BY <1>1, <1>2, HeadTailProperties, LenProperties
<1>4. DOMAIN toClient = 1..Len(toClient) /\ DOMAIN toClient' = 1..Len(toClient')
  BY <1>2, <1>3, LenProperties
<1>5. Head(toClient).arg \in Setpoints
  BY <1>3, SetpointTypes DEF Commands, Setpoints
<1>6. mainAt = "call"
  BY <1>1 DEF Phases, Placed
<1> QED
  BY <1>1, <1>3, <1>4, <1>5, <1>6

\* What a client step leaves alone.
LEMMA ClientTypes ==
  ASSUME Types, UNCHANGED agenteVars, UNCHANGED weather, toClient' \in Seq(Commands),
         toAgente' \in Seq(Answers), up' \in BOOLEAN, box' \in Box,
         main' \in Seq(Calls), check' \in Passes, device' \in Device,
         Placed(main', mainAt'), Placed(check', checkAt'),
         calm' \in 0..(StableTime + 1), damp' \in BOOLEAN, turns' \in 0..(2 * NumCycles + 1)
  PROVE  Types'
<1>1. TypeOK'
  BY PassesTypes DEF Types, TypeOK, Placed, Box, Device, agenteVars, weather
<1>2. Phases'
  BY DEF Types, Phases, agenteVars
<1> QED
  BY <1>1, <1>2 DEF Types

LEMMA StartTypes ==
  ASSUME Types, Start
  PROVE  Types'
<1>1. PICK p : p = SetSetpoint(box, Head(toClient).arg)
  OBVIOUS
<1>2. Handles("START")
  BY DEF Start
<1>3. /\ box' = p.box /\ main' = Append(p.acts, "start") /\ Remember(p.box, air, calm)
      /\ UNCHANGED <<toAgente, turns>>
  BY <1>1 DEF Start
<1>4. p.box \in Box /\ p.acts \in Passes
  BY <1>1, <1>2, Handled, SetpointTaken DEF Types, TypeOK, Box
<1>5. main' \in Seq(Calls)
  BY <1>3, <1>4, PassesTypes, SeqTypes DEF Calls
<1>6. calm' \in 0..(StableTime + 1) /\ damp' \in BOOLEAN
  BY <1>3, RememberTypes DEF Types, TypeOK
<1>7. Placed(main', mainAt') /\ Placed(check', checkAt')
  BY <1>2, Handled, PlacedFirst DEF Types, Phases
<1> QED
  BY <1>2, <1>3, <1>4, <1>5, <1>6, <1>7, Handled, ClientTypes
     DEF Types, TypeOK, Phases, Device, agenteVars, weather

LEMMA FinalHeatTypes ==
  ASSUME Types, FinalHeat
  PROVE  Types'
<1>1. PICK p : p = SetSetpoint(box, Warm)
  OBVIOUS
<1>2. Handles("FINAL_HEAT")
  BY DEF FinalHeat
<1>3. /\ box' = p.box /\ main' = p.acts \o <<"heating", "final_heating">>
      /\ Remember(p.box, air, calm)
      /\ UNCHANGED <<toAgente, turns>>
  BY <1>1 DEF FinalHeat
<1>4. p.box \in Box /\ p.acts \in Passes
  BY <1>1, SetpointTaken, SetpointTypes DEF Types, TypeOK, Box
<1>5. main' \in Seq(Calls)
  <2>1. <<"heating", "final_heating">> \in Seq(Calls) /\ p.acts \in Seq(Calls)
    BY <1>4, PassesTypes DEF Calls
  <2> QED
    BY <1>3, <2>1, ConcatProperties
<1>6. calm' \in 0..(StableTime + 1) /\ damp' \in BOOLEAN
  BY <1>3, RememberTypes DEF Types, TypeOK
<1>7. Placed(main', mainAt') /\ Placed(check', checkAt')
  BY <1>2, Handled, PlacedFirst DEF Types, Phases
<1> QED
  BY <1>2, <1>3, <1>4, <1>5, <1>6, <1>7, Handled, ClientTypes
     DEF Types, TypeOK, Phases, Device, agenteVars, weather

LEMMA NewCountTypes ==
  ASSUME box \in Box
  PROVE  /\ NewCount \in Box
         /\ NewCount.doCycle = TRUE /\ NewCount.cycles = 2 * NumCycles
         /\ NewCount.controlling = box.controlling /\ NewCount.status = box.status
         /\ NewCount.setpoint = box.setpoint /\ NewCount.reached = box.reached
<1>1. 2 * NumCycles \in -1..(2 * NumCycles)
  BY Numbers
<1> QED
  BY <1>1 DEF NewCount, Box

LEMMA CycleTypes ==
  ASSUME Types, Cycle
  PROVE  Types'
<1>1. PICK p : p = SetSetpoint(NewCount, CycleHigh + 1)
  OBVIOUS
<1>2. Handles("CYCLE")
  BY DEF Cycle
<1>3. /\ box' = p.box /\ main' = p.acts /\ Remember(p.box, air, calm)
      /\ turns' \in {0, 1} /\ UNCHANGED toAgente
  BY <1>1 DEF Cycle
<1>4. p.box \in Box /\ p.acts \in Passes
  BY <1>1, SetpointTaken, SetpointTypes, NewCountTypes DEF Types, TypeOK, Box
<1>5. main' \in Seq(Calls)
  BY <1>3, <1>4, PassesTypes
<1>6. calm' \in 0..(StableTime + 1) /\ damp' \in BOOLEAN
  BY <1>3, RememberTypes DEF Types, TypeOK
<1>7. turns' \in 0..(2 * NumCycles + 1)
  BY <1>3, Numbers
<1>8. Placed(main', mainAt') /\ Placed(check', checkAt')
  BY <1>2, Handled, PlacedFirst DEF Types, Phases
<1> QED
  BY <1>2, <1>3, <1>4, <1>5, <1>6, <1>7, <1>8, Handled, ClientTypes
     DEF Types, TypeOK, Phases, Device, agenteVars, weather

\* What is answered to a question, and what it leaves in the fields.
LEMMA StatTypes ==
  ASSUME Types, Stat
  PROVE  /\ Types'
         /\ Reply(Status) \in Answers /\ Reply(Status).says = Status
         /\ toAgente' = Append(toAgente, Reply(Status))
<1>1. Handles("STAT")
  BY DEF Stat
<1>2. Reply(Status) \in Answers /\ Reply(Status).says = Status
  <2>1. Status \in {"STABLE", "UNSTABLE", "CYCLING", "FINISHED", "FINAL_HEATING", "WAITING"}
    BY DEF Status
  <2>2. box.setpoint \in Setpoints /\ None \in Setpoints
    BY DEF Types, TypeOK, Setpoints
  <2>3. PICK kept \in BOOLEAN : kept = (Status = "STABLE" /\ (calm > StableTime \/ damp))
    BY Zenon
  <2> QED
    BY <2>1, <2>2, <2>3 DEF Reply, Answers
<1>3. /\ toAgente' = Append(toAgente, Reply(Status)) /\ UNCHANGED <<main, calm, damp>>
      /\ turns' \in {0, turns}
  BY DEF Stat
<1>4. toAgente' \in Seq(Answers)
  BY <1>2, <1>3, SeqTypes DEF Types, TypeOK
<1>5. box' \in Box
  <2>1. box \in Box
    BY DEF Types, TypeOK, Box
  <2>2. box' \in {box, Settle(box), [box EXCEPT !.doCycle = FALSE, !.reached = Never]}
    BY DEF Stat
  <2>3. [box EXCEPT !.doCycle = FALSE, !.reached = Never] \in Box
    <3>1. Never \in -1..(StableTime + 1)
      BY Numbers
    <3> QED
      BY <2>1, <3>1 DEF Box
  <2> QED
    BY <2>1, <2>2, <2>3, SettleTypes
<1>6. turns' \in 0..(2 * NumCycles + 1)
  BY <1>3, Numbers DEF Types, TypeOK
<1>7. Placed(main', mainAt') /\ Placed(check', checkAt')
  BY <1>1, Handled, PlacedFirst DEF Types, Phases
<1>8. Types'
  BY <1>1, <1>3, <1>4, <1>5, <1>6, <1>7, Handled, ClientTypes
     DEF Types, TypeOK, Phases, Device, agenteVars, weather
<1> QED
  BY <1>2, <1>3, <1>8

LEMMA ExitTypes ==
  ASSUME Types, Exit
  PROVE  Types'
<1>1. Handles("EXIT")
  BY DEF Exit
<1>2. main' = <<"stop", "close">> /\ UNCHANGED <<box, toAgente, history>>
  BY DEF Exit
<1>3. main' \in Seq(Calls)
  BY <1>2 DEF Calls
<1>4. Placed(main', mainAt') /\ Placed(check', checkAt')
  BY <1>1, Handled, PlacedFirst DEF Types, Phases
<1> QED
  BY <1>1, <1>2, <1>3, <1>4, Handled, ClientTypes
     DEF Types, TypeOK, Phases, Box, Device, agenteVars, weather, history

\* A step of a call of the main thread.
LEMMA MainCalls ==
  ASSUME Types, MainActs
  PROVE  /\ up /\ main # <<>>
         /\ Head(main) \in Stepwise /\ mainAt \in PlacesOf(Head(main))
         /\ Tail(main) \in Seq(Calls)
         /\ Perform(Head(main), mainAt) /\ mainAt' = After(Head(main), mainAt)
         /\ \/ mainAt' # "call" /\ main' = main
            \/ /\ mainAt' = "call" /\ mainAt = "control" /\ Head(main) = "start"
               /\ main' = <<"dry", "stabilize">>
            \/ /\ mainAt' = "call" /\ ~(mainAt = "control" /\ Head(main) = "start")
               /\ main' = Tail(main)
         /\ UNCHANGED <<agenteVars, toClient, toAgente, up, check, checkAt, weather, history>>
<1>1. /\ up /\ main # <<>> /\ Head(main) \notin {"stabilize", "close"}
      /\ Perform(Head(main), mainAt) /\ mainAt' = After(Head(main), mainAt)
      /\ main' = CASE mainAt' # "call" -> main
                   [] mainAt = "control" /\ Head(main) = "start" -> <<"dry", "stabilize">>
                   [] OTHER -> Tail(main)
      /\ UNCHANGED <<agenteVars, toClient, toAgente, up, check, checkAt, weather, history>>
  BY DEF MainActs
<1>2. Head(main) \in Calls /\ Tail(main) \in Seq(Calls)
  BY <1>1, SeqTypes DEF Types, TypeOK
<1>3. Head(main) \in Stepwise /\ mainAt \in PlacesOf(Head(main))
  BY <1>1, <1>2 DEF Stepwise, Types, Phases, Placed
<1>4. mainAt = "control" /\ Head(main) = "start" => mainAt' = "call"
  BY <1>1 DEF After
<1> QED
  BY <1>1, <1>2, <1>3, <1>4

LEMMA MainActsTypes ==
  ASSUME Types, MainActs
  PROVE  Types'
<1>1. /\ main # <<>> /\ Head(main) \in Stepwise /\ mainAt \in PlacesOf(Head(main))
      /\ Tail(main) \in Seq(Calls)
      /\ Perform(Head(main), mainAt) /\ mainAt' = After(Head(main), mainAt)
      /\ \/ mainAt' # "call" /\ main' = main
         \/ mainAt' = "call" /\ main' \in {<<"dry", "stabilize">>, Tail(main)}
      /\ UNCHANGED <<agenteVars, toClient, toAgente, up, check, checkAt, weather, history>>
  BY MainCalls
<1>2. box' \in Box /\ device' \in Device
  BY <1>1, Performed DEF Types
<1>3. main' \in Seq(Calls)
  <2>1. <<"dry", "stabilize">> \in Seq(Calls)
    BY DEF Calls
  <2> QED
    BY <1>1, <2>1 DEF Types, TypeOK
<1>4. Placed(main', mainAt')
  <2>1. mainAt' \in PlacesOf(Head(main))
    BY <1>1, CallsComeOn
  <2>2. mainAt' \in Places
    BY <1>1, <2>1, CallsComeOn
  <2> QED
    BY <1>1, <2>1, <2>2, PlacedFirst DEF Placed
<1> QED
  BY <1>1, <1>2, <1>3, <1>4, ClientTypes
     DEF Types, TypeOK, Phases, agenteVars, weather, history

\* The call of the check thread is its last.
LEMMA CheckCalls ==
  ASSUME Phases, check # <<>>
  PROVE  /\ Head(check) \in {"flushing", "cooling", "heating", "stop"}
         /\ check = <<Head(check)>> /\ Tail(check) = <<>>
<1>1. \A x : Head(<<x>>) = x /\ Tail(<<x>>) = <<>>
  OBVIOUS
<1>2. \/ check = <<"flushing">> \/ check = <<"cooling">>
      \/ check = <<"heating">> \/ check = <<"stop">>
  BY DEF Phases, Passes
<1> QED
  BY <1>1, <1>2

LEMMA CheckSteps ==
  ASSUME Types, CheckActs
  PROVE  /\ up /\ check # <<>> /\ check = <<Head(check)>>
         /\ Head(check) \in {"flushing", "cooling", "heating", "stop"}
         /\ Head(check) \in Stepwise /\ checkAt \in PlacesOf(Head(check))
         /\ Perform(Head(check), checkAt) /\ checkAt' = After(Head(check), checkAt)
         /\ \/ checkAt' # "call" /\ check' = check
            \/ checkAt' = "call" /\ check' = <<>>
         /\ UNCHANGED <<agenteVars, toClient, toAgente, up, main, mainAt, weather, history>>
<1>1. /\ up /\ check # <<>>
      /\ Perform(Head(check), checkAt) /\ checkAt' = After(Head(check), checkAt)
      /\ check' = IF checkAt' = "call" THEN Tail(check) ELSE check
      /\ UNCHANGED <<agenteVars, toClient, toAgente, up, main, mainAt, weather, history>>
  BY DEF CheckActs
<1>2. /\ Head(check) \in {"flushing", "cooling", "heating", "stop"}
      /\ check = <<Head(check)>> /\ Tail(check) = <<>>
  BY <1>1, CheckCalls DEF Types
<1>3. Head(check) \in Stepwise /\ checkAt \in PlacesOf(Head(check))
  BY <1>1, <1>2 DEF Stepwise, Calls, Types, Phases, Placed
<1> QED
  BY <1>1, <1>2, <1>3

LEMMA CheckActsTypes ==
  ASSUME Types, CheckActs
  PROVE  Types'
<1>1. /\ check # <<>> /\ Head(check) \in Stepwise /\ checkAt \in PlacesOf(Head(check))
      /\ Perform(Head(check), checkAt) /\ checkAt' = After(Head(check), checkAt)
      /\ \/ checkAt' # "call" /\ check' = check
         \/ checkAt' = "call" /\ check' = <<>>
      /\ UNCHANGED <<agenteVars, toClient, toAgente, up, main, mainAt, weather, history>>
  BY CheckSteps
<1>2. box' \in Box /\ device' \in Device
  BY <1>1, Performed DEF Types
<1>3. check' \in Passes
  BY <1>1 DEF Passes, Types, Phases
<1>4. Placed(check', checkAt')
  <2>1. checkAt' \in PlacesOf(Head(check))
    BY <1>1, CallsComeOn
  <2>2. checkAt' \in Places
    BY <1>1, <2>1, CallsComeOn
  <2> QED
    BY <1>1, <2>1, <2>2, PlacedFirst DEF Placed
<1> QED
  BY <1>1, <1>2, <1>3, <1>4, ClientTypes
     DEF Types, TypeOK, Phases, agenteVars, weather, history

\* The main thread calls stabilize() at the end of start_controlling().
LEMMA MainStabilizesTypes ==
  ASSUME Types, MainStabilizes
  PROVE  /\ Types'
         /\ box' = Stabilize(box, air).box /\ main' = Stabilize(box, air).acts
         /\ UNCHANGED <<agenteVars, toClient, toAgente, up, check, checkAt, device,
                        weather, turns>>
         /\ mainAt = "call" /\ mainAt' = "call"
<1>1. /\ main = <<"stabilize">>
      /\ box' = Stabilize(box, air).box /\ main' = Stabilize(box, air).acts
      /\ Remember(box', air, calm)
      /\ UNCHANGED <<agenteVars, toClient, toAgente, up, check, mainAt, checkAt, device,
                     weather, turns>>
  BY DEF MainStabilizes
<1>2. box' \in Box /\ main' \in Passes
  BY <1>1, Stabilized DEF Types, TypeOK, Box
<1>3. main' \in Seq(Calls)
  BY <1>2, PassesTypes
<1>4. calm' \in 0..(StableTime + 1) /\ damp' \in BOOLEAN
  BY <1>1, RememberTypes DEF Types, TypeOK
<1>5. mainAt = "call"
  <2>1. main # <<>> /\ Head(main) = "stabilize"
    BY <1>1
  <2> QED
    BY <2>1 DEF Types, Phases, Placed, PlacesOf
<1>6. Placed(main', mainAt') /\ Placed(check', checkAt')
  BY <1>1, <1>5, PlacedFirst DEF Types, Phases
<1>7. Types'
  BY <1>1, <1>2, <1>3, <1>4, <1>6, ClientTypes
     DEF Types, TypeOK, Phases, Device, agenteVars, weather
<1> QED
  BY <1>1, <1>5, <1>7

LEMMA CloseTypes ==
  ASSUME Types, Close
  PROVE  Types'
<1>1. <<>> \in Seq(Calls)
  OBVIOUS
<1>2. /\ main = <<"close">> /\ up' = FALSE /\ main' = <<>>
      /\ UNCHANGED <<agenteVars, toClient, toAgente, box, check, mainAt, checkAt, device,
                     weather, history>>
  BY DEF Close
<1>3. mainAt = "call"
  <2>1. main # <<>> /\ Head(main) = "close"
    BY <1>2
  <2> QED
    BY <2>1 DEF Types, Phases, Placed, PlacesOf
<1>4. Placed(main', mainAt') /\ Placed(check', checkAt')
  BY <1>2, <1>3, PlacedFirst DEF Types, Phases
<1> QED
  BY <1>1, <1>2, <1>4, ClientTypes
     DEF Types, TypeOK, Phases, Box, Device, agenteVars, weather, history

\* Commands that are sent.
LEMMA CommandTypes ==
  /\ \A c \in {"CYCLE", "FINAL_HEAT", "STAT", "EXIT"} :
       Command(c) \in Commands /\ Command(c).cmd = c
  /\ \A t \in Setpoints : [cmd |-> "START", arg |-> t] \in Commands
  /\ Targets \subseteq Setpoints /\ Room \in Setpoints
BY DEF Command, Commands, Setpoints

LEMMA SendOne ==
  ASSUME TypeOK, NEW x \in Commands, Send(<<x>>)
  PROVE  /\ toClient' \in Seq(Commands)
         /\ Len(toClient) \in Nat /\ Len(toClient') = Len(toClient) + 1
         /\ DOMAIN toClient = 1..Len(toClient) /\ DOMAIN toClient' = 1..Len(toClient')
         /\ \A i \in 1..Len(toClient) : toClient'[i] = toClient[i]
         /\ toClient'[Len(toClient')] = x
<1>1. toClient \in Seq(Commands) /\ toClient' = toClient \o <<x>>
  BY DEF TypeOK, Send
<1>2. toClient' = Append(toClient, x)
  BY <1>1, AppendIsConcat
<1> QED
  BY <1>1, <1>2, AppendProperties, LenProperties

\* What a step of the agente leaves alone.
LEMMA AgenteTypes ==
  ASSUME Types, UNCHANGED <<clientVars, device, weather, history>>,
         step' \in {"idle", "preparing", "executing", "enter", "heating"} \union Ends,
         test' \in 0..NumTests, target' \in Targets \union {CycleTest, Room},
         pending' \in BOOLEAN, asking' \in BOOLEAN, repeats' \in 0..MaxTroubles,
         toClient' \in Seq(Commands), toAgente' \in Seq(Answers)
  PROVE  TypeOK'
BY DEF Types, TypeOK, clientVars, weather, history

\* What the agente makes of an answer: it has the box set again, it begins the
\* final clean-up again, it goes on listening, or it is done with the question.
Again(answer) ==
  /\ step = "preparing" /\ answer = "WAITING"
  /\ asking' = FALSE /\ pending' = pending /\ UNCHANGED step
  /\ Send(<<[cmd |-> "START", arg |-> target]>>)
  /\ toAgente' \in ClearedAmongOthers(Tail(toAgente))
Lost(answer) ==
  /\ step = "heating" /\ answer \notin {"WAITING", "FINAL_HEATING", "FINISHED"}
  /\ asking' = FALSE /\ pending' = pending /\ step' = "enter"
  /\ Send(<<[cmd |-> "START", arg |-> Room]>>)
  /\ toAgente' \in ClearedAmongOthers(Tail(toAgente))
Listens(answer) ==
  /\ step # "executing" /\ answer = "FINISHED"
  /\ asking' = TRUE /\ pending' = pending
  /\ UNCHANGED <<step, toClient>> /\ toAgente' = Tail(toAgente)
Hears(answer) ==
  /\ step = "executing" \/ answer # "FINISHED"
  /\ ~(step = "preparing" /\ answer = "WAITING")
  /\ step = "heating" => answer \in {"WAITING", "FINAL_HEATING"}
  /\ asking' = FALSE
  /\ pending' = (pending /\ ~(\/ step = "preparing" /\ answer = "STABLE"
                              \/ step = "executing" /\ answer = "FINISHED"
                              \/ step = "heating" /\ answer = "WAITING"))
  /\ UNCHANGED <<step, toClient>> /\ toAgente' = Tail(toAgente)

LEMMA Answered ==
  ASSUME Types, Answer
  PROVE  /\ asking /\ pending /\ toAgente # <<>>
         /\ step \in {"preparing", "executing", "heating"}
         /\ Head(toAgente) \in Answers /\ Tail(toAgente) \in Seq(Answers)
         /\ \/ Again(Head(toAgente).says) \/ Lost(Head(toAgente).says)
            \/ Listens(Head(toAgente).says) \/ Hears(Head(toAgente).says)
         /\ UNCHANGED <<test, target, repeats, clientVars, device, weather, history>>
<1>1. PICK answer : answer = Head(toAgente).says
  OBVIOUS
<1>2. PICK again \in BOOLEAN : again = (step = "preparing" /\ answer = "WAITING")
  BY Zenon
<1>3. /\ asking /\ toAgente # <<>>
      /\ asking' = (answer = "FINISHED" /\ step # "executing")
      /\ pending' = (pending /\ answer \notin Awaited)
      /\ step' = IF HeatingLost(answer) /\ ~asking' THEN "enter" ELSE step
      /\ Send(CASE again -> StabilizeTemperature(target)
                [] HeatingLost(answer) /\ ~asking' -> StabilizeTemperature(Room)
                [] OTHER -> <<>>)
      /\ toAgente' \in (IF again \/ (HeatingLost(answer) /\ ~asking')
                         THEN ClearedAmongOthers(Tail(toAgente)) ELSE {Tail(toAgente)})
      /\ UNCHANGED <<test, target, repeats, clientVars, device, weather, history>>
  BY <1>1, <1>2 DEF Answer
<1>4. /\ step \in {"preparing", "executing", "heating"} /\ pending
      /\ toAgente \in Seq(Answers) /\ toClient \in Seq(Commands)
  BY <1>3 DEF Types, TypeOK, Phases
<1>5. Head(toAgente) \in Answers /\ Tail(toAgente) \in Seq(Answers)
  BY <1>3, <1>4, SeqTypes
<1>6. toClient \o <<>> = toClient
  BY <1>4, SeqTypes
<1>7. CASE step = "preparing"
  <2>1. Awaited = {"STABLE"} /\ ~HeatingLost(answer)
    BY <1>7 DEF Awaited, HeatingLost
  <2>2. CASE answer = "WAITING"
    <3>1. again = TRUE
      BY <1>2, <1>7, <2>2
    <3>2. /\ asking' = FALSE /\ pending' = (pending /\ answer \notin {"STABLE"})
          /\ step' = step
          /\ toAgente' \in ClearedAmongOthers(Tail(toAgente))
      BY <1>3, <2>1, <2>2, <3>1
    <3>3. pending' = pending
      BY <1>4, <2>2, <3>2
    <3>4. Send(<<[cmd |-> "START", arg |-> target]>>)
      BY <1>3, <2>1, <3>1 DEF StabilizeTemperature
    <3>5. Again(answer)
      BY <1>7, <2>2, <3>2, <3>3, <3>4 DEF Again
    <3> QED
      BY <1>1, <1>3, <1>4, <1>5, <3>5
  <2>3. CASE answer # "WAITING"
    <3>1. again = FALSE
      BY <1>2, <2>3, Zenon
    <3>2. /\ asking' = (answer = "FINISHED")
          /\ pending' = (pending /\ answer # "STABLE")
          /\ step' = step /\ toAgente' = Tail(toAgente)
      BY <1>3, <1>7, <2>1, <3>1
    <3>3. toClient' = toClient
      BY <1>3, <1>6, <2>1, <3>1 DEF Send
    <3>4. CASE answer = "FINISHED"
      BY <1>1, <1>3, <1>4, <1>5, <1>7, <3>2, <3>3, <3>4 DEF Listens
    <3>5. CASE answer # "FINISHED"
      BY <1>1, <1>3, <1>4, <1>5, <1>7, <2>3, <3>2, <3>3, <3>5 DEF Hears
    <3> QED
      BY <3>4, <3>5
  <2> QED
    BY <2>2, <2>3
<1>8. CASE step = "executing"
  <2>1. Awaited = {"FINISHED"} /\ ~HeatingLost(answer) /\ again = FALSE
    BY <1>2, <1>8 DEF Awaited, HeatingLost
  <2>2. /\ asking' = FALSE /\ pending' = (pending /\ answer # "FINISHED")
        /\ step' = step /\ toAgente' = Tail(toAgente)
    BY <1>3, <1>8, <2>1
  <2>3. toClient' = toClient
    BY <1>3, <1>6, <2>1 DEF Send
  <2> QED
    BY <1>1, <1>3, <1>4, <1>5, <1>8, <2>2, <2>3 DEF Hears
<1>9. CASE step = "heating"
  <2>1. Awaited = {"WAITING"} /\ again = FALSE
    BY <1>2, <1>9 DEF Awaited
  <2>2. asking' = (answer = "FINISHED") /\ pending' = (pending /\ answer # "WAITING")
    BY <1>3, <1>9, <2>1
  <2>3. CASE answer \notin {"WAITING", "FINAL_HEATING", "FINISHED"}
    <3>1. HeatingLost(answer) /\ asking' = FALSE
      BY <1>9, <2>2, <2>3 DEF HeatingLost
    <3>2. pending' = pending /\ step' = "enter"
          /\ toAgente' \in ClearedAmongOthers(Tail(toAgente))
      BY <1>3, <1>4, <2>2, <2>3, <3>1
    <3>3. Send(<<[cmd |-> "START", arg |-> Room]>>)
      BY <1>3, <2>1, <3>1 DEF StabilizeTemperature
    <3> QED
      BY <1>1, <1>3, <1>4, <1>5, <1>9, <2>3, <3>1, <3>2, <3>3 DEF Lost
  <2>4. CASE answer = "FINISHED"
    <3>1. asking' = TRUE /\ pending' = pending
      BY <1>4, <2>2, <2>4
    <3>2. step' = step /\ toAgente' = Tail(toAgente) /\ toClient' = toClient
      BY <1>3, <1>6, <2>1, <3>1 DEF Send
    <3> QED
      BY <1>1, <1>3, <1>4, <1>5, <1>9, <2>4, <3>1, <3>2 DEF Listens
  <2>5. CASE answer \in {"WAITING", "FINAL_HEATING"}
    <3>1. ~HeatingLost(answer) /\ asking' = FALSE
      BY <2>2, <2>5 DEF HeatingLost
    <3>2. step' = step /\ toAgente' = Tail(toAgente) /\ toClient' = toClient
      BY <1>3, <1>6, <2>1, <3>1 DEF Send
    <3> QED
      BY <1>1, <1>3, <1>4, <1>5, <1>9, <2>2, <2>5, <3>1, <3>2 DEF Hears
  <2> QED
    BY <2>3, <2>4, <2>5
<1> QED
  BY <1>4, <1>7, <1>8, <1>9

LEMMA AgenteStepTypes ==
  ASSUME Types, Agente \/ AskAgain \/ UserEnter \/ GiveUp
  PROVE  Types'
<1>0. /\ toClient \in Seq(Commands) /\ toAgente \in Seq(Answers)
      /\ step \in {"idle", "preparing", "executing", "enter", "heating"} \union Ends
      /\ test \in 0..NumTests /\ target \in Targets \union {CycleTest, Room}
      /\ pending \in BOOLEAN /\ asking \in BOOLEAN /\ repeats \in 0..MaxTroubles
      /\ TypeOK /\ Phases /\ check \in Passes
  BY DEF Types, TypeOK, Phases
<1>1. CASE PrepareTest
  <2>1. /\ step = "idle" /\ test' = test + 1 /\ test < NumTests /\ step' = "preparing"
        /\ UNCHANGED <<asking, repeats, clientVars, device, weather, history>>
    BY <1>1 DEF PrepareTest
  <2>2. ~pending /\ ~asking
    BY <1>0, <2>1 DEF Phases
  <2>3. test' \in 0..NumTests
    BY <1>0, <2>1, Numbers
  <2>4. CASE /\ target' \in Targets
             /\ Send(StabilizeTemperature(target'))
             /\ toAgente' \in ClearedTwice(toAgente)
             /\ pending' = TRUE
    <3>1. PICK x : x = [cmd |-> "START", arg |-> target']
      OBVIOUS
    <3>2. x \in Commands /\ Send(<<x>>)
      BY <2>4, <3>1, CommandTypes DEF StabilizeTemperature
    <3>3. toClient' \in Seq(Commands)
      BY <1>0, <3>2, SendOne
    <3>4. toAgente' \in Seq(Answers)
      BY <1>0, <2>4, ClearedTwiceTypes
    <3>5. TypeOK'
      BY <1>0, <2>1, <2>3, <2>4, <3>3, <3>4, AgenteTypes
    <3>6. Phases'
      BY <1>0, <2>1, <2>2, <2>4 DEF Phases, clientVars
    <3> QED
      BY <3>5, <3>6 DEF Types
  <2>5. CASE /\ target' = CycleTest
             /\ toAgente' \in ClearedAmongOthers(toAgente)
             /\ UNCHANGED <<toClient, pending>>
    <3>1. toAgente' \in Seq(Answers)
      BY <1>0, <2>5, ClearedTypes
    <3>2. TypeOK'
      BY <1>0, <2>1, <2>3, <2>5, <3>1, AgenteTypes
    <3>3. Phases'
      BY <1>0, <2>1, <2>2, <2>5 DEF Phases, clientVars
    <3> QED
      BY <3>2, <3>3 DEF Types
  <2> QED
    BY <1>1, <2>4, <2>5 DEF PrepareTest
<1>2. CASE ExecuteTest
  <2>1. /\ step = "preparing" /\ ~pending /\ step' = "executing"
        /\ UNCHANGED <<test, target, asking, repeats, clientVars, device, weather, history>>
    BY <1>2 DEF ExecuteTest
  <2>2. ~asking
    BY <1>0, <2>1 DEF Phases
  <2>3. CASE target = CycleTest
    <3>1. /\ Send(<<Command("CYCLE")>>) /\ toAgente' \in ClearedAmongOthers(toAgente)
          /\ pending' = TRUE
      BY <1>2, <2>3 DEF ExecuteTest
    <3>2. toClient' \in Seq(Commands)
      BY <1>0, <3>1, CommandTypes, SendOne
    <3>3. toAgente' \in Seq(Answers)
      BY <1>0, <3>1, ClearedTypes
    <3>4. TypeOK'
      BY <1>0, <2>1, <3>1, <3>2, <3>3, AgenteTypes
    <3> QED
      BY <1>0, <2>1, <2>2, <3>4 DEF Types, Phases, clientVars
  <2>4. CASE target # CycleTest
    <3>1. UNCHANGED <<toClient, toAgente, pending>>
      BY <1>2, <2>4 DEF ExecuteTest
    <3>2. TypeOK'
      BY <1>0, <2>1, <3>1, AgenteTypes
    <3> QED
      BY <1>0, <2>1, <2>2, <3>1, <3>2 DEF Types, Phases, clientVars
  <2> QED
    BY <2>3, <2>4
<1>3. CASE CleanupTest
  <2>1. TypeOK'
    BY <1>0, <1>3, AgenteTypes DEF CleanupTest
  <2> QED
    BY <1>0, <1>3, <2>1 DEF CleanupTest, Types, Phases, clientVars
<1>4. CASE FinalTestCleanup
  <2>1. PICK x : x = [cmd |-> "START", arg |-> Room]
    OBVIOUS
  <2>2. x \in Commands /\ Send(<<x>>)
    BY <1>4, <2>1, CommandTypes DEF FinalTestCleanup, StabilizeTemperature
  <2>3. toClient' \in Seq(Commands)
    BY <1>0, <2>2, SendOne
  <2>4. toAgente' \in Seq(Answers)
    BY <1>0, <1>4, ClearedTypes DEF FinalTestCleanup
  <2>5. TypeOK'
    BY <1>0, <1>4, <2>3, <2>4, AgenteTypes DEF FinalTestCleanup
  <2> QED
    BY <1>0, <1>4, <2>5 DEF FinalTestCleanup, Types, Phases, clientVars
<1>5. CASE UserEnter
  <2>1. toClient' \in Seq(Commands)
    BY <1>0, <1>5, CommandTypes, SendOne DEF UserEnter
  <2>2. TypeOK'
    BY <1>0, <1>5, <2>1, AgenteTypes DEF UserEnter
  <2> QED
    BY <1>0, <1>5, <2>2 DEF UserEnter, Types, Phases, clientVars
<1>6. CASE Ask
  <2>1. toClient' \in Seq(Commands)
    BY <1>0, <1>6, CommandTypes, SendOne DEF Ask
  <2>2. toAgente' \in Seq(Answers)
    BY <1>0, <1>6, ClearedTypes, ClearedTwiceTypes DEF Ask
  <2>3. TypeOK'
    BY <1>0, <1>6, <2>1, <2>2, AgenteTypes DEF Ask
  <2> QED
    BY <1>0, <1>6, <2>3 DEF Ask, Types, Phases, clientVars
<1>7. CASE AskAgain
  <2>1. toClient' \in Seq(Commands)
    BY <1>0, <1>7, CommandTypes, SendOne DEF AskAgain
  <2>2. repeats' \in 0..MaxTroubles
    <3>1. repeats \in Nat /\ upsets \in Nat
          /\ repeats + upsets < MaxTroubles /\ repeats' = repeats + 1
      BY <1>0, <1>7 DEF AskAgain, TroublesLeft, TypeOK
    <3> QED
      BY <3>1, Numbers
  <2>3. TypeOK'
    BY <1>0, <1>7, <2>1, <2>2, AgenteTypes DEF AskAgain
  <2> QED
    BY <1>0, <1>7, <2>3 DEF AskAgain, Types, Phases, clientVars
<1>8. CASE Over
  <2>1. TypeOK'
    BY <1>0, <1>8, AgenteTypes DEF Over, Ends
  <2> QED
    BY <1>0, <1>8, <2>1 DEF Over, Types, Phases, clientVars
<1>9. CASE GiveUp
  <2>1. toClient' \in Seq(Commands)
    BY <1>0, <1>9, CommandTypes, SendOne DEF GiveUp
  <2>2. upsets' \in 0..MaxTroubles
    <3>1. repeats \in Nat /\ upsets \in Nat
          /\ repeats + upsets < MaxTroubles /\ upsets' = upsets + 1
      BY <1>0, <1>9 DEF GiveUp, TroublesLeft, TypeOK
    <3> QED
      BY <3>1, Numbers
  <2>3. TypeOK'
    BY <1>0, <1>9, <2>1, <2>2 DEF GiveUp, Ends, TypeOK, clientVars, history
  <2> QED
    BY <1>0, <1>9, <2>3 DEF GiveUp, Ends, Types, Phases, clientVars
<1>10. CASE RequestClientExit
  <2>1. toClient' \in Seq(Commands)
    BY <1>0, <1>10, CommandTypes, SendOne DEF RequestClientExit
  <2>2. TypeOK'
    BY <1>0, <1>10, <2>1, AgenteTypes DEF RequestClientExit, Ends
  <2>3. ~asking
    BY <1>0, <1>10 DEF RequestClientExit, Phases
  <2> QED
    BY <1>0, <1>10, <2>2, <2>3 DEF RequestClientExit, Types, Phases, clientVars
<1>11. CASE Answer
  <2>1. PICK answer : answer = Head(toAgente).says
    OBVIOUS
  <2>2. /\ pending /\ step \in {"preparing", "executing", "heating"}
        /\ Tail(toAgente) \in Seq(Answers)
        /\ Again(answer) \/ Lost(answer) \/ Listens(answer) \/ Hears(answer)
        /\ UNCHANGED <<test, target, repeats, clientVars, device, weather, history>>
    BY <1>11, <2>1, Answered
  <2>3. toAgente' \in Seq(Answers)
    BY <2>2, ClearedTypes DEF Again, Lost, Listens, Hears
  <2>4. toClient' \in Seq(Commands)
    <3>1. PICK x : x = [cmd |-> "START", arg |-> IF step = "preparing" THEN target ELSE Room]
      OBVIOUS
    <3>2. x \in Commands
      BY <1>0, <2>2, <3>1, CommandTypes DEF Phases
    <3>3. Again(answer) \/ Lost(answer) => Send(<<x>>)
      BY <3>1 DEF Again, Lost
    <3>4. Listens(answer) \/ Hears(answer) => toClient' = toClient
      BY DEF Listens, Hears
    <3> QED
      BY <1>0, <2>2, <3>2, <3>3, <3>4, SendOne
  <2>5. pending' \in BOOLEAN /\ asking' \in BOOLEAN
    BY <1>0, <2>2, Zenon DEF Again, Lost, Listens, Hears
  <2>6. step' \in {step, "enter"}
    BY <2>2 DEF Again, Lost, Listens, Hears
  <2>7. TypeOK'
    BY <1>0, <2>2, <2>3, <2>4, <2>5, <2>6, AgenteTypes
  <2>8. check' = check /\ target' = target
    BY <2>2 DEF clientVars
  <2>9. Phases'
    <3>1. asking' => pending' /\ step' = step
      BY <2>2 DEF Again, Lost, Listens, Hears
    <3>2. Placed(main', mainAt') /\ Placed(check', checkAt')
      BY <1>0, <2>2 DEF Phases, clientVars
    <3> QED
      BY <1>0, <2>2, <2>6, <2>8, <3>1, <3>2 DEF Phases
  <2> QED
    BY <2>7, <2>9 DEF Types
<1> QED
  BY <1>1, <1>2, <1>3, <1>4, <1>5, <1>6, <1>7, <1>8, <1>9, <1>10, <1>11 DEF Agente

LEMMA NextTypes ==
  ASSUME Types, [Next]_vars
  PROVE  Types'
<1>1. CASE Agente \/ AskAgain \/ UserEnter \/ GiveUp
  BY <1>1, AgenteStepTypes
<1>2. CASE MainLoop
  BY <1>2, StartTypes, CycleTypes, FinalHeatTypes, StatTypes, ExitTypes, MainActsTypes,
     MainStabilizesTypes, CloseTypes DEF MainLoop
<1>3. CASE CheckThread
  BY <1>3, CheckTypes, CheckActsTypes DEF CheckThread
<1>4. CASE UNCHANGED vars
  BY <1>4 DEF vars, Types, TypeOK, Phases
<1> QED
  BY <1>1, <1>2, <1>3, <1>4 DEF Next, Terminating

\* Every variable keeps its type (TypeOK): no setpoint, no count of a cycle test
\* and no command comes up that the other side has no case for.
THEOREM TypeCorrect == Spec => []TypeOK
<1>1. Spec => []Types
  BY InitTypes, NextTypes, PTL DEF Spec
<1>2. Types => TypeOK
  BY DEF Types
<1> QED
  BY <1>1, <1>2, PTL

-----------------------------------------------------------------------------
(* Cycle tests *)

\* A cycle test that has c half cycles to go has seen the other extremes.
Counted(b, t) ==
  /\ b.doCycle => \/ b.cycles = Never /\ t > 2 * NumCycles
                  \/ b.cycles >= 0 /\ t >= 2 * NumCycles - b.cycles
  /\ ~b.doCycle => b.cycles = Never

\* The next extreme has not been reached after t of them.
Turning(t, w) == IF t % 2 = 0 THEN w.temp > CycleHigh ELSE w.temp < CycleLow

Cycling ==
  /\ Counted(box, turns)
  /\ box.doCycle => turns > 2 * NumCycles \/ ~Turning(turns, air)

\* check_cycles counts what is an extreme.
LEMMA CountedChecked ==
  ASSUME NEW b \in Box, NEW w \in Air, NEW c, c = CheckCycles(b, w),
         NEW t \in 0..(2 * NumCycles + 1), Counted(b, t)
  PROVE  /\ ~b.doCycle \/ t > 2 * NumCycles \/ ~Turning(t, w) => Counted(c, t)
         /\ t <= 2 * NumCycles => Counted(c, t + 1)
<1>1. /\ b.cycles \in -1..(2 * NumCycles) /\ 2 * NumCycles \in Nat /\ t \in Nat
      /\ NumCycles \in Nat
      /\ w.temp \in Int /\ CycleLow \in Int /\ CycleHigh \in Int /\ Never = -1
  BY Numbers DEF Box, Air
<1>2. c \in Box /\ c.doCycle = b.doCycle
  BY CyclesChecked
<1>3. CASE c = b
  BY <1>1, <1>3 DEF Counted
<1>4. CASE b.cycles = 0 /\ c.cycles = Never /\ w.temp > CycleHigh
  <2>1. b.doCycle /\ t >= 2 * NumCycles
    BY <1>1, <1>4 DEF Counted
  <2>2. t = 2 * NumCycles => Turning(t, w)
    <3>1. t = 2 * NumCycles => t % 2 = 0
      BY <1>1
    <3> QED
      BY <1>4, <3>1 DEF Turning
  <2>3. t > 2 * NumCycles => Counted(c, t)
    BY <1>2, <1>4, <2>1 DEF Counted
  <2>4. Counted(c, t + 1)
    <3>1. t + 1 > 2 * NumCycles
      BY <1>1, <2>1
    <3> QED
      BY <1>2, <1>4, <2>1, <3>1 DEF Counted
  <2> QED
    BY <1>1, <2>1, <2>2, <2>3, <2>4
<1>5. CASE /\ b.cycles > 0 /\ c.cycles = b.cycles - 1
           /\ \/ b.cycles % 2 = 1 /\ w.temp < CycleLow
              \/ b.cycles % 2 = 0 /\ w.temp > CycleHigh
  <2>1. b.doCycle /\ t >= 2 * NumCycles - b.cycles
    BY <1>1, <1>5 DEF Counted
  <2>2. t = 2 * NumCycles - b.cycles => Turning(t, w)
    <3>1. t = 2 * NumCycles - b.cycles => t % 2 = b.cycles % 2
      BY <1>1
    <3> QED
      BY <1>1, <1>5, <3>1 DEF Turning
  <2>3. t > 2 * NumCycles - b.cycles => Counted(c, t)
    <3>1. t > 2 * NumCycles - b.cycles => t >= 2 * NumCycles - (b.cycles - 1)
      BY <1>1
    <3> QED
      BY <1>1, <1>2, <1>5, <2>1, <3>1 DEF Counted
  <2>4. Counted(c, t + 1)
    <3>1. t + 1 >= 2 * NumCycles - (b.cycles - 1)
      BY <1>1, <2>1
    <3> QED
      BY <1>1, <1>2, <1>5, <2>1, <3>1 DEF Counted
  <2>5. t > 2 * NumCycles => t > 2 * NumCycles - b.cycles
    BY <1>1, <1>5
  <2> QED
    BY <1>1, <2>1, <2>2, <2>3, <2>4, <2>5
<1> QED
  BY <1>3, <1>4, <1>5, CyclesChecked

\* What stabilize() leaves is counted as well if check_cycles is right about it.
LEMMA CountedStabilized ==
  ASSUME NEW b \in Box, NEW w \in Air, NEW p, p = Stabilize(b, w),
         NEW t, Counted(b, t), Counted(CheckCycles(b, w), t)
  PROVE  Counted(p.box, t)
<1>1. PICK c : c = CheckCycles(b, w)
  OBVIOUS
<1>2. /\ p.box.doCycle = b.doCycle
      /\ p.box.cycles = b.cycles \/ p.box.cycles = c.cycles
  BY <1>1, Stabilized
<1>3. c.doCycle = b.doCycle
  BY <1>1, CyclesChecked
<1> QED
  BY <1>1, <1>2, <1>3 DEF Counted

\* A pass of the main thread finds no new extreme.
LEMMA CountedByMain ==
  ASSUME NEW b \in Box, air \in Air, turns \in 0..(2 * NumCycles + 1), Counted(b, turns),
         b.doCycle => turns > 2 * NumCycles \/ ~Turning(turns, air)
  PROVE  /\ Counted(Stabilize(b, air).box, turns)
         /\ \A s \in Setpoints : Counted(SetSetpoint(b, s).box, turns)
<1>1. ASSUME NEW d \in Box, Counted(d, turns), d.doCycle = b.doCycle
      PROVE  Counted(Stabilize(d, air).box, turns)
  <2>1. Counted(CheckCycles(d, air), turns)
    BY <1>1, CountedChecked
  <2> QED
    BY <1>1, <2>1, CountedStabilized
<1>2. ASSUME NEW s \in Setpoints
      PROVE  Counted(SetSetpoint(b, s).box, turns)
  <2>1. CASE b.setpoint = s
    BY <2>1 DEF SetSetpoint, Pass
  <2>2. CASE b.setpoint # s
    <3>1. PICK d : d = [b EXCEPT !.setpoint = s]
      OBVIOUS
    <3>2. d \in Box /\ d.doCycle = b.doCycle /\ d.cycles = b.cycles
      BY <3>1 DEF Box
    <3>3. Counted(d, turns)
      BY <3>2 DEF Counted
    <3>4. SetSetpoint(b, s) = Stabilize(d, air)
      BY <2>2, <3>1 DEF SetSetpoint
    <3> QED
      BY <1>1, <3>2, <3>3, <3>4
  <2> QED
    BY <2>1, <2>2
<1> QED
  BY <1>1, <1>2

LEMMA TurningNext ==
  ASSUME NEW t \in Nat, NEW w \in Air, Turning(t, w)
  PROVE  ~Turning(t + 1, w)
<1>1. (t % 2 = 0) <=> ~((t + 1) % 2 = 0)
  OBVIOUS
<1>2. w.temp \in Int
  BY Numbers DEF Air
<1> QED
  BY <1>1, <1>2, Numbers DEF Turning

LEMMA InitCycling == Init => Cycling
BY DEF Init, Cycling, Counted

LEMMA NextCycling ==
  ASSUME Types, Cycling, [Next]_vars
  PROVE  Cycling'
<1>0. /\ box \in Box /\ air \in Air /\ turns \in 0..(2 * NumCycles + 1) /\ TypeOK /\ Phases
      /\ 2 * NumCycles \in Nat /\ turns \in Nat
  BY Numbers DEF Types, TypeOK, Box
<1>1. CASE Agente \/ AskAgain \/ UserEnter \/ GiveUp \/ UNCHANGED vars
  <2>1. UNCHANGED <<box, turns, air>>
    BY <1>1, Zenon
       DEF Agente, AskAgain, UserEnter, GiveUp, PrepareTest, ExecuteTest, CleanupTest,
           FinalTestCleanup, Ask, Answer, Over, RequestClientExit, clientVars, weather,
           history, vars
  <2> QED
    BY <2>1 DEF Cycling
<1>2. CASE Start
  <2>1. Handles("START") /\ UNCHANGED turns
        /\ box' = SetSetpoint(box, Head(toClient).arg).box
    BY <1>2 DEF Start
  <2>2. UNCHANGED air /\ Head(toClient).arg \in Setpoints
    BY <1>0, <2>1, Handled DEF weather
  <2>3. Counted(box', turns) /\ box'.doCycle = box.doCycle
    BY <1>0, <2>1, <2>2, CountedByMain, SetpointTaken DEF Cycling
  <2> QED
    BY <2>1, <2>2, <2>3 DEF Cycling
<1>3. CASE FinalHeat
  <2>1. Handles("FINAL_HEAT") /\ UNCHANGED turns
        /\ box' = SetSetpoint(box, Warm).box
    BY <1>3 DEF FinalHeat
  <2>2. UNCHANGED air /\ Warm \in Setpoints
    BY <1>0, <2>1, Handled, SetpointTypes DEF weather
  <2>3. Counted(box', turns) /\ box'.doCycle = box.doCycle
    BY <1>0, <2>1, <2>2, CountedByMain, SetpointTaken DEF Cycling
  <2> QED
    BY <2>1, <2>2, <2>3 DEF Cycling
<1>4. CASE Cycle
  <2>1. Handles("CYCLE") /\ turns' = IF air.temp > CycleHigh THEN 1 ELSE 0
    BY <1>4 DEF Cycle
  <2>2. UNCHANGED air
    BY <1>0, <2>1, Handled DEF weather
  <2>3. PICK b : b = NewCount
    OBVIOUS
  <2>4. /\ b \in Box /\ b.doCycle = TRUE /\ b.cycles = 2 * NumCycles
    BY <1>0, <2>3, NewCountTypes
  <2>5. box' = SetSetpoint(b, CycleHigh + 1).box
    BY <1>4, <2>3 DEF Cycle
  <2>6. /\ turns' \in {0, 1} /\ turns' \in Nat /\ turns' \in 0..(2 * NumCycles + 1)
        /\ 0 % 2 = 0 /\ 1 % 2 = 1 /\ air.temp \in Int
    BY <1>0, <2>1 DEF Air
  <2>7. ~Turning(turns', air)
    BY <2>1, <2>6, Numbers DEF Turning
  <2>8. ASSUME NEW d \in Box, d.doCycle = TRUE, d.cycles = 2 * NumCycles
        PROVE  Counted(d, turns') /\ Counted(CheckCycles(d, air), turns')
    <3>1. Counted(d, turns')
      BY <2>6, <2>8, <1>0 DEF Counted
    <3> QED
      BY <1>0, <2>6, <2>7, <2>8, <3>1, CountedChecked
  <2>9. Counted(box', turns') /\ box'.doCycle = TRUE
    <3>1. CASE b.setpoint = CycleHigh + 1
      BY <2>4, <2>5, <2>8, <3>1 DEF SetSetpoint, Pass
    <3>2. CASE b.setpoint # CycleHigh + 1
      <4>1. PICK d : d = [b EXCEPT !.setpoint = CycleHigh + 1]
        OBVIOUS
      <4>2. d \in Box /\ d.doCycle = TRUE /\ d.cycles = 2 * NumCycles
        BY <2>4, <4>1, SetpointTypes DEF Box
      <4>3. box' = Stabilize(d, air).box
        BY <2>5, <3>2, <4>1 DEF SetSetpoint
      <4>4. Counted(d, turns') /\ Counted(CheckCycles(d, air), turns')
        BY <2>8, <4>2
      <4>5. PICK t : t = turns'
        OBVIOUS
      <4>6. Counted(Stabilize(d, air).box, t)
        BY <1>0, <4>2, <4>4, <4>5, CountedStabilized
      <4>7. Stabilize(d, air).box.doCycle = TRUE
        BY <1>0, <4>2, Stabilized
      <4> QED
        BY <4>3, <4>5, <4>6, <4>7
    <3> QED
      BY <3>1, <3>2
  <2> QED
    BY <2>2, <2>7, <2>9 DEF Cycling
<1>5. CASE Stat
  <2>1. UNCHANGED air
    BY <1>0, <1>5, Handled DEF Stat, weather
  <2>2. CASE Status = "FINISHED"
    <3>1. box' = [box EXCEPT !.doCycle = FALSE, !.reached = Never]
      BY <1>5, <2>2 DEF Stat
    <3>2. box.cycles = Never
      BY <2>2 DEF Status
    <3>3. box'.doCycle = FALSE /\ box'.cycles = Never
      BY <1>0, <3>1, <3>2 DEF Box
    <3> QED
      BY <2>1, <3>3 DEF Cycling, Counted
  <2>3. CASE Status # "FINISHED"
    <3>1. box' \in {box, Settle(box)} /\ turns' = turns
      BY <1>5, <2>3 DEF Stat
    <3>2. box' \in {box, [box EXCEPT !.reached = Never]}
      BY <1>0, <3>1, SettleTypes
    <3>3. box'.doCycle = box.doCycle /\ box'.cycles = box.cycles
      BY <1>0, <3>2 DEF Box
    <3> QED
      BY <2>1, <3>1, <3>3 DEF Cycling, Counted
  <2> QED
    BY <2>2, <2>3
<1>6. CASE Exit
  <2>1. UNCHANGED <<box, turns, air>>
    BY <1>0, <1>6, Handled DEF Exit, history, weather
  <2> QED
    BY <2>1 DEF Cycling, Counted
<1>7. CASE MainActs \/ CheckActs
  <2>1. UNCHANGED <<turns, air>>
    BY <1>7 DEF MainActs, CheckActs, weather, history
  <2>2. box'.doCycle = box.doCycle /\ box'.cycles = box.cycles
    BY <1>0, <1>7, MainCalls, CheckSteps, Performed
  <2> QED
    BY <2>1, <2>2 DEF Cycling, Counted
<1>8. CASE MainStabilizes
  <2>1. UNCHANGED <<turns, air>> /\ box' = Stabilize(box, air).box
    BY <1>8, MainStabilizesTypes DEF weather
  <2>2. Counted(Stabilize(box, air).box, turns)
    BY <1>0, CountedByMain DEF Cycling
  <2>3. Stabilize(box, air).box.doCycle = box.doCycle
    BY <1>0, Stabilized
  <2> QED
    BY <2>1, <2>2, <2>3 DEF Cycling
<1>9. CASE Close
  BY <1>9 DEF Close, Cycling, weather, history
<1>10. CASE CheckStatus
  <2>1. PICK w \in Air :
          /\ air' = w
          /\ box' = Stabilize(Aged(box), w).box
          /\ turns' = IF box.doCycle /\ AtTurn(w) THEN Capped(turns, 2 * NumCycles + 1)
                                                  ELSE turns
    BY <1>10 DEF CheckStatus
  <2>2. PICK b : b = Aged(box)
    OBVIOUS
  <2>3. b \in Box /\ b.doCycle = box.doCycle /\ b.cycles = box.cycles
    BY <1>0, <2>2, AgedTypes
  <2>4. Counted(b, turns)
    BY <2>3 DEF Cycling, Counted
  <2>5. PICK t : t = turns'
    OBVIOUS
  <2>6. AtTurn(w) <=> Turning(turns, w)
    BY DEF AtTurn, Turning
  <2>7. /\ t \in Nat /\ Counted(b, t) /\ Counted(CheckCycles(b, w), t)
        /\ box.doCycle => t > 2 * NumCycles \/ ~Turning(t, w)
    <3>1. CASE ~(box.doCycle /\ AtTurn(w))
      <4>1. t = turns
        BY <2>1, <2>5, <3>1
      <4> QED
        BY <1>0, <2>3, <2>4, <2>6, <3>1, <4>1, CountedChecked
    <3>2. CASE box.doCycle /\ AtTurn(w) /\ turns > 2 * NumCycles
      <4>1. t = turns
        BY <1>0, <2>1, <2>5, <3>2 DEF Capped
      <4> QED
        BY <1>0, <2>3, <2>4, <3>2, <4>1, CountedChecked
    <3>3. CASE box.doCycle /\ AtTurn(w) /\ turns <= 2 * NumCycles
      <4>1. t = turns + 1
        BY <1>0, <2>1, <2>5, <3>3 DEF Capped
      <4>2. Counted(b, turns + 1)
        BY <1>0, <2>3, <2>4, <3>3 DEF Counted, Box
      <4>3. Counted(CheckCycles(b, w), turns + 1)
        BY <1>0, <2>3, <2>4, <3>3, CountedChecked
      <4>4. ~Turning(turns + 1, w)
        BY <1>0, <2>6, <3>3, TurningNext
      <4> QED
        BY <1>0, <4>1, <4>2, <4>3, <4>4
    <3> QED
      BY <1>0, <3>1, <3>2, <3>3
  <2>8. Counted(Stabilize(b, w).box, t)
    BY <2>3, <2>7, CountedStabilized
  <2>9. Stabilize(b, w).box.doCycle = box.doCycle
    BY <2>3, Stabilized
  <2> QED
    BY <2>1, <2>2, <2>5, <2>7, <2>8, <2>9 DEF Cycling
<1> QED
  BY <1>1, <1>2, <1>3, <1>4, <1>5, <1>6, <1>7, <1>8, <1>9, <1>10
     DEF Next, MainLoop, CheckThread, Terminating

\* Only :PROG:STAT? puts a packet on the channel to the agente.
LEMMA OnlyStatAnswers ==
  ASSUME Types, [Next]_vars, ~Stat
  PROVE  Len(toAgente') <= Len(toAgente)
<1>0. TypeOK /\ toAgente \in Seq(Answers) /\ Len(toAgente) \in Nat
  BY LenProperties DEF Types, TypeOK
<1>1. CASE UNCHANGED toAgente
  BY <1>0, <1>1
<1>2. CASE PrepareTest \/ ExecuteTest \/ FinalTestCleanup \/ Ask
  <2>1. \/ toAgente' \in ClearedAmongOthers(toAgente) \/ toAgente' \in ClearedTwice(toAgente)
        \/ UNCHANGED toAgente
    BY <1>2 DEF PrepareTest, ExecuteTest, FinalTestCleanup, Ask
  <2> QED
    BY <1>0, <2>1, ClearedTypes, ClearedTwiceTypes
<1>3. CASE Answer
  <2>1. PICK q : q = Tail(toAgente)
    OBVIOUS
  <2>2. /\ toAgente # <<>> /\ q \in Seq(Answers)
        /\ toAgente' \in ClearedAmongOthers(q) \/ toAgente' = q
    BY <1>3, <2>1, Answered DEF Again, Lost, Listens, Hears
  <2>3. Len(q) = Len(toAgente) - 1
    BY <1>0, <2>1, <2>2, HeadTailProperties
  <2>4. toAgente' \in Seq(Answers) /\ Len(toAgente') <= Len(q)
    BY <1>0, <2>2, <2>3, ClearedTypes
  <2> QED
    BY <1>0, <2>3, <2>4, LenProperties
<1>4. CASE /\ [Next]_vars
           /\ ~(PrepareTest \/ ExecuteTest \/ FinalTestCleanup \/ Ask \/ Answer \/ Stat)
  <2>1. UNCHANGED toAgente
    BY <1>4, Zenon
       DEF Next, Agente, MainLoop, CheckThread, AskAgain, UserEnter, GiveUp, CleanupTest, Over,
           RequestClientExit, Start, Cycle, FinalHeat, Exit, MainActs, MainStabilizes, Close,
           CheckStatus, CheckActs, Terminating, vars
  <2> QED
    BY <1>1, <2>1
<1> QED
  BY <1>2, <1>3, <1>4

LEMMA Reporting ==
  ASSUME Types, [Next]_vars, NEW a \in Answers, toAgente' = Append(toAgente, a)
  PROVE  Stat /\ a.says = Status
<1>1. toAgente \in Seq(Answers) /\ Len(toAgente) \in Nat
  BY LenProperties DEF Types, TypeOK
<1>2. Len(toAgente') = Len(toAgente) + 1 /\ toAgente'[Len(toAgente) + 1] = a
  BY <1>1, AppendProperties
<1>3. Stat
  BY <1>1, <1>2, OnlyStatAnswers
<1>4. PICK r \in Answers : r.says = Status /\ toAgente' = Append(toAgente, r)
  BY <1>3, StatTypes
<1> QED
  BY <1>1, <1>2, <1>3, <1>4, AppendProperties

\* The end of a cycle test is reported when the box has been through all the
\* cycles (AllCyclesDone), however flushing, drifts and the passes of the two
\* threads come in between: check_cycles never counts a half cycle that the
\* temperature has not made.
THEOREM CyclesReported == Spec => AllCyclesDone
<1> DEFINE Reports == toAgente' = Append(toAgente, Reply("FINISHED"))
<1>1. ASSUME Types, Cycling, [Next]_vars, Reports
      PROVE  turns > 2 * NumCycles
  <2>1. Reply("FINISHED") \in Answers /\ Reply("FINISHED").says = "FINISHED"
    <3>1. None \in Setpoints
      BY DEF Setpoints
    <3> QED
      BY <3>1 DEF Answers, Reply
  <2>2. Status = "FINISHED"
    BY <1>1, <2>1, Reporting
  <2>3. box.doCycle /\ box.cycles = Never
    BY <2>2 DEF Status
  <2> QED
    BY <1>1, <2>3, Numbers DEF Cycling, Counted
<1>2. Types /\ Cycling /\ [Next]_vars => [Reports => turns > 2 * NumCycles]_vars
  BY <1>1
<1>3. Spec => [](Types /\ Cycling)
  BY InitTypes, NextTypes, InitCycling, NextCycling, PTL DEF Spec
<1> HIDE DEF Reports
<1>4. Spec => [][Reports => turns > 2 * NumCycles]_vars
  BY <1>2, <1>3, PTL DEF Spec
<1> QED
  BY <1>4 DEF AllCyclesDone, Reports

-----------------------------------------------------------------------------
(* The box under control *)

Drives == Stabilizing \union {"start"}
Calms == {<<>>, <<"flushing">>, <<"cooling">>, <<"heating">>}

\* The box is controlled, and nothing that either thread is about to do ends
\* that.
Driven ==
  /\ box.controlling /\ box.status \in Stabilizing
  /\ main \in Seq(Drives) /\ mainAt \notin {"safe", "control"} /\ check \in Calms

LEMMA CalmsTypes ==
  /\ Calms \subseteq Seq(Drives) /\ Calms \subseteq Passes
  /\ \A p \in Passes : p # <<"stop">> => p \in Calms
<1>1. \A a \in Drives : <<a>> \in Seq(Drives)
  OBVIOUS
<1>2. <<>> \in Seq(Drives)
  OBVIOUS
<1> QED
  BY <1>1, <1>2 DEF Calms, Drives, Stabilizing, Passes

LEMMA Tuples ==
  /\ \A x : /\ Head(<<x>>) = x /\ Tail(<<x>>) = <<>> /\ <<x>> # <<>> /\ Len(<<x>>) = 1
            /\ <<>> \o <<x>> = <<x>> /\ Append(<<>>, x) = <<x>>
  /\ \A x, y : /\ Head(<<x, y>>) = x /\ Tail(<<x, y>>) = <<y>> /\ <<x, y>> # <<>>
               /\ <<x>> \o <<y>> = <<x, y>> /\ Append(<<x>>, y) = <<x, y>>
  /\ \A x, y, z : /\ Head(<<x, y, z>>) = x /\ Tail(<<x, y, z>>) = <<y, z>>
                  /\ <<x, y, z>> # <<>> /\ <<x, y>> \o <<z>> = <<x, y, z>>
<1>1. ASSUME NEW x
      PROVE  /\ Head(<<x>>) = x /\ Tail(<<x>>) = <<>> /\ <<x>> # <<>> /\ Len(<<x>>) = 1
             /\ <<>> \o <<x>> = <<x>> /\ Append(<<>>, x) = <<x>>
  OBVIOUS
<1>2. ASSUME NEW x, NEW y
      PROVE  /\ Head(<<x, y>>) = x /\ Tail(<<x, y>>) = <<y>> /\ <<x, y>> # <<>>
             /\ <<x>> \o <<y>> = <<x, y>> /\ Append(<<x>>, y) = <<x, y>>
  <2>1. Head(<<x, y>>) = x /\ <<x, y>> # <<>>
    OBVIOUS
  <2>2. Tail(<<x, y>>) = <<y>>
    OBVIOUS
  <2>3. <<x>> \in Seq({x, y}) /\ <<y>> \in Seq({x, y}) /\ <<x, y>> \in Seq({x, y})
        /\ Len(<<x>>) = 1 /\ Len(<<y>>) = 1 /\ Len(<<x, y>>) = 2
        /\ <<x>>[1] = x /\ <<y>>[1] = y /\ <<x, y>>[1] = x /\ <<x, y>>[2] = y
    OBVIOUS
  <2>4. <<x>> \o <<y>> = <<x, y>>
    <3>1. PICK r : r = <<x>> \o <<y>>
      OBVIOUS
    <3>2. r \in Seq({x, y}) /\ Len(r) = 2 /\ r[1] = x /\ r[2] = y
      BY <2>3, <3>1, ConcatProperties
    <3>3. \A i \in 1..Len(r) : r[i] = <<x, y>>[i]
      BY <2>3, <3>2
    <3> QED
      BY <2>3, <3>1, <3>2, <3>3, SeqEqual
  <2>5. Append(<<x>>, y) = <<x, y>>
    BY <2>3, <2>4, AppendIsConcat
  <2> QED
    BY <2>1, <2>2, <2>4, <2>5
<1>3. ASSUME NEW x, NEW y, NEW z
      PROVE  /\ Head(<<x, y, z>>) = x /\ Tail(<<x, y, z>>) = <<y, z>>
             /\ <<x, y, z>> # <<>> /\ <<x, y>> \o <<z>> = <<x, y, z>>
  <2>1. Head(<<x, y, z>>) = x /\ <<x, y, z>> # <<>>
    OBVIOUS
  <2>2. Tail(<<x, y, z>>) = <<y, z>>
    OBVIOUS
  <2>3. <<x, y>> \o <<z>> = <<x, y, z>>
    <3> DEFINE S == {x, y, z}
    <3>1. <<x, y>> \in Seq(S) /\ <<z>> \in Seq(S) /\ <<x, y, z>> \in Seq(S)
          /\ Len(<<x, y>>) = 2 /\ Len(<<z>>) = 1 /\ Len(<<x, y, z>>) = 3
      OBVIOUS
    <3>2. <<x, y>>[1] = x /\ <<x, y>>[2] = y /\ <<z>>[1] = z
          /\ <<x, y, z>>[1] = x /\ <<x, y, z>>[2] = y /\ <<x, y, z>>[3] = z
      OBVIOUS
    <3>3. PICK r : r = <<x, y>> \o <<z>>
      OBVIOUS
    <3> HIDE DEF S
    <3>4. r \in Seq(S) /\ Len(r) = 3
          /\ \A i \in 1..3 : r[i] = IF i <= 2 THEN <<x, y>>[i] ELSE <<z>>[i - 2]
      BY <3>1, <3>3, ConcatProperties
    <3>5. r[1] = x /\ r[2] = y /\ r[3] = z
      BY <3>2, <3>4
    <3>6. \A i \in 1..Len(r) : r[i] = <<x, y, z>>[i]
      BY <3>2, <3>4, <3>5
    <3> QED
      BY <3>1, <3>3, <3>4, <3>6, SeqEqual
  <2> QED
    BY <2>1, <2>2, <2>3
<1> QED
  BY <1>1, <1>2, <1>3

\* A step of a call that drives the box, and one of a call of the main thread
\* while the box is controlled.
LEMMA CallOn ==
  ASSUME TypeOK, NEW call \in Stabilizing, NEW place \in PlacesOf(call), Perform(call, place)
  PROVE  /\ box'.controlling = box.controlling
         /\ box'.status \in {box.status, call}
         /\ place \notin {"safe", "control"}
<1>1. place \in {"call", "controllers", "contacts", "status"}
  BY DEF PlacesOf, Stabilizing
<1>2. /\ place = "status" => box' = [box EXCEPT !.status = call]
      /\ place # "status" => box' = box
  BY <1>1 DEF Perform, StatusOf, Stabilizing
<1>3. box \in Box
  BY DEF TypeOK, Box
<1> QED
  BY <1>1, <1>2, <1>3 DEF Box

LEMMA DriveOn ==
  ASSUME TypeOK, box.controlling, box.status \in Stabilizing,
         NEW call \in Drives, NEW place \in PlacesOf(call), place \notin {"safe", "control"},
         Perform(call, place)
  PROVE  /\ box'.controlling = box.controlling /\ box'.status \in Stabilizing
         /\ After(call, place) \notin {"safe", "control"}
<1>1. CASE call \in Stabilizing
  <2>1. place \in {"call", "controllers", "contacts", "status"}
    BY <1>1 DEF PlacesOf, Stabilizing
  <2>2. After(call, place) \notin {"safe", "control"}
    BY <1>1, <2>1 DEF After, Stabilizing
  <2> QED
    BY <1>1, <2>2, CallOn
<1>2. CASE call = "start"
  <2>1. place = "call"
    BY <1>2 DEF PlacesOf
  <2>2. box' = box
    BY <1>2, <2>1 DEF Perform
  <2>3. After(call, place) = "call"
    BY <1>2, <2>1 DEF After, Needless
  <2> QED
    BY <2>2, <2>3
<1> QED
  BY <1>1, <1>2 DEF Drives

LEMMA DrivenSteps ==
  ASSUME Types, Driven, MainLoop \/ CheckThread, ~FinalHeat, ~Exit
  PROVE  Driven' /\ UNCHANGED agenteVars
<1>0. /\ box \in Box /\ air \in Air /\ TypeOK /\ Phases /\ toClient \in Seq(Commands)
      /\ box.controlling /\ box.status \in Stabilizing /\ box.status # "final_heating"
      /\ main \in Seq(Drives) /\ check \in Calms /\ "start" \in Drives
      /\ mainAt \notin {"safe", "control"}
  BY DEF Types, TypeOK, Box, Driven, Stabilizing, Drives
<1>1. CASE Start
  <2>1. Handles("START") /\ main' = Append(SetSetpoint(box, Head(toClient).arg).acts, "start")
        /\ box' = SetSetpoint(box, Head(toClient).arg).box
    BY <1>1 DEF Start
  <2>2. /\ Head(toClient).arg \in Setpoints
        /\ UNCHANGED check /\ UNCHANGED mainAt /\ UNCHANGED agenteVars
    BY <1>0, <2>1, Handled
  <2>3. PICK p : p = SetSetpoint(box, Head(toClient).arg)
    OBVIOUS
  <2>4. p.acts \in Calms /\ p.box.controlling = box.controlling /\ p.box.status = box.status
    BY <1>0, <2>2, <2>3, SetpointTaken, CalmsTypes
  <2>5. main' \in Seq(Drives)
    BY <1>0, <2>1, <2>3, <2>4, CalmsTypes, SeqTypes
  <2> QED
    BY <1>0, <2>1, <2>2, <2>3, <2>4, <2>5 DEF Driven
<1>2. CASE Cycle
  <2>1. Handles("CYCLE") /\ main' = SetSetpoint(NewCount, CycleHigh + 1).acts
        /\ box' = SetSetpoint(NewCount, CycleHigh + 1).box
    BY <1>2 DEF Cycle
  <2>2. UNCHANGED check /\ UNCHANGED mainAt /\ UNCHANGED agenteVars
    BY <1>0, <2>1, Handled
  <2>3. PICK p : p = SetSetpoint(NewCount, CycleHigh + 1)
    OBVIOUS
  <2>4. p.acts \in Calms /\ p.box.controlling = box.controlling /\ p.box.status = box.status
    <3>1. PICK b : b = NewCount
      OBVIOUS
    <3>2. /\ b \in Box /\ b.controlling = box.controlling /\ b.status = box.status
          /\ p = SetSetpoint(b, CycleHigh + 1) /\ CycleHigh + 1 \in Setpoints
      BY <1>0, <2>3, <3>1, NewCountTypes, SetpointTypes
    <3>3. p.acts \in Passes /\ p.acts # <<"stop">>
          /\ p.box.controlling = b.controlling /\ p.box.status = b.status
      <4>1. /\ p.acts \in Passes /\ p.box.status = b.status
            /\ p.acts = <<"stop">> => b.status = "final_heating"
            /\ p.box.controlling = b.controlling
        <5>1. b \in Box /\ air \in Air /\ p = SetSetpoint(b, CycleHigh + 1) /\ CycleHigh + 1 \in Setpoints
          BY <1>0, <3>2
        <5> QED
          BY <5>1, SetpointTaken
      <4> QED
        BY <1>0, <3>2, <4>1
    <3> QED
      BY <3>2, <3>3, CalmsTypes
  <2> QED
    BY <1>0, <2>1, <2>2, <2>3, <2>4, CalmsTypes DEF Driven
<1>3. CASE FinalHeat \/ Exit
  BY <1>3
<1>4. CASE Stat
  <2>1. Handles("STAT") /\ UNCHANGED main
        /\ box' \in {box, Settle(box), [box EXCEPT !.doCycle = FALSE, !.reached = Never]}
    BY <1>4 DEF Stat
  <2>2. UNCHANGED check /\ UNCHANGED mainAt /\ UNCHANGED agenteVars
    BY <1>0, <2>1, Handled
  <2>3. box' \in {box, [box EXCEPT !.reached = Never],
                  [box EXCEPT !.doCycle = FALSE, !.reached = Never]}
    BY <1>0, <2>1, SettleTypes
  <2>4. box'.controlling = box.controlling /\ box'.status = box.status
    BY <1>0, <2>3 DEF Box
  <2> QED
    BY <1>0, <2>1, <2>2, <2>4 DEF Driven
<1>5. CASE MainActs
  <2>1. /\ main # <<>> /\ Head(main) \in Stepwise /\ mainAt \in PlacesOf(Head(main))
        /\ Perform(Head(main), mainAt) /\ mainAt' = After(Head(main), mainAt)
        /\ \/ main' = main
           \/ mainAt = "control"
           \/ main' = Tail(main)
        /\ UNCHANGED check /\ UNCHANGED agenteVars
    BY <1>5, MainCalls
  <2>2. Head(main) \in Drives /\ main' \in Seq(Drives)
    BY <1>0, <2>1, SeqTypes
  <2>3. box'.controlling = box.controlling /\ box'.status \in Stabilizing
        /\ mainAt' \notin {"safe", "control"}
    BY <1>0, <2>1, <2>2, DriveOn
  <2> QED
    BY <1>0, <2>1, <2>2, <2>3 DEF Driven
<1>6. CASE CheckActs
  <2>1. /\ Head(check) \in {"flushing", "cooling", "heating", "stop"}
        /\ check = <<Head(check)>> /\ checkAt \in PlacesOf(Head(check))
        /\ Perform(Head(check), checkAt) /\ check' \in {check, <<>>}
        /\ UNCHANGED <<main, mainAt>> /\ UNCHANGED agenteVars
    BY <1>6, CheckSteps
  <2>2. Head(check) \in Stabilizing
    BY <1>0, <2>1, PassesDiffer, Tuples DEF Calms, Stabilizing
  <2>3. box'.controlling = box.controlling /\ box'.status \in Stabilizing
    BY <1>0, <2>1, <2>2, CallOn
  <2> QED
    BY <1>0, <2>1, <2>3 DEF Driven, Calms
<1>7. CASE MainStabilizes
  <2>1. main = <<"stabilize">>
    BY <1>7 DEF MainStabilizes
  <2>2. Head(main) = "stabilize" /\ main # <<>>
    BY <2>1
  <2> QED
    BY <1>0, <2>2, SeqTypes DEF Drives, Stabilizing
<1>8. CASE Close
  <2>1. main = <<"close">>
    BY <1>8 DEF Close
  <2>2. Head(main) = "close" /\ main # <<>>
    BY <2>1
  <2> QED
    BY <1>0, <2>2, SeqTypes DEF Drives, Stabilizing
<1>9. CASE CheckStatus
  <2>1. PICK w \in Air : /\ box' = Stabilize(Aged(box), w).box
                         /\ check' = Stabilize(Aged(box), w).acts
    BY <1>9 DEF CheckStatus
  <2>2. UNCHANGED <<main, mainAt>> /\ UNCHANGED agenteVars
    BY <1>9 DEF CheckStatus
  <2>3. PICK p : p = Stabilize(Aged(box), w)
    OBVIOUS
  <2>4. p.acts \in Calms /\ p.box.controlling = box.controlling /\ p.box.status = box.status
    <3>1. PICK b : b = Aged(box)
      OBVIOUS
    <3>2. /\ b \in Box /\ b.controlling = box.controlling /\ b.status = box.status
          /\ p = Stabilize(b, w)
      BY <1>0, <2>3, <3>1, AgedTypes
    <3>3. p.acts \in Passes /\ p.acts # <<"stop">>
          /\ p.box.controlling = b.controlling /\ p.box.status = b.status
      <4>1. /\ p.acts \in Passes /\ p.box.status = b.status
            /\ p.acts = <<"stop">> => b.status = "final_heating"
            /\ p.box.controlling = b.controlling
        <5>1. b \in Box /\ air \in Air /\ p = Stabilize(b, w)
          BY <1>0, <3>2
        <5> QED
          BY <5>1, Stabilized
      <4> QED
        BY <1>0, <3>2, <4>1
    <3> QED
      BY <3>2, <3>3, CalmsTypes
  <2> QED
    BY <1>0, <2>1, <2>2, <2>3, <2>4 DEF Driven
<1> QED
  BY <1>1, <1>2, <1>3, <1>4, <1>5, <1>6, <1>7, <1>8, <1>9 DEF MainLoop, CheckThread

\* The tests of the campaign.
Tests == step \in {"idle", "preparing", "executing"}

TestCommands ==
  [cmd : {"START"}, arg : Setpoints \ {None}] \union [cmd : {"CYCLE", "STAT"}, arg : {None}]
TestAnswers == {a \in Answers : a.says \in {"STABLE", "UNSTABLE", "CYCLING", "FINISHED"}}

\* As long as there are tests the box stays under control: no command takes it
\* away, and no answer tells of its loss.
Testing ==
  Tests => Driven /\ toClient \in Seq(TestCommands) /\ toAgente \in Seq(TestAnswers)

LEMMA InitTesting == Init => Testing
<1>1. <<>> \in Seq(Drives) /\ <<>> \in Seq(TestCommands) /\ <<>> \in Seq(TestAnswers)
  OBVIOUS
<1> QED
  BY <1>1 DEF Init, Testing, Driven, Stabilizing, Calms

LEMMA TestCommandTypes ==
  /\ Command("STAT") \in TestCommands /\ Command("CYCLE") \in TestCommands
  /\ \A t \in Targets : [cmd |-> "START", arg |-> t] \in TestCommands
  /\ \A c \in TestCommands : /\ c.cmd \in {"START", "CYCLE", "STAT"}
                             /\ c.cmd = "START" => c.arg \in Setpoints \ {None}
<1>1. \A t \in Targets : t \in Setpoints \ {None}
  BY Numbers DEF Setpoints
<1> QED
  BY <1>1 DEF Command, TestCommands

\* The answers while the box is under control.
LEMMA DrivenStatus ==
  ASSUME Driven
  PROVE  Status \in {"STABLE", "UNSTABLE", "CYCLING", "FINISHED"}
<1>1. box.controlling /\ box.status \notin {"unknown", "final_heating"}
  BY DEF Driven, Stabilizing
<1>2. CASE box.doCycle
  BY <1>1, <1>2 DEF Status
<1>3. CASE ~box.doCycle
  BY <1>1, <1>3 DEF Status
<1> QED
  BY <1>2, <1>3

LEMMA NextTesting ==
  ASSUME Types, Testing, [Next]_vars
  PROVE  Testing'
<1> SUFFICES ASSUME Tests'
             PROVE  Driven' /\ toClient' \in Seq(TestCommands) /\ toAgente' \in Seq(TestAnswers)
  BY DEF Testing
<1>1. CASE Agente \/ AskAgain \/ UserEnter \/ GiveUp
  <2>1. UNCHANGED <<box, main, mainAt, check>>
    BY <1>1, Zenon
       DEF Agente, AskAgain, UserEnter, GiveUp, PrepareTest, ExecuteTest, CleanupTest,
           FinalTestCleanup, Ask, Answer, Over, RequestClientExit, clientVars
  <2>2. Tests
    BY <1>1, Answered
       DEF Agente, AskAgain, UserEnter, GiveUp, PrepareTest, ExecuteTest, CleanupTest,
           FinalTestCleanup, Ask, Over, RequestClientExit, Tests, Ends, Types, Phases,
           Again, Lost, Listens, Hears
  <2>3. Driven' /\ toClient \in Seq(TestCommands) /\ toAgente \in Seq(TestAnswers)
    BY <2>1, <2>2 DEF Testing, Driven
  <2>4. \/ UNCHANGED toClient
        \/ \E t \in Targets : Send(<<[cmd |-> "START", arg |-> t]>>)
        \/ Send(<<Command("STAT")>>) \/ Send(<<Command("CYCLE")>>)
    <3>1. CASE Answer
      BY <2>2, <3>1, Answered DEF Again, Lost, Listens, Hears, Tests, Types, Phases
    <3>2. CASE ~Answer
      BY <1>1, <2>2, <3>2
         DEF Agente, AskAgain, UserEnter, GiveUp, PrepareTest, ExecuteTest, CleanupTest,
             FinalTestCleanup, Ask, Over, RequestClientExit, Tests, Ends, StabilizeTemperature
    <3> QED
      BY <3>1, <3>2
  <2>5. toClient' \in Seq(TestCommands)
    <3>1. UNCHANGED toClient \/ \E x \in TestCommands : Send(<<x>>)
      BY <2>4, TestCommandTypes
    <3>2. ASSUME NEW x \in TestCommands, toClient' = toClient \o <<x>>
          PROVE  toClient' \in Seq(TestCommands)
      BY <2>3, <3>2, SeqTypes
    <3> QED
      BY <2>3, <3>1, <3>2 DEF Send
  <2>6. \/ toAgente' \in {toAgente} \union ClearedAmongOthers(toAgente)
                           \union ClearedTwice(toAgente)
        \/ /\ toAgente # <<>>
           /\ toAgente' \in {Tail(toAgente)} \union ClearedAmongOthers(Tail(toAgente))
    <3>1. CASE Answer
      BY <3>1, Answered DEF Again, Lost, Listens, Hears
    <3>2. CASE ~Answer
      BY <1>1, <3>2
         DEF Agente, AskAgain, UserEnter, GiveUp, PrepareTest, ExecuteTest, CleanupTest,
             FinalTestCleanup, Ask, Over, RequestClientExit
    <3> QED
      BY <3>1, <3>2
  <2>7. toAgente' \in Seq(TestAnswers)
    <3>1. toAgente # <<>> => Tail(toAgente) \in Seq(TestAnswers)
      BY <2>3, SeqTypes
    <3> QED
      BY <2>3, <2>6, <3>1, ClearedTypes, ClearedTwiceTypes
  <2> QED
    BY <2>3, <2>5, <2>7
<1>2. CASE MainLoop \/ CheckThread
  <2>1. UNCHANGED step
    BY <1>2, Zenon
       DEF MainLoop, CheckThread, Start, Cycle, FinalHeat, Stat, Exit, MainActs,
           MainStabilizes, Close, CheckStatus, CheckActs, Handles, agenteVars
  <2>2. Driven /\ toClient \in Seq(TestCommands) /\ toAgente \in Seq(TestAnswers)
    BY <2>1 DEF Testing, Tests
  <2>3. toClient # <<>> => toClient[1].cmd \notin {"FINAL_HEAT", "EXIT"}
    <3>1. toClient # <<>> => toClient[1] \in TestCommands
      BY <2>2, HeadTailProperties
    <3> QED
      BY <3>1, TestCommandTypes
  <2>4. Driven'
    <3>1. ~FinalHeat /\ ~Exit
      BY <2>3, Handled DEF FinalHeat, Exit, Types
    <3> QED
      BY <1>2, <2>2, <3>1, DrivenSteps
  <2>5. UNCHANGED toClient \/ (toClient # <<>> /\ toClient' = Tail(toClient))
    BY <1>2, Zenon
       DEF MainLoop, CheckThread, Start, Cycle, FinalHeat, Stat, Exit, MainActs,
           MainStabilizes, Close, CheckStatus, CheckActs, Handles
  <2>6. UNCHANGED toAgente \/ Stat
    BY <1>2, Zenon
       DEF MainLoop, CheckThread, Start, Cycle, FinalHeat, Exit, MainActs,
           MainStabilizes, Close, CheckStatus, CheckActs
  <2>7. toAgente' \in Seq(TestAnswers)
    <3>1. CASE Stat
      <4>1. /\ Reply(Status) \in Answers /\ Reply(Status).says = Status
            /\ toAgente' = Append(toAgente, Reply(Status))
        BY <3>1, StatTypes
      <4>2. Reply(Status) \in TestAnswers
        BY <2>2, <4>1, DrivenStatus DEF TestAnswers
      <4> QED
        BY <2>2, <4>1, <4>2, SeqTypes
    <3> QED
      BY <2>2, <2>6, <3>1
  <2> QED
    BY <2>2, <2>4, <2>5, <2>7, SeqTypes
<1>3. CASE UNCHANGED vars
  BY <1>3 DEF vars, Testing, Tests, Driven
<1> QED
  BY <1>1, <1>2, <1>3 DEF Next, Terminating

-----------------------------------------------------------------------------
(* The dialogue when no question is repeated *)

SetTo(t) == [cmd |-> "START", arg |-> t]
Question == Command("STAT")

\* Nothing is under way between the two.
Silent == ~asking /\ toAgente = <<>>
Told(says) == \E r \in Answers : r.says = says /\ toAgente = <<r>>
Idle == ~pending /\ Silent /\ toClient = <<>> /\ ~box.doCycle

\* The setpoint of a test is on its way, then set, and only then asked for.
Preparing ==
  /\ pending /\ ~box.doCycle
  /\ \/ Silent /\ toClient = <<SetTo(target)>>
     \/ asking /\ toAgente = <<>> /\ toClient = <<SetTo(target), Question>>
     \/ /\ box.setpoint = target
        /\ \/ Silent /\ toClient = <<>>
           \/ asking /\ toAgente = <<>> /\ toClient = <<Question>>
           \/ /\ asking /\ toClient = <<>> /\ main = <<>>
              /\ \E r \in Answers : /\ toAgente = <<r>>
                                    /\ r.says \in {"STABLE", "UNSTABLE"}
                                    /\ r.says = "STABLE" => r.at = target

\* A cycle test is on its way, runs, or has come to its end.
Executing ==
  /\ pending
  /\ \/ ~box.doCycle /\ Silent /\ toClient = <<Command("CYCLE")>>
     \/ ~box.doCycle /\ asking /\ toAgente = <<>> /\ toClient = <<Command("CYCLE"), Question>>
     \/ box.doCycle /\ Silent /\ toClient = <<>>
     \/ box.doCycle /\ asking /\ toAgente = <<>> /\ toClient = <<Question>>
     \/ /\ asking /\ toClient = <<>> /\ main = <<>>
        /\ (box.doCycle /\ Told("CYCLING")) \/ (~box.doCycle /\ Told("FINISHED"))

\* The final clean-up before and after the command to heat.
CoolingDown ==
  /\ ~box.doCycle /\ Driven /\ Silent
  /\ toClient = <<>> \/ toClient = <<SetTo(Room)>>
HeatOrdered ==
  /\ pending /\ ~box.doCycle /\ Driven /\ toAgente = <<>>
  /\ \/ ~asking /\ toClient = <<Command("FINAL_HEAT")>>
     \/ ~asking /\ toClient = <<SetTo(Room), Command("FINAL_HEAT")>>
     \/ asking /\ toClient = <<Command("FINAL_HEAT"), Question>>
     \/ asking /\ toClient = <<SetTo(Room), Command("FINAL_HEAT"), Question>>

\* What the command to heat comes to: the main thread is about to heat, the box
\* is under control, or it is off as soon as the check thread has come to the end
\* of stop_controlling().
HeatCalls(calls) ==
  \/ calls = <<"final_heating">> \/ calls = <<"heating", "final_heating">>
  \/ \E a \in Stabilizing : calls = <<a, "heating", "final_heating">>
AboutToHeat ==
  /\ box.controlling /\ box.status \in Stabilizing /\ check \in Calms
  /\ HeatCalls(main)
Heats ==
  /\ box.controlling /\ main = <<>>
  /\ \/ box.status \in Stabilizing \union {"final_heating"} /\ check \in Calms
     \/ /\ box.status = "final_heating"
        /\ check = <<"stop">> /\ checkAt \in {"call", "safe", "control"}
SwitchedOff ==
  /\ ~box.controlling
  /\ \/ check = <<"stop">> /\ checkAt \in {"controllers", "contacts", "status"}
     \/ check = <<>>
  /\ check = <<>> \/ checkAt \in {"contacts", "status"} => device.controllers = "off"
  /\ check = <<>> \/ checkAt = "status" => device.contacts = "off"
Off == SwitchedOff /\ main = <<>>
Heating ==
  /\ pending /\ ~box.doCycle
  /\ \/ Silent /\ toClient = <<>> /\ (AboutToHeat \/ Heats \/ Off)
     \/ /\ asking /\ toAgente = <<>> /\ toClient = <<Question>>
        /\ AboutToHeat \/ Heats \/ Off
     \/ /\ asking /\ toClient = <<>>
        /\ \/ Told("FINAL_HEATING") /\ (Heats \/ Off)
           \/ Told("WAITING") /\ Off
           \/ /\ Told("STABLE") \/ Told("UNSTABLE")
              /\ Heats /\ box.status \in Stabilizing
Finished == ~pending /\ Silent /\ toClient = <<>> /\ ~box.doCycle /\ Off

\* The client ends with the check thread at rest; its own stop_controlling() has
\* nothing to do.
Ending ==
  /\ SwitchedOff
  /\ \/ main = <<>> /\ (toClient = <<>> \/ toClient = <<Command("EXIT")>>)
     \/ main = <<"stop", "close">> /\ mainAt = "call" /\ toClient = <<>>
     \/ main = <<"close">> /\ toClient = <<>>
AtRest == ~up => check = <<>>

Quiet ==
  repeats = 0 =>
    /\ step = "idle" => Idle
    /\ step = "preparing" => Idle \/ Preparing
    /\ step = "executing" => Idle \/ Executing
    /\ step = "enter" => CoolingDown
    /\ step = "heating" => HeatOrdered \/ Heating \/ Finished
    /\ step = "over" => Finished
    /\ step = "exited" => Ending

\* The commands are told apart by their kinds.
LEMMA Kinds ==
  /\ \A t : SetTo(t).cmd = "START" /\ SetTo(t).arg = t
  /\ Question.cmd = "STAT" /\ Command("CYCLE").cmd = "CYCLE"
  /\ Command("FINAL_HEAT").cmd = "FINAL_HEAT" /\ Command("EXIT").cmd = "EXIT"
BY DEF SetTo, Question, Command

\* A pass without a cycle test keeps the setpoint.
LEMMA SetpointKept ==
  ASSUME NEW b \in Box, NEW w \in Air, ~b.doCycle, b.cycles = Never, NEW p, p = Stabilize(b, w)
  PROVE  p.box.setpoint = b.setpoint
<1>1. PICK c : c = CheckCycles(b, w)
  OBVIOUS
<1>2. c = b
  <2>1. Never = -1
    BY Numbers
  <2> QED
    BY <1>1, <2>1, CyclesChecked
<1>3. p.box.setpoint = b.setpoint \/ p.box.setpoint = c.setpoint
  BY <1>1, Stabilized
<1> QED
  BY <1>2, <1>3

\* What the calls to the device and the passes of the check thread leave alone.
Works == MainActs \/ CheckActs \/ MainStabilizes \/ CheckStatus

LEMMA WorksFrame ==
  ASSUME Types, Cycling, Works
  PROVE  /\ UNCHANGED agenteVars /\ UNCHANGED toClient /\ UNCHANGED toAgente /\ UNCHANGED up
         /\ box'.doCycle = box.doCycle
         /\ ~box.doCycle => box'.setpoint = box.setpoint
         /\ main = <<>> => main' = <<>>
<1>0. /\ box \in Box /\ air \in Air /\ TypeOK /\ Phases
      /\ ~box.doCycle => box.cycles = Never
  BY DEF Types, TypeOK, Box, Cycling, Counted
<1>1. CASE MainActs
  BY <1>0, <1>1, MainCalls, Performed
<1>2. CASE CheckActs
  BY <1>0, <1>2, CheckSteps, Performed
<1>3. CASE MainStabilizes
  <2>1. /\ UNCHANGED agenteVars /\ UNCHANGED toClient /\ UNCHANGED toAgente /\ UNCHANGED up
        /\ main # <<>> /\ box' = Stabilize(box, air).box
    BY <1>3, Tuples DEF MainStabilizes
  <2>2. Stabilize(box, air).box.doCycle = box.doCycle
    BY <1>0, Stabilized
  <2>3. ~box.doCycle => Stabilize(box, air).box.setpoint = box.setpoint
    BY <1>0, SetpointKept
  <2> QED
    BY <2>1, <2>2, <2>3
<1>4. CASE CheckStatus
  <2>1. PICK w \in Air : box' = Stabilize(Aged(box), w).box
    BY <1>4 DEF CheckStatus
  <2>2. /\ UNCHANGED agenteVars /\ UNCHANGED toClient /\ UNCHANGED toAgente /\ UNCHANGED up
        /\ UNCHANGED main
    BY <1>4 DEF CheckStatus
  <2>3. PICK b : b = Aged(box)
    OBVIOUS
  <2>4. /\ b \in Box /\ b.doCycle = box.doCycle /\ b.cycles = box.cycles
        /\ b.setpoint = box.setpoint
    BY <1>0, <2>3, AgedTypes
  <2>5. Stabilize(b, w).box.doCycle = b.doCycle
    BY <1>0, <2>4, Stabilized
  <2>6. ~b.doCycle => Stabilize(b, w).box.setpoint = b.setpoint
    BY <1>0, <2>4, SetpointKept
  <2> QED
    BY <2>1, <2>2, <2>3, <2>4, <2>5, <2>6
<1> QED
  BY <1>1, <1>2, <1>3, <1>4 DEF Works

\* A pass of the check thread, in short.
LEMMA CheckPass ==
  ASSUME Types, CheckStatus
  PROVE  /\ check = <<>> /\ check' \in Passes /\ checkAt = "call" /\ checkAt' = "call"
         /\ box'.controlling = box.controlling /\ box'.status = box.status
         /\ check' = <<"stop">> => box.status = "final_heating"
         /\ ~box.controlling => check' = <<>>
         /\ UNCHANGED <<main, mainAt, device>>
<1>1. PICK w \in Air : /\ box' = Stabilize(Aged(box), w).box
                       /\ check' = Stabilize(Aged(box), w).acts
  BY DEF CheckStatus
<1>2. check = <<>> /\ UNCHANGED <<main, mainAt, checkAt, device>>
  BY DEF CheckStatus
<1>3. checkAt = "call"
  BY <1>2 DEF Types, Phases, Placed
<1>4. PICK b : b = Aged(box)
  OBVIOUS
<1>5. b \in Box /\ b.controlling = box.controlling /\ b.status = box.status
  BY <1>4, AgedTypes DEF Types, TypeOK, Box
<1>6. PICK p : p = Stabilize(b, w)
  OBVIOUS
<1>7. /\ p.acts \in Passes /\ p.box.status = b.status /\ p.box.controlling = b.controlling
      /\ p.acts = <<"stop">> => b.status = "final_heating"
  BY <1>5, <1>6, Stabilized
<1>8. ~b.controlling => p.acts = <<>>
  BY <1>6 DEF Stabilize, Pass
<1> QED
  BY <1>1, <1>2, <1>3, <1>4, <1>5, <1>6, <1>7, <1>8

\* A box that is no longer controlled goes off and stays off.
LEMMA OffStays ==
  ASSUME Types, SwitchedOff, CheckThread
  PROVE  SwitchedOff'
<1>0. box \in Box /\ device \in Device /\ TypeOK /\ Phases /\ ~box.controlling
  BY DEF Types, TypeOK, Box, Device, SwitchedOff
<1>1. CASE CheckActs
  <2>1. check = <<"stop">> /\ checkAt \in {"controllers", "contacts", "status"}
    BY <1>1 DEF CheckActs, SwitchedOff
  <2>2. Head(check) = "stop" /\ check # <<>>
    BY <2>1, Tuples
  <2>3. /\ Perform("stop", checkAt) /\ checkAt' = After("stop", checkAt)
        /\ \/ checkAt' # "call" /\ check' = check
           \/ checkAt' = "call" /\ check' = <<>>
    BY <1>1, <2>2, CheckSteps
  <2>4. CASE checkAt = "controllers"
    <3>1. box' = box /\ device' = [device EXCEPT !.controllers = "off"] /\ checkAt' = "contacts"
      BY <2>3, <2>4 DEF Perform, ControllersOf, After
    <3>2. device'.controllers = "off"
      BY <1>0, <3>1 DEF Device
    <3> QED
      BY <1>0, <2>1, <2>2, <2>3, <3>1, <3>2 DEF SwitchedOff
  <2>5. CASE checkAt = "contacts"
    <3>1. box' = box /\ device' = [device EXCEPT !.contacts = "off"] /\ checkAt' = "status"
      BY <2>3, <2>5 DEF Perform, ContactsOf, After
    <3>2. device'.controllers = device.controllers /\ device'.contacts = "off"
      BY <1>0, <3>1 DEF Device
    <3>3. device.controllers = "off"
      BY <2>5 DEF SwitchedOff
    <3> QED
      BY <1>0, <2>1, <2>2, <2>3, <3>1, <3>2, <3>3 DEF SwitchedOff
  <2>6. CASE checkAt = "status"
    <3>1. /\ box' = [box EXCEPT !.status = "unknown"] /\ device' = device
          /\ checkAt' = "call"
      BY <2>3, <2>6 DEF Perform, StatusOf, After
    <3>2. box'.controlling = box.controlling
      BY <1>0, <3>1 DEF Box
    <3>3. device.controllers = "off" /\ device.contacts = "off"
      BY <2>6 DEF SwitchedOff
    <3> QED
      BY <1>0, <2>3, <3>1, <3>2, <3>3 DEF SwitchedOff
  <2> QED
    BY <2>1, <2>4, <2>5, <2>6
<1>2. CASE CheckStatus
  BY <1>2, CheckPass DEF SwitchedOff
<1> QED
  BY <1>1, <1>2 DEF CheckThread

\* The final heating runs, is overridden by the check thread, is about to be over,
\* or is over.
LEMMA HeatsOn ==
  ASSUME Types, Heats, CheckThread
  PROVE  /\ Heats' \/ Off'
         /\ box.status \in Stabilizing => Heats' /\ box'.status \in Stabilizing
<1>0. /\ box \in Box /\ TypeOK /\ Phases /\ box.controlling /\ main = <<>>
      /\ box.status \in Stabilizing \union {"final_heating"}
      /\ "final_heating" \notin Stabilizing
  BY DEF Types, TypeOK, Box, Heats, Stabilizing
<1>1. CASE CheckActs /\ check \in Calms
  <2>1. /\ Head(check) \in {"flushing", "cooling", "heating", "stop"}
        /\ check = <<Head(check)>> /\ checkAt \in PlacesOf(Head(check))
        /\ Perform(Head(check), checkAt) /\ check' \in {check, <<>>}
        /\ UNCHANGED main
    BY <1>1, CheckSteps
  <2>2. Head(check) \in Stabilizing
    BY <1>1, <2>1, PassesDiffer, Tuples DEF Calms, Stabilizing
  <2>3. box'.controlling = box.controlling /\ box'.status \in {box.status} \union Stabilizing
    BY <1>0, <2>1, <2>2, CallOn
  <2>4. check' \in Calms
    BY <1>1, <2>1 DEF Calms
  <2> QED
    BY <1>0, <2>1, <2>3, <2>4 DEF Heats
<1>2. CASE CheckActs /\ check \notin Calms
  <2>1. /\ box.status = "final_heating"
        /\ check = <<"stop">> /\ checkAt \in {"call", "safe", "control"}
    BY <1>2 DEF Heats
  <2>2. Head(check) = "stop" /\ check # <<>>
    BY <2>1, Tuples
  <2>3. /\ Perform("stop", checkAt) /\ checkAt' = After("stop", checkAt)
        /\ \/ checkAt' # "call" /\ check' = check
           \/ checkAt' = "call" /\ check' = <<>>
        /\ UNCHANGED main
    BY <1>2, <2>2, CheckSteps
  <2>4. CASE checkAt = "call"
    <3>1. box' = box /\ checkAt' = "safe"
      BY <1>0, <2>3, <2>4 DEF Perform, After, Needless
    <3> QED
      BY <1>0, <2>1, <2>3, <3>1 DEF Heats
  <2>5. CASE checkAt = "safe"
    <3>1. box' = box /\ checkAt' = "control"
      BY <2>3, <2>5 DEF Perform, After
    <3> QED
      BY <1>0, <2>1, <2>3, <3>1 DEF Heats
  <2>6. CASE checkAt = "control"
    <3>1. box' = [box EXCEPT !.controlling = FALSE] /\ checkAt' = "controllers"
      BY <2>3, <2>6 DEF Perform, After
    <3>2. ~box'.controlling
      BY <1>0, <3>1 DEF Box
    <3>3. main' = <<>> /\ check' = <<"stop">>
      BY <1>0, <2>1, <2>3, <3>1
    <3>4. Off'
      BY <2>2, <2>1, <3>1, <3>2, <3>3 DEF Off, SwitchedOff
    <3> QED
      BY <1>0, <2>1, <3>4
  <2> QED
    BY <2>1, <2>4, <2>5, <2>6
<1>3. CASE CheckStatus
  <2>1. /\ check' \in Passes /\ checkAt' = "call"
        /\ box'.controlling = box.controlling /\ box'.status = box.status
        /\ check' = <<"stop">> => box.status = "final_heating"
        /\ UNCHANGED main
    BY <1>3, CheckPass
  <2>2. check' # <<"stop">> => check' \in Calms
    BY <2>1, CalmsTypes
  <2> QED
    BY <1>0, <2>1, <2>2 DEF Heats
<1> QED
  BY <1>1, <1>2, <1>3 DEF CheckThread

\* What is left of the calls that begin the final heating.
LEMMA HeatCallsLeft ==
  ASSUME NEW calls, HeatCalls(calls)
  PROVE  /\ Head(calls) \in Stabilizing \union {"final_heating"} /\ calls # <<>>
         /\ Head(calls) = "final_heating" => Tail(calls) = <<>>
         /\ Head(calls) # "final_heating" => HeatCalls(Tail(calls))
<1>1. CASE calls = <<"final_heating">>
  BY <1>1, Tuples
<1>2. CASE calls = <<"heating", "final_heating">>
  <2>1. Head(calls) = "heating" /\ Tail(calls) = <<"final_heating">> /\ calls # <<>>
    BY <1>2, Tuples
  <2> QED
    BY <2>1 DEF HeatCalls, Stabilizing
<1>3. ASSUME NEW a \in Stabilizing, calls = <<a, "heating", "final_heating">>
      PROVE  /\ Head(calls) = a /\ calls # <<>>
             /\ Tail(calls) = <<"heating", "final_heating">>
  BY <1>3, Tuples
<1>4. \A a \in Stabilizing : a # "final_heating"
  BY DEF Stabilizing
<1> QED
  BY <1>1, <1>2, <1>3, <1>4 DEF HeatCalls

LEMMA AboutToHeatOn ==
  ASSUME Types, AboutToHeat, Works
  PROVE  AboutToHeat' \/ Heats'
<1>0. /\ box \in Box /\ TypeOK /\ Phases /\ box.controlling
      /\ box.status \in Stabilizing /\ check \in Calms /\ HeatCalls(main)
      /\ "final_heating" \notin Stabilizing
  BY DEF Types, TypeOK, Box, AboutToHeat, Stabilizing
<1>1. /\ Head(main) \in Stabilizing \union {"final_heating"} /\ main # <<>>
      /\ Head(main) = "final_heating" => Tail(main) = <<>>
      /\ Head(main) # "final_heating" => HeatCalls(Tail(main))
  BY <1>0, HeatCallsLeft
<1>2. CASE MainActs
  <2>1. /\ Head(main) \in Stepwise /\ mainAt \in PlacesOf(Head(main))
        /\ Perform(Head(main), mainAt) /\ mainAt' = After(Head(main), mainAt)
        /\ \/ mainAt' # "call" /\ main' = main
           \/ mainAt' = "call" /\ main' = Tail(main)
           \/ Head(main) = "start"
        /\ UNCHANGED check
    BY <1>2, MainCalls
  <2>2. CASE Head(main) = "final_heating"
    <3>1. mainAt = "call"
      BY <2>1, <2>2 DEF PlacesOf
    <3>2. mainAt' = "call" /\ main' = <<>>
      BY <1>1, <2>1, <2>2, <3>1 DEF After
    <3>3. box' = [box EXCEPT !.status = "final_heating"]
      BY <2>1, <2>2, <3>1 DEF Perform, StatusOf
    <3>4. box'.controlling /\ box'.status = "final_heating"
      BY <1>0, <3>3 DEF Box
    <3> QED
      BY <1>0, <2>1, <3>2, <3>4 DEF Heats
  <2>3. CASE Head(main) \in Stabilizing
    <3>1. box'.controlling = box.controlling /\ box'.status \in {box.status, Head(main)}
      BY <1>0, <2>1, <2>3, CallOn
    <3>2. HeatCalls(main')
      BY <1>0, <1>1, <2>1, <2>3 DEF Stabilizing
    <3>3. HeatCalls(main)' <=> HeatCalls(main')
      BY DEF HeatCalls
    <3> QED
      BY <1>0, <2>1, <2>3, <3>1, <3>2, <3>3 DEF AboutToHeat
  <2> QED
    BY <1>1, <2>2, <2>3
<1>3. CASE MainStabilizes
  <2>1. Head(main) = "stabilize"
    BY <1>3, Tuples DEF MainStabilizes
  <2> QED
    BY <1>1, <2>1 DEF Stabilizing
<1>4. CASE CheckActs
  <2>1. /\ Head(check) \in {"flushing", "cooling", "heating", "stop"}
        /\ check = <<Head(check)>> /\ checkAt \in PlacesOf(Head(check))
        /\ Perform(Head(check), checkAt) /\ check' \in {check, <<>>}
        /\ UNCHANGED main
    BY <1>4, CheckSteps
  <2>2. Head(check) \in Stabilizing
    BY <1>0, <2>1, PassesDiffer, Tuples DEF Calms, Stabilizing
  <2>3. box'.controlling = box.controlling /\ box'.status \in Stabilizing
    BY <1>0, <2>1, <2>2, CallOn
  <2>4. check' \in Calms
    BY <1>0, <2>1 DEF Calms
  <2> QED
    BY <1>0, <2>1, <2>3, <2>4 DEF AboutToHeat, HeatCalls
<1>5. CASE CheckStatus
  <2>1. /\ check' \in Passes /\ checkAt' = "call"
        /\ box'.controlling = box.controlling /\ box'.status = box.status
        /\ check' = <<"stop">> => box.status = "final_heating"
        /\ UNCHANGED main
    BY <1>5, CheckPass
  <2>2. check' \in Calms
    BY <1>0, <2>1, CalmsTypes
  <2> QED
    BY <1>0, <2>1, <2>2 DEF AboutToHeat, HeatCalls
<1> QED
  BY <1>2, <1>3, <1>4, <1>5 DEF Works

\* Neither the calls to the device nor the passes of the check thread disturb
\* the dialogue.
LEMMA QuietWorks ==
  ASSUME Types, Cycling, Quiet, Works
  PROVE  Quiet'
<1>0. /\ UNCHANGED <<step, target, pending, asking, repeats, toClient, toAgente>>
      /\ box'.doCycle = box.doCycle
      /\ ~box.doCycle => box'.setpoint = box.setpoint
      /\ main = <<>> => main' = <<>>
  BY WorksFrame DEF agenteVars
<1>1. Driven => Driven'
  <2>1. ~FinalHeat /\ ~Exit
    BY <1>0, Handled DEF FinalHeat, Exit, Types
  <2> QED
    BY <2>1, DrivenSteps DEF Works, MainLoop, CheckThread
<1>2. main = <<>> => CheckThread
  BY DEF Works, MainActs, MainStabilizes, CheckThread
<1>3. main = <<"close">> => CheckThread /\ UNCHANGED main
  <2>1. Head(<<"close">>) = "close" /\ <<"close">> # <<>>
    BY Tuples
  <2> QED
    BY <2>1 DEF Works, MainActs, MainStabilizes, CheckThread, CheckActs, CheckStatus
<1>4. Off => Off'
  BY <1>0, <1>2, OffStays DEF Off
<1>5. Heats => Heats' \/ Off'
  BY <1>2, HeatsOn DEF Heats
<1>6. Heats /\ box.status \in Stabilizing => Heats' /\ box'.status \in Stabilizing
  BY <1>2, HeatsOn DEF Heats
<1>7. AboutToHeat => AboutToHeat' \/ Heats'
  BY AboutToHeatOn
<1>8. Idle => Idle'
  BY <1>0 DEF Idle, Silent
<1>9. Preparing => Preparing'
  BY <1>0 DEF Preparing, Silent
<1>10. Executing => Executing'
  BY <1>0 DEF Executing, Silent, Told
<1>11. CoolingDown => CoolingDown'
  BY <1>0, <1>1 DEF CoolingDown, Silent
<1>12. HeatOrdered => HeatOrdered'
  BY <1>0, <1>1 DEF HeatOrdered
<1>13. Heating => Heating'
  BY <1>0, <1>4, <1>5, <1>6, <1>7 DEF Heating, Silent, Told
<1>14. Finished => Finished'
  BY <1>0, <1>4 DEF Finished, Silent
<1>15. Ending => Ending'
  <2> SUFFICES ASSUME Ending PROVE Ending'
    OBVIOUS
  <2>1. CASE main = <<>>
    BY <1>0, <1>2, <2>1, OffStays DEF Ending
  <2>2. CASE main = <<"close">>
    BY <1>0, <1>3, <2>2, OffStays, Tuples DEF Ending
  <2>3. CASE main = <<"stop", "close">> /\ mainAt = "call" /\ toClient = <<>>
    <3>1. Head(main) = "stop" /\ main # <<>> /\ Tail(main) = <<"close">>
      BY <2>3, Tuples
    <3>2. CASE MainActs
      <4>1. Perform("stop", "call") /\ mainAt' = After("stop", "call") /\ UNCHANGED <<check, checkAt>>
        BY <2>3, <3>1, <3>2 DEF MainActs
      <4>2. mainAt' = "call" /\ UNCHANGED <<box, device>>
        BY <4>1 DEF Ending, SwitchedOff, Perform, After, Needless
      <4>3. main' = <<"close">>
        BY <2>3, <3>1, <3>2, <4>2 DEF MainActs
      <4> QED
        BY <1>0, <2>3, <4>1, <4>2, <4>3 DEF Ending, SwitchedOff
    <3>3. CASE CheckThread
      <4>1. UNCHANGED <<main, mainAt>>
        BY <3>3 DEF CheckThread, CheckActs, CheckStatus
      <4> QED
        BY <1>0, <2>3, <3>3, <4>1, OffStays DEF Ending
    <3>4. ~MainStabilizes
      BY <3>1, Tuples DEF MainStabilizes
    <3> QED
      BY <3>2, <3>3, <3>4 DEF Works, CheckThread
  <2> QED
    BY <2>1, <2>2, <2>3 DEF Ending
<1> QED
  BY <1>0, <1>8, <1>9, <1>10, <1>11, <1>12, <1>13, <1>14, <1>15 DEF Quiet

\* A command is known from the queue it is the first of.
LEMMA FirstCommand ==
  ASSUME NEW cmd, Handles(cmd)
  PROVE  /\ toClient # <<>> /\ main = <<>> /\ Head(toClient).cmd = cmd
         /\ UNCHANGED <<step, test, target, pending, asking, repeats, device, up, air>>
         /\ UNCHANGED <<check, checkAt, mainAt>>
         /\ \A x : toClient = <<x>> => x.cmd = cmd /\ toClient' = <<>>
         /\ \A x, y : toClient = <<x, y>> => x.cmd = cmd /\ toClient' = <<y>>
         /\ \A x, y, z : toClient = <<x, y, z>> => x.cmd = cmd /\ toClient' = <<y, z>>
<1>1. /\ toClient # <<>> /\ main = <<>> /\ Head(toClient).cmd = cmd /\ toClient' = Tail(toClient)
      /\ UNCHANGED <<step, test, target, pending, asking, repeats, device, up, air>>
      /\ UNCHANGED <<check, checkAt, mainAt>>
  BY DEF Handles, agenteVars, weather
<1>2. ASSUME NEW x, toClient = <<x>>
      PROVE  x.cmd = cmd /\ toClient' = <<>>
  BY <1>1, <1>2, Tuples
<1>3. ASSUME NEW x, NEW y, toClient = <<x, y>>
      PROVE  x.cmd = cmd /\ toClient' = <<y>>
  <2>1. Head(<<x, y>>) = x /\ Tail(<<x, y>>) = <<y>>
    BY Tuples
  <2> QED
    BY <1>1, <1>3, <2>1
<1>4. ASSUME NEW x, NEW y, NEW z, toClient = <<x, y, z>>
      PROVE  x.cmd = cmd /\ toClient' = <<y, z>>
  <2>1. Head(<<x, y, z>>) = x /\ Tail(<<x, y, z>>) = <<y, z>>
    BY Tuples
  <2> QED
    BY <1>1, <1>4, <2>1
<1> QED
  BY <1>1, <1>2, <1>3, <1>4

LEMMA QuietStart ==
  ASSUME Types, Cycling, Testing, Quiet, Start
  PROVE  Quiet'
<1>0. /\ box \in Box /\ air \in Air /\ TypeOK /\ Phases
      /\ ~box.doCycle => box.cycles = Never
  BY DEF Types, TypeOK, Box, Cycling, Counted
<1>1. Handles("START") /\ UNCHANGED toAgente
  BY DEF Start
<1>2. PICK s : s = Head(toClient).arg
  OBVIOUS
<1>3. PICK p : p = SetSetpoint(box, s)
  OBVIOUS
<1>4. box' = p.box /\ s \in Setpoints
  BY <1>0, <1>1, <1>2, <1>3, Handled DEF Start
<1>5. p.box.doCycle = box.doCycle
  BY <1>0, <1>3, <1>4, SetpointTaken
<1>6. ~box.doCycle => p.box.setpoint = s
  <2> SUFFICES ASSUME ~box.doCycle PROVE p.box.setpoint = s
    OBVIOUS
  <2>1. CASE box.setpoint = s
    BY <1>3, <2>1 DEF SetSetpoint, Pass
  <2>2. CASE box.setpoint # s
    <3>1. PICK d : d = [box EXCEPT !.setpoint = s]
      OBVIOUS
    <3>2. d \in Box /\ d.doCycle = box.doCycle /\ d.cycles = box.cycles /\ d.setpoint = s
      BY <1>0, <1>4, <3>1 DEF Box
    <3>3. p = Stabilize(d, air)
      BY <1>3, <2>2, <3>1 DEF SetSetpoint
    <3>4. ~d.doCycle /\ d.cycles = Never
      BY <1>0, <3>2
    <3> QED
      BY <1>0, <3>2, <3>3, <3>4, SetpointKept
  <2> QED
    BY <2>1, <2>2
<1>7. /\ box'.doCycle = box.doCycle
      /\ ~box.doCycle => box'.setpoint = s
  BY <1>4, <1>5, <1>6
<1>8. Driven => Driven'
  <2>1. ~FinalHeat /\ ~Exit
    BY <1>1, FirstCommand DEF FinalHeat, Exit
  <2> QED
    BY <2>1, DrivenSteps DEF MainLoop
<1>9. /\ UNCHANGED <<step, target, pending, asking, repeats>> /\ toClient # <<>> /\ main = <<>>
      /\ \A x : toClient = <<x>> => x.cmd = "START" /\ toClient' = <<>>
      /\ \A x, y : toClient = <<x, y>> => x.cmd = "START" /\ toClient' = <<y>>
      /\ \A x, y, z : toClient = <<x, y, z>> => x.cmd = "START" /\ toClient' = <<y, z>>
  BY <1>1, FirstCommand
<1>10. /\ \A t : toClient = <<SetTo(t)>> => s = t
       /\ \A t, x : toClient = <<SetTo(t), x>> => s = t
  BY <1>2, Tuples, Kinds
<1>11. ~Idle /\ ~Finished /\ ~Heating /\ ~Executing
  BY <1>9, Kinds DEF Idle, Finished, Heating, Executing
<1>12. ~Ending
  BY <1>9, Kinds DEF Ending
<1>13. Preparing => Preparing'
  BY <1>1, <1>7, <1>9, <1>10, Kinds DEF Preparing, Silent
<1>14. CoolingDown => CoolingDown'
  BY <1>1, <1>7, <1>8, <1>9, Kinds DEF CoolingDown, Silent
<1>15. HeatOrdered => HeatOrdered'
  BY <1>1, <1>7, <1>8, <1>9, Kinds DEF HeatOrdered
<1> QED
  BY <1>9, <1>11, <1>12, <1>13, <1>14, <1>15 DEF Quiet

LEMMA QuietCycle ==
  ASSUME Types, Quiet, Cycle
  PROVE  Quiet'
<1>0. box \in Box /\ air \in Air /\ TypeOK
  BY DEF Types, TypeOK, Box
<1>1. Handles("CYCLE") /\ UNCHANGED toAgente
  BY DEF Cycle
<1>2. PICK b : b = NewCount
  OBVIOUS
<1>3. b \in Box /\ b.doCycle = TRUE
  BY <1>0, <1>2, NewCountTypes
<1>4. box' = SetSetpoint(b, CycleHigh + 1).box /\ CycleHigh + 1 \in Setpoints
  BY <1>2, SetpointTypes DEF Cycle
<1>5. box'.doCycle = TRUE
  BY <1>0, <1>3, <1>4, SetpointTaken
<1>6. /\ UNCHANGED <<step, target, pending, asking, repeats>> /\ toClient # <<>> /\ main = <<>>
      /\ \A x : toClient = <<x>> => x.cmd = "CYCLE" /\ toClient' = <<>>
      /\ \A x, y : toClient = <<x, y>> => x.cmd = "CYCLE" /\ toClient' = <<y>>
      /\ \A x, y, z : toClient = <<x, y, z>> => x.cmd = "CYCLE" /\ toClient' = <<y, z>>
  BY <1>1, FirstCommand
<1>7. ~Idle /\ ~Finished /\ ~Heating /\ ~Preparing /\ ~CoolingDown
  BY <1>6, Kinds DEF Idle, Finished, Heating, Preparing, CoolingDown
<1>8. ~Ending
  BY <1>6, Kinds DEF Ending
<1>9. ~HeatOrdered
  BY <1>6, Kinds DEF HeatOrdered
<1>10. Executing => Executing'
  BY <1>1, <1>5, <1>6, Kinds DEF Executing, Silent
<1> QED
  BY <1>6, <1>7, <1>8, <1>9, <1>10 DEF Quiet

LEMMA TuplesJoined ==
  /\ \A y, z : <<>> \o <<y, z>> = <<y, z>>
  /\ \A x, y, z : <<x>> \o <<y, z>> = <<x, y, z>>
<1>1. ASSUME NEW y, NEW z
      PROVE  <<>> \o <<y, z>> = <<y, z>>
  <2>1. <<y, z>> \in Seq({y, z})
    OBVIOUS
  <2> QED
    BY <2>1, ConcatEmptySeq
<1>2. ASSUME NEW x, NEW y, NEW z
      PROVE  <<x>> \o <<y, z>> = <<x, y, z>>
  <2> DEFINE S == {x, y, z}
  <2>1. <<x>> \in Seq(S) /\ <<y, z>> \in Seq(S) /\ <<x, y, z>> \in Seq(S)
        /\ Len(<<x>>) = 1 /\ Len(<<y, z>>) = 2 /\ Len(<<x, y, z>>) = 3
    OBVIOUS
  <2>2. <<y, z>>[1] = y /\ <<y, z>>[2] = z /\ <<x>>[1] = x
        /\ <<x, y, z>>[1] = x /\ <<x, y, z>>[2] = y /\ <<x, y, z>>[3] = z
    OBVIOUS
  <2>3. PICK r : r = <<x>> \o <<y, z>>
    OBVIOUS
  <2> HIDE DEF S
  <2>4. r \in Seq(S) /\ Len(r) = 3
        /\ \A i \in 1..3 : r[i] = IF i <= 1 THEN <<x>>[i] ELSE <<y, z>>[i - 1]
    BY <2>1, <2>3, ConcatProperties
  <2>5. r[1] = x /\ r[2] = y /\ r[3] = z
    BY <2>2, <2>4
  <2>6. \A i \in 1..Len(r) : r[i] = <<x, y, z>>[i]
    BY <2>2, <2>4, <2>5
  <2> QED
    BY <2>1, <2>3, <2>4, <2>6, SeqEqual
<1> QED
  BY <1>1, <1>2

LEMMA QuietFinalHeat ==
  ASSUME Types, Quiet, FinalHeat
  PROVE  Quiet'
<1>0. box \in Box /\ air \in Air /\ TypeOK
  BY DEF Types, TypeOK, Box
<1>1. Handles("FINAL_HEAT") /\ UNCHANGED toAgente
  BY DEF FinalHeat
<1>2. PICK p : p = SetSetpoint(box, Warm)
  OBVIOUS
<1>3. box' = p.box /\ Warm \in Setpoints
      /\ main' = p.acts \o <<"heating", "final_heating">>
  BY <1>2, SetpointTypes DEF FinalHeat
<1>4. /\ p.acts \in Passes /\ p.box.status = box.status /\ p.box.doCycle = box.doCycle
      /\ p.acts = <<"stop">> => box.status = "final_heating"
      /\ p.box.controlling = box.controlling
  BY <1>0, <1>2, <1>3, SetpointTaken
<1>5. /\ UNCHANGED <<step, target, pending, asking, repeats, check>>
      /\ toClient # <<>> /\ main = <<>>
      /\ \A x : toClient = <<x>> => x.cmd = "FINAL_HEAT" /\ toClient' = <<>>
      /\ \A x, y : toClient = <<x, y>> => x.cmd = "FINAL_HEAT" /\ toClient' = <<y>>
      /\ \A x, y, z : toClient = <<x, y, z>> => x.cmd = "FINAL_HEAT" /\ toClient' = <<y, z>>
  BY <1>1, FirstCommand
<1>6. ~Idle /\ ~Finished /\ ~Heating /\ ~Preparing /\ ~CoolingDown
  BY <1>5, Kinds DEF Idle, Finished, Heating, Preparing, CoolingDown
<1>7. ~Ending
  BY <1>5, Kinds DEF Ending
<1>8. ~Executing
  BY <1>5, Kinds DEF Executing
<1>9. Driven => AboutToHeat'
  <2> SUFFICES ASSUME Driven PROVE AboutToHeat'
    OBVIOUS
  <2>1. /\ box.controlling /\ box.status \in Stabilizing /\ check \in Calms
        /\ box.status # "final_heating"
    BY DEF Driven, Stabilizing
  <2>2. p.acts # <<"stop">> /\ p.acts \in Calms
    BY <1>4, <2>1, CalmsTypes
  <2>3. box'.controlling /\ box'.status \in Stabilizing /\ check' \in Calms
    BY <1>3, <1>4, <1>5, <2>1, <2>2
  <2>4. HeatCalls(main')
    <3>1. \/ p.acts = <<>>
          \/ \E a \in Stabilizing : p.acts = <<a>>
      BY <2>2 DEF Calms, Stabilizing
    <3>2. CASE p.acts = <<>>
      BY <1>3, <3>2, TuplesJoined DEF HeatCalls
    <3>3. ASSUME NEW a \in Stabilizing, p.acts = <<a>>
          PROVE  main' = <<a, "heating", "final_heating">>
      <4>1. <<a>> \o <<"heating", "final_heating">> = <<a, "heating", "final_heating">>
        BY TuplesJoined
      <4> QED
        BY <1>3, <3>3, <4>1
    <3> QED
      BY <3>1, <3>2, <3>3 DEF HeatCalls
  <2>5. HeatCalls(main)' <=> HeatCalls(main')
    BY DEF HeatCalls
  <2> QED
    BY <2>3, <2>4, <2>5 DEF AboutToHeat
<1>10. HeatOrdered => Heating'
  BY <1>1, <1>3, <1>4, <1>5, <1>9, Kinds DEF HeatOrdered, Heating, Silent
<1> QED
  BY <1>5, <1>6, <1>7, <1>8, <1>10 DEF Quiet

\* What a status says.
LEMMA StatusSays ==
  /\ ~box.controlling => Status = "WAITING"
  /\ box.controlling /\ box.status = "final_heating" /\ ~box.doCycle => Status = "FINAL_HEATING"
  /\ box.controlling /\ box.status \in Stabilizing /\ ~box.doCycle =>
       Status = IF IsStable(box) THEN "STABLE" ELSE "UNSTABLE"
  /\ box.controlling /\ box.status # "unknown" /\ box.doCycle =>
       Status = IF box.cycles = Never THEN "FINISHED" ELSE "CYCLING"
  /\ Status = "STABLE" => IsStable(box)
<1>1. ~box.controlling => Status = "WAITING"
  BY DEF Status
<1>2. box.controlling /\ box.status = "final_heating" /\ ~box.doCycle => Status = "FINAL_HEATING"
  BY DEF Status
<1>3. box.controlling /\ box.status \in Stabilizing /\ ~box.doCycle =>
        Status = IF IsStable(box) THEN "STABLE" ELSE "UNSTABLE"
  BY DEF Status, Stabilizing
<1>4. box.controlling /\ box.status # "unknown" /\ box.doCycle =>
        Status = IF box.cycles = Never THEN "FINISHED" ELSE "CYCLING"
  BY DEF Status
<1>5. ~IsStable(box) => Status # "STABLE"
  BY DEF Status
<1> QED
  BY <1>1, <1>2, <1>3, <1>4, <1>5

\* What asking leaves in the fields.
LEMMA StatFields ==
  ASSUME Types, Stat
  PROVE  /\ box'.controlling = box.controlling /\ box'.status = box.status
         /\ box'.setpoint = box.setpoint /\ box'.cycles = box.cycles
         /\ Status = "FINISHED" => box'.doCycle = FALSE /\ box'.reached = Never
         /\ Status # "FINISHED" => box'.doCycle = box.doCycle
         /\ Status \in {"STABLE", "UNSTABLE"} =>
              box'.reached = IF air.temp # box.setpoint THEN Never ELSE box.reached
<1>0. box \in Box
  BY DEF Types, TypeOK, Box
<1>1. CASE Status = "FINISHED"
  <2>1. box' = [box EXCEPT !.doCycle = FALSE, !.reached = Never]
    BY <1>1 DEF Stat
  <2> QED
    BY <1>0, <1>1, <2>1 DEF Box
<1>2. CASE Status \in {"STABLE", "UNSTABLE"}
  <2>1. box' = Settle(box)
    BY <1>2 DEF Stat
  <2>2. box' = IF air.temp # box.setpoint THEN [box EXCEPT !.reached = Never] ELSE box
    BY <2>1 DEF Settle
  <2> QED
    BY <1>0, <1>2, <2>2 DEF Box
<1>3. CASE Status \notin {"FINISHED", "STABLE", "UNSTABLE"}
  <2>1. box' = box
    BY <1>3 DEF Stat
  <2> QED
    BY <1>3, <2>1
<1> QED
  BY <1>1, <1>2, <1>3

LEMMA QuietStat ==
  ASSUME Types, Testing, Quiet, Stat
  PROVE  Quiet'
<1>1. Handles("STAT") /\ toAgente' = Append(toAgente, Reply(Status)) /\ UNCHANGED main
  BY StatTypes DEF Stat
<1>2. /\ UNCHANGED <<step, target, pending, asking, repeats, check, checkAt, device>>
      /\ toClient # <<>> /\ main = <<>>
      /\ \A x : toClient = <<x>> => x.cmd = "STAT" /\ toClient' = <<>>
      /\ \A x, y : toClient = <<x, y>> => x.cmd = "STAT" /\ toClient' = <<y>>
      /\ \A x, y, z : toClient = <<x, y, z>> => x.cmd = "STAT" /\ toClient' = <<y, z>>
  BY <1>1, FirstCommand
<1>3. ~Idle /\ ~Finished /\ ~CoolingDown
  BY <1>2, Kinds DEF Idle, Finished, CoolingDown
<1>4. ~Ending
  BY <1>2, Kinds DEF Ending
<1>5. ~HeatOrdered
  BY <1>2, Kinds DEF HeatOrdered
<1>60. Reply(Status) \in Answers /\ Reply(Status).says = Status
       /\ (Status = "STABLE" => Reply(Status).at = box.setpoint)
  <2>1. Reply(Status) \in Answers /\ Reply(Status).says = Status
    BY StatTypes
  <2> QED
    BY <2>1 DEF Reply
<1>61. PICK r \in Answers : /\ r = Reply(Status) /\ r.says = Status
                            /\ Status = "STABLE" => r.at = box.setpoint
  BY <1>60
<1>6. /\ toAgente = <<>> => toAgente' = <<r>>
      /\ \A says : r.says = says /\ toAgente' = <<r>> => Told(says)'
  BY <1>1, <1>61, Tuples DEF Told
<1>7. /\ box'.controlling = box.controlling /\ box'.status = box.status
      /\ box'.setpoint = box.setpoint
      /\ Status = "FINISHED" => box'.doCycle = FALSE
      /\ Status # "FINISHED" => box'.doCycle = box.doCycle
  BY StatFields
<1>8. step = "preparing" /\ Preparing => Preparing'
  <2> SUFFICES ASSUME step = "preparing", Preparing PROVE Preparing'
    OBVIOUS
  <2>1. /\ pending /\ ~box.doCycle /\ box.setpoint = target
        /\ asking /\ toAgente = <<>> /\ toClient = <<Question>>
    BY <1>2, Kinds DEF Preparing
  <2>2. box.controlling /\ box.status \in Stabilizing
    BY DEF Testing, Tests, Driven
  <2>3. Status \in {"STABLE", "UNSTABLE"}
    BY <2>1, <2>2, StatusSays
  <2>4. box'.doCycle = box.doCycle
    BY <1>7, <2>3
  <2>5. /\ pending' /\ asking' /\ ~box'.doCycle /\ box'.setpoint = target'
        /\ toClient' = <<>> /\ main' = <<>> /\ toAgente' = <<r>>
    BY <1>1, <1>2, <1>6, <1>7, <2>1, <2>4
  <2>6. r.says \in {"STABLE", "UNSTABLE"} /\ (r.says = "STABLE" => r.at = target')
    BY <1>2, <1>61, <2>1, <2>3
  <2> QED
    BY <1>61, <2>5, <2>6 DEF Preparing
<1>9. step = "executing" /\ Executing => Executing'
  <2> SUFFICES ASSUME step = "executing", Executing PROVE Executing'
    OBVIOUS
  <2>1. pending /\ box.doCycle /\ asking /\ toAgente = <<>> /\ toClient = <<Question>>
    BY <1>2, Kinds DEF Executing
  <2>2. box.controlling /\ box.status # "unknown"
    BY DEF Testing, Tests, Driven, Stabilizing
  <2>3. Status \in {"FINISHED", "CYCLING"}
    BY <2>1, <2>2, StatusSays
  <2>4. pending' /\ asking' /\ toClient' = <<>> /\ main' = <<>> /\ Told(r.says)'
    BY <1>1, <1>2, <1>6, <1>61, <2>1
  <2>5. CASE Status = "FINISHED"
    BY <1>61, <1>7, <2>4, <2>5 DEF Executing, Told
  <2>6. CASE Status = "CYCLING"
    BY <1>61, <1>7, <2>1, <2>4, <2>6 DEF Executing, Told
  <2> QED
    BY <2>3, <2>5, <2>6
<1>10. Heating => Heating'
  <2> SUFFICES ASSUME Heating PROVE Heating'
    OBVIOUS
  <2>1. /\ pending /\ ~box.doCycle /\ asking /\ toAgente = <<>> /\ toClient = <<Question>>
        /\ AboutToHeat \/ Heats \/ Off
    BY <1>2, Kinds DEF Heating
  <2>2. ~AboutToHeat
    BY <1>2, HeatCallsLeft DEF AboutToHeat
  <2>3. pending' /\ asking' /\ toClient' = <<>> /\ Told(r.says)' /\ main' = <<>>
    BY <1>1, <1>2, <1>6, <1>61, <2>1
  <2>4. CASE Off
    <3>1. Status = "WAITING"
      BY <2>4, StatusSays DEF Off, SwitchedOff
    <3>2. Off' /\ ~box'.doCycle
      BY <1>2, <1>7, <2>1, <2>3, <2>4, <3>1 DEF Off, SwitchedOff
    <3> QED
      BY <1>61, <2>3, <3>1, <3>2 DEF Heating, Told
  <2>5. CASE Heats
    <3>1. box.controlling /\ box.status \in Stabilizing \union {"final_heating"}
      BY <2>5 DEF Heats
    <3>2. CASE box.status = "final_heating"
      <4>1. Status = "FINAL_HEATING"
        BY <2>1, <3>1, <3>2, StatusSays
      <4>2. Heats' /\ ~box'.doCycle
        BY <1>2, <1>7, <2>1, <2>3, <2>5, <4>1 DEF Heats
      <4> QED
        BY <1>61, <2>3, <4>1, <4>2 DEF Heating, Told
    <3>3. CASE box.status \in Stabilizing
      <4>1. Status \in {"STABLE", "UNSTABLE"}
        BY <2>1, <3>1, <3>3, StatusSays
      <4>2. Heats' /\ ~box'.doCycle /\ box'.status \in Stabilizing
        BY <1>2, <1>7, <2>1, <2>3, <2>5, <3>3, <4>1 DEF Heats
      <4> QED
        BY <1>61, <2>3, <4>1, <4>2 DEF Heating, Told
    <3> QED
      BY <3>1, <3>2, <3>3
  <2> QED
    BY <2>1, <2>2, <2>4, <2>5
<1> QED
  BY <1>2, <1>3, <1>4, <1>5, <1>8, <1>9, <1>10 DEF Quiet

LEMMA QuietEnd ==
  ASSUME Types, Testing, Quiet, Exit \/ Close
  PROVE  Quiet'
<1>0. box \in Box
  BY DEF Types, TypeOK, Box
<1>1. CASE Exit
  <2>1. /\ Handles("EXIT") /\ UNCHANGED toAgente
        /\ main' = <<"stop", "close">> /\ UNCHANGED box
    BY <1>1 DEF Exit
  <2>2. /\ UNCHANGED <<step, target, pending, asking, repeats, check, checkAt, mainAt, device>>
        /\ toClient # <<>> /\ main = <<>>
        /\ \A x : toClient = <<x>> => x.cmd = "EXIT" /\ toClient' = <<>>
        /\ \A x, y : toClient = <<x, y>> => x.cmd = "EXIT"
        /\ \A x, y, z : toClient = <<x, y, z>> => x.cmd = "EXIT"
    BY <2>1, FirstCommand
  <2>3. ~Idle /\ ~Finished /\ ~CoolingDown /\ ~Preparing /\ ~Heating
    BY <2>2, Kinds DEF Idle, Finished, CoolingDown, Preparing, Heating
  <2>4. ~HeatOrdered /\ ~Executing
    BY <2>2, Kinds DEF HeatOrdered, Executing
  <2>5. Ending => Ending'
    <3> SUFFICES ASSUME Ending PROVE Ending'
      OBVIOUS
    <3>1. SwitchedOff /\ toClient' = <<>>
      BY <2>2 DEF Ending
    <3>2. mainAt' = "call"
      BY <2>2 DEF Types, Phases, Placed
    <3> QED
      BY <2>1, <2>2, <3>1, <3>2 DEF Ending, SwitchedOff
  <2> QED
    BY <2>2, <2>3, <2>4, <2>5 DEF Quiet
<1>2. CASE Close
  <2>1. /\ main = <<"close">> /\ check = <<>> /\ main' = <<>>
        /\ UNCHANGED <<agenteVars, toClient, toAgente, box, check, checkAt, device>>
    BY <1>2 DEF Close
  <2>2. ~Driven
    <3>1. main # <<>> /\ Head(main) = "close"
      BY <2>1, Tuples
    <3>2. main \in Seq(Drives) => Head(main) \in Drives
      BY <3>1, SeqTypes
    <3> QED
      BY <3>1, <3>2 DEF Driven, Drives, Stabilizing
  <2>3. ~AboutToHeat /\ ~Heats /\ ~Off
    <3>1. Head(main) = "close" /\ main # <<>> /\ "close" \notin Stabilizing
      BY <2>1, Tuples DEF Stabilizing
    <3>2. ~AboutToHeat
      BY <3>1, HeatCallsLeft DEF AboutToHeat
    <3> QED
      BY <3>1, <3>2 DEF Heats, Off
  <2>4. ~HeatOrdered /\ ~CoolingDown /\ ~Finished /\ ~Tests
    BY <2>2, <2>3 DEF HeatOrdered, CoolingDown, Finished, Testing
  <2>5. ~Heating
    BY <2>3 DEF Heating
  <2>6. Ending => Ending'
    BY <2>1, Tuples DEF Ending, SwitchedOff
  <2> QED
    BY <2>1, <2>4, <2>5, <2>6 DEF Quiet, Tests, agenteVars
<1> QED
  BY <1>1, <1>2

LEMMA NothingCleared ==
  ASSUME NEW r, r \in ClearedAmongOthers(<<>>) \/ r \in ClearedTwice(<<>>)
  PROVE  r = <<>>
<1>0. <<>> \in Seq(Answers) /\ Len(<<>>) <= 1
  OBVIOUS
<1>1. PICK q \in Seq(Answers) : q = <<>> /\ Len(q) <= 1
  BY <1>0, Zenon
<1>2. CASE r \in ClearedAmongOthers(q)
  BY <1>1, <1>2, ClearedTypes
<1>3. CASE r \in ClearedTwice(q)
  BY <1>1, <1>3, ClearedTwiceTypes
<1> QED
  BY <1>1, <1>2, <1>3

LEMMA SendTuples ==
  /\ toClient = <<>> => \A x : Send(<<x>>) => toClient' = <<x>>
  /\ \A x, y : toClient = <<x>> /\ Send(<<y>>) => toClient' = <<x, y>>
  /\ \A x, y, z : toClient = <<x, y>> /\ Send(<<z>>) => toClient' = <<x, y, z>>
<1>1. ASSUME NEW x, NEW y, NEW z, toClient = <<x, y>>, Send(<<z>>)
      PROVE  toClient' = <<x, y, z>>
  <2>1. <<x, y>> \o <<z>> = <<x, y, z>>
    BY Tuples
  <2> QED
    BY <1>1, <2>1 DEF Send
<1>2. ASSUME NEW x, NEW y, toClient = <<x>>, Send(<<y>>)
      PROVE  toClient' = <<x, y>>
  BY <1>2, Tuples DEF Send
<1>3. ASSUME NEW x, toClient = <<>>, Send(<<x>>)
      PROVE  toClient' = <<x>>
  BY <1>3, Tuples DEF Send
<1> QED
  BY <1>1, <1>2, <1>3

\* The steps of the agente from one situation to the next.
LEMMA QuietAgente ==
  ASSUME Types, Testing, Quiet, Agente \/ AskAgain \/ UserEnter \/ GiveUp
  PROVE  Quiet'
<1>0. /\ TypeOK /\ Phases /\ repeats \in Nat
      /\ UNCHANGED <<box, main, mainAt, check, checkAt, device>>
      /\ \A t : SetTo(t) = [cmd |-> "START", arg |-> t]
  <2>1. UNCHANGED clientVars /\ UNCHANGED device
    <3>1. CASE Answer
      BY <3>1, Answered
    <3>2. CASE ~Answer
      BY <3>2, Zenon
         DEF Agente, AskAgain, UserEnter, GiveUp, PrepareTest, ExecuteTest, CleanupTest,
             FinalTestCleanup, Ask, Over, RequestClientExit
    <3> QED
      BY <3>1, <3>2
  <2> QED
    BY <2>1 DEF Types, TypeOK, clientVars, SetTo
<1>00. /\ Driven => Driven'
       /\ AboutToHeat => AboutToHeat'
       /\ Heats => Heats'
       /\ Off => Off'
       /\ SwitchedOff => SwitchedOff'
  BY <1>0 DEF Driven, AboutToHeat, HeatCalls, Heats, Off, SwitchedOff
<1> SUFFICES ASSUME repeats' = 0
             PROVE  Quiet'
  BY DEF Quiet
<1>1. CASE PrepareTest
  <2>1. /\ step = "idle" /\ step' = "preparing" /\ UNCHANGED <<asking, repeats>>
    BY <1>1 DEF PrepareTest
  <2>2. ~pending /\ ~asking /\ toAgente = <<>> /\ toClient = <<>> /\ ~box.doCycle
    BY <2>1 DEF Quiet, Idle, Silent
  <2>3. CASE /\ Send(StabilizeTemperature(target'))
             /\ toAgente' \in ClearedTwice(toAgente)
             /\ pending' = TRUE
    <3>1. toClient' = <<SetTo(target')>>
      BY <1>0, <2>2, <2>3, SendTuples DEF StabilizeTemperature
    <3>2. toAgente' = <<>>
      BY <2>2, <2>3, NothingCleared
    <3>3. Preparing'
      BY <1>0, <2>1, <2>2, <2>3, <3>1, <3>2 DEF Preparing, Silent
    <3> QED
      BY <2>1, <3>3 DEF Quiet
  <2>4. CASE toAgente' \in ClearedAmongOthers(toAgente) /\ UNCHANGED <<toClient, pending>>
    <3>1. toAgente' = <<>>
      BY <2>2, <2>4, NothingCleared
    <3>2. Idle'
      BY <1>0, <2>1, <2>2, <2>4, <3>1 DEF Idle, Silent
    <3> QED
      BY <2>1, <3>2 DEF Quiet
  <2> QED
    BY <1>1, <2>3, <2>4 DEF PrepareTest
<1>2. CASE ExecuteTest
  <2>1. step = "preparing" /\ ~pending /\ step' = "executing" /\ UNCHANGED <<asking, repeats>>
    BY <1>2 DEF ExecuteTest
  <2>2. Idle
    BY <2>1 DEF Quiet, Preparing
  <2>3. ~asking /\ toAgente = <<>> /\ toClient = <<>> /\ ~box.doCycle
    BY <2>2 DEF Idle, Silent
  <2>4. CASE target = CycleTest
    <3>1. /\ Send(<<Command("CYCLE")>>) /\ toAgente' \in ClearedAmongOthers(toAgente)
          /\ pending' = TRUE
      BY <1>2, <2>4 DEF ExecuteTest
    <3>2. toClient' = <<Command("CYCLE")>> /\ toAgente' = <<>>
      BY <2>3, <3>1, SendTuples, NothingCleared
    <3>3. Executing'
      BY <1>0, <2>1, <2>3, <3>1, <3>2 DEF Executing, Silent
    <3> QED
      BY <2>1, <3>3 DEF Quiet
  <2>5. CASE target # CycleTest
    <3>1. UNCHANGED <<toClient, toAgente, pending>>
      BY <1>2, <2>5 DEF ExecuteTest
    <3>2. Idle'
      BY <1>0, <2>1, <2>2, <3>1 DEF Idle, Silent
    <3> QED
      BY <2>1, <3>2 DEF Quiet
  <2> QED
    BY <2>4, <2>5
<1>3. CASE CleanupTest
  <2>1. /\ step = "executing" /\ ~pending /\ step' = "idle"
        /\ UNCHANGED <<asking, pending, repeats, toClient, toAgente>>
    BY <1>3 DEF CleanupTest
  <2>2. Idle
    BY <2>1 DEF Quiet, Executing
  <2>3. Idle'
    BY <1>0, <2>1, <2>2 DEF Idle, Silent
  <2> QED
    BY <2>1, <2>3 DEF Quiet
<1>4. CASE FinalTestCleanup
  <2>1. /\ step = "idle" /\ step' = "enter" /\ UNCHANGED <<asking, pending, repeats>>
        /\ Send(StabilizeTemperature(Room)) /\ toAgente' \in ClearedAmongOthers(toAgente)
    BY <1>4 DEF FinalTestCleanup
  <2>2. Idle
    BY <2>1 DEF Quiet
  <2>3. ~asking /\ toAgente = <<>> /\ toClient = <<>> /\ ~box.doCycle
    BY <2>2 DEF Idle, Silent
  <2>4. toClient' = <<SetTo(Room)>> /\ toAgente' = <<>>
    BY <1>0, <2>1, <2>3, SendTuples, NothingCleared DEF StabilizeTemperature
  <2>5. Driven
    BY <2>1 DEF Testing, Tests
  <2>6. CoolingDown'
    BY <1>0, <1>00, <2>1, <2>3, <2>4, <2>5 DEF CoolingDown, Silent
  <2> QED
    BY <2>1, <2>6 DEF Quiet
<1>5. CASE UserEnter
  <2>1. /\ step = "enter" /\ step' = "heating" /\ pending' = TRUE
        /\ UNCHANGED <<asking, repeats, toAgente>> /\ Send(<<Command("FINAL_HEAT")>>)
    BY <1>5 DEF UserEnter
  <2>2. /\ ~box.doCycle /\ Driven /\ ~asking /\ toAgente = <<>>
        /\ toClient = <<>> \/ toClient = <<SetTo(Room)>>
    BY <2>1 DEF Quiet, CoolingDown, Silent
  <2>3. \/ toClient' = <<Command("FINAL_HEAT")>>
        \/ toClient' = <<SetTo(Room), Command("FINAL_HEAT")>>
    BY <2>1, <2>2, SendTuples
  <2>4. HeatOrdered'
    BY <1>0, <1>00, <2>1, <2>2, <2>3 DEF HeatOrdered
  <2> QED
    BY <2>1, <2>4 DEF Quiet
<1>6. CASE Ask
  <2>1. /\ step \in {"preparing", "executing", "heating"} /\ pending /\ ~asking /\ asking'
        /\ UNCHANGED <<step, target, pending, repeats>> /\ Send(<<Question>>)
        /\ toAgente' \in ClearedTwice(toAgente) \/ toAgente' \in ClearedAmongOthers(toAgente)
    BY <1>6 DEF Ask, Question
  <2>2. toAgente = <<>> => toAgente' = <<>>
    BY <2>1, NothingCleared
  <2>3. /\ toClient = <<>> => toClient' = <<Question>>
        /\ \A x : toClient = <<x>> => toClient' = <<x, Question>>
        /\ \A x, y : toClient = <<x, y>> => toClient' = <<x, y, Question>>
    BY <2>1, SendTuples
  <2>4. Preparing => Preparing'
    BY <1>0, <2>1, <2>2, <2>3 DEF Preparing, Silent
  <2>5. Executing => Executing'
    BY <1>0, <2>1, <2>2, <2>3 DEF Executing, Silent
  <2>6. HeatOrdered => HeatOrdered'
    BY <1>0, <1>00, <2>1, <2>2, <2>3 DEF HeatOrdered
  <2>7. Heating => Heating'
    BY <1>0, <1>00, <2>1, <2>2, <2>3 DEF Heating, Silent
  <2>8. ~Idle /\ ~Finished
    BY <2>1 DEF Idle, Finished
  <2> QED
    BY <2>1, <2>4, <2>5, <2>6, <2>7, <2>8 DEF Quiet
<1>7. CASE AskAgain
  <2>1. repeats' = repeats + 1
    BY <1>7 DEF AskAgain
  <2> QED
    BY <1>0, <2>1
<1>8. CASE Over
  <2>1. /\ step = "heating" /\ ~pending /\ step' = "over"
        /\ UNCHANGED <<pending, asking, repeats, toClient, toAgente>>
    BY <1>8 DEF Over
  <2>2. Finished
    BY <2>1 DEF Quiet, HeatOrdered, Heating
  <2>3. Finished'
    BY <1>0, <1>00, <2>1, <2>2 DEF Finished, Silent
  <2> QED
    BY <2>1, <2>3 DEF Quiet
<1>9. CASE GiveUp
  BY <1>9 DEF GiveUp, Quiet
<1>10. CASE RequestClientExit
  <2>1. /\ step = "over" /\ step' = "exited"
        /\ UNCHANGED <<pending, asking, repeats, toAgente>> /\ Send(<<Command("EXIT")>>)
    BY <1>10 DEF RequestClientExit
  <2>2. Off /\ toClient = <<>>
    BY <2>1 DEF Quiet, Finished
  <2>3. toClient' = <<Command("EXIT")>>
    BY <2>1, <2>2, SendTuples
  <2>4. Ending'
    BY <1>0, <1>00, <2>2, <2>3 DEF Ending, Off
  <2> QED
    BY <2>1, <2>4 DEF Quiet
<1> HIDE DEF Quiet
<1>11. CASE Answer
  <2>1. PICK answer : answer = Head(toAgente).says
    OBVIOUS
  <2>2. /\ asking /\ pending /\ toAgente # <<>>
        /\ Again(answer) \/ Lost(answer) \/ Listens(answer) \/ Hears(answer)
        /\ UNCHANGED <<target, repeats>>
        /\ step \in {"preparing", "executing", "heating"}
    BY <1>11, <2>1, Answered
  <2>3. /\ \A a : toAgente = <<a>> => answer = a.says /\ Tail(toAgente) = <<>>
        /\ \A says : Told(says) => answer = says /\ Tail(toAgente) = <<>>
    BY <2>1, Tuples DEF Told
  <2>4. CASE step = "preparing"
    <3>1. /\ Preparing /\ toClient = <<>> /\ box.setpoint = target /\ ~box.doCycle
          /\ answer \in {"STABLE", "UNSTABLE"} /\ Tail(toAgente) = <<>>
      BY <2>2, <2>3, <2>4 DEF Quiet, Idle, Preparing, Silent
    <3>2. Hears(answer)
      BY <2>2, <2>4, <3>1 DEF Again, Lost, Listens
    <3>3. ~asking' /\ toClient' = <<>> /\ toAgente' = <<>> /\ step' = "preparing"
      BY <2>4, <3>1, <3>2 DEF Hears
    <3>4. pending' \in BOOLEAN
      BY <2>2, <3>2, Zenon DEF Hears
    <3>5. Idle' \/ Preparing'
      BY <1>0, <2>2, <3>1, <3>3, <3>4 DEF Idle, Preparing, Silent
    <3> QED
      BY <3>3, <3>5 DEF Quiet
  <2>5. CASE step = "executing"
    <3>1. /\ Executing /\ toClient = <<>> /\ Tail(toAgente) = <<>>
          /\ \/ box.doCycle /\ answer = "CYCLING"
             \/ ~box.doCycle /\ answer = "FINISHED"
      BY <2>2, <2>3, <2>5 DEF Quiet, Idle, Executing, Silent
    <3>2. Hears(answer)
      BY <2>2, <2>5, <3>1 DEF Again, Lost, Listens
    <3>3. ~asking' /\ toClient' = <<>> /\ toAgente' = <<>> /\ step' = "executing"
      BY <2>5, <3>1, <3>2 DEF Hears
    <3>4. CASE box.doCycle /\ answer = "CYCLING"
      <4>1. pending'
        BY <2>2, <2>5, <3>2, <3>4 DEF Hears
      <4>2. Executing'
        BY <1>0, <3>3, <3>4, <4>1 DEF Executing, Silent
      <4> QED
        BY <3>3, <4>2 DEF Quiet
    <3>5. CASE ~box.doCycle /\ answer = "FINISHED"
      <4>1. ~pending'
        BY <2>2, <2>5, <3>2, <3>5 DEF Hears
      <4>2. Idle'
        BY <1>0, <3>3, <3>5, <4>1 DEF Idle, Silent
      <4> QED
        BY <3>3, <4>2 DEF Quiet
    <3> QED
      BY <3>1, <3>4, <3>5
  <2>6. CASE step = "heating"
    <3>1. /\ toClient = <<>> /\ Tail(toAgente) = <<>> /\ ~box.doCycle
          /\ \/ answer = "FINAL_HEATING" /\ (Heats \/ Off)
             \/ answer = "WAITING" /\ Off
             \/ /\ answer \in {"STABLE", "UNSTABLE"}
                /\ Heats /\ box.status \in Stabilizing
      BY <2>2, <2>3, <2>6 DEF Quiet, HeatOrdered, Heating, Finished, Silent
    <3>2. CASE answer \in {"FINAL_HEATING", "WAITING"}
      <4>1. Hears(answer)
        BY <2>2, <2>6, <3>2 DEF Again, Lost, Listens
      <4>2. ~asking' /\ toClient' = <<>> /\ toAgente' = <<>> /\ step' = "heating"
        BY <2>6, <3>1, <4>1 DEF Hears
      <4>3. CASE answer = "FINAL_HEATING"
        <5>1. pending'
          BY <2>2, <2>6, <4>1, <4>3 DEF Hears
        <5>2. Heats \/ Off
          BY <3>1, <4>3
        <5>3. Heating'
          BY <1>0, <1>00, <3>1, <4>2, <5>1, <5>2 DEF Heating, Silent
        <5> QED
          BY <4>2, <5>3 DEF Quiet
      <4>4. CASE answer = "WAITING"
        <5>1. ~pending'
          BY <2>2, <2>6, <4>1, <4>4 DEF Hears
        <5>2. Off
          BY <3>1, <4>4
        <5>3. Finished'
          BY <1>0, <1>00, <3>1, <4>2, <5>1, <5>2 DEF Finished, Silent
        <5> QED
          BY <4>2, <5>3 DEF Quiet
      <4> QED
        BY <3>2, <4>3, <4>4
    <3>3. CASE answer \in {"STABLE", "UNSTABLE"}
      <4>1. Lost(answer)
        BY <2>2, <2>6, <3>3 DEF Again, Hears, Listens
      <4>2. /\ ~asking' /\ step' = "enter" /\ Send(<<SetTo(Room)>>)
            /\ toAgente' \in ClearedAmongOthers(<<>>)
        BY <1>0, <3>1, <4>1 DEF Lost
      <4>3. toClient' = <<SetTo(Room)>> /\ toAgente' = <<>>
        BY <3>1, <4>2, SendTuples, NothingCleared
      <4>4. Driven
        <5>1. Heats /\ box.status \in Stabilizing
          BY <3>1, <3>3
        <5>2. <<>> \in Seq(Drives)
          OBVIOUS
        <5>3. mainAt = "call"
          BY <1>0, <5>1 DEF Heats, Phases, Placed
        <5> QED
          BY <5>1, <5>2, <5>3 DEF Heats, Driven, Stabilizing
      <4>5. CoolingDown'
        BY <1>0, <1>00, <3>1, <4>2, <4>3, <4>4 DEF CoolingDown, Silent
      <4> QED
        BY <4>2, <4>5 DEF Quiet
    <3> QED
      BY <3>1, <3>2, <3>3
  <2> QED
    BY <2>2, <2>4, <2>5, <2>6
<1> QED
  BY <1>1, <1>2, <1>3, <1>4, <1>5, <1>6, <1>7, <1>8, <1>9, <1>10, <1>11 DEF Agente

LEMMA InitQuiet == Init => Quiet /\ AtRest
BY DEF Init, Quiet, AtRest, Idle, Silent

LEMMA NextQuiet ==
  ASSUME Types, Cycling, Testing, Quiet, [Next]_vars
  PROVE  Quiet'
<1>1. CASE UNCHANGED vars
  BY <1>1 DEF vars, Quiet, Idle, Silent, Preparing, Executing, CoolingDown, HeatOrdered, Heating,
              Told, AboutToHeat, HeatCalls, Heats, Off, SwitchedOff, Finished, Ending, Driven
<1> QED
  BY <1>1, QuietWorks, QuietStart, QuietCycle, QuietFinalHeat, QuietStat, QuietEnd, QuietAgente
     DEF Next, MainLoop, CheckThread, Works, Terminating

\* Only Close ends the client, and it waits for the check thread.
LEMMA NextAtRest ==
  ASSUME AtRest, [Next]_vars
  PROVE  AtRest'
<1>1. CASE Close
  BY <1>1 DEF Close, AtRest
<1>2. CASE CheckStatus \/ CheckActs
  BY <1>2 DEF CheckStatus, CheckActs, AtRest
<1>3. CASE ~(Close \/ CheckStatus \/ CheckActs)
  <2>1. UNCHANGED <<up, check>>
    BY <1>3, Zenon
       DEF Next, Agente, MainLoop, CheckThread, PrepareTest, ExecuteTest, CleanupTest,
           FinalTestCleanup, Ask, Answer, Over, RequestClientExit, AskAgain, UserEnter, GiveUp,
           Start, Cycle, FinalHeat, Stat, Exit, MainActs, MainStabilizes, Handles, Terminating,
           clientVars, vars
  <2> QED
    BY <2>1 DEF AtRest
<1> QED
  BY <1>1, <1>2, <1>3

\* A campaign that has come to its end leaves the box off (OffAfterCampaign),
\* for any number of tests, cycles and troubles, as long as no question was
\* repeated: between the status that ends the final heating and the end of the
\* process the check thread may still have to switch the box off, nothing else
\* can make it drive the box again, and the process does not end before.
THEOREM LeftOff == Spec => []OffAfterCampaign
<1>1. Types /\ Quiet /\ AtRest => OffAfterCampaign
  <2> SUFFICES ASSUME Types, Quiet, AtRest, step = "exited", ~up, repeats = 0
               PROVE  device = [controllers |-> "off", contacts |-> "off"]
    BY DEF OffAfterCampaign
  <2>1. device.controllers = "off" /\ device.contacts = "off"
    <3>1. SwitchedOff /\ check = <<>>
      BY DEF Quiet, AtRest, Ending
    <3> QED
      BY <3>1 DEF SwitchedOff
  <2> QED
    BY <2>1 DEF Types, TypeOK
<1> QED
  BY <1>1, InitTypes, NextTypes, InitCycling, NextCycling, InitTesting, NextTesting,
     InitQuiet, NextQuiet, NextAtRest, PTL DEF Spec

-----------------------------------------------------------------------------
(* The temperature of a test *)

Changes(q) == {i \in DOMAIN q : q[i].cmd \in {"START", "CYCLE"}}
Questions(q) == {i \in DOMAIN q : q[i].cmd = "STAT"}

\* The time since the setpoint was reached belongs to the present setpoint, or
\* will not outlive a change of it: the humidity keeps stabilize() from looking
\* at the temperature.
Held ==
  \/ box.doCycle \/ box.reached = Never \/ air.temp = box.setpoint
  \/ air.humidity = "wet"
  \/ damp /\ box.status = "flushing" /\ check = <<>> /\ ~IsDry(box, air)
Clean == main = <<>> /\ Held

\* As long as there are tests, no time is counted that the temperature was not
\* kept ...
Keeping ==
  Tests => /\ box.setpoint = None => box.reached = Never
           /\ ~box.doCycle /\ ~damp => box.reached <= calm

\* ... because between two changes of the setpoint there is a question, which has
\* an outdated time forgotten.
Alternating ==
  Tests =>
    /\ \A i, j \in Changes(toClient) :
         i < j => \E k \in Questions(toClient) : i < k /\ k < j
    /\ ~Clean => \A j \in Changes(toClient) : \E k \in Questions(toClient) : k < j
    /\ ~pending \/ asking =>
         /\ \A i \in Changes(toClient) : \E k \in Questions(toClient) : i < k
         /\ ~Clean => Questions(toClient) # {}

LEMMA DryAlike ==
  ASSUME NEW b, NEW c, NEW w, c.status = b.status, c.setpoint = b.setpoint
  PROVE  IsDry(c, w) <=> IsDry(b, w)
BY DEF IsDry

\* A setpoint once given is not lost, and without one no time is counted.
LEMMA NoneNever ==
  ASSUME NEW b \in Box, NEW w \in Air, NEW p, p = Stabilize(b, w),
         b.setpoint = None => b.reached = Never
  PROVE  p.box.setpoint = None => p.box.reached = Never
<1>1. PICK c : c = CheckCycles(b, w)
  OBVIOUS
<1>2. c \in Box /\ c.doCycle = b.doCycle /\ c.reached = b.reached
  BY <1>1, CyclesChecked
<1>3. c.setpoint = b.setpoint \/ c.setpoint # None
  BY <1>1, CyclesChecked
<1>4. CASE Rests(b, w, p) \/ Flushes(b, w, p)
  BY <1>4 DEF Rests, Flushes
<1>5. CASE Waits(b, w, c, p)
  BY <1>2, <1>3, <1>5 DEF Waits
<1>6. CASE Finishes(b, w, c, p)
  BY <1>2, <1>3, <1>6 DEF Finishes, Box
<1>7. CASE Controls(b, w, c, p)
  <2>1. p.box.setpoint = c.setpoint /\ p.box.reached = Reached(c, w)
    BY <1>2, <1>7 DEF Controls, Box
  <2>2. c.setpoint = None => c.doCycle
    BY <1>7 DEF Controls
  <2>3. c.doCycle => Reached(c, w) = c.reached
    BY DEF Reached
  <2> QED
    BY <1>2, <1>3, <2>1, <2>2, <2>3
<1> QED
  BY <1>1, <1>4, <1>5, <1>6, <1>7, StabilizeWays

\* A pass over a box that is kept at a temperature: it looks at the temperature,
\* no time is counted, or the box is not dry.
LEMMA Passed ==
  ASSUME NEW b \in Box, NEW w \in Air, NEW p, p = Stabilize(b, w),
         b.controlling, b.status \in Stabilizing, ~b.doCycle, b.cycles = Never
  PROVE  /\ p.box.setpoint = b.setpoint /\ p.box.status = b.status /\ ~p.box.doCycle
         /\ \/ p.box.reached = Reached(b, w)
            \/ p.box.reached = b.reached /\ b.setpoint = None
            \/ /\ p.box.reached = b.reached /\ ~IsDry(p.box, w)
               /\ w.humidity = "wet" \/ (b.status = "flushing" /\ p.acts = <<>>)
<1>1. PICK c : c = CheckCycles(b, w)
  OBVIOUS
<1>2. c = b
  <2>1. Never = -1
    BY Numbers
  <2> QED
    BY <1>1, <2>1, CyclesChecked
<1>3. p.box.setpoint = b.setpoint
  BY SetpointKept
<1>4. p.box.status = b.status /\ p.box.doCycle = b.doCycle
  BY <1>1, Stabilized
<1>5. IsDry(p.box, w) <=> IsDry(b, w)
  BY <1>3, <1>4, DryAlike
<1>6. b.status # "final_heating" /\ b.status # "unknown"
  BY DEF Stabilizing
<1>7. CASE Rests(b, w, p)
  BY <1>3, <1>4, <1>5, <1>7 DEF Rests
<1>8. CASE Flushes(b, w, p)
  <2>1. p.box = b /\ b.status # "flushing" /\ ~IsDry(b, w)
    BY <1>6, <1>8 DEF Flushes
  <2>2. w.humidity \in {"dry", "damp", "wet"}
    BY DEF Air
  <2>3. w.humidity = "wet"
    BY <1>6, <2>1, <2>2 DEF IsDry
  <2> QED
    BY <1>3, <1>4, <1>5, <2>1, <2>3
<1>9. CASE Waits(b, w, c, p)
  BY <1>2, <1>3, <1>4, <1>6, <1>9 DEF Waits
<1>10. CASE Finishes(b, w, c, p)
  BY <1>6, <1>10 DEF Finishes
<1>11. CASE Controls(b, w, c, p)
  <2>1. p.box.reached = Reached(b, w)
    BY <1>2, <1>11 DEF Controls, Box
  <2> QED
    BY <1>3, <1>4, <2>1
<1> QED
  BY <1>1, <1>7, <1>8, <1>9, <1>10, <1>11, StabilizeWays

LEMMA Remembered ==
  ASSUME NEW b, NEW w, NEW since, Remember(b, w, since)
  PROVE  /\ b.setpoint = box.setpoint => calm' = since
         /\ b.setpoint # box.setpoint => calm' = 0
         /\ ~damp' => \/ box.reached = Never \/ b.reached = Never
                      \/ IsDry(b, w) /\ ~damp
         /\ box.reached # Never /\ b.reached # Never /\ ~IsDry(b, w) => damp'
<1>1. /\ calm' = IF b.setpoint = box.setpoint THEN since ELSE 0
      /\ damp' = (Never \notin {box.reached, b.reached} /\ (damp \/ ~IsDry(b, w)))
  BY DEF Remember
<1>2. Never \notin {box.reached, b.reached} <=> box.reached # Never /\ b.reached # Never
  OBVIOUS
<1> QED
  BY <1>1, <1>2, Zenon

\* A test in progress does not come to an end of the client.
LEMMA TestSteps ==
  ASSUME Types, Testing, [Next]_vars, Tests'
  PROVE  /\ Tests /\ Driven /\ toClient \in Seq(TestCommands)
         /\ ~FinalHeat /\ ~Exit /\ ~Close /\ ~MainStabilizes
<1>1. ASSUME Agente \/ AskAgain \/ UserEnter \/ GiveUp
      PROVE  Tests
  BY <1>1, Answered
     DEF Agente, AskAgain, UserEnter, GiveUp, PrepareTest, ExecuteTest, CleanupTest,
         FinalTestCleanup, Ask, Over, RequestClientExit, Tests, Ends, Types, Phases,
         Again, Lost, Listens, Hears
<1>2. ASSUME MainLoop \/ CheckThread
      PROVE  Tests
  <2>1. UNCHANGED step
    BY <1>2, Zenon
       DEF MainLoop, CheckThread, Start, Cycle, FinalHeat, Stat, Exit, MainActs,
           MainStabilizes, Close, CheckStatus, CheckActs, Handles, agenteVars
  <2> QED
    BY <2>1 DEF Tests
<1>3. Tests
  BY <1>1, <1>2 DEF Next, Terminating, vars, Tests
<1>4. Driven /\ toClient \in Seq(TestCommands)
  BY <1>3 DEF Testing
<1>5. ~FinalHeat /\ ~Exit
  <2>1. toClient # <<>> => toClient[1].cmd \notin {"FINAL_HEAT", "EXIT"}
    <3>1. toClient # <<>> => toClient[1] \in TestCommands
      BY <1>4, HeadTailProperties
    <3> QED
      BY <3>1, TestCommandTypes
  <2> QED
    BY <2>1, Handled DEF FinalHeat, Exit, Types
<1>6. main # <<>> => Head(main) \notin {"close", "stabilize"}
  BY <1>4, SeqTypes DEF Driven, Drives, Stabilizing
<1>7. ~Close /\ ~MainStabilizes
  BY <1>6, Tuples DEF Close, MainStabilizes
<1> QED
  BY <1>3, <1>4, <1>5, <1>7

\* After a pass of the check thread the time belongs to the setpoint.
LEMMA CheckKeeps ==
  ASSUME Types, Cycling, Tests, Driven, Keeping, CheckStatus
  PROVE  Held' /\ Keeping'
<1>1. PICK w \in Air :
        /\ air' = w
        /\ box' = Stabilize(Aged(box), w).box
        /\ check' = Stabilize(Aged(box), w).acts
        /\ Remember(box', w, IF w.temp = box.setpoint THEN Capped(calm, StableTime + 1) ELSE 0)
  BY DEF CheckStatus
<1>2. PICK b : b = Aged(box)
  OBVIOUS
<1>3. PICK p : p = Stabilize(b, w)
  OBVIOUS
<1>4. /\ box \in Box /\ box.controlling /\ box.status \in Stabilizing
      /\ ~box.doCycle => box.cycles = Never
      /\ box.setpoint = None => box.reached = Never
      /\ ~box.doCycle /\ ~damp => box.reached <= calm
      /\ calm \in 0..(StableTime + 1) /\ StableTime + 1 \in Nat /\ Never = -1
  BY Numbers DEF Types, TypeOK, Box, Driven, Cycling, Counted, Keeping
<1>5. /\ b \in Box /\ b.controlling /\ b.status \in Stabilizing
      /\ b.setpoint = box.setpoint /\ b.doCycle = box.doCycle /\ b.cycles = box.cycles
      /\ b.setpoint = None => b.reached = Never
  BY <1>2, <1>4, AgedTypes
<1>6. box' = p.box /\ check' = p.acts
  BY <1>1, <1>2, <1>3
<1>7. box'.setpoint = None => box'.reached = Never
  BY <1>3, <1>5, <1>6, NoneNever
<1>8. CASE box.doCycle
  <2>1. p.box.doCycle = b.doCycle
    BY <1>3, <1>5, Stabilized
  <2>2. box'.doCycle
    BY <1>5, <1>6, <1>8, <2>1
  <2> QED
    BY <1>7, <2>2 DEF Held, Keeping
<1>9. CASE ~box.doCycle
  <2>1. ~b.doCycle /\ b.cycles = Never
    BY <1>4, <1>5, <1>9
  <2>2. /\ p.box.setpoint = b.setpoint /\ p.box.status = b.status /\ ~p.box.doCycle
        /\ \/ p.box.reached = Reached(b, w)
           \/ p.box.reached = b.reached /\ b.setpoint = None
           \/ /\ p.box.reached = b.reached /\ ~IsDry(p.box, w)
              /\ w.humidity = "wet" \/ (b.status = "flushing" /\ p.acts = <<>>)
    BY <1>3, <1>5, <2>1, Passed
  <2>3. /\ calm' = IF w.temp = box.setpoint THEN Capped(calm, StableTime + 1) ELSE 0
        /\ ~damp' => box.reached = Never \/ p.box.reached = Never \/ ~damp
        /\ box.reached # Never /\ p.box.reached # Never /\ ~IsDry(p.box, w) => damp'
    BY <1>1, <1>5, <1>6, <2>2, Remembered
  <2>4. Reached(b, w) = IF w.temp = b.setpoint /\ b.reached # Never THEN b.reached
                        ELSE IF w.temp = b.setpoint THEN 0 ELSE Never
    BY <2>1 DEF Reached
  <2>5. CASE p.box.reached = Reached(b, w)
    <3>1. box'.reached = Never \/ air'.temp = box'.setpoint
      BY <1>1, <1>6, <2>2, <2>4, <2>5
    <3>2. ~damp' => box'.reached <= calm'
      <4> SUFFICES ASSUME ~damp' PROVE box'.reached <= calm'
        OBVIOUS
      <4>1. box.reached = Never \/ box'.reached = Never \/ box.reached <= calm
        BY <1>4, <1>6, <1>9, <2>3
      <4>2. box.reached \in -1..(StableTime + 1)
        BY <1>4 DEF Box
      <4>3. Capped(calm, StableTime + 1) \in 0..(StableTime + 1)
        BY <1>4, CappedTypes
      <4>4. CASE w.temp = box.setpoint /\ box.reached # Never
        <5>1. b.reached = Capped(box.reached, StableTime + 1) /\ b.reached # Never
          <6>1. b.reached = Capped(box.reached, StableTime + 1)
            BY <1>2, <1>4, <4>4, AgedTypes
          <6> QED
            BY <1>4, <4>2, <4>4, <6>1 DEF Capped
        <5>2. box'.reached = Capped(box.reached, StableTime + 1)
          BY <1>5, <1>6, <2>4, <2>5, <4>4, <5>1
        <5>3. calm' = Capped(calm, StableTime + 1)
          BY <2>3, <4>4
        <5> QED
          BY <1>4, <4>1, <4>2, <4>4, <5>2, <5>3 DEF Capped
      <4>5. CASE ~(w.temp = box.setpoint /\ box.reached # Never)
        <5>1. box.reached = Never => b.reached = Never
          BY <1>2, <1>4, AgedTypes
        <5>2. \/ box'.reached = Never
              \/ box'.reached = 0
          BY <1>5, <1>6, <2>4, <2>5, <4>5, <5>1
        <5>3. calm' \in Nat
          BY <1>4, <2>3, <4>3
        <5> QED
          BY <1>4, <5>2, <5>3
      <4> QED
        BY <4>4, <4>5
    <3> QED
      BY <1>7, <3>1, <3>2 DEF Held, Keeping
  <2>6. CASE p.box.reached = b.reached /\ b.setpoint = None
    <3>1. box'.reached = Never
      BY <1>5, <1>6, <2>6
    <3>2. calm' \in Nat
      BY <1>4, <2>3, CappedTypes
    <3> QED
      BY <1>4, <1>7, <3>1, <3>2 DEF Held, Keeping
  <2>7. CASE /\ p.box.reached = b.reached /\ ~IsDry(p.box, w)
             /\ w.humidity = "wet" \/ (b.status = "flushing" /\ p.acts = <<>>)
    <3>0. box.reached = Never => box'.reached = Never
      BY <1>2, <1>4, <1>6, <2>7, AgedTypes
    <3>1. (damp' /\ ~IsDry(box', air')) \/ box'.reached = Never
      BY <1>1, <1>6, <2>3, <2>7, <3>0
    <3>2. air'.humidity = "wet" \/ (box'.status = "flushing" /\ check' = <<>>)
      BY <1>1, <1>6, <2>2, <2>7
    <3>3. Never <= calm'
      BY <1>4, <2>3, CappedTypes
    <3> QED
      BY <1>7, <3>1, <3>2, <3>3 DEF Held, Keeping
  <2> QED
    BY <2>2, <2>5, <2>6, <2>7
<1> QED
  BY <1>8, <1>9

\* A new setpoint does not inherit the time of the one before.
LEMMA StartKeeps ==
  ASSUME Types, Cycling, Tests, Driven, toClient \in Seq(TestCommands), Keeping, Clean, Start
  PROVE  Keeping'
<1>1. PICK s : s = Head(toClient).arg
  OBVIOUS
<1>2. PICK p : p = SetSetpoint(box, s)
  OBVIOUS
<1>3. box' = p.box /\ Remember(p.box, air, calm)
  BY <1>1, <1>2 DEF Start
<1>4. s \in Setpoints /\ s # None /\ UNCHANGED air
  <2>1. Handles("START")
    BY DEF Start
  <2>2. /\ toClient # <<>> /\ Head(toClient).cmd = "START" /\ Head(toClient).arg \in Setpoints
        /\ UNCHANGED weather
    BY <2>1, Handled DEF Types, Handles
  <2>3. Head(toClient) \in TestCommands
    BY <2>2, SeqTypes
  <2> QED
    BY <1>1, <2>2, <2>3, TestCommandTypes DEF weather
<1>5. /\ box \in Box /\ box.controlling /\ box.status \in Stabilizing /\ air \in Air
      /\ ~box.doCycle => box.cycles = Never
      /\ box.setpoint = None => box.reached = Never
      /\ ~box.doCycle /\ ~damp => box.reached <= calm
      /\ Never = -1 /\ calm \in Nat
  BY Numbers DEF Types, TypeOK, Box, Driven, Cycling, Counted, Keeping
<1>6. CASE box.setpoint = s
  <2>1. box' = box
    BY <1>2, <1>3, <1>6 DEF SetSetpoint, Pass
  <2>2. calm' = calm /\ (~damp' => box.reached = Never \/ ~damp)
    BY <1>3, <2>1, Remembered
  <2> QED
    BY <1>5, <2>1, <2>2 DEF Keeping
<1>7. CASE box.setpoint # s
  <2>1. PICK d : d = [box EXCEPT !.setpoint = s]
    OBVIOUS
  <2>2. /\ d \in Box /\ d.setpoint = s /\ d.controlling /\ d.status = box.status
        /\ d.doCycle = box.doCycle /\ d.cycles = box.cycles /\ d.reached = box.reached
    BY <1>4, <1>5, <2>1 DEF Box
  <2>3. p = Stabilize(d, air)
    BY <1>2, <1>7, <2>1 DEF SetSetpoint
  <2>4. box'.setpoint = None => box'.reached = Never
    BY <1>3, <1>4, <1>5, <2>2, <2>3, NoneNever
  <2>5. ASSUME ~box'.doCycle, ~damp'
        PROVE  box'.reached <= calm'
    <3>1. p.box.doCycle = d.doCycle
      BY <1>5, <2>2, <2>3, Stabilized
    <3>2. ~d.doCycle /\ d.cycles = Never
      BY <1>3, <1>5, <2>2, <2>5, <3>1
    <3>3. d.status \in Stabilizing
      BY <1>5, <2>2
    <3>4. /\ p.box.setpoint = d.setpoint /\ p.box.status = d.status
          /\ \/ p.box.reached = Reached(d, air)
             \/ p.box.reached = d.reached /\ d.setpoint = None
             \/ p.box.reached = d.reached /\ ~IsDry(p.box, air)
      BY <1>5, <2>2, <2>3, <3>2, <3>3, Passed
    <3>5. calm' = 0 /\ (box.reached = Never \/ box'.reached = Never \/ IsDry(p.box, air))
      BY <1>3, <1>7, <2>2, <2>5, <3>4, Remembered
    <3>6. Reached(d, air) = IF air.temp = s /\ box.reached # Never THEN box.reached
                            ELSE IF air.temp = s THEN 0 ELSE Never
      BY <2>2, <3>2 DEF Reached
    <3>7. CASE box.reached = Never
      BY <1>3, <1>4, <1>5, <2>2, <3>4, <3>5, <3>6, <3>7
    <3>8. CASE box'.reached = Never
      BY <1>5, <3>5, <3>8
    <3>9. CASE IsDry(p.box, air)
      <4>1. box'.reached = Reached(d, air)
        BY <1>3, <1>4, <2>2, <3>4, <3>9
      <4>2. \/ air.humidity = "dry"
            \/ air.humidity = "damp" /\ box.status # "flushing"
        <5>1. IsDry(d, air)
          BY <3>4, <3>9, DryAlike
        <5> QED
          BY <1>4, <2>2, <5>1 DEF IsDry
      <4>3. box.reached = Never \/ air.temp = box.setpoint
        <5>1. air.humidity # "wet"
          BY <4>2
        <5>2. box.status = "flushing" => IsDry(box, air)
          BY <4>2 DEF IsDry
        <5> QED
          BY <2>2, <3>2, <5>1, <5>2 DEF Clean, Held
      <4> QED
        BY <1>5, <1>7, <3>5, <3>6, <4>1, <4>3
    <3> QED
      BY <3>5, <3>7, <3>8, <3>9
  <2> QED
    BY <2>4, <2>5 DEF Keeping
<1> QED
  BY <1>6, <1>7

\* The setpoint is changed only when the time belongs to the one before.
LEMMA CleanChange ==
  ASSUME Types, Tests, Alternating, NEW cmd \in {"START", "CYCLE"}, Handles(cmd)
  PROVE  Clean
<1>1. /\ toClient[1].cmd = cmd /\ Len(toClient) \in Nat /\ DOMAIN toClient = 1..Len(toClient)
      /\ Len(toClient') = Len(toClient) - 1 /\ Len(toClient') \in Nat
  <2>1. /\ toClient[1].cmd = cmd /\ Len(toClient) \in Nat /\ DOMAIN toClient = 1..Len(toClient)
        /\ Len(toClient') = Len(toClient) - 1 /\ toClient' \in Seq(Commands)
    BY Handled DEF Types
  <2> QED
    BY <2>1, LenProperties
<1>2. 1 \in Changes(toClient)
  BY <1>1 DEF Changes
<1>3. \A k \in Questions(toClient) : ~(k < 1)
  BY <1>1 DEF Questions
<1> QED
  BY <1>2, <1>3 DEF Alternating

\* Most steps keep the setpoint, and keep the time or forget it.
LEMMA NextKeeping ==
  ASSUME Types, Cycling, Testing, Keeping, Alternating, [Next]_vars
  PROVE  Keeping'
<1> SUFFICES ASSUME Tests' PROVE Keeping'
  BY DEF Keeping
<1>0. /\ Tests /\ Driven /\ toClient \in Seq(TestCommands) /\ ~FinalHeat /\ ~Exit /\ ~Close
      /\ ~MainStabilizes
      /\ box \in Box /\ TypeOK /\ box.controlling /\ Never = -1
      /\ calm \in Nat
      /\ box.setpoint = None => box.reached = Never
      /\ ~box.doCycle /\ ~damp => box.reached <= calm
  BY TestSteps, Numbers DEF Types, TypeOK, Box, Driven, Keeping
<1>1. ASSUME /\ box'.setpoint = box.setpoint /\ UNCHANGED <<calm, damp>>
             /\ \/ box'.reached = Never
                \/ box'.reached = box.reached /\ box'.doCycle = box.doCycle
      PROVE  Keeping'
  BY <1>0, <1>1 DEF Keeping
<1>2. CASE Start
  <2>1. Clean
    BY <1>0, <1>2, CleanChange DEF Start
  <2> QED
    BY <1>0, <1>2, <2>1, StartKeeps
<1>3. CASE Cycle
  <2>1. PICK b : b = NewCount
    OBVIOUS
  <2>2. /\ b \in Box /\ b.doCycle = TRUE
        /\ b.setpoint = box.setpoint /\ b.reached = box.reached
    BY <1>0, <2>1, NewCountTypes DEF NewCount, Box
  <2>3. PICK p : p = SetSetpoint(b, CycleHigh + 1)
    OBVIOUS
  <2>4. box' = p.box /\ CycleHigh + 1 \in Setpoints /\ CycleHigh + 1 # None /\ air \in Air
    BY SMTT(30), <1>3, <2>1, <2>3, SetpointTypes, Numbers DEF Cycle, Types, TypeOK
  <2>5. p.box.doCycle = b.doCycle
    BY <2>2, <2>3, <2>4, SetpointTaken
  <2>6. p.box.setpoint = None => p.box.reached = Never
    <3>1. CASE b.setpoint = CycleHigh + 1
      BY <2>3, <2>4, <3>1 DEF SetSetpoint, Pass
    <3>2. CASE b.setpoint # CycleHigh + 1
      <4>1. PICK d : d = [b EXCEPT !.setpoint = CycleHigh + 1]
        OBVIOUS
      <4>2. d \in Box /\ d.setpoint = CycleHigh + 1
        BY <2>2, <2>4, <4>1 DEF Box
      <4>3. p = Stabilize(d, air)
        BY <2>3, <3>2, <4>1 DEF SetSetpoint
      <4> QED
        BY <2>4, <4>2, <4>3, NoneNever
    <3> QED
      BY <3>1, <3>2
  <2> QED
    BY <2>2, <2>4, <2>5, <2>6 DEF Keeping
<1>4. CASE Stat
  <2>1. box'.setpoint = box.setpoint /\ UNCHANGED <<calm, damp>>
    BY <1>0, <1>4, StatFields DEF Stat, history
  <2>2. \/ box'.reached = Never
        \/ box'.reached = box.reached /\ box'.doCycle = box.doCycle
    <3>1. CASE Status \notin {"FINISHED", "STABLE", "UNSTABLE"}
      BY <1>4, <3>1 DEF Stat
    <3>2. CASE Status = "FINISHED"
      BY <1>4, <3>2, StatFields
    <3>3. CASE Status \in {"STABLE", "UNSTABLE"}
      BY <1>4, <3>3, StatFields
    <3> QED
      BY <3>1, <3>2, <3>3
  <2> QED
    BY <1>1, <2>1, <2>2
<1>5. CASE MainActs \/ CheckActs
  <2>1. /\ box'.doCycle = box.doCycle /\ box'.setpoint = box.setpoint
        /\ box'.reached = box.reached
    <3>1. CASE MainActs
      BY <1>0, <3>1, MainCalls, Performed
    <3>2. CASE CheckActs
      BY <1>0, <3>2, CheckSteps, Performed
    <3> QED
      BY <1>5, <3>1, <3>2
  <2>2. UNCHANGED <<calm, damp>>
    BY <1>5 DEF MainActs, CheckActs, history
  <2> QED
    BY <1>1, <2>1, <2>2
<1>7. CASE CheckStatus
  BY <1>0, <1>7, CheckKeeps
<1>8. CASE Agente \/ AskAgain \/ UserEnter \/ GiveUp \/ UNCHANGED vars
  <2>1. UNCHANGED <<box, calm, damp>>
    BY <1>8, Zenon
       DEF Agente, AskAgain, UserEnter, GiveUp, PrepareTest, ExecuteTest, CleanupTest,
           FinalTestCleanup, Ask, Answer, Over, RequestClientExit, clientVars, history, vars
  <2> QED
    BY <1>1, <2>1
<1> QED
  BY <1>0, <1>2, <1>3, <1>4, <1>5, <1>7, <1>8 DEF Next, MainLoop, CheckThread, Terminating

\* How the queue of commands changes: the first is taken, or one is added.
LEMMA QueueTaken ==
  ASSUME TypeOK, Phases, NEW cmd, Handles(cmd)
  PROVE  /\ \A i \in Changes(toClient') : i \in Nat /\ i + 1 \in Changes(toClient)
         /\ \A k \in Questions(toClient) :
              k \in Nat \ {0} /\ (k # 1 => k - 1 \in Questions(toClient'))
         /\ 1 \in DOMAIN toClient /\ toClient[1].cmd = cmd
<1>1. /\ toClient # <<>> /\ toClient[1].cmd = cmd /\ toClient' \in Seq(Commands)
      /\ Len(toClient) \in Nat /\ Len(toClient') = Len(toClient) - 1
      /\ DOMAIN toClient = 1..Len(toClient) /\ DOMAIN toClient' = 1..Len(toClient')
      /\ \A i \in 1..Len(toClient') : toClient'[i] = toClient[i + 1]
  BY Handled
<1>2. Len(toClient') \in Nat
  BY <1>1, LenProperties
<1>3. ASSUME NEW i \in Changes(toClient')
      PROVE  i \in Nat /\ i + 1 \in Changes(toClient)
  <2>1. i \in 1..Len(toClient') /\ toClient'[i].cmd \in {"START", "CYCLE"}
    BY <1>1, <1>3 DEF Changes
  <2>2. i \in Nat /\ i + 1 \in DOMAIN toClient /\ toClient[i + 1] = toClient'[i]
    BY <1>1, <1>2, <2>1
  <2> QED
    BY <2>1, <2>2 DEF Changes
<1>4. ASSUME NEW k \in Questions(toClient)
      PROVE  k \in Nat \ {0} /\ (k # 1 => k - 1 \in Questions(toClient'))
  <2>1. k \in 1..Len(toClient) /\ toClient[k].cmd = "STAT"
    BY <1>1, <1>4 DEF Questions
  <2>2. ASSUME k # 1
        PROVE  k - 1 \in DOMAIN toClient' /\ toClient'[k - 1] = toClient[k]
    <3>1. k - 1 \in 1..Len(toClient') /\ (k - 1) + 1 = k
      BY <1>1, <2>1, <2>2
    <3>2. toClient'[k - 1] = toClient[(k - 1) + 1]
      BY <1>1, <3>1
    <3> QED
      BY <1>1, <3>1, <3>2
  <2> QED
    BY <1>1, <2>1, <2>2 DEF Questions
<1> QED
  BY <1>1, <1>2, <1>3, <1>4

LEMMA QueueGrown ==
  ASSUME TypeOK, NEW x \in Commands, Send(<<x>>), NEW n, n = Len(toClient) + 1
  PROVE  /\ n \in Nat /\ \A i \in DOMAIN toClient : i \in Nat /\ i < n
         /\ x.cmd = "STAT" => /\ Changes(toClient') = Changes(toClient)
                              /\ Questions(toClient') = Questions(toClient) \union {n}
         /\ x.cmd # "STAT" => /\ Changes(toClient') \subseteq Changes(toClient) \union {n}
                              /\ Questions(toClient') = Questions(toClient)
<1>1. /\ Len(toClient) \in Nat /\ Len(toClient') = n
      /\ DOMAIN toClient = 1..Len(toClient) /\ DOMAIN toClient' = 1..n
      /\ \A i \in 1..Len(toClient) : toClient'[i] = toClient[i]
      /\ toClient'[n] = x
  BY SendOne
<1>2. n \in Nat /\ \A i \in DOMAIN toClient : i \in Nat /\ i < n
  BY <1>1
<1>3. DOMAIN toClient' = DOMAIN toClient \union {n}
  BY <1>1
<1>4. /\ \A i \in DOMAIN toClient : i # n /\ toClient'[i] = toClient[i]
      /\ toClient'[n].cmd = x.cmd
  BY <1>1
<1>5. CASE x.cmd = "STAT"
  BY <1>2, <1>3, <1>4, <1>5 DEF Changes, Questions
<1>6. CASE x.cmd # "STAT"
  BY <1>2, <1>3, <1>4, <1>6 DEF Changes, Questions
<1> QED
  BY <1>5, <1>6

\* A command is taken: a change leaves a question before the next one, a question
\* a clean box.
LEMMA AlternatingTaken ==
  ASSUME Types, Tests, Alternating, NEW cmd \in {"START", "CYCLE", "STAT"}, Handles(cmd),
         cmd = "STAT" => Clean'
  PROVE  Alternating'
<1>1. /\ \A i, j \in Changes(toClient) :
           i < j => \E k \in Questions(toClient) : i < k /\ k < j
      /\ ~Clean => \A j \in Changes(toClient) : \E k \in Questions(toClient) : k < j
      /\ ~pending \/ asking =>
           /\ \A i \in Changes(toClient) : \E k \in Questions(toClient) : i < k
           /\ ~Clean => Questions(toClient) # {}
  BY DEF Alternating
<1>2. /\ \A i \in Changes(toClient') : i \in Nat /\ i + 1 \in Changes(toClient)
      /\ \A k \in Questions(toClient) :
           k \in Nat \ {0} /\ (k # 1 => k - 1 \in Questions(toClient'))
      /\ 1 \in DOMAIN toClient /\ toClient[1].cmd = cmd
  BY QueueTaken DEF Types
<1>3. UNCHANGED <<pending, asking>>
  BY DEF Handles, agenteVars
<1>4. ASSUME NEW i \in Changes(toClient'), NEW j \in Changes(toClient'), i < j
      PROVE  \E k \in Questions(toClient') : i < k /\ k < j
  <2>1. PICK k \in Questions(toClient) : i + 1 < k /\ k < j + 1
    BY <1>1, <1>2, <1>4
  <2>2. k - 1 \in Questions(toClient') /\ i < k - 1 /\ k - 1 < j
    BY <1>2, <2>1
  <2> QED
    BY <2>2
<1>5. ASSUME ~Clean', NEW j \in Changes(toClient')
      PROVE  \E k \in Questions(toClient') : k < j
  <2>1. 1 \in Changes(toClient)
    BY <1>2, <1>5 DEF Changes
  <2>2. /\ j + 1 \in Changes(toClient) /\ 1 < j + 1 /\ j \in Nat
    <3>1. j + 1 \in Changes(toClient) /\ j \in Nat /\ j # 0
      <4>1. DOMAIN toClient' = 1..Len(toClient')
        BY Handled DEF Types
      <4> QED
        BY <1>2, <1>5, <4>1 DEF Changes
    <3> QED
      BY <3>1
  <2>3. PICK k \in Questions(toClient) : 1 < k /\ k < j + 1
    BY <1>1, <2>1, <2>2
  <2>4. k - 1 \in Questions(toClient') /\ k - 1 < j
    BY <1>2, <2>2, <2>3
  <2> QED
    BY <2>4
<1>6. ASSUME ~pending' \/ asking', NEW i \in Changes(toClient')
      PROVE  \E k \in Questions(toClient') : i < k
  <2>1. PICK k \in Questions(toClient) : i + 1 < k
    BY <1>1, <1>2, <1>3, <1>6
  <2>2. k - 1 \in Questions(toClient') /\ i < k - 1
    BY <1>2, <2>1
  <2> QED
    BY <2>2
<1>7. ASSUME ~pending' \/ asking', ~Clean'
      PROVE  Questions(toClient') # {}
  <2>1. 1 \in Changes(toClient)
    BY <1>2, <1>7 DEF Changes
  <2>2. PICK k \in Questions(toClient) : 1 < k
    BY <1>1, <1>3, <1>7, <2>1
  <2>3. k - 1 \in Questions(toClient')
    BY <1>2, <2>2
  <2> QED
    BY <2>3
<1> QED
  BY <1>4, <1>5, <1>6, <1>7, Zenon DEF Alternating

\* A question is sent, or a change when the questions before it are seen to.
LEMMA AlternatingSent ==
  ASSUME Types, Tests, Alternating, NEW x \in Commands, Send(<<x>>), Clean' <=> Clean,
         x.cmd # "STAT" => (~pending \/ asking) /\ ~(~pending' \/ asking')
  PROVE  Alternating'
<1>1. /\ \A i, j \in Changes(toClient) :
           i < j => \E k \in Questions(toClient) : i < k /\ k < j
      /\ ~Clean => \A j \in Changes(toClient) : \E k \in Questions(toClient) : k < j
      /\ ~pending \/ asking =>
           /\ \A i \in Changes(toClient) : \E k \in Questions(toClient) : i < k
           /\ ~Clean => Questions(toClient) # {}
  BY DEF Alternating
<1>2. PICK n : n = Len(toClient) + 1
  OBVIOUS
<1>3. /\ n \in Nat /\ \A i \in DOMAIN toClient : i \in Nat /\ i < n
      /\ x.cmd = "STAT" => /\ Changes(toClient') = Changes(toClient)
                           /\ Questions(toClient') = Questions(toClient) \union {n}
      /\ x.cmd # "STAT" => /\ Changes(toClient') \subseteq Changes(toClient) \union {n}
                           /\ Questions(toClient') = Questions(toClient)
  BY <1>2, QueueGrown DEF Types
<1>4. /\ \A i \in Changes(toClient) : i \in Nat /\ i < n
      /\ \A i \in Questions(toClient) : i \in Nat /\ i < n
  BY <1>3 DEF Changes, Questions
<1>5. CASE x.cmd = "STAT"
  BY <1>1, <1>3, <1>4, <1>5 DEF Alternating
<1>6. CASE x.cmd # "STAT"
  <2>1. ASSUME NEW i \in Changes(toClient'), NEW j \in Changes(toClient'), i < j
        PROVE  \E k \in Questions(toClient') : i < k /\ k < j
    <3>1. i \in Changes(toClient)
      BY <1>3, <1>4, <1>6, <2>1
    <3>2. CASE j \in Changes(toClient)
      BY <1>1, <1>3, <1>6, <2>1, <3>1, <3>2
    <3>3. CASE j = n
      BY <1>1, <1>3, <1>4, <1>6, <3>1, <3>3
    <3> QED
      BY <1>3, <1>6, <3>2, <3>3
  <2>2. ASSUME ~Clean', NEW j \in Changes(toClient')
        PROVE  \E k \in Questions(toClient') : k < j
    <3>1. CASE j \in Changes(toClient)
      BY <1>1, <1>3, <1>6, <2>2, <3>1
    <3>2. CASE j = n
      BY <1>1, <1>3, <1>4, <1>6, <2>2, <3>2
    <3> QED
      BY <1>3, <1>6, <3>1, <3>2
  <2> QED
    BY <1>6, <2>1, <2>2 DEF Alternating
<1> QED
  BY <1>5, <1>6

LEMMA AlternatingKept ==
  ASSUME Alternating, Tests, UNCHANGED toClient, Clean => Clean',
         ~pending' \/ asking' => ~pending \/ asking
  PROVE  Alternating'
BY DEF Alternating

LEMMA InitTemperature == Init => Keeping /\ Alternating
<1> SUFFICES ASSUME Init PROVE Keeping /\ Alternating
  OBVIOUS
<1>1. Keeping
  BY Numbers DEF Init, Keeping
<1>2. Changes(toClient) = {} /\ Clean
  BY DEF Init, Changes, Clean, Held
<1> QED
  BY <1>1, <1>2 DEF Alternating

\* A question leaves the box clean.
LEMMA StatCleans ==
  ASSUME Types, Driven, Stat
  PROVE  Clean'
<1>1. main = <<>> /\ UNCHANGED main /\ UNCHANGED air
  BY DEF Stat, Handles, weather
<1>2. box.controlling /\ box.status # "unknown" /\ box.status \in Stabilizing
  BY DEF Driven, Stabilizing
<1>3. CASE box.doCycle
  <2>1. Status \in {"FINISHED", "CYCLING"}
    BY <1>2, <1>3, StatusSays
  <2>2. box'.reached = Never \/ box'.doCycle
    BY <1>3, <2>1, StatFields
  <2> QED
    BY <1>1, <2>2 DEF Clean, Held
<1>4. CASE ~box.doCycle
  <2>1. Status \in {"STABLE", "UNSTABLE"}
    BY <1>2, <1>4, StatusSays
  <2>2. box'.setpoint = box.setpoint
        /\ box'.reached = IF air.temp # box.setpoint THEN Never ELSE box.reached
    BY <2>1, StatFields
  <2>3. box'.reached = Never \/ air'.temp = box'.setpoint
    BY <1>1, <2>2
  <2> QED
    BY <1>1, <2>3 DEF Clean, Held
<1> QED
  BY <1>3, <1>4

LEMMA NextAlternating ==
  ASSUME Types, Cycling, Testing, Keeping, Alternating, [Next]_vars
  PROVE  Alternating'
<1> SUFFICES ASSUME Tests' PROVE Alternating'
  BY DEF Alternating
<1>0. /\ Tests /\ Driven /\ ~FinalHeat /\ ~Exit /\ ~Close /\ ~MainStabilizes
      /\ TypeOK /\ Phases
      /\ toAgente \in Seq(TestAnswers)
  BY TestSteps DEF Types, Testing
<1>1. CASE Start \/ Cycle \/ Stat
  <2>1. PICK cmd \in {"START", "CYCLE", "STAT"} :
          Handles(cmd) /\ (cmd = "STAT" => Stat)
    BY <1>1 DEF Start, Cycle, Stat
  <2>2. cmd = "STAT" => Clean'
    BY <1>0, <2>1, StatCleans
  <2> QED
    BY <1>0, <2>1, <2>2, AlternatingTaken
<1>2. CASE MainActs \/ CheckActs \/ CheckStatus
  <2>1. UNCHANGED <<toClient, pending, asking>>
    BY <1>2 DEF MainActs, CheckActs, CheckStatus, agenteVars
  <2>2. Clean => Clean'
    <3> SUFFICES ASSUME main = <<>>, Held PROVE Clean'
      BY DEF Clean
    <3>1. CASE CheckActs
      <4>1. check # <<>> /\ UNCHANGED <<main, air>>
        BY <3>1 DEF CheckActs, weather
      <4>2. /\ box'.doCycle = box.doCycle /\ box'.setpoint = box.setpoint
            /\ box'.reached = box.reached
        BY <1>0, <3>1, CheckSteps, Performed
      <4> QED
        BY <4>1, <4>2 DEF Clean, Held
    <3>2. CASE CheckStatus
      <4>1. Held' /\ UNCHANGED main
        BY <1>0, <3>2, CheckKeeps DEF CheckStatus
      <4> QED
        BY <4>1 DEF Clean
    <3> QED
      BY <1>2, <3>1, <3>2 DEF MainActs
  <2> QED
    BY <1>0, <2>1, <2>2, AlternatingKept
<1>3. CASE Agente \/ AskAgain \/ UserEnter \/ GiveUp
  <2>1. UNCHANGED <<box, main, check, air, damp>>
    BY <1>3, Zenon
       DEF Agente, AskAgain, UserEnter, GiveUp, PrepareTest, ExecuteTest, CleanupTest,
           FinalTestCleanup, Ask, Answer, Over, RequestClientExit, clientVars, weather, history
  <2>2. Clean' <=> Clean
    BY <2>1 DEF Clean, Held
  <2>3. CASE Ask \/ AskAgain
    <3>1. Send(<<Command("STAT")>>)
      BY <2>3 DEF Ask, AskAgain
    <3> QED
      BY <1>0, <2>2, <3>1, CommandTypes, AlternatingSent
  <2>4. CASE PrepareTest
    <3>1. CASE UNCHANGED <<toClient, pending, asking>>
      BY <1>0, <2>2, <3>1, AlternatingKept
    <3>2. CASE ~UNCHANGED <<toClient, pending, asking>>
      <4>1. /\ Send(<<[cmd |-> "START", arg |-> target']>>) /\ target' \in Targets
            /\ pending' = TRUE /\ step = "idle" /\ UNCHANGED asking
        BY <2>4, <3>2 DEF PrepareTest, StabilizeTemperature
      <4>2. ~pending /\ ~asking'
        BY <1>0, <4>1 DEF Phases
      <4>3. [cmd |-> "START", arg |-> target'] \in Commands
        BY <4>1, CommandTypes
      <4> QED
        BY <1>0, <2>2, <4>1, <4>2, <4>3, AlternatingSent
    <3> QED
      BY <3>1, <3>2
  <2>5. CASE ExecuteTest
    <3>1. CASE UNCHANGED <<toClient, pending, asking>>
      BY <1>0, <2>2, <3>1, AlternatingKept
    <3>2. CASE ~UNCHANGED <<toClient, pending, asking>>
      <4>1. /\ Send(<<Command("CYCLE")>>) /\ pending' = TRUE /\ ~pending /\ UNCHANGED asking
        BY <2>5, <3>2 DEF ExecuteTest
      <4>2. ~asking'
        BY <1>0, <4>1 DEF Phases
      <4>3. Command("CYCLE") \in Commands
        BY CommandTypes
      <4> QED
        BY <1>0, <2>2, <4>1, <4>2, <4>3, AlternatingSent
    <3> QED
      BY <3>1, <3>2
  <2>6. CASE Answer
    <3>1. PICK answer : answer = Head(toAgente).says
      OBVIOUS
    <3>2. /\ asking /\ toAgente # <<>>
          /\ Again(answer) \/ Lost(answer) \/ Listens(answer) \/ Hears(answer)
      BY <2>6, <3>1, Answered
    <3>3. answer \in {"STABLE", "UNSTABLE", "CYCLING", "FINISHED"}
      BY <1>0, <3>1, <3>2, SeqTypes DEF TestAnswers
    <3>4. UNCHANGED toClient
      BY <1>0, <3>2, <3>3 DEF Again, Lost, Listens, Hears, Tests
    <3> QED
      BY <1>0, <2>2, <3>2, <3>4, AlternatingKept
  <2>7. CASE CleanupTest
    BY <1>0, <2>2, <2>7, AlternatingKept DEF CleanupTest
  <2>8. CASE FinalTestCleanup \/ UserEnter \/ Over \/ RequestClientExit \/ GiveUp
    BY <2>8 DEF FinalTestCleanup, UserEnter, Over, RequestClientExit, GiveUp, Tests
  <2> QED
    BY <1>3, <2>3, <2>4, <2>5, <2>6, <2>7, <2>8 DEF Agente
<1>4. CASE UNCHANGED vars
  <2>1. UNCHANGED <<toClient, pending, asking, box, main, check, air, damp>>
    BY <1>4 DEF vars
  <2>2. Clean => Clean'
    BY <2>1 DEF Clean, Held
  <2> QED
    BY <1>0, <2>1, <2>2, AlternatingKept
<1> QED
  BY <1>0, <1>1, <1>2, <1>3, <1>4 DEF Next, MainLoop, CheckThread, Terminating

\* What the agente has received stays as the client sent it.
LEMMA AnswersOn ==
  ASSUME Types, [Next]_vars, NEW S, toAgente \in Seq(S), Stat => Reply(Status) \in S
  PROVE  toAgente' \in Seq(S)
<1>1. toAgente # <<>> => Tail(toAgente) \in Seq(S)
  BY SeqTypes
<1>2. CASE Stat
  <2>1. toAgente' = Append(toAgente, Reply(Status))
    BY <1>2, StatTypes
  <2> QED
    BY <1>2, <2>1, SeqTypes
<1>3. CASE Answer
  <2>1. toAgente # <<>> /\ toAgente' \in {Tail(toAgente)} \union ClearedAmongOthers(Tail(toAgente))
    BY <1>3, Answered DEF Again, Lost, Listens, Hears
  <2> QED
    BY <1>1, <2>1, ClearedTypes
<1>4. CASE Agente \/ AskAgain \/ UserEnter \/ GiveUp
  <2>1. CASE ~Answer
    <3>1. toAgente' \in {toAgente} \union ClearedAmongOthers(toAgente) \union ClearedTwice(toAgente)
      BY <1>4, <2>1
         DEF Agente, AskAgain, UserEnter, GiveUp, PrepareTest, ExecuteTest, CleanupTest,
             FinalTestCleanup, Ask, Over, RequestClientExit
    <3> QED
      BY <3>1, ClearedTypes, ClearedTwiceTypes
  <2> QED
    BY <1>3, <2>1
<1>5. CASE (MainLoop \/ CheckThread) /\ ~Stat
  <2>1. UNCHANGED toAgente
    BY <1>5, Zenon
       DEF MainLoop, CheckThread, Start, Cycle, FinalHeat, Exit, MainActs,
           MainStabilizes, Close, CheckStatus, CheckActs
  <2> QED
    BY <2>1
<1>6. CASE UNCHANGED vars
  BY <1>6 DEF vars
<1> QED
  BY <1>2, <1>4, <1>5, <1>6 DEF Next, Terminating

\* A box that says STABLE has kept the temperature.
Sound == {a \in Answers : a.says = "STABLE" => a.kept}
AnswersKept == Tests => toAgente \in Seq(Sound)

LEMMA NextAnswersKept ==
  ASSUME Types, Testing, Keeping, AnswersKept, [Next]_vars
  PROVE  AnswersKept'
<1> SUFFICES ASSUME Tests' PROVE toAgente' \in Seq(Sound)
  BY DEF AnswersKept
<1>1. Tests /\ Driven /\ toAgente \in Seq(Sound)
  BY TestSteps DEF AnswersKept
<1>2. ASSUME Stat PROVE Reply(Status) \in Sound
  <2>1. Reply(Status) \in Answers /\ Reply(Status).says = Status
    BY <1>2, StatTypes
  <2>2. ASSUME Status = "STABLE" PROVE calm > StableTime \/ damp
    <3>1. /\ box \in Box /\ calm \in Nat /\ StableTime \in Nat /\ Never = -1
          /\ ~box.doCycle /\ ~damp => box.reached <= calm
      BY <1>1, Numbers DEF Types, TypeOK, Box, Keeping
    <3>2. ~box.doCycle
      <4>1. box.controlling /\ box.status # "unknown"
        BY <1>1 DEF Driven, Stabilizing
      <4> QED
        BY <2>2, <4>1, StatusSays
    <3>3. box.reached > StableTime
      <4>1. Settle(box).reached > StableTime
        BY <2>2, StatusSays DEF IsStable
      <4>2. Settle(box).reached = IF air.temp # box.setpoint THEN Never ELSE box.reached
        BY <3>1, SettleTypes
      <4> QED
        BY <3>1, <4>1, <4>2
    <3>4. box.reached \in Int
      BY <3>1 DEF Box
    <3> QED
      BY <3>1, <3>2, <3>3, <3>4
  <2>3. Status = "STABLE" => Reply(Status).kept
    <3>1. Reply(Status).kept = (Status = "STABLE" /\ (calm > StableTime \/ damp))
      BY DEF Reply
    <3> QED
      BY <2>2, <3>1, Zenon
  <2> QED
    BY <2>1, <2>3 DEF Sound
<1> QED
  BY <1>1, <1>2, AnswersOn

\* The preparation of a test at a temperature is ended only by an answer that the
\* box gave when it was set to that temperature and had kept it for
\* timeUntillStable (PreparedAtTarget), for any number of tests, drifts and
\* repeated questions.  That the answer is not an old one rests on the dialogue:
\* as long as no question is repeated there is at most one answer, and it is
\* the answer to the last question.  That the time is the one of this setpoint
\* rests on a question between any two changes of the setpoint, which has the
\* time of the first forgotten: stabilize() keeps it when the temperature
\* happens to be at the second.
THEOREM PreparedAsAsked == Spec => PreparedAtTarget
<1> DEFINE Ended == step = "preparing" /\ pending /\ ~pending'
           Deserved == /\ Head(toAgente).at = target \/ repeats > 0
                       /\ Head(toAgente).kept
           Inv == Types /\ Cycling /\ Testing /\ Quiet /\ Keeping /\ Alternating /\ AnswersKept
<1>1. ASSUME Inv, [Next]_vars, Ended
      PROVE  Deserved
  <2>1. Types /\ Quiet /\ step = "preparing" /\ toAgente \in Seq(Sound) /\ repeats \in Nat
    BY <1>1 DEF AnswersKept, Tests, Types, TypeOK
  <2>2. Answer
    <3>1. CASE MainLoop \/ CheckThread
      <4>1. UNCHANGED pending
        BY <3>1, Zenon
           DEF MainLoop, CheckThread, Start, Cycle, FinalHeat, Stat, Exit, MainActs,
               MainStabilizes, Close, CheckStatus, CheckActs, Handles, agenteVars
      <4> QED
        BY <1>1, <4>1
    <3>2. CASE Agente \/ AskAgain \/ UserEnter \/ GiveUp
      BY <1>1, <3>2
         DEF Agente, AskAgain, UserEnter, GiveUp, PrepareTest, ExecuteTest, CleanupTest,
             FinalTestCleanup, Ask, Over, RequestClientExit
    <3> QED
      BY <1>1, <3>1, <3>2 DEF Next, Terminating, vars
  <2>3. PICK answer : answer = Head(toAgente)
    OBVIOUS
  <2>4. /\ toAgente # <<>> /\ answer \in Sound
        /\ \/ Again(answer.says) \/ Lost(answer.says)
           \/ Listens(answer.says) \/ Hears(answer.says)
    BY <2>1, <2>2, <2>3, Answered, SeqTypes
  <2>5. answer.says = "STABLE"
    BY <1>1, <2>1, <2>4 DEF Again, Lost, Listens, Hears
  <2>6. answer.kept
    BY <2>4, <2>5 DEF Sound
  <2>7. CASE repeats = 0
    <3>1. Preparing
      BY <1>1, <2>1, <2>7 DEF Quiet, Idle
    <3>2. PICK r \in Answers : toAgente = <<r>> /\ (r.says = "STABLE" => r.at = target)
      BY <2>4, <3>1 DEF Preparing, Silent
    <3>3. answer = r
      BY <2>3, <3>2, Tuples
    <3> QED
      BY <2>3, <2>5, <2>6, <3>2, <3>3
  <2>8. CASE repeats # 0
    BY <2>1, <2>3, <2>6, <2>8
  <2> QED
    BY <2>7, <2>8
<1>2. Inv /\ [Next]_vars => [Ended => Deserved]_vars
  BY <1>1
<1>3. Spec => []Inv
  <2>1. Init => Inv
    <3>1. ASSUME Init PROVE AnswersKept
      <4>1. toAgente = <<>> /\ <<>> \in Seq(Sound)
        BY <3>1 DEF Init
      <4> QED
        BY <4>1 DEF AnswersKept
    <3> QED
      BY <3>1, InitTypes, InitCycling, InitTesting, InitQuiet, InitTemperature
  <2>2. Inv /\ [Next]_vars => Inv'
    BY NextTypes, NextCycling, NextTesting, NextQuiet, NextKeeping, NextAlternating,
       NextAnswersKept
  <2> QED
    BY <2>1, <2>2, PTL DEF Spec
<1> HIDE DEF Ended, Deserved, Inv
<1>4. Spec => [][Ended => Deserved]_vars
  BY <1>2, <1>3, PTL DEF Spec
<1> QED
  BY <1>4 DEF PreparedAtTarget, Ended, Deserved

=============================================================================
