# Verification of elComandante

elComandante runs the qualification of silicon pixel modules: it takes the
modules on their test boards through a chain of tests (at several
temperatures, with high voltage, under x-rays) for hours or days, mostly
unattended. The core of the code is the coordination of many programs that
drive real devices, and that coordination is what this directory specifies,
model-checks with TLC and proves with TLAPS: every safety property of a passing
run is also a theorem.

Contents: [inventory](#1-inventory), [modules](#2-modules-and-the-code),
[runs](#3-what-the-runs-check), [proofs](#4-what-is-proved),
[findings](#5-findings), [limits](#6-what-is-not-modelled), [plan](#7-plan).

## 1. Inventory

All programs talk through the **subsystem server**, a UDP broker with named
topics ("abos"). elComandante itself is one process with a list of **agentes**,
one per device. An agente translates the phases of a test into commands on the
topic of its device; a **client** program per device executes them and answers.

| Part | State it keeps | Operations | Hard part | Correct when |
|---|---|---|---|---|
| Campaign: `elComandante/el_comandante.py` (`run`, `wait_until_finished`, `killChildren`, `clean_up_exception`) | the test, the phase, the timeout flag | prepare, execute and clean up every test, final clean-up, end the clients | barrier by polling, exceptions and Ctrl-C anywhere, alerts | no phase starts while an agente is busy; every exit kills all clients |
| Agentes: `el_agente.py` and its subclasses | `pending` and what they last asked for | the phase calls, `check_finished`, `request_client_exit`, `kill_client` | late or lost answers | a phase ends only with its own answer |
| X-ray: `xray_agente.py`, `xrayClient/` | last requested settings; saved state, shutter; the device | SET commands, FINISHED, monitoring, EXIT | device changed from outside, half-done changes | tests run in the conditions they asked for; a safe end |
| Test boards: `psi_agente.py`, `psiClient/psi46master.py`, `myutils/tbmaster.py` | busy flags on both sides, worker threads, processes | open, start, close, status | unlocked shared fields, stale packets, retries | one process per board; every board runs every test |
| Subsystem server: `subsystem/server.cpp`, `subserver.cpp`, `abo.*`, `clientinfo.*` | arrays of clients and abos, links in both directions | seven packet types, management commands | doubly kept links, deletion while iterating | data reaches exactly the other linked clients |
| Client library: `myutils/sclient.py`, `subsystem/sclient.cpp` | list of received packets | send, `getFirstPacket`, `clearPackets`, ping | list shared with a receiver thread | no packet lost or read twice |
| High voltage: `highVoltage_agente.py`, `keithleyClient/`, `isegClient/` | IV and leakage flags; sweep state, timer | output, IV curve, leakage current | packets cleared at the wrong moment, timer thread, nobody waits for the output | a measurement ends with its own end; bias off between tests |
| Cooling box: `coolingBox_agente.py`, `coolingBox/` (`jumoClient/` is an older client in C++) | target temperature; status, setpoint and cycle count of the box | stabilise, cycle, final heating | two unlocked threads, repeated questions, status machine | stable means stable; all cycles done; box off at the end |
| Low voltage: `lowVoltage_agente.py`, `lowVoltageClient/` | output state | output, power cycle | as x-ray | as x-ray |
| Watchdog, alerts, analysis: `watchDog_agente.py`, `alerts_agente.py`, `analysis_agente.py` | overview of results | listening and reporting | packet order | every result is listed |
| Test chain: `myutils/testchain.py`, `environment.py` | the tree of tests | parse, multiply, `next` | tree changed while it is walked, text accepted in part | every test once for each board, in order |

`PROJECT.json` lists every component with its status, and under `hazards` what
is hard to test, each at its line with the properties that would notice it.

## 2. Modules and the code

`PROJECT.json` maps every definition to its lines. A definition headed
*Deviation* is not part of a model: it is the definition after it with a
plausible mistake, kept to show that a property notices that mistake.

### TestCampaign and Comandante

`TestCampaign` is the abstract promise: a fixed number of rounds
(3 x tests + 1), in each of which every agente takes part, and no round starts
before everybody has finished the one before; the campaign ends completed or
abandoned.

`Comandante` is `run()` with everything that may interrupt it. `pc` is the
place in the program:

| `pc` | place |
|---|---|
| `next` | head of the loop over the tests |
| `call` | a loop calling one phase method of every agente (`turn` is the next) |
| `poll`, `queue` | the two sweeps of `wait_until_finished` |
| `enter` | the user is asked for ENTER at the end |
| `ask`, `kill` | the two loops of `killChildren` (`stage` says who called it) |
| `save` | logfiles are copied and archived |
| `failed` | an `except` clause of the main program waits for the user |
| `done`, `aborted`, `crashed` | the three ways to end |

Both sweeps call `check_finished` of every agente, so both consume answers and
both may raise; only the first decides. A deciding sweep that finds somebody
pending after `agenteTimeoutMins` sends the timeout alert, if the flag
`agenteTimeoutAlertSent` allows it (`AlertDue`, `PollAgain`): `alertSent` is the
flag and `alerts` counts what was really sent. Agentes are abstract: a call leaves an
agente pending or not, a client answers or reports an error at any time.
`run()` asks the clients to exit three times and kills them twice; the model
keeps that. Ctrl-C and exceptions may occur at every place the code is exposed
to them, including a second Ctrl-C inside the `except` clause.

### Xray

`xray_agente`, the `/xray` channel in both directions, the `xrayClient` main
loop, and the generator with its shutters and the target stage. The commands
of `prepare_test` depend on what the agente *last asked for* (`asked`, `hvon`,
`beamon`), exactly as in the code; the client executes the head of the queue
(`Execute`), or, when it is empty, compares the generator with `saved`
(`Monitor`). A command may fail (at most `MaxFaults` times) and the interlock
may trip (`MaxTrips`). Both settings of `turnOffHV` and
`beamOffBetweenTests` are initial choices. `Signal` (SIGINT to the client) is
only in `SignalSpec`.

Taken as given: the channel neither loses nor reorders (one machine, one
socket); no shutter is open at the start (`LeftOpen = {}`), since the client
never asks the device.

### Testboards

`psi_agente`, the `psi46master` main thread, one worker thread per test, and the
test processes. `tb` holds the fields of `TBmaster` that the main thread and the
workers share without a lock. A step is the handling of one command by the main
thread, or one place of a worker (reset, spawn, a line with an error, release,
check, answer, close), and TLC explores every interleaving of these; within a
step several fields may be read and written. `toAgente` also keeps the stale and
duplicated answers, and the packet that psi_agente gets for every line with an
error (`ErrorLine`, tbmaster.py:106): it skips such a packet when it reads, but
the packet counts in what is cleared; `ClearPackets` does what
`sclient.clearPackets` does (see Packets). A worker reports at most
`MaxErrorLines` of them. The fixed sleeps of `psi_agente` are modelled by what
they are meant for: `Spawned` (a worker that was started has spawned its
process) and `Settled` (every worker has come to rest). From one test to the
next the code has no sleep that ensures the second; the constant `ExitsInTime`
says whether it is assumed. A board remembers at most two workers at a time
(`MaxWorkers`, a guard of `NewWorker`): a bound of the model, the code has none.

### Broker and Subserver

`Broker` is what a client of the subsystem can rely on: two relations,
subscriptions and supplies, and for each packet the set of copies sent.
`Subserver` is the server: one action per packet type and per management
command. It keeps `clientinfo::list` and `abo::list` as sequences with the
index each object remembers, because `rmc` and `rma` delete while they iterate
and the destructor moves the last object into the gap (`DeleteAt`). The loop is a
recursive function over the array (`Sweep`), one `Looked` per pass.
The link lists (`slist`) are sets: their elements are unique and their order
does not matter. The fall-through from PKT_DATA and PKT_SETDATA to PKT_SUPPLY
is part of `Data` and `SetData`.

### Packets and HighVoltage

`Packets` holds the one operation of the client library that several agentes
use and that does not do what its name says: `clearPackets` pops from the list
it iterates over and skips the packet that follows. A client program with one
topic is left with every second packet (`Cleared`). The agentes share one
client and one list, so packets of other topics lie in between and decide which
ones stay (`ClearedAmongOthers`: any but the first, no two neighbours). That
also covers a packet the receiver thread appends in the meantime, which may be removed
or stay.

`HighVoltage` is `highVoltage_agente`, the `/keithley` channel, and
`keithleyClient` with its main loop, the sweep and the Timer thread of the
leakage current measurement. `step` is the phase the campaign is in; what the
phase methods send depends on the kind of test only (`Preparation`,
`Execution`, `Cleanup`). A test without a measurement is finished once the
queue of answers has been read, and nobody waits for `:OUTP ON` or `:OUTP OFF`:
the client may be commands behind when the next test is prepared. During
`sweep` the main loop takes no command; when it ends it clears its packets. The Timer
thread (`Tick`, `Fire`) runs beside everything else, is never cancelled, and
may outlive the client. `steady` and `measured` are history: what really
happened to the measurement of this test.

`execute_test` clears the answers after it has sent the start command; sending
and clearing are one step, since no measurement is that short.

### CoolingBox

`coolingBox_agente`, the `/jumo` channel, and `coolingBoxClient.py` with both of
its threads. The agente asks `:PROG:STAT?` until it hears what it waits for
(`Ask`, `Answer`); after ten seconds without an answer it asks again
(`AskAgain`). `box` holds the fields of `jumo_coolingBox`, which the main
thread and the check thread share without a lock. `Stabilize` is `stabilize()`:
it reads the box and decides; the calls it decides on (`cooling`, `heating`,
`flushing`, `stop_controlling`) wait in `main` or `check`, and `mainAt`,
`checkAt` say how far the thread is in the first of them. A call takes a step
(`Perform`, `After`) for each of: its test of the status, the contacts
that are opened before control changes, `controlling`, the write of the
controllers, the write of the contacts, and the status. The other thread may
act between any two of them, so the calls may overlap, and `device` has
controllers and contacts apart: they may be those of two different calls. What is written
to a register counts at once (`write_program_buffer` adds nothing to that).

The box itself is external: its temperature follows the controllers by at most
one unit per pass of the check thread; when controllers and contacts do not go
together, or nothing is on, it may as well stay or drift towards the room.
Unexpected changes of temperature and humidity, Ctrl-C and the repeated
questions are bounded together by `MaxTroubles`. That dryness also depends on
the setpoint, by the dew point (coolingBox.py:70), is left out: a box is dry for
every setpoint or for none (`IsDry`). An answer carries, for the properties
only, the setpoint it was given for and whether the temperature had been kept.
Temperatures are in units of the tolerance `deltaT_Max`, so "reached" is
equality, and the strict comparisons of `check_cycles` are the same as in the
code. Cycles are counted in halves in the code, as 0.5; here every half counts
as one. An answer that takes more than ten seconds is the same as a repeated
question (`repeats > 0`).

### TestChain

`myutils/testchain.py` and the two loops of `run()` over the tree. First the
user writes a text, piece by piece as `__repr__` does (`Write`): with each piece
goes what he has in mind, the test written last and the lists in braces that are
open, and `meant` says to which test each test is meant to belong. `Read` may
come at any moment, so a text may be cut short anywhere; `WellFormed` tells the
texts of the grammar (testchain.py:92-97) from those.

`heap` holds the `test_chain` nodes with their links in both directions. The
parser's functions call each other; the model keeps their stack instead:
`lists` has, for each call of `_parse_test_list_2` that goes on, the parent it
saved and the position to which `_parse_test_tree` goes back when the brace is
not closed, and `place` says where in the innermost call the parser is. One
step reads one test or opens or ends one list. What was added to the tree before
an error stays.

The first loop replaces a test that needs the high voltage by one test per board
while it walks (`Expand`, one pass of `multiply_child` per step of `Multiply`,
`Clone`); the second runs the tests (`Run`). `UpNext`, `Subtree` and
`Path` are recursive functions over the tree. `RunInOrder` is stated with `meant`
alone, without the nodes: `Follows` defines the next step as the user would.

## 3. What the runs check

| Run | Size | Result |
|---|---|---|
| `Comandante` | 3 agentes, 2 tests, 481,789 states | passes |
| `Xray` | 3 tests, 1 trip, 1 fault, 4 environments, 34,805 states | passes |
| `Testboards` | 2 boards, 3 tests, 1 error line, 219,859 states | passes |
| `Subserver` | 3 clients, 2 abos, up to symmetry 22,788 states | passes |
| `HighVoltage` | 3 tests, 2 tries, 2 ticks, 2,680 states | passes |
| `CoolingBox` | 2 tests, 1 trouble, 262,325 states | passes |
| `TestChain` | up to 4 tests, 2 boards, 139,309 states | passes |
| `XrayShutter`, `XraySignal` | 1 test | finding |
| `TestboardsPowercycle`, `TestboardsSlowExit` | 1 board | finding |
| `SubserverRma` | 3 clients, 2 abos | finding |

**Comandante.** `PhaseBarrier` and `QuietBetweenTests`: the barrier holds
although several sweeps share the answers. `AskedBeforeKilled`, `NoClientLeft`,
`NoCallAfterFailure`: whatever goes wrong, the program goes through the exit
sequence over all agentes and nowhere else; only a Ctrl-C in the `except`
clause leaves clients behind (`crashed`). `OneAlertPerTest`, `StuckIsReported`:
the timeout alert of a test is sent, and only once, by sweeps that come every
0.25 s in three waits. `CampaignSpec`: the refinement.
`Termination`: with clients that answer the program ends. Three agentes are
the least with a first, a middle and a last in every loop; two tests are the
least with a change-over between tests. Fairness is weak and only on what the
main thread does by itself: it never blocks except on `query_any`, which is
`UserEnter` and not fair. `Termination` names its further assumptions (user,
clients) in the formula.

**Xray.** `ReadyForTest`: a test is executed only in its x-ray conditions (or,
after a trip, `TripWillBeReported`). `OneQuestionOneAnswer`: the agente is
pending exactly while one FINISHED is on its way. `OneBeam`: never two open
shutters. `SafeAtTheEnd`: a campaign that ends without error ends without beam.
`AnswerComes`, `CampaignEnds`: nobody waits for ever. Three tests give every
environment a predecessor and a successor; a direct-beam test, a fluorescence
test, a dark test and a test with an unknown target differ in all commands. The
client only logs an unknown target and keeps the one before; `ReadyForTest` says
nothing of that test, but that all is right again for the next one. Fairness:
both programs poll in an endless loop and neither waits for the other without
polling.

**Testboards.** `OneProcess`, `NoProcessLeft`: the busy flags, without a lock,
still keep two tests apart, and no stale answer ends a test early - as long as
the clears of the next test are enough for the packets this one leaves. Every
line with an error leaves one more, so it is a question of numbers: with
`MaxErrorLines` = 1 the run passes; with one board and three batch tests TLC
finds `NoProcessLeft` violated for 6 lines of a worker, and not for 1 to 3
(section 4 has the bound that is proved). `EveryBoardRan`: a start is never
refused because of what the test before left behind. `EveryTestEnds`: the wait
ends. Two boards make answers of different boards mix in one queue; three tests
let what the first left behind meet the third. An `iv` test may be for all
boards, for one of them (`activeTestboard`), or for none (`Cycle`). Fairness:
both programs and every worker run on, and every test process ends (an opened
one when told to); without the last the test may legitimately take for ever.

**Subserver.** `LinksAgree`, `NothingDangles`: the doubly kept links agree and
point to living objects. `ArraysSound`: the lookup finds what it looks for.
`ServerSpec`: the refinement. Three clients are needed for a sender, two
recipients, and a gap in the array that is neither first nor last. Clients and
names are interchangeable, hence the symmetry; the run has no liveness property.

**HighVoltage.** `MeasuredInFull`: a test of a measurement is over only when
this very measurement has run to its end, a leakage current measurement with
the bias on all the time; neither a left-over packet nor a note ends it.
`OffBetweenTests`: once the client has done what it was told, the bias is off
between tests, although nobody waited for it. `TestsEnd`: the end is reported
and noticed. Three tests of any of the four kinds give every kind a
predecessor and a successor; two tries are the least with a retry. Fairness:
both programs poll, a sweep and its tries are finite, the Timer fires.

**CoolingBox.** `PreparedAtTarget`: the answer that ends a preparation was
given when the box was set to this test's temperature and had kept it for
`timeUntillStable`. Two exceptions are part of the property because the code
has them: after a repeated question an answer may be about an earlier
temperature, and while a box that got wet after it had reached its temperature
is flushed again, `stabilize()` does not look at the temperature, so an excursion in
between goes unnoticed (the ordinary drying before it is reached is no exception).
`AllCyclesDone`: FINISHED comes only after all cycles.

`OffAfterCampaign`: two threads that both drive the device, with calls that may
overlap write by write, leave it off at the end of a campaign - if no question
was repeated. With a repeated question it is false: a late UNSTABLE
makes `checkFinalHeating` begin the final clean-up again, whose START drives
the box while the check thread is inside `stop_controlling()`, and TLC shows a
campaign (no test at all, one repeated question) that ends with the
controllers heating.

`WaitsEnd`: a wait ends, unless one of two faults of the code prevents it, and
both do happen: without either disjunct TLC finds the property violated.
`ReportLost`: a repeated question has taken the one FINISHED of a cycle test,
and what comes after it is never FINISHED. `Mixed`: two calls that overlapped
have left the device in another state than the status says, for instance cooling
with the status HEATING, and `heating()` and `cooling()`, which believe the
status (jumo_coolingBox.py:74), never correct that. Repeated questions that do
not lose a report are not exempt.

Two tests of either kind give every change-over; one trouble shows each
exception on its own. Fairness: both loops of the agente and of the client
poll, and both threads of the client run on; the user may never come back.

**TestChain.** `TypeOK` includes that links in both directions agree.
`ParsedAsMeant`: of a complete text the tree is the one meant. (What follows a
piece that does not fit is dropped without a word, as in `a,,b`, and a list that
is not closed is taken as if it were, although testchain.py promises "None
otherwise" (line 109) and "negative in case of an error" (lines 236-237): the
model accepts texts that are cut short as the code does, and no property relies
on that.) `RunInOrder`: the tests that were taken of a text are run in order,
those that need the high voltage once per board with all that belongs to them.
All trees of four tests contain every case of `up_next` and of the grammar (a
chain, a list in braces, a list after a chain, a brace inside a brace); two
boards are the least with a copy.

Deadlock is checked in every run: `Terminating` (`Over` in Testboards) is the
only way to stop.

## 4. What is proved

`ComandanteProofs` proves, for every number of agentes (at least one) and of
tests, that `Spec` implies the type invariant, the four safety invariants and
the two action properties of the run, and that `Comandante` implements
`TestCampaign` (`Implements`). The only assumption is `ComandanteAssumption`.

The invariants are not inductive as they stand. `Inv` adds

* `Swept`: while the deciding sweep still finds everybody finished, every
  agente it has passed is not pending. That gives the barrier: at the end of
  such a sweep everybody is quiet, and only phase calls make an agente pending.
* `QuietOutside`: nobody is pending between tests and on the orderly way out.
* `ExitOrder`: the loops of `killChildren` have asked, or killed, exactly what
  they have passed, and killing starts after all were asked.
* `PhaseInv`: which places of `run()` go with which phases; the refinement
  needs it to know the round it is in.

Each part is an invariant lemma with one step per action. For the refinement,
`Mapping` describes the mapped state in every place, and `NextCampaign` shows
for every action which step of `TestCampaign` it is, or that it is none.

`HighVoltageProofs` proves, for any number of tests, of tries of a sweep and any
duration, the type invariant (`TypeCorrect`), `OffBetween` and `MeasuredFully`,
from `HighVoltageAssumption` only. Neither property is inductive, because both
queues are unbounded in principle and nobody waits for most commands. `Inv`
says where the end of the awaited measurement can be:

* `WaitInv`: what is waited for belongs to the current test.
* `IVInv`, `LeakInv`: the measurement is still to be asked for, being worked on,
  or reported, and only one of these. The request is the last command on its
  way, so the client is idle while it measures, and the packets it clears at
  the end are none. When nothing is waited for, nothing of it is anywhere.
  For the leakage current, `OnBeforeLeak` adds that the bias is switched on
  just before, which keeps it `steady`.
* `BiasInv`: between tests the last command about the bias that is still on
  its way is `:OUTP OFF`, or the bias is off and no `:OUTP ON` is on its way.

The lemmas on queues (`HasTail`, `HasConcat`, `LastIsOnly`, `GoesOffTail`, ...)
say what taking, adding and clearing do to these facts; then there is one
lemma per part of `Inv` with one step per action.

`SubserverProofs` proves, for any finite sets of addresses and of names
(`FiniteNetwork`), the four invariants of the run, and that `Subserver`
implements `Broker` (`Implements`).

* The arrays. An array is `Sound` when every object in it knows its place and
  nobody else thinks to be in it. Registering keeps it so (`RegisterSound`),
  and so does the destructor. `SweepSound` follows the loop that
  deletes while it iterates, for an array of any length: the result is sound,
  nobody comes in, and only the doomed are taken out. It may leave some of the doomed,
  which is the finding of `SubserverRma`; `SweepOfOne` shows that a removal by
  name, which has one object to find, does find it (`NamedAboRemoved`).
* `Links`: the halves of a link agree and only registered objects are linked.
  `NothingDangles` is not inductive without the agreement: an object that is
  deleted finds its partners in its own lists only.

`XrayProofs` proves the type invariant, `OneEchoPerQuestion` and `TripReported`
for any environments and any number of tests, trips and faults, and
`OneBeamOnly`, `LeftSafe` and `ReadyWhenExecuted` under `LeftOpen = {}`, which
is a hypothesis of each of these theorems: with a shutter left open by an
earlier session they are false. `XrayAssumption` says that `None` is no value
of a setting. `ReadyForTest` relates what a test asked for to the device, four
hand-overs away; `Inv` has one part for each (the module's header lists them):
what the agente asked for is still among the commands, or is what the client
has saved, which is what the device has, unless an error answers it. The
dialogue (`FINISHED` is the last command, and nothing waits between two phases)
says when the first alternative is excluded. Lemmas in
`DataLemmas` say what taking and adding commands does to the set of the
arguments on their way.

`CoolingBoxProofs` proves the four safety properties of the run for any
temperatures, durations and numbers, from `CoolingBoxAssumption` only.
`StabilizeWays` states the five ways through `stabilize()`, which both threads
go over independently, each a step apart from the device call it decides on.

* `Cycling` ties the count of the half cycles to the extremes the temperature
  has reached since the test began (`CyclesReported`).
* `Quiet` says where the one answer is as long as no question was repeated, and
  `AtRest` that a client ends only with its check thread at rest; they give
  `LeftOff`, since no call of the check thread is then left to come, nor the
  rest of one, and what the last two calls wrote, in whatever order, is "off".
* `AnswersKept` carries to the agente what was true of the box when a STABLE was
  given, until it ends the preparation.
* `Keeping` compares the box's clock `reached` with how long the temperature
  really was where it should (`calm`): the box may count too little, and too
  much only after it was damp. `Alternating` ties the setpoint to the target of
  the test and the status, from the command to the answer (`PreparedAsAsked`,
  with `AnswersKept`).

`TestboardsProofs` proves the type invariant of `Testboards` without any
assumption (`TypeCorrect`; that a board has at most two workers is the bound of
the model, not a result), and under `InTime` and `FewErrors` the three safety
invariants of the run, for any number of boards and of tests. `FewErrors` bounds
the lines with errors, see below. `InTime` is what the run assumes too: psi46
has ended when the next test is prepared (else `OneProcess` is false, see
`TestboardsSlowExit`), and no test is a powercycle, which starts a board again
in the middle of a test. With powercycles `NoProcessLeft` is false even for one
board: a second `failed` that is left of the first try counts as the failure of
the second, the third start is queued while the second try runs, and the answer
of the second ends the wait while the third begins. The inductive invariant
`Inv` has five parts besides the types:

* `Machines`: how the place of a worker, the process, and the fields of
  `TBmaster` fit together. From it a board has one worker at a time, and a start
  or an open that reaches a board with no worker finds it not busy.
* `Phases` and `Course`: where psi_agente is says where each board is (`Due`),
  from free by opening or starting to done; every step of a worker and of the
  main loop keeps a board there (`WorksKeepCourse`, `HandlesKeepCourse`), and
  every step of psi_agente moves the boards on.
* `Trusted` and `Count`: `clearPackets` leaves every second packet, so packets
  of the last test are still there when the next one starts, and some of them
  say `finished`. What saves the test is a number: with n boards and at most E
  lines with errors of a worker (`MaxErrorLines`) it begins with (6 + E) n + 1
  packets at most (`Most`), counting what is still to come (`Count`), and the
  n + 2 calls of `clearPackets` before the wait halve them (`ClearHalves`, `Olds`,
  `OneMore`), while all that comes meanwhile is true. `FewErrors` says that
  nothing is left: E = 0 for one board, E <= 1 for two, E <= 4 for three, E <= 9
  for four. It is sufficient, not necessary (section 3); with very many lines
  `NoProcessLeft` is false. Then every answer that ends the wait for a board is
  about its test, and its process has ended (`Trusted`, which gives
  `NoProcessLeft`).

The count adds up what each board owes (`Owed`); the lemmas on `Total` say what
becomes of such a sum when one board or every board changes.

`TestChainProofs` proves the three invariants of `TestChain` for every text of
at most `MaxTests` tests (any number), every choice of the tests that need the
high voltage and every number of boards, none included, from
`TestChainAssumption` only.

* `Types` (gives `TypeOK`) adds that a node has a higher number than its parent.
  That makes `UpNext`, `Subtree` and `Path` defined for every node (`UpNextIs`,
  `SubtreeIs`, `PathIs`, from `RecursionDown`), and it is what `clone()` has to
  keep: `CopyOK` shows that the tree with a copied subtree inserted among the
  siblings has all its links right again.
* `ParserInv` (gives `ParsedAsMeant`, and `TakenAsMeant` for the texts cut short
  that the loops may start from, too). The parser never says that something went
  wrong, so it has to be shown that with a complete text nothing does: it is
  right behind a piece, with the tree of exactly the tests up to there, and in
  just the lists that the user had in mind after that piece (`Reading`). The
  only way out of this is the end of the text: then all tests are in the tree,
  and the list that is not closed sends the parser back to a place where it
  finds a brace and no test (`Over`, `Backs`).
* `LoopInv` says what the tree is like while the first loop changes it under its
  own feet. `Ordered`: in the list of children each test comes with its copies,
  or alone and not multiplied, and the next one is the next test of the text;
  only the last copy of the current test may lack its successors (`CopiesOK`).
  `Visited`: there is a set of tests the loop has entered and a set of those it
  is done with, closed under children, that hold all that comes before its
  place; all of these are multiplied. A new copy comes behind the place and
  brings the children as they were, not multiplied, so the loop must and will
  enter them (`SeenCopy`, `Climb`); when it is over every test is multiplied
  (`AllSeen`).
* `DoneInv` ties the test that was run last to the one the second loop is at. On
  a tree that is `Ordered` and multiplied, one `next()` is one step of `Follows`
  (`FollowsIs`; `UpIs` climbs as far as `up_next()` does), and the loop ends
  only where the order ends (`Ends`).

`DataLemmas` has the facts about numbers, functions and queues that several
modules need. It derives induction over an interval from the axioms of
arithmetic (through a least number), with sets of numbers in place of the
operator the library's theorems take, and from it that a function is defined by a
recursion to lower numbers (`RecursionDown`). `SweepSound`, the queues, the sums
over the boards and the tree of tests use it.

Liveness under fairness (`StuckIsReported`, `Termination`, `AnswerComes`,
`CampaignEnds`, `EveryTestEnds`, `TestsEnd`, `WaitsEnd`) is only model-checked:
the prover handles neither fairness nor ENABLED. With powercycles or slow exits
only the type invariant of `Testboards` is proved (and `NoProcessLeft` and
`EveryBoardRan` do not hold with powercycles).

## 5. Findings

Each is a run that TLC must find violated; `PROJECT.json` quotes both sides.

* `XrayShutter`: the interlock may close the shutter; the monitor compares only
  high voltage, voltage and current, so a test goes on without beam unnoticed.
* `XraySignal`: the signal handler closes the connection and leaves the
  generator as it is, where the comment above it promises a clean-up.
* `TestboardsPowercycle`: after three failures the board stays busy in
  `psi_agente` and the wait never ends.
* `TestboardsSlowExit`: `busy` is cleared while an opened process still runs;
  if it ends slowly, the next test starts a second process on the board.
* `SubserverRma`: `rma unsupplied` skips abos because it deletes from the array
  it iterates over.

Four more faults are in the models, where the property of a passing run has to
make an exception for them, without a run of their own: a repeated question
loses the end of a cycle test (`ReportLost`); calls of the two threads of the
cooling box disagree for good (`Mixed`); a repeated question leaves the box on
(`OffAfterCampaign`); a text with mistakes is taken in part (`WellFormed`).

## 6. What is not modelled

* Start-up, configuration, archiving and upload, logging, mails: sequential I/O.
* Loss and reordering of datagrams, and the receiver thread of the client
  library as a thread (what it does to a list being cleared is in Packets). A
  lost FINISHED would make any agente wait for ever, by design of the protocol.
* In Testboards: `kill`, `exit`, `Pause`, leakage current tests, and
  `powercycle()`, which nothing calls; that killing a process started through a
  shell may only kill the shell; the window at psi46master.py:136, where the
  main thread sets `busy` after a worker may already have cleared it.
* In Subserver: flags and logs of abos, listings, identifiers of clients (a
  removal by identifier may hit any set of clients), overflow of the arrays; an
  abo that is itself called "unsupplied", which meets both cases of `rma`.
* In Xray: that an unknown target is only logged (xrayClient.py:297) is in the
  model, as what the code does, and no property objects to it. An empty target
  is decoded as "unknown" too, so that xrayClient.py:295 is never reached.
* High voltage: the ISEG variant, whose sweep reports differently; the commands
  no agente sends; a Keithley that never answers; the `:PROG:STOP` of
  `kill_client`.
* Cooling box: the C++ client in `jumoClient/`; the encoding of the registers
  and the locks of the serial line; an exception of the serial line, which would
  end the check thread without a word; the second `:EXIT` that `killChildren`
  sends. After Ctrl-C the exit of the clients races with the check thread and
  with a sweep, and may leave the box cooling or the bias on; the FIXME at
  el_comandante.py:1062 knows that, and the properties speak of campaigns that
  come to their end.
* Test chain: spaces and the characters of a name; texts with mistakes other
  than being cut short. Of such a text the code takes what it understands and
  says nothing (section 3); no property says what should become of it.
* Low voltage, watchdog, analysis, environment: small, sequential, and with the
  dialogue the x-ray client already has.
* Most of the repository by lines: libmodbus, yoctopuce, and the ports and
  bridges under `subsystem/clients` (with three copies of the uIP network stack)
  are third-party code, used through one or two calls each; the scripts in
  `fitting/` and `analysisClient/scripts` are offline numerical analysis;
  `config/` is data. None of it takes part in the coordination.

## 7. Plan

Done: TestCampaign, Comandante, HighVoltage, Xray, Broker, Subserver,
CoolingBox, Testboards and TestChain with their proofs.

1. Proofs: for `Testboards`, `OneProcess` with powercycles and batches only:
   with one board TLC finds no violation, and the proof would have to count the
   retries as well. (With IV tests in between the property is false: the third
   start of a powercycle may outlive its test, the `close` of an IV test
   releases its worker, and the next `open` adds a second process.)
2. `SClient`: the receiver thread with its counter and its exceptions, and the
   wait for it at el_comandante.py:1017.
3. A small limit for the arrays of `Subserver`, for the client that is one too
   many (clientinfo.cpp:33).
4. `LowVoltage` and the watchdog, if their dialogue differs enough from Xray's.
