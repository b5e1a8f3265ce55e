# A formal model of the hardening machine control

TLA+ modules for the control software of the HM-500G1 induction hardening
machine, checked by TLC on small instances and, where it matters most, proved by
TLAPS for every instance: the automatic mode and the two nodes it drives, the
axes under a program and under the hand, locks, cooling, panel, converter, I/O
units and their lines, the EtherCAT cycle, the files and the editor of programs,
the windows of the GUI, the emulator. `PROJECT.json` ties every definition to the
lines it models, every hazard of the code to its properties, and every property
to a plausible bug that breaks it.

## 1. The system

The software is a set of Linux processes that talk over a message bus
(`eng::sibus`, part of `libeng`, not in this repository). Each process runs one
event loop (`eng::run()`): sockets, timers, and calls postponed to the next
round. Inside a process nothing runs in parallel; between processes everything
does. Nodes have

* **ports**: values published and watched (positions, speeds, temperatures), and
* **wires**: command channels with a status at the receiving end: `ready`,
  `active`, `blocked`. An accepted command makes the wire active, `reject` makes
  it ready with an error text, `terminate` makes it blocked (or ready) with one,
  and the end of a deactivation makes an active wire ready. The other end is told
  of a status when it changes or carries an error.

| process | nodes |
|---|---|
| `core` | auto_mode, stuff_ctl, sprayer_ctl x3, lock_intervals, lock_flags, barrel_ctl x3, barrel_lvl_ctl x3, drainage_ctl, diverter_valve_ctl x2, panel nodes, speed_node x4, bki_ctl, emg_ctl, current_conductors, error_mask |
| `cnc` | multi_axis_ctl, axis_panel_ctl x4, rcu_ctl |
| `ethercat` | servo_motor (lc10e) and axis_motion_node x4 on the IgH master |
| `modbus-rtu-master` | frequency_converter, PR200 |
| `modbus-tcp-client` | PR205-A1, A2, A14, BN and PLC110: registers to ports and back |
| `gui` | Qt pages: automatic mode, programs and their editor, manual window |
| `sys-emu` | emulator of the units, for development |

A run of a program goes through these parts:

    gui page --wire--> auto_mode --wire "axis"---> multi_axis_ctl --wires--> axis_motion_node / servo_motor
                          |  ^---- ports: positions of the axes ----------------|
                          `--wire "stuff"--> stuff_ctl --wires--> frequency converter, sprayers, rotating axes

### Components, their state and operations

**auto_mode** (`core/src/auto-mode`). State: the loaded program; the processor
`vm` (next phase, counters of the loops, phases looked ahead, moving list,
planned position); the state machine of `internal_state_ctl.hpp` (a state, and
a call of its handler that is due); one-shot listeners for the statuses of the
two wires; the pause timer; the last statuses of the wires; the known position
of every axis and the origin. Operations: upload a program, activate (start, or
continue in a pause without end), deactivate (stop), a status on either wire, a
position of an axis, the pause timer, the state call. The processor looks ahead:
it joins operations whose movements continue each other (through loops too) into
one moving list, sends it as one task, and takes phases off the list as the
reported positions pass their ends. Correct when: the phases are executed in the
order and at the place the program says, "done" means the whole program and its
whole way, the processor never throws, a stop is always possible and leaves
nothing on, listeners and timers of one state never act in another, and the next
run is offered again.

**stuff_ctl** (`core/src/stuff-ctl.cpp`). State: per device `in_use`,
`in_active`, the last error; its own wire. Operations: prepare (reserve devices),
operation (switch them), deactivate; a status from any device. Correct when: no
order of commands, late statuses and failures leaves a device on, a failed
device is not started, and the failure of one stops all and reaches the client.

**multi_axis_ctl** (`cnc/src/multi-axis-ctl.cpp`). State: the phases of the
task per axis, the executing axes with their next phase (`in_proc_`), its wire.
Operations: activate (split the moves into phases and groups, calculate the
times, send every axis its first phase), deactivate, a status of any axis.
Correct when: every axis makes every move of the task in step with its group, no
axis moves that the node does not follow, the end is reported when all is done
and not before, the wire tells whether axes execute, a blocked wire is freed; the
limiting axis of a group is found.

**axis_motion_node, servo_motor and its controls** (`ethercat/src`). State: the
control in progress (position, velocity, timed motion), its intervals, targets
and sums of shifts, the mode machine of the drive, limit switches, emergency
stop. Operations: timed-shift, shift, move-to, spin, zerro, stop; the EtherCAT
cycle; drive up and drive fault. Correct when: no movement outlives the operation
of its drive, a movement ends where ordered, a stop shortens it and never turns
it back, the end is always reported and a blocked axis comes back.

**rcu_ctl, axis_panel_ctl** (`cnc/src`): the axis selected by hand, the filter
and timer of the wheel; two keys of the panel. Correct when the spin dies when
the wheel stands still, and only the selected axis spins.

**ethercat master**: one domain for all drives; holders of what is set and
reported. Correct when each order and report keeps its place and cycle, also
when frames reach some drives only.

**frequency_converter** (`modbus-rtu-master`): polls the device every 300 ms;
activate, deactivate, limits of power and current. Correct when the converter is
off unless told to work, and works within the limits.

**I/O units and their lines**: registers to ports and back; queues, timeouts,
retries, lost links. Correct when ports show what the last poll read, outputs are
those last asked for, an answer goes to the operation it belongs to, and no unit
is forgotten.

**lock system** (`lock-intervals`, `lock-flags`, `common/lockers.hpp`): each
parameter is normal, in warning or critical by the bounds of an interval or by a flag; a
subsystem is locked while one of its parameters is critical.

**cooling system** (`barrel-ctl`, `barrel-lvl-ctl`, `drainage-ctl`,
`diverter-valve-ctl`): heater and cooler of three tanks, refilling by amount,
drainage by two contacts, a valve positioned by its feedback with its pumps.

**panel logic**: mode and source of the hand, speed tables, buttons of two
modes, the contact of the inductor, conductors and their limits.

**programs** (`gui/.../auto-ctl-window`): the list of programs over two disks,
read asynchronously; the editor with a list of types and a list per type; the
page that follows a run; the **manual window** and the **frame** with its box.

**sys-emu**: registers of the units, the pages that show and change them, states
saved to files.

### What is hard here

Statuses, positions and commands travel separately and late: the same end of a
movement reaches auto_mode as a last position and as a wire status, and a status
of the last run can meet the listener of the next. Positions come every 300 ms
only, polls of units too: orders are decided by what was. A stop meets the end of
a movement on its way. A device of several fails while others are being switched.
Drives fail and come back between two phases, links between two writes. Inputs of
one decision come one by one and in any order. Numeric code (limits shared within
a group, ramps cut by a stop, counts in one byte, NaN) decides where the machine
ends. `PROJECT.json` lists 40 hazards at their lines, with the properties that
cover them and what is left uncovered.

## 2. The modules

| module | models | notes |
|---|---|---|
| `Vm` | the processor of programs, `vm.cpp`, `vm.hpp`, `program-phases.hpp` | operators only: the state is a record `vm`; the loops of the look-ahead are recursive functions |
| `AutoMode` | `auto-mode.cpp`, `internal-state-ctl.hpp` | one action per callback, one operator per state handler; the queues to the two wires are what it sends |
| `AutoSystem` | auto_mode with its operator, the axes side and stuff_ctl as its wires show them | the composition TLC checks; extends AutoMode, instantiates StuffSide |
| `ProgramRun` | nothing: the abstract run | phases in the order of the unfolded loops; AutoSystem refines it |
| `StuffSide` | nothing: the contract of stuff_ctl's wire | AutoSystem is built on it, StuffCtl implements it (proved) |
| `StuffCtl` | `stuff-ctl.cpp`, and the devices as their nodes answer (`sprayer-ctl.cpp`, `frequency-converter.cpp`, `cmd_spin`) | |
| `MultiAxisCtl` | `multi-axis-ctl.cpp` from a planned task on, with the axes behind their wires | |
| `MovePlan` | `multi-axis-ctl.cpp:225-335`: the split of a task into phases and groups | the order in which axes are taken (a hash map) is any |
| `AccelSearch` | the search for the limiting axis, `multi-axis-ctl.cpp:343-437` | exact arithmetic, or doubles that decide comparisons of equals |
| `TimedMotion` | `timed_motion`, `motion-controls.hpp:347-484`, with the cycle of `servo-motor.cpp` | integer ticks, half units of way |
| `ServoAxis` | one axis whole: `axis-motion-node.cpp`, `servo-motor.cpp`, `lc10e.cpp`, the three controls | places, not ramps; the drive is external |
| `RcuCtl` | `rcu-ctl.cpp`, `axis-panel-ctl.cpp` | |
| `LockSystem` | `lock-intervals.cpp`, `lock-flags.cpp`, `lockers.hpp` | one node, of either kind |
| `BarrelCtl`, `BarrelLvlCtl`, `DrainageCtl`, `DiverterValve` | the cooling system, a module per node | |
| `PanelNodes` | the nodes of the panel | |
| `FrequencyConverter` | `frequency-converter.cpp` and the converter on its line | |
| `IoUnits` | PR205-A1, A2, A14, BN, PLC110, PR200 | one machine; a record per unit says which bits, ports and lists it has |
| `RtuLine` | `modbus-rtu-master.cpp`, `modbus-unit.cpp` | see section 7 about the build |
| `TcpUnit` | `units-interaction.cpp` | the same |
| `EtherCatMaster` | the cycle of `ethercat.cpp`, `value-holder.hpp` | master and bus external |
| `AutoPage` | `auto-ctl-page.cpp`, `program-model-mode.cpp` | with the run as auto_mode reports it; instantiates Vm |
| `ProgramFiles` | `program-list-model.cpp` and the pages that open, copy and remove programs | one chain of reads per disk |
| `ProgramEditor` | `program.hpp`, `program-model-editor.cpp`, `editor-page.cpp`, the keyboard | refines `RowTable` |
| `RowTable` | nothing: a table of rows as the operator sees it | |
| `HandWindow`, `MainWindow` | tiles, dialog and sprayers of the manual window; labels and lock box of the frame | |
| `EmuRegisters`, `Emulator`, `EmuConverter` | the emulator: its tables, its units beside IoUnits, its converter beside FrequencyConverter | extend the modules of the clients |
| `MC_AutoSystem`, `MC_Motion`, `MC_Hand`, `MC_Nodes` | instances | the last three hold parts that share no state: a behaviour is about one of them, `focus` |
| `DataLemmas` | nothing: induction over numbers and finite sets, walks through queues, sums, queues of messages | section 5 |
| `*_proofs` | nothing: the theorems, a module per group of components | section 5 |

### State and actions against the code

`AutoMode`. `state` and `armed` are `internal_state_ctl`'s state and the call
postponed by `switch_to_state`; `StateCall` runs the handler (`SInitialize` ...
`SPauseDone`, one for each `s_...` method). `axisListener` and `stuffListener`
are the one-shot `std::function`s, named after the lambda that is stored;
`axisWire` and `stuffWire` are what the listeners saw last; `ictl` the input
wire. `fault` is an exception that leaves a handler of the processor: nothing in
the process handles it, so nothing happens after it. `program` is the uploaded
program, `phases` the copy the run executes. `outcome` and `executed` are history:
what the run came to, and each phase that was finished with the position at that
moment. `Activate`, `Deactivate`, `AxisStatus`, `StuffStatus`, `AxisPosition`,
`PauseTimer` and `UploadProgram` are the callbacks, whole: `SystemReadyMonitor`
and `StopExecution` are inside those that call them.

`AutoSystem` adds the queues back (`fromAxis` carries statuses and positions in
the order the process receives them: both go through the one bus server, and
`motion_done` publishes the last position before it makes the axis' wire ready,
from which the wire of multi_axis_ctl follows) and the
two sides. The axes side has the wire and `in_proc_` of multi_axis_ctl as one
variable `cncRun`: "moving" and "stopping" (axes in `in_proc_`), "coasting"
(still slowing down, no longer in `in_proc_`, because activate clears it first).
`truePos` is where the axes are; `CncAdvance` finishes one segment, `CncReport`
is the report every 300 ms, `FinalReports` the one of `motion_done`.

`StuffCtl`. `unit_t` is split by field into sets: `inUse`, `inActive`, `faulty`
(non-empty `emsg`), and `seen` is the wire as `node::is_active` sees it. `Serve`
takes a command, `UnitStatus(d)` is `ctl_fc_state`, `ctl_sp_state` and
`ctl_axis_state`; `Unit(d)` is the device. A rotating axis is switched off by an
*activation* "spin 0", so its wire stays active until it stands: that asymmetry
is why the model tells `Switches` from `SpinAxes`.

`MultiAxisCtl`. `axisPhases` and `inProc` are `axis_phases_` and `in_proc_`;
`AxisStatus(a)` is `wire_status_was_changed` with `ExecutePhase` and
`AxisBrokeOff` inside. At the axis, `at` is the phase its control executes and
`halting` the controls told to stop. The client is auto_mode reduced to its wire.

`MovePlan` runs the handler in its three stages: the steps of the task are read
into the phases of each axis, the phases that go together are joined into groups,
and each step gets the duration its slowest axis needs. `AccelSearch`:
`Round` is one turn of the loop, `MaxElement` is `std::ranges::max_element` (it
keeps the *first* of elements that compare equal) under `Less`, the comparison of
the code. `TimedMotion`: `Cycle` is one EtherCAT cycle (`next_position`, then
`is_active`), `Stop` is `reset`; a stage's duration and way are `idt` and `ids` as
in the code, including what a stop writes into them.

`ServoAxis`. `Update` is `servo_motor::update`, the whole of it: the mode machine,
the control in command, limit switches and emergency stop, the end of a movement.
`ctl` is the control in command, `byPosition` what the movement by position keeps
between its runs (target, sum of shifts, speed `v0`); `goal` is history. Each command is an
operator (`CmdMoveTo`, `CmdShift`, ...) with its refusals. The drive reads what it
is sent in a step of its own (`DriveReads`), so orders and states cross.

`RcuCtl`. `contacts` are the inputs, `filter` the last changes of the wheel
(`filter_`, shortened to `FilterLength`), `told` what each axis was last told.

`LockSystem`. `guards` and `guardedBy` are the two directions of the relation,
edited as the code edits them; `reassigned` remembers the subsystems a mask has
changed and the code has not evaluated. `BarrelCtl`: `inRange` is the method
pointer `in_range_`, `ports` the outputs. `DiverterValve`: `vaReal` is what the
feedback says. `BarrelLvlCtl`: `refilled` may be `Unknown`, as sums with NaN are.

`FrequencyConverter`. The queue of writes and the poll are apart: `fcStatus` is
the last poll, `device` the converter, and decisions are taken by the former.
`IoUnits`: `ioUnit` is one of the six records; `ioPort` what is published,
`ioRegs` and `ioOuts` the registers of the unit, `kept` the lists the code does
not forget on loss.

`ProgramFiles`. A disk has a chain of reads (`reader`), one file at a time, with
the file events still unseen; `records` is the list. `ProgramEditor`: `phases` and
`ops` are `program::phases` and the lists per type; `OpInfo` counts as `get_rid`
does. `AutoPage`: `repeated` are the passes as the page counts them, `passes` as
the mode makes them. `HandWindow`: `labels` is what the dialog shows, `handed` the
last order with the speed it had and the speed the operator saw. `Emulator`:
`emuShown` is what the pages show, `emuSaved` the file.

## 3. The bus and the environment

`libeng` is not in the repository, so what the nodes see of it is modelled from
how they use it, and the points the repository leaves open are constants, so
that a result names what it depends on:

| constant | meaning | runs |
|---|---|---|
| `EchoIdle` | does the deactivation of a wire that is not active answer with its status? | TRUE in `auto_live` and `cnc_tasks`, FALSE in the others; all properties but `OfferedAgain` hold with both values (see below); theorems: both |
| `PatientUser` | the operator starts a run only when the last one is at rest | TRUE; `ProcessorNeverThrows` and `PhasesAlwaysInPlace` assume TRUE, the other theorems of AutoSystem: both |
| `StaleButton` | "continue" may be pressed just after the pause ended, on a button that has not heard of it | FALSE; `RunAlwaysStoppable` assumes FALSE, the other theorems do not |
| `PatientClient` | a command starts a run or task only when the wire is at rest | TRUE; `FaultyNeverStarted` and the theorems of MultiAxisCtl assume TRUE, except `WireAlwaysTellsExecution`, for which it may be either, as for the other theorems of StuffCtl |
| `SlowDrive` | a drive that failed takes longer to come up than a message on the bus takes | TRUE; `WireAlwaysTellsExecution`: both; the other theorems of MultiAxisCtl assume TRUE |
| `SegmentsPerReport` | segments an axis may finish between two reports of its position | 1; 2 in `auto_lag`; `ProcessorNeverThrows` and `PhasesAlwaysInPlace` assume 1 |
| `Rounding` | may doubles decide a comparison of equals? | FALSE; TRUE in the observation of section 6; `SearchFindsBest` assumes FALSE |
| `LossReported` | does a plain input port deliver the loss of its source? | TRUE; theorems: both |
| `RepeatedOn` | may "on" be delivered to a tank that is on? | FALSE; `TankIsSafe` assumes FALSE |
| `EdgeReset`, `LastingFault` | does the drive clear a fault on the edge of the bit only; may its cause outlive the first reset? | FALSE, TRUE; theorems: both |
| `ReleaseFirst` | does a contact of the selector open before the next closes? | TRUE; `HandIsSafe` assumes TRUE |
| `SlowLine` | may the timer of a unit expire while it is still polled? | FALSE; theorems: both (`RtuSafe` leaves `AnswerFitsGroup` out when TRUE) |
| `EventsWhileReading`, `SecondCopy` | may a file change while one is read; may a copy be ordered while one runs? | FALSE; `EveryProgramListed` assumes the first |
| `StopBeforeLoop` | may a run be stopped in the row before a loop? | FALSE; `ScreensAlwaysShow` assumes FALSE |
| `SpeedLost` | may the port of the speed be empty while an axis may be driven? | FALSE; theorem: both (for `WindowShows`) |
| `BkiKeys` | keys of the port bki | 0, 1, 2, those of bki_ctl; `FrameAlwaysShows` and `ScreensAlwaysShow` assume them |

Where a constant is FALSE and the property fails with TRUE, section 6 says so.

`OfferedAgain` is the one property that needs `EchoIdle = TRUE`: `stop_execution`
forgets that the system was ready (`auto-mode.cpp:226`) and waits for the next
status of both wires. When a wire is already ready and its deactivation answers
nothing, as after the reject of a task, that status never comes and the button
stays dead. What libeng does here decides whether the machine can be started
again after a refused run.

Every refusal and failure is a nondeterministic choice with a bound. A wire
never loses, duplicates or reorders messages of one direction: it is a local
socket. Between two wires, and between a wire and the timers, every order is
possible. Modbus writes and EtherCAT frames may be lost. Positions inside a
segment are not told apart from its beginning.

`CHECK_DEADLOCK FALSE` is in every configuration that may come to rest: with the
commands and failures of the bounds spent, or a movement ended, nothing remains
to be done, and that is a legal end. Being stuck is caught by the liveness
properties instead.

## 4. The runs

**Passing.**

| run | states | what it shows |
|---|---|---|
| `auto_programs` | 1.3 M | `NoFault`: the processor never throws. `InPlace`: phases are finished where the program puts them (or one report later), and success means the whole way. `ImplementsProgramRun`: the run refines ProgramRun, so that the look-ahead skips and repeats nothing |
| `auto_live` | 260 k | `ListenersFollowState`, `StoppedMeansOff`, `RunIsStoppable` through stops, failures and restarts; under fairness `RunEnds` and `OfferedAgain` |
| `stuff_runs` | 58 k | `ActiveIsInUse`, `InactiveMeansOff`, `StoppedClientMeansOff`, `FaultyIsNeverStarted`, `FailureStopsAll`, the contract `ImplementsStuffSide`; under fairness `EndedRunIsNoticed` |
| `cnc_tasks` | 135 k | `WireTellsExecution`, `DrivenIsFollowed`, `StoppedClientMeansStill`, `PhasesInOrder`, `ReadyMeansDone`; under fairness `BlockedIsFreed` and `TaskIsAnswered` |
| `motion` | 220 k | `PlanIsTask`: phases and groups are the task, for every order of the axes. `SearchIsRight`: in exact arithmetic the search never throws, and what it finds respects every limit and is the fastest. `FollowsPlan`, `StopsShort`: a movement passes the ends of its intervals and ends where ordered, or within the interval in which it was stopped. `MotionEnds`: under fairness it ends |
| `hand` | 350 k | `HandSafe`: a movement is in command only of a motor in operation, a blocked wire is one a movement is ending on; a spin of the hand unit dies and is for the selected axis only. `EndsAtGoal`: an order ends where it was told. `AxisComesBack`: under fairness a blocked axis comes back after faults and stops |
| `nodes` | 970 k | `SubsystemsGuarded`, `NeverFreedWhileCritical` (locks); `BarrelSafe`, `PumpObeysContacts`, `PumpFitsValve`, `RefillSafe` (cooling); `DevicesSafe` (converter, units, lines, EtherCAT, emulator); `ScreensShow` (panel, page, manual window, frame); `ProgramsListed`; `ImplementsRowTable`: the editor refines RowTable |

`DevicesSafe` and `ScreensShow` are conjunctions, one part per component; each
part is commented in its module.

**Violated: where code and text disagree** (section "findings" of `PROJECT.json`
quotes both).

| run | property | what happens |
|---|---|---|
| `auto_lag` | `NoFault` | two segments end between two reports; `process_axis_positions` takes one phase per event, the rest is left when the axes are done, and `create_continuous_moving_list` throws |
| `accel_hang` | `SearchEnds` | with three axes max_element returns an axis already dropped, for ever |
| `timed_back` | `NeverTurnsBack` | a stop in the even stage of a negative movement jumps the wrong way |
| `hand_shift` | `ShiftMovesBy` | a shift is added to the target of the last movement by position, not to where the axis is |
| `editor_power` | `ShownIsStored` | the dialog of an fc operation opens in watts and stores kilowatts |

### Bounds, and why they are enough

* `auto_programs`: two axes, because joining movements depends on which axes move
  (one goes on, one joins, one stops); four programs chosen to reach every path
  of the look-ahead (loop inside a list, nested loops round an operation without
  movement, pauses with and without end, a move and its return, an unsupported
  phase); three commands (upload, start, stop or continue) and one failure, so
  that a run can be ended in every way. One run at a time is enough for these
  properties, which speak of the current run.
* `auto_live`: one axis, because the number of axes does not enter the listeners
  and wires, and three commands plus one failure: a run, its end, and the next
  run that meets what the first left.
* `stuff_runs`: one device of each kind (they differ in how they go off), two
  runs (what the first leaves meets the second), one operation between, one
  failure at any moment.
* `cnc_tasks`: two axes (one fails or finishes while the other goes on), up to two
  phases each (one between phases, one at its end), one task, stop and failure in
  any order. A second task multiplies the states without a new kind of meeting
  for a client that waits; the theorems cover any number of axes, phases, tasks,
  stops and failures.
* `motion`: all tasks of three axes and three steps, up to the names of the axes (an axis stays, leaves, comes
  back, joins late; a third one ties two groups together); groups of up to four
  axes, ways and limits 1 to 3: all orders of three different shares, and ties;
  two intervals, ramps and even stages up to 2 ticks (0 included), cycles of 1 or
  2 ticks: a cycle may pass a whole stage, and start times before, at and after
  the first cycles. `Horizon` = 30 ticks is more than twice the longest movement.
* `hand`: three places, shifts and timed shifts both ways, one fault (with a cause
  that may last); sums of shifts in 0..3 (`Reach`), one outside the travel; two
  axes, a filter of three places, changes of the wheel both ways.
* `nodes`: two parameters and two subsystems with masks of any kind, two sets of
  bounds (one with NaN); two registers of errors of the emulator's four (one
  error may stay or come back while another goes; `DevicesAreSafe` holds for any number);
  five temperatures around two intervals; amounts one report or several; one waiting write to the converter, none to the units (a
  write is on its way or not); two drives with one object each way; two units and
  two groups on the serial line; two groups and two waiting writes over TCP; one
  name of a program with two contents on two disks and two changes; three rows of
  three types and four changes; two axes in the window; the emulator follows one
  list of a unit at a time, chosen freely.

### Fairness

Weak fairness of: every receive and serve action (the event loop of each process
serves its sockets), the state call and the pause timer (the timers of the same
loop), the advance, report and end of moving axes and the update of a motor (the
EtherCAT cycle runs for ever), a stopping axis coming to rest, the drive reading
its control word, the cause of a fault going away, the handler that plans running to its end. No fairness for
commands of the operator, failures, recoveries, or for one of the two answers to a
task: nobody owes these. Weak is enough because every one of them stays enabled
until it is taken.

## 5. Proofs

TLAPS proves 23487 obligations. Parameters are arbitrary: any set of axes, any
programs, any devices, any number of commands and failures, and any value of the
flags of section 3 unless said otherwise.

| theorem | module | by |
|---|---|---|
| `ListenersAlwaysFollowState` | `AutoSystem_proofs` | `ListenersFollowState` is inductive by itself |
| `StoppedIsOff` | `AutoSystem_proofs` | `OffInv` = listeners, queues are sequences, `StoppedMeansOff` |
| `RunAlwaysStoppable` (assumes `StaleButton = FALSE`) | `AutoSystem_proofs` | with the listeners |
| `ProcessorNeverThrows` (assumes `PatientUser`, `SegmentsPerReport = 1`, finitely many axes, `[]ShortLists`) | `AutoSystem_proofs` | `InStep`, with the listeners; the look-ahead by induction over its recursion |
| `PhasesAlwaysInPlace` (the same assumptions) | `AutoSystem_proofs` | `PlaceInv`, with `InStep` and the listeners |
| `ActiveAlwaysInUse`, `StoppedClientIsOff` | `StuffCtl_proofs` | `ClientInv` |
| `InactiveAlwaysOff` | `StuffCtl_proofs` | `UnitInv` |
| `FaultyNeverStarted` (assumes `PatientClient`) | `StuffCtl_proofs` | `RefusalInv`, with `UnitInv`; a property of steps |
| `StuffCtlImplementsStuffSide` | `StuffCtl_proofs` | step by step, a step of StuffSide or a stutter |
| `WireAlwaysTellsExecution` | `MultiAxisCtl_proofs` | `WireInv` |
| `DrivenAlwaysFollowed`, `StoppedClientIsStill` (assume `PatientClient`, `SlowDrive`) | `MultiAxisCtl_proofs` | `FollowInv` |
| `PhasesAlwaysInOrder`, `ReadyIsDone` (same assumptions) | `MultiAxisCtl_proofs` | `PhasesInv`; the second is a property of steps |
| `SubsystemsAreGuarded`, `SubsystemsAreNotFreed` | `Parts_proofs` | `LockInv`; the second from it, step by step |
| `TankIsSafe` (assumes `~RepeatedOn`) | `Parts_proofs` | `BarrelInv` |
| `RefillIsSafe` | `Parts_proofs` | `RefillInv` |
| `PumpAlwaysFitsValve`, `DrainPumpObeysContacts` | `Parts_proofs` | inductive by itself; a property of steps |
| `EditorImplementsRowTable` | `Parts_proofs` | `EditInv`; step by step, a step of RowTable or a stutter |
| `HandIsSafe` (assumes `ReleaseFirst`) | `Hand_proofs` | `AxisInv`, `RcuInv` |
| `OrdersEndAtGoal` | `Hand_proofs` | a property of steps, from `AxisInv` and `GoalAhead` |
| `PlanMatchesTask` | `Motion_proofs` | `PlanInv` |
| `SearchFindsBest` (assumes `Rounding = FALSE`) | `Motion_proofs` | `SearchInv` |
| `MoveFollowsPlan` (assumes that the axis goes up or is not stopped) | `Motion_proofs` | `TimedInv` |
| `StopEndsShort` | `Motion_proofs` | a property of steps, from `TimedInv` |
| `ScreensAlwaysShow` (assumes `PlainPages`, keys 0..2) | `Nodes_proofs` | `PanelInv`, `PageInv`, `WindowInv`, `FrameInv` |
| `WindowAlwaysShows`, `FrameAlwaysShows` (assumes keys 0..2) | `Nodes_proofs` | the same for these two alone |
| `EveryProgramListed` (assumes `QuietReading`) | `Nodes_proofs` | `FilesInv` |
| `DevicesAreSafe` (assumes `OwnPlaces`) | `Nodes_proofs` | `DevicesInv`: the invariants of the next four and of the converter, `ConverterInv` and `EmuFcInv` |
| `MasterIsSafe` (assumes `OwnPlaces`), `TcpIsSafe` | `Nodes_proofs` | `MasterInv`, `TcpInv` |
| `UnitsAlwaysFollow`, `EmulatorAlwaysShows` | `Nodes_proofs` | `IoInv`; with `EmuInv` |
| `RtuIsSafe` | `Nodes_proofs` | `RtuInv` |

What the theorems assume of the constants is what the runs give them, and where
the assumption fails the property does too: `~RepeatedOn`, `ReleaseFirst`,
`Rounding = FALSE`, the keys, `QuietReading` (no file changes while one is read,
finitely many names) and `PlainPages` are points of section 6, and "up or not
stopped" is the finding `timed_back`. `OwnPlaces` is what the code registers.

Two theorems state a property that leaves a case out, which section 6 names:
`SubsystemsAreGuarded` the subsystems whose lockers a new mask changed
(`reassigned`), `DevicesAreSafe` a converter stopped before a poll has seen it
start (`doubt`).

`ProcessorNeverThrows` and `PhasesAlwaysInPlace` assume what keeps the processor in step: an operator who
waits for the axes to rest, a report from every segment (`SegmentsPerReport = 2`
is the finding `auto_lag`), and `ShortLists`, that no moving list has 256
moves (its byte would announce 0, section 6). Its programs are any that satisfy
`IsProgram` (`ProgramsAssumption`): rows of the known types whose loops jump upwards.

*Why the invariants are what they are.* `StoppedMeansOff` says that a run that is
over has the deactivation *last* in its queue or, when the queue is served,
nothing on. It is kept because `stop_execution` is the only way to state "null"
and sends both deactivations (`NodeSends`: a step of the node that leaves the
state alone sends nothing in it), and because a served deactivation leaves
nothing on. That needs the listeners: a status that reached a listener in state
"null" could send a command after the deactivation.

`InStep` says what makes `NoFault` true: the processor counts the segments of a
moving list by the positions it is told, the axes by what they travel, and the
two may differ by one. Its first part is about the list: after a look-ahead there
is one phase to execute for each move and one to resume from, and the moves are a
chain in which every axis goes on in its direction or stands still from the start.
That is what `create_continuous_moving_list` computes; `NextOperationEnds` and
`CollectedEnds` show by induction over the rows of a program, and over the moves collected,
that the recursion ends in a list of that form (`ListIs`). The second part is about
a list that is being travelled. It says for each message under way what the
processor will know and which segment it will have detected once the message is read;
the axes are in the segment it will have reached when all are read, or one further, and
then some axis that moves in that segment has not told yet, so that the
axes cannot leave it (`SegmentsPerReport`). The last segment is not detected by
position, and the success status that ends it stands behind the final reports
of all axes, so that it finds one phase left: the one to resume from. For a task
that is still on its way, was refused or was stopped the messages bring nothing that is
detected, or the status ends the run first.

`PlaceInv` adds the places to `InStep`. `Done` is the position to which the phases
executed so far lead, by the definition over the program (`ProgramPosition`); the next
phase is executed at `Done` or one phase later. At rest the axes are at `Done`
(`Rests`). While a list is travelled, segment i of what is left to detect leads on from
the phases executed (`IsPlan`), the axes are at the end of some segment x (`Near`), and
a segment that is detected must be the last one travelled or the one before it. Three
things make that so. No axis turns back within a list, so "has reached" is an order
along the way of each axis (`Behind`, with `Onward` and `OneMove`), and what an axis
told never lies ahead of where it is (`Within`). While the axes move, an axis without a
report under way was told to be where it is or one segment back, and one with a report under
way is heard at most one more behind (`Follows`): an axis has at most one report
under way (`Once`). Hence the processor is at most two segments behind, and then only
while a report of the missing segment is under way; that the axes cannot enter a third
is `NotLeft`, that one report does not detect two segments is `NextNotLeft`. After the end
only the final reports may tell an axis twice, and the status stands behind them. A
run that is done leaves nothing but the deactivation in the queue, so the axes stay
(`Over`).

`ClientInv` needs more than `ActiveIsInUse`: "prepare" overwrites `in_use`
without looking at `in_active`, so the inductive part is that a "prepare" in the
queue stands behind a deactivation or meets a node with nothing active
(`PrepareIsClean`), and that an idle client's last command is a deactivation or,
when it has been served, nothing is reserved or active (`IdleIsClean`).

`UnitInv` adds that a blocked device is off (`BlockedIsOff`: it will refuse the
"off" command) and that the queues of the devices are sequences (`Wires`).

`RefusalInv` says that a run that is refused stays refused: while its "prepare" is on
the way, or a reserved unit has an error, the client has sent no operation and is told
nothing that would make it send one (`RefusedRests`). A "prepare" is the first command in the
queue (`OnePrepare`, from `PatientClient`), so it is served before anything of its
run; an error that comes after it ends the run, and with it what stuff_ctl reserves.

`WireInv` is `WireTellsExecution` with `TasksHaveAxes`: a task in the queue names
at least one axis. For a task without axes the code would be active for ever
with nobody executing; auto_mode never sends one (a moving list whose positions do
not change is executed without multi_axis_ctl).

`FollowInv` counts what is under way between multi_axis_ctl and an axis that is not
blocked: at most one thing. The phase it was sent is in its queue, or executed,
or its end is on the way back (`OneOrder`); besides, only stops and the answer
"active" travel. The end is what makes the node forget the axis or send the next
phase, so an axis the node does not follow has nothing to execute (`NotFollowed`).
A failed drive breaks the count: its failure is the last status on its way or the
status the node sees (`FaultIsTold`), and with `SlowDrive` it does not come up
before the queues are empty. On the client's side a task on its way is the first command
and finds a node at rest whose answers were all read (`TaskFindsRest`,
`PatientClient`).

`PhasesInv` adds the numbers: the phase on its way or executed is the one after the
last done; while the wire is active it is the one the node counts, and an end on its way
back without an error says that it is done (`InStep`). An axis the node has dropped
while active has done its whole list. An end on its way belongs to the last phase
sent even if the drive has failed since (`EndOnce`): otherwise the next task could
take an old end for that of its first phase.

`BarrelInv` ties each output to the state that owns it ("heat" only in
`in_heater_range`, "cool" only in `in_cooler_range`) and says that a state other
than "off" has a reading: every method of the code drops exactly the output of the
state it leaves. That is where a second "on" breaks the argument.

`RefillInv` adds that a running order has no outcome yet and that the sum poured
is a number unless the order was started blind.

`LockInv` adds that an interval's reading is its source. The status of a locker is
always the judgement of its last value under its last settings, so that a
subsystem can be judged by its lockers alone; `NeverFreedWhileCritical` then needs
no history of the masks.

`MasterInv`: the image holds `askedBefore` at the place of every entry, and what
was asked since waits in the holders. `OwnPlaces` says that the place of an entry
is its own (one registration per object and drive), that places are of entries, and
that no object is both sent and reported; the code registers the objects of
a drive from two lists without a common member.

`TcpInv`: a unit without stream has nothing under way; a lost one is stuck with
the operation that failed; what was sent is at the head of the queue that
`immediate` names. The last is why writes queued meanwhile do no harm.

`AxisInv`: the control in command belongs to the mode the motor is in, and what a
movement by position keeps between its runs (target, sum of shifts, speed) is
whole. A movement is in command only while the motor is in operation, because
every way out of it (fault, stop, limit switch) takes the control away in the same
update. `GoalAhead` follows an order through its runs: as long as no other order came,
the target of the run in command, or the one the shifts add up to, is the goal. `RcuInv`
needs `OneContact`: the axis selected is the one of the only contact closed.

`PlanInv` is a statement per stage of the handler: what the phases of an axis hold
after the steps read so far (each move once, in its step, `PhaseOf`), that
the groups formed so far are those axes that start together and go equally far
(`AllGroups`), and that a step whose duration was computed has it for all its axes.
Both loops of the code form groups; that they find the same ones is proved from the
first two parts, by induction over the steps of the task.

`SearchInv`: an axis that exceeds its limit at the present share is still a candidate.
When the candidates are used up nobody exceeds, and the share is the limit of the one
found last. With doubles that may decide a comparison of equals either way the
axis just taken can stay above its own limit: `Rounding`.

`TimedInv` says where the axis is at any time inside an interval: `Reach` of the time
since its start, which is monotone and ends at the way of the interval. What
was done before is the sum of the finished ones (`Total`), by the lemmas on sums. A
stop replaces the plan of the interval, so `Sound` separates the movements
that have a plan to follow from those that were stopped while going down.

`PanelInv` ties each published value to the inputs that select it; `PageInv` says
that the row the page marks is the phase of the run and no loop, that a stopped
run is not above a loop, and that the passes counted are those made. The page infers a
pass from two rows (`set_phase_id`: a row above the last one means that the
loop between them was passed). When a loop follows another at once, or leads
back to one, one change of row stands for two events and the
inference is wrong; hence `PlainPages`, which asks that loops lead back to a row that
is no loop and do not follow each other.

`EditInv`: the editor keeps the types of the rows in one list and the operations of each type
in a list of its own, and finds the operation of a row by counting the rows of its type up to it
(`RowsUpto`). The lists are in step (`InStepWith`): each list of operations is as long as there are
rows of its type. Inserting, removing or changing the type of a row moves that
count for the rows below it by one, just as the list moves its entries; the lemmas say what the
table shows after each. Besides, loops name rows, in memory and in the file, and an open
keyboard is about the row it was opened for (`KeyboardOpen`).

`FilesInv`: every file of a disk is *covered*. It is in the list with its contents, or
its name is still in the events or among the names the reader has to read, or the directory
itself has to be read. A reader's step moves a file from one of these to another.
The list is complete when nothing is left but the first. A change told while a file
is being read may lose one, hence `QuietReading`.

`ConverterInv` looks at the *last* word of the queue of writes: while the wire is not
active and the status is not in doubt, the queue ends in a stop, or the device is off
and no start waits (`EndsStopped`); while the link is up the last set value in
the queue, or the device's when there is none, is the one that rules (`EndsSet`). A
write that goes out or is lost keeps both. `EmuFcInv` adds that the emulated
converter works only by a start that came with a reset, that an error stands just while
a mask is set, and that the register of a mask that is set is set too.

`IoInv` has two halves. `PollInv`: an item that was read since the last change holds its
register. `WriteInv`: of each bit of an output, the last write in the queue that
touches it has what the image has, or none does and the unit has it already
(`Arrives`); the image is what the ports ask for. Only the PLC is told again when the
link comes back. That no bit belongs to two outputs, nor to the "on" and "off" mask of
different ones, is computed from the tables of the six units
(`OutputsFit`), and so is what the pages of the emulator show (`PagesFit`). `EmuInv` adds that
what is saved is a level of its register.

`RtuInv` counts reads: a unit has at most one, in the queue or planned by the timer of
an answer, and a queued one is of the group the unit is at (`OneRead`). When
the third failure takes the unit off the line all its operations go
(`Without`, a recursive function: the lemmas on walks say that the others stay in
their order), so the timer finds it with none. `SlowLine` breaks just this.

*Only model-checked.* Liveness (under fairness, out of the prover's reach).
`ImplementsProgramRun` of the automatic mode: that the phases executed are those of the
unfolded program (`Trace`), in its order. `PhasesAlwaysInPlace` says where each is
executed, not which one comes next. `Trace` is a recursive function over spans of
rows, so that induction over its range (`NumberInduction`, `SetInduction` and
`TailRecursion` of `DataLemmas`, from which the sums, walks, searches
and the look-ahead above are proved) can reach it, and it is the next step of the plan.
The library's induction theorems
take an operator as parameter, which the provers cannot instantiate; where the
statement is membership in a set, as in `DataLemmas`, they can.

## 6. Observations that are not findings

Met while modelling; they depend on the bus, on the operator or on the device, or
contradict no text of the repository (one does, and is marked). Those with a constant were confirmed by
TLC with the other value of the constant.

*Automatic mode and axes*

* "Continue" pressed twice in an endless pause: the second is rejected, the wire
  becomes ready while the program runs, and a stop is no longer delivered
  (`StaleButton = TRUE` violates `RunIsStoppable`).
* stuff_ctl compares a late status with the present flag: if the bus delivers
  every intermediate status, two operations that switch one sprayer on and off
  end the run as if it had failed.
* A stop that meets the end of the movement is accepted by an axis that stands,
  without an answer. If the bus then keeps its wire active, every later task with
  this axis is refused.
* A task that comes before the last is at rest makes multi_axis_ctl clear
  `in_proc_` first: axes may move that it does not follow. auto_mode does not
  send one (`PatientUser`).
* A drive that fails and comes up while a timed-shift is on its way would take
  it although multi_axis_ctl has given the axis up (`SlowDrive`).
* 256 moves of one list are announced as 0 (`vm.cpp:352`, one byte).
* Two axes of equal ways and limits: rounding may drop both from the search, and
  activate throws (`Rounding = TRUE`, `multi-axis-ctl.cpp:424`).
* The stage that slows down is computed from the end speed of the interval: it
  speeds up from 0 and stops at once (`motion-controls.hpp:443`); only its end is
  right.
* `velocity_motion` chooses the sign of its acceleration the wrong way round and
  so has no ramp (`motion-controls.hpp:285`). Shifts pile up while an axis moves
  (`motion-controls.hpp:48`).
* The ratio of a motor is taken from the configuration only in `turning_on`.
* When the selector of the hand unit goes from one axis to another without a
  pause, the first goes on turning (`ReleaseFirst = FALSE` violates `OneToOne`,
  `rcu-ctl.cpp:74`).

*Devices*

* A converter that is started and stopped before the next poll is not stopped
  (`StopIsObeyed`, `frequency-converter.cpp:100`; `DevicesSafe` leaves this case
  out). A smaller limit of a new inductor is not written while the sets of a
  program are in force.
* A second "on" while a tank is heated forgets the heater (`RepeatedOn = TRUE`).
* "Sensor min: switch the pump off" says the comment of `drainage-ctl.cpp:11`. The
  event that reports the minimum only leaves `level_max` and switches nothing: the
  pump goes on until the contact opens and closes once more. Here code and comment disagree: the disagreement is stated
  as `MinStopsPump` in DrainageCtl, and no run shows it; `PumpObeysContacts` is what holds.
* A refill ordered while the flow is unknown ends at once as done.
* A lost flag of lock_flags reads as TRUE (`lock-flags.cpp:27`). Subsystems that a
  new mask leaves or joins are not evaluated (`lockers.hpp:87`).
* PR205-BN and PR200 do not forget some lists when the link is lost; a PR205 is
  not told again what was asked while it was offline.
* A timer that brings a unit back while it is still polled puts two reads of it in
  the queue; the second answer is read as the wrong group (`SlowLine = TRUE`
  violates `AnswerFitsGroup`). A system error of the port stops the line for ever
  (`modbus-rtu-master.cpp:163`). The comment "to the end of the queue" (line 136)
  is not what the code does: a failed operation stays in front.
* A TCP connection that is lost is never made again, and writes pile up
  (`units-interaction.cpp:175`).
* One drive off the bus stops the exchange of all (`ethercat.cpp`, working counter
  incomplete); a holder of a reported value is not initialized before the first
  cycle (`value-holder.hpp:91`).

*Programs and windows*

* A change reported while a file is being read, and a second copy while one is
  under way, lose a program or start a request twice (`EventsWhileReading`,
  `SecondCopy`). "Play" takes whatever program has the name at that moment
  (`PlaysWhatWasEdited`, `editor-page.cpp:320`).
* The page counts passes of loops by itself: two loops in a row and a stop in the
  row before a loop leave it behind (`program-model-mode.cpp:54`,
  `StopBeforeLoop = TRUE` violates `PassesShown`). Leaving the page clears the
  program, also while it runs.
* A lost port of a speed leaves NaN in the dialog of the axes, and the axis takes
  its greatest speed (`SpeedLost = TRUE` violates `SpeedIsNumber`;
  `motion-controls.hpp:116` takes `std::min(vmax, NaN)`). The dialog shows the
  speed of a rotating axis in degrees per second where the tile divides by 6.
* A key of bki the frame does not know leaves the box as it was.

*Emulator*

* The reset of the converter clears the masks of the page and not their four registers
  (`frequency-converter-page.cpp:119-129`): when the next error comes the node reads the
  old ones along with it. `NoErrorHidden` is the half that holds: no error of the
  page is missing in the registers. After an error the device
  passes on only a word that differs, so that the same start is not obeyed
  (`StartIsObeyed`, `base-device.cpp:54`).
* The lamp and the button of a valve show the same commanded position crossed;
  polls may be answered before the saved state is loaded.

## 7. Not modelled

* The times of a group beyond which axis limits and how long a step takes
  (`multi-axis-ctl.cpp:443-760`), and the ramps of position and velocity motion:
  real arithmetic, of which the models keep places, order and ends.
* TimedFC and centring phases: auto_mode ends the run at them (phase `Other`).
* SDO transfers, distributed clocks and scheduling of the EtherCAT process, JSON
  and byte formats, fonts, tables, sorting: input, output and layout. The widgets
  of the GUI that show one port, login, journal and settings.
* `panel-button-ctl` and `emg-ctl` pass one input on and keep nothing.
* `worker`, the earlier single-process program: it is not in the top
  CMakeLists.txt, its start is commented out in `post-initialize.sh`, and it
  includes headers the repository does not have.
* `position-ctl.cpp`, `http-server.cpp`, `unit-conf-loader.cpp` (not built),
  `tooth-center-search.cpp` (commented out), the system image.

`modbus-rtu-master.cpp`, `modbus-unit.cpp` and `units-interaction.cpp` are modelled
although no CMakeLists.txt builds them: the nodes now take the class they use from
libeng (`eng/modbus/unit.hpp`), and these files are the only text of that
behaviour the repository has.

## 8. Plan

Done: the automatic mode with its refinement, stuff_ctl with its contract,
multi_axis_ctl and the split of tasks, an axis whole and the hand unit, locks,
cooling, panel, converter, I/O units and their lines, the EtherCAT cycle,
programs, page, windows and emulator; proofs of all safety invariants the runs check.

Next, in this order:

1. **CncSide**: the contract of multi_axis_ctl's wire as AutoSystem uses it, like
   StuffSide; MultiAxisCtl implements it (checked, then proved), with its axes
   replaced by ServoAxis' contract.
2. **Proofs**: `ImplementsProgramRun`, with lemmas on the unfolded loops.
3. **A composed hand**: RcuCtl and the panel driving ServoAxis over its wire, with
   the switch between hand, panel and program of PanelNodes.
4. **Several sprayers and two rotating axes** in StuffCtl, once the runs leave
   room.
