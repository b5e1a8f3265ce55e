------------------------------ MODULE AutoMode ------------------------------
(***************************************************************************)
(* The automatic mode node (src/src/core/src/auto-mode/auto-mode.cpp): it   *)
(* runs a program by driving two other nodes over the bus, the axes         *)
(* ("axis" wire, multi_axis_ctl) and the devices ("stuff" wire, stuff_ctl). *)
(*                                                                         *)
(* One action per handler: the activate and deactivate handlers of the      *)
(* input wire, the status handlers of the two output wires, the program     *)
(* port, the position ports, the pause timer, and one action per state      *)
(* method s_*, called by the one-shot timer that switch_to_state arms.      *)
(* What the handlers send is appended to the queue of its wire; the other   *)
(* ends are in AutoSystem.                                                 *)
(***************************************************************************)
EXTENDS Vm

CONSTANTS
  Programs,           (* the programs the operator may upload                *)
  NoProgram           (* the empty program port                              *)

VARIABLES
  program,            (* program_b64_: the uploaded program, or NoProgram    *)
  phases,             (* phases_: the program being run                      *)
  vm,                 (* vm_                                                 *)
  state,              (* isc_.state_                                         *)
  armed,              (* isc_.state_call_timer_ is set                       *)
  pauseTimer,         (* pause_timer_ is running                             *)
  axisListener,       (* axis_ctl_listener_                                  *)
  stuffListener,      (* stuff_ctl_listener_                                 *)
  systemReady,        (* system_ready_                                       *)
  ictl,               (* status of the input wire                            *)
  axisWire,           (* last status received on the "axis" wire             *)
  stuffWire,          (* last status received on the "stuff" wire            *)
  known,              (* axis_real_pos_: last position received per axis     *)
  initial,            (* axis_initial_pos_                                   *)
  toAxis,             (* commands on their way to multi_axis_ctl             *)
  toStuff,            (* commands on their way to stuff_ctl                  *)
  fault,              (* the processor threw: no handler catches             *)
  outcome,            (* history: how the run stands                         *)
  executed            (* history: the phases executed, and where the axes    *)
                      (* really were, relative to initial                    *)

stateVars == <<state, armed>>
listeners == <<axisListener, stuffListener>>
wires     == <<axisWire, stuffWire>>
sent      == <<toAxis, toStuff>>
history   == <<outcome, executed>>
autoVars  == << program, phases, vm, stateVars, pauseTimer, listeners,
                systemReady, ictl, wires, known, initial, sent, fault, history >>

Statuses == {"blocked", "ready", "active"}

States == { "null", "wait_stuff_activated", "initialize", "loop",
            "init_pause", "pause", "infinity_pause", "pause_done",
            "execute_operation", "start_moving", "moving_done" }

(* Commands on the output wires.                                           *)
Prepare == [cmd |-> "prepare"]
StuffTask(pid) == [cmd |-> "operation", phase |-> pid]
AxisTask(task) == [cmd |-> "move", task |-> task]
Deactivation == [cmd |-> "deactivate"]

AutoInit ==
  /\ program = NoProgram
  /\ phases = <<>>
  /\ vm = Initialize(<<>>)
  /\ state = "null" /\ armed = FALSE
  /\ pauseTimer = FALSE
  /\ axisListener = "none" /\ stuffListener = "none"
  /\ systemReady = FALSE
  /\ ictl = "blocked"
  /\ axisWire = "blocked" /\ stuffWire = "blocked"
  /\ known = Still
  /\ initial = Still
  /\ toAxis = <<>> /\ toStuff = <<>>
  /\ fault = FALSE
  /\ outcome = "idle" /\ executed = <<>>

-----------------------------------------------------------------------------
(* switch_to_state: enter the state and arm the one-shot call of its method *)
SwitchTo(s) ==
  /\ state' = s
  /\ armed' = (s # "null")

(* Mutant: the monitor answers during a run as well.                       *)
SystemReadyMonitor_WhileRunning(uploaded, axis, stuff) ==
  LET ready == uploaded # NoProgram /\ axis = "ready" /\ stuff = "ready"
  IN  IF systemReady = ready
      THEN UNCHANGED <<systemReady, ictl>>
      ELSE /\ systemReady' = ready
           /\ ictl' = IF ready THEN "ready" ELSE "blocked"

(***************************************************************************)
(* system_ready_monitor, called after every status of an output wire and    *)
(* every upload: when no program runs, tell the operator's side whether one *)
(* could be started, but only when the answer changes.                      *)
(***************************************************************************)
SystemReadyMonitor(uploaded, axis, stuff) ==
  LET ready == uploaded # NoProgram /\ axis = "ready" /\ stuff = "ready"
  IN  IF state # "null" \/ systemReady = ready
      THEN UNCHANGED <<systemReady, ictl>>
      ELSE /\ systemReady' = ready
           /\ ictl' = IF ready THEN "ready" ELSE "blocked"

(* Mutant: the pause timer is not stopped. *)
StopExecution_TimerRuns(result) ==
  /\ UNCHANGED pauseTimer
  /\ axisListener' = "none" /\ stuffListener' = "none"
  /\ toAxis' = Append(toAxis, Deactivation)
  /\ toStuff' = Append(toStuff, Deactivation)
  /\ ictl' = "blocked"
  /\ systemReady' = FALSE
  /\ SwitchTo("null")
  /\ outcome' = result

(* Mutant: the devices are not deactivated. *)
StopExecution_DevicesOn(result) ==
  /\ pauseTimer' = FALSE
  /\ axisListener' = "none" /\ stuffListener' = "none"
  /\ toAxis' = Append(toAxis, Deactivation)
  /\ UNCHANGED toStuff
  /\ ictl' = "blocked"
  /\ systemReady' = FALSE
  /\ SwitchTo("null")
  /\ outcome' = result

(* Mutant: system_ready_ keeps its value. *)
StopExecution_ReadyKept(result) ==
  /\ pauseTimer' = FALSE
  /\ axisListener' = "none" /\ stuffListener' = "none"
  /\ toAxis' = Append(toAxis, Deactivation)
  /\ toStuff' = Append(toStuff, Deactivation)
  /\ ictl' = "blocked"
  /\ UNCHANGED systemReady
  /\ SwitchTo("null")
  /\ outcome' = result

(***************************************************************************)
(* stop_execution: timers, listeners and both output wires go off; the      *)
(* input wire is blocked until a later status of an output wire makes       *)
(* system_ready_monitor release it.                                        *)
(***************************************************************************)
StopExecution(result) ==
  /\ pauseTimer' = FALSE
  /\ axisListener' = "none" /\ stuffListener' = "none"
  /\ toAxis' = Append(toAxis, Deactivation)
  /\ toStuff' = Append(toStuff, Deactivation)
  /\ ictl' = "blocked"
  /\ systemReady' = FALSE
  /\ SwitchTo("null")
  /\ outcome' = result

(* execute_operation: hand the devices' settings of phase pid to stuff_ctl *)
ExecuteOperation(pid, where) ==
  /\ toStuff' = Append(toStuff, StuffTask(pid))
  /\ executed' = Append(executed, [phase |-> pid, at |-> where])

(* The processor throws: the handler is left and the node never runs again *)
Throw ==
  /\ fault' = TRUE
  /\ UNCHANGED << program, phases, vm, stateVars, pauseTimer, listeners,
                  systemReady, ictl, wires, known, initial, sent, history >>

-----------------------------------------------------------------------------
(* The program port.                                                       *)
UploadProgram(p) ==
  /\ program' = p
  /\ SystemReadyMonitor(p, axisWire, stuffWire)
  /\ UNCHANGED << phases, vm, stateVars, pauseTimer, listeners, wires, known,
                  initial, sent, fault, history >>

(***************************************************************************)
(* activate(): continue after an endless pause, refuse while running, or    *)
(* load the program and ask stuff_ctl to prepare.  The refusal is an answer *)
(* on the wire that carries the run: the wire is "ready" afterwards.       *)
(***************************************************************************)
Activate ==
  /\ \/ /\ state = "infinity_pause"
        /\ pauseTimer' = FALSE
        /\ SwitchTo("pause_done")
        /\ ictl' = "active"
        /\ UNCHANGED <<phases, stuffListener, toStuff, history>>
     \/ /\ state \notin {"infinity_pause", "null"}
        /\ ictl' = "ready"
        /\ UNCHANGED <<phases, stateVars, pauseTimer, stuffListener, toStuff,
                       history>>
     \/ /\ state = "null"
        /\ phases' = program
        /\ toStuff' = Append(toStuff, Prepare)
        /\ SwitchTo("wait_stuff_activated")
        /\ stuffListener' = "activation"
        /\ ictl' = "active"
        /\ outcome' = "running" /\ executed' = <<>>
        /\ UNCHANGED pauseTimer
  /\ UNCHANGED <<program, vm, axisListener, systemReady, wires, known, initial,
                 toAxis, fault>>

(* The deactivate handler: the operator's stop.                            *)
Deactivate ==
  /\ state # "null"
  /\ StopExecution("stopped")
  /\ UNCHANGED <<program, phases, vm, wires, known, initial, fault, executed>>

(***************************************************************************)
(* A status arrives on the "axis" wire.  The listener is taken out before   *)
(* it is called: "started" expects the wire to be active and leaves "done"; *)
(* "done" expects it ready with no error.                                  *)
(***************************************************************************)
AxisStatus(status, err) ==
  /\ axisWire' = status
  /\ CASE axisListener = "none" ->
            /\ SystemReadyMonitor(program, status, stuffWire)
            /\ UNCHANGED <<stateVars, pauseTimer, listeners, sent, outcome>>
       [] axisListener = "started" /\ status = "active" ->
            /\ SystemReadyMonitor(program, status, stuffWire)
            /\ axisListener' = "done"
            /\ UNCHANGED <<stateVars, pauseTimer, stuffListener, sent, outcome>>
       [] axisListener = "done" /\ status = "ready" /\ ~err ->
            /\ SystemReadyMonitor(program, status, stuffWire)
            /\ axisListener' = "none"
            /\ SwitchTo("moving_done")
            /\ UNCHANGED <<pauseTimer, stuffListener, sent, outcome>>
       [] OTHER -> StopExecution("stopped")
  /\ UNCHANGED <<program, phases, vm, stuffWire, known, initial, fault, executed>>

(***************************************************************************)
(* A status arrives on the "stuff" wire.  "activation" waits for the answer *)
(* to "prepare"; "watch", set again after every status, stops the program   *)
(* at any error of a device.                                               *)
(***************************************************************************)
StuffStatus(status, err) ==
  /\ stuffWire' = status
  /\ CASE stuffListener = "none" ->
            /\ SystemReadyMonitor(program, axisWire, status)
            /\ UNCHANGED <<stateVars, pauseTimer, listeners, sent, outcome>>
       [] stuffListener = "activation" /\ status = "active" ->
            /\ SystemReadyMonitor(program, axisWire, status)
            /\ SwitchTo("initialize")
            /\ stuffListener' = "watch"
            /\ UNCHANGED <<pauseTimer, axisListener, sent, outcome>>
       [] stuffListener = "watch" /\ ~err ->
            /\ SystemReadyMonitor(program, axisWire, status)
            /\ UNCHANGED <<stateVars, pauseTimer, listeners, sent, outcome>>
       [] OTHER -> StopExecution("stopped")
  /\ UNCHANGED <<program, phases, vm, axisWire, known, initial, fault, executed>>

(***************************************************************************)
(* The position port of an axis.  In s_start_moving a reached segment moves *)
(* the program to its next phase: at most one phase per position received.  *)
(***************************************************************************)
AxisPosition(axis, position, where) ==
  LET real == [known EXCEPT ![axis] = position]
      prog == [a \in Axes |-> real[a] - initial[a]]
  IN  /\ IF state = "start_moving" /\ CheckInPosition(vm, prog)
         THEN /\ vm' = ToNextPhase(vm)
              /\ ExecuteOperation(OpPhaseId(ToNextPhase(vm)), where)
         ELSE UNCHANGED <<vm, toStuff, executed>>
      /\ known' = real
      /\ UNCHANGED << program, phases, stateVars, pauseTimer, listeners,
                      systemReady, ictl, wires, initial, toAxis, fault, outcome >>

(* The pause timer fires: it stops itself and the program goes on.         *)
PauseTimer ==
  /\ pauseTimer
  /\ pauseTimer' = FALSE
  /\ SwitchTo("pause_done")
  /\ UNCHANGED << program, phases, vm, listeners, systemReady, ictl, wires,
                  known, initial, sent, fault, history >>

-----------------------------------------------------------------------------
(* The state methods, called once after switch_to_state.                   *)

Called(s) == armed /\ state = s

(* Methods that only log.                                                  *)
Idle ==
  /\ armed /\ state \in {"wait_stuff_activated", "pause", "infinity_pause"}
  /\ armed' = FALSE
  /\ UNCHANGED << program, phases, vm, state, pauseTimer, listeners,
                  systemReady, ictl, wires, known, initial, sent, fault, history >>

(* The current positions become the origin of the program.                 *)
SInitialize ==
  /\ Called("initialize")
  /\ vm' = Initialize(phases)
  /\ initial' = known
  /\ SwitchTo("loop")
  /\ UNCHANGED << program, phases, pauseTimer, listeners, systemReady, ictl,
                  wires, known, sent, fault, history >>

(***************************************************************************)
(* The main loop: step to the resume phase, look ahead from it, and choose  *)
(* the state that executes what was found.                                 *)
(***************************************************************************)
SProgramExecutionLoop ==
  /\ Called("loop")
  /\ LET resumed == ToNextPhase(vm)
         ahead   == CreateContinuousMovingList(phases, resumed)
         kind    == Phase(phases, resumed.phase_id).kind
     IN  IF vm.ops = <<>> THEN Throw
         ELSE IF IsProgramDone(phases, resumed.phase_id)
         THEN /\ vm' = resumed
              /\ StopExecution("done")
              /\ UNCHANGED <<program, phases, wires, known, initial, fault,
                             executed>>
         ELSE IF resumed.ops # <<>> THEN Throw
         ELSE IF ahead.moves = <<>> /\ kind = "other"
         THEN /\ vm' = ahead
              /\ StopExecution("stopped")
              /\ UNCHANGED <<program, phases, wires, known, initial, fault,
                             executed>>
         ELSE /\ vm' = ahead
              /\ SwitchTo(IF ahead.moves # <<>> THEN "start_moving"
                          ELSE CASE kind = "operation" -> "execute_operation"
                                 [] kind = "pause"     -> "init_pause"
                                 [] OTHER              -> "loop")
              /\ UNCHANGED << program, phases, pauseTimer, listeners,
                              systemReady, ictl, wires, known, initial, sent,
                              fault, history >>

(* Mutant: the pause timer is not started.                                 *)
SInitPause_NoTimer(where) ==
  /\ Called("init_pause")
  /\ UNCHANGED pauseTimer
  /\ SwitchTo(IF Phase(phases, vm.phase_id).msec # 0 THEN "pause"
                                                     ELSE "infinity_pause")
  /\ executed' = Append(executed, [phase |-> vm.phase_id, at |-> where])
  /\ UNCHANGED << program, phases, vm, listeners, systemReady, ictl, wires,
                  known, initial, sent, fault, outcome >>

(* A pause of 0 ms lasts until the operator continues.                     *)
SInitPause(where) ==
  /\ Called("init_pause")
  /\ LET msec == Phase(phases, vm.phase_id).msec
     IN  /\ pauseTimer' = (msec # 0)
         /\ SwitchTo(IF msec # 0 THEN "pause" ELSE "infinity_pause")
  /\ executed' = Append(executed, [phase |-> vm.phase_id, at |-> where])
  /\ UNCHANGED << program, phases, vm, listeners, systemReady, ictl, wires,
                  known, initial, sent, fault, outcome >>

SPauseDone ==
  /\ Called("pause_done")
  /\ IF vm.ops = <<>> THEN Throw
     ELSE /\ vm' = ToNextPhase(vm)
          /\ SwitchTo("loop")
          /\ UNCHANGED << program, phases, pauseTimer, listeners, systemReady,
                          ictl, wires, known, initial, sent, fault, history >>

(* An operation that moves nothing.                                        *)
SExecuteOperation(where) ==
  /\ Called("execute_operation")
  /\ IF vm.ops = <<>> THEN Throw
     ELSE /\ ExecuteOperation(OpPhaseId(vm), where)
          /\ vm' = ToNextPhase(vm)
          /\ SwitchTo(IF HasPhaseOps(ToNextPhase(vm)) THEN "execute_operation"
                                                      ELSE "loop")
          /\ UNCHANGED << program, phases, pauseTimer, listeners, systemReady,
                          ictl, wires, known, initial, toAxis, fault, outcome >>

(* The whole moving list goes to the axes, the first settings to the devices *)
SStartMoving(where) ==
  /\ Called("start_moving")
  /\ armed' = FALSE
  /\ toAxis' = Append(toAxis, AxisTask(FillCncTask(vm)))
  /\ axisListener' = "started"
  /\ ExecuteOperation(OpPhaseId(vm), where)
  /\ UNCHANGED << program, phases, vm, state, pauseTimer, stuffListener,
                  systemReady, ictl, wires, known, initial, fault, outcome >>

SMovingDone ==
  /\ Called("moving_done")
  /\ IF vm.ops = <<>> THEN Throw
     ELSE /\ vm' = ToNextPhase(vm)
          /\ SwitchTo("loop")
          /\ UNCHANGED << program, phases, pauseTimer, listeners, systemReady,
                          ictl, wires, known, initial, sent, fault, history >>

(* The call of the current state's method; `where' is where the axes are.  *)
StateCall(where) ==
  \/ Idle
  \/ SInitialize
  \/ SProgramExecutionLoop
  \/ SInitPause(where)
  \/ SPauseDone
  \/ SExecuteOperation(where)
  \/ SStartMoving(where)
  \/ SMovingDone
=============================================================================
