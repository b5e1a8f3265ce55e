----------------------------- MODULE AutoSystem -----------------------------
(***************************************************************************)
(* The automatic mode at work: the auto_mode node (AutoMode), the operator  *)
(* page that uploads programs and presses start, continue and stop, and the *)
(* two nodes auto_mode drives, each reduced to the answers it gives on its  *)
(* wire: multi_axis_ctl (with the axes behind it) and stuff_ctl.            *)
(*                                                                         *)
(* The bus keeps the order of what travels in one direction of a wire and   *)
(* delivers it later.  An accepted activation makes a wire active, a reject *)
(* makes it ready with an error, terminate makes it blocked, and the end of *)
(* a deactivation makes an active wire ready; the other end is told of a    *)
(* status when it changes or carries an error.                             *)
(***************************************************************************)
EXTENDS AutoMode

CONSTANTS
  SegmentsPerReport,  (* how many segments of a moving list the axes may     *)
                      (* finish between two reports of their position (300   *)
                      (* ms apart)                                           *)
  EchoIdle,           (* does deactivating a wire that is not active answer  *)
                      (* with its status?                                    *)
  PatientUser,        (* the operator starts a run only when the last one    *)
                      (* has come to rest                                    *)
  StaleButton,        (* "continue" may be pressed just after the pause ended *)
  MaxCommands,        (* bound: what the operator does                       *)
  MaxFailures         (* bound: refusals and failures of axes and devices    *)

ASSUME SegmentsAssumption == SegmentsPerReport \in Nat \ {0}
ASSUME FlagsAssumption == {EchoIdle, PatientUser, StaleButton} \subseteq BOOLEAN
ASSUME BoundsAssumption == MaxCommands \in Nat /\ MaxFailures \in Nat
ASSUME NoProgramAssumption == NoProgram \notin Programs
ASSUME ProgramsAssumption == \A p \in Programs : IsProgram(p)

VARIABLES
  fromAxis,           (* statuses and positions on their way to auto_mode    *)
  fromStuff,          (* statuses on their way to auto_mode                  *)
  cncWire,            (* status of multi_axis_ctl's wire at its own end      *)
  cncRun,             (* what the axes do                                    *)
  cncAxes,            (* the axes of the task                                *)
  cncTasks,           (* distances still to be travelled, segment by segment *)
  truePos,            (* where the axes are                                  *)
  lag,                (* segments finished since the last report, per axis   *)
  stuffStatus,        (* status of stuff_ctl's wire at its own end           *)
  engaged,            (* stuff_ctl has devices reserved for a run            *)
  commands,           (* what the operator has done so far                   *)
  failures            (* failures so far                                     *)

cncVars == <<cncWire, cncRun, cncAxes, cncTasks, truePos, lag>>
stuffVars == <<stuffStatus, engaged>>
vars == <<autoVars, fromAxis, fromStuff, cncVars, stuffVars, commands, failures>>

(* stuff_ctl, as its client sees it (StuffCtl is the node itself).         *)
Side == INSTANCE StuffSide

Status(status, err) == [kind |-> "status", status |-> status, err |-> err]
Position(axis, value) == [kind |-> "position", axis |-> axis, value |-> value]

(* Where the axes really are, from the origin of the program.              *)
Where == [a \in Axes |-> truePos[a] - initial[a]]

Init ==
  /\ AutoInit
  /\ fromAxis = <<Status("ready", FALSE)>>
  /\ Side!Init
  /\ cncWire = "ready" /\ cncRun = "idle"
  /\ cncAxes = {} /\ cncTasks = <<>>
  /\ truePos = Still
  /\ lag = Still
  /\ commands = 0 /\ failures = 0

-----------------------------------------------------------------------------
(* The operator's page.                                                    *)

AtRest ==
  /\ ~armed /\ cncRun = "idle"
  /\ toAxis = <<>> /\ fromAxis = <<>> /\ toStuff = <<>> /\ fromStuff = <<>>

UserCommand ==
  /\ ~fault /\ commands < MaxCommands
  /\ commands' = commands + 1
  /\ UNCHANGED <<fromAxis, fromStuff, cncVars, stuffVars, failures>>

UserUpload ==
  /\ UserCommand
  /\ \E p \in (Programs \cup {NoProgram}) \ {program} : UploadProgram(p)

UserStart ==
  /\ UserCommand
  /\ ictl = "ready"
  /\ PatientUser => AtRest
  /\ Activate

UserContinue ==
  /\ UserCommand
  /\ ictl = "active"
  /\ state = "infinity_pause" \/ (StaleButton /\ state = "pause_done")
  /\ Activate

UserStop ==
  /\ UserCommand
  /\ ictl = "active"
  /\ Deactivate

-----------------------------------------------------------------------------
(* auto_mode takes what the bus and its timers bring.                      *)

NodeStep ==
  /\ ~fault
  /\ UNCHANGED <<cncVars, stuffVars, commands, failures>>

AxisReceive ==
  /\ NodeStep
  /\ fromAxis # <<>>
  /\ fromAxis' = Tail(fromAxis)
  /\ LET m == Head(fromAxis)
     IN  \/ m.kind = "status" /\ AxisStatus(m.status, m.err)
         \/ m.kind = "position" /\ AxisPosition(m.axis, m.value, Where)
  /\ UNCHANGED fromStuff

StuffReceive ==
  /\ NodeStep
  /\ fromStuff # <<>>
  /\ fromStuff' = Tail(fromStuff)
  /\ StuffStatus(Head(fromStuff).status, Head(fromStuff).err)
  /\ UNCHANGED fromAxis

StateTimer ==
  /\ NodeStep
  /\ StateCall(Where)
  /\ UNCHANGED <<fromAxis, fromStuff>>

PauseTimeout ==
  /\ NodeStep
  /\ PauseTimer
  /\ UNCHANGED <<fromAxis, fromStuff>>

-----------------------------------------------------------------------------
(***************************************************************************)
(* multi_axis_ctl and the axes.  "moving": the axes of the task are in      *)
(* in_proc_; "stopping": they were told to stop and are still in in_proc_;  *)
(* "coasting": still slowing down, but no longer in in_proc_.              *)
(***************************************************************************)
Fails ==
  /\ failures < MaxFailures
  /\ failures' = failures + 1

CncOther == UNCHANGED <<stuffVars, commands, fromStuff>>

AxisSide ==
  UNCHANGED << program, phases, vm, stateVars, pauseTimer, listeners, systemReady,
               ictl, wires, known, initial, toStuff, fault, history >>

CncTake(cmd) ==
  /\ toAxis # <<>> /\ Head(toAxis).cmd = cmd
  /\ toAxis' = Tail(toAxis)
  /\ AxisSide /\ CncOther

(* activate: start the moves the count byte announces.                     *)
CncActivate ==
  /\ CncTake("move")
  /\ cncRun = "idle"
  /\ LET task == Head(toAxis).task
     IN  cncTasks' = SubSeq(task.list, 1, task.count)
  /\ cncAxes' = {a \in Axes : \E i \in DOMAIN cncTasks' : cncTasks'[i][a] # 0}
  /\ cncRun' = IF cncTasks' = <<>> THEN "idle" ELSE "moving"
  /\ cncWire' = "active"
  /\ fromAxis' = IF cncWire = "active" THEN fromAxis
                 ELSE Append(fromAxis, Status("active", FALSE))
  /\ UNCHANGED <<truePos, lag, failures>>

(* activate: some axis is not ready.  The list of running axes was cleared. *)
CncReject ==
  /\ CncTake("move")
  /\ IF cncRun = "idle" THEN Fails ELSE UNCHANGED failures
  /\ cncRun' = IF cncRun = "idle" THEN "idle" ELSE "coasting"
  /\ cncWire' = "ready"
  /\ fromAxis' = Append(fromAxis, Status("ready", TRUE))
  /\ UNCHANGED <<cncAxes, cncTasks, truePos, lag>>

(* The deactivate handler: terminate_execution when axes run.              *)
CncDeactivate ==
  /\ CncTake("deactivate")
  /\ IF cncRun \in {"moving", "stopping"}
     THEN /\ cncRun' = "stopping"
          /\ cncWire' = "blocked"
          /\ fromAxis' = Append(fromAxis, Status("blocked", TRUE))
     ELSE /\ cncWire' = IF cncWire = "active" THEN "ready" ELSE cncWire
          /\ fromAxis' = IF cncWire = "active" \/ EchoIdle
                         THEN Append(fromAxis, Status(cncWire', FALSE))
                         ELSE fromAxis
          /\ UNCHANGED cncRun
  /\ UNCHANGED <<cncAxes, cncTasks, truePos, lag, failures>>

CncOwn == UNCHANGED toAxis /\ AxisSide /\ CncOther

After(pos, dist) == [a \in Axes |-> pos[a] + dist[a]]

(* A segment ends: the axes are at its target and go on without a stop.     *)
(* Where they are inside a segment is not told apart from its beginning.   *)
CncAdvance ==
  /\ cncRun # "idle" /\ cncTasks # <<>>
  /\ \A a \in Axes : lag[a] < SegmentsPerReport
  /\ truePos' = After(truePos, Head(cncTasks))
  /\ cncTasks' = Tail(cncTasks)
  /\ lag' = [a \in Axes |-> IF Head(cncTasks)[a] # 0 THEN lag[a] + 1 ELSE lag[a]]
  /\ UNCHANGED <<cncWire, cncRun, cncAxes, fromAxis, failures>>
  /\ CncOwn

(* The periodic report of one axis; one that nobody can tell apart from the *)
(* last is left out unless a moving list is being watched.                 *)
CncReport(a) ==
  /\ \A i \in DOMAIN fromAxis : fromAxis[i].kind = "position" => fromAxis[i].axis # a
  /\ known[a] # truePos[a] \/ state = "start_moving"
  /\ fromAxis' = Append(fromAxis, Position(a, truePos[a]))
  /\ lag' = [lag EXCEPT ![a] = 0]
  /\ UNCHANGED <<cncWire, cncRun, cncAxes, cncTasks, truePos, failures>>
  /\ CncOwn

(* motion_done of every axis of the task reports its final position before  *)
(* the wire becomes ready.                                                 *)
FinalReports(pos) ==
  LET axes == SetToSeq(cncAxes)
  IN  [i \in DOMAIN axes |-> Position(axes[i], pos[axes[i]])]

CncDone ==
  /\ cncRun = "moving" /\ cncTasks = <<>>
  /\ cncRun' = "idle"
  /\ cncWire' = "ready"
  /\ lag' = Still
  /\ fromAxis' = (fromAxis \o FinalReports(truePos)) \o <<Status("ready", FALSE)>>
  /\ UNCHANGED <<cncAxes, cncTasks, truePos, failures>>
  /\ CncOwn

(* Stopped short: what is left of the task is dropped.                     *)
StopShort ==
  /\ cncTasks' = <<>>
  /\ lag' = Still
  /\ UNCHANGED <<cncAxes, truePos>>

(* An axis fails: alone, or with others that must now be stopped.          *)
CncFail ==
  /\ cncRun = "moving"
  /\ Fails
  /\ \/ /\ cncRun' = "idle" /\ cncWire' = "ready"
        /\ StopShort
        /\ fromAxis' = (fromAxis \o FinalReports(truePos))
                         \o <<Status("ready", TRUE)>>
     \/ /\ cncRun' = "stopping" /\ cncWire' = "blocked"
        /\ fromAxis' = fromAxis \o <<Status("ready", TRUE), Status("blocked", TRUE)>>
        /\ UNCHANGED <<cncAxes, cncTasks, truePos, lag>>
  /\ CncOwn

(* The last stopping axis comes to rest.                                   *)
CncStopped ==
  /\ cncRun \in {"stopping", "coasting"}
  /\ cncRun' = "idle"
  /\ StopShort
  /\ IF cncRun = "stopping"
     THEN /\ cncWire' = "ready"
          /\ fromAxis' = (fromAxis \o FinalReports(truePos))
                           \o <<Status("ready", FALSE)>>
     ELSE /\ fromAxis' = fromAxis \o FinalReports(truePos)
          /\ UNCHANGED cncWire
  /\ UNCHANGED failures
  /\ CncOwn

-----------------------------------------------------------------------------
(* stuff_ctl.                                                              *)

StuffOther ==
  UNCHANGED << program, phases, vm, stateVars, pauseTimer, listeners, systemReady,
               ictl, wires, known, initial, toAxis, fault, history,
               cncVars, fromAxis, commands >>

StuffServes ==
  /\ Side!Accept \/ Side!Deactivate
  /\ UNCHANGED failures
  /\ StuffOther

StuffReject == Side!Reject /\ Fails /\ StuffOther

StuffFail == Side!Fail /\ Fails /\ StuffOther

-----------------------------------------------------------------------------
User == UserUpload \/ UserStart \/ UserContinue \/ UserStop

Node == AxisReceive \/ StuffReceive \/ StateTimer \/ PauseTimeout

Cnc ==
  \/ CncActivate \/ CncReject \/ CncDeactivate \/ CncAdvance
  \/ \E a \in Axes : CncReport(a)
  \/ CncDone \/ CncFail \/ CncStopped

Stuff == StuffServes \/ StuffReject \/ StuffFail

Next == User \/ Node \/ Cnc \/ Stuff

Spec == Init /\ [][Next]_vars

(***************************************************************************)
(* Fairness.  The event loop of each process serves its sockets and timers; *)
(* the axes move and report; nobody owes a command or a failure.           *)
(***************************************************************************)
Fairness ==
  /\ WF_vars(AxisReceive) /\ WF_vars(StuffReceive)
  /\ WF_vars(StateTimer) /\ WF_vars(PauseTimeout)
  /\ WF_vars(CncActivate \/ CncReject \/ CncDeactivate)
  /\ WF_vars(CncAdvance) /\ WF_vars(CncDone) /\ WF_vars(CncStopped)
  /\ \A a \in Axes : WF_vars(CncReport(a))
  /\ WF_vars(StuffServes \/ StuffReject)

FairSpec == Spec /\ Fairness

-----------------------------------------------------------------------------
(* Types.                                                                  *)

CommandNames == {"prepare", "operation", "deactivate"}

TypeOK ==
  /\ program \in Programs \cup {NoProgram}
  /\ state \in States /\ armed \in BOOLEAN
  /\ pauseTimer \in BOOLEAN /\ systemReady \in BOOLEAN
  /\ axisListener \in {"none", "started", "done"}
  /\ stuffListener \in {"none", "activation", "watch"}
  /\ {ictl, axisWire, stuffWire, cncWire, stuffStatus} \subseteq Statuses
  /\ cncRun \in {"idle", "moving", "stopping", "coasting"}
  /\ \A i \in DOMAIN toStuff : toStuff[i].cmd \in CommandNames
  /\ \A i \in DOMAIN toAxis : toAxis[i].cmd \in {"move", "deactivate"}
  /\ \A i \in DOMAIN fromAxis : fromAxis[i].kind \in {"status", "position"}
  /\ known \in [Axes -> Int] /\ truePos \in [Axes -> Int]
  /\ cncAxes \subseteq Axes
  /\ lag \in [Axes -> 0 .. SegmentsPerReport]
  /\ outcome \in {"idle", "running", "done", "stopped"}
  /\ {fault, engaged} \subseteq BOOLEAN
  /\ state \notin {"null", "wait_stuff_activated", "initialize"} =>
       \A pid \in DOMAIN vm.goto \ {p \in DOMAIN vm.goto : vm.goto[p] = Absent} :
         vm.goto[pid] \in 0 .. Phase(phases, pid).N - 1

(***************************************************************************)
(* The processor never throws: the phases left to execute and the moving    *)
(* list stay in step with what the axes do (the throws of vm.cpp:65-66,     *)
(* 91-92 and 274-275).                                                     *)
(***************************************************************************)
NoFault == ~fault

(***************************************************************************)
(* The listeners and the pause timer belong to the state that set them: a   *)
(* status is never handed to the listener of a state already left, the end  *)
(* of a pause never fires into another state, and every state of a run      *)
(* watches the devices.                                                    *)
(***************************************************************************)
ListenersFollowState ==
  /\ pauseTimer => state = "pause"
  /\ axisListener # "none" => state = "start_moving" /\ ~armed
  /\ stuffListener = CASE state = "null" -> "none"
                       [] state = "wait_stuff_activated" -> "activation"
                       [] OTHER -> "watch"
  /\ outcome = "running" <=> state # "null"

(***************************************************************************)
(* Once a run is over, nothing it sent can leave a device or an axis on:    *)
(* the last command in the queue is the deactivation, and when the queue    *)
(* has been served no device is reserved and no axis is driven.             *)
(***************************************************************************)
EndsWithDeactivation(queue) == queue # <<>> /\ queue[Len(queue)].cmd = "deactivate"

StoppedMeansOff ==
  state = "null" =>
    /\ \/ EndsWithDeactivation(toStuff)
       \/ toStuff = <<>> /\ stuffStatus # "active" /\ ~engaged
    /\ \/ EndsWithDeactivation(toAxis)
       \/ toAxis = <<>> /\ cncWire # "active" /\ cncRun # "moving"

(***************************************************************************)
(* The operator can always stop a run: the input wire stays active for as   *)
(* long as a program runs, and no longer.                                  *)
(***************************************************************************)
RunIsStoppable == ictl = "active" <=> state # "null"

(***************************************************************************)
(* A run that executes the program does it in the program's order: the      *)
(* system implements ProgramRun.                                           *)
(***************************************************************************)
PhasesExecuted == [i \in DOMAIN executed |-> executed[i].phase]

Run == INSTANCE ProgramRun WITH executed <- PhasesExecuted

ImplementsProgramRun == Run!Spec

(* The position of the axes after n steps of a trace, from the definition.  *)
ProgramPosition(prog, trace, n) ==
  LET P[k \in Nat] ==
        IF k = 0 THEN Still
        ELSE LET op == Phase(prog, trace[k])
             IN  IF op.kind = "operation" THEN NextPosition(op, P[k - 1])
                                          ELSE P[k - 1]
  IN  P[n]

(***************************************************************************)
(* Each phase is executed where the program puts it: when the axes are at   *)
(* the position its predecessors lead to or, because a report takes its     *)
(* time, at the position one phase later; never earlier on the path.       *)
(***************************************************************************)
ExecutedInPlace ==
  \A i \in DOMAIN executed :
    \E j \in {i - 1, i} :
      executed[i].at = ProgramPosition(phases, PhasesExecuted \o <<executed[i].phase>>, j)

(***************************************************************************)
(* A run that reports success has moved the axes by exactly what the whole  *)
(* program asks for, and nothing is still moving.                          *)
(***************************************************************************)
DoneInPlace ==
  outcome = "done" =>
    /\ Where = ProgramPosition(phases, PhasesExecuted, Len(executed))
    /\ cncRun # "moving"

(* Both: what a program does is done where the program says.                *)
InPlace == ExecutedInPlace /\ DoneInPlace

(***************************************************************************)
(* A run comes to an end or waits for the operator in an endless pause.    *)
(***************************************************************************)
RunEnds == state # "null" ~> state \in {"null", "infinity_pause"}

(***************************************************************************)
(* After a run, whichever way it ended, the operator is offered the next    *)
(* one (if a program is loaded).                                           *)
(***************************************************************************)
OfferedAgain ==
  state = "null" /\ program # NoProgram
    ~> ictl = "ready" \/ state # "null" \/ program = NoProgram
=============================================================================
