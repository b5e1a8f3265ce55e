---------------------------- MODULE MultiAxisCtl ----------------------------
(***************************************************************************)
(* The multi_axis_ctl node: it hands the phases of a task to the axes, one  *)
(* after the other for each axis, follows them by the status of their wires *)
(* (in_proc_) and answers its client, auto_mode.                           *)
(*                                                                         *)
(* How a task becomes phases is not told apart here: a task says how many   *)
(* phases each of its axes has.  Each axis is an axis_motion_node on its    *)
(* servo_motor, reduced to the control it executes and its wire.           *)
(*                                                                         *)
(* The bus is that of AutoSystem and StuffCtl.  Whether it hands a command  *)
(* to a node whose wire is blocked is left open for this node; a blocked    *)
(* axis takes none.                                                        *)
(***************************************************************************)
EXTENDS Naturals, Sequences, Functions

CONSTANTS
  Axes,
  EchoIdle,           (* does deactivating a wire that is not active answer? *)
  PatientClient,      (* a task is sent only when the wire has come to rest  *)
  SlowDrive,          (* does a drive take longer to come up than a message  *)
                      (* takes on the bus?                                   *)
  MaxPhases,          (* bound: phases of an axis                            *)
  MaxTasks,           (* bound: tasks                                        *)
  MaxStops,           (* bound: deactivations by the operator                *)
  MaxFailures         (* bound: failures of axes                             *)

ASSUME FlagsAssumption == {EchoIdle, PatientClient, SlowDrive} \subseteq BOOLEAN
ASSUME LimitsAssumption == {MaxPhases, MaxTasks, MaxStops, MaxFailures} \subseteq Nat

VARIABLES
  toCnc, fromCnc,     (* the client's wire, both directions                  *)
  cncWire,            (* its status                                          *)
  axisPhases,         (* axis_phases_: phases of each axis of the task       *)
  inProc,             (* in_proc_: next phase of each axis that executes     *)
  seen,               (* status of each axis wire as is_ready, is_active see *)
  toAxis, fromAxis,   (* the axis wires, both directions                     *)
  axisWire,           (* their status at the axis                            *)
  at,                 (* phase the control of an axis executes, 0: none      *)
  halting,            (* axes whose control was told to stop                 *)
  done,               (* history: last phase of the task each axis completed *)
  client,             (* auto_mode: "idle", "started", "moves", "stopped"    *)
  tasks, stops, failures

nodeVars == <<cncWire, axisPhases, inProc, seen>>
clientVars == <<client, tasks, stops>>
axisVars == <<fromAxis, axisWire, at, halting, failures>>
vars == <<toCnc, fromCnc, nodeVars, toAxis, axisVars, done, clientVars>>

Status(status, err) == [status |-> status, err |-> err]

None == [a \in {} |-> 0]

Init ==
  /\ toCnc = <<>> /\ fromCnc = <<Status("ready", FALSE)>>
  /\ cncWire = "ready"
  /\ axisPhases = None /\ inProc = None
  /\ seen = [a \in Axes |-> "ready"] /\ axisWire = seen
  /\ toAxis = [a \in Axes |-> <<>>] /\ fromAxis = toAxis
  /\ at = [a \in Axes |-> 0] /\ done = at
  /\ halting = {}
  /\ client = "idle"
  /\ tasks = 0 /\ stops = 0 /\ failures = 0

-----------------------------------------------------------------------------
(* The node.                                                               *)

Shift(phase) == [cmd |-> "timed-shift", phase |-> phase]
Stop == [cmd |-> "stop"]

Executing == DOMAIN inProc

(* What is left of in_proc_ without axis a.                                *)
Dropped(a) == Restrict(inProc, Executing \ {a})

Take(cmd) ==
  /\ toCnc # <<>> /\ Head(toCnc).cmd = cmd
  /\ toCnc' = Tail(toCnc)
  /\ UNCHANGED <<seen, axisVars, clientVars>>

(***************************************************************************)
(* activate, all axes of the task ready: every one is sent its first phase. *)
(***************************************************************************)
Activate ==
  /\ Take("activate")
  /\ axisPhases' = Head(toCnc).task
  /\ \A a \in DOMAIN axisPhases' : seen[a] = "ready"
  /\ inProc' = [a \in DOMAIN axisPhases' |-> 1]
  /\ toAxis' = [a \in Axes |-> IF a \in DOMAIN axisPhases' THEN Append(toAxis[a], Shift(1))
                                                            ELSE toAxis[a]]
  /\ done' = [a \in Axes |-> 0]
  /\ cncWire' = "active"
  /\ fromCnc' = IF cncWire = "active" THEN fromCnc
                ELSE Append(fromCnc, Status("active", FALSE))

(* activate, some axis not ready: in_proc_ has been cleared already.       *)
Reject ==
  /\ Take("activate")
  /\ \E a \in DOMAIN Head(toCnc).task : seen[a] # "ready"
  /\ inProc' = None
  /\ cncWire' = "ready"
  /\ fromCnc' = Append(fromCnc, Status("ready", TRUE))
  /\ UNCHANGED <<axisPhases, toAxis, done>>

(* Mutant: the axes are told to stop, but their next phase is left alone. *)
TerminateExecution_NextPhaseLeft(axes) ==
  /\ inProc' = Restrict(inProc, axes)
  /\ toAxis' = [a \in Axes |-> IF a \in axes THEN Append(toAxis[a], Stop) ELSE toAxis[a]]
  /\ cncWire' = "blocked"

(* Mutant: only one axis is told to stop. *)
TerminateExecution_OneAxis(axes) ==
  /\ inProc' = [a \in axes |-> axisPhases[a]]
  /\ LET first == CHOOSE a \in axes : TRUE
     IN  toAxis' = [toAxis EXCEPT ![first] = Append(@, Stop)]
  /\ cncWire' = "blocked"

(* terminate_execution: axes are told to stop, none has a phase left.      *)
TerminateExecution(axes) ==
  /\ inProc' = [a \in axes |-> axisPhases[a]]
  /\ toAxis' = [a \in Axes |-> IF a \in axes THEN Append(toAxis[a], Stop) ELSE toAxis[a]]
  /\ cncWire' = "blocked"

(***************************************************************************)
(* The deactivate handler: nothing to do when no axis executes.  Its end    *)
(* makes an active wire ready.                                             *)
(***************************************************************************)
Deactivate ==
  /\ Take("deactivate")
  /\ IF Executing = {}
     THEN /\ cncWire' = IF cncWire = "active" THEN "ready" ELSE cncWire
          /\ fromCnc' = IF cncWire = "active" \/ EchoIdle
                        THEN Append(fromCnc, Status(cncWire', FALSE)) ELSE fromCnc
          /\ UNCHANGED <<inProc, toAxis>>
     ELSE /\ TerminateExecution(Executing)
          /\ fromCnc' = Append(fromCnc, Status("blocked", TRUE))
  /\ UNCHANGED <<axisPhases, done>>

(* The bus does not hand the command to a blocked node.                    *)
Refuse ==
  /\ cncWire = "blocked"
  /\ \E cmd \in {"activate", "deactivate"} : Take(cmd)
  /\ UNCHANGED <<fromCnc, cncWire, axisPhases, inProc, toAxis, done>>

(* Mutant: the client is told when the first axis is done. *)
ExecutePhase_FirstDone(a) ==
  IF inProc[a] = axisPhases[a]
  THEN /\ inProc' = Dropped(a)
       /\ cncWire' = "ready"
       /\ fromCnc' = Append(fromCnc, Status("ready", FALSE))
       /\ UNCHANGED toAxis
  ELSE /\ inProc' = [inProc EXCEPT ![a] = @ + 1]
       /\ toAxis' = [toAxis EXCEPT ![a] = Append(@, Shift(inProc[a] + 1))]
       /\ UNCHANGED <<cncWire, fromCnc>>

(* Mutant: nobody is told of the end. *)
ExecutePhase_Silent(a) ==
  IF inProc[a] = axisPhases[a]
  THEN inProc' = Dropped(a) /\ UNCHANGED <<cncWire, fromCnc, toAxis>>
  ELSE /\ inProc' = [inProc EXCEPT ![a] = @ + 1]
       /\ toAxis' = [toAxis EXCEPT ![a] = Append(@, Shift(inProc[a] + 1))]
       /\ UNCHANGED <<cncWire, fromCnc>>

(* Mutant: the next phase is not stored. *)
ExecutePhase_NotStored(a) ==
  IF inProc[a] = axisPhases[a]
  THEN /\ inProc' = Dropped(a)
       /\ IF Executing = {a}
          THEN cncWire' = "ready" /\ fromCnc' = Append(fromCnc, Status("ready", FALSE))
          ELSE UNCHANGED <<cncWire, fromCnc>>
       /\ UNCHANGED toAxis
  ELSE /\ toAxis' = [toAxis EXCEPT ![a] = Append(@, Shift(inProc[a]))]
       /\ UNCHANGED <<inProc, cncWire, fromCnc>>

(* execute_phase of an executing axis: the next phase, or the axis is done; *)
(* the last one done makes the wire ready.                                 *)
ExecutePhase(a) ==
  IF inProc[a] = axisPhases[a]
  THEN /\ inProc' = Dropped(a)
       /\ IF Executing = {a}
          THEN cncWire' = "ready" /\ fromCnc' = Append(fromCnc, Status("ready", FALSE))
          ELSE UNCHANGED <<cncWire, fromCnc>>
       /\ UNCHANGED toAxis
  ELSE /\ inProc' = [inProc EXCEPT ![a] = @ + 1]
       /\ toAxis' = [toAxis EXCEPT ![a] = Append(@, Shift(inProc[a] + 1))]
       /\ UNCHANGED <<cncWire, fromCnc>>

(* Mutant: the other axes are forgotten, not stopped. *)
AxisBrokeOff_OthersGoOn(a) ==
  /\ inProc' = None
  /\ cncWire' = "ready"
  /\ fromCnc' = Append(fromCnc, Status("ready", TRUE))
  /\ UNCHANGED toAxis

(* Mutant: the client is not told of a failure. *)
AxisBrokeOff_Untold(a) ==
  /\ inProc' = Dropped(a)
  /\ UNCHANGED <<cncWire, fromCnc, toAxis>>

(* An axis broke off: tell the client, stop the others.                    *)
AxisBrokeOff(a) ==
  LET failed == Append(fromCnc, Status("ready", TRUE))
  IN  IF Executing = {a}
      THEN inProc' = None /\ cncWire' = "ready" /\ fromCnc' = failed /\ UNCHANGED toAxis
      ELSE /\ TerminateExecution(Executing \ {a})
           /\ fromCnc' = Append(failed, Status("blocked", TRUE))

(* wire_status_was_changed.                                                *)
AxisStatus(a) ==
  /\ fromAxis[a] # <<>>
  /\ fromAxis' = [fromAxis EXCEPT ![a] = Tail(@)]
  /\ LET m == Head(fromAxis[a])
     IN  /\ seen' = [seen EXCEPT ![a] = m.status]
         /\ IF a \notin Executing \/ m.status = "active"
            THEN UNCHANGED <<fromCnc, cncWire, inProc, toAxis>>
            ELSE IF m.status = "ready" /\ ~m.err THEN ExecutePhase(a)
                                                 ELSE AxisBrokeOff(a)
  /\ UNCHANGED <<toCnc, axisPhases, axisWire, at, halting, failures, done, clientVars>>

-----------------------------------------------------------------------------
(* The client: auto_mode, reduced to what it does on this wire.            *)

ClientStep == UNCHANGED <<nodeVars, toAxis, axisVars, done>>

(* A moving list is sent.                                                  *)
ClientActivate ==
  /\ client \in {"idle", "stopped"} /\ tasks < MaxTasks
  /\ PatientClient => toCnc = <<>> /\ fromCnc = <<>> /\ cncWire # "blocked"
  /\ \E axes \in (SUBSET Axes) \ {{}} : \E task \in [axes -> 1 .. MaxPhases] :
       toCnc' = Append(toCnc, [cmd |-> "activate", task |-> task])
  /\ client' = "started" /\ tasks' = tasks + 1
  /\ UNCHANGED <<fromCnc, stops>>
  /\ ClientStep

ClientStops ==
  /\ client' = "stopped"
  /\ toCnc' = Append(toCnc, [cmd |-> "deactivate"])

(* stop_execution, by the operator or at the end of a program.             *)
ClientStop ==
  /\ stops < MaxStops
  /\ ClientStops
  /\ stops' = stops + 1
  /\ UNCHANGED <<fromCnc, tasks>>
  /\ ClientStep

(* The listeners of the wire: "active" starts the list, then "ready"        *)
(* without an error ends it, and anything else ends the run.               *)
ClientReceive ==
  /\ fromCnc # <<>>
  /\ fromCnc' = Tail(fromCnc)
  /\ LET m == Head(fromCnc)
     IN  CASE client = "started" /\ m.status = "active" ->
                client' = "moves" /\ UNCHANGED toCnc
           [] client = "moves" /\ m.status = "ready" /\ ~m.err ->
                client' = "idle" /\ UNCHANGED toCnc
           [] client \in {"idle", "stopped"} -> UNCHANGED <<client, toCnc>>
           [] OTHER -> ClientStops
  /\ UNCHANGED <<tasks, stops>>
  /\ ClientStep

-----------------------------------------------------------------------------
(* The axes.                                                               *)

AxisStep == UNCHANGED <<toCnc, fromCnc, nodeVars, clientVars>>

AxisTake(a, cmd) ==
  /\ toAxis[a] # <<>> /\ Head(toAxis[a]).cmd = cmd
  /\ toAxis' = [toAxis EXCEPT ![a] = Tail(@)]
  /\ UNCHANGED <<failures, done>>
  /\ AxisStep

Report(a, m) ==
  /\ axisWire' = [axisWire EXCEPT ![a] = m.status]
  /\ fromAxis' = IF axisWire[a] = m.status /\ ~m.err THEN fromAxis
                 ELSE [fromAxis EXCEPT ![a] = Append(@, m)]

AxisRefuse(a) ==
  /\ axisWire[a] = "blocked"
  /\ AxisTake(a, "timed-shift") \/ AxisTake(a, "stop")
  /\ UNCHANGED <<fromAxis, axisWire, at, halting>>

(* cmd_timed_shift: only for an axis without a control.                    *)
AxisShift(a) ==
  /\ axisWire[a] # "blocked"
  /\ AxisTake(a, "timed-shift")
  /\ IF at[a] = 0
     THEN at' = [at EXCEPT ![a] = Head(toAxis[a]).phase] /\ Report(a, Status("active", FALSE))
     ELSE UNCHANGED at /\ Report(a, Status("ready", TRUE))
  /\ UNCHANGED halting

(* cmd_stop: accepted also when there is nothing to stop.                  *)
AxisStop(a) ==
  /\ axisWire[a] # "blocked"
  /\ AxisTake(a, "stop")
  /\ Report(a, Status("active", FALSE))
  /\ halting' = IF at[a] = 0 THEN halting ELSE halting \cup {a}
  /\ UNCHANGED at

AxisOwn(a) ==
  /\ at' = [at EXCEPT ![a] = 0]
  /\ halting' = halting \ {a}
  /\ UNCHANGED toAxis
  /\ AxisStep

(* motion_done: the phase is complete, or was broken off by a stop.        *)
AxisEnds(a) ==
  /\ at[a] # 0
  /\ done' = IF a \in halting THEN done ELSE [done EXCEPT ![a] = at[a]]
  /\ Report(a, Status("ready", FALSE))
  /\ UNCHANGED failures
  /\ AxisOwn(a)

Fails == failures < MaxFailures /\ failures' = failures + 1

(* do_hard_stop at a limit switch, by the emergency stop or the sensor.    *)
AxisHardStop(a) ==
  /\ at[a] # 0
  /\ Fails
  /\ Report(a, Status("ready", TRUE))
  /\ UNCHANGED done
  /\ AxisOwn(a)

(* servo_motor::running finds the drive in fault.                          *)
DriveFault(a) ==
  /\ axisWire[a] # "blocked"
  /\ Fails
  /\ axisWire' = [axisWire EXCEPT ![a] = "blocked"]
  /\ fromAxis' = [fromAxis EXCEPT ![a] =
                    @ \o (IF at[a] = 0 THEN <<>> ELSE <<Status("ready", TRUE)>>)
                      \o <<Status("blocked", TRUE)>>]
  /\ UNCHANGED done
  /\ AxisOwn(a)

(* driver_was_running(true).                                               *)
DriveUp(a) ==
  /\ axisWire[a] = "blocked"
  /\ SlowDrive => toAxis[a] = <<>> /\ fromAxis[a] = <<>>
  /\ Report(a, Status("ready", FALSE))
  /\ UNCHANGED <<at, halting, failures, done, toAxis>>
  /\ AxisStep

-----------------------------------------------------------------------------
Serve == Activate \/ Reject \/ Deactivate \/ Refuse

Client == ClientActivate \/ ClientStop \/ ClientReceive

AxisServes(a) == AxisRefuse(a) \/ AxisShift(a) \/ AxisStop(a)

Axis(a) ==
  AxisServes(a) \/ AxisEnds(a) \/ AxisHardStop(a) \/ DriveFault(a) \/ DriveUp(a)

Next == Serve \/ Client \/ \E a \in Axes : AxisStatus(a) \/ Axis(a)

Spec == Init /\ [][Next]_vars

(***************************************************************************)
(* Fairness: the processes serve their queues and a moving axis arrives.    *)
(* Nobody owes a command, a failure or the return of a drive.              *)
(***************************************************************************)
Fairness ==
  /\ WF_vars(Activate \/ Reject \/ Deactivate) /\ WF_vars(ClientReceive)
  /\ \A a \in Axes :
       WF_vars(AxisStatus(a)) /\ WF_vars(AxisServes(a)) /\ WF_vars(AxisEnds(a))

FairSpec == Spec /\ Fairness

-----------------------------------------------------------------------------
(* Types.                                                                  *)

Statuses == {"ready", "active", "blocked"}

TypeOK ==
  /\ cncWire \in Statuses
  /\ seen \in [Axes -> Statuses] /\ axisWire \in [Axes -> Statuses]
  /\ at \in [Axes -> 0 .. MaxPhases] /\ done \in [Axes -> 0 .. MaxPhases]
  /\ Executing \subseteq DOMAIN axisPhases /\ DOMAIN axisPhases \subseteq Axes
  /\ \A a \in Executing : inProc[a] \in 1 .. axisPhases[a]
  /\ halting \subseteq {a \in Axes : at[a] # 0}
  /\ client \in {"idle", "started", "moves", "stopped"}

(* The command queue of axis a ends in a stop.                             *)
StopSent(a) == toAxis[a] # <<>> /\ toAxis[a][Len(toAxis[a])] = Stop

(***************************************************************************)
(* An axis that moves, or is about to, is one the node follows, or it has   *)
(* been told to stop: whatever happens, no axis moves on behind its back.   *)
(***************************************************************************)
DrivenIsFollowed ==
  \A a \in Axes :
    at[a] # 0 \/ (toAxis[a] # <<>> /\ axisWire[a] # "blocked")
      => a \in Executing \/ a \in halting \/ StopSent(a)

(***************************************************************************)
(* A client that stopped its run needs to do nothing more: when its         *)
(* commands are served every axis stands, is slowing down or has a stop on  *)
(* its way.                                                                *)
(***************************************************************************)
StoppedClientMeansStill ==
  client = "stopped" /\ toCnc = <<>> =>
    \A a \in Axes :
      \/ at[a] = 0 /\ (toAxis[a] = <<>> \/ axisWire[a] = "blocked")
      \/ a \in halting \/ StopSent(a)

(***************************************************************************)
(* The wire of the node is ready exactly when no axis executes, and a node  *)
(* that has blocked it has no phase left to hand out: whatever order        *)
(* commands, ends, failures and stops come in, a client that sees the wire  *)
(* ready may send a task, and a blocked one is not left blocked by an axis  *)
(* that goes on with its list.                                             *)
(***************************************************************************)
WireTellsExecution ==
  /\ cncWire = "ready" <=> Executing = {}
  /\ cncWire = "blocked" => \A a \in Executing : inProc[a] = axisPhases[a]

(***************************************************************************)
(* "ready" without an error, on a task nobody stopped, means that every     *)
(* axis has completed all its phases.                                      *)
(***************************************************************************)
ReadyMeansDone ==
  [][ cncWire = "active" /\ cncWire' = "ready" /\ toCnc' = toCnc
      /\ ~fromCnc'[Len(fromCnc')].err
        => \A a \in DOMAIN axisPhases : done[a] = axisPhases[a] ]_vars

(***************************************************************************)
(* An axis executes its phases in the order of the task, none twice.       *)
(***************************************************************************)
PhasesInOrder ==
  \A a \in Executing \ halting : at[a] # 0 => at[a] = done[a] + 1 /\ at[a] <= inProc[a]

(***************************************************************************)
(* A node that blocked its wire to stop the axes frees it again.           *)
(***************************************************************************)
BlockedIsFreed == cncWire = "blocked" ~> cncWire # "blocked"

(***************************************************************************)
(* A client that waits for its task hears of its end.                      *)
(***************************************************************************)
Waiting == client \in {"started", "moves"}

TaskIsAnswered == Waiting ~> ~Waiting

=============================================================================
