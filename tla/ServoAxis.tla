----------------------------- MODULE ServoAxis -----------------------------
(***************************************************************************)
(* One axis of the EtherCAT process: the servo motor, brought into         *)
(* operation and stepped by the cycle of the master, and axis_motion_node, *)
(* which takes the commands of its wire and lends the motor one of three    *)
(* movements: by position, by speed, by time.                              *)
(*                                                                         *)
(* Abstraction: a cycle moves the axis by at most one unit; acceleration   *)
(* shows only as the unit an axis rolls on before it turns or stops.  The  *)
(* plan of a movement by time is in TimedMotion; here it is a number of    *)
(* cycles in one direction.  The drive (LC10E) is external: it goes up and *)
(* down its states one at a time and clears a fault when it is told to     *)
(* reset and the cause is gone.                                            *)
(***************************************************************************)
EXTENDS Integers

CONSTANTS
    Places,         \* travel of the axis, an interval of integers
    Shifts,         \* amounts of a "shift"
    TimedShifts,    \* movements by time: cycles, with the sign of the direction
    MaxFaults,      \* faults of the drive in a behaviour
    EdgeReset,      \* does the drive clear a fault on the edge of the bit only?
    LastingFault,   \* may the cause of a fault outlive the first reset?
    Reach,          \* bound: targets a pile of shifts may add up to
    None            \* no value: an empty optional, no control, no goal

ASSUME ServoAssumption ==
    /\ Places \subseteq Int /\ Shifts \subseteq Int /\ TimedShifts \subseteq Int \ {0}
    /\ MaxFaults \in Nat /\ {EdgeReset, LastingFault} \subseteq BOOLEAN
    /\ None \notin Int

VARIABLES
    motor,      \* [mode, word]: mode_ and the control word of the servo_motor
    ctl,        \* ctl_: the movement in command with what its run needs, or
                \* None; the next order overwrites those values, so that only
                \* byPosition outlives a run
    drive,      \* the LC10E: [state, seen, cause], seen: the last word it read
    tripped,    \* an input stops the axis: the contact lock or the emergency
    position,   \* position_
    byPosition, \* [target, relative, v0] of the movement by position
    origin,     \* origin_offset_
    axisWire,   \* status of ictl_
    goal,       \* [at, order, fresh]: where the order in execution is told to
                \* end, fresh when no older shift is in play; or None
    faults      \* faults so far (bound)

axisVars == <<motor, ctl, drive, tripped, position, byPosition, origin, axisWire,
              goal, faults>>

Low == CHOOSE p \in Places : \A q \in Places : p <= q
High == CHOOSE p \in Places : \A q \in Places : q <= p
Sign(d) == IF d > 0 THEN 1 ELSE IF d < 0 THEN -1 ELSE 0
OrElse(opt, other) == IF opt = None THEN other ELSE opt

Modes == {"turning_off", "turning_on", "running",
          "fault_reset_0", "fault_reset_1", "fault_reset_2"}
DriveStates == {"fault_free", "ready", "enable", "running", "fault"}
ControlWords == {"0000", "0110", "0111", "1111", "reset"}
Controls ==
    [by : {"position"}, speed : {0, 1}, phases : BOOLEAN]
      \cup [by : {"velocity"}, speed : {-1, 0, 1}]
      \cup [by : {"time"}, left : Int \ {0}, cut : BOOLEAN]

(* A movement in command is not the empty optional.                        *)
ASSUME ControlAssumption == None \notin Controls

AxisTypeOK ==
    /\ motor \in [mode : Modes, word : ControlWords]
    /\ ctl \in Controls \cup {None}
    /\ drive \in [state : DriveStates, seen : ControlWords, cause : BOOLEAN]
    /\ tripped \in BOOLEAN
    /\ position \in Places
    /\ byPosition \in [target : Int \cup {None}, relative : Int \cup {None},
                       v0 : {-1, 0, 1}]
    /\ origin \in Places
    /\ axisWire \in {"blocked", "ready", "active"}
    /\ goal \in [at : Int, order : {"move-to", "shift"}, fresh : BOOLEAN] \cup {None}
    /\ faults \in 0..MaxFaults

AxisInit ==
    /\ motor = [mode |-> "turning_off", word |-> "0000"]
    /\ ctl = None
    /\ drive \in [state : DriveStates \ {"fault"}, seen : {"0000"}, cause : {FALSE}]
    /\ tripped = FALSE
    /\ position \in Places
    /\ byPosition = [target |-> None, relative |-> None, v0 |-> 0]
    /\ origin = 0
    /\ axisWire = "blocked"
    /\ goal = None
    /\ faults = 0

-----------------------------------------------------------------------------
(* The three movements: where next_position takes the axis, and what is    *)
(* left of the movement.                                                   *)

(* position_motion: an empty plan is made anew from the target, to which   *)
(* the shift that has piled up is added.                                   *)
Target == OrElse(byPosition.target, position) + OrElse(byPosition.relative, 0)

Planned ==
    IF ctl.phases THEN byPosition
    ELSE [byPosition EXCEPT !.target = Target, !.relative = None]

NextByPosition ==
    LET p == Planned
        way == Sign(p.target - position)
        still == ~ctl.phases /\ way = 0
        rolls == p.v0 # 0 /\ (ctl.speed = 0 \/ p.v0 # way)
        next == position + (IF rolls THEN p.v0 ELSE IF ctl.speed = 0 THEN 0 ELSE way)
        done == ~rolls /\ (ctl.speed = 0 \/ next = p.target)
    IN  IF still THEN [to |-> position, motion |-> p, phases |-> FALSE]
        ELSE [to |-> next,
              motion |-> [p EXCEPT !.v0 = IF rolls \/ done THEN 0 ELSE way],
              phases |-> ~done]

(* velocity_motion: the speed asked for is taken up within the cycle.      *)
NextByVelocity == position + ctl.speed

(* timed_motion: cut short, it ends with the stage it is in.               *)
NextByTime(rolls) ==
    [to |-> position + (IF ctl.cut /\ ~rolls THEN 0 ELSE Sign(ctl.left)),
     left |-> IF ctl.cut THEN 0 ELSE ctl.left - Sign(ctl.left)]

(* do_hard_stop or is_active with nothing left: motion_done(), the node's   *)
(* wire is ready again and the motor has no control.                       *)
MotionDone ==
    /\ ctl' = None
    /\ axisWire' = "ready"
    /\ goal' = None

(* The limit switches stand at the ends of the travel.                     *)
Overtravel(to) == (to > position /\ position = High) \/ (to < position /\ position = Low)

(* The rest of control_mode_csp, once the position of the cycle is known:  *)
(* the movement goes on as `rest' or is no longer active.                  *)
Moved(to, active, rest) ==
    IF Overtravel(to)
    THEN MotionDone /\ UNCHANGED position
    ELSE /\ position' = to
         /\ IF active THEN ctl' = rest /\ UNCHANGED <<axisWire, goal>> ELSE MotionDone

ControlModeCsp ==
    \/ tripped /\ MotionDone /\ UNCHANGED <<position, byPosition>>
    \/ /\ ~tripped /\ ctl.by = "position"
       /\ byPosition' = NextByPosition.motion
       /\ Moved(NextByPosition.to, NextByPosition.phases, [ctl EXCEPT !.phases = TRUE])
    \/ /\ ~tripped /\ ctl.by = "velocity"
       /\ Moved(NextByVelocity, ctl.speed # 0, ctl)
       /\ UNCHANGED byPosition
    \/ /\ ~tripped /\ ctl.by = "time"
       /\ \E rolls \in BOOLEAN :
            LET next == NextByTime(rolls)
            IN  Moved(next.to, next.left # 0, [ctl EXCEPT !.left = next.left])
       /\ UNCHANGED byPosition

-----------------------------------------------------------------------------
(* servo_motor::update: the handler of the mode, then the movement.        *)

Enter(mode) == motor' = [motor EXCEPT !.mode = mode]
Command(word) == motor' = [motor EXCEPT !.word = word]

TurningOff ==
    /\ motor.mode = "turning_off"
    /\ CASE drive.state = "fault" -> Enter("fault_reset_0")
         [] drive.state = "running" -> Command("0111")
         [] drive.state = "enable" -> Command("0110")
         [] drive.state = "ready" -> Command("0000")
         [] drive.state = "fault_free" -> Enter("turning_on")
    /\ UNCHANGED <<position, axisWire>>

(* The position is read from the drive; an axis without power may have     *)
(* been turned.  driver_was_running(true) opens the wire.                  *)
TurningOn ==
    /\ motor.mode = "turning_on"
    /\ \/ position' = position
       \/ drive.state \in {"fault_free", "ready"} /\ position' \in Places
    /\ CASE drive.state = "fault" -> Enter("fault_reset_0")
         [] drive.state = "fault_free" -> Command("0110")
         [] drive.state = "ready" -> Command("0111")
         [] drive.state = "enable" -> Command("1111")
         [] drive.state = "running" -> Enter("running")
    /\ axisWire' = IF motor'.mode = "running" THEN "ready" ELSE axisWire

(* Mutant of the next: the reset bit is not sent.                          *)
FaultReset_NoBit(mode, word, next) ==
    /\ motor.mode = mode
    /\ IF drive.state = "fault" THEN Command("0000") ELSE Enter(next)
    /\ UNCHANGED <<position, axisWire>>

FaultReset(mode, word, next) ==
    /\ motor.mode = mode
    /\ IF drive.state = "fault" THEN Command(word) ELSE Enter(next)
    /\ UNCHANGED <<position, axisWire>>

BringUp ==
    /\ \/ TurningOff
       \/ TurningOn
       \/ FaultReset("fault_reset_0", "reset", "fault_reset_1")
       \/ FaultReset("fault_reset_1", "0000", "fault_reset_2")
       \/ FaultReset("fault_reset_2", "reset", "turning_off")
    /\ UNCHANGED <<ctl, goal, byPosition>>

(* Mutant of the next: the movement stays in command.                      *)
RunningLost_KeepsControl ==
    /\ motor.mode = "running" /\ drive.state # "running"
    /\ Enter("turning_off")
    /\ axisWire' = "blocked"
    /\ UNCHANGED <<position, byPosition, ctl, goal>>

(* running(): the drive is no longer in operation.  The movement ends with *)
(* an error and driver_was_running(false) blocks the wire.                 *)
RunningLost ==
    /\ motor.mode = "running" /\ drive.state # "running"
    /\ Enter("turning_off")
    /\ ctl' = None /\ goal' = None
    /\ axisWire' = "blocked"
    /\ UNCHANGED <<position, byPosition>>

(* motion_ is called with a control only: an idle motor is left alone.     *)
Running ==
    /\ motor.mode = "running" /\ drive.state = "running"
    /\ ctl # None
    /\ ControlModeCsp
    /\ UNCHANGED motor

Update ==
    /\ BringUp \/ RunningLost \/ Running
    /\ UNCHANGED <<drive, tripped, origin, faults>>

-----------------------------------------------------------------------------
(* The drive and the inputs (external).                                    *)

(* The state the drive goes to when it reads the word w.                   *)
Follows(w) ==
    LET edge == w = "reset" /\ (EdgeReset => drive.seen # "reset")
    IN  CASE drive.state = "fault" -> IF edge /\ ~drive.cause THEN "fault_free" ELSE "fault"
          [] drive.state = "fault_free" -> IF w = "0110" THEN "ready" ELSE "fault_free"
          [] drive.state = "ready" -> IF w = "0111" THEN "enable"
                                      ELSE IF w = "0000" THEN "fault_free" ELSE "ready"
          [] drive.state = "enable" -> IF w = "1111" THEN "running"
                                       ELSE IF w = "0110" THEN "ready" ELSE "enable"
          [] drive.state = "running" -> IF w = "0111" THEN "enable" ELSE "running"

DriveReads ==
    /\ drive' = [drive EXCEPT !.state = Follows(motor.word), !.seen = motor.word]
    /\ drive' # drive
    /\ UNCHANGED <<motor, ctl, tripped, position, byPosition, origin, axisWire, goal, faults>>

DriveFaults ==
    /\ faults < MaxFaults /\ drive.state # "fault"
    /\ \E cause \in {FALSE, LastingFault} :
         drive' = [drive EXCEPT !.state = "fault", !.cause = cause]
    /\ faults' = faults + 1
    /\ UNCHANGED <<motor, ctl, tripped, position, byPosition, origin, axisWire, goal>>

CauseGone ==
    /\ drive.cause /\ drive' = [drive EXCEPT !.cause = FALSE]
    /\ UNCHANGED <<motor, ctl, tripped, position, byPosition, origin, axisWire, goal, faults>>

InputChanges ==
    /\ tripped' = ~tripped
    /\ UNCHANGED <<motor, ctl, drive, position, byPosition, origin, axisWire, goal, faults>>

-----------------------------------------------------------------------------
(* axis_motion_node: the commands of the wire.  The bus does not hand a    *)
(* command to a blocked node; a command that is refused makes it ready.    *)

InCommand(by) == ctl # None /\ ctl.by = by
Accepted == axisWire' = "active"
Refused == axisWire' = "ready" /\ UNCHANGED <<ctl, byPosition, goal>>
ByPosition == [by |-> "position", speed |-> 1, phases |-> FALSE]

(* What an order promises; nothing older is to be added to a fresh one.    *)
Goal(order, place, fresh) ==
    [order |-> order, at |-> place, fresh |-> fresh /\ byPosition.relative = None]

(* Mutant of the next: the place is not taken from the origin.             *)
CmdMoveTo_NoOrigin(pos) ==
    IF ctl # None /\ ~InCommand("position") THEN Refused
    ELSE /\ byPosition' = [byPosition EXCEPT !.target = pos]
         /\ ctl' = ByPosition
         /\ goal' = Goal("move-to", pos + origin, TRUE)
         /\ Accepted

CmdMoveTo(pos) ==
    IF ctl # None /\ ~InCommand("position") THEN Refused
    ELSE /\ byPosition' = [byPosition EXCEPT !.target = pos + origin]
         /\ ctl' = ByPosition
         /\ goal' = Goal("move-to", pos + origin, TRUE)
         /\ Accepted

(* Refused when it is the movement by position that is in command; another *)
(* one stays in command and the shift waits.                               *)
CmdShift(dpos) ==
    IF InCommand("position") THEN Refused
    ELSE /\ byPosition' = [byPosition EXCEPT !.relative = OrElse(@, 0) + dpos]
         /\ IF ctl # None THEN goal' = None /\ UNCHANGED ctl
            ELSE /\ ctl' = ByPosition
                 /\ goal' = Goal("shift", position + dpos,
                                 byPosition.target \in {None, position})
         /\ Accepted

CmdSpin(speed) ==
    IF ctl # None /\ ~InCommand("velocity") THEN Refused
    ELSE /\ ctl' = [by |-> "velocity", speed |-> speed]
         /\ goal' = None
         /\ Accepted /\ UNCHANGED byPosition

CmdTimedShift(left) ==
    IF ctl # None THEN Refused
    ELSE /\ ctl' = [by |-> "time", left |-> left, cut |-> FALSE]
         /\ goal' = None
         /\ Accepted /\ UNCHANGED byPosition

(* What "stop" and a deactivation tell the movements: a plan by position   *)
(* is made anew for speed zero.                                            *)
StopAll ==
    /\ ctl' = CASE InCommand("position") -> [ByPosition EXCEPT !.speed = 0]
                [] InCommand("velocity") -> [ctl EXCEPT !.speed = 0]
                [] InCommand("time") -> [ctl EXCEPT !.cut = TRUE]
                [] OTHER -> None
    /\ goal' = None
    /\ UNCHANGED byPosition

Order ==
    /\ axisWire # "blocked"
    /\ \/ \E p \in Places : p + origin \in Places /\ CmdMoveTo(p)
       \/ \E d \in Shifts : Target + d \in Reach /\ CmdShift(d)
       \/ \E v \in {-1, 0, 1} : CmdSpin(v)
       \/ \E n \in TimedShifts : CmdTimedShift(n)
       \/ StopAll /\ Accepted
    /\ UNCHANGED <<motor, drive, tripped, position, origin, faults>>

(* "zerro" answers at once; the bus then shows the wire ready.             *)
CmdZerro ==
    /\ axisWire # "blocked"
    /\ origin' = IF ctl = None THEN position ELSE origin
    /\ axisWire' = "ready"
    /\ UNCHANGED <<motor, ctl, drive, tripped, position, byPosition, goal, faults>>

(* The client lets the wire go: an axis in movement stops first.           *)
Deactivate ==
    /\ axisWire # "blocked"
    /\ StopAll
    /\ axisWire' = IF ctl = None THEN "ready" ELSE "blocked"
    /\ UNCHANGED <<motor, drive, tripped, position, origin, faults>>

-----------------------------------------------------------------------------
AxisNext ==
    \/ Update \/ DriveReads \/ DriveFaults \/ CauseGone \/ InputChanges
    \/ Order \/ CmdZerro \/ Deactivate

AxisSpec == AxisInit /\ [][AxisNext]_axisVars

(* The cycle of the master goes on and the drive reads what it is sent.    *)
AxisFairness == WF_axisVars(Update) /\ WF_axisVars(DriveReads) /\ WF_axisVars(CauseGone)
AxisFairSpec == AxisSpec /\ AxisFairness

-----------------------------------------------------------------------------
(* A movement is in command only of a motor whose wire was opened, and the *)
(* wire is open only while the motor is in operation.                      *)
MovesOnlyRunning ==
    /\ ctl # None => motor.mode = "running"
    /\ axisWire # "blocked" => motor.mode = "running"

(* A wire that a deactivation has blocked is one on which a movement is    *)
(* still ending: nothing else could open it again.                         *)
BlockedWillOpen == axisWire = "blocked" /\ motor.mode = "running" => ctl # None

AxisSafe == MovesOnlyRunning /\ BlockedWillOpen

(* A movement by position has come to its end in this step: it was not     *)
(* stopped by an input or a limit switch.                                  *)
EndsByItself ==
    /\ motor.mode = "running" /\ drive.state = "running" /\ ~tripped
    /\ InCommand("position") /\ ctl' = None
    /\ ~Overtravel(NextByPosition.to)

(* An order given when no older shift was in play ends where it was told   *)
(* to, however often it was told anew on the way, unless it is stopped,    *)
(* replaced by another movement or cut off.                                *)
EndsAtGoal ==
    [][goal # None /\ EndsByItself => (goal.fresh => position' = goal.at)]_axisVars

(* The title of the field for "shift", axis-ctl-widget.cpp:129, says how   *)
(* far the axis moves: a shift of an axis at rest ends at that distance.   *)
ShiftMovesBy ==
    [][goal # None /\ EndsByItself => (goal.order = "shift" => position' = goal.at)]_axisVars

(* A blocked axis comes back: the drive recovers from its faults and a     *)
(* movement that was told to stop ends.                                    *)
ComesBack == axisWire = "blocked" ~> axisWire # "blocked"
=============================================================================
