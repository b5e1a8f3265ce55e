----------------------------- MODULE Hand_proofs -----------------------------
(***************************************************************************)
(* Proofs about manual control: the axis with its client, for every travel, *)
(* every order and every fault of the drive; the hand unit with the keys of *)
(* the panel, for every set of axes and contacts and a filter of any length. *)
(***************************************************************************)
EXTENDS MC_Hand, DataLemmas

(***************************************************************************)
(* The axis.  An order in execution ends where its goal says: while its plan *)
(* is not made the target and the shift that has piled up add up to it,     *)
(* once it is made the target is it.                                       *)
(***************************************************************************)
AxisTypes ==
    /\ motor \in [mode : Modes, word : ControlWords]
    /\ drive \in [state : DriveStates, seen : ControlWords, cause : BOOLEAN]
    /\ ctl \in Controls \cup {None}
    /\ position \in Int /\ origin \in Int
    /\ byPosition \in [target : Int \cup {None}, relative : Int \cup {None}, v0 : Int]
    /\ axisWire \in {"blocked", "ready", "active"}

GoalAhead ==
    goal # None =>
        /\ InCommand("position") /\ ctl.speed = 1
        /\ goal.fresh => (IF ctl.phases THEN byPosition.target ELSE Target) = goal.at

AxisInv == AxisTypes /\ AxisSafe

LEMMA AxisInvInit == AxisInit => AxisInv /\ GoalAhead
<1> SUFFICES ASSUME AxisInit PROVE AxisInv /\ GoalAhead
  OBVIOUS
<1> USE DEF AxisInit
<1>1. AxisTypes
  <2>1. motor \in [mode : Modes, word : ControlWords]
    BY DEF Modes, ControlWords
  <2>2. drive \in [state : DriveStates, seen : ControlWords, cause : BOOLEAN]
    BY DEF DriveStates, ControlWords
  <2>3. position \in Int /\ origin \in Int
    BY ServoAssumption
  <2>4. byPosition \in [target : Int \cup {None}, relative : Int \cup {None}, v0 : Int]
    OBVIOUS
  <2> QED BY <2>1, <2>2, <2>3, <2>4 DEF AxisTypes
<1>2. AxisSafe /\ GoalAhead
  BY DEF AxisSafe, MovesOnlyRunning, BlockedWillOpen, GoalAhead
<1> QED BY <1>1, <1>2 DEF AxisInv

(* A motor that is not in operation has no movement and a closed wire.      *)
LEMMA BringUpKeeps ==
  ASSUME AxisInv, BringUp, UNCHANGED <<drive, tripped, origin, faults>>
  PROVE  AxisInv'
<1> USE DEF AxisInv, AxisTypes, AxisSafe
<1>1. motor.mode # "running" /\ ctl = None /\ axisWire = "blocked"
  BY DEF BringUp, TurningOff, TurningOn, FaultReset, MovesOnlyRunning
<1>2. /\ motor' \in [mode : Modes, word : ControlWords] /\ position' \in Int
      /\ axisWire' = IF motor'.mode = "running" THEN "ready" ELSE axisWire
  <2>1. CASE TurningOff
    BY <1>1, <2>1 DEF TurningOff, Enter, Command, Modes, DriveStates, ControlWords
  <2>2. CASE TurningOn
    BY <1>1, <2>2, ServoAssumption DEF TurningOn, Enter, Command, Modes, DriveStates, ControlWords
  <2>3. ASSUME NEW mode \in Modes, NEW word \in ControlWords, NEW next \in Modes, next # "running",
               FaultReset(mode, word, next)
        PROVE  /\ motor' \in [mode : Modes, word : ControlWords]
               /\ position' = position /\ motor'.mode # "running" /\ axisWire' = axisWire
    BY <1>1, <2>3 DEF FaultReset, Enter, Command, Modes, ControlWords
  <2>4. CASE FaultReset("fault_reset_0", "reset", "fault_reset_1")
    BY <2>3, <2>4 DEF Modes, ControlWords
  <2>5. CASE FaultReset("fault_reset_1", "0000", "fault_reset_2")
    BY <2>3, <2>5 DEF Modes, ControlWords
  <2>6. CASE FaultReset("fault_reset_2", "reset", "turning_off")
    BY <2>3, <2>6 DEF Modes, ControlWords
  <2> QED BY <2>1, <2>2, <2>4, <2>5, <2>6 DEF BringUp
<1>3. ctl' = None /\ UNCHANGED <<drive, origin, byPosition>>
  BY <1>1 DEF BringUp
<1> QED BY <1>1, <1>2, <1>3 DEF MovesOnlyRunning, BlockedWillOpen

(* A cycle of a movement leaves it in command or ends it; only its end       *)
(* touches the wire.                                                       *)
CycleEnds == ctl' = None /\ axisWire' = "ready" /\ goal' = None
CycleGoesOn == ctl' \in Controls /\ ctl'.by = ctl.by /\ UNCHANGED <<axisWire, goal>>

LEMMA MovedTo ==
  ASSUME NEW to, NEW active, NEW rest, Moved(to, active, rest)
  PROVE  /\ MotionDone \/ (active /\ ctl' = rest /\ UNCHANGED <<axisWire, goal>>)
         /\ position' \in {to, position}
         /\ ~active => MotionDone
         /\ ~Overtravel(to) => position' = to
         /\ active /\ ~Overtravel(to) => ctl' = rest /\ UNCHANGED <<axisWire, goal>>
  BY DEF Moved

LEMMA CycleByPosition ==
  ASSUME AxisInv, ctl \in Controls, ctl.by = "position"
  PROVE  /\ NextByPosition.to \in Int
         /\ NextByPosition.motion \in [target : Int \cup {None}, relative : Int \cup {None}, v0 : Int]
         /\ NextByPosition.motion.target = Planned.target
<1> DEFINE p == Planned
           way == Sign(p.target - position)
           rolls == p.v0 # 0 /\ (ctl.speed = 0 \/ p.v0 # way)
           next == position + (IF rolls THEN p.v0 ELSE IF ctl.speed = 0 THEN 0 ELSE way)
           done == ~rolls /\ (ctl.speed = 0 \/ next = p.target)
           v == IF rolls \/ done THEN 0 ELSE way
<1>1. Target \in Int
  BY ServoAssumption DEF Target, OrElse, AxisInv, AxisTypes
<1>2. p \in [target : Int \cup {None}, relative : Int \cup {None}, v0 : Int]
  BY <1>1 DEF Planned, AxisInv, AxisTypes
<1>3. way \in Int
  BY DEF Sign
<1>4. next \in Int /\ v \in Int
  BY <1>2, <1>3 DEF AxisInv, AxisTypes
<1>5. /\ NextByPosition.to \in {position, next}
      /\ NextByPosition.motion \in {p, [p EXCEPT !.v0 = v]}
  BY DEF NextByPosition
<1> HIDE DEF p, next, v
<1> QED BY <1>2, <1>4, <1>5 DEF AxisInv, AxisTypes, p

LEMMA RunningKeeps ==
  ASSUME AxisInv, Running, UNCHANGED <<drive, tripped, origin, faults>>
  PROVE  /\ AxisInv'
         /\ CycleEnds \/ CycleGoesOn
<1> USE DEF AxisInv, AxisTypes
<1>0. /\ ctl \in Controls /\ motor.mode = "running" /\ UNCHANGED <<motor, drive, origin>>
      /\ ControlModeCsp
  BY DEF Running
<1>1. /\ CycleEnds \/ CycleGoesOn
      /\ position' \in Int
      /\ byPosition' \in [target : Int \cup {None}, relative : Int \cup {None}, v0 : Int]
  <2>1. CASE tripped /\ MotionDone /\ UNCHANGED <<position, byPosition>>
    BY <2>1 DEF MotionDone, CycleEnds
  <2>2. CASE /\ ctl.by = "position" /\ byPosition' = NextByPosition.motion
             /\ Moved(NextByPosition.to, NextByPosition.phases, [ctl EXCEPT !.phases = TRUE])
    <3>1. [ctl EXCEPT !.phases = TRUE] \in Controls /\ [ctl EXCEPT !.phases = TRUE].by = ctl.by
      BY <1>0, <2>2 DEF Controls
    <3>2. MotionDone \/ (ctl' = [ctl EXCEPT !.phases = TRUE] /\ UNCHANGED <<axisWire, goal>>)
      BY <2>2, MovedTo
    <3>3. position' \in {NextByPosition.to, position}
      BY <2>2, MovedTo
    <3>4. NextByPosition.to \in Int
      BY <1>0, <2>2, CycleByPosition
    <3>5. byPosition' \in [target : Int \cup {None}, relative : Int \cup {None}, v0 : Int]
      BY <1>0, <2>2, CycleByPosition
    <3>6. CycleEnds \/ CycleGoesOn
      BY <3>1, <3>2 DEF MotionDone, CycleEnds, CycleGoesOn
    <3> QED BY <3>3, <3>4, <3>5, <3>6
  <2>3. CASE /\ ctl.by = "velocity" /\ Moved(NextByVelocity, ctl.speed # 0, ctl)
             /\ UNCHANGED byPosition
    <3>1. MotionDone \/ (ctl' = ctl /\ UNCHANGED <<axisWire, goal>>)
      BY <2>3, MovedTo
    <3>2. position' \in {NextByVelocity, position} /\ NextByVelocity \in Int
      BY <1>0, <2>3, MovedTo DEF NextByVelocity, Controls
    <3> QED BY <1>0, <2>3, <3>1, <3>2 DEF MotionDone, CycleEnds, CycleGoesOn
  <2>4. ASSUME NEW rolls \in BOOLEAN, ctl.by = "time", UNCHANGED byPosition,
               Moved(NextByTime(rolls).to, NextByTime(rolls).left # 0,
                     [ctl EXCEPT !.left = NextByTime(rolls).left])
        PROVE  /\ CycleEnds \/ CycleGoesOn
               /\ position' \in Int /\ byPosition' = byPosition
    <3> DEFINE n == NextByTime(rolls).left
    <3>1. ctl.left \in Int /\ ctl \in [by : {"time"}, left : Int \ {0}, cut : BOOLEAN]
      BY <1>0, <2>4 DEF Controls
    <3>2. n \in Int /\ NextByTime(rolls).to \in Int
      BY <3>1 DEF NextByTime, Sign
    <3> HIDE DEF n
    <3>3. MotionDone \/ (n # 0 /\ ctl' = [ctl EXCEPT !.left = n] /\ UNCHANGED <<axisWire, goal>>)
      BY <2>4, MovedTo DEF n
    <3>4. position' \in {NextByTime(rolls).to, position}
      BY <2>4, MovedTo
    <3>5. n # 0 => [ctl EXCEPT !.left = n] \in Controls /\ [ctl EXCEPT !.left = n].by = ctl.by
      BY <3>1, <3>2 DEF Controls
    <3>6. CycleEnds \/ CycleGoesOn
      BY <3>3, <3>5 DEF MotionDone, CycleEnds, CycleGoesOn
    <3> QED BY <2>4, <3>2, <3>4, <3>6
  <2> QED BY <1>0, <2>1, <2>2, <2>3, <2>4 DEF ControlModeCsp
<1>2. ctl' \in Controls \cup {None} /\ axisWire' \in {"blocked", "ready", "active"}
  BY <1>1 DEF CycleEnds, CycleGoesOn
<1>3. AxisTypes'
  BY <1>0, <1>1, <1>2
<1>4. AxisSafe'
  BY <1>0, <1>1, ControlAssumption DEF CycleEnds, CycleGoesOn, AxisSafe, MovesOnlyRunning, BlockedWillOpen
<1> QED BY <1>1, <1>3, <1>4

(* Of the commands only those that the motor obeys leave a movement.        *)
LEMMA CommandKeeps ==
  ASSUME AxisInv, Order \/ CmdZerro \/ Deactivate
  PROVE  AxisInv' /\ (ctl # None => ctl' # None)
<1> USE DEF AxisInv, AxisTypes
<1>1. axisWire # "blocked" /\ motor.mode = "running" /\ UNCHANGED <<motor, drive, position>>
  BY DEF Order, CmdZerro, Deactivate, AxisSafe, MovesOnlyRunning
<1>2. ByPosition \in Controls /\ [ByPosition EXCEPT !.speed = 0] \in Controls
  BY DEF ByPosition, Controls
<1>3. ASSUME StopAll
      PROVE  /\ ctl' \in Controls \cup {None} /\ (ctl # None => ctl' \in Controls)
             /\ byPosition' = byPosition
  <2>1. CASE InCommand("position")
    BY <1>2, <1>3, <2>1 DEF StopAll, InCommand
  <2>2. CASE InCommand("velocity")
    <3>1. [ctl EXCEPT !.speed = 0] \in Controls
      BY <2>2 DEF InCommand, Controls
    <3> QED BY <1>3, <2>2, <3>1 DEF StopAll, InCommand
  <2>3. CASE InCommand("time")
    <3>1. [ctl EXCEPT !.cut = TRUE] \in Controls
      BY <2>3 DEF InCommand, Controls
    <3> QED BY <1>3, <2>3, <3>1 DEF StopAll, InCommand
  <2>4. ctl # None => InCommand("position") \/ InCommand("velocity") \/ InCommand("time")
    BY DEF InCommand, Controls
  <2> QED BY <1>3, <2>1, <2>2, <2>3, <2>4 DEF StopAll
<1>4. CASE Order
  <2>1. origin' = origin
    BY <1>4 DEF Order
  <2> DEFINE Obeyed ==
        /\ ctl' \in Controls \cup {None} /\ (ctl # None => ctl' \in Controls)
        /\ axisWire' \in {"active", "ready"}
        /\ byPosition' \in [target : Int \cup {None}, relative : Int \cup {None}, v0 : Int]
  <2>2. Obeyed
    <3>1. ASSUME NEW p \in Places, CmdMoveTo(p) PROVE Obeyed
      <4>1. p + origin \in Int
        BY ServoAssumption
      <4>2. [byPosition EXCEPT !.target = p + origin]
              \in [target : Int \cup {None}, relative : Int \cup {None}, v0 : Int]
        BY <4>1
      <4> QED BY <1>2, <3>1, <4>2 DEF CmdMoveTo, Refused, Accepted
    <3>2. ASSUME NEW d \in Shifts, CmdShift(d) PROVE Obeyed
      <4>1. OrElse(byPosition.relative, 0) + d \in Int
        BY ServoAssumption DEF OrElse
      <4> QED BY <1>2, <3>2, <4>1 DEF CmdShift, Refused, Accepted
    <3>3. ASSUME NEW v \in {-1, 0, 1}, CmdSpin(v) PROVE Obeyed
      <4>1. [by |-> "velocity", speed |-> v] \in Controls
        BY DEF Controls
      <4> QED BY <3>3, <4>1 DEF CmdSpin, Refused, Accepted
    <3>4. ASSUME NEW n \in TimedShifts, CmdTimedShift(n) PROVE Obeyed
      <4>1. [by |-> "time", left |-> n, cut |-> FALSE] \in Controls
        BY ServoAssumption DEF Controls
      <4> QED BY <3>4, <4>1 DEF CmdTimedShift, Refused, Accepted
    <3>5. CASE StopAll /\ Accepted
      BY <1>3, <3>5 DEF Accepted
    <3> QED BY <1>4, <3>1, <3>2, <3>3, <3>4, <3>5 DEF Order
  <2> QED BY <1>1, <2>1, <2>2, ControlAssumption DEF AxisSafe, MovesOnlyRunning, BlockedWillOpen
<1>5. CASE CmdZerro
  BY <1>1, <1>5 DEF CmdZerro, AxisSafe, MovesOnlyRunning, BlockedWillOpen
<1>6. CASE Deactivate
  <2>1. StopAll /\ origin' = origin /\ axisWire' = (IF ctl = None THEN "ready" ELSE "blocked")
    BY <1>6 DEF Deactivate
  <2> QED BY <1>1, <1>3, <2>1, ControlAssumption DEF AxisSafe, MovesOnlyRunning, BlockedWillOpen
<1> QED BY <1>4, <1>5, <1>6

(* The drive and the inputs do not touch the axis at once.                 *)
Outside == DriveReads \/ DriveFaults \/ CauseGone \/ InputChanges

LEMMA OutsideKeeps ==
  ASSUME AxisInv, Outside
  PROVE  AxisInv'
<1> USE DEF AxisInv, AxisTypes
<1>1. UNCHANGED <<motor, ctl, position, byPosition, origin, axisWire, goal>>
  BY DEF Outside, DriveReads, DriveFaults, CauseGone, InputChanges
<1>2. drive' \in [state : DriveStates, seen : ControlWords, cause : BOOLEAN]
  <2>1. CASE DriveReads
    <3>1. Follows(motor.word) \in DriveStates
      BY DEF Follows, DriveStates
    <3> QED BY <2>1, <3>1 DEF DriveReads
  <2>2. CASE DriveFaults
    BY <2>2, ServoAssumption DEF DriveFaults, DriveStates
  <2>3. CASE CauseGone
    BY <2>3 DEF CauseGone
  <2>4. CASE InputChanges
    BY <2>4 DEF InputChanges
  <2> QED BY <2>1, <2>2, <2>3, <2>4 DEF Outside
<1> QED BY <1>1, <1>2 DEF AxisSafe, MovesOnlyRunning, BlockedWillOpen

LEMMA AxisInvStep == AxisInv /\ [AxisNext]_axisVars => AxisInv'
<1> SUFFICES ASSUME AxisInv, [AxisNext]_axisVars PROVE AxisInv'
  OBVIOUS
<1>1. CASE Update
  <2>1. CASE BringUp
    BY <1>1, <2>1, BringUpKeeps DEF Update
  <2>2. CASE RunningLost
    <3>1. /\ motor' \in [mode : Modes, word : ControlWords] /\ motor'.mode = "turning_off"
      BY <2>2 DEF RunningLost, Enter, Modes, AxisInv, AxisTypes
    <3> QED BY <1>1, <2>2, <3>1 DEF Update, RunningLost, AxisInv, AxisTypes, AxisSafe, MovesOnlyRunning,
                                    BlockedWillOpen
  <2>3. CASE Running
    BY <1>1, <2>3, RunningKeeps DEF Update
  <2> QED BY <1>1, <2>1, <2>2, <2>3 DEF Update
<1>2. CASE Outside
  BY <1>2, OutsideKeeps
<1>3. CASE Order \/ CmdZerro \/ Deactivate
  BY <1>3, CommandKeeps
<1>4. CASE UNCHANGED axisVars
  BY <1>4 DEF axisVars, AxisInv, AxisTypes, AxisSafe, MovesOnlyRunning, BlockedWillOpen
<1> QED BY <1>1, <1>2, <1>3, <1>4 DEF AxisNext, Outside

-----------------------------------------------------------------------------
(***************************************************************************)
(* The goal of an order.  The plan is made in the first cycle after it, and *)
(* until then neither the place nor the shift can change.                  *)
(***************************************************************************)
LEMMA PlanLeadsToGoal ==
  ASSUME AxisInv, GoalAhead, goal # None, goal.fresh
  PROVE  /\ Planned.target = goal.at
         /\ ctl.speed = 1 /\ ctl.by = "position"
  BY DEF GoalAhead, Planned, InCommand, AxisInv, AxisTypes

(* The movement that ends by itself stands at the target of its plan.       *)
LEMMA EndIsTarget ==
  ASSUME AxisInv, ctl \in Controls, ctl.by = "position", ctl.speed = 1, ~NextByPosition.phases
  PROVE  NextByPosition.to = Planned.target
<1> DEFINE p == Planned
           way == Sign(p.target - position)
           rolls == p.v0 # 0 /\ (ctl.speed = 0 \/ p.v0 # way)
           next == position + (IF rolls THEN p.v0 ELSE IF ctl.speed = 0 THEN 0 ELSE way)
           done == ~rolls /\ (ctl.speed = 0 \/ next = p.target)
           still == ~ctl.phases /\ way = 0
<1>1. CASE still
  <2>1. NextByPosition.to = position
    BY <1>1 DEF NextByPosition
  <2>2. p.target \in Int
    <3>1. Target \in Int
      BY ServoAssumption DEF Target, OrElse, AxisInv, AxisTypes
    <3> QED BY <1>1, <3>1 DEF Planned, AxisInv, AxisTypes
  <2>3. p.target - position = 0
    BY <1>1, <2>2 DEF Sign, AxisInv, AxisTypes
  <2> QED BY <2>1, <2>2, <2>3 DEF AxisInv, AxisTypes
<1>2. CASE ~still
  <2>1. NextByPosition.to = next /\ (NextByPosition.phases <=> ~done)
    BY <1>2 DEF NextByPosition
  <2> QED BY <2>1
<1> QED BY <1>1, <1>2

LEMMA OrderSetsGoal ==
  ASSUME AxisInv, GoalAhead, Order
  PROVE  GoalAhead'
<1> USE DEF AxisInv, AxisTypes
<1>1. position' = position /\ origin' = origin
  BY DEF Order
<1>0. /\ ByPosition # None /\ ByPosition.by = "position" /\ ByPosition.speed = 1
      /\ ByPosition.phases = FALSE
  <2>1. ByPosition \in Controls
    BY DEF ByPosition, Controls
  <2> QED BY <2>1, ControlAssumption DEF ByPosition
<1>2. CASE UNCHANGED <<ctl, byPosition, goal>>
  BY <1>1, <1>2 DEF GoalAhead, InCommand, Target
<1>3. CASE goal' = None
  BY <1>3 DEF GoalAhead
<1>4. ASSUME NEW p \in Places, CmdMoveTo(p) PROVE GoalAhead'
  <2>1. p + origin \in Int /\ p + origin # None
    BY ServoAssumption
  <2>2. CASE ctl' = ByPosition /\ byPosition' = [byPosition EXCEPT !.target = p + origin]
             /\ goal' = Goal("move-to", p + origin, TRUE)
    <3>1. byPosition'.target = p + origin /\ byPosition'.relative = byPosition.relative
      BY <2>2
    <3>2. goal'.at = p + origin /\ (goal'.fresh => byPosition.relative = None)
      BY <2>2 DEF Goal
    <3>3. ASSUME goal'.fresh PROVE Target' = goal'.at
      <4>1. Target' = OrElse(byPosition'.target, position') + OrElse(byPosition'.relative, 0)
        BY DEF Target, OrElse
      <4>2. OrElse(byPosition'.target, position') = p + origin
        BY <2>1, <3>1 DEF OrElse
      <4>3. OrElse(byPosition'.relative, 0) = 0
        BY <3>1, <3>2, <3>3 DEF OrElse
      <4> QED BY <2>1, <3>2, <4>1, <4>2, <4>3
    <3> QED BY <1>0, <2>2, <3>3 DEF GoalAhead, InCommand
  <2> QED BY <1>2, <1>4, <2>2 DEF CmdMoveTo, Refused
<1>5. ASSUME NEW d \in Shifts, CmdShift(d) PROVE GoalAhead'
  <2>1. CASE ctl = None /\ ctl' = ByPosition
             /\ byPosition' = [byPosition EXCEPT !.relative = OrElse(@, 0) + d]
             /\ goal' = Goal("shift", position + d, byPosition.target \in {None, position})
    <3>1. byPosition'.target = byPosition.target
          /\ byPosition'.relative = OrElse(byPosition.relative, 0) + d
      BY <2>1
    <3>2. goal'.at = position + d
          /\ (goal'.fresh => byPosition.relative = None /\ byPosition.target \in {None, position})
      BY <2>1 DEF Goal
    <3>3. d \in Int /\ d # None
      BY ServoAssumption
    <3>4. ASSUME goal'.fresh PROVE Target' = goal'.at
      <4>1. Target' = OrElse(byPosition'.target, position') + OrElse(byPosition'.relative, 0)
        BY DEF Target, OrElse
      <4>2. OrElse(byPosition'.target, position') = position
        BY <1>1, <3>1, <3>2, <3>4 DEF OrElse
      <4>3. OrElse(byPosition'.relative, 0) = d
        BY <3>1, <3>2, <3>3, <3>4, ServoAssumption DEF OrElse
      <4> QED BY <3>2, <4>1, <4>2, <4>3
    <3> QED BY <1>0, <2>1, <3>4 DEF GoalAhead, InCommand
  <2> QED BY <1>2, <1>3, <1>5, <2>1 DEF CmdShift, Refused
<1>6. ASSUME NEW v \in {-1, 0, 1}, CmdSpin(v) PROVE GoalAhead'
  BY <1>2, <1>3, <1>6 DEF CmdSpin, Refused
<1>7. ASSUME NEW n \in TimedShifts, CmdTimedShift(n) PROVE GoalAhead'
  BY <1>2, <1>3, <1>7 DEF CmdTimedShift, Refused
<1>8. CASE StopAll
  BY <1>3, <1>8 DEF StopAll
<1> QED BY <1>4, <1>5, <1>6, <1>7, <1>8 DEF Order

LEMMA GoalAheadStep ==
  AxisInv /\ GoalAhead /\ [AxisNext]_axisVars => GoalAhead'
<1> SUFFICES ASSUME AxisInv, GoalAhead, [AxisNext]_axisVars PROVE GoalAhead'
  OBVIOUS
<1> USE DEF AxisInv, AxisTypes
<1>1. CASE UNCHANGED <<ctl, byPosition, goal, position>>
  BY <1>1 DEF GoalAhead, InCommand, Target
<1>2. CASE BringUp
  <2>1. ctl = None
    BY <1>2 DEF BringUp, TurningOff, TurningOn, FaultReset, AxisSafe, MovesOnlyRunning
  <2> QED BY <1>2, <2>1 DEF BringUp, GoalAhead, InCommand
<1>3. CASE RunningLost
  BY <1>3 DEF RunningLost, GoalAhead
<1>4. CASE Running /\ UNCHANGED <<drive, tripped, origin, faults>>
  <2>1. CycleEnds \/ CycleGoesOn
    BY <1>4, RunningKeeps
  <2>2. CASE CycleEnds \/ goal = None
    BY <2>1, <2>2 DEF CycleEnds, CycleGoesOn, GoalAhead
  <2>3. CASE CycleGoesOn /\ goal # None
    <3>1. ctl.by = "position" /\ ctl.speed = 1 /\ ctl \in Controls
      BY <2>3 DEF GoalAhead, InCommand
    <3>2. ctl' # None
      BY <2>3, ControlAssumption DEF CycleGoesOn
    <3>3. /\ byPosition' = NextByPosition.motion
          /\ Moved(NextByPosition.to, NextByPosition.phases, [ctl EXCEPT !.phases = TRUE])
      BY <1>4, <3>1, <3>2 DEF Running, ControlModeCsp, MotionDone
    <3>4. ctl' = [ctl EXCEPT !.phases = TRUE]
      BY <3>2, <3>3, MovedTo DEF MotionDone
    <3>5. ctl'.phases = TRUE /\ ctl'.speed = 1 /\ ctl'.by = "position"
      BY <3>1, <3>4 DEF Controls
    <3>6. byPosition'.target = Planned.target
      BY <3>1, <3>3, CycleByPosition
    <3>7. goal' = goal
      BY <2>3 DEF CycleGoesOn
    <3>8. goal.fresh => Planned.target = goal.at
      BY <2>3, PlanLeadsToGoal
    <3> QED BY <3>2, <3>5, <3>6, <3>7, <3>8 DEF GoalAhead, InCommand
  <2> QED BY <2>1, <2>2, <2>3
<1>5. CASE Outside
  BY <1>1, <1>5 DEF Outside, DriveReads, DriveFaults, CauseGone, InputChanges
<1>6. CASE Order
  BY <1>6, OrderSetsGoal
<1>7. CASE CmdZerro
  BY <1>1, <1>7 DEF CmdZerro
<1>8. CASE Deactivate
  BY <1>8 DEF Deactivate, StopAll, GoalAhead
<1> QED BY <1>1, <1>2, <1>3, <1>4, <1>5, <1>6, <1>7, <1>8 DEF AxisNext, Update, Outside, axisVars

(* The last step of a movement that ends by itself.                        *)
LEMMA EndIsGoal ==
  ASSUME AxisInv, GoalAhead, [AxisNext]_axisVars, goal # None, EndsByItself, goal.fresh
  PROVE  position' = goal.at
<1> USE DEF AxisInv, AxisTypes
<1>1. /\ ctl \in Controls /\ ctl.by = "position" /\ ctl' = None /\ ctl # None
      /\ motor.mode = "running" /\ drive.state = "running" /\ ~tripped
      /\ ~Overtravel(NextByPosition.to)
  BY DEF EndsByItself, InCommand
<1>2. Running
  <2>1. ~(Order \/ CmdZerro \/ Deactivate)
    BY <1>1, CommandKeeps
  <2>2. ~Outside
    BY <1>1 DEF Outside, DriveReads, DriveFaults, CauseGone, InputChanges
  <2>3. ~BringUp /\ ~RunningLost
    BY <1>1 DEF BringUp, RunningLost
  <2>4. ctl' # ctl
    BY <1>1
  <2> QED BY <2>1, <2>2, <2>3, <2>4 DEF AxisNext, Update, Outside, axisVars
<1>3. Moved(NextByPosition.to, NextByPosition.phases, [ctl EXCEPT !.phases = TRUE])
  BY <1>1, <1>2 DEF Running, ControlModeCsp
<1>4. position' = NextByPosition.to
  BY <1>1, <1>3, MovedTo
<1>5. ~NextByPosition.phases
  <2>1. [ctl EXCEPT !.phases = TRUE] \in Controls
    BY <1>1 DEF Controls
  <2> QED BY <1>1, <1>3, <2>1, MovedTo, ControlAssumption
<1>6. Planned.target = goal.at /\ ctl.speed = 1
  BY PlanLeadsToGoal
<1> QED BY <1>1, <1>4, <1>5, <1>6, EndIsTarget

-----------------------------------------------------------------------------
(***************************************************************************)
(* The hand unit.  One contact is closed at a time, the axis is the one of   *)
(* that contact; the timer runs only for an axis, and an axis that was told *)
(* a speed was told the one on record.                                     *)
(***************************************************************************)
RcuTypes ==
    /\ contacts \subseteq DOMAIN Links /\ rcuAxis \in RcuAxes \cup {NoAxis}
    /\ filter \in [1..FilterLength -> Int]
    /\ rcuTimer \in BOOLEAN
    /\ handSpeed \in [RcuAxes -> {0, 1}] /\ told \in [RcuAxes -> Int]

OneContact ==
    /\ \A k, l \in contacts : k = l
    /\ rcuAxis = SelectedAxis(contacts)

RcuInv ==
    /\ RcuTypes /\ OneContact /\ RcuSafe
    /\ rcuTimer => rcuAxis # NoAxis

LEMMA SumOfFilter ==
  /\ \A f \in [1..FilterLength -> Int] : SumOf(f) \in Int
  /\ Still \in [1..FilterLength -> Int] /\ SumOf(Still) = 0
<1>1. IsFiniteSet(1..FilterLength)
  BY RcuAssumption, FS_Interval
<1>2. ASSUME NEW f \in [1..FilterLength -> Int] PROVE SumOf(f) \in Int
  <2>1. SumOf(f) = SumFunctionOnSet(f, 1..FilterLength)
    BY DEF SumOf, SumFunction
  <2> QED BY <1>1, <2>1, SumOfSet
<1>3. Still \in [1..FilterLength -> Int]
  BY DEF Still
<1>4. SumOf(Still) = SumFunctionOnSet(Still, 1..FilterLength)
  BY DEF SumOf, SumFunction, Still
<1>5. \A i \in 1..FilterLength : Still[i] = 0
  BY DEF Still
<1> QED BY <1>1, <1>2, <1>3, <1>4, <1>5, SumOfZeros

LEMMA RcuInvInit == RcuInit => RcuInv
<1> SUFFICES ASSUME RcuInit PROVE RcuInv
  OBVIOUS
<1> USE DEF RcuInit
<1>1. RcuTypes
  BY SumOfFilter DEF RcuTypes
<1>2. OneContact /\ RcuSafe
  BY DEF OneContact, SelectedAxis, RcuSafe, OneToOne, SpinDies, KeyHeld
<1> QED BY <1>1, <1>2 DEF RcuInv

(* A value for the axis: what the timer and the record say of it afterwards. *)
LEMMA ValueKeeps ==
  ASSUME RcuInv, NEW a \in RcuAxes, rcuAxis = a, NEW f \in [1..FilterLength -> Int],
         NEW running \in BOOLEAN, CalculateNextValue(a, f, running), running \/ SumOf(f) = 0
  PROVE  /\ filter' = f /\ told' \in [RcuAxes -> Int] /\ rcuTimer' \in BOOLEAN
         /\ \A b \in RcuAxes : told'[b] # 0 => b = a /\ rcuTimer' /\ told'[b] = lastSpeed'
         /\ rcuTimer' => SumOf(filter') # 0
         /\ SumOf(f) = 0 => ~rcuTimer' /\ \A b \in RcuAxes : told'[b] = 0
<1> USE DEF RcuInv, RcuTypes
<1> DEFINE sum == SumOf(f)
           speed == Limited(sum, handSpeed[a])
<1>1. sum \in Int /\ handSpeed[a] \in {0, 1}
  BY SumOfFilter
<1>2. speed \in Int /\ (speed # 0 => sum # 0)
  BY <1>1 DEF Limited
<1>3. /\ filter' = f /\ lastSpeed' = speed
      /\ told' = IF speed # lastSpeed THEN [told EXCEPT ![a] = speed] ELSE told
      /\ rcuTimer' = (running /\ sum # 0)
  BY DEF CalculateNextValue
<1> HIDE DEF speed, sum
<1>4. told' \in [RcuAxes -> Int]
  BY <1>2, <1>3
<1>5. ASSUME NEW b \in RcuAxes, told'[b] # 0 PROVE b = a /\ told'[b] = speed
  BY <1>2, <1>3, <1>5 DEF RcuSafe, OneToOne, SpinDies
<1>6. \A b \in RcuAxes : told'[b] # 0 => sum # 0
  BY <1>2, <1>5
<1>7. sum = SumOf(f)
  BY DEF sum
<1> QED BY <1>3, <1>4, <1>5, <1>6, <1>7

LEMMA SelectionKeeps ==
  ASSUME ReleaseFirst, RcuInv, UpdateAxisSelection, UNCHANGED keyVars
  PROVE  RcuInv'
<1> USE DEF RcuInv, RcuTypes
<1>1. PICK k \in DOMAIN Links :
        /\ k \in contacts \/ contacts = {}
        /\ contacts' = IF k \in contacts THEN contacts \ {k} ELSE contacts \cup {k}
  BY DEF UpdateAxisSelection
<1>2. /\ rcuAxis' = SelectedAxis(contacts') /\ UNCHANGED <<knobKnown, handSpeed>>
      /\ IF rcuAxis' = NoAxis /\ rcuAxis # NoAxis
         THEN CalculateNextValue(rcuAxis, Still, rcuTimer)
         ELSE UNCHANGED <<filter, lastSpeed, told, rcuTimer>>
  BY DEF UpdateAxisSelection
<1>3. contacts' = {} \/ (contacts = {} /\ contacts' = {k})
  BY <1>1 DEF OneContact
<1>4. rcuAxis' \in RcuAxes \cup {NoAxis}
  <2>1. (CHOOSE l \in {k} : \A other \in {k} : l <= other) = k
    BY RcuAssumption
  <2> QED BY <1>2, <1>3, <2>1, RcuAssumption DEF SelectedAxis
<1>5. contacts' \subseteq DOMAIN Links /\ OneContact'
  BY <1>2, <1>3 DEF OneContact
<1>6. KeyHeld'
  BY DEF keyVars, RcuSafe, KeyHeld
<1>7. CASE rcuAxis' = NoAxis /\ rcuAxis # NoAxis
  <2>1. /\ filter' = Still /\ told' \in [RcuAxes -> Int] /\ ~rcuTimer' /\ rcuTimer' \in BOOLEAN
        /\ \A b \in RcuAxes : told'[b] = 0
    BY <1>2, <1>7, SumOfFilter, ValueKeeps
  <2> QED BY <1>2, <1>4, <1>5, <1>6, <2>1, SumOfFilter DEF RcuSafe, OneToOne, SpinDies
<1>8. CASE ~(rcuAxis' = NoAxis /\ rcuAxis # NoAxis)
  <2>1. UNCHANGED <<filter, lastSpeed, told, rcuTimer>>
    BY <1>2, <1>8
  <2>2. rcuAxis = NoAxis
    <3>1. CASE contacts' = {}
      BY <1>2, <1>8, <3>1 DEF SelectedAxis
    <3>2. CASE contacts = {}
      BY <3>2 DEF OneContact, SelectedAxis
    <3> QED BY <1>3, <3>1, <3>2
  <2>3. ~rcuTimer /\ \A b \in RcuAxes : told[b] = 0
    BY <2>2, RcuAssumption DEF RcuSafe, OneToOne
  <2> QED BY <1>2, <1>4, <1>5, <1>6, <2>1, <2>3 DEF RcuSafe, OneToOne, SpinDies
<1> QED BY <1>7, <1>8

LEMMA ShiftedFilter ==
  ASSUME RcuTypes, NEW v \in Int
  PROVE  Shifted(v) \in [1..FilterLength -> Int]
<1>1. FilterLength \in Nat \ {0}
  BY RcuAssumption
<1>2. filter \in Seq(Int) /\ Len(filter) = FilterLength
  BY <1>1 DEF RcuTypes
<1>3. SubSeq(filter, 1, FilterLength - 1) \in Seq(Int)
      /\ Len(SubSeq(filter, 1, FilterLength - 1)) = FilterLength - 1
  BY <1>1, <1>2
<1>4. Shifted(v) \in Seq(Int) /\ Len(Shifted(v)) = FilterLength
  BY <1>1, <1>3 DEF Shifted
<1> QED BY <1>1, <1>4

LEMMA RcuInvStep ==
  ASSUME ReleaseFirst
  PROVE  RcuInv /\ [RcuNext]_handVars => RcuInv'
<1> SUFFICES ASSUME RcuInv, [RcuNext]_handVars PROVE RcuInv'
  OBVIOUS
<1> USE DEF RcuInv, RcuTypes
<1>1. CASE UpdateAxisSelection /\ UNCHANGED keyVars
  BY <1>1, SelectionKeeps
<1>2. ASSUME UNCHANGED <<contacts, rcuAxis, handSpeed, keyVars>>, NEW f \in [1..FilterLength -> Int],
             rcuAxis # NoAxis, CalculateNextValue(rcuAxis, f, TRUE)
      PROVE  RcuInv'
  <2>1. /\ filter' = f /\ told' \in [RcuAxes -> Int] /\ rcuTimer' \in BOOLEAN
        /\ \A b \in RcuAxes : told'[b] # 0 => b = rcuAxis /\ rcuTimer' /\ told'[b] = lastSpeed'
        /\ rcuTimer' => SumOf(filter') # 0
    BY <1>2, ValueKeeps
  <2>2. OneContact' /\ KeyHeld'
    BY <1>2 DEF OneContact, RcuSafe, KeyHeld, keyVars
  <2> QED BY <1>2, <2>1, <2>2 DEF RcuSafe, OneToOne, SpinDies
<1>3. CASE SpinValueChanged /\ UNCHANGED keyVars
  <2>1. CASE knobKnown /\ rcuAxis # NoAxis
    <3>1. PICK diff \in Clicks : CalculateNextValue(rcuAxis, Shifted(diff * handSpeed[rcuAxis]), TRUE)
      BY <1>3, <2>1 DEF SpinValueChanged
    <3>2. diff * handSpeed[rcuAxis] \in Int
      <4>1. handSpeed[rcuAxis] \in {0, 1} /\ diff \in Int
        BY <2>1, RcuAssumption
      <4> QED BY <4>1
    <3>3. Shifted(diff * handSpeed[rcuAxis]) \in [1..FilterLength -> Int]
      BY <3>2, ShiftedFilter
    <3> QED BY <1>2, <1>3, <2>1, <3>1, <3>3 DEF SpinValueChanged
  <2>2. CASE ~(knobKnown /\ rcuAxis # NoAxis)
    BY <1>3, <2>2 DEF SpinValueChanged, keyVars, OneContact, RcuSafe, OneToOne, SpinDies, KeyHeld
  <2> QED BY <2>1, <2>2
<1>4. CASE SpinLost /\ UNCHANGED keyVars
  BY <1>4 DEF SpinLost, keyVars, OneContact, RcuSafe, OneToOne, SpinDies, KeyHeld
<1>5. CASE RcuTimeout /\ UNCHANGED keyVars
  <2>1. Shifted(0) \in [1..FilterLength -> Int]
    BY ShiftedFilter
  <2> QED BY <1>2, <1>5, <2>1 DEF RcuTimeout
<1>6. CASE HandSpeedChanges /\ UNCHANGED keyVars
  <2>1. handSpeed' \in [RcuAxes -> {0, 1}]
    BY <1>6 DEF HandSpeedChanges
  <2> QED BY <1>6, <2>1 DEF HandSpeedChanges, keyVars, OneContact, RcuSafe, OneToOne, SpinDies, KeyHeld
<1>7. CASE PanelKey("cw", 1) /\ UNCHANGED rcuVars
  BY <1>7 DEF PanelKey, rcuVars, OneContact, RcuSafe, OneToOne, SpinDies, KeyHeld
<1>8. CASE PanelKey("ccw", -1) /\ UNCHANGED rcuVars
  BY <1>8 DEF PanelKey, rcuVars, OneContact, RcuSafe, OneToOne, SpinDies, KeyHeld
<1>9. CASE UNCHANGED handVars
  BY <1>9 DEF handVars, keyVars, rcuVars, OneContact, RcuSafe, OneToOne, SpinDies, KeyHeld
<1> QED BY <1>1, <1>3, <1>4, <1>5, <1>6, <1>7, <1>8, <1>9 DEF RcuNext

-----------------------------------------------------------------------------
(***************************************************************************)
(* Both parts are kept by the steps of the model, whichever it is about.    *)
(***************************************************************************)
HandInv == AxisInv /\ GoalAhead /\ RcuInv

LEMMA HandInvInit == HandInit => HandInv
  BY AxisInvInit, RcuInvInit DEF HandInit, HandInv

LEMMA HandInvStep ==
  ASSUME ReleaseFirst
  PROVE  HandInv /\ [HandNext]_mcHandVars => HandInv'
<1> SUFFICES ASSUME HandInv, [HandNext]_mcHandVars PROVE HandInv'
  OBVIOUS
<1>1. [AxisNext]_axisVars /\ [RcuNext]_handVars
  BY DEF HandNext, mcHandVars
<1> QED BY <1>1, AxisInvStep, GoalAheadStep, RcuInvStep DEF HandInv

(***************************************************************************)
(* A movement is in command only of a motor in operation, and a wire that a  *)
(* deactivation blocked always has a movement that will open it again; the  *)
(* hand unit drives no axis but the one selected, and none without the      *)
(* timer that will stop it.  Assumes that a contact of the selector opens    *)
(* before the next one closes.                                             *)
(***************************************************************************)
THEOREM HandIsSafe == ASSUME ReleaseFirst PROVE HandSpec => []HandSafe
<1>1. HandInv => HandSafe
  BY DEF HandInv, AxisInv, RcuInv, HandSafe
<1> QED BY <1>1, HandInvInit, HandInvStep, PTL DEF HandSpec

(***************************************************************************)
(* An order given when no older shift was in play ends where it was told to, *)
(* however often it was told anew on the way: axis_motion_node adds up the  *)
(* target and the shifts correctly whenever the commands come.             *)
(***************************************************************************)
THEOREM OrdersEndAtGoal == HandSpec => EndsAtGoal
<1>1. HandInit => AxisInv /\ GoalAhead
  BY AxisInvInit DEF HandInit
<1>2. AxisInv /\ GoalAhead /\ [HandNext]_mcHandVars => AxisInv' /\ GoalAhead'
  BY AxisInvStep, GoalAheadStep DEF HandNext, mcHandVars
<1>3. AxisInv /\ GoalAhead /\ [HandNext]_mcHandVars
        => [goal # None /\ EndsByItself => (goal.fresh => position' = goal.at)]_axisVars
  BY EndIsGoal DEF HandNext, mcHandVars
<1> QED BY <1>1, <1>2, <1>3, PTL DEF HandSpec, EndsAtGoal
=============================================================================
