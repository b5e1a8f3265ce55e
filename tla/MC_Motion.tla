----------------------------- MODULE MC_Motion ------------------------------
(***************************************************************************)
(* Model of the calculation and the execution of a movement: the plan of a  *)
(* task, the accelerations of a group of axes, the intervals of one axis.   *)
(* They share no state; a behaviour is about one of them, `focus'.          *)
(***************************************************************************)
EXTENDS MovePlan, AccelSearch, TimedMotion

VARIABLE focus

MCNeeds == {[min |-> 1, full |-> 2], [min |-> 3, full |-> 3]}

motionVars == <<focus, planVars, accelVars, timedVars>>

(* The axes are alike: of the tasks that differ by their names only, one    *)
(* with this axis in its first step is enough.                             *)
AnAxis == CHOOSE a \in PlanAxes : TRUE

(* What the parts not in focus stay in.                                    *)
PlanRests == moveTask = <<PlanAxes>> /\ need = [x \in {<<1, {1}>>} |-> [min |-> 1, full |-> 2]]
AccelRests == ds = <<1, 1>> /\ acc = <<1, 1>>
TimedRests == plan = <<Interval(1, 0, 1)>> /\ t0 = 1

MotionInit ==
  /\ focus \in {"plan", "accel", "timed"}
  /\ IF focus = "plan" THEN PlanInit /\ AnAxis \in moveTask[1] ELSE PlanRests /\ PlanInit
  /\ IF focus = "accel" THEN AccelInit ELSE AccelRests /\ AccelInit
  /\ IF focus = "timed" THEN TimedInit ELSE TimedRests /\ TimedInit

PlanStep ==
  focus = "plan" /\ PlanNext /\ UNCHANGED <<focus, accelVars, timedVars>>

AccelStep ==
  focus = "accel" /\ AccelNext /\ UNCHANGED <<focus, planVars, timedVars>>

TimedStep ==
  focus = "timed" /\ TimedNext /\ UNCHANGED <<focus, planVars, accelVars>>

MotionNext == PlanStep \/ AccelStep \/ TimedStep

CycleStep == focus = "timed" /\ Cycle /\ UNCHANGED <<focus, planVars, accelVars>>

(* The handler that plans runs to its end, and so does the EtherCAT cycle.  *)
MotionSpec ==
  MotionInit /\ [][MotionNext]_motionVars /\ WF_motionVars(PlanStep) /\ WF_motionVars(CycleStep)

(* A movement in focus comes to its end, a plan too.                       *)
MotionEnds ==
  /\ focus = "timed" => MoveEnds
  /\ focus = "plan" => PlanEnds
=============================================================================
