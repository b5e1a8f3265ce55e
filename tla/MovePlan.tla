------------------------------ MODULE MovePlan ------------------------------
(***************************************************************************)
(* multi_axis_ctl, from a task to the phases of its axes: the list of moves *)
(* is split into the phases in which an axis moves without a pause, axes    *)
(* that start and end together are found (twice, by different loops), and   *)
(* the duration of every step is raised until it is enough for all the axes *)
(* that move in it.                                                        *)
(*                                                                         *)
(* A move is the number of its step.  What a step asks of an axis is two    *)
(* durations: the least its acceleration allows (calculate_min_time) and    *)
(* the least its speed limit allows.  The axes of a group move along one    *)
(* line and ask the same, as their speeds and accelerations are shares of   *)
(* common ones (AccelSearch finds the latter).                             *)
(***************************************************************************)
EXTENDS Naturals, Sequences, FiniteSets, Functions

CONSTANTS
  PlanAxes,
  MaxSteps,           (* bound: moves of a task                              *)
  Needs               (* what a step may ask: durations [min, full]          *)

ASSUME PlanAssumption ==
  /\ MaxSteps \in Nat \ {0}
  /\ Needs \subseteq [min : Nat \ {0}, full : Nat \ {0}] /\ \A n \in Needs : n.min <= n.full

VARIABLES
  moveTask,           (* tasks_: the axes of each step                       *)
  need,               (* what each step asks of its groups: [min, full]      *)
  phases, halted,     (* axis_phases_: phases of each axis, is it stopped    *)
  taken,              (* move_step: steps read                               *)
  groups,             (* axis_groups_: sets of <<axis, phase>>               *)
  stepTimes,          (* move_step_times_                                    *)
  istep, left,        (* the step being calculated, axes left (help_phases_) *)
  lasts,              (* duration given to each move of each axis            *)
  startTime,          (* start_time of each phase of each axis               *)
  stage               (* "read", "group", "times", "done"                    *)

planVars == <<moveTask, need, phases, halted, taken, groups, stepTimes, istep, left,
              lasts, startTime, stage>>

Steps == DOMAIN moveTask

(***************************************************************************)
(* From the task alone: the longest run of steps around i in which axis a   *)
(* moves.  Axes with the same run at i are a group there; what a step asks  *)
(* of them is kept by that run.  The node itself does not know it.         *)
(***************************************************************************)
RunAt(a, i) ==
  {j \in Steps : \A k \in Steps : (i <= k /\ k <= j) \/ (j <= k /\ k <= i) => a \in moveTask[k]}

Need(i, a) == need[<<i, RunAt(a, i)>>]

PlanInit ==
  /\ \E n \in 1 .. MaxSteps : moveTask \in [1 .. n -> (SUBSET PlanAxes) \ {{}}]
  /\ need \in [UNION {{<<i, RunAt(a, i)>> : a \in moveTask[i]} : i \in Steps} -> Needs]
  /\ phases = [a \in PlanAxes |-> <<>>] /\ halted = [a \in PlanAxes |-> TRUE]
  /\ taken = 0 /\ groups = {} /\ stepTimes = <<>>
  /\ istep = 1 /\ left = {}
  /\ lasts = [a \in PlanAxes |-> [i \in Steps |-> 0]] /\ startTime = phases
  /\ stage = "read"

-----------------------------------------------------------------------------
NewPhase(i) == [step |-> i, moves |-> <<i>>]

(***************************************************************************)
(* fill_common_axis_list, one step of the task: an axis that stands begins  *)
(* a phase, one that moves goes on with it; the others stand from now on.   *)
(***************************************************************************)
FillCommonAxisList ==
  /\ stage = "read"
  /\ LET i == taken + 1
     IN  /\ phases' = [a \in PlanAxes |->
              IF a \notin moveTask[i] THEN phases[a]
              ELSE IF halted[a] THEN Append(phases[a], NewPhase(i))
              ELSE [phases[a] EXCEPT ![Len(phases[a])].moves = Append(@, i)]]
         /\ halted' = [a \in PlanAxes |-> a \notin moveTask[i]]
         /\ taken' = i
         /\ stage' = IF i = Len(moveTask) THEN "group" ELSE stage
  /\ UNCHANGED <<moveTask, need, groups, stepTimes, istep, left, lasts, startTime>>

(* get_phase_id: the phase of axis a that begins with step i.              *)
Beginning(a, i) == {p \in DOMAIN phases[a] : phases[a][p].step = i}

(* get_phase_id_v2: the phase of axis a that contains step i.              *)
Containing(a, i) ==
  {p \in DOMAIN phases[a] : i >= phases[a][p].step /\ i - phases[a][p].step < Len(phases[a][p].moves)}

Present(i) == {a \in PlanAxes : Containing(a, i) # {}}

PhaseAt(a, i) == phases[a][CHOOSE p \in Containing(a, i) : TRUE]

(* The phases that begin with step i, and their length.                     *)
Starters(i) == {x \in PlanAxes \X (1 .. taken) : x[2] \in Beginning(x[1], i)}

Length(x) == Len(phases[x[1]][x[2]].moves)

(* The second half of fill_common_axis_list: per step, the axes that begin  *)
(* with it, by the length of their phases; then the calculation of the       *)
(* moves (k, a) of each group, AccelSearch, and the times are cleared.     *)
FormGroups ==
  /\ stage = "group"
  /\ groups' = UNION {{{y \in Starters(i) : Length(y) = Length(x)} : x \in Starters(i)} :
                      i \in 1 .. taken}
  /\ stepTimes' = [i \in 1 .. taken |-> 0]
  /\ left' = Present(1)
  /\ stage' = "times"
  /\ UNCHANGED <<moveTask, need, phases, halted, taken, istep, lasts, startTime>>

(* The axes calculated together with a.                                    *)
Mates(a) ==
  {b \in left : /\ PhaseAt(b, istep).step = PhaseAt(a, istep).step
                /\ Len(PhaseAt(b, istep).moves) = Len(PhaseAt(a, istep).moves)}

(* Mutant: the other axes of the step keep what they were given. *)
Longer_GoesOn(a, t) ==
  /\ stepTimes' = [stepTimes EXCEPT ![istep] = t]
  /\ lasts' = [b \in PlanAxes |-> IF b \in Mates(a) THEN [lasts[b] EXCEPT ![istep] = t] ELSE lasts[b]]
  /\ left' = left \ Mates(a)
  /\ UNCHANGED istep

(* The step is too short for axis a: it gets longer, and is begun anew.    *)
Longer(a, t) ==
  /\ stepTimes' = [stepTimes EXCEPT ![istep] = t]
  /\ left' = Present(istep)
  /\ UNCHANGED <<istep, lasts>>

(***************************************************************************)
(* calculate_move_step, one group of it: calculate_axis_move_step for its   *)
(* first axis, calculate_group_axis_move_step for the others.  The axes     *)
(* come in the order of an unordered_map, any.                             *)
(***************************************************************************)
CalculateMoveStep(a) ==
  /\ stage = "times" /\ a \in left
  /\ LET dt == stepTimes[istep]
         n == Need(istep, a)
     IN  IF dt < n.min THEN Longer(a, n.min)
         ELSE IF dt < n.full THEN Longer(a, n.full)
         ELSE /\ lasts' = [b \in PlanAxes |->
                             IF b \in Mates(a) THEN [lasts[b] EXCEPT ![istep] = dt] ELSE lasts[b]]
              /\ left' = left \ Mates(a)
              /\ UNCHANGED <<stepTimes, istep>>
  /\ UNCHANGED <<moveTask, need, phases, halted, taken, groups, startTime, stage>>

NextMoveStep ==
  /\ stage = "times" /\ left = {} /\ istep < taken
  /\ istep' = istep + 1
  /\ left' = Present(istep')
  /\ UNCHANGED <<moveTask, need, phases, halted, taken, groups, stepTimes, lasts, startTime, stage>>

(* phase_time_begin                                                        *)
TimeBefore(i) == SumFunctionOnSet(stepTimes, 1 .. i - 1)

(* The end of convert_tasks_to_phases; the time of day is left out.        *)
GiveStartTimes ==
  /\ stage = "times" /\ left = {} /\ istep = taken
  /\ startTime' = [a \in PlanAxes |->
       [p \in DOMAIN phases[a] |-> TimeBefore(phases[a][p].step)]]
  /\ stage' = "done"
  /\ UNCHANGED <<moveTask, need, phases, halted, taken, groups, stepTimes, istep, left, lasts>>

PlanNext ==
  \/ FillCommonAxisList \/ FormGroups
  \/ \E a \in PlanAxes : CalculateMoveStep(a)
  \/ NextMoveStep \/ GiveStartTimes

PlanSpec == PlanInit /\ [][PlanNext]_planVars

-----------------------------------------------------------------------------
Moves(a) == {x \in (1 .. taken) \X (1 .. taken) :
               x[1] \in DOMAIN phases[a] /\ x[2] \in DOMAIN phases[a][x[1]].moves}

(***************************************************************************)
(* Every move of the task is made once by its axis, in the step of the      *)
(* task: the m-th move of a phase is made in the m-th step after its        *)
(* beginning, and a phase is a longest run of steps of its axis, so the     *)
(* next one begins after a pause.                                          *)
(***************************************************************************)
EveryMoveInItsStep ==
  stage = "done" =>
    \A a \in PlanAxes :
      /\ \A x \in Moves(a) :
           LET ph == phases[a][x[1]]
           IN  /\ ph.moves[x[2]] = ph.step + x[2] - 1
               /\ {ph.step + k - 1 : k \in DOMAIN ph.moves} = RunAt(a, ph.moves[x[2]])
      /\ \A i \in Steps : a \in moveTask[i] <=> Cardinality(Containing(a, i)) = 1

(***************************************************************************)
(* Both loops find the same groups, those of the task: a move that is       *)
(* calculated as a share of another one (k, line 712) has been given its    *)
(* share (line 361).                                                       *)
(***************************************************************************)
SameGroups ==
  stage = "times" =>
    \A a \in left : \E g \in groups :
      g = {x \in PlanAxes \X (1 .. taken) : x[1] \in Mates(a) /\ x[2] \in Containing(x[1], istep)}

(***************************************************************************)
(* When all is calculated, the axes of a step take the same time for it,    *)
(* the least that is enough for all of them, and each phase starts when its *)
(* first step does: the axes stay in step, though they only follow their    *)
(* own clocks.                                                             *)
(***************************************************************************)
AxesStayInStep ==
  stage = "done" =>
    /\ \A i \in Steps :
         /\ \A a \in moveTask[i] : lasts[a][i] = stepTimes[i] /\ Need(i, a).full <= stepTimes[i]
         /\ \E a \in moveTask[i] : stepTimes[i] = Need(i, a).full
    /\ \A a \in PlanAxes : \A p \in DOMAIN phases[a] : \A i \in Steps :
         i < phases[a][p].step => startTime[a][p] >= TimeBefore(i) + stepTimes[i]
    /\ \A a, b \in PlanAxes : \A p \in DOMAIN phases[a] : \A q \in DOMAIN phases[b] :
         phases[a][p].step = phases[b][q].step => startTime[a][p] = startTime[b][q]
    /\ \A a \in PlanAxes : \A p \in DOMAIN phases[a] :
         phases[a][p].step = 1 => startTime[a][p] = 0

(* All three: the plan is the task, and the axes keep it together.          *)
PlanIsTask == EveryMoveInItsStep /\ SameGroups /\ AxesStayInStep

(* The calculation comes to an end: the steps are begun anew only finitely  *)
(* often.                                                                  *)
PlanEnds == <>(stage = "done")
=============================================================================
