--------------------------------- MODULE Vm ---------------------------------
(***************************************************************************)
(* The program processor of the automatic mode                             *)
(* (src/src/core/src/auto-mode/vm.cpp).                                     *)
(*                                                                         *)
(* A program is a sequence of phases; the code numbers them from 0 and so  *)
(* do we: phase pid of program p is p[pid + 1] and pid = Len(p) is the end. *)
(* The processor looks ahead from the current phase, follows the loops, and *)
(* collects the longest list of operations that move every axis in one     *)
(* direction ("continuous moving list").  Its answer is the list of moves   *)
(* and ops, the phase ids still to be executed, the next one LAST: the      *)
(* phases of the moves and, under them, the phase to resume from.          *)
(*                                                                         *)
(* Everything here is an operator over the processor's record: the module   *)
(* has no state of its own.                                                *)
(***************************************************************************)
EXTENDS Integers, Sequences, SequencesExt

CONSTANT Axes         (* target axes of the program, target_axis_            *)

(***************************************************************************)
(* The phases (common/program-phases.hpp).  "other" stands for the phases   *)
(* the automatic mode stops at: timed heating, centring.                   *)
(***************************************************************************)
Operation(absolute, pos) ==
  [kind |-> "operation", absolute |-> absolute, pos |-> pos]
Pause(msec) == [kind |-> "pause", msec |-> msec]
GoTo(to, N) == [kind |-> "goto", to |-> to, N |-> N]
Other == [kind |-> "other"]

Phase(prog, pid) == prog[pid + 1]

IsProgramDone(prog, pid) == pid = Len(prog)

(***************************************************************************)
(* A loop of a saved program jumps strictly upwards (find_bad_loop).        *)
(***************************************************************************)
NoBadLoop(prog) ==
  \A pid \in 0 .. Len(prog) - 1 :
    Phase(prog, pid).kind = "goto" => Phase(prog, pid).to < pid

(* A program as it was read from its file.                                 *)
IsProgram(prog) ==
  /\ prog \in Seq(Range(prog))
  /\ NoBadLoop(prog)
  /\ \A pid \in 0 .. Len(prog) - 1 :
       LET phase == Phase(prog, pid)
       IN  /\ phase.kind \in {"operation", "pause", "goto", "other"}
           /\ phase.kind = "operation" =>
                phase = Operation(phase.absolute, phase.pos) /\ phase.pos \in [Axes -> Int]
           /\ phase.kind = "goto" => phase.to \in Nat /\ phase.N \in Nat

(***************************************************************************)
(* The processor's record.  goto[pid] is the loop counter known_goto_[pid], *)
(* Absent when the map has no such entry.                                  *)
(***************************************************************************)
Absent == -1
Counts == Nat \cup {Absent}
Still == [a \in Axes |-> 0]

Initialize(prog) ==
  [ phase_id |-> 0,
    ops      |-> <<0>>,
    moves    |-> <<>>,
    pos      |-> Still,
    goto     |-> [pid \in 0 .. Len(prog) - 1 |-> Absent] ]

(* ops_phases_.back(): the phase whose operation is executed next.         *)
OpPhaseId(vm) == Last(vm.ops)

HasPhaseOps(vm) == Len(vm.ops) > 1

ToNextPhase(vm) ==
  [vm EXCEPT !.phase_id = Last(vm.ops), !.ops = Front(vm.ops)]

(* Mutant: the first pass of the loop is counted as a repetition.          *)
LoopLeft_FirstPassCounted(loop, counter) ==
  IF counter = Absent THEN loop.N - 1 ELSE counter

(***************************************************************************)
(* Looking ahead.  NextOperation follows the loops from pid to the first    *)
(* phase that is not a loop, using up the counters on its way: a counter is *)
(* created at N, decremented at every jump and forgotten at zero.          *)
(***************************************************************************)
LoopLeft(loop, counter) == IF counter = Absent THEN loop.N ELSE counter

NextOperation(prog, start, counters) ==
  LET Seek[s \in [pid : 0 .. Len(prog), goto : [DOMAIN counters -> Int]]] ==
        IF IsProgramDone(prog, s.pid) \/ Phase(prog, s.pid).kind # "goto"
        THEN s
        ELSE LET loop == Phase(prog, s.pid)
                 left == LoopLeft(loop, s.goto[s.pid])
             IN  IF left = 0
                 THEN Seek[[pid  |-> s.pid + 1,
                            goto |-> [s.goto EXCEPT ![s.pid] = Absent]]]
                 ELSE Seek[[pid  |-> loop.to,
                            goto |-> [s.goto EXCEPT ![s.pid] = left - 1]]]
  IN Seek[[pid |-> start, goto |-> counters]]

Sign(d) == IF d > 0 THEN 1 ELSE IF d < 0 THEN -1 ELSE 0

NextPosition(op, pos) ==
  IF op.absolute THEN op.pos ELSE [a \in Axes |-> pos[a] + op.pos[a]]

Direction(from, to) == [a \in Axes |-> Sign(to[a] - from[a])]

(* An axis that was moving may neither turn back nor stop.                 *)
Inversion(dir, new) == \E a \in Axes : dir[a] # 0 /\ dir[a] # new[a]

(***************************************************************************)
(* One call of try_add_next_phase: the phase found is always pushed on ops; *)
(* it becomes a move when it is an operation that moves some axis and       *)
(* inverts none, and only then does the search go on.                      *)
(***************************************************************************)
TryAddNextPhase(prog, s) ==
  LET found == NextOperation(prog, s.pid, s.goto)
      ops   == Append(s.ops, found.pid)
      seen  == [ pid |-> found.pid, ops |-> ops, moves |-> s.moves, pos |-> s.pos,
                 dir |-> s.dir, goto |-> found.goto, more |-> FALSE ]
  IN  IF \/ IsProgramDone(prog, found.pid)
         \/ Phase(prog, found.pid).kind # "operation"
      THEN seen
      ELSE LET to  == NextPosition(Phase(prog, found.pid), s.pos)
               new == Direction(s.pos, to)
           IN  IF Inversion(s.dir, new) \/ new = Still
               THEN seen
               ELSE [ pid |-> found.pid + 1, ops |-> ops,
                      moves |-> Append(s.moves, [from |-> s.pos, to |-> to]),
                      pos |-> to, dir |-> new, goto |-> found.goto, more |-> TRUE ]

Move == [from : [Axes -> Int], to : [Axes -> Int]]

(***************************************************************************)
(* create_continuous_moving_list, past its two early checks.               *)
(***************************************************************************)
CreateContinuousMovingList(prog, vm) ==
  LET Collect[s \in [ pid : 0 .. Len(prog), ops : Seq(Nat), moves : Seq(Move),
                      pos : [Axes -> Int], dir : [Axes -> {-1, 0, 1}],
                      goto : [DOMAIN vm.goto -> Counts], more : BOOLEAN ]] ==
        IF s.more THEN Collect[TryAddNextPhase(prog, s)] ELSE s
      s == Collect[[ pid |-> vm.phase_id, ops |-> <<>>, moves |-> <<>>,
                     pos |-> vm.pos, dir |-> Still, goto |-> vm.goto,
                     more |-> TRUE ]]
      single == s.moves = <<>> /\ Phase(prog, vm.phase_id).kind # "goto"
  IN  [ phase_id |-> vm.phase_id,
        ops      |-> Reverse(IF single THEN Append(s.ops, Last(s.ops) + 1)
                                       ELSE s.ops),
        moves    |-> s.moves,
        pos      |-> s.pos,
        goto     |-> s.goto ]

(***************************************************************************)
(* The segment of the moving list that is being travelled is found from     *)
(* the number of phases left; the last one is never reported as reached: it *)
(* ends when the axes report the whole task done.                          *)
(***************************************************************************)
CurrentMove(vm) == Len(vm.moves) + 1 - Len(vm.ops)

Reached(move, known) ==
  \A a \in Axes :
    /\ move.from[a] < move.to[a] => known[a] >= move.to[a]
    /\ move.from[a] > move.to[a] => known[a] <= move.to[a]

(* Mutant: the last segment but one is not watched either.                 *)
CheckInPosition_LastTwo(vm, known) ==
  /\ CurrentMove(vm) + 2 < Len(vm.moves)
  /\ Reached(vm.moves[CurrentMove(vm) + 1], known)

CheckInPosition(vm, known) ==
  /\ CurrentMove(vm) + 1 # Len(vm.moves)
  /\ Reached(vm.moves[CurrentMove(vm) + 1], known)

(***************************************************************************)
(* fill_cnc_task: the number of phases travels as one byte, the distances   *)
(* of all the moves follow it; the receiver reads as many as the byte says. *)
(***************************************************************************)
PhaseCount(vm) == Len(vm.moves) % 2^8

(* Mutant: distances measured from the beginning of the list.              *)
FillCncTask_FromOrigin(vm) ==
  [ count |-> PhaseCount(vm),
    list  |-> [i \in DOMAIN vm.moves |->
                 [a \in Axes |-> vm.moves[i].to[a] - vm.moves[1].from[a]]] ]

FillCncTask(vm) ==
  [ count |-> PhaseCount(vm),
    list  |-> [i \in DOMAIN vm.moves |->
                 [a \in Axes |-> vm.moves[i].to[a] - vm.moves[i].from[a]]] ]
=============================================================================
