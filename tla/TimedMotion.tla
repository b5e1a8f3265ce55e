----------------------------- MODULE TimedMotion -----------------------------
(***************************************************************************)
(* timed_motion: an axis follows intervals given by time.  Each interval    *)
(* speeds up, moves evenly and slows down; next_position is asked in every  *)
(* EtherCAT cycle where the axis has to be now, and a stop cuts the         *)
(* movement short.                                                         *)
(*                                                                         *)
(* Time is counted in ticks; a cycle takes 1 .. MaxCycle of them.  An       *)
(* interval starts and ends at rest, as multi_axis_ctl plans it (v0 and v1  *)
(* are 0, multi-axis-ctl.cpp:362-363, 453-454), and the acceleration is 1.  *)
(* Ways are counted in halves of a unit: a way a * t * t / 2 is t * t of    *)
(* them, a way v * t is 2 * v * t.                                         *)
(***************************************************************************)
EXTENDS Integers, Sequences, Functions

CONSTANTS
  Directions,         (* of the intervals: a subset of {"up", "down"}        *)
  MaxCycle,           (* bound: ticks of a cycle                             *)
  MaxRamp, MaxEven,   (* bounds: duration of the ramps, of the even movement *)
  MaxIntervals,       (* bound: intervals of a phase                         *)
  StartTimes,         (* ticks from the first cycle to the start             *)
  Horizon,            (* bound: ticks of the clock; a movement that has not  *)
                      (* ended by then is taken to hang                      *)
  MayStop             (* may the movement be stopped?                        *)

ASSUME DirectionsAssumption == Directions \subseteq {"up", "down"}
ASSUME TimesAssumption ==
  /\ {MaxCycle, MaxRamp, MaxIntervals, Horizon} \subseteq Nat \ {0}
  /\ MaxEven \in Nat /\ StartTimes \subseteq Int /\ MayStop \in BOOLEAN

VARIABLES
  intervals,          (* intervals_                                          *)
  iid,                (* iid_, counted from 1                                *)
  inProc,             (* in_proc_                                            *)
  terminate,          (* terminate_                                          *)
  t0, s0,             (* where the present interval begins, in time and way  *)
  now,                (* the clock                                           *)
  position,           (* position_ of the servo motor                        *)
  control,            (* does the servo motor still have this control?       *)
  plan,               (* history: the intervals as they were ordered         *)
  step                (* history: way of the last cycle                      *)

timedVars == <<intervals, iid, inProc, terminate, t0, s0, now, position, control, plan, step>>

Stages == 1 .. 3

(* add_interval: durations and ways of the stages; the way has the sign of  *)
(* the interval's.                                                         *)
Interval(ramp, even, dir) ==
  [ idt |-> <<ramp, even, ramp>>, v |-> ramp, dir |-> dir,
    ids |-> <<dir * ramp * ramp, dir * 2 * ramp * even, dir * ramp * ramp>> ]

Sign(direction) == IF direction = "up" THEN 1 ELSE -1

PlannedIntervals ==
  { Interval(ramp, even, Sign(d)) :
      ramp \in 1 .. MaxRamp, even \in 0 .. MaxEven, d \in Directions }

(* cmd_timed_shift hands the control over.                                 *)
TimedInit ==
  /\ \E n \in 1 .. MaxIntervals : intervals \in [1 .. n -> PlannedIntervals]
  /\ plan = intervals
  /\ iid = 1 /\ inProc = FALSE /\ terminate = FALSE
  /\ t0 \in StartTimes /\ s0 = 0
  /\ now = 0 /\ position = 0 /\ control = TRUE /\ step = 0

-----------------------------------------------------------------------------
(* reset.                                                                  *)
Stop ==
  /\ MayStop /\ control /\ ~terminate
  /\ terminate' = TRUE
  /\ UNCHANGED <<intervals, iid, inProc, t0, s0, now, position, control, plan, step>>

(* Duration and way of the stages of an interval before stage i.           *)
Elapsed(interval, i) == SumFunctionOnSet(interval.idt, 1 .. i - 1)
Way(interval, i) == SumFunctionOnSet(interval.ids, 1 .. i - 1)

(* Stages that are not over at time t of the interval.                     *)
Open(interval, t) == {i \in Stages : t < Elapsed(interval, i + 1)}

First(stages) == CHOOSE i \in stages : \A j \in stages : i <= j

(* Mutant: the second ramp is taken from the wrong end. *)
StageWay_FromEnd(interval, i, t) ==
  interval.dir *
    CASE i = 1 -> t * t
      [] i = 2 -> 2 * interval.v * t
      [] i = 3 -> (interval.idt[3] - t) * (interval.idt[3] - t)

(* Way after time t of stage i.  The stage that slows down starts from iv[2], *)
(* the speed at the END of the interval, which is 0; copysign drops the sign. *)
StageWay(interval, i, t) ==
  interval.dir *
    CASE i = 1 -> t * t
      [] i = 2 -> 2 * interval.v * t
      [] i = 3 -> t * t

Moved(pos) == position' = pos /\ step' = pos - position

(* Mutant: a passed interval is not left. *)
Passed_Stays(interval, start) ==
  /\ t0' = t0 + Elapsed(interval, 4) /\ s0' = start + Way(interval, 4)
  /\ Moved(s0')
  /\ UNCHANGED <<iid, intervals>>

(* Mutant: a stop does not drop the intervals that are left. *)
Passed_GoesOn(interval, start) ==
  /\ t0' = t0 + Elapsed(interval, 4) /\ s0' = start + Way(interval, 4)
  /\ Moved(s0')
  /\ iid' = iid + 1 /\ UNCHANGED intervals

(* The interval is over: its end is the origin of the next, unless the      *)
(* movement was stopped.                                                   *)
Passed(interval, start) ==
  /\ t0' = t0 + Elapsed(interval, 4) /\ s0' = start + Way(interval, 4)
  /\ Moved(s0')
  /\ IF terminate THEN iid' = 1 /\ intervals' = <<>>
                  ELSE iid' = iid + 1 /\ UNCHANGED intervals

(* Inside stage i.  A stopped movement ends its even stage now: the stage   *)
(* gets the time passed for its duration and the (unsigned) way for its way. *)
Within(interval, i, t, start) ==
  /\ Moved(start + Way(interval, i) + StageWay(interval, i, t))
  /\ intervals' = IF terminate /\ i = 2
                  THEN [intervals EXCEPT ![iid].idt[2] = t,
                                         ![iid].ids[2] = 2 * interval.v * t]
                  ELSE intervals
  /\ s0' = start /\ UNCHANGED <<iid, t0>>

(***************************************************************************)
(* A cycle of the servo motor: next_position, then is_active.              *)
(***************************************************************************)
Cycle ==
  /\ control /\ now < Horizon
  /\ \E d \in 1 .. MaxCycle : now' = now + d
  /\ IF ~inProc /\ terminate
     THEN intervals' = <<>> /\ step' = 0 /\ UNCHANGED <<iid, inProc, t0, s0, position>>
     ELSE IF ~inProc /\ t0 > now'
     THEN step' = 0 /\ UNCHANGED <<intervals, iid, inProc, t0, s0, position>>
     ELSE /\ inProc' = TRUE
          /\ LET interval == intervals[iid]
                 start == IF inProc THEN s0 ELSE position
                 open == Open(interval, now' - t0)
             IN  IF open = {} THEN Passed(interval, start)
                 ELSE Within(interval, First(open),
                             now' - t0 - Elapsed(interval, First(open)), start)
  /\ control' = (iid' <= Len(intervals'))
  /\ UNCHANGED <<terminate, plan>>

TimedNext == Stop \/ Cycle

TimedSpec == TimedInit /\ [][TimedNext]_timedVars

(* The EtherCAT cycle runs for ever.                                       *)
TimedFairSpec == TimedSpec /\ WF_timedVars(Cycle)

-----------------------------------------------------------------------------
TypeOK ==
  /\ iid \in 1 .. Len(plan) + 1
  /\ {inProc, terminate, control} \subseteq BOOLEAN
  /\ {position, step, s0, t0, now} \subseteq Int

Total(p) == SumFunctionOnSet([i \in DOMAIN p |-> Way(p[i], 4)], DOMAIN p)

(***************************************************************************)
(* A movement that nobody stops ends where it was ordered to end, whatever  *)
(* the cycles: no part of the way is lost or taken twice between stages and *)
(* intervals.                                                              *)
(***************************************************************************)
EndsAtTarget == ~control /\ ~terminate => position = Total(plan)

(***************************************************************************)
(* An axis never moves against the direction of its intervals (all of one   *)
(* sign), stopped or not ("Если выполнение было прервано, делаем            *)
(* длительность этапа текущим моментом времени", motion-controls.hpp:457:   *)
(* a stop only makes the even stage shorter).                              *)
(***************************************************************************)
NeverTurnsBack ==
  (\A i, j \in DOMAIN plan : plan[i].dir = plan[j].dir) => step * plan[1].dir >= 0

(* Both: a movement is made as ordered, and never the other way.            *)
FollowsPlan == EndsAtTarget /\ NeverTurnsBack

(***************************************************************************)
(* A stopped axis goes on at most to the end of its interval, without        *)
(* turning back, and begins no other ("Удаляем еще не отработанные          *)
(* интервалы", motion-controls.hpp:357).                                    *)
(***************************************************************************)
StopsShort ==
  [][ terminate /\ (\A i \in DOMAIN plan : plan[i].dir = 1)
        => /\ position' \in position .. Total(SubSeq(plan, 1, iid))
           /\ iid' <= iid ]_timedVars

(***************************************************************************)
(* Every movement ends, stopped or not.                                    *)
(***************************************************************************)
MoveEnds == <>~control
=============================================================================
