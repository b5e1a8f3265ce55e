----------------------------- MODULE AccelSearch -----------------------------
(***************************************************************************)
(* multi_axis_ctl::calculate_moving for a group of axes that move together: *)
(* the search for the axis whose acceleration limit holds for the group     *)
(* (multi-axis-ctl.cpp:372-437).                                           *)
(*                                                                         *)
(* The group moves along a line, so the acceleration of an axis is its      *)
(* share k of the way times a common factor.  The search takes the axis     *)
(* with the longest way as the limiting one, gives it its own limit and the *)
(* others their share, and drops it when another axis would exceed its      *)
(* limit.  With k = |ds| / L, "a_total * k / k_total > acc" is              *)
(* "acc_total * ds > acc * ds_total": only ways and limits are needed, and  *)
(* the model is exact - but for the places where the double arithmetic of   *)
(* the code decides: when the share of an axis EQUALS its limit, the        *)
(* rounding of a_total * k / k_total may put it above the limit (ways 3, 3  *)
(* and limits 57, 57 give 57.00000000000001 both ways).  "up" is the set of *)
(* the pairs where it does; Rounding = FALSE is exact arithmetic.           *)
(***************************************************************************)
EXTENDS Naturals, Sequences, FiniteSets

CONSTANTS
  MaxAxes,            (* bound: axes of a group                              *)
  MaxWay,             (* bound: |ds| of an axis                              *)
  MaxLimit,           (* bound: acceleration limit of an axis                *)
  Rounding            (* may the rounding decide a comparison of equals?     *)

ASSUME BoundsAssumption == {MaxAxes, MaxWay, MaxLimit} \subseteq Nat \ {0}
ASSUME RoundingAssumption == Rounding \in BOOLEAN

VARIABLES
  ds, acc,            (* the group, in the order of its list: ways, limits   *)
  up,                 (* <<i, t>>: the share of i under t is rounded up       *)
  helpSet,            (* candidates left (help_set_), as places in the list  *)
  total,              (* axis_a_total, 0 before the first round              *)
  pc                  (* "search", "found", "thrown"                         *)

accelVars == <<ds, acc, up, helpSet, total, pc>>

Group == DOMAIN ds

(* Acceleration of axis i, times ds[t], when axis t is given its limit.    *)
Scaled(i, t) == acc[t] * ds[i]

Ties ==
  {x \in Group \X Group : x[1] # x[2] /\ Scaled(x[1], x[2]) = acc[x[1]] * ds[x[2]]}

AccelInit ==
  /\ \E n \in 2 .. MaxAxes :
       ds \in [1 .. n -> 1 .. MaxWay] /\ acc \in [1 .. n -> 1 .. MaxLimit]
  /\ up \in IF Rounding THEN SUBSET Ties ELSE {{}}
  /\ helpSet = Group
  /\ total = 0
  /\ pc = "search"

(* The comparison handed to max_element: an axis that is no candidate is    *)
(* neither less nor greater than any other.                                *)
Less(a, b) == a \in helpSet /\ b \in helpSet /\ ds[a] < ds[b]

(* std::ranges::max_element: walk the list, keep the last that was greater. *)
MaxElement ==
  LET best[i \in Group] ==
        IF i = 1 THEN 1 ELSE IF Less(best[i - 1], i) THEN i ELSE best[i - 1]
  IN  best[Len(ds)]

Candidate ==
  IF Cardinality(helpSet) > 1 THEN MaxElement ELSE CHOOSE i \in helpSet : TRUE

Exceeds(t) ==
  \E i \in Group : Scaled(i, t) > acc[i] * ds[t] \/ <<i, t>> \in up

(* Mutant: the candidate and all with a shorter way are dropped. *)
Round_DropsShorter ==
  /\ pc = "search"
  /\ total' = Candidate
  /\ IF ~Exceeds(total')
     THEN pc' = "found" /\ UNCHANGED helpSet
     ELSE /\ helpSet' = {i \in helpSet : ds[i] > ds[total']}
          /\ pc' = IF helpSet' = {} THEN "thrown" ELSE pc
  /\ UNCHANGED <<ds, acc, up>>

(* One round of the loop.                                                  *)
Round ==
  /\ pc = "search"
  /\ total' = Candidate
  /\ IF ~Exceeds(total')
     THEN pc' = "found" /\ UNCHANGED helpSet
     ELSE /\ helpSet' = helpSet \ {total'}
          /\ pc' = IF helpSet' = {} THEN "thrown" ELSE pc
  /\ UNCHANGED <<ds, acc, up>>

AccelNext == Round

AccelSpec == AccelInit /\ [][AccelNext]_accelVars
AccelFairSpec == AccelSpec /\ WF_accelVars(AccelNext)

-----------------------------------------------------------------------------
(***************************************************************************)
(* The exception "bad acceleration search algorithm 2" (line 436) is never  *)
(* thrown: the limiting axis is never dropped.  True of exact arithmetic,   *)
(* not of the doubles the code compares with ">".                          *)
(***************************************************************************)
NeverThrown == pc # "thrown"

(***************************************************************************)
(* What is found is right: no axis of the group exceeds its limit, and none *)
(* could be faster, for one of them is at its limit.                       *)
(***************************************************************************)
FoundIsBest ==
  pc = "found" =>
    /\ \A i \in Group : acc[total] * ds[i] <= acc[i] * ds[total]
    /\ \A t \in Group : ~Exceeds(t) => acc[t] * ds[total] = acc[total] * ds[t]

(* Both: the search never gives up, and what it finds is right.             *)
SearchIsRight == NeverThrown /\ FoundIsBest

(***************************************************************************)
(* The search comes to an end ("Если таких нету значит мы все посчитали     *)
(* правильно", line 428: if there are none, all is calculated).            *)
(***************************************************************************)
SearchEnds == <>(pc = "found")
=============================================================================
