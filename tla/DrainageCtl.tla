---------------------------- MODULE DrainageCtl -----------------------------
(***************************************************************************)
(* drainage_ctl switches the pump of the drain tank by two level sensors,  *)
(* with the level they stand in.  The methods level_norm, level_min and    *)
(* level_max are the values of `levelState'.                               *)
(***************************************************************************)
EXTENDS Integers

VARIABLES
    level,          \* of the tank: 0 at or below PMIN, 1 between, 2 at PMAX
    pmin, pmax,     \* the values the node has: "none", "yes", "no"
    levelState,     \* "norm", "min", "max"
    drainPump       \* the port H

drainVars == <<level, pmin, pmax, levelState, drainPump>>

Contact == {"none", "yes", "no"}

DrainTypeOK ==
    /\ level \in 0..2
    /\ pmin \in Contact /\ pmax \in Contact
    /\ levelState \in {"norm", "min", "max"}
    /\ drainPump \in BOOLEAN

DrainInit ==
    /\ level \in 0..2
    /\ pmin = "none" /\ pmax = "none"
    /\ levelState = "norm"
    /\ drainPump = FALSE

(* What the sensors show at level x. *)
PminAt(x) == IF x = 0 THEN "yes" ELSE "no"
PmaxAt(x) == IF x = 2 THEN "yes" ELSE "no"

-----------------------------------------------------------------------------
(* The three methods, called with the values just stored. *)
(* Mutant: an upper contact without value counts as seen. *)
LevelNorm_NoneIsFull(mn, mx) ==
    CASE mx # "no" -> levelState' = "max" /\ drainPump' = TRUE
      [] mx = "no" /\ mn = "yes" -> levelState' = "min" /\ drainPump' = FALSE
      [] OTHER -> UNCHANGED <<levelState, drainPump>>

LevelNorm(mn, mx) ==
    CASE mx = "yes" -> levelState' = "max" /\ drainPump' = TRUE
      [] mx # "yes" /\ mn = "yes" -> levelState' = "min" /\ drainPump' = FALSE
      [] OTHER -> UNCHANGED <<levelState, drainPump>>

LevelMin(mn, mx) ==
    /\ levelState' = IF mn = "yes" \/ mx = "no" THEN levelState ELSE "norm"
    /\ UNCHANGED drainPump

LevelMax(mn, mx) ==
    /\ levelState' = IF mx = "yes" \/ mn = "no" THEN levelState ELSE "norm"
    /\ UNCHANGED drainPump

CallLevel(mn, mx) ==
    CASE levelState = "norm" -> LevelNorm(mn, mx)
      [] levelState = "min" -> LevelMin(mn, mx)
      [] levelState = "max" -> LevelMax(mn, mx)

(* The ports of the sensors: a unit publishes a contact when it changes.   *)
DrainPmin == /\ pmin # PminAt(level) /\ pmin' = PminAt(level)
             /\ CallLevel(pmin', pmax)
             /\ UNCHANGED <<level, pmax>>

DrainPmax == /\ pmax # PmaxAt(level) /\ pmax' = PmaxAt(level)
             /\ CallLevel(pmin, pmax')
             /\ UNCHANGED <<level, pmin>>

(* The tank: a level changes by one, and not before both contacts of the   *)
(* last level have arrived (they are read five times a second).            *)
TankLevel == /\ pmin = PminAt(level) /\ pmax = PmaxAt(level)
             /\ level' \in {level - 1, level + 1} \cap (0..2)
             /\ UNCHANGED <<pmin, pmax, levelState, drainPump>>

DrainNext == DrainPmin \/ DrainPmax \/ TankLevel

DrainSpec == DrainInit /\ [][DrainNext]_drainVars

-----------------------------------------------------------------------------
(* "Sensor min: switch the pump off" (drainage-ctl.cpp:11): with the lower *)
(* contact seen, the pump is off.  The code violates it: the event that    *)
(* reports the minimum only leaves level_max, and nothing follows it.      *)
MinStopsPump == pmin = "yes" => ~drainPump

(* The pump is switched on only by the upper contact and off only by the   *)
(* lower one: no other order of the two contacts moves it.                 *)
PumpObeysContacts ==
    [][/\ ~drainPump /\ drainPump' => pmax' = "yes"
       /\ drainPump /\ ~drainPump' => pmin' = "yes" /\ pmax' # "yes"]_drainVars
=============================================================================
