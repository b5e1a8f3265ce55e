---------------------------- MODULE BarrelLvlCtl ----------------------------
(***************************************************************************)
(* barrel_lvl_ctl pours an amount of fluid into a tank: it opens the valve *)
(* and adds up the reported flow, at every report and every 100 ms, until  *)
(* the amount is reached.  Flow is known or not (NaN); what flows between  *)
(* two calls is any amount up to MaxInlet.                                 *)
(***************************************************************************)
EXTENDS Integers

CONSTANTS
    Amounts,        \* what may be ordered
    MaxInlet,       \* bound: most that flows between two calls
    Unknown         \* no number: the flow of a lost sensor, and sums with it

ASSUME LvlAssumption ==
    /\ Amounts \subseteq Nat \ {0}
    /\ MaxInlet \in Nat
    /\ Unknown \notin Int

VARIABLES
    lvlWire,        \* ictl_: "blocked", "ready", "active"
    flowKnown,      \* flow_rate_ is a number
    refilled,       \* refilled_volume_: a number or Unknown
    target,         \* target_volume_
    running,        \* the timer, and with it the valve
    lvlOutcome,     \* history: how the last order ended
    blind           \* history: it was started while the flow was unknown

lvlVars == <<lvlWire, flowKnown, refilled, target, running, lvlOutcome, blind>>

MaxAmount == CHOOSE a \in Amounts : \A b \in Amounts : b <= a

LvlTypeOK ==
    /\ lvlWire \in {"blocked", "ready", "active"}
    /\ flowKnown \in BOOLEAN
    /\ refilled \in 0..(MaxAmount + MaxInlet) \cup {Unknown}
    /\ target \in Amounts \cup {0}
    /\ running \in BOOLEAN
    /\ lvlOutcome \in {"none", "done", "stopped", "lost"}
    /\ blind \in BOOLEAN

LvlInit ==
    /\ lvlWire = "blocked"
    /\ flowKnown = FALSE
    /\ refilled = 0 /\ target = 0
    /\ running = FALSE
    /\ lvlOutcome = "none"
    /\ blind = FALSE

-----------------------------------------------------------------------------
LvlStop(outcome) == running' = FALSE /\ lvlOutcome' = outcome

(* A comparison with no number is false, so an unknown sum is "reached".   *)
Reached(sum, goal) == sum = Unknown \/ sum >= goal

(* decrease_amount with a flow that is known or not, towards the amount goal *)
DecreaseAmount(known, goal) ==
    \E inlet \in 0..MaxInlet :
        LET sum == IF known /\ refilled # Unknown THEN refilled + inlet ELSE Unknown
        IN  /\ refilled' = sum
            /\ IF Reached(sum, goal)
               THEN LvlStop("done") /\ lvlWire' = "ready"
               ELSE lvlWire' = "active" /\ UNCHANGED <<running, lvlOutcome>>

(* start_refilling; an order that comes while one is running is its new target *)
StartRefilling(amount) ==
    /\ lvlWire # "blocked"
    /\ target' = amount
    /\ IF running
       THEN DecreaseAmount(flowKnown, amount) /\ UNCHANGED blind
       ELSE /\ refilled' = 0
            /\ running' = TRUE
            /\ lvlWire' = "active"
            /\ lvlOutcome' = "none"
            /\ blind' = ~flowKnown
    /\ UNCHANGED flowKnown

StopRefilling ==
    /\ lvlWire = "active"
    /\ LvlStop("stopped")
    /\ lvlWire' = "ready"
    /\ UNCHANGED <<flowKnown, refilled, target, blind>>

RefillTimer ==
    /\ running
    /\ DecreaseAmount(flowKnown, target)
    /\ UNCHANGED <<flowKnown, target, blind>>

(* Mutant: a loss blocks the wire, the valve stays open. *)
UpdateFlowRate_OnlyTerminates(known) ==
    /\ flowKnown' = known
    /\ UNCHANGED <<target, blind, refilled, running, lvlOutcome>>
    /\ lvlWire' = CASE running /\ ~known -> "blocked"
                    [] ~running /\ known /\ ~flowKnown -> "ready"
                    [] OTHER -> lvlWire

(* update_flow_rate: while it runs, two numbers are needed (the mean of the *)
(* last and this one); otherwise the first number after none frees the wire *)
UpdateFlowRate(known) ==
    /\ flowKnown' = known
    /\ UNCHANGED <<target, blind>>
    /\ \/ /\ running /\ known /\ flowKnown
          /\ DecreaseAmount(TRUE, target)
       \/ /\ running /\ ~(known /\ flowKnown)
          /\ LvlStop("lost") /\ lvlWire' = "blocked"
          /\ UNCHANGED refilled
       \/ /\ ~running
          /\ lvlWire' = IF known /\ ~flowKnown THEN "ready" ELSE lvlWire
          /\ UNCHANGED <<refilled, running, lvlOutcome>>

LvlNext ==
    \/ \E a \in Amounts : StartRefilling(a)
    \/ StopRefilling
    \/ RefillTimer
    \/ \E known \in BOOLEAN : UpdateFlowRate(known)

LvlSpec == LvlInit /\ [][LvlNext]_lvlVars

-----------------------------------------------------------------------------
(* The valve is open exactly while the wire is active, whichever of report, *)
(* timer, order, stop and loss came last.                                   *)
OpenWhileActive == running <=> lvlWire = "active"

(* An order that is reported as done has poured its amount.  Not one that   *)
(* was started while the flow was unknown: the loss of an idle sensor does  *)
(* not block the wire, and the unknown sum counts as reached.               *)
DoneMeansPoured == lvlOutcome = "done" /\ ~blind => refilled # Unknown /\ refilled >= target

(* The valve is never open without a flow sensor, and the wire refuses      *)
(* orders only without one; again but for orders started blind (the first   *)
(* report then ends the order and leaves the wire blocked).                 *)
BlockedMeansNoFlow == ~blind => (running => flowKnown) /\ (lvlWire = "blocked" => ~flowKnown)

(* All three: an order to refill is carried out, ended or refused, whichever *)
(* of sensor, timer and client comes first.                                *)
RefillSafe == OpenWhileActive /\ DoneMeansPoured /\ BlockedMeansNoFlow
=============================================================================
