------------------------------ MODULE MC_Hand ------------------------------
(***************************************************************************)
(* Model of manual control: an axis with its client, and the hand unit with *)
(* the keys of the panel.  A behaviour is about one of them, `focus'.      *)
(***************************************************************************)
EXTENDS ServoAxis, RcuCtl, TLC

CONSTANTS a1, a2

VARIABLE focus

MCPlaces == 0..2
MCShifts == {-1, 2}
MCTimedShifts == {-1, 2}
MCReach == 0..3
MCClicks == {-1, 1, 2}
MCLinks == (1 :> a1) @@ (2 :> a2) @@ (3 :> None)

HandInit ==
    /\ focus \in {"axis", "rcu"}
    /\ AxisInit
    /\ focus = "rcu" => position = Low /\ drive.state = "ready"
    /\ RcuInit

HandNext ==
    /\ \/ focus = "axis" /\ AxisNext /\ UNCHANGED handVars
       \/ focus = "rcu" /\ RcuNext /\ UNCHANGED axisVars
    /\ UNCHANGED focus

mcHandVars == <<axisVars, handVars, focus>>

HandSpec == HandInit /\ [][HandNext]_mcHandVars /\ (focus = "axis" => AxisFairness)

HandSafe == AxisSafe /\ RcuSafe

(* The liveness of the axis, when the behaviour is about it.               *)
AxisComesBack == (focus = "axis" /\ axisWire = "blocked") ~> axisWire # "blocked"
=============================================================================
