------------------------------- MODULE RcuCtl -------------------------------
(***************************************************************************)
(* The hand-held control unit and the axis keys of the panel: rcu_ctl and   *)
(* axis_panel_ctl of the process `cnc', which tell an axis how fast to     *)
(* spin.  The hand unit selects an axis by a contact and drives it by a    *)
(* knob; the speed is the sum of the last steps of the knob, which a timer *)
(* lets run out.                                                           *)
(***************************************************************************)
EXTENDS Integers, Sequences, Functions

CONSTANTS
    RcuAxes,        \* axes that may be driven by hand
    Links,          \* [contact |-> axis or NoAxis]: linked_tsp_key, contacts are numbers
    NoAxis,         \* '\0'
    FilterLength,   \* length of filter_ (10 in the code)
    Clicks,         \* changes of the knob in one message
    ReleaseFirst    \* does a contact open before the next one closes?

ASSUME RcuAssumption ==
    /\ NoAxis \notin RcuAxes
    /\ DOMAIN Links \subseteq Nat /\ \A k \in DOMAIN Links : Links[k] \in RcuAxes \cup {NoAxis}
    /\ FilterLength \in Nat \ {0} /\ Clicks \subseteq Int /\ ReleaseFirst \in BOOLEAN

VARIABLES
    contacts,       \* tsp_select_map_: the contacts that are closed
    rcuAxis,        \* axis_
    filter,         \* filter_, the latest value first
    rcuTimer,       \* is tid_ running?
    lastSpeed,      \* last_speed_
    knobKnown,      \* position_.has_value()
    handSpeed,      \* axis_map_[a].speed, 0 when its port is lost
    told,           \* the speed each axis was told last
    keys,           \* axis_panel_ctl: the keys "cw", "ccw" that are pressed
    panelTold       \* the direction its axis was told last

rcuVars == <<contacts, rcuAxis, filter, rcuTimer, lastSpeed, knobKnown, handSpeed, told>>
keyVars == <<keys, panelTold>>
handVars == <<rcuVars, keyVars>>

Still == [i \in 1..FilterLength |-> 0]
SumOf(f) == SumFunction(f)

RcuTypeOK ==
    /\ contacts \subseteq DOMAIN Links
    /\ rcuAxis \in RcuAxes \cup {NoAxis}
    /\ filter \in [1..FilterLength -> Int]
    /\ rcuTimer \in BOOLEAN /\ knobKnown \in BOOLEAN
    /\ lastSpeed \in Int
    /\ handSpeed \in [RcuAxes -> Nat] /\ told \in [RcuAxes -> Int]
    /\ keys \subseteq {"cw", "ccw"} /\ panelTold \in {-1, 0, 1}

RcuInit ==
    /\ contacts = {} /\ rcuAxis = NoAxis
    /\ filter = Still /\ rcuTimer = FALSE /\ lastSpeed = 0
    /\ knobKnown = FALSE
    /\ handSpeed = [a \in RcuAxes |-> 0] /\ told = [a \in RcuAxes |-> 0]
    /\ keys = {} /\ panelTold = 0

-----------------------------------------------------------------------------
(* calculate_next_value: the sum, within the speed of the axis.            *)
Limited(sum, limit) ==
    IF sum > limit THEN limit ELSE IF sum < -limit THEN -limit ELSE sum

CalculateNextValue(a, f, running) ==
    LET speed == Limited(SumOf(f), handSpeed[a])
    IN  /\ filter' = f
        /\ lastSpeed' = speed
        /\ told' = IF speed # lastSpeed THEN [told EXCEPT ![a] = speed] ELSE told
        /\ rcuTimer' = (running /\ SumOf(f) # 0)

Shifted(value) == <<value>> \o SubSeq(filter, 1, FilterLength - 1)

(* get_selected_tsp: the first closed contact, in the order of the table;   *)
(* get_selected_axis.                                                      *)
SelectedAxis(closed) ==
    IF closed = {} THEN NoAxis
    ELSE Links[CHOOSE k \in closed : \A other \in closed : k <= other]

(* Only when no axis is left does the previous one get its stop.           *)
UpdateAxisSelection ==
    /\ \E k \in DOMAIN Links :
         /\ ReleaseFirst => k \in contacts \/ contacts = {}
         /\ contacts' = IF k \in contacts THEN contacts \ {k} ELSE contacts \cup {k}
    /\ rcuAxis' = SelectedAxis(contacts')
    /\ IF rcuAxis' = NoAxis /\ rcuAxis # NoAxis
       THEN CalculateNextValue(rcuAxis, Still, rcuTimer)
       ELSE UNCHANGED <<filter, lastSpeed, told, rcuTimer>>
    /\ UNCHANGED <<knobKnown, handSpeed>>

(* The knob turns: its first position after a loss is only remembered, a   *)
(* change is a value for the axis that is selected.                        *)
SpinValueChanged ==
    /\ knobKnown' = TRUE
    /\ IF knobKnown /\ rcuAxis # NoAxis
       THEN \E diff \in Clicks :
              CalculateNextValue(rcuAxis, Shifted(diff * handSpeed[rcuAxis]), TRUE)
       ELSE UNCHANGED <<filter, lastSpeed, told, rcuTimer>>
    /\ UNCHANGED <<contacts, rcuAxis, handSpeed>>

SpinLost ==
    /\ knobKnown /\ knobKnown' = FALSE
    /\ UNCHANGED <<contacts, rcuAxis, filter, rcuTimer, lastSpeed, handSpeed, told>>

(* The timer, every 50 ms while it runs.                                   *)
RcuTimeout ==
    /\ rcuTimer
    /\ CalculateNextValue(rcuAxis, Shifted(0), TRUE)
    /\ UNCHANGED <<contacts, rcuAxis, knobKnown, handSpeed>>

(* The speed of an axis comes from its speed node, or is lost.             *)
HandSpeedChanges ==
    /\ \E a \in RcuAxes : handSpeed' = [handSpeed EXCEPT ![a] = 1 - @]
    /\ UNCHANGED <<contacts, rcuAxis, filter, rcuTimer, lastSpeed, knobKnown, told>>

-----------------------------------------------------------------------------
(* axis_panel_ctl: a key that is pressed spins the axis its way, a key     *)
(* that is let go stops it, whatever the other one does.                   *)
PanelKey(key, dir) ==
    /\ keys' = IF key \in keys THEN keys \ {key} ELSE keys \cup {key}
    /\ panelTold' = IF key \in keys' THEN dir ELSE 0

RcuNext ==
    \/ UpdateAxisSelection /\ UNCHANGED keyVars
    \/ SpinValueChanged /\ UNCHANGED keyVars
    \/ SpinLost /\ UNCHANGED keyVars
    \/ RcuTimeout /\ UNCHANGED keyVars
    \/ HandSpeedChanges /\ UNCHANGED keyVars
    \/ PanelKey("cw", 1) /\ UNCHANGED rcuVars
    \/ PanelKey("ccw", -1) /\ UNCHANGED rcuVars

RcuSpec == RcuInit /\ [][RcuNext]_handVars

-----------------------------------------------------------------------------
(* rcu-ctl.cpp:10: the connection is one to one or there is none.  An axis   *)
(* that the hand unit does not select is not told to spin.                 *)
OneToOne == \A a \in RcuAxes : told[a] # 0 => a = rcuAxis

(* Every spin dies: while an axis is told to spin the timer that stops it  *)
(* runs, and the speed on record is the one the axis was told.             *)
SpinDies ==
    /\ \A a \in RcuAxes : told[a] # 0 => rcuTimer /\ told[a] = lastSpeed
    /\ rcuTimer => SumOf(filter) # 0

(* The axis of the panel spins only while one of its keys is held.         *)
KeyHeld == panelTold # 0 => (IF panelTold = 1 THEN "cw" ELSE "ccw") \in keys

RcuSafe == OneToOne /\ SpinDies /\ KeyHeld
=============================================================================
