------------------------------ MODULE HandWindow ------------------------------
(***************************************************************************)
(* The window of the manual mode in the GUI: a tile for each axis          *)
(* (AxisCtlItemWidget), the dialog that drives one of them (axis_ctl_widget *)
(* in manual_engine_set_dlg), and the switch of a sprayer.  The wires to    *)
(* the axes and the ports arrive on their own, in any order; a rotating     *)
(* axis differs in its units only.                                         *)
(***************************************************************************)
EXTENDS Integers, Sequences

CONSTANTS
    TileAxes,       \* the axes
    NoAxis,         \* no axis
    SetSpeeds,      \* speeds the port set-speed may carry
    NoNumber,       \* NaN, shown for an empty port
    SpeedLost       \* the port may be empty while an axis may be driven

ASSUME WindowAssumption ==
    /\ SpeedLost \in BOOLEAN
    /\ SetSpeeds \subseteq Nat /\ 0 \notin SetSpeeds
    /\ NoAxis \notin TileAxes

Links == {"blocked", "ready", "active"}
Headers == {"gray", "green", "blue", "red"}

VARIABLES
    link,           \* [axis -> status of the wire ctl_]
    rcuAxis,        \* [axis -> rcu_axis_, never initialized; NoAxis for any other axis]
    tileFault,      \* [axis -> fault_]
    header,         \* [axis -> colour of the header]
    maxSpeed,       \* [axis -> axis_[].max_speed of the dialog]
    tileSpeed,      \* [axis -> the speed shown on the tile, NoNumber when gray]
    axisRow,        \* the selected row of the table
    dialogOpen,     \* the dialog is on the screen
    tabsShown,      \* its tabs are visible
    labels,         \* the speed it shows
    handed,         \* history: the last command handed on
    sprayer         \* the wire and the switch of a sprayer

tileVars == <<link, rcuAxis, tileFault, header, tileSpeed>>
dialogVars == <<maxSpeed, axisRow, dialogOpen, tabsShown, labels, handed>>
windowVars == <<tileVars, dialogVars, sprayer>>

Speeds == SetSpeeds \cup {0, NoNumber}
Nobody == [axis |-> NoAxis, kind |-> "stop", speed |-> 0, saw |-> 0]

WindowTypeOK ==
    /\ link \in [TileAxes -> Links] /\ header \in [TileAxes -> Headers]
    /\ \A a \in TileAxes : rcuAxis[a] \in {a, NoAxis}
    /\ rcuAxis \in [TileAxes -> TileAxes \cup {NoAxis}] /\ tileFault \in [TileAxes -> BOOLEAN]
    /\ maxSpeed \in [TileAxes -> Speeds] /\ tileSpeed \in [TileAxes -> Speeds]
    /\ axisRow \in TileAxes \cup {NoAxis} /\ labels \in Speeds
    /\ dialogOpen \in BOOLEAN /\ tabsShown \in BOOLEAN
    /\ handed.axis \in TileAxes \cup {NoAxis}
    /\ sprayer \in [link : Links, on : BOOLEAN, fixed : BOOLEAN, asked : BOOLEAN]

(* update_axis_view: the wire first, then the fault, then the hand panel *)
HeaderOf(a, l, f, r) ==
    CASE l = "ready" -> "green"
      [] l # "ready" /\ f -> "red"
      [] l # "ready" /\ ~f /\ r = a -> "blue"
      [] OTHER -> "gray"

WindowInit ==
    /\ link = [a \in TileAxes |-> "blocked"]
    /\ \E own \in SUBSET TileAxes : rcuAxis = [a \in TileAxes |-> IF a \in own THEN a ELSE NoAxis]
    /\ tileFault = [a \in TileAxes |-> FALSE]
    /\ header = [a \in TileAxes |-> HeaderOf(a, "blocked", FALSE, rcuAxis[a])]
    /\ maxSpeed = [a \in TileAxes |-> 0] /\ tileSpeed = [a \in TileAxes |-> NoNumber]
    /\ axisRow = NoAxis /\ dialogOpen = FALSE /\ tabsShown = FALSE /\ labels = 0
    /\ handed = Nobody
    /\ sprayer = [link |-> "blocked", on |-> FALSE, fixed |-> TRUE, asked |-> FALSE]

-----------------------------------------------------------------------------
(* The handler of the wire.  A drive moves at a speed: without one an axis  *)
(* is free to be driven only if SpeedLost.                                 *)
WireStatus(a, l) ==
    /\ l # link[a] /\ (l = "active" => link[a] = "ready")
    /\ l = "ready" => SpeedLost \/ maxSpeed[a] # NoNumber
    /\ link' = [link EXCEPT ![a] = l]
    /\ header' = [header EXCEPT ![a] = HeaderOf(a, l, tileFault[a], rcuAxis[a])]
    /\ UNCHANGED <<rcuAxis, tileFault, tileSpeed, dialogVars, sprayer>>

RcuAxisPort(a, r) ==
    /\ rcuAxis' = [rcuAxis EXCEPT ![a] = r]
    /\ header' = [header EXCEPT ![a] = HeaderOf(a, link[a], tileFault[a], r)]
    /\ UNCHANGED <<link, tileFault, tileSpeed, dialogVars, sprayer>>

(* update_status redraws the header only when the fault has changed *)
UpdateAxisStatus(a, f) ==
    /\ IF f = tileFault[a] THEN UNCHANGED <<tileFault, header>>
       ELSE /\ tileFault' = [tileFault EXCEPT ![a] = f]
            /\ header' = [header EXCEPT ![a] = HeaderOf(a, link[a], f, rcuAxis[a])]
    /\ UNCHANGED <<link, rcuAxis, tileSpeed, dialogVars, sprayer>>

(* Mutant: the labels are not redrawn, they keep the speed of before. *)
SetSpeedPort_LabelStays(a, v) ==
    /\ v = NoNumber => SpeedLost \/ link[a] = "blocked"
    /\ tileSpeed' = [tileSpeed EXCEPT ![a] = v]
    /\ maxSpeed' = [maxSpeed EXCEPT ![a] = v]
    /\ UNCHANGED <<link, rcuAxis, tileFault, header, axisRow, dialogOpen, tabsShown,
                   labels, handed, sprayer>>

(* set-speed, and set_axis_max_speed of the dialog behind it *)
SetSpeedPort(a, v) ==
    /\ v = NoNumber => SpeedLost \/ link[a] = "blocked"
    /\ tileSpeed' = [tileSpeed EXCEPT ![a] = v]
    /\ maxSpeed' = [maxSpeed EXCEPT ![a] = v]
    /\ labels' = IF a = axisRow THEN v ELSE labels
    /\ UNCHANGED <<link, rcuAxis, tileFault, header, axisRow, dialogOpen, tabsShown,
                   handed, sprayer>>

-----------------------------------------------------------------------------
(* on_axis_selected, when the current row of the table changes *)
Select(a) ==
    /\ axisRow' = a
    /\ IF a = axisRow THEN UNCHANGED <<tabsShown, labels>>
       ELSE tabsShown' = TRUE /\ labels' = maxSpeed[a]

(* mousePressEvent, show_axis_move_dlg, select_axis *)
PressTile(a) ==
    /\ link[a] = "ready"
    /\ Select(a)
    /\ dialogOpen' = TRUE
    /\ UNCHANGED <<tileVars, maxSpeed, handed, sprayer>>

SelectRow(a) ==
    /\ dialogOpen
    /\ Select(a)
    /\ UNCHANGED <<tileVars, maxSpeed, dialogOpen, handed, sprayer>>

CloseDialog ==
    /\ dialogOpen /\ dialogOpen' = FALSE
    /\ UNCHANGED <<tileVars, maxSpeed, axisRow, tabsShown, labels, handed, sprayer>>

(* A button of the dialog: move-to and shift at the speed of the axis, spin *)
(* at it in either direction, stop and zero without.  execute hands it on   *)
(* when the wire is free or already taken, and drops it otherwise.          *)
Execute(kind) ==
    /\ dialogOpen /\ (tabsShown \/ kind = "zero")
    /\ axisRow # NoAxis
    /\ link[axisRow] \in {"ready", "active"}
    /\ handed' = [axis |-> axisRow, kind |-> kind,
                  speed |-> IF kind \in {"stop", "zero"} THEN 0 ELSE maxSpeed[axisRow],
                  saw |-> labels]
    /\ link' = [link EXCEPT ![axisRow] = "active"]
    /\ header' = [header EXCEPT ![axisRow] =
                                 HeaderOf(axisRow, "active", tileFault[axisRow], rcuAxis[axisRow])]
    /\ UNCHANGED <<rcuAxis, tileFault, tileSpeed, maxSpeed, axisRow, dialogOpen, tabsShown,
                   labels, sprayer>>

-----------------------------------------------------------------------------
(* The switch of a sprayer.  A click shows at once what was asked for,      *)
(* update_widget_view what the wire answers.                               *)
SprayerStatus(l) ==
    /\ sprayer' = [link |-> l, fixed |-> l = "blocked", asked |-> FALSE,
                   on |-> l = "active" \/ (l = "blocked" /\ sprayer.on)]
    /\ UNCHANGED <<tileVars, dialogVars>>

ChangeState ==
    /\ ~sprayer.fixed
    /\ sprayer' = [sprayer EXCEPT !.on = ~@, !.asked = TRUE]
    /\ UNCHANGED <<tileVars, dialogVars>>

SprayerNext == ChangeState \/ \E l \in Links : SprayerStatus(l)

AxesNext ==
    \/ \E a \in TileAxes :
          \/ \E l \in Links : WireStatus(a, l)
          \/ \E r \in {a, NoAxis} : RcuAxisPort(a, r)
          \/ \E f \in BOOLEAN : UpdateAxisStatus(a, f)
          \/ \E v \in SetSpeeds \cup {NoNumber} : SetSpeedPort(a, v)
          \/ PressTile(a) \/ SelectRow(a)
    \/ CloseDialog
    \/ \E kind \in {"move-to", "shift", "spin", "stop", "zero"} : Execute(kind)

WindowNext == AxesNext \/ SprayerNext

WindowSpec == WindowInit /\ [][WindowNext]_windowVars

-----------------------------------------------------------------------------
(* A movement is handed on with the speed the operator saw, for the axis he *)
(* had selected (axis-ctl-widget.cpp:102, :301), and the dialog shows the   *)
(* speed of that axis whatever arrives in between.                         *)
MovesAsShown ==
    /\ axisRow # NoAxis => labels = maxSpeed[axisRow] /\ tabsShown
    /\ dialogOpen => axisRow # NoAxis
    /\ handed.kind \in {"move-to", "shift", "spin"} => handed.speed = handed.saw

(* The tile is the colour of its wire, its fault and the hand panel, and    *)
(* the dialog drives at the speed the tile shows.                          *)
TilesShow ==
    \A a \in TileAxes :
        /\ header[a] = HeaderOf(a, link[a], tileFault[a], rcuAxis[a])
        /\ maxSpeed[a] # 0 => tileSpeed[a] = maxSpeed[a]

(* Unless the operator has just asked for the other, a sprayer that works is *)
(* shown as on, one that is free as off.                                   *)
SprayerIsShown ==
    sprayer.link # "blocked" /\ ~sprayer.asked => (sprayer.on <=> sprayer.link = "active")

WindowShows == MovesAsShown /\ TilesShow /\ SprayerIsShown

(* No movement is handed on without a number for its speed.  With SpeedLost *)
(* the code violates it: the dialog keeps NaN and sends it.                *)
SpeedIsNumber == handed.speed # NoNumber
=============================================================================
