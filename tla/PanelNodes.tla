----------------------------- MODULE PanelNodes -----------------------------
(***************************************************************************)
(* The nodes of the operator's panel that keep state: the two mode         *)
(* switches with speed_node behind them, the start and stop buttons        *)
(* (multi_mode_panel_btns), the protection against contact with the        *)
(* inductor (bki_ctl), the choice of the inductor (current_conductors) and *)
(* the collected error (error_mask).  `panelPart' is the group a behaviour *)
(* is about: the groups share nothing.                                     *)
(***************************************************************************)
EXTENDS Integers, Sequences

CONSTANTS
    PanelSpeeds, RcuSpeeds,     \* speeds of an axis: sets of triples
    RecordLists,                \* lists of inductors that may be configured
    ErrorBits                   \* inputs of error_mask

NoSpeed == -1       \* the port of speed_node is empty

ASSUME PanelAssumption ==
    /\ PanelSpeeds \subseteq [1..3 -> Nat] /\ RcuSpeeds \subseteq [1..3 -> Nat]
    /\ \A r \in RecordLists : r \in Seq(Int)

VARIABLES panelPart, sw, speed, btn, bki, cond, err

panelVars == <<panelPart, sw, speed, btn, bki, cond, err>>

PanelTypeOK ==
    /\ sw \in [auto : {"none", "auto", "manual"}, rcu : {"none", "rcu", "panel"}]
    /\ speed \in [auto : {"none", "auto", "manual"}, rcu : {"none", "rcu", "panel"},
                  ss0 : BOOLEAN, ss1 : BOOLEAN,
                  panel : PanelSpeeds, rcuTab : RcuSpeeds, out : Int]
    /\ btn \in [mode : {"none", "fc", "auto"}, on : SUBSET {"fc", "auto"},
                kept : BOOLEAN, last : {"none", "start", "stop"}]
    /\ bki \in [port : 0..2, notAllow : BOOLEAN, reset : BOOLEAN,
                waiting : BOOLEAN, contact : BOOLEAN]
    /\ cond.selected \in 0..3
    /\ err \in [bits : SUBSET ErrorBits, source : [ErrorBits -> {"none", "ok", "bad", "lost"}],
                result : BOOLEAN]

PanelInit ==
    /\ panelPart \in {"speed", "buttons", "bki", "conductors", "errors"}
    /\ sw = [auto |-> "none", rcu |-> "none"]
    /\ \E p \in PanelSpeeds, r \in RcuSpeeds :
         speed = [auto |-> "none", rcu |-> "none", ss0 |-> FALSE, ss1 |-> FALSE,
                  panel |-> p, rcuTab |-> r, out |-> NoSpeed]
    /\ btn = [mode |-> "none", on |-> {}, kept |-> TRUE, last |-> "none"]
    /\ bki = [port |-> 0, notAllow |-> FALSE, reset |-> FALSE, waiting |-> FALSE,
              contact |-> FALSE]
    /\ cond = [records |-> <<>>, selected |-> 0, port |-> -1]
    /\ err = [bits |-> {}, source |-> [b \in ErrorBits |-> "none"], result |-> FALSE]

-----------------------------------------------------------------------------
(* The switches publish a mode, or none when their contact is lost.        *)
ManualAutoSwitch(in) ==
    sw' = [sw EXCEPT !.auto = CASE in = "lost" -> "none" [] in = "on" -> "auto" [] in = "off" -> "manual"]

PanelRcuSwitch(in) ==
    sw' = [sw EXCEPT !.rcu = CASE in = "lost" -> "none" [] in = "on" -> "rcu" [] in = "off" -> "panel"]

(* speed_node: the table the two modes select, and the speed of the two    *)
(* contacts of the selector in it.                                         *)
SpeedTable(n) ==
    CASE n.auto = "manual" /\ n.rcu = "rcu" -> n.rcuTab
      [] n.auto = "manual" /\ n.rcu = "panel" -> n.panel
      [] OTHER -> <<>>

SpeedIdx(n) == IF n.ss0 = n.ss1 THEN 1 ELSE IF n.ss0 THEN 2 ELSE 3

UpdateOutputValue(n) ==
    speed' = [n EXCEPT !.out = IF SpeedTable(n) = <<>> THEN NoSpeed
                               ELSE SpeedTable(n)[SpeedIdx(n)]]

(* Mutant: a new table is not published. *)
SpeedInput_TableLater ==
    \/ \E v \in BOOLEAN : \/ UpdateOutputValue([speed EXCEPT !.ss0 = v])
                          \/ UpdateOutputValue([speed EXCEPT !.ss1 = v])
    \/ UpdateOutputValue([speed EXCEPT !.rcu = sw.rcu])
    \/ UpdateOutputValue([speed EXCEPT !.auto = sw.auto])
    \/ \E p \in PanelSpeeds, r \in RcuSpeeds : speed' = [speed EXCEPT !.panel = p, !.rcuTab = r]

SpeedInput ==
    \/ \E v \in BOOLEAN : \/ UpdateOutputValue([speed EXCEPT !.ss0 = v])
                          \/ UpdateOutputValue([speed EXCEPT !.ss1 = v])
    \/ UpdateOutputValue([speed EXCEPT !.rcu = sw.rcu])
    \/ UpdateOutputValue([speed EXCEPT !.auto = sw.auto])
    \/ \E p \in PanelSpeeds, r \in RcuSpeeds :
         UpdateOutputValue([speed EXCEPT !.panel = p, !.rcuTab = r])

SpeedPart ==
    /\ panelPart = "speed"
    /\ \/ (\E in \in {"lost", "on", "off"} : ManualAutoSwitch(in) \/ PanelRcuSwitch(in))
          /\ UNCHANGED speed
       \/ SpeedInput /\ UNCHANGED sw
    /\ UNCHANGED <<btn, bki, cond, err>>

-----------------------------------------------------------------------------
(* The start and stop buttons act on the wire of the mode; on is what they  *)
(* have activated.  History: last is the button that was pressed last, kept *)
(* says that the mode was not changed while something was on.               *)
ButtonMode(auto) ==
    LET mode == IF auto THEN "auto" ELSE "fc"
    IN  btn' = [btn EXCEPT !.mode = mode, !.kept = @ /\ btn.on \subseteq {mode}]

ButtonStart == /\ btn.mode # "none"
               /\ btn' = [btn EXCEPT !.on = @ \cup {btn.mode}, !.last = "start"]

StopWire(mode) == mode

ButtonStop == /\ btn.mode # "none"
              /\ LET on == btn.on \ {StopWire(btn.mode)}
                 IN  btn' = [btn EXCEPT !.on = on, !.kept = @ \/ on = {}, !.last = "stop"]

ButtonsPart ==
    /\ panelPart = "buttons"
    /\ (\E auto \in BOOLEAN : ButtonMode(auto)) \/ ButtonStart \/ ButtonStop
    /\ UNCHANGED <<sw, speed, bki, cond, err>>

-----------------------------------------------------------------------------
(* bki_ctl: the message on the screen is 0 none, 1 contact (offers to take  *)
(* the protection off), 2 protection is off (offers to set it again).       *)
BkiActivate(key) ==
    bki' = CASE key = 0 -> bki
             [] key = 1 -> [bki EXCEPT !.notAllow = TRUE, !.reset = TRUE, !.port = 2, !.waiting = TRUE]
             [] key = 2 -> [bki EXCEPT !.notAllow = FALSE, !.reset = FALSE, !.port = 0, !.waiting = FALSE]

BkiInput(active) ==
    bki' = [bki EXCEPT !.contact = active,
                       !.port = IF bki.waiting THEN @ ELSE IF active THEN 1 ELSE 0]

BkiConfig(allow) == bki' = [bki EXCEPT !.notAllow = ~allow, !.reset = ~allow]

(* The screen sends the key of the message it shows. *)
BkiPart ==
    /\ panelPart = "bki"
    /\ \/ BkiActivate(bki.port)
       \/ \E active \in BOOLEAN : BkiInput(active)
       \/ \E allow \in BOOLEAN : BkiConfig(allow)
    /\ UNCHANGED <<sw, speed, btn, cond, err>>

-----------------------------------------------------------------------------
RecordIdx(records, selected) ==
    IF selected >= Len(records) THEN Len(records) ELSE selected + 1

UpdateLimits(c) ==
    cond' = IF c.records = <<>> THEN c
            ELSE [c EXCEPT !.port = c.records[RecordIdx(c.records, c.selected)]]

ConductorsPart ==
    /\ panelPart = "conductors"
    /\ \/ \E r \in RecordLists : UpdateLimits([cond EXCEPT !.records = r])
       \/ \E s \in 0..3 : /\ s \div 2 = cond.selected \div 2 \/ s % 2 = cond.selected % 2
                          /\ UpdateLimits([cond EXCEPT !.selected = s])
    /\ UNCHANGED <<sw, speed, btn, bki, err>>

(* error_mask: any bit, and a lost bit counts as set. *)
ErrorInput(b, in) ==
    LET bits == IF in = "ok" THEN err.bits \ {b} ELSE err.bits \cup {b}
    IN  err' = [bits |-> bits, source |-> [err.source EXCEPT ![b] = in], result |-> bits # {}]

ErrorsPart ==
    /\ panelPart = "errors"
    /\ \E b \in ErrorBits, in \in {"ok", "bad", "lost"} : ErrorInput(b, in)
    /\ UNCHANGED <<sw, speed, btn, bki, cond>>

PanelNext ==
    /\ SpeedPart \/ ButtonsPart \/ BkiPart \/ ConductorsPart \/ ErrorsPart
    /\ UNCHANGED panelPart

PanelSpec == PanelInit /\ [][PanelNext]_panelVars

-----------------------------------------------------------------------------
(* Once the modes of the switches have arrived, a manual speed is offered   *)
(* only in manual mode with a known source, and it is the one selected in   *)
(* the present table: no order of switch, selector and configuration leaves *)
(* an old speed standing (speed-node.cpp:56-78).                            *)
SpeedIsCurrent ==
    speed.auto = sw.auto /\ speed.rcu = sw.rcu =>
        /\ speed.out # NoSpeed => sw.auto = "manual" /\ sw.rcu # "none"
        /\ sw.auto = "manual" /\ sw.rcu = "panel" => speed.out = speed.panel[SpeedIdx(speed)]
        /\ sw.auto = "manual" /\ sw.rcu = "rcu" => speed.out = speed.rcuTab[SpeedIdx(speed)]

(* The stop button switches off everything the start button switched on,    *)
(* as long as the mode was not changed in between (then what runs in the    *)
(* other mode goes on: multi-mode-panel-btns.cpp:27-31 knows one mode only). *)
StopSwitchesOff == btn.kept /\ btn.last = "stop" => btn.on = {}

(* Protection that the operator took off is shown as such until he sets it  *)
(* again: neither the contact nor a change of the configuration hides the   *)
(* button (bki-ctl.cpp:47).                                                 *)
RemovedIsShown == bki.waiting <=> bki.port = 2

(* The published inductor is always one of the list, the one selected.      *)
LimitsAreSelected ==
    cond.records # <<>> /\ cond.port # -1 =>
        \E i \in 1..Len(cond.records) :
            /\ cond.records[i] = cond.port
            /\ i = cond.selected + 1 \/ (i = Len(cond.records) /\ cond.selected >= i)

(* The error is announced exactly while an input is bad or lost. *)
ErrorIsAny == err.result <=> \E b \in ErrorBits : err.source[b] \in {"bad", "lost"}

(* All of them: what the panel offers and shows is what its switches,       *)
(* tables and contacts say now, whatever came before.                      *)
PanelCurrent ==
    SpeedIsCurrent /\ StopSwitchesOff /\ RemovedIsShown /\ LimitsAreSelected /\ ErrorIsAny
=============================================================================
