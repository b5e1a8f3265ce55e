------------------------------ MODULE MainWindow ------------------------------
(***************************************************************************)
(* The frame of the GUI around its windows: the two labels of the mode      *)
(* (MainFrame) and the box that covers the windows while the inductor       *)
(* touches or the emergency stop is on (LockMessageBox).  The keys of the   *)
(* port bki are those of bki_ctl, see PanelNodes.                          *)
(***************************************************************************)
EXTENDS Naturals

CONSTANTS
    BkiKeys         \* values of the port bki

ASSUME FrameAssumption == BkiKeys \subseteq 0..255

VARIABLES
    modes,          \* auto_mode_ and rcu_mode_
    topLabel,       \* the upper label of the navigation panel
    bottomLabel,    \* the lower one
    bkiKey,         \* bki_action_key_
    bkiShown,       \* the part about the inductor is visible
    emgShown,       \* the part about the emergency stop is visible
    allowed,        \* allow_
    boxShown,       \* the box is on the screen
    buttonText,     \* what its button says
    contact,        \* history: the last key of the port
    keySent         \* history: the text of the button pressed last, the key sent

boxVars == <<bkiKey, bkiShown, emgShown, allowed, boxShown, buttonText, contact, keySent>>
frameVars == <<modes, topLabel, bottomLabel, boxVars>>

FrameTypeOK ==
    /\ modes \in [auto : {"none", "auto", "manual"}, rcu : {"none", "rcu", "panel"}]
    /\ topLabel \in {"dashes", "auto", "manual"} /\ bottomLabel \in {"dashes", "rcu", "panel"}
    /\ bkiKey \in 0..2 /\ contact \in BkiKeys \cup {0} /\ buttonText \in {"none", "remove", "protect"}
    /\ bkiShown \in BOOLEAN /\ emgShown \in BOOLEAN /\ allowed \in BOOLEAN /\ boxShown \in BOOLEAN
    /\ keySent \in [text : {"none", "remove", "protect"}, key : 0..2]

FrameInit ==
    /\ modes = [auto |-> "none", rcu |-> "none"]
    /\ topLabel = "dashes" /\ bottomLabel = "dashes"
    /\ bkiKey = 0 /\ bkiShown = FALSE /\ emgShown = FALSE
    /\ allowed = FALSE /\ boxShown = FALSE
    /\ buttonText = "none" /\ contact = 0 /\ keySent = [text |-> "none", key |-> 0]

-----------------------------------------------------------------------------
(* update_mode: the source of the hand is named in the manual mode only.    *)
UpdateMode(m) ==
    /\ modes' = m
    /\ topLabel' = IF m.auto = "none" THEN "dashes" ELSE m.auto
    /\ bottomLabel' = IF m.auto = "manual" /\ m.rcu # "none" THEN m.rcu ELSE "dashes"

ModePort ==
    /\ \/ \E a \in {"none", "auto", "manual"} : UpdateMode([modes EXCEPT !.auto = a])
       \/ \E r \in {"none", "rcu", "panel"} : UpdateMode([modes EXCEPT !.rcu = r])
    /\ UNCHANGED boxVars

UpdateDlgVisible(bki, emg, allow) == boxShown' = ((bki \/ emg) /\ allow)

(* Mutant: a key that offers to protect again leaves the old button. *)
BkiPort_OldButton(key) ==
    /\ contact' = key
    /\ bkiKey' = IF key \in 0..2 THEN key ELSE 0
    /\ IF key \in 0..2
       THEN /\ bkiShown' = (key # 0)
            /\ buttonText' = IF key = 1 THEN "remove" ELSE buttonText
            /\ UpdateDlgVisible(key # 0, emgShown, allowed)
       ELSE UNCHANGED <<bkiShown, buttonText, boxShown>>
    /\ UNCHANGED <<modes, topLabel, bottomLabel, emgShown, allowed, keySent>>

(* The port bki.  A key that is not known takes the action off the button   *)
(* and leaves the box.                                                     *)
BkiPort(key) ==
    /\ contact' = key
    /\ bkiKey' = IF key \in 0..2 THEN key ELSE 0
    /\ IF key \in 0..2
       THEN /\ bkiShown' = (key # 0)
            /\ buttonText' = IF key = 0 THEN buttonText ELSE IF key = 1 THEN "remove" ELSE "protect"
            /\ UpdateDlgVisible(key # 0, emgShown, allowed)
       ELSE UNCHANGED <<bkiShown, buttonText, boxShown>>
    /\ UNCHANGED <<modes, topLabel, bottomLabel, emgShown, allowed, keySent>>

EmgPort(active) ==
    /\ emgShown' = active
    /\ UpdateDlgVisible(bkiShown, active, allowed)
    /\ UNCHANGED <<modes, topLabel, bottomLabel, bkiKey, bkiShown, allowed, buttonText, contact, keySent>>

(* allow, by the login and the logout *)
Allow(allow) ==
    /\ allow # allowed
    /\ allowed' = allow
    /\ UpdateDlgVisible(bkiShown, emgShown, allow)
    /\ UNCHANGED <<modes, topLabel, bottomLabel, bkiKey, bkiShown, emgShown, buttonText, contact, keySent>>

PressBkiReset ==
    /\ boxShown /\ bkiShown
    /\ keySent' = [text |-> buttonText, key |-> bkiKey]
    /\ UNCHANGED <<modes, topLabel, bottomLabel, bkiKey, bkiShown, emgShown, allowed, boxShown,
                   buttonText, contact>>

FrameNext ==
    \/ ModePort \/ PressBkiReset
    \/ \E key \in BkiKeys : BkiPort(key)
    \/ \E on \in BOOLEAN : EmgPort(on) \/ Allow(on)

FrameSpec == FrameInit /\ [][FrameNext]_frameVars

-----------------------------------------------------------------------------
(* While an operator is logged in the box covers the windows exactly while  *)
(* there is a contact or an emergency stop (LockMessageBox.cpp:123), and    *)
(* its button does what it says: the key sent is that of its text.             *)
BoxCovers == boxShown <=> allowed /\ (emgShown \/ contact \in {1, 2})

ButtonDoesWhatItSays ==
    keySent.text # "none" => keySent.key = (IF keySent.text = "remove" THEN 1 ELSE 2)

(* The labels name the mode, and the source of the hand where it counts.    *)
LabelsName ==
    /\ topLabel # "dashes" => topLabel = modes.auto
    /\ bottomLabel # "dashes" <=> modes.auto = "manual" /\ modes.rcu # "none"

FrameShows == BoxCovers /\ ButtonDoesWhatItSays /\ LabelsName
=============================================================================
