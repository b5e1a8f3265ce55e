------------------------------ MODULE AutoPage ------------------------------
(***************************************************************************)
(* The page of the automatic mode (auto-ctl-page.cpp, program-model-mode    *)
(* .cpp): the buttons follow the wire to the mode and the times it          *)
(* publishes, the row that is marked and the passes left of each loop       *)
(* follow the numbers of the phases it reports.                            *)
(*                                                                         *)
(* The mode itself is AutoMode; here it reports what NextOperation of Vm    *)
(* finds, one phase after another.                                         *)
(***************************************************************************)
EXTENDS Integers, Sequences

CONSTANTS
    PagePrograms,       \* programs of the page, as in Vm
    StopBeforeLoop      \* a run may be stopped in the row before a loop

ASSUME PageAssumption == StopBeforeLoop \in BOOLEAN /\ PagePrograms # {}

V == INSTANCE Vm WITH Axes <- {}

VARIABLES
    pageProg,           \* program_ of the model and of the mode
    pageWire,           \* ctl_: "blocked", "ready", "active"
    button,             \* the button shown with whether it is enabled
    continueShown,      \* btn_continue_ is shown, endless pause
    inPause,            \* the mode waits in an endless pause
    row,                \* current_row_, the number of rows if none is marked
    repeated,           \* loop_repeated_
    at,                 \* phase the mode is at
    passes              \* its counters of the loops

autoPageVars == <<pageProg, pageWire, button, continueShown, inPause, row, repeated, at, passes>>

Rows == Len(pageProg)
IsLoop(r) == r < Rows /\ V!Phase(pageProg, r).kind = "goto"
Loops == {r \in 0 .. Rows - 1 : IsLoop(r)}
NotLooped(prog) == [r \in 0 .. Len(prog) - 1 |-> V!Absent]
NothingRepeated(prog) == [r \in 0 .. Len(prog) |-> 0]

PageTypeOK ==
    /\ pageProg \in PagePrograms
    /\ pageWire \in {"blocked", "ready", "active"}
    /\ button \in [shown : {"start", "stop"}, enabled : BOOLEAN]
    /\ continueShown \in BOOLEAN /\ inPause \in BOOLEAN
    /\ row \in 0 .. Rows /\ at \in 0 .. Rows
    /\ DOMAIN repeated = 0 .. Rows /\ \A r \in 0 .. Rows : repeated[r] \in Nat

-----------------------------------------------------------------------------
(* init: the page is shown with a program of the list.                     *)
PageInit ==
    /\ pageProg \in PagePrograms
    /\ pageWire = "blocked" /\ button = [shown |-> "start", enabled |-> FALSE]
    /\ continueShown = FALSE /\ inPause = FALSE
    /\ row = Len(pageProg) /\ repeated = NothingRepeated(pageProg)
    /\ at = Len(pageProg) /\ passes = NotLooped(pageProg)

(* Mutant of the next: the passes of a loop that is done are kept.         *)
SetPhaseId_NeverReset(id) ==
    /\ row' = id
    /\ repeated' =
          IF row # Rows /\ id <= row
          THEN [repeated EXCEPT ![IF IsLoop(row) THEN row ELSE row + 1] = @ + 1]
          ELSE repeated

(* set_phase_id: a step back is a pass of the loop below the marked row, a  *)
(* step forward ends the loop above the new one.                           *)
SetPhaseId(id) ==
    /\ row' = id
    /\ repeated' =
          CASE row = Rows -> repeated
            [] row # Rows /\ id <= row ->
                  [repeated EXCEPT ![IF IsLoop(row) THEN row ELSE row + 1] = @ + 1]
            [] row # Rows /\ id > row -> [repeated EXCEPT ![id - 1] = 0]

(* update_widget_view, when the status of the wire has changed.            *)
UpdateWidgetView(status) ==
    /\ pageWire' = status /\ continueShown' = FALSE
    /\ button' = [shown |-> IF status = "active" THEN "stop" ELSE "start",
                  enabled |-> status # "blocked"]

(* make_start, and the mode that starts or refuses.                        *)
MakeStart ==
    /\ pageWire = "ready" /\ button = [shown |-> "start", enabled |-> TRUE]
    /\ repeated' = NothingRepeated(pageProg)
    /\ button' = [button EXCEPT !.enabled = FALSE]
    /\ UNCHANGED <<pageProg, pageWire, continueShown, inPause, row, at, passes>>

ModeStarts ==
    /\ pageWire = "ready" /\ ~button.enabled
    /\ UpdateWidgetView("active")
    /\ at' = 0 /\ passes' = NotLooped(pageProg) /\ SetPhaseId(0)
    /\ UNCHANGED <<pageProg, inPause>>

ModeStatus(status) ==
    /\ pageWire # status /\ status # "active"
    /\ pageWire = "active" => StopBeforeLoop \/ ~IsLoop(at + 1)
    /\ UpdateWidgetView(status) /\ inPause' = FALSE
    /\ UNCHANGED <<pageProg, row, repeated, at, passes>>

(* The mode goes on: the next phase, or the end, after which the mark is    *)
(* taken away (reset_phase_id) and the run is over.                        *)
ModeGoesOn ==
    /\ pageWire = "active" /\ ~inPause /\ at < Rows
    /\ LET found == V!NextOperation(pageProg, at + 1, passes)
       IN /\ at' = found.pid /\ passes' = found.goto
          /\ SetPhaseId(found.pid)
          /\ IF found.pid = Rows
             THEN UpdateWidgetView("ready") /\ UNCHANGED inPause
             ELSE /\ inPause' = (V!Phase(pageProg, found.pid).kind = "pause")
                  /\ UNCHANGED <<pageWire, button, continueShown>>
    /\ UNCHANGED pageProg

(* update_times, every 200 ms of a run.                                    *)
UpdateTimes ==
    /\ pageWire = "active" /\ continueShown' = inPause
    /\ UNCHANGED <<pageProg, pageWire, button, inPause, row, repeated, at, passes>>

(* make_continue: the mode leaves its pause; make_stop waits for it.        *)
MakeContinue ==
    /\ continueShown /\ pageWire = "active" /\ inPause' = FALSE
    /\ UNCHANGED <<pageProg, pageWire, button, continueShown, row, repeated, at, passes>>

MakeStop ==
    /\ pageWire = "active" /\ button' = [button EXCEPT !.enabled = FALSE]
    /\ UNCHANGED <<pageProg, pageWire, continueShown, inPause, row, repeated, at, passes>>

(* init again, with another program of the list.                           *)
ShowProgram ==
    \E p \in PagePrograms :
        /\ pageWire # "active" /\ pageProg' = p
        /\ row' = Len(p) /\ repeated' = NothingRepeated(p)
        /\ at' = Len(p) /\ passes' = NotLooped(p)
        /\ UNCHANGED <<pageWire, button, continueShown, inPause>>

PageNext ==
    \/ MakeStart \/ ModeStarts \/ ModeGoesOn \/ UpdateTimes
    \/ MakeContinue \/ MakeStop \/ ShowProgram
    \/ \E status \in {"blocked", "ready"} : ModeStatus(status)

PageSpec == PageInit /\ [][PageNext]_autoPageVars

-----------------------------------------------------------------------------
(* loop_repeat_count.                                                      *)
LoopRepeatCount(r) == V!Phase(pageProg, r).N - repeated[r]

(* The passes shown as left of a loop are those the mode will still make.   *)
PassesShown ==
    pageWire = "active" =>
        \A r \in Loops : LoopRepeatCount(r) = V!LoopLeft(V!Phase(pageProg, r), passes[r])

(* A run that goes on can be stopped or is being stopped, and one that is   *)
(* not ready cannot be started.                                            *)
ButtonsFit ==
    /\ pageWire = "active" <=> button.shown = "stop"
    /\ button = [shown |-> "start", enabled |-> TRUE] => pageWire = "ready"
    /\ continueShown => pageWire = "active"
    /\ pageWire = "active" => row = at

PageShowsRun == PassesShown /\ ButtonsFit
=============================================================================
