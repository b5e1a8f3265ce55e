------------------------------- MODULE Emulator -------------------------------
(***************************************************************************)
(* sys-emu: the emulator of the machine, in the place of the units behind  *)
(* the client of IoUnits.  It keeps the registers, answers the polls, and  *)
(* shows on its pages (mimic diagram, panel, sensors) what the registers   *)
(* hold; clicking there changes them.  Positions of valves, selectors and  *)
(* sensors are saved, and loaded by a timer after the start, when the      *)
(* units answer already.                                                   *)
(***************************************************************************)
EXTENDS IoUnits, EmuRegisters, FiniteSets

VARIABLES
    emuLoaded,      \* the timers of load_state have run
    emuSaved,       \* [watched -> value in the settings file]
    emuShown        \* the buttons and labels shown as on

emuVars == <<emuLoaded, emuSaved, emuShown>>

-----------------------------------------------------------------------------
(* The places of the mimic diagram in the registers, and those of the nodes *)
(* of the client for the same names.                                       *)
EmuPlace(item, k) ==
    CASE item = "H" -> k [] item = "WH" -> 2 + k [] item = "VA" -> 3 + k

EmuSensor == [P1 |-> 2, P2 |-> 3, P3 |-> 0, P4 |-> 1, P5 |-> 4]
NodeSensors == <<"P3", "P4", "P1", "P2", "P5">>     \* sens_idx_map, from bit 0

(* The labels l- and r- of the valves VA10..VA12, and their two buttons *)
EmuLabel(i) == <<2 * i + 1, 2 * i + 2>>
EmuFeedback(i) == <<2 * i, 2 * i + 1>>

TablesFit ==
    /\ \A k \in 0..1 : EmuPlace("H", k) = BNBit("H", k) /\ EmuPlace("VA", k) = BNBit("VA", k)
    /\ EmuPlace("WH", 0) = BNBit("WH", 0)
    /\ \A b \in 1..5 : EmuSensor[NodeSensors[b]] = b - 1
    /\ \A i \in 0..2 : EmuLabel(i)[1] = i * 2 + 1 /\ EmuFeedback(i)[2] = i * 2 + 1

(* The names are the same bits at both ends, for all items.               *)
ASSUME EmulatorFitsUnits == TablesFit

-----------------------------------------------------------------------------
(* What the pages show of the lists that are followed.  A button that flips *)
(* a bit is its own lamp; the labels of a valve and the lamps of the panel  *)
(* follow the outputs.                                                     *)
Flips == CASE ioUnit = PR205_BN -> {"H", "WH", "VA", "P"}
           [] ioUnit = PR205_A1 -> {"VA"}
           [] ioUnit = PR205_A14 -> {"H", "P"}
           [] ioUnit = PR200 -> {"VA"}
           [] OTHER -> {}

OutputLamps == CASE ioUnit \in {PR205_BN, PR205_A1, PR205_A14} ->
                        [o \in (Outputs \cap Flips) |-> CHOOSE b \in ioUnit.outs[o].on : TRUE]
                 [] ioUnit = PLC110 -> [b |-> 0, m2b |-> 2]
                 [] OTHER -> NoOutputs

Labels == IF ioUnit = PR205_A14 THEN [left |-> 1, right |-> 2] ELSE NoOutputs

(* callbacks_ of changed(): the register of the outputs was set to another value *)
Notified(outs) ==
    (emuShown \ (DOMAIN OutputLamps \cup DOMAIN Labels))
        \cup {o \in DOMAIN OutputLamps : OutputLamps[o] \in outs}
        \cup {l \in DOMAIN Labels : Labels[l] \in outs}

Changes(outs) == emuShown' = IF outs = ioOuts THEN emuShown ELSE Notified(outs)

(* Lists whose widgets save themselves: sliders, selectors, valve positions *)
Saves == {"FC", "DT", "DP"} \cup (IF ioUnit = PR205_A14 THEN {"VA"} ELSE {})
                            \cup (IF ioUnit = PLC110 THEN {"m2b"} ELSE {})

ValveButtons(v) == (IF v \in {1, 3} THEN {"l"} ELSE {}) \cup (IF v \in {2, 3} THEN {"r"} ELSE {})
Buttons(v) == IF ioUnit = PR205_A14 /\ "VA" \in watched THEN ValveButtons(v) ELSE {}

EmuTypeOK ==
    /\ emuLoaded \in BOOLEAN
    /\ emuSaved \in [watched -> 0..3]
    /\ emuShown \subseteq (ioUnit.lists \cup {"left", "right", "l", "r"})

Fresh == [l \in watched |-> 0]

PagesBlank ==
    /\ emuLoaded = FALSE
    /\ emuSaved = Fresh
    /\ emuShown = {}

EmuInit == IoInit /\ ioOuts = {} /\ PagesBlank

-----------------------------------------------------------------------------
Client ==
    /\ \/ \E l \in watched : ReadTaskDone(l)
       \/ \E o \in Outputs, v \in BOOLEAN : SetOutput(o, v)
       \/ ConnectionLost \/ UnitOnline \/ ProcessRestart
    /\ UNCHANGED emuVars

(* modbus_device::set by a write of the client: changed() when it differs *)
EmuWritten ==
    /\ UnitWrites
    /\ Changes(ioOuts')
    /\ UNCHANGED <<emuLoaded, emuSaved>>

(* dev_flip: the user switches an output himself. *)
FlipOutput(o) ==
    LET bit == OutputLamps[o]
    IN  /\ o \in Flips \cap DOMAIN OutputLamps \cap watched
        /\ ioOuts' = IF bit \in ioOuts THEN ioOuts \ {bit} ELSE ioOuts \cup {bit}
        /\ Changes(ioOuts')
        /\ ioFresh' = ioFresh \ Changed
        /\ ioTold' = FALSE
        /\ UNCHANGED <<ioUnit, watched, ioOnline, ioItem, ioPort, ioRegs, outVars,
                       emuLoaded, emuSaved>>

(* dev_p_flip, the button of the PR200, a slider, a contact or a selector  *)
(* of the panel: an input changes, and is saved where its widget does so.  *)
SetInput(l, v) ==
    /\ l \in watched \ DOMAIN ioUnit.echo /\ ~TwoBits(l)
    /\ l \notin {"spin", "m1b"}         \* no widget
    /\ ioRegs' = [ioRegs EXCEPT ![l] = v]
    /\ emuShown' = IF l \notin Flips THEN emuShown
                   ELSE IF v = 1 THEN emuShown \cup {l} ELSE emuShown \ {l}
    /\ emuSaved' = IF l \in Saves THEN [emuSaved EXCEPT ![l] = v] ELSE emuSaved
    /\ ioFresh' = ioFresh \ {l}
    /\ UNCHANGED <<ioUnit, watched, ioOnline, ioItem, ioPort, outVars, ioOuts, ioTold, emuLoaded>>

(* dev_va_flip of one of the two buttons of a valve, saved with its name *)
FlipFeedback(bit) ==
    /\ "VA" \in watched /\ TwoBits("VA")
    /\ ioRegs' = [ioRegs EXCEPT !["VA"] = IF (@ \div bit) % 2 = 1 THEN @ - bit ELSE @ + bit]
    /\ LET on == (ioRegs'["VA"] \div bit) % 2 = 1
           button == IF bit = 1 THEN "l" ELSE "r"
           saved == (emuSaved["VA"] \div bit) % 2
       IN  /\ emuShown' = IF on THEN emuShown \cup {button} ELSE emuShown \ {button}
           /\ emuSaved' = [emuSaved EXCEPT !["VA"] = @ + bit * ((IF on THEN 1 ELSE 0) - saved)]
    /\ ioFresh' = ioFresh \ {"VA"}
    /\ UNCHANGED <<ioUnit, watched, ioOnline, ioItem, ioPort, outVars, ioOuts, ioTold, emuLoaded>>

(* load_state of the valves, the selectors and the sliders *)
EmuLoads ==
    /\ ~emuLoaded /\ emuLoaded' = TRUE
    /\ ioRegs' = [l \in watched |-> IF l \in Saves THEN emuSaved[l] ELSE ioRegs[l]]
    /\ emuShown' = (emuShown \ {"l", "r"}) \cup
           Buttons(IF "VA" \in watched THEN emuSaved["VA"] ELSE 0)
    /\ ioFresh' = ioFresh \ Saves
    /\ UNCHANGED <<ioUnit, watched, ioOnline, ioItem, ioPort, outVars, ioOuts, ioTold, emuSaved>>

(* The emulator is closed and started again: its devices listen at once. *)
EmuRestart ==
    /\ ~ioOnline
    /\ ioOuts' = {} /\ ioRegs' = Fresh /\ ioTold' = FALSE
    /\ emuLoaded' = FALSE /\ emuShown' = {}
    /\ UNCHANGED <<ioUnit, watched, ioOnline, portVars, outVars, emuSaved>>

EmuNext ==
    \/ Client \/ EmuWritten \/ EmuLoads \/ EmuRestart
    \/ \E o \in {"H", "WH", "VA"} : FlipOutput(o)
    \/ \E l \in watched, v \in 0..1 : emuLoaded /\ SetInput(l, v)
    \/ \E bit \in {1, 2} : emuLoaded /\ FlipFeedback(bit)

EmuSpec == EmuInit /\ [][EmuNext]_<<ioVars, emuVars>>

-----------------------------------------------------------------------------
(* The pages show the registers the client reads, whoever changed them, and *)
(* also after a restart of the emulator.                                   *)
PagesShowRegisters ==
    /\ \A o \in DOMAIN OutputLamps : o \in emuShown <=> OutputLamps[o] \in ioOuts
    /\ \A l \in DOMAIN Labels : l \in emuShown <=> Labels[l] \in ioOuts
    /\ \A l \in (Flips \cap watched) \ DOMAIN OutputLamps : l \in emuShown <=> ioRegs[l] = 1
    /\ "VA" \in watched => emuShown \cap {"l", "r"} = Buttons(ioRegs["VA"])

(* What was saved is what the machine starts with again. *)
SavedIsKept ==
    emuLoaded => \A l \in Saves \cap watched : ioRegs[l] = emuSaved[l]

(* Once loaded, a click is not undone by a timer, a lamp lit by the client  *)
(* stays lit, and the client knows what the pages show.                    *)
EmulatorSafe == PagesShowRegisters /\ SavedIsKept
=============================================================================
