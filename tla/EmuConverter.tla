----------------------------- MODULE EmuConverter -----------------------------
(***************************************************************************)
(* The converter of sys-emu (FC and frequency_converter_page) in the place *)
(* of the device behind frequency_converter.  The page keeps a status of   *)
(* two bits, powered and error, and masks of errors that the user flips;   *)
(* the device keeps the registers, and hands a write on only when it       *)
(* changes the register (modbus_device::set).                              *)
(***************************************************************************)
EXTENDS FrequencyConverter, FiniteSets

CONSTANTS
    ErrorRegisters  \* the registers 0xA412..0xA415 with masks of errors; one bit of each

VARIABLES
    command,        \* the register 0xA410: the bits start and reset
    statusBits,     \* status_ of the page: subset of {"powered", "error"}
    statusReg,      \* the register 0xA411
    masks,          \* errors_[].mask of the page: the registers with the bit set
    maskRegs        \* the registers of the masks that hold the bit

emuFcVars == <<command, statusBits, statusReg, masks, maskRegs>>

(* The converter as the node sees it: estatus of the register *)
Estatus == CASE statusReg = {} -> "idle"
             [] statusReg = {"powered"} -> "powered"
             [] statusReg = {"error"} -> "damaged"
             [] OTHER -> "?"

EmuFcTypeOK ==
    /\ command \in [start : BOOLEAN, reset : BOOLEAN]
    /\ statusBits \subseteq {"powered", "error"} /\ statusReg \subseteq {"powered", "error"}
    /\ masks \subseteq ErrorRegisters /\ maskRegs \subseteq ErrorRegisters

NothingSet ==
    /\ command = [start |-> FALSE, reset |-> FALSE]
    /\ statusBits = {} /\ statusReg = {} /\ masks = {} /\ maskRegs = {}

EmuFcInit == ConverterInit /\ device = "idle" /\ deviceSet = 0 /\ NothingSet

-----------------------------------------------------------------------------
(* The node, as in FrequencyConverter *)
Node ==
    /\ \/ ConverterActivate \/ ConverterDeactivate
       \/ ConverterLimits \/ ConverterCurrent
       \/ ReadStatusDone \/ NowUnitOnline \/ ConnectionWasLost
    /\ UNCHANGED emuFcVars

(* reset_callback_, then power_callback_ *)
AfterReset(w) == IF w.reset THEN [bits |-> statusBits \ {"error"}, masks |-> {}]
                 ELSE [bits |-> statusBits, masks |-> masks]

(* Mutant: a start without the reset that the node always sends with it. *)
Powered_Unreset(w) ==
    IF w.start THEN statusBits \cup {"powered"} ELSE AfterReset(w).bits \ {"powered"}

Powered(w) ==
    IF w.start THEN AfterReset(w).bits \cup {"powered"} ELSE AfterReset(w).bits \ {"powered"}

(* FC::changed(0xA410): the masks are cleared on the page only, not in the *)
(* registers.                                                              *)
CommandWritten ==
    /\ fcOnline /\ writes # <<>> /\ Head(writes).kind = "word"
    /\ LET w == Head(writes)
           word == [start |-> w.start, reset |-> w.reset]
       IN  /\ command' = word
           /\ IF word = command THEN UNCHANGED <<statusBits, statusReg, masks>>
              ELSE /\ statusBits' = Powered(w)
                   /\ statusReg' = statusBits'
                   /\ masks' = AfterReset(w).masks
    /\ device' = Estatus'
    /\ writes' = Tail(writes)
    /\ UNCHANGED <<nodeVars, doubt, deviceSet, maskRegs>>

(* The registers of the set values only change their labels. *)
SetsWritten ==
    /\ fcOnline /\ writes # <<>> /\ Head(writes).kind = "sets"
    /\ deviceSet' = Head(writes).value
    /\ writes' = Tail(writes)
    /\ UNCHANGED <<nodeVars, doubt, device, emuFcVars>>

(* invert_error_mask_bit: an error switches the converter off. *)
InvertErrorMaskBit(reg) ==
    /\ masks' = IF reg \in masks THEN masks \ {reg} ELSE masks \cup {reg}
    /\ maskRegs' = IF reg \in masks' THEN maskRegs \cup {reg} ELSE maskRegs \ {reg}
    /\ statusBits' = IF masks' # {} THEN {"error"} ELSE statusBits \ {"error"}
    /\ statusReg' = statusBits'
    /\ device' = Estatus'
    /\ UNCHANGED <<nodeVars, doubt, deviceSet, writes, command>>

EmuFcNext ==
    \/ Node \/ CommandWritten \/ SetsWritten
    \/ \E reg \in ErrorRegisters : InvertErrorMaskBit(reg)

EmuFcSpec == EmuFcInit /\ [][EmuFcNext]_<<fcVars, emuFcVars>>

-----------------------------------------------------------------------------
(* The status is one of the three the node knows: it never works while an  *)
(* error stands.  That is so because the node never starts without reset.  *)
OneStatus == Estatus # "?" /\ (statusReg = {"error"} <=> masks # {})

(* Every error that stands on the page can be read by the node.  The        *)
(* converse is not so: the reset clears the masks and not their registers,  *)
(* which hold an old error until its button is next pressed.                *)
NoErrorHidden == masks \subseteq maskRegs

(* The emulated converter is off, once all has arrived, unless told to     *)
(* work; its status is one the node knows, no error of the page is hidden. *)
EmuConverterSafe == OneStatus /\ NoErrorHidden /\ OffUnlessActive

(* A start that arrives switches the converter on.  The code violates it:   *)
(* after an error the node sends the word of before, and the device hands   *)
(* on only a word that differs.                                            *)
StartIsObeyed ==
    [][CommandWritten /\ Head(writes).start => device' = "powered"]_<<fcVars, emuFcVars>>
=============================================================================
