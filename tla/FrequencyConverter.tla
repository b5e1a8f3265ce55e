------------------------- MODULE FrequencyConverter -------------------------
(***************************************************************************)
(* frequency_converter: the node that switches the converter of the heater *)
(* over Modbus.  It polls the status every 300 ms and decides by the last  *)
(* answer; what it writes waits in the queue of the master.  Of the three  *)
(* set values current, voltage and power the current stands for all: power *)
(* is limited the same way, voltage is the one of the limits.              *)
(***************************************************************************)
EXTENDS Integers, Sequences

CONSTANTS
    Currents,       \* set values and limits
    MaxWrites       \* bound: writes waiting in the queue of the master

ASSUME ConverterAssumption == Currents \subseteq Nat /\ 0 \in Currents /\ MaxWrites \in Nat

NoSets == -1        \* priority_sets_ without value

VARIABLES
    fcWire,         \* ictl_: "blocked", "ready", "active"
    fcStatus,       \* status_: "none" (no value), "idle", "powered", "damaged"
    fcOnline,       \* unit::is_online
    iMax, iSet,     \* I_max_ and iup_[kI]
    prioritySets,   \* priority_sets_
    writes,         \* writes not yet at the device
    device,         \* the converter: "idle", "starting", "powered", "damaged"
    deviceSet,      \* the current it was told
    poweredPort,    \* the port "powered"
    doubt           \* history: the wire was freed while a start was on its way

nodeVars == <<fcWire, fcStatus, fcOnline, iMax, iSet, prioritySets, poweredPort>>
deviceVars == <<device, deviceSet>>
fcVars == <<nodeVars, deviceVars, writes, doubt>>

Least(a, b) == IF a < b THEN a ELSE b

(* A write: the control word (bit 0 starts, bit 1 resets errors) or a set value *)
Word(start, reset) == [kind |-> "word", start |-> start, reset |-> reset, value |-> 0]
Sets(v) == [kind |-> "sets", start |-> FALSE, reset |-> FALSE, value |-> v]

ConverterTypeOK ==
    /\ fcWire \in {"blocked", "ready", "active"}
    /\ fcStatus \in {"none", "idle", "powered", "damaged"}
    /\ fcOnline \in BOOLEAN /\ poweredPort \in BOOLEAN /\ doubt \in BOOLEAN
    /\ iMax \in Currents /\ iSet \in Currents
    /\ prioritySets \in Currents \cup {NoSets}
    /\ device \in {"idle", "starting", "powered", "damaged"}
    /\ deviceSet \in Currents
    /\ Len(writes) <= MaxWrites + 2

(* The process starts beside a converter in any state. *)
ConverterInit ==
    /\ fcWire = "blocked" /\ fcStatus = "none" /\ fcOnline = FALSE
    /\ iMax = 0 /\ iSet = 0 /\ prioritySets = NoSets
    /\ writes = <<>>
    /\ device \in {"idle", "powered", "damaged"}
    /\ deviceSet \in Currents
    /\ poweredPort = FALSE /\ doubt = FALSE

-----------------------------------------------------------------------------
(* write_sets: nothing offline, nothing while the sets of a program rule. *)
WriteSets(v, prio) == IF ~fcOnline \/ prio # NoSets THEN <<>> ELSE <<Sets(v)>>

Room == Len(writes) <= MaxWrites

(* activate, with the sets of a program or without *)
StartWord == IF fcStatus = "powered" THEN <<>> ELSE <<Word(TRUE, TRUE)>>

ConverterActivate ==
    /\ fcWire # "blocked" /\ Room
    /\ fcWire' = "active"
    /\ \/ \E i \in Currents :
            /\ prioritySets' = Least(iMax, i)
            /\ writes' = writes \o <<Sets(prioritySets')>> \o StartWord
       \/ /\ prioritySets' = NoSets
          /\ writes' = writes \o WriteSets(iSet, NoSets) \o StartWord
    /\ UNCHANGED <<fcStatus, fcOnline, iMax, iSet, poweredPort, deviceVars, doubt>>

(* A start is on its way that the node has not seen done. *)
Starting ==
    \/ device = "starting" \/ (device = "powered" /\ fcStatus # "powered")
    \/ \E k \in DOMAIN writes : writes[k].start

(* deactivate: by the status of the last poll *)
StopWord ==
    CASE fcStatus = "powered" -> <<Word(FALSE, FALSE)>>
      [] fcStatus = "damaged" -> <<Word(FALSE, TRUE)>>
      [] OTHER -> <<>>

ConverterDeactivate ==
    /\ fcWire = "active" /\ Room
    /\ fcWire' = "ready"
    /\ writes' = writes \o StopWord
    /\ doubt' = (StopWord = <<>> /\ Starting)
    /\ UNCHANGED <<fcStatus, fcOnline, iMax, iSet, prioritySets, poweredPort, deviceVars>>

(* The ports "limits" and "I" *)
ConverterLimits ==
    /\ Room
    /\ \E m \in Currents : /\ iMax' = m
                           /\ iSet' = Least(m, iSet)
    /\ writes' = writes \o WriteSets(iSet', prioritySets)
    /\ UNCHANGED <<fcWire, fcStatus, fcOnline, prioritySets, poweredPort, deviceVars, doubt>>

ConverterCurrent ==
    /\ Room
    /\ \E i \in Currents : iSet' = Least(iMax, i)
    /\ writes' = writes \o WriteSets(iSet', prioritySets)
    /\ UNCHANGED <<fcWire, fcStatus, fcOnline, iMax, prioritySets, poweredPort, deviceVars, doubt>>

(* read_status_done: frees the wire when the converter is seen off *)
Shown == IF device = "starting" THEN "idle" ELSE device

ReadStatusDone ==
    /\ fcOnline
    /\ \/ Shown = "damaged" \/ Shown # fcStatus
    /\ fcStatus' = Shown
    /\ poweredPort' = (Shown = "powered")
    /\ fcWire' = IF Shown # fcStatus /\ Shown # "powered" THEN "ready" ELSE fcWire
    /\ doubt' = (doubt \/ (fcWire' # fcWire /\ Starting))
    /\ UNCHANGED <<fcOnline, iMax, iSet, prioritySets, writes, deviceVars>>

NowUnitOnline ==
    /\ ~fcOnline /\ fcOnline' = TRUE
    /\ Room
    /\ writes' = Append(writes, Word(FALSE, TRUE))
    /\ doubt' = FALSE
    /\ UNCHANGED <<fcWire, fcStatus, iMax, iSet, prioritySets, poweredPort, deviceVars>>

(* What waits in the queue when the link is lost is sent later or dropped. *)
ConnectionWasLost ==
    /\ fcOnline /\ fcOnline' = FALSE
    /\ fcWire' = "blocked"
    /\ fcStatus' = "none"
    /\ poweredPort' = FALSE
    /\ writes' \in {writes, <<>>}
    /\ UNCHANGED <<iMax, iSet, prioritySets, deviceVars, doubt>>

-----------------------------------------------------------------------------
(* The converter.  It executes the writes in order and takes its time to start. *)
Control(w) ==
    IF device = "damaged" /\ ~w.reset THEN "damaged"
    ELSE IF ~w.start THEN "idle"
    ELSE IF device = "powered" THEN "powered" ELSE "starting"

DeviceWrite ==
    /\ fcOnline /\ writes # <<>>
    /\ LET w == Head(writes)
       IN  IF w.kind = "sets" THEN deviceSet' = w.value /\ UNCHANGED device
           ELSE device' = Control(w) /\ UNCHANGED deviceSet
    /\ writes' = Tail(writes)
    /\ UNCHANGED <<nodeVars, doubt>>

DeviceStarts == /\ device = "starting" /\ device' = "powered"
                /\ UNCHANGED <<nodeVars, deviceSet, writes, doubt>>

DeviceFails == /\ device = "powered" /\ device' = "damaged"
               /\ UNCHANGED <<nodeVars, deviceSet, writes, doubt>>

ConverterNext ==
    \/ ConverterActivate \/ ConverterDeactivate
    \/ ConverterLimits \/ ConverterCurrent
    \/ ReadStatusDone \/ NowUnitOnline \/ ConnectionWasLost
    \/ DeviceWrite \/ DeviceStarts \/ DeviceFails

ConverterSpec == ConverterInit /\ [][ConverterNext]_fcVars

-----------------------------------------------------------------------------
(* Everything written has arrived and the last poll shows the converter.   *)
Settled == fcOnline /\ writes = <<>> /\ fcStatus = device

(* A converter whose wire is not active is off, once everything has         *)
(* arrived: after a stop, a fault, a lost link, a restart of the process    *)
(* beside a running converter.  Not in doubt: see StopIsObeyed.             *)
OffUnlessActive == Settled /\ ~doubt /\ fcWire # "active" => device # "powered"

(* "Stop the device" (frequency-converter.cpp:100): the same without the    *)
(* exception.  The code violates it: a stop between the start and the poll  *)
(* that sees it writes nothing.                                             *)
StopIsObeyed == Settled /\ fcWire # "active" => device # "powered"

(* A converter that works has the set value that rules, and without the     *)
(* sets of a program never more than the limit of the inductor, also when   *)
(* the limit was changed while the link was down.                           *)
WorksWithinLimits ==
    fcOnline /\ writes = <<>> /\ ~doubt /\ fcWire = "active" /\ fcStatus = "powered" =>
        deviceSet = IF prioritySets # NoSets THEN prioritySets ELSE Least(iSet, iMax)

(* Both: off unless told to work, and then within the limits.              *)
ConverterSafe == OffUnlessActive /\ WorksWithinLimits
=============================================================================
