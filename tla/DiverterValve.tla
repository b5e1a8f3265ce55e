--------------------------- MODULE DiverterValve ----------------------------
(***************************************************************************)
(* diverter_valve_ctl: one valve position is asked for, one or two valves  *)
(* are switched, and the pumps (one per valve) may work only while the     *)
(* position the valves report is known; of two pumps the position chooses  *)
(* the one.  The valves and their feedback are part of the model: a valve  *)
(* that is told to move is first nowhere, then at its end.                 *)
(***************************************************************************)
EXTENDS Integers

VARIABLES
    items,          \* the numbers of the valves: 1..1 or 1..2
    va,             \* VA1, VA2 as published: what each valve is told
    vaReal,         \* position of each valve as the node knows it (va_real)
    valveAt,        \* where each valve is
    pumps,          \* H1, H2 as published: the pumps that are on
    pumpWanted      \* the last value of the port H

valveVars == <<items, va, vaReal, valveAt, pumps, pumpWanted>>

Place == {"open", "closed", "unknown"}

ValveTypeOK ==
    /\ items \in {1..1, 1..2}
    /\ va \in [items -> Place]
    /\ vaReal \in [items -> Place]
    /\ valveAt \in [items -> Place]
    /\ pumps \subseteq items
    /\ pumpWanted \in BOOLEAN

ValveInit ==
    /\ items \in {1..1, 1..2}
    /\ valveAt \in [items -> {"open", "closed"}]
    /\ va = [i \in items |-> "unknown"]
    /\ vaReal = va
    /\ pumps = {}
    /\ pumpWanted = FALSE

-----------------------------------------------------------------------------
(* turn_on_off_pump: the pumps that may work with the positions real. *)
Selected(real) ==
    IF items = 1..1 THEN (IF real[1] # "unknown" THEN {1} ELSE {})
    ELSE IF real[1] # real[2] \/ real[1] = "unknown" THEN {}
    ELSE IF real[1] = "open" THEN {1} ELSE {2}

TurnOnOffPump(on, real) == pumps' = IF on THEN Selected(real) ELSE {}

ValveIn(p) ==
    /\ va' = [i \in items |-> p]
    /\ UNCHANGED <<items, vaReal, valveAt, pumps, pumpWanted>>

PumpIn(on) ==
    /\ pumpWanted' = on
    /\ TurnOnOffPump(on, vaReal)
    /\ UNCHANGED <<items, va, vaReal, valveAt>>

(* Mutant: the pump goes on while the valves move. *)
ValveFeedback_PumpStays(i, p) ==
    /\ p # vaReal[i]
    /\ p \in {valveAt[i], "unknown"}
    /\ vaReal' = [vaReal EXCEPT ![i] = p]
    /\ UNCHANGED <<items, va, valveAt, pumps, pumpWanted>>

(* VA1, VA2: the feedback; an empty value when the valve is between its    *)
(* ends or the unit is lost.                                               *)
ValveFeedback(i, p) ==
    /\ p # vaReal[i]
    /\ p \in {valveAt[i], "unknown"}
    /\ vaReal' = [vaReal EXCEPT ![i] = p]
    /\ TurnOnOffPump(FALSE, vaReal')
    /\ UNCHANGED <<items, va, valveAt, pumpWanted>>

(* The valve itself: it leaves its place when it is told the other one.    *)
ValveMoves(i) ==
    /\ va[i] # "unknown" /\ valveAt[i] # va[i]
    /\ valveAt' = [valveAt EXCEPT ![i] = IF @ = "unknown" THEN va[i] ELSE "unknown"]
    /\ UNCHANGED <<items, va, vaReal, pumps, pumpWanted>>

ValveNext ==
    \/ \E p \in {"open", "closed"} : ValveIn(p)
    \/ \E on \in BOOLEAN : PumpIn(on)
    \/ \E i \in items : ValveMoves(i) \/ \E p \in Place : ValveFeedback(i, p)

ValveSpec == ValveInit /\ [][ValveNext]_valveVars

-----------------------------------------------------------------------------
(* A pump works only against valves that are known to stand, all in the    *)
(* place the pump belongs to: a change of the feedback never leaves a pump *)
(* of the old position on (diverter-valve-ctl.cpp:52).                     *)
PumpFitsValve ==
    /\ pumps \subseteq Selected(vaReal)
    /\ pumps # {} => pumpWanted
=============================================================================
