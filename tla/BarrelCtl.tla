----------------------------- MODULE BarrelCtl ------------------------------
(***************************************************************************)
(* barrel_ctl keeps the temperature of a tank within the bounds of its     *)
(* configuration: the heater works from below the lower bound up to the    *)
(* middle of the interval, the cooler from above the upper bound down to   *)
(* the middle.  `in_range_', a pointer to the method that judges the next  *)
(* temperature, is the state.                                              *)
(***************************************************************************)
EXTENDS Integers

CONSTANTS
    Temperatures,   \* readings of the sensor
    BarrelConfigs,  \* configurations the operator may set
    NoReading,      \* the sensor says nothing
    RepeatedOn      \* may "on" be delivered again while it is on?

ASSUME BarrelAssumption ==
    /\ Temperatures \subseteq Int
    /\ NoReading \notin Temperatures
    /\ BarrelConfigs \subseteq [heater : BOOLEAN, cooler : BOOLEAN, pumpFull : BOOLEAN,
                                min : Int, max : Int]
    /\ \A c \in BarrelConfigs : c.min <= c.max

VARIABLES
    barrelCfg,
    temperature,    \* current_temperature_
    inRange,        \* "off", "inTemperatureRange", "inHeaterRange", "inCoolerRange"
    ports,          \* what is switched on, of pump, heat, cool, active
    wantedOn        \* the last value of the port "on-off"

barrelVars == <<barrelCfg, temperature, inRange, ports, wantedOn>>

BarrelTypeOK ==
    /\ barrelCfg \in BarrelConfigs
    /\ temperature \in Temperatures \cup {NoReading}
    /\ inRange \in {"off", "inTemperatureRange", "inHeaterRange", "inCoolerRange"}
    /\ ports \subseteq {"pump", "heat", "cool", "active"}
    /\ wantedOn \in BOOLEAN

BarrelInit ==
    /\ barrelCfg \in BarrelConfigs
    /\ temperature = NoReading
    /\ inRange = "off"
    /\ ports = {}
    /\ wantedOn = FALSE

-----------------------------------------------------------------------------
(* The conditions of the header, for configuration c and temperature t;    *)
(* twice the temperature against twice the middle.                         *)
NeedTurnOnHeater(c, t) == t < c.min /\ c.heater
NeedTurnOnCooler(c, t) == t > c.max /\ c.cooler
NeedStayInHeaterRange(c, t) == 2 * t < c.min + c.max /\ c.heater
NeedStayInCoolerRange(c, t) == 2 * t > c.min + c.max /\ c.cooler

(* The three methods: on is what is switched on when they are called.      *)
InTemperatureRange(c, t, on) ==
    CASE NeedTurnOnHeater(c, t) -> inRange' = "inHeaterRange" /\ ports' = on \cup {"pump", "heat"}
      [] ~NeedTurnOnHeater(c, t) /\ NeedTurnOnCooler(c, t) ->
                inRange' = "inCoolerRange" /\ ports' = on \cup {"pump", "cool"}
      [] OTHER -> inRange' = "inTemperatureRange" /\ ports' = on

Rest(c, on) == IF c.pumpFull THEN on \cup {"pump"} ELSE on \ {"pump"}

(* Mutant: the pump is stopped, the heater is not. *)
InHeaterRange_HeatStays(c, t) ==
    IF NeedStayInHeaterRange(c, t) THEN UNCHANGED <<inRange, ports>>
    ELSE inRange' = "inTemperatureRange" /\ ports' = Rest(c, ports)

InHeaterRange(c, t) ==
    IF NeedStayInHeaterRange(c, t) THEN UNCHANGED <<inRange, ports>>
    ELSE inRange' = "inTemperatureRange" /\ ports' = Rest(c, ports) \ {"heat"}

InCoolerRange(c, t) ==
    IF NeedStayInCoolerRange(c, t) THEN UNCHANGED <<inRange, ports>>
    ELSE inRange' = "inTemperatureRange" /\ ports' = Rest(c, ports) \ {"cool"}

CallInRange(c, t) ==
    CASE inRange = "off" -> UNCHANGED <<inRange, ports>>
      [] inRange = "inTemperatureRange" -> InTemperatureRange(c, t, ports)
      [] inRange = "inHeaterRange" -> InHeaterRange(c, t)
      [] inRange = "inCoolerRange" -> InCoolerRange(c, t)

BarrelDeactivate == inRange' = "off" /\ ports' = {}

-----------------------------------------------------------------------------
(* The handlers. *)
BarrelTemperature(t) ==
    /\ temperature' = t
    /\ CallInRange(barrelCfg, t)
    /\ UNCHANGED <<barrelCfg, wantedOn>>

BarrelTemperatureLost ==
    /\ temperature' = NoReading
    /\ BarrelDeactivate
    /\ UNCHANGED <<barrelCfg, wantedOn>>

(* "On" without a temperature switches off; with one it starts over in     *)
(* in_temperature_range, whatever was on before.                           *)
BarrelOnOff(on) ==
    /\ on /\ wantedOn => RepeatedOn
    /\ wantedOn' = on
    /\ IF on /\ temperature # NoReading
       THEN InTemperatureRange(barrelCfg, temperature, ports \cup {"active"})
       ELSE BarrelDeactivate
    /\ UNCHANGED <<barrelCfg, temperature>>

BarrelConfigure(c) ==
    /\ barrelCfg' = c
    /\ CallInRange(c, temperature)
    /\ UNCHANGED <<temperature, wantedOn>>

BarrelNext ==
    \/ \E t \in Temperatures : BarrelTemperature(t)
    \/ BarrelTemperatureLost
    \/ \E on \in BOOLEAN : BarrelOnOff(on)
    \/ \E c \in BarrelConfigs : BarrelConfigure(c)

BarrelSpec == BarrelInit /\ [][BarrelNext]_barrelVars

-----------------------------------------------------------------------------
(* The heater works only below the middle of the interval and the cooler   *)
(* only above it, after every reading, command and change of the           *)
(* configuration; so never both.  Needs RepeatedOn = FALSE: a second "on"  *)
(* forgets that the heater is on (barrel-ctl.cpp:38-39).                   *)
WorksTowardsMiddle ==
    /\ "heat" \in ports => /\ temperature # NoReading
                           /\ NeedStayInHeaterRange(barrelCfg, temperature)
    /\ "cool" \in ports => /\ temperature # NoReading
                           /\ NeedStayInCoolerRange(barrelCfg, temperature)

(* Nothing is heated or cooled in standing water: the pump runs along, and *)
(* nothing at all is on when the node is off.                              *)
PumpRunsAlong ==
    /\ ports \cap {"heat", "cool"} # {} => "pump" \in ports
    /\ inRange = "off" => ports = {}

(* Both: no reading, command or new configuration leaves the tank heated or *)
(* cooled past its middle, in standing water, or blind.                    *)
BarrelSafe == WorksTowardsMiddle /\ PumpRunsAlong
=============================================================================
