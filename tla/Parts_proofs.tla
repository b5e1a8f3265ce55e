----------------------------- MODULE Parts_proofs -----------------------------
(***************************************************************************)
(* Proofs about parts that work by themselves.                             *)
(*                                                                         *)
(* The locks, for every set of lockers and subsystems, every series of      *)
(* values, settings and masks: a subsystem is announced as locked just      *)
(* while one of its lockers is critical.  The cooling system, for every     *)
(* configuration, reading and order: the temperature of a tank, the drain   *)
(* pump, the valves and their pumps, the refilling of a tank.  The editor   *)
(* of programs, for every series of changes: it is the table it shows.      *)
(***************************************************************************)
EXTENDS LockSystem, BarrelCtl, DrainageCtl, DiverterValve, BarrelLvlCtl, ProgramEditor,
        DataLemmas, TLAPS

(***************************************************************************)
(* Of the four parts of SubsystemsGuarded the last needs two more facts: a  *)
(* locker of measured values remembers what its source said last, and one   *)
(* that guards nothing is normal.  For the third, a subsystem that is not   *)
(* announced yet has no locker unless its lockers were reassigned or all    *)
(* of them are normal.                                                     *)
(***************************************************************************)
LockInv ==
    /\ LockTypeOK /\ SubsystemsGuarded
    /\ lockNode = "intervals" => reading = source
    /\ reading = [l \in Lockers |-> reading[l]]
    /\ setting = [l \in Lockers |-> setting[l]]
    /\ source = [l \in Lockers |-> source[l]]

LEMMA LockInvInit == LockInit => LockInv
<1> SUFFICES ASSUME LockInit PROVE LockInv
  OBVIOUS
<1> USE DEF LockInit
<1>1. LockTypeOK
  BY DEF LockTypeOK, Alarm
<1>2. RelationIsMutual /\ LockedExactly /\ LostIsCritical
  BY DEF RelationIsMutual, LockedExactly, LostIsCritical
<1>3. StatusIsCurrent
  BY DEF StatusIsCurrent, Judge
<1> QED BY <1>1, <1>2, <1>3 DEF LockInv, SubsystemsGuarded

LEMMA JudgeIsAlarm ==
  ASSUME NEW v, NEW s, NEW subs
  PROVE  /\ Judge(v, s, subs) \in Alarm
         /\ lockNode = "intervals" /\ subs # {} => Judge(NaN, s, subs) = "critical"
         /\ subs = {} => Judge(v, s, subs) = "normal"
  BY DEF Judge, IntervalStatus, FlagStatus, Alarm

(* The two calls every handler ends with.                                  *)
LockUpdate(l, v, s, mask) ==
    /\ lockNode' = lockNode
    /\ reading' = [reading EXCEPT ![l] = v]
    /\ setting' = [setting EXCEPT ![l] = s]
    /\ guards' = [guards EXCEPT ![l] = mask]
    /\ guardedBy' = [t \in Subsystems |->
                       IF t \in mask THEN guardedBy[t] \cup {l} ELSE guardedBy[t] \ {l}]
    /\ UpdateStatus(l, Judge(v, s, mask))
    /\ reassigned' = IF guards[l] = {} THEN reassigned
                     ELSE reassigned \cup {t \in Subsystems : (t \in mask) # (t \in guards[l])}

LEMMA InputUpdates ==
  ASSUME LockInv, NEW l \in Lockers, NEW v, LockerInput(l, v)
  PROVE  LockUpdate(l, Received(v), setting[l], guards[l])
<1> USE DEF LockInv, LockTypeOK, SubsystemsGuarded, RelationIsMutual
<1>1. /\ lockNode' = lockNode /\ setting' = setting /\ guards' = guards /\ guardedBy' = guardedBy
      /\ reassigned' = reassigned
      /\ reading' = [reading EXCEPT ![l] = Received(v)]
      /\ UpdateStatus(l, Judge(Received(v), setting[l], guards[l]))
  BY DEF LockerInput, UpdateLocker
<1>2. guards = [guards EXCEPT ![l] = guards[l]] /\ setting = [setting EXCEPT ![l] = setting[l]]
  OBVIOUS
<1>3. guardedBy = [t \in Subsystems |->
                     IF t \in guards[l] THEN guardedBy[t] \cup {l} ELSE guardedBy[t] \ {l}]
  OBVIOUS
<1>4. {t \in Subsystems : (t \in guards[l]) # (t \in guards[l])} = {}
  OBVIOUS
<1> QED BY <1>1, <1>2, <1>3, <1>4 DEF LockUpdate

LEMMA ConfigUpdates ==
  ASSUME LockInv, NEW l \in Lockers, NEW s, NEW mask \in SUBSET Subsystems,
         LockerConfig(l, s, mask)
  PROVE  LockUpdate(l, reading[l], s, mask)
<1> USE DEF LockInv, LockTypeOK
<1>1. setting'[l] = s /\ guards'[l] = mask
  BY DEF LockerConfig, ConfigureRelationship
<1> QED BY <1>1 DEF LockerConfig, ConfigureRelationship, UpdateLocker, LockUpdate

(***************************************************************************)
(* What such a call keeps, one fact of the invariant after the other.      *)
(***************************************************************************)
LEMMA UpdateKeeps ==
  ASSUME LockInv, NEW l \in Lockers, NEW v, NEW s, NEW mask \in SUBSET Subsystems,
         LockUpdate(l, v, s, mask)
  PROVE  /\ LockTypeOK' /\ RelationIsMutual' /\ StatusIsCurrent' /\ LockedExactly'
         /\ reading' = [k \in Lockers |-> reading'[k]] /\ setting' = [k \in Lockers |-> setting'[k]]
         /\ reading'[l] = v
         /\ \A k \in Lockers \ {l} : reading'[k] = reading[k] /\ guards'[k] = guards[k]
<1> DEFINE st == Judge(v, s, mask)
<1> USE DEF LockInv, LockTypeOK, SubsystemsGuarded
<1>1. /\ \A k \in Lockers : status'[k] = IF k = l THEN st ELSE status[k]
      /\ \A k \in Lockers : guards'[k] = IF k = l THEN mask ELSE guards[k]
      /\ \A k \in Lockers : reading'[k] = IF k = l THEN v ELSE reading[k]
      /\ \A k \in Lockers : setting'[k] = IF k = l THEN s ELSE setting[k]
      /\ \A t \in Subsystems :
            guardedBy'[t] = IF t \in mask THEN guardedBy[t] \cup {l} ELSE guardedBy[t] \ {l}
  BY DEF LockUpdate, UpdateStatus
<1>2. st \in Alarm
  BY JudgeIsAlarm
<1>3. \A t \in Subsystems :
        locked'[t] = IF st # status[l] /\ t \in mask
                     THEN IF \E k \in guardedBy'[t] : status'[k] = "critical"
                          THEN "locked" ELSE "free"
                     ELSE locked[t]
  BY <1>1 DEF LockUpdate, UpdateStatus, Evaluate
<1>4. LockTypeOK'
  <2>1. lockNode' \in {"intervals", "flags"} /\ reassigned' \subseteq Subsystems
    BY DEF LockUpdate
  <2>2. guards' \in [Lockers -> SUBSET Subsystems] /\ guardedBy' \in [Subsystems -> SUBSET Lockers]
    BY DEF LockUpdate
  <2>3. status' \in [Lockers -> Alarm]
    BY <1>2 DEF LockUpdate, UpdateStatus
  <2>4. locked' \in [Subsystems -> {"unset", "free", "locked"}]
    BY <1>3 DEF LockUpdate, UpdateStatus, Evaluate
  <2> QED BY <2>1, <2>2, <2>3, <2>4
<1>5. RelationIsMutual'
  <2> SUFFICES ASSUME NEW k \in Lockers, NEW t \in Subsystems
               PROVE  t \in guards'[k] <=> k \in guardedBy'[t]
    BY DEF RelationIsMutual
  <2>1. t \in guards[k] <=> k \in guardedBy[t]
    BY DEF RelationIsMutual
  <2>2. CASE k = l
    BY <1>1, <2>2
  <2>3. CASE k # l
    BY <1>1, <2>1, <2>3
  <2> QED BY <2>2, <2>3
<1>6. StatusIsCurrent'
  BY <1>1 DEF StatusIsCurrent, LockUpdate, Judge
<1>7. LockedExactly'
  <2> SUFFICES ASSUME NEW t \in Subsystems, t \notin reassigned'
               PROVE  locked'[t] = "locked" <=> \E k \in guardedBy'[t] : status'[k] = "critical"
    BY DEF LockedExactly
  <2>1. t \notin reassigned /\ (guards[l] = {} \/ (t \in mask <=> t \in guards[l]))
    BY DEF LockUpdate
  <2>2. locked[t] = "locked" <=> \E k \in guardedBy[t] : status[k] = "critical"
    BY <2>1 DEF LockedExactly
  <2>3. CASE st # status[l] /\ t \in mask
    BY <1>3, <2>3
  <2>4. CASE ~(st # status[l] /\ t \in mask)
    <3>1. locked'[t] = locked[t]
      BY <1>3, <2>4
    <3>2. t \in guards[l] <=> l \in guardedBy[t]
      BY DEF RelationIsMutual
    <3>3. CASE t \notin mask
      \* neither was l among the lockers of t before
      <4>1. l \notin guardedBy[t] /\ guardedBy'[t] = guardedBy[t] \ {l}
        BY <1>1, <2>1, <3>2, <3>3
      <4>2. \A k \in guardedBy[t] : k \in Lockers /\ k # l /\ status'[k] = status[k]
        BY <1>1, <4>1
      <4>3. guardedBy'[t] = guardedBy[t]
        BY <4>1
      <4> QED BY <2>2, <3>1, <4>2, <4>3
    <3>4. CASE t \in mask /\ st = status[l]
      <4>1. \A k \in Lockers : status'[k] = status[k]
        BY <1>1, <3>4
      <4>2. guardedBy'[t] = guardedBy[t] \cup {l}
        BY <1>1, <3>4
      <4>3. CASE l \in guardedBy[t]
        BY <2>2, <3>1, <4>1, <4>2, <4>3
      <4>4. CASE l \notin guardedBy[t]
        \* l guarded nothing, so it was and is normal
        <5>1. guards[l] = {}
          BY <2>1, <3>2, <3>4, <4>4
        <5>2. status[l] = "normal"
          BY <5>1, JudgeIsAlarm DEF StatusIsCurrent
        <5> QED BY <2>2, <3>1, <4>1, <4>2, <5>2
      <4> QED BY <4>3, <4>4
    <3> QED BY <2>4, <3>3, <3>4
  <2> QED BY <2>3, <2>4
<1> QED BY <1>1, <1>4, <1>5, <1>6, <1>7 DEF LockUpdate

LEMMA LockInvStep ==
  ASSUME LockInv, [LockNext]_lockVars
  PROVE  LockInv'
<1>1. ASSUME NEW l \in Lockers, NEW v, LockerInput(l, v) PROVE LockInv'
  <2>1. guards[l] \in SUBSET Subsystems
    BY DEF LockInv, LockTypeOK
  <2>2. LockUpdate(l, Received(v), setting[l], guards[l])
    BY <1>1, InputUpdates
  <2>3. /\ LockTypeOK' /\ RelationIsMutual' /\ StatusIsCurrent' /\ LockedExactly'
        /\ reading' = [k \in Lockers |-> reading'[k]] /\ setting' = [k \in Lockers |-> setting'[k]]
    BY <2>1, <2>2, UpdateKeeps
  <2>4. source' = [source EXCEPT ![l] = v] /\ lockNode' = lockNode
        /\ reading' = [reading EXCEPT ![l] = Received(v)]
    BY <1>1 DEF LockerInput, UpdateLocker
  <2>5. lockNode' = "intervals" => reading' = source'
    BY <2>4 DEF LockInv, Received
  <2>6. LostIsCritical'
    BY <2>3, <2>4, <2>5, JudgeIsAlarm DEF LostIsCritical, StatusIsCurrent, Judge, IntervalStatus
  <2> QED BY <2>3, <2>4, <2>5, <2>6 DEF LockInv, SubsystemsGuarded
<1>2. ASSUME NEW l \in Lockers, NEW s, NEW mask \in SUBSET Subsystems, LockerConfig(l, s, mask)
      PROVE  LockInv'
  <2>1. LockUpdate(l, reading[l], s, mask)
    BY <1>2, ConfigUpdates
  <2>2. /\ LockTypeOK' /\ RelationIsMutual' /\ StatusIsCurrent' /\ LockedExactly'
        /\ reading' = [k \in Lockers |-> reading'[k]] /\ setting' = [k \in Lockers |-> setting'[k]]
    BY <2>1, UpdateKeeps
  <2>3. source' = source /\ lockNode' = lockNode /\ reading' = reading
    BY <1>2 DEF LockerConfig, UpdateLocker, LockInv
  <2>4. LostIsCritical'
    BY <2>2, <2>3 DEF LockInv, LostIsCritical, StatusIsCurrent, Judge, IntervalStatus
  <2> QED BY <2>2, <2>3, <2>4 DEF LockInv, SubsystemsGuarded
<1>3. CASE UNCHANGED lockVars
  BY <1>3 DEF lockVars, LockInv, LockTypeOK, SubsystemsGuarded, RelationIsMutual, StatusIsCurrent,
              LockedExactly, LostIsCritical, Judge
<1> QED BY <1>1, <1>2, <1>3 DEF LockNext

(***************************************************************************)
(* The subsystems are locked by the lockers of their masks, judged by the   *)
(* last values and settings, and a lost sensor locks (lockers.hpp:85-138).  *)
(***************************************************************************)
THEOREM SubsystemsAreGuarded == LockSpec => []SubsystemsGuarded
<1>1. LockInv /\ [LockNext]_lockVars => LockInv'
  BY LockInvStep
<1>2. LockInv => SubsystemsGuarded
  BY DEF LockInv
<1> QED BY <1>1, <1>2, LockInvInit, PTL DEF LockSpec

-----------------------------------------------------------------------------
FreedOnlyWhenSafe ==
    \A s \in Subsystems :
        locked[s] = "locked" /\ locked'[s] # "locked"
            => \A l \in guardedBy'[s] : status'[l] # "critical"

LEMMA UpdateFrees ==
  ASSUME LockInv, NEW l \in Lockers, NEW v, NEW s, NEW mask, LockUpdate(l, v, s, mask)
  PROVE  FreedOnlyWhenSafe
<1>1. \A t \in Subsystems :
        \/ locked'[t] = locked[t]
        \/ locked'[t] = Evaluate(t, guardedBy', status')
  BY DEF LockUpdate, UpdateStatus, LockInv, LockTypeOK
<1> QED BY <1>1 DEF FreedOnlyWhenSafe, Evaluate

(***************************************************************************)
(* No step of the node frees a subsystem that has a critical locker, not    *)
(* even one whose masks were changed (lockers.hpp:110-131).                 *)
(***************************************************************************)
THEOREM SubsystemsAreNotFreed == LockSpec => NeverFreedWhileCritical
<1>1. ASSUME LockInv, [LockNext]_lockVars PROVE [FreedOnlyWhenSafe]_lockVars
  <2>1. ASSUME NEW l \in Lockers, NEW v, LockerInput(l, v) PROVE FreedOnlyWhenSafe
    BY <1>1, <2>1, InputUpdates, UpdateFrees
  <2>2. ASSUME NEW l \in Lockers, NEW s, NEW mask \in SUBSET Subsystems, LockerConfig(l, s, mask)
        PROVE  FreedOnlyWhenSafe
    BY <1>1, <2>2, ConfigUpdates, UpdateFrees
  <2> QED BY <1>1, <2>1, <2>2 DEF LockNext
<1>2. LockInv /\ [LockNext]_lockVars => LockInv'
  BY LockInvStep
<1> QED BY <1>1, <1>2, LockInvInit, PTL DEF LockSpec, NeverFreedWhileCritical, FreedOnlyWhenSafe

-----------------------------------------------------------------------------
(***************************************************************************)
(* The tank.  BarrelSafe is not inductive: what is heated or cooled follows *)
(* the method in_range_, which is off without a temperature and before the  *)
(* first "on".                                                             *)
(***************************************************************************)
BarrelInv ==
    /\ BarrelTypeOK /\ BarrelSafe
    /\ "heat" \in ports => inRange = "inHeaterRange"
    /\ "cool" \in ports => inRange = "inCoolerRange"
    /\ inRange # "off" => temperature # NoReading /\ wantedOn

LEMMA BarrelInvInit == BarrelInit => BarrelInv
  BY DEF BarrelInit, BarrelInv, BarrelTypeOK, BarrelSafe, WorksTowardsMiddle, PumpRunsAlong

(* Below the lower bound is below the middle, above the upper one above it. *)
LEMMA BoundsAroundMiddle ==
  ASSUME NEW c \in BarrelConfigs, NEW t \in Temperatures
  PROVE  /\ NeedTurnOnHeater(c, t) => NeedStayInHeaterRange(c, t)
         /\ NeedTurnOnCooler(c, t) => NeedStayInCoolerRange(c, t)
<1>1. c.min \in Int /\ c.max \in Int /\ c.min <= c.max /\ t \in Int
  BY BarrelAssumption
<1> QED BY <1>1 DEF NeedTurnOnHeater, NeedStayInHeaterRange, NeedTurnOnCooler,
                    NeedStayInCoolerRange

(* The method of the next temperature or configuration keeps what BarrelInv *)
(* says of the method and the ports.                                       *)
BarrelPorts(c, t, range, on) ==
    /\ range \in {"off", "inTemperatureRange", "inHeaterRange", "inCoolerRange"}
    /\ on \subseteq {"pump", "heat", "cool", "active"}
    /\ "heat" \in on => range = "inHeaterRange" /\ NeedStayInHeaterRange(c, t)
    /\ "cool" \in on => range = "inCoolerRange" /\ NeedStayInCoolerRange(c, t)
    /\ on \cap {"heat", "cool"} # {} => "pump" \in on
    /\ range = "off" => on = {}

LEMMA StartsInRange ==
  ASSUME NEW c \in BarrelConfigs, NEW t \in Temperatures, NEW on,
         on \subseteq {"pump", "active"}, InTemperatureRange(c, t, on)
  PROVE  BarrelPorts(c, t, inRange', ports') /\ inRange' # "off"
  BY BoundsAroundMiddle DEF InTemperatureRange, BarrelPorts

LEMMA MethodKeepsPorts ==
  ASSUME BarrelInv, NEW c \in BarrelConfigs, NEW t, inRange # "off" => t \in Temperatures,
         CallInRange(c, t)
  PROVE  BarrelPorts(c, t, inRange', ports') /\ (inRange' # "off" => inRange # "off")
<1> USE DEF BarrelInv, BarrelTypeOK, BarrelSafe, PumpRunsAlong
<1>1. CASE inRange = "off"
  BY <1>1 DEF CallInRange, BarrelPorts
<1>2. CASE inRange = "inTemperatureRange"
  <2>1. ports \subseteq {"pump", "active"} /\ InTemperatureRange(c, t, ports)
    BY <1>2 DEF CallInRange
  <2> QED BY <2>1, <1>2, StartsInRange
<1>3. CASE inRange = "inHeaterRange"
  <2>1. InHeaterRange(c, t) /\ "cool" \notin ports
    BY <1>3 DEF CallInRange
  <2> QED BY <2>1, <1>3 DEF InHeaterRange, Rest, BarrelPorts
<1>4. CASE inRange = "inCoolerRange"
  <2>1. InCoolerRange(c, t) /\ "heat" \notin ports
    BY <1>4 DEF CallInRange
  <2> QED BY <2>1, <1>4 DEF InCoolerRange, Rest, BarrelPorts
<1> QED BY <1>1, <1>2, <1>3, <1>4

LEMMA PortsMakeInv ==
  ASSUME barrelCfg' \in BarrelConfigs, temperature' \in Temperatures \cup {NoReading},
         wantedOn' \in BOOLEAN, BarrelPorts(barrelCfg', temperature', inRange', ports'),
         inRange' # "off" => temperature' # NoReading /\ wantedOn'
  PROVE  BarrelInv'
  BY DEF BarrelPorts, BarrelInv, BarrelTypeOK, BarrelSafe, WorksTowardsMiddle, PumpRunsAlong

LEMMA BarrelInvStep ==
  ASSUME BarrelInv, ~RepeatedOn, [BarrelNext]_barrelVars
  PROVE  BarrelInv'
<1> USE DEF BarrelInv, BarrelTypeOK
<1>1. ASSUME NEW t \in Temperatures, BarrelTemperature(t) PROVE BarrelInv'
  <2>1. BarrelPorts(barrelCfg, t, inRange', ports') /\ (inRange' # "off" => inRange # "off")
    BY <1>1, MethodKeepsPorts DEF BarrelTemperature
  <2> QED BY <1>1, <2>1, PortsMakeInv, BarrelAssumption DEF BarrelTemperature
<1>2. CASE BarrelTemperatureLost
  BY <1>2, PortsMakeInv DEF BarrelTemperatureLost, BarrelDeactivate, BarrelPorts
<1>3. ASSUME NEW on \in BOOLEAN, BarrelOnOff(on) PROVE BarrelInv'
  <2>1. CASE on /\ temperature # NoReading
    <3>1. inRange = "off" /\ ports = {}
      BY <1>3, <2>1 DEF BarrelOnOff, BarrelSafe, PumpRunsAlong
    <3>2. BarrelPorts(barrelCfg, temperature, inRange', ports') /\ inRange' # "off"
      BY <1>3, <2>1, <3>1, StartsInRange DEF BarrelOnOff
    <3> QED BY <1>3, <2>1, <3>2, PortsMakeInv DEF BarrelOnOff
  <2>2. CASE ~(on /\ temperature # NoReading)
    BY <1>3, <2>2, PortsMakeInv DEF BarrelOnOff, BarrelDeactivate, BarrelPorts
  <2> QED BY <2>1, <2>2
<1>4. ASSUME NEW c \in BarrelConfigs, BarrelConfigure(c) PROVE BarrelInv'
  <2>1. BarrelPorts(c, temperature, inRange', ports') /\ (inRange' # "off" => inRange # "off")
    BY <1>4, MethodKeepsPorts DEF BarrelConfigure
  <2> QED BY <1>4, <2>1, PortsMakeInv DEF BarrelConfigure
<1>5. CASE UNCHANGED barrelVars
  BY <1>5 DEF barrelVars, BarrelSafe, WorksTowardsMiddle, PumpRunsAlong
<1> QED BY <1>1, <1>2, <1>3, <1>4, <1>5 DEF BarrelNext

(***************************************************************************)
(* A tank is heated below its middle only and cooled above it only, with    *)
(* its pump running and its temperature known (barrel-ctl.cpp:84-137), as  *)
(* long as "on" is not delivered while it is on.                            *)
(***************************************************************************)
THEOREM TankIsSafe == ASSUME ~RepeatedOn PROVE BarrelSpec => []BarrelSafe
<1>1. BarrelInv /\ [BarrelNext]_barrelVars => BarrelInv'
  BY BarrelInvStep
<1>2. BarrelInv => BarrelSafe
  BY DEF BarrelInv
<1> QED BY <1>1, <1>2, BarrelInvInit, PTL DEF BarrelSpec

-----------------------------------------------------------------------------
(***************************************************************************)
(* A pump of the diverter works only with its valves known to stand where   *)
(* the pump belongs (diverter-valve-ctl.cpp:52-87).  Inductive as it stands: *)
(* every change of the feedback switches both pumps off.                   *)
(***************************************************************************)
LEMMA PumpFitsValveStep ==
  ASSUME PumpFitsValve, [ValveNext]_valveVars
  PROVE  PumpFitsValve'
<1> USE DEF PumpFitsValve, Selected
<1>1. ASSUME NEW p \in {"open", "closed"}, ValveIn(p) PROVE PumpFitsValve'
  BY <1>1 DEF ValveIn
<1>2. ASSUME NEW on \in BOOLEAN, PumpIn(on) PROVE PumpFitsValve'
  BY <1>2 DEF PumpIn, TurnOnOffPump
<1>3. ASSUME NEW i \in items, ValveMoves(i) PROVE PumpFitsValve'
  BY <1>3 DEF ValveMoves
<1>4. ASSUME NEW i \in items, NEW p \in Place, ValveFeedback(i, p) PROVE PumpFitsValve'
  BY <1>4 DEF ValveFeedback, TurnOnOffPump
<1>5. CASE UNCHANGED valveVars
  BY <1>5 DEF valveVars
<1> QED BY <1>1, <1>2, <1>3, <1>4, <1>5 DEF ValveNext

THEOREM PumpAlwaysFitsValve == ValveSpec => []PumpFitsValve
<1>1. ValveInit => PumpFitsValve
  BY DEF ValveInit, PumpFitsValve
<1>2. PumpFitsValve /\ [ValveNext]_valveVars => PumpFitsValve'
  BY PumpFitsValveStep
<1> QED BY <1>1, <1>2, PTL DEF ValveSpec

-----------------------------------------------------------------------------
(***************************************************************************)
(* The drain pump is switched on by the upper contact and off by the lower  *)
(* one, in whatever order the two report (drainage-ctl.cpp:35-91).         *)
(***************************************************************************)
PumpObeysStep ==
    /\ ~drainPump /\ drainPump' => pmax' = "yes"
    /\ drainPump /\ ~drainPump' => pmin' = "yes" /\ pmax' # "yes"

LEMMA LevelMovesPump ==
  ASSUME NEW mn, NEW mx, levelState \in {"norm", "min", "max"}, CallLevel(mn, mx)
  PROVE  /\ ~drainPump /\ drainPump' => mx = "yes"
         /\ drainPump /\ ~drainPump' => mn = "yes" /\ mx # "yes"
<1>1. CASE LevelNorm(mn, mx)
  BY <1>1 DEF LevelNorm
<1>2. CASE LevelMin(mn, mx) \/ LevelMax(mn, mx)
  BY <1>2 DEF LevelMin, LevelMax
<1>3. LevelNorm(mn, mx) \/ LevelMin(mn, mx) \/ LevelMax(mn, mx)
  BY DEF CallLevel
<1> QED BY <1>1, <1>2, <1>3

THEOREM DrainPumpObeysContacts == DrainSpec => PumpObeysContacts
<1>1. ASSUME DrainTypeOK, [DrainNext]_drainVars PROVE DrainTypeOK' /\ [PumpObeysStep]_drainVars
  <2> USE <1>1 DEF DrainTypeOK, PumpObeysStep, Contact
  <2>1. CASE DrainPmin
    <3>1. DrainTypeOK'
      BY <2>1 DEF DrainPmin, PminAt, CallLevel, LevelNorm, LevelMin, LevelMax
    <3> QED BY <2>1, <3>1, LevelMovesPump DEF DrainPmin
  <2>2. CASE DrainPmax
    <3>1. DrainTypeOK'
      BY <2>2 DEF DrainPmax, PmaxAt, CallLevel, LevelNorm, LevelMin, LevelMax
    <3> QED BY <2>2, <3>1, LevelMovesPump DEF DrainPmax
  <2>3. CASE TankLevel
    BY <2>3 DEF TankLevel
  <2>4. CASE UNCHANGED drainVars
    BY <2>4 DEF drainVars
  <2> QED BY <1>1, <2>1, <2>2, <2>3, <2>4 DEF DrainNext
<1>2. DrainInit => DrainTypeOK
  BY DEF DrainInit, DrainTypeOK, Contact
<1> QED BY <1>1, <1>2, PTL DEF DrainSpec, PumpObeysContacts, PumpObeysStep

-----------------------------------------------------------------------------
(***************************************************************************)
(* Refilling.  An order that runs has no outcome yet, and what was poured   *)
(* is a number unless the order was started blind.                         *)
(***************************************************************************)
RefillInv ==
    /\ RefillSafe
    /\ lvlWire \in {"blocked", "ready", "active"}
    /\ flowKnown \in BOOLEAN /\ running \in BOOLEAN /\ blind \in BOOLEAN
    /\ running => lvlOutcome = "none"
    /\ target \in Int
    /\ refilled \in Int \cup {Unknown}
    /\ ~blind => refilled \in Int

LEMMA RefillInvInit == LvlInit => RefillInv
<1> SUFFICES ASSUME LvlInit PROVE RefillInv
  OBVIOUS
<1>1. 0 \in Int /\ running = FALSE /\ blind = FALSE /\ flowKnown = FALSE
  BY DEF LvlInit
<1>2. RefillSafe
  BY <1>1 DEF LvlInit, RefillSafe, OpenWhileActive, DoneMeansPoured, BlockedMeansNoFlow
<1> QED BY <1>1, <1>2 DEF LvlInit, RefillInv

(* What a call of decrease_amount leaves, with a flow that is known. *)
LEMMA DecreaseKeeps ==
  ASSUME RefillInv, running, NEW known \in BOOLEAN, NEW goal \in Int,
         DecreaseAmount(known, goal)
  PROVE  /\ refilled' \in Int \cup {Unknown}
         /\ known /\ refilled \in Int => refilled' \in Int
         /\ \/ /\ running' = FALSE /\ lvlOutcome' = "done" /\ lvlWire' = "ready"
               /\ refilled' \in Int => refilled' >= goal
            \/ running' = TRUE /\ lvlOutcome' = "none" /\ lvlWire' = "active"
<1>1. PICK inlet \in 0..MaxInlet :
         LET sum == IF known /\ refilled # Unknown THEN refilled + inlet ELSE Unknown
         IN  /\ refilled' = sum
             /\ IF Reached(sum, goal)
                THEN LvlStop("done") /\ lvlWire' = "ready"
                ELSE lvlWire' = "active" /\ UNCHANGED <<running, lvlOutcome>>
  BY DEF DecreaseAmount
<1>2. inlet \in Int /\ Unknown \notin Int
  BY LvlAssumption
<1>3. refilled' = (IF known /\ refilled # Unknown THEN refilled + inlet ELSE Unknown)
  BY <1>1
<1>4. refilled' \in Int \cup {Unknown} /\ (known /\ refilled \in Int => refilled' \in Int)
  <2>1. CASE known /\ refilled # Unknown
    BY <1>2, <1>3, <2>1 DEF RefillInv
  <2>2. CASE ~(known /\ refilled # Unknown)
    BY <1>2, <1>3, <2>2
  <2> QED BY <2>1, <2>2
<1>5. CASE Reached(refilled', goal)
  BY <1>1, <1>2, <1>4, <1>5 DEF Reached, LvlStop
<1>6. CASE ~Reached(refilled', goal)
  BY <1>1, <1>6 DEF RefillInv
<1> QED BY <1>4, <1>5, <1>6

LEMMA RefillInvStep ==
  ASSUME RefillInv, [LvlNext]_lvlVars
  PROVE  RefillInv'
<1> USE LvlAssumption DEF RefillInv, RefillSafe, OpenWhileActive, DoneMeansPoured,
                          BlockedMeansNoFlow
<1>1. ASSUME NEW a \in Amounts, StartRefilling(a) PROVE RefillInv'
  <2>1. a \in Int /\ target' = a /\ flowKnown' = flowKnown
    BY <1>1 DEF StartRefilling
  <2>2. CASE running
    <3>1. DecreaseAmount(flowKnown, a) /\ blind' = blind
      BY <1>1, <2>2 DEF StartRefilling
    <3>2. ~blind => flowKnown /\ refilled \in Int
      BY <2>2
    <3> HIDE DEF RefillInv
    <3> QED BY <2>1, <2>2, <3>1, <3>2, DecreaseKeeps DEF RefillInv
  <2>3. CASE ~running
    <3>1. /\ refilled' = 0 /\ running' = TRUE /\ lvlWire' = "active"
          /\ lvlOutcome' = "none" /\ blind' = ~flowKnown
      BY <1>1, <2>3 DEF StartRefilling
    <3>2. OpenWhileActive' /\ DoneMeansPoured'
      BY <3>1
    <3>3. BlockedMeansNoFlow'
      BY <2>1, <3>1
    <3> QED BY <2>1, <3>1, <3>2, <3>3
  <2> QED BY <2>2, <2>3
<1>2. CASE StopRefilling
  BY <1>2 DEF StopRefilling, LvlStop
<1>3. CASE RefillTimer
  BY <1>3, DecreaseKeeps DEF RefillTimer
<1>4. ASSUME NEW known \in BOOLEAN, UpdateFlowRate(known) PROVE RefillInv'
  <2>1. CASE running /\ known /\ flowKnown
    BY <1>4, <2>1, DecreaseKeeps DEF UpdateFlowRate
  <2>2. CASE running /\ ~(known /\ flowKnown)
    BY <1>4, <2>2 DEF UpdateFlowRate, LvlStop
  <2>3. CASE ~running
    <3>1. /\ refilled' = refilled /\ running' = running /\ lvlOutcome' = lvlOutcome
          /\ target' = target /\ blind' = blind /\ flowKnown' = known
          /\ lvlWire' = (IF known /\ ~flowKnown THEN "ready" ELSE lvlWire)
      BY <1>4, <2>3 DEF UpdateFlowRate
    <3>2. OpenWhileActive' /\ DoneMeansPoured'
      BY <2>3, <3>1
    <3>3. BlockedMeansNoFlow' /\ lvlWire' \in {"blocked", "ready", "active"}
      BY <2>3, <3>1
    <3> QED BY <2>3, <3>1, <3>2, <3>3
  <2> QED BY <2>1, <2>2, <2>3
<1>5. CASE UNCHANGED lvlVars
  BY <1>5 DEF lvlVars
<1> QED BY <1>1, <1>2, <1>3, <1>4, <1>5 DEF LvlNext

(***************************************************************************)
(* An order to refill is carried out, ended or refused, and its valve is    *)
(* open just while its wire is active (barrel-lvl-ctl.cpp:41-118).          *)
(***************************************************************************)
THEOREM RefillIsSafe == LvlSpec => []RefillSafe
<1>1. RefillInv /\ [LvlNext]_lvlVars => RefillInv'
  BY RefillInvStep
<1>2. RefillInv => RefillSafe
  BY DEF RefillInv
<1> QED BY <1>1, <1>2, RefillInvInit, PTL DEF LvlSpec

-----------------------------------------------------------------------------
(***************************************************************************)
(* The editor of programs.  Rows of types s, and for each type the list of  *)
(* its operations, in the order of its rows: row i has the operation whose  *)
(* number is the count of rows of its type up to it (RowsUpto).                *)
(***************************************************************************)

(* The table of rows s with the operations o.                              *)
TableOf(o, s) ==
  [i \in 1 .. Len(s) |-> [type |-> s[i], value |-> o[s[i]][RowsUpto(s, s[i], i)]]]

InStepWith(o, s) ==
  /\ s \in Seq(OpTypes) /\ o = [t \in OpTypes |-> o[t]]
  /\ \A t \in OpTypes : IsQueue(o[t]) /\ Len(o[t]) = RowsUpto(s, t, Len(s))

LEMMA ShownIs ==
  ASSUME NEW o, NEW s \in Seq(OpTypes)
  PROVE  /\ TableOf(o, s) = [i \in DOMAIN s |->
                             [type |-> s[i], value |-> o[s[i]][RowsUpto(s, s[i], i - 1) + 1]]]
         /\ Len(TableOf(o, s)) = Len(s) /\ Len(s) \in Nat /\ IsQueue(TableOf(o, s))
         /\ DOMAIN TableOf(o, s) = 1 .. Len(s)
<1>1. DOMAIN s = 1 .. Len(s) /\ Len(s) \in Nat
  OBVIOUS
<1>2. \A i \in 1 .. Len(s) : RowsUpto(s, s[i], i) = RowsUpto(s, s[i], i - 1) + 1
  BY <1>1, NumberOfRow
<1>3. TableOf(o, s) = [i \in DOMAIN s |->
                       [type |-> s[i], value |-> o[s[i]][RowsUpto(s, s[i], i - 1) + 1]]]
  BY <1>1, <1>2 DEF TableOf
<1> PICK R : R = {TableOf(o, s)[i] : i \in 1 .. Len(s)}
  OBVIOUS
<1>4. TableOf(o, s) \in Seq(R) /\ Len(TableOf(o, s)) = Len(s)
  <2> PICK f : f = TableOf(o, s)
    OBVIOUS
  <2>1. f = [i \in 1 .. Len(s) |-> f[i]]
    BY DEF TableOf
  <2>2. \A i \in 1 .. Len(s) : f[i] \in R
    OBVIOUS
  <2>3. f \in Seq(R) /\ Len(f) = Len(s)
    BY <1>1, <2>1, <2>2
  <2> QED BY <2>3
<1> QED BY <1>1, <1>3, <1>4 DEF IsQueue, TableOf

(* A row and its operation put in at the places that belong together.      *)
PutTogether(o2, u, o, s, p, t, e) ==
  /\ u \in Seq(OpTypes) /\ s \in Seq(OpTypes) /\ t \in OpTypes /\ PutAt(u, s, p, t)
  /\ PutAt(o2[t], o[t], RowsUpto(s, t, p - 1) + 1, e)
  /\ \A c \in OpTypes \ {t} : o2[c] = o[c]
  /\ o = [c \in OpTypes |-> o[c]] /\ o2 = [c \in OpTypes |-> o2[c]]

LEMMA PutInStep ==
  ASSUME NEW o2, NEW u, NEW o, NEW s, NEW p, NEW t, NEW e, PutTogether(o2, u, o, s, p, t, e)
  PROVE  InStepWith(o2, u) <=> InStepWith(o, s)
<1>0. PutAt(u, s, p, t) /\ Len(s) \in Nat /\ Len(u) = Len(s) + 1 /\ p - 1 \in 0 .. Len(s)
      /\ Len(s) \in p - 1 .. Len(s)
  BY DEF PutTogether, PutAt
<1>1. ASSUME NEW c \in OpTypes
      PROVE  (IsQueue(o2[c]) /\ Len(o2[c]) = RowsUpto(u, c, Len(u)))
               <=> (IsQueue(o[c]) /\ Len(o[c]) = RowsUpto(s, c, Len(s)))
  <2>1. RowsUpto(u, c, Len(s) + 1) = RowsUpto(s, c, Len(s)) + (IF t = c THEN 1 ELSE 0)
    BY <1>0, RowsUptoPut
  <2>2. RowsUpto(s, c, Len(s)) \in Nat
    <3>1. RowsUpto(s, c, Len(s)) \in 0 .. Len(s)
      BY <1>0, RowsUptoIs
    <3> QED BY <1>0, <3>1
  <2>3. CASE c = t
    <3>1. IsQueue(o2[t]) /\ IsQueue(o[t]) /\ Len(o[t]) \in Nat /\ Len(o2[t]) = Len(o[t]) + 1
      BY DEF PutTogether, PutAt
    <3> QED BY <1>0, <2>1, <2>2, <2>3, <3>1
  <2>4. CASE c # t
    <3>1. o2[c] = o[c]
      BY <2>4 DEF PutTogether
    <3>2. RowsUpto(u, c, Len(u)) = RowsUpto(s, c, Len(s))
      BY <1>0, <2>1, <2>2, <2>4
    <3> QED BY <3>1, <3>2
  <2> QED BY <2>3, <2>4
<1> QED BY <1>1 DEF InStepWith, PutTogether

LEMMA PutShown ==
  ASSUME NEW o2, NEW u, NEW o, NEW s, NEW p, NEW t, NEW e, PutTogether(o2, u, o, s, p, t, e),
         InStepWith(o, s)
  PROVE  PutAt(TableOf(o2, u), TableOf(o, s), p, [type |-> t, value |-> e])
<1> PICK l, v, w, q : l = Len(s) /\ v = TableOf(o2, u) /\ w = TableOf(o, s) /\ q = RowsUpto(s, t, p - 1) + 1
  OBVIOUS
<1>0. /\ PutAt(u, s, p, t) /\ l \in Nat /\ Len(u) = l + 1 /\ p \in 1 .. l + 1 /\ u[p] = t
      /\ (\A i \in 1 .. p - 1 : u[i] = s[i]) /\ (\A i \in p .. l : u[i + 1] = s[i])
      /\ t \in OpTypes
  BY DEF PutTogether, PutAt
<1>1. /\ IsQueue(v) /\ Len(v) = l + 1 /\ IsQueue(w) /\ Len(w) = l
      /\ (\A i \in 1 .. l + 1 : v[i] = [type |-> u[i], value |-> o2[u[i]][RowsUpto(u, u[i], i)]])
      /\ \A i \in 1 .. l : w[i] = [type |-> s[i], value |-> o[s[i]][RowsUpto(s, s[i], i)]]
  <2>1. IsQueue(v) /\ Len(v) = Len(u)
    BY ShownIs DEF PutTogether
  <2>2. IsQueue(w) /\ Len(w) = l
    BY ShownIs DEF PutTogether
  <2> QED BY <1>0, <2>1, <2>2 DEF TableOf
<1>2. \A i \in 1 .. l : s[i] \in OpTypes
  BY DEF PutTogether
<1>c. /\ \A c : \A n \in 0 .. p - 1 : RowsUpto(u, c, n) = RowsUpto(s, c, n)
      /\ \A c : \A n \in p - 1 .. l : RowsUpto(u, c, n + 1) = RowsUpto(s, c, n) + (IF t = c THEN 1 ELSE 0)
  BY <1>0, RowsUptoPut
<1>n. \A c : \A n \in Nat : RowsUpto(s, c, n) \in Nat
  <2>1. \A c : \A n \in Nat : RowsUpto(s, c, n) \in 0 .. n
    BY RowsUptoIs
  <2> QED BY <2>1
<1>o. /\ (\A k \in 1 .. q - 1 : o2[t][k] = o[t][k]) /\ o2[t][q] = e
      /\ (\A k \in q .. Len(o[t]) : o2[t][k + 1] = o[t][k])
      /\ (\A c \in OpTypes \ {t} : o2[c] = o[c])
      /\ Len(o[t]) = RowsUpto(s, t, l)
  BY <1>0 DEF PutTogether, PutAt, InStepWith
<1>3. ASSUME NEW i \in 1 .. p - 1 PROVE v[i] = w[i]
  <2>1. i \in 1 .. l /\ i \in 1 .. l + 1 /\ i \in 0 .. p - 1 /\ u[i] = s[i]
    BY <1>0
  <2>2. RowsUpto(u, s[i], i) = RowsUpto(s, s[i], i)
    BY <1>c, <2>1
  <2>3. o2[s[i]][RowsUpto(s, s[i], i)] = o[s[i]][RowsUpto(s, s[i], i)]
    <3>1. CASE s[i] = t
      <4>1. RowsUpto(s, t, i) \in 1 .. RowsUpto(s, t, l)
        BY <1>0, <2>1, <3>1, NumberOfRow
      <4>2. RowsUpto(s, t, i) <= RowsUpto(s, t, p - 1)
        <5>1. i \in Nat /\ p - 1 \in Nat /\ i <= p - 1
          BY <1>0
        <5> QED BY <5>1, RowsUptoGrows
      <4>3. RowsUpto(s, t, p - 1) \in Nat /\ RowsUpto(s, t, l) \in Nat
        BY <1>0, <1>n
      <4>4. RowsUpto(s, t, i) \in 1 .. q - 1
        BY <4>1, <4>2, <4>3
      <4> QED BY <1>o, <3>1, <4>4
    <3>2. CASE s[i] # t
      BY <1>2, <1>o, <2>1, <3>2
    <3> QED BY <3>1, <3>2
  <2> QED BY <1>1, <2>1, <2>2, <2>3
<1>4. v[p] = [type |-> t, value |-> e]
  <2>1. p - 1 \in p - 1 .. l /\ (p - 1) + 1 = p /\ p \in 1 .. l + 1
    BY <1>0
  <2>2. RowsUpto(u, t, (p - 1) + 1) = RowsUpto(s, t, p - 1) + 1
    BY <1>c, <2>1
  <2>3. RowsUpto(u, t, p) = q
    BY <2>1, <2>2
  <2> QED BY <1>0, <1>1, <1>o, <2>1, <2>3
<1>5. ASSUME NEW i \in p .. l PROVE v[i + 1] = w[i]
  <2>1. i \in 1 .. l /\ i + 1 \in 1 .. l + 1 /\ i \in p - 1 .. l /\ u[i + 1] = s[i]
    BY <1>0
  <2>2. RowsUpto(u, s[i], i + 1) = RowsUpto(s, s[i], i) + (IF t = s[i] THEN 1 ELSE 0)
    BY <1>c, <2>1
  <2>3. o2[s[i]][RowsUpto(u, s[i], i + 1)] = o[s[i]][RowsUpto(s, s[i], i)]
    <3>1. CASE s[i] = t
      <4>0. /\ RowsUpto(s, s[i], i) \in 1 .. RowsUpto(s, s[i], l)
            /\ RowsUpto(s, s[i], i) = RowsUpto(s, s[i], i - 1) + 1
        BY <1>0, <2>1, NumberOfRow
      <4>1. /\ RowsUpto(s, t, i) \in 1 .. RowsUpto(s, t, l)
            /\ RowsUpto(s, t, i) = RowsUpto(s, t, i - 1) + 1
        BY <3>1, <4>0
      <4>2. RowsUpto(s, t, p - 1) <= RowsUpto(s, t, i - 1)
        <5>1. i - 1 \in Nat /\ p - 1 \in Nat /\ p - 1 <= i - 1
          BY <1>0
        <5> QED BY <5>1, RowsUptoGrows
      <4>3. RowsUpto(s, t, p - 1) \in Nat /\ RowsUpto(s, t, i - 1) \in Nat /\ RowsUpto(s, t, l) \in Nat
        BY <1>0, <1>n
      <4>4. RowsUpto(s, t, i) \in q .. Len(o[t])
        BY <1>o, <4>1, <4>2, <4>3
      <4> QED BY <1>o, <2>2, <3>1, <4>4
    <3>2. CASE s[i] # t
      <4>1. RowsUpto(s, s[i], i) \in Nat
        <5>1. i \in Nat
          BY <1>0
        <5> QED BY <1>n, <5>1
      <4>2. RowsUpto(u, s[i], i + 1) = RowsUpto(s, s[i], i)
        BY <2>2, <3>2, <4>1
      <4> QED BY <1>2, <1>o, <2>1, <3>2, <4>2
    <3> QED BY <3>1, <3>2
  <2> QED BY <1>1, <2>1, <2>3
<1>6. PutAt(v, w, p, [type |-> t, value |-> e])
  BY <1>0, <1>1, <1>3, <1>4, <1>5 DEF PutAt
<1> QED BY <1>6

(* The operation of row i is changed.                                      *)
OneChanged(o2, o, s, i, e) ==
  o2 = [o EXCEPT ![s[i]] = [o[s[i]] EXCEPT ![RowsUpto(s, s[i], i)] = e]]

LEMMA ChangeShown ==
  ASSUME NEW o, NEW s, InStepWith(o, s), NEW i \in 1 .. Len(s), NEW e, NEW o2,
         OneChanged(o2, o, s, i, e)
  PROVE  /\ InStepWith(o2, s)
         /\ TableOf(o2, s) = [TableOf(o, s) EXCEPT ![i] = [type |-> s[i], value |-> e]]
<1> PICK l, t, k : l = Len(s) /\ t = s[i] /\ k = RowsUpto(s, t, i)
  OBVIOUS
<1>0. l \in Nat /\ t \in OpTypes /\ (\A j \in 1 .. l : s[j] \in OpTypes) /\ s \in Seq(OpTypes)
  BY DEF InStepWith
<1>1. IsQueue(o[t]) /\ Len(o[t]) = RowsUpto(s, t, l) /\ o = [c \in OpTypes |-> o[c]]
  BY <1>0 DEF InStepWith
<1>2. /\ k \in 1 .. RowsUpto(s, t, l)
      /\ \A j \in 1 .. l : j # i /\ s[j] = t => RowsUpto(s, t, j) # k
  BY <1>0, NumberOfRow
<1>3. /\ \A c \in OpTypes \ {t} : o2[c] = o[c]
      /\ o2[t] = [o[t] EXCEPT ![k] = e] /\ o2 = [c \in OpTypes |-> o2[c]]
  BY <1>0, <1>1 DEF OneChanged
<1>4. IsQueue(o2[t]) /\ Len(o2[t]) = Len(o[t]) /\ DOMAIN o[t] = 1 .. Len(o[t])
  <2>1. PICK S : o[t] \in Seq(S)
    BY <1>1 DEF IsQueue
  <2> PICK q, f, m, R : q = o[t] /\ f = [q EXCEPT ![k] = e] /\ m = Len(q) /\ R = S \cup {e}
    OBVIOUS
  <2>2. m \in Nat /\ q = [n \in 1 .. m |-> q[n]] /\ \A n \in 1 .. m : q[n] \in R
    BY <2>1
  <2>3. f = [n \in 1 .. m |-> f[n]] /\ \A n \in 1 .. m : f[n] \in R
    BY <2>2
  <2>4. f \in Seq(R) /\ Len(f) = m
    BY ONLY <2>2, <2>3
  <2>5. DOMAIN o[t] = 1 .. Len(o[t])
    BY <2>1
  <2> QED BY <1>3, <2>4, <2>5 DEF IsQueue
<1>5. o2[t][k] = e /\ \A n \in 1 .. Len(o[t]) : n # k => o2[t][n] = o[t][n]
  BY <1>1, <1>2, <1>3, <1>4
<1>6. InStepWith(o2, s)
  <2>1. ASSUME NEW c \in OpTypes PROVE IsQueue(o2[c]) /\ Len(o2[c]) = RowsUpto(s, c, Len(s))
    <3>1. CASE c = t
      BY <1>1, <1>4, <3>1
    <3>2. CASE c # t
      BY <1>3, <3>2 DEF InStepWith
    <3> QED BY <3>1, <3>2
  <2> QED BY <1>0, <1>3, <2>1 DEF InStepWith
<1>7. ASSUME NEW j \in 1 .. l, j # i PROVE o2[s[j]][RowsUpto(s, s[j], j)] = o[s[j]][RowsUpto(s, s[j], j)]
  <2>1. CASE s[j] = t
    <3>1. RowsUpto(s, t, j) \in 1 .. RowsUpto(s, t, l)
      BY <1>0, <2>1, NumberOfRow
    <3> QED BY <1>1, <1>2, <1>5, <1>7, <2>1, <3>1
  <2>2. CASE s[j] # t
    BY <1>0, <1>3, <2>2
  <2> QED BY <2>1, <2>2
<1>8. TableOf(o2, s) = [TableOf(o, s) EXCEPT ![i] = [type |-> s[i], value |-> e]]
  <2>1. \A j \in 1 .. l : o2[s[j]][RowsUpto(s, s[j], j)] =
                            IF j = i THEN e ELSE o[s[j]][RowsUpto(s, s[j], j)]
    BY <1>5, <1>7
  <2> QED BY <2>1 DEF TableOf
<1> QED BY <1>6, <1>8
(***************************************************************************)
(* The editor: its two forms are in step, in memory and in the file, loops  *)
(* name rows, and an open keyboard is about the row it was opened for.      *)
(***************************************************************************)
LoopsAre(o) == \A k \in 1 .. Len(o["loop"]) : o["loop"][k][1] \in Int

KeyboardOpen ==
  /\ kb.row \in 1 .. Len(phases)
  /\ kb.rid + 1 = RowsUpto(phases, phases[kb.row], kb.row)
  /\ phases[kb.row] = "loop" => kb.shown[1] \in Int

EditInv ==
  /\ InStepWith(ops, phases) /\ LoopsAre(ops)
  /\ currentRow \in 0 .. Len(phases)
  /\ InStepWith(LoadOps(programFile), LoadPhases(programFile)) /\ LoopsAre(LoadOps(programFile))
  /\ kb = Closed \/ KeyboardOpen

LEMMA TypesOfRows == OpTypes = {"main", "pause", "loop", "fc", "center"}
<1>1. DOMAIN Types = 1 .. 5
  BY DEF Types
<1>2. /\ Types[1] = "main" /\ Types[2] = "pause" /\ Types[3] = "loop" /\ Types[4] = "fc"
      /\ Types[5] = "center"
  BY DEF Types
<1>3. 1 .. 5 = {1, 2, 3, 4, 5}
  OBVIOUS
<1> QED BY <1>1, <1>2, <1>3 DEF OpTypes, ToSet

LEMMA TableIs ==
  /\ phases \in Seq(OpTypes) => RowsShown = TableOf(ops, phases)
  /\ phases' \in Seq(OpTypes) => RowsShown' = TableOf(ops', phases')
  /\ LoadPhases(programFile) \in Seq(OpTypes) =>
       SavedRows = TableOf(LoadOps(programFile), LoadPhases(programFile))
  /\ LoadPhases(programFile)' \in Seq(OpTypes) =>
       SavedRows' = TableOf(LoadOps(programFile)', LoadPhases(programFile)')
<1>1. phases \in Seq(OpTypes) => RowsShown = TableOf(ops, phases)
  BY ShownIs DEF RowsShown, GetRid, RowsUpto
<1>2. phases' \in Seq(OpTypes) => RowsShown' = TableOf(ops', phases')
  BY ShownIs DEF RowsShown, GetRid, RowsUpto
<1>3. ASSUME NEW o, NEW s \in Seq(OpTypes)
      PROVE  [i \in DOMAIN s |-> [type |-> s[i],
                 value |-> o[s[i]][Cardinality({j \in 1 .. i : s[j] = s[i]})]]] = TableOf(o, s)
  <2>1. DOMAIN s = 1 .. Len(s)
    OBVIOUS
  <2> QED BY <2>1 DEF TableOf, RowsUpto
<1>4. LoadPhases(programFile) \in Seq(OpTypes) =>
        SavedRows = TableOf(LoadOps(programFile), LoadPhases(programFile))
  BY <1>3 DEF SavedRows
<1>5. LoadPhases(programFile)' \in Seq(OpTypes) =>
        SavedRows' = TableOf(LoadOps(programFile)', LoadPhases(programFile)')
  BY <1>3 DEF SavedRows
<1> QED BY <1>1, <1>2, <1>4, <1>5

LEMMA FileKept ==
  ASSUME UNCHANGED programFile
  PROVE  /\ LoadOps(programFile)' = LoadOps(programFile)
         /\ LoadPhases(programFile)' = LoadPhases(programFile)
         /\ SavedRows' = SavedRows
  BY DEF LoadOps, LoadPhases, SavedRows

(* A new row.                                                              *)
LEMMA RowInserted ==
  ASSUME EditInv, kb = Closed, NEW t \in OpTypes, NEW op, InsertRow(t, op),
         t = "loop" => op[1] \in Int, UNCHANGED <<programFile, kb>>
  PROVE  EditInv' /\ Table!Insert
<1> PICK p, r : p = currentRow + 1 /\ r = RowsUpto(phases, t, p - 1) + 1
  OBVIOUS
<1>0. /\ phases \in Seq(OpTypes) /\ Len(phases) \in Nat /\ p \in 1 .. Len(phases) + 1
      /\ p - 1 = currentRow /\ IsQueue(phases)
      /\ ops = [c \in OpTypes |-> ops[c]] /\ InStepWith(ops, phases)
      /\ IsQueue(ops[t]) /\ Len(ops[t]) = RowsUpto(phases, t, Len(phases))
  BY DEF EditInv, InStepWith, IsQueue
<1>1. r \in 1 .. Len(ops[t]) + 1
  <2>1. /\ RowsUpto(phases, t, p - 1) \in 0 .. p - 1 /\ RowsUpto(phases, t, Len(phases)) \in 0 .. Len(phases)
        /\ RowsUpto(phases, t, p - 1) <= RowsUpto(phases, t, Len(phases))
    <3>1. p - 1 \in Nat /\ p - 1 <= Len(phases)
      BY <1>0
    <3> QED BY <1>0, <3>1, RowsUptoIs, RowsUptoGrows
  <2> QED BY <1>0, <2>1
<1>2. /\ phases' = InsertAt(phases, p, t) /\ currentRow' = p
      /\ ops' = [ops EXCEPT ![t] = InsertAt(ops[t], r, op)]
  BY <1>0 DEF InsertRow, GetRid, RowsUpto
<1>3. PutAt(phases', phases, p, t)
  BY <1>0, <1>2, InsertPuts
<1>4. PutAt(ops'[t], ops[t], r, op)
  <2>1. ops'[t] = InsertAt(ops[t], r, op)
    BY <1>0, <1>2
  <2> QED BY <1>0, <1>1, <2>1, InsertPuts
<1>5. phases' \in Seq(OpTypes)
  BY <1>0, <1>3, PutInSeq
<1>6. PutTogether(ops', phases', ops, phases, p, t, op)
  <2>1. ops' = [c \in OpTypes |-> ops'[c]] /\ \A c \in OpTypes \ {t} : ops'[c] = ops[c]
    BY <1>0, <1>2
  <2> QED BY <1>0, <1>3, <1>4, <1>5, <2>1 DEF PutTogether
<1>7. InStepWith(ops', phases')
  BY <1>0, <1>6, PutInStep
<1>8. LoopsAre(ops')
  <2>1. CASE t = "loop"
    <3>1. \A k \in 1 .. Len(ops["loop"]) + 1 : ops'["loop"][k][1] \in Int
      <4> TAKE k \in 1 .. Len(ops["loop"]) + 1
      <4>1. CASE k < r
        <5>1. k \in 1 .. r - 1 /\ k \in 1 .. Len(ops["loop"])
          BY <1>1, <2>1, <4>1
        <5> QED BY <1>4, <2>1, <5>1 DEF PutAt, EditInv, LoopsAre
      <4>2. CASE k = r
        BY <1>4, <2>1, <4>2 DEF PutAt
      <4>3. CASE k > r
        <5>1. k - 1 \in r .. Len(ops["loop"]) /\ k - 1 \in 1 .. Len(ops["loop"]) /\ (k - 1) + 1 = k
          BY <1>1, <2>1, <4>3
        <5>2. ops'["loop"][(k - 1) + 1] = ops["loop"][k - 1]
          BY <1>4, <2>1, <5>1 DEF PutAt
        <5> QED BY <5>1, <5>2 DEF EditInv, LoopsAre
      <4> QED BY <1>1, <4>1, <4>2, <4>3
    <3>2. Len(ops'["loop"]) = Len(ops["loop"]) + 1
      BY <1>4, <2>1 DEF PutAt
    <3> QED BY <3>1, <3>2 DEF LoopsAre
  <2>2. CASE t # "loop"
    <3>1. ops'["loop"] = ops["loop"]
      BY <1>0, <1>2, <2>2, TypesOfRows
    <3> QED BY <3>1 DEF EditInv, LoopsAre
  <2> QED BY <2>1, <2>2
<1>9. currentRow' \in 0 .. Len(phases')
  BY <1>0, <1>2, <1>3 DEF PutAt
<1>10. EditInv'
  BY <1>7, <1>8, <1>9, FileKept DEF EditInv
<1>11. PutAt(RowsShown', RowsShown, p, [type |-> t, value |-> op])
  BY <1>0, <1>5, <1>6, PutShown, TableIs
<1>12. Table!PutIn(RowsShown, RowsShown', p)
  <2> PICK old, new, x : old = RowsShown /\ new = RowsShown' /\ x = [type |-> t, value |-> op]
    OBVIOUS
  <2>1. PutAt(new, old, p, x)
    BY <1>11
  <2>2. new[p] = x /\ Len(new) = Len(old) + 1 /\ IsQueue(old) /\ p \in 1 .. Len(old) + 1
    BY <2>1 DEF PutAt
  <2>3. PutAt(InsertAt(old, p, x), old, p, x)
    BY <2>2, InsertPuts
  <2>4. InsertAt(old, p, x) = new
    BY <2>1, <2>3, PutIsUnique
  <2>5. new = Table!InsertAt(old, p, new[p])
    BY <2>2, <2>4 DEF Table!InsertAt, InsertAt
  <2>6. new[p].type \in OpTypes
    BY <2>2
  <2> QED BY <2>2, <2>5, <2>6 DEF Table!PutIn
<1> QED BY <1>2, <1>10, <1>12, FileKept DEF Table!Insert

(* The operation of the last row of a type is at the end of its list.      *)
LEMMA NewOpIs ==
  ASSUME EditInv, NEW t \in OpTypes
  PROVE  t = "loop" => NewOp(t, GetRid(t, currentRow))[1] \in Int
<1> SUFFICES ASSUME t = "loop" PROVE NewOp("loop", GetRid("loop", currentRow))[1] \in Int
  OBVIOUS
<1> PICK q, r : q = ops["loop"] /\ r = GetRid("loop", currentRow)
  OBVIOUS
<1>0. IsQueue(q) /\ Len(q) = RowsUpto(phases, "loop", Len(phases)) /\ Len(phases) \in Nat
  BY DEF EditInv, InStepWith
<1>1. r \in Nat /\ r <= Len(q)
  <2>1. currentRow \in Nat /\ currentRow <= Len(phases)
    BY <1>0 DEF EditInv
  <2>2. RowsUpto(phases, "loop", currentRow) \in 0 .. currentRow
    BY <2>1, RowsUptoIs
  <2>3. RowsUpto(phases, "loop", currentRow) <= RowsUpto(phases, "loop", Len(phases))
    BY <1>0, <2>1, RowsUptoGrows
  <2>4. r = RowsUpto(phases, "loop", currentRow)
    BY DEF GetRid, RowsUpto
  <2> QED BY <1>0, <2>2, <2>3, <2>4
<1>2. CASE q = <<>>
  BY <1>2 DEF NewOp, Default
<1>3. CASE q # <<>>
  <2>1. Len(q) \in Nat /\ Len(q) # 0
    BY <1>0, <1>3, EmptyQueue
  <2>2. (IF r = Len(q) THEN r ELSE r + 1) \in 1 .. Len(q)
    BY <1>1, <2>1
  <2>3. NewOp("loop", r) = q[IF r = Len(q) THEN r ELSE r + 1]
    BY <1>3 DEF NewOp
  <2> QED BY <2>2, <2>3 DEF EditInv, LoopsAre
<1> QED BY <1>2, <1>3

LEMMA AddImplements ==
  ASSUME EditInv, AddOp \/ AddMainOp
  PROVE  EditInv' /\ Table!Insert
<1>1. CASE AddOp
  <2>1. PICK t \in EditTypes \ {"main"} : InsertRow(t, NewOp(t, GetRid(t, currentRow)))
    BY <1>1 DEF AddOp
  <2>2. t \in OpTypes
    BY EditorAssumption
  <2> QED BY <1>1, <2>1, <2>2, NewOpIs, RowInserted DEF AddOp
<1>2. CASE AddMainOp
  <2>1. PICK op : InsertRow("main", op)
    BY <1>2 DEF AddMainOp
  <2>2. "main" \in OpTypes
    BY TypesOfRows
  <2> QED BY <1>2, <2>1, <2>2, RowInserted DEF AddMainOp
<1> QED BY <1>1, <1>2

LEMMA RemoveImplements ==
  ASSUME EditInv, RemoveOp
  PROVE  EditInv' /\ Table!Delete
<1> PICK p, t, r, l : /\ p = currentRow + 1 /\ t = phases[p] /\ r = RowsUpto(phases, t, p - 1) + 1
                      /\ l = Len(phases)
  OBVIOUS
<1>0. /\ phases \in Seq(OpTypes) /\ l \in Nat /\ p \in 1 .. l
      /\ p - 1 = currentRow /\ IsQueue(phases) /\ t \in OpTypes
      /\ ops = [c \in OpTypes |-> ops[c]] /\ InStepWith(ops, phases)
      /\ IsQueue(ops[t]) /\ Len(ops[t]) = RowsUpto(phases, t, l)
  <2>1. /\ phases \in Seq(OpTypes) /\ l \in Nat /\ currentRow \in Nat /\ currentRow < l
    BY DEF EditInv, InStepWith, RemoveOp
  <2>2. p \in 1 .. l /\ p - 1 = currentRow
    BY <2>1
  <2>3. t \in OpTypes
    BY <2>1, <2>2
  <2> QED BY <2>1, <2>2, <2>3 DEF EditInv, InStepWith, IsQueue
<1>1. r \in 1 .. Len(ops[t])
  <2>1. /\ RowsUpto(phases, phases[p], p) = RowsUpto(phases, phases[p], p - 1) + 1
        /\ RowsUpto(phases, phases[p], p) \in 1 .. RowsUpto(phases, phases[p], l)
    BY <1>0, NumberOfRow
  <2> QED BY <1>0, <2>1
<1>2. /\ phases' = RemoveAt(phases, p)
      /\ ops' = [ops EXCEPT ![t] = RemoveAt(ops[t], r)]
  BY <1>0 DEF RemoveOp, GetRid, RowsUpto
<1>3. PutAt(phases, phases', p, t)
  BY <1>0, <1>2, RemovePuts
<1> PICK e : e = ops[t][r]
  OBVIOUS
<1>4. PutAt(ops[t], ops'[t], r, e)
  <2>1. ops'[t] = RemoveAt(ops[t], r)
    BY <1>0, <1>2
  <2> QED BY <1>0, <1>1, <2>1, RemovePuts
<1>5. phases' \in Seq(OpTypes)
  BY <1>0, <1>3, PutInSeq
<1>6. PutTogether(ops, phases, ops', phases', p, t, e)
  <2>1. ops' = [c \in OpTypes |-> ops'[c]] /\ \A c \in OpTypes \ {t} : ops[c] = ops'[c]
    BY <1>0, <1>2
  <2>2. RowsUpto(phases, t, p - 1) = RowsUpto(phases', t, p - 1)
    <3>1. p - 1 \in 0 .. p - 1
      BY <1>0
    <3> QED BY <1>3, <3>1, RowsUptoPut
  <2>3. PutAt(ops[t], ops'[t], RowsUpto(phases', t, p - 1) + 1, e)
    BY <1>4, <2>2
  <2> QED BY <1>0, <1>3, <1>5, <2>1, <2>3 DEF PutTogether
<1>7. InStepWith(ops', phases')
  BY <1>0, <1>6, PutInStep
<1>8. LoopsAre(ops')
  <2>1. CASE t = "loop"
    <3>0. Len(ops'["loop"]) \in Nat /\ Len(ops["loop"]) = Len(ops'["loop"]) + 1
      BY <1>4, <2>1 DEF PutAt
    <3>1. \A k \in 1 .. Len(ops'["loop"]) : ops'["loop"][k][1] \in Int
      <4> TAKE k \in 1 .. Len(ops'["loop"])
      <4>1. CASE k < r
        <5>1. k \in 1 .. r - 1 /\ k \in 1 .. Len(ops["loop"])
          BY <1>1, <3>0, <4>1
        <5> QED BY <1>4, <2>1, <5>1 DEF PutAt, EditInv, LoopsAre
      <4>2. CASE k >= r
        <5>1. k \in r .. Len(ops'["loop"]) /\ k + 1 \in 1 .. Len(ops["loop"])
          BY <1>1, <3>0, <4>2
        <5>2. ops["loop"][k + 1] = ops'["loop"][k]
          BY <1>4, <2>1, <5>1 DEF PutAt
        <5> QED BY <5>1, <5>2 DEF EditInv, LoopsAre
      <4> QED BY <1>1, <4>1, <4>2
    <3> QED BY <3>1 DEF LoopsAre
  <2>2. CASE t # "loop"
    <3>1. ops'["loop"] = ops["loop"]
      BY <1>0, <1>2, <2>2, TypesOfRows
    <3> QED BY <3>1 DEF EditInv, LoopsAre
  <2> QED BY <2>1, <2>2
<1>9. /\ Len(phases') = l - 1
      /\ currentRow' = IF currentRow = l - 1 /\ currentRow > 0 THEN currentRow - 1 ELSE currentRow
      /\ currentRow' \in 0 .. Len(phases')
  <2>1. Len(phases') = l - 1
    BY <1>0, <1>3 DEF PutAt
  <2>2. currentRow' = IF currentRow >= l - 1 /\ currentRow # 0 THEN currentRow - 1 ELSE currentRow
    BY DEF RemoveOp
  <2>3. currentRow \in 0 .. l - 1
    BY <1>0
  <2> QED BY <1>0, <2>1, <2>2, <2>3
<1>10. UNCHANGED <<programFile, kb>> /\ kb = Closed
  BY DEF RemoveOp
<1>11. EditInv'
  BY <1>7, <1>8, <1>9, <1>10, FileKept DEF EditInv
<1>12. PutAt(RowsShown, RowsShown', p, [type |-> t, value |-> e])
  BY <1>0, <1>5, <1>6, <1>7, PutShown, TableIs
<1>13. Table!TakenOut(RowsShown, RowsShown', p) /\ Len(RowsShown) = l
  <2> PICK old, new, x : old = RowsShown /\ new = RowsShown' /\ x = [type |-> t, value |-> e]
    OBVIOUS
  <2>1. PutAt(old, new, p, x)
    BY <1>12
  <2>2. Len(old) = l /\ DOMAIN old = 1 .. l
    BY <1>0, ShownIs, TableIs
  <2>3. old[p] = x /\ IsQueue(old) /\ p \in 1 .. Len(old)
    BY <1>0, <2>1, <2>2 DEF PutAt
  <2>4. PutAt(old, RemoveAt(old, p), p, x)
    BY <2>3, RemovePuts
  <2>5. RemoveAt(old, p) = new
    BY <2>1, <2>4, PutIsUnique
  <2>6. new = Table!RemoveAt(old, p)
    BY <2>5 DEF Table!RemoveAt, RemoveAt
  <2> QED BY <1>0, <2>2, <2>6 DEF Table!TakenOut
<1> QED BY <1>9, <1>10, <1>11, <1>13, FileKept DEF Table!Delete

(* A changed operation, of row i.                                          *)
LEMMA RowChanged ==
  ASSUME EditInv, NEW i \in 1 .. Len(phases), NEW e,
         ops' = [ops EXCEPT ![phases[i]] = [ops[phases[i]] EXCEPT ![RowsUpto(phases, phases[i], i)] = e]],
         phases[i] = "loop" => e[1] \in Int,
         UNCHANGED <<phases, currentRow, programFile>>, kb' = Closed
  PROVE  EditInv' /\ Table!Change
<1>0. InStepWith(ops, phases) /\ phases \in Seq(OpTypes)
  BY DEF EditInv, InStepWith
<1>1. /\ InStepWith(ops', phases)
      /\ TableOf(ops', phases) = [TableOf(ops, phases) EXCEPT ![i] = [type |-> phases[i], value |-> e]]
  <2>1. OneChanged(ops', ops, phases, i, e)
    BY DEF OneChanged
  <2> QED BY <1>0, <2>1, ChangeShown
<1>2. LoopsAre(ops')
  <2> PICK t, k : t = phases[i] /\ k = RowsUpto(phases, phases[i], i)
    OBVIOUS
  <2>1. CASE t = "loop"
    <3> PICK q : q = ops["loop"]
      OBVIOUS
    <3>0. IsQueue(q) /\ ops = [c \in OpTypes |-> ops[c]] /\ "loop" \in OpTypes
      BY <1>0, TypesOfRows DEF InStepWith
    <3>1. PICK S : q \in Seq(S)
      BY <3>0 DEF IsQueue
    <3>2. ops'["loop"] = [q EXCEPT ![k] = e]
      BY <2>1, <3>0
    <3>3. DOMAIN [q EXCEPT ![k] = e] = 1 .. Len(q) /\ Len([q EXCEPT ![k] = e]) = Len(q)
          /\ \A n \in 1 .. Len(q) : [q EXCEPT ![k] = e][n] = IF n = k THEN e ELSE q[n]
      BY <3>1
    <3> QED BY <2>1, <3>2, <3>3 DEF LoopsAre, EditInv
  <2>2. CASE t # "loop"
    <3>1. ops'["loop"] = ops["loop"]
      BY <1>0, <2>2, TypesOfRows DEF InStepWith
    <3> QED BY <3>1 DEF LoopsAre, EditInv
  <2> QED BY <2>1, <2>2
<1>3. EditInv'
  BY <1>1, <1>2, FileKept DEF EditInv
<1>4. /\ RowsShown' = [RowsShown EXCEPT ![i] = [type |-> phases[i], value |-> e]]
      /\ DOMAIN RowsShown = 1 .. Len(phases) /\ Len(RowsShown) = Len(phases)
      /\ Len(RowsShown') = Len(phases) /\ RowsShown[i].type = phases[i]
  <2>1. RowsShown = TableOf(ops, phases) /\ RowsShown' = TableOf(ops', phases)
    BY <1>0, TableIs
  <2>2. /\ DOMAIN TableOf(ops, phases) = 1 .. Len(phases) /\ Len(TableOf(ops, phases)) = Len(phases)
        /\ Len(TableOf(ops', phases)) = Len(phases)
    BY <1>0, ShownIs
  <2>3. TableOf(ops, phases)[i].type = phases[i]
    BY DEF TableOf
  <2> QED BY <1>1, <2>1, <2>2, <2>3
<1>5. Table!ChangedAt(RowsShown, RowsShown', i)
  BY <1>4 DEF Table!ChangedAt
<1> QED BY <1>3, <1>4, <1>5, FileKept DEF Table!Change

LEMMA SprayerImplements ==
  ASSUME EditInv, ChangeSprayer
  PROVE  EditInv' /\ Table!Change
<1>1. PICK i \in DOMAIN phases :
        /\ phases[i] = "main"
        /\ ops' = [ops EXCEPT !["main"][GetRid("main", i - 1) + 1][3] = 1 - @]
  BY DEF ChangeSprayer
<1>2. phases \in Seq(OpTypes) /\ i \in 1 .. Len(phases)
  BY DEF EditInv, InStepWith
<1>3. GetRid("main", i - 1) + 1 = RowsUpto(phases, phases[i], i)
  <2>1. RowsUpto(phases, phases[i], i) = RowsUpto(phases, phases[i], i - 1) + 1
    BY <1>2, NumberOfRow
  <2> QED BY <1>1, <2>1 DEF GetRid, RowsUpto
<1> PICK k : k = RowsUpto(phases, phases[i], i)
  OBVIOUS
<1>4. PICK e : e = [ops["main"][k] EXCEPT ![3] = 1 - ops["main"][k][3]]
  OBVIOUS
<1>5. ops' = [ops EXCEPT ![phases[i]] = [ops[phases[i]] EXCEPT ![k] = e]]
  BY <1>1, <1>3, <1>4
<1>6. UNCHANGED <<phases, currentRow, programFile>> /\ kb' = Closed
  BY DEF ChangeSprayer
<1> QED BY <1>1, <1>2, <1>5, <1>6, RowChanged

(* A value typed, or accepted as it was shown.                             *)
LEMMA AcceptImplements ==
  ASSUME EditInv, AcceptTyped \/ AcceptShown
  PROVE  EditInv' /\ Table!Change
<1>1. PICK fields : Accept(fields) /\ (phases[kb.row] = "loop" => fields[1] \in Int)
  <2>1. CASE AcceptTyped
    <3>1. PICK fields \in Typed(phases[kb.row]) : Accept(fields)
      BY <2>1 DEF AcceptTyped
    <3>2. phases[kb.row] = "loop" => fields[1] \in Int
      <4> SUFFICES ASSUME phases[kb.row] = "loop" PROVE fields[1] \in Int
        OBVIOUS
      <4>1. PICK i \in 1 .. MaxRows : fields = <<i, 2>>
        BY <3>1 DEF Typed
      <4> QED BY <4>1, EditorAssumption
    <3> QED BY <3>1, <3>2
  <2>2. CASE AcceptShown
    BY <2>2 DEF AcceptShown, EditInv, KeyboardOpen
  <2> QED BY <2>1, <2>2
<1>2. kb # Closed /\ KeyboardOpen
  BY <1>1 DEF Accept, EditInv
<1> PICK i, k, e : /\ i = kb.row /\ k = RowsUpto(phases, phases[i], i)
                   /\ e = Stored(phases[i], ops[phases[i]][k], fields)
  OBVIOUS
<1>3. i \in 1 .. Len(phases) /\ kb.rid + 1 = k
  BY <1>2 DEF KeyboardOpen
<1>4. ops' = [ops EXCEPT ![phases[i]] = [ops[phases[i]] EXCEPT ![k] = e]]
  BY <1>1, <1>3 DEF Accept
<1>5. phases[i] = "loop" => e[1] \in Int
  BY <1>1 DEF Stored
<1>6. UNCHANGED <<phases, currentRow, programFile>> /\ kb' = Closed
  BY <1>1 DEF Accept
<1> QED BY <1>3, <1>4, <1>5, <1>6, RowChanged

LEMMA SelectImplements ==
  ASSUME EditInv, SetCurrentRow
  PROVE  EditInv' /\ Table!Select
<1>0. phases \in Seq(OpTypes) /\ Len(phases) \in Nat /\ DOMAIN phases = 1 .. Len(phases)
  BY DEF EditInv, InStepWith
<1>1. UNCHANGED <<phases, ops, programFile, kb>> /\ kb = Closed
  BY DEF SetCurrentRow
<1>2. currentRow' \in 0 .. Len(phases)
  BY <1>0 DEF SetCurrentRow
<1>3. Len(RowsShown) = Len(phases) /\ RowsShown' = RowsShown
  BY <1>0, <1>1, TableIs, ShownIs
<1> QED BY <1>1, <1>2, <1>3, FileKept DEF EditInv, Table!Select

LEMMA KeyboardImplements ==
  ASSUME EditInv, TableCellSelect \/ Cancel
  PROVE  EditInv' /\ UNCHANGED <<RowsShown, currentRow, SavedRows>>
<1>0. phases \in Seq(OpTypes) /\ Len(phases) \in Nat /\ DOMAIN phases = 1 .. Len(phases)
  BY DEF EditInv, InStepWith
<1>1. UNCHANGED <<phases, ops, currentRow, programFile>>
  BY DEF TableCellSelect, Cancel
<1>2. RowsShown' = RowsShown
  BY <1>0, <1>1, TableIs
<1>3. kb' = Closed \/ KeyboardOpen'
  <2>1. CASE Cancel
    BY <2>1 DEF Cancel
  <2>2. CASE TableCellSelect
    <3>1. PICK i \in 1 .. Len(phases) :
            kb' = [row |-> i, rid |-> GetRid(phases[i], i - 1),
                   shown |-> FieldsOf(phases[i], ops[phases[i]][GetRid(phases[i], i - 1) + 1])]
      BY <1>0, <2>2 DEF TableCellSelect
    <3>2. GetRid(phases[i], i - 1) + 1 = RowsUpto(phases, phases[i], i)
      <4>1. RowsUpto(phases, phases[i], i) = RowsUpto(phases, phases[i], i - 1) + 1
        BY <1>0, NumberOfRow
      <4> QED BY <4>1 DEF GetRid, RowsUpto
    <3> PICK k : k = RowsUpto(phases, phases[i], i)
      OBVIOUS
    <3>3. phases[i] = "loop" => ops["loop"][k][1] \in Int
      <4> SUFFICES ASSUME phases[i] = "loop" PROVE ops["loop"][k][1] \in Int
        OBVIOUS
      <4>1. RowsUpto(phases, phases[i], i) \in 1 .. RowsUpto(phases, phases[i], Len(phases))
        BY <1>0, NumberOfRow
      <4>2. Len(ops["loop"]) = RowsUpto(phases, "loop", Len(phases))
        BY TypesOfRows DEF EditInv, InStepWith
      <4>3. k \in 1 .. Len(ops["loop"])
        BY <4>1, <4>2
      <4> QED BY <4>3 DEF EditInv, LoopsAre
    <3>4. phases[i] = "loop" => kb'.shown[1] \in Int
      BY <3>1, <3>2, <3>3 DEF FieldsOf
    <3>5. kb'.row = i /\ kb'.rid + 1 = k
      BY <3>1, <3>2
    <3>6. /\ kb'.row \in 1 .. Len(phases') /\ kb'.rid + 1 = RowsUpto(phases', phases'[kb'.row], kb'.row)
          /\ phases'[kb'.row] = "loop" => kb'.shown[1] \in Int
      BY <1>1, <3>4, <3>5
    <3> QED BY <3>6 DEF KeyboardOpen
  <2> QED BY <2>1, <2>2
<1> QED BY <1>1, <1>2, <1>3, FileKept DEF EditInv

(* What is read is what was saved.                                         *)
LEMMA FileIsRead ==
  /\ \A t \in OpTypes : \E k \in DOMAIN Types : Types[k] = t
  /\ LoadPhases(SaveProgram) = phases
  /\ ops = [t \in OpTypes |-> ops[t]] => LoadOps(SaveProgram) = ops
  /\ LoadPhases(EmptyProgram) = <<>> /\ LoadOps(EmptyProgram) = NoOps
<1>1. \A t \in OpTypes : \E k \in DOMAIN Types : Types[k] = t
  BY DEF OpTypes, ToSet
<1>2. \A t \in OpTypes : LET k == CHOOSE k \in DOMAIN Types : Types[k] = t
                         IN  k \in DOMAIN Types /\ Types[k] = t
  BY <1>1
<1>3. LoadPhases(SaveProgram) = phases /\ LoadPhases(EmptyProgram) = <<>>
  BY DEF LoadPhases, SaveProgram, EmptyProgram
<1>4. ops = [t \in OpTypes |-> ops[t]] => LoadOps(SaveProgram) = ops
  <2>1. LoadOps(SaveProgram) = [t \in OpTypes |-> ops[t]]
    <3>1. \A t \in OpTypes :
            [k \in DOMAIN Types |-> ops[Types[k]]][CHOOSE k \in DOMAIN Types : Types[k] = t] = ops[t]
      BY <1>2
    <3> QED BY <3>1 DEF LoadOps, SaveProgram
  <2> QED BY <2>1
<1>5. LoadOps(EmptyProgram) = NoOps
  <2>1. \A t \in OpTypes :
          [k \in DOMAIN Types |-> <<>>][CHOOSE k \in DOMAIN Types : Types[k] = t] = <<>>
    BY <1>2
  <2> QED BY <2>1 DEF LoadOps, EmptyProgram, NoOps
<1> QED BY <1>1, <1>3, <1>4, <1>5

LEMMA NothingInStep ==
  /\ InStepWith(NoOps, <<>>) /\ LoopsAre(NoOps) /\ TableOf(NoOps, <<>>) = <<>>
<1>1. <<>> \in Seq(OpTypes) /\ Len(<<>>) = 0
  OBVIOUS
<1>2. IsQueue(<<>>)
  BY <1>1 DEF IsQueue
<1>3. \A t \in OpTypes : NoOps[t] = <<>>
  BY DEF NoOps
<1>4. NoOps = [t \in OpTypes |-> NoOps[t]]
  BY DEF NoOps
<1>5. InStepWith(NoOps, <<>>)
  BY <1>1, <1>2, <1>3, <1>4, RowsUptoIs DEF InStepWith
<1>6. LoopsAre(NoOps)
  BY <1>1, <1>3, TypesOfRows DEF LoopsAre
<1>7. TableOf(NoOps, <<>>) = <<>>
  <2>1. IsQueue(TableOf(NoOps, <<>>)) /\ Len(TableOf(NoOps, <<>>)) = 0
    BY <1>1, ShownIs
  <2> QED BY <2>1, EmptyQueue
<1> QED BY <1>5, <1>6, <1>7

LEMMA SaveImplements ==
  ASSUME EditInv, SaveChecked
  PROVE  EditInv' /\ (Table!Save \/ Table!Select)
<1>0. /\ phases \in Seq(OpTypes) /\ Len(phases) \in Nat /\ DOMAIN phases = 1 .. Len(phases)
      /\ InStepWith(ops, phases) /\ ops = [t \in OpTypes |-> ops[t]]
  BY DEF EditInv, InStepWith
<1>1. UNCHANGED <<phases, ops, kb>> /\ kb = Closed
  BY DEF SaveChecked
<1>2. /\ RowsShown = TableOf(ops, phases) /\ RowsShown' = RowsShown
      /\ Len(RowsShown) = Len(phases) /\ DOMAIN RowsShown = 1 .. Len(phases)
  BY <1>0, <1>1, TableIs, ShownIs
<1>3. CASE FindBadLoop = {}
  <2>1. currentRow' = Len(phases) /\ programFile' = SaveProgram
    BY <1>3 DEF SaveChecked
  <2>2. LoadOps(programFile)' = ops /\ LoadPhases(programFile)' = phases
    <3>1. LoadOps(programFile') = ops /\ LoadPhases(programFile') = phases
      BY <1>0, <2>1, FileIsRead
    <3> QED BY <3>1 DEF LoadOps, LoadPhases
  <2>3. SavedRows' = RowsShown
    BY <1>0, <1>2, <2>2, TableIs
  <2>4. EditInv'
    BY <1>0, <1>1, <2>1, <2>2 DEF EditInv
  <2>5. Table!LeadsBack(RowsShown)
    <3> SUFFICES ASSUME NEW i \in 1 .. Len(phases), RowsShown[i].type = "loop"
                 PROVE  RowsShown[i].value[1] < i - 1
      BY <1>2 DEF Table!LeadsBack
    <3>1. /\ phases[i] = "loop"
          /\ RowsShown[i].value = ops["loop"][RowsUpto(phases, "loop", i)]
      BY <1>2 DEF TableOf
    <3>2. /\ RowsUpto(phases, "loop", i) = RowsUpto(phases, "loop", i - 1) + 1
          /\ RowsUpto(phases, "loop", i) \in 1 .. RowsUpto(phases, "loop", Len(phases))
      <4>1. /\ RowsUpto(phases, phases[i], i) = RowsUpto(phases, phases[i], i - 1) + 1
            /\ RowsUpto(phases, phases[i], i) \in 1 .. RowsUpto(phases, phases[i], Len(phases))
        BY <1>0, NumberOfRow
      <4> QED BY <3>1, <4>1
    <3>3. ~(ops["loop"][RowsUpto(phases, "loop", i)][1] >= i - 1)
      <4>1. i \notin FindBadLoop
        BY <1>3
      <4> QED BY <1>0, <3>1, <3>2, <4>1 DEF FindBadLoop, GetRid, RowsUpto
    <3>4. ops["loop"][RowsUpto(phases, "loop", i)][1] \in Int
      <4>1. Len(ops["loop"]) = RowsUpto(phases, "loop", Len(phases))
        BY <1>0, TypesOfRows DEF InStepWith
      <4> QED BY <3>2, <4>1 DEF EditInv, LoopsAre
    <3> QED BY <3>1, <3>3, <3>4
  <2>6. Table!Save
    BY <1>0, <1>2, <2>1, <2>3, <2>5 DEF Table!Save
  <2> QED BY <2>4, <2>6
<1>4. CASE FindBadLoop # {}
  <2>1. currentRow' = Min(FindBadLoop) - 1 /\ UNCHANGED programFile
    BY <1>4 DEF SaveChecked
  <2>2. FindBadLoop \subseteq 1 .. Len(phases)
    BY <1>0 DEF FindBadLoop
  <2>3. \E m \in FindBadLoop : \A n \in FindBadLoop : m <= n
    <3>1. FindBadLoop \subseteq Nat
      BY <2>2
    <3> HIDE DEF FindBadLoop
    <3> QED BY <1>4, <3>1, LeastNumber
  <2>4. Min(FindBadLoop) \in FindBadLoop
    BY <2>3 DEF Min
  <2>5. currentRow' \in 0 .. Len(phases)
    BY <1>0, <2>1, <2>2, <2>4
  <2> QED BY <1>1, <1>2, <2>1, <2>5, FileKept DEF EditInv, Table!Select
<1> QED BY <1>3, <1>4

LEMMA LoadImplements ==
  ASSUME EditInv, InitPage
  PROVE  EditInv' /\ Table!Load
<1>1. PICK data \in {programFile, EmptyProgram} :
        phases' = LoadPhases(data) /\ ops' = LoadOps(data)
  BY DEF InitPage
<1>2. currentRow' = Len(phases') /\ UNCHANGED <<programFile, kb>> /\ kb = Closed
  BY DEF InitPage
<1>3. InStepWith(ops', phases') /\ LoopsAre(ops')
  BY <1>1, FileIsRead, NothingInStep DEF EditInv
<1>4. phases' \in Seq(OpTypes) /\ Len(phases') \in Nat
  BY <1>3 DEF InStepWith
<1>5. EditInv'
  BY <1>2, <1>3, <1>4, FileKept DEF EditInv
<1>6. RowsShown' \in {SavedRows, <<>>}
  <2>1. RowsShown' = TableOf(ops', phases')
    BY <1>4, TableIs
  <2>2. CASE data = programFile
    <3>1. LoadPhases(programFile) \in Seq(OpTypes)
      BY DEF EditInv, InStepWith
    <3>2. SavedRows = TableOf(LoadOps(programFile), LoadPhases(programFile))
      BY <3>1, TableIs
    <3> QED BY <1>1, <2>1, <2>2, <3>2
  <2>3. CASE data = EmptyProgram
    BY <1>1, <2>1, <2>3, FileIsRead, NothingInStep
  <2> QED BY <2>2, <2>3
<1>7. Len(RowsShown') = Len(phases')
  BY <1>4, TableIs, ShownIs
<1> QED BY <1>2, <1>5, <1>6, <1>7, FileKept DEF Table!Load

LEMMA EditInvInit == EditorInit => EditInv /\ Table!TableInit
<1> SUFFICES ASSUME EditorInit PROVE EditInv /\ Table!TableInit
  OBVIOUS
<1>1. /\ phases = <<>> /\ ops = NoOps /\ currentRow = 0
      /\ programFile = EmptyProgram /\ kb = Closed
  BY DEF EditorInit
<1>2. LoadPhases(programFile) = <<>> /\ LoadOps(programFile) = NoOps
  BY <1>1, FileIsRead
<1>3. EditInv
  <2>1. currentRow \in 0 .. Len(phases)
    BY <1>1
  <2> QED BY <1>1, <1>2, <2>1, NothingInStep DEF EditInv
<1>4. phases \in Seq(OpTypes) /\ LoadPhases(programFile) \in Seq(OpTypes)
  BY <1>3 DEF EditInv, InStepWith
<1>5. RowsShown = <<>> /\ SavedRows = <<>>
  BY <1>1, <1>2, <1>4, TableIs, NothingInStep
<1> QED BY <1>1, <1>3, <1>5 DEF Table!TableInit

LEMMA EditInvStep ==
  ASSUME EditInv, [EditorNext]_editorVars
  PROVE  EditInv' /\ [Table!TableNext]_(Table!tableVars)
<1>1. CASE UNCHANGED editorVars
  <2>1. UNCHANGED <<phases, ops, currentRow, programFile, kb>>
    BY <1>1 DEF editorVars
  <2>2. RowsShown' = RowsShown
    BY <2>1, TableIs DEF EditInv, InStepWith
  <2>3. EditInv'
    BY <2>1, FileKept DEF EditInv, KeyboardOpen
  <2> QED BY <2>1, <2>2, <2>3, FileKept DEF Table!tableVars
<1>2. CASE AddOp \/ AddMainOp
  BY <1>2, AddImplements DEF Table!TableNext
<1>3. CASE RemoveOp
  BY <1>3, RemoveImplements DEF Table!TableNext
<1>4. CASE SetCurrentRow
  BY <1>4, SelectImplements DEF Table!TableNext
<1>5. CASE ChangeSprayer
  BY <1>5, SprayerImplements DEF Table!TableNext
<1>6. CASE TableCellSelect \/ Cancel
  BY <1>6, KeyboardImplements DEF Table!tableVars
<1>7. CASE AcceptTyped \/ AcceptShown
  BY <1>7, AcceptImplements DEF Table!TableNext
<1>8. CASE SaveChecked
  BY <1>8, SaveImplements DEF Table!TableNext
<1>9. CASE InitPage
  BY <1>9, LoadImplements DEF Table!TableNext
<1> QED BY <1>1, <1>2, <1>3, <1>4, <1>5, <1>6, <1>7, <1>8, <1>9 DEF EditorNext

(***************************************************************************)
(* The editor of programs is the table it shows: every operation of the     *)
(* operator inserts, deletes or changes the row it is for and no other,     *)
(* whatever sequence of insertions, removals, changes, saves and loads led  *)
(* there, a program that is saved has only loops that lead back, and what is *)
(* loaded is what was saved (program.hpp, program-model-editor.cpp,         *)
(* AutoParamKeyboard.cpp).                                                 *)
(***************************************************************************)
THEOREM EditorImplementsRowTable == EditorSpec => ImplementsRowTable
<1>1. EditorInit => EditInv /\ Table!TableInit
  BY EditInvInit
<1>2. EditInv /\ [EditorNext]_editorVars => EditInv' /\ [Table!TableNext]_(Table!tableVars)
  BY EditInvStep
<1> QED BY <1>1, <1>2, PTL DEF EditorSpec, ImplementsRowTable, Table!TableSpec
=============================================================================
