----------------------------- MODULE LockSystem -----------------------------
(***************************************************************************)
(* The two nodes that lock the subsystems of the machine: lock-intervals   *)
(* judges measured values (temperatures, pressures, flows) by four bounds, *)
(* lock-flags judges contacts by the value that locks.  Both tie every     *)
(* locker to the subsystems of a mask (common/lockers.hpp) and announce a  *)
(* subsystem as locked while one of its lockers is critical.               *)
(*                                                                         *)
(* A behaviour is of one of the two nodes (`lockNode'); they share code,   *)
(* not state.                                                              *)
(***************************************************************************)
EXTENDS Integers, FiniteSets

CONSTANTS
    Lockers,        \* parameters of the node (keys "lockers" of its json file)
    Subsystems,     \* what may be locked (keys "subsystems")
    Readings,       \* measured values
    Bounds,         \* quadruples of bounds, low critical to high critical
    NaN,            \* no value: an absent reading, a bound that is not set
    LossReported    \* does a plain input port deliver the loss of its source?

ASSUME LockAssumption ==
    /\ Readings \subseteq Int
    /\ \A b \in Bounds : b \in [1..4 -> Int \cup {NaN}]
    /\ NaN \notin Int
    /\ LossReported \in BOOLEAN

VARIABLES
    lockNode,       \* "intervals" or "flags"
    reading,        \* value of each locker as the node remembers it
    setting,        \* its bounds, or the value that locks
    guards,         \* locker |-> its subsystems (value_locker_t::subsystems)
    guardedBy,      \* subsystem |-> its lockers (subsystem_t::lockers)
    status,         \* "unset", "normal", "warning", "critical"
    locked,         \* "unset", "free", "locked", as published
    source,         \* history: what the source of each locker last said
    reassigned      \* history: subsystems whose lockers were changed by a new mask

lockVars == <<lockNode, reading, setting, guards, guardedBy, status, locked,
              source, reassigned>>

Alarm == {"normal", "warning", "critical"}

LockTypeOK ==
    /\ lockNode \in {"intervals", "flags"}
    /\ guards \in [Lockers -> SUBSET Subsystems]
    /\ guardedBy \in [Subsystems -> SUBSET Lockers]
    /\ status \in [Lockers -> Alarm]
    /\ locked \in [Subsystems -> {"unset", "free", "locked"}]
    /\ reassigned \subseteq Subsystems

-----------------------------------------------------------------------------
(* Judgement of one value.                                                 *)

IsInRange(v, min, max) == (min = NaN \/ v > min) /\ (max = NaN \/ v < max)

IntervalStatus(v, b) ==
    IF v = NaN \/ ~IsInRange(v, b[1], b[4]) THEN "critical"
    ELSE IF ~IsInRange(v, b[2], b[3]) THEN "warning" ELSE "normal"

FlagStatus(v, lockBy) == IF v \in {NaN, lockBy} THEN "critical" ELSE "normal"

(* A locker without subsystems is normal, whatever it measures. *)
Judge(v, s, subs) ==
    IF subs = {} THEN "normal"
    ELSE IF lockNode = "intervals" THEN IntervalStatus(v, s) ELSE FlagStatus(v, s)

-----------------------------------------------------------------------------
(* Init stands for the constructors: nothing is tied yet, so every locker  *)
(* comes out normal and no subsystem is announced.                         *)

NoSetting == IF lockNode = "intervals" THEN [i \in 1..4 |-> 0] ELSE FALSE

LockInit ==
    /\ lockNode \in {"intervals", "flags"}
    /\ reading = [l \in Lockers |-> NaN]
    /\ source = reading
    /\ setting = [l \in Lockers |-> NoSetting]
    /\ guards = [l \in Lockers |-> {}]
    /\ guardedBy = [s \in Subsystems |-> {}]
    /\ status = [l \in Lockers |-> "normal"]
    /\ locked = [s \in Subsystems |-> "unset"]
    /\ reassigned = {}

(* Mutant: locked when all its lockers are critical. *)
Evaluate_All(s, lockersOf, st) ==
    IF \A l \in lockersOf[s] : st[l] = "critical" THEN "locked" ELSE "free"

(* update_subsystem: locked while one of its lockers is critical. *)
Evaluate(s, lockersOf, st) ==
    IF \E l \in lockersOf[s] : st[l] = "critical" THEN "locked" ELSE "free"

(* Mutant: the subsystems are evaluated only for a new critical status. *)
UpdateStatus_OnlyCritical(l, st) ==
    /\ status' = [status EXCEPT ![l] = st]
    /\ locked' = IF st = status[l] \/ st # "critical" THEN locked
                 ELSE [s \in Subsystems |->
                         IF s \in guards'[l] THEN Evaluate(s, guardedBy', status')
                         ELSE locked[s]]

(* update_locker_status: a status that did not change goes no further.     *)
UpdateStatus(l, st) ==
    /\ status' = [status EXCEPT ![l] = st]
    /\ locked' = IF st = status[l] THEN locked
                 ELSE [s \in Subsystems |->
                         IF s \in guards'[l] THEN Evaluate(s, guardedBy', status')
                         ELSE locked[s]]

UpdateLocker(l, v) ==
    /\ reading' = [reading EXCEPT ![l] = v]
    /\ UpdateStatus(l, Judge(v, setting'[l], guards'[l]))

(* configure_relationship: both directions of the relation. *)
ConfigureRelationship(l, mask) ==
    /\ guards' = [guards EXCEPT ![l] = mask]
    /\ guardedBy' = [s \in Subsystems |->
                       IF s \in mask THEN guardedBy[s] \cup {l} ELSE guardedBy[s] \ {l}]

-----------------------------------------------------------------------------
(* The handlers.  A lost source reaches the handler of a flag as NAN too,  *)
(* but there the conversion to bool makes TRUE of it.                      *)

Received(v) == IF v = NaN /\ lockNode = "flags" THEN TRUE ELSE v

LockerInput(l, v) ==
    /\ UNCHANGED <<lockNode, setting, guards, guardedBy, reassigned>>
    /\ source' = [source EXCEPT ![l] = v]
    /\ UpdateLocker(l, Received(v))

LockerConfig(l, s, mask) ==
    /\ setting' = [setting EXCEPT ![l] = s]
    /\ ConfigureRelationship(l, mask)
    /\ UpdateLocker(l, reading[l])
    /\ reassigned' = IF guards[l] = {} THEN reassigned
                     ELSE reassigned \cup {t \in Subsystems : (t \in mask) # (t \in guards[l])}
    /\ UNCHANGED <<lockNode, source>>

Values == IF lockNode = "intervals" THEN Readings ELSE BOOLEAN
Settings == IF lockNode = "intervals" THEN Bounds ELSE BOOLEAN

LockNext ==
    \E l \in Lockers :
        \/ \E v \in Values : LockerInput(l, v)
        \/ LossReported /\ LockerInput(l, NaN)
        \/ \E s \in Settings, mask \in SUBSET Subsystems : LockerConfig(l, s, mask)

LockSpec == LockInit /\ [][LockNext]_lockVars

-----------------------------------------------------------------------------
(* The two directions of the relation agree, after any series of masks     *)
(* (lockers.hpp:75-98 edits one vector in place and rebuilds the other).   *)
RelationIsMutual == \A l \in Lockers, s \in Subsystems : s \in guards[l] <=> l \in guardedBy[s]

(* The status of a locker is the judgement of its last value under its     *)
(* last settings: a new interval or mask is applied to the old value.      *)
StatusIsCurrent == \A l \in Lockers : status[l] = Judge(reading[l], setting[l], guards[l])

(* A subsystem is announced as locked exactly while one of its lockers is  *)
(* critical.  Not for a subsystem whose lockers were changed by a new mask: *)
(* the code evaluates only the subsystems of the new mask, and only when   *)
(* the status of the locker changes.                                       *)
LockedExactly ==
    \A s \in Subsystems \ reassigned :
        locked[s] = "locked" <=> \E l \in guardedBy[s] : status[l] = "critical"

(* A parameter in use whose sensor is lost, or has not reported yet, is     *)
(* critical.  Only for measured values: a lost flag reads as TRUE.          *)
LostIsCritical ==
    lockNode = "intervals" =>
        \A l \in Lockers : source[l] = NaN /\ guards[l] # {} => status[l] = "critical"

(* All four together: what a screen or a stop reads off the node follows    *)
(* from the last values and settings.  From the masks too, but for a        *)
(* subsystem whose lockers a new mask changed: it keeps its old lock until  *)
(* one of its lockers changes its status.                                  *)
SubsystemsGuarded == RelationIsMutual /\ StatusIsCurrent /\ LockedExactly /\ LostIsCritical

(* No step unlocks a subsystem that still has a critical locker, whatever   *)
(* the history of its masks.                                               *)
NeverFreedWhileCritical ==
    [][\A s \in Subsystems :
          locked[s] = "locked" /\ locked'[s] # "locked"
            => \A l \in guardedBy'[s] : status'[l] # "critical"]_lockVars
=============================================================================
