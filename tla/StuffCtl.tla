------------------------------ MODULE StuffCtl ------------------------------
(***************************************************************************)
(* The stuff_ctl node: it drives the devices of a run (the frequency        *)
(* converter, the sprayers, the rotating axes) for its client, auto_mode.   *)
(*                                                                         *)
(* unit_t is split by field: the set of units with in_use, the set with     *)
(* in_active, the set with an emsg, and the status of each output wire as   *)
(* node::is_active sees it.  The devices behind the wires answer as their   *)
(* nodes do: a switch (converter, sprayer) goes off when it is deactivated, *)
(* a rotating axis when it is activated with "spin 0", which takes time and *)
(* keeps its wire active until it stands.                                  *)
(***************************************************************************)
EXTENDS Naturals, Sequences

CONSTANTS
  Switches,           (* the converter and the sprayers                      *)
  SpinAxes,           (* the rotating axes                                   *)
  EchoIdle,           (* does deactivating a wire that is not active answer? *)
  PatientClient,      (* a run begins only when the wire has come to rest    *)
  MaxRuns,            (* bound: "prepare" commands                           *)
  MaxOperations,      (* bound: "operation" commands                         *)
  MaxFailures         (* bound: failures of devices                          *)

Devices == Switches \cup SpinAxes

ASSUME DisjointAssumption == Switches \cap SpinAxes = {}
ASSUME EchoAssumption == {EchoIdle, PatientClient} \subseteq BOOLEAN
ASSUME LimitsAssumption == {MaxRuns, MaxOperations, MaxFailures} \subseteq Nat

VARIABLES
  toStuff, fromStuff, (* the client's wire, both directions                  *)
  stuffStatus,        (* its status                                          *)
  inUse,              (* units with in_use                                   *)
  inActive,           (* units with in_active                                *)
  faulty,             (* units with a non-empty emsg                         *)
  seen,               (* status of each output wire                          *)
  toUnit, fromUnit,   (* the output wires, both directions                   *)
  unit,               (* status of each wire at the device's end             *)
  broken,             (* devices whose last status carried an error          *)
  driven,             (* devices that are on                                 *)
  stopping,           (* axes told to stop that still turn                   *)
  client,             (* auto_mode: "idle", "activation", "watch"            *)
  runs, operations, failures

unitVars == <<fromUnit, unit, broken, driven, stopping, failures>>
clientVars == <<client, runs, operations>>
vars == << toStuff, fromStuff, stuffStatus, inUse, inActive, faulty, seen, toUnit,
           unitVars, clientVars >>

Status(status, err) == [kind |-> "status", status |-> status, err |-> err]

Send(queues, d, m) == [queues EXCEPT ![d] = Append(@, m)]

Off(d) == IF d \in SpinAxes THEN "zero" ELSE "off"

Init ==
  /\ toStuff = <<>> /\ fromStuff = <<Status("ready", FALSE)>>
  /\ stuffStatus = "ready"
  /\ inUse = {} /\ inActive = {} /\ faulty = {}
  /\ seen = [d \in Devices |-> "ready"] /\ unit = seen
  /\ toUnit = [d \in Devices |-> <<>>] /\ fromUnit = toUnit
  /\ broken = {} /\ driven = {} /\ stopping = {}
  /\ client = "idle"
  /\ runs = 0 /\ operations = 0 /\ failures = 0

-----------------------------------------------------------------------------
(* The node.                                                               *)

(* Mutant: the flags are cleared before they are read. *)
DeactivateAll_Forgets ==
  /\ UNCHANGED toUnit
  /\ inActive' = {} /\ inUse' = {}

(* Mutant: the devices stay reserved. *)
DeactivateAll_KeepsUse ==
  /\ toUnit' = [d \in Devices |-> IF d \in inActive THEN Append(toUnit[d], Off(d))
                                                    ELSE toUnit[d]]
  /\ inActive' = {} /\ UNCHANGED inUse

(* deactivate_all: every active unit is sent its "off".                    *)
DeactivateAll ==
  /\ toUnit' = [d \in Devices |-> IF d \in inActive THEN Append(toUnit[d], Off(d))
                                                    ELSE toUnit[d]]
  /\ inActive' = {} /\ inUse' = {}

Take(cmd) ==
  /\ toStuff # <<>> /\ Head(toStuff).cmd = cmd
  /\ toStuff' = Tail(toStuff)
  /\ UNCHANGED <<faulty, seen, unitVars, clientVars>>

(* A command was accepted: the wire is active.                             *)
Accept ==
  /\ stuffStatus' = "active"
  /\ fromStuff' = IF stuffStatus = "active" THEN fromStuff
                  ELSE Append(fromStuff, Status("active", FALSE))

(* Mutant: the errors of the units are not looked at. *)
CmdPrepare_Unchecked ==
  /\ Take("prepare")
  /\ inUse' = Head(toStuff).units
  /\ Accept
  /\ UNCHANGED <<inActive, toUnit>>

(***************************************************************************)
(* cmd_prepare: reserve the units of the run; refuse when one of them has   *)
(* an error (what it reserved stays reserved).                             *)
(***************************************************************************)
CmdPrepare ==
  /\ Take("prepare")
  /\ LET use == Head(toStuff).units
     IN  /\ inUse' = use
         /\ IF use \cap faulty # {}
            THEN /\ stuffStatus' = "ready"
                 /\ fromStuff' = Append(fromStuff, Status("ready", TRUE))
            ELSE Accept
  /\ UNCHANGED <<inActive, toUnit>>

(* Mutant: units that are not reserved are switched as well. *)
CmdOperation_All ==
  /\ Take("operation")
  /\ LET on == Head(toStuff).units
     IN  /\ inActive' = on
         /\ toUnit' = [d \in Devices |-> Append(toUnit[d], IF d \in on THEN "on" ELSE Off(d))]
  /\ Accept
  /\ UNCHANGED inUse

(* cmd_operation: every reserved unit is set to what the operation says.   *)
CmdOperation ==
  /\ Take("operation")
  /\ LET on == Head(toStuff).units
     IN  /\ inActive' = (inActive \ inUse) \cup (on \cap inUse)
         /\ toUnit' = [d \in Devices |->
                         IF d \notin inUse THEN toUnit[d]
                         ELSE Append(toUnit[d], IF d \in on THEN "on" ELSE Off(d))]
  /\ Accept
  /\ UNCHANGED inUse

(***************************************************************************)
(* The deactivate handler returns when nothing is reserved.  Its end makes  *)
(* an active wire ready.                                                   *)
(***************************************************************************)
Deactivate ==
  /\ Take("deactivate")
  /\ IF inUse = {} THEN UNCHANGED <<inUse, inActive, toUnit>> ELSE DeactivateAll
  /\ stuffStatus' = "ready"
  /\ fromStuff' = IF stuffStatus = "active" \/ EchoIdle
                  THEN Append(fromStuff, Status("ready", FALSE))
                  ELSE fromStuff

(* Mutant: the client is not told. *)
TerminateExecution_Silent ==
  /\ stuffStatus' = "ready"
  /\ UNCHANGED fromStuff
  /\ DeactivateAll

(* terminate_execution: tell the client and switch everything off.         *)
TerminateExecution ==
  /\ stuffStatus' = "ready"
  /\ fromStuff' = Append(fromStuff, Status("ready", TRUE))
  /\ DeactivateAll

(* Mutant: only the mismatch is looked at. *)
UnitStatus_IgnoresErrors(d) ==
  /\ fromUnit[d] # <<>>
  /\ fromUnit' = [fromUnit EXCEPT ![d] = Tail(@)]
  /\ LET m == Head(fromUnit[d])
     IN  /\ seen' = [seen EXCEPT ![d] = m.status]
         /\ faulty' = IF m.err THEN faulty \cup {d} ELSE faulty \ {d}
         /\ IF d \in inUse /\ (d \in inActive) # (seen'[d] = "active")
            THEN TerminateExecution
            ELSE UNCHANGED <<stuffStatus, fromStuff, toUnit, inUse, inActive>>
  /\ UNCHANGED <<toStuff, unit, broken, driven, stopping, failures, clientVars>>

(***************************************************************************)
(* A status of an output wire (ctl_fc_state, ctl_sp_state, ctl_axis_state): *)
(* an error, or a state that is not the one commanded, ends the run if the  *)
(* unit is reserved.                                                       *)
(***************************************************************************)
UnitStatus(d) ==
  /\ fromUnit[d] # <<>>
  /\ fromUnit' = [fromUnit EXCEPT ![d] = Tail(@)]
  /\ LET m == Head(fromUnit[d])
     IN  /\ seen' = [seen EXCEPT ![d] = m.status]
         /\ faulty' = IF m.err THEN faulty \cup {d} ELSE faulty \ {d}
         /\ IF d \in inUse /\ (m.err \/ (d \in inActive) # (seen'[d] = "active"))
            THEN TerminateExecution
            ELSE UNCHANGED <<stuffStatus, fromStuff, toUnit, inUse, inActive>>
  /\ UNCHANGED <<toStuff, unit, broken, driven, stopping, failures, clientVars>>

-----------------------------------------------------------------------------
(* The client: auto_mode, reduced to what it does on this wire.            *)

ClientStep ==
  UNCHANGED <<stuffStatus, inUse, inActive, faulty, seen, toUnit, unitVars>>

Command(cmd, units) == toStuff' = Append(toStuff, [cmd |-> cmd, units |-> units])

(* activate: a run begins.                                                 *)
ClientPrepare ==
  /\ client = "idle" /\ runs < MaxRuns
  /\ PatientClient => toStuff = <<>> /\ fromStuff = <<>>
  /\ \E units \in SUBSET Devices : Command("prepare", units)
  /\ client' = "activation" /\ runs' = runs + 1
  /\ UNCHANGED <<fromStuff, operations>>
  /\ ClientStep

(* execute_operation.                                                      *)
ClientOperation ==
  /\ client = "watch" /\ operations < MaxOperations
  /\ \E units \in SUBSET Devices : Command("operation", units)
  /\ operations' = operations + 1
  /\ UNCHANGED <<fromStuff, client, runs>>
  /\ ClientStep

ClientStops == client' = "idle" /\ Command("deactivate", {})

(* stop_execution: at the end of the program or at the operator's stop.    *)
ClientStop ==
  /\ client # "idle"
  /\ ClientStops
  /\ UNCHANGED <<fromStuff, runs, operations>>
  /\ ClientStep

(* The listeners of the "stuff" wire.                                      *)
ClientReceive ==
  /\ fromStuff # <<>>
  /\ fromStuff' = Tail(fromStuff)
  /\ LET m == Head(fromStuff)
     IN  CASE client = "activation" /\ m.status = "active" ->
                client' = "watch" /\ UNCHANGED toStuff
           [] client = "activation" /\ m.status # "active" -> ClientStops
           [] client = "watch" /\ m.err -> ClientStops
           [] OTHER -> UNCHANGED <<client, toStuff>>
  /\ UNCHANGED <<runs, operations>>
  /\ ClientStep

-----------------------------------------------------------------------------
(* The devices.                                                            *)

UnitStep ==
  UNCHANGED << toStuff, fromStuff, stuffStatus, inUse, inActive, faulty, seen,
               clientVars >>

UnitTake(d, cmd) ==
  /\ toUnit[d] # <<>> /\ Head(toUnit[d]) = cmd
  /\ toUnit' = [toUnit EXCEPT ![d] = Tail(@)]
  /\ UNCHANGED failures
  /\ UnitStep

(* The device reports what has become of its wire.                         *)
Report(d, status) ==
  /\ unit' = [unit EXCEPT ![d] = status]
  /\ fromUnit' = IF unit[d] = status THEN fromUnit
                 ELSE Send(fromUnit, d, Status(status, FALSE))
  /\ broken' = broken \ {d}

(* A blocked wire takes no command.                                        *)
UnitRefuse(d) ==
  /\ unit[d] = "blocked"
  /\ \E cmd \in {"on", "off", "zero"} : UnitTake(d, cmd)
  /\ UNCHANGED <<fromUnit, unit, broken, driven, stopping>>

UnitOn(d) ==
  /\ unit[d] # "blocked"
  /\ UnitTake(d, "on")
  /\ Report(d, "active")
  /\ driven' = driven \cup {d}
  /\ stopping' = stopping \ {d}

(* A switch goes off at once.                                              *)
UnitOff(d) ==
  /\ unit[d] # "blocked"
  /\ UnitTake(d, "off")
  /\ unit' = [unit EXCEPT ![d] = "ready"]
  /\ fromUnit' = IF unit[d] = "active" \/ EchoIdle
                 THEN Send(fromUnit, d, Status("ready", FALSE)) ELSE fromUnit
  /\ broken' = IF fromUnit' = fromUnit THEN broken ELSE broken \ {d}
  /\ driven' = driven \ {d}
  /\ UNCHANGED stopping

(* "spin 0": an accepted command, so the wire is active until the axis     *)
(* stands.                                                                 *)
UnitZero(d) ==
  /\ unit[d] # "blocked"
  /\ UnitTake(d, "zero")
  /\ Report(d, "active")
  /\ stopping' = stopping \cup {d}
  /\ UNCHANGED driven

UnitStands(d) ==
  /\ d \in stopping
  /\ Report(d, "ready")
  /\ driven' = driven \ {d} /\ stopping' = stopping \ {d}
  /\ UNCHANGED <<toUnit, failures>>
  /\ UnitStep

(* A device fails (its wire blocked, or ready with an error) or goes off    *)
(* by itself (ready): either way it is off.                                *)
UnitFail(d) ==
  /\ failures < MaxFailures
  /\ failures' = failures + 1
  /\ \E m \in {Status("blocked", TRUE), Status("ready", TRUE), Status("ready", FALSE)} :
       /\ m.err \/ unit[d] = "active"
       /\ unit[d] # "blocked"
       /\ unit' = [unit EXCEPT ![d] = m.status]
       /\ broken' = IF m.err THEN broken \cup {d} ELSE broken \ {d}
       /\ fromUnit' = Send(fromUnit, d, m)
  /\ driven' = driven \ {d} /\ stopping' = stopping \ {d}
  /\ UNCHANGED toUnit
  /\ UnitStep

(* The device works again.                                                 *)
UnitRecover(d) ==
  /\ d \in broken
  /\ unit' = [unit EXCEPT ![d] = "ready"]
  /\ broken' = broken \ {d}
  /\ fromUnit' = Send(fromUnit, d, Status("ready", FALSE))
  /\ UNCHANGED <<toUnit, driven, stopping, failures>>
  /\ UnitStep

-----------------------------------------------------------------------------
Serve == CmdPrepare \/ CmdOperation \/ Deactivate

Client == ClientPrepare \/ ClientOperation \/ ClientStop \/ ClientReceive

Unit(d) ==
  \/ UnitRefuse(d) \/ UnitOn(d) \/ UnitOff(d) \/ UnitZero(d)
  \/ UnitStands(d) \/ UnitFail(d) \/ UnitRecover(d)

Next == Serve \/ Client \/ \E d \in Devices : UnitStatus(d) \/ Unit(d)

Spec == Init /\ [][Next]_vars

(***************************************************************************)
(* Fairness: every process serves its queues, and a stopping axis stops.    *)
(* Nobody owes a command, a failure or a recovery.                         *)
(***************************************************************************)
Fairness ==
  /\ WF_vars(Serve) /\ WF_vars(ClientReceive)
  /\ \A d \in Devices :
       /\ WF_vars(UnitStatus(d))
       /\ WF_vars(UnitRefuse(d) \/ UnitOn(d) \/ UnitOff(d) \/ UnitZero(d))
       /\ WF_vars(UnitStands(d))

FairSpec == Spec /\ Fairness

-----------------------------------------------------------------------------
(* Types.                                                                  *)

Statuses == {"ready", "active", "blocked"}

TypeOK ==
  /\ stuffStatus \in {"ready", "active"}
  /\ inUse \subseteq Devices /\ inActive \subseteq Devices
  /\ faulty \subseteq Devices /\ broken \subseteq Devices
  /\ driven \subseteq Devices /\ stopping \subseteq SpinAxes
  /\ seen \in [Devices -> Statuses] /\ unit \in [Devices -> Statuses]
  /\ client \in {"idle", "activation", "watch"}

(***************************************************************************)
(* Only a reserved unit is active, so the deactivate handler, which looks   *)
(* at in_use alone (stuff-ctl.cpp:19), never leaves an active unit behind. *)
(***************************************************************************)
ActiveIsInUse == inActive \subseteq inUse

(***************************************************************************)
(* A unit stuff_ctl holds for inactive is off, or its "off" is the last     *)
(* command on the way to it, or it is an axis running down: no order of     *)
(* commands, failures and late statuses leaves a device on.                *)
(***************************************************************************)
RunsDown(d) ==
  IF toUnit[d] = <<>> THEN d \notin driven \/ d \in stopping
                      ELSE toUnit[d][Len(toUnit[d])] = Off(d)

InactiveMeansOff == \A d \in Devices \ inActive : RunsDown(d)

(***************************************************************************)
(* A client that has stopped its run needs to do nothing more: once its     *)
(* commands are served, all devices are off or on their way there.         *)
(***************************************************************************)
StoppedClientMeansOff ==
  client = "idle" /\ toStuff = <<>> => inUse = {} /\ \A d \in Devices : RunsDown(d)

(***************************************************************************)
(* A unit is never switched on while stuff_ctl knows of an error of it      *)
(* (cmd_prepare, stuff-ctl.cpp:142: "Проверяем готовность системы", the     *)
(* readiness of the system is checked).                                    *)
(***************************************************************************)
FaultyIsNeverStarted ==
  [][\A d \in faulty : toUnit'[d] # Append(toUnit[d], "on")]_vars

(***************************************************************************)
(* What auto_mode is promised on the wire (StuffSide).                     *)
(***************************************************************************)
Side == INSTANCE StuffSide WITH engaged <- inUse # {}

ImplementsStuffSide == Side!Spec

(***************************************************************************)
(* The failure of a device in use reaches all the others: all are switched  *)
(* off.                                                                    *)
(***************************************************************************)
FailureStopsAll ==
  \A d \in Devices :
    d \in inUse /\ (\E i \in DOMAIN fromUnit[d] : fromUnit[d][i].err) ~> inActive = {}

(***************************************************************************)
(* A client never goes on with a run that stuff_ctl has ended.             *)
(***************************************************************************)
EndedRunIsNoticed ==
  client = "watch" /\ inUse = {} /\ stuffStatus = "ready" ~> client # "watch"
=============================================================================
