--------------------------- MODULE StuffCtl_proofs ---------------------------
(***************************************************************************)
(* What holds of stuff_ctl for every set of devices and every bound: an     *)
(* active unit is reserved, a unit held for inactive is off or on its way   *)
(* there, a client that has stopped its run has switched off everything, and *)
(* a unit with an error is not started.                                    *)
(***************************************************************************)
EXTENDS StuffCtl, DataLemmas, TLAPS

(***************************************************************************)
(* The client's wire.  A "prepare" comes after a deactivation, or finds     *)
(* nothing active; a client that is idle has sent its deactivation last.   *)
(***************************************************************************)
PrepareIsClean ==
  \A i \in 1 .. Len(toStuff) :
    toStuff[i].cmd = "prepare" =>
      IF i = 1 THEN inActive = {} ELSE toStuff[i - 1].cmd = "deactivate"

IdleIsClean ==
  client = "idle" =>
    IF toStuff = <<>> THEN inUse = {} /\ inActive = {}
                      ELSE toStuff[Len(toStuff)].cmd = "deactivate"

ClientInv ==
  IsQueue(toStuff) /\ ActiveIsInUse /\ PrepareIsClean /\ IdleIsClean

LEMMA ClientInvInit == Init => ClientInv
<1> SUFFICES ASSUME Init PROVE ClientInv
  OBVIOUS
<1>1. toStuff \in Seq({}) /\ toStuff = <<>>
  BY DEF Init
<1>2. Len(toStuff) = 0
  BY <1>1
<1> QED
  BY <1>1, <1>2 DEF Init, ClientInv, IsQueue, ActiveIsInUse, PrepareIsClean, IdleIsClean

(* A served command leaves the rest of the queue as clean as it was, if it  *)
(* leaves nothing active or the next command is no "prepare".              *)
LEMMA ServedQueue ==
  ASSUME ClientInv, toStuff # <<>>, toStuff' = Tail(toStuff),
         inActive' = {} \/ Head(toStuff).cmd # "deactivate"
  PROVE  IsQueue(toStuff') /\ PrepareIsClean'
<1>1. /\ IsQueue(Tail(toStuff))
      /\ Len(toStuff) \in Nat /\ Len(toStuff) > 0
      /\ Len(Tail(toStuff)) = Len(toStuff) - 1
      /\ Head(toStuff) = toStuff[1]
      /\ \A i \in 1 .. Len(toStuff) - 1 : Tail(toStuff)[i] = toStuff[i + 1]
  BY TailQueue DEF ClientInv
<1>2. ASSUME NEW i \in 1 .. Len(toStuff'), toStuff'[i].cmd = "prepare"
      PROVE  IF i = 1 THEN inActive' = {} ELSE toStuff'[i - 1].cmd = "deactivate"
  <2>1. i + 1 \in 1 .. Len(toStuff) /\ i + 1 # 1 /\ i \in 1 .. Len(toStuff) - 1
    BY <1>1, <1>2
  <2>2. toStuff[i + 1].cmd = "prepare"
    BY <1>1, <1>2, <2>1
  <2>3. toStuff[(i + 1) - 1].cmd = "deactivate"
    BY <2>1, <2>2 DEF ClientInv, PrepareIsClean
  <2>4. toStuff[i].cmd = "deactivate"
    <3>1. (i + 1) - 1 = i
      BY <1>2
    <3> QED BY <2>3, <3>1
  <2>5. CASE i = 1
    BY <1>1, <2>4, <2>5
  <2>6. CASE i # 1
    <3>1. i - 1 \in 1 .. Len(toStuff) - 1 /\ (i - 1) + 1 = i
      BY <1>2, <2>1, <2>6
    <3>2. toStuff'[i - 1] = toStuff[(i - 1) + 1]
      BY <1>1, <3>1
    <3>3. toStuff'[i - 1] = toStuff[i]
      BY <3>1, <3>2
    <3> QED BY <2>4, <2>6, <3>3
  <2> QED BY <2>5, <2>6
<1> QED BY <1>1, <1>2 DEF PrepareIsClean

(* If the client is idle the last command is a deactivation, so one that is *)
(* no deactivation is not the last.                                        *)
LEMMA ServedIdle ==
  ASSUME ClientInv, toStuff # <<>>, toStuff' = Tail(toStuff), client' = client,
         \/ Head(toStuff).cmd # "deactivate"
         \/ inUse' = {} /\ inActive' = {}
  PROVE  IdleIsClean'
  BY TailKeepsLast DEF ClientInv, IdleIsClean

(* A new command.                                                          *)
LEMMA SentQueue ==
  ASSUME ClientInv, NEW m, toStuff' = Append(toStuff, m),
         inActive' = inActive,
         m.cmd = "prepare" => client = "idle"
  PROVE  IsQueue(toStuff') /\ PrepareIsClean' /\ (m.cmd = "deactivate" => IdleIsClean')
<1>1. /\ IsQueue(toStuff') /\ toStuff' # <<>>
      /\ Len(toStuff) \in Nat
      /\ Len(toStuff') = Len(toStuff) + 1
      /\ toStuff'[Len(toStuff) + 1] = m
      /\ \A i \in 1 .. Len(toStuff) : toStuff'[i] = toStuff[i]
  BY AppendQueue DEF ClientInv
<1>2. toStuff = <<>> <=> Len(toStuff) = 0
  BY EmptyQueue DEF ClientInv
<1>3. ASSUME NEW i \in 1 .. Len(toStuff'), toStuff'[i].cmd = "prepare"
      PROVE  IF i = 1 THEN inActive' = {} ELSE toStuff'[i - 1].cmd = "deactivate"
  <2>1. CASE i \in 1 .. Len(toStuff)
    <3>1. toStuff[i].cmd = "prepare"
      BY <1>1, <1>3, <2>1
    <3>2. IF i = 1 THEN inActive = {} ELSE toStuff[i - 1].cmd = "deactivate"
      BY <2>1, <3>1 DEF ClientInv, PrepareIsClean
    <3>3. i # 1 => toStuff'[i - 1] = toStuff[i - 1]
      BY <1>1, <2>1
    <3> QED BY <3>2, <3>3
  <2>2. CASE i = Len(toStuff) + 1
    <3>1. client = "idle"
      BY <1>1, <1>3, <2>2
    <3>2. CASE Len(toStuff) = 0
      BY <1>2, <2>2, <3>1, <3>2 DEF ClientInv, IdleIsClean
    <3>3. CASE Len(toStuff) # 0
      <4>1. toStuff[Len(toStuff)].cmd = "deactivate"
        BY <1>2, <3>1, <3>3 DEF ClientInv, IdleIsClean
      <4>2. Len(toStuff) \in 1 .. Len(toStuff) /\ i - 1 = Len(toStuff) /\ i # 1
        BY <1>1, <2>2, <3>3
      <4> QED BY <1>1, <4>1, <4>2
    <3> QED BY <3>2, <3>3
  <2> QED BY <1>1, <1>3, <2>1, <2>2
<1> QED BY <1>1, <1>3 DEF PrepareIsClean, IdleIsClean

LEMMA ClientInvServe ==
  ASSUME ClientInv, Serve
  PROVE  ClientInv'
<1>c. toStuff # <<>> /\ toStuff' = Tail(toStuff) /\ client' = client
  BY DEF Serve, CmdPrepare, CmdOperation, Deactivate, Take, clientVars
<1>1. CASE CmdPrepare
  <2>1. Head(toStuff).cmd = "prepare" /\ inActive' = inActive
    BY <1>1 DEF CmdPrepare, Take
  <2>2. inActive = {}
    <3>1. Head(toStuff) = toStuff[1] /\ 1 \in 1 .. Len(toStuff)
      BY <1>c, TailQueue DEF ClientInv
    <3> QED BY <2>1, <3>1 DEF ClientInv, PrepareIsClean
  <2> QED BY <1>c, <2>1, <2>2, ServedQueue, ServedIdle DEF ClientInv, ActiveIsInUse
<1>2. CASE CmdOperation
  <2>1. Head(toStuff).cmd = "operation" /\ ActiveIsInUse'
    BY <1>2 DEF CmdOperation, Take, ClientInv, ActiveIsInUse
  <2> QED BY <1>c, <2>1, ServedQueue, ServedIdle DEF ClientInv
<1>3. CASE Deactivate
  <2>1. inUse' = {} /\ inActive' = {}
    BY <1>3 DEF Deactivate, DeactivateAll, ClientInv, ActiveIsInUse
  <2> QED BY <1>c, <2>1, ServedQueue, ServedIdle DEF ClientInv, ActiveIsInUse
<1> QED BY <1>1, <1>2, <1>3 DEF Serve

LEMMA ClientInvClient ==
  ASSUME ClientInv, Client
  PROVE  ClientInv'
<1>c. UNCHANGED <<inUse, inActive>>
  BY DEF Client, ClientPrepare, ClientOperation, ClientStop, ClientReceive, ClientStep
<1>a. ActiveIsInUse'
  BY <1>c DEF ClientInv, ActiveIsInUse
<1>1. ASSUME NEW cmd, NEW units, Command(cmd, units),
             cmd = "prepare" => client = "idle",
             cmd # "deactivate" => client' # "idle"
      PROVE  ClientInv'
  <2>1. [cmd |-> cmd, units |-> units].cmd = cmd
    OBVIOUS
  <2>2. toStuff' = Append(toStuff, [cmd |-> cmd, units |-> units])
    BY <1>1 DEF Command
  <2>3. IsQueue(toStuff') /\ PrepareIsClean' /\ (cmd = "deactivate" => IdleIsClean')
    BY <1>c, <1>1, <2>1, <2>2, SentQueue
  <2>4. cmd # "deactivate" => IdleIsClean'
    BY <1>1 DEF IdleIsClean
  <2> QED BY <1>a, <2>3, <2>4 DEF ClientInv
<1>2. CASE ClientPrepare
  BY <1>1, <1>2 DEF ClientPrepare
<1>3. CASE ClientOperation
  BY <1>1, <1>3 DEF ClientOperation
<1>4. CASE ClientStops
  BY <1>1, <1>4 DEF ClientStops
<1>5. CASE ClientReceive /\ ~ClientStops
  <2>1. toStuff' = toStuff /\ (client' = "idle" => client = "idle")
    BY <1>5 DEF ClientReceive
  <2> QED BY <1>a, <1>c, <2>1 DEF ClientInv, PrepareIsClean, IdleIsClean
<1> QED BY <1>2, <1>3, <1>4, <1>5 DEF Client, ClientStop

(* A unit's status switches everything off or nothing.                     *)
LEMMA ClientInvUnit ==
  ASSUME ClientInv, NEW d \in Devices, UnitStatus(d) \/ Unit(d)
  PROVE  ClientInv'
<1>1. UNCHANGED <<toStuff, client>>
  BY DEF UnitStatus, clientVars, Unit, UnitStep, UnitRefuse, UnitOn, UnitOff, UnitZero,
         UnitTake, UnitStands, UnitFail, UnitRecover
<1>2. \/ UNCHANGED <<inUse, inActive>>
      \/ inUse' = {} /\ inActive' = {}
  <2>1. CASE UnitStatus(d)
    BY <2>1 DEF UnitStatus, TerminateExecution, DeactivateAll
  <2>2. CASE Unit(d)
    BY <2>2 DEF Unit, UnitStep, UnitRefuse, UnitOn, UnitOff, UnitZero, UnitTake,
                UnitStands, UnitFail, UnitRecover
  <2> QED BY <2>1, <2>2
<1> QED BY <1>1, <1>2 DEF ClientInv, ActiveIsInUse, PrepareIsClean, IdleIsClean

LEMMA ClientInvStep == ClientInv /\ [Next]_vars => ClientInv'
<1> SUFFICES ASSUME ClientInv, [Next]_vars PROVE ClientInv'
  OBVIOUS
<1>1. CASE UNCHANGED vars
  BY <1>1 DEF vars, clientVars, ClientInv, ActiveIsInUse, PrepareIsClean, IdleIsClean
<1> QED
  BY <1>1, ClientInvServe, ClientInvClient, ClientInvUnit DEF Next

(***************************************************************************)
(* Only a reserved unit is active, whatever the client's programs reserve   *)
(* and however commands, failures and late statuses fall together.         *)
(***************************************************************************)
THEOREM ActiveAlwaysInUse == Spec => []ActiveIsInUse
<1>1. ClientInv => ActiveIsInUse
  BY DEF ClientInv
<1> QED BY <1>1, ClientInvInit, ClientInvStep, PTL DEF Spec

-----------------------------------------------------------------------------
(***************************************************************************)
(* The devices' wires.  What is known of one device: if stuff_ctl holds it  *)
(* for inactive it runs down, and a blocked device is off.                 *)
(***************************************************************************)
Wires ==
  /\ toUnit = [d \in Devices |-> toUnit[d]]
  /\ unit = [d \in Devices |-> unit[d]]
  /\ \A d \in Devices : IsQueue(toUnit[d])

BlockedIsOff == \A d \in Devices : unit[d] = "blocked" => d \notin driven

UnitInv == Wires /\ BlockedIsOff /\ InactiveMeansOff

LEMMA UnitInvInit == Init => UnitInv
<1> SUFFICES ASSUME Init PROVE UnitInv
  OBVIOUS
<1>1. toUnit = [d \in Devices |-> <<>>] /\ unit = [d \in Devices |-> "ready"] /\ driven = {}
  BY DEF Init
<1>2. <<>> \in Seq({})
  OBVIOUS
<1>3. Wires
  BY <1>1, <1>2 DEF Wires, IsQueue
<1>4. BlockedIsOff
  BY <1>1 DEF BlockedIsOff
<1>5. InactiveMeansOff
  BY <1>1 DEF InactiveMeansOff, RunsDown
<1> QED BY <1>3, <1>4, <1>5 DEF UnitInv

(* A step of stuff_ctl: every device's queue stays or gets one command, and *)
(* a device held for inactive afterwards was so before, or gets its "off". *)
Commands ==
  /\ UNCHANGED <<unit, driven, stopping>>
  /\ toUnit' = [d \in Devices |-> toUnit'[d]]
  /\ \A d \in Devices :
       \/ toUnit'[d] = toUnit[d] /\ (d \in inActive' <=> d \in inActive)
       \/ toUnit'[d] = Append(toUnit[d], Off(d))
       \/ toUnit'[d] = Append(toUnit[d], "on") /\ d \in inActive'

LEMMA CommandsKeep ==
  ASSUME UnitInv, Commands
  PROVE  UnitInv'
<1>1. ASSUME NEW d \in Devices
      PROVE  IsQueue(toUnit'[d]) /\ (d \notin inActive' => RunsDown(d)')
  <2>0. IsQueue(toUnit[d])
    BY DEF UnitInv, Wires
  <2>1. CASE toUnit'[d] = toUnit[d] /\ (d \in inActive' <=> d \in inActive)
    BY <2>0, <2>1 DEF UnitInv, InactiveMeansOff, RunsDown, Commands
  <2>2. CASE toUnit'[d] = Append(toUnit[d], Off(d))
    <3>1. IsQueue(toUnit'[d]) /\ toUnit'[d] # <<>> /\ toUnit'[d][Len(toUnit'[d])] = Off(d)
      BY <2>0, <2>2, AppendQueue
    <3> QED BY <3>1 DEF RunsDown
  <2>3. CASE toUnit'[d] = Append(toUnit[d], "on") /\ d \in inActive'
    BY <2>0, <2>3, AppendQueue
  <2> QED BY <2>1, <2>2, <2>3 DEF Commands
<1>2. Wires' /\ BlockedIsOff'
  BY <1>1 DEF UnitInv, Commands, Wires, BlockedIsOff
<1>3. InactiveMeansOff'
  BY <1>1 DEF InactiveMeansOff
<1> QED BY <1>2, <1>3 DEF UnitInv

LEMMA DeactivateAllCommands ==
  ASSUME UnitInv, DeactivateAll, UNCHANGED <<unit, driven, stopping>>
  PROVE  Commands
<1>1. toUnit' = [d \in Devices |-> IF d \in inActive THEN Append(toUnit[d], Off(d))
                                                     ELSE toUnit[d]]
  BY DEF DeactivateAll
<1> QED BY <1>1 DEF Commands, DeactivateAll

LEMMA NodeCommands ==
  ASSUME UnitInv, Serve \/ Client \/ \E d \in Devices : UnitStatus(d)
  PROVE  Commands
<1>u. UNCHANGED <<unit, driven, stopping>>
  BY DEF Serve, CmdPrepare, CmdOperation, Deactivate, Take, unitVars, Client,
         ClientPrepare, ClientOperation, ClientStop, ClientReceive, ClientStep, UnitStatus
<1>n. UNCHANGED <<toUnit, inActive>> => Commands
  BY <1>u DEF Commands, UnitInv, Wires
<1>1. CASE CmdPrepare
  BY <1>1, <1>n DEF CmdPrepare
<1>2. CASE CmdOperation
  <2>1. PICK on : /\ inActive' = (inActive \ inUse) \cup (on \cap inUse)
                  /\ toUnit' = [d \in Devices |->
                         IF d \notin inUse THEN toUnit[d]
                         ELSE Append(toUnit[d], IF d \in on THEN "on" ELSE Off(d))]
    BY <1>2 DEF CmdOperation
  <2> QED BY <1>u, <2>1 DEF Commands
<1>3. CASE Deactivate
  BY <1>3, <1>n, <1>u, DeactivateAllCommands DEF Deactivate
<1>4. CASE Client
  BY <1>4, <1>n DEF Client, ClientPrepare, ClientOperation, ClientStop, ClientReceive,
                    ClientStep
<1>5. CASE \E d \in Devices : UnitStatus(d)
  <2>1. DeactivateAll \/ UNCHANGED <<toUnit, inActive>>
    BY <1>5 DEF UnitStatus, TerminateExecution
  <2> QED BY <1>n, <1>u, <2>1, DeactivateAllCommands
<1> QED BY <1>1, <1>2, <1>3, <1>4, <1>5 DEF Serve

(* A step of device d: it takes a command or changes by itself.            *)
LEMMA DeviceKeeps ==
  ASSUME UnitInv, NEW d \in Devices, Unit(d)
  PROVE  UnitInv'
<1> USE DEF UnitInv
<1>a. inActive' = inActive
  BY DEF Unit, UnitStep, UnitRefuse, UnitOn, UnitOff, UnitZero, UnitTake,
         UnitStands, UnitFail, UnitRecover
<1>o. \A e \in Devices \ {d} :
        /\ toUnit'[e] = toUnit[e] /\ unit'[e] = unit[e]
        /\ (e \in driven' <=> e \in driven) /\ (e \in stopping' <=> e \in stopping)
  BY DEF Unit, UnitRefuse, UnitOn, UnitOff, UnitZero, UnitTake, UnitStands,
         UnitFail, UnitRecover, Report, Wires
<1>k. \/ /\ toUnit[d] # <<>> /\ toUnit' = [toUnit EXCEPT ![d] = Tail(@)]
         /\ Head(toUnit[d]) = Off(d) => d \notin driven' \/ d \in stopping'
      \/ /\ toUnit' = toUnit
         /\ d \in driven' => d \in driven /\ (d \in stopping => d \in stopping')
  <2>1. CASE UnitRefuse(d)
    BY <2>1 DEF UnitRefuse, UnitTake, BlockedIsOff
  <2>2. CASE UnitOn(d)
    BY <2>2 DEF UnitOn, UnitTake, Off
  <2>3. CASE UnitOff(d)
    BY <2>3 DEF UnitOff, UnitTake
  <2>4. CASE UnitZero(d)
    BY <2>4 DEF UnitZero, UnitTake
  <2>5. CASE UnitStands(d) \/ UnitFail(d) \/ UnitRecover(d)
    BY <2>5 DEF UnitStands, UnitFail, UnitRecover
  <2> QED BY <2>1, <2>2, <2>3, <2>4, <2>5 DEF Unit
<1>w. Wires'
  <2>1. unit' = [e \in Devices |-> unit'[e]]
    BY DEF Unit, UnitRefuse, UnitOn, UnitOff, UnitZero, UnitStands, UnitFail,
           UnitRecover, Report, Wires
  <2>2. CASE toUnit' = toUnit
    BY <2>1, <2>2 DEF Wires
  <2>3. CASE toUnit[d] # <<>> /\ toUnit' = [toUnit EXCEPT ![d] = Tail(@)]
    <3>1. IsQueue(Tail(toUnit[d]))
      BY <2>3, TailQueue DEF Wires
    <3> QED BY <2>1, <2>3, <3>1 DEF Wires
  <2> QED BY <1>k, <2>2, <2>3
<1>b. BlockedIsOff'
  <2>1. unit'[d] = "blocked" => d \notin driven'
    BY DEF Unit, UnitRefuse, UnitOn, UnitOff, UnitZero, UnitStands, UnitFail,
           UnitRecover, Report, Wires, BlockedIsOff
  <2> QED BY <1>o, <2>1 DEF BlockedIsOff
<1>r. d \notin inActive => RunsDown(d)'
  <2> SUFFICES ASSUME d \notin inActive PROVE RunsDown(d)'
    OBVIOUS
  <2>1. RunsDown(d)
    BY DEF InactiveMeansOff
  <2>2. CASE /\ toUnit' = toUnit
             /\ d \in driven' => d \in driven /\ (d \in stopping => d \in stopping')
    BY <2>1, <2>2 DEF RunsDown
  <2>3. CASE /\ toUnit[d] # <<>> /\ toUnit' = [toUnit EXCEPT ![d] = Tail(@)]
             /\ Head(toUnit[d]) = Off(d) => d \notin driven' \/ d \in stopping'
    <3>0. toUnit'[d] = Tail(toUnit[d])
      BY <2>3 DEF Wires
    <3>1. toUnit[d][Len(toUnit[d])] = Off(d)
      BY <2>1, <2>3 DEF RunsDown
    <3>2. CASE Tail(toUnit[d]) # <<>>
      <4>1. Tail(toUnit[d])[Len(Tail(toUnit[d]))] = Off(d)
        BY <2>3, <3>1, <3>2, TailKeepsLast DEF Wires
      <4> QED BY <3>0, <3>2, <4>1 DEF RunsDown
    <3>3. CASE Tail(toUnit[d]) = <<>>
      <4>1. Head(toUnit[d]) = Off(d)
        BY <2>3, <3>1, <3>3, TailKeepsLast DEF Wires
      <4> QED BY <2>3, <3>0, <3>3, <4>1 DEF RunsDown
    <3> QED BY <3>2, <3>3
  <2> QED BY <1>k, <2>2, <2>3
<1> QED BY <1>a, <1>o, <1>w, <1>b, <1>r DEF InactiveMeansOff, RunsDown

LEMMA UnitInvStep == UnitInv /\ [Next]_vars => UnitInv'
<1> SUFFICES ASSUME UnitInv, [Next]_vars PROVE UnitInv'
  OBVIOUS
<1>1. CASE UNCHANGED vars
  BY <1>1 DEF vars, unitVars, UnitInv, Wires, BlockedIsOff, InactiveMeansOff, RunsDown
<1> QED BY <1>1, NodeCommands, CommandsKeep, DeviceKeeps DEF Next

(***************************************************************************)
(* No order of commands, failures and late statuses leaves on a device that *)
(* stuff_ctl holds for inactive.                                           *)
(***************************************************************************)
THEOREM InactiveAlwaysOff == Spec => []InactiveMeansOff
<1>1. UnitInv => InactiveMeansOff
  BY DEF UnitInv
<1> QED BY <1>1, UnitInvInit, UnitInvStep, PTL DEF Spec

(***************************************************************************)
(* A client that has stopped its run has nothing more to do: when its       *)
(* commands are served every device is off or running down.                *)
(***************************************************************************)
THEOREM StoppedClientIsOff == Spec => []StoppedClientMeansOff
<1>1. ClientInv /\ UnitInv => StoppedClientMeansOff
  BY DEF ClientInv, UnitInv, IdleIsClean, InactiveMeansOff, StoppedClientMeansOff
<1> QED
  BY <1>1, ClientInvInit, ClientInvStep, UnitInvInit, UnitInvStep, PTL DEF Spec

-----------------------------------------------------------------------------
(***************************************************************************)
(* A run that is refused stays refused.  While its "prepare" is on the way, *)
(* or a reserved unit has an error, the client has sent no operation and is *)
(* told nothing that would make it send one; it begins another run only     *)
(* when both wires are empty (PatientClient).                              *)
(***************************************************************************)
Has(q, m) == \E i \in 1 .. Len(q) : q[i] = m

Sent(cmd) == \E m : Has(toStuff, m) /\ m.cmd = cmd

Told == \E m : Has(fromStuff, m) /\ m.status = "active"

Refused == inUse \cap faulty # {} \/ Sent("prepare")

OnePrepare == \A i \in 1 .. Len(toStuff) : toStuff[i].cmd = "prepare" => i = 1

RefusedRests ==
  Refused => ~Sent("operation") /\ client # "watch" /\ (client = "activation" => ~Told)

RefusalInv ==
  /\ IsQueue(toStuff) /\ IsQueue(fromStuff) /\ faulty \subseteq Devices
  /\ OnePrepare /\ RefusedRests

LEMMA HasAppended ==
  ASSUME NEW q, IsQueue(q), NEW e, NEW m
  PROVE  Has(Append(q, e), m) <=> Has(q, m) \/ m = e
<1>1. /\ Len(q) \in Nat /\ Len(Append(q, e)) = Len(q) + 1
      /\ Append(q, e)[Len(q) + 1] = e
      /\ \A i \in 1 .. Len(q) : Append(q, e)[i] = q[i]
  BY AppendQueue
<1> QED BY <1>1 DEF Has

LEMMA HasTaken ==
  ASSUME NEW q, IsQueue(q), q # <<>>, NEW m
  PROVE  (Has(Tail(q), m) => Has(q, m)) /\ Has(q, Head(q))
<1>1. /\ Len(q) \in Nat /\ Len(q) > 0 /\ Len(Tail(q)) = Len(q) - 1 /\ Head(q) = q[1]
      /\ \A i \in 1 .. Len(q) - 1 : Tail(q)[i] = q[i + 1]
  BY TailQueue
<1>2. \A i \in 1 .. Len(q) - 1 : i + 1 \in 1 .. Len(q)
  BY <1>1
<1>3. 1 \in 1 .. Len(q)
  BY <1>1
<1> QED BY <1>1, <1>2, <1>3 DEF Has

LEMMA HasNothing == \A m : ~Has(<<>>, m)
  BY DEF Has

LEMMA RefusalInvInit == Init => RefusalInv
<1> SUFFICES ASSUME Init PROVE RefusalInv
  OBVIOUS
<1>1. /\ toStuff = <<>> /\ fromStuff = <<Status("ready", FALSE)>>
      /\ inUse = {} /\ faulty = {} /\ client = "idle"
  BY DEF Init
<1>2. IsQueue(toStuff) /\ IsQueue(fromStuff) /\ Len(toStuff) = 0
  <2>1. toStuff \in Seq({}) /\ Len(toStuff) = 0
    BY <1>1
  <2>2. fromStuff \in Seq({Status("ready", FALSE)})
    BY <1>1
  <2> QED BY <2>1, <2>2 DEF IsQueue
<1>3. ~Sent("prepare")
  BY <1>1, HasNothing DEF Sent
<1> QED BY <1>1, <1>2, <1>3 DEF RefusalInv, OnePrepare, RefusedRests, Refused

(* A served command.                                                       *)
LEMMA ServedSent ==
  ASSUME RefusalInv, toStuff # <<>>, toStuff' = Tail(toStuff)
  PROVE  /\ IsQueue(toStuff') /\ OnePrepare' /\ ~Sent("prepare")'
         /\ (Sent("operation")' => Sent("operation"))
         /\ Sent(Head(toStuff).cmd)
<1>1. /\ IsQueue(Tail(toStuff)) /\ Len(toStuff) \in Nat
      /\ Len(Tail(toStuff)) = Len(toStuff) - 1
      /\ \A i \in 1 .. Len(toStuff) - 1 : Tail(toStuff)[i] = toStuff[i + 1]
  BY TailQueue DEF RefusalInv
<1>2. ASSUME NEW i \in 1 .. Len(toStuff') PROVE toStuff'[i].cmd # "prepare"
  <2>1. i + 1 \in 1 .. Len(toStuff) /\ i + 1 # 1 /\ i \in 1 .. Len(toStuff) - 1
    BY <1>1
  <2> QED BY <1>1, <2>1 DEF RefusalInv, OnePrepare
<1>3. OnePrepare' /\ ~Sent("prepare")'
  BY <1>2 DEF OnePrepare, Sent, Has
<1>4. /\ \A m : Has(toStuff', m) => Has(toStuff, m)
      /\ Has(toStuff, Head(toStuff))
  BY HasTaken DEF RefusalInv
<1> QED BY <1>1, <1>3, <1>4 DEF Sent

LEMMA RefusalInvServe ==
  ASSUME RefusalInv, Serve
  PROVE  RefusalInv'
<1>c. toStuff # <<>> /\ toStuff' = Tail(toStuff) /\ UNCHANGED <<client, faulty>>
  BY DEF Serve, CmdPrepare, CmdOperation, Deactivate, Take, clientVars
<1>s. /\ IsQueue(toStuff') /\ OnePrepare' /\ ~Sent("prepare")'
      /\ (Sent("operation")' => Sent("operation"))
      /\ Sent(Head(toStuff).cmd)
  BY <1>c, ServedSent
<1>q. IsQueue(fromStuff) /\ faulty' \subseteq Devices
  BY <1>c DEF RefusalInv
<1>a. ASSUME NEW m, fromStuff' = fromStuff \/ fromStuff' = Append(fromStuff, m)
      PROVE  /\ IsQueue(fromStuff')
             /\ (m.status # "active" /\ ~Told => ~Told')
  BY <1>a, <1>q, AppendQueue, HasAppended DEF Told
<1>1. CASE /\ Head(toStuff).cmd = "prepare"
           /\ fromStuff' = Append(fromStuff, Status("ready", TRUE))
  <2>1. Refused /\ Status("ready", TRUE).status # "active"
    BY <1>1, <1>s DEF Refused, Status
  <2>2. ~Sent("operation")' /\ client' # "watch" /\ (client' = "activation" => ~Told')
    BY <1>1, <1>a, <1>c, <1>s, <2>1 DEF RefusalInv, RefusedRests
  <2>3. IsQueue(fromStuff')
    BY <1>1, <1>a
  <2> QED BY <1>q, <1>s, <2>2, <2>3 DEF RefusalInv, RefusedRests
<1>2. CASE Accept /\ inUse' \cap faulty' = {}
  <2>1. ~Refused'
    BY <1>2, <1>s DEF Refused
  <2>2. IsQueue(fromStuff')
    BY <1>2, <1>a DEF Accept
  <2> QED BY <1>q, <1>s, <2>1, <2>2 DEF RefusalInv, RefusedRests
<1>3. CASE CmdPrepare
  <2>1. CASE Head(toStuff).units \cap faulty # {}
    BY <1>1, <1>3, <2>1 DEF CmdPrepare, Take
  <2>2. CASE Head(toStuff).units \cap faulty = {}
    BY <1>2, <1>3, <1>c, <2>2 DEF CmdPrepare
  <2> QED BY <2>1, <2>2
<1>4. CASE CmdOperation
  <2>1. Sent("operation")
    BY <1>4, <1>s DEF CmdOperation, Take
  <2>2. inUse \cap faulty = {}
    BY <2>1 DEF RefusalInv, RefusedRests, Refused
  <2> QED BY <1>2, <1>4, <1>c, <2>2 DEF CmdOperation
<1>5. CASE Deactivate
  <2>1. inUse' = {}
    BY <1>5 DEF Deactivate, DeactivateAll
  <2>2. ~Refused'
    BY <1>s, <2>1 DEF Refused
  <2>3. IsQueue(fromStuff')
    BY <1>5, <1>a DEF Deactivate
  <2> QED BY <1>q, <1>s, <2>2, <2>3 DEF RefusalInv, RefusedRests
<1> QED BY <1>3, <1>4, <1>5 DEF Serve

(* A new command of the client.                                            *)
LEMMA SentMore ==
  ASSUME RefusalInv, NEW m, toStuff' = Append(toStuff, m), m.cmd = "prepare" => toStuff = <<>>
  PROVE  /\ IsQueue(toStuff') /\ OnePrepare'
         /\ \A cmd : Sent(cmd)' <=> Sent(cmd) \/ m.cmd = cmd
<1>1. /\ IsQueue(toStuff') /\ Len(toStuff) \in Nat /\ Len(toStuff') = Len(toStuff) + 1
      /\ toStuff'[Len(toStuff) + 1] = m
      /\ \A i \in 1 .. Len(toStuff) : toStuff'[i] = toStuff[i]
  BY AppendQueue DEF RefusalInv
<1>2. toStuff = <<>> <=> Len(toStuff) = 0
  BY EmptyQueue DEF RefusalInv
<1>3. ASSUME NEW i \in 1 .. Len(toStuff'), toStuff'[i].cmd = "prepare" PROVE i = 1
  <2>1. CASE i \in 1 .. Len(toStuff)
    BY <1>1, <1>3, <2>1 DEF RefusalInv, OnePrepare
  <2>2. CASE i = Len(toStuff) + 1
    BY <1>1, <1>2, <1>3, <2>2
  <2> QED BY <1>1, <2>1, <2>2
<1>4. \A e : Has(toStuff', e) <=> Has(toStuff, e) \/ e = m
  BY HasAppended DEF RefusalInv
<1> QED BY <1>1, <1>3, <1>4 DEF OnePrepare, Sent

LEMMA RefusalInvClient ==
  ASSUME PatientClient, RefusalInv, Client
  PROVE  RefusalInv'
<1>c. UNCHANGED <<inUse, faulty>>
  BY DEF Client, ClientPrepare, ClientOperation, ClientStop, ClientReceive, ClientStep
<1>f. IsQueue(fromStuff') /\ (Told' => Told)
  <2>1. fromStuff' = fromStuff \/ (fromStuff # <<>> /\ fromStuff' = Tail(fromStuff))
    BY DEF Client, ClientPrepare, ClientOperation, ClientStop, ClientReceive
  <2>2. CASE fromStuff' = fromStuff
    BY <2>2 DEF RefusalInv, Told
  <2>3. CASE fromStuff # <<>> /\ fromStuff' = Tail(fromStuff)
    <3>1. IsQueue(fromStuff') /\ \A m : Has(fromStuff', m) => Has(fromStuff, m)
      BY <2>3, TailQueue, HasTaken DEF RefusalInv
    <3> QED BY <3>1 DEF Told
  <2> QED BY <2>1, <2>2, <2>3
<1>m. ASSUME NEW cmd, NEW units, Command(cmd, units), cmd = "prepare" => toStuff = <<>>
      PROVE  /\ IsQueue(toStuff') /\ OnePrepare'
             /\ \A k : Sent(k)' <=> Sent(k) \/ k = cmd
  <2>1. [cmd |-> cmd, units |-> units].cmd = cmd
    OBVIOUS
  <2>2. toStuff' = Append(toStuff, [cmd |-> cmd, units |-> units])
    BY <1>m DEF Command
  <2> QED BY <1>m, <2>1, <2>2, SentMore
<1>1. CASE ClientPrepare
  <2>1. toStuff = <<>> /\ fromStuff = <<>> /\ fromStuff' = fromStuff /\ client' = "activation"
    BY <1>1 DEF ClientPrepare
  <2>2. PICK units : Command("prepare", units)
    BY <1>1 DEF ClientPrepare
  <2>3. ~Sent("operation") /\ ~Told'
    BY <2>1, HasNothing DEF Sent, Told
  <2>4. IsQueue(toStuff') /\ OnePrepare' /\ ~Sent("operation")'
    BY <1>m, <2>1, <2>2, <2>3
  <2> QED BY <1>c, <1>f, <2>1, <2>3, <2>4 DEF RefusalInv, RefusedRests
<1>2. CASE ClientOperation
  <2>1. client = "watch" /\ client' = client
    BY <1>2 DEF ClientOperation
  <2>2. PICK units : Command("operation", units)
    BY <1>2 DEF ClientOperation
  <2>3. IsQueue(toStuff') /\ OnePrepare' /\ (Sent("prepare")' => Sent("prepare"))
    BY <1>m, <2>2
  <2>4. ~Refused'
    BY <1>c, <2>1, <2>3 DEF RefusalInv, RefusedRests, Refused
  <2> QED BY <1>c, <1>f, <2>3, <2>4 DEF RefusalInv, RefusedRests
<1>3. CASE ClientStops
  <2>1. Command("deactivate", {}) /\ client' = "idle"
    BY <1>3 DEF ClientStops
  <2>2. /\ IsQueue(toStuff') /\ OnePrepare' /\ (Sent("prepare")' => Sent("prepare"))
        /\ (Sent("operation")' => Sent("operation"))
    BY <1>m, <2>1
  <2> QED BY <1>c, <1>f, <2>1, <2>2 DEF RefusalInv, RefusedRests, Refused
<1>4. CASE ClientReceive /\ ~ClientStops
  <2>1. /\ toStuff' = toStuff
        /\ \/ client' = client
           \/ client = "activation" /\ Head(fromStuff).status = "active"
    BY <1>4 DEF ClientReceive
  <2>2. Has(fromStuff, Head(fromStuff))
    BY <1>4, HasTaken DEF RefusalInv, ClientReceive
  <2>3. CASE client = "activation" /\ Head(fromStuff).status = "active"
    <3>1. ~Refused
      BY <2>2, <2>3 DEF RefusalInv, RefusedRests, Told
    <3> QED BY <1>c, <1>f, <2>1, <3>1 DEF RefusalInv, RefusedRests, Refused, Sent, OnePrepare
  <2>4. CASE client' = client
    BY <1>c, <1>f, <2>1, <2>4 DEF RefusalInv, RefusedRests, Refused, Sent, OnePrepare
  <2> QED BY <2>1, <2>3, <2>4
<1> QED BY <1>1, <1>2, <1>3, <1>4 DEF Client, ClientStop

(* An error of a reserved unit ends the run: nothing stays reserved.       *)
LEMMA RefusalInvUnit ==
  ASSUME RefusalInv, NEW d \in Devices, UnitStatus(d) \/ Unit(d)
  PROVE  RefusalInv'
<1>1. UNCHANGED <<toStuff, client>>
  BY DEF UnitStatus, clientVars, Unit, UnitStep, UnitRefuse, UnitOn, UnitOff, UnitZero,
         UnitTake, UnitStands, UnitFail, UnitRecover
<1>2. CASE UNCHANGED <<inUse, fromStuff>> /\ faulty' \subseteq Devices
           /\ (inUse' \cap faulty' # {} => inUse \cap faulty # {})
  BY <1>1, <1>2 DEF RefusalInv, RefusedRests, Refused, Sent, Told, OnePrepare
<1>3. CASE UnitStatus(d) /\ TerminateExecution
  <2>1. inUse' = {} /\ fromStuff' = Append(fromStuff, Status("ready", TRUE))
    BY <1>3 DEF TerminateExecution, DeactivateAll
  <2>2. faulty' \subseteq Devices
    BY <1>3 DEF UnitStatus, RefusalInv
  <2>3. IsQueue(fromStuff') /\ (Told' => Told)
    <3>1. Status("ready", TRUE).status # "active"
      BY DEF Status
    <3>2. IsQueue(fromStuff')
          /\ \A m : Has(fromStuff', m) => Has(fromStuff, m) \/ m = Status("ready", TRUE)
      BY <2>1, AppendQueue, HasAppended DEF RefusalInv
    <3> QED BY <3>1, <3>2 DEF Told
  <2> QED BY <1>1, <2>1, <2>2, <2>3 DEF RefusalInv, RefusedRests, Refused, Sent, OnePrepare
<1>4. CASE UnitStatus(d) /\ ~TerminateExecution
  <2>1. /\ UNCHANGED <<inUse, fromStuff>>
        /\ faulty' = IF Head(fromUnit[d]).err THEN faulty \cup {d} ELSE faulty \ {d}
        /\ ~(d \in inUse /\ Head(fromUnit[d]).err)
    BY <1>4 DEF UnitStatus
  <2> QED BY <1>2, <2>1 DEF RefusalInv
<1>5. CASE Unit(d)
  <2>1. UNCHANGED <<inUse, fromStuff, faulty>>
    BY <1>5 DEF Unit, UnitStep, UnitRefuse, UnitOn, UnitOff, UnitZero, UnitTake,
                UnitStands, UnitFail, UnitRecover
  <2> QED BY <1>2, <2>1 DEF RefusalInv
<1> QED BY <1>3, <1>4, <1>5

LEMMA RefusalInvStep == PatientClient /\ RefusalInv /\ [Next]_vars => RefusalInv'
<1> SUFFICES ASSUME PatientClient, RefusalInv, [Next]_vars PROVE RefusalInv'
  OBVIOUS
<1>1. CASE UNCHANGED vars
  BY <1>1 DEF vars, clientVars, RefusalInv, RefusedRests, Refused, Sent, Told, OnePrepare
<1> QED BY <1>1, RefusalInvServe, RefusalInvClient, RefusalInvUnit DEF Next

(* Only cmd_operation switches a unit on, and only a reserved one.         *)
LEMMA StartedByOperation ==
  ASSUME UnitInv, [Next]_vars, NEW d \in Devices, toUnit'[d] = Append(toUnit[d], "on")
  PROVE  CmdOperation /\ d \in inUse
<1>1. IsQueue(toUnit[d]) /\ toUnit = [e \in Devices |-> toUnit[e]]
  BY DEF UnitInv, Wires
<1>2. /\ Len(toUnit[d]) \in Nat /\ Len(Append(toUnit[d], "on")) = Len(toUnit[d]) + 1
      /\ Append(toUnit[d], "on")[Len(toUnit[d]) + 1] = "on"
      /\ Append(toUnit[d], Off(d))[Len(toUnit[d]) + 1] = Off(d)
  BY <1>1, AppendQueue
<1>3. Append(toUnit[d], Off(d)) # Append(toUnit[d], "on")
  <2>1. Off(d) # "on"
    BY DEF Off
  <2> QED BY <1>2, <2>1
<1>4. toUnit'[d] # toUnit[d]
  BY <1>2
<1>5. ~DeactivateAll
  <2>1. ASSUME DeactivateAll PROVE toUnit'[d] \in {toUnit[d], Append(toUnit[d], Off(d))}
    BY <2>1 DEF DeactivateAll
  <2> QED BY <1>3, <1>4, <2>1
<1>6. CASE Client \/ CmdPrepare \/ Deactivate \/ UNCHANGED vars
  BY <1>4, <1>5, <1>6 DEF vars, Client, ClientPrepare, ClientOperation, ClientStop,
     ClientReceive, ClientStep, CmdPrepare, Deactivate
<1>7. ASSUME NEW e \in Devices, UnitStatus(e) \/ Unit(e) PROVE FALSE
  <2>1. CASE UnitStatus(e)
    BY <1>4, <1>5, <2>1 DEF UnitStatus, TerminateExecution
  <2>2. CASE Unit(e)
    <3>1. \/ toUnit' = toUnit
          \/ toUnit[e] # <<>> /\ toUnit' = [toUnit EXCEPT ![e] = Tail(@)]
      BY <2>2 DEF Unit, UnitRefuse, UnitOn, UnitOff, UnitZero, UnitTake, UnitStands,
                  UnitFail, UnitRecover
    <3>2. e = d /\ toUnit[d] # <<>> /\ toUnit'[d] = Tail(toUnit[d])
      BY <1>1, <1>4, <3>1
    <3>3. Len(Tail(toUnit[d])) = Len(toUnit[d]) - 1
      BY <1>1, <3>2, TailQueue
    <3>4. Len(Tail(toUnit[d])) = Len(Append(toUnit[d], "on"))
      BY <3>2
    <3>5. Len(toUnit[d]) - 1 = Len(toUnit[d]) + 1
      BY <1>2, <3>3, <3>4
    <3> HIDE <3>2, <3>3, <3>4
    <3> QED BY <1>2, <3>5
  <2> QED BY <1>7, <2>1, <2>2
<1>8. CmdOperation
  BY <1>6, <1>7 DEF Next, Serve
<1>9. d \in inUse
  BY <1>4, <1>8 DEF CmdOperation
<1> QED BY <1>8, <1>9

(***************************************************************************)
(* If the client lets its wire come to rest before it begins a run, no unit *)
(* is switched on while stuff_ctl knows of an error of it: an operation is  *)
(* served only after a "prepare" that found its units sound, and an error   *)
(* that comes later ends the run.                                          *)
(***************************************************************************)
THEOREM FaultyNeverStarted == PatientClient => (Spec => FaultyIsNeverStarted)
<1> SUFFICES ASSUME PatientClient PROVE Spec => FaultyIsNeverStarted
  OBVIOUS
<1>1. RefusalInv /\ UnitInv /\ [Next]_vars
        => [\A d \in faulty : toUnit'[d] # Append(toUnit[d], "on")]_vars
  <2> SUFFICES ASSUME RefusalInv, UnitInv, [Next]_vars, NEW d \in faulty,
                      toUnit'[d] = Append(toUnit[d], "on")
               PROVE  FALSE
    OBVIOUS
  <2>1. CmdOperation /\ d \in inUse
    BY StartedByOperation DEF RefusalInv
  <2>2. Sent("operation")
    BY <2>1, ServedSent DEF CmdOperation, Take
  <2> QED BY <2>1, <2>2 DEF RefusalInv, RefusedRests, Refused
<1>2. RefusalInv /\ [Next]_vars => RefusalInv'
  BY RefusalInvStep
<1> QED
  BY <1>1, <1>2, RefusalInvInit, UnitInvInit, UnitInvStep, PTL DEF Spec, FaultyIsNeverStarted

-----------------------------------------------------------------------------
(***************************************************************************)
(* stuff_ctl keeps what StuffSide promises its client: each of its steps is *)
(* one of StuffSide's or leaves the client's wire alone.                   *)
(***************************************************************************)
LEMMA ServeImplements ==
  ASSUME Serve
  PROVE  Side!Serve
<1>1. CASE CmdPrepare
  <2>1. Side!Take({"prepare"})
    BY <1>1 DEF CmdPrepare, Take, Side!Take
  <2>2. CASE Head(toStuff).units \cap faulty # {}
    <3>1. (inUse' # {}) = TRUE /\ stuffStatus' = "ready"
          /\ fromStuff' = Append(fromStuff, Status("ready", TRUE))
      BY <1>1, <2>2 DEF CmdPrepare
    <3> QED BY <2>1, <3>1 DEF Side!Serve, Side!Reject, Side!Status, Status
  <2>3. CASE Head(toStuff).units \cap faulty = {}
    <3>1. Accept
      BY <1>1, <2>3 DEF CmdPrepare
    <3>2. Side!Take({"prepare", "operation"}) /\ Head(toStuff).cmd = "prepare"
      BY <2>1 DEF Side!Take
    <3> QED BY <3>1, <3>2 DEF Side!Serve, Side!Accept, Accept, Side!Status, Status
  <2> QED BY <2>2, <2>3
<1>2. CASE CmdOperation
  <2>1. Side!Take({"prepare", "operation"}) /\ Head(toStuff).cmd = "operation"
    BY <1>2 DEF CmdOperation, Take, Side!Take
  <2>2. Accept /\ inUse' = inUse
    BY <1>2 DEF CmdOperation
  <2> QED BY <2>1, <2>2 DEF Side!Serve, Side!Accept, Accept, Side!Status, Status
<1>3. CASE Deactivate
  <2>1. Side!Take({"deactivate"})
    BY <1>3 DEF Deactivate, Take, Side!Take
  <2>2. (inUse' # {}) = FALSE
    BY <1>3 DEF Deactivate, DeactivateAll
  <2>3. /\ stuffStatus' = "ready"
        /\ fromStuff' = IF stuffStatus = "active" \/ EchoIdle
                        THEN Append(fromStuff, Status("ready", FALSE)) ELSE fromStuff
    BY <1>3 DEF Deactivate
  <2> QED BY <2>1, <2>2, <2>3 DEF Side!Serve, Side!Deactivate, Side!Status, Status
<1> QED BY <1>1, <1>2, <1>3 DEF Serve

LEMMA ClientImplements ==
  ASSUME Client, IsQueue(toStuff)
  PROVE  Side!Client
<1>1. ASSUME NEW cmd, NEW units, Command(cmd, units)
      PROVE  /\ Len(toStuff') = Len(toStuff) + 1
             /\ SubSeq(toStuff', 1, Len(toStuff)) = toStuff
  BY <1>1, AppendQueue, AppendPrefix DEF Command
<1>2. UNCHANGED <<stuffStatus, inUse>>
  BY DEF Client, ClientPrepare, ClientOperation, ClientStop, ClientReceive, ClientStep
<1>3. CASE ClientPrepare \/ ClientOperation \/ ClientStop
  <2>1. fromStuff' = fromStuff /\ \E cmd, units : Command(cmd, units)
    BY <1>3 DEF ClientPrepare, ClientOperation, ClientStop, ClientStops
  <2> QED BY <1>1, <1>2, <2>1 DEF Side!Client
<1>4. CASE ClientReceive
  <2>1. /\ fromStuff # <<>> /\ fromStuff' = Tail(fromStuff)
        /\ toStuff' = toStuff \/ \E cmd, units : Command(cmd, units)
    BY <1>4 DEF ClientReceive, ClientStops
  <2> QED BY <1>1, <1>2, <2>1 DEF Side!Client
<1> QED BY <1>3, <1>4 DEF Client

LEMMA UnitImplements ==
  ASSUME NEW d \in Devices, UnitStatus(d) \/ Unit(d)
  PROVE  Side!Fail \/ UNCHANGED <<toStuff, fromStuff, stuffStatus, inUse>>
<1>1. CASE Unit(d)
  BY <1>1 DEF Unit, UnitStep, UnitRefuse, UnitOn, UnitOff, UnitZero, UnitTake,
              UnitStands, UnitFail, UnitRecover
<1>2. CASE UnitStatus(d) /\ TerminateExecution /\ d \in inUse
  BY <1>2 DEF UnitStatus, TerminateExecution, DeactivateAll, Side!Fail, Side!Status, Status
<1>3. CASE UnitStatus(d) /\ ~(TerminateExecution /\ d \in inUse)
  BY <1>3 DEF UnitStatus
<1> QED BY <1>1, <1>2, <1>3

THEOREM StuffCtlImplementsStuffSide == Spec => ImplementsStuffSide
<1>1. Init => Side!Init
  BY DEF Init, Side!Init, Status, Side!Status
<1>2. ASSUME ClientInv, [Next]_vars
      PROVE  [Side!Next]_<<toStuff, fromStuff, stuffStatus, inUse # {}>>
  <2>1. CASE Serve
    BY <2>1, ServeImplements DEF Side!Next
  <2>2. CASE Client
    BY <1>2, <2>2, ClientImplements DEF Side!Next, ClientInv
  <2>3. CASE \E d \in Devices : UnitStatus(d) \/ Unit(d)
    BY <2>3, UnitImplements DEF Side!Next
  <2>4. CASE UNCHANGED vars
    BY <2>4 DEF vars
  <2> QED BY <1>2, <2>1, <2>2, <2>3, <2>4 DEF Next
<1>3. ClientInv /\ [Next]_vars => [Side!Next]_(Side!sideVars)
  BY <1>2 DEF Side!sideVars
<1> QED
  BY <1>1, <1>3, ClientInvInit, ClientInvStep, PTL DEF Spec, ImplementsStuffSide, Side!Spec
=============================================================================
