------------------------ MODULE MultiAxisCtl_proofs ------------------------
(***************************************************************************)
(* The safety of multi_axis_ctl for any axes, tasks and bounds.             *)
(*                                                                         *)
(* WireTellsExecution holds whatever the client, the drives and the bus do; *)
(* it becomes inductive with one fact about the client: no task without     *)
(* axes is on its way (TasksHaveAxes); such a task would make the wire      *)
(* active and leave no axis to end it.                                     *)
(*                                                                         *)
(* The other properties need a client that waits for the end of its task    *)
(* and a drive that comes up later than its messages arrive.  FollowInv     *)
(* says what is under way between the node and each axis, PhasesInv adds    *)
(* the numbers of the phases.                                              *)
(***************************************************************************)
EXTENDS MultiAxisCtl, DataLemmas

Tasks == UNION {[axes -> Nat \ {0}] : axes \in (SUBSET Axes) \ {{}}}

Commands == [cmd : {"deactivate"}] \cup [cmd : {"activate"}, task : Tasks]

TasksHaveAxes == toCnc \in Seq(Commands)

WireInv == TasksHaveAxes /\ WireTellsExecution

-----------------------------------------------------------------------------
(* The queue keeps its type when it is served and when commands are added.  *)

LEMMA TaskHasAxes == ASSUME NEW t \in Tasks PROVE DOMAIN t # {}
<1>1. PICK axes \in (SUBSET Axes) \ {{}} : t \in [axes -> Nat \ {0}]
  BY DEF Tasks
<1>2. DOMAIN t = axes
  BY <1>1
<1> QED
  BY <1>2

LEMMA HeadIsTask ==
  ASSUME TasksHaveAxes, toCnc # <<>>, Head(toCnc).cmd = "activate"
  PROVE  Head(toCnc).task \in Tasks
<1>1. Head(toCnc) \in Commands
  BY DEF TasksHaveAxes
<1> QED
  BY <1>1 DEF Commands

LEMMA HeadTask ==
  ASSUME TasksHaveAxes, toCnc # <<>>, Head(toCnc).cmd = "activate"
  PROVE  DOMAIN Head(toCnc).task # {}
  BY HeadIsTask, TaskHasAxes

LEMMA TakeKeeps ==
  ASSUME TasksHaveAxes, NEW cmd, Take(cmd)
  PROVE  TasksHaveAxes'
  BY DEF TasksHaveAxes, Take

LEMMA StopKeeps ==
  ASSUME TasksHaveAxes, ClientStops
  PROVE  TasksHaveAxes'
<1>1. [cmd |-> "deactivate"] \in Commands
  BY DEF Commands
<1> QED
  BY <1>1 DEF TasksHaveAxes, ClientStops

LEMMA ClientKeeps ==
  ASSUME TasksHaveAxes, Client
  PROVE  TasksHaveAxes'
<1>1. CASE ClientActivate
  <2>0. PICK axes \in (SUBSET Axes) \ {{}} : \E task \in [axes -> 1 .. MaxPhases] :
          toCnc' = Append(toCnc, [cmd |-> "activate", task |-> task])
    BY <1>1 DEF ClientActivate
  <2>1. PICK task \in [axes -> 1 .. MaxPhases] :
          toCnc' = Append(toCnc, [cmd |-> "activate", task |-> task])
    BY <2>0
  <2>2. task \in [axes -> Nat \ {0}]
    OBVIOUS
  <2>3. task \in Tasks
    BY <2>2 DEF Tasks
  <2>4. [cmd |-> "activate", task |-> task] \in Commands
    BY <2>3 DEF Commands
  <2> QED
    BY <2>1, <2>4 DEF TasksHaveAxes
<1>2. CASE ClientStop
  BY <1>2, StopKeeps DEF ClientStop
<1>3. CASE ClientReceive
  <2>1. ClientStops \/ UNCHANGED toCnc
    BY <1>3 DEF ClientReceive
  <2> QED
    BY <2>1, StopKeeps DEF TasksHaveAxes
<1> QED
  BY <1>1, <1>2, <1>3 DEF Client

-----------------------------------------------------------------------------
(* What the parts of the handlers do to the wire and to in_proc_.          *)

LEMMA TerminateTells ==
  ASSUME NEW axes, axes # {}, TerminateExecution(axes), axisPhases' = axisPhases
  PROVE  WireTellsExecution'
<1>1. DOMAIN inProc' = axes /\ \A a \in axes : inProc'[a] = axisPhases'[a]
  BY DEF TerminateExecution
<1>2. cncWire' = "blocked"
  BY DEF TerminateExecution
<1> QED
  BY <1>1, <1>2 DEF WireTellsExecution, Executing

LEMMA ExecuteTells ==
  ASSUME WireTellsExecution, NEW a \in Executing, ExecutePhase(a),
         axisPhases' = axisPhases
  PROVE  WireTellsExecution'
<1>1. CASE inProc[a] = axisPhases[a]
  <2>1. inProc' = [b \in Executing \ {a} |-> inProc[b]]
    BY <1>1 DEF ExecutePhase, Dropped, Restrict
  <2>2. Executing' = Executing \ {a} /\ \A b \in Executing' : inProc'[b] = inProc[b]
    BY <2>1 DEF Executing
  <2>3. cncWire' = IF Executing = {a} THEN "ready" ELSE cncWire
    BY <1>1 DEF ExecutePhase
  <2> QED
    BY <2>2, <2>3 DEF WireTellsExecution
<1>2. CASE inProc[a] # axisPhases[a]
  <2>1. cncWire' = cncWire /\ Executing' = Executing
    BY <1>2 DEF ExecutePhase, Executing
  <2>2. cncWire # "blocked"
    BY <1>2 DEF WireTellsExecution
  <2> QED
    BY <2>1, <2>2 DEF WireTellsExecution
<1> QED
  BY <1>1, <1>2

LEMMA BrokeOffTells ==
  ASSUME NEW a \in Executing, AxisBrokeOff(a), axisPhases' = axisPhases
  PROVE  WireTellsExecution'
<1>1. CASE Executing = {a}
  <2>1. cncWire' = "ready" /\ inProc' = None
    BY <1>1 DEF AxisBrokeOff
  <2>2. Executing' = {}
    BY <2>1 DEF Executing, None
  <2> QED
    BY <2>1, <2>2 DEF WireTellsExecution
<1>2. CASE Executing # {a}
  <2>1. TerminateExecution(Executing \ {a})
    BY <1>2 DEF AxisBrokeOff
  <2> QED
    BY <1>2, <2>1, TerminateTells
<1> QED
  BY <1>1, <1>2

(* Steps of the client and of the axes leave the node alone.               *)
LEMMA OthersTell ==
  ASSUME WireTellsExecution, UNCHANGED nodeVars
  PROVE  WireTellsExecution'
  BY DEF WireTellsExecution, Executing, nodeVars

-----------------------------------------------------------------------------
LEMMA InitWire == Init => WireInv
<1> SUFFICES ASSUME Init PROVE WireInv
  OBVIOUS
<1>1. TasksHaveAxes
  BY DEF Init, TasksHaveAxes
<1>2. Executing = {} /\ cncWire = "ready"
  BY DEF Init, Executing, None
<1> QED
  BY <1>1, <1>2 DEF WireInv, WireTellsExecution

LEMMA NextWire == WireInv /\ [Next]_vars => WireInv'
<1> SUFFICES ASSUME WireInv, [Next]_vars PROVE WireInv'
  OBVIOUS
<1>0. TasksHaveAxes /\ WireTellsExecution
  BY DEF WireInv
<1>1. CASE Activate
  <2>1. Take("activate") /\ Executing' = DOMAIN Head(toCnc).task /\ cncWire' = "active"
    BY <1>1 DEF Activate, Executing
  <2>2. Executing' # {}
    BY <1>0, <2>1, HeadTask DEF Take
  <2>3. WireTellsExecution'
    BY <2>1, <2>2 DEF WireTellsExecution
  <2> QED
    BY <1>0, <2>1, <2>3, TakeKeeps DEF WireInv
<1>2. CASE Reject
  <2>1. Take("activate") /\ inProc' = None /\ cncWire' = "ready"
    BY <1>2 DEF Reject
  <2>2. Executing' = {}
    BY <2>1 DEF Executing, None
  <2>3. WireTellsExecution'
    BY <2>1, <2>2 DEF WireTellsExecution
  <2> QED
    BY <1>0, <2>1, <2>3, TakeKeeps DEF WireInv
<1>3. CASE Deactivate
  <2>1. Take("deactivate") /\ axisPhases' = axisPhases
    BY <1>3 DEF Deactivate
  <2>2. CASE Executing = {}
    <3>1. cncWire' = cncWire /\ inProc' = inProc
      BY <1>0, <1>3, <2>2 DEF Deactivate, WireTellsExecution
    <3> QED
      BY <1>0, <2>1, <3>1, TakeKeeps DEF WireInv, WireTellsExecution, Executing
  <2>3. CASE Executing # {}
    <3>1. TerminateExecution(Executing)
      BY <1>3, <2>3 DEF Deactivate
    <3> QED
      BY <1>0, <2>1, <2>3, <3>1, TerminateTells, TakeKeeps DEF WireInv
  <2> QED
    BY <2>2, <2>3
<1>4. CASE Refuse
  <2>1. PICK cmd \in {"activate", "deactivate"} : Take(cmd)
    BY <1>4 DEF Refuse
  <2>2. WireTellsExecution'
    BY <1>0, <1>4 DEF Refuse, WireTellsExecution, Executing
  <2> QED
    BY <1>0, <2>1, <2>2, TakeKeeps DEF WireInv
<1>5. CASE Client
  <2>1. UNCHANGED nodeVars
    BY <1>5 DEF Client, ClientActivate, ClientStop, ClientReceive, ClientStep
  <2> QED
    BY <1>0, <1>5, <2>1, ClientKeeps, OthersTell DEF WireInv
<1>6. ASSUME NEW a \in Axes, AxisStatus(a)
      PROVE  WireInv'
  <2>1. TasksHaveAxes' /\ axisPhases' = axisPhases
    BY <1>0, <1>6 DEF AxisStatus, TasksHaveAxes
  <2>2. CASE UNCHANGED <<cncWire, inProc>>
    BY <1>0, <2>1, <2>2 DEF WireInv, WireTellsExecution, Executing
  <2>3. CASE a \in Executing /\ ExecutePhase(a)
    BY <1>0, <2>1, <2>3, ExecuteTells DEF WireInv
  <2>4. CASE a \in Executing /\ AxisBrokeOff(a)
    BY <2>1, <2>4, BrokeOffTells DEF WireInv
  <2> QED
    BY <1>6, <2>2, <2>3, <2>4 DEF AxisStatus
<1>7. ASSUME NEW a \in Axes, Axis(a)
      PROVE  WireInv'
  <2>1. AxisStep
    BY <1>7 DEF Axis, AxisServes, AxisRefuse, AxisShift, AxisStop, AxisTake, AxisEnds,
                AxisHardStop, DriveFault, DriveUp, AxisOwn
  <2> QED
    BY <1>0, <2>1, OthersTell DEF AxisStep, WireInv, TasksHaveAxes
<1>8. CASE UNCHANGED vars
  BY <1>0, <1>8, OthersTell DEF vars, WireInv, TasksHaveAxes
<1> QED
  BY <1>1, <1>2, <1>3, <1>4, <1>5, <1>6, <1>7, <1>8 DEF Next, Serve

(***************************************************************************)
(* The wire of multi_axis_ctl always tells whether axes execute.           *)
(***************************************************************************)
THEOREM WireAlwaysTellsExecution == Spec => []WireTellsExecution
<1>1. WireInv => WireTellsExecution
  BY DEF WireInv
<1> QED
  BY <1>1, InitWire, NextWire, PTL DEF Spec

-----------------------------------------------------------------------------
(***************************************************************************)
(* The client that waits until its wire is at rest (PatientClient): a task  *)
(* on its way is the first command, and finds the node without axes in      *)
(* motion and all its answers read.                                        *)
(***************************************************************************)
TaskFindsRest ==
  \A i \in 1 .. Len(toCnc) : toCnc[i].cmd = "activate" =>
    i = 1 /\ cncWire = "ready" /\ fromCnc = <<>> /\ client \in {"started", "stopped"}

(* A client at rest leaves no task active, and a task that was answered     *)
(* with anything but "active" is over.                                     *)
RestIsRest ==
  /\ client = "idle" => cncWire # "active"
  /\ client = "stopped" => IF toCnc = <<>> THEN cncWire # "active"
                                           ELSE toCnc[Len(toCnc)].cmd = "deactivate"
  /\ \A i \in 1 .. Len(fromCnc) : fromCnc[i].status # "active" => cncWire # "active"

ClientInv ==
  /\ IsQueue(fromCnc)
  /\ cncWire \in Statuses
  /\ client \in {"idle", "started", "moves", "stopped"}
  /\ TaskFindsRest /\ RestIsRest

LEMMA CommandsAreQueue == TasksHaveAxes => IsQueue(toCnc)
  BY DEF TasksHaveAxes, IsQueue

(* A task is served only by a node at rest.                                *)
LEMMA TaskHead ==
  ASSUME TasksHaveAxes, ClientInv, Take("activate")
  PROVE  cncWire = "ready" /\ fromCnc = <<>> /\ client \in {"started", "stopped"}
<1>1. toCnc # <<>> /\ Head(toCnc).cmd = "activate" /\ IsQueue(toCnc)
  BY CommandsAreQueue DEF Take
<1>2. 1 \in 1 .. Len(toCnc) /\ Head(toCnc) = toCnc[1]
  BY <1>1, TailQueue
<1> QED
  BY <1>1, <1>2 DEF ClientInv, TaskFindsRest

(* When a command is served no task is left in the queue.                   *)
LEMMA TakeLeavesNoTask ==
  ASSUME TasksHaveAxes, TaskFindsRest, NEW cmd, Take(cmd)
  PROVE  \A i \in 1 .. Len(toCnc') : toCnc'[i].cmd # "activate"
<1>1. toCnc # <<>> /\ toCnc' = Tail(toCnc) /\ IsQueue(toCnc)
  BY CommandsAreQueue DEF Take
<1>2. /\ Len(toCnc) \in Nat /\ Len(toCnc') = Len(toCnc) - 1
      /\ \A i \in 1 .. Len(toCnc) - 1 : toCnc'[i] = toCnc[i + 1]
  BY <1>1, TailQueue
<1> QED
  BY <1>2 DEF TaskFindsRest

(* A stopped client's last command is the deactivation until it is served.  *)
LEMMA TakeKeepsLastStop ==
  ASSUME TasksHaveAxes, RestIsRest, NEW cmd, Take(cmd), client = "stopped"
  PROVE  /\ toCnc' = <<>> => cmd = "deactivate"
         /\ toCnc' # <<>> => toCnc'[Len(toCnc')].cmd = "deactivate"
<1>1. /\ toCnc # <<>> /\ toCnc' = Tail(toCnc) /\ IsQueue(toCnc)
      /\ Head(toCnc).cmd = cmd
  BY CommandsAreQueue DEF Take
<1>2. toCnc[Len(toCnc)].cmd = "deactivate"
  BY <1>1 DEF RestIsRest
<1> QED
  BY <1>1, <1>2, TailKeepsLast

(* A node that answers, and is not active afterwards, leaves all at rest.   *)
LEMMA ServedAtRest ==
  ASSUME TasksHaveAxes, ClientInv, NEW cmd, Take(cmd),
         IsQueue(fromCnc'), cncWire' \in {"ready", "blocked"}
  PROVE  ClientInv'
<1>1. client' = client
  BY DEF Take, clientVars
<1>2. TaskFindsRest'
  BY TakeLeavesNoTask DEF ClientInv, TaskFindsRest
<1>3. client = "stopped" /\ toCnc' # <<>> => toCnc'[Len(toCnc')].cmd = "deactivate"
  BY TakeKeepsLastStop DEF ClientInv
<1>4. RestIsRest'
  BY <1>1, <1>3 DEF RestIsRest
<1> QED
  BY <1>1, <1>2, <1>4 DEF ClientInv, Statuses

(* The node answers on its own when axes execute: no task is on its way.    *)
LEMMA AnsweredAtRest ==
  ASSUME ClientInv, cncWire # "ready", IsQueue(fromCnc'),
         cncWire' \in {"ready", "blocked"}, UNCHANGED <<toCnc, client>>
  PROVE  ClientInv'
<1>1. TaskFindsRest'
  BY DEF ClientInv, TaskFindsRest
<1>2. RestIsRest'
  BY DEF ClientInv, RestIsRest
<1> QED
  BY <1>1, <1>2 DEF ClientInv, Statuses

LEMMA UntouchedClient ==
  ASSUME ClientInv, UNCHANGED <<toCnc, fromCnc, cncWire, client>>
  PROVE  ClientInv'
  BY DEF ClientInv, TaskFindsRest, RestIsRest

LEMMA ClientActivateKeeps ==
  ASSUME PatientClient, TasksHaveAxes, ClientInv, ClientActivate
  PROVE  ClientInv'
<1>1. /\ client \in {"idle", "stopped"} /\ client' = "started"
      /\ toCnc = <<>> /\ fromCnc = <<>> /\ cncWire # "blocked"
      /\ UNCHANGED <<fromCnc, cncWire>>
  BY DEF ClientActivate, ClientStep, nodeVars
<1>2. PICK e : toCnc' = Append(toCnc, e)
  BY DEF ClientActivate
<1>3. cncWire = "ready"
  BY <1>1 DEF ClientInv, RestIsRest, Statuses
<1>4. Len(toCnc') = 1
  BY <1>1, <1>2, CommandsAreQueue, AppendQueue, EmptyQueue
<1>5. TaskFindsRest'
  BY <1>1, <1>3, <1>4 DEF TaskFindsRest
<1>6. RestIsRest'
  BY <1>1, <1>3 DEF RestIsRest
<1> QED
  BY <1>1, <1>5, <1>6 DEF ClientInv

(* A stop goes last, behind a task that may be on its way.                  *)
LEMMA ClientStopsKeeps ==
  ASSUME TasksHaveAxes, ClientInv, ClientStops, cncWire' = cncWire,
         fromCnc' = fromCnc \/ (fromCnc # <<>> /\ fromCnc' = Tail(fromCnc))
  PROVE  ClientInv'
<1> DEFINE e == [cmd |-> "deactivate"]
<1>1. IsQueue(toCnc) /\ IsQueue(fromCnc) /\ client' = "stopped" /\ toCnc' = Append(toCnc, e)
  BY CommandsAreQueue DEF ClientStops, ClientInv
<1>2. IsQueue(fromCnc') /\ (fromCnc = <<>> => fromCnc' = <<>>)
  BY <1>1, TailQueue
<1>3. \A i \in 1 .. Len(fromCnc') : fromCnc'[i].status # "active" => cncWire' # "active"
  <2>1. CASE fromCnc' = fromCnc
    BY <2>1 DEF ClientInv, RestIsRest
  <2>2. CASE fromCnc # <<>> /\ fromCnc' = Tail(fromCnc)
    BY <1>1, <2>2, TailQueue DEF ClientInv, RestIsRest
  <2> QED
    BY <2>1, <2>2
<1>4. /\ Len(toCnc) \in Nat /\ Len(toCnc') = Len(toCnc) + 1
      /\ toCnc'[Len(toCnc')] = e /\ toCnc' # <<>>
      /\ \A i \in 1 .. Len(toCnc) : toCnc'[i] = toCnc[i]
  BY <1>1, AppendQueue
<1>5. TaskFindsRest'
  BY <1>1, <1>2, <1>4 DEF TaskFindsRest, ClientInv
<1>6. RestIsRest'
  BY <1>1, <1>3, <1>4 DEF RestIsRest
<1> QED
  BY <1>1, <1>2, <1>5, <1>6 DEF ClientInv

LEMMA ClientReceiveKeeps ==
  ASSUME TasksHaveAxes, ClientInv, ClientReceive
  PROVE  ClientInv'
<1>1. fromCnc # <<>> /\ fromCnc' = Tail(fromCnc) /\ cncWire' = cncWire
  BY DEF ClientReceive, ClientStep, nodeVars
<1>2. CASE ClientStops
  BY <1>1, <1>2, ClientStopsKeeps
<1>3. CASE ~ClientStops
  <2>1. IsQueue(fromCnc')
    BY <1>1, TailQueue DEF ClientInv
  <2>2. \A i \in 1 .. Len(fromCnc') : fromCnc'[i].status # "active" => cncWire' # "active"
    BY <1>1, TailQueue DEF ClientInv, RestIsRest
  <2>3. \A i \in 1 .. Len(toCnc) : toCnc[i].cmd # "activate"
    BY <1>1 DEF ClientInv, TaskFindsRest
  <2>4. toCnc' = toCnc
    BY <1>3 DEF ClientReceive
  <2>5. \/ client' = client /\ client \in {"idle", "stopped"}
        \/ client' = "moves"
        \/ client' = "idle" /\ Head(fromCnc).status = "ready"
    BY <1>3 DEF ClientReceive
  <2>6. Head(fromCnc).status = "ready" => cncWire # "active"
    BY <1>1, TailQueue DEF ClientInv, RestIsRest
  <2>7. TaskFindsRest'
    BY <2>3, <2>4 DEF TaskFindsRest
  <2>8. RestIsRest'
    BY <1>1, <2>2, <2>4, <2>5, <2>6 DEF RestIsRest, ClientInv
  <2> QED
    BY <1>1, <2>1, <2>5, <2>7, <2>8 DEF ClientInv
<1> QED
  BY <1>2, <1>3

LEMMA ActivateKeepsClient ==
  ASSUME TasksHaveAxes, ClientInv, Activate
  PROVE  ClientInv'
<1>1. Take("activate") /\ cncWire' = "active"
  BY DEF Activate
<1>2. cncWire = "ready" /\ fromCnc = <<>> /\ client \in {"started", "stopped"}
  BY <1>1, TaskHead
<1>3. fromCnc' = Append(fromCnc, Status("active", FALSE)) /\ client' = client
  BY <1>1, <1>2 DEF Activate, Take, clientVars
<1>4. /\ IsQueue(fromCnc') /\ Len(fromCnc') = 1
      /\ fromCnc'[1] = Status("active", FALSE)
  <2>1. IsQueue(fromCnc)
    BY DEF ClientInv
  <2>2. Len(fromCnc) = 0
    BY <1>2
  <2>3. /\ IsQueue(Append(fromCnc, Status("active", FALSE)))
        /\ Len(Append(fromCnc, Status("active", FALSE))) = Len(fromCnc) + 1
        /\ Append(fromCnc, Status("active", FALSE))[Len(fromCnc) + 1] = Status("active", FALSE)
    BY <2>1, AppendQueue
  <2>4. IsQueue(fromCnc') /\ Len(fromCnc') = 1
    BY <1>3, <2>2, <2>3
  <2>5. fromCnc'[1] = Status("active", FALSE)
    BY <1>3, <2>2, <2>3
  <2> QED
    BY <2>4, <2>5
<1>5. TaskFindsRest'
  BY <1>1, TakeLeavesNoTask DEF TaskFindsRest, ClientInv
<1>6. client = "stopped" => toCnc' # <<>> /\ toCnc'[Len(toCnc')].cmd = "deactivate"
  BY <1>1, TakeKeepsLastStop DEF ClientInv
<1>7. \A i \in 1 .. Len(fromCnc') : fromCnc'[i].status = "active"
  BY <1>4 DEF Status
<1>8. RestIsRest'
  BY <1>2, <1>3, <1>6, <1>7 DEF RestIsRest
<1> QED
  BY <1>1, <1>2, <1>3, <1>4, <1>5, <1>8 DEF ClientInv, Statuses

(* An answer of the node is appended to the others.                        *)
LEMMA AxisStatusKeepsClient ==
  ASSUME WireTellsExecution, ClientInv, NEW a \in Axes, AxisStatus(a)
  PROVE  ClientInv'
<1>0. UNCHANGED <<toCnc, client>> /\ IsQueue(fromCnc)
  BY DEF AxisStatus, clientVars, ClientInv
<1>1. CASE UNCHANGED <<fromCnc, cncWire>>
  BY <1>0, <1>1, UntouchedClient
<1>2. CASE a \in Executing /\ ~UNCHANGED <<fromCnc, cncWire>>
  <2>1. cncWire # "ready"
    BY <1>2 DEF WireTellsExecution
  <2>2. cncWire' \in {"ready", "blocked"}
    BY <1>2 DEF AxisStatus, ExecutePhase, AxisBrokeOff, TerminateExecution
  <2>3. \E e, f : fromCnc' = Append(fromCnc, e) \/ fromCnc' = Append(Append(fromCnc, e), f)
    BY <1>2 DEF AxisStatus, ExecutePhase, AxisBrokeOff
  <2>4. IsQueue(fromCnc')
    BY <1>0, <2>3, AppendQueue
  <2> QED
    BY <1>0, <2>1, <2>2, <2>4, AnsweredAtRest
<1> QED
  BY <1>1, <1>2 DEF AxisStatus

LEMMA InitClient == Init => ClientInv
<1> SUFFICES ASSUME Init PROVE ClientInv
  OBVIOUS
<1>1. toCnc = <<>> /\ fromCnc = <<Status("ready", FALSE)>> /\ client = "idle" /\ cncWire = "ready"
  BY DEF Init
<1>2. IsQueue(fromCnc)
  <2>1. fromCnc \in Seq({Status("ready", FALSE)})
    BY <1>1
  <2> QED
    BY <2>1 DEF IsQueue
<1> QED
  BY <1>1, <1>2 DEF ClientInv, TaskFindsRest, RestIsRest, Statuses

LEMMA NextClient ==
  ASSUME PatientClient, WireInv, ClientInv, [Next]_vars
  PROVE  ClientInv'
<1>0. TasksHaveAxes /\ WireTellsExecution /\ IsQueue(fromCnc)
  BY DEF WireInv, ClientInv
<1>1. CASE Activate
  BY <1>0, <1>1, ActivateKeepsClient
<1>2. CASE Reject
  <2>1. Take("activate") /\ cncWire' = "ready" /\ IsQueue(fromCnc')
    BY <1>0, <1>2, AppendQueue DEF Reject
  <2> QED
    BY <1>0, <2>1, ServedAtRest
<1>3. CASE Deactivate
  <2>1. Take("deactivate") /\ cncWire' \in {"ready", "blocked"}
    BY <1>0, <1>3 DEF Deactivate, WireTellsExecution, TerminateExecution
  <2>2. \E e : fromCnc' \in {fromCnc, Append(fromCnc, e)}
    BY <1>3 DEF Deactivate
  <2>3. IsQueue(fromCnc')
    BY <1>0, <2>2, AppendQueue
  <2> QED
    BY <1>0, <2>1, <2>3, ServedAtRest
<1>4. CASE Refuse
  <2>1. PICK cmd \in {"activate", "deactivate"} : Take(cmd)
    BY <1>4 DEF Refuse
  <2>2. cncWire' = "blocked" /\ fromCnc' = fromCnc
    BY <1>4 DEF Refuse
  <2> QED
    BY <1>0, <2>1, <2>2, ServedAtRest
<1>5. CASE ClientActivate
  BY <1>0, <1>5, ClientActivateKeeps
<1>6. CASE ClientStop
  <2>1. ClientStops /\ UNCHANGED <<fromCnc, cncWire>>
    BY <1>6 DEF ClientStop, ClientStep, nodeVars
  <2> QED
    BY <1>0, <2>1, ClientStopsKeeps
<1>7. CASE ClientReceive
  BY <1>0, <1>7, ClientReceiveKeeps
<1>8. ASSUME NEW a \in Axes, AxisStatus(a)
      PROVE  ClientInv'
  BY <1>0, <1>8, AxisStatusKeepsClient
<1>9. ASSUME NEW a \in Axes, Axis(a)
      PROVE  ClientInv'
  <2>1. AxisStep
    BY <1>9 DEF Axis, AxisServes, AxisRefuse, AxisShift, AxisStop, AxisTake, AxisEnds,
                AxisHardStop, DriveFault, DriveUp, AxisOwn
  <2> QED
    BY <2>1, UntouchedClient DEF AxisStep, nodeVars, clientVars
<1>10. CASE UNCHANGED vars
  BY <1>10, UntouchedClient DEF vars, nodeVars, clientVars
<1> QED
  BY <1>1, <1>2, <1>3, <1>4, <1>5, <1>6, <1>7, <1>8, <1>9, <1>10 DEF Next, Serve, Client

-----------------------------------------------------------------------------
(***************************************************************************)
(* No axis moves on behind the node's back.  The inductive part: an axis    *)
(* that is not blocked owes the node at most one thing.  The phase it was   *)
(* sent is on its way, or executed, or its end is on its way back; besides, *)
(* only stops and the answer "active" travel.  The end is what makes the    *)
(* node forget the axis or send the next phase, so an axis the node does    *)
(* not follow has nothing to execute.                                      *)
(***************************************************************************)
Active == Status("active", FALSE)

OnlyStops(a) == AllAre(toAxis[a], Stop)

Unanswered(a) == AllAre(fromAxis[a], Active)

OneOrder(a) ==
  /\ OneOther(toAxis[a], Stop) /\ OneOther(fromAxis[a], Active)
  /\ OnlyStops(a) \/ Unanswered(a)
  /\ at[a] # 0 => OnlyStops(a) /\ Unanswered(a)

(* An axis the node does not follow stands; if it takes commands none is on *)
(* its way but stops, and the node sees it ready only when it has no end to *)
(* report: a task would take that for the end of its first phase.           *)
NotFollowed(a) ==
  /\ at[a] = 0
  /\ axisWire[a] # "blocked" => OnlyStops(a) /\ (seen[a] = "ready" => Unanswered(a))

(* A drive that failed is known, or will be.                               *)
FaultIsTold(a) ==
  IF fromAxis[a] = <<>> THEN seen[a] = "blocked"
                        ELSE fromAxis[a][Len(fromAxis[a])].status = "blocked"

(* The axis will not move again, or stops, or will be stopped.              *)
Stopped(a) ==
  \/ at[a] = 0 /\ (toAxis[a] = <<>> \/ axisWire[a] = "blocked")
  \/ a \in halting
  \/ StopSent(a)

AxisInv(a) ==
  /\ at[a] # 0 => axisWire[a] = "active"
  /\ axisWire[a] # "blocked" => OneOrder(a)
  /\ a \notin Executing => NotFollowed(a)
  /\ axisWire[a] = "blocked" => FaultIsTold(a)
  /\ cncWire = "blocked" /\ a \in Executing => Stopped(a)

Wires ==
  /\ DOMAIN toAxis = Axes /\ DOMAIN fromAxis = Axes
  /\ DOMAIN at = Axes /\ DOMAIN axisWire = Axes /\ DOMAIN seen = Axes
  /\ \A a \in Axes : IsQueue(toAxis[a]) /\ IsQueue(fromAxis[a])

(* What steps of others leave of an axis.                                  *)
SameAxis(a) ==
  /\ at'[a] = at[a] /\ axisWire'[a] = axisWire[a]
  /\ fromAxis'[a] = fromAxis[a] /\ seen'[a] = seen[a]
  /\ a \in halting' <=> a \in halting

LEMMA Untouched ==
  ASSUME NEW a \in Axes, AxisInv(a), SameAxis(a), toAxis'[a] = toAxis[a],
         a \in Executing' <=> a \in Executing,
         cncWire' = "blocked" /\ a \in Executing => cncWire = "blocked"
  PROVE  AxisInv(a)'
<1>1. OneOrder(a) => OneOrder(a)'
  BY DEF SameAxis, OneOrder, OnlyStops, Unanswered
<1>2. NotFollowed(a) => NotFollowed(a)'
  BY DEF SameAxis, NotFollowed, OnlyStops, Unanswered
<1>3. FaultIsTold(a) => FaultIsTold(a)'
  BY DEF SameAxis, FaultIsTold
<1>4. Stopped(a) => Stopped(a)'
  BY DEF SameAxis, Stopped, StopSent
<1> QED
  BY <1>1, <1>2, <1>3, <1>4 DEF AxisInv, SameAxis

LEMMA ToldToStop ==
  ASSUME NEW a \in Axes, Wires, AxisInv(a), SameAxis(a),
         toAxis'[a] = Append(toAxis[a], Stop),
         a \in Executing' <=> a \in Executing
  PROVE  AxisInv(a)'
<1>0. IsQueue(toAxis[a])
  BY DEF Wires
<1>1. OnlyStops(a) => OnlyStops(a)'
  BY <1>0, AppendToAll DEF OnlyStops
<1>2. OneOther(toAxis[a], Stop) => OneOther(toAxis'[a], Stop)
  BY <1>0, AppendToAll
<1>3. OneOrder(a) => OneOrder(a)'
  BY <1>1, <1>2 DEF SameAxis, OneOrder, Unanswered
<1>4. NotFollowed(a) => NotFollowed(a)'
  BY <1>1 DEF SameAxis, NotFollowed, Unanswered
<1>5. FaultIsTold(a) => FaultIsTold(a)'
  BY DEF SameAxis, FaultIsTold
<1>6. StopSent(a)'
  BY <1>0, AppendQueue DEF StopSent
<1> QED
  BY <1>3, <1>4, <1>5, <1>6 DEF AxisInv, SameAxis, Stopped

(* A phase is sent to an axis that owes nothing, or takes nothing.          *)
LEMMA GivenPhase ==
  ASSUME NEW a \in Axes, Wires, NEW p, toAxis'[a] = Append(toAxis[a], Shift(p)),
         at'[a] = 0, a \in Executing', cncWire' # "blocked",
         axisWire'[a] # "blocked" => OnlyStops(a) /\ Unanswered(a)',
         axisWire'[a] = "blocked" => FaultIsTold(a)'
  PROVE  AxisInv(a)'
<1>1. ASSUME axisWire'[a] # "blocked" PROVE OneOrder(a)'
  <2>1. OneOther(toAxis'[a], Stop)
    BY <1>1, AppendToAll DEF Wires, OnlyStops
  <2>2. OneOther(fromAxis'[a], Active)
    BY <1>1, NoneOther DEF Unanswered
  <2> QED
    BY <1>1, <2>1, <2>2 DEF OneOrder
<1> QED
  BY <1>1 DEF AxisInv

(* The node takes a status of axis a.                                      *)
Heard(a) ==
  /\ fromAxis[a] # <<>> /\ fromAxis'[a] = Tail(fromAxis[a])
  /\ seen'[a] = Head(fromAxis[a]).status
  /\ at'[a] = at[a] /\ axisWire'[a] = axisWire[a]
  /\ a \in halting' <=> a \in halting

(* Anything but "active" was the one end it owed; a failure stays known.    *)
LEMMA HeardEnd ==
  ASSUME NEW a \in Axes, Wires, AxisInv(a), Heard(a)
  PROVE  /\ axisWire[a] = "blocked" => FaultIsTold(a)'
         /\ Unanswered(a) => Unanswered(a)'
         /\ OneOther(fromAxis[a], Active) => OneOther(fromAxis'[a], Active)
         /\ Head(fromAxis[a]).status # "active" =>
              /\ at[a] = 0
              /\ axisWire[a] # "blocked" => OnlyStops(a) /\ Unanswered(a)'
<1>0. IsQueue(fromAxis[a]) /\ fromAxis[a] # <<>> /\ fromAxis'[a] = Tail(fromAxis[a])
  BY DEF Wires, Heard
<1>1. ASSUME axisWire[a] = "blocked" PROVE FaultIsTold(a)'
  <2>1. fromAxis[a][Len(fromAxis[a])].status = "blocked"
    BY <1>0, <1>1 DEF AxisInv, FaultIsTold
  <2> QED
    BY <1>0, <2>1, TailKeepsLast DEF FaultIsTold, Heard
<1>2. Unanswered(a) => Unanswered(a)'
  BY <1>0, TailOfAll DEF Unanswered
<1>3. OneOther(fromAxis[a], Active) => OneOther(fromAxis'[a], Active)
  BY <1>0, TailOfAll
<1>4. ASSUME Head(fromAxis[a]).status # "active"
      PROVE  /\ at[a] = 0
             /\ axisWire[a] # "blocked" => OnlyStops(a) /\ Unanswered(a)'
  <2>1. Head(fromAxis[a]) # Active
    BY <1>4 DEF Active, Status
  <2>2. ~Unanswered(a)
    BY <1>0, <2>1, TailOfAll DEF Unanswered
  <2>3. OneOther(fromAxis[a], Active) => Unanswered(a)'
    BY <1>0, <2>1, TailOfAll DEF Unanswered
  <2> QED
    BY <2>2, <2>3 DEF AxisInv, OneOrder
<1> QED
  BY <1>1, <1>2, <1>3, <1>4

(* A status that the node only notes.                                      *)
LEMMA HeardOnly ==
  ASSUME NEW a \in Axes, Wires, AxisInv(a), Heard(a), toAxis'[a] = toAxis[a],
         a \in Executing' <=> a \in Executing, cncWire' = cncWire,
         a \notin Executing \/ Head(fromAxis[a]).status = "active"
  PROVE  AxisInv(a)'
<1>1. OneOrder(a) => OneOrder(a)'
  BY HeardEnd DEF OneOrder, OnlyStops, Heard
<1>2. ASSUME a \notin Executing PROVE NotFollowed(a)'
  <2>1. NotFollowed(a)
    BY <1>2 DEF AxisInv
  <2>2. OnlyStops(a) => OnlyStops(a)'
    BY DEF OnlyStops
  <2>3. axisWire[a] # "blocked" /\ seen'[a] = "ready" => Unanswered(a)'
    BY HeardEnd DEF Heard
  <2> QED
    BY <2>1, <2>2, <2>3 DEF NotFollowed, Heard
<1>3. axisWire[a] = "blocked" => FaultIsTold(a)'
  BY HeardEnd
<1>4. Stopped(a) => Stopped(a)'
  BY DEF Stopped, StopSent, Heard
<1> QED
  BY <1>1, <1>2, <1>3, <1>4 DEF AxisInv, Heard

(* The end on which the node forgets the axis.                             *)
LEMMA HeardForgets ==
  ASSUME NEW a \in Axes, Wires, AxisInv(a), Heard(a), toAxis'[a] = toAxis[a],
         a \notin Executing', Head(fromAxis[a]).status # "active"
  PROVE  AxisInv(a)'
<1>1. /\ at'[a] = 0
      /\ axisWire'[a] # "blocked" => OnlyStops(a)' /\ Unanswered(a)'
      /\ axisWire'[a] = "blocked" => FaultIsTold(a)'
  BY HeardEnd DEF Heard, OnlyStops
<1>2. axisWire'[a] # "blocked" => OneOrder(a)'
  BY <1>1, NoneOther DEF OneOrder, OnlyStops, Unanswered
<1>3. NotFollowed(a)'
  BY <1>1 DEF NotFollowed
<1> QED
  BY <1>1, <1>2, <1>3 DEF AxisInv

(* terminate_execution, for an axis that is told and for one that is not.   *)
LEMMA TerminateKeeps ==
  ASSUME NEW axes, TerminateExecution(axes), Wires,
         NEW b \in Axes, AxisInv(b), SameAxis(b), b \in axes <=> b \in Executing
  PROVE  AxisInv(b)'
<1>1. Executing' = axes
  BY DEF TerminateExecution, Executing
<1>2. CASE b \in axes
  <2>1. toAxis'[b] = Append(toAxis[b], Stop)
    BY <1>2 DEF TerminateExecution
  <2> QED
    BY <1>1, <2>1, ToldToStop
<1>3. CASE b \notin axes
  <2>1. toAxis'[b] = toAxis[b]
    BY <1>3 DEF TerminateExecution
  <2> QED
    BY <1>1, <1>3, <2>1, Untouched
<1> QED
  BY <1>2, <1>3

LEMMA ExecutePhaseKeeps ==
  ASSUME Wires, WireTellsExecution, NEW a \in Axes, a \in Executing, ExecutePhase(a),
         AxisInv(a), Heard(a), Head(fromAxis[a]).status # "active",
         NEW b \in Axes, AxisInv(b), b # a => SameAxis(b)
  PROVE  AxisInv(b)'
<1>1. CASE inProc[a] = axisPhases[a]
  <2>1. inProc' = [x \in Executing \ {a} |-> inProc[x]]
    BY <1>1 DEF ExecutePhase, Dropped, Restrict
  <2>2. Executing' = Executing \ {a}
    BY <2>1 DEF Executing
  <2>3. toAxis' = toAxis /\ cncWire' \in {cncWire, "ready"}
    BY <1>1 DEF ExecutePhase
  <2>4. CASE b = a
    BY <2>2, <2>3, <2>4, HeardForgets
  <2>5. CASE b # a
    BY <2>2, <2>3, <2>5, Untouched
  <2> QED
    BY <2>4, <2>5
<1>2. CASE inProc[a] # axisPhases[a]
  <2>1. /\ Executing' = Executing /\ cncWire' = cncWire
        /\ toAxis' = [toAxis EXCEPT ![a] = Append(@, Shift(inProc[a] + 1))]
    BY <1>2 DEF ExecutePhase, Executing
  <2>2. CASE b = a
    <3>1. toAxis'[a] = Append(toAxis[a], Shift(inProc[a] + 1))
      BY <2>1 DEF Wires
    <3>2. cncWire # "blocked"
      BY <1>2 DEF WireTellsExecution
    <3>3. /\ at'[a] = 0
          /\ axisWire'[a] # "blocked" => OnlyStops(a) /\ Unanswered(a)'
          /\ axisWire'[a] = "blocked" => FaultIsTold(a)'
      BY HeardEnd DEF Heard
    <3> QED
      BY <2>1, <2>2, <3>1, <3>2, <3>3, GivenPhase
  <2>3. CASE b # a
    <3>1. toAxis'[b] = toAxis[b]
      BY <2>1, <2>3 DEF Wires
    <3> QED
      BY <2>1, <2>3, <3>1, Untouched
  <2> QED
    BY <2>2, <2>3
<1> QED
  BY <1>1, <1>2

LEMMA BrokeOffKeeps ==
  ASSUME Wires, NEW a \in Axes, a \in Executing, AxisBrokeOff(a),
         AxisInv(a), Heard(a), Head(fromAxis[a]).status # "active",
         NEW b \in Axes, AxisInv(b), b # a => SameAxis(b)
  PROVE  AxisInv(b)'
<1>1. CASE Executing = {a}
  <2>1. inProc' = None /\ toAxis' = toAxis /\ cncWire' = "ready"
    BY <1>1 DEF AxisBrokeOff
  <2>2. Executing' = {}
    BY <2>1 DEF Executing, None
  <2>3. CASE b = a
    BY <2>1, <2>2, <2>3, HeardForgets
  <2>4. CASE b # a
    BY <1>1, <2>1, <2>2, <2>4, Untouched
  <2> QED
    BY <2>3, <2>4
<1>2. CASE Executing # {a}
  <2>1. TerminateExecution(Executing \ {a})
    BY <1>2 DEF AxisBrokeOff
  <2>2. CASE b = a
    <3>1. toAxis'[a] = toAxis[a] /\ Executing' = Executing \ {a}
      BY <2>1 DEF TerminateExecution, Executing
    <3> QED
      BY <2>2, <3>1, HeardForgets
  <2>3. CASE b # a
    BY <2>1, <2>3, TerminateKeeps
  <2> QED
    BY <2>2, <2>3
<1> QED
  BY <1>1, <1>2

LEMMA AxisStatusKeeps ==
  ASSUME Wires, WireTellsExecution, NEW a \in Axes, AxisStatus(a), AxisInv(a),
         NEW b \in Axes, AxisInv(b)
  PROVE  AxisInv(b)'
<1>1. Heard(a) /\ (b # a => SameAxis(b))
  BY DEF AxisStatus, Wires, Heard, SameAxis
<1>2. CASE a \notin Executing \/ Head(fromAxis[a]).status = "active"
  <2>1. UNCHANGED <<cncWire, inProc, toAxis>>
    BY <1>2 DEF AxisStatus
  <2>2. Executing' = Executing
    BY <2>1 DEF Executing
  <2>3. CASE b = a
    BY <1>1, <1>2, <2>1, <2>2, <2>3, HeardOnly
  <2>4. CASE b # a
    BY <1>1, <2>1, <2>2, <2>4, Untouched
  <2> QED
    BY <2>3, <2>4
<1>3. CASE a \in Executing /\ Head(fromAxis[a]).status # "active"
  <2>1. ExecutePhase(a) \/ AxisBrokeOff(a)
    BY <1>3 DEF AxisStatus
  <2> QED
    BY <1>1, <1>3, <2>1, ExecutePhaseKeeps, BrokeOffKeeps
<1> QED
  BY <1>2, <1>3

(* The handlers of the client's commands leave the axes themselves alone.   *)
LEMMA TakeSameAxis ==
  ASSUME NEW cmd, Take(cmd), NEW b \in Axes
  PROVE  SameAxis(b)
  BY DEF Take, axisVars, SameAxis

LEMMA ActivateKeeps ==
  ASSUME WireInv, ClientInv, Wires, Activate, NEW b \in Axes, AxisInv(b)
  PROVE  AxisInv(b)'
<1>1. Take("activate") /\ cncWire' = "active" /\ Executing' = DOMAIN axisPhases'
  BY DEF Activate, Executing
<1>2. SameAxis(b)
  BY <1>1, TakeSameAxis
<1>3. Executing = {}
  BY <1>1, TaskHead DEF WireInv, WireTellsExecution
<1>4. NotFollowed(b)
  BY <1>3 DEF AxisInv
<1>5. CASE b \in DOMAIN axisPhases'
  <2>1. toAxis'[b] = Append(toAxis[b], Shift(1)) /\ seen[b] = "ready"
    BY <1>5 DEF Activate
  <2>2. axisWire'[b] = "blocked" => FaultIsTold(b)'
    BY <1>2 DEF AxisInv, FaultIsTold, SameAxis
  <2>3. /\ at'[b] = 0
        /\ axisWire'[b] # "blocked" => OnlyStops(b) /\ Unanswered(b)'
    BY <1>2, <1>4, <2>1 DEF NotFollowed, SameAxis, Unanswered
  <2> QED
    BY <1>1, <1>5, <2>1, <2>2, <2>3, GivenPhase
<1>6. CASE b \notin DOMAIN axisPhases'
  <2>1. toAxis'[b] = toAxis[b]
    BY <1>6 DEF Activate
  <2> QED
    BY <1>1, <1>2, <1>3, <1>6, <2>1, Untouched
<1> QED
  BY <1>5, <1>6

LEMMA ServeKeeps ==
  ASSUME WireInv, ClientInv, Wires, Serve, NEW b \in Axes, AxisInv(b)
  PROVE  AxisInv(b)'
<1>1. CASE Activate
  BY <1>1, ActivateKeeps
<1>2. CASE Reject
  <2>1. Take("activate") /\ inProc' = None /\ toAxis' = toAxis /\ cncWire' = "ready"
    BY <1>2 DEF Reject
  <2>2. Executing = {} /\ Executing' = {}
    BY <2>1, TaskHead DEF WireInv, WireTellsExecution, Executing, None
  <2> QED
    BY <2>1, <2>2, TakeSameAxis, Untouched
<1>3. CASE Deactivate
  <2>1. Take("deactivate")
    BY <1>3 DEF Deactivate
  <2>2. CASE Executing = {}
    <3>1. UNCHANGED <<inProc, toAxis>> /\ cncWire' \in {cncWire, "ready"}
      BY <1>3, <2>2 DEF Deactivate
    <3> QED
      BY <2>1, <3>1, TakeSameAxis, Untouched DEF Executing
  <2>3. CASE Executing # {}
    <3>1. TerminateExecution(Executing)
      BY <1>3, <2>3 DEF Deactivate
    <3> QED
      BY <2>1, <3>1, TakeSameAxis, TerminateKeeps
  <2> QED
    BY <2>2, <2>3
<1>4. CASE Refuse
  <2>1. PICK cmd : Take(cmd)
    BY <1>4 DEF Refuse
  <2>2. UNCHANGED <<cncWire, inProc, toAxis>>
    BY <1>4 DEF Refuse
  <2> QED
    BY <2>1, <2>2, TakeSameAxis, Untouched DEF Executing
<1> QED
  BY <1>1, <1>2, <1>3, <1>4 DEF Serve

-----------------------------------------------------------------------------
(* The axes: a step of axis a leaves the others and the node alone.         *)
LEMMA AxisLocal ==
  ASSUME Wires, NEW a \in Axes, Axis(a)
  PROVE  /\ UNCHANGED <<cncWire, inProc, seen>>
         /\ \A b \in Axes \ {a} : SameAxis(b) /\ toAxis'[b] = toAxis[b]
<1>1. AxisStep /\ UNCHANGED seen
  BY DEF Axis, AxisServes, AxisRefuse, AxisShift, AxisStop, AxisTake, AxisEnds,
         AxisHardStop, DriveFault, DriveUp, AxisOwn, AxisStep, nodeVars
<1>2. \A b \in Axes \ {a} : toAxis'[b] = toAxis[b]
  BY DEF Axis, AxisServes, AxisRefuse, AxisShift, AxisStop, AxisTake, AxisEnds,
         AxisHardStop, DriveFault, DriveUp, AxisOwn, Wires
<1>3. \A b \in Axes \ {a} : at'[b] = at[b] /\ (b \in halting' <=> b \in halting)
  BY DEF Axis, AxisServes, AxisRefuse, AxisShift, AxisStop, AxisTake, AxisEnds,
         AxisHardStop, DriveFault, DriveUp, AxisOwn, Wires
<1>4. \A b \in Axes \ {a} : axisWire'[b] = axisWire[b] /\ fromAxis'[b] = fromAxis[b]
  <2>1. \A m : Report(a, m) =>
          \A b \in Axes \ {a} : axisWire'[b] = axisWire[b] /\ fromAxis'[b] = fromAxis[b]
    BY DEF Report, Wires
  <2> QED
    BY <2>1 DEF Axis, AxisServes, AxisRefuse, AxisShift, AxisStop, AxisTake, AxisEnds,
         AxisHardStop, DriveFault, DriveUp, Wires
<1> QED
  BY <1>1, <1>2, <1>3, <1>4 DEF AxisStep, nodeVars, SameAxis

(* What an axis reports of itself.                                         *)
LEMMA Reported ==
  ASSUME Wires, NEW a \in Axes, NEW m, Report(a, m)
  PROVE  /\ axisWire'[a] = m.status
         /\ fromAxis'[a] = IF axisWire[a] = m.status /\ ~m.err THEN fromAxis[a]
                           ELSE Append(fromAxis[a], m)
  BY DEF Report, Wires

LEMMA ReportedActive ==
  ASSUME Wires, NEW a \in Axes, Report(a, Active)
  PROVE  /\ axisWire'[a] = "active"
         /\ Unanswered(a) => Unanswered(a)'
         /\ OneOther(fromAxis[a], Active) => OneOther(fromAxis'[a], Active)
<1>0. Active.status = "active" /\ ~Active.err
  BY DEF Active, Status
<1>1. axisWire'[a] = "active" /\ fromAxis'[a] \in {fromAxis[a], Append(fromAxis[a], Active)}
  BY <1>0, Reported
<1>2. IsQueue(fromAxis[a])
  BY DEF Wires
<1> QED
  BY <1>1, <1>2, AppendToAll DEF Unanswered

(* A command is taken off the queue of the axis.                            *)
LEMMA Taken ==
  ASSUME Wires, NEW a \in Axes, NEW cmd, AxisTake(a, cmd)
  PROVE  /\ toAxis[a] # <<>> /\ Head(toAxis[a]).cmd = cmd /\ IsQueue(toAxis[a])
         /\ toAxis'[a] = Tail(toAxis[a])
         /\ OnlyStops(a) => Head(toAxis[a]) = Stop /\ OnlyStops(a)'
         /\ OneOther(toAxis[a], Stop) => OneOther(toAxis'[a], Stop)
         /\ OneOther(toAxis[a], Stop) /\ cmd = "timed-shift" => OnlyStops(a)' /\ ~OnlyStops(a)
         /\ StopSent(a) => (toAxis'[a] = <<>> /\ Head(toAxis[a]) = Stop) \/ StopSent(a)'
<1>1. toAxis[a] # <<>> /\ Head(toAxis[a]).cmd = cmd /\ IsQueue(toAxis[a])
  BY DEF AxisTake, Wires
<1>2. toAxis'[a] = Tail(toAxis[a])
  BY DEF AxisTake, Wires
<1>3. cmd = "timed-shift" => Head(toAxis[a]) # Stop
  BY <1>1 DEF Stop
<1>4. StopSent(a) => (toAxis'[a] = <<>> /\ Head(toAxis[a]) = Stop) \/ StopSent(a)'
  BY <1>1, <1>2, TailKeepsLast DEF StopSent
<1> QED
  BY <1>1, <1>2, <1>3, <1>4, TailOfAll DEF OnlyStops

(* A queue of stops is empty or ends in one.                               *)
LEMMA StopsStop ==
  ASSUME NEW a \in Axes, IsQueue(toAxis[a]), OnlyStops(a)
  PROVE  toAxis[a] = <<>> \/ StopSent(a)
<1>1. CASE toAxis[a] # <<>>
  <2>1. Len(toAxis[a]) \in 1 .. Len(toAxis[a])
    BY <1>1, EmptyQueue
  <2> QED
    BY <1>1, <2>1 DEF OnlyStops, AllAre, StopSent
<1> QED
  BY <1>1

LEMMA AxisShiftKeeps ==
  ASSUME Wires, NEW a \in Axes, AxisShift(a), AxisInv(a), cncWire' = cncWire,
         a \in Executing' <=> a \in Executing
  PROVE  AxisInv(a)'
<1>1. AxisTake(a, "timed-shift") /\ axisWire[a] # "blocked" /\ OneOrder(a)
  BY DEF AxisShift, AxisInv
<1>2. ~OnlyStops(a) /\ OnlyStops(a)'
  BY <1>1, Taken DEF OneOrder
<1>3. at[a] = 0 /\ Unanswered(a) /\ a \in Executing
  BY <1>1, <1>2 DEF OneOrder, AxisInv, NotFollowed
<1>4. Report(a, Active) /\ halting' = halting
  BY <1>3 DEF AxisShift, Active
<1>5. axisWire'[a] = "active" /\ Unanswered(a)'
  BY <1>3, <1>4, ReportedActive
<1>6. OneOrder(a)'
  BY <1>2, <1>5, NoneOther DEF OneOrder, OnlyStops, Unanswered
<1>7. ASSUME cncWire = "blocked" PROVE Stopped(a)'
  <2>1. a \in halting \/ StopSent(a)
    BY <1>1, <1>3, <1>7, Taken DEF AxisInv, Stopped
  <2>2. Head(toAxis[a]) # Stop
    BY <1>1, Taken DEF Stop
  <2>3. StopSent(a) => StopSent(a)'
    BY <1>1, <2>2, Taken
  <2> QED
    BY <1>4, <2>1, <2>3 DEF Stopped
<1> QED
  BY <1>3, <1>5, <1>6, <1>7 DEF AxisInv

LEMMA AxisStopKeeps ==
  ASSUME Wires, NEW a \in Axes, AxisStop(a), AxisInv(a), cncWire' = cncWire,
         seen' = seen, a \in Executing' <=> a \in Executing
  PROVE  AxisInv(a)'
<1>1. /\ AxisTake(a, "stop") /\ axisWire[a] # "blocked" /\ at' = at /\ Report(a, Active)
      /\ halting' = IF at[a] = 0 THEN halting ELSE halting \cup {a}
  BY DEF AxisStop, Active
<1>2. axisWire'[a] = "active"
  BY <1>1, ReportedActive
<1>3. OneOrder(a)'
  BY <1>1, Taken, ReportedActive DEF AxisInv, OneOrder
<1>4. NotFollowed(a) => NotFollowed(a)'
  BY <1>1, Taken, ReportedActive DEF NotFollowed
<1>5. Stopped(a) => Stopped(a)'
  BY <1>1, Taken DEF Stopped
<1> QED
  BY <1>1, <1>2, <1>3, <1>4, <1>5 DEF AxisInv

(* The end of a phase, complete or not, is the one answer.                  *)
LEMMA EndKeeps ==
  ASSUME Wires, NEW a \in Axes, AxisInv(a), at[a] # 0, at'[a] = 0, toAxis' = toAxis,
         NEW err \in BOOLEAN, Report(a, Status("ready", err)),
         cncWire' = cncWire, a \in Executing' <=> a \in Executing
  PROVE  AxisInv(a)'
<1>1. axisWire[a] = "active" /\ OnlyStops(a) /\ Unanswered(a) /\ a \in Executing
  BY DEF AxisInv, OneOrder, NotFollowed
<1>2. Status("ready", err).status = "ready"
  BY DEF Status
<1>3. /\ axisWire'[a] = "ready"
      /\ fromAxis'[a] = Append(fromAxis[a], Status("ready", err))
  BY <1>1, <1>2, Reported
<1>4. OneOther(fromAxis'[a], Active)
  BY <1>1, <1>3, AppendToAll DEF Wires, Unanswered
<1>5. OnlyStops(a)'
  BY <1>1 DEF OnlyStops
<1>6. OneOrder(a)'
  BY <1>4, <1>5, NoneOther DEF OneOrder, OnlyStops
<1>7. toAxis'[a] = <<>> \/ StopSent(a)'
  BY <1>1, StopsStop DEF Wires, StopSent
<1> QED
  BY <1>1, <1>3, <1>6, <1>7 DEF AxisInv, Stopped

LEMMA DriveFaultKeeps ==
  ASSUME Wires, NEW a \in Axes, DriveFault(a), cncWire' = cncWire
  PROVE  AxisInv(a)'
<1> DEFINE m == Status("blocked", TRUE)
           q == fromAxis[a] \o (IF at[a] = 0 THEN <<>> ELSE <<Status("ready", TRUE)>>)
<1>1. axisWire'[a] = "blocked" /\ at'[a] = 0 /\ fromAxis'[a] = q \o <<m>>
  BY DEF DriveFault, AxisOwn, Wires
<1>2. IsQueue(q)
  <2>1. IsQueue(fromAxis[a])
    BY DEF Wires
  <2>2. CASE at[a] = 0
    BY <2>1, <2>2, ConcatOne
  <2>3. CASE at[a] # 0
    <3>1. q = Append(fromAxis[a], Status("ready", TRUE))
      BY <2>1, <2>3, ConcatOne
    <3> QED
      BY <2>1, <3>1, AppendQueue
  <2> QED
    BY <2>2, <2>3
<1>3. fromAxis'[a] = Append(q, m)
  <2> HIDE DEF q, m
  <2> QED
    BY <1>1, <1>2, ConcatOne
<1>4. fromAxis'[a] # <<>> /\ fromAxis'[a][Len(fromAxis'[a])] = m
  <2> HIDE DEF q, m
  <2> QED
    BY <1>2, <1>3, AppendQueue
<1>5. FaultIsTold(a)'
  BY <1>4 DEF FaultIsTold, Status
<1> QED
  BY <1>1, <1>5 DEF AxisInv, NotFollowed, Stopped

(* A drive comes up with nothing on its way (SlowDrive).                    *)
LEMMA DriveUpKeeps ==
  ASSUME SlowDrive, Wires, NEW a \in Axes, DriveUp(a), AxisInv(a), cncWire' = cncWire,
         seen' = seen, a \in Executing' <=> a \in Executing
  PROVE  AxisInv(a)'
<1>1. /\ axisWire[a] = "blocked" /\ toAxis[a] = <<>> /\ fromAxis[a] = <<>>
      /\ toAxis' = toAxis /\ at' = at /\ Report(a, Status("ready", FALSE))
  BY DEF DriveUp
<1>2. at[a] = 0 /\ seen[a] = "blocked"
  BY <1>1 DEF AxisInv, FaultIsTold
<1>3. Status("ready", FALSE).status = "ready"
  BY DEF Status
<1>4. axisWire'[a] = "ready" /\ fromAxis'[a] = Append(fromAxis[a], Status("ready", FALSE))
  BY <1>1, <1>3, Reported
<1>5. OnlyStops(a)' /\ Unanswered(a)
  BY <1>1, NoneOther DEF OnlyStops, Unanswered
<1>6. OneOther(fromAxis'[a], Active)
  BY <1>4, <1>5, AppendToAll DEF Wires, Unanswered
<1>7. OneOrder(a)'
  BY <1>1, <1>2, <1>5, <1>6, NoneOther DEF OneOrder, OnlyStops
<1> QED
  BY <1>1, <1>2, <1>4, <1>5, <1>7 DEF AxisInv, NotFollowed, Stopped

LEMMA AxisRefuseKeeps ==
  ASSUME Wires, NEW a \in Axes, AxisRefuse(a), AxisInv(a), cncWire' = cncWire,
         seen' = seen, a \in Executing' <=> a \in Executing
  PROVE  AxisInv(a)'
<1>1. axisWire[a] = "blocked" /\ UNCHANGED <<fromAxis, axisWire, at>>
  BY DEF AxisRefuse
<1>2. at[a] = 0 /\ FaultIsTold(a)
  BY <1>1 DEF AxisInv
<1>3. FaultIsTold(a)'
  BY <1>1, <1>2 DEF FaultIsTold
<1> QED
  BY <1>1, <1>2, <1>3 DEF AxisInv, NotFollowed, Stopped

LEMMA AxisKeeps ==
  ASSUME SlowDrive, Wires, NEW a \in Axes, Axis(a), AxisInv(a), NEW b \in Axes, AxisInv(b)
  PROVE  AxisInv(b)'
<1>0. /\ cncWire' = cncWire /\ seen' = seen /\ inProc' = inProc
      /\ Executing' = Executing
  BY AxisLocal DEF Executing
<1>1. CASE b # a
  <2>1. SameAxis(b) /\ toAxis'[b] = toAxis[b]
    BY <1>1, AxisLocal
  <2> QED
    BY <1>0, <2>1, Untouched
<1>2. CASE b = a
  <2>1. CASE AxisRefuse(a)
    BY <1>0, <1>2, <2>1, AxisRefuseKeeps
  <2>2. CASE AxisShift(a)
    BY <1>0, <1>2, <2>2, AxisShiftKeeps
  <2>3. CASE AxisStop(a)
    BY <1>0, <1>2, <2>3, AxisStopKeeps
  <2>4. CASE AxisEnds(a)
    <3>1. /\ at[a] # 0 /\ at'[a] = 0 /\ toAxis' = toAxis
          /\ Report(a, Status("ready", FALSE))
      BY <2>4 DEF AxisEnds, AxisOwn, Wires
    <3> QED
      BY <1>0, <1>2, <3>1, EndKeeps
  <2>5. CASE AxisHardStop(a)
    <3>1. /\ at[a] # 0 /\ at'[a] = 0 /\ toAxis' = toAxis
          /\ Report(a, Status("ready", TRUE))
      BY <2>5 DEF AxisHardStop, AxisOwn, Wires
    <3> QED
      BY <1>0, <1>2, <3>1, EndKeeps
  <2>6. CASE DriveFault(a)
    BY <1>0, <1>2, <2>6, DriveFaultKeeps
  <2>7. CASE DriveUp(a)
    BY <1>0, <1>2, <2>7, DriveUpKeeps
  <2> QED
    BY <2>1, <2>2, <2>3, <2>4, <2>5, <2>6, <2>7 DEF Axis, AxisServes
<1> QED
  BY <1>1, <1>2

-----------------------------------------------------------------------------
(* The wires of the axes stay queues.                                      *)
LEMMA ReportWires ==
  ASSUME Wires, NEW a \in Axes, NEW m, Report(a, m)
  PROVE  /\ DOMAIN axisWire' = Axes /\ DOMAIN fromAxis' = Axes
         /\ \A b \in Axes : IsQueue(fromAxis'[b])
<1>1. DOMAIN axisWire' = Axes /\ DOMAIN fromAxis' = Axes
  BY DEF Report, Wires
<1>2. ASSUME NEW b \in Axes PROVE IsQueue(fromAxis'[b])
  <2>1. fromAxis'[b] \in {fromAxis[b], Append(fromAxis[b], m)}
    BY DEF Report, Wires
  <2> QED
    BY <2>1, AppendQueue DEF Wires
<1> QED
  BY <1>1, <1>2

LEMMA SentWires ==
  ASSUME Wires, DOMAIN toAxis' = Axes, UNCHANGED <<at, axisWire>>,
         DOMAIN seen' = Axes, DOMAIN fromAxis' = Axes,
         \A b \in Axes : IsQueue(fromAxis'[b]),
         \A b \in Axes : \E e : toAxis'[b] \in {toAxis[b], Append(toAxis[b], e)}
  PROVE  Wires'
<1>1. ASSUME NEW b \in Axes PROVE IsQueue(toAxis'[b])
  <2>1. PICK e : toAxis'[b] \in {toAxis[b], Append(toAxis[b], e)}
    OBVIOUS
  <2>2. IsQueue(toAxis[b])
    BY DEF Wires
  <2>3. IsQueue(Append(toAxis[b], e))
    BY <2>2, AppendQueue
  <2> QED
    BY <2>1, <2>2, <2>3
<1> QED
  BY <1>1 DEF Wires

LEMMA TakeWires ==
  ASSUME Wires, NEW cmd, Take(cmd), DOMAIN toAxis' = Axes,
         \A b \in Axes : \E e : toAxis'[b] \in {toAxis[b], Append(toAxis[b], e)}
  PROVE  Wires'
  BY SentWires DEF Take, axisVars, Wires

LEMMA TerminateWires ==
  ASSUME Wires, NEW axes, TerminateExecution(axes)
  PROVE  /\ DOMAIN toAxis' = Axes
         /\ \A b \in Axes : \E e : toAxis'[b] \in {toAxis[b], Append(toAxis[b], e)}
  BY DEF TerminateExecution

LEMMA ServeWires == ASSUME Wires, Serve PROVE Wires'
<1>1. CASE Activate
  <2>1. Take("activate") /\ DOMAIN toAxis' = Axes
    BY <1>1 DEF Activate
  <2>2. \A b \in Axes : toAxis'[b] \in {toAxis[b], Append(toAxis[b], Shift(1))}
    BY <1>1 DEF Activate
  <2> QED
    BY <2>1, <2>2, TakeWires
<1>2. CASE UNCHANGED toAxis
  <2>1. PICK cmd : Take(cmd)
    BY DEF Serve, Activate, Reject, Deactivate, Refuse
  <2> QED
    BY <1>2, <2>1, TakeWires DEF Wires
<1>3. CASE Deactivate /\ TerminateExecution(Executing)
  <2>1. Take("deactivate")
    BY <1>3 DEF Deactivate
  <2> QED
    BY <1>3, <2>1, TerminateWires, TakeWires
<1> QED
  BY <1>1, <1>2, <1>3 DEF Serve, Reject, Deactivate, Refuse

LEMMA AxisStatusWires ==
  ASSUME Wires, NEW a \in Axes, AxisStatus(a)
  PROVE  Wires'
<1>1. /\ UNCHANGED <<at, axisWire>> /\ DOMAIN seen' = Axes /\ DOMAIN fromAxis' = Axes
      /\ fromAxis[a] # <<>>
  BY DEF AxisStatus, Wires
<1>2. ASSUME NEW b \in Axes PROVE IsQueue(fromAxis'[b])
  <2>1. fromAxis'[b] = IF b = a THEN Tail(fromAxis[b]) ELSE fromAxis[b]
    BY DEF AxisStatus, Wires
  <2> QED
    BY <1>1, <2>1, TailQueue DEF Wires
<1>3. /\ DOMAIN toAxis' = Axes
      /\ \A b \in Axes : \E e : toAxis'[b] \in {toAxis[b], Append(toAxis[b], e)}
  <2>1. CASE UNCHANGED toAxis
    BY <2>1 DEF Wires
  <2>2. CASE toAxis' = [toAxis EXCEPT ![a] = Append(@, Shift(inProc[a] + 1))]
    BY <2>2 DEF Wires
  <2>3. CASE TerminateExecution(Executing \ {a})
    BY <2>3, TerminateWires
  <2> QED
    BY <2>1, <2>2, <2>3 DEF AxisStatus, ExecutePhase, AxisBrokeOff
<1> QED
  BY <1>1, <1>2, <1>3, SentWires

LEMMA AxisWires ==
  ASSUME Wires, NEW a \in Axes, Axis(a)
  PROVE  Wires'
<1>1. DOMAIN at' = Axes /\ seen' = seen /\ DOMAIN toAxis' = Axes
  BY DEF Axis, AxisServes, AxisRefuse, AxisShift, AxisStop, AxisTake, AxisEnds,
         AxisHardStop, DriveFault, DriveUp, AxisOwn, AxisStep, nodeVars, Wires
<1>2. \A b \in Axes : IsQueue(toAxis'[b])
  <2>1. CASE \E cmd : AxisTake(a, cmd)
    <3>1. /\ IsQueue(toAxis'[a])
          /\ \A b \in Axes \ {a} : toAxis'[b] = toAxis[b]
      BY <2>1, TailQueue DEF AxisTake, Wires
    <3> QED
      BY <3>1 DEF Wires
  <2>2. CASE toAxis' = toAxis
    BY <2>2 DEF Wires
  <2> QED
    BY <2>1, <2>2 DEF Axis, AxisServes, AxisRefuse, AxisShift, AxisStop, AxisEnds,
                      AxisHardStop, DriveFault, DriveUp, AxisOwn
<1>3. /\ DOMAIN axisWire' = Axes /\ DOMAIN fromAxis' = Axes
      /\ \A b \in Axes : IsQueue(fromAxis'[b])
  <2>1. CASE \E m : Report(a, m)
    BY <2>1, ReportWires
  <2>2. CASE UNCHANGED <<axisWire, fromAxis>>
    BY <2>2 DEF Wires
  <2>3. CASE DriveFault(a)
    <3>1. DOMAIN axisWire' = Axes /\ DOMAIN fromAxis' = Axes
      BY <2>3 DEF DriveFault, Wires
    <3>2. \A b \in Axes \ {a} : fromAxis'[b] = fromAxis[b]
      BY <2>3 DEF DriveFault, Wires
    <3>3. IsQueue(fromAxis[a])
      BY DEF Wires
    <3>4. \E e, f : fromAxis'[a] = (fromAxis[a] \o <<>>) \o <<f>>
                    \/ fromAxis'[a] = (fromAxis[a] \o <<e>>) \o <<f>>
      <4>1. CASE at[a] = 0
        BY <2>3, <4>1 DEF DriveFault, Wires
      <4>2. CASE at[a] # 0
        BY <2>3, <4>2 DEF DriveFault, Wires
      <4> QED
        BY <4>1, <4>2
    <3>5. IsQueue(fromAxis'[a])
      <4>1. PICK e, f : fromAxis'[a] = (fromAxis[a] \o <<>>) \o <<f>>
                        \/ fromAxis'[a] = (fromAxis[a] \o <<e>>) \o <<f>>
        BY <3>4
      <4>2. fromAxis[a] \o <<>> = fromAxis[a] /\ fromAxis[a] \o <<e>> = Append(fromAxis[a], e)
        BY <3>3, ConcatOne
      <4>3. IsQueue(fromAxis[a] \o <<>>) /\ IsQueue(fromAxis[a] \o <<e>>)
        BY <3>3, <4>2, AppendQueue
      <4>4. /\ (fromAxis[a] \o <<>>) \o <<f>> = Append(fromAxis[a] \o <<>>, f)
            /\ (fromAxis[a] \o <<e>>) \o <<f>> = Append(fromAxis[a] \o <<e>>, f)
        BY <4>3, ConcatOne
      <4>5. /\ IsQueue((fromAxis[a] \o <<>>) \o <<f>>)
            /\ IsQueue((fromAxis[a] \o <<e>>) \o <<f>>)
        BY <4>3, <4>4, AppendQueue, Zenon
      <4> QED
        BY <4>1, <4>5
    <3> QED
      BY <3>1, <3>2, <3>5 DEF Wires
  <2> QED
    BY <2>1, <2>2, <2>3 DEF Axis, AxisServes, AxisRefuse, AxisShift, AxisStop, AxisEnds,
                            AxisHardStop, DriveUp
<1> QED
  BY <1>1, <1>2, <1>3 DEF Wires

-----------------------------------------------------------------------------
FollowInv == WireInv /\ ClientInv /\ Wires /\ \A a \in Axes : AxisInv(a)

LEMMA InitFollow == Init => FollowInv
<1> SUFFICES ASSUME Init PROVE FollowInv
  OBVIOUS
<1>1. Wires
  <2>1. IsQueue(<<>>)
    BY DEF IsQueue
  <2> QED
    BY <2>1 DEF Init, Wires
<1>2. ASSUME NEW a \in Axes PROVE AxisInv(a)
  <2>1. /\ toAxis[a] = <<>> /\ fromAxis[a] = <<>> /\ at[a] = 0 /\ axisWire[a] = "ready"
        /\ cncWire = "ready"
    BY DEF Init
  <2>2. OnlyStops(a) /\ Unanswered(a)
    BY <2>1, NoneOther DEF OnlyStops, Unanswered
  <2>3. OneOrder(a) /\ NotFollowed(a)
    BY <2>1, <2>2, NoneOther DEF OneOrder, NotFollowed, OnlyStops, Unanswered
  <2> QED
    BY <2>1, <2>3 DEF AxisInv
<1> QED
  BY <1>1, <1>2, InitWire, InitClient DEF FollowInv

LEMMA NextFollow ==
  ASSUME PatientClient, SlowDrive, FollowInv, [Next]_vars
  PROVE  FollowInv'
<1>0. WireInv /\ ClientInv /\ Wires /\ WireTellsExecution
  BY DEF FollowInv, WireInv
<1>1. WireInv' /\ ClientInv'
  BY <1>0, NextWire, NextClient
<1>2. CASE Serve
  <2>1. \A b \in Axes : AxisInv(b)'
    BY <1>0, <1>2, ServeKeeps DEF FollowInv
  <2> QED
    BY <1>0, <1>1, <1>2, <2>1, ServeWires DEF FollowInv
<1>3. ASSUME NEW a \in Axes, AxisStatus(a)
      PROVE  FollowInv'
  <2>1. \A b \in Axes : AxisInv(b)'
    BY <1>0, <1>3, AxisStatusKeeps DEF FollowInv
  <2> QED
    BY <1>0, <1>1, <1>3, <2>1, AxisStatusWires DEF FollowInv
<1>4. ASSUME NEW a \in Axes, Axis(a)
      PROVE  FollowInv'
  <2>1. \A b \in Axes : AxisInv(b)'
    BY <1>0, <1>4, AxisKeeps DEF FollowInv
  <2> QED
    BY <1>0, <1>1, <1>4, <2>1, AxisWires DEF FollowInv
<1>5. CASE Client \/ UNCHANGED vars
  <2>1. UNCHANGED <<nodeVars, toAxis, axisVars>>
    BY <1>5 DEF Client, ClientActivate, ClientStop, ClientReceive, ClientStep, vars
  <2>2. Wires'
    BY <1>0, <2>1 DEF Wires, nodeVars, axisVars
  <2>3. \A b \in Axes : AxisInv(b)'
    <3> SUFFICES ASSUME NEW b \in Axes PROVE AxisInv(b)'
      OBVIOUS
    <3>1. AxisInv(b)
      BY DEF FollowInv
    <3>2. SameAxis(b) /\ toAxis'[b] = toAxis[b] /\ cncWire' = cncWire /\ inProc' = inProc
      BY <2>1 DEF nodeVars, axisVars, SameAxis
    <3> QED
      BY <3>1, <3>2, Untouched DEF Executing
  <2> QED
    BY <1>1, <2>2, <2>3 DEF FollowInv
<1> QED
  BY <1>2, <1>3, <1>4, <1>5 DEF Next

(***************************************************************************)
(* No axis moves, or is about to, that multi_axis_ctl does not follow or    *)
(* has not told to stop (execute_phase, terminate_execution), as long as    *)
(* its client waits for the end of a task and a failed drive takes longer   *)
(* to come up than messages take.                                          *)
(***************************************************************************)
THEOREM DrivenAlwaysFollowed ==
  ASSUME PatientClient, SlowDrive PROVE Spec => []DrivenIsFollowed
<1>1. FollowInv => DrivenIsFollowed
  <2> SUFFICES ASSUME FollowInv, NEW a \in Axes, a \notin Executing
               PROVE  /\ at[a] = 0
                      /\ toAxis[a] # <<>> /\ axisWire[a] # "blocked" => StopSent(a)
    BY DEF DrivenIsFollowed
  <2>1. NotFollowed(a) /\ IsQueue(toAxis[a])
    BY DEF FollowInv, AxisInv, Wires
  <2> QED
    BY <2>1, StopsStop DEF NotFollowed
<1>2. FollowInv /\ [Next]_vars => FollowInv'
  BY NextFollow
<1> QED
  BY <1>1, <1>2, InitFollow, PTL DEF Spec

(***************************************************************************)
(* When the last command of a client that stopped its run is served, every  *)
(* axis stands, slows down, or has a stop on its way.                       *)
(***************************************************************************)
THEOREM StoppedClientIsStill ==
  ASSUME PatientClient, SlowDrive PROVE Spec => []StoppedClientMeansStill
<1>1. FollowInv => StoppedClientMeansStill
  <2> SUFFICES ASSUME FollowInv, client = "stopped", toCnc = <<>>, NEW a \in Axes
               PROVE  Stopped(a)
    BY DEF StoppedClientMeansStill, Stopped
  <2>1. AxisInv(a) /\ IsQueue(toAxis[a])
    BY DEF FollowInv, Wires
  <2>2. cncWire = "ready" \/ cncWire = "blocked"
    BY DEF FollowInv, ClientInv, RestIsRest, Statuses
  <2>3. CASE a \in Executing
    <3>1. cncWire = "blocked"
      BY <2>2, <2>3 DEF FollowInv, WireInv, WireTellsExecution
    <3> QED
      BY <2>1, <2>3, <3>1 DEF AxisInv
  <2>4. CASE a \notin Executing
    <3>1. NotFollowed(a)
      BY <2>1, <2>4 DEF AxisInv
    <3> QED
      BY <2>1, <3>1, StopsStop DEF NotFollowed, Stopped
  <2> QED
    BY <2>3, <2>4
<1>2. FollowInv /\ [Next]_vars => FollowInv'
  BY NextFollow
<1> QED
  BY <1>1, <1>2, InitFollow, PTL DEF Spec

-----------------------------------------------------------------------------
(***************************************************************************)
(* The phases of an axis are executed in order, and the end of a task is    *)
(* told when all are done.  A phase on its way to the axis, or executed by  *)
(* it, is the one after the last done; while the wire is active it is the   *)
(* one the node counts (in_proc_), nothing was sent behind it, and an end   *)
(* on its way back without an error says that it is done.                  *)
(***************************************************************************)
NoEnd(q) == \A i \in 1 .. Len(q) : q[i].status # "ready"

OneEnd(q) ==
  \A i, j \in 1 .. Len(q) : q[i].status = "ready" /\ q[j].status = "ready" => i = j

(* An end belongs to the last phase that was sent, also when the drive       *)
(* failed since and takes no command.                                      *)
EndOnce(a) ==
  /\ OneEnd(fromAxis[a])
  /\ NoEnd(fromAxis[a]) \/ OnlyStops(a)
  /\ a \notin Executing /\ seen[a] = "ready" => NoEnd(fromAxis[a]) /\ OnlyStops(a)

InOrder(a) ==
  /\ inProc[a] \in Nat /\ axisPhases[a] \in Nat
  /\ done[a] <= inProc[a] /\ inProc[a] <= axisPhases[a]
  /\ \A i \in 1 .. Len(toAxis[a]) :
       toAxis[a][i] # Stop => toAxis[a][i] = Shift(done[a] + 1) /\ done[a] + 1 <= inProc[a]
  /\ at[a] # 0 /\ a \notin halting => at[a] = done[a] + 1 /\ at[a] <= inProc[a]

InStep(a) ==
  /\ seen[a] # "blocked" /\ a \notin halting
  /\ at[a] # 0 => at[a] = inProc[a] /\ toAxis[a] = <<>>
  /\ \A i \in 1 .. Len(toAxis[a]) :
       toAxis[a][i] # Stop => i = Len(toAxis[a]) /\ done[a] + 1 = inProc[a]
  /\ \A i \in 1 .. Len(fromAxis[a]) :
       fromAxis[a][i].status = "ready" /\ ~fromAxis[a][i].err => done[a] = inProc[a]

PhaseInv(a) ==
  /\ done[a] \in Nat
  /\ at[a] = 0 => a \notin halting
  /\ EndOnce(a)
  /\ a \in Executing => InOrder(a)
  /\ a \in Executing /\ cncWire = "active" => InStep(a)
  /\ a \in DOMAIN axisPhases \ Executing /\ cncWire = "active" => done[a] = axisPhases[a]

LEMMA AppendEnd ==
  ASSUME NEW q, IsQueue(q), NEW e
  PROVE  /\ e.status # "ready" /\ NoEnd(q) => NoEnd(Append(q, e))
         /\ e.status # "ready" /\ OneEnd(q) => OneEnd(Append(q, e))
         /\ NoEnd(q) => OneEnd(Append(q, e))
<1>1. /\ Len(q) \in Nat /\ Len(Append(q, e)) = Len(q) + 1
      /\ Append(q, e)[Len(q) + 1] = e
      /\ \A i \in 1 .. Len(q) : Append(q, e)[i] = q[i]
  BY AppendQueue
<1>2. e.status # "ready" /\ NoEnd(q) => NoEnd(Append(q, e))
  BY <1>1 DEF NoEnd
<1>3. e.status # "ready" /\ OneEnd(q) => OneEnd(Append(q, e))
  BY <1>1 DEF OneEnd
<1>4. NoEnd(q) => OneEnd(Append(q, e))
  BY <1>1 DEF NoEnd, OneEnd
<1> QED
  BY <1>2, <1>3, <1>4

LEMMA TailEnd ==
  ASSUME NEW q, IsQueue(q), q # <<>>
  PROVE  /\ NoEnd(q) => NoEnd(Tail(q)) /\ Head(q).status # "ready"
         /\ OneEnd(q) => OneEnd(Tail(q))
         /\ OneEnd(q) /\ Head(q).status = "ready" => NoEnd(Tail(q))
<1>1. /\ Len(q) \in Nat /\ Len(q) > 0 /\ Len(Tail(q)) = Len(q) - 1 /\ Head(q) = q[1]
      /\ \A i \in 1 .. Len(q) - 1 : Tail(q)[i] = q[i + 1]
  BY TailQueue
<1>2. NoEnd(q) => NoEnd(Tail(q)) /\ Head(q).status # "ready"
  BY <1>1 DEF NoEnd
<1>3. OneEnd(q) => OneEnd(Tail(q))
  BY <1>1 DEF OneEnd
<1>4. OneEnd(q) /\ Head(q).status = "ready" => NoEnd(Tail(q))
  BY <1>1 DEF OneEnd, NoEnd
<1> QED
  BY <1>2, <1>3, <1>4

LEMMA UnansweredNoEnd == ASSUME NEW a, Unanswered(a) PROVE NoEnd(fromAxis[a])
<1>1. Active.status # "ready"
  BY DEF Active, Status
<1> QED
  BY <1>1 DEF Unanswered, AllAre, NoEnd

(* Steps of others: the wire does not become active, the counts stay.       *)
LEMMA CountUntouched ==
  ASSUME NEW a \in Axes, PhaseInv(a), SameAxis(a), toAxis'[a] = toAxis[a],
         done'[a] = done[a], axisPhases' = axisPhases,
         a \in Executing' <=> a \in Executing,
         a \in Executing => inProc'[a] = inProc[a],
         cncWire' = "active" => cncWire = "active"
  PROVE  PhaseInv(a)'
<1>1. EndOnce(a) => EndOnce(a)'
  BY DEF SameAxis, EndOnce, OnlyStops
<1>2. a \in Executing /\ InOrder(a) => InOrder(a)'
  BY DEF SameAxis, InOrder
<1>3. a \in Executing /\ InStep(a) => InStep(a)'
  BY DEF SameAxis, InStep
<1> QED
  BY <1>1, <1>2, <1>3 DEF PhaseInv, SameAxis

(* An axis that is told to stop, with no phase left.                        *)
LEMMA CountTerminate ==
  ASSUME NEW axes, TerminateExecution(axes), Wires, NEW a \in Axes, PhaseInv(a), SameAxis(a),
         done'[a] = done[a], axisPhases' = axisPhases, a \in axes <=> a \in Executing
  PROVE  PhaseInv(a)'
<1>1. /\ Executing' = axes /\ cncWire' = "blocked"
      /\ a \in axes => inProc'[a] = axisPhases[a]
      /\ toAxis'[a] = IF a \in axes THEN Append(toAxis[a], Stop) ELSE toAxis[a]
  BY DEF TerminateExecution, Executing
<1>2. CASE a \notin axes
  BY <1>1, <1>2, CountUntouched
<1>3. CASE a \in axes
  <2>1. IsQueue(toAxis[a]) /\ toAxis'[a] = Append(toAxis[a], Stop)
    BY <1>1, <1>3 DEF Wires
  <2>2. OnlyStops(a) => OnlyStops(a)'
    BY <2>1, AppendToAll DEF OnlyStops
  <2>3. EndOnce(a)'
    BY <1>1, <1>3, <2>2 DEF PhaseInv, EndOnce, SameAxis
  <2>4. InOrder(a)
    BY <1>3 DEF PhaseInv
  <2>5. /\ inProc'[a] \in Nat /\ axisPhases'[a] \in Nat
        /\ done'[a] <= inProc'[a] /\ inProc'[a] <= axisPhases'[a]
        /\ inProc[a] <= inProc'[a] /\ inProc[a] \in Nat /\ done[a] \in Nat
    BY <1>1, <1>3, <2>4 DEF InOrder, PhaseInv
  <2>6. \A i \in 1 .. Len(toAxis'[a]) : toAxis'[a][i] # Stop =>
          toAxis'[a][i] = Shift(done'[a] + 1) /\ done'[a] + 1 <= inProc'[a]
    BY <2>1, <2>4, <2>5, AppendQueue DEF InOrder
  <2>7. at'[a] # 0 /\ a \notin halting' => at'[a] = done'[a] + 1 /\ at'[a] <= inProc'[a]
    BY <2>4, <2>5 DEF InOrder, SameAxis
  <2>8. InOrder(a)'
    BY <2>5, <2>6, <2>7 DEF InOrder
  <2> QED
    BY <1>1, <1>3, <2>3, <2>5, <2>8 DEF PhaseInv, SameAxis
<1> QED
  BY <1>2, <1>3

(* The status of axis a that the node takes, and its counts before.         *)
Counted(a) == AxisInv(a) /\ PhaseInv(a) /\ Heard(a) /\ done'[a] = done[a] /\ axisPhases' = axisPhases

(* What the node hears leaves at most one end, and after an end none.       *)
LEMMA HeardCounts ==
  ASSUME NEW a \in Axes, Wires, Counted(a)
  PROVE  /\ OneEnd(fromAxis'[a]) /\ (NoEnd(fromAxis[a]) => NoEnd(fromAxis'[a]))
         /\ seen'[a] = "ready" => NoEnd(fromAxis'[a]) /\ OnlyStops(a)
<1>1. IsQueue(fromAxis[a]) /\ fromAxis[a] # <<>> /\ fromAxis'[a] = Tail(fromAxis[a])
  BY DEF Wires, Counted, Heard
<1>2. OneEnd(fromAxis[a]) /\ (NoEnd(fromAxis[a]) \/ OnlyStops(a))
  BY DEF Counted, PhaseInv, EndOnce
<1>3. seen'[a] = Head(fromAxis[a]).status
  BY DEF Counted, Heard
<1> QED
  BY <1>1, <1>2, <1>3, TailEnd

LEMMA HeardOnlyCounts ==
  ASSUME NEW a \in Axes, Wires, Counted(a), UNCHANGED <<toAxis, inProc, cncWire>>,
         a \notin Executing \/ Head(fromAxis[a]).status = "active"
  PROVE  PhaseInv(a)'
<1>1. Executing' = Executing
  BY DEF Executing
<1>2. OnlyStops(a) => OnlyStops(a)'
  BY DEF OnlyStops
<1>3. PhaseInv(a) /\ EndOnce(a) /\ seen'[a] = Head(fromAxis[a]).status
  BY DEF Counted, PhaseInv, Heard
<1>4. EndOnce(a)'
  BY <1>1, <1>2, <1>3, HeardCounts DEF EndOnce
<1>5. a \in Executing => InOrder(a)'
  BY <1>3 DEF PhaseInv, InOrder, Counted, Heard
<1>6. ASSUME a \in Executing, cncWire = "active" PROVE InStep(a)'
  <2>1. InStep(a) /\ seen'[a] = "active"
    BY <1>3, <1>6 DEF PhaseInv
  <2>2. /\ IsQueue(fromAxis[a]) /\ fromAxis[a] # <<>>
        /\ fromAxis'[a] = Tail(fromAxis[a])
    BY DEF Wires, Counted, Heard
  <2>3. \A i \in 1 .. Len(fromAxis'[a]) :
          fromAxis'[a][i].status = "ready" /\ ~fromAxis'[a][i].err => done'[a] = inProc'[a]
    <3>1. /\ Len(fromAxis[a]) \in Nat /\ Len(fromAxis'[a]) = Len(fromAxis[a]) - 1
          /\ \A i \in 1 .. Len(fromAxis[a]) - 1 : fromAxis'[a][i] = fromAxis[a][i + 1]
      BY <2>2, TailQueue
    <3> QED
      BY <2>1, <3>1 DEF InStep, Counted
  <2> QED
    BY <2>1, <2>3 DEF InStep, Counted, Heard
<1> QED
  BY <1>1, <1>3, <1>4, <1>5, <1>6 DEF PhaseInv, Counted, Heard

LEMMA HeardForgetsCounts ==
  ASSUME NEW a \in Axes, Wires, Counted(a), toAxis'[a] = toAxis[a], a \notin Executing',
         cncWire' = "active" => done[a] = axisPhases[a]
  PROVE  PhaseInv(a)'
<1>1. OnlyStops(a) => OnlyStops(a)'
  BY DEF OnlyStops
<1>2. EndOnce(a)'
  BY <1>1, HeardCounts DEF Counted, PhaseInv, EndOnce
<1> QED
  BY <1>2 DEF PhaseInv, Counted, Heard

(* The next phase of an axis that has done the one before.                  *)
LEMMA NextPhaseCounts ==
  ASSUME NEW a \in Axes, Wires, at'[a] = 0, a \notin halting', OnlyStops(a),
         NoEnd(fromAxis'[a]), OneEnd(fromAxis'[a]), seen'[a] = "ready",
         toAxis'[a] = Append(toAxis[a], Shift(done'[a] + 1)),
         done'[a] \in Nat, inProc'[a] = done'[a] + 1,
         axisPhases'[a] \in Nat, inProc'[a] <= axisPhases'[a], a \in Executing'
  PROVE  PhaseInv(a)'
<1>1. /\ Len(toAxis[a]) \in Nat /\ Len(toAxis'[a]) = Len(toAxis[a]) + 1
      /\ toAxis'[a][Len(toAxis[a]) + 1] = Shift(done'[a] + 1)
      /\ \A i \in 1 .. Len(toAxis[a]) : toAxis'[a][i] = Stop
  BY AppendQueue DEF Wires, OnlyStops, AllAre
<1>2. EndOnce(a)'
  BY DEF EndOnce
<1>3. InOrder(a)'
  BY <1>1 DEF InOrder
<1>4. InStep(a)'
  BY <1>1 DEF InStep, NoEnd
<1> QED
  BY <1>2, <1>3, <1>4 DEF PhaseInv

LEMMA ExecutePhaseCounts ==
  ASSUME Wires, WireTellsExecution, cncWire \in Statuses,
         NEW a \in Axes, a \in Executing, ExecutePhase(a), Counted(a),
         Head(fromAxis[a]).status = "ready", ~Head(fromAxis[a]).err,
         NEW b \in Axes, PhaseInv(b), b # a => SameAxis(b) /\ done'[b] = done[b]
  PROVE  PhaseInv(b)'
<1>1. InOrder(a) /\ axisPhases' = axisPhases /\ done[a] \in Nat
  BY DEF Counted, PhaseInv
<1>2. ASSUME cncWire = "active" PROVE done[a] = inProc[a] /\ a \notin halting
  <2>1. 1 \in 1 .. Len(fromAxis[a]) /\ Head(fromAxis[a]) = fromAxis[a][1]
    BY TailQueue DEF Wires, Counted, Heard
  <2> QED
    BY <1>2, <2>1 DEF Counted, PhaseInv, InStep
<1>3. CASE inProc[a] = axisPhases[a]
  <2>1. inProc' = [x \in Executing \ {a} |-> inProc[x]]
    BY <1>3 DEF ExecutePhase, Dropped, Restrict
  <2>2. Executing' = Executing \ {a} /\ \A x \in Executing' : inProc'[x] = inProc[x]
    BY <2>1 DEF Executing
  <2>3. toAxis' = toAxis /\ cncWire' \in {cncWire, "ready"}
    BY <1>3 DEF ExecutePhase
  <2>4. CASE b = a
    BY <1>2, <1>3, <2>2, <2>3, <2>4, HeardForgetsCounts
  <2>5. CASE b # a
    BY <1>1, <2>2, <2>3, <2>5, CountUntouched
  <2> QED
    BY <2>4, <2>5
<1>4. CASE inProc[a] # axisPhases[a]
  <2>1. cncWire = "active"
    BY <1>4 DEF WireTellsExecution, Statuses
  <2>2. /\ inProc' = [inProc EXCEPT ![a] = @ + 1] /\ cncWire' = cncWire
        /\ toAxis' = [toAxis EXCEPT ![a] = Append(@, Shift(inProc[a] + 1))]
    BY <1>4 DEF ExecutePhase
  <2>3. Executing' = Executing
    BY <2>2 DEF Executing
  <2>4. CASE b = a
    <3>1. /\ inProc'[a] = inProc[a] + 1 /\ done'[a] = inProc[a]
          /\ toAxis'[a] = Append(toAxis[a], Shift(inProc[a] + 1))
      BY <1>2, <2>1, <2>2 DEF Wires, Executing, Counted
    <3>2. inProc'[a] <= axisPhases'[a] /\ axisPhases'[a] \in Nat
      BY <1>1, <1>4, <3>1 DEF InOrder
    <3>3. at'[a] = 0 /\ a \notin halting' /\ seen'[a] = "ready"
      BY <1>2, <2>1, HeardEnd DEF Counted, Heard
    <3>4. NoEnd(fromAxis'[a]) /\ OneEnd(fromAxis'[a]) /\ OnlyStops(a)
      BY <3>3, HeardCounts
    <3> QED
      BY <1>1, <2>3, <2>4, <3>1, <3>2, <3>3, <3>4, NextPhaseCounts DEF Counted
  <2>5. CASE b # a
    <3>1. toAxis'[b] = toAxis[b] /\ (b \in Executing => inProc'[b] = inProc[b])
      BY <2>2, <2>5 DEF Wires, Executing
    <3> QED
      BY <1>1, <2>2, <2>3, <2>5, <3>1, CountUntouched
  <2> QED
    BY <2>4, <2>5
<1> QED
  BY <1>3, <1>4

LEMMA BrokeOffCounts ==
  ASSUME Wires, NEW a \in Axes, a \in Executing, AxisBrokeOff(a), Counted(a),
         NEW b \in Axes, PhaseInv(b), b # a => SameAxis(b) /\ done'[b] = done[b]
  PROVE  PhaseInv(b)'
<1>0. axisPhases' = axisPhases
  BY DEF Counted
<1>1. CASE Executing = {a}
  <2>1. inProc' = None /\ toAxis' = toAxis /\ cncWire' = "ready"
    BY <1>1 DEF AxisBrokeOff
  <2>2. Executing' = {}
    BY <2>1 DEF Executing, None
  <2>3. CASE b = a
    BY <2>1, <2>2, <2>3, HeardForgetsCounts
  <2>4. CASE b # a
    BY <1>0, <1>1, <2>1, <2>2, <2>4, CountUntouched
  <2> QED
    BY <2>3, <2>4
<1>2. CASE Executing # {a}
  <2>1. TerminateExecution(Executing \ {a})
    BY <1>2 DEF AxisBrokeOff
  <2>2. CASE b = a
    <3>1. toAxis'[a] = toAxis[a] /\ Executing' = Executing \ {a} /\ cncWire' = "blocked"
      BY <2>1 DEF TerminateExecution, Executing
    <3> QED
      BY <2>2, <3>1, HeardForgetsCounts
  <2>3. CASE b # a
    BY <1>0, <2>1, <2>3, CountTerminate
  <2> QED
    BY <2>2, <2>3
<1> QED
  BY <1>1, <1>2

LEMMA AxisStatusCounts ==
  ASSUME FollowInv, NEW a \in Axes, AxisStatus(a), PhaseInv(a), NEW b \in Axes, PhaseInv(b)
  PROVE  PhaseInv(b)'
<1>0. Wires /\ WireTellsExecution /\ cncWire \in Statuses
  BY DEF FollowInv, WireInv, ClientInv
<1>1. /\ Heard(a) /\ axisPhases' = axisPhases /\ done' = done
      /\ b # a => SameAxis(b)
  BY <1>0 DEF AxisStatus, Wires, Heard, SameAxis
<1>2. Counted(a)
  BY <1>1 DEF Counted, FollowInv
<1>3. CASE a \notin Executing \/ Head(fromAxis[a]).status = "active"
  <2>1. UNCHANGED <<cncWire, inProc, toAxis>>
    BY <1>3 DEF AxisStatus
  <2>2. CASE b = a
    BY <1>0, <1>2, <1>3, <2>1, <2>2, HeardOnlyCounts
  <2>3. CASE b # a
    BY <1>1, <2>1, <2>3, CountUntouched DEF Executing
  <2> QED
    BY <2>2, <2>3
<1>4. CASE a \in Executing /\ Head(fromAxis[a]).status # "active"
  <2>1. \/ Head(fromAxis[a]).status = "ready" /\ ~Head(fromAxis[a]).err /\ ExecutePhase(a)
        \/ AxisBrokeOff(a)
    BY <1>4 DEF AxisStatus
  <2> QED
    BY <1>0, <1>1, <1>2, <1>4, <2>1, ExecutePhaseCounts, BrokeOffCounts
<1> QED
  BY <1>3, <1>4

(* A task: its axes are at rest, and what they did before does not count.   *)
LEMMA ActivateCounts ==
  ASSUME WireInv, ClientInv, Wires, Activate, NEW b \in Axes, AxisInv(b), PhaseInv(b)
  PROVE  PhaseInv(b)'
<1>1. /\ Take("activate") /\ axisPhases' = Head(toCnc).task
      /\ inProc' = [x \in DOMAIN axisPhases' |-> 1] /\ done'[b] = 0
  BY DEF Activate
<1>2. SameAxis(b)
  BY <1>1, TakeSameAxis
<1>3. b \notin Executing /\ Executing' = DOMAIN axisPhases'
  BY <1>1, TaskHead DEF WireInv, WireTellsExecution, Executing
<1>4. at'[b] = 0 /\ b \notin halting' /\ EndOnce(b)
  BY <1>2, <1>3 DEF AxisInv, NotFollowed, PhaseInv, SameAxis
<1>5. CASE b \in DOMAIN axisPhases'
  <2>1. toAxis'[b] = Append(toAxis[b], Shift(1)) /\ seen[b] = "ready"
    BY <1>5 DEF Activate
  <2>2. NoEnd(fromAxis'[b]) /\ OneEnd(fromAxis'[b]) /\ OnlyStops(b) /\ seen'[b] = "ready"
    BY <1>2, <1>3, <1>4, <2>1 DEF EndOnce, SameAxis
  <2>3. axisPhases' \in Tasks
    BY <1>1, HeadIsTask DEF WireInv, Take
  <2>4. PICK axes \in (SUBSET Axes) \ {{}} : axisPhases' \in [axes -> Nat \ {0}]
    BY <2>3 DEF Tasks
  <2>5. axisPhases'[b] \in Nat /\ 1 <= axisPhases'[b]
    BY <1>5, <2>4
  <2>6. inProc'[b] = 1
    BY <1>1, <1>5
  <2> QED
    BY <1>1, <1>3, <1>4, <1>5, <2>1, <2>2, <2>5, <2>6, NextPhaseCounts
<1>6. CASE b \notin DOMAIN axisPhases'
  <2>1. toAxis'[b] = toAxis[b]
    BY <1>6 DEF Activate
  <2>2. EndOnce(b)'
    BY <1>2, <1>3, <1>4, <2>1 DEF EndOnce, OnlyStops, SameAxis
  <2> QED
    BY <1>1, <1>3, <1>4, <1>6, <2>2 DEF PhaseInv
<1> QED
  BY <1>5, <1>6

LEMMA ServeCounts ==
  ASSUME WireInv, ClientInv, Wires, Serve, NEW b \in Axes, AxisInv(b), PhaseInv(b)
  PROVE  PhaseInv(b)'
<1>1. CASE Activate
  BY <1>1, ActivateCounts
<1>2. CASE Reject
  <2>1. /\ Take("activate") /\ inProc' = None /\ cncWire' = "ready"
        /\ UNCHANGED <<axisPhases, toAxis, done>>
    BY <1>2 DEF Reject
  <2>2. Executing = {} /\ Executing' = {}
    BY <2>1, TaskHead DEF WireInv, WireTellsExecution, Executing, None
  <2> QED
    BY <2>1, <2>2, TakeSameAxis, CountUntouched
<1>3. CASE Deactivate
  <2>1. Take("deactivate") /\ UNCHANGED <<axisPhases, done>>
    BY <1>3 DEF Deactivate
  <2>2. CASE Executing = {}
    <3>1. UNCHANGED <<inProc, toAxis>> /\ cncWire' \in {cncWire, "ready"}
      BY <1>3, <2>2 DEF Deactivate
    <3> QED
      BY <2>1, <3>1, TakeSameAxis, CountUntouched DEF Executing
  <2>3. CASE Executing # {}
    <3>1. TerminateExecution(Executing)
      BY <1>3, <2>3 DEF Deactivate
    <3> QED
      BY <2>1, <3>1, TakeSameAxis, CountTerminate
  <2> QED
    BY <2>2, <2>3
<1>4. CASE Refuse
  <2>1. PICK cmd : Take(cmd)
    BY <1>4 DEF Refuse
  <2>2. UNCHANGED <<cncWire, inProc, toAxis, axisPhases, done>>
    BY <1>4 DEF Refuse
  <2> QED
    BY <2>1, <2>2, TakeSameAxis, CountUntouched DEF Executing
<1> QED
  BY <1>1, <1>2, <1>3, <1>4 DEF Serve

-----------------------------------------------------------------------------
(* The axes' own steps: the node's side of the counts stays.                *)
NodeStays(a) ==
  /\ cncWire' = cncWire /\ inProc' = inProc /\ axisPhases' = axisPhases
  /\ seen' = seen /\ Executing' = Executing

(* Commands taken off the queue leave the others as they were.              *)
LEMMA TakenCounts ==
  ASSUME Wires, NEW a \in Axes, NEW cmd, AxisTake(a, cmd), NodeStays(a), done'[a] = done[a],
         a \in Executing, InOrder(a)
  PROVE  /\ \A i \in 1 .. Len(toAxis'[a]) : toAxis'[a][i] # Stop =>
              toAxis'[a][i] = Shift(done'[a] + 1) /\ done'[a] + 1 <= inProc'[a]
         /\ InStep(a) => \A i \in 1 .. Len(toAxis'[a]) :
              toAxis'[a][i] # Stop => i = Len(toAxis'[a]) /\ done'[a] + 1 = inProc'[a]
<1>1. toAxis[a] # <<>> /\ IsQueue(toAxis[a]) /\ toAxis'[a] = Tail(toAxis[a])
  BY Taken
<1>2. /\ Len(toAxis[a]) \in Nat /\ Len(toAxis'[a]) = Len(toAxis[a]) - 1
      /\ \A i \in 1 .. Len(toAxis[a]) - 1 : toAxis'[a][i] = toAxis[a][i + 1]
  BY <1>1, TailQueue
<1> QED
  BY <1>2 DEF InOrder, InStep, NodeStays

LEMMA AxisRefuseCounts ==
  ASSUME Wires, NEW a \in Axes, AxisRefuse(a), NodeStays(a), AxisInv(a), PhaseInv(a)
  PROVE  PhaseInv(a)'
<1>1. /\ UNCHANGED <<fromAxis, at, halting, done>> /\ axisWire[a] = "blocked"
      /\ \E cmd : AxisTake(a, cmd)
  BY DEF AxisRefuse, AxisTake
<1>2. PICK cmd : AxisTake(a, cmd)
  BY <1>1
<1>3. at[a] = 0 /\ (OnlyStops(a) => OnlyStops(a)')
  BY <1>1, <1>2, Taken DEF AxisInv
<1>4. EndOnce(a)'
  BY <1>1, <1>3 DEF PhaseInv, EndOnce, NodeStays
<1>5. ASSUME a \in Executing PROVE InOrder(a)'
  BY <1>1, <1>2, <1>3, <1>5, TakenCounts DEF PhaseInv, InOrder, NodeStays
<1>6. ASSUME a \in Executing, cncWire = "active" PROVE InStep(a)'
  BY <1>1, <1>2, <1>3, <1>6, TakenCounts DEF PhaseInv, InStep, NodeStays
<1> QED
  BY <1>1, <1>4, <1>5, <1>6 DEF PhaseInv, NodeStays

(* The phase that was sent becomes the phase executed.                      *)
LEMMA AxisShiftCounts ==
  ASSUME Wires, NEW a \in Axes, AxisShift(a), NodeStays(a), AxisInv(a), PhaseInv(a)
  PROVE  PhaseInv(a)'
<1>1. AxisTake(a, "timed-shift") /\ axisWire[a] # "blocked" /\ OneOrder(a)
  BY DEF AxisShift, AxisInv
<1>2. ~OnlyStops(a) /\ OnlyStops(a)' /\ Head(toAxis[a]) # Stop
  BY <1>1, Taken DEF OneOrder, Stop
<1>3. at[a] = 0 /\ Unanswered(a) /\ a \in Executing
  BY <1>1, <1>2 DEF OneOrder, AxisInv, NotFollowed
<1>4. /\ Report(a, Active) /\ halting' = halting /\ done' = done
      /\ at'[a] = Head(toAxis[a]).phase
  BY <1>1, <1>3 DEF AxisShift, AxisTake, Active, Wires
<1>5. Unanswered(a)'
  BY <1>3, <1>4, ReportedActive
<1>6. NoEnd(fromAxis'[a])
  <2>1. Active.status # "ready"
    BY DEF Active, Status
  <2> QED
    BY <1>5, <2>1 DEF Unanswered, AllAre, NoEnd
<1>7. /\ 1 \in 1 .. Len(toAxis[a]) /\ Head(toAxis[a]) = toAxis[a][1]
      /\ Len(toAxis[a]) \in Nat
      /\ Len(toAxis'[a]) = Len(toAxis[a]) - 1 /\ IsQueue(toAxis'[a])
  <2>1. toAxis[a] # <<>> /\ IsQueue(toAxis[a])
    BY <1>1, Taken
  <2>2. toAxis'[a] = Tail(toAxis[a])
    BY <1>1, Taken
  <2> QED
    BY <2>1, <2>2, TailQueue
<1>8. InOrder(a) /\ a \notin halting
  BY <1>3 DEF PhaseInv
<1>9. at'[a] = done[a] + 1 /\ done[a] + 1 <= inProc[a]
  <2>1. Head(toAxis[a]) = Shift(done[a] + 1) /\ done[a] + 1 <= inProc[a]
    BY <1>2, <1>7, <1>8 DEF InOrder
  <2> QED
    BY <1>4, <2>1 DEF Shift
<1>10. EndOnce(a)'
  BY <1>3, <1>6 DEF EndOnce, OneEnd, NoEnd, NodeStays
<1>11. InOrder(a)'
  BY <1>2, <1>4, <1>8, <1>9 DEF InOrder, NodeStays, OnlyStops, AllAre
<1>12. ASSUME cncWire = "active" PROVE InStep(a)'
  <2>1. InStep(a)
    BY <1>3, <1>12 DEF PhaseInv
  <2>2. Len(toAxis[a]) = 1 /\ done[a] + 1 = inProc[a]
    BY <1>2, <1>7, <2>1 DEF InStep
  <2>3. toAxis'[a] = <<>>
    BY <1>7, <2>2, EmptyQueue
  <2> QED
    BY <1>2, <1>4, <1>6, <1>9, <2>1, <2>2, <2>3 DEF InStep, NodeStays, NoEnd, OnlyStops, AllAre
<1> QED
  BY <1>3, <1>4, <1>8, <1>10, <1>11, <1>12 DEF PhaseInv, NodeStays

LEMMA AxisStopCounts ==
  ASSUME Wires, NEW a \in Axes, AxisStop(a), NodeStays(a), AxisInv(a), PhaseInv(a)
  PROVE  PhaseInv(a)'
<1>1. /\ AxisTake(a, "stop") /\ at' = at /\ done' = done /\ Report(a, Active)
      /\ halting' = IF at[a] = 0 THEN halting ELSE halting \cup {a}
  BY DEF AxisStop, AxisTake, Active
<1>2. toAxis[a] # <<>> /\ (OnlyStops(a) => OnlyStops(a)')
  BY <1>1, Taken
<1>3. Active.status = "active" /\ ~Active.err
  BY DEF Active, Status
<1>4. fromAxis'[a] \in {fromAxis[a], Append(fromAxis[a], Active)} /\ IsQueue(fromAxis[a])
  BY <1>1, <1>3, Reported DEF Wires
<1>5. /\ OneEnd(fromAxis[a]) => OneEnd(fromAxis'[a])
      /\ NoEnd(fromAxis[a]) => NoEnd(fromAxis'[a])
  BY <1>3, <1>4, AppendEnd
<1>6. EndOnce(a)'
  BY <1>2, <1>5 DEF PhaseInv, EndOnce, NodeStays
<1>7. ASSUME a \in Executing PROVE InOrder(a)'
  BY <1>1, <1>7, TakenCounts DEF PhaseInv, InOrder, NodeStays
<1>8. ASSUME a \in Executing, cncWire = "active" PROVE InStep(a)'
  <2>1. InStep(a) /\ at[a] = 0
    BY <1>2, <1>8 DEF PhaseInv, InStep
  <2>2. \A j \in 1 .. Len(fromAxis'[a]) :
          fromAxis'[a][j].status = "ready" /\ ~fromAxis'[a][j].err => done[a] = inProc[a]
    BY <1>3, <1>4, <2>1, AppendQueue DEF InStep
  <2> QED
    BY <1>1, <1>8, <2>1, <2>2, TakenCounts DEF PhaseInv, InStep, NodeStays
<1> QED
  BY <1>1, <1>6, <1>7, <1>8 DEF PhaseInv, NodeStays

(* A phase ends: done, or broken off by a stop or by a failure.             *)
LEMMA EndCounts ==
  ASSUME Wires, NEW a \in Axes, NodeStays(a), AxisInv(a), PhaseInv(a),
         at[a] # 0, at'[a] = 0, a \notin halting', toAxis' = toAxis,
         NEW err \in BOOLEAN, fromAxis'[a] = Append(fromAxis[a], Status("ready", err)),
         done'[a] = IF err \/ a \in halting THEN done[a] ELSE at[a]
  PROVE  PhaseInv(a)'
<1>1. OnlyStops(a) /\ NoEnd(fromAxis[a]) /\ a \in Executing
  BY UnansweredNoEnd DEF AxisInv, OneOrder, NotFollowed
<1>2. OnlyStops(a)' /\ IsQueue(fromAxis[a])
  BY <1>1 DEF OnlyStops, Wires
<1>3. EndOnce(a)'
  BY <1>1, <1>2, AppendEnd DEF EndOnce, NodeStays
<1>4. InOrder(a) /\ done[a] \in Nat
  BY <1>1 DEF PhaseInv
<1>5. done'[a] \in Nat /\ done'[a] <= inProc[a]
  BY <1>4 DEF InOrder
<1>6. InOrder(a)'
  BY <1>2, <1>4, <1>5 DEF InOrder, NodeStays, OnlyStops, AllAre
<1>7. ASSUME cncWire = "active" PROVE InStep(a)'
  <2>1. InStep(a) /\ (~err => done'[a] = inProc[a])
    BY <1>1, <1>7 DEF PhaseInv, InStep
  <2>2. Status("ready", err).err = err
    BY DEF Status
  <2>3. \A j \in 1 .. Len(fromAxis'[a]) :
          fromAxis'[a][j].status = "ready" /\ ~fromAxis'[a][j].err => done'[a] = inProc[a]
    BY <1>1, <1>2, <2>1, <2>2, AppendQueue DEF NoEnd
  <2> QED
    BY <1>2, <2>1, <2>3 DEF InStep, NodeStays, OnlyStops, AllAre
<1> QED
  BY <1>1, <1>3, <1>5, <1>6, <1>7 DEF PhaseInv, NodeStays

(* A drive that fails: the end of its phase, if it had one, and the failure. *)
LEMMA DriveFaultCounts ==
  ASSUME Wires, NEW a \in Axes, DriveFault(a), NodeStays(a), AxisInv(a), PhaseInv(a)
  PROVE  PhaseInv(a)'
<1> DEFINE ready == Status("ready", TRUE)
           blocked == Status("blocked", TRUE)
           q == IF at[a] = 0 THEN fromAxis[a] ELSE Append(fromAxis[a], ready)
<1>1. /\ at'[a] = 0 /\ a \notin halting' /\ done' = done /\ toAxis' = toAxis
      /\ fromAxis'[a] = fromAxis[a] \o (IF at[a] = 0 THEN <<>> ELSE <<ready>>) \o <<blocked>>
  BY DEF DriveFault, AxisOwn, Wires
<1>2. IsQueue(fromAxis[a]) /\ (OnlyStops(a) => OnlyStops(a)')
  BY <1>1 DEF Wires, OnlyStops
<1>3. ready.status = "ready" /\ ready.err /\ blocked.status = "blocked"
  BY DEF Status
<1> HIDE DEF ready, blocked
<1>4. IsQueue(q) /\ fromAxis'[a] = Append(q, blocked)
  <2>1. fromAxis[a] \o (IF at[a] = 0 THEN <<>> ELSE <<ready>>) = q
    BY <1>2, ConcatOne
  <2>2. IsQueue(q)
    BY <1>2, AppendQueue
  <2> HIDE DEF q
  <2> QED
    BY <1>1, <2>1, <2>2, ConcatOne
<1>5. at[a] # 0 => OnlyStops(a) /\ NoEnd(fromAxis[a]) /\ a \in Executing
  BY UnansweredNoEnd DEF AxisInv, OneOrder, NotFollowed
<1>6. OneEnd(q) /\ (NoEnd(q) \/ OnlyStops(a)) /\ (at[a] = 0 => q = fromAxis[a])
  BY <1>2, <1>5, AppendEnd DEF PhaseInv, EndOnce
<1>7. EndOnce(a)'
  <2>1. OneEnd(fromAxis'[a]) /\ (NoEnd(q) => NoEnd(fromAxis'[a]))
    <3> HIDE DEF q
    <3> QED
      BY <1>3, <1>4, <1>6, AppendEnd
  <2> QED
    BY <1>2, <1>5, <1>6, <2>1 DEF PhaseInv, EndOnce, NodeStays
<1>8. ASSUME a \in Executing PROVE InOrder(a)'
  BY <1>1, <1>8 DEF PhaseInv, InOrder, NodeStays
<1>9. ASSUME a \in Executing, cncWire = "active" PROVE InStep(a)'
  <2>1. InStep(a)
    BY <1>9 DEF PhaseInv
  <2>2. \A j \in 1 .. Len(q) : q[j].status = "ready" /\ ~q[j].err => done[a] = inProc[a]
    BY <1>2, <1>3, <2>1, AppendQueue DEF InStep
  <2>3. \A j \in 1 .. Len(fromAxis'[a]) :
          fromAxis'[a][j].status = "ready" /\ ~fromAxis'[a][j].err => done[a] = inProc[a]
    <3> HIDE DEF q
    <3> QED
      BY <1>3, <1>4, <2>2, AppendQueue
  <2> QED
    BY <1>1, <2>1, <2>3 DEF InStep, NodeStays
<1> QED
  BY <1>1, <1>7, <1>8, <1>9 DEF PhaseInv, NodeStays

LEMMA DriveUpCounts ==
  ASSUME SlowDrive, Wires, NEW a \in Axes, DriveUp(a), NodeStays(a), AxisInv(a), PhaseInv(a)
  PROVE  PhaseInv(a)'
<1>1. /\ axisWire[a] = "blocked" /\ toAxis[a] = <<>> /\ fromAxis[a] = <<>>
      /\ toAxis' = toAxis /\ at' = at /\ done' = done /\ halting' = halting
      /\ Report(a, Status("ready", FALSE))
  BY DEF DriveUp
<1>2. at[a] = 0 /\ seen[a] = "blocked"
  BY <1>1 DEF AxisInv, FaultIsTold
<1>3. Status("ready", FALSE).status = "ready"
  BY DEF Status
<1>4. fromAxis'[a] = Append(fromAxis[a], Status("ready", FALSE)) /\ IsQueue(fromAxis[a])
  BY <1>1, <1>3, Reported DEF Wires
<1>5. NoEnd(fromAxis[a]) /\ OnlyStops(a)'
  BY <1>1, NoneOther DEF NoEnd, OnlyStops
<1>6. EndOnce(a)'
  BY <1>2, <1>4, <1>5, AppendEnd DEF EndOnce, NodeStays
<1>7. ASSUME a \in Executing PROVE InOrder(a)'
  BY <1>1, <1>7 DEF PhaseInv, InOrder, NodeStays
<1>8. ~(a \in Executing /\ cncWire = "active")
  BY <1>2 DEF PhaseInv, InStep
<1> QED
  BY <1>1, <1>6, <1>7, <1>8 DEF PhaseInv, NodeStays

LEMMA AxisCounts ==
  ASSUME SlowDrive, Wires, DOMAIN done = Axes, NEW a \in Axes, Axis(a), AxisInv(a), PhaseInv(a),
         NEW b \in Axes, PhaseInv(b)
  PROVE  PhaseInv(b)'
<1>0. NodeStays(a)
  <2>1. AxisStep
    BY DEF Axis, AxisServes, AxisRefuse, AxisShift, AxisStop, AxisTake, AxisEnds,
           AxisHardStop, DriveFault, DriveUp, AxisOwn
  <2> QED
    BY <2>1 DEF AxisStep, nodeVars, NodeStays, Executing
<1>1. CASE b # a
  <2>1. SameAxis(b) /\ toAxis'[b] = toAxis[b]
    BY <1>1, AxisLocal
  <2>2. done'[b] = done[b]
    BY <1>1 DEF Axis, AxisServes, AxisRefuse, AxisShift, AxisStop, AxisTake, AxisEnds,
                AxisHardStop, DriveFault, DriveUp
  <2> QED
    BY <1>0, <2>1, <2>2, CountUntouched DEF NodeStays
<1>2. CASE b = a
  <2>1. CASE AxisRefuse(a)
    BY <1>0, <1>2, <2>1, AxisRefuseCounts
  <2>2. CASE AxisShift(a)
    BY <1>0, <1>2, <2>2, AxisShiftCounts
  <2>3. CASE AxisStop(a)
    BY <1>0, <1>2, <2>3, AxisStopCounts
  <2>4. ASSUME NEW err \in BOOLEAN, at[a] # 0, AxisOwn(a), Report(a, Status("ready", err)),
               done'[a] = IF err \/ a \in halting THEN done[a] ELSE at[a]
        PROVE  PhaseInv(a)'
    <3>1. at'[a] = 0 /\ a \notin halting' /\ toAxis' = toAxis
      BY <2>4 DEF AxisOwn, Wires
    <3>2. Status("ready", err).status = "ready" /\ axisWire[a] = "active"
      BY <2>4 DEF Status, AxisInv
    <3>3. fromAxis'[a] = Append(fromAxis[a], Status("ready", err))
      BY <2>4, <3>2, Reported
    <3> QED
      BY <1>0, <2>4, <3>1, <3>3, EndCounts
  <2>5. CASE AxisEnds(a)
    <3>1. done'[a] = IF a \in halting THEN done[a] ELSE at[a]
      BY <2>5 DEF AxisEnds
    <3> QED
      BY <1>2, <2>4, <2>5, <3>1 DEF AxisEnds
  <2>6. CASE AxisHardStop(a)
    BY <1>2, <2>4, <2>6 DEF AxisHardStop
  <2>7. CASE DriveFault(a)
    BY <1>0, <1>2, <2>7, DriveFaultCounts
  <2>8. CASE DriveUp(a)
    BY <1>0, <1>2, <2>8, DriveUpCounts
  <2> QED
    BY <2>1, <2>2, <2>3, <2>5, <2>6, <2>7, <2>8 DEF Axis, AxisServes
<1> QED
  BY <1>1, <1>2

-----------------------------------------------------------------------------
PhasesInv ==
  /\ FollowInv
  /\ DOMAIN done = Axes /\ DOMAIN axisPhases \subseteq Axes /\ Executing \subseteq Axes
  /\ \A a \in Axes : PhaseInv(a)

LEMMA InitPhases == Init => PhasesInv
<1> SUFFICES ASSUME Init PROVE PhasesInv
  OBVIOUS
<1>1. DOMAIN done = Axes /\ DOMAIN axisPhases = {} /\ Executing = {}
  BY DEF Init, None, Executing
<1>2. ASSUME NEW a \in Axes PROVE PhaseInv(a)
  <2>1. toAxis[a] = <<>> /\ fromAxis[a] = <<>> /\ done[a] = 0 /\ halting = {}
    BY DEF Init
  <2>2. OnlyStops(a) /\ NoEnd(fromAxis[a]) /\ OneEnd(fromAxis[a])
    BY <2>1, NoneOther DEF OnlyStops, NoEnd, OneEnd
  <2> QED
    BY <1>1, <2>1, <2>2 DEF PhaseInv, EndOnce
<1> QED
  BY <1>1, <1>2, InitFollow DEF PhasesInv

(* Tasks and counts speak of the axes only.                                 *)
LEMMA CountsStay ==
  ASSUME PhasesInv, [Next]_vars
  PROVE  /\ DOMAIN done' = Axes /\ DOMAIN axisPhases' \subseteq Axes
         /\ Executing' \subseteq Axes
<1>1. CASE Activate
  <2>1. axisPhases' \in Tasks /\ done' = [a \in Axes |-> 0]
    BY <1>1, HeadIsTask DEF Activate, Take, PhasesInv, FollowInv, WireInv
  <2>2. Executing' = DOMAIN axisPhases'
    BY <1>1 DEF Activate, Executing
  <2> QED
    BY <2>1, <2>2 DEF Tasks
<1>2. CASE Reject \/ Deactivate \/ Refuse
  <2>1. Executing' \subseteq Executing
    BY <1>2 DEF Reject, Deactivate, Refuse, TerminateExecution, Executing, None
  <2> QED
    BY <1>2, <2>1 DEF Reject, Deactivate, Refuse, PhasesInv
<1>3. CASE Client \/ UNCHANGED vars
  BY <1>3 DEF Client, ClientActivate, ClientStop, ClientReceive, ClientStep, vars,
              nodeVars, PhasesInv, Executing
<1>4. ASSUME NEW a \in Axes, AxisStatus(a)
      PROVE  /\ DOMAIN done' = Axes /\ axisPhases' = axisPhases
             /\ Executing' \subseteq Axes
  <2>1. \/ UNCHANGED inProc \/ ExecutePhase(a) \/ AxisBrokeOff(a)
    BY <1>4 DEF AxisStatus
  <2>2. Executing' \subseteq Executing
    BY <2>1 DEF ExecutePhase, AxisBrokeOff, TerminateExecution, Executing, None,
                Dropped, Restrict
  <2> QED
    BY <1>4, <2>2 DEF AxisStatus, PhasesInv
<1>5. ASSUME NEW a \in Axes, Axis(a)
      PROVE  /\ DOMAIN done' = Axes /\ axisPhases' = axisPhases
             /\ Executing' \subseteq Axes
  BY <1>5 DEF Axis, AxisServes, AxisRefuse, AxisShift, AxisStop, AxisTake, AxisEnds,
              AxisHardStop, DriveFault, DriveUp, AxisOwn, AxisStep, nodeVars, PhasesInv,
              Executing
<1> QED
  BY <1>1, <1>2, <1>3, <1>4, <1>5 DEF Next, Serve, PhasesInv

LEMMA NextPhases ==
  ASSUME PatientClient, SlowDrive, PhasesInv, [Next]_vars
  PROVE  PhasesInv'
<1>0. /\ FollowInv /\ WireInv /\ ClientInv /\ Wires /\ DOMAIN done = Axes
      /\ \A a \in Axes : AxisInv(a) /\ PhaseInv(a)
  BY DEF PhasesInv, FollowInv
<1>1. /\ FollowInv' /\ DOMAIN done' = Axes /\ DOMAIN axisPhases' \subseteq Axes
      /\ Executing' \subseteq Axes
  BY <1>0, NextFollow, CountsStay
<1>2. ASSUME NEW b \in Axes
      PROVE  PhaseInv(b)'
  <2>1. CASE Serve
    BY <1>0, <2>1, ServeCounts
  <2>2. ASSUME NEW a \in Axes, AxisStatus(a)
        PROVE  PhaseInv(b)'
    BY <1>0, <2>2, AxisStatusCounts
  <2>3. ASSUME NEW a \in Axes, Axis(a)
        PROVE  PhaseInv(b)'
    BY <1>0, <2>3, AxisCounts
  <2>4. CASE Client \/ UNCHANGED vars
    <3>1. UNCHANGED <<nodeVars, toAxis, axisVars, done>>
      BY <2>4 DEF Client, ClientActivate, ClientStop, ClientReceive, ClientStep, vars
    <3>2. SameAxis(b) /\ toAxis'[b] = toAxis[b] /\ done'[b] = done[b]
          /\ UNCHANGED <<cncWire, inProc, axisPhases>>
      BY <3>1 DEF nodeVars, axisVars, SameAxis
    <3> QED
      BY <1>0, <3>2, CountUntouched DEF Executing
  <2> QED
    BY <2>1, <2>2, <2>3, <2>4 DEF Next
<1> QED
  BY <1>1, <1>2 DEF PhasesInv

(***************************************************************************)
(* The phases of an axis are executed in the order of the task, none twice  *)
(* and none the node has not counted (execute_phase, in_proc_).            *)
(***************************************************************************)
THEOREM PhasesAlwaysInOrder ==
  ASSUME PatientClient, SlowDrive PROVE Spec => []PhasesInOrder
<1>1. PhasesInv => PhasesInOrder
  <2> SUFFICES ASSUME PhasesInv, NEW a \in Executing \ halting, at[a] # 0
               PROVE  at[a] = done[a] + 1 /\ at[a] <= inProc[a]
    BY DEF PhasesInOrder
  <2>1. InOrder(a)
    BY DEF PhasesInv, PhaseInv
  <2> QED
    BY <2>1 DEF InOrder
<1>2. PhasesInv /\ [Next]_vars => PhasesInv'
  BY NextPhases
<1> QED
  BY <1>1, <1>2, InitPhases, PTL DEF Spec

(* The wire becomes ready without an error on the end of the last axis, or   *)
(* when a command is served.                                               *)
LEMMA ReadyOnLastEnd ==
  ASSUME PhasesInv, [Next]_vars, cncWire = "active", cncWire' = "ready", toCnc' = toCnc,
         ~fromCnc'[Len(fromCnc')].err
  PROVE  \E a \in Axes : AxisStatus(a) /\ Executing = {a} /\ ExecutePhase(a)
                         /\ Head(fromAxis[a]).status = "ready" /\ ~Head(fromAxis[a]).err
<1>0. IsQueue(toCnc) /\ IsQueue(fromCnc) /\ cncWire # cncWire'
  BY CommandsAreQueue DEF PhasesInv, FollowInv, WireInv, ClientInv
<1>1. ASSUME NEW cmd, Take(cmd) PROVE FALSE
  <2>1. toCnc # <<>> /\ toCnc' = Tail(toCnc)
    BY <1>1 DEF Take
  <2>2. Len(toCnc) \in Nat /\ Len(toCnc') = Len(toCnc) - 1
    BY <1>0, <2>1, TailQueue
  <2> QED
    BY <2>2
<1>2. ~Serve
  BY <1>1 DEF Serve, Activate, Reject, Deactivate, Refuse
<1>3. ~(Client \/ UNCHANGED vars)
  BY <1>0 DEF Client, ClientActivate, ClientStop, ClientReceive, ClientStep, vars, nodeVars
<1>4. ASSUME NEW a \in Axes, Axis(a) PROVE FALSE
  BY <1>0, <1>4, AxisLocal DEF PhasesInv, FollowInv
<1>5. PICK a \in Axes : AxisStatus(a)
  BY <1>2, <1>3, <1>4 DEF Next
<1>6. ~AxisBrokeOff(a)
  <2>1. ASSUME fromCnc' = Append(fromCnc, Status("ready", TRUE)) PROVE FALSE
    <3> DEFINE e == Status("ready", TRUE)
    <3>1. e.err
      BY DEF Status
    <3>2. fromCnc' = Append(fromCnc, e)
      BY <2>1
    <3> HIDE DEF e
    <3>3. Len(fromCnc') = Len(fromCnc) + 1 /\ fromCnc'[Len(fromCnc) + 1] = e
      BY <1>0, <3>2, AppendQueue
    <3> QED
      BY <3>1, <3>3
  <2> QED
    BY <2>1 DEF AxisBrokeOff, TerminateExecution
<1>7. /\ ExecutePhase(a) /\ a \in Executing
      /\ Head(fromAxis[a]).status = "ready" /\ ~Head(fromAxis[a]).err
  BY <1>0, <1>5, <1>6 DEF AxisStatus
<1>8. Executing = {a}
  BY <1>0, <1>7 DEF ExecutePhase
<1> QED
  BY <1>5, <1>7, <1>8

(***************************************************************************)
(* A client that is told "ready" without an error, and did not ask for it,  *)
(* may count on every axis having completed its list (execute_phase).       *)
(***************************************************************************)
THEOREM ReadyIsDone ==
  ASSUME PatientClient, SlowDrive PROVE Spec => ReadyMeansDone
<1>1. ASSUME PhasesInv, [Next]_vars, cncWire = "active", cncWire' = "ready", toCnc' = toCnc,
             ~fromCnc'[Len(fromCnc')].err, NEW b \in DOMAIN axisPhases
      PROVE  done[b] = axisPhases[b]
  <2>1. PICK a \in Axes : /\ AxisStatus(a) /\ Executing = {a} /\ ExecutePhase(a)
                          /\ Head(fromAxis[a]).status = "ready" /\ ~Head(fromAxis[a]).err
    BY <1>1, ReadyOnLastEnd
  <2>2. CASE b # a
    BY <1>1, <2>1, <2>2 DEF PhasesInv, PhaseInv
  <2>3. CASE b = a
    <3>1. 1 \in 1 .. Len(fromAxis[a]) /\ Head(fromAxis[a]) = fromAxis[a][1]
      BY <1>1, <2>1, TailQueue DEF PhasesInv, FollowInv, Wires, AxisStatus
    <3>2. done[a] = inProc[a]
      BY <1>1, <2>1, <3>1 DEF PhasesInv, PhaseInv, InStep
    <3>3. inProc[a] = axisPhases[a]
      BY <1>1, <2>1 DEF ExecutePhase
    <3> QED
      BY <2>3, <3>2, <3>3
  <2> QED
    BY <2>2, <2>3
<1>2. PhasesInv /\ [Next]_vars => PhasesInv'
  BY NextPhases
<1>3. PhasesInv /\ [Next]_vars =>
        [ cncWire = "active" /\ cncWire' = "ready" /\ toCnc' = toCnc
          /\ ~fromCnc'[Len(fromCnc')].err
            => \A a \in DOMAIN axisPhases : done[a] = axisPhases[a] ]_vars
  BY <1>1
<1> QED
  BY <1>2, <1>3, InitPhases, PTL DEF Spec, ReadyMeansDone

=============================================================================
