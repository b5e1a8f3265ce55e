-------------------------- MODULE AutoSystem_proofs --------------------------
(***************************************************************************)
(* What holds of AutoSystem for every set of axes, every set of programs    *)
(* and every bound: the listeners and timers follow the state, and a run    *)
(* that is over leaves nothing switched on.                                *)
(***************************************************************************)
EXTENDS AutoSystem, DataLemmas, TLAPS

USE DEF SwitchTo, StopExecution, SystemReadyMonitor, Throw, Called,
        ExecuteOperation, stateVars, listeners, wires, sent, history

(***************************************************************************)
(* The listeners and the pause timer are inductive by themselves.          *)
(***************************************************************************)
LEMMA CncKeepsNode == Cnc => AxisSide
<1>1. (\E cmd : CncTake(cmd)) \/ CncOwn => AxisSide
  BY DEF CncTake, CncOwn
<1>2. CncActivate \/ CncReject \/ CncDeactivate => \E cmd : CncTake(cmd)
  BY Zenon DEF CncActivate, CncReject, CncDeactivate
<1>3. CncAdvance \/ CncDone \/ CncFail \/ CncStopped => CncOwn
  BY Zenon DEF CncAdvance, CncDone, CncFail, CncStopped
<1>4. (\E a \in Axes : CncReport(a)) => CncOwn
  BY Zenon DEF CncReport
<1> QED BY <1>1, <1>2, <1>3, <1>4, Zenon DEF Cnc

LEMMA StuffKeepsNode == Stuff => StuffOther
  BY Zenon DEF Stuff, StuffServes, StuffReject, StuffFail

LEMMA ListenersInit == Init => ListenersFollowState
  BY DEF Init, AutoInit, ListenersFollowState

LEMMA ListenersStep ==
  ASSUME ListenersFollowState, [Next]_vars
  PROVE  ListenersFollowState'
<1> USE DEF ListenersFollowState
<1>1. CASE UserUpload
  BY <1>1 DEF UserUpload, UserCommand, UploadProgram
<1>2. CASE UserStart
  BY <1>2 DEF UserStart, UserCommand, Activate
<1>3. CASE UserContinue
  BY <1>3 DEF UserContinue, UserCommand, Activate
<1>4. CASE UserStop
  BY <1>4 DEF UserStop, UserCommand, Deactivate
<1>5. CASE AxisReceive
  <2>1. CASE \E s, e : AxisStatus(s, e)
    BY <2>1 DEF AxisStatus
  <2>2. CASE \E a, v : AxisPosition(a, v, Where)
    BY <2>2 DEF AxisPosition
  <2> QED BY <1>5, <2>1, <2>2 DEF AxisReceive
<1>6. CASE StuffReceive
  BY <1>6 DEF StuffReceive, StuffStatus
<1>7. CASE StateTimer
  <2>1. CASE Idle
    BY <2>1 DEF Idle
  <2>2. CASE SInitialize
    BY <2>2 DEF SInitialize
  <2>3. CASE SProgramExecutionLoop
    BY <2>3 DEF SProgramExecutionLoop
  <2>4. CASE SInitPause(Where)
    BY <2>4 DEF SInitPause
  <2>5. CASE SPauseDone
    BY <2>5 DEF SPauseDone
  <2>6. CASE SExecuteOperation(Where)
    BY <2>6 DEF SExecuteOperation
  <2>7. CASE SStartMoving(Where)
    BY <2>7 DEF SStartMoving
  <2>8. CASE SMovingDone
    BY <2>8 DEF SMovingDone
  <2> QED BY <1>7, <2>1, <2>2, <2>3, <2>4, <2>5, <2>6, <2>7, <2>8
          DEF StateTimer, StateCall
<1>8. CASE PauseTimeout
  BY <1>8 DEF PauseTimeout, PauseTimer
<1>9. CASE Cnc
  BY <1>9, CncKeepsNode DEF AxisSide
<1>10. CASE Stuff
  BY <1>10, StuffKeepsNode DEF StuffOther
<1>11. CASE UNCHANGED vars
  BY <1>11 DEF vars, autoVars
<1> QED
  BY <1>1, <1>2, <1>3, <1>4, <1>5, <1>6, <1>7, <1>8, <1>9, <1>10, <1>11
     DEF Next, User, Node

(***************************************************************************)
(* A run's listeners and timer never act outside the state that set them.  *)
(***************************************************************************)
THEOREM ListenersAlwaysFollowState == Spec => []ListenersFollowState
<1>1. ListenersFollowState /\ [Next]_vars => ListenersFollowState'
  BY ListenersStep
<1> QED BY <1>1, ListenersInit, PTL DEF Spec

-----------------------------------------------------------------------------
LEMMA TailEnds ==
  ASSUME NEW q, IsQueue(q), q # <<>>
  PROVE  /\ IsQueue(Tail(q))
         /\ EndsWithDeactivation(q) =>
              \/ EndsWithDeactivation(Tail(q))
              \/ Tail(q) = <<>> /\ Head(q).cmd = "deactivate"
  BY TailQueue, TailKeepsLast DEF EndsWithDeactivation

Queues == IsQueue(toAxis) /\ IsQueue(toStuff)

OffInv == ListenersFollowState /\ Queues /\ StoppedMeansOff

LEMMA DeactivationEnds ==
  ASSUME NEW q, IsQueue(q)
  PROVE  EndsWithDeactivation(Append(q, Deactivation))
  BY AppendQueue DEF EndsWithDeactivation, Deactivation

(***************************************************************************)
(* The steps of auto_mode and of the operator: while a run goes on they     *)
(* send what they like; a run ends in stop_execution only, which sends the  *)
(* two deactivations last.                                                 *)
(***************************************************************************)
NodeSends ==
  /\ cncVars' = cncVars /\ stuffVars' = stuffVars
  /\ \/ toAxis' = toAxis /\ toStuff' = toStuff
        /\ (state = "null" \/ state' # "null")
     \/ state' # "null" /\ Queues'
     \/ /\ toAxis' = Append(toAxis, Deactivation)
        /\ toStuff' = Append(toStuff, Deactivation)

LEMMA NodeSendsLast ==
  ASSUME OffInv, NodeSends
  PROVE  Queues' /\ StoppedMeansOff'
<1> USE DEF OffInv, Queues
<1>1. CASE /\ toAxis' = toAxis /\ toStuff' = toStuff
           /\ (state = "null" \/ state' # "null")
  BY <1>1 DEF NodeSends, StoppedMeansOff, cncVars, stuffVars, EndsWithDeactivation
<1>2. CASE state' # "null" /\ Queues'
  BY <1>2 DEF StoppedMeansOff
<1>3. CASE /\ toAxis' = Append(toAxis, Deactivation)
           /\ toStuff' = Append(toStuff, Deactivation)
  BY <1>3, DeactivationEnds, AppendQueue DEF StoppedMeansOff, EndsWithDeactivation
<1> QED BY <1>1, <1>2, <1>3 DEF NodeSends

LEMMA NodeStepSends ==
  ASSUME OffInv, User \/ Node
  PROVE  NodeSends
<1> USE DEF NodeSends, cncVars, stuffVars
<1>q. \A e : IsQueue(Append(toAxis, e)) /\ IsQueue(Append(toStuff, e))
  BY AppendQueue DEF OffInv, Queues
<1>l. ListenersFollowState /\ IsQueue(toAxis) /\ IsQueue(toStuff)
  BY DEF OffInv, Queues
<1>1. CASE UserUpload
  BY <1>1 DEF UserUpload, UserCommand, UploadProgram
<1>2. CASE UserStart \/ UserContinue
  BY <1>2, <1>q, <1>l DEF UserStart, UserContinue, UserCommand, Activate, Queues
<1>3. CASE UserStop
  BY <1>3 DEF UserStop, UserCommand, Deactivate
<1>4. CASE AxisReceive
  <2>1. CASE \E s, e : AxisStatus(s, e)
    BY <1>4, <2>1 DEF AxisReceive, NodeStep, AxisStatus
  <2>2. CASE \E a, v : AxisPosition(a, v, Where)
    <3>1. UNCHANGED <<state, toAxis>> /\ cncVars' = cncVars /\ stuffVars' = stuffVars
      BY <1>4, <2>2 DEF AxisReceive, NodeStep, AxisPosition
    <3>2. \/ UNCHANGED toStuff
          \/ state = "start_moving" /\ \E e : toStuff' = Append(toStuff, e)
      BY <2>2 DEF AxisPosition
    <3>3. CASE state = "start_moving" /\ \E e : toStuff' = Append(toStuff, e)
      BY <1>q, <1>l, <3>1, <3>3 DEF Queues
    <3> QED BY <3>1, <3>2, <3>3
  <2> QED BY <1>4, <2>1, <2>2 DEF AxisReceive
<1>5. CASE StuffReceive
  BY <1>5 DEF StuffReceive, NodeStep, StuffStatus
<1>6. CASE StateTimer
  <2> USE <1>6 DEF StateTimer, NodeStep
  <2>1. CASE Idle
    BY <2>1 DEF Idle
  <2>2. CASE SInitialize
    BY <2>2 DEF SInitialize
  <2>3. CASE SProgramExecutionLoop
    BY <2>3 DEF SProgramExecutionLoop
  <2>4. CASE SInitPause(Where)
    BY <2>4 DEF SInitPause
  <2>5. CASE SPauseDone
    BY <2>5 DEF SPauseDone
  <2>6. CASE SExecuteOperation(Where)
    BY <2>6, <1>q, <1>l DEF SExecuteOperation, Queues
  <2>7. CASE SStartMoving(Where)
    BY <2>7, <1>q, <1>l DEF SStartMoving, Queues
  <2>8. CASE SMovingDone
    BY <2>8 DEF SMovingDone
  <2> QED BY <2>1, <2>2, <2>3, <2>4, <2>5, <2>6, <2>7, <2>8 DEF StateCall
<1>7. CASE PauseTimeout
  BY <1>7 DEF PauseTimeout, NodeStep, PauseTimer
<1> QED BY <1>1, <1>2, <1>3, <1>4, <1>5, <1>6, <1>7 DEF User, Node

(***************************************************************************)
(* multi_axis_ctl and stuff_ctl: serving a queue that ends with a           *)
(* deactivation leaves such a queue, or the deactivation was the last.     *)
(***************************************************************************)
LEMMA CncServes ==
  ASSUME OffInv, Cnc
  PROVE  Queues' /\ StoppedMeansOff'
<1> USE DEF OffInv, Queues, StoppedMeansOff
<1>n. AxisSide
  BY CncKeepsNode
<1>s. UNCHANGED <<toStuff, state, stuffStatus, engaged>>
  <2>1. CncOther
    BY DEF Cnc, CncActivate, CncReject, CncDeactivate, CncTake, CncAdvance,
           CncReport, CncDone, CncFail, CncStopped, CncOwn
  <2> QED BY <1>n, <2>1 DEF AxisSide, CncOther, stuffVars
<1>1. CASE CncActivate \/ CncReject
  <2>1. CncTake("move")
    BY <1>1 DEF CncActivate, CncReject
  <2>2. toAxis # <<>> /\ Head(toAxis).cmd = "move" /\ toAxis' = Tail(toAxis)
    BY <2>1 DEF CncTake
  <2> QED BY <1>s, <2>2, TailEnds DEF EndsWithDeactivation
<1>2. CASE CncDeactivate
  <2>1. toAxis # <<>> /\ toAxis' = Tail(toAxis)
    BY <1>2 DEF CncDeactivate, CncTake
  <2>2. cncWire' # "active" /\ cncRun' # "moving"
    BY <1>2 DEF CncDeactivate
  <2> QED BY <1>s, <2>1, <2>2, TailEnds DEF EndsWithDeactivation
<1>3. CASE CncAdvance \/ \E a \in Axes : CncReport(a)
  BY <1>3, <1>s DEF CncAdvance, CncReport, CncOwn, EndsWithDeactivation
<1>4. CASE CncDone \/ CncFail \/ CncStopped
  BY <1>4, <1>s DEF CncDone, CncFail, CncStopped, CncOwn, EndsWithDeactivation
<1> QED BY <1>1, <1>2, <1>3, <1>4 DEF Cnc

LEMMA StuffServesLast ==
  ASSUME OffInv, Stuff
  PROVE  Queues' /\ StoppedMeansOff'
<1> USE DEF OffInv, Queues, StoppedMeansOff
<1>s. UNCHANGED <<toAxis, state, cncWire, cncRun>>
  BY StuffKeepsNode DEF StuffOther, cncVars
<1>1. CASE Side!Accept \/ Side!Reject
  <2>1. /\ toStuff # <<>> /\ toStuff' = Tail(toStuff)
        /\ Head(toStuff).cmd \in {"prepare", "operation"}
    BY <1>1 DEF Side!Accept, Side!Reject, Side!Take
  <2> QED BY <1>s, <2>1, TailEnds DEF EndsWithDeactivation
<1>2. CASE Side!Deactivate
  <2>1. /\ toStuff # <<>> /\ toStuff' = Tail(toStuff)
        /\ stuffStatus' # "active" /\ engaged' = FALSE
    BY <1>2 DEF Side!Deactivate, Side!Take
  <2> QED BY <1>s, <2>1, TailEnds DEF EndsWithDeactivation
<1>3. CASE Side!Fail
  BY <1>3, <1>s DEF Side!Fail, EndsWithDeactivation
<1> QED BY <1>1, <1>2, <1>3 DEF Stuff, StuffServes, StuffReject, StuffFail

(***************************************************************************)
(* A run that is over leaves no device on and no axis driven, whatever was  *)
(* still under way on the wires when it was stopped.                       *)
(***************************************************************************)
THEOREM StoppedIsOff == Spec => []StoppedMeansOff
<1>1. Init => OffInv
  <2>1. ASSUME Init PROVE Queues
    <3>1. toAxis \in Seq({}) /\ toStuff \in Seq({})
      BY <2>1 DEF Init, AutoInit
    <3> QED BY <3>1 DEF Queues, IsQueue
  <2>2. Init => StoppedMeansOff
    BY DEF Init, AutoInit, Side!Init, StoppedMeansOff
  <2> QED BY <2>1, <2>2, ListenersInit DEF OffInv
<1>2. OffInv /\ [Next]_vars => OffInv'
  <2> SUFFICES ASSUME OffInv, [Next]_vars PROVE OffInv'
    OBVIOUS
  <2>1. ListenersFollowState'
    BY ListenersStep DEF OffInv
  <2>2. Queues' /\ StoppedMeansOff'
    <3>1. CASE User \/ Node
      BY <3>1, NodeStepSends, NodeSendsLast
    <3>2. CASE Cnc
      BY <3>2, CncServes
    <3>3. CASE Stuff
      BY <3>3, StuffServesLast
    <3>4. CASE UNCHANGED vars
      BY <3>4 DEF vars, autoVars, cncVars, stuffVars, OffInv, Queues, StoppedMeansOff,
                  EndsWithDeactivation
    <3> QED BY <3>1, <3>2, <3>3, <3>4 DEF Next
  <2> QED BY <2>1, <2>2 DEF OffInv
<1>3. OffInv => StoppedMeansOff
  BY DEF OffInv
<1> QED BY <1>1, <1>2, <1>3, PTL DEF Spec

-----------------------------------------------------------------------------
(***************************************************************************)
(* When "continue" is pressed only in a pause, the input wire is active for *)
(* as long as a program runs: the operator can always stop it.             *)
(***************************************************************************)
THEOREM RunAlwaysStoppable ==
  ASSUME StaleButton = FALSE
  PROVE  Spec => []RunIsStoppable
<1> USE DEF RunIsStoppable
<1>1. Init => RunIsStoppable
  BY DEF Init, AutoInit
<1>2. ASSUME RunIsStoppable, ListenersFollowState, [Next]_vars
      PROVE  RunIsStoppable'
  <2>1. CASE UserUpload
    BY <1>2, <2>1 DEF UserUpload, UserCommand, UploadProgram
  <2>2. CASE UserStart
    BY <1>2, <2>2 DEF UserStart, UserCommand, Activate
  <2>3. CASE UserContinue
    BY <1>2, <2>3 DEF UserContinue, UserCommand, Activate
  <2>4. CASE UserStop
    BY <1>2, <2>4 DEF UserStop, UserCommand, Deactivate
  <2>5. CASE AxisReceive
    <3>1. CASE \E s, e : AxisStatus(s, e)
      BY <1>2, <3>1 DEF AxisStatus, ListenersFollowState
    <3>2. CASE \E a, v : AxisPosition(a, v, Where)
      BY <1>2, <3>2 DEF AxisPosition
    <3> QED BY <2>5, <3>1, <3>2 DEF AxisReceive
  <2>6. CASE StuffReceive
    BY <1>2, <2>6 DEF StuffReceive, StuffStatus, ListenersFollowState
  <2>7. CASE StateTimer
    <3>1. CASE Idle
      BY <1>2, <3>1 DEF Idle
    <3>2. CASE SInitialize
      BY <1>2, <3>2 DEF SInitialize
    <3>3. CASE SProgramExecutionLoop
      BY <1>2, <3>3 DEF SProgramExecutionLoop
    <3>4. CASE SInitPause(Where)
      BY <1>2, <3>4 DEF SInitPause
    <3>5. CASE SPauseDone
      BY <1>2, <3>5 DEF SPauseDone
    <3>6. CASE SExecuteOperation(Where)
      BY <1>2, <3>6 DEF SExecuteOperation
    <3>7. CASE SStartMoving(Where)
      BY <1>2, <3>7 DEF SStartMoving
    <3>8. CASE SMovingDone
      BY <1>2, <3>8 DEF SMovingDone
    <3> QED BY <2>7, <3>1, <3>2, <3>3, <3>4, <3>5, <3>6, <3>7, <3>8
            DEF StateTimer, StateCall
  <2>8. CASE PauseTimeout
    BY <1>2, <2>8 DEF PauseTimeout, PauseTimer, ListenersFollowState
  <2>9. CASE Cnc
    BY <1>2, <2>9, CncKeepsNode DEF AxisSide
  <2>10. CASE Stuff
    BY <1>2, <2>10, StuffKeepsNode DEF StuffOther
  <2>11. CASE UNCHANGED vars
    BY <1>2, <2>11 DEF vars, autoVars
  <2> QED
    BY <1>2, <2>1, <2>2, <2>3, <2>4, <2>5, <2>6, <2>7, <2>8, <2>9, <2>10, <2>11
       DEF Next, User, Node
<1>3. RunIsStoppable /\ ListenersFollowState /\ [Next]_vars => RunIsStoppable'
  BY <1>2
<1> QED BY <1>1, <1>3, ListenersAlwaysFollowState, PTL DEF Spec

HIDE DEF SwitchTo, StopExecution, SystemReadyMonitor, Throw, Called,
        ExecuteOperation, stateVars, listeners, wires, sent, history

-----------------------------------------------------------------------------
(***************************************************************************)
(* The look-ahead.  The rows of a program and the counters of its loops.    *)
(***************************************************************************)
Rows(prog) == 0 .. Len(prog) - 1
Counters(prog) == [Rows(prog) -> Counts]
LoopAt(prog, pid) == pid # Len(prog) /\ Phase(prog, pid).kind = "goto"

LEMMA ProgramRows ==
  ASSUME NEW prog, IsProgram(prog)
  PROVE  /\ Len(prog) \in Nat
         /\ \A pid \in 0 .. Len(prog) : pid # Len(prog) => pid \in Rows(prog) /\ pid + 1 \in 0 .. Len(prog)
         /\ \A pid \in Rows(prog) :
              /\ pid \in 0 .. Len(prog) /\ pid # Len(prog)
              /\ Phase(prog, pid).kind \in {"operation", "pause", "goto", "other"}
              /\ Phase(prog, pid).kind = "operation" => Phase(prog, pid).pos \in [Axes -> Int]
              /\ LoopAt(prog, pid) =>
                   Phase(prog, pid).to \in 0 .. pid - 1 /\ Phase(prog, pid).N \in Nat
<1>1. Len(prog) \in Nat
  BY DEF IsProgram
<1>2. ASSUME NEW pid \in Rows(prog)
      PROVE  /\ pid \in 0 .. Len(prog) /\ pid # Len(prog)
             /\ Phase(prog, pid).kind \in {"operation", "pause", "goto", "other"}
             /\ Phase(prog, pid).kind = "operation" => Phase(prog, pid).pos \in [Axes -> Int]
             /\ LoopAt(prog, pid) =>
                  Phase(prog, pid).to \in 0 .. pid - 1 /\ Phase(prog, pid).N \in Nat
  <2>1. pid \in 0 .. Len(prog) - 1
    BY DEF Rows
  <2>2. Phase(prog, pid).kind = "goto" => Phase(prog, pid).to < pid
    BY <2>1 DEF IsProgram, NoBadLoop
  <2>3. /\ Phase(prog, pid).kind \in {"operation", "pause", "goto", "other"}
        /\ Phase(prog, pid).kind = "operation" => Phase(prog, pid).pos \in [Axes -> Int]
        /\ Phase(prog, pid).kind = "goto" => Phase(prog, pid).to \in Nat /\ Phase(prog, pid).N \in Nat
    BY <2>1 DEF IsProgram
  <2> HIDE DEF Phase
  <2> QED BY <1>1, <2>1, <2>2, <2>3 DEF LoopAt
<1>3. \A pid \in 0 .. Len(prog) : pid # Len(prog) => pid \in Rows(prog) /\ pid + 1 \in 0 .. Len(prog)
  BY <1>1 DEF Rows
<1> QED BY <1>1, <1>2, <1>3

(* Where a loop leads, and what becomes of its counter.                    *)
Left(prog, pid, goto) == LoopLeft(Phase(prog, pid), goto[pid])
JumpTo(prog, pid, goto) == IF Left(prog, pid, goto) = 0 THEN pid + 1 ELSE Phase(prog, pid).to
JumpCounts(prog, pid, goto) ==
  [goto EXCEPT ![pid] = IF Left(prog, pid, goto) = 0 THEN Absent ELSE Left(prog, pid, goto) - 1]

LEMMA LoopJumps ==
  ASSUME NEW prog, IsProgram(prog), NEW pid \in 0 .. Len(prog), LoopAt(prog, pid),
         NEW goto \in Counters(prog)
  PROVE  /\ pid \in Rows(prog) /\ Left(prog, pid, goto) \in Nat
         /\ JumpTo(prog, pid, goto) \in 0 .. Len(prog)
         /\ JumpCounts(prog, pid, goto) \in Counters(prog)
<1>1. pid \in Rows(prog) /\ pid + 1 \in 0 .. Len(prog) /\ Len(prog) \in Nat
  BY ProgramRows DEF LoopAt
<1>2. Phase(prog, pid).to \in 0 .. pid - 1 /\ Phase(prog, pid).N \in Nat
  BY <1>1, ProgramRows
<1>3. goto[pid] \in Nat \cup {-1} /\ goto \in [Rows(prog) -> Nat \cup {-1}]
  BY <1>1 DEF Counters, Counts, Absent
<1>4. Left(prog, pid, goto) \in Nat
  BY <1>2, <1>3 DEF Left, LoopLeft, Absent
<1>5. JumpTo(prog, pid, goto) \in 0 .. Len(prog)
  BY <1>1, <1>2 DEF JumpTo, Rows
<1> DEFINE c == IF Left(prog, pid, goto) = 0 THEN Absent ELSE Left(prog, pid, goto) - 1
<1>6. c \in Nat \cup {-1}
  BY <1>4 DEF Absent
<1> HIDE DEF c
<1>7. [goto EXCEPT ![pid] = c] \in [Rows(prog) -> Nat \cup {-1}]
  BY <1>3, <1>6
<1>8. JumpCounts(prog, pid, goto) \in Counters(prog)
  BY <1>7 DEF JumpCounts, Counters, Counts, Absent, c
<1> QED BY <1>1, <1>4, <1>5, <1>8

(***************************************************************************)
(* Induction over what is left of a program: what holds at its end, and at  *)
(* a row if it holds at the row that is executed next, holds everywhere.    *)
(* The loops end because they lead upwards: with the counters of the rows   *)
(* from r on as they are, the rows above r lead to r, by induction over r   *)
(* and, when r is a loop, over what is left of it.                         *)
(***************************************************************************)
NextRow(prog, pid, goto) == IF LoopAt(prog, pid) THEN JumpTo(prog, pid, goto) ELSE pid + 1
NextCounts(prog, pid, goto) == IF LoopAt(prog, pid) THEN JumpCounts(prog, pid, goto) ELSE goto

LEMMA ProgramInduction ==
  ASSUME NEW prog, IsProgram(prog), NEW X,
         \A goto \in Counters(prog) : <<Len(prog), goto>> \in X,
         \A pid \in Rows(prog) : \A goto \in Counters(prog) :
            <<NextRow(prog, pid, goto), NextCounts(prog, pid, goto)>> \in X => <<pid, goto>> \in X
  PROVE  \A pid \in 0 .. Len(prog) : \A goto \in Counters(prog) : <<pid, goto>> \in X
<1> DEFINE C == Counters(prog)
           Same(g, h, r) == \A q \in Rows(prog) : q >= r => g[q] = h[q]
           Leads(r) == \A h \in C : (\A g \in C : Same(g, h, r) => <<r, g>> \in X)
                          => \A pid \in 0 .. r : \A g \in C : Same(g, h, r) => <<pid, g>> \in X
           N == {r \in Nat : r <= Len(prog) => Leads(r)}
<1>0. Len(prog) \in Nat
  BY ProgramRows
<1>1. 0 \in N
  <2>1. \A pid \in 0 .. 0 : pid = 0
    OBVIOUS
  <2> QED BY <2>1
<1>2. ASSUME NEW r \in Nat, r \in N PROVE r + 1 \in N
  <2> SUFFICES ASSUME r + 1 <= Len(prog), NEW h \in C,
                      \A g \in C : Same(g, h, r + 1) => <<r + 1, g>> \in X
               PROVE  \A pid \in 0 .. r + 1 : \A g \in C : Same(g, h, r + 1) => <<pid, g>> \in X
    OBVIOUS
  <2>0. r \in Rows(prog) /\ Leads(r) /\ r \in 0 .. Len(prog) /\ r # Len(prog)
    BY <1>0, <1>2 DEF Rows
  <2>1. ASSUME NEW g \in C, Same(g, h, r + 1) PROVE <<r, g>> \in X
    <3>1. CASE ~LoopAt(prog, r)
      <4>1. NextRow(prog, r, g) = r + 1 /\ NextCounts(prog, r, g) = g
        BY <3>1 DEF NextRow, NextCounts
      <4> QED BY <2>0, <2>1, <4>1
    <3>2. CASE LoopAt(prog, r)
      <4> DEFINE M == {n \in Nat : \A f \in C : Same(f, h, r + 1) /\ Left(prog, r, f) = n => <<r, f>> \in X}
      <4>j. \A f \in C : /\ NextRow(prog, r, f) = JumpTo(prog, r, f)
                         /\ NextCounts(prog, r, f) = JumpCounts(prog, r, f)
                         /\ JumpCounts(prog, r, f) \in C
                         /\ Left(prog, r, f) \in Nat
        BY <2>0, <3>2, LoopJumps DEF NextRow, NextCounts
      <4>s. ASSUME NEW f \in C, Same(f, h, r + 1)
            PROVE  /\ \A q \in Rows(prog) : q # r => JumpCounts(prog, r, f)[q] = f[q]
                   /\ JumpCounts(prog, r, f)[r] =
                        IF Left(prog, r, f) = 0 THEN Absent ELSE Left(prog, r, f) - 1
                   /\ Same(JumpCounts(prog, r, f), h, r + 1)
        <5>1. DOMAIN f = Rows(prog)
          BY DEF Counters
        <5>2. /\ \A q \in Rows(prog) : q # r => JumpCounts(prog, r, f)[q] = f[q]
              /\ JumpCounts(prog, r, f)[r] =
                        IF Left(prog, r, f) = 0 THEN Absent ELSE Left(prog, r, f) - 1
          BY <5>1, <2>0 DEF JumpCounts
        <5>3. \A q \in Rows(prog) : q >= r + 1 => q # r
          BY DEF Rows
        <5> QED BY <4>s, <5>2, <5>3
      <4>1. 0 \in M
        <5> SUFFICES ASSUME NEW f \in C, Same(f, h, r + 1), Left(prog, r, f) = 0 PROVE <<r, f>> \in X
          OBVIOUS
        <5>1. JumpTo(prog, r, f) = r + 1
          BY DEF JumpTo
        <5>2. Same(JumpCounts(prog, r, f), h, r + 1)
          BY <4>s
        <5>3. JumpCounts(prog, r, f) \in C
          BY <4>j
        <5>4. <<r + 1, JumpCounts(prog, r, f)>> \in X
          BY <5>2, <5>3
        <5> QED BY <2>0, <4>j, <5>1, <5>4
      <4>2. ASSUME NEW n \in Nat, n \in M PROVE n + 1 \in M
        <5> SUFFICES ASSUME NEW f \in C, Same(f, h, r + 1), Left(prog, r, f) = n + 1 PROVE <<r, f>> \in X
          OBVIOUS
        <5> DEFINE k == JumpCounts(prog, r, f)
                   to == Phase(prog, r).to
        <5>1. JumpTo(prog, r, f) = to /\ k \in C /\ to \in 0 .. r
          <6>1. n + 1 # 0
            OBVIOUS
          <6>2. to \in 0 .. r - 1
            BY <2>0, <3>2, ProgramRows
          <6>3. to \in 0 .. r
            BY <6>2
          <6> HIDE DEF to
          <6>4. JumpTo(prog, r, f) = to
            BY <6>1 DEF JumpTo, to
          <6> QED BY <6>3, <6>4, <4>j
        <5>2. k[r] = n /\ Same(k, h, r + 1)
          <6>1. (n + 1) - 1 = n /\ n + 1 # 0
            OBVIOUS
          <6> QED BY <4>s, <6>1
        <5> HIDE DEF k, to
        <5>3. ASSUME NEW g2 \in C, Same(g2, k, r) PROVE <<r, g2>> \in X
          <6>1. g2[r] = k[r]
            <7>1. r >= r
              OBVIOUS
            <7> QED BY <2>0, <5>3, <7>1
          <6>2. Left(prog, r, g2) = n
            BY <6>1, <5>2 DEF Left, LoopLeft, Absent
          <6>3. \A q \in Rows(prog) : q >= r + 1 => q >= r
            BY DEF Rows
          <6>4. Same(g2, h, r + 1)
            BY <6>3, <5>2, <5>3
          <6> QED BY <4>2, <6>2, <6>4
        <5>4. <<to, k>> \in X
          <6>1. Same(k, k, r)
            OBVIOUS
          <6> QED BY <2>0, <5>1, <5>3, <6>1
        <5> QED BY <2>0, <4>j, <5>1, <5>4 DEF k
      <4>3. Nat \subseteq M
        <5> HIDE DEF M
        <5> QED BY <4>1, <4>2, NumberInduction
      <4>4. Left(prog, r, g) \in M
        <5> HIDE DEF M
        <5> QED BY <4>3, <4>j
      <4> QED BY <2>1, <4>4
    <3> QED BY <3>1, <3>2
  <2>2. ASSUME NEW pid \in 0 .. r + 1, NEW g \in C, Same(g, h, r + 1) PROVE <<pid, g>> \in X
    <3>1. CASE pid = r + 1
      BY <2>2, <3>1
    <3>2. CASE pid # r + 1
      <4>1. pid \in 0 .. r
        BY <3>2
      <4>2. ASSUME NEW f \in C, Same(f, g, r) PROVE <<r, f>> \in X
        <5>1. \A q \in Rows(prog) : q >= r + 1 => q >= r
          BY DEF Rows
        <5>2. Same(f, h, r + 1)
          BY <5>1, <4>2, <2>2
        <5> QED BY <5>2, <2>1
      <4>3. Same(g, g, r)
        OBVIOUS
      <4> QED BY <2>0, <4>1, <4>2, <4>3
    <3> QED BY <3>1, <3>2
  <2> QED BY <2>2
<1>3. Len(prog) \in N
  <2> HIDE DEF N
  <2> QED BY <1>0, <1>1, <1>2, NumberInduction
<1>4. Leads(Len(prog))
  BY <1>0, <1>3
<1> SUFFICES ASSUME NEW pid \in 0 .. Len(prog), NEW goto \in C PROVE <<pid, goto>> \in X
  OBVIOUS
<1>5. Same(goto, goto, Len(prog))
  OBVIOUS
<1> QED BY <1>4, <1>5

(* The search for the next operation follows one loop after another.       *)
LEMMA NextOperationIs ==
  ASSUME NEW prog, IsProgram(prog), NEW pid \in 0 .. Len(prog), NEW goto \in Counters(prog)
  PROVE  NextOperation(prog, pid, goto) =
            IF LoopAt(prog, pid)
            THEN NextOperation(prog, JumpTo(prog, pid, goto), JumpCounts(prog, pid, goto))
            ELSE [pid |-> pid, goto |-> goto]
<1> DEFINE D == Rows(prog)
           S == [pid : 0 .. Len(prog), goto : [D -> Int]]
           T == {s \in S : ~LoopAt(prog, s.pid)}
           Step(s) == [pid |-> JumpTo(prog, s.pid, s.goto), goto |-> JumpCounts(prog, s.pid, s.goto)]
           n == [s \in S |-> Step(s)]
           Body(f, s) == IF IsProgramDone(prog, s.pid) \/ Phase(prog, s.pid).kind # "goto"
                         THEN s
                         ELSE LET loop == Phase(prog, s.pid)
                                  left == LoopLeft(loop, s.goto[s.pid])
                              IN  IF left = 0
                                  THEN f[[pid  |-> s.pid + 1,
                                          goto |-> [s.goto EXCEPT ![s.pid] = Absent]]]
                                  ELSE f[[pid  |-> loop.to,
                                          goto |-> [s.goto EXCEPT ![s.pid] = left - 1]]]
           Seek == CHOOSE f : f = [s \in S |-> Body(f, s)]
<1>0. Len(prog) \in Nat
  BY ProgramRows
<1>1. ASSUME NEW s \in S \ T PROVE n[s] \in S
  <2>1. s.pid \in 0 .. Len(prog) /\ LoopAt(prog, s.pid) /\ s.goto \in [D -> Int]
    OBVIOUS
  <2>2. s.pid \in D /\ s.pid + 1 \in 0 .. Len(prog)
    BY <2>1, ProgramRows DEF LoopAt
  <2>3. Phase(prog, s.pid).to \in 0 .. Len(prog) /\ Phase(prog, s.pid).N \in Int
    <3>1. Phase(prog, s.pid).to \in 0 .. s.pid - 1 /\ Phase(prog, s.pid).N \in Nat
      BY <2>1, <2>2, ProgramRows
    <3> QED BY <3>1, <2>2, <1>0 DEF Rows
  <2>4. Left(prog, s.pid, s.goto) \in Int
    BY <2>1, <2>2, <2>3 DEF Left, LoopLeft
  <2> DEFINE c == IF Left(prog, s.pid, s.goto) = 0 THEN Absent ELSE Left(prog, s.pid, s.goto) - 1
  <2>5. c \in Int
    BY <2>4 DEF Absent
  <2> HIDE DEF c
  <2>6. [s.goto EXCEPT ![s.pid] = c] \in [D -> Int]
    BY <2>1, <2>5
  <2>7. JumpCounts(prog, s.pid, s.goto) \in [D -> Int]
    BY <2>6 DEF JumpCounts, c
  <2>8. JumpTo(prog, s.pid, s.goto) \in 0 .. Len(prog)
    BY <2>2, <2>3 DEF JumpTo
  <2>9. n[s] = Step(s)
    BY <1>1
  <2> QED BY <2>7, <2>8, <2>9
<1>2. \E f : HandsOn(f, S, T, n)
  <2> HIDE DEF S, T, n
  <2> QED BY <1>1, TailRecursion
<1>b. ASSUME NEW f, NEW s \in S PROVE Body(f, s) = IF LoopAt(prog, s.pid) THEN f[Step(s)] ELSE s
  <2>1. CASE ~LoopAt(prog, s.pid)
    BY <2>1 DEF LoopAt, IsProgramDone
  <2>2. CASE LoopAt(prog, s.pid) /\ Left(prog, s.pid, s.goto) = 0
    <3>1. Step(s) = [pid |-> s.pid + 1, goto |-> [s.goto EXCEPT ![s.pid] = Absent]]
      BY <2>2 DEF JumpTo, JumpCounts
    <3>2. Body(f, s) = f[[pid  |-> s.pid + 1, goto |-> [s.goto EXCEPT ![s.pid] = Absent]]]
      BY <2>2 DEF LoopAt, IsProgramDone, Left
    <3> QED BY <2>2, <3>1, <3>2
  <2>3. CASE LoopAt(prog, s.pid) /\ Left(prog, s.pid, s.goto) # 0
    <3> DEFINE l == Left(prog, s.pid, s.goto)
    <3>1. Step(s) = [pid |-> Phase(prog, s.pid).to, goto |-> [s.goto EXCEPT ![s.pid] = l - 1]]
      BY <2>3 DEF JumpTo, JumpCounts
    <3>2. Body(f, s) = f[[pid |-> Phase(prog, s.pid).to, goto |-> [s.goto EXCEPT ![s.pid] = l - 1]]]
      BY <2>3 DEF LoopAt, IsProgramDone, Left
    <3> QED BY <2>3, <3>1, <3>2
  <2> QED BY <2>1, <2>2, <2>3
<1>3. Seek = [s \in S |-> Body(Seek, s)]
  <2>0. PICK f : HandsOn(f, S, T, n)
    BY <1>2
  <2>1. /\ f = [s \in S |-> f[s]]
        /\ \A s \in S : f[s] = IF s \in T THEN s ELSE f[n[s]]
    BY <2>0 DEF HandsOn
  <2>2. \A s \in S : (IF s \in T THEN s ELSE f[n[s]]) = IF LoopAt(prog, s.pid) THEN f[Step(s)] ELSE s
    OBVIOUS
  <2> HIDE DEF S, T, n, Body, Step
  <2>3. \A s \in S : f[s] = Body(f, s)
    BY <2>1, <2>2, <1>b
  <2>4. f = [s \in S |-> Body(f, s)]
    BY <2>1, <2>3
  <2> QED BY <2>4
<1>4. ASSUME NEW p \in 0 .. Len(prog), NEW c \in [D -> Int]
      PROVE  NextOperation(prog, p, c) = Seek[[pid |-> p, goto |-> c]]
  <2>1. DOMAIN c = D
    OBVIOUS
  <2> QED BY <2>1 DEF NextOperation
<1>5. Counters(prog) \subseteq [D -> Int]
  BY DEF Counters, Counts, Absent
<1> DEFINE s0 == [pid |-> pid, goto |-> goto]
<1>6. s0 \in S /\ s0.pid = pid /\ s0.goto = goto
  BY <1>5
<1>7. Seek[s0] = IF LoopAt(prog, pid) THEN Seek[Step(s0)] ELSE s0
  <2>1. Seek[s0] = Body(Seek, s0)
    <3> HIDE DEF Seek, Body, S, s0
    <3> QED BY <1>3, <1>6
  <2> HIDE DEF Seek, S, Body, s0, Step
  <2> QED BY <2>1, <1>6, <1>b
<1>8. LoopAt(prog, pid) => Step(s0).pid \in 0 .. Len(prog) /\ Step(s0).goto \in [D -> Int]
  <2>1. LoopAt(prog, pid) => JumpTo(prog, pid, goto) \in 0 .. Len(prog) /\ JumpCounts(prog, pid, goto) \in [D -> Int]
    BY LoopJumps, <1>5
  <2> QED BY <2>1, <1>6
<1>9. Step(s0) = [pid |-> JumpTo(prog, pid, goto), goto |-> JumpCounts(prog, pid, goto)]
  OBVIOUS
<1>10. NextOperation(prog, pid, goto) = Seek[s0]
  <2> HIDE DEF Seek
  <2> QED BY <1>4, <1>5
<1>11. LoopAt(prog, pid) => NextOperation(prog, JumpTo(prog, pid, goto), JumpCounts(prog, pid, goto)) = Seek[Step(s0)]
  <2> HIDE DEF Seek
  <2> QED BY <1>4, <1>8, <1>9
<1> HIDE DEF Seek, Step
<1> QED BY <1>7, <1>10, <1>11

(* It ends, at a row that is no loop or at the end.                        *)
LEMMA NextOperationEnds ==
  ASSUME NEW prog, IsProgram(prog), NEW pid \in 0 .. Len(prog), NEW goto \in Counters(prog)
  PROVE  LET found == NextOperation(prog, pid, goto)
         IN  /\ found = [pid |-> found.pid, goto |-> found.goto]
             /\ found.pid \in 0 .. Len(prog) /\ found.goto \in Counters(prog)
             /\ ~LoopAt(prog, found.pid)
<1> DEFINE Good(s) == LET found == NextOperation(prog, s[1], s[2])
                      IN  /\ found = [pid |-> found.pid, goto |-> found.goto]
                          /\ found.pid \in 0 .. Len(prog) /\ found.goto \in Counters(prog)
                          /\ ~LoopAt(prog, found.pid)
           X == {s \in (0 .. Len(prog)) \X Counters(prog) : Good(s)}
<1>0. Len(prog) \in Nat
  BY ProgramRows
<1>1. ASSUME NEW p \in 0 .. Len(prog), NEW g \in Counters(prog), ~LoopAt(prog, p) PROVE <<p, g>> \in X
  BY <1>1, NextOperationIs
<1>2. \A g \in Counters(prog) : <<Len(prog), g>> \in X
  BY <1>0, <1>1 DEF LoopAt
<1>3. ASSUME NEW p \in Rows(prog), NEW g \in Counters(prog),
             <<NextRow(prog, p, g), NextCounts(prog, p, g)>> \in X
      PROVE  <<p, g>> \in X
  <2>1. p \in 0 .. Len(prog)
    BY ProgramRows
  <2>2. CASE LoopAt(prog, p)
    <3>1. <<JumpTo(prog, p, g), JumpCounts(prog, p, g)>> \in X
      BY <1>3, <2>2 DEF NextRow, NextCounts
    <3>2. NextOperation(prog, p, g) = NextOperation(prog, JumpTo(prog, p, g), JumpCounts(prog, p, g))
      BY <2>1, <2>2, NextOperationIs
    <3> QED BY <2>1, <3>1, <3>2
  <2> QED BY <2>1, <2>2, <1>1
<1>4. <<pid, goto>> \in X
  <2> HIDE DEF X
  <2> QED BY <1>2, <1>3, ProgramInduction
<1> QED BY <1>4

-----------------------------------------------------------------------------
(***************************************************************************)
(* The moving list.  Each move goes from where the one before it ends to    *)
(* where its operation leads, moves some axis, and stops none.             *)
(***************************************************************************)
Searches(prog) ==
  [ pid : 0 .. Len(prog), ops : Seq(Nat), moves : Seq(Move),
    pos : [Axes -> Int], dir : [Axes -> {-1, 0, 1}],
    goto : Counters(prog), more : BOOLEAN ]

MovesAxis(m, a) == m.from[a] # m.to[a]

IsMove(prog, pid, m) ==
  /\ pid \in Rows(prog) /\ Phase(prog, pid).kind = "operation"
  /\ m \in Move /\ m.to = NextPosition(Phase(prog, pid), m.from)
  /\ \E a \in Axes : MovesAxis(m, a)

(* No axis stops or turns back.                                            *)
KeepsWay(m, n) ==
  \A a \in Axes : MovesAxis(m, a) =>
    MovesAxis(n, a) /\ Direction(m.from, m.to)[a] = Direction(n.from, n.to)[a]

IsChain(prog, ops, moves, start, end) ==
  /\ \A i \in 1 .. Len(moves) : IsMove(prog, ops[i], moves[i])
  /\ \A i \in 1 .. Len(moves) - 1 :
        moves[i + 1].from = moves[i].to /\ KeepsWay(moves[i], moves[i + 1])
  /\ IF moves = <<>> THEN end = start
     ELSE moves[1].from = start /\ moves[Len(moves)].to = end

(* The search before a call of try_add_next_phase.                         *)
GoesOn(prog, s, start) ==
  /\ s \in Searches(prog) /\ s.more
  /\ Len(s.ops) = Len(s.moves)
  /\ IsChain(prog, s.ops, s.moves, start, s.pos)
  /\ s.moves # <<>> =>
       s.dir = Direction(s.moves[Len(s.moves)].from, s.moves[Len(s.moves)].to)

(* The search when it has ended.                                           *)
HasEnded(prog, s, start) ==
  /\ s \in Searches(prog) /\ ~s.more
  /\ Len(s.ops) = Len(s.moves) + 1
  /\ s.ops[Len(s.ops)] = s.pid /\ ~LoopAt(prog, s.pid)
  /\ IsChain(prog, s.ops, s.moves, start, s.pos)

LEMMA DirectionIs ==
  ASSUME NEW p \in [Axes -> Int], NEW q \in [Axes -> Int]
  PROVE  /\ Direction(p, q) \in [Axes -> {-1, 0, 1}]
         /\ \A a \in Axes : Direction(p, q)[a] # 0 <=> p[a] # q[a]
         /\ Direction(p, q) # Still => \E a \in Axes : p[a] # q[a]
<1>1. \A a \in Axes : /\ Sign(q[a] - p[a]) \in {-1, 0, 1}
                      /\ Sign(q[a] - p[a]) # 0 <=> p[a] # q[a]
  BY DEF Sign
<1>2. \A a \in Axes : Direction(p, q)[a] = Sign(q[a] - p[a])
  BY DEF Direction
<1>3. Direction(p, q) = [a \in Axes |-> Sign(q[a] - p[a])]
  BY DEF Direction
<1>4. (\A a \in Axes : p[a] = q[a]) => Direction(p, q) = Still
  <2> SUFFICES ASSUME \A a \in Axes : p[a] = q[a] PROVE Direction(p, q) = Still
    OBVIOUS
  <2>1. \A a \in Axes : Sign(q[a] - p[a]) = 0
    BY <1>1
  <2> QED BY <1>3, <2>1 DEF Still
<1> QED BY <1>1, <1>2, <1>3, <1>4

LEMMA NextPositionType ==
  ASSUME NEW prog, IsProgram(prog), NEW pid \in Rows(prog), Phase(prog, pid).kind = "operation",
         NEW pos \in [Axes -> Int]
  PROVE  NextPosition(Phase(prog, pid), pos) \in [Axes -> Int]
<1>1. Phase(prog, pid).pos \in [Axes -> Int]
  BY ProgramRows
<1> HIDE DEF Phase
<1> QED BY <1>1 DEF NextPosition

LEMMA AppendMove ==
  ASSUME NEW S, NEW q \in Seq(S), NEW e \in S
  PROVE  /\ Append(q, e) \in Seq(S) /\ Append(q, e) # <<>>
         /\ Len(q) \in Nat /\ Len(Append(q, e)) = Len(q) + 1
         /\ Append(q, e)[Len(q) + 1] = e
         /\ \A i \in 1 .. Len(q) : Append(q, e)[i] = q[i]
  OBVIOUS

(* One call of try_add_next_phase.                                         *)
LEMMA TryIs ==
  ASSUME NEW prog, IsProgram(prog), NEW s \in Searches(prog)
  PROVE  LET found == NextOperation(prog, s.pid, s.goto)
             to    == NextPosition(Phase(prog, found.pid), s.pos)
             ops   == Append(s.ops, found.pid)
         IN  \/ TryAddNextPhase(prog, s) =
                  [ pid |-> found.pid, ops |-> ops, moves |-> s.moves,
                    pos |-> s.pos, dir |-> s.dir, goto |-> found.goto, more |-> FALSE ]
             \/ /\ found.pid \in Rows(prog) /\ Phase(prog, found.pid).kind = "operation"
                /\ to \in [Axes -> Int]
                /\ ~Inversion(s.dir, Direction(s.pos, to)) /\ Direction(s.pos, to) # Still
                /\ TryAddNextPhase(prog, s) =
                     [ pid |-> found.pid + 1, ops |-> ops,
                       moves |-> Append(s.moves, [from |-> s.pos, to |-> to]),
                       pos |-> to, dir |-> Direction(s.pos, to), goto |-> found.goto, more |-> TRUE ]
<1> DEFINE found == NextOperation(prog, s.pid, s.goto)
           to == NextPosition(Phase(prog, found.pid), s.pos)
           new == Direction(s.pos, to)
           ops == Append(s.ops, found.pid)
           seen == [ pid |-> found.pid, ops |-> ops, moves |-> s.moves,
                     pos |-> s.pos, dir |-> s.dir, goto |-> found.goto, more |-> FALSE ]
           on == [ pid |-> found.pid + 1, ops |-> ops,
                   moves |-> Append(s.moves, [from |-> s.pos, to |-> to]),
                   pos |-> to, dir |-> new, goto |-> found.goto, more |-> TRUE ]
<1>1. /\ s.pid \in 0 .. Len(prog) /\ s.goto \in Counters(prog) /\ s.pos \in [Axes -> Int]
      /\ s = [pid |-> s.pid, ops |-> s.ops, moves |-> s.moves, pos |-> s.pos, dir |-> s.dir,
              goto |-> s.goto, more |-> s.more]
  BY DEF Searches
<1>2. found.pid \in 0 .. Len(prog)
  BY <1>1, NextOperationEnds
<1>3. TryAddNextPhase(prog, s) =
        IF IsProgramDone(prog, found.pid) \/ Phase(prog, found.pid).kind # "operation" THEN seen
        ELSE IF Inversion(s.dir, new) \/ new = Still THEN seen ELSE on
  BY DEF TryAddNextPhase
<1> HIDE DEF found, to, new
<1> HIDE DEF seen, on, ops
<1>6. CASE IsProgramDone(prog, found.pid) \/ Phase(prog, found.pid).kind # "operation"
  BY <1>3, <1>6 DEF found, ops, seen
<1>7. CASE ~(IsProgramDone(prog, found.pid) \/ Phase(prog, found.pid).kind # "operation")
  <2>1. found.pid \in Rows(prog) /\ Phase(prog, found.pid).kind = "operation"
    BY <1>2, <1>7, ProgramRows DEF IsProgramDone
  <2>2. to \in [Axes -> Int]
    BY <2>1, <1>1, NextPositionType DEF to
  <2>3. CASE Inversion(s.dir, new) \/ new = Still
    BY <1>3, <1>7, <2>3 DEF found, ops, seen
  <2>4. CASE ~(Inversion(s.dir, new) \/ new = Still)
    <3>1. TryAddNextPhase(prog, s) = on
      BY <1>3, <1>7, <2>4
    <3> QED BY <2>1, <2>2, <2>4, <3>1 DEF found, ops, to, new, on
  <2> QED BY <2>3, <2>4
<1> QED BY <1>6, <1>7

LEMMA IsSearch ==
  ASSUME NEW prog, NEW pid \in 0 .. Len(prog), NEW ops \in Seq(Nat), NEW moves \in Seq(Move),
         NEW pos \in [Axes -> Int], NEW dir \in [Axes -> {-1, 0, 1}], NEW goto \in Counters(prog),
         NEW more \in BOOLEAN
  PROVE  LET s == [ pid |-> pid, ops |-> ops, moves |-> moves, pos |-> pos, dir |-> dir,
                    goto |-> goto, more |-> more ]
         IN  /\ s \in Searches(prog)
             /\ s.pid = pid /\ s.ops = ops /\ s.moves = moves /\ s.pos = pos /\ s.dir = dir
             /\ s.goto = goto /\ s.more = more
  BY DEF Searches

(* What has been moved once moves on.                                      *)
LEMMA ChainGrows ==
  ASSUME NEW prog, NEW ops \in Seq(Nat), NEW moves \in Seq(Move), Len(ops) = Len(moves),
         NEW start \in [Axes -> Int], NEW end \in [Axes -> Int], NEW p \in Nat,
         IsChain(prog, ops, moves, start, end)
  PROVE  /\ IsChain(prog, Append(ops, p), moves, start, end)
         /\ \A m \in Move :
              /\ IsMove(prog, p, m) /\ m.from = end
              /\ moves # <<>> => KeepsWay(moves[Len(moves)], m)
              => IsChain(prog, Append(ops, p), Append(moves, m), start, m.to)
<1> DEFINE n == Len(moves)
           o == Append(ops, p)
<1>1. /\ n \in Nat /\ Len(ops) = n /\ n = Len(moves) /\ (moves = <<>> <=> n = 0)
      /\ o[n + 1] = p /\ \A i \in 1 .. n : o[i] = ops[i]
  BY AppendMove
<1>m. \A m \in Move : /\ Len(Append(moves, m)) = n + 1 /\ Append(moves, m) # <<>>
                      /\ Append(moves, m)[n + 1] = m
                      /\ \A i \in 1 .. n : Append(moves, m)[i] = moves[i]
  BY AppendMove
<1> HIDE DEF o, n
<1>2. IsChain(prog, o, moves, start, end)
  BY <1>1 DEF IsChain
<1>3. ASSUME NEW m \in Move, IsMove(prog, p, m), m.from = end,
             n # 0 => KeepsWay(moves[n], m)
      PROVE  IsChain(prog, o, Append(moves, m), start, m.to)
  <2> DEFINE q == Append(moves, m)
  <2>1. /\ Len(q) = n + 1 /\ q # <<>> /\ q[n + 1] = m /\ \A i \in 1 .. n : q[i] = moves[i]
    BY <1>m
  <2> HIDE DEF q
  <2>2. \A i \in 1 .. n : IsMove(prog, ops[i], moves[i])
    BY <1>1 DEF IsChain
  <2>3. ASSUME NEW i \in 1 .. n + 1 PROVE IsMove(prog, o[i], q[i])
    <3>1. CASE i \in 1 .. n
      BY <1>1, <2>1, <2>2, <3>1
    <3>2. CASE i = n + 1
      BY <1>1, <1>3, <2>1, <3>2
    <3>3. i \in 1 .. n \/ i = n + 1
      BY <1>1
    <3> QED BY <3>1, <3>2, <3>3
  <2>4. ASSUME NEW i \in 1 .. n
        PROVE  q[i + 1].from = q[i].to /\ KeepsWay(q[i], q[i + 1])
    <3>1. CASE i # n
      <4>1. i \in 1 .. n - 1 /\ i + 1 \in 1 .. n
        BY <3>1, <1>1
      <4>2. moves[i + 1].from = moves[i].to /\ KeepsWay(moves[i], moves[i + 1])
        BY <1>1, <4>1 DEF IsChain
      <4> QED BY <2>1, <4>1, <4>2
    <3>2. CASE i = n
      <4>1. n # 0 /\ moves[n].to = end
        BY <1>1, <3>2 DEF IsChain
      <4> QED BY <1>3, <2>1, <3>2, <4>1
    <3> QED BY <3>1, <3>2
  <2>5. q[1].from = start
    <3>1. CASE n = 0
      <4>1. end = start
        BY <1>1, <3>1 DEF IsChain
      <4> QED BY <1>3, <2>1, <3>1, <4>1
    <3>2. CASE n # 0
      <4>1. moves[1].from = start /\ 1 \in 1 .. n
        BY <1>1, <3>2 DEF IsChain
      <4> QED BY <2>1, <4>1
    <3> QED BY <3>1, <3>2
  <2>6. Len(q) - 1 = n
    BY <1>1, <2>1
  <2>7. IsChain(prog, o, q, start, m.to)
    BY <2>1, <2>3, <2>4, <2>5, <2>6 DEF IsChain
  <2> QED BY <2>7 DEF q
<1> QED BY <1>1, <1>2, <1>3 DEF o

(* A call of try_add_next_phase leaves a search that goes on or has ended.  *)
LEMMA TryGoesOn ==
  ASSUME NEW prog, IsProgram(prog), NEW start \in [Axes -> Int], NEW s, GoesOn(prog, s, start)
  PROVE  LET t     == TryAddNextPhase(prog, s)
             found == NextOperation(prog, s.pid, s.goto)
         IN  \/ /\ HasEnded(prog, t, start)
                /\ t.moves = s.moves /\ t.ops = Append(s.ops, found.pid)
             \/ /\ GoesOn(prog, t, start) /\ Len(t.moves) = Len(s.moves) + 1
                /\ found.pid \in Rows(prog)
                /\ t.pid = found.pid + 1 /\ t.goto = found.goto
<1> DEFINE found == NextOperation(prog, s.pid, s.goto)
           to    == NextPosition(Phase(prog, found.pid), s.pos)
           ops   == Append(s.ops, found.pid)
           new   == Direction(s.pos, to)
           m     == [from |-> s.pos, to |-> to]
           t     == TryAddNextPhase(prog, s)
<1>1. /\ s \in Searches(prog) /\ s.pid \in 0 .. Len(prog) /\ s.goto \in Counters(prog) /\ s.pos \in [Axes -> Int]
      /\ s.ops \in Seq(Nat) /\ s.moves \in Seq(Move) /\ s.dir \in [Axes -> {-1, 0, 1}]
      /\ Len(s.ops) = Len(s.moves) /\ IsChain(prog, s.ops, s.moves, start, s.pos)
  BY DEF GoesOn, Searches
<1>2. /\ found.pid \in 0 .. Len(prog) /\ found.goto \in Counters(prog) /\ ~LoopAt(prog, found.pid)
      /\ found.pid \in Nat
  BY <1>1, NextOperationEnds
<1>3. \/ t = [ pid |-> found.pid, ops |-> ops, moves |-> s.moves,
               pos |-> s.pos, dir |-> s.dir, goto |-> found.goto, more |-> FALSE ]
      \/ /\ found.pid \in Rows(prog) /\ Phase(prog, found.pid).kind = "operation"
         /\ to \in [Axes -> Int]
         /\ ~Inversion(s.dir, new) /\ new # Still
         /\ t = [ pid |-> found.pid + 1, ops |-> ops, moves |-> Append(s.moves, m),
                  pos |-> to, dir |-> new, goto |-> found.goto, more |-> TRUE ]
  BY <1>1, TryIs
<1>4. /\ ops \in Seq(Nat) /\ Len(ops) = Len(s.moves) + 1 /\ ops[Len(ops)] = found.pid
      /\ IsChain(prog, ops, s.moves, start, s.pos)
  <2>1. ops \in Seq(Nat) /\ Len(ops) = Len(s.ops) + 1 /\ ops[Len(s.ops) + 1] = found.pid
    BY <1>1, <1>2, AppendMove
  <2>2. IsChain(prog, ops, s.moves, start, s.pos)
    <3> HIDE DEF found
    <3> QED BY <1>1, <1>2, ChainGrows
  <2> HIDE DEF ops, found
  <2> QED BY <1>1, <2>1, <2>2
<1> HIDE DEF found, to, ops, new, t
<1>5. CASE t = [ pid |-> found.pid, ops |-> ops, moves |-> s.moves,
                 pos |-> s.pos, dir |-> s.dir, goto |-> found.goto, more |-> FALSE ]
  <2>1. /\ t \in Searches(prog) /\ t.pid = found.pid /\ t.ops = ops /\ t.moves = s.moves /\ t.pos = s.pos
        /\ t.more = FALSE
    BY <1>1, <1>2, <1>4, <1>5, IsSearch
  <2>2. HasEnded(prog, t, start)
    BY <1>2, <1>4, <2>1 DEF HasEnded
  <2> QED BY <2>1, <2>2 DEF found, t, ops
<1>6. CASE /\ found.pid \in Rows(prog) /\ Phase(prog, found.pid).kind = "operation"
           /\ to \in [Axes -> Int]
           /\ ~Inversion(s.dir, new) /\ new # Still
           /\ t = [ pid |-> found.pid + 1, ops |-> ops, moves |-> Append(s.moves, m),
                    pos |-> to, dir |-> new, goto |-> found.goto, more |-> TRUE ]
  <2>1. /\ new \in [Axes -> {-1, 0, 1}] /\ \A a \in Axes : new[a] # 0 <=> s.pos[a] # to[a]
        /\ \E a \in Axes : s.pos[a] # to[a]
    BY <1>1, <1>6, DirectionIs DEF new
  <2>2. m \in Move /\ m.from = s.pos /\ m.to = to
    BY <1>1, <1>6 DEF Move
  <2>3. found.pid + 1 \in 0 .. Len(prog)
    BY <1>2, <1>6, ProgramRows
  <2>4. /\ Append(s.moves, m) \in Seq(Move) /\ Append(s.moves, m) # <<>> /\ Len(s.moves) \in Nat
        /\ Len(Append(s.moves, m)) = Len(s.moves) + 1
        /\ Append(s.moves, m)[Len(s.moves) + 1] = m
    <3> HIDE DEF m
    <3> QED BY <1>1, <2>2, AppendMove
  <2>5. /\ t \in Searches(prog) /\ t.pid = found.pid + 1 /\ t.ops = ops /\ t.moves = Append(s.moves, m)
        /\ t.pos = to /\ t.dir = new /\ t.goto = found.goto /\ t.more = TRUE
    BY <1>1, <1>2, <1>4, <1>6, <2>1, <2>3, <2>4, IsSearch
  <2>6. IsMove(prog, found.pid, m)
    BY <1>6, <2>1, <2>2 DEF IsMove, MovesAxis, to
  <2>7. ASSUME s.moves # <<>> PROVE KeepsWay(s.moves[Len(s.moves)], m)
    <3> DEFINE l == s.moves[Len(s.moves)]
    <3>1. s.dir = Direction(l.from, l.to)
      BY <2>7 DEF GoesOn
    <3>2. l \in Move
      BY <1>1, <2>7
    <3> HIDE DEF l
    <3>3. ASSUME NEW a \in Axes, MovesAxis(l, a)
          PROVE  MovesAxis(m, a) /\ s.dir[a] = new[a]
      <4>1. l.from \in [Axes -> Int] /\ l.to \in [Axes -> Int] /\ l.from[a] # l.to[a]
        BY <3>2, <3>3 DEF Move, MovesAxis
      <4>2. s.dir[a] # 0
        BY <3>1, <4>1, DirectionIs
      <4>3. s.dir[a] = new[a]
        BY <4>2, <1>6 DEF Inversion
      <4> QED BY <4>2, <4>3, <2>1, <2>2 DEF MovesAxis
    <3>4. Direction(m.from, m.to) = new
      BY <2>2 DEF new
    <3>5. KeepsWay(l, m)
      BY <3>1, <3>3, <3>4 DEF KeepsWay
    <3> QED BY <3>5 DEF l
  <2>8. IsChain(prog, ops, Append(s.moves, m), start, m.to)
    BY <1>1, <1>2, <2>2, <2>6, <2>7, ChainGrows DEF ops
  <2> HIDE DEF m
  <2>9. GoesOn(prog, t, start)
    BY <1>4, <2>2, <2>4, <2>5, <2>8 DEF GoesOn, new
  <2> QED BY <1>6, <2>4, <2>5, <2>9 DEF found, t
<1> QED BY <1>3, <1>5, <1>6

(* The list that the search from s collects.                               *)
Collected(prog) ==
  CHOOSE f : f = [s \in Searches(prog) |-> IF s.more THEN f[TryAddNextPhase(prog, s)] ELSE s]

LEMMA CollectedIs ==
  ASSUME NEW prog, IsProgram(prog), NEW s \in Searches(prog)
  PROVE  Collected(prog)[s] = IF s.more THEN Collected(prog)[TryAddNextPhase(prog, s)] ELSE s
<1> DEFINE S == Searches(prog)
           T == {x \in S : ~x.more}
           n == [x \in S |-> TryAddNextPhase(prog, x)]
<1>1. ASSUME NEW x \in S \ T PROVE n[x] \in S
  <2> DEFINE found == NextOperation(prog, x.pid, x.goto)
             to    == NextPosition(Phase(prog, found.pid), x.pos)
             ops   == Append(x.ops, found.pid)
             new   == Direction(x.pos, to)
             m     == [from |-> x.pos, to |-> to]
             t     == TryAddNextPhase(prog, x)
  <2>1. /\ x.pid \in 0 .. Len(prog) /\ x.goto \in Counters(prog) /\ x.pos \in [Axes -> Int]
        /\ x.ops \in Seq(Nat) /\ x.moves \in Seq(Move) /\ x.dir \in [Axes -> {-1, 0, 1}]
    BY DEF Searches
  <2>2. /\ found.pid \in 0 .. Len(prog) /\ found.goto \in Counters(prog) /\ found.pid \in Nat
    BY <2>1, NextOperationEnds
  <2>3. \/ TryAddNextPhase(prog, x) =
             [ pid |-> found.pid, ops |-> ops, moves |-> x.moves,
               pos |-> x.pos, dir |-> x.dir, goto |-> found.goto, more |-> FALSE ]
        \/ /\ found.pid \in Rows(prog) /\ to \in [Axes -> Int]
           /\ TryAddNextPhase(prog, x) =
                [ pid |-> found.pid + 1, ops |-> ops, moves |-> Append(x.moves, m),
                  pos |-> to, dir |-> new, goto |-> found.goto, more |-> TRUE ]
    BY TryIs
  <2>4. ops \in Seq(Nat)
    BY <2>1, <2>2, AppendMove
  <2> HIDE DEF found, to, ops, new
  <2>5. found.pid \in Rows(prog) => found.pid + 1 \in 0 .. Len(prog)
    BY <2>2, ProgramRows
  <2>6. to \in [Axes -> Int] => Append(x.moves, m) \in Seq(Move) /\ new \in [Axes -> {-1, 0, 1}]
    BY <2>1, AppendMove, DirectionIs DEF Move, new
  <2> HIDE DEF m
  <2> HIDE DEF t
  <2> HIDE DEF S, T, n
  <2>a. ASSUME t = [ pid |-> found.pid, ops |-> ops, moves |-> x.moves,
                     pos |-> x.pos, dir |-> x.dir, goto |-> found.goto, more |-> FALSE ]
        PROVE  t \in Searches(prog)
    BY <2>1, <2>2, <2>4, <2>a, IsSearch
  <2>b. ASSUME found.pid \in Rows(prog), to \in [Axes -> Int],
               t = [ pid |-> found.pid + 1, ops |-> ops, moves |-> Append(x.moves, m),
                     pos |-> to, dir |-> new, goto |-> found.goto, more |-> TRUE ]
        PROVE  t \in Searches(prog)
    BY <2>2, <2>4, <2>5, <2>6, <2>b, IsSearch
  <2>7. TryAddNextPhase(prog, x) \in Searches(prog)
    BY <2>3, <2>a, <2>b DEF t
  <2>8. x \in S
    BY DEF T
  <2> QED BY <2>7, <2>8 DEF S, n
<1>2. PICK f : HandsOn(f, S, T, n)
  <2> HIDE DEF S, T, n
  <2> QED BY <1>1, TailRecursion
<1>3. f = [x \in S |-> IF x.more THEN f[TryAddNextPhase(prog, x)] ELSE x]
  <2>1. f = [x \in S |-> f[x]] /\ \A x \in S : f[x] = IF x \in T THEN x ELSE f[n[x]]
    BY <1>2 DEF HandsOn
  <2>2. \A x \in S : f[x] = IF x.more THEN f[TryAddNextPhase(prog, x)] ELSE x
    <3> HIDE DEF S
    <3> QED BY <2>1
  <2> HIDE DEF S, T, n
  <2> QED BY <2>1, <2>2
<1> DEFINE c == Collected(prog)
<1>4. c = [x \in S |-> IF x.more THEN c[TryAddNextPhase(prog, x)] ELSE x]
  BY <1>3 DEF Collected
<1> HIDE DEF S, c
<1> QED BY <1>4 DEF S, c

(* The search ends, whatever the loops, with a chain of moves; if it finds  *)
(* none, it has found the one phase that is executed next.                 *)
LEMMA CollectedEnds ==
  ASSUME NEW prog, IsProgram(prog), NEW start \in [Axes -> Int],
         NEW s, GoesOn(prog, s, start)
  PROVE  LET e == Collected(prog)[s]
         IN  /\ HasEnded(prog, e, start) /\ Len(e.moves) \in Nat /\ Len(e.moves) >= Len(s.moves)
             /\ e.moves = <<>> => e.ops = Append(s.ops, NextOperation(prog, s.pid, s.goto).pid)
<1> DEFINE Well(x) ==
             LET e == Collected(prog)[x]
             IN  /\ HasEnded(prog, e, start) /\ Len(e.moves) \in Nat /\ Len(e.moves) >= Len(x.moves)
                 /\ e.moves = <<>> => e.ops = Append(x.ops, NextOperation(prog, x.pid, x.goto).pid)
           Here(p, g) == \A x : GoesOn(prog, x, start) /\ x.pid = p /\ x.goto = g => Well(x)
           X == {y \in (0 .. Len(prog)) \X Counters(prog) : Here(y[1], y[2])}
<1>0. Len(prog) \in Nat
  BY ProgramRows
<1>1. ASSUME NEW x, GoesOn(prog, x, start)
      PROVE  /\ x \in Searches(prog) /\ x.pid \in 0 .. Len(prog) /\ x.goto \in Counters(prog)
             /\ Len(x.moves) \in Nat
             /\ Collected(prog)[x] = Collected(prog)[TryAddNextPhase(prog, x)]
  <2>1. x \in Searches(prog) /\ x.more
    BY <1>1 DEF GoesOn
  <2>2. x.pid \in 0 .. Len(prog) /\ x.goto \in Counters(prog) /\ x.moves \in Seq(Move)
    BY <2>1 DEF Searches
  <2> QED BY <2>1, <2>2, CollectedIs
<1>2. ASSUME NEW x, HasEnded(prog, x, start)
      PROVE  Collected(prog)[x] = x /\ Len(x.moves) \in Nat
  <2>1. x \in Searches(prog) /\ ~x.more
    BY <1>2 DEF HasEnded
  <2>2. x.moves \in Seq(Move)
    BY <2>1 DEF Searches
  <2> QED BY <2>1, <2>2, CollectedIs
(* where the search finds the row it is at, it ends or goes on below        *)
<1>3. ASSUME NEW p \in 0 .. Len(prog), NEW g \in Counters(prog), ~LoopAt(prog, p),
             p # Len(prog) => <<p + 1, g>> \in X
      PROVE  Here(p, g)
  <2> SUFFICES ASSUME NEW x, GoesOn(prog, x, start), x.pid = p, x.goto = g PROVE Well(x)
    OBVIOUS
  <2> DEFINE t == TryAddNextPhase(prog, x)
  <2>1. NextOperation(prog, x.pid, x.goto).pid = p /\ NextOperation(prog, x.pid, x.goto).goto = g
    BY <1>3, NextOperationIs
  <2>2. \/ /\ HasEnded(prog, t, start) /\ t.moves = x.moves
           /\ t.ops = Append(x.ops, NextOperation(prog, x.pid, x.goto).pid)
        \/ /\ GoesOn(prog, t, start) /\ Len(t.moves) = Len(x.moves) + 1
           /\ p \in Rows(prog) /\ t.pid = p + 1 /\ t.goto = g
    BY <2>1, TryGoesOn
  <2> HIDE DEF t
  <2>3. CASE /\ HasEnded(prog, t, start) /\ t.moves = x.moves
             /\ t.ops = Append(x.ops, NextOperation(prog, x.pid, x.goto).pid)
    <3>1. Collected(prog)[x] = t /\ Len(x.moves) \in Nat
      BY <1>1, <1>2, <2>3 DEF t
    <3> QED BY <2>3, <3>1
  <2>4. CASE /\ GoesOn(prog, t, start) /\ Len(t.moves) = Len(x.moves) + 1
             /\ p \in Rows(prog) /\ t.pid = p + 1 /\ t.goto = g
    <3>1. p # Len(prog)
      BY <2>4, ProgramRows
    <3>2. Well(t)
      <4>1. Here(p + 1, g)
        BY <1>3, <3>1
      <4> HIDE DEF Well
      <4> QED BY <2>4, <4>1
    <3>3. Collected(prog)[x] = Collected(prog)[t] /\ Len(x.moves) \in Nat
      BY <1>1 DEF t
    <3> DEFINE e == Collected(prog)[x]
    <3>4. HasEnded(prog, e, start) /\ Len(e.moves) \in Nat /\ Len(e.moves) >= Len(x.moves) + 1
      BY <2>4, <3>2, <3>3
    <3> HIDE DEF e
    <3>5. e.moves # <<>> /\ Len(e.moves) >= Len(x.moves)
      <4>1. Len(e.moves) # 0
        BY <3>3, <3>4
      <4> QED BY <3>3, <3>4, <4>1
    <3> QED BY <3>4, <3>5 DEF e
  <2> QED BY <2>2, <2>3, <2>4
<1>4. \A g \in Counters(prog) : <<Len(prog), g>> \in X
  <2> HIDE DEF Here
  <2>1. ~LoopAt(prog, Len(prog)) /\ Len(prog) \in 0 .. Len(prog)
    BY <1>0 DEF LoopAt
  <2>2. ASSUME NEW g \in Counters(prog) PROVE Here(Len(prog), g)
    BY <1>3, <2>1
  <2> QED BY <2>1, <2>2
<1>5. ASSUME NEW p \in Rows(prog), NEW g \in Counters(prog),
             <<NextRow(prog, p, g), NextCounts(prog, p, g)>> \in X
      PROVE  <<p, g>> \in X
  <2>0. p \in 0 .. Len(prog) /\ p # Len(prog)
    BY ProgramRows
  <2>1. CASE ~LoopAt(prog, p)
    <3>1. <<p + 1, g>> \in X
      <4> HIDE DEF X
      <4> QED BY <1>5, <2>1 DEF NextRow, NextCounts
    <3>2. Here(p, g)
      <4> HIDE DEF Here, X
      <4> QED BY <1>3, <2>0, <2>1, <3>1
    <3> HIDE DEF Here
    <3> QED BY <2>0, <3>2
  <2>2. CASE LoopAt(prog, p)
    <3> DEFINE p2 == JumpTo(prog, p, g)
               g2 == JumpCounts(prog, p, g)
    <3>1. <<p2, g2>> \in X
      <4> HIDE DEF X
      <4> QED BY <1>5, <2>2 DEF NextRow, NextCounts
    <3>2. p2 \in 0 .. Len(prog) /\ g2 \in Counters(prog) /\ Here(p2, g2)
      <4> HIDE DEF Here, p2, g2
      <4> QED BY <3>1
    <3>3. NextOperation(prog, p, g) = NextOperation(prog, p2, g2)
      BY <2>0, <2>2, NextOperationIs
    <3> HIDE DEF p2, g2
    <3>4. Here(p, g)
      <4> SUFFICES ASSUME NEW x, GoesOn(prog, x, start), x.pid = p, x.goto = g PROVE Well(x)
        OBVIOUS
      <4> DEFINE y == [ pid |-> p2, ops |-> x.ops, moves |-> x.moves, pos |-> x.pos, dir |-> x.dir,
                        goto |-> g2, more |-> TRUE ]
      <4>1. /\ x \in Searches(prog) /\ x.more /\ x.ops \in Seq(Nat) /\ x.moves \in Seq(Move)
            /\ x.pos \in [Axes -> Int] /\ x.dir \in [Axes -> {-1, 0, 1}]
        BY DEF GoesOn, Searches
      <4>2. /\ y \in Searches(prog) /\ y.pid = p2 /\ y.ops = x.ops /\ y.moves = x.moves /\ y.pos = x.pos
            /\ y.dir = x.dir /\ y.goto = g2 /\ y.more = TRUE
        BY <3>2, <4>1, IsSearch
      <4> HIDE DEF y
      <4>3. GoesOn(prog, y, start)
        BY <4>2 DEF GoesOn
      <4>4. TryAddNextPhase(prog, y) = TryAddNextPhase(prog, x)
        BY <3>3, <4>2 DEF TryAddNextPhase
      <4>5. Collected(prog)[x] = Collected(prog)[y]
        BY <1>1, <4>3, <4>4
      <4>6. Well(y)
        <5> HIDE DEF Well
        <5> QED BY <3>2, <4>2, <4>3
      <4> QED BY <3>3, <4>2, <4>5, <4>6
    <3> HIDE DEF Here
    <3> QED BY <2>0, <3>4
  <2> QED BY <2>1, <2>2
<1>6. <<s.pid, s.goto>> \in X
  <2>1. s.pid \in 0 .. Len(prog) /\ s.goto \in Counters(prog)
    BY <1>1
  <2> HIDE DEF X
  <2> QED BY <1>4, <1>5, <2>1, ProgramInduction
<1>7. Here(s.pid, s.goto)
  <2> HIDE DEF Here
  <2> QED BY <1>6
<1> QED BY <1>7

(* What the look-ahead leaves in the processor.  The phases of the moves    *)
(* lie in ops in reverse, above the phase to resume from.                  *)
OfMoves(v) == [i \in 1 .. Len(v.moves) |-> v.ops[Len(v.ops) + 1 - i]]

IsPrepared(prog, v) ==
  /\ v.ops \in Seq(Nat) /\ Len(v.ops) > 0 /\ v.ops[1] \in 0 .. Len(prog)
  /\ v.goto \in Counters(prog) /\ v.pos \in [Axes -> Int]

(* A phase that is not moved by: itself and the one after it.              *)
IsSingle(prog, v, l) ==
  l.moves = <<>> /\ ~LoopAt(prog, v.phase_id) =>
    /\ l.ops[1] = v.phase_id + 1 /\ l.ops[2] = v.phase_id
    /\ Phase(prog, v.phase_id).kind = "operation" =>
         NextPosition(Phase(prog, v.phase_id), v.pos) = v.pos

(* Where a phase leads.                                                    *)
Led(op, pos) == IF op.kind = "operation" THEN NextPosition(op, pos) ELSE pos

(* The search that ends at an operation at once ends because it moves no axis. *)
LEMMA StillEnds ==
  ASSUME NEW prog, IsProgram(prog), NEW start \in [Axes -> Int], NEW s, GoesOn(prog, s, start),
         s.moves = <<>>, s.dir = Still, ~LoopAt(prog, s.pid), s.pid # Len(prog),
         Phase(prog, s.pid).kind = "operation", Collected(prog)[s].moves = <<>>
  PROVE  NextPosition(Phase(prog, s.pid), s.pos) = s.pos
<1> DEFINE found == NextOperation(prog, s.pid, s.goto)
           to    == NextPosition(Phase(prog, found.pid), s.pos)
           new   == Direction(s.pos, to)
           t     == TryAddNextPhase(prog, s)
<1>1. /\ s \in Searches(prog) /\ s.more /\ s.pid \in 0 .. Len(prog) /\ s.goto \in Counters(prog)
      /\ s.pos \in [Axes -> Int]
  BY DEF GoesOn, Searches
<1>2. found.pid = s.pid /\ s.pid \in Rows(prog) /\ to \in [Axes -> Int]
  <2>1. found.pid = s.pid
    BY <1>1, NextOperationIs
  <2>2. s.pid \in Rows(prog)
    BY <1>1, ProgramRows
  <2> HIDE DEF found
  <2> QED BY <1>1, <2>1, <2>2, NextPositionType
<1>3. ~GoesOn(prog, t, start)
  <2>1. SUFFICES ASSUME GoesOn(prog, t, start) PROVE FALSE
    OBVIOUS
  <2>2. Collected(prog)[s] = Collected(prog)[t]
    BY <1>1, CollectedIs
  <2>3. Len(t.moves) = 1
    <3>1. /\ HasEnded(prog, t, start) => ~t.more
          /\ GoesOn(prog, t, start) => t.more
      BY DEF HasEnded, GoesOn
    <3>2. HasEnded(prog, t, start) \/ Len(t.moves) = Len(s.moves) + 1
      BY TryGoesOn
    <3>3. Len(<<>>) + 1 = 1
      OBVIOUS
    <3> HIDE DEF t
    <3> QED BY <2>1, <3>1, <3>2, <3>3
  <2>4. Len(Collected(prog)[t].moves) >= Len(t.moves) /\ Len(Collected(prog)[t].moves) \in Nat
    BY <2>1, CollectedEnds
  <2> HIDE DEF t
  <2> DEFINE n == Len(Collected(prog)[t].moves)
  <2>5. Len(<<>>) = 0
    OBVIOUS
  <2>6. n = 0
    BY <2>2, <2>5
  <2> HIDE DEF n
  <2> QED BY <2>3, <2>4, <2>6 DEF n
<1>4. IsProgramDone(prog, found.pid) \/ Phase(prog, found.pid).kind # "operation"
      \/ Inversion(s.dir, new) \/ new = Still
  <2> SUFFICES ASSUME ~(IsProgramDone(prog, found.pid) \/ Phase(prog, found.pid).kind # "operation"),
                      ~(Inversion(s.dir, new) \/ new = Still)
               PROVE  FALSE
    OBVIOUS
  <2>1. t.more
    <3> HIDE DEF found
    <3> QED BY DEF TryAddNextPhase, found
  <2>2. HasEnded(prog, t, start) => ~t.more
    BY DEF HasEnded
  <2> HIDE DEF t
  <2> QED BY <1>3, <2>1, <2>2, TryGoesOn DEF t
<1>5. new = Still
  <2>1. ~Inversion(s.dir, new)
    BY DEF Inversion, Still
  <2>2. ~IsProgramDone(prog, found.pid) /\ Phase(prog, found.pid).kind = "operation"
    <3> HIDE DEF found
    <3> QED BY <1>2 DEF IsProgramDone
  <2> QED BY <1>4, <2>1, <2>2
<1> HIDE DEF found, to
<1>6. \A a \in Axes : s.pos[a] = to[a]
  <2>1. \A a \in Axes : new[a] # 0 <=> s.pos[a] # to[a]
    BY <1>1, <1>2, DirectionIs
  <2>2. \A a \in Axes : new[a] = 0
    BY <1>5 DEF Still
  <2> QED BY <2>1, <2>2
<1>7. to = s.pos
  BY <1>1, <1>2, <1>6
<1> QED BY <1>2, <1>7 DEF to

LEMMA ReverseIs ==
  ASSUME NEW q \in Seq(Nat)
  PROVE  /\ Reverse(q) \in Seq(Nat) /\ Len(q) \in Nat /\ Len(Reverse(q)) = Len(q)
         /\ \A i \in 1 .. Len(q) : Reverse(q)[i] = q[Len(q) + 1 - i]
<1> DEFINE n == Len(q)
<1>1. n \in Nat /\ \A i \in 1 .. n : q[i] \in Nat
  OBVIOUS
<1> HIDE DEF n
<1>2. \A i \in 1 .. n : (n - i) + 1 \in 1 .. n /\ (n - i) + 1 = n + 1 - i
  BY <1>1
<1>3. Reverse(q) = [i \in 1 .. n |-> q[(n - i) + 1]]
  BY DEF Reverse, n
<1>4. [i \in 1 .. n |-> q[(n - i) + 1]] \in [1 .. n -> Nat]
  BY <1>1, <1>2
<1>5. \A f \in [1 .. n -> Nat] : f \in Seq(Nat) /\ Len(f) = n
  BY <1>1
<1> DEFINE r == Reverse(q)
<1>6. r \in Seq(Nat) /\ Len(r) = n
  BY <1>3, <1>4, <1>5
<1>7. \A i \in 1 .. n : r[i] = q[n + 1 - i]
  BY <1>2, <1>3
<1> QED BY <1>1, <1>6, <1>7 DEF n

LEMMA ListIs ==
  ASSUME NEW prog, IsProgram(prog), NEW v, v.phase_id \in Rows(prog),
         v.pos \in [Axes -> Int], v.goto \in Counters(prog)
  PROVE  LET l == CreateContinuousMovingList(prog, v)
         IN  /\ IsPrepared(prog, l)
             /\ l.moves \in Seq(Move) /\ IsChain(prog, OfMoves(l), l.moves, v.pos, l.pos)
             /\ Len(l.ops) = IF l.moves = <<>> /\ ~LoopAt(prog, v.phase_id) THEN 2
                             ELSE Len(l.moves) + 1
             /\ l.phase_id = v.phase_id /\ IsSingle(prog, v, l)
<1> DEFINE p == v.phase_id
           first == [ pid |-> p, ops |-> <<>>, moves |-> <<>>, pos |-> v.pos, dir |-> Still,
                      goto |-> v.goto, more |-> TRUE ]
           e == Collected(prog)[first]
           single == e.moves = <<>> /\ Phase(prog, v.phase_id).kind # "goto"
           ops == IF single THEN Append(e.ops, Last(e.ops) + 1) ELSE e.ops
           l == CreateContinuousMovingList(prog, v)
<1>1. /\ p \in Rows(prog) /\ p \in 0 .. Len(prog) /\ p # Len(prog) /\ p + 1 \in 0 .. Len(prog) /\ p \in Nat
      /\ Len(prog) \in Nat
  BY ProgramRows
<1>2. GoesOn(prog, first, v.pos)
  <2>1. Still \in [Axes -> {-1, 0, 1}]
    BY DEF Still
  <2>2. <<>> \in Seq(Nat) /\ <<>> \in Seq(Move) /\ Len(<<>>) = 0
    OBVIOUS
  <2>3. /\ first.pid = p /\ first.ops = <<>> /\ first.moves = <<>>
        /\ first.pos = v.pos /\ first.more = TRUE
    OBVIOUS
  <2>a. first \in Searches(prog)
    BY <1>1, <2>1, <2>2 DEF Searches
  <2>4. IsChain(prog, <<>>, <<>>, v.pos, v.pos)
    BY <2>2 DEF IsChain
  <2> HIDE DEF first
  <2> QED BY <2>2, <2>3, <2>a, <2>4 DEF GoesOn
<1>3. /\ HasEnded(prog, e, v.pos)
      /\ e.moves = <<>> => e.ops = Append(<<>>, NextOperation(prog, p, v.goto).pid)
  <2>1. first.ops = <<>> /\ first.pid = p /\ first.goto = v.goto
    OBVIOUS
  <2> HIDE DEF first, p
  <2> QED BY <1>2, <2>1, CollectedEnds
<1>4. l = [ phase_id |-> p, ops |-> Reverse(ops), moves |-> e.moves, pos |-> e.pos, goto |-> e.goto ]
  <2>1. DOMAIN v.goto = Rows(prog) /\ [DOMAIN v.goto -> Counts] = Counters(prog)
    BY DEF Counters
  <2> DEFINE S == [ pid : 0 .. Len(prog), ops : Seq(Nat), moves : Seq(Move),
                    pos : [Axes -> Int], dir : [Axes -> {-1, 0, 1}],
                    goto : [DOMAIN v.goto -> Counts], more : BOOLEAN ]
             c == CHOOSE f : f = [s \in S |-> IF s.more THEN f[TryAddNextPhase(prog, s)] ELSE s]
             d == c[first]
             one == d.moves = <<>> /\ Phase(prog, v.phase_id).kind # "goto"
  <2>2. Searches(prog) = S
    BY <2>1 DEF Searches
  <2>3. l = [ phase_id |-> p,
              ops |-> Reverse(IF one THEN Append(d.ops, Last(d.ops) + 1) ELSE d.ops),
              moves |-> d.moves, pos |-> d.pos, goto |-> d.goto ]
    BY Zenon DEF CreateContinuousMovingList
  <2>4. c = Collected(prog)
    <3> HIDE DEF S
    <3> QED BY <2>2 DEF Collected
  <2> HIDE DEF c
  <2> QED BY <2>3, <2>4
<1>a. e.moves = <<>> /\ ~LoopAt(prog, p) /\ Phase(prog, p).kind = "operation" =>
        NextPosition(Phase(prog, p), v.pos) = v.pos
  <2>1. first.pid = p /\ first.moves = <<>> /\ first.dir = Still /\ first.pos = v.pos
    OBVIOUS
  <2> HIDE DEF first, p
  <2> QED BY <1>1, <1>2, <2>1, StillEnds
<1> HIDE DEF e, first
<1>5. /\ e.ops \in Seq(Nat) /\ e.moves \in Seq(Move) /\ e.pos \in [Axes -> Int] /\ e.goto \in Counters(prog)
      /\ e.pid \in 0 .. Len(prog)
      /\ Len(e.ops) = Len(e.moves) + 1 /\ Len(e.moves) \in Nat /\ e.ops[Len(e.ops)] = e.pid
      /\ IsChain(prog, e.ops, e.moves, v.pos, e.pos)
  BY <1>3 DEF HasEnded, Searches
<1>6. /\ l.ops = Reverse(ops) /\ l.moves = e.moves /\ l.pos = e.pos /\ l.goto = e.goto
      /\ l.phase_id = p
  <2> HIDE DEF ops
  <2> QED BY <1>4
<1>7. single <=> e.moves = <<>> /\ ~LoopAt(prog, p)
  BY <1>1 DEF LoopAt
<1>8. CASE single
  <2>1. NextOperation(prog, p, v.goto).pid = p
    BY <1>1, <1>7, <1>8, NextOperationIs
  <2>2. e.moves = <<>> /\ e.ops = <<p>> /\ Len(e.moves) = 0
    BY <1>3, <1>8, <2>1
  <2> HIDE DEF single
  <2>b. /\ <<p>> \in Seq(Nat) /\ Len(<<p>>) = 1 /\ Last(<<p>>) = p
        /\ Append(<<p>>, p + 1) \in Seq(Nat) /\ Len(Append(<<p>>, p + 1)) = 2
        /\ Append(<<p>>, p + 1)[2] = p + 1 /\ Append(<<p>>, p + 1)[1] = p
    <3> HIDE DEF p
    <3>1. <<p>> \in Seq(Nat) /\ Len(<<p>>) = 1 /\ <<p>>[1] = p /\ p + 1 \in Nat
      BY <1>1
    <3>2. /\ Append(<<p>>, p + 1) \in Seq(Nat) /\ Len(Append(<<p>>, p + 1)) = 1 + 1
          /\ Append(<<p>>, p + 1)[1 + 1] = p + 1 /\ Append(<<p>>, p + 1)[1] = <<p>>[1]
      BY <3>1, AppendMove
    <3> QED BY <3>1, <3>2 DEF Last
  <2>3. ops \in Seq(Nat) /\ Len(ops) = 2 /\ ops[2] = p + 1 /\ ops[1] = p
    BY <1>8, <2>2, <2>b
  <2> HIDE DEF ops
  <2>4. /\ Reverse(ops) \in Seq(Nat) /\ Len(Reverse(ops)) = 2 /\ Reverse(ops)[1] = p + 1
        /\ Reverse(ops)[2] = p
    <3> DEFINE r == Reverse(ops)
    <3>1. r \in Seq(Nat) /\ Len(r) = 2 /\ \A i \in 1 .. 2 : r[i] = ops[2 + 1 - i]
      BY <2>3, ReverseIs
    <3> HIDE DEF r
    <3>2. r[1] = ops[2] /\ r[2] = ops[1]
      <4>1. r[1] = ops[2 + 1 - 1] /\ 2 + 1 - 1 = 2 /\ r[2] = ops[2 + 1 - 2] /\ 2 + 1 - 2 = 1
        BY <3>1
      <4> QED BY <4>1
    <3> QED BY <2>3, <3>1, <3>2 DEF r
  <2>5. IsPrepared(prog, l)
    BY <1>1, <1>5, <1>6, <2>4 DEF IsPrepared
  <2>6. IsChain(prog, OfMoves(l), l.moves, v.pos, l.pos)
    BY <1>5, <1>6, <2>2 DEF IsChain
  <2>7. IsSingle(prog, v, l)
    BY <1>6, <1>7, <1>8, <1>a, <2>4 DEF IsSingle
  <2> QED BY <1>5, <1>6, <1>7, <1>8, <2>2, <2>4, <2>5, <2>6, <2>7
<1>9. CASE ~single
  <2>1. ops = e.ops
    BY <1>9
  <2> HIDE DEF ops, single
  <2> DEFINE n == Len(e.moves)
             r == Reverse(e.ops)
  <2>2. /\ r \in Seq(Nat) /\ Len(r) = n + 1 /\ n \in Nat
        /\ \A i \in 1 .. n + 1 : r[i] = e.ops[n + 2 - i]
    <3>1. /\ r \in Seq(Nat) /\ Len(r) = Len(e.ops)
          /\ \A i \in 1 .. Len(e.ops) : r[i] = e.ops[Len(e.ops) + 1 - i]
      BY <1>5, ReverseIs
    <3> HIDE DEF r, n
    <3>2. Len(e.ops) = n + 1 /\ n \in Nat
      BY <1>5 DEF n
    <3>3. (n + 1) + 1 = n + 2
      BY <3>2
    <3> QED BY <3>1, <3>2, <3>3
  <2>3. l.ops = r /\ e.ops[n + 1] = e.pid
    BY <1>5, <1>6, <2>1
  <2> HIDE DEF n, r
  <2>4. r[1] = e.pid
    BY <2>2, <2>3
  <2>5. IsPrepared(prog, l)
    BY <1>5, <1>6, <2>2, <2>3, <2>4 DEF IsPrepared
  <2>6. \A i \in 1 .. n : OfMoves(l)[i] = e.ops[i]
    <3> SUFFICES ASSUME NEW i \in 1 .. n PROVE OfMoves(l)[i] = e.ops[i]
      OBVIOUS
    <3>1. OfMoves(l)[i] = r[(n + 1) + 1 - i]
      BY <1>6, <2>2, <2>3 DEF OfMoves, n
    <3> DEFINE j == (n + 1) + 1 - i
    <3>2. j \in 1 .. n + 1 /\ n + 2 - j = i
      BY <2>2
    <3> QED BY <2>2, <3>1, <3>2
  <2>7. IsChain(prog, OfMoves(l), l.moves, v.pos, l.pos)
    BY <1>5, <1>6, <2>6 DEF IsChain, n
  <2>8. Len(l.ops) = Len(l.moves) + 1
    BY <1>6, <2>2, <2>3 DEF n
  <2>9. IsSingle(prog, v, l)
    BY <1>6, <1>7, <1>9 DEF IsSingle
  <2> QED BY <1>5, <1>6, <1>7, <1>9, <2>5, <2>7, <2>8, <2>9
<1> QED BY <1>8, <1>9

-----------------------------------------------------------------------------
(***************************************************************************)
(* What auto_mode will know when it has taken the messages of a queue q,    *)
(* and how far it will then be in its list of moves: k[i] and d[i] after i  *)
(* messages.                                                               *)
(***************************************************************************)
IsReport(m) ==
  /\ m.kind \in {"status", "position"}
  /\ m.kind = "position" => m.axis \in Axes /\ m.value \in Int

Reports(q) == IsQueue(q) /\ \A i \in 1 .. Len(q) : IsReport(q[i])

Reads(k, q, from) ==
  /\ k \in [0 .. Len(q) -> [Axes -> Int]] /\ k[0] = from
  /\ \A i \in 1 .. Len(q) :
        k[i] = IF q[i].kind = "position" THEN [k[i - 1] EXCEPT ![q[i].axis] = q[i].value]
               ELSE k[i - 1]

FromOrigin(pos, origin) == [a \in Axes |-> pos[a] - origin[a]]

Detects(d, k, q, moves, from, origin) ==
  /\ d \in [0 .. Len(q) -> Nat] /\ d[0] = from
  /\ \A i \in 1 .. Len(q) :
        d[i] = IF /\ q[i].kind = "position"
                  /\ d[i - 1] + 1 # Len(moves)
                  /\ Reached(moves[d[i - 1] + 1], FromOrigin(k[i], origin))
               THEN d[i - 1] + 1 ELSE d[i - 1]

LEMMA IndexInduction ==
  ASSUME NEW n \in Nat, NEW T, 0 \in T, \A i \in 0 .. n - 1 : i \in T => i + 1 \in T
  PROVE  0 .. n \subseteq T
<1> DEFINE U == {i \in Nat : i <= n => i \in T}
<1>1. 0 \in U
  OBVIOUS
<1>2. \A i \in Nat : i \in U => i + 1 \in U
  OBVIOUS
<1>3. Nat \subseteq U
  <2> HIDE DEF U
  <2> QED BY <1>1, <1>2, NumberInduction
<1> QED BY <1>3

(* n steps can be done one after another...                                *)
IsSteps(g, n, S, s, F) ==
  g \in [0 .. n -> S] /\ g[0] = s /\ \A i \in 1 .. n : g[i] = F[i][g[i - 1]]

LEMMA StepsExist ==
  ASSUME NEW n \in Nat, NEW S, NEW s \in S, NEW F, F \in [1 .. n -> [S -> S]]
  PROVE  \E g : IsSteps(g, n, S, s, F)
<1> DEFINE Upto(m) == \E g \in [0 .. n -> S] : g[0] = s /\ \A i \in 1 .. m : g[i] = F[i][g[i - 1]]
           T == {m \in 0 .. n : Upto(m)}
<1>1. 0 \in T
  <2>1. [i \in 0 .. n |-> s] \in [0 .. n -> S] /\ [i \in 0 .. n |-> s][0] = s
    OBVIOUS
  <2>2. \A i \in 1 .. 0 : FALSE
    OBVIOUS
  <2>3. Upto(0)
    BY <2>1, <2>2
  <2> QED BY <2>3
<1>2. ASSUME NEW m \in 0 .. n - 1, m \in T PROVE m + 1 \in T
  <2>1. PICK g \in [0 .. n -> S] : g[0] = s /\ \A i \in 1 .. m : g[i] = F[i][g[i - 1]]
    BY <1>2
  <2>2. m + 1 \in 1 .. n /\ m \in 0 .. n /\ m + 1 \in 0 .. n
    OBVIOUS
  <2>3. F[m + 1][g[m]] \in S
    BY <2>1, <2>2
  <2> DEFINE h == [g EXCEPT ![m + 1] = F[m + 1][g[m]]]
  <2>4. h \in [0 .. n -> S] /\ h[m + 1] = F[m + 1][g[m]]
        /\ \A i \in 0 .. n : i # m + 1 => h[i] = g[i]
    BY <2>1, <2>2, <2>3
  <2> HIDE DEF h
  <2>5. h[0] = s
    BY <2>1, <2>4
  <2>6. ASSUME NEW i \in 1 .. m + 1 PROVE h[i] = F[i][h[i - 1]]
    <3>1. CASE i = m + 1
      <4>1. h[m] = g[m] /\ i - 1 = m
        BY <2>2, <2>4, <3>1
      <4> QED BY <2>4, <3>1, <4>1
    <3>2. CASE i # m + 1
      <4>1. i \in 1 .. m /\ i \in 0 .. n /\ i - 1 \in 0 .. n /\ i - 1 # m + 1
        BY <3>2
      <4> QED BY <2>1, <2>4, <3>2, <4>1
    <3> QED BY <3>1, <3>2
  <2>7. Upto(m + 1)
    BY <2>4, <2>5, <2>6
  <2> QED BY <2>2, <2>7
<1>3. 0 .. n \subseteq T
  <2> HIDE DEF T
  <2> QED BY <1>1, <1>2, IndexInduction
<1>4. Upto(n)
  BY <1>3
<1> QED BY <1>4 DEF IsSteps

(* ... and go on from where others ended.                                  *)
GoOn(g, f, m, n, S, F) ==
  /\ g \in [0 .. m + n -> S] /\ \A i \in 0 .. m : g[i] = f[i]
  /\ \A i \in 1 .. n : g[m + i] = F[i][g[m + i - 1]]

LEMMA StepsGoOn ==
  ASSUME NEW m \in Nat, NEW n \in Nat, NEW S, NEW f, f \in [0 .. m -> S],
         NEW F, F \in [1 .. n -> [S -> S]]
  PROVE  \E g : GoOn(g, f, m, n, S, F)
<1> DEFINE s == f[m]
<1>0. s \in S
  OBVIOUS
<1> HIDE DEF s
<1>h. PICK h : IsSteps(h, n, S, s, F)
  BY <1>0, StepsExist
<1>1. h \in [0 .. n -> S] /\ h[0] = s /\ \A i \in 1 .. n : h[i] = F[i][h[i - 1]]
  BY <1>h DEF IsSteps
<1> USE DEF s
<1> DEFINE g == [i \in 0 .. m + n |-> IF i <= m THEN f[i] ELSE h[i - m]]
<1>2. g \in [0 .. m + n -> S]
  <2>1. \A i \in 0 .. m + n : IF i <= m THEN i \in 0 .. m ELSE i - m \in 0 .. n
    OBVIOUS
  <2> QED BY <1>1, <2>1
<1>3. \A i \in 0 .. m : g[i] = f[i]
  OBVIOUS
<1>4. \A i \in 0 .. n : g[m + i] = h[i]
  <2> SUFFICES ASSUME NEW i \in 0 .. n PROVE g[m + i] = h[i]
    OBVIOUS
  <2>1. m + i \in 0 .. m + n /\ (m + i) - m = i /\ (m + i <= m => i = 0 /\ m + i = m)
    OBVIOUS
  <2> QED BY <1>1, <2>1
<1>5. ASSUME NEW i \in 1 .. n PROVE g[m + i] = F[i][g[m + i - 1]]
  <2>1. i \in 0 .. n /\ i - 1 \in 0 .. n /\ m + i - 1 = m + (i - 1)
    OBVIOUS
  <2> HIDE DEF g
  <2> QED BY <1>1, <1>4, <2>1
<1> HIDE DEF g
<1> QED BY <1>2, <1>3, <1>5 DEF GoOn

LEMMA ReportsConcat ==
  ASSUME NEW q, NEW r, Reports(q), Reports(r)
  PROVE  /\ Reports(q \o r) /\ Len(q) \in Nat /\ Len(r) \in Nat /\ Len(q \o r) = Len(q) + Len(r)
         /\ \A i \in 1 .. Len(q) : (q \o r)[i] = q[i]
         /\ \A i \in 1 .. Len(r) : (q \o r)[Len(q) + i] = r[i]
         /\ \A i \in 1 .. Len(q \o r) : i \in 1 .. Len(q) \/ \E j \in 1 .. Len(r) : i = Len(q) + j
<1> DEFINE c == q \o r
<1>1. /\ IsQueue(c) /\ Len(q) \in Nat /\ Len(r) \in Nat /\ Len(c) = Len(q) + Len(r)
      /\ \A i \in 1 .. Len(q) : c[i] = q[i]
      /\ \A i \in 1 .. Len(r) : c[Len(q) + i] = r[i]
  BY ConcatQueues DEF Reports
<1> HIDE DEF c
<1>2. ASSUME NEW i \in 1 .. Len(c)
      PROVE  i \in 1 .. Len(q) \/ \E j \in 1 .. Len(r) : i = Len(q) + j
  <2>1. i \notin 1 .. Len(q) => i - Len(q) \in 1 .. Len(r) /\ i = Len(q) + (i - Len(q))
    BY <1>1
  <2> QED BY <2>1
<1>3. \A i \in 1 .. Len(c) : IsReport(c[i])
  BY <1>1, <1>2 DEF Reports
<1> QED BY <1>1, <1>2, <1>3 DEF c, Reports

LEMMA MoreMessages ==
  ASSUME NEW q, NEW r, Reports(q), Reports(r), NEW from, NEW k, Reads(k, q, from)
  PROVE  \E g : Reads(g, q \o r, from) /\ \A i \in 0 .. Len(q) : g[i] = k[i]
<1> DEFINE m == Len(q)
           n == Len(r)
           c == q \o r
<1>1. /\ m \in Nat /\ n \in Nat /\ Len(c) = m + n
      /\ \A i \in 1 .. m : c[i] = q[i]
      /\ \A i \in 1 .. n : c[m + i] = r[i]
      /\ \A i \in 1 .. Len(c) : i \in 1 .. m \/ \E j \in 1 .. n : i = m + j
  <2>1. /\ m \in Nat /\ n \in Nat /\ Len(c) = m + n
        /\ \A i \in 1 .. m : c[i] = q[i]
        /\ \A i \in 1 .. n : c[m + i] = r[i]
    BY ReportsConcat
  <2> HIDE DEF m, n, c
  <2>2. ASSUME NEW i \in 1 .. Len(c), i \notin 1 .. m PROVE \E j \in 1 .. n : i = m + j
    <3>1. i - m \in 1 .. n /\ i = m + (i - m)
      BY <2>1, <2>2
    <3> QED BY <3>1
  <2> QED BY <2>1, <2>2
<1> DEFINE S == [Axes -> Int]
           F == [i \in 1 .. n |-> [x \in S |-> IF r[i].kind = "position"
                                               THEN [x EXCEPT ![r[i].axis] = r[i].value] ELSE x]]
<1>2. F \in [1 .. n -> [S -> S]]
  <2>1. ASSUME NEW i \in 1 .. n, NEW x \in S, r[i].kind = "position"
        PROVE  [x EXCEPT ![r[i].axis] = r[i].value] \in S
    <3>1. r[i].axis \in Axes /\ r[i].value \in Int
      BY <2>1 DEF Reports, IsReport
    <3> DEFINE a == r[i].axis
               v == r[i].value
    <3> HIDE DEF a, v
    <3>2. [x EXCEPT ![a] = v] \in S
      BY <3>1 DEF a, v
    <3> QED BY <3>2 DEF a, v
  <2> HIDE DEF S, n
  <2> QED BY <2>1
<1>3. k \in [0 .. m -> S]
  BY DEF Reads
<1> HIDE DEF S, m, n, c
<1>g. PICK g : GoOn(g, k, m, n, S, F)
  <2>1. m \in Nat /\ n \in Nat
    BY <1>1
  <2> HIDE DEF F
  <2> QED BY <2>1, <1>2, <1>3, StepsGoOn
<1>4. /\ g \in [0 .. m + n -> S] /\ \A i \in 0 .. m : g[i] = k[i]
      /\ \A i \in 1 .. n : g[m + i] = F[i][g[m + i - 1]]
  <2> HIDE DEF F
  <2> QED BY <1>g DEF GoOn
<1>5. \A i \in 1 .. n : g[m + i] = IF r[i].kind = "position"
                                   THEN [g[m + i - 1] EXCEPT ![r[i].axis] = r[i].value] ELSE g[m + i - 1]
  <2>1. \A i \in 1 .. n : m + i - 1 \in 0 .. m + n
    BY <1>1
  <2>2. \A i \in 1 .. n : g[m + i - 1] \in S
    BY <1>4, <2>1
  <2> QED BY <1>4, <2>2
<1>6. ASSUME NEW i \in 1 .. Len(c)
      PROVE  g[i] = IF c[i].kind = "position" THEN [g[i - 1] EXCEPT ![c[i].axis] = c[i].value]
                    ELSE g[i - 1]
  <2>1. CASE i \in 1 .. m
    <3>1. i \in 0 .. m /\ i - 1 \in 0 .. m
      BY <1>1, <2>1
    <3>2. k[i] = IF q[i].kind = "position" THEN [k[i - 1] EXCEPT ![q[i].axis] = q[i].value] ELSE k[i - 1]
      BY <2>1 DEF Reads, m
    <3> QED BY <1>1, <1>4, <2>1, <3>1, <3>2
  <2>2. CASE \E j \in 1 .. n : i = m + j
    <3>1. PICK j \in 1 .. n : i = m + j
      BY <2>2
    <3>2. c[i] = r[j] /\ g[i] = g[m + j] /\ g[i - 1] = g[m + j - 1]
      BY <1>1, <3>1
    <3> HIDE DEF F
    <3> QED BY <1>5, <3>1, <3>2
  <2> QED BY <1>1, <2>1, <2>2
<1>7. g[0] = from
  <2>1. 0 \in 0 .. m
    BY <1>1
  <2> QED BY <1>4, <2>1 DEF Reads
<1>8. Reads(g, c, from)
  <2>1. g \in [0 .. Len(c) -> [Axes -> Int]]
    BY <1>1, <1>4 DEF S
  <2> QED BY <1>6, <1>7, <2>1 DEF Reads
<1> QED BY <1>4, <1>8 DEF m, c

LEMMA MoreDetections ==
  ASSUME NEW q, NEW r, Reports(q), Reports(r), NEW k, NEW g, NEW d, NEW moves, NEW from, NEW origin,
         Detects(d, k, q, moves, from, origin), \A i \in 0 .. Len(q) : g[i] = k[i]
  PROVE  \E e : Detects(e, g, q \o r, moves, from, origin) /\ \A i \in 0 .. Len(q) : e[i] = d[i]
<1> DEFINE m == Len(q)
           n == Len(r)
           c == q \o r
           Seen(x, i) == /\ c[i].kind = "position" /\ x + 1 # Len(moves)
                         /\ Reached(moves[x + 1], FromOrigin(g[i], origin))
           F == [i \in 1 .. n |-> [x \in Nat |-> IF Seen(x, m + i) THEN x + 1 ELSE x]]
<1>1. /\ m \in Nat /\ n \in Nat /\ Len(c) = m + n
      /\ \A i \in 1 .. m : c[i] = q[i]
      /\ \A i \in 1 .. n : c[m + i] = r[i]
      /\ \A i \in 1 .. Len(c) : i \in 1 .. m \/ \E j \in 1 .. n : i = m + j
  <2>1. /\ m \in Nat /\ n \in Nat /\ Len(c) = m + n
        /\ \A i \in 1 .. m : c[i] = q[i]
        /\ \A i \in 1 .. n : c[m + i] = r[i]
    <3> HIDE DEF F, Seen
    <3> QED BY ReportsConcat
  <2> HIDE DEF m, n, c, F, Seen
  <2>2. ASSUME NEW i \in 1 .. Len(c), i \notin 1 .. m PROVE \E j \in 1 .. n : i = m + j
    <3>1. i - m \in 1 .. n /\ i = m + (i - m)
      BY <2>1, <2>2
    <3> QED BY <3>1
  <2> QED BY <2>1, <2>2
<1>2. F \in [1 .. n -> [Nat -> Nat]]
  <2> HIDE DEF Seen
  <2> QED OBVIOUS
<1>3. d \in [0 .. m -> Nat]
  BY DEF Detects
<1>a. \A i \in 1 .. m : d[i] = IF /\ q[i].kind = "position" /\ d[i - 1] + 1 # Len(moves)
                                 /\ Reached(moves[d[i - 1] + 1], FromOrigin(k[i], origin))
                               THEN d[i - 1] + 1 ELSE d[i - 1]
  BY DEF Detects
<1>b. \A i \in 0 .. m : g[i] = k[i]
  OBVIOUS
<1> HIDE DEF m, n, c
<1>g. PICK e : GoOn(e, d, m, n, Nat, F)
  <2>1. m \in Nat /\ n \in Nat
    BY <1>1
  <2> HIDE DEF F
  <2> QED BY <2>1, <1>2, <1>3, StepsGoOn
<1>4. /\ e \in [0 .. m + n -> Nat] /\ \A i \in 0 .. m : e[i] = d[i]
      /\ \A i \in 1 .. n : e[m + i] = F[i][e[m + i - 1]]
  <2> HIDE DEF F
  <2> QED BY <1>g DEF GoOn
<1>5. \A i \in 1 .. n : e[m + i] = IF Seen(e[m + i - 1], m + i) THEN e[m + i - 1] + 1 ELSE e[m + i - 1]
  <2> HIDE DEF Seen
  <2>1. \A i \in 1 .. n : m + i - 1 \in 0 .. m + n
    BY <1>1
  <2>2. \A i \in 1 .. n : e[m + i - 1] \in Nat
    BY <1>4, <2>1
  <2> QED BY <1>4, <2>2
<1>6. ASSUME NEW i \in 1 .. Len(c)
      PROVE  e[i] = IF Seen(e[i - 1], i) THEN e[i - 1] + 1 ELSE e[i - 1]
  <2>1. CASE i \in 1 .. m
    <3>1. i \in 0 .. m /\ i - 1 \in 0 .. m
      BY <1>1, <2>1
    <3>2. e[i] = d[i] /\ e[i - 1] = d[i - 1] /\ g[i] = k[i] /\ c[i] = q[i]
      BY <1>1, <1>4, <1>b, <2>1, <3>1
    <3> QED BY <1>a, <2>1, <3>2
  <2>2. CASE \E j \in 1 .. n : i = m + j
    <3>1. PICK j \in 1 .. n : i = m + j
      BY <2>2
    <3>2. e[i] = e[m + j] /\ e[i - 1] = e[m + j - 1]
      BY <1>1, <3>1
    <3> HIDE DEF F, Seen
    <3> QED BY <1>5, <3>1, <3>2
  <2> QED BY <1>1, <2>1, <2>2
<1>7. e[0] = from
  <2>1. 0 \in 0 .. m
    BY <1>1
  <2> QED BY <1>4, <2>1 DEF Detects
<1>8. Detects(e, g, c, moves, from, origin)
  <2>1. e \in [0 .. Len(c) -> Nat]
    BY <1>1, <1>4
  <2> QED BY <1>6, <1>7, <2>1 DEF Detects
<1> QED BY <1>4, <1>8 DEF m, c

(* A message that has been taken.                                          *)
MovedUp(f, q) == [i \in 0 .. Len(q) - 1 |-> f[i + 1]]

LEMMA OneRead ==
  ASSUME NEW q, Reports(q), q # <<>>, NEW from, NEW k, Reads(k, q, from)
  PROVE  /\ Reports(Tail(q)) /\ IsReport(Head(q)) /\ Head(q) = q[1] /\ k[1] \in [Axes -> Int]
         /\ Len(q) \in Nat /\ Len(q) > 0 /\ Len(Tail(q)) = Len(q) - 1
         /\ \A i \in 1 .. Len(q) - 1 : Tail(q)[i] = q[i + 1]
         /\ k[1] = IF Head(q).kind = "position"
                   THEN [from EXCEPT ![Head(q).axis] = Head(q).value] ELSE from
         /\ Reads(MovedUp(k, q), Tail(q), k[1])
<1> DEFINE n == Len(q)
           t == Tail(q)
           g == [i \in 0 .. n - 1 |-> k[i + 1]]
           R(x, m) == IF m.kind = "position" THEN [x EXCEPT ![m.axis] = m.value] ELSE x
<1>1. /\ IsQueue(t) /\ n \in Nat /\ n > 0 /\ Len(t) = n - 1 /\ Head(q) = q[1]
      /\ \A i \in 1 .. n - 1 : t[i] = q[i + 1]
  BY TailQueue DEF Reports
<1>2. /\ k \in [0 .. n -> [Axes -> Int]] /\ k[0] = from
      /\ \A i \in 1 .. n : k[i] = R(k[i - 1], q[i])
      /\ \A i \in 1 .. n : IsReport(q[i])
  BY DEF Reads, Reports
<1> HIDE DEF n, t, R
<1>3. Reports(t) /\ IsReport(Head(q))
  <2>1. \A i \in 1 .. n - 1 : i + 1 \in 1 .. n
    BY <1>1
  <2>2. 1 \in 1 .. n
    BY <1>1
  <2>3. \A i \in 1 .. Len(t) : IsReport(t[i])
    BY <1>1, <1>2, <2>1
  <2> QED BY <1>1, <1>2, <2>2, <2>3 DEF Reports
<1>4. /\ k[1] = R(from, Head(q))
      /\ k[1] \in [Axes -> Int]
  <2>1. 1 \in 1 .. n /\ 1 \in 0 .. n /\ 1 - 1 = 0
    BY <1>1
  <2> QED BY <1>1, <1>2, <2>1
<1>5. Reads(g, t, k[1])
  <2>1. \A i \in 0 .. n - 1 : i + 1 \in 0 .. n
    BY <1>1
  <2>2. g \in [0 .. Len(t) -> [Axes -> Int]]
    BY <1>1, <1>2, <2>1
  <2>3. g[0] = k[1]
    BY <1>1
  <2>4. ASSUME NEW i \in 1 .. Len(t)
        PROVE  g[i] = R(g[i - 1], t[i])
    <3>1. i + 1 \in 1 .. n /\ (i + 1) - 1 = i /\ g[i] = k[i + 1] /\ g[i - 1] = k[i] /\ t[i] = q[i + 1]
      BY <1>1
    <3> HIDE DEF g
    <3> QED BY <1>2, <3>1
  <2> HIDE DEF g
  <2> QED BY <2>2, <2>3, <2>4 DEF Reads, R
<1>6. g = MovedUp(k, q)
  BY DEF MovedUp, n
<1> HIDE DEF g
<1> QED BY <1>1, <1>3, <1>4, <1>5, <1>6 DEF n, t, R

LEMMA OneDetected ==
  ASSUME NEW q, IsQueue(q), q # <<>>, NEW k, NEW d, NEW moves, NEW from, NEW origin,
         Detects(d, k, q, moves, from, origin)
  PROVE  /\ d[0] = from /\ d[1] \in Nat
         /\ d[1] = IF /\ Head(q).kind = "position" /\ from + 1 # Len(moves)
                      /\ Reached(moves[from + 1], FromOrigin(k[1], origin))
                   THEN from + 1 ELSE from
         /\ Detects(MovedUp(d, q), MovedUp(k, q), Tail(q), moves, d[1], origin)
<1> DEFINE n == Len(q)
           t == Tail(q)
           g == [i \in 0 .. n - 1 |-> k[i + 1]]
           e == [i \in 0 .. n - 1 |-> d[i + 1]]
           Sees(x, m, pos) == /\ m.kind = "position" /\ x + 1 # Len(moves)
                              /\ Reached(moves[x + 1], FromOrigin(pos, origin))
<1>1. /\ n \in Nat /\ n > 0 /\ Len(t) = n - 1 /\ Head(q) = q[1]
      /\ \A i \in 1 .. n - 1 : t[i] = q[i + 1]
  BY TailQueue
<1>2. /\ d \in [0 .. n -> Nat] /\ d[0] = from
      /\ \A i \in 1 .. n : d[i] = IF Sees(d[i - 1], q[i], k[i]) THEN d[i - 1] + 1 ELSE d[i - 1]
  BY DEF Detects
<1> HIDE DEF n, t, Sees
<1>3. d[1] \in Nat /\ d[1] = IF Sees(from, Head(q), k[1]) THEN from + 1 ELSE from
  <2>1. 1 \in 1 .. n /\ 1 \in 0 .. n /\ 1 - 1 = 0
    BY <1>1
  <2> QED BY <1>1, <1>2, <2>1
<1>4. \A i \in 0 .. n - 1 : i + 1 \in 0 .. n
  BY <1>1
<1>5. e \in [0 .. Len(t) -> Nat]
  BY <1>1, <1>2, <1>4
<1>6. e[0] = d[1]
  BY <1>1
<1>7. ASSUME NEW i \in 1 .. Len(t)
      PROVE  e[i] = IF Sees(e[i - 1], t[i], g[i]) THEN e[i - 1] + 1 ELSE e[i - 1]
  <2>1. /\ i + 1 \in 1 .. n /\ (i + 1) - 1 = i /\ e[i] = d[i + 1] /\ e[i - 1] = d[i]
        /\ t[i] = q[i + 1] /\ g[i] = k[i + 1]
    BY <1>1
  <2> HIDE DEF g, e
  <2> QED BY <1>2, <2>1
<1> HIDE DEF g, e
<1>8. Detects(e, g, t, moves, d[1], origin)
  BY <1>5, <1>6, <1>7 DEF Detects, Sees
<1>9. e = MovedUp(d, q) /\ g = MovedUp(k, q)
  BY DEF MovedUp, n, g, e
<1> QED BY <1>2, <1>3, <1>8, <1>9 DEF n, t, Sees

(* The last segment is not watched.                                        *)
LEMMA LastIsNotWatched ==
  ASSUME NEW q, IsQueue(q), NEW k, NEW d, NEW moves, NEW from, NEW origin,
         Detects(d, k, q, moves, from, origin),
         NEW i \in 0 .. Len(q), d[i] + 1 = Len(moves), NEW j \in i .. Len(q)
  PROVE  d[j] = d[i]
<1>1. Len(q) \in Nat
  BY EmptyQueue
<1> DEFINE T == {x \in Nat : i + x <= Len(q) => d[i + x] = d[i]}
<1>2. 0 \in T
  BY <1>1
<1>3. ASSUME NEW x \in Nat, x \in T PROVE x + 1 \in T
  <2> SUFFICES ASSUME i + (x + 1) <= Len(q) PROVE d[i + (x + 1)] = d[i]
    OBVIOUS
  <2> DEFINE y == i + (x + 1)
  <2>1. y \in 1 .. Len(q) /\ y - 1 = i + x /\ d[i + x] = d[i]
    BY <1>1, <1>3
  <2> HIDE DEF y
  <2>2. d[y] = d[y - 1]
    BY <2>1 DEF Detects
  <2> QED BY <2>1, <2>2 DEF y
<1>4. Nat \subseteq T
  <2> HIDE DEF T
  <2> QED BY <1>2, <1>3, NumberInduction
<1>5. j - i \in Nat /\ i + (j - i) = j /\ j <= Len(q)
  BY <1>1
<1>6. j - i \in T
  BY <1>4, <1>5
<1> QED BY <1>5, <1>6

(* The reports of a set of axes, in any order.                             *)
Tells(r, S, pos) ==
  /\ \A i \in 1 .. Len(r) : r[i].kind = "position" /\ r[i].axis \in S /\ r[i].value = pos[r[i].axis]
  /\ \A a \in S : \E i \in 1 .. Len(r) : r[i].axis = a

LEMMA FinalReportsTell ==
  ASSUME IsFiniteSet(Axes), cncAxes \subseteq Axes, NEW pos \in [Axes -> Int]
  PROVE  Reports(FinalReports(pos)) /\ Tells(FinalReports(pos), cncAxes, pos)
<1> DEFINE o == SetToSeq(cncAxes)
           n == Len(o)
           r == FinalReports(pos)
<1>1. IsFiniteSet(cncAxes)
  BY FS_Subset
<1>2. \E f \in [1 .. Cardinality(cncAxes) -> cncAxes] : IsInjective(f)
  <2>1. PICK x \in Nat : ExistsBijection(1 .. x, cncAxes)
    BY <1>1, FS_NatBijection
  <2>2. Cardinality(cncAxes) = x
    BY <2>1, FS_CountingElements
  <2>3. PICK f \in Bijection(1 .. x, cncAxes) : TRUE
    BY <2>1 DEF ExistsBijection
  <2>4. f \in [1 .. x -> cncAxes] /\ \A i, j \in 1 .. x : f[i] = f[j] => i = j
    BY <2>3 DEF Bijection, Injection, IsInjective
  <2> QED BY <2>2, <2>4 DEF IsInjective
<1>3. o \in [1 .. Cardinality(cncAxes) -> cncAxes] /\ IsInjective(o)
  BY <1>2 DEF SetToSeq
<1>4. o \in SetToSeqs(cncAxes)
  BY <1>3 DEF SetToSeqs, IsInjective
<1>5. /\ IsQueue(o) /\ n \in Nat /\ DOMAIN o = 1 .. n
      /\ \A i \in 1 .. n : o[i] \in cncAxes
      /\ \A a \in cncAxes : \E i \in 1 .. n : o[i] = a
  <2>1. /\ IsQueue(o) /\ n = Cardinality(cncAxes) /\ Cardinality(cncAxes) \in Nat
        /\ \A i \in 1 .. n : o[i] \in cncAxes
        /\ \A a \in cncAxes : \E i \in 1 .. n : o[i] = a
    BY <1>1, <1>4, OrdersOfSet
  <2>2. DOMAIN o = 1 .. Cardinality(cncAxes)
    BY <1>3
  <2> HIDE DEF o
  <2> QED BY <2>1, <2>2
<1>6. r = [i \in 1 .. n |-> Position(o[i], pos[o[i]])]
  BY <1>5 DEF FinalReports
<1> HIDE DEF o, n, r
<1> DEFINE M == [kind : {"position"}, axis : Axes, value : Int]
<1>7. \A i \in 1 .. n : Position(o[i], pos[o[i]]) \in M
  BY <1>5 DEF Position
<1> HIDE DEF M
<1>8. r \in Seq(M) /\ Len(r) = n
  <2>1. r \in [1 .. n -> M]
    BY <1>6, <1>7
  <2> QED BY <1>5, <2>1
<1>9. \A i \in 1 .. n : /\ r[i].kind = "position" /\ r[i].axis = o[i] /\ r[i].value = pos[o[i]]
  BY <1>6 DEF Position
<1>10. \A i \in 1 .. n : pos[o[i]] \in Int
  BY <1>5
<1>11. Reports(r)
  BY <1>5, <1>8, <1>9, <1>10 DEF Reports, IsQueue, IsReport
<1>12. Tells(r, cncAxes, pos)
  BY <1>5, <1>8, <1>9 DEF Tells
<1> QED BY <1>11, <1>12 DEF r

(* When they have been read, the axes of the set are known.                *)
Knows(k, m, n, S, pos) == \A a \in Axes : k[n][a] = IF a \in S THEN pos[a] ELSE k[m][a]

LEMMA TellsAll ==
  ASSUME NEW c, Reports(c), NEW r, Reports(r), NEW m \in Nat, m + Len(r) <= Len(c),
         \A i \in 1 .. Len(r) : c[m + i] = r[i],
         NEW from, NEW k, Reads(k, c, from), NEW S, NEW pos \in [Axes -> Int], Tells(r, S, pos)
  PROVE  Knows(k, m, m + Len(r), S, pos)
<1> DEFINE n == Len(r)
           Told(a, x) == \E i \in 1 .. x : r[i].axis = a
           T == {x \in 0 .. n : \A a \in Axes : k[m + x][a] = IF Told(a, x) THEN pos[a] ELSE k[m][a]}
<1>1. /\ n \in Nat /\ Len(c) \in Nat /\ m + n <= Len(c)
      /\ \A i \in 1 .. n : c[m + i] = r[i]
  BY EmptyQueue DEF Reports
<1>2. /\ k \in [0 .. Len(c) -> [Axes -> Int]]
      /\ \A i \in 1 .. Len(c) : k[i] = IF c[i].kind = "position"
                                       THEN [k[i - 1] EXCEPT ![c[i].axis] = c[i].value] ELSE k[i - 1]
  BY DEF Reads
<1>3. \A i \in 1 .. n : r[i].kind = "position" /\ r[i].axis \in Axes /\ r[i].value = pos[r[i].axis]
  BY DEF Tells, Reports, IsReport
<1> HIDE DEF n
<1>4. 0 \in T
  <2>1. \A a : ~Told(a, 0)
    OBVIOUS
  <2> HIDE DEF Told
  <2> QED BY <1>1, <2>1
<1>5. ASSUME NEW x \in 0 .. n - 1, x \in T PROVE x + 1 \in T
  <2>1. /\ m + (x + 1) \in 1 .. Len(c) /\ (m + (x + 1)) - 1 = m + x /\ m + x \in 0 .. Len(c)
        /\ x + 1 \in 1 .. n /\ x + 1 \in 0 .. n
    BY <1>1
  <2>2. k[m + (x + 1)] = [k[m + x] EXCEPT ![r[x + 1].axis] = r[x + 1].value]
    BY <1>1, <1>2, <1>3, <2>1
  <2>3. \A a \in Axes : k[m + (x + 1)][a] = IF a = r[x + 1].axis THEN pos[a] ELSE k[m + x][a]
    <3>1. k[m + x] \in [Axes -> Int]
      BY <1>2, <2>1
    <3> QED BY <1>3, <2>1, <2>2, <3>1
  <2>4. \A a : Told(a, x + 1) <=> a = r[x + 1].axis \/ Told(a, x)
    <3>1. \A i : i \in 1 .. x + 1 <=> i \in 1 .. x \/ i = x + 1
      OBVIOUS
    <3> QED BY <3>1
  <2>5. \A a \in Axes : k[m + x][a] = IF Told(a, x) THEN pos[a] ELSE k[m][a]
    BY <1>5
  <2> HIDE DEF Told
  <2>6. \A a \in Axes : k[m + (x + 1)][a] = IF Told(a, x + 1) THEN pos[a] ELSE k[m][a]
    BY <2>3, <2>4, <2>5
  <2> QED BY <2>1, <2>6
<1>6. n \in T
  <2> HIDE DEF T
  <2>1. 0 .. n \subseteq T
    BY <1>1, <1>4, <1>5, IndexInduction
  <2> QED BY <1>1, <2>1
<1>7. \A a \in Axes : Told(a, n) <=> a \in S
  BY DEF Tells, n
<1> HIDE DEF Told
<1>8. \A a \in Axes : k[m + n][a] = IF Told(a, n) THEN pos[a] ELSE k[m][a]
  BY <1>6
<1> QED BY <1>7, <1>8 DEF n, Knows

-----------------------------------------------------------------------------
(***************************************************************************)
(* Why the processor never throws: the phases it holds, the positions it    *)
(* knows, the reports under way and what is left of the task in the axes    *)
(* stay in step.                                                           *)
(***************************************************************************)
Success(m) == m.kind = "status" /\ m.status = "ready" /\ ~m.err
Refusal(m) == m.kind = "status" /\ m.status # "active" /\ ~Success(m)

(* From message s on, only true positions are under way.                   *)
TrueFrom(s) ==
  \A i \in s .. Len(fromAxis) :
    fromAxis[i].kind = "position" /\ fromAxis[i].value = truePos[fromAxis[i].axis]

Quiet == cncRun = "idle" /\ known = truePos /\ TrueFrom(1)

IsTask(task) == task.list \in Seq([Axes -> Int]) /\ task.count \in 0 .. Len(task.list)

Wires ==
  /\ Reports(fromAxis)
  /\ IsQueue(toAxis)
  /\ \A i \in 1 .. Len(toAxis) : toAxis[i].cmd = "move" => IsTask(toAxis[i].task)

AxesTyped ==
  /\ known \in [Axes -> Int] /\ truePos \in [Axes -> Int] /\ initial \in [Axes -> Int]
  /\ lag \in [Axes -> Nat] /\ cncAxes \subseteq Axes
  /\ cncTasks \in Seq([Axes -> Int])
  /\ \A i \in 1 .. Len(cncTasks) : \A a \in Axes : cncTasks[i][a] # 0 => a \in cncAxes

(* Only axes of the task move, and they report where they come to rest.    *)
Caught(k) ==
  \A a \in Axes : k[Len(fromAxis)][a] = truePos[a] \/ (cncRun # "idle" /\ a \in cncAxes)

Offered ==
  /\ program \in Programs \cup {NoProgram}
  /\ state = "null" => (ictl = "ready" => systemReady) /\ (systemReady => program # NoProgram)
  /\ state # "null" => phases \in Programs

Initialized == state \notin {"null", "wait_stuff_activated", "initialize"}

Linked(moves) ==
  /\ moves \in Seq(Move) /\ moves # <<>>
  /\ \A i \in 1 .. Len(moves) : \E a \in Axes : MovesAxis(moves[i], a)
  /\ \A i \in 1 .. Len(moves) - 1 : moves[i + 1].from = moves[i].to

(* A record of the processor.                                              *)
IsVm(v) ==
  v \in [ phase_id : {v.phase_id}, ops : {v.ops}, moves : {v.moves}, pos : {v.pos},
          goto : {v.goto} ]

(* How many phases the processor holds in each state.                      *)
VmReady ==
  /\ IsVm(vm)
  /\ Initialized => IsPrepared(phases, vm)
  /\ state = "loop" => Len(vm.ops) = 1
  /\ Initialized /\ state \notin {"loop", "start_moving"} => Len(vm.ops) = 2
  /\ Initialized /\ state # "start_moving" => vm.pos = Where
  /\ state = "start_moving" =>
        /\ Linked(vm.moves) /\ vm.moves[Len(vm.moves)].to = vm.pos
        /\ Len(vm.ops) \in 2 .. Len(vm.moves) + 1

(* Before the task is taken nothing moves and no segment is reached.       *)
AtStart == CurrentMove(vm) = 0 /\ Where = vm.moves[1].from

Sent == toAxis = <<AxisTask(FillCncTask(vm))>> /\ Quiet /\ AtStart

(***************************************************************************)
(* While the axes move they are in the segment the processor will have      *)
(* reached or one further, and then some axis has not told yet.            *)
(***************************************************************************)
Advanced == Len(vm.moves) - Len(cncTasks)

Target(moves, i) == IF i = 0 THEN moves[1].from ELSE moves[i].to

Abreast(e, seen, moves, adv, where, behind) ==
  /\ e \in 0 .. Len(moves) - 1 /\ adv \in {e, e + 1}
  /\ where = Target(moves, adv)
  /\ \A a \in Axes : seen[a] \in {Target(moves, e)[a], Target(moves, adv)[a]}
  /\ \A a \in Axes : behind[a] = 0 => seen[a] = where[a]
  /\ adv = e + 1 /\ adv # Len(moves) =>
        \E a \in Axes : MovesAxis(moves[e + 1], a) /\ seen[a] # Target(moves, e + 1)[a]

(* What is left of the task are the last moves of the list.                *)
LeftOf(tasks, moves, adv) ==
  \A i \in 1 .. Len(tasks) : \A a \in Axes :
    tasks[i][a] = moves[adv + i].to[a] - moves[adv + i].from[a]

Seen(k) == FromOrigin(k[Len(fromAxis)], initial)

Moving(k, d) ==
  /\ toAxis = <<>> /\ cncRun = "moving"
  /\ \A i \in 1 .. Len(fromAxis) : ~Success(fromAxis[i])
  /\ LeftOf(cncTasks, vm.moves, Advanced)
  /\ Abreast(d[Len(fromAxis)], Seen(k), vm.moves, Advanced, Where, lag)

(* All reports but the last segment's come before the axes are done.       *)
Arrived(k, d) ==
  /\ toAxis = <<>> /\ cncRun = "idle" /\ vm.pos = Where
  /\ \E s \in 1 .. Len(fromAxis) :
        /\ Success(fromAxis[s]) /\ \A i \in 1 .. s - 1 : ~Success(fromAxis[i])
        /\ d[s] + 1 = Len(vm.moves) /\ k[s] = truePos /\ TrueFrom(s + 1)

Refused ==
  \E s \in 1 .. Len(fromAxis) :
    Refusal(fromAxis[s]) /\ \A i \in 1 .. s - 1 : ~Success(fromAxis[i])

Running == state = "start_moving" /\ ~armed

Travels(k, d) ==
  /\ state # "null" /\ ~Running => toAxis = <<>> /\ Quiet
  /\ state = "start_moving" /\ armed => AtStart
  /\ Running => axisListener # "none" /\ (Sent \/ Moving(k, d) \/ Arrived(k, d) \/ Refused)

Watches(k, d) ==
  state = "start_moving" => Detects(d, k, fromAxis, vm.moves, CurrentMove(vm), initial)

Steps(k, d) ==
  /\ Reads(k, fromAxis, known) /\ Watches(k, d)
  /\ ~fault /\ Wires /\ AxesTyped /\ Caught(k) /\ Offered /\ VmReady /\ Travels(k, d)

InStep == \E k, d : Steps(k, d)

(* A record with other phases left.                                        *)
LEMMA NextPhaseIs ==
  ASSUME NEW v, IsVm(v)
  PROVE  LET w == ToNextPhase(v)
         IN  /\ IsVm(w) /\ w.phase_id = Last(v.ops) /\ w.ops = Front(v.ops)
             /\ w.moves = v.moves /\ w.pos = v.pos /\ w.goto = v.goto
  BY DEF ToNextPhase, IsVm

LEMMA NextPhaseLeaves ==
  ASSUME NEW prog, NEW v, IsVm(v), IsPrepared(prog, v), Len(v.ops) > 1
  PROVE  LET w == ToNextPhase(v)
         IN  /\ IsVm(w) /\ IsPrepared(prog, w) /\ Len(v.ops) \in Nat /\ Len(w.ops) = Len(v.ops) - 1
             /\ w.moves = v.moves /\ w.pos = v.pos
<1> DEFINE w == ToNextPhase(v)
           n == Len(v.ops)
<1>1. /\ IsVm(w) /\ w.ops = Front(v.ops) /\ w.moves = v.moves /\ w.pos = v.pos /\ w.goto = v.goto
  BY NextPhaseIs
<1>2. v.ops \in Seq(Nat) /\ n \in Nat /\ n > 1 /\ v.ops[1] \in 0 .. Len(prog)
      /\ v.goto \in Counters(prog) /\ v.pos \in [Axes -> Int]
  BY DEF IsPrepared
<1>3. IsQueue(v.ops) /\ v.ops # <<>>
  BY <1>2 DEF IsQueue
<1>4. Len(w.ops) = n - 1 /\ \A i \in 1 .. n - 1 : w.ops[i] = v.ops[i]
  BY <1>1, <1>3, FrontQueue
<1>5. w.ops \in Seq(Nat)
  BY <1>1, <1>2, <1>3 DEF Front
<1> HIDE DEF w, n
<1>6. IsPrepared(prog, w)
  BY <1>1, <1>2, <1>4, <1>5 DEF IsPrepared
<1> QED BY <1>1, <1>2, <1>4, <1>6 DEF w, n

(* What a run's end leaves of it.                                          *)
LEMMA StopKeepsInStep ==
  ASSUME NEW k, NEW d, ~fault, Reads(k, fromAxis, known)', Reports(fromAxis)',
         Wires, AxesTyped, Offered, IsVm(vm'),
         (\A a \in Axes : k[Len(fromAxis)][a] = truePos[a] \/ (cncRun # "idle" /\ a \in cncAxes))',
         \E result : StopExecution(result),
         UNCHANGED <<fault, program, phases, initial, cncVars>>, known' \in [Axes -> Int]
  PROVE  InStep'
<1>1. state' = "null" /\ ictl' = "blocked" /\ systemReady' = FALSE
      /\ toAxis' = Append(toAxis, Deactivation)
  BY DEF StopExecution, SwitchTo
<1>2. Wires'
  <2>1. /\ IsQueue(toAxis') /\ Len(toAxis) \in Nat /\ Len(toAxis') = Len(toAxis) + 1
        /\ toAxis'[Len(toAxis) + 1] = Deactivation
        /\ \A i \in 1 .. Len(toAxis) : toAxis'[i] = toAxis[i]
    BY <1>1, AppendQueue DEF Wires
  <2>2. Deactivation.cmd # "move"
    BY DEF Deactivation
  <2>3. ASSUME NEW i \in 1 .. Len(toAxis'), toAxis'[i].cmd = "move" PROVE IsTask(toAxis'[i].task)
    <3>1. i \in 1 .. Len(toAxis)
      BY <2>1, <2>2, <2>3
    <3> QED BY <2>1, <2>3, <3>1 DEF Wires
  <2> QED BY <2>1, <2>3 DEF Wires
<1>3. AxesTyped'
  BY DEF AxesTyped, cncVars
<1>4. Offered'
  BY <1>1 DEF Offered
<1>5. VmReady' /\ Travels(k, d)' /\ Watches(k, d)'
  BY <1>1 DEF VmReady, Initialized, Travels, Running, Watches
<1>6. Caught(k)'
  BY DEF Caught
<1> QED BY <1>2, <1>3, <1>4, <1>5, <1>6 DEF InStep, Steps

-----------------------------------------------------------------------------
(***************************************************************************)
(* Steps that leave the axes, the reports and the processor alone.         *)
(***************************************************************************)
Apart == UNCHANGED <<fromAxis, known, initial, vm, cncVars, toAxis, fault>>

LEMMA StaysQuiet ==
  ASSUME Apart
  PROVE  /\ Wires => Wires'
         /\ AxesTyped => AxesTyped'
         /\ Where' = Where /\ (Quiet => Quiet')
         /\ \A k : Reads(k, fromAxis, known) => Reads(k, fromAxis, known)'
         /\ \A k : Caught(k) => Caught(k)'
  BY DEF Apart, Wires, AxesTyped, cncVars, Where, Quiet, TrueFrom, Reads, Caught

LEMMA StateStays ==
  ASSUME InStep, Apart, UNCHANGED <<state, armed, phases>>, axisListener' = axisListener, Offered'
  PROVE  InStep'
<1> PICK k, d : Steps(k, d)
  BY DEF InStep
<1>1. /\ Wires' /\ AxesTyped' /\ Where' = Where /\ Reads(k, fromAxis, known)' /\ Caught(k)' /\ ~fault'
  BY StaysQuiet DEF Steps, Apart
<1>2. VmReady'
  BY <1>1 DEF Steps, VmReady, Initialized, Apart
<1>3. Watches(k, d)'
  BY DEF Steps, Watches, Detects, CurrentMove, Apart
<1>4. Travels(k, d)'
  <2>1. /\ Quiet => Quiet'
        /\ (AtStart => AtStart') /\ (Running' <=> Running) /\ Seen(k)' = Seen(k) /\ Advanced' = Advanced
    BY <1>1, StaysQuiet DEF AtStart, Running, Seen, Advanced, Apart, cncVars
  <2>2. Sent => Sent'
    BY <2>1 DEF Sent, Apart
  <2>3. Moving(k, d) => Moving(k, d)'
    <3>1. /\ UNCHANGED <<toAxis, cncRun, fromAxis, cncTasks, lag, vm>>
          /\ Where' = Where /\ Seen(k)' = Seen(k) /\ Advanced' = Advanced
      BY <1>1, <2>1 DEF Apart, cncVars
    <3>2. /\ d[Len(fromAxis)]' = d[Len(fromAxis)] /\ (vm.moves)' = vm.moves
      BY <3>1
    <3> QED BY <3>1, <3>2 DEF Moving
  <2>4. Arrived(k, d) => Arrived(k, d)'
    BY <1>1 DEF Arrived, Apart, cncVars, TrueFrom
  <2>5. Refused => Refused'
    BY DEF Refused, Apart
  <2>6. UNCHANGED <<state, armed, axisListener, toAxis>>
    BY DEF Apart
  <2>7. Travels(k, d)
    BY DEF Steps
  <2>8. (Running => Sent \/ Moving(k, d) \/ Arrived(k, d) \/ Refused)'
    BY <2>1, <2>2, <2>3, <2>4, <2>5, <2>7 DEF Travels
  <2> QED BY <2>1, <2>6, <2>7, <2>8 DEF Travels
<1> QED BY <1>1, <1>2, <1>3, <1>4 DEF InStep, Steps

LEMMA StateChanges ==
  ASSUME InStep, Apart, state # "null", ~Running,
         state' \notin {"null", "start_moving"}, phases' = phases, Offered',
         Initialized' => Initialized /\ state \notin {"loop", "start_moving"} /\ state' # "loop"
  PROVE  InStep'
<1> PICK k, d : Steps(k, d)
  BY DEF InStep
<1>1. /\ Wires' /\ AxesTyped' /\ Where' = Where /\ Reads(k, fromAxis, known)' /\ Caught(k)' /\ ~fault'
  BY StaysQuiet DEF Steps, Apart
<1>2. VmReady'
  <2>1. /\ VmReady /\ vm' = vm
    BY DEF Steps, Apart
  <2>2. IsVm(vm') /\ (Initialized' => IsPrepared(phases', vm'))
    BY <2>1 DEF VmReady
  <2>3. Initialized' => Len(vm'.ops) = 2 /\ vm'.pos = Where'
    BY <1>1, <2>1 DEF VmReady, Initialized
  <2> QED BY <2>2, <2>3 DEF VmReady, Initialized
<1>3. Watches(k, d)' /\ Travels(k, d)'
  <2>1. toAxis = <<>> /\ Quiet'
    BY StaysQuiet DEF Steps, Travels
  <2> QED BY <2>1 DEF Watches, Travels, Running, Apart
<1> QED BY <1>1, <1>2, <1>3 DEF InStep, Steps

(* Stopping leaves the reports alone.                                      *)
LEMMA StopInStep ==
  ASSUME InStep, \E result : StopExecution(result),
         UNCHANGED <<fault, program, phases, initial, cncVars, fromAxis, known>>, IsVm(vm')
  PROVE  InStep'
<1> PICK k, d : Steps(k, d)
  BY DEF InStep
<1>1. /\ Reads(k, fromAxis, known)' /\ Reports(fromAxis)'
      /\ (\A a \in Axes : k[Len(fromAxis)][a] = truePos[a] \/ (cncRun # "idle" /\ a \in cncAxes))'
      /\ known' \in [Axes -> Int]
  BY DEF Steps, Reads, Wires, Caught, cncVars, AxesTyped
<1> QED BY <1>1, StopKeepsInStep DEF Steps

LEMMA ActivateInStep ==
  ASSUME InStep, Activate, state # "null", UNCHANGED <<fromAxis, cncVars>>
  PROVE  InStep'
<1>1. Apart
  BY DEF Apart, Activate
<1>2. UNCHANGED <<program, systemReady, phases>>
  BY DEF Activate
<1>3. Offered'
  <2>1. state' # "null"
    BY DEF Activate, SwitchTo, stateVars
  <2> QED BY <1>2, <2>1 DEF InStep, Steps, Offered
<1>4. CASE state = "infinity_pause" /\ SwitchTo("pause_done")
  <2>1. state' = "pause_done" /\ Initialized /\ ~Running
    BY <1>4 DEF SwitchTo, Initialized, Running
  <2> QED BY <1>1, <1>2, <1>3, <1>4, <2>1, StateChanges DEF Initialized
<1>5. CASE UNCHANGED stateVars
  <2>1. UNCHANGED <<state, armed>> /\ axisListener' = axisListener
    BY <1>5 DEF stateVars, Activate
  <2> QED BY <1>1, <1>2, <1>3, <2>1, StateStays
<1> QED BY <1>4, <1>5 DEF Activate

LEMMA UserInStep ==
  ASSUME PatientUser = TRUE, InStep, User
  PROVE  InStep'
<1>u. UNCHANGED <<fromAxis, cncVars>>
  BY DEF User, UserUpload, UserStart, UserContinue, UserStop, UserCommand
<1>1. CASE UserUpload
  <2> PICK p \in Programs \cup {NoProgram} : UploadProgram(p)
    BY <1>1 DEF UserUpload
  <2>1. Apart /\ UNCHANGED <<state, armed, phases, axisListener>>
    BY <1>u DEF UploadProgram, Apart, stateVars, listeners, sent
  <2>2. Offered'
    <3>1. program' = p /\ SystemReadyMonitor(p, axisWire, stuffWire)
      BY DEF UploadProgram
    <3>2. Offered
      BY DEF InStep, Steps
    <3> QED BY <2>1, <3>1, <3>2 DEF Offered, SystemReadyMonitor
  <2> QED BY <2>1, <2>2, StateStays
<1>2. CASE UserStart \/ UserContinue
  <2>0. Activate
    BY <1>2 DEF UserStart, UserContinue
  <2>1. CASE state # "null"
    BY <1>u, <2>0, <2>1, ActivateInStep
  <2>2. CASE state = "null"
    <3>1. AtRest /\ ictl = "ready"
      BY <1>2, <2>2 DEF UserStart, UserContinue
    <3>2. /\ phases' = program /\ state' = "wait_stuff_activated" /\ Apart /\ program' = program
      BY <1>u, <2>0, <2>2 DEF Activate, SwitchTo, Apart
    <3> PICK k, d : Steps(k, d)
      BY DEF InStep
    <3>3. Wires' /\ AxesTyped' /\ Reads(k, fromAxis, known)' /\ Caught(k)' /\ ~fault' /\ (Quiet => Quiet')
      BY <3>2, StaysQuiet DEF Steps, Apart
    <3>4. Offered'
      BY <2>2, <3>1, <3>2 DEF Steps, Offered
    <3>5. VmReady' /\ Watches(k, d)'
      BY <3>2 DEF Steps, VmReady, Watches, Initialized, Apart
    <3>6. Quiet
      <4>1. fromAxis = <<>> /\ cncRun = "idle"
        BY <3>1 DEF AtRest
      <4>2. Len(fromAxis) = 0
        BY <4>1
      <4>3. \A a \in Axes : known[a] = truePos[a]
        BY <4>1, <4>2 DEF Steps, Reads, Caught
      <4>4. known = truePos
        BY <4>3 DEF Steps, AxesTyped
      <4> QED BY <4>1, <4>2, <4>4 DEF Quiet, TrueFrom
    <3>7. toAxis' = <<>>
      BY <3>1, <3>2 DEF AtRest, Apart
    <3>8. Travels(k, d)'
      BY <3>2, <3>3, <3>6, <3>7 DEF Travels, Running
    <3> QED BY <3>3, <3>4, <3>5, <3>8 DEF InStep, Steps
  <2> QED BY <2>1, <2>2
<1>3. CASE UserStop
  <2>1. /\ StopExecution("stopped") /\ UNCHANGED <<fault, program, phases, initial, known, vm>>
    BY <1>3 DEF UserStop, Deactivate
  <2>2. IsVm(vm')
    BY <2>1 DEF InStep, Steps, VmReady
  <2> QED BY <1>u, <2>1, <2>2, StopInStep
<1> QED BY <1>1, <1>2, <1>3 DEF User

LEMMA StuffInStep ==
  ASSUME InStep, Stuff
  PROVE  InStep'
<1>1. StuffOther
  BY StuffKeepsNode
<1>2. Apart /\ UNCHANGED <<state, armed, phases>> /\ axisListener' = axisListener
      /\ UNCHANGED <<program, ictl, systemReady>>
  BY <1>1 DEF StuffOther, Apart, stateVars, listeners
<1>3. Offered'
  BY <1>2 DEF InStep, Steps, Offered
<1> QED BY <1>2, <1>3, StateStays

LEMMA StuffStatusInStep ==
  ASSUME InStep, ListenersFollowState, NEW s, NEW e, StuffStatus(s, e), UNCHANGED <<fromAxis, cncVars>>
  PROVE  InStep'
<1>1. UNCHANGED <<program, phases, vm, known, initial, fault>>
  BY DEF StuffStatus
<1>0. Offered /\ IsVm(vm')
  BY <1>1 DEF InStep, Steps, VmReady
<1>2. CASE /\ SystemReadyMonitor(program, axisWire, s)
           /\ UNCHANGED <<stateVars, listeners, sent>>
  <2>1. Apart /\ UNCHANGED <<state, armed, phases>> /\ axisListener' = axisListener
    BY <1>1, <1>2 DEF Apart, stateVars, listeners, sent
  <2>2. Offered'
    <3> DEFINE ready == program # NoProgram /\ axisWire = "ready" /\ s = "ready"
    <3>1. program' = program /\ phases' = phases /\ state' = state
      BY <1>1, <2>1
    <3>2. CASE UNCHANGED <<systemReady, ictl>>
      BY <1>0, <3>1, <3>2 DEF Offered
    <3>3. CASE state # "null"
      BY <1>0, <3>1, <3>3 DEF Offered
    <3>4. CASE systemReady' = ready /\ ictl' = IF ready THEN "ready" ELSE "blocked"
      <4>1. CASE ready
        <5>1. systemReady' /\ program # NoProgram
          BY <3>4, <4>1
        <5> QED BY <1>0, <3>1, <5>1 DEF Offered
      <4>2. CASE ~ready
        <5>1. ~systemReady' /\ ictl' = "blocked"
          BY <3>4, <4>2
        <5> QED BY <1>0, <3>1, <5>1 DEF Offered
      <4> QED BY <4>1, <4>2
    <3> QED BY <1>2, <3>2, <3>3, <3>4 DEF SystemReadyMonitor
  <2> QED BY <2>1, <2>2, StateStays
<1>3. CASE /\ stuffListener = "activation" /\ SystemReadyMonitor(program, axisWire, s)
           /\ SwitchTo("initialize") /\ UNCHANGED <<axisListener, sent>>
  <2>1. state = "wait_stuff_activated" /\ state' = "initialize"
    BY <1>3 DEF ListenersFollowState, SwitchTo
  <2>2. Apart /\ ~Running /\ ~Initialized'
    BY <1>1, <1>3, <2>1 DEF Apart, sent, Running, Initialized
  <2>3. Offered'
    BY <1>0, <1>1, <2>1 DEF Offered
  <2> QED BY <1>1, <2>1, <2>2, <2>3, StateChanges
<1>4. CASE StopExecution("stopped")
  BY <1>0, <1>1, <1>4, StopInStep
<1> QED BY <1>2, <1>3, <1>4 DEF StuffStatus

-----------------------------------------------------------------------------
(***************************************************************************)
(* The state methods and the pause timer.                                  *)
(***************************************************************************)
LEMMA DetectsExist ==
  ASSUME NEW q, Reports(q), NEW k, NEW moves, NEW from \in Nat, NEW origin
  PROVE  \E d : Detects(d, k, q, moves, from, origin)
<1> DEFINE d == [i \in {0} |-> from]
<1>1. Len(<<>>) = 0 /\ 0 .. 0 = {0} /\ 1 .. 0 = {}
  OBVIOUS
<1>2. d \in [0 .. 0 -> Nat] /\ d[0] = from
  BY <1>1
<1> HIDE DEF d
<1>3. Detects(d, k, <<>>, moves, from, origin)
  BY <1>1, <1>2 DEF Detects
<1>4. Reports(<<>>)
  <2>1. <<>> \in Seq({})
    OBVIOUS
  <2> QED BY <1>1, <2>1 DEF Reports, IsQueue
<1>5. <<>> \o q = q
  BY DEF Reports, IsQueue
<1>6. \E e : Detects(e, k, <<>> \o q, moves, from, origin)
  BY <1>3, <1>4, MoreDetections
<1> QED BY <1>5, <1>6

(* What the processor's steps leave alone.                                 *)
Aside == UNCHANGED <<fromAxis, known, cncVars, fault, program, phases>>

LEMMA AsideStays ==
  ASSUME Aside, initial' \in [Axes -> Int]
  PROVE  /\ toAxis' = toAxis => (Wires => Wires')
         /\ AxesTyped => AxesTyped'
         /\ Quiet => Quiet'
         /\ \A k : Reads(k, fromAxis, known) => Reads(k, fromAxis, known)'
         /\ \A k : Caught(k) => Caught(k)'
<1>1. UNCHANGED <<cncRun, cncAxes, cncTasks, truePos, lag>>
  BY DEF Aside, cncVars
<1> QED BY <1>1 DEF Aside, Wires, AxesTyped, Quiet, TrueFrom, Reads, Caught

(* From a state of rest to another.                                        *)
LEMMA RestToRest ==
  ASSUME InStep, Aside, state # "null", ~Running, toAxis' = toAxis,
         state' \notin {"null", "start_moving"}, initial' \in [Axes -> Int],
         IsVm(vm'), Initialized',
         IsPrepared(phases, vm'), vm'.pos = Where',
         Len(vm'.ops) = IF state' = "loop" THEN 1 ELSE 2
  PROVE  InStep'
<1> PICK k, d : Steps(k, d)
  BY DEF InStep
<1>1. /\ Wires' /\ AxesTyped' /\ Reads(k, fromAxis, known)' /\ Caught(k)' /\ ~fault'
  BY AsideStays DEF Steps, Aside
<1>2. Offered'
  BY DEF Steps, Offered, Aside
<1>3. VmReady'
  BY DEF VmReady, Aside
<1>4. Travels(k, d)' /\ Watches(k, d)'
  <2>1. toAxis' = <<>> /\ Quiet'
    BY AsideStays DEF Steps, Travels
  <2> QED BY <2>1 DEF Watches, Travels, Running
<1> QED BY <1>1, <1>2, <1>3, <1>4 DEF InStep, Steps

(* ... to the beginning of a list of moves...                              *)
LEMMA RestToStart ==
  ASSUME InStep, Aside, state = "loop", UNCHANGED <<toAxis, initial>>,
         state' = "start_moving", armed', IsVm(vm'), IsPrepared(phases, vm'),
         Linked(vm'.moves), vm'.moves[Len(vm'.moves)].to = vm'.pos,
         Len(vm'.ops) = Len(vm'.moves) + 1, vm'.moves[1].from = Where
  PROVE  InStep'
<1> PICK k, e : Steps(k, e)
  BY DEF InStep
<1>0. initial' \in [Axes -> Int] /\ Where' = Where
  BY DEF Steps, AxesTyped, Where, Aside, cncVars
<1>1. /\ Wires' /\ AxesTyped' /\ Reads(k, fromAxis, known)' /\ Caught(k)' /\ ~fault'
  BY <1>0, AsideStays DEF Steps, Aside
<1>2. Offered'
  BY DEF Steps, Offered, Aside
<1>n. Len(vm'.moves) \in Nat /\ Len(vm'.moves) > 0
  BY DEF Linked
<1>3. VmReady'
  <2>1. Len(vm'.ops) \in 2 .. Len(vm'.moves) + 1
    BY <1>n
  <2> QED BY <2>1 DEF VmReady, Aside
<1>4. AtStart'
  BY <1>0, <1>n DEF AtStart, CurrentMove
<1>5. PICK d : Detects(d, k, fromAxis', vm'.moves, CurrentMove(vm'), initial')
  <2>1. CurrentMove(vm') \in Nat /\ Reports(fromAxis')
    BY <1>1, <1>4 DEF AtStart, Wires
  <2> QED BY <2>1, DetectsExist
<1>6. Travels(k, d)' /\ Watches(k, d)'
  <2>1. toAxis' = <<>> /\ Quiet'
    BY <1>0, AsideStays DEF Steps, Travels, Running
  <2> QED BY <1>4, <1>5, <2>1 DEF Watches, Travels, Running
<1> QED BY <1>1, <1>2, <1>3, <1>6 DEF InStep, Steps

(* ... and to their way to the axes.                                       *)
LEMMA TaskIs ==
  ASSUME Linked(vm.moves)
  PROVE  /\ IsTask(FillCncTask(vm)) /\ Len(FillCncTask(vm).list) = Len(vm.moves)
         /\ Len(vm.moves) \in Nat /\ Len(vm.moves) > 0
         /\ \A i \in 1 .. Len(vm.moves) : \A a \in Axes :
              FillCncTask(vm).list[i][a] = vm.moves[i].to[a] - vm.moves[i].from[a]
<1> DEFINE n == Len(vm.moves)
           c == n % 2^8
           l == [i \in 1 .. n |-> [a \in Axes |-> vm.moves[i].to[a] - vm.moves[i].from[a]]]
<1>1. n \in Nat /\ n > 0 /\ DOMAIN vm.moves = 1 .. n /\ \A i \in 1 .. n : vm.moves[i] \in Move
  BY DEF Linked
<1>2. FillCncTask(vm) = [count |-> c, list |-> l]
  BY <1>1 DEF FillCncTask, PhaseCount
<1> HIDE DEF n
<1>3. \A i \in 1 .. n : [a \in Axes |-> vm.moves[i].to[a] - vm.moves[i].from[a]] \in [Axes -> Int]
  BY <1>1 DEF Move
<1>4. l \in Seq([Axes -> Int]) /\ Len(l) = n
  <2>1. l \in [1 .. n -> [Axes -> Int]]
    BY <1>3
  <2> HIDE DEF l
  <2> QED BY <1>1, <2>1
<1>5. \A i \in 1 .. n : \A a \in Axes : l[i][a] = vm.moves[i].to[a] - vm.moves[i].from[a]
  OBVIOUS
<1> HIDE DEF l
<1>6. c \in 0 .. n
  <2>1. n % 256 \in 0 .. n
    BY <1>1
  <2>2. 2^8 = 256
    OBVIOUS
  <2> QED BY <2>1, <2>2
<1> HIDE DEF c
<1>7. FillCncTask(vm).list = l /\ FillCncTask(vm).count = c
  BY <1>2
<1> QED BY <1>1, <1>4, <1>5, <1>6, <1>7 DEF IsTask, n

LEMMA StartToSent ==
  ASSUME InStep, SStartMoving(Where), UNCHANGED <<fromAxis, cncVars>>
  PROVE  InStep'
<1> PICK k, d : Steps(k, d)
  BY DEF InStep
<1>1. /\ state = "start_moving" /\ armed /\ armed' = FALSE
      /\ toAxis' = Append(toAxis, AxisTask(FillCncTask(vm))) /\ axisListener' = "started"
      /\ UNCHANGED <<program, phases, vm, state, known, initial, fault>>
  BY DEF SStartMoving, Called
<1>2. toAxis = <<>> /\ Quiet /\ AtStart
  BY <1>1 DEF Steps, Travels, Running
<1>3. Aside /\ initial' \in [Axes -> Int] /\ Where' = Where
  BY <1>1 DEF Aside, Steps, AxesTyped, Where, cncVars
<1>4. /\ AxesTyped' /\ Reads(k, fromAxis, known)' /\ Caught(k)' /\ ~fault' /\ Quiet'
  BY <1>2, <1>3, AsideStays DEF Steps, Aside
<1>5. Offered' /\ VmReady' /\ Watches(k, d)'
  <2>1. Offered'
    BY <1>1 DEF Steps, Offered
  <2>2. VmReady'
    BY <1>1, <1>3 DEF Steps, VmReady, Initialized
  <2>3. Watches(k, d)'
    BY <1>1 DEF Steps, Watches
  <2> QED BY <2>1, <2>2, <2>3
<1>6. toAxis' = <<AxisTask(FillCncTask(vm))>>
  BY <1>1, <1>2
<1>7. Wires'
  <2>1. IsTask(FillCncTask(vm))
    BY <1>1, TaskIs DEF Steps, VmReady
  <2>2. IsQueue(toAxis') /\ Len(toAxis') = 1 /\ toAxis'[1] = AxisTask(FillCncTask(vm))
    <3> DEFINE m == AxisTask(FillCncTask(vm))
    <3> HIDE DEF m
    <3>1. <<m>> \in Seq({m}) /\ Len(<<m>>) = 1 /\ <<m>>[1] = m
      OBVIOUS
    <3> QED BY <1>6, <3>1 DEF m, IsQueue
  <2>3. \A i \in 1 .. Len(toAxis') : i = 1
    BY <2>2
  <2>4. AxisTask(FillCncTask(vm)).task = FillCncTask(vm)
    BY DEF AxisTask
  <2>5. Reports(fromAxis)'
    BY DEF Steps, Wires
  <2> QED BY <2>1, <2>2, <2>3, <2>4, <2>5 DEF Wires
<1>8. Travels(k, d)'
  <2>1. AtStart'
    BY <1>1, <1>2, <1>3 DEF AtStart
  <2>2. Sent'
    BY <1>1, <1>4, <1>6, <2>1 DEF Sent
  <2> QED BY <1>1, <2>1, <2>2 DEF Travels, Running
<1> QED BY <1>4, <1>5, <1>7, <1>8 DEF InStep, Steps

(* What the main loop finds: the end of the program, a phase it stops at, a  *)
(* list of moves, or a phase that moves nothing.                           *)
LoopFinds ==
  \/ StopExecution("done") /\ IsVm(vm')
  \/ StopExecution("stopped") /\ IsVm(vm')
  \/ /\ IsVm(vm') /\ IsPrepared(phases, vm') /\ toAxis' = toAxis
     /\ \/ /\ state' = "start_moving" /\ armed' /\ vm'.moves # <<>> /\ vm'.moves \in Seq(Move)
           /\ IsChain(phases, OfMoves(vm'), vm'.moves, vm.pos, vm'.pos)
           /\ Len(vm'.ops) = Len(vm'.moves) + 1
        \/ /\ vm'.pos = vm.pos
           /\ \/ state' = "loop" /\ Len(vm'.ops) = 1
              \/ /\ state' = "execute_operation" /\ Len(vm'.ops) = 2
                 /\ Led(Phase(phases, vm'.ops[2]), vm.pos) = vm.pos
              \/ /\ state' = "init_pause" /\ Len(vm'.ops) = 2
                 /\ Phase(phases, vm'.phase_id).kind = "pause"

LEMMA LoopIs ==
  ASSUME InStep, SProgramExecutionLoop
  PROVE  /\ state = "loop" /\ vm.pos = Where
         /\ UNCHANGED <<program, phases, known, initial, fault, executed>>
         /\ LoopFinds
<1> DEFINE r == ToNextPhase(vm)
           l == CreateContinuousMovingList(phases, r)
           kind == Phase(phases, r.phase_id).kind
<1>1. state = "loop" /\ armed
  BY DEF SProgramExecutionLoop, Called
<1> PICK k, d : Steps(k, d)
  BY DEF InStep
<1>2. /\ IsVm(vm) /\ IsPrepared(phases, vm) /\ Len(vm.ops) = 1 /\ vm.pos = Where
  BY <1>1 DEF Steps, VmReady, Initialized
<1>3. IsProgram(phases)
  BY <1>1, ProgramsAssumption DEF Steps, Offered
<1>4. /\ vm.ops # <<>> /\ IsVm(r) /\ r.ops = <<>> /\ r.phase_id \in 0 .. Len(phases)
      /\ r.pos = vm.pos /\ r.goto \in Counters(phases) /\ r.pos \in [Axes -> Int]
  <2>1. /\ IsVm(r) /\ r.phase_id = Last(vm.ops) /\ r.ops = Front(vm.ops)
        /\ r.pos = vm.pos /\ r.goto = vm.goto
    BY <1>2, NextPhaseIs
  <2>2. vm.ops \in Seq(Nat) /\ vm.ops[1] \in 0 .. Len(phases) /\ vm.goto \in Counters(phases)
        /\ vm.pos \in [Axes -> Int]
    BY <1>2 DEF IsPrepared
  <2>3. vm.ops # <<>> /\ Last(vm.ops) = vm.ops[1]
    BY <1>2, <2>2 DEF Last
  <2>4. IsQueue(Front(vm.ops)) /\ Len(Front(vm.ops)) = 0
    <3>1. IsQueue(vm.ops) /\ Len(vm.ops) - 1 = 0
      BY <1>2, <2>2 DEF IsQueue
    <3> QED BY <2>3, <3>1, FrontQueue
  <2>5. Front(vm.ops) = <<>>
    BY <2>4, EmptyQueue
  <2> HIDE DEF r
  <2> QED BY <1>2, <2>1, <2>2, <2>3, <2>5
<1>5. Len(phases) \in Nat /\ \A pid \in 0 .. Len(phases) : pid # Len(phases) => pid \in Rows(phases)
  BY <1>3, ProgramRows
<1>6. IsVm(l)
  BY DEF IsVm, CreateContinuousMovingList
<1> HIDE DEF r
<1>7. CASE IsProgramDone(phases, r.phase_id)
  <2>1. /\ vm' = r /\ StopExecution("done") /\ UNCHANGED <<program, phases, known, initial, fault, executed>>
    BY <1>4, <1>7 DEF SProgramExecutionLoop, r
  <2> QED BY <1>1, <1>2, <1>4, <2>1 DEF LoopFinds
<1>8. CASE ~IsProgramDone(phases, r.phase_id)
  <2>1. r.phase_id \in Rows(phases)
    BY <1>4, <1>5, <1>8 DEF IsProgramDone
  <2>2. /\ IsPrepared(phases, l) /\ l.moves \in Seq(Move)
        /\ IsChain(phases, OfMoves(l), l.moves, vm.pos, l.pos)
        /\ Len(l.ops) = IF l.moves = <<>> /\ ~LoopAt(phases, r.phase_id) THEN 2
                        ELSE Len(l.moves) + 1
        /\ l.phase_id = r.phase_id /\ IsSingle(phases, r, l)
    BY <1>3, <1>4, <2>1, ListIs
  <2> HIDE DEF l, kind
  <2>3. LoopAt(phases, r.phase_id) <=> kind = "goto"
    BY <1>8 DEF LoopAt, IsProgramDone, kind
  <2>4. kind \in {"operation", "pause", "goto", "other"}
    BY <1>3, <2>1, ProgramRows DEF kind
  <2>5. CASE l.moves = <<>> /\ kind = "other"
    <3>1. /\ vm' = l /\ StopExecution("stopped") /\ UNCHANGED <<program, phases, known, initial, fault, executed>>
      BY <1>4, <1>8, <2>5 DEF SProgramExecutionLoop, r, l, kind
    <3> QED BY <1>1, <1>2, <1>6, <3>1 DEF LoopFinds
  <2>6. CASE ~(l.moves = <<>> /\ kind = "other")
    <3>1. /\ vm' = l
          /\ SwitchTo(IF l.moves # <<>> THEN "start_moving"
                      ELSE CASE kind = "operation" -> "execute_operation"
                             [] kind = "pause"     -> "init_pause"
                             [] OTHER              -> "loop")
          /\ UNCHANGED <<program, phases, known, initial, fault, toAxis, executed>>
      BY <1>4, <1>8, <2>6 DEF SProgramExecutionLoop, r, l, kind, sent, history
    <3>3. CASE l.moves # <<>>
      <4>0. SwitchTo("start_moving")
        BY <3>1, <3>3
      <4>1. state' = "start_moving" /\ armed'
        BY <4>0 DEF SwitchTo
      <4>3. Len(l.ops) = Len(l.moves) + 1
        BY <2>2, <3>3
      <4> QED BY <1>1, <1>2, <1>6, <2>2, <3>1, <3>3, <4>1, <4>3 DEF LoopFinds
    <3>4. CASE l.moves = <<>>
      <4>1. l.pos = vm.pos /\ Len(l.moves) = 0
        BY <2>2, <3>4 DEF IsChain
      <4>2. CASE kind = "goto"
        <5>1. state' = "loop" /\ Len(l.ops) = 1
          BY <2>2, <2>3, <3>1, <3>4, <4>1, <4>2 DEF SwitchTo
        <5> QED BY <1>1, <1>2, <1>6, <2>2, <3>1, <4>1, <5>1 DEF LoopFinds
      <4>3. CASE kind = "operation"
        <5>1. state' = "execute_operation" /\ Len(l.ops) = 2
          BY <2>2, <2>3, <3>1, <3>4, <4>3 DEF SwitchTo
        <5>2. Led(Phase(phases, l.ops[2]), vm.pos) = vm.pos
          BY <1>4, <2>2, <2>3, <3>4, <4>3 DEF IsSingle, Led, kind
        <5> QED BY <1>1, <1>2, <1>6, <2>2, <3>1, <4>1, <5>1, <5>2 DEF LoopFinds
      <4>4. CASE kind = "pause"
        <5>1. state' = "init_pause" /\ Len(l.ops) = 2
          BY <2>2, <2>3, <3>1, <3>4, <4>4 DEF SwitchTo
        <5>2. Phase(phases, l.phase_id).kind = "pause"
          BY <2>2, <4>4 DEF kind
        <5> QED BY <1>1, <1>2, <1>6, <2>2, <3>1, <4>1, <5>1, <5>2 DEF LoopFinds
      <4> QED BY <2>4, <2>6, <3>4, <4>2, <4>3, <4>4
    <3> QED BY <3>3, <3>4
  <2> QED BY <2>5, <2>6
<1> QED BY <1>7, <1>8

(* The look-ahead of the main loop.                                        *)
LEMMA LoopInStep ==
  ASSUME InStep, SProgramExecutionLoop, UNCHANGED <<fromAxis, cncVars>>
  PROVE  InStep'
<1>1. /\ state = "loop" /\ vm.pos = Where
      /\ UNCHANGED <<program, phases, known, initial, fault, executed>>
      /\ LoopFinds
  BY LoopIs
<1>2. Aside /\ initial' \in [Axes -> Int] /\ Where' = Where
  BY <1>1 DEF Aside, InStep, Steps, AxesTyped, Where, cncVars
<1>3. CASE (StopExecution("done") \/ StopExecution("stopped")) /\ IsVm(vm')
  BY <1>1, <1>3, StopInStep
<1>4. CASE /\ IsVm(vm') /\ IsPrepared(phases, vm') /\ toAxis' = toAxis
           /\ state' = "start_moving" /\ armed' /\ vm'.moves # <<>> /\ vm'.moves \in Seq(Move)
           /\ IsChain(phases, OfMoves(vm'), vm'.moves, vm.pos, vm'.pos)
           /\ Len(vm'.ops) = Len(vm'.moves) + 1
  <2>1. /\ Linked(vm'.moves) /\ vm'.moves[Len(vm'.moves)].to = vm'.pos /\ vm'.moves[1].from = Where
    <3> DEFINE v == vm'
    <3>1. /\ v.moves # <<>> /\ v.moves \in Seq(Move) /\ IsChain(phases, OfMoves(v), v.moves, vm.pos, v.pos)
      BY <1>4
    <3> HIDE DEF v
    <3>2. Linked(v.moves) /\ v.moves[Len(v.moves)].to = v.pos /\ v.moves[1].from = Where
      BY <1>1, <3>1 DEF IsChain, IsMove, Linked
    <3> QED BY <3>2 DEF v
  <2> QED BY <1>1, <1>2, <1>4, <2>1, RestToStart
<1>5. CASE /\ IsVm(vm') /\ IsPrepared(phases, vm') /\ toAxis' = toAxis /\ vm'.pos = vm.pos
           /\ state' \in {"loop", "execute_operation", "init_pause"}
           /\ Len(vm'.ops) = IF state' = "loop" THEN 1 ELSE 2
  <2>1. ~Running /\ Initialized'
    BY <1>1, <1>5 DEF Running, Initialized
  <2> QED BY <1>1, <1>2, <1>5, <2>1, RestToRest
<1> QED BY <1>1, <1>3, <1>4, <1>5 DEF LoopFinds

LEMMA NextPhaseInStep ==
  ASSUME InStep, state \in {"pause_done", "execute_operation", "moving_done"},
         vm' = ToNextPhase(vm), state' = "loop", Aside, UNCHANGED <<toAxis, initial>>
  PROVE  InStep'
<1>1. state # "null" /\ ~Running /\ Initialized'
  BY DEF Running, Initialized
<1>2. IsVm(vm) /\ IsPrepared(phases, vm) /\ Len(vm.ops) = 2 /\ vm.pos = Where
      /\ initial' \in [Axes -> Int]
  BY DEF InStep, Steps, VmReady, Initialized, AxesTyped
<1>3. IsVm(vm') /\ IsPrepared(phases, vm') /\ Len(vm'.ops) = 1 /\ vm'.pos = vm.pos
  <2> DEFINE w == ToNextPhase(vm)
  <2>1. Len(vm.ops) > 1
    BY <1>2
  <2>2. IsVm(w) /\ IsPrepared(phases, w) /\ Len(w.ops) = Len(vm.ops) - 1 /\ w.pos = vm.pos
    BY <1>2, <2>1, NextPhaseLeaves
  <2> HIDE DEF w
  <2>3. vm' = w
    BY DEF w
  <2> QED BY <1>2, <2>2, <2>3
<1>4. Where' = Where
  BY DEF Where, Aside, cncVars
<1> QED BY <1>1, <1>2, <1>3, <1>4, RestToRest

LEMMA TimerInStep ==
  ASSUME InStep, ListenersFollowState, StateTimer \/ PauseTimeout
  PROVE  InStep'
<1>u. UNCHANGED <<fromAxis, cncVars>>
  BY DEF StateTimer, PauseTimeout, NodeStep
<1>v. /\ state = "null" => ~Initialized
      /\ state \in {"pause_done", "execute_operation", "moving_done"} => vm.ops # <<>>
  <2>1. state \in {"pause_done", "execute_operation", "moving_done"} => Len(vm.ops) = 2
    BY DEF InStep, Steps, VmReady, Initialized
  <2>2. Len(<<>>) # 2
    OBVIOUS
  <2> QED BY <2>1, <2>2 DEF Initialized
<1>o. Offered
  BY DEF InStep, Steps
<1>1. CASE Idle
  <2>1. /\ Apart /\ UNCHANGED <<program, phases, state, systemReady, ictl>>
        /\ state \in {"wait_stuff_activated", "pause", "infinity_pause"}
    BY <1>1, <1>u DEF Idle, Apart, sent
  <2>2. Offered' /\ ~Running
    BY <1>o, <2>1 DEF Offered, Running
  <2> QED BY <2>1, <2>2, StateChanges DEF Initialized
<1>2. CASE SInitialize
  <2>1. /\ state = "initialize" /\ vm' = Initialize(phases) /\ initial' = known /\ state' = "loop"
        /\ UNCHANGED <<program, phases, known, toAxis, fault>>
    BY <1>2 DEF SInitialize, Called, SwitchTo, sent
  <2>2. Aside /\ ~Running /\ state # "null" /\ Initialized'
    BY <1>u, <2>1 DEF Aside, Running, Initialized
  <2>3. Quiet /\ known \in [Axes -> Int] /\ phases \in Programs
    BY <2>1, <2>2 DEF InStep, Steps, Travels, AxesTyped, Offered
  <2>4. Where' = Still
    <3>1. truePos' = known /\ initial' = known
      BY <1>u, <2>1, <2>3 DEF Quiet, cncVars
    <3> QED BY <2>3, <3>1 DEF Where, Still
  <2>5. /\ IsVm(vm') /\ IsPrepared(phases, vm') /\ vm'.pos = Still /\ Len(vm'.ops) = 1
    <3>1. IsVm(vm')
      BY <2>1 DEF IsVm, Initialize
    <3>2. /\ vm'.ops = <<0>> /\ vm'.pos = Still
          /\ vm'.goto = [pid \in 0 .. Len(phases) - 1 |-> Absent]
      BY <2>1 DEF Initialize
    <3>3. Len(phases) \in Nat
      BY <2>3, ProgramsAssumption, ProgramRows
    <3>4. 0 \in 0 .. Len(phases) /\ <<0>> \in Seq(Nat) /\ Len(<<0>>) = 1 /\ <<0>>[1] = 0
      BY <3>3
    <3>5. Still \in [Axes -> Int]
      BY DEF Still
    <3>6. [pid \in 0 .. Len(phases) - 1 |-> Absent] \in Counters(phases)
      BY DEF Counters, Rows, Counts
    <3> QED BY <3>1, <3>2, <3>4, <3>5, <3>6 DEF IsPrepared
  <2> QED BY <2>1, <2>2, <2>3, <2>4, <2>5, RestToRest
<1>3. CASE SProgramExecutionLoop
  BY <1>3, <1>u, LoopInStep
<1>4. CASE SInitPause(Where)
  <2>1. /\ Apart /\ UNCHANGED <<program, phases, systemReady, ictl>>
        /\ state = "init_pause" /\ state' \in {"pause", "infinity_pause"}
    BY <1>4, <1>u DEF SInitPause, Apart, sent, SwitchTo, Called
  <2>2. Offered' /\ ~Running
    BY <1>o, <2>1 DEF Offered, Running
  <2> QED BY <2>1, <2>2, StateChanges DEF Initialized
<1>5. CASE SPauseDone
  <2>1. /\ state = "pause_done" /\ vm' = ToNextPhase(vm) /\ state' = "loop" /\ Aside
        /\ UNCHANGED <<toAxis, initial>>
    BY <1>5, <1>u, <1>v DEF SPauseDone, Aside, sent, SwitchTo, Called
  <2> QED BY <2>1, NextPhaseInStep
<1>6. CASE SExecuteOperation(Where)
  <2>1. /\ state = "execute_operation" /\ vm' = ToNextPhase(vm) /\ Aside
        /\ UNCHANGED <<toAxis, initial>>
        /\ state' = IF HasPhaseOps(vm') THEN "execute_operation" ELSE "loop"
    BY <1>6, <1>u, <1>v DEF SExecuteOperation, Aside, SwitchTo, Called
  <2>2. ~HasPhaseOps(vm')
    <3>1. IsVm(vm) /\ IsPrepared(phases, vm) /\ Len(vm.ops) = 2
      BY <2>1 DEF InStep, Steps, VmReady, Initialized
    <3>2. Len(vm'.ops) = 1
      <4> DEFINE w == ToNextPhase(vm)
      <4>1. Len(vm.ops) > 1
        BY <3>1
      <4>2. Len(w.ops) = Len(vm.ops) - 1
        BY <3>1, <4>1, NextPhaseLeaves
      <4> HIDE DEF w
      <4>3. vm' = w
        BY <2>1 DEF w
      <4> QED BY <3>1, <4>2, <4>3
    <3> QED BY <3>2 DEF HasPhaseOps
  <2> QED BY <2>1, <2>2, NextPhaseInStep
<1>7. CASE SStartMoving(Where)
  BY <1>7, <1>u, StartToSent
<1>8. CASE SMovingDone
  <2>1. /\ state = "moving_done" /\ vm' = ToNextPhase(vm) /\ state' = "loop" /\ Aside
        /\ UNCHANGED <<toAxis, initial>>
    BY <1>8, <1>u, <1>v DEF SMovingDone, Aside, sent, SwitchTo, Called
  <2> QED BY <2>1, NextPhaseInStep
<1>9. CASE PauseTimeout
  <2>1. /\ Apart /\ UNCHANGED <<program, phases, systemReady, ictl>>
        /\ state = "pause" /\ state' = "pause_done"
    BY <1>9, <1>u DEF PauseTimeout, PauseTimer, Apart, sent, SwitchTo, ListenersFollowState
  <2>2. Offered' /\ ~Running
    BY <1>o, <2>1 DEF Offered, Running
  <2> QED BY <2>1, <2>2, StateChanges DEF Initialized
<1> QED BY <1>1, <1>2, <1>3, <1>4, <1>5, <1>6, <1>7, <1>8, <1>9 DEF StateTimer, StateCall

-----------------------------------------------------------------------------
(***************************************************************************)
(* A message from the axes is taken: the others move up.                   *)
(***************************************************************************)
Shifted(g, e, k, d) ==
  /\ Reports(fromAxis') /\ Len(fromAxis) \in Nat /\ Len(fromAxis) > 0
  /\ Len(fromAxis') = Len(fromAxis) - 1
  /\ \A i \in 1 .. Len(fromAxis') : fromAxis'[i] = fromAxis[i + 1]
  /\ \A i \in 0 .. Len(fromAxis') : g[i] = k[i + 1] /\ e[i] = d[i + 1]
  /\ Reads(g, fromAxis', k[1]) /\ k[1] \in [Axes -> Int]
  /\ state = "start_moving" => Detects(e, g, fromAxis', vm.moves, d[1], initial)

LEMMA ShiftExists ==
  ASSUME NEW k, NEW d, Steps(k, d), fromAxis # <<>>, fromAxis' = Tail(fromAxis)
  PROVE  /\ \E g, e : Shifted(g, e, k, d)
         /\ IsReport(Head(fromAxis)) /\ Head(fromAxis) = fromAxis[1]
         /\ k[1] = IF Head(fromAxis).kind = "position"
                   THEN [known EXCEPT ![Head(fromAxis).axis] = Head(fromAxis).value] ELSE known
         /\ state = "start_moving" =>
              d[1] = IF /\ Head(fromAxis).kind = "position" /\ CurrentMove(vm) + 1 # Len(vm.moves)
                        /\ Reached(vm.moves[CurrentMove(vm) + 1], FromOrigin(k[1], initial))
                     THEN CurrentMove(vm) + 1 ELSE CurrentMove(vm)
<1>1. Reads(k, fromAxis, known) /\ Reports(fromAxis) /\ IsQueue(fromAxis)
  BY DEF Steps, Wires, Reports
<1> DEFINE n == Len(fromAxis)
<1> PICK g : g = MovedUp(k, fromAxis)
  OBVIOUS
<1> PICK e : e = MovedUp(d, fromAxis)
  OBVIOUS
<1>2. /\ Reports(fromAxis') /\ IsReport(Head(fromAxis)) /\ Head(fromAxis) = fromAxis[1]
      /\ k[1] \in [Axes -> Int]
      /\ n \in Nat /\ n > 0 /\ Len(fromAxis') = n - 1
      /\ \A i \in 1 .. n - 1 : fromAxis'[i] = fromAxis[i + 1]
      /\ k[1] = IF Head(fromAxis).kind = "position"
                THEN [known EXCEPT ![Head(fromAxis).axis] = Head(fromAxis).value] ELSE known
      /\ Reads(g, fromAxis', k[1])
  BY <1>1, OneRead
<1>3. ASSUME state = "start_moving"
      PROVE  /\ d[1] = IF /\ Head(fromAxis).kind = "position" /\ CurrentMove(vm) + 1 # Len(vm.moves)
                          /\ Reached(vm.moves[CurrentMove(vm) + 1], FromOrigin(k[1], initial))
                       THEN CurrentMove(vm) + 1 ELSE CurrentMove(vm)
             /\ Detects(e, g, fromAxis', vm.moves, d[1], initial)
  <2>1. Detects(d, k, fromAxis, vm.moves, CurrentMove(vm), initial)
    BY <1>3 DEF Steps, Watches
  <2> DEFINE from == CurrentMove(vm)
  <2> HIDE DEF from
  <2>2. Detects(d, k, fromAxis, vm.moves, from, initial)
    BY <2>1 DEF from
  <2>3. /\ d[1] = IF /\ Head(fromAxis).kind = "position" /\ from + 1 # Len(vm.moves)
                     /\ Reached(vm.moves[from + 1], FromOrigin(k[1], initial))
                  THEN from + 1 ELSE from
        /\ Detects(e, g, Tail(fromAxis), vm.moves, d[1], initial)
    BY <1>1, <2>2, OneDetected
  <2> QED BY <2>3 DEF from
<1>4. \A i \in 0 .. Len(fromAxis') : g[i] = k[i + 1] /\ e[i] = d[i + 1]
  BY <1>2 DEF MovedUp
<1>5. Shifted(g, e, k, d)
  BY <1>2, <1>3, <1>4 DEF Shifted
<1> QED BY <1>2, <1>3, <1>5

(* What does not depend on the order of the messages.                      *)
LEMMA ShiftKeeps ==
  ASSUME NEW k, NEW d, NEW g, NEW e, Steps(k, d), Shifted(g, e, k, d),
         UNCHANGED <<cncVars, initial, program, phases, fault>>, known' = k[1]
  PROVE  /\ Reads(g, fromAxis, known)' /\ Reports(fromAxis)' /\ AxesTyped' /\ Caught(g)' /\ ~fault'
         /\ (\A a \in Axes : g[Len(fromAxis)][a] = truePos[a] \/ (cncRun # "idle" /\ a \in cncAxes))'
         /\ Where' = Where /\ Seen(g)' = Seen(k) /\ known' \in [Axes -> Int]
         /\ g[Len(fromAxis')] = k[Len(fromAxis)] /\ e[Len(fromAxis')] = d[Len(fromAxis)]
<1>1. Len(fromAxis') \in 0 .. Len(fromAxis') /\ Len(fromAxis') + 1 = Len(fromAxis)
  BY DEF Shifted
<1>2. g[Len(fromAxis')] = k[Len(fromAxis)] /\ e[Len(fromAxis')] = d[Len(fromAxis)]
  BY <1>1 DEF Shifted
<1>3. UNCHANGED <<cncRun, cncAxes, cncTasks, truePos, lag>>
  BY DEF cncVars
<1>4. Reads(g, fromAxis, known)' /\ Reports(fromAxis)' /\ known' \in [Axes -> Int] /\ ~fault'
  BY DEF Shifted, Steps
<1>5. AxesTyped'
  BY <1>3, <1>4 DEF Steps, AxesTyped
<1>6. (\A a \in Axes : g[Len(fromAxis)][a] = truePos[a] \/ (cncRun # "idle" /\ a \in cncAxes))'
  BY <1>2, <1>3 DEF Steps, Caught
<1>7. Where' = Where /\ Seen(g)' = Seen(k)
  BY <1>2, <1>3 DEF Where, Seen
<1> QED BY <1>2, <1>4, <1>5, <1>6, <1>7 DEF Caught

LEMMA ShiftQuiet ==
  ASSUME NEW k, NEW d, NEW g, NEW e, Steps(k, d), Shifted(g, e, k, d),
         UNCHANGED <<cncVars>>, known' = k[1], Quiet, Head(fromAxis) = fromAxis[1],
         k[1] = IF Head(fromAxis).kind = "position"
                THEN [known EXCEPT ![Head(fromAxis).axis] = Head(fromAxis).value] ELSE known
  PROVE  Quiet' /\ Head(fromAxis).kind = "position" /\ known' = known
<1>1. /\ Len(fromAxis) \in Nat /\ Len(fromAxis) > 0 /\ Len(fromAxis') = Len(fromAxis) - 1
      /\ \A i \in 1 .. Len(fromAxis') : fromAxis'[i] = fromAxis[i + 1]
  BY DEF Shifted
<1>2. UNCHANGED <<cncRun, truePos>>
  BY DEF cncVars
<1>3. /\ \A i \in 1 .. Len(fromAxis) : fromAxis[i].kind = "position"
           /\ fromAxis[i].value = truePos[fromAxis[i].axis]
      /\ known = truePos /\ cncRun = "idle"
  BY DEF Quiet, TrueFrom
<1>4. /\ Head(fromAxis).kind = "position"
      /\ Head(fromAxis).value = truePos[Head(fromAxis).axis]
  BY <1>1, <1>3
<1>5. known' = known
  BY <1>3, <1>4 DEF Steps, AxesTyped
<1>6. (\A i \in 1 .. Len(fromAxis) : fromAxis[i].kind = "position"
           /\ fromAxis[i].value = truePos[fromAxis[i].axis])'
  <2>1. \A i \in 1 .. Len(fromAxis') : i + 1 \in 1 .. Len(fromAxis)
    BY <1>1
  <2> QED BY <1>1, <1>2, <1>3, <2>1
<1> QED BY <1>2, <1>3, <1>4, <1>5, <1>6 DEF Quiet, TrueFrom

LEMMA ShiftMoving ==
  ASSUME NEW k, NEW d, NEW g, NEW e, Shifted(g, e, k, d), Moving(k, d),
         UNCHANGED <<cncVars, toAxis>>, Where' = Where, Seen(g)' = Seen(k),
         e[Len(fromAxis')] = d[Len(fromAxis)], vm'.moves = vm.moves
  PROVE  Moving(g, e)' /\ ~Success(fromAxis[1])
<1>1. /\ Len(fromAxis) \in Nat /\ Len(fromAxis) > 0 /\ Len(fromAxis') = Len(fromAxis) - 1
      /\ \A i \in 1 .. Len(fromAxis') : fromAxis'[i] = fromAxis[i + 1]
  BY DEF Shifted
<1>2. UNCHANGED <<cncRun, cncTasks, lag>> /\ Advanced' = Advanced
  BY DEF cncVars, Advanced
<1>3. \A i \in 1 .. Len(fromAxis) : ~Success(fromAxis[i])
  BY DEF Moving
<1>4. \A i \in 1 .. Len(fromAxis') : ~Success(fromAxis'[i])
  <2>1. \A i \in 1 .. Len(fromAxis') : i + 1 \in 1 .. Len(fromAxis)
    BY <1>1
  <2> QED BY <1>1, <1>3, <2>1
<1>5. 1 \in 1 .. Len(fromAxis)
  BY <1>1
<1>6. (e[Len(fromAxis)])' = d[Len(fromAxis)] /\ (vm.moves)' = vm.moves
  OBVIOUS
<1> QED BY <1>2, <1>3, <1>4, <1>5, <1>6 DEF Moving

LEMMA ShiftArrived ==
  ASSUME NEW k, NEW d, NEW g, NEW e, Shifted(g, e, k, d), Arrived(k, d), ~Success(fromAxis[1]),
         UNCHANGED <<cncVars, toAxis>>, Where' = Where, vm'.moves = vm.moves, vm'.pos = vm.pos
  PROVE  Arrived(g, e)'
<1>1. /\ Len(fromAxis) \in Nat /\ Len(fromAxis) > 0 /\ Len(fromAxis') = Len(fromAxis) - 1
      /\ \A i \in 1 .. Len(fromAxis') : fromAxis'[i] = fromAxis[i + 1]
      /\ \A i \in 0 .. Len(fromAxis') : g[i] = k[i + 1] /\ e[i] = d[i + 1]
  BY DEF Shifted
<1>2. UNCHANGED <<cncRun, truePos>>
  BY DEF cncVars
<1>3. PICK s \in 1 .. Len(fromAxis) :
        /\ Success(fromAxis[s]) /\ \A i \in 1 .. s - 1 : ~Success(fromAxis[i])
        /\ d[s] + 1 = Len(vm.moves) /\ k[s] = truePos /\ TrueFrom(s + 1)
  BY DEF Arrived
<1> PICK t : t = s - 1
  OBVIOUS
<1>4. t \in 1 .. Len(fromAxis') /\ t + 1 = s /\ t \in 0 .. Len(fromAxis')
  <2>1. s # 1
    BY <1>3
  <2> QED BY <1>1, <2>1
<1>5. Success(fromAxis'[t]) /\ e[t] + 1 = Len(vm'.moves) /\ g[t] = truePos'
  BY <1>1, <1>2, <1>3, <1>4
<1>6. \A i \in 1 .. t - 1 : ~Success(fromAxis'[i])
  <2>1. \A i \in 1 .. t - 1 : i + 1 \in 1 .. s - 1 /\ i \in 1 .. Len(fromAxis')
    BY <1>1, <1>4
  <2> QED BY <1>1, <1>3, <2>1
<1>7. TrueFrom(t + 1)'
  <2>1. \A i \in t + 1 .. Len(fromAxis') : i \in 1 .. Len(fromAxis') /\ i + 1 \in s + 1 .. Len(fromAxis)
    BY <1>1, <1>4
  <2>2. \A i \in s + 1 .. Len(fromAxis) :
          fromAxis[i].kind = "position" /\ fromAxis[i].value = truePos[fromAxis[i].axis]
    BY <1>3 DEF TrueFrom
  <2>3. \A i \in t + 1 .. Len(fromAxis') :
          fromAxis'[i].kind = "position" /\ fromAxis'[i].value = truePos'[fromAxis'[i].axis]
    BY <1>1, <1>2, <2>1, <2>2
  <2> QED BY <2>3 DEF TrueFrom
<1>8. toAxis' = <<>> /\ cncRun' = "idle" /\ vm'.pos = Where'
  BY <1>2 DEF Arrived
<1> QED BY <1>4, <1>5, <1>6, <1>7, <1>8 DEF Arrived

LEMMA ShiftRefused ==
  ASSUME NEW k, NEW d, NEW g, NEW e, Shifted(g, e, k, d), Refused, ~Refusal(fromAxis[1])
  PROVE  Refused'
<1>1. /\ Len(fromAxis) \in Nat /\ Len(fromAxis) > 0 /\ Len(fromAxis') = Len(fromAxis) - 1
      /\ \A i \in 1 .. Len(fromAxis') : fromAxis'[i] = fromAxis[i + 1]
  BY DEF Shifted
<1>3. PICK s \in 1 .. Len(fromAxis) :
        Refusal(fromAxis[s]) /\ \A i \in 1 .. s - 1 : ~Success(fromAxis[i])
  BY DEF Refused
<1> PICK t : t = s - 1
  OBVIOUS
<1>4. t \in 1 .. Len(fromAxis') /\ t + 1 = s
  <2>1. s # 1
    BY <1>3
  <2> QED BY <1>1, <2>1
<1>5. Refusal(fromAxis'[t])
  BY <1>1, <1>3, <1>4
<1>6. \A i \in 1 .. t - 1 : ~Success(fromAxis'[i])
  <2>1. \A i \in 1 .. t - 1 : i + 1 \in 1 .. s - 1 /\ i \in 1 .. Len(fromAxis')
    BY <1>1, <1>4
  <2> QED BY <1>1, <1>3, <2>1
<1> QED BY <1>4, <1>5, <1>6 DEF Refused

(* No segment is reached before the axes move.                             *)
LEMMA NotReachedAtFrom ==
  ASSUME NEW m \in Move, \E a \in Axes : MovesAxis(m, a)
  PROVE  ~Reached(m, m.from)
<1> PICK a \in Axes : m.from[a] # m.to[a]
  BY DEF MovesAxis
<1>1. m.from[a] \in Int /\ m.to[a] \in Int
  BY DEF Move
<1> SUFFICES ASSUME Reached(m, m.from) PROVE FALSE
  OBVIOUS
<1> DEFINE x == m.from[a]
           y == m.to[a]
<1>2. (x < y => x >= y) /\ (x > y => x <= y)
  BY DEF Reached
<1> HIDE DEF x, y
<1>3. x < y \/ x > y
  BY <1>1 DEF x, y
<1>4. x \in Int /\ y \in Int
  BY <1>1 DEF x, y
<1> QED BY <1>2, <1>3, <1>4

LEMMA StatusInStep ==
  ASSUME InStep, fromAxis # <<>>, fromAxis' = Tail(fromAxis), UNCHANGED cncVars,
         Head(fromAxis).kind = "status", ListenersFollowState,
         AxisStatus(Head(fromAxis).status, Head(fromAxis).err)
  PROVE  InStep'
<1> PICK k, d : Steps(k, d)
  BY DEF InStep
<1> DEFINE m == Head(fromAxis)
<1>1. /\ \E g, e : Shifted(g, e, k, d)
      /\ m = fromAxis[1] /\ k[1] = known
      /\ state = "start_moving" => d[1] = CurrentMove(vm)
  BY ShiftExists
<1> PICK g, e : Shifted(g, e, k, d)
  BY <1>1
<1>2. UNCHANGED <<program, phases, vm, known, initial, fault>> /\ known' = k[1]
  BY <1>1 DEF AxisStatus
<1>3. /\ Reads(g, fromAxis, known)' /\ Reports(fromAxis)' /\ AxesTyped' /\ Caught(g)' /\ ~fault'
      /\ (\A a \in Axes : g[Len(fromAxis)][a] = truePos[a] \/ (cncRun # "idle" /\ a \in cncAxes))'
      /\ Where' = Where /\ Seen(g)' = Seen(k) /\ known' \in [Axes -> Int]
      /\ e[Len(fromAxis')] = d[Len(fromAxis)]
  BY <1>2, ShiftKeeps
<1>4. Quiet => FALSE
  <2> SUFFICES ASSUME Quiet PROVE FALSE
    OBVIOUS
  <2>1. k[1] = IF m.kind = "position" THEN [known EXCEPT ![m.axis] = m.value] ELSE known
    BY <1>1
  <2>2. m.kind = "position"
    BY <1>1, <1>2, <2>1, ShiftQuiet
  <2> QED BY <2>2
<1>5. state = "null" \/ Running
  BY <1>4 DEF Steps, Travels
<1>6. Wires /\ AxesTyped /\ Offered /\ IsVm(vm') /\ ~fault /\ VmReady
  BY <1>2 DEF Steps, VmReady
<1>7. CASE StopExecution("stopped")
  BY <1>2, <1>3, <1>6, <1>7, StopKeepsInStep
<1>8. CASE axisListener = "none" /\ ~StopExecution("stopped")
  <2>1. state = "null"
    BY <1>5, <1>8 DEF Steps, Travels
  <2>2. SystemReadyMonitor(program, m.status, stuffWire) /\ UNCHANGED <<state, armed, toAxis>>
    BY <1>8 DEF AxisStatus, stateVars, sent
  <2>3. Offered'
    <3> DEFINE ready == program # NoProgram /\ m.status = "ready" /\ stuffWire = "ready"
    <3>1. program' = program /\ phases' = phases /\ state' = state
      BY <1>2, <2>2
    <3>2. CASE UNCHANGED <<systemReady, ictl>>
      BY <1>6, <3>1, <3>2 DEF Offered
    <3>4. CASE systemReady' = ready /\ ictl' = IF ready THEN "ready" ELSE "blocked"
      <4>1. CASE ready
        <5>1. systemReady' /\ program # NoProgram
          BY <3>4, <4>1
        <5> QED BY <1>6, <3>1, <5>1 DEF Offered
      <4>2. CASE ~ready
        <5>1. ~systemReady' /\ ictl' = "blocked"
          BY <3>4, <4>2
        <5> QED BY <1>6, <3>1, <5>1 DEF Offered
      <4> QED BY <4>1, <4>2
    <3> QED BY <2>2, <3>2, <3>4 DEF SystemReadyMonitor
  <2>4. Wires' /\ VmReady' /\ Travels(g, e)' /\ Watches(g, e)'
    BY <1>3, <1>6, <2>1, <2>2 DEF Wires, VmReady, Initialized, Travels, Running, Watches
  <2> QED BY <1>3, <2>3, <2>4 DEF InStep, Steps
<1>9. ASSUME axisListener # "none", UNCHANGED sent, SystemReadyMonitor(program, m.status, stuffWire)
      PROVE  /\ state = "start_moving" /\ ~armed /\ Wires' /\ toAxis' = toAxis
             /\ UNCHANGED <<systemReady, ictl>>
             /\ (state' # "null" => Offered') /\ Running
             /\ Detects(e, g, fromAxis', vm.moves, CurrentMove(vm), initial)
  <2>1. state = "start_moving" /\ ~armed
    BY <1>9 DEF ListenersFollowState
  <2>2. Wires' /\ toAxis' = toAxis
    BY <1>3, <1>6, <1>9 DEF Wires, sent
  <2>3. UNCHANGED <<systemReady, ictl>>
    BY <1>9, <2>1 DEF SystemReadyMonitor
  <2>4. state' # "null" => Offered'
    BY <1>2, <1>6, <2>1, <2>3 DEF Offered
  <2>5. Detects(e, g, fromAxis', vm.moves, CurrentMove(vm), initial)
    BY <1>1, <2>1 DEF Shifted
  <2> QED BY <2>1, <2>2, <2>3, <2>4, <2>5 DEF Running
<1>10. CASE axisListener = "started" /\ m.status = "active" /\ ~StopExecution("stopped")
  <2>1. /\ SystemReadyMonitor(program, m.status, stuffWire) /\ UNCHANGED <<stateVars, sent>>
        /\ axisListener' = "done"
    BY <1>10 DEF AxisStatus
  <2>2. /\ state = "start_moving" /\ ~armed /\ Wires' /\ toAxis' = toAxis
        /\ (state' # "null" => Offered') /\ Running
        /\ Detects(e, g, fromAxis', vm.moves, CurrentMove(vm), initial)
    BY <1>9, <1>10, <2>1
  <2>3. state' = "start_moving" /\ ~armed'
    BY <2>1, <2>2 DEF stateVars
  <2>4. VmReady' /\ Watches(g, e)'
    BY <1>2, <1>3, <1>6, <2>2, <2>3 DEF VmReady, Initialized, Watches
  <2>5. ~Success(fromAxis[1]) /\ ~Refusal(fromAxis[1])
    BY <1>1, <1>10 DEF Success, Refusal
  <2>6. Moving(k, d) => Moving(g, e)'
    BY <1>2, <1>3, <2>2, ShiftMoving
  <2>7. Arrived(k, d) => Arrived(g, e)'
    BY <1>2, <1>3, <2>2, <2>5, ShiftArrived
  <2>8. Refused => Refused'
    BY <2>5, ShiftRefused
  <2>9. Moving(k, d) \/ Arrived(k, d) \/ Refused
    BY <1>4, <2>2 DEF Steps, Travels, Sent
  <2>10. Travels(g, e)'
    BY <2>1, <2>3, <2>6, <2>7, <2>8, <2>9 DEF Travels, Running
  <2> QED BY <1>3, <2>2, <2>3, <2>4, <2>10 DEF InStep, Steps
<1>11. CASE /\ axisListener = "done" /\ m.status = "ready" /\ ~m.err /\ ~StopExecution("stopped")
  <2>1. /\ SystemReadyMonitor(program, m.status, stuffWire) /\ UNCHANGED sent
        /\ state' = "moving_done"
    BY <1>11 DEF AxisStatus, SwitchTo
  <2>2. /\ state = "start_moving" /\ Wires' /\ toAxis' = toAxis
        /\ (state' # "null" => Offered') /\ Running
    BY <1>9, <1>11, <2>1
  <2>3. Success(fromAxis[1]) /\ ~Refusal(fromAxis[1])
    BY <1>1, <1>11 DEF Success, Refusal
  <2>n. Len(fromAxis) \in Nat /\ Len(fromAxis) > 0 /\ Len(fromAxis') = Len(fromAxis) - 1
        /\ \A i \in 1 .. Len(fromAxis') : fromAxis'[i] = fromAxis[i + 1]
    BY DEF Shifted
  <2>4. ~Moving(k, d)
    <3>1. 1 \in 1 .. Len(fromAxis)
      BY <2>n
    <3> QED BY <2>3, <3>1 DEF Moving
  <2>5. ~Refused
    <3> SUFFICES ASSUME NEW s \in 1 .. Len(fromAxis), Refusal(fromAxis[s]),
                        \A i \in 1 .. s - 1 : ~Success(fromAxis[i])
                 PROVE  FALSE
      BY DEF Refused
    <3>1. s # 1
      BY <2>3
    <3>2. 1 \in 1 .. s - 1
      BY <2>n, <3>1
    <3> QED BY <2>3, <3>2
  <2>6. Arrived(k, d)
    BY <1>4, <2>2, <2>4, <2>5 DEF Steps, Travels, Sent
  <2>7. PICK s \in 1 .. Len(fromAxis) :
        /\ Success(fromAxis[s]) /\ \A i \in 1 .. s - 1 : ~Success(fromAxis[i])
        /\ d[s] + 1 = Len(vm.moves) /\ k[s] = truePos /\ TrueFrom(s + 1)
    BY <2>6 DEF Arrived
  <2>8. s = 1
    <3>1. s # 1 => 1 \in 1 .. s - 1
      BY <2>n
    <3> QED BY <2>3, <2>7, <3>1
  <2>9. CurrentMove(vm) + 1 = Len(vm.moves) /\ known = truePos /\ TrueFrom(2)
    BY <1>1, <2>2, <2>7, <2>8
  <2>10. Quiet' /\ toAxis' = <<>>
    <3>1. cncRun' = "idle" /\ known' = truePos' /\ truePos' = truePos /\ toAxis' = <<>>
      BY <1>2, <2>2, <2>6, <2>9 DEF Arrived, cncVars
    <3>2. \A i \in 1 .. Len(fromAxis') : i + 1 \in 2 .. Len(fromAxis)
      BY <2>n
    <3>3. \A i \in 1 .. Len(fromAxis') :
            fromAxis'[i].kind = "position" /\ fromAxis'[i].value = truePos'[fromAxis'[i].axis]
      BY <2>n, <2>9, <3>1, <3>2 DEF TrueFrom
    <3> QED BY <3>1, <3>3 DEF Quiet, TrueFrom
  <2>11. VmReady'
    <3>1. Len(vm.ops) = 2
      <4>1. Len(vm.ops) \in Int /\ Len(vm.moves) \in Nat
        BY <1>6, <2>2 DEF VmReady, Linked
      <4> DEFINE x == Len(vm.ops)
                 y == Len(vm.moves)
      <4>2. y + 1 - x + 1 = y
        BY <2>9 DEF CurrentMove
      <4>3. x \in Int /\ y \in Nat
        BY <4>1
      <4> HIDE DEF x, y
      <4>4. x = 2
        BY <4>2, <4>3
      <4> QED BY <4>4 DEF x
    <3>2. vm.pos = Where' /\ IsPrepared(phases, vm)
      BY <1>3, <1>6, <2>2, <2>6 DEF Arrived, VmReady, Initialized
    <3> QED BY <1>2, <1>6, <2>1, <3>1, <3>2 DEF VmReady, Initialized
  <2>12. Travels(g, e)' /\ Watches(g, e)'
    BY <2>1, <2>10 DEF Travels, Running, Watches
  <2> QED BY <1>3, <2>1, <2>2, <2>11, <2>12 DEF InStep, Steps
<1> QED BY <1>7, <1>8, <1>10, <1>11 DEF AxisStatus

LEMMA PositionInStep ==
  ASSUME InStep, fromAxis # <<>>, fromAxis' = Tail(fromAxis), UNCHANGED cncVars,
         Head(fromAxis).kind = "position",
         AxisPosition(Head(fromAxis).axis, Head(fromAxis).value, Where)
  PROVE  InStep'
<1> PICK k, d : Steps(k, d)
  BY DEF InStep
<1> DEFINE m == Head(fromAxis)
           c == CurrentMove(vm)
           hit == c + 1 # Len(vm.moves) /\ Reached(vm.moves[c + 1], FromOrigin(k[1], initial))
<1>1. /\ \E g, e : Shifted(g, e, k, d)
      /\ m = fromAxis[1] /\ k[1] = [known EXCEPT ![m.axis] = m.value]
      /\ state = "start_moving" => d[1] = IF hit THEN c + 1 ELSE c
  BY ShiftExists
<1> PICK g, e : Shifted(g, e, k, d)
  BY <1>1
<1>2. /\ UNCHANGED <<program, phases, state, armed, systemReady, ictl, axisListener, initial, toAxis, fault>>
      /\ known' = k[1]
      /\ IF state = "start_moving" /\ hit THEN vm' = ToNextPhase(vm) ELSE vm' = vm
  BY <1>1 DEF AxisPosition, stateVars, listeners, CheckInPosition, FromOrigin
<1>3. /\ Reads(g, fromAxis, known)' /\ Reports(fromAxis)' /\ AxesTyped' /\ Caught(g)' /\ ~fault'
      /\ Where' = Where /\ Seen(g)' = Seen(k) /\ e[Len(fromAxis')] = d[Len(fromAxis)]
  BY <1>2, ShiftKeeps
<1>4. Wires' /\ Offered'
  BY <1>2, <1>3 DEF Steps, Wires, Offered
<1>5. Quiet => Quiet' /\ known' = known
  <2>1. k[1] = IF m.kind = "position" THEN [known EXCEPT ![m.axis] = m.value] ELSE known
    BY <1>1
  <2> QED BY <1>1, <1>2, <2>1, ShiftQuiet
<1>6. CASE state # "start_moving"
  <2>1. vm' = vm
    BY <1>2, <1>6
  <2>2. VmReady'
    BY <1>2, <1>3, <1>6, <2>1 DEF Steps, VmReady, Initialized
  <2>3. Travels(g, e)' /\ Watches(g, e)'
    BY <1>2, <1>5, <1>6 DEF Steps, Travels, Watches, Running
  <2> QED BY <1>3, <1>4, <2>2, <2>3 DEF InStep, Steps
<1>7. CASE state = "start_moving"
  <2>1. /\ IsVm(vm) /\ IsPrepared(phases, vm) /\ Linked(vm.moves) /\ Len(vm.moves) \in Nat
        /\ vm.moves[Len(vm.moves)].to = vm.pos /\ Len(vm.ops) \in 2 .. Len(vm.moves) + 1
    BY <1>7 DEF Steps, VmReady, Initialized, Linked
  <2>2. /\ IsVm(vm') /\ IsPrepared(phases, vm') /\ vm'.moves = vm.moves /\ vm'.pos = vm.pos
        /\ Len(vm'.ops) \in 2 .. Len(vm.moves) + 1 /\ CurrentMove(vm') = d[1]
    <3>1. CASE ~hit
      BY <1>1, <1>2, <1>7, <2>1, <3>1
    <3>2. CASE hit
      <4> DEFINE w == ToNextPhase(vm)
                 x == Len(vm.ops)
                 y == Len(vm.moves)
      <4>0. y + 1 - x + 1 # y /\ y \in Nat /\ x \in 2 .. y + 1
        BY <2>1, <3>2 DEF CurrentMove
      <4>1. Len(vm.ops) # 2 /\ Len(vm.ops) > 1
        <5> HIDE DEF x, y
        <5>1. x # 2 /\ x > 1
          BY <4>0
        <5> QED BY <5>1 DEF x
      <4>2. /\ IsVm(w) /\ IsPrepared(phases, w) /\ Len(w.ops) = Len(vm.ops) - 1
            /\ w.moves = vm.moves /\ w.pos = vm.pos
        BY <2>1, <4>1, NextPhaseLeaves
      <4>3. vm' = w
        BY <1>2, <1>7, <3>2
      <4> HIDE DEF w
      <4>4. d[1] = Len(vm.moves) + 1 - Len(vm.ops) + 1
        BY <1>1, <1>7, <3>2 DEF CurrentMove
      <4>5. Len(w.ops) \in 2 .. Len(vm.moves) + 1 /\ Len(w.moves) + 1 - Len(w.ops) = d[1]
        <5>1. Len(w.ops) = x - 1 /\ Len(w.moves) = y /\ Len(vm.moves) = y /\ d[1] = y + 1 - x + 1 /\ x # 2
          BY <4>1, <4>2, <4>4
        <5> HIDE DEF x, y
        <5>2. x - 1 \in 2 .. y + 1 /\ y + 1 - (x - 1) = y + 1 - x + 1
          BY <4>0, <5>1
        <5> QED BY <5>1, <5>2
      <4> QED BY <4>2, <4>3, <4>5 DEF CurrentMove
    <3> QED BY <3>1, <3>2
  <2>3. VmReady'
    BY <1>2, <1>7, <2>1, <2>2 DEF VmReady, Initialized
  <2>4. Watches(g, e)'
    <3>1. Detects(e, g, fromAxis', vm.moves, d[1], initial)
      BY <1>7 DEF Shifted
    <3> QED BY <1>2, <2>2, <3>1 DEF Watches
  <2>5. AtStart /\ Quiet => AtStart' /\ vm' = vm
    <3> SUFFICES ASSUME AtStart, Quiet PROVE AtStart' /\ vm' = vm
      OBVIOUS
    <3>1. k[1] = truePos
      BY <1>2, <1>5 DEF Quiet
    <3>2. FromOrigin(k[1], initial) = vm.moves[1].from /\ c = 0
      BY <3>1 DEF AtStart, Where, FromOrigin
    <3>3. vm.moves[1] \in Move /\ \E a \in Axes : MovesAxis(vm.moves[1], a)
      <4>1. 1 \in 1 .. Len(vm.moves)
        BY <2>1 DEF Linked
      <4> QED BY <2>1, <4>1 DEF Linked
    <3>4. ~hit
      BY <3>2, <3>3, NotReachedAtFrom
    <3>5. vm' = vm
      BY <1>2, <3>4
    <3> QED BY <1>3, <3>5 DEF AtStart
  <2>6. Travels(g, e)'
    <3>1. CASE armed
      BY <1>2, <1>5, <1>7, <2>5, <3>1 DEF Steps, Travels, Running
    <3>2. CASE ~armed
      <4>1. Sent => Sent'
        BY <1>2, <1>5, <2>5 DEF Sent
      <4>2. Moving(k, d) => Moving(g, e)'
        BY <1>2, <1>3, <2>2, ShiftMoving
      <4>3. ~Success(fromAxis[1]) /\ ~Refusal(fromAxis[1])
        BY <1>1 DEF Success, Refusal
      <4>4. Arrived(k, d) => Arrived(g, e)'
        BY <1>2, <1>3, <2>2, <4>3, ShiftArrived
      <4>5. Refused => Refused'
        BY <4>3, ShiftRefused
      <4>6. axisListener # "none" /\ (Sent \/ Moving(k, d) \/ Arrived(k, d) \/ Refused)
        BY <1>7, <3>2 DEF Steps, Travels, Running
      <4>7. axisListener' # "none" /\ (Sent' \/ Moving(g, e)' \/ Arrived(g, e)' \/ Refused')
        BY <1>2, <4>1, <4>2, <4>4, <4>5, <4>6
      <4>8. state' = "start_moving" /\ ~armed'
        BY <1>2, <1>7, <3>2
      <4> QED BY <4>7, <4>8 DEF Travels, Running
    <3> QED BY <3>1, <3>2
  <2> QED BY <1>3, <1>4, <2>3, <2>4, <2>6 DEF InStep, Steps
<1> QED BY <1>6, <1>7

LEMMA NodeInStep ==
  ASSUME InStep, ListenersFollowState, Node
  PROVE  InStep'
<1>1. CASE AxisReceive
  <2>1. fromAxis # <<>> /\ fromAxis' = Tail(fromAxis) /\ UNCHANGED cncVars
    BY <1>1 DEF AxisReceive, NodeStep
  <2> QED BY <1>1, <2>1, StatusInStep, PositionInStep DEF AxisReceive
<1>2. CASE StuffReceive
  BY <1>2, StuffStatusInStep DEF StuffReceive, NodeStep
<1> QED BY <1>1, <1>2, TimerInStep DEF Node

-----------------------------------------------------------------------------
(***************************************************************************)
(* The steps of the axes add messages at the end of the queue.             *)
(***************************************************************************)
More(g, e, k, d, q, r) ==
  /\ Reads(g, q \o r, known)
  /\ state = "start_moving" => Detects(e, g, q \o r, vm.moves, CurrentMove(vm), initial)
  /\ Reports(q \o r) /\ Len(q) \in Nat /\ Len(r) \in Nat /\ Len(q \o r) = Len(q) + Len(r)
  /\ \A i \in 1 .. Len(q) : (q \o r)[i] = q[i]
  /\ \A i \in 1 .. Len(r) : (q \o r)[Len(q) + i] = r[i]
  /\ \A i \in 0 .. Len(q) : g[i] = k[i] /\ e[i] = d[i]

LEMMA MoreExists ==
  ASSUME NEW q, NEW r, Reports(q), Reports(r), NEW k, NEW d, Reads(k, q, known),
         state = "start_moving" => Detects(d, k, q, vm.moves, CurrentMove(vm), initial)
  PROVE  \E g, e : More(g, e, k, d, q, r)
<1>1. /\ Reports(q \o r) /\ Len(q) \in Nat /\ Len(r) \in Nat /\ Len(q \o r) = Len(q) + Len(r)
      /\ \A i \in 1 .. Len(q) : (q \o r)[i] = q[i]
      /\ \A i \in 1 .. Len(r) : (q \o r)[Len(q) + i] = r[i]
  BY ReportsConcat
<1>2. PICK g : Reads(g, q \o r, known) /\ \A i \in 0 .. Len(q) : g[i] = k[i]
  BY MoreMessages
<1>3. CASE state = "start_moving"
  <2>1. Detects(d, k, q, vm.moves, CurrentMove(vm), initial)
    BY <1>3
  <2>2. PICK e : /\ Detects(e, g, q \o r, vm.moves, CurrentMove(vm), initial)
                 /\ \A i \in 0 .. Len(q) : e[i] = d[i]
    BY <1>2, <2>1, MoreDetections
  <2>3. More(g, e, k, d, q, r)
    BY <1>1, <1>2, <2>2 DEF More
  <2> QED BY <2>3
<1>4. CASE state # "start_moving"
  <2>1. More(g, d, k, d, q, r)
    BY <1>1, <1>2, <1>4 DEF More
  <2> QED BY <2>1
<1> QED BY <1>3, <1>4

Grown(g, e, k, d) ==
  /\ Reads(g, fromAxis', known)
  /\ state = "start_moving" => Detects(e, g, fromAxis', vm.moves, CurrentMove(vm), initial)
  /\ Reports(fromAxis') /\ Len(fromAxis) \in Nat /\ Len(fromAxis') \in Nat
  /\ Len(fromAxis) <= Len(fromAxis')
  /\ \A i \in 1 .. Len(fromAxis) : fromAxis'[i] = fromAxis[i]
  /\ \A i \in 0 .. Len(fromAxis) : g[i] = k[i] /\ e[i] = d[i]

LEMMA GrownNot ==
  ASSUME NEW k, NEW d, Steps(k, d), fromAxis' = fromAxis
  PROVE  Grown(k, d, k, d)
<1>1. Reports(fromAxis) /\ Len(fromAxis) \in Nat
  BY EmptyQueue DEF Steps, Wires, Reports
<1> QED BY <1>1 DEF Grown, Steps, Watches

LEMMA GrownByOne ==
  ASSUME NEW k, NEW d, Steps(k, d), NEW m, IsReport(m), fromAxis' = Append(fromAxis, m)
  PROVE  \E g, e : /\ Grown(g, e, k, d) /\ Len(fromAxis') = Len(fromAxis) + 1
                   /\ fromAxis'[Len(fromAxis) + 1] = m
<1>1. Reports(fromAxis) /\ IsQueue(fromAxis)
  BY DEF Steps, Wires, Reports
<1> DEFINE r == <<m>>
<1>2. /\ fromAxis' = fromAxis \o r
  BY <1>1, ConcatOne
<1>3. Reports(r) /\ Len(r) = 1 /\ r[1] = m
  <2>1. r \in Seq({m}) /\ Len(r) = 1 /\ r[1] = m
    OBVIOUS
  <2> HIDE DEF r
  <2>2. \A i \in 1 .. Len(r) : i = 1
    BY <2>1
  <2> QED BY <2>1, <2>2 DEF Reports, IsQueue
<1> HIDE DEF r
<1>4. \E g, e : More(g, e, k, d, fromAxis, r)
  BY <1>1, <1>3, MoreExists DEF Steps, Watches
<1> PICK g, e : More(g, e, k, d, fromAxis, r)
  BY <1>4
<1>5. Grown(g, e, k, d) /\ Len(fromAxis') = Len(fromAxis) + 1 /\ fromAxis'[Len(fromAxis) + 1] = m
  <2>1. 1 \in 1 .. Len(r)
    BY <1>3
  <2> QED BY <1>2, <1>3, <2>1 DEF More, Grown
<1> QED BY <1>5

(* What a message adds.                                                    *)
AddsTo(g, e, i) ==
  /\ g[i] = IF fromAxis'[i].kind = "position"
            THEN [g[i - 1] EXCEPT ![fromAxis'[i].axis] = fromAxis'[i].value] ELSE g[i - 1]
  /\ state = "start_moving" =>
       e[i] = IF /\ fromAxis'[i].kind = "position" /\ e[i - 1] + 1 # Len(vm.moves)
                 /\ Reached(vm.moves[e[i - 1] + 1], FromOrigin(g[i], initial))
              THEN e[i - 1] + 1 ELSE e[i - 1]

LEMMA GrownAt ==
  ASSUME NEW k, NEW d, NEW g, NEW e, Grown(g, e, k, d), NEW i \in Len(fromAxis) + 1 .. Len(fromAxis')
  PROVE  AddsTo(g, e, i)
<1>1. i \in 1 .. Len(fromAxis')
  BY DEF Grown
<1>2. g[i] = IF fromAxis'[i].kind = "position"
             THEN [g[i - 1] EXCEPT ![fromAxis'[i].axis] = fromAxis'[i].value] ELSE g[i - 1]
  <2>1. Reads(g, fromAxis', known)
    BY DEF Grown
  <2> QED BY <1>1, <2>1 DEF Reads
<1>3. ASSUME state = "start_moving"
      PROVE  e[i] = IF /\ fromAxis'[i].kind = "position" /\ e[i - 1] + 1 # Len(vm.moves)
                       /\ Reached(vm.moves[e[i - 1] + 1], FromOrigin(g[i], initial))
                    THEN e[i - 1] + 1 ELSE e[i - 1]
  <2>1. Detects(e, g, fromAxis', vm.moves, CurrentMove(vm), initial)
    BY <1>3 DEF Grown
  <2> QED BY <1>1, <2>1 DEF Detects
<1> QED BY <1>2, <1>3 DEF AddsTo

LEMMA GrownKeeps ==
  ASSUME NEW k, NEW d, NEW g, NEW e, Grown(g, e, k, d), NEW i \in Len(fromAxis) + 1 .. Len(fromAxis'),
         fromAxis'[i].kind # "position"
  PROVE  g[i] = g[i - 1] /\ (state = "start_moving" => e[i] = e[i - 1])
<1>1. AddsTo(g, e, i)
  BY GrownAt
<1> QED BY <1>1 DEF AddsTo

LEMMA Inside ==
  ASSUME NEW a \in Nat, NEW r \in Nat, NEW t \in {0, 1}, NEW i \in a + 1 .. ((a + r) + t) - 1
  PROVE  i - a \in 1 .. r /\ i = a + (i - a) /\ i \in 1 .. a + r
  OBVIOUS

LEMMA GrownByStatus ==
  ASSUME NEW k, NEW d, Steps(k, d), NEW s, NEW er, fromAxis' = Append(fromAxis, Status(s, er))
  PROVE  \E g, e : /\ Grown(g, e, k, d) /\ Len(fromAxis') = Len(fromAxis) + 1
                   /\ fromAxis'[Len(fromAxis) + 1] = Status(s, er)
                   /\ g[Len(fromAxis')] = k[Len(fromAxis)]
                   /\ state = "start_moving" => e[Len(fromAxis')] = d[Len(fromAxis)]
<1>1. IsReport(Status(s, er)) /\ Status(s, er).kind = "status"
  BY DEF IsReport, Status
<1> PICK g, e : /\ Grown(g, e, k, d) /\ Len(fromAxis') = Len(fromAxis) + 1
                /\ fromAxis'[Len(fromAxis) + 1] = Status(s, er)
  BY <1>1, GrownByOne
<1> DEFINE n == Len(fromAxis) + 1
<1>2. n \in Len(fromAxis) + 1 .. Len(fromAxis') /\ n - 1 = Len(fromAxis)
      /\ Len(fromAxis) \in 0 .. Len(fromAxis) /\ fromAxis'[n].kind # "position" /\ Len(fromAxis') = n
  BY <1>1 DEF Grown
<1> HIDE DEF n
<1>3. g[n] = g[Len(fromAxis)] /\ (state = "start_moving" => e[n] = e[Len(fromAxis)])
  <2>1. g[n] = g[n - 1] /\ (state = "start_moving" => e[n] = e[n - 1])
    BY <1>2, GrownKeeps
  <2> QED BY <1>2, <2>1
<1>4. g[n] = k[Len(fromAxis)] /\ (state = "start_moving" => e[n] = d[Len(fromAxis)])
  BY <1>2, <1>3 DEF Grown
<1> QED BY <1>2, <1>4

(* The reports of all axes of the task, and at most one status.            *)
AtMostOne(t) == Reports(t) /\ Len(t) \in {0, 1} /\ \A i \in 1 .. Len(t) : t[i].kind = "status"

Ended(g, k) ==
  \A a \in Axes : g[Len(fromAxis')][a] = IF a \in cncAxes THEN truePos[a] ELSE k[Len(fromAxis)][a]

GrownToEnd(g, e, k, d, t) ==
  /\ Grown(g, e, k, d) /\ Ended(g, k)
  /\ Len(t) = 1 => Len(fromAxis') > Len(fromAxis) /\ fromAxis'[Len(fromAxis')] = t[1]
  /\ \A i \in Len(fromAxis) + 1 .. Len(fromAxis') - 1 : fromAxis'[i].kind = "position"

LEMMA GrownByFinals ==
  ASSUME NEW k, NEW d, Steps(k, d), IsFiniteSet(Axes), NEW t, AtMostOne(t),
         fromAxis' = (fromAxis \o FinalReports(truePos)) \o t
  PROVE  \E g, e : GrownToEnd(g, e, k, d, t)
<1> DEFINE r == FinalReports(truePos)
           q == fromAxis \o r
<1>0. Reports(t) /\ Len(t) \in {0, 1} /\ \A i \in 1 .. Len(t) : t[i].kind = "status"
  BY DEF AtMostOne
<1>1. Reports(fromAxis) /\ IsQueue(fromAxis) /\ Reads(k, fromAxis, known) /\ Watches(k, d)
      /\ truePos \in [Axes -> Int] /\ cncAxes \subseteq Axes
  BY DEF Steps, Wires, Reports, AxesTyped
<1>2. Reports(r) /\ Tells(r, cncAxes, truePos)
  BY <1>1, FinalReportsTell
<1> HIDE DEF r
<1>3. \E f, c : More(f, c, k, d, fromAxis, r)
  BY <1>1, <1>2, MoreExists DEF Watches
<1> PICK f, c : More(f, c, k, d, fromAxis, r)
  BY <1>3
<1>4. /\ Reads(f, q, known) /\ Reports(q)
      /\ state = "start_moving" => Detects(c, f, q, vm.moves, CurrentMove(vm), initial)
      /\ Len(fromAxis) \in Nat /\ Len(r) \in Nat /\ Len(q) = Len(fromAxis) + Len(r)
      /\ \A i \in 1 .. Len(fromAxis) : q[i] = fromAxis[i]
      /\ \A i \in 1 .. Len(r) : q[Len(fromAxis) + i] = r[i]
      /\ \A i \in 0 .. Len(fromAxis) : f[i] = k[i] /\ c[i] = d[i]
  BY DEF More
<1> HIDE DEF q
<1>5. \E g, e : More(g, e, f, c, q, t)
  BY <1>0, <1>4, MoreExists
<1> PICK g, e : More(g, e, f, c, q, t)
  BY <1>5
<1>6. /\ Reads(g, fromAxis', known) /\ Reports(fromAxis') /\ fromAxis' = q \o t
      /\ state = "start_moving" => Detects(e, g, fromAxis', vm.moves, CurrentMove(vm), initial)
      /\ Len(q) \in Nat /\ Len(t) \in Nat /\ Len(fromAxis') = Len(q) + Len(t)
      /\ \A i \in 1 .. Len(q) : fromAxis'[i] = q[i]
      /\ \A i \in 1 .. Len(t) : fromAxis'[Len(q) + i] = t[i]
      /\ \A i \in 0 .. Len(q) : g[i] = f[i] /\ e[i] = c[i]
  <2>1. fromAxis' = q \o t
    BY DEF q, r
  <2> QED BY <2>1 DEF More
<1>7. Grown(g, e, k, d)
  <2>1. Len(fromAxis') \in Nat /\ Len(fromAxis) <= Len(fromAxis')
    BY <1>4, <1>6
  <2>2. \A i \in 1 .. Len(fromAxis) : i \in 1 .. Len(q)
    BY <1>4
  <2>3. \A i \in 0 .. Len(fromAxis) : i \in 0 .. Len(q)
    BY <1>4
  <2>4. \A i \in 1 .. Len(fromAxis) : fromAxis'[i] = fromAxis[i]
    BY <1>4, <1>6, <2>2
  <2>5. \A i \in 0 .. Len(fromAxis) : g[i] = k[i] /\ e[i] = d[i]
    BY <1>4, <1>6, <2>3
  <2> QED BY <1>4, <1>6, <2>1, <2>4, <2>5 DEF Grown
<1>8. Len(t) = 1 => Len(fromAxis') > Len(fromAxis) /\ fromAxis'[Len(fromAxis')] = t[1]
  <2> SUFFICES ASSUME Len(t) = 1
               PROVE  Len(fromAxis') > Len(fromAxis) /\ fromAxis'[Len(fromAxis')] = t[1]
    OBVIOUS
  <2>1. 1 \in 1 .. Len(t) /\ Len(fromAxis') = Len(q) + 1 /\ Len(fromAxis') > Len(fromAxis)
    BY <1>4, <1>6
  <2> QED BY <1>6, <2>1
<1>9. ASSUME NEW i \in Len(fromAxis) + 1 .. Len(fromAxis') - 1 PROVE fromAxis'[i].kind = "position"
  <2> DEFINE j == i - Len(fromAxis)
  <2>0. /\ Len(fromAxis) \in Nat /\ Len(r) \in Nat /\ Len(q) = Len(fromAxis) + Len(r)
        /\ Len(fromAxis') = Len(q) + Len(t) /\ Len(t) \in {0, 1}
    BY <1>0, <1>4, <1>6
  <2>1. j \in 1 .. Len(r) /\ i = Len(fromAxis) + j /\ i \in 1 .. Len(q)
    BY <2>0, Inside
  <2> HIDE DEF j
  <2>2. fromAxis'[i] = r[j]
    BY <1>4, <1>6, <2>1
  <2> QED BY <1>2, <2>1, <2>2 DEF Tells
<1>10. \A a \in Axes : g[Len(fromAxis')][a] = IF a \in cncAxes THEN truePos[a] ELSE k[Len(fromAxis)][a]
  <2>1. \A a \in Axes : f[Len(fromAxis) + Len(r)][a] = IF a \in cncAxes THEN truePos[a]
                                                      ELSE f[Len(fromAxis)][a]
    <3> DEFINE m == Len(fromAxis)
    <3>1. m \in Nat /\ m + Len(r) <= Len(q) /\ \A i \in 1 .. Len(r) : q[m + i] = r[i]
      BY <1>4
    <3> HIDE DEF m
    <3>2. Knows(f, m, m + Len(r), cncAxes, truePos)
      BY <1>1, <1>2, <1>4, <3>1, TellsAll
    <3> QED BY <3>2 DEF m, Knows
  <2>2. f[Len(fromAxis)] = k[Len(fromAxis)]
    BY <1>4
  <2>3. g[Len(q)] = f[Len(q)]
    BY <1>6
  <2>4. g[Len(fromAxis')] = g[Len(q)]
    <3>1. CASE Len(t) = 0
      BY <1>6, <3>1
    <3>2. CASE Len(t) = 1
      <4> DEFINE n == Len(q) + 1
      <4>1. /\ n \in Len(fromAxis) + 1 .. Len(fromAxis') /\ n - 1 = Len(q) /\ Len(fromAxis') = n
            /\ 1 \in 1 .. Len(t)
        BY <1>4, <1>6, <3>2
      <4>2. fromAxis'[n].kind # "position"
        BY <1>0, <1>6, <4>1
      <4> HIDE DEF n
      <4>3. g[n] = g[n - 1]
        BY <1>7, <4>1, <4>2, GrownKeeps
      <4> QED BY <4>1, <4>3
    <3> QED BY <1>0, <3>1, <3>2
  <2> QED BY <1>4, <2>1, <2>2, <2>3, <2>4
<1>11. GrownToEnd(g, e, k, d, t)
  BY <1>7, <1>8, <1>9, <1>10 DEF GrownToEnd, Ended
<1> QED BY <1>11

-----------------------------------------------------------------------------
LEMMA SideKeeps ==
  ASSUME AxisSide
  PROVE  UNCHANGED << state, armed, axisListener, vm, phases, program, systemReady, ictl,
                      known, initial, fault >>
  BY DEF AxisSide, stateVars, listeners

LEMMA CncEnds ==
  ASSUME NEW k, NEW d, Steps(k, d), NEW g, NEW e, Grown(g, e, k, d), AxisSide,
         IsQueue(toAxis'),
         \A i \in 1 .. Len(toAxis') : toAxis'[i].cmd = "move" => IsTask(toAxis'[i].task),
         AxesTyped', Caught(g)', Where' = Where \/ state = "null" \/ Running, Travels(g, e)'
  PROVE  InStep'
<1>1. UNCHANGED << state, armed, axisListener, vm, phases, program, systemReady, ictl,
                   known, initial, fault >>
  BY SideKeeps
<1>2. Reads(g, fromAxis, known)' /\ Wires'
  BY <1>1 DEF Grown, Wires
<1>3. Watches(g, e)'
  BY <1>1 DEF Grown, Watches, CurrentMove
<1>4. ~fault' /\ Offered'
  BY <1>1 DEF Steps, Offered
<1>5. VmReady'
  <2>1. Running => state = "start_moving"
    BY DEF Running
  <2> QED BY <1>1, <2>1 DEF Steps, VmReady, Initialized
<1> QED BY <1>2, <1>3, <1>4, <1>5 DEF InStep, Steps

LEMMA TailWires ==
  ASSUME Wires, toAxis # <<>>, toAxis' = Tail(toAxis)
  PROVE  /\ IsQueue(toAxis')
         /\ \A i \in 1 .. Len(toAxis') : toAxis'[i].cmd = "move" => IsTask(toAxis'[i].task)
         /\ Head(toAxis).cmd = "move" => IsTask(Head(toAxis).task)
<1>1. /\ IsQueue(toAxis') /\ Len(toAxis) \in Nat /\ Len(toAxis) > 0 /\ Len(toAxis') = Len(toAxis) - 1
      /\ Head(toAxis) = toAxis[1] /\ \A i \in 1 .. Len(toAxis) - 1 : toAxis'[i] = toAxis[i + 1]
  BY TailQueue DEF Wires
<1>2. \A i \in 1 .. Len(toAxis') : i + 1 \in 1 .. Len(toAxis) /\ toAxis'[i] = toAxis[i + 1]
  BY <1>1
<1>3. 1 \in 1 .. Len(toAxis)
  BY <1>1
<1> QED BY <1>1, <1>2, <1>3 DEF Wires

LEMMA RefusedStays ==
  ASSUME NEW k, NEW d, NEW g, NEW e, Grown(g, e, k, d), Refused
  PROVE  Refused'
<1>1. /\ Len(fromAxis) \in Nat /\ Len(fromAxis') \in Nat /\ Len(fromAxis) <= Len(fromAxis')
      /\ \A i \in 1 .. Len(fromAxis) : fromAxis'[i] = fromAxis[i]
  BY DEF Grown
<1> PICK s \in 1 .. Len(fromAxis) :
      Refusal(fromAxis[s]) /\ \A i \in 1 .. s - 1 : ~Success(fromAxis[i])
  BY DEF Refused
<1>2. s \in 1 .. Len(fromAxis') /\ \A i \in 1 .. s - 1 : i \in 1 .. Len(fromAxis)
  BY <1>1
<1>3. Refusal(fromAxis'[s]) /\ \A i \in 1 .. s - 1 : ~Success(fromAxis'[i])
  BY <1>1, <1>2
<1> QED BY <1>2, <1>3 DEF Refused

(* A refusal after messages without success.                               *)
LEMMA RefusedNow ==
  ASSUME NEW k, NEW d, NEW g, NEW e, Grown(g, e, k, d),
         \A i \in 1 .. Len(fromAxis) : ~Success(fromAxis[i]),
         NEW s \in Len(fromAxis) + 1 .. Len(fromAxis'), Refusal(fromAxis'[s]),
         \A i \in Len(fromAxis) + 1 .. s - 1 : ~Success(fromAxis'[i])
  PROVE  Refused'
<1>1. /\ Len(fromAxis) \in Nat /\ Len(fromAxis') \in Nat /\ Len(fromAxis) <= Len(fromAxis')
      /\ \A i \in 1 .. Len(fromAxis) : fromAxis'[i] = fromAxis[i]
  BY DEF Grown
<1>2. \A i \in 1 .. s - 1 : i \in 1 .. Len(fromAxis) \/ i \in Len(fromAxis) + 1 .. s - 1
  BY <1>1
<1>3. s \in 1 .. Len(fromAxis') /\ \A i \in 1 .. s - 1 : ~Success(fromAxis'[i])
  BY <1>1, <1>2
<1> QED BY <1>3 DEF Refused

(* At rest every message tells what is known already.                      *)
LEMMA QuietReads ==
  ASSUME Reports(fromAxis), AxesTyped, NEW k, Reads(k, fromAxis, known), Quiet
  PROVE  \A i \in 0 .. Len(fromAxis) : k[i] = truePos
<1>1. Len(fromAxis) \in Nat
  BY EmptyQueue DEF Reports
<1> DEFINE T == {i \in 0 .. Len(fromAxis) : k[i] = truePos}
<1>2. 0 \in T
  BY <1>1 DEF Reads, Quiet
<1>3. ASSUME NEW i \in 0 .. Len(fromAxis) - 1, i \in T PROVE i + 1 \in T
  <2> DEFINE j == i + 1
  <2>1. j \in 1 .. Len(fromAxis) /\ j \in 0 .. Len(fromAxis) /\ j - 1 = i /\ k[i] = truePos
    BY <1>1, <1>3
  <2> HIDE DEF j
  <2>2. k[j] = [k[j - 1] EXCEPT ![fromAxis[j].axis] = fromAxis[j].value]
        /\ fromAxis[j].value = truePos[fromAxis[j].axis]
    BY <2>1 DEF Reads, Quiet, TrueFrom
  <2>3. truePos \in [Axes -> Int]
    BY DEF AxesTyped
  <2>4. k[j] = truePos
    BY <2>1, <2>2, <2>3
  <2> QED BY <2>1, <2>4 DEF j
<1> HIDE DEF T
<1>4. 0 .. Len(fromAxis) \subseteq T
  BY <1>1, <1>2, <1>3, IndexInduction
<1> QED BY <1>4 DEF T

LEMMA FirstMove ==
  ASSUME NEW moves, Linked(moves)
  PROVE  Len(moves) \in Nat /\ Len(moves) > 0 /\ moves[1] \in Move /\ \E a \in Axes : MovesAxis(moves[1], a)
<1>1. Len(moves) \in Nat /\ Len(moves) > 0
  BY DEF Linked
<1>2. 1 \in 1 .. Len(moves)
  BY <1>1
<1> QED BY <1>1, <1>2 DEF Linked

(* ...and detects nothing.                                                 *)
LEMMA QuietDetects ==
  ASSUME Reports(fromAxis), AxesTyped, NEW k, NEW d, Reads(k, fromAxis, known), Quiet,
         AtStart, Linked(vm.moves), Detects(d, k, fromAxis, vm.moves, CurrentMove(vm), initial)
  PROVE  \A i \in 0 .. Len(fromAxis) : d[i] = 0
<1>1. Len(fromAxis) \in Nat
  BY EmptyQueue DEF Reports
<1>2. vm.moves[1] \in Move /\ \E a \in Axes : MovesAxis(vm.moves[1], a)
  BY FirstMove
<1>3. ~Reached(vm.moves[1], FromOrigin(truePos, initial))
  <2>1. FromOrigin(truePos, initial) = vm.moves[1].from
    BY DEF FromOrigin, AtStart, Where
  <2> QED BY <1>2, <2>1, NotReachedAtFrom
<1> DEFINE T == {i \in 0 .. Len(fromAxis) : d[i] = 0}
<1>4. 0 \in T
  BY <1>1 DEF Detects, AtStart
<1>5. ASSUME NEW i \in 0 .. Len(fromAxis) - 1, i \in T PROVE i + 1 \in T
  <2> DEFINE j == i + 1
  <2>1. j \in 1 .. Len(fromAxis) /\ j \in 0 .. Len(fromAxis) /\ j - 1 = i /\ d[i] = 0 /\ 0 + 1 = 1
    BY <1>1, <1>5
  <2> HIDE DEF j
  <2>2. k[j] = truePos
    BY <2>1, QuietReads
  <2>3. d[j] = 0
    BY <1>3, <2>1, <2>2 DEF Detects
  <2> QED BY <2>1, <2>3 DEF j
<1> HIDE DEF T
<1>6. 0 .. Len(fromAxis) \subseteq T
  BY <1>1, <1>4, <1>5, IndexInduction
<1> QED BY <1>6 DEF T

-----------------------------------------------------------------------------
(***************************************************************************)
(* multi_axis_ctl takes a command and answers with at most one status.     *)
(***************************************************************************)
Answers(g, e, k, d) ==
  /\ Grown(g, e, k, d)
  /\ \A i \in Len(fromAxis) + 1 .. Len(fromAxis') : fromAxis'[i].kind = "status"
  /\ g[Len(fromAxis')] = k[Len(fromAxis)]
  /\ state = "start_moving" => e[Len(fromAxis')] = d[Len(fromAxis)]

LEMMA NoAnswer ==
  ASSUME NEW k, NEW d, Steps(k, d), fromAxis' = fromAxis
  PROVE  Answers(k, d, k, d)
<1>1. Grown(k, d, k, d)
  BY GrownNot
<1>2. Len(fromAxis) \in Nat
  BY <1>1 DEF Grown
<1>3. Len(fromAxis) + 1 .. Len(fromAxis') = {}
  BY <1>2
<1> QED BY <1>1, <1>3 DEF Answers

LEMMA OneAnswer ==
  ASSUME NEW k, NEW d, Steps(k, d), NEW s, NEW er, fromAxis' = Append(fromAxis, Status(s, er))
  PROVE  \E g, e : /\ Answers(g, e, k, d) /\ Len(fromAxis') = Len(fromAxis) + 1
                   /\ fromAxis'[Len(fromAxis) + 1] = Status(s, er)
<1> PICK g, e : /\ Grown(g, e, k, d) /\ Len(fromAxis') = Len(fromAxis) + 1
                /\ fromAxis'[Len(fromAxis) + 1] = Status(s, er)
                /\ g[Len(fromAxis')] = k[Len(fromAxis)]
                /\ state = "start_moving" => e[Len(fromAxis')] = d[Len(fromAxis)]
  BY GrownByStatus
<1>1. Len(fromAxis) \in Nat
  BY DEF Grown
<1>2. \A i \in Len(fromAxis) + 1 .. Len(fromAxis') : i = Len(fromAxis) + 1
  BY <1>1
<1>3. Answers(g, e, k, d)
  BY <1>2 DEF Answers, Status
<1> QED BY <1>3

(* What is known in the end does not change; axes that stopped were known.  *)
LEMMA AnswersCaught ==
  ASSUME NEW k, NEW d, Steps(k, d), NEW g, NEW e, Answers(g, e, k, d), truePos' = truePos,
         cncRun = "idle" \/ (cncRun' # "idle" /\ cncAxes' = cncAxes)
  PROVE  Caught(g)'
  BY DEF Steps, Caught, Answers

LEMMA TakeState ==
  ASSUME NEW k, NEW d, Steps(k, d), toAxis # <<>>
  PROVE  state = "null" \/ (Running /\ axisListener # "none" /\ (Sent \/ Refused))
  BY DEF Steps, Travels, Moving, Arrived

LEMMA AllRead ==
  ASSUME NEW q \in Seq([Axes -> Int]), NEW n \in 0 .. Len(q)
  PROVE  /\ SubSeq(q, 1, n) \in Seq([Axes -> Int]) /\ Len(SubSeq(q, 1, n)) = n
         /\ n \in Nat /\ \A i \in 1 .. n : SubSeq(q, 1, n)[i] = q[i]
  OBVIOUS

ShortLists == Len(vm.moves) < 256

(* The answers of a run that had been refused.                             *)
LEMMA TravelsRefused ==
  ASSUME Running \/ state = "null", AxisSide, Running => axisListener # "none",
         Running => Refused', NEW g, NEW e
  PROVE  Travels(g, e)'
<1>1. UNCHANGED <<state, armed, axisListener>>
  BY SideKeeps
<1>2. (Running' <=> Running) /\ (Running => state = "start_moving" /\ ~armed)
  BY <1>1 DEF Running
<1> QED BY <1>1, <1>2 DEF Travels

LEMMA WhereStays ==
  ASSUME truePos' = truePos, initial' = initial
  PROVE  Where' = Where
  BY DEF Where

LEMMA CncActivateInStep ==
  ASSUME InStep, ShortLists, CncActivate
  PROVE  InStep'
<1> PICK k, d : Steps(k, d)
  BY DEF InStep
<1> DEFINE task == Head(toAxis).task
<1>1. /\ toAxis # <<>> /\ Head(toAxis).cmd = "move" /\ toAxis' = Tail(toAxis) /\ AxisSide
      /\ cncRun = "idle" /\ cncTasks' = SubSeq(task.list, 1, task.count)
      /\ cncAxes' = {a \in Axes : \E i \in DOMAIN cncTasks' : cncTasks'[i][a] # 0}
      /\ cncRun' = (IF cncTasks' = <<>> THEN "idle" ELSE "moving")
      /\ UNCHANGED <<truePos, lag>>
      /\ fromAxis' = fromAxis \/ fromAxis' = Append(fromAxis, Status("active", FALSE))
  BY DEF CncActivate, CncTake
<1>2. UNCHANGED <<state, armed, axisListener, vm, phases, known, initial>>
  BY <1>1, SideKeeps
<1>3. /\ IsQueue(toAxis') /\ IsTask(task)
      /\ \A i \in 1 .. Len(toAxis') : toAxis'[i].cmd = "move" => IsTask(toAxis'[i].task)
  BY <1>1, TailWires DEF Steps
<1>4. \E g, e : /\ Answers(g, e, k, d)
                /\ \A i \in Len(fromAxis) + 1 .. Len(fromAxis') : ~Success(fromAxis'[i])
  <2>1. CASE fromAxis' = fromAxis
    <3>1. Answers(k, d, k, d) /\ Len(fromAxis) \in Nat
      BY <2>1, NoAnswer DEF Answers, Grown
    <3>2. Len(fromAxis) + 1 .. Len(fromAxis') = {}
      BY <2>1, <3>1
    <3> QED BY <3>1, <3>2
  <2>2. CASE fromAxis' = Append(fromAxis, Status("active", FALSE))
    <3> PICK g, e : /\ Answers(g, e, k, d) /\ Len(fromAxis') = Len(fromAxis) + 1
                    /\ fromAxis'[Len(fromAxis) + 1] = Status("active", FALSE)
      BY <2>2, OneAnswer
    <3>1. Len(fromAxis) \in Nat /\ ~Success(Status("active", FALSE))
      BY DEF Answers, Grown, Success, Status
    <3>2. \A i \in Len(fromAxis) + 1 .. Len(fromAxis') : i = Len(fromAxis) + 1
      BY <3>1
    <3> QED BY <3>1, <3>2
  <2> QED BY <1>1, <2>1, <2>2
<1> PICK g, e : /\ Answers(g, e, k, d)
                /\ \A i \in Len(fromAxis) + 1 .. Len(fromAxis') : ~Success(fromAxis'[i])
  BY <1>4
<1>5. Grown(g, e, k, d)
  BY DEF Answers
<1>6. Caught(g)'
  BY <1>1, AnswersCaught
<1>7. Where' = Where
  BY <1>1, <1>2, WhereStays
<1>8. /\ cncTasks' \in Seq([Axes -> Int]) /\ Len(cncTasks') = task.count /\ task.count \in Nat
      /\ \A i \in 1 .. task.count : cncTasks'[i] = task.list[i]
  BY <1>1, <1>3, AllRead DEF IsTask
<1>9. AxesTyped'
  <2>1. DOMAIN cncTasks' = 1 .. Len(cncTasks')
    BY <1>8
  <2>2. \A i \in 1 .. Len(cncTasks') : \A a \in Axes : cncTasks'[i][a] # 0 => a \in cncAxes'
    BY <1>1, <2>1
  <2>3. cncAxes' \subseteq Axes
    BY <1>1
  <2> QED BY <1>1, <1>2, <1>8, <2>2, <2>3 DEF Steps, AxesTyped
<1>10. Travels(g, e)'
  <2>1. state = "null" \/ (Running /\ axisListener # "none" /\ (Sent \/ Refused))
    BY <1>1, TakeState
  <2>2. CASE state = "null"
    BY <1>2, <2>2 DEF Travels, Running
  <2>3. CASE Running /\ Refused
    BY <1>1, <1>5, <2>1, <2>3, RefusedStays, TravelsRefused DEF Running
  <2>4. CASE Running /\ Sent
    <3>1. /\ toAxis = <<AxisTask(FillCncTask(vm))>> /\ Quiet /\ AtStart /\ state = "start_moving"
      BY <2>4 DEF Sent, Running
    <3>2. toAxis' = <<>> /\ task = FillCncTask(vm)
      BY <1>1, <3>1 DEF AxisTask
    <3>3. Linked(vm.moves)
      BY <3>1 DEF Steps, VmReady
    <3>4. /\ Len(vm.moves) \in Nat /\ Len(vm.moves) > 0
          /\ \A i \in 1 .. Len(vm.moves) : \A a \in Axes :
               FillCncTask(vm).list[i][a] = vm.moves[i].to[a] - vm.moves[i].from[a]
      BY <3>3, TaskIs
    <3>5. task.count = Len(vm.moves)
      <4>1. Len(vm.moves) < 256 /\ FillCncTask(vm).count = Len(vm.moves) % 2^8
        BY DEF ShortLists, FillCncTask, PhaseCount
      <4>2. 2^8 = 256
        OBVIOUS
      <4> DEFINE n == Len(vm.moves)
      <4>3. n \in Nat /\ n < 256
        BY <3>4, <4>1
      <4> HIDE DEF n
      <4>4. n % 256 = n
        BY <4>3
      <4> QED BY <3>2, <4>1, <4>2, <4>4 DEF n
    <3>6. cncRun' = "moving"
      <4>1. Len(cncTasks') > 0
        BY <1>8, <3>4, <3>5
      <4>2. cncTasks' # <<>>
        BY <1>8, <4>1
      <4> QED BY <1>1, <4>2
    <3>7. Advanced' = 0
      BY <1>2, <1>8, <3>4, <3>5 DEF Advanced
    <3>8. \A i \in 1 .. Len(fromAxis') : ~Success(fromAxis'[i])
      <4>1. \A i \in 1 .. Len(fromAxis) : ~Success(fromAxis[i])
        BY <3>1 DEF Quiet, TrueFrom, Success
      <4>2. /\ Len(fromAxis) \in Nat /\ Len(fromAxis') \in Nat
            /\ \A i \in 1 .. Len(fromAxis) : fromAxis'[i] = fromAxis[i]
        BY <1>5 DEF Grown
      <4>3. \A i \in 1 .. Len(fromAxis') :
              i \in 1 .. Len(fromAxis) \/ i \in Len(fromAxis) + 1 .. Len(fromAxis')
        BY <4>2
      <4> QED BY <4>1, <4>2, <4>3
    <3>9. LeftOf(cncTasks', vm.moves, 0)
      <4>1. ASSUME NEW i \in 1 .. Len(cncTasks'), NEW a \in Axes
            PROVE  cncTasks'[i][a] = vm.moves[0 + i].to[a] - vm.moves[0 + i].from[a]
        <5>1. i \in 1 .. Len(vm.moves) /\ i \in 1 .. task.count /\ 0 + i = i
          BY <1>8, <3>4, <3>5
        <5>2. cncTasks'[i] = FillCncTask(vm).list[i]
          BY <1>8, <3>2, <5>1
        <5> QED BY <3>4, <5>1, <5>2
      <4> QED BY <4>1 DEF LeftOf
    <3>10. e[Len(fromAxis')] = 0 /\ g[Len(fromAxis')] = truePos
      <4>1. /\ Reports(fromAxis) /\ AxesTyped /\ Reads(k, fromAxis, known)
            /\ Detects(d, k, fromAxis, vm.moves, CurrentMove(vm), initial)
        BY <3>1 DEF Steps, Wires, Watches
      <4>2. Len(fromAxis) \in 0 .. Len(fromAxis)
        BY <1>5 DEF Grown
      <4>3. k[Len(fromAxis)] = truePos
        BY <3>1, <4>1, <4>2, QuietReads
      <4>4. d[Len(fromAxis)] = 0
        BY <3>1, <3>3, <4>1, <4>2, QuietDetects
      <4> QED BY <3>1, <4>3, <4>4 DEF Answers
    <3>11. Seen(g)' = Where
      BY <1>1, <1>2, <3>10 DEF Seen, FromOrigin, Where
    <3>12. Abreast(0, Where, vm.moves, 0, Where, lag)
      <4>1. Where = Target(vm.moves, 0)
        BY <3>1 DEF AtStart, Target
      <4> QED BY <3>4, <4>1 DEF Abreast
    <3>13. Moving(g, e)'
      BY <1>1, <1>2, <1>7, <3>2, <3>6, <3>7, <3>8, <3>9, <3>10, <3>11, <3>12 DEF Moving
    <3>14. state' = "start_moving" /\ ~armed' /\ axisListener' # "none"
      BY <1>2, <2>1, <2>4 DEF Running
    <3> QED BY <3>13, <3>14 DEF Travels, Running
  <2> QED BY <2>1, <2>2, <2>3, <2>4
<1> QED BY <1>1, <1>3, <1>5, <1>6, <1>7, <1>9, <1>10, CncEnds

LEMMA CncRejectInStep ==
  ASSUME InStep, CncReject \/ CncDeactivate
  PROVE  InStep'
<1> PICK k, d : Steps(k, d)
  BY DEF InStep
<1>1. /\ toAxis # <<>> /\ toAxis' = Tail(toAxis) /\ AxisSide
      /\ UNCHANGED <<cncAxes, cncTasks, truePos, lag>>
      /\ cncRun = "idle" \/ cncRun' # "idle"
      /\ \/ Head(toAxis).cmd = "move" /\ fromAxis' = Append(fromAxis, Status("ready", TRUE))
         \/ /\ Head(toAxis).cmd = "deactivate"
            /\ fromAxis' = fromAxis \/ \E s, er : fromAxis' = Append(fromAxis, Status(s, er))
  <2>1. CASE CncReject
    <3>1. CncTake("move")
      BY <2>1 DEF CncReject
    <3>2. cncRun = "idle" \/ cncRun' # "idle"
      BY <2>1 DEF CncReject
    <3>3. fromAxis' = Append(fromAxis, Status("ready", TRUE)) /\ UNCHANGED <<cncAxes, cncTasks, truePos, lag>>
      BY <2>1 DEF CncReject
    <3> QED BY <3>1, <3>2, <3>3 DEF CncTake
  <2>2. CASE CncDeactivate
    <3>1. CncTake("deactivate") /\ UNCHANGED <<cncAxes, cncTasks, truePos, lag>>
      BY <2>2 DEF CncDeactivate
    <3>2. cncRun = "idle" \/ cncRun' # "idle"
      BY <2>2 DEF CncDeactivate
    <3>3. fromAxis' = fromAxis \/ \E s, er : fromAxis' = Append(fromAxis, Status(s, er))
      <4>1. CASE cncRun \in {"moving", "stopping"}
        BY <2>2, <4>1 DEF CncDeactivate
      <4>2. CASE cncRun \notin {"moving", "stopping"}
        <5>1. fromAxis' = IF cncWire = "active" \/ EchoIdle
                          THEN Append(fromAxis, Status(cncWire', FALSE)) ELSE fromAxis
          BY <2>2, <4>2 DEF CncDeactivate
        <5> QED BY <5>1
      <4> QED BY <4>1, <4>2
    <3> QED BY <3>1, <3>2, <3>3 DEF CncTake
  <2> QED BY <2>1, <2>2
<1>2. UNCHANGED <<state, armed, axisListener, vm, phases, known, initial>>
  BY <1>1, SideKeeps
<1>3. /\ IsQueue(toAxis')
      /\ \A i \in 1 .. Len(toAxis') : toAxis'[i].cmd = "move" => IsTask(toAxis'[i].task)
  BY <1>1, TailWires DEF Steps
<1>4. \E g, e : /\ Answers(g, e, k, d)
                /\ Head(toAxis).cmd = "move" =>
                     Len(fromAxis') = Len(fromAxis) + 1
                     /\ fromAxis'[Len(fromAxis) + 1] = Status("ready", TRUE)
  <2>0. "move" # "deactivate"
    OBVIOUS
  <2>1. CASE Head(toAxis).cmd = "move" /\ fromAxis' = Append(fromAxis, Status("ready", TRUE))
    BY <2>1, OneAnswer
  <2>2. CASE Head(toAxis).cmd = "deactivate" /\ fromAxis' = fromAxis
    BY <2>0, <2>2, NoAnswer
  <2>3. CASE Head(toAxis).cmd = "deactivate" /\ \E s, er : fromAxis' = Append(fromAxis, Status(s, er))
    <3> PICK s, er : fromAxis' = Append(fromAxis, Status(s, er))
      BY <2>3
    <3>1. \E g, e : Answers(g, e, k, d)
      BY OneAnswer
    <3> QED BY <2>0, <2>3, <3>1
  <2> QED BY <1>1, <2>1, <2>2, <2>3
<1> PICK g, e : /\ Answers(g, e, k, d)
                /\ Head(toAxis).cmd = "move" =>
                     Len(fromAxis') = Len(fromAxis) + 1
                     /\ fromAxis'[Len(fromAxis) + 1] = Status("ready", TRUE)
  BY <1>4
<1>5. Grown(g, e, k, d)
  BY DEF Answers
<1>6. Caught(g)'
  BY <1>1, AnswersCaught
<1>7. Where' = Where
  BY <1>1, <1>2, WhereStays
<1>8. AxesTyped'
  BY <1>1, <1>2 DEF Steps, AxesTyped
<1>9. Travels(g, e)'
  <2>1. state = "null" \/ (Running /\ axisListener # "none" /\ (Sent \/ Refused))
    BY <1>1, TakeState
  <2>2. CASE state = "null"
    BY <1>2, <2>2 DEF Travels, Running
  <2>3. CASE Running /\ Refused
    BY <1>1, <1>5, <2>1, <2>3, RefusedStays, TravelsRefused DEF Running
  <2>4. CASE Running /\ Sent
    <3>1. toAxis = <<AxisTask(FillCncTask(vm))>> /\ Quiet /\ state = "start_moving"
      BY <2>4 DEF Sent, Running
    <3>2. Head(toAxis).cmd = "move"
      BY <3>1 DEF AxisTask
    <3>3. \A i \in 1 .. Len(fromAxis) : ~Success(fromAxis[i])
      BY <3>1 DEF Quiet, TrueFrom, Success
    <3> DEFINE s == Len(fromAxis) + 1
    <3>4. /\ s \in Len(fromAxis) + 1 .. Len(fromAxis') /\ Refusal(fromAxis'[s])
          /\ Len(fromAxis) + 1 .. s - 1 = {}
      <4>1. Len(fromAxis) \in Nat /\ Len(fromAxis') = Len(fromAxis) + 1
        BY <1>5, <3>2 DEF Grown
      <4>2. Refusal(Status("ready", TRUE))
        BY DEF Refusal, Success, Status
      <4>3. s \in Len(fromAxis) + 1 .. Len(fromAxis') /\ Len(fromAxis) + 1 .. s - 1 = {}
        BY <4>1
      <4>4. fromAxis'[s] = Status("ready", TRUE)
        BY <3>2
      <4> QED BY <4>2, <4>3, <4>4
    <3> HIDE DEF s
    <3>5. Refused'
      BY <1>5, <3>3, <3>4, RefusedNow
    <3> QED BY <1>1, <2>1, <2>4, <3>5, TravelsRefused DEF Running
  <2> QED BY <2>1, <2>2, <2>3, <2>4
<1> QED BY <1>1, <1>3, <1>5, <1>6, <1>7, <1>8, <1>9, CncEnds

-----------------------------------------------------------------------------
(***************************************************************************)
(* An axis reports, or a segment ends, while a list is executed.           *)
(***************************************************************************)
LEMMA Targets ==
  ASSUME NEW moves, Linked(moves), NEW x \in 0 .. Len(moves) - 1
  PROVE  /\ Len(moves) \in Nat /\ moves[x + 1] \in Move
         /\ Target(moves, x) = moves[x + 1].from /\ Target(moves, x + 1) = moves[x + 1].to
         /\ \E a \in Axes : MovesAxis(moves[x + 1], a)
         /\ moves[x + 1].from \in [Axes -> Int] /\ moves[x + 1].to \in [Axes -> Int]
<1>1. Len(moves) \in Nat
  BY DEF Linked
<1>2. x + 1 \in 1 .. Len(moves) /\ x + 1 # 0 /\ (x # 0 => x \in 1 .. Len(moves) - 1)
  BY <1>1
<1>3. /\ moves[x + 1] \in Move /\ \E a \in Axes : MovesAxis(moves[x + 1], a)
      /\ x # 0 => moves[x + 1].from = moves[x].to
  BY <1>2 DEF Linked
<1>4. moves[x + 1].from \in [Axes -> Int] /\ moves[x + 1].to \in [Axes -> Int]
  BY <1>3 DEF Move
<1>5. Target(moves, x + 1) = moves[x + 1].to
  BY <1>2 DEF Target
<1>6. Target(moves, x) = moves[x + 1].from
  <2>1. CASE x = 0
    BY <2>1 DEF Target
  <2>2. CASE x # 0
    BY <1>3, <2>2 DEF Target
  <2> QED BY <2>1, <2>2
<1> QED BY <1>1, <1>3, <1>4, <1>5, <1>6

Told(x, pos, moves) ==
  IF x + 1 # Len(moves) /\ Reached(moves[x + 1], pos) THEN x + 1 ELSE x

(* One axis tells where it is.                                             *)
TellsWhere(y, z, w, l, h, a) ==
  /\ y \in [Axes -> Int] /\ z \in [Axes -> Int] /\ w \in [Axes -> Int]
  /\ z = [y EXCEPT ![a] = w[a]]
  /\ \A b \in Axes : b # a => h[b] = l[b]

LEMMA AbreastReports ==
  ASSUME NEW moves, Linked(moves), NEW x, NEW y, NEW adv, NEW w, NEW l,
         Abreast(x, y, moves, adv, w, l), NEW a \in Axes, NEW z, NEW h, TellsWhere(y, z, w, l, h, a)
  PROVE  Abreast(Told(x, z, moves), z, moves, adv, w, h)
<1>0. /\ y \in [Axes -> Int] /\ z \in [Axes -> Int] /\ w \in [Axes -> Int]
      /\ z = [y EXCEPT ![a] = w[a]]
      /\ \A b \in Axes : b # a => h[b] = l[b]
  BY DEF TellsWhere
<1>1. /\ x \in 0 .. Len(moves) - 1 /\ adv \in {x, x + 1} /\ w = Target(moves, adv)
      /\ \A b \in Axes : y[b] \in {Target(moves, x)[b], Target(moves, adv)[b]}
      /\ \A b \in Axes : l[b] = 0 => y[b] = w[b]
      /\ adv = x + 1 /\ adv # Len(moves) =>
           \E b \in Axes : MovesAxis(moves[x + 1], b) /\ y[b] # Target(moves, x + 1)[b]
  BY DEF Abreast
<1> DEFINE m == moves[x + 1]
<1>2. /\ Len(moves) \in Nat /\ m \in Move /\ Target(moves, x) = m.from /\ Target(moves, x + 1) = m.to
      /\ \E b \in Axes : MovesAxis(m, b)
      /\ m.from \in [Axes -> Int] /\ m.to \in [Axes -> Int]
  BY <1>1, Targets
<1> HIDE DEF m
<1>3. \A b \in Axes : h[b] = 0 => z[b] = w[b]
  BY <1>0, <1>1
<1>4. \A b \in Axes : z[b] \in {Target(moves, x)[b], Target(moves, adv)[b]}
  BY <1>0, <1>1
<1>5. CASE adv = x
  <2>1. z = m.from
    <3>1. \A b \in Axes : z[b] = m.from[b]
      BY <1>2, <1>4, <1>5
    <3> QED BY <1>0, <1>2, <3>1
  <2>2. ~Reached(m, z)
    BY <1>2, <2>1, NotReachedAtFrom
  <2>3. Told(x, z, moves) = x
    BY <2>2 DEF Told, m
  <2>4. ~(adv = x + 1)
    BY <1>1, <1>2, <1>5
  <2> QED BY <1>1, <1>3, <1>4, <2>3, <2>4 DEF Abreast
<1>6. CASE adv = x + 1 /\ x + 1 # Len(moves) /\ Reached(m, z)
  <2>1. Told(x, z, moves) = x + 1
    BY <1>6 DEF Told, m
  <2>2. \A b \in Axes : z[b] = m.to[b]
    <3> SUFFICES ASSUME NEW b \in Axes PROVE z[b] = m.to[b]
      OBVIOUS
    <3>1. z[b] \in {m.from[b], m.to[b]}
      BY <1>2, <1>4, <1>6
    <3>2. m.from[b] \in Int /\ m.to[b] \in Int
      BY <1>2
    <3>3. /\ m.from[b] < m.to[b] => z[b] >= m.to[b]
          /\ m.from[b] > m.to[b] => z[b] <= m.to[b]
      BY <1>6 DEF Reached
    <3> DEFINE p == m.from[b]
               q == m.to[b]
               r == z[b]
    <3> HIDE DEF p, q, r
    <3>4. p \in Int /\ q \in Int /\ r \in {p, q} /\ (p < q => r >= q) /\ (p > q => r <= q)
      BY <3>1, <3>2, <3>3 DEF p, q, r
    <3>5. r = q
      BY <3>4
    <3> QED BY <3>5 DEF q, r
  <2>3. x + 1 \in 0 .. Len(moves) - 1 /\ adv # (x + 1) + 1
    BY <1>1, <1>2, <1>6
  <2>4. \A b \in Axes : z[b] \in {Target(moves, x + 1)[b], Target(moves, adv)[b]}
    BY <1>2, <2>2
  <2> QED BY <1>1, <1>3, <1>6, <2>1, <2>3, <2>4 DEF Abreast
<1>7. CASE adv = x + 1 /\ ~(x + 1 # Len(moves) /\ Reached(m, z))
  <2>1. Told(x, z, moves) = x
    BY <1>7 DEF Told, m
  <2>2. ASSUME adv # Len(moves)
        PROVE  \E b \in Axes : MovesAxis(m, b) /\ z[b] # Target(moves, x + 1)[b]
    <3>1. ~Reached(m, z)
      BY <1>7, <2>2
    <3> PICK b \in Axes : ~(/\ m.from[b] < m.to[b] => z[b] >= m.to[b]
                            /\ m.from[b] > m.to[b] => z[b] <= m.to[b])
      BY <3>1 DEF Reached
    <3>2. m.from[b] \in Int /\ m.to[b] \in Int /\ z[b] \in Int
      BY <1>0, <1>2
    <3>3. m.from[b] # m.to[b] /\ z[b] # m.to[b]
      BY <3>2
    <3> QED BY <1>2, <3>3 DEF MovesAxis
  <2> QED BY <1>1, <1>3, <1>4, <2>1, <2>2 DEF Abreast, m
<1> QED BY <1>1, <1>5, <1>6, <1>7

(* All axes that had told where they are go the next segment's way.        *)
GoesBy(m, n, w, v, l, h) ==
  /\ n \in [Axes -> Int] /\ w \in [Axes -> Int] /\ v \in [Axes -> Int]
  /\ \A b \in Axes : /\ l[b] = 0 /\ (h[b] = 0 => n[b] = 0)
                     /\ v[b] = w[b] + n[b] /\ n[b] = m.to[b] - m.from[b]

LEMMA AbreastAdvances ==
  ASSUME NEW moves, Linked(moves), NEW x, NEW y \in [Axes -> Int], NEW adv, NEW w, NEW l,
         Abreast(x, y, moves, adv, w, l), adv # Len(moves),
         NEW n, NEW v, NEW h, GoesBy(moves[adv + 1], n, w, v, l, h)
  PROVE  Abreast(x, y, moves, adv + 1, v, h)
<1>0. /\ n \in [Axes -> Int] /\ w \in [Axes -> Int] /\ v \in [Axes -> Int]
      /\ \A b \in Axes : /\ l[b] = 0 /\ (h[b] = 0 => n[b] = 0)
                         /\ v[b] = w[b] + n[b]
                         /\ n[b] = moves[adv + 1].to[b] - moves[adv + 1].from[b]
  BY DEF GoesBy
<1>1. /\ x \in 0 .. Len(moves) - 1 /\ adv \in {x, x + 1} /\ w = Target(moves, adv)
      /\ \A b \in Axes : y[b] = w[b]
      /\ adv = x + 1 /\ adv # Len(moves) =>
           \E b \in Axes : MovesAxis(moves[x + 1], b) /\ y[b] # Target(moves, x + 1)[b]
  BY <1>0 DEF Abreast
<1>2. adv = x
  <2>1. ASSUME adv = x + 1 PROVE FALSE
    BY <1>1, <2>1
  <2> QED BY <1>1, <2>1
<1> DEFINE m == moves[x + 1]
<1>3. /\ Len(moves) \in Nat /\ m \in Move /\ Target(moves, x) = m.from /\ Target(moves, x + 1) = m.to
      /\ \E b \in Axes : MovesAxis(m, b)
      /\ m.from \in [Axes -> Int] /\ m.to \in [Axes -> Int]
  BY <1>1, Targets
<1>4. \A b \in Axes : n[b] = m.to[b] - m.from[b]
  BY <1>0, <1>2
<1> HIDE DEF m
<1>5. v = m.to
  <2>1. \A b \in Axes : v[b] = m.to[b]
    <3> SUFFICES ASSUME NEW b \in Axes PROVE v[b] = m.to[b]
      OBVIOUS
    <3>1. m.to[b] \in Int /\ m.from[b] \in Int /\ v[b] = m.from[b] + n[b] /\ n[b] = m.to[b] - m.from[b]
      BY <1>0, <1>1, <1>2, <1>3, <1>4
    <3> QED BY <3>1
  <2> QED BY <1>0, <1>3, <2>1
<1>6. \A b \in Axes : h[b] = 0 => y[b] = v[b]
  <2> SUFFICES ASSUME NEW b \in Axes, h[b] = 0 PROVE y[b] = v[b]
    OBVIOUS
  <2>1. n[b] = 0 /\ w[b] \in Int /\ v[b] = w[b] + n[b] /\ y[b] = w[b]
    BY <1>0, <1>1
  <2> QED BY <2>1
<1>7. \E b \in Axes : MovesAxis(m, b) /\ y[b] # Target(moves, x + 1)[b]
  <2> PICK b \in Axes : m.from[b] # m.to[b]
    BY <1>3 DEF MovesAxis
  <2> QED BY <1>1, <1>2, <1>3 DEF MovesAxis
<1>8. \A b \in Axes : y[b] \in {Target(moves, x)[b], Target(moves, x + 1)[b]}
  BY <1>1, <1>2
<1> QED BY <1>1, <1>2, <1>3, <1>5, <1>6, <1>7, <1>8 DEF Abreast, m

LEMMA KnownAt ==
  ASSUME NEW k, NEW d, Steps(k, d)
  PROVE  /\ Len(fromAxis) \in Nat /\ k[Len(fromAxis)] \in [Axes -> Int]
         /\ Seen(k) \in [Axes -> Int] /\ Where \in [Axes -> Int]
<1>1. Len(fromAxis) \in Nat
  BY EmptyQueue DEF Steps, Wires, Reports
<1>2. k[Len(fromAxis)] \in [Axes -> Int]
  BY <1>1 DEF Steps, Reads
<1>3. \A a \in Axes : truePos[a] \in Int /\ initial[a] \in Int /\ k[Len(fromAxis)][a] \in Int
  BY <1>2 DEF Steps, AxesTyped
<1>4. \A a \in Axes : k[Len(fromAxis)][a] - initial[a] \in Int /\ truePos[a] - initial[a] \in Int
  BY <1>3
<1>5. Seen(k) \in [Axes -> Int] /\ Where \in [Axes -> Int]
  BY <1>4 DEF Seen, FromOrigin, Where
<1> QED BY <1>1, <1>2, <1>5

(* Only a list in execution moves the axes of a run that goes on.          *)
LEMMA MovingState ==
  ASSUME NEW k, NEW d, Steps(k, d), cncRun # "idle"
  PROVE  state = "null" \/ (Running /\ axisListener # "none" /\ (Moving(k, d) \/ Refused))
  BY DEF Steps, Travels, Sent, Quiet, Arrived

LEMMA LinkedInRun ==
  ASSUME NEW k, NEW d, Steps(k, d), Running
  PROVE  Linked(vm.moves) /\ vm.moves[Len(vm.moves)].to = vm.pos /\ state = "start_moving" /\ ~armed
  BY DEF Steps, VmReady, Running

LEMMA CncAdvanceInStep ==
  ASSUME SegmentsPerReport = 1, InStep, CncAdvance
  PROVE  InStep'
<1> PICK k, d : Steps(k, d)
  BY DEF InStep
<1>1. /\ cncRun # "idle" /\ cncTasks # <<>> /\ \A a \in Axes : lag[a] < 1
      /\ truePos' = After(truePos, Head(cncTasks)) /\ cncTasks' = Tail(cncTasks)
      /\ lag' = [a \in Axes |-> IF Head(cncTasks)[a] # 0 THEN lag[a] + 1 ELSE lag[a]]
      /\ UNCHANGED <<cncRun, cncAxes, fromAxis, toAxis>> /\ AxisSide
  BY DEF CncAdvance, CncOwn
<1>2. UNCHANGED <<state, armed, axisListener, vm, phases, known, initial>>
  BY <1>1, SideKeeps
<1> DEFINE n == Head(cncTasks)
<1>3. /\ cncTasks \in Seq([Axes -> Int]) /\ lag \in [Axes -> Nat] /\ truePos \in [Axes -> Int]
      /\ initial \in [Axes -> Int]
      /\ \A i \in 1 .. Len(cncTasks) : \A a \in Axes : cncTasks[i][a] # 0 => a \in cncAxes
  BY DEF Steps, AxesTyped
<1>4. /\ n \in [Axes -> Int] /\ n = cncTasks[1] /\ Len(cncTasks) \in Nat /\ Len(cncTasks) > 0
      /\ cncTasks' \in Seq([Axes -> Int]) /\ Len(cncTasks') = Len(cncTasks) - 1
      /\ \A i \in 1 .. Len(cncTasks') : cncTasks'[i] = cncTasks[i + 1] /\ i + 1 \in 1 .. Len(cncTasks)
  BY <1>1, <1>3
<1>5. \A a \in Axes : n[a] # 0 => a \in cncAxes
  <2>1. 1 \in 1 .. Len(cncTasks)
    BY <1>4
  <2> QED BY <1>3, <1>4, <2>1
<1>6. \A a \in Axes : lag[a] = 0
  BY <1>1, <1>3
<1>7. truePos' = [a \in Axes |-> truePos[a] + n[a]]
  BY <1>1 DEF After
<1>8. lag' = [a \in Axes |-> IF n[a] # 0 THEN lag[a] + 1 ELSE lag[a]]
  BY <1>1
<1> HIDE DEF n
<1>9. AxesTyped'
  <2>1. truePos' \in [Axes -> Int]
    <3>1. \A a \in Axes : truePos[a] + n[a] \in Int
      BY <1>3, <1>4
    <3> QED BY <1>7, <3>1
  <2>2. lag' \in [Axes -> Nat]
    <3>1. \A a \in Axes : lag[a] \in Nat /\ lag[a] + 1 \in Nat
      BY <1>3
    <3> QED BY <1>8, <3>1
  <2>3. \A i \in 1 .. Len(cncTasks') : \A a \in Axes : cncTasks'[i][a] # 0 => a \in cncAxes
    BY <1>3, <1>4
  <2> QED BY <1>1, <1>2, <1>4, <2>1, <2>2, <2>3 DEF Steps, AxesTyped
<1>10. Caught(k)'
  <2>1. ASSUME NEW a \in Axes PROVE k[Len(fromAxis)][a] = truePos'[a] \/ a \in cncAxes
    <3>1. CASE n[a] # 0
      BY <1>5, <3>1
    <3>2. CASE n[a] = 0
      <4>1. truePos'[a] = truePos[a]
        BY <1>3, <1>7, <3>2
      <4> QED BY <4>1 DEF Steps, Caught
    <3> QED BY <3>1, <3>2
  <2> QED BY <1>1, <2>1 DEF Caught
<1>11. Grown(k, d, k, d)
  BY <1>1, GrownNot
<1>12. state = "null" \/ (Running /\ axisListener # "none" /\ (Moving(k, d) \/ Refused))
  BY <1>1, MovingState
<1>13. ASSUME Running, Moving(k, d) PROVE Moving(k, d)'
  <2>1. /\ Linked(vm.moves) /\ Seen(k) \in [Axes -> Int] /\ Where \in [Axes -> Int]
    BY <1>13, LinkedInRun, KnownAt
  <2>2. /\ toAxis = <<>> /\ cncRun = "moving" /\ \A i \in 1 .. Len(fromAxis) : ~Success(fromAxis[i])
        /\ LeftOf(cncTasks, vm.moves, Advanced)
        /\ Abreast(d[Len(fromAxis)], Seen(k), vm.moves, Advanced, Where, lag)
    BY <1>13 DEF Moving
  <2> DEFINE adv == Advanced
             l == Len(vm.moves)
             t == Len(cncTasks)
  <2>3. l \in Nat /\ t \in Nat /\ t > 0 /\ adv = l - t
    BY <1>4, <2>1 DEF Linked, Advanced
  <2>4. Advanced' = l - (t - 1)
    BY <1>2, <1>4 DEF Advanced
  <2> HIDE DEF adv, l, t
  <2>5. Advanced' = adv + 1 /\ adv # l /\ adv \in Int
    BY <2>3, <2>4
  <2>6. \A b \in Axes : n[b] = vm.moves[adv + 1].to[b] - vm.moves[adv + 1].from[b]
    <3>1. 1 \in 1 .. Len(cncTasks)
      BY <1>4
    <3> QED BY <1>4, <2>2, <3>1 DEF LeftOf, adv
  <2>7. LeftOf(cncTasks', vm.moves, adv + 1)
    <3>1. ASSUME NEW i \in 1 .. Len(cncTasks'), NEW a \in Axes
          PROVE  cncTasks'[i][a] = vm.moves[(adv + 1) + i].to[a] - vm.moves[(adv + 1) + i].from[a]
      <4>1. cncTasks'[i] = cncTasks[i + 1] /\ i + 1 \in 1 .. Len(cncTasks) /\ adv + (i + 1) = (adv + 1) + i
        BY <1>4, <2>5
      <4>2. cncTasks[i + 1][a] = vm.moves[adv + (i + 1)].to[a] - vm.moves[adv + (i + 1)].from[a]
        BY <2>2, <4>1 DEF LeftOf, adv
      <4> QED BY <4>1, <4>2
    <3> QED BY <3>1 DEF LeftOf
  <2>8. Where' \in [Axes -> Int] /\ \A b \in Axes : Where'[b] = Where[b] + n[b]
    <3>1. ASSUME NEW b \in Axes PROVE Where'[b] = Where[b] + n[b] /\ Where'[b] \in Int
      <4>1. Where'[b] = truePos'[b] - initial[b] /\ Where[b] = truePos[b] - initial[b]
        BY <1>2 DEF Where
      <4>2. truePos[b] \in Int /\ initial[b] \in Int /\ n[b] \in Int /\ truePos'[b] = truePos[b] + n[b]
        BY <1>3, <1>4, <1>7
      <4> QED BY <4>1, <4>2
    <3>2. Where' = [b \in Axes |-> Where'[b]]
      BY DEF Where
    <3> QED BY <3>1, <3>2
  <2>9. \A b \in Axes : lag'[b] = 0 => n[b] = 0
    BY <1>6, <1>8
  <2>10. Seen(k)' = Seen(k)
    BY <1>1, <1>2 DEF Seen
  <2>11. Abreast(d[Len(fromAxis)], Seen(k), vm.moves, adv, Where, lag)
    BY <2>2 DEF adv
  <2>12. adv # Len(vm.moves)
    BY <2>5 DEF l
  <2>13. Abreast(d[Len(fromAxis)], Seen(k), vm.moves, adv + 1, Where', lag')
    <3> PICK y : y = Seen(k)
      OBVIOUS
    <3> PICK w : w = Where
      OBVIOUS
    <3> PICK v : v = Where'
      OBVIOUS
    <3> PICK h : h = lag'
      OBVIOUS
    <3> PICK moves : moves = vm.moves
      OBVIOUS
    <3> PICK l1 : l1 = lag
      OBVIOUS
    <3> PICK x : x = d[Len(fromAxis)]
      OBVIOUS
    <3> PICK c : c = adv
      OBVIOUS
    <3> PICK n1 : n1 = n
      OBVIOUS
    <3>1. /\ Linked(moves) /\ y \in [Axes -> Int] /\ w \in [Axes -> Int] /\ v \in [Axes -> Int]
          /\ n1 \in [Axes -> Int]
          /\ Abreast(x, y, moves, c, w, l1) /\ c # Len(moves)
      BY <1>4, <2>1, <2>8, <2>11, <2>12
    <3>2. GoesBy(moves[c + 1], n1, w, v, l1, h)
      <4>1. \A b \in Axes : v[b] = w[b] + n1[b]
        BY <2>8
      <4>2. \A b \in Axes : n1[b] = moves[c + 1].to[b] - moves[c + 1].from[b]
        BY <2>6
      <4>3. \A b \in Axes : l1[b] = 0 /\ (h[b] = 0 => n1[b] = 0)
        BY <1>6, <2>9
      <4>4. v \in [Axes -> Int]
        BY <2>8
      <4> QED BY <3>1, <4>1, <4>2, <4>3, <4>4 DEF GoesBy
    <3>3. Abreast(x, y, moves, c + 1, v, h)
      BY <3>1, <3>2, AbreastAdvances
    <3> QED BY <3>3
  <2>14. (vm.moves)' = vm.moves /\ d[Len(fromAxis)]' = d[Len(fromAxis)]
    BY <1>1, <1>2
  <2> QED BY <1>1, <1>2, <2>2, <2>5, <2>7, <2>10, <2>13, <2>14 DEF Moving
<1>14. Travels(k, d)'
  <2>1. CASE state = "null"
    BY <1>2, <2>1 DEF Travels, Running
  <2>2. CASE Running /\ Refused
    BY <1>1, <1>11, <1>12, <2>2, RefusedStays, TravelsRefused DEF Running
  <2>3. CASE Running /\ Moving(k, d)
    <3>1. state' = "start_moving" /\ ~armed' /\ axisListener' # "none"
      BY <1>2, <1>12, <2>3 DEF Running
    <3> QED BY <1>13, <2>3, <3>1 DEF Travels, Running
  <2> QED BY <1>12, <2>1, <2>2, <2>3
<1>15. /\ IsQueue(toAxis')
       /\ \A i \in 1 .. Len(toAxis') : toAxis'[i].cmd = "move" => IsTask(toAxis'[i].task)
  BY <1>1 DEF Steps, Wires
<1> QED BY <1>1, <1>9, <1>10, <1>11, <1>12, <1>14, <1>15, CncEnds

LEMMA ReportAdds ==
  ASSUME NEW k, NEW d, Steps(k, d), NEW a \in Axes, fromAxis' = Append(fromAxis, Position(a, truePos[a]))
  PROVE  \E g, e :
           /\ Grown(g, e, k, d) /\ Len(fromAxis') = Len(fromAxis) + 1
           /\ fromAxis'[Len(fromAxis')] = Position(a, truePos[a])
           /\ g[Len(fromAxis')] = [k[Len(fromAxis)] EXCEPT ![a] = truePos[a]]
           /\ state = "start_moving" =>
                e[Len(fromAxis')] = Told(d[Len(fromAxis)], FromOrigin(g[Len(fromAxis')], initial), vm.moves)
<1>1. /\ Position(a, truePos[a]).kind = "position" /\ Position(a, truePos[a]).axis = a
      /\ Position(a, truePos[a]).value = truePos[a]
  BY DEF Position
<1>2. IsReport(Position(a, truePos[a]))
  BY <1>1 DEF IsReport, Steps, AxesTyped
<1> PICK g, e : /\ Grown(g, e, k, d) /\ Len(fromAxis') = Len(fromAxis) + 1
                /\ fromAxis'[Len(fromAxis) + 1] = Position(a, truePos[a])
  BY <1>2, GrownByOne
<1> DEFINE n == Len(fromAxis')
<1>3. n \in Len(fromAxis) + 1 .. Len(fromAxis') /\ n - 1 = Len(fromAxis) /\ Len(fromAxis) \in 0 .. Len(fromAxis)
      /\ fromAxis'[n] = Position(a, truePos[a]) /\ fromAxis'[n].kind = "position"
  BY <1>1 DEF Grown
<1> HIDE DEF n
<1>4. AddsTo(g, e, n)
  BY <1>3, GrownAt
<1>5. g[n - 1] = k[Len(fromAxis)] /\ e[n - 1] = d[Len(fromAxis)]
  BY <1>3 DEF Grown
<1>6. g[n] = [k[Len(fromAxis)] EXCEPT ![a] = truePos[a]]
  BY <1>1, <1>3, <1>4, <1>5 DEF AddsTo
<1>7. state = "start_moving" => e[n] = Told(d[Len(fromAxis)], FromOrigin(g[n], initial), vm.moves)
  BY <1>3, <1>4, <1>5 DEF AddsTo, Told
<1> QED BY <1>3, <1>6, <1>7 DEF n

LEMMA ReportMoving ==
  ASSUME NEW k, NEW d, Steps(k, d), Running, Moving(k, d), AxisSide,
         NEW a \in Axes, UNCHANGED <<cncRun, cncAxes, cncTasks, truePos, toAxis>>,
         lag' = [lag EXCEPT ![a] = 0],
         NEW g, NEW e, Grown(g, e, k, d), Len(fromAxis') = Len(fromAxis) + 1,
         fromAxis'[Len(fromAxis')] = Position(a, truePos[a]),
         g[Len(fromAxis')] = [k[Len(fromAxis)] EXCEPT ![a] = truePos[a]],
         e[Len(fromAxis')] = Told(d[Len(fromAxis)], FromOrigin(g[Len(fromAxis')], initial), vm.moves)
  PROVE  Moving(g, e)'
<1>1. UNCHANGED <<state, armed, axisListener, vm, phases, known, initial>>
  BY SideKeeps
<1>2. /\ toAxis = <<>> /\ cncRun = "moving" /\ \A i \in 1 .. Len(fromAxis) : ~Success(fromAxis[i])
      /\ LeftOf(cncTasks, vm.moves, Advanced)
      /\ Abreast(d[Len(fromAxis)], Seen(k), vm.moves, Advanced, Where, lag)
  BY DEF Moving
<1>3. Linked(vm.moves) /\ Seen(k) \in [Axes -> Int] /\ Where \in [Axes -> Int] /\ Len(fromAxis) \in Nat
      /\ k[Len(fromAxis)] \in [Axes -> Int] /\ truePos \in [Axes -> Int] /\ initial \in [Axes -> Int]
      /\ lag \in [Axes -> Nat]
  BY LinkedInRun, KnownAt DEF Steps, AxesTyped
<1>4. Where' = Where /\ Advanced' = Advanced
  BY <1>1 DEF Where, Advanced
<1> PICK z : z = Seen(g)'
  OBVIOUS
<1>5. z = [Seen(k) EXCEPT ![a] = Where[a]] /\ z \in [Axes -> Int]
      /\ z = FromOrigin(g[Len(fromAxis')], initial)
  <2>1. z = FromOrigin(g[Len(fromAxis')], initial)
    BY <1>1 DEF Seen
  <2>2. z = [b \in Axes |-> g[Len(fromAxis')][b] - initial[b]]
    BY <2>1 DEF FromOrigin
  <2>3. ASSUME NEW b \in Axes PROVE z[b] = (IF b = a THEN Where[a] ELSE Seen(k)[b])
    <3>1. z[b] = g[Len(fromAxis')][b] - initial[b]
      BY <2>2
    <3>2. Where[a] = truePos[a] - initial[a] /\ Seen(k)[b] = k[Len(fromAxis)][b] - initial[b]
      BY DEF Where, Seen, FromOrigin
    <3>3. g[Len(fromAxis')][b] = IF b = a THEN truePos[a] ELSE k[Len(fromAxis)][b]
      BY <1>3
    <3> QED BY <3>1, <3>2, <3>3
  <2>4. z = [Seen(k) EXCEPT ![a] = Where[a]]
    <3>1. [Seen(k) EXCEPT ![a] = Where[a]] \in [Axes -> Int]
      BY <1>3
    <3>2. \A b \in Axes : [Seen(k) EXCEPT ![a] = Where[a]][b] = (IF b = a THEN Where[a] ELSE Seen(k)[b])
      BY <1>3
    <3> QED BY <2>2, <2>3, <3>1, <3>2
  <2> QED BY <1>3, <2>1, <2>4
<1>6. Abreast(e[Len(fromAxis')], z, vm.moves, Advanced, Where, lag')
  <2> PICK y : y = Seen(k)
    OBVIOUS
  <2> PICK w : w = Where
    OBVIOUS
  <2> PICK h : h = lag'
    OBVIOUS
  <2> PICK l : l = lag
    OBVIOUS
  <2> PICK moves : moves = vm.moves
    OBVIOUS
  <2> PICK x : x = d[Len(fromAxis)]
    OBVIOUS
  <2> PICK c : c = Advanced
    OBVIOUS
  <2>1. /\ Linked(moves) /\ y \in [Axes -> Int] /\ w \in [Axes -> Int] /\ z \in [Axes -> Int]
        /\ Abreast(x, y, moves, c, w, l) /\ z = [y EXCEPT ![a] = w[a]]
    BY <1>2, <1>3, <1>5
  <2>2. TellsWhere(y, z, w, l, h, a)
    <3>1. \A b \in Axes : b # a => h[b] = l[b]
      BY <1>3
    <3> QED BY <2>1, <3>1 DEF TellsWhere
  <2>3. Abreast(Told(x, z, moves), z, moves, c, w, h)
    BY <2>1, <2>2, AbreastReports
  <2> QED BY <1>5, <2>3
<1>7. \A i \in 1 .. Len(fromAxis') : ~Success(fromAxis'[i])
  <2>1. \A i \in 1 .. Len(fromAxis') : i \in 1 .. Len(fromAxis) \/ i = Len(fromAxis')
    BY <1>3
  <2>2. \A i \in 1 .. Len(fromAxis) : fromAxis'[i] = fromAxis[i]
    BY DEF Grown
  <2>3. ~Success(fromAxis'[Len(fromAxis')])
    BY DEF Success, Position
  <2> QED BY <1>2, <2>1, <2>2, <2>3
<1>8. (vm.moves)' = vm.moves
  BY <1>1
<1> QED BY <1>1, <1>2, <1>4, <1>6, <1>7, <1>8 DEF Moving

LEMMA ReportTrue ==
  ASSUME NEW s \in Nat, TrueFrom(s), Len(fromAxis) \in Nat, Len(fromAxis') = Len(fromAxis) + 1,
         \A i \in 1 .. Len(fromAxis) : fromAxis'[i] = fromAxis[i], s > 0,
         NEW a, fromAxis'[Len(fromAxis')] = Position(a, truePos[a]), truePos' = truePos
  PROVE  TrueFrom(s)'
<1>1. \A i \in s .. Len(fromAxis') : i \in s .. Len(fromAxis) \/ i = Len(fromAxis')
  OBVIOUS
<1>2. \A i \in s .. Len(fromAxis) : i \in 1 .. Len(fromAxis)
  OBVIOUS
<1>3. /\ fromAxis'[Len(fromAxis')].kind = "position"
      /\ fromAxis'[Len(fromAxis')].value = truePos[fromAxis'[Len(fromAxis')].axis]
  BY DEF Position
<1> QED BY <1>1, <1>2, <1>3 DEF TrueFrom

LEMMA ReportArrived ==
  ASSUME NEW k, NEW d, Steps(k, d), Arrived(k, d), AxisSide,
         UNCHANGED <<cncRun, truePos, toAxis>>, NEW a,
         NEW g, NEW e, Grown(g, e, k, d), Len(fromAxis') = Len(fromAxis) + 1,
         fromAxis'[Len(fromAxis')] = Position(a, truePos[a])
  PROVE  Arrived(g, e)'
<1>1. UNCHANGED <<vm, initial>> /\ Where' = Where
  BY SideKeeps, WhereStays
<1>2. PICK s \in 1 .. Len(fromAxis) :
        /\ Success(fromAxis[s]) /\ \A i \in 1 .. s - 1 : ~Success(fromAxis[i])
        /\ d[s] + 1 = Len(vm.moves) /\ k[s] = truePos /\ TrueFrom(s + 1)
  BY DEF Arrived
<1>3. /\ Len(fromAxis) \in Nat /\ \A i \in 1 .. Len(fromAxis) : fromAxis'[i] = fromAxis[i]
      /\ \A i \in 0 .. Len(fromAxis) : g[i] = k[i] /\ e[i] = d[i]
  BY DEF Grown
<1>4. s \in 1 .. Len(fromAxis') /\ s \in 0 .. Len(fromAxis) /\ s + 1 \in Nat /\ s + 1 > 0
      /\ \A i \in 1 .. s - 1 : i \in 1 .. Len(fromAxis)
  BY <1>3
<1>5. TrueFrom(s + 1)'
  <2> PICK t \in Nat : t = s + 1
    BY <1>4
  <2>1. TrueFrom(t)'
    BY <1>2, <1>3, <1>4, ReportTrue
  <2> QED BY <2>1 DEF TrueFrom
<1>6. Success(fromAxis'[s]) /\ \A i \in 1 .. s - 1 : ~Success(fromAxis'[i])
  BY <1>2, <1>3, <1>4
<1>7. e[s] + 1 = Len(vm.moves) /\ g[s] = truePos
  BY <1>2, <1>3, <1>4
<1>8. toAxis' = <<>> /\ cncRun' = "idle" /\ vm'.pos = Where' /\ vm'.moves = vm.moves
  BY <1>1 DEF Arrived
<1> QED BY <1>1, <1>4, <1>5, <1>6, <1>7, <1>8 DEF Arrived

LEMMA CncReportInStep ==
  ASSUME InStep, NEW a \in Axes, CncReport(a)
  PROVE  InStep'
<1> PICK k, d : Steps(k, d)
  BY DEF InStep
<1>1. /\ fromAxis' = Append(fromAxis, Position(a, truePos[a])) /\ lag' = [lag EXCEPT ![a] = 0]
      /\ UNCHANGED <<cncRun, cncAxes, cncTasks, truePos, toAxis>> /\ AxisSide
  BY DEF CncReport, CncOwn
<1>2. UNCHANGED <<state, armed, axisListener, vm, phases, known, initial>> /\ Where' = Where
  BY <1>1, SideKeeps, WhereStays
<1> PICK g, e :
      /\ Grown(g, e, k, d) /\ Len(fromAxis') = Len(fromAxis) + 1
      /\ fromAxis'[Len(fromAxis')] = Position(a, truePos[a])
      /\ g[Len(fromAxis')] = [k[Len(fromAxis)] EXCEPT ![a] = truePos[a]]
      /\ state = "start_moving" =>
           e[Len(fromAxis')] = Told(d[Len(fromAxis)], FromOrigin(g[Len(fromAxis')], initial), vm.moves)
  BY <1>1, ReportAdds
<1>3. /\ Len(fromAxis) \in Nat /\ k[Len(fromAxis)] \in [Axes -> Int]
      /\ \A i \in 1 .. Len(fromAxis) : fromAxis'[i] = fromAxis[i]
  BY KnownAt DEF Grown
<1>4. AxesTyped'
  BY <1>1, <1>2 DEF Steps, AxesTyped
<1>5. Caught(g)'
  BY <1>1, <1>3 DEF Steps, Caught
<1>6. Quiet => Quiet'
  BY <1>1, <1>2, <1>3, ReportTrue DEF Quiet
<1>7. AtStart => AtStart'
  BY <1>2 DEF AtStart, CurrentMove
<1>8. Sent => Sent'
  BY <1>1, <1>2, <1>6, <1>7 DEF Sent, FillCncTask, PhaseCount
<1>9. Travels(g, e)'
  <2>1. CASE ~Running
    <3>1. Travels(k, d) /\ ~Running'
      BY <1>2, <2>1 DEF Steps, Running
    <3> QED BY <1>1, <1>2, <1>6, <1>7, <2>1, <3>1 DEF Travels, Running
  <2>2. CASE Running
    <3>1. axisListener # "none" /\ (Sent \/ Moving(k, d) \/ Arrived(k, d) \/ Refused)
      BY <2>2 DEF Steps, Travels
    <3>2. state = "start_moving" /\ ~armed /\ Running'
      BY <1>2, <2>2 DEF Running
    <3>3. Moving(k, d) => Moving(g, e)'
      BY <1>1, <2>2, <3>2, ReportMoving
    <3>4. Arrived(k, d) => Arrived(g, e)'
      BY <1>1, ReportArrived
    <3>5. Refused => Refused'
      BY RefusedStays
    <3>6. Sent' \/ Moving(g, e)' \/ Arrived(g, e)' \/ Refused'
      BY <1>8, <3>1, <3>3, <3>4, <3>5
    <3>7. state' = "start_moving" /\ ~armed' /\ axisListener' # "none"
      BY <1>2, <3>1, <3>2
    <3> QED BY <3>6, <3>7 DEF Travels, Running
  <2> QED BY <2>1, <2>2
<1>10. /\ IsQueue(toAxis')
       /\ \A i \in 1 .. Len(toAxis') : toAxis'[i].cmd = "move" => IsTask(toAxis'[i].task)
  BY <1>1 DEF Steps, Wires
<1> QED BY <1>1, <1>2, <1>4, <1>5, <1>9, <1>10, CncEnds

-----------------------------------------------------------------------------
(***************************************************************************)
(* The axes come to rest, by themselves or stopped.                        *)
(***************************************************************************)
LEMMA ReadsTyped ==
  ASSUME NEW k, NEW q, Reads(k, q, known), Len(q) \in Nat
  PROVE  k[Len(q)] \in [Axes -> Int]
  BY DEF Reads

(* All axes have told: those of the task now, the others before.           *)
LEMMA FinalsCaught ==
  ASSUME NEW k, NEW d, Steps(k, d), NEW g, NEW e, Grown(g, e, k, d), truePos' = truePos,
         Ended(g, k)
  PROVE  Caught(g)' /\ g[Len(fromAxis')] = truePos
<1>1. \A a \in Axes : g[Len(fromAxis')][a] = truePos[a]
  BY DEF Steps, Caught, Ended
<1>2. g[Len(fromAxis')] \in [Axes -> Int] /\ truePos \in [Axes -> Int]
  BY ReadsTyped DEF Grown, Steps, AxesTyped
<1>3. g[Len(fromAxis')] = truePos
  BY <1>1, <1>2
<1> QED BY <1>1, <1>3 DEF Caught

LEMMA OneStatus ==
  ASSUME NEW s, NEW er
  PROVE  LET t == <<Status(s, er)>>
         IN  /\ Reports(t) /\ Len(t) = 1 /\ t[1] = Status(s, er)
             /\ \A i \in 1 .. Len(t) : t[i].kind = "status"
<1> DEFINE t == <<Status(s, er)>>
<1>1. IsQueue(t) /\ Len(t) = 1 /\ t[1] = Status(s, er)
  BY QueueOfOne
<1> HIDE DEF t
<1>2. \A i \in 1 .. Len(t) : i = 1
  BY <1>1
<1>3. Status(s, er).kind = "status"
  BY DEF Status
<1> QED BY <1>1, <1>2, <1>3 DEF Reports, IsReport, t

LEMMA NoStatus == Reports(<<>>) /\ Len(<<>>) = 0
<1>1. <<>> \in Seq({}) /\ Len(<<>>) = 0 /\ 1 .. 0 = {}
  OBVIOUS
<1> QED BY <1>1 DEF Reports, IsQueue

(* No report moves a list on whose last segment has begun.                 *)
LEMMA LastStays ==
  ASSUME NEW k, NEW d, NEW g, NEW e, Grown(g, e, k, d), state = "start_moving",
         d[Len(fromAxis)] + 1 = Len(vm.moves)
  PROVE  e[Len(fromAxis')] + 1 = Len(vm.moves)
<1>1. /\ Detects(e, g, fromAxis', vm.moves, CurrentMove(vm), initial) /\ IsQueue(fromAxis')
      /\ Len(fromAxis) \in 0 .. Len(fromAxis') /\ Len(fromAxis') \in Len(fromAxis) .. Len(fromAxis')
      /\ e[Len(fromAxis)] + 1 = Len(vm.moves)
  BY DEF Grown, Reports
<1>2. e[Len(fromAxis')] = e[Len(fromAxis)]
  BY <1>1, LastIsNotWatched
<1> QED BY <1>1, <1>2

(* The reports of all axes of the task, and a status that ends the task.   *)
LEMMA CncEndsTask ==
  ASSUME IsFiniteSet(Axes), NEW k, NEW d, Steps(k, d), cncRun # "idle", cncRun' = "idle", CncOwn,
         AxesTyped', truePos' = truePos, NEW t, AtMostOne(t),
         fromAxis' = (fromAxis \o FinalReports(truePos)) \o t,
         Running => \/ Refused
                    \/ Moving(k, d) /\ cncTasks = <<>> /\ Len(t) = 1 /\ Success(t[1])
                    \/ Moving(k, d) /\ Len(t) = 1 /\ Refusal(t[1])
  PROVE  InStep'
<1>1. toAxis' = toAxis /\ AxisSide
  BY DEF CncOwn
<1>2. UNCHANGED <<state, armed, axisListener, vm, phases, known, initial>> /\ Where' = Where
  BY <1>1, SideKeeps, WhereStays
<1> PICK g, e : GrownToEnd(g, e, k, d, t)
  BY GrownByFinals
<1>0. /\ Grown(g, e, k, d) /\ Ended(g, k)
      /\ Len(t) = 1 => Len(fromAxis') > Len(fromAxis) /\ fromAxis'[Len(fromAxis')] = t[1]
      /\ \A i \in Len(fromAxis) + 1 .. Len(fromAxis') - 1 : fromAxis'[i].kind = "position"
  BY DEF GrownToEnd
<1>3. Caught(g)' /\ g[Len(fromAxis')] = truePos
  BY <1>0, FinalsCaught
<1>4. /\ Len(fromAxis) \in Nat /\ Len(fromAxis') \in Nat
      /\ \A i \in 1 .. Len(fromAxis) : fromAxis'[i] = fromAxis[i]
      /\ \A i \in 0 .. Len(fromAxis) : e[i] = d[i]
  BY <1>0 DEF Grown
<1>5. \A i \in Len(fromAxis) + 1 .. Len(fromAxis') - 1 : ~Success(fromAxis'[i])
  BY <1>0 DEF Success
<1>6. Running => state = "start_moving" /\ ~armed /\ axisListener # "none"
  BY DEF Running, Steps, Travels
<1>7. CASE Running /\ Moving(k, d) /\ cncTasks = <<>> /\ Len(t) = 1 /\ Success(t[1])
  <2> PICK s : s = Len(fromAxis')
    OBVIOUS
  <2>1. s \in 1 .. Len(fromAxis') /\ s > Len(fromAxis) /\ Success(fromAxis'[s])
    BY <1>0, <1>4, <1>7
  <2>2. \A i \in 1 .. s - 1 : ~Success(fromAxis'[i])
    <3>1. \A i \in 1 .. s - 1 : i \in 1 .. Len(fromAxis) \/ i \in Len(fromAxis) + 1 .. Len(fromAxis') - 1
      BY <1>4
    <3>2. \A i \in 1 .. Len(fromAxis) : ~Success(fromAxis[i])
      BY <1>7 DEF Moving
    <3> QED BY <1>4, <1>5, <3>1, <3>2
  <2>3. Linked(vm.moves) /\ vm.moves[Len(vm.moves)].to = vm.pos
    BY <1>7, LinkedInRun
  <2>4. /\ toAxis = <<>>
        /\ Abreast(d[Len(fromAxis)], Seen(k), vm.moves, Advanced, Where, lag)
    BY <1>7 DEF Moving
  <2>5. Len(vm.moves) \in Nat /\ Len(vm.moves) > 0 /\ Advanced = Len(vm.moves)
    <3>1. Len(vm.moves) \in Nat /\ Len(vm.moves) > 0
      BY <2>3, FirstMove
    <3>2. Len(cncTasks) = 0
      BY <1>7
    <3> QED BY <3>1, <3>2 DEF Advanced
  <2>6. d[Len(fromAxis)] + 1 = Len(vm.moves) /\ Where = vm.moves[Len(vm.moves)].to
    <3>1. /\ d[Len(fromAxis)] \in 0 .. Len(vm.moves) - 1
          /\ Advanced \in {d[Len(fromAxis)], d[Len(fromAxis)] + 1}
          /\ Where = Target(vm.moves, Advanced)
      BY <2>4 DEF Abreast
    <3> QED BY <2>5, <3>1 DEF Target
  <2>7. e[s] + 1 = Len(vm.moves)
    BY <1>0, <1>6, <1>7, <2>6, LastStays
  <2>8. TrueFrom(s + 1)'
    <3>1. s + 1 .. Len(fromAxis') = {}
      BY <1>4
    <3> QED BY <3>1 DEF TrueFrom
  <2>9. vm'.pos = Where' /\ vm'.moves = vm.moves
    BY <1>2, <2>3, <2>6
  <2>10. Arrived(g, e)'
    BY <1>1, <1>3, <2>1, <2>2, <2>4, <2>7, <2>8, <2>9 DEF Arrived
  <2>11. Travels(g, e)'
    BY <1>2, <1>6, <1>7, <2>10 DEF Travels, Running
  <2> QED BY <1>0, <1>1, <1>2, <1>3, <2>11, CncEnds DEF Steps, Wires
<1>8. CASE Running /\ Moving(k, d) /\ Len(t) = 1 /\ Refusal(t[1])
  <2> PICK s : s = Len(fromAxis')
    OBVIOUS
  <2>1. s \in Len(fromAxis) + 1 .. Len(fromAxis') /\ Refusal(fromAxis'[s])
    BY <1>0, <1>4, <1>8
  <2>2. \A i \in 1 .. Len(fromAxis) : ~Success(fromAxis[i])
    BY <1>8 DEF Moving
  <2>3. Refused'
    BY <1>0, <1>5, <2>1, <2>2, RefusedNow
  <2>4. Travels(g, e)'
    BY <1>1, <1>6, <1>8, <2>3, TravelsRefused
  <2> QED BY <1>0, <1>1, <1>2, <1>3, <2>4, CncEnds DEF Steps, Wires
<1>9. CASE Running /\ Refused
  <2>1. Refused'
    BY <1>0, <1>9, RefusedStays
  <2>4. Travels(g, e)'
    BY <1>1, <1>6, <1>9, <2>1, TravelsRefused
  <2> QED BY <1>0, <1>1, <1>2, <1>3, <2>4, CncEnds DEF Steps, Wires
<1>10. CASE ~Running
  <2>1. state = "null"
    BY <1>10, MovingState
  <2>2. Travels(g, e)'
    BY <1>2, <2>1 DEF Travels, Running
  <2> QED BY <1>0, <1>1, <1>2, <1>3, <2>2, CncEnds DEF Steps, Wires
<1> QED BY <1>7, <1>8, <1>9, <1>10

LEMMA Answered ==
  /\ Success(Status("ready", FALSE)) /\ Refusal(Status("ready", TRUE))
  /\ Refusal(Status("blocked", TRUE))
  BY DEF Success, Refusal, Status

LEMMA AxesStay ==
  ASSUME NEW k, NEW d, Steps(k, d), AxisSide, UNCHANGED <<cncAxes, truePos>>,
         lag' \in [Axes -> Nat], cncTasks' = cncTasks \/ cncTasks' = <<>>
  PROVE  AxesTyped'
<1>1. known' = known /\ initial' = initial
  BY SideKeeps
<1>2. CASE cncTasks' = cncTasks
  BY <1>1, <1>2 DEF Steps, AxesTyped
<1>3. CASE cncTasks' = <<>>
  <2>1. <<>> \in Seq([Axes -> Int]) /\ Len(<<>>) = 0 /\ 1 .. 0 = {}
    OBVIOUS
  <2>2. cncTasks' \in Seq([Axes -> Int]) /\ 1 .. Len(cncTasks') = {}
    BY <1>3, <2>1
  <2> QED BY <1>1, <2>2 DEF Steps, AxesTyped
<1> QED BY <1>2, <1>3

LEMMA CncDoneInStep ==
  ASSUME IsFiniteSet(Axes), InStep, CncDone
  PROVE  InStep'
<1> PICK k, d : Steps(k, d)
  BY DEF InStep
<1>1. /\ cncRun = "moving" /\ cncTasks = <<>> /\ cncRun' = "idle" /\ lag' = Still /\ CncOwn
      /\ fromAxis' = (fromAxis \o FinalReports(truePos)) \o <<Status("ready", FALSE)>>
      /\ UNCHANGED <<cncAxes, cncTasks, truePos>>
  BY DEF CncDone
<1>2. lag' \in [Axes -> Nat] /\ AxisSide
  BY <1>1 DEF Still, CncOwn
<1>3. AxesTyped'
  BY <1>1, <1>2, AxesStay
<1>4. Running => Moving(k, d) \/ Refused
  BY <1>1, MovingState DEF Running
<1> PICK t : t = <<Status("ready", FALSE)>>
  OBVIOUS
<1>5. /\ Reports(t) /\ Len(t) = 1 /\ t[1] = Status("ready", FALSE)
      /\ \A i \in 1 .. Len(t) : t[i].kind = "status"
  BY OneStatus
<1>6. Success(t[1])
  BY <1>5, Answered
<1>7. fromAxis' = (fromAxis \o FinalReports(truePos)) \o t /\ cncRun # "idle" /\ AtMostOne(t)
  BY <1>1, <1>5 DEF AtMostOne
<1> QED BY <1>1, <1>3, <1>4, <1>5, <1>6, <1>7, CncEndsTask

LEMMA CncStoppedInStep ==
  ASSUME IsFiniteSet(Axes), InStep, CncStopped
  PROVE  InStep'
<1> PICK k, d : Steps(k, d)
  BY DEF InStep
<1>1. /\ cncRun \in {"stopping", "coasting"} /\ cncTasks' = <<>> /\ cncRun' = "idle" /\ lag' = Still
      /\ CncOwn /\ UNCHANGED <<cncAxes, truePos>>
      /\ \/ fromAxis' = (fromAxis \o FinalReports(truePos)) \o <<Status("ready", FALSE)>>
         \/ fromAxis' = fromAxis \o FinalReports(truePos)
  BY DEF CncStopped, StopShort
<1>2. lag' \in [Axes -> Nat] /\ AxisSide
  BY <1>1 DEF Still, CncOwn
<1>3. AxesTyped'
  BY <1>1, <1>2, AxesStay
<1>4. Running => Refused
  BY <1>1, MovingState DEF Running, Moving
<1>5. \E t : /\ AtMostOne(t)
             /\ fromAxis' = (fromAxis \o FinalReports(truePos)) \o t
  <2>1. CASE fromAxis' = (fromAxis \o FinalReports(truePos)) \o <<Status("ready", FALSE)>>
    <3>1. LET t == <<Status("ready", FALSE)>>
          IN  Reports(t) /\ Len(t) = 1 /\ \A i \in 1 .. Len(t) : t[i].kind = "status"
      BY OneStatus
    <3> QED BY <2>1, <3>1 DEF AtMostOne
  <2>2. CASE fromAxis' = fromAxis \o FinalReports(truePos)
    <3>1. Reports(FinalReports(truePos)) /\ Reports(fromAxis)
      BY FinalReportsTell DEF Steps, AxesTyped, Wires
    <3>2. Reports(fromAxis \o FinalReports(truePos))
      BY <3>1, ReportsConcat
    <3>3. (fromAxis \o FinalReports(truePos)) \o <<>> = fromAxis \o FinalReports(truePos)
      BY <3>2, ConcatOne DEF Reports
    <3>4. Reports(<<>>) /\ Len(<<>>) = 0 /\ 1 .. Len(<<>>) = {}
      BY NoStatus
    <3> QED BY <2>2, <3>3, <3>4 DEF AtMostOne
  <2> QED BY <1>1, <2>1, <2>2
<1> PICK t : /\ AtMostOne(t)
             /\ fromAxis' = (fromAxis \o FinalReports(truePos)) \o t
  BY <1>5
<1>6. cncRun # "idle"
  BY <1>1
<1> QED BY <1>1, <1>3, <1>4, <1>6, CncEndsTask

LEMMA TwoStatuses ==
  ASSUME NEW r, r = <<Status("ready", TRUE), Status("blocked", TRUE)>>
  PROVE  /\ Reports(r) /\ Len(r) = 2 /\ r[1] = Status("ready", TRUE)
         /\ \A i \in 1 .. Len(r) : r[i].kind = "status"
<1> DEFINE p == Status("ready", TRUE)
           q == Status("blocked", TRUE)
<1>1. r \in Seq({p, q}) /\ Len(r) = 2 /\ r[1] = p /\ r[2] = q
  OBVIOUS
<1>2. \A i \in 1 .. Len(r) : i = 1 \/ i = 2
  BY <1>1
<1>3. p.kind = "status" /\ q.kind = "status"
  BY DEF Status
<1> HIDE DEF p, q
<1>4. /\ IsQueue(r) /\ \A i \in 1 .. Len(r) : IsReport(r[i]) /\ r[i].kind = "status"
  BY <1>1, <1>2, <1>3 DEF IsReport, IsQueue
<1> QED BY <1>1, <1>4 DEF Reports, p

(* Two statuses in a row.                                                  *)
LEMMA GrownByTwo ==
  ASSUME NEW k, NEW d, Steps(k, d), NEW r, Reports(r), Len(r) = 2,
         \A i \in 1 .. Len(r) : r[i].kind = "status", fromAxis' = fromAxis \o r
  PROVE  \E g, e : /\ Grown(g, e, k, d) /\ Len(fromAxis') = Len(fromAxis) + 2
                   /\ fromAxis'[Len(fromAxis) + 1] = r[1]
                   /\ g[Len(fromAxis')] = k[Len(fromAxis)]
<1>1. Reports(fromAxis)
  BY DEF Steps, Wires
<1>2. \E g, e : More(g, e, k, d, fromAxis, r)
  BY <1>1, MoreExists DEF Steps, Watches
<1> PICK g, e : More(g, e, k, d, fromAxis, r)
  BY <1>2
<1>3. /\ Grown(g, e, k, d) /\ Len(fromAxis') = Len(fromAxis) + 2 /\ Len(fromAxis) \in Nat
      /\ \A i \in 1 .. Len(r) : fromAxis'[Len(fromAxis) + i] = r[i]
  BY DEF More, Grown
<1>4. /\ 1 \in 1 .. Len(r) /\ 2 \in 1 .. Len(r)
  OBVIOUS
<1> DEFINE n == Len(fromAxis) + 1
           m == Len(fromAxis) + 2
<1>5. /\ n \in Len(fromAxis) + 1 .. Len(fromAxis') /\ m \in Len(fromAxis) + 1 .. Len(fromAxis')
      /\ n - 1 = Len(fromAxis) /\ m - 1 = n /\ m = Len(fromAxis') /\ Len(fromAxis) \in 0 .. Len(fromAxis)
  BY <1>3
<1>6. fromAxis'[n] = r[1] /\ fromAxis'[m] = r[2]
  BY <1>3, <1>4
<1> HIDE DEF n, m
<1>7. g[n] = g[n - 1] /\ g[m] = g[m - 1]
  BY <1>3, <1>4, <1>5, <1>6, GrownKeeps
<1>8. g[Len(fromAxis)] = k[Len(fromAxis)]
  BY <1>3, <1>5 DEF Grown
<1> QED BY <1>3, <1>5, <1>6, <1>7, <1>8 DEF n

LEMMA CncFailInStep ==
  ASSUME IsFiniteSet(Axes), InStep, CncFail
  PROVE  InStep'
<1> PICK k, d : Steps(k, d)
  BY DEF InStep
<1>1. /\ cncRun = "moving" /\ CncOwn /\ UNCHANGED <<cncAxes, truePos>>
      /\ \/ /\ cncRun' = "idle" /\ cncTasks' = <<>> /\ lag' = Still
            /\ fromAxis' = (fromAxis \o FinalReports(truePos)) \o <<Status("ready", TRUE)>>
         \/ /\ cncRun' = "stopping" /\ UNCHANGED <<cncTasks, lag>>
            /\ fromAxis' = fromAxis \o <<Status("ready", TRUE), Status("blocked", TRUE)>>
  BY DEF CncFail, StopShort
<1>2. toAxis' = toAxis /\ AxisSide
  BY <1>1 DEF CncOwn
<1>3. state = "null" \/ (Running /\ axisListener # "none" /\ (Moving(k, d) \/ Refused))
  BY <1>1, MovingState
<1>4. Running => Moving(k, d) \/ Refused
  BY <1>3 DEF Running
<1>5. CASE cncRun' = "idle"
  <2>1. /\ cncTasks' = <<>> /\ lag' = Still
        /\ fromAxis' = (fromAxis \o FinalReports(truePos)) \o <<Status("ready", TRUE)>>
    BY <1>1, <1>5
  <2>2. AxesTyped'
    <3>1. lag' \in [Axes -> Nat]
      BY <2>1 DEF Still
    <3> QED BY <1>1, <1>2, <2>1, <3>1, AxesStay
  <2> PICK t : t = <<Status("ready", TRUE)>>
    OBVIOUS
  <2>5. /\ Reports(t) /\ Len(t) = 1 /\ t[1] = Status("ready", TRUE)
        /\ \A i \in 1 .. Len(t) : t[i].kind = "status"
    BY OneStatus
  <2>6. Refusal(t[1])
    BY <2>5, Answered
  <2>7. fromAxis' = (fromAxis \o FinalReports(truePos)) \o t /\ cncRun # "idle" /\ AtMostOne(t)
    BY <1>1, <2>1, <2>5 DEF AtMostOne
  <2> QED BY <1>1, <1>4, <1>5, <2>2, <2>5, <2>6, <2>7, CncEndsTask
<1>6. CASE cncRun' = "stopping"
  <2>1. /\ UNCHANGED <<cncTasks, lag>>
        /\ fromAxis' = fromAxis \o <<Status("ready", TRUE), Status("blocked", TRUE)>>
    BY <1>1, <1>6
  <2>2. AxesTyped' /\ Where' = Where
    <3>1. lag' \in [Axes -> Nat]
      BY <2>1 DEF Steps, AxesTyped
    <3> QED BY <1>1, <1>2, <2>1, <3>1, AxesStay, WhereStays, SideKeeps
  <2> PICK r : r = <<Status("ready", TRUE), Status("blocked", TRUE)>>
    OBVIOUS
  <2>3. /\ Reports(r) /\ Len(r) = 2 /\ r[1] = Status("ready", TRUE)
        /\ \A i \in 1 .. Len(r) : r[i].kind = "status"
    BY TwoStatuses
  <2>4. fromAxis' = fromAxis \o r
    BY <2>1
  <2> PICK g, e : /\ Grown(g, e, k, d) /\ Len(fromAxis') = Len(fromAxis) + 2
                  /\ fromAxis'[Len(fromAxis) + 1] = r[1]
                  /\ g[Len(fromAxis')] = k[Len(fromAxis)]
    BY <2>3, <2>4, GrownByTwo
  <2>5. Caught(g)'
    BY <1>1, <1>6 DEF Steps, Caught
  <2>6. Running => Refused'
    <3>1. CASE Refused
      BY <3>1, RefusedStays
    <3>2. CASE Moving(k, d)
      <4> DEFINE s == Len(fromAxis) + 1
      <4>1. s \in Len(fromAxis) + 1 .. Len(fromAxis') /\ Len(fromAxis) + 1 .. s - 1 = {}
        <5>1. Len(fromAxis) \in Nat
          BY KnownAt
        <5> QED BY <5>1
      <4>2. Refusal(fromAxis'[s])
        BY <2>3, Answered
      <4> HIDE DEF s
      <4>3. \A i \in 1 .. Len(fromAxis) : ~Success(fromAxis[i])
        BY <3>2 DEF Moving
      <4>4. Refused'
        BY <4>1, <4>2, <4>3, RefusedNow
      <4> QED BY <4>4
    <3> QED BY <1>4, <3>1, <3>2
  <2>7. Travels(g, e)'
    <3>1. Running \/ state = "null"
      BY <1>3
    <3>2. Running => axisListener # "none"
      BY <1>3 DEF Running
    <3> QED BY <1>2, <2>6, <3>1, <3>2, TravelsRefused
  <2> QED BY <1>2, <2>2, <2>5, <2>7, CncEnds DEF Steps, Wires
<1> QED BY <1>1, <1>5, <1>6

-----------------------------------------------------------------------------
LEMMA StartsInStep == Init => InStep
<1> SUFFICES ASSUME Init PROVE InStep
  OBVIOUS
<1>1. /\ fromAxis = <<Status("ready", FALSE)>> /\ cncRun = "idle" /\ cncAxes = {} /\ cncTasks = <<>>
      /\ truePos = Still /\ lag = Still /\ known = Still /\ initial = Still
      /\ toAxis = <<>> /\ fault = FALSE /\ state = "null" /\ vm = Initialize(<<>>)
      /\ program = NoProgram /\ systemReady = FALSE /\ ictl = "blocked"
  BY DEF Init, AutoInit
<1>2. Still \in [Axes -> Int] /\ Still \in [Axes -> Nat]
  BY DEF Still
<1>3. Reports(fromAxis) /\ Len(fromAxis) = 1 /\ fromAxis[1] = Status("ready", FALSE)
  BY <1>1, OneStatus
<1> PICK k : k = [i \in 0 .. Len(fromAxis) |-> Still]
  OBVIOUS
<1>4. Reads(k, fromAxis, known)
  <2>1. \A i \in 1 .. Len(fromAxis) : i = 1 /\ i - 1 = 0 /\ i \in 0 .. Len(fromAxis) /\ 0 \in 0 .. Len(fromAxis)
    BY <1>3
  <2>2. fromAxis[1].kind # "position"
    BY <1>3 DEF Status
  <2>3. 0 \in 0 .. Len(fromAxis)
    BY <1>3
  <2> QED BY <1>1, <1>2, <2>1, <2>2, <2>3 DEF Reads
<1>5. Wires
  <2>1. IsQueue(<<>>) /\ Len(<<>>) = 0 /\ 1 .. 0 = {}
    BY NoStatus DEF Reports
  <2> QED BY <1>1, <1>3, <2>1 DEF Wires
<1>6. AxesTyped
  <2>1. <<>> \in Seq([Axes -> Int]) /\ Len(<<>>) = 0 /\ 1 .. 0 = {}
    OBVIOUS
  <2> QED BY <1>1, <1>2, <2>1 DEF AxesTyped
<1>7. Caught(k)
  <2>1. Len(fromAxis) \in 0 .. Len(fromAxis)
    BY <1>3
  <2> QED BY <1>1, <2>1 DEF Caught
<1>8. Offered
  BY <1>1 DEF Offered
<1>9. VmReady
  <2>1. IsVm(vm)
    BY <1>1 DEF IsVm, Initialize
  <2> QED BY <1>1, <2>1 DEF VmReady, Initialized
<1>10. Watches(k, k) /\ Travels(k, k)
  BY <1>1 DEF Watches, Travels, Running
<1> QED BY <1>1, <1>4, <1>5, <1>6, <1>7, <1>8, <1>9, <1>10 DEF InStep, Steps

LEMMA NextInStep ==
  ASSUME PatientUser = TRUE, SegmentsPerReport = 1, IsFiniteSet(Axes),
         InStep, ListenersFollowState, ShortLists, [Next]_vars
  PROVE  InStep'
<1>1. CASE User
  BY <1>1, UserInStep
<1>2. CASE Node
  BY <1>2, NodeInStep
<1>3. CASE Cnc
  BY <1>3, CncActivateInStep, CncRejectInStep, CncAdvanceInStep, CncReportInStep, CncDoneInStep,
     CncFailInStep, CncStoppedInStep DEF Cnc
<1>4. CASE Stuff
  BY <1>4, StuffInStep
<1>5. CASE UNCHANGED vars
  <2>1. UNCHANGED <<fromAxis, known, initial, vm, cncVars, toAxis, fault, state, armed, phases,
                    axisListener, program, systemReady, ictl>>
    BY <1>5 DEF vars, autoVars, stateVars, listeners, wires, sent, history
  <2>2. Offered'
    BY <2>1 DEF InStep, Steps, Offered
  <2> QED BY <2>1, <2>2, StateStays DEF Apart
<1> QED BY <1>1, <1>2, <1>3, <1>4, <1>5 DEF Next

(***************************************************************************)
(* The processor never throws, whatever the programs, the axes and the      *)
(* devices' failures, as long as the operator waits for the last run to     *)
(* come to rest, the axes report at least once in a segment and no moving   *)
(* list outgrows the byte that announces it.                               *)
(***************************************************************************)
THEOREM ProcessorNeverThrows ==
  ASSUME PatientUser = TRUE, SegmentsPerReport = 1, IsFiniteSet(Axes)
  PROVE  Spec /\ []ShortLists => []NoFault
<1>1. Init => InStep /\ ListenersFollowState
  BY StartsInStep, ListenersInit
<1>2. InStep /\ ListenersFollowState /\ ShortLists /\ [Next]_vars
        => InStep' /\ ListenersFollowState'
  BY NextInStep, ListenersStep
<1>3. InStep => NoFault
  BY DEF InStep, Steps, NoFault
<1> QED BY <1>1, <1>2, <1>3, PTL DEF Spec

-----------------------------------------------------------------------------
(* The steps' parts that the rest needs only by what they leave alone.     *)
HIDE DEF SwitchTo, StopExecution, SystemReadyMonitor, Throw, Called, ExecuteOperation, stateVars, listeners, wires, sent, history

-----------------------------------------------------------------------------
(***************************************************************************)
(* Where the program puts its phases.                                      *)
(***************************************************************************)
LEMMA ProgramPositionIs ==
  ASSUME NEW prog, NEW trace
  PROVE  /\ ProgramPosition(prog, trace, 0) = Still
         /\ \A n \in Nat : ProgramPosition(prog, trace, n + 1) =
                             Led(Phase(prog, trace[n + 1]), ProgramPosition(prog, trace, n))
<1> DEFINE Step(k, p) == Led(Phase(prog, trace[k]), p)
           Good(g, n) == g[0] = Still /\ \A i \in 1 .. n : g[i] = Step(i, g[i - 1])
           T == {n \in Nat : \E g : Good(g, n)}
           f == [n \in Nat |-> (CHOOSE g : Good(g, n))[n]]
           Body(h) == [k \in Nat |-> IF k = 0 THEN Still ELSE Step(k, h[k - 1])]
<1>1. Nat \subseteq T
  <2> HIDE DEF Step
  <2>1. 0 \in T
    <3>1. Good([i \in {0} |-> Still], 0)
      OBVIOUS
    <3> QED BY <3>1
  <2>2. ASSUME NEW n \in Nat, n \in T PROVE n + 1 \in T
    <3>1. PICK g : Good(g, n)
      BY <2>2
    <3> DEFINE h == [i \in 0 .. n + 1 |-> IF i = n + 1 THEN Step(n + 1, g[n]) ELSE g[i]]
    <3>2. h[0] = Still
      BY <3>1
    <3>3. ASSUME NEW i \in 1 .. n + 1 PROVE h[i] = Step(i, h[i - 1])
      <4>1. CASE i = n + 1
        <5>1. h[i] = Step(n + 1, g[n]) /\ n \in 0 .. n + 1 /\ n # n + 1 /\ i - 1 = n
          BY <4>1
        <5>2. h[i - 1] = g[n]
          BY <5>1
        <5> QED BY <4>1, <5>1, <5>2
      <4>2. CASE i # n + 1
        <5>1. i \in 1 .. n /\ i \in 0 .. n + 1 /\ i - 1 \in 0 .. n + 1 /\ i - 1 # n + 1
          BY <4>2
        <5>2. h[i] = g[i] /\ h[i - 1] = g[i - 1]
          BY <4>2, <5>1
        <5> QED BY <3>1, <5>1, <5>2
      <4> QED BY <4>1, <4>2
    <3> HIDE DEF h
    <3>4. Good(h, n + 1)
      BY <3>2, <3>3
    <3> QED BY <3>4
  <2> HIDE DEF T
  <2> QED BY <2>1, <2>2, NumberInduction
<1>2. ASSUME NEW n \in Nat, NEW m \in Nat, n <= m, NEW g, NEW h, Good(g, n), Good(h, m)
      PROVE  g[n] = h[n]
  <2> DEFINE S == {i \in 0 .. n : g[i] = h[i]}
  <2> HIDE DEF Step
  <2>1. 0 \in S
    BY <1>2
  <2>2. ASSUME NEW i \in 0 .. n - 1, i \in S PROVE i + 1 \in S
    <3>1. i + 1 \in 1 .. n /\ i + 1 \in 1 .. m /\ (i + 1) - 1 = i /\ i + 1 \in 0 .. n
      BY <1>2
    <3>2. g[i + 1] = Step(i + 1, g[i]) /\ h[i + 1] = Step(i + 1, h[i])
      BY <1>2, <3>1
    <3> QED BY <2>2, <3>1, <3>2
  <2>3. 0 .. n \subseteq S
    <3> HIDE DEF S
    <3> QED BY <2>1, <2>2, IndexInduction
  <2> QED BY <2>3
<1>3. f = Body(f)
  <2> HIDE DEF Step
  <2>1. ASSUME NEW n \in Nat PROVE f[n] = (CHOOSE g : Good(g, n))[n] /\ Good(CHOOSE g : Good(g, n), n)
    <3>1. \E g : Good(g, n)
      BY <1>1
    <3> QED BY <3>1
  <2>2. ASSUME NEW k \in Nat PROVE f[k] = IF k = 0 THEN Still ELSE Step(k, f[k - 1])
    <3> DEFINE g == CHOOSE h : Good(h, k)
    <3>1. f[k] = g[k] /\ Good(g, k)
      BY <2>1
    <3> HIDE DEF g, f
    <3>2. CASE k = 0
      BY <3>1, <3>2
    <3>3. CASE k # 0
      <4>1. k \in 1 .. k /\ k - 1 \in Nat /\ k - 1 <= k
        BY <3>3
      <4>2. PICK h : h = CHOOSE e : Good(e, k - 1)
        OBVIOUS
      <4>3. f[k - 1] = h[k - 1] /\ Good(h, k - 1)
        BY <2>1, <4>1, <4>2
      <4>4. h[k - 1] = g[k - 1]
        <5> HIDE DEF Good
        <5> QED BY <1>2, <3>1, <4>1, <4>3
      <4> QED BY <3>1, <3>3, <4>1, <4>3, <4>4
    <3> QED BY <3>2, <3>3
  <2>3. f = [n \in Nat |-> f[n]]
    OBVIOUS
  <2> HIDE DEF f
  <2> QED BY <2>2, <2>3
<1> DEFINE P == CHOOSE h : h = Body(h)
<1>4. P = Body(P)
  <2> HIDE DEF f, Body
  <2> QED BY <1>3
<1>5. \A n \in Nat : ProgramPosition(prog, trace, n) = P[n]
  <2> DEFINE Q == CHOOSE h : h = [k \in Nat |-> IF k = 0 THEN Still
                       ELSE LET op == Phase(prog, trace[k])
                            IN  IF op.kind = "operation" THEN NextPosition(op, h[k - 1]) ELSE h[k - 1]]
  <2>1. \A n \in Nat : ProgramPosition(prog, trace, n) = Q[n]
    BY DEF ProgramPosition
  <2>2. Q = P
    BY DEF Led
  <2> HIDE DEF P, Q
  <2> QED BY <2>1, <2>2
<1>6. P[0] = Still
  <2> HIDE DEF P, Step
  <2> QED BY <1>4
<1>7. ASSUME NEW n \in Nat PROVE P[n + 1] = Step(n + 1, P[n])
  <2> HIDE DEF P, Step
  <2>1. n + 1 \in Nat /\ n + 1 # 0 /\ (n + 1) - 1 = n
    OBVIOUS
  <2> QED BY <1>4, <2>1
<1> HIDE DEF P
<1> QED BY <1>5, <1>6, <1>7

(* Only what was executed before counts.                                   *)
LEMMA SamePosition ==
  ASSUME NEW prog, NEW t, NEW u, NEW n \in Nat, \A i \in 1 .. n : t[i] = u[i]
  PROVE  \A i \in 0 .. n : ProgramPosition(prog, t, i) = ProgramPosition(prog, u, i)
<1> DEFINE S == {i \in 0 .. n : ProgramPosition(prog, t, i) = ProgramPosition(prog, u, i)}
<1>1. 0 \in S
  BY ProgramPositionIs
<1>2. ASSUME NEW i \in 0 .. n - 1, i \in S PROVE i + 1 \in S
  <2>1. i \in Nat /\ i + 1 \in 1 .. n /\ i + 1 \in 0 .. n
    OBVIOUS
  <2>2. t[i + 1] = u[i + 1]
    BY <2>1
  <2>3. /\ ProgramPosition(prog, t, i + 1) = Led(Phase(prog, t[i + 1]), ProgramPosition(prog, t, i))
        /\ ProgramPosition(prog, u, i + 1) = Led(Phase(prog, u[i + 1]), ProgramPosition(prog, u, i))
    BY <2>1, ProgramPositionIs
  <2> QED BY <1>2, <2>1, <2>2, <2>3
<1>3. 0 .. n \subseteq S
  <2> HIDE DEF S
  <2> QED BY <1>1, <1>2, IndexInduction
<1> QED BY <1>3
-----------------------------------------------------------------------------
(***************************************************************************)
(* The way of an axis along a list of moves.  The last move tells its       *)
(* direction: an axis that moves before moves on in the same one.          *)
(***************************************************************************)
IsPath(moves) ==
  /\ moves \in Seq(Move) /\ moves # <<>>
  /\ \A i \in 1 .. Len(moves) : \E a \in Axes : MovesAxis(moves[i], a)
  /\ \A i \in 1 .. Len(moves) - 1 :
        moves[i + 1].from = moves[i].to /\ KeepsWay(moves[i], moves[i + 1])

Behind(moves, a, v, w) ==
  LET m == moves[Len(moves)]
  IN  /\ m.from[a] < m.to[a] => v <= w
      /\ m.from[a] > m.to[a] => v >= w
      /\ m.from[a] = m.to[a] => v = w

LEMMA DirectionsAre ==
  ASSUME NEW m \in Move, NEW n \in Move, KeepsWay(m, n), NEW a \in Axes, MovesAxis(m, a)
  PROVE  /\ MovesAxis(n, a)
         /\ m.from[a] < m.to[a] <=> n.from[a] < n.to[a]
<1>1. /\ MovesAxis(n, a) /\ Sign(m.to[a] - m.from[a]) = Sign(n.to[a] - n.from[a])
  BY DEF KeepsWay, Direction
<1>2. /\ m.from[a] \in Int /\ m.to[a] \in Int /\ n.from[a] \in Int /\ n.to[a] \in Int
  BY DEF Move
<1> QED BY <1>1, <1>2 DEF Sign, MovesAxis

LEMMA PathEnds ==
  ASSUME NEW moves, IsPath(moves)
  PROVE  /\ Len(moves) \in Nat \ {0}
         /\ \A i \in 1 .. Len(moves) : moves[i] \in Move
         /\ \A i \in 0 .. Len(moves) : Target(moves, i) \in [Axes -> Int]
         /\ \A i \in 1 .. Len(moves) : Target(moves, i) = moves[i].to /\ Target(moves, i - 1) = moves[i].from
<1>1. Len(moves) \in Nat \ {0} /\ \A i \in 1 .. Len(moves) : moves[i] \in Move
  BY DEF IsPath
<1>2. \A i \in 1 .. Len(moves) : moves[i].from \in [Axes -> Int] /\ moves[i].to \in [Axes -> Int]
  BY <1>1 DEF Move
<1>3. ASSUME NEW i \in 1 .. Len(moves)
      PROVE  Target(moves, i) = moves[i].to /\ Target(moves, i - 1) = moves[i].from
  <2>1. i # 0
    BY <1>1
  <2>2. CASE i = 1
    BY <2>1, <2>2 DEF Target
  <2>3. CASE i # 1
    <3>1. i - 1 \in 1 .. Len(moves) - 1 /\ i - 1 # 0 /\ (i - 1) + 1 = i
      BY <1>1, <2>3
    <3>2. moves[i].from = moves[i - 1].to
      BY <3>1 DEF IsPath
    <3> QED BY <2>1, <3>1, <3>2 DEF Target
  <2> QED BY <2>2, <2>3
<1>4. ASSUME NEW i \in 0 .. Len(moves) PROVE Target(moves, i) \in [Axes -> Int]
  <2>1. i = 0 \/ i \in 1 .. Len(moves)
    BY <1>1
  <2>2. 1 \in 1 .. Len(moves)
    BY <1>1
  <2> QED BY <1>2, <2>1, <2>2 DEF Target
<1> QED BY <1>1, <1>3, <1>4

LEMMA LikeTheLast ==
  ASSUME NEW moves, IsPath(moves), NEW a \in Axes, NEW i \in 1 .. Len(moves), MovesAxis(moves[i], a)
  PROVE  LET m == moves[Len(moves)]
         IN  MovesAxis(m, a) /\ (moves[i].from[a] < moves[i].to[a] <=> m.from[a] < m.to[a])
<1> DEFINE n == Len(moves)
           Like(j) == /\ MovesAxis(moves[j], a)
                      /\ moves[i].from[a] < moves[i].to[a] <=> moves[j].from[a] < moves[j].to[a]
           S == {k \in 0 .. n - i : Like(i + k)}
<1>1. n \in Nat /\ \A j \in 1 .. n : moves[j] \in Move
  BY PathEnds
<1> HIDE DEF n
<1>0. i \in 1 .. n /\ i \in Nat /\ n - i \in Nat
  BY <1>1 DEF n
<1>2. 0 \in S
  BY <1>0
<1>3. ASSUME NEW k \in 0 .. (n - i) - 1, k \in S PROVE k + 1 \in S
  <2> DEFINE j == i + k
  <2>1. j \in 1 .. n /\ j + 1 \in 1 .. n /\ j \in 1 .. n - 1 /\ i + (k + 1) = j + 1 /\ k + 1 \in 0 .. n - i
    BY <1>0, <1>1
  <2>2. Like(j)
    BY <1>3
  <2> HIDE DEF j
  <2>3. KeepsWay(moves[j], moves[j + 1])
    BY <2>1 DEF IsPath, n
  <2>4. moves[j] \in Move /\ moves[j + 1] \in Move
    BY <1>1, <2>1
  <2>5. Like(j + 1)
    BY <2>2, <2>3, <2>4, DirectionsAre
  <2>6. Like(i + (k + 1))
    BY <2>1, <2>5
  <2> HIDE DEF Like
  <2> QED BY <2>1, <2>6
<1>4. 0 .. n - i \subseteq S
  <2> HIDE DEF S
  <2> QED BY <1>0, <1>2, <1>3, IndexInduction
<1>5. n - i \in 0 .. n - i /\ i + (n - i) = n
  BY <1>0, <1>1
<1>6. Like(n)
  <2> HIDE DEF Like
  <2> QED BY <1>4, <1>5
<1> QED BY <1>6 DEF n

LEMMA BehindIs ==
  ASSUME NEW moves, IsPath(moves), NEW a \in Axes
  PROVE  /\ \A v \in Int : Behind(moves, a, v, v)
         /\ \A u, v, w \in Int : Behind(moves, a, u, v) /\ Behind(moves, a, v, w) => Behind(moves, a, u, w)
         /\ \A v, w \in Int : Behind(moves, a, v, w) /\ Behind(moves, a, w, v) => v = w
<1>1. moves[Len(moves)] \in Move
  <2>1. Len(moves) \in 1 .. Len(moves)
    BY PathEnds
  <2> QED BY <2>1, PathEnds
<1>2. moves[Len(moves)].from[a] \in Int /\ moves[Len(moves)].to[a] \in Int
  BY <1>1 DEF Move
<1> DEFINE f == moves[Len(moves)].from[a]
           t == moves[Len(moves)].to[a]
<1>3. \A v, w : Behind(moves, a, v, w) <=>
         (f < t => v <= w) /\ (f > t => v >= w) /\ (f = t => v = w)
  BY DEF Behind
<1>4. f \in Int /\ t \in Int
  BY <1>2
<1> HIDE DEF f, t
<1> QED BY <1>3, <1>4

(* From the target of one move to that of the next one.                    *)
LEMMA OneMove ==
  ASSUME NEW moves, IsPath(moves), NEW a \in Axes, NEW i \in 1 .. Len(moves)
  PROVE  LET from == Target(moves, i - 1)[a]
             to   == Target(moves, i)[a]
         IN  /\ Behind(moves, a, from, to)
             /\ IF MovesAxis(moves[i], a) THEN ~Behind(moves, a, to, from) ELSE from = to
<1> DEFINE m == moves[Len(moves)]
           f == moves[i].from[a]
           t == moves[i].to[a]
<1>1. Target(moves, i)[a] = t /\ Target(moves, i - 1)[a] = f
  BY PathEnds
<1>2. moves[i] \in Move /\ m \in Move
  <2>1. Len(moves) \in 1 .. Len(moves)
    BY PathEnds
  <2> QED BY <2>1, PathEnds
<1>3. f \in Int /\ t \in Int /\ m.from[a] \in Int /\ m.to[a] \in Int
  BY <1>2 DEF Move
<1>4. MovesAxis(moves[i], a) <=> f # t
  BY DEF MovesAxis
<1>5. f # t => m.from[a] # m.to[a] /\ (f < t <=> m.from[a] < m.to[a])
  BY <1>4, LikeTheLast DEF MovesAxis
<1> HIDE DEF f, t
<1>6. Behind(moves, a, f, t) /\ (f # t => ~Behind(moves, a, t, f))
  BY <1>3, <1>5 DEF Behind
<1> QED BY <1>1, <1>4, <1>6

LEMMA Onward ==
  ASSUME NEW moves, IsPath(moves), NEW a \in Axes, NEW i \in 0 .. Len(moves), NEW j \in 0 .. Len(moves), i <= j
  PROVE  Behind(moves, a, Target(moves, i)[a], Target(moves, j)[a])
<1> DEFINE n == Len(moves)
           p(k) == Target(moves, k)[a]
           S == {k \in 0 .. n - i : Behind(moves, a, p(i), p(i + k))}
<1>1. n \in Nat /\ \A k \in 0 .. n : p(k) \in Int
  BY PathEnds
<1>a. \A k \in 1 .. n : Behind(moves, a, p(k - 1), p(k))
  BY OneMove
<1>b. /\ \A v \in Int : Behind(moves, a, v, v)
      /\ \A u, v, w \in Int : Behind(moves, a, u, v) /\ Behind(moves, a, v, w) => Behind(moves, a, u, w)
  BY BehindIs
<1>0. i \in 0 .. n /\ j \in 0 .. n
  OBVIOUS
<1> HIDE DEF n, p
<1>2. 0 \in S
  <2>1. i + 0 = i /\ 0 \in 0 .. n - i
    BY <1>0, <1>1
  <2> QED BY <1>0, <1>1, <1>b, <2>1
<1>3. ASSUME NEW k \in 0 .. (n - i) - 1, k \in S PROVE k + 1 \in S
  <2> DEFINE m == i + k
  <2>1. m \in 0 .. n /\ m + 1 \in 0 .. n /\ m + 1 \in 1 .. n /\ (m + 1) - 1 = m /\ i + (k + 1) = m + 1
        /\ k + 1 \in 0 .. n - i
    BY <1>0, <1>1
  <2>2. Behind(moves, a, p(i), p(m))
    BY <1>3
  <2> HIDE DEF m
  <2>3. Behind(moves, a, p(m), p(m + 1))
    BY <1>a, <2>1
  <2>4. Behind(moves, a, p(i), p(i + (k + 1)))
    BY <1>0, <1>1, <1>b, <2>1, <2>2, <2>3
  <2> QED BY <2>1, <2>4
<1>4. 0 .. n - i \subseteq S
  <2>1. n - i \in Nat
    BY <1>0, <1>1
  <2> HIDE DEF S
  <2> QED BY <1>2, <1>3, <2>1, IndexInduction
<1>5. j - i \in 0 .. n - i /\ i + (j - i) = j
  BY <1>0, <1>1
<1>6. Behind(moves, a, p(i), p(j))
  <2>1. j - i \in S
    BY <1>4, <1>5
  <2> QED BY <1>5, <2>1
<1> QED BY <1>6 DEF p

(* Has the axes' known position passed the target of a move?               *)
LEMMA ReachedIs ==
  ASSUME NEW moves, IsPath(moves), NEW i \in 1 .. Len(moves), NEW pos \in [Axes -> Int]
  PROVE  Reached(moves[i], pos) <=>
            \A a \in Axes : MovesAxis(moves[i], a) => Behind(moves, a, Target(moves, i)[a], pos[a])
<1> DEFINE m == moves[Len(moves)]
           s == moves[i]
<1>1. s \in Move /\ m \in Move /\ Target(moves, i) = s.to
  <2>1. Len(moves) \in 1 .. Len(moves)
    BY PathEnds
  <2> QED BY <2>1, PathEnds
<1>2. ASSUME NEW a \in Axes
      PROVE  ((s.from[a] < s.to[a] => pos[a] >= s.to[a]) /\ (s.from[a] > s.to[a] => pos[a] <= s.to[a]))
             <=> (MovesAxis(s, a) => Behind(moves, a, s.to[a], pos[a]))
  <2>1. s.from[a] \in Int /\ s.to[a] \in Int /\ m.from[a] \in Int /\ m.to[a] \in Int /\ pos[a] \in Int
    BY <1>1 DEF Move
  <2>2. MovesAxis(s, a) => MovesAxis(m, a) /\ (s.from[a] < s.to[a] <=> m.from[a] < m.to[a])
    BY LikeTheLast
  <2>3. /\ MovesAxis(s, a) <=> s.from[a] # s.to[a]
        /\ MovesAxis(m, a) <=> m.from[a] # m.to[a]
    BY DEF MovesAxis
  <2>4. Behind(moves, a, s.to[a], pos[a]) <=>
          /\ m.from[a] < m.to[a] => s.to[a] <= pos[a]
          /\ m.from[a] > m.to[a] => s.to[a] >= pos[a]
          /\ m.from[a] = m.to[a] => s.to[a] = pos[a]
    BY DEF Behind
  <2> HIDE DEF s, m
  <2> QED BY <2>1, <2>2, <2>3, <2>4
<1> HIDE DEF s
<1>3. Reached(s, pos) <=> \A a \in Axes : MovesAxis(s, a) => Behind(moves, a, s.to[a], pos[a])
  BY <1>2 DEF Reached
<1> QED BY <1>1, <1>3 DEF s
-----------------------------------------------------------------------------
(***************************************************************************)
(* Why phases are executed in their places.  The run so far, and what the   *)
(* processor holds of the rest.                                            *)
(***************************************************************************)
At(n) == ProgramPosition(phases, PhasesExecuted, n)
Done == At(Len(executed))

IsHistory ==
  /\ IsQueue(executed)
  /\ \A i \in 1 .. Len(executed) : \E j \in {i - 1, i} : executed[i].at = At(j)

IsPlan ==
  /\ IsPath(vm.moves)
  /\ \A i \in CurrentMove(vm) + 1 .. Len(vm.moves) :
        IsMove(phases, vm.ops[Len(vm.moves) + 2 - i], vm.moves[i])
  /\ Done = Target(vm.moves, IF armed THEN 0 ELSE CurrentMove(vm) + 1)

Rests ==
  /\ state \in {"wait_stuff_activated", "initialize"} => executed = <<>>
  /\ Initialized /\ state # "start_moving" => vm.pos = Done
  /\ state = "execute_operation" => Led(Phase(phases, OpPhaseId(vm)), Done) = Done
  /\ state = "init_pause" => Led(Phase(phases, vm.phase_id), Done) = Done

Over ==
  outcome = "done" => cncRun = "idle" /\ toAxis \in {<<>>, <<Deactivation>>} /\ Where = Done

(* While the axes move at most one report of each is under way.            *)
OfAxis(m, a) == m.kind = "position" /\ m.axis = a
Waiting(a) == \E i \in 1 .. Len(fromAxis) : OfAxis(fromAxis[i], a)

Once ==
  state # "null" =>
    /\ cncRun # "coasting"
    /\ \A i, j \in 1 .. Len(fromAxis) : \A a \in Axes :
         i < j /\ OfAxis(fromAxis[i], a) /\ OfAxis(fromAxis[j], a) =>
           /\ cncRun = "idle"
           /\ \E s \in j + 1 .. Len(fromAxis) : fromAxis[s].kind = "status"

(***************************************************************************)
(* The axes are at the end of segment x of the list.  Nobody was told of    *)
(* more; an axis whose report is due was told to be one segment back.      *)
(***************************************************************************)
Place(x, a) == Target(vm.moves, x)[a]
ToldAt(x, a) == x - lag[a]
HeardAt(a) == known[a] - initial[a]
TellsOf(i) == fromAxis[i].value - initial[fromAxis[i].axis]
Back(n) == IF n = 0 THEN 0 ELSE n - 1

Within(x) ==
  \A a \in Axes :
    /\ lag[a] \in {0, 1} /\ lag[a] <= x
    /\ Behind(vm.moves, a, HeardAt(a), Place(ToldAt(x, a), a))
    /\ \A i \in 1 .. Len(fromAxis) :
         OfAxis(fromAxis[i], a) => Behind(vm.moves, a, TellsOf(i), Place(ToldAt(x, a), a))

(***************************************************************************)
(* While they move the processor follows them: a segment it has not         *)
(* detected is one some axis has not told, and it is two segments back at   *)
(* most, when a report that is under way keeps the axes from going on.     *)
(***************************************************************************)
Trails(x, a) ==
  Behind(vm.moves, a, Place(IF Waiting(a) THEN Back(ToldAt(x, a)) ELSE ToldAt(x, a), a), HeardAt(a))

TellsPlace(i, x, a) == OfAxis(fromAxis[i], a) => TellsOf(i) = Place(ToldAt(x, a), a)

Follows(x) ==
  /\ x = Advanced /\ LeftOf(cncTasks, vm.moves, x)
  /\ \A a \in Axes : Trails(x, a)
  /\ \A i \in 1 .. Len(fromAxis) : \A a \in Axes : TellsPlace(i, x, a)
  /\ x = CurrentMove(vm) + 2 => \E a \in Axes : Waiting(a) /\ lag[a] = 1
  /\ CurrentMove(vm) + 1 # Len(vm.moves) =>
       ~Reached(vm.moves[CurrentMove(vm) + 1], FromOrigin(known, initial))

Near(x) ==
  /\ x \in 0 .. Len(vm.moves) /\ Where = Target(vm.moves, x) /\ x <= CurrentMove(vm) + 2
  /\ Within(x)
  /\ cncRun # "idle" => Follows(x)

Nearby == Running => (toAxis = <<>> \/ Sent) /\ \E x : Near(x)

PlaceInv ==
  /\ cncRun = "idle" => lag = Still
  /\ IsHistory /\ Rests /\ Over /\ Once
  /\ state = "start_moving" => IsPlan
  /\ Nearby

-----------------------------------------------------------------------------
LEMMA Typed ==
  ASSUME InStep
  PROVE  /\ known \in [Axes -> Int] /\ truePos \in [Axes -> Int] /\ initial \in [Axes -> Int]
         /\ lag \in [Axes -> Nat] /\ Reports(fromAxis) /\ Len(fromAxis) \in Nat
         /\ \A i \in 1 .. Len(fromAxis) : IsReport(fromAxis[i])
         /\ cncTasks \in Seq([Axes -> Int]) /\ Len(cncTasks) \in Nat
         /\ IsQueue(toAxis)
         /\ state = "start_moving" =>
              /\ Linked(vm.moves) /\ vm.moves[Len(vm.moves)].to = vm.pos
              /\ Len(vm.ops) \in 2 .. Len(vm.moves) + 1 /\ Len(vm.moves) \in Nat \ {0}
              /\ CurrentMove(vm) \in 0 .. Len(vm.moves) - 1
              /\ vm.ops \in Seq(Nat) /\ Len(vm.ops) = Len(vm.moves) + 1 - CurrentMove(vm)
<1>1. PICK k, d : Steps(k, d)
  BY DEF InStep
<1>2. Wires /\ AxesTyped /\ VmReady
  BY <1>1 DEF Steps
<1>3. Reports(fromAxis) /\ Len(fromAxis) \in Nat
  <2>1. Reports(fromAxis)
    BY <1>2 DEF Wires
  <2> QED BY <2>1, EmptyQueue DEF Reports
<1>4. cncTasks \in Seq([Axes -> Int]) /\ Len(cncTasks) \in Nat
  BY <1>2 DEF AxesTyped
<1>5. ASSUME state = "start_moving"
      PROVE  /\ Linked(vm.moves) /\ vm.moves[Len(vm.moves)].to = vm.pos
             /\ Len(vm.ops) \in 2 .. Len(vm.moves) + 1 /\ Len(vm.moves) \in Nat \ {0}
             /\ CurrentMove(vm) \in 0 .. Len(vm.moves) - 1
             /\ vm.ops \in Seq(Nat) /\ Len(vm.ops) = Len(vm.moves) + 1 - CurrentMove(vm)
  <2>1. Linked(vm.moves) /\ vm.moves[Len(vm.moves)].to = vm.pos /\ Len(vm.ops) \in 2 .. Len(vm.moves) + 1
        /\ IsPrepared(phases, vm)
    BY <1>2, <1>5 DEF VmReady, Initialized
  <2>2. Len(vm.moves) \in Nat \ {0}
    BY <2>1 DEF Linked
  <2>3. vm.ops \in Seq(Nat)
    BY <2>1 DEF IsPrepared
  <2> DEFINE n == Len(vm.moves)
             o == Len(vm.ops)
  <2> HIDE DEF n, o
  <2>4. CurrentMove(vm) = n + 1 - o
    BY DEF CurrentMove, n, o
  <2>5. n \in Nat \ {0} /\ o \in 2 .. n + 1
    BY <2>1, <2>2 DEF n, o
  <2>6. CurrentMove(vm) \in 0 .. n - 1 /\ o = n + 1 - CurrentMove(vm)
    BY <2>4, <2>5
  <2> QED BY <2>1, <2>2, <2>3, <2>6 DEF n, o
<1> QED BY <1>2, <1>3, <1>4, <1>5 DEF Wires, AxesTyped, Reports

LEMMA AtRestQuiet ==
  ASSUME InStep, state # "null", ~Running
  PROVE  /\ toAxis = <<>> /\ Quiet
         /\ \A i \in 1 .. Len(fromAxis) :
              fromAxis[i].kind = "position" /\ fromAxis[i].value = truePos[fromAxis[i].axis]
  BY DEF InStep, Steps, Travels, Quiet, TrueFrom

LEMMA SameHistory ==
  ASSUME executed' = executed, phases' = phases
  PROVE  /\ Done' = Done /\ \A n : At(n)' = At(n)
         /\ IsHistory => IsHistory'
<1>1. PhasesExecuted' = PhasesExecuted
  BY DEF PhasesExecuted
<1>2. (\A n : At(n)' = At(n)) /\ Done' = Done
  BY <1>1 DEF At, Done
<1>3. ASSUME IsHistory PROVE IsHistory'
  <2>1. IsQueue(executed)' /\ \A i \in 1 .. Len(executed) : \E j \in {i - 1, i} : executed[i].at = At(j)
    BY <1>3 DEF IsHistory, IsQueue
  <2> QED BY <1>2, <2>1 DEF IsHistory
<1> QED BY <1>2, <1>3

(* One phase more is executed, where the axes are.                         *)
LEMMA Executes ==
  ASSUME IsHistory, phases' = phases, NEW p, NEW w, executed' = Append(executed, [phase |-> p, at |-> w]),
         w \in {Done, Led(Phase(phases, p), Done)}
  PROVE  IsHistory' /\ Done' = Led(Phase(phases, p), Done) /\ executed' # <<>>
<1>0. PICK n : n = Len(executed)
  OBVIOUS
<1> DEFINE e == [phase |-> p, at |-> w]
           t == PhasesExecuted
           u == [i \in DOMAIN executed' |-> executed'[i].phase]
<1>1. /\ IsQueue(executed') /\ executed' # <<>> /\ n \in Nat /\ Len(executed') = n + 1
      /\ executed'[n + 1] = e /\ \A i \in 1 .. n : executed'[i] = executed[i]
  <2>1. IsQueue(executed)
    BY DEF IsHistory
  <2> HIDE DEF e
  <2> QED BY <1>0, <2>1, AppendQueue DEF e
<1> HIDE DEF e
<1>2. DOMAIN executed' = 1 .. n + 1 /\ DOMAIN executed = 1 .. n
  <2>1. \A q : IsQueue(q) => DOMAIN q = 1 .. Len(q)
    BY DEF IsQueue
  <2> QED BY <1>0, <1>1, <2>1 DEF IsHistory
<1>3. /\ \A i \in 1 .. n : u[i] = t[i]
      /\ u[n + 1] = p
  <2>1. e.phase = p
    BY DEF e
  <2>2. \A i \in 1 .. n : i \in 1 .. n + 1
    BY <1>1
  <2>3. n + 1 \in 1 .. n + 1
    BY <1>1
  <2> QED BY <1>1, <1>2, <2>1, <2>2, <2>3 DEF PhasesExecuted
<1>4. PhasesExecuted' = u
  BY DEF PhasesExecuted
<1> HIDE DEF t, u
<1>5. \A i \in 0 .. n : ProgramPosition(phases, t, i) = ProgramPosition(phases, u, i)
  BY <1>1, <1>3, SamePosition
<1>6. \A i \in 0 .. n : At(i)' = At(i)
  BY <1>4, <1>5 DEF At, t
<1>7. At(n + 1)' = Led(Phase(phases, p), Done)
  <2>1. ProgramPosition(phases, u, n + 1) = Led(Phase(phases, u[n + 1]), ProgramPosition(phases, u, n))
    BY <1>1, ProgramPositionIs
  <2>2. ProgramPosition(phases, u, n) = ProgramPosition(phases, t, n) /\ n \in 0 .. n
    BY <1>1, <1>5
  <2> QED BY <1>0, <1>3, <1>4, <2>1, <2>2 DEF At, Done, t
<1>8. Done' = Led(Phase(phases, p), Done)
  BY <1>1, <1>7 DEF Done
<1>9. ASSUME NEW i \in 1 .. n + 1 PROVE \E j \in {i - 1, i} : executed'[i].at = At(j)'
  <2>1. CASE i \in 1 .. n
    <3>1. PICK j \in {i - 1, i} : executed[i].at = At(j)
      BY <1>0, <2>1 DEF IsHistory
    <3>2. j \in 0 .. n
      BY <1>1, <2>1, <3>1
    <3> QED BY <1>1, <1>6, <2>1, <3>1, <3>2
  <2>2. CASE i = n + 1
    <3>1. executed'[i].at = w
      BY <1>1, <2>2 DEF e
    <3>2. At(n)' = Done /\ i - 1 = n
      <4>1. n \in 0 .. n /\ i - 1 = n
        BY <1>1, <2>2
      <4> QED BY <1>0, <1>6, <4>1 DEF Done
    <3> QED BY <1>7, <2>2, <3>1, <3>2
  <2>3. i \in 1 .. n \/ i = n + 1
    BY <1>1
  <2> QED BY <2>1, <2>2, <2>3
<1>10. IsHistory'
  BY <1>1, <1>9 DEF IsHistory
<1> QED BY <1>1, <1>8, <1>10
-----------------------------------------------------------------------------
(* Steps that leave the axes and what they tell alone.                     *)
LEMMA AxesSame ==
  ASSUME UNCHANGED <<vm, fromAxis, known, initial, cncVars>>
  PROVE  /\ \A x : Near(x) => Near(x)'
         /\ Where' = Where /\ lag' = lag /\ cncRun' = cncRun
<1>1. UNCHANGED <<vm, fromAxis, known, initial, cncWire, cncRun, cncAxes, cncTasks, truePos, lag>>
  BY DEF cncVars
<1>2. ASSUME NEW a, NEW n
      PROVE  /\ Place(n, a)' = Place(n, a) /\ ToldAt(n, a)' = ToldAt(n, a) /\ HeardAt(a)' = HeardAt(a)
             /\ Waiting(a)' <=> Waiting(a)
  BY <1>1 DEF Place, ToldAt, HeardAt, Waiting
<1>3. \A i : TellsOf(i)' = TellsOf(i)
  BY <1>1 DEF TellsOf
<1>4. ASSUME NEW x, Within(x) PROVE Within(x)'
  BY <1>1, <1>2, <1>3, <1>4 DEF Within, Place, ToldAt, HeardAt, TellsOf
<1>5. ASSUME NEW x, Follows(x) PROVE Follows(x)'
  BY <1>1, <1>5 DEF Follows, Trails, TellsPlace, Place, ToldAt, HeardAt, TellsOf, Waiting, Advanced
<1>6. Where' = Where
  BY <1>1 DEF Where
<1>7. ASSUME NEW x, Near(x) PROVE Near(x)'
  BY <1>1, <1>4, <1>5, <1>6, <1>7 DEF Near
<1> QED BY <1>1, <1>6, <1>7

LEMMA SamePlace ==
  ASSUME PlaceInv, UNCHANGED <<state, armed, vm, executed, phases, outcome, toAxis>>,
         UNCHANGED <<fromAxis, known, initial, cncVars>>
  PROVE  PlaceInv'
<1>1. /\ \A x : Near(x) => Near(x)'
      /\ Where' = Where /\ lag' = lag /\ cncRun' = cncRun
  BY AxesSame
<1>2. Done' = Done /\ (IsHistory => IsHistory')
  BY SameHistory
<1>3. Rests'
  BY <1>2 DEF PlaceInv, Rests, Initialized
<1>4. Over'
  BY <1>1, <1>2 DEF PlaceInv, Over
<1>5. Once'
  BY <1>1 DEF PlaceInv, Once
<1>6. state' = "start_moving" => IsPlan'
  BY <1>2 DEF PlaceInv, IsPlan
<1>7. Sent => Sent'
  BY <1>1 DEF Sent, Quiet, TrueFrom, AtStart, cncVars
<1>8. Nearby'
  BY <1>1, <1>7 DEF PlaceInv, Nearby, Running
<1> QED BY <1>1, <1>2, <1>3, <1>4, <1>5, <1>6, <1>8 DEF PlaceInv

(* The end of a run that is not a success.                                 *)
LEMMA EndPlace ==
  ASSUME PlaceInv, state' = "null", outcome' # "done", UNCHANGED <<executed, phases, cncRun, lag>>
  PROVE  PlaceInv'
<1>1. IsHistory'
  BY SameHistory DEF PlaceInv
<1> QED BY <1>1 DEF PlaceInv, Rests, Over, Once, Nearby, Running, Initialized

(* From a state of rest to another.                                        *)
LEMMA RestPlace ==
  ASSUME PlaceInv, state # "null", state' \notin {"null", "start_moving"}, ListenersFollowState',
         UNCHANGED <<fromAxis, cncVars>>, IsHistory', Rests'
  PROVE  PlaceInv'
<1>1. outcome' # "done"
  BY DEF ListenersFollowState
<1>2. UNCHANGED <<cncRun, lag>>
  BY DEF cncVars
<1>3. Once'
  BY <1>2 DEF PlaceInv, Once
<1> QED BY <1>1, <1>2, <1>3 DEF PlaceInv, Over, Nearby, Running

(* ... without a phase being executed.                                     *)
LEMMA PausePlace ==
  ASSUME PlaceInv, state # "null", state' \notin {"null", "start_moving", "execute_operation", "init_pause"},
         ListenersFollowState', UNCHANGED <<fromAxis, cncVars, executed, phases>>,
         state \in {"wait_stuff_activated", "initialize"} => executed = <<>>,
         state' \in {"wait_stuff_activated", "initialize"} => executed = <<>>,
         Initialized' => vm'.pos = Done
  PROVE  PlaceInv'
<1>1. IsHistory' /\ Done' = Done
  BY SameHistory DEF PlaceInv
<1>2. Rests'
  BY <1>1 DEF Rests
<1> QED BY <1>1, <1>2, RestPlace

-----------------------------------------------------------------------------
(* The operator and the devices.                                           *)
LEMMA StopPlace ==
  ASSUME PlaceInv, StopExecution("stopped"), UNCHANGED <<executed, phases, cncVars>>
  PROVE  PlaceInv'
<1>1. state' = "null" /\ outcome' # "done"
  BY DEF StopExecution, SwitchTo
<1> QED BY <1>1, EndPlace DEF cncVars

LEMMA UserPlace ==
  ASSUME PlaceInv, PatientUser = TRUE, ListenersFollowState, ListenersFollowState', User
  PROVE  PlaceInv'
<1>u. UNCHANGED <<fromAxis, cncVars>>
  BY DEF User, UserUpload, UserStart, UserContinue, UserStop, UserCommand
<1>1. CASE UserUpload
  <2>1. UNCHANGED <<state, armed, vm, executed, phases, outcome, toAxis, known, initial>>
    BY <1>1 DEF UserUpload, UploadProgram, stateVars, sent, history
  <2> QED BY <1>u, <2>1, SamePlace
<1>2. CASE state = "null" /\ (UserStart \/ UserContinue)
  <2>1. UserStart
    BY <1>2 DEF UserContinue
  <2>2. /\ fromAxis = <<>> /\ cncRun = "idle" /\ state' = "wait_stuff_activated" /\ executed' = <<>>
    BY <1>2, <2>1 DEF UserStart, AtRest, Activate, SwitchTo
  <2>3. fromAxis' = <<>> /\ cncRun' = "idle" /\ lag' = lag
    BY <1>u, <2>2 DEF cncVars
  <2>4. IsHistory'
    <3>1. Len(<<>>) = 0 /\ <<>> \in Seq({})
      OBVIOUS
    <3> QED BY <2>2, <3>1 DEF IsHistory, IsQueue
  <2>5. Rests' /\ ~Running' /\ state' # "start_moving"
    BY <2>2 DEF Rests, Initialized, Running
  <2>6. outcome' # "done"
    BY <2>2 DEF ListenersFollowState
  <2>7. Once'
    BY <2>3 DEF Once
  <2> QED BY <2>2, <2>3, <2>4, <2>5, <2>6, <2>7 DEF PlaceInv, Over, Nearby
<1>3. CASE state # "null" /\ (UserStart \/ UserContinue)
  <2>0. Activate
    BY <1>3 DEF UserStart, UserContinue
  <2>1. CASE state = "infinity_pause"
    <3>1. state' = "pause_done" /\ UNCHANGED <<vm, executed, phases>>
      BY <2>0, <2>1 DEF Activate, SwitchTo, history
    <3>2. vm.pos = Done
      BY <2>1 DEF PlaceInv, Rests, Initialized
    <3> QED BY <1>u, <2>1, <3>1, <3>2, PausePlace
  <2>2. CASE state # "infinity_pause"
    <3>1. UNCHANGED <<state, armed, vm, executed, phases, outcome, toAxis, known, initial>>
      BY <2>0, <2>2, <1>3 DEF Activate, stateVars, history
    <3> QED BY <1>u, <3>1, SamePlace
  <2> QED BY <2>1, <2>2
<1>4. CASE UserStop
  <2>1. StopExecution("stopped") /\ UNCHANGED <<executed, phases>>
    BY <1>4 DEF UserStop, Deactivate
  <2> QED BY <1>u, <2>1, StopPlace
<1> QED BY <1>1, <1>2, <1>3, <1>4 DEF User

LEMMA StuffPlace ==
  ASSUME PlaceInv, ListenersFollowState, ListenersFollowState', Stuff \/ StuffReceive
  PROVE  PlaceInv'
<1>1. CASE Stuff
  <2>1. UNCHANGED <<state, armed, vm, executed, phases, outcome, toAxis, known, initial, fromAxis, cncVars>>
    BY <1>1, StuffKeepsNode DEF StuffOther, stateVars, history
  <2> QED BY <2>1, SamePlace
<1>2. CASE StuffReceive
  <2>1. PICK status, err : StuffStatus(status, err)
    BY <1>2 DEF StuffReceive
  <2>2. UNCHANGED <<fromAxis, cncVars, phases, vm, known, initial, executed>>
    BY <1>2, <2>1 DEF StuffReceive, NodeStep, StuffStatus
  <2>3. CASE StopExecution("stopped")
    BY <2>2, <2>3, StopPlace
  <2>4. CASE stuffListener = "activation" /\ SwitchTo("initialize")
    <3>1. state = "wait_stuff_activated"
      BY <2>4 DEF ListenersFollowState
    <3>2. state' = "initialize" /\ executed = <<>> /\ ~Initialized'
      BY <2>4, <3>1 DEF SwitchTo, PlaceInv, Rests, Initialized
    <3> QED BY <2>2, <3>1, <3>2, PausePlace
  <2>5. CASE UNCHANGED <<state, armed, toAxis, outcome>>
    BY <2>2, <2>5, SamePlace
  <2> QED BY <2>1, <2>3, <2>4, <2>5 DEF StuffStatus, stateVars, sent
<1> QED BY <1>1, <1>2
-----------------------------------------------------------------------------
(* The timers: what the main loop finds...                                 *)
LEMMA LoopPlace ==
  ASSUME PlaceInv, InStep, InStep', ListenersFollowState', SProgramExecutionLoop, UNCHANGED <<fromAxis, cncVars>>
  PROVE  PlaceInv'
<1>1. /\ state = "loop" /\ vm.pos = Where
      /\ UNCHANGED <<phases, initial, executed>> /\ LoopFinds
  BY LoopIs
<1>2. /\ toAxis = <<>> /\ Quiet /\ vm.pos = Done
  <2>1. state # "null" /\ ~Running /\ Initialized
    BY <1>1 DEF Running, Initialized
  <2> QED BY <1>1, <2>1, AtRestQuiet DEF PlaceInv, Rests
<1>3. IsHistory' /\ Done' = Done /\ Where' = Where /\ cncRun' = "idle" /\ cncRun = "idle" /\ lag' = lag
  BY <1>1, <1>2, SameHistory DEF PlaceInv, Where, Quiet, cncVars
<1>4. Once'
  BY <1>1, <1>3 DEF PlaceInv, Once
<1>5. CASE StopExecution("done")
  <2>1. state' = "null" /\ toAxis' = Append(toAxis, Deactivation)
    BY <1>5 DEF StopExecution, SwitchTo
  <2>2. toAxis' = <<Deactivation>>
    <3> DEFINE m == Deactivation
    <3> HIDE DEF m
    <3>1. Append(<<>>, m) = <<m>>
      OBVIOUS
    <3> QED BY <1>2, <2>1, <3>1 DEF m
  <2>3. Over'
    BY <1>1, <1>2, <1>3, <2>2 DEF Over
  <2>4. Rests' /\ ~Running'
    BY <2>1 DEF Rests, Initialized, Running
  <2> QED BY <1>3, <1>4, <2>1, <2>3, <2>4 DEF PlaceInv, Nearby
<1>6. CASE StopExecution("stopped")
  BY <1>1, <1>6, StopPlace
<1>7. CASE /\ state' = "start_moving" /\ armed' /\ vm'.moves # <<>> /\ vm'.moves \in Seq(Move)
           /\ IsChain(phases, OfMoves(vm'), vm'.moves, vm.pos, vm'.pos)
           /\ Len(vm'.ops) = Len(vm'.moves) + 1
  <2> DEFINE v == vm'
             n == Len(v.moves)
  <2>1. /\ v.moves # <<>> /\ v.moves \in Seq(Move) /\ IsChain(phases, OfMoves(v), v.moves, vm.pos, v.pos)
        /\ Len(v.ops) = n + 1
    BY <1>7
  <2> HIDE DEF v
  <2>2. n \in Nat \ {0} /\ CurrentMove(v) = 0
    BY <2>1 DEF CurrentMove
  <2>3. /\ IsPath(v.moves) /\ v.moves[1].from = vm.pos
        /\ \A i \in 1 .. n : IsMove(phases, OfMoves(v)[i], v.moves[i])
    BY <2>1 DEF IsChain, IsMove, IsPath
  <2>4. \A i \in 1 .. n : OfMoves(v)[i] = v.ops[n + 2 - i]
    <3> DEFINE o == Len(v.ops)
    <3>1. \A i \in 1 .. n : OfMoves(v)[i] = v.ops[o + 1 - i]
      BY DEF OfMoves
    <3>2. \A i \in 1 .. n : o + 1 - i = n + 2 - i
      BY <2>1, <2>2
    <3> HIDE DEF o
    <3> QED BY <3>1, <3>2
  <2>5. /\ IsPath(v.moves)
        /\ \A i \in CurrentMove(v) + 1 .. n : IsMove(phases, v.ops[n + 2 - i], v.moves[i])
        /\ Done = Target(v.moves, 0)
    BY <1>2, <2>2, <2>3, <2>4 DEF Target
  <2>6. IsPlan'
    BY <1>1, <1>3, <1>7, <2>5 DEF IsPlan, v
  <2>7. Rests' /\ ~Running' /\ outcome' # "done"
    BY <1>7 DEF Rests, Running, ListenersFollowState
  <2> QED BY <1>3, <1>4, <2>6, <2>7 DEF PlaceInv, Over, Nearby
<1>8. CASE state' = "loop" /\ vm'.pos = vm.pos
  BY <1>1, <1>2, <1>8, PausePlace
<1>9. CASE /\ vm'.pos = vm.pos
           /\ \/ /\ state' = "execute_operation" /\ Len(vm'.ops) = 2
                 /\ Led(Phase(phases, vm'.ops[2]), vm.pos) = vm.pos
              \/ /\ state' = "init_pause"
                 /\ Phase(phases, vm'.phase_id).kind = "pause"
  <2>1. state' = "execute_operation" => OpPhaseId(vm)' = vm'.ops[2]
    BY <1>9 DEF OpPhaseId, Last
  <2>2. state' = "init_pause" => Led(Phase(phases, vm'.phase_id), Done) = Done
    BY <1>9 DEF Led
  <2>3. Rests'
    BY <1>1, <1>2, <1>3, <1>9, <2>1, <2>2 DEF Rests
  <2> QED BY <1>1, <1>3, <1>9, <2>3, RestPlace
<1> QED BY <1>1, <1>5, <1>6, <1>7, <1>8, <1>9 DEF LoopFinds

(* ... and how the moving of a list is begun.                              *)
LEMMA StartPlace ==
  ASSUME PlaceInv, InStep, InStep', ListenersFollowState', SStartMoving(Where), UNCHANGED <<fromAxis, cncVars>>
  PROVE  PlaceInv'
<1>1. /\ state = "start_moving" /\ armed /\ armed' = FALSE /\ state' = "start_moving"
      /\ toAxis' = Append(toAxis, AxisTask(FillCncTask(vm)))
      /\ executed' = Append(executed, [phase |-> OpPhaseId(vm), at |-> Where])
      /\ UNCHANGED <<phases, vm, known, initial>>
  BY DEF SStartMoving, Called, ExecuteOperation
<1>2. toAxis = <<>> /\ Quiet /\ AtStart
  BY <1>1 DEF InStep, Steps, Travels, Running
<1>3. /\ IsPlan /\ IsHistory /\ lag = Still /\ Once
  BY <1>1, <1>2 DEF PlaceInv, Quiet
<1>4. /\ vm.ops \in Seq(Nat) /\ Len(vm.ops) = Len(vm.moves) + 1 /\ Len(vm.moves) \in Nat \ {0}
      /\ CurrentMove(vm) = 0
  BY <1>1, <1>2, Typed DEF AtStart
<1>5. /\ IsMove(phases, OpPhaseId(vm), vm.moves[1]) /\ Done = Where /\ Where = vm.moves[1].from
      /\ IsPath(vm.moves)
  <2>1. OpPhaseId(vm) = vm.ops[Len(vm.ops)]
    BY <1>4 DEF OpPhaseId, Last
  <2>2. 1 \in CurrentMove(vm) + 1 .. Len(vm.moves) /\ Len(vm.moves) + 2 - 1 = Len(vm.ops)
    BY <1>4
  <2>3. Done = Target(vm.moves, 0)
    BY <1>1, <1>3 DEF IsPlan
  <2> QED BY <1>2, <1>3, <2>1, <2>2, <2>3 DEF IsPlan, Target, AtStart
<1>6. /\ IsHistory' /\ Done' = Led(Phase(phases, OpPhaseId(vm)), Done)
  BY <1>1, <1>3, <1>5, Executes
<1>7. Done' = Target(vm.moves, 1)
  <2>1. 1 \in 1 .. Len(vm.moves)
    BY <1>4
  <2>2. Target(vm.moves, 1) = vm.moves[1].to
    BY <1>5, <2>1, PathEnds
  <2> QED BY <1>5, <1>6, <2>2 DEF IsMove, Led
<1>8. IsPlan'
  <2>1. Done' = Target(vm.moves, IF armed' THEN 0 ELSE CurrentMove(vm) + 1)
    <3>1. CurrentMove(vm) + 1 = 1 /\ ~armed'
      BY <1>1, <1>4
    <3> QED BY <1>7, <3>1
  <2> QED BY <1>1, <1>3, <2>1 DEF IsPlan
<1>9. /\ cncRun' = "idle" /\ cncRun = "idle" /\ lag' = lag /\ Where' = Where /\ known' = truePos' /\ Quiet'
  BY <1>1, <1>2 DEF Quiet, Where, cncVars, TrueFrom
<1>10. Once' /\ Rests' /\ Over'
  <2>1. outcome' # "done"
    BY <1>1 DEF ListenersFollowState
  <2>2. Once'
    BY <1>1, <1>3, <1>9 DEF Once
  <2> QED BY <1>1, <2>1, <2>2 DEF Rests, Over, Initialized
<1>11. toAxis' = <<AxisTask(FillCncTask(vm))>>
  <2> DEFINE m == AxisTask(FillCncTask(vm))
  <2> HIDE DEF m
  <2>1. Append(<<>>, m) = <<m>>
    OBVIOUS
  <2> QED BY <1>1, <1>2, <2>1 DEF m
<1>12. Sent'
  BY <1>1, <1>2, <1>9, <1>11 DEF Sent, AtStart
<1>13. Near(0)'
  <2>1. ASSUME NEW a \in Axes
        PROVE  /\ Behind(vm.moves, a, HeardAt(a)', Place(0, a)) /\ lag'[a] = 0 /\ ToldAt(0, a)' = 0
               /\ \A i \in 1 .. Len(fromAxis') : OfAxis(fromAxis'[i], a) =>
                    Behind(vm.moves, a, TellsOf(i)', Place(0, a))
    <3>1. lag'[a] = 0 /\ ToldAt(0, a)' = 0
      BY <1>3, <1>9 DEF Still, ToldAt
    <3>2. Where[a] = truePos[a] - initial[a] /\ Place(0, a) = Where[a] /\ Where[a] \in Int
      BY <1>5, Typed DEF Where, Place, Target
    <3>3. HeardAt(a)' = Where[a]
      BY <1>1, <1>9, <3>2 DEF HeardAt, cncVars
    <3>4. \A i \in 1 .. Len(fromAxis') : OfAxis(fromAxis'[i], a) => TellsOf(i)' = Where[a]
      BY <1>1, <1>9, <3>2 DEF Quiet, TrueFrom, TellsOf, OfAxis, cncVars
    <3> QED BY <1>5, <3>1, <3>2, <3>3, <3>4, BehindIs
  <2>2. Within(0)'
    BY <1>1, <2>1 DEF Within, Place
  <2>3. 0 \in 0 .. Len(vm.moves) /\ Where = Target(vm.moves, 0) /\ 0 <= CurrentMove(vm) + 2
    BY <1>4, <1>5 DEF Target
  <2> QED BY <1>1, <1>9, <2>2, <2>3 DEF Near
<1>14. Nearby'
  BY <1>12, <1>13 DEF Nearby
<1> QED BY <1>3, <1>6, <1>8, <1>9, <1>10, <1>14 DEF PlaceInv

LEMMA TimerPlace ==
  ASSUME PlaceInv, InStep, InStep', ListenersFollowState, ListenersFollowState', StateTimer \/ PauseTimeout
  PROVE  PlaceInv'
<1>u. UNCHANGED <<fromAxis, cncVars>> /\ (state = "null" => ~Initialized)
  BY DEF StateTimer, PauseTimeout, NodeStep, Initialized
<1>v. state \in {"pause_done", "execute_operation", "moving_done"} => vm.ops # <<>> /\ IsVm(vm)
  <2>1. state \in {"pause_done", "execute_operation", "moving_done"} => Len(vm.ops) = 2 /\ IsVm(vm)
    BY DEF InStep, Steps, VmReady, Initialized
  <2>2. Len(<<>>) # 2
    OBVIOUS
  <2> QED BY <2>1, <2>2
<1>1. CASE Idle
  <2>1. /\ UNCHANGED <<vm, executed, phases, outcome, toAxis, known, initial, state>>
        /\ state \in {"wait_stuff_activated", "pause", "infinity_pause"}
    BY <1>1 DEF Idle, sent, history
  <2>2. Initialized => vm.pos = Done
    BY <2>1 DEF PlaceInv, Rests
  <2>3. state = "wait_stuff_activated" => executed = <<>>
    BY DEF PlaceInv, Rests
  <2>4. Initialized' => Initialized
    BY <2>1 DEF Initialized
  <2> QED BY <1>u, <2>1, <2>2, <2>3, <2>4, PausePlace
<1>2. CASE SInitialize
  <2>1. /\ state = "initialize" /\ vm' = Initialize(phases) /\ state' = "loop"
        /\ UNCHANGED <<phases, executed>>
    BY <1>2 DEF SInitialize, Called, SwitchTo, history
  <2>2. executed = <<>>
    BY <2>1 DEF PlaceInv, Rests
  <2>3. Done = Still
    <3>1. Len(<<>>) = 0
      OBVIOUS
    <3> QED BY <2>2, <3>1, ProgramPositionIs DEF Done, At
  <2>4. vm'.pos = Still
    BY <2>1 DEF Initialize
  <2> QED BY <1>u, <2>1, <2>2, <2>3, <2>4, PausePlace
<1>3. CASE SProgramExecutionLoop
  BY <1>3, <1>u, LoopPlace
<1>4. CASE SInitPause(Where)
  <2>1. /\ state = "init_pause" /\ state' \in {"pause", "infinity_pause"}
        /\ executed' = Append(executed, [phase |-> vm.phase_id, at |-> Where])
        /\ UNCHANGED <<phases, vm>>
    BY <1>4 DEF SInitPause, SwitchTo, Called
  <2>2. /\ Initialized /\ IsHistory /\ vm.pos = Done /\ Led(Phase(phases, vm.phase_id), Done) = Done
    BY <2>1 DEF PlaceInv, Rests, Initialized
  <2>3. Where = Done
    BY <2>1, <2>2 DEF InStep, Steps, VmReady
  <2>4. IsHistory' /\ Done' = Done
    BY <2>1, <2>2, <2>3, Executes
  <2>5. Rests'
    BY <2>1, <2>2, <2>4 DEF Rests
  <2> QED BY <1>u, <2>1, <2>4, <2>5, RestPlace
<1>5. CASE SExecuteOperation(Where)
  <2>1. /\ state = "execute_operation" /\ state' \in {"execute_operation", "loop"}
        /\ vm' = ToNextPhase(vm)
        /\ executed' = Append(executed, [phase |-> OpPhaseId(vm), at |-> Where])
        /\ phases' = phases /\ state' = IF HasPhaseOps(vm') THEN "execute_operation" ELSE "loop"
    BY <1>5, <1>v DEF SExecuteOperation, SwitchTo, Called, ExecuteOperation
  <2>2. /\ Initialized /\ IsHistory /\ vm.pos = Done /\ Led(Phase(phases, OpPhaseId(vm)), Done) = Done
    BY <2>1 DEF PlaceInv, Rests, Initialized
  <2>3. Where = Done /\ vm'.pos = vm.pos /\ state' = "loop"
    <3>1. Initialized /\ IsVm(vm) /\ IsPrepared(phases, vm) /\ Len(vm.ops) = 2 /\ vm.pos = Where
      BY <2>1 DEF InStep, Steps, VmReady, Initialized
    <3>2. Len(vm'.ops) = 1 /\ vm'.pos = vm.pos
      <4> DEFINE w == ToNextPhase(vm)
      <4>1. Len(vm.ops) > 1
        BY <3>1
      <4>2. Len(w.ops) = Len(vm.ops) - 1 /\ w.pos = vm.pos
        BY <3>1, <4>1, NextPhaseLeaves
      <4> HIDE DEF w
      <4>3. vm' = w
        BY <2>1 DEF w
      <4> QED BY <3>1, <4>2, <4>3
    <3> QED BY <2>1, <2>2, <3>1, <3>2 DEF HasPhaseOps
  <2>4. IsHistory' /\ Done' = Done
    BY <2>1, <2>2, <2>3, Executes
  <2>5. Rests'
    BY <2>1, <2>2, <2>3, <2>4 DEF Rests
  <2> QED BY <1>u, <2>1, <2>3, <2>4, <2>5, RestPlace
<1>6. CASE SStartMoving(Where)
  BY <1>6, <1>u, StartPlace
<1>7. CASE SPauseDone \/ SMovingDone
  <2>1. /\ state \in {"pause_done", "moving_done"} /\ vm' = ToNextPhase(vm) /\ state' = "loop"
        /\ UNCHANGED <<phases, executed>>
    BY <1>7, <1>v DEF SPauseDone, SMovingDone, SwitchTo, Called, history
  <2>2. vm'.pos = vm.pos
    BY <1>v, <2>1, NextPhaseIs
  <2>3. vm.pos = Done
    BY <2>1 DEF PlaceInv, Rests, Initialized
  <2> QED BY <1>u, <2>1, <2>2, <2>3, PausePlace
<1>8. CASE PauseTimeout
  <2>1. /\ state = "pause" /\ state' = "pause_done" /\ UNCHANGED <<vm, phases, executed>>
    BY <1>8 DEF PauseTimeout, PauseTimer, SwitchTo, ListenersFollowState, history
  <2>2. vm.pos = Done
    BY <2>1 DEF PlaceInv, Rests, Initialized
  <2> QED BY <1>u, <2>1, <2>2, PausePlace
<1> QED BY <1>1, <1>2, <1>3, <1>4, <1>5, <1>6, <1>7, <1>8 DEF StateTimer, StateCall
-----------------------------------------------------------------------------
(***************************************************************************)
(* A message of the axes is taken.                                         *)
(***************************************************************************)
Takes == fromAxis # <<>> /\ fromAxis' = Tail(fromAxis)

LEMMA TakeIs ==
  ASSUME InStep, Takes
  PROVE  /\ Len(fromAxis') \in Nat /\ Len(fromAxis) \in Nat /\ Len(fromAxis') = Len(fromAxis) - 1
         /\ 1 \in 1 .. Len(fromAxis) /\ Head(fromAxis) = fromAxis[1] /\ IsReport(Head(fromAxis))
         /\ \A i \in 1 .. Len(fromAxis') : i + 1 \in 1 .. Len(fromAxis) /\ fromAxis'[i] = fromAxis[i + 1]
         /\ \A i \in 2 .. Len(fromAxis) : i - 1 \in 1 .. Len(fromAxis') /\ fromAxis'[i - 1] = fromAxis[i]
<1>1. IsQueue(fromAxis) /\ Reports(fromAxis)
  BY Typed DEF Reports
<1>2. /\ Len(fromAxis) \in Nat /\ Len(fromAxis) > 0
      /\ Len(fromAxis') = Len(fromAxis) - 1
      /\ Head(fromAxis) = fromAxis[1]
      /\ \A i \in 1 .. Len(fromAxis) - 1 : fromAxis'[i] = fromAxis[i + 1]
  BY <1>1, TailQueue DEF Takes
<1> DEFINE n == Len(fromAxis)
           q == fromAxis'
           m == Len(q)
<1>3. n \in Nat /\ n > 0 /\ m = n - 1 /\ \A i \in 1 .. n - 1 : q[i] = fromAxis[i + 1]
  BY <1>2
<1> HIDE DEF n, m, q
<1>4. /\ m \in Nat /\ 1 \in 1 .. n
      /\ \A i \in 1 .. m : i + 1 \in 1 .. n /\ q[i] = fromAxis[i + 1]
  BY <1>3
<1>5. ASSUME NEW i \in 2 .. n PROVE i - 1 \in 1 .. m /\ q[i - 1] = fromAxis[i]
  <2>1. i - 1 \in 1 .. n - 1 /\ (i - 1) + 1 = i
    BY <1>3
  <2> QED BY <1>3, <2>1
<1>6. IsReport(fromAxis[1])
  BY <1>1, <1>4 DEF Reports, n
<1> QED BY <1>2, <1>3, <1>4, <1>5, <1>6 DEF n, m, q

LEMMA TakeWaits ==
  ASSUME InStep, Takes, NEW a \in Axes
  PROVE  Waiting(a) <=> Waiting(a)' \/ OfAxis(Head(fromAxis), a)
<1>1. ASSUME Waiting(a), ~OfAxis(Head(fromAxis), a) PROVE Waiting(a)'
  <2>1. PICK i \in 1 .. Len(fromAxis) : OfAxis(fromAxis[i], a)
    BY <1>1 DEF Waiting
  <2>2. i # 1
    BY <1>1, <2>1, TakeIs
  <2>3. i \in 2 .. Len(fromAxis)
    BY <2>2, TakeIs
  <2>4. i - 1 \in 1 .. Len(fromAxis') /\ fromAxis'[i - 1] = fromAxis[i]
    BY <2>3, TakeIs
  <2> QED BY <2>1, <2>4 DEF Waiting
<1>2. ASSUME Waiting(a)' PROVE Waiting(a)
  <2>1. PICK i \in 1 .. Len(fromAxis') : OfAxis(fromAxis'[i], a)
    BY <1>2 DEF Waiting
  <2>2. i + 1 \in 1 .. Len(fromAxis) /\ OfAxis(fromAxis[i + 1], a)
    BY <2>1, TakeIs
  <2> QED BY <2>2 DEF Waiting
<1>3. OfAxis(Head(fromAxis), a) => Waiting(a)
  BY TakeIs DEF Waiting
<1> QED BY <1>1, <1>2, <1>3

LEMMA TakeOnce ==
  ASSUME InStep, Takes, Once, state # "null", cncRun' = cncRun
  PROVE  /\ Once'
         /\ \A a \in Axes : cncRun # "idle" /\ OfAxis(Head(fromAxis), a) => ~Waiting(a)'
<1>1. \A i, j \in 1 .. Len(fromAxis) : \A a \in Axes :
         i < j /\ OfAxis(fromAxis[i], a) /\ OfAxis(fromAxis[j], a) =>
           /\ cncRun = "idle"
           /\ \E s \in j + 1 .. Len(fromAxis) : fromAxis[s].kind = "status"
  BY DEF Once
<1>2. ASSUME NEW i \in 1 .. Len(fromAxis'), NEW j \in 1 .. Len(fromAxis'), NEW a \in Axes,
             i < j, OfAxis(fromAxis'[i], a), OfAxis(fromAxis'[j], a)
      PROVE  /\ cncRun' = "idle"
             /\ \E s \in j + 1 .. Len(fromAxis') : fromAxis'[s].kind = "status"
  <2>1. /\ i + 1 \in 1 .. Len(fromAxis) /\ j + 1 \in 1 .. Len(fromAxis)
        /\ fromAxis'[i] = fromAxis[i + 1] /\ fromAxis'[j] = fromAxis[j + 1]
    BY TakeIs
  <2>2. i + 1 < j + 1 /\ i \in Int /\ j \in Int /\ i > 0 /\ j > 0
    BY <1>2, TakeIs
  <2>3. cncRun = "idle" /\ \E s \in (j + 1) + 1 .. Len(fromAxis) : fromAxis[s].kind = "status"
    BY <1>1, <1>2, <2>1, <2>2
  <2>4. PICK s \in (j + 1) + 1 .. Len(fromAxis) : fromAxis[s].kind = "status"
    BY <2>3
  <2>5. s \in 2 .. Len(fromAxis) /\ s - 1 >= j + 1
    BY <2>2, TakeIs
  <2>6. s - 1 \in 1 .. Len(fromAxis') /\ fromAxis'[s - 1] = fromAxis[s]
    BY <2>5, TakeIs
  <2>7. s - 1 \in j + 1 .. Len(fromAxis')
    BY <2>5, <2>6, <2>2
  <2> QED BY <2>3, <2>4, <2>6, <2>7
<1>3. cncRun' # "coasting"
  BY DEF Once
<1>4. Once'
  BY <1>2, <1>3 DEF Once
<1>5. ASSUME NEW a \in Axes, OfAxis(Head(fromAxis), a), Waiting(a)' PROVE cncRun = "idle"
  <2>1. PICK j \in 1 .. Len(fromAxis') : OfAxis(fromAxis'[j], a)
    BY <1>5 DEF Waiting
  <2>2. /\ j + 1 \in 1 .. Len(fromAxis) /\ OfAxis(fromAxis[j + 1], a)
        /\ 1 \in 1 .. Len(fromAxis) /\ OfAxis(fromAxis[1], a)
    BY <1>5, <2>1, TakeIs
  <2>3. 1 < j + 1
    BY TakeIs
  <2> QED BY <1>1, <2>2, <2>3
<1> QED BY <1>4, <1>5

(* A status is taken while the axes move: the reports are those before.     *)
LEMMA TakenStatus ==
  ASSUME InStep, Takes, Head(fromAxis).kind # "position", UNCHANGED <<vm, known, initial, cncVars>>
  PROVE  \A x : Near(x) => Near(x)'
<1>1. UNCHANGED <<vm, known, initial, cncWire, cncRun, cncAxes, cncTasks, truePos, lag>> /\ Where' = Where
  BY DEF cncVars, Where
<1>2. ASSUME NEW a \in Axes PROVE Waiting(a)' <=> Waiting(a)
  BY TakeWaits DEF OfAxis
<1>3. \A i \in 1 .. Len(fromAxis') : i + 1 \in 1 .. Len(fromAxis) /\ fromAxis'[i] = fromAxis[i + 1]
  BY TakeIs
<1>4. \A i \in 1 .. Len(fromAxis') : TellsOf(i)' = TellsOf(i + 1)
  BY <1>1, <1>3 DEF TellsOf
<1>5. ASSUME NEW x, Within(x) PROVE Within(x)'
  <2>1. \A a \in Axes : /\ lag[a] \in {0, 1} /\ lag[a] <= x
                        /\ Behind(vm.moves, a, HeardAt(a), Place(ToldAt(x, a), a))
                        /\ \A i \in 1 .. Len(fromAxis) :
                             OfAxis(fromAxis[i], a) => Behind(vm.moves, a, TellsOf(i), Place(ToldAt(x, a), a))
    BY <1>5 DEF Within
  <2>2. \A a \in Axes : HeardAt(a)' = HeardAt(a) /\ Place(ToldAt(x, a), a)' = Place(ToldAt(x, a), a)
    BY <1>1 DEF HeardAt, Place, ToldAt
  <2>3. ASSUME NEW a \in Axes, NEW i \in 1 .. Len(fromAxis'), OfAxis(fromAxis'[i], a)
        PROVE  Behind(vm.moves, a, TellsOf(i)', Place(ToldAt(x, a), a))
    BY <1>3, <1>4, <2>1, <2>3
  <2> QED BY <1>1, <2>1, <2>2, <2>3 DEF Within
<1>6. ASSUME NEW x, Follows(x) PROVE Follows(x)'
  <2>1. (x = Advanced /\ LeftOf(cncTasks, vm.moves, x))'
    BY <1>1, <1>6 DEF Follows, Advanced
  <2>2. ASSUME NEW a \in Axes
        PROVE  Trails(x, a)'
    <3>1. HeardAt(a)' = HeardAt(a) /\ ToldAt(x, a)' = ToldAt(x, a) /\ \A n : Place(n, a)' = Place(n, a)
      BY <1>1 DEF HeardAt, Place, ToldAt
    <3> QED BY <1>1, <1>2, <1>6, <3>1 DEF Follows, Trails
  <2>3. ASSUME NEW a \in Axes, NEW i \in 1 .. Len(fromAxis') PROVE TellsPlace(i, x, a)'
    <3>1. OfAxis(fromAxis[i + 1], a) => TellsOf(i + 1) = Place(ToldAt(x, a), a)
      BY <1>3, <1>6 DEF Follows, TellsPlace
    <3> QED BY <1>1, <1>3, <1>4, <3>1 DEF TellsPlace, Place, ToldAt
  <2>4. x = CurrentMove(vm) + 2 => \E a \in Axes : Waiting(a)' /\ lag[a] = 1
    BY <1>2, <1>6 DEF Follows
  <2>5. CurrentMove(vm) + 1 # Len(vm.moves) =>
          ~Reached(vm.moves[CurrentMove(vm) + 1], FromOrigin(known, initial))
    BY <1>6 DEF Follows
  <2> QED BY <1>1, <2>1, <2>2, <2>3, <2>4, <2>5 DEF Follows
<1>7. ASSUME NEW x, Near(x) PROVE Near(x)'
  BY <1>1, <1>5, <1>6, <1>7 DEF Near
<1> QED BY <1>7

LEMMA StatusPlace ==
  ASSUME PlaceInv, InStep, InStep', ListenersFollowState, ListenersFollowState', Takes,
         UNCHANGED cncVars,
         Head(fromAxis).kind = "status", AxisStatus(Head(fromAxis).status, Head(fromAxis).err)
  PROVE  PlaceInv'
<1>1. UNCHANGED <<phases, vm, known, initial, executed, cncRun, lag>> /\ Where' = Where
  BY DEF AxisStatus, cncVars, Where
<1>2. Head(fromAxis) = fromAxis[1] /\ 1 \in 1 .. Len(fromAxis)
  BY TakeIs
<1>3. state = "null" \/ Running
  BY <1>2, AtRestQuiet
<1>4. IsHistory' /\ Done' = Done
  BY <1>1, SameHistory DEF PlaceInv
<1>5. CASE StopExecution("stopped")
  BY <1>1, <1>5, StopPlace
<1>6. CASE axisListener = "none" /\ UNCHANGED <<state, armed, toAxis, outcome>>
  <2>1. ~Running
    BY <1>6 DEF Running, InStep, Steps, Travels
  <2>2. state' = "null" /\ ~Running' /\ Over'
    BY <1>1, <1>3, <1>4, <1>6, <2>1 DEF Running, PlaceInv, Over
  <2> QED BY <1>1, <1>4, <2>2 DEF PlaceInv, Rests, Once, Nearby, Initialized
<1>7. CASE axisListener = "started" /\ UNCHANGED <<state, armed, toAxis, outcome>>
  <2>1. state = "start_moving" /\ Running /\ Running'
    BY <1>7 DEF ListenersFollowState, Running
  <2>2. ~Sent
    BY <1>2 DEF Sent, Quiet, TrueFrom
  <2>3. toAxis = <<>> /\ \E x : Near(x)
    BY <2>1, <2>2 DEF PlaceInv, Nearby
  <2>4. \E x : Near(x)'
    BY <1>1, <2>3, TakenStatus
  <2>5. Nearby'
    BY <1>7, <2>3, <2>4 DEF Nearby
  <2>6. Once'
    BY <1>1, <2>1, TakeOnce DEF PlaceInv
  <2>7. IsPlan'
    BY <1>1, <1>4, <1>7, <2>1 DEF PlaceInv, IsPlan
  <2>8. Rests' /\ Over'
    BY <1>1, <1>4, <1>7, <2>1 DEF PlaceInv, Rests, Over
  <2> QED BY <1>1, <1>4, <2>5, <2>6, <2>7, <2>8 DEF PlaceInv
<1>8. CASE axisListener = "done" /\ SwitchTo("moving_done")
  <2>1. state = "start_moving" /\ ~armed /\ state' = "moving_done"
    BY <1>8 DEF ListenersFollowState, SwitchTo
  <2>2. Len(vm.ops) = 2
    BY <1>1, <2>1 DEF InStep, Steps, VmReady, Initialized
  <2>3. /\ Len(vm.moves) \in Nat \ {0} /\ Len(vm.ops) = Len(vm.moves) + 1 - CurrentMove(vm)
        /\ CurrentMove(vm) \in 0 .. Len(vm.moves) - 1
        /\ vm.moves[Len(vm.moves)].to = vm.pos
    BY <2>1, Typed
  <2>4. CurrentMove(vm) + 1 = Len(vm.moves)
    <3> DEFINE n == Len(vm.moves)
               c == CurrentMove(vm)
    <3>1. n \in Nat /\ c \in 0 .. n - 1 /\ 2 = n + 1 - c
      BY <2>2, <2>3
    <3> HIDE DEF n, c
    <3>2. c + 1 = n
      BY <3>1
    <3> QED BY <3>2 DEF n, c
  <2>5. Done = vm.pos
    <3>1. Done = Target(vm.moves, Len(vm.moves)) /\ IsPath(vm.moves)
      BY <2>1, <2>4 DEF PlaceInv, IsPlan
    <3>2. Len(vm.moves) \in 1 .. Len(vm.moves)
      BY <2>3
    <3> QED BY <2>3, <3>1, <3>2, PathEnds
  <2>6. Rests' /\ ~Running'
    BY <1>1, <1>4, <2>1, <2>5 DEF Rests, Running
  <2>7. Once'
    BY <1>1, <2>1, TakeOnce DEF PlaceInv
  <2>8. Over'
    BY <2>1 DEF Over, ListenersFollowState
  <2> QED BY <1>1, <1>4, <2>1, <2>6, <2>7, <2>8 DEF PlaceInv, Nearby
<1> QED BY <1>5, <1>6, <1>7, <1>8 DEF AxisStatus, stateVars, sent
-----------------------------------------------------------------------------
(* A position of the axes is taken.                                        *)
LEMMA HeardIs ==
  ASSUME NEW moves, IsPath(moves), NEW i \in 1 .. Len(moves), NEW k \in [Axes -> Int], NEW o \in [Axes -> Int]
  PROVE  Reached(moves[i], FromOrigin(k, o)) <=>
           \A a \in Axes : MovesAxis(moves[i], a) => Behind(moves, a, Target(moves, i)[a], k[a] - o[a])
<1>1. FromOrigin(k, o) \in [Axes -> Int] /\ \A a \in Axes : FromOrigin(k, o)[a] = k[a] - o[a]
  BY DEF FromOrigin
<1>2. Reached(moves[i], FromOrigin(k, o)) <=>
        \A a \in Axes : MovesAxis(moves[i], a) => Behind(moves, a, Target(moves, i)[a], FromOrigin(k, o)[a])
  BY <1>1, ReachedIs
<1> QED BY <1>1, <1>2

(* The plan when a segment but the last is reached.                        *)
LEMMA PlanGoesOn ==
  ASSUME InStep, state = "start_moving", ~armed, IsPlan, CurrentMove(vm) + 1 # Len(vm.moves),
         NEW r, r = ToNextPhase(vm), NEW e, e = CurrentMove(vm)
  PROVE  /\ r.moves = vm.moves /\ CurrentMove(r) = e + 1 /\ e \in Nat /\ e + 2 \in 1 .. Len(vm.moves)
         /\ Done = Target(vm.moves, e + 1)
         /\ Led(Phase(phases, OpPhaseId(r)), Done) = Target(vm.moves, e + 2)
         /\ \A i \in e + 2 .. Len(vm.moves) : IsMove(phases, r.ops[Len(vm.moves) + 2 - i], vm.moves[i])
<1> DEFINE n == Len(vm.moves)
           o == Len(vm.ops)
<1>1. IsVm(vm) /\ IsPrepared(phases, vm)
  BY DEF InStep, Steps, VmReady, Initialized
<1>2. n \in Nat \ {0} /\ e \in 0 .. n - 1 /\ o = n + 1 - e /\ e + 1 # n
  BY Typed
<1> HIDE DEF n, o
<1>3. e \in Nat /\ e + 2 \in 1 .. n /\ o > 1 /\ o \in Nat
  BY <1>2
<1>4. /\ IsPrepared(phases, r) /\ Len(r.ops) = o - 1 /\ r.moves = vm.moves
  BY <1>1, <1>3, NextPhaseLeaves DEF o
<1>5. r.ops = Front(vm.ops)
  BY <1>1, NextPhaseIs
<1>6. \A i \in 1 .. o - 1 : r.ops[i] = vm.ops[i]
  <2>1. IsQueue(vm.ops)
    BY <1>1 DEF IsPrepared, IsQueue
  <2>2. vm.ops # <<>>
    BY <1>3, <2>1, EmptyQueue DEF o
  <2> QED BY <1>5, <2>1, <2>2, FrontQueue DEF o
<1>7. CurrentMove(r) = e + 1
  <2>1. CurrentMove(r) = n + 1 - (o - 1)
    BY <1>4 DEF CurrentMove, n
  <2> QED BY <1>2, <2>1
<1>8. Done = Target(vm.moves, e + 1) /\ IsPath(vm.moves)
  BY DEF IsPlan
<1>9. ASSUME NEW i \in e + 2 .. n PROVE IsMove(phases, r.ops[n + 2 - i], vm.moves[i])
  <2>1. i \in e + 1 .. n /\ n + 2 - i \in 1 .. o - 1
    BY <1>2, <1>3
  <2>2. IsMove(phases, vm.ops[n + 2 - i], vm.moves[i])
    BY <2>1 DEF IsPlan, n
  <2> QED BY <1>6, <2>1, <2>2
<1>10. Led(Phase(phases, OpPhaseId(r)), Done) = Target(vm.moves, e + 2)
  <2>1. OpPhaseId(r) = r.ops[o - 1]
    BY <1>4 DEF OpPhaseId, Last
  <2>2. e + 2 \in e + 2 .. n /\ n + 2 - (e + 2) = o - 1 /\ (e + 2) - 1 = e + 1
    BY <1>2, <1>3
  <2>3. IsMove(phases, OpPhaseId(r), vm.moves[e + 2])
    BY <1>9, <2>1, <2>2
  <2>4. Target(vm.moves, e + 2) = vm.moves[e + 2].to /\ Target(vm.moves, e + 1) = vm.moves[e + 2].from
    <3>1. \A i \in 1 .. Len(vm.moves) : Target(vm.moves, i) = vm.moves[i].to /\ Target(vm.moves, i - 1) = vm.moves[i].from
      BY <1>8, PathEnds
    <3>2. e + 2 \in 1 .. Len(vm.moves)
      BY <1>3 DEF n
    <3> QED BY <2>2, <3>1, <3>2
  <2> QED BY <1>8, <2>3, <2>4 DEF IsMove, Led
<1> QED BY <1>3, <1>4, <1>7, <1>8, <1>9, <1>10 DEF n

(* Where the axes were told to be.                                         *)
LEMMA ToldPlaces ==
  ASSUME NEW x \in 0 .. Len(vm.moves), Within(x), IsPath(vm.moves)
  PROVE  \A a \in Axes : /\ ToldAt(x, a) \in 0 .. Len(vm.moves) /\ ToldAt(x, a) \in {x, x - 1}
                         /\ (ToldAt(x, a) = x - 1 <=> lag[a] = 1)
                         /\ Place(ToldAt(x, a), a) \in Int
<1>1. Len(vm.moves) \in Nat
  BY PathEnds
<1>2. ASSUME NEW a \in Axes
      PROVE  /\ ToldAt(x, a) \in 0 .. Len(vm.moves) /\ ToldAt(x, a) \in {x, x - 1}
             /\ (ToldAt(x, a) = x - 1 <=> lag[a] = 1)
  <2>1. lag[a] \in {0, 1} /\ lag[a] <= x
    BY DEF Within
  <2> QED BY <1>1, <2>1 DEF ToldAt
<1>3. ASSUME NEW a \in Axes PROVE Place(ToldAt(x, a), a) \in Int
  <2>1. Target(vm.moves, ToldAt(x, a)) \in [Axes -> Int]
    BY <1>2, PathEnds
  <2> QED BY <2>1 DEF Place
<1> QED BY <1>2, <1>3

TakesPosition(v) ==
  /\ Takes /\ Head(fromAxis).kind = "position" /\ v = Head(fromAxis).axis
  /\ known' = [known EXCEPT ![v] = Head(fromAxis).value]
  /\ UNCHANGED <<initial, cncVars>> /\ vm'.moves = vm.moves

LEMMA TakenPosition ==
  ASSUME InStep, NEW v, TakesPosition(v)
  PROVE  /\ v \in Axes /\ OfAxis(Head(fromAxis), v)
         /\ \A a \in Axes : a # v => ~OfAxis(Head(fromAxis), a) /\ HeardAt(a)' = HeardAt(a)
         /\ HeardAt(v)' = TellsOf(1) /\ \A a \in Axes : HeardAt(a)' \in Int
         /\ \A a : \A n : Place(n, a)' = Place(n, a) /\ ToldAt(n, a)' = ToldAt(n, a)
         /\ \A i \in 1 .. Len(fromAxis') : TellsOf(i)' = TellsOf(i + 1)
<1>0. /\ Takes /\ Head(fromAxis).kind = "position" /\ v = Head(fromAxis).axis
      /\ known' = [known EXCEPT ![v] = Head(fromAxis).value]
      /\ UNCHANGED <<initial, cncVars>> /\ vm'.moves = vm.moves
  BY DEF TakesPosition
<1>1. /\ v \in Axes /\ OfAxis(Head(fromAxis), v) /\ Head(fromAxis).value \in Int
      /\ Head(fromAxis) = fromAxis[1]
  BY <1>0, TakeIs DEF IsReport, OfAxis
<1>2. known \in [Axes -> Int] /\ initial \in [Axes -> Int] /\ lag' = lag
  BY <1>0, Typed DEF cncVars
<1>3. \A a \in Axes : a # v => ~OfAxis(Head(fromAxis), a) /\ HeardAt(a)' = HeardAt(a)
  BY <1>0, <1>1, <1>2 DEF OfAxis, HeardAt
<1>4. HeardAt(v)' = TellsOf(1)
  BY <1>0, <1>1, <1>2 DEF HeardAt, TellsOf
<1>5. \A a \in Axes : HeardAt(a)' \in Int
  BY <1>0, <1>1, <1>2 DEF HeardAt
<1>6. \A a : \A n : Place(n, a)' = Place(n, a) /\ ToldAt(n, a)' = ToldAt(n, a)
  BY <1>0, <1>2 DEF Place, ToldAt, Target
<1>7. \A i \in 1 .. Len(fromAxis') : TellsOf(i)' = TellsOf(i + 1)
  BY <1>0, TakeIs DEF TellsOf
<1> QED BY <1>1, <1>3, <1>4, <1>5, <1>6, <1>7

LEMMA TakenWithin ==
  ASSUME InStep, NEW v, TakesPosition(v), NEW x, Within(x)
  PROVE  Within(x)'
<1>0. /\ Takes /\ Head(fromAxis).kind = "position" /\ v = Head(fromAxis).axis
      /\ known' = [known EXCEPT ![v] = Head(fromAxis).value]
      /\ UNCHANGED <<initial, cncVars>> /\ vm'.moves = vm.moves
  BY DEF TakesPosition
<1>1. \A a \in Axes : /\ lag[a] \in {0, 1} /\ lag[a] <= x
                      /\ Behind(vm.moves, a, HeardAt(a), Place(ToldAt(x, a), a))
                      /\ \A i \in 1 .. Len(fromAxis) :
                           OfAxis(fromAxis[i], a) => Behind(vm.moves, a, TellsOf(i), Place(ToldAt(x, a), a))
  BY DEF Within
<1>2. /\ v \in Axes /\ OfAxis(Head(fromAxis), v)
      /\ \A a \in Axes : a # v => HeardAt(a)' = HeardAt(a)
      /\ HeardAt(v)' = TellsOf(1)
      /\ \A a : \A n : Place(n, a)' = Place(n, a) /\ ToldAt(n, a)' = ToldAt(n, a)
      /\ \A i \in 1 .. Len(fromAxis') : TellsOf(i)' = TellsOf(i + 1)
  BY TakenPosition
<1>3. \A a \in Axes : Place(ToldAt(x, a), a)' = Place(ToldAt(x, a), a)
  BY <1>0, <1>2 DEF Place, ToldAt, cncVars
<1>4. ASSUME NEW a \in Axes PROVE Behind(vm.moves, a, HeardAt(a)', Place(ToldAt(x, a), a))
  <2>1. CASE a = v
    <3>1. 1 \in 1 .. Len(fromAxis) /\ OfAxis(fromAxis[1], v)
      BY <1>0, <1>2, TakeIs
    <3> QED BY <1>1, <1>2, <2>1, <3>1
  <2>2. CASE a # v
    BY <1>1, <1>2, <2>2
  <2> QED BY <2>1, <2>2
<1>5. ASSUME NEW a \in Axes, NEW i \in 1 .. Len(fromAxis'), OfAxis(fromAxis'[i], a)
      PROVE  Behind(vm.moves, a, TellsOf(i)', Place(ToldAt(x, a), a))
  <2>1. i + 1 \in 1 .. Len(fromAxis) /\ fromAxis'[i] = fromAxis[i + 1]
    BY <1>0, TakeIs
  <2> QED BY <1>1, <1>2, <1>5, <2>1
<1>6. lag' = lag
  BY <1>0 DEF cncVars
<1> QED BY <1>0, <1>1, <1>3, <1>4, <1>5, <1>6 DEF Within

(* What the processor follows, but for what it detects.                    *)
Heard(x) ==
  /\ x = Advanced /\ LeftOf(cncTasks, vm.moves, x)
  /\ \A a \in Axes : Trails(x, a)
  /\ \A i \in 1 .. Len(fromAxis) : \A a \in Axes : TellsPlace(i, x, a)

LEMMA TakenFollows ==
  ASSUME InStep, NEW v, TakesPosition(v), IsPath(vm.moves), ~Waiting(v)', NEW x, Near(x), cncRun # "idle"
  PROVE  Heard(x)' /\ TellsOf(1) = Place(ToldAt(x, v), v)
<1>0. /\ Takes /\ Head(fromAxis).kind = "position" /\ v = Head(fromAxis).axis
      /\ known' = [known EXCEPT ![v] = Head(fromAxis).value]
      /\ UNCHANGED <<initial, cncVars>> /\ vm'.moves = vm.moves
  BY DEF TakesPosition
<1>f. Follows(x) /\ Within(x) /\ x \in 0 .. Len(vm.moves)
  BY DEF Near
<1>t. \A a \in Axes : ToldAt(x, a) \in 0 .. Len(vm.moves)
  BY <1>f, ToldPlaces
<1>1. /\ v \in Axes /\ OfAxis(Head(fromAxis), v)
      /\ \A a \in Axes : a # v => ~OfAxis(Head(fromAxis), a) /\ HeardAt(a)' = HeardAt(a)
      /\ HeardAt(v)' = TellsOf(1)
      /\ \A a : \A n : Place(n, a)' = Place(n, a) /\ ToldAt(n, a)' = ToldAt(n, a)
      /\ \A i \in 1 .. Len(fromAxis') : TellsOf(i)' = TellsOf(i + 1)
  BY TakenPosition
<1>2. x = Advanced' /\ LeftOf(cncTasks, vm.moves, x)'
  BY <1>0, <1>f DEF Follows, Advanced, LeftOf, cncVars
<1>3. \A i \in 1 .. Len(fromAxis) : \A a \in Axes :
         OfAxis(fromAxis[i], a) => TellsOf(i) = Place(ToldAt(x, a), a)
  BY <1>f DEF Follows, TellsPlace
<1>4. TellsOf(1) = Place(ToldAt(x, v), v)
  BY <1>0, <1>1, <1>3, TakeIs
<1>5. \A a \in Axes : Place(ToldAt(x, a), a)' = Place(ToldAt(x, a), a)
  BY <1>0, <1>1 DEF Place, ToldAt, cncVars
<1>6. ASSUME NEW i \in 1 .. Len(fromAxis'), NEW a \in Axes, OfAxis(fromAxis'[i], a)
      PROVE  TellsOf(i)' = Place(ToldAt(x, a), a)'
  <2>1. i + 1 \in 1 .. Len(fromAxis) /\ fromAxis'[i] = fromAxis[i + 1]
    BY <1>0, TakeIs
  <2> QED BY <1>1, <1>3, <1>5, <1>6, <2>1
<1>7. ASSUME NEW a \in Axes
      PROVE  Trails(x, a)'
  <2>1. CASE a = v
    <3>1. Place(ToldAt(x, v), v) \in Int
      <4>1. Target(vm.moves, ToldAt(x, v)) \in [Axes -> Int]
        BY <1>1, <1>t, PathEnds
      <4> QED BY <1>1, <4>1 DEF Place
    <3>2. Behind(vm.moves, v, Place(ToldAt(x, v), v), HeardAt(v)')
      BY <1>1, <1>4, <3>1, BehindIs
    <3>3. Behind(vm.moves, v, Place(ToldAt(x, v), v)', HeardAt(v)')
      BY <1>1, <1>5, <3>2
    <3>4. Behind(vm.moves, v, Place(ToldAt(x, v), v), HeardAt(v))'
      BY <1>0, <3>3 DEF Behind
    <3> QED BY <2>1, <3>4 DEF Trails
  <2>2. CASE a # v
    <3>1. Waiting(a)' <=> Waiting(a)
      BY <1>0, <1>1, <2>2, TakeWaits
    <3>2. Behind(vm.moves, a, Place(IF Waiting(a) THEN Back(ToldAt(x, a)) ELSE ToldAt(x, a), a), HeardAt(a))
      BY <1>f DEF Follows, Trails
    <3>3. HeardAt(a)' = HeardAt(a) /\ ToldAt(x, a)' = ToldAt(x, a)
      BY <1>0, <1>1, <2>2 DEF ToldAt, cncVars
    <3>4. \A n : Place(n, a)' = Place(n, a)
      BY <1>1
    <3> QED BY <1>0, <3>1, <3>2, <3>3, <3>4 DEF Trails
  <2> QED BY <2>1, <2>2
<1> QED BY <1>2, <1>4, <1>6, <1>7 DEF Heard, TellsPlace
-----------------------------------------------------------------------------
(* The segment of the list that comes next is one that some axis has not    *)
(* told yet: so it is when the processor does not detect the one it awaits. *)
Undetected(moves, e, k, o, t, W) ==
  /\ IsPath(moves) /\ e \in Nat /\ e + 2 \in 1 .. Len(moves)
  /\ k \in [Axes -> Int] /\ o \in [Axes -> Int] /\ ~Reached(moves[e + 1], FromOrigin(k, o))
  /\ t \in [Axes -> {e + 1, e + 2}]
  /\ \A a \in Axes : Behind(moves, a, Target(moves, IF a \in W THEN Back(t[a]) ELSE t[a])[a], k[a] - o[a])

LEMMA NotLeft ==
  ASSUME NEW moves, NEW e, NEW k, NEW o, NEW t, NEW W, Undetected(moves, e, k, o, t, W)
  PROVE  \E a \in Axes : a \in W /\ t[a] = e + 1 /\ MovesAxis(moves[e + 1], a)
<1>u. /\ IsPath(moves) /\ e \in Nat /\ e + 2 \in 1 .. Len(moves)
      /\ k \in [Axes -> Int] /\ o \in [Axes -> Int] /\ ~Reached(moves[e + 1], FromOrigin(k, o))
      /\ t \in [Axes -> {e + 1, e + 2}]
      /\ \A a \in Axes : Behind(moves, a, Target(moves, IF a \in W THEN Back(t[a]) ELSE t[a])[a], k[a] - o[a])
  BY DEF Undetected
<1>0. /\ Len(moves) \in Nat /\ \A j \in 0 .. Len(moves) : \A a \in Axes : Target(moves, j)[a] \in Int
      /\ e + 1 \in 1 .. Len(moves) /\ e + 1 \in 0 .. Len(moves) /\ e + 2 \in 0 .. Len(moves)
  BY <1>u, PathEnds
<1>1. PICK b \in Axes : MovesAxis(moves[e + 1], b) /\ ~Behind(moves, b, Target(moves, e + 1)[b], k[b] - o[b])
  BY <1>u, <1>0, HeardIs
<1>2. k[b] - o[b] \in Int /\ t[b] \in {e + 1, e + 2}
  BY <1>u
<1>3. ASSUME t[b] = e + 2 PROVE Back(t[b]) = e + 1
  BY <1>u, <1>3 DEF Back
<1>4. ASSUME b \notin W PROVE Behind(moves, b, Target(moves, e + 1)[b], k[b] - o[b])
  <2>1. Behind(moves, b, Target(moves, t[b])[b], k[b] - o[b])
    BY <1>u, <1>4
  <2>2. Behind(moves, b, Target(moves, e + 1)[b], Target(moves, t[b])[b])
    BY <1>u, <1>0, <1>2, Onward
  <2> DEFINE p == Target(moves, e + 1)[b]
             q == Target(moves, t[b])[b]
             r == k[b] - o[b]
  <2>3. p \in Int /\ q \in Int /\ r \in Int /\ Behind(moves, b, p, q) /\ Behind(moves, b, q, r)
    BY <1>0, <1>2, <2>1, <2>2
  <2>4. \A u, v, w \in Int : Behind(moves, b, u, v) /\ Behind(moves, b, v, w) => Behind(moves, b, u, w)
    BY <1>u, BehindIs
  <2> HIDE DEF p, q, r
  <2>5. Behind(moves, b, p, r)
    BY <2>3, <2>4
  <2> QED BY <2>5 DEF p, r
<1>5. b \in W
  BY <1>1, <1>4
<1>6. t[b] # e + 2
  BY <1>u, <1>1, <1>3, <1>5
<1> QED BY <1>1, <1>2, <1>5, <1>6

(* The report that detects a segment does not tell of the next one.        *)
LEMMA NextNotLeft ==
  ASSUME NEW moves, IsPath(moves), NEW e \in Nat, e + 2 \in 1 .. Len(moves),
         NEW k \in [Axes -> Int], NEW o \in [Axes -> Int], NEW v \in Axes, NEW w \in Int,
         ~Reached(moves[e + 1], FromOrigin(k, o)),
         Reached(moves[e + 1], FromOrigin([k EXCEPT ![v] = w], o)),
         NEW t \in 0 .. Len(moves), t <= e + 2, w - o[v] = Target(moves, t)[v],
         Behind(moves, v, Target(moves, Back(t))[v], k[v] - o[v])
  PROVE  ~Reached(moves[e + 2], FromOrigin([k EXCEPT ![v] = w], o))
<1> DEFINE k2 == [k EXCEPT ![v] = w]
<1>0. /\ Len(moves) \in Nat /\ \A j \in 0 .. Len(moves) : \A a \in Axes : Target(moves, j)[a] \in Int
      /\ e + 1 \in 1 .. Len(moves) /\ e + 1 \in 0 .. Len(moves) /\ e + 2 \in 0 .. Len(moves)
      /\ k2 \in [Axes -> Int] /\ k2[v] = w /\ \A a \in Axes : a # v => k2[a] = k[a]
      /\ (e + 2) - 1 = e + 1
  BY PathEnds
<1> HIDE DEF k2
<1>1. PICK b \in Axes : MovesAxis(moves[e + 1], b) /\ ~Behind(moves, b, Target(moves, e + 1)[b], k[b] - o[b])
  BY <1>0, HeardIs
<1>2. Behind(moves, b, Target(moves, e + 1)[b], k2[b] - o[b])
  BY <1>0, <1>1, HeardIs DEF k2
<1>3. b = v
  BY <1>0, <1>1, <1>2
<1>4. t # e + 2
  <2>1. t = e + 2 => Back(t) = e + 1
    BY DEF Back
  <2> QED BY <1>1, <1>3, <2>1
<1>5. t <= e + 1
  BY <1>4
<1>6. MovesAxis(moves[e + 2], v)
  <2>1. e + 1 \in 1 .. Len(moves) - 1 /\ (e + 1) + 1 = e + 2
    BY <1>0
  <2>2. KeepsWay(moves[e + 1], moves[e + 2])
    BY <2>1 DEF IsPath
  <2> QED BY <1>1, <1>3, <2>2 DEF KeepsWay
<1>7. ~Behind(moves, v, Target(moves, e + 2)[v], Target(moves, e + 1)[v])
  BY <1>0, <1>6, OneMove
<1>8. Behind(moves, v, Target(moves, t)[v], Target(moves, e + 1)[v])
  BY <1>0, <1>5, Onward
<1>9. ~Behind(moves, v, Target(moves, e + 2)[v], k2[v] - o[v])
  <2> DEFINE p == Target(moves, e + 2)[v]
             q == Target(moves, t)[v]
             r == Target(moves, e + 1)[v]
  <2>1. p \in Int /\ q \in Int /\ r \in Int /\ k2[v] - o[v] = q /\ ~Behind(moves, v, p, r) /\ Behind(moves, v, q, r)
    BY <1>0, <1>7, <1>8
  <2>2. \A x, y, z \in Int : Behind(moves, v, x, y) /\ Behind(moves, v, y, z) => Behind(moves, v, x, z)
    BY BehindIs
  <2> HIDE DEF p, q, r
  <2>3. ~Behind(moves, v, p, q)
    BY <2>1, <2>2
  <2> QED BY <2>1, <2>3 DEF p
<1> QED BY <1>0, <1>6, <1>9, HeardIs DEF k2

(* A position is taken while the axes are near the processor.              *)
LEMMA TakenNear ==
  ASSUME PlaceInv, InStep, Running, Takes, Head(fromAxis).kind = "position", UNCHANGED <<initial, cncVars>>,
         NEW v, v = Head(fromAxis).axis, known' = [known EXCEPT ![v] = Head(fromAxis).value],
         NEW x, Near(x),
         LET hit == /\ CurrentMove(vm) + 1 # Len(vm.moves)
                    /\ Reached(vm.moves[CurrentMove(vm) + 1], FromOrigin(known', initial))
         IN  vm' = IF hit THEN ToNextPhase(vm) ELSE vm
  PROVE  /\ Near(x)'
         /\ vm' # vm => x \in {CurrentMove(vm) + 1, CurrentMove(vm) + 2}
<1> DEFINE e == CurrentMove(vm)
           n == Len(vm.moves)
           hit == e + 1 # n /\ Reached(vm.moves[e + 1], FromOrigin(known', initial))
           r == ToNextPhase(vm)
<1>1. /\ state = "start_moving" /\ ~armed /\ IsPlan /\ IsPath(vm.moves)
  BY DEF Running, PlaceInv, IsPlan
<1>2. /\ n \in Nat \ {0} /\ e \in 0 .. n - 1 /\ known \in [Axes -> Int] /\ initial \in [Axes -> Int]
  BY <1>1, Typed
<1>3. /\ IsVm(vm) /\ r.moves = vm.moves
  <2>1. IsVm(vm)
    BY DEF InStep, Steps, VmReady
  <2> QED BY <2>1, NextPhaseIs
<1>4. vm' = IF hit THEN r ELSE vm
  OBVIOUS
<1>5. vm'.moves = vm.moves
  BY <1>3, <1>4
<1>6. CurrentMove(vm)' = IF hit THEN e + 1 ELSE e
  <2>1. hit => CurrentMove(r) = e + 1
    BY <1>1, PlanGoesOn
  <2> QED BY <1>4, <2>1
<1> HIDE DEF r
<1>t. TakesPosition(v)
  BY <1>5 DEF TakesPosition
<1>7. x \in 0 .. n /\ Where = Target(vm.moves, x) /\ x <= e + 2 /\ Within(x) /\ (cncRun # "idle" => Follows(x))
  BY DEF Near
<1>8. Where' = Where /\ cncRun' = cncRun /\ lag' = lag
  BY DEF Where, cncVars
<1>9. Within(x)'
  BY <1>7, <1>t, TakenWithin
<1>10. /\ v \in Axes /\ Head(fromAxis).value \in Int /\ known' \in [Axes -> Int]
       /\ HeardAt(v)' = TellsOf(1) /\ \A a \in Axes : HeardAt(a)' \in Int
  BY <1>2, <1>t, TakeIs, TakenPosition DEF IsReport
<1>11. \A a \in Axes : /\ ToldAt(x, a) \in 0 .. n /\ ToldAt(x, a) \in {x, x - 1}
                       /\ (ToldAt(x, a) = x - 1 <=> lag[a] = 1)
  BY <1>1, <1>7, ToldPlaces
<1>12. ASSUME hit PROVE x \in {e + 1, e + 2} /\ e + 2 \in 1 .. n /\ e + 1 \in 1 .. n
  <2>1. e + 1 \in 1 .. n /\ e + 2 \in 1 .. n
    BY <1>2, <1>12
  <2>2. \A a \in Axes : MovesAxis(vm.moves[e + 1], a) => Behind(vm.moves, a, Place(e + 1, a), HeardAt(a)')
    BY <1>1, <1>2, <1>10, <1>12, <2>1, HeardIs DEF HeardAt, Place
  <2>3. x >= e + 1
    <3> SUFFICES ASSUME ~(x >= e + 1) PROVE FALSE
      OBVIOUS
    <3>1. PICK a \in Axes : MovesAxis(vm.moves[e + 1], a)
      BY <1>1, <2>1 DEF IsPath
    <3>2. Behind(vm.moves, a, HeardAt(a)', Place(ToldAt(x, a), a))
      <4>1. Behind(vm.moves, a, HeardAt(a), Place(ToldAt(x, a), a))'
        BY <1>9 DEF Within
      <4>2. Place(ToldAt(x, a), a)' = Place(ToldAt(x, a), a)
        BY <1>5, <1>8 DEF Place, ToldAt
      <4> QED BY <1>5, <4>1, <4>2 DEF Behind
    <3> DEFINE t == ToldAt(x, a)
    <3>3. t \in 0 .. n /\ t <= e /\ e \in 0 .. n /\ e + 1 \in 0 .. n
      <4>1. t \in 0 .. n /\ t \in {x, x - 1}
        BY <1>11
      <4> HIDE DEF t, e, n
      <4> QED BY <1>2, <1>7, <2>1, <4>1
    <3>4. Place(t, a) \in Int /\ Place(e, a) \in Int /\ Place(e + 1, a) \in Int /\ HeardAt(a)' \in Int
      <4>1. \A j \in 0 .. n : Target(vm.moves, j) \in [Axes -> Int]
        BY <1>1, PathEnds
      <4> HIDE DEF t, n, e
      <4> QED BY <1>10, <3>3, <4>1 DEF Place
    <3>5. Behind(vm.moves, a, Place(t, a), Place(e, a))
      BY <1>1, <3>3, Onward DEF Place
    <3>6. ~Behind(vm.moves, a, Place(e + 1, a), Place(e, a))
      <4>1. (e + 1) - 1 = e
        BY <1>2
      <4> QED BY <1>1, <2>1, <3>1, <4>1, OneMove DEF Place
    <3>7. Behind(vm.moves, a, Place(e + 1, a), HeardAt(a)')
      BY <2>2, <3>1
    <3>8. \A u, y, w \in Int : Behind(vm.moves, a, u, y) /\ Behind(vm.moves, a, y, w) => Behind(vm.moves, a, u, w)
      BY <1>1, BehindIs
    <3> DEFINE p == Place(e + 1, a)
               q == HeardAt(a)'
               s == Place(t, a)
               z == Place(e, a)
    <3>9. /\ p \in Int /\ q \in Int /\ s \in Int /\ z \in Int
          /\ Behind(vm.moves, a, p, q) /\ Behind(vm.moves, a, q, s) /\ Behind(vm.moves, a, s, z)
          /\ ~Behind(vm.moves, a, p, z)
      BY <3>2, <3>4, <3>5, <3>6, <3>7
    <3> HIDE DEF p, q, s, z, t, e, n
    <3> QED BY <3>8, <3>9
  <2> QED BY <1>2, <1>7, <2>1, <2>3
<1>13. ASSUME cncRun # "idle" PROVE Follows(x)'
  <2>1. ~Waiting(v)'
    <3>1. OfAxis(Head(fromAxis), v) /\ Once /\ state # "null"
      BY <1>1, <1>t, TakenPosition DEF PlaceInv
    <3> QED BY <1>8, <1>10, <1>13, <3>1, TakeOnce
  <2>2. Follows(x)
    BY <1>7, <1>13
  <2>3. /\ x = Advanced' /\ LeftOf(cncTasks, vm.moves, x)'
        /\ \A a \in Axes : Trails(x, a)'
        /\ \A i \in 1 .. Len(fromAxis') : \A a \in Axes : TellsPlace(i, x, a)'
        /\ TellsOf(1) = Place(ToldAt(x, v), v)
    <3>1. Heard(x)' /\ TellsOf(1) = Place(ToldAt(x, v), v)
      BY <1>1, <1>13, <1>t, <2>1, TakenFollows
    <3> QED BY <3>1 DEF Heard
  <2>4. (x = CurrentMove(vm) + 2 => \E a \in Axes : Waiting(a) /\ lag[a] = 1)'
    <3>1. CASE hit
      <4>1. CurrentMove(vm)' = e + 1
        BY <1>6, <3>1
      <4>2. x # (e + 1) + 2
        BY <1>2, <1>7
      <4> QED BY <4>1, <4>2
    <3>2. CASE ~hit /\ x = e + 2
      <4> DEFINE t == [a \in Axes |-> ToldAt(x, a)]
                 W == {a \in Axes : Waiting(a)'}
      <4>1. e \in Nat /\ e + 2 \in 1 .. n /\ e + 1 # n
        BY <1>2, <1>7, <3>2
      <4>2. ~Reached(vm.moves[e + 1], FromOrigin(known', initial))
        BY <3>2, <4>1
      <4>3. t \in [Axes -> {e + 1, e + 2}]
        <5>1. x - 1 = e + 1
          BY <1>2, <3>2
        <5> QED BY <1>11, <3>2, <5>1
      <4>4. ASSUME NEW a \in Axes
            PROVE  Behind(vm.moves, a, Target(vm.moves, IF a \in W THEN Back(t[a]) ELSE t[a])[a], known'[a] - initial[a])
        <5>1. t[a] = ToldAt(x, a) /\ (a \in W <=> Waiting(a)') /\ ToldAt(x, a)' = ToldAt(x, a)
          BY <1>8 DEF ToldAt
        <5>2. Behind(vm.moves, a, Place(IF Waiting(a) THEN Back(ToldAt(x, a)) ELSE ToldAt(x, a), a), HeardAt(a))'
          BY <2>3 DEF Trails
        <5>3. Behind(vm.moves, a, Place(IF Waiting(a)' THEN Back(ToldAt(x, a)) ELSE ToldAt(x, a), a), HeardAt(a)')
          BY <1>5, <5>1, <5>2 DEF Behind, Place, Target
        <5> HIDE DEF t, W
        <5> QED BY <5>1, <5>3 DEF Place, HeardAt
      <4> HIDE DEF t, W
      <4>5. \E a \in Axes : a \in W /\ t[a] = e + 1 /\ MovesAxis(vm.moves[e + 1], a)
        <5> DEFINE k == known'
        <5>1. k \in [Axes -> Int] /\ initial \in [Axes -> Int] /\ ~Reached(vm.moves[e + 1], FromOrigin(k, initial))
          BY <1>2, <1>10, <4>2
        <5>2. e \in Nat /\ e + 2 \in 1 .. Len(vm.moves)
          BY <4>1
        <5>3. \A a \in Axes :
                Behind(vm.moves, a, Target(vm.moves, IF a \in W THEN Back(t[a]) ELSE t[a])[a], k[a] - initial[a])
          BY <4>4
        <5> HIDE DEF k, e
        <5>4. Undetected(vm.moves, e, k, initial, t, W)
          BY <1>1, <4>3, <5>1, <5>2, <5>3 DEF Undetected
        <5> QED BY <5>4, NotLeft
      <4>6. PICK a \in Axes : a \in W /\ t[a] = e + 1
        BY <4>5
      <4>7. Waiting(a)' /\ ToldAt(x, a) = e + 1
        BY <4>6 DEF t, W
      <4>8. lag[a] = 1
        <5>1. x - 1 = e + 1
          BY <1>2, <3>2
        <5> QED BY <1>11, <4>7, <5>1
      <4> QED BY <1>8, <4>7, <4>8
    <3>3. CASE ~hit /\ x # e + 2
      BY <1>6, <3>3
    <3> QED BY <3>1, <3>2, <3>3
  <2>5. (CurrentMove(vm) + 1 # Len(vm.moves) =>
           ~Reached(vm.moves[CurrentMove(vm) + 1], FromOrigin(known, initial)))'
    <3>1. CASE hit
      <4>1. CurrentMove(vm)' = e + 1 /\ (e + 1) + 1 = e + 2
        BY <1>2, <1>6, <3>1
      <4>2. ~Reached(vm.moves[e + 2], FromOrigin(known', initial))
        <5> DEFINE t == ToldAt(x, v)
                   w == Head(fromAxis).value
        <5>1. t \in 0 .. n /\ t <= e + 2 /\ e \in Nat /\ e + 2 \in 1 .. n
          BY <1>2, <1>7, <1>10, <1>11, <1>12, <3>1
        <5>2. w - initial[v] = Target(vm.moves, t)[v]
          <6>1. TellsOf(1) = w - initial[v]
            BY TakeIs DEF TellsOf
          <6> QED BY <2>3, <6>1 DEF Place
        <5>3. Behind(vm.moves, v, Target(vm.moves, Back(t))[v], known[v] - initial[v])
          <6>1. Waiting(v)
            BY <1>t, <1>10, TakenPosition, TakeWaits
          <6> QED BY <1>10, <2>2, <6>1 DEF Follows, Trails, Place, HeardAt
        <5>4. e + 1 # n /\ ~Reached(vm.moves[e + 1], FromOrigin(known, initial))
          BY <2>2, <3>1 DEF Follows
        <5>5. Reached(vm.moves[e + 1], FromOrigin([known EXCEPT ![v] = w], initial))
          BY <3>1
        <5> HIDE DEF t, w
        <5>6. ~Reached(vm.moves[e + 2], FromOrigin([known EXCEPT ![v] = w], initial))
          BY <1>1, <1>2, <1>10, <5>1, <5>2, <5>3, <5>4, <5>5, NextNotLeft DEF w
        <5> QED BY <5>6 DEF w
      <4> QED BY <1>5, <4>1, <4>2
    <3>2. CASE ~hit
      BY <1>5, <1>6, <3>2
    <3> QED BY <3>1, <3>2
  <2> QED BY <2>3, <2>4, <2>5 DEF Follows
<1>14. x <= CurrentMove(vm)' + 2
  BY <1>2, <1>6, <1>7
<1>15. Near(x)'
  BY <1>5, <1>7, <1>8, <1>9, <1>13, <1>14 DEF Near, Target
<1> QED BY <1>4, <1>12, <1>15

(* A position is taken while nothing moves.                                *)
LEMMA TakenAtRest ==
  ASSUME InStep, NEW v, TakesPosition(v), Quiet, vm' = vm
  PROVE  /\ known' = known /\ (Sent /\ toAxis' = toAxis => Sent') /\ \A x : Near(x) => Near(x)'
         /\ FromOrigin(known', initial) = Where
<1>0. /\ Takes /\ Head(fromAxis).kind = "position" /\ v = Head(fromAxis).axis
      /\ known' = [known EXCEPT ![v] = Head(fromAxis).value]
      /\ UNCHANGED <<initial, cncVars>>
  BY DEF TakesPosition
<1>1. Head(fromAxis) = fromAxis[1] /\ v \in Axes /\ 1 \in 1 .. Len(fromAxis)
  BY <1>0, TakeIs DEF IsReport
<1>2. fromAxis[1].value = truePos[v] /\ known = truePos /\ cncRun = "idle"
  BY <1>0, <1>1 DEF Quiet, TrueFrom
<1>3. known' = known
  BY <1>0, <1>1, <1>2, Typed
<1>4. UNCHANGED <<cncRun, truePos, lag>> /\ Where' = Where
  BY <1>0 DEF cncVars, Where
<1>5. TrueFrom(1)'
  <2>1. ASSUME NEW i \in 1 .. Len(fromAxis')
        PROVE  fromAxis'[i].kind = "position" /\ fromAxis'[i].value = truePos[fromAxis'[i].axis]
    <3>1. i + 1 \in 1 .. Len(fromAxis) /\ fromAxis'[i] = fromAxis[i + 1]
      BY <1>0, TakeIs
    <3> QED BY <3>1 DEF Quiet, TrueFrom
  <2> QED BY <1>4, <2>1 DEF TrueFrom
<1>6. Sent /\ toAxis' = toAxis => Sent'
  BY <1>2, <1>3, <1>4, <1>5 DEF Sent, Quiet, AtStart
<1>7. ASSUME NEW x, Near(x) PROVE Near(x)'
  <2>1. Within(x)'
    BY <1>7, TakenWithin DEF Near
  <2> QED BY <1>2, <1>4, <1>7, <2>1 DEF Near
<1>8. FromOrigin(known', initial) = Where
  BY <1>2, <1>3 DEF FromOrigin, Where
<1> QED BY <1>3, <1>6, <1>7, <1>8

LEMMA PositionPlace ==
  ASSUME PlaceInv, InStep, ListenersFollowState, ListenersFollowState', Takes, UNCHANGED cncVars,
         Head(fromAxis).kind = "position",
         AxisPosition(Head(fromAxis).axis, Head(fromAxis).value, Where)
  PROVE  PlaceInv'
<1> DEFINE c == CurrentMove(vm)
           hit == c + 1 # Len(vm.moves) /\ Reached(vm.moves[c + 1], FromOrigin(known', initial))
           r == ToNextPhase(vm)
<1>1. PICK v : v = Head(fromAxis).axis
  OBVIOUS
<1>2. /\ UNCHANGED <<phases, state, armed, initial, toAxis, outcome>>
      /\ known' = [known EXCEPT ![v] = Head(fromAxis).value]
      /\ IF state = "start_moving" /\ hit
         THEN vm' = r /\ executed' = Append(executed, [phase |-> OpPhaseId(r), at |-> Where])
         ELSE vm' = vm /\ executed' = executed
  <2>1. [a \in Axes |-> [known EXCEPT ![v] = Head(fromAxis).value][a] - initial[a]] = FromOrigin(known', initial)
    BY <1>1 DEF AxisPosition, FromOrigin
  <2> QED BY <1>1, <2>1 DEF AxisPosition, stateVars, CheckInPosition, ExecuteOperation
<1>3. UNCHANGED <<cncRun, truePos, lag>> /\ Where' = Where
  BY <1>2 DEF cncVars, Where
<1>4. state # "null" => Once'
  BY <1>3, TakeOnce DEF PlaceInv
<1>5. Once'
  BY <1>2, <1>4 DEF Once
<1>6. ASSUME vm' = vm PROVE TakesPosition(v)
  BY <1>1, <1>2, <1>6 DEF TakesPosition
<1>7. CASE state # "start_moving"
  <2>1. vm' = vm /\ executed' = executed
    BY <1>2, <1>7
  <2>2. IsHistory' /\ Done' = Done
    BY <1>2, <2>1, SameHistory DEF PlaceInv
  <2>3. Rests' /\ Over' /\ ~Running'
    BY <1>2, <1>3, <1>7, <2>1, <2>2 DEF PlaceInv, Rests, Over, Initialized, Running
  <2> QED BY <1>2, <1>3, <1>5, <1>7, <2>2, <2>3 DEF PlaceInv, Nearby
<1>8. ASSUME state = "start_moving", vm' = vm, executed' = executed, Nearby' PROVE PlaceInv'
  <2>1. IsHistory' /\ Done' = Done
    BY <1>2, <1>8, SameHistory DEF PlaceInv
  <2>2. Rests' /\ Over' /\ IsPlan'
    BY <1>2, <1>3, <1>8, <2>1 DEF PlaceInv, Rests, Over, IsPlan
  <2> QED BY <1>2, <1>3, <1>5, <1>8, <2>1, <2>2 DEF PlaceInv
<1>9. CASE state = "start_moving" /\ (armed \/ Sent)
  <2>1. Quiet /\ AtStart
    <3>1. armed => Quiet /\ AtStart
      BY <1>9 DEF InStep, Steps, Travels, Running
    <3> QED BY <1>9, <3>1 DEF Sent
  <2>2. ~hit
    <3>1. 1 \in 1 .. Len(vm.moves) /\ Linked(vm.moves)
      BY <1>9, Typed
    <3>2. vm.moves[1] \in Move /\ \E a \in Axes : MovesAxis(vm.moves[1], a)
      BY <3>1 DEF Linked
    <3>3. FromOrigin(known', initial) = vm.moves[1].from
      <4>1. known = truePos /\ fromAxis[1].kind = "position" /\ fromAxis[1].value = truePos[v] /\ v \in Axes
        BY <1>1, <2>1, TakeIs DEF Quiet, TrueFrom, IsReport
      <4>2. known' = known
        BY <1>2, <4>1, Typed, TakeIs
      <4> QED BY <2>1, <4>1, <4>2 DEF FromOrigin, Where, AtStart
    <3>4. c + 1 = 1
      BY <2>1 DEF AtStart
    <3> QED BY <3>2, <3>3, <3>4, NotReachedAtFrom
  <2>3. vm' = vm /\ executed' = executed
    BY <1>2, <2>2
  <2>4. (Sent => Sent') /\ \A x : Near(x) => Near(x)'
    BY <1>2, <1>6, <2>1, <2>3, TakenAtRest
  <2>5. Nearby'
    BY <1>2, <2>4 DEF PlaceInv, Nearby, Running
  <2> QED BY <1>8, <1>9, <2>3, <2>5
<1>10. CASE state = "start_moving" /\ ~armed /\ ~Sent
  <2>1. Running /\ toAxis = <<>>
    BY <1>10 DEF Running, PlaceInv, Nearby
  <2>2. PICK x : Near(x)
    BY <2>1 DEF PlaceInv, Nearby
  <2>3. vm' = IF hit THEN r ELSE vm
    BY <1>2, <1>10
  <2>4. Near(x)' /\ (vm' # vm => x \in {c + 1, c + 2})
    BY <1>1, <1>2, <2>1, <2>2, <2>3, TakenNear
  <2>5. Nearby'
    BY <1>2, <2>1, <2>4 DEF Nearby
  <2>6. CASE ~hit
    BY <1>2, <1>8, <1>10, <2>5, <2>6
  <2>7. CASE hit
    <3>1. vm' = r /\ executed' = Append(executed, [phase |-> OpPhaseId(r), at |-> Where])
      BY <1>2, <1>10, <2>7
    <3>2. /\ r.moves = vm.moves /\ CurrentMove(r) = c + 1 /\ c \in Nat /\ c + 2 \in 1 .. Len(vm.moves)
          /\ Done = Target(vm.moves, c + 1)
          /\ Led(Phase(phases, OpPhaseId(r)), Done) = Target(vm.moves, c + 2)
          /\ \A i \in c + 2 .. Len(vm.moves) : IsMove(phases, r.ops[Len(vm.moves) + 2 - i], vm.moves[i])
      BY <1>10, <2>7, PlanGoesOn DEF PlaceInv
    <3> HIDE DEF r, hit
    <3>3. r # vm
      <4>1. CurrentMove(r) # CurrentMove(vm)
        BY <3>2
      <4> QED BY <4>1
    <3>4. Where \in {Done, Led(Phase(phases, OpPhaseId(r)), Done)}
      BY <2>2, <2>4, <3>1, <3>2, <3>3 DEF Near
    <3>5. IsHistory' /\ Done' = Led(Phase(phases, OpPhaseId(r)), Done)
      BY <1>2, <3>1, <3>4, Executes DEF PlaceInv
    <3>6. IsPlan'
      <4>1. /\ vm' = r /\ IsPath(r.moves) /\ CurrentMove(r) + 1 = c + 2 /\ Len(r.moves) = Len(vm.moves)
        BY <1>10, <3>1, <3>2 DEF PlaceInv, IsPlan
      <4>2. Done' = Target(r.moves, CurrentMove(r) + 1)
        BY <3>2, <3>5, <4>1
      <4>3. \A i \in CurrentMove(r) + 1 .. Len(r.moves) : IsMove(phases, r.ops[Len(r.moves) + 2 - i], r.moves[i])
        BY <3>2, <4>1
      <4> QED BY <1>2, <1>10, <4>1, <4>2, <4>3 DEF IsPlan
    <3>7. Rests' /\ Over'
      <4>1. outcome' # "done"
        BY <1>2, <1>10 DEF ListenersFollowState
      <4> QED BY <1>2, <1>10, <4>1 DEF Rests, Over
    <3> QED BY <1>2, <1>3, <1>5, <1>10, <2>5, <3>5, <3>6, <3>7 DEF PlaceInv
  <2> QED BY <2>6, <2>7
<1> QED BY <1>7, <1>9, <1>10

LEMMA ReceivePlace ==
  ASSUME PlaceInv, InStep, InStep', ListenersFollowState, ListenersFollowState', AxisReceive
  PROVE  PlaceInv'
<1>1. Takes /\ UNCHANGED cncVars
  BY DEF AxisReceive, NodeStep, Takes
<1>2. \/ Head(fromAxis).kind = "status" /\ AxisStatus(Head(fromAxis).status, Head(fromAxis).err)
      \/ Head(fromAxis).kind = "position" /\ AxisPosition(Head(fromAxis).axis, Head(fromAxis).value, Where)
  BY DEF AxisReceive
<1> QED BY <1>1, <1>2, StatusPlace, PositionPlace
-----------------------------------------------------------------------------
(***************************************************************************)
(* The axis controller.                                                    *)
(***************************************************************************)
LEMMA CncOver ==
  ASSUME Over, Cnc
  PROVE  Over'
<1>1. UNCHANGED <<executed, phases, outcome, initial>>
  BY CncKeepsNode DEF AxisSide, history
<1>2. Done' = Done
  BY <1>1, SameHistory
<1>3. ASSUME outcome = "done"
      PROVE  cncRun' = "idle" /\ toAxis' \in {<<>>, <<Deactivation>>} /\ truePos' = truePos
  <2>1. cncRun = "idle" /\ toAxis \in {<<>>, <<Deactivation>>}
    BY <1>3 DEF Over
  <2>2. ~CncActivate /\ ~CncReject
    <3>1. toAxis # <<>> => Head(toAxis) = Deactivation
      BY <2>1
    <3>2. Deactivation.cmd # "move"
      BY DEF Deactivation
    <3> QED BY <3>1, <3>2 DEF CncActivate, CncReject, CncTake
  <2>3. CASE CncDeactivate
    <3>1. toAxis # <<>> /\ toAxis' = Tail(toAxis) /\ cncRun' = cncRun /\ truePos' = truePos
      BY <2>1, <2>3 DEF CncDeactivate, CncTake
    <3>2. Tail(<<Deactivation>>) = <<>>
      OBVIOUS
    <3> QED BY <2>1, <3>1, <3>2
  <2>4. CASE \E a \in Axes : CncReport(a)
    <3>1. cncRun' = cncRun /\ toAxis' = toAxis /\ truePos' = truePos
      BY <2>4 DEF CncReport, CncOwn
    <3> QED BY <2>1, <3>1
  <2>5. ~CncAdvance /\ ~CncDone /\ ~CncFail /\ ~CncStopped
    BY <2>1 DEF CncAdvance, CncDone, CncFail, CncStopped
  <2> QED BY <2>2, <2>3, <2>4, <2>5 DEF Cnc
<1>4. outcome = "done" => Where' = Where
  BY <1>1, <1>3 DEF Where
<1> QED BY <1>1, <1>2, <1>3, <1>4 DEF Over

(* What every step of the axes leaves as it is.                            *)
LEMMA SidePlace ==
  ASSUME PlaceInv, Cnc, cncRun' = "idle" => lag' = Still,
         state # "null" => Once', Running => Nearby'
  PROVE  PlaceInv'
<1>1. UNCHANGED <<state, armed, vm, executed, phases>>
  BY CncKeepsNode DEF AxisSide, stateVars, history
<1>2. Done' = Done /\ IsHistory'
  BY <1>1, SameHistory DEF PlaceInv
<1>3. Rests'
  BY <1>1, <1>2 DEF PlaceInv, Rests, Initialized
<1>4. Over'
  BY CncOver DEF PlaceInv
<1>5. Once' /\ Nearby'
  BY <1>1 DEF Once, Nearby, Running
<1>6. state' = "start_moving" => IsPlan'
  BY <1>1, <1>2 DEF PlaceInv, IsPlan, CurrentMove
<1> QED BY <1>2, <1>3, <1>4, <1>5, <1>6 DEF PlaceInv

(* Nothing but answers is added to the queue.                              *)
OnlyAnswers ==
  /\ Len(fromAxis) \in Nat /\ Len(fromAxis') \in Nat /\ Len(fromAxis) <= Len(fromAxis')
  /\ \A i \in 1 .. Len(fromAxis) : fromAxis'[i] = fromAxis[i]
  /\ \A i \in Len(fromAxis) + 1 .. Len(fromAxis') : fromAxis'[i].kind = "status"

LEMMA AnswersAre ==
  ASSUME Reports(fromAxis), NEW s, NEW r,
         \/ fromAxis' = fromAxis
         \/ fromAxis' = Append(fromAxis, Status(s, r))
         \/ \E u, v : fromAxis' = fromAxis \o <<Status(s, r), Status(u, v)>>
  PROVE  OnlyAnswers
<1>1. IsQueue(fromAxis) /\ Len(fromAxis) \in Nat /\ \A u, v : Status(u, v).kind = "status"
  BY EmptyQueue DEF Reports, Status
<1>2. CASE fromAxis' = fromAxis
  <2>1. Len(fromAxis) + 1 .. Len(fromAxis') = {}
    BY <1>1, <1>2
  <2> QED BY <1>1, <1>2, <2>1 DEF OnlyAnswers
<1>3. CASE fromAxis' = Append(fromAxis, Status(s, r))
  <2> DEFINE m == Status(s, r)
  <2> HIDE DEF m
  <2>1. /\ Len(fromAxis') = Len(fromAxis) + 1 /\ fromAxis'[Len(fromAxis) + 1] = m
        /\ \A i \in 1 .. Len(fromAxis) : fromAxis'[i] = fromAxis[i]
    BY <1>1, <1>3, AppendQueue DEF m
  <2>2. \A i \in Len(fromAxis) + 1 .. Len(fromAxis') : i = Len(fromAxis) + 1
    BY <1>1, <2>1
  <2> QED BY <1>1, <2>1, <2>2 DEF OnlyAnswers, m
<1>4. CASE \E u, v : fromAxis' = fromAxis \o <<Status(s, r), Status(u, v)>>
  <2> PICK u, v : fromAxis' = fromAxis \o <<Status(s, r), Status(u, v)>>
    BY <1>4
  <2> DEFINE m == Status(s, r)
             n == Status(u, v)
             t == <<m, n>>
  <2>1. m.kind = "status" /\ n.kind = "status" /\ fromAxis' = fromAxis \o t
    BY <1>1
  <2> HIDE DEF m, n
  <2>2. t \in Seq({m, n}) /\ Len(t) = 2 /\ t[1] = m /\ t[2] = n
    OBVIOUS
  <2>3. IsQueue(t)
    BY <2>2 DEF IsQueue
  <2> HIDE DEF t
  <2>a. /\ Len(fromAxis \o t) = Len(fromAxis) + Len(t)
        /\ \A i \in 1 .. Len(fromAxis) : (fromAxis \o t)[i] = fromAxis[i]
        /\ \A i \in 1 .. Len(t) : (fromAxis \o t)[Len(fromAxis) + i] = t[i]
    BY <1>1, <2>3, ConcatQueues
  <2>b. fromAxis' = fromAxis \o t
    BY <2>1
  <2>4. /\ Len(fromAxis') = Len(fromAxis) + 2
        /\ \A i \in 1 .. Len(fromAxis) : fromAxis'[i] = fromAxis[i]
        /\ \A i \in 1 .. 2 : fromAxis'[Len(fromAxis) + i] = t[i]
    BY <2>a, <2>b, <2>2
  <2>5. fromAxis'[Len(fromAxis) + 1] = m /\ fromAxis'[Len(fromAxis) + 2] = n
    BY <2>2, <2>4
  <2>6. \A i \in Len(fromAxis) + 1 .. Len(fromAxis') : i = Len(fromAxis) + 1 \/ i = Len(fromAxis) + 2
    <3> PICK l : l = Len(fromAxis)
      OBVIOUS
    <3>1. l \in Nat /\ Len(fromAxis') = l + 2
      BY <1>1, <2>4
    <3> QED BY <3>1
  <2>7. \A i \in Len(fromAxis) + 1 .. Len(fromAxis') : fromAxis'[i].kind = "status"
    BY <2>1, <2>5, <2>6
  <2>8. Len(fromAxis') \in Nat /\ Len(fromAxis) <= Len(fromAxis')
    BY <1>1, <2>4
  <2> QED BY <1>1, <2>4, <2>7, <2>8 DEF OnlyAnswers
<1> QED BY <1>2, <1>3, <1>4

LEMMA AnswersTell ==
  ASSUME OnlyAnswers
  PROVE  /\ \A a : Waiting(a)' <=> Waiting(a)
         /\ \A a : \A i \in 1 .. Len(fromAxis') :
              OfAxis(fromAxis'[i], a) => i \in 1 .. Len(fromAxis) /\ fromAxis'[i] = fromAxis[i]
<1>1. ASSUME NEW a, NEW i \in 1 .. Len(fromAxis'), OfAxis(fromAxis'[i], a)
      PROVE  i \in 1 .. Len(fromAxis) /\ fromAxis'[i] = fromAxis[i]
  <2>1. i \notin Len(fromAxis) + 1 .. Len(fromAxis')
    BY <1>1 DEF OnlyAnswers, OfAxis
  <2>2. i \in 1 .. Len(fromAxis)
    BY <1>1, <2>1 DEF OnlyAnswers
  <2> QED BY <2>2 DEF OnlyAnswers
<1>2. ASSUME NEW a PROVE Waiting(a)' <=> Waiting(a)
  <2>1. \A i \in 1 .. Len(fromAxis) : i \in 1 .. Len(fromAxis') /\ fromAxis'[i] = fromAxis[i]
    BY DEF OnlyAnswers
  <2>2. Waiting(a)' <=> \E i \in 1 .. Len(fromAxis') : OfAxis(fromAxis'[i], a)
    BY DEF Waiting, OfAxis
  <2> QED BY <1>1, <2>1, <2>2 DEF Waiting
<1> QED BY <1>1, <1>2

LEMMA AnswersOnce ==
  ASSUME Once, OnlyAnswers, state' = state, state # "null", cncRun' # "coasting",
         \/ cncRun = "idle" => cncRun' = "idle"
         \/ \A i \in 1 .. Len(fromAxis) : fromAxis[i].kind = "position"
  PROVE  Once'
<1>1. ASSUME NEW i \in 1 .. Len(fromAxis'), NEW j \in 1 .. Len(fromAxis'), NEW a \in Axes,
             i < j, OfAxis(fromAxis'[i], a), OfAxis(fromAxis'[j], a)
      PROVE  cncRun' = "idle" /\ \E s \in j + 1 .. Len(fromAxis') : fromAxis'[s].kind = "status"
  <2>1. /\ i \in 1 .. Len(fromAxis) /\ fromAxis'[i] = fromAxis[i]
        /\ j \in 1 .. Len(fromAxis) /\ fromAxis'[j] = fromAxis[j]
    BY <1>1, AnswersTell
  <2>2. cncRun = "idle" /\ \E s \in j + 1 .. Len(fromAxis) : fromAxis[s].kind = "status"
    BY <1>1, <2>1 DEF Once
  <2> PICK s \in j + 1 .. Len(fromAxis) : fromAxis[s].kind = "status"
    BY <2>2
  <2>3. s \in 1 .. Len(fromAxis) /\ s \in j + 1 .. Len(fromAxis')
    BY <2>1 DEF OnlyAnswers
  <2>4. fromAxis'[s].kind = "status"
    BY <2>3 DEF OnlyAnswers
  <2> QED BY <2>2, <2>3, <2>4
<1>2. \A i, j \in 1 .. Len(fromAxis') : \A a \in Axes :
        i < j /\ OfAxis(fromAxis'[i], a) /\ OfAxis(fromAxis'[j], a) =>
          cncRun' = "idle" /\ \E s \in j + 1 .. Len(fromAxis') : fromAxis'[s].kind = "status"
  BY <1>1
<1> QED BY <1>2 DEF Once, OfAxis

(* Answers tell no position.                                               *)
LEMMA AnswersNear ==
  ASSUME OnlyAnswers, UNCHANGED <<vm, known, initial, truePos, lag>>, NEW x, Near(x),
         cncRun' # "idle" => cncRun # "idle" /\ cncTasks' = cncTasks
  PROVE  Near(x)'
<1>1. \A a, n : /\ Place(n, a)' = Place(n, a) /\ ToldAt(n, a)' = ToldAt(n, a) /\ HeardAt(a)' = HeardAt(a)
                /\ (Waiting(a)' <=> Waiting(a))
  BY AnswersTell DEF Place, ToldAt, HeardAt
<1>2. \A i \in 1 .. Len(fromAxis') : \A a : OfAxis(fromAxis'[i], a) =>
        i \in 1 .. Len(fromAxis) /\ OfAxis(fromAxis[i], a) /\ TellsOf(i)' = TellsOf(i)
  BY AnswersTell DEF TellsOf
<1>3. Within(x)'
  <2>1. ASSUME NEW a \in Axes
        PROVE  /\ lag'[a] \in {0, 1} /\ lag'[a] <= x
               /\ Behind(vm'.moves, a, HeardAt(a)', Place(ToldAt(x, a), a)')
    BY <1>1 DEF Near, Within, Place, ToldAt
  <2>2. ASSUME NEW a \in Axes, NEW i \in 1 .. Len(fromAxis'), OfAxis(fromAxis'[i], a)
        PROVE  Behind(vm'.moves, a, TellsOf(i)', Place(ToldAt(x, a), a)')
    <3>1. i \in 1 .. Len(fromAxis) /\ OfAxis(fromAxis[i], a) /\ TellsOf(i)' = TellsOf(i)
      BY <1>2, <2>2
    <3>2. Behind(vm.moves, a, TellsOf(i), Place(ToldAt(x, a), a))
      BY <3>1 DEF Near, Within
    <3> QED BY <3>1, <3>2 DEF Place, ToldAt
  <2> QED BY <2>1, <2>2 DEF Within, Place, ToldAt, HeardAt, TellsOf, OfAxis
<1>4. ASSUME cncRun' # "idle" PROVE Follows(x)'
  <2>1. Follows(x) /\ cncTasks' = cncTasks
    BY <1>4 DEF Near
  <2>2. \A a \in Axes : Trails(x, a)'
    <3> TAKE a \in Axes
    <3>1. Trails(x, a)
      BY <2>1 DEF Follows
    <3> QED BY <1>1, <3>1 DEF Trails, Place, ToldAt, HeardAt
  <2>3. \A i \in 1 .. Len(fromAxis') : \A a \in Axes : TellsPlace(i, x, a)'
    <3> TAKE i \in 1 .. Len(fromAxis')
    <3> TAKE a \in Axes
    <3>1. ASSUME OfAxis(fromAxis'[i], a) PROVE TellsOf(i)' = Place(ToldAt(x, a), a)'
      <4>1. i \in 1 .. Len(fromAxis) /\ OfAxis(fromAxis[i], a) /\ TellsOf(i)' = TellsOf(i)
        BY <1>2, <3>1
      <4>2. TellsOf(i) = Place(ToldAt(x, a), a)
        BY <2>1, <4>1 DEF Follows, TellsPlace
      <4> QED BY <4>1, <4>2 DEF Place, ToldAt
    <3> QED BY <3>1 DEF TellsPlace, Place, ToldAt, TellsOf, OfAxis
  <2>4. x = Advanced' /\ LeftOf(cncTasks', vm'.moves, x)
    BY <2>1 DEF Follows, Advanced
  <2>5. x = CurrentMove(vm') + 2 => \E a \in Axes : Waiting(a)' /\ lag'[a] = 1
    BY <1>1, <2>1 DEF Follows
  <2>6. CurrentMove(vm') + 1 # Len(vm'.moves) =>
          ~Reached(vm'.moves[CurrentMove(vm') + 1], FromOrigin(known', initial'))
    BY <2>1 DEF Follows
  <2> QED BY <2>2, <2>3, <2>4, <2>5, <2>6 DEF Follows
<1>5. x \in 0 .. Len(vm'.moves) /\ Where' = Target(vm'.moves, x) /\ x <= CurrentMove(vm') + 2
  BY DEF Near, Where
<1> QED BY <1>3, <1>4, <1>5 DEF Near

(* An axis at the place x has been told it, or one segment less.           *)
LEMMA BehindThere ==
  ASSUME IsPath(vm.moves), InStep, NEW x, Near(x), NEW a \in Axes
  PROVE  /\ lag[a] \in {0, 1} /\ lag[a] <= x /\ x \in 0 .. Len(vm.moves) /\ Len(vm.moves) \in Nat
         /\ Place(x, a) = Where[a] /\ Place(x, a) \in Int
         /\ Place(ToldAt(x, a), a) \in Int /\ Behind(vm.moves, a, Place(ToldAt(x, a), a), Place(x, a))
<1>1. /\ lag[a] \in {0, 1} /\ lag[a] <= x /\ x \in 0 .. Len(vm.moves) /\ Where = Target(vm.moves, x)
  BY DEF Near, Within
<1>2. Len(vm.moves) \in Nat /\ \A i \in 0 .. Len(vm.moves) : Target(vm.moves, i)[a] \in Int
  BY PathEnds
<1>3. ToldAt(x, a) \in 0 .. Len(vm.moves) /\ ToldAt(x, a) <= x
  BY <1>1, <1>2 DEF ToldAt
<1>4. Behind(vm.moves, a, Place(ToldAt(x, a), a), Place(x, a))
  BY <1>1, <1>3, Onward DEF Place
<1> QED BY <1>1, <1>2, <1>3, <1>4 DEF Place

(* The reports of all axes of the task, and a last status.                 *)
LEMMA FinalPlace ==
  ASSUME PlaceInv, InStep, Cnc, IsFiniteSet(Axes), state # "null", cncRun # "idle", cncRun' = "idle",
         lag' = Still, UNCHANGED <<truePos, toAxis>>, NEW s, NEW r,
         fromAxis' = (fromAxis \o FinalReports(truePos)) \o <<Status(s, r)>>
  PROVE  PlaceInv'
<1>0. UNCHANGED <<state, armed, vm, known, initial>>
  BY CncKeepsNode DEF AxisSide, stateVars
<1>1. Running /\ toAxis = <<>>
  <2>1. Running
    BY AtRestQuiet DEF Quiet
  <2> QED BY <2>1 DEF PlaceInv, Nearby, Sent, Quiet
<1> PICK x : Near(x)
  BY <1>1 DEF PlaceInv, Nearby
<1>2. IsPath(vm.moves)
  BY <1>1 DEF PlaceInv, Running, IsPlan
<1>3. /\ Reports(fromAxis) /\ IsQueue(fromAxis) /\ Len(fromAxis) \in Nat /\ cncAxes \subseteq Axes
      /\ truePos \in [Axes -> Int] /\ initial \in [Axes -> Int] /\ known \in [Axes -> Int]
  <2>1. cncAxes \subseteq Axes
    BY DEF InStep, Steps, AxesTyped
  <2> QED BY <2>1, Typed DEF Reports
<1> PICK p : p = FinalReports(truePos)
  OBVIOUS
<1>4. IsQueue(p) /\ Len(p) \in Nat /\ Tells(p, cncAxes, truePos)
  BY <1>3, FinalReportsTell, EmptyQueue DEF Reports
<1> PICK n, l : n = Len(fromAxis) /\ l = Len(fromAxis) + Len(p) + 1
  OBVIOUS
<1>5. /\ n \in Nat /\ l \in Nat /\ n < l /\ Len(fromAxis') = l /\ fromAxis'[l].kind = "status"
      /\ \A i \in 1 .. n : fromAxis'[i] = fromAxis[i]
      /\ \A i \in n + 1 .. l - 1 : i - n \in 1 .. Len(p) /\ fromAxis'[i] = p[i - n]
  <2>1. /\ IsQueue(fromAxis \o p) /\ Len(fromAxis \o p) = n + Len(p)
        /\ \A i \in 1 .. n : (fromAxis \o p)[i] = fromAxis[i]
        /\ \A i \in 1 .. Len(p) : (fromAxis \o p)[n + i] = p[i]
    BY <1>3, <1>4, ConcatQueues
  <2> PICK q, m : q = fromAxis \o p /\ m = Status(s, r)
    OBVIOUS
  <2>2. m.kind = "status" /\ fromAxis' = Append(q, m) /\ IsQueue(q)
    <3>1. fromAxis' = q \o <<m>> /\ IsQueue(q)
      BY <2>1
    <3>2. m.kind = "status"
      BY DEF Status
    <3> QED BY <3>1, <3>2, ConcatOne
  <2>3. /\ Len(fromAxis') = Len(q) + 1 /\ fromAxis'[Len(q) + 1] = m
        /\ \A i \in 1 .. Len(q) : fromAxis'[i] = q[i]
    BY <2>2, AppendQueue
  <2>4. Len(q) = n + Len(p) /\ n \in Nat /\ Len(p) \in Nat
    BY <1>3, <1>4, <2>1
  <2>5. n \in Nat /\ l \in Nat /\ n < l /\ Len(fromAxis') = l /\ fromAxis'[l] = m
    BY <2>3, <2>4
  <2>6. \A i \in 1 .. n : fromAxis'[i] = fromAxis[i]
    <3>1. \A i \in 1 .. n : i \in 1 .. Len(q)
      BY <2>4
    <3> QED BY <2>1, <2>3, <3>1
  <2>7. \A i \in n + 1 .. l - 1 : i - n \in 1 .. Len(p) /\ i \in 1 .. Len(q) /\ n + (i - n) = i
    BY <2>4
  <2>8. \A i \in n + 1 .. l - 1 : fromAxis'[i] = p[i - n]
    BY <2>1, <2>3, <2>7
  <2> QED BY <2>2, <2>5, <2>6, <2>7, <2>8
<1>6. ASSUME NEW a \in Axes, NEW i \in 1 .. l, OfAxis(fromAxis'[i], a)
      PROVE  /\ i < l
             /\ \/ i \in 1 .. n /\ OfAxis(fromAxis[i], a) /\ TellsOf(i)' = TellsOf(i)
                \/ TellsOf(i)' = Where[a]
  <2>1. i # l
    BY <1>5, <1>6 DEF OfAxis
  <2>2. i < l /\ (i \in 1 .. n \/ i \in n + 1 .. l - 1)
    BY <1>5, <2>1
  <2>3. CASE i \in 1 .. n
    BY <1>0, <1>5, <1>6, <2>2, <2>3 DEF TellsOf
  <2>4. CASE i \in n + 1 .. l - 1
    <3>1. fromAxis'[i].value = truePos[fromAxis'[i].axis]
      BY <1>4, <1>5, <2>4 DEF Tells
    <3>2. TellsOf(i)' = truePos[a] - initial[a]
      BY <1>0, <1>6, <3>1 DEF TellsOf, OfAxis
    <3> QED BY <2>2, <3>2 DEF Where
  <2> QED BY <2>2, <2>3, <2>4
<1>7. Once'
  <2>1. ASSUME NEW i \in 1 .. l, NEW j \in 1 .. l, NEW a \in Axes, OfAxis(fromAxis'[j], a)
        PROVE  \E t \in j + 1 .. l : fromAxis'[t].kind = "status"
    <3>1. j < l
      BY <1>6, <2>1
    <3>2. l \in j + 1 .. l
      BY <1>5, <3>1
    <3> QED BY <1>5, <3>2
  <2> QED BY <1>5, <2>1 DEF Once, OfAxis
<1>8. Within(x)'
  <2>1. ASSUME NEW a \in Axes
        PROVE  /\ lag'[a] = 0 /\ 0 <= x /\ ToldAt(x, a)' = x /\ Place(ToldAt(x, a), a)' = Where[a]
               /\ HeardAt(a)' = HeardAt(a) /\ HeardAt(a) \in Int /\ Where[a] \in Int
               /\ Behind(vm.moves, a, HeardAt(a), Where[a])
    <3>1. lag'[a] = 0
      BY DEF Still
    <3>2. /\ x \in 0 .. Len(vm.moves) /\ Len(vm.moves) \in Nat /\ Place(x, a) = Where[a] /\ Where[a] \in Int
          /\ Place(ToldAt(x, a), a) \in Int /\ Behind(vm.moves, a, Place(ToldAt(x, a), a), Where[a])
      BY <1>2, BehindThere
    <3>3. ToldAt(x, a)' = x
      BY <3>1, <3>2 DEF ToldAt
    <3>4. Place(ToldAt(x, a), a)' = Where[a]
      BY <1>0, <3>2, <3>3 DEF Place
    <3>5. HeardAt(a) \in Int /\ HeardAt(a)' = HeardAt(a)
      <4>1. known[a] \in Int /\ initial[a] \in Int
        BY <1>3
      <4> QED BY <1>0, <4>1 DEF HeardAt
    <3>6. Behind(vm.moves, a, HeardAt(a), Place(ToldAt(x, a), a))
      BY DEF Near, Within
    <3>7. Behind(vm.moves, a, HeardAt(a), Where[a])
      BY <1>2, <3>2, <3>5, <3>6, BehindIs
    <3>8. 0 <= x
      BY <3>2
    <3> QED BY <3>1, <3>2, <3>3, <3>4, <3>5, <3>7, <3>8
  <2>2. ASSUME NEW a \in Axes, NEW i \in 1 .. l, OfAxis(fromAxis'[i], a)
        PROVE  Behind(vm.moves, a, TellsOf(i)', Where[a])
    <3>1. CASE i \in 1 .. n /\ OfAxis(fromAxis[i], a) /\ TellsOf(i)' = TellsOf(i)
      <4>1. Behind(vm.moves, a, TellsOf(i), Place(ToldAt(x, a), a))
        BY <3>1 DEF Near, Within
      <4>2. TellsOf(i) \in Int
        <5>1. fromAxis[i].value \in Int /\ initial[fromAxis[i].axis] \in Int
          BY <1>3, <3>1 DEF Reports, IsReport, OfAxis
        <5> QED BY <5>1 DEF TellsOf
      <4>3. /\ Place(ToldAt(x, a), a) \in Int /\ Where[a] \in Int
            /\ Behind(vm.moves, a, Place(ToldAt(x, a), a), Where[a])
        BY <1>2, BehindThere
      <4> QED BY <1>2, <3>1, <4>1, <4>2, <4>3, BehindIs
    <3>2. CASE TellsOf(i)' = Where[a]
      BY <1>2, <2>1, <3>2, BehindIs
    <3> QED BY <1>6, <2>2, <3>1, <3>2
  <2>3. \A a \in Axes : lag'[a] \in {0, 1} /\ lag'[a] <= x
    BY <2>1
  <2>5. \A a \in Axes : Behind(vm.moves, a, HeardAt(a)', Place(ToldAt(x, a), a)')
    BY <2>1
  <2>6. \A a \in Axes : \A i \in 1 .. Len(fromAxis') :
          OfAxis(fromAxis'[i], a) => Behind(vm.moves, a, TellsOf(i)', Place(ToldAt(x, a), a)')
    BY <1>5, <2>1, <2>2
  <2> QED BY <1>0, <2>3, <2>5, <2>6 DEF Within, OfAxis, Place, ToldAt, TellsOf, HeardAt
<1>9. Near(x)'
  <2>1. x \in 0 .. Len(vm.moves) /\ Where = Target(vm.moves, x) /\ x <= CurrentMove(vm) + 2
    BY DEF Near
  <2>2. Where' = Where
    BY <1>0 DEF Where
  <2>3. cncRun' = "idle"
    OBVIOUS
  <2> QED BY <1>0, <1>8, <2>1, <2>2, <2>3 DEF Near
<1>10. Nearby'
  BY <1>0, <1>1, <1>9 DEF Nearby, Running
<1> QED BY <1>7, <1>10, SidePlace

(* A command is taken: the task of a run that has begun, or nothing of it.  *)
LEMMA CommandIs ==
  ASSUME PlaceInv, InStep, state # "null", toAxis # <<>>
  PROVE  Running /\ Sent /\ IsPath(vm.moves) /\ Quiet /\ AtStart /\ \E x : Near(x)
<1>1. Running
  BY AtRestQuiet
<1>2. Sent
  BY <1>1 DEF PlaceInv, Nearby
<1>3. IsPath(vm.moves)
  BY <1>1 DEF PlaceInv, Running, IsPlan
<1> QED BY <1>1, <1>2, <1>3 DEF PlaceInv, Nearby, Sent

LEMMA RejectPlace ==
  ASSUME PlaceInv, InStep, CncReject
  PROVE  PlaceInv'
<1>1. /\ toAxis # <<>> /\ toAxis' = Tail(toAxis) /\ fromAxis' = Append(fromAxis, Status("ready", TRUE))
      /\ cncRun' = (IF cncRun = "idle" THEN "idle" ELSE "coasting")
      /\ UNCHANGED <<cncTasks, truePos, lag>>
  BY DEF CncReject, CncTake
<1>2. Cnc /\ OnlyAnswers
  BY <1>1, Typed, AnswersAre DEF Cnc
<1>3. UNCHANGED <<state, armed, vm, known, initial>>
  BY <1>2, CncKeepsNode DEF AxisSide, stateVars
<1>4. cncRun' = "idle" => lag' = Still
  BY <1>1 DEF PlaceInv
<1>5. ASSUME state # "null" PROVE Once' /\ Nearby'
  <2>1. Running /\ Sent /\ Quiet /\ \E x : Near(x)
    BY <1>1, <1>5, CommandIs
  <2>2. cncRun = "idle" /\ cncRun' = "idle"
    BY <1>1, <2>1 DEF Quiet
  <2>3. toAxis' = <<>>
    BY <1>1, <2>1 DEF Sent
  <2> PICK x : Near(x)
    BY <2>1
  <2>4. Near(x)'
    BY <1>1, <1>2, <1>3, <2>2, AnswersNear
  <2>5. Once'
    BY <1>2, <1>3, <1>5, <2>2, AnswersOnce DEF PlaceInv
  <2> QED BY <2>3, <2>4, <2>5 DEF Nearby
<1>6. Running => state # "null"
  BY DEF Running
<1> QED BY <1>2, <1>4, <1>5, <1>6, SidePlace

LEMMA DeactivatePlace ==
  ASSUME PlaceInv, InStep, CncDeactivate
  PROVE  PlaceInv'
<1>1. toAxis # <<>> /\ Head(toAxis).cmd = "deactivate" /\ lag' = lag /\ Cnc
  BY DEF CncDeactivate, CncTake, Cnc
<1>2. state = "null"
  <2>1. ASSUME state # "null" PROVE FALSE
    <3>1. Sent
      BY <1>1, <2>1, CommandIs
    <3>2. Head(toAxis).cmd = "move"
      BY <3>1 DEF Sent, AxisTask
    <3> QED BY <1>1, <3>2
  <2> QED BY <2>1
<1>3. cncRun' = "idle" => cncRun = "idle"
  BY DEF CncDeactivate
<1>4. cncRun' = "idle" => lag' = Still
  BY <1>1, <1>3 DEF PlaceInv
<1> QED BY <1>1, <1>2, <1>4, SidePlace DEF Running

(* The whole list is taken.                                                *)
LEMMA TaskTaken ==
  ASSUME InStep, ShortLists, CncActivate, Running, Sent, IsPath(vm.moves)
  PROVE  /\ Len(cncTasks') = Len(vm.moves) /\ LeftOf(cncTasks', vm.moves, 0) /\ toAxis' = <<>>
         /\ cncRun' # "coasting"
<1> DEFINE task == Head(toAxis).task
<1>1. /\ toAxis' = Tail(toAxis) /\ cncTasks' = SubSeq(task.list, 1, task.count)
      /\ cncRun' = (IF cncTasks' = <<>> THEN "idle" ELSE "moving")
  BY DEF CncActivate, CncTake
<1>2. toAxis' = <<>> /\ task = FillCncTask(vm)
  BY <1>1 DEF AxisTask, Sent
<1>3. Linked(vm.moves)
  BY DEF IsPath, Linked
<1>4. /\ Len(vm.moves) \in Nat /\ Len(vm.moves) > 0 /\ IsTask(FillCncTask(vm))
      /\ \A i \in 1 .. Len(vm.moves) : \A a \in Axes :
           FillCncTask(vm).list[i][a] = vm.moves[i].to[a] - vm.moves[i].from[a]
  BY <1>3, TaskIs
<1>5. task.count = Len(vm.moves)
  <2>1. Len(vm.moves) < 256 /\ FillCncTask(vm).count = Len(vm.moves) % 2^8
    BY DEF ShortLists, FillCncTask, PhaseCount
  <2>2. 2^8 = 256
    OBVIOUS
  <2>3. FillCncTask(vm).count = Len(vm.moves) % 256
    BY <2>1, <2>2
  <2> DEFINE n == Len(vm.moves)
  <2>4. n \in Nat /\ n < 256
    BY <1>4, <2>1
  <2> HIDE DEF n
  <2>5. n % 256 = n
    BY <2>4
  <2> QED BY <1>2, <2>3, <2>5 DEF n
<1>6. /\ Len(cncTasks') = task.count
      /\ \A i \in 1 .. task.count : cncTasks'[i] = task.list[i]
  BY <1>1, <1>2, <1>4, AllRead DEF IsTask
<1>7. ASSUME NEW i \in 1 .. Len(cncTasks'), NEW a \in Axes
      PROVE  cncTasks'[i][a] = vm.moves[0 + i].to[a] - vm.moves[0 + i].from[a]
  <2>1. i \in 1 .. Len(vm.moves) /\ i \in 1 .. task.count /\ 0 + i = i
    BY <1>4, <1>5, <1>6
  <2>2. cncTasks'[i] = FillCncTask(vm).list[i]
    BY <1>2, <1>6, <2>1
  <2> QED BY <1>4, <2>1, <2>2
<1>8. LeftOf(cncTasks', vm.moves, 0)
  BY <1>7 DEF LeftOf
<1> QED BY <1>1, <1>2, <1>5, <1>6, <1>8

(* Before they move everybody knows where the axes are.                    *)
LEMMA ActivatePlace ==
  ASSUME PlaceInv, InStep, ShortLists, CncActivate
  PROVE  PlaceInv'
<1>1. /\ toAxis # <<>> /\ cncRun = "idle" /\ UNCHANGED <<truePos, lag>>
      /\ (fromAxis' = fromAxis \/ fromAxis' = Append(fromAxis, Status("active", FALSE)))
  BY DEF CncActivate, CncTake
<1>2. Cnc /\ OnlyAnswers
  BY <1>1, Typed, AnswersAre DEF Cnc
<1>3. UNCHANGED <<state, armed, vm, known, initial>>
  BY <1>2, CncKeepsNode DEF AxisSide, stateVars
<1>4. lag' = Still /\ \A a \in Axes : lag'[a] = 0
  BY <1>1 DEF PlaceInv, Still
<1>5. ASSUME state # "null" PROVE Once' /\ Nearby'
  <2>1. Running /\ Sent /\ Quiet /\ AtStart /\ IsPath(vm.moves)
    BY <1>1, <1>5, CommandIs
  <2>2. /\ Len(cncTasks') = Len(vm.moves) /\ LeftOf(cncTasks', vm.moves, 0) /\ toAxis' = <<>>
        /\ cncRun' # "coasting"
    BY <2>1, TaskTaken
  <2>3. known = truePos /\ TrueFrom(1) /\ CurrentMove(vm) = 0 /\ Where = Target(vm.moves, 0)
    BY <2>1 DEF Quiet, AtStart, Target
  <2>4. Once'
    <3>1. \A i \in 1 .. Len(fromAxis) : fromAxis[i].kind = "position"
      BY <2>3 DEF TrueFrom
    <3> QED BY <1>2, <1>3, <1>5, <2>2, <3>1, AnswersOnce DEF PlaceInv
  <2>5. /\ Len(vm.moves) \in Nat \ {0} /\ vm.moves[1] \in Move /\ Target(vm.moves, 0) \in [Axes -> Int]
        /\ \E a \in Axes : MovesAxis(vm.moves[1], a)
    <3>1. Len(vm.moves) \in Nat \ {0}
      BY <2>1, PathEnds
    <3>2. 1 \in 1 .. Len(vm.moves) /\ 0 \in 0 .. Len(vm.moves)
      BY <3>1
    <3> QED BY <2>1, <3>1, <3>2, PathEnds DEF IsPath
  <2>6. ASSUME NEW a \in Axes
        PROVE  /\ ToldAt(0, a)' = 0 /\ Place(0, a)' = Where[a] /\ Place(ToldAt(0, a), a)' = Where[a]
               /\ HeardAt(a)' = Where[a] /\ Behind(vm.moves, a, Where[a], Where[a])
    <3>1. ToldAt(0, a)' = 0
      BY <1>4 DEF ToldAt
    <3>2. Place(ToldAt(0, a), a)' = Where[a] /\ Place(0, a)' = Where[a]
      BY <1>3, <2>3, <3>1 DEF Place
    <3>3. HeardAt(a)' = Where[a]
      BY <1>3, <2>3 DEF HeardAt, Where
    <3>4. Where[a] \in Int
      BY <2>3, <2>5
    <3>5. Behind(vm.moves, a, Where[a], Where[a])
      BY <2>1, <3>4, BehindIs
    <3> QED BY <3>1, <3>2, <3>3, <3>5
  <2>7. ASSUME NEW a \in Axes, NEW i \in 1 .. Len(fromAxis'), OfAxis(fromAxis'[i], a)
        PROVE  TellsOf(i)' = Where[a]
    <3>1. i \in 1 .. Len(fromAxis) /\ fromAxis'[i] = fromAxis[i]
      BY <1>2, <2>7, AnswersTell
    <3>2. fromAxis[i].value = truePos[a]
      BY <2>3, <2>7, <3>1 DEF TrueFrom, OfAxis
    <3> QED BY <1>3, <2>7, <3>1, <3>2 DEF TellsOf, OfAxis, Where
  <2>8. Within(0)'
    <3>1. \A a \in Axes : lag'[a] \in {0, 1} /\ lag'[a] <= 0
      BY <1>4
    <3>2. \A a \in Axes : Behind(vm.moves, a, HeardAt(a)', Place(ToldAt(0, a), a)')
      BY <2>6
    <3>3. \A a \in Axes : \A i \in 1 .. Len(fromAxis') :
            OfAxis(fromAxis'[i], a) => Behind(vm.moves, a, TellsOf(i)', Place(ToldAt(0, a), a)')
      BY <2>6, <2>7
    <3> QED BY <1>3, <3>1, <3>2, <3>3 DEF Within, OfAxis, Place, ToldAt, TellsOf, HeardAt
  <2>9. Follows(0)'
    <3>1. 0 = Advanced' /\ LeftOf(cncTasks', vm'.moves, 0)
      BY <1>3, <2>2, <2>5 DEF Advanced
    <3>2. \A a \in Axes : Trails(0, a)'
      <4> TAKE a \in Axes
      <4>1. Back(0) = 0
        BY DEF Back
      <4>2. Place(IF Waiting(a) THEN Back(ToldAt(0, a)) ELSE ToldAt(0, a), a)' = Where[a]
        BY <2>6, <4>1 DEF Place
      <4> QED BY <1>3, <2>6, <4>2 DEF Trails, Place, HeardAt, ToldAt
    <3>3. \A i \in 1 .. Len(fromAxis') : \A a \in Axes : TellsPlace(i, 0, a)'
      BY <2>6, <2>7 DEF TellsPlace, OfAxis, Place, ToldAt, TellsOf
    <3>4. ~(0 = CurrentMove(vm') + 2)
      BY <1>3, <2>3
    <3>5. ~Reached(vm'.moves[CurrentMove(vm') + 1], FromOrigin(known', initial'))
      <4>1. ~Reached(vm.moves[1], vm.moves[1].from)
        BY <2>5, NotReachedAtFrom
      <4>2. FromOrigin(known', initial') = Where
        BY <1>3, <2>3 DEF FromOrigin, Where
      <4>3. Where = vm.moves[1].from
        BY <2>1 DEF AtStart
      <4> QED BY <1>3, <2>3, <4>1, <4>2, <4>3
    <3> QED BY <3>1, <3>2, <3>3, <3>4, <3>5 DEF Follows
  <2>10. Near(0)'
    <3>1. 0 \in 0 .. Len(vm.moves) /\ 0 <= 0 + 2
      BY <2>5
    <3>2. Where' = Where
      BY <1>1, <1>3 DEF Where
    <3> QED BY <1>3, <2>3, <2>8, <2>9, <3>1, <3>2 DEF Near
  <2> QED BY <2>2, <2>4, <2>10 DEF Nearby
<1>6. Running => state # "null"
  BY DEF Running
<1> QED BY <1>2, <1>4, <1>5, <1>6, SidePlace

(* One axis tells where it is; no report of it was under way.              *)
LEMMA ReportsAre ==
  ASSUME InStep, NEW a \in Axes, CncReport(a)
  PROVE  /\ Len(fromAxis) \in Nat /\ Len(fromAxis') = Len(fromAxis) + 1
         /\ \A i \in 1 .. Len(fromAxis) : fromAxis'[i] = fromAxis[i]
         /\ OfAxis(fromAxis'[Len(fromAxis) + 1], a) /\ fromAxis'[Len(fromAxis) + 1].value = truePos[a]
         /\ ~Waiting(a) /\ Waiting(a)' /\ \A b : b # a => (Waiting(b)' <=> Waiting(b))
         /\ \A b : \A i \in 1 .. Len(fromAxis') : OfAxis(fromAxis'[i], b) =>
              \/ i \in 1 .. Len(fromAxis) /\ fromAxis'[i] = fromAxis[i]
              \/ i = Len(fromAxis) + 1 /\ b = a
<1> DEFINE m == Position(a, truePos[a])
<1>1. IsQueue(fromAxis) /\ fromAxis' = Append(fromAxis, m)
  BY Typed DEF CncReport, Reports
<1>2. OfAxis(m, a) /\ m.value = truePos[a] /\ \A b : OfAxis(m, b) => b = a
  BY DEF OfAxis, Position
<1> HIDE DEF m
<1> PICK n : n = Len(fromAxis)
  OBVIOUS
<1>3. /\ n \in Nat /\ Len(fromAxis') = n + 1 /\ fromAxis'[n + 1] = m
      /\ \A i \in 1 .. n : fromAxis'[i] = fromAxis[i]
  BY <1>1, AppendQueue
<1>4. \A i \in 1 .. n + 1 : i \in 1 .. n \/ i = n + 1
  BY <1>3
<1>5. n + 1 \in 1 .. n + 1 /\ \A i \in 1 .. n : i \in 1 .. n + 1
  BY <1>3
<1>6. ~Waiting(a)
  <2>1. DOMAIN fromAxis = 1 .. n
    BY <1>1 DEF IsQueue
  <2> QED BY <2>1 DEF Waiting, OfAxis, CncReport
<1>7. \A b : Waiting(b)' <=> \E i \in 1 .. n + 1 : OfAxis(fromAxis'[i], b)
  BY <1>3 DEF Waiting, OfAxis
<1>8. Waiting(a)'
  BY <1>2, <1>3, <1>5, <1>7
<1>9. ASSUME NEW b, b # a PROVE Waiting(b)' <=> Waiting(b)
  <2>1. Waiting(b)' <=> \E i \in 1 .. n : OfAxis(fromAxis[i], b)
    BY <1>2, <1>3, <1>4, <1>5, <1>7, <1>9
  <2> QED BY <2>1 DEF Waiting
<1>10. \A b : \A i \in 1 .. Len(fromAxis') : OfAxis(fromAxis'[i], b) =>
         \/ i \in 1 .. n /\ fromAxis'[i] = fromAxis[i]
         \/ i = n + 1 /\ b = a
  BY <1>2, <1>3, <1>4
<1> QED BY <1>2, <1>3, <1>6, <1>8, <1>9, <1>10

LEMMA ReportOnce ==
  ASSUME Once, InStep, NEW a \in Axes, CncReport(a), state' = state, cncRun' = cncRun
  PROVE  Once'
<1>1. ASSUME state # "null",
             NEW i \in 1 .. Len(fromAxis'), NEW j \in 1 .. Len(fromAxis'), NEW b \in Axes,
             i < j, OfAxis(fromAxis'[i], b), OfAxis(fromAxis'[j], b)
      PROVE  cncRun' = "idle" /\ \E s \in j + 1 .. Len(fromAxis') : fromAxis'[s].kind = "status"
  <2> PICK n : n = Len(fromAxis)
    OBVIOUS
  <2>1. /\ n \in Nat /\ Len(fromAxis') = n + 1 /\ ~Waiting(a)
        /\ \A l \in 1 .. n : fromAxis'[l] = fromAxis[l]
        /\ i \in 1 .. n \/ i = n + 1
        /\ (j \in 1 .. n /\ fromAxis'[j] = fromAxis[j]) \/ (j = n + 1 /\ b = a)
    BY <1>1, ReportsAre
  <2>2. i \in 1 .. n
    BY <1>1, <2>1
  <2>3. j \in 1 .. n
    <3>1. ASSUME b = a PROVE FALSE
      BY <1>1, <2>1, <2>2, <3>1 DEF Waiting
    <3> QED BY <2>1, <3>1
  <2>4. cncRun = "idle" /\ \E s \in j + 1 .. n : fromAxis[s].kind = "status"
    BY <1>1, <2>1, <2>2, <2>3 DEF Once
  <2> PICK s \in j + 1 .. n : fromAxis[s].kind = "status"
    BY <2>4
  <2>5. s \in 1 .. n /\ s \in j + 1 .. n + 1
    BY <2>1, <2>3
  <2> QED BY <2>1, <2>4, <2>5
<1>2. state # "null" => \A i, j \in 1 .. Len(fromAxis') : \A b \in Axes :
        i < j /\ OfAxis(fromAxis'[i], b) /\ OfAxis(fromAxis'[j], b) =>
          cncRun' = "idle" /\ \E s \in j + 1 .. Len(fromAxis') : fromAxis'[s].kind = "status"
  BY <1>1
<1> QED BY <1>2 DEF Once, OfAxis

LEMMA ReportNear ==
  ASSUME InStep, NEW a \in Axes, CncReport(a), UNCHANGED <<vm, known, initial>>,
         IsPath(vm.moves), NEW x, Near(x)
  PROVE  Near(x)'
<1>1. /\ UNCHANGED <<cncRun, cncTasks, truePos>> /\ lag' = [lag EXCEPT ![a] = 0]
      /\ lag \in [Axes -> Nat]
  BY Typed DEF CncReport
<1>2. lag'[a] = 0 /\ \A b \in Axes : b # a => lag'[b] = lag[b]
  BY <1>1
<1>3. /\ lag[a] \in {0, 1} /\ lag[a] <= x /\ x \in 0 .. Len(vm.moves) /\ Len(vm.moves) \in Nat
      /\ Place(x, a) = Where[a] /\ Place(x, a) \in Int
      /\ Place(ToldAt(x, a), a) \in Int /\ Behind(vm.moves, a, Place(ToldAt(x, a), a), Place(x, a))
  BY BehindThere
<1>4. ToldAt(x, a)' = x /\ \A b \in Axes : b # a => ToldAt(x, b)' = ToldAt(x, b)
  BY <1>2, <1>3 DEF ToldAt
<1>5. \A b : HeardAt(b)' = HeardAt(b) /\ \A n : Place(n, b)' = Place(n, b)
  BY DEF HeardAt, Place
<1>6. /\ Place(ToldAt(x, a), a)' = Place(x, a)
      /\ \A b \in Axes : b # a => Place(ToldAt(x, b), b)' = Place(ToldAt(x, b), b)
  BY <1>4 DEF Place
<1>7. HeardAt(a) \in Int
  <2>1. known[a] \in Int /\ initial[a] \in Int
    BY Typed
  <2> QED BY <2>1 DEF HeardAt
<1>8. ASSUME NEW b \in Axes, NEW i \in 1 .. Len(fromAxis'), OfAxis(fromAxis'[i], b)
      PROVE  \/ b # a /\ i \in 1 .. Len(fromAxis) /\ OfAxis(fromAxis[i], b) /\ TellsOf(i)' = TellsOf(i)
             \/ b = a /\ TellsOf(i)' = Place(x, a)
  <2>1. CASE i \in 1 .. Len(fromAxis) /\ fromAxis'[i] = fromAxis[i]
    <3>1. OfAxis(fromAxis[i], b)
      BY <1>8, <2>1
    <3>2. b # a
      BY <2>1, <3>1, ReportsAre DEF Waiting
    <3> QED BY <2>1, <3>1, <3>2 DEF TellsOf
  <2>2. CASE i = Len(fromAxis) + 1 /\ b = a
    <3>1. fromAxis'[i].value = truePos[a] /\ fromAxis'[i].axis = a
      BY <1>8, <2>2, ReportsAre DEF OfAxis
    <3>2. TellsOf(i)' = Where[a]
      BY <3>1 DEF TellsOf, Where
    <3> QED BY <1>3, <2>2, <3>2
  <2> QED BY <1>8, <2>1, <2>2, ReportsAre
<1>9. Within(x)'
  <2>1. \A b \in Axes : lag'[b] \in {0, 1} /\ lag'[b] <= x
    BY <1>2, <1>3 DEF Near, Within
  <2>2. \A b \in Axes : Behind(vm.moves, b, HeardAt(b), Place(ToldAt(x, b), b)')
    <3> TAKE b \in Axes
    <3>1. Behind(vm.moves, b, HeardAt(b), Place(ToldAt(x, b), b))
      BY DEF Near, Within
    <3>2. CASE b = a
      <4>1. Behind(vm.moves, a, HeardAt(a), Place(x, a))
        BY <1>3, <1>7, <3>1, <3>2, BehindIs
      <4> QED BY <1>6, <3>2, <4>1
    <3> QED BY <1>6, <3>1, <3>2
  <2>3. \A b \in Axes : \A i \in 1 .. Len(fromAxis') :
          OfAxis(fromAxis'[i], b) => Behind(vm.moves, b, TellsOf(i)', Place(ToldAt(x, b), b)')
    <3> TAKE b \in Axes
    <3> TAKE i \in 1 .. Len(fromAxis')
    <3>0. HAVE OfAxis(fromAxis'[i], b)
    <3>1. CASE b # a /\ i \in 1 .. Len(fromAxis) /\ OfAxis(fromAxis[i], b) /\ TellsOf(i)' = TellsOf(i)
      BY <1>6, <3>1 DEF Near, Within
    <3>2. CASE b = a /\ TellsOf(i)' = Place(x, a)
      BY <1>3, <1>6, <3>2, BehindIs
    <3> QED BY <1>8, <3>0, <3>1, <3>2
  <2> QED BY <1>5, <2>1, <2>2, <2>3 DEF Within, OfAxis, Place, ToldAt, TellsOf, HeardAt
<1>10. ASSUME cncRun # "idle" PROVE Follows(x)'
  <2>0. Follows(x)
    BY <1>10 DEF Near
  <2>1. x = Advanced' /\ LeftOf(cncTasks', vm'.moves, x)
    BY <1>1, <2>0 DEF Follows, Advanced
  <2>2. \A b \in Axes : Trails(x, b)'
    <3> TAKE b \in Axes
    <3>1. Trails(x, b)
      BY <2>0 DEF Follows
    <3>2. CASE b # a
      <4>1. (Waiting(b)' <=> Waiting(b)) /\ ToldAt(x, b)' = ToldAt(x, b)
        BY <1>4, <3>2, ReportsAre
      <4> QED BY <3>1, <4>1 DEF Trails, Place, HeardAt
    <3>3. CASE b = a
      <4>1. Waiting(a)' /\ ~Waiting(a)
        BY ReportsAre
      <4>2. Behind(vm.moves, a, Place(ToldAt(x, a), a), HeardAt(a))
        BY <3>1, <3>3, <4>1 DEF Trails
      <4>3. Behind(vm.moves, a, Place(Back(x), a), HeardAt(a))
        <5>1. CASE lag[a] = 1
          <6>1. ToldAt(x, a) = Back(x)
            BY <1>3, <5>1 DEF ToldAt, Back
          <6> QED BY <4>2, <6>1
        <5>2. CASE lag[a] = 0
          <6>1. ToldAt(x, a) = x
            BY <1>3, <5>2 DEF ToldAt
          <6>2. Back(x) \in 0 .. Len(vm.moves) /\ Back(x) <= x
            BY <1>3 DEF Back
          <6>3. Behind(vm.moves, a, Place(Back(x), a), Place(x, a))
            BY <1>3, <6>2, Onward DEF Place
          <6>4. Place(Back(x), a) \in Int
            BY <6>2, PathEnds DEF Place
          <6> QED BY <1>3, <1>7, <4>2, <6>1, <6>3, <6>4, BehindIs
        <5> QED BY <1>3, <5>1, <5>2
      <4> QED BY <1>4, <3>3, <4>1, <4>3 DEF Trails, Place, HeardAt
    <3> QED BY <3>2, <3>3
  <2>3. \A i \in 1 .. Len(fromAxis') : \A b \in Axes : TellsPlace(i, x, b)'
    <3> TAKE i \in 1 .. Len(fromAxis')
    <3> TAKE b \in Axes
    <3>1. ASSUME OfAxis(fromAxis'[i], b) PROVE TellsOf(i)' = Place(ToldAt(x, b), b)'
      <4>1. CASE b # a /\ i \in 1 .. Len(fromAxis) /\ OfAxis(fromAxis[i], b) /\ TellsOf(i)' = TellsOf(i)
        BY <1>6, <2>0, <4>1 DEF Follows, TellsPlace
      <4>2. CASE b = a /\ TellsOf(i)' = Place(x, a)
        BY <1>6, <4>2
      <4> QED BY <1>8, <3>1, <4>1, <4>2
    <3> QED BY <3>1 DEF TellsPlace, OfAxis, Place, ToldAt, TellsOf
  <2>4. x = CurrentMove(vm') + 2 => \E b \in Axes : Waiting(b)' /\ lag'[b] = 1
    <3>1. ASSUME x = CurrentMove(vm) + 2 PROVE \E b \in Axes : Waiting(b)' /\ lag'[b] = 1
      <4> PICK b \in Axes : Waiting(b) /\ lag[b] = 1
        BY <2>0, <3>1 DEF Follows
      <4>1. b # a
        BY ReportsAre
      <4> QED BY <1>2, <4>1, ReportsAre
    <3> QED BY <3>1
  <2>5. CurrentMove(vm') + 1 # Len(vm'.moves) =>
          ~Reached(vm'.moves[CurrentMove(vm') + 1], FromOrigin(known', initial'))
    BY <2>0 DEF Follows
  <2> QED BY <2>1, <2>2, <2>3, <2>4, <2>5 DEF Follows
<1>11. x \in 0 .. Len(vm'.moves) /\ Where' = Target(vm'.moves, x) /\ x <= CurrentMove(vm') + 2
  BY <1>1 DEF Near, Where
<1> QED BY <1>1, <1>9, <1>10, <1>11 DEF Near

LEMMA ReportPlace ==
  ASSUME PlaceInv, InStep, NEW a \in Axes, CncReport(a)
  PROVE  PlaceInv'
<1>1. /\ Cnc /\ UNCHANGED <<cncRun, toAxis, truePos>> /\ lag' = [lag EXCEPT ![a] = 0]
  BY DEF CncReport, CncOwn, Cnc
<1>2. UNCHANGED <<state, armed, vm, known, initial>>
  BY <1>1, CncKeepsNode DEF AxisSide, stateVars
<1>3. cncRun' = "idle" => lag' = Still
  <2>1. ASSUME lag = Still PROVE [lag EXCEPT ![a] = 0] = Still
    BY <2>1 DEF Still
  <2> QED BY <1>1, <2>1 DEF PlaceInv
<1>4. Once'
  BY <1>1, <1>2, ReportOnce DEF PlaceInv
<1>5. ASSUME Running PROVE Nearby'
  <2>1. IsPath(vm.moves) /\ (toAxis = <<>> \/ Sent) /\ \E x : Near(x)
    BY <1>5 DEF PlaceInv, Running, IsPlan, Nearby
  <2> PICK x : Near(x)
    BY <2>1
  <2>2. Near(x)'
    BY <1>2, <2>1, ReportNear
  <2>3. Sent => Sent'
    <3>1. TrueFrom(1) => TrueFrom(1)'
      <4>1. ASSUME TrueFrom(1), NEW i \in 1 .. Len(fromAxis')
            PROVE  fromAxis'[i].kind = "position" /\ fromAxis'[i].value = truePos[fromAxis'[i].axis]
        <5>1. /\ Len(fromAxis) \in Nat /\ Len(fromAxis') = Len(fromAxis) + 1
              /\ \A j \in 1 .. Len(fromAxis) : fromAxis'[j] = fromAxis[j]
              /\ OfAxis(fromAxis'[Len(fromAxis) + 1], a) /\ fromAxis'[Len(fromAxis) + 1].value = truePos[a]
          BY ReportsAre
        <5>2. i \in 1 .. Len(fromAxis) \/ i = Len(fromAxis) + 1
          BY <5>1
        <5> QED BY <4>1, <5>1, <5>2 DEF TrueFrom, OfAxis
      <4> QED BY <1>1, <4>1 DEF TrueFrom
    <3>2. Quiet => Quiet'
      BY <1>1, <1>2, <3>1 DEF Quiet
    <3>3. AtStart' <=> AtStart
      BY <1>1, <1>2 DEF AtStart, Where, CurrentMove
    <3> QED BY <1>1, <1>2, <3>2, <3>3 DEF Sent
  <2> QED BY <1>1, <2>1, <2>2, <2>3 DEF Nearby
<1> QED BY <1>1, <1>3, <1>4, <1>5, SidePlace

(* One segment further: the axes that moved in it have not told of it.      *)
LEMMA AdvanceIs ==
  ASSUME SegmentsPerReport = 1, InStep, Running, CncAdvance, UNCHANGED <<vm, initial>>,
         IsPath(vm.moves), NEW x, Near(x)
  PROVE  /\ x + 1 \in 1 .. Len(vm.moves) /\ Len(vm.moves) \in Nat /\ x \in Nat
         /\ x <= CurrentMove(vm) + 1 /\ CurrentMove(vm) \in Int
         /\ x + 1 = Advanced' /\ LeftOf(cncTasks', vm.moves, x + 1)
         /\ Where' = Target(vm.moves, x + 1)
         /\ \A a \in Axes : lag[a] = 0 /\ lag'[a] = IF MovesAxis(vm.moves[x + 1], a) THEN 1 ELSE 0
<1>1. /\ cncRun # "idle" /\ cncTasks # <<>> /\ \A a \in Axes : lag[a] < 1
      /\ truePos' = After(truePos, Head(cncTasks)) /\ cncTasks' = Tail(cncTasks)
      /\ lag' = [a \in Axes |-> IF Head(cncTasks)[a] # 0 THEN lag[a] + 1 ELSE lag[a]]
  BY DEF CncAdvance
<1>2. /\ cncTasks \in Seq([Axes -> Int]) /\ lag \in [Axes -> Nat] /\ truePos \in [Axes -> Int]
      /\ initial \in [Axes -> Int]
  BY Typed
<1> PICK n, t : n = Head(cncTasks) /\ t = Len(cncTasks)
  OBVIOUS
<1>3. /\ n \in [Axes -> Int] /\ n = cncTasks[1] /\ t \in Nat /\ t > 0 /\ Len(cncTasks') = t - 1
      /\ \A i \in 1 .. t - 1 : cncTasks'[i] = cncTasks[i + 1] /\ i + 1 \in 1 .. t
  BY <1>1, <1>2
<1>4. \A a \in Axes : lag[a] = 0
  BY <1>1, <1>2
<1>5. \A a \in Axes : truePos'[a] = truePos[a] + n[a] /\ lag'[a] = IF n[a] # 0 THEN 1 ELSE 0
  <2>1. \A a \in Axes : truePos'[a] = truePos[a] + n[a]
    BY <1>1 DEF After
  <2>2. \A a \in Axes : lag'[a] = IF n[a] # 0 THEN lag[a] + 1 ELSE lag[a]
    BY <1>1
  <2> QED BY <1>4, <2>1, <2>2
<1>6. Follows(x) /\ x \in 0 .. Len(vm.moves) /\ Where = Target(vm.moves, x) /\ x <= CurrentMove(vm) + 2
  BY <1>1 DEF Near
<1>7. x = Len(vm.moves) - t /\ LeftOf(cncTasks, vm.moves, x)
  BY <1>6 DEF Follows, Advanced
<1> PICK l : l = Len(vm.moves)
  OBVIOUS
<1>8. l \in Nat /\ x \in Nat /\ x + 1 \in 1 .. l /\ x + 1 = l - (t - 1)
  <2>1. l \in Nat
    BY PathEnds
  <2> QED BY <1>3, <1>6, <1>7, <2>1
<1>9. x + 1 = Advanced'
  BY <1>3, <1>8 DEF Advanced
<1>10. CurrentMove(vm) \in Int /\ x <= CurrentMove(vm) + 1
  <2>1. x # CurrentMove(vm) + 2
    BY <1>4, <1>6 DEF Follows
  <2>2. CurrentMove(vm) \in Int
    BY Typed DEF Running
  <2> QED BY <1>6, <1>8, <2>1, <2>2
<1>11. \A a \in Axes : n[a] = vm.moves[x + 1].to[a] - vm.moves[x + 1].from[a]
  <2>1. 1 \in 1 .. Len(cncTasks)
    BY <1>3
  <2> QED BY <1>3, <1>7, <2>1 DEF LeftOf
<1>12. LeftOf(cncTasks', vm.moves, x + 1)
  <2>1. ASSUME NEW i \in 1 .. Len(cncTasks'), NEW a \in Axes
        PROVE  cncTasks'[i][a] = vm.moves[(x + 1) + i].to[a] - vm.moves[(x + 1) + i].from[a]
    <3>1. cncTasks'[i] = cncTasks[i + 1] /\ i + 1 \in 1 .. t /\ x + (i + 1) = (x + 1) + i
      BY <1>3, <1>8
    <3>2. cncTasks[i + 1][a] = vm.moves[x + (i + 1)].to[a] - vm.moves[x + (i + 1)].from[a]
      BY <1>7, <3>1 DEF LeftOf
    <3> QED BY <3>1, <3>2
  <2> QED BY <2>1 DEF LeftOf
<1>13. /\ vm.moves[x + 1].from \in [Axes -> Int] /\ vm.moves[x + 1].to \in [Axes -> Int]
       /\ Target(vm.moves, x + 1) = vm.moves[x + 1].to /\ Target(vm.moves, x) = vm.moves[x + 1].from
  <2>1. /\ Target(vm.moves, x + 1) = vm.moves[x + 1].to /\ vm.moves[x + 1] \in Move
        /\ Target(vm.moves, (x + 1) - 1) = vm.moves[x + 1].from
    BY <1>8, PathEnds
  <2>2. (x + 1) - 1 = x
    BY <1>8
  <2> QED BY <2>1, <2>2 DEF Move
<1>14. ASSUME NEW a \in Axes
       PROVE  /\ Where'[a] = vm.moves[x + 1].to[a]
              /\ n[a] # 0 <=> MovesAxis(vm.moves[x + 1], a)
  <2>1. Where'[a] = truePos'[a] - initial[a] /\ Where[a] = truePos[a] - initial[a]
    BY DEF Where
  <2>2. /\ truePos[a] \in Int /\ initial[a] \in Int /\ vm.moves[x + 1].to[a] \in Int
        /\ vm.moves[x + 1].from[a] \in Int /\ Where[a] = vm.moves[x + 1].from[a]
    BY <1>2, <1>6, <1>13
  <2>3. Where'[a] = vm.moves[x + 1].to[a]
    <3>1. truePos'[a] = truePos[a] + n[a]
      BY <1>5
    <3>2. n[a] = vm.moves[x + 1].to[a] - vm.moves[x + 1].from[a]
      BY <1>11
    <3> QED BY <2>1, <2>2, <3>1, <3>2
  <2>4. n[a] # 0 <=> vm.moves[x + 1].from[a] # vm.moves[x + 1].to[a]
    BY <1>11, <2>2
  <2> QED BY <2>3, <2>4 DEF MovesAxis
<1>15. Where' = Target(vm.moves, x + 1)
  <2>1. Where' = [a \in Axes |-> Where'[a]]
    BY DEF Where
  <2>2. vm.moves[x + 1].to = [a \in Axes |-> vm.moves[x + 1].to[a]]
    BY <1>13
  <2> QED BY <1>13, <1>14, <2>1, <2>2
<1>16. \A a \in Axes : lag'[a] = IF MovesAxis(vm.moves[x + 1], a) THEN 1 ELSE 0
  BY <1>5, <1>14
<1> QED BY <1>4, <1>8, <1>9, <1>10, <1>12, <1>15, <1>16

LEMMA AdvanceNear ==
  ASSUME SegmentsPerReport = 1, InStep, Running, CncAdvance, UNCHANGED <<vm, known, initial>>,
         IsPath(vm.moves), NEW x, Near(x)
  PROVE  Near(x + 1)'
<1>1. /\ cncRun # "idle" /\ UNCHANGED <<cncRun, fromAxis>>
  BY DEF CncAdvance
<1>2. /\ x + 1 \in 1 .. Len(vm.moves) /\ Len(vm.moves) \in Nat /\ x \in Nat
      /\ x <= CurrentMove(vm) + 1 /\ CurrentMove(vm) \in Int
      /\ x + 1 = Advanced' /\ LeftOf(cncTasks', vm.moves, x + 1)
      /\ Where' = Target(vm.moves, x + 1)
      /\ \A a \in Axes : lag[a] = 0 /\ lag'[a] = IF MovesAxis(vm.moves[x + 1], a) THEN 1 ELSE 0
  BY AdvanceIs
<1>3. Follows(x) /\ Within(x)
  BY <1>1 DEF Near
<1>4. known \in [Axes -> Int] /\ initial \in [Axes -> Int]
  BY Typed
<1> PICK m, e : m = vm.moves /\ e = CurrentMove(vm)
  OBVIOUS
(* An axis that moves in one segment moves in the next.                    *)
<1>5. ASSUME NEW a \in Axes, x \in 1 .. Len(m), MovesAxis(m[x], a) PROVE MovesAxis(m[x + 1], a)
  <2>1. KeepsWay(m[x], m[x + 1]) /\ m[x] \in Move /\ m[x + 1] \in Move
    <3>1. x \in 1 .. Len(m) - 1
      BY <1>2, <1>5
    <3> QED BY <1>2, <1>5, <3>1, PathEnds DEF IsPath
  <2> QED BY <1>5, <2>1, DirectionsAre
<1>6. ASSUME NEW a \in Axes
      PROVE  /\ ToldAt(x, a) = x /\ ToldAt(x + 1, a)' = x + 1 - lag'[a]
             /\ Place(ToldAt(x + 1, a), a)' = Place(x, a)
             /\ Target(m, Back(x + 1 - lag'[a]))[a] = Target(m, Back(x))[a]
             /\ lag'[a] \in {0, 1} /\ lag'[a] <= x + 1
  <2>1. ToldAt(x, a) = x /\ ToldAt(x + 1, a)' = x + 1 - lag'[a]
    BY <1>2 DEF ToldAt
  <2>2. Place(ToldAt(x + 1, a), a)' = Target(m, x + 1 - lag'[a])[a]
    BY <2>1 DEF Place
  <2>3. CASE MovesAxis(m[x + 1], a)
    <3>1. lag'[a] = 1
      BY <1>2, <2>3
    <3>2. x + 1 - lag'[a] = x /\ 1 <= x + 1
      BY <1>2, <3>1
    <3> QED BY <2>1, <2>2, <3>1, <3>2 DEF Place
  <2>4. CASE ~MovesAxis(m[x + 1], a)
    <3>1. lag'[a] = 0 /\ x + 1 - 0 = x + 1 /\ 0 <= x + 1 /\ (x + 1) - 1 = x
      BY <1>2, <2>4
    <3>2. Target(m, x + 1)[a] = Target(m, x)[a]
      BY <1>2, <2>4, <3>1, OneMove
    <3>3. Target(m, Back(x + 1))[a] = Target(m, Back(x))[a]
      <4>1. Back(x + 1) = x
        BY <1>2 DEF Back
      <4>2. CASE x = 0
        BY <4>1, <4>2 DEF Back
      <4>3. CASE x # 0
        <5>1. x \in 1 .. Len(m) /\ Back(x) = x - 1
          BY <1>2, <4>3 DEF Back
        <5>2. ~MovesAxis(m[x], a)
          BY <1>5, <2>4, <5>1
        <5>3. Target(m, x - 1)[a] = Target(m, x)[a]
          BY <5>1, <5>2, OneMove
        <5> QED BY <4>1, <5>1, <5>3
      <4> QED BY <4>2, <4>3
    <3> QED BY <2>1, <2>2, <3>1, <3>2, <3>3 DEF Place
  <2> QED BY <2>3, <2>4
<1>7. \A a : /\ (Waiting(a)' <=> Waiting(a)) /\ HeardAt(a)' = HeardAt(a)
             /\ \A i : (TellsOf(i)' = TellsOf(i)) /\ \A n : Place(n, a)' = Place(n, a)
  BY <1>1 DEF Waiting, HeardAt, TellsOf, Place
<1>8. Within(x + 1)'
  <2>1. \A a \in Axes : lag'[a] \in {0, 1} /\ lag'[a] <= x + 1
    BY <1>6
  <2>2. \A a \in Axes : Behind(vm.moves, a, HeardAt(a), Place(ToldAt(x + 1, a), a)')
    BY <1>3, <1>6 DEF Within
  <2>3. \A a \in Axes : \A i \in 1 .. Len(fromAxis) :
          OfAxis(fromAxis[i], a) => Behind(vm.moves, a, TellsOf(i), Place(ToldAt(x + 1, a), a)')
    BY <1>3, <1>6 DEF Within
  <2> QED BY <1>1, <2>1, <2>2, <2>3 DEF Within, OfAxis, Place, ToldAt, TellsOf, HeardAt
<1>9. \A a \in Axes : Trails(x + 1, a)'
  <2> TAKE a \in Axes
  <2>1. Trails(x, a)
    BY <1>3 DEF Follows
  <2>2. CASE Waiting(a)
    <3>1. Behind(m, a, Target(m, Back(x))[a], HeardAt(a))
      BY <1>6, <2>1, <2>2 DEF Trails, Place
    <3>2. Behind(m, a, Target(m, Back(x + 1 - lag'[a]))[a], HeardAt(a))
      BY <1>6, <3>1
    <3>3. Waiting(a)' /\ ToldAt(x + 1, a)' = x + 1 - lag'[a]
      BY <1>6, <1>7, <2>2
    <3> QED BY <1>7, <3>2, <3>3 DEF Trails, Place
  <2>3. CASE ~Waiting(a)
    <3>1. Behind(m, a, Place(x, a), HeardAt(a))
      BY <1>6, <2>1, <2>3 DEF Trails
    <3>2. Behind(m, a, Place(ToldAt(x + 1, a), a)', HeardAt(a))
      BY <1>6, <3>1
    <3>3. ~Waiting(a)'
      BY <1>7, <2>3
    <3> QED BY <1>7, <3>2, <3>3 DEF Trails, Place
  <2> QED BY <2>2, <2>3
<1>10. \A i \in 1 .. Len(fromAxis') : \A a \in Axes : TellsPlace(i, x + 1, a)'
  <2> TAKE i \in 1 .. Len(fromAxis')
  <2> TAKE a \in Axes
  <2>1. OfAxis(fromAxis[i], a) => TellsOf(i) = Place(x, a)
    BY <1>1, <1>3, <1>6 DEF Follows, TellsPlace
  <2>2. Place(ToldAt(x + 1, a), a)' = Place(x, a)
    BY <1>6
  <2> QED BY <1>1, <1>7, <2>1, <2>2 DEF TellsPlace, OfAxis
<1>11. e + 1 # Len(m) => ~Reached(m[e + 1], FromOrigin(known, initial))
  BY <1>3 DEF Follows
(* A second segment that is not detected.                                  *)
<1>12. ASSUME x + 1 = e + 2 PROVE \E a \in Axes : Waiting(a) /\ lag'[a] = 1
  <2> DEFINE W == {a \in Axes : Waiting(a)}
             t == [a \in Axes |-> e + 1]
  <2>1. x = e + 1 /\ e \in Nat /\ e + 2 \in 1 .. Len(m) /\ e + 1 # Len(m)
    <3>1. e \in Int
      BY <1>2
    <3>2. x = e + 1
      BY <1>2, <1>12, <3>1
    <3>3. e + 2 \in 1 .. Len(m) /\ e + 1 # Len(m)
      BY <1>2, <1>12, <3>1
    <3>4. e >= 0
      BY Typed DEF Running
    <3> QED BY <3>1, <3>2, <3>3, <3>4
  <2>2. ASSUME NEW a \in Axes
        PROVE  Behind(m, a, Target(m, IF a \in W THEN Back(t[a]) ELSE t[a])[a], known[a] - initial[a])
    <3>1. Trails(x, a)
      BY <1>3 DEF Follows
    <3> QED BY <1>6, <2>1, <3>1 DEF Trails, Place, HeardAt
  <2>3. t \in [Axes -> {e + 1, e + 2}]
    OBVIOUS
  <2> HIDE DEF t, W
  <2>4. Undetected(m, e, known, initial, t, W)
    BY <1>4, <1>11, <2>1, <2>2, <2>3 DEF Undetected
  <2>5. \E a \in Axes : a \in W /\ t[a] = e + 1 /\ MovesAxis(m[e + 1], a)
    BY <2>4, NotLeft
  <2> PICK a \in Axes : a \in W /\ MovesAxis(m[e + 1], a)
    BY <2>5
  <2>6. MovesAxis(m[x + 1], a)
    BY <1>2, <1>5, <2>1
  <2>7. lag'[a] = 1
    BY <1>2, <2>6
  <2> QED BY <2>7 DEF W
<1>13. Follows(x + 1)'
  <2>1. x + 1 = CurrentMove(vm') + 2 => \E a \in Axes : Waiting(a)' /\ lag'[a] = 1
    BY <1>7, <1>12
  <2>2. CurrentMove(vm') + 1 # Len(vm'.moves) =>
          ~Reached(vm'.moves[CurrentMove(vm') + 1], FromOrigin(known', initial'))
    BY <1>11
  <2>3. x + 1 = Advanced' /\ LeftOf(cncTasks', vm'.moves, x + 1)
    BY <1>2
  <2> QED BY <1>9, <1>10, <2>1, <2>2, <2>3 DEF Follows
<1>14. /\ x + 1 \in 0 .. Len(vm'.moves) /\ Where' = Target(vm'.moves, x + 1)
       /\ x + 1 <= CurrentMove(vm') + 2
  BY <1>2
<1> QED BY <1>8, <1>13, <1>14 DEF Near

LEMMA AdvancePlace ==
  ASSUME SegmentsPerReport = 1, PlaceInv, InStep, CncAdvance
  PROVE  PlaceInv'
<1>1. /\ Cnc /\ UNCHANGED <<cncRun, fromAxis, toAxis>> /\ cncRun # "idle"
  BY DEF CncAdvance, CncOwn, Cnc
<1>2. UNCHANGED <<state, armed, vm, known, initial>>
  BY <1>1, CncKeepsNode DEF AxisSide, stateVars
<1>3. Once'
  BY <1>1, <1>2 DEF PlaceInv, Once
<1>4. ASSUME Running PROVE Nearby'
  <2>1. IsPath(vm.moves) /\ toAxis = <<>> /\ \E x : Near(x)
    BY <1>1, <1>4 DEF PlaceInv, Running, IsPlan, Nearby, Sent, Quiet
  <2> PICK x : Near(x)
    BY <2>1
  <2>2. Near(x + 1)'
    BY <1>2, <1>4, <2>1, AdvanceNear
  <2> QED BY <1>1, <2>1, <2>2 DEF Nearby
<1> QED BY <1>1, <1>3, <1>4, SidePlace

LEMMA CncPlace ==
  ASSUME SegmentsPerReport = 1, IsFiniteSet(Axes), PlaceInv, InStep, ShortLists, Cnc
  PROVE  PlaceInv'
<1>1. CASE CncActivate
  BY <1>1, ActivatePlace
<1>2. CASE CncReject
  BY <1>2, RejectPlace
<1>3. CASE CncDeactivate
  BY <1>3, DeactivatePlace
<1>4. CASE CncAdvance
  BY <1>4, AdvancePlace
<1>5. CASE \E a \in Axes : CncReport(a)
  BY <1>5, ReportPlace
<1>6. CASE cncRun' = "idle" /\ lag' = Still /\ (CncDone \/ CncFail \/ CncStopped)
  <2>1. UNCHANGED <<truePos, toAxis>> /\ cncRun # "idle"
    BY <1>6 DEF CncDone, CncFail, CncStopped, StopShort, CncOwn
  <2>2. ASSUME state # "null" PROVE PlaceInv'
    <3>1. cncRun # "coasting"
      BY <2>2 DEF PlaceInv, Once
    <3>2. \E s, r : fromAxis' = (fromAxis \o FinalReports(truePos)) \o <<Status(s, r)>>
      BY <1>6, <3>1 DEF CncDone, CncFail, CncStopped
    <3> QED BY <1>6, <2>1, <2>2, <3>2, FinalPlace
  <2> QED BY <1>6, <2>2, SidePlace DEF Running
<1>7. CASE CncFail /\ cncRun' # "idle"
  <2>1. /\ cncRun = "moving" /\ cncRun' = "stopping" /\ UNCHANGED <<cncTasks, truePos, lag, toAxis>>
        /\ fromAxis' = fromAxis \o <<Status("ready", TRUE), Status("blocked", TRUE)>>
    BY <1>7 DEF CncFail, CncOwn
  <2>2. OnlyAnswers
    BY <2>1, Typed, AnswersAre
  <2>3. UNCHANGED <<state, armed, vm, known, initial>>
    BY CncKeepsNode DEF AxisSide, stateVars
  <2>4. state # "null" => Once'
    BY <2>1, <2>2, <2>3, AnswersOnce DEF PlaceInv
  <2>5. ASSUME Running PROVE Nearby'
    <3>1. toAxis = <<>> /\ \E x : Near(x)
      BY <2>1, <2>5 DEF PlaceInv, Nearby, Sent, Quiet
    <3> PICK x : Near(x)
      BY <3>1
    <3>2. Near(x)'
      BY <2>1, <2>2, <2>3, AnswersNear
    <3> QED BY <2>1, <3>1, <3>2 DEF Nearby
  <2> QED BY <2>1, <2>4, <2>5, SidePlace
<1>8. CncDone \/ CncFail \/ CncStopped =>
        \/ cncRun' = "idle" /\ lag' = Still
        \/ CncFail /\ cncRun' # "idle"
  BY DEF CncDone, CncFail, CncStopped, StopShort
<1> QED BY <1>1, <1>2, <1>3, <1>4, <1>5, <1>6, <1>7, <1>8 DEF Cnc

-----------------------------------------------------------------------------
LEMMA StartsInPlace == Init => PlaceInv
<1> SUFFICES ASSUME Init PROVE PlaceInv
  OBVIOUS
<1>1. /\ state = "null" /\ executed = <<>> /\ outcome = "idle" /\ cncRun = "idle" /\ lag = Still
  BY DEF Init, AutoInit
<1>2. IsHistory
  <2>1. executed \in Seq({}) /\ 1 .. Len(executed) = {}
    BY <1>1
  <2> QED BY <2>1 DEF IsHistory, IsQueue
<1> QED BY <1>1, <1>2 DEF PlaceInv, Rests, Over, Once, Nearby, Running, Initialized

LEMMA NextPlace ==
  ASSUME PatientUser = TRUE, SegmentsPerReport = 1, IsFiniteSet(Axes), ShortLists,
         PlaceInv, InStep, InStep', ListenersFollowState, ListenersFollowState', [Next]_vars
  PROVE  PlaceInv'
<1>1. CASE User
  BY <1>1, UserPlace
<1>2. CASE AxisReceive
  BY <1>2, ReceivePlace
<1>3. CASE StateTimer \/ PauseTimeout
  BY <1>3, TimerPlace
<1>4. CASE Cnc
  BY <1>4, CncPlace
<1>5. CASE Stuff \/ StuffReceive
  BY <1>5, StuffPlace
<1>6. CASE UNCHANGED vars
  <2>1. UNCHANGED <<state, armed, vm, executed, phases, outcome, toAxis, fromAxis, known, initial, cncVars>>
    BY <1>6 DEF vars, autoVars, stateVars, sent, history
  <2> QED BY <2>1, SamePlace
<1> QED BY <1>1, <1>2, <1>3, <1>4, <1>5, <1>6 DEF Next, Node

(* The invariant says what is claimed of the phases.                       *)
LEMMA HistoryInPlace ==
  ASSUME IsHistory
  PROVE  ExecutedInPlace
<1> PICK l, t : l = Len(executed) /\ t = PhasesExecuted
  OBVIOUS
<1>1. l \in Nat /\ DOMAIN executed = 1 .. l
  <2>1. \A q : IsQueue(q) => Len(q) \in Nat /\ DOMAIN q = 1 .. Len(q)
    BY DEF IsQueue
  <2> QED BY <2>1 DEF IsHistory
<1>2. ASSUME NEW i \in 1 .. l
      PROVE  \E j \in {i - 1, i} :
               executed[i].at = ProgramPosition(phases, PhasesExecuted \o <<executed[i].phase>>, j)
  <2> PICK j \in {i - 1, i} : executed[i].at = At(j)
    BY <1>2 DEF IsHistory
  <2> DEFINE e == executed[i].phase
             u == t \o <<e>>
  <2> HIDE DEF e
  <2>1. IsQueue(t) /\ Len(t) = l
    <3>1. t = [k \in 1 .. l |-> executed[k].phase]
      BY <1>1 DEF PhasesExecuted
    <3> DEFINE S == {executed[k].phase : k \in 1 .. l}
    <3>2. t \in [1 .. l -> S]
      BY <3>1
    <3> HIDE DEF S
    <3>3. t \in Seq(S) /\ Len(t) = l
      BY <1>1, <3>2
    <3> QED BY <3>3 DEF IsQueue
  <2>2. \A k \in 1 .. l : u[k] = t[k]
    <3>1. u = Append(t, e)
      BY <2>1, ConcatOne
    <3> QED BY <2>1, <3>1, AppendQueue
  <2> HIDE DEF u
  <2>3. j \in 0 .. l
    BY <1>1
  <2>4. ProgramPosition(phases, t, j) = ProgramPosition(phases, u, j)
    BY <1>1, <2>2, <2>3, SamePosition
  <2> QED BY <2>4 DEF At, u, e
<1> QED BY <1>1, <1>2 DEF ExecutedInPlace

(***************************************************************************)
(* Every phase is executed in its place, and a run that reports success has *)
(* brought the axes where the program leads: for every program, any number  *)
(* of axes and any failures, under the assumptions of the theorem above.   *)
(***************************************************************************)
THEOREM PhasesAlwaysInPlace ==
  ASSUME PatientUser = TRUE, SegmentsPerReport = 1, IsFiniteSet(Axes)
  PROVE  Spec /\ []ShortLists => []InPlace
<1>1. Init => PlaceInv /\ InStep /\ ListenersFollowState
  BY StartsInPlace, StartsInStep, ListenersInit
<1>2. InStep /\ ListenersFollowState /\ ShortLists /\ [Next]_vars
        => InStep' /\ ListenersFollowState'
  BY NextInStep, ListenersStep
<1>3. PlaceInv /\ InStep /\ InStep' /\ ListenersFollowState /\ ListenersFollowState' /\ ShortLists
        /\ [Next]_vars => PlaceInv'
  BY NextPlace
<1>4. PlaceInv => InPlace
  <2>1. PlaceInv => ExecutedInPlace
    BY HistoryInPlace DEF PlaceInv
  <2>2. PlaceInv => DoneInPlace
    BY DEF PlaceInv, Over, DoneInPlace, Done, At
  <2> QED BY <2>1, <2>2 DEF InPlace
<1> QED BY <1>1, <1>2, <1>3, <1>4, PTL DEF Spec
=============================================================================
