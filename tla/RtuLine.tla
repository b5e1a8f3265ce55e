------------------------------ MODULE RtuLine ------------------------------
(***************************************************************************)
(* modbus-rtu-master.cpp: the units of one serial line take turns through   *)
(* one queue of operations.  Every unit is polled: the answer to a read     *)
(* plans the next one, three failures in a row take the unit off the line   *)
(* and a timer brings it back.                                             *)
(*                                                                         *)
(* The line, the units and the map of registers of libeng are external.     *)
(***************************************************************************)
EXTENDS Integers, SequencesExt, FiniteSets

CONSTANTS
    RtuUnits,           \* the units of the line
    Groups,             \* 1..n: groups of registers a unit is read by
    MaxRtuWrites,       \* bound: writes in the queue
    SlowLine            \* the timer of a unit may expire while it is still polled

ASSUME RtuAssumption ==
    /\ SlowLine \in BOOLEAN /\ MaxRtuWrites \in Nat
    /\ IsFiniteSet(RtuUnits) /\ RtuUnits # {}
    /\ Groups # {} /\ Groups \subseteq Nat

VARIABLES
    requests,   \* operations [unit, write, group, failed], the first is on the line
    line,       \* what runs: "idle", "scheduled", "writing", "reading", "dead"
    group,      \* unit |-> group of registers to be read now
    planned,    \* unit |-> number of reads planned by a timer
    offlineTimer, \* units whose offline_timer_id_ runs
    linked      \* unit |-> online_: "unknown", "online", "offline"

rtuVars == <<requests, line, group, planned, offlineTimer, linked>>

Operations == [unit : RtuUnits, write : BOOLEAN, group : Groups, failed : 0..2]

RtuTypeOK ==
    /\ requests \in Seq(Operations)
    /\ line \in {"idle", "scheduled", "writing", "reading", "dead"}
    /\ group \in [RtuUnits -> Groups]
    /\ planned \in [RtuUnits -> 0..2]
    /\ offlineTimer \subseteq RtuUnits
    /\ linked \in [RtuUnits -> {"unknown", "online", "offline"}]

-----------------------------------------------------------------------------
Read(u, g) == [unit |-> u, write |-> FALSE, group |-> g, failed |-> 0]

(* prepare_operation: the first operation in the queue sets the line going. *)
Prepared(op) ==
    /\ requests' = Append(requests, op)
    /\ line' = IF requests = <<>> THEN "scheduled" ELSE line

FirstGroup == CHOOSE g \in Groups : \A h \in Groups : g <= h
NextGroup(g) == IF g + 1 \in Groups THEN g + 1 ELSE FirstGroup

(* modbus_unit::start_working at the start of the process.                 *)
RtuInit ==
    /\ \E order \in SetToSeqs(RtuUnits) :
          requests = [i \in DOMAIN order |-> Read(order[i], FirstGroup)]
    /\ line = "scheduled"
    /\ group = [u \in RtuUnits |-> FirstGroup]
    /\ planned = [u \in RtuUnits |-> 0]
    /\ offlineTimer = {}
    /\ linked = [u \in RtuUnits |-> "unknown"]

(* do_next_operation, when there is one.                                   *)
NextOn(queue) == line' = IF queue = <<>> THEN "idle" ELSE "writing"

Scheduled ==
    /\ line = "scheduled" /\ NextOn(requests)
    /\ UNCHANGED <<requests, group, planned, offlineTimer, linked>>

(* do_writing: the whole frame is out, the answer is waited for.            *)
Written ==
    /\ line = "writing" /\ line' = "reading"
    /\ UNCHANGED <<requests, group, planned, offlineTimer, linked>>

-----------------------------------------------------------------------------
(* Mutant of the next: the answer plans no further read.                   *)
RegistersRead_NoNextRead(op) ==
    /\ group' = [group EXCEPT ![op.unit] = NextGroup(@)]
    /\ planned' = planned
    /\ offlineTimer' = offlineTimer \ {op.unit}
    /\ linked' = [linked EXCEPT ![op.unit] = "online"]

(* read_holding_response: the values go to the records of the group that is *)
(* current now, and the next read is planned.                              *)
RegistersRead(op) ==
    /\ group' = [group EXCEPT ![op.unit] = NextGroup(@)]
    /\ planned' = [planned EXCEPT ![op.unit] = @ + 1]
    /\ offlineTimer' = offlineTimer \ {op.unit}
    /\ linked' = [linked EXCEPT ![op.unit] = "online"]

(* operation_success_done.                                                 *)
OperationSuccess ==
    /\ line = "reading"
    /\ LET op == Head(requests)
       IN IF op.write THEN UNCHANGED <<group, planned, offlineTimer, linked>>
                      ELSE planned[op.unit] < 2 /\ RegistersRead(op)
    /\ requests' = Tail(requests) /\ NextOn(Tail(requests))

(* replace_all_client_operations: the walk through the queue.              *)
Without(u) ==
    LET walk[n \in 0 .. Len(requests)] ==
            IF n = 0 THEN <<>>
            ELSE IF requests[n].unit = u THEN walk[n - 1]
            ELSE Append(walk[n - 1], requests[n])
    IN  walk[Len(requests)]

(* operation_failed_done: the frame of the answer is broken, or one of the  *)
(* two timers of 100 ms has expired.                                       *)
OperationFailed ==
    /\ line \in {"writing", "reading"}
    /\ LET op == Head(requests)
       IN IF op.failed = 2
          THEN /\ offlineTimer' = offlineTimer \cup {op.unit}
               /\ linked' = [linked EXCEPT ![op.unit] = "offline"]
               /\ requests' = Without(op.unit) /\ NextOn(Without(op.unit))
          ELSE /\ requests' = <<[op EXCEPT !.failed = @ + 1]>> \o Tail(requests)
               /\ line' = "writing"
               /\ UNCHANGED <<offlineTimer, linked>>
    /\ UNCHANGED <<group, planned>>

(* terminate_port_operations: the port fails, or an answer is one the       *)
(* operation does not accept.  The operation stays in front: no other ever  *)
(* sets the line going again.                                              *)
PortTerminates ==
    /\ line \in {"writing", "reading"} /\ line' = "dead"
    /\ UNCHANGED <<requests, group, planned, offlineTimer, linked>>

-----------------------------------------------------------------------------
(* The timer of read_holding_response.                                     *)
PlannedRead(u) ==
    /\ planned[u] > 0
    /\ planned' = [planned EXCEPT ![u] = @ - 1]
    /\ Prepared(Read(u, group[u]))
    /\ UNCHANGED <<group, offlineTimer, linked>>

Polled(u) == planned[u] > 0 \/ \E i \in DOMAIN requests : requests[i].unit = u /\ ~requests[i].write

(* offline_timer_id_ of the unit, every second until a read is answered.    *)
Restart(u) ==
    /\ u \in offlineTimer
    /\ SlowLine \/ ~Polled(u)
    /\ Len(requests) < Cardinality(RtuUnits) + MaxRtuWrites + 1
    /\ group' = [group EXCEPT ![u] = FirstGroup]
    /\ Prepared(Read(u, FirstGroup))
    /\ UNCHANGED <<planned, offlineTimer, linked>>

(* write_single, write_multiple of a unit.                                 *)
WriteRegisters(u) ==
    /\ Len(SelectSeq(requests, LAMBDA op : op.write)) < MaxRtuWrites
    /\ Prepared([Read(u, group[u]) EXCEPT !.write = TRUE])
    /\ UNCHANGED <<group, planned, offlineTimer, linked>>

RtuNext ==
    \/ Scheduled \/ Written \/ OperationSuccess \/ OperationFailed \/ PortTerminates
    \/ \E u \in RtuUnits : PlannedRead(u) \/ Restart(u) \/ WriteRegisters(u)

RtuSpec == RtuInit /\ [][RtuNext]_rtuVars

-----------------------------------------------------------------------------
(* What is in the queue is on its way: no operation waits on a line that    *)
(* rests (the first one alone sets it going), and a line that works has one. *)
LineMoves == line = "idle" <=> requests = <<>>

(* A unit is never forgotten: whatever failed, a read of it is queued,      *)
(* planned or a timer will bring one.                                      *)
NeverForgotten == \A u \in RtuUnits : Polled(u) \/ u \in offlineTimer

(* The loss of a unit is never the last word: it is tried again.           *)
OfflineHasTimer == \A u \in RtuUnits : linked[u] = "offline" => u \in offlineTimer

(* An answer is read with the group of registers it was asked for.         *)
AnswerFitsGroup ==
    \A i \in DOMAIN requests :
        LET op == requests[i] IN ~op.write => op.group = group[op.unit]

RtuSafe ==
    /\ LineMoves /\ NeverForgotten /\ OfflineHasTimer
    /\ SlowLine \/ AnswerFitsGroup
=============================================================================
