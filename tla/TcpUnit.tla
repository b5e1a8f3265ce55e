------------------------------ MODULE TcpUnit ------------------------------
(***************************************************************************)
(* units-interaction.cpp: the conversation with one unit over TCP.  Reads   *)
(* wait in one queue, writes in another that goes first; one operation is   *)
(* under way at a time.  The connection is tried until it is there and is   *)
(* never made again when it was lost.                                      *)
(***************************************************************************)
EXTENDS Integers, SequencesExt

CONSTANTS
    TcpGroups,          \* 1..n: groups of registers the unit is read by
    TcpValues,          \* values that are written
    MaxTcpWrites        \* bound: writes in the queue

ASSUME TcpAssumption == TcpGroups # {} /\ TcpGroups \subseteq Nat /\ MaxTcpWrites \in Nat

VARIABLES
    stream,     \* "none", "connecting", "open", "lost"
    opsQueue,   \* groups to be read
    immediateQueue, \* values to be written
    talk,       \* what runs: "idle", "scheduled", "sent", "stuck"
    immediate,  \* the operation under way is taken for a write
    tcpGroup,   \* group to be read now
    nextRead,   \* a read is planned by a timer
    sent        \* the operation last sent (history)

tcpVars == <<stream, opsQueue, immediateQueue, talk, immediate, tcpGroup, nextRead, sent>>

TcpTypeOK ==
    /\ stream \in {"none", "connecting", "open", "lost"}
    /\ opsQueue \in Seq(TcpGroups) /\ immediateQueue \in Seq(TcpValues)
    /\ talk \in {"idle", "scheduled", "sent", "stuck"} /\ immediate \in BOOLEAN
    /\ tcpGroup \in TcpGroups /\ nextRead \in BOOLEAN

FirstTcp == CHOOSE g \in TcpGroups : \A h \in TcpGroups : g <= h
NextTcp(g) == IF g + 1 \in TcpGroups THEN g + 1 ELSE FirstTcp

TcpInit ==
    /\ stream = "connecting" /\ talk = "idle" /\ immediate = FALSE
    /\ opsQueue = <<>> /\ immediateQueue = <<>>
    /\ tcpGroup = FirstTcp /\ nextRead = FALSE /\ sent = <<>>

-----------------------------------------------------------------------------
(* prepare_operation: an operation that finds both queues empty sets the    *)
(* conversation going.                                                     *)
SetGoing == talk' = IF opsQueue = <<>> /\ immediateQueue = <<>> THEN "scheduled" ELSE talk

HoldingRegistersRequest(g) ==
    /\ opsQueue' = Append(opsQueue, g) /\ SetGoing
    /\ UNCHANGED <<immediateQueue, immediate, sent>>

(* connect: a failure is tried again after a second, a stream is read.      *)
Connect ==
    /\ \/ stream = "connecting" /\ stream' = "none"
       \/ stream = "none" /\ stream' = "connecting"
    /\ UNCHANGED <<opsQueue, immediateQueue, talk, immediate, tcpGroup, nextRead, sent>>

Connected ==
    /\ stream = "connecting" /\ stream' = "open"
    /\ tcpGroup' = FirstTcp
    /\ HoldingRegistersRequest(FirstTcp)
    /\ UNCHANGED nextRead

(* do_next_operation.                                                      *)
DoNextOperation(reads, writes) ==
    /\ immediate' = (writes # <<>>)
    /\ IF reads = <<>> /\ writes = <<>>
       THEN talk' = "idle" /\ UNCHANGED sent
       ELSE talk' = "sent" /\ sent' = IF writes # <<>> THEN <<"write", Head(writes)>>
                                                       ELSE <<"read", Head(reads)>>

StartTalk ==
    /\ talk = "scheduled" /\ DoNextOperation(opsQueue, immediateQueue)
    /\ UNCHANGED <<stream, opsQueue, immediateQueue, tcpGroup, nextRead>>

(* Mutant of the next: the queue is chosen when the answer is there.       *)
Underway_ByQueue == immediateQueue # <<>>

(* wait_unit_response: the queue the answered operation is taken from.     *)
Underway == immediate

Answer ==
    /\ talk = "sent" /\ stream = "open"
    /\ IF Underway
       THEN /\ immediateQueue' = Tail(immediateQueue)
            /\ DoNextOperation(opsQueue, Tail(immediateQueue))
            /\ UNCHANGED <<opsQueue, tcpGroup, nextRead>>
       ELSE /\ opsQueue' = Tail(opsQueue)
            /\ DoNextOperation(Tail(opsQueue), immediateQueue)
            /\ tcpGroup' = NextTcp(tcpGroup) /\ nextRead' = TRUE
            /\ UNCHANGED immediateQueue
    /\ UNCHANGED stream

(* close_unit_connection: the unit is told; the stream and the operation    *)
(* stay, nothing goes on.                                                  *)
CloseUnitConnection ==
    /\ talk = "sent" /\ talk' = "stuck" /\ stream' = "lost"
    /\ UNCHANGED <<opsQueue, immediateQueue, immediate, tcpGroup, nextRead, sent>>

(* The timer of read_holding_response.                                     *)
PlannedTcpRead ==
    /\ nextRead /\ nextRead' = FALSE
    /\ HoldingRegistersRequest(tcpGroup)
    /\ UNCHANGED <<stream, tcpGroup>>

(* write_single, write_multiple: refused while there never was a stream.    *)
WriteTcp ==
    \E v \in TcpValues :
        /\ stream \in {"open", "lost"} /\ Len(immediateQueue) < MaxTcpWrites
        /\ immediateQueue' = Append(immediateQueue, v) /\ SetGoing
        /\ UNCHANGED <<stream, opsQueue, immediate, tcpGroup, nextRead, sent>>

TcpNext ==
    \/ Connect \/ Connected \/ StartTalk \/ Answer \/ CloseUnitConnection
    \/ PlannedTcpRead \/ WriteTcp

TcpSpec == TcpInit /\ [][TcpNext]_tcpVars

-----------------------------------------------------------------------------
(* What is queued for a unit that is there is under way or will be.         *)
TalkMoves == stream # "lost" => (talk = "idle" <=> opsQueue = <<>> /\ immediateQueue = <<>>)

(* An answer is taken for the operation that was sent, whatever was queued  *)
(* meanwhile.                                                              *)
AnswerFitsOperation ==
    talk = "sent" => sent = IF Underway THEN <<"write", Head(immediateQueue)>>
                                        ELSE <<"read", Head(opsQueue)>>

(* A unit that is there is polled by one chain of reads, and each answer is *)
(* read with the group it was asked for.                                   *)
PolledByOneChain ==
    /\ Len(opsQueue) <= 1 /\ (nextRead => opsQueue = <<>>)
    /\ stream = "open" => nextRead \/ opsQueue # <<>>
    /\ opsQueue # <<>> => Head(opsQueue) = tcpGroup

TcpSafe == TalkMoves /\ AnswerFitsOperation /\ PolledByOneChain
=============================================================================
