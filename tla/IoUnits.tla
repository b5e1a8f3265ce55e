------------------------------ MODULE IoUnits -------------------------------
(***************************************************************************)
(* The I/O units: the relays PR205 (A1, A2, A14, B2, B6, B10), the PLC and *)
(* the PR200.  A unit polls lists of registers, publishes an item when it  *)
(* changed or was not yet read, and writes the image it keeps of its       *)
(* outputs.  One item stands for each list; a state follows two lists of   *)
(* one unit and all outputs of the unit.  The queue of writes, the loss of *)
(* the link and the units themselves are external.                         *)
(***************************************************************************)
EXTENDS Integers, Sequences

CONSTANTS
    MaxIoWrites     \* bound: writes waiting in the queue of the master

ASSUME IoAssumption == MaxIoWrites \in Nat

Empty == -1         \* a port without value, an item not initialized

VARIABLES
    ioUnit,         \* the unit
    watched,        \* the lists of it that are followed
    ioOnline,       \* unit::is_online
    ioItem,         \* [watched -> value read, Empty while not initialized]
    ioPort,         \* [watched -> value published]
    ioRegs,         \* [watched -> what the registers hold]
    ioFresh,        \* history: the lists read since they changed
    ioImage,        \* the bits set in bs_h4001_, bs_h4005_, outputs_, mk_outputs_
    ioWanted,       \* history: the outputs the input ports asked for
    ioQueue,        \* writes not yet at the unit
    ioOuts,         \* the bits that are on at the unit
    ioTold          \* history: the last output asked for was written, and not lost since

portVars == <<ioItem, ioPort, ioFresh>>
outVars == <<ioImage, ioWanted, ioQueue>>
ioVars == <<ioUnit, watched, ioOnline, portVars, ioRegs, outVars, ioOuts, ioTold>>

-----------------------------------------------------------------------------
(* The units: the lists they publish, those connection_was_lost leaves as  *)
(* they are, and for each output its bits: `on' and `off' are set when the *)
(* input port says so.  `echo' is the bit a poll reads for the list.       *)
NoOutputs == [x \in {} |-> x]
Bits(on, off) == [on |-> on, off |-> off]

PR205_A1 == [lists |-> {"FC", "DT", "DP", "VA"}, kept |-> {},
             outs |-> [VA |-> Bits({0}, {})], echo |-> [VA |-> 0]]

PR205_A2 == [lists |-> {"FC", "DT", "DP"}, kept |-> {}, outs |-> NoOutputs, echo |-> NoOutputs]

(* The second bit of a valve is the inverse of the first; its feedback is *)
(* not an echo.                                                           *)
PR205_A14 == [lists |-> {"DT", "DP", "P", "VA", "H"}, kept |-> {},
              outs |-> [H |-> Bits({0}, {}), VA |-> Bits({1}, {2})], echo |-> [H |-> 0]]

(* pump 1, heater 0 and valve 0: neighbours in the register 0x4001 *)
BNBit(list, idx) == CASE list = "H" -> idx [] list = "WH" -> idx + 2 [] list = "VA" -> idx + 3

(* read_state_done shifts the register by the lists before *)
BNEcho(list, idx) ==
    LET pumps == 2
        heater == 1
    IN  CASE list = "H" -> idx [] list = "WH" -> idx + pumps [] list = "VA" -> idx + pumps + heater

PR205_BN == [lists |-> {"DT", "FC", "P", "H", "VA", "WH"}, kept |-> {"P", "WH"},
             outs |-> [H |-> Bits({BNBit("H", 1)}, {}), WH |-> Bits({BNBit("WH", 0)}, {}),
                       VA |-> Bits({BNBit("VA", 0)}, {})],
             echo |-> [H |-> BNEcho("H", 1), WH |-> BNEcho("WH", 0), VA |-> BNEcho("VA", 0)]]

(* Its outputs are three registers and its inputs others. *)
PLC110 == [lists |-> {"spin", "b", "m1b", "m2b"}, kept |-> {"spin"},
           outs |-> [b |-> Bits({0}, {}), m1b |-> Bits({1}, {}), m2b |-> Bits({2}, {})],
           echo |-> NoOutputs]

PR200 == [lists |-> {"FC", "DT", "VA"}, kept |-> {"VA"}, outs |-> NoOutputs, echo |-> NoOutputs]

Outputs == DOMAIN ioUnit.outs
TwoBits(list) == ioUnit = PR205_A14 /\ list = "VA"

IoTypeOK ==
    /\ ioUnit \in {PR205_A1, PR205_A2, PR205_A14, PR205_BN, PLC110, PR200}
    /\ watched \subseteq ioUnit.lists /\ ioFresh \subseteq watched
    /\ ioOnline \in BOOLEAN /\ ioTold \in BOOLEAN
    /\ ioItem \in [watched -> Empty..3] /\ ioPort \in [watched -> Empty..1]
    /\ ioRegs \in [watched -> 0..3]
    /\ ioImage \subseteq 0..3 /\ ioOuts \subseteq 0..3 /\ ioWanted \subseteq Outputs
    /\ Len(ioQueue) <= MaxIoWrites + 3

(* The process starts beside units that work already. *)
IoInit ==
    /\ ioUnit \in {PR205_A1, PR205_A2, PR205_A14, PR205_BN, PLC110, PR200}
    /\ \E a, b \in ioUnit.lists : watched = {a, b}
    /\ ioOnline = FALSE
    /\ ioItem = [l \in watched |-> Empty] /\ ioPort = ioItem
    /\ ioRegs = [l \in watched |-> 0]
    /\ ioFresh = {}
    /\ ioImage = {} /\ ioWanted = {} /\ ioQueue = <<>>
    /\ \E o \in SUBSET Outputs : ioOuts = UNION {ioUnit.outs[x].on : x \in o}
    /\ ioTold = FALSE

-----------------------------------------------------------------------------
Register(l) == IF l \in DOMAIN ioUnit.echo
               THEN (IF ioUnit.echo[l] \in ioOuts THEN 1 ELSE 0)
               ELSE ioRegs[l]

(* What a value is published as: two equal bits of a valve are no position. *)
Published(l, v) == IF ~TwoBits(l) THEN v ELSE IF v \in {0, 3} THEN Empty ELSE v \div 2

(* read_fc_done, read_dt_done, read_state_done and their like *)
ReadTaskDone(l) ==
    /\ ioOnline
    /\ ioFresh' = ioFresh \cup {l}
    /\ ioItem' = [ioItem EXCEPT ![l] = Register(l)]
    /\ ioPort' = IF ioItem[l] = Register(l) THEN ioPort
                 ELSE [ioPort EXCEPT ![l] = Published(l, Register(l))]
    /\ UNCHANGED <<ioUnit, watched, ioOnline, ioRegs, outVars, ioOuts, ioTold>>

ConnectionLost ==
    /\ ioOnline /\ ioOnline' = FALSE
    /\ ioItem' = [l \in watched |-> IF l \in ioUnit.kept THEN ioItem[l] ELSE Empty]
    /\ ioPort' = [l \in watched |-> IF l \in ioUnit.kept THEN ioPort[l] ELSE Empty]
    /\ ioFresh' = {}
    /\ ioQueue' \in {ioQueue, <<>>}
    /\ ioTold' = (ioTold /\ ioQueue' = ioQueue)
    /\ UNCHANGED <<ioUnit, watched, ioRegs, ioImage, ioWanted, ioOuts>>

(* now_unit_online: only the PLC writes its image again. *)
Write(bits) == [mask |-> bits, on |-> bits \cap ioImage']
(* Mutant: nothing is written when the link is up. *)
OnlineWrites_None == <<>>

OnlineWrites == IF ioUnit = PLC110 THEN <<Write({0}), Write({1}), Write({2})>> ELSE <<>>

UnitOnline ==
    /\ ~ioOnline /\ ioOnline' = TRUE
    /\ Len(ioQueue) <= MaxIoWrites
    /\ ioImage' = ioImage
    /\ ioQueue' = ioQueue \o OnlineWrites
    /\ UNCHANGED <<ioUnit, watched, portVars, ioRegs, ioWanted, ioOuts, ioTold>>

(* The input ports: a PR205 writes its whole register, online or not; the  *)
(* PLC the register of the list, online only.                              *)
SetOutput(o, v) ==
    LET bits == ioUnit.outs[o]
        mask == IF ioUnit = PLC110 THEN bits.on ELSE 0..7
    IN  /\ Len(ioQueue) <= MaxIoWrites
        /\ ioWanted' = IF v THEN ioWanted \cup {o} ELSE ioWanted \ {o}
        /\ ioImage' = (ioImage \ (bits.on \cup bits.off)) \cup (IF v THEN bits.on ELSE bits.off)
        /\ \/ /\ ioOnline \/ ioUnit # PLC110
              /\ ioQueue' = Append(ioQueue, Write(mask))
              /\ ioTold' = TRUE
           \/ /\ ~ioOnline              \* not written, or dropped by the master
              /\ ioTold' = FALSE
              /\ UNCHANGED ioQueue
        /\ UNCHANGED <<ioUnit, watched, ioOnline, portVars, ioRegs, ioOuts>>

(* The process is started again beside the unit. *)
ProcessRestart ==
    /\ ioOnline' = FALSE
    /\ ioItem' = [l \in watched |-> Empty] /\ ioPort' = ioItem'
    /\ ioFresh' = {}
    /\ ioImage' = {} /\ ioWanted' = {} /\ ioQueue' = <<>>
    /\ ioTold' = FALSE
    /\ UNCHANGED <<ioUnit, watched, ioRegs, ioOuts>>

-----------------------------------------------------------------------------
(* The unit: executes a write, is switched off while the link is down, and *)
(* what it measures changes.  A valve with two bits moves to the end it is *)
(* told, through a place at neither end.                                   *)
Changed == {l \in DOMAIN ioUnit.echo :
               (ioUnit.echo[l] \in ioOuts) # (ioUnit.echo[l] \in ioOuts')}

UnitWrites ==
    /\ ioOnline /\ ioQueue # <<>>
    /\ ioOuts' = (ioOuts \ Head(ioQueue).mask) \cup Head(ioQueue).on
    /\ ioQueue' = Tail(ioQueue)
    /\ ioFresh' = ioFresh \ Changed
    /\ UNCHANGED <<ioUnit, watched, ioOnline, ioItem, ioPort, ioRegs, ioImage, ioWanted, ioTold>>

UnitOff ==
    /\ ~ioOnline /\ ioOuts' = {} /\ ioTold' = FALSE
    /\ UNCHANGED <<ioUnit, watched, ioOnline, portVars, ioRegs, outVars>>

UnitMeasures(l) ==
    /\ l \notin DOMAIN ioUnit.echo
    /\ ioRegs' = [ioRegs EXCEPT ![l] =
           IF ~TwoBits(l) THEN 1 - @
           ELSE IF @ # 0 THEN 0 ELSE IF 1 \in ioOuts THEN 2 ELSE IF 2 \in ioOuts THEN 1 ELSE 0]
    /\ ioFresh' = ioFresh \ {l}
    /\ UNCHANGED <<ioUnit, watched, ioOnline, ioItem, ioPort, outVars, ioOuts, ioTold>>

IoNext ==
    \/ \E l \in watched : ReadTaskDone(l) \/ UnitMeasures(l)
    \/ \E o \in Outputs, v \in BOOLEAN : SetOutput(o, v)
    \/ ConnectionLost \/ UnitOnline \/ ProcessRestart
    \/ UnitWrites \/ UnitOff

IoSpec == IoInit /\ [][IoNext]_ioVars

-----------------------------------------------------------------------------
(* A port shows what the registers held at the last poll, also when the    *)
(* link came back and the value is still the one of before; without link   *)
(* it is empty, but for the lists the code does not forget.                *)
PortsCurrent ==
    /\ \A l \in ioFresh : ioPort[l] = Published(l, Register(l))
    /\ ~ioOnline => \A l \in watched \ ioUnit.kept : ioPort[l] = Empty

(* The outputs of the PLC are those asked for whenever it is online, after *)
(* any loss of the link and any restart; those of a PR205 only while the   *)
(* last write was neither lost nor forgotten.                              *)
OutputsFollow ==
    ioOnline /\ ioQueue = <<>> /\ (ioTold \/ ioUnit = PLC110) =>
        \A o \in Outputs : /\ o \in ioWanted <=> ioUnit.outs[o].on \subseteq ioOuts
                           /\ o \in ioWanted => ioUnit.outs[o].off \cap ioOuts = {}

(* What a relay reports of an output is what it was told: the bits written *)
(* are those read.                                                         *)
EchoIsCommand ==
    ioOnline /\ ioQueue = <<>> /\ ioTold =>
        \A l \in ioFresh \cap DOMAIN ioUnit.echo : ioPort[l] = IF l \in ioWanted THEN 1 ELSE 0

(* All three: ports and outputs follow the unit and the client through any  *)
(* loss of the link and any restart.                                       *)
UnitsFollow == PortsCurrent /\ OutputsFollow /\ EchoIsCommand
=============================================================================
