----------------------------- MODULE EmuRegisters -----------------------------
(***************************************************************************)
(* The tables of sys-emu: where its devices keep their sensors and where   *)
(* its pages put them, beside the registers the units of the client poll.  *)
(* Both ends are written down by hand in the code, sensor by sensor; the    *)
(* assumptions compare them.                                               *)
(***************************************************************************)
EXTENDS Naturals, Sequences

-----------------------------------------------------------------------------
(* First register of the sensors of a device: dt_set, dp_set, fc_set *)
EmuA1 == [DT |-> 16390, DP |-> 16392, FC |-> 16385]             \* 0x4006 0x4008 0x4001
EmuA2 == [DT |-> 16394, DP |-> 16401, FC |-> 16386]             \* 0x400A 0x4011 0x4002
EmuA14 == [DT |-> 16386, DP |-> 16388]                          \* 0x4002 0x4004
EmuB2 == [DT |-> 16386, FC |-> 16390]                           \* 0x4002 0x4006
EmuB6 == [DT |-> 16386, FC |-> 16390]
EmuB10 == [DT |-> 16386, FC |-> 16390]
Emu200 == [DT |-> 514, FC |-> 512]                              \* 0x0202 0x0200

EmuDevice == [A1 |-> EmuA1, A2 |-> EmuA2, A14 |-> EmuA14, B2 |-> EmuB2, B6 |-> EmuB6,
              B10 |-> EmuB10, PR200 |-> Emu200]

(* The sensors DT1.., DP1.. and FC1.. of the pages: device, number from 1 *)
PageDT == <<<<"A1", 1>>, <<"A2", 7>>, <<"PR200", 2>>, <<"PR200", 1>>, <<"A2", 6>>, <<"A2", 5>>,
            <<"A2", 4>>, <<"A2", 1>>, <<"A2", 2>>, <<"A2", 3>>, <<"A14", 1>>, <<"B2", 1>>,
            <<"B2", 2>>, <<"B6", 1>>, <<"B6", 2>>, <<"B10", 1>>, <<"B10", 2>>>>
PageDP == <<<<"A1", 1>>, <<"A1", 2>>, <<"A2", 1>>, <<"A14", 1>>>>
PageFC == <<<<"A2", 8>>, <<"A2", 7>>, <<"A2", 6>>, <<"A2", 5>>, <<"A2", 4>>, <<"A2", 2>>,
            <<"A2", 1>>, <<"A2", 3>>, <<"B2", 4>>, <<"B2", 2>>, <<"B6", 4>>, <<"B6", 2>>,
            <<"B10", 4>>, <<"B10", 2>>, <<"B2", 3>>, <<"B6", 3>>, <<"B10", 3>>,
            <<"PR200", 1>>, <<"PR200", 2>>>>

EmuPage == [DT |-> PageDT, DP |-> PageDP, FC |-> PageFC]

(* The read tasks of the client: first register and number of a list *)
ReadsA1 == [DT |-> <<16390, 1>>, DP |-> <<16392, 2>>, FC |-> <<16385, 2>>]
ReadsA2 == [DT |-> <<16394, 7>>, DP |-> <<16401, 1>>, FC |-> <<16386, 8>>]
ReadsA14 == [DT |-> <<16386, 2>>, DP |-> <<16388, 2>>]
ReadsBN == [DT |-> <<16386, 4>>, FC |-> <<16390, 4>>]
Reads200 == [DT |-> <<514, 2>>, FC |-> <<512, 2>>]

ReadTasks == [A1 |-> ReadsA1, A2 |-> ReadsA2, A14 |-> ReadsA14, B2 |-> ReadsBN, B6 |-> ReadsBN,
              B10 |-> ReadsBN, PR200 |-> Reads200]

(* A sensor of a page writes the register that the unit publishes as the   *)
(* sensor of that number, and no other sensor writes there.                *)
SensorsArrive ==
    \A list \in DOMAIN EmuPage :
        LET page == EmuPage[list]
        IN  \A i \in 1 .. Len(page) :
                LET unit == page[i][1]   n == page[i][2]
                IN  /\ n <= ReadTasks[unit][list][2]
                    /\ EmuDevice[unit][list] = ReadTasks[unit][list][1]
                    /\ \A j \in 1 .. Len(page) : page[j] = page[i] => j = i

-----------------------------------------------------------------------------
(* The contacts and lamps of the panel are numbered from 5 on the PLC; its *)
(* word and its bit of a number.                                           *)
PlcPlace(b) == <<(b - 5) \div 16, (b - 5) % 16>>

(* Buttons of the panel: a contact that closes, a contact that opens *)
PairButtons == {<<23, 24>>, <<25, 26>>, <<21, 22>>, <<30, 31>>, <<34, 35>>}
EmergencyStop == 29
SelectButtons == {<<19, 20>>, <<27>>, <<28>>}

(* The contacts that are closed at rest, as the device starts with them *)
ClosedAtRest == {22, 24, 26, 29, 31, 35}

(* No contact belongs to two buttons, all are among the 32 the unit reads, *)
(* and those that open when pressed are closed at the start.               *)
ContactsFit ==
    LET all == PairButtons \cup SelectButtons \cup {<<EmergencyStop>>}
    IN  /\ \A p, q \in all : p # q =>
               \A i \in 1 .. Len(p), j \in 1 .. Len(q) : p[i] # q[j]
        /\ \A p \in all : \A i \in 1 .. Len(p) :
               /\ PlcPlace(p[i])[1] \in 0..1
               /\ 16 * PlcPlace(p[i])[1] + PlcPlace(p[i])[2] + 5 = p[i]
        /\ ClosedAtRest = {p[2] : p \in PairButtons} \cup {EmergencyStop}

ASSUME TablesOfEmulator == SensorsArrive /\ ContactsFit
=============================================================================
