--------------------------- MODULE EtherCatMaster ---------------------------
(***************************************************************************)
(* The cycle of the EtherCAT process: the entries of all drives share one   *)
(* domain, whose image is exchanged with the bus every 2 ms.  What the      *)
(* drives report is handed to the value holders when it has changed, what   *)
(* the servo motors set waits in the holders until the next cycle.          *)
(*                                                                         *)
(* The master of IgH and the bus are external: the frame of a cycle reaches *)
(* some of the drives, the image gets the inputs of those, and the working  *)
(* counter is complete if it reached all of them.                          *)
(***************************************************************************)
EXTENDS Integers, SequencesExt

CONSTANTS
    Drives,             \* sequence of the drives, in the order of main()
    RwKeys, RoKeys,     \* sequences: objects a drive is sent, objects it reports
    Words, Zero,        \* values of the objects; what memory is cleared to
    Nothing             \* no value was set

ASSUME MasterAssumption == Zero \in Words /\ Nothing \notin Words /\ Len(Drives) > 0

RwEntries == {<<d, k>> : d \in ToSet(Drives), k \in ToSet(RwKeys)}
RoEntries == {<<d, k>> : d \in ToSet(Drives), k \in ToSet(RoKeys)}

VARIABLES
    image,      \* mem_hw_: the image of the domain, a value at each offset
    localMem,   \* pdo_local_memory, empty until the first complete cycle
    held,       \* entry |-> value_ of its holder
    upload,     \* entry |-> value set and not yet taken to the image, if any
    registers,  \* entry |-> value of the object in the drive
    reached,    \* drives the last frame reached
    asked,      \* entry |-> value last set (history)
    askedBefore \* what was asked when the last complete cycle began (history)

busVars == <<image, localMem, held, upload, registers, reached, asked, askedBefore>>

Entries == RwEntries \cup RoEntries

MasterTypeOK ==
    /\ localMem = <<>> \/ DOMAIN localMem = DOMAIN image
    /\ held \in [Entries -> Words] /\ registers \in [Entries -> Words]
    /\ DOMAIN upload = RwEntries
    /\ reached \subseteq ToSet(Drives)

-----------------------------------------------------------------------------
(* Each drive registers what it is sent, then what it reports; offsets are  *)
(* given out in that order (init), and the holders are walked in the order  *)
(* of domain_process.                                                      *)
Of(d, keys) == [i \in DOMAIN keys |-> <<d, keys[i]>>]

RegisterOrder == FlattenSeq([i \in DOMAIN Drives |-> Of(Drives[i], RwKeys) \o Of(Drives[i], RoKeys)])

(* Mutant of the next: a drive is walked from the other end.               *)
WalkOrder_ReportsFirst ==
    FlattenSeq([i \in DOMAIN Drives |-> Of(Drives[i], RoKeys) \o Of(Drives[i], RwKeys)])

WalkOrder == FlattenSeq([i \in DOMAIN Drives |-> Of(Drives[i], RwKeys) \o Of(Drives[i], RoKeys)])

Offset(e) == CHOOSE i \in DOMAIN WalkOrder : WalkOrder[i] = e

-----------------------------------------------------------------------------
(* domain_process: an entry that differs from its local copy, or any in the *)
(* first cycle, is copied and handed to its holder; then the holders bring  *)
(* what was set.                                                           *)
ApplyEntryData(hw) ==
    LET changed == {e \in Entries : localMem = <<>> \/ localMem[Offset(e)] # hw[Offset(e)]}
    IN /\ held' = [e \in Entries |-> IF e \in changed THEN hw[Offset(e)] ELSE held[e]]
       /\ localMem' = hw

Uploaded(hw) ==
    [i \in DOMAIN hw |->
        LET e == WalkOrder[i]
        IN IF e \in RwEntries /\ upload[e] # Nothing THEN upload[e] ELSE hw[i]]

(* servo_motor::update of every drive: each may set any of its objects.     *)
UpdateSlaves ==
    \E set \in [RwEntries -> Words \cup {Nothing}] :
        /\ upload' = set
        /\ asked' = [e \in RwEntries |-> IF set[e] = Nothing THEN asked[e] ELSE set[e]]

(* One expiry of the timer.  With the counter incomplete the drives are     *)
(* neither read nor updated: all of them wait for the one that is missing.  *)
Cycle ==
    /\ IF reached = ToSet(Drives)
       THEN /\ ApplyEntryData(image)
            /\ image' = Uploaded(image)
            /\ UpdateSlaves
            /\ askedBefore' = asked
       ELSE UNCHANGED <<image, localMem, held, upload, asked, askedBefore>>
    /\ reached' = {}
    /\ UNCHANGED registers

-----------------------------------------------------------------------------
(* The bus and the drives (external).                                      *)

(* The image as the bus has it: offset i belongs to RegisterOrder[i].      *)
Exchange ==
    \E ds \in SUBSET ToSet(Drives) \ {{}} :
        /\ reached = {} /\ reached' = ds
        /\ registers' = [e \in Entries |->
              IF e \in RwEntries /\ e[1] \in ds
              THEN image[CHOOSE i \in DOMAIN RegisterOrder : RegisterOrder[i] = e]
              ELSE registers[e]]
        /\ image' = [i \in DOMAIN image |->
              LET e == RegisterOrder[i]
              IN IF e \in RoEntries /\ e[1] \in ds THEN registers[e] ELSE image[i]]
        /\ UNCHANGED <<localMem, held, upload, asked, askedBefore>>

DriveReports ==
    \E e \in RoEntries, v \in Words :
        /\ registers' = [registers EXCEPT ![e] = v]
        /\ UNCHANGED <<image, localMem, held, upload, reached, asked, askedBefore>>

(* The holders of what is reported are not initialized (value-holder.hpp). *)
MasterInit ==
    /\ image = [i \in DOMAIN RegisterOrder |-> Zero]
    /\ localMem = <<>>
    /\ held \in [Entries -> Words] /\ \A e \in RwEntries : held[e] = Zero
    /\ upload = [e \in RwEntries |-> Nothing]
    /\ registers \in [Entries -> Words] /\ \A e \in RwEntries : registers[e] = Zero
    /\ reached = {}
    /\ asked = [e \in RwEntries |-> Zero] /\ askedBefore = asked

MasterNext == Cycle \/ Exchange \/ DriveReports

MasterSpec == MasterInit /\ [][MasterNext]_busVars

-----------------------------------------------------------------------------
(* The image holds the orders of one cycle for all the drives, however      *)
(* many frames were lost: no drive is sent the order of a later cycle than  *)
(* another, and none is lost or sent to the wrong object.                  *)
OrdersOfOneCycle ==
    \A i \in DOMAIN RegisterOrder :
        LET e == RegisterOrder[i] IN e \in RwEntries => image[i] = askedBefore[e]

(* The holders know, after the first complete cycle, what the image had in  *)
(* the last one (nothing that changed is passed over), each its own object. *)
HoldersKnow ==
    localMem # <<>> =>
        \A i \in DOMAIN RegisterOrder : held[RegisterOrder[i]] = localMem[i]

(* What was asked last is in the image or waits for the next cycle.        *)
NothingForgotten ==
    \A e \in RwEntries : IF upload[e] = Nothing THEN askedBefore[e] = asked[e]
                                                 ELSE upload[e] = asked[e]

MasterSafe == OrdersOfOneCycle /\ HoldersKnow /\ NothingForgotten
=============================================================================
