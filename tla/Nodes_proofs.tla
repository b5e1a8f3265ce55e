---------------------------- MODULE Nodes_proofs ----------------------------
(***************************************************************************)
(* What holds of the nodes that share no state with each other, the devices *)
(* and the screens: first each by itself, then their composition, for every  *)
(* value of their constants.                                               *)
(***************************************************************************)
EXTENDS MC_Nodes, DataLemmas, TLAPS

(***************************************************************************)
(* The entries have places of their own in the image: an object of a drive  *)
(* is registered once, as one the drive is sent or as one it reports        *)
(* (servo-motor.cpp registers both lists, each object in one of them).      *)
(***************************************************************************)
OwnPlaces ==
    /\ \A i, j \in DOMAIN WalkOrder : WalkOrder[i] = WalkOrder[j] => i = j
    /\ \A i \in DOMAIN WalkOrder : WalkOrder[i] \in Entries
    /\ RwEntries \cap RoEntries = {}

LEMMA SameOrder == RegisterOrder = WalkOrder
  BY DEF RegisterOrder, WalkOrder

LEMMA OffsetOf ==
  ASSUME OwnPlaces, NEW i \in DOMAIN WalkOrder
  PROVE  Offset(WalkOrder[i]) = i
  BY DEF Offset, OwnPlaces

(* The image has a place for every entry, and so has its local copy.        *)
ImageFits ==
    /\ image = [i \in DOMAIN WalkOrder |-> image[i]]
    /\ localMem # <<>> => localMem = [i \in DOMAIN WalkOrder |-> localMem[i]]

MasterInv == ImageFits /\ MasterSafe

LEMMA MasterInvInit == MasterInit => MasterInv
  BY SameOrder DEF MasterInit, MasterInv, ImageFits, MasterSafe, OrdersOfOneCycle, HoldersKnow,
     NothingForgotten

LEMMA ExchangeKeeps ==
  ASSUME OwnPlaces, MasterInv, Exchange
  PROVE  MasterInv'
<1>1. PICK ds \in SUBSET ToSet(Drives) :
        image' = [i \in DOMAIN image |->
          IF RegisterOrder[i] \in RoEntries /\ RegisterOrder[i][1] \in ds
          THEN registers[RegisterOrder[i]] ELSE image[i]]
  BY DEF Exchange
<1>2. UNCHANGED <<localMem, held, upload, asked, askedBefore>>
  BY DEF Exchange
<1>3. ImageFits'
  BY <1>1, <1>2 DEF MasterInv, ImageFits
<1>4. OrdersOfOneCycle'
  <2> SUFFICES ASSUME NEW i \in DOMAIN RegisterOrder, RegisterOrder[i] \in RwEntries
               PROVE  image'[i] = askedBefore[RegisterOrder[i]]
    BY <1>2 DEF OrdersOfOneCycle
  <2>1. i \in DOMAIN image /\ RegisterOrder[i] \notin RoEntries
    BY SameOrder DEF MasterInv, ImageFits, OwnPlaces
  <2>2. image'[i] = image[i]
    BY <1>1, <2>1
  <2> QED BY <2>2 DEF MasterInv, MasterSafe, OrdersOfOneCycle
<1>5. HoldersKnow' /\ NothingForgotten'
  BY <1>2 DEF MasterInv, MasterSafe, HoldersKnow, NothingForgotten
<1> QED BY <1>3, <1>4, <1>5 DEF MasterInv, MasterSafe

(* A cycle the frame of which reached all drives.                           *)
LEMMA WholeCycleKeeps ==
  ASSUME OwnPlaces, MasterInv, ApplyEntryData(image), image' = Uploaded(image),
         UpdateSlaves, askedBefore' = asked
  PROVE  MasterInv'
<1>1. localMem' = image /\ DOMAIN image = DOMAIN WalkOrder
  BY DEF ApplyEntryData, MasterInv, ImageFits
<1>2. ImageFits'
  BY <1>1 DEF MasterInv, ImageFits, Uploaded
<1>3. OrdersOfOneCycle'
  <2> SUFFICES ASSUME NEW i \in DOMAIN WalkOrder, WalkOrder[i] \in RwEntries
               PROVE  image'[i] = asked[WalkOrder[i]]
    BY SameOrder DEF OrdersOfOneCycle
  <2>1. image'[i] = IF upload[WalkOrder[i]] # Nothing THEN upload[WalkOrder[i]] ELSE image[i]
    BY <1>1 DEF Uploaded
  <2>2. image[i] = askedBefore[WalkOrder[i]]
    BY SameOrder DEF MasterInv, MasterSafe, OrdersOfOneCycle
  <2> QED BY <2>1, <2>2 DEF MasterInv, MasterSafe, NothingForgotten
<1>4. HoldersKnow'
  <2> SUFFICES ASSUME NEW i \in DOMAIN WalkOrder
               PROVE  held'[WalkOrder[i]] = image[i]
    BY <1>1, SameOrder DEF HoldersKnow
  <2>1. WalkOrder[i] \in Entries /\ Offset(WalkOrder[i]) = i
    BY OffsetOf DEF OwnPlaces
  <2>2. held'[WalkOrder[i]] = IF localMem = <<>> \/ localMem[i] # image[i]
                              THEN image[i] ELSE held[WalkOrder[i]]
    BY <2>1 DEF ApplyEntryData
  <2>3. localMem # <<>> => held[WalkOrder[i]] = localMem[i]
    BY SameOrder DEF MasterInv, MasterSafe, HoldersKnow
  <2> QED BY <2>2, <2>3
<1>5. NothingForgotten'
  BY DEF UpdateSlaves, NothingForgotten
<1> QED BY <1>2, <1>3, <1>4, <1>5 DEF MasterInv, MasterSafe

LEMMA MasterInvStep ==
  ASSUME OwnPlaces, MasterInv, [MasterNext]_busVars
  PROVE  MasterInv'
<1> USE DEF MasterInv, ImageFits, MasterSafe, OrdersOfOneCycle, HoldersKnow, NothingForgotten
<1>1. CASE Cycle
  <2>1. CASE reached = ToSet(Drives)
    BY <1>1, <2>1, WholeCycleKeeps DEF Cycle
  <2>2. CASE reached # ToSet(Drives)
    BY <1>1, <2>2 DEF Cycle
  <2> QED BY <2>1, <2>2
<1>2. CASE Exchange
  BY <1>2, ExchangeKeeps
<1>3. CASE DriveReports
  BY <1>3 DEF DriveReports
<1>4. CASE UNCHANGED busVars
  BY <1>4 DEF busVars
<1> QED BY <1>1, <1>2, <1>3, <1>4 DEF MasterNext

(***************************************************************************)
(* Whatever frames are lost, the image holds the orders of one cycle for    *)
(* all drives, each at its own object, nothing that was set is forgotten,   *)
(* and the holders know what the last complete cycle brought (ethercat.cpp, *)
(* domain_process and the cycle that calls it).                             *)
(***************************************************************************)
THEOREM MasterIsSafe == ASSUME OwnPlaces PROVE MasterSpec => []MasterSafe
<1>1. MasterInv /\ [MasterNext]_busVars => MasterInv'
  BY MasterInvStep
<1>2. MasterInv => MasterSafe
  BY DEF MasterInv
<1> QED BY <1>1, <1>2, MasterInvInit, PTL DEF MasterSpec

-----------------------------------------------------------------------------
(* A unit without a stream has nothing under way, one whose stream is lost  *)
(* stays with the operation that failed, and what was sent is still at the  *)
(* head of the queue it was taken from.                                    *)
TcpInv ==
    /\ opsQueue \in {<<>>, <<tcpGroup>>} /\ immediateQueue \in Seq(TcpValues)
    /\ immediate \in BOOLEAN /\ nextRead \in BOOLEAN
    /\ nextRead => opsQueue = <<>>
    /\ stream = "open" => nextRead \/ opsQueue # <<>>
    /\ stream \in {"none", "connecting"} =>
          opsQueue = <<>> /\ immediateQueue = <<>> /\ talk = "idle" /\ nextRead = FALSE
    /\ stream = "lost" => talk = "stuck" /\ (opsQueue # <<>> \/ immediateQueue # <<>>)
    /\ stream = "open" => (talk = "idle" <=> opsQueue = <<>> /\ immediateQueue = <<>>)
    /\ stream \in {"none", "connecting", "open", "lost"}
    /\ talk \in {"sent", "scheduled"} => stream = "open"
    /\ talk = "sent" =>
          IF immediate THEN immediateQueue # <<>> /\ sent = <<"write", Head(immediateQueue)>>
                       ELSE opsQueue # <<>> /\ sent = <<"read", Head(opsQueue)>>

LEMMA TcpInvIsSafe == TcpInv => TcpSafe
<1> SUFFICES ASSUME TcpInv PROVE TcpSafe
  OBVIOUS
<1>1. TalkMoves
  BY DEF TcpInv, TalkMoves
<1>2. AnswerFitsOperation
  BY DEF TcpInv, AnswerFitsOperation, Underway
<1>3. PolledByOneChain
  <2>1. Len(opsQueue) <= 1 /\ (opsQueue # <<>> => Head(opsQueue) = tcpGroup)
    <3>1. CASE opsQueue = <<>>
      BY <3>1
    <3>2. CASE opsQueue = <<tcpGroup>>
      BY <3>2
    <3> QED BY <3>1, <3>2 DEF TcpInv
  <2> QED BY <2>1 DEF TcpInv, PolledByOneChain
<1> QED BY <1>1, <1>2, <1>3 DEF TcpSafe

LEMMA TcpInvInit == TcpInit => TcpInv
<1> SUFFICES ASSUME TcpInit PROVE TcpInv
  OBVIOUS
<1>1. immediateQueue \in Seq(TcpValues) /\ opsQueue = <<>> /\ immediateQueue = <<>>
  BY DEF TcpInit
<1>2. immediate \in BOOLEAN /\ nextRead \in BOOLEAN /\ nextRead = FALSE
  BY DEF TcpInit
<1>3. stream = "connecting" /\ talk = "idle"
  BY DEF TcpInit
<1> QED BY <1>1, <1>2, <1>3 DEF TcpInv

LEMMA TcpInvStep == TcpInv /\ [TcpNext]_tcpVars => TcpInv'
<1> SUFFICES ASSUME TcpInv, [TcpNext]_tcpVars PROVE TcpInv'
  OBVIOUS
<1> USE DEF TcpInv
<1>1. CASE Connect
  BY <1>1 DEF Connect
<1>2. CASE Connected
  BY <1>2 DEF Connected, HoldingRegistersRequest, SetGoing
<1>3. CASE StartTalk
  BY <1>3 DEF StartTalk, DoNextOperation
<1>4. CASE Answer
  <2>1. CASE Underway
    <3>1. /\ immediateQueue' = Tail(immediateQueue) /\ DoNextOperation(opsQueue, Tail(immediateQueue))
          /\ UNCHANGED <<opsQueue, tcpGroup, nextRead, stream>> /\ stream = "open"
      BY <1>4, <2>1 DEF Answer
    <3>2. immediateQueue # <<>> /\ Tail(immediateQueue) \in Seq(TcpValues)
      BY <1>4, <2>1 DEF Answer, Underway
    <3>3. immediateQueue' \in Seq(TcpValues) /\ immediate' \in BOOLEAN
      BY <3>1, <3>2 DEF DoNextOperation
    <3>4. talk' \in {"idle", "sent"} /\ (talk' = "idle" <=> opsQueue' = <<>> /\ immediateQueue' = <<>>)
      BY <3>1 DEF DoNextOperation
    <3>5. talk' = "sent" =>
            IF immediate' THEN immediateQueue' # <<>> /\ sent' = <<"write", Head(immediateQueue')>>
                          ELSE opsQueue' # <<>> /\ sent' = <<"read", Head(opsQueue')>>
      BY <3>1 DEF DoNextOperation
    <3> QED BY <3>1, <3>3, <3>4, <3>5
  <2>2. CASE ~Underway
    <3>1. /\ opsQueue' = Tail(opsQueue) /\ DoNextOperation(Tail(opsQueue), immediateQueue)
          /\ tcpGroup' = NextTcp(tcpGroup) /\ nextRead' = TRUE
          /\ UNCHANGED <<immediateQueue, stream>> /\ stream = "open"
      BY <1>4, <2>2 DEF Answer
    <3>2. opsQueue = <<tcpGroup>>
      BY <1>4, <2>2 DEF Answer, Underway
    <3>3. opsQueue' = <<>> /\ immediate' \in BOOLEAN
      BY <3>1, <3>2 DEF DoNextOperation
    <3>4. talk' \in {"idle", "sent"} /\ (talk' = "idle" <=> immediateQueue' = <<>>)
      BY <3>1, <3>3 DEF DoNextOperation
    <3>5. talk' = "sent" =>
            IF immediate' THEN immediateQueue' # <<>> /\ sent' = <<"write", Head(immediateQueue')>>
                          ELSE opsQueue' # <<>> /\ sent' = <<"read", Head(opsQueue')>>
      BY <3>1, <3>3 DEF DoNextOperation
    <3> QED BY <3>1, <3>3, <3>4, <3>5
  <2> QED BY <2>1, <2>2
<1>5. CASE CloseUnitConnection
  BY <1>5 DEF CloseUnitConnection
<1>6. CASE PlannedTcpRead
  <2>1. /\ opsQueue = <<>> /\ stream \in {"open", "lost"}
        /\ opsQueue' = <<tcpGroup>> /\ nextRead' = FALSE
    BY <1>6 DEF PlannedTcpRead, HoldingRegistersRequest
  <2>2. /\ UNCHANGED <<stream, tcpGroup, immediateQueue, immediate, sent>>
        /\ talk' = IF immediateQueue = <<>> THEN "scheduled" ELSE talk
    BY <1>6, <2>1 DEF PlannedTcpRead, HoldingRegistersRequest, SetGoing
  <2>3. talk' = "sent" =>
          IF immediate' THEN immediateQueue' # <<>> /\ sent' = <<"write", Head(immediateQueue')>>
                        ELSE opsQueue' # <<>> /\ sent' = <<"read", Head(opsQueue')>>
    BY <2>1, <2>2
  <2>4. stream' = "open" => (talk' = "idle" <=> opsQueue' = <<>> /\ immediateQueue' = <<>>)
    BY <2>1, <2>2
  <2>5. (stream' = "lost" => talk' = "stuck") /\ (talk' \in {"sent", "scheduled"} => stream' = "open")
    BY <2>1, <2>2
  <2> QED BY <2>1, <2>2, <2>3, <2>4, <2>5
<1>7. CASE WriteTcp
  <2>1. PICK v \in TcpValues : immediateQueue' = Append(immediateQueue, v)
    BY <1>7 DEF WriteTcp
  <2>2. /\ stream \in {"open", "lost"} /\ UNCHANGED <<stream, opsQueue, immediate, tcpGroup, nextRead, sent>>
        /\ talk' = IF opsQueue = <<>> /\ immediateQueue = <<>> THEN "scheduled" ELSE talk
    BY <1>7 DEF WriteTcp, SetGoing
  <2>3. /\ immediateQueue' \in Seq(TcpValues) /\ immediateQueue' # <<>>
        /\ immediateQueue # <<>> => Head(immediateQueue') = Head(immediateQueue)
    BY <2>1
  <2>4. talk' = "sent" =>
          IF immediate' THEN immediateQueue' # <<>> /\ sent' = <<"write", Head(immediateQueue')>>
                        ELSE opsQueue' # <<>> /\ sent' = <<"read", Head(opsQueue')>>
    BY <2>2, <2>3
  <2>5. stream' = "open" => (talk' = "idle" <=> opsQueue' = <<>> /\ immediateQueue' = <<>>)
    BY <2>2, <2>3
  <2>6. stream' = "lost" => talk' = "stuck"
    BY <2>2
  <2>7. talk' \in {"sent", "scheduled"} => stream' = "open"
    BY <2>2
  <2> QED BY <2>2, <2>3, <2>4, <2>5, <2>6, <2>7
<1>8. CASE UNCHANGED tcpVars
  BY <1>8 DEF tcpVars
<1> QED BY <1>1, <1>2, <1>3, <1>4, <1>5, <1>6, <1>7, <1>8 DEF TcpNext

(***************************************************************************)
(* An answer is taken for the operation that was sent, whatever is queued   *)
(* meanwhile, what is queued for a unit that is there goes out, and the     *)
(* unit is polled by one chain of reads (units-interaction.cpp).            *)
(***************************************************************************)
THEOREM TcpIsSafe == TcpSpec => []TcpSafe
  BY TcpInvInit, TcpInvStep, TcpInvIsSafe, PTL DEF TcpSpec

-----------------------------------------------------------------------------
(***************************************************************************)
(* The manual window.  Inductive with the types alone.                     *)
(***************************************************************************)
WindowInv == WindowTypeOK /\ WindowShows

LEMMA HeaderIsColour ==
  ASSUME NEW a, NEW l, NEW f, NEW r
  PROVE  HeaderOf(a, l, f, r) \in Headers
<1>1. CASE l = "ready"
  BY <1>1 DEF HeaderOf, Headers
<1>2. CASE l # "ready" /\ f
  BY <1>2 DEF HeaderOf, Headers
<1>3. CASE l # "ready" /\ ~f /\ r = a
  BY <1>3 DEF HeaderOf, Headers
<1>4. CASE l # "ready" /\ ~f /\ r # a
  BY <1>4 DEF HeaderOf, Headers
<1> QED BY <1>1, <1>2, <1>3, <1>4

LEMMA WindowInvInit == WindowInit => WindowInv
<1> SUFFICES ASSUME WindowInit PROVE WindowInv
  OBVIOUS
<1> USE DEF WindowInit
<1>1. WindowTypeOK
  BY HeaderIsColour DEF WindowTypeOK, Links, Speeds, Nobody
<1>2. WindowShows
  BY DEF WindowShows, MovesAsShown, TilesShow, SprayerIsShown, Nobody
<1> QED BY <1>1, <1>2 DEF WindowInv

(* The steps of the tiles leave the selection and what was handed on alone. *)
LEMMA TileStep ==
  ASSUME WindowInv, NEW a \in TileAxes, NEW l \in Links, NEW f \in BOOLEAN, NEW r \in {a, NoAxis},
         link' = [link EXCEPT ![a] = l], tileFault' = [tileFault EXCEPT ![a] = f],
         rcuAxis' = [rcuAxis EXCEPT ![a] = r],
         header' = [header EXCEPT ![a] = HeaderOf(a, l, f, r)],
         tileSpeed' = tileSpeed, UNCHANGED <<dialogVars, sprayer>>
  PROVE  WindowInv'
<1> USE DEF WindowInv, WindowTypeOK, WindowShows, dialogVars
<1>1. WindowTypeOK'
  BY HeaderIsColour
<1>2. TilesShow'
  BY DEF TilesShow
<1>3. MovesAsShown' /\ SprayerIsShown'
  BY DEF MovesAsShown, SprayerIsShown
<1> QED BY <1>1, <1>2, <1>3

LEMMA SelectKeeps ==
  ASSUME WindowInv, NEW a \in TileAxes, Select(a), UNCHANGED <<tileVars, maxSpeed, handed, sprayer>>,
         dialogOpen' \in BOOLEAN
  PROVE  WindowInv'
<1> USE WindowAssumption DEF WindowInv, WindowTypeOK, WindowShows, tileVars, Select
<1>1. MovesAsShown'
  BY DEF MovesAsShown
<1>2. TilesShow' /\ SprayerIsShown'
  BY DEF TilesShow, SprayerIsShown
<1>3. labels' \in Speeds /\ tabsShown' \in BOOLEAN
  <2>1. CASE a = axisRow
    BY <2>1
  <2>2. CASE a # axisRow
    BY <2>2
  <2> QED BY <2>1, <2>2
<1>4. WindowTypeOK'
  BY <1>3
<1> QED BY <1>1, <1>2, <1>4

LEMMA WindowInvStep ==
  ASSUME WindowInv, [WindowNext]_windowVars
  PROVE  WindowInv'
<1> USE DEF WindowInv, WindowTypeOK, WindowShows
<1>1. ASSUME NEW a \in TileAxes, NEW l \in Links, WireStatus(a, l) PROVE WindowInv'
  <2>1. tileFault = [tileFault EXCEPT ![a] = tileFault[a]] /\ rcuAxis = [rcuAxis EXCEPT ![a] = rcuAxis[a]]
    OBVIOUS
  <2>2. tileFault[a] \in BOOLEAN /\ rcuAxis[a] \in {a, NoAxis}
    OBVIOUS
  <2> HIDE DEF WindowInv
  <2> QED BY <1>1, <2>1, <2>2, TileStep DEF WireStatus
<1>2. ASSUME NEW a \in TileAxes, NEW r \in {a, NoAxis}, RcuAxisPort(a, r) PROVE WindowInv'
  <2>1. link = [link EXCEPT ![a] = link[a]] /\ tileFault = [tileFault EXCEPT ![a] = tileFault[a]]
    OBVIOUS
  <2>2. tileFault[a] \in BOOLEAN /\ link[a] \in Links
    OBVIOUS
  <2> HIDE DEF WindowInv
  <2> QED BY <1>2, <2>1, <2>2, TileStep DEF RcuAxisPort
<1>3. ASSUME NEW a \in TileAxes, NEW f \in BOOLEAN, UpdateAxisStatus(a, f) PROVE WindowInv'
  <2>1. link = [link EXCEPT ![a] = link[a]] /\ rcuAxis = [rcuAxis EXCEPT ![a] = rcuAxis[a]]
    OBVIOUS
  <2>2. link[a] \in Links /\ rcuAxis[a] \in {a, NoAxis}
    OBVIOUS
  <2>3. CASE f = tileFault[a]
    <3>1. header' = [header EXCEPT ![a] = HeaderOf(a, link[a], f, rcuAxis[a])]
      BY <1>3, <2>3 DEF UpdateAxisStatus, TilesShow
    <3>2. tileFault' = [tileFault EXCEPT ![a] = f]
      BY <1>3, <2>3 DEF UpdateAxisStatus
    <3> HIDE DEF WindowInv
    <3> QED BY <1>3, <2>1, <2>2, <3>1, <3>2, TileStep DEF UpdateAxisStatus
  <2>4. CASE f # tileFault[a]
    <3> HIDE DEF WindowInv
    <3> QED BY <1>3, <2>1, <2>2, <2>4, TileStep DEF UpdateAxisStatus
  <2> QED BY <2>3, <2>4
<1>4. ASSUME NEW a \in TileAxes, NEW v \in SetSpeeds \cup {NoNumber}, SetSpeedPort(a, v)
      PROVE  WindowInv'
  <2>1. WindowTypeOK'
    BY <1>4 DEF SetSpeedPort, Speeds
  <2>2. MovesAsShown'
    BY <1>4 DEF SetSpeedPort, MovesAsShown
  <2>3. TilesShow' /\ SprayerIsShown'
    BY <1>4 DEF SetSpeedPort, TilesShow, SprayerIsShown
  <2> QED BY <2>1, <2>2, <2>3
<1>5. ASSUME NEW a \in TileAxes, PressTile(a) \/ SelectRow(a) PROVE WindowInv'
  <2> HIDE DEF WindowInv
  <2>1. dialogOpen' \in BOOLEAN
    BY <1>5 DEF PressTile, SelectRow, WindowInv
  <2> QED BY <1>5, <2>1, SelectKeeps DEF PressTile, SelectRow
<1>6. CASE CloseDialog
  BY <1>6 DEF CloseDialog, tileVars, MovesAsShown, TilesShow, SprayerIsShown
<1>7. ASSUME NEW kind, Execute(kind) PROVE WindowInv'
  <2> DEFINE b == axisRow
  <2>1. b \in TileAxes /\ "active" \in Links
    BY <1>7 DEF Execute, Links
  <2>2. WindowTypeOK'
    BY <1>7, <2>1, HeaderIsColour DEF Execute
  <2>3. MovesAsShown'
    BY <1>7, <2>1 DEF Execute, MovesAsShown
  <2>4. TilesShow' /\ SprayerIsShown'
    BY <1>7, <2>1 DEF Execute, TilesShow, SprayerIsShown
  <2> QED BY <2>2, <2>3, <2>4
<1>8. CASE SprayerNext
  <2>1. UNCHANGED <<tileVars, dialogVars>>
    BY <1>8 DEF SprayerNext, SprayerStatus, ChangeState
  <2>2. MovesAsShown' /\ TilesShow'
    BY <2>1 DEF MovesAsShown, TilesShow, tileVars, dialogVars
  <2>3. sprayer' \in [link : Links, on : BOOLEAN, fixed : BOOLEAN, asked : BOOLEAN] /\ SprayerIsShown'
    <3>1. CASE ChangeState
      BY <3>1 DEF ChangeState, SprayerIsShown
    <3>2. ASSUME NEW l \in Links, SprayerStatus(l)
          PROVE  /\ sprayer' \in [link : Links, on : BOOLEAN, fixed : BOOLEAN, asked : BOOLEAN]
                 /\ SprayerIsShown'
      <4>1. (l = "active" \/ (l = "blocked" /\ sprayer.on)) \in BOOLEAN /\ (l = "blocked") \in BOOLEAN
        OBVIOUS
      <4>2. sprayer'.link = l /\ (l = "active" => sprayer'.on) /\ (l = "ready" => ~sprayer'.on)
        BY <3>2 DEF SprayerStatus, Links
      <4>3. SprayerIsShown'
        BY <4>2 DEF SprayerIsShown, Links
      <4> QED BY <3>2, <4>1, <4>3 DEF SprayerStatus
    <3> QED BY <1>8, <3>1, <3>2 DEF SprayerNext
  <2>4. WindowTypeOK'
    BY <2>1, <2>3 DEF tileVars, dialogVars
  <2> QED BY <2>2, <2>3, <2>4
<1>9. CASE UNCHANGED windowVars
  BY <1>9 DEF windowVars, tileVars, dialogVars, MovesAsShown, TilesShow, SprayerIsShown
<1> QED BY <1>1, <1>2, <1>3, <1>4, <1>5, <1>6, <1>7, <1>8, <1>9 DEF WindowNext, AxesNext

(***************************************************************************)
(* A movement goes to the axis that is selected, at the speed the dialog    *)
(* shows, and the tiles show their axes (axis-ctl-widget.cpp:97-223).       *)
(***************************************************************************)
THEOREM WindowAlwaysShows == WindowSpec => []WindowShows
<1>1. WindowInv /\ [WindowNext]_windowVars => WindowInv'
  BY WindowInvStep
<1>2. WindowInv => WindowShows
  BY DEF WindowInv
<1> QED BY <1>1, <1>2, WindowInvInit, PTL DEF WindowSpec

-----------------------------------------------------------------------------
(***************************************************************************)
(* The frame.  The box follows its two parts, and its button the key.       *)
(***************************************************************************)
FrameInv ==
    /\ FrameTypeOK /\ FrameShows
    /\ bkiKey = contact
    /\ bkiShown <=> bkiKey \in {1, 2}
    /\ boxShown <=> ((bkiShown \/ emgShown) /\ allowed)
    /\ bkiKey = 1 => buttonText = "remove"
    /\ bkiKey = 2 => buttonText = "protect"

LEMMA FrameInvInit == FrameInit => FrameInv
<1> SUFFICES ASSUME FrameInit PROVE FrameInv
  OBVIOUS
<1> USE DEF FrameInit
<1>1. FrameTypeOK
  <2>1. bkiKey \in 0..2 /\ contact \in BkiKeys \cup {0}
    OBVIOUS
  <2>2. keySent \in [text : {"none", "remove", "protect"}, key : 0..2]
    OBVIOUS
  <2> QED BY <2>1, <2>2 DEF FrameTypeOK
<1>2. FrameShows
  BY DEF FrameShows, BoxCovers, ButtonDoesWhatItSays, LabelsName
<1> QED BY <1>1, <1>2 DEF FrameInv

LEMMA FrameInvStep ==
  ASSUME FrameInv, BkiKeys \subseteq 0..2, [FrameNext]_frameVars
  PROVE  FrameInv'
<1> USE DEF FrameInv, FrameTypeOK, FrameShows, BoxCovers, ButtonDoesWhatItSays
<1>1. CASE ModePort
  <2>1. PICK m : UpdateMode(m) /\ m \in [auto : {"none", "auto", "manual"}, rcu : {"none", "rcu", "panel"}]
    <3>1. CASE \E a \in {"none", "auto", "manual"} : UpdateMode([modes EXCEPT !.auto = a])
      BY <3>1
    <3>2. CASE \E r \in {"none", "rcu", "panel"} : UpdateMode([modes EXCEPT !.rcu = r])
      BY <3>2
    <3> QED BY <1>1, <3>1, <3>2 DEF ModePort
  <2>2. LabelsName'
    BY <2>1 DEF UpdateMode, LabelsName
  <2>3. topLabel' \in {"dashes", "auto", "manual"} /\ bottomLabel' \in {"dashes", "rcu", "panel"}
    BY <2>1 DEF UpdateMode
  <2> QED BY <1>1, <2>1, <2>2, <2>3 DEF ModePort, UpdateMode, boxVars
<1>2. CASE PressBkiReset
  BY <1>2 DEF PressBkiReset, LabelsName
<1>3. ASSUME NEW key \in BkiKeys, BkiPort(key) PROVE FrameInv'
  <2>1. key \in 0..2 /\ contact' = key /\ bkiKey' = key /\ bkiShown' = (key # 0)
        /\ boxShown' = ((key # 0 \/ emgShown) /\ allowed)
    BY <1>3 DEF BkiPort, UpdateDlgVisible
  <2>2. /\ key = 0 => buttonText' = buttonText
        /\ key = 1 => buttonText' = "remove"
        /\ key = 2 => buttonText' = "protect"
    BY <1>3, <2>1 DEF BkiPort
  <2>3. UNCHANGED <<modes, topLabel, bottomLabel, emgShown, allowed, keySent>>
    BY <1>3 DEF BkiPort
  <2>4. BoxCovers' /\ LabelsName' /\ ButtonDoesWhatItSays'
    BY <2>1, <2>3 DEF LabelsName
  <2>5. buttonText' \in {"none", "remove", "protect"}
    BY <2>1, <2>2
  <2>6. FrameTypeOK'
    <3>1. bkiKey' \in 0..2 /\ contact' \in BkiKeys \cup {0}
      BY <2>1
    <3>2. bkiShown' \in BOOLEAN /\ boxShown' \in BOOLEAN
      BY <2>1
    <3>3. /\ modes' = modes /\ topLabel' = topLabel /\ bottomLabel' = bottomLabel
          /\ emgShown' = emgShown /\ allowed' = allowed /\ keySent' = keySent
      BY <2>3
    <3>4. modes' \in [auto : {"none", "auto", "manual"}, rcu : {"none", "rcu", "panel"}]
      BY <3>3
    <3>5. topLabel' \in {"dashes", "auto", "manual"} /\ bottomLabel' \in {"dashes", "rcu", "panel"}
      BY <3>3
    <3>6. emgShown' \in BOOLEAN /\ allowed' \in BOOLEAN
      BY <3>3
    <3>7. keySent' \in [text : {"none", "remove", "protect"}, key : 0..2]
      BY <3>3
    <3> HIDE DEF FrameInv, FrameShows, BoxCovers, ButtonDoesWhatItSays
    <3> QED BY <2>5, <3>1, <3>2, <3>4, <3>5, <3>6, <3>7, Zenon
  <2>7. FrameShows'
    BY <2>4
  <2>8. bkiKey' = contact' /\ (bkiKey' = 1 => buttonText' = "remove") /\ (bkiKey' = 2 => buttonText' = "protect")
    BY <2>1, <2>2
  <2>9. bkiShown' <=> bkiKey' \in {1, 2}
    <3>1. bkiShown' <=> (key # 0)
      BY <2>1
    <3>2. (key # 0) <=> bkiKey' \in {1, 2}
      BY <2>1
    <3> QED BY <3>1, <3>2
  <2>10. boxShown' <=> (bkiShown' \/ emgShown') /\ allowed'
    <3>1. bkiShown' <=> (key # 0)
      BY <2>1
    <3>2. boxShown' <=> ((key # 0 \/ emgShown) /\ allowed)
      BY <2>1
    <3>3. emgShown' = emgShown /\ allowed' = allowed
      BY <2>3
    <3> HIDE DEF FrameInv, FrameTypeOK, FrameShows, BoxCovers, ButtonDoesWhatItSays
    <3> QED BY <3>1, <3>2, <3>3, Zenon
  <2> HIDE DEF FrameTypeOK, FrameShows, BoxCovers, ButtonDoesWhatItSays
  <2> QED BY <2>6, <2>7, <2>8, <2>9, <2>10, Zenon
<1>4. ASSUME NEW on \in BOOLEAN, EmgPort(on) PROVE FrameInv'
  BY <1>4 DEF EmgPort, UpdateDlgVisible, LabelsName
<1>5. ASSUME NEW on \in BOOLEAN, Allow(on) PROVE FrameInv'
  BY <1>5 DEF Allow, UpdateDlgVisible, LabelsName
<1>6. CASE UNCHANGED frameVars
  BY <1>6 DEF frameVars, boxVars, LabelsName
<1> QED BY <1>1, <1>2, <1>3, <1>4, <1>5, <1>6 DEF FrameNext

(***************************************************************************)
(* While the keys of bki are those the frame knows, the box covers the      *)
(* windows just while it has to, its button sends what it says, and the     *)
(* labels name the mode (LockMessageBox.cpp:71-134, MainFrame.cpp:165-183). *)
(***************************************************************************)
THEOREM FrameAlwaysShows == ASSUME BkiKeys \subseteq 0..2 PROVE FrameSpec => []FrameShows
<1>1. FrameInv /\ [FrameNext]_frameVars => FrameInv'
  BY FrameInvStep
<1>2. FrameInv => FrameShows
  BY DEF FrameInv
<1> QED BY <1>1, <1>2, FrameInvInit, PTL DEF FrameSpec

-----------------------------------------------------------------------------
(***************************************************************************)
(* The panel.  What speed_node publishes is always the speed its inputs     *)
(* select; what the start button has switched on is of the present mode,    *)
(* unless the mode was changed meanwhile; the inductor published is the one *)
(* selected in the list; the bits of the errors are those of their sources. *)
(***************************************************************************)
SpeedInv ==
    /\ sw \in [auto : {"none", "auto", "manual"}, rcu : {"none", "rcu", "panel"}]
    /\ speed \in [auto : {"none", "auto", "manual"}, rcu : {"none", "rcu", "panel"},
                  ss0 : BOOLEAN, ss1 : BOOLEAN,
                  panel : PanelSpeeds, rcuTab : RcuSpeeds, out : Int]
    /\ speed.out = IF SpeedTable(speed) = <<>> THEN NoSpeed ELSE SpeedTable(speed)[SpeedIdx(speed)]

ButtonsInv ==
    /\ btn \in [mode : {"none", "fc", "auto"}, on : SUBSET {"fc", "auto"},
                kept : BOOLEAN, last : {"none", "start", "stop"}]
    /\ btn.kept => btn.on \subseteq {btn.mode}
    /\ StopSwitchesOff

BkiInv ==
    /\ bki \in [port : 0..2, notAllow : BOOLEAN, reset : BOOLEAN,
                waiting : BOOLEAN, contact : BOOLEAN]
    /\ RemovedIsShown

ConductorsInv ==
    /\ cond \in [records : Seq(Int), selected : 0..3, port : Int]
    /\ cond.records # <<>> => cond.port = cond.records[RecordIdx(cond.records, cond.selected)]

ErrorsInv ==
    /\ err \in [bits : SUBSET ErrorBits, source : [ErrorBits -> {"none", "ok", "bad", "lost"}],
                result : BOOLEAN]
    /\ err.bits = {b \in ErrorBits : err.source[b] \in {"bad", "lost"}}
    /\ err.result <=> err.bits # {}

PanelInv == SpeedInv /\ ButtonsInv /\ BkiInv /\ ConductorsInv /\ ErrorsInv

LEMMA TablesHaveSpeeds ==
  ASSUME NEW n \in [auto : {"none", "auto", "manual"}, rcu : {"none", "rcu", "panel"},
                    ss0 : BOOLEAN, ss1 : BOOLEAN,
                    panel : PanelSpeeds, rcuTab : RcuSpeeds, out : Int]
  PROVE  /\ SpeedIdx(n) \in 1..3
         /\ n.panel # <<>> /\ n.panel[SpeedIdx(n)] \in Nat
         /\ n.rcuTab # <<>> /\ n.rcuTab[SpeedIdx(n)] \in Nat
         /\ SpeedTable(n) # <<>> => SpeedTable(n)[SpeedIdx(n)] \in Nat
<1>1. SpeedIdx(n) \in 1..3
  BY DEF SpeedIdx
<1>2. n.panel \in [1..3 -> Nat] /\ n.rcuTab \in [1..3 -> Nat]
  BY PanelAssumption
<1>3. n.panel # <<>> /\ n.rcuTab # <<>>
  <2>1. 1 \in 1..3
    OBVIOUS
  <2>2. DOMAIN n.panel # {} /\ DOMAIN n.rcuTab # {}
    BY <1>2, <2>1
  <2> QED BY <2>2
<1>4. n.panel[SpeedIdx(n)] \in Nat /\ n.rcuTab[SpeedIdx(n)] \in Nat
  BY <1>1, <1>2
<1>5. SpeedTable(n) \in {<<>>, n.panel, n.rcuTab}
  BY DEF SpeedTable
<1> QED BY <1>1, <1>3, <1>4, <1>5

LEMMA PanelInvCurrent == PanelInv => PanelCurrent
<1> SUFFICES ASSUME PanelInv PROVE PanelCurrent
  OBVIOUS
<1>1. SpeedIsCurrent
  <2>1. SpeedInv
    BY DEF PanelInv
  <2>2. speed.panel # <<>> /\ speed.rcuTab # <<>>
    BY <2>1, TablesHaveSpeeds DEF SpeedInv
  <2>3. speed.out # NoSpeed => speed.auto = "manual" /\ speed.rcu # "none"
    BY <2>1 DEF SpeedInv, SpeedTable
  <2>4. speed.auto = "manual" /\ speed.rcu = "panel" => speed.out = speed.panel[SpeedIdx(speed)]
    BY <2>1, <2>2 DEF SpeedInv, SpeedTable
  <2>5. speed.auto = "manual" /\ speed.rcu = "rcu" => speed.out = speed.rcuTab[SpeedIdx(speed)]
    BY <2>1, <2>2 DEF SpeedInv, SpeedTable
  <2> QED BY <2>3, <2>4, <2>5 DEF SpeedIsCurrent
<1>2. StopSwitchesOff /\ RemovedIsShown
  BY DEF PanelInv, ButtonsInv, BkiInv
<1>3. LimitsAreSelected
  <2> SUFFICES ASSUME cond.records # <<>>
               PROVE  \E i \in 1..Len(cond.records) :
                        /\ cond.records[i] = cond.port
                        /\ i = cond.selected + 1 \/ (i = Len(cond.records) /\ cond.selected >= i)
    BY DEF LimitsAreSelected
  <2> DEFINE i == RecordIdx(cond.records, cond.selected)
  <2>1. cond.records \in Seq(Int) /\ cond.selected \in 0..3 /\ cond.records[i] = cond.port
    BY DEF PanelInv, ConductorsInv
  <2>2. Len(cond.records) \in Nat /\ Len(cond.records) # 0
    BY <2>1
  <2>3. i \in 1..Len(cond.records) /\ (i = cond.selected + 1 \/ (i = Len(cond.records) /\ cond.selected >= i))
    BY <2>1, <2>2 DEF RecordIdx
  <2> QED BY <2>1, <2>3
<1>4. ErrorIsAny
  BY DEF PanelInv, ErrorsInv, ErrorIsAny
<1> QED BY <1>1, <1>2, <1>3, <1>4 DEF PanelCurrent

LEMMA PanelInvInit == PanelInit => PanelInv
<1> SUFFICES ASSUME PanelInit PROVE PanelInv
  OBVIOUS
<1>1. SpeedInv
  BY DEF PanelInit, SpeedInv, SpeedTable, NoSpeed
<1>2. ButtonsInv /\ BkiInv
  BY DEF PanelInit, ButtonsInv, StopSwitchesOff, BkiInv, RemovedIsShown
<1>3. ConductorsInv
  <2>1. cond.records = <<>> /\ <<>> \in Seq(Int)
    BY DEF PanelInit
  <2> QED BY <2>1 DEF PanelInit, ConductorsInv
<1>4. ErrorsInv
  BY DEF PanelInit, ErrorsInv
<1> QED BY <1>1, <1>2, <1>3, <1>4 DEF PanelInv

LEMMA SpeedIsPublished ==
  ASSUME NEW n \in [auto : {"none", "auto", "manual"}, rcu : {"none", "rcu", "panel"},
                    ss0 : BOOLEAN, ss1 : BOOLEAN,
                    panel : PanelSpeeds, rcuTab : RcuSpeeds, out : Int],
         UpdateOutputValue(n), SpeedInv, sw' = sw
  PROVE  SpeedInv'
<1> DEFINE o == IF SpeedTable(n) = <<>> THEN NoSpeed ELSE SpeedTable(n)[SpeedIdx(n)]
<1>1. o \in Int
  BY TablesHaveSpeeds DEF NoSpeed
<1>2. speed' = [n EXCEPT !.out = o]
  BY DEF UpdateOutputValue
<1> HIDE DEF o
<1>3. speed' \in [auto : {"none", "auto", "manual"}, rcu : {"none", "rcu", "panel"},
                  ss0 : BOOLEAN, ss1 : BOOLEAN,
                  panel : PanelSpeeds, rcuTab : RcuSpeeds, out : Int]
  BY <1>1, <1>2
<1>4. SpeedTable(speed') = SpeedTable(n) /\ SpeedIdx(speed') = SpeedIdx(n) /\ speed'.out = o
  BY <1>2 DEF SpeedTable, SpeedIdx
<1> QED BY <1>3, <1>4 DEF SpeedInv, o

LEMMA PanelInvStep == PanelInv /\ [PanelNext]_panelVars => PanelInv'
<1> SUFFICES ASSUME PanelInv, [PanelNext]_panelVars PROVE PanelInv'
  OBVIOUS
<1>1. /\ sw' = sw /\ speed' = speed => SpeedInv'
      /\ UNCHANGED btn => ButtonsInv'
      /\ UNCHANGED bki => BkiInv'
      /\ UNCHANGED cond => ConductorsInv'
      /\ UNCHANGED err => ErrorsInv'
  BY DEF PanelInv, SpeedInv, ButtonsInv, StopSwitchesOff, BkiInv, RemovedIsShown, ConductorsInv, ErrorsInv
<1>2. CASE SpeedPart
  <2>1. SpeedInv
    BY DEF PanelInv
  <2>2. ASSUME UNCHANGED speed, (\E in \in {"lost", "on", "off"} : ManualAutoSwitch(in) \/ PanelRcuSwitch(in)) \/ UNCHANGED sw
        PROVE  SpeedInv'
    <3>1. CASE \E in \in {"lost", "on", "off"} : ManualAutoSwitch(in) \/ PanelRcuSwitch(in)
      <4>1. sw' \in [auto : {"none", "auto", "manual"}, rcu : {"none", "rcu", "panel"}]
        <5>1. ASSUME NEW in \in {"lost", "on", "off"}, ManualAutoSwitch(in)
              PROVE  sw' \in [auto : {"none", "auto", "manual"}, rcu : {"none", "rcu", "panel"}]
          BY <2>1, <5>1 DEF SpeedInv, ManualAutoSwitch
        <5>2. ASSUME NEW in \in {"lost", "on", "off"}, PanelRcuSwitch(in)
              PROVE  sw' \in [auto : {"none", "auto", "manual"}, rcu : {"none", "rcu", "panel"}]
          BY <2>1, <5>2 DEF SpeedInv, PanelRcuSwitch
        <5> QED BY <3>1, <5>1, <5>2
      <4> QED BY <2>1, <2>2, <4>1 DEF SpeedInv
    <3>2. CASE UNCHANGED sw
      BY <1>1, <2>2, <3>2
    <3> QED BY <2>2, <3>1, <3>2
  <2>3. ASSUME SpeedInput, UNCHANGED sw PROVE SpeedInv'
    <3> DEFINE S == [auto : {"none", "auto", "manual"}, rcu : {"none", "rcu", "panel"},
                     ss0 : BOOLEAN, ss1 : BOOLEAN,
                     panel : PanelSpeeds, rcuTab : RcuSpeeds, out : Int]
    <3>1. speed \in S /\ sw \in [auto : {"none", "auto", "manual"}, rcu : {"none", "rcu", "panel"}]
      BY <2>1 DEF SpeedInv
    <3>2. \A v \in BOOLEAN : [speed EXCEPT !.ss0 = v] \in S /\ [speed EXCEPT !.ss1 = v] \in S
      BY <3>1
    <3>3. [speed EXCEPT !.rcu = sw.rcu] \in S /\ [speed EXCEPT !.auto = sw.auto] \in S
      BY <3>1
    <3>4. \A p \in PanelSpeeds, r \in RcuSpeeds : [speed EXCEPT !.panel = p, !.rcuTab = r] \in S
      BY <3>1
    <3>5. ASSUME NEW n \in S, UpdateOutputValue(n) PROVE SpeedInv'
      BY <2>1, <2>3, <3>5, SpeedIsPublished
    <3> HIDE DEF S
    <3>6. \E n \in S : UpdateOutputValue(n)
      BY <2>3, <3>2, <3>3, <3>4 DEF SpeedInput
    <3> QED BY <3>5, <3>6
  <2>4. SpeedInv'
    BY <1>2, <2>2, <2>3 DEF SpeedPart
  <2> QED BY <1>1, <1>2, <2>4 DEF SpeedPart, PanelInv
<1>3. CASE ButtonsPart
  <2>1. ButtonsInv'
    <3> USE DEF PanelInv, ButtonsInv, StopSwitchesOff
    <3>1. ASSUME NEW auto \in BOOLEAN, ButtonMode(auto) PROVE ButtonsInv'
      BY <3>1 DEF ButtonMode
    <3>2. CASE ButtonStart
      BY <3>2 DEF ButtonStart
    <3>3. CASE ButtonStop
      BY <3>3 DEF ButtonStop, StopWire
    <3> QED BY <1>3, <3>1, <3>2, <3>3 DEF ButtonsPart
  <2> QED BY <1>1, <1>3, <2>1 DEF ButtonsPart, PanelInv
<1>4. CASE BkiPart
  <2>1. BkiInv'
    <3> DEFINE B == [port : 0..2, notAllow : BOOLEAN, reset : BOOLEAN, waiting : BOOLEAN, contact : BOOLEAN]
    <3>0. bki \in B /\ bki.port \in 0..2 /\ bki.waiting \in BOOLEAN /\ (bki.waiting <=> bki.port = 2)
      BY DEF PanelInv, BkiInv, RemovedIsShown
    <3> USE DEF BkiInv, RemovedIsShown
    <3>1. CASE BkiActivate(bki.port)
      <4>1. CASE bki.port = 0
        BY <3>0, <3>1, <4>1 DEF BkiActivate
      <4>2. CASE bki.port = 1
        <5>1. bki' = [bki EXCEPT !.notAllow = TRUE, !.reset = TRUE, !.port = 2, !.waiting = TRUE]
          BY <3>1, <4>2 DEF BkiActivate
        <5>2. bki' \in B
          <6>1. 2 \in 0..2 /\ TRUE \in BOOLEAN
            OBVIOUS
          <6>2. \A p, w \in BOOLEAN : [bki EXCEPT !.notAllow = w, !.reset = p] \in B
            BY <3>0
          <6>3. \A c \in B : [c EXCEPT !.port = 2, !.waiting = TRUE] \in B
            BY <6>1
          <6>4. bki' = [[bki EXCEPT !.notAllow = TRUE, !.reset = TRUE] EXCEPT !.port = 2, !.waiting = TRUE]
            BY <3>0, <5>1
          <6> HIDE DEF B
          <6> QED BY <6>1, <6>2, <6>3, <6>4
        <5>3. bki'.port = 2 /\ bki'.waiting = TRUE
          BY <3>0, <5>1
        <5> QED BY <5>2, <5>3
      <4>3. CASE bki.port = 2
        <5>1. bki' = [bki EXCEPT !.notAllow = FALSE, !.reset = FALSE, !.port = 0, !.waiting = FALSE]
          BY <3>1, <4>3 DEF BkiActivate
        <5>2. bki' \in B
          <6>1. 0 \in 0..2 /\ FALSE \in BOOLEAN
            OBVIOUS
          <6>2. \A p, w \in BOOLEAN : [bki EXCEPT !.notAllow = w, !.reset = p] \in B
            BY <3>0
          <6>3. \A c \in B : [c EXCEPT !.port = 0, !.waiting = FALSE] \in B
            BY <6>1
          <6>4. bki' = [[bki EXCEPT !.notAllow = FALSE, !.reset = FALSE] EXCEPT !.port = 0, !.waiting = FALSE]
            BY <3>0, <5>1
          <6> HIDE DEF B
          <6> QED BY <6>1, <6>2, <6>3, <6>4
        <5>3. bki'.port = 0 /\ bki'.waiting = FALSE
          BY <3>0, <5>1
        <5> QED BY <5>2, <5>3
      <4> QED BY <3>0, <4>1, <4>2, <4>3
    <3>2. ASSUME NEW active \in BOOLEAN, BkiInput(active) PROVE BkiInv'
      <4> DEFINE p == IF bki.waiting THEN bki.port ELSE IF active THEN 1 ELSE 0
      <4>1. p \in 0..2 /\ (bki.waiting <=> p = 2)
        BY <3>0
      <4>2. bki' = [bki EXCEPT !.contact = active, !.port = p]
        BY <3>2 DEF BkiInput
      <4> HIDE DEF p
      <4>3. bki' \in B /\ bki'.port = p /\ bki'.waiting = bki.waiting
        BY <3>0, <4>1, <4>2
      <4> QED BY <4>1, <4>3
    <3>3. ASSUME NEW allow \in BOOLEAN, BkiConfig(allow) PROVE BkiInv'
      BY <3>0, <3>3 DEF BkiConfig
    <3> QED BY <1>4, <3>1, <3>2, <3>3 DEF BkiPart
  <2> QED BY <1>1, <1>4, <2>1 DEF BkiPart, PanelInv
<1>5. CASE ConductorsPart
  <2>1. ASSUME NEW c \in [records : Seq(Int), selected : 0..3, port : Int], UpdateLimits(c)
        PROVE  ConductorsInv'
    <3>1. CASE c.records = <<>>
      BY <2>1, <3>1 DEF UpdateLimits, ConductorsInv
    <3>2. CASE c.records # <<>>
      <4> DEFINE i == RecordIdx(c.records, c.selected)
      <4>1. Len(c.records) \in Nat /\ Len(c.records) # 0 /\ c.records \in Seq(Int) /\ c.selected \in 0..3
        BY <3>2
      <4>2. i \in 1..Len(c.records)
        BY <4>1 DEF RecordIdx
      <4> HIDE DEF i
      <4>3. c.records[i] \in Int
        BY <4>1, <4>2
      <4>4. cond' = [c EXCEPT !.port = c.records[i]]
        BY <2>1, <3>2 DEF UpdateLimits, i
      <4>5. cond' \in [records : Seq(Int), selected : 0..3, port : Int] /\ cond'.port = c.records[i]
            /\ cond'.records = c.records /\ cond'.selected = c.selected
        BY <4>3, <4>4
      <4> QED BY <4>5 DEF ConductorsInv, i
    <3> QED BY <3>1, <3>2
  <2>2. cond \in [records : Seq(Int), selected : 0..3, port : Int]
    BY DEF PanelInv, ConductorsInv
  <2>3. ASSUME NEW r \in RecordLists, UpdateLimits([cond EXCEPT !.records = r]) PROVE ConductorsInv'
    <3>1. r \in Seq(Int)
      BY PanelAssumption
    <3> QED BY <2>1, <2>2, <2>3, <3>1
  <2>4. ASSUME NEW s \in 0..3, UpdateLimits([cond EXCEPT !.selected = s]) PROVE ConductorsInv'
    BY <2>1, <2>2, <2>4
  <2>5. ConductorsInv'
    BY <1>5, <2>3, <2>4 DEF ConductorsPart
  <2> QED BY <1>1, <1>5, <2>5 DEF ConductorsPart, PanelInv
<1>6. CASE ErrorsPart
  <2>1. PICK b \in ErrorBits, in \in {"ok", "bad", "lost"} : ErrorInput(b, in)
    BY <1>6 DEF ErrorsPart
  <2>2. ErrorsInv'
    BY <2>1 DEF PanelInv, ErrorsInv, ErrorInput
  <2> QED BY <1>1, <1>6, <2>2 DEF ErrorsPart, PanelInv
<1>7. CASE UNCHANGED panelVars
  BY <1>1, <1>7 DEF panelVars, PanelInv
<1> QED BY <1>2, <1>3, <1>4, <1>5, <1>6, <1>7 DEF PanelNext

-----------------------------------------------------------------------------
(* The page.  Programs whose loops lead to rows above them...              *)
LoopsLeadBack(prog) ==
  /\ prog \in Seq(Range(prog))
  /\ \A r \in 0 .. Len(prog) - 1 :
        V!Phase(prog, r).kind = "goto" =>
            V!Phase(prog, r).to \in 0 .. r - 1 /\ V!Phase(prog, r).N \in Nat

CounterSet(goto, pid, k) == [goto EXCEPT ![pid] = k]

(* The next phase, one step of the search after another.                   *)
LEMMA NextOperationIs ==
  ASSUME NEW prog, LoopsLeadBack(prog),
         NEW pid \in 0 .. Len(prog), NEW goto \in [0 .. Len(prog) - 1 -> Int]
  PROVE  V!NextOperation(prog, pid, goto) =
            IF pid = Len(prog) \/ V!Phase(prog, pid).kind # "goto"
            THEN [pid |-> pid, goto |-> goto]
            ELSE IF V!LoopLeft(V!Phase(prog, pid), goto[pid]) = 0
            THEN V!NextOperation(prog, pid + 1, CounterSet(goto, pid, -1))
            ELSE V!NextOperation(prog, V!Phase(prog, pid).to,
                     CounterSet(goto, pid, V!LoopLeft(V!Phase(prog, pid), goto[pid]) - 1))
<1> DEFINE D == 0 .. Len(prog) - 1
           S == [pid : 0 .. Len(prog), goto : [D -> Int]]
           T == {s \in S : V!IsProgramDone(prog, s.pid) \/ V!Phase(prog, s.pid).kind # "goto"}
           Left(s) == V!LoopLeft(V!Phase(prog, s.pid), s.goto[s.pid])
           Step(s) == IF Left(s) = 0
                      THEN [pid |-> s.pid + 1, goto |-> [s.goto EXCEPT ![s.pid] = V!Absent]]
                      ELSE [pid |-> V!Phase(prog, s.pid).to,
                            goto |-> [s.goto EXCEPT ![s.pid] = Left(s) - 1]]
           n == [s \in S |-> Step(s)]
<1>0. Len(prog) \in Nat
  BY DEF LoopsLeadBack
<1>1. \A s \in S \ T : n[s] \in S
  <2> SUFFICES ASSUME NEW s \in S \ T PROVE Step(s) \in S
    OBVIOUS
  <2>1. s.pid \in D /\ V!Phase(prog, s.pid).kind = "goto" /\ s.goto \in [D -> Int]
    BY <1>0 DEF V!IsProgramDone
  <2>2. V!Phase(prog, s.pid).to \in 0 .. Len(prog) /\ V!Phase(prog, s.pid).N \in Int
    BY <2>1 DEF LoopsLeadBack
  <2>3. s.goto[s.pid] \in Int
    BY <2>1
  <2>4. Left(s) \in Int
    BY <2>2, <2>3 DEF V!LoopLeft
  <2>5. s.pid + 1 \in 0 .. Len(prog)
    BY <2>1, <1>0
  <2>6. [s.goto EXCEPT ![s.pid] = V!Absent] \in [D -> Int] /\ [s.goto EXCEPT ![s.pid] = Left(s) - 1] \in [D -> Int]
    BY <2>1, <2>4 DEF V!Absent
  <2> QED BY <2>2, <2>5, <2>6
<1>2. \E f : HandsOn(f, S, T, n)
  <2> HIDE DEF S, T, n
  <2> QED BY <1>1, TailRecursion
<1> DEFINE Body(f, s) == IF V!IsProgramDone(prog, s.pid) \/ V!Phase(prog, s.pid).kind # "goto"
                      THEN s
                      ELSE LET loop == V!Phase(prog, s.pid)
                               left == V!LoopLeft(loop, s.goto[s.pid])
                           IN  IF left = 0
                               THEN f[[pid  |-> s.pid + 1,
                                          goto |-> [s.goto EXCEPT ![s.pid] = V!Absent]]]
                               ELSE f[[pid  |-> loop.to,
                                          goto |-> [s.goto EXCEPT ![s.pid] = left - 1]]]
           Seek == CHOOSE f : f = [s \in S |-> Body(f, s)]
<1>3. Seek = [s \in S |-> Body(Seek, s)]
  <2>0. PICK f : HandsOn(f, S, T, n)
    BY <1>2
  <2>1. /\ f = [s \in S |-> f[s]]
        /\ \A s \in S : f[s] = IF s \in T THEN s ELSE f[n[s]]
    BY <2>0 DEF HandsOn
  <2>2. \A s \in S : (IF s \in T THEN s ELSE f[n[s]]) = Body(f, s)
    OBVIOUS
  <2> HIDE DEF S, T, n, Body
  <2>3. f = [s \in S |-> Body(f, s)]
    BY <2>1, <2>2
  <2> QED BY <2>3
<1>4. ASSUME NEW p \in 0 .. Len(prog), NEW c \in [D -> Int]
      PROVE  V!NextOperation(prog, p, c) = Seek[[pid |-> p, goto |-> c]]
  <2>1. DOMAIN c = D
    OBVIOUS
  <2> QED BY <2>1 DEF V!NextOperation
<1> DEFINE s0 == [pid |-> pid, goto |-> goto]
<1>5. s0 \in S
  OBVIOUS
<1>6. Seek[s0] = Body(Seek, s0)
  <2> HIDE DEF Seek, Body, S, s0
  <2> QED BY <1>3, <1>5
<1> HIDE DEF Seek
<1>7. CASE pid = Len(prog) \/ V!Phase(prog, pid).kind # "goto"
  <2>1. Seek[s0] = s0
    BY <1>6, <1>7 DEF V!IsProgramDone
  <2> QED BY <1>4, <1>7, <2>1
<1>8. CASE ~(pid = Len(prog) \/ V!Phase(prog, pid).kind # "goto")
  <2>0. pid \in D
    BY <1>8, <1>0
  <2>1. Step(s0) \in S /\ Step(s0).pid \in 0 .. Len(prog) /\ Step(s0).goto \in [D -> Int]
    <3>1. s0 \in S \ T
      BY <1>5, <1>8 DEF V!IsProgramDone
    <3>2. n[s0] = Step(s0)
      BY <1>5
    <3>3. Step(s0) \in S
      <4> HIDE DEF n, S, T, Step, s0
      <4> QED BY <3>1, <3>2, <1>1
    <3> QED BY <3>3
  <2>2. Seek[s0] = IF Left(s0) = 0 THEN Seek[[pid |-> pid + 1, goto |-> [goto EXCEPT ![pid] = V!Absent]]]
                   ELSE Seek[[pid |-> V!Phase(prog, pid).to, goto |-> [goto EXCEPT ![pid] = Left(s0) - 1]]]
    BY <1>6, <1>8 DEF V!IsProgramDone
  <2>3. CASE V!LoopLeft(V!Phase(prog, pid), goto[pid]) = 0
    <3>1. Step(s0) = [pid |-> pid + 1, goto |-> [goto EXCEPT ![pid] = -1]]
      BY <2>3 DEF V!Absent
    <3>2. pid + 1 \in 0 .. Len(prog) /\ [goto EXCEPT ![pid] = -1] \in [D -> Int]
      BY <2>1, <3>1
    <3>3. Seek[[pid |-> pid + 1, goto |-> [goto EXCEPT ![pid] = -1]]] = V!NextOperation(prog, pid + 1, [goto EXCEPT ![pid] = -1])
      BY <1>4, <3>2
    <3>4. Seek[s0] = Seek[[pid |-> pid + 1, goto |-> [goto EXCEPT ![pid] = -1]]]
      BY <2>2, <2>3 DEF V!Absent
    <3>5. V!NextOperation(prog, pid, goto) = V!NextOperation(prog, pid + 1, CounterSet(goto, pid, -1))
      BY <1>4, <3>3, <3>4 DEF CounterSet
    <3> QED BY <1>8, <2>3, <3>5
  <2>4. CASE V!LoopLeft(V!Phase(prog, pid), goto[pid]) # 0
    <3> DEFINE g == [goto EXCEPT ![pid] = V!LoopLeft(V!Phase(prog, pid), goto[pid]) - 1]
    <3>1. Step(s0) = [pid |-> V!Phase(prog, pid).to, goto |-> g]
      BY <2>4
    <3>2. V!Phase(prog, pid).to \in 0 .. Len(prog) /\ g \in [D -> Int]
      BY <2>1, <3>1
    <3>3. Seek[[pid |-> V!Phase(prog, pid).to, goto |-> g]] = V!NextOperation(prog, V!Phase(prog, pid).to, g)
      <4> HIDE DEF g
      <4> QED BY <1>4, <3>2
    <3>4. Seek[s0] = Seek[[pid |-> V!Phase(prog, pid).to, goto |-> g]]
      BY <2>2, <2>4
    <3>5. V!NextOperation(prog, pid, goto) = V!NextOperation(prog, V!Phase(prog, pid).to, g)
      BY <1>4, <3>3, <3>4
    <3>6. g = CounterSet(goto, pid, V!LoopLeft(V!Phase(prog, pid), goto[pid]) - 1)
      BY DEF CounterSet
    <3> HIDE DEF g
    <3> QED BY <1>8, <2>4, <3>5, <3>6
  <2> QED BY <2>3, <2>4
<1> QED BY <1>7, <1>8

(* ... whose loops follow one another nowhere: below a loop, and where it    *)
(* leads, is a row that is none.                                           *)
LoopsStandApart(prog) ==
  \A r \in 0 .. Len(prog) - 1 :
     V!Phase(prog, r).kind = "goto" =>
        /\ V!Phase(prog, V!Phase(prog, r).to).kind # "goto"
        /\ r + 1 < Len(prog) => V!Phase(prog, r + 1).kind # "goto"

LoopAt(prog, r) == r < Len(prog) /\ V!Phase(prog, r).kind = "goto"

Counters(prog) == {c \in [0 .. Len(prog) - 1 -> Int] : \A r \in 0 .. Len(prog) - 1 : c[r] >= -1}

(* From row q on the mode stays there if it is no loop, and otherwise goes   *)
(* past the loop that is done, or back to where it leads.                  *)
LEMMA PageFindsRow ==
  ASSUME NEW prog, Len(prog) \in Nat, LoopsLeadBack(prog), NEW q \in 0 .. Len(prog),
         NEW c \in [0 .. Len(prog) - 1 -> Int], ~LoopAt(prog, q)
  PROVE  V!NextOperation(prog, q, c) = [pid |-> q, goto |-> c]
<1>1. q = Len(prog) \/ V!Phase(prog, q).kind # "goto"
  BY DEF LoopAt
<1> QED BY <1>1, NextOperationIs

LEMMA PageFindsLoop ==
  ASSUME NEW prog, Len(prog) \in Nat, LoopsLeadBack(prog), LoopsStandApart(prog),
         NEW q \in 0 .. Len(prog), NEW c \in [0 .. Len(prog) - 1 -> Int],
         \A l \in 0 .. Len(prog) - 1 : c[l] >= -1, LoopAt(prog, q),
         NEW loop, loop = V!Phase(prog, q), NEW left, left = V!LoopLeft(loop, c[q]),
         NEW c0, c0 = CounterSet(c, q, -1), NEW c1, c1 = CounterSet(c, q, left - 1)
  PROVE  /\ left \in Nat /\ loop.N \in Nat /\ q \in 0 .. Len(prog) - 1
         /\ c0 \in [0 .. Len(prog) - 1 -> Int] /\ c1 \in [0 .. Len(prog) - 1 -> Int]
         /\ left = 0 => /\ q + 1 \in 0 .. Len(prog) /\ ~LoopAt(prog, q + 1)
                        /\ V!NextOperation(prog, q, c) = [pid |-> q + 1, goto |-> c0]
         /\ left # 0 => /\ loop.to \in 0 .. q - 1 /\ ~LoopAt(prog, loop.to)
                        /\ V!NextOperation(prog, q, c) = [pid |-> loop.to, goto |-> c1]
<1>1. q \in 0 .. Len(prog) - 1 /\ loop.kind = "goto" /\ q # Len(prog)
  BY DEF LoopAt
<1>2. loop.to \in 0 .. q - 1 /\ loop.N \in Nat
  BY <1>1 DEF LoopsLeadBack
<1>3. left \in Nat
  <2>1. c[q] \in Int /\ c[q] >= -1
    BY <1>1
  <2> QED BY <1>2, <2>1 DEF V!LoopLeft, V!Absent
<1>5. ~LoopAt(prog, loop.to)
  BY <1>1 DEF LoopsStandApart, LoopAt
<1>6. q + 1 \in 0 .. Len(prog)
  BY <1>1
<1>7. ~LoopAt(prog, q + 1)
  BY <1>1, <1>6 DEF LoopsStandApart, LoopAt
<1>8. c0 \in [0 .. Len(prog) - 1 -> Int] /\ c1 \in [0 .. Len(prog) - 1 -> Int]
  <2> DEFINE D == 0 .. Len(prog) - 1
  <2>1. left - 1 \in Int /\ -1 \in Int /\ c \in [D -> Int]
    BY <1>3
  <2>2. c0 \in [D -> Int] /\ c1 \in [D -> Int]
    <3> HIDE DEF D
    <3> QED BY <2>1 DEF CounterSet
  <2> QED BY <2>2
<1>9. V!NextOperation(prog, q, c) = IF left = 0 THEN V!NextOperation(prog, q + 1, c0)
                                    ELSE V!NextOperation(prog, loop.to, c1)
  <2>1. ~(q = Len(prog) \/ V!Phase(prog, q).kind # "goto")
    BY <1>1
  <2> QED BY <2>1, NextOperationIs
<1>10. V!NextOperation(prog, q + 1, c0) = [pid |-> q + 1, goto |-> c0]
  BY <1>6, <1>7, <1>8, PageFindsRow
<1>11. V!NextOperation(prog, loop.to, c1) = [pid |-> loop.to, goto |-> c1]
  <2>1. loop.to \in 0 .. Len(prog)
    BY <1>1, <1>2
  <2> QED BY <1>5, <1>8, <2>1, PageFindsRow
<1>12. left = 0 => /\ q + 1 \in 0 .. Len(prog) /\ ~LoopAt(prog, q + 1)
                  /\ V!NextOperation(prog, q, c) = [pid |-> q + 1, goto |-> c0]
  BY <1>6, <1>7, <1>9, <1>10
<1>13. left # 0 => /\ loop.to \in 0 .. q - 1 /\ ~LoopAt(prog, loop.to)
                  /\ V!NextOperation(prog, q, c) = [pid |-> loop.to, goto |-> c1]
  BY <1>2, <1>5, <1>9, <1>11
<1> QED BY <1>1, <1>2, <1>3, <1>8, <1>8, <1>12, <1>13

(* set_phase_id as an operator.                                            *)
Counted(prog, rep, r, id) ==
  CASE r = Len(prog) -> rep
    [] r # Len(prog) /\ id <= r -> [rep EXCEPT ![IF LoopAt(prog, r) THEN r ELSE r + 1] = @ + 1]
    [] r # Len(prog) /\ id > r -> [rep EXCEPT ![id - 1] = 0]

ShownRight(prog, rep, c) ==
  \A r \in 0 .. Len(prog) - 1 :
     LoopAt(prog, r) => V!Phase(prog, r).N - rep[r] = V!LoopLeft(V!Phase(prog, r), c[r])

LEMMA CounterSetIs ==
  ASSUME NEW D, NEW c \in [D -> Int], NEW q, NEW k
  PROVE  \A l \in D : /\ l = q => CounterSet(c, q, k)[l] = k
                      /\ l # q => CounterSet(c, q, k)[l] = c[l]
  BY DEF CounterSet

(* The passes that the page counts from the numbers of the rows are those    *)
(* the mode counts.                                                        *)
LEMMA PageCounts ==
  ASSUME NEW prog, Len(prog) \in Nat, LoopsLeadBack(prog), LoopsStandApart(prog),
         NEW r \in 0 .. Len(prog) - 1, ~LoopAt(prog, r), NEW q, q = r + 1,
         NEW c \in [0 .. Len(prog) - 1 -> Int], \A l \in 0 .. Len(prog) - 1 : c[l] >= -1,
         NEW rep \in [0 .. Len(prog) -> Int], ShownRight(prog, rep, c),
         NEW found, found = V!NextOperation(prog, q, c)
  PROVE  /\ found.pid \in 0 .. Len(prog) /\ ~LoopAt(prog, found.pid)
         /\ found.goto \in Counters(prog)
         /\ Counted(prog, rep, r, found.pid) \in [0 .. Len(prog) -> Int]
         /\ ShownRight(prog, Counted(prog, rep, r, found.pid), found.goto)
<1> DEFINE D == 0 .. Len(prog) - 1
<1>0. q \in 0 .. Len(prog) /\ r # Len(prog) /\ q > r /\ q - 1 = r
  OBVIOUS
<1>01. c \in Counters(prog)
  BY DEF Counters
<1>1. CASE ~LoopAt(prog, q)
  <2>1. found.pid = q /\ found.goto = c
    BY <1>0, <1>1, PageFindsRow
  <2>2. Counted(prog, rep, r, q) = [rep EXCEPT ![q - 1] = 0]
    BY <1>0 DEF Counted
  <2> DEFINE n == [rep EXCEPT ![r] = 0]
  <2>3. [rep EXCEPT ![q - 1] = 0] = n /\ n \in [0 .. Len(prog) -> Int]
    BY <1>0
  <2>4. ShownRight(prog, n, c)
    <3> SUFFICES ASSUME NEW l \in D, LoopAt(prog, l)
                 PROVE  V!Phase(prog, l).N - n[l] = V!LoopLeft(V!Phase(prog, l), c[l])
      BY DEF ShownRight
    <3>1. n[l] = rep[l]
      OBVIOUS
    <3>2. V!Phase(prog, l).N - rep[l] = V!LoopLeft(V!Phase(prog, l), c[l])
      BY DEF ShownRight
    <3> QED BY <3>1, <3>2
  <2> HIDE DEF n
  <2>6. found.pid \in 0 .. Len(prog) /\ ~LoopAt(prog, found.pid) /\ found.goto \in Counters(prog)
    BY <1>0, <1>01, <1>1, <2>1
  <2> QED BY <2>1, <2>2, <2>3, <2>4, <2>6
<1>2. CASE LoopAt(prog, q)
  <2> DEFINE loop == V!Phase(prog, q)
             left == V!LoopLeft(loop, c[q])
             c0 == CounterSet(c, q, -1)
             c1 == CounterSet(c, q, left - 1)
             n0 == [rep EXCEPT ![q] = 0]
             n1 == [rep EXCEPT ![q] = @ + 1]
  <2>1. /\ left \in Nat /\ loop.N \in Nat /\ q \in D
        /\ c0 \in [D -> Int] /\ c1 \in [D -> Int]
        /\ left = 0 => /\ q + 1 \in 0 .. Len(prog) /\ ~LoopAt(prog, q + 1)
                       /\ found = [pid |-> q + 1, goto |-> c0]
        /\ left # 0 => /\ loop.to \in 0 .. q - 1 /\ ~LoopAt(prog, loop.to)
                       /\ found = [pid |-> loop.to, goto |-> c1]
    BY <1>0, <1>2, PageFindsLoop
  <2>01. \A l \in D : /\ l = q => c0[l] = -1 /\ c1[l] = left - 1
                      /\ l # q => c0[l] = c[l] /\ c1[l] = c[l]
    <3>1. c \in [D -> Int]
      OBVIOUS
    <3> HIDE DEF D, left
    <3> QED BY <3>1, CounterSetIs
  <2>02. \A l \in D : c[l] \in Int /\ c[l] >= -1
    OBVIOUS
  <2> HIDE DEF c0, c1
  <2>2. loop.N - rep[q] = left /\ rep[q] \in Int
    BY <1>0, <1>2, <2>1 DEF ShownRight
  <2>3. c0 \in Counters(prog)
    <3>2. ASSUME NEW l \in D PROVE c0[l] >= -1
      <4> HIDE DEF D
      <4> QED BY <2>01, <2>02
    <3> QED BY <2>1, <3>2 DEF Counters
  <2>31. n0 \in [0 .. Len(prog) -> Int] /\ n1 \in [0 .. Len(prog) -> Int]
    BY <1>0, <2>2
  <2>4. left # 0 => c1 \in Counters(prog)
    <3> HIDE DEF left
    <3>2. ASSUME left # 0, NEW l \in D PROVE c1[l] >= -1
      <4>1. left - 1 >= -1
        BY <2>1, <3>2
      <4> HIDE DEF D
      <4> QED BY <2>01, <2>02, <4>1
    <3> QED BY <2>1, <3>2 DEF Counters
  <2>5. ASSUME NEW l \in D, LoopAt(prog, l), l # q
        PROVE  /\ c0[l] = c[l] /\ c1[l] = c[l] /\ n0[l] = rep[l] /\ n1[l] = rep[l]
               /\ V!Phase(prog, l).N - rep[l] = V!LoopLeft(V!Phase(prog, l), c[l])
    <3>1. V!Phase(prog, l).N - rep[l] = V!LoopLeft(V!Phase(prog, l), c[l])
      BY <2>5 DEF ShownRight
    <3>2. c0[l] = c[l] /\ c1[l] = c[l]
      <4> HIDE DEF D
      <4> QED BY <2>01, <2>5
    <3>3. n0[l] = rep[l] /\ n1[l] = rep[l]
      BY <2>5
    <3> QED BY <3>1, <3>2, <3>3
  <2>6. V!LoopLeft(loop, c0[q]) = loop.N /\ n0[q] = 0
    BY <1>0, <2>01, <2>02, <2>1 DEF V!LoopLeft, V!Absent
  <2>7. left # 0 => V!LoopLeft(loop, c1[q]) = left - 1 /\ n1[q] = rep[q] + 1
    <3> HIDE DEF left
    <3>0. c1[q] = left - 1
      <4> HIDE DEF D
      <4> QED BY <2>01, <2>1
    <3>1. c1[q] = left - 1 /\ n1[q] = rep[q] + 1
      BY <1>0, <3>0, <2>1
    <3>2. left # 0 => left - 1 # -1
      BY <2>1
    <3> QED BY <3>1, <3>2 DEF V!LoopLeft, V!Absent
  <2>8. ShownRight(prog, n0, c0)
    <3> SUFFICES ASSUME NEW l \in D, LoopAt(prog, l)
                 PROVE  V!Phase(prog, l).N - n0[l] = V!LoopLeft(V!Phase(prog, l), c0[l])
      BY DEF ShownRight
    <3> HIDE DEF n0
    <3>1. CASE l = q
      BY <2>1, <2>6, <3>1
    <3>2. CASE l # q
      BY <2>5, <3>2
    <3> QED BY <3>1, <3>2
  <2>9. left # 0 => ShownRight(prog, n1, c1)
    <3> SUFFICES ASSUME left # 0, NEW l \in D, LoopAt(prog, l)
                 PROVE  V!Phase(prog, l).N - n1[l] = V!LoopLeft(V!Phase(prog, l), c1[l])
      BY DEF ShownRight
    <3> HIDE DEF n1, left
    <3>1. CASE l = q
      <4>1. V!LoopLeft(loop, c1[q]) = left - 1 /\ n1[q] = rep[q] + 1
        BY <2>7
      <4>2. loop.N - (rep[q] + 1) = left - 1
        BY <2>1, <2>2
      <4> QED BY <3>1, <4>1, <4>2
    <3>2. CASE l # q
      BY <2>5, <3>2
    <3> QED BY <3>1, <3>2
  <2> HIDE DEF left
  <2>10. CASE left = 0
    <3>1. found.pid = q + 1 /\ found.goto = c0
      BY <2>1, <2>10
    <3>2. Counted(prog, rep, r, q + 1) = [rep EXCEPT ![(q + 1) - 1] = 0]
      BY <1>0 DEF Counted
    <3>3. (q + 1) - 1 = q
      BY <1>0
    <3>4. Counted(prog, rep, r, q + 1) = n0
      BY <3>2, <3>3
    <3> HIDE DEF n0
    <3> QED BY <2>1, <2>3, <2>31, <2>8, <2>10, <3>1, <3>4
  <2>11. CASE left # 0
    <3>1. found.pid = loop.to /\ found.goto = c1
      BY <2>1, <2>11
    <3>2. Counted(prog, rep, r, loop.to) = n1
      <4>1. loop.to \in Int /\ loop.to <= r
        BY <2>1, <2>11, <1>0
      <4> HIDE DEF loop
      <4> QED BY <1>0, <4>1 DEF Counted
    <3>3. loop.to \in 0 .. Len(prog)
      BY <2>1, <2>11, <1>0
    <3> HIDE DEF n1
    <3> QED BY <2>1, <2>31, <2>4, <2>9, <2>11, <3>1, <3>2, <3>3
  <2> QED BY <2>10, <2>11
<1> QED BY <1>1, <1>2

(* Pages of such programs; with StopBeforeLoop, or with loops right after    *)
(* one another, what set_phase_id concludes from the rows is not true.     *)
PlainPages ==
  /\ StopBeforeLoop = FALSE
  /\ \A p \in PagePrograms : Len(p) \in Nat /\ LoopsLeadBack(p) /\ LoopsStandApart(p)

(* The page and the mode in one state: the marked row is the phase of the    *)
(* run, and it is no loop; a run that has been stopped was stopped above no  *)
(* loop; and since start was pressed nothing has been counted.             *)
PageInv ==
  /\ pageProg \in PagePrograms
  /\ pageWire \in {"blocked", "ready", "active"}
  /\ button \in [shown : {"start", "stop"}, enabled : BOOLEAN]
  /\ ButtonsFit
  /\ row \in 0 .. Rows /\ at \in 0 .. Rows
  /\ repeated \in [0 .. Rows -> Int]
  /\ passes \in Counters(pageProg)
  /\ pageWire = "active" => ~LoopAt(pageProg, row) /\ ShownRight(pageProg, repeated, passes)
  /\ pageWire # "active" =>
        \/ row = Rows
        \/ ~LoopAt(pageProg, row) /\ ~LoopAt(pageProg, row + 1)
  /\ pageWire = "ready" /\ ~button.enabled => repeated = NothingRepeated(pageProg)

LEMMA SetPhaseIdCounts ==
  ASSUME NEW id, SetPhaseId(id)
  PROVE  row' = id /\ repeated' = Counted(pageProg, repeated, row, id)
BY DEF SetPhaseId, Counted, Rows, IsLoop, LoopAt

LEMMA NothingCounted ==
  ASSUME NEW prog, Len(prog) \in Nat, LoopsLeadBack(prog)
  PROVE  /\ NothingRepeated(prog) \in [0 .. Len(prog) -> Int]
         /\ NotLooped(prog) \in Counters(prog)
         /\ ShownRight(prog, NothingRepeated(prog), NotLooped(prog))
<1> DEFINE D == 0 .. Len(prog) - 1
           rep == NothingRepeated(prog)
           c == NotLooped(prog)
<1>1. rep \in [0 .. Len(prog) -> Int] /\ \A l \in 0 .. Len(prog) : rep[l] = 0
  BY DEF NothingRepeated
<1>2. c \in [D -> Int] /\ \A l \in D : c[l] = -1
  BY DEF NotLooped, V!Absent
<1> HIDE DEF rep, c
<1>3. c \in Counters(prog)
  BY <1>2 DEF Counters
<1>4. ASSUME NEW r \in D, LoopAt(prog, r)
      PROVE  V!Phase(prog, r).N - rep[r] = V!LoopLeft(V!Phase(prog, r), c[r])
  <2>1. V!Phase(prog, r).N \in Nat
    BY <1>4 DEF LoopsLeadBack, LoopAt
  <2>2. rep[r] = 0 /\ c[r] = -1
    BY <1>1, <1>2
  <2> QED BY <2>1, <2>2 DEF V!LoopLeft, V!Absent
<1>5. ShownRight(prog, rep, c)
  BY <1>4 DEF ShownRight
<1> QED BY <1>1, <1>3, <1>5 DEF rep, c

(* The start of a run counts for no loop.                                  *)
LEMMA StartCounts ==
  ASSUME NEW prog, Len(prog) \in Nat, LoopsLeadBack(prog), LoopsStandApart(prog),
         NEW r \in 0 .. Len(prog),
         r = Len(prog) \/ (~LoopAt(prog, r) /\ ~LoopAt(prog, r + 1))
  PROVE  /\ ~LoopAt(prog, 0)
         /\ Counted(prog, NothingRepeated(prog), r, 0) \in [0 .. Len(prog) -> Int]
         /\ ShownRight(prog, Counted(prog, NothingRepeated(prog), r, 0), NotLooped(prog))
<1> DEFINE rep == NothingRepeated(prog)
           c == NotLooped(prog)
<1>1. ~LoopAt(prog, 0)
  <2> SUFFICES ASSUME LoopAt(prog, 0) PROVE FALSE
    OBVIOUS
  <2>1. V!Phase(prog, 0).to \in 0 .. 0 - 1
    BY DEF LoopAt, LoopsLeadBack
  <2> QED BY <2>1
<1>2. rep \in [0 .. Len(prog) -> Int] /\ ShownRight(prog, rep, c)
  BY NothingCounted
<1>3. CASE r = Len(prog)
  <2>1. Counted(prog, rep, r, 0) = rep
    BY <1>3 DEF Counted
  <2> QED BY <1>1, <1>2, <2>1
<1>4. CASE r # Len(prog)
  <2> DEFINE n == [rep EXCEPT ![r + 1] = @ + 1]
  <2> HIDE DEF rep
  <2>0. ~LoopAt(prog, r) /\ 0 <= r
    BY <1>4
  <2>1. Counted(prog, rep, r, 0) = n
    BY <1>4, <2>0 DEF Counted
  <2>2. r + 1 \in 0 .. Len(prog) /\ ~LoopAt(prog, r + 1)
    BY <1>4
  <2>3. n \in [0 .. Len(prog) -> Int]
    <3>1. rep[r + 1] + 1 \in Int
      BY <1>2, <2>2
    <3> DEFINE D == 0 .. Len(prog)
    <3>2. rep \in [D -> Int]
      BY <1>2
    <3> HIDE DEF D
    <3>3. n \in [D -> Int]
      BY <3>1, <3>2
    <3> QED BY <3>3 DEF D
  <2>4. ASSUME NEW l \in 0 .. Len(prog) - 1, LoopAt(prog, l) PROVE n[l] = rep[l]
    <3>1. l # r + 1 /\ l \in 0 .. Len(prog)
      BY <2>2, <2>4
    <3> QED BY <3>1, <1>2
  <2> HIDE DEF n
  <2>5. ShownRight(prog, n, c)
    BY <1>2, <2>4 DEF ShownRight
  <2> QED BY <1>1, <2>1, <2>3, <2>5 DEF rep
<1> QED BY <1>3, <1>4

LEMMA PageInvInit == ASSUME PlainPages, PageInit PROVE PageInv
<1>1. pageProg \in PagePrograms /\ Len(pageProg) \in Nat /\ LoopsLeadBack(pageProg)
  BY DEF PlainPages, PageInit
<1>2. repeated \in [0 .. Rows -> Int] /\ passes \in Counters(pageProg)
  BY <1>1, NothingCounted DEF PageInit, Rows
<1>3. row = Rows /\ at = Rows /\ row \in 0 .. Rows
  BY <1>1 DEF PageInit, Rows
<1>4. pageWire = "blocked" /\ ButtonsFit
  BY DEF PageInit, ButtonsFit
<1> QED BY <1>1, <1>2, <1>3, <1>4 DEF PageInv

LEMMA PageInvStep == PlainPages /\ PageInv /\ [PageNext]_autoPageVars => PageInv'
<1> SUFFICES ASSUME PlainPages, PageInv, [PageNext]_autoPageVars PROVE PageInv'
  OBVIOUS
<1>0. /\ pageProg \in PagePrograms /\ Len(pageProg) \in Nat /\ Rows = Len(pageProg)
      /\ LoopsLeadBack(pageProg) /\ LoopsStandApart(pageProg)
  BY DEF PlainPages, PageInv, Rows
<1>1. CASE MakeStart
  <2>1. NothingRepeated(pageProg) \in [0 .. Rows -> Int]
    BY <1>0, NothingCounted
  <2>2. ButtonsFit'
    BY <1>1 DEF MakeStart, ButtonsFit, PageInv
  <2>3. pageWire = "ready" /\ pageWire' = "ready" /\ repeated' = NothingRepeated(pageProg)
    BY <1>1 DEF MakeStart
  <2>4. UNCHANGED <<pageProg, pageWire, row, at, passes>>
    BY <1>1 DEF MakeStart
  <2> QED BY <1>0, <2>1, <2>2, <2>3, <2>4 DEF PageInv, Rows, NothingRepeated
<1>2. CASE ModeStarts
  <2>1. /\ pageWire = "ready" /\ repeated = NothingRepeated(pageProg)
        /\ pageWire' = "active" /\ pageProg' = pageProg
        /\ at' = 0 /\ passes' = NotLooped(pageProg) /\ row' = 0
        /\ repeated' = Counted(pageProg, repeated, row, 0)
    BY <1>2, SetPhaseIdCounts DEF ModeStarts, UpdateWidgetView, PageInv
  <2>2. row \in 0 .. Len(pageProg) /\ (row = Len(pageProg) \/ (~LoopAt(pageProg, row) /\ ~LoopAt(pageProg, row + 1)))
    BY <1>0, <2>1 DEF PageInv
  <2>3. /\ ~LoopAt(pageProg, 0)
        /\ repeated' \in [0 .. Rows -> Int] /\ ShownRight(pageProg, repeated', NotLooped(pageProg))
    BY <1>0, <2>1, <2>2, StartCounts
  <2>4. ButtonsFit'
    <3>1. button' = [shown |-> "stop", enabled |-> TRUE] /\ continueShown' = FALSE
      BY <1>2 DEF ModeStarts, UpdateWidgetView
    <3> QED BY <2>1, <3>1 DEF ButtonsFit
  <2>5. NotLooped(pageProg) \in Counters(pageProg)
    BY <1>0, NothingCounted
  <2>6. Rows' = Rows /\ 0 \in 0 .. Rows
    BY <1>0, <2>1 DEF Rows
  <2> QED BY <1>0, <2>1, <2>3, <2>4, <2>5, <2>6 DEF PageInv
<1>3. CASE ModeGoesOn
  <2> DEFINE found == V!NextOperation(pageProg, at + 1, passes)
  <2>1. /\ pageWire = "active" /\ row = at /\ at \in 0 .. Len(pageProg) - 1
        /\ at' = found.pid /\ passes' = found.goto /\ SetPhaseId(found.pid)
        /\ pageProg' = pageProg
    BY <1>0, <1>3 DEF ModeGoesOn, PageInv, ButtonsFit
  <2>2. row' = found.pid /\ repeated' = Counted(pageProg, repeated, at, found.pid)
    <3> HIDE DEF found
    <3> QED BY <2>1, SetPhaseIdCounts
  <2>3. /\ passes \in [0 .. Len(pageProg) - 1 -> Int]
        /\ \A l \in 0 .. Len(pageProg) - 1 : passes[l] >= -1
    BY DEF PageInv, Counters
  <2>4. /\ ~LoopAt(pageProg, at) /\ ShownRight(pageProg, repeated, passes)
        /\ repeated \in [0 .. Len(pageProg) -> Int]
    BY <1>0, <2>1 DEF PageInv
  <2>5. /\ found.pid \in 0 .. Len(pageProg) /\ ~LoopAt(pageProg, found.pid)
        /\ found.goto \in Counters(pageProg)
        /\ Counted(pageProg, repeated, at, found.pid) \in [0 .. Len(pageProg) -> Int]
        /\ ShownRight(pageProg, Counted(pageProg, repeated, at, found.pid), found.goto)
    BY <1>0, <2>1, <2>3, <2>4, PageCounts
  <2> HIDE DEF found
  <2>6. Rows' = Rows
    BY <2>1 DEF Rows
  <2>7. CASE found.pid = Rows
    <3>1. /\ pageWire' = "ready" /\ continueShown' = FALSE
          /\ button' = [shown |-> "start", enabled |-> TRUE]
      BY <1>3, <2>7 DEF ModeGoesOn, UpdateWidgetView, found
    <3>2. ButtonsFit'
      BY <3>1 DEF ButtonsFit
    <3>3. button'.enabled = TRUE
      BY <3>1
    <3> QED BY <1>0, <2>1, <2>2, <2>5, <2>6, <2>7, <3>1, <3>2, <3>3 DEF PageInv
  <2>8. CASE found.pid # Rows
    <3>1. UNCHANGED <<pageWire, button, continueShown>>
      BY <1>3, <2>8 DEF ModeGoesOn, found
    <3>2. ButtonsFit'
      BY <2>1, <2>2, <3>1 DEF ButtonsFit, PageInv
    <3> QED BY <1>0, <2>1, <2>2, <2>5, <2>6, <3>1, <3>2 DEF PageInv
  <2> QED BY <2>7, <2>8
<1>4. CASE UpdateTimes \/ MakeContinue \/ MakeStop
  <2>1. /\ UNCHANGED <<pageProg, pageWire, row, repeated, at, passes>>
        /\ pageWire = "active"
    BY <1>4 DEF UpdateTimes, MakeContinue, MakeStop
  <2>2. button'.shown = button.shown /\ button.shown = "stop"
    <3>1. button.shown = "stop"
      BY <2>1 DEF PageInv, ButtonsFit
    <3>2. button' = button \/ button' = [button EXCEPT !.enabled = FALSE]
      BY <1>4 DEF UpdateTimes, MakeContinue, MakeStop
    <3>3. button'.shown = button.shown
      BY <3>2 DEF PageInv
    <3> QED BY <3>1, <3>3
  <2>3. ButtonsFit'
    <3>1. button' # [shown |-> "start", enabled |-> TRUE]
      BY <2>2
    <3> QED BY <2>1, <2>2, <3>1 DEF ButtonsFit, PageInv
  <2> QED BY <2>1, <2>3 DEF PageInv, Rows
<1>5. CASE ShowProgram
  <2>1. PICK p \in PagePrograms :
          /\ pageWire # "active" /\ pageProg' = p
          /\ row' = Len(p) /\ repeated' = NothingRepeated(p)
          /\ at' = Len(p) /\ passes' = NotLooped(p)
          /\ UNCHANGED <<pageWire, button, continueShown, inPause>>
    BY <1>5 DEF ShowProgram
  <2>2. Len(p) \in Nat /\ LoopsLeadBack(p)
    BY DEF PlainPages
  <2>3. NothingRepeated(p) \in [0 .. Len(p) -> Int] /\ NotLooped(p) \in Counters(p)
    BY <2>2, NothingCounted
  <2>4. ButtonsFit'
    BY <2>1 DEF PageInv, ButtonsFit
  <2>5. Rows' = Len(p) /\ Len(p) \in 0 .. Len(p)
    BY <2>1, <2>2 DEF Rows
  <2>6. pageWire' # "active" /\ pageWire' \in {"blocked", "ready", "active"}
    BY <2>1 DEF PageInv
  <2> QED BY <2>1, <2>3, <2>4, <2>5, <2>6 DEF PageInv
<1>6. CASE \E s \in {"blocked", "ready"} : ModeStatus(s)
  <2>1. PICK s \in {"blocked", "ready"} : ModeStatus(s)
    BY <1>6
  <2>2. /\ pageWire # s /\ s # "active" /\ pageWire' = s
        /\ pageWire = "active" => ~IsLoop(at + 1)
        /\ continueShown' = FALSE
        /\ button' = [shown |-> "start", enabled |-> s # "blocked"]
        /\ UNCHANGED <<pageProg, row, repeated, at, passes>>
    BY <2>1 DEF ModeStatus, UpdateWidgetView, PlainPages
  <2>3. ButtonsFit'
    BY <2>2 DEF ButtonsFit
  <2>4. row = Rows \/ (~LoopAt(pageProg, row) /\ ~LoopAt(pageProg, row + 1))
    <3>1. CASE pageWire = "active"
      BY <2>2, <3>1 DEF PageInv, ButtonsFit, LoopAt, IsLoop, Rows
    <3>2. CASE pageWire # "active"
      BY <3>2 DEF PageInv
    <3> QED BY <3>1, <3>2
  <2>5. Rows' = Rows
    BY <2>2 DEF Rows
  <2>6. s = "ready" => button'.enabled = TRUE
    BY <2>2
  <2> QED BY <1>0, <2>2, <2>3, <2>4, <2>5, <2>6 DEF PageInv
<1>7. CASE UNCHANGED autoPageVars
  BY <1>7 DEF autoPageVars, PageInv, ButtonsFit, Rows
<1> QED BY <1>1, <1>2, <1>3, <1>4, <1>5, <1>6, <1>7 DEF PageNext

LEMMA PageInvShows == ASSUME PlainPages, PageInv PROVE PageShowsRun
<1>1. ButtonsFit
  BY DEF PageInv
<1>2. ASSUME pageWire = "active", NEW r \in Loops
      PROVE  LoopRepeatCount(r) = V!LoopLeft(V!Phase(pageProg, r), passes[r])
  <2>1. r \in 0 .. Len(pageProg) - 1 /\ LoopAt(pageProg, r)
    BY DEF Loops, IsLoop, LoopAt, Rows
  <2>2. ShownRight(pageProg, repeated, passes)
    BY <1>2 DEF PageInv
  <2> QED BY <2>1, <2>2 DEF ShownRight, LoopRepeatCount
<1> QED BY <1>1, <1>2 DEF PageShowsRun, PassesShown

-----------------------------------------------------------------------------
(* The composition: a step is one of a node, or leaves it alone.           *)
LEMMA PanelSteps == [NodesNext]_nodesVars => [PanelNext]_panelVars
  BY DEF NodesNext, Others, nodesVars

LEMMA PageSteps == [NodesNext]_nodesVars => [PageNext]_autoPageVars
  BY DEF NodesNext, Others, nodesVars

LEMMA WindowSteps == [NodesNext]_nodesVars => [WindowNext]_windowVars
  BY DEF NodesNext, Others, nodesVars, WindowNext

LEMMA FrameSteps == [NodesNext]_nodesVars => [FrameNext]_frameVars
  BY DEF NodesNext, Others, nodesVars

ScreensInv == PanelInv /\ PageInv /\ WindowInv /\ FrameInv

(***************************************************************************)
(* What the operator is shown is true: the panel shows the speeds and the   *)
(* currents that rule, the page of the automatic mode the run and the       *)
(* passes left of its loops, the window the axes and the speeds it moves    *)
(* them at, the frame the mode and the box that covers it                   *)
(* (speed-node.cpp, program-model-mode.cpp:5-39, axis-ctl-widget.cpp:97-223,  *)
(* LockMessageBox.cpp:71-134).  It takes the keys the frame knows and       *)
(* programs whose loops stand apart, stopped above none of them.           *)
(***************************************************************************)
THEOREM ScreensAlwaysShow ==
  ASSUME PlainPages, BkiKeys \subseteq 0..2
  PROVE  NodesSpec => []ScreensShow
<1>1. NodesInit => ScreensInv
  BY PanelInvInit, PageInvInit, WindowInvInit, FrameInvInit DEF NodesInit, ScreensInv
<1>2. ScreensInv /\ [NodesNext]_nodesVars => ScreensInv'
  BY PanelSteps, PageSteps, WindowSteps, FrameSteps,
     PanelInvStep, PageInvStep, WindowInvStep, FrameInvStep DEF ScreensInv
<1>3. ScreensInv => ScreensShow
  BY PanelInvCurrent, PageInvShows DEF ScreensInv, ScreensShow, WindowInv, FrameInv
<1> QED BY <1>1, <1>2, <1>3, PTL DEF NodesSpec
-----------------------------------------------------------------------------
(* The list of programs.  Its records have sources, and records of one name *)
(* differ in their contents and have no disk in common.                    *)
Fields == {"filename", "crc", "source", "removed", "syncing"}

GoodList(rs) ==
  /\ IsQueue(rs)
  /\ \A i \in 1 .. Len(rs) :
        DOMAIN rs[i] = Fields /\ rs[i].source \subseteq Disks /\ rs[i].source # {}
  /\ \A i, j \in 1 .. Len(rs) :
        i # j /\ rs[i].filename = rs[j].filename =>
            rs[i].crc # rs[j].crc /\ rs[i].source \cap rs[j].source = {}

(* The list has contents c of file n of disk d.                            *)
Lists(rs, d, n, c) ==
  \E i \in 1 .. Len(rs) : rs[i].filename = n /\ rs[i].crc = c /\ d \in rs[i].source

(* Of other files it has in t what it has in s.                            *)
Keeps(s, t, d, n) ==
  \A e, m, c : (e # d \/ m # n) /\ Lists(s, e, m, c) => Lists(t, e, m, c)

(* A list made of records of another, each once, is as good.               *)
TakenFrom(t, s, h) ==
  /\ \A i \in 1 .. Len(t) : h[i] \in 1 .. Len(s) /\ t[i] = s[h[i]]
  /\ \A i, j \in 1 .. Len(t) : i # j => h[i] # h[j]

LEMMA PartIsGood ==
  ASSUME NEW s, GoodList(s), NEW t, IsQueue(t), NEW h, TakenFrom(t, s, h)
  PROVE  GoodList(t)
<1> USE DEF TakenFrom
<1>1. ASSUME NEW i \in 1 .. Len(t)
      PROVE  DOMAIN t[i] = Fields /\ t[i].source \subseteq Disks /\ t[i].source # {}
  BY DEF GoodList
<1>2. ASSUME NEW i \in 1 .. Len(t), NEW j \in 1 .. Len(t), i # j, t[i].filename = t[j].filename
      PROVE  t[i].crc # t[j].crc /\ t[i].source \cap t[j].source = {}
  <2> DEFINE a == h[i]
             b == h[j]
  <2>1. a \in 1 .. Len(s) /\ b \in 1 .. Len(s) /\ a # b /\ t[i] = s[a] /\ t[j] = s[b]
    BY <1>2
  <2> HIDE DEF a, b
  <2>2. s[a].filename = s[b].filename
    BY <1>2, <2>1
  <2>3. s[a].crc # s[b].crc /\ s[a].source \cap s[b].source = {}
    BY <2>1, <2>2 DEF GoodList
  <2> QED BY <2>1, <2>3
<1> QED BY <1>1, <1>2 DEF GoodList

IsRest(t, s, k) ==
  /\ GoodList(t)
  /\ \A i \in 1 .. Len(t) : \E j \in 1 .. Len(s) \ {k} : t[i] = s[j]
  /\ \A j \in 1 .. Len(s) \ {k} : \E i \in 1 .. Len(t) : t[i] = s[j]

LEMMA RecordRemoved ==
  ASSUME NEW s, GoodList(s), NEW k \in 1 .. Len(s)
  PROVE  IsRest(RemoveAt(s, k), s, k)
<1> DEFINE t == RemoveAt(s, k)
<1> HIDE DEF t
<1> DEFINE h == [i \in 1 .. Len(t) |-> IF i < k THEN i ELSE i + 1]
<1>1. IsQueue(s) /\ k \in Nat
  BY DEF GoodList
<1>2. /\ IsQueue(t) /\ Len(s) \in Nat \ {0} /\ Len(t) = Len(s) - 1
      /\ \A i \in 1 .. k - 1 : t[i] = s[i]
      /\ \A i \in k .. Len(s) - 1 : t[i] = s[i + 1]
  BY <1>1, RemoveAtQueue DEF t
<1>3. ASSUME NEW i \in 1 .. Len(t)
      PROVE  h[i] \in 1 .. Len(s) \ {k} /\ t[i] = s[h[i]]
  <2>1. CASE i < k
    <3>1. i \in 1 .. k - 1 /\ h[i] = i /\ i \in 1 .. Len(s) /\ i # k
      BY <1>2, <2>1
    <3> QED BY <1>2, <3>1
  <2>2. CASE ~(i < k)
    <3>1. i \in k .. Len(s) - 1 /\ h[i] = i + 1 /\ i + 1 \in 1 .. Len(s) /\ i + 1 # k
      BY <1>1, <1>2, <2>2
    <3> QED BY <1>2, <3>1
  <2> QED BY <2>1, <2>2
<1>4. ASSUME NEW i \in 1 .. Len(t), NEW j \in 1 .. Len(t), i # j PROVE h[i] # h[j]
  BY <1>1, <1>4
<1>5. ASSUME NEW j \in 1 .. Len(s) \ {k} PROVE \E i \in 1 .. Len(t) : t[i] = s[j]
  <2>1. CASE j < k
    <3>1. j \in 1 .. k - 1 /\ j \in 1 .. Len(t)
      BY <1>1, <1>2, <2>1
    <3> QED BY <1>2, <3>1
  <2>2. CASE ~(j < k)
    <3>1. j - 1 \in k .. Len(s) - 1 /\ j - 1 \in 1 .. Len(t) /\ (j - 1) + 1 = j
      BY <1>1, <1>2, <2>2
    <3> QED BY <1>2, <3>1
  <2> QED BY <2>1, <2>2
<1> HIDE DEF h
<1>6. TakenFrom(t, s, h)
  BY <1>3, <1>4 DEF TakenFrom
<1>7. GoodList(t)
  BY <1>2, <1>6, PartIsGood
<1>8. IsRest(t, s, k)
  BY <1>3, <1>5, <1>7 DEF IsRest
<1> QED BY <1>8 DEF t

LEMMA RecordPrepended ==
  ASSUME NEW s, GoodList(s), NEW d \in Disks, NEW n, NEW c,
         \A i \in 1 .. Len(s) : s[i].filename = n => s[i].crc # c /\ d \notin s[i].source,
         NEW t, t = <<Record(n, c, d)>> \o s
  PROVE  /\ GoodList(t) /\ Lists(t, d, n, c)
         /\ \A e, m, b : Lists(s, e, m, b) => Lists(t, e, m, b)
<1> DEFINE r == Record(n, c, d)
<1>1. /\ IsQueue(t) /\ Len(s) \in Nat /\ Len(t) = Len(s) + 1 /\ t[1] = r
      /\ \A i \in 1 .. Len(s) : t[i + 1] = s[i]
  BY PrependQueue DEF GoodList
<1>2. r.filename = n /\ r.crc = c /\ r.source = {d} /\ DOMAIN r = Fields
  BY DEF Record, Fields
<1> HIDE DEF r
<1>3. ASSUME NEW i \in 1 .. Len(t), i # 1 PROVE i - 1 \in 1 .. Len(s) /\ t[i] = s[i - 1]
  <2>1. i - 1 \in 1 .. Len(s) /\ (i - 1) + 1 = i
    BY <1>1, <1>3
  <2> QED BY <1>1, <2>1
<1>4. ASSUME NEW i \in 1 .. Len(t)
      PROVE  DOMAIN t[i] = Fields /\ t[i].source \subseteq Disks /\ t[i].source # {}
  <2>1. CASE i = 1
    BY <1>1, <1>2, <2>1
  <2>2. CASE i # 1
    BY <1>3, <2>2 DEF GoodList
  <2> QED BY <2>1, <2>2
<1>5. ASSUME NEW i \in 1 .. Len(t), NEW j \in 1 .. Len(t), i # j, t[i].filename = t[j].filename
      PROVE  t[i].crc # t[j].crc /\ t[i].source \cap t[j].source = {}
  <2>1. CASE i = 1
    <3>1. j # 1
      BY <1>5, <2>1
    <3>2. j - 1 \in 1 .. Len(s) /\ t[j] = s[j - 1]
      BY <1>3, <3>1
    <3> QED BY <1>1, <1>2, <1>5, <2>1, <3>2
  <2>2. CASE j = 1
    <3>1. i # 1
      BY <1>5, <2>2
    <3>2. i - 1 \in 1 .. Len(s) /\ t[i] = s[i - 1]
      BY <1>3, <3>1
    <3> QED BY <1>1, <1>2, <1>5, <2>2, <3>2
  <2>3. CASE i # 1 /\ j # 1
    <3>1. i - 1 \in 1 .. Len(s) /\ t[i] = s[i - 1] /\ j - 1 \in 1 .. Len(s) /\ t[j] = s[j - 1]
      BY <1>3, <2>3
    <3>2. i - 1 # j - 1
      BY <1>1, <1>5
    <3> QED BY <1>5, <3>1, <3>2 DEF GoodList
  <2> QED BY <2>1, <2>2, <2>3
<1>6. GoodList(t)
  BY <1>1, <1>4, <1>5 DEF GoodList
<1>7. Lists(t, d, n, c)
  <2>1. 1 \in 1 .. Len(t)
    BY <1>1
  <2> QED BY <1>1, <1>2, <2>1 DEF Lists
<1>8. ASSUME NEW e, NEW m, NEW b, Lists(s, e, m, b) PROVE Lists(t, e, m, b)
  <2>1. PICK i \in 1 .. Len(s) : s[i].filename = m /\ s[i].crc = b /\ e \in s[i].source
    BY <1>8 DEF Lists
  <2>2. i + 1 \in 1 .. Len(t) /\ t[i + 1] = s[i]
    BY <1>1
  <2> QED BY <2>1, <2>2 DEF Lists
<1> QED BY <1>6, <1>7, <1>8

(* Record r may take the place of the one at i.                            *)
FitsAt(s, i, r) ==
  /\ DOMAIN r = Fields /\ r.filename = s[i].filename /\ r.crc = s[i].crc
  /\ r.source \subseteq Disks /\ r.source # {}
  /\ \A j \in 1 .. Len(s) : j # i /\ s[j].filename = r.filename => s[j].source \cap r.source = {}

IsChanged(t, s, i, r) ==
  /\ GoodList(t) /\ Len(t) = Len(s) /\ t[i] = r
  /\ \A j \in 1 .. Len(s) : j # i => t[j] = s[j]
  /\ \A e, m, b : Lists(s, e, m, b) /\ ~(m = r.filename /\ b = r.crc /\ e \notin r.source) => Lists(t, e, m, b)

LEMMA RecordChanged ==
  ASSUME NEW s, GoodList(s), NEW i \in 1 .. Len(s), NEW r, FitsAt(s, i, r),
         NEW t, t = [s EXCEPT ![i] = r]
  PROVE  IsChanged(t, s, i, r)
<1> USE DEF FitsAt
<1>1. IsQueue(s) /\ Len(s) \in Nat
  BY EmptyQueue DEF GoodList
<1>2. IsQueue(t) /\ Len(t) = Len(s) /\ t[i] = r /\ \A j \in 1 .. Len(s) : j # i => t[j] = s[j]
  <2>1. PICK S : s \in Seq(S)
    BY <1>1 DEF IsQueue
  <2>2. s \in Seq(S \cup {r})
    BY <2>1
  <2>3. t \in Seq(S \cup {r}) /\ Len(t) = Len(s)
    BY <2>2
  <2>4. t[i] = r /\ \A j \in 1 .. Len(s) : j # i => t[j] = s[j]
    BY <2>1
  <2> QED BY <2>3, <2>4 DEF IsQueue
<1>3. ASSUME NEW j \in 1 .. Len(t)
      PROVE  DOMAIN t[j] = Fields /\ t[j].source \subseteq Disks /\ t[j].source # {}
  BY <1>2 DEF GoodList
<1>4. ASSUME NEW j \in 1 .. Len(t), NEW k \in 1 .. Len(t), j # k, t[j].filename = t[k].filename
      PROVE  t[j].crc # t[k].crc /\ t[j].source \cap t[k].source = {}
  <2>1. CASE j = i
    <3>1. t[j] = r /\ t[k] = s[k] /\ k # i /\ s[k].filename = s[i].filename
      BY <1>2, <1>4, <2>1
    <3>2. s[k].crc # s[i].crc /\ s[k].source \cap r.source = {}
      BY <1>2, <3>1 DEF GoodList
    <3> QED BY <3>1, <3>2
  <2>2. CASE k = i
    <3>1. t[k] = r /\ t[j] = s[j] /\ j # i /\ s[j].filename = s[i].filename
      BY <1>2, <1>4, <2>2
    <3>2. s[j].crc # s[i].crc /\ s[j].source \cap r.source = {}
      BY <1>2, <3>1 DEF GoodList
    <3> QED BY <3>1, <3>2
  <2>3. CASE j # i /\ k # i
    BY <1>2, <1>4, <2>3 DEF GoodList
  <2> QED BY <2>1, <2>2, <2>3
<1>5. GoodList(t)
  BY <1>2, <1>3, <1>4 DEF GoodList
<1>6. ASSUME NEW e, NEW m, NEW b, Lists(s, e, m, b), ~(m = r.filename /\ b = r.crc /\ e \notin r.source)
      PROVE  Lists(t, e, m, b)
  <2>1. PICK k \in 1 .. Len(s) : s[k].filename = m /\ s[k].crc = b /\ e \in s[k].source
    BY <1>6 DEF Lists
  <2>2. t[k].filename = m /\ t[k].crc = b /\ e \in t[k].source
    BY <1>2, <1>6, <2>1
  <2> QED BY <1>2, <2>1, <2>2 DEF Lists
<1> QED BY <1>2, <1>5, <1>6 DEF IsChanged

LEMMA FirstOfName ==
  ASSUME NEW s, IsQueue(s), NEW n, Same(s, n) # {}
  PROVE  /\ First(s, n) \in 1 .. Len(s) /\ s[First(s, n)].filename = n
         /\ Same(s, n) = {i \in 1 .. Len(s) : s[i].filename = n}
<1>1. DOMAIN s = 1 .. Len(s) /\ Len(s) \in Nat
  BY DEF IsQueue
<1>2. Same(s, n) = {i \in 1 .. Len(s) : s[i].filename = n}
  BY <1>1 DEF Same
<1>3. Same(s, n) \subseteq Nat
  BY <1>2
<1>4. \E m \in Same(s, n) : \A j \in Same(s, n) : m <= j
  <2> DEFINE T == Same(s, n)
  <2> HIDE DEF T
  <2>1. T \subseteq Nat /\ T # {}
    BY <1>3 DEF T
  <2>2. \E m \in T : \A j \in T : m <= j
    BY <2>1, LeastNumber
  <2> QED BY <2>2 DEF T
<1>5. First(s, n) \in Same(s, n)
  BY <1>4 DEF First
<1> QED BY <1>2, <1>5

(* append_file: the contents that were read are listed, once, and nothing   *)
(* of the other disk or of other names is lost.                            *)
LEMMA AppendLists ==
  ASSUME NEW rs, GoodList(rs), NEW d \in Disks, NEW n, NEW c,
         NEW t, t = AppendFile(rs, d, n, c)
  PROVE  GoodList(t) /\ Lists(t, d, n, c) /\ Keeps(rs, t, d, n)
<1>0. IsQueue(rs) /\ Len(rs) \in Nat /\ DOMAIN rs = 1 .. Len(rs)
  BY EmptyQueue DEF GoodList, IsQueue
<1>1. CASE Same(rs, n) = {}
  <2>1. t = <<Record(n, c, d)>> \o rs
    BY <1>1 DEF AppendFile
  <2>2. \A i \in 1 .. Len(rs) : rs[i].filename # n
    BY <1>0, <1>1 DEF Same
  <2> QED BY <2>1, <2>2, RecordPrepended DEF Keeps
<1>2. CASE Same(rs, n) # {}
  <2> DEFINE i == First(rs, n)
             synced == [rs EXCEPT ![i].syncing = FALSE]
             own == IF d \in rs[i].source THEN {i} ELSE Same(rs, n) \ {i}
             k == CHOOSE k \in own : TRUE
             kept == IF own = {} THEN synced ELSE RemoveAt(synced, k)
             equal == {l \in Same(kept, n) : kept[l].crc = c}
  <2>1. /\ i \in 1 .. Len(rs) /\ rs[i].filename = n
        /\ Same(rs, n) = {j \in 1 .. Len(rs) : rs[j].filename = n}
    BY <1>0, <1>2, FirstOfName
  <2>2. t = IF rs[i].source = Disks
            THEN IF rs[i].crc = c THEN synced
                 ELSE <<Record(n, c, d)>> \o [synced EXCEPT ![i].source = @ \ {d}]
            ELSE IF equal # {}
            THEN [kept EXCEPT ![CHOOSE l \in equal : TRUE].source = @ \cup {d}]
            ELSE <<Record(n, c, d)>> \o kept
    BY <1>2 DEF AppendFile
  <2> HIDE DEF i
  <2> DEFINE ri == [rs[i] EXCEPT !.syncing = FALSE]
  <2>3. DOMAIN rs[i] = Fields /\ rs[i].source \subseteq Disks /\ rs[i].source # {}
    BY <2>1 DEF GoodList
  <2>4. /\ DOMAIN ri = Fields /\ ri.filename = n /\ ri.crc = rs[i].crc /\ ri.source = rs[i].source
    BY <2>1, <2>3 DEF Fields
  <2>5. synced = [rs EXCEPT ![i] = ri]
    OBVIOUS
  <2> HIDE DEF ri, synced
  <2>6. \A j \in 1 .. Len(rs) : j # i /\ rs[j].filename = n => rs[j].crc # rs[i].crc /\ rs[j].source \cap rs[i].source = {}
    BY <2>1 DEF GoodList
  <2>7. /\ GoodList(synced) /\ Len(synced) = Len(rs) /\ synced[i] = ri
        /\ \A j \in 1 .. Len(rs) : j # i => synced[j] = rs[j]
        /\ \A e, m, b : Lists(rs, e, m, b) /\ ~(m = ri.filename /\ b = ri.crc /\ e \notin ri.source) => Lists(synced, e, m, b)
    <3>1. \A j \in 1 .. Len(rs) : j # i /\ rs[j].filename = ri.filename => rs[j].source \cap ri.source = {}
      BY <2>4, <2>6
    <3>2. ri.filename = rs[i].filename /\ ri.source \subseteq Disks /\ ri.source # {}
      BY <2>1, <2>3, <2>4
    <3>3. FitsAt(rs, i, ri)
      BY <2>4, <3>1, <3>2 DEF FitsAt
    <3>4. IsChanged(synced, rs, i, ri)
      BY <2>1, <2>5, <3>3, RecordChanged
    <3> QED BY <3>4 DEF IsChanged
  <2>8. \A e, m, b : Lists(rs, e, m, b) => Lists(synced, e, m, b)
    <3> SUFFICES ASSUME NEW e, NEW m, NEW b, Lists(rs, e, m, b) PROVE Lists(synced, e, m, b)
      OBVIOUS
    <3>1. PICK j \in 1 .. Len(rs) : rs[j].filename = m /\ rs[j].crc = b /\ e \in rs[j].source
      BY DEF Lists
    <3>2. synced[j].filename = m /\ synced[j].crc = b /\ e \in synced[j].source
      BY <2>1, <2>4, <2>7, <3>1
    <3> QED BY <2>7, <3>1, <3>2 DEF Lists
  <2>9. \A j \in 1 .. Len(synced) : j # i /\ synced[j].filename = n =>
           synced[j].crc # ri.crc /\ synced[j].source \cap ri.source = {} /\ synced[j].source # {} /\ synced[j].source \subseteq Disks
    BY <2>1, <2>4, <2>6, <2>7 DEF GoodList
  <2>10. CASE rs[i].source = Disks /\ rs[i].crc = c
    <3>1. t = synced
      BY <2>2, <2>10
    <3>2. Lists(synced, d, n, c)
      BY <2>1, <2>4, <2>7, <2>10 DEF Lists
    <3> QED BY <2>7, <2>8, <3>1, <3>2 DEF Keeps
  <2>11. CASE rs[i].source = Disks /\ rs[i].crc # c
    <3> DEFINE r == [synced[i] EXCEPT !.source = @ \ {d}]
               s == [synced EXCEPT ![i] = r]
    <3>1. t = <<Record(n, c, d)>> \o s
      <4>1. [synced EXCEPT ![i].source = @ \ {d}] = s
        OBVIOUS
      <4> QED BY <2>2, <2>11, <4>1
    <3>2. DOMAIN r = Fields /\ r.filename = n /\ r.crc = ri.crc /\ r.source = Disks \ {d}
      BY <2>4, <2>7, <2>11 DEF Fields
    <3>3. r.source \subseteq Disks /\ r.source # {}
      BY <3>2 DEF Disks
    <3>4. \A j \in 1 .. Len(synced) : j # i => synced[j].filename # n
      BY <2>4, <2>9, <2>11
    <3> HIDE DEF r
    <3>5. /\ GoodList(s) /\ Len(s) = Len(synced) /\ s[i] = r
          /\ \A j \in 1 .. Len(synced) : j # i => s[j] = synced[j]
          /\ \A e, m, b : Lists(synced, e, m, b) /\ ~(m = r.filename /\ b = r.crc /\ e \notin r.source) => Lists(s, e, m, b)
      <4>1. i \in 1 .. Len(synced) /\ r.filename = synced[i].filename /\ r.crc = synced[i].crc
        BY <2>1, <2>4, <2>7, <3>2
      <4>2. \A j \in 1 .. Len(synced) : j # i /\ synced[j].filename = r.filename => synced[j].source \cap r.source = {}
        BY <3>2, <3>4
      <4>3. FitsAt(synced, i, r)
        BY <3>2, <3>3, <4>1, <4>2 DEF FitsAt
      <4>4. GoodList(synced)
        BY <2>7
      <4>5. IsChanged(s, synced, i, r)
        BY <4>1, <4>3, <4>4, RecordChanged
      <4> QED BY <4>5 DEF IsChanged
    <3> HIDE DEF s
    <3>6. \A j \in 1 .. Len(s) : s[j].filename = n => s[j].crc # c /\ d \notin s[j].source
      <4> SUFFICES ASSUME NEW j \in 1 .. Len(s), s[j].filename = n PROVE s[j].crc # c /\ d \notin s[j].source
        OBVIOUS
      <4>1. j = i
        BY <3>4, <3>5
      <4> QED BY <2>4, <2>11, <3>2, <3>5, <4>1
    <3>7. GoodList(t) /\ Lists(t, d, n, c) /\ \A e, m, b : Lists(s, e, m, b) => Lists(t, e, m, b)
      BY <3>1, <3>5, <3>6, RecordPrepended
    <3>8. ASSUME NEW e, NEW m, NEW b, e # d \/ m # n, Lists(rs, e, m, b) PROVE Lists(t, e, m, b)
      <4>1. Lists(synced, e, m, b)
        BY <2>8, <3>8
      <4>2. CASE m # n
        BY <3>2, <3>5, <3>7, <4>1, <4>2
      <4>3. CASE m = n
        <5>1. PICK j \in 1 .. Len(synced) : synced[j].filename = m /\ synced[j].crc = b /\ e \in synced[j].source
          BY <4>1 DEF Lists
        <5>2. j = i /\ e \in ri.source
          BY <2>7, <3>4, <4>3, <5>1
        <5>3. e \in r.source
          BY <2>4, <2>11, <3>2, <3>8, <4>3, <5>2
        <5> QED BY <3>5, <3>7, <4>1, <5>3
      <4> QED BY <4>2, <4>3
    <3> QED BY <3>7, <3>8 DEF Keeps
  <2>12. CASE rs[i].source # Disks
    <3>0. t = IF equal # {}
              THEN [kept EXCEPT ![CHOOSE l \in equal : TRUE].source = @ \cup {d}]
              ELSE <<Record(n, c, d)>> \o kept
      BY <2>2, <2>12
    <3>1. /\ GoodList(kept)
          /\ \A j \in 1 .. Len(kept) : kept[j].filename = n => d \notin kept[j].source
          /\ Keeps(rs, kept, d, n)
      <4>1. \A j \in 1 .. Len(synced) : synced[j].filename = n /\ d \in synced[j].source => synced[j].source = {d}
        <5> SUFFICES ASSUME NEW j \in 1 .. Len(synced), synced[j].filename = n, d \in synced[j].source PROVE synced[j].source = {d}
          OBVIOUS
        <5>1. CASE j = i
          <6>1. d \in rs[i].source /\ rs[i].source \subseteq Disks /\ rs[i].source # Disks
            BY <2>3, <2>4, <2>7, <2>12, <5>1
          <6>2. rs[i].source = {d}
            BY <6>1 DEF Disks
          <6> QED BY <2>4, <2>7, <5>1, <6>2
        <5>2. CASE j # i
          BY <2>3, <2>4, <2>9, <5>2 DEF Disks
        <5> QED BY <5>1, <5>2
      <4>2. CASE own = {}
        <5>1. kept = synced
          BY <4>2
        <5>2. d \notin rs[i].source /\ Same(rs, n) \ {i} = {}
          BY <4>2
        <5>3. \A j \in 1 .. Len(synced) : synced[j].filename = n => d \notin synced[j].source
          BY <2>1, <2>4, <2>7, <5>2
        <5> QED BY <2>7, <2>8, <5>1, <5>3 DEF Keeps
      <4>3. CASE own # {}
        <5>1. k \in own
          BY <4>3
        <5>2. kept = RemoveAt(synced, k)
          BY <4>3
        <5>3. k \in 1 .. Len(synced) /\ synced[k].filename = n
          BY <2>1, <2>4, <2>7, <5>1
        <5>4. synced[k].source = {d} /\ \A j \in 1 .. Len(synced) : j # k /\ synced[j].filename = n => d \notin synced[j].source
          <6>1. CASE d \in rs[i].source
            <7>1. k = i /\ d \in ri.source /\ d \in synced[k].source
              BY <2>4, <2>7, <5>1, <6>1
            <7> QED BY <2>9, <4>1, <5>3, <7>1
          <6>2. CASE d \notin rs[i].source
            <7>1. k # i
              BY <5>1, <6>2
            <7>2. synced[k].source = {d}
              <8>1. synced[k].source \cap ri.source = {} /\ synced[k].source # {} /\ synced[k].source \subseteq Disks
                BY <2>9, <5>3, <7>1
              <8> QED BY <8>1, <2>3, <2>4, <6>2 DEF Disks
            <7>3. ASSUME NEW j \in 1 .. Len(synced), j # k, synced[j].filename = n PROVE d \notin synced[j].source
              <8>1. synced[j].source \cap synced[k].source = {}
                BY <2>7, <5>3, <7>3 DEF GoodList
              <8> QED BY <7>2, <8>1
            <7> QED BY <7>2, <7>3
          <6> QED BY <6>1, <6>2
        <5> HIDE DEF k, own, kept
        <5>5. /\ GoodList(kept)
              /\ \A j \in 1 .. Len(kept) : \E l \in 1 .. Len(synced) \ {k} : kept[j] = synced[l]
              /\ \A l \in 1 .. Len(synced) \ {k} : \E j \in 1 .. Len(kept) : kept[j] = synced[l]
          <6>1. GoodList(synced)
            BY <2>7
          <6>2. IsRest(kept, synced, k)
            BY <5>2, <5>3, <6>1, RecordRemoved
          <6> QED BY <6>2 DEF IsRest
        <5>6. \A j \in 1 .. Len(kept) : kept[j].filename = n => d \notin kept[j].source
          BY <5>4, <5>5
        <5>7. ASSUME NEW e, NEW m, NEW b, e # d \/ m # n, Lists(rs, e, m, b) PROVE Lists(kept, e, m, b)
          <6>1. PICK l \in 1 .. Len(synced) : synced[l].filename = m /\ synced[l].crc = b /\ e \in synced[l].source
            BY <2>8, <5>7 DEF Lists
          <6>2. l # k
            BY <5>3, <5>4, <5>7, <6>1
          <6>3. PICK j \in 1 .. Len(kept) : kept[j] = synced[l]
            BY <5>5, <6>2
          <6> QED BY <6>1, <6>3 DEF Lists
        <5> QED BY <5>5, <5>6, <5>7 DEF Keeps
      <4> QED BY <4>2, <4>3
    <3> HIDE DEF k, own, kept
    <3>2. CASE equal # {}
      <4> DEFINE l == CHOOSE l \in equal : TRUE
                 r == [kept[l] EXCEPT !.source = @ \cup {d}]
      <4>1. l \in equal
        BY <3>2
      <4>2. t = [kept EXCEPT ![l].source = @ \cup {d}]
        BY <3>0, <3>2
      <4> HIDE DEF l
      <4>3. l \in 1 .. Len(kept) /\ kept[l].filename = n /\ kept[l].crc = c
        <5>1. DOMAIN kept = 1 .. Len(kept)
          BY <3>1 DEF GoodList, IsQueue
        <5> QED BY <4>1, <5>1 DEF Same
      <4>4. t = [kept EXCEPT ![l] = r]
        BY <4>2
      <4>5. DOMAIN kept[l] = Fields /\ kept[l].source \subseteq Disks
        BY <3>1, <4>3 DEF GoodList
      <4>6. DOMAIN r = Fields /\ r.filename = kept[l].filename /\ r.crc = kept[l].crc /\ r.source = kept[l].source \cup {d}
        BY <4>5 DEF Fields
      <4> HIDE DEF r
      <4>7. \A j \in 1 .. Len(kept) : j # l /\ kept[j].filename = r.filename => kept[j].source \cap r.source = {}
        <5> SUFFICES ASSUME NEW j \in 1 .. Len(kept), j # l, kept[j].filename = r.filename PROVE kept[j].source \cap r.source = {}
          OBVIOUS
        <5>1. kept[j].source \cap kept[l].source = {} /\ d \notin kept[j].source
          BY <3>1, <4>3, <4>6 DEF GoodList
        <5> QED BY <4>6, <5>1
      <4>8. /\ GoodList(t) /\ Len(t) = Len(kept) /\ t[l] = r
            /\ \A e, m, b : Lists(kept, e, m, b) /\ ~(m = r.filename /\ b = r.crc /\ e \notin r.source) => Lists(t, e, m, b)
        <5>1. r.source \subseteq Disks /\ r.source # {}
          BY <4>5, <4>6
        <5>2. FitsAt(kept, l, r)
          BY <4>6, <4>7, <5>1 DEF FitsAt
        <5>3. GoodList(kept)
          BY <3>1
        <5>4. IsChanged(t, kept, l, r)
          BY <4>3, <4>4, <5>2, <5>3, RecordChanged
        <5> QED BY <5>4 DEF IsChanged
      <4>9. Lists(t, d, n, c)
        BY <4>3, <4>6, <4>8 DEF Lists
      <4>10. ASSUME NEW e, NEW m, NEW b, e # d \/ m # n, Lists(rs, e, m, b) PROVE Lists(t, e, m, b)
        <5>1. Lists(kept, e, m, b)
          BY <3>1, <4>10 DEF Keeps
        <5>2. CASE ~(m = r.filename /\ b = r.crc /\ e \notin r.source)
          BY <4>8, <5>1, <5>2
        <5>3. CASE m = r.filename /\ b = r.crc /\ e \notin r.source
          <6>1. PICK j \in 1 .. Len(kept) : kept[j].filename = m /\ kept[j].crc = b /\ e \in kept[j].source
            BY <5>1 DEF Lists
          <6>2. j = l
            BY <3>1, <4>3, <4>6, <5>3, <6>1 DEF GoodList
          <6> QED BY <4>6, <5>3, <6>1, <6>2
        <5> QED BY <5>2, <5>3
      <4> QED BY <4>8, <4>9, <4>10 DEF Keeps
    <3>3. CASE equal = {}
      <4>1. t = <<Record(n, c, d)>> \o kept
        BY <3>0, <3>3
      <4>2. \A j \in 1 .. Len(kept) : kept[j].filename = n => kept[j].crc # c /\ d \notin kept[j].source
        <5>1. DOMAIN kept = 1 .. Len(kept)
          BY <3>1 DEF GoodList, IsQueue
        <5> QED BY <3>1, <3>3, <5>1 DEF Same
      <4>3. GoodList(t) /\ Lists(t, d, n, c) /\ \A e, m, b : Lists(kept, e, m, b) => Lists(t, e, m, b)
        BY <3>1, <4>1, <4>2, RecordPrepended
      <4> QED BY <3>1, <4>3 DEF Keeps
    <3> QED BY <3>2, <3>3
  <2> QED BY <2>10, <2>11, <2>12
<1> QED BY <1>1, <1>2

(* remove_file: nothing of the other disk or of other names is lost.       *)
LEMMA RemoveKeeps ==
  ASSUME NEW rs, GoodList(rs), NEW d \in Disks, NEW n, NEW t, t = RemoveFile(rs, d, n)
  PROVE  GoodList(t) /\ Keeps(rs, t, d, n)
<1>0. IsQueue(rs) /\ Len(rs) \in Nat /\ DOMAIN rs = 1 .. Len(rs)
  BY EmptyQueue DEF GoodList, IsQueue
<1>1. CASE Same(rs, n) = {}
  BY <1>1 DEF RemoveFile, Keeps
<1>2. CASE Same(rs, n) # {}
  <2> DEFINE i == First(rs, n)
             left == rs[i].source \ {d}
             r == [rs[i] EXCEPT !.source = left]
  <2>1. i \in 1 .. Len(rs) /\ rs[i].filename = n
    BY <1>0, <1>2, FirstOfName
  <2>2. t = IF left = {} THEN RemoveAt(rs, i) ELSE [rs EXCEPT ![i].source = left]
    BY <1>2 DEF RemoveFile
  <2> HIDE DEF i
  <2>3. DOMAIN rs[i] = Fields /\ rs[i].source \subseteq Disks /\ rs[i].source # {}
    BY <2>1 DEF GoodList
  <2>4. DOMAIN r = Fields /\ r.filename = n /\ r.crc = rs[i].crc /\ r.source = left
    BY <2>1, <2>3 DEF Fields
  <2>5. CASE left = {}
    <3>1. t = RemoveAt(rs, i)
      BY <2>2, <2>5
    <3>2. /\ GoodList(t)
          /\ \A l \in 1 .. Len(rs) \ {i} : \E j \in 1 .. Len(t) : t[j] = rs[l]
      BY <2>1, <3>1, RecordRemoved DEF IsRest
    <3>3. ASSUME NEW e, NEW m, NEW b, e # d \/ m # n, Lists(rs, e, m, b) PROVE Lists(t, e, m, b)
      <4>1. PICK l \in 1 .. Len(rs) : rs[l].filename = m /\ rs[l].crc = b /\ e \in rs[l].source
        BY <3>3 DEF Lists
      <4>2. l # i
        BY <2>1, <2>5, <3>3, <4>1
      <4>3. PICK j \in 1 .. Len(t) : t[j] = rs[l]
        BY <3>2, <4>2
      <4> QED BY <4>1, <4>3 DEF Lists
    <3> QED BY <3>2, <3>3 DEF Keeps
  <2>6. CASE left # {}
    <3>1. t = [rs EXCEPT ![i] = r]
      BY <2>2, <2>6
    <3>2. left \subseteq Disks
      BY <2>3
    <3>3. \A j \in 1 .. Len(rs) : j # i /\ rs[j].filename = n => rs[j].source \cap left = {}
      BY <2>1 DEF GoodList
    <3> HIDE DEF r, left
    <3>4. /\ GoodList(t) /\ Len(t) = Len(rs) /\ t[i] = r
          /\ \A j \in 1 .. Len(rs) : j # i => t[j] = rs[j]
      <4>1. FitsAt(rs, i, r)
        BY <2>1, <2>4, <2>6, <3>2, <3>3 DEF FitsAt
      <4>2. IsChanged(t, rs, i, r)
        BY <2>1, <3>1, <4>1, RecordChanged
      <4> QED BY <4>2 DEF IsChanged
    <3>5. ASSUME NEW e, NEW m, NEW b, e # d \/ m # n, Lists(rs, e, m, b) PROVE Lists(t, e, m, b)
      <4>1. PICK l \in 1 .. Len(rs) : rs[l].filename = m /\ rs[l].crc = b /\ e \in rs[l].source
        BY <3>5 DEF Lists
      <4>2. t[l].filename = m /\ t[l].crc = b /\ e \in t[l].source
        <5>1. CASE l = i
          <6>1. e # d /\ e \in left
            BY <2>1, <3>5, <4>1, <5>1 DEF left
          <6> QED BY <2>1, <2>4, <3>4, <4>1, <5>1, <6>1
        <5>2. CASE l # i
          BY <3>4, <4>1, <5>2
        <5> QED BY <5>1, <5>2
      <4> QED BY <3>4, <4>1, <4>2 DEF Lists
    <3> QED BY <3>4, <3>5 DEF Keeps
  <2> QED BY <2>5, <2>6
<1> QED BY <1>1, <1>2

(* A mark at a record, or another order of the list, changes nothing of it. *)
SameListed(s, t) == \A e, m, b : Lists(s, e, m, b) => Lists(t, e, m, b)

LEMMA RecordMarked ==
  ASSUME NEW s, GoodList(s), NEW i \in 1 .. Len(s), NEW r, DOMAIN r = Fields,
         r.filename = s[i].filename, r.crc = s[i].crc, r.source = s[i].source,
         NEW t, t = [s EXCEPT ![i] = r]
  PROVE  GoodList(t) /\ SameListed(s, t)
<1>1. s[i].source \subseteq Disks /\ s[i].source # {}
  BY DEF GoodList
<1>2. \A j \in 1 .. Len(s) : j # i /\ s[j].filename = r.filename => s[j].source \cap r.source = {}
  BY DEF GoodList
<1>3. FitsAt(s, i, r)
  BY <1>1, <1>2 DEF FitsAt
<1>4. IsChanged(t, s, i, r)
  BY <1>3, RecordChanged
<1>5. GoodList(t) /\ Len(t) = Len(s) /\ t[i] = r /\ \A j \in 1 .. Len(s) : j # i => t[j] = s[j]
  BY <1>4 DEF IsChanged
<1>6. ASSUME NEW e, NEW m, NEW b, Lists(s, e, m, b) PROVE Lists(t, e, m, b)
  <2>1. PICK j \in 1 .. Len(s) : s[j].filename = m /\ s[j].crc = b /\ e \in s[j].source
    BY <1>6 DEF Lists
  <2>2. t[j].filename = m /\ t[j].crc = b /\ e \in t[j].source
    BY <1>5, <2>1
  <2> QED BY <1>5, <2>1, <2>2 DEF Lists
<1> QED BY <1>5, <1>6 DEF SameListed

LEMMA ListSorted ==
  ASSUME NEW s, GoodList(s), NEW o \in SetToSeqs(DOMAIN s),
         NEW t, t = [i \in DOMAIN s |-> s[o[i]]]
  PROVE  GoodList(t) /\ SameListed(s, t)
<1>1. PICK S : s \in Seq(S)
  BY DEF GoodList, IsQueue
<1>2. DOMAIN s = 1 .. Len(s) /\ Len(s) \in Nat
  BY <1>1
<1>3. IsFiniteSet(1 .. Len(s)) /\ Cardinality(1 .. Len(s)) = Len(s)
  <2>1. IsFiniteSet(1 .. Len(s)) /\ Cardinality(1 .. Len(s)) = IF 1 > Len(s) THEN 0 ELSE Len(s) - 1 + 1
    BY <1>2, FS_Interval
  <2> QED BY <1>2, <2>1
<1>4. /\ Len(o) = Len(s)
      /\ \A i \in 1 .. Len(o) : o[i] \in 1 .. Len(s)
      /\ \A i, j \in 1 .. Len(o) : i # j => o[i] # o[j]
      /\ \A x \in 1 .. Len(s) : \E i \in 1 .. Len(o) : o[i] = x
  BY <1>2, <1>3, OrdersOfSet
<1>5. t \in Seq(S) /\ Len(t) = Len(s) /\ \A i \in 1 .. Len(s) : t[i] = s[o[i]]
  <2>1. \A i \in 1 .. Len(s) : s[o[i]] \in S
    BY <1>1, <1>4
  <2>2. t = [i \in 1 .. Len(s) |-> s[o[i]]]
    BY <1>2
  <2> QED BY <1>2, <2>1, <2>2
<1>6. TakenFrom(t, s, o)
  BY <1>4, <1>5 DEF TakenFrom
<1>7. GoodList(t)
  BY <1>5, <1>6, PartIsGood DEF IsQueue
<1>8. ASSUME NEW e, NEW m, NEW b, Lists(s, e, m, b) PROVE Lists(t, e, m, b)
  <2>1. PICK j \in 1 .. Len(s) : s[j].filename = m /\ s[j].crc = b /\ e \in s[j].source
    BY <1>8 DEF Lists
  <2>2. PICK i \in 1 .. Len(t) : o[i] = j
    BY <1>4, <1>5
  <2>3. t[i] = s[j]
    BY <1>5, <2>2
  <2> QED BY <2>1, <2>3 DEF Lists
<1> QED BY <1>7, <1>8 DEF SameListed

-----------------------------------------------------------------------------
(* The reader of a disk, and the files it still has to bring.              *)
Context(r) ==
  /\ DOMAIN r = {"stage", "dirty", "name", "seen"}
  /\ IsQueue(r.dirty) /\ r.stage \in {"scan", "idle", "stat", "read"}

IsDirty(r, n) == \E k \in 1 .. Len(r.dirty) : r.dirty[k] = n
InReader(r, n) ==
  \/ r.stage = "scan"
  \/ IsDirty(r, n)
  \/ r.stage \in {"stat", "read"} /\ r.name = n

(* Every program of a disk is listed, or a change of it is still to be told  *)
(* or read; what is being read is as it was seen, or its change is untold.  *)
Covered(fs, un, r, rs, d) ==
  \A n \in Names : fs[n] \in Contents => Lists(rs, d, n, fs[n]) \/ n \in un \/ InReader(r, n)
SeenFresh(fs, un, r) ==
  r.stage = "read" /\ r.name \in Names /\ fs[r.name] # r.seen => r.name \in un

DiskInv(fs, un, r, rs, d) ==
  /\ DOMAIN fs = Names /\ Context(r)
  /\ Covered(fs, un, r, rs, d) /\ SeenFresh(fs, un, r)

FilesInv ==
  /\ GoodList(records)
  /\ DOMAIN files = Disks /\ DOMAIN unseen = Disks /\ DOMAIN reader = Disks
  /\ \A d \in Disks : DiskInv(files[d], unseen[d], reader[d], records, d)

LEMMA DirtyProcessed ==
  ASSUME NEW r, Context(r), r.stage \in {"idle", "stat"}
  PROVE  /\ Context(ProcessDirtyFiles(r)) /\ ProcessDirtyFiles(r).stage \in {"idle", "stat"}
         /\ \A n : InReader(r, n) => InReader(ProcessDirtyFiles(r), n)
<1>1. CASE r.dirty = <<>> \/ r.stage = "stat"
  BY <1>1 DEF ProcessDirtyFiles, Guarded
<1>2. CASE r.dirty # <<>> /\ r.stage = "idle"
  <2> DEFINE q == r.dirty
             p == [r EXCEPT !.stage = "stat", !.name = Last(q), !.dirty = Front(q)]
  <2>1. ProcessDirtyFiles(r) = p
    BY <1>2 DEF ProcessDirtyFiles, Guarded
  <2>2. IsQueue(q) /\ q # <<>>
    BY <1>2 DEF Context
  <2>3. DOMAIN p = {"stage", "dirty", "name", "seen"} /\ p.stage = "stat" /\ p.name = Last(q) /\ p.dirty = Front(q)
    BY DEF Context
  <2> HIDE DEF p, q
  <2>4. /\ IsQueue(Front(q)) /\ Len(q) \in Nat \ {0} /\ Len(Front(q)) = Len(q) - 1
        /\ \A i \in 1 .. Len(q) - 1 : Front(q)[i] = q[i]
        /\ Last(q) = q[Len(q)]
    BY <2>2, FrontQueue
  <2>5. ASSUME NEW n, InReader(r, n) PROVE InReader(p, n)
    <3>1. PICK k \in 1 .. Len(q) : q[k] = n
      BY <1>2, <2>5 DEF InReader, IsDirty, q
    <3>2. CASE k = Len(q)
      BY <2>3, <2>4, <3>1, <3>2 DEF InReader
    <3>3. CASE k # Len(q)
      <4>1. k \in 1 .. Len(Front(q)) /\ Front(q)[k] = n
        BY <2>4, <3>1, <3>3
      <4> QED BY <2>3, <4>1 DEF InReader, IsDirty
    <3> QED BY <3>2, <3>3
  <2> QED BY <2>1, <2>3, <2>4, <2>5 DEF Context
<1> QED BY <1>1, <1>2

LEMMA ReaderRests ==
  ASSUME NEW r, Context(r), NEW m, m = r.name, r.stage \in {"stat", "read"}
  PROVE  LET p == ProcessDirtyFiles(Resting(r)) IN
         /\ Context(p) /\ p.stage \in {"idle", "stat"}
         /\ \A n : InReader(r, n) /\ n # m => InReader(p, n)
<1> DEFINE i == Resting(r)
<1>1. Context(i) /\ i.stage = "idle" /\ i.dirty = r.dirty
  BY DEF Context, Resting
<1>2. \A n : InReader(r, n) /\ n # m => InReader(i, n)
  BY <1>1 DEF InReader, IsDirty
<1> HIDE DEF i
<1>3. /\ Context(ProcessDirtyFiles(i)) /\ ProcessDirtyFiles(i).stage \in {"idle", "stat"}
      /\ \A n : InReader(i, n) => InReader(ProcessDirtyFiles(i), n)
  BY <1>1, DirtyProcessed
<1> QED BY <1>2, <1>3 DEF i

LEMMA ReaderHears ==
  ASSUME NEW r, Context(r), NEW m, r.stage \in {"idle", "stat"}
  PROVE  LET p == ProcessDirtyFiles(MoreDirty(r, <<m>>)) IN
         /\ Context(p) /\ p.stage \in {"idle", "stat"}
         /\ \A n : InReader(r, n) \/ n = m => InReader(p, n)
<1> DEFINE i == MoreDirty(r, <<m>>)
           q == r.dirty
<1>1. DOMAIN i = {"stage", "dirty", "name", "seen"} /\ i.stage = r.stage /\ i.dirty = q \o <<m>> /\ i.name = r.name
  BY DEF Context, MoreDirty
<1>2. IsQueue(q) /\ q \o <<m>> = Append(q, m)
  BY ConcatOne DEF Context
<1> HIDE DEF i
<1>3. /\ IsQueue(Append(q, m)) /\ Len(q) \in Nat /\ Len(Append(q, m)) = Len(q) + 1
      /\ Append(q, m)[Len(q) + 1] = m /\ \A k \in 1 .. Len(q) : Append(q, m)[k] = q[k]
  BY <1>2, AppendQueue
<1>4. Context(i) /\ i.stage \in {"idle", "stat"} /\ i.dirty = Append(q, m)
  BY <1>1, <1>2, <1>3 DEF Context
<1>5. ASSUME NEW n, InReader(r, n) \/ n = m PROVE InReader(i, n)
  <2>1. CASE n = m
    <3>1. Len(q) + 1 \in 1 .. Len(Append(q, m))
      BY <1>3
    <3> QED BY <1>3, <1>4, <2>1, <3>1 DEF InReader, IsDirty
  <2>2. CASE IsDirty(r, n)
    <3>1. PICK k \in 1 .. Len(q) : q[k] = n
      BY <2>2 DEF IsDirty
    <3>2. k \in 1 .. Len(Append(q, m)) /\ Append(q, m)[k] = n
      BY <1>3, <3>1
    <3> QED BY <1>4, <3>2 DEF InReader, IsDirty
  <2>3. CASE n # m /\ ~IsDirty(r, n)
    BY <1>1, <1>5, <2>3 DEF InReader
  <2> QED BY <2>1, <2>2, <2>3
<1>6. /\ Context(ProcessDirtyFiles(i)) /\ ProcessDirtyFiles(i).stage \in {"idle", "stat"}
      /\ \A n : InReader(i, n) => InReader(ProcessDirtyFiles(i), n)
  BY <1>4, DirtyProcessed
<1> QED BY <1>5, <1>6 DEF i

LEMMA ReaderScans ==
  ASSUME NEW r, Context(r), NEW S, IsFiniteSet(S), NEW o \in SetToSeqs(S)
  PROVE  LET p == ProcessDirtyFiles(Resting(MoreDirty(r, o))) IN
         /\ Context(p) /\ p.stage \in {"idle", "stat"}
         /\ \A n \in S : InReader(p, n)
<1> DEFINE i == Resting(MoreDirty(r, o))
           q == r.dirty
<1>1. DOMAIN i = {"stage", "dirty", "name", "seen"} /\ i.stage = "idle" /\ i.dirty = q \o o
  BY DEF Context, Resting, MoreDirty
<1>2. IsQueue(q)
  BY DEF Context
<1> HIDE DEF i
<1>3. IsQueue(o) /\ \A x \in S : \E k \in 1 .. Len(o) : o[k] = x
  BY OrdersOfSet
<1>4. /\ IsQueue(q \o o) /\ Len(q) \in Nat /\ Len(o) \in Nat /\ Len(q \o o) = Len(q) + Len(o)
      /\ \A k \in 1 .. Len(o) : (q \o o)[Len(q) + k] = o[k]
  BY <1>2, <1>3, ConcatQueues
<1>5. Context(i)
  BY <1>1, <1>4 DEF Context
<1>6. ASSUME NEW n \in S PROVE InReader(i, n)
  <2>1. PICK k \in 1 .. Len(o) : o[k] = n
    BY <1>3
  <2>2. Len(q) + k \in 1 .. Len(q \o o) /\ (q \o o)[Len(q) + k] = n
    BY <1>4, <2>1
  <2> QED BY <1>1, <2>2 DEF InReader, IsDirty
<1>7. /\ Context(ProcessDirtyFiles(i)) /\ ProcessDirtyFiles(i).stage \in {"idle", "stat"}
      /\ \A n : InReader(i, n) => InReader(ProcessDirtyFiles(i), n)
  BY <1>1, <1>5, DirtyProcessed
<1> QED BY <1>6, <1>7 DEF i

(* A changed file is covered by its change being untold.                   *)
LEMMA FileChanged ==
  ASSUME NEW fs, NEW un, NEW r, NEW rs, NEW d, DiskInv(fs, un, r, rs, d), NEW n, NEW c
  PROVE  DiskInv([fs EXCEPT ![n] = c], un \cup {n}, r, rs, d)
<1> DEFINE gs == [fs EXCEPT ![n] = c]
<1>1. DOMAIN gs = Names /\ \A m \in Names : m # n => gs[m] = fs[m]
  BY DEF DiskInv
<1> HIDE DEF gs
<1>2. Covered(gs, un \cup {n}, r, rs, d)
  BY <1>1 DEF DiskInv, Covered
<1>3. SeenFresh(gs, un \cup {n}, r)
  BY <1>1 DEF DiskInv, SeenFresh
<1>4. DiskInv(gs, un \cup {n}, r, rs, d)
  BY <1>1, <1>2, <1>3 DEF DiskInv
<1> QED BY <1>4 DEF gs

(* A disk whose reader rests, with all that was covered covered.           *)
LEMMA DiskRests ==
  ASSUME NEW fs, NEW un, NEW vn, NEW r, NEW p, NEW rs, NEW t, NEW d,
         DiskInv(fs, un, r, rs, d), Context(p), p.stage \in {"idle", "stat"},
         \A n \in Names : fs[n] \in Contents /\ (Lists(rs, d, n, fs[n]) \/ n \in un \/ InReader(r, n)) =>
                Lists(t, d, n, fs[n]) \/ n \in vn \/ InReader(p, n)
  PROVE  DiskInv(fs, vn, p, t, d)
<1>1. Covered(fs, vn, p, t, d)
  BY DEF DiskInv, Covered
<1>2. SeenFresh(fs, vn, p)
  BY DEF SeenFresh
<1> QED BY <1>1, <1>2 DEF DiskInv

LEMMA DiskLeftAlone ==
  ASSUME NEW fs, NEW un, NEW r, NEW rs, NEW t, NEW e, DiskInv(fs, un, r, rs, e),
         SameListed(rs, t) \/ \E d \in Disks : \E n : e # d /\ Keeps(rs, t, d, n)
  PROVE  DiskInv(fs, un, r, t, e)
<1>1. \A m, c : Lists(rs, e, m, c) => Lists(t, e, m, c)
  BY DEF SameListed, Keeps
<1>2. Covered(fs, un, r, t, e)
  BY <1>1 DEF DiskInv, Covered
<1> QED BY <1>2 DEF DiskInv

LEMMA FilesInvInit == ASSUME FilesInit PROVE FilesInv
<1>1. GoodList(<<>>)
  BY NoneOther DEF GoodList, IsQueue
<1>2. ASSUME NEW d \in Disks PROVE DiskInv(files[d], unseen[d], reader[d], records, d)
  <2> DEFINE r == [stage |-> "scan", dirty |-> <<>>, name |-> NoName, seen |-> NoFile]
  <2>1. reader[d] = r
    BY DEF FilesInit
  <2>2. Context(r) /\ r.stage = "scan"
    BY DEF Context, IsQueue
  <2> HIDE DEF r
  <2>3. DOMAIN files[d] = Names
    BY DEF FilesInit
  <2> QED BY <2>1, <2>2, <2>3 DEF DiskInv, Covered, SeenFresh, InReader
<1> QED BY <1>1, <1>2 DEF FilesInv, FilesInit

(* What every step of a reader takes: no change is told while it reads.     *)
QuietReading == EventsWhileReading = FALSE /\ IsFiniteSet(Names)

LEMMA ReadDirEntryKeeps ==
  ASSUME QuietReading, FilesInv, NEW d \in Disks, ReadDirEntry(d) PROVE FilesInv'
<1> DEFINE S == {n \in Names : files[d][n] # NoFile}
           r == reader[d]
<1>1. PICK o \in SetToSeqs(S) :
        reader' = [reader EXCEPT ![d] = ProcessDirtyFiles(Resting(MoreDirty(r, o)))]
  BY DEF ReadDirEntry
<1> DEFINE p == ProcessDirtyFiles(Resting(MoreDirty(r, o)))
<1>2. IsFiniteSet(S)
  BY FS_Subset DEF QuietReading
<1>3. DiskInv(files[d], unseen[d], r, records, d)
  BY DEF FilesInv
<1>4. reader' = [reader EXCEPT ![d] = p]
  BY <1>1
<1>5. Context(p) /\ p.stage \in {"idle", "stat"} /\ \A n \in S : InReader(p, n)
  <2>1. Context(r)
    BY <1>3 DEF DiskInv
  <2> HIDE DEF r, S
  <2> QED BY <1>2, <2>1, ReaderScans
<1>6. \A n \in Names : files[d][n] \in Contents => n \in S
  BY FilesAssumption
<1> HIDE DEF p, r, S
<1>7. DiskInv(files[d], unseen[d], p, records, d)
  BY <1>3, <1>5, <1>6, DiskRests
<1>8. UNCHANGED <<files, unseen, records>>
  BY DEF ReadDirEntry
<1> QED BY <1>4, <1>7, <1>8 DEF FilesInv

LEMMA FsEventKeeps ==
  ASSUME QuietReading, FilesInv, NEW d \in Disks, FsEvent(d) PROVE FilesInv'
<1> DEFINE r == reader[d]
<1>1. PICK n \in unseen[d] :
        /\ r.stage \in {"idle", "stat"}
        /\ unseen' = [unseen EXCEPT ![d] = unseen[d] \ {n}]
        /\ reader' = [reader EXCEPT ![d] = ProcessDirtyFiles(MoreDirty(r, <<n>>))]
        /\ UNCHANGED <<files, records>>
  BY DEF FsEvent, QuietReading
<1> DEFINE p == ProcessDirtyFiles(MoreDirty(r, <<n>>))
           vn == unseen[d] \ {n}
<1>2. reader' = [reader EXCEPT ![d] = p] /\ unseen' = [unseen EXCEPT ![d] = vn]
  BY <1>1
<1>3. DiskInv(files[d], unseen[d], r, records, d)
  BY DEF FilesInv
<1>4. Context(p) /\ p.stage \in {"idle", "stat"} /\ \A m : InReader(r, m) \/ m = n => InReader(p, m)
  <2>1. Context(r) /\ r.stage \in {"idle", "stat"}
    BY <1>1, <1>3 DEF DiskInv
  <2> HIDE DEF r
  <2> QED BY <2>1, ReaderHears
<1>5. \A m : m \in unseen[d] => m \in vn \/ m = n
  OBVIOUS
<1> HIDE DEF p, r, vn
<1>6. DiskInv(files[d], vn, p, records, d)
  BY <1>3, <1>4, <1>5, DiskRests
<1> QED BY <1>1, <1>2, <1>6 DEF FilesInv

LEMMA StatDoneKeeps ==
  ASSUME FilesInv, NEW d \in Disks, StatDone(d) PROVE FilesInv'
<1> DEFINE r == reader[d]
           n == r.name
           fs == files[d]
<1>1. r.stage = "stat" /\ UNCHANGED <<files, unseen>>
  BY DEF StatDone
<1>2. DiskInv(fs, unseen[d], r, records, d) /\ Context(r) /\ GoodList(records)
  BY DEF FilesInv, DiskInv
<1>3. CASE fs[n] = NoFile
  <2> DEFINE p == ProcessDirtyFiles(Resting(r))
             t == RemoveFile(records, d, n)
  <2>1. records' = t /\ reader' = [reader EXCEPT ![d] = p]
    BY <1>3 DEF StatDone
  <2>2. Context(p) /\ p.stage \in {"idle", "stat"} /\ \A m : InReader(r, m) /\ m # n => InReader(p, m)
    <3> HIDE DEF r
    <3> QED BY <1>1, <1>2, ReaderRests
  <2>3. GoodList(t) /\ Keeps(records, t, d, n)
    <3> HIDE DEF n
    <3> QED BY <1>2, RemoveKeeps
  <2> HIDE DEF p, t
  <2>4. NoFile \notin Contents
    BY FilesAssumption
  <2>5. DiskInv(fs, unseen[d], p, t, d)
    <3>1. \A m \in Names : fs[m] \in Contents => m # n
      BY <1>3, <2>4
    <3> HIDE DEF n, r, fs
    <3>2. \A m : m # n => (Lists(records, d, m, fs[m]) => Lists(t, d, m, fs[m]))
      BY <2>3 DEF Keeps
    <3> QED BY <1>2, <2>2, <3>1, <3>2, DiskRests
  <2>6. ASSUME NEW e \in Disks, e # d PROVE DiskInv(files[e], unseen[e], reader[e], t, e)
    <3>1. DiskInv(files[e], unseen[e], reader[e], records, e)
      BY DEF FilesInv
    <3> HIDE DEF n
    <3> QED BY <2>3, <2>6, <3>1, DiskLeftAlone
  <2>7. /\ DOMAIN files' = Disks /\ DOMAIN unseen' = Disks /\ DOMAIN reader' = Disks
        /\ reader'[d] = p /\ \A e \in Disks : e # d => reader'[e] = reader[e]
    BY <1>1, <2>1 DEF FilesInv
  <2>8. ASSUME NEW e \in Disks PROVE DiskInv(files'[e], unseen'[e], reader'[e], records', e)
    <3>1. CASE e = d
      BY <1>1, <2>1, <2>5, <2>7, <3>1
    <3>2. CASE e # d
      BY <1>1, <2>1, <2>6, <2>7, <3>2
    <3> QED BY <3>1, <3>2
  <2> QED BY <2>1, <2>3, <2>7, <2>8 DEF FilesInv
<1>4. CASE fs[n] # NoFile
  <2> DEFINE p == [r EXCEPT !.stage = "read", !.seen = fs[n]]
  <2>1. records' = records /\ reader' = [reader EXCEPT ![d] = p]
    BY <1>4 DEF StatDone
  <2>2. p.stage = "read" /\ p.name = n /\ p.dirty = r.dirty /\ p.seen = fs[n] /\ Context(p)
    BY <1>2 DEF Context
  <2> HIDE DEF p
  <2>3. \A m : InReader(r, m) => InReader(p, m)
    BY <1>1, <2>2 DEF InReader, IsDirty
  <2>4. DiskInv(fs, unseen[d], p, records, d)
    <3>1. Covered(fs, unseen[d], p, records, d)
      BY <1>2, <2>3 DEF DiskInv, Covered
    <3>2. SeenFresh(fs, unseen[d], p)
      BY <2>2 DEF SeenFresh
    <3> QED BY <1>2, <2>2, <3>1, <3>2 DEF DiskInv
  <2> QED BY <1>1, <2>1, <2>4 DEF FilesInv
<1> QED BY <1>3, <1>4

LEMMA ReadDoneKeeps ==
  ASSUME FilesInv, NEW d \in Disks, ReadDone(d) PROVE FilesInv'
<1> DEFINE r == reader[d]
           n == r.name
           fs == files[d]
           p == ProcessDirtyFiles(Resting(r))
<1>1. r.stage = "read" /\ UNCHANGED <<files, unseen>> /\ reader' = [reader EXCEPT ![d] = p]
  BY DEF ReadDone
<1>2. DiskInv(fs, unseen[d], r, records, d) /\ Context(r) /\ GoodList(records)
  BY DEF FilesInv, DiskInv
<1>3. PICK c \in Readable(d) : records' = IF c = Broken THEN records ELSE AppendFile(records, d, n, c)
  BY DEF ReadDone
<1>4. Context(p) /\ p.stage \in {"idle", "stat"} /\ \A m : InReader(r, m) /\ m # n => InReader(p, m)
  <2> HIDE DEF r
  <2> QED BY <1>1, <1>2, ReaderRests
<1>5. GoodList(records') /\ Keeps(records, records', d, n) /\ (c # Broken => Lists(records', d, n, c))
  <2>1. CASE c = Broken
    BY <1>2, <1>3, <2>1 DEF Keeps
  <2>2. CASE c # Broken
    <3> DEFINE t == AppendFile(records, d, n, c)
    <3>1. records' = t
      BY <1>3, <2>2
    <3>2. GoodList(t) /\ Lists(t, d, n, c) /\ Keeps(records, t, d, n)
      <4> HIDE DEF n
      <4> QED BY <1>2, AppendLists
    <3> HIDE DEF t
    <3> QED BY <3>1, <3>2
  <2> QED BY <2>1, <2>2
<1>6. n \in Names /\ fs[n] \in Contents /\ n \notin unseen[d] => Lists(records', d, n, fs[n])
  <2> SUFFICES ASSUME n \in Names, fs[n] \in Contents, n \notin unseen[d] PROVE Lists(records', d, n, fs[n])
    OBVIOUS
  <2>1. fs[n] = r.seen
    BY <1>1, <1>2 DEF DiskInv, SeenFresh
  <2>2. c = fs[n]
    BY <2>1 DEF Readable
  <2>3. c # Broken
    BY <2>2, FilesAssumption
  <2> QED BY <1>5, <2>2, <2>3
<1> HIDE DEF p
<1>7. DiskInv(fs, unseen[d], p, records', d)
  <2> HIDE DEF n, r, fs
  <2>1. \A m : m # n => (Lists(records, d, m, fs[m]) => Lists(records', d, m, fs[m]))
    BY <1>5 DEF Keeps
  <2>2. ASSUME NEW m \in Names, fs[m] \in Contents,
               Lists(records, d, m, fs[m]) \/ m \in unseen[d] \/ InReader(r, m)
        PROVE  Lists(records', d, m, fs[m]) \/ m \in unseen[d] \/ InReader(p, m)
    <3>1. CASE m = n
      BY <1>6, <2>2, <3>1
    <3>2. CASE m # n
      BY <1>4, <2>1, <2>2, <3>2
    <3> QED BY <3>1, <3>2
  <2> DEFINE t == records'
  <2>3. \A m \in Names : fs[m] \in Contents /\ (Lists(records, d, m, fs[m]) \/ m \in unseen[d] \/ InReader(r, m)) =>
                Lists(t, d, m, fs[m]) \/ m \in unseen[d] \/ InReader(p, m)
    BY <2>2
  <2> HIDE DEF t
  <2>4. DiskInv(fs, unseen[d], p, t, d)
    BY <1>2, <1>4, <2>3, DiskRests
  <2> QED BY <2>4 DEF t
<1>8. ASSUME NEW e \in Disks, e # d PROVE DiskInv(files[e], unseen[e], reader[e], records', e)
  <2>1. DiskInv(files[e], unseen[e], reader[e], records, e)
    BY DEF FilesInv
  <2> DEFINE t == records'
  <2>2. Keeps(records, t, d, n)
    BY <1>5
  <2> HIDE DEF n, t
  <2>3. DiskInv(files[e], unseen[e], reader[e], t, e)
    BY <1>8, <2>1, <2>2, DiskLeftAlone
  <2> QED BY <2>3 DEF t
<1>9. /\ DOMAIN files' = Disks /\ DOMAIN unseen' = Disks /\ DOMAIN reader' = Disks
      /\ reader'[d] = p /\ \A e \in Disks : e # d => reader'[e] = reader[e]
  BY <1>1 DEF FilesInv
<1>10. ASSUME NEW e \in Disks PROVE DiskInv(files'[e], unseen'[e], reader'[e], records', e)
  <2>1. CASE e = d
    BY <1>1, <1>7, <1>9, <2>1
  <2>2. CASE e # d
    BY <1>1, <1>8, <1>9, <2>2
  <2> QED BY <2>1, <2>2
<1> QED BY <1>5, <1>9, <1>10 DEF FilesInv

(* A file of a disk gets other contents.                                   *)
LEMMA FileWritten ==
  ASSUME FilesInv, NEW d \in Disks, NEW n, NEW c,
         files' = [files EXCEPT ![d][n] = c], unseen' = [unseen EXCEPT ![d] = @ \cup {n}],
         UNCHANGED <<reader, records>>
  PROVE  FilesInv'
<1> DEFINE fs == [files[d] EXCEPT ![n] = c]
<1>1. files' = [files EXCEPT ![d] = fs]
  OBVIOUS
<1>2. DiskInv(files[d], unseen[d], reader[d], records, d)
  BY DEF FilesInv
<1>3. DiskInv(fs, unseen[d] \cup {n}, reader[d], records, d)
  BY <1>2, FileChanged
<1> HIDE DEF fs
<1> QED BY <1>1, <1>3 DEF FilesInv

(* The list keeps what it has, in another order or with a mark.            *)
LEMMA ListTouched ==
  ASSUME FilesInv, GoodList(records'), SameListed(records, records'),
         UNCHANGED <<files, unseen, reader>>
  PROVE  FilesInv'
<1> DEFINE t == records'
<1>1. ASSUME NEW e \in Disks PROVE DiskInv(files[e], unseen[e], reader[e], t, e)
  <2>1. DiskInv(files[e], unseen[e], reader[e], records, e) /\ SameListed(records, t)
    BY DEF FilesInv
  <2> HIDE DEF t
  <2> QED BY <2>1, DiskLeftAlone
<1> QED BY <1>1 DEF FilesInv

LEMMA MarkKeeps ==
  ASSUME FilesInv, NEW i \in DOMAIN records,
         \/ records' = [records EXCEPT ![i].syncing = TRUE]
         \/ records' = [records EXCEPT ![i].removed = TRUE],
         UNCHANGED <<files, unseen, reader>>
  PROVE  FilesInv'
<1>1. GoodList(records) /\ i \in 1 .. Len(records)
  BY DEF FilesInv, GoodList, IsQueue
<1> DEFINE s == records
<1>2. PICK r : /\ DOMAIN r = Fields /\ r.filename = s[i].filename /\ r.crc = s[i].crc
               /\ r.source = s[i].source /\ records' = [s EXCEPT ![i] = r]
  <2>1. DOMAIN s[i] = Fields
    BY <1>1 DEF GoodList
  <2> DEFINE a == [s[i] EXCEPT !.syncing = TRUE]
             b == [s[i] EXCEPT !.removed = TRUE]
  <2>2. DOMAIN a = Fields /\ a.filename = s[i].filename /\ a.crc = s[i].crc /\ a.source = s[i].source
    BY <2>1 DEF Fields
  <2>3. DOMAIN b = Fields /\ b.filename = s[i].filename /\ b.crc = s[i].crc /\ b.source = s[i].source
    BY <2>1 DEF Fields
  <2>4. records' = [s EXCEPT ![i] = a] \/ records' = [s EXCEPT ![i] = b]
    OBVIOUS
  <2> HIDE DEF a, b
  <2> QED BY <2>2, <2>3, <2>4
<1> DEFINE t == [s EXCEPT ![i] = r]
<1>3. GoodList(t) /\ SameListed(s, t)
  <2> HIDE DEF s
  <2> QED BY <1>1, <1>2, RecordMarked DEF s
<1> HIDE DEF t
<1> QED BY <1>2, <1>3, ListTouched DEF t

LEMMA SortKeeps == ASSUME FilesInv, Sort PROVE FilesInv'
<1> DEFINE s == records
<1>1. PICK o \in SetToSeqs(DOMAIN s) : records' = [i \in DOMAIN s |-> s[o[i]]]
  BY DEF Sort
<1> DEFINE t == [i \in DOMAIN s |-> s[o[i]]]
<1>2. GoodList(s)
  BY DEF FilesInv
<1>3. GoodList(t) /\ SameListed(s, t)
  <2> HIDE DEF s
  <2> QED BY <1>2, ListSorted
<1>4. records' = t /\ UNCHANGED <<files, unseen, reader>>
  BY <1>1 DEF Sort
<1> HIDE DEF t
<1> QED BY <1>3, <1>4, ListTouched

LEMMA FilesInvStep == QuietReading /\ FilesInv /\ [FilesNext]_filesVars => FilesInv'
<1> SUFFICES ASSUME QuietReading, FilesInv, [FilesNext]_filesVars PROVE FilesInv'
  OBVIOUS
<1>1. CASE \E d \in Disks : ReadDirEntry(d) \/ FsEvent(d) \/ StatDone(d) \/ ReadDone(d)
  BY <1>1, ReadDirEntryKeeps, FsEventKeeps, StatDoneKeeps, ReadDoneKeeps
<1>2. CASE \E d \in Disks : CopyTo(d)
  BY <1>2, MarkKeeps DEF CopyTo
<1>3. CASE \E d \in Disks : CopyDone(d)
  <2>1. PICK d \in Disks : CopyDone(d)
    BY <1>3
  <2>2. UNCHANGED <<reader, records>>
    BY <2>1 DEF CopyDone
  <2>3. CASE files[OtherDisk(d)][copying[d]] = NoFile
    BY <2>1, <2>2, <2>3 DEF CopyDone, FilesInv
  <2>4. CASE files[OtherDisk(d)][copying[d]] # NoFile
    BY <2>1, <2>2, <2>4, FileWritten DEF CopyDone
  <2> QED BY <2>3, <2>4
<1>4. CASE RemoveRecord
  BY <1>4, MarkKeeps DEF RemoveRecord
<1>5. CASE Sort
  BY <1>5, SortKeeps
<1>6. CASE GotoEditorPage \/ GotoCtlPage \/ GoToEditor \/ GoToMain \/ Edit \/ MakePlay \/ MakeExit
  BY <1>6 DEF GotoEditorPage, GotoCtlPage, GoToEditor, GoToMain, Edit, MakePlay, MakeExit, listVars, FilesInv
<1>7. CASE MakeSave
  <2>1. CASE UNCHANGED listVars
    BY <2>1 DEF listVars, FilesInv
  <2>2. CASE \E c \in {editor.program, Broken} :
            /\ files' = [files EXCEPT !["hd"][editor.name] = c]
            /\ unseen' = [unseen EXCEPT !["hd"] = @ \cup {editor.name}]
            /\ UNCHANGED <<reader, records>>
    BY <2>2, FileWritten DEF Disks
  <2> QED BY <1>7, <2>1, <2>2 DEF MakeSave
<1>8. CASE ChangeOnDisk
  BY <1>8, FileWritten DEF ChangeOnDisk
<1>9. CASE UNCHANGED filesVars
  BY <1>9 DEF filesVars, FilesInv
<1> QED BY <1>1, <1>2, <1>3, <1>4, <1>5, <1>6, <1>7, <1>8, <1>9 DEF FilesNext

LEMMA FilesInvListed == FilesInv => ProgramsListed
<1> SUFFICES ASSUME FilesInv PROVE ProgramsListed
  OBVIOUS
<1>1. GoodList(records) /\ DOMAIN records = 1 .. Len(records)
  BY DEF FilesInv, GoodList, IsQueue
<1>2. VersionsDiffer
  BY <1>1 DEF VersionsDiffer, GoodList
<1>3. ASSUME NEW d \in Disks, Quiet(d), NEW n \in Names, files[d][n] \in Contents
      PROVE  \E i \in Same(records, n) : d \in records[i].source /\ records[i].crc = files[d][n]
  <2>1. Covered(files[d], unseen[d], reader[d], records, d)
    BY DEF FilesInv, DiskInv
  <2>2. ~InReader(reader[d], n) /\ n \notin unseen[d]
    BY <1>3 DEF Quiet, InReader, IsDirty
  <2>3. Lists(records, d, n, files[d][n])
    BY <1>3, <2>1, <2>2 DEF Covered
  <2> QED BY <1>1, <2>3 DEF Lists, Same
<1> QED BY <1>2, <1>3 DEF ProgramsListed, ListedWhenQuiet

LEMMA FilesSteps == [NodesNext]_nodesVars => [FilesNext]_filesVars
  BY DEF NodesNext, Others, nodesVars

(***************************************************************************)
(* The list of programs loses none: when a disk has come to rest, the list  *)
(* has every program on it with its contents, and two records of one name   *)
(* have different contents and no disk in common, whatever order the files  *)
(* were read, changed, copied and merged in (append_file, remove_file:      *)
(* program-list-model.cpp:174-322).  It takes that no change is reported    *)
(* while a directory or a file is being read: the request would be started  *)
(* twice.                                                                  *)
(***************************************************************************)
THEOREM EveryProgramListed ==
  ASSUME QuietReading
  PROVE  NodesSpec => []ProgramsListed
<1>1. NodesInit => FilesInv
  BY FilesInvInit DEF NodesInit
<1>2. FilesInv /\ [NodesNext]_nodesVars => FilesInv'
  BY FilesSteps, FilesInvStep
<1> QED BY <1>1, <1>2, FilesInvListed, PTL DEF NodesSpec

-----------------------------------------------------------------------------
(* The converter.  What waits in the queue is a word or set values, and a   *)
(* start comes with a reset.                                               *)
GoodWrite(w) ==
  /\ w.kind \in {"word", "sets"}
  /\ w.kind = "sets" => ~w.start
  /\ w.start => w.reset
GoodWrites(q) == IsQueue(q) /\ \A k \in 1 .. Len(q) : GoodWrite(q[k])

IsStop(w) == w.kind = "word" /\ ~w.start

(* Once the queue is empty the device is off: its last word is a stop, or it *)
(* is off and no start is on its way.                                      *)
EndsStopped(q, dev) ==
  \/ \E j \in 1 .. Len(q) : IsStop(q[j]) /\ \A k \in 1 .. Len(q) : k > j => ~q[k].start
  \/ dev \notin {"starting", "powered"} /\ \A k \in 1 .. Len(q) : ~q[k].start

(* Once the queue is empty the device has the set value v.                 *)
EndsSet(q, v, set) ==
  \/ \E j \in 1 .. Len(q) : /\ q[j].kind = "sets" /\ q[j].value = v
                            /\ \A k \in 1 .. Len(q) : k > j => q[k].kind # "sets"
  \/ set = v /\ \A k \in 1 .. Len(q) : q[k].kind # "sets"

(* The set value that rules.                                               *)
Ruling == IF prioritySets # NoSets THEN prioritySets ELSE iSet

ConverterInv ==
  /\ GoodWrites(writes)
  /\ fcOnline \in BOOLEAN
  /\ iSet \in Nat /\ iMax \in Nat /\ iSet <= iMax
  /\ device \in {"idle", "starting", "powered", "damaged", "?"}
  /\ ~fcOnline => fcWire = "blocked" /\ fcStatus = "none"
  /\ fcOnline /\ ~doubt /\ fcWire # "active" => EndsStopped(writes, device)
  /\ fcWire = "active" => EndsSet(writes, Ruling, deviceSet)

IsLonger(t, q, w) ==
  /\ GoodWrites(t)
  /\ IsStop(w) => \A dev : EndsStopped(t, dev)
  /\ ~w.start => \A dev : EndsStopped(q, dev) => EndsStopped(t, dev)
  /\ w.kind = "sets" => \A set : EndsSet(t, w.value, set)
  /\ w.kind # "sets" => \A v, set : EndsSet(q, v, set) => EndsSet(t, v, set)

LEMMA WriteAppended ==
  ASSUME NEW q, GoodWrites(q), NEW w, GoodWrite(w), NEW t, t = Append(q, w)
  PROVE  IsLonger(t, q, w)
<1>1. /\ IsQueue(t) /\ Len(q) \in Nat /\ Len(t) = Len(q) + 1 /\ t[Len(q) + 1] = w
      /\ \A i \in 1 .. Len(q) : t[i] = q[i]
  BY AppendQueue DEF GoodWrites
<1>2. \A k \in 1 .. Len(t) : (k = Len(q) + 1 /\ t[k] = w) \/ (k \in 1 .. Len(q) /\ t[k] = q[k])
  BY <1>1
<1>3. GoodWrites(t)
  BY <1>1, <1>2 DEF GoodWrites
<1>4. Len(q) + 1 \in 1 .. Len(t) /\ \A k \in 1 .. Len(t) : ~(k > Len(q) + 1)
  BY <1>1
<1>5. IsStop(w) => \A dev : EndsStopped(t, dev)
  BY <1>1, <1>4 DEF EndsStopped
<1>6. w.kind = "sets" => \A set : EndsSet(t, w.value, set)
  BY <1>1, <1>4 DEF EndsSet
<1>7. ASSUME ~w.start, NEW dev, EndsStopped(q, dev) PROVE EndsStopped(t, dev)
  <2>1. CASE \E j \in 1 .. Len(q) : IsStop(q[j]) /\ \A k \in 1 .. Len(q) : k > j => ~q[k].start
    <3>1. PICK j \in 1 .. Len(q) : IsStop(q[j]) /\ \A k \in 1 .. Len(q) : k > j => ~q[k].start
      BY <2>1
    <3>2. j \in 1 .. Len(t) /\ IsStop(t[j])
      BY <1>1, <3>1
    <3>3. \A k \in 1 .. Len(t) : k > j => ~t[k].start
      BY <1>2, <1>7, <3>1
    <3> QED BY <3>2, <3>3 DEF EndsStopped
  <2>2. CASE dev \notin {"starting", "powered"} /\ \A k \in 1 .. Len(q) : ~q[k].start
    BY <1>2, <1>7, <2>2 DEF EndsStopped
  <2> QED BY <1>7, <2>1, <2>2 DEF EndsStopped
<1>8. ASSUME w.kind # "sets", NEW v, NEW set, EndsSet(q, v, set) PROVE EndsSet(t, v, set)
  <2>1. CASE \E j \in 1 .. Len(q) : /\ q[j].kind = "sets" /\ q[j].value = v
                                    /\ \A k \in 1 .. Len(q) : k > j => q[k].kind # "sets"
    <3>1. PICK j \in 1 .. Len(q) : /\ q[j].kind = "sets" /\ q[j].value = v
                                   /\ \A k \in 1 .. Len(q) : k > j => q[k].kind # "sets"
      BY <2>1
    <3>2. j \in 1 .. Len(t) /\ t[j].kind = "sets" /\ t[j].value = v
      BY <1>1, <3>1
    <3>3. \A k \in 1 .. Len(t) : k > j => t[k].kind # "sets"
      BY <1>2, <1>8, <3>1
    <3> QED BY <3>2, <3>3 DEF EndsSet
  <2>2. CASE set = v /\ \A k \in 1 .. Len(q) : q[k].kind # "sets"
    BY <1>2, <1>8, <2>2 DEF EndsSet
  <2> QED BY <1>8, <2>1, <2>2 DEF EndsSet
<1> QED BY <1>3, <1>5, <1>6, <1>7, <1>8 DEF IsLonger

(* The writes the node makes.                                              *)
LEMMA WordsAndSets ==
  /\ GoodWrite(Word(TRUE, TRUE)) /\ Word(TRUE, TRUE).kind = "word"
  /\ \A r : GoodWrite(Word(FALSE, r)) /\ IsStop(Word(FALSE, r)) /\ Word(FALSE, r).kind = "word"
  /\ \A v : GoodWrite(Sets(v)) /\ Sets(v).kind = "sets" /\ ~Sets(v).start /\ Sets(v).value = v
  BY DEF Word, Sets, GoodWrite, IsStop

LEMMA WriteTaken ==
  ASSUME NEW q, GoodWrites(q), q # <<>>, NEW w, w = Head(q), NEW t, t = Tail(q)
  PROVE  /\ GoodWrites(t)
         /\ GoodWrite(w)
         /\ \A dev, new : EndsStopped(q, dev)
               /\ (w.kind = "sets" => new \in {dev, "idle", "damaged"})
               /\ (IsStop(w) => new \notin {"starting", "powered"}) => EndsStopped(t, new)
         /\ \A v, set, new : EndsSet(q, v, set)
               /\ (IF w.kind = "sets" THEN new = w.value ELSE new = set) => EndsSet(t, v, new)
<1>1. /\ IsQueue(t) /\ Len(q) \in Nat /\ Len(q) > 0 /\ Len(t) = Len(q) - 1 /\ w = q[1]
      /\ \A i \in 1 .. Len(q) - 1 : t[i] = q[i + 1]
  BY TailQueue DEF GoodWrites
<1>2. \A k \in 1 .. Len(t) : k + 1 \in 1 .. Len(q) /\ t[k] = q[k + 1]
  BY <1>1
<1>3. GoodWrites(t)
  BY <1>1, <1>2 DEF GoodWrites
<1>4. GoodWrite(w)
  BY <1>1 DEF GoodWrites
<1>5. ASSUME NEW j \in 1 .. Len(q), j # 1 PROVE j - 1 \in 1 .. Len(t) /\ t[j - 1] = q[j]
  <2>1. j - 1 \in 1 .. Len(q) - 1 /\ (j - 1) + 1 = j
    BY <1>1, <1>5
  <2> QED BY <1>1, <2>1
<1>6. ASSUME NEW dev, NEW new, EndsStopped(q, dev), w.kind = "sets" => new \in {dev, "idle", "damaged"},
             IsStop(w) => new \notin {"starting", "powered"}
      PROVE  EndsStopped(t, new)
  <2>1. CASE \E j \in 1 .. Len(q) : IsStop(q[j]) /\ \A k \in 1 .. Len(q) : k > j => ~q[k].start
    <3>1. PICK j \in 1 .. Len(q) : IsStop(q[j]) /\ \A k \in 1 .. Len(q) : k > j => ~q[k].start
      BY <2>1
    <3>2. CASE j = 1
      <4>1. \A k \in 1 .. Len(t) : ~t[k].start
        BY <1>2, <3>1, <3>2
      <4>2. new \notin {"starting", "powered"}
        BY <1>1, <1>6, <3>1, <3>2
      <4> QED BY <4>1, <4>2 DEF EndsStopped
    <3>3. CASE j # 1
      <4>1. j - 1 \in 1 .. Len(t) /\ IsStop(t[j - 1])
        BY <1>5, <3>1, <3>3
      <4>2. \A k \in 1 .. Len(t) : k > j - 1 => ~t[k].start
        BY <1>2, <3>1
      <4> QED BY <4>1, <4>2 DEF EndsStopped
    <3> QED BY <3>2, <3>3
  <2>2. CASE dev \notin {"starting", "powered"} /\ \A k \in 1 .. Len(q) : ~q[k].start
    <3>1. \A k \in 1 .. Len(t) : ~t[k].start
      BY <1>2, <2>2
    <3>2. ~w.start
      BY <1>1, <2>2
    <3>3. new \notin {"starting", "powered"}
      BY <1>4, <1>6, <2>2, <3>2 DEF IsStop, GoodWrite
    <3> QED BY <3>1, <3>3 DEF EndsStopped
  <2> QED BY <1>6, <2>1, <2>2 DEF EndsStopped
<1>7. ASSUME NEW v, NEW set, NEW new, EndsSet(q, v, set),
             IF w.kind = "sets" THEN new = w.value ELSE new = set
      PROVE  EndsSet(t, v, new)
  <2>1. CASE \E j \in 1 .. Len(q) : /\ q[j].kind = "sets" /\ q[j].value = v
                                    /\ \A k \in 1 .. Len(q) : k > j => q[k].kind # "sets"
    <3>1. PICK j \in 1 .. Len(q) : /\ q[j].kind = "sets" /\ q[j].value = v
                                   /\ \A k \in 1 .. Len(q) : k > j => q[k].kind # "sets"
      BY <2>1
    <3>2. CASE j = 1
      <4>1. \A k \in 1 .. Len(t) : t[k].kind # "sets"
        BY <1>2, <3>1, <3>2
      <4>2. new = v
        BY <1>1, <1>7, <3>1, <3>2
      <4> QED BY <4>1, <4>2 DEF EndsSet
    <3>3. CASE j # 1
      <4>1. j - 1 \in 1 .. Len(t) /\ t[j - 1].kind = "sets" /\ t[j - 1].value = v
        BY <1>5, <3>1, <3>3
      <4>2. \A k \in 1 .. Len(t) : k > j - 1 => t[k].kind # "sets"
        BY <1>2, <3>1
      <4> QED BY <4>1, <4>2 DEF EndsSet
    <3> QED BY <3>2, <3>3
  <2>2. CASE set = v /\ \A k \in 1 .. Len(q) : q[k].kind # "sets"
    <3>1. \A k \in 1 .. Len(t) : t[k].kind # "sets"
      BY <1>2, <2>2
    <3>2. w.kind # "sets"
      BY <1>1, <2>2
    <3> QED BY <1>7, <2>2, <3>1, <3>2 DEF EndsSet
  <2> QED BY <1>7, <2>1, <2>2 DEF EndsSet
<1> QED BY <1>3, <1>4, <1>6, <1>7

LEMMA ConverterInvInit == ConverterInit => ConverterInv
<1> SUFFICES ASSUME ConverterInit PROVE ConverterInv
  OBVIOUS
<1>1. GoodWrites(<<>>)
  BY DEF GoodWrites, IsQueue
<1>2. writes = <<>> /\ fcOnline = FALSE /\ fcWire = "blocked" /\ fcStatus = "none" /\ iSet = 0 /\ iMax = 0
  BY DEF ConverterInit
<1>3. GoodWrites(writes) /\ device \in {"idle", "starting", "powered", "damaged", "?"}
  BY <1>1, <1>2 DEF ConverterInit
<1>4. ~fcOnline /\ fcOnline \in BOOLEAN
  BY DEF ConverterInit
<1>5. fcWire # "active"
  BY <1>2
<1>6. iSet \in Nat /\ iMax \in Nat /\ iSet <= iMax
  BY <1>2
<1> QED BY <1>2, <1>3, <1>4, <1>5, <1>6, Zenon DEF ConverterInv

(* The node's own steps.                                                   *)
LEMMA ActivateKeeps == ASSUME ConverterInv, ConverterActivate PROVE ConverterInv'
<1> USE ConverterAssumption
<1>1. /\ fcWire # "blocked" /\ fcWire' = "active" /\ fcOnline = TRUE
      /\ UNCHANGED <<fcStatus, fcOnline, iMax, iSet, device, deviceSet, doubt>>
  BY DEF ConverterActivate, ConverterInv, deviceVars
<1>2. PICK v : v = Ruling' /\ writes' = writes \o <<Sets(v)>> \o StartWord
  <2>1. CASE \E i \in Currents : /\ prioritySets' = Least(iMax, i)
                                 /\ writes' = writes \o <<Sets(prioritySets')>> \o StartWord
    <3>1. PICK i \in Currents : /\ prioritySets' = Least(iMax, i)
                                /\ writes' = writes \o <<Sets(prioritySets')>> \o StartWord
      BY <2>1
    <3>2. Least(iMax, i) # NoSets
      BY DEF Least, NoSets, ConverterInv
    <3> QED BY <3>1, <3>2 DEF Ruling
  <2>2. CASE /\ prioritySets' = NoSets
             /\ writes' = writes \o WriteSets(iSet, NoSets) \o StartWord
    <3>1. WriteSets(iSet, NoSets) = <<Sets(iSet)>>
      BY <1>1 DEF WriteSets
    <3> QED BY <1>1, <2>2, <3>1 DEF Ruling
  <2> QED BY <2>1, <2>2 DEF ConverterActivate
<1> DEFINE q == writes \o <<Sets(v)>>
<1>3. GoodWrites(writes)
  BY DEF ConverterInv
<1>4. q = Append(writes, Sets(v))
  BY <1>3, ConcatOne DEF GoodWrites
<1>5. GoodWrites(q) /\ EndsSet(q, v, deviceSet)
  <2> HIDE DEF q
  <2>1. GoodWrite(Sets(v)) /\ Sets(v).kind = "sets" /\ Sets(v).value = v
    BY WordsAndSets
  <2>2. IsLonger(q, writes, Sets(v))
    BY <1>3, <1>4, <2>1, WriteAppended
  <2> QED BY <2>1, <2>2 DEF IsLonger
<1> HIDE DEF q
<1>6. GoodWrites(writes') /\ EndsSet(writes', v, deviceSet)
  <2>1. writes' = q \o StartWord
    BY <1>2 DEF q
  <2>2. CASE StartWord = <<>>
    BY <1>5, <2>1, <2>2, ConcatOne DEF GoodWrites
  <2>3. CASE StartWord = <<Word(TRUE, TRUE)>>
    <3> DEFINE t == writes'
    <3>1. t = Append(q, Word(TRUE, TRUE))
      BY <1>5, <2>1, <2>3, ConcatOne DEF GoodWrites
    <3> HIDE DEF t
    <3>2. GoodWrites(t) /\ EndsSet(t, v, deviceSet)
      BY <1>5, <3>1, WordsAndSets, WriteAppended DEF IsLonger
    <3> QED BY <3>2 DEF t
  <2> QED BY <2>2, <2>3 DEF StartWord
<1> QED BY <1>1, <1>2, <1>6 DEF ConverterInv

LEMMA DeactivateKeeps == ASSUME ConverterInv, ConverterDeactivate PROVE ConverterInv'
<1>1. /\ fcWire' = "ready" /\ fcOnline = TRUE
      /\ writes' = writes \o StopWord /\ doubt' = (StopWord = <<>> /\ Starting)
      /\ UNCHANGED <<fcStatus, fcOnline, iMax, iSet, device>>
  BY DEF ConverterDeactivate, ConverterInv, deviceVars
<1>2. GoodWrites(writes)
  BY DEF ConverterInv
<1>3. CASE fcStatus \in {"powered", "damaged"}
  <2>1. PICK w : StopWord = <<w>> /\ GoodWrite(w) /\ IsStop(w) /\ w.kind = "word"
    BY <1>3, WordsAndSets DEF StopWord
  <2> DEFINE t == writes'
  <2>2. t = Append(writes, w)
    BY <1>1, <1>2, <2>1, ConcatOne DEF GoodWrites
  <2> HIDE DEF t
  <2>3. GoodWrites(t) /\ EndsStopped(t, device)
    BY <1>2, <2>1, <2>2, WriteAppended DEF IsLonger
  <2> QED BY <1>1, <2>3 DEF ConverterInv, t
<1>4. CASE fcStatus \notin {"powered", "damaged"}
  <2>1. StopWord = <<>> /\ writes' = writes
    BY <1>1, <1>2, <1>4, ConcatOne DEF StopWord, GoodWrites
  <2>2. ~doubt' => EndsStopped(writes, device)
    <3>1. DOMAIN writes = 1 .. Len(writes)
      BY <1>2 DEF GoodWrites, IsQueue
    <3> QED BY <1>1, <1>4, <2>1, <3>1 DEF Starting, EndsStopped
  <2> QED BY <1>1, <1>2, <2>1, <2>2 DEF ConverterInv
<1> QED BY <1>3, <1>4

(* The ports: the current is told when it rules.                           *)
LEMMA CurrentTold ==
  ASSUME ConverterInv, NEW i \in Nat, iSet' = i, iMax' \in Nat, i <= iMax',
         writes' = writes \o WriteSets(i, prioritySets),
         UNCHANGED <<fcWire, fcStatus, fcOnline, prioritySets, device, deviceSet, doubt>>
  PROVE  ConverterInv'
<1>1. GoodWrites(writes)
  BY DEF ConverterInv
<1>2. CASE ~fcOnline \/ prioritySets # NoSets
  <2>1. writes' = writes
    BY <1>1, <1>2, ConcatOne DEF WriteSets, GoodWrites
  <2>2. fcWire = "active" => Ruling' = Ruling
    BY <1>2 DEF ConverterInv, Ruling
  <2> QED BY <2>1, <2>2 DEF ConverterInv
<1>3. CASE fcOnline /\ prioritySets = NoSets
  <2> DEFINE t == writes'
  <2>1. t = Append(writes, Sets(i))
    BY <1>1, <1>3, ConcatOne DEF WriteSets, GoodWrites
  <2> HIDE DEF t
  <2>2. /\ GoodWrites(t) /\ EndsSet(t, i, deviceSet)
        /\ \A dev : EndsStopped(writes, dev) => EndsStopped(t, dev)
    <3>1. GoodWrite(Sets(i)) /\ Sets(i).kind = "sets" /\ Sets(i).value = i /\ ~Sets(i).start
      BY WordsAndSets
    <3>2. IsLonger(t, writes, Sets(i))
      BY <1>1, <2>1, <3>1, WriteAppended
    <3> QED BY <3>1, <3>2 DEF IsLonger
  <2>3. Ruling' = i
    BY <1>3 DEF Ruling
  <2> QED BY <2>2, <2>3 DEF ConverterInv, t
<1> QED BY <1>2, <1>3

LEMMA ReadStatusKeeps == ASSUME ConverterInv, ReadStatusDone PROVE ConverterInv'
<1>1. /\ fcOnline = TRUE /\ fcStatus' = Shown
      /\ fcWire' = IF Shown # fcStatus /\ Shown # "powered" THEN "ready" ELSE fcWire
      /\ doubt' = (doubt \/ (fcWire' # fcWire /\ Starting))
      /\ UNCHANGED <<fcOnline, iMax, iSet, prioritySets, writes, device, deviceSet>>
  BY DEF ReadStatusDone, deviceVars, ConverterInv
<1>2. DOMAIN writes = 1 .. Len(writes)
  BY DEF GoodWrites, IsQueue, ConverterInv
<1>3. CASE fcWire' = fcWire
  BY <1>1, <1>3 DEF ConverterInv, Ruling
<1>4. CASE fcWire' # fcWire
  <2>1. fcWire' = "ready" /\ Shown # "powered"
    BY <1>1, <1>4
  <2>2. ~doubt' => EndsStopped(writes, device)
    BY <1>1, <1>2, <1>4, <2>1 DEF Starting, Shown, EndsStopped
  <2> QED BY <1>1, <2>1, <2>2 DEF ConverterInv
<1> QED BY <1>3, <1>4

LEMMA OnlineKeeps == ASSUME ConverterInv, NowUnitOnline PROVE ConverterInv'
<1>1. /\ fcOnline' = TRUE /\ fcWire = "blocked" /\ writes' = Append(writes, Word(FALSE, TRUE))
      /\ UNCHANGED <<fcWire, fcStatus, iMax, iSet, prioritySets, device, deviceSet>>
  BY DEF NowUnitOnline, deviceVars, ConverterInv
<1> DEFINE t == writes'
<1>2. t = Append(writes, Word(FALSE, TRUE)) /\ GoodWrites(writes)
  BY <1>1 DEF ConverterInv
<1> HIDE DEF t
<1>3. GoodWrites(t) /\ EndsStopped(t, device)
  BY <1>2, WordsAndSets, WriteAppended DEF IsLonger
<1> QED BY <1>1, <1>3 DEF ConverterInv, t

LEMMA LinkLostKeeps == ASSUME ConverterInv, ConnectionWasLost PROVE ConverterInv'
<1>1. GoodWrites(<<>>)
  BY DEF GoodWrites, IsQueue
<1>2. GoodWrites(writes')
  BY <1>1 DEF ConnectionWasLost, ConverterInv
<1> QED BY <1>2 DEF ConnectionWasLost, ConverterInv, deviceVars

LEMMA LeastOf == \A a, b \in Nat : Least(a, b) \in Nat /\ Least(a, b) <= a /\ Least(a, b) <= b
  BY DEF Least

(* The steps of the node, whatever is behind it.                           *)
LEMMA ConverterNodeKeeps ==
  ASSUME ConverterInv,
         \/ ConverterActivate \/ ConverterDeactivate
         \/ ConverterLimits \/ ConverterCurrent
         \/ ReadStatusDone \/ NowUnitOnline \/ ConnectionWasLost
  PROVE  ConverterInv'
<1>1. CASE ConverterLimits
  <2>1. PICK m \in Currents : iMax' = m /\ iSet' = Least(m, iSet)
    BY <1>1 DEF ConverterLimits
  <2>2. m \in Nat /\ iSet \in Nat
    BY ConverterAssumption DEF ConverterInv
  <2>3. Least(m, iSet) \in Nat /\ Least(m, iSet) <= m
    BY <2>2, LeastOf
  <2> DEFINE i == Least(m, iSet)
  <2>4. iSet' = i /\ iMax' \in Nat /\ i <= iMax' /\ writes' = writes \o WriteSets(i, prioritySets)
        /\ UNCHANGED <<fcWire, fcStatus, fcOnline, prioritySets, device, deviceSet, doubt>>
    BY <1>1, <2>1, <2>2, <2>3 DEF ConverterLimits, deviceVars
  <2>5. i \in Nat
    BY <2>3
  <2> HIDE DEF i
  <2> QED BY <2>4, <2>5, CurrentTold
<1>2. CASE ConverterCurrent
  <2>1. PICK c \in Currents : iSet' = Least(iMax, c)
    BY <1>2 DEF ConverterCurrent
  <2>2. c \in Nat /\ iMax \in Nat
    BY ConverterAssumption DEF ConverterInv
  <2>3. Least(iMax, c) \in Nat /\ Least(iMax, c) <= iMax
    BY <2>2, LeastOf
  <2> DEFINE i == Least(iMax, c)
  <2>4. iSet' = i /\ iMax' \in Nat /\ i <= iMax' /\ writes' = writes \o WriteSets(i, prioritySets)
        /\ UNCHANGED <<fcWire, fcStatus, fcOnline, prioritySets, device, deviceSet, doubt>>
    BY <1>2, <2>1, <2>2, <2>3 DEF ConverterCurrent, deviceVars
  <2>5. i \in Nat
    BY <2>3
  <2> HIDE DEF i
  <2> QED BY <2>4, <2>5, CurrentTold
<1> QED BY <1>1, <1>2, ActivateKeeps, DeactivateKeeps, ReadStatusKeeps, OnlineKeeps, LinkLostKeeps

(* A write arrives at the device, which does what it is told.              *)
LEMMA WriteArrives ==
  ASSUME ConverterInv, fcOnline, writes # <<>>, NEW w, w = Head(writes),
         writes' = Tail(writes), UNCHANGED <<nodeVars, doubt>>,
         device' \in {"idle", "starting", "powered", "damaged", "?"},
         w.kind = "sets" => deviceSet' = w.value /\ device' = device,
         w.kind # "sets" => deviceSet' = deviceSet,
         IsStop(w) => device' \notin {"starting", "powered"}
  PROVE  ConverterInv'
<1>1. GoodWrites(writes)
  BY DEF ConverterInv
<1> DEFINE t == Tail(writes)
           n == device'
           s == deviceSet'
<1>2. /\ w.kind = "sets" => s = w.value /\ n = device
      /\ w.kind # "sets" => s = deviceSet
      /\ IsStop(w) => n \notin {"starting", "powered"}
  OBVIOUS
<1> HIDE DEF t, n, s
<1>3. GoodWrites(t)
  BY <1>1, WriteTaken DEF t
<1>4. EndsStopped(writes, device) => EndsStopped(t, n)
  BY <1>1, <1>2, WriteTaken DEF t
<1>5. \A v : EndsSet(writes, v, deviceSet) => EndsSet(t, v, s)
  BY <1>1, <1>2, WriteTaken DEF t
<1>6. writes' = t /\ UNCHANGED <<fcOnline, fcWire, fcStatus, iSet, iMax, prioritySets, doubt>>
  BY DEF t, nodeVars
<1>7. EndsStopped(writes, device) => EndsStopped(writes', device')
  BY <1>4, <1>6 DEF n
<1>8. \A v : EndsSet(writes, v, deviceSet) => EndsSet(writes', v, deviceSet')
  BY <1>5, <1>6 DEF s
<1>9. Ruling' = Ruling
  BY <1>6 DEF Ruling
<1>10. fcOnline' /\ ~doubt' /\ fcWire' # "active" => EndsStopped(writes', device')
  BY <1>6, <1>7 DEF ConverterInv
<1>11. fcWire' = "active" => EndsSet(writes', Ruling', deviceSet')
  BY <1>6, <1>8, <1>9 DEF ConverterInv
<1> QED BY <1>3, <1>6, <1>10, <1>11 DEF ConverterInv

(* The device goes on by itself.                                           *)
LEMMA DeviceTurns ==
  ASSUME ConverterInv, UNCHANGED <<nodeVars, deviceSet, writes, doubt>>,
         device' \in {"idle", "starting", "powered", "damaged", "?"},
         device' \in {"starting", "powered"} => device \in {"starting", "powered"}
  PROVE  ConverterInv'
<1>1. EndsStopped(writes, device) => EndsStopped(writes, device')
  BY DEF EndsStopped
<1> QED BY <1>1 DEF ConverterInv, nodeVars, Ruling

LEMMA ConverterInvStep == ConverterInv /\ [ConverterNext]_fcVars => ConverterInv'
<1> SUFFICES ASSUME ConverterInv, [ConverterNext]_fcVars PROVE ConverterInv'
  OBVIOUS
<1>1. CASE DeviceWrite
  <2> DEFINE w == Head(writes)
  <2>1. fcOnline /\ writes # <<>> /\ writes' = Tail(writes) /\ UNCHANGED <<nodeVars, doubt>>
    BY <1>1 DEF DeviceWrite
  <2>2. w.kind = "sets" => deviceSet' = w.value /\ device' = device
    BY <1>1 DEF DeviceWrite
  <2>3. w.kind # "sets" => deviceSet' = deviceSet /\ device' = Control(w)
    BY <1>1 DEF DeviceWrite
  <2> HIDE DEF w
  <2>4. /\ device' \in {"idle", "starting", "powered", "damaged", "?"}
        /\ IsStop(w) => device' \notin {"starting", "powered"}
    BY <2>2, <2>3 DEF Control, IsStop, ConverterInv
  <2> QED BY <2>1, <2>2, <2>3, <2>4, WriteArrives DEF w
<1>2. CASE DeviceStarts \/ DeviceFails
  BY <1>2, DeviceTurns DEF DeviceStarts, DeviceFails
<1>3. CASE UNCHANGED fcVars
  BY <1>3 DEF fcVars, nodeVars, deviceVars, ConverterInv, Ruling
<1> QED BY <1>1, <1>2, <1>3, ConverterNodeKeeps DEF ConverterNext

LEMMA ConverterInvIsSafe == ConverterInv => ConverterSafe
<1> SUFFICES ASSUME ConverterInv PROVE ConverterSafe
  OBVIOUS
<1>1. Len(<<>>) = 0 /\ 1 .. 0 = {}
  OBVIOUS
<1>2. OffUnlessActive
  BY <1>1 DEF OffUnlessActive, Settled, ConverterInv, EndsStopped
<1>3. Least(iSet, iMax) = iSet
  BY DEF Least, ConverterInv
<1>4. WorksWithinLimits
  BY <1>1, <1>3 DEF WorksWithinLimits, ConverterInv, EndsSet, Ruling
<1> QED BY <1>2, <1>4 DEF ConverterSafe

-----------------------------------------------------------------------------
(* The converter of the emulator.  Its status is the word it holds: it      *)
(* works only by a start, and an error stands just while a mask is set.     *)
Statuses == {{}, {"powered"}, {"error"}}

EmuFcInv ==
  /\ statusReg = statusBits /\ statusBits \in Statuses
  /\ statusBits = {"error"} <=> masks # {}
  /\ statusBits = {"powered"} => command.start
  /\ device = Estatus
  /\ masks \subseteq ErrorRegisters /\ maskRegs \subseteq ErrorRegisters
  /\ masks \subseteq maskRegs

LEMMA EstatusIs ==
  /\ {"powered"} # {"error"} /\ {"powered"} # {} /\ {"error"} # {}
  /\ statusReg = {} => Estatus = "idle"
  /\ statusReg = {"powered"} => Estatus = "powered"
  /\ statusReg = {"error"} => Estatus = "damaged"
<1>1. {"powered"} # {"error"} /\ {"powered"} # {} /\ {"error"} # {}
  OBVIOUS
<1> QED BY <1>1 DEF Estatus

LEMMA EmuFcInvInit == EmuFcInit => EmuFcInv
BY EstatusIs DEF EmuFcInit, NothingSet, EmuFcInv, Statuses

LEMMA CommandKeeps ==
  ASSUME ConverterInv, EmuFcInv, CommandWritten
  PROVE  ConverterInv' /\ EmuFcInv'
<1> DEFINE w == Head(writes)
           word == [start |-> w.start, reset |-> w.reset]
<1>1. /\ fcOnline /\ writes # <<>> /\ w.kind = "word" /\ command' = word
      /\ device' = Estatus' /\ writes' = Tail(writes)
      /\ UNCHANGED <<nodeVars, doubt, deviceSet, maskRegs>>
  BY DEF CommandWritten
<1>2. /\ word = command => UNCHANGED <<statusBits, statusReg, masks>>
      /\ word # command => /\ statusBits' = Powered(w) /\ statusReg' = statusBits'
                           /\ masks' = AfterReset(w).masks
  BY DEF CommandWritten
<1>3. GoodWrite(w)
  <2>1. GoodWrites(writes)
    BY DEF ConverterInv
  <2> HIDE DEF w
  <2> QED BY <1>1, <2>1, WriteTaken DEF w
<1>4. word.start = w.start
  OBVIOUS
<1> HIDE DEF w, word
<1>5. EmuFcInv' /\ (IsStop(w) => Estatus' \in {"idle", "damaged"})
  <2>1. CASE word = command
    <3>1. Estatus' = Estatus
      BY <1>2, <2>1 DEF Estatus
    <3>2. EmuFcInv'
      BY <1>1, <1>2, <2>1, <3>1 DEF EmuFcInv
    <3>3. IsStop(w) => statusBits # {"powered"}
      BY <1>4, <2>1 DEF EmuFcInv, IsStop
    <3> QED BY <3>1, <3>2, <3>3, EstatusIs DEF EmuFcInv, Statuses
  <2>2. CASE word # command /\ w.start
    <3>1. AfterReset(w).bits = statusBits \ {"error"} /\ AfterReset(w).masks = {}
      BY <1>3, <2>2 DEF AfterReset, GoodWrite
    <3>2. Powered(w) = (statusBits \ {"error"}) \cup {"powered"}
      BY <2>2, <3>1 DEF Powered
    <3>3. Powered(w) = {"powered"}
      BY <3>2 DEF EmuFcInv, Statuses
    <3>4. statusBits' = {"powered"} /\ statusReg' = {"powered"} /\ masks' = {} /\ ~IsStop(w)
      BY <1>2, <2>2, <3>1, <3>3 DEF IsStop
    <3> QED BY <1>1, <1>4, <2>2, <3>4, EstatusIs DEF EmuFcInv, Statuses
  <2>3. CASE word # command /\ ~w.start /\ w.reset
    <3>1. AfterReset(w).bits = statusBits \ {"error"} /\ AfterReset(w).masks = {}
      BY <2>3 DEF AfterReset
    <3>2. Powered(w) = (statusBits \ {"error"}) \ {"powered"}
      BY <2>3, <3>1 DEF Powered
    <3>3. Powered(w) = {}
      BY <3>2 DEF EmuFcInv, Statuses
    <3>4. statusBits' = {} /\ statusReg' = {} /\ masks' = {}
      BY <1>2, <2>3, <3>1, <3>3
    <3>5. Estatus' = "idle"
      BY <3>4 DEF Estatus
    <3> QED BY <1>1, <3>4, <3>5, EstatusIs DEF EmuFcInv, Statuses
  <2>4. CASE word # command /\ ~w.start /\ ~w.reset
    <3>1. AfterReset(w).bits = statusBits /\ AfterReset(w).masks = masks
      BY <2>4 DEF AfterReset
    <3>2. Powered(w) = statusBits \ {"powered"}
      BY <2>4, <3>1 DEF Powered
    <3>3. \/ statusBits = {"error"} /\ Powered(w) = {"error"}
          \/ statusBits # {"error"} /\ Powered(w) = {}
      BY <3>2 DEF EmuFcInv, Statuses
    <3>4. statusBits' = Powered(w) /\ statusReg' = statusBits' /\ masks' = masks
      BY <1>2, <2>4, <3>1
    <3>5. CASE statusBits = {"error"} /\ Powered(w) = {"error"}
      <4>1. Estatus' = "damaged"
        BY <3>4, <3>5, EstatusIs DEF Estatus
      <4> QED BY <1>1, <3>4, <3>5, <4>1, EstatusIs DEF EmuFcInv, Statuses
    <3>6. CASE statusBits # {"error"} /\ Powered(w) = {}
      <4>1. Estatus' = "idle"
        BY <3>4, <3>6 DEF Estatus
      <4> QED BY <1>1, <3>4, <3>6, <4>1, EstatusIs DEF EmuFcInv, Statuses
    <3> QED BY <3>3, <3>5, <3>6
  <2> QED BY <2>1, <2>2, <2>3, <2>4
<1>6. ConverterInv'
  <2>1. IsStop(w) => device' \notin {"starting", "powered"}
    BY <1>1, <1>5
  <2>2. device' \in {"idle", "starting", "powered", "damaged", "?"}
    BY <1>1 DEF Estatus
  <2> QED BY <1>1, <2>1, <2>2, WriteArrives DEF w
<1> QED BY <1>5, <1>6

LEMMA InvertKeeps ==
  ASSUME NEW r \in ErrorRegisters, ConverterInv, EmuFcInv, InvertErrorMaskBit(r)
  PROVE  ConverterInv' /\ EmuFcInv'
<1>1. /\ masks' = IF r \in masks THEN masks \ {r} ELSE masks \cup {r}
      /\ maskRegs' = IF r \in masks' THEN maskRegs \cup {r} ELSE maskRegs \ {r}
      /\ statusBits' = IF masks' # {} THEN {"error"} ELSE statusBits \ {"error"}
      /\ statusReg' = statusBits' /\ device' = Estatus'
      /\ UNCHANGED <<nodeVars, doubt, deviceSet, writes, command>>
  BY DEF InvertErrorMaskBit
<1>2. masks' \subseteq ErrorRegisters /\ maskRegs' \subseteq ErrorRegisters
  BY <1>1 DEF EmuFcInv
<1>3. masks' \subseteq maskRegs'
  BY <1>1 DEF EmuFcInv
<1>4. CASE masks' # {}
  <2>1. statusBits' = {"error"} /\ statusReg' = {"error"}
    BY <1>1, <1>4
  <2>2. Estatus' = "damaged"
    BY <2>1, EstatusIs DEF Estatus
  <2>3. EmuFcInv'
    BY <1>1, <1>2, <1>3, <1>4, <2>1, EstatusIs DEF EmuFcInv, Statuses
  <2> QED BY <1>1, <2>2, <2>3, DeviceTurns
\* The last error goes: the register just written was the only one set.
<1>5. CASE masks' = {}
  <2>1. masks # {}
    BY <1>1, <1>5
  <2>2. statusBits = {"error"}
    BY <2>1 DEF EmuFcInv
  <2>3. statusBits' = {} /\ statusReg' = {}
    BY <1>1, <1>5, <2>2
  <2>4. Estatus' = "idle"
    BY <2>3 DEF Estatus
  <2>5. EmuFcInv'
    BY <1>1, <1>2, <1>3, <1>5, <2>3, EstatusIs DEF EmuFcInv, Statuses
  <2> QED BY <1>1, <2>4, <2>5, DeviceTurns
<1> QED BY <1>4, <1>5

LEMMA EmuFcStep ==
  ASSUME ConverterInv, EmuFcInv, EmuFcNext
  PROVE  ConverterInv' /\ EmuFcInv'
<1>1. CASE Node
  <2>1. ConverterInv'
    BY <1>1, ConverterNodeKeeps DEF Node
  <2>2. UNCHANGED <<device, emuFcVars>>
    BY <1>1 DEF Node, ConverterActivate, ConverterDeactivate, ConverterLimits, ConverterCurrent,
                ReadStatusDone, NowUnitOnline, ConnectionWasLost, deviceVars
  <2> QED BY <2>1, <2>2 DEF EmuFcInv, emuFcVars, Estatus
<1>2. CASE SetsWritten
  <2> DEFINE w == Head(writes)
  <2>1. /\ fcOnline /\ writes # <<>> /\ w.kind = "sets" /\ deviceSet' = w.value
        /\ writes' = Tail(writes) /\ UNCHANGED <<nodeVars, doubt, device, emuFcVars>>
    BY <1>2 DEF SetsWritten
  <2>2. ~IsStop(w) /\ device' \in {"idle", "starting", "powered", "damaged", "?"}
    BY <2>1 DEF IsStop, ConverterInv
  <2> HIDE DEF w
  <2>3. ConverterInv'
    BY <2>1, <2>2, WriteArrives DEF w
  <2>4. EmuFcInv'
    BY <2>1 DEF EmuFcInv, emuFcVars, Estatus
  <2> QED BY <2>3, <2>4
<1> QED BY <1>1, <1>2, CommandKeeps, InvertKeeps DEF EmuFcNext

LEMMA EmuFcInvIsSafe == ConverterInv /\ EmuFcInv => EmuConverterSafe
<1> SUFFICES ASSUME ConverterInv, EmuFcInv PROVE EmuConverterSafe
  OBVIOUS
<1>1. OneStatus /\ NoErrorHidden
  BY EstatusIs DEF OneStatus, NoErrorHidden, EmuFcInv, Statuses
<1> QED BY <1>1, ConverterInvIsSafe DEF EmuConverterSafe, ConverterSafe

-----------------------------------------------------------------------------
(* The I/O units.  Their tables: outputs have bits of their own, what a      *)
(* relay reports is the bit it was told, and no name of a page stands for    *)
(* two things.                                                             *)
Units == {PR205_A1, PR205_A2, PR205_A14, PR205_BN, PLC110, PR200}

On(o) == ioUnit.outs[o].on
Off(o) == ioUnit.outs[o].off

OutputsFit ==
  /\ \A o \in Outputs : On(o) \subseteq 0..3 /\ Off(o) \subseteq 0..3 /\ On(o) # {}
  /\ \A o, p \in Outputs : o # p => (On(o) \cup Off(o)) \cap (On(p) \cup Off(p)) = {}
  /\ \A o \in Outputs : On(o) \cap Off(o) = {}
  /\ \A l \in DOMAIN ioUnit.echo : /\ l \in Outputs /\ ~TwoBits(l)
                                   /\ On(l) = {ioUnit.echo[l]}
  /\ ioUnit = PLC110 => \A o \in Outputs : On(o) \subseteq 0..2 /\ Off(o) = {}

PagesFit ==
  /\ DOMAIN OutputLamps \cap DOMAIN Labels = {}
  /\ {"l", "r"} \cap (DOMAIN OutputLamps \cup DOMAIN Labels \cup Flips) = {}
  /\ Flips \cap DOMAIN Labels = {}
  /\ \A l \in Flips : l \notin DOMAIN ioUnit.echo /\ ~TwoBits(l) => l \notin DOMAIN OutputLamps
  /\ (Flips \ DOMAIN OutputLamps) \cap Saves = {}
  /\ TwoBits("VA") => "VA" \in Saves /\ "VA" \notin Flips
  /\ ioUnit = PLC110 => Flips = {}

LEMMA UnitsDiffer ==
  /\ PR205_A1 # PR205_A2 /\ PR205_A1 # PR205_A14 /\ PR205_A1 # PR205_BN /\ PR205_A1 # PLC110 /\ PR205_A1 # PR200
  /\ PR205_A2 # PR205_A14 /\ PR205_A2 # PR205_BN /\ PR205_A2 # PLC110 /\ PR205_A2 # PR200
  /\ PR205_A14 # PR205_BN /\ PR205_A14 # PLC110 /\ PR205_A14 # PR200
  /\ PR205_BN # PLC110 /\ PR205_BN # PR200 /\ PLC110 # PR200
<1>1. /\ PR205_A1.lists = {"FC", "DT", "DP", "VA"}
      /\ PR205_A2.lists = {"FC", "DT", "DP"}
      /\ PR205_A14.lists = {"DT", "DP", "P", "VA", "H"}
      /\ PR205_BN.lists = {"DT", "FC", "P", "H", "VA", "WH"}
      /\ PLC110.lists = {"spin", "b", "m1b", "m2b"}
      /\ PR200.lists = {"FC", "DT", "VA"}
  BY DEF PR205_A1, PR205_A2, PR205_A14, PR205_BN, PLC110, PR200
<1>2. /\ "DP" \in PR205_A1.lists /\ "VA" \in PR205_A1.lists /\ "P" \notin PR205_A1.lists
      /\ "VA" \notin PR205_A2.lists /\ "FC" \in PR205_A2.lists
      /\ "H" \in PR205_A14.lists /\ "FC" \notin PR205_A14.lists
      /\ "P" \in PR205_BN.lists /\ "FC" \in PR205_BN.lists
      /\ "VA" \notin PLC110.lists /\ "FC" \notin PLC110.lists
      /\ "FC" \in PR200.lists /\ "DP" \notin PR200.lists /\ "VA" \in PR200.lists /\ "P" \notin PR200.lists
      /\ "P" \in PR205_A14.lists /\ "VA" \in PR205_A14.lists /\ "VA" \in PR205_BN.lists
  BY <1>1
<1> QED BY <1>2, Zenon

LEMMA TablesOfA1 == ASSUME ioUnit = PR205_A1 PROVE OutputsFit /\ PagesFit
<1>1. /\ Outputs = {"VA"} /\ On("VA") = {0} /\ Off("VA") = {}
      /\ DOMAIN ioUnit.echo = {"VA"} /\ ioUnit.echo["VA"] = 0
  BY DEF PR205_A1, Outputs, On, Off, Bits
<1>2. /\ ioUnit # PLC110 /\ ioUnit # PR205_A14 /\ ioUnit # PR205_BN /\ ioUnit # PR200
      /\ \A l : ~TwoBits(l)
  BY UnitsDiffer DEF TwoBits
<1>3. OutputsFit
  BY <1>1, <1>2 DEF OutputsFit
<1>4. Flips = {"VA"} /\ DOMAIN Labels = {} /\ Saves = {"FC", "DT", "DP"}
  BY <1>2 DEF Flips, Labels, NoOutputs, Saves
<1>5. DOMAIN OutputLamps = {"VA"}
  <2> DEFINE lamps == [o \in (Outputs \cap Flips) |-> CHOOSE b \in ioUnit.outs[o].on : TRUE]
  <2>1. ioUnit \in {PR205_BN, PR205_A1, PR205_A14} /\ ioUnit # PLC110
    BY UnitsDiffer
  <2>2. OutputLamps = lamps
    BY <2>1, Zenon DEF OutputLamps
  <2>3. DOMAIN OutputLamps = Outputs \cap Flips
    BY <2>2
  <2> QED BY <1>1, <1>4, <2>3
<1>6. PagesFit
  BY <1>1, <1>2, <1>4, <1>5 DEF PagesFit
<1> QED BY <1>3, <1>6

LEMMA TablesOfA2 == ASSUME ioUnit = PR205_A2 PROVE OutputsFit /\ PagesFit
<1>1. Outputs = {} /\ DOMAIN ioUnit.echo = {}
  BY DEF PR205_A2, Outputs, NoOutputs
<1>2. /\ ioUnit # PLC110 /\ ioUnit # PR205_A14 /\ ioUnit # PR205_BN /\ ioUnit # PR200 /\ ioUnit # PR205_A1
      /\ \A l : ~TwoBits(l)
  BY UnitsDiffer DEF TwoBits
<1>3. OutputsFit
  BY <1>1, <1>2 DEF OutputsFit
<1>4. Flips = {} /\ DOMAIN Labels = {} /\ DOMAIN OutputLamps = {} /\ Saves = {"FC", "DT", "DP"}
  BY <1>2 DEF Flips, Labels, NoOutputs, OutputLamps, Saves
<1>5. PagesFit
  BY <1>2, <1>4 DEF PagesFit
<1> QED BY <1>3, <1>5

LEMMA TablesOfA14 == ASSUME ioUnit = PR205_A14 PROVE OutputsFit /\ PagesFit
<1>1. /\ Outputs = {"H", "VA"} /\ On("H") = {0} /\ Off("H") = {} /\ On("VA") = {1} /\ Off("VA") = {2}
      /\ DOMAIN ioUnit.echo = {"H"} /\ ioUnit.echo["H"] = 0
  BY DEF PR205_A14, Outputs, On, Off, Bits
<1>2. /\ ioUnit # PLC110 /\ ioUnit # PR205_A1 /\ ioUnit # PR205_BN /\ ioUnit # PR200
      /\ TwoBits("VA") /\ \A l : l # "VA" => ~TwoBits(l)
  BY UnitsDiffer DEF TwoBits
<1>3. OutputsFit
  BY <1>1, <1>2 DEF OutputsFit
<1>4. Flips = {"H", "P"} /\ DOMAIN Labels = {"left", "right"} /\ Saves = {"FC", "DT", "DP", "VA"}
  BY <1>2 DEF Flips, Labels, Saves
<1>5. DOMAIN OutputLamps = {"H"}
  <2> DEFINE lamps == [o \in (Outputs \cap Flips) |-> CHOOSE b \in ioUnit.outs[o].on : TRUE]
  <2>1. ioUnit \in {PR205_BN, PR205_A1, PR205_A14} /\ ioUnit # PLC110
    BY UnitsDiffer
  <2>2. OutputLamps = lamps
    BY <2>1, Zenon DEF OutputLamps
  <2>3. DOMAIN OutputLamps = Outputs \cap Flips
    BY <2>2
  <2> QED BY <1>1, <1>4, <2>3
<1>6. PagesFit
  BY <1>1, <1>2, <1>4, <1>5 DEF PagesFit
<1> QED BY <1>3, <1>6

LEMMA TablesOfBN == ASSUME ioUnit = PR205_BN PROVE OutputsFit /\ PagesFit
<1>1. /\ BNBit("H", 1) = 1 /\ BNBit("WH", 0) = 2 /\ BNBit("VA", 0) = 3
      /\ BNEcho("H", 1) = 1 /\ BNEcho("WH", 0) = 2 /\ BNEcho("VA", 0) = 3
  BY DEF BNBit, BNEcho
<1>2. /\ Outputs = {"H", "WH", "VA"} /\ On("H") = {1} /\ Off("H") = {}
      /\ On("WH") = {2} /\ Off("WH") = {} /\ On("VA") = {3} /\ Off("VA") = {}
  BY <1>1 DEF PR205_BN, Outputs, On, Off, Bits
<1>3. /\ DOMAIN ioUnit.echo = {"H", "WH", "VA"}
      /\ ioUnit.echo["H"] = 1 /\ ioUnit.echo["WH"] = 2 /\ ioUnit.echo["VA"] = 3
  BY <1>1 DEF PR205_BN
<1>4. ioUnit # PLC110 /\ ioUnit # PR205_A14 /\ \A l : ~TwoBits(l)
  BY UnitsDiffer DEF TwoBits
<1>5. OutputsFit
  BY <1>2, <1>3, <1>4 DEF OutputsFit
<1>6. Flips = {"H", "WH", "VA", "P"} /\ DOMAIN Labels = {} /\ Saves = {"FC", "DT", "DP"}
  BY <1>4, UnitsDiffer DEF Flips, Labels, NoOutputs, Saves
<1>7. DOMAIN OutputLamps = {"H", "WH", "VA"}
  <2> DEFINE lamps == [o \in (Outputs \cap Flips) |-> CHOOSE b \in ioUnit.outs[o].on : TRUE]
  <2>1. ioUnit \in {PR205_BN, PR205_A1, PR205_A14} /\ ioUnit # PLC110
    BY UnitsDiffer
  <2>2. OutputLamps = lamps
    BY <2>1, Zenon DEF OutputLamps
  <2>3. DOMAIN OutputLamps = Outputs \cap Flips
    BY <2>2
  <2> QED BY <1>2, <1>6, <2>3
<1>8. PagesFit
  BY <1>3, <1>4, <1>6, <1>7 DEF PagesFit
<1> QED BY <1>5, <1>8

LEMMA TablesOfPlc == ASSUME ioUnit = PLC110 PROVE OutputsFit /\ PagesFit
<1>1. /\ Outputs = {"b", "m1b", "m2b"} /\ On("b") = {0} /\ On("m1b") = {1} /\ On("m2b") = {2}
      /\ Off("b") = {} /\ Off("m1b") = {} /\ Off("m2b") = {} /\ DOMAIN ioUnit.echo = {}
  BY DEF PLC110, Outputs, On, Off, Bits, NoOutputs
<1>2. /\ ioUnit # PR205_A14 /\ ioUnit # PR205_A1 /\ ioUnit # PR205_BN /\ ioUnit # PR200
      /\ \A l : ~TwoBits(l)
  BY UnitsDiffer DEF TwoBits
<1>3. OutputsFit
  BY <1>1, <1>2 DEF OutputsFit
<1>4. Flips = {} /\ DOMAIN Labels = {} /\ DOMAIN OutputLamps = {"b", "m2b"}
  BY <1>2 DEF Flips, Labels, NoOutputs, OutputLamps
<1>5. PagesFit
  BY <1>2, <1>4 DEF PagesFit
<1> QED BY <1>3, <1>5

LEMMA TablesOfPR200 == ASSUME ioUnit = PR200 PROVE OutputsFit /\ PagesFit
<1>1. Outputs = {} /\ DOMAIN ioUnit.echo = {}
  BY DEF PR200, Outputs, NoOutputs
<1>2. /\ ioUnit # PLC110 /\ ioUnit # PR205_A14 /\ ioUnit # PR205_BN /\ ioUnit # PR205_A1
      /\ \A l : ~TwoBits(l)
  BY UnitsDiffer DEF TwoBits
<1>3. OutputsFit
  BY <1>1, <1>2 DEF OutputsFit
<1>4. Flips = {"VA"} /\ DOMAIN Labels = {} /\ DOMAIN OutputLamps = {} /\ Saves = {"FC", "DT", "DP"}
  BY <1>2, UnitsDiffer DEF Flips, Labels, NoOutputs, OutputLamps, Saves
<1>5. PagesFit
  BY <1>2, <1>4 DEF PagesFit
<1> QED BY <1>3, <1>5

LEMMA TablesAreRight == ASSUME ioUnit \in Units PROVE OutputsFit /\ PagesFit
  BY TablesOfA1, TablesOfA2, TablesOfA14, TablesOfBN, TablesOfPlc, TablesOfPR200 DEF Units

(* A write sets bits of its mask only.  A queue settles a bit if the last   *)
(* write of it makes it what the image has.                                *)
GoodQueue(q) == IsQueue(q) /\ \A k \in 1 .. Len(q) : q[k].on \subseteq q[k].mask

Settles(q, im, b) ==
  \E j \in 1 .. Len(q) : /\ b \in q[j].mask /\ (b \in q[j].on <=> b \in im)
                         /\ \A k \in 1 .. Len(q) : k > j => b \notin q[k].mask
Silent(q, b) == \A k \in 1 .. Len(q) : b \notin q[k].mask
Arrives(q, im, outs, b) == Settles(q, im, b) \/ (Silent(q, b) /\ (b \in outs <=> b \in im))

LEMMA QueuesJoined ==
  ASSUME NEW q, GoodQueue(q), NEW r, GoodQueue(r), NEW t, t = q \o r
  PROVE  /\ GoodQueue(t)
         /\ \A im, b : Settles(r, im, b) => Settles(t, im, b)
         /\ \A im, b : Silent(r, b) /\ Settles(q, im, b) => Settles(t, im, b)
         /\ \A b : Silent(r, b) /\ Silent(q, b) => Silent(t, b)
<1>1. /\ IsQueue(t) /\ Len(q) \in Nat /\ Len(r) \in Nat /\ Len(t) = Len(q) + Len(r)
      /\ \A i \in 1 .. Len(q) : t[i] = q[i]
      /\ \A i \in 1 .. Len(r) : t[Len(q) + i] = r[i]
  BY ConcatQueues DEF GoodQueue
<1>2. ASSUME NEW k \in 1 .. Len(t), k > Len(q)
      PROVE  k - Len(q) \in 1 .. Len(r) /\ t[k] = r[k - Len(q)]
  <2>1. k - Len(q) \in 1 .. Len(r) /\ Len(q) + (k - Len(q)) = k
    BY <1>1, <1>2
  <2> QED BY <1>1, <2>1
<1>3. ASSUME NEW k \in 1 .. Len(t), ~(k > Len(q)) PROVE k \in 1 .. Len(q) /\ t[k] = q[k]
  BY <1>1, <1>3
<1>4. GoodQueue(t)
  BY <1>1, <1>2, <1>3 DEF GoodQueue
<1>5. ASSUME NEW im, NEW b, Settles(r, im, b) PROVE Settles(t, im, b)
  <2>1. PICK j \in 1 .. Len(r) : /\ b \in r[j].mask /\ (b \in r[j].on <=> b \in im)
                                 /\ \A k \in 1 .. Len(r) : k > j => b \notin r[k].mask
    BY <1>5 DEF Settles
  <2>2. Len(q) + j \in 1 .. Len(t) /\ t[Len(q) + j] = r[j]
    BY <1>1
  <2>3. ASSUME NEW k \in 1 .. Len(t), k > Len(q) + j PROVE b \notin t[k].mask
    <3>1. k > Len(q) /\ k - Len(q) > j
      BY <1>1, <2>3
    <3> QED BY <1>2, <2>1, <3>1
  <2> QED BY <2>1, <2>2, <2>3 DEF Settles
<1>6. ASSUME NEW im, NEW b, Silent(r, b), Settles(q, im, b) PROVE Settles(t, im, b)
  <2>1. PICK j \in 1 .. Len(q) : /\ b \in q[j].mask /\ (b \in q[j].on <=> b \in im)
                                 /\ \A k \in 1 .. Len(q) : k > j => b \notin q[k].mask
    BY <1>6 DEF Settles
  <2>2. j \in 1 .. Len(t) /\ t[j] = q[j]
    BY <1>1
  <2>3. \A k \in 1 .. Len(t) : k > j => b \notin t[k].mask
    BY <1>2, <1>3, <1>6, <2>1 DEF Silent
  <2> QED BY <2>1, <2>2, <2>3 DEF Settles
<1>7. ASSUME NEW b, Silent(r, b), Silent(q, b) PROVE Silent(t, b)
  BY <1>2, <1>3, <1>7 DEF Silent
<1> QED BY <1>4, <1>5, <1>6, <1>7

LEMMA OneWrite ==
  ASSUME NEW w, NEW im, w.on = w.mask \cap im, NEW r, r = <<w>>
  PROVE  /\ GoodQueue(r)
         /\ \A b \in w.mask : Settles(r, im, b)
         /\ \A b : b \notin w.mask => Silent(r, b)
<1>1. IsQueue(r) /\ Len(r) = 1 /\ r[1] = w
  BY QueueOfOne
<1> QED BY <1>1 DEF GoodQueue, Settles, Silent

LEMMA ThreeWrites ==
  ASSUME NEW im, NEW w0, NEW w1, NEW w2,
         w0 = [mask |-> {0}, on |-> {0} \cap im], w1 = [mask |-> {1}, on |-> {1} \cap im],
         w2 = [mask |-> {2}, on |-> {2} \cap im], NEW r, r = <<w0, w1, w2>>
  PROVE  GoodQueue(r) /\ \A b \in 0..2 : Settles(r, im, b)
<1>1. r \in Seq({w0, w1, w2}) /\ Len(r) = 3 /\ r[1] = w0 /\ r[2] = w1 /\ r[3] = w2
  OBVIOUS
<1>2. \A k \in 1 .. Len(r) : \/ k = 1 /\ r[k] = w0
                             \/ k = 2 /\ r[k] = w1
                             \/ k = 3 /\ r[k] = w2
  <2>1. \A k \in 1 .. 3 : k = 1 \/ k = 2 \/ k = 3
    OBVIOUS
  <2> QED BY <1>1, <2>1
<1>3. /\ w0.mask = {0} /\ w0.on = {0} \cap im /\ w1.mask = {1} /\ w1.on = {1} \cap im
      /\ w2.mask = {2} /\ w2.on = {2} \cap im
  OBVIOUS
<1>4. GoodQueue(r)
  BY <1>1, <1>2, <1>3 DEF GoodQueue, IsQueue
<1>5. Settles(r, im, 0)
  <2>1. 1 \in 1 .. Len(r) /\ \A k \in 1 .. Len(r) : k > 1 => 0 \notin r[k].mask
    BY <1>1, <1>2, <1>3
  <2> QED BY <1>1, <1>3, <2>1 DEF Settles
<1>6. Settles(r, im, 1)
  <2>1. 2 \in 1 .. Len(r) /\ \A k \in 1 .. Len(r) : k > 2 => 1 \notin r[k].mask
    BY <1>1, <1>2, <1>3
  <2> QED BY <1>1, <1>3, <2>1 DEF Settles
<1>7. Settles(r, im, 2)
  <2>1. 3 \in 1 .. Len(r) /\ \A k \in 1 .. Len(r) : k > 3 => 2 \notin r[k].mask
    BY <1>1, <1>2, <1>3
  <2> QED BY <1>1, <1>3, <2>1 DEF Settles
<1>8. \A b \in 0..2 : b = 0 \/ b = 1 \/ b = 2
  OBVIOUS
<1> QED BY <1>4, <1>5, <1>6, <1>7, <1>8

Executed(outs, w) == (outs \ w.mask) \cup w.on

LEMMA FirstWritten ==
  ASSUME NEW q, GoodQueue(q), q # <<>>, NEW outs
  PROVE  /\ GoodQueue(Tail(q))
         /\ \A im, b : Arrives(q, im, outs, b) => Arrives(Tail(q), im, Executed(outs, Head(q)), b)
<1> DEFINE w == Head(q)
           t == Tail(q)
           new == Executed(outs, w)
<1>0. new = (outs \ w.mask) \cup w.on
  BY DEF Executed
<1>1. /\ IsQueue(t) /\ Len(q) \in Nat /\ Len(q) > 0 /\ Len(t) = Len(q) - 1 /\ w = q[1]
      /\ \A i \in 1 .. Len(q) - 1 : t[i] = q[i + 1]
  BY TailQueue DEF GoodQueue
<1> HIDE DEF w, t, new
<1>2. \A k \in 1 .. Len(t) : k + 1 \in 1 .. Len(q) /\ t[k] = q[k + 1]
  BY <1>1
<1>3. GoodQueue(t)
  BY <1>1, <1>2 DEF GoodQueue
<1>4. ASSUME NEW im, NEW b, Settles(q, im, b) PROVE Arrives(t, im, new, b)
  <2>1. PICK j \in 1 .. Len(q) : /\ b \in q[j].mask /\ (b \in q[j].on <=> b \in im)
                                 /\ \A k \in 1 .. Len(q) : k > j => b \notin q[k].mask
    BY <1>4 DEF Settles
  <2>2. CASE j = 1
    <3>1. Silent(t, b)
      BY <1>2, <2>1, <2>2 DEF Silent
    <3>2. b \in new <=> b \in im
      BY <1>0, <1>1, <2>1, <2>2
    <3> QED BY <3>1, <3>2 DEF Arrives
  <2>3. CASE j # 1
    <3>1. j - 1 \in 1 .. Len(q) - 1 /\ (j - 1) + 1 = j
      BY <1>1, <2>3
    <3>2. j - 1 \in 1 .. Len(t) /\ t[j - 1] = q[j]
      BY <1>1, <3>1
    <3>3. \A k \in 1 .. Len(t) : k > j - 1 => b \notin t[k].mask
      BY <1>2, <2>1
    <3> QED BY <2>1, <3>2, <3>3 DEF Arrives, Settles
  <2> QED BY <2>2, <2>3
<1>5. ASSUME NEW im, NEW b, Silent(q, b), b \in outs <=> b \in im PROVE Arrives(t, im, new, b)
  <2>1. Silent(t, b)
    BY <1>2, <1>5 DEF Silent
  <2>2. b \notin w.mask /\ w.on \subseteq w.mask
    BY <1>1, <1>5 DEF Silent, GoodQueue
  <2>3. b \in new <=> b \in im
    BY <1>0, <1>5, <2>2
  <2> QED BY <2>1, <2>3 DEF Arrives
<1>6. GoodQueue(t) /\ \A im, b : Arrives(q, im, outs, b) => Arrives(t, im, new, b)
  BY <1>3, <1>4, <1>5 DEF Arrives
<1> QED BY <1>6 DEF t, new, w

(* What is polled: an item that was read holds the register as long as it   *)
(* did not change, and the port shows it.                                  *)
Levels(l) == IF TwoBits(l) THEN 0..3 ELSE 0..1

PollInv ==
  /\ ioUnit \in Units
  /\ DOMAIN ioItem = watched /\ DOMAIN ioPort = watched /\ DOMAIN ioRegs = watched
  /\ ioFresh \subseteq watched
  /\ \A l \in watched : ioRegs[l] \in Levels(l)
  /\ ~ioOnline => ioFresh = {} /\ \A l \in watched \ ioUnit.kept : ioPort[l] = Empty
  /\ \A l \in watched : ioItem[l] # Empty => ioPort[l] = Published(l, ioItem[l])
  /\ \A l \in ioFresh : ioItem[l] = Register(l)

(* What is written: the image has the outputs asked for, and what is told    *)
(* arrives; the PLC is told again whenever the link is up.                 *)
OutputBit(b) == \E o \in Outputs : b \in On(o) \cup Off(o)

WriteInv ==
  /\ GoodQueue(ioQueue)
  /\ ioTold \in BOOLEAN
  /\ \A o \in Outputs : /\ o \in ioWanted => On(o) \subseteq ioImage /\ Off(o) \cap ioImage = {}
                        /\ o \notin ioWanted => On(o) \cap ioImage = {}
  /\ ioTold \/ (ioUnit = PLC110 /\ ioOnline) =>
        \A b : OutputBit(b) => Arrives(ioQueue, ioImage, ioOuts, b)

IoInv == PollInv /\ WriteInv

LEMMA RegisterIsValue == ASSUME PollInv, NEW l \in watched PROVE Register(l) \in 0..3
<1>1. ioRegs[l] \in 0..3
  BY DEF PollInv, Levels
<1> QED BY <1>1 DEF Register

LEMMA IoInvFollows == IoInv => UnitsFollow
<1> SUFFICES ASSUME IoInv PROVE UnitsFollow
  OBVIOUS
<1>0. OutputsFit
  BY TablesAreRight DEF IoInv, PollInv
<1>1. PortsCurrent
  <2>1. ASSUME NEW l \in ioFresh PROVE ioPort[l] = Published(l, Register(l))
    <3>1. l \in watched /\ ioItem[l] = Register(l)
      BY DEF IoInv, PollInv
    <3>2. Register(l) \in 0..3
      BY <3>1, RegisterIsValue DEF IoInv
    <3>3. ioItem[l] # Empty
      BY <3>1, <3>2 DEF Empty
    <3> QED BY <3>1, <3>3 DEF IoInv, PollInv
  <2> QED BY <2>1 DEF PortsCurrent, IoInv, PollInv
<1>2. ASSUME ioOnline, ioQueue = <<>>, ioTold \/ ioUnit = PLC110, NEW b, OutputBit(b)
      PROVE  b \in ioOuts <=> b \in ioImage
  <2>1. Arrives(ioQueue, ioImage, ioOuts, b)
    BY <1>2 DEF IoInv, WriteInv
  <2>2. ~Settles(ioQueue, ioImage, b)
    <3>1. Len(ioQueue) = 0 /\ 1 .. 0 = {}
      BY <1>2
    <3> QED BY <3>1 DEF Settles
  <2> QED BY <2>1, <2>2 DEF Arrives
<1>3. ASSUME ioOnline, ioQueue = <<>>, ioTold \/ ioUnit = PLC110, NEW o \in Outputs
      PROVE  /\ o \in ioWanted <=> On(o) \subseteq ioOuts
             /\ o \in ioWanted => Off(o) \cap ioOuts = {}
  <2>1. \A b \in On(o) \cup Off(o) : b \in ioOuts <=> b \in ioImage
    BY <1>2, <1>3 DEF OutputBit
  <2>2. On(o) # {}
    BY <1>0 DEF OutputsFit
  <2>3. /\ o \in ioWanted => On(o) \subseteq ioImage /\ Off(o) \cap ioImage = {}
        /\ o \notin ioWanted => On(o) \cap ioImage = {}
    BY DEF IoInv, WriteInv
  <2> QED BY <2>1, <2>2, <2>3
<1>4. OutputsFollow
  BY <1>3 DEF OutputsFollow, On, Off
<1>5. EchoIsCommand
  <2> SUFFICES ASSUME ioOnline, ioQueue = <<>>, ioTold, NEW l \in ioFresh \cap DOMAIN ioUnit.echo
               PROVE  ioPort[l] = IF l \in ioWanted THEN 1 ELSE 0
    BY DEF EchoIsCommand
  <2>1. l \in Outputs /\ ~TwoBits(l) /\ On(l) = {ioUnit.echo[l]}
    BY <1>0 DEF OutputsFit
  <2>2. ioPort[l] = Register(l)
    BY <1>1, <2>1 DEF PortsCurrent, Published
  <2>3. l \in ioWanted <=> ioUnit.echo[l] \in ioOuts
    BY <1>3, <2>1
  <2> QED BY <2>2, <2>3 DEF Register
<1> QED BY <1>1, <1>4, <1>5 DEF UnitsFollow

-----------------------------------------------------------------------------
LEMMA IoInvInit == IoInit => IoInv
<1> SUFFICES ASSUME IoInit PROVE IoInv
  OBVIOUS
<1>1. ioUnit \in Units
  BY DEF IoInit, Units
<1>2. PollInv
  BY <1>1 DEF IoInit, PollInv, Levels, Empty
<1>3. WriteInv
  <2>1. GoodQueue(ioQueue)
    <3>1. <<>> \in Seq({}) /\ Len(<<>>) = 0 /\ 1 .. 0 = {}
      OBVIOUS
    <3>2. ioQueue = <<>>
      BY DEF IoInit
    <3> QED BY <3>1, <3>2 DEF GoodQueue, IsQueue
  <2>2. ioTold = FALSE /\ ioOnline = FALSE /\ ioWanted = {} /\ ioImage = {}
    BY DEF IoInit
  <2> QED BY <2>1, <2>2 DEF WriteInv
<1> QED BY <1>2, <1>3 DEF IoInv

(* What is polled, under a read, a loss of the link, and a change at the   *)
(* unit that takes the lists it is about from those read.                  *)
LEMMA ReadKeeps ==
  ASSUME PollInv, NEW l \in watched, ReadTaskDone(l)
  PROVE  PollInv'
<1>1. Register(l) \in 0..3 /\ Register(l) # Empty
  <2>1. Register(l) \in 0..3
    BY RegisterIsValue
  <2>2. \A v \in 0..3 : v # -1
    OBVIOUS
  <2> QED BY <2>1, <2>2 DEF Empty
<1>2. /\ UNCHANGED <<ioUnit, watched, ioOnline, ioRegs, ioOuts>> /\ ioOnline
      /\ ioFresh' = ioFresh \cup {l} /\ ioItem' = [ioItem EXCEPT ![l] = Register(l)]
      /\ ioPort' = IF ioItem[l] = Register(l) THEN ioPort
                   ELSE [ioPort EXCEPT ![l] = Published(l, Register(l))]
  BY DEF ReadTaskDone
<1>3. \A k, v : Published(k, v)' = Published(k, v) /\ Register(k)' = Register(k) /\ Levels(k)' = Levels(k)
  BY <1>2 DEF Published, TwoBits, Register, Levels
<1>4. /\ ioUnit \in Units /\ DOMAIN ioItem = watched /\ DOMAIN ioPort = watched
      /\ DOMAIN ioRegs = watched /\ ioFresh \subseteq watched
      /\ \A k \in watched : ioRegs[k] \in Levels(k)
      /\ \A k \in watched : ioItem[k] # Empty => ioPort[k] = Published(k, ioItem[k])
      /\ \A k \in ioFresh : ioItem[k] = Register(k)
  BY DEF PollInv
<1>5. DOMAIN ioItem' = watched /\ DOMAIN ioPort' = watched
  BY <1>2, <1>4
<1>6. ioItem'[l] = Register(l) /\ \A k \in watched : k # l => ioItem'[k] = ioItem[k]
  BY <1>2, <1>4
<1>7. ioPort'[l] = Published(l, Register(l)) /\ \A k \in watched : k # l => ioPort'[k] = ioPort[k]
  <2>1. CASE ioItem[l] = Register(l)
    BY <1>1, <1>2, <1>4, <2>1
  <2>2. CASE ioItem[l] # Register(l)
    BY <1>2, <1>4, <2>2
  <2> QED BY <2>1, <2>2
<1>8. /\ \A k \in watched : ioItem'[k] # Empty => ioPort'[k] = Published(k, ioItem'[k])
      /\ \A k \in ioFresh' : ioItem'[k] = Register(k)
  BY <1>2, <1>4, <1>6, <1>7
<1>9. /\ ioUnit' = ioUnit /\ watched' = watched /\ ioOnline' /\ ioRegs' = ioRegs
      /\ ioFresh' \subseteq watched
  BY <1>2, <1>4
<1> HIDE DEF Empty
<1> QED BY <1>3, <1>4, <1>5, <1>8, <1>9 DEF PollInv

LEMMA LossKeeps ==
  ASSUME PollInv, NEW kept, kept \subseteq ioUnit.kept,
         UNCHANGED <<ioUnit, watched, ioRegs>>, ioOnline' = FALSE, ioFresh' = {},
         ioItem' = [l \in watched |-> IF l \in kept THEN ioItem[l] ELSE Empty],
         ioPort' = [l \in watched |-> IF l \in kept THEN ioPort[l] ELSE Empty]
  PROVE  PollInv'
<1>1. \A k, v : Published(k, v)' = Published(k, v) /\ Levels(k)' = Levels(k)
  BY DEF Published, TwoBits, Levels
<1>2. /\ ioUnit \in Units /\ DOMAIN ioRegs = watched
      /\ \A k \in watched : ioRegs[k] \in Levels(k)
      /\ \A k \in watched : ioItem[k] # Empty => ioPort[k] = Published(k, ioItem[k])
  BY DEF PollInv
<1>3. /\ DOMAIN ioItem' = watched /\ DOMAIN ioPort' = watched
      /\ \A k \in watched : ioItem'[k] = (IF k \in kept THEN ioItem[k] ELSE Empty)
      /\ \A k \in watched : ioPort'[k] = (IF k \in kept THEN ioPort[k] ELSE Empty)
  OBVIOUS
<1>4. /\ \A k \in watched : ioItem'[k] # Empty => ioPort'[k] = Published(k, ioItem'[k])
      /\ \A k \in watched \ ioUnit.kept : ioPort'[k] = Empty
  BY <1>2, <1>3
<1> QED BY <1>1, <1>2, <1>3, <1>4 DEF PollInv

LEMMA ItemsKept ==
  ASSUME PollInv, UNCHANGED <<ioUnit, watched, ioItem, ioPort>>,
         ioOnline' = ioOnline \/ ioOnline' = TRUE,
         ioFresh' \subseteq ioFresh, DOMAIN ioRegs' = watched,
         \A l \in watched : ioRegs'[l] \in Levels(l),
         \A l \in ioFresh' : Register(l)' = Register(l)
  PROVE  PollInv'
<1>1. \A k, v : Published(k, v)' = Published(k, v) /\ Levels(k)' = Levels(k)
  BY DEF Published, TwoBits, Levels
<1>2. /\ ioUnit \in Units /\ DOMAIN ioItem = watched /\ DOMAIN ioPort = watched
      /\ ioFresh \subseteq watched
      /\ (~ioOnline => ioFresh = {} /\ \A l \in watched \ ioUnit.kept : ioPort[l] = Empty)
      /\ \A k \in watched : ioItem[k] # Empty => ioPort[k] = Published(k, ioItem[k])
      /\ \A k \in ioFresh : ioItem[k] = Register(k)
  BY DEF PollInv
<1>3. ~ioOnline' => ioFresh' = {} /\ \A l \in watched' \ ioUnit'.kept : ioPort'[l] = Empty
  BY <1>2
<1>4. \A k \in ioFresh' : ioItem'[k] = Register(k)'
  BY <1>2
<1>5. \A k \in watched : ioItem'[k] # Empty => ioPort'[k] = Published(k, ioItem'[k])
  BY <1>2
<1>6. ioUnit' \in Units /\ DOMAIN ioItem' = watched' /\ DOMAIN ioPort' = watched' /\ ioFresh' \subseteq watched'
  BY <1>2
<1>7. DOMAIN ioRegs' = watched' /\ watched' = watched
  OBVIOUS
<1> QED BY <1>1, <1>3, <1>4, <1>5, <1>6, <1>7 DEF PollInv

LEMMA RegisterKept ==
  ASSUME UNCHANGED ioUnit, NEW l, l \in DOMAIN ioUnit.echo => l \notin Changed,
         l \notin DOMAIN ioUnit.echo => ioRegs'[l] = ioRegs[l]
  PROVE  Register(l)' = Register(l)
<1>1. CASE l \in DOMAIN ioUnit.echo
  <2>1. ioUnit.echo[l] \in ioOuts <=> ioUnit.echo[l] \in ioOuts'
    BY <1>1, Zenon DEF Changed
  <2>2. CASE ioUnit.echo[l] \in ioOuts
    BY <1>1, <2>1, <2>2 DEF Register
  <2>3. CASE ioUnit.echo[l] \notin ioOuts
    BY <1>1, <2>1, <2>3 DEF Register
  <2> QED BY <2>2, <2>3
<1>2. CASE l \notin DOMAIN ioUnit.echo
  BY <1>2 DEF Register
<1> QED BY <1>1, <1>2

(* What is written, under each kind of step.                               *)
LEMMA WriteRests ==
  ASSUME WriteInv, UNCHANGED <<ioUnit, ioImage, ioWanted>>,
         \/ UNCHANGED <<ioOnline, ioQueue, ioOuts, ioTold>>
         \/ ~ioOnline' /\ ioTold' = FALSE /\ ioQueue' = ioQueue
         \/ ioTold' = FALSE /\ ioUnit # PLC110 /\ ioQueue' = ioQueue
  PROVE  WriteInv'
<1>1. /\ Outputs' = Outputs
      /\ \A o \in Outputs : On(o)' = On(o) /\ Off(o)' = Off(o)
      /\ \A b : OutputBit(b)' = OutputBit(b)
  BY DEF Outputs, On, Off, OutputBit
<1>2. \/ ioTold' = FALSE /\ (~ioOnline' \/ ioUnit' # PLC110)
      \/ UNCHANGED <<ioOnline, ioQueue, ioOuts, ioTold>>
  OBVIOUS
<1>3. /\ GoodQueue(ioQueue)'
      /\ \A o \in Outputs' : /\ o \in ioWanted' => On(o)' \subseteq ioImage' /\ Off(o)' \cap ioImage' = {}
                             /\ o \notin ioWanted' => On(o)' \cap ioImage' = {}
  BY <1>1 DEF WriteInv
<1>4. CASE ioTold' = FALSE /\ (~ioOnline' \/ ioUnit' # PLC110)
  BY <1>3, <1>4 DEF WriteInv
<1>5. CASE UNCHANGED <<ioOnline, ioQueue, ioOuts, ioTold>>
  BY <1>1, <1>5 DEF WriteInv, GoodQueue, Arrives, Settles, Silent
<1> QED BY <1>2, <1>4, <1>5

LEMMA WriteLost == ASSUME WriteInv, ConnectionLost PROVE WriteInv'
<1>1. /\ UNCHANGED <<ioUnit, ioImage, ioWanted, ioOuts>> /\ ioOnline' = FALSE
      /\ ioQueue' \in {ioQueue, <<>>} /\ ioTold' = (ioTold /\ ioQueue' = ioQueue)
  BY DEF ConnectionLost
<1>2. /\ Outputs' = Outputs
      /\ \A o \in Outputs : On(o)' = On(o) /\ Off(o)' = Off(o)
      /\ \A b : OutputBit(b)' = OutputBit(b)
  BY <1>1 DEF Outputs, On, Off, OutputBit
<1>3. GoodQueue(ioQueue')
  <2>1. <<>> \in Seq({}) /\ Len(<<>>) = 0 /\ 1 .. 0 = {}
    OBVIOUS
  <2>2. GoodQueue(<<>>)
    BY <2>1 DEF GoodQueue, IsQueue
  <2> QED BY <1>1, <2>2 DEF WriteInv
<1>4. \A o \in Outputs' : /\ o \in ioWanted' => On(o)' \subseteq ioImage' /\ Off(o)' \cap ioImage' = {}
                          /\ o \notin ioWanted' => On(o)' \cap ioImage' = {}
  BY <1>1, <1>2 DEF WriteInv
<1>5. ioTold' => \A b : OutputBit(b) => Arrives(ioQueue', ioImage', ioOuts', b)
  BY <1>1 DEF WriteInv
<1>6. ioTold' \in BOOLEAN
  BY <1>1
<1> QED BY <1>1, <1>2, <1>3, <1>4, <1>5, <1>6 DEF WriteInv

LEMMA WriteAgain == ASSUME WriteInv, ioUnit \in Units, UnitOnline PROVE WriteInv'
<1>1. /\ UNCHANGED <<ioUnit, ioImage, ioWanted, ioOuts, ioTold>> /\ ioOnline'
      /\ ioQueue' = ioQueue \o OnlineWrites
  BY DEF UnitOnline
<1>2. /\ Outputs' = Outputs
      /\ \A o \in Outputs : On(o)' = On(o) /\ Off(o)' = Off(o)
      /\ \A b : OutputBit(b)' = OutputBit(b)
  BY <1>1 DEF Outputs, On, Off, OutputBit
<1>3. \A o \in Outputs' : /\ o \in ioWanted' => On(o)' \subseteq ioImage' /\ Off(o)' \cap ioImage' = {}
                          /\ o \notin ioWanted' => On(o)' \cap ioImage' = {}
  BY <1>1, <1>2 DEF WriteInv
<1>4. OutputsFit
  BY TablesAreRight
<1>5. GoodQueue(ioQueue)
  BY DEF WriteInv
<1>6. CASE ioUnit = PLC110
  <2> DEFINE ws == <<Write({0}), Write({1}), Write({2})>>
  <2>1. /\ Write({0}) = [mask |-> {0}, on |-> {0} \cap ioImage]
        /\ Write({1}) = [mask |-> {1}, on |-> {1} \cap ioImage]
        /\ Write({2}) = [mask |-> {2}, on |-> {2} \cap ioImage]
    BY <1>1 DEF Write
  <2>2. ioQueue' = ioQueue \o ws
    BY <1>1, <1>6 DEF OnlineWrites
  <2>3. GoodQueue(ws) /\ \A b \in 0..2 : Settles(ws, ioImage, b)
    BY <2>1, ThreeWrites
  <2> HIDE DEF ws
  <2>4. GoodQueue(ioQueue') /\ \A im, b : Settles(ws, im, b) => Settles(ioQueue', im, b)
    BY <1>5, <2>2, <2>3, QueuesJoined
  <2>5. \A b : OutputBit(b) => b \in 0..2
    BY <1>4, <1>6 DEF OutputBit, OutputsFit
  <2>6. \A b : OutputBit(b) => Arrives(ioQueue', ioImage', ioOuts', b)
    BY <1>1, <2>3, <2>4, <2>5 DEF Arrives
  <2>7. ioTold' \in BOOLEAN
    BY <1>1 DEF WriteInv
  <2> QED BY <1>2, <1>3, <2>4, <2>6, <2>7 DEF WriteInv
<1>7. CASE ioUnit # PLC110
  <2>1. ioQueue' = ioQueue
    BY <1>1, <1>5, <1>7, ConcatOne DEF OnlineWrites, GoodQueue
  <2>2. GoodQueue(ioQueue') /\ ioTold' \in BOOLEAN
    BY <1>1, <1>5, <2>1 DEF WriteInv
  <2>3. ioTold' => \A b : OutputBit(b) => Arrives(ioQueue', ioImage', ioOuts', b)
    BY <1>1, <2>1 DEF WriteInv
  <2>4. ioUnit' # PLC110
    BY <1>1, <1>7
  <2> QED BY <1>2, <1>3, <2>2, <2>3, <2>4 DEF WriteInv
<1> QED BY <1>6, <1>7

LEMMA WriteAsked ==
  ASSUME WriteInv, ioUnit \in Units, NEW o \in Outputs, NEW v \in BOOLEAN, SetOutput(o, v)
  PROVE  WriteInv'
<1> DEFINE mask == IF ioUnit = PLC110 THEN On(o) ELSE 0..7
<1>1. /\ UNCHANGED <<ioUnit, ioOnline, ioOuts>>
      /\ ioWanted' = (IF v THEN ioWanted \cup {o} ELSE ioWanted \ {o})
      /\ ioImage' = (ioImage \ (On(o) \cup Off(o))) \cup (IF v THEN On(o) ELSE Off(o))
      /\ \/ (ioOnline \/ ioUnit # PLC110) /\ ioQueue' = Append(ioQueue, Write(mask)) /\ ioTold' = TRUE
         \/ ~ioOnline /\ ioTold' = FALSE /\ ioQueue' = ioQueue
  BY DEF SetOutput, On, Off
<1>2. /\ Outputs' = Outputs
      /\ \A p \in Outputs : On(p)' = On(p) /\ Off(p)' = Off(p)
      /\ \A b : OutputBit(b)' = OutputBit(b)
  BY <1>1 DEF Outputs, On, Off, OutputBit
<1>3. OutputsFit
  BY TablesAreRight
<1>4. \A p \in Outputs : /\ p \in ioWanted' => On(p) \subseteq ioImage' /\ Off(p) \cap ioImage' = {}
                         /\ p \notin ioWanted' => On(p) \cap ioImage' = {}
  <2> SUFFICES ASSUME NEW p \in Outputs
               PROVE  /\ p \in ioWanted' => On(p) \subseteq ioImage' /\ Off(p) \cap ioImage' = {}
                      /\ p \notin ioWanted' => On(p) \cap ioImage' = {}
    OBVIOUS
  <2>1. /\ p \in ioWanted => On(p) \subseteq ioImage /\ Off(p) \cap ioImage = {}
        /\ p \notin ioWanted => On(p) \cap ioImage = {}
    BY DEF WriteInv
  <2>2. On(p) \cap Off(p) = {}
    BY <1>3 DEF OutputsFit
  <2>3. CASE p = o
    <3>1. CASE v
      BY <1>1, <2>2, <2>3, <3>1
    <3>2. CASE ~v
      BY <1>1, <2>2, <2>3, <3>2
    <3> QED BY <3>1, <3>2
  <2>4. CASE p # o
    <3>1. (On(o) \cup Off(o)) \cap (On(p) \cup Off(p)) = {}
      BY <1>3, <2>4 DEF OutputsFit
    <3>2. p \in ioWanted' <=> p \in ioWanted
      BY <1>1, <2>4
    <3>3. \A b \in On(p) \cup Off(p) : b \in ioImage' <=> b \in ioImage
      BY <1>1, <3>1
    <3> QED BY <2>1, <3>2, <3>3
  <2> QED BY <2>3, <2>4
<1>5. GoodQueue(ioQueue)
  BY DEF WriteInv
<1>6. CASE ~ioOnline /\ ioTold' = FALSE /\ ioQueue' = ioQueue
  <2>1. GoodQueue(ioQueue') /\ ioTold' = FALSE /\ ~ioOnline'
    BY <1>1, <1>5, <1>6
  <2> QED BY <1>2, <1>4, <2>1 DEF WriteInv
<1>7. CASE (ioOnline \/ ioUnit # PLC110) /\ ioQueue' = Append(ioQueue, Write(mask)) /\ ioTold' = TRUE
  <2> DEFINE w == Write(mask)
             ws == <<w>>
  <2>1. w.mask = mask /\ w.on = w.mask \cap ioImage'
    BY DEF Write
  <2>2. ioQueue' = ioQueue \o ws
    BY <1>5, <1>7, ConcatOne DEF GoodQueue
  <2> HIDE DEF w
  <2>3. /\ GoodQueue(ws)
        /\ \A b \in w.mask : Settles(ws, ioImage', b)
        /\ \A b : b \notin w.mask => Silent(ws, b)
    BY <2>1, OneWrite
  <2> HIDE DEF ws
  <2>4. /\ GoodQueue(ioQueue')
        /\ \A im, b : Settles(ws, im, b) => Settles(ioQueue', im, b)
        /\ \A im, b : Silent(ws, b) /\ Settles(ioQueue, im, b) => Settles(ioQueue', im, b)
        /\ \A b : Silent(ws, b) /\ Silent(ioQueue, b) => Silent(ioQueue', b)
    BY <1>5, <2>2, <2>3, QueuesJoined
  <2>5. ASSUME NEW b, OutputBit(b) PROVE Arrives(ioQueue', ioImage', ioOuts', b)
    <3>1. CASE b \in mask
      BY <2>1, <2>3, <2>4, <3>1 DEF Arrives
    <3>2. CASE b \notin mask
      <4>1. ioUnit = PLC110 /\ b \notin On(o)
        <5>1. b \in 0..3
          BY <1>3, <2>5 DEF OutputBit, OutputsFit
        <5>2. b \in 0..7
          BY <5>1
        <5> QED BY <3>2, <5>2
      <4>2. Off(o) = {}
        BY <1>3, <4>1 DEF OutputsFit
      <4>3. b \in ioImage' <=> b \in ioImage
        BY <1>1, <4>1, <4>2
      <4>4. Arrives(ioQueue, ioImage, ioOuts, b)
        BY <1>7, <2>5, <4>1 DEF WriteInv
      <4>5. Silent(ws, b)
        BY <2>1, <2>3, <3>2
      <4>6. CASE Settles(ioQueue, ioImage, b)
        <5>1. Settles(ioQueue, ioImage', b)
          BY <4>3, <4>6 DEF Settles
        <5> QED BY <2>4, <4>5, <5>1 DEF Arrives
      <4>7. CASE Silent(ioQueue, b) /\ (b \in ioOuts <=> b \in ioImage)
        <5>1. Silent(ioQueue', b)
          BY <2>4, <4>5, <4>7
        <5>2. b \in ioOuts' <=> b \in ioImage'
          BY <1>1, <4>3, <4>7
        <5> QED BY <5>1, <5>2 DEF Arrives
      <4> QED BY <4>4, <4>6, <4>7 DEF Arrives
    <3> QED BY <3>1, <3>2
  <2>6. ioTold' \in BOOLEAN
    BY <1>7
  <2> QED BY <1>2, <1>4, <2>4, <2>5, <2>6 DEF WriteInv
<1> QED BY <1>1, <1>6, <1>7

LEMMA WriteDone == ASSUME WriteInv, UnitWrites PROVE WriteInv'
<1>1. /\ UNCHANGED <<ioUnit, ioOnline, ioImage, ioWanted, ioTold>> /\ ioQueue # <<>>
      /\ ioOuts' = (ioOuts \ Head(ioQueue).mask) \cup Head(ioQueue).on
      /\ ioQueue' = Tail(ioQueue)
  BY DEF UnitWrites
<1>2. /\ Outputs' = Outputs
      /\ \A o \in Outputs : On(o)' = On(o) /\ Off(o)' = Off(o)
      /\ \A b : OutputBit(b)' = OutputBit(b)
  BY <1>1 DEF Outputs, On, Off, OutputBit
<1>3. GoodQueue(ioQueue') /\ \A im, b : Arrives(ioQueue, im, ioOuts, b) => Arrives(ioQueue', im, ioOuts', b)
  <2>1. GoodQueue(ioQueue) /\ ioQueue # <<>>
    BY <1>1 DEF WriteInv
  <2>2. ioOuts' = Executed(ioOuts, Head(ioQueue)) /\ ioQueue' = Tail(ioQueue)
    BY <1>1 DEF Executed
  <2> QED BY <2>1, <2>2, FirstWritten
<1>4. ioTold \/ (ioUnit = PLC110 /\ ioOnline) =>
        \A b : OutputBit(b) => Arrives(ioQueue', ioImage, ioOuts', b)
  BY <1>3 DEF WriteInv
<1>5. /\ ioTold \in BOOLEAN
      /\ \A o \in Outputs : /\ o \in ioWanted => On(o) \subseteq ioImage /\ Off(o) \cap ioImage = {}
                            /\ o \notin ioWanted => On(o) \cap ioImage = {}
  BY DEF WriteInv
<1> QED BY <1>1, <1>2, <1>3, <1>4, <1>5 DEF WriteInv

LEMMA RestartKeeps == ASSUME IoInv, ProcessRestart PROVE IoInv'
<1>1. /\ UNCHANGED <<ioUnit, watched, ioRegs>> /\ ioOnline' = FALSE
      /\ ioItem' = [l \in watched |-> Empty] /\ ioPort' = ioItem' /\ ioFresh' = {}
      /\ ioImage' = {} /\ ioWanted' = {} /\ ioQueue' = <<>> /\ ioTold' = FALSE
  BY DEF ProcessRestart
<1>2. PollInv'
  <2> DEFINE kept == {}
  <2>1. /\ kept \subseteq ioUnit.kept
        /\ ioItem' = [l \in watched |-> IF l \in kept THEN ioItem[l] ELSE Empty]
        /\ ioPort' = [l \in watched |-> IF l \in kept THEN ioPort[l] ELSE Empty]
    BY <1>1
  <2>2. PollInv /\ UNCHANGED <<ioUnit, watched, ioRegs>> /\ ioOnline' = FALSE /\ ioFresh' = {}
    BY <1>1 DEF IoInv
  <2> HIDE DEF kept
  <2> QED BY <2>1, <2>2, LossKeeps
<1>3. WriteInv'
  <2>1. <<>> \in Seq({}) /\ Len(<<>>) = 0 /\ 1 .. 0 = {}
    OBVIOUS
  <2>2. GoodQueue(ioQueue')
    BY <1>1, <2>1 DEF GoodQueue, IsQueue
  <2>3. ioTold' = FALSE /\ ioOnline' = FALSE /\ ioWanted' = {} /\ ioImage' = {}
    BY <1>1
  <2> QED BY <2>2, <2>3 DEF WriteInv
<1> QED BY <1>2, <1>3 DEF IoInv

(* The steps of the client, and of the units themselves.                   *)
LEMMA ClientKeeps ==
  ASSUME IoInv,
         \/ \E l \in watched : ReadTaskDone(l)
         \/ \E o \in Outputs, v \in BOOLEAN : SetOutput(o, v)
         \/ ConnectionLost \/ UnitOnline \/ ProcessRestart
  PROVE  IoInv'
<1>0. PollInv /\ WriteInv /\ ioUnit \in Units
  BY DEF IoInv, PollInv
<1>1. ASSUME NEW l \in watched, ReadTaskDone(l) PROVE IoInv'
  <2>1. UNCHANGED <<ioUnit, ioOnline, ioOuts, ioTold, outVars>>
    BY <1>1 DEF ReadTaskDone
  <2>2. PollInv'
    BY <1>0, <1>1, ReadKeeps
  <2>3. WriteInv'
    BY <1>0, <2>1, WriteRests DEF outVars
  <2> QED BY <2>2, <2>3 DEF IoInv
<1>2. ASSUME NEW o \in Outputs, NEW v \in BOOLEAN, SetOutput(o, v) PROVE IoInv'
  <2>1. UNCHANGED <<ioUnit, watched, ioOnline, ioItem, ioPort, ioFresh, ioRegs, ioOuts>>
    BY <1>2 DEF SetOutput, portVars
  <2>2. \A l \in ioFresh' : Register(l)' = Register(l)
    BY <2>1 DEF Register
  <2>3. PollInv'
    BY <1>0, <2>1, <2>2, ItemsKept DEF PollInv
  <2>4. WriteInv'
    BY <1>0, <1>2, WriteAsked
  <2> QED BY <2>3, <2>4 DEF IoInv
<1>3. CASE ConnectionLost
  <2>1. /\ UNCHANGED <<ioUnit, watched, ioRegs>> /\ ioOnline' = FALSE /\ ioFresh' = {}
        /\ ioItem' = [l \in watched |-> IF l \in ioUnit.kept THEN ioItem[l] ELSE Empty]
        /\ ioPort' = [l \in watched |-> IF l \in ioUnit.kept THEN ioPort[l] ELSE Empty]
    BY <1>3 DEF ConnectionLost
  <2>2. PollInv'
    <3> DEFINE kept == ioUnit.kept
    <3>1. kept \subseteq ioUnit.kept
      OBVIOUS
    <3>2. /\ ioItem' = [l \in watched |-> IF l \in kept THEN ioItem[l] ELSE Empty]
          /\ ioPort' = [l \in watched |-> IF l \in kept THEN ioPort[l] ELSE Empty]
      BY <2>1
    <3> HIDE DEF kept
    <3> QED BY <1>0, <2>1, <3>1, <3>2, LossKeeps
  <2>3. WriteInv'
    BY <1>0, <1>3, WriteLost
  <2> QED BY <2>2, <2>3 DEF IoInv
<1>4. CASE UnitOnline
  <2>1. UNCHANGED <<ioUnit, watched, ioItem, ioPort, ioFresh, ioRegs, ioOuts>> /\ ioOnline' = TRUE
    BY <1>4 DEF UnitOnline, portVars
  <2>2. \A l \in ioFresh' : Register(l)' = Register(l)
    BY <2>1 DEF Register
  <2>3. PollInv'
    BY <1>0, <2>1, <2>2, ItemsKept DEF PollInv
  <2>4. WriteInv'
    BY <1>0, <1>4, WriteAgain
  <2> QED BY <2>3, <2>4 DEF IoInv
<1>5. CASE ProcessRestart
  BY <1>5, RestartKeeps
<1> QED BY <1>1, <1>2, <1>3, <1>4, <1>5

LEMMA UnitKeeps == ASSUME IoInv, UnitWrites PROVE IoInv'
<1>0. PollInv /\ WriteInv
  BY DEF IoInv
<1>1. /\ UNCHANGED <<ioUnit, watched, ioOnline, ioItem, ioPort, ioRegs>>
      /\ ioFresh' = ioFresh \ Changed
  BY DEF UnitWrites
<1>2. \A l \in ioFresh' : Register(l)' = Register(l)
  <2> SUFFICES ASSUME NEW l \in ioFresh' PROVE Register(l)' = Register(l)
    OBVIOUS
  <2>1. l \notin Changed /\ ioRegs'[l] = ioRegs[l]
    BY <1>1
  <2> QED BY <1>1, <2>1, RegisterKept
<1>3. PollInv'
  BY <1>0, <1>1, <1>2, ItemsKept DEF PollInv
<1>4. WriteInv'
  BY <1>0, WriteDone
<1> QED BY <1>3, <1>4 DEF IoInv

(* What the unit measures changes, and no output.                          *)
LEMMA InputKeeps ==
  ASSUME IoInv, UNCHANGED <<ioUnit, watched, ioOnline, ioItem, ioPort, outVars, ioOuts, ioTold>>,
         NEW T, ioFresh' = ioFresh \ T,
         DOMAIN ioRegs' = watched, \A l \in watched : ioRegs'[l] \in Levels(l),
         \A l \in watched : ioRegs'[l] = ioRegs[l] \/ l \in T
  PROVE  IoInv'
<1>0. PollInv /\ WriteInv /\ ioFresh \subseteq watched
  BY DEF IoInv, PollInv
<1>1. UNCHANGED <<ioUnit, watched, ioOnline, ioItem, ioPort, ioImage, ioWanted, ioQueue, ioOuts, ioTold>>
  BY DEF outVars
<1>2. Changed = {}
  BY <1>1 DEF Changed
<1>3. \A l \in ioFresh' : Register(l)' = Register(l)
  <2> SUFFICES ASSUME NEW l \in ioFresh' PROVE Register(l)' = Register(l)
    OBVIOUS
  <2>1. ioRegs'[l] = ioRegs[l]
    BY <1>0
  <2> QED BY <1>1, <1>2, <2>1, RegisterKept
<1>4. PollInv'
  BY <1>0, <1>1, <1>3, ItemsKept
<1>5. WriteInv'
  BY <1>0, <1>1, WriteRests
<1> QED BY <1>4, <1>5 DEF IoInv

LEMMA IoInvStep == ASSUME IoInv, [IoNext]_ioVars PROVE IoInv'
<1>0. PollInv /\ WriteInv /\ ioFresh \subseteq watched /\ (~ioOnline => ioFresh = {})
  BY DEF IoInv, PollInv
<1>1. ASSUME NEW l \in watched, UnitMeasures(l) PROVE IoInv'
  <2> DEFINE new == IF ~TwoBits(l) THEN 1 - ioRegs[l]
                    ELSE IF ioRegs[l] # 0 THEN 0
                    ELSE IF 1 \in ioOuts THEN 2 ELSE IF 2 \in ioOuts THEN 1 ELSE 0
             T == {l}
  <2>1. /\ UNCHANGED <<ioUnit, watched, ioOnline, ioItem, ioPort, outVars, ioOuts, ioTold>>
        /\ ioFresh' = ioFresh \ T /\ ioRegs' = [ioRegs EXCEPT ![l] = new]
    BY <1>1 DEF UnitMeasures
  <2>2. new \in Levels(l)
    <3>1. CASE TwoBits(l)
      BY <3>1 DEF Levels
    <3>2. CASE ~TwoBits(l)
      <4>1. ioRegs[l] \in 0..1
        BY <1>0, <3>2 DEF PollInv, Levels
      <4> QED BY <3>2, <4>1 DEF Levels
    <3> QED BY <3>1, <3>2
  <2>3. DOMAIN ioRegs = watched /\ \A k \in watched : ioRegs[k] \in Levels(k)
    BY <1>0 DEF PollInv
  <2>4. /\ DOMAIN ioRegs' = watched
        /\ \A k \in watched : ioRegs'[k] = IF k = l THEN new ELSE ioRegs[k]
    BY <2>1, <2>3
  <2> HIDE DEF new
  <2>5. \A k \in watched : ioRegs'[k] \in Levels(k) /\ (ioRegs'[k] = ioRegs[k] \/ k \in T)
    BY <2>2, <2>3, <2>4
  <2> HIDE DEF T
  <2> QED BY <2>1, <2>4, <2>5, InputKeeps
<1>2. ASSUME \/ \E l \in watched : ReadTaskDone(l)
             \/ \E o \in Outputs, v \in BOOLEAN : SetOutput(o, v)
             \/ ConnectionLost \/ UnitOnline \/ ProcessRestart
      PROVE  IoInv'
  BY <1>2, ClientKeeps
<1>3. CASE UnitWrites
  BY <1>3, UnitKeeps
<1>4. CASE UnitOff
  <2>1. /\ UNCHANGED <<ioUnit, watched, ioOnline, ioItem, ioPort, ioFresh, ioRegs, ioImage, ioWanted, ioQueue>>
        /\ ~ioOnline /\ ioTold' = FALSE
    BY <1>4 DEF UnitOff, portVars, outVars
  <2>2. PollInv'
    BY <1>0, <2>1, ItemsKept DEF PollInv
  <2>3. WriteInv'
    BY <1>0, <2>1, WriteRests
  <2> QED BY <2>2, <2>3 DEF IoInv
<1>5. CASE UNCHANGED ioVars
  <2>1. UNCHANGED <<ioUnit, watched, ioOnline, ioItem, ioPort, ioFresh, ioRegs, ioImage, ioWanted, ioQueue, ioOuts, ioTold>>
    BY <1>5 DEF ioVars, portVars, outVars
  <2>2. \A l \in ioFresh' : Register(l)' = Register(l)
    BY <2>1 DEF Register
  <2>3. PollInv'
    BY <1>0, <2>1, <2>2, ItemsKept DEF PollInv
  <2>4. WriteInv'
    BY <1>0, <2>1, WriteRests
  <2> QED BY <2>3, <2>4 DEF IoInv
<1> QED BY <1>1, <1>2, <1>3, <1>4, <1>5 DEF IoNext

(* The I/O units, whichever of them and whatever lists of it are followed:  *)
(* what is polled and what is written follow the unit and the client.      *)
THEOREM UnitsAlwaysFollow == IoSpec => []UnitsFollow
<1>1. IoInit => IoInv
  BY IoInvInit
<1>2. IoInv /\ [IoNext]_ioVars => IoInv'
  BY IoInvStep
<1> QED BY <1>1, <1>2, IoInvFollows, PTL DEF IoSpec

-----------------------------------------------------------------------------
(* The emulator: its pages show the registers, and what it has saved is     *)
(* what it has loaded.                                                     *)
SavesFit ==
  /\ DOMAIN emuSaved = watched
  /\ \A l \in watched : emuSaved[l] \in Levels(l)

EmuInv == PagesShowRegisters /\ SavedIsKept /\ SavesFit

LEMMA SamePages ==
  ASSUME UNCHANGED <<ioUnit, watched>>
  PROVE  /\ OutputLamps' = OutputLamps /\ Labels' = Labels /\ Flips' = Flips /\ Saves' = Saves
         /\ \A v : Buttons(v)' = Buttons(v)
         /\ \A l : Levels(l)' = Levels(l)
<1>1. OutputLamps' = OutputLamps /\ Labels' = Labels /\ Flips' = Flips /\ Saves' = Saves
  BY DEF OutputLamps, Labels, Flips, Saves, Outputs
<1>2. \A v : Buttons(v)' = Buttons(v)
  BY DEF Buttons
<1>3. \A l : Levels(l)' = Levels(l)
  BY DEF Levels, TwoBits
<1> QED BY <1>1, <1>2, <1>3

LEMMA EmuInvInit == ASSUME IoInit, PagesBlank, ioOuts = {} PROVE EmuInv
<1>1. /\ emuLoaded = FALSE /\ emuSaved = [l \in watched |-> 0] /\ emuShown = {}
      /\ ioRegs = [l \in watched |-> 0]
  BY DEF IoInit, PagesBlank, Fresh
<1>2. Buttons(0) = {}
  BY DEF Buttons, ValveButtons
<1>3. PagesShowRegisters
  BY <1>1, <1>2 DEF PagesShowRegisters
<1>4. SavedIsKept /\ SavesFit
  BY <1>1 DEF SavedIsKept, SavesFit, Levels
<1> QED BY <1>3, <1>4 DEF EmuInv

(* The pages after a step that leaves them, and after one of the outputs.   *)
LEMMA PagesRest ==
  ASSUME EmuInv, UNCHANGED <<ioUnit, watched, ioOuts, ioRegs, emuLoaded, emuSaved, emuShown>>
  PROVE  EmuInv'
<1>1. EmuInv
  OBVIOUS
<1>2. PagesShowRegisters'
  BY SamePages DEF EmuInv, PagesShowRegisters
<1>3. SavedIsKept' /\ SavesFit'
  BY SamePages DEF EmuInv, SavedIsKept, SavesFit
<1> QED BY <1>2, <1>3 DEF EmuInv

LEMMA PagesNotified ==
  ASSUME EmuInv, ioUnit \in Units, UNCHANGED <<ioUnit, watched, ioRegs, emuLoaded, emuSaved>>,
         Changes(ioOuts')
  PROVE  EmuInv'
<1>0. PagesFit
  BY TablesAreRight
<1>1. SavedIsKept' /\ SavesFit'
  BY SamePages DEF EmuInv, SavedIsKept, SavesFit
<1>2. CASE ioOuts' = ioOuts
  <2>1. emuShown' = emuShown
    BY <1>2 DEF Changes
  <2> QED BY <1>2, <2>1, PagesRest
<1>3. CASE ioOuts' # ioOuts
  <2>1. emuShown' = (emuShown \ (DOMAIN OutputLamps \cup DOMAIN Labels))
            \cup {o \in DOMAIN OutputLamps : OutputLamps[o] \in ioOuts'}
            \cup {l \in DOMAIN Labels : Labels[l] \in ioOuts'}
    BY <1>3 DEF Changes, Notified
  <2>2. /\ DOMAIN OutputLamps \cap DOMAIN Labels = {}
        /\ {"l", "r"} \cap (DOMAIN OutputLamps \cup DOMAIN Labels \cup Flips) = {}
        /\ Flips \cap DOMAIN Labels = {}
    BY <1>0 DEF PagesFit
  <2>3. \A o \in DOMAIN OutputLamps : o \in emuShown' <=> OutputLamps[o] \in ioOuts'
    BY <2>1, <2>2
  <2>4. \A l \in DOMAIN Labels : l \in emuShown' <=> Labels[l] \in ioOuts'
    BY <2>1, <2>2
  <2>5. \A l \in (Flips \cap watched) \ DOMAIN OutputLamps : l \in emuShown' <=> l \in emuShown
    BY <2>1, <2>2
  <2>6. emuShown' \cap {"l", "r"} = emuShown \cap {"l", "r"}
    BY <2>1, <2>2
  <2>7. PagesShowRegisters
    BY DEF EmuInv
  <2>8. PagesShowRegisters'
    BY <2>3, <2>4, <2>5, <2>6, <2>7, SamePages DEF PagesShowRegisters
  <2> QED BY <1>1, <2>8 DEF EmuInv
<1> QED BY <1>2, <1>3

BitIs(n, bit) == (n \div bit) % 2 = 1
Flipped(n, bit) == IF BitIs(n, bit) THEN n - bit ELSE n + bit
SavedBit(n, bit, on) == n + bit * ((IF on THEN 1 ELSE 0) - ((n \div bit) % 2))

LEMMA FeedbackFlipped ==
  ASSUME NEW x \in 0..3, NEW bit \in {1, 2}
  PROVE  /\ Flipped(x, bit) \in 0..3
         /\ Flipped(x, bit) = SavedBit(x, bit, BitIs(Flipped(x, bit), bit))
         /\ bit = 1 => /\ BitIs(Flipped(x, bit), bit) <=> Flipped(x, bit) \in {1, 3}
                       /\ Flipped(x, bit) \in {2, 3} <=> x \in {2, 3}
         /\ bit = 2 => /\ BitIs(Flipped(x, bit), bit) <=> Flipped(x, bit) \in {2, 3}
                       /\ Flipped(x, bit) \in {1, 3} <=> x \in {1, 3}
<1> DEFINE y == Flipped(x, bit)
<1>1. x = 0 \/ x = 1 \/ x = 2 \/ x = 3
  OBVIOUS
<1>2. CASE bit = 1
  <2>1. CASE x = 0
    <3>1. (x \div bit) % 2 = 0 /\ (BitIs(x, bit) <=> 0 = 1)
      BY <1>2, <2>1 DEF BitIs
    <3>2. y = 1
      BY <1>2, <2>1, <3>1 DEF Flipped
    <3>3. BitIs(y, bit) <=> 1 = 1
      BY <1>2, <3>2 DEF BitIs
    <3>4. SavedBit(x, bit, BitIs(y, bit)) = 1
      <4> HIDE DEF y
      <4> QED BY <1>2, <2>1, <3>1, <3>3 DEF SavedBit
    <3> QED BY <1>2, <2>1, <3>2, <3>3, <3>4
  <2>2. CASE x = 1
    <3>1. (x \div bit) % 2 = 1 /\ (BitIs(x, bit) <=> 1 = 1)
      BY <1>2, <2>2 DEF BitIs
    <3>2. y = 0
      BY <1>2, <2>2, <3>1 DEF Flipped
    <3>3. BitIs(y, bit) <=> 0 = 1
      BY <1>2, <3>2 DEF BitIs
    <3>4. SavedBit(x, bit, BitIs(y, bit)) = 0
      <4> HIDE DEF y
      <4> QED BY <1>2, <2>2, <3>1, <3>3 DEF SavedBit
    <3> QED BY <1>2, <2>2, <3>2, <3>3, <3>4
  <2>3. CASE x = 2
    <3>1. (x \div bit) % 2 = 0 /\ (BitIs(x, bit) <=> 0 = 1)
      BY <1>2, <2>3 DEF BitIs
    <3>2. y = 3
      BY <1>2, <2>3, <3>1 DEF Flipped
    <3>3. BitIs(y, bit) <=> 1 = 1
      BY <1>2, <3>2 DEF BitIs
    <3>4. SavedBit(x, bit, BitIs(y, bit)) = 3
      <4> HIDE DEF y
      <4> QED BY <1>2, <2>3, <3>1, <3>3 DEF SavedBit
    <3> QED BY <1>2, <2>3, <3>2, <3>3, <3>4
  <2>4. CASE x = 3
    <3>1. (x \div bit) % 2 = 1 /\ (BitIs(x, bit) <=> 1 = 1)
      BY <1>2, <2>4 DEF BitIs
    <3>2. y = 2
      BY <1>2, <2>4, <3>1 DEF Flipped
    <3>3. BitIs(y, bit) <=> 0 = 1
      BY <1>2, <3>2 DEF BitIs
    <3>4. SavedBit(x, bit, BitIs(y, bit)) = 2
      <4> HIDE DEF y
      <4> QED BY <1>2, <2>4, <3>1, <3>3 DEF SavedBit
    <3> QED BY <1>2, <2>4, <3>2, <3>3, <3>4
  <2> QED BY <1>1, <2>1, <2>2, <2>3, <2>4
<1>3. CASE bit = 2
  <2>1. CASE x = 0
    <3>1. (x \div bit) % 2 = 0 /\ (BitIs(x, bit) <=> 0 = 1)
      BY <1>3, <2>1 DEF BitIs
    <3>2. y = 2
      BY <1>3, <2>1, <3>1 DEF Flipped
    <3>3. BitIs(y, bit) <=> 1 = 1
      BY <1>3, <3>2 DEF BitIs
    <3>4. SavedBit(x, bit, BitIs(y, bit)) = 2
      <4> HIDE DEF y
      <4> QED BY <1>3, <2>1, <3>1, <3>3 DEF SavedBit
    <3> QED BY <1>3, <2>1, <3>2, <3>3, <3>4
  <2>2. CASE x = 1
    <3>1. (x \div bit) % 2 = 0 /\ (BitIs(x, bit) <=> 0 = 1)
      BY <1>3, <2>2 DEF BitIs
    <3>2. y = 3
      BY <1>3, <2>2, <3>1 DEF Flipped
    <3>3. BitIs(y, bit) <=> 1 = 1
      BY <1>3, <3>2 DEF BitIs
    <3>4. SavedBit(x, bit, BitIs(y, bit)) = 3
      <4> HIDE DEF y
      <4> QED BY <1>3, <2>2, <3>1, <3>3 DEF SavedBit
    <3> QED BY <1>3, <2>2, <3>2, <3>3, <3>4
  <2>3. CASE x = 2
    <3>1. (x \div bit) % 2 = 1 /\ (BitIs(x, bit) <=> 1 = 1)
      BY <1>3, <2>3 DEF BitIs
    <3>2. y = 0
      BY <1>3, <2>3, <3>1 DEF Flipped
    <3>3. BitIs(y, bit) <=> 0 = 1
      BY <1>3, <3>2 DEF BitIs
    <3>4. SavedBit(x, bit, BitIs(y, bit)) = 0
      <4> HIDE DEF y
      <4> QED BY <1>3, <2>3, <3>1, <3>3 DEF SavedBit
    <3> QED BY <1>3, <2>3, <3>2, <3>3, <3>4
  <2>4. CASE x = 3
    <3>1. (x \div bit) % 2 = 1 /\ (BitIs(x, bit) <=> 1 = 1)
      BY <1>3, <2>4 DEF BitIs
    <3>2. y = 1
      BY <1>3, <2>4, <3>1 DEF Flipped
    <3>3. BitIs(y, bit) <=> 0 = 1
      BY <1>3, <3>2 DEF BitIs
    <3>4. SavedBit(x, bit, BitIs(y, bit)) = 1
      <4> HIDE DEF y
      <4> QED BY <1>3, <2>4, <3>1, <3>3 DEF SavedBit
    <3> QED BY <1>3, <2>4, <3>2, <3>3, <3>4
  <2> QED BY <1>1, <2>1, <2>2, <2>3, <2>4
<1> QED BY <1>2, <1>3

LEMMA InputIsSet ==
  ASSUME IoInv, EmuInv, NEW l \in watched, NEW v \in 0..1, SetInput(l, v)
  PROVE  IoInv' /\ EmuInv'
<1>0. /\ ioUnit \in Units /\ DOMAIN ioRegs = watched /\ \A k \in watched : ioRegs[k] \in Levels(k)
      /\ PagesFit
  BY TablesAreRight DEF IoInv, PollInv
<1> DEFINE T == {l}
<1>1. /\ l \notin DOMAIN ioUnit.echo /\ ~TwoBits(l)
      /\ UNCHANGED <<ioUnit, watched, ioOnline, ioItem, ioPort, outVars, ioOuts, ioTold, emuLoaded>>
      /\ ioFresh' = ioFresh \ T /\ ioRegs' = [ioRegs EXCEPT ![l] = v]
      /\ emuShown' = (IF l \notin Flips THEN emuShown
                      ELSE IF v = 1 THEN emuShown \cup {l} ELSE emuShown \ {l})
      /\ emuSaved' = IF l \in Saves THEN [emuSaved EXCEPT ![l] = v] ELSE emuSaved
  BY DEF SetInput
<1>2. /\ DOMAIN ioRegs' = watched /\ ioRegs'[l] = v
      /\ \A k \in watched : k # l => ioRegs'[k] = ioRegs[k]
  BY <1>0, <1>1
<1>3. v \in Levels(l)
  BY <1>1 DEF Levels
<1>4. IoInv'
  <2>1. \A k \in watched : ioRegs'[k] \in Levels(k) /\ (ioRegs'[k] = ioRegs[k] \/ k \in T)
    BY <1>0, <1>2, <1>3
  <2> HIDE DEF T
  <2> QED BY <1>1, <1>2, <2>1, InputKeeps
<1>5. /\ DOMAIN emuSaved = watched /\ \A k \in watched : emuSaved[k] \in Levels(k)
      /\ emuLoaded => \A k \in Saves \cap watched : ioRegs[k] = emuSaved[k]
  BY DEF EmuInv, SavedIsKept, SavesFit
<1>6. /\ DOMAIN emuSaved' = watched /\ (l \in Saves => emuSaved'[l] = v)
      /\ l \notin Saves => emuSaved'[l] = emuSaved[l]
      /\ \A k \in watched : k # l => emuSaved'[k] = emuSaved[k]
  <2>1. CASE l \in Saves
    BY <1>1, <1>5, <2>1
  <2>2. CASE l \notin Saves
    BY <1>1, <1>5, <2>2
  <2> QED BY <2>1, <2>2
<1>7. SavesFit'
  <2>1. \A k \in watched : emuSaved'[k] \in Levels(k)
    BY <1>3, <1>5, <1>6
  <2> QED BY <1>1, <1>6, <2>1, SamePages DEF SavesFit
<1>8. SavedIsKept'
  <2>1. emuLoaded => \A k \in Saves \cap watched : ioRegs'[k] = emuSaved'[k]
    BY <1>2, <1>5, <1>6
  <2> QED BY <1>1, <2>1, SamePages DEF SavedIsKept
<1>9. /\ DOMAIN OutputLamps \cap DOMAIN Labels = {}
      /\ {"l", "r"} \cap (DOMAIN OutputLamps \cup DOMAIN Labels \cup Flips) = {}
      /\ Flips \cap DOMAIN Labels = {}
      /\ l \in Flips => l \notin DOMAIN OutputLamps
      /\ TwoBits("VA") => "VA" \notin Flips
  BY <1>0, <1>1 DEF PagesFit
<1>10. /\ \A k : k # l => (k \in emuShown' <=> k \in emuShown)
       /\ l \notin Flips => (l \in emuShown' <=> l \in emuShown)
       /\ l \in Flips => (l \in emuShown' <=> v = 1)
  BY <1>1
<1>11. /\ \A o \in DOMAIN OutputLamps : o \in emuShown <=> OutputLamps[o] \in ioOuts
       /\ \A k \in DOMAIN Labels : k \in emuShown <=> Labels[k] \in ioOuts
       /\ \A k \in (Flips \cap watched) \ DOMAIN OutputLamps : k \in emuShown <=> ioRegs[k] = 1
       /\ "VA" \in watched => emuShown \cap {"l", "r"} = Buttons(ioRegs["VA"])
  BY DEF EmuInv, PagesShowRegisters
<1>12. /\ \A o \in DOMAIN OutputLamps : o \in emuShown' <=> OutputLamps[o] \in ioOuts
       /\ \A k \in DOMAIN Labels : k \in emuShown' <=> Labels[k] \in ioOuts
  BY <1>9, <1>10, <1>11
<1>13. \A k \in (Flips \cap watched) \ DOMAIN OutputLamps : k \in emuShown' <=> ioRegs'[k] = 1
  BY <1>2, <1>10, <1>11
<1>14. "VA" \in watched => emuShown' \cap {"l", "r"} = Buttons(ioRegs'["VA"])
  <2> SUFFICES ASSUME "VA" \in watched PROVE emuShown' \cap {"l", "r"} = Buttons(ioRegs'["VA"])
    OBVIOUS
  <2>1. emuShown' \cap {"l", "r"} = emuShown \cap {"l", "r"}
    BY <1>9, <1>10
  <2>2. CASE l = "VA"
    <3>1. \A k : Buttons(k) = {}
      BY <1>1, <2>2 DEF Buttons, TwoBits
    <3> QED BY <1>11, <2>1, <3>1
  <2>3. CASE l # "VA"
    BY <1>2, <1>11, <2>1, <2>3
  <2> QED BY <2>2, <2>3
<1>15. PagesShowRegisters'
  BY <1>1, <1>12, <1>13, <1>14, SamePages DEF PagesShowRegisters
<1> QED BY <1>4, <1>7, <1>8, <1>15 DEF EmuInv

LEMMA FeedbackIsSet ==
  ASSUME IoInv, EmuInv, emuLoaded, NEW bit \in {1, 2}, FlipFeedback(bit)
  PROVE  IoInv' /\ EmuInv'
<1>0. /\ ioUnit \in Units /\ DOMAIN ioRegs = watched /\ \A k \in watched : ioRegs[k] \in Levels(k)
      /\ PagesFit /\ "VA" \in watched /\ TwoBits("VA") /\ ioUnit = PR205_A14
  BY TablesAreRight DEF IoInv, PollInv, FlipFeedback, TwoBits
<1> DEFINE T == {"VA"}
           x == ioRegs["VA"]
           y == Flipped(x, bit)
           on == BitIs(y, bit)
           lamp == IF bit = 1 THEN "l" ELSE "r"
           z == SavedBit(emuSaved["VA"], bit, on)
<1>1. /\ UNCHANGED <<ioUnit, watched, ioOnline, ioItem, ioPort, outVars, ioOuts, ioTold, emuLoaded>>
      /\ ioFresh' = ioFresh \ T /\ ioRegs' = [ioRegs EXCEPT !["VA"] = y]
  BY DEF FlipFeedback, Flipped, BitIs
<1>2. /\ DOMAIN ioRegs' = watched /\ ioRegs'["VA"] = y
      /\ \A k \in watched : k # "VA" => ioRegs'[k] = ioRegs[k]
  BY <1>0, <1>1
<1>3. /\ emuShown' = (IF on THEN emuShown \cup {lamp} ELSE emuShown \ {lamp})
      /\ emuSaved' = [emuSaved EXCEPT !["VA"] = z]
  BY <1>2 DEF FlipFeedback, BitIs, SavedBit
<1>4. x \in 0..3 /\ "VA" \in Saves /\ x = emuSaved["VA"]
  BY <1>0 DEF Levels, PagesFit, EmuInv, SavedIsKept
<1>5. /\ y \in 0..3 /\ y = z
      /\ bit = 1 => (on <=> y \in {1, 3}) /\ (y \in {2, 3} <=> x \in {2, 3})
      /\ bit = 2 => (on <=> y \in {2, 3}) /\ (y \in {1, 3} <=> x \in {1, 3})
  BY <1>4, FeedbackFlipped
<1> HIDE DEF z, on, y, x
<1>6. IoInv'
  <2>1. \A k \in watched : ioRegs'[k] \in Levels(k) /\ (ioRegs'[k] = ioRegs[k] \/ k \in T)
    BY <1>0, <1>2, <1>5 DEF Levels
  <2> HIDE DEF T
  <2> QED BY <1>1, <1>2, <2>1, InputKeeps
<1>7. /\ DOMAIN emuSaved = watched /\ \A k \in watched : emuSaved[k] \in Levels(k)
      /\ \A k \in Saves \cap watched : ioRegs[k] = emuSaved[k]
  BY DEF EmuInv, SavedIsKept, SavesFit
<1>8. /\ DOMAIN emuSaved' = watched /\ emuSaved'["VA"] = y
      /\ \A k \in watched : k # "VA" => emuSaved'[k] = emuSaved[k]
  BY <1>0, <1>3, <1>5, <1>7
<1>9. SavesFit'
  <2>1. \A k \in watched : emuSaved'[k] \in Levels(k)
    BY <1>0, <1>5, <1>7, <1>8 DEF Levels
  <2> QED BY <1>1, <1>8, <2>1, SamePages DEF SavesFit
<1>10. SavedIsKept'
  <2>1. \A k \in Saves \cap watched : ioRegs'[k] = emuSaved'[k]
    BY <1>2, <1>7, <1>8
  <2> QED BY <1>1, <2>1, SamePages DEF SavedIsKept
<1>11. /\ {"l", "r"} \cap (DOMAIN OutputLamps \cup DOMAIN Labels \cup Flips) = {}
       /\ "VA" \notin Flips
  BY <1>0 DEF PagesFit
<1>12. /\ \A o \in DOMAIN OutputLamps : o \in emuShown <=> OutputLamps[o] \in ioOuts
       /\ \A k \in DOMAIN Labels : k \in emuShown <=> Labels[k] \in ioOuts
       /\ \A k \in (Flips \cap watched) \ DOMAIN OutputLamps : k \in emuShown <=> ioRegs[k] = 1
       /\ emuShown \cap {"l", "r"} = Buttons(x)
  BY <1>0 DEF EmuInv, PagesShowRegisters, x
<1>13. \A k : k \notin {"l", "r"} => (k \in emuShown' <=> k \in emuShown)
  BY <1>3
<1>14. /\ \A o \in DOMAIN OutputLamps : o \in emuShown' <=> OutputLamps[o] \in ioOuts
       /\ \A k \in DOMAIN Labels : k \in emuShown' <=> Labels[k] \in ioOuts
       /\ \A k \in (Flips \cap watched) \ DOMAIN OutputLamps : k \in emuShown' <=> ioRegs'[k] = 1
  BY <1>2, <1>11, <1>12, <1>13
<1>15. emuShown' \cap {"l", "r"} = Buttons(y)
  <2>1. /\ \A v : Buttons(v) = (IF v \in {1, 3} THEN {"l"} ELSE {}) \cup (IF v \in {2, 3} THEN {"r"} ELSE {})
    BY <1>0 DEF Buttons, ValveButtons
  <2>2. ("l" \in emuShown <=> x \in {1, 3}) /\ ("r" \in emuShown <=> x \in {2, 3})
    BY <1>12, <2>1
  <2>3. CASE bit = 1
    <3>1. lamp = "l"
      BY <2>3
    <3>2. ("l" \in emuShown' <=> y \in {1, 3}) /\ ("r" \in emuShown' <=> y \in {2, 3})
      BY <1>3, <1>5, <2>2, <2>3, <3>1
    <3> QED BY <2>1, <3>2
  <2>4. CASE bit = 2
    <3>1. lamp = "r"
      BY <2>4
    <3>2. ("l" \in emuShown' <=> y \in {1, 3}) /\ ("r" \in emuShown' <=> y \in {2, 3})
      BY <1>3, <1>5, <2>2, <2>4, <3>1
    <3> QED BY <2>1, <3>2
  <2> QED BY <2>3, <2>4
<1>16. PagesShowRegisters'
  BY <1>1, <1>2, <1>14, <1>15, SamePages DEF PagesShowRegisters
<1> QED BY <1>6, <1>9, <1>10, <1>16 DEF EmuInv

LEMMA LoadKeeps == ASSUME IoInv, EmuInv, EmuLoads PROVE IoInv' /\ EmuInv'
<1>0. /\ ioUnit \in Units /\ DOMAIN ioRegs = watched /\ \A k \in watched : ioRegs[k] \in Levels(k)
      /\ PagesFit
  BY TablesAreRight DEF IoInv, PollInv
<1>1. /\ UNCHANGED <<ioUnit, watched, ioOnline, ioItem, ioPort, outVars, ioOuts, ioTold, emuSaved>>
      /\ ioFresh' = ioFresh \ Saves
      /\ ioRegs' = [k \in watched |-> IF k \in Saves THEN emuSaved[k] ELSE ioRegs[k]]
      /\ emuShown' = (emuShown \ {"l", "r"}) \cup
             Buttons(IF "VA" \in watched THEN emuSaved["VA"] ELSE 0)
  BY DEF EmuLoads
<1>2. DOMAIN emuSaved = watched /\ \A k \in watched : emuSaved[k] \in Levels(k)
  BY DEF EmuInv, SavesFit
<1>3. /\ DOMAIN ioRegs' = watched
      /\ \A k \in watched : /\ k \in Saves => ioRegs'[k] = emuSaved[k]
                            /\ k \notin Saves => ioRegs'[k] = ioRegs[k]
  BY <1>1
<1>4. IoInv'
  <2>1. \A k \in watched : ioRegs'[k] \in Levels(k) /\ (ioRegs'[k] = ioRegs[k] \/ k \in Saves)
    BY <1>0, <1>2, <1>3
  <2> QED BY <1>1, <1>3, <2>1, InputKeeps
<1>5. SavedIsKept' /\ SavesFit'
  BY <1>1, <1>2, <1>3, SamePages DEF SavedIsKept, SavesFit
<1>6. /\ {"l", "r"} \cap (DOMAIN OutputLamps \cup DOMAIN Labels \cup Flips) = {}
      /\ (Flips \ DOMAIN OutputLamps) \cap Saves = {}
      /\ TwoBits("VA") => "VA" \in Saves
  BY <1>0 DEF PagesFit
<1>7. \A v : Buttons(v) \subseteq {"l", "r"}
  BY DEF Buttons, ValveButtons
<1>8. /\ \A o \in DOMAIN OutputLamps : o \in emuShown <=> OutputLamps[o] \in ioOuts
      /\ \A k \in DOMAIN Labels : k \in emuShown <=> Labels[k] \in ioOuts
      /\ \A k \in (Flips \cap watched) \ DOMAIN OutputLamps : k \in emuShown <=> ioRegs[k] = 1
  BY DEF EmuInv, PagesShowRegisters
<1>9. \A k : k \notin {"l", "r"} => (k \in emuShown' <=> k \in emuShown)
  BY <1>1, <1>7
<1>10. /\ \A o \in DOMAIN OutputLamps : o \in emuShown' <=> OutputLamps[o] \in ioOuts
       /\ \A k \in DOMAIN Labels : k \in emuShown' <=> Labels[k] \in ioOuts
       /\ \A k \in (Flips \cap watched) \ DOMAIN OutputLamps : k \in emuShown' <=> ioRegs'[k] = 1
  BY <1>3, <1>6, <1>8, <1>9
<1>11. "VA" \in watched => emuShown' \cap {"l", "r"} = Buttons(ioRegs'["VA"])
  <2> SUFFICES ASSUME "VA" \in watched PROVE emuShown' \cap {"l", "r"} = Buttons(ioRegs'["VA"])
    OBVIOUS
  <2>1. emuShown' \cap {"l", "r"} = Buttons(emuSaved["VA"])
    BY <1>1, <1>7
  <2>2. CASE TwoBits("VA")
    BY <1>3, <1>6, <2>1, <2>2
  <2>3. CASE ~TwoBits("VA")
    <3>1. \A v : Buttons(v) = {}
      BY <2>3 DEF Buttons, TwoBits
    <3> QED BY <2>1, <3>1
  <2> QED BY <2>2, <2>3
<1>12. PagesShowRegisters'
  BY <1>1, <1>10, <1>11, SamePages DEF PagesShowRegisters
<1> QED BY <1>4, <1>5, <1>12 DEF EmuInv

LEMMA EmulatorRestarts == ASSUME IoInv, EmuInv, EmuRestart PROVE IoInv' /\ EmuInv'
<1>0. PollInv /\ WriteInv /\ ~ioOnline /\ ioFresh = {}
  BY DEF IoInv, PollInv, EmuRestart
<1>1. /\ UNCHANGED <<ioUnit, watched, ioOnline, ioItem, ioPort, ioFresh, ioImage, ioWanted, ioQueue, emuSaved>>
      /\ ioOuts' = {} /\ ioRegs' = [l \in watched |-> 0] /\ ioTold' = FALSE
      /\ emuLoaded' = FALSE /\ emuShown' = {}
  BY DEF EmuRestart, Fresh, portVars, outVars
<1>2. DOMAIN ioRegs' = watched /\ \A l \in watched : ioRegs'[l] = 0 /\ ioRegs'[l] \in Levels(l)
  BY <1>1 DEF Levels
<1>3. PollInv'
  BY <1>0, <1>1, <1>2, ItemsKept
<1>4. WriteInv'
  BY <1>0, <1>1, WriteRests
<1>5. Buttons(0) = {}
  BY DEF Buttons, ValveButtons
<1>6. PagesShowRegisters'
  <2>1. /\ \A o \in DOMAIN OutputLamps : o \in emuShown' <=> OutputLamps[o] \in ioOuts'
        /\ \A k \in DOMAIN Labels : k \in emuShown' <=> Labels[k] \in ioOuts'
        /\ \A k \in (Flips \cap watched) \ DOMAIN OutputLamps : k \in emuShown' <=> ioRegs'[k] = 1
    BY <1>1, <1>2
  <2>2. "VA" \in watched => emuShown' \cap {"l", "r"} = Buttons(ioRegs'["VA"])
    BY <1>1, <1>2, <1>5
  <2> QED BY <1>1, <2>1, <2>2, SamePages DEF PagesShowRegisters
<1>7. SavedIsKept' /\ SavesFit'
  BY <1>1, SamePages DEF SavedIsKept, SavesFit, EmuInv
<1> QED BY <1>3, <1>4, <1>6, <1>7 DEF IoInv, EmuInv

LEMMA OutputIsFlipped == ASSUME IoInv, EmuInv, NEW o, FlipOutput(o) PROVE IoInv' /\ EmuInv'
<1>0. PollInv /\ WriteInv /\ ioUnit \in Units /\ PagesFit /\ o \in Flips
  BY TablesAreRight DEF IoInv, PollInv, FlipOutput
<1>1. /\ UNCHANGED <<ioUnit, watched, ioOnline, ioItem, ioPort, ioRegs, ioImage, ioWanted, ioQueue,
                     emuLoaded, emuSaved>>
      /\ ioFresh' = ioFresh \ Changed /\ ioTold' = FALSE /\ Changes(ioOuts')
  BY DEF FlipOutput, outVars
<1>2. ioUnit # PLC110
  BY <1>0 DEF PagesFit
<1>3. \A l \in ioFresh' : Register(l)' = Register(l)
  <2> SUFFICES ASSUME NEW l \in ioFresh' PROVE Register(l)' = Register(l)
    OBVIOUS
  <2>1. l \notin Changed /\ ioRegs'[l] = ioRegs[l]
    BY <1>1
  <2> QED BY <1>1, <2>1, RegisterKept
<1>4. PollInv'
  BY <1>0, <1>1, <1>3, ItemsKept DEF PollInv
<1>5. WriteInv'
  BY <1>0, <1>1, <1>2, WriteRests
<1>6. EmuInv'
  BY <1>0, <1>1, PagesNotified
<1> QED BY <1>4, <1>5, <1>6 DEF IoInv

LEMMA EmuInvStep == ASSUME IoInv, EmuInv, [EmuNext]_<<ioVars, emuVars>> PROVE IoInv' /\ EmuInv'
<1>0. ioUnit \in Units
  BY DEF IoInv, PollInv
<1>1. CASE Client
  <2>1. UNCHANGED <<ioUnit, watched, ioOuts, ioRegs, emuLoaded, emuSaved, emuShown>>
    BY <1>1 DEF Client, emuVars, ReadTaskDone, SetOutput, ConnectionLost, UnitOnline, ProcessRestart
  <2>2. EmuInv'
    BY <2>1, PagesRest
  <2>3. IoInv'
    BY <1>1, ClientKeeps DEF Client
  <2> QED BY <2>2, <2>3
<1>2. CASE EmuWritten
  <2>1. UnitWrites /\ Changes(ioOuts') /\ UNCHANGED <<ioUnit, watched, ioRegs, emuLoaded, emuSaved>>
    BY <1>2 DEF EmuWritten, UnitWrites
  <2>2. EmuInv'
    BY <1>0, <2>1, PagesNotified
  <2>3. IoInv'
    BY <2>1, UnitKeeps
  <2> QED BY <2>2, <2>3
<1>3. CASE EmuLoads
  BY <1>3, LoadKeeps
<1>4. CASE EmuRestart
  BY <1>4, EmulatorRestarts
<1>5. ASSUME NEW o \in {"H", "WH", "VA"}, FlipOutput(o) PROVE IoInv' /\ EmuInv'
  BY <1>5, OutputIsFlipped
<1>6. ASSUME NEW l \in watched, NEW v \in 0..1, SetInput(l, v) PROVE IoInv' /\ EmuInv'
  BY <1>6, InputIsSet
<1>7. ASSUME emuLoaded, NEW bit \in {1, 2}, FlipFeedback(bit) PROVE IoInv' /\ EmuInv'
  BY <1>7, FeedbackIsSet
<1>8. CASE UNCHANGED <<ioVars, emuVars>>
  <2>1. UNCHANGED ioVars /\ UNCHANGED <<ioUnit, watched, ioOuts, ioRegs, emuLoaded, emuSaved, emuShown>>
    BY <1>8 DEF ioVars, emuVars
  <2>2. EmuInv'
    BY <2>1, PagesRest
  <2>3. IoInv'
    BY <2>1, IoInvStep
  <2> QED BY <2>2, <2>3
<1> QED BY <1>1, <1>2, <1>3, <1>4, <1>5, <1>6, <1>7, <1>8 DEF EmuNext

(* The emulator beside the client: its pages show what the client reads,    *)
(* and a click is kept; the client follows it as it follows the units.     *)
THEOREM EmulatorAlwaysShows == EmuSpec => [](EmulatorSafe /\ UnitsFollow)
<1>1. EmuInit => IoInv /\ EmuInv
  BY IoInvInit, EmuInvInit DEF EmuInit
<1>2. IoInv /\ EmuInv /\ [EmuNext]_<<ioVars, emuVars>> => IoInv' /\ EmuInv'
  BY EmuInvStep
<1>3. IoInv /\ EmuInv => EmulatorSafe /\ UnitsFollow
  BY IoInvFollows DEF EmuInv, EmulatorSafe
<1> QED BY <1>1, <1>2, <1>3, PTL DEF EmuSpec

(* What stays of a queue when a walk through it takes some places out: the  *)
(* others, in their order.                                                 *)
WalkStep(w, q, K, n) ==
  IF n = 0 THEN <<>> ELSE IF n \in K THEN w[n - 1] ELSE Append(w[n - 1], q[n])

WalkTo(w, q, K, n) == w = [m \in 0 .. n |-> WalkStep(w, q, K, m)]

(* e takes the places of r to those of q up to n outside K.                 *)
IsPart(r, q, n, K, e) ==
  /\ e \in [1 .. Len(r) -> 1 .. n]
  /\ \A i \in 1 .. Len(r) : e[i] \notin K /\ r[i] = q[e[i]]
  /\ \A i, k \in 1 .. Len(r) : i # k => e[i] # e[k]
  /\ \A j \in 1 .. n : j \notin K => \E i \in 1 .. Len(r) : e[i] = j

LEMMA WalkExists == ASSUME NEW q, NEW K, NEW len \in Nat PROVE \E w : WalkTo(w, q, K, len)
<1> DEFINE N == {n \in Nat : \E w : WalkTo(w, q, K, n)}
<1>1. 0 \in N
  <2> DEFINE w == [m \in 0 .. 0 |-> <<>>]
  <2>1. \A m \in 0 .. 0 : WalkStep(w, q, K, m) = <<>>
    BY DEF WalkStep
  <2>2. WalkTo(w, q, K, 0)
    BY <2>1 DEF WalkTo
  <2> QED BY <2>2
<1>2. ASSUME NEW n \in Nat, n \in N PROVE n + 1 \in N
  <2>1. PICK w : WalkTo(w, q, K, n)
    BY <1>2
  <2> DEFINE v == [m \in 0 .. n + 1 |-> IF m <= n THEN w[m] ELSE WalkStep(w, q, K, n + 1)]
  <2>2. \A m \in 0 .. n : w[m] = WalkStep(w, q, K, m)
    BY <2>1 DEF WalkTo
  <2>3. /\ v[n + 1] = WalkStep(w, q, K, n + 1) /\ v = [m \in 0 .. n + 1 |-> v[m]]
        /\ \A m \in 0 .. n : v[m] = w[m]
    OBVIOUS
  <2> HIDE DEF v
  <2>4. ASSUME NEW m \in 0 .. n + 1 PROVE v[m] = WalkStep(v, q, K, m)
    <3>0. m # 0 => m - 1 \in 0 .. n
      OBVIOUS
    <3>1. m # 0 => v[m - 1] = w[m - 1]
      BY <2>3, <3>0
    <3>2. m \in 0 .. n \/ m = n + 1
      OBVIOUS
    <3>3. v[m] = WalkStep(w, q, K, m)
      BY <2>2, <2>3, <3>2
    <3>4. WalkStep(w, q, K, m) = WalkStep(v, q, K, m)
      BY <3>1 DEF WalkStep
    <3> QED BY <3>3, <3>4
  <2>5. WalkTo(v, q, K, n + 1)
    BY <2>3, <2>4 DEF WalkTo
  <2>6. n + 1 \in Nat
    OBVIOUS
  <2> QED BY <2>5, <2>6
<1>3. Nat \subseteq N
  <2> HIDE DEF N
  <2> QED BY <1>1, <1>2, NumberInduction
<1> QED BY <1>3

LEMMA WalkIsPart ==
  ASSUME NEW q, IsQueue(q), NEW K, NEW w, WalkTo(w, q, K, Len(q))
  PROVE  IsQueue(w[Len(q)]) /\ \E e : IsPart(w[Len(q)], q, Len(q), K, e)
<1> DEFINE Good(n) == n <= Len(q) => IsQueue(w[n]) /\ \E e : IsPart(w[n], q, n, K, e)
           N == {n \in Nat : Good(n)}
<1>0. Len(q) \in Nat
  BY EmptyQueue
<1>1. w[0] = <<>> /\ \A n \in 0 .. Len(q) : n # 0 =>
          w[n] = IF n \in K THEN w[n - 1] ELSE Append(w[n - 1], q[n])
  <2>1. \A n \in 0 .. Len(q) : w[n] = WalkStep(w, q, K, n)
    BY DEF WalkTo
  <2>2. 0 \in 0 .. Len(q)
    BY <1>0
  <2> QED BY <2>1, <2>2 DEF WalkStep
<1>2. 0 \in N
  <2>1. w[0] \in Seq({}) /\ Len(w[0]) = 0 /\ 1 .. 0 = {}
    BY <1>1
  <2> DEFINE e == [i \in 1 .. 0 |-> i]
  <2>2. IsPart(w[0], q, 0, K, e)
    BY <2>1 DEF IsPart
  <2> QED BY <2>1, <2>2 DEF IsQueue
<1>3. ASSUME NEW n \in Nat, n \in N PROVE n + 1 \in N
  <2> SUFFICES ASSUME n + 1 <= Len(q)
               PROVE  IsQueue(w[n + 1]) /\ \E e : IsPart(w[n + 1], q, n + 1, K, e)
    OBVIOUS
  <2>1. IsQueue(w[n]) /\ \E e : IsPart(w[n], q, n, K, e)
    BY <1>0, <1>3
  <2>2. PICK e : IsPart(w[n], q, n, K, e)
    BY <2>1
  <2>3. w[n + 1] = IF n + 1 \in K THEN w[n] ELSE Append(w[n], q[n + 1])
    <3>1. n + 1 \in 0 .. Len(q) /\ n + 1 # 0 /\ (n + 1) - 1 = n
      BY <1>0
    <3> QED BY <1>1, <3>1
  <2>4. CASE n + 1 \in K
    <3>1. w[n + 1] = w[n]
      BY <2>3, <2>4
    <3>2. \A j \in 1 .. n + 1 : j \in 1 .. n \/ j = n + 1
      OBVIOUS
    <3>3. 1 .. n \subseteq 1 .. n + 1
      OBVIOUS
    <3>4. IsPart(w[n], q, n + 1, K, e)
      BY <2>2, <2>4, <3>2, <3>3 DEF IsPart
    <3> QED BY <2>1, <3>1, <3>4
  <2>5. CASE n + 1 \notin K
    <3> DEFINE r == w[n]
               l == Len(r)
               t == Append(r, q[n + 1])
               d == [i \in 1 .. l + 1 |-> IF i = l + 1 THEN n + 1 ELSE e[i]]
    <3>1. w[n + 1] = t
      BY <2>3, <2>5
    <3>2. /\ IsQueue(t) /\ l \in Nat /\ Len(t) = l + 1 /\ t[l + 1] = q[n + 1]
          /\ \A i \in 1 .. l : t[i] = r[i]
      BY <2>1, AppendQueue
    <3>3. /\ e \in [1 .. l -> 1 .. n]
          /\ \A i \in 1 .. l : e[i] \notin K /\ r[i] = q[e[i]]
          /\ \A i, k \in 1 .. l : i # k => e[i] # e[k]
          /\ \A j \in 1 .. n : j \notin K => \E i \in 1 .. l : e[i] = j
      BY <2>2 DEF IsPart
    <3> HIDE DEF r, l, t
    <3>4. /\ d[l + 1] = n + 1 /\ \A i \in 1 .. l : d[i] = e[i] /\ e[i] \in 1 .. n /\ i \in 1 .. l + 1
          /\ \A i \in 1 .. l + 1 : i \in 1 .. l \/ i = l + 1
          /\ \A j \in 1 .. n + 1 : j \in 1 .. n \/ j = n + 1
          /\ \A j \in 1 .. n : j # n + 1 /\ j \in 1 .. n + 1
          /\ l + 1 \in 1 .. l + 1 /\ n + 1 \in 1 .. n + 1
      BY <3>2, <3>3
    <3>5. d \in [1 .. l + 1 -> 1 .. n + 1]
      BY <3>2, <3>3
    <3> HIDE DEF d
    <3>6. \A i \in 1 .. l + 1 : d[i] \notin K /\ t[i] = q[d[i]]
      BY <2>5, <3>2, <3>3, <3>4
    <3>7. \A i, k \in 1 .. l + 1 : i # k => d[i] # d[k]
      BY <3>3, <3>4
    <3>8. \A j \in 1 .. n + 1 : j \notin K => \E i \in 1 .. l + 1 : d[i] = j
      BY <3>3, <3>4
    <3>9. IsPart(t, q, n + 1, K, d)
      BY <3>2, <3>5, <3>6, <3>7, <3>8 DEF IsPart
    <3> QED BY <3>1, <3>2, <3>9
  <2> QED BY <2>4, <2>5
<1>4. Nat \subseteq N
  <2> HIDE DEF N
  <2> QED BY <1>2, <1>3, NumberInduction
<1> QED BY <1>0, <1>4

-----------------------------------------------------------------------------
(* The serial line.  A unit has at most one read, waiting or planned, unless *)
(* its timer brings another one while it is still polled.                   *)
IsOperation(op) ==
  /\ op = [unit |-> op.unit, write |-> op.write, group |-> op.group, failed |-> op.failed]
  /\ op.unit \in RtuUnits

HasRead(q, u) == \E i \in 1 .. Len(q) : q[i].unit = u /\ ~q[i].write

OneRead(q, groups, plans) ==
  /\ \A i \in 1 .. Len(q) : ~q[i].write => /\ q[i].group = groups[q[i].unit]
                                           /\ plans[q[i].unit] = 0
  /\ \A i, k \in 1 .. Len(q) : ~q[i].write /\ ~q[k].write /\ q[i].unit = q[k].unit => i = k

RtuInv ==
  /\ IsQueue(requests)
  /\ \A i \in 1 .. Len(requests) : IsOperation(requests[i])
  /\ DOMAIN group = RtuUnits /\ DOMAIN linked = RtuUnits
  /\ planned \in [RtuUnits -> Nat]
  /\ LineMoves
  /\ \A u \in RtuUnits : planned[u] > 0 \/ HasRead(requests, u) \/ u \in offlineTimer
  /\ OfflineHasTimer
  /\ ~SlowLine => /\ OneRead(requests, group, planned)
                  /\ \A u \in RtuUnits : planned[u] <= 1

LEMMA QueueDomain == ASSUME NEW q, IsQueue(q) PROVE DOMAIN q = 1 .. Len(q)
<1>1. PICK S : q \in Seq(S)
  BY DEF IsQueue
<1> QED BY <1>1

LEMMA PolledIs == ASSUME RtuInv, NEW u PROVE Polled(u) <=> planned[u] > 0 \/ HasRead(requests, u)
<1>1. DOMAIN requests = 1 .. Len(requests)
  BY QueueDomain DEF RtuInv
<1> QED BY <1>1 DEF Polled, HasRead

LEMMA RtuInvIsSafe == RtuInv => RtuSafe
<1> SUFFICES ASSUME RtuInv PROVE RtuSafe
  OBVIOUS
<1>1. DOMAIN requests = 1 .. Len(requests)
  BY QueueDomain DEF RtuInv
<1>2. NeverForgotten
  BY PolledIs DEF NeverForgotten, RtuInv
<1>3. ~SlowLine => AnswerFitsGroup
  BY <1>1 DEF RtuInv, OneRead, AnswerFitsGroup
<1>4. LineMoves /\ OfflineHasTimer
  BY DEF RtuInv
<1> QED BY <1>2, <1>3, <1>4 DEF RtuSafe

LEMMA RtuInvInit == RtuInit => RtuInv
<1> SUFFICES ASSUME RtuInit PROVE RtuInv
  OBVIOUS
<1>0. IsFiniteSet(RtuUnits) /\ RtuUnits # {} /\ SlowLine \in BOOLEAN
  BY RtuAssumption
<1>1. PICK order \in SetToSeqs(RtuUnits) :
          requests = [i \in DOMAIN order |-> Read(order[i], FirstGroup)]
  BY DEF RtuInit
<1>2. /\ IsQueue(order) /\ \A i \in 1 .. Len(order) : order[i] \in RtuUnits
      /\ \A i, k \in 1 .. Len(order) : i # k => order[i] # order[k]
      /\ \A u \in RtuUnits : \E i \in 1 .. Len(order) : order[i] = u
  BY <1>0, <1>1, OrdersOfSet
<1>3. Len(order) \in Nat /\ DOMAIN order = 1 .. Len(order)
  BY <1>2, EmptyQueue, QueueDomain
<1>4. requests = [i \in 1 .. Len(order) |-> Read(order[i], FirstGroup)]
  BY <1>1, <1>3
<1>5. /\ requests \in Seq({Read(order[i], FirstGroup) : i \in 1 .. Len(order)})
      /\ Len(requests) = Len(order)
      /\ \A i \in 1 .. Len(order) : requests[i] = Read(order[i], FirstGroup)
  BY <1>3, <1>4
<1>6. /\ line = "scheduled" /\ group = [u \in RtuUnits |-> FirstGroup]
      /\ planned = [u \in RtuUnits |-> 0] /\ linked = [u \in RtuUnits |-> "unknown"]
  BY DEF RtuInit
<1>7. \A i \in 1 .. Len(order) : /\ requests[i].unit = order[i] /\ requests[i].write = FALSE
                                /\ requests[i].group = FirstGroup
                                /\ IsOperation(requests[i])
  <2> TAKE i \in 1 .. Len(order)
  <2> DEFINE o == order[i]
             g == FirstGroup
  <2>1. o \in RtuUnits /\ requests[i] = Read(o, g)
    BY <1>2, <1>5
  <2> HIDE DEF o, g
  <2>2. requests[i] = [unit |-> o, write |-> FALSE, group |-> g, failed |-> 0]
    BY <2>1 DEF Read
  <2>3. /\ requests[i].unit = o /\ requests[i].write = FALSE /\ requests[i].group = g
        /\ requests[i].failed = 0
    BY <2>2
  <2>4. IsOperation(requests[i])
    BY <2>1, <2>2, <2>3 DEF IsOperation
  <2> QED BY <2>3, <2>4 DEF o, g
<1>8. \A u \in RtuUnits : HasRead(requests, u)
  BY <1>2, <1>5, <1>7 DEF HasRead
<1>9. OneRead(requests, group, planned)
  BY <1>2, <1>5, <1>6, <1>7 DEF OneRead
<1>10. LineMoves
  <2>1. Len(requests) # 0
    BY <1>0, <1>2, <1>3, <1>5
  <2>2. requests # <<>>
    BY <2>1
  <2> QED BY <1>6, <2>2 DEF LineMoves
<1>11. OfflineHasTimer
  BY <1>6 DEF OfflineHasTimer
<1>12. planned \in [RtuUnits -> Nat] /\ \A u \in RtuUnits : planned[u] <= 1
  BY <1>6
<1>13. IsQueue(requests)
  BY <1>5 DEF IsQueue
<1> QED BY <1>5, <1>6, <1>7, <1>8, <1>9, <1>10, <1>11, <1>12, <1>13 DEF RtuInv

LEMMA OneReadOfPart ==
  ASSUME NEW q, NEW r, NEW n, 1 .. n \subseteq 1 .. Len(q), NEW K, NEW e, IsPart(r, q, n, K, e),
         NEW groups, NEW plans, OneRead(q, groups, plans)
  PROVE  OneRead(r, groups, plans)
<1>1. /\ \A i \in 1 .. Len(r) : e[i] \in 1 .. Len(q) /\ r[i] = q[e[i]]
      /\ \A i, k \in 1 .. Len(r) : e[i] = e[k] => i = k
  BY DEF IsPart
<1>2. /\ \A i \in 1 .. Len(q) : ~q[i].write => /\ q[i].group = groups[q[i].unit]
                                               /\ plans[q[i].unit] = 0
      /\ \A i, k \in 1 .. Len(q) : ~q[i].write /\ ~q[k].write /\ q[i].unit = q[k].unit => i = k
  BY DEF OneRead
<1>3. \A i \in 1 .. Len(r) : ~r[i].write => /\ r[i].group = groups[r[i].unit]
                                            /\ plans[r[i].unit] = 0
  BY <1>1, <1>2
<1>4. ASSUME NEW i \in 1 .. Len(r), NEW k \in 1 .. Len(r), ~r[i].write, ~r[k].write, r[i].unit = r[k].unit
      PROVE  i = k
  <2>1. /\ e[i] \in 1 .. Len(q) /\ e[k] \in 1 .. Len(q) /\ ~q[e[i]].write /\ ~q[e[k]].write
        /\ q[e[i]].unit = q[e[k]].unit
    BY <1>1, <1>4
  <2>2. e[i] = e[k]
    BY <1>2, <2>1
  <2> QED BY <1>1, <2>2
<1> QED BY <1>3, <1>4 DEF OneRead

LEMMA OneReadChanged ==
  ASSUME NEW q, NEW groups, NEW plans, OneRead(q, groups, plans),
         \A i \in 1 .. Len(q) : q[i].unit \in RtuUnits, NEW u, ~HasRead(q, u),
         NEW groups2, NEW plans2,
         \A v \in RtuUnits : v # u => groups2[v] = groups[v] /\ plans2[v] = plans[v]
  PROVE  OneRead(q, groups2, plans2)
<1>1. \A i \in 1 .. Len(q) : ~q[i].write => q[i].unit \in RtuUnits /\ q[i].unit # u
  BY DEF HasRead
<1> QED BY <1>1 DEF OneRead

LEMMA OneReadAdded ==
  ASSUME NEW q, IsQueue(q), NEW groups, NEW plans, OneRead(q, groups, plans), NEW op,
         op.write \/ (~HasRead(q, op.unit) /\ op.group = groups[op.unit] /\ plans[op.unit] = 0)
  PROVE  OneRead(Append(q, op), groups, plans)
<1> DEFINE t == Append(q, op)
           l == Len(q)
<1>1. l \in Nat /\ Len(t) = l + 1 /\ t[l + 1] = op /\ \A i \in 1 .. l : t[i] = q[i]
  BY AppendQueue
<1> HIDE DEF t, l
<1>2. \A i \in 1 .. l + 1 : (i \in 1 .. l /\ t[i] = q[i]) \/ (i = l + 1 /\ t[i] = op)
  BY <1>1
<1>3. /\ \A i \in 1 .. l : ~q[i].write => /\ q[i].group = groups[q[i].unit]
                                          /\ plans[q[i].unit] = 0
      /\ \A i, k \in 1 .. l : ~q[i].write /\ ~q[k].write /\ q[i].unit = q[k].unit => i = k
  BY DEF OneRead, l
<1>4. \A i \in 1 .. l : ~op.write /\ ~q[i].write => q[i].unit # op.unit
  BY DEF HasRead, l
<1>5. ~op.write => op.group = groups[op.unit] /\ plans[op.unit] = 0
  OBVIOUS
<1>6. \A i \in 1 .. l + 1 : ~t[i].write => /\ t[i].group = groups[t[i].unit]
                                           /\ plans[t[i].unit] = 0
  BY <1>2, <1>3, <1>5
<1>7. \A i, k \in 1 .. l + 1 : ~t[i].write /\ ~t[k].write /\ t[i].unit = t[k].unit => i = k
  BY <1>2, <1>3, <1>4
<1>8. OneRead(t, groups, plans)
  BY <1>1, <1>6, <1>7 DEF OneRead
<1> QED BY <1>8 DEF t

(* A new operation at the end of the queue.                                *)
LEMMA ReadAdded ==
  ASSUME RtuInv, NEW op, IsOperation(op), Prepared(op)
  PROVE  /\ IsQueue(requests') /\ \A i \in 1 .. Len(requests') : IsOperation(requests'[i])
         /\ LineMoves'
         /\ \A u : HasRead(requests, u) => HasRead(requests', u)
         /\ ~op.write => HasRead(requests', op.unit)
<1> DEFINE q == requests
           t == Append(q, op)
           l == Len(q)
<1>1. /\ IsQueue(t) /\ t # <<>> /\ l \in Nat /\ Len(t) = l + 1 /\ t[l + 1] = op
      /\ \A i \in 1 .. l : t[i] = q[i]
  BY AppendQueue DEF RtuInv
<1>2. requests' = t /\ line' = IF requests = <<>> THEN "scheduled" ELSE line
  BY DEF Prepared
<1> HIDE DEF t
<1>3. \A i \in 1 .. l + 1 : (i \in 1 .. l /\ t[i] = q[i]) \/ (i = l + 1 /\ t[i] = op)
  BY <1>1
<1>4. \A i \in 1 .. Len(requests') : IsOperation(requests'[i])
  BY <1>1, <1>2, <1>3 DEF RtuInv
<1>5. LineMoves'
  BY <1>1, <1>2 DEF RtuInv, LineMoves
<1>6. (\A i \in 1 .. l : i \in 1 .. l + 1) /\ l + 1 \in 1 .. l + 1
  BY <1>1
<1>7. \A u : HasRead(requests, u) => HasRead(t, u)
  BY <1>1, <1>6 DEF HasRead
<1>8. ~op.write => HasRead(t, op.unit)
  BY <1>1, <1>6 DEF HasRead
<1> QED BY <1>1, <1>2, <1>4, <1>5, <1>7, <1>8

(* The first operation taken from it.                                      *)
LEMMA FirstTaken ==
  ASSUME RtuInv, requests # <<>>
  PROVE  /\ IsQueue(Tail(requests)) /\ Head(requests) = requests[1] /\ 1 \in 1 .. Len(requests)
         /\ \E e : IsPart(Tail(requests), requests, Len(requests), {1}, e)
<1> DEFINE q == requests
           t == Tail(q)
           l == Len(q)
           e == [i \in 1 .. l - 1 |-> i + 1]
<1>1. /\ IsQueue(t) /\ l \in Nat /\ l > 0 /\ Len(t) = l - 1 /\ Head(q) = q[1]
      /\ \A i \in 1 .. l - 1 : t[i] = q[i + 1]
  BY TailQueue DEF RtuInv
<1> HIDE DEF t, l
<1>2. \A i \in 1 .. l - 1 : i + 1 \in 1 .. l /\ i + 1 # 1
  BY <1>1
<1>3. \A j \in 1 .. l : j # 1 => j - 1 \in 1 .. l - 1 /\ (j - 1) + 1 = j
  BY <1>1
<1>4. \A i, k \in 1 .. l - 1 : i + 1 = k + 1 => i = k
  BY <1>1
<1>5. e \in [1 .. l - 1 -> 1 .. l] /\ \A i \in 1 .. l - 1 : e[i] = i + 1
  BY <1>2
<1> HIDE DEF e
<1>6. IsPart(t, q, l, {1}, e)
  <2>1. \A i \in 1 .. l - 1 : e[i] \notin {1} /\ t[i] = q[e[i]]
    BY <1>1, <1>2, <1>5
  <2>2. \A i, k \in 1 .. l - 1 : i # k => e[i] # e[k]
    BY <1>4, <1>5
  <2>3. \A j \in 1 .. l : j \notin {1} => \E i \in 1 .. l - 1 : e[i] = j
    BY <1>3, <1>5
  <2> QED BY <1>1, <1>5, <2>1, <2>2, <2>3 DEF IsPart
<1>7. 1 \in 1 .. l
  BY <1>1
<1> QED BY <1>1, <1>6, <1>7 DEF t, l

(* What stays of the queue when one unit is taken from it.                 *)
LEMMA UnitTaken ==
  ASSUME RtuInv, NEW u
  PROVE  /\ IsQueue(Without(u))
         /\ \E e : IsPart(Without(u), requests, Len(requests),
                          {i \in 1 .. Len(requests) : requests[i].unit = u}, e)
<1> DEFINE q == requests
           K == {i \in 1 .. Len(q) : q[i].unit = u}
           Is(w) == w = [n \in 0 .. Len(q) |->
                            IF n = 0 THEN <<>>
                            ELSE IF q[n].unit = u THEN w[n - 1] ELSE Append(w[n - 1], q[n])]
           walk == CHOOSE w : Is(w)
<1>0. IsQueue(q) /\ Len(q) \in Nat
  BY EmptyQueue DEF RtuInv
<1>1. \A w : Is(w) <=> WalkTo(w, q, K, Len(q))
  <2> TAKE w
  <2>1. \A n \in 0 .. Len(q) : WalkStep(w, q, K, n) = (IF n = 0 THEN <<>>
              ELSE IF q[n].unit = u THEN w[n - 1] ELSE Append(w[n - 1], q[n]))
    <3> TAKE n \in 0 .. Len(q)
    <3>1. n # 0 => n \in 1 .. Len(q)
      BY <1>0
    <3> QED BY <3>1 DEF WalkStep
  <2> QED BY <2>1 DEF WalkTo
<1>2. Without(u) = walk[Len(q)]
  BY DEF Without
<1>3. WalkTo(walk, q, K, Len(q))
  <2>1. \E w : Is(w)
    BY <1>0, <1>1, WalkExists
  <2>2. Is(walk)
    <3> HIDE DEF Is
    <3> QED BY <2>1
  <2> QED BY <1>1, <2>2
<1> HIDE DEF walk, K
<1>4. IsQueue(walk[Len(q)]) /\ \E e : IsPart(walk[Len(q)], q, Len(q), K, e)
  BY <1>0, <1>3, WalkIsPart
<1> QED BY <1>2, <1>4 DEF K

(* The steps of the line.                                                  *)
LEMMA LineKeeps ==
  ASSUME RtuInv, UNCHANGED <<requests, group, planned, offlineTimer, linked>>,
         line' = "idle" <=> requests' = <<>>
  PROVE  RtuInv'
<1>1. LineMoves' /\ OfflineHasTimer'
  BY DEF LineMoves, OfflineHasTimer, RtuInv
<1>2. (\A u \in RtuUnits : planned[u] > 0 \/ HasRead(requests, u) \/ u \in offlineTimer)'
  BY DEF RtuInv, HasRead
<1>3. (~SlowLine => /\ OneRead(requests, group, planned)
                    /\ \A u \in RtuUnits : planned[u] <= 1)'
  BY DEF RtuInv, OneRead
<1> QED BY <1>1, <1>2, <1>3 DEF RtuInv, IsOperation

LEMMA SuccessKeeps == ASSUME RtuInv, OperationSuccess PROVE RtuInv'
<1> DEFINE q == requests
           op == Head(q)
           t == Tail(q)
           u == op.unit
<1>1. q # <<>> /\ line = "reading" /\ requests' = t /\ line' = IF t = <<>> THEN "idle" ELSE "writing"
  BY DEF OperationSuccess, NextOn, RtuInv, LineMoves
<1>2. IsQueue(t) /\ op = q[1] /\ 1 \in 1 .. Len(q) /\ \E e : IsPart(t, q, Len(q), {1}, e)
  BY <1>1, FirstTaken
<1>3. PICK e : IsPart(t, q, Len(q), {1}, e)
  BY <1>2
<1>4. /\ \A i \in 1 .. Len(q) : IsOperation(q[i])
      /\ DOMAIN group = RtuUnits /\ DOMAIN linked = RtuUnits /\ planned \in [RtuUnits -> Nat]
      /\ \A v \in RtuUnits : planned[v] > 0 \/ HasRead(q, v) \/ v \in offlineTimer
      /\ \A v \in RtuUnits : linked[v] = "offline" => v \in offlineTimer
      /\ ~SlowLine => OneRead(q, group, planned) /\ \A v \in RtuUnits : planned[v] <= 1
  BY DEF RtuInv, OfflineHasTimer
<1>5. u \in RtuUnits
  BY <1>2, <1>4 DEF IsOperation
<1> HIDE DEF q, op, t, u
<1>6. /\ \A i \in 1 .. Len(t) : e[i] \in 1 .. Len(q) /\ e[i] # 1 /\ t[i] = q[e[i]]
      /\ \A j \in 1 .. Len(q) : j # 1 => \E i \in 1 .. Len(t) : e[i] = j
  BY <1>3 DEF IsPart
<1>7. \A i \in 1 .. Len(t) : IsOperation(t[i])
  BY <1>4, <1>6
<1>8. ASSUME NEW v, HasRead(q, v), v # u \/ op.write PROVE HasRead(t, v)
  <2>1. PICK j \in 1 .. Len(q) : q[j].unit = v /\ ~q[j].write
    BY <1>8 DEF HasRead
  <2>2. j # 1
    BY <1>2, <1>8, <2>1 DEF u
  <2>3. PICK i \in 1 .. Len(t) : e[i] = j
    BY <1>6, <2>2
  <2> QED BY <1>6, <2>1, <2>3 DEF HasRead
<1>9. ~SlowLine => OneRead(t, group, planned)
  <2>1. 1 .. Len(q) \subseteq 1 .. Len(q)
    OBVIOUS
  <2> QED BY <1>3, <1>4, <2>1, OneReadOfPart
<1>10. LineMoves'
  BY <1>1 DEF LineMoves
<1>11. CASE op.write
  <2>1. UNCHANGED <<group, planned, offlineTimer, linked>>
    BY <1>11 DEF OperationSuccess, op, q
  <2>2. OfflineHasTimer'
    BY <1>4, <2>1 DEF OfflineHasTimer
  <2>3. \A v \in RtuUnits : planned'[v] > 0 \/ HasRead(requests', v) \/ v \in offlineTimer'
    BY <1>1, <1>4, <1>8, <1>11, <2>1
  <2>4. ~SlowLine => OneRead(requests', group', planned') /\ \A v \in RtuUnits : planned'[v] <= 1
    BY <1>1, <1>4, <1>9, <2>1
  <2>5. IsQueue(requests') /\ \A i \in 1 .. Len(requests') : IsOperation(requests'[i])
    BY <1>1, <1>2, <1>7
  <2> QED BY <1>4, <1>10, <2>1, <2>2, <2>3, <2>4, <2>5 DEF RtuInv
<1>12. CASE ~op.write
  <2>1. /\ group' = [group EXCEPT ![u] = NextGroup(group[u])]
        /\ planned' = [planned EXCEPT ![u] = planned[u] + 1]
        /\ offlineTimer' = offlineTimer \ {u}
        /\ linked' = [linked EXCEPT ![u] = "online"]
    BY <1>12 DEF OperationSuccess, RegistersRead, op, q, u
  <2>2. /\ DOMAIN group' = RtuUnits /\ DOMAIN linked' = RtuUnits
        /\ linked'[u] = "online" /\ \A v \in RtuUnits : v # u => linked'[v] = linked[v]
        /\ \A v \in RtuUnits : v # u => group'[v] = group[v]
    BY <1>4, <1>5, <2>1
  <2> DEFINE m == planned[u] + 1
  <2>3. m \in Nat /\ m > 0 /\ (planned[u] = 0 => m <= 1)
    BY <1>4, <1>5
  <2>4. planned' = [planned EXCEPT ![u] = m]
    BY <2>1
  <2> HIDE DEF m
  <2>5. /\ planned' \in [RtuUnits -> Nat] /\ planned'[u] = m
        /\ \A v \in RtuUnits : v # u => planned'[v] = planned[v]
    BY <1>4, <1>5, <2>3, <2>4
  <2>6. OfflineHasTimer'
    BY <1>4, <2>1, <2>2 DEF OfflineHasTimer
  <2>7. ASSUME NEW v \in RtuUnits PROVE planned'[v] > 0 \/ HasRead(requests', v) \/ v \in offlineTimer'
    <3>1. CASE v = u
      BY <2>3, <2>5, <3>1
    <3>2. CASE v # u
      BY <1>1, <1>4, <1>8, <2>1, <2>5, <3>2
    <3> QED BY <3>1, <3>2
  <2>8. ASSUME ~SlowLine
        PROVE  OneRead(requests', group', planned') /\ \A v \in RtuUnits : planned'[v] <= 1
    <3>1. planned[u] = 0
      BY <1>2, <1>4, <1>12, <2>8 DEF OneRead, u
    <3>2. ~HasRead(t, u)
      <4> SUFFICES ASSUME NEW i \in 1 .. Len(t), t[i].unit = u, ~t[i].write PROVE FALSE
        BY DEF HasRead
      <4>1. e[i] \in 1 .. Len(q) /\ e[i] # 1 /\ q[e[i]].unit = q[1].unit /\ ~q[e[i]].write /\ ~q[1].write
        BY <1>2, <1>6, <1>12 DEF u
      <4>2. OneRead(q, group, planned)
        BY <1>4, <2>8
      <4> QED BY <1>2, <4>1, <4>2 DEF OneRead
    <3>3. OneRead(t, group', planned')
      <4>1. /\ OneRead(t, group, planned)
            /\ \A i \in 1 .. Len(t) : t[i].unit \in RtuUnits
            /\ \A v \in RtuUnits : v # u => group'[v] = group[v] /\ planned'[v] = planned[v]
        BY <1>7, <1>9, <2>2, <2>5, <2>8 DEF IsOperation
      <4> QED BY <3>2, <4>1, OneReadChanged
    <3>4. planned'[u] <= 1
      BY <2>3, <2>5, <3>1
    <3>5. \A v \in RtuUnits : planned'[v] <= 1
      BY <1>4, <2>5, <2>8, <3>4
    <3> QED BY <1>1, <3>3, <3>5
  <2>9. IsQueue(requests') /\ \A i \in 1 .. Len(requests') : IsOperation(requests'[i])
    BY <1>1, <1>2, <1>7
  <2> QED BY <1>10, <2>2, <2>5, <2>6, <2>7, <2>8, <2>9 DEF RtuInv
<1> QED BY <1>11, <1>12

LEMMA FailureKeeps == ASSUME RtuInv, OperationFailed PROVE RtuInv'
<1> DEFINE q == requests
           op == Head(q)
           u == op.unit
<1>1. q # <<>> /\ UNCHANGED <<group, planned>>
  BY DEF OperationFailed, RtuInv, LineMoves
<1>2. IsQueue(Tail(q)) /\ op = q[1] /\ 1 \in 1 .. Len(q)
  BY <1>1, FirstTaken
<1>3. /\ \A i \in 1 .. Len(q) : IsOperation(q[i]) /\ IsQueue(q)
      /\ DOMAIN group = RtuUnits /\ DOMAIN linked = RtuUnits /\ planned \in [RtuUnits -> Nat]
      /\ \A v \in RtuUnits : planned[v] > 0 \/ HasRead(q, v) \/ v \in offlineTimer
      /\ \A v \in RtuUnits : linked[v] = "offline" => v \in offlineTimer
      /\ ~SlowLine => OneRead(q, group, planned) /\ \A v \in RtuUnits : planned[v] <= 1
  BY DEF RtuInv, OfflineHasTimer
<1>4. IsOperation(op)
  BY <1>2, <1>3
<1>5. CASE op.failed = 2
  <2> DEFINE t == Without(u)
             K == {i \in 1 .. Len(q) : q[i].unit = u}
  <2>1. /\ offlineTimer' = offlineTimer \cup {u} /\ linked' = [linked EXCEPT ![u] = "offline"]
        /\ requests' = t /\ line' = IF t = <<>> THEN "idle" ELSE "writing"
    BY <1>5 DEF OperationFailed, NextOn
  <2>2. IsQueue(t) /\ \E e : IsPart(t, q, Len(q), K, e)
    BY UnitTaken
  <2> HIDE DEF t, K, q, op, u
  <2>3. PICK e : IsPart(t, q, Len(q), K, e)
    BY <2>2
  <2>4. /\ \A i \in 1 .. Len(t) : e[i] \in 1 .. Len(q) /\ t[i] = q[e[i]]
        /\ \A j \in 1 .. Len(q) : j \notin K => \E i \in 1 .. Len(t) : e[i] = j
    BY <2>3 DEF IsPart
  <2>5. \A i \in 1 .. Len(t) : IsOperation(t[i])
    BY <1>3, <2>4
  <2>6. ASSUME NEW v, HasRead(q, v), v # u PROVE HasRead(t, v)
    <3>1. PICK j \in 1 .. Len(q) : q[j].unit = v /\ ~q[j].write
      BY <2>6 DEF HasRead
    <3>2. j \notin K
      BY <2>6, <3>1 DEF K
    <3>3. PICK i \in 1 .. Len(t) : e[i] = j
      BY <2>4, <3>2
    <3> QED BY <2>4, <3>1, <3>3 DEF HasRead
  <2>7. ~SlowLine => OneRead(t, group, planned)
    <3>1. 1 .. Len(q) \subseteq 1 .. Len(q)
      OBVIOUS
    <3> QED BY <1>3, <2>3, <3>1, OneReadOfPart
  <2>8. LineMoves'
    BY <2>1 DEF LineMoves
  <2>9. OfflineHasTimer'
    <3>1. \A v \in RtuUnits : v # u => linked'[v] = linked[v]
      BY <1>3, <2>1
    <3> QED BY <1>3, <2>1, <3>1 DEF OfflineHasTimer
  <2>10. \A v \in RtuUnits : planned'[v] > 0 \/ HasRead(requests', v) \/ v \in offlineTimer'
    BY <1>1, <1>3, <2>1, <2>6
  <2>11. ~SlowLine => OneRead(requests', group', planned') /\ \A v \in RtuUnits : planned'[v] <= 1
    BY <1>1, <1>3, <2>1, <2>7
  <2>12. DOMAIN linked' = RtuUnits /\ IsQueue(requests')
         /\ \A i \in 1 .. Len(requests') : IsOperation(requests'[i])
    BY <1>3, <2>1, <2>2, <2>5
  <2> QED BY <1>1, <1>3, <2>8, <2>9, <2>10, <2>11, <2>12 DEF RtuInv
<1>6. CASE op.failed # 2
  <2> DEFINE again == [op EXCEPT !.failed = op.failed + 1]
             t == Tail(q)
             r == <<again>> \o t
  <2>1. UNCHANGED <<offlineTimer, linked>> /\ requests' = r /\ line' = "writing"
    BY <1>6 DEF OperationFailed
  <2>2. /\ again.unit = op.unit /\ again.write = op.write /\ again.group = op.group
        /\ IsOperation(again)
    <3> DEFINE n == op.failed + 1
               a == op.unit
               b == op.write
               c == op.group
    <3>1. op = [unit |-> a, write |-> b, group |-> c, failed |-> op.failed] /\ a \in RtuUnits
      BY <1>4 DEF IsOperation
    <3>2. again = [op EXCEPT !.failed = n]
      OBVIOUS
    <3> HIDE DEF n, a, b, c, op, again
    <3>3. again = [unit |-> a, write |-> b, group |-> c, failed |-> n]
      BY <3>1, <3>2
    <3>4. again.unit = a /\ again.write = b /\ again.group = c /\ again.failed = n
      BY <3>3
    <3>5. IsOperation(again)
      BY <3>1, <3>3, <3>4 DEF IsOperation
    <3> QED BY <3>4, <3>5 DEF a, b, c
  <2>3. /\ Len(q) \in Nat /\ Len(q) > 0 /\ Len(t) = Len(q) - 1
        /\ \A i \in 1 .. Len(q) - 1 : t[i] = q[i + 1]
    BY <1>1, <1>2, <1>3, TailQueue DEF RtuInv
  <2>4. /\ IsQueue(r) /\ Len(r) = Len(t) + 1 /\ r[1] = again
        /\ \A i \in 1 .. Len(t) : r[i + 1] = t[i]
    <3> HIDE DEF again, t
    <3> QED BY <1>2, PrependQueue DEF t
  <2> HIDE DEF again, t, r, op
  <2>5. Len(r) = Len(q) /\ \A i \in 1 .. Len(q) : i = 1 \/ r[i] = q[i]
    <3>1. \A i \in 1 .. Len(q) : i = 1 \/ (i - 1 \in 1 .. Len(t) /\ (i - 1) + 1 = i)
      BY <2>3
    <3>2. Len(r) = Len(q)
      BY <2>3, <2>4
    <3>3. \A i \in 1 .. Len(t) : r[i + 1] = q[i + 1]
      BY <2>3, <2>4
    <3> QED BY <3>1, <3>2, <3>3
  <2>6. \A i \in 1 .. Len(q) : /\ r[i].unit = q[i].unit /\ r[i].write = q[i].write
                              /\ r[i].group = q[i].group /\ IsOperation(r[i])
    BY <1>2, <1>3, <2>2, <2>4, <2>5
  <2>7. LineMoves'
    <3>1. r # <<>>
      BY <1>1, <2>3, <2>4, <2>5, EmptyQueue
    <3> QED BY <2>1, <3>1 DEF LineMoves
  <2>8. OfflineHasTimer'
    BY <2>1 DEF RtuInv, OfflineHasTimer
  <2>9. \A v \in RtuUnits : planned'[v] > 0 \/ HasRead(requests', v) \/ v \in offlineTimer'
    <3>1. \A v : HasRead(q, v) => HasRead(r, v)
      BY <2>5, <2>6 DEF HasRead
    <3> HIDE DEF q
    <3> QED BY <1>1, <1>3, <2>1, <3>1
  <2>10. ~SlowLine => OneRead(requests', group', planned') /\ \A v \in RtuUnits : planned'[v] <= 1
    <3>1. ~SlowLine => OneRead(r, group, planned)
      <4> HIDE DEF q
      <4> QED BY <1>3, <2>5, <2>6 DEF OneRead
    <3> QED BY <1>1, <1>3, <2>1, <3>1
  <2>11. DOMAIN linked' = RtuUnits /\ IsQueue(requests')
         /\ \A i \in 1 .. Len(requests') : IsOperation(requests'[i])
    BY <1>3, <2>1, <2>4, <2>5, <2>6
  <2> QED BY <1>1, <1>3, <2>7, <2>8, <2>9, <2>10, <2>11 DEF RtuInv
<1> QED BY <1>5, <1>6

LEMMA PlannedKeeps == ASSUME RtuInv, NEW u \in RtuUnits, PlannedRead(u) PROVE RtuInv'
<1> DEFINE op == Read(u, group[u])
           m == planned[u] - 1
<1>1. /\ planned[u] > 0 /\ planned' = [planned EXCEPT ![u] = m] /\ Prepared(op)
      /\ UNCHANGED <<group, offlineTimer, linked>>
  BY DEF PlannedRead
<1>2. op = [unit |-> u, write |-> FALSE, group |-> group[u], failed |-> 0]
  BY DEF Read
<1>3. op.unit = u /\ op.write = FALSE /\ op.group = group[u] /\ op.failed = 0
  BY <1>2
<1>4. IsOperation(op)
  BY <1>2, <1>3 DEF IsOperation
<1>5. requests' = Append(requests, op)
  BY <1>1 DEF Prepared
<1> HIDE DEF op
<1>6. /\ IsQueue(requests') /\ \A i \in 1 .. Len(requests') : IsOperation(requests'[i])
      /\ LineMoves' /\ \A v : HasRead(requests, v) => HasRead(requests', v)
      /\ HasRead(requests', u)
  BY <1>1, <1>3, <1>4, ReadAdded
<1>7. /\ IsQueue(requests) /\ \A i \in 1 .. Len(requests) : requests[i].unit \in RtuUnits
      /\ DOMAIN group = RtuUnits /\ DOMAIN linked = RtuUnits /\ planned \in [RtuUnits -> Nat]
      /\ \A v \in RtuUnits : planned[v] > 0 \/ HasRead(requests, v) \/ v \in offlineTimer
      /\ ~SlowLine => OneRead(requests, group, planned) /\ \A v \in RtuUnits : planned[v] <= 1
  BY DEF RtuInv, IsOperation
<1>8. m \in Nat /\ (planned[u] <= 1 => m = 0)
  BY <1>1, <1>7
<1> HIDE DEF m
<1>9. /\ planned' \in [RtuUnits -> Nat] /\ planned'[u] = m
      /\ \A v \in RtuUnits : v # u => planned'[v] = planned[v]
  BY <1>1, <1>7, <1>8
<1>10. OfflineHasTimer'
  BY <1>1 DEF RtuInv, OfflineHasTimer
<1>11. \A v \in RtuUnits : planned'[v] > 0 \/ HasRead(requests', v) \/ v \in offlineTimer'
  BY <1>1, <1>6, <1>7, <1>9
<1>12. ASSUME ~SlowLine
       PROVE  OneRead(requests', group', planned') /\ \A v \in RtuUnits : planned'[v] <= 1
  <2>1. m = 0 /\ OneRead(requests, group, planned)
    BY <1>7, <1>8, <1>12
  <2>2. ~HasRead(requests, u)
    BY <1>1, <2>1 DEF OneRead, HasRead
  <2>3. OneRead(requests, group, planned')
    <3>1. \A v \in RtuUnits : v # u => group[v] = group[v] /\ planned'[v] = planned[v]
      BY <1>9
    <3> QED BY <1>7, <2>1, <2>2, <3>1, OneReadChanged
  <2>4. OneRead(requests', group', planned')
    <3>1. planned'[op.unit] = 0 /\ ~HasRead(requests, op.unit) /\ op.group = group[op.unit]
      BY <1>3, <1>9, <2>1, <2>2
    <3>2. OneRead(Append(requests, op), group, planned')
      BY <1>7, <2>3, <3>1, OneReadAdded
    <3> QED BY <1>1, <1>5, <3>2
  <2>5. \A v \in RtuUnits : planned'[v] <= 1
    BY <1>7, <1>9, <1>12, <2>1
  <2> QED BY <2>4, <2>5
<1> QED BY <1>1, <1>6, <1>7, <1>9, <1>10, <1>11, <1>12 DEF RtuInv

LEMMA TimerKeeps == ASSUME RtuInv, NEW u \in RtuUnits, Restart(u) PROVE RtuInv'
<1> DEFINE op == Read(u, FirstGroup)
           g == FirstGroup
<1>1. /\ SlowLine \/ ~Polled(u)
      /\ group' = [group EXCEPT ![u] = g] /\ Prepared(op)
      /\ UNCHANGED <<planned, offlineTimer, linked>>
  BY DEF Restart
<1> HIDE DEF g
<1>2. op = [unit |-> u, write |-> FALSE, group |-> g, failed |-> 0]
  BY DEF Read, g
<1>3. op.unit = u /\ op.write = FALSE /\ op.group = g /\ op.failed = 0
  BY <1>2
<1>4. IsOperation(op)
  BY <1>2, <1>3 DEF IsOperation
<1>5. requests' = Append(requests, op)
  BY <1>1 DEF Prepared
<1> HIDE DEF op
<1>6. /\ IsQueue(requests') /\ \A i \in 1 .. Len(requests') : IsOperation(requests'[i])
      /\ LineMoves' /\ \A v : HasRead(requests, v) => HasRead(requests', v)
      /\ HasRead(requests', u)
  BY <1>1, <1>3, <1>4, ReadAdded
<1>7. /\ IsQueue(requests) /\ \A i \in 1 .. Len(requests) : requests[i].unit \in RtuUnits
      /\ DOMAIN group = RtuUnits /\ DOMAIN linked = RtuUnits /\ planned \in [RtuUnits -> Nat]
      /\ \A v \in RtuUnits : planned[v] > 0 \/ HasRead(requests, v) \/ v \in offlineTimer
      /\ ~SlowLine => OneRead(requests, group, planned) /\ \A v \in RtuUnits : planned[v] <= 1
  BY DEF RtuInv, IsOperation
<1>8. /\ DOMAIN group' = RtuUnits /\ group'[u] = g
      /\ \A v \in RtuUnits : v # u => group'[v] = group[v]
  BY <1>1, <1>7
<1>9. OfflineHasTimer'
  BY <1>1 DEF RtuInv, OfflineHasTimer
<1>10. \A v \in RtuUnits : planned'[v] > 0 \/ HasRead(requests', v) \/ v \in offlineTimer'
  BY <1>1, <1>6, <1>7
<1>11. ASSUME ~SlowLine
       PROVE  OneRead(requests', group', planned') /\ \A v \in RtuUnits : planned'[v] <= 1
  <2>1. OneRead(requests, group, planned)
    BY <1>7, <1>11
  <2>2. ~HasRead(requests, u) /\ ~(planned[u] > 0)
    BY <1>1, <1>11, PolledIs
  <2>3. OneRead(requests, group', planned)
    <3>1. \A v \in RtuUnits : v # u => group'[v] = group[v] /\ planned[v] = planned[v]
      BY <1>8
    <3> QED BY <1>7, <2>1, <2>2, <3>1, OneReadChanged
  <2>4. OneRead(requests', group', planned')
    <3>1. planned[op.unit] = 0
      BY <1>3, <1>7, <2>2
    <3>2. ~HasRead(requests, op.unit) /\ op.group = group'[op.unit]
      BY <1>3, <1>8, <2>2
    <3>3. OneRead(Append(requests, op), group', planned)
      BY <1>7, <2>3, <3>1, <3>2, OneReadAdded
    <3> QED BY <1>1, <1>5, <3>3
  <2> QED BY <1>1, <1>7, <1>11, <2>4
<1> QED BY <1>1, <1>6, <1>7, <1>8, <1>9, <1>10, <1>11 DEF RtuInv

LEMMA WriteKeeps == ASSUME RtuInv, NEW u \in RtuUnits, WriteRegisters(u) PROVE RtuInv'
<1> DEFINE g == group[u]
           r == Read(u, g)
           op == [r EXCEPT !.write = TRUE]
<1>1. Prepared(op) /\ UNCHANGED <<group, planned, offlineTimer, linked>>
  BY DEF WriteRegisters
<1>2. op = [unit |-> u, write |-> TRUE, group |-> g, failed |-> 0]
  <2> DEFINE yes == TRUE
             no == FALSE
  <2>1. /\ r = [unit |-> u, write |-> no, group |-> g, failed |-> 0]
        /\ op = [r EXCEPT !.write = yes]
    BY DEF Read
  <2> HIDE DEF g, r, op, yes, no
  <2>2. op = [unit |-> u, write |-> yes, group |-> g, failed |-> 0]
    BY <2>1
  <2> QED BY <2>2 DEF yes
<1> HIDE DEF op, g
<1>3. op.unit = u /\ op.write = TRUE /\ op.group = g /\ op.failed = 0
  BY <1>2
<1>4. IsOperation(op)
  BY <1>2, <1>3 DEF IsOperation
<1>5. requests' = Append(requests, op)
  BY <1>1 DEF Prepared
<1>6. /\ IsQueue(requests') /\ \A i \in 1 .. Len(requests') : IsOperation(requests'[i])
      /\ LineMoves' /\ \A v : HasRead(requests, v) => HasRead(requests', v)
  BY <1>1, <1>4, ReadAdded
<1>7. /\ IsQueue(requests)
      /\ DOMAIN group = RtuUnits /\ DOMAIN linked = RtuUnits /\ planned \in [RtuUnits -> Nat]
      /\ \A v \in RtuUnits : planned[v] > 0 \/ HasRead(requests, v) \/ v \in offlineTimer
      /\ ~SlowLine => OneRead(requests, group, planned) /\ \A v \in RtuUnits : planned[v] <= 1
  BY DEF RtuInv
<1>8. OfflineHasTimer'
  BY <1>1 DEF RtuInv, OfflineHasTimer
<1>9. \A v \in RtuUnits : planned'[v] > 0 \/ HasRead(requests', v) \/ v \in offlineTimer'
  BY <1>1, <1>6, <1>7
<1>10. ~SlowLine => OneRead(requests', group', planned') /\ \A v \in RtuUnits : planned'[v] <= 1
  <2>1. ~SlowLine => OneRead(Append(requests, op), group, planned)
    BY <1>3, <1>7, OneReadAdded
  <2> QED BY <1>1, <1>5, <1>7, <2>1
<1> QED BY <1>1, <1>6, <1>7, <1>8, <1>9, <1>10 DEF RtuInv

LEMMA RtuInvStep == RtuInv /\ [RtuNext]_rtuVars => RtuInv'
<1> SUFFICES ASSUME RtuInv, [RtuNext]_rtuVars PROVE RtuInv'
  OBVIOUS
<1>0. line = "idle" <=> requests = <<>>
  BY DEF RtuInv, LineMoves
<1>1. CASE Scheduled \/ Written \/ PortTerminates
  <2>1. /\ UNCHANGED <<requests, group, planned, offlineTimer, linked>>
        /\ line' = "idle" <=> requests' = <<>>
    BY <1>0, <1>1 DEF Scheduled, Written, PortTerminates, NextOn
  <2> QED BY <2>1, LineKeeps
<1>2. CASE OperationSuccess
  BY <1>2, SuccessKeeps
<1>3. CASE OperationFailed
  BY <1>3, FailureKeeps
<1>4. ASSUME NEW u \in RtuUnits, PlannedRead(u) \/ Restart(u) \/ WriteRegisters(u) PROVE RtuInv'
  BY <1>4, PlannedKeeps, TimerKeeps, WriteKeeps
<1>5. CASE UNCHANGED rtuVars
  <2>1. UNCHANGED <<requests, line, group, planned, offlineTimer, linked>>
    BY <1>5 DEF rtuVars
  <2>2. line' = "idle" <=> requests' = <<>>
    BY <1>0, <2>1
  <2> QED BY <2>1, <2>2, LineKeeps
<1> QED BY <1>1, <1>2, <1>3, <1>4, <1>5 DEF RtuNext

(* A serial line with any number of units, groups of registers and writes:  *)
(* no operation waits on a line that rests, no unit is forgotten, and an     *)
(* answer is read with the group it was asked for unless the line is so slow *)
(* that the timer of a unit restarts one that is still polled.              *)
THEOREM RtuIsSafe == RtuSpec => []RtuSafe
<1> QED BY RtuInvInit, RtuInvStep, RtuInvIsSafe, PTL DEF RtuSpec

-----------------------------------------------------------------------------
(* The composition of the devices.  The converter has its device or the     *)
(* emulator behind it, and so have the I/O units.                          *)
DevicesInv ==
  /\ ConverterInv /\ IoInv /\ MasterInv /\ RtuInv /\ TcpInv
  /\ focus = "emufc" => EmuFcInv
  /\ focus = "emulator" => EmuInv

LEMMA DevicesInvInit == NodesInit => DevicesInv
<1> SUFFICES ASSUME NodesInit PROVE DevicesInv
  OBVIOUS
<1>1. ConverterInv /\ IoInv /\ MasterInv /\ RtuInv /\ TcpInv
  BY ConverterInvInit, IoInvInit, MasterInvInit, RtuInvInit, TcpInvInit DEF NodesInit
<1>2. ASSUME focus = "emufc" PROVE EmuFcInv
  <2>1. ConverterInit /\ device = "idle" /\ deviceSet = 0 /\ NothingSet
    BY <1>2 DEF NodesInit, Only
  <2> QED BY <2>1, EmuFcInvInit DEF EmuFcInit
<1>3. ASSUME focus = "emulator" PROVE EmuInv
  <2>1. IoInit /\ PagesBlank /\ ioOuts = {}
    BY <1>3 DEF NodesInit
  <2> QED BY <2>1, EmuInvInit
<1> QED BY <1>1, <1>2, <1>3 DEF DevicesInv

LEMMA DeviceSteps ==
  ASSUME [NodesNext]_nodesVars
  PROVE  /\ focus' = focus
         /\ [MasterNext]_busVars /\ [RtuNext]_rtuVars /\ [TcpNext]_tcpVars
         /\ [ConverterNext]_fcVars \/ (focus = "emufc" /\ EmuFcNext)
         /\ focus = "emufc" => EmuFcNext \/ UNCHANGED <<fcVars, emuFcVars>>
         /\ [IoNext]_ioVars \/ (focus = "emulator" /\ EmuNext)
         /\ focus = "emulator" => [EmuNext]_<<ioVars, emuVars>>
<1>1. focus' = focus /\ [MasterNext]_busVars /\ [RtuNext]_rtuVars /\ [TcpNext]_tcpVars
  BY DEF NodesNext, Others, nodesVars
<1>2. [ConverterNext]_fcVars \/ (focus = "emufc" /\ EmuFcNext)
  BY DEF NodesNext, Others, nodesVars
<1>3. focus = "emufc" => EmuFcNext \/ UNCHANGED <<fcVars, emuFcVars>>
  BY DEF NodesNext, Others, nodesVars
<1>4. [IoNext]_ioVars \/ (focus = "emulator" /\ EmuNext)
  BY DEF NodesNext, Others, nodesVars
<1>5. focus = "emulator" => [EmuNext]_<<ioVars, emuVars>>
  BY DEF NodesNext, Others, nodesVars
<1> QED BY <1>1, <1>2, <1>3, <1>4, <1>5

LEMMA DevicesInvStep ==
  ASSUME OwnPlaces, DevicesInv, [NodesNext]_nodesVars
  PROVE  DevicesInv'
<1>1. MasterInv' /\ RtuInv' /\ TcpInv'
  BY DeviceSteps, MasterInvStep, RtuInvStep, TcpInvStep DEF DevicesInv
<1>2. ConverterInv' /\ (focus' = "emufc" => EmuFcInv')
  <2>1. CASE focus = "emufc" /\ EmuFcNext
    BY <2>1, DeviceSteps, EmuFcStep DEF DevicesInv
  <2>2. CASE ~(focus = "emufc" /\ EmuFcNext)
    <3>1. ConverterInv'
      BY <2>2, DeviceSteps, ConverterInvStep DEF DevicesInv
    <3>2. ASSUME focus' = "emufc" PROVE EmuFcInv'
      <4>1. EmuFcInv /\ UNCHANGED <<fcVars, emuFcVars>>
        BY <2>2, <3>2, DeviceSteps DEF DevicesInv
      <4>2. UNCHANGED <<device, command, statusBits, statusReg, masks, maskRegs>>
        BY <4>1 DEF fcVars, deviceVars, emuFcVars
      <4>3. Estatus' = Estatus
        BY <4>2 DEF Estatus
      <4> QED BY <4>1, <4>2, <4>3 DEF EmuFcInv
    <3> QED BY <3>1, <3>2
  <2> QED BY <2>1, <2>2
<1>3. IoInv' /\ (focus' = "emulator" => EmuInv')
  <2>1. CASE focus = "emulator"
    BY <2>1, DeviceSteps, EmuInvStep DEF DevicesInv
  <2>2. CASE focus # "emulator"
    BY <2>2, DeviceSteps, IoInvStep DEF DevicesInv
  <2> QED BY <2>1, <2>2
<1> QED BY <1>1, <1>2, <1>3 DEF DevicesInv

(***************************************************************************)
(* The devices are driven as told and known as they are: the converter is   *)
(* off once all has arrived unless it is to work (frequency-converter.cpp,   *)
(* the queue of writes of modbus-unit.cpp), the relays and the PLC have the  *)
(* outputs that were asked for and the ports what was read of them           *)
(* (aom/io), the drives get the orders of one cycle, the lines lose no unit  *)
(* and mistake no answer, and the emulator of all of it shows on its pages   *)
(* what it holds and hides no error from the node (sys-emu).  A start that   *)
(* is undone before a poll has seen it is left out (`doubt').  It takes      *)
(* entries with places of their own.                                       *)
(***************************************************************************)
THEOREM DevicesAreSafe ==
  ASSUME OwnPlaces
  PROVE  NodesSpec => []DevicesSafe
<1>1. NodesInit => DevicesInv
  BY DevicesInvInit
<1>2. DevicesInv /\ [NodesNext]_nodesVars => DevicesInv'
  BY DevicesInvStep
<1>3. DevicesInv => DevicesSafe
  BY ConverterInvIsSafe, IoInvFollows, RtuInvIsSafe, TcpInvIsSafe, EmuFcInvIsSafe
     DEF DevicesInv, DevicesSafe, MasterInv, EmuInv, EmulatorSafe
<1> QED BY <1>1, <1>2, <1>3, PTL DEF NodesSpec
=============================================================================
