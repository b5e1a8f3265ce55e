------------------------------ MODULE MC_Nodes ------------------------------
(***************************************************************************)
(* Model of the parts that share no state with each other: the locks, the   *)
(* cooling, the panel, the converter, the I/O units and the EtherCAT cycle,  *)
(* the files and the editor of programs, the windows of the GUI, the        *)
(* emulator of the machine.  A behaviour is about one of them, `focus'; the *)
(* others stay in one initial state.                                       *)
(***************************************************************************)
EXTENDS LockSystem, BarrelCtl, DrainageCtl, DiverterValve, BarrelLvlCtl,
        PanelNodes, Emulator, EmuConverter, EtherCatMaster, RtuLine, TcpUnit, AutoPage,
        ProgramFiles, ProgramEditor, HandWindow, MainWindow

VARIABLE focus

MCReadings == {1, 3, 5}
MCBounds == {<<0, 2, 4, 6>>, <<NaN, 2, 4, 4>>}

MCTemperatures == 1..5
MCBarrelConfigs ==
    {c \in [heater : BOOLEAN, cooler : BOOLEAN, pumpFull : BOOLEAN, min : {2}, max : {2, 4}] :
        c.pumpFull \/ c.heater \/ c.cooler}

MCPanelSpeeds == {<<1, 2, 3>>, <<2, 4, 6>>}
MCRcuSpeeds == {<<5, 7, 9>>}
MCRecordLists == {<<>>, <<1>>, <<1, 2>>, <<3, 4, 5, 6>>}

Nodes == {"locks", "barrel", "drainage", "diverter", "refill", "panel", "converter", "units",
          "emulator", "emufc", "master", "rtu", "tcp", "page", "files", "editor",
          "window", "sprayer", "frame"}

Only(f, fixed) == focus = f \/ fixed

NodesInit ==
    /\ focus \in Nodes
    /\ LockInit /\ Only("locks", lockNode = "flags")
    /\ BarrelInit
    /\ Only("barrel", barrelCfg = CHOOSE c \in BarrelConfigs : TRUE)
    /\ DrainInit /\ Only("drainage", level = 0)
    /\ ValveInit /\ Only("diverter", items = 1..1 /\ valveAt[1] = "open")
    /\ LvlInit
    /\ PanelInit
    /\ Only("panel", panelPart = "speed" /\ speed.panel = CHOOSE p \in PanelSpeeds : TRUE)
    /\ ConverterInit /\ Only("converter", device = "idle" /\ deviceSet = 0)
    /\ IoInit /\ PagesBlank
    \* the pages of the emulator show each list by itself, lists of sensors all alike
    /\ focus = "emulator" =>
           ioOuts = {} /\ Cardinality(watched) = 1 /\ watched \cap {"DP", "FC"} = {}
    /\ focus \notin {"units", "emulator"} =>
           ioUnit = PR205_A2 /\ watched = {"FC"} /\ ioOuts = {}
    /\ NothingSet
    /\ MasterInit
    /\ Only("master", \A e \in Entries : held[e] = Zero /\ registers[e] = Zero)
    /\ RtuInit /\ Only("rtu", \A i \in 1 .. Len(requests) - 1 : requests[i].unit = "A")
    /\ TcpInit
    /\ PageInit /\ Only("page", Len(pageProg) = 3)
    /\ FilesInit /\ Only("files", files = [d \in Disks |-> [n \in Names |-> NoFile]])
    /\ EditorInit
    /\ WindowInit /\ Only("window", \A a \in TileAxes : rcuAxis[a] = NoAxis)
    /\ FrameInit

(* The step of the node in focus leaves the variables of the others alone. *)
Others(f) ==
    /\ UNCHANGED focus
    /\ IF f = "locks" THEN TRUE ELSE UNCHANGED lockVars
    /\ IF f = "barrel" THEN TRUE ELSE UNCHANGED barrelVars
    /\ IF f = "drainage" THEN TRUE ELSE UNCHANGED drainVars
    /\ IF f = "diverter" THEN TRUE ELSE UNCHANGED valveVars
    /\ IF f = "refill" THEN TRUE ELSE UNCHANGED lvlVars
    /\ IF f = "panel" THEN TRUE ELSE UNCHANGED panelVars
    /\ IF f \in {"converter", "emufc"} THEN TRUE ELSE UNCHANGED fcVars
    /\ IF f = "emufc" THEN TRUE ELSE UNCHANGED emuFcVars
    /\ IF f \in {"units", "emulator"} THEN TRUE ELSE UNCHANGED ioVars
    /\ IF f = "emulator" THEN TRUE ELSE UNCHANGED emuVars
    /\ IF f = "master" THEN TRUE ELSE UNCHANGED busVars
    /\ IF f = "rtu" THEN TRUE ELSE UNCHANGED rtuVars
    /\ IF f = "tcp" THEN TRUE ELSE UNCHANGED tcpVars
    /\ IF f = "page" THEN TRUE ELSE UNCHANGED autoPageVars
    /\ IF f = "files" THEN TRUE ELSE UNCHANGED filesVars
    /\ IF f = "editor" THEN TRUE ELSE UNCHANGED editorVars
    /\ IF f \in {"window", "sprayer"} THEN TRUE ELSE UNCHANGED windowVars
    /\ IF f = "frame" THEN TRUE ELSE UNCHANGED frameVars

NodesNext ==
    \/ focus = "locks" /\ LockNext /\ Others("locks")
    \/ focus = "barrel" /\ BarrelNext /\ Others("barrel")
    \/ focus = "drainage" /\ DrainNext /\ Others("drainage")
    \/ focus = "diverter" /\ ValveNext /\ Others("diverter")
    \/ focus = "refill" /\ LvlNext /\ Others("refill")
    \/ focus = "panel" /\ PanelNext /\ Others("panel")
    \/ focus = "converter" /\ ConverterNext /\ Others("converter")
    \/ focus = "units" /\ IoNext /\ Others("units")
    \/ focus = "emulator" /\ EmuNext /\ Others("emulator")
    \/ focus = "emufc" /\ EmuFcNext /\ Others("emufc")
    \/ focus = "master" /\ MasterNext /\ Others("master")
    \/ focus = "rtu" /\ RtuNext /\ Others("rtu")
    \/ focus = "tcp" /\ TcpNext /\ Others("tcp")
    \/ focus = "page" /\ PageNext /\ Others("page")
    \/ focus = "files" /\ FilesNext /\ Others("files")
    \/ focus = "editor" /\ EditorNext /\ Others("editor")
    \/ focus = "window" /\ AxesNext /\ Others("window")
    \/ focus = "sprayer" /\ SprayerNext /\ Others("sprayer")
    \/ focus = "frame" /\ FrameNext /\ Others("frame")

nodesVars == <<focus, lockVars, barrelVars, drainVars, valveVars, lvlVars, panelVars,
               fcVars, ioVars, emuVars, emuFcVars, busVars, rtuVars, tcpVars, autoPageVars,
               filesVars, editorVars, windowVars, frameVars>>

NodesSpec == NodesInit /\ [][NodesNext]_nodesVars

NodesTypeOK ==
    /\ focus \in Nodes
    /\ LockTypeOK /\ BarrelTypeOK /\ DrainTypeOK /\ ValveTypeOK
    /\ LvlTypeOK /\ PanelTypeOK /\ ConverterTypeOK /\ IoTypeOK
    /\ EmuTypeOK /\ EmuFcTypeOK
    /\ MasterTypeOK /\ RtuTypeOK /\ TcpTypeOK /\ PageTypeOK /\ FilesTypeOK /\ EditorTypeOK
    /\ WindowTypeOK /\ FrameTypeOK

MCMasterDrives == <<"X", "Y">>
MCOrders == <<"control">>
MCReports == <<"status">>

MCRtuUnits == {"A", "B"}

Row(kind) == [kind |-> kind]
Loop(to, N) == [kind |-> "goto", to |-> to, N |-> N]
MCPagePrograms ==
    {<<Row("operation"), Row("operation"), Loop(1, 2), Row("operation"), Loop(0, 1),
       Row("operation")>>,
     <<Row("operation"), Row("pause"), Loop(0, 2)>>}

(* The converter, the I/O units and the drives follow what they were told,  *)
(* what they report is known here, their lines carry every operation to the *)
(* unit it is for, and the emulator shows what it holds.                   *)
DevicesSafe ==
    /\ focus = "converter" => ConverterSafe
    /\ focus = "units" => UnitsFollow
    /\ focus = "emulator" => UnitsFollow /\ EmulatorSafe
    /\ focus = "emufc" => ConverterSafe /\ EmuConverterSafe
    /\ focus = "master" => MasterSafe
    /\ focus = "rtu" => RtuSafe
    /\ focus = "tcp" => TcpSafe

(* The panel shows the speeds and currents that rule, the page of the       *)
(* automatic mode the run as it is, the manual window the axes and the      *)
(* speeds it drives them at, the frame the mode and the box that covers it. *)
ScreensShow ==
    /\ focus = "panel" => PanelCurrent
    /\ focus = "page" => PageShowsRun
    /\ focus \in {"window", "sprayer"} => WindowShows
    /\ focus = "frame" => FrameShows
=============================================================================
