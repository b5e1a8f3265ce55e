SPECIFICATION NodesSpec
CONSTANTS
    Lockers = {l1, l2}
    Subsystems = {s1, s2}
    Readings <- MCReadings
    Bounds <- MCBounds
    NaN = NaN
    LossReported = TRUE
    Temperatures <- MCTemperatures
    BarrelConfigs <- MCBarrelConfigs
    NoReading = NoReading
    RepeatedOn = FALSE
    Amounts = {1, 3}
    MaxInlet = 1
    Unknown = Unknown
    PanelSpeeds <- MCPanelSpeeds
    RcuSpeeds <- MCRcuSpeeds
    RecordLists <- MCRecordLists
    ErrorBits = {e1, e2}
    Currents = {0, 1, 2}
    MaxWrites = 1
    ErrorRegisters = {r1, r2}
    MaxIoWrites = 0
    Drives <- MCMasterDrives
    RwKeys <- MCOrders
    RoKeys <- MCReports
    Words = {0, 1}
    Zero = 0
    Nothing = Nothing
    RtuUnits <- MCRtuUnits
    Groups = {1, 2}
    MaxRtuWrites = 1
    SlowLine = FALSE
    TcpGroups = {1, 2}
    TcpValues = {0, 1}
    MaxTcpWrites = 2
    PagePrograms <- MCPagePrograms
    StopBeforeLoop = FALSE
    Names = {f}
    Contents = {c1, c2}
    Broken = Broken
    NoFile = NoFile
    NoName = NoName
    MaxDiskChanges = 2
    EventsWhileReading = FALSE
    SecondCopy = FALSE
    EditTypes = {"main", "loop", "fc"}
    Kilowatts = {1}
    MaxRows = 3
    MaxEdits = 4
    MaxPower = 1000
    TileAxes = {ax, ay}
    NoAxis = NoAxis
    NoNumber = NoNumber
    SetSpeeds = {1}
    SpeedLost = FALSE
    BkiKeys = {0, 1, 2}
INVARIANTS
    SubsystemsGuarded
    BarrelSafe
    PumpFitsValve
    RefillSafe
    ScreensShow
    DevicesSafe
    ProgramsListed
PROPERTIES
    NeverFreedWhileCritical
    PumpObeysContacts
    ImplementsRowTable
CHECK_DEADLOCK FALSE
