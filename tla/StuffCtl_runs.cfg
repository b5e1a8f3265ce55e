SPECIFICATION FairSpec
CONSTANTS
  Switches = {sprayer}
  SpinAxes = {spindle}
  EchoIdle = FALSE
  PatientClient = TRUE
  MaxRuns = 2
  MaxOperations = 1
  MaxFailures = 1
INVARIANTS
  ActiveIsInUse
  InactiveMeansOff
  StoppedClientMeansOff
PROPERTIES
  ImplementsStuffSide
  FaultyIsNeverStarted
  FailureStopsAll
  EndedRunIsNoticed
CHECK_DEADLOCK FALSE
