SPECIFICATION FairSpec
CONSTANTS
  Axes = {X, Y}
  EchoIdle = TRUE
  PatientClient = TRUE
  SlowDrive = TRUE
  MaxPhases = 2
  MaxTasks = 1
  MaxStops = 1
  MaxFailures = 1
INVARIANTS
  WireTellsExecution
  DrivenIsFollowed
  StoppedClientMeansStill
  PhasesInOrder
PROPERTIES
  ReadyMeansDone
  BlockedIsFreed
  TaskIsAnswered
CHECK_DEADLOCK FALSE
