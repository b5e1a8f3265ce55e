SPECIFICATION FairSpec
CONSTANTS
  X = X
  Y = Y
  Axes = {X}
  NoProgram = NoProgram
  Programs <- MCPrograms
  SegmentsPerReport = 1
  EchoIdle = TRUE
  PatientUser = TRUE
  StaleButton = FALSE
  MaxCommands = 3
  MaxFailures = 1
INVARIANTS
  RunIsStoppable
  ListenersFollowState
  StoppedMeansOff
PROPERTIES
  RunEnds
  OfferedAgain
CHECK_DEADLOCK FALSE
