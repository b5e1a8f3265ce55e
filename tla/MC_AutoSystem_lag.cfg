SPECIFICATION Spec
CONSTANTS
  X = X
  Y = Y
  Axes = {X}
  NoProgram = NoProgram
  Programs <- MCShortSegments
  SegmentsPerReport = 2
  EchoIdle = FALSE
  PatientUser = TRUE
  StaleButton = FALSE
  MaxCommands = 2
  MaxFailures = 0
INVARIANT
  NoFault
CHECK_DEADLOCK FALSE
