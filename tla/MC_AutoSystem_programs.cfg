SPECIFICATION Spec
CONSTANTS
  X = X
  Y = Y
  Axes = {X, Y}
  NoProgram = NoProgram
  Programs <- MCPrograms
  SegmentsPerReport = 1
  EchoIdle = FALSE
  PatientUser = TRUE
  StaleButton = FALSE
  MaxCommands = 3
  MaxFailures = 1
INVARIANTS
  NoFault
  InPlace
PROPERTIES
  ImplementsProgramRun
CHECK_DEADLOCK FALSE
