SPECIFICATION TimedSpec
CONSTANTS
  Directions = {"down"}
  MaxCycle = 1
  MaxRamp = 1
  MaxEven = 3
  MaxIntervals = 1
  StartTimes = {1}
  Horizon = 30
  MayStop = TRUE
INVARIANTS
  NeverTurnsBack
CHECK_DEADLOCK FALSE
