SPECIFICATION MotionSpec
CONSTANTS
  PlanAxes = {x, y, z}
  MaxSteps = 3
  Needs <- MCNeeds
  MaxAxes = 4
  MaxWay = 3
  MaxLimit = 3
  Rounding = FALSE
  Directions = {"up"}
  MaxCycle = 2
  MaxRamp = 2
  MaxEven = 2
  MaxIntervals = 2
  StartTimes = {1, 2, 5}
  Horizon = 30
  MayStop = TRUE
INVARIANTS
  PlanIsTask
  SearchIsRight
  FollowsPlan
PROPERTIES
  StopsShort
  MotionEnds
CHECK_DEADLOCK FALSE
