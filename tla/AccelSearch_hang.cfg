SPECIFICATION AccelFairSpec
CONSTANTS
  MaxAxes = 3
  MaxWay = 2
  MaxLimit = 2
  Rounding = FALSE
PROPERTIES
  SearchEnds
CHECK_DEADLOCK FALSE
