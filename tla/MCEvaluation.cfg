SPECIFICATION Spec
CONSTANTS
  Markets = {long, short}
  long = long
  short = short
  Bars <- MCBars
  Warmup <- MCWarmup
  Spaces <- MCSpaces
  NoParameter = NoParameter
  Landscapes <- MCLandscapes
  Metrics <- MCMetrics
  InSample = {0, 120, 300}
  Targets = {150, 250}
  Bar <- MCBar
  OosPercent = 30
  Folds = 4
  MaxRounds = 1
INVARIANTS TypeOK SelectionStopsBeforeTail VerdictIsMonotone SpikesDoNotPass ShipsWhatWasMeasured
CHECK_DEADLOCK FALSE
