SPECIFICATION Spec
CONSTANTS
  Projects = {p1, p2}
  Strategies = {s1, s2}
  Ideas = {a, b}
  NoRules = NoRules
  Shape <- MCShape
  MaxGeneration = 1
  PromoteTopK = 1
  MaxTrouble = 1
  MaxBusy = 0
INVARIANTS TypeOK RunningIsCarried RejectedIsKnown RulesAreKept
SYMMETRY Alike
CHECK_DEADLOCK FALSE
