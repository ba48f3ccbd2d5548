SPECIFICATION Spec
CONSTANTS
  Bar <- MCBar
  RiskBlock <- MCRiskBlock
  AtrPeriod = 5
  InitialAtr = 2
  Cooldown = 2
  Adverse = 1
  Commission = 1
  PointValue = 2
  InitialBalance = 2000
  Bars = 3
INVARIANT EntryUsesThePast
CHECK_DEADLOCK FALSE
