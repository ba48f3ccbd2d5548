SPECIFICATION GenomeSpec
CONSTANTS
  Bred = {"ma_cross", "keltner_trend"}
  Risks <- MCRisks
  GatePicks = {"adx"}
  GateLevels <- MCGateLevels
  Levels <- MCLevels
  Stops <- MCStops
  Targets <- MCTargets
  GateCap = 2
  MaxConditions = 5
  MaxRepairRounds = 2
  MaxOperators = 3
  Budget = 5
  CrossoverCost = 2
INVARIANTS GenomeTypeOK StrategiesAreCoherent OnlyPairsDefeatRepair
CHECK_DEADLOCK FALSE
