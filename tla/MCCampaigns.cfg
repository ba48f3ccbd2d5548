SPECIFICATION FairSpec
CONSTANTS
  Campaigns = {first, second}
  first = first
  stock = stock
  gold = gold
  Assets = {stock}
  Timeframes = {"D1", "M15"}
  Recipes = {"cross"}
  ConfiguredFor <- MCConfigured
  Payloads <- ShortAndLong
  None = None
  MaxAllowed = 3
  PerCycle = 2
  MaxCycles = 1
  Followed <- MCFollowed
  MaxCommands = 2
INVARIANTS TypeOK WithinItsBrief
PROPERTIES OnlyCampaigns CampaignEnds
CHECK_DEADLOCK FALSE
