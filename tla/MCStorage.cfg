SPECIFICATION Spec
CONSTANTS
  p1 = p1
  p2 = p2
  name1 = name1
  name2 = name2
  marketData = marketData
  tester = tester
  Package = {p1, p2}
  Name = {name1, name2}
  Nothing = Nothing
  Settings <- MCSettings
  Caller = {marketData, tester}
  MarketData = marketData
INVARIANTS TypesOK SoleCopyIsKept ReadersGetIt
PROPERTIES CacheIsSound
