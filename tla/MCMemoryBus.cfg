SPECIFICATION FairSpec
CONSTANTS
  tester = tester
  market = market
  tester1 = tester1
  tester2 = tester2
  market1 = market1
  Group <- MCGroup
  Consumer <- MCConsumer
  GroupOf <- MCGroupOf
  Topic <- MCTopic
  Wanted <- MCWanted
  Body <- MCBody
  MaxLog = 3
INVARIANTS TypeOK QueueState WaitersAreOpenCalls
PROPERTIES SharedCursor CallsEnd
CHECK_DEADLOCK FALSE
