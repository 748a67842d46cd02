SPECIFICATION FairSpec
CONSTANTS
  t1 = t1
  t2 = t2
  r1 = r1
  r2 = r2
  NoRun = NoRun
  NoTask = NoTask
  Tasks <- Pair
  ListRank <- PairRank
  RunOf <- TwoRuns
  Deps <- Loose
  RetryCap <- PairNoRetry
  Runs = {r1, r2}
  SharedTree = {}
  Concurrency = 1
  Ops = {"stop"}
  MaxAgents = 1
  MaxCrashes = 0
PROPERTY IdleSlotIsUsed
