SPECIFICATION Spec
CONSTANTS
  t1 = t1
  t2 = t2
  r1 = r1
  r2 = r2
  NoRun = NoRun
  NoTask = NoTask
  Tasks <- One
  ListRank <- OneRank
  RunOf <- OneRun
  Deps <- OneDeps
  RetryCap <- OneRetry
  Runs = {r1}
  SharedTree = {}
  Concurrency = 1
  Ops = {"stop"}
  MaxAgents = 1
  MaxCrashes = 0
INVARIANT StoppedIsQuiet
