SPECIFICATION Spec
CONSTANTS
  Parts = {"registry", "gates", "events", "tail", "pr", "issue", "graph"}
  g = g
  ra = ra
  rb = rb
  wasm = wasm
  ta = ta
  tb = tb
  GateIds <- GateSet
  ReactIds <- ReactorSet
  Bytes = {wasm}
  BytesOf <- Contents
  ExtClients = {e1, e2}
  NoExt = NoExt
  Admins = {e1}
  Checkers = {l1, l2}
  Threshold = 2
  MaxDepth = 3
  MaxSelfReentry = 1
  EmitsPerWindow = 3
  MaxEvents = 8
  Workflows = {w1, w2}
  RowClients = {o1}
  NoRow = NoRow
  MaxCursor = 3
  DrainCap = 2
  MaxUpsets = 1
  MaxPrUpsets = 2
  Issues = {i1}
  Linkers = {c1}
  NoTask = NoTask
  NoIssue = NoIssue
  IssueDesks <- TaskDesks
  GTasks = {ta, tb}
  Authors = {u1, u2}
  NoGRow = NoGRow
  Boards <- SomeBoards
CHECK_DEADLOCK FALSE
INVARIANTS
  ServicesTypeOK
  NoGhostRecord
  FaultingGateIsShed
  FaultNeverPasses
  NoSilentSkip
  NoSwarm
  GraphMatchesRows
  CreateIsNotRun
PROPERTIES
  FollowsRunLog
  NeverWedged
  PrIsRecorded
  NoBounce
  StateSettles
  NothingWaitsForever
