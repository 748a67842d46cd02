SPECIFICATION Spec
CONSTANTS
  Parts = {"landing", "sync", "chat", "book", "publish", "shelf", "settings", "tree", "panel"}
  t1 = t1
  t2 = t2
  Landers = {t1, t2}
  Trunk = Trunk
  RunTree = RunTree
  Gone = Gone
  Layouts <- SoundLayouts
  Accidents = {"push", "read", "merge", "agent", "restart"}
  MaxAccidents = 1
  MaxRevives = 1
  Machines = {m1, m2}
  Home = m1
  Docs = {}
  SyncTasks = {spec}
  SyncRuns = {flow}
  MaxVersion = 2
  MaxCommits = 2
  Regimes <- MixedRegimes
  Turns = {c1, c2}
  Chats <- Conversations
  MaxReplies = 2
  MaxChatUpsets = 1
  Authors = {w1}
  ToolUsers = {w2}
  PageIds = {p1, p2}
  SourceIds = {s1}
  References = {r1}
  Scopes = {Global, proj}
  Global = Global
  NoRow = NoRow
  MaxBookCalls = 4
  MaxMishaps = 1
  Desks = {{"create", "delete", "addPage", "updatePage", "deletePage"},
           {"addReference", "removeReference", "addLink", "addFile", "removeSource", "upload", "deleteAsset"}}
  u1 = u1
  u2 = u2
  Papers = {d1, d2}
  MainLine = MainLine
  Side = Side
  NoBranch = NoBranch
  Publishers = {u1, u2}
  PublishDesks <- Requests
  MaxTexts = 2
  MaxPublishUpsets = 1
  Curators = {w1, w2}
  ToolCurators = {w3}
  Shelves = {{"template", "link"}, {"skill"}, {"branding"}, {"agent", "override"}, {"secret", "preferences"}, {"note"}}
  NoEntry = NoEntry
  Bundled = Bundled
  Unsettled = Unsettled
  MaxCurations = 3
  MaxFaults = 1
  j1 = j1
  j2 = j2
  j3 = j3
  repoA = repoA
  repoB = repoB
  Jobs = {j1, j2, j3}
  FlowJobs = {j1, j2}
  Flow = Flow
  ReuseFrom <- SecondReusesFirst
  NoTask = NoTask
  NoTree = NoTree
  Unset = Unset
  Unchanged = Unchanged
  Garbled = Garbled
  Repos = {repoA, repoB}
  RepoState <- SoundRepos
  Surroundings <- TwoHosts
  Spaces <- TwoSpaces
  JobEdits <- Retooled
  Benches <- Workbenches
  f1 = f1
  f2 = f2
  f3 = f3
  dir = dir
  Files <- FilePaths
  Dirs = {dir}
  DirsOf <- DirectoriesOf
  text1 = text1
  text2 = text2
  Texts = {text1, text2}
  NoFile = NoFile
  Untagged = Untagged
  AtFirst <- OneFile
  MaxTouches = 3
  PanelClients = {w1, w2}
  IssueNumbers = {i1}
  PrNumbers = {pr1}
  PrimaryTree = PrimaryTree
  AliasOfPrimary = AliasOfPrimary
  Linked = {x1}
  PanelDesks = {{"close", "merge", "create"}, {"list", "view", "comment", "comments", "auth"},
                {"trees", "remove", "prune"}}
  Blank = Blank
  MaxPanelCalls = 2
  MaxPanelEvents = 1
CHECK_DEADLOCK FALSE
INVARIANTS
  WorkshopTypeOK
  DoneIsLanded
  NotFalselyEmpty
  ArrivesUpToDate
  LifecycleIsLocal
  TurnIsAnswered
  NoReplyTwice
  MadeAnewIsEmpty
  UploadedIsServed
  PrShowsOnlyItsDocument
  AnsweredWriteHolds
  LandsWhereItWorked
  ChangeIsShown
  AnsweredIsDone
PROPERTIES
  CloudOnlyAdvances
