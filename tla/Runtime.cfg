SPECIFICATION MCSpec
CONSTANTS
  Selectors = {"a", "b"}
  Workflows <- MCWorkflows
  Doms <- MCDoms
  LoopCap = 2
  ClickCap = 2
  SampleCap = 2
  NavAttempts = 2
  Candidates = {1, 2}
  MaxChanges = 1
  Calls = {c1, c2}
  Frames = {f1, f2}
  NoCall = nocall
  MaxMoves = 1
  Openers = {o1, o2}
  FirstPolls = 1
  GonePolls = 2
  OpenPolls = 1
  LastPolls = 1
  MaxHand = 1
  Requests = {check, r1, r2}
  Check = check
  Savers = {s1, s2}
  Addresses = {a1, a2}
  Keys = {k1}
  Mask = mask
  ApiGate = 2
  NoOne = noone
  p1 = p1
  p2 = p2
  p3 = p3
  Profiles = {p1, p2, p3}
  NoProfile = noprofile
  GroupOf <- MCGroupOf
  TagsOf <- MCTagsOf
  Listings <- MCListings
  RemoteLists <- MCRemoteLists
  PageSize = 2
  PageLimit = 3
  Syncs = {y1, y2}
  Files <- MCFiles
  Managed <- MCManaged
  OwnPolicy <- MCOwnPolicy
  Policies <- MCPolicies
  MaxEdits = 1
  Screens <- MCScreens
  NoScreen = noscreen
  DefaultScreen <- MCDefaultScreen
  Wishes <- MCWishes
  Requested = {3}
  MaxSlotLimit = 3
  Margin = 1
  TopOffset = 3
  BottomReserved = 4
  MinWidth = 32
  MinHeight = 28
  Tasks = 4
INVARIANTS
  TypesOK
  PassTellsTruth
  ScopeKept
  RunAddsUp
  OverlaysGone
  PickIsClicked
  RightServer
  MappingSound
  LayoutCatchesUp
  TilesApart
PROPERTIES
  SessionsSpaced
  WholeListSynced
  EveryCallEnds
CHECK_DEADLOCK FALSE
