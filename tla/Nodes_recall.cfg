CONSTANTS
  Projects = {"p", "q"}
  Nodes = {"n", "m"}
  Commands = {"c", "d", "e"}
  AnyNode = "auto"
  Sync = "sync"
  None = none
  Setups <- AllSetups
  Key = {k1, k2}
  Entry = {e1, e2}
  k1 = k1
  k2 = k2
  e1 = e1
  e2 = e2
  MergeTries = 3
  MaxChanges = 4
  ApplySetups <- ApplyCases
  Bringer = {r1, r2}
  r1 = r1
  r2 = r2
  Mine = {mine1}
  Theirs = {theirs1}
  mine1 = mine1
  theirs1 = theirs1
  MaxUps = 1
  BringUpSetups <- BringUpCases
  Folder = {root, shared, cfg, away, vault, mem}
  Leaf = {env, mcp}
  Nowhere = Nowhere
  FileCap = 1
  PayloadCap = 2
  MaxMoves = 2
  root = root
  shared = shared
  cfg = cfg
  away = away
  vault = vault
  mem = mem
  env = env
  mcp = mcp
  Nick = {nk1, nk2}
  Asker = {as1, as2}
  UpProjects = 2
  MaxMints = 1
  AuthSetups <- AuthCases
  nk1 = nk1
  nk2 = nk2
  as1 = as1
  as2 = as2
  MaxEdits = 2
  SkillFolder = {top, sub, clone, home, keys}
  Blob = {b1, b2, b3}
  Root = top
  AboveRoot = {home}
  FencedOff = {keys}
  EntryMax = 10
  BlobMax = 2
  TotalMax = 3
  MaxShifts = 2
  top = top
  sub = sub
  clone = clone
  home = home
  keys = keys
  b1 = b1
  b2 = b2
  b3 = b3
  d1 = d1
  d2 = d2
  Daemon = {d1, d2}
  Stranger = Stranger
  Nil = Nil
  Cold = 2
  Settle = 1
  SyncSetups <- SyncCases
  Node = {A, B}
  A = A
  B = B
  Home = Home
  Talk = {c1, c2}
  Memo = {m1}
  Recalling = {1, 2}
  Nobody = Nobody
  MaxTurns = 4
  MaxFaults = 1
  RecallSetups <- RecallCases
  c1 = c1
  c2 = c2
  m1 = m1
  ql1 = ql1
  ql2 = ql2
  Interval = 1
  History = 2
  Slack = 1
  Ahead = 8
  Window = 1
  Least = 2
  la1 = la1
  la2 = la2
  la3 = la3
  la4 = la4
  lg1 = lg1
  lt1 = lt1
  lt2 = lt2
  lt3 = lt3
  Respelled <- SessionNames
  Within <- NameParts
  MinTileW = 480
  MinTileH = 320
  LongTries = 2
  ShortTries = 1
SPECIFICATION PartsSpec
INVARIANTS
  ReplacedIsSaid
