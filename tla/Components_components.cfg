CONSTANTS
  Proc = {l1, l2, l3}
  Inode = {i1, i2, i3, i4}
  NoProc = NoProc
  NoFile = NoFile
  Attempts = 2
  Platforms = {"posix", "win32"}
  Pid = {pa, ps, p1}
  AgentPid = pa
  ShellPid = ps
  Elsewhere = Elsewhere
  MaxClock = 7
  Local = {here}
  Remote = {away}
  Handle = {h1}
  PushStates = {"needs-input"}
  Absent = Absent
  MaxWrites = 2
  AttentionSetups <- AttentionScenes
  Sid = {s1, s2}
  Win = {w1, w2}
  s1 = s1
  s2 = s2
  w1 = w1
  w2 = w2
  AttachSetups <- AttachCases
  MissingMax = 2
  NoWindow = NoWindow
  Press = {u1, u2}
  Phone = {ph}
  Base = {fa, fb}
  u1 = u1
  u2 = u2
  ph = ph
  fa = fa
  fb = fb
  NMax = 3
  QueueMax = 2
  Grace = 1
  InjectLife = 2
  HttpWait = 2
  PsmuxBound = 1
  FlashWait = 2
  PasteSetups <- PasteCases
  Cap = 1
  Pipe = 1
  Input = 1
  MaxOut = 3
  MaxErr = 2
  CallSetups <- CallCases
  TickPools <- PoolCases
  TickSetups <- TickCases
  n1 = n1
  n2 = n2
  Node = {n1, n2}
  Workers = 1
  StaleAge = 0
  Outcomes = {"ok", "locked", "internal"}
  ja = ja
  jb = jb
  ed1 = ed1
  ed2 = ed2
  Editor = {ed1, ed2}
  Nick = {"n", "m"}
  Nothing = Nothing
  MaxPlain = 2
  ConfigSetups <- ConfigCases
  Depth = 3
  Nil = Nil
  StartGrace = 1
  ExitGrace = 1
  RcGrace = 1
  Budget = 3
  LastTick = 4
  HandSetups <- HandCases
  lw1 = lw1
  lw2 = lw2
  t1 = t1
  t2 = t2
  Writer = {lw1, lw2}
  Thread = {t1, t2}
  Full = 1
  Backup = 2
  MaxRecords = 4
  MaxFaults = 2
  Nobody = Nobody
  FleetSetups <- FleetCases
  Receiver = {s1, s2}
  MaxTries = 2
SPECIFICATION PartsSpec
INVARIANTS
  LockIsHonest
  RepliesAreWhole
  TicksAreAccounted
  ConfigSurvives
  HandOffIsHonest
  LogIsKept
  FleetIsHonest
PROPERTIES
  ImplementsMutex
  OnlyItsOwn
  AttentionIsHonest
  PanesAreKept
  PasteIsHonest
