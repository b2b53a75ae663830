--------------------------- MODULE MCNodes ---------------------------
(* What the PC does with its nodes, in parts that share no state with one   *)
(* another, each on a small instance: `part` is the one a behaviour is      *)
(* about, the others rest.                                                  *)
EXTENDS MCNodePlacement, NodeApply, BringUp, SignIn, SyncDaemon, Recall, Integers, Sequences, TLC

CONSTANTS k1, k2, e1, e2, r1, r2, mine1, theirs1, Folder, Leaf, Nowhere,
          FileCap, PayloadCap, MaxMoves, root, shared, cfg, away, vault, mem,
          env, mcp, nk1, nk2, as1, as2, MaxEdits, SkillFolder, Blob, Root,
          AboveRoot, FencedOff, EntryMax, BlobMax, TotalMax, MaxShifts, top,
          sub, clone, home, keys, b1, b2, b3, d1, d2, A, B, c1, c2, m1, ql1,
          ql2, Interval, History, Slack, Ahead, Window, Least, la1, la2, la3,
          la4, lg1, lt1, lt2, lt3, Respelled, Within, MinTileW, MinTileH,
          LongTries, ShortTries

VARIABLES part,
          land, pcDisk, vetted, warned, member, step, moves, pushWorld,
          pcFiles, later, edits, scopeNext, scopeGot, scope, unreadSteps,
          noted,
          tree, blobs, walk, inHand, shipped, told, shifts, skillsAbout,
          loadClock, realTime, nodeTruth, loadFile, lastSample, lastWord,
          placementPass, loadShifts, clockSteps, loadFaults, loadSetup,
          desk, launchRun, launchSetup

placementVars == <<map, torn, mapLock, busy, on, late, said, cmd, crossed,
  faults, setup>>
applyVars == <<payload, laid, nodeTools, settingsKeys, userKeys, creds,
  provisioned, applying, strays, delivered, changesMade, about>>
bringVars == <<here, origin, repo, memory, session, bringUp, case>>
pushVars == <<land, pcDisk, vetted, warned, member, step, moves, pushWorld>>
authVars == <<token, bad, old, nodeHeld, putBack, appliers, authCmd,
  authAbout>>
userscopeVars == <<pcFiles, later, edits, scopeNext, scopeGot, scope,
  unreadSteps, noted>>
skillsVars == <<tree, blobs, walk, inHand, shipped, told, shifts,
  skillsAbout>>
daemonsVars == <<daemons, syncLock, syncPid, syncBeat, supLock, serveThread,
  anyPlaced, stopOf, downAll, syncPlan>>
recallVars == <<claudeFiles, memoryFolder, mirrors, nodeRepos, liveTalk,
  placedOn, recalls, installs, turnCount, recallFaults, lostTurns,
  wroteAcross>>
loadVars == <<loadClock, realTime, nodeTruth, loadFile, lastSample, lastWord,
  placementPass, loadShifts, clockSteps, loadFaults, loadSetup>>
launchingVars == <<desk, launchRun, launchSetup>>
allVars == <<part, placementVars, applyVars, bringVars, pushVars, authVars, userscopeVars, skillsVars, daemonsVars, recallVars, loadVars, launchingVars>>

\* The setups of MCNodePlacement, and one in which nobody does anything.
NoCommand == Setup(Runs(Absent, Absent, Absent), "n", None, {}, {}, {}, 0)
AllSetups == MCSetups \cup {NoCommand}
PlacementRests == (\A c \in Commands : ~Active(c)) /\ UNCHANGED allvars

ApplyCase(steps, entries, unread, damage, n) ==
  [steps |-> steps, entries |-> entries, unread |-> unread, damage |-> damage, changes |-> n]
ApplyCases == {ApplyCase({"gh", "state_hook"}, {}, FALSE, FALSE, 2), ApplyCase({"plugins", "skills"}, {}, TRUE, FALSE, 2),
               ApplyCase({"state_hook", "settings"}, {}, TRUE, TRUE, 3), ApplyCase({"claude_auth"}, {}, FALSE, TRUE, 3),
               ApplyCase({"mcp_oauth"}, Entry, FALSE, FALSE, 3), ApplyCase({"mcp_oauth"}, {e1}, TRUE, TRUE, 4)}
NoApply == ApplyCase({}, {}, FALSE, FALSE, 0)

BringUpCase(runs, allow, elsewhere, there, seeds) ==
  [runs |-> runs, allow |-> allow, elsewhere |-> elsewhere, there |-> there, seeds |-> seeds]
BringUpCases == {BringUpCase({r1}, FALSE, FALSE, TRUE, TRUE), BringUpCase({r1}, TRUE, FALSE, FALSE, TRUE),
                 BringUpCase(Bringer, FALSE, TRUE, FALSE, FALSE)}
NoBringUp == BringUpCase({}, FALSE, FALSE, FALSE, FALSE)

\* A linked folder; the project is the home that holds the credential store; caps.
DiskOf(files, links) ==
  [p \in Folder \X Leaf |-> IF p \in files THEN [kind |-> "file", size |-> 1, to |-> Nowhere, id |-> 1]
                            ELSE IF p \in DOMAIN links THEN [kind |-> "link", size |-> 0, to |-> links[p], id |-> 0]
                            ELSE [kind |-> "none", size |-> 0, to |-> Nowhere, id |-> 0]]
PushWorld == [inside |-> {root, shared, cfg}, store |-> vault, land |-> [f \in Folder |-> f], hits |-> <<>>, extras |-> <<>>,
              memory |-> <<>>, moving |-> {}, targets |-> {}, links |-> {}, disks |-> {}]
PushSetups ==
  {[PushWorld EXCEPT !.land[cfg] = shared, !.hits = <<<<shared, env>>>>, !.extras = <<<<cfg, env>>, <<root, mcp>>>>,
                     !.moving = {<<shared, env>>}, !.targets = {<<away, env>>}, !.links = {cfg},
                     !.disks = {DiskOf({<<away, env>>, <<shared, env>>} \cup x, <<>>) : x \in {{<<cfg, env>>}, {<<root, mcp>>}}}],
   [PushWorld EXCEPT !.inside = @ \cup {vault}, !.hits = <<<<root, env>>, <<root, mcp>>>>, !.extras = <<<<vault, mcp>>>>,
                     !.moving = {<<root, mcp>>},
                     !.disks = {DiskOf({<<vault, env>>, <<vault, mcp>>, <<root, mcp>>}, <<root, env>> :> <<vault, env>>),
                                [DiskOf({}, <<>>) EXCEPT ![<<root, env>>].kind = "locked"]}],
   [PushWorld EXCEPT !.hits = <<<<root, env>>, <<shared, env>>>>, !.extras = <<<<root, mcp>>>>,
                     !.memory = <<<<mem, env>>, <<mem, mcp>>>>, !.moving = {<<root, env>>, <<mem, env>>},
                     !.disks = {DiskOf({<<root, env>>, <<mem, mcp>>}, <<root, mcp>> :> <<root, env>>),
                                DiskOf({<<root, env>>, <<shared, env>>, <<root, mcp>>, <<mem, env>>, <<mem, mcp>>}, <<>>)}]}

\* A refresh during an `up`; a setup, an `up` and an offered renewal alone; a setup and an `up` with nobody there.
AuthSetup(one, other, file, stands, there, person, happens) ==
  [kind |-> as1 :> one @@ as2 :> other, token |-> file, old |-> stands, held |-> there, person |-> person, node |-> nk1,
   about |-> happens]
AuthCases ==
  {AuthSetup("refresh", "up", 1, "expired", nk1 :> 1 @@ nk2 :> 0, {as1}, {}),
   AuthSetup("setup", "none", 1, "soon", nk1 :> 0 @@ nk2 :> 1, {as1}, {"wears", "meddled", "dies"}),
   AuthSetup("up", "none", 0, "ok", nk1 :> 0 @@ nk2 :> 0, {as1}, {"meddled"}),
   AuthSetup("look", "none", 1, "due", nk1 :> 1 @@ nk2 :> 0, {as1}, {"wears", "dies"}),
   AuthSetup("setup", "up", 1, "ok", nk1 :> 0 @@ nk2 :> 1, {}, {})}
AuthRest == AuthSetup("none", "none", 0, "ok", nk1 :> 0 @@ nk2 :> 0, {}, {})

T(list, name, sort, url, cred, odd) == [at |-> list, name |-> name, kind |-> sort, url |-> url, cred |-> cred, odd |-> odd]
Reading(set) == [reads |-> "yes", has |-> set]
\* The PC's files before and after an edit: every kind of entry that ships, stays, or is told apart.
ScopeSetup(first, funny) ==
  [next |-> first,
   files |-> [settings |-> Reading({T("setting", "a", "plain", 0, FALSE, FALSE), T("setting", "b", "never", 0, FALSE, FALSE),
                                    T("setting", "c", "hook of this PC", 0, FALSE, FALSE), T("plugin", "m", "plain", 0, FALSE, FALSE),
                                    T("extra", "m", "plain", 0, FALSE, FALSE)}),
              claude |-> Reading({T("server", "s", "remote", 1, FALSE, FALSE), T("server", "p", "program", 0, FALSE, funny)}),
              creds |-> Reading({T("oauth", "s", "", 1, FALSE, FALSE), T("oauth", "s", "", 2, FALSE, FALSE),
                                 T("oauth", "p", "", 0, FALSE, FALSE), T("oauth", "x", "", 0, FALSE, FALSE)}),
              markets |-> Reading({T("market", "m", "with a password", 0, FALSE, FALSE)})],
   later |-> [settings |-> Reading({T("setting", "a", "loopback", 0, FALSE, FALSE), T("setting", "d", "plain", 0, TRUE, FALSE),
                                    T("plugin", "m", "plain", 0, FALSE, FALSE), T("plugin", "n", "plain", 0, TRUE, FALSE),
                                    T("extra", "m", "plain", 0, FALSE, FALSE)}),
              claude |-> Reading({T("server", "s", "remote", 2, FALSE, FALSE), T("server", "p", "remote", 3, TRUE, FALSE),
                                  T("server", "q", "path on this PC", 0, FALSE, FALSE)}),
              creds |-> Reading({T("oauth", "s", "", 2, FALSE, FALSE), T("oauth", "q", "", 0, FALSE, FALSE),
                                 T("oauth", "s", "", 0, TRUE, FALSE)}),
              markets |-> Reading({T("market", "m", "local", 0, FALSE, FALSE), T("market", "n", "plain", 0, FALSE, TRUE)})]]
ScopeSetups == {ScopeSetup("settings", b) : b \in BOOLEAN}

En(n, sort, leads) == [name |-> n, is |-> sort, to |-> leads]
SkillTree(x) ==
  top :> {En(1, "dir", sub), En(2, "dir", clone), En(3, "file", b1)} @@ sub :> {En(4, "file", b2), En(5, "dir", x)} @@
  clone :> {En(6, "file", b3), En(7, "dir", top)} @@ home :> {En(8, "dir", top), En(9, "dir", keys)} @@ keys :> {En(10, "file", b2)}
\* More entries than the cap, two of them links that no walk follows.
ManyEntries ==
  [SkillTree(sub) EXCEPT ![sub] = {En(n, "file", b2) : n \in {4, 5, 8, 9}},
                         ![top] = {En(1, "dir", sub), En(2, "dir", clone), En(3, "dir", home)} \cup {En(n, "file", b1) : n \in 4..9}]
SkillBlob(bytes, lies, cred) == [size |-> bytes, regular |-> TRUE, cred |-> cred, lies |-> lies]
SkillSetup(what, folders, lies, cred) ==
  [about |-> what, tree |-> folders,
   blobs |-> b1 :> SkillBlob(2, top, FALSE) @@ b2 :> SkillBlob(1, lies, cred) @@ b3 :> SkillBlob(1, clone, FALSE)]
SkillSetups == {SkillSetup("links", SkillTree(keys), sub, FALSE), SkillSetup("links", SkillTree(home), keys, FALSE),
                SkillSetup("many", ManyEntries, sub, TRUE)}

DownCase(set, pid, pulling, other, can) ==
  [runs |-> set, left |-> pid, placed |-> TRUE, serves |-> TRUE, pulls |-> pulling, hand |-> other, liberty |-> can, down |-> "ask"]
\* A daemon runs, wedges or dies; a dead one's pid file names a stranger; a hand stops or starts one meanwhile; a tick keeps its lock.
SyncRests == [DownCase({}, Nil, FALSE, "none", {}) EXCEPT !.down = "rest", !.serves = FALSE]
SyncCases == {DownCase({d1}, d1, TRUE, "none", {}), DownCase({}, Stranger, TRUE, "none", {}), DownCase({}, Nil, FALSE, "stop", {}),
              DownCase({d1}, d1, TRUE, "none", {"crash", "idle"}), DownCase({d1}, d1, FALSE, "none", {"stubborn"}), DownCase({}, Nil, TRUE, "start", {}),
              DownCase({}, Nil, TRUE, "none", {"slow"}), DownCase({}, Stranger, TRUE, "stop", {}), DownCase({d1}, d1, TRUE, "stop", {"stubborn", "crash"})}

Stored(first, second, memo) == c1 :> first @@ c2 :> second @@ m1 :> memo
NothingStored == Stored(<<>>, <<>>, <<>>)
RecallCase(atA, atB, atHome, atMirror, sort, talk, turn) ==
  [store |-> A :> atA @@ B :> atB @@ Home :> atHome, folder |-> A :> "dir" @@ B :> sort, mirror |-> A :> atMirror @@ B :> NothingStored,
   repo |-> [n \in Node |-> [ahead |-> FALSE, record |-> "none"]], live |-> A :> c1 @@ B :> talk @@ Home :> Nobody, placed |-> A, turns |-> turn]
\* The other places hold nothing, an older copy, or turns of their own, an agent among them; memory/ is a folder, a link, a file.
RecallCases ==
  {RecallCase(Stored(<<1, 2>>, <<>>, <<3>>), Stored(<<1>>, <<>>, <<>>), Stored(<<1>>, <<>>, <<2>>), Stored(<<1>>, <<>>, <<>>), "none", Nobody, 4),
   RecallCase(Stored(<<1, 2>>, <<>>, <<>>), Stored(<<1, 3>>, <<>>, <<>>), Stored(<<1, 3>>, <<>>, <<>>), NothingStored, "dir", c1, 3),
   RecallCase(Stored(<<1, 2>>, <<>>, <<3>>), Stored(<<1>>, <<>>, <<>>), NothingStored, NothingStored, "link", Nobody, 4),
   RecallCase(Stored(<<1, 2>>, <<>>, <<3>>), NothingStored, NothingStored, NothingStored, "file", Nobody, 4)}
RecallRests == [RecallCase(NothingStored, NothingStored, NothingStored, NothingStored, "none", Nobody, 4) EXCEPT !.placed = Nobody]

LoadReading(perCore, free, tok) == [load |-> perCore, sized |-> free # -1, mem |-> free, mine |-> IF free = -1 THEN -1 ELSE 0, tok |-> tok]
Idle == LoadReading(10, 50, "yes")
Readings == {Idle, LoadReading(150, 50, "mute"), LoadReading(10, 50, "no"), LoadReading(10, 5, "yes"), LoadReading(10, -1, "yes")}
Order == A :> 1 @@ B :> 2
Batch == <<ql1, ql2>>
OnlyA == A :> TRUE @@ B :> FALSE
LoadCase(until, changes, steps, odd, read, places, first, second) ==
  [until |-> until, shifts |-> changes, steps |-> steps, faults |-> odd, reads |-> read, places |-> places, steady |-> steps > 0, live |-> first # "left",
   held |-> ql1 :> first @@ ql2 :> second, first |-> Idle]
\* A clock that runs ahead for longer than the history; two nodes that change; one whose samples and answers fail; a dry run, with a node that left.
LoadSetups == {LoadCase(13, 0, 2, 1, OnlyA, TRUE, A, A), LoadCase(2, 1, 0, 0, [n \in Node |-> TRUE], TRUE, Nil, Nil),
               LoadCase(2, 1, 0, 1, OnlyA, TRUE, A, Nil),
               LoadCase(2, 1, 0, 1, OnlyA, TRUE, "left", Nil)}
LoadRests == LoadCase(0, 0, 0, 0, OnlyA, FALSE, A, A)

LaunchPane(title, runs) == [title |-> title, runs |-> runs]
Plainly == <<LaunchPane(Nil, "tool")>>
Listed(kind, name, talks, panes) == [kind |-> kind, name |-> name, on |-> TRUE, group |-> Nil, checked |-> TRUE, found |-> TRUE,
  known |-> TRUE, caps |-> TRUE, auto |-> FALSE, talks |-> talks, panes |-> panes]
WideScreen == [x |-> 0, y |-> 0, w |-> 1921, h |-> 1080, scale |-> 100]
LeftScreen == [x |-> -1280, y |-> 0, w |-> 1280, h |-> 1024, scale |-> 175]
LaunchCase(list, goes, retiles, there, can) ==
  [projects |-> list, monitors |-> <<WideScreen, LeftScreen>>, columns |-> 2, rows |-> 1, go |-> goes, retile |-> retiles, dry |-> FALSE,
   group |-> Nil, checklist |-> FALSE, prefix |-> TRUE, psmux |-> TRUE, screen |-> there, alive |-> {}, others |-> can, closes |-> can, badges |-> can, faults |-> 0]
OnDesk(name, form) == [name |-> name, form |-> form]
SessionNames == la1 :> la2
NameParts == {<<la3, la4>>}
Solo == Listed("local", la1, <<lt1>>, Plainly)
Pair == Listed("local", la3, <<lt2, lt3>>, <<LaunchPane(Nil, "tool"), LaunchPane(Nil, "unknown")>>)
Editor == [Listed("ide", la3, <<>>, Plainly) EXCEPT !.group = lg1]
OnNode == [Listed("node", la4, <<>>, Plainly) EXCEPT !.auto = TRUE, !.group = lg1]
Far == Listed("remote", la4, <<>>, Plainly)
\* A name that psmux spells anew, a project with two windows and two conversations, an IDE whose name another title has in it, a node's project.
LaunchSetups == {
  [LaunchCase(<<Solo, Pair>>, TRUE, FALSE, <<OnDesk(la2, "magent"), OnDesk(la4, "magent")>>, 1) EXCEPT !.faults = 1, !.closes = 0],
  LaunchCase(<<Solo, [Solo EXCEPT !.name = la3, !.on = FALSE]>>, FALSE, TRUE, <<OnDesk(la2, "magent"), OnDesk(la4, "magent")>>, 1),
  [LaunchCase(<<Editor, OnNode, Solo>>, FALSE, FALSE, <<OnDesk(la2, "magent")>>, 1) EXCEPT !.group = lg1, !.badges = 0],
  [LaunchCase(<<Editor, OnNode, [Far EXCEPT !.checked = FALSE]>>, TRUE, FALSE, <<OnDesk(la4, "plain")>>, 0) EXCEPT !.checklist = TRUE, !.closes = 1],
  [LaunchCase(<<Far, [Pair EXCEPT !.found = FALSE], [Solo EXCEPT !.panes = <<LaunchPane(Nil, "other"), LaunchPane(la4, "literal")>>], [Solo EXCEPT !.known = FALSE]>>,
     FALSE, FALSE, <<OnDesk(la2, "plain")>>, 0) EXCEPT !.prefix = FALSE, !.psmux = FALSE, !.faults = 1],
  [LaunchCase(<<Pair, Far>>, FALSE, FALSE, <<>>, 0) EXCEPT !.alive = {la3}],
  LaunchCase(<<Editor>>, TRUE, FALSE, <<OnDesk(la3, "magent"), OnDesk(la3, "ide")>>, 0),
  [LaunchCase(<<Solo, Editor, OnNode>>, TRUE, FALSE, <<>>, 0) EXCEPT !.dry = TRUE],
  [LaunchCase(<<Solo>>, TRUE, FALSE, <<>>, 0) EXCEPT !.monitors = <<>>],
  [LaunchCase(<<Solo>>, FALSE, FALSE, <<>>, 0) EXCEPT !.group = lg1]}
LaunchRests == [LaunchCase(<<>>, TRUE, FALSE, <<>>, 0) EXCEPT !.monitors = <<>>]


Push == INSTANCE PushSet WITH disk <- pcDisk, world <- pushWorld
Userscope == INSTANCE UserScope WITH next <- scopeNext, got <- scopeGot, unread <- unreadSteps, files <- pcFiles
Skills == INSTANCE SkillsWalk WITH reading <- inHand, about <- skillsAbout
Load == INSTANCE LoadHistory WITH clock <- loadClock, real <- realTime, truth <- nodeTruth, file <- loadFile, kept <- lastSample, word <- lastWord, pass <- placementPass, shifts <- loadShifts, steps <- clockSteps, faults <- loadFaults
Launching == INSTANCE Launching WITH run <- launchRun, asked <- launchSetup

Parts == {"placement", "apply", "bring", "push", "auth", "userscope", "skills", "daemons", "recall", "load", "launching"}

PartsInit ==
  /\ part \in Parts
  /\ IF part = "placement" THEN (Init /\ setup # NoCommand) ELSE (Init /\ setup = NoCommand)
  /\ IF part = "apply" THEN ApplyInit ELSE (about = NoApply /\ ApplyStart)
  /\ IF part = "bring" THEN BringUpInit ELSE (case = NoBringUp /\ BringUpStart)
  /\ IF part = "push" THEN Push!PushInit ELSE (pushWorld = PushWorld /\ Push!PushRests)
  /\ IF part = "auth" THEN SignInInit ELSE SignInStart(AuthRest)
  /\ IF part = "userscope" THEN Userscope!ScopeInit ELSE Userscope!ScopeStart(ScopeSetup("sent", FALSE))
  /\ IF part = "skills" THEN Skills!SkillsInit ELSE Skills!SkillsStart(SkillSetup("none", SkillTree(keys), sub, FALSE))
  /\ IF part = "daemons" THEN SyncInit ELSE SyncStart(SyncRests)
  /\ IF part = "recall" THEN RecallInit ELSE RecallStart(RecallRests)
  /\ IF part = "load" THEN Load!LoadInit ELSE Load!LoadStart(LoadRests)
  /\ IF part = "launching" THEN Launching!LaunchInit ELSE Launching!LaunchStart(LaunchRests)

PartsNext ==
  /\ UNCHANGED part
  /\ \/ part = "placement" /\ (Next \/ PlacementRests) /\ UNCHANGED <<applyVars, bringVars, pushVars, authVars, userscopeVars, skillsVars, daemonsVars, recallVars, loadVars, launchingVars>>
     \/ part = "apply" /\ ApplyNext /\ UNCHANGED <<placementVars, bringVars, pushVars, authVars, userscopeVars, skillsVars, daemonsVars, recallVars, loadVars, launchingVars>>
     \/ part = "bring" /\ BringUpNext /\ UNCHANGED <<placementVars, applyVars, pushVars, authVars, userscopeVars, skillsVars, daemonsVars, recallVars, loadVars, launchingVars>>
     \/ part = "push" /\ Push!PushNext /\ UNCHANGED <<placementVars, applyVars, bringVars, authVars, userscopeVars, skillsVars, daemonsVars, recallVars, loadVars, launchingVars>>
     \/ part = "auth" /\ SignInNext /\ UNCHANGED <<placementVars, applyVars, bringVars, pushVars, userscopeVars, skillsVars, daemonsVars, recallVars, loadVars, launchingVars>>
     \/ part = "userscope" /\ Userscope!ScopeNext /\ UNCHANGED <<placementVars, applyVars, bringVars, pushVars, authVars, skillsVars, daemonsVars, recallVars, loadVars, launchingVars>>
     \/ part = "skills" /\ Skills!SkillsNext /\ UNCHANGED <<placementVars, applyVars, bringVars, pushVars, authVars, userscopeVars, daemonsVars, recallVars, loadVars, launchingVars>>
     \/ part = "daemons" /\ SyncNext /\ UNCHANGED <<placementVars, applyVars, bringVars, pushVars, authVars, userscopeVars, skillsVars, recallVars, loadVars, launchingVars>>
     \/ part = "recall" /\ RecallNext /\ UNCHANGED <<placementVars, applyVars, bringVars, pushVars, authVars, userscopeVars, skillsVars, daemonsVars, loadVars, launchingVars>>
     \/ part = "load" /\ Load!LoadNext /\ UNCHANGED <<placementVars, applyVars, bringVars, pushVars, authVars, userscopeVars, skillsVars, daemonsVars, recallVars, launchingVars>>
     \/ part = "launching" /\ Launching!LaunchNext /\ UNCHANGED <<placementVars, applyVars, bringVars, pushVars, authVars, userscopeVars, skillsVars, daemonsVars, recallVars, loadVars>>

PartsSpec == PartsInit /\ [][PartsNext]_allVars

(* PushSet.PushSetIsHonest, UserScope.ScopeIsHonest and SkillsWalk.SkillsAreHonest: what ships may, and what does not is said. *)
ShipsAreHonest == Push!PushSetIsHonest /\ Userscope!ScopeIsHonest /\ Skills!SkillsAreHonest
(* LoadHistory.PlacementsAreCurrent: what placements go by stays small and is the nodes' last word. *)
PlacementsAreCurrent == Load!PlacementsAreCurrent
(* Launching.LaunchIsTidy: what a launch opens, resumes, moves and leaves alone. *)
LaunchIsTidy == Launching!LaunchIsTidy
=============================================================================
