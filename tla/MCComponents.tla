--------------------------- MODULE MCComponents ---------------------------
(* The components that share no state with one another, each on a small    *)
(* instance: `part` is the one a behaviour is about, the others rest.       *)
EXTENDS ExclusiveLock, AgentStop, Attention, Attach, Paste, NodeCall, SyncTick, ConfigEdits, HandOff, SharedLog, FleetSend, Sequences, TLC

CONSTANTS s1, s2, w1, w2, u1, u2, ph, fa, fb, n1, n2, ja, jb, ed1, ed2, lw1,
          lw2, t1, t2

VARIABLES part

lockVars == <<os, pc, fd, owner, path, tries, left>>
stopVars == <<created, ppid, mine, servers, opaque, clock, stopAt, before,
  listed, parent, psmux, walked, kept, unknown, target, read, held, killed>>
attentionVars == <<store, listing, mirror, writes, up, shown, news, lastState,
  fired, heldRecords, paged, win, known, badged, orphaned, scene>>
attachVars == <<alive, link, panes, userLeft, lost, at, ups, ownWindows,
  others, dead, toOpen, retried, world>>
pasteVars == <<press, req, inject, disk, pasted, queue, pump, shows, said,
  plan>>
callVars == <<child, stdin, opipe, epipe, out, err, call, kind>>
ticksVars == <<syncer, pulls, inflight, errors, last, noted, config, watch,
  most>>
editsVars == <<file, backup, ed, cuts>>
handoffVars == <<now, proc, hand, task, desk, faults, handSetup>>
logVars == <<logFile, logLock, writer, records, rotatedOut, interlocked,
  refusals, logger, thread, logFaults>>
fleetVars == <<pane, got, cmd, row, meddled, fleetFaults, fleetSetup>>
allVars == <<part, lockVars, stopVars, attentionVars, attachVars, pasteVars, callVars, ticksVars, editsVars, handoffVars, logVars, fleetVars>>

AttentionScenes == {[handles |-> Handle, sessions |-> Local \cup Remote, flaps |-> FALSE],
                    [handles |-> {}, sessions |-> Local \cup Remote, flaps |-> TRUE]}
NoAttention == [handles |-> {}, sessions |-> {}, flaps |-> FALSE]

AttachSetup(sids, wins, does) ==
  [sids |-> sids, wins |-> wins, flaps |-> "flaps" \in does, dies |-> "dies" \in does, user |-> "user" \in does,
   picker |-> "picker" \in does, nomux |-> "nomux" \in does, downs |-> "downs" \in does]
AttachCases == {AttachSetup(Sid, Win, {"dies"}),
                AttachSetup({s1}, {w1}, {"flaps", "dies", "user", "picker"}),
                AttachSetup({s1}, Win, {"flaps", "nomux", "downs"})}
NoAttach == AttachSetup({}, {}, {})

PasteSetup(presses, phones, kinds, bar, own, theirs) ==
  [presses |-> presses, phones |-> phones, kinds |-> kinds, bar |-> bar,
   files |-> [r \in Press \cup Phone |-> IF r = u1 THEN own ELSE theirs]]
PasteCases == {PasteSetup({u1}, {ph}, {"image", "files"}, FALSE, <<fa, fb>>, <<fa, fa>>),
               PasteSetup({u1}, {ph}, {"image"}, TRUE, <<fa>>, <<fa>>),
               PasteSetup(Press, {}, {"none", "native", "paths", "code"}, TRUE, <<fa>>, <<fa>>)}
NoPaste == PasteSetup({}, {}, {}, FALSE, <<fa>>, <<fa>>)

CallCases == {[bound |-> b, heirs |-> b] : b \in BOOLEAN}

TickSetup(set, changes, bad, a, b) == [pool |-> set, edits |-> changes, broken |-> bad, most |-> (n1 :> a @@ n2 :> b)]
PoolCases == {{n1}, {n1, n2}, {}}
\* A node leaves the pool while its pull runs; it comes back; the config is edited while it is loaded.
TickCases == {TickSetup({n1, n2}, 1, FALSE, 2, 1), TickSetup({n1}, 2, FALSE, 2, 0), TickSetup({n1, n2}, 3, TRUE, 0, 0)}

Row(p, id, nick, shape) == [path |-> p, sid |-> id, node |-> nick, host |-> FALSE, tool |-> "default", coloured |-> FALSE, windows |-> shape]
Config(ver, set, rows) == [v |-> ver, pool |-> set, tool |-> "claude", plain |-> 0, ps |-> rows]
ConfigCmd(does, j, arg) == [kind |-> does, p |-> j, v |-> arg, row |-> Row(j, 1, IF does = "add to a node" THEN "n" ELSE "here", "flag"), placed |-> FALSE]
ConfigCmds == {ConfigCmd("plain", ja, ""), ConfigCmd("tool", ja, "vscode"), ConfigCmd("add", jb, ""), ConfigCmd("add to a node", jb, ""), ConfigCmd("init", ja, ""),
               ConfigCmd("remove", ja, ""), ConfigCmd("menu remove", jb, ""), ConfigCmd("set host", ja, ""), ConfigCmd("set title", jb, ""), ConfigCmd("set node", ja, "auto"),
               ConfigCmd("set node", ja, "here"), ConfigCmd("set node", ja, "cloud"), ConfigCmd("node add", ja, "m"), ConfigCmd("node remove", ja, "n"),
               [ConfigCmd("node remove", ja, "m") EXCEPT !.placed = TRUE], ConfigCmd("migrate", ja, ""), ConfigCmd("put", ja, ""), ConfigCmd("spoil", ja, "")}
Configs == {Config(2, {"n"}, <<Row(ja, 1, "n", "count")>>), Config(4, {"n", "m"}, <<Row(ja, 1, "auto", "none"), Row(jb, 2, "here", "names")>>),
            Config(1, {}, <<Row(ja, 1, "here", "names"), Row(jb, 1, "here", "none"), Row(jb, 1, "here", "flag")>>), Nothing}
\* Any two commands at once, on three configs and on none.
ConfigCases == {[data |-> d, does |-> (ed1 :> c1 @@ ed2 :> c2)] : d \in Configs, c1 \in ConfigCmds, c2 \in ConfigCmds}
NoConfig == [data |-> Config(4, {}, <<>>), does |-> [x \in Editor |-> ConfigCmd("plain", ja, "")]]

HandCase(where, policy, desktop, faulty) == [session |-> where, policy |-> policy, desktop |-> desktop, faults |-> faulty]
HandCases == {HandCase("zero", "handoff", TRUE, 2), HandCase("zero", "handoff", FALSE, 0), HandCase("zero", "allow", TRUE, 0),
              HandCase("desk", "handoff", TRUE, 0)}

FleetCase(what, where, among, filled, tiny, named, hard, faulty, by) ==
  [kind |-> what, to |-> where, targets |-> among, body |-> filled, short |-> tiny, known |-> named, effort |-> hard, faults |-> faulty, user |-> by]
SendCase(what, filled, tiny, faulty, by) == FleetCase(what, "local", {}, filled, tiny, TRUE, FALSE, faulty, by)
FleetCases == {SendCase("plain", TRUE, FALSE, 2, {s1}), SendCase("plain", TRUE, TRUE, 1, {}), SendCase("wait", TRUE, FALSE, 2, {s1}),
                SendCase("compact", TRUE, FALSE, 2, {s1}), SendCase("compact", FALSE, FALSE, 1, {}),
                FleetCase("plain", "node", {}, TRUE, FALSE, TRUE, FALSE, 0, {}), FleetCase("model", "local", {s1}, TRUE, FALSE, TRUE, TRUE, 1, {s1}),
                FleetCase("model", "local", {s1, s2}, TRUE, FALSE, TRUE, FALSE, 1, {}), FleetCase("model", "local", {s1}, TRUE, FALSE, FALSE, TRUE, 2, {})}



Parts == {"lock", "stop", "attention", "attach", "paste", "call", "ticks", "edits", "handoff", "log", "fleet"}

PartsInit ==
  /\ part \in Parts
  /\ IF part = "lock" THEN Init ELSE (Init /\ os = "posix")
  /\ IF part = "stop" THEN StopInit ELSE (StopInit /\ Everyone = {AgentPid, ShellPid} /\ ppid[ShellPid] = Elsewhere /\ opaque = {})
  /\ IF part = "attention" THEN AttentionInit ELSE (scene = NoAttention /\ AttentionStart)
  /\ IF part = "attach" THEN AttachInit ELSE (world = NoAttach /\ AttachStart)
  /\ IF part = "paste" THEN PasteInit ELSE (plan = NoPaste /\ PasteStart)
  /\ IF part = "call" THEN CallInit ELSE CallRests
  /\ IF part = "ticks" THEN TickInit ELSE TickStart(TickSetup({}, 0, FALSE, 0, 0))
  /\ IF part = "edits" THEN ConfigInit ELSE ConfigStart(NoConfig)
  /\ IF part = "handoff" THEN HandInit ELSE HandStart(HandCase("desk", "refuse", FALSE, 0))
  /\ IF part = "log" THEN LogInit ELSE LogInit
  /\ IF part = "fleet" THEN FleetInit ELSE FleetStart(SendCase("plain", TRUE, FALSE, 0, {}))

PartsNext ==
  /\ UNCHANGED part
  /\ \/ part = "lock" /\ Next /\ UNCHANGED <<stopVars, attentionVars, attachVars, pasteVars, callVars, ticksVars, editsVars, handoffVars, logVars, fleetVars>>
     \/ part = "stop" /\ StopNext /\ UNCHANGED <<lockVars, attentionVars, attachVars, pasteVars, callVars, ticksVars, editsVars, handoffVars, logVars, fleetVars>>
     \/ part = "attention" /\ AttentionNext /\ UNCHANGED <<lockVars, stopVars, attachVars, pasteVars, callVars, ticksVars, editsVars, handoffVars, logVars, fleetVars>>
     \/ part = "attach" /\ AttachNext /\ UNCHANGED <<lockVars, stopVars, attentionVars, pasteVars, callVars, ticksVars, editsVars, handoffVars, logVars, fleetVars>>
     \/ part = "paste" /\ PasteNext /\ UNCHANGED <<lockVars, stopVars, attentionVars, attachVars, callVars, ticksVars, editsVars, handoffVars, logVars, fleetVars>>
     \/ part = "call" /\ CallNext /\ UNCHANGED <<lockVars, stopVars, attentionVars, attachVars, pasteVars, ticksVars, editsVars, handoffVars, logVars, fleetVars>>
     \/ part = "ticks" /\ TickNext /\ UNCHANGED <<lockVars, stopVars, attentionVars, attachVars, pasteVars, callVars, editsVars, handoffVars, logVars, fleetVars>>
     \/ part = "edits" /\ ConfigNext /\ UNCHANGED <<lockVars, stopVars, attentionVars, attachVars, pasteVars, callVars, ticksVars, handoffVars, logVars, fleetVars>>
     \/ part = "handoff" /\ HandNext /\ UNCHANGED <<lockVars, stopVars, attentionVars, attachVars, pasteVars, callVars, ticksVars, editsVars, logVars, fleetVars>>
     \/ part = "log" /\ LogNext /\ UNCHANGED <<lockVars, stopVars, attentionVars, attachVars, pasteVars, callVars, ticksVars, editsVars, handoffVars, fleetVars>>
     \/ part = "fleet" /\ FleetNext /\ UNCHANGED <<lockVars, stopVars, attentionVars, attachVars, pasteVars, callVars, ticksVars, editsVars, handoffVars, logVars>>

PartsSpec == PartsInit /\ [][PartsNext]_allVars

=============================================================================
