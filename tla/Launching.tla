----------------------------- MODULE Launching -----------------------------
(***************************************************************************)
(* `magent --go`, `-g` and `--retile-all`: one look at the desktop, a      *)
(* window for each pane that has none, the psmux sessions and the node     *)
(* projects after the local ones, then every window into a slot of the     *)
(* grid, in sweeps, for a window shows up when it does.  Meanwhile the     *)
(* user and other commands open and close windows, and the attention       *)
(* daemon badges titles.                                                   *)
(*                                                                         *)
(* A project is [kind, name, on, group, checked, found, known, caps, auto, *)
(* talks, panes]: its kind "local", "remote", "ide" or "node"; whether it  *)
(* is enabled, its group, whether the checklist has it, whether its folder *)
(* is there, its tool known and of the kind that resumes by id; whether a  *)
(* load decides its node; its stored conversations, the newest first; its  *)
(* windows, each [title, runs], Nil for a title of none.                   *)
(***************************************************************************)
EXTENDS Integers, FiniteSets, Sequences, TLC, SequencesExt

CONSTANTS Nil,
          Respelled,     \* psmux.session_name: the names it changes
          Within,        \* <<a, b>>: a title of b contains a
          MinTileW, MinTileH,        \* MIN_TILE_W, MIN_TILE_H
          LongTries, ShortTries,     \* RETRY_SECS_CONTAINS, RETRY_SECS_EXACT, in polls
          LaunchSetups   \* [projects, monitors, columns, rows, go, retile, dry, group, checklist, prefix, psmux, screen, alive, others, closes, badges, faults]

VARIABLES desk,          \* the windows there ever were, in the order they were opened
          run,           \* the command
          asked          \* the behaviour's setup, counting down what may still happen

launchvars == <<desk, run, asked>>

\* What this command's last placement of a window came to; Nil where it never moved it.
NewWindow(name, form, by, talk) == [name |-> name, form |-> form, marked |-> FALSE, state |-> "coming", by |-> by, spot |-> Nil, talk |-> talk]
NoRun == [pc |-> "start", panes |-> <<>>, seen |-> {}, targets |-> <<>>, mux |-> <<>>, queue |-> <<>>, slots |-> <<>>, pending |-> <<>>, tries |-> 0]
Places == {"start", "look", "panes", "psmux", "nodes", "tile", "sweep", "polls", "tiled", "stopped"}

LaunchTypeOK ==
  /\ run.pc \in Places /\ run.seen \subseteq DOMAIN desk
  /\ \A i \in DOMAIN desk : desk[i].state \in {"coming", "open", "gone"} /\ desk[i].form \in {"magent", "plain", "ide"} /\ desk[i].marked \in BOOLEAN

RetileAll == asked.retile \/ asked.go
TileOnly == asked.retile /\ ~asked.go
\* Where nothing is opened.
Quiet == asked.dry \/ TileOnly

-----------------------------------------------------------------------------
(* The grid.                                                               *)

AtLeast(a, b) == IF a < b THEN b ELSE a
AtMost(a, b) == IF a < b THEN a ELSE b
\* As many columns as are wide enough; the scale is in hundredths.
Fit(count, extent, scale, least) == AtLeast(1, AtMost(count, (100 * extent) \div (least * AtLeast(100, scale))))
\* round(): half to even.
Rounded(a, b) == LET q == a \div b  r == 2 * (a % b) IN IF r < b \/ (r = b /\ q % 2 = 0) THEN q ELSE q + 1
Cells(m, i, columns, rows) ==
  LET cs == Fit(columns, m.w, m.scale, MinTileW)  rs == Fit(rows, m.h, m.scale, MinTileH)
      left(c) == m.x + Rounded(c * m.w, cs)  upper(r) == m.y + Rounded(r * m.h, rs)
  IN [k \in 1..(cs * rs) |-> LET c == (k - 1) % cs  r == (k - 1) \div cs IN
       [x |-> left(c), y |-> upper(r), w |-> left(c + 1) - left(c), h |-> upper(r + 1) - upper(r), screen |-> i]]
ComputeGrid(monitors, columns, rows) ==
  LET sorted == SortSeq(monitors, LAMBDA a, b : a.x < b.x) IN
  FlattenSeq([i \in DOMAIN sorted |-> Cells(sorted[i], i, columns, rows)])

-----------------------------------------------------------------------------
(* Titles.                                                                 *)

Visible == {i \in DOMAIN desk : desk[i].state = "open"}
\* magent's own titles are told by the name in them, whatever badge there is.
MagentName_Unbadged(w, key) == w.form = "magent" /\ w.name = key /\ ~w.marked
MagentName(w, key) == w.form = "magent" /\ w.name = key
Shows(w, key, mode) ==
  \/ mode = "magent-name" /\ MagentName(w, key)
  \/ mode = "exact" /\ w.form = "plain" /\ w.name = key
  \/ mode = "contains" /\ (w.name = key \/ <<key, w.name>> \in Within)
Running(key, mode) == \E i \in run.seen : Shows(desk[i], key, mode)

MatchMode == IF asked.prefix THEN "magent-name" ELSE "exact"
Form == IF asked.prefix THEN "magent" ELSE "plain"
Sane(name) == IF name \in DOMAIN Respelled THEN Respelled[name] ELSE name

\* A pane's title: its own, the project's, or the project's with a number.
Titles(p) == [i \in DOMAIN p.panes |->
  IF p.panes[i].title # Nil THEN p.panes[i].title ELSE IF i = 1 THEN p.name ELSE <<p.name, i>>]
PanesOf(p) == IF p.kind = "local" THEN [i \in DOMAIN p.panes |-> [of |-> p, i |-> i, title |-> Titles(p)[i], runs |-> p.panes[i].runs]]
              ELSE <<[of |-> p, i |-> 1, title |-> p.name, runs |-> "tool"]>>
Muxed(pane) == asked.psmux /\ pane.of.kind = "local"
TileKey(pane) == IF Muxed(pane) THEN Sane(pane.title) ELSE pane.title

\* The i-th newest conversation goes to the i-th window.
SessionId_Newest(p, i) == IF p.found /\ p.caps /\ p.talks # <<>> THEN p.talks[1] ELSE "fresh"
SessionId(p, i) == IF p.found /\ p.caps /\ i <= Len(p.talks) THEN p.talks[i] ELSE "fresh"
\* What a pane resumes: a conversation by its id, the latest one there is, or none.
Resumed(pane) ==
  LET p == pane.of  several == Len(p.panes) > 1 IN
  IF p.kind = "remote" THEN "latest"
  ELSE IF pane.runs = "literal" THEN "literal"
  ELSE IF pane.runs = "other" THEN IF several THEN "fresh" ELSE "other"
  ELSE IF several THEN SessionId(p, pane.i)
  ELSE IF p.found /\ p.talks = <<>> THEN "fresh" ELSE "latest"

-----------------------------------------------------------------------------
(* The world.                                                              *)

World(i, w) == run.pc \notin {"start", "tiled", "stopped"} /\ desk' = [desk EXCEPT ![i] = w] /\ UNCHANGED run
Spends(what) == asked[what] > 0 /\ asked' = [asked EXCEPT ![what] = @ - 1]

Appears(i) == desk[i].state = "coming" /\ World(i, [desk[i] EXCEPT !.state = "open"]) /\ UNCHANGED asked
Closes(i) == desk[i].state = "open" /\ Spends("closes") /\ World(i, [desk[i] EXCEPT !.state = "gone"])
Badges(i) == desk[i].state = "open" /\ desk[i].form = "magent" /\ Spends("badges") /\ World(i, [desk[i] EXCEPT !.marked = ~@])
\* Another command opens a window.
OtherOpens(name) ==
  /\ run.pc \notin {"start", "tiled", "stopped"} /\ Spends("others")
  /\ desk' = Append(desk, [NewWindow(name, "magent", "other", "other") EXCEPT !.state = "open"]) /\ UNCHANGED run

-----------------------------------------------------------------------------
(* The command.                                                            *)

Goes(r) == run' = r
Stops == run' = [run EXCEPT !.pc = "stopped"]
\* Windows Terminal is not there, the conversations cannot be listed.
Raises == run.pc \in {"panes", "psmux"} /\ Spends("faults") /\ Stops /\ UNCHANGED desk

Chosen(ps) == SelectSeq(ps, LAMBDA p : p.on /\ (asked.group # Nil => p.group = asked.group) /\ (asked.checklist => p.checked))
\* No monitor, no project of the group, none checked; else the placement drops what it cannot place.
Starts ==
  /\ run.pc = "start" /\ UNCHANGED <<desk, asked>>
  /\ LET ps == Chosen(asked.projects) IN
     IF asked.monitors = <<>> \/ (ps = <<>> /\ (asked.group # Nil \/ asked.checklist)) THEN Stops
     ELSE \E unplaced \in SUBSET {i \in DOMAIN ps : ps[i].kind = "node" /\ ps[i].auto} :
       Goes([run EXCEPT !.pc = "look", !.slots = ComputeGrid(asked.monitors, asked.columns, asked.rows),
              !.panes = FlattenSeq([i \in DOMAIN ps |-> IF i \in unplaced THEN <<>> ELSE PanesOf(ps[i])])])
Looks == run.pc = "look" /\ Goes([run EXCEPT !.pc = "panes", !.seen = Visible]) /\ UNCHANGED <<desk, asked>>

Pane == Head(run.panes)
NextPane(r) == Goes([r EXCEPT !.panes = Tail(@)])
Target(key, mode) == [key |-> key, mode |-> mode, new |-> ~Running(key, mode)]
WithTarget(t) == [run EXCEPT !.targets = Append(@, t)]
Spawns(w) == desk' = Append(desk, w)
AtPane(kinds) == run.pc = "panes" /\ run.panes # <<>> /\ Pane.of.kind \in kinds /\ UNCHANGED asked

DispatchIde ==
  /\ AtPane({"ide"})
  /\ LET t == Target(Pane.title, "contains") IN
     /\ NextPane(WithTarget(t))
     /\ IF t.new /\ ~Quiet THEN Spawns(NewWindow(t.key, "ide", "run", "ide")) ELSE UNCHANGED desk
\* A node's project is only queued here.
DispatchNode ==
  /\ AtPane({"node"}) /\ UNCHANGED desk
  /\ LET t == Target(Pane.title, "magent-name") IN
     NextPane([WithTarget(t) EXCEPT !.queue = IF t.new /\ ~Quiet THEN Append(@, t.key) ELSE @])
\* A tool that is not in the settings: none of the project's windows.
SkipUnknown == AtPane({"local", "remote"}) /\ ~Pane.of.known /\ NextPane(run) /\ UNCHANGED desk
\* A session's window is looked for by the name it has.
MuxTarget_Raw(pane) == Target(pane.title, MatchMode)
MuxTarget(pane) == Target(TileKey(pane), MatchMode)
\* The session's window is opened later, and not where its folder is missing; it is a target either way.
DispatchMux ==
  /\ AtPane({"local"}) /\ Pane.of.known /\ Muxed(Pane) /\ UNCHANGED desk
  /\ LET t == MuxTarget(Pane) IN
     NextPane([WithTarget(t) EXCEPT !.mux = IF t.new /\ ~Quiet /\ Pane.of.found THEN Append(@, [key |-> TileKey(Pane), talk |-> Resumed(Pane)]) ELSE @])
\* A terminal of its own; a folder that is missing is skipped, and no target.
DispatchTerminal ==
  /\ AtPane({"local", "remote"}) /\ Pane.of.known /\ ~Muxed(Pane)
  /\ LET t == Target(TileKey(Pane), MatchMode)  opens == t.new /\ ~Quiet IN
     IF opens /\ Pane.of.kind = "local" /\ ~Pane.of.found THEN NextPane(run) /\ UNCHANGED desk
     ELSE /\ NextPane(WithTarget(t))
          /\ IF opens THEN Spawns(NewWindow(t.key, Form, "run", Resumed(Pane))) ELSE UNCHANGED desk
PanesDone == run.pc = "panes" /\ run.panes = <<>> /\ Goes([run EXCEPT !.pc = "psmux"]) /\ UNCHANGED <<desk, asked>>

\* A window for every session that was collected, whether it was there, was made, or did not come up.
AttachMux ==
  /\ run.pc = "psmux" /\ run.mux # <<>> /\ UNCHANGED asked /\ Goes([run EXCEPT !.mux = Tail(@)])
  /\ LET m == Head(run.mux) IN \E talk \in {IF m.key \in asked.alive THEN "kept" ELSE m.talk, "down"} :
       Spawns(NewWindow(m.key, Form, "run", talk))
MuxDone == run.pc = "psmux" /\ run.mux = <<>> /\ Goes([run EXCEPT !.pc = IF run.queue # <<>> THEN "nodes" ELSE "tile"]) /\ UNCHANGED <<desk, asked>>

\* The queued projects come up, each with its window or without; the target of one that has none is dropped.
BringUpNodes ==
  /\ run.pc = "nodes" /\ UNCHANGED asked
  /\ \E shown \in SUBSET Range(run.queue) :
       /\ desk' = desk \o [i \in DOMAIN SetToSeq(shown) |-> NewWindow(SetToSeq(shown)[i], "magent", "run", "node")]
       /\ Goes([run EXCEPT !.pc = "tile", !.queue = <<>>,
                 !.targets = SelectSeq(@, LAMBDA t : t.key \notin Range(run.queue) \ shown)])

-----------------------------------------------------------------------------
(* Tiling.                                                                 *)

\* magent's windows on the screen that no target is for: `magent attach` opened them.
Discovered_ByKey == {desk[i].name : i \in {j \in run.seen : desk[j].form = "magent"}} \ {t.key : t \in Range(run.targets)}
Discovered == IF ~asked.prefix THEN {}
              ELSE {desk[i].name : i \in {j \in run.seen : desk[j].form = "magent"}} \ {t.key : t \in {u \in Range(run.targets) : u.mode = "magent-name"}}
New_All(ts) == ts
New(ts) == SelectSeq(ts, LAMBDA t : t.new)
Old(ts) == SelectSeq(ts, LAMBDA t : ~t.new)
Tiled(extras) == IF RetileAll THEN (IF TileOnly THEN Old(run.targets) ELSE run.targets) \o [i \in DOMAIN extras |-> [key |-> extras[i], mode |-> "magent-name", new |-> FALSE]]
                 ELSE New(run.targets)
SlotFor_First(i) == run.slots[1]
SlotFor(i) == run.slots[((i - 1) % Len(run.slots)) + 1]
Tiles ==
  /\ run.pc = "tile" /\ UNCHANGED <<desk, asked>>
  /\ \E extras \in SetToSeqs(Discovered) : LET ts == Tiled(extras) IN
       IF ts = <<>> \/ asked.dry THEN Goes([run EXCEPT !.pc = "tiled", !.targets = ts])
       ELSE Goes([run EXCEPT !.pc = "sweep", !.targets = ts, !.tries = -1,
                   !.pending = [i \in DOMAIN ts |-> [key |-> ts[i].key, mode |-> ts[i].mode, slot |-> SlotFor(i)]]])

Matches(p) == {i \in Visible : Shows(desk[i], p.key, p.mode)}
Looked(p) == <<p.key, p.mode>>
\* One look: every pending window that is there is moved to its slot; of several it may be any.
Moved(pick) == [i \in DOMAIN desk |->
  LET here == {k \in DOMAIN run.pending : Looked(run.pending[k]) \in DOMAIN pick /\ pick[Looked(run.pending[k])] = i} IN
  IF here = {} THEN desk[i] ELSE [desk[i] EXCEPT !.spot = run.pending[CHOOSE k \in here : \A l \in here : l <= k].slot]]
Budget(ps) == IF \E p \in Range(ps) : p.mode = "contains" THEN LongTries ELSE ShortTries
Sweeps ==
  /\ run.pc = "sweep" /\ UNCHANGED asked
  /\ LET there == {p \in Range(run.pending) : Matches(p) # {}}
         still == SelectSeq(run.pending, LAMBDA p : p \notin there)
         tries == IF run.tries = -1 THEN Budget(still) ELSE run.tries - 1
     IN /\ \E pick \in [{Looked(p) : p \in there} -> Visible] :
             (\A p \in there : pick[Looked(p)] \in Matches(p)) /\ desk' = Moved(pick)
        /\ Goes([run EXCEPT !.pending = still, !.tries = tries, !.pc = IF still = <<>> \/ tries = 0 THEN "tiled" ELSE "polls"])
Polls == run.pc = "polls" /\ Goes([run EXCEPT !.pc = "sweep"]) /\ UNCHANGED <<desk, asked>>

OnScreen(names) == [i \in DOMAIN names |-> [NewWindow(names[i].name, names[i].form, "before", "before") EXCEPT !.state = "open"]]
LaunchStart(s) == asked = s /\ run = NoRun /\ desk = OnScreen(s.screen)
LaunchInit == \E s \in LaunchSetups : LaunchStart(s)

Over == run.pc \in {"tiled", "stopped"} /\ UNCHANGED launchvars
LaunchNext ==
  \/ Over \/ Raises \/ Starts \/ Looks \/ DispatchIde \/ DispatchNode \/ SkipUnknown \/ DispatchMux \/ DispatchTerminal \/ PanesDone
  \/ AttachMux \/ MuxDone \/ BringUpNodes \/ Tiles \/ Sweeps \/ Polls
  \/ \E i \in DOMAIN desk : Appears(i) \/ Closes(i) \/ Badges(i)
  \/ \E name \in {Sane(asked.projects[k].name) : k \in DOMAIN asked.projects} : OtherOpens(name)

LaunchSpec == LaunchInit /\ [][LaunchNext]_launchvars

-----------------------------------------------------------------------------

Opened == {i \in DOMAIN desk : desk[i].by = "run"}
Stirred == {i \in DOMAIN desk : desk[i].spot # Nil}

(* A window is opened only where the look found none by its name and kind, *)
(* and none at all by a dry run or a re-tile: a spelling of the name that  *)
(* psmux changes, a badge, a second entry notwithstanding.                 *)
OpensWhatIsMissing == \A i \in Opened :
  /\ ~Quiet
  /\ \A j \in run.seen : desk[j].name # desk[i].name \/ desk[j].form # desk[i].form

(* No two windows that one launch opens resume the same conversation by    *)
(* its id, for a project that is listed once.                              *)
ResumesOnce == \A i, j \in Opened :
  i # j /\ desk[i].talk = desk[j].talk => desk[i].talk \in {"fresh", "latest", "literal", "other", "kept", "down", "ide", "node"}

(* A launch that does not re-tile moves no window that was on the screen   *)
(* when it looked.                                                         *)
LeavesTheRest == ~RetileAll => Stirred \cap run.seen = {}

(* A re-tile moves every one of magent's windows that was there when it    *)
(* looked and still is, or another one by that name: whatever is           *)
(* configured, enabled, of the group, or badged.                           *)
RetilesAll == run.pc = "tiled" /\ RetileAll /\ asked.prefix /\ ~asked.dry =>
  \A i \in run.seen : desk[i].form = "magent" /\ desk[i].state = "open" =>
    \E j \in Stirred : desk[j].form = "magent" /\ desk[j].name = desk[i].name

(* While there are slots enough, no two windows that were moved overlap.   *)
Apart(a, b) == a.x + a.w <= b.x \/ b.x + b.w <= a.x \/ a.y + a.h <= b.y \/ b.y + b.h <= a.y
NoneOverlaps == Len(run.targets) <= Len(run.slots) => \A i, j \in Stirred : i # j => Apart(desk[i].spot, desk[j].spot)

(* All of it: what a launch opens, resumes, moves and leaves alone.        *)
LaunchIsTidy == OpensWhatIsMissing /\ ResumesOnce /\ LeavesTheRest /\ RetilesAll /\ NoneOverlaps
=============================================================================
