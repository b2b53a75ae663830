---------------------------- MODULE ConfigEdits ----------------------------
(***************************************************************************)
(* Who writes the config file, and how: the menu and the `magent config`   *)
(* commands (read, change one field, write straight), the first run that   *)
(* makes one, `node add` and `node remove`, `config migrate`, and an edit  *)
(* from another machine (`config edit`: cat, editor, put).  No lock is     *)
(* held between the read and the write; two may cross, and a straight      *)
(* write cut off leaves a torn file, which every reader refuses.           *)
(*                                                                         *)
(* A config is [v, pool, tool: the default one, plain: a count standing    *)
(* for the fields of no consequence here, ps: its projects, in order].     *)
(***************************************************************************)
EXTENDS Naturals, Sequences

CONSTANTS Nick, Editor,
          Nothing,       \* no config
          MaxPlain,      \* bounds the saves of one menu
          ConfigSetups   \* data: the file's, does: what each editor is to do, placed: nodes with a session

VARIABLES file,     \* [data, whole, by: whose save it is]
          backup,   \* `.bak-remote-edit`
          ed,       \* the editors: [pc, cmd, data: what it read or will write, pool, torn, scratch, lost, ours]
          cuts      \* whether a writer was killed in the middle

configvars == <<file, backup, ed, cuts>>

Schema == 4
IsIde(d, p) == (IF p.tool = "default" THEN d.tool ELSE p.tool) = "vscode"

-----------------------------------------------------------------------------
(* What load_config says of a config.                                      *)

\* _check_node_projects: here, in the cloud, wherever there is room, or on a node of the pool.
NodeFits(d, p) == p.node = "here" \/ (~p.host /\ (p.node \in d.pool \cup {"cloud"} \/ (p.node = "auto" /\ d.pool # {})))
RunsOnNode(p) == p.node \notin {"here", "cloud"}
\* _check_session_names
OwnName(d) == \A i, j \in DOMAIN d.ps :
  i # j /\ d.ps[i].sid = d.ps[j].sid /\ ~IsIde(d, d.ps[i]) /\ ~IsIde(d, d.ps[j]) => ~RunsOnNode(d.ps[i]) /\ ~RunsOnNode(d.ps[j])
Loads(d) == (\A i \in DOMAIN d.ps : NodeFits(d, d.ps[i])) /\ OwnName(d)

\* _windows: 3, ["a"] and [{}, {}] are ways to say it.
Windows(w) == CASE w \in {"none", "flag"} -> "one" [] w \in {"count", "blanks"} -> "several" [] OTHER -> "named"
\* What a project means, its colour derived where it has none.
Meaning(d) == [i \in DOMAIN d.ps |-> [d.ps[i] EXCEPT !.windows = Windows(@), !.coloured = TRUE]]

-----------------------------------------------------------------------------
(* The changes.                                                            *)

DefaultConfig(ps) == [v |-> Schema, pool |-> {}, tool |-> "claude", plain |-> 0, ps |-> ps]
FirstRun(row) == DefaultConfig(<<row>>)                      \* _run_discovery, write_config
SetPlain(d) == [d EXCEPT !.plain = @ + 1]                    \* layout, base-dir, tools, the toggles
SetTool(d, t) == [d EXCEPT !.tool = t]
AddsProject(d, row) == [d EXCEPT !.ps = Append(@, row)]
\* Every one of that name; the menu's is one of a list.
Removes(d, p) == [d EXCEPT !.ps = SelectSeq(@, LAMBDA r : r.path # p)]
Named(d, p) == {i \in DOMAIN d.ps : d.ps[i].path = p}
First(d, p) == CHOOSE i \in Named(d, p) : \A j \in Named(d, p) : i <= j
DropsOne(d, p) == [d EXCEPT !.ps = SubSeq(@, 1, First(d, p) - 1) \o SubSeq(@, First(d, p) + 1, Len(@))]
SetField(d, p, f, v) == [d EXCEPT !.ps[First(d, p)][f] = v]
NodeAdds(d, n) == [d EXCEPT !.pool = @ \cup {n}]
\* _stranded, by the pool that was read first.
Stranded(p, n, pool) == p.node = n \/ (p.node = "auto" /\ pool \subseteq {n})
NodeRemoves(d, n, pool) == [d EXCEPT !.pool = @ \ {n},
  !.ps = [i \in DOMAIN @ |-> IF Stranded(@[i], n, pool) THEN [@[i] EXCEPT !.node = "here"] ELSE @[i]]]
\* migrate_raw, and the colours (_backfill_colors).
NewShape(w) == CASE w = "flag" -> "none" [] w = "count" -> "blanks" [] w = "names" -> "named" [] OTHER -> w
MigratedRow(p, v) == [p EXCEPT !.coloured = TRUE, !.windows = IF v < 3 THEN NewShape(p.windows) ELSE p.windows]
Migrated(d) == [d EXCEPT !.v = Schema, !.ps = [i \in DOMAIN d.ps |-> MigratedRow(d.ps[i], d.v)]]

Changed(d, c, pool) ==
  CASE c.kind \in {"plain", "put"} -> SetPlain(d)
    [] c.kind = "init" -> FirstRun(c.row)
    [] c.kind = "tool" -> SetTool(d, c.v)
    [] c.kind \in {"add", "add to a node"} -> AddsProject(d, c.row)
    [] c.kind = "remove" -> Removes(d, c.p)
    [] c.kind = "menu remove" -> DropsOne(d, c.p)
    [] c.kind = "set host" -> SetField(d, c.p, "host", TRUE)
    [] c.kind = "set title" -> SetField(d, c.p, "sid", 1)
    [] c.kind = "set node" -> SetField(d, c.p, "node", c.v)
    [] c.kind = "node add" -> NodeAdds(d, c.v)
    [] c.kind = "node remove" -> NodeRemoves(d, c.v, pool)
    [] c.kind = "migrate" -> Migrated(d)
    [] c.kind = "spoil" -> SetField(d, c.p, "host", TRUE)   \* what a person may type into an editor

\* Those that ask load_config before they write, and those that replace the file at once.
Vetted == {"add to a node", "set node", "node add", "node remove", "put", "spoil"}
FromAfar == {"put", "spoil"}
Atomic == FromAfar \cup {"node add", "node remove"}
Kinds == Vetted \cup {"plain", "init", "tool", "add", "remove", "menu remove", "set host", "set title", "migrate"}
ASSUME ConfigAssumption == \A s \in ConfigSetups :
  (s.data # Nothing => {"v", "ps"} \subseteq DOMAIN s.data) /\ \A e \in Editor : s.does[e].kind \in Kinds

-----------------------------------------------------------------------------
(* An editor.                                                              *)

Goes(e, r) == ed' = [ed EXCEPT ![e] = r]
GoesTo(e, pc) == Goes(e, [ed[e] EXCEPT !.pc = pc])
EditRest == UNCHANGED <<file, backup, cuts>>
Exists == file.data # Nothing \/ ~file.whole
Readable == file.data # Nothing /\ file.whole
Strands(d, n) == \E i \in DOMAIN d.ps : Stranded(d.ps[i], n, d.pool)
\* `node remove` loads the typed config, and asks, before it reads what it will change.
Considers(e) ==
  LET c == ed[e].cmd  d == file.data  may == Readable /\ Loads(d) /\ c.v \in d.pool /\ ~c.placed IN
  /\ ed[e].pc = "start" /\ c.kind = "node remove" /\ EditRest
  /\ \/ may /\ Goes(e, [ed[e] EXCEPT !.pc = "read", !.pool = d.pool])
     \/ (may => Strands(d, c.v)) /\ GoesTo(e, "refused")
\* A torn file is a traceback; a first run makes the config there is not, and so does a first node.
Finds(c) == IF c.kind = "init" THEN ~Exists
            ELSE (c.kind = "node add" /\ ~Exists) \/
                 (Readable /\ (c.kind \in {"set host", "set title", "set node", "remove", "menu remove"} => Named(file.data, c.p) # {})
                           /\ (c.kind = "migrate" => Migrated(file.data) # file.data))
Reads(e) ==
  LET c == ed[e].cmd IN
  /\ \/ ed[e].pc = "start" /\ c.kind \notin FromAfar \cup {"node remove"}
     \/ ed[e].pc = "read"
  /\ EditRest
  /\ IF ~Finds(c) THEN GoesTo(e, "refused")
     ELSE Goes(e, [ed[e] EXCEPT !.pc = "held", !.data = Changed(IF Exists THEN file.data ELSE DefaultConfig(<<>>), c, ed[e].pool)])
\* `config edit`: the host's text as it is, though nothing of it parses; an empty answer ends it.
Fetches(e) ==
  /\ ed[e].pc = "start" /\ ed[e].cmd.kind \in FromAfar /\ EditRest
  /\ \/ ~Readable /\ GoesTo(e, "refused")
     \/ file.data # Nothing /\ Goes(e, [ed[e] EXCEPT !.pc = "edit", !.data = file.data, !.torn = ~file.whole, !.scratch = TRUE])
\* The person saved nothing new, and the copy goes; or what they saved is checked here, and then by `config put` there.
Edits(e) ==
  LET c == ed[e].cmd  d == ed[e].data IN
  /\ ed[e].pc = "edit" /\ EditRest
  /\ \/ Goes(e, [ed[e] EXCEPT !.pc = "unchanged", !.scratch = FALSE])
     \/ /\ c.kind = "spoil" => Named(d, c.p) # {}
        /\ \E mended \in {TRUE, ~ed[e].torn} :
             Goes(e, [ed[e] EXCEPT !.pc = IF mended /\ Loads(Changed(d, c, {})) THEN "held" ELSE "kept", !.data = Changed(d, c, {})])
\* The menu holds what it read for as long as its questions take; `node add` may have no login or no key.
Vets(e) ==
  LET c == ed[e].cmd  fine == c.kind \in Vetted => Loads(ed[e].data) IN
  /\ ed[e].pc = "held" /\ EditRest
  /\ \/ fine /\ GoesTo(e, "save")
     \/ (fine => c.kind = "node add") /\ GoesTo(e, "refused")
Opens(e) == /\ ed[e].pc = "save" /\ ed[e].cmd.kind \notin Atomic /\ UNCHANGED <<backup, cuts>>
            /\ file' = [file EXCEPT !.whole = FALSE, !.by = ed[e].cmd.kind] /\ Goes(e, [ed[e] EXCEPT !.pc = "open", !.torn = FALSE])
\* Over another's text that came meanwhile, it may leave that one's tail; to a file that was replaced, it goes nowhere.
Fills(e) ==
  /\ UNCHANGED <<backup, cuts>>
  /\ \/ /\ ed[e].pc = "open"
        /\ \E w \in {TRUE, ~ed[e].torn} : file' = [data |-> ed[e].data, whole |-> w, by |-> ed[e].cmd.kind]
        /\ ed' = [x \in Editor |-> IF x = e THEN [ed[e] EXCEPT !.pc = "done"] ELSE IF ed[x].pc = "open" THEN [ed[x] EXCEPT !.torn = TRUE] ELSE ed[x]]
     \/ ed[e].pc = "adrift" /\ GoesTo(e, "done") /\ UNCHANGED file
\* The tools' menu saves again what it read before.
SavesAgain(e) == ed[e].pc = "done" /\ ed[e].cmd.kind = "plain" /\ ed[e].data.plain < MaxPlain /\ EditRest
                 /\ Goes(e, [ed[e] EXCEPT !.pc = "held", !.data = SetPlain(@)])
\* `config put` keeps the file that it replaces, as it is.
BacksUp(e) == /\ ed[e].pc = "save" /\ ed[e].cmd.kind \in FromAfar /\ UNCHANGED <<file, cuts>>
              /\ backup' = (IF Exists THEN [data |-> file.data, whole |-> file.whole] ELSE backup) /\ GoesTo(e, "replace")
\* A file beside it, under a name of its own, and os.replace; Windows refuses that while somebody has the file open.
Replaces(e) ==
  /\ \/ ed[e].pc = "replace"
     \/ ed[e].pc = "save" /\ ed[e].cmd.kind \in Atomic \ FromAfar
  /\ UNCHANGED <<backup, cuts>>
  /\ \/ /\ file' = [data |-> ed[e].data, whole |-> TRUE, by |-> ed[e].cmd.kind]
        /\ ed' = [x \in Editor |-> IF x = e THEN [ed[e] EXCEPT !.pc = "done", !.ours = TRUE] ELSE IF ed[x].pc = "open" THEN [ed[x] EXCEPT !.pc = "adrift"] ELSE ed[x]]
     \/ GoesTo(e, "refused") /\ UNCHANGED file
\* The ssh of an edit is lost: what runs on the host may run on.  A writer is killed.
Lost(e) == /\ ed[e].pc \in {"held", "save", "replace", "done"} /\ ed[e].scratch /\ ~ed[e].lost /\ EditRest
           /\ Goes(e, [ed[e] EXCEPT !.lost = TRUE])
Cut(e) == /\ ed[e].pc \in {"held", "save", "open", "adrift", "replace"} /\ ~cuts /\ cuts' = TRUE
          /\ GoesTo(e, "cut") /\ UNCHANGED <<file, backup>>
\* The host said yes: the scratch copy goes.
Tidies_Whatever(e) == /\ ed[e].pc \in {"done", "refused", "kept"} /\ ed[e].scratch /\ Goes(e, [ed[e] EXCEPT !.scratch = FALSE]) /\ EditRest
Tidies(e) == /\ ed[e].pc = "done" /\ ed[e].scratch /\ ~ed[e].lost /\ Goes(e, [ed[e] EXCEPT !.scratch = FALSE]) /\ EditRest

NewEditor(c) == [pc |-> "start", cmd |-> c, data |-> Nothing, pool |-> {}, torn |-> FALSE, scratch |-> FALSE, lost |-> FALSE, ours |-> FALSE]
ConfigStart(s) ==
  /\ file = [data |-> s.data, whole |-> TRUE, by |-> "nobody"] /\ backup = Nothing /\ cuts = FALSE
  /\ ed = [e \in Editor |-> NewEditor(s.does[e])]
ConfigInit == \E s \in ConfigSetups : ConfigStart(s)
ConfigNext ==
  \/ \E e \in Editor : Considers(e) \/ Reads(e) \/ Fetches(e) \/ Edits(e) \/ Vets(e) \/ Opens(e) \/ Fills(e) \/ SavesAgain(e)
                       \/ BacksUp(e) \/ Replaces(e) \/ Lost(e) \/ Cut(e) \/ Tidies(e)
  \/ UNCHANGED configvars
ConfigSpec == ConfigInit /\ [][ConfigNext]_configvars

-----------------------------------------------------------------------------
ConfigTypeOK ==
  /\ file.whole /\ file.data # Nothing => file.data.v \in 0..Schema /\ file.data.pool \subseteq Nick
  /\ \A e \in Editor : ed[e].pc \in {"start", "read", "edit", "held", "save", "open", "adrift", "replace", "done", "refused", "kept", "unchanged", "cut"}

(* Whoever crosses whom, and whoever is killed in the middle: a save that  *)
(* was vetted loads, and a whole config that replaces the file is never    *)
(* half of one (_save_raw_config_atomic); an edit from another machine is  *)
(* on the host or still in the scratch copy (_remote_config_edit); and     *)
(* migrating changes how the file says it, never what it says              *)
(* (migrate_config_file).                                                  *)
ConfigSurvives ==
  /\ file.by \in Vetted => (file.whole => Loads(file.data))
  /\ ~file.whole => file.by \notin Atomic
  /\ \A e \in Editor : ed[e].cmd.kind \in FromAfar /\ ed[e].pc \in {"held", "save", "replace", "done", "kept", "refused", "cut"} /\ ed[e].data # Nothing
                       => ed[e].ours \/ ed[e].scratch
  /\ file.data # Nothing => Meaning(Migrated(file.data)) = Meaning(file.data) /\ Migrated(Migrated(file.data)) = Migrated(file.data)
=============================================================================
