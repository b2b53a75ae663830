# TLA+ models of magent

magent opens a window for every project of a developer, with a coding agent
running in a terminal session (psmux on Windows, tmux elsewhere, or a remote
machine called a *node*), and keeps the whole set running.  Several programs do
that at the same time, with no central server: commands a human types, windows
that each supervise one session, and four background processes that restart one
another.  They coordinate through pid files, heartbeat files, lock files, TCP
ports and JSON files.  The models are about that coordination: what happens when
these programs interleave, crash, time out, hang, or act on something they read
too early.

Contents

1. Inventory: the parts of the system
2. Plan: modules, runs, theorems
3. How the models are written
4. The modules, one by one, with their runs and bounds
5. Fairness
6. Proofs
7. Where the code and its documents disagree
8. Further observations
9. What is not modelled

Paths are relative to `src/magent` of the repository unless they begin with a
document's name.

## 1. Inventory

### Who acts

| process | started by | keeps | code |
|---|---|---|---|
| `magent up`, `launch`, `down`, `recall`, ... | a human | nothing between calls | `launch.py`, `cli/*.py` |
| `attach` client, one per window | `up`, `launch` | which session it serves, its back-off | `attach_client.py`, `cli/attach.py` |
| `serve` (the upload server) | `up`, the attention daemon | port, pid file, heartbeat; threads that supervise | `upload_server.py` |
| attention daemon | a human; revived by serve | pid file, heartbeat; one view of every agent | `cli/attention_cmd.py`, `attention.py` |
| Alt+V listener | `up`, `attach`; revived by serve | pid file, manifest, heartbeat, a keyboard hook | `hotkey.py`, `altv.py`, `launch.py` |
| node-sync daemon | `up` with a project on a node | pid file, watermarks | `node_sync.py` |
| `node ...`, `config ...`, `send`, `model` | a human | nothing between calls | `cli/node_cmd.py`, `cli/config_*.py`, `cli/fleet_cmd.py` |
| `node_apply`, `bring_up.sh`, `install_transcripts.sh` on a node | a call over ssh | `~/.magent/provision.json` there | `node_scripts/` |
| agents (Claude, Codex) | a session's command line | transcripts, state files | `state_hook.py`, `agent_state.py` |

### What they share

| state | file | writers | readers |
|---|---|---|---|
| exclusive and persistent locks | `lockfile.py` | everybody | everybody |
| pid files | `pidfile.py` | daemons | launchers, supervisors, stops |
| heartbeats | `log.py` | daemons, listener, serve | supervisors, `status` |
| the sessions | psmux sockets, `psmux.py` | `up`, attach, `down`, reaper | all |
| agent states | `agent_state.py` | hooks, reaper | attention daemon, `status`, reaper |
| node map `map.json` | `nodes.py` | `up`, `down`, `recall` | node-sync daemon, attach, `status` |
| pull watermarks and mirror | `node_sync.py`, `remote_mux.py` | node-sync daemon, `down`, `recall` | `status`, `recall` |
| load samples `load.jsonl` | `node_sync.py` | node-sync daemon | placements |
| the nodes' sign-in token | `node_auth.py` | `node auth`, `setup`, `up` | every provision |
| the logs | `log.py` | everybody | humans |
| configuration | `config.py`, `cli/config_io.py` | editor, init | everybody |

### The components, their operations, their hard behaviours, their properties

**Exclusive lock** (`lockfile.py`).  A lock file that is deleted on release.
Operations: `exclusive_lock` (open, try to lock, check the path still names the
file, retry; delete, unlock), `persistent_lock`.  Hard: a contender can lock a
file that has just been deleted.  Correct when one process holds it, the path
names the holder's file, and a failure means that somebody held it.

**Attention daemon lifecycle** (`cli/attention_cmd.py`, `pidfile.py`,
`procs.py`, `log.py`).  Operations: launch in the background under a lock with a
registration window; run in the foreground; beat; stop; crash; be revived by
serve.  Hard: the decision, the spawn and the registration are far apart; the
pid file is read, judged and removed by path; pids are reused.  Correct when
there is one daemon and the record names it, a stop ends nothing else and is
final, and a crash is repaired.

**Alt+V listener lifecycle** (`launch.py`, `hotkey.py`, `upload_server.py`).
Operations: start from a human's command or an attach; supervise (dead, wedged,
not registered, of another version); re-aim.  Hard: start paths that hold no
lock; pid and manifest are two files; a sleep makes the heartbeat old.  Correct
when there is one listener, aimed where the human aimed it, and a healthy one is
left alone.

**serve and mutual supervision** (`upload_server.py`, `launch.py`,
`cli/mobile.py`, `cli/status.py`).  Operations: bind (loopback, tailnet, every
interface), probe, give up or retreat, record the pid, revive the daemon and the
listener; be revived by the daemon; `down --all`.  Hard: several starting serves
bind several addresses one by one; an answer that takes too long; stopping
processes that restart each other.  Correct when one serve serves and is named,
a crash is repaired within the back-off, and nothing is left after `down --all`.

**Sessions** (`psmux.py`, `platform/windows.py`, `launch.py`,
`cli/attach.py`).  Operations: look for the wanted sessions, clear wedged
sockets, create in waves, type the agent's command, check, re-send, second pass;
revive a bare pane; stop and check.  Hard: every call has a deadline after which
the client is killed but its effect may still happen; a hung socket; probes that
lie.  Correct when no agent is killed or typed into by a bring-up, reports are
true, and every bring-up ends.

**Node files** (`node_sync.py`, `remote_mux.py`, `node_scripts/pull.sh`).
Operations: one pull (ask with watermarks, scan, reply within a size, store,
advance), the daemon's tick, `final_pull` before a session is stopped or
recalled.  Hard: files change while they are scanned; replies are cut; two
clocks; crashes between storing and recording; a stop must not lose the last
turn.  Correct when nothing falls behind a watermark, nothing newer is
overwritten, and a placement is kept until its files are home.

**Node placement** (`nodes.py`, `launch.py`, `cli/node_cmd.py`).  State: the
node map.  Operations: `up` on a node, `down`, `recall` home or to another node,
each a read, a remote effect, and a write under `map_lock`.  Hard: the remote
effect happens outside the lock; two writers; a torn map.  Correct when a
session that runs is in the map or was reported, and nobody's entry is lost.

**Agent states and the idle reaper** (`agent_state.py`, `state_hook.py`,
`reap.py`).  State: one file per session, `working`, `done`, `needs-input`,
`error`, `idle`, `parked`.  Operations: a hook writes the state; the reaper
looks, decides, ends the agent and marks the pane parked; an attach unparks.
Hard: the pane wakes between look and act.  Correct when a pane at work is never
parked and a parked one can always come back.

**Attention engine** (`attention.py`).  State: what has been announced per
session.  Operation: one poll.  Hard: states that come and go between polls,
acknowledgement, reminders.  Correct when what needs a human is announced once
and withdrawn when it no longer does.

**Attach client** (`attach_client.py`, `cli/attach.py`).  State: attempts,
back-off, whether the session ended on purpose.  Operations: probe, attach,
revive, wait, give up.  Hard: distinguishing a detach, a kill, a crash, and a
socket that hangs.  Correct when a window re-attaches to a session that lives
and does not bring back one that was stopped.

**Node-sync daemon** (`node_sync.py`, `cli/node_cmd.py`).  State: its lock, pid
file and heartbeat; the pulls in flight, each node's last outcome, the load
samples.  Operations: be spawned by serve or by hand, tick, reload its
configuration, wind down, be stopped by `node sync --stop` or `down --all`.
Hard: a daemon spawned just before the stop locks after it; pulls outlive ticks,
pools and configurations.  Correct when nothing is left after `down --all`,
every pull is noted once with its own outcome, and an edit takes effect.

**A bring-up on a node** (`launch.py`, `remote_mux.py`, `nodes.py`,
`node_scripts/bring_up.sh`).  Operations: read the local repo, refuse or go,
list and vet the files to ship, one bounded call, update the node's repo, seed
memory, start the session.  Hard: the user works between any two reads; a child
that floods, stops or leaves a grandchild; a script cut short.  Correct when the
session has the PC's work, nothing made on the node is lost, nothing ships that
must not, and the call returns all or says why.

**A node's configuration** (`node_scripts/node_apply.py`, `nodes.py`).  State on
the node: what earlier runs laid and finished.  Operations: choose what ships;
run the steps; merge; take back what no longer ships; remember.  Hard: the
node's claude writes the same files, the PC fails to read some, a run dies.
Correct when what was shipped can be taken back, an unknown is never an empty,
and a token the node refreshed is not undone.

**Sign-in** (`node_auth.py`, `cli/node_cmd.py`, `cli/node_onboard.py`).  State:
the token file here, the token on each node.  Operations: mint, renew, ship,
the readiness gate of `up`.  Hard: a call given up leaves its applier running;
a renewal is cut short.  Correct when "new token in place" is true, a failed
renewal loses nothing, and no two appliers of one command meet.

**Recall's files** (`cli/node_cmd.py`, `install_transcripts.sh`).  Operations:
last pull, report, stop, install at home or on another node, place, bring up.
Hard: an install given up goes on beside the next one.  Correct when a node
keeps its turns and a conversation moves whole.

**Placement by load** (`nodes.py`, `node_sync.py`).  State: samples per node.
Operations: sample, trim, score, ask a thin node, place a batch.  Hard: a clock
that is stepped, torn rows, failed reads.  Correct when files stay small and a
project goes by what its node said last.

**Configuration** (`config.py`, `cli/config_io.py`, `cli/config_editor.py`).
Operations: menu and commands read, change and write; `node add`, `node remove`;
migrate; an edit from another machine.  Hard: no lock; a writer killed in the
middle.  Correct when a vetted save loads, an atomic one is whole, an edit from
afar is not lost, and migrating changes no meaning.

**Uploads, Alt+V, flashes** (`altv.py`, `upload_server.py`).  State: a press's
thread, a request, the files it saved, the pasting thread, the flash queue.
Hard: names reserved in one second; a paste that outlives its reply; slow
flashes.  Correct when a pasted line names whole files of its own, the verdict
is true, and the bar tells the phases in order.

**Hand-off** (`platform/windows.py`, `platform/_handoff_launcher.py`).  State: a
scheduled task, its launcher, its scratch folder.  Hard: every party may die or
be slow, every schtasks call may be given up after it worked.  Correct when the
code told is the command's, and the command runs once.

**Logs** (`log.py`).  One file that several processes append to and rotate.
Correct when only the oldest records go, in whole files.

**`send`, `model`** (`fleet.py`, `cli/fleet_cmd.py`).  Keys typed into a pane
seen only in captures.  Correct when "sent" was submitted and "ok" is switched.

**Bringing windows up** (`launch.py`, `tiling.py`, `grid.py`).  Operations: look
at the desktop once, open a window for each pane without one, collect the
sessions and the node projects, compute the grid, sweep until each window is in
its slot.  Hard: windows appear late, close, are badged, are opened by others,
and have names that psmux spells otherwise.  Correct when a launch opens what is
missing, resumes no conversation twice, moves what it was asked to, and no two
windows overlap.

**Others.**  Provisioning scripts, discovery, tables, the display commands.
Section 9 says why they are left out.

### How they interact

    human ── up / down / recall ──> node map, sessions, daemons
    serve <── revive ──> attention daemon            (Supervision)
    serve ─── revive ──> attention daemon's pid file (AttentionDaemon)
    serve ─── revive ──> listener                    (Listener)
    up ─── bring-up ──> sessions <── down, reaper    (Sessions)
    node-sync daemon, down, recall ── pull ──> node  (NodePull)
    up, node setup ── bounded call ──> node scripts  (NodeCall, NodeApply, BringUp)
    recall ── install ──> node, Claude folder        (Recall)
    serve ── spawn ──> node-sync daemon <── down     (SyncDaemon)
    hooks ──> records ──> reaper, attention daemon   (Parking, Attention)
    listener, phones ── upload ──> serve ──> pane    (Paste)
    everybody ── lock ──> lock files, the log        (ExclusiveLock, SharedLog)


## 2. Plan: modules, runs, theorems

Order: the processes and their lock first, because everything else stands on
them; then what a user can lose (agents in sessions, files on nodes); then the
smaller protocols.

| module | composes or uses | abstract specification | run | proved of its properties |
|---|---|---|---|---|
| `ExclusiveLock` | - | `Mutex` | `components` | all |
| `AttentionDaemon` | the lock, as one step | - | `daemon`, `daemon_absent` | all safety |
| `Listener` | the lock, as one step | - | `listener`, `listener_race` | all safety |
| `Supervision` | the daemon and the listener, as established by the two modules above | - | `recovery` | all safety |
| `Sessions` | - | - | `sessions` | all safety |
| `NodePull` | the node's pull lock | - | `pull`, `clock` | all safety |
| `NodePlacement` | the pull lock and what a final pull answers, each as `NodePull` and `ExclusiveLock` establish it | `PlacementMap` | `nodes`, `rerun` | the refinement, all safety |
| `AgentStop`, `Parking` | `Parking` uses a kill as `AgentStop` establishes it | - | `components`, `recovery` | all safety |
| `HandOff`, `NodeCall`, `ConfigEdits`, `SyncTick`, `SharedLog`, `FleetSend`, `Attach` | - | - | `components`, `recovery` | all safety |
| `Paste` | - | - | `components` | all safety |
| `Attention` | - | - | `components` | all safety |
| `SyncDaemon`, `Recall`, `SignIn` | `Recall` uses a pull and a placement as `NodePull` and `NodePlacement` establish them | - | `nodes`, `recall` | all safety |
| `NodeApply`, `BringUp` | - | - | `nodes` | all safety |
| `PushSet`, `UserScope`, `SkillsWalk`, `LoadHistory`, `Launching` | - | - | `nodes` | - |

Every module of the plan is written, and of the safety properties only the three
that fold over data (section 6, "Only model-checked") have no proof.

`Parking` and `Supervision`, and the other modules of `components` and `nodes`,
share no variable with one another in the code as in the models: each run is a
composition in which a constant `part` says which one moves, so that one run
answers for several components.  The composition EXTENDS the modules whose
properties are proved, so that run and theorem speak of the same definition, and
instantiates the others.

Within a module a behaviour belongs to one of several *setups*: a variable fixed
by `Init` says what it is about (which files exist, what may go wrong), so that
a component is checked in several small worlds instead of one world too large
to explore.  The theorems hold for every set of setups that has the types the
module's assumption names.

## 3. How the models are written

* **One action per step that other processes can see between.**  Code between
  two file operations, system calls or messages is one action; where the code
  reads, decides and writes in three places, the model has three actions.
* **Files are variables**, and reading one is reading the variable.  A record
  that names a dead process is a value like any other.
* **Processes are ids from a small set**, with a state; `free` ids may be given
  to new processes.  A pid can be reused only where a run says so.
* **Time is order.**  A heartbeat is fresh or stale, a cool-down runs or is
  over, and a time-out is an action that may happen.  Modules in which times are
  compared or waits must fit in one another count it: `NodePull`, `Paste`,
  `SyncDaemon`, `LoadHistory`, `HandOff`.
* **Data is what the properties tell apart.**  A file is the turns in it, a
  setting is the kind the rules give it, a capture is the class it is read as.
* **What may go wrong is named.**  `liberty` (or `setup.liberty`) is a set of
  names, constant in a behaviour: what that behaviour allows itself.  A
  property that the code promises only when nothing of some kind happens begins
  with that condition, and the same run checks the others in that world too.
* **Bounds are named** constants or members of a setup: `MaxCrashes`,
  `MaxFaults`, `faults`, `writes`, `calls`, `MaxClock`, `Batch`.  They appear
  in guards only.
* Operators named `Xxx_Yyy` (for instance `Begin_Unlocked`) are *mutants*: a
  definition changed as a bug in that code would change it.  Nothing uses them;
  replacing `Xxx` by one of them must make the property they are listed with
  fail, which shows that the property speaks about the code.  A property with
  several conjuncts has a mutant for each of those that break apart.
* Properties stand at the end of each module, each with the behaviour it is
  about.  `PROJECT.json` maps every definition to its lines, lists the runs,
  the hazards the properties are for, and the theorems.
## 4. The modules, one by one

Three runs are compositions.  `components` (`MCComponents`), `nodes`
(`MCNodes`) and `recovery` (`MCRecovery`) hold several modules that share no
state; `part` picks one and the others rest.  A run's property that is called
`...IsHonest`, `...KeepsWork` or the like is the conjunction of the properties
named below, which each speak of one hazard.

### ExclusiveLock, Mutex: `lockfile.py`

*State.*  The path's file (`path`), who has the OS lock of each inode
(`owner`), where each process is (`pc`), its open file (`fd`), its retries.
*Actions.*  `Open`, `OpenRefused`, `Lock`, `LockRefused`, `Check` (does the path
still name what I locked), `Retry`, `Unlink`, `LetGo`, `CloseHeld` for POSIX;
on Windows an open file cannot be deleted, so the order is close, then `Erase`,
which may fail; `Die` at any point.  `Mutex` is a lock with a holder, a
`Acquire` and a `Release`.

In `components` (three contenders, four inodes, two attempts instead of 3, both
platforms): `LockIsHonest` is `MutualExclusion`, `HolderFileIsNamed` (the path
names the holder's own file, so that the deletion on the way out never removes a
successor's) and `GivingUpIsHonest`; `ImplementsMutex` is the refinement.  Three contenders are a
holder, one that locks its orphaned file, and one that creates a new file; the
proofs remove the bound.

### AttentionDaemon: `cli/attention_cmd.py`, `pidfile.py`, `procs.py`, heartbeats of `log.py`

*State.*  Each pid's process (`starting`, `recorded`, `running`, `closing`,
`dying`, `stranger`), the pid file and whether it was written since the boot,
the heartbeat, the launch lock, where each launcher, each serve's supervisor,
the stop command and `status` are.
*Actions.*  `HumanLaunch`, `LaunchLock`, `LaunchCheck`, `LaunchAwait` (`attention
-d`); `ForegroundStart`, `Register`, `Pulse`, `Interrupt`, `Closed` (the daemon);
`TickPid`, `TickAge`, `TickSpawn`, `CooldownEnds` (serve's supervisor);
`StopRead`, `StopClear`, `StopKill`, `StopConfirm`; `StatusReads`,
`StatusTidies` (any reader that finds a stale record removes it by path);
`StartFails`, `Raise`, `Vanish`, `Recycle`, `Reboot`, `HeartbeatAges`.

Run `daemon` (two pids, two launchers, one serve, one crash or reboot;
liberties none, and foreground daemons with reused pids):
`RecordNamesTheDaemon` (so at most one, `OneDaemon`) in orderly behaviours, `StopsAreClean`
(`NoReviveOfAStopped` and `StrangersAreSpared`) in all, `CrashedIsRevived` by
fairness.  Two launchers and
a supervisor (which launches too) are the racing parties DESIGN.md names.
Run `daemon_absent`: see section 7.

### Listener: `launch.py`, `hotkey.py`, `upload_server._supervise_hotkey`

*State.*  Each pid's process and what it runs with (`wire`: target and version),
pid file, manifest, heartbeat, installed version; where each actor is in
`start_hotkey_listener`; the supervisors' lock and their `ListenerWatch`
(suspect, cool-down, version restarts).
*Actions.*  `HumanStarts`; `StartKeeps`, `StartReplaces`, `StartFindsNone`,
`StartStops`, `StartSpawns`, `SpawnFails`, `StartAwaits`; `TickReads`,
`TickSpares`, `TickRetires`, `CoolingEnds`, `SkewCoolingEnds`; the process:
`Registers`, `Describes`, `Pulse`, `HookFails`, `Crash`, `Hang`; `Silence`,
`Sleep`, `Upgrade`.

Run `listener` (two pids, two serves, one human, two faults):
`OneListenerAsWired` (`OneListener`, `NeverReaimed`: a supervisor never changes
the target), `HealthyIsSpared` (a supervisor retires as wedged only a listener
that hangs), `ListenerSettles` (`ListenerReturns`, and `ChurnEnds`: a version
difference that stays does not cause endless restarts).  Two serves are enough for every race the lock is for; two
faults are a sleep and a crash, or a crash of the replacement.  Run
`listener_race`: section 7.

### Supervision: `upload_server.run_server`, `launch.py`, `cli/mobile.py`, `cli/status.down_cmd`

*State.*  Each serve's process, the addresses it has still to bind, who holds
each address, the pid file; the attention daemon with its heartbeat, cool-down,
last child and window; the listener; where `down --all` is.
*Actions.*  `Ensure`, `HumanServes`, `Revive` spawn a serve; `BindsOne`,
`PortInUse`, `Unbindable`, `Records`, `Closing`, `Closed`, `RecordCleared`,
`Killed`; `DaemonLaunched`, `DaemonUp`, `DaemonCrashes`, `HeartbeatAges`,
`DaemonRevived`; `ListenerStarted`, `ListenerDies`; `Down`, `DownDaemon`,
`DownServer`, `DownListener`; `ForeignTakes`, `ForeignLeaves`, `ReviveFails`.

In `recovery` (two serve pids, two crashes; liberties none; busy, foreign and
host; tailless and host; abrupt): `ServeIsAccounted` (`RecordNamesTheServer`,
from which `OneServer` follows, and `DownStays`), `MutualRevival`.  Two pids are one serve and the
one that races, retreats from or replaces it; with two addresses each can hold
what the other wants.

### Sessions: `psmux.py`, `platform/windows.py`, `launch.py`, `cli/attach.py`, `cli/status.py`

*State.*  Per session: the psmux server (`none`, `up`, `stale`), who reads the
pane (a shell or an agent), commands typed and not yet read, clients killed at
their deadline that may still have their way, wedged sockets; per command its
position and what it believes (`run`), and what was last reported, and whether
by the last look of that command or an earlier one (`told`).
*Actions.*  `Go`, `UpStarts`, `Dedupe`, `Clear`, `Create`, `Send`, `Verify`,
`Check`, `Raised` (a bring-up); `Status`, `FindsBare`, `TypeOne`; `GoDown`,
`Before`, `Kills`, `After`; `Wedge`, `Unwedge`, `ShellReads`, `AgentExits`, `ServerFails`,
`LateNew`, `LateSend`, `NeverHappens`.  The fan-out of one wave to several
clients is one step, in which each client answers, is refused or is given up.

Run `sessions` (two sessions in waves of one with two faults; the same with a
raising spawn; one session with slow shells and late clients; one with two
overlapping commands; two with two overlapping commands, where `brief` lets none
start once one has reported): `AgentsLeftAlone` (`AgentsSpared`,
`NeverTypedIntoAgent`), `ReportsAreTrue` (`LastWordIsTrue`, `UpWasCommanded`),
`BringUpEnds`.  Sessions meet only through waves and reports,
so two in waves of one have every order of them.

### NodePull: `node_sync.py`, `remote_mux.py`, `node_scripts/pull.sh`, `launch.py`, `cli/node_cmd.py`

*State.*  The node's files with mtime and version, its clock, its running
sessions; the placements, the mirror on this PC, the watermark per session, the
sessions whose transcript folder is known; the node's pull lock; per puller (the
daemon's tick, each command) where the pull is, what it asked, what the scan saw
and what was cut; per command what it owes and what its final pull said.
*Actions.*  `Write`, `Remove` (the agents), `Passes`, `SetBack` (the clock);
`ReadMap`, `Locked`, `Begin`, `Look`, `Land`, `LandsBadly`, `TickKeeps`,
`TickFails`, `NoAnswer` (a pull); `AskAgain`, `Continue`, `Finished`,
`Unfinished`, `HeldTooLong` (`final_pull`); `Call`, `Kill`, `KillUnknown`,
`Stays`, `RecallStops`, `RecallGoesOn`, `Clear`, `Dies` (`down` and `recall`).
The scan takes one file at a time, so that writes happen during it.

Run `pull` (two files and up to two sessions, one command beside the daemon, one
or two writes and one fault, a clock of three ticks, five setups):
`NothingSlipsBehind`, `LastTurnIsHome`, `HomeIsKept` (`NeverOlder`,
`KeptUntilHome`), `AllComesHome` (`CommandEnds`, `EventuallyHome`).  The hazards are
about one file against one watermark, or two files of which one does not fit;
the proofs remove all bounds for the safety properties.  Run `clock`: section 7.


### NodePlacement, PlacementMap: `nodes.py`, `launch.py`, `cli/node_cmd.py`, `bring_up.sh`

*State.*  The node map (`map`; an entry carries the command that wrote it, for
the time stamp of the code) and whether it can be read (`torn`); who holds
`node-map.lock` and each node's pull lock; the sessions of each node (`on`), the
scripts nobody waits for any more (`late`); what the user was told not to count
on (`said`: unsure, unrecorded); and per command where it is, what it read of
the map and when (`seen`, `held`, `copy`), and how it ended.
*Actions.*  `Place`, `PlaceRefused`, `DirtyAttached`, `DirtyRefused`,
`DirtyUnknown`, `Dial`, `NodeBusy`, `BringUp`, `BringUpFails`, `BringUpLost` (a
bring-up); `Lock`, `LockHeld`, `Read`, `ReadOther`, `ReadTorn`, `Write`,
`WriteFails` (`update_node_map`); `DownReads`, `Skips`, `Takes`, `DownEnds`,
`RecallReads`, `RecallRefused`, `PullStarts`, `PullCannot`, `Pulled`,
`PullFails`, `PullNoAnswer`, `Kill`, `KillUnknown`, `Install`, `InstallFails`
(`down` and the two recalls); `StartsLate`, `Tear`, `TickStarts`, `TickEnds`,
`Dies`.  `PlacementMap` is a map of which one entry changes at a time.

In `nodes` (two nodes, two projects, two or three commands, one to three
faults, nine setups that pair the kinds of command, a project pinned or not,
placed or not, its session gone or not, a clean tree or not): `PlacementsAreTold`
(`Accounted`, `OneHome`, `Honest`), `OneEntryAtATime`.  Commands of a project meet
only through its entry, its sessions and the two locks, so pairs of commands,
with a third in the places where a lock can be held past a wait, have their
interleavings; a second project is there to lose its entry or to be a survivor
of `down`.  The proofs remove every bound for `OneEntryAtATime` and the
types.  The commands all end; the composition then rests.  Run `rerun`: section 7.

### AgentStop: `reap._stop`, `reap._ours`, `procs.process_tree`, `procs.terminate_verified`

*State.*  Each pid's start time and parent, which processes the agent made
(`mine`), the psmux servers; what the stop has read: the clock, the list, the
identities; what it killed.
*Actions.*  `Machine` (processes start, exit, are adopted, take freed pids),
`StopStep` (one read or one verified kill at a time), `StopEnded`.

In `components` (three pids, a clock of seven starts and exits): `OnlyItsOwn` - every kill
lands on the agent or on something it made.  Three pids are the agent, its
shell and one that is a child, a stranger, and a stranger with a child's pid in
turn; the proof removes the bound.

### Parking: `state_hook.py`, `agent_state.py`, `reap.sweep_once`, `psmux.revive_sessions`

*State.*  Per pane the agent, its turn (busy, blocked, chores, done), a draft,
the record and what hooks have still to write, how long it is quiet; the
reaper's list, its re-read, whom it failed to park; a revive under way.
*Actions.*  `Person` (works, asks, drafts, quits), `Hook` (an event becomes a
record, or is lost), `Passes`, `Stale`, `Purge`; `Reaper` (list, look, re-read,
kill, mark); `Restarts` (bulk revive and `r<n>`), `Types`, `Clears`, `GivesUp`,
`Rests`.

In `recovery` (two panes; all signals honest, with and without a pane that
cannot be parked; three of four signals lying, each in turn; commands that
overlap a sweep): `ParkingIsHonest` is `AnyHonestSignalSpares` - the last look
passes an agent at work only when every signal that could tell is wrong - and
`ParkedIsNotRunning`; `QuietIsParked`, by fairness of the sweep, that a finished
agent is parked although another's park fails each time.

### Attention: `attention.py`

*State.*  Each session's record, whether the mirror or the map can be read;
windows by handle with their titles; the engine's last states, what is shown and
paged; the renderer's memory of handles.
*Actions.*  `Writes`, `Removes`, `Ages`, `Flaps`; `Opens`, `Closes`, `Rewrites`
(windows); `Starts`, `Poll`, `Badge`, `Page`, `Stops` (the loop).

In `components` (a local and a remote session, one handle, two records; windows
that move, or a mirror that flaps): `AttentionIsHonest` - one record pages once
however often a mirror fails (`PagesOnlyNews`), after the badges are drawn each
window of ours shows its most urgent state (`BadgesTellTheTruth`), and a window
that took a closed one's handle keeps its title (`StrangersKeepTheirTitles`).

### Attach: `attach_client.py`, `cli/attach.py`

*State.*  The host's sessions, the link; per window what runs in it (a
supervised, a bare, a multiplexer-less client) and how often its session was
missing; where the command is and what it read.
*Actions.*  `LinkFlaps`, `SessionEnds`, `SessionReturns`, `Leaves`, `CloseIt`;
`Dial`, `Drops`, `Supervise`, `Redials`, `Spawn`, `NoMux` (a pane); `Query`,
`BringUp`, `Partition`, `Scan`, `Sweep`, `Settle`, `Down` (the command).

In `components` (two windows and sessions that die; one with a flapping link
and a user; two windows without a multiplexer and a remote down):
`PanesAreKept` - the sweep closes no window with a client in it
(`LivePanesAreSpared`), and no number of outages stops a pane whose session
never went (`OutagesStopNoPane`).

### Paste: `altv.py`, `upload_server.py`, `psmux.flash_message`

*State.*  A press's thread, the requests (bodies, names reserved and written,
the pasting thread), the files on disk, the pane, the flash queue, the flashes
psmux still works on, the clock.
*Actions.*  `Chord`, `OpensCode`, `ReadsClip`, `Types`, `Answered`, `GivesUp` (a
press), `PhonePosts`; `Body`, `Reserve`, `Write`, `Fails`, `Injects`, `Lands`,
`InjectEnds`, `Replies` (a request); `Sends`, `Abandons`, `Displays`, `HangsOn`
(flashes; the last is a thread of serve that never gets to psmux, which is what
the pump's own bound is for); `PasteTick`, which no wait lets pass its bound.

In `components` (one press beside a phone, of images and files with clashing
names, and with a slow psmux; two presses of the other kinds; queue of two):
`PasteIsHonest` is `PastedFilesAreThere`, `VerdictIsTrue`, `PhasesInOrder`.  Two
requests are enough for a name to be chosen twice, two presses for a flash to
pass another.

### NodeCall: `remote_mux._spawn`

*State.*  The child with what it has still to do, its grandchild, three pipes of
bounded size, the feeding and the two draining threads, the caller.
*Actions.*  `Thinks`, `ReadsIn`, `Prints`, `Says`, `Exits`, `HeirActs`;
`Feeds`, `DrainsOut`, `DrainsErr`; `Returns`, `TimesOut`, `KillsAtCap`,
`Reasons`.

In `components`, with and without a time bound and heirs: `RepliesAreWhole` -
what is returned is all that was written (`ReturnsAll`), and the reason of a
call over its cap is a whole line said before (`ReasonIsACause`).  In
`recovery`, under fairness of the threads and of a child that is not held at a
pipe: `CallEnds`.  Pipes of one unit, with more to say than they hold, make
every order in which they fill.

### NodeApply: `node_scripts/node_apply.py`

*State.*  What the PC has of each step and cannot read; the node's keys and
which its user added, its OAuth entries with who wrote them last, its tools and
hook; the store of earlier runs; the run and its memory.
*Actions.*  `PcChanges`, `NodeUser`, `Refreshes`, `Loses`, `ToolComes`,
`HookGoes`; `BeginRun`, `Steps`, `StepSettings`, `StepOauth`, `Save`, `RunDies`.

In `nodes` (six setups over the steps that keep a memory, with unread files, a
damaged store, up to four changes): `ConfigurationHolds` - what was shipped is on
record (`ShippedIsOnRecord`), what is skipped is there (`RememberedIsLaid`), a
token the node's claude refreshed is not undone (`RefreshesSurvive`).

### BringUp: `remote_mux.git_state`, `bring_up.sh`

*State.*  This PC's clone, its branch at origin, the node's clone (branch, tip,
another branch, HEAD, edits), Claude's memory there, the session; each bring-up
with what it saw.  A history is a set of commits.
*Actions.*  `HereWorks`, `ThereWorks`, `AgentEnds`; a bring-up's steps
(`BringUpStep`): the reads of `git_state` one by one, the refusals, `status`,
`fetch`, `orphan`, `refs`, `switch`, `merge`, `ship`, the memory in two, `start`.

In `nodes` (a strict bring-up, one with `--allow-dirty`, two PCs at once):
`BringUpKeepsWork` - a session that was started strictly has all the PC had at
its last look (`HasTheWork`), and no step loses a commit or memory of the node
(`NothingLost`).  The one exception is named in the model: `Passing`, section 8.

### PushSet: `nodes._push`, `remote_mux._files`

*State.*  Where each folder really is, what lies at each place, what was vetted
and warned of, the payload so far, the step.
*Actions.*  `Moves` (an editor, a link, the user), `VetsHit`, `ListedAll`,
`VetsExtra`, `Collapses`, `Names`, `NamedAll`, `Sizes`, `Opens`, `ReadsIt`,
`Delivers`.

In `nodes` (six folders, among them a link, a credential store and one outside;
two leaf names, caps of one and two, two changes at any time): the first half of
`ShipsAreHonest` (`PushSetIsHonest`) - what ships lies in the project, in no store, under caps, once (`OnlyVettedShips`),
and what was asked for ships or is told (`NoneGoesMissing`).

### UserScope, SkillsWalk: `nodes.user_scope`, `nodes._skills`, `remote_mux.provision`

*State.*  The PC's four JSON files before and after an edit, what has been read,
what ships per step, what is marked unread, what is noted; the skills folder's
tree with links, the walk and the file in hand.
*Actions.*  The reads, the joins and the drops in their order (`UserScope`);
`Relinks`, `Closes`, `Grows`, `BecomesPipe` and the walk's steps (`SkillsWalk`).

In `nodes` (each kind of entry the rules tell apart; trees with links upward,
to keys, to a clone, with more entries than the cap): the other half of `ShipsAreHonest` -
`OnlyFitShips`, `UnknownIsNotEmpty` (a file that could not be read never passes
for one that says nothing), `FencesHold`, `EveryFileIsToldOf`.

### SignIn: `node_auth.py`, `cli/node_cmd.py`, `launch.py`

*State.*  The token file and how it stands, the token on each node, the
appliers at work, two commands with their calls and the row of each node.  A
call and its applier carry the mint they were made for, so that an old call's
late reply is not taken for a new one's; a new mint begins with no rows.
*Actions.*  `Wears`, `Meddles`; `Refresh`, `Look`, `SetsUp`, `RunsUp`; `Ensure`,
`Mint`, `Temp`, `Replace`, `Hop`, `LooksAtToken`, `Row`, `Own`, `Pushes`,
`Rows`, `PushEnds`, `Gate`, `Offers`, `Provisions`, `SendsCall`, `Lost`,
`UpEnds`, `CommandDies`; `Applies` on the node, late or not.

In `nodes` (two nodes, two commands, five setups): `SignInIsSafe` -
`RenewalLosesNothing`, `InPlaceIsTrue`, `OneApplier`.  The proof removes the
bounds.

### SyncDaemon: `node_sync.py`, `cli/node_cmd.DownSyncStop`

*State.*  Daemons with their age, the lock, the pid file, the heartbeat, the
supervisor's lock, serve's thread, the stop as `down` and as a hand run it, and
`down --all`: how long it still looks, whether it holds the supervisor's lock,
and what its look could not know of.
*Actions.*  `TakesLock`, `Records`, `WindsDown`, `Leaves`, `Crashes`,
`Empties`; `ServeTick`, `ServeProbes`, `ServeLetsGo`, `ServeSpawns`,
`ServeLeaves`, `HandSpawns`; `StopStep`, `HandStops`; `DownAsks`, `DownHolds`,
`FirstLook`, `FirstStopped`, `StopsServe`, `LooksUntil`, `LooksAgain`, `Awaits`,
`DownAllEnds`; `SyncClock`.  A start takes any time: of one that outlasts the
time `down` looks (`Cold`, the 10 s of `_START_POLLS`; a comment beside it
measures 2.5 to 13 s) only that is kept (`Tardy`).  Serve's ticks are further
apart than that look (60 s), and a tick may find such a start still on its way
and spawn another.  A daemon that has its lock writes its pid at once.

In `nodes` (two daemons, nine setups: one that runs, wedges or dies, a stale pid
file, a stranger that wears its pid, a hand that stops or starts one, a slow
tick, a machine without node pulls): `DownLeavesNoSync` - when `down --all` says
stopped or absent, none is left, also none that locks late, but for one that
took longer to lock than `down` looks, for what a hand or a tick beyond its time
started, and where something else fooled the look (section 8).  Two daemons are one that is stopped, or comes up too late, and one
that a tick spawned just before; the proof removes the bound.

### SyncTick: `node_sync.NodeSyncer`, `ConfigWatch`

*State.*  The tick's thread, each node's pulls with the executor they run on,
`_inflight`, `_errors`, what was noted; the config file, its stamp, the watch.
*Actions.*  `EditsConfig`, `Stamps`, `LoadsConfig`, `Reconfigures`; `Begins`,
`MapUnreadable`, `Forgets`, `Dials`, `StartsPull`, `Raises`, `Ends`, `Collects`,
`NotesAll`, `Closes`.

In `components` (two nodes of one pull each and an edit of the pool; one node of
two pulls; edits that do not load): `TicksAreAccounted` is `PullsAreAccounted`
and `EditsTakeEffect`.

### ConfigEdits: `config.py`, `cli/config_io.py`, `cli/config_editor.py`

*State.*  The file (its data, whole or torn, whose save it is), the backup, two
editors with what they read and hold.
*Actions.*  `Considers`, `Reads`, `Fetches`, `Edits`, `Vets`, `Opens`, `Fills`,
`SavesAgain`, `BacksUp`, `Replaces`, `Lost`, `Cut`, `Tidies`.

In `components` (every pair of commands over a few files, one kill):
`ConfigSurvives` - a vetted save loads, an atomic one is whole, an edit from afar
is on the host or in the scratch copy, and migrating keeps what the file means.

### Recall: `cli/node_cmd.recall_*`, `install_transcripts.sh`

*State.*  The conversations' and memory's files at each place as sequences of
turns, what `memory/` is there, the mirrors, the node's repo and its report, the
agents, the placement, two recalls and their scripts.
*Actions.*  `Works`, `Syncs`, `Ups`; `RunStep` (the recall from its last pull to
the session), `ScriptStep` (the install, file by file: judge, then move).

In `nodes` (two nodes and home, two conversations, one memory file, four turns,
one fault, four setups): `RecallKeepsWork` is `NodesKeepTheirTurns` and
`MovedWhole`.  Two recalls are a lost one whose script goes on, and its re-run.
Run `recall`: section 7.

### LoadHistory: `node_sync.py`, `nodes.py`, `launch.py`

*State.*  The clock and the time that really passed, each node's state, its
`load.jsonl`, the last sample's stamp, a placement pass.
*Actions.*  `Ages`, `ClockSteps`, `Changes`, `MapUnread`, `KeepsAll`, `Samples`,
`DiesAppending`; `Looks`, `Asks`, `Places`, `PassOver`.

In `nodes` (two nodes, a batch of two projects, one of which may be placed
already, a clock that runs ahead longer than the history, a node whose answers
fail, a map that cannot be read, a dry run): `PlacementsAreCurrent` is `FilesStaySmall`
and `PlacedOnTheLastWord`.

### HandOff: `platform/windows.run_on_desktop`, `platform/_handoff_launcher.py`

*State.*  Commands by depth, each with its hand-off, task and launcher; the
clock in polls.
*Actions.*  `Decides`, `Works`, `Relays`; `Stages`, `Creates`, `AsksForIt`,
`Looks`, `MindsBudget`, `MindsPid`, `AsksScheduler`, `TimeIsUp`, `Settles`,
`Deletes`, `CallerDies` (the caller); `TaskStarts`, `Launches`, `CannotLaunch`,
`RecordsPid`, `Waited`, `RecordsCode`, `LauncherDies` (the task).

In `components` (three commands deep, graces of one poll in a budget of three, up to
two faults):
`HandOffIsHonest` is `AnswersAreTrue` and `RunOnceAndNoDeeper`.

### SharedLog: `log.py`

*State.*  The log and its backups as sequences of records, the lock, each
process's emit, the first use of a logger by several threads.
*Actions.*  `Acquires`, `MindsSize`, `Shifts`, `Rotates`, `FindsEnd`, `Writes`,
`ClosesLog`, `IsKilled`, `Starts`; `Asks`, `EntersLock`, `Attaches`, `Marks`.

In `components` (two processes, two threads, two backups, a log full with one
record, four records, two faults): `LogIsKept` - while the lock can be had, read from the oldest backup
to the log every record is there once and in order but for the oldest
(`OnlyTheOldestGo`); `LogStaysSmall`; `OneHandler`.

### FleetSend: `fleet.py`, `cli/fleet_cmd.py`

*State.*  Each pane's agent state, input line and queue, model and effort; the
command with what it is about to type; `model`'s rows.
*Actions.*  `AgentTakes`, `TurnEnds`, `Stalls`, `IsAnswered`, `Drafts`, `UserEnters`,
`Meddles` (agent and user); `SendBegins`, `Pastes`, `Enters`, `LetsSettle`,
`WaitsForIdle`, `Confirms`, `Verifies`, `Sweeps`, `EndsSweeps`.

In `components` (nine cases of `send` and `model`, one or two sessions, up to
two swallowed keys or given-up calls): `FleetIsHonest` is `SentWasSubmitted`,
`CompactsFirst` (a prompt is submitted before `/compact` is over only where a
dialog took the Enter), `OkIsSwitched`.

### Launching: `launch.py`, `tiling.py`, `grid.py`, `titles.py`

*State.*  The windows there ever were, by name, form and badge (`desk`); the
command: its panes, what its one look saw, its targets, the sessions and node
projects it collects, the slots and the pending windows (`run`).
*Actions.*  `Starts`, `Looks`, `DispatchIde`, `DispatchNode`, `SkipUnknown`,
`DispatchMux`, `DispatchTerminal`, `PanesDone`, `AttachMux`, `MuxDone`,
`BringUpNodes`, `Tiles`, `Sweeps`, `Polls`, `Raises` (the command); `Appears`,
`Closes`, `Badges`, `OtherOpens` (the user, other commands and the daemon that
badges titles).  The grid is computed in full: columns that are too narrow are
dropped, edges are rounded half to even.

In `nodes` (ten setups: projects with several windows, a name psmux spells
otherwise, a psmux that is there or not, IDE windows, node projects, a group, a
checklist, a dry run, `--go`, `--retile-all`, one or two screens; two polls for an
IDE's window and one for others, instead of 20 s and 6 s): `LaunchIsTidy` - it opens only what its
look missed (`OpensWhatIsMissing`), resumes no conversation twice
(`ResumesOnce`), moves nothing it was not asked to (`LeavesTheRest`,
`RetilesAll`), and no two windows overlap while there are slots
(`NoneOverlaps`).

## 5. Fairness

Every liveness property is checked under fairness stated in the module, and
never under fairness of a human, a crash or the network.

* *Steps of a process that runs* are weakly fair: a launcher, a child, a stop
  command, a bring-up, a serve's start-up.  A process that could go on for ever
  and does not would be suspended.
* *A supervisor's look, and the end of a cool-down or of a window,* are weakly
  fair: they are timers of a living process.
* `AttentionDaemon!Register` is strongly fair: a start may fail (an action that
  is bounded by no fairness), and the code only promises a daemon if not every
  start fails.
* `Listener!TickReads` and `NodePull!Begin(Tick)` are strongly fair: they try a
  lock without waiting and come back later; other holders let it go again and
  again, and an interval has no reason to meet them for ever.
* `Supervision!Revive` is strongly fair, because the model has two pids and a
  process that is ending keeps one of them for a while; an operating system
  always has another.
* Nothing makes a wedge end (`Sessions`), a foreign program leave
  (`Supervision`), or a deadline pass (`NodePull!CommandEnds` holds without the
  deadline of `final_pull`).
* `Parking`: the sweep goes on, and hooks that fired and quiet times arrive;
  nobody has to type, to answer or to start anything.
* `NodeCall`: the threads run; a child that is not held at a pipe goes on and
  ends sooner or later (strongly fair, since reading and printing again and
  again disable its exit).  The time bound is not used for `CallEnds`, which is
  stated where no grandchild keeps the pipes.
* In `recovery` each part's fairness is about that part's own actions, which are
  disabled while it rests: it takes nothing from the others.

## 6. Proofs

All theorems hold for every value of the constants that satisfies the named
assumptions of the module (`...Assumption`).

### ExclusiveLockProofs

`TypeCorrect`, `Exclusion`, `HolderNamed`, `HonestGivingUp`, `LockHonest` (the
three together), `RefinesMutex`: any number of contenders, files and attempts.  `MutualExclusion` is not inductive: a
process that has locked a file and not yet checked the path may hold an orphan.
The invariant says, for each place in the protocol, which open files are locked
by whom, that who passed the check has the file the path names, and that while
there is such a process nobody but it may delete the path.  The refinement maps
the holder to the process at `held`; every other step is a stutter.

### AttentionDaemonProofs

`OneDaemonAlways`, `DaemonIsRecorded`: any number of pids, launches and serves,
in behaviours that are `Orderly`: launches outlive their children's start-up, no
foreground start, no reused pid, and a decision on the record outruns a
start-up.  Invariant: at most one process is alive; one that has not registered
has its launcher waiting, under the lock; one that has is recorded; nobody is
acting on an older record.  `StopIsFinal` (`NoReviveOfAStopped`) needs none of
those assumptions: its invariant ties the history variables to the heartbeat.
`StopsCleanly` (`StopsAreClean`) adds that a stop ends no stranger.

`AttentionIsHonestHolds` (`Attention`), in two halves.  The windows
(`WindowsKnown`): what the renderer remembers is, or was until it closed, a
window of ours, and what shows a badge is remembered, but for what a kill left.
The records (`RecordsKnown`): what the daemon holds of a session was read no
later than what is there (`Earlier`), and whatever it may read next is newer
than what it paged for, or is that and shows nothing new (`NothingNew`).  The
last must hold of the mirror it has kept as well as of the record, which is why
a mirror that fails and reads again pages nobody.

### NodePullProofs

`Types`, `NothingIsSkipped`, `LastTurnComesHome`, `MirrorNeverOlder`,
`PlacementKept`, `HomeKept` (the two before together): any sessions, files, pullers, writes, faults and clocks; the
first and the last three without any assumption on the clock, the other two while
no clock is set back.  Every step is one of seven moves (the node changes, a
puller rests, begins, looks at a file, lands a reply, turns to its next pull, or
nothing that concerns the pulls happens); proving that (`StepIsMove`) leaves
seven cases for each part of the invariant:

* `Sights`: what a scan saw lies between what is home and what is on the node,
  in version and in mtime; only the lock's holder is between scan and store.
* `Marks`: a watermark is not ahead of the clock, and not ahead of a file that
  is not home.  The second part is not inductive without what the holder of the
  lock is about to write: the mark that `next_since` computes from the reply
  must not pass a file the scan missed, saw too early, or cut (`Reach`).
* `Promises`: what a command owes is at most what is on the node, it clears only
  placements it may, and is at `clear` only after its final pull said so.
* `LastTurn`: with the watermark rule, a finished pull has home what was there
  when the command began.

### NodePlacementProofs

`Types` and `MapIsAtomic` (`OneEntryAtATime`): any projects, nodes, commands and
setups.  The type invariant says who holds which lock, and needs that a command
past its first step knows its project and its node (`Fit`).  Each step gives one
command a record that is fit and moves the locks as that record says (`Moves`),
which leaves one case per action.  For the map, `Copied` says that between its
read and its write a command has the map as it is now; it is kept because only
the command inside `update_node_map` writes.  So what is written is the map with
one entry changed, which is `PlacementMap!Set`; every other step is a stutter.

`PlacementsAreToldHolds`: any projects, nodes, commands, faults, pins and places,
for setups that are `InOrder`: no two commands that start a session of one
project overlap, and no `up` takes a project that is placed elsewhere than at its
pin.  Without either the code leaves a second session, or one without an entry
(section 8), so neither can be dropped; `down` may run beside anything.  A session that
the map does not have is one the user was told of, or is `Owed`: the command that
started it is between the start and the write (`Accounts`).  Of an entry that is
still to be written nobody has a copy (`Unseen`), so a `down` that compares never
takes a new entry for the one it read; of two active commands about one project
one is a `down` (`Apart`).  What each stage knows is `Placing` (an `up`, a recall:
nothing of its project runs elsewhere untold, nothing at all once it has been
killed) and `Stopping` (a `down`: what is behind it has stopped, or is called a
survivor, or was told; what it removes from the map has stopped or has a new
owner).  A step moves one command: `OneGoes` says what such a step must keep for
the others to stand, once for all of them but `Write`, which changes the map.

`ConfigurationIsSafe` (`NodeApply`): all of it is said of the store, or, while a
run is at work, of the run's memory, which becomes the store (`GoesBy`).  Every
key of the node is the user's, or on record as shipped, or a run that died laid
it (`KeysOnRecord`); a step on record is laid as recorded, or was lost since
(`LaidAsRecorded`); no token that was delivered is newer than the record, and
the record not newer than the PC's (`TokensInOrder`).

`BringUpIsSafe` (`BringUp`): one PC has one bring-up at work on a node
(`OneBringUp`).  What a strict one saw committed here is, place by place, at
origin, then in what the node fetched, then in the node's HEAD (`SawIsHeld`);
meanwhile no session starts on the node, nor does memory of its own appear
under the copy (`Undisturbed`).  HEAD is the branch it is on, and what it holds
a ref holds before a switch leaves it (`RefsHold`).

### ListenerProofs

`HealthyIsSparedHolds`: no assumption on who starts what.  Its invariant says
that a suspicion is of the pulse there is now, that a pid a file or a call still
holds is given to nobody, and that whom a supervisor is about to end on its
second look hangs or has ended.  `OneListenerAsWiredHolds` is for orderly
behaviours (starts do not overlap, what is ended ends; the run `listener_race`
shows what happens else): one call at a time, a process that has not recorded
itself is the child somebody waits for and alone, nothing lives when a call
comes to spawn, and what lives or was ended during a supervisor's call is at the
target that it will start the next one at.
`PasteIsHonestHolds` (`Paste`), in two halves.  Per request, what it has on disk
at each place in it: while it reserves, writes or pastes, its names are its own
and no two alike (`RequestFits`, `Apart`), so a request that fails takes back no
other's file; and what its reply says of the pasting thread is so and stays so
(`PasteFits`, which needs the grace to be less than a paste's life).  For the
bar, how far a press is in what it tells bounds what is queued, out and shown of
it, in that order (`BarFits`): a message of a press is out only while the pump
waits for it, for psmux ends one before the pump gives up.

### SupervisionProofs

* `ServeIsAccountedHolds`, `OneServerAlways`: unless two serves may share the
  port by choice, every bound serve has one address, the *key*, so whoever holds
  it is the one on record; and each phase of `down --all` of a settled machine
  finds nothing that would start again what it has stopped (`DownClears`).
* `ParkingIsHonestHolds`: per pane, what the re-read of the agent knows, that a
  busy one is not quiet, that hooks fit the agent they are of, and that an agent
  the sweep spares is not under `parked`.
* `OnlyItsOwnHolds`, `StoppedMeansGoneHolds` (`AgentStop`): the hard one, for
  pids are reused between any two reads.  The clock read first bounds the list
  (`Clocked`, `ListTrue`: the list tells the truth of whoever is older than it);
  whoever was made by the process that holds a pid now, and not by an earlier
  one, is ours (`Descent`); a kept identity was walked from the agent's
  (`Walk`, `KeptOurs`), so whoever still is what was kept may be killed
  (`MayStrike`), and so may the children it leaves (`Orphaned`).  The second
  theorem adds that the root is the process the sweep decided about (`Rooted`).
* `AgentsLeftAloneHolds`, `ReportsAreTrueHolds` (`Sessions`): for panes, at most
  one command is on its way to one, and none while an agent is there
  (`OneOnItsWay`); whom a command is about to type into has none (`TypesOnce`),
  and what a bring-up is about to clear has no agent and will get none
  (`ClearsEmpty`).  For reports, whatever a bring-up has done with and neither
  met nor refused is not there, nor is a client that may still create it
  (`UnmetAreDown`), and a word that is no longer true of a session is one that a
  command at work still owes (`WordsHold`; with one command, what its earlier
  look found is so still: `LooksHold`).  Trying to prove this showed that the
  last word of a command that looked twice can be stale when another command
  ran between its looks: the model had one session where commands overlapped and
  could not show it.  `told` now says which look a word goes by.

### PartsProofs

* `HandOffIsHonestHolds`: a task fires for the asking and is asked for once
  (`AskedOnce`); what the launcher has recorded at each place (`LauncherAt`),
  and so what the caller has seen, is so (`CallerKnows`) and stays so.
* `RepliesAreWholeHolds`: what was said is what was drained and what is in the
  pipe; a drain ends with the last writer or past the cap; the stamps tell what
  came before the cap, which is a first part of what was drained.
* `ConfigSurvivesHolds`: per editor and place, what kind of save it can be at,
  whether it was vetted, and where an edit from afar is; with lemmas that every
  change keeps a config's fields and migration says the same, once.
* `TicksAreAccountedHolds`: a node has one pull at a time, the last one, and
  `_inflight` names it (`OneAtATime`); what a tick collected is over; no end is
  missed; the watch's stamp is not ahead of the file's.
* `LogIsKeptHolds`: whoever emits has the lock and knows the end it has found;
  a file that a shift goes onto is the oldest or is not there (`EmitInv`);
  through all that the records are one sequence across the files (`Ordered`,
  `AllThere`).  `ThreadInv` is the first use of a logger.
* `FleetIsHonestHolds`: `/compact` is in one place at most - on the input line,
  with the agent, or being done - and an agent that reads idle has none before
  it (`CompactInv`); the pasted prompt stands on the line until it is submitted.
* `PanesAreKeptHolds`: a session that is not there went at some time, so the
  node's word that it is missing is no accident; a supervised pane that nobody
  left has only lost connections to tell of (`PaneGoesOn`); between the scan and
  the sweep no marked window comes to hold a client (`DeadAreDead`).

### NodesProofs

* `DownLeavesNoSyncHolds`: where no hand starts any, at most one daemon lives
  that locks, or can still lock, within `down`'s wait (`AloneInv`), beside any
  number whose start has outlasted it, which a tick cannot see; the lock and the pid file name it (`LockInv`); serve's tick and
  `down` are never both under the supervisor's lock (`SupInv`); what `down` has
  still to look for locks within the time its look has left or has outlasted
  the wait by then (`LateInv`, the reason the wait is as long as it is); the last
  stop has seen it (`StopInv`).  How long a start takes is not assumed.
* `RecallKeepsWorkHolds`: an install is by prefixes: what a recall read is a
  first part of what the node holds (`RunKnows`, `ScriptKnows`), agents only
  append, so what is moved in loses nothing unless an agent wrote across it
  (`There`, `Whole`); a node's files only grow, so what a script knows stays.
* `SignInIsSafeHolds`: per command, which calls are out at which stage
  (`CallsFit`), which appliers it can have started by then (`KindsFit`), and
  where one may still be at work: an `up` has refused that node or marked it
  provisioned (`UpKnows`).  A reply is its own applier's, so a row is the word of
  a node that holds this mint (`RowsTrue`); a call about to be made finds no
  applier (`DueAlone`).  The token file only gets newer.

### What is assumed of the constants

`ConfigAssumption`: commands are of the known kinds, a config has its two
fields.  `TickAssumption`: no outcome is called like the error.  `LogAssumption`:
a size and at least one backup.  `FleetAssumption`: there is a session.
`BatchAssumption`: a wave has a window.  `AttachAssumption`: a session is given up after one miss or more.
`SyncAssumption`: at most one daemon runs at first, and the pid file names it, a
stranger or nobody; a cold start takes some time.  `AttentionAssumption`: no page
is for a session that rests.  `ApplyAssumption`: the steps are of the kinds the
model lays.  `BringUpAssumption`: where two PCs bring one project up at once, no memory
is seeded; the code does not exclude that, and section 8 says what it comes to.  `RecallAssumption`,
`HandAssumption`, `AuthAssumption`, `StopAssumption`: types, and that names that
stand for different things differ.  `PasteAssumption`: types, and the two orders of bounds
the code states (3 s and 60 s, 20 s and 25 s).  The older modules' are of the same kind.  TLC
evaluates each of them in the runs.

### Only model-checked

* Liveness (`CrashedIsRevived`, `ListenerSettles`, `BringUpEnds`, `AllComesHome`,
  `MutualRevival`, `QuietIsParked`, `CallEnds`): fairness and `ENABLED` are
  beyond the prover.
* `ShipsAreHonest`, `PlacementsAreCurrent`, `LaunchIsTidy`: what a walk, a
  history or a list of targets comes to is computed by folds and
  recursive functions over data, for which the prover has no induction.
* `PlacementsAreTold` where `InOrder` does not hold: the setup of `nodes` that has
  the liberty `overlap`, two `up`s of one project that is placed, is TLC's alone.

## 7. Where the code and its documents disagree

Each is a run that TLC must find violated.

* `daemon_absent`, `NoReviveAfterAStop`.  `attention --stop` returns before it
  withdraws the heartbeat when no daemon is live.  A daemon that crashed and is
  then stopped is started again by serve, though README.md and DESIGN.md say
  that serve never starts one you stopped.
* `listener_race`, `NeverTwoListeners`.  The launch and attach paths look for a
  listener and spawn one with nothing held in between; with a supervisor's tick
  in the gap there are two.  DESIGN.md says the dedupe inside
  `start_hotkey_listener` guarantees one.
* `clock`, `LastTurn`.  A node's clock was set back since the last pull.  The
  final pull asks for files newer than the old watermark, is given nothing,
  resets the watermark so that the *next* pull starts over, and reports success;
  `down` and `recall` then stop the session and drop the placement, and there is
  no next pull.
* `rerun`, `RerunAttaches`.  A comment in `bring_up_node_project` says of a
  session that runs but could not be recorded that a re-run attaches to it.  For
  a project that is not pinned, the re-run finds no entry, picks a node afresh,
  and starts a second session there; the comment holds for pinned projects.
* `recall`, `ReplacedIsSaid`.  A recall to this PC that a file stops half-way has copied the
  rest, but the list of what it replaced is lost with the error; it says to run
  it again, and the second run finds those files equal.  A comment in
  `cli/node_cmd.py` says that a replaced local file is said aloud.

## 8. Further observations

Behaviours of the code that the models reach when a liberty or a condition is
added or dropped; no document promises otherwise unless said.

* A launch that is interrupted, or whose child is slower than its window,
  leaves a child that registers beside the next daemon (`impatient`).
* A reader that removes a stale record by path can remove a successor's; the
  daemon then runs unrecorded (`slow`).
* A stranger with a dead daemon's pid is taken for the daemon until the next
  boot (`reuse`).
* A supervisor that looks between a listener's pid file and its manifest takes
  it for one too old to describe itself, and re-aims it.  The result of
  `stop_listener` is ignored by the start that follows (`unkillable`).
* The listener's heartbeat is a thread of its own and beats although the
  message loop hangs; launch.py says that the beat proves the loop turns.
* With a hand-run serve on the tailnet address and Tailscale away while a
  default serve starts, two serves run, though DESIGN.md says that such a spawn
  cannot produce a second server (`TwoByChoice`).
* A serve that a supervisor spawned just before `down --all` has no pid file
  yet and survives it (`abrupt`).
* Two overlapping bring-ups can end a running agent (the look and the
  kill-server are apart) or type a command twice (`together`); a send that was
  given up can land after the next `up` typed (`late`).
* A bring-up that looked twice reports "up" for what only its first look saw, and
  a `down` that looked twice leaves out of its survivors what only its first look
  saw gone.  A command that ran between the two looks makes either word false
  (`together`; the words `wasUp` and `wasDown`).
* When spawning a client raises in the middle of a bring-up, sessions already
  created get no command and are reported up, and what was refused earlier in
  that pass is lost; DESIGN.md says every refused name stays in the report
  (`raise`).
* A clock set back by less than the time to the next pull leaves files behind
  the watermark with no later pull able to tell (`stepback`).
* Files of one mtime that do not fit in one reply are offered in the same order
  every time (`ties`).
* A recall drops the placement whatever it names by then, where `down` compares
  with what it read.  With an `up` of the same project at the same time the new
  session has no entry.  Two `up`s of a project that is not placed put it on two
  nodes.  `NodePlacement` therefore starts an `up` or a recall of a project only
  when no other runs (`Starts`); `down` may run beside any of them, and one
  setup has the liberty `overlap`.
* An `up` of a project whose pin was changed while it runs elsewhere starts a
  second session and overwrites the entry of the first; the setups have a pin
  that differs from the placement only for a recall, which comes first.
* A turn an agent writes between the final pull and the kill is not pulled.

Agents, windows and panes

* A revive in bulk, or a start by hand, that overlaps a park can leave a live
  agent under a `parked` record, which DESIGN.md says never happens
  (`setup.together`).  A hook that survives its agent may overwrite `parked`; a
  resume's `clear_state` may delete the record the new agent's hook just wrote;
  the purge of stale records reads and then deletes.
* A push that failed is still debounced for its 300 s; a killed daemon leaves
  its badges; a handle that is reused within one tick may be retitled.
* A session that returns between an attach that missed it and the check on it
  leaves a pane that takes itself for detached, though README.md says that only
  a deliberate detach closes one.  Without psmux on PATH the probe counts as
  "gone" and a pane stops after five, where its docstring says it keeps trying.
  The sweep does close windows without a multiplexer.
* A press whose serve stops answering, or whose local send is given up, may have
  been pasted all the same.  The order of two flashes rests on 20 s being less
  than 25 s, and a full queue drops the verdict.
* `send` does not look at the pane's state: a prompt typed while a dialog is up
  answers it and is said sent.  A swallowed Enter after `/compact` is not looked
  for, so that `/compact` and the prompt become one line; a `/compact` whose
  Enter answered a dialog stays on the line and goes with a later Enter; a prompt too short to
  verify is always "sent"; a draft may push the prompt's head off the caret line.

Nodes

* `settings.json` is written without a second look, and `_merge_into` looks and
  then replaces: a write of the node's claude in between is lost, though the
  docstring says it is never overwritten.  A killed run leaves what no record
  names, and a later run may skip a step as unchanged.
* A memory seed that is cut short leaves half a folder that no re-run completes.
  Of two PCs that bring one project up, the second starts the agent while the
  first still seeds.  A commit made on a detached HEAD between `for-each-ref`
  and the checkout is orphaned (`Passing`).
* Files to ship are checked again for "inside the project" when they are read,
  but not for the credential stores.  A file that is linked elsewhere between
  the skills walk's fence and its open is out of the model: `lies` is fixed.
* An `up` that read the token before a renewal may lay the old one over the new
  after the row said "in place" (`putBack`).  An `up` whose gate renewed a token
  and gave the push up may start a second applier (excluded in `OneApplier`).
  Without a terminal an expired token is called ok, valid until a past date.  A
  final privacy check that fails says that the renewal failed although the new
  file is in place.
* An MCP step that odd text emptied still ships its OAuth entries.  The gate
  asks again for each node without a token.
* `stop_daemon` may delete the pid file of a node-sync daemon that locked after
  its probe, and say "Stopped".  What a tick spawned that ended just before
  `down --all` asked may come up later (`strays`).  `down --all` looks 10 s for
  what a tick spawned while it asked, where the comment on `_START_POLLS` has
  measured starts of 13 s: one that locks only after the look runs on although
  `down --all` said stopped or absent (`Tardy`).  A probe of the lock can turn
  a starting daemon away; one that winds down is taken for healthy; and a hand's
  start that crosses `down --all` may leave one.  The look of `down --all` ends
  early when another command's probe holds the lock while a stranger wears the
  old pid, or when an earlier spawn that took longer than the look comes up first
  (`fooled`); a tick that keeps its lock past `STOP_SETTLE_S` leaves `down`
  unprotected, with a warning (`held`); without node pulls the lock is taken only
  after serve is stopped, so that what a tick just spawned is not looked for.
  One serve is modelled here: two on different ports may tick, and spawn, within
  seconds of each other.
* Turns typed between the last pull and the stop stay on the node.  An orphaned
  install that writes between its look and its move loses turns (`crossed`).  A
  branch without upstream is not noted as unpushed work.  A memory file that
  differs at the destination is kept there, whichever is newer.
* Samples stamped while the clock ran ahead are the newest until they age out,
  where `in_window`'s docstring speaks of seconds.  A history that cannot be read
  makes one live reading stand for it.

Windows

* A project whose folder is missing gets no session window, yet stays a target
  and is reported "not found"; without psmux it is no target.  An IDE's key may
  match any window whose title contains it, magent's own among them.
* Re-opening one of two windows of a project gives it the newest conversation,
  which the other may have.  Two entries of one name open two windows.
* Menu option 1 and a bare `-g` place only the new windows, from the first slot
  on: they may cover windows that are there.

Configuration, hand-off, logs

* Two editors that cross lose one's change: no lock is held, and the menu holds
  what it read for as long as its questions take.  Two straight writes may mix.
  `config set`, `enable`, `default-tool` and `remove` write what they did not
  vet; the tools menu writes back the whole of what it read.  An edit on the host between the backup and the replace is in neither.
* "Task Scheduler never started it" can be said of a command that ran, where the
  launcher died before it recorded its pid or the query did not answer.  A
  `/Create` or `/Run` that was given up may have worked.  A caller killed while
  it waits leaves its task and its scratch folder.
* A writer that waited five seconds in vain writes without the lock.  A log held
  open by something else on Windows makes every attempt shift the backups, which
  vanish while the log grows.

## 9. What is not modelled

Within the modelled components: the refusal to run in Session 0 (the hand-off
that goes with it is `HandOff`), the foreground `magent hotkey` and reboots
(`Listener`); the requests serve answers besides uploads and flashes, and its
psmux priority sweep (`Supervision`); parked panes, decoration and a late
kill-server (`Sessions`; parks are in `Parking`); files over the member cap or
unreadable, a session whose real path changes, what a pull writes beside the
files (`NodePull`); folders two projects share, cloud projects, a node that
leaves the configuration while placed, `--no-pull`, agents that exit on their
own, and an `up` of several projects, which is several commands
(`NodePlacement`); the gates that turn the reaper off (`Parking`); what
renderers print (`Attention`); the remembered host, the version warning
(`Attach`); how a window is matched to a process, the inside of a bring-up
and of a placement (`Launching`); reading the clipboard and request bodies, the web page, `/focus`,
`/health` (`Paste`); the steps of `node_apply` that keep no memory (git,
onboarding, status line, MCP servers) and `trust_folder`; the text of urls, names
and headers, the node's check of member names (`BringUp`, `PushSet`); the
terminal of `claude setup-token`, GitHub's login, Windows ACLs (`SignIn`); a
value's own type in the configuration (`ConfigEdits`); how footers and tables are
parsed (`FleetSend`).

Whole components, with the reason:

* provisioning scripts (`setup.sh`, `provision.sh`, `doctor.sh`, `lib.sh`):
  sequential shell that installs and checks the programs of a machine;
* platform calls, process queries: answers of an operating system, modelled
  where a component depends on them;
* discovery, tables, commands, menus and display: read, parse, compute and
  render, with no state between calls and no second actor.
