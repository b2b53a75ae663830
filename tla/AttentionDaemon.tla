-------------------------- MODULE AttentionDaemon --------------------------
(***************************************************************************)
(* How one attention daemon is started, recorded, supervised and stopped   *)
(* (cli/attention_cmd.py, pidfile.py, procs.await_registration, the        *)
(* heartbeat of log.py):                                                   *)
(*                                                                         *)
(*   `attention -d`      takes exclusive_lock("attention"), looks for a    *)
(*                       live daemon, spawns a detached child and waits,   *)
(*                       still holding the lock, until the child has       *)
(*                       registered or has ended, or a window ran out;     *)
(*   the child           (and `magent attention`) takes no lock: it        *)
(*                       records its pid, then pulses a heartbeat;         *)
(*   `magent serve`      runs a supervisor that starts `attention -d` when *)
(*                       no daemon is live and a heartbeat went stale;     *)
(*   `attention --stop`  withdraws the heartbeat, kills, withdraws again;  *)
(*   `magent status`     reads the pid file, and tidies it away when it    *)
(*                       records nothing.                                  *)
(*                                                                         *)
(* Time is the order of things: a heartbeat is fresh or stale, a cooldown  *)
(* is on or off, and a wait may run out.                                   *)
(***************************************************************************)
EXTENDS Naturals, FiniteSets

CONSTANTS Daemon,      \* pids the daemon's processes may get
          Launcher,    \* `attention -d` processes alive at one time
          Serve,       \* `magent serve` processes, one supervisor in each
          Nobody,
          Liberties,   \* what a behaviour may allow itself, as below
          MaxCrashes   \* crashes and restarts in one behaviour

ASSUME NobodyAssumption == Nobody \notin Daemon \cup Launcher \cup Serve
ASSUME LibertiesAssumption ==
  Liberties \subseteq SUBSET {"impatient", "foreground", "reuse", "slow"}
ASSUME MaxCrashesAssumption == MaxCrashes \in Nat

VARIABLES st,        \* each pid's process
          pidFile,   \* the pid ~/.magent/attention.pid records
          written,   \* whether it was written since the last boot or before
          hb,        \* ~/.magent/attention.heartbeat
          lock,      \* the launcher inside exclusive_lock("attention")
          lpc,       \* where each launcher is
          child,     \* the child a launcher spawned, while it lives
          spc,       \* where each serve's supervisor is in its tick
          cooling,   \* the supervisors whose respawn cooldown is running
          stopper,   \* where the stop command is, and the pid it read
          reader,    \* the pid `status` found dead and is about to tidy away
          crashes,
          liberty,   \* what this behaviour allows itself
          quiet,     \* history: since no daemon has registered, a stop has
                     \* "stopped" one, or found it "absent" already
          tickQuiet  \* history: whether the tick began in this quiet time

files == <<pidFile, written>>
launch == <<lock, lpc, child>>
super == <<spc, cooling, tickQuiet>>
vars == <<st, files, hb, launch, super, stopper, reader, crashes, quiet>>
allvars == <<vars, liberty>>

(* A launcher outlives its child's start-up: nobody interrupts it, and no  *)
(* child is slower than its window.                                        *)
Patient == "impatient" \notin liberty
(* Somebody also runs `magent attention` itself. *)
Foreground == "foreground" \in liberty
(* The OS hands a dead daemon's pid to a stranger. *)
PidReuse == "reuse" \in liberty
(* A read of the record, or a stop, is over before a daemon launched       *)
(* meanwhile can start up.                                                 *)
Swift == "slow" \notin liberty
Orderly == liberty = {}

Living == {"starting", "recorded", "running", "closing", "dying", "stranger"}
Registered == {"recorded", "running", "closing", "dying"}

TypeOK ==
  /\ liberty \in Liberties
  /\ st \in [Daemon -> Living \cup {"free"}]
  /\ pidFile \in Daemon \cup {Nobody}
  /\ written \in {"since", "before"}
  /\ hb \in {"none", "fresh", "stale"}
  /\ lock \in Launcher \cup {Nobody}
  /\ lpc \in [Launcher -> {"off", "lock", "check", "wait"}]
  /\ child \in [Launcher -> Daemon \cup {Nobody}]
  /\ \A l \in Launcher : lock = l <=> lpc[l] \in {"check", "wait"}
  /\ spc \in [Serve -> {"rest", "age", "spawn"}]
  /\ cooling \in SUBSET Serve
  /\ stopper \in [pc : {"rest", "clear", "kill", "confirm"}, pid : Daemon \cup {Nobody}]
  /\ reader \in Daemon \cup {Nobody}
  /\ crashes \in 0..MaxCrashes
  /\ quiet \in {"no", "stopped", "absent"}
  /\ tickQuiet \in [Serve -> {"no", "stopped", "absent"}]

Init ==
  /\ liberty \in Liberties
  /\ st = [d \in Daemon |-> "free"]
  /\ pidFile = Nobody /\ written = "since"
  /\ hb = "none"
  /\ lock = Nobody
  /\ lpc = [l \in Launcher |-> "off"]
  /\ child = [l \in Launcher |-> Nobody]
  /\ spc = [s \in Serve |-> "rest"]
  /\ cooling = {}
  /\ stopper = [pc |-> "rest", pid |-> Nobody]
  /\ reader = Nobody
  /\ crashes = 0
  /\ quiet = "no"
  /\ tickQuiet = [s \in Serve |-> "no"]

-----------------------------------------------------------------------------
(***************************************************************************)
(* pidfile.read: the pid of the live process the file records.  A record   *)
(* from before the boot names nothing; a pid that is alive is believed.    *)
(***************************************************************************)
LivePid ==
  IF pidFile # Nobody /\ written = "since" /\ st[pidFile] \in Living THEN pidFile ELSE Nobody

(* A record of nothing is cleared by whoever reads it. *)
TidyPidFile == /\ pidFile' = LivePid
               /\ written' = "since"

ForgetRecord == pidFile' = Nobody /\ written' = "since"

(* pidfile.clear: only the process's own record. *)
ClearOwn(d) == IF pidFile = d THEN ForgetRecord ELSE UNCHANGED files

(* The process of pid d is no more. *)
Ends(d) ==
  /\ st' = [st EXCEPT ![d] = "free"]
  /\ child' = [l \in Launcher |-> IF child[l] = d THEN Nobody ELSE child[l]]

(* A pid for a new process.  The OS does not hand out the pid of a process *)
(* that died a moment ago unless PidReuse.                                 *)
Unused(d) == st[d] = "free" /\ (PidReuse \/ d # pidFile) /\ d # reader

-----------------------------------------------------------------------------
(***************************************************************************)
(* `attention -d`                                                          *)
(***************************************************************************)

LauncherStarts(l) == lpc[l] = "off" /\ lpc' = [lpc EXCEPT ![l] = "lock"]

HumanLaunch(l) ==
  /\ LauncherStarts(l)
  /\ UNCHANGED <<st, files, hb, lock, child, super, stopper, reader, crashes, quiet>>

(* LockHeld: another launch is already in progress. *)
LaunchLock(l) ==
  /\ lpc[l] = "lock"
  /\ IF lock = Nobody
       THEN lock' = l /\ lpc' = [lpc EXCEPT ![l] = "check"]
       ELSE lpc' = [lpc EXCEPT ![l] = "off"] /\ UNCHANGED lock
  /\ UNCHANGED <<st, files, hb, child, super, stopper, reader, crashes, quiet>>

(* Mutant: the launch leaves with the lock. *)
LaunchDone_Leaks(l) ==
  /\ lpc' = [lpc EXCEPT ![l] = "off"]
  /\ child' = [child EXCEPT ![l] = Nobody]
  /\ UNCHANGED lock

LaunchDone(l) ==
  /\ lock' = Nobody
  /\ lpc' = [lpc EXCEPT ![l] = "off"]
  /\ child' = [child EXCEPT ![l] = Nobody]

(* Mutant: no look for a live daemon. *)
LaunchCheck(l) ==
  /\ lpc[l] = "check"
  /\ TidyPidFile
  /\ \/ LivePid # Nobody /\ LaunchDone(l) /\ UNCHANGED st
     \/ /\ LivePid = Nobody
        /\ \E d \in Daemon : /\ Unused(d)
                             /\ st' = [st EXCEPT ![d] = "starting"]
                             /\ child' = [child EXCEPT ![l] = d]
        /\ lpc' = [lpc EXCEPT ![l] = "wait"]
        /\ UNCHANGED lock
  /\ UNCHANGED <<hb, super, stopper, reader, crashes, quiet>>

(* await_registration: somebody is recorded, or the child is gone, or the  *)
(* window ran out.  The child is never ended by the launcher.              *)
LaunchAwait(l) ==
  /\ lpc[l] = "wait"
  /\ LivePid # Nobody \/ child[l] = Nobody \/ ~Patient
  /\ TidyPidFile
  /\ LaunchDone(l)
  /\ UNCHANGED <<st, hb, super, stopper, reader, crashes, quiet>>

-----------------------------------------------------------------------------
(***************************************************************************)
(* The daemon's own process                                                *)
(***************************************************************************)

ForegroundStart(d) ==
  /\ Foreground /\ Unused(d)
  /\ st' = [st EXCEPT ![d] = "starting"]
  /\ UNCHANGED <<files, hb, launch, super, stopper, reader, crashes, quiet>>

Register(d) ==
  /\ st[d] = "starting"
  /\ Swift => reader = Nobody /\ stopper.pc = "rest"
  /\ st' = [st EXCEPT ![d] = "recorded"]
  /\ pidFile' = d /\ written' = "since"
  /\ quiet' = "no"
  /\ tickQuiet' = [s \in Serve |-> "no"]
  /\ UNCHANGED <<hb, launch, spc, cooling, stopper, reader, crashes>>

(* A configuration with nothing to render, or one that cannot be read. *)
StartFails(d) ==
  /\ st[d] = "starting"
  /\ Ends(d)
  /\ UNCHANGED <<files, hb, lock, lpc, super, stopper, reader, crashes, quiet>>

(* The first pulse is the main thread's, the rest are the heartbeat        *)
(* thread's; a process asked to die may pulse until it does.               *)
Pulse(d) ==
  /\ st[d] \in {"recorded", "running", "dying"}
  /\ st' = [st EXCEPT ![d] = IF @ = "recorded" THEN "running" ELSE @]
  /\ hb' = "fresh"
  /\ UNCHANGED <<files, launch, super, stopper, reader, crashes, quiet>>

(* Ctrl+C: the heartbeat thread has been joined, so no pulse follows. *)
Interrupt(d) ==
  /\ Foreground /\ st[d] = "running"
  /\ st' = [st EXCEPT ![d] = "closing"]
  /\ hb' = "none"
  /\ UNCHANGED <<files, launch, super, stopper, reader, crashes, quiet>>

Closed(d) ==
  /\ st[d] = "closing"
  /\ ClearOwn(d)
  /\ Ends(d)
  /\ UNCHANGED <<hb, lock, lpc, super, stopper, reader, crashes, quiet>>

(* An exception leaves through the same `finally`, and leaves the          *)
(* heartbeat behind as the mark of a crash.                                *)
Raise(d) ==
  /\ st[d] = "running" /\ crashes < MaxCrashes
  /\ crashes' = crashes + 1
  /\ ClearOwn(d)
  /\ Ends(d)
  /\ UNCHANGED <<hb, lock, lpc, super, stopper, reader, quiet>>

(* Killed outright, or killed by a stop that did not wait for it. *)
Vanish(d) ==
  /\ \/ st[d] \in {"recorded", "running", "closing"} /\ crashes < MaxCrashes
        /\ crashes' = crashes + 1
     \/ st[d] \in {"dying", "stranger"} /\ UNCHANGED crashes
  /\ Ends(d)
  /\ UNCHANGED <<files, hb, lock, lpc, super, stopper, reader, quiet>>

(* The OS reuses the pid of a daemon that died without clearing its file. *)
Recycle(d) ==
  /\ PidReuse /\ st[d] = "free" /\ pidFile = d
  /\ st' = [st EXCEPT ![d] = "stranger"]
  /\ UNCHANGED <<files, hb, launch, super, stopper, reader, crashes, quiet>>

(* HEARTBEAT_MAX_AGE is three pulses, and a stop takes less than that from *)
(* its kill to its end.                                                    *)
HeartbeatAges ==
  /\ hb = "fresh"
  /\ \A d \in Daemon : st[d] \notin {"running", "dying"}
  /\ stopper.pc # "confirm"
  /\ hb' = "stale"
  /\ UNCHANGED <<st, files, launch, super, stopper, reader, crashes, quiet>>

(* Every process ends; the files stay. *)
Reboot ==
  /\ crashes < MaxCrashes
  /\ crashes' = crashes + 1
  /\ st' = [d \in Daemon |-> "free"]
  /\ written' = "before"
  /\ lock' = Nobody
  /\ lpc' = [l \in Launcher |-> "off"]
  /\ child' = [l \in Launcher |-> Nobody]
  /\ spc' = [s \in Serve |-> "rest"]
  /\ cooling' = {}
  /\ tickQuiet' = [s \in Serve |-> "no"]
  /\ stopper' = [pc |-> "rest", pid |-> Nobody]
  /\ reader' = Nobody
  /\ UNCHANGED <<pidFile, hb, quiet>>

-----------------------------------------------------------------------------
(***************************************************************************)
(* AttentionDaemonSupervisor.tick                                          *)
(***************************************************************************)

TickPid(s) ==
  /\ spc[s] = "rest"
  /\ TidyPidFile
  /\ LivePid = Nobody
  /\ spc' = [spc EXCEPT ![s] = "age"]
  /\ tickQuiet' = [tickQuiet EXCEPT ![s] = quiet]
  /\ UNCHANGED <<st, hb, launch, cooling, stopper, reader, crashes, quiet>>

(* The heartbeat says the daemon died, and no revive is recent.  Otherwise *)
(* it was never started, or stopped cleanly, or nothing proves it dead yet. *)
TickAge(s) ==
  /\ spc[s] = "age"
  /\ IF hb = "stale" /\ s \notin cooling
       THEN spc' = [spc EXCEPT ![s] = "spawn"]
       ELSE spc' = [spc EXCEPT ![s] = "rest"]
  /\ UNCHANGED <<st, files, hb, launch, cooling, tickQuiet, stopper, reader, crashes, quiet>>

(* Between the judgement and the spawn the configuration is loaded. *)
TickSpawn(s) ==
  /\ spc[s] = "spawn"
  /\ \E l \in Launcher : LauncherStarts(l)
  /\ spc' = [spc EXCEPT ![s] = "rest"]
  /\ cooling' = cooling \cup {s}
  /\ UNCHANGED <<st, files, hb, lock, child, tickQuiet, stopper, reader, crashes, quiet>>

CooldownEnds(s) ==
  /\ s \in cooling
  /\ cooling' = cooling \ {s}
  /\ UNCHANGED <<st, files, hb, launch, spc, tickQuiet, stopper, reader, crashes, quiet>>

-----------------------------------------------------------------------------
(***************************************************************************)
(* `attention --stop` (stop_daemon)                                        *)
(***************************************************************************)

NobodyRuns == \A d \in Daemon : st[d] \in {"free", "stranger"}

StopRead ==
  /\ stopper.pc = "rest"
  /\ TidyPidFile
  /\ \/ LivePid # Nobody /\ stopper' = [pc |-> "clear", pid |-> LivePid] /\ UNCHANGED quiet
     \/ /\ LivePid = Nobody /\ UNCHANGED stopper       \* "was not running"
        /\ quiet' = IF NobodyRuns /\ quiet = "no" THEN "absent" ELSE quiet
  /\ UNCHANGED <<st, hb, launch, super, reader, crashes>>

StopClear ==
  /\ stopper.pc = "clear"
  /\ hb' = "none"
  /\ stopper' = [stopper EXCEPT !.pc = "kill"]
  /\ UNCHANGED <<st, files, launch, super, reader, crashes, quiet>>

StopOver == stopper' = [pc |-> "rest", pid |-> Nobody]

(***************************************************************************)
(* pidfile.terminate reads the record again and ends the process it names  *)
(* if that process is provably the one that made the record.               *)
(***************************************************************************)
KillGone == LivePid = Nobody /\ TidyPidFile /\ StopOver /\ UNCHANGED <<st, child>>

(* Mutant: the number is trusted. *)
KillMismatch_Trusted ==
  /\ LivePid # Nobody /\ st[LivePid] \in {"stranger", "starting"}
  /\ Ends(LivePid)
  /\ ForgetRecord /\ StopOver

(* It started after the record was made: a stranger. *)
KillMismatch ==
  /\ LivePid # Nobody /\ st[LivePid] \in {"stranger", "starting"}
  /\ ForgetRecord /\ StopOver
  /\ UNCHANGED <<st, child>>

(* Mutant: the pid file goes although the process is still there. *)
KillFailed_Forgets ==
  /\ LivePid # Nobody /\ st[LivePid] \in Registered
  /\ ForgetRecord /\ StopOver
  /\ UNCHANGED <<st, child>>

(* The OS refuses, or the start time cannot be read. *)
KillFailed ==
  /\ LivePid # Nobody /\ st[LivePid] \in Registered
  /\ StopOver
  /\ UNCHANGED <<st, child, files>>

(* The process is gone when the call returns, or soon will be. *)
Killed ==
  /\ LivePid # Nobody /\ st[LivePid] \in Registered
  /\ \/ Ends(LivePid)
     \/ st' = [st EXCEPT ![LivePid] = "dying"] /\ UNCHANGED child
  /\ stopper' = [stopper EXCEPT !.pc = "confirm"]
  /\ UNCHANGED files

StopKill ==
  /\ stopper.pc = "kill"
  /\ KillGone \/ KillMismatch \/ KillFailed \/ Killed
  /\ UNCHANGED <<hb, lock, lpc, super, reader, crashes, quiet>>

(* Mutant: the heartbeat is withdrawn once, before the kill. *)
StopConfirm_OneWithdrawal ==
  /\ stopper.pc = "confirm"
  /\ IF st[stopper.pid] \in Living
       THEN UNCHANGED <<files, quiet>>
       ELSE ForgetRecord /\ quiet' = IF NobodyRuns THEN "stopped" ELSE quiet
  /\ StopOver
  /\ UNCHANGED <<st, hb, launch, super, reader, crashes>>

StopConfirm ==
  /\ stopper.pc = "confirm"
  /\ IF st[stopper.pid] \in Living
       THEN UNCHANGED <<files, hb, quiet>>
       ELSE /\ ForgetRecord
            /\ hb' = "none"
            /\ quiet' = IF NobodyRuns THEN "stopped" ELSE quiet
  /\ StopOver
  /\ UNCHANGED <<st, launch, super, reader, crashes>>

-----------------------------------------------------------------------------
(***************************************************************************)
(* `magent status`: pidfile.read, seen as the two steps it is.             *)
(***************************************************************************)

StatusReads ==
  /\ reader = Nobody
  /\ pidFile # Nobody /\ LivePid = Nobody
  /\ reader' = pidFile
  /\ UNCHANGED <<st, files, hb, launch, super, stopper, crashes, quiet>>

(* clear_stale removes the file whoever it records by now. *)
StatusTidies ==
  /\ reader # Nobody
  /\ ForgetRecord
  /\ reader' = Nobody
  /\ UNCHANGED <<st, hb, launch, super, stopper, crashes, quiet>>

-----------------------------------------------------------------------------
LaunchStep(l) == LaunchLock(l) \/ LaunchCheck(l) \/ LaunchAwait(l)

DaemonStep(d) == Register(d) \/ Pulse(d) \/ Closed(d)

DaemonFault(d) == StartFails(d) \/ Raise(d) \/ Vanish(d) \/ Recycle(d)

Tick(s) == TickPid(s) \/ TickAge(s) \/ TickSpawn(s)

Stop == StopRead \/ StopClear \/ StopKill \/ StopConfirm

Next ==
  /\ UNCHANGED liberty
  /\ \/ \E l \in Launcher : HumanLaunch(l) \/ LaunchStep(l)
     \/ \E d \in Daemon : ForegroundStart(d) \/ Interrupt(d) \/ DaemonStep(d) \/ DaemonFault(d)
     \/ \E s \in Serve : Tick(s) \/ CooldownEnds(s)
     \/ HeartbeatAges \/ Reboot \/ Stop \/ StatusReads \/ StatusTidies

Spec == Init /\ [][Next]_allvars

(* Processes run; a start does not fail every time; supervisors look again *)
(* and their cooldowns end; a stop command that has begun goes on.         *)
FairSpec ==
  /\ Spec
  /\ \A l \in Launcher : WF_vars(LaunchStep(l))
  /\ \A d \in Daemon : WF_vars(DaemonStep(d)) /\ SF_vars(Register(d))
  /\ \A s \in Serve : WF_vars(Tick(s)) /\ WF_vars(CooldownEnds(s))
  /\ WF_vars(StopClear \/ StopKill \/ StopConfirm)
  /\ WF_vars(StatusTidies)

-----------------------------------------------------------------------------
(* However launches, revives, stops, crashes and restarts interleave, there *)
(* is one daemon: "two serves on two ports, or a serve racing a human, end  *)
(* with one daemon" (DESIGN.md).  Two would badge, flash and push twice.    *)
OneDaemon ==
  Orderly => \A d, e \in Daemon : st[d] \in Registered /\ st[e] \in Registered => d = e

(* A daemon at work is the one the pid file names, so that `status`, the    *)
(* next launch and the next stop all find it.  It takes a tidy-up or a stop *)
(* that gave up to lose a record.                                           *)
RecordNamesTheDaemon ==
  Orderly => \A d \in Daemon : st[d] \in {"recorded", "running"} => pidFile = d /\ written = "since"

(* A supervisor that looks after a stop ended the daemon starts none: the  *)
(* pulse a daemon may squeeze in between the heartbeat's withdrawal and    *)
(* its own death is not taken for a crash.                                 *)
NoReviveOfAStopped ==
  [][\A s \in Serve : quiet = "stopped" /\ tickQuiet[s] = "stopped" => ~TickSpawn(s)]_vars

(* "It never starts a daemon you did not run, or one you stopped with      *)
(* `magent attention --stop`" (README.md), whether or not the stop found   *)
(* the daemon still alive.                                                 *)
NoReviveAfterAStop ==
  [][\A s \in Serve : quiet # "no" /\ tickQuiet[s] # "no" => ~TickSpawn(s)]_vars

(* A stop spares a process that was given a dead daemon's pid.             *)
StrangersAreSpared ==
  [][Stop => \A d \in Daemon : st[d] = "stranger" => st'[d] = "stranger"]_vars

(* A daemon that died without stopping cleanly runs again, unless somebody *)
(* stops it meanwhile.                                                     *)
CrashedIsRevived ==
  (Orderly /\ hb = "stale" /\ NobodyRuns)
    ~> (hb = "none" \/ \E d \in Daemon : st[d] \in Registered)

(* Both: a stop ends the daemon for good, and nothing but the daemon.      *)
StopsAreClean == StrangersAreSpared /\ NoReviveOfAStopped
=============================================================================
