------------------------------ MODULE Listener ------------------------------
(***************************************************************************)
(* The Alt+V / F2 listener and the two ways it is started (launch.py,      *)
(* hotkey.py, upload_server._supervise_hotkey):                            *)
(*                                                                         *)
(*   start_hotkey_listener    what the launch path and `magent attach`     *)
(*                            call: they know the target, and re-aim a     *)
(*                            running listener when it is another one;     *)
(*   ensure_hotkey_listener   what the supervisor in every `magent serve`  *)
(*                            calls on an interval, inside                 *)
(*                            exclusive_lock("hotkey-supervisor"): it      *)
(*                            keeps the target of whatever runs, replaces  *)
(*                            a listener whose heartbeat went silent, and  *)
(*                            bounds the restarts it makes over a version. *)
(*                                                                         *)
(* A listener records its pid, then describes itself in a manifest, then   *)
(* pulses a heartbeat from a thread of its own.                            *)
(***************************************************************************)
EXTENDS Naturals, FiniteSets

CONSTANTS Proc,        \* pids the listener's processes may get
          Serve,       \* `magent serve` processes, one supervisor in each
          Human,       \* runs of the launch path or of `magent attach`
          Nobody,
          Liberties,   \* what a behaviour may allow itself, as below
          SkewRestartMax,
          MaxFaults    \* crashes, hangs and sleeps in one behaviour

Actor == Serve \cup Human

Aim == {"local", "remote"}   \* "local" is a supervisor's own default
Version == {"old", "new"}
Wire == [aim : Aim, ver : Version]

ASSUME NobodyAssumption == Nobody \notin Proc \cup Actor
ASSUME NoManifestAssumption == Nobody \notin Wire
ASSUME ActorAssumption == Serve \cap Human = {}
ASSUME LibertiesAssumption ==
  Liberties \subseteq SUBSET {"overlap", "unkillable", "upgrade", "skewed", "cold"}
ASSUME BoundAssumption == SkewRestartMax \in Nat /\ MaxFaults \in Nat

VARIABLES st,         \* each pid's process
          wire,       \* the target and version each living process runs with
          pidFile,    \* the pid ~/.magent/hotkey.pid records
          manifest,   \* ~/.magent/hotkey.json
          hb,         \* ~/.magent/hotkey.heartbeat
          young,      \* the processes created after the last pulse
          installed,  \* the version a reader calls installed
          pc,         \* where each actor is
          want,       \* the target it will start a listener at
          seen,       \* the pid it read last
          child,      \* the process it spawned, while that lives
          lock,       \* exclusive_lock("hotkey-supervisor")
          suspect,    \* each supervisor's ListenerWatch: the pid it saw silent,
                      \* with the pulse it has now ...
          cooling,    \* ... whether it replaced one in the last five minutes ...
          skews,      \* ... the version restarts it has made ...
          skewCooling,\* ... and whether the last one is recent
          ended,      \* history: the target of the listener this call ended
          liberty,    \* what this behaviour allows itself
          faults

procs == <<st, wire, young>>
files == <<pidFile, manifest, hb>>
watch == <<suspect, cooling, skews, skewCooling>>
calls == <<pc, want, seen, child, lock, ended>>
vars == <<procs, files, installed, calls, watch, faults>>
allvars == <<vars, liberty>>

(* No human's start overlaps a supervisor's tick, a start that runs waits  *)
(* for its child, and that writes its manifest before anybody looks.       *)
Polite == "overlap" \notin liberty
(* A listener can be ended by whoever tries to. *)
Killable == "unkillable" \notin liberty
(* A respawn runs other code than the version that counts as installed. *)
Skewed == "skewed" \in liberty
Orderly == liberty \subseteq {"upgrade", "skewed"}

Hooked == {"recorded", "running", "hung"}
Living == Hooked \cup {"starting"}

TypeOK ==
  /\ liberty \in Liberties
  /\ st \in [Proc -> Living \cup {"free"}]
  /\ wire \in [Proc -> Wire]
  /\ pidFile \in Proc \cup {Nobody}
  /\ manifest \in Wire \cup {Nobody}
  /\ hb \in {"none", "fresh", "silent"}
  /\ young \in SUBSET Proc
  /\ installed \in Version
  /\ pc \in [Actor -> {"rest", "retire", "check", "start", "stop", "spawn", "wait"}]
  /\ want \in [Actor -> Aim]
  /\ seen \in [Actor -> Proc \cup {Nobody}]
  /\ child \in [Actor -> Proc \cup {Nobody}]
  /\ lock \in Serve \cup {Nobody}
  /\ \A s \in Serve : lock = s <=> pc[s] # "rest"
  /\ suspect \in [Serve -> Proc \cup {Nobody}]
  /\ cooling \in SUBSET Serve
  /\ skews \in [Serve -> 0..SkewRestartMax]
  /\ skewCooling \in SUBSET Serve
  /\ ended \in [Actor -> Aim \cup {"none"}]
  /\ faults \in 0..MaxFaults

Fresh == [aim |-> "local", ver |-> "old"]

Init ==
  /\ liberty \in Liberties
  /\ st = [p \in Proc |-> "free"]
  /\ wire = [p \in Proc |-> Fresh]
  /\ pidFile = Nobody /\ manifest = Nobody /\ hb = "none"
  /\ young = {}
  /\ installed = "old"
  /\ pc = [a \in Actor |-> "rest"]
  /\ want = [a \in Actor |-> "local"]
  /\ seen = [a \in Actor |-> Nobody]
  /\ child = [a \in Actor |-> Nobody]
  /\ lock = Nobody
  /\ suspect = [s \in Serve |-> Nobody]
  /\ cooling = {}
  /\ skews = [s \in Serve |-> 0]
  /\ skewCooling = {}
  /\ ended = [a \in Actor |-> "none"]
  /\ faults = 0

-----------------------------------------------------------------------------
(***************************************************************************)
(* The files                                                               *)
(***************************************************************************)
ListenerPid == IF pidFile # Nobody /\ st[pidFile] \in Living THEN pidFile ELSE Nobody

\* a read clears a record of nothing
TidyPidFile == pidFile' = ListenerPid

ForgetListener == pidFile' = Nobody /\ manifest' = Nobody /\ hb' = "none"

(* Process p is no more. *)
Ends(p) ==
  /\ st' = [st EXCEPT ![p] = "free"]
  /\ wire' = [wire EXCEPT ![p] = Fresh]
  /\ young' = young \ {p}

Orphans(p) == child' = [a \in Actor |-> IF child[a] = p THEN Nobody ELSE child[a]]

(* hotkey_restart_reason *)
RestartReason(aim) ==
  IF manifest = Nobody THEN "no manifest"
  ELSE IF manifest.ver # installed THEN "version skew"
  ELSE IF manifest.aim # aim THEN "target change"
  ELSE "none"

(* Mutant: a supervisor aims at its own server. *)
SupervisedTarget_Default == "local"

(* supervised_hotkey_target *)
SupervisedTarget == IF manifest = Nobody THEN "local" ELSE manifest.aim

(* Mutant: the call leaves with the lock. *)
CallOver_Leaks(a) ==
  /\ pc' = [pc EXCEPT ![a] = "rest"]
  /\ want' = [want EXCEPT ![a] = "local"]
  /\ seen' = [seen EXCEPT ![a] = Nobody]
  /\ child' = [child EXCEPT ![a] = Nobody]
  /\ ended' = [ended EXCEPT ![a] = "none"]
  /\ UNCHANGED lock

CallOver(a) ==
  /\ pc' = [pc EXCEPT ![a] = "rest"]
  /\ want' = [want EXCEPT ![a] = "local"]
  /\ seen' = [seen EXCEPT ![a] = Nobody]
  /\ child' = [child EXCEPT ![a] = Nobody]
  /\ ended' = [ended EXCEPT ![a] = "none"]
  /\ lock' = IF lock = a THEN Nobody ELSE lock

Goto(a, where) == pc' = [pc EXCEPT ![a] = where]

MayCall == Polite => /\ \A a \in Actor : pc[a] = "rest"
                     /\ \A p \in Proc : st[p] # "recorded"

-----------------------------------------------------------------------------
(***************************************************************************)
(* ensure_hotkey_listener: a supervisor's tick                             *)
(***************************************************************************)

\* A healthy listener pulses between two ticks of a supervisor.
Pulsed(s) == ~ /\ suspect[s] # Nobody /\ suspect[s] = pidFile /\ hb = "silent"
               /\ st[suspect[s]] \in {"recorded", "running"}

TickReads(s) ==
  /\ pc[s] = "rest" /\ MayCall /\ Pulsed(s)
  /\ lock = Nobody /\ lock' = s
  /\ TidyPidFile
  /\ seen' = [seen EXCEPT ![s] = ListenerPid]
  /\ want' = [want EXCEPT ![s] = IF ListenerPid = Nobody THEN "local" ELSE SupervisedTarget]
  /\ Goto(s, IF ListenerPid = Nobody THEN "start" ELSE "retire")
  /\ UNCHANGED <<procs, manifest, hb, installed, child, ended, watch, faults>>

(* wedged_listener_reason: silent for the grace period, and created before *)
(* its last pulse, which is therefore its own.                             *)
Wedged(p) == hb = "silent" /\ st[p] \in Living /\ p \notin young

(* Mutant: one silent tick is enough. *)
Confirmed_AtOnce(s) == TRUE

(* The same pid with the same pulse on an earlier tick: a pulse in between *)
(* empties `suspect' (see Pulse).                                          *)
Confirmed(s) == suspect[s] = seen[s]

(* retire_wedged_listener: nothing to retire *)
TickSpares(s) ==
  /\ pc[s] = "retire"
  /\ \/ ~Wedged(seen[s]) /\ suspect' = [suspect EXCEPT ![s] = Nobody]
     \/ Wedged(seen[s]) /\ ~Confirmed(s) /\ suspect' = [suspect EXCEPT ![s] = seen[s]]
     \/ Wedged(seen[s]) /\ Confirmed(s) /\ s \in cooling /\ UNCHANGED suspect
  /\ Goto(s, "check")
  /\ UNCHANGED <<procs, files, installed, want, seen, child, lock, ended,
                 cooling, skews, skewCooling, faults>>

(* terminate_verified ends the process it was proved about or nothing; the *)
(* cooldown starts either way.                                             *)
TickRetires(s) ==
  /\ pc[s] = "retire" /\ Wedged(seen[s]) /\ Confirmed(s) /\ s \notin cooling
  /\ cooling' = cooling \cup {s}
  /\ \/ /\ ended' = [ended EXCEPT ![s] = wire[seen[s]].aim]
        /\ suspect' = [suspect EXCEPT ![s] = Nobody]
        /\ Ends(seen[s]) /\ Orphans(seen[s]) /\ ForgetListener
     \/ ~Killable /\ UNCHANGED <<procs, files, child, ended, suspect>>
  /\ Goto(s, "check")
  /\ UNCHANGED <<installed, want, seen, lock, skews, skewCooling, faults>>

CoolingEnds(s) ==
  /\ s \in cooling /\ cooling' = cooling \ {s}
  /\ UNCHANGED <<procs, files, installed, calls, suspect, skews, skewCooling, faults>>

SkewCoolingEnds(s) ==
  /\ s \in skewCooling /\ skewCooling' = skewCooling \ {s}
  /\ UNCHANGED <<procs, files, installed, calls, suspect, cooling, skews, faults>>

-----------------------------------------------------------------------------
(***************************************************************************)
(* start_hotkey_listener                                                   *)
(***************************************************************************)
HumanStarts(h, aim) ==
  /\ pc[h] = "rest" /\ MayCall
  /\ want' = [want EXCEPT ![h] = aim]
  /\ Goto(h, "start")
  /\ UNCHANGED <<procs, files, installed, seen, child, lock, ended, watch, faults>>

(* Mutant: restarts over a version are not counted. *)
AllowSkewRestart_Free(s) ==
  /\ s \notin skewCooling
  /\ skewCooling' = skewCooling \cup {s}
  /\ UNCHANGED skews

(* ListenerWatch.allow_skew_restart *)
AllowSkewRestart(s) ==
  /\ skews[s] < SkewRestartMax /\ s \notin skewCooling
  /\ skews' = [skews EXCEPT ![s] = @ + 1]
  /\ skewCooling' = skewCooling \cup {s}

SkewRefused(s) == skews[s] >= SkewRestartMax \/ s \in skewCooling

(* A live listener of this version at this target is kept.  Under a        *)
(* supervisor's watch ("check") so is one of another version, once its     *)
(* restarts are spent.                                                     *)
StartKeeps(a) ==
  /\ pc[a] \in {"start", "check"} /\ ListenerPid # Nobody
  /\ \/ RestartReason(want[a]) = "none"
     \/ pc[a] = "check" /\ RestartReason(want[a]) = "version skew" /\ SkewRefused(a)
  /\ TidyPidFile /\ CallOver(a)
  /\ UNCHANGED <<procs, manifest, hb, installed, watch, faults>>

(* Mutant: what runs is not stopped. *)
StartReplaces_Beside(a) ==
  /\ pc[a] \in {"start", "check"} /\ ListenerPid # Nobody
  /\ RestartReason(want[a]) # "none"
  /\ TidyPidFile
  /\ seen' = [seen EXCEPT ![a] = ListenerPid]
  /\ Goto(a, "spawn")
  /\ UNCHANGED <<procs, manifest, hb, installed, want, child, lock, ended, watch, faults>>

StartReplaces(a) ==
  /\ pc[a] \in {"start", "check"} /\ ListenerPid # Nobody
  /\ RestartReason(want[a]) # "none"
  /\ IF pc[a] = "check" /\ RestartReason(want[a]) = "version skew"
       THEN AllowSkewRestart(a)
       ELSE UNCHANGED <<skews, skewCooling>>
  /\ TidyPidFile
  /\ seen' = [seen EXCEPT ![a] = ListenerPid]
  /\ Goto(a, "stop")
  /\ UNCHANGED <<procs, manifest, hb, installed, want, child, lock, ended, suspect, cooling, faults>>

StartFindsNone(a) ==
  /\ pc[a] \in {"start", "check"} /\ ListenerPid = Nobody
  /\ TidyPidFile
  /\ seen' = [seen EXCEPT ![a] = Nobody]
  /\ Goto(a, "spawn")
  /\ UNCHANGED <<procs, manifest, hb, installed, want, child, lock, ended, watch, faults>>

(* stop_listener; what it answers is not looked at. *)
StartStops(a) ==
  /\ pc[a] = "stop"
  /\ \/ /\ ListenerPid # Nobody
        /\ ended' = [ended EXCEPT ![a] = wire[ListenerPid].aim]
        /\ Ends(ListenerPid) /\ Orphans(ListenerPid) /\ ForgetListener
     \/ /\ ListenerPid = Nobody \/ ~Killable
        /\ TidyPidFile
        /\ UNCHANGED <<procs, manifest, hb, child, ended>>
  /\ Goto(a, "spawn")
  /\ UNCHANGED <<installed, want, seen, lock, watch, faults>>

Unused(p) == st[p] = "free" /\ p # pidFile /\ \A a \in Actor : seen[a] # p

(* The OS has no process to give: OSError leaves the call. *)
SpawnFails(a) ==
  /\ pc[a] = "spawn" /\ ~ \E p \in Proc : Unused(p)
  /\ CallOver(a)
  /\ UNCHANGED <<procs, files, installed, watch, faults>>

StartSpawns(a) ==
  /\ pc[a] = "spawn"
  /\ \E p \in Proc :
       /\ Unused(p)
       /\ st' = [st EXCEPT ![p] = "starting"]
       /\ wire' = [wire EXCEPT ![p] = [aim |-> want[a], ver |-> IF Skewed THEN "old" ELSE installed]]
       /\ young' = young \cup {p}
       /\ child' = [child EXCEPT ![a] = p]
  /\ Goto(a, "wait")
  /\ UNCHANGED <<files, installed, want, seen, lock, ended, watch, faults>>

(* await_registration: somebody else than `not_pid' is on record, or the   *)
(* child is gone, or the window is over.                                   *)
StartAwaits(a) ==
  /\ pc[a] = "wait"
  /\ ListenerPid \notin {Nobody, seen[a]} \/ child[a] = Nobody \/ ~Polite
  /\ TidyPidFile /\ CallOver(a)
  /\ UNCHANGED <<procs, manifest, hb, installed, watch, faults>>

-----------------------------------------------------------------------------
(***************************************************************************)
(* run_hotkey: the listener's process                                      *)
(***************************************************************************)
Registers(p) ==
  /\ st[p] = "starting"
  /\ st' = [st EXCEPT ![p] = "recorded"]
  /\ pidFile' = p
  /\ UNCHANGED <<wire, young, manifest, hb, installed, calls, watch, faults>>

\* the keyboard hook did not install
HookFails(p) ==
  /\ st[p] = "starting" /\ faults < MaxFaults /\ faults' = faults + 1
  /\ Ends(p) /\ Orphans(p)
  /\ UNCHANGED <<files, installed, pc, want, seen, lock, ended, watch>>

Describes(p) ==
  /\ st[p] = "recorded"
  /\ st' = [st EXCEPT ![p] = "running"]
  /\ manifest' = wire[p]
  /\ UNCHANGED <<wire, young, pidFile, hb, installed, calls, watch, faults>>

(* The heartbeat's thread; a new pulse is nobody's earlier suspicion. *)
Pulse(p) ==
  /\ st[p] = "running"
  /\ hb' = "fresh"
  /\ young' = {}
  /\ suspect' = [s \in Serve |-> Nobody]
  /\ UNCHANGED <<st, wire, pidFile, manifest, installed, calls, cooling, skews, skewCooling, faults>>

(* Time passes without a pulse: a listener that hangs or has gone, or one  *)
(* that has not come to its first pulse.                                   *)
Silence ==
  /\ hb = "fresh" /\ \A p \in Proc : st[p] # "running"
  /\ hb' = "silent"
  /\ UNCHANGED <<procs, pidFile, manifest, installed, calls, watch, faults>>

(* The machine slept. *)
Sleep ==
  /\ hb = "fresh" /\ faults < MaxFaults /\ faults' = faults + 1
  /\ hb' = "silent"
  /\ UNCHANGED <<procs, pidFile, manifest, installed, calls, watch>>

Crash(p) ==
  /\ st[p] \in Hooked \ {"recorded"} /\ faults < MaxFaults /\ faults' = faults + 1
  /\ Ends(p) /\ Orphans(p)
  /\ UNCHANGED <<files, installed, pc, want, seen, lock, ended, watch>>

Hang(p) ==
  /\ st[p] = "running" /\ faults < MaxFaults /\ faults' = faults + 1
  /\ (hb = "none" \/ p \in young) => "cold" \in liberty    \* before its first pulse
  /\ st' = [st EXCEPT ![p] = "hung"]
  /\ UNCHANGED <<wire, young, files, installed, calls, watch>>

Upgrade ==
  /\ "upgrade" \in liberty
  /\ installed = "old" /\ installed' = "new"
  /\ UNCHANGED <<procs, files, calls, watch, faults>>

-----------------------------------------------------------------------------
StartStep(a) == StartKeeps(a) \/ StartReplaces(a) \/ StartFindsNone(a)
                  \/ StartStops(a) \/ StartSpawns(a) \/ SpawnFails(a) \/ StartAwaits(a)
Tick(s) == TickReads(s) \/ TickSpares(s) \/ TickRetires(s)
Runs(p) == Registers(p) \/ Describes(p) \/ Pulse(p)

Next ==
  /\ UNCHANGED liberty
  /\ \/ \E s \in Serve : Tick(s) \/ CoolingEnds(s) \/ SkewCoolingEnds(s)
     \/ \E a \in Actor : StartStep(a)
     \/ \E h \in Human, aim \in Aim : HumanStarts(h, aim)
     \/ \E p \in Proc : Runs(p) \/ HookFails(p) \/ Crash(p) \/ Hang(p)
     \/ Silence \/ Sleep \/ Upgrade

Spec == Init /\ [][Next]_allvars

(* Every thread that can run does.  An interval that is over, a listener   *)
(* that pulses and a cooldown come round again and again; nothing makes a  *)
(* human start anything.  A tick that finds the lock held is over, so only *)
(* strong fairness gives each supervisor its turn at the lock.             *)
Fairness ==
  /\ \A s \in Serve : /\ SF_vars(TickReads(s))
                      /\ WF_vars(TickSpares(s) \/ TickRetires(s))
                      /\ WF_vars(CoolingEnds(s)) /\ WF_vars(SkewCoolingEnds(s))
  /\ \A a \in Actor : WF_vars(StartStep(a))
  /\ \A p \in Proc : WF_vars(Registers(p) \/ Describes(p)) /\ WF_vars(Pulse(p))
  /\ WF_vars(Silence)

FairSpec == Spec /\ Fairness

-----------------------------------------------------------------------------
(* Never two listeners: one keyboard hook at a time, however the           *)
(* supervisors of several serves and the humans' starts follow each other. *)
OneListener == Orderly => Cardinality({p \in Proc : st[p] \in Hooked}) <= 1

(* "Never two listeners ... the pid-file + manifest dedupe inside          *)
(* start_hotkey_listener is what guarantees it" (DESIGN.md), which takes   *)
(* no lock of its own.                                                     *)
NeverTwoListeners == Cardinality({p \in Proc : st[p] \in Hooked}) <= 1

(* A supervisor that replaces a listener, for whatever reason, starts the  *)
(* new one at the target the old one had: an attach's remote aim survives  *)
(* wedges, upgrades and unlucky moments.                                   *)
NeverReaimed ==
  Orderly => \A s \in Serve : pc[s] = "spawn" /\ ended[s] # "none" => want[s] = ended[s]

(* A supervisor ends no listener at work as wedged: not one that is busy   *)
(* starting under the heartbeat its predecessor left, nor one whose        *)
(* machine slept, nor one of two that overlapping starts left behind.      *)
HealthyIsSpared ==
  [][\A s \in Serve : pc[s] = "retire" =>
       \A p \in Proc : st[p] \in Living \ {"hung"} => st'[p] # "free" \/ pc'[s] = "retire"]_vars

Works == \E p \in Proc : pidFile = p /\ st[p] = "running"

(* While a serve supervises, a listener is at work again whatever happened *)
(* to the last one: it crashed, it never came up, it hung.                 *)
ListenerReturns == Orderly /\ ~Skewed => []<>Works

(* A version that a restart does not change is not restarted for ever: the *)
(* supervisors end up leaving the listener alone.                          *)
ChurnEnds == Orderly => <>[][\A s \in Serve : pc[s] # "stop" \/ pc'[s] = "stop"]_vars

(* Both: one listener, and at the target it was wired to.                  *)
OneListenerAsWired == OneListener /\ NeverReaimed

(* Both: a listener is at work again and again, and in the end is left to  *)
(* its work.                                                               *)
ListenerSettles == ListenerReturns /\ ChurnEnds
=============================================================================
