---------------------------- MODULE Supervision ----------------------------
(***************************************************************************)
(* `magent serve`, its port, and the processes that keep each other alive  *)
(* (upload_server.run_server, launch.UploadServerSupervisor,               *)
(* launch.ensure_upload_server, cli/status.down_cmd):                      *)
(*                                                                         *)
(*   serve       binds every address it serves, in order, and gives all of *)
(*               them back when one is held; records its pid after that;   *)
(*               then supervises the attention daemon and the listener;    *)
(*   attention   on every poll probes loopback, and starts a serve when    *)
(*   -d          nothing answers, no start is recent and its last child is *)
(*               not still starting;                                       *)
(*   --ensure    probes, and starts a serve when nothing answers;          *)
(*   down --all  stops attention, then serve, then the listener.           *)
(*                                                                         *)
(* The daemon is the one AttentionDaemon establishes; how it and the       *)
(* listener start is modelled there and in Listener.                       *)
(***************************************************************************)
EXTENDS Naturals, FiniteSets

CONSTANTS Proc,        \* pids a serve's processes may get
          Nobody,
          Foreign,     \* a program that is not ours
          Liberties,   \* what a behaviour may allow itself, as below
          MaxCrashes

ASSUME NamesAssumption == Cardinality({Nobody, Foreign}) = 2 /\ {Nobody, Foreign} \cap Proc = {}
ASSUME LibertiesAssumption == Liberties \subseteq SUBSET {"busy", "foreign", "host", "tailless", "abrupt"}
ASSUME MaxCrashesAssumption == MaxCrashes \in Nat

VARIABLES st,        \* each serve's process
          addrs,     \* the addresses it has still to bind
          holder,    \* who listens on the port, by address
          pidFile,   \* the pid ~/.magent/upload_server-<port>.pid records
          daemon,    \* the attention daemon
          hb,        \* its heartbeat
          recent,    \* the supervisor's cooldown since its last start runs
          child,     \* the serve it started last, while that lives
          window,    \* whether that start's registration window is open
          cooling,   \* the serves whose daemon-revive cooldown runs
          listener,  \* the Alt+V listener
          down,      \* where `down --all` is; "done" until somebody starts anew
          liberty,
          crashes

serve == <<st, addrs, holder, pidFile>>
attention == <<daemon, hb, recent, child, window>>
vars == <<serve, attention, cooling, listener, down, crashes>>
allvars == <<vars, liberty>>

Loopback == "loopback"
Tailnet == "tailnet"
Address == {Loopback, Tailnet}

\* a wedged serve, or one on another address, makes the probe say nobody
Busy == "busy" \in liberty
\* some program takes an address of ours
ForeignComes == "foreign" \in liberty
\* somebody runs `magent serve --host <tailnet>`
OwnHost == "host" \in liberty
\* Tailscale comes and goes
Tailless == "tailless" \in liberty
\* then one serve may have the tailnet and another loopback alone
TwoByChoice == OwnHost /\ Tailless
\* `down` meets crashes and processes that are just starting
Abrupt == "abrupt" \in liberty

Living == {"binding", "bound", "serving", "closing"}

Holds(p) == {a \in Address : holder[a] = p}

TypeOK ==
  /\ liberty \in Liberties
  /\ st \in [Proc -> Living \cup {"free"}]
  /\ addrs \in [Proc -> SUBSET Address]
  /\ holder \in [Address -> Proc \cup {Nobody, Foreign}]
  /\ \A a \in Address : holder[a] \in Proc => st[holder[a]] \in Living /\ a \notin addrs[holder[a]]
  /\ \A p \in Proc : st[p] \in {"bound", "serving"} => addrs[p] = {} /\ Holds(p) # {}
  /\ pidFile \in Proc \cup {Nobody}
  /\ daemon \in {"off", "starting", "up"}
  /\ hb \in {"none", "fresh", "stale"}
  /\ recent \in {"yes", "no"} /\ window \in {"open", "over"}
  /\ child \in Proc \cup {Nobody}
  /\ cooling \in SUBSET Proc
  /\ listener \in {"off", "up"}
  /\ down \in {"rest", "daemon", "server", "listener", "done"}
  /\ crashes \in 0..MaxCrashes

Init ==
  /\ liberty \in Liberties
  /\ st = [p \in Proc |-> "free"]
  /\ addrs = [p \in Proc |-> {}]
  /\ holder = [a \in Address |-> Nobody]
  /\ pidFile = Nobody
  /\ daemon = "off" /\ hb = "none"
  /\ recent = "no" /\ child = Nobody /\ window = "over"
  /\ cooling = {}
  /\ listener = "off"
  /\ down = "rest"
  /\ crashes = 0

-----------------------------------------------------------------------------
(***************************************************************************)
(* run_server                                                              *)
(***************************************************************************)
Unused(p) == st[p] = "free" /\ p # pidFile

Spawn(p, where) ==
  /\ Unused(p)
  /\ st' = [st EXCEPT ![p] = "binding"]
  /\ addrs' = [addrs EXCEPT ![p] = where]

(* _bind_addresses, without --host. *)
SpawnDefault(p) == Spawn(p, Address) \/ (Tailless /\ Spawn(p, {Loopback}))

\* every socket of a process closes with it
ClosesAll(p) == holder' = [a \in Address |-> IF holder[a] = p THEN Nobody ELSE holder[a]]

Ends(p) ==
  /\ st' = [st EXCEPT ![p] = "free"]
  /\ addrs' = [addrs EXCEPT ![p] = {}]
  /\ cooling' = cooling \ {p}
  /\ child' = IF child = p THEN Nobody ELSE child

\* loopback first
Turn(p) == IF Loopback \in addrs[p] THEN Loopback ELSE Tailnet

BindsOne(p) ==
  /\ st[p] = "binding" /\ addrs[p] # {}
  /\ holder[Turn(p)] = Nobody
  /\ holder' = [holder EXCEPT ![Turn(p)] = p]
  /\ addrs' = [addrs EXCEPT ![p] = @ \ {Turn(p)}]
  /\ st' = [st EXCEPT ![p] = IF addrs[p] = {Turn(p)} THEN "bound" ELSE "binding"]
  /\ UNCHANGED <<pidFile, attention, cooling, listener, down, crashes>>

(* Mutant: a held address is skipped and the rest is served. *)
(* Held on any address: what was bound is given back, and no file touched. *)
PortInUse(p) ==
  /\ st[p] = "binding" /\ addrs[p] # {}
  /\ holder[Turn(p)] # Nobody
  /\ ClosesAll(p) /\ Ends(p)
  /\ UNCHANGED <<pidFile, daemon, hb, recent, window, listener, down, crashes>>

(* Mutant: with nothing bound it goes on. *)
(* A tailnet address that went away is left out; with nothing bound,       *)
(* BindFailed.                                                             *)
Unbindable(p) ==
  /\ Tailless /\ st[p] = "binding" /\ addrs[p] # {} /\ Turn(p) = Tailnet
  /\ \/ /\ Holds(p) # {}
        /\ addrs' = [addrs EXCEPT ![p] = {}]
        /\ st' = [st EXCEPT ![p] = "bound"]
        /\ UNCHANGED <<cooling, child>>
     \/ Holds(p) = {} /\ Ends(p)
  /\ UNCHANGED <<holder, pidFile, daemon, hb, recent, window, listener, down, crashes>>

Records(p) ==
  /\ st[p] = "bound"
  /\ pidFile' = p
  /\ st' = [st EXCEPT ![p] = "serving"]
  /\ UNCHANGED <<addrs, holder, attention, cooling, listener, down, crashes>>

(* Ctrl+C, or a crash that leaves through `finally': the sockets are       *)
(* closed, and the pid file after them.                                    *)
Closing(p) ==
  /\ st[p] = "serving" /\ crashes < MaxCrashes /\ crashes' = crashes + 1
  /\ Abrupt \/ down \in {"rest", "done"}
  /\ ClosesAll(p)
  /\ st' = [st EXCEPT ![p] = "closing"]
  /\ UNCHANGED <<addrs, pidFile, attention, cooling, listener, down>>

(* Mutant: whatever the file records. *)
Closed_Blind(p) ==
  /\ st[p] = "closing"
  /\ pidFile' = Nobody
  /\ Ends(p)
  /\ UNCHANGED <<holder, daemon, hb, recent, window, listener, down, crashes>>

Closed(p) ==
  /\ st[p] = "closing"
  /\ pidFile' = IF pidFile = p THEN Nobody ELSE pidFile
  /\ Ends(p)
  /\ UNCHANGED <<holder, daemon, hb, recent, window, listener, down, crashes>>

Killed(p) ==
  /\ st[p] \in Living /\ crashes < MaxCrashes /\ crashes' = crashes + 1
  /\ Abrupt \/ down \in {"rest", "done"}
  /\ ClosesAll(p) /\ Ends(p)
  /\ UNCHANGED <<pidFile, daemon, hb, recent, window, listener, down>>

(* A reader clears a record of a process that is gone (pidfile.read). *)
RecordCleared ==
  /\ pidFile # Nobody /\ st[pidFile] = "free"
  /\ pidFile' = Nobody
  /\ UNCHANGED <<st, addrs, holder, attention, cooling, listener, down, crashes>>

ForeignTakes(a) ==
  /\ ForeignComes /\ holder[a] = Nobody
  /\ holder' = [holder EXCEPT ![a] = Foreign]
  /\ UNCHANGED <<st, addrs, pidFile, attention, cooling, listener, down, crashes>>

ForeignLeaves(a) ==
  /\ holder[a] = Foreign
  /\ holder' = [holder EXCEPT ![a] = Nobody]
  /\ UNCHANGED <<st, addrs, pidFile, attention, cooling, listener, down, crashes>>

-----------------------------------------------------------------------------
(***************************************************************************)
(* Who starts a serve                                                      *)
(***************************************************************************)
\* _probe_upload_port: something accepts on loopback
Answers == holder[Loopback] # Nobody
MayLookDead == ~Answers \/ Busy

(* ensure_upload_server, for a launch, a menu, an attach or --ensure. *)
Ensure(p) ==
  /\ MayLookDead
  /\ down \in {"rest", "done"}
  /\ SpawnDefault(p)
  /\ down' = "rest"
  /\ UNCHANGED <<holder, pidFile, attention, cooling, listener, crashes>>

HumanServes(p) ==
  /\ OwnHost /\ down \in {"rest", "done"}
  /\ Spawn(p, {Tailnet})
  /\ down' = "rest"
  /\ UNCHANGED <<holder, pidFile, attention, cooling, listener, crashes>>

\* _still_starting: the last child is alive and inside its window
StillStarting == child # Nobody /\ window = "open"

(* UploadServerSupervisor.tick, when it starts a serve. *)
Revive(p) ==
  /\ daemon = "up" /\ MayLookDead
  /\ recent = "no" /\ ~StillStarting
  /\ SpawnDefault(p)
  /\ recent' = "yes" /\ window' = "open" /\ child' = p
  /\ UNCHANGED <<holder, pidFile, daemon, hb, cooling, listener, down, crashes>>

(* spawn_detached raised, or a Session 0 spawn was refused: paced alike.   *)
ReviveFails ==
  /\ daemon = "up" /\ MayLookDead
  /\ recent = "no" /\ ~StillStarting
  /\ crashes < MaxCrashes /\ crashes' = crashes + 1
  /\ recent' = "yes" /\ window' = "open" /\ child' \in {Nobody, child}
  /\ UNCHANGED <<serve, daemon, hb, cooling, listener, down>>

(* Mutant: the pause is judged from the last look, so looking renews it. *)
CooldownOver_Renewed ==
  /\ recent = "yes" /\ Answers /\ recent' = "no"
  /\ UNCHANGED <<serve, daemon, hb, child, window, cooling, listener, down, crashes>>

CooldownOver ==
  /\ recent = "yes" /\ recent' = "no"
  /\ UNCHANGED <<serve, daemon, hb, child, window, cooling, listener, down, crashes>>

WindowOver ==
  /\ window = "open" /\ window' = "over"
  /\ UNCHANGED <<serve, daemon, hb, recent, child, cooling, listener, down, crashes>>

-----------------------------------------------------------------------------
(***************************************************************************)
(* The attention daemon and the listener, as serve and `down` see them     *)
(***************************************************************************)
DaemonLaunched ==
  /\ daemon = "off" /\ down \in {"rest", "done"}
  /\ daemon' = "starting" /\ down' = "rest"
  /\ UNCHANGED <<serve, hb, recent, child, window, cooling, listener, crashes>>

(* A new daemon remembers no start of the old one's. *)
DaemonUp ==
  /\ daemon = "starting"
  /\ daemon' = "up" /\ hb' = "fresh"
  /\ recent' = "no" /\ child' = Nobody /\ window' = "over"
  /\ UNCHANGED <<serve, cooling, listener, down, crashes>>

DaemonCrashes ==
  /\ daemon = "up" /\ crashes < MaxCrashes /\ crashes' = crashes + 1
  /\ Abrupt \/ down \in {"rest", "done"}
  /\ daemon' = "off"
  /\ UNCHANGED <<serve, hb, recent, child, window, cooling, listener, down>>

HeartbeatAges ==
  /\ daemon # "up" /\ hb = "fresh" /\ hb' = "stale"
  /\ UNCHANGED <<serve, daemon, recent, child, window, cooling, listener, down, crashes>>

(* attention_watchdog: a serve revives a daemon that left a heartbeat. *)
DaemonRevived(p) ==
  /\ st[p] = "serving" /\ daemon = "off" /\ hb = "stale" /\ p \notin cooling
  /\ daemon' = "starting"
  /\ cooling' = cooling \cup {p}
  /\ UNCHANGED <<serve, hb, recent, child, window, listener, down, crashes>>

CoolingOver(p) ==
  /\ p \in cooling /\ cooling' = cooling \ {p}
  /\ UNCHANGED <<serve, attention, listener, down, crashes>>

(* _supervise_hotkey *)
ListenerStarted(p) ==
  /\ st[p] = "serving" /\ listener = "off"
  /\ listener' = "up"
  /\ UNCHANGED <<serve, attention, cooling, down, crashes>>

ListenerDies ==
  /\ listener = "up" /\ crashes < MaxCrashes /\ crashes' = crashes + 1
  /\ listener' = "off"
  /\ UNCHANGED <<serve, attention, cooling, down>>

-----------------------------------------------------------------------------
(***************************************************************************)
(* `magent down --all`                                                     *)
(***************************************************************************)
\* no process is on its way up, and no daemon died without its stop
Settled == /\ daemon # "starting" /\ (daemon = "off" => hb = "none")
           /\ \A p \in Proc : st[p] \in {"free", "serving"}
           /\ holder[Loopback] \in Proc

(* Mutant: serve first, the order before 2026-09. *)
Down_ServerFirst ==
  /\ down \in {"rest", "done"} /\ (Abrupt \/ Settled)
  /\ down' = "daemon"
  /\ IF pidFile # Nobody /\ st[pidFile] \in Living
       THEN ClosesAll(pidFile) /\ Ends(pidFile) /\ pidFile' = Nobody
       ELSE UNCHANGED <<serve, child, cooling>>
  /\ UNCHANGED <<daemon, hb, recent, window, listener, crashes>>

Down ==
  /\ down \in {"rest", "done"} /\ (Abrupt \/ Settled)
  /\ down' = "daemon"
  /\ UNCHANGED <<serve, attention, cooling, listener, crashes>>

(* stop_daemon: nothing at all when none is live. *)
DownDaemon ==
  /\ down = "daemon" /\ down' = "server"
  /\ IF daemon = "up" THEN daemon' = "off" /\ hb' = "none" ELSE UNCHANGED <<daemon, hb>>
  /\ UNCHANGED <<serve, recent, child, window, cooling, listener, crashes>>

(* stop_server: the process the file records, if it lives. *)
DownServer ==
  /\ down = "server" /\ down' = "listener"
  /\ IF pidFile # Nobody /\ st[pidFile] \in Living
       THEN ClosesAll(pidFile) /\ Ends(pidFile)
       ELSE UNCHANGED <<st, addrs, holder, cooling, child>>
  /\ pidFile' = Nobody
  /\ UNCHANGED <<daemon, hb, recent, window, listener, crashes>>

DownListener ==
  /\ down = "listener" /\ down' = "done"
  /\ listener' = "off"
  /\ UNCHANGED <<serve, attention, cooling, crashes>>

-----------------------------------------------------------------------------
Starts(p) == BindsOne(p) \/ PortInUse(p) \/ Unbindable(p) \/ Records(p) \/ Closed(p)
Supervises(p) == DaemonRevived(p) \/ ListenerStarted(p)
DownStep == DownDaemon \/ DownServer \/ DownListener

Next ==
  /\ UNCHANGED liberty
  /\ \/ \E p \in Proc : Starts(p) \/ Supervises(p) \/ CoolingOver(p) \/ Closing(p) \/ Killed(p)
     \/ \E p \in Proc : Ensure(p) \/ HumanServes(p) \/ Revive(p)
     \/ \E a \in Address : ForeignTakes(a) \/ ForeignLeaves(a)
     \/ ReviveFails \/ RecordCleared \/ CooldownOver \/ WindowOver
     \/ DaemonLaunched \/ DaemonUp \/ DaemonCrashes \/ HeartbeatAges \/ ListenerDies
     \/ Down \/ DownStep

Spec == Init /\ [][Next]_allvars

(* Processes run, supervisors look again and their cooldowns and windows   *)
(* end, a `down' that has begun goes on.  No human is obliged to anything. *)
Fairness ==
  /\ \A p \in Proc : /\ WF_vars(Starts(p))
                     /\ WF_vars(DaemonRevived(p)) /\ WF_vars(ListenerStarted(p))
                     /\ WF_vars(CoolingOver(p))
  /\ SF_vars(\E p \in Proc : Revive(p))  \* strong: a real OS always has a pid to give
  /\ WF_vars(RecordCleared) /\ WF_vars(CooldownOver) /\ WF_vars(WindowOver)
  /\ WF_vars(DaemonUp) /\ WF_vars(HeartbeatAges) /\ WF_vars(DownStep)

FairSpec == Spec /\ Fairness

-----------------------------------------------------------------------------
Serving == {p \in Proc : st[p] = "serving"}

(* "One port, one server" (DESIGN.md): two serves never serve together,    *)
(* not even one on each address, however ensures, revives, hand-run        *)
(* serves, wedges and crashes interleave; TwoByChoice is the exception.    *)
OneServer == ~TwoByChoice => Cardinality(Serving) <= 1

(* The serve at work is the one the pid file names, so `status` and `down' *)
(* find it: also when it took the port over from one that is closing.      *)
RecordNamesTheServer == ~TwoByChoice => \A p \in Serving : pidFile = p

(* `down --all` leaves nothing behind that brings anything back, if the    *)
(* probe tells the truth and nothing is just starting or crashing.         *)
DownStays ==
  liberty \cap {"abrupt", "busy", "foreign"} = {} /\ ~TwoByChoice /\ down = "done" => Serving = {} /\ daemon # "up" /\ listener = "off"

(* Either of the two that crashes is brought back by the other, a serve    *)
(* as long as the attention daemon lives and the daemon as long as a serve *)
(* does: both being down for good takes both crashing, or a stop.          *)
MutualRevival ==
  /\ ~ForeignComes => [](daemon = "up" /\ Serving = {} => <>(Serving # {} \/ daemon # "up"))
  /\ liberty = {} =>
    ((daemon = "off" /\ hb = "stale" /\ Serving # {} /\ down = "rest")
       ~> (daemon = "up" \/ Serving = {} \/ down # "rest"))

(* Both: the serve at work is on record, and `down --all` is final.        *)
ServeIsAccounted == RecordNamesTheServer /\ DownStays
=============================================================================
