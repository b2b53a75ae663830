----------------------------- MODULE SyncDaemon -----------------------------
(***************************************************************************)
(* The life of the node sync daemon: what spawns it (serve's supervisor, a *)
(* person or a bring-up), how it takes its lock, winds down when no session *)
(* is placed on a node, and how it is stopped: by `node sync --stop`, and  *)
(* by `down --all`, which keeps serve from spawning another meanwhile and  *)
(* looks for one that locks late (node_sync, node_cmd.DownSyncStop).       *)
(*                                                                         *)
(* The lock says that a daemon runs, the pid file says which.  A probe of  *)
(* the lock takes it for a moment.  Time is counted where code waits.      *)
(***************************************************************************)
EXTENDS Naturals, FiniteSets

CONSTANTS Daemon,      \* daemons, spawned or to be
          Stranger,    \* a process that wears a dead daemon's number
          Nil,
          Cold,        \* _START_POLLS: how long after its spawn a daemon is looked for
          Settle,      \* STOP_SETTLE_S
          SyncSetups   \* runs, left, placed, serves, pulls, hand, liberty, down

\* The lock lets one daemon run; a pid file names it, or nobody.
ASSUME SyncAssumption ==
  /\ Cold \in Nat \ {0} /\ Settle \in Nat
  /\ Stranger \notin Daemon /\ Nil \notin Daemon \cup {Stranger, "serve", "down", "hand"} /\ {"serve", "down", "hand"} \cap Daemon = {}
  /\ \A s \in SyncSetups : s.runs \subseteq Daemon /\ (\A d, e \in s.runs : d = e) /\ s.left \in s.runs \cup {Stranger, Nil} /\ s.down \in {"ask", "rest"}

VARIABLES daemons,      \* each: [at, age when it locked (Cold and more are one), by whom, late: spawned while `down` asked for the hold]
          syncLock,     \* LOCK_NAME: a daemon, a prober or Nil
          syncPid,      \* the pid file's process, or Nil
          syncBeat,     \* there is a heartbeat file
          supLock,      \* SUPERVISOR_LOCK_NAME: "serve", "down" or Nil
          serveThread,  \* serve's supervisor thread
          anyPlaced,    \* expected(): a project runs on a node, a session is placed there
          stopOf,       \* stop_daemon as `down` and as the hand's `--stop` run it
          downAll,      \* `down --all`: [pc, until: time left of its look, asked: it waits, seen, said] and, as history, [strays, held, fooled]
          syncPlan      \* the setup

syncvars == <<daemons, syncLock, syncPid, syncBeat, supLock, serveThread, anyPlaced, stopOf, downAll, syncPlan>>

Who == {"down", "hand"}
NoLook == Cold + Settle + 1      \* `until` is None
Alive(d) == daemons[d].at \in {"starting", "locked", "running", "leaving"}
\* A start takes any time (2.5 to 13 s were measured): this one, longer than `down` waits.
Tardy(d) == daemons[d].age = Cold
LivePid == syncPid \in {Stranger} \cup {d \in Daemon : Alive(d)}

SyncTypeOK ==
  /\ \A d \in Daemon : daemons[d].at \in {"unborn", "starting", "locked", "running", "leaving", "gone"} /\ daemons[d].age \in 0..Cold
  /\ syncLock \in Daemon \cup {"serve", "down", "hand", Nil} /\ syncPid \in Daemon \cup {Stranger, Nil}
  /\ supLock \in {"serve", "down", Nil} /\ serveThread \in {"off", "idle", "tick", "free", "spawn", "leave"}
  /\ \A d \in Daemon : syncLock = d <=> daemons[d].at \in {"locked", "running", "leaving"}

-----------------------------------------------------------------------------
(* The daemon (run_sync_loop).                                             *)

Spawned(d, by) == daemons[d].at = "unborn" /\ daemons' = [daemons EXCEPT ![d] = [at |-> "starting", age |-> 0, by |-> by, late |-> downAll.asked]]

\* Nothing is kept of one that is gone but who spawned it.
Without(d) == [daemons EXCEPT ![d] = [at |-> "gone", age |-> 0, by |-> daemons[d].by, late |-> FALSE]]

\* The lock is taken at once or never: somebody else's probe will do to turn it away.
TakesLock(d) ==
  /\ daemons[d].at = "starting" /\ UNCHANGED <<syncPid, syncBeat, supLock, serveThread, anyPlaced, stopOf, downAll, syncPlan>>
  /\ IF syncLock = Nil THEN syncLock' = d /\ daemons' = [daemons EXCEPT ![d].at = "locked"]
     ELSE UNCHANGED syncLock /\ daemons' = Without(d)
Records(d) == /\ daemons[d].at = "locked" /\ daemons' = [daemons EXCEPT ![d].at = "running"]
              /\ syncPid' = d /\ syncBeat' = TRUE /\ UNCHANGED <<syncLock, supLock, serveThread, anyPlaced, stopOf, downAll, syncPlan>>
\* No session placed for IDLE_EXIT_S, or its config gone: heartbeat and pid first, the lock last.
WindsDown(d) == /\ daemons[d].at = "running" /\ ~anyPlaced /\ daemons' = [daemons EXCEPT ![d].at = "leaving"]
                /\ syncBeat' = FALSE /\ syncPid' = IF syncPid = d THEN Nil ELSE syncPid
                /\ UNCHANGED <<syncLock, supLock, serveThread, anyPlaced, stopOf, downAll, syncPlan>>
Leaves(d) == /\ daemons[d].at = "leaving" /\ daemons' = Without(d) /\ syncLock' = Nil
             /\ UNCHANGED <<syncPid, syncBeat, supLock, serveThread, anyPlaced, stopOf, downAll, syncPlan>>
Crashes(d) == /\ "crash" \in syncPlan.liberty /\ Alive(d) /\ daemons' = Without(d)
              /\ syncLock' = IF syncLock = d THEN Nil ELSE syncLock
              /\ UNCHANGED <<syncPid, syncBeat, supLock, serveThread, anyPlaced, stopOf, downAll, syncPlan>>
Empties == /\ "idle" \in syncPlan.liberty /\ anyPlaced /\ anyPlaced' = FALSE
           /\ UNCHANGED <<daemons, syncLock, syncPid, syncBeat, supLock, serveThread, stopOf, downAll, syncPlan>>

-----------------------------------------------------------------------------
(* serve's supervisor thread (_supervise_node_sync, ensure_node_sync).     *)

ServeRest == UNCHANGED <<syncPid, syncBeat, anyPlaced, stopOf, downAll, syncPlan>>
\* Ticks are further apart than `down` waits; a start may outlast that too.
ServeTick == /\ serveThread = "idle" /\ supLock = Nil /\ anyPlaced /\ supLock' = "serve" /\ serveThread' = "tick"
             /\ \A d \in Daemon : daemons[d].at = "starting" /\ daemons[d].by = "serve" => Tardy(d)
             /\ UNCHANGED <<daemons, syncLock>> /\ ServeRest
ServeProbes == /\ serveThread = "tick" /\ UNCHANGED <<daemons, supLock>> /\ ServeRest
               /\ IF syncLock = Nil THEN syncLock' = "serve" /\ serveThread' = "free" ELSE serveThread' = "leave" /\ UNCHANGED syncLock
ServeLetsGo == /\ serveThread = "free" /\ syncLock' = Nil /\ serveThread' = "spawn" /\ UNCHANGED <<daemons, supLock>> /\ ServeRest
ServeSpawns == /\ serveThread = "spawn" /\ serveThread' = "leave" /\ UNCHANGED <<syncLock, supLock>> /\ ServeRest
               /\ \/ \E d \in Daemon : Spawned(d, "serve")
                  \/ UNCHANGED daemons      \* the spawn fails, and is tried again next tick
ServeLeaves == /\ serveThread = "leave" /\ supLock' = Nil /\ serveThread' = "idle" /\ UNCHANGED <<daemons, syncLock>> /\ ServeRest

\* A person's `node sync -d`, or a bring-up's: no supervisor's lock.
HandSpawns == /\ syncPlan.hand = "start" /\ syncLock = Nil /\ \A d \in Daemon : daemons[d].by # "hand"
              /\ \E d \in Daemon : Spawned(d, "hand")
              /\ UNCHANGED <<syncLock, syncPid, syncBeat, supLock, serveThread, anyPlaced, stopOf, downAll, syncPlan>>

-----------------------------------------------------------------------------
(* stop_daemon, then the second probe that tells absent from stuck.        *)

NoStop == [pc |-> "none", pid |-> Nil, left |-> 0, out |-> "none"]
NewStop == [NoStop EXCEPT !.pc = "probe"]
StopRest == UNCHANGED <<supLock, serveThread, anyPlaced, downAll, syncPlan>>
StopProbes(w) ==
  /\ stopOf[w].pc = "probe" /\ StopRest /\ UNCHANGED <<daemons, syncPid, syncBeat>>
  /\ IF syncLock = Nil THEN syncLock' = w /\ stopOf' = [stopOf EXCEPT ![w].pc = "free"]
     ELSE stopOf' = [stopOf EXCEPT ![w].pc = "pid", ![w].left = Settle] /\ UNCHANGED syncLock
StopLetsGo(w) == /\ stopOf[w].pc = "free" /\ syncLock' = Nil /\ stopOf' = [stopOf EXCEPT ![w].pc = "clear"]
                 /\ StopRest /\ UNCHANGED <<daemons, syncPid, syncBeat>>
\* _clear_leftovers; with nothing to clear the lock is asked once more.
StopClears(w) ==
  /\ stopOf[w].pc \in {"clear", "killed"} /\ syncPid' = Nil /\ syncBeat' = FALSE /\ StopRest /\ UNCHANGED <<daemons, syncLock>>
  /\ stopOf' = [stopOf EXCEPT ![w] = IF @.pc = "killed" \/ syncPid # Nil THEN [@ EXCEPT !.pc = "over", !.out = "stopped"]
                                 ELSE [@ EXCEPT !.pc = "check"]]
\* The pid is waited for; a file whose process is gone is cleared on the way.
StopReads(w) ==
  /\ stopOf[w].pc = "pid" /\ StopRest /\ UNCHANGED <<daemons, syncLock, syncBeat>> /\ syncPid' = IF LivePid THEN syncPid ELSE Nil
  /\ \/ LivePid /\ stopOf' = [stopOf EXCEPT ![w].pc = "kill", ![w].pid = syncPid]
     \/ ~LivePid /\ stopOf[w].left = 0 /\ stopOf' = [stopOf EXCEPT ![w].pc = "check"]
\* _kill: only what the pid file was written for, and only while there is one.
StopKills(w) ==
  LET d == stopOf[w].pid IN
  /\ stopOf[w].pc = "kill" /\ StopRest /\ UNCHANGED <<syncPid, syncBeat>>
  /\ IF syncPid = Nil \/ d = Stranger \/ "stubborn" \in syncPlan.liberty
     THEN stopOf' = [stopOf EXCEPT ![w].pc = "check"] /\ UNCHANGED <<daemons, syncLock>>
     ELSE /\ daemons' = Without(d) /\ syncLock' = IF syncLock = d THEN Nil ELSE syncLock
          /\ stopOf' = [stopOf EXCEPT ![w].pc = "killed"]
StopChecks(w) == /\ stopOf[w].pc = "check" /\ stopOf' = [stopOf EXCEPT ![w].pc = "over", ![w].out = IF syncLock = Nil THEN "absent" ELSE "stuck"]
                 /\ StopRest /\ UNCHANGED <<daemons, syncLock, syncPid, syncBeat>>
StopStep(w) == StopProbes(w) \/ StopLetsGo(w) \/ StopClears(w) \/ StopReads(w) \/ StopKills(w) \/ StopChecks(w)
HandStops == /\ syncPlan.hand = "stop" /\ stopOf["hand"].pc = "none" /\ stopOf' = [stopOf EXCEPT !["hand"] = NewStop]
             /\ StopRest /\ UNCHANGED <<daemons, syncLock, syncPid, syncBeat>>

-----------------------------------------------------------------------------
(* `down --all`.                                                           *)

DownRest == UNCHANGED <<daemons, syncPid, syncBeat, anyPlaced, syncPlan>>
\* supervisor_held: a tick that holds it is waited for; what starts meanwhile is looked for later.
DownAsks == /\ downAll.pc = "ask" /\ ~downAll.asked /\ supLock = "serve" /\ downAll' = [downAll EXCEPT !.asked = TRUE]
            /\ DownRest /\ UNCHANGED <<syncLock, supLock, serveThread, stopOf>>
\* Before the pulls, or at the end where there are none; a tick that keeps it for too long is not waited for.
DownHolds ==
  /\ downAll.pc = "ask" /\ DownRest /\ UNCHANGED <<syncLock, serveThread, stopOf>>
  /\ \/ supLock = Nil /\ supLock' = "down"
     \/ supLock = "serve" /\ downAll.asked /\ "slow" \in syncPlan.liberty /\ UNCHANGED supLock
  /\ downAll' = [downAll EXCEPT !.asked = FALSE, !.held = supLock = Nil, !.until = IF downAll.asked THEN Cold ELSE NoLook,
                                !.strays = {d \in Daemon : daemons[d].at = "starting" /\ ~daemons[d].late},
                                !.pc = IF syncPlan.pulls THEN "first" ELSE "look"]
\* before_pulls: a look, and a stop.
FirstLook == /\ downAll.pc = "first" /\ downAll' = [downAll EXCEPT !.pc = "firstStop", !.seen = syncLock # Nil]
             /\ stopOf' = [stopOf EXCEPT !["down"] = NewStop] /\ DownRest /\ UNCHANGED <<syncLock, supLock, serveThread>>
FirstStopped == /\ downAll.pc = "firstStop" /\ stopOf["down"].pc = "over" /\ downAll' = [downAll EXCEPT !.pc = "services"]
                /\ DownRest /\ UNCHANGED <<syncLock, supLock, serveThread, stopOf>>
\* The attention daemon and serve go down; what serve held is free.
StopsServe == /\ downAll.pc = "services" /\ serveThread' = "off" /\ syncLock' = (IF syncLock = "serve" THEN Nil ELSE syncLock)
              /\ supLock' = (IF supLock = "serve" THEN Nil ELSE supLock)
              /\ downAll' = [downAll EXCEPT !.pc = IF syncPlan.pulls THEN "look" ELSE "ask"] /\ DownRest /\ UNCHANGED stopOf
\* at_end: how long it looks for a late daemon, if at all.
Until_Never == NoLook
Until == IF ~downAll.seen THEN downAll.until
         ELSE IF downAll.until = NoLook \/ downAll.until < Settle THEN Settle ELSE downAll.until
LooksUntil == /\ downAll.pc = "look" /\ downAll' = [downAll EXCEPT !.pc = "await", !.until = Until]
              /\ DownRest /\ UNCHANGED <<syncLock, supLock, serveThread, stopOf>>
\* (history: a probe with a stranger's number, or one that came up late, was taken for the daemon on its way.)
Mistaken == syncLock \notin Daemon \/ (Tardy(syncLock) /\ \E d \in Daemon : daemons[d].at = "starting" /\ ~Tardy(d))
LooksOn == downAll.until \notin {0, NoLook}
Awaits == /\ downAll.pc = "await" /\ (LooksOn => syncLock # Nil /\ LivePid)
          /\ downAll' = [downAll EXCEPT !.pc = "lastStop", !.fooled = LooksOn /\ Mistaken] /\ stopOf' = [stopOf EXCEPT !["down"] = NewStop]
          /\ DownRest /\ UNCHANGED <<syncLock, supLock, serveThread>>
\* A look clears a pid file whose process is gone, like a stop's.
LooksAgain == /\ downAll.pc = "await" /\ LooksOn /\ syncLock # Nil /\ syncPid # Nil /\ ~LivePid /\ syncPid' = Nil
              /\ UNCHANGED <<daemons, syncLock, syncBeat, supLock, serveThread, anyPlaced, stopOf, downAll, syncPlan>>
DownAllEnds == /\ downAll.pc = "lastStop" /\ stopOf["down"].pc = "over" /\ supLock' = (IF supLock = "down" THEN Nil ELSE supLock)
               /\ downAll' = [downAll EXCEPT !.pc = "over", !.said = stopOf["down"].out] /\ DownRest /\ UNCHANGED <<syncLock, serveThread, stopOf>>

-----------------------------------------------------------------------------
\* A daemon that locked records itself at once.
Counts == downAll.until \in 1..(Cold + Settle) \/ (\E w \in Who : stopOf[w].pc = "pid" /\ stopOf[w].left > 0)
SyncClock ==
  /\ \A d \in Daemon : daemons[d].at # "locked"
  /\ Counts \/ \E d \in Daemon : daemons[d].at = "starting" /\ ~Tardy(d)
  /\ daemons' = [d \in Daemon |-> IF daemons[d].at = "starting" /\ ~Tardy(d) THEN [daemons[d] EXCEPT !.age = @ + 1] ELSE daemons[d]]
  /\ stopOf' = [w \in Who |-> IF stopOf[w].left > 0 THEN [stopOf[w] EXCEPT !.left = @ - 1] ELSE stopOf[w]]
  /\ downAll' = IF downAll.until \in 1..(Cold + Settle) THEN [downAll EXCEPT !.until = @ - 1] ELSE downAll
  /\ UNCHANGED <<syncLock, syncPid, syncBeat, supLock, serveThread, anyPlaced, syncPlan>>

SyncStart(s) ==
  /\ syncPlan = s /\ anyPlaced = s.placed /\ supLock = Nil /\ serveThread = IF s.serves THEN "idle" ELSE "off"
  /\ daemons = [d \in Daemon |-> [at |-> IF d \in s.runs THEN "running" ELSE "unborn", age |-> 0, by |-> "earlier", late |-> FALSE]]
  /\ syncLock = IF s.runs = {} THEN Nil ELSE CHOOSE d \in s.runs : TRUE
  /\ syncPid = s.left /\ syncBeat = (s.left # Nil) /\ stopOf = [w \in Who |-> NoStop]
  /\ downAll = [pc |-> IF s.down = "ask" /\ ~s.pulls THEN "services" ELSE s.down, until |-> NoLook, asked |-> FALSE, seen |-> FALSE, said |-> "none",
                 strays |-> {}, held |-> FALSE, fooled |-> FALSE]
SyncInit == \E s \in SyncSetups : SyncStart(s)

SyncNext ==
  \/ \E d \in Daemon : TakesLock(d) \/ Records(d) \/ WindsDown(d) \/ Leaves(d) \/ Crashes(d)
  \/ Empties \/ ServeTick \/ ServeProbes \/ ServeLetsGo \/ ServeSpawns \/ ServeLeaves \/ HandSpawns
  \/ (\E w \in Who : StopStep(w)) \/ HandStops
  \/ DownAsks \/ DownHolds \/ FirstLook \/ FirstStopped \/ StopsServe \/ LooksUntil \/ LooksAgain \/ Awaits \/ DownAllEnds
  \/ SyncClock
  \/ downAll.pc \in {"over", "rest"} /\ UNCHANGED syncvars

SyncSpec == SyncInit /\ [][SyncNext]_syncvars

-----------------------------------------------------------------------------
(* When `down --all` ends without saying that the daemon is stuck, none is *)
(* left that came up within a cold start of its spawn: neither one that    *)
(* ran before, nor one that a supervisor's tick spawned while `down`       *)
(* waited for it and that locked only later (DownSyncStop).  Outside its   *)
(* promise are a daemon slower than the cold start that `down` waits for;  *)
(* what a tick spawned that ended before `down` asked; a `down` that a     *)
(* hand's start crosses; one that had to go on without the supervisor's    *)
(* lock, of which the log warns; and one whose look took for the daemon on *)
(* its way another's probe of the lock, with a stranger behind the old     *)
(* number, or an earlier spawn that came up only then.                     *)
DownLeavesNoSync ==
  downAll.pc = "over" /\ downAll.said \in {"stopped", "absent"} /\ downAll.held /\ ~downAll.fooled /\ (\A d \in Daemon : daemons[d].by # "hand") =>
    \A d \in Daemon : Alive(d) => d \in downAll.strays \/ Tardy(d)
=============================================================================
