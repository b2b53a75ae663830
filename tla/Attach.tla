------------------------------- MODULE Attach -------------------------------
(***************************************************************************)
(* `magent attach`: a window here for each session of a host, and in each  *)
(* a supervisor that dials again (attach_client.supervise), and the        *)
(* command that opens the windows, sweeps the dead ones and looks once     *)
(* more at what it opened (cli/attach._attach_flow).                       *)
(*                                                                         *)
(* A window keeps its title when the program in it is gone, so the command *)
(* tells the dead by the command lines of the running clients. The link,   *)
(* the sessions and the user move between any two of its steps.            *)
(***************************************************************************)
EXTENDS Naturals, FiniteSets

CONSTANTS Sid, Win,
          MissingMax,      \* SESSION_MISSING_MAX
          NoWindow,
          AttachSetups     \* a behaviour's windows and sessions, and what the world does in it

ASSUME AttachAssumption == MissingMax \in Nat \ {0} /\ \A s \in AttachSetups : s.sids \subseteq Sid /\ s.wins \subseteq Win

VARIABLES alive,      \* the host's sessions
          link,       \* whether the host can be reached
          panes,      \* the windows here, and what runs in each
          userLeft,   \* the windows whose user left, by a detach or a Ctrl+C
          lost,       \* the sessions that ever went
          at,         \* the attach command's next step
          ups,        \* the sessions it wants a window for
          ownWindows, \* _partition_open_sids: those of them with a window, and the others' windows
          others,
          dead,       \* what the scan found dead
          toOpen,     \* the windows still to open
          retried,    \* whether this is the second look
          world       \* the behaviour's setup

cmdvars == <<at, ups, ownWindows, others, dead, toOpen, retried>>
attachvars == <<alive, link, panes, userLeft, lost, cmdvars, world>>

PaneKinds == {"supervised", "bare", "nomux"}
AttachSteps == {"idle", "query", "poll", "partition", "scan", "close", "spawn", "settle", "rescan", "reclose", "down"}
Where == {"dial", "attached", "picker", "probe", "wait", "stopped"}

AttachTypeOK ==
  /\ alive \subseteq Sid /\ link \in BOOLEAN /\ lost \subseteq Sid /\ userLeft \subseteq Win
  /\ panes \in [Win -> [sid : Sid, kind : PaneKinds, where : Where, rc : {0, 1, 255}, missing : 0..MissingMax] \cup {NoWindow}]
  /\ at \in AttachSteps /\ retried \in BOOLEAN
  /\ ups \subseteq Sid /\ ownWindows \subseteq Sid /\ others \subseteq Sid /\ dead \subseteq Sid /\ toOpen \subseteq Sid

OpenWindows == {w \in Win : panes[w] # NoWindow}
Lives(w) == w \in OpenWindows /\ panes[w].where # "stopped"
Moves(w, p) == panes' = [panes EXCEPT ![w] = p] /\ UNCHANGED <<alive, link, lost, cmdvars>>
PaneGoes(w, where) == Moves(w, [panes[w] EXCEPT !.where = where])

-----------------------------------------------------------------------------
(* The world.                                                              *)

LinkFlaps == world.flaps /\ link' = ~link /\ UNCHANGED <<alive, panes, userLeft, lost, cmdvars>>
SessionEnds(s) == /\ world.dies /\ s \in alive /\ alive' = alive \ {s} /\ lost' = lost \cup {s}
                  /\ UNCHANGED <<link, panes, userLeft, cmdvars>>
SessionReturns(s) == /\ world.dies /\ s \notin alive /\ alive' = alive \cup {s}
                     /\ UNCHANGED <<link, panes, userLeft, lost, cmdvars>>

\* F1, `psmux detach`, a quit picker, or the ssh child killed; Ctrl+C; a closed window.
Leaves(w) ==
  /\ world.user /\ w \in OpenWindows /\ userLeft' = userLeft \cup {w}
  /\ \/ /\ panes[w].where \in {"attached", "picker"}
        /\ \E rc \in {0, 1} : Moves(w, [panes[w] EXCEPT !.where = "probe", !.rc = rc])
     \/ panes[w].where \in {"dial", "probe", "wait"} /\ PaneGoes(w, "stopped")
CloseIt(w) == world.user /\ w \in OpenWindows /\ Moves(w, NoWindow) /\ userLeft' = userLeft \ {w}

-----------------------------------------------------------------------------
(* The pane.                                                               *)

\* One dial. A Windows host reports 0 where the session is missing; ssh 255 when it cannot
\* reach the host, or a loaded sshd turns it away. A psmux host offers the picker instead.
Dial(w) ==
  /\ w \in OpenWindows /\ panes[w].where = "dial"
  /\ \/ ~link /\ Moves(w, [panes[w] EXCEPT !.where = "probe", !.rc = 255])
     \/ link /\ (panes[w].sid \in alive \/ panes[w].kind = "nomux") /\ PaneGoes(w, "attached")
     \/ /\ link /\ panes[w].sid \notin alive /\ panes[w].kind # "nomux"
        /\ \/ \E rc \in {0, 1} : Moves(w, [panes[w] EXCEPT !.where = "probe", !.rc = rc])
           \/ world.picker /\ PaneGoes(w, "picker")
  /\ UNCHANGED userLeft

\* The connection ends under the pane.
Drops(w) ==
  /\ w \in OpenWindows /\ panes[w].where \in {"attached", "picker"}
  /\ \/ ~link /\ Moves(w, [panes[w] EXCEPT !.where = "probe", !.rc = 255])
     \/ /\ link /\ panes[w].where = "attached" /\ panes[w].sid \notin alive
        /\ \E rc \in {0, 1} : Moves(w, [panes[w] EXCEPT !.where = "probe", !.rc = rc])
  /\ UNCHANGED userLeft

Probed(s) == IF ~link THEN "failed" ELSE IF s \in alive THEN "alive" ELSE "gone"

\* verdict
Verdict_AsksFirst(rc, probe) ==
  CASE probe = "none" -> IF rc = 255 THEN "reconnect" ELSE IF rc = 0 THEN "detached" ELSE "failed"
    [] probe = "alive" -> "detached"
    [] probe = "gone" -> "missing"
    [] OTHER -> "reconnect"
Verdict(rc, probe) ==
  CASE rc = 255 -> "reconnect"
    [] rc # 255 /\ probe = "none" -> IF rc = 0 THEN "detached" ELSE "failed"
    [] rc # 255 /\ probe = "alive" -> "detached"
    [] rc # 255 /\ probe = "gone" -> "missing"
    [] OTHER -> "reconnect"

\* What supervise does about a connection that ended; a bare pane asks nothing and dials once.
Outcome(w) == Verdict(panes[w].rc, IF panes[w].kind = "supervised" THEN Probed(panes[w].sid) ELSE "none")
Misses(w) == IF Outcome(w) = "missing" THEN panes[w].missing + 1 ELSE 0
Supervise(w) ==
  /\ w \in OpenWindows /\ panes[w].where = "probe"
  /\ LET stops == \/ Outcome(w) \in {"detached", "failed"}
                  \/ panes[w].kind # "supervised"
                  \/ Misses(w) >= MissingMax
     IN Moves(w, [panes[w] EXCEPT !.where = IF stops THEN "stopped" ELSE "wait",
                                 !.missing = IF stops THEN 0 ELSE Misses(w), !.rc = 0])
  /\ UNCHANGED userLeft
Redials(w) == w \in OpenWindows /\ panes[w].where = "wait" /\ PaneGoes(w, "dial") /\ UNCHANGED userLeft

-----------------------------------------------------------------------------
(* The command.                                                            *)

HostRests == UNCHANGED <<alive, link, lost>>
OpensWindow(w, s, kind) ==
  /\ w \notin OpenWindows
  /\ \E where \in {"dial"} \cup (IF kind = "bare" THEN {"stopped"} ELSE {}) :  \* no supervisor may start, and none is left
       panes' = [panes EXCEPT ![w] = [sid |-> s, kind |-> kind, where |-> where, rc |-> 0, missing |-> 0]]
Titled(sids) == {s \in sids : \E w \in OpenWindows : panes[w].sid = s}

\* _query_status, and what the user asks for: no more than the host's own list.
Query ==
  /\ at = "idle" /\ ~retried /\ link
  /\ ups' = alive
  /\ at' = IF alive = world.sids THEN "partition" ELSE "poll"
  /\ HostRests /\ UNCHANGED <<panes, userLeft, ownWindows, others, dead, toOpen, retried>>

\* _bring_up_and_requery: the host's bring-up, and the longest list the polls return.
BringUp ==
  /\ at = "poll"
  /\ \/ /\ link /\ \E new \in SUBSET (world.sids \ alive) : alive' = alive \cup new
        /\ ups' = IF Cardinality(alive') >= Cardinality(ups) THEN alive' ELSE ups
        /\ at' \in {"poll", "partition"}
     \/ at' = "partition" /\ UNCHANGED <<alive, ups>>
  /\ UNCHANGED <<link, lost, panes, userLeft, ownWindows, others, dead, toOpen, retried>>

Partition ==
  /\ at = "partition" /\ ups # {} /\ at' = "scan"
  /\ ownWindows' = Titled(ups) /\ others' = Titled(Sid) \ ups
  /\ HostRests /\ UNCHANGED <<panes, userLeft, ups, dead, toOpen, retried>>

\* _attach_markers: the client's command line names the session. A bare `cd ... && agent` does not.
Marked_BySsh(w) == w \in OpenWindows /\ panes[w].where \in {"dial", "attached", "picker"} /\ panes[w].kind # "nomux"
Marked(w) == Lives(w) /\ panes[w].kind # "nomux"

\* _corpses of _dead_sids; a scan that could not run finds nothing.
Corpses(sids) == {s \in sids : ~\E w \in Win : Marked(w) /\ panes[w].sid = s}
Scan ==
  /\ at \in {"scan", "rescan"} /\ at' = IF at = "scan" THEN "close" ELSE "reclose"
  /\ dead' \in {{}, Corpses(IF at = "scan" THEN ownWindows \cup others ELSE Titled(ups))}
  /\ HostRests /\ UNCHANGED <<panes, userLeft, ups, ownWindows, others, toOpen, retried>>

\* _close_windows: one window of each, in a fresh snapshot; some may refuse.
Closing(sids, shut) ==
  /\ shut \subseteq OpenWindows /\ \A w \in shut : panes[w].sid \in sids
  /\ \A v, w \in shut : panes[v].sid = panes[w].sid => v = w
  /\ panes' = [w \in Win |-> IF w \in shut THEN NoWindow ELSE panes[w]]
  /\ userLeft' = userLeft \ shut

\* _sweep_dead_windows, _repair_corpses: what it closed of its own it opens again.
Sweep ==
  /\ at \in {"close", "reclose"} /\ at' = "spawn"
  /\ \E shut \in SUBSET Win :
       /\ Closing(dead, shut)
       /\ LET closed == {panes[w].sid : w \in shut} IN
            toOpen' = IF at = "close" THEN ups \ (ownWindows \ closed) ELSE closed \cap ups
  /\ dead' = {} /\ ownWindows' = {} /\ others' = {}
  /\ retried' = (at = "reclose")
  /\ HostRests /\ UNCHANGED ups

\* _spawn_windows; then the grid settles, and the command looks once more, or is done.
Spawn(w) ==
  /\ at = "spawn"
  /\ \E s \in toOpen, kind \in {"supervised", "bare"} : OpensWindow(w, s, kind) /\ toOpen' = toOpen \ {s}
  /\ HostRests /\ UNCHANGED <<at, userLeft, ups, ownWindows, others, dead, retried>>
Settle ==
  /\ at = "spawn" /\ (toOpen = {} \/ OpenWindows = world.wins) /\ toOpen' = {}
  /\ at' = (IF retried THEN "idle" ELSE "rescan")
  /\ retried' = FALSE /\ ups' = (IF retried THEN {} ELSE ups)
  /\ HostRests /\ UNCHANGED <<panes, userLeft, ownWindows, others, dead>>

\* _attach_nomux: a window per project that has none of that title.
NoMux(w) ==
  /\ world.nomux /\ at = "idle" /\ link
  /\ \E s \in world.sids \ Titled(Sid) : OpensWindow(w, s, "nomux")
  /\ HostRests /\ UNCHANGED <<userLeft, cmdvars>>

\* _remote_down: the windows first, then the sessions on the host.
Down ==
  /\ world.downs
  /\ \/ at = "idle" /\ at' = "down" /\ (\E shut \in SUBSET OpenWindows : Closing(Sid, shut)) /\ UNCHANGED <<alive, lost>>
     \/ /\ at = "down" /\ at' = "idle" /\ UNCHANGED <<panes, userLeft>>
        /\ \/ link /\ alive' = {} /\ lost' = Sid
           \/ UNCHANGED <<alive, lost>>
  /\ UNCHANGED <<link, ups, ownWindows, others, dead, toOpen, retried>>

AttachStart ==
  /\ alive = world.sids /\ link = TRUE /\ userLeft = {} /\ lost = {} /\ panes = [w \in Win |-> NoWindow]
  /\ at = "idle" /\ ups = {} /\ ownWindows = {} /\ others = {} /\ dead = {} /\ toOpen = {} /\ retried = FALSE

AttachInit == world \in AttachSetups /\ AttachStart

AttachNext ==
  /\ UNCHANGED world
  /\ \/ LinkFlaps \/ (\E s \in world.sids : SessionEnds(s) \/ SessionReturns(s))
     \/ \E w \in world.wins : Leaves(w) \/ CloseIt(w) \/ Dial(w) \/ Drops(w) \/ Supervise(w) \/ Redials(w) \/ Spawn(w) \/ NoMux(w)
     \/ Query \/ BringUp \/ Partition \/ Scan \/ Sweep \/ Settle \/ Down

AttachSpec == AttachInit /\ [][AttachNext]_attachvars

-----------------------------------------------------------------------------
(* The sweep closes no window with a client running in it: not one that    *)
(* waits out an outage, not one of a session off the command's list        *)
(* (_corpses, _sweep_dead_windows). A --no-mux window is the exception.    *)
LivePanesAreSpared ==
  [][Sweep => \A w \in Win : Lives(w) /\ panes[w].kind # "nomux" => panes'[w] # NoWindow]_attachvars

(* A supervised pane whose session never went and whose user never left    *)
(* does not stop, whatever the link does to its dials and its checks       *)
(* (attach_client.supervise, verdict): it is attached, or on its way.      *)
OutagesStopNoPane ==
  \A w \in OpenWindows : panes[w].kind = "supervised" /\ w \notin userLeft /\ panes[w].sid \notin lost => panes[w].where # "stopped"

(* Both: neither a sweep nor an outage takes a pane from its user.         *)
PanesAreKept == LivePanesAreSpared /\ []OutagesStopNoPane
=============================================================================
