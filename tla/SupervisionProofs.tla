-------------------------- MODULE SupervisionProofs --------------------------
(***************************************************************************)
(* For any number of pids: unless a serve may have the tailnet address and *)
(* another loopback alone, one serve is at work and the pid file names it. *)
(* And `down --all` of a settled machine is final when the probe tells the *)
(* truth, no other program takes the port and nothing crashes meanwhile.   *)
(* For any number of panes: the idle reaper of a serve ends no agent that  *)
(* a single honest signal shows at work, and leaves no agent running under *)
(* a parked record. However pids are reused, its kills land on the agent   *)
(* and on what the agent made, and a "stopped" is true and stays true.     *)
(* For any sessions and any number of commands: a bring-up ends no agent   *)
(* and types into none, and what the commands say of a session is true.    *)
(***************************************************************************)
EXTENDS Supervision, Parking, AgentStop, Sessions, Integers, FiniteSetTheorems, TLAPS

(* Of NamesAssumption the proofs need no more than this.                   *)
LEMMA NobodyElse == Nobody \notin Proc /\ Foreign \notin Proc /\ Nobody # Foreign
<1>1. Nobody \notin Proc /\ Foreign \notin Proc
  BY NamesAssumption
<1>2. Nobody # Foreign
  <2> SUFFICES ASSUME Nobody = Foreign PROVE FALSE
    OBVIOUS
  <2>1. {Nobody, Foreign} = {Nobody}
    OBVIOUS
  <2>2. Cardinality({Nobody}) = 1
    BY FS_Singleton, Zenon
  <2>3. QED
    BY <2>1, <2>2, NamesAssumption
<1>3. QED
  BY <1>1, <1>2

(* Where no two serves can share the port by choice, every serve that is   *)
(* bound has this address: it goes round the other only where that one is  *)
(* missing, or was not asked for.                                          *)
Key == IF Tailless THEN Loopback ELSE Tailnet

ServeTypes ==
  /\ liberty \in Liberties
  /\ st \in [Proc -> Living \cup {"free"}]
  /\ addrs \in [Proc -> SUBSET Address]
  /\ holder \in [Address -> Proc \cup {Nobody, Foreign}]
  /\ pidFile \in Proc \cup {Nobody}
  /\ daemon \in {"off", "starting", "up"}
  /\ hb \in {"none", "fresh", "stale"}
  /\ down \in {"rest", "daemon", "server", "listener", "done"}

(* An address is held by a process that still has its sockets open.        *)
HoldersLive ==
  \A a \in Address : holder[a] \in Proc => st[holder[a]] \in {"binding", "bound", "serving"}

KeyIsHeld ==
  ~TwoByChoice => \A p \in Proc :
    /\ st[p] \in {"bound", "serving"} => holder[Key] = p
    /\ st[p] = "binding" => holder[Key] = p \/ Key \in addrs[p]

(* What each phase of `down --all` finds: nothing that is just starting,   *)
(* and nothing that would start again what it has stopped.                 *)
Calm == liberty \cap {"abrupt", "busy", "foreign"} = {} /\ ~TwoByChoice
DownClears ==
  Calm =>
    /\ down \in {"daemon", "server"} =>
         /\ \A p \in Proc : st[p] \in {"free", "serving"}
         /\ holder[Loopback] \in Proc
         /\ daemon # "starting" /\ (daemon = "off" => hb = "none")
    /\ down \in {"listener", "done"} => \A p \in Proc : st[p] = "free"
    /\ down \in {"server", "listener", "done"} => daemon = "off" /\ hb = "none"
    /\ down = "done" => listener = "off"

IInv == ServeTypes /\ HoldersLive /\ KeyIsHeld /\ RecordNamesTheServer /\ DownClears

LEMMA InitIInv == Init => IInv
  BY NobodyElse DEF Init, IInv, ServeTypes, HoldersLive, KeyIsHeld, RecordNamesTheServer, Serving, DownClears,
         Living, Address, Loopback, Tailnet

LEMMA NextIInv == IInv /\ [Next]_allvars => IInv'
<1> SUFFICES ASSUME IInv, [Next]_allvars PROVE IInv'
  OBVIOUS
<1>0. UNCHANGED liberty
  BY DEF Next, allvars
<1> USE <1>0, NobodyElse DEF IInv, ServeTypes, HoldersLive, KeyIsHeld, RecordNamesTheServer, Serving,
        DownClears, Calm, Key, TwoByChoice, Tailless, OwnHost, Busy, ForeignComes, Abrupt,
        Living, Address, Loopback, Tailnet, serve, attention, ClosesAll, Ends
<1>1. ASSUME NEW p \in Proc, BindsOne(p) PROVE IInv'
  BY <1>1 DEF BindsOne, Turn
<1>2. ASSUME NEW p \in Proc, PortInUse(p) PROVE IInv'
  BY <1>2 DEF PortInUse, Turn
<1>3. ASSUME NEW p \in Proc, Unbindable(p) PROVE IInv'
  BY <1>3 DEF Unbindable, Turn, Holds
<1>4. ASSUME NEW p \in Proc, Records(p) PROVE IInv'
  BY <1>4 DEF Records
<1>5. ASSUME NEW p \in Proc, Closing(p) PROVE IInv'
  BY <1>5 DEF Closing
<1>6. ASSUME NEW p \in Proc, Closed(p) PROVE IInv'
  BY <1>6 DEF Closed
<1>7. ASSUME NEW p \in Proc, Killed(p) PROVE IInv'
  BY <1>7 DEF Killed
<1>8. ASSUME RecordCleared PROVE IInv'
  BY <1>8 DEF RecordCleared
<1>9. ASSUME NEW a \in Address, ForeignTakes(a) \/ ForeignLeaves(a) PROVE IInv'
  BY <1>9 DEF ForeignTakes, ForeignLeaves
<1>10. ASSUME NEW p \in Proc, Ensure(p) PROVE IInv'
  BY <1>10 DEF Ensure, SpawnDefault, Spawn, Unused
<1>11. ASSUME NEW p \in Proc, HumanServes(p) PROVE IInv'
  BY <1>11 DEF HumanServes, Spawn, Unused
<1>12. ASSUME NEW p \in Proc, Revive(p) PROVE IInv'
  BY <1>12 DEF Revive, SpawnDefault, Spawn, Unused, MayLookDead, Answers
<1>13. ASSUME ReviveFails \/ CooldownOver \/ WindowOver PROVE IInv'
  BY <1>13 DEF ReviveFails, CooldownOver, WindowOver
<1>14. ASSUME DaemonLaunched \/ DaemonUp \/ DaemonCrashes \/ HeartbeatAges PROVE IInv'
  BY <1>14 DEF DaemonLaunched, DaemonUp, DaemonCrashes, HeartbeatAges
<1>15. ASSUME NEW p \in Proc, DaemonRevived(p) \/ CoolingOver(p) \/ ListenerStarted(p) PROVE IInv'
  BY <1>15 DEF DaemonRevived, CoolingOver, ListenerStarted
<1>16. ASSUME Down \/ DownDaemon \/ DownListener \/ ListenerDies PROVE IInv'
  BY <1>16 DEF Down, Settled, DownDaemon, DownListener, ListenerDies
<1>17. ASSUME DownServer PROVE IInv'
  BY <1>17 DEF DownServer
<1>18. CASE UNCHANGED allvars
  BY <1>18 DEF allvars, vars
<1>19. QED
  BY <1>1, <1>2, <1>3, <1>4, <1>5, <1>6, <1>7, <1>8, <1>9, <1>10, <1>11, <1>12,
     <1>13, <1>14, <1>15, <1>16, <1>17, <1>18 DEF Next, Starts, Supervises, DownStep

(* The serve at work is on record, so `status` and `down` find it; and a   *)
(* `down --all` leaves nothing that brings anything back (run_server and   *)
(* cli/status.down_cmd).                                                   *)
THEOREM ServeIsAccountedHolds == Spec => []ServeIsAccounted
<1>1. IInv => ServeIsAccounted
  BY DEF IInv, ServeIsAccounted, DownStays, DownClears, Calm, Serving
<1>2. QED
  BY <1>1, InitIInv, NextIInv, PTL DEF Spec

(* One port, one server: with the address every serve needs, two are one.  *)
THEOREM OneServerAlways == Spec => []OneServer
<1>1. IInv => OneServer
  <2> SUFFICES ASSUME IInv, ~TwoByChoice PROVE Cardinality(Serving) <= 1
    BY DEF OneServer
  <2>1. \A p \in Serving : p = pidFile
    BY DEF IInv, RecordNamesTheServer
  <2>2. CASE Serving = {}
    BY <2>2, FS_EmptySet
  <2>3. CASE Serving # {}
    <3>1. Serving = {pidFile}
      BY <2>1, <2>3
    <3>2. Cardinality(Serving) = 1
      BY <3>1, FS_Singleton, Zenon
    <3>3. QED
      BY <3>2
  <2>4. QED
    BY <2>2, <2>3
<1>2. QED
  BY <1>1, InitIInv, NextIInv, PTL DEF Spec

-----------------------------------------------------------------------------
(* Parking: the record, the sweep and the revive.                          *)

Announced(a, t, h, r, lost) ==
  \/ lost \/ a = 0 \/ h # "none" \/ r = NoRecord \/ t = "idle" \/ r.state \notin {"done", "idle"}
HookFits(a, t, h) ==
  \/ a = 0
  \/ /\ h \in {"prompt", "tool"} => t = "busy"
     /\ h = "needs" => t = "blocked"
     /\ h = "chores" => t = "chores"
     /\ h \in {"stop", "start"} => t = "idle"
SpareIsNotParked(a, h, r) == r # NoRecord /\ r.state = "parked" => a = 0 \/ h # "none"

\* A pane: who is busy is not quiet, a hook tells of the turn the agent is in, and what a hook told stands until the next one.
PaneKnows(a, t, q, h, r, lost, overlap) ==
  /\ a = 0 => t = "idle"
  /\ t = "busy" => q = 0
  /\ HookFits(a, t, h) /\ Announced(a, t, h, r, lost)
  /\ overlap \/ lost \/ SpareIsNotParked(a, h, r)
PaneOK(p) == PaneKnows(agent[p], turn[p], quiet[p], hook[p], record[p], "record" \in setup.lies, setup.together)

\* A park: its agent has ended before the record is written, and no revive is at its pane.
Parks(at) == at \in {"stop", "reset", "record"}
ParkOK ==
  /\ Parks(reaper) => seen.pane \in Pane
  /\ DOMAIN revive = {"at", "pane", "talk"} /\ (revive.at # "none" => revive.pane \in Pane)
  /\ ~setup.together /\ reaper \in {"reset", "record"} => agent[seen.pane] = 0
  /\ ~setup.together /\ Parks(reaper) /\ revive.at # "none" => revive.pane # seen.pane

ParkDomains == DOMAIN agent = Pane /\ DOMAIN turn = Pane /\ DOMAIN quiet = Pane /\ DOMAIN hook = Pane /\ DOMAIN record = Pane /\ DOMAIN draft = Pane
ParkInv == ParkDomains /\ ParkOK /\ \A p \in Pane : PaneOK(p)

-----------------------------------------------------------------------------

\* A step at one pane's agent leaves what is known of the others.
AtPane(p) ==
  \A q \in Pane : q # p => agent'[q] = agent[q] /\ turn'[q] = turn[q] /\ quiet'[q] = quiet[q] /\ hook'[q] = hook[q] /\ record'[q] = record[q]

LEMMA OthersStand == ASSUME ParkInv, NEW p \in Pane, AtPane(p), UNCHANGED setup, PaneOK(p)' PROVE \A q \in Pane : PaneOK(q)'
<1> TAKE q \in Pane
<1>1. CASE q = p
  BY <1>1
<1>2. CASE q # p
  BY <1>2 DEF AtPane, PaneOK, ParkInv
<1> QED
  BY <1>1, <1>2

\* A step of the reaper or a revive that touches no pane.
LEMMA NonePaneMoves == ASSUME ParkInv, UNCHANGED <<agent, turn, quiet, hook, record, draft, setup>>, ParkOK' PROVE ParkInv'
<1>1. ParkDomains'
  BY DEF ParkInv, ParkDomains
<1>2. \A q \in Pane : PaneOK(q)'
  BY DEF ParkInv, PaneOK
<1> QED
  BY <1>1, <1>2 DEF ParkInv

\* An agent does something, and its hook tells of it.
LEMMA EventKeeps ==
  ASSUME ParkInv, NEW p \in Pane, NEW t, NEW d, NEW h, Acts(p), Event(p, t, d, h), UNCHANGED setup, h # "none", HookFits(agent[p], t, h)
  PROVE  ParkInv'
<1>1. /\ UNCHANGED <<agent, record, reaper, seen, revive>> /\ turn' = [turn EXCEPT ![p] = t] /\ hook' = [hook EXCEPT ![p] = h]
      /\ draft' = [draft EXCEPT ![p] = d] /\ quiet' = [quiet EXCEPT ![p] = 0]
  BY DEF Event, sweep
<1>2. ParkDomains' /\ AtPane(p) /\ turn'[p] = t /\ hook'[p] = h /\ quiet'[p] = 0
  BY <1>1 DEF ParkInv, ParkDomains, AtPane
<1>3. ParkOK'
  BY <1>1 DEF ParkInv, ParkOK, Parks
<1>4. PaneOK(p)'
  BY <1>1, <1>2 DEF PaneOK, PaneKnows, Acts, Announced, SpareIsNotParked
<1> QED
  BY <1>2, <1>3, <1>4, OthersStand DEF ParkInv

LEMMA AgentKeeps ==
  ASSUME ParkInv, NEW p \in Pane, Prompt(p) \/ Tool(p) \/ Blocks(p) \/ TurnEnds(p), UNCHANGED setup
  PROVE  ParkInv'
<1>1. CASE Prompt(p)
  BY <1>1, EventKeeps DEF Prompt, HookFits
<1>2. CASE Tool(p)
  BY <1>2, EventKeeps DEF Tool, HookFits
<1>3. CASE Blocks(p)
  BY <1>3, EventKeeps DEF Blocks, HookFits
<1>4. CASE TurnEnds(p)
  BY <1>4, EventKeeps DEF TurnEnds, HookFits
<1> QED
  BY <1>1, <1>2, <1>3, <1>4

LEMMA DraftsKeeps == ASSUME ParkInv, NEW p \in Pane, Drafts(p), UNCHANGED setup PROVE ParkInv'
<1>1. UNCHANGED <<agent, turn, quiet, hook, record, reaper, seen, revive>> /\ draft' = [draft EXCEPT ![p] = TRUE]
  BY DEF Drafts, sweep
<1>2. ParkDomains' /\ ParkOK' /\ AtPane(p) /\ PaneOK(p)'
  BY <1>1 DEF ParkInv, ParkDomains, ParkOK, Parks, AtPane, PaneOK
<1> QED
  BY <1>2, OthersStand DEF ParkInv

LEMMA QuitsKeeps == ASSUME ParkInv, NEW p \in Pane, Quits(p), UNCHANGED setup PROVE ParkInv'
<1>1. /\ UNCHANGED <<record, reaper, seen, revive>> /\ agent' = [agent EXCEPT ![p] = 0] /\ turn' = [turn EXCEPT ![p] = "idle"]
      /\ draft' = [draft EXCEPT ![p] = FALSE] /\ quiet' = [quiet EXCEPT ![p] = 0] /\ hook' = [hook EXCEPT ![p] = "end"]
  BY DEF Quits, AgentEnds, sweep
<1>2. ParkDomains' /\ AtPane(p) /\ agent'[p] = 0 /\ turn'[p] = "idle"
  BY <1>1 DEF ParkInv, ParkDomains, AtPane
<1>3. ParkOK'
  BY <1>1 DEF ParkInv, ParkDomains, ParkOK, Parks
<1>4. PaneOK(p)'
  BY <1>2 DEF PaneOK, PaneKnows, HookFits, Announced, SpareIsNotParked
<1> QED
  BY <1>2, <1>3, <1>4, OthersStand DEF ParkInv

\* An agent starts in a bare shell, by hand or by a revive.
LEMMA StartsKeeps ==
  ASSUME ParkInv, NEW p \in Pane, NEW t, AgentStarts(p, t), agent[p] = 0, UNCHANGED <<record, reaper, seen, setup>>,
         ~setup.together => ~(Parks(reaper) /\ seen.pane = p),
         DOMAIN revive' = {"at", "pane", "talk"}, revive'.at # "none" => revive.at # "none" /\ revive'.pane = revive.pane
  PROVE  ParkInv'
<1>1. /\ UNCHANGED <<turn, draft, quiet>> /\ agent' = [agent EXCEPT ![p] = starts + 1] /\ hook' = [hook EXCEPT ![p] = "start"]
  BY DEF AgentStarts
<1>2. ParkDomains' /\ AtPane(p) /\ hook'[p] = "start" /\ turn'[p] = "idle"
  BY <1>1 DEF ParkInv, ParkDomains, AtPane, PaneOK, PaneKnows
<1>3. ParkOK'
  BY <1>1 DEF ParkInv, ParkDomains, ParkOK, Parks
<1>4. PaneOK(p)'
  BY <1>2 DEF PaneOK, PaneKnows, HookFits, Announced, SpareIsNotParked
<1> QED
  BY <1>2, <1>3, <1>4, OthersStand DEF ParkInv

LEMMA ByHandKeeps == ASSUME ParkInv, NEW p \in Pane, ByHand(p), UNCHANGED setup PROVE ParkInv'
<1>1. PICK t \in {0, talk[p]} : AgentStarts(p, t)
  BY DEF ByHand
<1>2. agent[p] = 0 /\ UNCHANGED <<record, reaper, seen, revive>> /\ (~setup.together => ~(Parks(reaper) /\ seen.pane = p))
  BY DEF ByHand, sweep, Apart, Parks
<1>3. DOMAIN revive' = {"at", "pane", "talk"}
  BY <1>2 DEF ParkInv, ParkOK
<1> QED
  BY <1>1, <1>2, <1>3, StartsKeeps

LEMMA TypesKeeps == ASSUME ParkInv, Types, UNCHANGED setup PROVE ParkInv'
<1>1. revive.at # "none" /\ revive.pane \in Pane
  BY DEF Types, ParkInv, ParkOK
<1>2. AgentStarts(revive.pane, revive.talk) /\ agent[revive.pane] = 0 /\ UNCHANGED <<record, reaper, seen>>
  BY DEF Types, sweep
<1>3. ~setup.together => ~(Parks(reaper) /\ seen.pane = revive.pane)
  BY <1>1 DEF ParkInv, ParkOK
<1>4. DOMAIN revive' = {"at", "pane", "talk"} /\ (revive'.at # "none" => revive'.pane = revive.pane)
  BY DEF Types, NoRevive, ParkInv, ParkOK
<1> QED
  BY <1>1, <1>2, <1>3, <1>4, StartsKeeps

\* What a hook writes is of the turn it tells of.
LEMMA HookKeeps == ASSUME ParkInv, NEW p \in Pane, Hook(p), UNCHANGED setup PROVE ParkInv'
<1>1. UNCHANGED <<agent, turn, draft, quiet, reaper, seen, revive>> /\ hook[p] # "none" /\ hook' = [hook EXCEPT ![p] = "none"]
  BY DEF Hook, panes, sweep
<1>2. \/ hook[p] \in {"prompt", "chores", "tool"} /\ DOMAIN record' = Pane /\ record'[p].state = "working"
      \/ hook[p] = "needs" /\ DOMAIN record' = Pane /\ record'[p].state = "needs-input"
      \/ hook[p] = "stop" /\ DOMAIN record' = Pane /\ record'[p].state = "done"
      \/ hook[p] = "start" /\ DOMAIN record' = Pane /\ record'[p].state = "idle"
      \/ hook[p] = "end" /\ DOMAIN record' = Pane /\ record'[p] = NoRecord
      \/ "record" \in setup.lies /\ UNCHANGED record
  <2>1. DOMAIN record = Pane
    BY DEF ParkInv, ParkDomains
  <2>2. CASE hook[p] \in {"prompt", "chores"} /\ Write(p, "working")
    BY <2>1, <2>2 DEF Write
  <2>3. CASE hook[p] = "tool" /\ IF RefreshDue(p) THEN Write(p, "working") ELSE UNCHANGED record
    BY <2>1, <2>3 DEF Write, RefreshDue
  <2>4. CASE hook[p] = "needs" /\ Write(p, "needs-input")
    BY <2>1, <2>4 DEF Write
  <2>5. CASE hook[p] = "stop" /\ Write(p, "done")
    BY <2>1, <2>5 DEF Write
  <2>6. CASE hook[p] = "start" /\ Write(p, "idle")
    BY <2>1, <2>6 DEF Write
  <2>7. CASE hook[p] = "end" /\ record' = [record EXCEPT ![p] = NoRecord]
    BY <2>1, <2>7
  <2>8. CASE Lies("record") /\ UNCHANGED record
    BY <2>8 DEF Lies
  <2> QED
    BY <2>2, <2>3, <2>4, <2>5, <2>6, <2>7, <2>8 DEF Hook
<1>3. \A q \in Pane : q # p => record'[q] = record[q]
  BY DEF Hook, Write, ParkInv, ParkDomains
<1>4. ParkDomains' /\ AtPane(p) /\ hook'[p] = "none"
  BY <1>1, <1>2, <1>3 DEF ParkInv, ParkDomains, AtPane
<1>5. ParkOK'
  BY <1>1 DEF ParkInv, ParkOK, Parks
<1>6. PaneOK(p)
  BY DEF ParkInv
<1>7. PaneOK(p)'
  BY <1>1, <1>2, <1>4, <1>6 DEF PaneOK, PaneKnows, HookFits, Announced, SpareIsNotParked
<1> QED
  BY <1>4, <1>5, <1>7, OthersStand DEF ParkInv

\* Time passes, and an old record is cleared: no record says more than it did.
LEMMA TimeKeeps == ASSUME ParkInv, NEW p \in Pane, Passes(p) \/ Purge(p) \/ Stale(p), UNCHANGED setup PROVE ParkInv'
<1>1. UNCHANGED <<agent, turn, draft, hook, reaper, seen, revive>>
  BY DEF Passes, Purge, Stale, panes, sweep
<1>2. DOMAIN record' = Pane /\ (\A q \in Pane : q # p => record'[q] = record[q]) /\ (record'[p] = NoRecord \/ (record'[p].state = record[p].state /\ record[p] # NoRecord))
  <2>1. DOMAIN record = Pane
    BY DEF ParkInv, ParkDomains
  <2>2. CASE Passes(p)
    <3>1. record' = [record EXCEPT ![p] = Older(record[p])]
      BY <2>2 DEF Passes
    <3>2. Older(record[p]) = NoRecord \/ (Older(record[p]).state = record[p].state /\ record[p] # NoRecord)
      BY DEF Older
    <3> QED
      BY <2>1, <3>1, <3>2
  <2>3. CASE Purge(p)
    BY <2>1, <2>3 DEF Purge
  <2>4. CASE Stale(p)
    BY <2>1, <2>4 DEF Stale
  <2> QED
    BY <2>2, <2>3, <2>4
<1>3. DOMAIN quiet' = Pane /\ (\A q \in Pane : q # p => quiet'[q] = quiet[q]) /\ (turn[p] = "busy" => quiet'[p] = quiet[p])
  BY DEF Passes, Purge, Stale, panes, ParkInv, ParkDomains
<1>4. ParkDomains' /\ AtPane(p)
  BY <1>1, <1>2, <1>3 DEF ParkInv, ParkDomains, AtPane
<1>5. ParkOK'
  BY <1>1 DEF ParkInv, ParkOK, Parks
<1>6. PaneOK(p)
  BY DEF ParkInv
<1>7. PaneOK(p)'
  BY <1>1, <1>2, <1>3, <1>6 DEF PaneOK, PaneKnows, HookFits, Announced, SpareIsNotParked
<1> QED
  BY <1>4, <1>5, <1>7, OthersStand DEF ParkInv

-----------------------------------------------------------------------------
(* The reaper and the revive.                                              *)

LEMMA SweepKeeps ==
  ASSUME ParkInv, Gather \/ (\E p \in Pane : Recheck(p)) \/ SweepEnds \/ Reset \/ Rests \/ Restarts, UNCHANGED setup
  PROVE  ParkInv'
<1>1. UNCHANGED <<agent, turn, quiet, hook, record, draft, revive>>
  BY DEF Gather, Recheck, SweepEnds, Reset, Rests, Restarts, panes
<1>2. ParkOK'
  <2>1. CASE Gather \/ SweepEnds \/ Restarts
    <3>1. reaper' = "sweep" \/ reaper' = "rest"
      BY <2>1 DEF Gather, SweepEnds, Restarts
    <3> QED
      BY <1>1, <3>1 DEF ParkInv, ParkOK, Parks
  <2>4. CASE Rests
    BY <1>1, <2>4 DEF Rests, sweep, ParkInv, ParkOK, Parks
  <2>2. ASSUME NEW p \in Pane, Recheck(p) PROVE ParkOK'
    <3>1. reaper = "sweep" /\ ((seen'.pane = p /\ reaper' = "stop") \/ UNCHANGED <<seen, reaper>>) /\ (~setup.together => revive.at = "none" \/ revive.pane # p)
      BY <2>2 DEF Recheck
    <3> QED
      BY <1>1, <3>1 DEF ParkInv, ParkOK, Parks
  <2>3. CASE Reset
    <3>1. reaper = "reset" /\ reaper' = "record" /\ seen' = seen
      BY <2>3 DEF Reset
    <3> QED
      BY <1>1, <3>1 DEF ParkInv, ParkOK, Parks
  <2> QED
    BY <2>1, <2>2, <2>3, <2>4
<1> QED
  BY <1>1, <1>2, NonePaneMoves

LEMMA StopKeeps == ASSUME ParkInv, Stop, UNCHANGED setup PROVE ParkInv'
<1>1. reaper = "stop" /\ seen.pane \in Pane /\ UNCHANGED <<record, revive>>
  BY DEF Stop, ParkInv, ParkOK, Parks
<1>p. PICK p \in Pane : p = seen.pane
  BY <1>1
<1>2. CASE NotParked /\ UNCHANGED <<panes, hook>>
  <2>1. UNCHANGED <<agent, turn, quiet, hook, draft>> /\ reaper' = "sweep"
    BY <1>2 DEF NotParked, Tried, panes
  <2>2. ParkOK'
    BY <1>1, <2>1 DEF ParkInv, ParkOK, Parks
  <2> QED
    BY <1>1, <2>1, <2>2, NonePaneMoves
<1>3. CASE AgentEnds(p) /\ hook' \in {hook, [hook EXCEPT ![p] = "none"]} /\ reaper' = "reset" /\ UNCHANGED seen
  <2>1. ParkDomains' /\ AtPane(p) /\ agent'[p] = 0 /\ turn'[p] = "idle" /\ quiet'[p] = 0
    BY <1>1, <1>3 DEF AgentEnds, ParkInv, ParkDomains, AtPane
  <2>2. ParkOK'
    BY <1>1, <1>p, <1>3, <2>1 DEF ParkInv, ParkOK, Parks
  <2>3. PaneOK(p)'
    BY <2>1 DEF PaneOK, PaneKnows, HookFits, Announced, SpareIsNotParked
  <2> QED
    BY <1>1, <2>1, <2>2, <2>3, OthersStand DEF ParkInv
<1> QED
  BY <1>p, <1>2, <1>3 DEF Stop

\* Without an overlap the record says parked of an agent that has ended.
LEMMA ParkKeeps == ASSUME ParkInv, Park, UNCHANGED setup PROVE ParkInv'
<1>1. reaper = "record" /\ seen.pane \in Pane /\ UNCHANGED <<agent, turn, quiet, hook, draft, revive>> /\ reaper' = "sweep"
  BY DEF Park, Tried, panes, ParkInv, ParkOK, Parks
<1>2. ParkOK'
  BY <1>1 DEF ParkInv, ParkOK, Parks
<1>3. CASE UNCHANGED record
  BY <1>1, <1>2, <1>3, NonePaneMoves
<1>4. CASE record' = [record EXCEPT ![seen.pane] = [state |-> "parked", talk |-> seen.talk, at |-> starts, age |-> 0]]
  <2>p. PICK p \in Pane : p = seen.pane
    BY <1>1
  <2>1. ParkDomains' /\ AtPane(p) /\ record'[p].state = "parked"
    BY <1>1, <1>4, <2>p DEF ParkInv, ParkDomains, AtPane
  <2>2. PaneOK(p) /\ (~setup.together => agent[p] = 0)
    BY <1>1, <2>p DEF ParkInv, ParkOK
  <2>3. PaneOK(p)'
    BY <1>1, <2>1, <2>2 DEF PaneOK, PaneKnows, HookFits, Announced, SpareIsNotParked
  <2> QED
    BY <1>1, <1>2, <2>1, <2>3, OthersStand DEF ParkInv
<1> QED
  BY <1>3, <1>4 DEF Park

LEMMA ReviveKeeps ==
  ASSUME ParkInv, (\E p \in Pane, byHand \in BOOLEAN : Look(p, byHand)) \/ GivesUp \/ Clears, UNCHANGED setup
  PROVE  ParkInv'
<1>1. CASE \E p \in Pane, byHand \in BOOLEAN : Look(p, byHand)
  <2>1. PICK p \in Pane, byHand \in BOOLEAN : Look(p, byHand)
    BY <1>1
  <2>2. UNCHANGED <<agent, turn, quiet, hook, record, draft, reaper, seen>> /\ DOMAIN revive' = {"at", "pane", "talk"} /\ revive'.pane = p
        /\ (~setup.together => ~(Parks(reaper) /\ seen.pane = p))
    BY <2>1 DEF Look, panes, sweep, Apart, Parks
  <2>3. ParkOK'
    BY <2>2 DEF ParkInv, ParkOK, Parks
  <2> QED
    BY <2>2, <2>3, NonePaneMoves
<1>2. CASE GivesUp
  <2>1. UNCHANGED <<agent, turn, quiet, hook, record, draft, reaper, seen>> /\ DOMAIN revive' = {"at", "pane", "talk"} /\ revive'.at = "none"
    BY <1>2 DEF GivesUp, panes, sweep, NoRevive
  <2>2. ParkOK'
    BY <2>1 DEF ParkInv, ParkOK, Parks
  <2> QED
    BY <2>1, <2>2, NonePaneMoves
<1>3. CASE Clears
  <2>1. /\ UNCHANGED <<agent, turn, quiet, hook, draft, reaper, seen>> /\ DOMAIN revive' = {"at", "pane", "talk"} /\ revive'.at = "none"
        /\ revive.pane \in Pane /\ record' = [record EXCEPT ![revive.pane] = NoRecord]
    BY <1>3 DEF Clears, panes, sweep, NoRevive, ParkInv, ParkOK
  <2>2. ParkOK' /\ ParkDomains' /\ AtPane(revive.pane) /\ record'[revive.pane] = NoRecord
    BY <2>1 DEF ParkInv, ParkOK, Parks, ParkDomains, AtPane
  <2>3. ASSUME NEW q \in Pane PROVE PaneOK(q)'
    <3>1. PaneOK(q) /\ (record'[q] = record[q] \/ record'[q] = NoRecord)
      BY <2>1, <2>2 DEF ParkInv, AtPane
    <3> QED
      BY <2>1, <3>1 DEF PaneOK, PaneKnows, HookFits, Announced, SpareIsNotParked
  <2> QED
    BY <2>2, <2>3 DEF ParkInv
<1> QED
  BY <1>1, <1>2, <1>3

-----------------------------------------------------------------------------

LEMMA ParkInvInit == ParkingInit => ParkInv
<1> SUFFICES ASSUME ParkingInit PROVE ParkInv
  OBVIOUS
<1>1. PICK n \in [Pane -> 0..Cardinality(setup.open)] :
        /\ agent = n
        /\ record = [p \in Pane |-> IF p \in setup.open THEN [state |-> "done", talk |-> n[p], at |-> n[p], age |-> 0] ELSE NoRecord]
  BY DEF ParkingInit, ParkingStart
<1>2. \A p \in Pane : turn[p] = "idle" /\ quiet[p] = 0 /\ hook[p] = "none" /\ (record[p] = NoRecord \/ record[p].state = "done")
  BY <1>1 DEF ParkingInit, ParkingStart
<1>3. ParkDomains
  BY <1>1 DEF ParkingInit, ParkingStart, ParkDomains
<1>4. ParkOK
  BY DEF ParkingInit, ParkingStart, ParkOK, Parks, NoRevive
<1>5. \A p \in Pane : PaneOK(p)
  BY <1>2 DEF PaneOK, PaneKnows, HookFits, Announced, SpareIsNotParked
<1> QED
  BY <1>3, <1>4, <1>5 DEF ParkInv

LEMMA ParkInvNext == ParkInv /\ [ParkingNext]_parkvars => ParkInv'
<1> SUFFICES ASSUME ParkInv, [ParkingNext]_parkvars PROVE ParkInv'
  OBVIOUS
<1>1. CASE UNCHANGED parkvars
  <2>1. UNCHANGED <<agent, turn, quiet, hook, record, draft, setup, reaper, seen, revive>>
    BY <1>1 DEF parkvars, panes, sweep
  <2>2. ParkOK'
    BY <2>1 DEF ParkInv, ParkOK, Parks
  <2> QED
    BY <2>1, <2>2, NonePaneMoves
<1>2. ASSUME NEW p \in Pane, Person(p), UNCHANGED setup PROVE ParkInv'
  <2>1. CASE Prompt(p) \/ Tool(p) \/ Blocks(p) \/ TurnEnds(p)
    BY <1>2, <2>1, AgentKeeps
  <2>2. CASE Drafts(p)
    BY <1>2, <2>2, DraftsKeeps
  <2>3. CASE Quits(p)
    BY <1>2, <2>3, QuitsKeeps
  <2>4. CASE ByHand(p)
    BY <1>2, <2>4, ByHandKeeps
  <2>5. CASE \E byHand \in BOOLEAN : Look(p, byHand)
    BY <1>2, <2>5, ReviveKeeps
  <2> QED
    BY <1>2, <2>1, <2>2, <2>3, <2>4, <2>5 DEF Person
<1>3. ASSUME NEW p \in Pane, Hook(p) \/ Passes(p) \/ Stale(p) \/ Purge(p), UNCHANGED setup PROVE ParkInv'
  BY <1>3, HookKeeps, TimeKeeps
<1>4. ASSUME Reaper \/ Rests \/ Restarts, UNCHANGED setup PROVE ParkInv'
  BY <1>4, SweepKeeps, StopKeeps, ParkKeeps DEF Reaper
<1>5. ASSUME Types \/ Clears \/ GivesUp, UNCHANGED setup PROVE ParkInv'
  BY <1>5, TypesKeeps, ReviveKeeps
<1> QED
  BY <1>1, <1>2, <1>3, <1>4, <1>5 DEF ParkingNext

\* A step to the kill is a re-read that every signal lets pass.
LEMMA SignalsTell ==
  ASSUME ParkInv, [ParkingNext]_parkvars, NEW p \in Pane, reaper = "sweep", reaper' = "stop", seen'.pane = p, hook[p] = "none",
         NEW telltale \in Telltales(p)
  PROVE  telltale \subseteq setup.lies
<1>1. \E q \in Pane : Recheck(q)
  BY DEF ParkingNext, parkvars, sweep, panes, Person, Prompt, Tool, Blocks, TurnEnds, Event, Drafts, Quits, ByHand, Look, Hook, Passes, Stale, Purge, Reaper,
     Gather, SweepEnds, Stop, Reset, Park, Rests, Restarts, Types, Clears, GivesUp
<1>2. Reapable(p)
  BY <1>1 DEF Recheck, Unchanged
<1>3. /\ agent[p] # 0 /\ record[p] # NoRecord /\ record[p].state \in {"done", "idle"}
      /\ Lies("status") \/ (turn[p] \in {"idle", "chores"} /\ quiet[p] > 0)
      /\ Lies("transcript") \/ quiet[p] > 0
      /\ Lies("pane") \/ (turn[p] \in {"idle", "chores"} /\ ~draft[p])
  BY <1>2 DEF Reapable, Signals
<1>4. PaneOK(p)
  BY DEF ParkInv
<1>5. turn[p] # "idle" => Lies("record")
  BY <1>3, <1>4 DEF PaneOK, PaneKnows, Announced, Lies
<1>6. turn[p] = "busy" => Lies("transcript")
  BY <1>3, <1>4 DEF PaneOK, PaneKnows
<1>7. CASE turn[p] = "busy" /\ telltale = {"status", "record", "transcript", "pane"}
  BY <1>3, <1>5, <1>6, <1>7 DEF Lies
<1>8. CASE turn[p] = "blocked" /\ telltale = {"status", "record", "pane"}
  BY <1>3, <1>5, <1>8 DEF Lies
<1>9. CASE turn[p] = "chores" /\ telltale = {"record"}
  BY <1>5, <1>9 DEF Lies
<1>10. CASE draft[p] /\ telltale = {"pane"}
  BY <1>3, <1>10 DEF Lies
<1> QED
  BY <1>7, <1>8, <1>9, <1>10 DEF Telltales

(* An agent is ended only when every signal that could tell its work from  *)
(* an end is wrong; and none that its hooks have announced runs under a    *)
(* record that says parked, unless a revive overlaps the park: for any     *)
(* number of panes and of agents per sweep.                                *)
THEOREM ParkingIsHonestHolds == ParkingSpec => ParkingIsHonest
<1>1. ParkInv => ParkedIsNotRunning
  BY DEF ParkInv, PaneOK, PaneKnows, SpareIsNotParked, ParkedIsNotRunning, Lies
<1>2. ParkInv /\ [ParkingNext]_parkvars =>
        [\A p \in Pane : reaper = "sweep" /\ reaper' = "stop" /\ seen'.pane = p /\ hook[p] = "none" =>
           \A telltale \in Telltales(p) : telltale \subseteq setup.lies]_parkvars
  BY SignalsTell
<1> QED
  BY <1>1, <1>2, ParkInvInit, ParkInvNext, PTL DEF ParkingSpec, ParkingIsHonest, AnyHonestSignalSpares

-----------------------------------------------------------------------------
(* A stop on a machine where pids are reused between any two reads.        *)

(* The clock runs ahead of everything that was read of it, or was made.    *)
Clocked ==
  /\ clock \in Nat /\ clock > Born /\ before \in Nat /\ before <= clock /\ read \in Nat /\ read <= clock
  /\ DOMAIN created = Pid /\ DOMAIN kept = Pid /\ DOMAIN held = Pid
  /\ \A p \in Pid : /\ created[p] \in Nat /\ created[p] < clock
                    /\ kept[p] \in Nat /\ kept[p] < clock
                    /\ held[p] \in Nat /\ held[p] <= clock

PidSets ==
  /\ DOMAIN ppid = Pid /\ \A p \in Pid : ppid[p] \in Pid \cup {Elsewhere}
  /\ DOMAIN parent = Pid /\ \A p \in Pid : parent[p] \in Pid \cup {Elsewhere}
  /\ mine \subseteq Pid /\ walked \subseteq Pid /\ killed \subseteq Pid /\ target \in Pid

(* Whoever was made by what is ours, by the process that holds the pid now *)
(* and not by an earlier one, is ours.                                     *)
Descent ==
  /\ created[AgentPid] = Born => AgentPid \in mine
  /\ \A p, q \in Pid : created[p] # 0 /\ created[q] # 0 /\ ppid[p] = q /\ created[q] < created[p] /\ q \in mine
                       => p \in mine

(* The list tells the truth about whoever is older than it.                *)
ListTrue ==
  stopAt \in {"ours", "kill", "strike", "stragglers"} =>
    \A p \in Pid : created[p] # 0 /\ created[p] < before
                   => ppid[p] = parent[p] /\ (p \in servers <=> p \in psmux)

(* While the entries are walked, a kept identity is a walked entry's, the  *)
(* agent's comes first, and nothing was killed.                            *)
Walk ==
  /\ stopAt \in {"start", "snapshot", "ours"} => \A p \in Pid : held[p] = 0
  /\ stopAt \in {"start", "snapshot"} => \A p \in Pid : kept[p] = 0
  /\ stopAt = "ours" => \A p \in Pid : kept[p] # 0 => p \in walked /\ kept[AgentPid] # 0 /\ kept[p] < before

(* Who is proven to be under the agent is ours, if the agent was the one   *)
(* the sweep read, and so is whoever the next entry would prove.           *)
KeptOurs ==
  stopAt = "ours" /\ kept[AgentPid] = Born =>
    /\ \A p \in Pid : kept[p] # 0 /\ created[p] = kept[p] => p \in mine
    /\ \A p \in Pid : /\ created[p] # 0 /\ created[p] < before
                      /\ parent[p] \in Pid /\ kept[parent[p]] # 0 /\ kept[parent[p]] < created[p]
                      => p \in mine

(* Past the refusals, whoever still is what was kept may be killed.        *)
MayStrike ==
  stopAt \in {"kill", "strike"} =>
    /\ \A p \in Pid : kept[p] # 0 /\ created[p] = kept[p] => p \in mine /\ p \notin servers
    /\ stopAt = "strike" => kept[target] # 0

(* The children a killed process had before its kill are ours.             *)
Orphaned ==
  \A p, q \in Pid : created[p] # 0 /\ ppid[p] = q /\ held[q] # 0 /\ kept[q] < created[p] /\ created[p] < held[q]
                    => p \in mine

StopInv == Clocked /\ PidSets /\ Descent /\ ListTrue /\ Walk /\ KeptOurs /\ MayStrike /\ Orphaned

(* What one process more, or one less, does to the machine.                *)
LEMMA MachineSteps ==
  ASSUME StopInv, NEW p \in Pid,
         \/ \E q \in Pid \cup {Elsewhere} : StartsProcess(q, p)
         \/ Exit(p)
         \/ Gone(p) /\ clock' = clock /\ created[p] # 0
  PROVE  /\ DOMAIN created' = Pid /\ DOMAIN ppid' = Pid
         /\ \A a \in Pid \ {p} : created'[a] = created[a] /\ ppid'[a] = ppid[a]
         /\ \A a \in Pid \ {p} : (a \in mine' <=> a \in mine) /\ (a \in servers' <=> a \in servers)
         /\ created'[p] = 0 \/ (created'[p] = clock /\ clock' = clock + 1)
         /\ ppid'[p] \in Pid \cup {Elsewhere} /\ mine' \subseteq Pid
         /\ clock' \in Nat /\ clock <= clock' /\ created'[p] < clock'
         /\ created'[p] # 0 /\ ppid'[p] \in mine => p \in mine'
  <1> USE DEF StopInv, Clocked, PidSets
  <1>1. CASE \E q \in Pid \cup {Elsewhere} : StartsProcess(q, p)
    <2> PICK q \in Pid \cup {Elsewhere} : StartsProcess(q, p)
      BY <1>1
    <2>1. /\ created[p] = 0 /\ (q = Elsewhere \/ (q \in Pid /\ created[q] # 0))
          /\ created' = [created EXCEPT ![p] = clock] /\ clock' = clock + 1
          /\ ppid' = [ppid EXCEPT ![p] = q]
          /\ mine' = IF q \in mine THEN mine \cup {p} ELSE mine \ {p}
          /\ servers' \in {servers \ {p}, servers \cup {p}}
      BY DEF StartsProcess, Occupied, Everyone
    <2> QED
      BY <2>1
  <1>2. CASE Gone(p) /\ clock' \in {clock, clock + 1}
    BY <1>2 DEF Gone, Born
  <1> QED
    BY <1>1, <1>2 DEF Exit

(* A machine step touches nothing the stop has noted, and keeps the        *)
(* invariant: a new process is younger than every note.                    *)
LEMMA MachineKeeps ==
  ASSUME StopInv, NEW p \in Pid,
         \/ \E q \in Pid \cup {Elsewhere} : StartsProcess(q, p)
         \/ Exit(p)
         \/ Gone(p) /\ clock' = clock /\ created[p] # 0
  PROVE  /\ Descent'
         /\ \A a \in Pid : created'[a] # 0 /\ created'[a] < clock => created'[a] = created[a] /\ ppid'[a] = ppid[a]
                             /\ (a \in mine' <=> a \in mine) /\ (a \in servers' <=> a \in servers)
         /\ mine' \subseteq Pid /\ DOMAIN created' = Pid /\ DOMAIN ppid' = Pid
         /\ clock' \in Nat /\ clock <= clock'
         /\ \A a \in Pid : created'[a] \in Nat /\ created'[a] < clock' /\ ppid'[a] \in Pid \cup {Elsewhere}
  <1> USE DEF Clocked, PidSets
  <1>0. Clocked /\ PidSets /\ Descent
    BY DEF StopInv
  <1>1. /\ DOMAIN created' = Pid /\ DOMAIN ppid' = Pid
        /\ \A a \in Pid \ {p} : created'[a] = created[a] /\ ppid'[a] = ppid[a]
        /\ \A a \in Pid \ {p} : (a \in mine' <=> a \in mine) /\ (a \in servers' <=> a \in servers)
        /\ created'[p] = 0 \/ (created'[p] = clock /\ clock' = clock + 1)
        /\ ppid'[p] \in Pid \cup {Elsewhere} /\ mine' \subseteq Pid
        /\ clock' \in Nat /\ clock <= clock' /\ created'[p] < clock'
        /\ created'[p] # 0 /\ ppid'[p] \in mine => p \in mine'
    BY MachineSteps, Zenon
  <1>2. \A a \in Pid : created'[a] \in Nat /\ created'[a] < clock' /\ ppid'[a] \in Pid \cup {Elsewhere}
    BY <1>0, <1>1
  <1>3. created'[AgentPid] = Born => AgentPid \in mine'
    BY <1>0, <1>1, StopAssumption DEF Descent, Born
  <1>4. ASSUME NEW a \in Pid, NEW b \in Pid,
               created'[a] # 0, created'[b] # 0, ppid'[a] = b, created'[b] < created'[a], b \in mine'
        PROVE  a \in mine'
    <2>1. CASE a = p
      BY <1>4, <1>1, <2>1
    <2>2. CASE a # p /\ b # p
      BY <1>4, <1>0, <1>1, <2>2 DEF Descent
    <2>3. CASE a # p /\ b = p
      BY <1>4, <1>0, <1>1, <2>3
    <2> QED
      BY <2>1, <2>2, <2>3
  <1>5. Descent'
    BY <1>3, <1>4 DEF Descent
  <1>6. \A a \in Pid : created'[a] # 0 /\ created'[a] < clock => created'[a] = created[a] /\ ppid'[a] = ppid[a]
                             /\ (a \in mine' <=> a \in mine) /\ (a \in servers' <=> a \in servers)
    BY <1>0, <1>1
  <1> QED
    BY <1>1, <1>2, <1>5, <1>6

(* The notes of the stop, with the machine under them changed.             *)
LEMMA NotesHold ==
  ASSUME StopInv, NEW p \in Pid,
         \/ \E q \in Pid \cup {Elsewhere} : StartsProcess(q, p)
         \/ Exit(p)
         \/ Gone(p) /\ clock' = clock /\ created[p] # 0,
         UNCHANGED <<stopAt, before, snapshot, kept, target, held>>
  PROVE  ListTrue' /\ KeptOurs' /\ MayStrike' /\ Orphaned'
  <1>0. Clocked /\ PidSets /\ ListTrue /\ KeptOurs /\ MayStrike /\ Orphaned
    BY DEF StopInv
  <1>1. /\ \A a \in Pid : created'[a] # 0 /\ created'[a] < clock => created'[a] = created[a] /\ ppid'[a] = ppid[a]
                             /\ (a \in mine' <=> a \in mine) /\ (a \in servers' <=> a \in servers)
        /\ \A a \in Pid : created'[a] \in Nat
    BY MachineKeeps, Zenon
  <1>2. ListTrue'
    BY <1>0, <1>1 DEF ListTrue, Clocked, snapshot
  <1>3. KeptOurs'
    BY <1>0, <1>1 DEF KeptOurs, Clocked, snapshot, Born
  <1>4. MayStrike'
    BY <1>0, <1>1 DEF MayStrike, Clocked
  <1>5. Orphaned'
    BY <1>0, <1>1 DEF Orphaned, Clocked
  <1> QED
    BY <1>2, <1>3, <1>4, <1>5

LEMMA StopInitInv == StopInit => StopInv
  <1> SUFFICES ASSUME StopInit PROVE StopInv
    OBVIOUS
  <1>1. PICK stranger \in SUBSET (Pid \ {AgentPid, ShellPid}), young \in SUBSET (Pid \ {AgentPid, ShellPid}),
             q \in (Pid \cup {Elsewhere}) \ {AgentPid, ShellPid} :
       /\ q \notin stranger /\ stranger \cap young = {}
       /\ created = [p \in Pid |-> CASE p = ShellPid -> 1 [] p \in stranger -> 2 [] p = AgentPid -> Born
                                     [] p \in young -> Born + 1 [] OTHER -> 0]
       /\ ppid = [p \in Pid |-> CASE p = AgentPid -> ShellPid [] p \in young -> AgentPid
                                  [] p \in stranger \cup {ShellPid} -> q [] OTHER -> Elsewhere]
       /\ mine = {AgentPid} \cup young
    BY DEF StopInit
  <1>2. /\ created[ShellPid] = 1 /\ created[AgentPid] = 3 /\ ppid[AgentPid] = ShellPid /\ ppid[ShellPid] = q
        /\ \A p \in stranger : created[p] = 2 /\ ppid[p] = q
        /\ \A p \in young : created[p] = 4 /\ ppid[p] = AgentPid
        /\ \A p \in Pid \ ({AgentPid, ShellPid} \cup stranger \cup young) : created[p] = 0 /\ ppid[p] = Elsewhere
    <2>1. /\ created[ShellPid] = 1 /\ created[AgentPid] = 3 /\ ppid[AgentPid] = ShellPid /\ ppid[ShellPid] = q
      BY <1>1, StopAssumption DEF Born
    <2>2. \A p \in stranger : created[p] = 2 /\ ppid[p] = q
      BY <1>1, StopAssumption
    <2>3. \A p \in young : created[p] = 4 /\ ppid[p] = AgentPid
      BY <1>1, StopAssumption DEF Born
    <2>4. \A p \in Pid \ ({AgentPid, ShellPid} \cup stranger \cup young) : created[p] = 0 /\ ppid[p] = Elsewhere
      BY <1>1, StopAssumption
    <2> QED
      BY <2>1, <2>2, <2>3, <2>4
  <1>3. /\ clock = 5 /\ before = 0 /\ read = 0 /\ stopAt = "start" /\ parent = ppid /\ walked = {} /\ killed = {}
        /\ kept = None /\ held = None /\ target = AgentPid
    BY DEF StopInit, Born
  <1>4. DOMAIN created = Pid /\ DOMAIN ppid = Pid /\ DOMAIN None = Pid /\ \A p \in Pid : None[p] = 0
    BY <1>1 DEF None
  <1>5. \A p \in Pid : created[p] \in 0..4 /\ ppid[p] \in Pid \cup {Elsewhere}
    BY <1>1, <1>2, StopAssumption
  <1>6. Clocked /\ PidSets
    BY <1>1, <1>3, <1>4, <1>5, StopAssumption DEF Clocked, PidSets, Born
  <1>7. ASSUME NEW a \in Pid, NEW b \in Pid, created[a] # 0, ppid[a] = b, created[b] < created[a], b \in mine
        PROVE  a \in mine
    <2>1. CASE b = AgentPid
      BY <1>7, <2>1, <1>1, <1>2, StopAssumption
    <2>2. CASE b \in young
      BY <1>7, <2>2, <1>1, <1>2, StopAssumption
    <2> QED
      BY <1>7, <2>1, <2>2, <1>1
  <1>8. Descent
    BY <1>1, <1>7 DEF Descent
  <1> QED
    BY <1>3, <1>4, <1>6, <1>8 DEF StopInv, ListTrue, Walk, KeptOurs, MayStrike, Orphaned

LEMMA MachineSafe == StopInv /\ Machine => StopInv'
  <1> SUFFICES ASSUME StopInv, Machine PROVE StopInv'
    OBVIOUS
  <1>1. PICK p \in Pid : Exit(p) \/ \E q \in Pid \cup {Elsewhere} : StartsProcess(q, p)
    BY DEF Machine
  <1>2. UNCHANGED <<stopAt, before, snapshot, walked, kept, unknown, target, read, held, killed>>
    BY <1>1, Zenon DEF Exit, StartsProcess
  <1>3. ListTrue' /\ KeptOurs' /\ MayStrike' /\ Orphaned'
    BY <1>1, <1>2, NotesHold
  <1>4. /\ Descent' /\ mine' \subseteq Pid /\ DOMAIN created' = Pid /\ DOMAIN ppid' = Pid
        /\ clock' \in Nat /\ clock <= clock'
        /\ \A a \in Pid : created'[a] \in Nat /\ created'[a] < clock' /\ ppid'[a] \in Pid \cup {Elsewhere}
    BY <1>1, MachineKeeps, Zenon
  <1>5. Clocked'
    BY <1>2, <1>4 DEF StopInv, Clocked, Born
  <1>6. PidSets'
    BY <1>2, <1>4 DEF StopInv, PidSets, snapshot
  <1>7. Walk'
    BY <1>2 DEF StopInv, Walk
  <1> QED
    BY <1>3, <1>4, <1>5, <1>6, <1>7 DEF StopInv

LEMMA ReturnSafe ==
  ASSUME StopInv, NEW result \in {"aborted", "rootAlive", "stopped"}, Return(result), UNCHANGED processes
  PROVE  StopInv'
  <1>1. /\ stopAt' = result /\ before' = 0 /\ read' = 0 /\ target' = AgentPid
        /\ parent' = [p \in Pid |-> Elsewhere] /\ walked' = {} /\ killed' = {}
        /\ kept' = None /\ held' = None /\ DOMAIN None = Pid /\ \A p \in Pid : None[p] = 0
        /\ created' = created /\ ppid' = ppid /\ mine' = mine /\ servers' = servers /\ clock' = clock
    BY DEF Return, None, processes
  <1>2. Clocked'
    BY <1>1 DEF StopInv, Clocked, Born
  <1>3. PidSets'
    BY <1>1, StopAssumption DEF StopInv, PidSets
  <1>4. Descent'
    BY <1>1 DEF StopInv, Descent
  <1>5. ListTrue' /\ Walk' /\ KeptOurs' /\ MayStrike' /\ Orphaned'
    BY <1>1 DEF ListTrue, Walk, KeptOurs, MayStrike, Orphaned
  <1> QED
    BY <1>2, <1>3, <1>4, <1>5 DEF StopInv

LEMMA LooksSafe == StopInv /\ (Bound \/ Snapshot \/ BoundAgain \/ SnapshotAgain) => StopInv'
  <1> SUFFICES ASSUME StopInv, Bound \/ Snapshot \/ BoundAgain \/ SnapshotAgain PROVE StopInv'
    OBVIOUS
  <1>0. Clocked /\ PidSets /\ Descent /\ Walk /\ Orphaned /\ ListTrue
    BY DEF StopInv
  <1>1. CASE Bound
    <2>1. /\ stopAt = "start" /\ stopAt' = "snapshot" /\ before' \in {clock, 0}
          /\ UNCHANGED <<created, ppid, mine, servers, clock, parent, psmux, walked, kept, target, read, held, killed>>
      BY <1>1 DEF Bound, Clock, processes, snapshot
    <2> QED
      BY <2>1, <1>0 DEF StopInv, Clocked, PidSets, Descent, ListTrue, Walk, KeptOurs, MayStrike, Orphaned, Born
  <1>2. CASE Snapshot
    <2>1. CASE Return("aborted") /\ UNCHANGED processes
      BY <2>1, ReturnSafe
    <2>2. CASE ~ (Return("aborted") /\ UNCHANGED processes)
      <3>1. /\ stopAt = "snapshot" /\ stopAt' = "ours" /\ parent' = ppid /\ psmux' = servers
            /\ UNCHANGED <<created, ppid, mine, servers, clock, before, walked, kept, target, read, held, killed>>
        BY <1>2, <2>2 DEF Snapshot, processes
      <3> QED
        BY <3>1, <1>0 DEF StopInv, Clocked, PidSets, Descent, ListTrue, Walk, KeptOurs, MayStrike, Orphaned, Born
    <2> QED
      BY <2>1, <2>2
  <1>3. CASE BoundAgain
    <2>1. /\ stopAt = "kill" /\ stopAt' \in {"confirm", "again"} /\ before' \in {clock, 0} /\ walked' = {}
          /\ UNCHANGED <<created, ppid, mine, servers, clock, parent, psmux, kept, target, read, held, killed>>
      BY <1>3 DEF BoundAgain, Clock, processes, snapshot
    <2> QED
      BY <2>1, <1>0 DEF StopInv, Clocked, PidSets, Descent, ListTrue, Walk, KeptOurs, MayStrike, Orphaned, Born
  <1>4. CASE SnapshotAgain
    <2>1. /\ stopAt = "again" /\ stopAt' = "stragglers" /\ parent' = ppid /\ psmux' = servers
          /\ UNCHANGED <<created, ppid, mine, servers, clock, before, walked, kept, target, read, held, killed>>
      BY <1>4 DEF SnapshotAgain, processes
    <2> QED
      BY <2>1, <1>0 DEF StopInv, Clocked, PidSets, Descent, ListTrue, Walk, KeptOurs, MayStrike, Orphaned, Born
  <1> QED
    BY <1>1, <1>2, <1>3, <1>4

(* An entry that proves itself was made by the process its parent's        *)
(* identity names, and that one was the agent or what it made.             *)
LEMMA OursSafe ==
  ASSUME StopInv, NEW p \in Pid, Ours(p)
  PROVE  StopInv'
  <1>0. Clocked /\ PidSets /\ Descent /\ ListTrue /\ Walk /\ KeptOurs /\ Orphaned
    BY DEF StopInv
  <1>1. /\ stopAt = "ours" /\ stopAt' = "ours" /\ p \notin walked
        /\ p = AgentPid \/ parent[p] \in walked
        /\ walked' = walked \cup {p}
        /\ UNCHANGED <<created, ppid, mine, servers, clock, before, parent, psmux, target, read, held, killed>>
    BY DEF Ours, processes, snapshot
  <1>2. CASE kept' = kept
    BY <1>0, <1>1, <1>2 DEF StopInv, Clocked, PidSets, Descent, ListTrue, Walk, KeptOurs, MayStrike, Orphaned
  <1>3. CASE kept' # kept
    <2>1. /\ kept' = [kept EXCEPT ![p] = created[p]] /\ created[p] # 0 /\ created[p] < before
          /\ p # AgentPid => kept[parent[p]] # 0 /\ created[p] > kept[parent[p]]
      BY <1>3 DEF Ours, Followed, Proven, IdentityReads, Occupied
    <2>2. kept[p] = 0 /\ kept'[p] = created[p] /\ \A a \in Pid \ {p} : kept'[a] = kept[a]
      BY <1>0, <1>1, <2>1 DEF Walk, Clocked
    <2>3. Clocked'
      BY <1>0, <1>1, <2>1, <2>2 DEF Clocked
    <2>4. PidSets' /\ Descent' /\ ListTrue' /\ MayStrike'
      BY <1>0, <1>1 DEF PidSets, Descent, ListTrue, MayStrike
    <2>5. p # AgentPid => parent[p] \in Pid /\ kept[AgentPid] # 0 /\ kept'[AgentPid] = kept[AgentPid]
      BY <1>0, <1>1, <2>1, <2>2, StopAssumption DEF Walk, PidSets
    <2>6. Walk' /\ Orphaned'
      BY <1>0, <1>1, <2>1, <2>2, <2>5, StopAssumption DEF Walk, Orphaned, Clocked
    <2>7. ASSUME kept'[AgentPid] = Born PROVE p \in mine
      <3>1. CASE p = AgentPid
        BY <3>1, <2>7, <2>2, <1>0 DEF Descent
      <3>2. CASE p # AgentPid
        BY <3>2, <2>7, <2>5, <2>1, <1>0, <1>1 DEF KeptOurs
      <3> QED
        BY <3>1, <3>2
    <2>8. ASSUME kept'[AgentPid] = Born, NEW a \in Pid, kept'[a] # 0, created'[a] = kept'[a] PROVE a \in mine'
      <3>1. CASE a = p
        BY <3>1, <2>7, <2>8, <1>1
      <3>2. CASE a # p
        <4>1. kept[a] # 0 /\ created[a] = kept[a] /\ kept[AgentPid] # 0
          BY <3>2, <2>8, <2>2, <1>0, <1>1 DEF Walk
        <4>2. p # AgentPid /\ kept[AgentPid] = Born
          BY <4>1, <2>2, <2>5, <2>8
        <4> QED
          BY <4>1, <4>2, <1>0, <1>1 DEF KeptOurs
      <3> QED
        BY <3>1, <3>2
    <2>9. ASSUME kept'[AgentPid] = Born, NEW a \in Pid, created'[a] # 0, created'[a] < before', parent'[a] \in Pid,
                 kept'[parent'[a]] # 0, kept'[parent'[a]] < created'[a]
          PROVE  a \in mine'
      <3>1. CASE parent[a] = p
        <4>1. ppid[a] = p /\ created[p] < created[a]
          BY <3>1, <2>9, <2>2, <1>0, <1>1 DEF ListTrue
        <4> QED
          BY <4>1, <2>7, <2>9, <2>1, <1>0, <1>1 DEF Descent
      <3>2. CASE parent[a] # p
        <4>1. parent[a] \in Pid /\ kept[parent[a]] # 0 /\ kept[parent[a]] < created[a] /\ created[a] < before
          BY <3>2, <2>9, <2>2, <1>1
        <4>2. p # AgentPid /\ kept[AgentPid] = Born
          BY <4>1, <2>2, <2>5, <2>9, <1>0, <1>1 DEF Walk
        <4> QED
          BY <4>1, <4>2, <2>9, <1>0, <1>1 DEF KeptOurs
      <3> QED
        BY <3>1, <3>2
    <2>10. KeptOurs'
      BY <2>8, <2>9 DEF KeptOurs
    <2> QED
      BY <2>3, <2>4, <2>6, <2>10 DEF StopInv
  <1> QED
    BY <1>2, <1>3

(* The refusals leave only what is the agent's and no psmux server.        *)
LEMMA GuardSafe == StopInv /\ Guard => StopInv'
  <1> SUFFICES ASSUME StopInv, Guard PROVE StopInv'
    OBVIOUS
  <1>1. CASE Return("aborted") /\ UNCHANGED processes
    BY <1>1, ReturnSafe
  <1>2. CASE ~ (Return("aborted") /\ UNCHANGED processes)
    <2>0. Clocked /\ PidSets /\ Descent /\ ListTrue /\ Walk /\ KeptOurs /\ Orphaned
      BY DEF StopInv
    <2>1. /\ stopAt = "ours" /\ walked = Tree /\ kept[AgentPid] = Born /\ psmux \cap Tree = {}
          /\ stopAt' = "kill" /\ walked' = {}
          /\ UNCHANGED <<created, ppid, mine, servers, clock, before, parent, psmux, kept, target, read, held, killed>>
      BY <1>2 DEF Guard, Refused, processes, snapshot
    <2>2. ASSUME NEW p \in Pid, kept[p] # 0, created[p] = kept[p] PROVE p \in mine /\ p \notin servers
      <3>1. p \in mine
        BY <2>0, <2>1, <2>2 DEF KeptOurs
      <3>2. p \in walked /\ kept[p] < before
        BY <2>0, <2>1, <2>2 DEF Walk
      <3>3. p \notin psmux
        BY <3>2, <2>1
      <3> QED
        BY <3>1, <3>2, <3>3, <2>0, <2>1, <2>2 DEF ListTrue
    <2>3. MayStrike'
      BY <2>1, <2>2 DEF MayStrike
    <2>4. Clocked' /\ PidSets' /\ Descent' /\ Orphaned'
      BY <2>0, <2>1 DEF Clocked, PidSets, Descent, Orphaned
    <2>5. ListTrue' /\ Walk' /\ KeptOurs'
      BY <2>0, <2>1 DEF ListTrue, Walk, KeptOurs
    <2> QED
      BY <2>3, <2>4, <2>5 DEF StopInv
  <1> QED
    BY <1>1, <1>2

LEMMA ReadClockSafe ==
  ASSUME StopInv, NEW p \in Pid, ReadClock(p)
  PROVE  StopInv'
  <1>0. Clocked /\ PidSets /\ Descent /\ ListTrue /\ MayStrike /\ Orphaned
    BY DEF StopInv
  <1>1. /\ stopAt = "kill" /\ kept[p] # 0 /\ target' = p /\ read' \in {clock, 0} /\ stopAt' = "strike"
        /\ UNCHANGED <<created, ppid, mine, servers, clock, before, parent, psmux, walked, kept, held, killed>>
    BY DEF ReadClock, Clock, processes, snapshot
  <1>2. Clocked' /\ PidSets' /\ Descent' /\ ListTrue' /\ MayStrike' /\ Orphaned'
    BY <1>0, <1>1 DEF Clocked, PidSets, Descent, ListTrue, MayStrike, Orphaned
  <1> QED
    BY <1>1, <1>2 DEF StopInv, Walk, KeptOurs

(* A kill that lands, lands on what its kept identity names.               *)
LEMMA StrikeSafe ==
  ASSUME StopInv, Strike
  PROVE  StopInv' /\ \A p \in killed' \ killed : p \in mine /\ p \notin servers
  <1>0. Clocked /\ PidSets /\ Descent /\ ListTrue /\ MayStrike /\ Orphaned
    BY DEF StopInv
  <1>1. /\ stopAt = "strike" /\ stopAt' = "kill" /\ walked' = walked \cup {target} /\ target \in Pid
        /\ UNCHANGED <<clock, before, parent, psmux, kept, target, read>> /\ UNCHANGED snapshot
    BY <1>0 DEF Strike, snapshot, PidSets
  <1>2. CASE UNCHANGED <<processes, killed, held>>
    <2>1. UNCHANGED <<created, ppid, mine, servers, held, killed>>
      BY <1>2 DEF processes
    <2>2. Clocked' /\ PidSets' /\ Descent' /\ ListTrue' /\ MayStrike' /\ Orphaned'
      BY <1>0, <1>1, <2>1 DEF Clocked, PidSets, Descent, ListTrue, MayStrike, Orphaned
    <2> QED
      BY <1>1, <2>1, <2>2 DEF StopInv, Walk, KeptOurs
  <1>3. CASE ~ UNCHANGED <<processes, killed, held>>
    <2>1. /\ created[target] # 0 /\ created[target] = kept[target] /\ Gone(target)
          /\ killed' = killed \cup {target} /\ held' = [held EXCEPT ![target] = read]
      BY <1>3 DEF Strike, StillIs, Occupied
    <2>2. target \in mine /\ target \notin servers
      BY <1>0, <1>1, <2>1 DEF MayStrike
    <2>3. /\ Descent' /\ mine' \subseteq Pid /\ DOMAIN created' = Pid /\ DOMAIN ppid' = Pid
          /\ \A a \in Pid : created'[a] \in Nat /\ created'[a] < clock' /\ ppid'[a] \in Pid \cup {Elsewhere}
      BY <1>1, <2>1, MachineKeeps, Zenon
    <2>4. /\ created'[target] = 0 /\ ppid'[target] = Elsewhere
          /\ \A a \in Pid \ {target} : created'[a] = created[a] /\ ppid'[a] = ppid[a]
                                       /\ (a \in mine' <=> a \in mine) /\ (a \in servers' <=> a \in servers)
      BY <1>0, <1>1, <2>1 DEF Gone, Clocked, PidSets
    <2>5. held'[target] = read /\ DOMAIN held' = Pid /\ \A a \in Pid \ {target} : held'[a] = held[a]
      BY <1>0, <1>1, <2>1 DEF Clocked
    <2>6. Clocked'
      BY <1>0, <1>1, <2>3, <2>5 DEF Clocked
    <2>7. PidSets'
      BY <1>0, <1>1, <2>1, <2>3 DEF PidSets
    <2>8. ListTrue' /\ MayStrike'
      BY <1>0, <1>1, <2>4 DEF ListTrue, MayStrike
    <2>9. Orphaned'
      <3> SUFFICES ASSUME NEW a \in Pid, NEW b \in Pid, created'[a] # 0, ppid'[a] = b, held'[b] # 0,
                          kept'[b] < created'[a], created'[a] < held'[b]
                   PROVE  a \in mine'
        BY DEF Orphaned
      <3>1. a # target /\ created[a] # 0 /\ ppid[a] = b /\ kept[b] < created[a]
        BY <2>4, <1>1
      <3>2. CASE b = target
        BY <3>1, <3>2, <2>1, <2>2, <2>4, <1>0 DEF Descent
      <3>3. CASE b # target
        BY <3>1, <3>3, <2>4, <2>5, <1>0 DEF Orphaned
      <3> QED
        BY <3>2, <3>3
    <2>10. Walk' /\ KeptOurs'
      BY <1>1 DEF Walk, KeptOurs
    <2> QED
      BY <2>1, <2>2, <2>3, <2>6, <2>7, <2>8, <2>9, <2>10 DEF StopInv
  <1> QED
    BY <1>2, <1>3

(* A straggler that is killed was made by a process the stop killed, while *)
(* that process was alive.                                                 *)
LEMMA StragglerSafe ==
  ASSUME StopInv, NEW p \in Pid, Straggler(p)
  PROVE  StopInv' /\ \A a \in killed' \ killed : a \in mine /\ a \notin servers
  <1>0. Clocked /\ PidSets /\ Descent /\ ListTrue /\ MayStrike /\ Orphaned
    BY DEF StopInv
  <1>1. /\ stopAt = "stragglers" /\ stopAt' = stopAt /\ walked' = walked \cup {p}
        /\ UNCHANGED <<clock, before, parent, psmux, kept, target, read, held>> /\ UNCHANGED snapshot
    BY DEF Straggler, snapshot
  <1>2. CASE UNCHANGED <<processes, killed>>
    <2>1. UNCHANGED <<created, ppid, mine, servers, killed>>
      BY <1>2 DEF processes
    <2>2. Clocked' /\ PidSets' /\ Descent' /\ ListTrue' /\ MayStrike' /\ Orphaned'
      BY <1>0, <1>1, <2>1 DEF Clocked, PidSets, Descent, ListTrue, MayStrike, Orphaned
    <2> QED
      BY <1>1, <2>1, <2>2 DEF StopInv, Walk, KeptOurs
  <1>3. CASE ~ UNCHANGED <<processes, killed>>
    <2>1. /\ created[p] # 0 /\ Gone(p) /\ killed' = killed \cup {p}
          /\ parent[p] \in killed /\ held[parent[p]] # 0 /\ p \notin psmux /\ InTime(p)
      BY <1>3 DEF Straggler, IdentityReads, Occupied
    <2>2. kept[parent[p]] < created[p] /\ created[p] < before /\ created[p] < held[parent[p]] /\ parent[p] \in Pid
      BY <2>1, <1>0 DEF InTime, PidSets
    <2>3. ppid[p] = parent[p] /\ p \notin servers
      BY <2>1, <2>2, <1>0, <1>1 DEF ListTrue
    <2>4. p \in mine
      BY <2>1, <2>2, <2>3, <1>0 DEF Orphaned
    <2>5. ListTrue' /\ KeptOurs' /\ MayStrike' /\ Orphaned'
      BY <1>1, <2>1, NotesHold
    <2>6. /\ Descent' /\ mine' \subseteq Pid /\ DOMAIN created' = Pid /\ DOMAIN ppid' = Pid
          /\ \A a \in Pid : created'[a] \in Nat /\ created'[a] < clock' /\ ppid'[a] \in Pid \cup {Elsewhere}
      BY <1>1, <2>1, MachineKeeps, Zenon
    <2>7. Clocked' /\ PidSets'
      BY <1>0, <1>1, <2>1, <2>6 DEF Clocked, PidSets
    <2>8. Walk'
      BY <1>1 DEF Walk
    <2> QED
      BY <2>1, <2>3, <2>4, <2>5, <2>6, <2>7, <2>8 DEF StopInv
  <1> QED
    BY <1>2, <1>3

LEMMA StopStepSafe ==
  ASSUME StopInv, StopNext
  PROVE  StopInv' /\ \A p \in killed' \ killed : p \in mine /\ p \notin servers
  <1>1. CASE Machine
    <2>1. killed' = killed
      BY <1>1 DEF Machine, Exit, StartsProcess
    <2> QED
      BY <1>1, <2>1, MachineSafe
  <1>2. CASE Bound \/ Snapshot \/ BoundAgain \/ SnapshotAgain
    <2>1. killed' \subseteq killed
      BY <1>2 DEF Bound, Snapshot, BoundAgain, SnapshotAgain, Return
    <2> QED
      BY <1>2, <2>1, LooksSafe
  <1>3. CASE Guard
    <2>1. killed' \subseteq killed
      BY <1>3 DEF Guard, Return
    <2> QED
      BY <1>3, <2>1, GuardSafe
  <1>4. CASE Strike
    BY <1>4, StrikeSafe
  <1>5. CASE Confirm
    <2>1. \E result \in {"rootAlive", "stopped"} : Return(result) /\ UNCHANGED processes
      BY <1>5 DEF Confirm
    <2>2. killed' = {}
      BY <2>1 DEF Return
    <2> QED
      BY <2>1, <2>2, ReturnSafe
  <1>6. ASSUME NEW p \in Pid, Ours(p) PROVE StopInv' /\ killed' = killed
    BY <1>6, OursSafe DEF Ours
  <1>7. ASSUME NEW p \in Pid, ReadClock(p) PROVE StopInv' /\ killed' = killed
    BY <1>7, ReadClockSafe DEF ReadClock
  <1>8. ASSUME NEW p \in Pid, Straggler(p) PROVE StopInv' /\ \A a \in killed' \ killed : a \in mine /\ a \notin servers
    BY <1>8, StragglerSafe
  <1>9. CASE StopEnded
    BY <1>9 DEF StopEnded, stopvars, processes, snapshot, StopInv, Clocked, PidSets, Descent, ListTrue, Walk, KeptOurs,
                MayStrike, Orphaned
  <1> QED
    BY <1>1, <1>2, <1>3, <1>4, <1>5, <1>6, <1>7, <1>8, <1>9 DEF StopNext, StopStep

(* AgentStop.OnlyItsOwn, for any number of pids, any age of what runs and  *)
(* any schedule of starts, exits and reuses.                               *)
THEOREM OnlyItsOwnHolds == StopSpec => OnlyItsOwn
  <1>1. StopInv /\ [StopNext]_stopvars => StopInv'
    BY StopStepSafe DEF stopvars, processes, snapshot, StopInv, Clocked, PidSets, Descent, ListTrue, Walk, KeptOurs,
                        MayStrike, Orphaned
  <1>2. StopInv /\ [StopNext]_stopvars => [\A p \in killed' \ killed : p \in mine /\ p \notin servers]_stopvars
    BY StopStepSafe
  <1> QED
    BY <1>1, <1>2, StopInitInv, PTL DEF StopSpec, OnlyItsOwn

(* Past the refusals the root's identity is the one the sweep read, and a  *)
(* stop that found nobody with it says so for good.                        *)
Rooted ==
  /\ stopAt \in {"kill", "strike", "again", "stragglers", "confirm"} => kept[AgentPid] = Born
  /\ StoppedMeansGone

LEMMA BornStaysGone ==
  ASSUME StopInv, StopNext, created'[AgentPid] = Born
  PROVE  created[AgentPid] = Born
  <1> USE StopAssumption DEF StopInv, Clocked
  <1>1. CASE created' = created
    BY <1>1
  <1>2. ASSUME NEW p \in Pid, Gone(p) PROVE created[AgentPid] = Born
    BY <1>2 DEF Gone, Born
  <1>3. ASSUME NEW p \in Pid, NEW q \in Pid \cup {Elsewhere}, StartsProcess(q, p) PROVE created[AgentPid] = Born
    BY <1>3 DEF StartsProcess
  <1>4. \/ created' = created
        \/ \E p \in Pid : Gone(p)
        \/ \E p \in Pid, q \in Pid \cup {Elsewhere} : StartsProcess(q, p)
    <2>1. CASE Machine
      BY <2>1 DEF Machine, Exit
    <2>2. CASE Strike
      BY <2>2 DEF Strike, processes, PidSets
    <2>3. ASSUME NEW p \in Pid, Straggler(p) PROVE created' = created \/ Gone(p)
      BY <2>3, Zenon DEF Straggler, processes
    <2>4. CASE StopEnded \/ Bound \/ Snapshot \/ Guard \/ BoundAgain \/ SnapshotAgain \/ Confirm
      BY <2>4, Zenon DEF StopEnded, Bound, Snapshot, Guard, BoundAgain, SnapshotAgain, Confirm, processes, stopvars
    <2>5. ASSUME NEW p \in Pid, Ours(p) \/ ReadClock(p) PROVE created' = created
      BY <2>5, Zenon DEF Ours, ReadClock, processes
    <2> QED
      BY <2>1, <2>2, <2>3, <2>4, <2>5 DEF StopNext, StopStep
  <1> QED
    BY <1>1, <1>2, <1>3, <1>4

LEMMA RootedSafe ==
  ASSUME StopInv, Rooted, StopNext
  PROVE  Rooted'
  <1> USE StopAssumption DEF Rooted, StoppedMeansGone
  <1>1. CASE Machine
    <2>1. stopAt' = stopAt /\ kept' = kept
      BY <1>1 DEF Machine, Exit, StartsProcess
    <2> QED
      BY <2>1, BornStaysGone
  <1>2. CASE Bound \/ Snapshot \/ BoundAgain \/ SnapshotAgain
    BY <1>2 DEF Bound, Snapshot, BoundAgain, SnapshotAgain, Return
  <1>3. CASE Guard
    BY <1>3 DEF Guard, Return, Refused
  <1>4. CASE Strike
    BY <1>4 DEF Strike
  <1>5. CASE Confirm
    <2>1. kept[AgentPid] = Born /\ created' = created
      BY <1>5 DEF Confirm, processes
    <2>2. stopAt' = "rootAlive" \/ (stopAt' = "stopped" /\ ~StillIs(AgentPid, kept[AgentPid]))
      BY <1>5 DEF Confirm, Return
    <2> QED
      BY <2>1, <2>2 DEF StillIs, Occupied, Born
  <1>6. ASSUME NEW p \in Pid, Ours(p) PROVE Rooted'
    BY <1>6 DEF Ours
  <1>7. ASSUME NEW p \in Pid, ReadClock(p) PROVE Rooted'
    BY <1>7 DEF ReadClock
  <1>8. ASSUME NEW p \in Pid, Straggler(p) PROVE Rooted'
    BY <1>8 DEF Straggler
  <1>9. CASE StopEnded
    BY <1>9 DEF StopEnded, stopvars, processes
  <1> QED
    BY <1>1, <1>2, <1>3, <1>4, <1>5, <1>6, <1>7, <1>8, <1>9 DEF StopNext, StopStep

(* AgentStop.StoppedMeansGone: what _stop tells the park is right, and no  *)
(* later reuse of the pid makes it wrong.                                  *)
THEOREM StoppedMeansGoneHolds == StopSpec => []StoppedMeansGone
  <1>1. StopInit => Rooted
    BY DEF StopInit, Rooted, StoppedMeansGone
  <1>2. StopInv /\ Rooted /\ [StopNext]_stopvars => StopInv' /\ Rooted'
    BY StopStepSafe, RootedSafe DEF stopvars, processes, snapshot, StopInv, Clocked, PidSets, Descent, ListTrue, Walk,
                                    KeptOurs, MayStrike, Orphaned, Rooted, StoppedMeansGone
  <1>3. Rooted => StoppedMeansGone
    BY DEF Rooted
  <1> QED
    BY <1>1, <1>2, <1>3, StopInitInv, PTL DEF StopSpec

-----------------------------------------------------------------------------
-----------------------------------------------------------------------------
(* Sessions: the commands that bring up, revive and stop them.             *)

RunFields == {"pc", "want", "revive", "refused", "fresh", "todo", "batch", "sends", "pass", "stuck", "missing", "met"}

BringUpPcs == {"dedupe", "clear", "create", "send", "verify", "resend", "check"}

Words == {"nothing", "up", "failed", "down", "wasUp", "wasDown"}

(* What is read and written of the panes.                                  *)
PanesFit ==
  /\ server \in [Name -> {"none", "stale", "up"}] /\ pane \in [Name -> {"none", "shell", "agent"}]
  /\ keys \in [Name -> Nat] /\ late \in [Name -> SUBSET {"new", "send"}] /\ mixed \subseteq Name
  /\ \A n \in Name : /\ Up(n) <=> pane[n] # "none"
                     /\ ~Up(n) => keys[n] = 0 /\ "send" \notin late[n]

(* What a command works on is what it was asked for.                       *)
RunFits(r) ==
  /\ DOMAIN r = RunFields /\ r.pass \in {1, 2}
  /\ r.want \subseteq Name /\ r.revive \subseteq Name /\ r.want \cap r.revive = {}
  /\ r.todo \cup r.fresh \cup r.batch \subseteq Scope(r) /\ Scope(r) \subseteq r.want
  /\ r.missing \subseteq r.want /\ (r.pass = 2 => r.stuck \subseteq r.missing)
  /\ r.pc \in {"dedupe", "check"} => r.fresh = {} /\ r.todo = {} /\ r.batch = {}
  /\ r.pc \in {"idle", "status"} => r = [Idle EXCEPT !.pc = r.pc]
  /\ r.pc \in {"revive", "type"} => r = [Idle EXCEPT !.pc = r.pc, !.revive = r.revive]
  /\ r.pc \in {"before", "kill", "after", "rekill", "last"} => r.pass = 1 /\ r.revive = {}

SessionTypes ==
  /\ sessionSetup \in Setups /\ PanesFit /\ told \in [Name -> Words]
  /\ DOMAIN run = Caller /\ \A c \in Caller : RunFits(run[c])

(* Unless commands may overlap, there is one.                              *)
OneAsks == ~Together => \A c, d \in Caller : c # d => run[c].pc = "idle" \/ run[d].pc = "idle"

(* A pane that a command could be typed into: at its shell or gone, with   *)
(* nothing on its way to it.                                               *)
Untouched(n) == pane[n] # "agent" /\ keys[n] = 0 /\ "send" \notin late[n]

Undisturbed == sessionSetup.liberty \cap {"together", "slow", "late"} = {}
Plain == sessionSetup.liberty \cap {"together", "raise", "late"} = {}

(* Unless commands overlap, shells lag or killed clients outlive their     *)
(* command, at most one command is on its way to a pane, and none while an *)
(* agent is there.                                                         *)
OneOnItsWay == mixed = {} /\ \A n \in Name : keys[n] <= 1 /\ ("send" \in late[n] => pane[n] = "shell" /\ keys[n] = 0)

TypesOnce(r) ==
  /\ r.pc \in {"send", "resend"} => \A n \in r.batch : Untouched(n)
  /\ r.pc = "verify" => \A n \in r.batch : "send" \notin late[n]
  /\ r.pc = "type" => \A n \in r.revive : Untouched(n)
  /\ \A n \in r.revive : "send" \notin late[n]
  /\ r.pc = "status" => \A n \in Name : "send" \notin late[n]

(* What a bring-up is about to clear holds no agent and will get none.     *)
ClearsEmpty(r) == r.pc = "clear" => \A n \in r.todo : Untouched(n)

(* What a bring-up has done with and neither met nor refused is not there, *)
(* nor has it a client that may still create it.                           *)
UnmetAreDown(r) ==
  /\ r.pc \in BringUpPcs \cup {"status"} => \A n \in Name : "new" \in late[n] => n \in r.fresh \cup r.refused
  /\ r.pc \in BringUpPcs => r.todo \cap (r.fresh \cup r.refused \cup r.batch) = {}
  /\ r.pc \in {"clear", "create"} => r.batch = {}
  /\ r.pc = "dedupe" => Scope(r) \cap r.refused = {}
  /\ r.pc = "verify" => r.batch \subseteq r.met
  /\ r.pc \in {"clear", "create", "send", "verify", "resend"} => \A n \in r.todo : ~Up(n)
  /\ r.pc \in BringUpPcs \ {"dedupe"} => \A n \in Scope(r) \ (r.met \cup r.refused \cup r.fresh \cup r.todo \cup r.batch) : ~Up(n)
  /\ r.pc \in BringUpPcs /\ r.pass = 2 => r.want \ r.missing \subseteq r.met \cup r.refused

Owed(n) == \E d \in Caller : run[d].pc # "idle" /\ n \in run[d].want

(* A word that is no longer true is about to be taken back.                *)
WordsHold ==
  \A n \in Name \ moved :
    /\ told[n] = "up" \/ (told[n] = "wasUp" /\ ~Together) => Up(n) \/ Owed(n)
    /\ told[n] = "down" \/ (told[n] = "wasDown" /\ ~Together) => ~Up(n) \/ Owed(n)

(* What an earlier look of the command found is so still.                  *)
LooksHold(r) == \A n \in r.want \ (r.missing \cup moved) :
  /\ r.pc \in BringUpPcs /\ r.pass = 2 => Up(n)
  /\ r.pc \in {"rekill", "last"} => ~Up(n)

SessionsInv ==
  /\ SessionTypes /\ OneAsks /\ WordsHold
  /\ Undisturbed => OneOnItsWay
  /\ \A c \in Caller :
       /\ Undisturbed => TypesOnce(run[c])
       /\ ~Together => ClearsEmpty(run[c]) /\ LooksHold(run[c])
       /\ Plain => UnmetAreDown(run[c])

(* What a command keeps of what it was asked.                              *)
KeepsAim(q, r) == /\ DOMAIN q = RunFields /\ q.want = r.want /\ q.revive = r.revive
                  /\ q.pass = r.pass /\ q.stuck = r.stuck /\ q.missing = r.missing

(* How a wave goes on: what leaves todo is met, refused or not there.      *)
GoesOn(q, r) ==
  /\ KeepsAim(q, r) /\ q.pc \in BringUpPcs /\ q.todo \subseteq r.todo /\ q.batch \subseteq r.batch \cup r.todo
  /\ r.met \subseteq q.met /\ r.fresh \cup r.refused \subseteq q.fresh \cup q.refused /\ q.fresh \subseteq r.fresh \cup r.todo
  /\ q.fresh \cup q.refused \subseteq r.fresh \cup r.refused \cup (r.todo \ q.todo)
  /\ q.pc \in {"dedupe", "check"} => q.todo = {} /\ q.fresh = {} /\ q.batch = {}

Steps(c, q) == run' = [run EXCEPT ![c] = q]

LEMMA NextWaveIs ==
  ASSUME NEW r, DOMAIN r = RunFields, NEW s, s = NextWave(r)
  PROVE  /\ KeepsAim(s, r) /\ s.todo = r.todo /\ s.batch = {} /\ s.sends = r.sends /\ s.met = r.met
         /\ r.todo # {} => s.pc = "create" /\ s.refused = r.refused /\ s.fresh = r.fresh
         /\ r.todo = {} => s.pc = "check" /\ s.refused = r.refused \cup r.fresh /\ s.fresh = {}
<1>1. CASE r.todo # {}
  <2>1. s = [r EXCEPT !.pc = "create", !.batch = {}]
    BY <1>1 DEF NextWave
  <2> QED
    BY <1>1, <2>1 DEF RunFields, KeepsAim
<1>2. CASE r.todo = {}
  <2>1. s = [r EXCEPT !.pc = "check", !.batch = {}, !.refused = r.refused \cup r.fresh, !.fresh = {}]
    BY <1>2 DEF NextWave, RunFields
  <2> QED
    BY <1>2, <2>1 DEF RunFields, KeepsAim
<1> QED
  BY <1>1, <1>2

(* A look at what is there.                                                *)
LEMMA DedupeIs ==
  ASSUME SessionTypes, NEW c \in Caller, Dedupe(c)
  PROVE  LET r == run[c]  q == run'[c] IN
         /\ r.pc = "dedupe" /\ Steps(c, q) /\ KeepsAim(q, r) /\ UNCHANGED <<world, told>>
         /\ q.todo \subseteq {n \in Scope(r) : ~Up(n)} /\ q.fresh \subseteq Scope(r) /\ q.batch \subseteq r.batch
         /\ r.met \subseteq q.met /\ r.refused \subseteq q.refused /\ q.todo \cap q.fresh = {}
         /\ q.refused \subseteq r.refused \cup q.fresh \cup (Scope(r) \ q.todo)
         /\ Scope(r) \subseteq q.met \cup q.fresh \cup q.refused \cup q.todo
         /\ q.pc \in {"clear", "check"} /\ (q.pc = "check" => q.todo = {} /\ q.fresh = {} /\ q.batch = {})
<1> DEFINE r == run[c]
<1>1. PICK crashed \in SUBSET Scope(r) :
        LET mute == (Scope(r) \cap wedged) \cup crashed
            live == {n \in Scope(r) \ mute : Up(n)}
            s == [r EXCEPT !.fresh = mute, !.todo = Scope(r) \ (live \cup mute), !.met = r.met \cup live]
        IN Becomes(c, IF s.todo = {} THEN NextWave(s) ELSE [s EXCEPT !.pc = "clear"])
  BY DEF Dedupe, SessionTypes, RunFits, RunFields
<1> DEFINE mute == (Scope(r) \cap wedged) \cup crashed
           live == {n \in Scope(r) \ mute : Up(n)}
           s == [r EXCEPT !.fresh = mute, !.todo = Scope(r) \ (live \cup mute), !.met = r.met \cup live]
           q == IF s.todo = {} THEN NextWave(s) ELSE [s EXCEPT !.pc = "clear"]
<1>2. DOMAIN r = RunFields /\ DOMAIN run = Caller
  BY DEF SessionTypes, RunFits
<1>3. /\ KeepsAim(s, r) /\ s.refused = r.refused /\ s.batch = r.batch
      /\ s.fresh = mute /\ s.todo = Scope(r) \ (live \cup mute) /\ s.met = r.met \cup live
  BY <1>2 DEF RunFields, KeepsAim
<1> HIDE DEF r, s
<1>4. Steps(c, q)
  BY <1>1 DEF r, s, Becomes, Steps
<1>5. CASE s.todo = {}
  <2>1. /\ KeepsAim(q, s) /\ q.todo = {} /\ q.batch = {} /\ q.met = s.met /\ q.pc = "check" /\ q.fresh = {}
        /\ q.refused = s.refused \cup s.fresh
    BY <1>3, <1>5, NextWaveIs DEF KeepsAim
  <2> HIDE DEF q
  <2>2. run'[c] = q
    BY <1>2, <1>4 DEF Steps
  <2> QED
    BY <1>3, <1>4, <1>5, <2>1, <2>2 DEF r, Dedupe, KeepsAim
<1>6. CASE s.todo # {}
  <2>1. /\ KeepsAim(q, s) /\ q.pc = "clear" /\ q.refused = s.refused /\ q.fresh = s.fresh /\ q.todo = s.todo /\ q.batch = s.batch /\ q.met = s.met
    BY <1>3, <1>6 DEF RunFields, KeepsAim
  <2> HIDE DEF q
  <2>2. run'[c] = q
    BY <1>2, <1>4 DEF Steps
  <2> QED
    BY <1>3, <1>4, <1>6, <2>1, <2>2 DEF r, Dedupe, KeepsAim
<1> QED
  BY <1>5, <1>6

(* What answered kill-server is killed.                                    *)
LEMMA ClearIs ==
  ASSUME SessionTypes, NEW c \in Caller, Clear(c)
  PROVE  LET r == run[c]  q == run'[c] IN
         /\ r.pc = "clear" /\ Steps(c, q) /\ GoesOn(q, r) /\ q.pc \in {"create", "check"} /\ q.batch = {}
         /\ r.todo \subseteq q.todo \cup q.fresh \cup q.refused
         /\ \E K \in SUBSET q.todo : Kill(K)
         /\ UNCHANGED <<wedged, moved, told>>
<1> DEFINE r == run[c]
           silent == r.todo \cap wedged
           s == [r EXCEPT !.fresh = r.fresh \cup silent, !.todo = r.todo \ silent]
           q == NextWave(s)
<1>1. DOMAIN r = RunFields /\ DOMAIN run = Caller
  BY DEF SessionTypes, RunFits
<1>2. PICK spared : Kill(s.todo \ spared) /\ Becomes(c, q)
  BY <1>1 DEF Clear, RunFields
<1>3. KeepsAim(s, r) /\ s.refused = r.refused /\ s.fresh = r.fresh \cup silent /\ s.todo = r.todo \ silent /\ s.met = r.met
  BY <1>1 DEF RunFields, KeepsAim
<1> HIDE DEF r, s
<1>4. /\ KeepsAim(q, s) /\ q.todo = s.todo /\ q.batch = {} /\ q.met = s.met
      /\ s.todo # {} => q.pc = "create" /\ q.refused = s.refused /\ q.fresh = s.fresh
      /\ s.todo = {} => q.pc = "check" /\ q.refused = s.refused \cup s.fresh /\ q.fresh = {}
  BY <1>3, NextWaveIs DEF KeepsAim
<1> HIDE DEF q
<1>5. run'[c] = q /\ Steps(c, q)
  BY <1>1, <1>2 DEF Becomes, Steps
<1>6. GoesOn(q, r) /\ q.pc \in {"create", "check"} /\ r.todo \subseteq q.todo \cup q.fresh \cup q.refused
  BY <1>3, <1>4 DEF GoesOn, KeepsAim, BringUpPcs
<1> QED
  BY <1>2, <1>4, <1>5, <1>6 DEF r, Clear

(* A wave is created.                                                      *)
LEMMA CreateIs ==
  ASSUME SessionTypes, NEW c \in Caller, Create(c)
  PROVE  LET r == run[c]  q == run'[c] IN
         /\ r.pc = "create" /\ Steps(c, q) /\ GoesOn(q, r) /\ q.pc \in {"create", "check", "send"}
         /\ q.batch \subseteq {n \in r.todo : server[n] = "none"} /\ Open(q.batch) /\ q.todo \cap q.batch = {}
         /\ q.pc # "send" => q.batch = {}
         /\ \E N \in SUBSET r.todo : N \subseteq q.fresh \cup q.refused /\ Outrun(N, "new")
         /\ UNCHANGED <<keys, mixed, wedged, moved, told>>
<1> DEFINE r == run[c]
<1>1. DOMAIN r = RunFields /\ DOMAIN run = Caller
  BY DEF SessionTypes, RunFits
<1>2. PICK W \in Waves(r), bad \in SUBSET Name :
        LET silent == W \cap wedged
            born == {n \in W \ (silent \cup bad) : server[n] = "none"}
            s == [r EXCEPT !.todo = r.todo \ W, !.fresh = r.fresh \cup silent, !.batch = born]
        IN /\ Open(born) /\ Outrun({n \in silent : server[n] = "none"}, "new")
           /\ Becomes(c, IF born = {} THEN NextWave(s) ELSE [s EXCEPT !.pc = "send"])
  BY <1>1 DEF Create, RunFields
<1> DEFINE silent == W \cap wedged
           born == {n \in W \ (silent \cup bad) : server[n] = "none"}
           s == [r EXCEPT !.todo = r.todo \ W, !.fresh = r.fresh \cup silent, !.batch = born]
           q == IF born = {} THEN NextWave(s) ELSE [s EXCEPT !.pc = "send"]
<1>3. W \subseteq r.todo
  BY DEF Waves
<1>4. /\ KeepsAim(s, r) /\ s.refused = r.refused /\ s.batch = born
      /\ s.fresh = r.fresh \cup silent /\ s.todo = r.todo \ W /\ s.met = r.met
  BY <1>1 DEF RunFields, KeepsAim
<1>5. Open(born) /\ Outrun({n \in silent : server[n] = "none"}, "new") /\ Steps(c, q)
  BY <1>2 DEF Becomes, Steps
<1> HIDE DEF r, s
<1>6. /\ KeepsAim(q, s) /\ q.todo = s.todo /\ q.batch = s.batch /\ q.met = s.met
      /\ q.refused \cup q.fresh = s.refused \cup s.fresh /\ q.fresh \subseteq s.fresh
      /\ q.pc \in {"create", "check", "send"} /\ (q.pc = "check" => q.todo = {} /\ q.fresh = {} /\ q.batch = {})
      /\ q.pc # "send" => q.batch = {}
  <2>1. CASE born = {}
    BY <1>4, <2>1, NextWaveIs DEF KeepsAim
  <2>2. CASE born # {}
    BY <1>4, <2>2 DEF KeepsAim, RunFields
  <2> QED
    BY <2>1, <2>2
<1> HIDE DEF q
<1>7. run'[c] = q
  BY <1>1, <1>5 DEF Steps
<1>8. GoesOn(q, r)
  BY <1>3, <1>4, <1>6 DEF GoesOn, KeepsAim, BringUpPcs
<1> QED
  BY <1>3, <1>4, <1>5, <1>6, <1>7, <1>8 DEF r, Create

(* The panes of a wave are typed into; a silent one is let go of.          *)
LEMMA SendIs ==
  ASSUME SessionTypes, NEW c \in Caller, Send(c)
  PROVE  LET r == run[c]  q == run'[c] IN
         /\ r.pc \in {"send", "resend"} /\ Steps(c, q) /\ GoesOn(q, r) /\ q.pc \in {"verify", "create", "check"}
         /\ q.batch \subseteq r.batch /\ r.batch \subseteq q.met
         /\ (q.pc # "verify" => q.batch = {}) /\ q.todo = r.todo
         /\ \E N, S \in SUBSET r.batch : /\ N \cap S = {} /\ S \cap q.batch = {} /\ (\A n \in N \cup S : Up(n))
                                         /\ Type(N) /\ Outrun(S, "send")
         /\ UNCHANGED <<server, pane, wedged, moved, told>>
<1> DEFINE r == run[c]
           silent == r.batch \cap wedged
           s == [r EXCEPT !.met = r.met \cup r.batch, !.batch = r.batch \ silent, !.sends = r.sends + 1]
           z == [s EXCEPT !.sends = 0]
           q == IF s.batch = {} THEN NextWave(z) ELSE [s EXCEPT !.pc = "verify"]
<1>1. DOMAIN r = RunFields /\ DOMAIN run = Caller
  BY DEF SessionTypes, RunFits
<1>2. PICK lost : Type({n \in r.batch \ (silent \cup lost) : Up(n)}) /\ Outrun({n \in silent : Up(n)}, "send") /\ Becomes(c, q)
  BY <1>1 DEF Send, RunFields
<1>3. /\ KeepsAim(s, r) /\ s.refused = r.refused /\ s.batch = r.batch \ silent
      /\ s.fresh = r.fresh /\ s.todo = r.todo /\ s.met = r.met \cup r.batch
  BY <1>1 DEF RunFields, KeepsAim
<1> HIDE DEF s
<1>4. /\ KeepsAim(z, s) /\ z.refused = s.refused /\ z.batch = s.batch
      /\ z.fresh = s.fresh /\ z.todo = s.todo /\ z.met = s.met
  BY <1>3 DEF RunFields, KeepsAim
<1> HIDE DEF r, z
<1>5. /\ KeepsAim(q, s) /\ q.todo = s.todo /\ q.batch = s.batch /\ q.met = s.met
      /\ q.refused \cup q.fresh = s.refused \cup s.fresh /\ q.fresh \subseteq s.fresh
      /\ q.pc # "verify" => q.batch = {}
      /\ q.pc \in {"create", "check", "verify"} /\ (q.pc = "check" => q.todo = {} /\ q.fresh = {} /\ q.batch = {})
  <2>1. CASE s.batch = {}
    BY <1>3, <1>4, <2>1, NextWaveIs DEF KeepsAim
  <2>2. CASE s.batch # {}
    BY <1>3, <2>2 DEF KeepsAim, RunFields
  <2> QED
    BY <2>1, <2>2
<1> HIDE DEF q
<1>6. Steps(c, q) /\ run'[c] = q
  BY <1>1, <1>2 DEF Becomes, Steps
<1>7. GoesOn(q, r)
  BY <1>3, <1>5 DEF GoesOn, KeepsAim, BringUpPcs
<1>8. \E N, S \in SUBSET r.batch : N \cap S = {} /\ S \cap q.batch = {} /\ (\A n \in N \cup S : Up(n)) /\ Type(N) /\ Outrun(S, "send")
  <2> DEFINE N == {n \in r.batch \ (silent \cup lost) : Up(n)}
             S == {n \in silent : Up(n)}
  <2>1. N \in SUBSET r.batch /\ S \in SUBSET r.batch /\ N \cap S = {} /\ S \cap q.batch = {} /\ \A n \in N \cup S : Up(n)
    BY <1>3, <1>5
  <2>2. Type(N) /\ Outrun(S, "send")
    BY <1>2
  <2> HIDE DEF N, S
  <2> QED
    BY <2>1, <2>2
<1> QED
  BY <1>3, <1>5, <1>6, <1>7, <1>8 DEF r, Send

(* The panes still at their shell are to be typed into again.              *)
LEMMA VerifyIs ==
  ASSUME SessionTypes, NEW c \in Caller, Verify(c)
  PROVE  LET r == run[c]  q == run'[c] IN
         /\ r.pc = "verify" /\ Steps(c, q) /\ GoesOn(q, r) /\ q.pc \in {"resend", "create", "check"}
         /\ q.batch \subseteq {n \in r.batch : AtShell(n)} /\ (q.pc # "resend" => q.batch = {}) /\ q.todo = r.todo
         /\ UNCHANGED <<world, told>>
<1> DEFINE r == run[c]
           bare == {n \in r.batch : AtShell(n)}
           z == [r EXCEPT !.sends = 0]
           q == IF bare = {} \/ r.sends = MaxSends THEN NextWave(z) ELSE [r EXCEPT !.pc = "resend", !.batch = bare]
<1>1. DOMAIN r = RunFields /\ DOMAIN run = Caller
  BY DEF SessionTypes, RunFits
<1>2. Becomes(c, q)
  BY DEF Verify
<1>3. /\ KeepsAim(z, r) /\ z.refused = r.refused /\ z.batch = r.batch
      /\ z.fresh = r.fresh /\ z.todo = r.todo /\ z.met = r.met
  BY <1>1 DEF RunFields, KeepsAim
<1> HIDE DEF z
<1>4. /\ KeepsAim(q, r) /\ q.todo = r.todo /\ q.batch \subseteq bare /\ q.met = r.met
      /\ q.refused \cup q.fresh = r.refused \cup r.fresh /\ q.fresh \subseteq r.fresh
      /\ q.pc # "resend" => q.batch = {}
      /\ q.pc \in {"create", "check", "resend"} /\ (q.pc = "check" => q.todo = {} /\ q.fresh = {} /\ q.batch = {})
  <2>1. CASE bare = {} \/ r.sends = MaxSends
    BY <1>3, <2>1, NextWaveIs DEF KeepsAim
  <2>2. CASE ~(bare = {} \/ r.sends = MaxSends)
    BY <1>1, <2>2 DEF KeepsAim, RunFields
  <2> QED
    BY <2>1, <2>2
<1> HIDE DEF q
<1>5. Steps(c, q) /\ run'[c] = q
  BY <1>1, <1>2 DEF Becomes, Steps
<1> HIDE DEF r
<1>6. GoesOn(q, r)
  BY <1>4 DEF GoesOn, BringUpPcs
<1> QED
  BY <1>4, <1>5, <1>6 DEF r, Verify


(* The words of a report.                                                  *)
LEMMA ReportIs ==
  ASSUME SessionTypes, NEW c \in Caller, NEW missed, Reported(c, missed), run[c].pc # "idle"
  PROVE  LET r == run[c]  q == run'[c] IN
         /\ Steps(c, q) /\ (q = Idle \/ (q = [Idle EXCEPT !.pc = "revive", !.revive = r.revive] /\ r.revive # {}))
         /\ told' \in [Name -> Words] /\ \A n \in Name \ r.want : told'[n] = told[n]
         /\ \A n \in r.want : /\ told'[n] \in {"failed", "up", "wasUp"}
                              /\ told'[n] # "failed" => n \notin missed \cup r.refused
                              /\ told'[n] = "up" => n \in Scope(r)
                              /\ told'[n] = "wasUp" => n \notin Scope(r)
<1>1. DOMAIN run = Caller /\ told \in [Name -> Words]
  BY DEF SessionTypes
<1>2. Steps(c, IF run[c].revive = {} THEN Idle ELSE [Idle EXCEPT !.pc = "revive", !.revive = run[c].revive])
  BY DEF Reported, Becomes, Steps
<1> HIDE DEF Idle
<1>3. run'[c] = IF run[c].revive = {} THEN Idle ELSE [Idle EXCEPT !.pc = "revive", !.revive = run[c].revive]
  BY <1>1, <1>2 DEF Steps
<1>4. \A n \in Name : told'[n] = CASE n \notin run[c].want -> told[n]
                                 [] n \in run[c].want \cap (missed \cup run[c].refused) -> "failed"
                                 [] n \in Scope(run[c]) \ (missed \cup run[c].refused) -> "up"
                                 [] OTHER -> "wasUp"
  BY DEF Reported
<1>5. DOMAIN told' = Name
  BY DEF Reported
<1>6. /\ \A n \in Name \ run[c].want : told'[n] = told[n]
      /\ \A n \in run[c].want :
           /\ told'[n] \in {"failed", "up", "wasUp"}
           /\ told'[n] # "failed" => n \notin missed \cup run[c].refused
           /\ told'[n] = "up" => n \in Scope(run[c])
           /\ told'[n] = "wasUp" => n \notin Scope(run[c])
  BY <1>4 DEF SessionTypes, RunFits
<1>7. told' \in [Name -> Words]
  <2>1. told' = [n \in Name |-> told'[n]]
    BY DEF Reported
  <2>2. ASSUME NEW n \in Name PROVE told'[n] \in Words
    <3>1. CASE n \in run[c].want
      BY <1>6, <3>1 DEF Words
    <3>2. CASE n \notin run[c].want
      BY <1>1, <1>6, <3>2
    <3> QED
      BY <3>1, <3>2
  <2> DEFINE f(n) == told'[n]
  <2>3. told' = [n \in Name |-> f(n)] /\ \A n \in Name : f(n) \in Words
    BY <2>1, <2>2
  <2> HIDE DEF f
  <2> QED
    BY <2>3
<1> QED
  BY <1>2, <1>3, <1>6, <1>7

-----------------------------------------------------------------------------
LEMMA KillFits ==
  ASSUME PanesFit, NEW K, Kill(K)
  PROVE  /\ PanesFit'
         /\ \A n \in Name : (Up(n)' => Up(n)) /\ (Untouched(n) => Untouched(n)') /\ late'[n] \subseteq late[n]
         /\ \A n \in Name \ K : server'[n] = server[n]
         /\ OneOnItsWay => OneOnItsWay'
BY DEF PanesFit, Kill, Up, Untouched, OneOnItsWay

LEMMA OpenFits ==
  ASSUME PanesFit, NEW N, Open(N), \A n \in N : n \in Name => server[n] = "none", UNCHANGED <<keys, mixed>>, late' \in [Name -> SUBSET {"new", "send"}],
         \A n \in Name : "send" \in late'[n] => "send" \in late[n]
  PROVE  /\ PanesFit'
         /\ \A n \in Name \ N : server'[n] = server[n]
         /\ \A n \in Name : Untouched(n) => Untouched(n)'
         /\ \A n \in Name \cap N : Untouched(n)'
         /\ OneOnItsWay => OneOnItsWay'
BY DEF PanesFit, Open, Up, Untouched, OneOnItsWay

LEMMA TypeFits ==
  ASSUME PanesFit, NEW N \in SUBSET Name, Type(N), NEW S \in SUBSET Name, Outrun(S, "send"), \A n \in S : Up(n), N \cap S = {},
         UNCHANGED <<server, pane>>
  PROVE  /\ PanesFit'
         /\ (\A n \in N \cup S : Untouched(n)) /\ OneOnItsWay => OneOnItsWay'
         /\ \A n \in Name \ (N \cup S) : keys'[n] = keys[n] /\ late'[n] = late[n]
         /\ \A n \in Name \ S : late'[n] = late[n]
         /\ \A n \in Name : "new" \in late'[n] => "new" \in late[n]
<1>1. PanesFit'
  BY DEF PanesFit, Type, Outrun, Up
<1>2. ASSUME \A n \in N \cup S : Untouched(n), OneOnItsWay PROVE OneOnItsWay'
  BY <1>2 DEF PanesFit, Type, Outrun, Up, Untouched, OneOnItsWay
<1> QED
  BY <1>1, <1>2 DEF PanesFit, Type, Outrun

LEMMA IdleFits == RunFits(Idle) /\ Idle.pc = "idle" /\ Idle.want = {} /\ Idle.revive = {} /\ Idle.todo = {}
  BY DEF RunFits, Idle, RunFields, Scope

LEMMA IdleIs == ASSUME NEW r, RunFits(r), r.pc = "idle" PROVE r = Idle
<1>1. r = [Idle EXCEPT !.pc = "idle"]
  BY DEF RunFits
<1> QED
  BY <1>1 DEF Idle

(* A command's step, and the others stay where they are.                   *)
LEMMA OneSteps ==
  ASSUME SessionsInv, UNCHANGED sessionSetup, NEW c \in Caller, NEW q,
         run[c].pc # "idle" \/ (~Together => \A d \in Caller : run[d].pc = "idle"), Steps(c, q),
         RunFits(q), PanesFit', told' \in [Name -> Words], WordsHold', Undisturbed => OneOnItsWay' /\ TypesOnce(q)',
         ~Together => ClearsEmpty(q)' /\ LooksHold(q)', Plain => UnmetAreDown(q)'
  PROVE  SessionsInv'
<1>1. DOMAIN run = Caller /\ \A d \in Caller : RunFits(run[d])
  BY DEF SessionsInv, SessionTypes
<1>2. DOMAIN run' = Caller /\ run'[c] = q /\ \A d \in Caller \ {c} : run'[d] = run[d]
  BY <1>1 DEF Steps
<1>3. SessionTypes'
  <2>1. \A d \in Caller : RunFits(run'[d])
    BY <1>1, <1>2
  <2> QED
    BY <1>2, <2>1 DEF SessionsInv, SessionTypes
<1>4. ~Together => \A d \in Caller \ {c} : run'[d] = Idle /\ run[d] = Idle
  <2> SUFFICES ASSUME ~Together, NEW d \in Caller \ {c} PROVE run[d] = Idle
    BY <1>2
  <2>1. run[d].pc = "idle"
    BY DEF SessionsInv, OneAsks
  <2>2. RunFits(run[d])
    BY <1>1
  <2> QED
    BY <2>1, <2>2, IdleIs
<1>5. OneAsks'
  BY <1>2, <1>4, IdleFits DEF OneAsks, Together
<1>6. TypesOnce(Idle)' /\ ClearsEmpty(Idle)' /\ LooksHold(Idle)' /\ UnmetAreDown(Idle)'
  BY IdleFits DEF TypesOnce, ClearsEmpty, LooksHold, UnmetAreDown, BringUpPcs
<1>7. (Undisturbed \/ Plain) => ~Together
  BY DEF Undisturbed, Plain, Together
<1>8. ASSUME NEW d \in Caller
      PROVE  /\ Undisturbed' => TypesOnce(run[d])'
             /\ ~Together' => ClearsEmpty(run[d])' /\ LooksHold(run[d])'
             /\ Plain' => UnmetAreDown(run[d])'
  <2>1. CASE d = c
    BY <1>2, <2>1 DEF Undisturbed, Plain, Together, TypesOnce, ClearsEmpty, LooksHold, UnmetAreDown
  <2>2. CASE d # c
    <3>1. (Undisturbed \/ Plain \/ ~Together) => run'[d] = Idle
      BY <1>4, <1>7, <2>2
    <3> QED
      BY <1>6, <3>1 DEF Undisturbed, Plain, Together, TypesOnce, ClearsEmpty, LooksHold, UnmetAreDown
  <2> QED
    BY <2>1, <2>2
<1>9. Undisturbed' => OneOnItsWay'
  BY DEF Undisturbed
<1> QED
  BY <1>3, <1>5, <1>8, <1>9 DEF SessionsInv

LEMMA RunFitsOn ==
  ASSUME NEW r, RunFits(r), r.pc \in BringUpPcs, NEW q, KeepsAim(q, r), q.todo \cup q.fresh \cup q.batch \subseteq Scope(r), q.pc \in BringUpPcs,
         q.pc \in {"dedupe", "check"} => q.todo = {} /\ q.fresh = {} /\ q.batch = {}
  PROVE  RunFits(q) /\ Scope(q) = Scope(r)
BY DEF RunFits, KeepsAim, Scope, BringUpPcs

LEMMA GoesOnFits ==
  ASSUME NEW r, RunFits(r), r.pc \in BringUpPcs, NEW q, GoesOn(q, r)
  PROVE  /\ RunFits(q) /\ Scope(q) = Scope(r) /\ q.todo \cup q.fresh \cup q.batch \subseteq Scope(r)
         /\ KeepsAim(q, r) /\ Scope(r) \subseteq q.want
<1>1. q.todo \cup q.fresh \cup q.batch \subseteq Scope(r)
  BY DEF RunFits, GoesOn
<1>2. KeepsAim(q, r) /\ q.pc \in BringUpPcs /\ (q.pc \in {"dedupe", "check"} => q.todo = {} /\ q.fresh = {} /\ q.batch = {})
  BY DEF GoesOn
<1>3. Scope(r) \subseteq q.want
  BY <1>2 DEF RunFits, KeepsAim
<1> QED
  BY <1>1, <1>2, <1>3, RunFitsOn

(* No report: what a command changes it has still to tell.                 *)
LEMMA WordsStay ==
  ASSUME SessionsInv, UNCHANGED <<sessionSetup, told>>, NEW c \in Caller, NEW q, Steps(c, q),
         run[c].want \subseteq q.want, q.pc # "idle", moved \ q.want \subseteq moved',
         \A n \in Name \ (q.want \cup moved') : server'[n] = server[n]
  PROVE  WordsHold'
<1>1. DOMAIN run = Caller
  BY DEF SessionsInv, SessionTypes
<1>2. run'[c] = q /\ \A d \in Caller \ {c} : run'[d] = run[d]
  BY <1>1 DEF Steps
<1>3. \A n \in q.want : Owed(n)'
  BY <1>2 DEF Owed
<1>4. \A n \in Name : Owed(n) => Owed(n)'
  BY <1>2 DEF Owed
<1>5. ASSUME NEW n \in Name \ moved', n \notin q.want
      PROVE  /\ told'[n] = "up" \/ (told'[n] = "wasUp" /\ ~Together') => Up(n)' \/ Owed(n)'
             /\ told'[n] = "down" \/ (told'[n] = "wasDown" /\ ~Together') => ~Up(n)' \/ Owed(n)'
  <2>1. n \in Name \ moved /\ server'[n] = server[n]
    BY <1>5
  <2> QED
    BY <1>4, <2>1 DEF SessionsInv, WordsHold, Up, Together
<1> QED
  BY <1>3, <1>5 DEF WordsHold

(* A bring-up's own looks, while it works on others.                       *)
LEMMA LooksStay ==
  ASSUME NEW r, NEW q, KeepsAim(q, r), RunFits(r), LooksHold(r), r.pc \in BringUpPcs, q.pc \in BringUpPcs, moved' = moved,
         \A n \in Name \ Scope(r) : server'[n] = server[n]
  PROVE  LooksHold(q)'
BY DEF KeepsAim, RunFits, LooksHold, Scope, Up, BringUpPcs

LEMMA DedupeKeeps ==
  ASSUME SessionsInv, UNCHANGED sessionSetup, NEW c \in Caller, Dedupe(c)
  PROVE  SessionsInv'
<1>1. PICK q : q = run'[c]
  OBVIOUS
<1>2. PICK r : r = run[c]
  OBVIOUS
<1>3. /\ r.pc = "dedupe" /\ Steps(c, q) /\ KeepsAim(q, r) /\ UNCHANGED <<world, told>>
      /\ q.todo \subseteq {n \in Scope(r) : ~Up(n)} /\ q.fresh \subseteq Scope(r) /\ q.batch \subseteq r.batch
      /\ r.met \subseteq q.met /\ r.refused \subseteq q.refused /\ q.todo \cap q.fresh = {}
      /\ q.refused \subseteq r.refused \cup q.fresh \cup (Scope(r) \ q.todo)
      /\ Scope(r) \subseteq q.met \cup q.fresh \cup q.refused \cup q.todo
      /\ q.pc \in {"clear", "check"} /\ (q.pc = "check" => q.todo = {} /\ q.fresh = {} /\ q.batch = {})
  BY <1>1, <1>2, DedupeIs DEF SessionsInv
<1>4. RunFits(r) /\ PanesFit /\ told \in [Name -> Words] /\ Scope(r) \subseteq Name
  BY <1>2 DEF SessionsInv, SessionTypes, RunFits
<1>5. RunFits(q) /\ Scope(q) = Scope(r)
  <2>1. q.todo \cup q.fresh \cup q.batch \subseteq Scope(r)
    BY <1>3, <1>4 DEF RunFits
  <2> QED
    BY <1>3, <1>4, <2>1, RunFitsOn DEF BringUpPcs
<1>6. PanesFit' /\ told' \in [Name -> Words]
  BY <1>3, <1>4 DEF world, paneVars, PanesFit, Up
<1>7. WordsHold'
  BY <1>2, <1>3, WordsStay DEF KeepsAim, world, paneVars
<1>8. Undisturbed => OneOnItsWay' /\ TypesOnce(q)'
  BY <1>2, <1>3 DEF SessionsInv, OneOnItsWay, TypesOnce, KeepsAim, world, paneVars, Untouched
<1>9. ~Together => ClearsEmpty(q)' /\ LooksHold(q)'
  <2>1. ~Together => LooksHold(q)'
    BY <1>2, <1>3, <1>4, LooksStay DEF SessionsInv, world, paneVars, BringUpPcs
  <2>2. ClearsEmpty(q)'
    BY <1>3, <1>4 DEF ClearsEmpty, PanesFit, Untouched, Up, world, paneVars
  <2> QED
    BY <2>1, <2>2
<1>10. Plain => UnmetAreDown(q)'
  <2> SUFFICES ASSUME Plain PROVE UnmetAreDown(q)'
    OBVIOUS
  <2>1. UnmetAreDown(r)
    BY <1>2 DEF SessionsInv
  <2>2. \A n \in Name : (Up(n)' <=> Up(n)) /\ late'[n] = late[n]
    BY <1>3 DEF Up, world, paneVars
  <2>6. r.fresh = {} /\ r.batch = {}
    BY <1>3, <1>4 DEF RunFits
  <2>3. \A n \in Name : "new" \in late'[n] => n \in q.fresh \cup q.refused
    BY <1>3, <2>1, <2>2, <2>6 DEF UnmetAreDown, BringUpPcs
  <2>4. q.todo \cap (q.fresh \cup q.refused) = {} /\ q.batch = {}
    BY <1>3, <2>1, <2>6 DEF UnmetAreDown, BringUpPcs
  <2>5. q.pc \in BringUpPcs /\ q.pass = 2 => q.want \ q.missing \subseteq q.met \cup q.refused
    BY <1>3, <2>1 DEF UnmetAreDown, BringUpPcs, KeepsAim
  <2> QED
    BY <1>3, <1>4, <1>5, <2>2, <2>3, <2>4, <2>5 DEF UnmetAreDown, BringUpPcs
<1> QED
  BY <1>2, <1>3, <1>5, <1>6, <1>7, <1>8, <1>9, <1>10, OneSteps

LEMMA ClearKeeps ==
  ASSUME SessionsInv, UNCHANGED sessionSetup, NEW c \in Caller, Clear(c)
  PROVE  SessionsInv'
<1>1. PICK q : q = run'[c]
  OBVIOUS
<1>2. PICK r : r = run[c]
  OBVIOUS
<1>3. /\ r.pc = "clear" /\ Steps(c, q) /\ GoesOn(q, r) /\ q.pc \in {"create", "check"} /\ q.batch = {}
      /\ r.todo \subseteq q.todo \cup q.fresh \cup q.refused
      /\ UNCHANGED <<wedged, moved, told>>
  BY <1>1, <1>2, ClearIs DEF SessionsInv
<1>4. PICK K \in SUBSET q.todo : Kill(K)
  BY <1>1, <1>2, ClearIs DEF SessionsInv
<1>5. RunFits(r) /\ PanesFit /\ told \in [Name -> Words] /\ Scope(r) \subseteq Name
  BY <1>2 DEF SessionsInv, SessionTypes, RunFits
<1>6. RunFits(q) /\ Scope(q) = Scope(r) /\ KeepsAim(q, r) /\ q.todo \subseteq Scope(r) /\ Scope(r) \subseteq q.want
  BY <1>3, <1>5, GoesOnFits DEF BringUpPcs
<1>7. /\ PanesFit'
      /\ \A n \in Name : (Up(n)' => Up(n)) /\ (Untouched(n) => Untouched(n)') /\ late'[n] \subseteq late[n]
      /\ \A n \in Name \ K : server'[n] = server[n]
      /\ OneOnItsWay => OneOnItsWay'
  BY <1>4, <1>5, KillFits
<1>8. WordsHold'
  BY <1>2, <1>3, <1>4, <1>6, <1>7, WordsStay DEF KeepsAim
<1>9. Undisturbed => OneOnItsWay' /\ TypesOnce(q)'
  BY <1>2, <1>3, <1>5, <1>6, <1>7 DEF SessionsInv, TypesOnce, KeepsAim, RunFits
<1>10. ~Together => ClearsEmpty(q)' /\ LooksHold(q)'
  <2>1. ~Together => LooksHold(q)'
    BY <1>2, <1>3, <1>4, <1>5, <1>6, <1>7, LooksStay DEF SessionsInv, BringUpPcs
  <2> QED
    BY <1>3, <2>1 DEF ClearsEmpty
<1>11. Plain => UnmetAreDown(q)'
  <2> SUFFICES ASSUME Plain PROVE UnmetAreDown(q)'
    OBVIOUS
  <2>1. UnmetAreDown(r)
    BY <1>2 DEF SessionsInv
  <2>2. \A n \in Name : "new" \in late'[n] => n \in q.fresh \cup q.refused
    BY <1>3, <1>7, <2>1 DEF UnmetAreDown, BringUpPcs, GoesOn
  <2>3. q.todo \cap (q.fresh \cup q.refused) = {} /\ \A n \in q.todo : ~Up(n)'
    BY <1>3, <1>5, <1>6, <1>7, <2>1 DEF UnmetAreDown, GoesOn, BringUpPcs
  <2>4. q.pass = 2 => q.want \ q.missing \subseteq q.met \cup q.refused
    <3>1. q.pass = 2 => r.want \ r.missing \subseteq r.met \cup r.refused
      BY <1>3, <1>6, <2>1 DEF UnmetAreDown, BringUpPcs, KeepsAim
    <3> QED
      BY <1>3, <1>5, <1>6, <3>1 DEF GoesOn, KeepsAim, RunFits, Scope
  <2>5. \A n \in Scope(q) \ (q.met \cup q.refused \cup q.fresh \cup q.todo \cup q.batch) : ~Up(n)'
    BY <1>3, <1>5, <1>6, <1>7, <2>1 DEF UnmetAreDown, GoesOn, BringUpPcs
  <2> QED
    BY <1>3, <2>2, <2>3, <2>4, <2>5 DEF UnmetAreDown, BringUpPcs, GoesOn
<1> QED
  BY <1>2, <1>3, <1>5, <1>6, <1>7, <1>8, <1>9, <1>10, <1>11, OneSteps

(* What is done with stays so as a wave goes on.                           *)
LEMMA UnmetStay ==
  ASSUME NEW r, RunFits(r), UnmetAreDown(r), r.pc \in BringUpPcs \ {"dedupe"}, NEW q, GoesOn(q, r), q.pc \notin {"dedupe", "clear"},
         \A n \in Name : "new" \in late'[n] => "new" \in late[n] \/ n \in q.fresh \cup q.refused,
         q.pc = "verify" => q.batch \subseteq q.met, q.pc \in {"create", "check"} => q.batch = {},
         \A n \in Name \ q.batch : Up(n)' => Up(n),
         \A n \in (r.todo \cup r.batch) \ (q.todo \cup q.batch) : n \in q.met \cup q.refused \cup q.fresh \/ ~Up(n),
         r.pc \in {"clear", "create", "send", "verify", "resend"}, q.todo \cap q.batch = {}
  PROVE  UnmetAreDown(q)'
<1>1. RunFits(q) /\ Scope(q) = Scope(r) /\ Scope(r) \subseteq Name /\ KeepsAim(q, r) /\ q.todo \cup q.fresh \cup q.batch \subseteq Scope(r)
  BY GoesOnFits DEF GoesOn, RunFits
<1>2. \A n \in Name : "new" \in late'[n] => n \in q.fresh \cup q.refused
  BY DEF UnmetAreDown, GoesOn
<1>3. q.todo \cap (q.fresh \cup q.refused \cup q.batch) = {}
  BY DEF UnmetAreDown, GoesOn
<1>4. \A n \in q.todo : ~Up(n)'
  BY <1>1 DEF UnmetAreDown, GoesOn
<1>5. q.pass = 2 => q.want \ q.missing \subseteq q.met \cup q.refused
  <2>1. q.pass = 2 => r.want \ r.missing \subseteq r.met \cup r.refused
    BY <1>1 DEF UnmetAreDown, KeepsAim
  <2> QED
    BY <1>1, <2>1 DEF GoesOn, KeepsAim, RunFits, Scope
<1>6. \A n \in Scope(q) \ (q.met \cup q.refused \cup q.fresh \cup q.todo \cup q.batch) : ~Up(n)'
  <2> SUFFICES ASSUME NEW n \in Scope(r), n \notin q.met \cup q.refused \cup q.fresh \cup q.todo \cup q.batch PROVE ~Up(n)
    BY <1>1
  <2>1. n \notin r.met \cup r.refused \cup r.fresh
    BY DEF GoesOn
  <2>2. CASE n \in r.todo \cup r.batch
    BY <2>2
  <2>3. CASE n \notin r.todo \cup r.batch
    BY <2>1, <2>3 DEF UnmetAreDown
  <2> QED
    BY <2>2, <2>3
<1> QED
  BY <1>1, <1>2, <1>3, <1>4, <1>5, <1>6 DEF UnmetAreDown, GoesOn, BringUpPcs

LEMMA CreateKeeps ==
  ASSUME SessionsInv, UNCHANGED sessionSetup, NEW c \in Caller, Create(c)
  PROVE  SessionsInv'
<1>1. PICK q : q = run'[c]
  OBVIOUS
<1>2. PICK r : r = run[c]
  OBVIOUS
<1>3. /\ r.pc = "create" /\ Steps(c, q) /\ GoesOn(q, r) /\ q.pc \in {"create", "check", "send"}
      /\ q.batch \subseteq {n \in r.todo : server[n] = "none"} /\ Open(q.batch) /\ q.todo \cap q.batch = {}
      /\ q.pc # "send" => q.batch = {}
      /\ UNCHANGED <<keys, mixed, wedged, moved, told>>
  BY <1>1, <1>2, CreateIs DEF SessionsInv
<1>4. PICK N \in SUBSET r.todo : N \subseteq q.fresh \cup q.refused /\ Outrun(N, "new")
  BY <1>1, <1>2, CreateIs DEF SessionsInv
<1>5. RunFits(r) /\ PanesFit /\ told \in [Name -> Words] /\ Scope(r) \subseteq Name
  BY <1>2 DEF SessionsInv, SessionTypes, RunFits
<1>6. RunFits(q) /\ Scope(q) = Scope(r) /\ KeepsAim(q, r) /\ q.batch \subseteq Scope(r) /\ Scope(r) \subseteq q.want
  BY <1>3, <1>5, GoesOnFits DEF BringUpPcs
<1>7. late' \in [Name -> SUBSET {"new", "send"}] /\ \A n \in Name : late'[n] = IF n \in N THEN late[n] \cup {"new"} ELSE late[n]
  BY <1>4, <1>5 DEF Outrun, PanesFit
<1>8. /\ PanesFit'
      /\ \A n \in Name \ q.batch : server'[n] = server[n]
      /\ \A n \in Name : Untouched(n) => Untouched(n)'
      /\ \A n \in Name \cap q.batch : Untouched(n)'
      /\ OneOnItsWay => OneOnItsWay'
  BY <1>3, <1>5, <1>7, OpenFits
<1>9. WordsHold'
  BY <1>2, <1>3, <1>6, <1>8, WordsStay DEF KeepsAim
<1>10. Undisturbed => OneOnItsWay' /\ TypesOnce(q)'
  <2> SUFFICES ASSUME Undisturbed PROVE OneOnItsWay' /\ TypesOnce(q)'
    OBVIOUS
  <2>1. TypesOnce(r) /\ OneOnItsWay
    BY <1>2 DEF SessionsInv
  <2> QED
    BY <1>3, <1>5, <1>6, <1>7, <1>8, <2>1 DEF TypesOnce, KeepsAim, RunFits
<1>11. ~Together => ClearsEmpty(q)' /\ LooksHold(q)'
  <2>1. ~Together => LooksHold(q)'
    BY <1>2, <1>3, <1>5, <1>6, <1>8, LooksStay DEF SessionsInv, BringUpPcs
  <2> QED
    BY <1>3, <2>1 DEF ClearsEmpty
<1>12. Plain => UnmetAreDown(q)'
  <2> SUFFICES ASSUME Plain PROVE UnmetAreDown(q)'
    OBVIOUS
  <2>1. UnmetAreDown(r)
    BY <1>2 DEF SessionsInv
  <2>2. \A n \in r.todo \cup r.batch : ~Up(n)
    BY <1>3, <2>1 DEF UnmetAreDown
  <2>3. \A n \in Name : "new" \in late'[n] => "new" \in late[n] \/ n \in q.fresh \cup q.refused
    BY <1>4, <1>7
  <2>4. \A n \in Name \ q.batch : Up(n)' => Up(n)
    BY <1>8 DEF Up
  <2> QED
    BY <1>3, <1>5, <2>1, <2>2, <2>3, <2>4, UnmetStay DEF BringUpPcs
<1> QED
  BY <1>2, <1>3, <1>5, <1>6, <1>8, <1>9, <1>10, <1>11, <1>12, OneSteps

LEMMA SendKeeps ==
  ASSUME SessionsInv, UNCHANGED sessionSetup, NEW c \in Caller, Send(c)
  PROVE  SessionsInv'
<1>1. PICK q : q = run'[c]
  OBVIOUS
<1>2. PICK r : r = run[c]
  OBVIOUS
<1>3. /\ r.pc \in {"send", "resend"} /\ Steps(c, q) /\ GoesOn(q, r) /\ q.pc \in {"verify", "create", "check"}
      /\ q.batch \subseteq r.batch /\ r.batch \subseteq q.met
      /\ q.pc # "verify" => q.batch = {}
      /\ UNCHANGED <<server, pane, wedged, moved, told>>
  BY <1>1, <1>2, SendIs DEF SessionsInv
<1>4. PICK N, S \in SUBSET r.batch : /\ N \cap S = {} /\ S \cap q.batch = {} /\ (\A n \in N \cup S : Up(n))
                                     /\ Type(N) /\ Outrun(S, "send")
  BY <1>1, <1>2, SendIs DEF SessionsInv
<1>5. RunFits(r) /\ PanesFit /\ told \in [Name -> Words] /\ Scope(r) \subseteq Name /\ r.batch \subseteq Scope(r)
  BY <1>2 DEF SessionsInv, SessionTypes, RunFits
<1>6. RunFits(q) /\ Scope(q) = Scope(r) /\ KeepsAim(q, r) /\ Scope(r) \subseteq q.want
  BY <1>3, <1>5, GoesOnFits DEF BringUpPcs
<1>7. /\ PanesFit'
      /\ (\A n \in N \cup S : Untouched(n)) /\ OneOnItsWay => OneOnItsWay'
      /\ \A n \in Name \ (N \cup S) : keys'[n] = keys[n] /\ late'[n] = late[n]
      /\ \A n \in Name \ S : late'[n] = late[n]
      /\ \A n \in Name : "new" \in late'[n] => "new" \in late[n]
  BY <1>3, <1>4, <1>5, TypeFits
<1>8. WordsHold'
  BY <1>2, <1>3, <1>6, WordsStay DEF KeepsAim
<1>9. Undisturbed => OneOnItsWay' /\ TypesOnce(q)'
  <2> SUFFICES ASSUME Undisturbed PROVE OneOnItsWay' /\ TypesOnce(q)'
    OBVIOUS
  <2>1. TypesOnce(r) /\ OneOnItsWay
    BY <1>2 DEF SessionsInv
  <2>2. \A n \in r.batch : Untouched(n)
    BY <1>3, <2>1 DEF TypesOnce
  <2>3. OneOnItsWay'
    BY <1>4, <1>7, <2>1, <2>2
  <2>4. \A n \in q.batch : "send" \notin late'[n]
    BY <1>3, <1>4, <1>5, <1>7, <2>2 DEF Untouched
  <2>5. \A n \in q.revive : "send" \notin late'[n]
    BY <1>3, <1>4, <1>5, <1>6, <1>7, <2>1 DEF TypesOnce, KeepsAim, RunFits
  <2> QED
    BY <1>3, <2>3, <2>4, <2>5 DEF TypesOnce
<1>10. ~Together => ClearsEmpty(q)' /\ LooksHold(q)'
  <2>1. ~Together => LooksHold(q)'
    BY <1>2, <1>3, <1>5, <1>6, LooksStay DEF SessionsInv, BringUpPcs
  <2> QED
    BY <1>3, <2>1 DEF ClearsEmpty
<1>11. Plain => UnmetAreDown(q)'
  <2> SUFFICES ASSUME Plain PROVE UnmetAreDown(q)'
    OBVIOUS
  <2>1. UnmetAreDown(r)
    BY <1>2 DEF SessionsInv
  <2>2. \A n \in Name : Up(n)' => Up(n)
    BY <1>3 DEF Up
  <2>3. q.todo = r.todo
    BY <1>1, <1>2, SendIs DEF SessionsInv
  <2>4. q.todo \cap q.batch = {}
    BY <1>3, <2>1, <2>3 DEF UnmetAreDown, BringUpPcs
  <2> QED
    BY <1>3, <1>5, <1>7, <2>1, <2>2, <2>3, <2>4, UnmetStay DEF BringUpPcs
<1> QED
  BY <1>2, <1>3, <1>5, <1>6, <1>7, <1>8, <1>9, <1>10, <1>11, OneSteps

LEMMA VerifyKeeps ==
  ASSUME SessionsInv, UNCHANGED sessionSetup, NEW c \in Caller, Verify(c)
  PROVE  SessionsInv'
<1>1. PICK q : q = run'[c]
  OBVIOUS
<1>2. PICK r : r = run[c]
  OBVIOUS
<1>3. /\ r.pc = "verify" /\ Steps(c, q) /\ GoesOn(q, r) /\ q.pc \in {"resend", "create", "check"}
      /\ q.batch \subseteq {n \in r.batch : AtShell(n)} /\ (q.pc # "resend" => q.batch = {}) /\ q.todo = r.todo
      /\ UNCHANGED <<world, told>>
  BY <1>1, <1>2, VerifyIs DEF SessionsInv
<1>4. RunFits(r) /\ PanesFit /\ told \in [Name -> Words] /\ Scope(r) \subseteq Name /\ r.batch \subseteq Scope(r)
  BY <1>2 DEF SessionsInv, SessionTypes, RunFits
<1>5. RunFits(q) /\ Scope(q) = Scope(r) /\ KeepsAim(q, r) /\ Scope(r) \subseteq q.want
  BY <1>3, <1>4, GoesOnFits DEF BringUpPcs
<1>6. PanesFit' /\ told' \in [Name -> Words]
  BY <1>3, <1>4 DEF world, paneVars, PanesFit, Up
<1>7. WordsHold'
  BY <1>2, <1>3, WordsStay DEF GoesOn, KeepsAim, world, paneVars
<1>8. Undisturbed => OneOnItsWay' /\ TypesOnce(q)'
  <2> SUFFICES ASSUME Undisturbed PROVE OneOnItsWay' /\ TypesOnce(q)'
    OBVIOUS
  <2>1. TypesOnce(r) /\ OneOnItsWay
    BY <1>2 DEF SessionsInv
  <2>2. \A n \in q.batch : Untouched(n)
    BY <1>3, <2>1 DEF TypesOnce, AtShell, Untouched, Undisturbed, Slow
  <2> QED
    BY <1>3, <1>5, <2>1, <2>2 DEF TypesOnce, OneOnItsWay, KeepsAim, Untouched, world, paneVars
<1>9. ~Together => ClearsEmpty(q)' /\ LooksHold(q)'
  <2>1. ~Together => LooksHold(q)'
    BY <1>2, <1>3, <1>4, <1>5, LooksStay DEF SessionsInv, BringUpPcs, world, paneVars
  <2> QED
    BY <1>3, <2>1 DEF ClearsEmpty
<1>10. Plain => UnmetAreDown(q)'
  <2> SUFFICES ASSUME Plain PROVE UnmetAreDown(q)'
    OBVIOUS
  <2>1. UnmetAreDown(r)
    BY <1>2 DEF SessionsInv
  <2>2. \A n \in Name : (Up(n)' => Up(n)) /\ late'[n] = late[n]
    BY <1>3 DEF Up, world, paneVars
  <2>3. r.batch \subseteq q.met /\ q.todo \cap q.batch = {}
    BY <1>3, <2>1 DEF UnmetAreDown, GoesOn, BringUpPcs
  <2> QED
    BY <1>3, <1>4, <2>1, <2>2, <2>3, UnmetStay DEF BringUpPcs
<1> QED
  BY <1>2, <1>3, <1>5, <1>6, <1>7, <1>8, <1>9, <1>10, OneSteps

(* A report takes back what it was owed.                                   *)
LEMMA WordsTold ==
  ASSUME SessionsInv, UNCHANGED sessionSetup, NEW c \in Caller, NEW q, Steps(c, q), moved \ run[c].want \subseteq moved',
         \A n \in Name \ (run[c].want \cup moved') : server'[n] = server[n] /\ told'[n] = told[n],
         \A n \in run[c].want \ moved' :
           /\ told'[n] = "up" \/ (told'[n] = "wasUp" /\ ~Together) => Up(n)'
           /\ told'[n] = "down" \/ (told'[n] = "wasDown" /\ ~Together) => ~Up(n)'
  PROVE  WordsHold'
<1>1. DOMAIN run = Caller
  BY DEF SessionsInv, SessionTypes
<1>2. run'[c] = q /\ \A d \in Caller \ {c} : run'[d] = run[d]
  BY <1>1 DEF Steps
<1>3. \A n \in Name : n \notin run[c].want /\ Owed(n) => Owed(n)'
  BY <1>2 DEF Owed
<1>4. ASSUME NEW n \in Name \ moved', n \notin run[c].want
      PROVE  /\ told'[n] = "up" \/ (told'[n] = "wasUp" /\ ~Together') => Up(n)' \/ Owed(n)'
             /\ told'[n] = "down" \/ (told'[n] = "wasDown" /\ ~Together') => ~Up(n)' \/ Owed(n)'
  <2>1. n \in Name \ moved /\ server'[n] = server[n] /\ told'[n] = told[n]
    BY <1>4
  <2> QED
    BY <1>3, <1>4, <2>1 DEF SessionsInv, WordsHold, Up, Together
<1> QED
  BY <1>4 DEF WordsHold, Together

LEMMA OverFits ==
  ASSUME NEW q, NEW S \in SUBSET Name, q = Idle \/ q = [Idle EXCEPT !.pc = "revive", !.revive = S]
  PROVE  /\ RunFits(q) /\ q.pc \in {"idle", "revive"} /\ q.want = {} /\ q.todo = {} /\ (q.revive = {} \/ q.revive = S)
         /\ ClearsEmpty(q)' /\ LooksHold(q)' /\ UnmetAreDown(q)'
         /\ (\A n \in S : "send" \notin late'[n]) => TypesOnce(q)'
<1>1. CASE q = Idle
  BY <1>1, IdleFits DEF ClearsEmpty, LooksHold, UnmetAreDown, TypesOnce, BringUpPcs
<1>2. CASE q = [Idle EXCEPT !.pc = "revive", !.revive = S]
  <2>1. /\ DOMAIN q = RunFields /\ q.pc = "revive" /\ q.revive = S /\ q.want = {} /\ q.todo = {} /\ q.fresh = {} /\ q.batch = {}
        /\ q.pass = 1 /\ q.missing = {} /\ q.refused = {}
    BY <1>2 DEF Idle, RunFields
  <2>2. q = [Idle EXCEPT !.pc = q.pc, !.revive = q.revive]
    BY <1>2, <2>1
  <2>3. RunFits(q)
    BY <2>1, <2>2 DEF RunFits, Scope
  <2> QED
    BY <2>1, <2>3 DEF ClearsEmpty, LooksHold, UnmetAreDown, TypesOnce, BringUpPcs
<1> QED
  BY <1>1, <1>2

(* A bring-up reports: what it found missing, or what it was refused, has  *)
(* failed; the rest it has just found, or had found before.                *)
LEMMA ReportKeeps ==
  ASSUME SessionsInv, UNCHANGED sessionSetup, NEW c \in Caller, run[c].pc \in BringUpPcs, NEW missed, Reported(c, missed),
         PanesFit', Undisturbed => OneOnItsWay' /\ \A n \in run[c].revive : "send" \notin late'[n],
         moved \ run[c].want \subseteq moved', \A n \in Name \ Scope(run[c]) : server'[n] = server[n],
         \A n \in Scope(run[c]) \ (missed \cup moved') : Up(n)', run[c].pass = 2 => run[c].missing \ Scope(run[c]) \subseteq missed,
         \A n \in Name \ Scope(run[c]) : n \notin moved' => n \notin moved
  PROVE  SessionsInv'
<1>1. PICK q : q = run'[c]
  OBVIOUS
<1>2. PICK r : r = run[c]
  OBVIOUS
<1>3. /\ Steps(c, q) /\ (q = Idle \/ (q = [Idle EXCEPT !.pc = "revive", !.revive = r.revive]))
      /\ told' \in [Name -> Words] /\ \A n \in Name \ r.want : told'[n] = told[n]
  BY <1>1, <1>2, ReportIs DEF SessionsInv, BringUpPcs
<1>4. \A n \in r.want : /\ told'[n] \in {"failed", "up", "wasUp"}
                        /\ told'[n] # "failed" => n \notin missed \cup r.refused
                        /\ told'[n] = "up" => n \in Scope(r)
                        /\ told'[n] = "wasUp" => n \notin Scope(r)
  BY <1>1, <1>2, ReportIs DEF SessionsInv, BringUpPcs
<1>5. RunFits(r) /\ r.revive \subseteq Name /\ Scope(r) \subseteq r.want /\ r.want \subseteq Name
  BY <1>2 DEF SessionsInv, SessionTypes, RunFits
<1>6. /\ RunFits(q) /\ ClearsEmpty(q)' /\ LooksHold(q)' /\ UnmetAreDown(q)'
      /\ (\A n \in r.revive : "send" \notin late'[n]) => TypesOnce(q)'
  BY <1>3, <1>5, OverFits
<1>7. WordsHold'
  <2>1. \A n \in Name \ (r.want \cup moved') : server'[n] = server[n] /\ told'[n] = told[n]
    BY <1>2, <1>3, <1>5
  <2>2. ASSUME NEW n \in r.want \ moved'
        PROVE  /\ told'[n] = "up" \/ (told'[n] = "wasUp" /\ ~Together) => Up(n)'
               /\ told'[n] = "down" \/ (told'[n] = "wasDown" /\ ~Together) => ~Up(n)'
    <3>1. told'[n] = "up" => Up(n)'
      BY <1>2, <1>4, <2>2
    <3>2. ASSUME told'[n] = "wasUp", ~Together PROVE Up(n)'
      <4>1. n \notin Scope(r) /\ n \notin missed /\ r.pass = 2 /\ n \notin r.missing
        BY <1>2, <1>4, <1>5, <3>2 DEF Scope, RunFits
      <4>2. n \notin moved /\ server'[n] = server[n]
        BY <1>2, <1>5, <2>2, <4>1
      <4> QED
        BY <1>2, <3>2, <4>1, <4>2 DEF SessionsInv, LooksHold, Up
    <3>3. told'[n] \notin {"down", "wasDown"}
      BY <1>4
    <3> QED
      BY <3>1, <3>2, <3>3
  <2> QED
    BY <1>2, <1>3, <2>1, <2>2, WordsTold
<1> QED
  BY <1>2, <1>3, <1>6, <1>7, OneSteps DEF BringUpPcs

(* The check: a second pass over what is missing, or the report.           *)
LooksAgain(q, r, gone) == q = [r EXCEPT !.pc = "dedupe", !.pass = 2, !.stuck = gone \ r.refused, !.missing = gone]

WasMissing(r, gone) == IF r.pass = 1 THEN gone ELSE {n \in r.missing : n \in gone \/ n \notin r.stuck}

LEMMA CheckIs ==
  ASSUME SessionTypes, NEW c \in Caller, Check(c)
  PROVE  LET r == run[c]  q == run'[c] IN
         /\ r.pc = "check" /\ moved' = moved \ Scope(r) /\ UNCHANGED <<paneVars, wedged>>
         /\ \E gone \in SUBSET Scope(r) :
              /\ \A n \in Scope(r) \ gone : Up(n)
              /\ \/ r.pass = 1 /\ Steps(c, q) /\ told' = told /\ LooksAgain(q, r, gone)
                 \/ Reported(c, WasMissing(r, gone))
<1> DEFINE r == run[c]
<1>1. DOMAIN run = Caller
  BY DEF SessionTypes
<1>2. PICK flap \in SUBSET Scope(r) : LET gone == Missed(Scope(r)) \cup flap
                                          again == gone \ r.refused
                                      IN IF r.pass = 1 /\ again # {}
                                           THEN /\ Becomes(c, [r EXCEPT !.pc = "dedupe", !.pass = 2, !.stuck = again, !.missing = gone])
                                                /\ UNCHANGED told
                                         ELSE Reported(c, IF r.pass = 1 THEN gone ELSE {n \in r.missing : n \in gone \/ n \notin r.stuck})
  BY DEF Check
<1> DEFINE gone == Missed(Scope(r)) \cup flap
           s == [r EXCEPT !.pc = "dedupe", !.pass = 2, !.stuck = gone \ r.refused, !.missing = gone]
<1>3. gone \in SUBSET Scope(r) /\ \A n \in Scope(r) \ gone : Up(n)
  BY DEF Missed, Answering
<1>4. \/ r.pass = 1 /\ Becomes(c, s) /\ told' = told
      \/ Reported(c, WasMissing(r, gone))
  BY <1>2 DEF WasMissing
<1> HIDE DEF gone
<1>5. Becomes(c, s) => Steps(c, s) /\ run'[c] = s
  BY <1>1 DEF Becomes, Steps
<1> QED
  BY <1>3, <1>4, <1>5 DEF Check, LooksAgain

LEMMA CheckKeeps ==
  ASSUME SessionsInv, UNCHANGED sessionSetup, NEW c \in Caller, Check(c)
  PROVE  SessionsInv'
<1>1. PICK q : q = run'[c]
  OBVIOUS
<1>2. PICK r : r = run[c]
  OBVIOUS
<1>3. r.pc = "check" /\ moved' = moved \ Scope(r) /\ UNCHANGED <<paneVars, wedged>>
  BY <1>1, <1>2, CheckIs DEF SessionsInv
<1>4. PICK gone \in SUBSET Scope(r) :
        /\ \A n \in Scope(r) \ gone : Up(n)
        /\ \/ r.pass = 1 /\ Steps(c, q) /\ told' = told /\ LooksAgain(q, r, gone)
           \/ Reported(c, WasMissing(r, gone))
  BY <1>1, <1>2, CheckIs DEF SessionsInv
<1>5. RunFits(r) /\ PanesFit /\ told \in [Name -> Words] /\ Scope(r) \subseteq r.want /\ r.want \subseteq Name
  BY <1>2 DEF SessionsInv, SessionTypes, RunFits
<1>6. PanesFit'
  BY <1>3, <1>5 DEF PanesFit, Up, paneVars
<1>7. Undisturbed => OneOnItsWay' /\ TypesOnce(r)'
  BY <1>2, <1>3 DEF SessionsInv, OneOnItsWay, TypesOnce, Untouched, paneVars
<1>8. CASE r.pass = 1 /\ Steps(c, q) /\ told' = told /\ LooksAgain(q, r, gone)
  <2>1. /\ DOMAIN q = RunFields /\ q.pc = "dedupe" /\ q.pass = 2 /\ q.stuck = gone \ r.refused /\ q.missing = gone
        /\ q.want = r.want /\ q.revive = r.revive /\ q.refused = r.refused /\ q.fresh = r.fresh /\ q.todo = r.todo
        /\ q.batch = r.batch /\ q.met = r.met
    BY <1>5, <1>8 DEF RunFits, RunFields, LooksAgain
  <2>2. Scope(r) = r.want /\ Scope(q) = gone \ r.refused /\ r.todo = {} /\ r.fresh = {} /\ r.batch = {}
    BY <1>3, <1>5, <1>8, <2>1 DEF Scope, RunFits
  <2>3. RunFits(q)
    BY <1>4, <1>5, <2>1, <2>2 DEF RunFits
  <2>4. WordsHold'
    <3>1. \A n \in Name : server'[n] = server[n]
      BY <1>3 DEF paneVars
    <3> QED
      BY <1>2, <1>3, <1>5, <1>8, <2>1, <3>1, WordsStay
  <2>5. Undisturbed => OneOnItsWay' /\ TypesOnce(q)'
    BY <1>7, <2>1 DEF TypesOnce
  <2>6. ClearsEmpty(q)' /\ LooksHold(q)'
    <3>1. \A n \in q.want \ q.missing : Up(n)'
      BY <1>3, <1>4, <2>1, <2>2 DEF Up, paneVars
    <3> QED
      BY <2>1, <3>1 DEF ClearsEmpty, LooksHold
  <2>7. Plain => UnmetAreDown(q)'
    <3> SUFFICES ASSUME Plain PROVE UnmetAreDown(q)'
      OBVIOUS
    <3>1. UnmetAreDown(r)
      BY <1>2 DEF SessionsInv
    <3>2. r.want \ gone \subseteq r.met \cup r.refused
      BY <1>3, <1>4, <2>2, <3>1 DEF UnmetAreDown, BringUpPcs
    <3>3. \A n \in Name : "new" \in late'[n] => n \in q.fresh \cup q.refused
      BY <1>3, <2>1, <3>1 DEF UnmetAreDown, BringUpPcs, paneVars
    <3> QED
      BY <2>1, <2>2, <3>2, <3>3 DEF UnmetAreDown
  <2> QED
    BY <1>2, <1>3, <1>5, <1>6, <1>8, <2>3, <2>4, <2>5, <2>6, <2>7, OneSteps
<1>9. CASE Reported(c, WasMissing(r, gone))
  <2>1. \A n \in Scope(r) \ WasMissing(r, gone) : Up(n)'
    BY <1>3, <1>4, <1>5 DEF WasMissing, Scope, RunFits, Up, paneVars
  <2>2. r.pass = 2 => r.missing \ Scope(r) \subseteq WasMissing(r, gone)
    BY DEF WasMissing, Scope
  <2>3. \A n \in Name : server'[n] = server[n]
    BY <1>3 DEF paneVars
  <2>4. Undisturbed => OneOnItsWay' /\ \A n \in r.revive : "send" \notin late'[n]
    BY <1>7 DEF TypesOnce
  <2> QED
    BY <1>2, <1>3, <1>5, <1>6, <1>9, <2>1, <2>2, <2>3, <2>4, ReportKeeps DEF BringUpPcs
<1> QED
  BY <1>4, <1>8, <1>9

(* A raise: some of a wave is created or typed into, and the pass is over. *)
LEMMA RaisedIs ==
  ASSUME SessionTypes, NEW c \in Caller, Raised(c)
  PROVE  LET r == run[c]  q == run'[c] IN
         /\ Raise /\ r.pc \in {"create", "send"} /\ UNCHANGED <<late, wedged, moved>>
         /\ \/ \E N \in SUBSET r.todo : (\A n \in N : server[n] = "none") /\ Open(N) /\ UNCHANGED <<keys, mixed>>
            \/ r.pc = "send" /\ \E N \in SUBSET r.batch : (\A n \in N : Up(n)) /\ Type(N) /\ UNCHANGED <<server, pane>>
         /\ \/ /\ Steps(c, q) /\ told' = told
               /\ KeepsAim(q, r) /\ q.pc = "check" /\ q.todo = {} /\ q.fresh = {} /\ q.batch = {}
            \/ r.pass = 2 /\ Reported(c, r.missing)
<1> DEFINE r == run[c]
           s == [r EXCEPT !.fresh = {}, !.todo = {}, !.batch = {}, !.sends = 0, !.pc = "check"]
<1>1. DOMAIN run = Caller /\ DOMAIN r = RunFields /\ r.pass \in {1, 2}
  BY DEF SessionTypes, RunFits
<1>2. PICK V \in (IF r.pc = "create" THEN Waves(r) ELSE {r.batch}), W \in SUBSET Name :
        /\ W \subseteq V
        /\ IF r.pc = "create" THEN Open({n \in W \ wedged : server[n] = "none"}) /\ UNCHANGED <<keys, mixed>>
           ELSE Type({n \in W \ wedged : Up(n)}) /\ UNCHANGED <<server, pane>>
        /\ IF r.pass = 1 THEN Becomes(c, s) /\ UNCHANGED told ELSE Reported(c, r.missing)
  BY DEF Raised
<1>3. r.pc = "create" => W \subseteq r.todo
  BY <1>2 DEF Waves
<1>4. r.pc # "create" => W \subseteq r.batch
  BY <1>2
<1>5. KeepsAim(s, r) /\ s.pc = "check" /\ s.todo = {} /\ s.fresh = {} /\ s.batch = {}
  BY <1>1 DEF KeepsAim, RunFields
<1> HIDE DEF s
<1>6. Becomes(c, s) => Steps(c, s) /\ run'[c] = s
  BY <1>1 DEF Becomes, Steps
<1>7. \/ \E N \in SUBSET r.todo : (\A n \in N : server[n] = "none") /\ Open(N) /\ UNCHANGED <<keys, mixed>>
      \/ r.pc = "send" /\ \E N \in SUBSET r.batch : (\A n \in N : Up(n)) /\ Type(N) /\ UNCHANGED <<server, pane>>
  <2>1. CASE r.pc = "create"
    <3> DEFINE N == {n \in W \ wedged : server[n] = "none"}
    <3>1. N \in SUBSET r.todo /\ (\A n \in N : server[n] = "none") /\ Open(N) /\ UNCHANGED <<keys, mixed>>
      BY <1>2, <1>3, <2>1
    <3> QED
      BY <3>1
  <2>2. CASE r.pc = "send"
    <3> DEFINE N == {n \in W \ wedged : Up(n)}
    <3>1. N \in SUBSET r.batch /\ (\A n \in N : Up(n)) /\ Type(N) /\ UNCHANGED <<server, pane>>
      BY <1>2, <1>4, <2>2
    <3> QED
      BY <2>2, <3>1
  <2> QED
    BY <2>1, <2>2 DEF Raised
<1> QED
  BY <1>1, <1>2, <1>5, <1>6, <1>7 DEF Raised

LEMMA RaisedKeeps ==
  ASSUME SessionsInv, UNCHANGED sessionSetup, NEW c \in Caller, Raised(c)
  PROVE  SessionsInv'
<1>1. PICK q : q = run'[c]
  OBVIOUS
<1>2. PICK r : r = run[c]
  OBVIOUS
<1>3. Raise /\ r.pc \in {"create", "send"} /\ UNCHANGED <<late, wedged, moved>>
  BY <1>2, RaisedIs DEF SessionsInv
<1>4. \/ \E N \in SUBSET r.todo : (\A n \in N : server[n] = "none") /\ Open(N) /\ UNCHANGED <<keys, mixed>>
      \/ r.pc = "send" /\ \E N \in SUBSET r.batch : (\A n \in N : Up(n)) /\ Type(N) /\ UNCHANGED <<server, pane>>
  BY <1>2, RaisedIs DEF SessionsInv
<1>5. \/ /\ Steps(c, q) /\ told' = told
         /\ KeepsAim(q, r) /\ q.pc = "check" /\ q.todo = {} /\ q.fresh = {} /\ q.batch = {}
      \/ r.pass = 2 /\ Reported(c, r.missing)
  BY <1>1, <1>2, RaisedIs DEF SessionsInv
<1>6. /\ RunFits(r) /\ PanesFit /\ told \in [Name -> Words] /\ Scope(r) \subseteq r.want /\ r.want \subseteq Name
      /\ r.todo \subseteq Scope(r) /\ r.batch \subseteq Scope(r)
  BY <1>2 DEF SessionsInv, SessionTypes, RunFits
<1>7. PanesFit' /\ (\A n \in Name \ Scope(r) : server'[n] = server[n]) /\ (Undisturbed => OneOnItsWay')
  <2>1. ASSUME NEW N \in SUBSET r.todo, \A n \in N : server[n] = "none", Open(N), UNCHANGED <<keys, mixed>>
        PROVE  PanesFit' /\ (\A n \in Name \ Scope(r) : server'[n] = server[n]) /\ (Undisturbed => OneOnItsWay')
    <3>1. late' \in [Name -> SUBSET {"new", "send"}] /\ \A n \in Name : "send" \in late'[n] => "send" \in late[n]
      BY <1>3, <1>6 DEF PanesFit
    <3>2. PanesFit' /\ (\A n \in Name \ N : server'[n] = server[n]) /\ (OneOnItsWay => OneOnItsWay')
      BY <1>6, <2>1, <3>1, OpenFits
    <3> QED
      BY <1>6, <3>2 DEF SessionsInv
  <2>2. ASSUME r.pc = "send", NEW N \in SUBSET r.batch, \A n \in N : Up(n), Type(N), UNCHANGED <<server, pane>>
        PROVE  PanesFit' /\ (\A n \in Name \ Scope(r) : server'[n] = server[n]) /\ (Undisturbed => OneOnItsWay')
    <3>1. Outrun({}, "send")
      BY <1>3, <1>6 DEF PanesFit, Outrun
    <3>2. Undisturbed => \A n \in N : Untouched(n)
      BY <1>2, <2>2 DEF SessionsInv, TypesOnce
    <3>3. N \in SUBSET Name /\ {} \in SUBSET Name
      BY <1>6
    <3>4. PanesFit' /\ ((\A n \in N \cup {} : Untouched(n)) /\ OneOnItsWay => OneOnItsWay')
      BY <1>6, <2>2, <3>1, <3>3, TypeFits
    <3> QED
      BY <2>2, <3>2, <3>4 DEF SessionsInv
  <2> QED
    BY <1>4, <2>1, <2>2
<1>8. Undisturbed => \A n \in r.revive : "send" \notin late'[n]
  BY <1>2, <1>3 DEF SessionsInv, TypesOnce
<1>9. CASE Steps(c, q) /\ told' = told /\ KeepsAim(q, r) /\ q.pc = "check" /\ q.todo = {} /\ q.fresh = {} /\ q.batch = {}
  <2>1. RunFits(q)
    BY <1>3, <1>6, <1>9, RunFitsOn DEF BringUpPcs
  <2>2. WordsHold'
    BY <1>2, <1>3, <1>6, <1>7, <1>9, WordsStay DEF KeepsAim
  <2>3. Undisturbed => OneOnItsWay' /\ TypesOnce(q)'
    BY <1>7, <1>8, <1>9 DEF TypesOnce, KeepsAim
  <2>4. ~Together => ClearsEmpty(q)' /\ LooksHold(q)'
    <3>1. ~Together => LooksHold(q)'
      BY <1>2, <1>3, <1>6, <1>7, <1>9, LooksStay DEF SessionsInv, BringUpPcs
    <3> QED
      BY <1>9, <3>1 DEF ClearsEmpty
  <2>5. ~Plain
    BY <1>3 DEF Plain, Raise
  <2> QED
    BY <1>2, <1>3, <1>6, <1>7, <1>9, <2>1, <2>2, <2>3, <2>4, <2>5, OneSteps
<1>10. CASE r.pass = 2 /\ Reported(c, r.missing)
  <2>1. \A n \in Scope(r) \ (r.missing \cup moved') : Up(n)'
    BY <1>6, <1>10 DEF RunFits, Scope
  <2> QED
    BY <1>2, <1>3, <1>6, <1>7, <1>8, <1>10, <2>1, ReportKeeps DEF BringUpPcs
<1> QED
  BY <1>5, <1>9, <1>10

-----------------------------------------------------------------------------
(* A command starts.                                                       *)
LEMMA StartKeeps ==
  ASSUME SessionsInv, UNCHANGED <<sessionSetup, world, told>>, NEW c \in Caller, MayStart(c), NEW N \in SUBSET Name, NEW q, Becomes(c, q),
         \/ q = [Idle EXCEPT !.pc = "dedupe", !.want = N]
         \/ q = [Idle EXCEPT !.pc = "before", !.want = N]
         \/ q = [Idle EXCEPT !.pc = "status"]
  PROVE  SessionsInv'
<1>1. /\ DOMAIN q = RunFields /\ q.pc \in {"dedupe", "before", "status"} /\ q.want \subseteq Name /\ q.revive = {} /\ q.pass = 1
      /\ q.todo = {} /\ q.fresh = {} /\ q.batch = {} /\ q.refused = {} /\ q.missing = {} /\ Scope(q) = q.want
      /\ q.pc = "status" => q = [Idle EXCEPT !.pc = q.pc]
  BY DEF Idle, RunFields, Scope
<1>2. RunFits(q)
  BY <1>1 DEF RunFits
<1>3. Steps(c, q) /\ run[c].pc = "idle" /\ RunFits(run[c]) /\ PanesFit /\ told \in [Name -> Words]
  BY DEF Becomes, Steps, MayStart, SessionsInv, SessionTypes
<1>4. run[c].want = {}
  <2>1. run[c] = [Idle EXCEPT !.pc = "idle"]
    BY <1>3 DEF RunFits
  <2> QED
    BY <2>1 DEF Idle
<1>5. PanesFit' /\ told' \in [Name -> Words] /\ moved' = moved /\ \A n \in Name : server'[n] = server[n] /\ late'[n] = late[n]
  BY <1>3 DEF world, paneVars, PanesFit, Up
<1>6. WordsHold'
  BY <1>1, <1>3, <1>4, <1>5, WordsStay
<1>7. Undisturbed => OneOnItsWay' /\ TypesOnce(q)'
  <2>1. Undisturbed => \A n \in Name : late[n] = {}
    BY DEF Undisturbed, MayStart, Late
  <2>2. Undisturbed => OneOnItsWay'
    BY DEF SessionsInv, OneOnItsWay, world, paneVars
  <2> QED
    BY <1>1, <1>5, <2>1, <2>2 DEF TypesOnce
<1>8. ClearsEmpty(q)' /\ LooksHold(q)'
  BY <1>1 DEF ClearsEmpty, LooksHold
<1>9. Plain => UnmetAreDown(q)'
  <2>1. Plain => \A n \in Name : late[n] = {}
    BY DEF Plain, MayStart, Late
  <2> QED
    BY <1>1, <1>5, <2>1 DEF UnmetAreDown, BringUpPcs
<1>10. ~Together => \A d \in Caller : run[d].pc = "idle"
  BY DEF MayStart
<1> QED
  BY <1>2, <1>3, <1>5, <1>6, <1>7, <1>8, <1>9, <1>10, OneSteps

(* `up' knows what is there, and brings up the rest.                       *)
LEMMA StatusKeeps ==
  ASSUME SessionsInv, UNCHANGED sessionSetup, NEW c \in Caller, Status(c), Fleet \subseteq Name
  PROVE  SessionsInv'
<1> DEFINE live == {n \in Fleet : Up(n)}
<1>0. PICK q : q = [Idle EXCEPT !.pc = IF live = Fleet THEN "revive" ELSE "dedupe", !.want = Fleet \ live, !.revive = live]
  OBVIOUS
<1>1. run[c].pc = "status" /\ Becomes(c, q) /\ UNCHANGED <<world, told>>
  BY <1>0 DEF Status
<1>2. /\ DOMAIN q = RunFields /\ q.pc \in {"dedupe", "revive"} /\ q.want \subseteq Name /\ q.revive \subseteq Name /\ q.pass = 1
      /\ q.want \cap q.revive = {} /\ (q.pc = "revive" => q.want = {})
      /\ q.todo = {} /\ q.fresh = {} /\ q.batch = {} /\ q.refused = {} /\ q.missing = {} /\ Scope(q) = q.want
  BY <1>0 DEF Idle, RunFields, Scope
<1>3. q.pc = "revive" => q = [Idle EXCEPT !.pc = q.pc, !.revive = q.revive]
  <2>1. CASE live = Fleet
    <3>1. q = [Idle EXCEPT !.pc = "revive", !.want = {}, !.revive = live]
      BY <1>0, <2>1
    <3>2. PICK z : z = [Idle EXCEPT !.pc = "revive", !.revive = live]
      OBVIOUS
    <3>4. q = [pc |-> "revive", want |-> {}, revive |-> live, refused |-> {}, fresh |-> {}, todo |-> {},
               batch |-> {}, sends |-> 0, pass |-> 1, stuck |-> {}, missing |-> {}, met |-> {}]
      BY <3>1 DEF Idle
    <3>5. z = [pc |-> "revive", want |-> {}, revive |-> live, refused |-> {}, fresh |-> {}, todo |-> {},
               batch |-> {}, sends |-> 0, pass |-> 1, stuck |-> {}, missing |-> {}, met |-> {}]
      BY <3>2 DEF Idle
    <3>3. q.pc = "revive" /\ q.revive = live
      BY <3>4
    <3> QED
      BY <3>2, <3>3, <3>4, <3>5
  <2>2. CASE live # Fleet
    <3>1. q.pc = "dedupe"
      BY <1>0, <2>2 DEF Idle
    <3> QED
      BY <3>1
  <2> QED
    BY <2>1, <2>2
<1>4. RunFits(q)
  BY <1>2, <1>3 DEF RunFits
<1>5. Steps(c, q) /\ RunFits(run[c]) /\ PanesFit /\ told \in [Name -> Words]
  BY <1>1 DEF Becomes, Steps, SessionsInv, SessionTypes
<1>6. run[c].want = {} /\ run[c].fresh = {} /\ run[c].refused = {}
  <2>1. run[c] = [Idle EXCEPT !.pc = "status"]
    BY <1>1, <1>5 DEF RunFits
  <2> QED
    BY <2>1 DEF Idle
<1>7. PanesFit' /\ told' \in [Name -> Words] /\ moved' = moved /\ \A n \in Name : server'[n] = server[n] /\ late'[n] = late[n]
  BY <1>1, <1>5 DEF world, paneVars, PanesFit, Up
<1>8. WordsHold'
  BY <1>1, <1>2, <1>5, <1>6, <1>7, WordsStay
<1>9. Undisturbed => OneOnItsWay' /\ TypesOnce(q)'
  <2>1. Undisturbed => \A n \in Name : "send" \notin late[n]
    BY <1>1 DEF SessionsInv, TypesOnce
  <2>2. Undisturbed => OneOnItsWay'
    BY <1>1 DEF SessionsInv, OneOnItsWay, world, paneVars
  <2> QED
    BY <1>2, <1>7, <2>1, <2>2 DEF TypesOnce
<1>10. ClearsEmpty(q)' /\ LooksHold(q)'
  BY <1>2 DEF ClearsEmpty, LooksHold
<1>11. Plain => UnmetAreDown(q)'
  <2>1. Plain => \A n \in Name : "new" \notin late[n]
    BY <1>1, <1>6 DEF SessionsInv, UnmetAreDown
  <2> QED
    BY <1>2, <1>7, <2>1 DEF UnmetAreDown, BringUpPcs
<1> QED
  BY <1>1, <1>4, <1>5, <1>7, <1>8, <1>9, <1>10, <1>11, OneSteps

(* The panes at their shell are typed into, one after another.             *)
LEMMA RevivesKeep ==
  ASSUME SessionsInv, UNCHANGED sessionSetup, NEW c \in Caller, run[c].pc \in {"revive", "type"},
         NEW q, Steps(c, q), NEW S \in SUBSET run[c].revive, q = Idle \/ q = [Idle EXCEPT !.pc = "type", !.revive = S],
         UNCHANGED <<server, moved, told>>, PanesFit', Undisturbed => OneOnItsWay',
         Undisturbed => \A n \in S : "send" \notin late'[n], Undisturbed => \A n \in S : Untouched(n)'
  PROVE  SessionsInv'
<1>1. RunFits(run[c]) /\ told \in [Name -> Words]
  BY DEF SessionsInv, SessionTypes
<1>2. run[c].want = {} /\ S \subseteq Name
  <2>1. run[c] = [Idle EXCEPT !.pc = run[c].pc, !.revive = run[c].revive]
    BY <1>1 DEF RunFits
  <2> QED
    BY <1>1, <2>1 DEF Idle, RunFits
<1>3. /\ DOMAIN q = RunFields /\ q.pc \in {"idle", "type"} /\ (q.revive = {} \/ q.revive = S) /\ q.want = {} /\ q.todo = {} /\ q.fresh = {}
      /\ q.batch = {} /\ q.pass = 1 /\ q.missing = {} /\ q.refused = {} /\ Scope(q) = {}
  <2>1. CASE q = Idle
    BY <2>1 DEF Idle, RunFields, Scope
  <2>2. CASE q = [Idle EXCEPT !.pc = "type", !.revive = S]
    BY <2>2 DEF Idle, RunFields, Scope
  <2> QED
    BY <2>1, <2>2
<1>4. RunFits(q)
  <2>1. CASE q = Idle
    BY <2>1, IdleFits
  <2>2. CASE q = [Idle EXCEPT !.pc = "type", !.revive = S]
    <3>1. q.pc = "type" /\ q.revive = S
      BY <2>2 DEF Idle
    <3>2. q = [Idle EXCEPT !.pc = q.pc, !.revive = q.revive]
      BY <2>2, <3>1
    <3> QED
      BY <1>2, <1>3, <3>1, <3>2 DEF RunFits
  <2> QED
    BY <2>1, <2>2
<1>5. WordsHold'
  BY <1>2, WordsTold
<1>6. Undisturbed => TypesOnce(q)'
  BY <1>3 DEF TypesOnce
<1>7. ClearsEmpty(q)' /\ LooksHold(q)' /\ UnmetAreDown(q)'
  BY <1>3 DEF ClearsEmpty, LooksHold, UnmetAreDown, BringUpPcs
<1> QED
  BY <1>1, <1>4, <1>5, <1>6, <1>7, OneSteps

LEMMA FindsBareKeeps ==
  ASSUME SessionsInv, UNCHANGED sessionSetup, NEW c \in Caller, FindsBare(c)
  PROVE  SessionsInv'
<1> DEFINE bare == {n \in run[c].revive : AtShell(n)}
<1>1. PICK q : q = IF bare = {} THEN Idle ELSE [Idle EXCEPT !.pc = "type", !.revive = bare]
  OBVIOUS
<1>2. run[c].pc = "revive" /\ Steps(c, q) /\ UNCHANGED <<world, told>> /\ bare \in SUBSET run[c].revive
  BY <1>1 DEF FindsBare, Becomes, Steps
<1>3. PanesFit'
  BY <1>2 DEF SessionsInv, SessionTypes, PanesFit, Up, world, paneVars
<1>4. Undisturbed => OneOnItsWay'
  BY <1>2 DEF SessionsInv, OneOnItsWay, world, paneVars
<1>5. Undisturbed => \A n \in bare : Untouched(n)
  BY DEF SessionsInv, TypesOnce, AtShell, Untouched, Undisturbed, Slow
<1>6. Undisturbed => \A n \in bare : Untouched(n)' /\ "send" \notin late'[n]
  BY <1>2, <1>5 DEF Untouched, world, paneVars
<1> HIDE DEF bare
<1> QED
  BY <1>1, <1>2, <1>3, <1>4, <1>6, RevivesKeep DEF world, paneVars

LEMMA TypeOneKeeps ==
  ASSUME SessionsInv, UNCHANGED sessionSetup, NEW c \in Caller, NEW n \in Name, TypeOne(c, n)
  PROVE  SessionsInv'
<1>1. PICK r : r = run[c]
  OBVIOUS
<1>2. PICK q : q = IF r.revive = {n} THEN Idle ELSE [r EXCEPT !.revive = r.revive \ {n}]
  OBVIOUS
<1>3. RunFits(r) /\ PanesFit /\ r.pc = "type" /\ n \in r.revive
  BY <1>1 DEF SessionsInv, SessionTypes, TypeOne
<1>4. Becomes(c, q)
  BY <1>1, <1>2, <1>3 DEF TypeOne, RunFits, RunFields
<1>5. Steps(c, q) /\ UNCHANGED <<server, pane, moved, told>>
  BY <1>4 DEF TypeOne, Becomes, Steps
<1> DEFINE S == r.revive \ {n}
           T == [Idle EXCEPT !.pc = "type", !.revive = r.revive]
<1>6. q = Idle \/ q = [Idle EXCEPT !.pc = "type", !.revive = S]
  <2>1. r = [Idle EXCEPT !.pc = "type", !.revive = r.revive]
    BY <1>3 DEF RunFits
  <2>2. CASE r.revive # {n}
    <3>1. PICK R : R = r.revive
      OBVIOUS
    <3>2. r = [pc |-> "type", want |-> {}, revive |-> R, refused |-> {}, fresh |-> {}, todo |-> {},
               batch |-> {}, sends |-> 0, pass |-> 1, stuck |-> {}, missing |-> {}, met |-> {}]
      BY <2>1, <3>1 DEF Idle
    <3>3. q = [r EXCEPT !.revive = R \ {n}]
      BY <1>2, <2>2, <3>1
    <3>4. q = [pc |-> "type", want |-> {}, revive |-> R \ {n}, refused |-> {}, fresh |-> {}, todo |-> {},
               batch |-> {}, sends |-> 0, pass |-> 1, stuck |-> {}, missing |-> {}, met |-> {}]
      BY <3>2, <3>3
    <3>5. PICK z : z = [Idle EXCEPT !.pc = "type", !.revive = R \ {n}]
      OBVIOUS
    <3>6. z = [pc |-> "type", want |-> {}, revive |-> R \ {n}, refused |-> {}, fresh |-> {}, todo |-> {},
               batch |-> {}, sends |-> 0, pass |-> 1, stuck |-> {}, missing |-> {}, met |-> {}]
      BY <3>5 DEF Idle
    <3> QED
      BY <3>1, <3>4, <3>5, <3>6
  <2> QED
    BY <1>2, <2>2
<1>7. PICK N, M \in SUBSET {n} : N \cap M = {} /\ (\A m \in M : Up(m)) /\ Type(N) /\ Outrun(M, "send")
  <2>1. CASE n \in wedged
    <3>1. Type({})
      BY <1>3, <2>1 DEF TypeOne, Type, PanesFit
    <3>2. Outrun({m \in {n} : Up(m)}, "send")
      BY <2>1 DEF TypeOne
    <3> DEFINE M == {m \in {n} : Up(m)}
    <3>3. {} \in SUBSET {n} /\ M \in SUBSET {n} /\ {} \cap M = {} /\ \A m \in M : Up(m)
      OBVIOUS
    <3> QED
      BY <3>1, <3>2, <3>3
  <2>2. CASE n \notin wedged
    <3>1. Outrun({}, "send")
      BY <1>3, <2>2 DEF TypeOne, Outrun, PanesFit
    <3>2. Type({m \in {n} : Up(m)})
      BY <2>2 DEF TypeOne
    <3> DEFINE N == {m \in {n} : Up(m)}
    <3>3. {} \in SUBSET {n} /\ N \in SUBSET {n} /\ N \cap {} = {} /\ \A m \in {} : Up(m)
      OBVIOUS
    <3> QED
      BY <3>1, <3>2, <3>3
  <2> QED
    BY <2>1, <2>2
<1>8. N \in SUBSET Name /\ M \in SUBSET Name
  OBVIOUS
<1>9. /\ PanesFit'
      /\ (\A m \in N \cup M : Untouched(m)) /\ OneOnItsWay => OneOnItsWay'
      /\ \A m \in Name \ (N \cup M) : keys'[m] = keys[m] /\ late'[m] = late[m]
  BY <1>3, <1>5, <1>7, <1>8, TypeFits
<1>10. Undisturbed => \A m \in r.revive : Untouched(m)
  BY <1>1, <1>3 DEF SessionsInv, TypesOnce
<1>11. Undisturbed => OneOnItsWay'
  BY <1>3, <1>7, <1>9, <1>10 DEF SessionsInv
<1>12. S \in SUBSET Name /\ \A m \in S : m \notin N \cup M
  BY <1>3, <1>7 DEF RunFits
<1>13. Undisturbed => \A m \in S : Untouched(m)' /\ "send" \notin late'[m]
  BY <1>5, <1>9, <1>10, <1>12 DEF Untouched
<1>14. S \in SUBSET r.revive
  OBVIOUS
<1> HIDE DEF S
<1> QED
  BY <1>1, <1>3, <1>5, <1>6, <1>9, <1>11, <1>13, <1>14, RevivesKeep

-----------------------------------------------------------------------------
(* `down'.                                                                 *)
LEMMA DownFits ==
  ASSUME NEW r, RunFits(r), r.pc \in {"before", "kill", "after", "rekill", "last"}, NEW q, DOMAIN q = RunFields,
         q.pc \in {"before", "kill", "after", "rekill", "last"}, q.want = r.want, q.revive = r.revive, q.pass = r.pass, q.todo = r.todo,
         q.fresh = r.fresh, q.batch \subseteq r.want, q.missing \subseteq r.want
  PROVE  RunFits(q) /\ ClearsEmpty(q)' /\ UnmetAreDown(q)' /\ TypesOnce(q)'
<1>1. Scope(r) = r.want /\ Scope(q) = r.want /\ q.revive = {}
  BY DEF Scope, RunFits
<1>2. RunFits(q)
  BY <1>1 DEF RunFits
<1> QED
  BY <1>1, <1>2 DEF ClearsEmpty, UnmetAreDown, TypesOnce, BringUpPcs

LEMMA BeforeKeeps ==
  ASSUME SessionsInv, UNCHANGED sessionSetup, NEW c \in Caller, Before(c)
  PROVE  SessionsInv'
<1>1. PICK r : r = run[c]
  OBVIOUS
<1>2. PICK q : q = [r EXCEPT !.pc = "kill", !.batch = {n \in r.want : Up(n)}]
  OBVIOUS
<1>3. r.pc = "before" /\ Steps(c, q) /\ UNCHANGED <<world, told>>
  BY <1>1, <1>2 DEF Before, Becomes, Steps
<1>4. RunFits(r) /\ PanesFit /\ told \in [Name -> Words]
  BY <1>1 DEF SessionsInv, SessionTypes
<1>5. /\ DOMAIN q = RunFields /\ q.pc = "kill" /\ q.want = r.want /\ q.revive = r.revive /\ q.pass = r.pass /\ q.todo = r.todo
      /\ q.fresh = r.fresh /\ q.batch \subseteq r.want /\ q.missing = r.missing
  BY <1>2, <1>4 DEF RunFits, RunFields
<1>6. RunFits(q) /\ ClearsEmpty(q)' /\ UnmetAreDown(q)' /\ TypesOnce(q)'
  <2>1. q.missing \subseteq r.want
    BY <1>4, <1>5 DEF RunFits
  <2> QED
    BY <1>3, <1>4, <1>5, <2>1, DownFits
<1>7. LooksHold(q)'
  BY <1>5 DEF LooksHold, BringUpPcs
<1>8. PanesFit' /\ told' \in [Name -> Words] /\ moved' = moved /\ \A n \in Name : server'[n] = server[n]
  BY <1>3, <1>4 DEF world, paneVars, PanesFit, Up
<1>9. WordsHold'
  BY <1>1, <1>3, <1>5, <1>8, WordsStay
<1>10. Undisturbed => OneOnItsWay'
  BY <1>3 DEF SessionsInv, OneOnItsWay, world, paneVars
<1> QED
  BY <1>1, <1>3, <1>6, <1>7, <1>8, <1>9, <1>10, OneSteps

LEMMA KillsKeep ==
  ASSUME SessionsInv, UNCHANGED sessionSetup, NEW c \in Caller, Kills(c)
  PROVE  SessionsInv'
<1>1. PICK r : r = run[c]
  OBVIOUS
<1>2. PICK q : q = [r EXCEPT !.pc = IF r.pc = "kill" THEN "after" ELSE "last"]
  OBVIOUS
<1> DEFINE N == IF r.pc = "kill" THEN r.want ELSE r.missing
<1>3. PICK spared : Kill(N \ (wedged \cup spared)) /\ Becomes(c, q)
  BY <1>1, <1>2 DEF Kills
<1>4. r.pc \in {"kill", "rekill"} /\ Steps(c, q) /\ UNCHANGED <<wedged, moved, told>>
  BY <1>1, <1>3 DEF Kills, Becomes, Steps
<1>5. RunFits(r) /\ PanesFit /\ told \in [Name -> Words]
  BY <1>1 DEF SessionsInv, SessionTypes
<1>6. /\ DOMAIN q = RunFields /\ q.want = r.want /\ q.revive = r.revive /\ q.pass = r.pass /\ q.todo = r.todo
      /\ q.fresh = r.fresh /\ q.batch = r.batch /\ q.missing = r.missing
      /\ q.pc = IF r.pc = "kill" THEN "after" ELSE "last"
  BY <1>2, <1>5 DEF RunFits, RunFields
<1>7. q.batch \subseteq r.want /\ q.missing \subseteq r.want
  BY <1>5, <1>6 DEF RunFits
<1>8. RunFits(q) /\ ClearsEmpty(q)' /\ UnmetAreDown(q)' /\ TypesOnce(q)'
  BY <1>4, <1>5, <1>6, <1>7, DownFits
<1>9. /\ PanesFit'
      /\ \A n \in Name : (Up(n)' => Up(n)) /\ (Untouched(n) => Untouched(n)') /\ late'[n] \subseteq late[n]
      /\ \A n \in Name \ (N \ (wedged \cup spared)) : server'[n] = server[n]
      /\ OneOnItsWay => OneOnItsWay'
  BY <1>3, <1>5, KillFits
<1>10. ~Together => LooksHold(q)'
  <2>1. ~Together => LooksHold(r)
    BY <1>1 DEF SessionsInv
  <2> QED
    BY <1>4, <1>5, <1>6, <1>9, <2>1 DEF LooksHold, BringUpPcs, RunFits
<1>11. WordsHold'
  <2>1. N \subseteq q.want
    BY <1>6, <1>7
  <2>2. q.pc # "idle"
    BY <1>6
  <2> HIDE DEF N
  <2> QED
    BY <1>1, <1>4, <1>6, <1>9, <2>1, <2>2, WordsStay
<1> HIDE DEF N
<1> QED
  BY <1>1, <1>4, <1>5, <1>8, <1>9, <1>10, <1>11, OneSteps DEF SessionsInv

LEMMA AfterKeeps ==
  ASSUME SessionsInv, UNCHANGED sessionSetup, NEW c \in Caller, After(c)
  PROVE  SessionsInv'
<1>1. PICK r : r = run[c]
  OBVIOUS
<1>2. PICK asked : asked = Asked(r)
  OBVIOUS
<1>3. PICK alive : alive = {n \in asked : Up(n)}
  OBVIOUS
<1>4. /\ r.pc \in {"after", "last"} /\ moved' = moved \ asked /\ UNCHANGED <<paneVars, wedged>>
      /\ IF r.pc = "after" /\ alive # {}
           THEN Becomes(c, [r EXCEPT !.pc = "rekill", !.missing = alive]) /\ UNCHANGED told
         ELSE DownReports(c, alive)
  BY <1>1, <1>2, <1>3 DEF After
<1>5. RunFits(r) /\ PanesFit /\ told \in [Name -> Words] /\ asked \subseteq r.want /\ r.want \subseteq Name /\ r.missing \subseteq r.want
  BY <1>1, <1>2 DEF SessionsInv, SessionTypes, Asked, RunFits
<1>6. PanesFit' /\ \A n \in Name : server'[n] = server[n]
  BY <1>4, <1>5 DEF paneVars, PanesFit, Up
<1>7. Undisturbed => OneOnItsWay'
  BY <1>4 DEF SessionsInv, OneOnItsWay, paneVars
<1>8. CASE r.pc = "after" /\ alive # {}
  <2>1. PICK q : q = [r EXCEPT !.pc = "rekill", !.missing = alive]
    OBVIOUS
  <2>2. Steps(c, q) /\ told' = told
    BY <1>4, <1>8, <2>1 DEF Becomes, Steps
  <2>3. /\ DOMAIN q = RunFields /\ q.pc = "rekill" /\ q.want = r.want /\ q.revive = r.revive /\ q.pass = r.pass /\ q.todo = r.todo
        /\ q.fresh = r.fresh /\ q.batch = r.batch /\ q.missing = alive
    BY <1>5, <2>1 DEF RunFits, RunFields
  <2>4. q.batch \subseteq r.want /\ alive \subseteq r.want /\ asked = r.want
    BY <1>2, <1>3, <1>5, <1>8, <2>3 DEF RunFits, Asked
  <2>5. RunFits(q) /\ ClearsEmpty(q)' /\ UnmetAreDown(q)' /\ TypesOnce(q)'
    BY <1>5, <1>8, <2>3, <2>4, DownFits
  <2>6. LooksHold(q)'
    BY <1>3, <1>5, <1>6, <2>3, <2>4 DEF LooksHold, BringUpPcs, Up
  <2>7. WordsHold'
    BY <1>1, <1>4, <1>5, <1>6, <2>2, <2>3, <2>4, WordsStay
  <2> QED
    BY <1>1, <1>5, <1>6, <1>7, <1>8, <2>2, <2>5, <2>6, <2>7, OneSteps
<1>9. CASE DownReports(c, alive)
  <2>1. Steps(c, Idle)
    BY <1>9 DEF DownReports, Becomes, Steps
  <2>2. \A n \in Name : told'[n] = CASE n \notin r.want -> told[n]
                                   [] n \in r.want \cap alive -> "up"
                                   [] n \in asked \ alive -> "down"
                                   [] OTHER -> "wasDown"
    BY <1>1, <1>2, <1>9 DEF DownReports
  <2>3. \A n \in Name : /\ n \notin r.want => told'[n] = told[n]
                        /\ n \in r.want => told'[n] \in {"up", "down", "wasDown"}
                        /\ n \in r.want /\ told'[n] = "up" => n \in alive
                        /\ n \in r.want /\ told'[n] = "down" => n \in asked \ alive
                        /\ n \in r.want /\ told'[n] = "wasDown" => n \notin asked
    BY <1>3, <1>5, <2>2
  <2>4. told' \in [Name -> Words]
    <3>1. told' = [n \in Name |-> told'[n]]
      BY <1>9 DEF DownReports
    <3>2. \A n \in Name : told'[n] \in Words
      BY <1>5, <2>3 DEF Words
    <3> DEFINE f(n) == told'[n]
    <3>3. told' = [n \in Name |-> f(n)] /\ \A n \in Name : f(n) \in Words
      BY <3>1, <3>2
    <3> HIDE DEF f
    <3> QED
      BY <3>3
  <2>5. WordsHold'
    <3>1. ASSUME NEW n \in r.want \ moved'
          PROVE  /\ told'[n] = "up" \/ (told'[n] = "wasUp" /\ ~Together) => Up(n)'
                 /\ told'[n] = "down" \/ (told'[n] = "wasDown" /\ ~Together) => ~Up(n)'
      <4>1. told'[n] = "up" => Up(n)'
        BY <1>3, <1>5, <1>6, <2>3, <3>1 DEF Up
      <4>2. told'[n] = "down" => ~Up(n)'
        BY <1>3, <1>5, <1>6, <2>3, <3>1 DEF Up
      <4>3. ASSUME told'[n] = "wasDown", ~Together PROVE ~Up(n)'
        <5>1. n \notin asked /\ n \notin moved
          BY <1>4, <1>5, <2>3, <3>1, <4>3
        <5>2. r.pc = "last" /\ n \notin r.missing
          BY <1>2, <1>4, <3>1, <5>1 DEF Asked
        <5> QED
          BY <1>1, <1>5, <1>6, <3>1, <4>3, <5>1, <5>2 DEF SessionsInv, LooksHold, Up
      <4> QED
        BY <1>5, <2>3, <4>1, <4>2, <4>3
    <3> QED
      BY <1>1, <1>4, <1>5, <1>6, <2>1, <2>3, <3>1, WordsTold
  <2>6. ClearsEmpty(Idle)' /\ LooksHold(Idle)' /\ UnmetAreDown(Idle)' /\ TypesOnce(Idle)'
    BY IdleFits DEF TypesOnce, ClearsEmpty, LooksHold, UnmetAreDown, BringUpPcs
  <2> QED
    BY <1>1, <1>4, <1>6, <1>7, <2>1, <2>4, <2>5, <2>6, IdleFits, OneSteps
<1> QED
  BY <1>4, <1>8, <1>9

-----------------------------------------------------------------------------
(* What happens to sessions by itself.                                     *)
LEMMA SelfKeeps ==
  ASSUME SessionsInv, UNCHANGED <<sessionSetup, run, told>>, PanesFit', moved \subseteq moved',
         \A n \in Name \ moved' : server'[n] = server[n], Undisturbed => OneOnItsWay',
         \A n \in Name : /\ late'[n] \subseteq late[n] /\ (Untouched(n) => Untouched(n)')
                         /\ Up(n)' => Up(n) \/ "new" \in late[n]
  PROVE  SessionsInv'
<1>1. ASSUME NEW c \in Caller
      PROVE  /\ Undisturbed => TypesOnce(run[c])'
             /\ ~Together => ClearsEmpty(run[c])' /\ LooksHold(run[c])'
             /\ Plain => UnmetAreDown(run[c])'
  <2>1. PICK r : r = run[c]
    OBVIOUS
  <2>2. run'[c] = r
    BY <2>1
  <2>3. RunFits(r) /\ Scope(r) \subseteq Name /\ r.todo \subseteq Name /\ r.batch \subseteq Name /\ r.revive \subseteq Name /\ r.want \subseteq Name
    BY <2>1 DEF SessionsInv, SessionTypes, RunFits
  <2>4. /\ Undisturbed => TypesOnce(r)
        /\ ~Together => ClearsEmpty(r) /\ LooksHold(r)
        /\ Plain => UnmetAreDown(r)
    BY <2>1 DEF SessionsInv
  <2>5. Undisturbed => TypesOnce(r)'
    BY <2>3, <2>4 DEF TypesOnce
  <2>6. ~Together => ClearsEmpty(r)'
    BY <2>3, <2>4 DEF ClearsEmpty
  <2>7. ~Together => LooksHold(r)'
    BY <2>3, <2>4 DEF LooksHold, Up
  <2>8. Plain => UnmetAreDown(r)'
    <3> SUFFICES ASSUME Plain PROVE UnmetAreDown(r)'
      OBVIOUS
    <3>1. \A n \in Name : "new" \in late'[n] => "new" \in late[n]
      OBVIOUS
    <3>2. r.pc \in {"clear", "create", "send", "verify", "resend"} => \A n \in r.todo : ~Up(n)'
      BY <2>3, <2>4 DEF UnmetAreDown, BringUpPcs
    <3>3. r.pc \in BringUpPcs \ {"dedupe"} => \A n \in Scope(r) \ (r.met \cup r.refused \cup r.fresh \cup r.todo \cup r.batch) : ~Up(n)'
      BY <2>3, <2>4 DEF UnmetAreDown
    <3> QED
      BY <2>4, <3>1, <3>2, <3>3 DEF UnmetAreDown
  <2> QED
    BY <2>2, <2>5, <2>6, <2>7, <2>8 DEF TypesOnce, ClearsEmpty, LooksHold, UnmetAreDown
<1>2. SessionTypes' /\ OneAsks'
  BY DEF SessionsInv, SessionTypes, OneAsks, Together
<1>3. WordsHold'
  BY DEF SessionsInv, WordsHold, Owed, Up, Together
<1> QED
  BY <1>1, <1>2, <1>3 DEF SessionsInv, Undisturbed, Plain, Together

LEMMA WedgesKeep ==
  ASSUME SessionsInv, UNCHANGED sessionSetup, NEW n \in Name, Wedge(n) \/ Unwedge(n)
  PROVE  SessionsInv'
<1>1. UNCHANGED <<paneVars, moved, run, told>>
  BY DEF Wedge, Unwedge
<1>2. PanesFit' /\ (Undisturbed => OneOnItsWay')
  BY <1>1 DEF SessionsInv, SessionTypes, PanesFit, OneOnItsWay, Up, paneVars
<1> QED
  BY <1>1, <1>2, SelfKeeps DEF paneVars, Untouched, Up

LEMMA ShellReadsKeeps ==
  ASSUME SessionsInv, UNCHANGED sessionSetup, NEW n \in Name, ShellReads(n)
  PROVE  SessionsInv'
<1>1. PanesFit
  BY DEF SessionsInv, SessionTypes
<1>2. PanesFit' /\ (OneOnItsWay => OneOnItsWay')
  BY <1>1 DEF ShellReads, PanesFit, OneOnItsWay, Up
<1>3. \A m \in Name : (Untouched(m) => Untouched(m)') /\ late'[m] = late[m] /\ server'[m] = server[m]
  BY <1>1 DEF ShellReads, PanesFit, Untouched
<1> QED
  BY <1>2, <1>3, SelfKeeps DEF ShellReads, SessionsInv, Up

LEMMA AgentExitsKeeps ==
  ASSUME SessionsInv, UNCHANGED sessionSetup, NEW n \in Name, AgentExits(n)
  PROVE  SessionsInv'
<1>1. PanesFit
  BY DEF SessionsInv, SessionTypes
<1>2. PanesFit' /\ (OneOnItsWay => OneOnItsWay')
  BY <1>1 DEF AgentExits, PanesFit, OneOnItsWay, Up
<1>3. \A m \in Name : (Untouched(m) => Untouched(m)') /\ late'[m] = late[m] /\ server'[m] = server[m]
  BY <1>1 DEF AgentExits, PanesFit, Untouched
<1> QED
  BY <1>2, <1>3, SelfKeeps DEF AgentExits, SessionsInv, Up

LEMMA ServerFailsKeeps ==
  ASSUME SessionsInv, UNCHANGED sessionSetup, NEW n \in Name, ServerFails(n)
  PROVE  SessionsInv'
<1>1. PanesFit
  BY DEF SessionsInv, SessionTypes
<1>2. PanesFit' /\ (OneOnItsWay => OneOnItsWay')
  BY <1>1 DEF ServerFails, PanesFit, OneOnItsWay, Up
<1>3. \A m \in Name : (Untouched(m) => Untouched(m)') /\ late'[m] \subseteq late[m] /\ (Up(m)' => Up(m))
  BY <1>1 DEF ServerFails, PanesFit, Untouched, Up
<1>4. moved \subseteq moved' /\ \A m \in Name \ moved' : server'[m] = server[m]
  BY <1>1 DEF ServerFails, PanesFit
<1> QED
  BY <1>2, <1>3, <1>4, SelfKeeps DEF ServerFails, SessionsInv

LEMMA LateNewKeeps ==
  ASSUME SessionsInv, UNCHANGED sessionSetup, NEW n \in Name, LateNew(n)
  PROVE  SessionsInv'
<1>1. PanesFit
  BY DEF SessionsInv, SessionTypes
<1>2. late' = [late EXCEPT ![n] = late[n] \ {"new"}]
  BY DEF LateNew
<1>3. /\ PanesFit' /\ (OneOnItsWay => OneOnItsWay')
      /\ \A m \in Name : (Untouched(m) => Untouched(m)') /\ (Up(m)' => Up(m) \/ m = n)
      /\ \A m \in Name \ {n} : server'[m] = server[m]
  <2>1. CASE server[n] = "none"
    <3>1. Open({n})
      BY <2>1 DEF LateNew
    <3> QED
      BY <1>1, <1>2, <2>1, <3>1 DEF LateNew, Open, PanesFit, OneOnItsWay, Untouched, Up
  <2>2. CASE server[n] # "none"
    <3>1. UNCHANGED <<server, pane>>
      BY <2>2 DEF LateNew
    <3> QED
      BY <1>1, <1>2, <3>1 DEF LateNew, PanesFit, OneOnItsWay, Untouched, Up
  <2> QED
    BY <2>1, <2>2
<1>4. \A m \in Name : late'[m] \subseteq late[m]
  BY <1>1, <1>2 DEF PanesFit
<1>5. "new" \in late[n] /\ moved' = moved \cup {n} /\ UNCHANGED <<run, told>>
  BY DEF LateNew
<1> QED
  BY <1>3, <1>4, <1>5, SelfKeeps DEF SessionsInv

LEMMA LateSendKeeps ==
  ASSUME SessionsInv, UNCHANGED sessionSetup, NEW n \in Name, LateSend(n)
  PROVE  SessionsInv'
<1>1. PanesFit
  BY DEF SessionsInv, SessionTypes
<1>2. /\ late' = [late EXCEPT ![n] = late[n] \ {"send"}] /\ Type({n}) /\ "send" \in late[n] /\ Up(n)
      /\ UNCHANGED <<server, pane, moved, run, told>>
  BY DEF LateSend
<1>3. PanesFit' /\ (OneOnItsWay => OneOnItsWay')
  BY <1>1, <1>2 DEF Type, PanesFit, OneOnItsWay, Up
<1>4. \A m \in Name : (Untouched(m) => Untouched(m)') /\ late'[m] \subseteq late[m]
  BY <1>1, <1>2 DEF Type, PanesFit, Untouched
<1> QED
  BY <1>2, <1>3, <1>4, SelfKeeps DEF SessionsInv, Up

LEMMA NeverHappensKeeps ==
  ASSUME SessionsInv, UNCHANGED sessionSetup, NEW n \in Name, NeverHappens(n)
  PROVE  SessionsInv'
<1>1. PanesFit
  BY DEF SessionsInv, SessionTypes
<1>2. PanesFit' /\ (OneOnItsWay => OneOnItsWay')
  BY <1>1 DEF NeverHappens, PanesFit, OneOnItsWay, Up
<1>3. \A m \in Name : (Untouched(m) => Untouched(m)') /\ late'[m] \subseteq late[m]
  BY <1>1 DEF NeverHappens, PanesFit, Untouched
<1> QED
  BY <1>2, <1>3, SelfKeeps DEF NeverHappens, SessionsInv, Up

LEMMA StillKeeps ==
  ASSUME SessionsInv, UNCHANGED allsessionvars
  PROVE  SessionsInv'
<1>1. UNCHANGED <<sessionSetup, run, told, moved, server, pane, keys, late, mixed>>
  BY DEF allsessionvars, sessionvars, world, paneVars
<1>2. PanesFit' /\ (Undisturbed => OneOnItsWay')
  BY <1>1 DEF SessionsInv, SessionTypes, PanesFit, OneOnItsWay, Up
<1> QED
  BY <1>1, <1>2, SelfKeeps DEF Untouched, Up

-----------------------------------------------------------------------------
LEMMA SessionsInvInit == ASSUME SessionsInit PROVE SessionsInv
<1>1. /\ \A n \in Name : server[n] = "none" /\ pane[n] = "none" /\ keys[n] = 0 /\ late[n] = {} /\ told[n] = "nothing"
      /\ \A c \in Caller : run[c] = Idle
  BY DEF SessionsInit
<1>2. SessionTypes
  BY <1>1, IdleFits DEF SessionsInit, SessionTypes, PanesFit, Up, Words
<1>3. OneAsks /\ WordsHold /\ OneOnItsWay
  BY <1>1, IdleFits DEF SessionsInit, OneAsks, WordsHold, OneOnItsWay
<1>4. \A c \in Caller : TypesOnce(run[c]) /\ ClearsEmpty(run[c]) /\ LooksHold(run[c]) /\ UnmetAreDown(run[c])
  BY <1>1, IdleFits DEF TypesOnce, ClearsEmpty, LooksHold, UnmetAreDown, BringUpPcs
<1> QED
  BY <1>2, <1>3, <1>4 DEF SessionsInv

LEMMA FleetIsNamed == ASSUME SessionsInv PROVE Fleet \subseteq Name
BY SetupsAssumption DEF SessionsInv, SessionTypes, Fleet

LEMMA SessionsInvNext ==
  ASSUME SessionsInv, [SessionsNext]_allsessionvars
  PROVE  SessionsInv'
<1>1. Fleet \subseteq Name
  BY FleetIsNamed
<1>2. CASE UNCHANGED allsessionvars
  BY <1>2, StillKeeps
<1>3. ASSUME NEW c \in Caller, UNCHANGED sessionSetup, BringsUp(c) PROVE SessionsInv'
  BY <1>3, DedupeKeeps, ClearKeeps, CreateKeeps, SendKeeps, VerifyKeeps, CheckKeeps DEF BringsUp
<1>4. ASSUME NEW c \in Caller, UNCHANGED sessionSetup, Raised(c) PROVE SessionsInv'
  BY <1>4, RaisedKeeps
<1>5. ASSUME NEW c \in Caller, UNCHANGED sessionSetup, Revives(c) PROVE SessionsInv'
  BY <1>1, <1>5, StatusKeeps, FindsBareKeeps, TypeOneKeeps DEF Revives
<1>6. ASSUME NEW c \in Caller, UNCHANGED sessionSetup, Stops(c) PROVE SessionsInv'
  BY <1>6, BeforeKeeps, KillsKeep, AfterKeeps DEF Stops
<1>7. ASSUME NEW c \in Caller, UNCHANGED sessionSetup, UpStarts(c) PROVE SessionsInv'
  <2>1. PICK q : q = [Idle EXCEPT !.pc = "status"]
    OBVIOUS
  <2>2. Becomes(c, q) /\ MayStart(c) /\ UNCHANGED <<sessionSetup, world, told>>
    BY <1>7, <2>1 DEF UpStarts
  <2> QED
    BY <2>1, <2>2, StartKeeps
<1>8. ASSUME NEW c \in Caller, NEW N \in SUBSET Fleet, UNCHANGED sessionSetup, Go(c, N) PROVE SessionsInv'
  <2>1. PICK q : q = [Idle EXCEPT !.pc = "dedupe", !.want = N]
    OBVIOUS
  <2>2. Becomes(c, q) /\ MayStart(c) /\ UNCHANGED <<sessionSetup, world, told>>
    BY <1>8, <2>1 DEF Go
  <2>3. N \in SUBSET Name
    BY <1>1
  <2> QED
    BY <2>1, <2>2, <2>3, StartKeeps
<1>9. ASSUME NEW c \in Caller, NEW N \in SUBSET Fleet, UNCHANGED sessionSetup, GoDown(c, N) PROVE SessionsInv'
  <2>1. PICK q : q = [Idle EXCEPT !.pc = "before", !.want = N]
    OBVIOUS
  <2>2. Becomes(c, q) /\ MayStart(c) /\ UNCHANGED <<sessionSetup, world, told>>
    BY <1>9, <2>1 DEF GoDown
  <2>3. N \in SUBSET Name
    BY <1>1
  <2> QED
    BY <2>1, <2>2, <2>3, StartKeeps
<1>10. ASSUME NEW n \in Fleet, UNCHANGED sessionSetup,
              \/ Wedge(n) \/ Unwedge(n) \/ ShellReads(n) \/ AgentExits(n) \/ ServerFails(n)
              \/ LateNew(n) \/ LateSend(n) \/ NeverHappens(n)
       PROVE  SessionsInv'
  <2>1. n \in Name
    BY <1>1
  <2> QED
    BY <1>10, <2>1, WedgesKeep, ShellReadsKeeps, AgentExitsKeeps, ServerFailsKeeps, LateNewKeeps, LateSendKeeps, NeverHappensKeeps
<1>11. ASSUME UNCHANGED sessionSetup, AsksNothing PROVE SessionsInv'
  BY <1>11, StillKeeps DEF AsksNothing, allsessionvars
<1> QED
  BY <1>2, <1>3, <1>4, <1>5, <1>6, <1>7, <1>8, <1>9, <1>10, <1>11 DEF SessionsNext

-----------------------------------------------------------------------------
(* Only its own steps move a command.                                      *)
OwnStep(c) ==
  \/ BringsUp(c) \/ Raised(c) \/ Revives(c) \/ Stops(c) \/ UpStarts(c)
  \/ \E N \in SUBSET Fleet : Go(c, N) \/ GoDown(c, N)

LEMMA OwnSteps ==
  ASSUME SessionsInv, [SessionsNext]_allsessionvars, NEW c \in Caller, run'[c] # run[c]
  PROVE  OwnStep(c)
<1>1. DOMAIN run = Caller
  BY DEF SessionsInv, SessionTypes
<1>2. ASSUME NEW d \in Caller, NEW q, Becomes(d, q) PROVE d = c
  BY <1>1, <1>2 DEF Becomes
<1>3. ASSUME NEW d \in Caller, BringsUp(d) PROVE d = c
  <2>1. Dedupe(d) => \E q : Becomes(d, q)
    BY DEF Dedupe
  <2>2. Clear(d) => \E q : Becomes(d, q)
    BY DEF Clear
  <2>3. Create(d) => \E q : Becomes(d, q)
    BY DEF Create
  <2>4. Send(d) => \E q : Becomes(d, q)
    BY DEF Send
  <2>5. Verify(d) => \E q : Becomes(d, q)
    BY DEF Verify
  <2>6. Check(d) => \E q : Becomes(d, q)
    BY DEF Check, Reported
  <2> QED
    BY <1>2, <1>3, <2>1, <2>2, <2>3, <2>4, <2>5, <2>6 DEF BringsUp
<1>4. ASSUME NEW d \in Caller, Raised(d) PROVE d = c
  <2>1. \E q : Becomes(d, q)
    BY <1>4 DEF Raised, Reported
  <2> QED
    BY <1>2, <2>1
<1>5. ASSUME NEW d \in Caller, Revives(d) PROVE d = c
  <2>1. \E q : Becomes(d, q)
    BY <1>5 DEF Revives, Status, FindsBare, TypeOne
  <2> QED
    BY <1>2, <2>1
<1>6. ASSUME NEW d \in Caller, Stops(d) PROVE d = c
  <2>1. \E q : Becomes(d, q)
    BY <1>6 DEF Stops, Before, Kills, After, DownReports
  <2> QED
    BY <1>2, <2>1
<1>7. ASSUME NEW d \in Caller, NEW N \in SUBSET Fleet, UpStarts(d) \/ Go(d, N) \/ GoDown(d, N) PROVE d = c
  BY <1>2, <1>7 DEF UpStarts, Go, GoDown
<1>8. ASSUME NEW d \in Caller, UpStarts(d) PROVE d = c
  BY <1>2, <1>8 DEF UpStarts
<1>9. ~UNCHANGED allsessionvars
  BY DEF allsessionvars, sessionvars
<1>10. ~AsksNothing
  BY DEF AsksNothing, sessionvars
<1>11. ASSUME NEW n \in Fleet
       PROVE  ~(\/ Wedge(n) \/ Unwedge(n) \/ ShellReads(n) \/ AgentExits(n) \/ ServerFails(n)
                \/ LateNew(n) \/ LateSend(n) \/ NeverHappens(n))
  BY DEF Wedge, Unwedge, ShellReads, AgentExits, ServerFails, LateNew, LateSend, NeverHappens
<1> QED
  BY <1>3, <1>4, <1>5, <1>6, <1>7, <1>8, <1>9, <1>10, <1>11 DEF SessionsNext, OwnStep

LEMMA ClearSteps ==
  ASSUME SessionsInv, [SessionsNext]_allsessionvars, NEW c \in Caller, run[c].pc = "clear", run'[c].pc # "clear"
  PROVE  Clear(c)
<1>1. OwnStep(c)
  BY OwnSteps
<1> QED
  BY <1>1 DEF OwnStep, BringsUp, Dedupe, Create, Send, Verify, Check, Raised, Revives, Status, FindsBare, TypeOne,
              Stops, Before, Kills, After, UpStarts, Go, GoDown, MayStart

LEMMA CheckSteps ==
  ASSUME SessionsInv, [SessionsNext]_allsessionvars, NEW c \in Caller, run[c].pc = "check", run'[c].pc # "check"
  PROVE  Check(c)
<1>1. OwnStep(c)
  BY OwnSteps
<1> QED
  BY <1>1 DEF OwnStep, BringsUp, Dedupe, Clear, Create, Send, Verify, Raised, Revives, Status, FindsBare, TypeOne,
              Stops, Before, Kills, After, UpStarts, Go, GoDown, MayStart

-----------------------------------------------------------------------------
LEMMA SparedStep ==
  ASSUME SessionsInv, [SessionsNext]_allsessionvars, ~Together, NEW c \in Caller, NEW n \in Name,
         run[c].pc = "clear", run'[c].pc # "clear", pane[n] = "agent"
  PROVE  pane'[n] = "agent"
<1>1. Clear(c)
  BY ClearSteps
<1>2. n \notin run[c].todo
  BY DEF SessionsInv, ClearsEmpty, Untouched
<1>3. PICK K \in SUBSET run[c].todo : Kill(K)
  BY <1>1, ClearIs DEF SessionsInv, GoesOn
<1> QED
  BY <1>2, <1>3 DEF Kill

LEMMA CommandedStep ==
  ASSUME SessionsInv, [SessionsNext]_allsessionvars, Plain, NEW c \in Caller, NEW n \in Name,
         run[c].pc = "check", run'[c].pc \in {"idle", "revive"}, n \in run[c].want, told'[n] \in {"up", "wasUp"}
  PROVE  n \in run[c].met
<1>1. PICK q : q = run'[c]
  OBVIOUS
<1>2. PICK r : r = run[c]
  OBVIOUS
<1>3. Check(c)
  BY CheckSteps
<1>4. SessionTypes /\ RunFits(r) /\ UnmetAreDown(r)
  BY <1>2 DEF SessionsInv, SessionTypes
<1>5. PICK gone \in SUBSET Scope(r) :
        /\ \A m \in Scope(r) \ gone : Up(m)
        /\ \/ r.pass = 1 /\ Steps(c, q) /\ told' = told /\ LooksAgain(q, r, gone)
           \/ Reported(c, WasMissing(r, gone))
  BY <1>1, <1>2, <1>3, <1>4, CheckIs
<1>6. ~LooksAgain(q, r, gone)
  BY <1>1, <1>4 DEF LooksAgain, RunFits, RunFields
<1>7. n \notin WasMissing(r, gone) \cup r.refused
  <2>1. PICK missed : missed = WasMissing(r, gone)
    OBVIOUS
  <2>2. Reported(c, missed)
    BY <1>5, <1>6, <2>1
  <2>3. told'[n] # "failed" => n \notin missed \cup run[c].refused
    BY <1>4, <2>2, ReportIs
  <2> QED
    BY <1>2, <2>1, <2>3
<1>8. r.fresh = {} /\ r.todo = {} /\ r.batch = {} /\ r.pass \in {1, 2}
  BY <1>2, <1>4 DEF RunFits
<1>9. \A m \in Scope(r) \ gone : m \in r.met \cup r.refused
  BY <1>2, <1>4, <1>5, <1>8 DEF UnmetAreDown, BringUpPcs
<1>10. CASE r.pass = 1
  BY <1>2, <1>7, <1>9, <1>10 DEF Scope, WasMissing
<1>11. CASE r.pass = 2
  <2>1. CASE n \in r.missing
    BY <1>2, <1>7, <1>9, <1>11, <2>1 DEF Scope, WasMissing
  <2>2. CASE n \notin r.missing
    BY <1>2, <1>4, <1>7, <1>11, <2>2 DEF UnmetAreDown, BringUpPcs
  <2> QED
    BY <2>1, <2>2
<1> QED
  BY <1>8, <1>10, <1>11

(* No bring-up ends an agent, and no agent is sent its own command as a    *)
(* prompt, whatever wedges, crashes and late clients do, within the        *)
(* bounds the property states.                                             *)
THEOREM AgentsLeftAloneHolds == SessionsSpec => AgentsLeftAlone
<1>1. SessionsInit => SessionsInv
  BY SessionsInvInit
<1>2. SessionsInv /\ [SessionsNext]_allsessionvars => SessionsInv'
  BY SessionsInvNext
<1>3. SessionsInv => NeverTypedIntoAgent
  BY DEF SessionsInv, Undisturbed, OneOnItsWay, NeverTypedIntoAgent
<1>4. SessionsInv /\ [SessionsNext]_allsessionvars =>
        [~Together => \A c \in Caller, n \in Name :
           run[c].pc = "clear" /\ run'[c].pc # "clear" /\ pane[n] = "agent" => pane'[n] = "agent"]_sessionvars
  BY SparedStep
<1> QED
  BY <1>1, <1>2, <1>3, <1>4, PTL DEF SessionsSpec, AgentsLeftAlone, AgentsSpared

(* For any sessions and any number of commands: "up" is said only of what  *)
(* was there or was commanded, and the last word on a session is true once *)
(* the commands are over.                                                  *)
THEOREM ReportsAreTrueHolds == SessionsSpec => ReportsAreTrue
<1>1. SessionsInit => SessionsInv
  BY SessionsInvInit
<1>2. SessionsInv /\ [SessionsNext]_allsessionvars => SessionsInv'
  BY SessionsInvNext
<1>3. SessionsInv => LastWordIsTrue
  BY DEF SessionsInv, WordsHold, Owed, LastWordIsTrue
<1>4. SessionsInv /\ [SessionsNext]_allsessionvars =>
        [sessionSetup.liberty \cap {"together", "raise", "late"} = {} =>
           \A c \in Caller, n \in Name :
             run[c].pc = "check" /\ run'[c].pc \in {"idle", "revive"} /\ n \in run[c].want /\ told'[n] \in {"up", "wasUp"}
               => n \in run[c].met]_sessionvars
  BY CommandedStep DEF Plain
<1> QED
  BY <1>1, <1>2, <1>3, <1>4, PTL DEF SessionsSpec, ReportsAreTrue, UpWasCommanded
=============================================================================
