------------------------------ MODULE Parking ------------------------------
(***************************************************************************)
(* The state record of a session, and the idle reaper that reads it        *)
(* (state_hook, agent_state, reap.sweep_once, psmux.revive_sessions):      *)
(*                                                                         *)
(*   hooks    an agent's events, each its own short process, write one     *)
(*            record per directory: working, needs-input, done, idle;      *)
(*   reaper   in serve: reads every signal it has of every agent, re-reads *)
(*            the one it is about to end, ends it, and then marks the      *)
(*            record parked;                                               *)
(*   revive   `up` restarts what ended, parked panes excepted; `r<n>`      *)
(*            resumes a parked conversation by the id in its record.       *)
(*                                                                         *)
(* How the processes are ended is AgentStop.                               *)
(***************************************************************************)
EXTENDS Naturals, FiniteSets, FiniteSetsExt

CONSTANTS Pane,          \* local sessions, each with a directory of its own
          NoRecord,
          MaxStarts,     \* bounds how many agents start
          PerSweep,      \* REAP_MAX_PER_SWEEP
          ParkingSetups  \* what a behaviour may allow itself, as below

VARIABLES agent,   \* each pane's agent process, by its start; 0: a bare shell
          talk,    \* the conversation it runs, or ran last; 0: none
          turn,    \* idle, busy, blocked on the user, or only background work
          draft,   \* text in its input box
          quiet,   \* how long since it did anything: 0, over the threshold, longer
          record,  \* the directory's record
          hook,    \* the hook process that runs
          starts,
          reaper,  \* where the sweep is
          todo,    \* the agents it decided to end, by pane; 0: not
          failed,  \* _failed_agents
          seen,    \* the re-read agent: its pane, process and conversation
          revive,  \* a revive between its look and the end of its work
          purge,   \* the pane whose record sweep_stale found old
          setup

panes == <<agent, talk, turn, draft, quiet, starts>>
sweep == <<reaper, todo, failed, seen>>
parkvars == <<panes, record, hook, sweep, revive, purge, setup>>

Turns == {"idle", "busy", "blocked", "chores"}
StateRecords == [state : {"working", "needs-input", "done", "idle", "parked"},
                 talk : 0..MaxStarts, at : 0..MaxStarts, age : 0..2]

\* setup.lies: the signals that read "finished" whatever the agent does. The
\* record's is that a hook is lost.
Lies(s) == s \in setup.lies
\* setup.open: the panes that have an agent
\* setup.stubborn: panes whose agent survives a kill
\* setup.users: people type, and commands run
\* setup.together: a start, or a revive, and a park of one pane may overlap

ParkingTypeOK ==
  /\ setup \in ParkingSetups
  /\ agent \in [Pane -> 0..MaxStarts] /\ talk \in [Pane -> 0..MaxStarts]
  /\ turn \in [Pane -> Turns] /\ draft \in [Pane -> BOOLEAN] /\ quiet \in [Pane -> 0..2]
  /\ record \in [Pane -> StateRecords \cup {NoRecord}]
  /\ hook \in [Pane -> {"none", "prompt", "tool", "stop", "chores", "needs", "start", "end"}]
  /\ starts \in 0..MaxStarts /\ todo \in [Pane -> 0..MaxStarts] /\ failed \subseteq 1..MaxStarts
  /\ reaper \in {"rest", "sweep", "stop", "reset", "record"}

NoPane == [pane |-> CHOOSE p \in Pane : TRUE, agent |-> 0, talk |-> 0]
NoRevive == [at |-> "none", pane |-> CHOOSE p \in Pane : TRUE, talk |-> 0]

\* Every open pane has a finished agent that is still fresh.
ParkingStart ==
  /\ \E n \in [Pane -> 0..Cardinality(setup.open)] :
       /\ \A p \in Pane : n[p] # 0 <=> p \in setup.open
       /\ \A p, q \in setup.open : n[p] = n[q] => p = q
       /\ agent = n /\ talk = n
       /\ record = [p \in Pane |-> IF p \in setup.open THEN [state |-> "done", talk |-> n[p], at |-> n[p], age |-> 0] ELSE NoRecord]
  /\ turn = [p \in Pane |-> "idle"] /\ draft = [p \in Pane |-> FALSE] /\ quiet = [p \in Pane |-> 0]
  /\ hook = [p \in Pane |-> "none"] /\ starts = Cardinality(setup.open)
  /\ reaper = "rest" /\ todo = [p \in Pane |-> 0] /\ failed = {} /\ seen = NoPane
  /\ revive = NoRevive /\ purge = {}

-----------------------------------------------------------------------------
(* The agent and its hooks. An agent waits for its hook.                   *)

Acts(p) == agent[p] # 0 /\ hook[p] = "none"

\* It does something: its transcript and status are fresh.
Event(p, t, d, h) ==
  /\ turn' = [turn EXCEPT ![p] = t] /\ draft' = [draft EXCEPT ![p] = d] /\ hook' = [hook EXCEPT ![p] = h]
  /\ quiet' = [quiet EXCEPT ![p] = 0]
  /\ UNCHANGED <<agent, talk, starts, record, sweep, revive, purge>>

Prompt(p) == Acts(p) /\ turn[p] # "blocked" /\ Event(p, "busy", FALSE, "prompt")
Tool(p) == Acts(p) /\ turn[p] \in {"busy", "blocked"} /\ Event(p, "busy", draft[p], "tool")
Blocks(p) == Acts(p) /\ turn[p] = "busy" /\ Event(p, "blocked", draft[p], "needs")
TurnEnds(p) == /\ Acts(p) /\ turn[p] = "busy"
               /\ \/ Event(p, "idle", draft[p], "stop")
                  \/ Event(p, "chores", draft[p], "chores")
Drafts(p) == /\ Acts(p) /\ ~draft[p] /\ draft' = [draft EXCEPT ![p] = TRUE]
             /\ UNCHANGED <<agent, talk, turn, quiet, starts, record, hook, sweep, revive, purge>>

\* The agent of p is gone.
AgentEnds(p) == /\ agent' = [agent EXCEPT ![p] = 0] /\ turn' = [turn EXCEPT ![p] = "idle"]
                /\ draft' = [draft EXCEPT ![p] = FALSE] /\ quiet' = [quiet EXCEPT ![p] = 0]

Quits(p) == /\ Acts(p) /\ AgentEnds(p) /\ hook' = [hook EXCEPT ![p] = "end"]
            /\ UNCHANGED <<talk, starts, record, sweep, revive, purge>>

\* An agent starts in p, with the conversation t or a new one.
AgentStarts(p, t) ==
  /\ starts < MaxStarts /\ starts' = starts + 1 /\ agent' = [agent EXCEPT ![p] = starts + 1]
  /\ talk' = [talk EXCEPT ![p] = IF t = 0 THEN starts + 1 ELSE t]
  /\ hook' = [hook EXCEPT ![p] = "start"]
  /\ UNCHANGED <<turn, draft, quiet>>

\* A start does not overlap p's park, nor its revive.
Apart(p) == \/ setup.together
            \/ /\ reaper \in {"rest", "sweep"} \/ seen.pane # p
               /\ revive.at = "none" \/ revive.pane # p

ByHand(p) == /\ Apart(p)
             /\ agent[p] = 0 /\ hook[p] = "none" /\ \E t \in {0, talk[p]} : AgentStarts(p, t)
             /\ UNCHANGED <<record, sweep, revive, purge>>

Write(p, state) == record' = [record EXCEPT ![p] = [state |-> state, talk |-> talk[p], at |-> starts, age |-> 0]]

\* _refresh_due
RefreshDue(p) == record[p] = NoRecord \/ record[p].state # "working" \/ record[p].age > 0

\* state_hook.handle_claude, or a hook that fails and is dropped
Hook(p) ==
  /\ hook[p] # "none" /\ hook' = [hook EXCEPT ![p] = "none"]
  /\ \/ hook[p] \in {"prompt", "chores"} /\ Write(p, "working")
     \/ hook[p] = "tool" /\ IF RefreshDue(p) THEN Write(p, "working") ELSE UNCHANGED record
     \/ hook[p] = "needs" /\ Write(p, "needs-input")
     \/ hook[p] = "stop" /\ Write(p, "done")
     \/ hook[p] = "start" /\ Write(p, "idle")
     \/ hook[p] = "end" /\ record' = [record EXCEPT ![p] = NoRecord]
     \/ Lies("record") /\ UNCHANGED record
  /\ UNCHANGED <<panes, sweep, revive, purge>>

Older(r) == IF r = NoRecord \/ r.age = 2 THEN r ELSE [r EXCEPT !.age = @ + 1]
\* Time passes: a record grows old, an agent that does nothing grows quiet.
Passes(p) ==
  /\ hook[p] = "none" /\ turn[p] # "busy"
  /\ quiet' = [quiet EXCEPT ![p] = IF agent[p] = 0 \/ @ = 2 THEN @ ELSE @ + 1]
  /\ record' = [record EXCEPT ![p] = Older(@)]
  /\ <<quiet, record>>' # <<quiet, record>>
  /\ UNCHANGED <<agent, talk, turn, draft, starts, hook, sweep, revive, purge>>

\* sweep_stale: the read of an old record, and its clear_state by path.
Stale(p) == /\ purge = {} /\ record[p] # NoRecord /\ record[p].age = 2 /\ setup.users
            /\ purge' = {p} /\ UNCHANGED <<panes, record, hook, sweep, revive>>
Purge(p) == /\ p \in purge /\ purge' = {} /\ record' = [record EXCEPT ![p] = NoRecord]
            /\ UNCHANGED <<panes, hook, sweep, revive>>

-----------------------------------------------------------------------------
(* The reaper.                                                             *)

\* _signals_for: what the tool's status, the record, the transcript and the pane say.
Signals(p) ==
  [status |-> Lies("status") \/ (turn[p] \in {"idle", "chores"} /\ quiet[p] > 0),
   record |-> record[p],
   transcript |-> Lies("transcript") \/ quiet[p] > 0,
   pane |-> Lies("pane") \/ (turn[p] \in {"idle", "chores"} /\ ~draft[p])]

\* decide, rows R6 to R9; R2 to R5 hold here.
Reapable(p) ==
  LET sig == Signals(p) IN
  /\ agent[p] # 0
  /\ sig.status
  /\ sig.record # NoRecord
  /\ sig.record.talk = talk[p] /\ sig.record.state \in {"done", "idle"}
  /\ sig.record.at >= agent[p] /\ sig.record.age > 0
  /\ sig.transcript
  /\ sig.pane

\* gather, and the first PerSweep of the candidates, longest quiet first.
Candidates == {p \in Pane : Reapable(p) /\ agent[p] \notin failed}
Gather ==
  /\ reaper = "rest" /\ Candidates # {}
  /\ \E now \in SUBSET Candidates :
       /\ Cardinality(now) = Min({PerSweep, Cardinality(Candidates)})
       /\ \A p \in now, q \in Candidates \ now : quiet[p] >= quiet[q]
       /\ todo' = [p \in Pane |-> IF p \in now THEN agent[p] ELSE 0]
  /\ reaper' = "sweep"
  /\ UNCHANGED <<panes, record, hook, failed, seen, revive, purge>>

\* A sweep that finds nobody.
Rests == reaper = "rest" /\ Candidates = {} /\ UNCHANGED <<panes, record, hook, sweep, revive, purge>>

\* _read_one and _recheck: R10, the same agent and every row again.
Unchanged_Trusts(p) == agent[p] = todo[p]
Unchanged(p) == Reapable(p) /\ agent[p] = todo[p]

Recheck(p) ==
  /\ reaper = "sweep" /\ todo[p] # 0
  /\ setup.together \/ revive.at = "none" \/ revive.pane # p
  /\ \/ /\ Unchanged(p)
        /\ seen' = [pane |-> p, agent |-> agent[p], talk |-> talk[p]] /\ reaper' = "stop"
        /\ UNCHANGED todo
     \/ /\ ~Unchanged(p)
        /\ todo' = [todo EXCEPT ![p] = 0] /\ UNCHANGED <<seen, reaper>>
  /\ UNCHANGED <<panes, record, hook, failed, revive, purge>>

SweepEnds == /\ reaper = "sweep" /\ (\A p \in Pane : todo[p] = 0) /\ reaper' = "rest"
             /\ UNCHANGED <<panes, record, hook, todo, failed, seen, revive, purge>>

\* The next candidate.
Tried == /\ todo' = [todo EXCEPT ![seen.pane] = 0] /\ reaper' = "sweep" /\ seen' = NoPane

\* An agent whose park failed is never tried again by this process.
NotParked_Parks == reaper' = "reset" /\ UNCHANGED <<todo, failed, seen>>
NotParked_Forgets == Tried /\ UNCHANGED failed
NotParked == Tried /\ failed' = failed \cup {todo[seen.pane]}

\* _stop: refused, survived or done. The hook process may outlive it.
Stop ==
  /\ reaper = "stop"
  /\ LET p == seen.pane IN
       \/ /\ p \in setup.stubborn \/ agent[p] # seen.agent
          /\ NotParked /\ UNCHANGED <<panes, hook>>
       \/ /\ p \notin setup.stubborn /\ agent[p] = seen.agent
          /\ AgentEnds(p) /\ hook' \in {hook, [hook EXCEPT ![p] = "none"]}
          /\ reaper' = "reset" /\ UNCHANGED <<talk, starts, todo, failed, seen>>
  /\ UNCHANGED <<record, revive, purge>>

\* _reset: the notice, into a pane proven idle, or none.
Reset == /\ reaper = "reset" /\ reaper' = "record"
         /\ UNCHANGED <<panes, record, hook, todo, failed, seen, revive, purge>>

\* The record, LAST; or it cannot be written.
Park ==
  /\ reaper = "record"
  /\ \/ record' = [record EXCEPT ![seen.pane] = [state |-> "parked", talk |-> seen.talk, at |-> starts, age |-> 0]]
     \/ setup.users /\ UNCHANGED record
  /\ Tried
  /\ UNCHANGED <<panes, hook, failed, revive, purge>>

\* serve dies and another takes over: it knows of no sweep.
Restarts == /\ setup.users /\ reaper # "rest" /\ reaper' = "rest"
            /\ todo' = [p \in Pane |-> 0] /\ failed' = {} /\ seen' = NoPane
            /\ UNCHANGED <<panes, record, hook, revive, purge>>

-----------------------------------------------------------------------------
(* revive_sessions.                                                        *)

\* The conversation a revive opens in p: the configured command's --continue
\* is the one the directory had last; r<n> is the parked one.
Look(p, byHand) ==
  /\ revive.at = "none" /\ agent[p] = 0 /\ hook[p] = "none"  \* proven idle
  /\ Apart(p)
  /\ LET parked == record[p] # NoRecord /\ record[p].state = "parked" IN
       /\ parked => byHand
       /\ revive' = [at |-> IF parked THEN "resume" ELSE "type", pane |-> p,
                     talk |-> IF parked THEN record[p].talk ELSE talk[p]]
  /\ UNCHANGED <<panes, record, hook, sweep, purge>>

\* The keys. Another command may have started an agent in the meantime.
Types ==
  /\ revive.at \in {"resume", "type"} /\ agent[revive.pane] = 0 /\ hook[revive.pane] = "none"
  /\ AgentStarts(revive.pane, revive.talk)
  /\ revive' = IF revive.at = "resume" THEN [revive EXCEPT !.at = "clear"] ELSE NoRevive
  /\ UNCHANGED <<record, sweep, purge>>

\* "its SessionStart hook writes anew"
Clears == /\ revive.at = "clear" /\ record' = [record EXCEPT ![revive.pane] = NoRecord] /\ revive' = NoRevive
          /\ UNCHANGED <<panes, hook, sweep, purge>>

\* send_keys failed, or nothing was typed.
GivesUp == /\ revive.at \in {"resume", "type"} /\ revive' = NoRevive
           /\ UNCHANGED <<panes, record, hook, sweep, purge>>

-----------------------------------------------------------------------------
Person(p) == setup.users /\ p \in setup.open /\ (Prompt(p) \/ Tool(p) \/ Blocks(p) \/ TurnEnds(p) \/ Drafts(p) \/ Quits(p) \/ ByHand(p)
                             \/ \E byHand \in BOOLEAN : Look(p, byHand))

Reaper == Gather \/ (\E p \in Pane : Recheck(p)) \/ SweepEnds \/ Stop \/ Reset \/ Park

ParkingNext ==
  /\ UNCHANGED setup
  /\ \/ \E p \in Pane : Person(p) \/ Hook(p) \/ Passes(p) \/ Stale(p) \/ Purge(p)
     \/ Reaper \/ Rests \/ Restarts
     \/ Types \/ Clears \/ GivesUp

ParkingInit == setup \in ParkingSetups /\ ParkingStart

\* serve sweeps for ever; time and hooks do not stop. Nobody has to act.
ParkingFairness == /\ WF_parkvars(Reaper /\ UNCHANGED setup)
                   /\ \A p \in Pane : WF_parkvars((Hook(p) \/ Passes(p)) /\ UNCHANGED setup)

ParkingSpec == ParkingInit /\ [][ParkingNext]_parkvars
ParkingFairSpec == ParkingSpec /\ ParkingFairness

-----------------------------------------------------------------------------
\* The signals that tell an agent at work, blocked or drafting from a finished one.
Telltales(p) ==
  (IF turn[p] = "busy" THEN {{"status", "record", "transcript", "pane"}} ELSE {})
  \cup (IF turn[p] = "blocked" THEN {{"status", "record", "pane"}} ELSE {})
  \cup (IF turn[p] = "chores" THEN {{"record"}} ELSE {})
  \cup (IF draft[p] THEN {{"pane"}} ELSE {})

(* An agent passes R10, the last look before the kill, only when every     *)
(* signal that could tell its work from an end is wrong: any honest one    *)
(* spares it, although hooks are lost, the record is late, and it began    *)
(* its work after the sweep had decided (reap.decide, reap._recheck).      *)
AnyHonestSignalSpares ==
  [][\A p \in Pane : reaper = "sweep" /\ reaper' = "stop" /\ seen'.pane = p /\ hook[p] = "none" =>
       \A telltale \in Telltales(p) : telltale \subseteq setup.lies]_parkvars

(* No agent that its hooks have announced runs under a record that says    *)
(* parked: the record is written last, after the kill, and a start         *)
(* overwrites it (reap._park, DESIGN.md). Not when a revive overlaps a     *)
(* park, which nothing prevents.                                           *)
ParkedIsNotRunning ==
  ~setup.together /\ ~Lies("record") =>
    \A p \in Pane : record[p] # NoRecord /\ record[p].state = "parked" => agent[p] = 0 \/ hook[p] # "none"

(* A finished agent is parked in the end, although another one's park      *)
(* fails every time: the sweep's few places are not taken by it for ever   *)
(* (reap.sweep_once, _failed_agents).                                      *)
QuietIsParked ==
  \A p \in Pane : (~setup.users /\ p \in setup.open \ setup.stubborn) ~> agent[p] = 0

(* Both: no agent is parked at work, nor works under a parked record.      *)
ParkingIsHonest == []ParkedIsNotRunning /\ AnyHonestSignalSpares
=============================================================================
