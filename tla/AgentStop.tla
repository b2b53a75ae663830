----------------------------- MODULE AgentStop -----------------------------
(***************************************************************************)
(* How the idle reaper kills an agent's processes and nothing else         *)
(* (reap._stop, reap._ours, procs.process_tree, procs.terminate_verified). *)
(*                                                                         *)
(* Windows never updates a parent pid and reuses pids at once, and every   *)
(* read is a moment of its own: between the clock, the list, an identity   *)
(* and a kill, processes start, exit and take over freed pids.             *)
(*                                                                         *)
(* `mine` is the truth the code cannot see: the agent the sweep decided    *)
(* about and what it made.                                                 *)
(***************************************************************************)
EXTENDS Naturals, FiniteSets

CONSTANTS Pid,
          AgentPid,    \* sig.agent_pid
          ShellPid,    \* the pane's own process, the agent's parent
          Elsewhere,   \* a parent outside Pid
          MaxClock     \* bounds how many processes start and exit

ASSUME StopAssumption == /\ AgentPid \in Pid /\ ShellPid \in Pid /\ AgentPid # ShellPid
                         /\ Elsewhere \notin Pid

VARIABLES created,  \* when each pid's process started; 0 while nobody has it
          ppid,     \* the parent each process was started with
          mine,     \* the pids that hold the agent or what it made
          servers,  \* those that run a psmux server
          opaque,   \* those whose identity does not read
          clock,
          stopAt,   \* where _stop is
          before,   \* the clock read that bounds the snapshot; 0: none
          listed,   \* the snapshot: the pids, their parents, the psmux images
          parent,
          psmux,
          walked,   \* the entries that were walked
          kept,     \* identities: when it was created; 0: not proven ours
          unknown,
          target,   \* the pid being killed
          read,     \* the clock read just before its kill
          held,     \* that read, for what was killed; 0: none
          killed

processes == <<created, ppid, mine, servers, opaque, clock>>
snapshot == <<listed, parent, psmux>>
stopvars == <<processes, stopAt, before, snapshot, walked, kept, unknown, target, read, held, killed>>

Born == 3  \* sig.agent_created

Occupied(p) == created[p] # 0
Everyone == {p \in Pid : Occupied(p)}

StopTypeOK ==
  /\ created \in [Pid -> Nat] /\ clock \in Nat
  /\ ppid \in [Pid -> Pid \cup {Elsewhere}]
  /\ mine \subseteq Pid /\ servers \subseteq Pid /\ opaque \subseteq Pid
  /\ stopAt \in {"start", "snapshot", "ours", "kill", "strike", "again", "stragglers", "confirm",
                 "aborted", "rootAlive", "stopped"}
  /\ before \in Nat /\ listed \subseteq Pid /\ parent \in [Pid -> Pid \cup {Elsewhere}] /\ psmux \subseteq Pid
  /\ walked \subseteq Pid /\ kept \in [Pid -> Nat] /\ unknown \subseteq Pid
  /\ target \in Pid /\ read \in Nat /\ held \in [Pid -> Nat] /\ killed \subseteq Pid

None == [p \in Pid |-> 0]

(* A stranger, and the shell, may be left over from a parent that is gone  *)
(* and whose pid anyone can get; the agent may have children.              *)
StopInit ==
  /\ \E stranger, child \in SUBSET (Pid \ {AgentPid, ShellPid}), q \in (Pid \cup {Elsewhere}) \ {AgentPid, ShellPid} :
       /\ q \notin stranger /\ stranger \cap child = {}
       /\ created = [p \in Pid |-> CASE p = ShellPid -> 1 [] p \in stranger -> 2 [] p = AgentPid -> Born
                                     [] p \in child -> Born + 1 [] OTHER -> 0]
       /\ ppid = [p \in Pid |-> CASE p = AgentPid -> ShellPid [] p \in child -> AgentPid
                                  [] p \in stranger \cup {ShellPid} -> q [] OTHER -> Elsewhere]
       /\ mine = {AgentPid} \cup child
       /\ opaque \in {{}, child}
  /\ servers = {} /\ clock = Born + 2
  /\ stopAt = "start" /\ before = 0 /\ listed = {} /\ parent = ppid /\ psmux = {}
  /\ walked = {} /\ kept = None /\ unknown = {} /\ target = AgentPid /\ read = 0 /\ held = None /\ killed = {}

-----------------------------------------------------------------------------
(* The machine.                                                            *)

\* q, or a program outside, starts a process on a free pid.
StartsProcess(q, p) ==
  /\ clock < MaxClock /\ ~Occupied(p) /\ q \in Everyone \cup {Elsewhere}
  /\ created' = [created EXCEPT ![p] = clock] /\ clock' = clock + 1
  /\ ppid' = [ppid EXCEPT ![p] = q]
  /\ mine' = IF q \in mine THEN mine \cup {p} ELSE mine \ {p}
  /\ servers' \in {servers \ {p}, servers \cup {p}}
  /\ UNCHANGED <<opaque, stopAt, before, snapshot, walked, kept, unknown, target, read, held, killed>>

\* p's process is no more.
Gone(p) ==
  /\ created' = [created EXCEPT ![p] = 0] /\ ppid' = [ppid EXCEPT ![p] = Elsewhere]
  /\ mine' = mine \ {p} /\ servers' = servers \ {p} /\ opaque' = opaque \ {p}

Exit(p) ==
  /\ clock < MaxClock /\ Occupied(p) /\ clock' = clock + 1
  /\ Gone(p)
  /\ UNCHANGED <<stopAt, before, snapshot, walked, kept, unknown, target, read, held, killed>>

-----------------------------------------------------------------------------
(* _stop.                                                                  *)

\* It returns, and its locals are gone.
Return(result) ==
  /\ stopAt' = result /\ before' = 0 /\ read' = 0 /\ target' = AgentPid
  /\ listed' = {} /\ parent' = [p \in Pid |-> Elsewhere] /\ psmux' = {}
  /\ walked' = {} /\ kept' = None /\ unknown' = {} /\ held' = None /\ killed' = {}

\* What a read of the clock says: the time, or 0 when it does not read.
Clock == {clock, 0}

\* before = bound()
Bound ==
  /\ stopAt = "start"
  /\ before' \in Clock /\ stopAt' = "snapshot"
  /\ UNCHANGED <<processes, snapshot, walked, kept, unknown, target, read, held, killed>>

\* snap = snapshot(), and the refusals that need no identity
Snapshot ==
  /\ stopAt = "snapshot"
  /\ \/ /\ before # 0 /\ Occupied(AgentPid)
        /\ listed' = Everyone /\ parent' = ppid /\ psmux' = servers
        /\ stopAt' = "ours"
        /\ UNCHANGED <<before, walked, kept, unknown, target, read, held, killed>>
     \/ Return("aborted")  \* snapshot-unreadable, clock-unreadable, empty-tree
  /\ UNCHANGED processes

\* process_tree: the agent and every listed process under it.
Under[n \in 0..Cardinality(Pid)] ==
  IF n = 0 THEN {AgentPid} ELSE Under[n - 1] \cup {p \in listed : parent[p] \in Under[n - 1]}
Tree == Under[Cardinality(Pid)]

\* The walk came to p through a parent it kept.
Followed(p) == p = AgentPid \/ kept[parent[p]] # 0

IdentityReads(p) == Occupied(p) /\ p \notin opaque

\* p's identity proves it older than the list and younger than its parent.
Proven(p) == /\ IdentityReads(p) /\ created[p] < before
             /\ p # AgentPid => created[p] > kept[parent[p]]

\* One entry of _ours, whose parent was walked before it.
Ours(p) ==
  /\ stopAt = "ours" /\ p \in Tree \ walked
  /\ p = AgentPid \/ parent[p] \in walked
  /\ walked' = walked \cup {p}
  /\ kept' = IF Followed(p) /\ Proven(p) THEN [kept EXCEPT ![p] = created[p]] ELSE kept
  /\ unknown' = IF p # AgentPid /\ (parent[p] \in unknown \/ (Followed(p) /\ ~IdentityReads(p)))
                THEN unknown \cup {p} ELSE unknown
  /\ UNCHANGED <<processes, stopAt, before, snapshot, target, read, held, killed>>

\* root-identity, pane-in-tree, psmux-in-tree
Refused == kept[AgentPid] # Born \/ ShellPid \in Tree \/ psmux \cap Tree # {}

Guard ==
  /\ stopAt = "ours" /\ walked = Tree
  /\ \/ Refused /\ Return("aborted")
     \/ /\ ~Refused
        /\ stopAt' = "kill" /\ walked' = {}
        /\ UNCHANGED <<before, snapshot, kept, unknown, target, read, held, killed>>
  /\ UNCHANGED processes

\* The next one, children first: the clock, then the kill.
ReadClock(p) ==
  /\ stopAt = "kill" /\ kept[p] # 0 /\ p \notin walked
  /\ \A c \in Pid \ {AgentPid} : kept[c] # 0 /\ parent[c] = p => c \in walked
  /\ target' = p /\ read' \in Clock /\ stopAt' = "strike"
  /\ UNCHANGED <<processes, before, snapshot, walked, kept, unknown, held, killed>>

\* terminate_verified: only while the pid is what `ident` names; the system may refuse.
StillIs_ByPid(p, ident) == Occupied(p)
StillIs(p, ident) == Occupied(p) /\ created[p] = ident

Strike ==
  /\ stopAt = "strike"
  /\ \/ /\ StillIs(target, kept[target])
        /\ Gone(target)
        /\ killed' = killed \cup {target} /\ held' = [held EXCEPT ![target] = read]
     \/ UNCHANGED <<processes, killed, held>>
  /\ walked' = walked \cup {target} /\ stopAt' = "kill"
  /\ UNCHANGED <<clock, before, snapshot, kept, unknown, target, read>>

\* No clock, no straggler pass.
BoundAgain ==
  /\ stopAt = "kill" /\ \A p \in Pid : kept[p] # 0 => p \in walked
  /\ before' \in Clock
  /\ stopAt' = IF before' = 0 THEN "confirm" ELSE "again"
  /\ walked' = {}
  /\ UNCHANGED <<processes, snapshot, kept, unknown, target, read, held, killed>>

SnapshotAgain ==
  /\ stopAt = "again"
  /\ listed' \in {Everyone, {}} /\ parent' = ppid /\ psmux' = servers
  /\ stopAt' = "stragglers"
  /\ UNCHANGED <<processes, before, walked, kept, unknown, target, read, held, killed>>

\* A child of a process we killed, made before that kill and before the list.
InTime(p) == LET q == parent[p] IN kept[q] < created[p] /\ created[p] < before /\ created[p] < held[q]

Straggler(p) ==
  /\ stopAt = "stragglers" /\ p \in listed \ walked
  /\ walked' = walked \cup {p}
  /\ IF /\ parent[p] \in killed /\ p \notin killed \cup unknown \cup psmux
        /\ kept[parent[p]] # 0 /\ held[parent[p]] # 0
     THEN \/ /\ ~IdentityReads(p)
             /\ unknown' = unknown \cup {p} /\ UNCHANGED <<processes, killed>>
          \/ /\ IdentityReads(p) /\ InTime(p)
             /\ Gone(p) /\ killed' = killed \cup {p}
             /\ UNCHANGED unknown
          \/ /\ IdentityReads(p)  \* not ours, or the system refused
             /\ UNCHANGED <<processes, killed, unknown>>
     ELSE UNCHANGED <<processes, killed, unknown>>
  /\ UNCHANGED <<clock, stopAt, before, snapshot, kept, target, read, held>>

\* The poll ends: root_alive.
Confirm ==
  /\ \/ stopAt = "stragglers" /\ walked = listed
     \/ stopAt = "confirm"
  /\ Return(IF StillIs(AgentPid, kept[AgentPid]) THEN "rootAlive" ELSE "stopped")
  /\ UNCHANGED processes

\* Init is any of the states before; after a park that failed nothing is at stake.
Machine ==
  /\ stopAt \notin {"start", "aborted", "rootAlive"}
  /\ \E p \in Pid : Exit(p) \/ \E q \in Pid \cup {Elsewhere} : StartsProcess(q, p)

StopStep ==
  \/ Bound \/ Snapshot \/ Guard \/ Strike \/ BoundAgain \/ SnapshotAgain \/ Confirm
  \/ \E p \in Pid : Ours(p) \/ ReadClock(p) \/ Straggler(p)

StopEnded == stopAt \in {"aborted", "rootAlive", "stopped"} /\ UNCHANGED stopvars

StopNext == Machine \/ StopStep \/ StopEnded

StopSpec == StopInit /\ [][StopNext]_stopvars

-----------------------------------------------------------------------------
(* Every kill of the stop lands on the agent or on something it made, and  *)
(* never on a psmux server, whatever processes did between the reads and   *)
(* however pids were reused: a stranger that inherited a pid or was        *)
(* adopted through one is never ended.                                     *)
OnlyItsOwn == [][\A p \in killed' \ killed : p \in mine /\ p \notin servers]_stopvars

(* A stop that says the root is gone is right, and stays right: the park   *)
(* it allows never marks a running agent parked (reap._park).              *)
StoppedMeansGone == stopAt = "stopped" => created[AgentPid] # Born
=============================================================================
