---------------------------- MODULE NodePlacement ----------------------------
(***************************************************************************)
(* Which project runs on which node: the node map, and the commands that   *)
(* place a project and start its session on a node (`up`), stop it         *)
(* (`down`) and move it (`recall --local`, `recall --to`), several at a    *)
(* time.                                                                   *)
(*                                                                         *)
(* A session outlives the commands.  The map is the only way back to it:   *)
(* a file each command reads, decides by, and much later changes under a   *)
(* lock.  Nodes do not answer, answers are lost while the work goes on,    *)
(* locks are held past the wait, the map cannot be read or written, a      *)
(* command is interrupted.                                                 *)
(*                                                                         *)
(* Not here: how the final pull brings the files home (NodePull), the      *)
(* locks' files (ExclusiveLock), how a node is scored, and the folders two *)
(* projects might share.  A node picked for a project is any node.         *)
(***************************************************************************)
EXTENDS Naturals, FiniteSets

CONSTANTS Projects,  \* projects that run on a node
          Nodes,     \* settings.nodes
          Commands,  \* the commands of a behaviour
          AnyNode,      \* "node": "auto"
          Sync,      \* the node sync daemon
          None,      \* no entry, nobody, no node
          Setups     \* what a behaviour is about: what each command is, where
                     \*   each project is pinned and where it runs at first,
                     \*   whose trees a node could not reproduce, the liberties
                     \*   taken, and a bound on faults

VARIABLES map,      \* the node map
          torn,     \* it cannot be read
          mapLock,  \* who holds node-map.lock
          busy,     \* who holds node-pull-<nick>
          on,       \* the sessions of each node
          late,     \* bring_up.sh that goes on though nobody waits for it
          said,     \* what the user was told not to count on
          cmd,      \* each command
          crossed,  \* commands that ran beside another of the same project
          faults,   \* faults so far
          setup     \* this behaviour's setup
vars == <<map, torn, mapLock, busy, on, late, said, cmd, crossed, faults>>
allvars == <<vars, setup>>

Store == INSTANCE PlacementMap
Kinds == {"up", "down", "local", "to"}
Programs == [kind : Kinds, over : SUBSET Projects, to : Nodes]

ASSUME NamesAssumption == /\ AnyNode \notin Nodes /\ None \notin Nodes \cup Commands \cup {Sync}
                          /\ Sync \notin Commands /\ None \notin Store!Entries
ASSUME SetupsAssumption ==
  Setups \subseteq [run : [Commands -> Programs], pin : [Projects -> Nodes \cup {AnyNode}],
                    at : [Projects -> Nodes \cup {None}], gone : SUBSET Projects, dirty : SUBSET Projects,
                    liberty : SUBSET {"torn", "tick", "overlap"}, faults : Nat]

Kind(c) == setup.run[c].kind
Scope(c) == setup.run[c].over
Blank == [p \in Projects |-> None]
Ready == [pc |-> "ready", todo |-> {}, p |-> None, node |-> None, held |-> None, seen |-> Blank,
          unread |-> FALSE, pulled |-> FALSE, lost |-> {}, stuck |-> FALSE, still |-> {},
          copy |-> Blank, put |-> None, out |-> "none"]

(* What earlier commands left: each project where it was placed, its       *)
(* session there unless it has gone.                                       *)
Init == /\ setup \in Setups
        /\ map = [p \in Projects |-> IF setup.at[p] = None THEN None ELSE [nick |-> setup.at[p], by |-> None]]
        /\ torn = FALSE /\ mapLock = None /\ busy = [n \in Nodes |-> None]
        /\ on = [n \in Nodes |-> {p \in Projects \ setup.gone : setup.at[p] = n}]
        /\ late = {} /\ said = {} /\ cmd = [c \in Commands |-> Ready] /\ crossed = {} /\ faults = 0

Active(c) == cmd[c].pc \notin {"ready", "done"}
Fault == faults < setup.faults /\ faults' = faults + 1
Ended(K, out) == [Ready EXCEPT !.pc = "done", !.p = K.p, !.node = K.node, !.held = K.held,
                               !.put = K.put, !.still = K.still, !.out = out]
Freed(c) == [n \in Nodes |-> IF busy[n] = c THEN None ELSE busy[n]]
At(p, n) == map[p] # None /\ map[p].nick = n
Unsure(p, n) == said \cup {<<p, n, "unsure">>}
-----------------------------------------------------------------------------
(* A command starts.  Unless the setup is about it, nobody ups or recalls  *)
(* a project while an `up` or a recall of it runs.                         *)
Rivals(c) == {d \in Commands \ {c} : Active(d) /\ Scope(d) \cap Scope(c) # {}}
Starts(c) == /\ cmd[c].pc = "ready"
             /\ \/ Kind(c) = "down" \/ "overlap" \in setup.liberty
                \/ \A d \in Rivals(c) : Kind(d) = "down"
             /\ crossed' = IF Rivals(c) = {} THEN crossed ELSE crossed \cup Rivals(c) \cup {c}
             /\ UNCHANGED <<map, torn, mapLock, busy, on, late, said, faults>>

NodesFor_Unread(p) == IF setup.pin[p] # AnyNode THEN {setup.pin[p]}
                    ELSE IF map[p] # None /\ ~torn THEN {map[p].nick} ELSE Nodes
(* Where `up` takes a project: to its pin, else where the map has it, else *)
(* to a node it picks, and nowhere while the map cannot be read.           *)
NodesFor(p) == IF setup.pin[p] # AnyNode THEN {setup.pin[p]}
             ELSE IF torn THEN {} ELSE IF map[p] # None THEN {map[p].nick} ELSE Nodes

Place(c) == \E p \in Scope(c) : \E n \in NodesFor(p) :
  /\ Kind(c) = "up" /\ Starts(c)
  /\ cmd' = [cmd EXCEPT ![c].pc = "dial", ![c].p = p, ![c].node = n]
PlaceRefused(c) == \E p \in Scope(c) :
  /\ Kind(c) = "up" /\ Starts(c) /\ NodesFor(p) = {}
  /\ cmd' = [cmd EXCEPT ![c] = Ended([@ EXCEPT !.p = p], "failed")]

Known_Empty == [seen |-> IF torn THEN Blank ELSE map, unread |-> FALSE]
(* The placements a command trusts, and whether the map was unreadable.    *)
Known == [seen |-> IF torn THEN Blank ELSE map, unread |-> torn]

DownReads(c) == /\ Kind(c) = "down" /\ Starts(c)
                /\ cmd' = [cmd EXCEPT ![c] = [@ EXCEPT !.pc = "next", !.todo = Scope(c), !.seen = Known.seen,
                                                       !.unread = Known.unread]]

(* A recall refuses what it can before it touches anything.                *)
Recallable(c, p) == /\ ~torn /\ map[p] # None
                    /\ Kind(c) = "to" => /\ setup.run[c].to # map[p].nick /\ setup.pin[p] = AnyNode
                                         /\ p \notin setup.dirty
RecallReads(c) == \E p \in Scope(c) :
  /\ Kind(c) \in {"local", "to"} /\ Starts(c) /\ Recallable(c, p)
  /\ cmd' = [cmd EXCEPT ![c] = [@ EXCEPT !.pc = "pull", !.p = p, !.held = map[p], !.node = map[p].nick]]
RecallRefused(c) == \E p \in Scope(c) :
  /\ Kind(c) \in {"local", "to"} /\ Starts(c) /\ ~Recallable(c, p)
  /\ cmd' = [cmd EXCEPT ![c] = Ended([@ EXCEPT !.p = p], "failed")]
-----------------------------------------------------------------------------
(* A bring-up.                                                             *)

(* The tree could not be reproduced: a session running already is attached *)
(* to, under its entry, or under an unreadable map on its pin.             *)
Attachable(K) == /\ K.pc = "dial" /\ K.p \in setup.dirty /\ K.p \in on[K.node]
                 /\ torn \/ At(K.p, K.node)
DirtyAttached(c) == /\ Attachable(cmd[c])
                    /\ cmd' = [cmd EXCEPT ![c] = Ended(@, "attached")]
                    /\ UNCHANGED <<map, torn, mapLock, busy, on, late, said, crossed, faults>>
DirtyRefused(c) == /\ cmd[c].pc = "dial" /\ cmd[c].p \in setup.dirty /\ ~Attachable(cmd[c])
                   /\ cmd' = [cmd EXCEPT ![c] = Ended(@, "failed")]
                   /\ UNCHANGED <<map, torn, mapLock, busy, on, late, said, crossed, faults>>
(* The node does not answer, which is not yes.                             *)
DirtyUnknown(c) == /\ Attachable(cmd[c]) /\ Fault
                   /\ cmd' = [cmd EXCEPT ![c] = Ended(@, "failed")]
                   /\ UNCHANGED <<map, torn, mapLock, busy, on, late, said, crossed>>

Dial(c) == LET K == cmd[c] IN
  /\ K.pc = "dial" /\ K.p \notin setup.dirty /\ busy[K.node] = None
  /\ busy' = [busy EXCEPT ![K.node] = c] /\ cmd' = [cmd EXCEPT ![c].pc = "bring"]
  /\ UNCHANGED <<map, torn, mapLock, on, late, said, crossed, faults>>

(* The node is held past the length of a pull.                             *)
NodeBusy(c) == LET K == cmd[c] IN
  /\ K.pc = "dial" /\ K.p \notin setup.dirty /\ busy[K.node] # None
  /\ cmd' = [cmd EXCEPT ![c] = Ended(K, "failed")]
  /\ UNCHANGED <<map, torn, mapLock, busy, on, late, said, crossed, faults>>

(* bring_up.sh starts the session, or finds it running.                    *)
BringUp(c) == LET K == cmd[c] IN
  /\ K.pc = "bring"
  /\ on' = [on EXCEPT ![K.node] = @ \cup {K.p}] /\ busy' = Freed(c)
  /\ cmd' = [cmd EXCEPT ![c].pc = "lock", ![c].put = [nick |-> K.node, by |-> c]]
  /\ UNCHANGED <<map, torn, mapLock, late, said, crossed, faults>>

BringUpFails(c) == /\ cmd[c].pc = "bring" /\ Fault
                   /\ busy' = Freed(c) /\ cmd' = [cmd EXCEPT ![c] = Ended(@, "failed")]
                   /\ UNCHANGED <<map, torn, mapLock, on, late, said, crossed>>

(* Its answer is lost, and it goes on.                                     *)
BringUpLost(c) == LET K == cmd[c] IN
  /\ K.pc = "bring" /\ Fault
  /\ late' = late \cup {<<K.p, K.node>>} /\ said' = Unsure(K.p, K.node)
  /\ busy' = Freed(c) /\ cmd' = [cmd EXCEPT ![c] = Ended(K, "failed")]
  /\ UNCHANGED <<map, torn, mapLock, on, crossed>>
StartsLate == \E l \in late : /\ on' = [on EXCEPT ![l[2]] = @ \cup {l[1]}] /\ late' = late \ {l}
                              /\ UNCHANGED <<map, torn, mapLock, busy, said, cmd, crossed, faults>>
-----------------------------------------------------------------------------
(* update_node_map: one entry is set or removed.                           *)

(* What the command goes on with when the map has its change ...           *)
Updated(c, K) == IF Kind(c) = "down" THEN [K EXCEPT !.pc = "next", !.copy = Blank]
                 ELSE IF Kind(c) = "to" /\ K.put = None
                      THEN [K EXCEPT !.pc = "dial", !.node = setup.run[c].to, !.copy = Blank]
                 ELSE Ended(K, "ok")
(* ... and when it has not: a bring-up is good all the same, `down` writes *)
(* no more, a recall stops.                                                *)
NotUpdated(c, K) == IF Kind(c) = "down" THEN [K EXCEPT !.pc = "next", !.copy = Blank, !.stuck = TRUE]
                    ELSE Ended(K, IF K.put = None THEN "failed" ELSE "ok")
Warns(K) == said' = IF K.put = None THEN said ELSE said \cup {<<K.p, K.node, "unrecorded">>}
Fails(c) == LET K == cmd[c] IN
  /\ cmd' = [cmd EXCEPT ![c] = NotUpdated(c, K)] /\ Warns(K)
  /\ UNCHANGED <<map, torn, busy, on, late, crossed>>

Lock_Free(c) == /\ cmd[c].pc = "lock"
                /\ mapLock' = c /\ cmd' = [cmd EXCEPT ![c].pc = "read"]
                /\ UNCHANGED <<map, torn, busy, on, late, said, crossed, faults>>
Lock(c) == /\ cmd[c].pc = "lock" /\ mapLock = None
           /\ mapLock' = c /\ cmd' = [cmd EXCEPT ![c].pc = "read"]
           /\ UNCHANGED <<map, torn, busy, on, late, said, crossed, faults>>
LockHeld(c) == cmd[c].pc = "lock" /\ mapLock # None /\ Fails(c) /\ UNCHANGED <<mapLock, faults>>

Expected_Any(c) == TRUE
(* `down` removes the entry it read, and no other.                         *)
Expected(c) == Kind(c) = "down" => map[cmd[c].p] = cmd[c].held

Read(c) == LET K == cmd[c] IN
  /\ K.pc = "read" /\ ~torn /\ Expected(c)
  /\ cmd' = [cmd EXCEPT ![c].pc = "write", ![c].copy = map]
  /\ UNCHANGED <<map, torn, mapLock, busy, on, late, said, crossed, faults>>
ReadOther(c) == LET K == cmd[c] IN
  /\ K.pc = "read" /\ ~torn /\ ~Expected(c)
  /\ mapLock' = None /\ cmd' = [cmd EXCEPT ![c] = Updated(c, K)]
  /\ UNCHANGED <<map, torn, busy, on, late, said, crossed, faults>>

ReadTorn(c) == cmd[c].pc = "read" /\ torn /\ Fails(c) /\ mapLock' = None /\ UNCHANGED faults

(* The file is replaced whole.                                             *)
Write(c) == LET K == cmd[c] IN
  /\ K.pc = "write"
  /\ map' = [K.copy EXCEPT ![K.p] = K.put] /\ torn' = FALSE
  /\ mapLock' = None /\ cmd' = [cmd EXCEPT ![c] = Updated(c, K)]
  /\ UNCHANGED <<busy, on, late, said, crossed, faults>>
WriteFails(c) == cmd[c].pc = "write" /\ Fault /\ Fails(c) /\ mapLock' = None
-----------------------------------------------------------------------------
(* `down`.                                                                 *)

(* Its next project: nothing to do, a survivor, or one to pull or to kill. *)
Where(K, p) == IF K.seen[p] # None THEN K.seen[p].nick ELSE setup.pin[p]
Skips(c) == LET K == cmd[c] IN \E p \in K.todo :
  /\ K.pc = "next" /\ Where(K, p) \in K.lost \cup {AnyNode}
  /\ cmd' = [cmd EXCEPT ![c].todo = @ \ {p},
                        ![c].still = IF Where(K, p) = AnyNode /\ ~K.unread THEN @ ELSE @ \cup {p}]
  /\ UNCHANGED <<map, torn, mapLock, busy, on, late, said, crossed, faults>>
Takes(c) == LET K == cmd[c] IN \E p \in K.todo :
  /\ K.pc = "next" /\ Where(K, p) \notin K.lost \cup {AnyNode}
  /\ cmd' = [cmd EXCEPT ![c] = [K EXCEPT !.todo = @ \ {p}, !.p = p, !.node = Where(K, p), !.held = K.seen[p],
                                         !.pulled = FALSE, !.pc = IF K.seen[p] = None THEN "kill" ELSE "pull"]]
  /\ UNCHANGED <<map, torn, mapLock, busy, on, late, said, crossed, faults>>
DownEnds(c) == /\ cmd[c].pc = "next" /\ cmd[c].todo = {}
               /\ cmd' = [cmd EXCEPT ![c] = Ended(@, "ok")]
               /\ UNCHANGED <<map, torn, mapLock, busy, on, late, said, crossed, faults>>

(* The final pull reads the map again, and goes where the entry is now.    *)
Pullable(p) == ~torn /\ map[p] # None /\ busy[map[p].nick] = None
PullStarts(c) == LET K == cmd[c] IN
  /\ K.pc = "pull" /\ Pullable(K.p)
  /\ busy' = [busy EXCEPT ![map[K.p].nick] = c] /\ cmd' = [cmd EXCEPT ![c].pc = "pulling"]
  /\ UNCHANGED <<map, torn, mapLock, on, late, said, crossed, faults>>
NotPulled(c) == [cmd EXCEPT ![c] = IF Kind(c) = "down" THEN [@ EXCEPT !.pc = "kill"] ELSE Ended(@, "failed")]
PullCannot(c) == LET K == cmd[c] IN
  /\ K.pc = "pull" /\ ~Pullable(K.p)
  /\ cmd' = NotPulled(c)
  /\ UNCHANGED <<map, torn, mapLock, busy, on, late, said, crossed, faults>>
Pulled(c) == /\ cmd[c].pc = "pulling"
             /\ busy' = Freed(c) /\ cmd' = [cmd EXCEPT ![c].pc = "kill", ![c].pulled = TRUE]
             /\ UNCHANGED <<map, torn, mapLock, on, late, said, crossed, faults>>
PullFails(c) == /\ cmd[c].pc = "pulling" /\ Fault
                /\ busy' = Freed(c) /\ cmd' = NotPulled(c)
                /\ UNCHANGED <<map, torn, mapLock, on, late, said, crossed>>
(* The node is gone: a recall makes do with what is here, and says that    *)
(* the session may still be running.                                       *)
PullNoAnswer(c) == LET K == cmd[c] IN
  /\ K.pc = "pulling" /\ Kind(c) # "down" /\ Fault
  /\ busy' = Freed(c) /\ said' = Unsure(K.p, K.node) /\ cmd' = [cmd EXCEPT ![c].pc = "install"]
  /\ UNCHANGED <<map, torn, mapLock, on, late, crossed>>

Killed(c, K, there) ==
  IF Kind(c) # "down" THEN [K EXCEPT !.pc = "install"]
  ELSE [K EXCEPT !.pc = IF K.pulled /\ ~K.stuck THEN "lock" ELSE "next", !.put = None,
                 !.still = IF ~there /\ K.unread THEN @ \cup {K.p} ELSE @]
Kill(c) == LET K == cmd[c] IN
  /\ K.pc = "kill"
  /\ on' = [on EXCEPT ![K.node] = @ \ {K.p}]
  /\ cmd' = [cmd EXCEPT ![c] = Killed(c, K, K.p \in on[K.node])]
  /\ UNCHANGED <<map, torn, mapLock, busy, late, said, crossed, faults>>

(* The node does not say whether it did: a survivor.  `down` asks that     *)
(* node no more.                                                           *)
KillUnknown(c) == LET K == cmd[c] IN
  /\ K.pc = "kill" /\ Fault
  /\ on' \in {on, [on EXCEPT ![K.node] = @ \ {K.p}]} /\ said' = Unsure(K.p, K.node)
  /\ cmd' = [cmd EXCEPT ![c] = IF Kind(c) = "down"
                               THEN [K EXCEPT !.pc = "next", !.still = @ \cup {K.p}, !.lost = @ \cup {K.node}]
                               ELSE [K EXCEPT !.pc = "install"]]
  /\ UNCHANGED <<map, torn, mapLock, busy, late, crossed>>
-----------------------------------------------------------------------------
(* A recall installs the conversation, and then drops the placement.       *)
Install(c) == /\ cmd[c].pc = "install"
              /\ cmd' = [cmd EXCEPT ![c].pc = "lock", ![c].put = None]
              /\ UNCHANGED <<map, torn, mapLock, busy, on, late, said, crossed, faults>>
InstallFails(c) == /\ cmd[c].pc = "install" /\ Fault
                   /\ cmd' = [cmd EXCEPT ![c] = Ended(@, "failed")]
                   /\ UNCHANGED <<map, torn, mapLock, busy, on, late, said, crossed>>
-----------------------------------------------------------------------------
(* The world: the map is edited by hand, the daemon pulls a node, a        *)
(* command is interrupted.                                                 *)
Tear == /\ "torn" \in setup.liberty /\ ~torn /\ torn' = TRUE /\ Fault
        /\ UNCHANGED <<map, mapLock, busy, on, late, said, cmd, crossed>>

TickStarts(n) == /\ "tick" \in setup.liberty /\ busy[n] = None /\ busy' = [busy EXCEPT ![n] = Sync]
                 /\ UNCHANGED <<map, torn, mapLock, on, late, said, cmd, crossed, faults>>
TickEnds(n) == /\ busy[n] = Sync /\ busy' = [busy EXCEPT ![n] = None]
               /\ UNCHANGED <<map, torn, mapLock, on, late, said, cmd, crossed, faults>>

Started(K) == K.pc = "bring" \/ (K.pc \in {"lock", "read", "write"} /\ K.put # None)
Dies(c) == LET K == cmd[c] IN
  /\ Active(c) /\ Fault
  /\ late' = IF K.pc = "bring" THEN late \cup {<<K.p, K.node>>} ELSE late
  /\ said' = IF Started(K) THEN Unsure(K.p, K.node) ELSE said
  /\ busy' = Freed(c) /\ mapLock' = IF mapLock = c THEN None ELSE mapLock
  /\ cmd' = [cmd EXCEPT ![c] = Ended(K, "died")]
  /\ UNCHANGED <<map, torn, on, crossed>>
-----------------------------------------------------------------------------
Start(c) == Place(c) \/ PlaceRefused(c) \/ DownReads(c) \/ RecallReads(c) \/ RecallRefused(c)
Step(c) == \/ DirtyAttached(c) \/ DirtyRefused(c) \/ Dial(c) \/ NodeBusy(c) \/ BringUp(c)
           \/ Lock(c) \/ LockHeld(c) \/ Read(c) \/ ReadOther(c) \/ ReadTorn(c) \/ Write(c)
           \/ Skips(c) \/ Takes(c) \/ DownEnds(c) \/ PullStarts(c) \/ PullCannot(c) \/ Pulled(c) \/ Kill(c)
           \/ Install(c)
Breaks(c) == \/ DirtyUnknown(c) \/ BringUpFails(c) \/ BringUpLost(c) \/ WriteFails(c) \/ PullFails(c) \/ PullNoAnswer(c)
             \/ KillUnknown(c) \/ InstallFails(c) \/ Dies(c)
World == StartsLate \/ Tear \/ \E n \in Nodes : TickStarts(n) \/ TickEnds(n)

Next == /\ UNCHANGED setup
        /\ World \/ \E c \in Commands : Start(c) \/ Step(c) \/ Breaks(c)

Spec == Init /\ [][Next]_allvars
-----------------------------------------------------------------------------
Whys == {"unsure", "unrecorded"}
CmdType ==
  [pc : {"ready", "dial", "bring", "lock", "read", "write", "next", "pull", "pulling", "kill", "install", "done"},
   todo : SUBSET Projects, p : Projects \cup {None}, node : Nodes \cup {None}, held : Store!Entries \cup {None},
   seen : [Projects -> Store!Entries \cup {None}], unread : BOOLEAN, pulled : BOOLEAN, lost : SUBSET Nodes,
   stuck : BOOLEAN, still : SUBSET Projects, copy : [Projects -> Store!Entries \cup {None}],
   put : Store!Entries \cup {None}, out : {"none", "ok", "attached", "failed", "died"}]

(* The type invariant, and who holds what: the map's lock is held by the   *)
(* command inside update_node_map, a node's by the command that brings up  *)
(* or pulls there.                                                         *)
TypeOK ==
  /\ setup \in Setups /\ map \in [Projects -> Store!Entries \cup {None}] /\ torn \in BOOLEAN
  /\ mapLock \in Commands \cup {None} /\ busy \in [Nodes -> Commands \cup {Sync, None}]
  /\ on \in [Nodes -> SUBSET Projects] /\ late \subseteq Projects \X Nodes
  /\ said \subseteq Projects \X Nodes \X Whys
  /\ cmd \in [Commands -> CmdType] /\ crossed \subseteq Commands /\ faults \in Nat
  /\ \A c \in Commands : /\ (mapLock = c) <=> cmd[c].pc \in {"read", "write"}
                         /\ (\E n \in Nodes : busy[n] = c) <=> cmd[c].pc \in {"bring", "pulling"}

Doubted(p, n) == \E why \in Whys : <<p, n, why>> \in said

(* A session runs where the map has it, or the user was told: once no      *)
(* command is about its project, none is left that `down` would not find.  *)
Accounted == \A p \in Projects, n \in Nodes :
  p \in on[n] /\ (\A c \in Commands : p \in Scope(c) => ~Active(c)) => At(p, n) \/ Doubted(p, n)

(* A project runs on one node: a second session of it is never started     *)
(* beside one that runs, but for one the user was told of.                 *)
OneHome == \A p \in Projects, n, m \in Nodes :
  n # m /\ p \in on[n] \cap on[m] => Doubted(p, n) \/ Doubted(p, m)

(* update_node_map changes one project's entry at a time, whatever the     *)
(* commands do at once: it is a map written atomically.                    *)
OneEntryAtATime == Store!Spec

(* What a command's end says is so, unless another was about the same      *)
(* project meanwhile.  `up`: the session runs, and is in the map or was    *)
(* said not to be.  `down`: what it does not call a survivor is stopped.   *)
(* A recall: it is at its destination and nowhere else; one that failed to *)
(* bring it home left it placed.                                           *)
Claim(c) == LET K == cmd[c] IN CASE
  K.out = "attached" -> K.p \in on[K.node]
  [] K.out = "ok" /\ Kind(c) \in {"up", "to"} ->
       /\ K.p \in on[K.node] /\ (map[K.p] = K.put \/ Doubted(K.p, K.node))
       /\ \A n \in Nodes \ {K.node} : K.p \in on[n] => Doubted(K.p, n)
  [] K.out = "ok" /\ Kind(c) = "local" ->
       map[K.p] = None /\ \A n \in Nodes : K.p \in on[n] => Doubted(K.p, n)
  [] K.out = "ok" /\ Kind(c) = "down" ->
       \A p \in Scope(c), n \in Nodes : p \in on[n] => p \in K.still \/ Doubted(p, n)
  [] K.out = "failed" /\ Kind(c) = "local" -> K.held # None => map[K.p] = K.held
  [] OTHER -> TRUE
Honest == [][\A c \in Commands : Active(c) /\ ~Active(c)' /\ c \notin crossed => Claim(c)']_vars

(* "A re-run attaches to the live session and records it then": no second  *)
(* session is started while one that could not be recorded runs elsewhere. *)
RerunAttaches == [][\A p \in Projects, n, m \in Nodes :
  n # m /\ p \in on[m] /\ <<p, m, "unrecorded">> \in said /\ p \in on'[n] => p \in on[n]]_vars

(* All three: sessions are where the map or the user was told they are,    *)
(* once, and commands end on a true word.                                  *)
PlacementsAreTold == []Accounted /\ []OneHome /\ Honest
===============================================================================
