------------------------------ MODULE NodePull ------------------------------
(***************************************************************************)
(* How one node's transcripts and state records come home: pull.sh on the  *)
(* node, remote_mux.parse_pull and next_since on this PC, the daemon's     *)
(* tick (node_sync.NodeSyncer) and the final pull that `magent down` and   *)
(* `magent node recall` make before they stop a session and drop its       *)
(* placement.                                                              *)
(*                                                                         *)
(* A pull asks for the files newer than a watermark of the node's own      *)
(* clock, one per session.  The node reads its clock, looks at its files   *)
(* one after another while the agents write on, and ships the oldest of    *)
(* what is newer until the reply is full.  This PC stores them and only    *)
(* then moves the watermark.  A file at or behind its session's watermark  *)
(* that is not home will never be asked for again.                         *)
(*                                                                         *)
(* A file's content is the number of times it was written; a transcript is *)
(* appended to, so what is shipped is what the look saw.  Time is whole    *)
(* seconds.  Every session's root exists on the node.                      *)
(***************************************************************************)
EXTENDS Naturals, FiniteSets

CONSTANTS Sids,       \* the sessions of the node
          Files,      \* what they leave on its disk
          Records,    \* those that are agent-state records: the others are
                      \*   transcripts
          Owner,      \* whose each file is
          Tick,       \* the daemon's pull of this node
          Commands,   \* the `down`s and `recall`s that may run at a time
          NoOne,      \* nobody holds the node's lock
          MaxClock,   \* bound: the node's clock
          Setups      \* what a behaviour is about: the files written, the
                      \*   liberties taken, how many files a reply has room
                      \*   for (0: all) and bounds on writes, faults and calls

Overlap == 1    \* WATERMARK_OVERLAP_S
Pullers == Commands \cup {Tick}

ASSUME RecordsAssumption == Records \subseteq Files
ASSUME OwnerAssumption == Owner \in [Files -> Sids]
ASSUME PullersAssumption == Tick \notin Commands /\ NoOne \notin Pullers
ASSUME SetupsAssumption ==
  Setups \subseteq [files : SUBSET Files, liberty : SUBSET {"stepback", "ties", "recall"},
                    room : Nat, writes : Nat, faults : Nat, calls : Nat]

VARIABLES node,     \* each file on the node: written when, and how often
          clock,    \* the node's clock
          running,  \* the sessions whose agents run
          placed,   \* the sessions the node map has
          mirror,   \* how much of each file this PC has
          since,    \* the watermarks of pull.json
          known,    \* the sessions whose real path pull.json has
          lock,     \* who holds node-pull-<nick>
          pull,     \* each puller's pull
          cmd,      \* each command
          spent,    \* writes, faults and calls so far
          setup     \* this behaviour's setup
vars == <<node, clock, running, placed, mirror, since, known, lock, pull, cmd, spent>>
allvars == <<vars, setup>>
pc_vars == <<mirror, since, known, lock, pull, cmd, placed>>

Of(s) == {f \in Files : Owner[f] = s}
Unseen == [f \in Files |-> [at |-> 0, ver |-> 0]]
Off == [pc |-> "off", ask |-> {}, from |-> [s \in Sids |-> 0], full |-> {}, now |-> 0,
        todo |-> {}, seen |-> Unseen, cut |-> {}, bad |-> {}, ever |-> {}]
Idle == [pc |-> "idle", kind |-> "down", sids |-> {}, owed |-> [f \in Files |-> 0], got |-> "not"]

Init == /\ setup \in Setups
        /\ node = Unseen /\ clock = 1 /\ running = {Owner[f] : f \in setup.files} /\ placed = running
        /\ mirror = [f \in Files |-> 0] /\ since = [s \in Sids |-> 0] /\ known = {}
        /\ lock = NoOne /\ pull = [p \in Pullers |-> Off] /\ cmd = [c \in Commands |-> Idle]
        /\ spent = [writes |-> 0, faults |-> 0, calls |-> 0]

Spend(k) == spent[k] < setup[k] /\ spent' = [spent EXCEPT ![k] = @ + 1]
StepsBack == "stepback" \in setup.liberty
-----------------------------------------------------------------------------
(* The node.                                                               *)

(* An agent, or a hook of its, writes a file.  Only with `ties` do two     *)
(* files carry the same instant.                                           *)
Write(f) == /\ Owner[f] \in running /\ f \in setup.files /\ Spend("writes")
            /\ "ties" \in setup.liberty \/ \A g \in Files \ {f} : node[g].at # clock
            /\ node' = [node EXCEPT ![f] = [at |-> clock, ver |-> @.ver + 1]]
            /\ UNCHANGED <<clock, running, pc_vars>>

(* A session's end takes its record away.                                  *)
Remove(f) == /\ f \in Records /\ node[f].at # 0 /\ Spend("writes")
             /\ node' = [node EXCEPT ![f].at = 0]
             /\ UNCHANGED <<clock, running, pc_vars>>

Passes == /\ clock < MaxClock /\ clock' = clock + 1
          /\ UNCHANGED <<node, running, pc_vars, spent>>

(* The node's clock is set back.                                           *)
SetBack == /\ StepsBack /\ Spend("faults")
           /\ \E t \in 1..(clock - 1) : clock' = t
           /\ UNCHANGED <<node, running, pc_vars>>
-----------------------------------------------------------------------------
(* A pull.                                                                 *)

(* The request, and the node's clock as pull.sh starts.                    *)
Asked(ask, from, full, ever) ==
  [Off EXCEPT !.pc = "scan", !.ask = ask, !.from = from, !.full = full, !.now = clock,
              !.todo = {f \in setup.files : Owner[f] \in ask}, !.ever = ever]

(* The daemon reads the map, and leaves the pull to a worker.              *)
ReadMap == /\ pull[Tick].pc = "off"
           /\ pull' = [pull EXCEPT ![Tick].pc = "wait", ![Tick].ask = placed]
           /\ UNCHANGED <<node, clock, running, placed, mirror, since, known, lock, cmd, spent>>

(* Its worker does not wait for the node's lock.                           *)
Locked == /\ pull[Tick].pc = "wait" /\ lock # NoOne
          /\ pull' = [pull EXCEPT ![Tick] = Off]
          /\ UNCHANGED <<node, clock, running, placed, mirror, since, known, lock, cmd, spent>>

Begin_Unlocked(p) ==
  /\ pull[p].pc = "wait"
  /\ lock' = p
  /\ pull' = [pull EXCEPT ![p] = Asked(@.ask, since, known, {})]
  /\ UNCHANGED <<node, clock, running, placed, mirror, since, known, cmd, spent>>
Begin(p) == /\ pull[p].pc = "wait" /\ lock = NoOne
            /\ lock' = p
            /\ pull' = [pull EXCEPT ![p] = Asked(@.ask, since, known, {})]
            /\ UNCHANGED <<node, clock, running, placed, mirror, since, known, cmd, spent>>

(* pull.sh comes by the next file: the records before the transcripts.     *)
NextFile(todo) == CHOOSE f \in todo : todo \cap Records # {} => f \in Records
Look(p) == LET f == NextFile(pull[p].todo) IN
  /\ pull[p].pc = "scan" /\ pull[p].todo # {}
  /\ pull' = [pull EXCEPT ![p].todo = @ \ {f}, ![p].seen[f] = node[f]]
  /\ UNCHANGED <<node, clock, running, placed, mirror, since, known, lock, cmd, spent>>

(* What it saw that is newer than its session's watermark.  It is told the *)
(* transcripts' directory once the session's real path is known.           *)
Offered(P) == {f \in Files : /\ Owner[f] \in P.ask /\ P.seen[f].at > P.from[Owner[f]]
                             /\ f \in Records \/ Owner[f] \in P.full}

(* Oldest first, as far as they fit.                                       *)
Fits(P, S) ==
  /\ S = Offered(P) \/ (setup.room > 0 /\ Cardinality(S) = setup.room)
  /\ \A f \in S, g \in Offered(P) \ S : P.seen[f].at <= P.seen[g].at

Store(P, S) == [f \in Files |-> IF f \in S /\ node[f].at # 0 THEN P.seen[f].ver ELSE mirror[f]]

(* The reply came whole and this PC stores it.  A record gone since it was *)
(* seen is not in it.                                                      *)
Land(p) == LET P == pull[p] IN \E S \in SUBSET Offered(P) :
  /\ P.pc = "scan" /\ P.todo = {} /\ Fits(P, S)
  /\ mirror' = Store(P, S)
  /\ pull' = [pull EXCEPT ![p].pc = "store", ![p].cut = Offered(P) \ S]
  /\ UNCHANGED <<node, clock, running, placed, since, known, lock, cmd, spent>>

(* A file of a session cannot be stored, and what follows it is not.       *)
LandsBadly(p) == LET P == pull[p] IN \E S \in SUBSET Offered(P), s \in P.ask :
  /\ P.pc = "scan" /\ P.todo = {} /\ Fits(P, S) /\ Spend("faults")
  /\ \E K \in SUBSET (S \cap Of(s)) : K # S \cap Of(s) /\ mirror' = Store(P, (S \ Of(s)) \cup K)
  /\ pull' = [pull EXCEPT ![p].pc = "store", ![p].cut = Offered(P) \ S, ![p].bad = {s},
                          ![p].ever = @ \cup {s}]
  /\ UNCHANGED <<node, clock, running, placed, since, known, lock, cmd>>
-----------------------------------------------------------------------------
(* The watermark.                                                          *)

(* The mtime of the oldest file of s left out.                             *)
Resume(P, s) == LET left == {P.seen[f].at : f \in P.cut \cap Of(s)}
                IN  CHOOSE t \in left : \A u \in left : t <= u
AtLeast(a, b) == IF a < b THEN b ELSE a
AtMost(a, b) == IF a < b THEN a ELSE b

NextSince_Forgets(P, s) ==
  IF s \in P.bad THEN P.from[s]
  ELSE IF P.now - Overlap < P.from[s] THEN 0 ELSE P.now - Overlap
(* A file that failed keeps the mark where it is, a clock that runs behind *)
(* the mark starts over, and a reply cut short goes on where it stopped.   *)
NextSince(P, s) ==
  IF s \in P.bad THEN P.from[s]
  ELSE IF P.now - Overlap < P.from[s] THEN 0
  ELSE IF P.cut \cap Of(s) = {} THEN P.now - Overlap
  ELSE AtLeast(P.from[s], AtMost(Resume(P, s) - 1, P.now - Overlap))

NextMark_Moves(P, s) == NextSince(P, s)
(* A session whose transcripts were never asked for starts from zero.      *)
NextMark(P, s) == IF s \in P.full THEN NextSince(P, s) ELSE 0

(* Mirrored records the node no longer has go, when everything landed.     *)
Pruned(P) == [f \in Files |-> IF f \in Records /\ Owner[f] \in P.ask \ P.bad /\ P.seen[f].at = 0
                              THEN 0 ELSE mirror[f]]

(* The tick writes the marks of the sessions it asked for, and no others.  *)
TickKeeps == LET P == pull[Tick] IN
  /\ P.pc = "store"
  /\ mirror' = Pruned(P)
  /\ since' = [s \in Sids |-> IF s \in P.ask THEN NextMark(P, s) ELSE 0]
  /\ known' = P.ask
  /\ lock' = NoOne /\ pull' = [pull EXCEPT ![Tick] = Off]
  /\ UNCHANGED <<node, clock, running, placed, cmd, spent>>

(* The daemon dies, or gets no answer, or no answer it can use.            *)
TickFails == /\ pull[Tick].pc \in {"scan", "store"} /\ Spend("faults")
             /\ lock' = NoOne /\ pull' = [pull EXCEPT ![Tick] = Off]
             /\ UNCHANGED <<node, clock, running, placed, mirror, since, known, cmd>>
-----------------------------------------------------------------------------
(* A command.                                                              *)

(* `down` or `recall` finds the session's entry in the map.                *)
Call(c) == \E s \in placed, kind \in {"down", "recall"} :
  /\ cmd[c].pc = "idle" /\ Spend("calls") /\ (kind = "recall" => "recall" \in setup.liberty)
  /\ cmd' = [cmd EXCEPT ![c] = [pc |-> "pull", kind |-> kind, sids |-> {s},
                                owed |-> [f \in Files |-> IF Owner[f] = s THEN node[f].ver ELSE 0], got |-> "not"]]
  /\ pull' = [pull EXCEPT ![c].pc = "wait", ![c].ask = {s}]
  /\ UNCHANGED <<node, clock, running, placed, mirror, since, known, lock>>

(* The final pull is over: it brought everything home, the node could not  *)
(* be reached ("gone"), or anything else.                                  *)
Ends(c, got) == /\ cmd' = [cmd EXCEPT ![c].pc = "stop", ![c].got = got]
                /\ pull' = [pull EXCEPT ![c] = Off]
                /\ lock' = NoOne

(* The lock is held past the wait.                                         *)
HeldTooLong(c) == /\ pull[c].pc = "wait" /\ lock # NoOne
                  /\ cmd' = [cmd EXCEPT ![c].pc = "stop"]
                  /\ pull' = [pull EXCEPT ![c] = Off]
                  /\ UNCHANGED <<node, clock, running, placed, mirror, since, known, lock, spent>>

NoAnswer(c) == \E got \in {"gone", "not"} :
  /\ pull[c].pc \in {"scan", "store"} /\ Spend("faults") /\ Ends(c, got)
  /\ UNCHANGED <<node, clock, running, placed, mirror, since, known>>

Learns_Not(P) == FALSE
Learns(P) == P.ask \ P.full # {}
Stuck_Never(P, s) == FALSE
Stuck(P, s) == NextMark(P, s) <= P.from[s]
Short(P) == P.cut # {} /\ P.bad = {}

(* The first answer told the real path: it asks again for the transcripts. *)
AskAgain(c) == LET P == pull[c] IN
  /\ P.pc = "store" /\ Learns(P)
  /\ mirror' = Pruned(P)
  /\ pull' = [pull EXCEPT ![c] = Asked(P.ask, [s \in Sids |-> NextMark(P, s)], P.ask, P.ever)]
  /\ UNCHANGED <<node, clock, running, placed, since, known, lock, cmd, spent>>

Marked(P) == /\ since' = [s \in Sids |-> IF s \in P.ask THEN NextMark(P, s) ELSE since[s]]
             /\ known' = known \cup P.ask

(* A reply cut short is asked for again from its mark, while that moves.   *)
Continue(c) == LET P == pull[c] IN
  /\ P.pc = "store" /\ ~Learns(P) /\ Short(P) /\ \A s \in P.ask : ~Stuck(P, s)
  /\ mirror' = Pruned(P) /\ Marked(P)
  /\ pull' = [pull EXCEPT ![c] = Asked(P.ask, since', known', P.ever)]
  /\ UNCHANGED <<node, clock, running, placed, lock, cmd, spent>>

(* It is, or the deadline passed, or a file could not be stored.           *)
Unfinished(c) == LET P == pull[c] IN
  /\ P.pc = "store" /\ ~Learns(P) /\ (P.cut # {} \/ P.ever # {})
  /\ mirror' = Pruned(P) /\ Marked(P) /\ Ends(c, "not")
  /\ UNCHANGED <<node, clock, running, placed, spent>>

Finished(c) == LET P == pull[c] IN
  /\ P.pc = "store" /\ ~Learns(P) /\ P.cut = {} /\ P.ever = {}
  /\ mirror' = Pruned(P) /\ Marked(P) /\ Ends(c, "home")
  /\ UNCHANGED <<node, clock, running, placed, spent>>

Done(c) == cmd' = [cmd EXCEPT ![c] = Idle]

Kill_Clears(c) ==
  /\ cmd[c].pc = "stop" /\ (cmd[c].kind = "recall" => cmd[c].got = "home")
  /\ running' = running \ cmd[c].sids /\ cmd' = [cmd EXCEPT ![c].pc = "clear"]
  /\ UNCHANGED <<node, clock, placed, mirror, since, known, lock, pull, spent>>
(* `down` ends the session, pulled or not; `recall` when it was pulled.    *)
Kill(c) == /\ cmd[c].pc = "stop" /\ (cmd[c].kind = "recall" => cmd[c].got = "home")
           /\ running' = running \ cmd[c].sids
           /\ IF cmd[c].got = "home" THEN cmd' = [cmd EXCEPT ![c].pc = "clear"] ELSE Done(c)
           /\ UNCHANGED <<node, clock, placed, mirror, since, known, lock, pull, spent>>

(* The node does not say whether it did: for `down` a survivor.            *)
KillUnknown(c) == /\ cmd[c].pc = "stop" /\ (cmd[c].kind = "recall" => cmd[c].got = "home")
                  /\ Spend("faults") /\ running' \in {running, running \ cmd[c].sids}
                  /\ IF cmd[c].kind = "recall" THEN cmd' = [cmd EXCEPT ![c].pc = "clear"] ELSE Done(c)
                  /\ UNCHANGED <<node, clock, placed, mirror, since, known, lock, pull>>

(* A recall that may succeed on another run touches nothing; one whose     *)
(* node is gone makes do with what is here.                                *)
RecallStops(c) == /\ cmd[c].pc = "stop" /\ cmd[c].kind = "recall" /\ cmd[c].got = "not"
                  /\ Done(c)
                  /\ UNCHANGED <<node, clock, running, placed, mirror, since, known, lock, pull, spent>>
RecallGoesOn(c) == /\ cmd[c].pc = "stop" /\ cmd[c].kind = "recall" /\ cmd[c].got = "gone"
                   /\ cmd' = [cmd EXCEPT ![c].pc = "clear"]
                   /\ UNCHANGED <<node, clock, running, placed, mirror, since, known, lock, pull, spent>>

Clear(c) == /\ cmd[c].pc = "clear" /\ placed' = placed \ cmd[c].sids /\ Done(c)
            /\ UNCHANGED <<node, clock, running, mirror, since, known, lock, pull, spent>>

(* The map cannot be written, or the install refused.                      *)
Stays(c) == /\ cmd[c].pc = "clear" /\ Spend("faults") /\ Done(c)
            /\ UNCHANGED <<node, clock, running, placed, mirror, since, known, lock, pull>>

(* The command is interrupted.                                             *)
Dies(c) == /\ cmd[c].pc # "idle" /\ Spend("faults") /\ Done(c)
           /\ pull' = [pull EXCEPT ![c] = Off]
           /\ lock' = IF lock = c THEN NoOne ELSE lock
           /\ UNCHANGED <<node, clock, running, placed, mirror, since, known>>
-----------------------------------------------------------------------------
Command(c) == \/ Begin(c) \/ HeldTooLong(c) \/ Look(c) \/ Land(c) \/ AskAgain(c) \/ Continue(c)
              \/ Unfinished(c) \/ Finished(c) \/ Kill(c) \/ RecallStops(c) \/ RecallGoesOn(c) \/ Clear(c)
Breaks(c) == LandsBadly(c) \/ NoAnswer(c) \/ KillUnknown(c) \/ Stays(c) \/ Dies(c)
Daemon == ReadMap \/ Locked \/ Begin(Tick) \/ Look(Tick) \/ Land(Tick) \/ TickKeeps
World == \/ \E f \in Files : Write(f) \/ Remove(f)
         \/ Passes \/ SetBack \/ TickFails \/ LandsBadly(Tick)

Next == /\ UNCHANGED setup
        /\ World \/ Daemon \/ \E c \in Commands : Command(c) \/ Breaks(c) \/ Call(c)

Spec == Init /\ [][Next]_allvars

(* The daemon goes on ticking, commands go on, faults end.  A tick finds   *)
(* the lock free in the end.                                               *)
Fairness == /\ SF_vars(Begin(Tick)) /\ WF_vars(ReadMap) /\ WF_vars(Locked)
            /\ WF_vars(Look(Tick)) /\ WF_vars(Land(Tick)) /\ WF_vars(TickKeeps)
            /\ \A c \in Commands : WF_vars(Command(c))
FairSpec == Spec /\ Fairness
-----------------------------------------------------------------------------
PullType == [pc : {"off", "wait", "scan", "store"}, ask : SUBSET Sids, from : [Sids -> Nat],
             full : SUBSET Sids, now : Nat, todo : SUBSET Files,
             seen : [Files -> [at : Nat, ver : Nat]], cut : SUBSET Files,
             bad : SUBSET Sids, ever : SUBSET Sids]
CmdType == [pc : {"idle", "pull", "stop", "clear"}, kind : {"down", "recall"}, sids : SUBSET Sids,
            owed : [Files -> Nat], got : {"home", "gone", "not"}]

(* Types; whoever is at a pull holds the node's lock, and only commands    *)
(* that pull do.                                                           *)
TypeOK ==
  /\ node \in [Files -> [at : Nat, ver : Nat]] /\ clock \in Nat
  /\ running \subseteq Sids /\ placed \subseteq Sids /\ known \subseteq Sids
  /\ mirror \in [Files -> Nat] /\ since \in [Sids -> Nat]
  /\ pull \in [Pullers -> PullType] /\ cmd \in [Commands -> CmdType]
  /\ \A p \in Pullers : lock = p <=> pull[p].pc \in {"scan", "store"}
  /\ \A c \in Commands : cmd[c].pc = "pull" <=> pull[c].pc # "off"

(* A file that changed since it came home is newer than its session's      *)
(* watermark: it will be asked for.                                        *)
Owed(f) == node[f].at # 0 /\ mirror[f] # node[f].ver
NothingSlipsBehind == ~StepsBack => \A f \in Files : Owed(f) => node[f].at > since[Owner[f]]

(* When the final pull says it is done, the transcripts are home as they   *)
(* were when the command began.                                            *)
LastTurn == \A c \in Commands : cmd[c].got = "home" =>
              \A s \in cmd[c].sids : \A f \in Of(s) \ Records : mirror[f] >= cmd[c].owed[f]
LastTurnIsHome == ~StepsBack => LastTurn

(* What is home is never replaced by something older; only a record the    *)
(* node no longer had goes.                                                *)
NeverOlder == [][\A f \in Files : mirror'[f] >= mirror[f] \/ (f \in Records /\ mirror'[f] = 0)]_vars

(* `down` drops a placement only of a session that it pulled home and that *)
(* is gone: any other stays for the next sync to fetch.                    *)
KeptUntilHome == [][\A s \in placed \ placed' : \E c \in Commands :
                      /\ s \in cmd[c].sids
                      /\ cmd[c].kind = "down" => cmd[c].got = "home" /\ s \notin running]_vars

(* Both: neither a file that is home nor the way back to one is lost.      *)
HomeIsKept == NeverOlder /\ KeptUntilHome

(* The pulls of a final pull come to an end by themselves, with no         *)
(* deadline, and so does every command.                                    *)
CommandEnds == \A c \in Commands : cmd[c].pc # "idle" ~> cmd[c].pc = "idle"

(* What a placed session leaves on its node gets home, and what it took    *)
(* away goes: also after a final pull that did not do it.  (Of files with  *)
(* one mtime that do not fit in one reply the same ones come every time.)  *)
InStep(f) == IF node[f].at = 0 THEN f \in Records => mirror[f] = 0 ELSE mirror[f] = node[f].ver
EventuallyHome == ~StepsBack /\ "ties" \notin setup.liberty =>
                    \A f \in Files : <>[](Owner[f] \in placed => InStep(f))

(* Both: commands end, and what they did not bring home the daemon does.   *)
AllComesHome == CommandEnds /\ EventuallyHome
=============================================================================
