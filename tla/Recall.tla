------------------------------ MODULE Recall ------------------------------
(***************************************************************************)
(* What a recall does with a conversation's files: the mirror on this PC,  *)
(* the copy into this PC's Claude folder (`--local`), the payload and      *)
(* install_transcripts.sh on another node (`--to`).  Agents work on, calls *)
(* are lost with the script still running, files cannot be written, and    *)
(* the user runs the recall again.  The node map's own races are in        *)
(* NodePlacement, the pull in NodePull.                                    *)
(*                                                                         *)
(* A file is the sequence of the turns in it, empty when it is not there;  *)
(* turns are numbered in time, so the last one is the file's mtime.        *)
(***************************************************************************)
EXTENDS Naturals, FiniteSets, Sequences, SequencesExt

CONSTANTS Node, Home,     \* the nodes; this PC
          Talk, Memo,     \* the conversations; the files of memory/
          Recalling,      \* the recalls, one after the other
          Nobody,         \* no node, no conversation
          MaxTurns, MaxFaults, RecallSetups

ASSUME RecallAssumption ==
  /\ Home \notin Node /\ Talk \cap Memo = {} /\ Nobody \notin Node \cup Talk \cup {Home}
  /\ \A s \in RecallSetups :
       /\ s.store \in [Node \cup {Home} -> [Talk \cup Memo -> Seq(Nat)]] /\ s.mirror \in [Node -> [Talk \cup Memo -> Seq(Nat)]]
       /\ s.live \in [Node \cup {Home} -> Talk \cup {Nobody}] /\ s.placed \in Node \cup {Nobody} /\ s.turns \in Nat

VARIABLES claudeFiles,    \* claudeFiles[p][f]: the file in the project's Claude folder at p
          memoryFolder,   \* what memory/ is at a node: "none", "dir", "file", "link"
          mirrors,        \* mirrors[n][f]: what was pulled from n
          nodeRepos,      \* the node's repos: [ahead: unpushed work, record: the last report here]
          liveTalk,       \* the conversation the agent at p is in, or Nobody
          placedOn,       \* the node the map names, or Nobody
          recalls, installs,
          turnCount, recallFaults,
          lostTurns,      \* <<place, file>> an install took turns away from
          wroteAcross     \* an agent wrote between a script's look at a file and its move

recallvars ==
  <<claudeFiles, memoryFolder, mirrors, nodeRepos, liveTalk, placedOn, recalls, installs, turnCount, recallFaults, lostTurns, wroteAcross>>

File == Talk \cup Memo
Machine == Node \cup {Home}
NoRun == [pc |-> "idle", to |-> Nobody, from |-> Nobody, resume |-> Nobody, reach |-> FALSE, left |-> {}, odd |-> FALSE, told |-> {},
          report |-> "unasked", sent |-> [f \in File |-> <<>>]]
NoScript == [pc |-> "none", at |-> Nobody, todo |-> {}, payload |-> [f \in File |-> <<>>], file |-> Nobody, saw |-> <<>>, kept |-> {}]

RecallTypeOK ==
  /\ \A p \in Machine, f \in File : Len(claudeFiles[p][f]) <= MaxTurns
  /\ liveTalk \in [Machine -> Talk \cup {Nobody}] /\ placedOn \in Node \cup {Nobody} /\ turnCount \in 0..MaxTurns /\ recallFaults \in 0..MaxFaults
  /\ \A r \in Recalling : recalls[r].told \subseteq File /\ installs[r].todo \subseteq File

Present(files) == {f \in File : files[f] # <<>>}
RecallFault == recallFaults < MaxFaults /\ recallFaults' = recallFaults + 1
Quiet == \A r \in Recalling : recalls[r].pc \in {"idle", "done", "failed"}
RecallAt(r, pc) == recalls[r].pc = pc
RecallTo(r, pc) == recalls' = [recalls EXCEPT ![r].pc = pc]
RecallFails(r) == RecallTo(r, "failed")
Moved == UNCHANGED <<nodeRepos, turnCount>>

-----------------------------------------------------------------------------
(* The agents, the sync daemon, the user.                                  *)

\* A turn is appended to a conversation; a memory file is written anew.  A commit may stay unpushed.
Works(p, f) ==
  /\ liveTalk[p] # Nobody /\ f \in Memo \cup {liveTalk[p]} /\ turnCount < MaxTurns /\ turnCount' = turnCount + 1
  /\ claudeFiles' = [claudeFiles EXCEPT ![p][f] = IF f \in Memo THEN <<turnCount'>> ELSE Append(@, turnCount')]
  /\ wroteAcross' = (wroteAcross \/ \E r \in Recalling : installs[r].pc = "judged" /\ installs[r].at = p /\ installs[r].file = f)
  /\ memoryFolder' = IF f \in Memo /\ p \in Node THEN [memoryFolder EXCEPT ![p] = "dir"] ELSE memoryFolder
  /\ f \in Memo /\ p \in Node => memoryFolder[p] \in {"none", "dir"}
  /\ nodeRepos' = IF p \in Node THEN [nodeRepos EXCEPT ![p].ahead = TRUE] ELSE nodeRepos
  /\ UNCHANGED <<mirrors, liveTalk, placedOn, recalls, installs, recallFaults, lostTurns>>

Mirrored(n) == mirrors' = [mirrors EXCEPT ![n] = [f \in File |-> IF claudeFiles[n][f] # <<>> THEN claudeFiles[n][f] ELSE @[f]]]
Syncs(n) ==
  /\ placedOn = n /\ Mirrored(n)
  /\ UNCHANGED <<claudeFiles, memoryFolder, nodeRepos, liveTalk, placedOn, recalls, installs, turnCount, recallFaults, lostTurns, wroteAcross>>

\* The user runs the printed line; and `up` places a project anew, whose agent goes on where its node was.
Newest(files) == LET there == {c \in Talk : files[c] # <<>>} IN
  IF there = {} THEN Nobody ELSE CHOOSE c \in there : \A d \in there : Last(files[d]) <= Last(files[c])
ResumesAtHome(r) ==
  /\ RecallAt(r, "done") /\ recalls[r].to = Home /\ liveTalk[Home] = Nobody /\ recalls[r].resume # Nobody
  /\ claudeFiles[Home][recalls[r].resume] # <<>>
  /\ liveTalk' = [liveTalk EXCEPT ![Home] = recalls[r].resume]
  /\ UNCHANGED <<claudeFiles, memoryFolder, mirrors, nodeRepos, placedOn, recalls, installs, turnCount, recallFaults, lostTurns, wroteAcross>>
Ups(n) ==
  /\ Quiet /\ placedOn = Nobody /\ Newest(claudeFiles[n]) # Nobody /\ placedOn' = n
  /\ liveTalk' = IF liveTalk[n] = Nobody THEN [liveTalk EXCEPT ![n] = Newest(claudeFiles[n])] ELSE liveTalk
  /\ UNCHANGED <<claudeFiles, memoryFolder, mirrors, nodeRepos, recalls, installs, turnCount, recallFaults, lostTurns, wroteAcross>>

-----------------------------------------------------------------------------
(* A recall up to its install.                                             *)

Bystander == UNCHANGED <<claudeFiles, memoryFolder, liveTalk, placedOn, installs, turnCount, lostTurns, wroteAcross>>

\* Another node, or this PC; what can be refused is, and nothing is touched.
Recalls(r) == \E to \in Machine \ {placedOn} :
  /\ Quiet /\ RecallAt(r, "idle") /\ placedOn # Nobody
  /\ recalls' = [recalls EXCEPT ![r] = [NoRun EXCEPT !.pc = "pull", !.to = to, !.from = placedOn]]
  /\ Bystander /\ UNCHANGED <<mirrors, nodeRepos, recallFaults>>
RefusedAtOnce(r) ==
  /\ Quiet /\ RecallAt(r, "idle") /\ placedOn # Nobody /\ RecallFault /\ RecallFails(r) /\ Bystander
  /\ UNCHANGED <<mirrors, nodeRepos>>
PullsLast(r) ==
  /\ RecallAt(r, "pull") /\ Mirrored(recalls[r].from) /\ recalls' = [recalls EXCEPT ![r].pc = "report", ![r].reach = TRUE]
  /\ Bystander /\ UNCHANGED <<nodeRepos, recallFaults>>
\* A pull that another run may finish stops the recall; a node that is away does not, nor a pull refused on this PC.
PullStops(r) == RecallAt(r, "pull") /\ RecallFault /\ RecallFails(r) /\ Bystander /\ UNCHANGED <<mirrors, nodeRepos>>
NodeIsAway(r) == RecallAt(r, "pull") /\ RecallFault /\ RecallTo(r, "report") /\ Bystander /\ UNCHANGED <<mirrors, nodeRepos>>
PullIsRefused(r) ==
  /\ RecallAt(r, "pull") /\ RecallFault /\ recalls' = [recalls EXCEPT ![r].pc = "report", ![r].reach = TRUE] /\ Bystander
  /\ UNCHANGED <<mirrors, nodeRepos>>

Word(work) == IF work THEN "ahead" ELSE "even"
\* The repos as they are, and that is recorded, unless the record cannot be written.
Reports(r) ==
  /\ RecallAt(r, "report") /\ recalls[r].reach /\ LET n == recalls[r].from IN
     /\ recalls' = [recalls EXCEPT ![r].pc = "resume", ![r].report = Word(nodeRepos[n].ahead)]
     /\ \/ nodeRepos' = [nodeRepos EXCEPT ![n].record = Word(nodeRepos[n].ahead)] /\ UNCHANGED recallFaults
        \/ RecallFault /\ UNCHANGED nodeRepos
  /\ Bystander /\ UNCHANGED mirrors
\* The repos as they were last known; no record and one that cannot be read are told apart.
ReportsRecord(r) ==
  /\ RecallAt(r, "report") /\ IF recalls[r].reach THEN RecallFault ELSE UNCHANGED recallFaults
  /\ recalls' = [recalls EXCEPT ![r].pc = "resume", ![r].report = "last known: " \o nodeRepos[recalls[r].from].record]
  /\ Bystander /\ UNCHANGED <<mirrors, nodeRepos>>

Chooses(r) ==
  /\ RecallAt(r, "resume") /\ recalls' = [recalls EXCEPT ![r].pc = "stop", ![r].resume = Newest(mirrors[recalls[r].from])] /\ Bystander
  /\ UNCHANGED <<mirrors, nodeRepos, recallFaults>>
CannotList(r) == RecallAt(r, "resume") /\ RecallFault /\ RecallFails(r) /\ Bystander /\ UNCHANGED <<mirrors, nodeRepos>>
AfterStop(r) == IF Present(mirrors[recalls[r].from]) = {} THEN "clear" ELSE "install"
Stopped(r) == recalls' = [recalls EXCEPT ![r].pc = AfterStop(r), ![r].left = Present(mirrors[recalls[r].from])]
Stops(r) == RecallAt(r, "stop") /\ recalls[r].reach /\ Stopped(r) /\ liveTalk' = [liveTalk EXCEPT ![recalls[r].from] = Nobody]
            /\ UNCHANGED <<claudeFiles, memoryFolder, mirrors, nodeRepos, placedOn, installs, turnCount, recallFaults, lostTurns, wroteAcross>>
\* A session nobody could reach is named, and may run on.
CannotStop(r) ==
  /\ RecallAt(r, "stop") /\ Stopped(r) /\ (recalls[r].reach => RecallFault) /\ (~recalls[r].reach => UNCHANGED recallFaults)
  /\ Bystander /\ UNCHANGED <<mirrors, nodeRepos>>

-----------------------------------------------------------------------------
(* `--local`: each file of the mirror over the one that is here.           *)

LocalStep(r) ==
  /\ RecallAt(r, "install") /\ recalls[r].to = Home
  /\ UNCHANGED <<memoryFolder, mirrors, nodeRepos, liveTalk, placedOn, installs, turnCount, wroteAcross>>
\* The node's copy replaces one that differs, and its name is kept to be told.
Copies(r, f) == LET new == mirrors[recalls[r].from][f] IN
  /\ LocalStep(r) /\ f \in recalls[r].left /\ claudeFiles' = [claudeFiles EXCEPT ![Home][f] = new]
  /\ recalls' = [recalls EXCEPT ![r].left = @ \ {f}, ![r].told = IF claudeFiles[Home][f] \in {<<>>, new} THEN @ ELSE @ \cup {f}]
  /\ lostTurns' = IF IsPrefix(claudeFiles[Home][f], new) THEN lostTurns ELSE lostTurns \cup {<<Home, f>>}
  /\ UNCHANGED recallFaults
\* A file that cannot be copied stops no other one.
CannotCopy(r, f) ==
  /\ LocalStep(r) /\ f \in recalls[r].left /\ RecallFault /\ recalls' = [recalls EXCEPT ![r].left = @ \ {f}, ![r].odd = TRUE]
  /\ UNCHANGED <<claudeFiles, lostTurns>>
\* Then the recall fails, and what it replaced is not told.
CopyEnds(r) ==
  /\ LocalStep(r) /\ recalls[r].left = {} /\ UNCHANGED <<claudeFiles, lostTurns, recallFaults>>
  /\ recalls' = IF recalls[r].odd THEN [recalls EXCEPT ![r].pc = "failed", ![r].told = {}] ELSE [recalls EXCEPT ![r].pc = "clear"]

-----------------------------------------------------------------------------
(* `--to`: the payload, and the script on the node.                        *)

Wire == UNCHANGED <<mirrors, liveTalk, placedOn, turnCount>> /\ Moved
Sends(r) ==
  /\ RecallAt(r, "install") /\ recalls[r].to \in Node
  /\ recalls' = [recalls EXCEPT ![r].pc = "sent", ![r].sent = mirrors[recalls[r].from]]
  /\ installs' = [installs EXCEPT ![r] = [NoScript EXCEPT !.pc = "unpack", !.at = recalls[r].to, !.payload = mirrors[recalls[r].from]]]
  /\ Wire /\ UNCHANGED <<claudeFiles, memoryFolder, recallFaults, lostTurns, wroteAcross>>
\* The mirror will not read, the node's folder cannot be asked for: nothing ran.
SendsNothing(r) ==
  /\ RecallAt(r, "install") /\ recalls[r].to \in Node /\ RecallFault /\ RecallFails(r) /\ Wire
  /\ UNCHANGED <<claudeFiles, memoryFolder, installs, lostTurns, wroteAcross>>

ScriptAt(r, pc) == installs[r].pc = pc /\ UNCHANGED <<recalls, mirrors, liveTalk, placedOn, nodeRepos, turnCount>>
Payload(r) == Present(installs[r].payload)
\* A link where a folder goes, a payload that is cut, a folder that cannot be made: no file is installed.
Refuses(r) ==
  /\ ScriptAt(r, "unpack") /\ IF Payload(r) \cap Memo # {} /\ memoryFolder[installs[r].at] = "link" THEN UNCHANGED recallFaults ELSE RecallFault
  /\ installs' = [installs EXCEPT ![r].pc = "refused"] /\ UNCHANGED <<claudeFiles, memoryFolder, lostTurns, wroteAcross>>
\* The folders, before any file; a file where a folder goes is kept.
MakesFolders(r) == LET n == installs[r].at IN
  /\ ScriptAt(r, "unpack") /\ ~(Payload(r) \cap Memo # {} /\ memoryFolder[n] = "link")
  /\ memoryFolder' = IF Payload(r) \cap Memo # {} /\ memoryFolder[n] = "none" THEN [memoryFolder EXCEPT ![n] = "dir"] ELSE memoryFolder
  /\ installs' = [installs EXCEPT ![r].pc = "placing", ![r].todo = Payload(r)] /\ UNCHANGED <<claudeFiles, recallFaults, lostTurns, wroteAcross>>

\* What is not there goes in; what grew here since replaces; the rest is the node's, and told.
Goes_IfLonger(have, new) == Len(have) < Len(new)
Goes(have, new) == have = <<>> \/ IsStrictPrefix(have, new)
Kept(have, new, under) == under \/ (have # new /\ ~Goes(have, new))
Judges(r, f) == LET s == installs[r]  have == claudeFiles[s.at][f]  under == f \in Memo /\ memoryFolder[s.at] # "dir" IN
  /\ ScriptAt(r, "placing") /\ f \in s.todo
  /\ installs' = [installs EXCEPT ![r] = [s EXCEPT !.todo = @ \ {f}, !.kept = IF Kept(have, s.payload[f], under) THEN @ \cup {f} ELSE @,
                  !.pc = IF ~under /\ Goes(have, s.payload[f]) THEN "judged" ELSE @, !.file = f, !.saw = have]]
  /\ UNCHANGED <<claudeFiles, memoryFolder, recallFaults, lostTurns, wroteAcross>>
Moves(r) == LET s == installs[r] IN
  /\ ScriptAt(r, "judged") /\ claudeFiles' = [claudeFiles EXCEPT ![s.at][s.file] = s.payload[s.file]]
  /\ lostTurns' = IF IsPrefix(claudeFiles[s.at][s.file], s.payload[s.file]) THEN lostTurns ELSE lostTurns \cup {<<s.at, s.file>>}
  /\ wroteAcross' = (wroteAcross \/ claudeFiles[s.at][s.file] # s.saw)
  /\ installs' = [installs EXCEPT ![r].pc = "placing"] /\ UNCHANGED <<memoryFolder, recallFaults>>
CannotMove(r) ==
  /\ ScriptAt(r, "judged") /\ RecallFault /\ installs' = [installs EXCEPT ![r].pc = "refused"]
  /\ UNCHANGED <<claudeFiles, memoryFolder, lostTurns, wroteAcross>>
Finishes(r) ==
  /\ ScriptAt(r, "placing") /\ installs[r].todo = {} /\ installs' = [installs EXCEPT ![r].pc = "done"]
  /\ UNCHANGED <<claudeFiles, memoryFolder, recallFaults, lostTurns, wroteAcross>>

\* The answer; or ssh's failure, or the time is up, with the script still at it.
Heard(r, pc) ==
  /\ RecallAt(r, "sent") /\ installs[r].pc = pc /\ Wire /\ installs' = [installs EXCEPT ![r].pc = "none"]
  /\ UNCHANGED <<claudeFiles, memoryFolder, recallFaults, lostTurns, wroteAcross>>
Installed(r) == Heard(r, "done") /\ recalls' = [recalls EXCEPT ![r].pc = "clear", ![r].told = installs[r].kept]
WasRefused(r) == Heard(r, "refused") /\ RecallFails(r)
GivesUp(r) ==
  /\ RecallAt(r, "sent") /\ RecallFault /\ RecallFails(r) /\ Wire
  /\ UNCHANGED <<claudeFiles, memoryFolder, installs, lostTurns, wroteAcross>>

-----------------------------------------------------------------------------
(* The placement goes; then the session comes up at its new node.          *)

Rest == UNCHANGED <<claudeFiles, memoryFolder, mirrors, installs, lostTurns, wroteAcross>> /\ Moved
Clears(r) ==
  /\ RecallAt(r, "clear") /\ placedOn' = Nobody /\ RecallTo(r, IF recalls[r].to = Home THEN "done" ELSE "up") /\ Rest
  /\ UNCHANGED <<liveTalk, recallFaults>>
CannotClear(r) == RecallAt(r, "clear") /\ RecallFault /\ RecallFails(r) /\ Rest /\ UNCHANGED <<liveTalk, placedOn>>
\* A session that runs there already is attached to; else the conversation goes on, or a fresh one starts.
BringsUp(r) == LET n == recalls[r].to IN
  /\ RecallAt(r, "up") /\ placedOn' = n /\ RecallTo(r, "done") /\ Rest /\ UNCHANGED recallFaults
  /\ \/ liveTalk[n] # Nobody /\ UNCHANGED liveTalk
     \/ liveTalk[n] = Nobody /\ recalls[r].resume # Nobody /\ liveTalk' = [liveTalk EXCEPT ![n] = recalls[r].resume]
     \/ liveTalk[n] = Nobody /\ recalls[r].resume = Nobody /\ \E c \in Talk : claudeFiles[n][c] = <<>> /\ liveTalk' = [liveTalk EXCEPT ![n] = c]
NotUp(r) == RecallAt(r, "up") /\ RecallFault /\ RecallFails(r) /\ Rest /\ UNCHANGED <<liveTalk, placedOn>>

RecallStart(s) ==
  /\ claudeFiles = s.store /\ memoryFolder = s.folder /\ mirrors = s.mirror /\ nodeRepos = s.repo /\ liveTalk = s.live /\ placedOn = s.placed
  /\ turnCount = s.turns
  /\ recalls = [r \in Recalling |-> NoRun] /\ installs = [r \in Recalling |-> NoScript] /\ recallFaults = 0 /\ lostTurns = {} /\ wroteAcross = FALSE
RecallInit == \E s \in RecallSetups : RecallStart(s)

RunStep(r) ==
  \/ Recalls(r) \/ RefusedAtOnce(r) \/ PullsLast(r) \/ PullStops(r) \/ NodeIsAway(r) \/ PullIsRefused(r) \/ Reports(r)
  \/ ReportsRecord(r) \/ Chooses(r) \/ CannotList(r)
  \/ Stops(r) \/ CannotStop(r) \/ CopyEnds(r) \/ Sends(r) \/ SendsNothing(r) \/ Installed(r) \/ WasRefused(r) \/ GivesUp(r)
  \/ Clears(r) \/ CannotClear(r) \/ BringsUp(r) \/ NotUp(r) \/ ResumesAtHome(r)
  \/ \E f \in File : Copies(r, f) \/ CannotCopy(r, f)
ScriptStep(r) == Refuses(r) \/ MakesFolders(r) \/ Moves(r) \/ CannotMove(r) \/ Finishes(r) \/ \E f \in File : Judges(r, f)
\* Nobody has to recall anything, or to work.
Rests == Quiet /\ UNCHANGED recallvars
RecallNext ==
  \/ Rests
  \/ \E r \in Recalling : RunStep(r) \/ ScriptStep(r)
  \/ \E p \in Machine, f \in File : Works(p, f)
  \/ \E n \in Node : Syncs(n) \/ Ups(n)

RecallSpec == RecallInit /\ [][RecallNext]_recallvars

-----------------------------------------------------------------------------

(* An install takes no turn away from a node: what the node holds beyond   *)
(* this PC's copy stays, whatever calls were lost and installs re-run.  Not *)
(* where an agent, or a second install, wrote between a look and its move.  *)
NodesKeepTheirTurns == ~wroteAcross => \A p \in Node, f \in File : <<p, f>> \notin lostTurns

(* No placement is dropped before each file of the payload is at the       *)
(* destination, or is told as kept there; so the conversation that goes on *)
(* is the one that was pulled, or the user knows that it is not.           *)
MovedWhole == \A r \in Recalling : recalls[r].pc \in {"clear", "up"} /\ ~wroteAcross /\ recalls[r].to \in Node =>
  \A c \in Talk : IsPrefix(recalls[r].sent[c], claudeFiles[recalls[r].to][c]) \/ c \in recalls[r].told

(* Both: the node's work stays the node's, and the move is whole.          *)
RecallKeepsWork == NodesKeepTheirTurns /\ MovedWhole

(* Once a recall has brought a project home, every file of this PC that    *)
(* its installs wrote over has been told.                                  *)
ReplacedIsSaid == (\E r \in Recalling : RecallAt(r, "done") /\ recalls[r].to = Home) =>
  \A f \in File : <<Home, f>> \in lostTurns => f \in UNION {recalls[r].told : r \in {q \in Recalling : recalls[q].to = Home}}

=============================================================================
