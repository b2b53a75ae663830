------------------------------ MODULE HandOff ------------------------------
(***************************************************************************)
(* A command that was typed where no desktop can see it (an ssh login on   *)
(* Windows) runs itself again on the desktop: a one-shot scheduled task    *)
(* runs a launcher, the launcher runs the command and records its pid and  *)
(* its exit code, and the caller polls for them.  The desktop may be slow, *)
(* the launcher and the caller may die, schtasks may not answer, a scanner *)
(* may hold a file.                                                        *)
(*                                                                         *)
(* Magent 1 is the user's; magent m + 1 is the copy that m handed off.     *)
(* Time passes while a caller sleeps, one poll to a tick.                  *)
(***************************************************************************)
EXTENDS Integers

CONSTANTS Depth, Nil,
          StartGrace, ExitGrace, RcGrace, Budget,  \* _HANDOFF_*_GRACE_S and timeout_s, in polls
          LastTick,
          HandSetups   \* where the user is, and what may go wrong

ASSUME HandAssumption ==
  /\ Depth \in Nat /\ {StartGrace, ExitGrace, RcGrace, Budget, LastTick} \subseteq Nat /\ Nil \notin Int
  /\ HandSetups \subseteq [session : STRING, policy : STRING, desktop : BOOLEAN, faults : Nat]

VARIABLES now, proc,   \* proc[m]: the command itself
          hand,        \* hand[m]: what m does to hand the command off, and its scratch folder
          task, desk,  \* desk[m]: the launcher m's task runs, and what it recorded
          faults, handSetup

handvars == <<now, proc, hand, task, desk, faults, handSetup>>

Magent == 1..Depth
Caller == 1..(Depth - 1)
NotRun == [pc |-> "none", session |-> "desk", policy |-> "handoff", code |-> Nil]
NoHand == [pc |-> "none", at |-> 0, by |-> 0, startBy |-> 0, gone |-> Nil, rcSeen |-> Nil, checked |-> FALSE,
           answer |-> "none", code |-> Nil, scratch |-> "none", saw |-> 0, mute |-> FALSE]
NoTask == [there |-> FALSE, asked |-> FALSE, at |-> 0]
NoDesk == [pc |-> "off", session |-> "desk", times |-> 0, pid |-> FALSE, rc |-> Nil, failed |-> FALSE, died |-> FALSE]

HandTypeOK ==
  /\ now \in 0..LastTick /\ faults \in 0..handSetup.faults
  /\ \A m \in Magent : proc[m].pc \in {"none", "born", "works", "relays", "ended"}
  /\ \A m \in Caller : /\ hand[m].pc \in {"none", "stage", "create", "run", "look", "budget", "pids", "query", "over", "settle", "delete", "told", "killed"}
                       /\ desk[m].pc \in {"off", "shell", "spawned", "waiting", "exited", "over"} /\ task[m].there \in BOOLEAN

Fault == faults < handSetup.faults /\ faults' = faults + 1
Ended(m, code) == proc' = [proc EXCEPT ![m] = [@ EXCEPT !.pc = "ended", !.code = code]]

-----------------------------------------------------------------------------
(* The command.                                                            *)

\* The desktop is never asked about; a policy may let Session 0 do, or hand off, where there is a desktop.
Disposition(session, policy) ==
  IF session = "desk" \/ policy = "allow" THEN "run"
  ELSE IF policy = "handoff" /\ handSetup.desktop THEN "handoff" ELSE "refuse"

CommandStep(m) == UNCHANGED <<now, task, desk, faults, handSetup>>
Decides(m) ==
  /\ proc[m].pc = "born" /\ CommandStep(m) /\ LET d == Disposition(proc[m].session, proc[m].policy) IN
     \/ d = "run" /\ proc' = [proc EXCEPT ![m].pc = "works"] /\ UNCHANGED hand
     \/ d = "refuse" /\ Ended(m, 1) /\ UNCHANGED hand
     \/ d = "handoff" /\ m \in Caller /\ proc' = [proc EXCEPT ![m].pc = "relays"] /\ hand' = [hand EXCEPT ![m].pc = "stage"]
Works(m) == proc[m].pc = "works" /\ (\E code \in {0, 2} : Ended(m, code)) /\ CommandStep(m) /\ UNCHANGED hand
\* The relay: the copy's code is the command's; whatever else was answered is a 1.
Relays(m) == /\ proc[m].pc = "relays" /\ hand[m].pc = "told" /\ CommandStep(m) /\ UNCHANGED hand
             /\ Ended(m, IF hand[m].answer = "code" THEN hand[m].code ELSE 1)

-----------------------------------------------------------------------------
(* Task Scheduler and the launcher.                                        *)

DeskStep == UNCHANGED <<now, hand, handSetup>>
DeskTo(m, pc) == desk' = [desk EXCEPT ![m].pc = pc]
\* Asked for, or at its own time: today's midnight, which is over.
Wanted(m) == task[m].asked \/ task[m].at = now
TaskStarts(m) ==
  /\ task[m].there /\ Wanted(m) /\ handSetup.desktop /\ desk[m].pc \in {"off", "over"} /\ hand[m].scratch = "staged" /\ DeskStep /\ UNCHANGED proc
  /\ task' = [task EXCEPT ![m].asked = FALSE]
  /\ \/ desk' = [desk EXCEPT ![m] = [@ EXCEPT !.pc = "shell", !.session = "desk"]] /\ UNCHANGED faults
     \/ desk' = [desk EXCEPT ![m] = [@ EXCEPT !.pc = "shell", !.session = "zero"]] /\ Fault
\* The script takes the right to hand off from what it runs.
CopysPolicy_Kept(m) == proc[m].policy
CopysPolicy(m) == "refuse"
Launches(m) ==
  /\ desk[m].pc = "shell" /\ hand[m].scratch = "staged" /\ DeskStep /\ UNCHANGED <<task, faults>>
  /\ desk' = [desk EXCEPT ![m] = [@ EXCEPT !.pc = "spawned", !.times = desk[m].times + 1]]
  /\ proc' = [proc EXCEPT ![m + 1] = [NotRun EXCEPT !.pc = "born", !.session = desk[m].session, !.policy = CopysPolicy(m)]]
\* A command that will not start is a 1, if that can be written, and err.txt says why.
CannotLaunch(m) ==
  /\ desk[m].pc = "shell" /\ Fault /\ DeskStep /\ UNCHANGED <<task, proc>>
  /\ \E code \in {1, Nil} : desk' = [desk EXCEPT ![m] = [@ EXCEPT !.pc = "over", !.rc = code, !.failed = TRUE]]
\* The pid is the word that it started; without it the code still comes.
RecordsPid(m) ==
  /\ desk[m].pc = "spawned" /\ DeskStep /\ UNCHANGED <<task, proc>>
  /\ \/ desk' = [desk EXCEPT ![m] = [@ EXCEPT !.pc = "waiting", !.pid = TRUE]] /\ UNCHANGED faults
     \/ DeskTo(m, "waiting") /\ Fault
ChildIsGone(m) == proc[m + 1].pc = "ended"
Waited(m) == desk[m].pc = "waiting" /\ ChildIsGone(m) /\ DeskTo(m, "exited") /\ DeskStep /\ UNCHANGED <<task, proc, faults>>
RecordsCode(m) == desk[m].pc = "exited" /\ desk' = [desk EXCEPT ![m] = [@ EXCEPT !.pc = "over", !.rc = proc[m + 1].code]] /\ DeskStep /\ UNCHANGED <<task, proc, faults>>
\* Killed, or a code that five tries could not write.
LauncherDies(m) == desk[m].pc \in {"shell", "spawned", "waiting", "exited"} /\ Fault /\ desk' = [desk EXCEPT ![m] = [@ EXCEPT !.pc = "over", !.died = TRUE]] /\ DeskStep /\ UNCHANGED <<task, proc>>

-----------------------------------------------------------------------------
(* The caller.                                                             *)

CallerAt(m, pc) == hand[m].pc = pc /\ UNCHANGED <<now, proc, desk, handSetup>>
HandTo(m, pc) == hand' = [hand EXCEPT ![m].pc = pc]
Answers_AndCleans(m, what) == hand' = [hand EXCEPT ![m] = [@ EXCEPT !.pc = "delete", !.answer = what, !.scratch = "removed"]]
Answers(m, what) == hand' = [hand EXCEPT ![m] = [@ EXCEPT !.pc = "delete", !.answer = what]]

\* Nothing to clean up where nothing could be staged; a path too long for /TR leaves what was.
Stages(m) == CallerAt(m, "stage") /\ UNCHANGED task /\
  \/ hand' = [hand EXCEPT ![m] = [@ EXCEPT !.pc = "create", !.scratch = "staged"]] /\ UNCHANGED faults
  \/ \E left \in {"none", "staged"} : hand' = [hand EXCEPT ![m] = [@ EXCEPT !.pc = "told", !.answer = "failed", !.scratch = left]] /\ Fault
\* /ST 00:00: earlier than any poll of this hand-off.
Trigger_Tonight == now + Budget
Trigger == -1
\* schtasks refuses, or is given up, and then may have done it.
Creates(m) == CallerAt(m, "create") /\
  \/ HandTo(m, "run") /\ UNCHANGED faults /\ task' = [task EXCEPT ![m] = [NoTask EXCEPT !.there = TRUE, !.at = Trigger]]
  \/ Answers(m, "failed") /\ Fault /\ \E made \in BOOLEAN : task' = [task EXCEPT ![m] = [NoTask EXCEPT !.there = made, !.at = Trigger]]
Waits(m) == hand' = [hand EXCEPT ![m] = [@ EXCEPT !.pc = "look", !.at = now, !.by = now + Budget, !.startBy = now + StartGrace]]
AsksForIt(m) == CallerAt(m, "run") /\
  \/ /\ Waits(m) /\ task' = [task EXCEPT ![m].asked = TRUE] /\ UNCHANGED faults
  \/ Answers(m, "failed") /\ Fault /\ \E asked \in BOOLEAN : task' = [task EXCEPT ![m].asked = asked]

Poll(m, pc) == CallerAt(m, pc) /\ UNCHANGED task
Notes(m, what, seen) == hand' = [hand EXCEPT ![m] = [@ EXCEPT !.pc = "look", !.at = now + 1, ![what] = seen]]
Sleeps(m) == Notes(m, "checked", hand[m].checked)
\* The code came: the folder goes with it, but for what something holds open.
TakesCode(m) == \E left \in {"removed", hand[m].scratch} :
  hand' = [hand EXCEPT ![m] = [@ EXCEPT !.pc = "delete", !.answer = "code", !.code = desk[m].rc, !.scratch = left]]
\* First the code; a file that is held says nothing yet.
SeesNoCode(m) == hand' = [hand EXCEPT ![m] = [@ EXCEPT !.pc = "budget", !.saw = desk[m].times]]
Looks(m) ==
  /\ Poll(m, "look") /\ now >= hand[m].at
  /\ \/ desk[m].rc # Nil /\ TakesCode(m) /\ UNCHANGED faults
     \/ SeesNoCode(m) /\ (IF desk[m].rc = Nil THEN UNCHANGED faults ELSE Fault)
\* Then the time; then a code that is there and does not read.
MindsBudget(m) == LET since == IF hand[m].rcSeen = Nil THEN now ELSE hand[m].rcSeen IN
  /\ Poll(m, "budget") /\ UNCHANGED faults
  /\ \/ now >= hand[m].by /\ HandTo(m, "over")
     \/ now < hand[m].by /\ desk[m].rc # Nil /\ now - since >= RcGrace /\ HandTo(m, "settle")
     \/ now < hand[m].by /\ desk[m].rc # Nil /\ now - since < RcGrace /\ Notes(m, "rcSeen", since)
     \/ now < hand[m].by /\ desk[m].rc = Nil /\ HandTo(m, "pids")
\* A pid that is gone gets a while for its code; no pid after a while, not written or held, and Task Scheduler is asked.
MindsPid(m) == LET since == IF hand[m].gone = Nil THEN now ELSE hand[m].gone IN
  Poll(m, "pids") /\ \E pid \in {FALSE, desk[m].pid} :
    /\ IF pid = desk[m].pid THEN UNCHANGED faults ELSE Fault
    /\ \/ pid /\ ChildIsGone(m) /\ now - since >= ExitGrace /\ Answers(m, "lost")
       \/ pid /\ ChildIsGone(m) /\ now - since < ExitGrace /\ Notes(m, "gone", since)
       \/ pid /\ ~ChildIsGone(m) /\ Sleeps(m)
       \/ ~pid /\ ~hand[m].checked /\ now > hand[m].startBy /\ HandTo(m, "query")
       \/ ~pid /\ (hand[m].checked \/ now <= hand[m].startBy) /\ Sleeps(m)
IsRunning_NotAsked(m) == FALSE
IsRunning(m) == desk[m].pc \notin {"off", "over"}
AsksScheduler(m) ==
  /\ Poll(m, "query")
  /\ \/ IsRunning(m) /\ Notes(m, "checked", TRUE) /\ UNCHANGED faults
     \/ ~IsRunning(m) /\ Answers(m, "never") /\ UNCHANGED faults
     \/ hand' = [hand EXCEPT ![m] = [@ EXCEPT !.pc = "delete", !.answer = "never", !.mute = TRUE]] /\ Fault
\* The time is up: what runs on is left to run.
TimeIsUp(m) == Poll(m, "over") /\ UNCHANGED faults /\ IF desk[m].rc # Nil THEN HandTo(m, "settle") ELSE Answers(m, "timeout")
Settles(m) == Poll(m, "settle") /\ ((TakesCode(m) /\ UNCHANGED faults) \/ (Answers(m, "unreadable") /\ Fault))
\* On every path the task goes, if it can.
Deletes(m) ==
  /\ CallerAt(m, "delete") /\ HandTo(m, "told")
  /\ (task' = [task EXCEPT ![m] = NoTask] /\ UNCHANGED faults) \/ (UNCHANGED task /\ Fault)
\* ssh drops and takes the caller with it; its task and its folder stay.
CallerDies(m) ==
  /\ hand[m].pc \in {"stage", "create", "run", "look", "budget", "pids", "query", "over", "settle", "delete"} /\ Fault /\ HandTo(m, "killed") /\ Ended(m, 1)
  /\ UNCHANGED <<now, task, desk, handSetup>>

-----------------------------------------------------------------------------

Asleep(m) == hand[m].pc \in {"none", "told", "killed"} \/ (hand[m].pc = "look" /\ hand[m].at > now)
TimePasses == now < LastTick /\ (\A m \in Caller : Asleep(m)) /\ (\E m \in Caller : hand[m].pc \in {"look", "killed"}) /\ now' = now + 1 /\ UNCHANGED <<proc, hand, task, desk, faults, handSetup>>

HandStart(s) ==
  /\ handSetup = s /\ now = 0 /\ faults = 0
  /\ proc = [m \in Magent |-> IF m = 1 THEN [NotRun EXCEPT !.pc = "born", !.session = s.session, !.policy = s.policy] ELSE NotRun]
  /\ hand = [m \in Caller |-> NoHand] /\ task = [m \in Caller |-> NoTask] /\ desk = [m \in Caller |-> NoDesk]
HandInit == \E s \in HandSetups : HandStart(s)

HandOver == proc[1].pc = "ended" /\ UNCHANGED handvars
HandNext ==
  \/ HandOver \/ TimePasses
  \/ \E m \in Magent : Decides(m) \/ Works(m)
  \/ \E m \in Caller :
       \/ Relays(m) \/ TaskStarts(m) \/ Launches(m) \/ CannotLaunch(m) \/ RecordsPid(m) \/ Waited(m) \/ RecordsCode(m) \/ LauncherDies(m)
       \/ Stages(m) \/ Creates(m) \/ AsksForIt(m) \/ Looks(m) \/ MindsBudget(m) \/ MindsPid(m) \/ AsksScheduler(m) \/ TimeIsUp(m) \/ Settles(m)
       \/ Deletes(m) \/ CallerDies(m)

HandSpec == HandInit /\ [][HandNext]_handvars

-----------------------------------------------------------------------------

(* What the caller tells is so: a code is the command's own, or the 1 of a *)
(* command that would not start; a command that is said to be over is; and *)
(* one that "never started" had not when the caller last looked, where     *)
(* Task Scheduler answered, no launcher died, and no code came since.      *)
AnswersAreTrue == \A m \in Caller : LET h == hand[m] IN
  /\ h.answer = "code" => (ChildIsGone(m) /\ proc[m + 1].code = h.code) \/ (desk[m].failed /\ h.code = 1)
  /\ h.answer \in {"lost", "unreadable"} => ChildIsGone(m) \/ desk[m].failed
  /\ h.answer = "never" => h.saw = 0 \/ h.mute \/ desk[m].died \/ desk[m].rc # Nil

(* A command is run once, though its caller died, a call was given up or   *)
(* its task stayed behind; no copy hands off in its turn, so no chain of   *)
(* tasks; and the scratch folder stays until its launcher is through.      *)
RunOnceAndNoDeeper == \A m \in Caller :
  desk[m].times <= 1 /\ (m > 1 => proc[m].pc # "relays") /\ (hand[m].scratch = "removed" => desk[m].rc # Nil)

(* Both.                                                                   *)
HandOffIsHonest == AnswersAreTrue /\ RunOnceAndNoDeeper

=============================================================================
