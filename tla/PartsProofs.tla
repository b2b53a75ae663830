--------------------------- MODULE PartsProofs ---------------------------
(***************************************************************************)
(* Theorems about parts that MCComponents checks: a hand-off tells no lie  *)
(* and runs its command once, a call to a node returns all its child       *)
(* wrote, the config file survives its editors, a tick of the node sync    *)
(* accounts for each pull, a shared log keeps its records, `send` and      *)
(* `model` are honest about what they typed, and an attached pane is kept. *)
(***************************************************************************)
EXTENDS HandOff, NodeCall, ConfigEdits, SyncTick, SharedLog, FleetSend, Attach,
        TLAPS, FiniteSetTheorems, SequenceTheorems, WellFoundedInduction, NaturalsInduction

-----------------------------------------------------------------------------
(* The hand-off.  Records are typed by their fields: [f |-> e, ...] and    *)
(* EXCEPT keep a record's domain.                                          *)

HandTypes ==
  /\ handSetup \in HandSetups /\ now \in Nat
  /\ DOMAIN proc = Magent /\ \A m \in Magent : DOMAIN proc[m] = DOMAIN NotRun
  /\ DOMAIN hand = Caller /\ \A m \in Caller : DOMAIN hand[m] = DOMAIN NoHand
  /\ DOMAIN task = Caller /\ \A m \in Caller : DOMAIN task[m] = DOMAIN NoTask
  /\ DOMAIN desk = Caller /\ \A m \in Caller : DOMAIN desk[m] = DOMAIN NoDesk

(* Only the user's command hands off: its copy may not, and there is no    *)
(* other.                                                                  *)
NoOther ==
  /\ \A m \in Caller : m # 1 => hand[m] = NoHand /\ task[m] = NoTask /\ desk[m] = NoDesk
  /\ \A m \in Magent : m \notin {1, 2} => proc[m] = NotRun
CopyRefuses == 2 \in Magent => LET p == proc[2] IN
  p = NotRun \/ (p.policy = "refuse" /\ p.pc # "relays" /\ (p.pc = "ended" => p.code \in Int))

(* What the launcher has done, and recorded, at each place.                *)
LauncherAt == 1 \in Caller => LET d == desk[1] IN
  /\ d.pc \in {"off", "shell", "spawned", "waiting", "exited", "over"} /\ d.times \in {0, 1}
  /\ d.pc \in {"off", "shell"} => d.times = 0 /\ d.rc = Nil
  /\ d.pc \in {"spawned", "waiting", "exited"} => d.times = 1 /\ d.rc = Nil
  /\ d.times = 0 => proc[2].pc = "none" /\ ~d.pid
  /\ d.pc = "exited" => proc[2].pc = "ended"
  /\ d.pc = "over" => d.rc # Nil \/ d.died \/ d.times = 0
  /\ d.rc # Nil => (proc[2].pc = "ended" /\ proc[2].code = d.rc) \/ (d.failed /\ d.rc = 1)

(* A task fires for the asking, and it is asked for once.                  *)
AskedOnce == 1 \in Caller => LET h == hand[1] t == task[1] IN
  /\ h.pc \in {"none", "stage", "create", "run"} => ~t.asked /\ desk[1].pc = "off"
  /\ t.asked => desk[1].pc = "off"
  /\ t.there => t.at = -1
  /\ proc[1].pc \in {"none", "born", "works"} => h.pc = "none"
  /\ h.pc \notin {"none", "told", "killed"} => proc[1].pc = "relays"

(* What the caller has seen is so.                                         *)
CallerKnows == 1 \in Caller => LET h == hand[1] d == desk[1] IN
  /\ h.pc = "settle" \/ h.scratch = "removed" => d.rc # Nil
  /\ h.pc \notin {"delete", "told", "killed"} => h.answer = "none"
  /\ h.answer = "code" => d.rc # Nil /\ h.code = d.rc
  /\ h.answer \in {"lost", "unreadable"} => proc[2].pc = "ended" \/ d.rc # Nil
  /\ h.saw \in {0, d.times}
  /\ h.answer = "never" => h.saw = 0 \/ h.mute \/ d.died \/ d.rc # Nil

HandInv == HandTypes /\ NoOther /\ CopyRefuses /\ LauncherAt /\ AskedOnce /\ CallerKnows

(* What the caller told, and has still to tell, stays.                     *)
Keeps(h, k) == k.answer = h.answer /\ k.code = h.code /\ k.scratch = h.scratch /\ k.mute = h.mute

LEMMA HandInvNext == HandInv /\ [HandNext]_handvars => HandInv'
<1> SUFFICES ASSUME HandTypes, NoOther, CopyRefuses, LauncherAt, AskedOnce, CallerKnows, [HandNext]_handvars PROVE HandInv'
  BY DEF HandInv
<1>0. Caller \subseteq Magent /\ (1 \in Caller => 2 \in Magent) /\ (\A m \in Caller : m + 1 \in Magent)
  BY HandAssumption DEF Magent, Caller
<1>a. ASSUME 1 \in Caller, NEW pc, HandTo(1, pc) PROVE hand'[1].pc = pc /\ Keeps(hand[1], hand'[1]) /\ hand'[1].saw = hand[1].saw
  BY <1>a DEF HandTypes, HandTo, Keeps, NoHand
<1>b. ASSUME 1 \in Caller, NEW what \in {"gone", "rcSeen", "checked"}, NEW seen, Notes(1, what, seen)
      PROVE hand'[1].pc = "look" /\ Keeps(hand[1], hand'[1]) /\ hand'[1].saw = hand[1].saw
  BY <1>b DEF HandTypes, Notes, Keeps, NoHand
<1>c. ASSUME 1 \in Caller, NEW what, Answers(1, what)
      PROVE hand'[1].pc = "delete" /\ hand'[1].answer = what /\ hand'[1].scratch = hand[1].scratch /\ hand'[1].saw = hand[1].saw /\ hand'[1].mute = hand[1].mute
  BY <1>c DEF HandTypes, Answers, NoHand
<1>d. ASSUME 1 \in Caller, TakesCode(1) PROVE hand'[1].pc = "delete" /\ hand'[1].answer = "code" /\ hand'[1].code = desk[1].rc /\ hand'[1].saw = hand[1].saw
  BY <1>d DEF HandTypes, TakesCode, NoHand
<1>e. ASSUME 1 \in Caller, SeesNoCode(1) PROVE hand'[1].pc = "budget" /\ Keeps(hand[1], hand'[1]) /\ hand'[1].saw = desk[1].times
  BY <1>e DEF HandTypes, SeesNoCode, Keeps, NoHand
<1>g. ASSUME 1 \in Caller, Waits(1) PROVE hand'[1].pc = "look" /\ Keeps(hand[1], hand'[1]) /\ hand'[1].saw = hand[1].saw
  BY <1>g DEF HandTypes, Waits, Keeps, NoHand
<1> USE <1>0
<1>1. CASE UNCHANGED handvars
  BY <1>1 DEF handvars, HandInv, HandTypes, NoOther, CopyRefuses, LauncherAt, AskedOnce, CallerKnows
<1>2. CASE TimePasses
  BY <1>2 DEF TimePasses, HandInv, HandTypes, NoOther, CopyRefuses, LauncherAt, AskedOnce, CallerKnows
<1>w. ASSUME NEW m \in Magent \cap {1, 2}, proc[m].pc \in {"born", "works"}, UNCHANGED <<now, task, desk, hand, handSetup>>,
             proc' = [proc EXCEPT ![m].pc = "works"] \/ \E code \in Int : Ended(m, code)
      PROVE  HandInv'
  <2>1. HandTypes' /\ NoOther'
    BY <1>w DEF HandTypes, NoOther, NotRun, Ended
  <2>2. proc'[m].pc \in {"works", "ended"} /\ (proc'[m].pc = "ended" => proc'[m].code \in Int) /\ (\A k \in Magent : k # m => proc'[k] = proc[k])
    BY <1>w, ZenonT(60) DEF HandTypes, NotRun, Ended
  <2>3. proc'[m].policy = proc[m].policy
    BY <1>w DEF HandTypes, NotRun, Ended
  <2>4. CopyRefuses'
    BY <1>w, <2>2, <2>3 DEF CopyRefuses, NotRun
  <2>5. LauncherAt' /\ CallerKnows'
    BY <1>w, <2>2 DEF LauncherAt, CallerKnows
  <2>6. AskedOnce'
    BY <1>w, <2>2 DEF AskedOnce
  <2> QED
    BY <2>1, <2>4, <2>5, <2>6 DEF HandInv
<1>3. ASSUME NEW m \in Magent, Decides(m) PROVE HandInv'
  <2>1. m \in {1, 2} /\ proc[m].pc = "born" /\ UNCHANGED <<now, task, desk, handSetup>>
    BY <1>3 DEF Decides, CommandStep, NoOther, NotRun
  <2>2. CASE UNCHANGED hand /\ (proc' = [proc EXCEPT ![m].pc = "works"] \/ Ended(m, 1))
    BY <1>w, <2>1, <2>2
  <2>3. CASE m \in Caller /\ proc' = [proc EXCEPT ![m].pc = "relays"] /\ hand' = [hand EXCEPT ![m].pc = "stage"] /\ Disposition(proc[m].session, proc[m].policy) = "handoff"
    <3>1. m = 1
      BY <2>1, <2>3 DEF Disposition, CopyRefuses, NotRun
    <3>2. HandTypes' /\ NoOther'
      BY <2>1, <2>3, <3>1 DEF HandTypes, NoOther
    <3>3. hand'[1].pc = "stage" /\ Keeps(hand[1], hand'[1]) /\ hand'[1].saw = hand[1].saw /\ proc'[1].pc = "relays" /\ (2 \in Magent => proc'[2] = proc[2])
      BY <2>3, <3>1 DEF HandTypes, NoHand, NotRun, Keeps
    <3>4. hand[1].pc = "none"
      BY <2>1, <2>3, <3>1 DEF AskedOnce
    <3>5. CopyRefuses' /\ LauncherAt' /\ AskedOnce'
      BY <2>1, <3>3, <3>4 DEF CopyRefuses, LauncherAt, AskedOnce
    <3>6. CallerKnows'
      BY <2>1, <3>3, <3>4 DEF CallerKnows, Keeps
    <3> QED
      BY <3>2, <3>5, <3>6 DEF HandInv
  <2> QED
    BY <1>3, <2>2, <2>3 DEF Decides
<1>4. ASSUME NEW m \in Magent, Works(m) PROVE HandInv'
  <2>1. m \in {1, 2}
    BY <1>4 DEF Works, NoOther, NotRun
  <2> QED
    BY <1>4, <1>w, <2>1 DEF Works, CommandStep
<1>5. ASSUME NEW m \in Caller, Relays(m) PROVE HandInv'
  <2>1. m = 1
    BY <1>5 DEF NoOther, NoHand, NoTask, NoDesk, NotRun, CopyRefuses, Relays, Ended, CommandStep
  <2>2. HandTypes' /\ NoOther'
    BY <1>5, <2>1 DEF HandTypes, NoOther, NoTask, NotRun, Relays, Ended, CommandStep
  <2>3. CopyRefuses'
    BY <1>5, <2>1 DEF HandTypes, CopyRefuses, LauncherAt, NoHand, NoTask, NoDesk, NotRun, Relays, Ended, CommandStep
  <2>4. LauncherAt'
    BY <1>5, <2>1 DEF HandTypes, LauncherAt, CopyRefuses, AskedOnce, NoHand, NoTask, NoDesk, NotRun, Relays, Ended, CommandStep
  <2>5. AskedOnce'
    BY <1>5, <2>1 DEF HandTypes, AskedOnce, LauncherAt, NoHand, NoTask, NoDesk, NotRun, Relays, Ended, CommandStep
  <2>6. CallerKnows'
    BY <1>5, <2>1 DEF HandTypes, CallerKnows, LauncherAt, CopyRefuses, NoHand, NoTask, NoDesk, NotRun, Relays, Ended, CommandStep
  <2> QED
    BY <2>2, <2>3, <2>4, <2>5, <2>6 DEF HandInv
<1>6. ASSUME NEW m \in Caller, TaskStarts(m) PROVE HandInv'
  <2>1. m = 1
    BY <1>6 DEF NoOther, NoHand, NoTask, NoDesk, NotRun, CopyRefuses, TaskStarts, Wanted, DeskStep
  <2>2. HandTypes' /\ NoOther'
    BY <1>6, <2>1, ZenonT(60) DEF HandTypes, NoOther, NoTask, NotRun, TaskStarts, Wanted, DeskStep
  <2>3. 1 \in Caller /\ desk[1].pc = "off" /\ hand[1].pc \notin {"none", "stage", "create", "run"} /\ UNCHANGED <<proc, hand>> /\ task' = [task EXCEPT ![1].asked = FALSE]
    BY <1>6, <2>1 DEF HandTypes, LauncherAt, AskedOnce, NoOther, NoTask, NoDesk, NoHand, TaskStarts, Wanted, DeskStep
  <2>4. CASE \E s \in {"desk", "zero"} : desk' = [desk EXCEPT ![1] = [@ EXCEPT !.pc = "shell", !.session = s]]
    <3>1. CopyRefuses'
      BY <2>3, <2>4 DEF HandTypes, CopyRefuses, LauncherAt, NoHand, NoTask, NoDesk, NotRun
    <3>2. LauncherAt'
      BY <2>3, <2>4 DEF HandTypes, LauncherAt, CopyRefuses, NoHand, NoTask, NoDesk, NotRun
    <3>3. AskedOnce'
      BY <2>3, <2>4 DEF HandTypes, AskedOnce, LauncherAt, CopyRefuses, NoHand, NoTask, NoDesk, NotRun
    <3>4. CallerKnows'
      BY <2>3, <2>4 DEF HandTypes, CallerKnows, LauncherAt, CopyRefuses, NoHand, NoTask, NoDesk, NotRun
    <3> QED
      BY <2>2, <3>1, <3>2, <3>3, <3>4 DEF HandInv
  <2> QED
    BY <1>6, <2>1, <2>3, <2>4 DEF TaskStarts, Wanted, DeskStep
<1>7. ASSUME NEW m \in Caller, Launches(m) PROVE HandInv'
  <2>1. m = 1
    BY <1>7 DEF NoOther, NoHand, NoTask, NoDesk, NotRun, CopyRefuses, Launches, CopysPolicy, DeskStep
  <2>2. HandTypes' /\ NoOther'
    BY <1>7, <2>1 DEF HandTypes, NoOther, NoTask, NotRun, Launches, CopysPolicy, DeskStep
  <2>3. 1 \in Caller /\ desk[1].pc = "shell" /\ desk[1].times = 0 /\ UNCHANGED <<hand, task>>
    BY <1>7, <2>1 DEF HandTypes, LauncherAt, AskedOnce, NoOther, NoTask, NoDesk, NoHand, Launches, CopysPolicy, DeskStep
  <2>4. desk'[1].pc = "spawned" /\ desk'[1].times = 1 /\ desk'[1].rc = desk[1].rc /\ desk'[1].pid = desk[1].pid /\ desk'[1].died = desk[1].died /\ desk'[1].failed = desk[1].failed
    BY <1>7, <2>1, <2>3 DEF HandTypes, NoDesk, Launches
  <2>5. proc' = [proc EXCEPT ![2] = [NotRun EXCEPT !.pc = "born", !.session = desk[1].session, !.policy = "refuse"]]
    BY <1>7, <2>1 DEF Launches, CopysPolicy
  <2>6. CopyRefuses'
    BY <2>3, <2>4, <2>5 DEF HandTypes, CopyRefuses, LauncherAt, NoHand, NoTask, NoDesk, NotRun
  <2>7. LauncherAt'
    BY <2>3, <2>4, <2>5 DEF HandTypes, LauncherAt, CopyRefuses, NoHand, NoTask, NoDesk, NotRun
  <2>8. AskedOnce'
    BY <2>3, <2>4, <2>5 DEF HandTypes, AskedOnce, LauncherAt, CopyRefuses, NoHand, NoTask, NoDesk, NotRun
  <2>9. CallerKnows'
    BY <2>3, <2>4, <2>5 DEF HandTypes, CallerKnows, LauncherAt, CopyRefuses, NoHand, NoTask, NoDesk, NotRun
  <2> QED
    BY <2>2, <2>6, <2>7, <2>8, <2>9 DEF HandInv
<1>8. ASSUME NEW m \in Caller, CannotLaunch(m) PROVE HandInv'
  <2>1. m = 1
    BY <1>8 DEF NoOther, NoHand, NoTask, NoDesk, NotRun, CopyRefuses, CannotLaunch, DeskStep
  <2>2. HandTypes' /\ NoOther'
    BY <1>8, <2>1 DEF HandTypes, NoOther, NoTask, NotRun, CannotLaunch, DeskStep
  <2>3. CopyRefuses'
    BY <1>8, <2>1 DEF HandTypes, CopyRefuses, LauncherAt, NoHand, NoTask, NoDesk, NotRun, CannotLaunch, DeskStep
  <2>4. LauncherAt'
    BY <1>8, <2>1 DEF HandTypes, LauncherAt, CopyRefuses, AskedOnce, NoHand, NoTask, NoDesk, NotRun, CannotLaunch, DeskStep
  <2>5. AskedOnce'
    BY <1>8, <2>1 DEF HandTypes, AskedOnce, LauncherAt, NoHand, NoTask, NoDesk, NotRun, CannotLaunch, DeskStep
  <2>6. CallerKnows'
    BY <1>8, <2>1 DEF HandTypes, CallerKnows, LauncherAt, CopyRefuses, NoHand, NoTask, NoDesk, NotRun, CannotLaunch, DeskStep
  <2> QED
    BY <2>2, <2>3, <2>4, <2>5, <2>6 DEF HandInv
<1>9. ASSUME NEW m \in Caller, RecordsPid(m) PROVE HandInv'
  <2>1. m = 1
    BY <1>9 DEF NoOther, NoHand, NoTask, NoDesk, NotRun, CopyRefuses, RecordsPid, DeskStep, DeskTo
  <2>2. HandTypes' /\ NoOther'
    BY <1>9, <2>1 DEF HandTypes, NoOther, NoTask, NotRun, RecordsPid, DeskStep, DeskTo
  <2>3. 1 \in Caller /\ desk[1].pc = "spawned" /\ UNCHANGED <<proc, hand, task>>
    BY <1>9, <2>1 DEF HandTypes, LauncherAt, AskedOnce, NoOther, NoTask, NoDesk, NoHand, RecordsPid, DeskStep, DeskTo
  <2>4. CASE desk' = [desk EXCEPT ![1] = [@ EXCEPT !.pc = "waiting", !.pid = TRUE]]
    <3>1. CopyRefuses'
      BY <2>3, <2>4 DEF HandTypes, CopyRefuses, LauncherAt, NoHand, NoTask, NoDesk, NotRun
    <3>2. LauncherAt'
      BY <2>3, <2>4 DEF HandTypes, LauncherAt, CopyRefuses, NoHand, NoTask, NoDesk, NotRun
    <3>3. AskedOnce'
      BY <2>3, <2>4 DEF HandTypes, AskedOnce, LauncherAt, CopyRefuses, NoHand, NoTask, NoDesk, NotRun
    <3>4. CallerKnows'
      BY <2>3, <2>4 DEF HandTypes, CallerKnows, LauncherAt, CopyRefuses, NoHand, NoTask, NoDesk, NotRun
    <3> QED
      BY <2>2, <3>1, <3>2, <3>3, <3>4 DEF HandInv
  <2>5. CASE desk' = [desk EXCEPT ![1].pc = "waiting"]
    <3>1. CopyRefuses'
      BY <2>3, <2>5 DEF HandTypes, CopyRefuses, LauncherAt, NoHand, NoTask, NoDesk, NotRun
    <3>2. LauncherAt'
      BY <2>3, <2>5 DEF HandTypes, LauncherAt, CopyRefuses, NoHand, NoTask, NoDesk, NotRun
    <3>3. AskedOnce'
      BY <2>3, <2>5 DEF HandTypes, AskedOnce, LauncherAt, CopyRefuses, NoHand, NoTask, NoDesk, NotRun
    <3>4. CallerKnows'
      BY <2>3, <2>5 DEF HandTypes, CallerKnows, LauncherAt, CopyRefuses, NoHand, NoTask, NoDesk, NotRun
    <3> QED
      BY <2>2, <3>1, <3>2, <3>3, <3>4 DEF HandInv
  <2> QED
    BY <1>9, <2>1, <2>3, <2>4, <2>5 DEF RecordsPid, DeskStep, DeskTo
<1>10. ASSUME NEW m \in Caller, Waited(m) PROVE HandInv'
  <2>1. m = 1
    BY <1>10 DEF NoOther, NoHand, NoTask, NoDesk, NotRun, CopyRefuses, Waited, DeskStep, DeskTo, ChildIsGone
  <2>2. HandTypes' /\ NoOther'
    BY <1>10, <2>1 DEF HandTypes, NoOther, NoTask, NotRun, Waited, DeskStep, DeskTo, ChildIsGone
  <2>3. CopyRefuses'
    BY <1>10, <2>1 DEF HandTypes, CopyRefuses, LauncherAt, NoHand, NoTask, NoDesk, NotRun, Waited, DeskStep, DeskTo, ChildIsGone
  <2>4. LauncherAt'
    BY <1>10, <2>1 DEF HandTypes, LauncherAt, CopyRefuses, AskedOnce, NoHand, NoTask, NoDesk, NotRun, Waited, DeskStep, DeskTo, ChildIsGone
  <2>5. AskedOnce'
    BY <1>10, <2>1 DEF HandTypes, AskedOnce, LauncherAt, NoHand, NoTask, NoDesk, NotRun, Waited, DeskStep, DeskTo, ChildIsGone
  <2>6. CallerKnows'
    BY <1>10, <2>1 DEF HandTypes, CallerKnows, LauncherAt, CopyRefuses, NoHand, NoTask, NoDesk, NotRun, Waited, DeskStep, DeskTo, ChildIsGone
  <2> QED
    BY <2>2, <2>3, <2>4, <2>5, <2>6 DEF HandInv
<1>11. ASSUME NEW m \in Caller, RecordsCode(m) PROVE HandInv'
  <2>1. m = 1
    BY <1>11 DEF NoOther, NoHand, NoTask, NoDesk, NotRun, CopyRefuses, RecordsCode, DeskStep
  <2>2. HandTypes' /\ NoOther'
    BY <1>11, <2>1 DEF HandTypes, NoOther, NoTask, NotRun, RecordsCode, DeskStep
  <2>3. CopyRefuses'
    BY <1>11, <2>1 DEF HandTypes, CopyRefuses, LauncherAt, NoHand, NoTask, NoDesk, NotRun, RecordsCode, DeskStep
  <2>4. LauncherAt'
    BY <1>11, <2>1, HandAssumption DEF HandTypes, LauncherAt, CopyRefuses, AskedOnce, NoHand, NoTask, NoDesk, NotRun, RecordsCode, DeskStep
  <2>5. AskedOnce'
    BY <1>11, <2>1 DEF HandTypes, AskedOnce, LauncherAt, NoHand, NoTask, NoDesk, NotRun, RecordsCode, DeskStep
  <2>6. CallerKnows'
    BY <1>11, <2>1 DEF HandTypes, CallerKnows, LauncherAt, CopyRefuses, NoHand, NoTask, NoDesk, NotRun, RecordsCode, DeskStep
  <2> QED
    BY <2>2, <2>3, <2>4, <2>5, <2>6 DEF HandInv
<1>12. ASSUME NEW m \in Caller, LauncherDies(m) PROVE HandInv'
  <2>1. m = 1
    BY <1>12 DEF NoOther, NoHand, NoTask, NoDesk, NotRun, CopyRefuses, LauncherDies, DeskStep
  <2>2. HandTypes' /\ NoOther'
    BY <1>12, <2>1 DEF HandTypes, NoOther, NoTask, NotRun, LauncherDies, DeskStep
  <2>3. CopyRefuses'
    BY <1>12, <2>1 DEF HandTypes, CopyRefuses, LauncherAt, NoHand, NoTask, NoDesk, NotRun, LauncherDies, DeskStep
  <2>4. LauncherAt'
    BY <1>12, <2>1 DEF HandTypes, LauncherAt, CopyRefuses, AskedOnce, NoHand, NoTask, NoDesk, NotRun, LauncherDies, DeskStep
  <2>5. AskedOnce'
    BY <1>12, <2>1 DEF HandTypes, AskedOnce, LauncherAt, NoHand, NoTask, NoDesk, NotRun, LauncherDies, DeskStep
  <2>6. CallerKnows'
    BY <1>12, <2>1 DEF HandTypes, CallerKnows, LauncherAt, CopyRefuses, NoHand, NoTask, NoDesk, NotRun, LauncherDies, DeskStep
  <2> QED
    BY <2>2, <2>3, <2>4, <2>5, <2>6 DEF HandInv
<1>13. ASSUME NEW m \in Caller, CallerDies(m) PROVE HandInv'
  <2>1. m = 1
    BY <1>13 DEF NoOther, NoHand, NoTask, NoDesk, NotRun, CopyRefuses, CallerDies, HandTo, Ended
  <2>2. HandTypes' /\ NoOther'
    BY <1>13, <2>1 DEF HandTypes, NoOther, NoTask, NotRun, CallerDies, HandTo, Ended
  <2>3. CopyRefuses'
    BY <1>13, <2>1 DEF HandTypes, CopyRefuses, LauncherAt, NoHand, NoTask, NoDesk, NotRun, CallerDies, HandTo, Ended
  <2>4. LauncherAt'
    BY <1>13, <2>1 DEF HandTypes, LauncherAt, CopyRefuses, AskedOnce, NoHand, NoTask, NoDesk, NotRun, CallerDies, HandTo, Ended
  <2>5. AskedOnce'
    BY <1>13, <2>1 DEF HandTypes, AskedOnce, LauncherAt, NoHand, NoTask, NoDesk, NotRun, CallerDies, HandTo, Ended
  <2>6. CallerKnows'
    BY <1>13, <2>1 DEF HandTypes, CallerKnows, LauncherAt, CopyRefuses, NoHand, NoTask, NoDesk, NotRun, CallerDies, HandTo, Ended
  <2> QED
    BY <2>2, <2>3, <2>4, <2>5, <2>6 DEF HandInv
<1>14. ASSUME NEW m \in Caller, Stages(m) PROVE HandInv'
  <2>1. m = 1
    BY <1>14 DEF NoOther, NoHand, Stages, CallerAt
  <2>2. HandTypes' /\ NoOther'
    BY <1>14, <2>1 DEF HandTypes, NoOther, NoTask, NotRun, Stages, CallerAt
  <2>3. CopyRefuses' /\ LauncherAt'
    BY <1>14 DEF CopyRefuses, LauncherAt, Stages, CallerAt
  <2>4. AskedOnce' /\ CallerKnows'
    <3>1. 1 \in Caller /\ UNCHANGED <<desk, proc>> /\ hand[1].pc = "stage" /\ UNCHANGED task
      BY <1>14, <2>1 DEF Stages, CallerAt
    <3>2. CASE hand' = [hand EXCEPT ![1] = [@ EXCEPT !.pc = "create", !.scratch = "staged"]]
      <4>1. AskedOnce'
        BY <3>1, <3>2 DEF HandTypes, AskedOnce, NoHand
      <4>2. CallerKnows'
        BY <3>1, <3>2 DEF HandTypes, CallerKnows, LauncherAt, NoHand
      <4> QED
        BY <4>1, <4>2
    <3>3. CASE \E left \in {"none", "staged"} : hand' = [hand EXCEPT ![1] = [@ EXCEPT !.pc = "told", !.answer = "failed", !.scratch = left]]
      <4>1. AskedOnce'
        BY <3>1, <3>3 DEF HandTypes, AskedOnce, NoHand
      <4>2. CallerKnows'
        BY <3>1, <3>3 DEF HandTypes, CallerKnows, LauncherAt, NoHand
      <4> QED
        BY <4>1, <4>2
    <3> QED
      BY <1>14, <2>1, <3>2, <3>3 DEF Stages, CallerAt
  <2> QED
    BY <2>2, <2>3, <2>4 DEF HandInv
<1>15. ASSUME NEW m \in Caller, Creates(m) PROVE HandInv'
  <2>1. m = 1
    <3>1. hand[m].pc = "create"
      BY <1>15 DEF Creates, CallerAt
    <3> QED
      BY <3>1 DEF NoOther, NoHand
  <2>2. HandTypes' /\ NoOther'
    BY <1>15, <2>1 DEF HandTypes, NoOther, NoTask, NotRun, Creates, CallerAt, Trigger, HandTo, Answers
  <2>3. CopyRefuses' /\ LauncherAt'
    BY <1>15 DEF CopyRefuses, LauncherAt, Creates, CallerAt, Trigger
  <2>4. AskedOnce' /\ CallerKnows'
    <3>1. 1 \in Caller /\ UNCHANGED <<desk, proc>> /\ hand[1].pc = "create"
      BY <1>15, <2>1 DEF Creates, CallerAt, Trigger
    <3>2. CASE HandTo(1, "run") /\ task' = [task EXCEPT ![1] = [NoTask EXCEPT !.there = TRUE, !.at = -1]]
      <4>1. ~task'[1].asked /\ task'[1].at = -1
        BY <3>1, <3>2 DEF HandTypes, NoTask
      <4>2. AskedOnce'
        BY <3>1, <3>2, <4>1, <1>a DEF AskedOnce
      <4>3. CallerKnows'
        BY <3>1, <3>2, <1>a DEF CallerKnows, LauncherAt, Keeps
      <4> QED
        BY <4>2, <4>3
    <3>3. CASE Answers(1, "failed") /\ \E made \in BOOLEAN : task' = [task EXCEPT ![1] = [NoTask EXCEPT !.there = made, !.at = -1]]
      <4>1. ~task'[1].asked /\ task'[1].at = -1
        BY <3>1, <3>3 DEF HandTypes, NoTask
      <4>2. AskedOnce'
        BY <3>1, <3>3, <4>1, <1>c DEF AskedOnce
      <4>3. CallerKnows'
        BY <3>1, <3>3, <1>c DEF CallerKnows, LauncherAt
      <4> QED
        BY <4>2, <4>3
    <3> QED
      BY <1>15, <2>1, <3>2, <3>3 DEF Creates, CallerAt, Trigger
  <2> QED
    BY <2>2, <2>3, <2>4 DEF HandInv
<1>16. ASSUME NEW m \in Caller, AsksForIt(m) PROVE HandInv'
  <2>1. m = 1
    BY <1>16 DEF NoOther, NoHand, AsksForIt, CallerAt
  <2>2. HandTypes' /\ NoOther'
    BY <1>16, <2>1 DEF HandTypes, NoOther, NoTask, NotRun, AsksForIt, CallerAt, Answers, Waits
  <2>3. CopyRefuses' /\ LauncherAt'
    BY <1>16 DEF CopyRefuses, LauncherAt, AsksForIt, CallerAt
  <2>4. AskedOnce' /\ CallerKnows'
    <3>1. 1 \in Caller /\ UNCHANGED <<desk, proc>> /\ hand[1].pc = "run"
      BY <1>16, <2>1 DEF AsksForIt, CallerAt
    <3>2. CASE Waits(1) /\ task' = [task EXCEPT ![1].asked = TRUE]
      <4>1. task'[1].there = task[1].there /\ task'[1].at = task[1].at
        BY <3>1, <3>2 DEF HandTypes, NoTask
      <4>2. AskedOnce'
        BY <3>1, <3>2, <4>1, <1>g DEF AskedOnce
      <4>3. CallerKnows'
        BY <3>1, <3>2, <1>g DEF CallerKnows, LauncherAt, Keeps
      <4> QED
        BY <4>2, <4>3
    <3>3. CASE Answers(1, "failed") /\ \E asked \in BOOLEAN : task' = [task EXCEPT ![1].asked = asked]
      <4>1. task'[1].there = task[1].there /\ task'[1].at = task[1].at
        BY <3>1, <3>3 DEF HandTypes, NoTask
      <4>2. AskedOnce'
        BY <3>1, <3>3, <4>1, <1>c DEF AskedOnce
      <4>3. CallerKnows'
        BY <3>1, <3>3, <1>c DEF CallerKnows, LauncherAt
      <4> QED
        BY <4>2, <4>3
    <3> QED
      BY <1>16, <2>1, <3>2, <3>3 DEF AsksForIt, CallerAt
  <2> QED
    BY <2>2, <2>3, <2>4 DEF HandInv
<1>17. ASSUME NEW m \in Caller, Looks(m) PROVE HandInv'
  <2>1. m = 1
    BY <1>17 DEF NoOther, NoHand, Looks, Poll, CallerAt
  <2>2. HandTypes' /\ NoOther'
    BY <1>17, <2>1 DEF HandTypes, NoOther, NoTask, NotRun, Looks, Poll, CallerAt, TakesCode, SeesNoCode
  <2>3. CopyRefuses' /\ LauncherAt'
    BY <1>17 DEF CopyRefuses, LauncherAt, Looks, Poll, CallerAt
  <2>4. AskedOnce' /\ CallerKnows'
    <3>1. 1 \in Caller /\ UNCHANGED <<desk, proc>> /\ hand[1].pc = "look" /\ UNCHANGED task
      BY <1>17, <2>1 DEF Looks, Poll, CallerAt
    <3>2. CASE desk[1].rc # Nil /\ TakesCode(1)
      BY <3>1, <3>2, <1>d DEF HandTypes, AskedOnce, CallerKnows, LauncherAt
    <3>3. CASE SeesNoCode(1)
      BY <3>1, <3>3, <1>e DEF HandTypes, AskedOnce, CallerKnows, LauncherAt, Keeps
    <3> QED
      BY <1>17, <2>1, <3>2, <3>3 DEF Looks, Poll, CallerAt
  <2> QED
    BY <2>2, <2>3, <2>4 DEF HandInv
<1>18. ASSUME NEW m \in Caller, MindsBudget(m) PROVE HandInv'
  <2>1. m = 1
    BY <1>18 DEF NoOther, NoHand, MindsBudget, Poll, CallerAt
  <2>2. HandTypes' /\ NoOther'
    BY <1>18, <2>1 DEF HandTypes, NoOther, NoTask, NotRun, MindsBudget, Poll, CallerAt, HandTo, Notes
  <2>3. CopyRefuses' /\ LauncherAt'
    BY <1>18 DEF CopyRefuses, LauncherAt, MindsBudget, Poll, CallerAt
  <2>4. AskedOnce' /\ CallerKnows'
    <3>1. 1 \in Caller /\ UNCHANGED <<desk, proc>> /\ hand[1].pc = "budget" /\ UNCHANGED task
      BY <1>18, <2>1 DEF MindsBudget, Poll, CallerAt
    <3>2. CASE HandTo(1, "over") \/ HandTo(1, "pids")
      BY <3>1, <3>2, <1>a DEF HandTypes, AskedOnce, CallerKnows, LauncherAt, Keeps
    <3>3. CASE desk[1].rc # Nil /\ HandTo(1, "settle")
      BY <3>1, <3>3, <1>a DEF HandTypes, AskedOnce, CallerKnows, LauncherAt, Keeps
    <3>4. CASE \E since : Notes(1, "rcSeen", since)
      BY <3>1, <3>4, <1>b DEF HandTypes, AskedOnce, CallerKnows, LauncherAt, Keeps
    <3> QED
      BY <1>18, <2>1, <3>2, <3>3, <3>4 DEF MindsBudget, Poll, CallerAt
  <2> QED
    BY <2>2, <2>3, <2>4 DEF HandInv
<1>19. ASSUME NEW m \in Caller, MindsPid(m) PROVE HandInv'
  <2>1. m = 1
    BY <1>19 DEF NoOther, NoHand, MindsPid, Poll, CallerAt, Sleeps
  <2>2. HandTypes' /\ NoOther'
    BY <1>19, <2>1 DEF HandTypes, NoOther, NoTask, NotRun, MindsPid, Poll, CallerAt, Sleeps, HandTo, Answers, Notes
  <2>3. CopyRefuses' /\ LauncherAt'
    BY <1>19 DEF CopyRefuses, LauncherAt, MindsPid, Poll, CallerAt, Sleeps
  <2>4. AskedOnce' /\ CallerKnows'
    <3>1. 1 \in Caller /\ UNCHANGED <<desk, proc>> /\ hand[1].pc = "pids" /\ UNCHANGED task
      BY <1>19, <2>1 DEF MindsPid, Poll, CallerAt, Sleeps
    <3>2. CASE ChildIsGone(1) /\ Answers(1, "lost")
      BY <3>1, <3>2, <1>c DEF HandTypes, AskedOnce, CallerKnows, LauncherAt, ChildIsGone
    <3>3. CASE \E what \in {"gone", "checked"} : \E seen : Notes(1, what, seen)
      BY <3>1, <3>3, <1>b DEF HandTypes, AskedOnce, CallerKnows, LauncherAt, Keeps
    <3>4. CASE HandTo(1, "query")
      BY <3>1, <3>4, <1>a DEF HandTypes, AskedOnce, CallerKnows, LauncherAt, Keeps
    <3> QED
      BY <1>19, <2>1, <3>2, <3>3, <3>4 DEF MindsPid, Poll, CallerAt, Sleeps
  <2> QED
    BY <2>2, <2>3, <2>4 DEF HandInv
<1>20. ASSUME NEW m \in Caller, AsksScheduler(m) PROVE HandInv'
  <2>1. m = 1
    BY <1>20 DEF NoOther, NoHand, AsksScheduler, Poll, CallerAt
  <2>2. HandTypes' /\ NoOther'
    BY <1>20, <2>1 DEF HandTypes, NoOther, NoTask, NotRun, AsksScheduler, Poll, CallerAt, Answers, Notes
  <2>3. CopyRefuses' /\ LauncherAt'
    BY <1>20 DEF CopyRefuses, LauncherAt, AsksScheduler, Poll, CallerAt
  <2>4. AskedOnce' /\ CallerKnows'
    <3>1. 1 \in Caller /\ UNCHANGED <<desk, proc>> /\ hand[1].pc = "query" /\ UNCHANGED task
      BY <1>20, <2>1 DEF AsksScheduler, Poll, CallerAt
    <3>2. CASE Notes(1, "checked", TRUE)
      BY <3>1, <3>2, <1>b DEF HandTypes, AskedOnce, CallerKnows, LauncherAt, Keeps
    <3>3. CASE ~IsRunning(1) /\ Answers(1, "never")
      BY <3>1, <3>3, <1>c DEF HandTypes, AskedOnce, CallerKnows, LauncherAt, IsRunning
    <3>4. CASE hand' = [hand EXCEPT ![1] = [@ EXCEPT !.pc = "delete", !.answer = "never", !.mute = TRUE]]
      BY <3>1, <3>4 DEF HandTypes, AskedOnce, CallerKnows, LauncherAt, NoHand
    <3> QED
      BY <1>20, <2>1, <3>2, <3>3, <3>4 DEF AsksScheduler, Poll, CallerAt
  <2> QED
    BY <2>2, <2>3, <2>4 DEF HandInv
<1>21. ASSUME NEW m \in Caller, TimeIsUp(m) PROVE HandInv'
  <2>1. m = 1
    BY <1>21 DEF NoOther, NoHand, TimeIsUp, Poll, CallerAt
  <2>2. HandTypes' /\ NoOther'
    BY <1>21, <2>1, ZenonT(60) DEF HandTypes, NoOther, NoTask, NotRun, TimeIsUp, Poll, CallerAt, HandTo, Answers
  <2>3. CopyRefuses' /\ LauncherAt'
    BY <1>21 DEF CopyRefuses, LauncherAt, TimeIsUp, Poll, CallerAt
  <2>4. AskedOnce' /\ CallerKnows'
    BY <1>21, <2>1, <1>a, <1>c, <1>d DEF HandTypes, NoTask, AskedOnce, CallerKnows, Keeps, LauncherAt, TimeIsUp, Poll, CallerAt
  <2> QED
    BY <2>2, <2>3, <2>4 DEF HandInv
<1>22. ASSUME NEW m \in Caller, Settles(m) PROVE HandInv'
  <2>1. m = 1
    BY <1>22 DEF NoOther, NoHand, Settles, Poll, CallerAt
  <2>2. HandTypes' /\ NoOther'
    BY <1>22, <2>1 DEF HandTypes, NoOther, NoTask, NotRun, Settles, Poll, CallerAt, Answers, TakesCode
  <2>3. CopyRefuses' /\ LauncherAt'
    BY <1>22 DEF CopyRefuses, LauncherAt, Settles, Poll, CallerAt
  <2>4. AskedOnce' /\ CallerKnows'
    BY <1>22, <2>1, <1>a, <1>c, <1>d DEF HandTypes, NoTask, AskedOnce, CallerKnows, Keeps, LauncherAt, Settles, Poll, CallerAt
  <2> QED
    BY <2>2, <2>3, <2>4 DEF HandInv
<1>23. ASSUME NEW m \in Caller, Deletes(m) PROVE HandInv'
  <2>1. m = 1
    BY <1>23 DEF NoOther, NoHand, Deletes, CallerAt
  <2>2. HandTypes' /\ NoOther'
    BY <1>23, <2>1 DEF HandTypes, NoOther, NoTask, NotRun, Deletes, CallerAt, HandTo
  <2>3. CopyRefuses' /\ LauncherAt'
    BY <1>23 DEF CopyRefuses, LauncherAt, Deletes, CallerAt
  <2>4. AskedOnce' /\ CallerKnows'
    BY <1>23, <2>1, <1>a, <1>c, <1>d DEF HandTypes, NoTask, AskedOnce, CallerKnows, Keeps, LauncherAt, Deletes, CallerAt
  <2> QED
    BY <2>2, <2>3, <2>4 DEF HandInv
<1> QED
  BY <1>1, <1>2, <1>3, <1>4, <1>5, <1>6, <1>7, <1>8, <1>9, <1>10, <1>11, <1>12, <1>13, <1>14, <1>15, <1>16, <1>17, <1>18, <1>19, <1>20, <1>21, <1>22, <1>23 DEF HandNext, HandOver

LEMMA HandInvInit == HandInit => HandInv
<1> SUFFICES ASSUME NEW s \in HandSetups, HandStart(s) PROVE HandInv
  BY DEF HandInit
<1> USE DEF HandStart
<1>1. HandTypes /\ NoOther
  BY HandAssumption DEF HandTypes, NoOther, NotRun, Magent, Caller
<1>2. 1 \in Caller => 2 \in Magent
  BY HandAssumption DEF Magent, Caller
<1>3. (2 \in Magent => proc[2] = NotRun) /\ (1 \in Caller => hand[1] = NoHand /\ task[1] = NoTask /\ desk[1] = NoDesk)
  OBVIOUS
<1>4. CopyRefuses /\ LauncherAt /\ AskedOnce /\ CallerKnows
  BY <1>2, <1>3 DEF CopyRefuses, LauncherAt, AskedOnce, CallerKnows, NotRun, NoHand, NoTask, NoDesk
<1> QED
  BY <1>1, <1>4 DEF HandInv

(* A hand-off runs the command once and no deeper, and what its caller     *)
(* tells of it is so (HandOffIsHonest): a task fires for the asking, once, *)
(* and what the launcher recorded stays.                                   *)
THEOREM HandOffIsHonestHolds == HandSpec => []HandOffIsHonest
<1>1. HandInv => HandOffIsHonest
  <2> SUFFICES ASSUME HandTypes, NoOther, CopyRefuses, LauncherAt, CallerKnows, NEW m \in Caller
               PROVE  /\ AnswersAreTrue!(m)
                      /\ RunOnceAndNoDeeper!(m)
    BY DEF HandInv, HandOffIsHonest, AnswersAreTrue, RunOnceAndNoDeeper
  <2>1. CASE m = 1
    <3>1. 2 \in Magent /\ m + 1 = 2
      BY <2>1, HandAssumption DEF Magent, Caller
    <3>2. CopyRefuses /\ Nil \notin Int
      BY HandAssumption
    <3> QED
      BY <2>1, <3>1, <3>2 DEF CopyRefuses, LauncherAt, CallerKnows, ChildIsGone, NotRun
  <2>2. CASE m # 1
    <3>1. hand[m] = NoHand /\ desk[m] = NoDesk
      BY <2>2 DEF NoOther
    <3>2. proc[m].pc # "relays"
      BY <2>2, HandAssumption DEF NoOther, CopyRefuses, NotRun, Magent, Caller
    <3> QED
      BY <3>1, <3>2 DEF NoHand, NoDesk
  <2> QED
    BY <2>1, <2>2
<1>2. QED
  BY <1>1, HandInvInit, HandInvNext, PTL DEF HandSpec

-----------------------------------------------------------------------------
(* One bounded call to a node.                                             *)

Stamped == [word : Word, before : BOOLEAN]
CallTypes ==
  /\ DOMAIN child = {"at", "does", "outs", "said", "heir"} /\ child.outs \in Nat /\ child.said \in Seq(Word) /\ child.heir \in BOOLEAN
  /\ opipe \in Seq({"bytes"}) /\ epipe \in Seq(Word)
  /\ DOMAIN out = {"held", "over", "ended"} /\ out.held \in Nat /\ out.over \in BOOLEAN /\ out.ended \in BOOLEAN
  /\ DOMAIN err = {"held", "ended", "first"} /\ err.held \in Seq(Stamped) /\ err.ended \in BOOLEAN /\ err.first \in BOOLEAN
  /\ DOMAIN call = {"at", "result", "data", "words"} /\ call.words \in Nat

(* Nothing is lost on the way: what the child said is what was drained and *)
(* what is in the pipe, and it printed as much as was drained and is in    *)
(* the pipe, until the cap.                                                *)
Joined(said, held, pipe) ==
  /\ Len(said) = Len(held) + Len(pipe)
  /\ \A i \in 1..Len(held) : held[i].word = said[i]
  /\ \A i \in 1..Len(pipe) : pipe[i] = said[Len(held) + i]
SaidIsSomewhere == Joined(child.said, err.held, epipe)
PrintedIsSomewhere == ~out.over => child.outs = out.held + Len(opipe)

(* A drain ends with the last writer, or past the cap.                     *)
EndsAreEnds ==
  /\ out.ended => out.over \/ (opipe = <<>> /\ ~Writers)
  /\ err.ended => epipe = <<>> /\ ~Writers
  /\ child.does = "breaks" => out.ended

(* What the child says once stdout is closed comes after the cap, and the  *)
(* stamps tell what came before it: a first part of what was drained.      *)
WellStamped(held, all) ==
  /\ \A i \in 1..Len(held) : held[i].before => ~held[i].word.late
  /\ \A i, j \in 1..Len(held) : i < j /\ held[j].before => held[i].before
  /\ all => \A i \in 1..Len(held) : held[i].before
CapIsStamped ==
  /\ \A i \in 1..Len(child.said) : child.said[i].late => out.over
  /\ WellStamped(err.held, ~out.over \/ (err.ended /\ err.first))

(* What the caller answered stays so.                                      *)
AnswerStands ==
  /\ call.result # "none" => call.at = "done"
  /\ call.result = "returned" =>
       Finished /\ ~out.over /\ call.data = out.held /\ call.words = Len(err.held)
  /\ call.result = "over_cap" =>
       /\ call.words <= Len(err.held) /\ \A i \in 1..call.words : err.held[i].before
       /\ call.words = 0 \/ err.held[call.words].word.ends \/ (err.ended /\ call.words = Len(err.held))

CallInv == CallTypes /\ SaidIsSomewhere /\ PrintedIsSomewhere /\ EndsAreEnds /\ CapIsStamped /\ AnswerStands

(* A set of numbers up to n has a largest one, or none.                    *)
LEMMA Least == ASSUME NEW T \in SUBSET Nat, T # {} PROVE \E m \in T : \A l \in T : m <= l
<1>1. PICK m \in T : \A l \in T : <<l, m>> \notin OpToRel(<, Nat)
  BY NatLessThanWellFounded, WFMin, Zenon
<1>2. ASSUME NEW l \in T PROVE ~(l < m)
  BY <1>1, Zenon DEF OpToRel
<1>3. ASSUME NEW l \in T PROVE m <= l
  BY <1>2
<1> QED
  BY <1>3

LEMMA Largest ==
  ASSUME NEW n \in Nat, NEW S \in SUBSET (1..n)
  PROVE  \E k \in 0..n : (k = 0 \/ k \in S) /\ \A j \in S : j <= k
<1> DEFINE T == {n - j : j \in S \cup {0}}
<1>1. T \in SUBSET Nat /\ T # {}
  <2>1. n - 0 \in T
    OBVIOUS
  <2>2. ASSUME NEW j \in S \cup {0} PROVE n - j \in Nat
    OBVIOUS
  <2> QED
    BY <2>1, <2>2
<1>2. PICK m \in T : \A l \in T : m <= l
  BY <1>1, Least
<1>3. PICK k \in S \cup {0} : m = n - k
  OBVIOUS
<1>4. ASSUME NEW j \in S PROVE j <= k
  <2>1. n - j \in T
    OBVIOUS
  <2> QED
    BY <2>1, <1>2, <1>3
<1> QED
  BY <1>3, <1>4

(* The longest part of the first n words that ends a line.                 *)
LEMMA WholeIsWhole ==
  ASSUME NEW n \in Nat, CallTypes, n <= Len(err.held)
  PROVE  Whole(n) \in 0..n /\ (Whole(n) = 0 \/ err.held[Whole(n)].word.ends)
<1>1. PICK k \in 0..n : (k = 0 \/ k \in {j \in 1..n : err.held[j].word.ends}) /\ \A j \in {i \in 1..n : err.held[i].word.ends} : j <= k
  BY Largest
<1>2. (k = 0 \/ err.held[k].word.ends) /\ \A j \in k + 1..n : ~err.held[j].word.ends
  BY <1>1
<1> QED
  BY <1>2 DEF Whole

(* As many as were drained before the cap: the first of them.              *)
LEMMA BeforeIsAPart ==
  ASSUME CallTypes, CapIsStamped
  PROVE  Before \in 0..Len(err.held) /\ (\A i \in 1..Before : err.held[i].before)
         /\ ((\A i \in 1..Len(err.held) : err.held[i].before) => Before = Len(err.held))
<1> DEFINE n == Len(err.held)
           B == {i \in DOMAIN err.held : err.held[i].before}
<1>1. n \in Nat /\ B = {i \in 1..n : err.held[i].before}
  BY DEF CallTypes
<1>2. PICK k \in 0..n : (k = 0 \/ k \in B) /\ \A j \in B : j <= k
  BY <1>1, Largest
<1>3. B = 1..k
  BY <1>1, <1>2 DEF CapIsStamped, WellStamped
<1>4. Cardinality(1..k) = k
  BY <1>1, <1>2, FS_Interval
<1>5. Before = k
  BY <1>3, <1>4 DEF Before
<1> QED
  BY <1>1, <1>2, <1>3, <1>5

(* A word more at one end of what is said, a word drained in the middle.   *)
LEMMA SaysMore ==
  ASSUME NEW said \in Seq(Word), NEW held \in Seq(Stamped), NEW pipe \in Seq(Word), NEW w \in Word, Joined(said, held, pipe)
  PROVE  Joined(Append(said, w), held, Append(pipe, w))
<1>1. Len(said) \in Nat /\ Len(held) \in Nat /\ Len(pipe) \in Nat
  OBVIOUS
<1>2. Len(said) = Len(held) + Len(pipe)
  BY DEF Joined
<1>3. ASSUME NEW i \in 1..Len(held) PROVE held[i].word = Append(said, w)[i]
  BY <1>1, <1>2 DEF Joined
<1>4. ASSUME NEW i \in 1..Len(Append(pipe, w)) PROVE Append(pipe, w)[i] = Append(said, w)[Len(held) + i]
  <2>1. CASE i = Len(pipe) + 1
    BY <1>1, <1>2, <2>1
  <2>2. CASE i \in 1..Len(pipe)
    <3>1. pipe[i] = said[Len(held) + i]
      BY <2>2 DEF Joined
    <3>2. Len(held) + i \in 1..Len(said)
      BY <1>1, <1>2, <2>2
    <3> QED
      BY <2>2, <3>1, <3>2
  <2>3. Len(Append(pipe, w)) = Len(pipe) + 1
    OBVIOUS
  <2>4. i = Len(pipe) + 1 \/ i \in 1..Len(pipe)
    BY <1>1, <2>3
  <2> QED
    BY <2>1, <2>2, <2>4
<1>5. Len(Append(said, w)) = Len(held) + Len(Append(pipe, w))
  BY <1>1, <1>2
<1> QED
  BY <1>3, <1>4, <1>5 DEF Joined

LEMMA DrainsOne ==
  ASSUME NEW said \in Seq(Word), NEW held \in Seq(Stamped), NEW pipe \in Seq(Word), NEW b \in BOOLEAN, pipe # <<>>, Joined(said, held, pipe)
  PROVE  Joined(said, Append(held, [word |-> Head(pipe), before |-> b]), Tail(pipe)) /\ Head(pipe) = said[Len(held) + 1] /\ Head(pipe) \in Word
<1> DEFINE new == [word |-> Head(pipe), before |-> b]
           more == Append(held, new)
<1>1. Len(said) \in Nat /\ Len(held) \in Nat /\ Len(pipe) \in Nat \ {0} /\ Head(pipe) = pipe[1] /\ Head(pipe) \in Word
  OBVIOUS
<1>2. Len(said) = Len(held) + Len(pipe)
  BY DEF Joined
<1>3. Tail(pipe) \in Seq(Word) /\ Len(Tail(pipe)) = Len(pipe) - 1 /\ \A i \in 1..Len(pipe) - 1 : Tail(pipe)[i] = pipe[i + 1]
  OBVIOUS
<1>4. Head(pipe) = said[Len(held) + 1]
  BY <1>1 DEF Joined
<1>5. new \in Stamped
  BY <1>1 DEF Stamped
<1>6. new.word = Head(pipe)
  OBVIOUS
<1> HIDE DEF new
<1>7. more \in Seq(Stamped) /\ Len(more) = Len(held) + 1 /\ (\A i \in 1..Len(held) : more[i] = held[i]) /\ more[Len(held) + 1] = new
  BY <1>1, <1>5
<1> HIDE DEF more
<1>8. ASSUME NEW i \in 1..Len(more) PROVE more[i].word = said[i]
  <2>1. CASE i \in 1..Len(held)
    BY <1>7, <2>1 DEF Joined
  <2>2. CASE i = Len(held) + 1
    BY <1>4, <1>6, <1>7, <2>2
  <2> QED
    BY <1>1, <1>7, <2>1, <2>2
<1>9. ASSUME NEW i \in 1..Len(Tail(pipe)) PROVE Tail(pipe)[i] = said[Len(more) + i]
  <2>1. Tail(pipe)[i] = pipe[i + 1] /\ i + 1 \in 1..Len(pipe)
    BY <1>1, <1>3
  <2>2. pipe[i + 1] = said[Len(held) + (i + 1)]
    BY <2>1 DEF Joined
  <2>3. Len(held) + (i + 1) = Len(more) + i
    BY <1>1, <1>3, <1>7
  <2> QED
    BY <2>1, <2>2, <2>3
<1>10. Len(said) = Len(more) + Len(Tail(pipe))
  BY <1>1, <1>2, <1>3, <1>7
<1>11. Joined(said, more, Tail(pipe))
  BY <1>8, <1>9, <1>10 DEF Joined
<1> QED
  BY <1>1, <1>4, <1>11 DEF more, new

LEMMA StampsOne ==
  ASSUME NEW held \in Seq(Stamped), NEW new \in Stamped, NEW all \in BOOLEAN, WellStamped(held, all), new.before => ~new.word.late, new.before = all
  PROVE  WellStamped(Append(held, new), all)
<1> DEFINE more == Append(held, new)
<1>1. Len(held) \in Nat /\ more \in Seq(Stamped) /\ Len(more) = Len(held) + 1 /\ (\A i \in 1..Len(held) : more[i] = held[i]) /\ more[Len(held) + 1] = new
  OBVIOUS
<1> HIDE DEF more
<1>2. ASSUME NEW i \in 1..Len(more) PROVE (i \in 1..Len(held) /\ more[i] = held[i]) \/ (i = Len(held) + 1 /\ more[i] = new)
  BY <1>1
<1>3. ASSUME NEW i \in 1..Len(more), more[i].before PROVE ~more[i].word.late
  BY <1>2, <1>3 DEF WellStamped
<1>4. ASSUME NEW i \in 1..Len(more), NEW j \in 1..Len(more), i < j, more[j].before PROVE more[i].before
  BY <1>1, <1>2, <1>4 DEF WellStamped
<1>5. ASSUME all, NEW i \in 1..Len(more) PROVE more[i].before
  BY <1>2, <1>5 DEF WellStamped
<1>6. WellStamped(more, all)
  BY <1>3, <1>4, <1>5 DEF WellStamped
<1> QED
  BY <1>6 DEF more

LEMMA CallInvNext == CallInv /\ [CallNext]_callvars => CallInv'
<1> SUFFICES ASSUME CallTypes, SaidIsSomewhere, PrintedIsSomewhere, EndsAreEnds, CapIsStamped, AnswerStands, [CallNext]_callvars PROVE CallInv'
  BY DEF CallInv
<1>1. CASE UNCHANGED callvars
  BY <1>1 DEF callvars, CallInv, CallTypes, SaidIsSomewhere, PrintedIsSomewhere, EndsAreEnds, CapIsStamped, AnswerStands, Finished, Writers, Alive
<1>2. CASE Thinks \/ ReadsIn \/ Exits \/ Feeds
  <2>1. /\ UNCHANGED <<opipe, epipe, out, err, call>> /\ DOMAIN child' = DOMAIN child /\ child'.outs = child.outs /\ child'.said = child.said
        /\ child'.heir \in BOOLEAN /\ (Writers' => Writers) /\ (Alive' => Alive) /\ (child'.does = "breaks" => child.does = "breaks")
    BY <1>2 DEF CallTypes, Thinks, ReadsIn, Exits, Feeds, Writers, Alive
  <2>2. CallTypes' /\ SaidIsSomewhere' /\ PrintedIsSomewhere' /\ CapIsStamped'
    BY <2>1 DEF CallTypes, SaidIsSomewhere, PrintedIsSomewhere, CapIsStamped
  <2>3. EndsAreEnds' /\ AnswerStands'
    BY <2>1 DEF EndsAreEnds, AnswerStands, Finished
  <2> QED
    BY <2>2, <2>3 DEF CallInv
(* One more piece of stdout.                                               *)
<1>p. ASSUME ~out.ended, opipe' = Append(opipe, "bytes"), UNCHANGED <<epipe, out, err, call>>, DOMAIN child' = DOMAIN child,
             child'.outs = child.outs + 1, child'.said = child.said, child'.heir = child.heir, child'.does # "breaks" \/ child'.does = child.does,
             child'.at = child.at
      PROVE  CallInv'
  <2>1. CallTypes' /\ SaidIsSomewhere' /\ CapIsStamped'
    BY <1>p DEF CallTypes, SaidIsSomewhere, CapIsStamped
  <2>2. PrintedIsSomewhere'
    BY <1>p DEF CallTypes, PrintedIsSomewhere
  <2>3. EndsAreEnds' /\ AnswerStands'
    BY <1>p DEF EndsAreEnds, AnswerStands, Finished, Writers, Alive
  <2> QED
    BY <2>1, <2>2, <2>3 DEF CallInv
(* One more word of stderr.                                                *)
<1>s. ASSUME NEW w \in Word, w.late => out.ended, Writers, epipe' = Append(epipe, w), UNCHANGED <<opipe, out, err, call>>, DOMAIN child' = DOMAIN child,
             child'.outs = child.outs, child'.said = Append(child.said, w), child'.heir = child.heir, child'.does # "breaks" \/ child'.does = child.does
      PROVE  CallInv'
  <2>1. CallTypes'
    BY <1>s DEF CallTypes
  <2>2. SaidIsSomewhere'
    BY <1>s, SaysMore DEF CallTypes, SaidIsSomewhere
  <2>3. w.late => out.over
    BY <1>s DEF EndsAreEnds
  <2>4. CapIsStamped'
    BY <1>s, <2>3 DEF CallTypes, CapIsStamped
  <2>5. EndsAreEnds' /\ PrintedIsSomewhere' /\ AnswerStands'
    BY <1>s DEF EndsAreEnds, PrintedIsSomewhere, AnswerStands, Finished, Writers, Alive
  <2> QED
    BY <2>1, <2>2, <2>4, <2>5 DEF CallInv
<1>3. CASE Prints
  <2>1. CASE out.ended
    <3>1. /\ UNCHANGED <<opipe, epipe, out, err, call>> /\ DOMAIN child' = DOMAIN child /\ child'.outs = child.outs /\ child'.said = child.said
          /\ child'.heir = child.heir /\ child'.at = child.at
      BY <1>3, <2>1 DEF CallTypes, Prints
    <3>2. CallTypes' /\ SaidIsSomewhere' /\ PrintedIsSomewhere' /\ CapIsStamped'
      BY <3>1 DEF CallTypes, SaidIsSomewhere, PrintedIsSomewhere, CapIsStamped
    <3>3. EndsAreEnds' /\ AnswerStands'
      BY <2>1, <3>1 DEF EndsAreEnds, AnswerStands, Finished, Writers, Alive
    <3> QED
      BY <3>2, <3>3 DEF CallInv
  <2>2. CASE ~out.ended
    BY <1>3, <1>p, <2>2 DEF CallTypes, Prints
  <2> QED
    BY <2>1, <2>2
<1>4. CASE Says
  <2>1. PICK w \in Word : w.late = (child.does = "breaks") /\ epipe' = Append(epipe, w)
                          /\ child' = [child EXCEPT !.said = Append(child.said, w), !.at = IF child.does = "breaks" THEN "gone" ELSE child.at, !.does = "thinks"]
    BY <1>4 DEF Says
  <2>2. DOMAIN child' = DOMAIN child /\ child'.outs = child.outs /\ child'.said = Append(child.said, w) /\ child'.heir = child.heir /\ child'.does = "thinks"
    BY <2>1 DEF CallTypes
  <2>3. Writers /\ UNCHANGED <<opipe, out, err, call>> /\ (w.late => out.ended)
    BY <1>4, <2>1 DEF Says, Writers, EndsAreEnds
  <2> QED
    BY <2>1, <2>2, <2>3, <1>s
<1>5. CASE HeirActs
  <2>1. CASE child' = [child EXCEPT !.heir = FALSE] /\ UNCHANGED <<opipe, epipe, out, err, call>>
    <3>1. DOMAIN child' = DOMAIN child /\ child'.outs = child.outs /\ child'.said = child.said /\ child'.heir = FALSE /\ child'.at = child.at /\ child'.does = child.does
      BY <2>1 DEF CallTypes
    <3>2. CallTypes' /\ SaidIsSomewhere' /\ PrintedIsSomewhere' /\ CapIsStamped'
      BY <2>1, <3>1 DEF CallTypes, SaidIsSomewhere, PrintedIsSomewhere, CapIsStamped
    <3>3. EndsAreEnds' /\ AnswerStands'
      BY <2>1, <3>1 DEF EndsAreEnds, AnswerStands, Finished, Writers, Alive
    <3> QED
      BY <3>2, <3>3 DEF CallInv
  <2>2. CASE ~out.ended /\ opipe' = Append(opipe, "bytes") /\ child' = [child EXCEPT !.outs = child.outs + 1] /\ UNCHANGED <<epipe, out, err, call>>
    BY <2>2, <1>p DEF CallTypes
  <2>3. CASE \E w \in Word : w.late = out.ended /\ epipe' = Append(epipe, w) /\ child' = [child EXCEPT !.said = Append(child.said, w)]
    <3>1. PICK w \in Word : w.late = out.ended /\ epipe' = Append(epipe, w) /\ child' = [child EXCEPT !.said = Append(child.said, w)]
      BY <2>3
    <3>2. DOMAIN child' = DOMAIN child /\ child'.outs = child.outs /\ child'.said = Append(child.said, w) /\ child'.heir = child.heir /\ child'.does = child.does
      BY <3>1 DEF CallTypes
    <3>3. CASE UNCHANGED <<opipe, out, err, call>> /\ Writers
      BY <3>1, <3>2, <3>3, <1>s
    <3>4. CASE ~(UNCHANGED opipe)
      BY <1>5, <3>2, <3>4, <3>1, <1>p DEF HeirActs, CallTypes
    <3> QED
      BY <1>5, <3>3, <3>4 DEF HeirActs, Writers
  <2> QED
    BY <1>5, <2>1, <2>2, <2>3 DEF HeirActs
<1>6. CASE DrainsOut
  <2>1. UNCHANGED <<child, epipe, err, call>> /\ ~out.ended
    BY <1>6 DEF DrainsOut
  <2>2. CASE opipe # <<>> /\ ~out.over /\ opipe' = Tail(opipe) /\ out' = (IF out.held + 1 > Cap THEN [out EXCEPT !.over = TRUE, !.held = 0] ELSE [out EXCEPT !.held = out.held + 1])
    <3>1. DOMAIN out' = DOMAIN out /\ out'.ended = FALSE /\ out'.held \in Nat /\ out'.over \in BOOLEAN /\ (~out'.over => out'.held = out.held + 1)
      <4>1. CASE out.held + 1 > Cap
        <5>1. out' = [out EXCEPT !.over = TRUE, !.held = 0]
          BY <2>2, <4>1
        <5> QED
          BY <2>1, <5>1 DEF CallTypes
      <4>2. CASE ~(out.held + 1 > Cap)
        <5>1. out' = [out EXCEPT !.held = out.held + 1]
          BY <2>2, <4>2
        <5>2. DOMAIN out' = DOMAIN out /\ out'.ended = out.ended /\ out'.over = out.over
          BY <5>1 DEF CallTypes
        <5>3. out'.held = out.held + 1 /\ out'.held \in Nat
          BY <5>1 DEF CallTypes
        <5> QED
          BY <2>1, <5>2, <5>3 DEF CallTypes
      <4> QED
        BY <4>1, <4>2
    <3>2. opipe' \in Seq({"bytes"}) /\ Len(opipe') = Len(opipe) - 1
      BY <2>2 DEF CallTypes
    <3>3. CallTypes' /\ SaidIsSomewhere' /\ CapIsStamped'
      BY <2>1, <2>2, <3>1, <3>2 DEF CallTypes, SaidIsSomewhere, CapIsStamped, WellStamped
    <3>4. PrintedIsSomewhere'
      BY <2>1, <2>2, <3>1, <3>2 DEF CallTypes, PrintedIsSomewhere
    <3>5. EndsAreEnds' /\ AnswerStands'
      BY <2>1, <3>1 DEF EndsAreEnds, AnswerStands, Finished, Writers, Alive
    <3> QED
      BY <3>3, <3>4, <3>5 DEF CallInv
  <2>3. CASE (out.over \/ (opipe = <<>> /\ ~Writers)) /\ out' = [out EXCEPT !.ended = TRUE] /\ UNCHANGED opipe
    <3>1. DOMAIN out' = DOMAIN out /\ out'.ended = TRUE /\ out'.held = out.held /\ out'.over = out.over
      BY <2>3 DEF CallTypes
    <3>2. CallTypes' /\ SaidIsSomewhere' /\ CapIsStamped' /\ PrintedIsSomewhere'
      BY <2>1, <2>3, <3>1 DEF CallTypes, SaidIsSomewhere, CapIsStamped, PrintedIsSomewhere
    <3>3. EndsAreEnds' /\ AnswerStands'
      BY <2>1, <2>3, <3>1 DEF EndsAreEnds, AnswerStands, Finished, Writers, Alive
    <3> QED
      BY <3>2, <3>3 DEF CallInv
  <2> QED
    BY <1>6, <2>2, <2>3 DEF DrainsOut
<1>7. CASE DrainsErr
  <2>1. UNCHANGED <<child, opipe, out, call>> /\ ~err.ended
    BY <1>7 DEF DrainsErr
  <2>2. CASE epipe # <<>> /\ epipe' = Tail(epipe) /\ err' = [err EXCEPT !.held = Append(err.held, [word |-> Head(epipe), before |-> ~out.over])]
    <3> DEFINE new == [word |-> Head(epipe), before |-> ~out.over]
    <3>1. DOMAIN err' = DOMAIN err /\ err'.ended = FALSE /\ err'.first = err.first /\ err'.held = Append(err.held, new)
      BY <2>1, <2>2 DEF CallTypes
    <3>2. Joined(child.said, Append(err.held, new), Tail(epipe)) /\ Head(epipe) = child.said[Len(err.held) + 1] /\ Head(epipe) \in Word
      BY <2>2, DrainsOne DEF CallTypes, SaidIsSomewhere
    <3>3. new \in Stamped /\ new.before = ~out.over /\ new.word = child.said[Len(err.held) + 1]
      BY <3>2 DEF Stamped, CallTypes
    <3>4. Len(err.held) + 1 \in 1..Len(child.said)
      BY <2>2 DEF CallTypes, SaidIsSomewhere, Joined
    <3>5. new.before => ~new.word.late
      BY <3>3, <3>4 DEF CapIsStamped
    <3> HIDE DEF new
    <3>6. CallTypes'
      BY <2>1, <2>2, <3>1, <3>3 DEF CallTypes
    <3>7. SaidIsSomewhere'
      BY <2>1, <2>2, <3>1, <3>2 DEF SaidIsSomewhere
    <3>8. CapIsStamped'
      <4>1. WellStamped(Append(err.held, new), ~out.over)
        BY <2>1, <3>3, <3>5, StampsOne DEF CapIsStamped, CallTypes
      <4> QED
        BY <2>1, <3>1, <4>1 DEF CapIsStamped
    <3>10. AnswerStands'
      <4>1. \A i \in 1..Len(err.held) : err'.held[i] = err.held[i]
        BY <3>1, <3>3 DEF CallTypes
      <4>2. Len(err'.held) = Len(err.held) + 1 /\ Len(err.held) \in Nat
        BY <3>1, <3>3 DEF CallTypes
      <4> QED
        BY <2>1, <4>1, <4>2, SMTT(30) DEF AnswerStands, Finished, CallTypes
    <3>9. PrintedIsSomewhere' /\ EndsAreEnds'
      BY <2>1, <3>1 DEF PrintedIsSomewhere, EndsAreEnds, Writers, Alive
    <3> QED
      BY <3>6, <3>7, <3>8, <3>9, <3>10 DEF CallInv
  <2>3. CASE epipe = <<>> /\ ~Writers /\ err' = [err EXCEPT !.ended = TRUE, !.first = ~out.over] /\ UNCHANGED epipe
    <3>1. DOMAIN err' = DOMAIN err /\ err'.ended = TRUE /\ err'.first = ~out.over /\ err'.held = err.held
      BY <2>3 DEF CallTypes
    <3>2. CallTypes' /\ SaidIsSomewhere' /\ PrintedIsSomewhere'
      BY <2>1, <2>3, <3>1 DEF CallTypes, SaidIsSomewhere, PrintedIsSomewhere
    <3>3. CapIsStamped'
      BY <2>1, <3>1 DEF CapIsStamped, CallTypes, WellStamped
    <3>4. EndsAreEnds' /\ AnswerStands'
      BY <2>1, <2>3, <3>1 DEF EndsAreEnds, AnswerStands, Finished, Writers, Alive
    <3> QED
      BY <3>2, <3>3, <3>4 DEF CallInv
  <2> QED
    BY <1>7, <2>2, <2>3 DEF DrainsErr
(* The caller: the child gone or as it was, and an answer.                 *)
<1>k. ASSUME UNCHANGED <<opipe, epipe, out, err>>, child' = child \/ child' = Killed PROVE
        /\ DOMAIN child' = DOMAIN child /\ child'.outs = child.outs /\ child'.said = child.said /\ child'.heir = child.heir /\ child'.does = child.does /\ (Alive' => Alive)
        /\ SaidIsSomewhere' /\ PrintedIsSomewhere' /\ EndsAreEnds' /\ CapIsStamped'
  <2>1. DOMAIN child' = DOMAIN child /\ child'.outs = child.outs /\ child'.said = child.said /\ child'.heir = child.heir /\ child'.does = child.does /\ (Alive' => Alive)
    BY <1>k DEF CallTypes, Killed, Alive
  <2>2. SaidIsSomewhere' /\ PrintedIsSomewhere' /\ CapIsStamped'
    BY <1>k, <2>1 DEF SaidIsSomewhere, PrintedIsSomewhere, CapIsStamped
  <2>3. EndsAreEnds'
    BY <1>k, <2>1 DEF EndsAreEnds, Writers
  <2> QED
    BY <2>1, <2>2, <2>3
<1>8. CASE Returns
  <2>1. UNCHANGED <<child, opipe, epipe, out, err>> /\ Finished /\ ~out.over
    BY <1>8 DEF Returns
  <2>2. DOMAIN call' = {"at", "result", "data", "words"} /\ call'.at = "done" /\ call'.result = "returned" /\ call'.data = out.held /\ call'.words = Len(err.held)
    BY <1>8 DEF Returns
  <2>3. CallTypes'
    BY <2>1, <2>2 DEF CallTypes
  <2>4. AnswerStands'
    BY <2>1, <2>2 DEF AnswerStands, Finished, Alive
  <2> QED
    BY <1>k, <2>1, <2>3, <2>4 DEF CallInv
<1>9. CASE TimesOut
  <2>1. UNCHANGED <<opipe, epipe, out, err>> /\ child' = Killed /\ DOMAIN call' = DOMAIN call /\ call'.result = "timed_out" /\ call'.at = "done" /\ call'.words = call.words
    BY <1>9 DEF TimesOut, CallTypes
  <2>2. CallTypes' /\ AnswerStands'
    BY <2>1, <1>k DEF CallTypes, AnswerStands
  <2> QED
    BY <1>k, <2>1, <2>2 DEF CallInv
<1>10. CASE KillsAtCap
  <2>1. UNCHANGED <<opipe, epipe, out, err>> /\ child' = Killed /\ DOMAIN call' = DOMAIN call /\ call'.result = call.result /\ call.at = "waits" /\ call'.words = call.words
    BY <1>10 DEF KillsAtCap, CallTypes
  <2>2. CallTypes' /\ AnswerStands'
    BY <2>1, <1>k DEF CallTypes, AnswerStands
  <2> QED
    BY <1>k, <2>1, <2>2 DEF CallInv
<1>11. CASE Reasons
  <2>1. /\ UNCHANGED <<child, opipe, epipe, out, err>> /\ DOMAIN call' = DOMAIN call /\ call'.result = "over_cap" /\ call'.at = "done"
        /\ call'.words = IF err.ended /\ err.first THEN Before ELSE Whole(Before)
    BY <1>11 DEF Reasons, CallTypes
  <2>2. Before \in 0..Len(err.held) /\ Len(err.held) \in Nat /\ (\A i \in 1..Before : err.held[i].before)
    BY BeforeIsAPart DEF CallTypes
  <2>3. err.ended /\ err.first => Before = Len(err.held)
    BY BeforeIsAPart DEF CapIsStamped, WellStamped
  <2>4. Whole(Before) \in 0..Before /\ (Whole(Before) = 0 \/ err.held[Whole(Before)].word.ends)
    BY WholeIsWhole, <2>2
  <2>5. CallTypes' /\ AnswerStands'
    BY <2>1, <2>2, <2>3, <2>4 DEF CallTypes, AnswerStands
  <2> QED
    BY <1>k, <2>1, <2>5 DEF CallInv
<1> QED
  BY <1>1, <1>2, <1>3, <1>4, <1>5, <1>6, <1>7, <1>8, <1>9, <1>10, <1>11 DEF CallNext, Idles

LEMMA CallInvInit == CallInit => CallInv
BY DEF CallInit, CallStart, CallInv, CallTypes, SaidIsSomewhere, PrintedIsSomewhere, EndsAreEnds, CapIsStamped, AnswerStands, Joined, WellStamped

(* What a call returns is all its child and the child's heirs wrote; the   *)
(* reason it gives for a reply over the cap is what the child said before  *)
(* the cap, in whole lines or to its end (_spawn, _Drain): whatever the    *)
(* pipes hold, the cap, and the order the threads run in.                  *)
THEOREM RepliesAreWholeHolds == CallSpec => []RepliesAreWhole
<1>1. CallInv => RepliesAreWhole
  <2> SUFFICES ASSUME CallInv PROVE ReturnsAll /\ ReasonIsACause
    BY DEF RepliesAreWhole
  <2>1. ReturnsAll
    <3> SUFFICES ASSUME call.result = "returned" PROVE call.data = child.outs /\ call.words = Len(child.said)
      BY DEF ReturnsAll
    <3>1. Finished /\ ~out.over /\ call.data = out.held /\ call.words = Len(err.held)
      BY DEF CallInv, AnswerStands
    <3>2. opipe = <<>> /\ epipe = <<>>
      BY <3>1 DEF CallInv, EndsAreEnds, Finished
    <3> QED
      BY <3>1, <3>2 DEF CallInv, CallTypes, SaidIsSomewhere, PrintedIsSomewhere, Joined
  <2>2. ReasonIsACause
    <3> SUFFICES ASSUME call.result = "over_cap"
                 PROVE  (\A i \in 1..call.words : ~child.said[i].late) /\ (call.words = 0 \/ child.said[call.words].ends \/ call.words = Len(child.said))
      BY DEF ReasonIsACause
    <3>1. /\ call.words <= Len(err.held) /\ \A i \in 1..call.words : err.held[i].before
          /\ call.words = 0 \/ err.held[call.words].word.ends \/ (err.ended /\ call.words = Len(err.held))
      BY DEF CallInv, AnswerStands
    <3>2. call.words \in Nat /\ Len(err.held) \in Nat /\ 1..call.words \subseteq 1..Len(err.held)
      BY <3>1 DEF CallInv, CallTypes
    <3>3. \A i \in 1..call.words : ~child.said[i].late
      BY <3>1, <3>2 DEF CallInv, CapIsStamped, SaidIsSomewhere, Joined, WellStamped
    <3>4. err.ended => Len(child.said) = Len(err.held)
      BY <3>2 DEF CallInv, EndsAreEnds, SaidIsSomewhere, Joined
    <3>5. call.words # 0 => err.held[call.words].word = child.said[call.words]
      BY <3>2 DEF CallInv, SaidIsSomewhere, Joined
    <3> QED
      BY <3>1, <3>3, <3>4, <3>5
  <2> QED
    BY <2>1, <2>2
<1> QED
  BY <1>1, CallInvInit, CallInvNext, PTL DEF CallSpec

-----------------------------------------------------------------------------
(* Edits of the config file.                                               *)

Shaped(d) == {"v", "ps"} \subseteq DOMAIN d
Handled == {"edit", "held", "save", "open", "adrift", "replace", "done", "kept"}

FileInv(f) ==
  /\ DOMAIN f = {"data", "whole", "by"} /\ (f.data # Nothing => Shaped(f.data))
  /\ f.by \in Vetted => (f.whole => Loads(f.data))
  /\ ~f.whole => f.by \notin Atomic

(* Of one editor, by the place it is at: a save of a vetted kind loads, a  *)
(* straight write is of no kind that replaces, and what came from afar is  *)
(* in the scratch copy until the host has it.                              *)
EditorInv(r) ==
  /\ DOMAIN r = {"pc", "cmd", "data", "pool", "torn", "scratch", "lost", "ours"} /\ r.cmd.kind \in Kinds
  /\ r.pc \in {"start", "read"} => r.data = Nothing
  /\ r.pc = "read" => r.cmd.kind = "node remove"
  /\ r.pc = "edit" => r.cmd.kind \in FromAfar /\ r.scratch
  /\ r.pc \in Handled => Shaped(r.data)
  /\ r.pc \in {"save", "open", "adrift", "replace"} /\ r.cmd.kind \in Vetted => Loads(r.data)
  /\ r.pc \in {"open", "adrift"} => r.cmd.kind \notin Atomic
  /\ r.cmd.kind \in FromAfar =>
       /\ r.pc \in {"held", "save", "replace", "kept", "refused", "cut"} /\ r.data # Nothing => r.ours \/ r.scratch
       /\ r.pc = "done" => r.ours

ConfigInv == FileInv(file) /\ DOMAIN ed = Editor /\ \A e \in Editor : EditorInv(ed[e])

(* Every change keeps a config's fields.                                   *)
LEMMA ChangedIsShaped == ASSUME NEW d, NEW c, NEW pool, Shaped(d), c.kind \in Kinds PROVE Shaped(Changed(d, c, pool))
<1>1. DOMAIN SetPlain(d) = DOMAIN d /\ DOMAIN SetTool(d, c.v) = DOMAIN d /\ DOMAIN AddsProject(d, c.row) = DOMAIN d
  BY DEF SetPlain, SetTool, AddsProject
<1>2. DOMAIN Removes(d, c.p) = DOMAIN d /\ DOMAIN DropsOne(d, c.p) = DOMAIN d /\ DOMAIN NodeAdds(d, c.v) = DOMAIN d
  BY Zenon DEF Removes, DropsOne, NodeAdds
<1>3. \A f, v : DOMAIN SetField(d, c.p, f, v) = DOMAIN d
  BY DEF SetField
<1>4. DOMAIN NodeRemoves(d, c.v, pool) = DOMAIN d /\ DOMAIN Migrated(d) = DOMAIN d
  BY Zenon DEF NodeRemoves, Migrated
<1>5. Shaped(FirstRun(c.row))
  BY DEF FirstRun, DefaultConfig, Shaped
<1> HIDE DEF SetPlain, SetTool, AddsProject, Removes, DropsOne, NodeAdds, SetField, NodeRemoves, Migrated, FirstRun
<1> QED
  BY <1>1, <1>2, <1>3, <1>4, <1>5 DEF Changed, Shaped, Kinds, Vetted

(* Migration says the same, and says it once.                              *)
LEMMA MigrationMeansTheSame ==
  ASSUME NEW d, Shaped(d)
  PROVE  Meaning(Migrated(d)) = Meaning(d) /\ Migrated(Migrated(d)) = Migrated(d)
<1> DEFINE m == Migrated(d)
           New(r) == MigratedRow(r, d.v)
           Mean(r) == [r EXCEPT !.windows = Windows(r.windows), !.coloured = TRUE]
<1>1. \A w : Windows(NewShape(w)) = Windows(w)
  BY DEF Windows, NewShape
<1>2. \A r : Mean(New(r)) = Mean(r)
  <2> TAKE r
  <2>0. New(r) = [r EXCEPT !.coloured = TRUE, !.windows = IF d.v < 3 THEN NewShape(r.windows) ELSE r.windows]
    BY DEF MigratedRow
  <2> HIDE DEF New
  <2>1. DOMAIN New(r) = DOMAIN r /\ Mean(New(r)) = [x \in DOMAIN r |-> Mean(New(r))[x]] /\ Mean(r) = [x \in DOMAIN r |-> Mean(r)[x]]
    BY <2>0
  <2>2. ASSUME NEW x \in DOMAIN r PROVE Mean(New(r))[x] = Mean(r)[x]
    <3>1. CASE x = "windows"
      <4>1. New(r).windows = IF d.v < 3 THEN NewShape(r.windows) ELSE r.windows
        BY <3>1, <2>0, <2>2
      <4>2. Mean(New(r)).windows = Windows(New(r).windows) /\ Mean(r).windows = Windows(r.windows)
        BY <3>1, <2>1, <2>2
      <4> QED
        BY <1>1, <3>1, <4>1, <4>2
    <3>2. CASE x = "coloured"
      BY <3>2, <2>0, <2>1, <2>2
    <3>3. CASE x # "windows" /\ x # "coloured"
      BY <3>3, <2>0, <2>1, <2>2
    <3> QED
      BY <3>1, <3>2, <3>3
  <2> QED
    BY <2>1, <2>2
<1>3. m = [d EXCEPT !.v = Schema, !.ps = [i \in DOMAIN d.ps |-> New(d.ps[i])]]
  BY DEF Migrated
<1> HIDE DEF m
<1>4. m.v = 4 /\ m.ps = [i \in DOMAIN d.ps |-> New(d.ps[i])] /\ DOMAIN m = DOMAIN d
  BY <1>3 DEF Shaped, Schema
<1> HIDE DEF New, Mean
<1>5. Meaning(m) = Meaning(d)
  <2>1. Meaning(m) = [i \in DOMAIN m.ps |-> Mean(m.ps[i])] /\ Meaning(d) = [i \in DOMAIN d.ps |-> Mean(d.ps[i])]
    BY DEF Meaning, Mean
  <2> QED
    BY <1>2, <1>4, <2>1
<1>6. \A r : MigratedRow(New(r), 4) = New(r)
  <2> TAKE r
  <2>1. New(r) = [r EXCEPT !.coloured = TRUE, !.windows = IF d.v < 3 THEN NewShape(r.windows) ELSE r.windows]
    BY DEF New, MigratedRow
  <2>2. MigratedRow(New(r), 4) = [New(r) EXCEPT !.coloured = TRUE, !.windows = New(r).windows]
    BY DEF MigratedRow
  <2> QED
    BY <2>1, <2>2
<1>7. Migrated(m) = [m EXCEPT !.v = Schema, !.ps = [i \in DOMAIN m.ps |-> MigratedRow(m.ps[i], 4)]]
  BY <1>4 DEF Migrated
<1>8. [i \in DOMAIN m.ps |-> MigratedRow(m.ps[i], 4)] = m.ps
  BY <1>4, <1>6
<1>9. Migrated(m) = m
  BY <1>3, <1>4, <1>7, <1>8 DEF Schema
<1> QED
  BY <1>5, <1>9 DEF m

LEMMA ConfigInvNext == ConfigInv /\ [ConfigNext]_configvars => ConfigInv'
<1> SUFFICES ASSUME ConfigInv, [ConfigNext]_configvars PROVE ConfigInv'
  OBVIOUS
<1>0. FileInv(file) /\ DOMAIN ed = Editor /\ \A e \in Editor : EditorInv(ed[e])
  BY DEF ConfigInv
<1>1. CASE UNCHANGED configvars
  BY <1>1 DEF configvars, ConfigInv
(* One editor goes on, the file as it is.                                  *)
<1>g. ASSUME NEW e \in Editor, NEW r, Goes(e, r), EditorInv(r), FileInv(file') PROVE ConfigInv'
  BY <1>0, <1>g DEF ConfigInv, Goes
<1>2. ASSUME NEW e \in Editor, Considers(e) PROVE ConfigInv'
  <2>1. UNCHANGED file /\ ed[e].pc = "start" /\ ed[e].cmd.kind = "node remove" /\ EditorInv(ed[e])
    BY <1>2, <1>0 DEF Considers, EditRest
  <2>2. CASE \E pool : Goes(e, [ed[e] EXCEPT !.pc = "read", !.pool = pool])
    <3>1. PICK pool : Goes(e, [ed[e] EXCEPT !.pc = "read", !.pool = pool])
      BY <2>2
    <3>2. EditorInv([ed[e] EXCEPT !.pc = "read", !.pool = pool])
      BY <2>1 DEF EditorInv, Handled, FromAfar
    <3> QED
      BY <1>0, <1>g, <2>1, <3>1, <3>2
  <2>3. CASE GoesTo(e, "refused")
    <3>1. EditorInv([ed[e] EXCEPT !.pc = "refused"])
      BY <2>1 DEF EditorInv, Handled, FromAfar
    <3> QED
      BY <1>0, <1>g, <2>1, <2>3, <3>1 DEF GoesTo
  <2> QED
    BY <1>2, <2>2, <2>3 DEF Considers
<1>3. ASSUME NEW e \in Editor, Reads(e) PROVE ConfigInv'
  <2>1. UNCHANGED file /\ ed[e].pc \in {"start", "read"} /\ ed[e].cmd.kind \notin FromAfar /\ EditorInv(ed[e])
    BY <1>3, <1>0 DEF Reads, EditRest, EditorInv, FromAfar
  <2>2. CASE ~Finds(ed[e].cmd)
    <3>1. EditorInv([ed[e] EXCEPT !.pc = "refused"])
      BY <2>1 DEF EditorInv, Handled
    <3> QED
      BY <1>0, <1>3, <1>g, <2>1, <2>2, <3>1 DEF Reads, GoesTo
  <2>3. CASE Finds(ed[e].cmd)
    <3> DEFINE base == IF Exists THEN file.data ELSE DefaultConfig(<<>>)
               new == Changed(base, ed[e].cmd, ed[e].pool)
    <3>1. Goes(e, [ed[e] EXCEPT !.pc = "held", !.data = new])
      BY <1>3, <2>3 DEF Reads
    <3>2. Shaped(base)
      <4>1. Shaped(DefaultConfig(<<>>))
        BY DEF DefaultConfig, Shaped
      <4>2. Exists => file.data # Nothing
        BY <2>3 DEF Finds, Readable
      <4> QED
        BY <1>0, <4>1, <4>2 DEF FileInv
    <3>3. Shaped(new)
      BY <2>1, <3>2, ChangedIsShaped DEF EditorInv
    <3> HIDE DEF new
    <3>4. EditorInv([ed[e] EXCEPT !.pc = "held", !.data = new])
      BY <2>1, <3>3 DEF EditorInv, Handled
    <3> QED
      BY <1>0, <1>g, <2>1, <3>1, <3>4
  <2> QED
    BY <2>2, <2>3
<1>4. ASSUME NEW e \in Editor, Fetches(e) PROVE ConfigInv'
  <2>1. UNCHANGED file /\ ed[e].pc = "start" /\ ed[e].cmd.kind \in FromAfar /\ EditorInv(ed[e])
    BY <1>4, <1>0 DEF Fetches, EditRest
  <2>2. CASE GoesTo(e, "refused")
    <3>1. EditorInv([ed[e] EXCEPT !.pc = "refused"])
      BY <2>1 DEF EditorInv, Handled
    <3> QED
      BY <1>0, <1>g, <2>1, <2>2, <3>1 DEF GoesTo
  <2>3. CASE file.data # Nothing /\ Goes(e, [ed[e] EXCEPT !.pc = "edit", !.data = file.data, !.torn = ~file.whole, !.scratch = TRUE])
    <3>1. Shaped(file.data)
      BY <1>0, <2>3 DEF FileInv
    <3>2. EditorInv([ed[e] EXCEPT !.pc = "edit", !.data = file.data, !.torn = ~file.whole, !.scratch = TRUE])
      BY <2>1, <3>1 DEF EditorInv, Handled
    <3> QED
      BY <1>0, <1>g, <2>1, <2>3, <3>2
  <2> QED
    BY <1>4, <2>2, <2>3 DEF Fetches
<1>5. ASSUME NEW e \in Editor, Edits(e) PROVE ConfigInv'
  <2>1. UNCHANGED file /\ ed[e].pc = "edit" /\ EditorInv(ed[e])
    BY <1>5, <1>0 DEF Edits, EditRest
  <2>2. CASE Goes(e, [ed[e] EXCEPT !.pc = "unchanged", !.scratch = FALSE])
    <3>1. EditorInv([ed[e] EXCEPT !.pc = "unchanged", !.scratch = FALSE])
      BY <2>1 DEF EditorInv, Handled
    <3> QED
      BY <1>0, <1>g, <2>1, <2>2, <3>1
  <2>3. ASSUME NEW pc \in {"held", "kept"}, NEW new, Shaped(new), Goes(e, [ed[e] EXCEPT !.pc = pc, !.data = new]) PROVE ConfigInv'
    <3>1. ed[e].ours \/ ed[e].scratch
      BY <2>1, <1>0 DEF EditorInv, Handled
    <3>2. EditorInv([ed[e] EXCEPT !.pc = pc, !.data = new])
      BY <2>1, <2>3, <3>1 DEF EditorInv, Handled
    <3> QED
      BY <1>0, <1>g, <2>1, <2>3, <3>2
  <2>4. Shaped(Changed(ed[e].data, ed[e].cmd, {}))
    BY <2>1, ChangedIsShaped DEF EditorInv, Handled
  <2> QED
    BY <1>5, <2>2, <2>3, <2>4 DEF Edits
<1>6. ASSUME NEW e \in Editor, Vets(e) PROVE ConfigInv'
  <2>1. UNCHANGED file /\ ed[e].pc = "held" /\ EditorInv(ed[e])
    BY <1>6, <1>0 DEF Vets, EditRest
  <2>2. CASE (ed[e].cmd.kind \in Vetted => Loads(ed[e].data)) /\ GoesTo(e, "save")
    <3>1. EditorInv([ed[e] EXCEPT !.pc = "save"])
      BY <2>1, <2>2 DEF EditorInv, Handled
    <3> QED
      BY <1>0, <1>g, <2>1, <2>2, <3>1 DEF GoesTo
  <2>3. CASE GoesTo(e, "refused")
    <3>1. EditorInv([ed[e] EXCEPT !.pc = "refused"])
      BY <2>1 DEF EditorInv, Handled
    <3> QED
      BY <1>0, <1>g, <2>1, <2>3, <3>1 DEF GoesTo
  <2> QED
    BY <1>6, <2>2, <2>3 DEF Vets
<1>7. ASSUME NEW e \in Editor, Opens(e) PROVE ConfigInv'
  <2>1. ed[e].pc = "save" /\ ed[e].cmd.kind \notin Atomic /\ EditorInv(ed[e])
        /\ file' = [file EXCEPT !.whole = FALSE, !.by = ed[e].cmd.kind] /\ Goes(e, [ed[e] EXCEPT !.pc = "open", !.torn = FALSE])
    BY <1>7, <1>0 DEF Opens
  <2>2. FileInv(file')
    BY <2>1, <1>0 DEF FileInv
  <2>3. EditorInv([ed[e] EXCEPT !.pc = "open", !.torn = FALSE])
    BY <2>1 DEF EditorInv, Handled, Atomic
  <2> QED
    BY <1>g, <2>1, <2>2, <2>3
<1>8. ASSUME NEW e \in Editor, Fills(e) PROVE ConfigInv'
  <2>1. EditorInv(ed[e])
    BY <1>0
  <2>2. CASE ed[e].pc = "open"
    <3>1. PICK w \in {TRUE, ~ed[e].torn} : file' = [data |-> ed[e].data, whole |-> w, by |-> ed[e].cmd.kind]
      BY <1>8, <2>2 DEF Fills
    <3>2. FileInv(file')
      BY <2>1, <2>2, <3>1 DEF EditorInv, FileInv, Handled
    <3>3. ed' = [x \in Editor |-> IF x = e THEN [ed[e] EXCEPT !.pc = "done"] ELSE IF ed[x].pc = "open" THEN [ed[x] EXCEPT !.torn = TRUE] ELSE ed[x]]
      BY <1>8, <2>2 DEF Fills
    <3>4. EditorInv([ed[e] EXCEPT !.pc = "done"])
      BY <2>1, <2>2 DEF EditorInv, Handled, Atomic
    <3>5. \A x \in Editor : EditorInv([ed[x] EXCEPT !.torn = TRUE])
      BY <1>0, ZenonT(60) DEF EditorInv
    <3> QED
      BY <1>0, <3>2, <3>3, <3>4, <3>5 DEF ConfigInv
  <2>3. CASE ed[e].pc = "adrift"
    <3>1. EditorInv([ed[e] EXCEPT !.pc = "done"])
      BY <2>1, <2>3 DEF EditorInv, Handled, Atomic
    <3> QED
      BY <1>0, <1>8, <1>g, <2>3, <3>1 DEF Fills, GoesTo
  <2> QED
    BY <1>8, <2>2, <2>3 DEF Fills
<1>9. ASSUME NEW e \in Editor, SavesAgain(e) PROVE ConfigInv'
  <2>1. UNCHANGED file /\ ed[e].pc = "done" /\ ed[e].cmd.kind = "plain" /\ EditorInv(ed[e]) /\ Goes(e, [ed[e] EXCEPT !.pc = "held", !.data = SetPlain(ed[e].data)])
    BY <1>9, <1>0 DEF SavesAgain, EditRest
  <2>2. Shaped(SetPlain(ed[e].data))
    BY <2>1 DEF EditorInv, Handled, SetPlain, Shaped
  <2>3. EditorInv([ed[e] EXCEPT !.pc = "held", !.data = SetPlain(ed[e].data)])
    BY <2>1, <2>2 DEF EditorInv, Handled, FromAfar
  <2> QED
    BY <1>0, <1>g, <2>1, <2>3
<1>10. ASSUME NEW e \in Editor, BacksUp(e) PROVE ConfigInv'
  <2>1. UNCHANGED file /\ ed[e].pc = "save" /\ EditorInv(ed[e]) /\ Goes(e, [ed[e] EXCEPT !.pc = "replace"])
    BY <1>10, <1>0 DEF BacksUp, GoesTo
  <2>2. EditorInv([ed[e] EXCEPT !.pc = "replace"])
    BY <2>1 DEF EditorInv, Handled
  <2> QED
    BY <1>0, <1>g, <2>1, <2>2
<1>11. ASSUME NEW e \in Editor, Replaces(e) PROVE ConfigInv'
  <2>1. ed[e].pc \in {"replace", "save"} /\ EditorInv(ed[e])
    BY <1>11, <1>0 DEF Replaces
  <2>2. CASE GoesTo(e, "refused") /\ UNCHANGED file
    <3>1. EditorInv([ed[e] EXCEPT !.pc = "refused"])
      BY <2>1 DEF EditorInv, Handled
    <3> QED
      BY <1>0, <1>g, <2>2, <3>1 DEF GoesTo
  <2>3. CASE /\ file' = [data |-> ed[e].data, whole |-> TRUE, by |-> ed[e].cmd.kind]
             /\ ed' = [x \in Editor |-> IF x = e THEN [ed[e] EXCEPT !.pc = "done", !.ours = TRUE] ELSE IF ed[x].pc = "open" THEN [ed[x] EXCEPT !.pc = "adrift"] ELSE ed[x]]
    <3>1. FileInv(file')
      BY <2>1, <2>3 DEF EditorInv, FileInv, Handled
    <3>2. EditorInv([ed[e] EXCEPT !.pc = "done", !.ours = TRUE])
      BY <2>1 DEF EditorInv, Handled
    <3>3. \A x \in Editor : ed[x].pc = "open" => EditorInv([ed[x] EXCEPT !.pc = "adrift"])
      BY <1>0, ZenonT(60) DEF EditorInv, Handled
    <3> QED
      BY <1>0, <2>3, <3>1, <3>2, <3>3 DEF ConfigInv
  <2> QED
    BY <1>11, <2>2, <2>3 DEF Replaces
<1>12. ASSUME NEW e \in Editor, Lost(e) PROVE ConfigInv'
  <2>1. UNCHANGED file /\ EditorInv(ed[e]) /\ Goes(e, [ed[e] EXCEPT !.lost = TRUE])
    BY <1>12, <1>0 DEF Lost, EditRest
  <2>2. EditorInv([ed[e] EXCEPT !.lost = TRUE])
    BY <2>1 DEF EditorInv
  <2> QED
    BY <1>0, <1>g, <2>1, <2>2
<1>13. ASSUME NEW e \in Editor, Cut(e) PROVE ConfigInv'
  <2>1. UNCHANGED file /\ ed[e].pc \in {"held", "save", "open", "adrift", "replace"} /\ EditorInv(ed[e]) /\ Goes(e, [ed[e] EXCEPT !.pc = "cut"])
    BY <1>13, <1>0 DEF Cut, GoesTo
  <2>2. EditorInv([ed[e] EXCEPT !.pc = "cut"])
    BY <2>1 DEF EditorInv, Handled, Atomic
  <2> QED
    BY <1>0, <1>g, <2>1, <2>2
<1>14. ASSUME NEW e \in Editor, Tidies(e) PROVE ConfigInv'
  <2>1. UNCHANGED file /\ ed[e].pc = "done" /\ EditorInv(ed[e]) /\ Goes(e, [ed[e] EXCEPT !.scratch = FALSE])
    BY <1>14, <1>0 DEF Tidies, EditRest
  <2>2. EditorInv([ed[e] EXCEPT !.scratch = FALSE])
    BY <2>1 DEF EditorInv
  <2> QED
    BY <1>0, <1>g, <2>1, <2>2
<1> QED
  BY <1>1, <1>2, <1>3, <1>4, <1>5, <1>6, <1>7, <1>8, <1>9, <1>10, <1>11, <1>12, <1>13, <1>14 DEF ConfigNext

LEMMA ConfigInvInit == ConfigInit => ConfigInv
<1> SUFFICES ASSUME NEW s \in ConfigSetups, ConfigStart(s) PROVE ConfigInv
  BY DEF ConfigInit
<1>1. FileInv(file)
  BY ConfigAssumption DEF ConfigStart, FileInv, Shaped, Vetted
<1>2. \A e \in Editor : EditorInv(ed[e])
  BY ConfigAssumption DEF ConfigStart, NewEditor, EditorInv, Handled
<1> QED
  BY <1>1, <1>2 DEF ConfigStart, ConfigInv

(* A save that was vetted loads, a whole config that replaces the file is  *)
(* never half of one, an edit from another machine is on the host or in    *)
(* the scratch copy, and a migration says the same: for any configs, any   *)
(* number of editors, their commands in any order, and a writer killed     *)
(* wherever it is.                                                         *)
THEOREM ConfigSurvivesHolds == ConfigSpec => []ConfigSurvives
<1>1. ConfigInv => ConfigSurvives
  <2> SUFFICES ASSUME ConfigInv PROVE ConfigSurvives
    OBVIOUS
  <2>1. FileInv(file) /\ \A e \in Editor : EditorInv(ed[e])
    BY DEF ConfigInv
  <2>2. file.data # Nothing => Meaning(Migrated(file.data)) = Meaning(file.data) /\ Migrated(Migrated(file.data)) = Migrated(file.data)
    BY <2>1, MigrationMeansTheSame DEF FileInv
  <2>3. \A e \in Editor : ed[e].cmd.kind \in FromAfar /\ ed[e].pc \in {"held", "save", "replace", "done", "kept", "refused", "cut"} /\ ed[e].data # Nothing
                          => ed[e].ours \/ ed[e].scratch
    BY <2>1 DEF EditorInv
  <2>4. (file.by \in Vetted => (file.whole => Loads(file.data))) /\ (~file.whole => file.by \notin Atomic)
    BY <2>1 DEF FileInv
  <2> QED
    BY <2>2, <2>3, <2>4 DEF ConfigSurvives
<1> QED
  BY <1>1, ConfigInvInit, ConfigInvNext, PTL DEF ConfigSpec

-----------------------------------------------------------------------------
(* The ticks of the node sync.                                             *)

Pull == [at : {"queued", "running", "raised", "done", "dropped", "cancelled"}, age : Nat, gen : Nat, out : Outcomes \cup {"none"}]
Open == syncer.pc # "closed"

TickTypes ==
  /\ DOMAIN pulls = Node /\ \A n \in Node : pulls[n] \in Seq(Pull)
  /\ DOMAIN inflight = Node /\ DOMAIN errors = Node
  /\ \A n \in Node : inflight[n] \in 0..Len(pulls[n]) /\ errors[n] \in Nat
  /\ DOMAIN syncer = {"pc", "config", "gen", "size", "results"} /\ syncer.gen \in Nat
  /\ DOMAIN config = {"pool", "stamp", "good"} /\ config.stamp \in Nat
  /\ DOMAIN watch = {"at", "stamp", "pool"} /\ watch.stamp \in Nat

(* One pull of a node at a time, the last, and `_inflight` names it; a bug *)
(* that was raised, and not yet noted, is left under its own pull.         *)
OneAtATime(n) ==
  /\ inflight[n] # 0 => inflight[n] = Len(pulls[n])
  /\ \A k \in 1..Len(pulls[n]) : Live(pulls[n][k]) => k = Len(pulls[n]) /\ (Open => k = inflight[n])
  /\ \A k \in 1..Len(pulls[n]) : pulls[n][k].at = "raised" => errors[n] = k
  /\ Open /\ inflight[n] # 0 /\ Now(n).at = "done" /\ Now(n).out = "internal" => errors[n] = inflight[n]

(* What a tick collected is over, and names its pull, or none.             *)
IsAPull(s) == s.nick \in Node /\ s.pull \in 1..Len(pulls[s.nick])
IsSo(s) == /\ IsAPull(s) /\ pulls[s.nick][s.pull].at = "done" /\ pulls[s.nick][s.pull].out = s.out
           /\ s.out = "internal" => errors[s.nick] = s.pull
ResultsAreSo ==
  /\ syncer.pc # "note" => syncer.results = {}
  /\ \A s \in syncer.results : (s.pull = 0 /\ s.out = "unreachable") \/ (IsSo(s) /\ inflight[s.nick] = 0)

NotedIsSo == \A r \in noted :
  /\ IsAPull(r) /\ pulls[r.nick][r.pull].at \in {"done", "dropped"}
  /\ (pulls[r.nick][r.pull].out = "internal") <=> (r.state = "internal error")
  /\ r.error \in {0, r.pull}
NoneIsMissed == Open => \A n \in Node : \A k \in 1..Len(pulls[n]) :
  pulls[n][k].at = "done" /\ pulls[n][k].out # "locked" /\ k # inflight[n] => \E r \in noted \cup syncer.results : r.nick = n /\ r.pull = k

(* The watch's stamp is not ahead of the file's, and is that of what it    *)
(* loaded, or of an older file.                                            *)
WatchIsSo ==
  /\ watch.stamp <= config.stamp /\ watch.at \in {"idle", "stamped", "loaded"}
  /\ watch.at # "stamped" /\ watch.stamp = config.stamp /\ config.good => watch.pool = config.pool

TickInv == TickTypes /\ (\A n \in Node : OneAtATime(n)) /\ ResultsAreSo /\ NotedIsSo /\ NoneIsMissed /\ WatchIsSo

LEMMA SameLength ==
  ASSUME NEW S, NEW n \in Nat, NEW f \in [1..n -> S]
  PROVE  f \in Seq(S) /\ Len(f) = n /\ DOMAIN f = 1..n
<1>1. f \in Seq(S)
  BY SeqDef
<1>2. Len(f) \in Nat /\ DOMAIN f = 1..Len(f)
  BY <1>1
<1> QED
  BY <1>1, <1>2

(* A pull's record with another state, an end, an age.                     *)
States == {"queued", "running", "raised", "done", "dropped", "cancelled"}
LEMMA PullMoves ==
  ASSUME NEW p \in Pull, NEW stage \in States
  PROVE  [p EXCEPT !.at = stage] \in Pull /\ [p EXCEPT !.at = stage].at = stage /\ [p EXCEPT !.at = stage].out = p.out
<1>1. [p EXCEPT !.at = stage] = [at |-> stage, age |-> p.age, gen |-> p.gen, out |-> p.out]
  BY DEF Pull
<1>2. p.age \in Nat /\ p.gen \in Nat /\ p.out \in Outcomes \cup {"none"}
  BY DEF Pull
<1>3. [at |-> stage, age |-> p.age, gen |-> p.gen, out |-> p.out] \in Pull
  BY <1>2 DEF Pull, States
<1> QED
  BY <1>1, <1>3

LEMMA PullEnds ==
  ASSUME NEW p \in Pull, NEW o \in Outcomes
  PROVE  LET r == [p EXCEPT !.at = "done", !.out = o] IN r \in Pull /\ r.at = "done" /\ r.out = o
<1>4. [p EXCEPT !.at = "done"] = [at |-> "done", age |-> p.age, gen |-> p.gen, out |-> p.out]
  BY DEF Pull
<1>5. [p EXCEPT !.at = "done", !.out = o] = [[p EXCEPT !.at = "done"] EXCEPT !.out = o]
  BY Zenon
<1>1. [p EXCEPT !.at = "done", !.out = o] = [at |-> "done", age |-> p.age, gen |-> p.gen, out |-> o]
  <2>1. [[at |-> "done", age |-> p.age, gen |-> p.gen, out |-> p.out] EXCEPT !.out = o] = [at |-> "done", age |-> p.age, gen |-> p.gen, out |-> o]
    OBVIOUS
  <2>2. [p EXCEPT !.at = "done", !.out = o] = [[at |-> "done", age |-> p.age, gen |-> p.gen, out |-> p.out] EXCEPT !.out = o]
    BY <1>4, <1>5, Zenon
  <2> QED
    BY <2>1, <2>2, Zenon
<1>2. p.age \in Nat /\ p.gen \in Nat
  BY DEF Pull
<1>3. [at |-> "done", age |-> p.age, gen |-> p.gen, out |-> o] \in Pull
  BY <1>2 DEF Pull
<1> QED
  BY <1>1, <1>3

LEMMA PullAges ==
  ASSUME NEW p \in Pull
  PROVE  LET r == [p EXCEPT !.age = p.age + 1] IN r \in Pull /\ r.at = p.at /\ r.out = p.out
<1>1. [p EXCEPT !.age = p.age + 1] = [at |-> p.at, age |-> p.age + 1, gen |-> p.gen, out |-> p.out]
  BY DEF Pull
<1>2. p.age \in Nat /\ p.gen \in Nat /\ p.out \in Outcomes \cup {"none"} /\ p.at \in States
  BY DEF Pull, States
<1>3. [at |-> p.at, age |-> p.age + 1, gen |-> p.gen, out |-> p.out] \in Pull
  BY <1>2 DEF Pull, States
<1> QED
  BY <1>1, <1>3

(* The parts of the invariant, by what a step leaves of what they read.    *)
PullsKeep == \A n \in Node : \A k \in 1..Len(pulls[n]) :
  /\ k \in 1..Len(pulls'[n])
  /\ pulls[n][k].at \in {"done", "dropped"} => pulls'[n][k].at \in {"done", "dropped"} /\ pulls'[n][k].out = pulls[n][k].out
(* _note has named ends that stay ends.                                    *)
LEMMA NotedKeeps ==
  ASSUME \A r \in noted' : IsAPull(r) /\ pulls[r.nick][r.pull].at \in {"done", "dropped"}
                          /\ ((pulls[r.nick][r.pull].out = "internal") <=> (r.state = "internal error")) /\ r.error \in {0, r.pull},
         PullsKeep
  PROVE  NotedIsSo'
<1> SUFFICES ASSUME NEW r \in noted'
             PROVE  /\ r.nick \in Node /\ r.pull \in 1..Len(pulls'[r.nick]) /\ pulls'[r.nick][r.pull].at \in {"done", "dropped"}
                    /\ (pulls'[r.nick][r.pull].out = "internal") <=> (r.state = "internal error")
                    /\ r.error \in {0, r.pull}
  BY DEF NotedIsSo, IsAPull
<1>1. r.nick \in Node /\ r.pull \in 1..Len(pulls[r.nick]) /\ pulls[r.nick][r.pull].at \in {"done", "dropped"}
  BY DEF IsAPull
<1>2. r.pull \in 1..Len(pulls'[r.nick]) /\ pulls'[r.nick][r.pull].at \in {"done", "dropped"} /\ pulls'[r.nick][r.pull].out = pulls[r.nick][r.pull].out
  BY <1>1 DEF PullsKeep
<1> QED
  BY <1>1, <1>2
(* Nothing collected, or nothing that what was collected reads.            *)
LEMMA NoResults == syncer'.results = {} => ResultsAreSo'
  BY DEF ResultsAreSo
LEMMA ResultsKeep ==
  ASSUME ResultsAreSo, syncer'.results = syncer.results, syncer.pc = "note" <=> syncer'.pc = "note",
         \A n \in Node : errors'[n] = errors[n] /\ inflight'[n] = inflight[n], pulls' = pulls
  PROVE  ResultsAreSo'
<1>1. syncer'.pc # "note" => syncer'.results = {}
  BY DEF ResultsAreSo
<1> SUFFICES ASSUME NEW s \in syncer'.results PROVE (s.pull = 0 /\ s.out = "unreachable") \/ (IsSo(s)' /\ inflight'[s.nick] = 0)
  BY <1>1 DEF ResultsAreSo
<1>2. (s.pull = 0 /\ s.out = "unreachable") \/ (IsSo(s) /\ inflight[s.nick] = 0)
  BY DEF ResultsAreSo
<1> QED
  BY <1>2 DEF IsSo, IsAPull
(* A node whose pulls keep their states.                                   *)
LEMMA OneKeeps ==
  ASSUME NEW n \in Node, OneAtATime(n), inflight'[n] = inflight[n], errors'[n] = errors[n], Open' => Open, Len(pulls'[n]) = Len(pulls[n]),
         inflight[n] \in 0..Len(pulls[n]), Len(pulls[n]) \in Nat,
         \A k \in 1..Len(pulls[n]) : pulls'[n][k].at = pulls[n][k].at /\ pulls'[n][k].out = pulls[n][k].out
  PROVE  OneAtATime(n)'
<1>1. (inflight[n] # 0 => inflight[n] = Len(pulls[n])) /\ \A k \in 1..Len(pulls[n]) : Live(pulls[n][k]) => k = Len(pulls[n]) /\ (Open => k = inflight[n])
  BY DEF OneAtATime
<1>2. (\A k \in 1..Len(pulls[n]) : pulls[n][k].at = "raised" => errors[n] = k)
      /\ (Open /\ inflight[n] # 0 /\ pulls[n][inflight[n]].at = "done" /\ pulls[n][inflight[n]].out = "internal" => errors[n] = inflight[n])
  BY DEF OneAtATime, Now
<1> SUFFICES /\ inflight'[n] # 0 => inflight'[n] = Len(pulls'[n])
             /\ \A k \in 1..Len(pulls'[n]) : Live(pulls'[n][k]) => k = Len(pulls'[n]) /\ (Open' => k = inflight'[n])
             /\ \A k \in 1..Len(pulls'[n]) : pulls'[n][k].at = "raised" => errors'[n] = k
             /\ Open' /\ inflight'[n] # 0 /\ pulls'[n][inflight'[n]].at = "done" /\ pulls'[n][inflight'[n]].out = "internal" => errors'[n] = inflight'[n]
  BY DEF OneAtATime, Now
<1> QED
  BY <1>1, <1>2 DEF Live
(* No pull has ended unnoted, and no note is lost.                         *)
LEMMA MissedKeeps ==
  ASSUME NoneIsMissed, Open' => Open, noted \cup syncer.results \subseteq noted' \cup syncer'.results,
         \A n \in Node : \A k \in 1..Len(pulls'[n]) :
           pulls'[n][k].at = "done" /\ pulls'[n][k].out # "locked" /\ k # inflight'[n]
             => k \in 1..Len(pulls[n]) /\ pulls[n][k].at = "done" /\ pulls[n][k].out # "locked" /\ k # inflight[n]
  PROVE  NoneIsMissed'
<1> SUFFICES ASSUME Open', NEW n \in Node, NEW k \in 1..Len(pulls'[n]), pulls'[n][k].at = "done", pulls'[n][k].out # "locked", k # inflight'[n]
             PROVE  \E r \in noted' \cup syncer'.results : r.nick = n /\ r.pull = k
  BY DEF NoneIsMissed
<1> QED
  BY DEF NoneIsMissed

(* What _note makes of ends that are so.                                   *)
LEMMA NotesAreSo ==
  ASSUME NEW told, NotesWhat(told), TickTypes, NotedIsSo, \A s \in told : (s.pull = 0 /\ s.out = "unreachable") \/ IsSo(s)
  PROVE  /\ \A r \in noted' : IsAPull(r) /\ pulls[r.nick][r.pull].at \in {"done", "dropped"}
                              /\ ((pulls[r.nick][r.pull].out = "internal") <=> (r.state = "internal error")) /\ r.error \in {0, r.pull}
         /\ noted \subseteq noted'
         /\ \A s \in told : s.out # "locked" /\ s.pull # 0 => \E r \in noted' : r.nick = s.nick /\ r.pull = s.pull
         /\ DOMAIN errors' = Node /\ \A n \in Node : errors'[n] \in {0, errors[n]}
         /\ \A n \in Node : errors'[n] # errors[n] => \E s \in told : s.nick = n /\ s.out = "internal" /\ s.pull # 0
<1> DEFINE said == {s \in told : s.out # "locked"}
           Row(s) == [nick |-> s.nick, pull |-> s.pull, state |-> State(s), error |-> IF Takes(s) THEN errors[s.nick] ELSE 0]
<1>1. noted' = noted \cup {Row(s) : s \in {t \in said : t.pull # 0}}
  BY DEF NotesWhat
<1>2. errors' = [n \in Node |-> IF \E s \in {t \in said : t.nick = n} : Takes(s) THEN 0 ELSE errors[n]]
  BY DEF NotesWhat
<1>3. ASSUME NEW s \in told, s.pull # 0
      PROVE  /\ IsAPull(Row(s)) /\ pulls[s.nick][s.pull].at = "done" /\ ((pulls[s.nick][s.pull].out = "internal") <=> (Row(s).state = "internal error"))
             /\ Row(s).error \in {0, s.pull} /\ Row(s).nick = s.nick /\ Row(s).pull = s.pull
  <2>1. IsSo(s)
    BY <1>3
  <2>2. Row(s).nick = s.nick /\ Row(s).pull = s.pull /\ Row(s).state = State(s) /\ Row(s).error = IF Takes(s) THEN errors[s.nick] ELSE 0
    OBVIOUS
  <2>3. IsAPull(s) /\ pulls[s.nick][s.pull].out = s.out /\ pulls[s.nick][s.pull].at = "done" /\ (s.out = "internal" => errors[s.nick] = s.pull)
    BY <2>1 DEF IsSo
  <2>4. s.pull \in 1..Len(pulls[s.nick]) /\ s.nick \in Node /\ pulls[s.nick] \in Seq(Pull)
    BY <2>3 DEF IsAPull, TickTypes
  <2>5. pulls[s.nick][s.pull] \in Pull
    BY <2>4
  <2>6. s.out # "internal error"
    BY <2>3, <2>5, TickAssumption DEF Pull
  <2>7. Takes(s) <=> s.out = "internal"
    BY <1>3, <2>3 DEF Takes
  <2> HIDE DEF Row
  <2>8. (s.out = "internal") <=> (Row(s).state = "internal error")
    <3>1. Row(s).state = IF s.out = "internal" THEN "internal error" ELSE s.out
      BY <2>2, <2>7 DEF State
    <3> QED
      BY <2>6, <3>1
  <2> QED
    BY <2>2, <2>3, <2>4, <2>7, <2>8 DEF IsAPull
<1> HIDE DEF Row
<1>4. \A r \in noted' : IsAPull(r) /\ pulls[r.nick][r.pull].at \in {"done", "dropped"}
                        /\ ((pulls[r.nick][r.pull].out = "internal") <=> (r.state = "internal error")) /\ r.error \in {0, r.pull}
  <2> SUFFICES ASSUME NEW r \in noted' PROVE IsAPull(r) /\ pulls[r.nick][r.pull].at \in {"done", "dropped"}
                        /\ ((pulls[r.nick][r.pull].out = "internal") <=> (r.state = "internal error")) /\ r.error \in {0, r.pull}
    OBVIOUS
  <2>1. CASE r \in noted
    BY <2>1 DEF NotedIsSo
  <2>2. CASE r \notin noted
    <3>1. PICK s \in told : s.pull # 0 /\ r = Row(s)
      BY <1>1, <2>2
    <3> QED
      BY <1>3, <3>1
  <2> QED
    BY <2>1, <2>2
<1>5. \A s \in told : s.out # "locked" /\ s.pull # 0 => \E r \in noted' : r.nick = s.nick /\ r.pull = s.pull
  <2> SUFFICES ASSUME NEW s \in told, s.out # "locked", s.pull # 0 PROVE \E r \in noted' : r.nick = s.nick /\ r.pull = s.pull
    OBVIOUS
  <2>1. Row(s) \in noted'
    BY <1>1
  <2> QED
    BY <1>3, <2>1
<1>6. \A n \in Node : errors'[n] # errors[n] => \E s \in told : s.nick = n /\ s.out = "internal" /\ s.pull # 0
  <2> SUFFICES ASSUME NEW n \in Node, errors'[n] # errors[n] PROVE \E s \in told : s.nick = n /\ s.out = "internal" /\ s.pull # 0
    OBVIOUS
  <2>1. PICK s \in {t \in said : t.nick = n} : Takes(s)
    BY <1>2
  <2>2. s \in told /\ s.nick = n /\ s.out = "internal"
    BY <2>1 DEF Takes
  <2>3. s.pull # 0
    BY <2>2 DEF IsSo, IsAPull, TickTypes
  <2> QED
    BY <2>2, <2>3
<1>7. DOMAIN errors' = Node /\ (\A n \in Node : errors'[n] \in {0, errors[n]}) /\ noted \subseteq noted'
  BY <1>1, <1>2
<1> QED
  BY <1>4, <1>5, <1>6, <1>7

LEMMA TickInvNext == TickInv /\ [TickNext]_tickvars => TickInv'
<1> SUFFICES ASSUME TickTypes, \A n \in Node : OneAtATime(n), ResultsAreSo, NotedIsSo, NoneIsMissed, WatchIsSo, [TickNext]_tickvars PROVE TickInv'
  BY DEF TickInv
<1>0. \A n \in Node : pulls[n] \in Seq(Pull) /\ Len(pulls[n]) \in Nat /\ DOMAIN pulls[n] = 1..Len(pulls[n]) /\ \A k \in 1..Len(pulls[n]) : pulls[n][k] \in Pull
  BY DEF TickTypes
(* Nothing of the pulls, and no place that matters to them.                *)
<1>e. ASSUME UNCHANGED <<pulls, inflight, errors, noted>>, DOMAIN syncer' = DOMAIN syncer, syncer'.gen = syncer.gen, syncer'.results = syncer.results,
             syncer'.pc # "closed" => syncer.pc # "closed", syncer.pc = "note" <=> syncer'.pc = "note",
             DOMAIN config' = DOMAIN config /\ config'.stamp \in Nat /\ DOMAIN watch' = DOMAIN watch /\ watch'.stamp \in Nat, WatchIsSo'
      PROVE  TickInv'
  <2>1. TickTypes'
    BY <1>e DEF TickTypes
  <2>2. \A n \in Node : OneAtATime(n)'
    BY <1>0, <1>e, OneKeeps DEF TickTypes, Open
  <2>3. NotedIsSo'
    BY <1>e, NotedKeeps DEF NotedIsSo, PullsKeep
  <2>4. ResultsAreSo'
    BY <1>e, ResultsKeep
  <2>5. NoneIsMissed'
    BY <1>e, MissedKeeps DEF Open
  <2> QED
    BY <1>e, <2>1, <2>2, <2>3, <2>4, <2>5 DEF TickInv
<1>1. CASE UNCHANGED tickvars
  <2>1. UNCHANGED <<pulls, inflight, errors, noted, syncer, config, watch>>
    BY <1>1 DEF tickvars
  <2>2. WatchIsSo'
    BY <2>1 DEF WatchIsSo
  <2> QED
    BY <1>e, <2>1, <2>2 DEF TickTypes
<1>2. ASSUME NEW set, NEW good \in BOOLEAN, EditsConfig(set, good) PROVE TickInv'
  <2>1. UNCHANGED <<pulls, inflight, errors, noted, syncer, watch>> /\ config' = [pool |-> set, stamp |-> config.stamp + 1, good |-> good]
    BY <1>2 DEF EditsConfig, WatchRest
  <2>2. WatchIsSo'
    BY <2>1 DEF WatchIsSo, TickTypes
  <2> QED
    BY <1>e, <2>1, <2>2 DEF TickTypes
<1>3. CASE Stamps
  <2>1. UNCHANGED <<pulls, inflight, errors, noted, syncer, config>> /\ DOMAIN watch' = DOMAIN watch /\ watch'.at = "stamped" /\ watch'.stamp = config.stamp
    BY <1>3 DEF Stamps, WatchRest, TickTypes
  <2>2. WatchIsSo'
    BY <2>1 DEF WatchIsSo, TickTypes
  <2> QED
    BY <1>e, <2>1, <2>2 DEF TickTypes
<1>4. CASE LoadsConfig
  <2>1. UNCHANGED <<pulls, inflight, errors, noted, syncer, config>> /\ DOMAIN watch' = DOMAIN watch /\ watch'.at = "loaded" /\ watch'.stamp = watch.stamp
        /\ (config.good => watch'.pool = config.pool)
    BY <1>4 DEF LoadsConfig, WatchRest, TickTypes
  <2>2. WatchIsSo'
    BY <2>1 DEF WatchIsSo, TickTypes
  <2> QED
    BY <1>e, <2>1, <2>2 DEF TickTypes
<1>5. CASE Reconfigures
  <2>1. UNCHANGED <<pulls, inflight, errors, noted, config>> /\ DOMAIN watch' = DOMAIN watch /\ watch'.at = "idle" /\ watch'.stamp = watch.stamp /\ watch'.pool = watch.pool
        /\ DOMAIN syncer' = DOMAIN syncer /\ syncer'.gen = syncer.gen /\ syncer'.results = syncer.results /\ syncer'.pc = syncer.pc /\ watch.at = "loaded"
    BY <1>5 DEF Reconfigures, WatchRest, TickTypes
  <2>2. WatchIsSo'
    BY <2>1 DEF WatchIsSo, TickTypes
  <2> QED
    BY <1>e, <2>1, <2>2 DEF TickTypes
<1>6. CASE Begins \/ MapUnreadable
  <2>1. UNCHANGED <<pulls, inflight, errors, noted, config, watch>> /\ syncer.pc \in {"rest", "map"} /\ syncer'.pc \in {"rest", "map"}
        /\ DOMAIN syncer' = DOMAIN syncer /\ syncer'.gen = syncer.gen /\ syncer'.results = syncer.results
    BY <1>6 DEF Begins, MapUnreadable, TickRest, TickTypes
  <2>2. WatchIsSo'
    BY <2>1 DEF WatchIsSo
  <2> QED
    BY <1>e, <2>1, <2>2 DEF TickTypes
<1>7. CASE Forgets
  <2> DEFINE gone == Over \ syncer.config
  <2>1. syncer.pc = "map" /\ syncer'.pc \in {"rest", "dial"} /\ DOMAIN syncer' = DOMAIN syncer /\ syncer'.gen = syncer.gen /\ syncer'.results = syncer.results /\ UNCHANGED <<config, watch, noted>>
    BY <1>7 DEF Forgets, TickRest, TickTypes
  <2>2. pulls' = [n \in Node |-> IF n \in gone THEN [pulls[n] EXCEPT ![inflight[n]] = [pulls[n][inflight[n]] EXCEPT !.at = "dropped"]] ELSE pulls[n]]
    BY <1>7 DEF Forgets
  <2>3. DOMAIN inflight' = Node /\ DOMAIN errors' = Node /\ \A n \in Node : (n \in gone => inflight'[n] = 0 /\ errors'[n] = 0) /\ (n \notin gone => inflight'[n] = inflight[n] /\ errors'[n] = errors[n])
    BY <1>7 DEF Forgets
  <2>4. \A n \in gone : n \in Node /\ inflight[n] \in 1..Len(pulls[n]) /\ pulls[n][inflight[n]].at = "done"
    BY <1>0 DEF Over, Flying, Now, TickTypes
  <2> HIDE DEF gone
  <2>5. ASSUME NEW n \in Node
        PROVE  /\ pulls'[n] \in Seq(Pull) /\ Len(pulls'[n]) = Len(pulls[n])
               /\ \A k \in 1..Len(pulls[n]) : /\ pulls'[n][k].out = pulls[n][k].out
                                              /\ pulls'[n][k].at = IF n \in gone /\ k = inflight[n] THEN "dropped" ELSE pulls[n][k].at
    <3>1. CASE n \in gone
      <4> DEFINE r == [pulls[n][inflight[n]] EXCEPT !.at = "dropped"]
      <4>1. r \in Pull /\ r.at = "dropped" /\ r.out = pulls[n][inflight[n]].out
        <5>2. pulls[n][inflight[n]] \in Pull
          BY <1>0, <2>4, <3>1
        <5> QED
          BY <5>2, PullMoves DEF States
      <4>2. pulls'[n] = [pulls[n] EXCEPT ![inflight[n]] = r]
        BY <2>2, <3>1
      <4> HIDE DEF r
      <4> QED
        BY <1>0, <2>4, <3>1, <4>1, <4>2
    <3>2. CASE n \notin gone
      BY <1>0, <2>2, <3>2
    <3> QED
      BY <3>1, <3>2
  <2>6. TickTypes'
    BY <2>1, <2>2, <2>3, <2>5 DEF TickTypes
  <2>7. \A n \in Node : OneAtATime(n)'
    <3> SUFFICES ASSUME NEW n \in Node PROVE OneAtATime(n)'
      OBVIOUS
    <3>1. CASE n \in gone
      BY <1>0, <2>1, <2>3, <2>4, <2>5, <3>1 DEF OneAtATime, Open, Live, Now
    <3>2. CASE n \notin gone
      <4>1. inflight'[n] = inflight[n] /\ errors'[n] = errors[n] /\ (Open' => Open) /\ inflight[n] \in 0..Len(pulls[n]) /\ Len(pulls'[n]) = Len(pulls[n]) /\ Len(pulls[n]) \in Nat
        BY <1>0, <2>1, <2>3, <2>5, <3>2 DEF Open, TickTypes
      <4>2. \A k \in 1..Len(pulls[n]) : pulls'[n][k].at = pulls[n][k].at /\ pulls'[n][k].out = pulls[n][k].out
        BY <2>5, <3>2
      <4> QED
        BY <4>1, <4>2, OneKeeps
    <3> QED
      BY <3>1, <3>2
  <2>8. ResultsAreSo'
    BY <2>1, NoResults DEF ResultsAreSo
  <2>9. NotedIsSo'
    <3>1. PullsKeep
      BY <1>0, <2>5 DEF PullsKeep
    <3> QED
      BY <2>1, <3>1, NotedKeeps DEF NotedIsSo
  <2>10. NoneIsMissed'
    <3>1. \A n \in Node : \A k \in 1..Len(pulls'[n]) : pulls'[n][k].at = "done" => pulls[n][k].at = "done" /\ (k = inflight[n] => n \notin gone)
      BY <1>0, <2>5
    <3> QED
      BY <1>0, <2>1, <2>3, <2>5, <3>1, MissedKeeps DEF Open
  <2> QED
    BY <2>1, <2>6, <2>7, <2>8, <2>9, <2>10 DEF TickInv, WatchIsSo
<1>8. CASE Dials
  <2> DEFINE due == syncer.config \ (Flying \ Over)
             first == [at |-> "queued", age |-> 0, gen |-> Executor, out |-> "none"]
             told == {Told(n) : n \in due \cap Flying}
  <2>1. syncer.pc = "dial" /\ syncer'.pc = "wait" /\ DOMAIN syncer' = DOMAIN syncer /\ syncer'.gen = Executor /\ syncer'.results = syncer.results /\ UNCHANGED <<config, watch>> /\ NotesWhat(told)
    BY <1>8 DEF Dials, TickRest, TickTypes
  <2>2. \A n \in Node : pulls'[n] = IF n \in due THEN Append(pulls[n], first) ELSE pulls[n]
    BY <1>8 DEF Dials
  <2>3. DOMAIN pulls' = Node /\ DOMAIN inflight' = Node /\ \A n \in Node : inflight'[n] = IF n \in due THEN Len(pulls[n]) + 1 ELSE inflight[n]
    BY <1>8 DEF Dials
  <2>4. Executor \in Nat /\ first \in Pull
    BY DEF Executor, TickTypes, Pull
  <2>5. \A n \in Node \cap due : \A k \in 1..Len(pulls[n]) : ~Live(pulls[n][k])
    BY <1>0, <2>1 DEF OneAtATime, Open, Flying, Over, Now, Live, TickTypes
  <2>6. \A n \in Flying \cap due : Now(n).at = "done" /\ IsSo(Told(n)) /\ Told(n).pull # 0 /\ Told(n).nick = n /\ Told(n).out = Now(n).out /\ Told(n).pull = inflight[n] /\ n \in Node
    <3> SUFFICES ASSUME NEW n \in Flying \cap due PROVE Now(n).at = "done" /\ IsSo(Told(n)) /\ Told(n).pull # 0 /\ Told(n).nick = n /\ Told(n).out = Now(n).out /\ Told(n).pull = inflight[n] /\ n \in Node
      OBVIOUS
    <3>1. n \in Node /\ inflight[n] # 0 /\ Now(n).at = "done" /\ inflight[n] \in 1..Len(pulls[n])
      BY <1>0 DEF Flying, Over, TickTypes
    <3>2. Told(n).pull = inflight[n] /\ Told(n).nick = n /\ Told(n).out = Now(n).out
      BY DEF Told
    <3> QED
      BY <2>1, <3>1, <3>2 DEF IsSo, IsAPull, OneAtATime, Open, Now
  <2>7. \A s \in told : IsSo(s)
    BY <2>6
  <2> HIDE DEF due, first
  <2>8. ASSUME NEW n \in Node
        PROVE  /\ pulls'[n] \in Seq(Pull) /\ Len(pulls'[n]) = (IF n \in due THEN Len(pulls[n]) + 1 ELSE Len(pulls[n]))
               /\ \A k \in 1..Len(pulls[n]) : pulls'[n][k] = pulls[n][k]
               /\ n \in due => pulls'[n][Len(pulls[n]) + 1] = first
    <3>1. CASE n \in due
      <4>1. pulls'[n] = Append(pulls[n], first)
        BY <2>2, <3>1
      <4>2. pulls[n] \in Seq(Pull) /\ Len(pulls[n]) \in Nat
        BY <1>0
      <4>3. Append(pulls[n], first) \in Seq(Pull) /\ Len(Append(pulls[n], first)) = Len(pulls[n]) + 1 /\ Append(pulls[n], first)[Len(pulls[n]) + 1] = first
            /\ \A k \in 1..Len(pulls[n]) : Append(pulls[n], first)[k] = pulls[n][k]
        BY <2>4, <4>2, AppendProperties
      <4> QED
        BY <3>1, <4>1, <4>3
    <3>2. CASE n \notin due
      BY <1>0, <2>2, <3>2
    <3> QED
      BY <3>1, <3>2
  <2>9. /\ \A r \in noted' : IsAPull(r) /\ pulls[r.nick][r.pull].at \in {"done", "dropped"}
                              /\ ((pulls[r.nick][r.pull].out = "internal") <=> (r.state = "internal error")) /\ r.error \in {0, r.pull}
        /\ noted \subseteq noted'
        /\ \A s \in told : s.out # "locked" /\ s.pull # 0 => \E r \in noted' : r.nick = s.nick /\ r.pull = s.pull
        /\ DOMAIN errors' = Node /\ \A n \in Node : errors'[n] \in {0, errors[n]}
        /\ \A n \in Node : errors'[n] # errors[n] => \E s \in told : s.nick = n /\ s.out = "internal" /\ s.pull # 0
    <3>1. \A s \in told : (s.pull = 0 /\ s.out = "unreachable") \/ IsSo(s)
      BY <2>7
    <3> HIDE DEF told
    <3> QED
      BY <2>1, <3>1, NotesAreSo
  <2>10. \A n \in Node : errors'[n] # errors[n] => n \in due
    <3> SUFFICES ASSUME NEW n \in Node, errors'[n] # errors[n] PROVE n \in due
      OBVIOUS
    <3>1. PICK s \in told : s.nick = n
      BY <2>9
    <3>2. PICK m \in due \cap Flying : s = Told(m)
      BY <3>1
    <3> QED
      BY <2>6, <3>1, <3>2
  <2>11. TickTypes'
    <3>1. \A n \in Node : inflight'[n] \in 0..Len(pulls'[n]) /\ errors'[n] \in Nat
      <4> SUFFICES ASSUME NEW n \in Node PROVE inflight'[n] \in 0..Len(pulls'[n]) /\ errors'[n] \in Nat
        OBVIOUS
      <4>1. inflight[n] \in 0..Len(pulls[n]) /\ Len(pulls[n]) \in Nat /\ errors[n] \in Nat
        BY <1>0 DEF TickTypes
      <4>2. errors'[n] \in {0, errors[n]}
        BY <2>9
      <4> QED
        BY <2>3, <2>8, <4>1, <4>2
    <3> QED
      BY <2>1, <2>3, <2>4, <2>8, <2>9, <3>1 DEF TickTypes
  <2>12. \A n \in Node : OneAtATime(n)'
    <3> SUFFICES ASSUME NEW n \in Node PROVE OneAtATime(n)'
      OBVIOUS
    <3>1. CASE n \in due
      <4>1. inflight'[n] = Len(pulls'[n]) /\ Len(pulls'[n]) = Len(pulls[n]) + 1 /\ Len(pulls[n]) \in Nat /\ pulls'[n][Len(pulls[n]) + 1].at = "queued"
        BY <1>0, <2>3, <2>8, <3>1 DEF first
      <4>2. \A k \in 1..Len(pulls'[n]) : k # Len(pulls'[n]) => pulls'[n][k] = pulls[n][k] /\ ~Live(pulls[n][k])
        BY <2>5, <2>8, <3>1, <4>1
      <4> QED
        BY <4>1, <4>2 DEF OneAtATime, Live, Now
    <3>2. CASE n \notin due
      <4>1. errors'[n] = errors[n] /\ inflight'[n] = inflight[n] /\ pulls'[n] = pulls[n]
        BY <2>2, <2>3, <2>10, <3>2
      <4> QED
        BY <2>1, <4>1 DEF OneAtATime, Open, Now
    <3> QED
      BY <3>1, <3>2
  <2>13. ResultsAreSo'
    BY <2>1, NoResults DEF ResultsAreSo
  <2>14. NotedIsSo'
    <3>1. PullsKeep
      BY <1>0, <2>8 DEF PullsKeep
    <3> QED
      BY <2>9, <3>1, NotedKeeps
  <2>15. NoneIsMissed'
    <3> SUFFICES ASSUME NEW n \in Node, NEW k \in 1..Len(pulls'[n]), pulls'[n][k].at = "done", pulls'[n][k].out # "locked", k # inflight'[n] PROVE \E r \in noted' : r.nick = n /\ r.pull = k
      BY DEF NoneIsMissed
    <3>1. k \in 1..Len(pulls[n]) /\ pulls'[n][k] = pulls[n][k]
      BY <1>0, <2>3, <2>8
    <3>2. CASE k # inflight[n]
      <4>1. syncer.results = {} /\ Open
        BY <2>1 DEF ResultsAreSo, Open
      <4>2. PICK r \in noted \cup syncer.results : r.nick = n /\ r.pull = k
        BY <3>1, <3>2, <4>1 DEF NoneIsMissed
      <4> QED
        BY <2>9, <4>1, <4>2
    <3>3. CASE k = inflight[n]
      <4>1. n \in due /\ n \in Flying
        BY <2>3, <3>1, <3>3 DEF Flying
      <4>2. Told(n) \in told
        BY <4>1
      <4> QED
        <5>1. Told(n).out = pulls[n][k].out /\ Told(n).pull = k /\ Told(n).nick = n /\ Told(n).pull # 0
          BY <2>6, <3>3, <4>1 DEF Now
        <5>2. Told(n).out # "locked"
          BY <3>1, <5>1
        <5> HIDE DEF told
        <5> QED
          <6>1. \A s \in told : s.out # "locked" /\ s.pull # 0 => \E r \in noted' : r.nick = s.nick /\ r.pull = s.pull
            BY <2>9
          <6>2. \E r \in noted' : r.nick = Told(n).nick /\ r.pull = Told(n).pull
            BY <4>2, <5>1, <5>2, <6>1
          <6> QED
            BY <5>1, <6>2
    <3> QED
      BY <3>2, <3>3
  <2> QED
    BY <2>1, <2>11, <2>12, <2>13, <2>14, <2>15 DEF TickInv, WatchIsSo
<1>9. CASE Collects
  <2> DEFINE over == Over \cap syncer.config
             stale == {n \in syncer.config \ over : Now(n).age > StaleAge}
  <2>1. syncer.pc = "wait" /\ syncer'.pc = "note" /\ DOMAIN syncer' = DOMAIN syncer /\ syncer'.gen = syncer.gen /\ UNCHANGED <<config, watch, pulls, errors, noted>>
        /\ syncer'.results = {Told(n) : n \in over} \cup {[nick |-> n, out |-> "unreachable", pull |-> 0] : n \in stale}
    BY <1>9 DEF Collects, TickRest, TickTypes
  <2>2. DOMAIN inflight' = Node /\ \A n \in Node : inflight'[n] = IF n \in over THEN 0 ELSE inflight[n]
    BY <1>9 DEF Collects
  <2>3. \A n \in over : n \in Node /\ IsSo(Told(n)) /\ Told(n).pull = inflight[n] /\ Told(n).nick = n
    <3> SUFFICES ASSUME NEW n \in over PROVE n \in Node /\ IsSo(Told(n)) /\ Told(n).pull = inflight[n] /\ Told(n).nick = n
      OBVIOUS
    <3>1. n \in Node /\ inflight[n] # 0 /\ Now(n).at = "done" /\ inflight[n] \in 1..Len(pulls[n])
      BY <1>0 DEF Flying, Over, TickTypes
    <3>2. Told(n).pull = inflight[n] /\ Told(n).nick = n /\ Told(n).out = Now(n).out
      BY DEF Told
    <3> QED
      BY <2>1, <3>1, <3>2 DEF IsSo, IsAPull, OneAtATime, Open, Now
  <2>4. TickTypes'
    BY <2>1, <2>2, <1>0 DEF TickTypes
  <2>5. \A n \in Node : OneAtATime(n)'
    <3> SUFFICES ASSUME NEW n \in Node PROVE OneAtATime(n)'
      OBVIOUS
    <3>1. CASE n \in over
      <4>1. \A k \in 1..Len(pulls[n]) : ~Live(pulls[n][k])
        BY <1>0, <2>1, <3>1 DEF OneAtATime, Open, Live, Over, Flying, Now
      <4> QED
        BY <2>1, <2>2, <3>1, <4>1 DEF OneAtATime, Open, Live, Now
    <3>2. CASE n \notin over
      BY <2>1, <2>2, <3>2 DEF OneAtATime, Open, Now
    <3> QED
      BY <3>1, <3>2
  <2>6. ResultsAreSo'
    <3> SUFFICES ASSUME NEW s \in syncer'.results PROVE (s.pull = 0 /\ s.out = "unreachable") \/ (IsSo(s)' /\ inflight'[s.nick] = 0)
      BY <2>1 DEF ResultsAreSo
    <3>1. CASE \E n \in over : s = Told(n)
      BY <2>1, <2>2, <2>3, <3>1 DEF IsSo, IsAPull
    <3>2. CASE \E n \in stale : s = [nick |-> n, out |-> "unreachable", pull |-> 0]
      BY <3>2
    <3> QED
      BY <2>1, <3>1, <3>2
  <2>7. NotedIsSo'
    <3>1. PullsKeep
      BY <1>0, <2>1 DEF PullsKeep
    <3> QED
      BY <2>1, <3>1, NotedKeeps DEF NotedIsSo
  <2>8. NoneIsMissed'
    <3> SUFFICES ASSUME NEW n \in Node, NEW k \in 1..Len(pulls[n]), pulls[n][k].at = "done", pulls[n][k].out # "locked", k # inflight'[n]
                 PROVE  \E r \in noted \cup syncer'.results : r.nick = n /\ r.pull = k
      BY <2>1 DEF NoneIsMissed
    <3>1. CASE k # inflight[n]
      BY <2>1, <3>1 DEF NoneIsMissed, Open, ResultsAreSo
    <3>2. CASE k = inflight[n]
      <4>1. n \in over
        BY <2>2, <3>2
      <4>2. Told(n) \in syncer'.results
        BY <2>1, <4>1
      <4> QED
        BY <2>3, <3>2, <4>1, <4>2
    <3> QED
      BY <3>1, <3>2
  <2> QED
    BY <2>1, <2>4, <2>5, <2>6, <2>7, <2>8 DEF TickInv, WatchIsSo
<1>10. CASE NotesAll
  <2>1. syncer.pc = "note" /\ syncer'.pc = "rest" /\ DOMAIN syncer' = DOMAIN syncer /\ syncer'.gen = syncer.gen /\ syncer'.results = {} /\ UNCHANGED <<config, watch, inflight>> /\ NotesWhat(syncer.results)
    BY <1>10 DEF NotesAll, TickRest, TickTypes
  <2>2. DOMAIN pulls' = Node /\ \A n \in Node : pulls'[n] = [k \in DOMAIN pulls[n] |-> IF Live(pulls[n][k]) /\ pulls[n][k].age <= StaleAge THEN [pulls[n][k] EXCEPT !.age = pulls[n][k].age + 1] ELSE pulls[n][k]]
    BY <1>10 DEF NotesAll
  <2>3. ASSUME NEW n \in Node
        PROVE  pulls'[n] \in Seq(Pull) /\ Len(pulls'[n]) = Len(pulls[n]) /\ \A k \in 1..Len(pulls[n]) : pulls'[n][k].at = pulls[n][k].at /\ pulls'[n][k].out = pulls[n][k].out
    <3>1. \A p \in Pull : [p EXCEPT !.age = p.age + 1] \in Pull /\ [p EXCEPT !.age = p.age + 1].at = p.at /\ [p EXCEPT !.age = p.age + 1].out = p.out
      BY PullAges
    <3>2. pulls'[n] \in [1..Len(pulls[n]) -> Pull]
      BY <1>0, <2>2, <3>1
    <3>3. pulls'[n] \in Seq(Pull) /\ Len(pulls'[n]) = Len(pulls[n])
      BY <1>0, <3>2, SameLength
    <3>4. ASSUME NEW k \in 1..Len(pulls[n]) PROVE pulls'[n][k].at = pulls[n][k].at /\ pulls'[n][k].out = pulls[n][k].out
      <4>1. pulls[n][k] \in Pull
        BY <1>0
      <4>2. pulls'[n][k] = pulls[n][k] \/ pulls'[n][k] = [pulls[n][k] EXCEPT !.age = pulls[n][k].age + 1]
        BY <1>0, <2>2
      <4> QED
        BY <3>1, <4>1, <4>2
    <3> QED
      BY <3>3, <3>4
  <2>4. /\ \A r \in noted' : IsAPull(r) /\ pulls[r.nick][r.pull].at \in {"done", "dropped"}
                              /\ ((pulls[r.nick][r.pull].out = "internal") <=> (r.state = "internal error")) /\ r.error \in {0, r.pull}
        /\ noted \subseteq noted'
        /\ \A s \in syncer.results : s.out # "locked" /\ s.pull # 0 => \E r \in noted' : r.nick = s.nick /\ r.pull = s.pull
        /\ DOMAIN errors' = Node /\ \A n \in Node : errors'[n] \in {0, errors[n]}
        /\ \A n \in Node : errors'[n] # errors[n] => \E s \in syncer.results : s.nick = n /\ s.out = "internal" /\ s.pull # 0
    <3>1. \A s \in syncer.results : (s.pull = 0 /\ s.out = "unreachable") \/ IsSo(s)
      BY DEF ResultsAreSo
    <3>2. NotesWhat(syncer.results)
      BY <2>1
    <3> QED
      BY <3>1, <3>2, NotesAreSo, ZenonT(60)
  <2>5. \A n \in Node : errors'[n] # errors[n] => inflight[n] = 0
    <3> SUFFICES ASSUME NEW n \in Node, errors'[n] # errors[n] PROVE inflight[n] = 0
      OBVIOUS
    <3>1. PICK s \in syncer.results : s.nick = n /\ s.pull # 0
      BY <2>4
    <3> QED
      BY <3>1 DEF ResultsAreSo
  <2>6. TickTypes'
    <3>1. \A n \in Node : inflight[n] \in 0..Len(pulls'[n]) /\ errors'[n] \in Nat
      <4> SUFFICES ASSUME NEW n \in Node PROVE inflight[n] \in 0..Len(pulls'[n]) /\ errors'[n] \in Nat
        OBVIOUS
      <4>1. inflight[n] \in 0..Len(pulls[n]) /\ Len(pulls'[n]) = Len(pulls[n]) /\ errors[n] \in Nat
        BY <2>3 DEF TickTypes
      <4>2. errors'[n] \in {0, errors[n]}
        BY <2>4
      <4> QED
        BY <4>1, <4>2
    <3> QED
      BY <2>1, <2>2, <2>3, <2>4, <3>1 DEF TickTypes
  <2>7. \A n \in Node : OneAtATime(n)'
    <3> SUFFICES ASSUME NEW n \in Node PROVE OneAtATime(n)'
      OBVIOUS
    <3>1. inflight[n] = 0 => \A k \in 1..Len(pulls[n]) : ~Live(pulls[n][k])
      BY <2>1 DEF OneAtATime, Open
    <3>2. \A k \in 1..Len(pulls[n]) : (Live(pulls'[n][k]) <=> Live(pulls[n][k])) /\ (pulls'[n][k].at = "raised" => Live(pulls[n][k]))
      BY <2>3 DEF Live
    <3>3. inflight[n] # 0 => errors'[n] = errors[n] /\ inflight[n] \in 1..Len(pulls[n])
      BY <2>5, <1>0 DEF TickTypes
    <3> QED
      BY <2>1, <2>3, <3>1, <3>2, <3>3 DEF OneAtATime, Open, Now
  <2>8. ResultsAreSo'
    BY <2>1, NoResults
  <2>9. NotedIsSo'
    <3>1. PullsKeep
      BY <1>0, <2>3 DEF PullsKeep
    <3> QED
      BY <2>4, <3>1, NotedKeeps
  <2>10. NoneIsMissed'
    <3> SUFFICES ASSUME NEW n \in Node, NEW k \in 1..Len(pulls[n]), pulls[n][k].at = "done", pulls[n][k].out # "locked", k # inflight[n] PROVE \E r \in noted' : r.nick = n /\ r.pull = k
      BY <2>1, <2>3 DEF NoneIsMissed
    <3>1. PICK r \in noted \cup syncer.results : r.nick = n /\ r.pull = k
      BY <2>1 DEF NoneIsMissed, Open
    <3>2. CASE r \in noted
      BY <2>4, <3>1, <3>2
    <3>3. CASE r \in syncer.results
      <4>1. r.pull # 0 /\ r.nick = n /\ r.pull = k
        BY <3>1
      <4>2. pulls[n][k].out = r.out
        BY <3>3, <4>1 DEF ResultsAreSo, IsSo
      <4> QED
        BY <2>4, <3>3, <4>1, <4>2
    <3> QED
      BY <3>2, <3>3
  <2> QED
    BY <2>1, <2>6, <2>7, <2>8, <2>9, <2>10 DEF TickInv, WatchIsSo
<1>11. CASE Closes
  <2>1. syncer.pc = "rest" /\ syncer'.pc = "closed" /\ DOMAIN syncer' = DOMAIN syncer /\ syncer'.gen = syncer.gen /\ syncer'.results = syncer.results /\ UNCHANGED <<config, watch, errors, noted>>
    BY <1>11 DEF Closes, TickRest, TickTypes
  <2>2. DOMAIN pulls' = Node /\ \A n \in Node : pulls'[n] = [k \in DOMAIN pulls[n] |-> IF pulls[n][k].at = "queued" /\ pulls[n][k].gen = syncer.gen THEN [pulls[n][k] EXCEPT !.at = "cancelled"] ELSE pulls[n][k]]
    BY <1>11 DEF Closes
  <2>3. DOMAIN inflight' = Node /\ \A n \in Node : inflight'[n] = 0
    BY <1>11 DEF Closes
  <2>4. ASSUME NEW n \in Node
        PROVE  pulls'[n] \in Seq(Pull) /\ Len(pulls'[n]) = Len(pulls[n])
               /\ \A k \in 1..Len(pulls[n]) : pulls'[n][k].out = pulls[n][k].out /\ (pulls'[n][k].at = pulls[n][k].at \/ (pulls[n][k].at = "queued" /\ pulls'[n][k].at = "cancelled"))
    <3>1. \A p \in Pull : [p EXCEPT !.at = "cancelled"] \in Pull /\ [p EXCEPT !.at = "cancelled"].at = "cancelled" /\ [p EXCEPT !.at = "cancelled"].out = p.out
      BY PullMoves DEF States
    <3>2. pulls'[n] \in [1..Len(pulls[n]) -> Pull]
      BY <1>0, <2>2, <3>1
    <3>3. pulls'[n] \in Seq(Pull) /\ Len(pulls'[n]) = Len(pulls[n])
      BY <1>0, <3>2, SameLength
    <3>4. ASSUME NEW k \in 1..Len(pulls[n])
          PROVE  pulls'[n][k].out = pulls[n][k].out /\ (pulls'[n][k].at = pulls[n][k].at \/ (pulls[n][k].at = "queued" /\ pulls'[n][k].at = "cancelled"))
      <4>1. pulls[n][k] \in Pull
        BY <1>0
      <4>2. pulls'[n][k] = pulls[n][k] \/ (pulls[n][k].at = "queued" /\ pulls'[n][k] = [pulls[n][k] EXCEPT !.at = "cancelled"])
        BY <1>0, <2>2
      <4> QED
        BY <3>1, <4>1, <4>2
    <3> QED
      BY <3>3, <3>4
  <2>5. TickTypes'
    BY <1>0, <2>1, <2>2, <2>3, <2>4 DEF TickTypes
  <2>6. \A n \in Node : OneAtATime(n)'
    BY <2>1, <2>3, <2>4 DEF OneAtATime, Open, Live
  <2>7. ResultsAreSo' /\ NoneIsMissed'
    BY <2>1, NoResults DEF ResultsAreSo, NoneIsMissed, Open
  <2>8. NotedIsSo'
    <3>1. PullsKeep
      BY <1>0, <2>4 DEF PullsKeep
    <3> QED
      BY <2>1, <3>1, NotedKeeps DEF NotedIsSo
  <2> QED
    BY <2>1, <2>5, <2>6, <2>7, <2>8 DEF TickInv, WatchIsSo
(* A worker's step on its own pull.                                        *)
<1>w. ASSUME NEW n \in Node, NEW k \in 1..Len(pulls[n]), Live(pulls[n][k]), NEW r \in Pull, pulls' = [pulls EXCEPT ![n] = [pulls[n] EXCEPT ![k] = r]], WorkerRest,
             r.at \in {"running", "raised", "done"}, NEW x \in Nat, DOMAIN errors' = Node, errors'[n] = x, \A m \in Node : m # n => errors'[m] = errors[m],
             r.at = "raised" \/ (r.at = "done" /\ r.out = "internal") => x = k
      PROVE  TickInv'
  <2>0. UNCHANGED <<syncer, inflight, noted, config, watch>>
    BY <1>w DEF WorkerRest
  <2>1. DOMAIN pulls' = Node /\ DOMAIN errors' = Node /\ errors'[n] = x /\ \A m \in Node : m # n => pulls'[m] = pulls[m] /\ errors'[m] = errors[m]
    BY <1>w DEF TickTypes
  <2>2. pulls'[n] = [pulls[n] EXCEPT ![k] = r]
    BY <1>w DEF TickTypes
  <2>3. pulls'[n] \in Seq(Pull) /\ Len(pulls'[n]) = Len(pulls[n]) /\ \A j \in 1..Len(pulls[n]) : pulls'[n][j] = IF j = k THEN r ELSE pulls[n][j]
    BY <1>0, <1>w, <2>2, ExceptSeq
  <2>4. TickTypes'
    <3>1. \A m \in Node : pulls'[m] \in Seq(Pull) /\ Len(pulls'[m]) = Len(pulls[m]) /\ errors'[m] \in Nat
      BY <2>1, <2>3, <1>0, <1>w DEF TickTypes
    <3> QED
      BY <2>0, <2>1, <3>1 DEF TickTypes
  <2>5. k = Len(pulls[n]) /\ (Open => k = inflight[n])
    BY <1>w DEF OneAtATime
  <2>6. OneAtATime(n)'
    BY <1>w, <1>0, <2>0, <2>1, <2>3, <2>5 DEF OneAtATime, Open, Live, Now
  <2>7. \A m \in Node : OneAtATime(m)'
    BY <2>0, <2>1, <2>6, SMTT(30) DEF OneAtATime, Open, Now
  <2>8. \A s : IsAPull(s) => IsAPull(s)' /\ (pulls[s.nick][s.pull].at \in {"done", "dropped"} => pulls'[s.nick][s.pull] = pulls[s.nick][s.pull])
    BY <1>w, <2>1, <2>3 DEF IsAPull, Live
  <2>9. ResultsAreSo'
    <3> SUFFICES ASSUME NEW s \in syncer.results, syncer.pc = "note", IsSo(s), inflight[s.nick] = 0 PROVE IsSo(s)'
      BY <2>0 DEF ResultsAreSo
    <3>1. s.nick # n
      BY <1>w, <2>5 DEF Open
    <3> QED
      BY <2>1, <2>8, <3>1 DEF IsSo, IsAPull
  <2>10. NotedIsSo'
    <3>1. PullsKeep
      BY <1>0, <1>w, <2>1, <2>3 DEF PullsKeep, Live
    <3> QED
      BY <2>0, <3>1, NotedKeeps DEF NotedIsSo
  <2>11. NoneIsMissed'
    <3> SUFFICES ASSUME Open, NEW m \in Node, NEW j \in 1..Len(pulls'[m]), pulls'[m][j].at = "done", pulls'[m][j].out # "locked", j # inflight[m]
                 PROVE  \E q \in noted \cup syncer.results : q.nick = m /\ q.pull = j
      BY <2>0 DEF NoneIsMissed, Open
    <3>1. j \in 1..Len(pulls[m]) /\ pulls'[m][j] = pulls[m][j]
      BY <2>1, <2>3, <2>5
    <3> QED
      BY <3>1 DEF NoneIsMissed
  <2> QED
    BY <2>0, <2>4, <2>7, <2>9, <2>10, <2>11 DEF TickInv, WatchIsSo
<1>12. ASSUME NEW n \in Node, NEW k \in DOMAIN pulls[n], StartsPull(n, k) PROVE TickInv'
  <2>1. pulls' = [pulls EXCEPT ![n] = [pulls[n] EXCEPT ![k] = [pulls[n][k] EXCEPT !.at = "running"]]] /\ WorkerRest /\ Live(pulls[n][k])
    BY <1>12 DEF StartsPull, Live
  <2>3. DOMAIN errors' = Node /\ errors'[n] = 0 /\ \A m \in Node : m # n => errors'[m] = errors[m]
    BY <1>12 DEF StartsPull, TickTypes
  <2>2. k \in 1..Len(pulls[n]) /\ [pulls[n][k] EXCEPT !.at = "running"] \in Pull /\ [pulls[n][k] EXCEPT !.at = "running"].at = "running"
    BY <1>0, <1>12, PullMoves DEF States
  <2> QED
    BY <1>w, <2>1, <2>2, <2>3
<1>13. ASSUME NEW n \in Node, NEW k \in DOMAIN pulls[n], Raises(n, k) PROVE TickInv'
  <2>1. pulls' = [pulls EXCEPT ![n] = [pulls[n] EXCEPT ![k] = [pulls[n][k] EXCEPT !.at = "raised"]]] /\ WorkerRest /\ Live(pulls[n][k])
    BY <1>13 DEF Raises, Live
  <2>3. DOMAIN errors' = Node /\ errors'[n] = k /\ \A m \in Node : m # n => errors'[m] = errors[m]
    BY <1>13 DEF Raises, TickTypes
  <2>4. k \in Nat
    BY <1>0, <1>13
  <2>2. k \in 1..Len(pulls[n]) /\ [pulls[n][k] EXCEPT !.at = "raised"] \in Pull /\ [pulls[n][k] EXCEPT !.at = "raised"].at = "raised"
    BY <1>0, <1>13, PullMoves DEF States
  <2> QED
    BY <1>w, <2>1, <2>2, <2>3, <2>4
<1>14. ASSUME NEW n \in Node, NEW k \in DOMAIN pulls[n], NEW o \in Outcomes, Ends(n, k, o) PROVE TickInv'
  <2> DEFINE r == [pulls[n][k] EXCEPT !.at = "done", !.out = o]
  <2>1. pulls' = [pulls EXCEPT ![n] = [pulls[n] EXCEPT ![k] = r]] /\ errors' = errors /\ WorkerRest /\ Live(pulls[n][k]) /\ (o = "internal" => pulls[n][k].at = "raised")
    BY <1>14 DEF Ends, Live
  <2>2. k \in 1..Len(pulls[n]) /\ pulls[n][k] \in Pull
    BY <1>0, <1>14
  <2>3. r \in Pull /\ r.at = "done" /\ r.out = o
    BY <2>2, PullEnds
  <2>4. DOMAIN errors' = Node /\ errors'[n] = errors[n] /\ errors[n] \in Nat /\ \A m \in Node : m # n => errors'[m] = errors[m]
    BY <2>1 DEF TickTypes
  <2>5. o = "internal" => errors[n] = k
    BY <2>1, <2>2 DEF OneAtATime
  <2> HIDE DEF r
  <2>6. r.at \in {"running", "raised", "done"} /\ (r.at = "raised" \/ (r.at = "done" /\ r.out = "internal") => errors[n] = k)
    BY <2>3, <2>5
  <2>7. pulls' = [pulls EXCEPT ![n] = [pulls[n] EXCEPT ![k] = r]] /\ WorkerRest /\ Live(pulls[n][k]) /\ r \in Pull
    BY <2>1, <2>3
  <2> QED
    BY <1>w, <2>2, <2>4, <2>6, <2>7
<1> QED
  BY <1>1, <1>2, <1>3, <1>4, <1>5, <1>6, <1>7, <1>8, <1>9, <1>10, <1>11, <1>12, <1>13, <1>14 DEF TickNext

LEMMA TickInvInit == TickInit => TickInv
<1> SUFFICES ASSUME NEW s \in TickSetups, TickStart(s) PROVE TickInv
  BY DEF TickInit
<1>1. \A n \in Node : pulls[n] = <<>> /\ inflight[n] = 0 /\ errors[n] = 0
  BY DEF TickStart
<1>2. TickTypes
  BY <1>1 DEF TickStart, TickTypes
<1>3. (\A n \in Node : OneAtATime(n)) /\ NoneIsMissed
  BY <1>1 DEF OneAtATime, NoneIsMissed
<1>4. ResultsAreSo /\ NotedIsSo /\ WatchIsSo
  BY DEF TickStart, ResultsAreSo, NotedIsSo, WatchIsSo
<1> QED
  BY <1>2, <1>3, <1>4 DEF TickInv

(* A node is never dialled while a pull of it runs, a pull that ended is   *)
(* noted unless it was dropped with its node, and a worker's bug under its *)
(* own pull (tick, _note, _sync_node); and a config that the watch has     *)
(* seen is the one in force (ConfigWatch): for any nodes, pools, threads   *)
(* and edits.                                                              *)
THEOREM TicksAreAccountedHolds == TickSpec => []TicksAreAccounted
<1>1. TickInv => TicksAreAccounted
  <2> SUFFICES ASSUME TickInv PROVE PullsAreAccounted /\ EditsTakeEffect
    BY DEF TicksAreAccounted
  <2>0. \A n \in Node : Len(pulls[n]) \in Nat /\ DOMAIN pulls[n] = 1..Len(pulls[n])
    BY DEF TickInv, TickTypes
  <2>1. \A n \in Node : Cardinality({k \in DOMAIN pulls[n] : Live(pulls[n][k])}) <= 1
    <3> SUFFICES ASSUME NEW n \in Node PROVE Cardinality({k \in DOMAIN pulls[n] : Live(pulls[n][k])}) <= 1
      OBVIOUS
    <3> DEFINE L == {k \in DOMAIN pulls[n] : Live(pulls[n][k])}
    <3>1. L \subseteq {Len(pulls[n])}
      BY <2>0 DEF TickInv, OneAtATime
    <3> HIDE DEF L
    <3>2. L = {} => Cardinality(L) <= 1
      BY FS_EmptySet
    <3>3. L = {Len(pulls[n])} => Cardinality(L) <= 1
      <4>1. Cardinality({Len(pulls[n])}) = 1
        BY FS_Singleton
      <4> QED
        BY <4>1
    <3>4. Cardinality(L) <= 1
      BY <3>1, <3>2, <3>3
    <3> QED
      BY <3>4 DEF L
  <2>2. syncer.pc \in {"rest", "map"} => \A n \in Node : \A k \in DOMAIN pulls[n] :
          pulls[n][k].at = "done" /\ pulls[n][k].out # "locked" /\ k # inflight[n] => \E r \in noted : r.nick = n /\ r.pull = k
    BY <2>0 DEF TickInv, NoneIsMissed, Open, ResultsAreSo
  <2>3. \A r \in noted : (pulls[r.nick][r.pull].out = "internal") = (r.state = "internal error") /\ r.error \in {0, r.pull}
    BY DEF TickInv, NotedIsSo
  <2>4. EditsTakeEffect
    BY DEF TickInv, WatchIsSo, EditsTakeEffect
  <2> QED
    BY <2>1, <2>2, <2>3, <2>4 DEF PullsAreAccounted
<1> QED
  BY <1>1, TickInvInit, TickInvNext, PTL DEF TickSpec

-----------------------------------------------------------------------------
(* The shared log.                                                         *)

Emitting(w) == writer[w].pc \notin {"idle", "killed"}
Emit == [pc : {"idle", "size", "shift", "base", "open", "write", "close", "killed"}, i : 0..Backup, at : Nat]
LogTypes ==
  /\ DOMAIN logFile = 0..Backup /\ \A i \in 0..Backup : logFile[i] \in Seq(Nat)
  /\ records \in Nat /\ refusals \in Nat
  /\ DOMAIN writer = Writer /\ \A w \in Writer : writer[w] \in Emit

(* Whoever emits has the lock, and knows the end it has found; a file that *)
(* a shift or a rotation goes onto is the oldest, or is not there.         *)
EmitInv(w) ==
  /\ Emitting(w) => logLock = w
  /\ writer[w].pc = "shift" => writer[w].i < Backup /\ (writer[w].i + 1 < Backup => logFile[writer[w].i + 1] = <<>>)
  /\ writer[w].pc = "base" /\ 1 < Backup => logFile[1] = <<>>
  /\ writer[w].pc = "write" => writer[w].at = Len(logFile[0])
  /\ writer[w].pc \in {"open", "write"} => Len(logFile[0]) < Full + refusals

Ordered == \A i, j \in 0..Backup : \A a \in 1..Len(logFile[i]), b \in 1..Len(logFile[j]) : Older(i, a, j, b) => logFile[i][a] < logFile[j][b]
AllThere == /\ \A i \in 0..Backup : \A a \in 1..Len(logFile[i]) : logFile[i][a] \in 1..records
            /\ rotatedOut \subseteq 1..records
            /\ \A r \in 1..records : r \in rotatedOut \/ \E i \in 0..Backup : \E a \in 1..Len(logFile[i]) : logFile[i][a] = r
OldestGone == \A d \in rotatedOut : \A i \in 0..Backup : \A a \in 1..Len(logFile[i]) : d < logFile[i][a]
FilesInv == interlocked => Ordered /\ AllThere /\ OldestGone /\ LogStaysSmall /\ \A w \in Writer : EmitInv(w)

(* One thread at a time is in the lock, and the handler that it attaches   *)
(* is the only one.                                                        *)
Within(t) == thread[t] \in {"in", "attached"}
ThreadInv ==
  /\ DOMAIN logger = {"handlers", "configured"} /\ DOMAIN thread = Thread /\ logger.configured \in BOOLEAN /\ logger.handlers \in {0, 1}
  /\ \A t, u \in Thread : Within(t) /\ Within(u) => t = u
  /\ \A t \in Thread : (thread[t] = "has" => logger.configured) /\ (Within(t) => ~logger.configured)
  /\ \A t \in Thread : thread[t] = "attached" => logger.handlers = 1
  /\ logger.configured => logger.handlers = 1
  /\ (\E t \in Thread : thread[t] = "in") => logger.handlers = 0
  /\ logger.handlers = 1 => logger.configured \/ \E t \in Thread : thread[t] = "attached"

LogInv == LogTypes /\ FilesInv /\ ThreadInv

LEMMA EmitMoves ==
  ASSUME NEW e \in Emit, NEW pc \in {"idle", "size", "shift", "base", "open", "write", "close", "killed"}
  PROVE  [e EXCEPT !.pc = pc] \in Emit /\ [e EXCEPT !.pc = pc].pc = pc /\ [e EXCEPT !.pc = pc].i = e.i /\ [e EXCEPT !.pc = pc].at = e.at
<1>1. [e EXCEPT !.pc = pc] = [pc |-> pc, i |-> e.i, at |-> e.at]
  BY DEF Emit
<1>2. [pc |-> pc, i |-> e.i, at |-> e.at] \in Emit
  BY DEF Emit
<1> QED
  BY <1>1, <1>2

LEMMA EmitGoes ==
  ASSUME NEW e \in Emit, NEW pc, NEW i
  PROVE  [e EXCEPT !.pc = pc, !.i = i] = [pc |-> pc, i |-> i, at |-> e.at]
<1>1. [e EXCEPT !.pc = pc] = [pc |-> pc, i |-> e.i, at |-> e.at]
  BY DEF Emit
<1>2. [e EXCEPT !.pc = pc, !.i = i] = [[e EXCEPT !.pc = pc] EXCEPT !.i = i]
  BY Zenon
<1>3. [[pc |-> pc, i |-> e.i, at |-> e.at] EXCEPT !.i = i] = [pc |-> pc, i |-> i, at |-> e.at]
  OBVIOUS
<1> QED
  BY <1>1, <1>2, <1>3, Zenon

(* A write leaves a sequence of records, and at the end it is an append.   *)
LEMMA WritesASeq ==
  ASSUME NEW s \in Seq(Nat), NEW place \in Nat, NEW r \in Nat
  PROVE  WritesAt(s, place, r) \in Seq(Nat)
<1> DEFINE n == IF place > Len(s) THEN Len(s) ELSE place
<1>1. n \in 0..Len(s) /\ Len(s) \in Nat
  OBVIOUS
<1>2. WritesAt(s, place, r) = SubSeq(s, 1, n) \o <<r>> \o SubSeq(s, n + 2, Len(s))
  BY DEF WritesAt
<1> HIDE DEF n
<1>3. SubSeq(s, 1, n) \in Seq(Nat) /\ SubSeq(s, n + 2, Len(s)) \in Seq(Nat)
  BY <1>1
<1>4. <<r>> \in Seq(Nat) /\ SubSeq(s, 1, n) \o <<r>> \in Seq(Nat)
  BY <1>3
<1>5. (SubSeq(s, 1, n) \o <<r>>) \o SubSeq(s, n + 2, Len(s)) \in Seq(Nat)
  BY <1>3, <1>4, ConcatProperties
<1> QED
  BY <1>2, <1>5

LEMMA WritesAtTheEnd ==
  ASSUME NEW s \in Seq(Nat), NEW r \in Nat
  PROVE  WritesAt(s, Len(s), r) = Append(s, r)
<1>1. Len(s) \in Nat
  OBVIOUS
<1>2. WritesAt(s, Len(s), r) = SubSeq(s, 1, Len(s)) \o <<r>> \o SubSeq(s, Len(s) + 2, Len(s))
  BY <1>1 DEF WritesAt
<1>3. SubSeq(s, 1, Len(s)) = s
  OBVIOUS
<1>4. SubSeq(s, Len(s) + 2, Len(s)) = <<>>
  BY <1>1
<1>5. s \o <<r>> \in Seq(Nat)
  OBVIOUS
<1>6. (s \o <<r>>) \o <<>> = s \o <<r>>
  BY <1>5, ConcatEmptySeq
<1>7. s \o <<r>> = Append(s, r)
  BY AppendIsConcat
<1> QED
  BY <1>2, <1>3, <1>4, <1>6, <1>7

(* A file goes onto the next one, which is the oldest or is not there.     *)
LEMMA MovesKeep ==
  ASSUME NEW i \in 0..Backup, i < Backup, LogTypes, Ordered, AllThere, OldestGone, i + 1 = Backup \/ logFile[i + 1] = <<>>,
         logFile' = Onto(i, i + 1), rotatedOut' = rotatedOut \cup Range(logFile[i + 1]), records' = records
  PROVE  Ordered' /\ AllThere' /\ OldestGone'
<1> DEFINE From(k) == IF k = i + 1 THEN i ELSE k
<1>1. i \in Nat /\ i + 1 \in 0..Backup /\ i # i + 1 /\ Backup \in Nat
  BY LogAssumption
<1>2. logFile'[i + 1] = logFile[i] /\ logFile'[i] = <<>> /\ \A k \in 0..Backup : k # i /\ k # i + 1 => logFile'[k] = logFile[k]
  BY <1>1 DEF Onto, LogTypes
<1>3. \A k \in 0..Backup : Len(logFile[k]) \in Nat
  BY DEF LogTypes
<1>4. ASSUME NEW k \in 0..Backup, NEW a \in 1..Len(logFile'[k])
      PROVE  From(k) \in 0..Backup /\ k # i /\ a \in 1..Len(logFile[From(k)]) /\ logFile'[k][a] = logFile[From(k)][a]
  <2>1. k # i
    BY <1>2
  <2> QED
    BY <1>1, <1>2, <2>1
<1>5. Ordered'
  <2> SUFFICES ASSUME NEW k \in 0..Backup, NEW l \in 0..Backup, NEW a \in 1..Len(logFile'[k]), NEW b \in 1..Len(logFile'[l]), Older(k, a, l, b)
               PROVE  logFile'[k][a] < logFile'[l][b]
    BY DEF Ordered, Older
  <2>1. Older(From(k), a, From(l), b)
    BY <1>1, <1>4 DEF Older
  <2>2. /\ From(k) \in 0..Backup /\ a \in 1..Len(logFile[From(k)]) /\ logFile'[k][a] = logFile[From(k)][a]
        /\ From(l) \in 0..Backup /\ b \in 1..Len(logFile[From(l)]) /\ logFile'[l][b] = logFile[From(l)][b]
    BY <1>4
  <2> HIDE DEF From
  <2> QED
    BY <2>1, <2>2 DEF Ordered
<1>6. \A d \in rotatedOut' : d \in rotatedOut \/ \E b \in 1..Len(logFile[i + 1]) : d = logFile[i + 1][b]
  <2>1. DOMAIN logFile[i + 1] = 1..Len(logFile[i + 1])
    BY <1>1 DEF LogTypes
  <2> QED
    BY <2>1 DEF Range
<1>7. OldestGone'
  <2> SUFFICES ASSUME NEW d \in rotatedOut', NEW k \in 0..Backup, NEW a \in 1..Len(logFile'[k]) PROVE d < logFile'[k][a]
    BY DEF OldestGone
  <2>1. From(k) \in 0..Backup /\ a \in 1..Len(logFile[From(k)]) /\ logFile'[k][a] = logFile[From(k)][a] /\ k # i
    BY <1>4
  <2>2. CASE d \in rotatedOut
    <3> HIDE DEF From
    <3> QED
      BY <2>1, <2>2 DEF OldestGone
  <2>3. CASE \E b \in 1..Len(logFile[i + 1]) : d = logFile[i + 1][b]
    <3>1. PICK b \in 1..Len(logFile[i + 1]) : d = logFile[i + 1][b]
      BY <2>3
    <3>2. i + 1 = Backup
      BY <1>1, <1>3, <3>1
    <3>3. i + 1 > From(k)
      BY <1>1, <2>1, <3>2
    <3> HIDE DEF From
    <3> QED
      BY <1>1, <2>1, <3>1, <3>3 DEF Ordered, Older
  <2> QED
    BY <1>6, <2>2, <2>3
<1>8. AllThere'
  <2>1. \A k \in 0..Backup : \A a \in 1..Len(logFile'[k]) : logFile'[k][a] \in 1..records
    <3> SUFFICES ASSUME NEW k \in 0..Backup, NEW a \in 1..Len(logFile'[k]) PROVE logFile'[k][a] \in 1..records
      OBVIOUS
    <3>1. From(k) \in 0..Backup /\ a \in 1..Len(logFile[From(k)]) /\ logFile'[k][a] = logFile[From(k)][a]
      BY <1>4
    <3> HIDE DEF From
    <3> QED
      BY <3>1 DEF AllThere
  <2>2. rotatedOut' \subseteq 1..records
    BY <1>1, <1>6 DEF AllThere
  <2>3. ASSUME NEW r \in 1..records PROVE r \in rotatedOut' \/ \E k \in 0..Backup : \E a \in 1..Len(logFile'[k]) : logFile'[k][a] = r
    <3>1. CASE r \in rotatedOut
      BY <3>1
    <3>2. CASE \E k \in 0..Backup : \E a \in 1..Len(logFile[k]) : logFile[k][a] = r
      <4>0. PICK k \in 0..Backup : \E a \in 1..Len(logFile[k]) : logFile[k][a] = r
        BY <3>2
      <4>1. PICK a \in 1..Len(logFile[k]) : logFile[k][a] = r
        BY <4>0
      <4>2. CASE k = i + 1
        <5>1. a \in DOMAIN logFile[i + 1]
          BY <1>1, <4>1, <4>2 DEF LogTypes
        <5> QED
          BY <4>1, <4>2, <5>1 DEF Range
      <4>3. CASE k = i
        <5>1. a \in 1..Len(logFile'[i + 1]) /\ logFile'[i + 1][a] = r
          BY <1>2, <4>1, <4>3
        <5> QED
          BY <1>1, <5>1
      <4>4. CASE k # i /\ k # i + 1
        <5>1. a \in 1..Len(logFile'[k]) /\ logFile'[k][a] = r
          BY <1>2, <4>1, <4>4
        <5> QED
          BY <5>1
      <4> QED
        BY <4>2, <4>3, <4>4
    <3> QED
      BY <3>1, <3>2 DEF AllThere
  <2> QED
    BY <2>1, <2>2, <2>3 DEF AllThere
<1> QED
  BY <1>5, <1>7, <1>8

(* A record is written after all the others.                               *)
LEMMA WriteKeeps ==
  ASSUME LogTypes, Ordered, AllThere, OldestGone, records' = records + 1, rotatedOut' = rotatedOut,
         logFile' = [logFile EXCEPT ![0] = Append(logFile[0], records + 1)]
  PROVE  Ordered' /\ AllThere' /\ OldestGone' /\ Len(logFile'[0]) = Len(logFile[0]) + 1
<1>0. Backup \in Nat /\ 0 \in 0..Backup /\ records \in Nat
  BY LogAssumption DEF LogTypes
<1>1. logFile'[0] = Append(logFile[0], records + 1) /\ \A k \in 0..Backup : k # 0 => logFile'[k] = logFile[k]
  BY <1>0 DEF LogTypes
<1>2. logFile[0] \in Seq(Nat) /\ \A k \in 0..Backup : Len(logFile[k]) \in Nat
  BY <1>0 DEF LogTypes
<1>3. Len(logFile'[0]) = Len(logFile[0]) + 1 /\ logFile'[0][Len(logFile[0]) + 1] = records + 1 /\ \A a \in 1..Len(logFile[0]) : logFile'[0][a] = logFile[0][a]
  BY <1>0, <1>1, <1>2, AppendProperties
<1>4. ASSUME NEW k \in 0..Backup, NEW a \in 1..Len(logFile'[k])
      PROVE  (k = 0 /\ a = Len(logFile[0]) + 1 /\ logFile'[k][a] = records + 1) \/ (a \in 1..Len(logFile[k]) /\ logFile'[k][a] = logFile[k][a])
  BY <1>0, <1>1, <1>2, <1>3
<1>5. \A k \in 0..Backup : \A a \in 1..Len(logFile[k]) : logFile[k][a] \in 1..records /\ logFile[k][a] < records + 1
  BY <1>0 DEF AllThere
<1>6. Ordered'
  <2> SUFFICES ASSUME NEW k \in 0..Backup, NEW l \in 0..Backup, NEW a \in 1..Len(logFile'[k]), NEW b \in 1..Len(logFile'[l]), Older(k, a, l, b)
               PROVE  logFile'[k][a] < logFile'[l][b]
    BY DEF Ordered, Older
  <2>1. CASE a \in 1..Len(logFile[k]) /\ logFile'[k][a] = logFile[k][a] /\ b \in 1..Len(logFile[l]) /\ logFile'[l][b] = logFile[l][b]
    BY <2>1 DEF Ordered
  <2>2. CASE a \in 1..Len(logFile[k]) /\ logFile'[k][a] = logFile[k][a] /\ l = 0 /\ logFile'[l][b] = records + 1
    BY <1>5, <2>2
  <2>3. CASE k = 0 /\ a = Len(logFile[0]) + 1
    <3>1. l = 0 /\ a < b
      BY <2>3 DEF Older
    <3> QED
      BY <1>2, <1>3, <2>3, <3>1
  <2> QED
    BY <1>4, <2>1, <2>2, <2>3
<1>7. OldestGone'
  <2> SUFFICES ASSUME NEW d \in rotatedOut, NEW k \in 0..Backup, NEW a \in 1..Len(logFile'[k]) PROVE d < logFile'[k][a]
    BY DEF OldestGone
  <2>1. d \in 1..records
    BY DEF AllThere
  <2>2. CASE a \in 1..Len(logFile[k]) /\ logFile'[k][a] = logFile[k][a]
    BY <2>2 DEF OldestGone
  <2>3. CASE logFile'[k][a] = records + 1
    BY <1>0, <2>1, <2>3
  <2> QED
    BY <1>4, <2>2, <2>3
<1>8. AllThere'
  <2>1. \A k \in 0..Backup : \A a \in 1..Len(logFile'[k]) : logFile'[k][a] \in 1..(records + 1)
    <3> SUFFICES ASSUME NEW k \in 0..Backup, NEW a \in 1..Len(logFile'[k]) PROVE logFile'[k][a] \in 1..(records + 1)
      OBVIOUS
    <3>1. CASE a \in 1..Len(logFile[k]) /\ logFile'[k][a] = logFile[k][a]
      BY <1>0, <1>5, <3>1
    <3>2. CASE logFile'[k][a] = records + 1
      BY <1>0, <3>2
    <3> QED
      BY <1>4, <3>1, <3>2
  <2>2. rotatedOut \subseteq 1..(records + 1)
    BY <1>0 DEF AllThere
  <2>3. ASSUME NEW r \in 1..(records + 1) PROVE r \in rotatedOut \/ \E k \in 0..Backup : \E a \in 1..Len(logFile'[k]) : logFile'[k][a] = r
    <3>1. CASE r = records + 1
      <4>1. Len(logFile[0]) + 1 \in 1..Len(logFile'[0]) /\ logFile'[0][Len(logFile[0]) + 1] = r
        BY <1>0, <1>2, <1>3, <3>1
      <4> QED
        BY <1>0, <4>1
    <3>2. CASE r \in 1..records /\ r \notin rotatedOut
      <4>0. PICK k \in 0..Backup : \E a \in 1..Len(logFile[k]) : logFile[k][a] = r
        BY <3>2 DEF AllThere
      <4>1. PICK a \in 1..Len(logFile[k]) : logFile[k][a] = r
        BY <4>0
      <4>2. a \in 1..Len(logFile'[k]) /\ logFile'[k][a] = r
        BY <1>0, <1>1, <1>2, <1>3, <4>1
      <4> QED
        BY <4>2
    <3> QED
      BY <1>0, <3>1, <3>2
  <2> QED
    BY <2>1, <2>2, <2>3 DEF AllThere
<1> QED
  BY <1>3, <1>6, <1>7, <1>8

(* What a writer's step must leave: its own place, and the others' lock.   *)
LEMMA EmitStep ==
  ASSUME LogTypes, FilesInv, NEW w \in Writer,
         DOMAIN writer' = Writer, writer'[w] \in Emit, \A v \in Writer : v # w => writer'[v] = writer[v],
         interlocked' => interlocked /\ Ordered' /\ AllThere' /\ OldestGone' /\ LogStaysSmall' /\ EmitInv(w)',
         \A v \in Writer : v # w /\ interlocked' /\ Emitting(v) => logLock' = v /\ logFile' = logFile /\ refusals' = refusals
  PROVE  FilesInv' /\ \A v \in Writer : writer'[v] \in Emit
<1>1. \A v \in Writer : writer'[v] \in Emit
  BY DEF LogTypes
<1>2. ASSUME interlocked', NEW v \in Writer, v # w PROVE EmitInv(v)'
  <2>1. EmitInv(v) /\ writer'[v] = writer[v]
    BY <1>2 DEF FilesInv
  <2>2. CASE Emitting(v)
    <3>1. logLock' = v /\ logFile' = logFile /\ refusals' = refusals
      BY <1>2, <2>2
    <3> QED
      BY <2>1, <3>1 DEF EmitInv, Emitting
  <2>3. CASE ~Emitting(v)
    BY <2>1, <2>3 DEF EmitInv, Emitting
  <2> QED
    BY <2>2, <2>3
<1>3. interlocked' => \A v \in Writer : EmitInv(v)'
  BY <1>2
<1>4. FilesInv'
  BY <1>3 DEF FilesInv
<1> QED
  BY <1>1, <1>4

LEMMA SameFiles ==
  ASSUME logFile' = logFile, records' = records, rotatedOut' = rotatedOut
  PROVE  (Ordered => Ordered') /\ (AllThere => AllThere') /\ (OldestGone => OldestGone')
<1>1. Ordered => Ordered'
  BY DEF Ordered, Older
<1>2. AllThere => AllThere'
  BY DEF AllThere
<1>3. OldestGone => OldestGone'
  BY DEF OldestGone
<1> QED
  BY <1>1, <1>2, <1>3

LEMMA LogInvNext == LogInv /\ [LogNext]_logvars => LogInv'
<1> SUFFICES ASSUME LogTypes, FilesInv, ThreadInv, [LogNext]_logvars PROVE LogInv'
  BY DEF LogInv
<1>0. Backup \in Nat \ {0} /\ Full \in Nat \ {0} /\ 0 \in 0..Backup /\ Nobody \notin Writer
  BY LogAssumption
<1>t. ASSUME UNCHANGED <<logger, thread>> PROVE ThreadInv'
  BY <1>t DEF ThreadInv, Within
<1>f. ASSUME UNCHANGED <<logFile, logLock, writer, records, rotatedOut, interlocked, refusals>> PROVE LogTypes' /\ FilesInv'
  <2>1. LogTypes'
    BY <1>f DEF LogTypes
  <2>2. interlocked => LogStaysSmall' /\ \A w \in Writer : EmitInv(w)'
    BY <1>f DEF FilesInv, LogStaysSmall, EmitInv, Emitting
  <2> QED
    BY <1>f, <2>1, <2>2, SameFiles DEF FilesInv
(* A writer that has the lock is the only one.                             *)
<1>a. ASSUME interlocked, NEW w \in Writer, Emitting(w), NEW v \in Writer, v # w PROVE ~Emitting(v)
  BY <1>a DEF FilesInv, EmitInv
<1>p. ASSUME NEW w \in Writer, NEW pc \in {"idle", "size", "shift", "base", "open", "write", "close", "killed"}, To(w, pc)
      PROVE  /\ DOMAIN writer' = Writer /\ writer'[w] \in Emit /\ writer'[w].pc = pc /\ writer'[w].i = writer[w].i /\ writer'[w].at = writer[w].at
             /\ \A v \in Writer : v # w => writer'[v] = writer[v]
  <2>1. writer[w] \in Emit
    BY DEF LogTypes
  <2>2. DOMAIN writer' = Writer /\ writer'[w] = [writer[w] EXCEPT !.pc = pc] /\ \A v \in Writer : v # w => writer'[v] = writer[v]
    BY <1>p DEF To, LogTypes
  <2>3. LET e == [writer[w] EXCEPT !.pc = pc] IN e \in Emit /\ e.pc = pc /\ e.i = writer[w].i /\ e.at = writer[w].at
    BY <2>1, EmitMoves
  <2> QED
    BY <2>2, <2>3
<1>1. CASE UNCHANGED logvars
  BY <1>1, <1>t, <1>f DEF logvars, LogInv
<1>2. ASSUME NEW w \in Writer, Acquires(w) PROVE LogInv'
  <2>1. To(w, "size") /\ writer[w].pc = "idle" /\ UNCHANGED <<logFile, records, rotatedOut, refusals, logger, thread>>
    BY <1>2 DEF Acquires, EmitAt
  <2>2. (interlocked' => interlocked /\ logLock = Nobody /\ logLock' = w)
    BY <1>2 DEF Acquires
  <2>3. \A v \in Writer : v # w /\ interlocked' => ~Emitting(v)
    BY <1>0, <2>2 DEF FilesInv, EmitInv
  <2>4. DOMAIN writer' = Writer /\ writer'[w] \in Emit /\ writer'[w].pc = "size" /\ \A v \in Writer : v # w => writer'[v] = writer[v]
    BY <1>p, <2>1
  <2>5. interlocked' => interlocked /\ Ordered' /\ AllThere' /\ OldestGone' /\ LogStaysSmall' /\ EmitInv(w)'
    BY <2>1, <2>2, <2>4, SameFiles DEF FilesInv, LogStaysSmall, EmitInv, Emitting
  <2>6. FilesInv' /\ \A v \in Writer : writer'[v] \in Emit
    BY <2>3, <2>4, <2>5, EmitStep
  <2> QED
    BY <1>t, <2>1, <2>4, <2>6 DEF LogInv, LogTypes
<1>3. ASSUME NEW w \in Writer, MindsSize(w) PROVE LogInv'
  <2> DEFINE pc == IF Len(logFile[0]) >= Full THEN "shift" ELSE "open"
             i == IF Len(logFile[0]) >= Full THEN Backup - 1 ELSE 0
  <2>1. writer[w].pc = "size" /\ UNCHANGED <<logFile, logLock, records, rotatedOut, interlocked, refusals, logger, thread>> /\ writer' = [writer EXCEPT ![w].pc = pc, ![w].i = i]
    BY <1>3 DEF MindsSize, EmitAt
  <2>2. i \in 0..Backup /\ i < Backup /\ i + 1 \in Nat
    BY <1>0
  <2>3. writer[w] \in Emit
    BY DEF LogTypes
  <2>4. DOMAIN writer' = Writer /\ writer'[w] = [writer[w] EXCEPT !.pc = pc, !.i = i] /\ \A v \in Writer : v # w => writer'[v] = writer[v]
    BY <2>1 DEF LogTypes
  <2>5. [writer[w] EXCEPT !.pc = pc, !.i = i] = [pc |-> pc, i |-> i, at |-> writer[w].at]
    BY <2>3, EmitGoes
  <2>6. writer'[w] \in Emit /\ writer'[w].pc = pc /\ writer'[w].i = i
    BY <2>2, <2>3, <2>4, <2>5 DEF Emit
  <2>7. pc = "shift" => i + 1 = Backup
    BY <1>0
  <2>8. pc = "open" => Len(logFile[0]) < Full + refusals
    BY <1>0 DEF LogTypes
  <2>9. pc \in {"shift", "open"}
    OBVIOUS
  <2> HIDE DEF pc, i
  <2>10. Emitting(w)
    BY <2>1 DEF Emitting
  <2>11. interlocked => EmitInv(w)'
    <3>1. interlocked => logLock = w
      BY <2>10 DEF FilesInv, EmitInv
    <3> QED
      BY <2>1, <2>2, <2>6, <2>7, <2>8, <2>9, <3>1 DEF EmitInv, Emitting
  <2>12. interlocked' => interlocked /\ Ordered' /\ AllThere' /\ OldestGone' /\ LogStaysSmall' /\ EmitInv(w)'
    BY <2>1, <2>11, SameFiles DEF FilesInv, LogStaysSmall
  <2>13. FilesInv' /\ \A v \in Writer : writer'[v] \in Emit
    BY <1>a, <2>1, <2>4, <2>6, <2>10, <2>12, EmitStep
  <2> QED
    BY <1>t, <2>1, <2>4, <2>13 DEF LogInv, LogTypes
<1>4. ASSUME NEW w \in Writer, Shifts(w) PROVE LogInv'
  <2> DEFINE i == writer[w].i
  <2>1. writer[w].pc = "shift" /\ UNCHANGED <<logLock, records, interlocked, refusals, logger, thread>> /\ i \in 0..Backup /\ Emitting(w)
    BY <1>4 DEF Shifts, EmitAt, LogTypes, Emit, Emitting
  <2>2. interlocked => i < Backup /\ (i + 1 < Backup => logFile[i + 1] = <<>>) /\ logLock = w
    BY <2>1 DEF FilesInv, EmitInv
  <2>3. CASE i = 0
    <3>1. To(w, "base") /\ UNCHANGED <<logFile, rotatedOut>>
      BY <1>4, <2>3 DEF Shifts
    <3>2. DOMAIN writer' = Writer /\ writer'[w] \in Emit /\ writer'[w].pc = "base" /\ \A v \in Writer : v # w => writer'[v] = writer[v]
      BY <1>p, <3>1
    <3>3. interlocked => EmitInv(w)'
      BY <2>1, <2>2, <2>3, <3>1, <3>2 DEF EmitInv, Emitting
    <3>4. interlocked' => interlocked /\ Ordered' /\ AllThere' /\ OldestGone' /\ LogStaysSmall' /\ EmitInv(w)'
      BY <2>1, <3>1, <3>3, SameFiles DEF FilesInv, LogStaysSmall
    <3>5. FilesInv' /\ \A v \in Writer : writer'[v] \in Emit
      BY <1>a, <2>1, <3>2, <3>4, EmitStep
    <3> QED
      BY <1>t, <2>1, <3>1, <3>2, <3>5 DEF LogInv, LogTypes
  <2>4. CASE i # 0
    <3>1. writer' = [writer EXCEPT ![w].i = i - 1]
      BY <1>4, <2>4 DEF Shifts
    <3>2. writer[w] \in Emit /\ i - 1 \in 0..Backup /\ (i - 1) + 1 = i /\ i \in Nat
      BY <2>1, <2>4, <1>0 DEF LogTypes
    <3>3. DOMAIN writer' = Writer /\ writer'[w] = [writer[w] EXCEPT !.i = i - 1] /\ \A v \in Writer : v # w => writer'[v] = writer[v]
      BY <3>1 DEF LogTypes
    <3>4. writer'[w] \in Emit /\ writer'[w].pc = "shift" /\ writer'[w].i = i - 1
      <4>1. [writer[w] EXCEPT !.i = i - 1] = [pc |-> writer[w].pc, i |-> i - 1, at |-> writer[w].at]
        BY <3>2 DEF Emit
      <4>2. writer[w].at \in Nat
        BY <3>2 DEF Emit
      <4> HIDE DEF i
      <4>3. [pc |-> writer[w].pc, i |-> i - 1, at |-> writer[w].at] \in Emit
        BY <2>1, <3>2, <4>2 DEF Emit
      <4> QED
        BY <2>1, <3>3, <4>1, <4>3
    <3>5. /\ DOMAIN logFile' = 0..Backup /\ \A k \in 0..Backup : logFile'[k] \in Seq(Nat)
          /\ interlocked => Ordered' /\ AllThere' /\ OldestGone' /\ Len(logFile'[0]) = Len(logFile[0]) /\ logFile'[i] = <<>>
      <4>1. CASE logFile[i] = <<>>
        BY <1>4, <2>1, <2>4, <4>1, SameFiles DEF Shifts, FilesInv, LogTypes
      <4>2. CASE logFile[i] # <<>>
        <5>1. logFile' = Onto(i, i + 1) /\ rotatedOut' = rotatedOut \cup Range(logFile[i + 1])
          BY <1>4, <2>4, <4>2 DEF Shifts
        <5> HIDE DEF i
        <5>2. interlocked => i < Backup /\ (i + 1 = Backup \/ logFile[i + 1] = <<>>)
          BY <1>0, <2>1, <2>2
        <5>3. interlocked => Ordered' /\ AllThere' /\ OldestGone'
          BY <2>1, <5>1, <5>2, MovesKeep DEF FilesInv
        <5>4. logFile'[i] = <<>> /\ DOMAIN logFile' = 0..Backup /\ \A k \in 0..Backup : k # i => logFile'[k] = IF k = i + 1 THEN logFile[i] ELSE logFile[k]
          BY <2>1, <5>1 DEF Onto, LogTypes
        <5>5. i + 1 # 0 /\ i # 0
          BY <2>4, <3>2
        <5>6. \A k \in 0..Backup : logFile'[k] \in Seq(Nat)
          <6> SUFFICES ASSUME NEW k \in 0..Backup PROVE logFile'[k] \in Seq(Nat)
            OBVIOUS
          <6>1. logFile[i] \in Seq(Nat) /\ logFile[k] \in Seq(Nat)
            BY <2>1 DEF LogTypes
          <6>2. CASE k = i
            BY <5>4, <6>2
          <6>3. CASE k # i
            BY <5>4, <6>1, <6>3
          <6> QED
            BY <6>2, <6>3
        <5>7. logFile'[0] = logFile[0]
          BY <1>0, <5>4, <5>5
        <5> QED
          BY <5>3, <5>4, <5>6, <5>7
      <4> QED
        BY <4>1, <4>2
    <3> HIDE DEF i
    <3>6. interlocked => EmitInv(w)'
      BY <1>0, <2>1, <2>2, <2>4, <3>2, <3>4, <3>5 DEF EmitInv, Emitting
    <3>7. interlocked' => interlocked /\ Ordered' /\ AllThere' /\ OldestGone' /\ LogStaysSmall' /\ EmitInv(w)'
      BY <2>1, <3>5, <3>6 DEF FilesInv, LogStaysSmall
    <3>8. FilesInv' /\ \A v \in Writer : writer'[v] \in Emit
      BY <1>a, <2>1, <3>3, <3>4, <3>7, EmitStep
    <3> QED
      BY <1>t, <2>1, <3>3, <3>5, <3>8 DEF LogInv, LogTypes
  <2> QED
    BY <2>3, <2>4
<1>5. ASSUME NEW w \in Writer, Rotates(w) PROVE LogInv'
  <2>1. writer[w].pc = "base" /\ To(w, "open") /\ UNCHANGED <<logLock, records, interlocked, logger, thread>> /\ Emitting(w)
    BY <1>5 DEF Rotates, EmitAt, Emitting
  <2>2. interlocked => (1 < Backup => logFile[1] = <<>>) /\ logLock = w /\ LogStaysSmall
    BY <2>1 DEF FilesInv, EmitInv
  <2>3. DOMAIN writer' = Writer /\ writer'[w] \in Emit /\ writer'[w].pc = "open" /\ \A v \in Writer : v # w => writer'[v] = writer[v]
    BY <1>p, <2>1
  <2>4. /\ DOMAIN logFile' = 0..Backup /\ (\A k \in 0..Backup : logFile'[k] \in Seq(Nat)) /\ refusals' \in Nat
        /\ interlocked => Ordered' /\ AllThere' /\ OldestGone' /\ Len(logFile'[0]) < Full + refusals'
    <3>1. CASE logFile' = Onto(0, 1) /\ rotatedOut' = rotatedOut \cup Range(logFile[1]) /\ UNCHANGED refusals
      <4>1. 0 < Backup /\ 0 + 1 = 1 /\ 1 \in 0..Backup /\ (1 = Backup \/ 1 < Backup) /\ 0 \in 0..Backup
        BY <1>0
      <4>2. interlocked => Ordered' /\ AllThere' /\ OldestGone'
        <5>1. interlocked => (0 + 1 = Backup \/ logFile[0 + 1] = <<>>) /\ Ordered /\ AllThere /\ OldestGone
          BY <2>2, <4>1 DEF FilesInv
        <5>2. logFile' = Onto(0, 0 + 1) /\ rotatedOut' = rotatedOut \cup Range(logFile[0 + 1]) /\ records' = records
          BY <2>1, <3>1, <4>1
        <5> QED
          BY <4>1, <5>1, <5>2, MovesKeep
      <4>3. logFile'[0] = <<>> /\ DOMAIN logFile' = 0..Backup /\ \A k \in 0..Backup : logFile'[k] \in Seq(Nat)
        BY <3>1, <4>1 DEF Onto, LogTypes
      <4>4. Len(logFile'[0]) = 0 /\ refusals' \in Nat
        BY <3>1, <4>3 DEF LogTypes
      <4> QED
        BY <1>0, <4>2, <4>3, <4>4
    <3>2. CASE UNCHANGED <<logFile, rotatedOut>> /\ refusals' = refusals + 1
      <4>1. interlocked => Ordered' /\ AllThere' /\ OldestGone'
        BY <2>1, <3>2, SameFiles DEF FilesInv
      <4>2. refusals \in Nat /\ Len(logFile[0]) \in Nat
        BY <1>0 DEF LogTypes
      <4>3. interlocked => Len(logFile[0]) <= Full + refusals
        BY <2>2 DEF LogStaysSmall, FilesInv
      <4> QED
        BY <1>0, <3>2, <4>1, <4>2, <4>3 DEF LogTypes
    <3> QED
      BY <1>5, <3>1, <3>2 DEF Rotates
  <2>5. interlocked => EmitInv(w)' /\ LogStaysSmall'
    <3>1. Len(logFile'[0]) \in Nat
      BY <1>0, <2>4
    <3> QED
      BY <1>0, <2>1, <2>2, <2>3, <2>4, <3>1 DEF EmitInv, Emitting, LogStaysSmall
  <2>6. FilesInv' /\ \A v \in Writer : writer'[v] \in Emit
    BY <1>a, <2>1, <2>3, <2>4, <2>5, EmitStep
  <2> QED
    BY <1>t, <2>1, <2>3, <2>4, <2>6 DEF LogInv, LogTypes
<1>6. ASSUME NEW w \in Writer, FindsEnd(w) PROVE LogInv'
  <2>1. writer[w].pc = "open" /\ UNCHANGED <<logFile, logLock, records, rotatedOut, interlocked, refusals, logger, thread>> /\ Emitting(w)
        /\ writer' = [writer EXCEPT ![w] = [pc |-> "write", i |-> 0, at |-> Len(logFile[0])]]
    BY <1>6 DEF FindsEnd, EmitAt, Emitting
  <2>2. DOMAIN writer' = Writer /\ writer'[w] = [pc |-> "write", i |-> 0, at |-> Len(logFile[0])] /\ \A v \in Writer : v # w => writer'[v] = writer[v]
    BY <2>1 DEF LogTypes
  <2>3. Len(logFile[0]) \in Nat
    BY <1>0 DEF LogTypes
  <2>4. writer'[w] \in Emit /\ writer'[w].pc = "write" /\ writer'[w].at = Len(logFile[0])
    BY <1>0, <2>2, <2>3 DEF Emit
  <2>5. interlocked => EmitInv(w)'
    BY <2>1, <2>4 DEF FilesInv, EmitInv, Emitting
  <2>6. interlocked' => interlocked /\ Ordered' /\ AllThere' /\ OldestGone' /\ LogStaysSmall' /\ EmitInv(w)'
    BY <2>1, <2>5, SameFiles DEF FilesInv, LogStaysSmall
  <2>7. FilesInv' /\ \A v \in Writer : writer'[v] \in Emit
    BY <1>a, <2>1, <2>2, <2>4, <2>6, EmitStep
  <2> QED
    BY <1>t, <2>1, <2>2, <2>7 DEF LogInv, LogTypes
<1>7. ASSUME NEW w \in Writer, Writes(w) PROVE LogInv'
  <2>1. writer[w].pc = "write" /\ records' = records + 1 /\ UNCHANGED <<logLock, rotatedOut, interlocked, refusals, logger, thread>> /\ Emitting(w)
        /\ writer' = [writer EXCEPT ![w] = [NoEmit EXCEPT !.pc = "close"]] /\ logFile' = [logFile EXCEPT ![0] = WritesAt(logFile[0], writer[w].at, records + 1)]
    BY <1>7 DEF Writes, EmitAt, Emitting
  <2>2. [NoEmit EXCEPT !.pc = "close"] = [pc |-> "close", i |-> 0, at |-> 0]
    BY DEF NoEmit
  <2>3. DOMAIN writer' = Writer /\ writer'[w] = [pc |-> "close", i |-> 0, at |-> 0] /\ \A v \in Writer : v # w => writer'[v] = writer[v]
    BY <2>1, <2>2 DEF LogTypes
  <2>4. writer'[w] \in Emit /\ writer'[w].pc = "close"
    BY <1>0, <2>3 DEF Emit
  <2>5. logFile[0] \in Seq(Nat) /\ records \in Nat /\ records + 1 \in Nat /\ Len(logFile[0]) \in Nat /\ refusals \in Nat
    BY <1>0 DEF LogTypes
  <2>6. writer[w].at \in Nat
    BY DEF LogTypes, Emit
  <2>7. WritesAt(logFile[0], writer[w].at, records + 1) \in Seq(Nat)
    BY <2>5, <2>6, WritesASeq
  <2>8. DOMAIN logFile' = 0..Backup /\ \A k \in 0..Backup : logFile'[k] \in Seq(Nat)
    BY <2>1, <2>7 DEF LogTypes
  <2>9. ASSUME interlocked PROVE Ordered' /\ AllThere' /\ OldestGone' /\ LogStaysSmall' /\ EmitInv(w)'
    <3>1. EmitInv(w) /\ Ordered /\ AllThere /\ OldestGone
      BY <2>9 DEF FilesInv
    <3>2. writer[w].at = Len(logFile[0]) /\ Len(logFile[0]) < Full + refusals /\ logLock = w
      BY <2>1, <3>1 DEF EmitInv
    <3>3. logFile' = [logFile EXCEPT ![0] = Append(logFile[0], records + 1)]
      BY <2>1, <2>5, <3>2, WritesAtTheEnd
    <3>4. Ordered' /\ AllThere' /\ OldestGone' /\ Len(logFile'[0]) = Len(logFile[0]) + 1
      BY <2>1, <3>1, <3>3, WriteKeeps
    <3>5. LogStaysSmall'
      BY <1>0, <2>1, <2>5, <3>2, <3>4 DEF LogStaysSmall
    <3>6. EmitInv(w)'
      BY <2>1, <2>4, <3>2 DEF EmitInv, Emitting
    <3> QED
      BY <3>4, <3>5, <3>6
  <2>10. FilesInv' /\ \A v \in Writer : writer'[v] \in Emit
    BY <1>a, <2>1, <2>3, <2>4, <2>9, EmitStep
  <2> QED
    BY <1>t, <2>1, <2>3, <2>5, <2>8, <2>10 DEF LogInv, LogTypes
(* A writer that emits no more, by itself or not.                          *)
<1>r. ASSUME NEW w \in Writer, NEW e \in Emit, e.pc \in {"idle", "killed"}, writer' = [writer EXCEPT ![w] = e], logLock' = (IF logLock = w THEN Nobody ELSE logLock) \/ UNCHANGED logLock,
             UNCHANGED <<logFile, records, rotatedOut, interlocked, refusals, logger, thread>>
      PROVE  LogInv'
  <2>1. DOMAIN writer' = Writer /\ writer'[w] = e /\ \A v \in Writer : v # w => writer'[v] = writer[v]
    BY <1>r DEF LogTypes
  <2>2. EmitInv(w)'
    BY <1>r, <2>1 DEF EmitInv, Emitting
  <2>3. interlocked' => interlocked /\ Ordered' /\ AllThere' /\ OldestGone' /\ LogStaysSmall' /\ EmitInv(w)'
    BY <1>r, <2>2, SameFiles DEF FilesInv, LogStaysSmall
  <2>4. \A v \in Writer : v # w /\ interlocked' /\ Emitting(v) => logLock' = v
    BY <1>r DEF FilesInv, EmitInv
  <2>5. FilesInv' /\ \A v \in Writer : writer'[v] \in Emit
    BY <1>r, <2>1, <2>3, <2>4, EmitStep
  <2> QED
    BY <1>r, <1>t, <2>1, <2>5 DEF LogInv, LogTypes
<1>n. NoEmit \in Emit /\ NoEmit.pc = "idle" /\ [NoEmit EXCEPT !.pc = "killed"] \in Emit /\ [NoEmit EXCEPT !.pc = "killed"].pc = "killed"
  <2>1. NoEmit \in Emit /\ NoEmit.pc = "idle"
    BY <1>0 DEF NoEmit, Emit
  <2> QED
    BY <2>1, EmitMoves
<1>8. ASSUME NEW w \in Writer, ClosesLog(w) PROVE LogInv'
  BY <1>8, <1>r, <1>n DEF ClosesLog, EmitAt, Released
<1>9. ASSUME NEW w \in Writer, IsKilled(w) PROVE LogInv'
  BY <1>9, <1>r, <1>n DEF IsKilled, Released
<1>10. ASSUME NEW w \in Writer, Starts(w) PROVE LogInv'
  BY <1>10, <1>r, <1>n DEF Starts
(* The threads.                                                            *)
<1>11. ASSUME NEW t \in Thread, Asks(t) \/ EntersLock(t) \/ Attaches(t) \/ Marks(t) PROVE LogInv'
  <2>1. UNCHANGED <<logFile, logLock, writer, records, rotatedOut, interlocked, refusals>>
    BY <1>11 DEF Asks, EntersLock, Attaches, Marks, ThreadAt
  <2>2. ASSUME NEW to, thread' = [thread EXCEPT ![t] = to] PROVE DOMAIN thread' = Thread /\ thread'[t] = to /\ \A u \in Thread : u # t => thread'[u] = thread[u]
    BY <2>2 DEF ThreadInv
  <2>3. CASE Asks(t)
    <3>1. thread[t] = "out" /\ logger' = logger /\ thread' = [thread EXCEPT ![t] = IF logger.configured THEN "has" ELSE "wants"]
      BY <2>3 DEF Asks, ThreadAt, ThreadTo
    <3> QED
      BY <1>f, <2>1, <2>2, <3>1 DEF ThreadInv, Within, LogInv
  <2>4. CASE EntersLock(t)
    <3>1. thread[t] = "wants" /\ logger' = logger /\ (\A u \in Thread : ~Within(u)) /\ thread' = [thread EXCEPT ![t] = IF logger.configured THEN "has" ELSE "in"]
      BY <2>4 DEF EntersLock, ThreadAt, ThreadTo, AgainAsked, Within
    <3> QED
      BY <1>f, <2>1, <2>2, <3>1 DEF ThreadInv, Within, LogInv
  <2>5. CASE Attaches(t)
    <3>1. thread[t] = "in" /\ thread' = [thread EXCEPT ![t] = "attached"] /\ logger' = [logger EXCEPT !.handlers = logger.handlers + 1]
      BY <2>5 DEF Attaches, ThreadAt, ThreadTo
    <3>2. logger.handlers = 0 /\ ~logger.configured
      BY <3>1 DEF ThreadInv, Within
    <3>3. DOMAIN logger' = {"handlers", "configured"} /\ logger'.handlers = 1 /\ logger'.configured = logger.configured
      BY <3>1, <3>2 DEF ThreadInv
    <3> QED
      BY <1>f, <2>1, <2>2, <3>1, <3>2, <3>3 DEF ThreadInv, Within, LogInv
  <2>6. CASE Marks(t)
    <3>1. thread[t] = "attached" /\ thread' = [thread EXCEPT ![t] = "has"] /\ logger' = [logger EXCEPT !.configured = TRUE]
      BY <2>6 DEF Marks, ThreadAt, ThreadTo
    <3>2. logger.handlers = 1
      BY <3>1 DEF ThreadInv
    <3>3. DOMAIN logger' = {"handlers", "configured"} /\ logger'.handlers = 1 /\ logger'.configured = TRUE
      BY <3>1, <3>2 DEF ThreadInv
    <3> QED
      BY <1>f, <2>1, <2>2, <3>1, <3>2, <3>3 DEF ThreadInv, Within, LogInv
  <2> QED
    BY <1>11, <2>3, <2>4, <2>5, <2>6
<1> QED
  BY <1>1, <1>2, <1>3, <1>4, <1>5, <1>6, <1>7, <1>8, <1>9, <1>10, <1>11 DEF LogNext, LogRests

LEMMA LogInvInit == LogInit => LogInv
<1> SUFFICES ASSUME LogInit PROVE LogInv
  OBVIOUS
<1>0. Backup \in Nat \ {0} /\ Full \in Nat \ {0} /\ 0 \in 0..Backup
  BY LogAssumption
<1>1. \A i \in 0..Backup : logFile[i] = <<>> /\ Len(logFile[i]) = 0
  BY DEF LogInit
<1>2. NoEmit \in Emit /\ NoEmit.pc = "idle"
  BY <1>0 DEF NoEmit, Emit
<1>3. LogTypes
  BY <1>1, <1>2 DEF LogInit, LogTypes
<1>4. Ordered /\ AllThere /\ OldestGone /\ LogStaysSmall
  BY <1>0, <1>1 DEF LogInit, Ordered, AllThere, OldestGone, LogStaysSmall
<1>5. \A w \in Writer : EmitInv(w)
  BY <1>2 DEF LogInit, EmitInv, Emitting
<1>6. ThreadInv
  BY DEF LogInit, ThreadInv, Within
<1> QED
  BY <1>3, <1>4, <1>5, <1>6 DEF LogInv, FilesInv

(* A log that several processes write and rotate (_emit, doRollover) keeps *)
(* every record once and in order but for the oldest, stays in bounds, and *)
(* gets one handler however many threads ask first (get_logger): for any   *)
(* number of processes and threads, any size and number of backups, and a  *)
(* process that is killed wherever it is.                                  *)
THEOREM LogIsKeptHolds == LogSpec => []LogIsKept
<1>1. LogInv => LogIsKept
  <2> SUFFICES ASSUME LogTypes, FilesInv, ThreadInv PROVE OnlyTheOldestGo /\ LogStaysSmall /\ OneHandler
    BY DEF LogInv, LogIsKept
  <2>1. ASSUME interlocked PROVE (UNION {Range(logFile[i]) : i \in 0..Backup}) \cup rotatedOut = 1..records
    <3>1. \A i \in 0..Backup : Range(logFile[i]) = {logFile[i][a] : a \in 1..Len(logFile[i])}
      BY DEF LogTypes, Range
    <3>2. AllThere
      BY <2>1 DEF FilesInv
    <3>3. ASSUME NEW r \in UNION {Range(logFile[i]) : i \in 0..Backup} PROVE r \in 1..records
      <4>1. PICK i \in 0..Backup : r \in Range(logFile[i])
        OBVIOUS
      <4>2. PICK a \in 1..Len(logFile[i]) : r = logFile[i][a]
        BY <3>1, <4>1
      <4> QED
        BY <3>2, <4>2 DEF AllThere
    <3>4. ASSUME NEW r \in 1..records, r \notin rotatedOut PROVE r \in UNION {Range(logFile[i]) : i \in 0..Backup}
      <4>1. PICK i \in 0..Backup : \E a \in 1..Len(logFile[i]) : logFile[i][a] = r
        BY <3>2, <3>4 DEF AllThere
      <4>2. r \in Range(logFile[i])
        BY <3>1, <4>1
      <4> QED
        BY <4>2
    <3> QED
      <4> DEFINE there == UNION {Range(logFile[i]) : i \in 0..Backup}
      <4>1. rotatedOut \subseteq 1..records
        BY <3>2 DEF AllThere
      <4>2. there \subseteq 1..records
        BY <3>3
      <4>3. \A r \in 1..records : r \in rotatedOut \/ r \in there
        BY <3>4
      <4> HIDE DEF there
      <4>4. there \cup rotatedOut = 1..records
        BY <4>1, <4>2, <4>3
      <4> QED
        BY <4>4 DEF there
  <2>2. OnlyTheOldestGo
    BY <2>1 DEF OnlyTheOldestGo, FilesInv, Ordered, OldestGone
  <2>3. LogStaysSmall
    BY DEF FilesInv, LogStaysSmall
  <2>4. OneHandler
    BY DEF ThreadInv, OneHandler
  <2> QED
    BY <2>2, <2>3, <2>4
<1> QED
  BY <1>1, LogInvInit, LogInvNext, PTL DEF LogSpec

-----------------------------------------------------------------------------
(* Typing into a session.                                                  *)

Typable == IF fleetSetup.kind = "model" THEN {"draft", "/model", "/effort"} ELSE {"body", "draft", "/compact"}
Models == {"old", "new", "other"}
IsPane(p, T) ==
  /\ DOMAIN p = DOMAIN Quiet /\ p.state \in {"idle", "busy", "compacting", "dialog", "limit"} /\ p.held \in BOOLEAN
  /\ p.box \in Seq(T) /\ p.queue \in Seq(Seq(T)) /\ p.model \in Models /\ p.effort \in Models

(* Where /compact is: on the input line, with the agent, or being done; in *)
(* one place at most.                                                      *)
Has(line) == "/compact" \in Range(line)
InBox(p) == Has(p.box)
InQueue(p) == \E k \in 1..Len(p.queue) : Has(p.queue[k])
Nowhere(p) == ~InBox(p) /\ ~InQueue(p) /\ p.state # "compacting"
Once(p) ==
  /\ InBox(p) => ~InQueue(p) /\ p.state # "compacting"
  /\ InQueue(p) => p.state # "compacting"
  /\ \A k, l \in 1..Len(p.queue) : Has(p.queue[k]) /\ Has(p.queue[l]) => k = l
  /\ p.held => p.state = "compacting" /\ p.box # <<>>
  /\ \A k \in 1..Len(p.queue) : p.queue[k] # <<>>

FleetTypes ==
  /\ DOMAIN pane = Receiver /\ \A s \in Receiver : IsPane(pane[s], Typable) /\ Once(pane[s])
  /\ DOMAIN got = Receiver /\ DOMAIN row = Receiver /\ \A s \in Receiver : DOMAIN row[s] = {"result", "tries"}
  /\ DOMAIN cmd = DOMAIN NoCmd /\ cmd.s \in Receiver /\ cmd.asked \in BOOLEAN /\ cmd.early \in BOOLEAN /\ cmd.dialog \in BOOLEAN
  /\ cmd.pc # "over" => cmd.said = 9

(* What is typed is what the command types at this place.                  *)
TypesWhat ==
  /\ cmd.pc \in {"paste", "enter"} =>
       \/ cmd.then = "settle" /\ cmd.typing = <<"/compact">> /\ fleetSetup.kind # "model"
       \/ cmd.then = "confirm" /\ cmd.typing = <<"body">> /\ fleetSetup.kind # "model"
       \/ cmd.then = "verify" /\ cmd.typing \in Seq({"/model", "/effort"}) /\ cmd.typing # <<>> /\ fleetSetup.kind = "model"
  /\ cmd.pc = "begin" \/ (cmd.pc \in {"paste", "enter"} /\ cmd.then = "settle") => ~cmd.asked
  /\ cmd.pc \in {"sweep", "verify"} => fleetSetup.kind = "model"
  /\ cmd.pc \in {"settle", "idle", "confirm"} \/ cmd.asked => fleetSetup.kind # "model"

(* /compact is not yet there, or has left the line; an agent that reads    *)
(* idle has none before it; and the prompt is not typed while it has.      *)
CompactInv(c, p) ==
  /\ c.pc = "begin" \/ (c.pc = "paste" /\ c.then = "settle") => Nowhere(p)
  /\ c.asked /\ ~c.dialog => ~InBox(p)
  /\ c.asked /\ ~c.dialog /\ c.pc = "idle" => (InQueue(p) => p.state # "idle")
  /\ c.asked /\ ~c.dialog /\ c.pc = "paste" /\ c.then = "confirm" => Nowhere(p)

(* The prompt that was pasted stands on the line until it is submitted.    *)
BodyInv ==
  (cmd.pc = "enter" /\ cmd.then = "confirm") \/ cmd.pc = "confirm" => cmd.dialog \/ "body" \in Range(pane[cmd.s].box) \cup got[cmd.s]

FleetInv == FleetTypes /\ TypesWhat /\ (fleetSetup.kind # "model" => CompactInv(cmd, pane[cmd.s])) /\ BodyInv /\ FleetIsHonest

(* What no step of the agent or its user undoes; and what none that leaves *)
(* the model alone does to it.                                             *)
MovesTo(p, q) ==
  /\ Nowhere(p) => Nowhere(q)
  /\ ~InBox(p) => ~InBox(q)

-----------------------------------------------------------------------------

LEMMA AppendIs ==
  ASSUME NEW S, NEW b \in Seq(S), NEW t \in S
  PROVE  /\ Append(b, t) \in Seq(S) /\ Append(b, t) # <<>> /\ Len(Append(b, t)) = Len(b) + 1
         /\ \A k \in 1..Len(b) : Append(b, t)[k] = b[k]
         /\ Append(b, t)[Len(b) + 1] = t /\ Len(b) \in Nat
         /\ Range(Append(b, t)) = Range(b) \cup {t}
<1>1. Append(b, t) \in Seq(S) /\ Append(b, t) # <<>> /\ Len(Append(b, t)) = Len(b) + 1 /\ Append(b, t)[Len(b) + 1] = t /\ Len(b) \in Nat
  OBVIOUS
<1>2. \A k \in 1..Len(b) : Append(b, t)[k] = b[k]
  OBVIOUS
<1>3. DOMAIN b = 1..Len(b) /\ DOMAIN Append(b, t) = 1..(Len(b) + 1)
  BY <1>1
<1>4. Range(Append(b, t)) \subseteq Range(b) \cup {t}
  BY <1>1, <1>2, <1>3 DEF Range
<1>5. Range(b) \cup {t} \subseteq Range(Append(b, t))
  BY <1>1, <1>2, <1>3 DEF Range
<1> QED
  BY <1>1, <1>2, <1>4, <1>5

LEMMA TailIs ==
  ASSUME NEW S, NEW b \in Seq(S), b # <<>>
  PROVE  /\ Tail(b) \in Seq(S) /\ Len(b) \in Nat \ {0} /\ Len(Tail(b)) = Len(b) - 1 /\ Head(b) = b[1] /\ Head(b) \in S
         /\ \A k \in 1..Len(Tail(b)) : Tail(b)[k] = b[k + 1]
  OBVIOUS

LEMMA MoreThanOne ==
  ASSUME NEW S, NEW b \in Seq(S), b # <<>>, Len(b) # 1
  PROVE  Tail(b) # <<>>
<1>1. Len(b) \in Nat \ {0} /\ Len(Tail(b)) = Len(b) - 1
  OBVIOUS
<1>2. Len(Tail(b)) # 0
  BY <1>1
<1>3. \A t : t = <<>> => Len(t) = 0
  OBVIOUS
<1> QED
  BY <1>2, <1>3

LEMMA RangeIs ==
  ASSUME NEW S, NEW b \in Seq(S)
  PROVE  Range(b) = {b[k] : k \in 1..Len(b)} /\ Range(b) \subseteq S
  BY DEF Range

LEMMA EmptyHas == Range(<<>>) = {} /\ ~Has(<<>>)
  BY DEF Range, Has

-----------------------------------------------------------------------------
(* What the agent makes of its lines.                                      *)

TakenFrom(p, q) ==
  /\ DOMAIN q = DOMAIN p /\ q.queue = Tail(p.queue) /\ q.box = p.box /\ q.held = p.held
  /\ q.model \in {p.model, "new"} /\ q.effort \in {p.effort, "new"}
  /\ q.state \in {"compacting", "idle", "busy"}
  /\ q.state = "compacting" <=> Head(Head(p.queue)) = "/compact"
  /\ q.state = "idle" => Head(p.queue) \in {<<"/model">>, <<"/effort">>}

LEMMA TakenIs ==
  ASSUME NEW T, NEW p, IsPane(p, T), p.queue # <<>>
  PROVE  TakenFrom(p, Taken(p))
<1> DEFINE line == Head(p.queue)
<1>1. Taken(p).state = IF Head(line) = "/compact" THEN "compacting" ELSE IF line \in {<<"/model">>, <<"/effort">>} THEN "idle" ELSE "busy"
  BY DEF IsPane, Taken
<1>2. Taken(p).queue = Tail(p.queue) /\ Taken(p).box = p.box /\ Taken(p).held = p.held /\ DOMAIN Taken(p) = DOMAIN p
  BY DEF IsPane, Taken
<1>3. Taken(p).model \in {p.model, "new"} /\ Taken(p).effort \in {p.effort, "new"}
  BY DEF IsPane, Taken
<1> HIDE DEF line
<1>4. Taken(p).state \in {"compacting", "idle", "busy"} /\ (Taken(p).state = "compacting" <=> Head(line) = "/compact")
      /\ (Taken(p).state = "idle" => line \in {<<"/model">>, <<"/effort">>})
  BY <1>1
<1> QED
  BY <1>2, <1>3, <1>4 DEF line, TakenFrom

LEMMA TakenKeeps ==
  ASSUME NEW T, NEW p, NEW q, IsPane(p, T), Once(p), p.queue # <<>>, p.state = "idle", TakenFrom(p, q)
  PROVE  /\ IsPane(q, T) /\ Once(q) /\ MovesTo(p, q) /\ q.box = p.box
         /\ "/model" \notin T /\ "/effort" \notin T => q.state # "idle"
<1> DEFINE line == Head(p.queue)
<1>1. /\ Tail(p.queue) \in Seq(Seq(T)) /\ Len(p.queue) \in Nat \ {0} /\ Len(Tail(p.queue)) = Len(p.queue) - 1 /\ line = p.queue[1] /\ line \in Seq(T)
      /\ \A k \in 1..Len(Tail(p.queue)) : Tail(p.queue)[k] = p.queue[k + 1]
  BY TailIs DEF IsPane
<1>2. line # <<>> /\ ~p.held
  BY <1>1 DEF Once
<1>3. Head(line) \in Range(line) /\ Head(line) \in T
  BY <1>1, <1>2, TailIs, RangeIs
<1>4. q.state = "compacting" => Has(line)
  BY <1>3 DEF Has, TakenFrom
<1> HIDE DEF line
<1>5. IsPane(q, T)
  BY <1>1 DEF IsPane, TakenFrom, Models
<1>6. \A k \in 1..Len(q.queue) : q.queue[k] = p.queue[k + 1] /\ k + 1 \in 1..Len(p.queue) /\ k + 1 # 1
  BY <1>1 DEF TakenFrom
<1>7. 1 \in 1..Len(p.queue)
  BY <1>1
<1>8. InQueue(q) => InQueue(p)
  BY <1>6 DEF InQueue
<1>9. Has(line) => InQueue(p) /\ ~InQueue(q)
  BY <1>1, <1>6, <1>7 DEF InQueue, Once
<1>10. InBox(q) <=> InBox(p)
  BY DEF InBox, TakenFrom
<1>11. Once(q)
  <2>1. InBox(q) => ~InQueue(q) /\ q.state # "compacting"
    BY <1>4, <1>8, <1>9, <1>10 DEF Once
  <2>2. InQueue(q) => q.state # "compacting"
    BY <1>4, <1>9
  <2>3. ASSUME NEW k \in 1..Len(q.queue), NEW l \in 1..Len(q.queue), Has(q.queue[k]), Has(q.queue[l]) PROVE k = l
    <3>1. k + 1 = l + 1
      BY <1>6, <2>3 DEF Once
    <3>2. k \in Int /\ l \in Int
      BY <2>3
    <3> QED
      BY <3>1, <3>2
  <2>4. ~q.held
    BY <1>2 DEF TakenFrom
  <2>5. \A k \in 1..Len(q.queue) : q.queue[k] # <<>>
    BY <1>6 DEF Once
  <2> QED
    BY <2>1, <2>2, <2>3, <2>4, <2>5 DEF Once
<1>12. MovesTo(p, q)
  BY <1>4, <1>8, <1>9, <1>10 DEF MovesTo, Nowhere, TakenFrom
<1>13. ASSUME "/model" \notin T, "/effort" \notin T PROVE line \notin {<<"/model">>, <<"/effort">>}
  BY <1>3, <1>13
<1> QED
  BY <1>5, <1>11, <1>12, <1>13 DEF TakenFrom, line

LEMMA TakesNextKeeps ==
  ASSUME NEW T, NEW p, IsPane(p, T), Once(p), p.state = "idle"
  PROVE  /\ IsPane(TakesNext(p), T) /\ Once(TakesNext(p)) /\ MovesTo(p, TakesNext(p)) /\ TakesNext(p).box = p.box
         /\ "/model" \notin T /\ "/effort" \notin T => (InQueue(TakesNext(p)) => TakesNext(p).state # "idle")
<1>1. CASE p.queue = <<>>
  <2>1. TakesNext(p) = p
    BY <1>1 DEF TakesNext
  <2>2. MovesTo(p, p)
    BY DEF MovesTo
  <2>3. ~InQueue(p)
    BY <1>1 DEF InQueue
  <2> QED
    BY <2>1, <2>2, <2>3
<1>2. CASE p.queue # <<>>
  <2>1. TakesNext(p) = Taken(p)
    BY <1>2 DEF TakesNext
  <2>2. TakenFrom(p, Taken(p))
    BY <1>2, TakenIs
  <2> QED
    BY <1>2, <2>1, <2>2, TakenKeeps
<1> QED
  BY <1>1, <1>2

-----------------------------------------------------------------------------
(* Keys into a pane.                                                       *)

PastedTo(p, q, text) ==
  /\ DOMAIN q = DOMAIN p /\ q.state = p.state /\ q.held = p.held /\ q.queue = p.queue /\ q.model = p.model /\ q.effort = p.effort
  /\ q.box = IF p.state = "dialog" THEN p.box ELSE Append(p.box, text)
SubmittedTo(p, q) ==
  /\ DOMAIN q = DOMAIN p /\ q.model = p.model /\ q.effort = p.effort
  /\ \/ p.state = "dialog" /\ q.state = "busy" /\ q.box = p.box /\ q.held = p.held /\ q.queue = p.queue
     \/ p.state # "dialog" /\ p.box = <<>> /\ q = p
     \/ p.state = "compacting" /\ p.box # <<>> /\ q.state = p.state /\ q.box = p.box /\ q.held = TRUE /\ q.queue = p.queue
     \/ p.state \notin {"dialog", "compacting"} /\ q.state = p.state /\ q.box = <<>> /\ q.held = p.held /\ q.queue = Append(p.queue, p.box) /\ p.box # <<>>

LEMMA KeysAre ==
  ASSUME NEW T, NEW p, IsPane(p, T), NEW text
  PROVE  PastedTo(p, Pasted(p, text), text) /\ SubmittedTo(p, Submitted(p))
<1>1. PastedTo(p, Pasted(p, text), text)
  BY DEF IsPane, Pasted, PastedTo
<1>2. CASE p.state = "dialog"
  BY <1>1, <1>2 DEF IsPane, Submitted, SubmittedTo
<1>3. CASE p.state # "dialog" /\ p.box = <<>>
  BY <1>1, <1>3 DEF IsPane, Submitted, SubmittedTo
<1>4. CASE p.state = "compacting" /\ p.box # <<>>
  BY <1>1, <1>4 DEF IsPane, Submitted, SubmittedTo
<1>5. CASE p.state \notin {"dialog", "compacting"} /\ p.box # <<>>
  <2>1. Submitted(p) = [p EXCEPT !.box = <<>>, !.queue = Append(p.queue, p.box)]
    BY <1>5 DEF Submitted
  <2>2. Submitted(p).box = <<>> /\ Submitted(p).queue = Append(p.queue, p.box) /\ DOMAIN Submitted(p) = DOMAIN p
        /\ Submitted(p).state = p.state /\ Submitted(p).held = p.held /\ Submitted(p).model = p.model /\ Submitted(p).effort = p.effort
    BY <2>1 DEF IsPane, Quiet
  <2> QED
    BY <1>1, <1>5, <2>2 DEF SubmittedTo
<1> QED
  BY <1>2, <1>3, <1>4, <1>5, <1>1

(* A text that is typed, /compact among them where there is none yet.      *)
LEMMA PasteKeeps ==
  ASSUME NEW T, NEW p, NEW q, NEW text \in T, IsPane(p, T), Once(p), PastedTo(p, q, text), text = "/compact" => Nowhere(p)
  PROVE  /\ IsPane(q, T) /\ Once(q) /\ (text # "/compact" => MovesTo(p, q) /\ (InBox(q) => InBox(p)))
         /\ q.state = p.state /\ (InQueue(q) <=> InQueue(p))
         /\ Range(p.box) \subseteq Range(q.box) /\ (p.state # "dialog" => text \in Range(q.box))
<1>1. p.box \in Seq(T)
  BY DEF IsPane
<1>2. q.box \in Seq(T) /\ Range(p.box) \subseteq Range(q.box) /\ Range(q.box) \subseteq Range(p.box) \cup {text}
      /\ (p.state # "dialog" => text \in Range(q.box)) /\ (p.box # <<>> => q.box # <<>>)
  <2>1. CASE p.state = "dialog"
    BY <1>1, <2>1 DEF PastedTo
  <2>2. CASE p.state # "dialog"
    <3>1. q.box = Append(p.box, text)
      BY <2>2 DEF PastedTo
    <3> QED
      BY <1>1, <3>1, AppendIs
  <2> QED
    BY <2>1, <2>2
<1>3. IsPane(q, T)
  BY <1>2 DEF IsPane, PastedTo
<1>4. q.queue = p.queue /\ q.state = p.state /\ q.held = p.held
  BY DEF PastedTo
<1>5. InBox(q) => InBox(p) \/ text = "/compact"
  BY <1>2 DEF InBox, Has
<1>6. InQueue(q) <=> InQueue(p)
  BY <1>4 DEF InQueue
<1>7. Once(q)
  BY <1>2, <1>4, <1>5, <1>6 DEF Once, Nowhere
<1>8. text # "/compact" => MovesTo(p, q)
  BY <1>4, <1>5, <1>6 DEF MovesTo, Nowhere
<1> QED
  BY <1>2, <1>3, <1>4, <1>5, <1>6, <1>7, <1>8

(* An Enter: the line is with the agent whole, or stands.                  *)
LEMMA EnterKeeps ==
  ASSUME NEW T, NEW p, NEW q, IsPane(p, T), Once(p), SubmittedTo(p, q)
  PROVE  /\ IsPane(q, T) /\ Once(q) /\ MovesTo(p, q)
         /\ p.state # "dialog" => ~InBox(q)
         /\ ~InBox(p) /\ (InQueue(p) => p.state # "idle") => (InQueue(q) => q.state # "idle")
         /\ p.state \in {"idle", "busy", "limit"} \/ Range(p.box) \subseteq Range(q.box)
<1>1. CASE p.state = "dialog"
  <2>1. InQueue(q) <=> InQueue(p)
    BY <1>1 DEF SubmittedTo, InQueue
  <2> QED
    BY <1>1, <2>1 DEF SubmittedTo, IsPane, Once, MovesTo, Nowhere, InBox
<1>2. CASE p.state # "dialog" /\ p.box = <<>>
  <2>1. q = p
    BY <1>2 DEF SubmittedTo
  <2> QED
    BY <1>2, <2>1, EmptyHas DEF InBox, MovesTo
<1>3. CASE p.state = "compacting" /\ p.box # <<>>
  <2>1. InQueue(q) <=> InQueue(p)
    BY <1>3 DEF SubmittedTo, InQueue
  <2>2. InBox(q) <=> InBox(p)
    BY <1>3 DEF SubmittedTo, InBox
  <2>3. q.state = p.state /\ q.box = p.box /\ q.held = TRUE /\ q.queue = p.queue /\ DOMAIN q = DOMAIN p /\ q.model = p.model /\ q.effort = p.effort
    BY <1>3 DEF SubmittedTo
  <2>4. IsPane(q, T)
    BY <2>3 DEF IsPane
  <2>5. Once(q)
    BY <1>3, <2>1, <2>2, <2>3 DEF Once
  <2> QED
    BY <1>3, <2>1, <2>2, <2>3, <2>4, <2>5 DEF Once, MovesTo, Nowhere
<1>4. CASE p.state \notin {"dialog", "compacting"} /\ p.box # <<>>
  <2>1. q.state = p.state /\ q.box = <<>> /\ q.held = p.held /\ q.queue = Append(p.queue, p.box) /\ DOMAIN q = DOMAIN p /\ q.model = p.model /\ q.effort = p.effort
    BY <1>4 DEF SubmittedTo
  <2>2. p.box \in Seq(T) /\ p.queue \in Seq(Seq(T))
    BY DEF IsPane
  <2>3. /\ q.queue \in Seq(Seq(T)) /\ Len(q.queue) = Len(p.queue) + 1 /\ Len(p.queue) \in Nat
        /\ \A k \in 1..Len(p.queue) : q.queue[k] = p.queue[k]
        /\ q.queue[Len(p.queue) + 1] = p.box
    BY <2>1, <2>2, AppendIs
  <2>4. IsPane(q, T)
    BY <2>1, <2>3 DEF IsPane
  <2>5. ~InBox(q)
    BY <2>1, EmptyHas DEF InBox
  <2>6. \A k \in 1..Len(q.queue) : k \in 1..Len(p.queue) \/ k = Len(p.queue) + 1
    BY <2>3
  <2>7. InQueue(q) => InQueue(p) \/ InBox(p)
    BY <2>3, <2>6 DEF InQueue, InBox
  <2>8. ASSUME NEW k \in 1..Len(q.queue), NEW l \in 1..Len(q.queue), Has(q.queue[k]), Has(q.queue[l]) PROVE k = l
    BY <2>3, <2>6, <2>8 DEF Once, InBox, InQueue
  <2>9. \A k \in 1..Len(q.queue) : q.queue[k] # <<>>
    BY <1>4, <2>3, <2>6 DEF Once
  <2>10. Once(q)
    BY <1>4, <2>1, <2>5, <2>8, <2>9 DEF Once
  <2>11. MovesTo(p, q)
    BY <1>4, <2>1, <2>5, <2>7 DEF MovesTo, Nowhere
  <2>12. p.state \in {"idle", "busy", "limit"}
    BY <1>4 DEF IsPane
  <2> QED
    BY <2>1, <2>4, <2>5, <2>7, <2>10, <2>11, <2>12
<1> QED
  BY <1>1, <1>2, <1>3, <1>4 DEF IsPane

(* The end of a turn: a line that was left standing is with the agent.     *)
EndedTo(p, q) ==
  /\ DOMAIN q = DOMAIN p /\ q.state = "idle" /\ q.held = FALSE /\ q.model = p.model /\ q.effort = p.effort
  /\ q.box = (IF p.held THEN <<>> ELSE p.box) /\ q.queue = (IF p.held THEN Append(p.queue, p.box) ELSE p.queue)

LEMMA EndKeeps ==
  ASSUME NEW T, NEW p, NEW q, IsPane(p, T), Once(p), EndedTo(p, q)
  PROVE  IsPane(q, T) /\ Once(q) /\ MovesTo(p, q)
<1>1. CASE ~p.held
  <2>1. (InQueue(q) <=> InQueue(p)) /\ (InBox(q) <=> InBox(p))
    BY <1>1 DEF EndedTo, InQueue, InBox
  <2>2. q.state = "idle" /\ q.held = FALSE /\ q.box = p.box /\ q.queue = p.queue /\ DOMAIN q = DOMAIN p /\ q.model = p.model /\ q.effort = p.effort
    BY <1>1 DEF EndedTo
  <2>3. IsPane(q, T)
    BY <2>2 DEF IsPane
  <2> QED
    BY <2>1, <2>2, <2>3 DEF Once, MovesTo, Nowhere
<1>2. CASE p.held
  <2>1. q.state = "idle" /\ q.held = FALSE /\ q.box = <<>> /\ q.queue = Append(p.queue, p.box) /\ DOMAIN q = DOMAIN p /\ q.model = p.model /\ q.effort = p.effort
    BY <1>2 DEF EndedTo
  <2>2. p.box \in Seq(T) /\ p.queue \in Seq(Seq(T))
    BY DEF IsPane
  <2>3. /\ q.queue \in Seq(Seq(T)) /\ Len(q.queue) = Len(p.queue) + 1 /\ Len(p.queue) \in Nat
        /\ \A k \in 1..Len(p.queue) : q.queue[k] = p.queue[k]
        /\ q.queue[Len(p.queue) + 1] = p.box
    BY <2>1, <2>2, AppendIs
  <2>4. IsPane(q, T)
    <3>1. DOMAIN q = DOMAIN Quiet /\ q.model \in Models /\ q.effort \in Models
      BY <2>1 DEF IsPane
    <3>2. q.held \in BOOLEAN
      BY <2>1, Zenon
    <3>3. q.box \in Seq(T)
      BY <2>1
    <3> QED
      BY <2>1, <2>3, <3>1, <3>2, <3>3 DEF IsPane
  <2>5. ~InBox(q)
    BY <2>1, EmptyHas DEF InBox
  <2>6. \A k \in 1..Len(q.queue) : k \in 1..Len(p.queue) \/ k = Len(p.queue) + 1
    BY <2>3
  <2>7. ~Has(p.box) /\ p.box # <<>>
    BY <1>2 DEF Once, InBox
  <2>8. InQueue(q) => InQueue(p)
    BY <2>3, <2>6, <2>7 DEF InQueue
  <2>9. ASSUME NEW k \in 1..Len(q.queue), NEW l \in 1..Len(q.queue), Has(q.queue[k]), Has(q.queue[l]) PROVE k = l
    BY <2>3, <2>6, <2>7, <2>9 DEF Once
  <2>10. \A k \in 1..Len(q.queue) : q.queue[k] # <<>>
    BY <2>3, <2>6, <2>7 DEF Once
  <2> QED
    BY <2>1, <2>4, <2>5, <2>8, <2>9, <2>10 DEF Once, MovesTo, Nowhere
<1> QED
  BY <1>1, <1>2

LEMMA MovesOn ==
  ASSUME NEW p, NEW q, NEW r, MovesTo(p, q), MovesTo(q, r)
  PROVE  MovesTo(p, r)
  BY DEF MovesTo

-----------------------------------------------------------------------------
(* A step of the agent or its user.                                        *)

StaysBusy(p) == ~InBox(p) /\ (InQueue(p) => p.state # "idle")
PaneStep(s) ==
  LET p == pane[s]  q == pane'[s] IN
  /\ DOMAIN pane' = Receiver /\ (\A t \in Receiver : t # s => pane'[t] = pane[t])
  /\ DOMAIN got' = Receiver /\ (\A t \in Receiver : t # s => got'[t] = got[t]) /\ got[s] \subseteq got'[s]
  /\ IsPane(q, Typable) /\ Once(q) /\ MovesTo(p, q)
  /\ fleetSetup.kind # "model" /\ StaysBusy(p) => StaysBusy(q)
  /\ "body" \in Range(p.box) => "body" \in Range(q.box) \cup got'[s]
  /\ meddled \subseteq meddled' /\ (s \in meddled' \/ (q.model \in {p.model, "new"} /\ q.effort \in {p.effort, "new"}))

LEMMA SendTypes == fleetSetup.kind # "model" => "/model" \notin Typable /\ "/effort" \notin Typable
  BY DEF Typable

LEMMA TypableHas == /\ "draft" \in Typable /\ (fleetSetup.kind = "model" => {"/model", "/effort"} \subseteq Typable)
                    /\ (fleetSetup.kind # "model" => {"body", "/compact"} \subseteq Typable)
  BY DEF Typable

LEMMA OnePane ==
  ASSUME FleetTypes, NEW s \in Receiver, NEW q, pane' = [pane EXCEPT ![s] = q]
  PROVE  DOMAIN pane' = Receiver /\ pane'[s] = q /\ \A t \in Receiver : t # s => pane'[t] = pane[t]
  BY DEF FleetTypes

LEMMA SubmitsIs ==
  ASSUME FleetTypes, NEW s \in Receiver, Submits(s)
  PROVE  /\ DOMAIN got' = Receiver /\ (\A t \in Receiver : t # s => got'[t] = got[t]) /\ got[s] \subseteq got'[s]
         /\ pane[s].state \in {"idle", "busy", "limit"} /\ "body" \in Range(pane[s].box) => "body" \in got'[s]
<1> DEFINE g == IF pane[s].state \in {"idle", "busy", "limit"} THEN got[s] \cup Texts(pane[s]) ELSE got[s]
<1>1. got' = [got EXCEPT ![s] = g]
  BY DEF Submits
<1>2. got[s] \subseteq g /\ (pane[s].state \in {"idle", "busy", "limit"} /\ "body" \in Range(pane[s].box) => "body" \in g)
  BY DEF Texts
<1> HIDE DEF g
<1>3. DOMAIN got' = Receiver /\ got'[s] = g /\ \A t \in Receiver : t # s => got'[t] = got[t]
  BY <1>1 DEF FleetTypes
<1> QED
  BY <1>2, <1>3

LEMMA EnterStep ==
  ASSUME FleetTypes, NEW s \in Receiver, pane' = [pane EXCEPT ![s] = Submitted(pane[s])], Submits(s), meddled' = meddled
  PROVE  PaneStep(s) /\ SubmittedTo(pane[s], pane'[s]) /\ (pane[s].state # "dialog" => ~InBox(pane'[s]))
<1>1. IsPane(pane[s], Typable) /\ Once(pane[s])
  BY DEF FleetTypes
<1>2. SubmittedTo(pane[s], Submitted(pane[s]))
  BY <1>1, KeysAre
<1>3. DOMAIN pane' = Receiver /\ pane'[s] = Submitted(pane[s]) /\ \A t \in Receiver : t # s => pane'[t] = pane[t]
  BY OnePane
<1>4. SubmittedTo(pane[s], pane'[s])
  BY <1>2, <1>3
<1>5. /\ IsPane(pane'[s], Typable) /\ Once(pane'[s]) /\ MovesTo(pane[s], pane'[s])
      /\ pane[s].state # "dialog" => ~InBox(pane'[s])
      /\ ~InBox(pane[s]) /\ (InQueue(pane[s]) => pane[s].state # "idle") => (InQueue(pane'[s]) => pane'[s].state # "idle")
      /\ pane[s].state \in {"idle", "busy", "limit"} \/ Range(pane[s].box) \subseteq Range(pane'[s].box)
  BY <1>1, <1>4, EnterKeeps
<1>6. StaysBusy(pane[s]) => StaysBusy(pane'[s])
  BY <1>5 DEF StaysBusy, MovesTo
<1>7. pane'[s].model = pane[s].model /\ pane'[s].effort = pane[s].effort
  BY <1>4 DEF SubmittedTo
<1>8. "body" \in Range(pane[s].box) => "body" \in Range(pane'[s].box) \cup got'[s]
  BY <1>5, SubmitsIs
<1> QED
  BY <1>3, <1>4, <1>5, <1>6, <1>7, <1>8, SubmitsIs DEF PaneStep

LEMMA PasteStep ==
  ASSUME FleetTypes, NEW s \in Receiver, NEW text \in Typable, text # "/compact", pane' = [pane EXCEPT ![s] = Pasted(pane[s], text)], UNCHANGED <<got, meddled>>
  PROVE  PaneStep(s) /\ (pane[s].state # "dialog" => text \in Range(pane'[s].box)) /\ (InBox(pane'[s]) => InBox(pane[s])) 
         /\ pane'[s].state = pane[s].state /\ (InQueue(pane'[s]) <=> InQueue(pane[s]))
<1>1. IsPane(pane[s], Typable) /\ Once(pane[s])
  BY DEF FleetTypes
<1>2. PastedTo(pane[s], Pasted(pane[s], text), text)
  BY <1>1, KeysAre
<1>3. DOMAIN pane' = Receiver /\ pane'[s] = Pasted(pane[s], text) /\ \A t \in Receiver : t # s => pane'[t] = pane[t]
  BY OnePane
<1>4. PastedTo(pane[s], pane'[s], text)
  BY <1>2, <1>3
<1>5. /\ IsPane(pane'[s], Typable) /\ Once(pane'[s]) /\ MovesTo(pane[s], pane'[s]) /\ (InBox(pane'[s]) => InBox(pane[s]))
      /\ pane'[s].state = pane[s].state /\ (InQueue(pane'[s]) <=> InQueue(pane[s]))
      /\ Range(pane[s].box) \subseteq Range(pane'[s].box) /\ (pane[s].state # "dialog" => text \in Range(pane'[s].box))
  BY <1>1, <1>4, PasteKeeps
<1>6. StaysBusy(pane[s]) => StaysBusy(pane'[s])
  BY <1>5 DEF StaysBusy
<1>7. pane'[s].model = pane[s].model /\ pane'[s].effort = pane[s].effort
  BY <1>4 DEF PastedTo
<1> QED
  BY <1>3, <1>5, <1>6, <1>7 DEF PaneStep, FleetTypes

LEMMA AgentTakesStep ==
  ASSUME FleetTypes, NEW s \in Receiver, AgentTakes(s)
  PROVE  PaneStep(s)
<1>1. IsPane(pane[s], Typable) /\ Once(pane[s])
  BY DEF FleetTypes
<1>2. pane[s].state = "idle" /\ pane[s].queue # <<>> /\ pane' = [pane EXCEPT ![s] = Taken(pane[s])] /\ UNCHANGED <<got, meddled>>
  BY DEF AgentTakes
<1>3. DOMAIN pane' = Receiver /\ pane'[s] = Taken(pane[s]) /\ \A t \in Receiver : t # s => pane'[t] = pane[t]
  BY <1>2, OnePane
<1>4. TakenFrom(pane[s], pane'[s])
  BY <1>1, <1>2, <1>3, TakenIs
<1>5. /\ IsPane(pane'[s], Typable) /\ Once(pane'[s]) /\ MovesTo(pane[s], pane'[s]) /\ pane'[s].box = pane[s].box
      /\ "/model" \notin Typable /\ "/effort" \notin Typable => pane'[s].state # "idle"
  BY <1>1, <1>2, <1>4, TakenKeeps
<1>6. fleetSetup.kind # "model" /\ StaysBusy(pane[s]) => StaysBusy(pane'[s])
  BY <1>5, SendTypes DEF StaysBusy, MovesTo
<1>7. pane'[s].model \in {pane[s].model, "new"} /\ pane'[s].effort \in {pane[s].effort, "new"}
  BY <1>4 DEF TakenFrom
<1> QED
  BY <1>2, <1>3, <1>5, <1>6, <1>7 DEF PaneStep, FleetTypes

LEMMA TurnEndsStep ==
  ASSUME FleetTypes, NEW s \in Receiver, TurnEnds(s)
  PROVE  PaneStep(s)
<1> DEFINE p == pane[s]
           e == [p EXCEPT !.state = "idle", !.held = FALSE, !.box = IF p.held THEN <<>> ELSE p.box, !.queue = IF p.held THEN Append(p.queue, p.box) ELSE p.queue]
           g == IF p.held THEN got[s] \cup Texts(p) ELSE got[s]
<1>1. IsPane(p, Typable) /\ Once(p)
  BY DEF FleetTypes
<1>2. pane' = [pane EXCEPT ![s] = TakesNext(e)] /\ got' = [got EXCEPT ![s] = g] /\ meddled' = meddled
  BY DEF TurnEnds
<1>3. EndedTo(p, e)
  <2> DEFINE b == IF p.held THEN <<>> ELSE p.box
             l == IF p.held THEN Append(p.queue, p.box) ELSE p.queue
  <2>1. e = [p EXCEPT !.state = "idle", !.held = FALSE, !.box = b, !.queue = l]
    OBVIOUS
  <2> HIDE DEF e, b, l
  <2>2. e.state = "idle" /\ e.held = FALSE /\ e.box = b /\ e.queue = l /\ e.model = p.model /\ e.effort = p.effort /\ DOMAIN e = DOMAIN p
    BY <1>1, <2>1 DEF IsPane, Quiet
  <2> QED
    BY <2>2 DEF EndedTo, b, l
<1> HIDE DEF e
<1>4. IsPane(e, Typable) /\ Once(e) /\ MovesTo(p, e) /\ e.state = "idle"
  BY <1>1, <1>3, EndKeeps DEF EndedTo
<1>5. DOMAIN pane' = Receiver /\ pane'[s] = TakesNext(e) /\ \A t \in Receiver : t # s => pane'[t] = pane[t]
  BY <1>2, OnePane
<1>6. /\ IsPane(pane'[s], Typable) /\ Once(pane'[s]) /\ MovesTo(e, pane'[s]) /\ pane'[s].box = e.box
      /\ "/model" \notin Typable /\ "/effort" \notin Typable => (InQueue(pane'[s]) => pane'[s].state # "idle")
  BY <1>4, <1>5, TakesNextKeeps
<1>7. MovesTo(p, pane'[s])
  BY <1>4, <1>6, MovesOn
<1>8. fleetSetup.kind # "model" /\ StaysBusy(p) => StaysBusy(pane'[s])
  BY <1>6, <1>7, SendTypes DEF StaysBusy, MovesTo
<1>9. pane'[s].model \in {p.model, "new"} /\ pane'[s].effort \in {p.effort, "new"}
  <2>1. e.model = p.model /\ e.effort = p.effort
    BY <1>3 DEF EndedTo
  <2>2. CASE e.queue = <<>>
    BY <1>5, <2>1, <2>2 DEF TakesNext
  <2>3. CASE e.queue # <<>>
    <3>1. pane'[s] = Taken(e)
      BY <1>5, <2>3 DEF TakesNext
    <3>2. TakenFrom(e, pane'[s])
      BY <1>4, <2>3, <3>1, TakenIs
    <3> QED
      BY <2>1, <3>2 DEF TakenFrom
  <2> QED
    BY <2>2, <2>3
<1>10. got[s] \subseteq g /\ ("body" \in Range(p.box) => "body" \in Range(pane'[s].box) \cup g)
  <2>1. CASE p.held
    BY <2>1 DEF Texts
  <2>2. CASE ~p.held
    BY <1>3, <1>6, <2>2 DEF EndedTo
  <2> QED
    BY <2>1, <2>2
<1> HIDE DEF g
<1>11. DOMAIN got' = Receiver /\ got'[s] = g /\ \A t \in Receiver : t # s => got'[t] = got[t]
  BY <1>2 DEF FleetTypes
<1> QED
  BY <1>2, <1>5, <1>6, <1>7, <1>8, <1>9, <1>10, <1>11 DEF PaneStep

LEMMA OtherStep ==
  ASSUME FleetTypes, NEW s \in Receiver, Stalls(s) \/ IsAnswered(s) \/ Meddles(s)
  PROVE  PaneStep(s)
<1>1. IsPane(pane[s], Typable) /\ Once(pane[s]) /\ DOMAIN pane = Receiver /\ DOMAIN got = Receiver /\ DOMAIN pane[s] = DOMAIN Quiet
  BY DEF FleetTypes, IsPane
<1> DEFINE Same(q) == DOMAIN q = DOMAIN pane[s] /\ q.box = pane[s].box /\ q.held = pane[s].held /\ q.queue = pane[s].queue
<1>2. ASSUME NEW q, Same(q), q.state \in {"idle", "busy", "compacting", "dialog", "limit"}, q.model \in Models, q.effort \in Models,
             q.state = pane[s].state \/ (pane[s].state \in {"busy", "dialog"} /\ q.state \in {"busy", "dialog", "limit"}),
             DOMAIN pane' = Receiver, pane'[s] = q, \A t \in Receiver : t # s => pane'[t] = pane[t], got' = got,
             meddled \subseteq meddled', s \in meddled' \/ (q.model = pane[s].model /\ q.effort = pane[s].effort)
      PROVE  PaneStep(s)
  <2>1. (InQueue(q) <=> InQueue(pane[s])) /\ (InBox(q) <=> InBox(pane[s]))
    BY <1>2 DEF InQueue, InBox
  <2>2. IsPane(q, Typable)
    BY <1>1, <1>2 DEF IsPane
  <2>3. Once(q)
    BY <1>1, <1>2, <2>1 DEF Once
  <2>4. MovesTo(pane[s], q) /\ (StaysBusy(pane[s]) => StaysBusy(q))
    BY <1>2, <2>1 DEF MovesTo, Nowhere, StaysBusy
  <2> QED
    BY <1>1, <1>2, <2>2, <2>3, <2>4 DEF PaneStep
<1>3. CASE Stalls(s)
  <2>1. PICK st \in {"dialog", "limit"} : pane' = [pane EXCEPT ![s].state = st]
    BY <1>3 DEF Stalls
  <2>2. pane[s].state = "busy" /\ got' = got /\ meddled' = meddled
    BY <1>3 DEF Stalls
  <2>3. DOMAIN pane' = Receiver /\ Same(pane'[s]) /\ pane'[s].state = st /\ pane'[s].model = pane[s].model /\ pane'[s].effort = pane[s].effort
        /\ \A t \in Receiver : t # s => pane'[t] = pane[t]
    BY <1>1, <2>1 DEF Quiet
  <2>4. pane'[s].model \in Models /\ pane'[s].effort \in Models
    BY <1>1, <2>3 DEF IsPane
  <2> QED
    BY <1>2, <2>2, <2>3, <2>4
<1>4. CASE IsAnswered(s)
  <2>1. pane[s].state = "dialog" /\ got' = got /\ meddled' = meddled /\ pane' = [pane EXCEPT ![s].state = "busy"]
    BY <1>4 DEF IsAnswered
  <2>3. DOMAIN pane' = Receiver /\ Same(pane'[s]) /\ pane'[s].state = "busy" /\ pane'[s].model = pane[s].model /\ pane'[s].effort = pane[s].effort
        /\ \A t \in Receiver : t # s => pane'[t] = pane[t]
    BY <1>1, <2>1 DEF Quiet
  <2>4. pane'[s].model \in Models /\ pane'[s].effort \in Models
    BY <1>1, <2>3 DEF IsPane
  <2> QED
    BY <1>2, <2>1, <2>3, <2>4
<1>5. CASE Meddles(s)
  <2>1. got' = got /\ meddled' = meddled \cup {s} /\ pane' = [pane EXCEPT ![s].model = "other", ![s].effort = "other"]
    BY <1>5 DEF Meddles
  <2>3. DOMAIN pane' = Receiver /\ Same(pane'[s]) /\ pane'[s].state = pane[s].state /\ pane'[s].model = "other" /\ pane'[s].effort = "other"
        /\ \A t \in Receiver : t # s => pane'[t] = pane[t]
    BY <1>1, <2>1 DEF Quiet
  <2>4. pane'[s].model \in Models /\ pane'[s].effort \in Models /\ pane[s].state \in {"idle", "busy", "compacting", "dialog", "limit"}
    BY <1>1, <2>3 DEF IsPane, Models
  <2> QED
    BY <1>2, <2>1, <2>3, <2>4
<1> QED
  BY <1>3, <1>4, <1>5

LEMMA AgentStepKeeps ==
  ASSUME FleetTypes, NEW s \in Receiver,
         AgentTakes(s) \/ TurnEnds(s) \/ Stalls(s) \/ IsAnswered(s) \/ Drafts(s) \/ UserEnters(s) \/ Meddles(s)
  PROVE  PaneStep(s) /\ UNCHANGED <<cmd, row, fleetSetup>>
<1>1. UNCHANGED <<cmd, row, fleetSetup>>
  BY DEF AgentTakes, TurnEnds, Stalls, IsAnswered, Drafts, UserEnters, Meddles, AgentStep
<1>2. CASE Drafts(s)
  <2>1. "draft" \in Typable /\ "draft" # "/compact"
    BY TypableHas
  <2>2. pane' = [pane EXCEPT ![s] = Pasted(pane[s], "draft")] /\ UNCHANGED <<got, meddled>>
    BY <1>2 DEF Drafts
  <2> QED
    BY <1>1, <2>1, <2>2, PasteStep
<1>3. CASE UserEnters(s)
  <2>1. pane' = [pane EXCEPT ![s] = Submitted(pane[s])] /\ Submits(s) /\ meddled' = meddled
    BY <1>3 DEF UserEnters
  <2> QED
    BY <1>1, <2>1, EnterStep
<1> QED
  BY <1>1, <1>2, <1>3, AgentTakesStep, TurnEndsStep, OtherStep

-----------------------------------------------------------------------------
(* What a step has to show.                                                *)

LEMMA AgentKeepsInv ==
  ASSUME FleetInv, NEW s \in Receiver, PaneStep(s), UNCHANGED <<cmd, row, fleetSetup>>
  PROVE  FleetInv'
<1> DEFINE c == pane[cmd.s]
           d == pane'[cmd.s]
<1>t. FleetTypes /\ TypesWhat /\ (fleetSetup.kind # "model" => CompactInv(cmd, c)) /\ BodyInv /\ FleetIsHonest
  BY DEF FleetInv
<1>r. cmd.s \in Receiver
  BY <1>t DEF FleetTypes
<1>1. FleetTypes'
  BY <1>t DEF FleetTypes, PaneStep, Typable
<1>2. TypesWhat'
  BY <1>t DEF TypesWhat
<1>3. c = d \/ (cmd.s = s /\ MovesTo(c, d) /\ (fleetSetup.kind # "model" /\ StaysBusy(c) => StaysBusy(d)))
  BY <1>r DEF PaneStep
<1>4. MovesTo(c, d) /\ (fleetSetup.kind # "model" /\ StaysBusy(c) => StaysBusy(d))
  BY <1>3 DEF MovesTo
<1>5. ASSUME fleetSetup.kind # "model" PROVE CompactInv(cmd', d)
  <2>1. CompactInv(cmd, c) /\ cmd' = cmd
    BY <1>t, <1>5
  <2>2. MovesTo(c, d) /\ (StaysBusy(c) => StaysBusy(d))
    BY <1>4, <1>5
  <2> HIDE DEF c, d
  <2>3. /\ cmd.pc = "begin" \/ (cmd.pc = "paste" /\ cmd.then = "settle") => Nowhere(d)
        /\ cmd.asked /\ ~cmd.dialog => ~InBox(d)
        /\ cmd.asked /\ ~cmd.dialog /\ cmd.pc = "paste" /\ cmd.then = "confirm" => Nowhere(d)
    BY <2>1, <2>2 DEF CompactInv, MovesTo
  <2>4. cmd.asked /\ ~cmd.dialog /\ cmd.pc = "idle" => (InQueue(d) => d.state # "idle")
    BY <2>1, <2>2 DEF CompactInv, StaysBusy
  <2>5. CompactInv(cmd, d)
    BY <2>3, <2>4 DEF CompactInv
  <2> QED
    BY <2>1, <2>5
<1>6. BodyInv'
  <2>1. "body" \in Range(c.box) \cup got[cmd.s] => "body" \in Range(d.box) \cup got'[cmd.s]
    BY <1>r DEF PaneStep
  <2> QED
    BY <1>t, <2>1 DEF BodyInv
<1>7. SentWasSubmitted'
  <2>1. got[cmd.s] \subseteq got'[cmd.s]
    BY <1>r DEF PaneStep
  <2> QED
    BY <1>t, <2>1 DEF FleetIsHonest, SentWasSubmitted
<1>8. CompactsFirst'
  BY <1>t DEF FleetIsHonest, CompactsFirst
<1>9. ASSUME NEW u \in Receiver, row'[u].result = "ok", u \notin meddled' PROVE Shows(pane[u])'
  <2>1. row[u].result = "ok" /\ u \notin meddled
    BY <1>9 DEF PaneStep
  <2>2. Shows(pane[u])
    BY <1>t, <2>1 DEF FleetIsHonest, OkIsSwitched
  <2>3. pane'[u].model \in {pane[u].model, "new"} /\ pane'[u].effort \in {pane[u].effort, "new"}
    BY <1>9 DEF PaneStep
  <2> QED
    BY <2>2, <2>3 DEF Shows
<1>10. OkIsSwitched'
  BY <1>9 DEF OkIsSwitched
<1>11. (fleetSetup.kind # "model" => CompactInv(cmd, pane[cmd.s]))'
  BY <1>5
<1> QED
  BY <1>1, <1>2, <1>6, <1>7, <1>8, <1>10, <1>11 DEF FleetInv, FleetIsHonest

(* The command's other fields stay.                                        *)
OnlyItsPlace ==
  /\ DOMAIN cmd' = DOMAIN NoCmd /\ cmd'.s = cmd.s
  /\ cmd'.asked = cmd.asked /\ cmd'.early = cmd.early /\ cmd'.dialog = cmd.dialog
GivesUp == cmd'.pc = "over" /\ cmd'.said \in {2, 3, 4}
Proceeds(pc) == cmd'.pc = pc /\ cmd'.said = cmd.said /\ cmd'.typing = cmd.typing /\ cmd'.then = cmd.then
TypesNow(texts, then) == cmd'.pc = "paste" /\ cmd'.said = cmd.said /\ cmd'.typing = texts /\ cmd'.then = then

LEMMA CmdMoves ==
  ASSUME FleetTypes
  PROVE  /\ \A code \in {2, 3, 4} : ExitsWith(code) => OnlyItsPlace /\ GivesUp /\ row' = row
         /\ \A pc : cmd' = [cmd EXCEPT !.pc = pc] => OnlyItsPlace /\ Proceeds(pc)
         /\ \A texts, then : cmd' = CmdTypes(texts, then) => OnlyItsPlace /\ TypesNow(texts, then)
<1>1. DOMAIN cmd = DOMAIN NoCmd
  BY DEF FleetTypes
<1>2. \A code \in {2, 3, 4} : ExitsWith(code) => OnlyItsPlace /\ GivesUp /\ row' = row
  BY <1>1 DEF ExitsWith, OnlyItsPlace, GivesUp, NoCmd
<1>3. \A pc : cmd' = [cmd EXCEPT !.pc = pc] => OnlyItsPlace /\ Proceeds(pc)
  BY <1>1 DEF OnlyItsPlace, Proceeds, NoCmd
<1>4. \A texts, then : cmd' = CmdTypes(texts, then) => OnlyItsPlace /\ TypesNow(texts, then)
  BY <1>1 DEF CmdTypes, OnlyItsPlace, TypesNow, NoCmd
<1> QED
  BY <1>2, <1>3, <1>4

(* The parts that a step of the command does not touch, if only cmd moves. *)
LEMMA ReadKeeps ==
  ASSUME FleetInv, UNCHANGED <<pane, got, meddled, fleetSetup>>, row' = row, OnlyItsPlace,
         TypesWhat', fleetSetup.kind # "model" => CompactInv(cmd', pane[cmd.s]), BodyInv', SentWasSubmitted', cmd'.pc # "over" => cmd'.said = 9
  PROVE  FleetInv'
<1>1. FleetTypes'
  BY DEF FleetInv, FleetTypes, OnlyItsPlace, Typable
<1>2. CompactsFirst'
  BY DEF FleetInv, FleetIsHonest, CompactsFirst, OnlyItsPlace
<1>3. OkIsSwitched'
  BY DEF FleetInv, FleetIsHonest, OkIsSwitched, Shows
<1>4. (fleetSetup.kind # "model" => CompactInv(cmd, pane[cmd.s]))'
  BY DEF OnlyItsPlace
<1> QED
  BY <1>1, <1>2, <1>3, <1>4 DEF FleetInv, FleetIsHonest

(* A command that gave up says nothing was sent.                           *)
LEMMA EndKeepsInv ==
  ASSUME FleetInv, UNCHANGED <<pane, got, meddled, fleetSetup>>, row' = row, OnlyItsPlace, GivesUp
  PROVE  FleetInv'
<1>t. FleetTypes /\ TypesWhat /\ (fleetSetup.kind # "model" => CompactInv(cmd, pane[cmd.s]))
  BY DEF FleetInv
<1>1. TypesWhat'
  BY <1>t DEF TypesWhat, OnlyItsPlace, GivesUp
<1>2. fleetSetup.kind # "model" => CompactInv(cmd', pane[cmd.s])
  BY <1>t DEF CompactInv, OnlyItsPlace, GivesUp
<1>3. BodyInv' /\ SentWasSubmitted'
  BY DEF BodyInv, SentWasSubmitted, GivesUp
<1> QED
  BY <1>1, <1>2, <1>3, ReadKeeps DEF GivesUp

(* A command that goes on without touching a pane.                         *)
LEMMA GoesOn ==
  ASSUME FleetInv, UNCHANGED <<pane, got, meddled, fleetSetup>>, row' = row, OnlyItsPlace, cmd.pc # "over", cmd'.said = cmd.said,
         TypesWhat', fleetSetup.kind # "model" => CompactInv(cmd', pane[cmd.s]), cmd'.pc \notin {"enter", "confirm", "over"}
  PROVE  FleetInv'
<1>1. cmd'.said = 9
  BY DEF FleetInv, FleetTypes
<1>2. BodyInv' /\ SentWasSubmitted'
  BY <1>1 DEF BodyInv, SentWasSubmitted
<1> QED
  BY <1>1, <1>2, ReadKeeps

LEMMA SendBeginsKeeps ==
  ASSUME FleetInv, SendBegins
  PROVE  FleetInv'
<1>t. FleetTypes /\ TypesWhat /\ (fleetSetup.kind # "model" => CompactInv(cmd, pane[cmd.s])) /\ cmd.pc = "begin" /\ cmd.pc # "over"
  BY DEF FleetInv, SendBegins, CmdAt
<1>u. UNCHANGED <<pane, got, meddled, fleetSetup>> /\ row' = row
  BY DEF SendBegins, CmdAt, OnlyReads
<1>a. ~cmd.asked
  BY <1>t DEF TypesWhat
<1>1. CASE ExitsWith(2)
  BY <1>1, <1>t, <1>u, CmdMoves, EndKeepsInv
<1>2. ASSUME NEW texts, NEW then, <<texts, then>> \in {<< <<"body">>, "confirm">>, << <<"/compact">>, "settle">>}, cmd' = CmdTypes(texts, then), fleetSetup.kind # "model"
      PROVE  FleetInv'
  <2>1. OnlyItsPlace /\ TypesNow(texts, then)
    BY <1>2, <1>t, CmdMoves
  <2>2. (texts = <<"body">> /\ then = "confirm") \/ (texts = <<"/compact">> /\ then = "settle")
    BY <1>2
  <2>3. TypesWhat'
    BY <1>2, <1>a, <1>u, <2>1, <2>2 DEF TypesWhat, OnlyItsPlace, TypesNow
  <2>4. CompactInv(cmd', pane[cmd.s])
    BY <1>2, <1>a, <1>t, <2>1, <2>2 DEF CompactInv, OnlyItsPlace, TypesNow
  <2> QED
    BY <1>t, <1>u, <2>1, <2>3, <2>4, GoesOn DEF TypesNow
<1>3. ASSUME NEW pc \in {"idle", "sweep"}, cmd' = [cmd EXCEPT !.pc = pc], pc = "sweep" <=> fleetSetup.kind = "model"
      PROVE  FleetInv'
  <2>1. OnlyItsPlace /\ Proceeds(pc)
    BY <1>3, <1>t, CmdMoves
  <2>2. TypesWhat'
    BY <1>3, <1>a, <1>u, <2>1 DEF TypesWhat, OnlyItsPlace, Proceeds
  <2>3. CompactInv(cmd', pane[cmd.s])
    BY <1>3, <1>a, <2>1 DEF CompactInv, OnlyItsPlace, Proceeds
  <2> QED
    BY <1>3, <1>t, <1>u, <2>1, <2>2, <2>3, GoesOn DEF Proceeds
<1>4. CASE fleetSetup.kind = "plain" /\ cmd' = CmdTypes(<<"body">>, "confirm")
  BY <1>2, <1>4
<1>5. CASE fleetSetup.kind = "compact" /\ cmd' = CmdTypes(<<"/compact">>, "settle")
  BY <1>2, <1>5
<1>6. CASE fleetSetup.kind = "wait" /\ cmd' = [cmd EXCEPT !.pc = "idle"]
  BY <1>3, <1>6
<1>7. CASE fleetSetup.kind = "model" /\ cmd' = [cmd EXCEPT !.pc = "sweep"]
  BY <1>3, <1>7
<1> QED
  BY <1>1, <1>4, <1>5, <1>6, <1>7 DEF SendBegins

LEMMA SettleKeeps ==
  ASSUME FleetInv, LetsSettle
  PROVE  FleetInv'
<1>t. FleetTypes /\ TypesWhat /\ (fleetSetup.kind # "model" => CompactInv(cmd, pane[cmd.s])) /\ cmd.pc = "settle" /\ cmd.pc # "over"
  BY DEF FleetInv, LetsSettle, CmdAt
<1>u. UNCHANGED <<pane, got, meddled, fleetSetup>> /\ row' = row /\ cmd' = [cmd EXCEPT !.pc = "idle"] /\ Reacted(cmd.s)
  BY DEF LetsSettle, CmdAt, OnlyReads
<1>1. OnlyItsPlace /\ Proceeds("idle") /\ fleetSetup.kind # "model"
  BY <1>t, <1>u, CmdMoves DEF TypesWhat
<1>2. InQueue(pane[cmd.s]) => pane[cmd.s].state # "idle"
  BY <1>u DEF Reacted, InQueue
<1>3. TypesWhat'
  BY <1>t, <1>u, <1>1 DEF TypesWhat, OnlyItsPlace, Proceeds
<1>4. CompactInv(cmd', pane[cmd.s])
  BY <1>t, <1>1, <1>2 DEF CompactInv, OnlyItsPlace, Proceeds
<1> QED
  BY <1>t, <1>u, <1>1, <1>3, <1>4, GoesOn DEF Proceeds

LEMMA WaitsKeeps ==
  ASSUME FleetInv, WaitsForIdle
  PROVE  FleetInv'
<1>t. FleetTypes /\ TypesWhat /\ (fleetSetup.kind # "model" => CompactInv(cmd, pane[cmd.s])) /\ cmd.pc = "idle" /\ cmd.pc # "over"
  BY DEF FleetInv, WaitsForIdle, CmdAt
<1>u. UNCHANGED <<pane, got, meddled, fleetSetup>> /\ fleetSetup.kind # "model"
  BY <1>t DEF WaitsForIdle, CmdAt, OnlyReads, TypesWhat
<1>1. CASE ExitsWith(4)
  BY <1>1, <1>t, <1>u, CmdMoves, EndKeepsInv
<1>2. CASE SeenAs(cmd.s) = "idle" /\ row' = row /\ cmd' = CmdTypes(<<"body">>, "confirm")
  <2>1. OnlyItsPlace /\ TypesNow(<<"body">>, "confirm")
    BY <1>2, <1>t, CmdMoves
  <2>2. pane[cmd.s].state = "idle"
    BY <1>2 DEF SeenAs
  <2>3. cmd.asked /\ ~cmd.dialog => Nowhere(pane[cmd.s])
    BY <1>t, <1>u, <2>2 DEF CompactInv, Nowhere
  <2>4. TypesWhat'
    BY <1>t, <1>u, <2>1 DEF TypesWhat, OnlyItsPlace, TypesNow
  <2>5. CompactInv(cmd', pane[cmd.s])
    BY <1>t, <2>1, <2>3 DEF CompactInv, OnlyItsPlace, TypesNow, Nowhere
  <2> QED
    BY <1>2, <1>t, <1>u, <2>1, <2>4, <2>5, GoesOn DEF TypesNow
<1>3. CASE ~fleetSetup.body /\ row' = row /\ cmd' = [cmd EXCEPT !.pc = "over", !.said = 0]
  <2>1. OnlyItsPlace /\ cmd'.pc = "over"
    BY <1>3, <1>t DEF FleetTypes, OnlyItsPlace, NoCmd
  <2>2. TypesWhat'
    BY <1>t, <1>u, <2>1 DEF TypesWhat, OnlyItsPlace
  <2>3. CompactInv(cmd', pane[cmd.s])
    BY <1>t, <1>u, <2>1 DEF CompactInv, OnlyItsPlace
  <2>4. BodyInv' /\ SentWasSubmitted'
    BY <1>3, <1>u, <2>1 DEF BodyInv, SentWasSubmitted
  <2> QED
    BY <1>3, <1>u, <2>1, <2>2, <2>3, <2>4, ReadKeeps
<1> QED
  BY <1>1, <1>2, <1>3 DEF WaitsForIdle

LEMMA ConfirmsKeeps ==
  ASSUME FleetInv, Confirms
  PROVE  FleetInv'
<1>t. FleetTypes /\ TypesWhat /\ (fleetSetup.kind # "model" => CompactInv(cmd, pane[cmd.s])) /\ BodyInv /\ cmd.pc = "confirm"
  BY DEF FleetInv, Confirms, CmdAt
<1>u. UNCHANGED <<pane, got, meddled, fleetSetup>> /\ fleetSetup.kind # "model"
  BY <1>t DEF Confirms, CmdAt, OnlyReads, TypesWhat
<1>1. CASE ExitsWith(4)
  BY <1>1, <1>t, <1>u, CmdMoves, EndKeepsInv
<1>2. CASE ~LooksUnsent(cmd.s) /\ ExitsWith(0)
  <2>1. OnlyItsPlace /\ cmd'.pc = "over" /\ row' = row
    BY <1>2, <1>t DEF FleetTypes, OnlyItsPlace, NoCmd, ExitsWith
  <2>2. TypesWhat'
    BY <1>t, <1>u, <2>1 DEF TypesWhat, OnlyItsPlace
  <2>3. CompactInv(cmd', pane[cmd.s])
    BY <1>t, <1>u, <2>1 DEF CompactInv, OnlyItsPlace
  <2>4. ~fleetSetup.short /\ ~cmd.dialog => "body" \in got[cmd.s]
    BY <1>2, <1>t DEF BodyInv, LooksUnsent
  <2>5. BodyInv' /\ SentWasSubmitted'
    BY <1>u, <2>1, <2>4 DEF BodyInv, SentWasSubmitted, OnlyItsPlace
  <2> QED
    BY <1>u, <2>1, <2>2, <2>3, <2>5, ReadKeeps
<1> QED
  BY <1>1, <1>2 DEF Confirms, Unread

-----------------------------------------------------------------------------
(* model.                                                                  *)

LEMMA ModelKeeps ==
  ASSUME FleetInv, fleetSetup.kind = "model", UNCHANGED <<pane, got, meddled, fleetSetup>>,
         DOMAIN cmd' = DOMAIN NoCmd, cmd'.s \in Receiver, cmd'.asked = cmd.asked, cmd'.early = cmd.early, cmd'.dialog = cmd.dialog,
         cmd'.pc \in {"sweep", "verify", "over"} \/ (cmd'.pc = "paste" /\ cmd'.then = "verify" /\ cmd'.typing \in Seq({"/model", "/effort"}) /\ cmd'.typing # <<>>),
         cmd'.pc # "over" => cmd'.said = 9,
         DOMAIN row' = Receiver, \A u \in Receiver : DOMAIN row'[u] = {"result", "tries"},
         \A u \in Receiver : row'[u].result = "ok" => row[u].result = "ok" \/ Shows(pane[u])
  PROVE  FleetInv'
<1>t. FleetTypes /\ TypesWhat /\ FleetIsHonest
  BY DEF FleetInv
<1>1. FleetTypes'
  BY <1>t DEF FleetTypes, Typable
<1>2. ~cmd.asked
  BY <1>t DEF TypesWhat
<1>3. TypesWhat'
  BY <1>2 DEF TypesWhat
<1>4. BodyInv' /\ SentWasSubmitted'
  BY DEF BodyInv, SentWasSubmitted
<1>5. CompactsFirst'
  BY <1>t DEF FleetIsHonest, CompactsFirst
<1>6. OkIsSwitched'
  <2> SUFFICES ASSUME NEW u \in Receiver, row'[u].result = "ok", u \notin meddled' PROVE Shows(pane[u])'
    BY DEF OkIsSwitched
  <2>1. Shows(pane[u])
    BY <1>t DEF FleetIsHonest, OkIsSwitched
  <2> QED
    BY <2>1 DEF Shows
<1> QED
  BY <1>1, <1>3, <1>4, <1>5, <1>6 DEF FleetInv, FleetIsHonest

LEMMA SweepsKeeps ==
  ASSUME FleetInv, NEW s \in Receiver, Sweeps(s)
  PROVE  FleetInv'
<1>t. FleetTypes /\ TypesWhat /\ cmd.pc = "sweep"
  BY DEF FleetInv, Sweeps, CmdAt
<1>1. UNCHANGED <<pane, got, meddled, fleetSetup>> /\ row' = row /\ fleetSetup.kind = "model"
  BY <1>t DEF Sweeps, CmdAt, OnlyReads, TypesWhat
<1> DEFINE texts == IF fleetSetup.effort THEN <<"/model", "/effort">> ELSE <<"/model">>
<1>2. cmd' = [CmdTypes(texts, "verify") EXCEPT !.s = s, !.ok = TRUE]
  BY DEF Sweeps
<1>3. texts \in Seq({"/model", "/effort"}) /\ texts # <<>>
  <2>1. <<"/model", "/effort">> \in Seq({"/model", "/effort"}) /\ <<"/model", "/effort">> # <<>>
    OBVIOUS
  <2>2. <<"/model">> \in Seq({"/model", "/effort"}) /\ <<"/model">> # <<>>
    OBVIOUS
  <2> QED
    BY <2>1, <2>2
<1> HIDE DEF texts
<1> DEFINE k == CmdTypes(texts, "verify")
<1>4. DOMAIN k = DOMAIN NoCmd /\ k.pc = "paste" /\ k.then = "verify" /\ k.typing = texts /\ k.said = 9 /\ k.asked = cmd.asked /\ k.early = cmd.early /\ k.dialog = cmd.dialog
  BY <1>t DEF FleetTypes, CmdTypes, NoCmd
<1> HIDE DEF k
<1>5. cmd' = [k EXCEPT !.s = s, !.ok = TRUE]
  BY <1>2 DEF k
<1>6. DOMAIN cmd' = DOMAIN NoCmd /\ cmd'.s = s /\ cmd'.pc = "paste" /\ cmd'.then = "verify" /\ cmd'.typing = texts /\ cmd'.said = 9
      /\ cmd'.asked = cmd.asked /\ cmd'.early = cmd.early /\ cmd'.dialog = cmd.dialog
  BY <1>4, <1>5 DEF NoCmd
<1>7. DOMAIN row' = Receiver /\ \A u \in Receiver : DOMAIN row'[u] = {"result", "tries"}
  BY <1>t, <1>1 DEF FleetTypes
<1> QED
  BY <1>1, <1>3, <1>6, <1>7, ModelKeeps

LEMMA VerifiesKeeps ==
  ASSUME FleetInv, Verifies
  PROVE  FleetInv'
<1>t. FleetTypes /\ TypesWhat /\ cmd.pc = "verify"
  BY DEF FleetInv, Verifies, CmdAt
<1>1. UNCHANGED <<pane, got, meddled, fleetSetup>> /\ cmd' = [cmd EXCEPT !.pc = "sweep"] /\ fleetSetup.kind = "model"
  BY <1>t DEF Verifies, CmdAt, OnlyReads, TypesWhat
<1>2. OnlyItsPlace /\ Proceeds("sweep") /\ cmd'.said = 9 /\ cmd.s \in Receiver
  BY <1>t, <1>1, CmdMoves DEF FleetTypes, Proceeds
<1>r. DOMAIN row = Receiver /\ DOMAIN row[cmd.s] = {"result", "tries"} /\ \A u \in Receiver : DOMAIN row[u] = {"result", "tries"}
  BY <1>t, <1>2 DEF FleetTypes
<1>3. ASSUME NEW r, row' = [row EXCEPT ![cmd.s] = r], DOMAIN r = {"result", "tries"}, r.result = "ok" => Shows(pane[cmd.s])
      PROVE  FleetInv'
  <2>1. DOMAIN row' = Receiver /\ row'[cmd.s] = r /\ \A u \in Receiver : u # cmd.s => row'[u] = row[u]
    BY <1>2, <1>3, <1>r
  <2>2. \A u \in Receiver : DOMAIN row'[u] = {"result", "tries"} /\ (row'[u].result = "ok" => row[u].result = "ok" \/ Shows(pane[u]))
    BY <1>3, <1>r, <2>1
  <2>3. DOMAIN cmd' = DOMAIN NoCmd /\ cmd'.s \in Receiver /\ cmd'.asked = cmd.asked /\ cmd'.early = cmd.early /\ cmd'.dialog = cmd.dialog /\ cmd'.pc = "sweep"
    BY <1>2 DEF OnlyItsPlace, Proceeds
  <2> QED
    BY <1>1, <1>2, <2>1, <2>2, <2>3, ModelKeeps
<1>4. CASE Verified(cmd.s) /\ row' = [row EXCEPT ![cmd.s].result = "ok"]
  <2> DEFINE r == [row[cmd.s] EXCEPT !.result = "ok"]
  <2>1. row' = [row EXCEPT ![cmd.s] = r] /\ DOMAIN r = {"result", "tries"} /\ Shows(pane[cmd.s])
    BY <1>4, <1>r DEF Verified
  <2> QED
    BY <1>3, <2>1
<1>5. CASE row' = [row EXCEPT ![cmd.s].result = Tried(cmd.s), ![cmd.s].tries = @ + 1]
  <2> DEFINE r == [row[cmd.s] EXCEPT !.result = Tried(cmd.s), !.tries = @ + 1]
  <2>0. Tried(cmd.s) # "ok"
    BY DEF Tried
  <2>1. DOMAIN r = {"result", "tries"} /\ r.result = Tried(cmd.s)
    BY <1>r
  <2>2. row' = [row EXCEPT ![cmd.s] = r]
    BY <1>5, <1>r, <1>2
  <2> HIDE DEF r
  <2> QED
    BY <1>3, <2>0, <2>1, <2>2
<1> QED
  BY <1>4, <1>5 DEF Verifies

LEMMA SweepsEndKeeps ==
  ASSUME FleetInv, EndsSweeps
  PROVE  FleetInv'
<1>t. FleetTypes /\ TypesWhat /\ cmd.pc = "sweep"
  BY DEF FleetInv, EndsSweeps, CmdAt
<1>1. UNCHANGED <<pane, got, meddled, fleetSetup>> /\ fleetSetup.kind = "model"
      /\ row' = [s \in Receiver |-> IF s \in Pending THEN [row[s] EXCEPT !.result = "timeout"] ELSE row[s]]
  BY <1>t DEF EndsSweeps, CmdAt, OnlyReads, TypesWhat
<1> DEFINE said == IF \A s \in fleetSetup.targets : row'[s].result = "ok" THEN 0 ELSE 4
<1>2. cmd' = [cmd EXCEPT !.pc = "over", !.said = said]
  BY DEF EndsSweeps
<1> HIDE DEF said
<1>3. OnlyItsPlace /\ cmd'.pc = "over" /\ cmd.s \in Receiver
  BY <1>t, <1>2 DEF FleetTypes, OnlyItsPlace, NoCmd
<1>4. DOMAIN row' = Receiver /\ \A u \in Receiver : DOMAIN row'[u] = {"result", "tries"} /\ (row'[u].result = "ok" => row[u].result = "ok")
  BY <1>t, <1>1 DEF FleetTypes
<1> QED
  BY <1>1, <1>3, <1>4, ModelKeeps DEF OnlyItsPlace

-----------------------------------------------------------------------------

-----------------------------------------------------------------------------
(* Its keys.                                                               *)

(* What every step into the command's pane keeps; a /compact that is typed *)
(* is no PaneStep.                                                         *)
PaneMoved(s) ==
  LET p == pane[s]  q == pane'[s] IN
  /\ DOMAIN pane' = Receiver /\ (\A t \in Receiver : t # s => pane'[t] = pane[t])
  /\ DOMAIN got' = Receiver /\ IsPane(q, Typable) /\ Once(q) /\ q.model \in {p.model, "new"} /\ q.effort \in {p.effort, "new"}

LEMMA KeysKeep ==
  ASSUME FleetInv, PaneMoved(cmd.s), UNCHANGED <<row, meddled, fleetSetup>>, DOMAIN cmd' = DOMAIN NoCmd, cmd'.s = cmd.s,
         cmd'.asked \in BOOLEAN, cmd'.early \in BOOLEAN, cmd'.dialog \in BOOLEAN, IF cmd'.pc = "over" THEN cmd'.said # 0 ELSE cmd'.said = 9,
         TypesWhat', fleetSetup.kind # "model" => CompactInv(cmd', pane'[cmd.s]), BodyInv', CompactsFirst'
  PROVE  FleetInv'
<1>t. FleetTypes /\ OkIsSwitched
  BY DEF FleetInv, FleetIsHonest
<1>1. FleetTypes'
  BY <1>t DEF FleetTypes, PaneMoved, Typable
<1>2. SentWasSubmitted'
  BY DEF SentWasSubmitted
<1>3. OkIsSwitched'
  <2> SUFFICES ASSUME NEW u \in Receiver, row'[u].result = "ok", u \notin meddled' PROVE Shows(pane[u])'
    BY DEF OkIsSwitched
  <2>1. Shows(pane[u])
    BY <1>t DEF OkIsSwitched
  <2>2. pane'[u] = pane[u] \/ (pane'[u].model \in {pane[u].model, "new"} /\ pane'[u].effort \in {pane[u].effort, "new"})
    BY DEF PaneMoved
  <2> QED
    BY <2>1, <2>2 DEF Shows
<1>4. (fleetSetup.kind # "model" => CompactInv(cmd, pane[cmd.s]))'
  OBVIOUS
<1> QED
  BY <1>1, <1>2, <1>3, <1>4 DEF FleetInv, FleetIsHonest

LEMMA StepMoves ==
  ASSUME NEW s \in Receiver, PaneStep(s), meddled' = meddled, s \in meddled' => pane'[s].model = pane[s].model /\ pane'[s].effort = pane[s].effort
  PROVE  PaneMoved(s)
  BY DEF PaneStep, PaneMoved

LEMMA StillMoves ==
  ASSUME FleetTypes, NEW s \in Receiver, UNCHANGED <<pane, got>>
  PROVE  PaneMoved(s)
  BY DEF FleetTypes, PaneMoved

(* What the command has to type is what it may.                            *)
LEMMA WhatItTypes ==
  ASSUME TypesWhat, cmd.pc \in {"paste", "enter"}
  PROVE  /\ cmd.typing # <<>> /\ Head(cmd.typing) \in Typable
         /\ \/ cmd.then = "settle" /\ Head(cmd.typing) = "/compact" /\ Len(cmd.typing) = 1 /\ fleetSetup.kind # "model" /\ ~cmd.asked
            \/ cmd.then = "confirm" /\ Head(cmd.typing) = "body" /\ Len(cmd.typing) = 1 /\ fleetSetup.kind # "model"
            \/ cmd.then = "verify" /\ Head(cmd.typing) \in {"/model", "/effort"} /\ fleetSetup.kind = "model"
<1>1. CASE cmd.then = "settle" /\ cmd.typing = <<"/compact">> /\ fleetSetup.kind # "model"
  BY <1>1, TypableHas DEF TypesWhat
<1>2. CASE cmd.then = "confirm" /\ cmd.typing = <<"body">> /\ fleetSetup.kind # "model"
  BY <1>2, TypableHas
<1>3. CASE cmd.then = "verify" /\ cmd.typing \in Seq({"/model", "/effort"}) /\ cmd.typing # <<>> /\ fleetSetup.kind = "model"
  <2>1. Head(cmd.typing) \in {"/model", "/effort"}
    BY <1>3, TailIs
  <2> QED
    BY <1>3, <2>1, TypableHas
<1> QED
  BY <1>1, <1>2, <1>3 DEF TypesWhat

LEMMA PasteMoves ==
  ASSUME FleetInv, cmd.pc = "paste", pane' = [pane EXCEPT ![cmd.s] = Pasted(pane[cmd.s], Head(cmd.typing))], UNCHANGED <<got, meddled, fleetSetup>>
  PROVE  /\ PaneMoved(cmd.s)
         /\ fleetSetup.kind # "model" /\ cmd.asked /\ ~cmd.dialog => ~InBox(pane'[cmd.s])
         /\ pane[cmd.s].state # "dialog" => Head(cmd.typing) \in Range(pane'[cmd.s].box)
<1> DEFINE s == cmd.s
           p == pane[cmd.s]
           q == pane'[cmd.s]
           text == Head(cmd.typing)
<1>t. FleetTypes /\ TypesWhat /\ (fleetSetup.kind # "model" => CompactInv(cmd, p)) /\ s \in Receiver
  BY DEF FleetInv, FleetTypes
<1>1. /\ text \in Typable
      /\ \/ cmd.then = "settle" /\ text = "/compact" /\ fleetSetup.kind # "model" /\ ~cmd.asked
         \/ cmd.then = "confirm" /\ text = "body"
         \/ cmd.then = "verify" /\ text \in {"/model", "/effort"} /\ fleetSetup.kind = "model"
  BY <1>t, WhatItTypes
<1>2. IsPane(p, Typable) /\ Once(p)
  BY <1>t DEF FleetTypes
<1>3. PastedTo(p, Pasted(p, text), text)
  BY <1>2, KeysAre
<1>4. DOMAIN pane' = Receiver /\ q = Pasted(p, text) /\ \A t \in Receiver : t # s => pane'[t] = pane[t]
  BY <1>t, OnePane
<1>5. PastedTo(p, q, text)
  BY <1>3, <1>4
<1>6. text = "/compact" => Nowhere(p)
  BY <1>1, <1>t DEF CompactInv
<1> HIDE DEF text
<1>7. /\ IsPane(q, Typable) /\ Once(q) /\ (text # "/compact" => (InBox(q) => InBox(p)))
      /\ (p.state # "dialog" => text \in Range(q.box))
  BY <1>1, <1>2, <1>5, <1>6, PasteKeeps
<1>8. PaneMoved(s)
  BY <1>4, <1>5, <1>7, <1>t DEF PaneMoved, PastedTo, FleetTypes
<1>9. fleetSetup.kind # "model" /\ cmd.asked /\ ~cmd.dialog => ~InBox(q)
  BY <1>1, <1>7, <1>t DEF CompactInv
<1> QED
  BY <1>7, <1>8, <1>9 DEF text

(* The keys were given up.                                                 *)
LEMMA NotTypedKeeps ==
  ASSUME FleetInv, cmd.pc \in {"paste", "enter"}, NotTyped, UNCHANGED <<meddled, fleetSetup>>, PaneMoved(cmd.s),
         fleetSetup.kind # "model" /\ cmd.asked /\ ~cmd.dialog => ~InBox(pane'[cmd.s])
  PROVE  FleetInv'
<1>t. FleetTypes /\ TypesWhat /\ CompactsFirst /\ cmd.asked \in BOOLEAN /\ cmd.early \in BOOLEAN /\ cmd.dialog \in BOOLEAN /\ cmd.said = 9
  BY DEF FleetInv, FleetTypes, FleetIsHonest
<1>1. OnlyItsPlace /\ row' = row /\ ((cmd'.pc = "over" /\ cmd'.said = 3) \/ (cmd'.pc = "verify" /\ cmd'.said = 9 /\ fleetSetup.kind = "model"))
  <2>1. CASE fleetSetup.kind = "model"
    BY <2>1, <1>t, ZenonT(60) DEF NotTyped, FleetTypes, OnlyItsPlace, NoCmd
  <2>2. CASE fleetSetup.kind # "model"
    BY <2>2, <1>t, ZenonT(60) DEF NotTyped, ExitsWith, FleetTypes, OnlyItsPlace, NoCmd
  <2> QED
    BY <2>1, <2>2
<1>2. TypesWhat'
  BY <1>t, <1>1 DEF TypesWhat, OnlyItsPlace
<1>3. fleetSetup.kind # "model" => CompactInv(cmd', pane'[cmd.s])
  BY <1>1 DEF CompactInv, OnlyItsPlace
<1>4. BodyInv'
  BY <1>1 DEF BodyInv
<1>5. CompactsFirst'
  BY <1>t, <1>1 DEF CompactsFirst, OnlyItsPlace
<1> QED
  BY <1>t, <1>1, <1>2, <1>3, <1>4, <1>5, KeysKeep DEF OnlyItsPlace

LEMMA PastesKeeps ==
  ASSUME FleetInv, Pastes
  PROVE  FleetInv'
<1> DEFINE p == pane[cmd.s]
           q == pane'[cmd.s]
           text == Head(cmd.typing)
           compacts == p.state = "compacting" \/ \E i \in 1..Len(p.queue) : "/compact" \in Range(p.queue[i])
<1>t. FleetTypes /\ TypesWhat /\ CompactsFirst /\ (fleetSetup.kind # "model" => CompactInv(cmd, p)) /\ cmd.pc = "paste" /\ cmd.s \in Receiver
      /\ cmd.asked \in BOOLEAN /\ cmd.early \in BOOLEAN /\ cmd.dialog \in BOOLEAN /\ cmd.said = 9
  BY DEF FleetInv, FleetTypes, FleetIsHonest, Pastes, CmdAt
<1>u. UNCHANGED <<got, meddled, fleetSetup>>
  BY DEF Pastes, CmdAt
<1>w. \/ cmd.then = "settle" /\ text = "/compact" /\ fleetSetup.kind # "model" /\ ~cmd.asked
      \/ cmd.then = "confirm" /\ text = "body" /\ fleetSetup.kind # "model"
      \/ cmd.then = "verify" /\ text \in {"/model", "/effort"} /\ fleetSetup.kind = "model"
  BY <1>t, WhatItTypes
<1>1. CASE /\ pane' = [pane EXCEPT ![cmd.s] = Pasted(p, text)] /\ row' = row
           /\ cmd' = [cmd EXCEPT !.pc = "enter", !.dialog = @ \/ p.state = "dialog", !.early = @ \/ (text = "body" /\ cmd.asked /\ compacts)]
  <2>1. /\ PaneMoved(cmd.s)
        /\ fleetSetup.kind # "model" /\ cmd.asked /\ ~cmd.dialog => ~InBox(q)
        /\ p.state # "dialog" => text \in Range(q.box)
    BY <1>1, <1>t, <1>u, PasteMoves
  <2> HIDE DEF text, compacts
  <2>2. DOMAIN cmd' = DOMAIN NoCmd /\ cmd'.s = cmd.s /\ cmd'.pc = "enter" /\ cmd'.said = cmd.said /\ cmd'.typing = cmd.typing /\ cmd'.then = cmd.then /\ cmd'.asked = cmd.asked
    BY <1>1, <1>t DEF FleetTypes, NoCmd
  <2>3. cmd'.dialog = (cmd.dialog \/ p.state = "dialog") /\ cmd'.early = (cmd.early \/ (text = "body" /\ cmd.asked /\ compacts))
    BY <1>1, <1>t DEF FleetTypes, NoCmd
  <2>4. compacts => ~Nowhere(p)
    BY DEF compacts, Nowhere, InQueue, Has
  <2>5. text = "body" /\ cmd.asked /\ ~cmd.dialog => Nowhere(p)
    BY <1>t, <1>w DEF CompactInv
  <2>6. cmd'.dialog \in BOOLEAN /\ cmd'.early \in BOOLEAN /\ (cmd'.early => cmd'.dialog) /\ (cmd.dialog => cmd'.dialog)
    BY <1>t, <2>3, <2>4, <2>5 DEF CompactsFirst
  <2>7. TypesWhat'
    BY <1>t, <1>u, <2>2 DEF TypesWhat
  <2>8. fleetSetup.kind # "model" => CompactInv(cmd', q)
    BY <1>t, <2>1, <2>2, <2>6 DEF CompactInv
  <2>9. BodyInv'
    BY <1>w, <2>1, <2>2, <2>3 DEF BodyInv
  <2>10. CompactsFirst'
    BY <2>6 DEF CompactsFirst
  <2> QED
    BY <1>1, <1>t, <1>u, <2>1, <2>2, <2>6, <2>7, <2>8, <2>9, <2>10, KeysKeep
<1>2. ASSUME NotTyped, NEW landed \in BOOLEAN, pane' = IF landed THEN [pane EXCEPT ![cmd.s] = Pasted(p, text)] ELSE pane
      PROVE  FleetInv'
  <2>1. CASE landed
    BY <1>2, <1>t, <1>u, <2>1, PasteMoves, NotTypedKeeps
  <2>2. CASE ~landed
    <3>1. pane' = pane
      BY <1>2, <2>2
    <3>2. PaneMoved(cmd.s)
      BY <1>t, <1>u, <3>1, StillMoves
    <3>3. fleetSetup.kind # "model" /\ cmd.asked /\ ~cmd.dialog => ~InBox(q)
      BY <1>t, <3>1 DEF CompactInv
    <3> QED
      BY <1>2, <1>t, <1>u, <3>2, <3>3, NotTypedKeeps
  <2> QED
    BY <2>1, <2>2
<1> HIDE DEF text, compacts
<1>3. CASE NotTyped /\ \E landed \in BOOLEAN : pane' = IF landed THEN [pane EXCEPT ![cmd.s] = Pasted(p, text)] ELSE pane
  BY <1>2, <1>3
<1> QED
  BY <1>1, <1>3 DEF Pastes, text, compacts

LEMMA EntersKeeps ==
  ASSUME FleetInv, Enters
  PROVE  FleetInv'
<1> DEFINE p == pane[cmd.s]
           q == pane'[cmd.s]
           next == IF Len(cmd.typing) = 1 THEN cmd.then ELSE "paste"
<1>t. FleetTypes /\ TypesWhat /\ CompactsFirst /\ BodyInv /\ (fleetSetup.kind # "model" => CompactInv(cmd, p)) /\ cmd.pc = "enter" /\ cmd.s \in Receiver
      /\ cmd.asked \in BOOLEAN /\ cmd.early \in BOOLEAN /\ cmd.dialog \in BOOLEAN /\ cmd.said = 9
  BY DEF FleetInv, FleetTypes, FleetIsHonest, Enters, CmdAt
<1>u. UNCHANGED <<meddled, fleetSetup>>
  BY DEF Enters, CmdAt
<1>w. \/ cmd.then = "settle" /\ next = "settle" /\ fleetSetup.kind # "model" /\ ~cmd.asked
      \/ cmd.then = "confirm" /\ next = "confirm" /\ fleetSetup.kind # "model"
      \/ cmd.then = "verify" /\ fleetSetup.kind = "model" /\ ~cmd.asked
         /\ (next = "verify" \/ (next = "paste" /\ Tail(cmd.typing) \in Seq({"/model", "/effort"}) /\ Tail(cmd.typing) # <<>>))
  <2>1. CASE cmd.then = "verify" /\ cmd.typing \in Seq({"/model", "/effort"}) /\ cmd.typing # <<>> /\ fleetSetup.kind = "model"
    <3>0. Tail(cmd.typing) \in Seq({"/model", "/effort"})
      BY <2>1, TailIs
    <3>1. Len(cmd.typing) # 1 => Tail(cmd.typing) # <<>>
      BY <2>1, MoreThanOne
    <3>2. ~cmd.asked
      BY <1>t, <2>1 DEF TypesWhat
    <3> QED
      BY <2>1, <3>0, <3>1, <3>2
  <2>2. CASE cmd.then = "settle" /\ cmd.typing = <<"/compact">> /\ fleetSetup.kind # "model"
    BY <1>t, <2>2, WhatItTypes
  <2>3. CASE cmd.then = "confirm" /\ cmd.typing = <<"body">> /\ fleetSetup.kind # "model"
    BY <2>3
  <2> QED
    BY <1>t, <2>1, <2>2, <2>3 DEF TypesWhat
<1> HIDE DEF next
(* The Enter, seen or not, was the last of its text.                       *)
<1>1. ASSUME DOMAIN cmd' = DOMAIN NoCmd, cmd'.s = cmd.s, cmd'.typing = Tail(cmd.typing), cmd'.then = cmd.then, cmd'.said = cmd.said, cmd'.early = cmd.early,
             cmd'.pc = next, cmd'.asked \in BOOLEAN, cmd'.dialog \in BOOLEAN, cmd.dialog => cmd'.dialog, cmd'.asked => cmd.asked \/ cmd.then = "settle",
             row' = row, PaneMoved(cmd.s), fleetSetup.kind # "model" /\ cmd'.asked /\ ~cmd'.dialog => ~InBox(q),
             "body" \in Range(p.box) \cup got[cmd.s] => "body" \in Range(q.box) \cup got'[cmd.s]
      PROVE  FleetInv'
  <2>1. TypesWhat'
    BY <1>1, <1>t, <1>u, <1>w DEF TypesWhat
  <2>2. fleetSetup.kind # "model" => CompactInv(cmd', q)
    BY <1>1, <1>w DEF CompactInv
  <2>3. BodyInv'
    BY <1>1, <1>t, <1>w DEF BodyInv
  <2>4. CompactsFirst'
    BY <1>1, <1>t DEF CompactsFirst
  <2>5. cmd'.pc # "over" /\ cmd'.said = 9
    BY <1>1, <1>t, <1>w
  <2> QED
    BY <1>1, <1>t, <1>u, <2>1, <2>2, <2>3, <2>4, <2>5, KeysKeep
<1>2. ASSUME pane' = [pane EXCEPT ![cmd.s] = Submitted(p)], Submits(cmd.s)
      PROVE  /\ PaneMoved(cmd.s) /\ (p.state # "dialog" => ~InBox(q)) /\ (~InBox(p) => ~InBox(q))
             /\ "body" \in Range(p.box) \cup got[cmd.s] => "body" \in Range(q.box) \cup got'[cmd.s]
  <2>1. PaneStep(cmd.s) /\ SubmittedTo(p, q) /\ (p.state # "dialog" => ~InBox(q))
    BY <1>2, <1>t, <1>u, EnterStep
  <2>2. PaneMoved(cmd.s)
    BY <1>t, <1>u, <2>1, StepMoves DEF SubmittedTo
  <2> QED
    BY <2>1, <2>2 DEF PaneStep, MovesTo
<1>3. CASE /\ pane' = [pane EXCEPT ![cmd.s] = Submitted(p)] /\ Submits(cmd.s) /\ row' = row
           /\ cmd' = [cmd EXCEPT !.typing = Tail(@), !.pc = next, !.asked = @ \/ cmd.then = "settle", !.dialog = @ \/ p.state = "dialog"]
  <2>1. DOMAIN cmd' = DOMAIN NoCmd /\ cmd'.s = cmd.s /\ cmd'.typing = Tail(cmd.typing) /\ cmd'.then = cmd.then /\ cmd'.said = cmd.said /\ cmd'.early = cmd.early /\ cmd'.pc = next
    BY <1>3, <1>t DEF FleetTypes, NoCmd
  <2>2. cmd'.asked = (cmd.asked \/ cmd.then = "settle") /\ cmd'.dialog = (cmd.dialog \/ p.state = "dialog")
    BY <1>3, <1>t DEF FleetTypes, NoCmd
  <2>3. cmd'.asked \in BOOLEAN /\ cmd'.dialog \in BOOLEAN /\ (cmd.dialog => cmd'.dialog) /\ (cmd'.asked => cmd.asked \/ cmd.then = "settle")
    BY <1>t, <2>2
  <2>4. fleetSetup.kind # "model" /\ cmd'.asked /\ ~cmd'.dialog => ~InBox(q)
    BY <1>2, <1>3, <2>2
  <2> QED
    BY <1>1, <1>2, <1>3, <2>1, <2>3, <2>4
<1>4. CASE UNCHANGED <<pane, got>> /\ row' = row /\ cmd' = [cmd EXCEPT !.typing = Tail(@), !.pc = next]
  <2>1. DOMAIN cmd' = DOMAIN NoCmd /\ cmd'.s = cmd.s /\ cmd'.typing = Tail(cmd.typing) /\ cmd'.then = cmd.then /\ cmd'.said = cmd.said /\ cmd'.early = cmd.early /\ cmd'.pc = next
        /\ cmd'.asked = cmd.asked /\ cmd'.dialog = cmd.dialog
    BY <1>4, <1>t DEF FleetTypes, NoCmd
  <2>2. PaneMoved(cmd.s)
    BY <1>4, <1>t, StillMoves
  <2>3. fleetSetup.kind # "model" /\ cmd'.asked /\ ~cmd'.dialog => ~InBox(q)
    BY <1>4, <1>t, <2>1 DEF CompactInv
  <2> QED
    BY <1>1, <1>4, <1>t, <2>1, <2>2, <2>3
<1>5. CASE NotTyped /\ UNCHANGED <<pane, got>>
  <2>1. PaneMoved(cmd.s)
    BY <1>5, <1>t, StillMoves
  <2>2. fleetSetup.kind # "model" /\ cmd.asked /\ ~cmd.dialog => ~InBox(q)
    BY <1>5, <1>t DEF CompactInv
  <2> QED
    BY <1>5, <1>t, <1>u, <2>1, <2>2, NotTypedKeeps
<1>6. CASE NotTyped /\ pane' = [pane EXCEPT ![cmd.s] = Submitted(p)] /\ Submits(cmd.s)
  <2>1. fleetSetup.kind # "model" /\ cmd.asked /\ ~cmd.dialog => ~InBox(q)
    BY <1>2, <1>6, <1>t DEF CompactInv
  <2> QED
    BY <1>2, <1>6, <1>t, <1>u, <2>1, NotTypedKeeps
<1> QED
  BY <1>3, <1>4, <1>5, <1>6 DEF Enters, OnlyReads, next

-----------------------------------------------------------------------------

LEMMA FleetInvInit == FleetInit => FleetInv
<1> SUFFICES ASSUME NEW x \in FleetSetups, FleetStart(x) PROVE FleetInv
  BY DEF FleetInit
<1>1. /\ DOMAIN cmd = DOMAIN NoCmd /\ cmd.s \in Receiver /\ cmd.pc = "begin" /\ cmd.said = 9 /\ ~cmd.asked /\ ~cmd.early /\ ~cmd.dialog
      /\ cmd.asked \in BOOLEAN /\ cmd.early \in BOOLEAN /\ cmd.dialog \in BOOLEAN
  BY FleetAssumption DEF FleetStart, NoCmd
<1>2. DOMAIN pane = Receiver /\ \A s \in Receiver : pane[s] = Quiet
  BY DEF FleetStart
<1>3. \A T : IsPane(Quiet, T)
  <2> TAKE T
  <2>1. <<>> \in Seq(T) /\ <<>> \in Seq(Seq(T))
    OBVIOUS
  <2> QED
    BY <2>1 DEF IsPane, Quiet, Models
<1>4. Quiet.queue = <<>> /\ Quiet.box = <<>> /\ Quiet.state = "idle" /\ ~Quiet.held
  BY DEF Quiet
<1>5. Nowhere(Quiet) /\ Once(Quiet)
  BY <1>4, EmptyHas DEF Nowhere, Once, InBox, InQueue
<1>6. DOMAIN got = Receiver /\ DOMAIN row = Receiver /\ \A s \in Receiver : DOMAIN row[s] = {"result", "tries"} /\ row[s].result # "ok"
  BY DEF FleetStart
<1>7. FleetTypes
  BY <1>1, <1>2, <1>3, <1>5, <1>6 DEF FleetTypes
<1>8. TypesWhat /\ BodyInv
  BY <1>1 DEF TypesWhat, BodyInv
<1>9. CompactInv(cmd, pane[cmd.s])
  BY <1>1, <1>2, <1>5 DEF CompactInv
<1>10. FleetIsHonest
  BY <1>1, <1>6 DEF FleetIsHonest, SentWasSubmitted, CompactsFirst, OkIsSwitched
<1> QED
  BY <1>7, <1>8, <1>9, <1>10 DEF FleetInv

LEMMA FleetInvNext == FleetInv /\ [FleetNext]_fleetvars => FleetInv'
<1> SUFFICES ASSUME FleetInv, [FleetNext]_fleetvars PROVE FleetInv'
  OBVIOUS
<1>t. FleetTypes
  BY DEF FleetInv
<1>1. CASE UNCHANGED fleetvars
  BY <1>1 DEF fleetvars, FleetInv, FleetTypes, TypesWhat, BodyInv, FleetIsHonest, SentWasSubmitted, CompactsFirst, OkIsSwitched, Shows, Typable
<1>2. ASSUME NEW s \in Receiver,
             AgentTakes(s) \/ TurnEnds(s) \/ Stalls(s) \/ IsAnswered(s) \/ Drafts(s) \/ UserEnters(s) \/ Meddles(s)
      PROVE  FleetInv'
  BY <1>2, <1>t, AgentStepKeeps, AgentKeepsInv
<1>3. ASSUME NEW s \in Receiver, Sweeps(s) PROVE FleetInv'
  BY <1>3, SweepsKeeps
<1> QED
  BY <1>1, <1>2, <1>3, PastesKeeps, EntersKeeps, SendBeginsKeeps, SettleKeeps, WaitsKeeps, ConfirmsKeeps, VerifiesKeeps, SweepsEndKeeps
     DEF FleetNext, FleetOver

(* `send` says sent only of a prompt that was submitted, types it after    *)
(* `--compact` only when that is over, and `model` says ok only of what    *)
(* runs (_send_one, wait_for_idle, _confirm_submitted, run_switch): for    *)
(* any number of sessions and retries, whatever the agents, their users    *)
(* and psmux do meanwhile.                                                 *)
THEOREM FleetIsHonestHolds == FleetSpec => []FleetIsHonest
<1>1. FleetInv => FleetIsHonest
  BY DEF FleetInv
<1> QED
  BY <1>1, FleetInvInit, FleetInvNext, PTL DEF FleetSpec

-----------------------------------------------------------------------------
(* Attach: the panes, and the sweep of the dead ones.                      *)

PaneTypes ==
  /\ world \in AttachSetups /\ DOMAIN panes = Win
  /\ \A w \in OpenWindows : /\ DOMAIN panes[w] = {"sid", "kind", "where", "rc", "missing"}
                            /\ panes[w].sid \in world.sids /\ panes[w].missing \in Nat
  /\ lost \subseteq Sid /\ alive \subseteq world.sids /\ ups \subseteq world.sids /\ toOpen \subseteq world.sids

(* A session that is not there went at some time.                          *)
WhoIsGoneWent == world.sids \ alive \subseteq lost

(* A supervised pane that nobody left and whose session never went goes on *)
(* and has only lost connections to tell of.                               *)
PaneGoesOn == \A w \in OpenWindows :
  panes[w].kind = "supervised" /\ w \notin userLeft /\ panes[w].sid \notin lost =>
    panes[w].where # "stopped" /\ (panes[w].where = "probe" => panes[w].rc = 255)

(* What the scan found dead stays so: no client comes back to life, and no *)
(* other is started before the sweep.                                      *)
DeadAreDead == at \in {"close", "reclose"} => \A w \in Win : Marked(w) => panes[w].sid \notin dead

AttachInv == PaneTypes /\ WhoIsGoneWent /\ PaneGoesOn /\ DeadAreDead

(* One pane goes on.                                                       *)
LEMMA PaneMoves ==
  ASSUME AttachInv, UNCHANGED <<alive, link, lost, cmdvars, world>>, userLeft \subseteq userLeft', NEW w \in OpenWindows, Lives(w),
         NEW p, panes' = [panes EXCEPT ![w] = p], DOMAIN p = {"sid", "kind", "where", "rc", "missing"},
         p.sid = panes[w].sid, p.kind = panes[w].kind, p.missing \in Nat,
         p.kind = "supervised" /\ w \notin userLeft' /\ p.sid \notin lost => p.where # "stopped" /\ (p.where = "probe" => p.rc = 255)
  PROVE  AttachInv'
<1>1. w \in Win /\ panes'[w] = p /\ DOMAIN panes' = Win /\ \A v \in Win \ {w} : panes'[v] = panes[v]
  BY DEF AttachInv, PaneTypes, OpenWindows
<1>2. OpenWindows' \subseteq OpenWindows /\ \A v \in OpenWindows' : panes'[v] = IF v = w THEN p ELSE panes[v]
  BY <1>1 DEF OpenWindows
<1>3. PaneTypes'
  BY <1>1, <1>2 DEF AttachInv, PaneTypes, cmdvars
<1>4. WhoIsGoneWent'
  BY DEF AttachInv, WhoIsGoneWent
<1>5. PaneGoesOn'
  <2> SUFFICES ASSUME NEW v \in OpenWindows', panes'[v].kind = "supervised", v \notin userLeft', panes'[v].sid \notin lost
               PROVE  panes'[v].where # "stopped" /\ (panes'[v].where = "probe" => panes'[v].rc = 255)
    BY DEF PaneGoesOn
  <2> QED
    BY <1>2 DEF AttachInv, PaneGoesOn
<1>6. DeadAreDead'
  <2> SUFFICES ASSUME at \in {"close", "reclose"}, NEW v \in Win, Marked(v)' PROVE panes'[v].sid \notin dead
    BY DEF DeadAreDead, cmdvars
  <2>1. Marked(v) /\ panes'[v].sid = panes[v].sid
    BY <1>1, <1>2 DEF Marked, Lives
  <2> QED
    BY <2>1 DEF AttachInv, DeadAreDead
<1> QED
  BY <1>3, <1>4, <1>5, <1>6 DEF AttachInv

(* Windows are closed, each with what is noted of its user.                *)
LEMMA WindowsClose ==
  ASSUME AttachInv, NEW shut, userLeft' = userLeft \ shut, DOMAIN panes' = Win,
         \A w \in Win : panes'[w] = IF w \in shut THEN NoWindow ELSE panes[w],
         lost \subseteq lost', lost' \subseteq Sid, world' = world, alive' \subseteq world.sids, ups' \subseteq world.sids, toOpen' \subseteq world.sids,
         world.sids \ alive' \subseteq lost', at' \in {"close", "reclose"} => at' = at /\ dead' = dead
  PROVE  AttachInv'
<1>1. \A w \in OpenWindows' : w \in OpenWindows /\ panes'[w] = panes[w] /\ w \notin shut
  BY DEF OpenWindows
<1>2. PaneTypes'
  BY <1>1 DEF AttachInv, PaneTypes
<1>3. WhoIsGoneWent'
  BY DEF WhoIsGoneWent
<1>4. PaneGoesOn'
  BY <1>1 DEF AttachInv, PaneGoesOn
<1>5. DeadAreDead'
  BY <1>1 DEF AttachInv, DeadAreDead, Marked, Lives
<1> QED
  BY <1>2, <1>3, <1>4, <1>5 DEF AttachInv

(* A window opens, while no sweep is under way or none will count it.      *)
LEMMA WindowOpens ==
  ASSUME AttachInv, UNCHANGED <<alive, link, lost, world>>, userLeft' = userLeft, ups' = ups, toOpen' \subseteq toOpen,
         NEW w \in Win, NEW s \in world.sids, NEW sort \in PaneKinds, OpensWindow(w, s, sort),
         at' = at, at \notin {"close", "reclose"}
  PROVE  AttachInv'
<1>1. PICK where \in {"dial", "stopped"} : (where = "stopped" => sort = "bare") /\
           panes' = [panes EXCEPT ![w] = [sid |-> s, kind |-> sort, where |-> where, rc |-> 0, missing |-> 0]]
  BY DEF OpensWindow
<1> DEFINE p == [sid |-> s, kind |-> sort, where |-> where, rc |-> 0, missing |-> 0]
<1>2. DOMAIN p = {"sid", "kind", "where", "rc", "missing"} /\ p.sid = s /\ p.kind = sort /\ p.where = where /\ p.missing = 0
  OBVIOUS
<1>3. panes' = [panes EXCEPT ![w] = p]
  BY <1>1
<1> HIDE DEF p
<1>4. DOMAIN panes' = Win /\ panes'[w] = p /\ \A v \in Win \ {w} : panes'[v] = panes[v]
  BY <1>3 DEF AttachInv, PaneTypes
<1>5. \A v \in OpenWindows' : panes'[v] = p \/ (v \in OpenWindows /\ panes'[v] = panes[v])
  BY <1>4 DEF OpenWindows
<1>6. PaneTypes'
  BY <1>2, <1>4, <1>5 DEF AttachInv, PaneTypes
<1>7. WhoIsGoneWent'
  BY DEF AttachInv, WhoIsGoneWent
<1>8. PaneGoesOn'
  <2> SUFFICES ASSUME NEW v \in OpenWindows', panes'[v].kind = "supervised", v \notin userLeft', panes'[v].sid \notin lost'
               PROVE  panes'[v].where # "stopped" /\ (panes'[v].where = "probe" => panes'[v].rc = 255)
    BY DEF PaneGoesOn
  <2> QED
    BY <1>1, <1>2, <1>5 DEF AttachInv, PaneGoesOn
<1>9. DeadAreDead'
  BY DEF DeadAreDead
<1> QED
  BY <1>6, <1>7, <1>8, <1>9 DEF AttachInv

(* No pane changes.                                                        *)
LEMMA PanesStay ==
  ASSUME AttachInv, UNCHANGED <<panes, userLeft, world>>, lost \subseteq lost', lost' \subseteq Sid,
         alive' \subseteq world.sids, ups' \subseteq world.sids, toOpen' \subseteq world.sids, world.sids \ alive' \subseteq lost',
         DeadAreDead'
  PROVE  AttachInv'
<1>1. OpenWindows' = OpenWindows
  BY DEF OpenWindows
<1>2. PaneTypes'
  BY <1>1 DEF AttachInv, PaneTypes
<1>3. PaneGoesOn'
  BY <1>1 DEF AttachInv, PaneGoesOn
<1>4. WhoIsGoneWent'
  BY DEF WhoIsGoneWent
<1> QED
  BY <1>2, <1>3, <1>4 DEF AttachInv

LEMMA DeadStayDead ==
  ASSUME AttachInv, UNCHANGED <<panes, at, dead>> PROVE DeadAreDead'
BY DEF AttachInv, DeadAreDead, Marked, Lives, OpenWindows

(* A pane's record with a new place, an exit code, a count.                *)
LEMMA PaneEdits ==
  ASSUME NEW r, DOMAIN r = {"sid", "kind", "where", "rc", "missing"}, NEW where, NEW rc, NEW missing
  PROVE  /\ LET p == [r EXCEPT !.where = where] IN
              DOMAIN p = DOMAIN r /\ p.sid = r.sid /\ p.kind = r.kind /\ p.where = where /\ p.rc = r.rc /\ p.missing = r.missing
         /\ LET p == [r EXCEPT !.where = where, !.rc = rc] IN
              DOMAIN p = DOMAIN r /\ p.sid = r.sid /\ p.kind = r.kind /\ p.where = where /\ p.rc = rc /\ p.missing = r.missing
         /\ LET p == [r EXCEPT !.where = where, !.missing = missing, !.rc = rc] IN
              DOMAIN p = DOMAIN r /\ p.sid = r.sid /\ p.kind = r.kind /\ p.where = where /\ p.rc = rc /\ p.missing = missing
OBVIOUS

(* One move of a pane that runs, by what its record becomes.               *)
LEMMA PaneGoesTo ==
  ASSUME AttachInv, world' = world, userLeft \subseteq userLeft', NEW w \in OpenWindows, Lives(w), NEW where, PaneGoes(w, where),
         w \in userLeft' \/ where \notin {"stopped", "probe"}
  PROVE  AttachInv'
<1> DEFINE p == [panes[w] EXCEPT !.where = where]
<1>1. DOMAIN panes[w] = {"sid", "kind", "where", "rc", "missing"} /\ panes[w].missing \in Nat
  BY DEF AttachInv, PaneTypes
<1>2. DOMAIN p = DOMAIN panes[w] /\ p.sid = panes[w].sid /\ p.kind = panes[w].kind /\ p.where = where /\ p.missing = panes[w].missing
  BY <1>1, PaneEdits
<1>3. panes' = [panes EXCEPT ![w] = p] /\ UNCHANGED <<alive, link, lost, cmdvars>>
  BY DEF PaneGoes, Moves
<1> HIDE DEF p
<1> QED
  BY <1>1, <1>2, <1>3, PaneMoves

(* A connection ends: a pane whose user did not leave and whose session    *)
(* never went lost it to the link.                                         *)
LEMMA PaneEnds ==
  ASSUME AttachInv, world' = world, userLeft \subseteq userLeft', NEW w \in OpenWindows, Lives(w), NEW rc,
         Moves(w, [panes[w] EXCEPT !.where = "probe", !.rc = rc]),
         w \in userLeft' \/ panes[w].sid \in lost \/ panes[w].kind = "nomux" \/ rc = 255
  PROVE  AttachInv'
<1> DEFINE p == [panes[w] EXCEPT !.where = "probe", !.rc = rc]
<1>1. DOMAIN panes[w] = {"sid", "kind", "where", "rc", "missing"} /\ panes[w].missing \in Nat
  BY DEF AttachInv, PaneTypes
<1>2. /\ DOMAIN p = DOMAIN panes[w] /\ p.sid = panes[w].sid /\ p.kind = panes[w].kind /\ p.where = "probe" /\ p.rc = rc
      /\ p.missing = panes[w].missing
  BY <1>1, PaneEdits
<1>3. panes' = [panes EXCEPT ![w] = p] /\ UNCHANGED <<alive, link, lost, cmdvars>>
  BY DEF Moves
<1> HIDE DEF p
<1>4. p.kind = "supervised" /\ w \notin userLeft' /\ p.sid \notin lost => p.where # "stopped" /\ (p.where = "probe" => p.rc = 255)
  BY <1>2
<1>5. UNCHANGED <<alive, link, lost, cmdvars, world>>
  BY <1>3
<1>6. DOMAIN p = {"sid", "kind", "where", "rc", "missing"} /\ p.sid = panes[w].sid /\ p.kind = panes[w].kind /\ p.missing \in Nat
  BY <1>1, <1>2
<1>7. panes' = [panes EXCEPT ![w] = p]
  BY <1>3

<1> QED
  BY <1>4, <1>5, <1>6, <1>7, PaneMoves

LEMMA AttachInvInit == AttachInit => AttachInv
<1> SUFFICES ASSUME AttachInit PROVE AttachInv
  OBVIOUS
<1>1. OpenWindows = {}
  BY DEF AttachInit, AttachStart, OpenWindows
<1> QED
  BY <1>1 DEF AttachInit, AttachStart, AttachInv, PaneTypes, WhoIsGoneWent, PaneGoesOn, DeadAreDead

LEMMA AttachInvNext == AttachInv /\ [AttachNext]_attachvars => AttachInv'
<1> SUFFICES ASSUME AttachInv, [AttachNext]_attachvars PROVE AttachInv'
  OBVIOUS
<1>0. /\ alive \subseteq world.sids /\ ups \subseteq world.sids /\ toOpen \subseteq world.sids /\ world.sids \ alive \subseteq lost
      /\ world.sids \subseteq Sid /\ lost \subseteq Sid
      /\ \A w \in OpenWindows : /\ w \in Win /\ panes[w].sid \in world.sids /\ panes[w].missing \in Nat
                                /\ DOMAIN panes[w] = {"sid", "kind", "where", "rc", "missing"}
  BY AttachAssumption DEF AttachInv, PaneTypes, WhoIsGoneWent, OpenWindows
<1>w. world' = world
  BY DEF AttachNext, attachvars
<1>1. CASE LinkFlaps
  BY <1>0, <1>1, <1>w, PanesStay, DeadStayDead DEF LinkFlaps, cmdvars
<1>2. ASSUME NEW s \in world.sids, SessionEnds(s) PROVE AttachInv'
  <2>1. alive' \subseteq world.sids /\ world.sids \ alive' \subseteq lost' /\ lost \subseteq lost' /\ lost' \subseteq Sid
    BY <1>0, <1>2 DEF SessionEnds
  <2> QED
    BY <1>0, <1>2, <1>w, <2>1, PanesStay, DeadStayDead DEF SessionEnds, cmdvars
<1>3. ASSUME NEW s \in world.sids, SessionReturns(s) PROVE AttachInv'
  <2>1. alive' \subseteq world.sids /\ world.sids \ alive' \subseteq lost' /\ lost \subseteq lost' /\ lost' \subseteq Sid
    BY <1>0, <1>3 DEF SessionReturns
  <2> QED
    BY <1>0, <1>3, <1>w, <2>1, PanesStay, DeadStayDead DEF SessionReturns, cmdvars
<1>4. ASSUME NEW w \in world.wins, Leaves(w) PROVE AttachInv'
  <2>1. w \in OpenWindows /\ userLeft \subseteq userLeft' /\ w \in userLeft'
    BY <1>4 DEF Leaves
  <2>2. Lives(w)
    BY <1>4 DEF Leaves, Lives
  <2>3. CASE \E rc \in {0, 1} : Moves(w, [panes[w] EXCEPT !.where = "probe", !.rc = rc])
    BY <1>w, <2>1, <2>2, <2>3, PaneEnds
  <2>4. CASE PaneGoes(w, "stopped")
    BY <1>w, <2>1, <2>2, <2>4, PaneGoesTo
  <2> QED
    BY <1>4, <2>3, <2>4 DEF Leaves
<1>5. ASSUME NEW w \in world.wins, CloseIt(w) PROVE AttachInv'
  <2>1. w \in Win /\ DOMAIN panes = Win
    BY <1>5 DEF CloseIt, OpenWindows, AttachInv, PaneTypes
  <2>2. userLeft' = userLeft \ {w} /\ DOMAIN panes' = Win /\ \A v \in Win : panes'[v] = IF v \in {w} THEN NoWindow ELSE panes[v]
    BY <1>5, <2>1 DEF CloseIt, Moves
  <2> QED
    BY <1>0, <1>5, <1>w, <2>2, WindowsClose DEF CloseIt, Moves, cmdvars
<1>6. ASSUME NEW w \in world.wins, Dial(w) PROVE AttachInv'
  <2>1. w \in OpenWindows /\ userLeft' = userLeft /\ Lives(w)
    BY <1>6 DEF Dial, Lives
  <2>2. CASE Moves(w, [panes[w] EXCEPT !.where = "probe", !.rc = 255])
    BY <1>w, <2>1, <2>2, PaneEnds
  <2>3. CASE PaneGoes(w, "attached")
    BY <1>w, <2>1, <2>3, PaneGoesTo
  <2>4. CASE panes[w].sid \notin alive /\ \E rc \in {0, 1} : Moves(w, [panes[w] EXCEPT !.where = "probe", !.rc = rc])
    BY <1>0, <1>w, <2>1, <2>4, PaneEnds
  <2>5. CASE PaneGoes(w, "picker")
    BY <1>w, <2>1, <2>5, PaneGoesTo
  <2> QED
    BY <1>6, <2>2, <2>3, <2>4, <2>5 DEF Dial
<1>7. ASSUME NEW w \in world.wins, Drops(w) PROVE AttachInv'
  <2>1. w \in OpenWindows /\ userLeft' = userLeft /\ Lives(w)
    BY <1>7 DEF Drops, Lives
  <2>2. CASE Moves(w, [panes[w] EXCEPT !.where = "probe", !.rc = 255])
    BY <1>w, <2>1, <2>2, PaneEnds
  <2>3. CASE panes[w].sid \notin alive /\ \E rc \in {0, 1} : Moves(w, [panes[w] EXCEPT !.where = "probe", !.rc = rc])
    BY <1>0, <1>w, <2>1, <2>3, PaneEnds
  <2> QED
    BY <1>7, <2>2, <2>3 DEF Drops
<1>8. ASSUME NEW w \in world.wins, Supervise(w) PROVE AttachInv'
  <2> DEFINE stops == \/ Outcome(w) \in {"detached", "failed"}
                      \/ panes[w].kind # "supervised"
                      \/ Misses(w) >= MissingMax
             p == [panes[w] EXCEPT !.where = IF stops THEN "stopped" ELSE "wait", !.missing = IF stops THEN 0 ELSE Misses(w), !.rc = 0]
  <2>1. w \in OpenWindows /\ userLeft' = userLeft /\ Lives(w) /\ panes[w].where = "probe" /\ Moves(w, p)
    BY <1>8 DEF Supervise, Lives
  <2>2. Misses(w) \in Nat /\ (Outcome(w) = "reconnect" => Misses(w) = 0)
    BY <1>0, <2>1 DEF Misses
  <2>3. panes[w].kind = "supervised" /\ panes[w].rc = 255 => ~stops
    <3> SUFFICES ASSUME panes[w].kind = "supervised", panes[w].rc = 255 PROVE ~stops
      OBVIOUS
    <3>1. Outcome(w) = "reconnect"
      BY DEF Outcome, Verdict
    <3> QED
      BY <2>2, <3>1, AttachAssumption
  <2>4. /\ DOMAIN p = DOMAIN panes[w] /\ p.sid = panes[w].sid /\ p.kind = panes[w].kind
        /\ p.where = (IF stops THEN "stopped" ELSE "wait") /\ p.missing = (IF stops THEN 0 ELSE Misses(w))
    <3> HIDE DEF stops
    <3> QED
      BY <1>0, <2>1, PaneEdits
  <2>5. panes' = [panes EXCEPT ![w] = p] /\ UNCHANGED <<alive, link, lost, cmdvars>>
    BY <2>1 DEF Moves
  <2> HIDE DEF stops, p
  <2>6. p.kind = "supervised" /\ w \notin userLeft' /\ p.sid \notin lost => p.where = "wait"
    BY <2>1, <2>3, <2>4 DEF AttachInv, PaneGoesOn
  <2>7. p.missing \in Nat
    BY <2>2, <2>4
  <2> QED
    BY <1>0, <1>w, <2>1, <2>4, <2>5, <2>6, <2>7, PaneMoves
<1>9. ASSUME NEW w \in world.wins, Redials(w) PROVE AttachInv'
  BY <1>9, <1>w, PaneGoesTo DEF Redials, Lives
<1>10. ASSUME NEW w \in world.wins, w \in Win, Spawn(w) PROVE AttachInv'
  <2>1. PICK s \in toOpen, sort \in {"supervised", "bare"} : OpensWindow(w, s, sort) /\ toOpen' = toOpen \ {s}
    BY <1>10 DEF Spawn
  <2> QED
    BY <1>0, <1>w, <1>10, <2>1, WindowOpens DEF Spawn, HostRests, PaneKinds
<1>11. ASSUME NEW w \in world.wins, w \in Win, NoMux(w) PROVE AttachInv'
  <2>1. PICK s \in world.sids : OpensWindow(w, s, "nomux")
    BY <1>11 DEF NoMux
  <2> QED
    BY <1>w, <1>11, <2>1, WindowOpens DEF NoMux, HostRests, PaneKinds, cmdvars
<1>12. CASE Query
  <2>1. DeadAreDead'
    BY <1>12 DEF Query, DeadAreDead
  <2> QED
    BY <1>0, <1>w, <1>12, <2>1, PanesStay DEF Query, HostRests
<1>13. CASE BringUp
  <2>1. DeadAreDead'
    BY <1>13 DEF BringUp, DeadAreDead
  <2>2. alive \subseteq alive' /\ alive' \subseteq world.sids /\ ups' \subseteq world.sids /\ toOpen' \subseteq world.sids
    BY <1>0, <1>13 DEF BringUp
  <2> QED
    BY <1>0, <1>w, <1>13, <2>1, <2>2, PanesStay DEF BringUp
<1>14. CASE Partition
  <2>1. DeadAreDead'
    BY <1>14 DEF Partition, DeadAreDead
  <2> QED
    BY <1>0, <1>w, <1>14, <2>1, PanesStay DEF Partition, HostRests
<1>15. CASE Scan
  <2>1. DeadAreDead'
    BY <1>15 DEF Scan, DeadAreDead, Corpses, Marked, Lives, OpenWindows
  <2> QED
    BY <1>0, <1>w, <1>15, <2>1, PanesStay DEF Scan, HostRests
<1>16. CASE Sweep
  <2>1. PICK shut \in SUBSET Win : Closing(dead, shut) /\ toOpen' \subseteq world.sids
    BY <1>0, <1>16 DEF Sweep
  <2>2. userLeft' = userLeft \ shut /\ DOMAIN panes' = Win /\ \A w \in Win : panes'[w] = IF w \in shut THEN NoWindow ELSE panes[w]
    BY <2>1 DEF Closing
  <2> QED
    BY <1>0, <1>w, <1>16, <2>1, <2>2, WindowsClose DEF Sweep, HostRests
<1>17. CASE Settle
  <2>1. DeadAreDead'
    BY <1>17 DEF Settle, DeadAreDead
  <2> QED
    BY <1>0, <1>w, <1>17, <2>1, PanesStay DEF Settle, HostRests
<1>18. CASE Down
  <2>1. CASE at' = "down" /\ (\E shut \in SUBSET OpenWindows : Closing(Sid, shut)) /\ UNCHANGED <<alive, lost>>
    <3>1. PICK shut \in SUBSET OpenWindows : Closing(Sid, shut)
      BY <2>1
    <3>2. userLeft' = userLeft \ shut /\ DOMAIN panes' = Win /\ \A w \in Win : panes'[w] = IF w \in shut THEN NoWindow ELSE panes[w]
      BY <3>1 DEF Closing
    <3> QED
      BY <1>0, <1>w, <1>18, <2>1, <3>2, WindowsClose DEF Down
  <2>2. CASE at' = "idle" /\ UNCHANGED <<panes, userLeft>> /\ ((alive' = {} /\ lost' = Sid) \/ UNCHANGED <<alive, lost>>)
    <3>1. DeadAreDead'
      BY <2>2 DEF DeadAreDead
    <3> QED
      BY <1>0, <1>w, <1>18, <2>2, <3>1, PanesStay DEF Down
  <2> QED
    BY <1>18, <2>1, <2>2 DEF Down
<1>19. CASE UNCHANGED attachvars
  BY <1>0, <1>19, PanesStay, DeadStayDead DEF attachvars, cmdvars
<1>20. ASSUME NEW w \in world.wins, Spawn(w) \/ NoMux(w) PROVE w \in Win
  BY AttachAssumption DEF AttachInv, PaneTypes
<1> QED
  BY <1>1, <1>2, <1>3, <1>4, <1>5, <1>6, <1>7, <1>8, <1>9, <1>10, <1>11, <1>12, <1>13, <1>14, <1>15, <1>16, <1>17, <1>18, <1>19, <1>20, Zenon
     DEF AttachNext

(* Attach.PanesAreKept, for any number of windows and sessions and outages *)
(* of any length.                                                          *)
THEOREM PanesAreKeptHolds == AttachSpec => PanesAreKept
<1>1. AttachInv => OutagesStopNoPane
  BY DEF AttachInv, PaneGoesOn, OutagesStopNoPane
<1>2. AttachInv /\ [AttachNext]_attachvars => [Sweep => \A w \in Win : Lives(w) /\ panes[w].kind # "nomux" => panes'[w] # NoWindow]_attachvars
  <2> SUFFICES ASSUME AttachInv, Sweep, NEW w \in Win, Lives(w), panes[w].kind # "nomux" PROVE panes'[w] # NoWindow
    OBVIOUS
  <2>1. PICK shut \in SUBSET Win : Closing(dead, shut)
    BY DEF Sweep
  <2>2. w \notin shut
    BY <2>1 DEF Closing, AttachInv, DeadAreDead, Marked, Sweep
  <2> QED
    BY <2>1, <2>2 DEF Closing, Lives, OpenWindows
<1> QED
  BY <1>1, <1>2, AttachInvInit, AttachInvNext, PTL DEF AttachSpec, PanesAreKept, LivePanesAreSpared

=============================================================================
