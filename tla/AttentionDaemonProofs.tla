----------------------- MODULE AttentionDaemonProofs -----------------------
(***************************************************************************)
(* For any number of pids, launches and supervising serves: while every    *)
(* launch outlives its child's start-up, every daemon is launched by       *)
(* `attention -d`, no stranger gets a daemon's pid and a decision on the   *)
(* record outruns a start-up, there is one daemon and the pid file names   *)
(* it.  And with none of those assumptions, a stopped daemon is not        *)
(* revived by a supervisor that looks after the stop.                      *)
(*                                                                         *)
(* And of the daemon's ticks (Attention), for any windows, sessions and    *)
(* mirrors: its badges tell the truth and its pages are news.              *)
(***************************************************************************)
EXTENDS AttentionDaemon, Attention, TLAPS

USE NobodyAssumption, LibertiesAssumption, MaxCrashesAssumption

(* A launcher that waits for nothing has no child.                         *)
NoChildYet == \A l \in Launcher : lpc[l] # "wait" => child[l] = Nobody

(* A child that has not registered has its launcher still waiting for it,  *)
(* and is not the process the pid file names.                              *)
StartIsAwaited ==
  \A d \in Daemon : st[d] = "starting" =>
    /\ pidFile # d
    /\ \E l \in Launcher : lpc[l] = "wait" /\ child[l] = d

(* Nobody interrupts a daemon here, and no stranger has its pid.           *)
NoOthers == \A d \in Daemon : st[d] \notin {"closing", "stranger"}

(* One process is on its way to being the daemon, or is it.                *)
OneAlive ==
  \A d, e \in Daemon : st[d] # "free" /\ st[e] # "free" => d = e

(* A daemon at work, or dying, is recorded.                                *)
Recorded ==
  \A d \in Daemon : st[d] \in Registered => pidFile = d /\ written = "since"

(* A read of a dead record, and a stop under way, concern no other daemon. *)
NothingSlow ==
  /\ reader # Nobody => \A d \in Daemon : st[d] \notin Registered
  /\ stopper.pc # "rest" =>
       /\ stopper.pid \in Daemon
       /\ \A d \in Daemon : st[d] \in Registered => d = stopper.pid

IInv == Orderly /\ TypeOK /\ NoChildYet /\ StartIsAwaited /\ NoOthers /\ OneAlive
          /\ Recorded /\ NothingSlow

LEMMA InitIInv == Init /\ Orderly => IInv
  BY DEF Init, IInv, TypeOK, NoChildYet, StartIsAwaited, NoOthers, OneAlive,
         Recorded, NothingSlow, Living, Registered

LEMMA NextIInv == IInv /\ [Next]_allvars => IInv'
<1> SUFFICES ASSUME IInv, [Next]_allvars PROVE IInv'
  OBVIOUS
<1>0. UNCHANGED liberty
  BY DEF Next, allvars
<1> USE <1>0 DEF Orderly, Patient, Foreground, PidReuse, Swift, IInv, TypeOK, NoChildYet, StartIsAwaited, NoOthers, OneAlive,
            Recorded, NothingSlow, Living, Registered, files, launch, super
<1>1. ASSUME NEW l \in Launcher, HumanLaunch(l) PROVE IInv'
  BY <1>1 DEF HumanLaunch, LauncherStarts
<1>2. ASSUME NEW l \in Launcher, LaunchLock(l) PROVE IInv'
  BY <1>2 DEF LaunchLock
<1>3. ASSUME NEW l \in Launcher, LaunchCheck(l) PROVE IInv'
  BY <1>3 DEF LaunchCheck, LaunchDone, TidyPidFile, LivePid, Unused
<1>4. ASSUME NEW l \in Launcher, LaunchAwait(l) PROVE IInv'
  BY <1>4 DEF LaunchAwait, LaunchDone, TidyPidFile, LivePid
<1>5. ASSUME NEW d \in Daemon, Register(d) PROVE IInv'
  BY <1>5 DEF Register
<1>6. ASSUME NEW d \in Daemon, StartFails(d) PROVE IInv'
  BY <1>6 DEF StartFails, Ends
<1>7. ASSUME NEW d \in Daemon, Pulse(d) PROVE IInv'
  BY <1>7 DEF Pulse
<1>8. ASSUME NEW d \in Daemon, Raise(d) PROVE IInv'
  BY <1>8 DEF Raise, ClearOwn, ForgetRecord, Ends
<1>9. ASSUME NEW d \in Daemon, Vanish(d) PROVE IInv'
  BY <1>9 DEF Vanish, Ends
<1>10. ASSUME NEW d \in Daemon,
              ForegroundStart(d) \/ Interrupt(d) \/ Closed(d) \/ Recycle(d)
       PROVE  IInv'
  BY <1>10 DEF ForegroundStart, Interrupt, Closed, Recycle
<1>11. ASSUME NEW s \in Serve, TickPid(s) PROVE IInv'
  BY <1>11 DEF TickPid, TidyPidFile, LivePid
<1>12. ASSUME NEW s \in Serve, TickAge(s) PROVE IInv'
  BY <1>12 DEF TickAge
<1>13. ASSUME NEW s \in Serve, TickSpawn(s) PROVE IInv'
  BY <1>13 DEF TickSpawn, LauncherStarts
<1>14. ASSUME NEW s \in Serve, CooldownEnds(s) PROVE IInv'
  BY <1>14 DEF CooldownEnds
<1>15. CASE HeartbeatAges
  BY <1>15 DEF HeartbeatAges
<1>16. CASE Reboot
  BY <1>16 DEF Reboot
<1>17. CASE StopRead
  BY <1>17 DEF StopRead, TidyPidFile, LivePid
<1>18. CASE StopClear
  BY <1>18 DEF StopClear
<1>19. CASE StopKill
  BY <1>19 DEF StopKill, KillGone, KillMismatch, KillFailed, Killed, StopOver,
     TidyPidFile, LivePid, ForgetRecord, Ends
<1>20. CASE StopConfirm
  BY <1>20 DEF StopConfirm, StopOver, ForgetRecord
<1>21. CASE StatusReads
  BY <1>21 DEF StatusReads, LivePid
<1>22. CASE StatusTidies
  BY <1>22 DEF StatusTidies, ForgetRecord
<1>23. CASE UNCHANGED vars
  BY <1>23 DEF vars
<1>24. QED
  BY <1>1, <1>2, <1>3, <1>4, <1>5, <1>6, <1>7, <1>8, <1>9, <1>10, <1>11, <1>12,
     <1>13, <1>14, <1>15, <1>16, <1>17, <1>18, <1>19, <1>20, <1>21, <1>22, <1>23
  DEF Next, allvars, LaunchStep, DaemonStep, DaemonFault, Tick, Stop

(* A behaviour that is not orderly stays so. *)
Disorderly == ~Orderly

LEMMA OrderlyInvariant == Spec => [](Orderly => IInv)
<1>1. Init => IInv \/ Disorderly
  BY InitIInv DEF Disorderly
<1>2. (IInv \/ Disorderly) /\ [Next]_allvars => IInv' \/ Disorderly'
  BY NextIInv DEF Disorderly, Orderly, Next, allvars
<1>3. IInv \/ Disorderly <=> (Orderly => IInv)
  BY DEF Disorderly, IInv
<1>4. QED
  BY <1>1, <1>2, <1>3, PTL DEF Spec

(* "Two serves on two ports, or a serve racing a human, end with one       *)
(* daemon" (DESIGN.md): for any number of serves, launches, crashes,       *)
(* restarts and stops of a behaviour that is Orderly.                      *)
THEOREM OneDaemonAlways == Spec => []OneDaemon
<1>1. (Orderly => IInv) => OneDaemon
  BY DEF IInv, OneAlive, OneDaemon, Registered
<1>2. QED
  BY <1>1, OrderlyInvariant, PTL

(* The daemon at work is always the one the pid file names: `status`,      *)
(* `attention -d` and `attention --stop` find it.                          *)
THEOREM DaemonIsRecorded == Spec => []RecordNamesTheDaemon
<1>1. (Orderly => IInv) => RecordNamesTheDaemon
  BY DEF IInv, Recorded, RecordNamesTheDaemon, Registered
<1>2. QED
  BY <1>1, OrderlyInvariant, PTL

-----------------------------------------------------------------------------
(***************************************************************************)
(* The stop is final, with no assumption at all.                           *)
(***************************************************************************)

(* After a stop that ended the daemon no heartbeat is left and no daemon   *)
(* could pulse; a supervisor that looked since then will not spawn.        *)
StoppedIsOff ==
  /\ quiet = "stopped" => /\ hb = "none"
                          /\ \A d \in Daemon : st[d] \notin Registered
  /\ \A s \in Serve : tickQuiet[s] = "stopped" => quiet = "stopped" /\ spc[s] # "spawn"

(* What the steps need of the types: no more than this, and it holds       *)
(* whatever a behaviour allows itself.                                     *)
Typed == /\ st \in [Daemon -> Living \cup {"free"}]
         /\ pidFile \in Daemon \cup {Nobody}
         /\ spc \in [Serve -> {"rest", "age", "spawn"}]
         /\ quiet \in {"no", "stopped", "absent"}
         /\ tickQuiet \in [Serve -> {"no", "stopped", "absent"}]

OffInv == Typed /\ StoppedIsOff

LEMMA NextOffInv == OffInv /\ [Next]_allvars => OffInv'
<1> SUFFICES ASSUME OffInv, [Next]_allvars PROVE OffInv'
  OBVIOUS
<1> USE DEF OffInv, Typed, StoppedIsOff, Living, Registered, files, launch, super
<1>1. ASSUME NEW l \in Launcher, HumanLaunch(l) \/ LaunchStep(l) PROVE OffInv'
  BY <1>1 DEF HumanLaunch, LauncherStarts, LaunchStep, LaunchLock, LaunchCheck,
     LaunchAwait, LaunchDone, TidyPidFile, LivePid, Unused
<1>2. ASSUME NEW d \in Daemon, Register(d) PROVE OffInv'
  BY <1>2 DEF Register
<1>3. ASSUME NEW d \in Daemon, Pulse(d) \/ Interrupt(d) \/ ForegroundStart(d) \/ Recycle(d)
      PROVE  OffInv'
  BY <1>3 DEF Pulse, Interrupt, ForegroundStart, Unused, Recycle
<1>4. ASSUME NEW d \in Daemon, Closed(d) \/ StartFails(d) \/ Raise(d) \/ Vanish(d)
      PROVE  OffInv'
  BY <1>4 DEF Closed, StartFails, Raise, Vanish, Ends, ClearOwn, ForgetRecord
<1>5. ASSUME NEW s \in Serve, TickPid(s) PROVE OffInv'
  BY <1>5 DEF TickPid, TidyPidFile, LivePid
<1>6. ASSUME NEW s \in Serve, TickAge(s) PROVE OffInv'
  BY <1>6 DEF TickAge
<1>7. ASSUME NEW s \in Serve, TickSpawn(s) \/ CooldownEnds(s) PROVE OffInv'
  BY <1>7 DEF TickSpawn, LauncherStarts, CooldownEnds
<1>8. CASE HeartbeatAges \/ Reboot
  BY <1>8 DEF HeartbeatAges, Reboot
<1>9. CASE StopRead
  BY <1>9 DEF StopRead, TidyPidFile, LivePid, NobodyRuns
<1>10. CASE StopClear
  BY <1>10 DEF StopClear
<1>11. CASE StopKill
  BY <1>11 DEF StopKill, KillGone, KillMismatch, KillFailed, Killed, StopOver,
     TidyPidFile, LivePid, ForgetRecord, Ends
<1>12. CASE StopConfirm
  BY <1>12 DEF StopConfirm, StopOver, ForgetRecord, NobodyRuns
<1>13. CASE StatusReads \/ StatusTidies
  BY <1>13 DEF StatusReads, StatusTidies, ForgetRecord, LivePid
<1>14. CASE UNCHANGED vars
  BY <1>14 DEF vars
<1>15. QED
  BY <1>1, <1>2, <1>3, <1>4, <1>5, <1>6, <1>7, <1>8, <1>9, <1>10, <1>11, <1>12,
     <1>13, <1>14 DEF Next, allvars, DaemonStep, DaemonFault, Tick, Stop

(* "It never starts a daemon ... you stopped with `magent attention        *)
(* --stop`" (README.md), for a stop that ended one: slow children, torn    *)
(* reads, foreground daemons and reused pids included.                     *)
THEOREM StopIsFinal == Spec => NoReviveOfAStopped
<1>1. Init => OffInv
  BY DEF Init, OffInv, Typed, StoppedIsOff, Living, Registered
<1>2. OffInv => \A s \in Serve :
        quiet = "stopped" /\ tickQuiet[s] = "stopped" => ~TickSpawn(s)
  BY DEF OffInv, StoppedIsOff, TickSpawn
<1>3. QED
  BY <1>1, <1>2, NextOffInv, PTL DEF Spec, NoReviveOfAStopped, allvars

(* A stop ends only the process that made the record: whatever pids were   *)
(* reused, one that was given the daemon's is left alone (pidfile.clear,   *)
(* terminate_pid).                                                         *)
THEOREM StrangersSpared == Spec => StrangersAreSpared
<1>1. Init => OffInv
  BY DEF Init, OffInv, Typed, StoppedIsOff, Living, Registered
<1>2. OffInv /\ Stop => \A d \in Daemon : st[d] = "stranger" => st'[d] = "stranger"
  <2> SUFFICES ASSUME OffInv, Stop, NEW d \in Daemon, st[d] = "stranger" PROVE st'[d] = "stranger"
    OBVIOUS
  <2>1. CASE StopRead \/ StopClear \/ StopConfirm
    BY <2>1 DEF StopRead, StopClear, StopConfirm
  <2>2. CASE KillGone \/ KillMismatch \/ KillFailed
    BY <2>2 DEF KillGone, KillMismatch, KillFailed
  <2>3. CASE Killed
    <3>1. LivePid # d
      BY <2>3 DEF Killed, Registered
    <3>2. QED
      BY <2>3, <3>1 DEF Killed, Ends, OffInv, Typed
  <2>4. QED
    BY <2>1, <2>2, <2>3 DEF Stop, StopKill
<1>3. QED
  BY <1>1, <1>2, NextOffInv, PTL DEF Spec, StrangersAreSpared, allvars

(* Both: a stop is final, and touches nothing but the daemon.              *)
THEOREM StopsCleanly == Spec => StopsAreClean
  BY StrangersSpared, StopIsFinal DEF StopsAreClean

-----------------------------------------------------------------------------
(* The daemon's ticks (Attention): the windows, then the records.          *)

AWindow == [owner : {"closed", "freed", "ours", "stranger"}, title : Title, badge : Glyphs \cup {"none"}]

WindowsFit ==
  /\ win \in [Handle -> AWindow]
  /\ known \subseteq Handle /\ badged \subseteq Handle /\ orphaned \in BOOLEAN
\* What the renderer remembers is, or was until it closed, a window of ours; what shows a badge is remembered, but for what a kill left.
WindowsKnown ==
  /\ \A h \in Handle : h \in known \cup badged => win[h].owner \in {"ours", "closed"}
  /\ up = "off" => known = {} /\ badged = {}
  /\ \A h \in Handle : win[h].badge # "none" => h \in badged \/ orphaned
  /\ \A h \in Handle : win[h].owner \in {"closed", "freed"} => win[h].badge = "none"
WindowsInv == WindowsFit /\ WindowsKnown /\ StrangersKeepTheirTitles

ARecord == [state : States, id : Nat \ {0}, old : BOOLEAN]
RecordsFit ==
  /\ listing \in {"fails", "named", "dropped"} /\ mirror \in BOOLEAN
  /\ writes \in Nat
  /\ store \in [Session -> ARecord \cup {Absent}]
  /\ heldRecords \in [Session -> ARecord \cup {Absent}]
  /\ shown \in [Session -> ARecord \cup {Absent}]
  /\ paged \in [Session -> Nat] /\ DOMAIN lastState = Session /\ news \subseteq Session
  /\ \A s \in Session : /\ paged[s] <= writes
                        /\ \A r \in {store[s], heldRecords[s], shown[s]} : r # Absent => r.id <= writes
\* r was read before q.
Earlier(r, q) == r # Absent /\ q # Absent => r.id <= q.id /\ (r.id = q.id => r.state = q.state /\ (r.old => q.old))
\* A record that may be read next: it is newer than what was paged, or it is that and nothing new.
NothingNew(s, r) == r # Absent => paged[s] <= r.id /\ (r.id = paged[s] => View(r) \in {lastState[s], "idle"})
RecordsKnown ==
  /\ \A s \in Session : Earlier(heldRecords[s], store[s]) /\ Earlier(shown[s], store[s])
  /\ \A s \in Session : NothingNew(s, store[s])
  /\ \A s \in Session \ Local :
       /\ NothingNew(s, heldRecords[s])
       /\ heldRecords[s] = Absent /\ store[s] # Absent => paged[s] < store[s].id
       /\ listing = "dropped" => store[s] = Absent
  /\ up \in {"badge", "page"} => \A s \in Session :
       /\ lastState[s] = View(shown[s]) /\ (s \notin Local => heldRecords[s] = shown[s])
       /\ s \in news => shown[s] # Absent /\ (shown[s].id # paged[s] \/ View(shown[s]) = "idle")
  /\ up \in {"off", "poll"} => news = {} /\ shown = NoViews
RecordsInv == RecordsFit /\ RecordsKnown
AttentionIInv == WindowsInv /\ RecordsInv

\* A window's record, rewritten field by field.
LEMMA WindowRetitled ==
  ASSUME NEW r \in AWindow, NEW t, NEW b
  PROVE  [r EXCEPT !.title = t, !.badge = b] = [owner |-> r.owner, title |-> t, badge |-> b]
<1> DEFINE m == [r EXCEPT !.title = t]
<1> DEFINE u == [m EXCEPT !.badge = b]
<1> DEFINE v == [owner |-> r.owner, title |-> t, badge |-> b]
<1>0. r = [f \in {"owner", "title", "badge"} |-> r[f]]  BY DEF AWindow
<1>1. m = [f \in {"owner", "title", "badge"} |-> IF f = "title" THEN t ELSE r[f]]  BY <1>0
<1> HIDE DEF m
<1>2. u = [f \in {"owner", "title", "badge"} |-> IF f = "badge" THEN b ELSE m[f]]  BY <1>1
<1>3. \A f \in {"owner", "title", "badge"} : u[f] = v[f]  BY <1>1, <1>2
<1>4. v = [f \in {"owner", "title", "badge"} |-> v[f]]  OBVIOUS
<1> HIDE DEF u, v
<1>5. u = v  BY <1>2, <1>3, <1>4
<1> QED BY <1>5 DEF u, v, m
LEMMA WindowClosed ==
  ASSUME NEW o
  PROVE  [ClosedWindow EXCEPT !.owner = o] = [owner |-> o, title |-> "other", badge |-> "none"]
<1> DEFINE u == [ClosedWindow EXCEPT !.owner = o]
<1> DEFINE v == [owner |-> o, title |-> "other", badge |-> "none"]
<1>0. DOMAIN ClosedWindow = {"owner", "title", "badge"}  BY DEF ClosedWindow
<1>1. u = [f \in {"owner", "title", "badge"} |-> u[f]]  BY <1>0
<1>2. v = [f \in {"owner", "title", "badge"} |-> v[f]]  OBVIOUS
<1>3. \A f \in {"owner", "title", "badge"} : u[f] = v[f]  BY <1>0 DEF ClosedWindow
<1> QED BY <1>1, <1>2, <1>3

\* One window becomes another.
LEMMA WindowBecomes ==
  ASSUME WindowsInv, NEW h \in Handle, NEW w, win' = [win EXCEPT ![h] = w], UNCHANGED <<up, known, badged, orphaned>>,
         w \in AWindow,
         h \in known \cup badged => w.owner \in {"ours", "closed"},
         w.badge = "none", w.owner = "stranger" => w.title = "other"
  PROVE  WindowsInv'
<1>1. WindowsFit' BY DEF WindowsInv, WindowsFit
<1>2. \A g \in Handle : win'[g] = IF g = h THEN w ELSE win[g]  BY DEF WindowsInv, WindowsFit
<1>3. WindowsKnown'  BY <1>2 DEF WindowsInv, WindowsKnown
<1>4. StrangersKeepTheirTitles'  BY <1>2 DEF WindowsInv, StrangersKeepTheirTitles
<1> QED BY <1>1, <1>3, <1>4 DEF WindowsInv

LEMMA WindowsMove ==
  ASSUME WindowsInv, NEW h \in Handle, WindowOpens(h) \/ WindowCloses(h) \/ Rewrites(h)
  PROVE  WindowsInv'
<1>1. WindowsFit /\ WindowsKnown  BY DEF WindowsInv
<1>3. CASE WindowOpens(h)
  <2>1. PICK w \in {[owner |-> "ours", title |-> "ours", badge |-> "none"], [owner |-> "stranger", title |-> "other", badge |-> "none"]} :
          win' = [win EXCEPT ![h] = w] /\ UNCHANGED <<up, known, badged, orphaned>>
    BY <1>3 DEF WindowOpens, Becomes, badgeRenderer
  <2>2. h \notin known \cup badged  BY <1>1, <1>3 DEF WindowOpens, WindowsKnown
  <2> QED BY <2>1, <2>2, WindowBecomes DEF AWindow, Title
<1>4. CASE WindowCloses(h)
  <2> DEFINE w == [owner |-> IF up = "off" THEN "freed" ELSE "closed", title |-> "other", badge |-> "none"]
  <2>1. win' = [win EXCEPT ![h] = w] /\ UNCHANGED <<up, known, badged, orphaned>>
    BY WindowClosed, <1>4 DEF WindowCloses, Becomes, badgeRenderer
  <2>2. w \in AWindow  BY DEF AWindow, Title
  <2>3. h \in known \cup badged => w.owner \in {"ours", "closed"}  BY <1>1 DEF WindowsKnown
  <2>4. w.badge = "none" /\ (w.owner = "stranger" => w.title = "other")  OBVIOUS
  <2> HIDE DEF w
  <2> QED BY <2>1, <2>2, <2>3, <2>4, WindowBecomes
<1>5. CASE Rewrites(h)
  <2>0. win[h] \in AWindow /\ win[h].owner = "ours"
    BY <1>1, <1>5 DEF WindowsFit, Rewrites
  <2>1. [win[h] EXCEPT !.title = "other", !.badge = "none"] = [owner |-> "ours", title |-> "other", badge |-> "none"]
    <3>1. [win[h] EXCEPT !.title = "other", !.badge = "none"] = [owner |-> win[h].owner, title |-> "other", badge |-> "none"]
      BY <2>0, WindowRetitled, Zenon
    <3> QED BY <2>0, <3>1
  <2>2. win' = [win EXCEPT ![h] = [owner |-> "ours", title |-> "other", badge |-> "none"]] /\ UNCHANGED <<up, known, badged, orphaned>>
    BY <1>5, <2>1 DEF Rewrites, Becomes, badgeRenderer
  <2> QED BY <2>2, WindowBecomes DEF AWindow, Title
<1> QED BY <1>3, <1>4, <1>5

\* Whom the renderer takes for ours is ours.
LEMMA OursAreOurs ==
  ASSUME WindowsInv, NEW h \in Handle, h \in OurWindows
  PROVE  win[h].owner = "ours"
<1>1. win[h].owner \in {"ours", "stranger"} /\ (win[h].title = "ours" \/ h \in known)
  BY DEF OurWindows, OpenWindow, Remembered
<1> QED BY <1>1 DEF WindowsInv, WindowsKnown, StrangersKeepTheirTitles

LEMMA BadgeStep ==
  ASSUME WindowsInv, Badge
  PROVE  \A h \in Handle :
           /\ h \in Retitled => win'[h] = [owner |-> "ours", title |-> "ours", badge |-> Desired] /\ win[h].owner = "ours"
           /\ h \notin Retitled /\ win[h].owner = "closed" => win'[h] = [owner |-> "freed", title |-> "other", badge |-> "none"]
           /\ h \notin Retitled /\ win[h].owner # "closed" => win'[h] = win[h]
<1>1. Retitled \subseteq OurWindows  BY DEF Retitled
<1>2. ASSUME NEW h \in Handle, h \in Retitled
      PROVE  win[h].owner = "ours" /\ [win[h] EXCEPT !.title = "ours", !.badge = Desired] = [owner |-> "ours", title |-> "ours", badge |-> Desired]
  <2>1. win[h].owner = "ours"  BY <1>1, <1>2, OursAreOurs
  <2>2. win[h] \in AWindow
    BY DEF WindowsInv, WindowsFit
  <2>3. [win[h] EXCEPT !.title = "ours", !.badge = Desired] = [owner |-> win[h].owner, title |-> "ours", badge |-> Desired]
    BY <2>2, WindowRetitled, Zenon
  <2> QED BY <2>1, <2>3
<1> QED BY <1>2 DEF Badge, ClosedWindow

LEMMA BadgeKeeps ==
  ASSUME WindowsInv, Badge
  PROVE  WindowsInv'
<1>1. WindowsFit /\ WindowsKnown /\ StrangersKeepTheirTitles  BY DEF WindowsInv
<1>2. Desired \in Glyphs \cup {"none"}  BY DEF Desired, Glyphs
<1>3. WindowsFit'
  <2>1. DOMAIN win' = Handle /\ win' = [h \in Handle |-> win'[h]]  BY DEF Badge
  <2>2. \A h \in Handle : win'[h] \in AWindow
    BY <1>1, <1>2, BadgeStep DEF AWindow, WindowsFit, Title
  <2>3. win' \in [Handle -> AWindow]
    BY <2>1, <2>2
  <2>4. known' \subseteq Handle /\ badged' \subseteq Handle /\ orphaned' \in BOOLEAN
    BY <1>1 DEF Badge, WindowsFit, Remembered, Retitled, OurWindows
  <2> QED BY <2>3, <2>4 DEF WindowsFit
<1>4. ASSUME NEW h \in Handle, h \in known' \cup badged'  PROVE win'[h].owner = "ours"
  <2>1. h \in Retitled \/ (OpenWindow(h) /\ (h \in known \cup badged \/ win[h].title = "ours"))
    BY <1>4 DEF Badge, Remembered
  <2>2. win[h].owner = "ours"
    BY <1>1, <2>1, BadgeStep DEF OpenWindow, WindowsKnown, StrangersKeepTheirTitles
  <2> QED BY <2>2, BadgeStep
<1>5. ASSUME NEW h \in Handle, win'[h].badge # "none"  PROVE h \in badged' \/ orphaned'
  <2>1. CASE h \in Retitled
    <3>1. Desired # "none"  BY <1>5, <2>1, BadgeStep
    <3> QED BY <2>1, <3>1 DEF Badge
  <2>2. CASE h \notin Retitled
    <3>1. win[h].badge # "none" /\ win[h].owner \in {"ours", "stranger"}
      BY <1>1, <1>5, <2>2, BadgeStep DEF WindowsKnown, WindowsFit, AWindow
    <3>2. h \in Remembered(badged) \/ orphaned  BY <1>1, <3>1 DEF WindowsKnown, Remembered, OpenWindow
    <3> QED BY <2>2, <3>2 DEF Badge
  <2> QED BY <2>1, <2>2
<1>6. \A h \in Handle : win'[h].owner \in {"closed", "freed"} => win'[h].badge = "none"
  BY <1>1, BadgeStep DEF WindowsKnown
<1>7. WindowsKnown'
  BY <1>4, <1>5, <1>6 DEF WindowsKnown, Badge
<1>8. StrangersKeepTheirTitles'
  BY <1>1, BadgeStep DEF StrangersKeepTheirTitles
<1> QED BY <1>3, <1>7, <1>8 DEF WindowsInv

\* A stop: what it leaves of each window.
LEMMA StopStep ==
  ASSUME WindowsInv, Stops
  PROVE  /\ DOMAIN win' = Handle /\ win' = [h \in Handle |-> win'[h]]
         /\ \A h \in Handle :
              \/ win'[h] = [owner |-> "ours", title |-> "ours", badge |-> "none"]
              \/ win'[h] = [owner |-> "freed", title |-> "other", badge |-> "none"]
              \/ win'[h] = win[h] /\ win[h].owner # "closed" /\ (~orphaned' => ~(h \in badged /\ OpenWindow(h)) /\ ~orphaned)
<1>1. CASE /\ win' = [h \in Handle |-> IF h \in badged /\ OpenWindow(h) THEN [win[h] EXCEPT !.title = "ours", !.badge = "none"]
                                       ELSE IF win[h].owner = "closed" THEN ClosedWindow ELSE win[h]]
           /\ UNCHANGED orphaned
  <2>1. ASSUME NEW h \in Handle, h \in badged, OpenWindow(h)
        PROVE  [win[h] EXCEPT !.title = "ours", !.badge = "none"] = [owner |-> "ours", title |-> "ours", badge |-> "none"]
    <3>1. win[h].owner = "ours"  BY <2>1 DEF WindowsInv, WindowsKnown, OpenWindow
    <3>2. win[h] \in AWindow
      BY DEF WindowsInv, WindowsFit
    <3>3. [win[h] EXCEPT !.title = "ours", !.badge = "none"] = [owner |-> win[h].owner, title |-> "ours", badge |-> "none"]
      BY <3>2, WindowRetitled, Zenon
    <3> QED BY <3>1, <3>3
  <2> QED BY <1>1, <2>1 DEF ClosedWindow
<1>2. CASE /\ win' = [h \in Handle |-> IF win[h].owner = "closed" THEN ClosedWindow ELSE win[h]] /\ orphaned' = TRUE
  BY <1>2 DEF ClosedWindow
<1> QED BY <1>1, <1>2 DEF Stops

LEMMA StopKeeps ==
  ASSUME WindowsInv, Stops
  PROVE  WindowsInv' /\ (~orphaned' => \A h \in Handle : win'[h].badge = "none")
<1>1. WindowsFit /\ WindowsKnown /\ StrangersKeepTheirTitles  BY DEF WindowsInv
<1>2. known' = {} /\ badged' = {} /\ orphaned' \in BOOLEAN  BY <1>1 DEF Stops, WindowsFit
<1>3. WindowsFit'
  <2>1. \A h \in Handle : win'[h] \in AWindow
    BY <1>1, StopStep DEF AWindow, WindowsFit, Title
  <2>2. win' \in [Handle -> AWindow]
    BY <2>1, StopStep
  <2> QED BY <1>2, <2>2 DEF WindowsFit
<1>4. ASSUME NEW h \in Handle, ~orphaned'  PROVE win'[h].badge = "none"
  <2>1. CASE win'[h] = win[h] /\ win[h].owner # "closed" /\ ~(h \in badged /\ OpenWindow(h)) /\ ~orphaned
    <3>1. win[h].owner \in {"freed", "ours", "stranger"}  BY <1>1, <2>1 DEF AWindow, WindowsFit
    <3> QED BY <1>1, <2>1, <3>1 DEF WindowsKnown, OpenWindow
  <2> QED BY <1>4, <2>1, StopStep
<1>5. \A h \in Handle : win'[h].owner \in {"closed", "freed"} => win'[h].badge = "none"
  BY <1>1, StopStep DEF WindowsKnown
<1>6. WindowsKnown'  BY <1>2, <1>4, <1>5 DEF WindowsKnown
<1>7. StrangersKeepTheirTitles'  BY <1>1, StopStep DEF StrangersKeepTheirTitles
<1> QED BY <1>3, <1>4, <1>6, <1>7 DEF WindowsInv

LEMMA WindowsStep ==
  ASSUME WindowsInv, [AttentionNext]_attnvars, scene.handles \subseteq Handle
  PROVE  WindowsInv'
<1>1. CASE UNCHANGED <<win, known, badged, orphaned>> /\ (up' = "off" => up = "off")
  BY <1>1 DEF WindowsInv, WindowsFit, WindowsKnown, StrangersKeepTheirTitles
<1>2. CASE UNCHANGED attnvars
  BY <1>1, <1>2 DEF attnvars, actvars, badgeRenderer
<1>3. ASSUME NEW s, HookWrites(s) \/ RecordGoes(s) \/ Ages(s)  PROVE WindowsInv'
  BY <1>1, <1>3 DEF HookWrites, RecordGoes, Ages, badgeRenderer
<1>4. CASE Flaps \/ DaemonStarts \/ PollTick \/ Page
  BY <1>1, <1>4 DEF Flaps, DaemonStarts, PollTick, Page, badgeRenderer
<1>5. ASSUME NEW h \in scene.handles, WindowOpens(h) \/ WindowCloses(h) \/ Rewrites(h)  PROVE WindowsInv'
  BY <1>5, WindowsMove
<1> QED BY <1>2, <1>3, <1>4, <1>5, BadgeKeeps, StopKeeps DEF AttentionNext

(* After the badges are drawn, a window of ours says what its sessions do. *)
LEMMA BadgesAreTrue ==
  ASSUME WindowsInv, AttentionNext, up = "badge", up' = "page", NEW h \in Handle,
         win[h].owner = "ours", win[h].title = "ours", ~orphaned
  PROVE  /\ win'[h].badge = "needs-input" <=> \E s \in Session : lastState[s] = "needs-input"
         /\ win'[h].badge = "done" <=> (\E s \in Session : lastState[s] = "done") /\ win'[h].badge # "needs-input"
<1>1. Badge
  BY DEF AttentionNext, HookWrites, RecordGoes, Ages, Flaps, WindowOpens, WindowCloses, Rewrites, Becomes, DaemonStarts, PollTick, Page, Stops
<1>2. h \in OurWindows  BY DEF OurWindows, OpenWindow
<1>3. /\ Desired = "needs-input" <=> \E s \in Session : lastState[s] = "needs-input"
      /\ Desired = "done" <=> (\E s \in Session : lastState[s] = "done") /\ Desired # "needs-input"
  BY DEF Desired
<1>4. CASE h \in Retitled
  <2>1. win'[h].badge = Desired  BY <1>1, <1>4, BadgeStep
  <2> QED BY <1>3, <2>1
<1>5. CASE h \notin Retitled
  <2>1. ~SomeLive /\ h \notin Remembered(badged)  BY <1>2, <1>5 DEF Retitled
  <2>2. h \notin badged /\ win[h].badge = "none"  BY <2>1 DEF Remembered, OpenWindow, WindowsInv, WindowsKnown
  <2>3. win'[h].badge = "none"  BY <1>1, <1>5, <2>2, BadgeStep
  <2> QED BY <2>1, <2>3 DEF SomeLive
<1> QED BY <1>4, <1>5

\* What a record may become between two looks at it.
LEMMA RecordsMove ==
  ASSUME RecordsInv, listing' \in {"fails", "named", "dropped"}, mirror' \in BOOLEAN, store' \in [Session -> ARecord \cup {Absent}], writes' \in Nat, writes <= writes',
         UNCHANGED <<up, shown, news, lastState, heldRecords, paged>>,
         \A s \in Session :
           \/ store'[s] = store[s] \/ store'[s] = Absent
           \/ store'[s].id > writes /\ store'[s].id <= writes'
           \/ /\ store[s] # Absent /\ store'[s].id = store[s].id
              /\ store'[s].state = store[s].state /\ store'[s].old = TRUE,
         listing' = "dropped" => \A s \in Session \ Local : store'[s] = Absent
  PROVE  RecordsInv'
<1>1. RecordsFit /\ RecordsKnown  BY DEF RecordsInv
<1>2. RecordsFit'  BY <1>1 DEF RecordsFit, ARecord
<1>3. \A s \in Session : Earlier(heldRecords[s], store[s])' /\ Earlier(shown[s], store[s])'
  BY <1>1 DEF RecordsFit, RecordsKnown, Earlier, ARecord
<1>4. \A s \in Session : NothingNew(s, store[s])'
  <2>1. SUFFICES ASSUME NEW s \in Session, store'[s] # Absent
                 PROVE  paged[s] <= store'[s].id /\ (store'[s].id = paged[s] => View(store'[s]) \in {lastState[s], "idle"})
    BY DEF NothingNew, View
  <2>2. CASE store'[s].id > writes
    <3>1. paged[s] \in Nat /\ paged[s] <= writes /\ writes \in Nat  BY <1>1 DEF RecordsFit
    <3>2. store'[s].id \in Nat  BY <2>1 DEF ARecord
    <3> QED BY <2>2, <3>1, <3>2
  <2>3. CASE store[s] # Absent /\ store'[s].id = store[s].id /\ store'[s].state = store[s].state /\ store'[s].old = TRUE
    <3>1. NothingNew(s, store[s])  BY <1>1 DEF RecordsKnown
    <3> QED BY <2>1, <2>3, <3>1 DEF NothingNew, View
  <2>4. CASE store'[s] = store[s]
    <3>1. NothingNew(s, store[s])  BY <1>1 DEF RecordsKnown
    <3> QED BY <2>1, <2>4, <3>1 DEF NothingNew
  <2> QED BY <2>1, <2>2, <2>3, <2>4
<1>5. \A s \in Session \ Local :
        /\ NothingNew(s, heldRecords[s])'
        /\ heldRecords'[s] = Absent /\ store'[s] # Absent => paged'[s] < store'[s].id
        /\ listing' = "dropped" => store'[s] = Absent
  <2>1. \A s \in Session \ Local : NothingNew(s, heldRecords[s])'  BY <1>1 DEF RecordsKnown, NothingNew, View
  <2>2. \A s \in Session \ Local : heldRecords'[s] = Absent /\ store'[s] # Absent => paged'[s] < store'[s].id
    BY <1>1 DEF RecordsKnown, RecordsFit, ARecord
  <2> QED BY <2>1, <2>2
<1>6. up' \in {"badge", "page"} => \A s \in Session :
        /\ lastState'[s] = View(shown'[s]) /\ (s \notin Local => heldRecords'[s] = shown'[s])
        /\ s \in news' => shown'[s] # Absent /\ (shown'[s].id # paged'[s] \/ View(shown'[s]) = "idle")
  BY <1>1 DEF RecordsKnown, View
<1>7. up' \in {"off", "poll"} => news' = {} /\ shown' = NoViews  BY <1>1 DEF RecordsKnown, NoViews
<1>8. RecordsKnown'  BY <1>3, <1>4, <1>5, <1>6, <1>7 DEF RecordsKnown, View
<1> QED BY <1>2, <1>8 DEF RecordsInv

LEMMA WorldMoves ==
  ASSUME RecordsInv, NEW s \in Session, HookWrites(s) \/ RecordGoes(s) \/ Ages(s) \/ Flaps
  PROVE  RecordsInv'
<1>1. RecordsFit /\ RecordsKnown  BY DEF RecordsInv
<1>0. listing' \in {"fails", "named", "dropped"} /\ mirror' \in BOOLEAN
  BY <1>1 DEF RecordsFit, HookWrites, RecordGoes, Ages, Flaps
<1>2. CASE HookWrites(s)
  <2>1. PICK state \in States \ {"idle"} : store' = [store EXCEPT ![s] = [state |-> state, id |-> writes + 1, old |-> FALSE]]
    BY <1>2 DEF HookWrites
  <2>2. writes' = writes + 1 /\ writes \in Nat  BY <1>1, <1>2 DEF HookWrites, RecordsFit
  <2>3. [state |-> state, id |-> writes + 1, old |-> FALSE] \in ARecord  BY <2>2 DEF ARecord
  <2>4. store' \in [Session -> ARecord \cup {Absent}]  BY <1>1, <2>1, <2>3 DEF RecordsFit
  <2>5. \A t \in Session : store'[t] = store[t] \/ (store'[t].id > writes /\ store'[t].id <= writes')
    <3>1. writes' <= writes' /\ writes' > writes  BY <2>2
    <3> QED BY <1>1, <2>1, <2>2, <3>1 DEF RecordsFit
  <2>8. writes' \in Nat /\ writes <= writes'  BY <2>2
  <2>6. listing' = "dropped" => \A t \in Session \ Local : store'[t] = Absent
    BY <1>1, <1>2, <2>1 DEF HookWrites, RecordsKnown, RecordsFit
  <2>7. UNCHANGED <<up, shown, news, lastState, heldRecords, paged>>  BY <1>2 DEF HookWrites, attentionEngine
  <2> QED BY <2>4, <2>5, <2>6, <2>7, <2>8, RecordsMove, <1>0
<1>3. CASE RecordGoes(s)
  <2>1. store' \in [Session -> ARecord \cup {Absent}] /\ \A t \in Session : store'[t] \in {store[t], Absent}
    BY <1>1, <1>3 DEF RecordGoes, RecordsFit
  <2>2. UNCHANGED <<writes, listing, up, shown, news, lastState, heldRecords, paged>>  BY <1>3 DEF RecordGoes, attentionEngine
  <2>3. writes' \in Nat /\ writes <= writes'  BY <1>1, <2>2 DEF RecordsFit
  <2>4. listing' = "dropped" => \A t \in Session \ Local : store'[t] = Absent
    BY <1>1, <2>1, <2>2 DEF RecordsKnown
  <2> QED BY <2>1, <2>2, <2>3, <2>4, RecordsMove, <1>0
<1>4. CASE Ages(s)
  <2>1. UNCHANGED <<writes, listing, up, shown, news, lastState, heldRecords, paged>>  BY <1>4 DEF Ages
  <2>2. CASE store' = store  BY <1>1, <2>1, <2>2, RecordsMove, <1>0 DEF RecordsFit, RecordsKnown
  <2>3. CASE store[s] # Absent /\ store' = [store EXCEPT ![s].old = TRUE]
    <3>1. store[s] \in ARecord  BY <1>1, <2>3 DEF RecordsFit
    <3>2. store' = [store EXCEPT ![s] = [store[s] EXCEPT !.old = TRUE]]  BY <2>3
    <3>3. /\ [store[s] EXCEPT !.old = TRUE] \in ARecord
          /\ [store[s] EXCEPT !.old = TRUE].id = store[s].id
          /\ [store[s] EXCEPT !.old = TRUE].state = store[s].state
          /\ [store[s] EXCEPT !.old = TRUE].old = TRUE
      BY <3>1 DEF ARecord
    <3>4. store' \in [Session -> ARecord \cup {Absent}]  BY <1>1, <3>2, <3>3 DEF RecordsFit
    <3>5. \A t \in Session :
            \/ store'[t] = store[t]
            \/ store[t] # Absent /\ store'[t].id = store[t].id /\ store'[t].state = store[t].state /\ store'[t].old = TRUE
      BY <1>1, <2>3, <3>2, <3>3 DEF RecordsFit
    <3>6. listing' = "dropped" => \A t \in Session \ Local : store'[t] = Absent
      BY <1>1, <2>1, <2>3, <3>2 DEF RecordsKnown, RecordsFit
    <3>7. writes' \in Nat /\ writes <= writes'  BY <1>1, <2>1 DEF RecordsFit
    <3> QED BY <2>1, <3>4, <3>5, <3>6, <3>7, RecordsMove, <1>0
  <2> QED BY <1>4, <2>2, <2>3 DEF Ages
<1>5. CASE Flaps
  <2>1. UNCHANGED <<writes, up, shown, news, lastState, heldRecords, paged>>  BY <1>5 DEF Flaps, attentionEngine
  <2>2. store' \in [Session -> ARecord \cup {Absent}] /\ \A t \in Session : store'[t] \in {store[t], Absent}
    BY <1>1, <1>5 DEF Flaps, RecordsFit
  <2>3. listing' = "dropped" => \A t \in Session \ Local : store'[t] = Absent
    BY <1>1, <1>5 DEF Flaps, RecordsKnown, Session
  <2>4. writes' \in Nat /\ writes <= writes'  BY <1>1, <2>1 DEF RecordsFit
  <2> QED BY <2>1, <2>2, <2>3, <2>4, RecordsMove, <1>0
<1> QED BY <1>2, <1>3, <1>4, <1>5

\* What a poll reads of a session: what it held, what is there, or nothing of a node that left the map.
LEMMA ReadGives ==
  ASSUME RecordsInv, PollTick
  PROVE  /\ heldRecords' \in [Session -> ARecord \cup {Absent}]
         /\ \A s \in Session :
              /\ heldRecords'[s] \in {heldRecords[s], store[s], Absent}
              /\ s \notin Local => heldRecords'[s] = heldRecords[s] \/ heldRecords'[s] = store[s]
         /\ shown' = [s \in Session |-> IF s \in Local THEN store[s] ELSE heldRecords'[s]]
<1>1. RecordsFit /\ RecordsKnown  BY DEF RecordsInv
<1> QED BY <1>1 DEF PollTick, Read, RecordsFit, RecordsKnown, NoViews, Session

LEMMA PollKeeps ==
  ASSUME RecordsInv, PollTick
  PROVE  RecordsInv'
<1>1. RecordsFit /\ RecordsKnown  BY DEF RecordsInv
<1>2. UNCHANGED <<store, listing, mirror, writes, paged>> /\ up' = "badge"  BY DEF PollTick, recordsWorld
<1>3. /\ lastState' = [s \in Session |-> View(shown'[s])]
      /\ news' = {s \in Session : View(shown'[s]) \notin {"none", lastState[s]}}
  BY DEF PollTick
<1>4. \A s \in Session : shown'[s] = IF s \in Local THEN store[s] ELSE heldRecords'[s]  BY ReadGives
<1>5. RecordsFit'
  <2>1. shown' \in [Session -> ARecord \cup {Absent}]  BY <1>1, ReadGives DEF RecordsFit
  <2>2. \A s \in Session : \A r \in {store'[s], heldRecords'[s], shown'[s]} : r \in {store[s], heldRecords[s], Absent}
    BY <1>2, <1>4, ReadGives
  <2>3. \A s \in Session : paged'[s] <= writes' /\ \A r \in {store'[s], heldRecords'[s], shown'[s]} : r # Absent => r.id <= writes'
    BY <1>1, <1>2, <2>2 DEF RecordsFit
  <2> QED BY <1>1, <1>2, <1>3, <2>1, <2>3, ReadGives DEF RecordsFit
\* Each session: what is read of it now is as old as its record, and no older than what it was paged for.
<1>6. ASSUME NEW s \in Session
      PROVE  /\ Earlier(heldRecords'[s], store[s]) /\ Earlier(shown'[s], store[s])
             /\ shown'[s] # Absent => paged[s] <= shown'[s].id /\ (shown'[s].id = paged[s] => View(shown'[s]) \in {lastState[s], "idle"})
             /\ shown'[s] = Absent /\ store[s] # Absent => s \notin Local /\ paged[s] < store[s].id
  <2>1. Earlier(store[s], store[s])  BY <1>1 DEF Earlier, RecordsFit, ARecord
  <2>2. Earlier(Absent, store[s])  BY DEF Earlier
  <2>3. Earlier(heldRecords[s], store[s]) /\ NothingNew(s, store[s])  BY <1>1 DEF RecordsKnown
  <2>4. s \notin Local => NothingNew(s, heldRecords[s]) /\ (heldRecords[s] = Absent /\ store[s] # Absent => paged[s] < store[s].id)
    BY <1>1 DEF RecordsKnown
  <2>5. Earlier(heldRecords'[s], store[s])  BY <2>1, <2>2, <2>3, ReadGives
  <2>6. Earlier(shown'[s], store[s])  BY <1>4, <2>1, <2>5
  <2>7. NothingNew(s, shown'[s])  BY <1>4, <2>3, <2>4, ReadGives
  <2>8. shown'[s] = Absent /\ store[s] # Absent => s \notin Local /\ paged[s] < store[s].id
    BY <1>4, <2>4, ReadGives
  <2> QED BY <2>5, <2>6, <2>7, <2>8 DEF NothingNew
<1>7. ASSUME NEW s \in Session  PROVE NothingNew(s, store[s])'
  <2>1. SUFFICES ASSUME store[s] # Absent
                 PROVE  paged[s] <= store[s].id /\ (store[s].id = paged[s] => View(store[s]) \in {View(shown'[s]), "idle"})
    BY <1>2, <1>3 DEF NothingNew, View
  <2>2. store[s] \in ARecord /\ paged[s] \in Nat /\ shown'[s] \in ARecord \cup {Absent}  BY <1>1, <1>5, <2>1 DEF RecordsFit
  <2>3. CASE shown'[s] = Absent  BY <1>6, <2>1, <2>2, <2>3 DEF ARecord
  <2>4. CASE shown'[s] # Absent
    <3>1. paged[s] <= shown'[s].id /\ shown'[s].id <= store[s].id
      BY <1>6, <2>1, <2>4 DEF Earlier
    <3>2. paged[s] \in Nat /\ shown'[s].id \in Nat /\ store[s].id \in Nat  BY <2>2, <2>4 DEF ARecord
    <3>3. store[s].id = paged[s] => shown'[s].id = store[s].id  BY <3>1, <3>2
    <3>4. shown'[s].id = store[s].id => shown'[s].state = store[s].state /\ (shown'[s].old => store[s].old)
      BY <1>6, <2>1, <2>4 DEF Earlier
    <3>5. store[s].old \in BOOLEAN /\ shown'[s].old \in BOOLEAN  BY <2>2, <2>4 DEF ARecord
    <3>6. shown'[s].id = store[s].id => View(store[s]) \in {View(shown'[s]), "idle"}  BY <2>1, <2>4, <3>4, <3>5 DEF View
    <3> QED BY <3>1, <3>2, <3>3, <3>6
  <2> QED BY <2>3, <2>4
<1>8. ASSUME NEW s \in Session \ Local
      PROVE  /\ NothingNew(s, heldRecords[s])'
             /\ heldRecords'[s] = Absent /\ store'[s] # Absent => paged'[s] < store'[s].id
             /\ listing' = "dropped" => store'[s] = Absent
  <2>1. heldRecords'[s] = shown'[s]  BY <1>4
  <2>2. NothingNew(s, heldRecords[s])'  BY <1>2, <1>3, <1>6, <2>1 DEF NothingNew, View
  <2> QED BY <1>1, <1>2, <1>6, <2>1, <2>2 DEF RecordsKnown
<1>9. ASSUME NEW s \in Session
      PROVE  /\ lastState'[s] = View(shown'[s]) /\ (s \notin Local => heldRecords'[s] = shown'[s])
             /\ s \in news' => shown'[s] # Absent /\ (shown'[s].id # paged'[s] \/ View(shown'[s]) = "idle")
  <2>1. s \in news' => View(shown'[s]) # "none" /\ View(shown'[s]) # lastState[s]  BY <1>3
  <2>2. s \in news' => shown'[s] # Absent  BY <2>1 DEF View
  <2> QED BY <1>2, <1>3, <1>4, <1>6, <2>1, <2>2
<1>10. RecordsKnown'
  <2>1. \A s \in Session : Earlier(heldRecords[s], store[s])' /\ Earlier(shown[s], store[s])'  BY <1>2, <1>6 DEF Earlier
  <2>2. \A s \in Session : (lastState[s] = View(shown[s]))'  BY <1>9 DEF View
  <2>3. \A s \in Session : (s \in news => shown[s] # Absent /\ (shown[s].id # paged[s] \/ View(shown[s]) = "idle"))'
    BY <1>9 DEF View
  <2> QED BY <1>2, <1>7, <1>8, <1>9, <2>1, <2>2, <2>3 DEF RecordsKnown
<1> QED BY <1>5, <1>10 DEF RecordsInv

\* Who is paged is paged for what is no news to nobody.
LEMMA PagesAreNews ==
  ASSUME RecordsInv, up = "page", NEW s \in ShouldFire
  PROVE  s \in Session /\ s \in news /\ shown[s] # Absent /\ shown[s].id # paged[s]
<1>1. s \in news /\ lastState[s] \in PushStates /\ s \in Session  BY DEF ShouldFire, RecordsInv, RecordsFit
<1>2. lastState[s] # "idle"  BY <1>1, AttentionAssumption DEF Glyphs
<1>3. shown[s] # Absent /\ (shown[s].id # paged[s] \/ View(shown[s]) = "idle") /\ lastState[s] = View(shown[s])
  BY <1>1 DEF RecordsInv, RecordsKnown
<1> QED BY <1>1, <1>2, <1>3

LEMMA PageKeeps ==
  ASSUME RecordsInv, Page
  PROVE  RecordsInv'
<1>1. RecordsFit /\ RecordsKnown /\ up = "page"  BY DEF RecordsInv, Page
<1>2. UNCHANGED <<store, listing, mirror, writes, lastState, heldRecords>> /\ up' = "poll" /\ news' = {} /\ shown' = NoViews
  BY DEF Page, recordsWorld
<1>3. paged' = [s \in Session |-> IF s \in ShouldFire THEN shown[s].id ELSE paged[s]]  BY DEF Page
<1>4. \A s \in ShouldFire : s \in Session /\ shown[s] # Absent /\ shown[s] \in ARecord
  BY <1>1, PagesAreNews DEF RecordsFit
<1>5. RecordsFit'
  <2>1. \A s \in Session : paged'[s] \in Nat /\ paged'[s] <= writes
    BY <1>1, <1>3, <1>4 DEF RecordsFit, ARecord
  <2>2. paged' \in [Session -> Nat]  BY <1>3, <2>1
  <2>3. shown' \in [Session -> ARecord \cup {Absent}] /\ \A s \in Session : shown'[s] = Absent  BY <1>2 DEF NoViews
  <2> QED BY <1>1, <1>2, <2>1, <2>2, <2>3 DEF RecordsFit
<1>6. ASSUME NEW s \in ShouldFire
      PROVE  NothingNew(s, store[s])' /\ (s \notin Local => NothingNew(s, heldRecords[s])' /\ heldRecords[s] # Absent)
  <2>1. s \in Session /\ shown[s] # Absent /\ shown[s] \in ARecord /\ paged'[s] = shown[s].id  BY <1>3, <1>4
  <2>2. lastState[s] = View(shown[s]) /\ (s \notin Local => heldRecords[s] = shown[s])  BY <1>1, <2>1 DEF RecordsKnown
  <2>3. Earlier(shown[s], store[s])  BY <1>1, <2>1 DEF RecordsKnown
  <2>6. NothingNew(s, store[s])'
    <3>1. CASE store[s] = Absent  BY <1>2, <3>1 DEF NothingNew
    <3>2. CASE store[s] # Absent
      <4>1. shown[s].id <= store[s].id /\ (shown[s].id = store[s].id => shown[s].state = store[s].state /\ (shown[s].old => store[s].old))
        BY <2>1, <2>3, <3>2 DEF Earlier
      <4>2. store[s] \in ARecord  BY <1>1, <2>1, <3>2 DEF RecordsFit
      <4>3. store[s].old \in BOOLEAN /\ shown[s].old \in BOOLEAN  BY <2>1, <4>2 DEF ARecord
      <4>4. store[s].id = paged'[s] => View(store[s]) \in {lastState[s], "idle"}
        BY <2>1, <2>2, <3>2, <4>1, <4>3 DEF View
      <4> QED BY <1>2, <2>1, <4>1, <4>4 DEF NothingNew, View
    <3> QED BY <3>1, <3>2
  <2>7. shown[s].id \in Nat  BY <2>1 DEF ARecord
  <2>8. s \notin Local => NothingNew(s, heldRecords[s])'  BY <1>2, <2>1, <2>2, <2>7 DEF NothingNew, View
  <2> QED BY <2>1, <2>2, <2>6, <2>8
<1>7. ASSUME NEW s \in Session, s \notin ShouldFire
      PROVE  /\ NothingNew(s, store[s])'
             /\ s \notin Local => NothingNew(s, heldRecords[s])' /\ (heldRecords'[s] = Absent /\ store'[s] # Absent => paged'[s] < store'[s].id)
  <2>1. paged'[s] = paged[s]  BY <1>3, <1>7
  <2> QED BY <1>1, <1>2, <2>1 DEF RecordsKnown, NothingNew, View
<1>8. RecordsKnown'
  <2>1. \A s \in Session : Earlier(heldRecords[s], store[s])'  BY <1>1, <1>2 DEF RecordsKnown, Earlier
  <2>2. \A s \in Session : Earlier(shown[s], store[s])'  BY <1>2 DEF Earlier, NoViews
  <2>3. \A s \in Session : NothingNew(s, store[s])'  BY <1>6, <1>7
  <2>4. \A s \in Session \ Local : /\ NothingNew(s, heldRecords[s])'
                                   /\ heldRecords'[s] = Absent /\ store'[s] # Absent => paged'[s] < store'[s].id
                                   /\ listing' = "dropped" => store'[s] = Absent
    BY <1>1, <1>2, <1>6, <1>7 DEF RecordsKnown
  <2>5. news' = {} /\ shown' = [s \in Session |-> Absent] /\ up' = "poll"  BY <1>2 DEF NoViews
  <2> QED BY <2>1, <2>2, <2>3, <2>4, <2>5 DEF RecordsKnown, NoViews
<1> QED BY <1>5, <1>8 DEF RecordsInv

\* A daemon that starts knows nothing and has paged for nothing.
LEMMA FreshKeeps ==
  ASSUME writes' \in Nat, store' \in [Session -> ARecord \cup {Absent}], listing' \in {"fails", "named", "dropped"}, mirror' \in BOOLEAN,
         \A s \in Session : store'[s] # Absent => store'[s].id <= writes',
         \A s \in Session \ Local : listing' = "dropped" => store'[s] = Absent,
         up' = "off", shown' = NoViews, news' = {}, lastState' = [s \in Session |-> "none"], heldRecords' = NoViews, paged' = [s \in Session |-> 0]
  PROVE  RecordsInv'
<1>1. RecordsFit'  BY DEF RecordsFit, NoViews
<1>2. \A s \in Session : NothingNew(s, store[s])' /\ (store'[s] # Absent => paged'[s] < store'[s].id)
  BY DEF NothingNew, ARecord
<1>3. \A s \in Session : NothingNew(s, heldRecords[s])' /\ Earlier(heldRecords[s], store[s])' /\ Earlier(shown[s], store[s])'
  BY DEF NothingNew, Earlier, NoViews
<1>4. RecordsKnown'  BY <1>2, <1>3 DEF RecordsKnown, NoViews
<1> QED BY <1>1, <1>4 DEF RecordsInv

LEMMA RecordsStep ==
  ASSUME RecordsInv, [AttentionNext]_attnvars, scene.sessions \subseteq Session
  PROVE  RecordsInv'
<1>1. RecordsFit /\ RecordsKnown  BY DEF RecordsInv
<1>2. CASE UNCHANGED <<store, listing, mirror, writes, shown, news, lastState, heldRecords, paged>>
           /\ (up' = up \/ (up = "badge" /\ up' = "page") \/ (up = "off" /\ up' = "poll"))
  <2>1. RecordsFit'  BY <1>1, <1>2 DEF RecordsFit
  <2>2. RecordsKnown'
    <3>1. \A s \in Session : NothingNew(s, store[s])' /\ Earlier(heldRecords[s], store[s])' /\ Earlier(shown[s], store[s])'
      BY <1>1, <1>2 DEF RecordsKnown, NothingNew, Earlier, View
    <3>2. \A s \in Session \ Local : NothingNew(s, heldRecords[s])'
      BY <1>1, <1>2 DEF RecordsKnown, NothingNew, View
    <3> QED BY <1>1, <1>2, <3>1, <3>2 DEF RecordsKnown, NoViews, View
  <2> QED BY <2>1, <2>2 DEF RecordsInv
<1>3. CASE UNCHANGED attnvars
  BY <1>2, <1>3 DEF attnvars, actvars, recordsWorld, attentionEngine
<1>4. ASSUME NEW s \in scene.sessions, HookWrites(s) \/ RecordGoes(s) \/ Ages(s)  PROVE RecordsInv'
  BY <1>4, WorldMoves
<1>5. CASE Flaps
  <2>1. CASE Session = {}
    <3>1. RecordsFit'  BY <1>1, <1>5, <2>1 DEF Flaps, RecordsFit, attentionEngine
    <3>2. RecordsKnown'  BY <1>1, <1>5, <2>1 DEF Flaps, RecordsKnown, NoViews, attentionEngine
    <3> QED BY <3>1, <3>2 DEF RecordsInv
  <2>2. CASE Session # {}
    <3>1. PICK s \in Session : TRUE  BY <2>2
    <3> QED BY <1>5, WorldMoves
  <2> QED BY <2>1, <2>2
<1>6. ASSUME NEW h, WindowOpens(h) \/ WindowCloses(h) \/ Rewrites(h)  PROVE RecordsInv'
  BY <1>2, <1>6 DEF WindowOpens, WindowCloses, Rewrites, Becomes, recordsWorld, attentionEngine
<1>7. CASE DaemonStarts \/ Badge
  BY <1>2, <1>7 DEF DaemonStarts, Badge, recordsWorld, attentionEngine
<1>8. CASE Stops
  <2>1. UNCHANGED <<store, listing, mirror, writes>>  BY <1>8 DEF Stops, recordsWorld
  <2> QED BY <1>1, <1>8, <2>1, FreshKeeps DEF Stops, RecordsFit, RecordsKnown
<1> QED BY <1>3, <1>4, <1>5, <1>6, <1>7, <1>8, PollKeeps, PageKeeps DEF AttentionNext

(* Nobody is paged for what is no news. *)
LEMMA OnlyNewsIsPaged ==
  ASSUME RecordsInv, up = "page"
  PROVE  \A s \in ShouldFire : shown[s].id # paged[s]
BY PagesAreNews

(* After a clean stop no window shows anything. *)
LEMMA StopIsClean ==
  ASSUME WindowsInv, AttentionNext, up # "off", up' = "off", ~orphaned'
  PROVE  \A h \in Handle : win'[h].badge = "none"
<1>1. Stops
  BY DEF AttentionNext, HookWrites, RecordGoes, Ages, Flaps, WindowOpens, WindowCloses, Rewrites, Becomes, DaemonStarts, PollTick, Badge, Page
<1> QED BY <1>1, StopKeeps

(* Our windows tell the truth, only ours tell anything, and nobody is      *)
(* paged for what is no news (attention.AttentionEngine, BadgeRenderer).   *)
THEOREM AttentionIsHonestHolds == AttentionSpec => AttentionIsHonest
<1>1. AttentionInit => AttentionIInv /\ scene \in AttentionSetups
  <2>1. SUFFICES ASSUME AttentionInit  PROVE AttentionIInv  BY DEF AttentionInit
  <2>2. WindowsInv
    BY <2>1 DEF AttentionInit, AttentionStart, Fresh, WindowsInv, WindowsFit, WindowsKnown, StrangersKeepTheirTitles, ClosedWindow, AWindow, Title
  <2>3. RecordsFit  BY <2>1 DEF AttentionInit, AttentionStart, Fresh, RecordsFit, NoViews
  <2>4. RecordsKnown
    BY <2>1 DEF AttentionInit, AttentionStart, Fresh, RecordsKnown, NothingNew, Earlier, NoViews
  <2> QED BY <2>2, <2>3, <2>4 DEF AttentionIInv, RecordsInv
<1>2. AttentionIInv /\ scene \in AttentionSetups /\ [AttentionNext]_attnvars => (AttentionIInv /\ scene \in AttentionSetups)'
  <2>1. SUFFICES ASSUME AttentionIInv, scene \in AttentionSetups, [AttentionNext]_attnvars
                 PROVE  AttentionIInv' /\ scene' \in AttentionSetups
    OBVIOUS
  <2>2. scene.sessions \subseteq Session /\ scene.handles \subseteq Handle  BY <2>1, AttentionAssumption
  <2>3. scene' = scene  BY <2>1 DEF AttentionNext, attnvars
  <2> QED BY <2>1, <2>2, <2>3, WindowsStep, RecordsStep DEF AttentionIInv
<1>3. AttentionIInv => StrangersKeepTheirTitles  BY DEF AttentionIInv, WindowsInv
<1>4. AttentionIInv /\ [AttentionNext]_attnvars =>
        [/\ up = "badge" /\ up' = "page" => \A h \in Handle :
              win[h].owner = "ours" /\ win[h].title = "ours" /\ ~orphaned =>
                /\ win'[h].badge = "needs-input" <=> \E s \in Session : lastState[s] = "needs-input"
                /\ win'[h].badge = "done" <=> (\E s \in Session : lastState[s] = "done") /\ win'[h].badge # "needs-input"
         /\ up # "off" /\ up' = "off" /\ ~orphaned' => \A h \in Handle : win'[h].badge = "none"]_attnvars
  BY BadgesAreTrue, StopIsClean DEF AttentionIInv
<1>5. AttentionIInv /\ [AttentionNext]_attnvars =>
        [up = "page" /\ up' = "poll" => \A s \in ShouldFire : shown[s].id # paged[s]]_attnvars
  BY OnlyNewsIsPaged DEF AttentionIInv
<1> QED BY <1>1, <1>2, <1>3, <1>4, <1>5, PTL DEF AttentionSpec, AttentionIsHonest, BadgesTellTheTruth, PagesOnlyNews
=============================================================================
