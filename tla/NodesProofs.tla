---------------------------- MODULE NodesProofs ----------------------------
(***************************************************************************)
(* Theorems about parts that MCNodes checks: `down --all` leaves no node   *)
(* sync daemon that it does not tell of; a recall takes no node's work, and *)
(* drops no placement before the conversations are at their destination;   *)
(* a node that a command tells of as in place holds its token.             *)
(***************************************************************************)
EXTENDS SyncDaemon, Recall, SignIn, Integers, TLAPS, FiniteSetTheorems, SequenceTheorems

-----------------------------------------------------------------------------
(* The node sync daemon and `down --all`.                                  *)

Starting(d) == daemons[d].at = "starting"
Holding(d) == daemons[d].at \in {"locked", "running", "leaving"}
Quick(d) == Alive(d) /\ ~Tardy(d)
NoHand == \A d \in Daemon : daemons[d].by # "hand"

SyncTypes ==
  /\ syncPlan \in SyncSetups
  /\ DOMAIN daemons = Daemon /\ \A d \in Daemon : DOMAIN daemons[d] = {"at", "age", "by", "late"}
  /\ \A d \in Daemon : daemons[d].at \in {"unborn", "starting", "locked", "running", "leaving", "gone"}
  /\ \A d \in Daemon : Starting(d) => daemons[d].by \in {"serve", "hand"} /\ daemons[d].age \in 0..Cold /\ daemons[d].late \in BOOLEAN
  /\ \A d \in Daemon : daemons[d].at = "unborn" => daemons[d].by # "hand"
  /\ DOMAIN stopOf = Who /\ \A w \in Who : DOMAIN stopOf[w] = DOMAIN NoStop
  /\ DOMAIN downAll = {"pc", "until", "asked", "seen", "said", "strays", "held", "fooled"}
  /\ downAll.until \in 0..NoLook /\ downAll.held \in BOOLEAN /\ downAll.fooled \in BOOLEAN /\ downAll.asked \in BOOLEAN
  /\ downAll.pc \in {"ask", "first", "firstStop", "services", "look", "await", "lastStop", "over", "rest"}

(* Who has the lock, and who may be behind the number in the pid file.     *)
LockInv ==
  /\ \A d \in Daemon : syncLock = d <=> Holding(d)
  /\ syncLock \in Daemon \cup {"serve", "down", "hand", Nil}
  /\ syncLock = "serve" <=> serveThread = "free"
  /\ \A w \in Who : syncLock = w <=> stopOf[w].pc = "free"
  /\ syncPid \in Daemon \cup {Stranger, Nil}
  /\ \A d \in Daemon : syncPid = d => daemons[d].at \in {"running", "leaving", "gone"}

(* Where serve's tick and `down` stand to the supervisor's lock.           *)
BeforeHold == downAll.pc = "ask" \/ (downAll.pc = "services" /\ ~syncPlan.pulls)
TickIn == serveThread \in {"tick", "free", "spawn", "leave"}
Looking == downAll.pc \in {"first", "firstStop", "services", "look", "await", "lastStop"}
SupInv ==
  /\ serveThread \in {"off", "idle", "tick", "free", "spawn", "leave"}
  /\ TickIn <=> supLock = "serve"
  /\ supLock = "down" <=> downAll.held /\ Looking
  /\ supLock \in {"serve", "down", Nil}
  /\ downAll.pc \in {"look", "await", "lastStop", "over"} => serveThread = "off"
  /\ BeforeHold \/ downAll.pc = "rest" => ~downAll.held
  /\ downAll.pc \in {"first", "firstStop"} => syncPlan.pulls
  /\ downAll.pc = "ask" /\ ~syncPlan.pulls => serveThread = "off"

(* With no hand in it, one daemon lives at a time but for those whose      *)
(* start outlasts a tick: a tick spawns none while there is one.           *)
AloneInv == NoHand =>
  /\ \A d, e \in Daemon : Quick(d) /\ Quick(e) => d = e
  /\ serveThread \in {"tick", "free"} => \A d \in Daemon : Starting(d) => Tardy(d)
  /\ serveThread = "spawn" => \A d \in Daemon : ~Quick(d)

(* What `down` has still to look for is in time for its look.              *)
InTime(d) == downAll.until <= Cold + Settle /\ downAll.until + daemons[d].age >= Cold
LateInv == NoHand =>
  /\ BeforeHold => \A d \in Daemon : Starting(d) /\ daemons[d].late => downAll.asked
  /\ downAll.held /\ downAll.pc \in {"first", "firstStop", "services", "look", "await"} =>
       \A d \in Daemon : Starting(d) => d \in downAll.strays \/ InTime(d)
  /\ downAll.held /\ downAll.pc \in {"lastStop", "over"} /\ ~downAll.fooled => \A d \in Daemon : Starting(d) => d \in downAll.strays \/ Tardy(d)

(* The two stops of `down`, and what the last one knows.                   *)
NoneLeft == \A d \in Daemon : Alive(d) => d \in downAll.strays \/ Tardy(d)
StopInv ==
  LET s == stopOf["down"] IN
  /\ BeforeHold \/ downAll.pc \in {"first", "rest"} => s.pc = "none"
  /\ downAll.pc \in {"services", "look", "await"} => s.pc \in {"none", "over"}
  /\ \A w \in Who : stopOf[w].pc = "kill" => stopOf[w].pid \in Daemon \cup {Stranger}
  /\ NoHand /\ downAll.held /\ ~downAll.fooled /\ downAll.pc = "lastStop" =>
       /\ s.pc \in {"free", "clear", "killed"} => NoneLeft
       /\ s.pc = "kill" /\ s.pid \in Daemon => \A d \in Daemon : Alive(d) => d = s.pid \/ d \in downAll.strays \/ Tardy(d)
       /\ s.pc = "over" /\ s.out \in {"stopped", "absent"} => NoneLeft

SyncInv == SyncTypes /\ LockInv /\ SupInv /\ AloneInv /\ LateInv /\ StopInv /\ DownLeavesNoSync

(* Daemons that only go on, or end: none is new.                           *)
Ats == {"unborn", "starting", "locked", "running", "leaving", "gone"}
OnlyEnds ==
  /\ DOMAIN daemons' = Daemon
  /\ \A d \in Daemon :
       /\ DOMAIN daemons'[d] = {"at", "age", "by", "late"} /\ daemons'[d].by = daemons[d].by /\ daemons'[d].at \in Ats
       /\ daemons'[d].at = "unborn" => daemons[d].at = "unborn"
       /\ Starting(d)' => Starting(d) /\ daemons'[d].age = daemons[d].age /\ daemons'[d].late = daemons[d].late
       /\ Alive(d)' => Alive(d) /\ daemons'[d].age = daemons[d].age

LEMMA NoneEnds == ASSUME SyncTypes, daemons' = daemons PROVE OnlyEnds
BY DEF SyncTypes, OnlyEnds, Starting, Alive, Ats

LEMMA OneEnds ==
  ASSUME SyncTypes, NEW d \in Daemon, Alive(d), NEW x \in {"locked", "running", "leaving"},
         daemons' = [daemons EXCEPT ![d].at = x]
  PROVE  OnlyEnds /\ daemons'[d].at = x /\ \A e \in Daemon : e # d => daemons'[e] = daemons[e]
<1>1. DOMAIN daemons' = Daemon /\ \A e \in Daemon : e # d => daemons'[e] = daemons[e]
  BY DEF SyncTypes
<1>2. daemons'[d] = [daemons[d] EXCEPT !.at = x]
  BY DEF SyncTypes
<1>3. DOMAIN daemons'[d] = {"at", "age", "by", "late"} /\ daemons'[d].at = x /\ daemons'[d].by = daemons[d].by /\ daemons'[d].age = daemons[d].age
  BY <1>2 DEF SyncTypes
<1> QED
  BY <1>1, <1>3 DEF SyncTypes, OnlyEnds, Starting, Alive, Ats

LEMMA GoneEnds ==
  ASSUME SyncTypes, NEW d \in Daemon, daemons' = Without(d)
  PROVE  OnlyEnds /\ daemons'[d].at = "gone" /\ \A e \in Daemon : e # d => daemons'[e] = daemons[e]
<1>1. DOMAIN daemons' = Daemon /\ \A e \in Daemon : e # d => daemons'[e] = daemons[e]
  BY DEF SyncTypes, Without
<1>2. DOMAIN daemons'[d] = {"at", "age", "by", "late"} /\ daemons'[d].at = "gone" /\ daemons'[d].by = daemons[d].by
  BY DEF SyncTypes, Without
<1> QED
  BY <1>1, <1>2 DEF SyncTypes, OnlyEnds, Starting, Alive, Ats

LEMMA EndsKeepsTypes ==
  ASSUME SyncTypes, OnlyEnds, UNCHANGED syncPlan
  PROVE  (NoHand' <=> NoHand) /\ DOMAIN daemons' = Daemon /\ \A d \in Daemon :
           /\ DOMAIN daemons'[d] = {"at", "age", "by", "late"} /\ daemons'[d].at \in Ats
           /\ Starting(d)' => daemons'[d].by \in {"serve", "hand"} /\ daemons'[d].age \in 0..Cold /\ daemons'[d].late \in BOOLEAN
           /\ daemons'[d].at = "unborn" => daemons'[d].by # "hand"
BY DEF SyncTypes, OnlyEnds, Starting, NoHand

(* A step that only ends daemons, beside what the others wait for.         *)
LEMMA EndsKeeps ==
  ASSUME SyncInv, OnlyEnds, LockInv', UNCHANGED <<supLock, serveThread, stopOf, downAll, syncPlan>>
  PROVE  SyncInv'
<1>t. SyncTypes /\ SupInv /\ AloneInv /\ LateInv /\ StopInv /\ DownLeavesNoSync
  BY DEF SyncInv
<1>1. /\ NoHand' <=> NoHand
      /\ \A d \in Daemon : (Alive(d)' => Alive(d) /\ (Tardy(d)' <=> Tardy(d))) /\ (Starting(d)' => Starting(d) /\ daemons'[d].age = daemons[d].age /\ daemons'[d].late = daemons[d].late)
  BY <1>t, EndsKeepsTypes DEF OnlyEnds, Tardy
<1>2. SyncTypes'
  BY <1>t, EndsKeepsTypes DEF SyncTypes, Ats
<1>3. SupInv'
  BY <1>t DEF SupInv, TickIn, Looking, BeforeHold
<1>4. AloneInv'
  BY <1>t, <1>1 DEF AloneInv, Quick, Starting, Alive
<1>5. LateInv'
  BY <1>t, <1>1 DEF LateInv, BeforeHold, InTime, Starting, Alive
<1>6. NoneLeft => NoneLeft'
  BY <1>1 DEF NoneLeft
<1>7. StopInv'
  BY <1>t, <1>1, <1>6 DEF StopInv, BeforeHold
<1>8. DownLeavesNoSync'
  BY <1>t, <1>1 DEF DownLeavesNoSync, NoHand
<1> QED
  BY <1>2, <1>3, <1>4, <1>5, <1>7, <1>8 DEF SyncInv

-----------------------------------------------------------------------------
(* The daemon's own steps.                                                 *)

LEMMA DaemonKeeps ==
  ASSUME SyncInv, NEW d \in Daemon, TakesLock(d) \/ Records(d) \/ WindsDown(d) \/ Leaves(d) \/ Crashes(d)
  PROVE  SyncInv'
<1>t. SyncTypes /\ LockInv
  BY DEF SyncInv
<1>1. Alive(d) /\ UNCHANGED <<supLock, serveThread, stopOf, downAll, syncPlan>>
  BY DEF TakesLock, Records, WindsDown, Leaves, Crashes, Alive
<1>2. CASE daemons' = [daemons EXCEPT ![d].at = "locked"] /\ syncLock = Nil /\ syncLock' = d /\ syncPid' = syncPid /\ daemons[d].at = "starting"
  <2>1. OnlyEnds /\ daemons'[d].at = "locked" /\ \A e \in Daemon : e # d => daemons'[e] = daemons[e]
    BY <1>1, <1>2, <1>t, OneEnds
  <2>2. LockInv'
    BY <1>1, <1>2, <1>t, <2>1, SyncAssumption DEF LockInv, Holding, Who
  <2> QED
    BY <1>1, <2>1, <2>2, EndsKeeps
<1>3. CASE daemons' = [daemons EXCEPT ![d].at = "running"] /\ syncLock' = syncLock /\ syncPid' = d /\ daemons[d].at = "locked"
  <2>1. OnlyEnds /\ daemons'[d].at = "running" /\ \A e \in Daemon : e # d => daemons'[e] = daemons[e]
    BY <1>1, <1>3, <1>t, OneEnds
  <2>2. LockInv'
    BY <1>1, <1>3, <1>t, <2>1, SyncAssumption DEF LockInv, Holding, Who
  <2> QED
    BY <1>1, <2>1, <2>2, EndsKeeps
<1>4. CASE daemons' = [daemons EXCEPT ![d].at = "leaving"] /\ syncLock' = syncLock /\ syncPid' \in {syncPid, Nil} /\ daemons[d].at = "running"
  <2>1. OnlyEnds /\ daemons'[d].at = "leaving" /\ \A e \in Daemon : e # d => daemons'[e] = daemons[e]
    BY <1>1, <1>4, <1>t, OneEnds
  <2>2. LockInv'
    BY <1>1, <1>4, <1>t, <2>1, SyncAssumption DEF LockInv, Holding, Who
  <2> QED
    BY <1>1, <2>1, <2>2, EndsKeeps
<1>5. CASE daemons' = Without(d) /\ syncLock' = (IF syncLock = d THEN Nil ELSE syncLock) /\ syncPid' = syncPid
  <2>1. OnlyEnds /\ daemons'[d].at = "gone" /\ \A e \in Daemon : e # d => daemons'[e] = daemons[e]
    BY <1>5, <1>t, GoneEnds
  <2>2. LockInv'
    BY <1>1, <1>5, <1>t, <2>1, SyncAssumption DEF LockInv, Holding, Who
  <2> QED
    BY <1>1, <2>1, <2>2, EndsKeeps
<1>6. CASE TakesLock(d)
  <2>1. CASE syncLock = Nil
    BY <1>6, <1>2, <2>1 DEF TakesLock
  <2>2. CASE syncLock # Nil
    BY <1>6, <1>5, <1>t, <2>2 DEF TakesLock, LockInv, Holding
  <2> QED
    BY <2>1, <2>2
<1>7. CASE Leaves(d)
  BY <1>7, <1>5, <1>t DEF Leaves, LockInv, Holding
<1> QED
  BY <1>3, <1>4, <1>5, <1>6, <1>7 DEF Records, WindsDown, Crashes

LEMMA RestKeeps ==
  ASSUME SyncInv, Empties \/ LooksAgain
  PROVE  SyncInv'
<1>t. SyncTypes /\ LockInv
  BY DEF SyncInv
<1>1. UNCHANGED <<daemons, syncLock, supLock, serveThread, stopOf, downAll, syncPlan>> /\ syncPid' \in {syncPid, Nil}
  BY DEF Empties, LooksAgain
<1>2. LockInv'
  BY <1>t, <1>1, SyncAssumption DEF LockInv, Holding
<1> QED
  BY <1>t, <1>1, <1>2, NoneEnds, EndsKeeps

-----------------------------------------------------------------------------
(* serve's supervisor thread, and a hand's start.                          *)

LEMMA ServeKeeps ==
  ASSUME SyncInv, ServeTick \/ ServeProbes \/ ServeLetsGo \/ ServeLeaves
  PROVE  SyncInv'
<1>t. SyncTypes /\ LockInv /\ SupInv /\ AloneInv /\ LateInv /\ StopInv /\ DownLeavesNoSync
  BY DEF SyncInv
<1>1. UNCHANGED <<daemons, syncPid, stopOf, downAll, syncPlan>>
  BY DEF ServeTick, ServeProbes, ServeLetsGo, ServeLeaves, ServeRest
<1>2. SyncTypes' /\ LateInv' /\ StopInv' /\ DownLeavesNoSync' /\ (NoHand' <=> NoHand)
  <2>1. SyncTypes' /\ (NoHand' <=> NoHand)
    BY <1>t, <1>1 DEF SyncTypes, Starting, NoHand
  <2>2. LateInv'
    BY <1>t, <1>1 DEF LateInv, NoHand, BeforeHold, InTime, Starting, Tardy
  <2>3. StopInv'
    BY <1>t, <1>1 DEF StopInv, NoHand, BeforeHold, NoneLeft, Alive, Tardy
  <2>4. DownLeavesNoSync'
    BY <1>t, <1>1 DEF DownLeavesNoSync, Alive, Tardy
  <2> QED
    BY <2>1, <2>2, <2>3, <2>4
<1>3. LockInv'
  BY <1>t, <1>1, SyncAssumption DEF LockInv, Holding, Who, ServeTick, ServeProbes, ServeLetsGo, ServeLeaves
<1>4. SupInv'
  <2>1. \/ serveThread = "idle" /\ serveThread' = "tick" /\ supLock = Nil /\ supLock' = "serve"
        \/ serveThread \in {"tick", "free"} /\ serveThread' \in {"free", "spawn", "leave"} /\ supLock' = supLock
        \/ serveThread = "leave" /\ serveThread' = "idle" /\ supLock' = Nil
    BY DEF ServeTick, ServeProbes, ServeLetsGo, ServeLeaves
  <2>2. Nil \notin {"serve", "down"}
    BY SyncAssumption
  <2> QED
    BY <1>t, <1>1, <2>1, <2>2 DEF SupInv, TickIn, Looking, BeforeHold
<1>5. AloneInv'
  <2> SUFFICES ASSUME NoHand PROVE AloneInv'
    BY <1>2 DEF AloneInv
  <2>1. \A d, e \in Daemon : Quick(d)' /\ Quick(e)' => d = e
    BY <1>t, <1>1 DEF AloneInv, Quick, Alive, Tardy
  <2>2. serveThread' \in {"tick", "free"} => \A d \in Daemon : Starting(d)' => Tardy(d)'
    BY <1>t, <1>1 DEF AloneInv, Starting, Tardy, SyncTypes, NoHand, ServeTick, ServeProbes, ServeLetsGo, ServeLeaves
  <2>3. serveThread' = "spawn" => \A d \in Daemon : ~Quick(d)'
    <3>1. serveThread' = "spawn" => serveThread = "free"
      BY DEF ServeTick, ServeProbes, ServeLetsGo, ServeLeaves
    <3>2. serveThread = "free" => \A d \in Daemon : (Starting(d) => Tardy(d)) /\ ~Holding(d)
      BY <1>t, SyncAssumption DEF AloneInv, LockInv
    <3> QED
      BY <1>1, <3>1, <3>2 DEF Quick, Alive, Tardy, Starting, Holding
  <2> QED
    BY <2>1, <2>2, <2>3 DEF AloneInv
<1> QED
  BY <1>2, <1>3, <1>4, <1>5 DEF SyncInv

(* What a spawn adds.                                                      *)
LEMMA SpawnAdds ==
  ASSUME SyncTypes, NEW d \in Daemon, NEW who \in {"serve", "hand"}, Spawned(d, who)
  PROVE  /\ daemons[d].at = "unborn" /\ DOMAIN daemons' = Daemon /\ DOMAIN daemons'[d] = {"at", "age", "by", "late"}
         /\ daemons'[d].at = "starting" /\ daemons'[d].age = 0 /\ daemons'[d].by = who /\ daemons'[d].late = downAll.asked
         /\ \A e \in Daemon : e # d => daemons'[e] = daemons[e]
BY DEF SyncTypes, Spawned

LEMMA SpawnKeepsTypes ==
  ASSUME SyncTypes, LockInv, NEW d \in Daemon, NEW who \in {"serve", "hand"}, Spawned(d, who), UNCHANGED <<stopOf, downAll, syncPlan, syncLock, syncPid>>,
         serveThread = "free" <=> serveThread' = "free"
  PROVE  SyncTypes' /\ LockInv'
<1>1. SyncTypes'
  BY SpawnAdds, SyncAssumption DEF SyncTypes, Starting
<1>2. LockInv'
  BY SpawnAdds DEF LockInv, Holding
<1> QED
  BY <1>1, <1>2

LEMMA SpawnsKeeps ==
  ASSUME SyncInv, ServeSpawns
  PROVE  SyncInv'
<1>t. SyncTypes /\ LockInv /\ SupInv /\ AloneInv /\ LateInv /\ StopInv /\ DownLeavesNoSync
  BY DEF SyncInv
<1>1. UNCHANGED <<syncPid, syncLock, supLock, stopOf, downAll, syncPlan>> /\ serveThread = "spawn" /\ serveThread' = "leave"
  BY DEF ServeSpawns, ServeRest
<1>2. SupInv'
  BY <1>t, <1>1 DEF SupInv, TickIn, Looking, BeforeHold
<1>3. ~(downAll.held /\ Looking) /\ downAll.pc \notin {"look", "await", "lastStop", "over"}
  BY <1>t, <1>1 DEF SupInv, TickIn
<1>4. ASSUME NEW d \in Daemon, Spawned(d, "serve") PROVE SyncInv'
  <2>1. SyncTypes' /\ LockInv'
    BY <1>t, <1>1, <1>4, SpawnKeepsTypes
  <2>2. /\ daemons'[d].at = "starting" /\ daemons'[d].by = "serve" /\ daemons'[d].late = downAll.asked /\ daemons[d].at = "unborn"
        /\ \A e \in Daemon : e # d => daemons'[e] = daemons[e]
    BY <1>t, <1>4, SpawnAdds
  <2>3. NoHand' => NoHand
    BY <1>t, <2>2 DEF NoHand, SyncTypes
  <2>4. AloneInv'
    <3>1. NoHand => \A e \in Daemon : ~Quick(e)
      BY <1>t, <1>1 DEF AloneInv
    <3> QED
      BY <1>1, <2>2, <2>3, <3>1 DEF AloneInv, Quick, Alive, Tardy
  <2>5. LateInv'
    <3>1. NoHand' /\ BeforeHold' => \A e \in Daemon : Starting(e)' /\ daemons'[e].late => downAll'.asked
      BY <1>t, <1>1, <2>2, <2>3 DEF LateInv, BeforeHold, Starting
    <3> QED
      BY <1>1, <1>3, <3>1 DEF LateInv, Looking
  <2>6. StopInv'
    BY <1>t, <1>1, <1>3 DEF StopInv, BeforeHold
  <2>7. DownLeavesNoSync'
    BY <1>1, <1>3 DEF DownLeavesNoSync
  <2> QED
    BY <1>2, <2>1, <2>4, <2>5, <2>6, <2>7 DEF SyncInv
<1>5. CASE UNCHANGED daemons
  <2>1. SyncTypes' /\ LockInv'
    BY <1>t, <1>1, <1>5 DEF SyncTypes, LockInv, Starting, Holding
  <2>2. AloneInv'
    BY <1>t, <1>1, <1>5 DEF AloneInv, Quick, Alive, Tardy, Starting, NoHand
  <2>3. LateInv'
    BY <1>t, <1>1, <1>5 DEF LateInv, NoHand, BeforeHold, InTime, Starting, Tardy
  <2>4. StopInv'
    BY <1>t, <1>1, <1>3 DEF StopInv, BeforeHold
  <2>5. DownLeavesNoSync'
    BY <1>1, <1>3 DEF DownLeavesNoSync
  <2> QED
    BY <1>2, <2>1, <2>2, <2>3, <2>4, <2>5 DEF SyncInv
<1> QED
  BY <1>4, <1>5 DEF ServeSpawns

LEMMA HandSpawnsKeeps ==
  ASSUME SyncInv, HandSpawns
  PROVE  SyncInv'
<1>t. SyncTypes /\ LockInv /\ SupInv /\ StopInv
  BY DEF SyncInv
<1>1. UNCHANGED <<syncLock, syncPid, supLock, serveThread, stopOf, downAll, syncPlan>>
  BY DEF HandSpawns
<1>2. PICK d \in Daemon : Spawned(d, "hand")
  BY DEF HandSpawns
<1>3. SyncTypes' /\ LockInv'
  BY <1>t, <1>1, <1>2, SpawnKeepsTypes
<1>4. ~NoHand'
  BY <1>t, <1>2, SpawnAdds DEF NoHand
<1>5. AloneInv' /\ LateInv'
  BY <1>4 DEF AloneInv, LateInv
<1>6. DownLeavesNoSync'
  BY <1>4 DEF DownLeavesNoSync, NoHand
<1>7. SupInv'
  BY <1>t, <1>1 DEF SupInv, TickIn, Looking, BeforeHold
<1>8. StopInv'
  BY <1>t, <1>1, <1>4 DEF StopInv, BeforeHold
<1> QED
  BY <1>3, <1>5, <1>6, <1>7, <1>8 DEF SyncInv

-----------------------------------------------------------------------------
(* The stops.                                                              *)

\* What the stop of `w` sets, and what `down`'s last one has to know then.
StopSets(w) ==
  /\ DOMAIN stopOf' = Who /\ DOMAIN stopOf'[w] = DOMAIN NoStop /\ \A v \in Who : v # w => stopOf'[v] = stopOf[v]
  /\ UNCHANGED <<supLock, serveThread, downAll, syncPlan>>
LastKnows ==
  LET s == stopOf["down"] IN
  /\ s.pc \in {"free", "clear", "killed"} => NoneLeft
  /\ s.pc = "kill" /\ s.pid \in Daemon => \A d \in Daemon : Alive(d) => d = s.pid \/ d \in downAll.strays \/ Tardy(d)
  /\ s.pc = "over" /\ s.out \in {"stopped", "absent"} => NoneLeft
AtLast == NoHand /\ downAll.held /\ ~downAll.fooled /\ downAll.pc = "lastStop"

LEMMA StopSetsKeep ==
  ASSUME SyncInv, NEW w \in Who, stopOf[w].pc \notin {"none", "over"}, StopSets(w), OnlyEnds, LockInv',
         stopOf'[w].pc = "kill" => stopOf'[w].pid \in Daemon \cup {Stranger},
         w = "down" /\ AtLast => LastKnows'
  PROVE  SyncInv'
<1>t. SyncTypes /\ SupInv /\ AloneInv /\ LateInv /\ StopInv /\ DownLeavesNoSync
  BY DEF SyncInv
<1>u. UNCHANGED <<supLock, serveThread, downAll, syncPlan>>
  BY DEF StopSets
<1>1. /\ NoHand' <=> NoHand
      /\ \A d \in Daemon : (Alive(d)' => Alive(d) /\ (Tardy(d)' <=> Tardy(d))) /\ (Starting(d)' => Starting(d) /\ daemons'[d].age = daemons[d].age /\ daemons'[d].late = daemons[d].late)
  BY <1>t, <1>u, EndsKeepsTypes DEF OnlyEnds, Tardy
<1>2. SyncTypes'
  BY <1>t, <1>u, EndsKeepsTypes DEF SyncTypes, Ats, StopSets, NoStop
<1>3. SupInv'
  BY <1>t, <1>u DEF SupInv, TickIn, Looking, BeforeHold
<1>4. AloneInv'
  BY <1>t, <1>1, <1>u DEF AloneInv, Quick, Starting, Alive
<1>5. LateInv'
  BY <1>t, <1>1, <1>u DEF LateInv, BeforeHold, InTime, Starting, Alive
<1>6. (NoneLeft => NoneLeft') /\ "down" \in Who
  BY <1>1, <1>u DEF NoneLeft, Who
<1>7. AtLast' => LastKnows'
  <2>1. CASE w = "down"
    BY <2>1, <1>1, <1>u DEF AtLast
  <2>2. CASE w # "down"
    <3>1. stopOf'["down"] = stopOf["down"]
      BY <2>2, <1>6 DEF StopSets
    <3>2. AtLast' => LastKnows
      BY <1>t, <1>1, <1>u DEF AtLast, LastKnows, StopInv
    <3>3. downAll' = downAll
      BY <1>u
    <3> QED
      BY <3>1, <3>2, <3>3, <1>1, <1>6 DEF LastKnows
  <2> QED
    BY <2>1, <2>2
<1>8. \A v \in Who : stopOf'[v].pc = "kill" => stopOf'[v].pid \in Daemon \cup {Stranger}
  BY <1>t DEF StopInv, StopSets
<1>9. /\ BeforeHold' \/ downAll'.pc \in {"first", "rest"} => stopOf'["down"].pc = "none"
      /\ downAll'.pc \in {"services", "look", "await"} => stopOf'["down"].pc \in {"none", "over"}
  <2>1. BeforeHold' <=> BeforeHold
    BY <1>u DEF BeforeHold
  <2>2. w # "down" => stopOf'["down"] = stopOf["down"]
    BY <1>6 DEF StopSets
  <2> QED
    BY <1>t, <1>u, <2>1, <2>2 DEF StopInv
<1>10. StopInv'
  BY <1>7, <1>8, <1>9 DEF StopInv, AtLast, LastKnows
<1>11. DownLeavesNoSync'
  BY <1>t, <1>1, <1>u DEF DownLeavesNoSync, NoHand
<1> QED
  BY <1>2, <1>3, <1>4, <1>5, <1>10, <1>11 DEF SyncInv

\* With the lock free, whoever is alive has not taken it yet.
LEMMA FreeLeavesNone ==
  ASSUME SyncInv, AtLast, syncLock = Nil
  PROVE  NoneLeft
<1>1. \A d \in Daemon : ~Holding(d)
  BY SyncAssumption DEF SyncInv, LockInv
<1>2. \A d \in Daemon : Starting(d) => d \in downAll.strays \/ Tardy(d)
  BY DEF SyncInv, LateInv, AtLast
<1> QED
  BY <1>1, <1>2 DEF NoneLeft, Alive, Starting, Holding

LEMMA StopProbesKeeps ==
  ASSUME SyncInv, NEW w \in Who, StopProbes(w)
  PROVE  SyncInv'
<1>t. SyncTypes /\ LockInv
  BY DEF SyncInv
<1>1. stopOf[w].pc = "probe" /\ UNCHANGED <<daemons, syncPid, supLock, serveThread, downAll, syncPlan>>
  BY DEF StopProbes, StopRest
<1>2. CASE syncLock = Nil /\ syncLock' = w /\ stopOf' = [stopOf EXCEPT ![w].pc = "free"]
  <2>1. StopSets(w) /\ stopOf'[w].pc = "free"
    BY <1>1, <1>2, <1>t DEF SyncTypes, StopSets, NoStop
  <2>2. LockInv'
    BY <1>1, <1>2, <1>t, <2>1, SyncAssumption DEF LockInv, Holding, Who, StopSets
  <2>3. w = "down" /\ AtLast => LastKnows'
    <3>1. AtLast => NoneLeft'
      BY <1>1, <1>2, FreeLeavesNone DEF NoneLeft, Alive, Tardy
    <3> QED
      BY <2>1, <3>1 DEF LastKnows
  <2> QED
    BY <1>1, <1>t, <2>1, <2>2, <2>3, NoneEnds, StopSetsKeep
<1>3. CASE stopOf' = [stopOf EXCEPT ![w].pc = "pid", ![w].left = Settle] /\ syncLock' = syncLock
  <2>1. StopSets(w) /\ stopOf'[w].pc = "pid"
    BY <1>1, <1>3, <1>t DEF SyncTypes, StopSets, NoStop
  <2>2. LockInv'
    BY <1>1, <1>3, <1>t, <2>1 DEF LockInv, Holding, StopSets
  <2>3. w = "down" => LastKnows'
    BY <2>1 DEF LastKnows
  <2> QED
    BY <1>1, <1>t, <2>1, <2>2, <2>3, NoneEnds, StopSetsKeep
<1> QED
  BY <1>2, <1>3 DEF StopProbes

LEMMA StopLetsGoKeeps ==
  ASSUME SyncInv, NEW w \in Who, StopLetsGo(w)
  PROVE  SyncInv'
<1>t. SyncTypes /\ LockInv /\ StopInv
  BY DEF SyncInv
<1>1. stopOf[w].pc = "free" /\ syncLock' = Nil /\ UNCHANGED <<daemons, syncPid, supLock, serveThread, downAll, syncPlan>>
  BY DEF StopLetsGo, StopRest
<1>2. StopSets(w) /\ stopOf'[w].pc = "clear"
  BY <1>1, <1>t DEF SyncTypes, StopSets, NoStop, StopLetsGo
<1>3. LockInv'
  BY <1>1, <1>2, <1>t, SyncAssumption DEF LockInv, Holding, Who, StopSets
<1>4. w = "down" /\ AtLast => LastKnows'
  BY <1>1, <1>2, <1>t DEF LastKnows, StopInv, AtLast, NoneLeft, Alive, Tardy
<1> QED
  BY <1>1, <1>t, <1>2, <1>3, <1>4, NoneEnds, StopSetsKeep

LEMMA StopClearsKeeps ==
  ASSUME SyncInv, NEW w \in Who, StopClears(w)
  PROVE  SyncInv'
<1>t. SyncTypes /\ LockInv /\ StopInv
  BY DEF SyncInv
<1>1. stopOf[w].pc \in {"clear", "killed"} /\ syncPid' = Nil /\ UNCHANGED <<daemons, syncLock, supLock, serveThread, downAll, syncPlan>>
  BY DEF StopClears, StopRest
<1>2. StopSets(w) /\ stopOf'[w].pc \in {"over", "check"}
  BY <1>1, <1>t DEF SyncTypes, StopSets, NoStop, StopClears
<1>3. LockInv'
  BY <1>1, <1>2, <1>t, SyncAssumption DEF LockInv, Holding, StopSets
<1>4. w = "down" /\ AtLast => LastKnows'
  BY <1>1, <1>2, <1>t DEF LastKnows, StopInv, AtLast, NoneLeft, Alive, Tardy
<1> QED
  BY <1>1, <1>t, <1>2, <1>3, <1>4, NoneEnds, StopSetsKeep

LEMMA StopReadsKeeps ==
  ASSUME SyncInv, NEW w \in Who, StopReads(w)
  PROVE  SyncInv'
<1>t. SyncTypes /\ LockInv /\ StopInv /\ LateInv
  BY DEF SyncInv
<1>1. stopOf[w].pc = "pid" /\ syncPid' \in {syncPid, Nil} /\ UNCHANGED <<daemons, syncLock, supLock, serveThread, downAll, syncPlan>>
  BY DEF StopReads, StopRest
<1>2. CASE LivePid /\ stopOf' = [stopOf EXCEPT ![w].pc = "kill", ![w].pid = syncPid]
  <2>1. StopSets(w) /\ stopOf'[w].pc = "kill" /\ stopOf'[w].pid = syncPid
    BY <1>1, <1>2, <1>t DEF SyncTypes, StopSets, NoStop
  <2>2. LockInv'
    BY <1>1, <2>1, <1>t, SyncAssumption DEF LockInv, Holding, StopSets
  <2>3. w = "down" /\ AtLast => LastKnows'
    <3>1. ASSUME AtLast, syncPid \in Daemon, NEW d \in Daemon, Alive(d) PROVE d = syncPid \/ d \in downAll.strays \/ Tardy(d)
      <4>1. Holding(syncPid)
        BY <1>2, <1>t, <3>1, SyncAssumption DEF LivePid, LockInv, Alive, Holding
      <4>2. Holding(d) => d = syncPid
        BY <1>t, <3>1, <4>1 DEF LockInv
      <4> QED
        BY <1>t, <3>1, <4>2 DEF Alive, Holding, Starting, LateInv, AtLast
    <3> QED
      BY <1>1, <2>1, <3>1 DEF LastKnows, Alive, Tardy
  <2>4. syncPid \in Daemon \cup {Stranger}
    BY <1>2 DEF LivePid
  <2> QED
    BY <1>1, <1>t, <2>1, <2>2, <2>3, <2>4, NoneEnds, StopSetsKeep
<1>3. CASE stopOf' = [stopOf EXCEPT ![w].pc = "check"]
  <2>1. StopSets(w) /\ stopOf'[w].pc = "check"
    BY <1>1, <1>3, <1>t DEF SyncTypes, StopSets, NoStop
  <2>2. LockInv'
    BY <1>1, <2>1, <1>t, SyncAssumption DEF LockInv, Holding, StopSets
  <2>3. w = "down" => LastKnows'
    BY <2>1 DEF LastKnows
  <2> QED
    BY <1>1, <1>t, <2>1, <2>2, <2>3, NoneEnds, StopSetsKeep
<1> QED
  BY <1>2, <1>3 DEF StopReads

LEMMA StopKillsKeeps ==
  ASSUME SyncInv, NEW w \in Who, StopKills(w)
  PROVE  SyncInv'
<1> DEFINE d == stopOf[w].pid
<1>t. SyncTypes /\ LockInv /\ StopInv /\ AloneInv
  BY DEF SyncInv
<1>1. stopOf[w].pc = "kill" /\ UNCHANGED <<syncPid, supLock, serveThread, downAll, syncPlan>>
  BY DEF StopKills, StopRest
<1>2. CASE stopOf' = [stopOf EXCEPT ![w].pc = "check"] /\ UNCHANGED <<daemons, syncLock>>
  <2>1. StopSets(w) /\ stopOf'[w].pc = "check"
    BY <1>1, <1>2, <1>t DEF SyncTypes, StopSets, NoStop
  <2>2. LockInv'
    BY <1>1, <1>2, <2>1, <1>t DEF LockInv, Holding, StopSets
  <2>3. w = "down" => LastKnows'
    BY <2>1 DEF LastKnows
  <2> QED
    BY <1>1, <1>2, <1>t, <2>1, <2>2, <2>3, NoneEnds, StopSetsKeep
<1>3. CASE /\ d # Stranger /\ daemons' = Without(d) /\ syncLock' = (IF syncLock = d THEN Nil ELSE syncLock)
           /\ stopOf' = [stopOf EXCEPT ![w].pc = "killed"]
  <2>0. d \in Daemon
    BY <1>1, <1>3, <1>t DEF StopInv
  <2>1. StopSets(w) /\ stopOf'[w].pc = "killed"
    BY <1>1, <1>3, <1>t DEF SyncTypes, StopSets, NoStop
  <2> HIDE DEF d
  <2>2. OnlyEnds /\ daemons'[d].at = "gone" /\ \A e \in Daemon : e # d => daemons'[e] = daemons[e]
    BY <1>3, <1>t, <2>0, GoneEnds
  <2>3. LockInv'
    <3>1. \A e \in Daemon : syncLock' = e <=> Holding(e)'
      BY <1>3, <1>t, <2>0, <2>2, SyncAssumption DEF LockInv, Holding
    <3>2. /\ syncLock' \in Daemon \cup {"serve", "down", "hand", Nil} /\ (syncLock' = "serve" <=> syncLock = "serve")
          /\ \A v \in Who : syncLock' = v <=> syncLock = v
      BY <1>3, <1>t, <2>0, SyncAssumption DEF LockInv, Who
    <3>3. \A v \in Who : syncLock' = v <=> stopOf'[v].pc = "free"
      BY <1>1, <1>t, <2>1, <3>2 DEF LockInv, StopSets
    <3>4. syncPid' \in Daemon \cup {Stranger, Nil} /\ \A e \in Daemon : syncPid' = e => daemons'[e].at \in {"running", "leaving", "gone"}
      BY <1>1, <1>t, <2>2 DEF LockInv
    <3> QED
      BY <1>1, <1>t, <3>1, <3>2, <3>3, <3>4 DEF LockInv
  <2>4. w = "down" /\ AtLast => LastKnows'
    <3>1. \A e \in Daemon : Alive(e)' => Alive(e) /\ e # d /\ (Tardy(e)' <=> Tardy(e))
      BY <2>2 DEF OnlyEnds, Tardy, Alive
    <3>2. w = "down" /\ AtLast => \A e \in Daemon : Alive(e) => e = d \/ e \in downAll.strays \/ Tardy(e)
      BY <1>1, <1>t, <2>0 DEF StopInv, AtLast, d
    <3>3. w = "down" /\ AtLast => NoneLeft'
      BY <1>1, <3>1, <3>2 DEF NoneLeft
    <3> QED
      BY <2>1, <3>3 DEF LastKnows
  <2> QED
    BY <1>1, <2>1, <2>2, <2>3, <2>4, StopSetsKeep
<1> QED
  BY <1>2, <1>3 DEF StopKills

LEMMA StopChecksKeeps ==
  ASSUME SyncInv, NEW w \in Who, StopChecks(w)
  PROVE  SyncInv'
<1>t. SyncTypes /\ LockInv
  BY DEF SyncInv
<1>1. stopOf[w].pc = "check" /\ UNCHANGED <<daemons, syncLock, syncPid, supLock, serveThread, downAll, syncPlan>>
  BY DEF StopChecks, StopRest
<1>2. StopSets(w) /\ stopOf'[w].pc = "over" /\ stopOf'[w].out = IF syncLock = Nil THEN "absent" ELSE "stuck"
  BY <1>1, <1>t DEF SyncTypes, StopSets, NoStop, StopChecks
<1>3. LockInv'
  BY <1>1, <1>2, <1>t DEF LockInv, Holding, StopSets
<1>4. w = "down" /\ AtLast => LastKnows'
  BY <1>1, <1>2, FreeLeavesNone DEF LastKnows, NoneLeft, Alive, Tardy
<1> QED
  BY <1>1, <1>t, <1>2, <1>3, <1>4, NoneEnds, StopSetsKeep

-----------------------------------------------------------------------------
(* `down --all` itself: it changes no daemon and no pid file.              *)

DownSets == DOMAIN downAll' = {"pc", "until", "asked", "seen", "said", "strays", "held", "fooled"} /\ UNCHANGED <<daemons, syncPid, syncPlan>>

LEMMA DownStill ==
  ASSUME SyncTypes, DownSets
  PROVE  (NoHand' <=> NoHand) /\ (\A d \in Daemon : (Alive(d)' <=> Alive(d)) /\ (Starting(d)' <=> Starting(d)) /\ (Holding(d)' <=> Holding(d))
                                           /\ (Tardy(d)' <=> Tardy(d)) /\ (Quick(d)' <=> Quick(d)))
BY DEF DownSets, NoHand, Alive, Starting, Holding, Tardy, Quick

LEMMA DownAsksKeeps == ASSUME SyncInv, DownAsks PROVE SyncInv'
<1>t. SyncTypes /\ LockInv /\ SupInv /\ AloneInv /\ LateInv /\ StopInv /\ DownLeavesNoSync
  BY DEF SyncInv
<1>1. /\ DownSets /\ UNCHANGED <<syncLock, supLock, serveThread, stopOf>> /\ downAll.pc = "ask" /\ downAll'.pc = "ask" /\ downAll'.asked = TRUE
      /\ downAll'.until = downAll.until /\ downAll'.held = downAll.held /\ downAll'.fooled = downAll.fooled
  BY <1>t DEF DownAsks, DownRest, DownSets, SyncTypes
<1>2. SyncTypes' /\ LockInv' /\ AloneInv'
  BY <1>t, <1>1, DownStill, ZenonT(60) DEF DownSets, SyncTypes, LockInv, AloneInv, Starting
<1>3. SupInv'
  BY <1>t, <1>1 DEF DownSets, SupInv, TickIn, Looking, BeforeHold
<1>4. LateInv'
  BY <1>1 DEF LateInv
<1>5. StopInv' /\ DownLeavesNoSync'
  BY <1>t, <1>1 DEF StopInv, BeforeHold, DownLeavesNoSync
<1> QED
  BY <1>2, <1>3, <1>4, <1>5 DEF SyncInv

LEMMA DownHoldsKeeps == ASSUME SyncInv, DownHolds PROVE SyncInv'
<1>t. SyncTypes /\ LockInv /\ SupInv /\ AloneInv /\ LateInv /\ StopInv /\ DownLeavesNoSync
  BY DEF SyncInv
<1>1. /\ DownSets /\ UNCHANGED <<syncLock, serveThread, stopOf>> /\ downAll.pc = "ask"
      /\ downAll'.pc = (IF syncPlan.pulls THEN "first" ELSE "look") /\ downAll'.until = (IF downAll.asked THEN Cold ELSE NoLook) /\ downAll'.asked = FALSE
      /\ downAll'.fooled = downAll.fooled /\ downAll'.strays = {d \in Daemon : daemons[d].at = "starting" /\ ~daemons[d].late}
  BY <1>t DEF DownHolds, DownRest, DownSets, SyncTypes
<1>2. (supLock = Nil /\ supLock' = "down" /\ downAll'.held = TRUE) \/ (supLock = "serve" /\ supLock' = "serve" /\ downAll'.held = FALSE)
  BY <1>t, SyncAssumption DEF DownHolds, SyncTypes
<1>3. Cold \in 0..NoLook /\ NoLook \in 0..NoLook
  BY SyncAssumption DEF NoLook
<1>4. SyncTypes'
  BY <1>t, <1>1, <1>2, <1>3 DEF DownSets, SyncTypes, Starting
<1>5. LockInv' /\ AloneInv'
  BY <1>t, <1>1, DownStill DEF DownSets, LockInv, AloneInv
<1>6. SupInv'
  BY <1>t, <1>1, <1>2, SyncAssumption DEF DownSets, SupInv, TickIn, Looking, BeforeHold
<1>7. LateInv'
  <2>1. NoHand => \A d \in Daemon : Starting(d)' => d \in downAll'.strays \/ (Cold <= Cold + Settle /\ downAll'.until = Cold /\ Cold + daemons'[d].age >= Cold)
    <3>1. NoHand => \A d \in Daemon : Starting(d) => d \in downAll'.strays \/ downAll.asked
      BY <1>t, <1>1 DEF LateInv, BeforeHold, Starting
    <3>2. \A d \in Daemon : Starting(d) => Cold <= Cold + Settle /\ Cold + daemons[d].age >= Cold
      BY <1>t, SyncAssumption DEF SyncTypes
    <3> QED
      BY <1>1, <3>1, <3>2 DEF DownSets, Starting
  <2> QED
    BY <1>1, <1>t, <2>1, DownStill DEF LateInv, BeforeHold, InTime
<1>8. StopInv' /\ DownLeavesNoSync'
  BY <1>t, <1>1 DEF StopInv, BeforeHold, DownLeavesNoSync, DownSets
<1> QED
  BY <1>4, <1>5, <1>6, <1>7, <1>8 DEF SyncInv

\* What is left of `down` where it neither takes the hold nor lets it go.
DownMoves ==
  /\ DownSets /\ DOMAIN stopOf' = Who /\ stopOf'["hand"] = stopOf["hand"] /\ UNCHANGED <<syncLock, supLock, serveThread>>
  /\ downAll'.held = downAll.held /\ downAll'.strays = downAll.strays /\ downAll'.asked = downAll.asked /\ ~BeforeHold /\ ~BeforeHold' /\ downAll.pc # "rest"
  /\ Looking /\ Looking' /\ downAll'.fooled \in BOOLEAN
  /\ downAll'.pc \in {"first", "firstStop", "services", "look", "await", "lastStop"} /\ downAll'.pc \notin {"ask", "rest", "first", "over"}

LEMMA DownMovesKeep ==
  ASSUME SyncInv, DownMoves, LateInv', downAll'.until \in 0..NoLook, downAll'.pc = "firstStop" => syncPlan.pulls,
         downAll'.pc \in {"look", "await", "lastStop"} => serveThread = "off",
         stopOf'["down"] = stopOf["down"] \/ (stopOf["down"].pc \in {"none", "over"} /\ stopOf'["down"] = NewStop),
         downAll'.pc \in {"services", "look", "await"} => stopOf["down"].pc \in {"none", "over"} /\ stopOf'["down"] = stopOf["down"],
         downAll'.pc = "lastStop" => stopOf'["down"] = NewStop
  PROVE  SyncInv'
<1>t. SyncTypes /\ LockInv /\ SupInv /\ AloneInv /\ LateInv /\ StopInv
  BY DEF SyncInv
<1>1. DOMAIN NewStop = DOMAIN NoStop /\ NewStop.pc = "probe"
  BY DEF NewStop, NoStop
<1>2. SyncTypes'
  BY <1>t, <1>1 DEF DownMoves, DownSets, SyncTypes, Starting, Who
<1>3. \A w \in Who : stopOf'[w].pc = "free" <=> stopOf[w].pc = "free"
  BY <1>1 DEF DownMoves, Who
<1>4. LockInv' /\ AloneInv'
  BY <1>t, <1>3, DownStill DEF DownMoves, DownSets, LockInv, AloneInv
<1>5. SupInv'
  BY <1>t DEF DownMoves, DownSets, SupInv, TickIn
<1>6. \A w \in Who : stopOf'[w].pc = "kill" => stopOf'[w].pid \in Daemon \cup {Stranger}
  BY <1>t, <1>1 DEF DownMoves, StopInv, Who
<1>7. StopInv'
  BY <1>1, <1>6 DEF DownMoves, StopInv
<1>8. DownLeavesNoSync'
  BY DEF DownMoves, DownLeavesNoSync
<1> QED
  BY <1>2, <1>4, <1>5, <1>7, <1>8 DEF SyncInv

\* While what it looks for stays, so does what is known of it.
LEMMA StillInTime ==
  ASSUME SyncInv, DownMoves, downAll'.until = downAll.until, downAll'.pc # "lastStop", downAll.pc # "lastStop"
  PROVE  LateInv'
<1>t. SyncTypes /\ LateInv
  BY DEF SyncInv
<1> QED
  BY <1>t, DownStill DEF DownMoves, DownSets, LateInv, InTime, Looking

LEMMA FirstLookKeeps == ASSUME SyncInv, FirstLook PROVE SyncInv'
<1>t. SyncTypes /\ SupInv /\ StopInv
  BY DEF SyncInv
<1>1. DownMoves /\ downAll.pc = "first" /\ downAll'.pc = "firstStop" /\ downAll'.until = downAll.until /\ stopOf'["down"] = NewStop /\ downAll'.fooled = downAll.fooled
  BY <1>t DEF FirstLook, DownRest, DownMoves, DownSets, SyncTypes, BeforeHold, Looking, Who
<1>2. LateInv'
  BY <1>1, StillInTime
<1> QED
  BY <1>t, <1>1, <1>2, DownMovesKeep DEF SyncTypes, SupInv, StopInv

LEMMA FirstStoppedKeeps == ASSUME SyncInv, FirstStopped PROVE SyncInv'
<1>t. SyncTypes /\ SupInv /\ StopInv
  BY DEF SyncInv
<1>1. DownMoves /\ downAll.pc = "firstStop" /\ downAll'.pc = "services" /\ downAll'.until = downAll.until /\ stopOf' = stopOf /\ stopOf["down"].pc = "over" /\ downAll'.fooled = downAll.fooled
  BY <1>t DEF FirstStopped, DownRest, DownMoves, DownSets, SyncTypes, BeforeHold, Looking, SupInv
<1>2. LateInv'
  BY <1>1, StillInTime
<1> QED
  BY <1>t, <1>1, <1>2, DownMovesKeep DEF SyncTypes, SupInv

LEMMA LooksUntilKeeps == ASSUME SyncInv, LooksUntil PROVE SyncInv'
<1>t. SyncTypes /\ SupInv /\ StopInv /\ LateInv
  BY DEF SyncInv
<1>1. DownMoves /\ downAll.pc = "look" /\ downAll'.pc = "await" /\ downAll'.until = Until /\ stopOf' = stopOf /\ downAll'.fooled = downAll.fooled
  BY <1>t DEF LooksUntil, DownRest, DownMoves, DownSets, SyncTypes, BeforeHold, Looking
<1>2. Until \in 0..NoLook /\ (downAll.until <= Cold + Settle => Until >= downAll.until /\ Until <= Cold + Settle)
  BY <1>t, SyncAssumption DEF SyncTypes, Until, NoLook
<1>3. \A d \in Daemon : Starting(d) /\ InTime(d) => InTime(d)'
  BY <1>t, <1>1, <1>2, SyncAssumption DEF InTime, SyncTypes, DownMoves, DownSets, NoLook
<1>4. LateInv'
  BY <1>t, <1>1, <1>3, DownStill DEF DownMoves, DownSets, LateInv, Looking
<1> QED
  BY <1>t, <1>1, <1>2, <1>4, DownMovesKeep DEF SyncTypes, SupInv, StopInv

LEMMA AwaitsKeeps == ASSUME SyncInv, Awaits PROVE SyncInv'
<1>t. SyncTypes /\ LockInv /\ SupInv /\ StopInv /\ AloneInv /\ LateInv
  BY DEF SyncInv
<1>1. DownMoves /\ downAll.pc = "await" /\ downAll'.pc = "lastStop" /\ downAll'.until = downAll.until /\ stopOf'["down"] = NewStop
      /\ downAll'.fooled = (LooksOn /\ Mistaken)
  BY <1>t DEF Awaits, DownRest, DownMoves, DownSets, SyncTypes, BeforeHold, Looking, Who
<1>2. LateInv'
  <2> SUFFICES ASSUME NoHand, downAll.held, ~downAll'.fooled, NEW d \in Daemon, Starting(d), ~Tardy(d) PROVE d \in downAll.strays
    BY <1>1, <1>t, DownStill DEF DownMoves, DownSets, LateInv
  <2>1. CASE LooksOn
    <3>1. syncLock \in Daemon /\ Holding(syncLock)
      BY <1>1, <1>t, <2>1 DEF LockInv, Mistaken
    <3>2. ~Tardy(syncLock)
      BY <1>1, <2>1 DEF Mistaken, Starting
    <3>3. Quick(d) /\ Quick(syncLock) /\ d # syncLock
      BY <3>1, <3>2 DEF Quick, Alive, Starting, Holding
    <3> QED
      BY <1>t, <3>1, <3>3 DEF AloneInv
  <2>2. CASE ~LooksOn
    <3>1. d \in downAll.strays \/ InTime(d)
      BY <1>1, <1>t DEF LateInv
    <3>2. downAll.until \in {0, NoLook} /\ daemons[d].age \in 0..Cold /\ daemons[d].age # Cold
      BY <1>t, <2>2 DEF LooksOn, SyncTypes, Tardy
    <3> QED
      BY <3>1, <3>2, SyncAssumption DEF InTime, NoLook
  <2> QED
    BY <2>1, <2>2
<1> QED
  BY <1>t, <1>1, <1>2, DownMovesKeep DEF SyncTypes, SupInv, StopInv

LEMMA StopsServeKeeps == ASSUME SyncInv, StopsServe PROVE SyncInv'
<1>t. SyncTypes /\ LockInv /\ SupInv /\ AloneInv /\ LateInv /\ StopInv
  BY DEF SyncInv
<1>1. /\ DownSets /\ stopOf' = stopOf /\ downAll.pc = "services" /\ downAll'.pc = (IF syncPlan.pulls THEN "look" ELSE "ask") /\ serveThread' = "off"
      /\ downAll'.until = downAll.until /\ downAll'.held = downAll.held /\ downAll'.fooled = downAll.fooled /\ downAll'.strays = downAll.strays /\ downAll'.asked = downAll.asked
      /\ syncLock' = (IF syncLock = "serve" THEN Nil ELSE syncLock) /\ supLock' = (IF supLock = "serve" THEN Nil ELSE supLock)
  BY <1>t DEF StopsServe, DownRest, DownSets, SyncTypes
<1>2. SyncTypes'
  BY <1>t, <1>1 DEF DownSets, SyncTypes, Starting
<1>3. LockInv'
  BY <1>t, <1>1, DownStill, SyncAssumption DEF DownSets, LockInv, Who
<1>4. SupInv'
  BY <1>t, <1>1, SyncAssumption DEF DownSets, SupInv, TickIn, Looking, BeforeHold
<1>5. AloneInv'
  BY <1>t, <1>1, DownStill DEF DownSets, AloneInv
<1>6. LateInv'
  <2>1. BeforeHold' => BeforeHold
    BY <1>1 DEF BeforeHold, DownSets
  <2> QED
    BY <1>t, <1>1, <2>1, DownStill DEF DownSets, LateInv, InTime
<1>7. StopInv' /\ DownLeavesNoSync'
  BY <1>t, <1>1 DEF DownSets, StopInv, BeforeHold, DownLeavesNoSync
<1> QED
  BY <1>2, <1>3, <1>4, <1>5, <1>6, <1>7 DEF SyncInv

LEMMA DownAllEndsKeeps == ASSUME SyncInv, DownAllEnds PROVE SyncInv'
<1>t. SyncTypes /\ LockInv /\ SupInv /\ AloneInv /\ LateInv /\ StopInv
  BY DEF SyncInv
<1>1. /\ DownSets /\ UNCHANGED <<syncLock, serveThread, stopOf>> /\ downAll.pc = "lastStop" /\ downAll'.pc = "over" /\ downAll'.said = stopOf["down"].out
      /\ downAll'.until = downAll.until /\ downAll'.held = downAll.held /\ downAll'.fooled = downAll.fooled /\ downAll'.strays = downAll.strays /\ downAll'.asked = downAll.asked
      /\ supLock' = (IF supLock = "down" THEN Nil ELSE supLock) /\ stopOf["down"].pc = "over"
  BY <1>t DEF DownAllEnds, DownRest, DownSets, SyncTypes
<1>2. SyncTypes'
  BY <1>t, <1>1 DEF DownSets, SyncTypes, Starting
<1>3. LockInv' /\ AloneInv'
  BY <1>t, <1>1, DownStill DEF DownSets, LockInv, AloneInv
<1>4. SupInv'
  BY <1>t, <1>1, SyncAssumption DEF DownSets, SupInv, TickIn, Looking, BeforeHold
<1>5. LateInv'
  BY <1>t, <1>1, DownStill DEF DownSets, LateInv, BeforeHold
<1>6. StopInv'
  BY <1>t, <1>1 DEF StopInv, BeforeHold
<1>7. DownLeavesNoSync'
  BY <1>t, <1>1, DownStill DEF DownSets, StopInv, DownLeavesNoSync, NoHand, NoneLeft
<1> QED
  BY <1>2, <1>3, <1>4, <1>5, <1>6, <1>7 DEF SyncInv

LEMMA HandStopsKeeps == ASSUME SyncInv, HandStops PROVE SyncInv'
<1>t. SyncTypes /\ LockInv /\ SupInv /\ AloneInv /\ LateInv /\ StopInv /\ DownLeavesNoSync
  BY DEF SyncInv
<1>1. /\ DownSets /\ UNCHANGED <<syncLock, supLock, serveThread, downAll>> /\ DOMAIN stopOf' = Who /\ stopOf["hand"].pc = "none" /\ stopOf'["hand"] = NewStop
      /\ stopOf'["down"] = stopOf["down"]
  BY <1>t DEF HandStops, StopRest, DownSets, SyncTypes, Who
<1>2. DOMAIN NewStop = DOMAIN NoStop /\ NewStop.pc = "probe"
  BY DEF NewStop, NoStop
<1>3. SyncTypes'
  BY <1>t, <1>1, <1>2 DEF DownSets, SyncTypes, Starting, Who
<1>4. \A w \in Who : (stopOf'[w].pc = "free" <=> stopOf[w].pc = "free") /\ (stopOf'[w].pc = "kill" => stopOf'[w].pid \in Daemon \cup {Stranger})
  BY <1>t, <1>1, <1>2 DEF StopInv, Who
<1>5. LockInv' /\ AloneInv' /\ SupInv'
  BY <1>t, <1>1, <1>4, DownStill DEF DownSets, LockInv, AloneInv, SupInv, TickIn, Looking, BeforeHold
<1>6. LateInv'
  BY <1>t, <1>1, DownStill DEF DownSets, LateInv, BeforeHold, InTime
<1>7. StopInv'
  BY <1>t, <1>1, <1>4, DownStill DEF DownSets, StopInv, BeforeHold, NoneLeft
<1>8. DownLeavesNoSync'
  BY <1>t, <1>1, DownStill DEF DownSets, DownLeavesNoSync
<1> QED
  BY <1>3, <1>5, <1>6, <1>7, <1>8 DEF SyncInv

-----------------------------------------------------------------------------
(* Time.                                                                   *)

LEMMA SyncClockKeeps == ASSUME SyncInv, SyncClock PROVE SyncInv'
<1>t. SyncTypes /\ LockInv /\ SupInv /\ AloneInv /\ LateInv /\ StopInv /\ DownLeavesNoSync
  BY DEF SyncInv
<1>u. UNCHANGED <<syncLock, syncPid, supLock, serveThread, syncPlan>>
  BY DEF SyncClock
<1>1. /\ DOMAIN daemons' = Daemon /\ \A d \in Daemon :
           /\ DOMAIN daemons'[d] = {"at", "age", "by", "late"} /\ daemons'[d].at = daemons[d].at /\ daemons'[d].by = daemons[d].by /\ daemons'[d].late = daemons[d].late
           /\ daemons'[d].age = IF Starting(d) /\ ~Tardy(d) THEN daemons[d].age + 1 ELSE daemons[d].age
  BY <1>t DEF SyncClock, SyncTypes, Starting
<1>2. /\ DOMAIN stopOf' = Who /\ \A w \in Who : DOMAIN stopOf'[w] = DOMAIN NoStop /\ stopOf'[w].pc = stopOf[w].pc /\ stopOf'[w].pid = stopOf[w].pid /\ stopOf'[w].out = stopOf[w].out
  BY <1>t DEF SyncClock, SyncTypes, NoStop
<1>3. /\ DOMAIN downAll' = DOMAIN downAll /\ downAll'.pc = downAll.pc /\ downAll'.asked = downAll.asked /\ downAll'.said = downAll.said
      /\ downAll'.strays = downAll.strays /\ downAll'.held = downAll.held /\ downAll'.fooled = downAll.fooled
      /\ downAll'.until = IF downAll.until \in 1..(Cold + Settle) THEN downAll.until - 1 ELSE downAll.until
  BY <1>t DEF SyncClock, SyncTypes
<1>4. \A d \in Daemon : Starting(d) => daemons[d].age \in 0..Cold /\ daemons'[d].age \in 0..Cold
  BY <1>t, <1>1, SyncAssumption DEF SyncTypes, Tardy
<1>5. (NoHand' <=> NoHand) /\ \A d \in Daemon : (Alive(d)' <=> Alive(d)) /\ (Starting(d)' <=> Starting(d)) /\ (Holding(d)' <=> Holding(d)) /\ (Tardy(d) => Tardy(d)')
  BY <1>1 DEF NoHand, Alive, Starting, Holding, Tardy
<1>6. downAll'.until \in 0..NoLook
  BY <1>t, <1>3, SyncAssumption DEF SyncTypes, NoLook
<1>7. SyncTypes'
  <2>1. \A d \in Daemon : Starting(d)' => daemons'[d].age \in 0..Cold
    BY <1>4, <1>5
  <2>2. \A d \in Daemon : Starting(d)' => daemons'[d].by \in {"serve", "hand"} /\ daemons'[d].late \in BOOLEAN
    BY <1>t, <1>1, <1>5 DEF SyncTypes
  <2> QED
    BY <1>t, <1>u, <1>1, <1>2, <1>3, <1>6, <2>1, <2>2 DEF SyncTypes
<1>8. LockInv'
  BY <1>t, <1>u, <1>1, <1>2, <1>5 DEF LockInv
<1>9. SupInv' /\ AloneInv'
  BY <1>t, <1>u, <1>3, <1>5 DEF SupInv, AloneInv, Quick, TickIn, Looking, BeforeHold
<1>10. \A d \in Daemon : Starting(d) /\ InTime(d) => InTime(d)'
  BY <1>t, <1>1, <1>3, <1>4, SyncAssumption DEF InTime, SyncTypes, NoLook, Tardy
<1>11. LateInv'
  BY <1>t, <1>u, <1>1, <1>3, <1>5, <1>10 DEF LateInv, BeforeHold
<1>12. (NoneLeft => NoneLeft') /\ "down" \in Who
  BY <1>3, <1>5 DEF NoneLeft, Who
<1>13. StopInv'
  BY <1>t, <1>u, <1>2, <1>3, <1>5, <1>12 DEF StopInv, BeforeHold
<1>14. DownLeavesNoSync'
  BY <1>t, <1>1, <1>3, <1>5 DEF DownLeavesNoSync
<1> QED
  BY <1>7, <1>8, <1>9, <1>11, <1>13, <1>14 DEF SyncInv

-----------------------------------------------------------------------------

LEMMA SyncInvInit == SyncInit => SyncInv
<1> SUFFICES ASSUME NEW s \in SyncSetups, SyncStart(s) PROVE SyncInv
  BY DEF SyncInit
<1>1. s.runs \subseteq Daemon /\ (\A d, e \in s.runs : d = e) /\ s.left \in s.runs \cup {Stranger, Nil} /\ s.down \in {"ask", "rest"}
  BY SyncAssumption
<1>2. DOMAIN daemons = Daemon /\ \A d \in Daemon : DOMAIN daemons[d] = {"at", "age", "by", "late"} /\ daemons[d].at = (IF d \in s.runs THEN "running" ELSE "unborn") /\ daemons[d].by = "earlier"
  BY DEF SyncStart
<1>3. DOMAIN stopOf = Who /\ \A w \in Who : stopOf[w] = NoStop
  BY DEF SyncStart
<1>4. /\ DOMAIN downAll = {"pc", "until", "asked", "seen", "said", "strays", "held", "fooled"} /\ downAll.until = NoLook /\ ~downAll.held /\ ~downAll.asked /\ ~downAll.fooled
      /\ downAll.pc = (IF s.down = "ask" /\ ~s.pulls THEN "services" ELSE s.down) /\ syncPlan = s /\ downAll.said = "none"
      /\ downAll.held \in BOOLEAN /\ downAll.asked \in BOOLEAN /\ downAll.fooled \in BOOLEAN
  BY DEF SyncStart
<1>5. NoLook \in 0..NoLook /\ NoStop.pc = "none"
  BY SyncAssumption DEF NoLook, NoStop
<1>6. \A d \in Daemon : ~Starting(d) /\ (Alive(d) <=> d \in s.runs) /\ (Holding(d) <=> d \in s.runs)
  BY <1>2 DEF Starting, Alive, Holding
<1>7. SyncTypes
  BY <1>1, <1>2, <1>3, <1>4, <1>5, <1>6 DEF SyncTypes
<1>8. IF s.runs = {} THEN syncLock = Nil ELSE syncLock \in s.runs
  BY DEF SyncStart
<1>9. supLock = Nil /\ serveThread \in {"idle", "off"} /\ syncPid = s.left
  BY DEF SyncStart
<1>10. LockInv
  BY <1>1, <1>2, <1>3, <1>5, <1>6, <1>8, <1>9, SyncAssumption DEF LockInv, Who
<1>11. SupInv
  BY <1>1, <1>4, <1>9, SyncAssumption DEF SupInv, TickIn, Looking, BeforeHold
<1>12. AloneInv /\ LateInv
  BY <1>1, <1>4, <1>6, <1>9 DEF AloneInv, Quick, LateInv
<1>13. StopInv
  BY <1>1, <1>3, <1>4, <1>5 DEF StopInv, Who
<1>14. DownLeavesNoSync
  BY <1>4 DEF DownLeavesNoSync
<1> QED
  BY <1>7, <1>10, <1>11, <1>12, <1>13, <1>14 DEF SyncInv

LEMMA SyncInvNext == SyncInv /\ [SyncNext]_syncvars => SyncInv'
<1> SUFFICES ASSUME SyncInv, [SyncNext]_syncvars PROVE SyncInv'
  OBVIOUS
<1>1. CASE UNCHANGED syncvars
  <2>1. SyncTypes /\ LockInv'
    BY <1>1 DEF SyncInv, syncvars, LockInv, Holding
  <2> QED
    BY <1>1, <2>1, NoneEnds, EndsKeeps DEF syncvars
<1>2. ASSUME NEW w \in Who, StopStep(w) PROVE SyncInv'
  BY <1>2, StopProbesKeeps, StopLetsGoKeeps, StopClearsKeeps, StopReadsKeeps, StopKillsKeeps, StopChecksKeeps DEF StopStep
<1> QED
  BY <1>1, <1>2, DaemonKeeps, RestKeeps, ServeKeeps, SpawnsKeeps, HandSpawnsKeeps, DownAsksKeeps, DownHoldsKeeps, FirstLookKeeps, FirstStoppedKeeps,
     StopsServeKeeps, LooksUntilKeeps, AwaitsKeeps, DownAllEndsKeeps, HandStopsKeeps, SyncClockKeeps DEF SyncNext

(* `down --all` that says its daemon is stopped, or was not there, leaves  *)
(* none that came up within its wait, but what it could not know of        *)
(* (DownSyncStop): for any number of daemons, any waits and starts as long *)
(* as they like, whatever serve, other hands' stops, crashes and ends of   *)
(* the idle do meanwhile.                                                  *)
THEOREM DownLeavesNoSyncHolds == SyncSpec => []DownLeavesNoSync
<1>1. SyncInv => DownLeavesNoSync
  BY DEF SyncInv
<1> QED
  BY <1>1, SyncInvInit, SyncInvNext, PTL DEF SyncSpec

-----------------------------------------------------------------------------
(* Recall: a conversation's files.                                         *)

Files == [File -> Seq(Nat)]

RecallTypes ==
  /\ claudeFiles \in [Machine -> Files] /\ mirrors \in [Node -> Files]
  /\ placedOn \in Node \cup {Nobody} /\ turnCount \in Nat /\ wroteAcross \in BOOLEAN
  /\ DOMAIN recalls = Recalling /\ \A r \in Recalling : DOMAIN recalls[r] = DOMAIN NoRun /\ recalls[r].sent \in Files
  /\ DOMAIN installs = Recalling /\ \A r \in Recalling : DOMAIN installs[r] = DOMAIN NoScript /\ installs[r].payload \in Files

(* Where a recall is from and goes; it has sent nothing yet, or what its   *)
(* script has.  `u` is a recall, `s` its script.                           *)
EarlyPcs == {"pull", "report", "resume", "stop", "install"}
RunKnows(u, s) ==
  /\ u.pc \in EarlyPcs => u.from \in Node
  /\ u.pc \in EarlyPcs \cup {"clear"} => u.to \in Machine
  /\ u.pc \in EarlyPcs \cup {"idle"} => \A f \in File : u.sent[f] = <<>>
  /\ u.pc = "sent" => u.to \in Node /\ s.at = u.to /\ s.payload = u.sent
  /\ u.pc = "up" => u.to \in Node

(* What a script installs: each conversation is still to do, in hand,      *)
(* there, or kept.  `files` are the files, `cross` whether an agent wrote  *)
(* across an install.                                                      *)
There(files, s, c) == c \in s.todo \/ (s.pc = "judged" /\ s.file = c) \/ IsPrefix(s.payload[c], files[s.at][c]) \/ c \in s.kept
ScriptKnows(s, files, cross) ==
  /\ s.pc # "none" => s.at \in Node
  /\ s.pc = "judged" => s.file \in File /\ Goes(s.saw, s.payload[s.file])
  /\ s.pc = "done" => s.todo = {}
  /\ s.pc \in {"placing", "judged", "done"} /\ ~cross => \A c \in Talk : There(files, s, c)
Whole(u, files, cross) == u.pc \in {"clear", "up"} /\ ~cross /\ u.to \in Node =>
  \A c \in Talk : IsPrefix(u.sent[c], files[u.to][c]) \/ c \in u.told

RecallInv ==
  /\ RecallTypes /\ NodesKeepTheirTurns
  /\ \A r \in Recalling : /\ RunKnows(recalls[r], installs[r]) /\ ScriptKnows(installs[r], claudeFiles, wroteAcross)
                          /\ Whole(recalls[r], claudeFiles, wroteAcross)

-----------------------------------------------------------------------------
(* Prefixes.                                                               *)

LEMMA PrefixIs ==
  ASSUME NEW s \in Seq(Nat), NEW t \in Seq(Nat)
  PROVE  IsPrefix(s, t) <=> (Len(s) <= Len(t) /\ \A i \in 1..Len(s) : s[i] = t[i])
<1>1. Len(s) \in Nat /\ Len(t) \in Nat /\ (\A i \in 1..Len(s) : s[i] \in Nat) /\ (\A i \in 1..Len(t) : t[i] \in Nat)
  BY LenProperties, ElementOfSeq
<1> SUFFICES ASSUME Len(s) <= Len(t) PROVE SubSeq(s, 1, Len(s)) = SubSeq(t, 1, Len(s)) <=> \A i \in 1..Len(s) : s[i] = t[i]
  BY DEF IsPrefix
<1> DEFINE a == SubSeq(s, 1, Len(s))
           b == SubSeq(t, 1, Len(s))
<1>2. a \in Seq(Nat) /\ Len(a) = (IF 1 <= Len(s) THEN Len(s) - 1 + 1 ELSE 0) /\ \A i \in 1..(Len(s) - 1 + 1) : a[i] = s[1 + i - 1]
  BY <1>1, SubSeqProperties
<1>3. \A i \in 1..Len(s) : t[i] \in Nat
  BY <1>1
<1>4. b \in Seq(Nat) /\ Len(b) = (IF 1 <= Len(s) THEN Len(s) - 1 + 1 ELSE 0) /\ \A i \in 1..(Len(s) - 1 + 1) : b[i] = t[1 + i - 1]
  BY <1>1, <1>3, SubSeqProperties
<1> HIDE DEF a, b
<1>5. Len(a) = Len(s) /\ Len(b) = Len(s) /\ \A i \in 1..Len(s) : a[i] = s[i] /\ b[i] = t[i]
  BY <1>1, <1>2, <1>4
<1>6. a = b <=> \A i \in 1..Len(s) : a[i] = b[i]
  BY <1>2, <1>4, <1>5, SeqEqual
<1> QED
  BY <1>5, <1>6 DEF a, b

LEMMA PrefixSelf == \A s \in Seq(Nat) : IsPrefix(s, s) /\ IsPrefix(<<>>, s)
<1> TAKE s \in Seq(Nat)
<1> DEFINE e == <<>>
<1>1. e \in Seq(Nat) /\ Len(e) = 0 /\ Len(s) \in Nat
  BY LenProperties
<1> HIDE DEF e
<1>2. IsPrefix(s, s) <=> (Len(s) <= Len(s) /\ \A i \in 1..Len(s) : s[i] = s[i])
  BY PrefixIs
<1>3. IsPrefix(e, s) <=> (Len(e) <= Len(s) /\ \A i \in 1..Len(e) : e[i] = s[i])
  BY <1>1, PrefixIs
<1>4. IsPrefix(s, s)
  BY <1>1, <1>2
<1>5. IsPrefix(e, s)
  BY <1>1, <1>3
<1> QED
  BY <1>4, <1>5 DEF e

LEMMA PrefixTrans ==
  ASSUME NEW s \in Seq(Nat), NEW t \in Seq(Nat), NEW u \in Seq(Nat), IsPrefix(s, t), IsPrefix(t, u)
  PROVE  IsPrefix(s, u)
<1>1. Len(s) \in Nat /\ Len(t) \in Nat /\ Len(u) \in Nat
  BY LenProperties
<1>2. Len(s) <= Len(t) /\ \A i \in 1..Len(s) : s[i] = t[i]
  BY PrefixIs
<1>3. Len(t) <= Len(u) /\ \A i \in 1..Len(t) : t[i] = u[i]
  BY PrefixIs
<1>4. Len(s) <= Len(u) /\ \A i \in 1..Len(s) : s[i] = u[i]
  BY <1>1, <1>2, <1>3
<1> QED
  BY <1>4, PrefixIs

LEMMA PrefixAppend == \A s \in Seq(Nat), n \in Nat : IsPrefix(s, Append(s, n)) /\ Append(s, n) \in Seq(Nat)
<1> TAKE s \in Seq(Nat), n \in Nat
<1> DEFINE a == Append(s, n)
<1>1. a \in Seq(Nat) /\ Len(a) = Len(s) + 1 /\ \A i \in 1..Len(s) : a[i] = s[i]
  BY AppendProperties
<1>2. Len(s) \in Nat
  BY LenProperties
<1> HIDE DEF a
<1>3. IsPrefix(s, a) <=> (Len(s) <= Len(a) /\ \A i \in 1..Len(s) : s[i] = a[i])
  BY <1>1, PrefixIs
<1>4. IsPrefix(s, a)
  BY <1>1, <1>2, <1>3
<1> QED
  BY <1>1, <1>4 DEF a

-----------------------------------------------------------------------------
(* What is known of a recall and its script stays known while the files    *)
(* of the nodes only grow.                                                 *)

LEMMA ScriptStays ==
  ASSUME NEW f1 \in [Machine -> Files], NEW f2 \in [Machine -> Files], NEW x1 \in BOOLEAN, NEW x2 \in BOOLEAN, x1 => x2,
         ~x2 => \A n \in Node, c \in Talk : IsPrefix(f1[n][c], f2[n][c]),
         NEW s, s.payload \in Files, ScriptKnows(s, f1, x1)
  PROVE  ScriptKnows(s, f2, x2)
<1> SUFFICES ASSUME s.pc \in {"placing", "judged", "done"}, ~x2, NEW c \in Talk PROVE There(f2, s, c)
  BY DEF ScriptKnows
<1>1. There(f1, s, c) /\ s.at \in Node /\ s.at \in Machine /\ c \in File
  BY DEF ScriptKnows, Machine, File
<1>2. s.payload[c] \in Seq(Nat) /\ f1[s.at][c] \in Seq(Nat) /\ f2[s.at][c] \in Seq(Nat)
  BY <1>1 DEF Files
<1>3. IsPrefix(f1[s.at][c], f2[s.at][c])
  BY <1>1
<1> QED
  BY <1>1, <1>2, <1>3, PrefixTrans DEF There

LEMMA WholeStays ==
  ASSUME NEW f1 \in [Machine -> Files], NEW f2 \in [Machine -> Files], NEW x1 \in BOOLEAN, NEW x2 \in BOOLEAN, x1 => x2,
         ~x2 => \A n \in Node, c \in Talk : IsPrefix(f1[n][c], f2[n][c]),
         NEW u, u.sent \in Files, Whole(u, f1, x1)
  PROVE  Whole(u, f2, x2)
<1> SUFFICES ASSUME u.pc \in {"clear", "up"}, ~x2, u.to \in Node, NEW c \in Talk PROVE IsPrefix(u.sent[c], f2[u.to][c]) \/ c \in u.told
  BY DEF Whole
<1>1. (IsPrefix(u.sent[c], f1[u.to][c]) \/ c \in u.told) /\ u.to \in Machine /\ c \in File
  BY DEF Whole, Machine, File
<1>2. u.sent[c] \in Seq(Nat) /\ f1[u.to][c] \in Seq(Nat) /\ f2[u.to][c] \in Seq(Nat)
  BY <1>1 DEF Files
<1> QED
  BY <1>1, <1>2, PrefixTrans

OnlyGrow == (wroteAcross => wroteAcross') /\ (~wroteAcross' => \A n \in Node, c \in Talk : IsPrefix(claudeFiles[n][c], claudeFiles'[n][c]))

LEMMA SameGrow == ASSUME RecallTypes, UNCHANGED <<claudeFiles, wroteAcross>> PROVE OnlyGrow
<1>1. \A n \in Node, c \in Talk : claudeFiles[n][c] \in Seq(Nat)
  BY DEF RecallTypes, Files, Machine, File
<1> QED
  BY <1>1, PrefixSelf DEF OnlyGrow

LEMMA OthersKeep ==
  ASSUME RecallInv, RecallTypes', OnlyGrow, NodesKeepTheirTurns', NEW q \in Recalling, recalls'[q] = recalls[q], installs'[q] = installs[q]
  PROVE  /\ RunKnows(recalls'[q], installs'[q]) /\ ScriptKnows(installs'[q], claudeFiles', wroteAcross')
         /\ Whole(recalls'[q], claudeFiles', wroteAcross')
<1>1. /\ claudeFiles \in [Machine -> Files] /\ claudeFiles' \in [Machine -> Files] /\ wroteAcross \in BOOLEAN /\ wroteAcross' \in BOOLEAN
      /\ recalls[q].sent \in Files /\ installs[q].payload \in Files
  BY DEF RecallInv, RecallTypes
<1>2. RunKnows(recalls[q], installs[q]) /\ ScriptKnows(installs[q], claudeFiles, wroteAcross) /\ Whole(recalls[q], claudeFiles, wroteAcross)
  BY DEF RecallInv
<1>3. ScriptKnows(installs[q], claudeFiles', wroteAcross')
  BY <1>1, <1>2, ScriptStays DEF OnlyGrow
<1>4. Whole(recalls[q], claudeFiles', wroteAcross')
  BY <1>1, <1>2, WholeStays DEF OnlyGrow
<1> QED
  BY <1>2, <1>3, <1>4

(* One recall moves.                                                       *)
LEMMA OneMoves ==
  ASSUME RecallInv, RecallTypes', OnlyGrow, NodesKeepTheirTurns', NEW r \in Recalling,
         \A q \in Recalling : q # r => recalls'[q] = recalls[q] /\ installs'[q] = installs[q],
         RunKnows(recalls'[r], installs'[r]), ScriptKnows(installs'[r], claudeFiles', wroteAcross'), Whole(recalls'[r], claudeFiles', wroteAcross')
  PROVE  RecallInv'
BY OthersKeep DEF RecallInv

(* None does.                                                              *)
LEMMA NoneMoves ==
  ASSUME RecallInv, RecallTypes', OnlyGrow, NodesKeepTheirTurns', UNCHANGED <<recalls, installs>>
  PROVE  RecallInv'
BY OthersKeep DEF RecallInv

-----------------------------------------------------------------------------
(* The agents, the sync daemon, the user.                                  *)

LEMMA WorksKeeps ==
  ASSUME RecallInv, NEW p \in Machine, NEW f \in File, Works(p, f)
  PROVE  RecallInv'
<1>t. RecallTypes
  BY DEF RecallInv
<1>1. turnCount' \in Nat /\ wroteAcross' \in BOOLEAN /\ (wroteAcross => wroteAcross')
  BY <1>t DEF Works, RecallTypes
<1>2. <<turnCount'>> \in Seq(Nat) /\ claudeFiles[p][f] \in Seq(Nat) /\ Append(claudeFiles[p][f], turnCount') \in Seq(Nat)
      /\ IsPrefix(claudeFiles[p][f], Append(claudeFiles[p][f], turnCount'))
  <2>1. claudeFiles[p][f] \in Seq(Nat)
    BY <1>t DEF RecallTypes, Files
  <2>2. <<turnCount'>> \in Seq(Nat)
    BY <1>1
  <2> QED
    BY <1>1, <2>1, <2>2, PrefixAppend
<1>3. PICK new \in Seq(Nat) : claudeFiles' = [claudeFiles EXCEPT ![p][f] = new] /\ (f \notin Memo => new = Append(claudeFiles[p][f], turnCount'))
  <2>1. CASE f \in Memo
    BY <1>2, <2>1 DEF Works
  <2>2. CASE f \notin Memo
    BY <1>2, <2>2 DEF Works
  <2> QED
    BY <2>1, <2>2
<1>4. claudeFiles' \in [Machine -> Files]
  BY <1>t, <1>3 DEF RecallTypes, Files
<1>5. RecallTypes'
  BY <1>t, <1>1, <1>4 DEF RecallTypes, Works
<1>6. OnlyGrow
  <2> SUFFICES ASSUME NEW n \in Node, NEW c \in Talk PROVE IsPrefix(claudeFiles[n][c], claudeFiles'[n][c])
    BY <1>1 DEF OnlyGrow
  <2>1. n \in Machine /\ c \in File /\ claudeFiles[n][c] \in Seq(Nat) /\ c \notin Memo
    BY <1>t, RecallAssumption DEF RecallTypes, Files, Machine, File
  <2>2. CASE n = p /\ c = f
    BY <1>t, <1>2, <1>3, <2>1, <2>2 DEF RecallTypes, Files
  <2>3. CASE ~(n = p /\ c = f)
    <3>1. claudeFiles'[n][c] = claudeFiles[n][c]
      BY <1>t, <1>3, <2>1, <2>3 DEF RecallTypes, Files
    <3> QED
      BY <2>1, <3>1, PrefixSelf
  <2> QED
    BY <2>2, <2>3
<1>7. NodesKeepTheirTurns' /\ UNCHANGED <<recalls, installs>>
  BY <1>1 DEF RecallInv, NodesKeepTheirTurns, Works
<1> QED
  BY <1>5, <1>6, <1>7, NoneMoves

LEMMA MirroredTypes == ASSUME RecallTypes, NEW n \in Node, Mirrored(n) PROVE mirrors' \in [Node -> Files]
<1>1. n \in Machine
  BY DEF Machine
<1>2. [f \in File |-> IF claudeFiles[n][f] # <<>> THEN claudeFiles[n][f] ELSE mirrors[n][f]] \in Files
  BY <1>1 DEF RecallTypes, Files
<1> QED
  BY <1>2 DEF Mirrored, RecallTypes

LEMMA UserKeeps ==
  ASSUME RecallInv, Rests \/ (\E n \in Node : Syncs(n) \/ Ups(n)) \/ (\E r \in Recalling : ResumesAtHome(r)) \/ UNCHANGED recallvars
  PROVE  RecallInv'
<1>t. RecallTypes
  BY DEF RecallInv
<1>1. UNCHANGED <<claudeFiles, wroteAcross, lostTurns, recalls, installs, turnCount>>
  BY DEF Rests, Syncs, Ups, ResumesAtHome, recallvars
<1>2. mirrors' \in [Node -> Files]
  BY <1>t, MirroredTypes DEF Rests, Syncs, Ups, ResumesAtHome, recallvars, RecallTypes
<1>3. placedOn' \in Node \cup {Nobody}
  BY <1>t DEF Rests, Syncs, Ups, ResumesAtHome, recallvars, RecallTypes
<1>4. RecallTypes'
  BY <1>t, <1>1, <1>2, <1>3 DEF RecallTypes
<1>5. NodesKeepTheirTurns'
  BY <1>1 DEF RecallInv, NodesKeepTheirTurns
<1> QED
  BY <1>t, <1>1, <1>4, <1>5, SameGrow, NoneMoves

-----------------------------------------------------------------------------
(* A recall's own steps: `r` goes on to `pc`, with the same way to go.     *)

RunGoes(r, pc) ==
  /\ DOMAIN recalls' = Recalling /\ \A q \in Recalling : q # r => recalls'[q] = recalls[q]
  /\ DOMAIN recalls'[r] = DOMAIN NoRun /\ recalls'[r].pc = pc
  /\ recalls'[r].to = recalls[r].to /\ recalls'[r].from = recalls[r].from /\ recalls'[r].sent = recalls[r].sent
Elsewhere == UNCHANGED <<claudeFiles, wroteAcross, lostTurns, turnCount>>

LEMMA RunGoesKeeps ==
  ASSUME RecallInv, NEW r \in Recalling, NEW pc, RunGoes(r, pc), Elsewhere, mirrors' \in [Node -> Files], placedOn' \in Node \cup {Nobody},
         \/ installs' = installs
         \/ DOMAIN installs' = Recalling /\ (\A q \in Recalling : q # r => installs'[q] = installs[q])
            /\ DOMAIN installs'[r] = DOMAIN NoScript /\ installs'[r].pc = "none" /\ installs'[r].payload \in Files,
         RunKnows(recalls'[r], installs'[r]), Whole(recalls'[r], claudeFiles, wroteAcross)
  PROVE  RecallInv'
<1>t. RecallTypes
  BY DEF RecallInv
<1>1. RecallTypes'
  BY <1>t DEF RecallTypes, RunGoes, Elsewhere
<1>2. ScriptKnows(installs'[r], claudeFiles, wroteAcross)
  BY DEF RecallInv, ScriptKnows
<1>3. NodesKeepTheirTurns' /\ OnlyGrow
  BY <1>t, SameGrow DEF Elsewhere, RecallInv, NodesKeepTheirTurns
<1> QED
  BY <1>1, <1>2, <1>3, OneMoves DEF RunGoes, Elsewhere

LEMMA GoSets ==
  ASSUME RecallTypes, NEW r \in Recalling, NEW pc, recalls' = [recalls EXCEPT ![r].pc = pc]
  PROVE  RunGoes(r, pc) /\ recalls'[r].told = recalls[r].told
BY DEF RecallTypes, RunGoes, NoRun

\* To the next step before the install, or to a failure.
LEMMA EarlyKeeps ==
  ASSUME RecallInv, NEW r \in Recalling, NEW pc, RunGoes(r, pc), Elsewhere, mirrors' \in [Node -> Files], placedOn' = placedOn, installs' = installs,
         (recalls[r].pc \in EarlyPcs /\ pc \in EarlyPcs) \/ pc \in {"failed", "done"}
  PROVE  RecallInv'
<1>1. RunKnows(recalls[r], installs[r]) /\ placedOn \in Node \cup {Nobody}
  BY DEF RecallInv, RecallTypes
<1>2. RunKnows(recalls'[r], installs'[r])
  BY <1>1 DEF RunKnows, RunGoes, EarlyPcs
<1>3. Whole(recalls'[r], claudeFiles, wroteAcross)
  BY DEF Whole, RunGoes, EarlyPcs
<1> QED
  BY <1>1, <1>2, <1>3, RunGoesKeeps

LEMMA EarlyStepsKeep ==
  ASSUME RecallInv, NEW r \in Recalling,
         \/ RefusedAtOnce(r) \/ PullsLast(r) \/ PullStops(r) \/ NodeIsAway(r) \/ PullIsRefused(r) \/ Reports(r) \/ ReportsRecord(r)
         \/ Chooses(r) \/ CannotList(r) \/ SendsNothing(r) \/ GivesUp(r) \/ CannotClear(r) \/ NotUp(r)
  PROVE  RecallInv'
<1>t. RecallTypes
  BY DEF RecallInv
<1>1. Elsewhere /\ placedOn' = placedOn /\ installs' = installs
  BY DEF RefusedAtOnce, PullsLast, PullStops, NodeIsAway, PullIsRefused, Reports, ReportsRecord, Chooses, CannotList, SendsNothing, GivesUp, CannotClear, NotUp,
         Bystander, Wire, Moved, Rest, Elsewhere
<1>2. mirrors' \in [Node -> Files]
  <2>1. CASE PullsLast(r)
    <3>1. recalls[r].from \in Node
      BY <2>1 DEF RecallInv, RunKnows, EarlyPcs, PullsLast, RecallAt
    <3> QED
      BY <2>1, <3>1, <1>t, MirroredTypes DEF PullsLast
  <2>2. CASE ~PullsLast(r)
    <3>1. mirrors' = mirrors
      BY <2>2 DEF RefusedAtOnce, PullStops, NodeIsAway, PullIsRefused, Reports, ReportsRecord, Chooses, CannotList, SendsNothing, GivesUp, CannotClear, NotUp,
         Bystander, Wire, Rest
    <3> QED
      BY <1>t, <3>1 DEF RecallTypes
  <2> QED
    BY <2>1, <2>2
<1>3. \/ RunGoes(r, "failed")
      \/ recalls[r].pc = "pull" /\ RunGoes(r, "report")
      \/ recalls[r].pc = "report" /\ RunGoes(r, "resume")
      \/ recalls[r].pc = "resume" /\ RunGoes(r, "stop")
  <2>1. CASE RefusedAtOnce(r) \/ PullStops(r) \/ CannotList(r) \/ SendsNothing(r) \/ GivesUp(r) \/ CannotClear(r) \/ NotUp(r)
    <3>1. recalls' = [recalls EXCEPT ![r].pc = "failed"]
      BY <2>1 DEF RefusedAtOnce, PullStops, CannotList, SendsNothing, GivesUp, CannotClear, NotUp, RecallFails, RecallTo
    <3> QED
      BY <1>t, <3>1, GoSets
  <2>2. CASE PullsLast(r) \/ PullIsRefused(r)
    BY <1>t, <2>2 DEF PullsLast, PullIsRefused, RecallTypes, RunGoes, NoRun, RecallAt
  <2>3. CASE NodeIsAway(r)
    BY <1>t, <2>3, GoSets DEF NodeIsAway, RecallTo, RecallAt
  <2>4. CASE Reports(r)
    BY <1>t, <2>4 DEF Reports, RecallTypes, RunGoes, NoRun, RecallAt
  <2>5. CASE ReportsRecord(r)
    BY <1>t, <2>5 DEF ReportsRecord, RecallTypes, RunGoes, NoRun, RecallAt
  <2>6. CASE Chooses(r)
    BY <1>t, <2>6 DEF Chooses, RecallTypes, RunGoes, NoRun, RecallAt
  <2> QED
    BY <2>1, <2>2, <2>3, <2>4, <2>5, <2>6
<1> QED
  BY <1>1, <1>2, <1>3, EarlyKeeps DEF EarlyPcs

LEMMA RecallsKeeps ==
  ASSUME RecallInv, NEW r \in Recalling, Recalls(r)
  PROVE  RecallInv'
<1>t. RecallTypes
  BY DEF RecallInv
<1>1. PICK to \in Machine : recalls' = [recalls EXCEPT ![r] = [NoRun EXCEPT !.pc = "pull", !.to = to, !.from = placedOn]]
  BY DEF Recalls
<1>2. placedOn \in Node /\ Elsewhere /\ UNCHANGED <<installs, placedOn, mirrors>>
  BY <1>t DEF Recalls, Bystander, Elsewhere, RecallTypes
<1>3. /\ DOMAIN recalls' = Recalling /\ (\A q \in Recalling : q # r => recalls'[q] = recalls[q])
      /\ DOMAIN recalls'[r] = DOMAIN NoRun /\ recalls'[r].pc = "pull" /\ recalls'[r].to = to /\ recalls'[r].from = placedOn /\ recalls'[r].sent = NoRun.sent
  BY <1>1, <1>t DEF RecallTypes, NoRun
<1>4. NoRun.sent \in Files /\ \A f \in File : NoRun.sent[f] = <<>>
  <2>1. <<>> \in Seq(Nat)
    OBVIOUS
  <2> QED
    BY <2>1 DEF NoRun, Files
<1>5. RecallTypes'
  BY <1>t, <1>2, <1>3, <1>4 DEF RecallTypes, Elsewhere
<1>6. RunKnows(recalls'[r], installs'[r]) /\ Whole(recalls'[r], claudeFiles, wroteAcross)
  BY <1>2, <1>3, <1>4 DEF RunKnows, Whole, EarlyPcs
<1>7. ScriptKnows(installs'[r], claudeFiles, wroteAcross) /\ NodesKeepTheirTurns' /\ OnlyGrow
  BY <1>t, <1>2, SameGrow DEF Elsewhere, RecallInv, NodesKeepTheirTurns
<1> QED
  BY <1>2, <1>3, <1>5, <1>6, <1>7, OneMoves DEF Elsewhere

LEMMA StoppedKeeps ==
  ASSUME RecallInv, NEW r \in Recalling, Stops(r) \/ CannotStop(r)
  PROVE  RecallInv'
<1>t. RecallTypes /\ RunKnows(recalls[r], installs[r])
  BY DEF RecallInv
<1>1. Elsewhere /\ UNCHANGED <<installs, placedOn, mirrors>> /\ recalls[r].pc = "stop" /\ Stopped(r)
  BY DEF Stops, CannotStop, Bystander, Elsewhere, RecallAt
<1>2. AfterStop(r) \in {"clear", "install"} /\ RunGoes(r, AfterStop(r))
  <2>1. AfterStop(r) \in {"clear", "install"}
    BY DEF AfterStop
  <2> QED
    BY <1>t, <1>1, <2>1 DEF Stopped, RecallTypes, RunGoes, NoRun
<1>3. \A c \in Talk : recalls'[r].sent[c] = <<>>
  BY <1>t, <1>1, <1>2 DEF RunKnows, RunGoes, EarlyPcs, File
<1>4. \A n \in Node, c \in Talk : claudeFiles[n][c] \in Seq(Nat)
  BY <1>t DEF RecallTypes, Files, Machine, File
<1>5. Whole(recalls'[r], claudeFiles, wroteAcross)
  BY <1>3, <1>4, PrefixSelf DEF Whole
<1>6. RunKnows(recalls'[r], installs'[r])
  BY <1>t, <1>1, <1>2 DEF RunKnows, RunGoes, EarlyPcs
<1> QED
  BY <1>t, <1>1, <1>2, <1>5, <1>6, RunGoesKeeps DEF RecallTypes

-----------------------------------------------------------------------------
(* `--local` writes here only.                                             *)

LEMMA LocalKeeps ==
  ASSUME RecallInv, NEW r \in Recalling, (\E f \in File : Copies(r, f) \/ CannotCopy(r, f)) \/ CopyEnds(r)
  PROVE  RecallInv'
<1>t. RecallTypes /\ RunKnows(recalls[r], installs[r])
  BY DEF RecallInv
<1>1. recalls[r].pc = "install" /\ recalls[r].to = Home /\ UNCHANGED <<installs, placedOn, mirrors, turnCount, wroteAcross>>
  BY DEF Copies, CannotCopy, CopyEnds, LocalStep, RecallAt
<1>2. Home \in Machine /\ Home \notin Node /\ recalls[r].from \in Node
  BY <1>t, <1>1, RecallAssumption DEF Machine, RunKnows, EarlyPcs
<1>3. \E pc \in {"install", "failed", "clear"} : RunGoes(r, pc)
  <2>1. CASE \E f \in File : Copies(r, f)
    <3>1. PICK f \in File : Copies(r, f)
      BY <2>1
    <3>2. RunGoes(r, "install")
      BY <1>t, <1>1, <3>1 DEF Copies, RecallTypes, RunGoes, NoRun
    <3> QED
      BY <3>2
  <2>2. CASE \E f \in File : CannotCopy(r, f)
    <3>1. PICK f \in File : CannotCopy(r, f)
      BY <2>2
    <3>2. RunGoes(r, "install")
      BY <1>t, <1>1, <3>1 DEF CannotCopy, RecallTypes, RunGoes, NoRun
    <3> QED
      BY <3>2
  <2>3. CASE CopyEnds(r)
    <3>1. CASE recalls[r].odd
      <4>1. RunGoes(r, "failed")
        BY <1>t, <2>3, <3>1 DEF CopyEnds, RecallTypes, RunGoes, NoRun
      <4> QED
        BY <4>1
    <3>2. CASE ~recalls[r].odd
      <4>1. RunGoes(r, "clear")
        BY <1>t, <2>3, <3>2 DEF CopyEnds, RecallTypes, RunGoes, NoRun
      <4> QED
        BY <4>1
    <3> QED
      BY <3>1, <3>2
  <2> QED
    BY <2>1, <2>2, <2>3
<1>4. claudeFiles' \in [Machine -> Files] /\ (\A n \in Node : claudeFiles'[n] = claudeFiles[n]) /\ (\A p \in Node, f \in File : <<p, f>> \in lostTurns' => <<p, f>> \in lostTurns)
  <2>1. CASE \E f \in File : Copies(r, f)
    <3>1. PICK f \in File : Copies(r, f)
      BY <2>1
    <3>2. claudeFiles' = [claudeFiles EXCEPT ![Home][f] = mirrors[recalls[r].from][f]] /\ mirrors[recalls[r].from][f] \in Seq(Nat)
      BY <1>t, <1>2, <3>1, ZenonT(60) DEF Copies, RecallTypes, Files
    <3>3. claudeFiles' \in [Machine -> Files] /\ (\A n \in Node : claudeFiles'[n] = claudeFiles[n])
      BY <1>t, <1>2, <3>2 DEF RecallTypes, Files, Machine
    <3>4. lostTurns' = lostTurns \/ lostTurns' = lostTurns \cup {<<Home, f>>}
      BY <3>1 DEF Copies
    <3> QED
      BY <1>2, <3>3, <3>4
  <2>2. CASE ~\E f \in File : Copies(r, f)
    <3>1. UNCHANGED <<claudeFiles, lostTurns>>
      BY <2>2 DEF CannotCopy, CopyEnds
    <3> QED
      BY <1>t, <3>1 DEF RecallTypes
  <2> QED
    BY <2>1, <2>2
<1>5. RecallTypes'
  BY <1>t, <1>1, <1>3, <1>4 DEF RecallTypes, RunGoes
<1>6. OnlyGrow
  <2>1. \A n \in Node, c \in Talk : claudeFiles[n][c] \in Seq(Nat)
    BY <1>t DEF RecallTypes, Files, Machine, File
  <2> QED
    BY <1>1, <1>4, <2>1, PrefixSelf DEF OnlyGrow
<1>7. NodesKeepTheirTurns'
  BY <1>1, <1>4 DEF RecallInv, NodesKeepTheirTurns
<1>8. RunKnows(recalls'[r], installs'[r])
  BY <1>t, <1>1, <1>3 DEF RunKnows, RunGoes, EarlyPcs
<1>9. Whole(recalls'[r], claudeFiles', wroteAcross')
  BY <1>1, <1>2, <1>3 DEF Whole, RunGoes
<1>10. ScriptKnows(installs[r], claudeFiles', wroteAcross')
  <2>1. ScriptKnows(installs[r], claudeFiles, wroteAcross) /\ installs[r].payload \in Files
    BY <1>t DEF RecallInv, RecallTypes
  <2> QED
    BY <1>t, <1>1, <1>4, <1>6, <2>1, ScriptStays DEF RecallTypes, OnlyGrow
<1> QED
  BY <1>1, <1>3, <1>5, <1>6, <1>7, <1>8, <1>9, <1>10, OneMoves DEF RunGoes

-----------------------------------------------------------------------------
(* The script's own steps: `r`'s goes on to `pc`, with the same payload.   *)

ScriptGoes(r, pc) ==
  /\ DOMAIN installs' = Recalling /\ \A q \in Recalling : q # r => installs'[q] = installs[q]
  /\ DOMAIN installs'[r] = DOMAIN NoScript /\ installs'[r].pc = pc
  /\ installs'[r].at = installs[r].at /\ installs'[r].payload = installs[r].payload

LEMMA ScriptGoesKeeps ==
  ASSUME RecallInv, NEW r \in Recalling, NEW pc, ScriptGoes(r, pc), UNCHANGED <<recalls, mirrors, placedOn, turnCount>>,
         claudeFiles' \in [Machine -> Files], wroteAcross' \in BOOLEAN, OnlyGrow, NodesKeepTheirTurns',
         ScriptKnows(installs'[r], claudeFiles', wroteAcross')
  PROVE  RecallInv'
<1>t. RecallTypes /\ RunKnows(recalls[r], installs[r]) /\ Whole(recalls[r], claudeFiles, wroteAcross) /\ recalls[r].sent \in Files
  BY DEF RecallInv, RecallTypes
<1>1. RecallTypes'
  BY <1>t DEF RecallTypes, ScriptGoes
<1>2. RunKnows(recalls'[r], installs'[r])
  BY <1>t DEF RunKnows, ScriptGoes
<1>3. Whole(recalls[r], claudeFiles', wroteAcross')
  BY <1>t, WholeStays DEF RecallTypes, OnlyGrow
<1> QED
  BY <1>1, <1>2, <1>3, OneMoves DEF ScriptGoes

\* Nothing is written: the script refuses, or has done all there is to do.
LEMMA ScriptEndsKeeps ==
  ASSUME RecallInv, NEW r \in Recalling, Refuses(r) \/ CannotMove(r) \/ Finishes(r)
  PROVE  RecallInv'
<1>t. RecallTypes /\ ScriptKnows(installs[r], claudeFiles, wroteAcross)
  BY DEF RecallInv
<1>1. Elsewhere /\ UNCHANGED <<recalls, mirrors, placedOn>>
  BY DEF Refuses, CannotMove, Finishes, ScriptAt, Elsewhere
<1>2. \/ installs[r].pc \in {"unpack", "judged"} /\ ScriptGoes(r, "refused")
      \/ installs[r].pc = "placing" /\ installs[r].todo = {} /\ ScriptGoes(r, "done") /\ installs'[r].todo = installs[r].todo
         /\ installs'[r].kept = installs[r].kept
  <2>1. CASE Refuses(r)
    BY <1>t, <2>1 DEF Refuses, ScriptAt, RecallTypes, ScriptGoes, NoScript
  <2>2. CASE CannotMove(r)
    BY <1>t, <2>2 DEF CannotMove, ScriptAt, RecallTypes, ScriptGoes, NoScript
  <2>3. CASE Finishes(r)
    BY <1>t, <2>3 DEF Finishes, ScriptAt, RecallTypes, ScriptGoes, NoScript
  <2> QED
    BY <2>1, <2>2, <2>3
<1>3. ScriptKnows(installs'[r], claudeFiles, wroteAcross)
  <2>1. CASE ScriptGoes(r, "refused") /\ installs[r].pc \in {"unpack", "judged"}
    BY <1>t, <2>1 DEF ScriptKnows, ScriptGoes
  <2>2. CASE installs[r].pc = "placing" /\ installs[r].todo = {} /\ ScriptGoes(r, "done") /\ installs'[r].todo = installs[r].todo
             /\ installs'[r].kept = installs[r].kept
    BY <1>t, <2>2 DEF ScriptKnows, ScriptGoes, There
  <2> QED
    BY <1>2, <2>1, <2>2
<1>4. NodesKeepTheirTurns' /\ OnlyGrow
  BY <1>t, <1>1, SameGrow DEF Elsewhere, RecallInv, NodesKeepTheirTurns
<1> QED
  BY <1>t, <1>1, <1>2, <1>3, <1>4, ScriptGoesKeeps DEF Elsewhere, RecallTypes

LEMMA MakesFoldersKeeps ==
  ASSUME RecallInv, NEW r \in Recalling, MakesFolders(r)
  PROVE  RecallInv'
<1>t. RecallTypes /\ ScriptKnows(installs[r], claudeFiles, wroteAcross)
  BY DEF RecallInv
<1>1. Elsewhere /\ UNCHANGED <<recalls, mirrors, placedOn>> /\ installs[r].pc = "unpack"
  BY DEF MakesFolders, ScriptAt, Elsewhere
<1>2. ScriptGoes(r, "placing") /\ installs'[r].todo = Payload(r)
  BY <1>t DEF MakesFolders, RecallTypes, ScriptGoes, NoScript
<1>3. \A c \in Talk : There(claudeFiles, installs'[r], c)
  <2> SUFFICES ASSUME NEW c \in Talk, c \notin Payload(r) PROVE IsPrefix(installs'[r].payload[c], claudeFiles[installs'[r].at][c])
    BY <1>2 DEF There
  <2>1. installs'[r].payload[c] = <<>>
    BY <1>2 DEF ScriptGoes, Payload, Present, File
  <2>2. installs'[r].at \in Node
    BY <1>t, <1>1, <1>2 DEF ScriptKnows, ScriptGoes
  <2>3. claudeFiles[installs'[r].at][c] \in Seq(Nat)
    BY <1>t, <2>2 DEF RecallTypes, Files, Machine, File
  <2> QED
    BY <2>1, <2>3, PrefixSelf
<1>4. ScriptKnows(installs'[r], claudeFiles, wroteAcross)
  BY <1>t, <1>1, <1>2, <1>3 DEF ScriptKnows, ScriptGoes
<1>5. NodesKeepTheirTurns' /\ OnlyGrow
  BY <1>t, <1>1, SameGrow DEF Elsewhere, RecallInv, NodesKeepTheirTurns
<1> QED
  BY <1>t, <1>1, <1>2, <1>4, <1>5, ScriptGoesKeeps DEF Elsewhere, RecallTypes

LEMMA JudgesKeeps ==
  ASSUME RecallInv, NEW r \in Recalling, NEW f \in File, Judges(r, f)
  PROVE  RecallInv'
<1> DEFINE s == installs[r]
           have == claudeFiles[s.at][f]
           under == f \in Memo /\ memoryFolder[s.at] # "dir"
<1>t. RecallTypes /\ ScriptKnows(s, claudeFiles, wroteAcross)
  BY DEF RecallInv
<1>1. Elsewhere /\ UNCHANGED <<recalls, mirrors, placedOn>> /\ s.pc = "placing" /\ f \in s.todo
  BY DEF Judges, ScriptAt, Elsewhere
<1>2. installs' = [installs EXCEPT ![r] = [s EXCEPT !.todo = @ \ {f}, !.kept = IF Kept(have, s.payload[f], under) THEN @ \cup {f} ELSE @,
                   !.pc = IF ~under /\ Goes(have, s.payload[f]) THEN "judged" ELSE @, !.file = f, !.saw = have]]
  BY DEF Judges
<1>3. /\ DOMAIN installs' = Recalling /\ (\A q \in Recalling : q # r => installs'[q] = installs[q])
      /\ installs'[r] = [s EXCEPT !.todo = s.todo \ {f}, !.kept = IF Kept(have, s.payload[f], under) THEN s.kept \cup {f} ELSE s.kept,
                   !.pc = IF ~under /\ Goes(have, s.payload[f]) THEN "judged" ELSE s.pc, !.file = f, !.saw = have]
  BY <1>t, <1>2 DEF RecallTypes
<1> DEFINE z == installs'[r]
<1>4. /\ DOMAIN z = DOMAIN NoScript /\ z.at = s.at /\ z.payload = s.payload /\ z.todo = s.todo \ {f} /\ z.file = f /\ z.saw = have
      /\ z.pc = (IF ~under /\ Goes(have, s.payload[f]) THEN "judged" ELSE s.pc)
      /\ z.kept = (IF Kept(have, s.payload[f], under) THEN s.kept \cup {f} ELSE s.kept)
  BY <1>t, <1>3 DEF RecallTypes, NoScript
<1>5. \E pc \in {"judged", "placing"} : ScriptGoes(r, pc)
  BY <1>1, <1>3, <1>4 DEF ScriptGoes
<1>6. s.at \in Node /\ s.at \in Machine
  BY <1>t, <1>1 DEF ScriptKnows, Machine
<1> HIDE DEF under, z
<1>7. ASSUME ~wroteAcross, NEW c \in Talk PROVE There(claudeFiles, z, c)
  <2>1. There(claudeFiles, s, c)
    BY <1>t, <1>1, <1>7 DEF ScriptKnows
  <2>2. CASE c # f
    BY <1>1, <1>4, <2>1, <2>2 DEF There
  <2>3. CASE c = f
    <3>1. ~under
      BY <2>3, RecallAssumption DEF under
    <3>2. CASE Goes(have, s.payload[f])
      BY <1>4, <2>3, <3>1, <3>2 DEF There
    <3>3. CASE ~Goes(have, s.payload[f]) /\ have # s.payload[f]
      BY <1>4, <2>3, <3>3 DEF There, Kept
    <3>4. CASE have = s.payload[f]
      <4>1. have \in Seq(Nat)
        BY <1>t, <1>6 DEF RecallTypes, Files
      <4> QED
        BY <1>4, <2>3, <3>4, <4>1, PrefixSelf DEF There
    <3> QED
      BY <3>2, <3>3, <3>4
  <2> QED
    BY <2>2, <2>3
<1>8. ScriptKnows(z, claudeFiles, wroteAcross)
  BY <1>1, <1>4, <1>6, <1>7 DEF ScriptKnows
<1>9. NodesKeepTheirTurns' /\ OnlyGrow
  BY <1>t, <1>1, SameGrow DEF Elsewhere, RecallInv, NodesKeepTheirTurns
<1> QED
  BY <1>t, <1>1, <1>5, <1>8, <1>9, ScriptGoesKeeps DEF Elsewhere, RecallTypes, z

\* What is moved goes on where what was seen there ends, unless an agent wrote across it.
LEMMA MovesKeeps ==
  ASSUME RecallInv, NEW r \in Recalling, Moves(r)
  PROVE  RecallInv'
<1> DEFINE s == installs[r]
           have == claudeFiles[s.at][s.file]
           new == s.payload[s.file]
<1>t. RecallTypes /\ ScriptKnows(s, claudeFiles, wroteAcross)
  BY DEF RecallInv
<1>1. s.pc = "judged" /\ s.at \in Node /\ s.at \in Machine /\ s.file \in File /\ Goes(s.saw, new)
  BY <1>t DEF Moves, ScriptAt, ScriptKnows, Machine
<1>2. /\ UNCHANGED <<recalls, mirrors, placedOn, turnCount>> /\ claudeFiles' = [claudeFiles EXCEPT ![s.at][s.file] = new]
      /\ lostTurns' = (IF IsPrefix(have, new) THEN lostTurns ELSE lostTurns \cup {<<s.at, s.file>>})
      /\ wroteAcross' = (wroteAcross \/ have # s.saw)
  BY DEF Moves, ScriptAt
<1>3. have \in Seq(Nat) /\ new \in Seq(Nat)
  BY <1>t, <1>1 DEF RecallTypes, Files
<1>4. ScriptGoes(r, "placing") /\ installs'[r].todo = s.todo /\ installs'[r].kept = s.kept
  BY <1>t DEF Moves, RecallTypes, ScriptGoes, NoScript
<1> HIDE DEF new, have
<1>5. ~wroteAcross' => IsPrefix(have, new)
  BY <1>1, <1>2, <1>3, PrefixSelf DEF Goes, IsStrictPrefix
<1>6. /\ claudeFiles' \in [Machine -> Files] /\ claudeFiles'[s.at][s.file] = new
      /\ \A n \in Machine, f \in File : ~(n = s.at /\ f = s.file) => claudeFiles'[n][f] = claudeFiles[n][f]
  BY <1>t, <1>1, <1>2, <1>3 DEF RecallTypes, Files
<1>7. OnlyGrow /\ wroteAcross' \in BOOLEAN
  <2>1. (wroteAcross => wroteAcross') /\ wroteAcross' \in BOOLEAN
    BY <1>t, <1>2 DEF RecallTypes
  <2>2. ASSUME ~wroteAcross', NEW n \in Node, NEW c \in Talk PROVE IsPrefix(claudeFiles[n][c], claudeFiles'[n][c])
    <3>1. n \in Machine /\ c \in File /\ claudeFiles[n][c] \in Seq(Nat)
      BY <1>t DEF RecallTypes, Files, Machine, File
    <3>2. CASE n = s.at /\ c = s.file
      BY <1>5, <1>6, <2>2, <3>2 DEF have
    <3>3. CASE ~(n = s.at /\ c = s.file)
      BY <1>6, <3>1, <3>3, PrefixSelf
    <3> QED
      BY <3>2, <3>3
  <2> QED
    BY <2>1, <2>2 DEF OnlyGrow
<1>8. NodesKeepTheirTurns'
  <2> SUFFICES ASSUME ~wroteAcross', NEW p \in Node, NEW f \in File PROVE <<p, f>> \notin lostTurns'
    BY DEF NodesKeepTheirTurns
  <2> QED
    BY <1>2, <1>5, <1>7 DEF RecallInv, NodesKeepTheirTurns, OnlyGrow
<1>9. ScriptKnows(installs'[r], claudeFiles', wroteAcross')
  <2>1. ASSUME ~wroteAcross', NEW c \in Talk PROVE There(claudeFiles', installs'[r], c)
    <3>1. There(claudeFiles, s, c) /\ s.payload \in Files /\ c \in File
      BY <1>t, <1>1, <1>7, <2>1 DEF ScriptKnows, OnlyGrow, RecallTypes, File
    <3>2. CASE c = s.file
      BY <1>3, <1>4, <1>6, <3>2, PrefixSelf DEF There, ScriptGoes, new
    <3>3. CASE c # s.file
      <4>1. claudeFiles'[s.at][c] = claudeFiles[s.at][c]
        BY <1>1, <1>6, <3>1, <3>3
      <4> QED
        BY <1>4, <3>1, <3>3, <4>1 DEF There, ScriptGoes
    <3> QED
      BY <3>2, <3>3
  <2> QED
    BY <1>1, <1>4, <2>1 DEF ScriptKnows, ScriptGoes
<1> QED
  BY <1>2, <1>4, <1>6, <1>7, <1>8, <1>9, ScriptGoesKeeps

-----------------------------------------------------------------------------
(* The payload goes, the answer comes.                                     *)

LEMMA SendsKeeps ==
  ASSUME RecallInv, NEW r \in Recalling, Sends(r)
  PROVE  RecallInv'
<1>t. RecallTypes /\ RunKnows(recalls[r], installs[r])
  BY DEF RecallInv
<1>1. Elsewhere /\ UNCHANGED <<mirrors, placedOn>> /\ recalls[r].pc = "install" /\ recalls[r].to \in Node
  BY DEF Sends, Wire, Elsewhere, RecallAt
<1>2. recalls[r].from \in Node /\ mirrors[recalls[r].from] \in Files
  BY <1>t, <1>1 DEF RunKnows, EarlyPcs, RecallTypes
<1>3. /\ DOMAIN recalls' = Recalling /\ (\A q \in Recalling : q # r => recalls'[q] = recalls[q])
      /\ DOMAIN recalls'[r] = DOMAIN NoRun /\ recalls'[r].pc = "sent" /\ recalls'[r].to = recalls[r].to
      /\ recalls'[r].sent = mirrors[recalls[r].from]
  BY <1>t DEF Sends, RecallTypes, NoRun
<1>4. /\ DOMAIN installs' = Recalling /\ (\A q \in Recalling : q # r => installs'[q] = installs[q])
      /\ DOMAIN installs'[r] = DOMAIN NoScript /\ installs'[r].pc = "unpack" /\ installs'[r].at = recalls[r].to
      /\ installs'[r].payload = mirrors[recalls[r].from]
  BY <1>t DEF Sends, RecallTypes, NoScript
<1>5. RecallTypes'
  BY <1>t, <1>1, <1>2, <1>3, <1>4 DEF RecallTypes, Elsewhere
<1>6. RunKnows(recalls'[r], installs'[r]) /\ ScriptKnows(installs'[r], claudeFiles', wroteAcross') /\ Whole(recalls'[r], claudeFiles', wroteAcross')
  BY <1>1, <1>3, <1>4 DEF RunKnows, ScriptKnows, Whole, EarlyPcs, Machine
<1>7. NodesKeepTheirTurns' /\ OnlyGrow
  BY <1>t, <1>1, SameGrow DEF Elsewhere, RecallInv, NodesKeepTheirTurns
<1> QED
  BY <1>3, <1>4, <1>5, <1>6, <1>7, OneMoves

\* The script is through: what it was to install is there, or was kept, and is told.
LEMMA HeardKeeps ==
  ASSUME RecallInv, NEW r \in Recalling, Installed(r) \/ WasRefused(r)
  PROVE  RecallInv'
<1>t. RecallTypes /\ RunKnows(recalls[r], installs[r]) /\ ScriptKnows(installs[r], claudeFiles, wroteAcross)
  BY DEF RecallInv
<1>1. Elsewhere /\ UNCHANGED <<mirrors, placedOn>> /\ recalls[r].pc = "sent" /\ recalls[r].to \in Node /\ installs[r].at = recalls[r].to
      /\ installs[r].payload = recalls[r].sent /\ installs' = [installs EXCEPT ![r].pc = "none"]
  BY <1>t DEF Installed, WasRefused, Heard, Wire, Elsewhere, RecallAt, RunKnows
<1>2. DOMAIN installs' = Recalling /\ (\A q \in Recalling : q # r => installs'[q] = installs[q])
      /\ DOMAIN installs'[r] = DOMAIN NoScript /\ installs'[r].pc = "none" /\ installs'[r].payload \in Files
  BY <1>t, <1>1 DEF RecallTypes, NoScript
<1>3. CASE Installed(r)
  <2>1. installs[r].pc = "done" /\ RunGoes(r, "clear") /\ recalls'[r].told = installs[r].kept
    BY <1>t, <1>3 DEF Installed, Heard, RecallTypes, RunGoes, NoRun
  <2>2. RunKnows(recalls'[r], installs'[r])
    BY <1>1, <2>1 DEF RunKnows, RunGoes, EarlyPcs, Machine
  <2>3. Whole(recalls'[r], claudeFiles, wroteAcross)
    BY <1>t, <1>1, <2>1 DEF Whole, ScriptKnows, There, RunGoes
  <2> QED
    BY <1>t, <1>1, <1>2, <2>1, <2>2, <2>3, RunGoesKeeps DEF RecallTypes
<1>4. CASE WasRefused(r)
  <2>1. RunGoes(r, "failed")
    BY <1>t, <1>4, GoSets DEF WasRefused, RecallFails, RecallTo
  <2>2. RunKnows(recalls'[r], installs'[r]) /\ Whole(recalls'[r], claudeFiles, wroteAcross)
    BY <2>1 DEF RunKnows, Whole, RunGoes, EarlyPcs
  <2> QED
    BY <1>t, <1>1, <1>2, <2>1, <2>2, RunGoesKeeps DEF RecallTypes
<1> QED
  BY <1>3, <1>4

LEMMA ClearsKeeps ==
  ASSUME RecallInv, NEW r \in Recalling, Clears(r)
  PROVE  RecallInv'
<1>t. RecallTypes /\ RunKnows(recalls[r], installs[r]) /\ Whole(recalls[r], claudeFiles, wroteAcross)
  BY DEF RecallInv
<1>1. Elsewhere /\ UNCHANGED <<mirrors, installs>> /\ recalls[r].pc = "clear" /\ placedOn' = Nobody
  BY DEF Clears, Rest, Moved, Elsewhere, RecallAt
<1>2. \E pc \in {"done", "up"} : RunGoes(r, pc) /\ (pc = "up" => recalls[r].to # Home) /\ recalls'[r].told = recalls[r].told
  <2>1. CASE recalls[r].to = Home
    BY <1>t, <2>1, GoSets DEF Clears, RecallTo
  <2>2. CASE recalls[r].to # Home
    BY <1>t, <2>2, GoSets DEF Clears, RecallTo
  <2> QED
    BY <2>1, <2>2
<1>3. RunKnows(recalls'[r], installs'[r])
  BY <1>t, <1>1, <1>2 DEF RunKnows, RunGoes, EarlyPcs, Machine
<1>4. Whole(recalls'[r], claudeFiles, wroteAcross)
  BY <1>t, <1>1, <1>2 DEF Whole, RunGoes
<1> QED
  BY <1>t, <1>1, <1>2, <1>3, <1>4, RunGoesKeeps DEF RecallTypes

LEMMA BringsUpKeeps ==
  ASSUME RecallInv, NEW r \in Recalling, BringsUp(r)
  PROVE  RecallInv'
<1>t. RecallTypes /\ RunKnows(recalls[r], installs[r])
  BY DEF RecallInv
<1>1. Elsewhere /\ UNCHANGED <<mirrors, installs>> /\ recalls[r].pc = "up" /\ placedOn' = recalls[r].to
  BY DEF BringsUp, Rest, Moved, Elsewhere, RecallAt
<1>2. placedOn' \in Node /\ RunGoes(r, "done")
  BY <1>t, <1>1, GoSets DEF BringsUp, RunKnows, RecallTo
<1>3. RunKnows(recalls'[r], installs'[r]) /\ Whole(recalls'[r], claudeFiles, wroteAcross)
  BY <1>2 DEF RunKnows, Whole, RunGoes, EarlyPcs
<1> QED
  BY <1>t, <1>1, <1>2, <1>3, RunGoesKeeps DEF RecallTypes

-----------------------------------------------------------------------------

LEMMA RecallInvInit == RecallInit => RecallInv
<1> SUFFICES ASSUME NEW x \in RecallSetups, RecallStart(x) PROVE RecallInv
  BY DEF RecallInit
<1>1. <<>> \in Seq(Nat)
  OBVIOUS
<1>2. NoRun.sent \in Files /\ NoScript.payload \in Files /\ \A f \in File : NoRun.sent[f] = <<>>
  BY <1>1 DEF NoRun, NoScript, Files
<1>3. \A r \in Recalling : recalls[r] = NoRun /\ installs[r] = NoScript
  BY DEF RecallStart
<1>4. RecallTypes
  BY <1>2, <1>3, RecallAssumption DEF RecallTypes, RecallStart, Files, File, Machine
<1>5. NodesKeepTheirTurns
  BY DEF NodesKeepTheirTurns, RecallStart
<1>6. NoRun.pc = "idle" /\ NoScript.pc = "none"
  BY DEF NoRun, NoScript
<1>7. ASSUME NEW r \in Recalling
      PROVE  RunKnows(recalls[r], installs[r]) /\ ScriptKnows(installs[r], claudeFiles, wroteAcross) /\ Whole(recalls[r], claudeFiles, wroteAcross)
  BY <1>2, <1>3, <1>6 DEF RunKnows, ScriptKnows, Whole, EarlyPcs
<1> QED
  BY <1>4, <1>5, <1>7 DEF RecallInv

LEMMA RecallInvNext == RecallInv /\ [RecallNext]_recallvars => RecallInv'
<1> SUFFICES ASSUME RecallInv, [RecallNext]_recallvars PROVE RecallInv'
  OBVIOUS
<1>1. CASE Rests \/ (\E n \in Node : Syncs(n) \/ Ups(n)) \/ UNCHANGED recallvars
  BY <1>1, UserKeeps
<1>2. ASSUME NEW r \in Recalling, RunStep(r) PROVE RecallInv'
  <2>1. CASE \/ RefusedAtOnce(r) \/ PullsLast(r) \/ PullStops(r) \/ NodeIsAway(r) \/ PullIsRefused(r) \/ Reports(r) \/ ReportsRecord(r)
             \/ Chooses(r) \/ CannotList(r) \/ SendsNothing(r) \/ GivesUp(r) \/ CannotClear(r) \/ NotUp(r)
    BY <2>1, EarlyStepsKeep
  <2>2. CASE Recalls(r)
    BY <2>2, RecallsKeeps
  <2>3. CASE Stops(r) \/ CannotStop(r)
    BY <2>3, StoppedKeeps
  <2>4. CASE (\E f \in File : Copies(r, f) \/ CannotCopy(r, f)) \/ CopyEnds(r)
    BY <2>4, LocalKeeps
  <2>5. CASE Sends(r)
    BY <2>5, SendsKeeps
  <2>6. CASE Installed(r) \/ WasRefused(r)
    BY <2>6, HeardKeeps
  <2>7. CASE Clears(r)
    BY <2>7, ClearsKeeps
  <2>8. CASE BringsUp(r)
    BY <2>8, BringsUpKeeps
  <2>9. CASE ResumesAtHome(r)
    BY <2>9, UserKeeps
  <2> QED
    BY <1>2, <2>1, <2>2, <2>3, <2>4, <2>5, <2>6, <2>7, <2>8, <2>9 DEF RunStep
<1>3. ASSUME NEW r \in Recalling, ScriptStep(r) PROVE RecallInv'
  <2>1. CASE Refuses(r) \/ CannotMove(r) \/ Finishes(r)
    BY <2>1, ScriptEndsKeeps
  <2>2. CASE MakesFolders(r)
    BY <2>2, MakesFoldersKeeps
  <2>3. CASE Moves(r)
    BY <2>3, MovesKeeps
  <2>4. CASE \E f \in File : Judges(r, f)
    BY <2>4, JudgesKeeps
  <2> QED
    BY <1>3, <2>1, <2>2, <2>3, <2>4 DEF ScriptStep
<1>4. ASSUME NEW p \in Machine, NEW f \in File, Works(p, f) PROVE RecallInv'
  BY <1>4, WorksKeeps
<1> QED
  BY <1>1, <1>2, <1>3, <1>4 DEF RecallNext

(* An install takes no turn away from a node, whatever calls were lost and *)
(* recalls run again; and no placement goes before each conversation of    *)
(* the payload is at the destination, or is told as kept there: for any    *)
(* number of nodes, conversations, recalls and faults.                     *)
THEOREM RecallKeepsWorkHolds == RecallSpec => []RecallKeepsWork
<1>1. RecallInv => RecallKeepsWork
  BY DEF RecallInv, RecallKeepsWork, MovedWhole, Whole
<1> QED
  BY <1>1, RecallInvInit, RecallInvNext, PTL DEF RecallSpec

-----------------------------------------------------------------------------
(* The sign-in of node sessions: commands, what they have said, and the    *)
(* appliers they started on the nodes.                                     *)

AuthKinds == {"refresh", "look", "setup", "up", "none"}
AuthStages == {"start", "ensure", "mint", "temp", "replace", "row", "push", "end", "hop", "health", "own", "gate", "up"}
Minting == {"ensure", "mint", "temp", "replace"}
AuthFields == {"kind", "person", "node", "at", "force", "had", "minted", "renews", "left", "refused", "unready", "call",
               "said", "known", "due"}
AuthJobs == {"none", "push", "setup", "project"}
ApplierOf == [by : Asker, on : Nick, ver : Nat, job : AuthJobs, nth : Nat]

CallTyped(call) ==
  /\ DOMAIN call = {"on", "got", "job", "nth"}
  /\ call.on \in {"idle", "due", "sent", "back", "lost", "unreached"} /\ call.job \in AuthJobs /\ call.nth \in Nat

(* A command's record, and a mint of it is at most the file's.             *)
CmdTyped(r, tok) ==
  /\ DOMAIN r = AuthFields
  /\ r.kind \in AuthKinds /\ r.at \in AuthStages /\ r.node \in Nick
  /\ r.minted \in Nat /\ r.minted <= tok /\ r.left \subseteq Nick /\ r.refused \subseteq Nick
  /\ DOMAIN r.unready = Nick /\ DOMAIN r.said = Nick /\ DOMAIN r.due = Nick /\ DOMAIN r.call = Nick
  /\ \A n \in Nick : CallTyped(r.call[n]) /\ r.due[n] \in Nat

(* Which calls are out at which stage.                                     *)
CallsFit(r) ==
  /\ \A n \in Nick : r.call[n].on # "idle" => r.at \in {"own", "push", "up"}
  /\ r.at = "own" => /\ r.call[r.node].on # "idle" /\ r.call[r.node].job = "setup"
                     /\ \A n \in Nick : r.call[n].on # "idle" => n = r.node
  /\ r.at = "push" => /\ \A n \in Nick : r.call[n].on # "idle" => r.call[n].job = "push" /\ r.call[n].nth = r.minted
                      /\ r.left # {} => \A n \in Nick : r.call[n].on = "idle"
                      /\ r.kind \in {"setup", "up"} => r.node \notin r.left
  /\ r.at = "up" => \A n \in Nick : r.call[n].on # "idle" => /\ r.call[n].job = "project"
                                                             /\ r.due[n] > 0 /\ n \notin r.known

(* What a command of each kind has started by then.                        *)
KindsFit(c, r, running) ==
  /\ r.kind = "none" => r.at = "end"
  /\ r.kind \in {"refresh", "look"} => r.at \notin {"hop", "health", "own", "gate", "up"}
  /\ r.kind = "setup" => r.at \notin {"gate", "up"}
  /\ r.at = "start" \/ (r.kind # "up" /\ r.at \notin {"own", "push", "end"}) => \A a \in running : a.by # c
  /\ r.kind \in {"refresh", "look"} /\ r.at = "push" /\ r.left # {} => \A a \in running : a.by # c
  /\ r.kind = "setup" /\ (r.at = "own" \/ (r.at = "push" /\ r.left # {})) => \A a \in running : a.by = c => a.on = r.node
  /\ r.kind = "setup" /\ r.at = "own" /\ r.call[r.node].on = "due" => \A a \in running : a.by # c

(* No applier of this command but a push's is at work on the node.         *)
NodeFree(c, n, running) == \A a \in running : a.by = c /\ a.on = n => a.job = "push"

(* An `up` knows where a setup or a project's provision of its own may     *)
(* still be at work: it refused that node, or marked it provisioned.       *)
UpKnows(c, r, running) ==
  r.kind = "up" =>
    /\ r.at \in Minting \cup {"row", "hop", "health", "own"} => r.unready[r.node] # "ready"
    /\ r.at \in Minting \cup {"row", "hop", "health"} => r.node \notin r.refused
    /\ r.at \notin {"up", "end"} =>
         \A n \in Nick : NodeFree(c, n, running) \/ (r.at = "own" /\ n = r.node) \/ (n \in r.refused /\ r.unready[n] # "ready")
    /\ r.at = "own" => r.call[r.node].on \in {"sent", "lost"} \/ NodeFree(c, r.node, running)
    /\ r.at = "up" => \A n \in Nick : r.due[n] > 0 => NodeFree(c, n, running) \/ r.call[n].on \in {"sent", "lost"} \/ n \in r.known

(* A row, or a reply that leads to one, is the word of a node that holds   *)
(* this mint.                                                              *)
Holds(r, n, inFile, worse) == inFile[n] >= r.minted \/ n \in worse
RowsTrue(r, inFile, worse) ==
  /\ r.at \in Minting \cup {"row"} => \A n \in Nick : r.said[n] # "in place"
  /\ \A n \in Nick : r.said[n] = "in place" => Holds(r, n, inFile, worse)
  /\ \A n \in Nick : r.call[n].on = "back" /\ r.call[n].job = "push" /\ r.call[n].got = "did" => Holds(r, n, inFile, worse)

(* A call about to be made finds no applier of this command on its node.   *)
DueAlone(c, r, running) ==
  \A n \in Nick : r.call[n].on = "due" =>
    \A a \in running : a.by = c /\ a.on = n => r.kind = "up" /\ "push" \in {a.job, r.call[n].job}

CmdOk(c, r, tok, running, inFile, worse) ==
  /\ CmdTyped(r, tok) /\ CallsFit(r) /\ KindsFit(c, r, running) /\ UpKnows(c, r, running)
  /\ RowsTrue(r, inFile, worse) /\ DueAlone(c, r, running)

WorldOk ==
  /\ token \in Nat /\ DOMAIN nodeHeld = Nick /\ \A n \in Nick : nodeHeld[n] \in Nat
  /\ DOMAIN authCmd = Asker /\ appliers \subseteq ApplierOf
  /\ \A a \in appliers : a.job = "push" => a.ver = 0 \/ a.ver >= a.nth
AuthInv ==
  /\ WorldOk /\ OneApplier
  /\ \A c \in Asker : CmdOk(c, authCmd[c], token, appliers, nodeHeld, putBack)


(* s is r at another stage; what else differs is of no consequence.        *)
StageMoved(r, s, at) ==
  /\ DOMAIN s = AuthFields /\ s.at = at /\ s.kind = r.kind /\ s.node = r.node /\ s.minted = r.minted /\ s.left = r.left
  /\ s.refused = r.refused /\ s.unready = r.unready /\ s.call = r.call /\ s.said = r.said /\ s.known = r.known
  /\ s.due = r.due

LEMMA MovesOk ==
  ASSUME NEW c, NEW r, NEW s, NEW tok, NEW running, NEW inFile, NEW worse, NEW at,
         CmdOk(c, r, tok, running, inFile, worse), StageMoved(r, s, at),
         \/ r.at \in Minting /\ at \in Minting \cup {"row"}
         \/ r.at \in {"start", "hop"} /\ at \in {"hop", "health"} /\ r.kind = "setup"
         \/ r.at = "hop" /\ at = "health"
         \/ at = "end" /\ \A n \in Nick : r.call[n].on = "idle"
         \/ r.at = "push" /\ at = "gate" /\ r.kind = "up" /\ \A n \in Nick : r.call[n].on = "idle"
  PROVE  CmdOk(c, s, tok, running, inFile, worse)
  <1>1. CmdTyped(s, tok)
    BY DEF CmdOk, CmdTyped, StageMoved, AuthStages, Minting
  <1>2. CallsFit(s)
    BY DEF CmdOk, CallsFit, StageMoved, Minting
  <1>3. KindsFit(c, s, running)
    BY DEF CmdOk, KindsFit, StageMoved, Minting
  <1>4. UpKnows(c, s, running)
    BY DEF CmdOk, UpKnows, StageMoved, Minting
  <1>5. RowsTrue(s, inFile, worse)
    BY DEF CmdOk, RowsTrue, Holds, StageMoved, Minting
  <1>6. DueAlone(c, s, running)
    BY DEF CmdOk, DueAlone, StageMoved
  <1> QED
    BY <1>1, <1>2, <1>3, <1>4, <1>5, <1>6 DEF CmdOk

(* A step of one command that starts and ends no applier, and may renew    *)
(* the file.                                                               *)
LEMMA OneCommandSafe ==
  ASSUME AuthInv, NEW c \in Asker, NEW r, Alter(c, r), NodesSame, token' \in Nat, token <= token',
         r.kind = authCmd[c].kind, CmdOk(c, r, token', appliers, nodeHeld, putBack)
  PROVE  AuthInv'
  <1>0. WorldOk /\ OneApplier /\ \A d \in Asker : CmdOk(d, authCmd[d], token, appliers, nodeHeld, putBack)
    BY DEF AuthInv
  <1>1. /\ DOMAIN authCmd' = Asker /\ authCmd'[c] = r /\ \A d \in Asker \ {c} : authCmd'[d] = authCmd[d]
        /\ appliers' = appliers /\ nodeHeld' = nodeHeld /\ putBack' = putBack
    BY <1>0 DEF WorldOk, Alter, NodesSame
  <1>2. WorldOk'
    BY <1>0, <1>1 DEF WorldOk
  <1>3. OneApplier'
    BY <1>0, <1>1 DEF OneApplier, WorldOk, ApplierOf
  <1>4. ASSUME NEW d \in Asker PROVE CmdOk(d, authCmd'[d], token', appliers', nodeHeld', putBack')
    <2>1. CASE d = c
      BY <2>1, <1>1
    <2>2. CASE d # c
      <3>1. CmdOk(d, authCmd[d], token, appliers, nodeHeld, putBack) /\ authCmd'[d] = authCmd[d]
        BY <1>0, <1>1, <2>2
      <3>2. CmdTyped(authCmd[d], token')
        BY <3>1, <1>0 DEF CmdOk, CmdTyped, WorldOk
      <3> QED
        BY <3>1, <3>2, <1>1 DEF CmdOk
    <2> QED
      BY <2>1, <2>2
  <1> QED
    BY <1>2, <1>3, <1>4 DEF AuthInv

(* A mint begins: no row is out.                                           *)
LEMMA EnsuresOk ==
  ASSUME NEW c, NEW r, NEW s, NEW tok \in Nat, NEW running, NEW inFile, NEW worse,
         CmdOk(c, r, tok, running, inFile, worse),
         DOMAIN s = AuthFields, s.at = "ensure", s.kind = r.kind, s.minted = 0, s.left = r.left, s.node \in Nick,
         s.refused = r.refused, s.unready = r.unready, s.call = r.call, s.said = NoRows, s.known = r.known, s.due = r.due,
         \/ r.at = "start" /\ r.kind \in {"refresh", "look"}
         \/ r.at = "health" /\ s.node = r.node
         \/ r.at = "gate" /\ r.kind = "up" /\ s.node \notin r.refused /\ r.unready[s.node] # "ready",
         \A n \in Nick : inFile[n] \in Nat
  PROVE  CmdOk(c, s, tok, running, inFile, worse)
  <1>0. DOMAIN NoRows = Nick /\ \A n \in Nick : NoRows[n] = "no row"
    BY DEF NoRows
  <1>1. CmdTyped(s, tok)
    <2>1. CmdTyped(r, tok)
      BY DEF CmdOk
    <2>2. s.at \in AuthStages
      BY DEF AuthStages
    <2>3. s.minted \in Nat /\ s.minted <= tok
      OBVIOUS
    <2>4. DOMAIN s.said = Nick
      BY <1>0, Zenon
    <2> QED
      BY <2>1, <2>2, <2>3, <2>4 DEF CmdTyped
  <1>2. CallsFit(s)
    BY DEF CmdOk, CallsFit
  <1>3. KindsFit(c, s, running)
    BY DEF CmdOk, KindsFit
  <1>4. UpKnows(c, s, running)
    BY DEF CmdOk, UpKnows, Minting
  <1>5. RowsTrue(s, inFile, worse)
    BY <1>0 DEF CmdOk, RowsTrue, Holds, Minting, CallsFit
  <1>6. DueAlone(c, s, running)
    BY DEF CmdOk, DueAlone
  <1> QED
    BY <1>1, <1>2, <1>3, <1>4, <1>5, <1>6 DEF CmdOk

(* What the invariant says of one command, and of an untouched world.      *)
LEMMA OfCommand ==
  ASSUME AuthInv, NEW c \in Asker
  PROVE  /\ CmdOk(c, authCmd[c], token, appliers, nodeHeld, putBack) /\ DOMAIN authCmd[c] = AuthFields
         /\ token \in Nat /\ \A n \in Nick : nodeHeld[n] \in Nat
  BY DEF AuthInv, CmdOk, CmdTyped, WorldOk

(* Steps that move a command on and change nothing else.                   *)
LEMMA MoveSafe ==
  ASSUME AuthInv, NEW c \in Asker, NEW r, NEW at, Alter(c, r), NodesSame, FileSame, StageMoved(authCmd[c], r, at),
         \/ authCmd[c].at \in Minting /\ at \in Minting \cup {"row"}
         \/ authCmd[c].at \in {"start", "hop"} /\ at \in {"hop", "health"} /\ authCmd[c].kind = "setup"
         \/ authCmd[c].at = "hop" /\ at = "health"
         \/ at = "end" /\ \A n \in Nick : authCmd[c].call[n].on = "idle"
         \/ authCmd[c].at = "push" /\ at = "gate" /\ authCmd[c].kind = "up"
            /\ \A n \in Nick : authCmd[c].call[n].on = "idle"
  PROVE  AuthInv'
  <1>1. CmdOk(c, r, token, appliers, nodeHeld, putBack)
    BY MovesOk, OfCommand
  <1>2. token' = token /\ token \in Nat /\ r.kind = authCmd[c].kind
    BY OfCommand DEF FileSame, StageMoved
  <1> QED
    BY <1>1, <1>2, OneCommandSafe

LEMMA GoesMoves ==
  ASSUME AuthInv, NEW c \in Asker, NEW at, AuthGoes(c, at)
  PROVE  Alter(c, [authCmd[c] EXCEPT !.at = at]) /\ StageMoved(authCmd[c], [authCmd[c] EXCEPT !.at = at], at)
  BY OfCommand DEF AuthGoes, StageMoved, AuthFields

LEMMA GoesSafe ==
  ASSUME AuthInv, NEW c \in Asker, NEW at, AuthGoes(c, at), NodesSame, FileSame,
         \/ authCmd[c].at \in Minting /\ at \in Minting \cup {"row"}
         \/ authCmd[c].at \in {"start", "hop"} /\ at \in {"hop", "health"} /\ authCmd[c].kind = "setup"
         \/ authCmd[c].at = "hop" /\ at = "health"
         \/ at = "end" /\ \A n \in Nick : authCmd[c].call[n].on = "idle"
         \/ authCmd[c].at = "push" /\ at = "gate" /\ authCmd[c].kind = "up"
            /\ \A n \in Nick : authCmd[c].call[n].on = "idle"
  PROVE  AuthInv'
  BY GoesMoves, MoveSafe, ZenonT(60)

LEMMA BeginsMint ==
  ASSUME AuthInv, NEW c \in Asker, NEW r, Alter(c, r), NodesSame, FileSame,
         DOMAIN r = AuthFields, r.at = "ensure", r.kind = authCmd[c].kind, r.minted = 0, r.left = authCmd[c].left,
         r.node \in Nick, r.refused = authCmd[c].refused, r.unready = authCmd[c].unready, r.call = authCmd[c].call,
         r.said = NoRows, r.known = authCmd[c].known, r.due = authCmd[c].due,
         \/ authCmd[c].at = "start" /\ authCmd[c].kind \in {"refresh", "look"}
         \/ authCmd[c].at = "health" /\ r.node = authCmd[c].node
         \/ authCmd[c].at = "gate" /\ authCmd[c].kind = "up" /\ r.node \notin authCmd[c].refused
            /\ authCmd[c].unready[r.node] # "ready"
  PROVE  AuthInv'
  <1>1. CmdOk(c, r, token, appliers, nodeHeld, putBack)
    BY EnsuresOk, OfCommand
  <1>2. token' = token /\ token \in Nat
    BY OfCommand DEF FileSame
  <1> QED
    BY <1>1, <1>2, OneCommandSafe

LEMMA EnsuresRecord ==
  ASSUME AuthInv, NEW c \in Asker, NEW force
  PROVE  LET r == Ensures(c, force) IN
         /\ DOMAIN r = AuthFields /\ r.at = "ensure" /\ r.kind = authCmd[c].kind /\ r.minted = 0
         /\ r.left = authCmd[c].left /\ r.node = authCmd[c].node /\ r.refused = authCmd[c].refused
         /\ r.unready = authCmd[c].unready /\ r.call = authCmd[c].call /\ r.said = NoRows
         /\ r.known = authCmd[c].known /\ r.due = authCmd[c].due
  BY OfCommand DEF Ensures, AuthFields

LEMMA StartSafe ==
  ASSUME AuthInv, NEW c \in Asker, Refresh(c) \/ Look(c) \/ SetsUp(c)
  PROVE  AuthInv'
  <1>0. authCmd[c].node \in Nick /\ \A n \in Nick : authCmd[c].at = "start" => authCmd[c].call[n].on = "idle"
    BY OfCommand DEF CmdOk, CmdTyped, CallsFit
  <1>1. CASE AuthGoes(c, "end") /\ authCmd[c].at = "start" /\ FileSame /\ NodesSame
    BY <1>1, <1>0, GoesSafe
  <1>2. CASE AuthGoes(c, "hop") /\ authCmd[c].at = "start" /\ authCmd[c].kind = "setup" /\ FileSame /\ NodesSame
    BY <1>2, <1>0, GoesSafe
  <1>3. CASE Alter(c, Ensures(c, TRUE)) /\ authCmd[c].at = "start" /\ authCmd[c].kind \in {"refresh", "look"} /\ FileSame
             /\ NodesSame
    BY <1>3, <1>0, EnsuresRecord, BeginsMint, ZenonT(60)
  <1> QED
    BY <1>1, <1>2, <1>3, Zenon DEF Refresh, Look, SetsUp, AuthAt

LEMMA MintSafe ==
  ASSUME AuthInv, NEW c \in Asker, Ensure(c) \/ Mint(c) \/ Temp(c)
  PROVE  AuthInv'
  <1>1. CASE Ensure(c)
    <2>1. PICK at \in {"row", "mint"} : Alter(c, [authCmd[c] EXCEPT !.had = Reads, !.at = at])
      BY <1>1 DEF Ensure
    <2>2. StageMoved(authCmd[c], [authCmd[c] EXCEPT !.had = Reads, !.at = at], at)
      BY OfCommand DEF StageMoved, AuthFields
    <2> QED
      BY <1>1, <2>1, <2>2, MoveSafe DEF Ensure, AuthAt, Minting
  <1>2. CASE Mint(c)
    BY <1>2, GoesSafe DEF Mint, AuthAt, Minting
  <1>3. CASE Temp(c)
    BY <1>3, GoesSafe DEF Temp, AuthAt, Minting
  <1> QED
    BY <1>1, <1>2, <1>3

(* A mint in place is newer than anything before.                          *)
LEMMA ReplaceSafe ==
  ASSUME AuthInv, NEW c \in Asker, Replace(c)
  PROVE  AuthInv'
  <1>0. CmdOk(c, authCmd[c], token, appliers, nodeHeld, putBack) /\ token \in Nat /\ authCmd[c].at = "replace"
    BY OfCommand DEF Replace, AuthAt
  <1>1. CASE FileSame /\ AuthGoes(c, "row")
    BY <1>0, <1>1, GoesSafe DEF Replace, Minting
  <1>2. CASE ~ (FileSame /\ AuthGoes(c, "row"))
    <2> DEFINE v == IF token = 0 THEN 2 ELSE token + 1
               r == authCmd[c]
               s == [authCmd[c] EXCEPT !.minted = v, !.at = "row"]
    <2>1. token' = v /\ Alter(c, s) /\ NodesSame
      BY <1>2 DEF Replace, FileSame
    <2>2. v \in Nat /\ token <= v
      BY <1>0
    <2>3. /\ DOMAIN s = AuthFields /\ s.at = "row" /\ s.kind = r.kind /\ s.node = r.node /\ s.minted = v /\ s.left = r.left
          /\ s.refused = r.refused /\ s.unready = r.unready /\ s.call = r.call /\ s.said = r.said /\ s.known = r.known
          /\ s.due = r.due
      BY OfCommand DEF AuthFields
    <2> HIDE DEF s, v
    <2>4. CmdOk(c, s, v, appliers, nodeHeld, putBack)
      <3>1. CmdTyped(s, v)
        BY <1>0, <2>2, <2>3 DEF CmdOk, CmdTyped, AuthStages
      <3>2. CallsFit(s)
        BY <1>0, <2>3 DEF CmdOk, CallsFit
      <3>3. KindsFit(c, s, appliers)
        BY <1>0, <2>3 DEF CmdOk, KindsFit
      <3>4. UpKnows(c, s, appliers)
        BY <1>0, <2>3 DEF CmdOk, UpKnows, Minting
      <3>5. RowsTrue(s, nodeHeld, putBack)
        BY <1>0, <2>3 DEF CmdOk, RowsTrue, Minting, CallsFit
      <3>6. DueAlone(c, s, appliers)
        BY <1>0, <2>3 DEF CmdOk, DueAlone
      <3> QED
        BY <3>1, <3>2, <3>3, <3>4, <3>5, <3>6 DEF CmdOk
    <2> QED
      BY <2>1, <2>2, <2>3, <2>4, OneCommandSafe
  <1> QED
    BY <1>1, <1>2


(* The sets of facts an action of one command leaves to show.              *)
LEMMA AlterSafe ==
  ASSUME AuthInv, NEW c \in Asker, NEW r, Alter(c, r), NodesSame, FileSame, r.kind = authCmd[c].kind,
         CmdTyped(r, token), CallsFit(r), KindsFit(c, r, appliers), UpKnows(c, r, appliers),
         RowsTrue(r, nodeHeld, putBack), DueAlone(c, r, appliers)
  PROVE  AuthInv'
  <1>1. token' = token /\ token \in Nat
    BY OfCommand DEF FileSame
  <1>2. CmdOk(c, r, token, appliers, nodeHeld, putBack)
    BY DEF CmdOk
  <1> QED
    BY <1>1, <1>2, OneCommandSafe

LEMMA RunsUpSafe ==
  ASSUME AuthInv, NEW c \in Asker, RunsUp(c)
  PROVE  AuthInv'
  <1>1. PICK silent \in SUBSET Nick :
          Alter(c, [authCmd[c] EXCEPT !.at = "gate", !.unready = [n \in Nick |-> Readiness(n, silent)]])
    BY DEF RunsUp
  <1> DEFINE r == authCmd[c]
             u == [n \in Nick |-> Readiness(n, silent)]
             s == [authCmd[c] EXCEPT !.at = "gate", !.unready = u]
  <1>2. r.at = "start" /\ r.kind = "up" /\ FileSame /\ NodesSame
    BY DEF RunsUp, AuthAt
  <1>3. /\ DOMAIN s = AuthFields /\ s.at = "gate" /\ s.kind = r.kind /\ s.node = r.node /\ s.minted = r.minted
        /\ s.left = r.left /\ s.refused = r.refused /\ s.unready = u /\ s.call = r.call /\ s.said = r.said
        /\ s.known = r.known /\ s.due = r.due /\ DOMAIN u = Nick
    BY OfCommand DEF AuthFields
  <1>4. Alter(c, s)
    BY <1>1
  <1> HIDE DEF s, u
  <1>5. CmdTyped(r, token) /\ CallsFit(r) /\ KindsFit(c, r, appliers) /\ RowsTrue(r, nodeHeld, putBack)
        /\ DueAlone(c, r, appliers)
    BY OfCommand DEF CmdOk
  <1>6. CmdTyped(s, token)
    BY <1>3, <1>5 DEF CmdTyped, AuthStages
  <1>7. CallsFit(s) /\ KindsFit(c, s, appliers) /\ DueAlone(c, s, appliers)
    BY <1>2, <1>3, <1>5 DEF CallsFit, KindsFit, DueAlone
  <1>8. UpKnows(c, s, appliers)
    BY <1>2, <1>3, <1>5 DEF UpKnows, KindsFit, NodeFree, Minting
  <1>9. RowsTrue(s, nodeHeld, putBack)
    BY <1>3, <1>5 DEF RowsTrue, Holds, Minting
  <1> QED
    BY <1>2, <1>3, <1>4, <1>6, <1>7, <1>8, <1>9, AlterSafe

(* A setup that fails ends the command, or leaves its node refused.        *)
LEMMA HopSafe ==
  ASSUME AuthInv, NEW c \in Asker, Hop(c)
  PROVE  AuthInv'
  <1> DEFINE r == authCmd[c]
             s == Failed(c)
  <1>0. r.at = "hop" /\ FileSame /\ NodesSame
    BY DEF Hop, AuthAt
  <1>1. CASE AuthGoes(c, "health")
    BY <1>0, <1>1, GoesSafe
  <1>2. CASE Alter(c, s)
    <2>1. /\ DOMAIN s = AuthFields /\ s.at = IF r.kind = "up" THEN "gate" ELSE "end"
          /\ s.kind = r.kind /\ s.node = r.node /\ s.minted = r.minted
          /\ s.left = r.left /\ s.refused = (IF r.kind = "up" THEN r.refused \cup {r.node} ELSE r.refused)
          /\ s.unready = r.unready /\ s.call = r.call /\ s.said = r.said
          /\ s.known = r.known /\ s.due = r.due
      BY <1>0, OfCommand DEF AuthFields, Failed
    <2> HIDE DEF s
    <2>2. /\ CmdTyped(r, token) /\ CallsFit(r) /\ KindsFit(c, r, appliers) /\ RowsTrue(r, nodeHeld, putBack)
          /\ DueAlone(c, r, appliers) /\ UpKnows(c, r, appliers)
      BY OfCommand DEF CmdOk
    <2>3. CmdTyped(s, token)
      BY <1>0, <2>1, <2>2 DEF CmdTyped, AuthStages
    <2>4. CallsFit(s) /\ DueAlone(c, s, appliers)
      BY <1>0, <2>1, <2>2 DEF CallsFit, DueAlone
    <2>5. KindsFit(c, s, appliers)
      BY <1>0, <2>1, <2>2 DEF KindsFit
    <2>6. UpKnows(c, s, appliers)
      BY <1>0, <2>1, <2>2 DEF UpKnows, Minting
    <2>7. RowsTrue(s, nodeHeld, putBack)
      BY <1>0, <2>1, <2>2 DEF RowsTrue, Holds, Minting
    <2> QED
      BY <1>0, <1>2, <2>1, <2>3, <2>4, <2>5, <2>6, <2>7, AlterSafe
  <1> QED
    BY <1>1, <1>2, Zenon DEF Hop

LEMMA HealthSafe ==
  ASSUME AuthInv, NEW c \in Asker, LooksAtToken(c)
  PROVE  AuthInv'
  <1>1. authCmd[c].at = "health" /\ FileSame /\ NodesSame /\ authCmd[c].node \in Nick
    BY OfCommand DEF LooksAtToken, AuthAt, CmdOk, CmdTyped
  <1>2. PICK yes \in BOOLEAN : Alter(c, [Ensures(c, Renews(c, yes)) EXCEPT !.renews = Renewable])
    BY DEF LooksAtToken
  <1> DEFINE e == Ensures(c, Renews(c, yes))
             s == [e EXCEPT !.renews = Renewable]
             r == authCmd[c]
  <1>3. /\ DOMAIN e = AuthFields /\ e.at = "ensure" /\ e.kind = r.kind /\ e.minted = 0
        /\ e.left = r.left /\ e.node = r.node /\ e.refused = r.refused
        /\ e.unready = r.unready /\ e.call = r.call /\ e.said = NoRows
        /\ e.known = r.known /\ e.due = r.due
    BY EnsuresRecord
  <1> HIDE DEF e
  <1>4. /\ DOMAIN s = AuthFields /\ s.at = "ensure" /\ s.kind = r.kind /\ s.minted = 0
        /\ s.left = r.left /\ s.node = r.node /\ s.refused = r.refused
        /\ s.unready = r.unready /\ s.call = r.call /\ s.said = NoRows
        /\ s.known = r.known /\ s.due = r.due
    BY <1>3 DEF AuthFields
  <1>5. Alter(c, s)
    BY <1>2 DEF e
  <1> HIDE DEF s
  <1> QED
    BY <1>1, <1>4, <1>5, BeginsMint

(* Back at the gate with this node told ready, or refused.                 *)
LEMMA GateBackSafe ==
  ASSUME AuthInv, NEW c \in Asker, NEW r, r = authCmd[c], NEW s, r.at = "row", r.kind = "up", FileSame, NodesSame, Alter(c, s),
         DOMAIN s = AuthFields, s.at = "gate", s.kind = r.kind, s.node = r.node, s.minted = r.minted, s.left = r.left,
         s.call = r.call, s.said = r.said, s.known = r.known, s.due = r.due,
         \/ s.unready = [r.unready EXCEPT ![r.node] = "ready"] /\ s.refused = r.refused
         \/ s.unready = r.unready /\ s.refused = r.refused \cup {r.node}
  PROVE  AuthInv'
  <1>1. /\ CmdTyped(r, token) /\ CallsFit(r) /\ KindsFit(c, r, appliers) /\ RowsTrue(r, nodeHeld, putBack)
        /\ DueAlone(c, r, appliers) /\ UpKnows(c, r, appliers)
    BY OfCommand DEF CmdOk
  <1>2. \A n \in Nick : r.call[n].on = "idle"
    BY <1>1 DEF CallsFit
  <1>3. CmdTyped(s, token)
    BY <1>1 DEF CmdTyped, AuthStages
  <1>4. CallsFit(s) /\ KindsFit(c, s, appliers)
    BY <1>1, <1>2 DEF CallsFit, KindsFit
  <1>5. NodeFree(c, r.node, appliers) /\ r.node \in Nick
    BY <1>1 DEF UpKnows, Minting, CmdTyped
  <1>6. UpKnows(c, s, appliers)
    <2> SUFFICES ASSUME NEW n \in Nick, ~NodeFree(c, n, appliers) PROVE n \in s.refused /\ s.unready[n] # "ready"
      BY DEF UpKnows, Minting
    <2>1. n # r.node /\ n \in r.refused /\ r.unready[n] # "ready"
      BY <1>1, <1>5 DEF UpKnows
    <2> QED
      BY <1>1, <2>1 DEF CmdTyped
  <1>7. DueAlone(c, s, appliers) /\ RowsTrue(s, nodeHeld, putBack)
    BY <1>1, <1>2 DEF DueAlone, RowsTrue, Minting, Holds
  <1> QED
    BY <1>3, <1>4, <1>6, <1>7, AlterSafe

LEMMA RowSafe ==
  ASSUME AuthInv, NEW c \in Asker, Row(c)
  PROVE  AuthInv'
  <1> DEFINE r == authCmd[c]
  <1>0. r.at = "row" /\ FileSame /\ NodesSame
    BY DEF Row, AuthAt
  <1>1. /\ CmdTyped(r, token) /\ CallsFit(r) /\ KindsFit(c, r, appliers) /\ RowsTrue(r, nodeHeld, putBack)
        /\ DueAlone(c, r, appliers) /\ UpKnows(c, r, appliers)
    BY OfCommand DEF CmdOk
  <1>2. \A n \in Nick : r.call[n].on = "idle"
    BY <1>0, <1>1 DEF CallsFit
  <1>3. CASE AuthGoes(c, "end")
    BY <1>0, <1>2, <1>3, GoesSafe
  <1>4. CASE r.kind \in {"refresh", "look"} /\ Alter(c, [r EXCEPT !.at = "push", !.left = Nick])
    <2> DEFINE s == [r EXCEPT !.at = "push", !.left = Nick]
    <2>1. /\ DOMAIN s = AuthFields /\ s.at = "push" /\ s.kind = r.kind /\ s.node = r.node /\ s.minted = r.minted
          /\ s.left = Nick /\ s.refused = r.refused /\ s.unready = r.unready /\ s.call = r.call /\ s.said = r.said
          /\ s.known = r.known /\ s.due = r.due /\ Alter(c, s)
      BY OfCommand, <1>4 DEF AuthFields
    <2> HIDE DEF s
    <2>2. CmdTyped(s, token)
      BY <1>1, <2>1 DEF CmdTyped, AuthStages
    <2>3. CallsFit(s) /\ KindsFit(c, s, appliers)
      BY <1>0, <1>1, <1>2, <1>4, <2>1 DEF CallsFit, KindsFit
    <2>4. UpKnows(c, s, appliers) /\ DueAlone(c, s, appliers) /\ RowsTrue(s, nodeHeld, putBack)
      BY <1>0, <1>1, <1>2, <1>4, <2>1 DEF UpKnows, DueAlone, RowsTrue, Minting
    <2> QED
      BY <1>0, <2>1, <2>2, <2>3, <2>4, AlterSafe
  <1>5. CASE /\ r.kind = "up"
             /\ \/ Alter(c, [r EXCEPT !.at = "gate", !.unready[r.node] = "ready"])
                \/ Alter(c, [r EXCEPT !.at = "gate", !.refused = @ \cup {r.node}])
    <2>1. CASE Alter(c, [r EXCEPT !.at = "gate", !.unready[r.node] = "ready"])
      <3> DEFINE s == [r EXCEPT !.at = "gate", !.unready[r.node] = "ready"]
                 u == [r.unready EXCEPT ![r.node] = "ready"]
                 f == r.refused
      <3>2. /\ DOMAIN s = AuthFields /\ s.at = "gate" /\ s.kind = r.kind /\ s.node = r.node /\ s.minted = r.minted
            /\ s.left = r.left /\ s.refused = f /\ s.unready = u /\ s.call = r.call /\ s.said = r.said
            /\ s.known = r.known /\ s.due = r.due /\ Alter(c, s)
        BY OfCommand, <2>1 DEF AuthFields
      <3> HIDE DEF s
      <3> QED
        BY <1>0, <1>1, <1>2, <1>5, <3>2, GateBackSafe
    <2>2. CASE Alter(c, [r EXCEPT !.at = "gate", !.refused = @ \cup {r.node}])
      <3> DEFINE s == [r EXCEPT !.at = "gate", !.refused = @ \cup {r.node}]
                 u == r.unready
                 f == r.refused \cup {r.node}
      <3>2. /\ DOMAIN s = AuthFields /\ s.at = "gate" /\ s.kind = r.kind /\ s.node = r.node /\ s.minted = r.minted
            /\ s.left = r.left /\ s.refused = f /\ s.unready = u /\ s.call = r.call /\ s.said = r.said
            /\ s.known = r.known /\ s.due = r.due /\ Alter(c, s)
        BY OfCommand, <2>2 DEF AuthFields
      <3> HIDE DEF s
      <3> QED
        BY <1>0, <1>1, <1>2, <1>5, <3>2, GateBackSafe
    <2> QED
      BY <1>5, <2>1, <2>2
  <1>6. CASE r.kind \notin {"refresh", "look"}
             /\ Alter(c, [r EXCEPT !.at = "own", !.call[r.node] = [NoCall EXCEPT !.on = "due", !.job = "setup"]])
    <2> DEFINE due == [NoCall EXCEPT !.on = "due", !.job = "setup"]
               s == [r EXCEPT !.at = "own", !.call[r.node] = due]
    <2>1. CallTyped(due) /\ due.on = "due" /\ due.job = "setup"
      BY DEF CallTyped, NoCall, AuthJobs
    <2>2. /\ DOMAIN s = AuthFields /\ s.at = "own" /\ s.kind = r.kind /\ s.node = r.node /\ s.minted = r.minted
          /\ s.left = r.left /\ s.refused = r.refused /\ s.unready = r.unready /\ s.said = r.said
          /\ s.known = r.known /\ s.due = r.due /\ s.call = [r.call EXCEPT ![r.node] = due] /\ Alter(c, s)
      BY OfCommand, <1>6 DEF AuthFields
    <2> HIDE DEF s, due
    <2>3. /\ r.node \in Nick /\ s.call[r.node] = due /\ DOMAIN s.call = Nick
          /\ \A n \in Nick \ {r.node} : s.call[n] = r.call[n]
      BY <1>1, <2>2 DEF CmdTyped
    <2>4. CmdTyped(s, token)
      BY <1>1, <2>1, <2>2, <2>3 DEF CmdTyped, AuthStages
    <2>5. r.kind \in {"setup", "up"}
      BY <1>0, <1>1, <1>6 DEF CmdTyped, AuthKinds, KindsFit
    <2>7. CallsFit(s) /\ KindsFit(c, s, appliers)
      BY <1>0, <1>1, <1>2, <2>1, <2>2, <2>3, <2>5 DEF CallsFit, KindsFit
    <2>8. r.kind = "up" => NodeFree(c, r.node, appliers)
      BY <1>0, <1>1, <2>3 DEF UpKnows, Minting
    <2>9. UpKnows(c, s, appliers)
      BY <1>0, <1>1, <2>2, <2>8 DEF UpKnows, Minting
    <2>10. DueAlone(c, s, appliers)
      BY <1>0, <1>1, <1>2, <2>1, <2>2, <2>3, <2>5, <2>8 DEF DueAlone, KindsFit, NodeFree
    <2>11. RowsTrue(s, nodeHeld, putBack)
      BY <1>0, <1>1, <1>2, <2>1, <2>2, <2>3, ZenonT(60) DEF RowsTrue, Minting, Holds
    <2> QED
      BY <1>0, <2>2, <2>4, <2>7, <2>9, <2>10, <2>11, AlterSafe
  <1>7. CASE r.kind \in {"refresh", "look"}
    <2>1. Alter(c, [r EXCEPT !.at = "end"]) \/ Alter(c, [r EXCEPT !.at = "push", !.left = Nick])
      BY <1>7 DEF Row
    <2> QED
      BY <2>1, <1>3, <1>4, <1>7 DEF AuthGoes
  <1>8. CASE r.kind \notin {"refresh", "look"} /\ r.kind = "up" /\ r.unready[r.node] = "no token"
    <2>1. \/ Alter(c, [r EXCEPT !.at = "gate", !.unready[r.node] = "ready"])
          \/ Alter(c, [r EXCEPT !.at = "gate", !.refused = @ \cup {r.node}])
      BY <1>8 DEF Row
    <2> QED
      BY <2>1, <1>5, <1>8
  <1>9. CASE r.kind \notin {"refresh", "look"} /\ ~(r.kind = "up" /\ r.unready[r.node] = "no token")
    <2>1. Alter(c, [r EXCEPT !.at = "own", !.call[r.node] = [NoCall EXCEPT !.on = "due", !.job = "setup"]])
      BY <1>9 DEF Row
    <2> QED
      BY <2>1, <1>6, <1>9
  <1> QED
    BY <1>7, <1>8, <1>9


(* The setup's own provision has answered, or not: a node where it may     *)
(* still be at work is refused.                                            *)
LEMMA OwnSafe ==
  ASSUME AuthInv, NEW c \in Asker, Own(c)
  PROVE  AuthInv'
  <1> DEFINE r == authCmd[c]
  <1>0. r.at = "own" /\ FileSame /\ NodesSame /\ r.call[r.node].on \in {"back", "lost", "unreached"}
    BY DEF Own, AuthAt
  <1>1. /\ CmdTyped(r, token) /\ CallsFit(r) /\ KindsFit(c, r, appliers) /\ RowsTrue(r, nodeHeld, putBack)
        /\ DueAlone(c, r, appliers) /\ UpKnows(c, r, appliers)
    BY OfCommand DEF CmdOk
  <1>2. r.node \in Nick /\ r.kind \in {"setup", "up"} /\ DOMAIN r.call = Nick /\ DOMAIN r.unready = Nick
    BY <1>0, <1>1 DEF CmdTyped, KindsFit, AuthKinds
  <1>3. PICK ok \in {~StepFailed(r.call[r.node]), FALSE} :
       LET s == [r EXCEPT !.call[r.node] = NoCall, !.unready[r.node] = IF ok THEN "ready" ELSE @,
                          !.refused = IF ok THEN @ ELSE @ \cup {r.node}] IN
       Alter(c, IF r.minted # 0 /\ r.renews THEN [s EXCEPT !.at = "push", !.left = Others(c)]
                ELSE [s EXCEPT !.at = IF r.kind = "up" THEN "gate" ELSE "end"])
    BY DEF Own
  <1> DEFINE q == [r EXCEPT !.call[r.node] = NoCall, !.unready[r.node] = IF ok THEN "ready" ELSE @,
                            !.refused = IF ok THEN @ ELSE @ \cup {r.node}]
  <1>4. ok \in BOOLEAN /\ (ok => r.call[r.node].on = "back")
    BY <1>0, <1>3 DEF StepFailed
  <1>5. /\ DOMAIN q = AuthFields /\ q.kind = r.kind /\ q.node = r.node /\ q.minted = r.minted /\ q.said = r.said
        /\ q.left = r.left /\ q.known = r.known /\ q.due = r.due /\ q.call = [r.call EXCEPT ![r.node] = NoCall]
        /\ q.refused = (IF ok THEN r.refused ELSE r.refused \cup {r.node})
        /\ q.unready = [r.unready EXCEPT ![r.node] = IF ok THEN "ready" ELSE @]
    BY OfCommand DEF AuthFields
  <1> HIDE DEF q
  <1>6. \E s, at, left : /\ Alter(c, s) /\ DOMAIN s = AuthFields /\ s.at = at /\ s.left = left
                         /\ \/ at = "push" /\ left = Others(c)
                            \/ at = (IF r.kind = "up" THEN "gate" ELSE "end") /\ left = r.left
                         /\ s.kind = r.kind /\ s.node = r.node /\ s.minted = r.minted /\ s.said = r.said
                         /\ s.known = r.known /\ s.due = r.due /\ s.call = q.call /\ s.refused = q.refused
                         /\ s.unready = q.unready
    <2>1. CASE r.minted # 0 /\ r.renews
      <3> DEFINE s == [q EXCEPT !.at = "push", !.left = Others(c)]
      <3>1. Alter(c, s)
        BY <1>3, <2>1 DEF q
      <3>2. /\ DOMAIN s = AuthFields /\ s.at = "push" /\ s.left = Others(c)
            /\ s.kind = r.kind /\ s.node = r.node /\ s.minted = r.minted /\ s.said = r.said
            /\ s.known = r.known /\ s.due = r.due /\ s.call = q.call /\ s.refused = q.refused /\ s.unready = q.unready
        BY <1>5 DEF AuthFields
      <3> HIDE DEF s
      <3> QED
        BY <3>1, <3>2
    <2>2. CASE ~ (r.minted # 0 /\ r.renews)
      <3> DEFINE s == [q EXCEPT !.at = IF r.kind = "up" THEN "gate" ELSE "end"]
      <3>1. Alter(c, s)
        BY <1>3, <2>2 DEF q
      <3>2. /\ DOMAIN s = AuthFields /\ s.at = (IF r.kind = "up" THEN "gate" ELSE "end") /\ s.left = r.left
            /\ s.kind = r.kind /\ s.node = r.node /\ s.minted = r.minted /\ s.said = r.said
            /\ s.known = r.known /\ s.due = r.due /\ s.call = q.call /\ s.refused = q.refused /\ s.unready = q.unready
        BY <1>5 DEF AuthFields
      <3> HIDE DEF s
      <3> QED
        BY <3>1, <3>2
    <2> QED
      BY <2>1, <2>2
  <1>7. PICK s, at, left :
                         /\ Alter(c, s) /\ DOMAIN s = AuthFields /\ s.at = at /\ s.left = left
                         /\ \/ at = "push" /\ left = Others(c)
                            \/ at = (IF r.kind = "up" THEN "gate" ELSE "end") /\ left = r.left
                         /\ s.kind = r.kind /\ s.node = r.node /\ s.minted = r.minted /\ s.said = r.said
                         /\ s.known = r.known /\ s.due = r.due /\ s.call = q.call /\ s.refused = q.refused
                         /\ s.unready = q.unready
    BY <1>6
  <1>8. /\ s.call[r.node] = NoCall /\ DOMAIN s.call = Nick /\ \A n \in Nick \ {r.node} : s.call[n] = r.call[n]
        /\ CallTyped(NoCall) /\ NoCall.on = "idle"
        /\ \A n \in Nick \ {r.node} : r.call[n].on = "idle"
    <2>1. CallTyped(NoCall) /\ NoCall.on = "idle"
      BY DEF NoCall, CallTyped, AuthJobs
    <2>2. \A n \in Nick \ {r.node} : r.call[n].on = "idle"
      BY <1>0, <1>1 DEF CallsFit
    <2> QED
      BY <1>2, <1>5, <1>7, <2>1, <2>2
  <1>9. \A n \in Nick : s.call[n].on = "idle"
    BY <1>8
  <1>10. left \subseteq Nick /\ (at = "push" => r.node \notin left) /\ at \in {"push", "gate", "end"}
    BY <1>1, <1>7 DEF Others, CmdTyped
  <1>11. CmdTyped(s, token)
    <2>1. s.refused \subseteq Nick /\ DOMAIN s.unready = Nick
      BY <1>1, <1>2, <1>5, <1>7 DEF CmdTyped
    <2> QED
      BY <1>1, <1>7, <1>8, <1>10, <2>1 DEF CmdTyped, AuthStages
  <1>12. CallsFit(s)
    BY <1>7, <1>9, <1>10 DEF CallsFit
  <1>13. KindsFit(c, s, appliers)
    BY <1>0, <1>1, <1>2, <1>7 DEF KindsFit
  <1>14. UpKnows(c, s, appliers)
    <2> SUFFICES ASSUME r.kind = "up", NEW n \in Nick, ~NodeFree(c, n, appliers) PROVE n \in s.refused /\ s.unready[n] # "ready"
      BY <1>7, <1>10 DEF UpKnows, Minting
    <2>1. CASE n = r.node
      <3>1. r.call[r.node].on \in {"sent", "lost"} /\ r.unready[r.node] # "ready"
        BY <1>0, <1>1, <2>1 DEF UpKnows
      <3>2. ~ok
        BY <3>1, <1>4
      <3> QED
        BY <1>2, <1>5, <1>7, <2>1, <3>1, <3>2
    <2>2. CASE n # r.node
      <3>1. n \in r.refused /\ r.unready[n] # "ready"
        BY <1>0, <1>1, <2>2 DEF UpKnows
      <3> QED
        BY <1>2, <1>5, <1>7, <2>2, <3>1
    <2> QED
      BY <2>1, <2>2
  <1>15. DueAlone(c, s, appliers)
    BY <1>9 DEF DueAlone
  <1>16. RowsTrue(s, nodeHeld, putBack)
    BY <1>1, <1>7, <1>9, <1>10 DEF RowsTrue, Holds, Minting
  <1> QED
    BY <1>0, <1>7, <1>11, <1>12, <1>13, <1>14, <1>15, <1>16, AlterSafe

LEMMA PushesSafe ==
  ASSUME AuthInv, NEW c \in Asker, Pushes(c)
  PROVE  AuthInv'
  <1> DEFINE r == authCmd[c]
             calls == [n \in Nick |-> IF n \in r.left THEN Pushed(c) ELSE r.call[n]]
             s == [r EXCEPT !.left = {}, !.call = calls]
  <1>0. r.at = "push" /\ r.left # {} /\ FileSame /\ NodesSame /\ Alter(c, s)
    BY DEF Pushes, AuthAt
  <1>1. /\ CmdTyped(r, token) /\ CallsFit(r) /\ KindsFit(c, r, appliers) /\ RowsTrue(r, nodeHeld, putBack)
        /\ DueAlone(c, r, appliers) /\ UpKnows(c, r, appliers)
    BY OfCommand DEF CmdOk
  <1>2. /\ DOMAIN s = AuthFields /\ s.at = "push" /\ s.left = {} /\ s.call = calls
        /\ s.kind = r.kind /\ s.node = r.node /\ s.minted = r.minted /\ s.said = r.said
        /\ s.known = r.known /\ s.due = r.due /\ s.refused = r.refused /\ s.unready = r.unready
    BY <1>0, OfCommand DEF AuthFields
  <1>3. /\ CallTyped(Pushed(c)) /\ Pushed(c).on = "due" /\ Pushed(c).job = "push" /\ Pushed(c).nth = r.minted
    BY <1>1 DEF Pushed, NoCall, CallTyped, AuthJobs, CmdTyped
  <1>4. /\ DOMAIN calls = Nick
        /\ \A n \in Nick : IF n \in r.left THEN calls[n] = Pushed(c) ELSE calls[n] = r.call[n] /\ calls[n].on = "idle"
    BY <1>0, <1>1 DEF CallsFit
  <1> HIDE DEF s, calls
  <1>5. CmdTyped(s, token)
    <2>1. \A n \in Nick : CallTyped(s.call[n])
      BY <1>1, <1>2, <1>3, <1>4 DEF CmdTyped
    <2> QED
      BY <1>1, <1>2, <1>4, <2>1 DEF CmdTyped, AuthStages
  <1>6. CallsFit(s)
    BY <1>1, <1>2, <1>3, <1>4 DEF CallsFit
  <1>7. KindsFit(c, s, appliers)
    BY <1>0, <1>1, <1>2 DEF KindsFit
  <1>8. UpKnows(c, s, appliers)
    BY <1>0, <1>1, <1>2 DEF UpKnows, Minting
  <1>9. RowsTrue(s, nodeHeld, putBack)
    BY <1>0, <1>1, <1>2, <1>3, <1>4 DEF RowsTrue, Holds, Minting
  <1>10. DueAlone(c, s, appliers)
    <2> SUFFICES ASSUME NEW n \in Nick, s.call[n].on = "due", NEW a \in appliers, a.by = c, a.on = n
                 PROVE  r.kind = "up"
      BY <1>2, <1>3, <1>4 DEF DueAlone
    <2>1. n \in r.left /\ r.kind \in AuthKinds
      BY <1>1, <1>2, <1>4 DEF CmdTyped
    <2> QED
      BY <1>0, <1>1, <2>1 DEF KindsFit, CallsFit, AuthKinds
  <1> QED
    BY <1>0, <1>2, <1>5, <1>6, <1>7, <1>8, <1>9, <1>10, AlterSafe

LEMMA RowsSafe ==
  ASSUME AuthInv, NEW c \in Asker, NEW n \in Nick, Rows(c, n)
  PROVE  AuthInv'
  <1> DEFINE r == authCmd[c]
  <1>0. r.at = "push" /\ r.call[n].on \in {"back", "lost", "unreached"} /\ FileSame /\ NodesSame
    BY DEF Rows, AuthAt
  <1>1. PICK word \in {"not reached", "in place", "did not land"} :
          /\ Alter(c, [r EXCEPT !.call[n] = NoCall, !.said[n] = word])
          /\ word = "in place" => r.call[n].on = "back" /\ r.call[n].got = "did"
    BY DEF Rows, Landed
  <1> DEFINE s == [r EXCEPT !.call[n] = NoCall, !.said[n] = word]
  <1>2. /\ CmdTyped(r, token) /\ CallsFit(r) /\ KindsFit(c, r, appliers) /\ RowsTrue(r, nodeHeld, putBack)
        /\ DueAlone(c, r, appliers) /\ UpKnows(c, r, appliers)
    BY OfCommand DEF CmdOk
  <1>3. /\ DOMAIN s = AuthFields /\ s.at = r.at /\ s.left = r.left /\ s.call = [r.call EXCEPT ![n] = NoCall]
        /\ s.kind = r.kind /\ s.node = r.node /\ s.minted = r.minted /\ s.said = [r.said EXCEPT ![n] = word]
        /\ s.known = r.known /\ s.due = r.due /\ s.refused = r.refused /\ s.unready = r.unready /\ Alter(c, s)
    BY <1>1, OfCommand DEF AuthFields
  <1>4. CallTyped(NoCall) /\ NoCall.on = "idle"
    BY DEF NoCall, CallTyped, AuthJobs
  <1> HIDE DEF s
  <1>5. /\ DOMAIN s.call = Nick /\ s.call[n] = NoCall /\ \A m \in Nick \ {n} : s.call[m] = r.call[m]
        /\ DOMAIN s.said = Nick /\ s.said[n] = word /\ \A m \in Nick \ {n} : s.said[m] = r.said[m]
    BY <1>2, <1>3 DEF CmdTyped
  <1>6. CmdTyped(s, token)
    <2>1. \A m \in Nick : CallTyped(s.call[m])
      BY <1>2, <1>4, <1>5 DEF CmdTyped
    <2> QED
      BY <1>2, <1>3, <1>5, <2>1 DEF CmdTyped
  <1>7. CallsFit(s)
    <2>1. \A m \in Nick : s.call[m].on # "idle" => s.call[m] = r.call[m] /\ r.call[m].on # "idle"
      BY <1>4, <1>5
    <2>2. r.left = {}
      BY <1>0, <1>2 DEF CallsFit
    <2> QED
      BY <1>0, <1>2, <1>3, <2>1, <2>2 DEF CallsFit
  <1>8. KindsFit(c, s, appliers) /\ UpKnows(c, s, appliers)
    BY <1>0, <1>2, <1>3 DEF KindsFit, UpKnows, Minting
  <1>9. DueAlone(c, s, appliers)
    BY <1>2, <1>3, <1>4, <1>5, ZenonT(60) DEF DueAlone
  <1>10. word = "in place" => Holds(r, n, nodeHeld, putBack)
    BY <1>0, <1>1, <1>2 DEF RowsTrue, CallsFit
  <1>11. RowsTrue(s, nodeHeld, putBack)
    BY <1>0, <1>2, <1>3, <1>4, <1>5, <1>10, ZenonT(60) DEF RowsTrue, Holds, Minting
  <1> QED
    BY <1>0, <1>3, <1>6, <1>7, <1>8, <1>9, <1>11, AlterSafe

LEMMA PushEndsSafe ==
  ASSUME AuthInv, NEW c \in Asker, PushEnds(c)
  PROVE  AuthInv'
  <1>1. /\ authCmd[c].at = "push" /\ \A n \in Nick : authCmd[c].call[n].on = "idle"
    BY DEF PushEnds, AuthAt
  <1>2. FileSame /\ NodesSame /\ AuthGoes(c, IF authCmd[c].kind = "up" THEN "gate" ELSE "end")
    BY DEF PushEnds
  <1>3. CASE authCmd[c].kind = "up"
    <2>1. AuthGoes(c, "gate")
      BY <1>2, <1>3
    <2> QED
      BY <1>1, <1>2, <1>3, <2>1, GoesSafe
  <1>4. CASE authCmd[c].kind # "up"
    <2>1. AuthGoes(c, "end")
      BY <1>2, <1>4
    <2> QED
      BY <1>1, <1>2, <2>1, GoesSafe
  <1> QED
    BY <1>3, <1>4

LEMMA OffersSafe ==
  ASSUME AuthInv, NEW c \in Asker, NEW n \in Nick, Offers(c, n)
  PROVE  AuthInv'
  <1> DEFINE r == authCmd[c]
  <1>0. r.at = "gate" /\ FileSame /\ NodesSame /\ n \notin r.refused /\ r.unready[n] # "ready"
    BY DEF Offers, AuthAt, Unasked
  <1>1. /\ CmdTyped(r, token) /\ CallsFit(r) /\ KindsFit(c, r, appliers) /\ RowsTrue(r, nodeHeld, putBack)
        /\ DueAlone(c, r, appliers) /\ UpKnows(c, r, appliers)
    BY OfCommand DEF CmdOk
  <1>2. r.kind = "up"
    BY <1>0, <1>1 DEF KindsFit, CmdTyped, AuthKinds
  <1>3. CASE Alter(c, [Ensures(c, FALSE) EXCEPT !.node = n])
    <2> DEFINE e == Ensures(c, FALSE)
               s == [e EXCEPT !.node = n]
    <2>1. /\ DOMAIN e = AuthFields /\ e.at = "ensure" /\ e.kind = r.kind /\ e.minted = 0
          /\ e.left = r.left /\ e.node = r.node /\ e.refused = r.refused
          /\ e.unready = r.unready /\ e.call = r.call /\ e.said = NoRows
          /\ e.known = r.known /\ e.due = r.due
      BY EnsuresRecord
    <2> HIDE DEF e
    <2>2. /\ DOMAIN s = AuthFields /\ s.at = "ensure" /\ s.kind = r.kind /\ s.minted = 0
          /\ s.left = r.left /\ s.node = n /\ s.refused = r.refused
          /\ s.unready = r.unready /\ s.call = r.call /\ s.said = NoRows
          /\ s.known = r.known /\ s.due = r.due
      BY <2>1 DEF AuthFields
    <2>3. Alter(c, s)
      BY <1>3 DEF e
    <2> HIDE DEF s
    <2> QED
      BY <1>0, <1>2, <2>2, <2>3, BeginsMint
  <1>4. CASE Alter(c, [r EXCEPT !.at = "hop", !.minted = 0, !.node = n])
    <2> DEFINE s == [r EXCEPT !.at = "hop", !.minted = 0, !.node = n]
    <2>1. /\ DOMAIN s = AuthFields /\ s.at = "hop" /\ s.left = r.left /\ s.call = r.call
          /\ s.kind = r.kind /\ s.node = n /\ s.minted = 0 /\ s.said = r.said
          /\ s.known = r.known /\ s.due = r.due /\ s.refused = r.refused /\ s.unready = r.unready /\ Alter(c, s)
      BY <1>4, OfCommand DEF AuthFields
    <2> HIDE DEF s
    <2>2. CmdTyped(s, token)
      <3>1. s.minted \in Nat /\ s.minted <= token
        BY <2>1, OfCommand
      <3> QED
        BY <1>1, <2>1, <3>1 DEF CmdTyped, AuthStages
    <2>3. CallsFit(s) /\ KindsFit(c, s, appliers)
      BY <1>0, <1>1, <1>2, <2>1 DEF CallsFit, KindsFit
    <2>4. UpKnows(c, s, appliers)
      BY <1>0, <1>1, <1>2, <2>1 DEF UpKnows, Minting
    <2>5. DueAlone(c, s, appliers)
      BY <1>1, <2>1 DEF DueAlone
    <2>6. RowsTrue(s, nodeHeld, putBack)
      <3>1. \A m \in Nick : Holds(s, m, nodeHeld, putBack)
        BY <2>1, OfCommand DEF Holds
      <3> QED
        BY <1>0, <2>1, <3>1 DEF RowsTrue, Minting
    <2> QED
      BY <1>0, <2>1, <2>2, <2>3, <2>4, <2>5, <2>6, AlterSafe
  <1>5. CASE Alter(c, [r EXCEPT !.refused = @ \cup {n}])
    <2> DEFINE s == [r EXCEPT !.refused = @ \cup {n}]
    <2>1. /\ DOMAIN s = AuthFields /\ s.at = "gate" /\ s.left = r.left /\ s.call = r.call
          /\ s.kind = r.kind /\ s.node = r.node /\ s.minted = r.minted /\ s.said = r.said
          /\ s.known = r.known /\ s.due = r.due /\ s.refused = r.refused \cup {n} /\ s.unready = r.unready /\ Alter(c, s)
      BY <1>0, <1>5, OfCommand DEF AuthFields
    <2> HIDE DEF s
    <2>2. CmdTyped(s, token)
      BY <1>1, <2>1 DEF CmdTyped, AuthStages
    <2>3. CallsFit(s) /\ KindsFit(c, s, appliers)
      BY <1>0, <1>1, <1>2, <2>1 DEF CallsFit, KindsFit
    <2>4. UpKnows(c, s, appliers)
      BY <1>0, <1>1, <1>2, <2>1 DEF UpKnows, Minting
    <2>5. DueAlone(c, s, appliers) /\ RowsTrue(s, nodeHeld, putBack)
      BY <1>0, <1>1, <2>1, ZenonT(60) DEF DueAlone, RowsTrue, CallsFit, Holds, Minting
    <2> QED
      BY <1>0, <2>1, <2>2, <2>3, <2>4, <2>5, AlterSafe
  <1> QED
    BY <1>3, <1>4, <1>5, Zenon DEF Offers

LEMMA GateSafe ==
  ASSUME AuthInv, NEW c \in Asker, Gate(c)
  PROVE  AuthInv'
  <1> DEFINE r == authCmd[c]
             due == [n \in Nick |-> IF r.unready[n] = "ready" THEN UpProjects ELSE 0]
             s == [r EXCEPT !.at = "up", !.due = due]
  <1>0. r.at = "gate" /\ FileSame /\ NodesSame /\ Alter(c, s)
    BY DEF Gate, AuthAt
  <1>1. /\ CmdTyped(r, token) /\ CallsFit(r) /\ KindsFit(c, r, appliers) /\ RowsTrue(r, nodeHeld, putBack)
        /\ DueAlone(c, r, appliers) /\ UpKnows(c, r, appliers)
    BY OfCommand DEF CmdOk
  <1>2. /\ DOMAIN s = AuthFields /\ s.at = "up" /\ s.left = r.left /\ s.call = r.call
        /\ s.kind = r.kind /\ s.node = r.node /\ s.minted = r.minted /\ s.said = r.said
        /\ s.known = r.known /\ s.due = due /\ s.refused = r.refused /\ s.unready = r.unready
    BY <1>0, OfCommand DEF AuthFields
  <1>3. DOMAIN due = Nick /\ \A n \in Nick : due[n] \in Nat /\ (due[n] > 0 => r.unready[n] = "ready")
    BY AuthAssumption
  <1> HIDE DEF s, due
  <1>4. CmdTyped(s, token)
    BY <1>1, <1>2, <1>3 DEF CmdTyped, AuthStages
  <1>5. CallsFit(s) /\ KindsFit(c, s, appliers)
    BY <1>0, <1>1, <1>2 DEF CallsFit, KindsFit
  <1>6. UpKnows(c, s, appliers)
    BY <1>0, <1>1, <1>2, <1>3 DEF UpKnows, Minting
  <1>7. DueAlone(c, s, appliers) /\ RowsTrue(s, nodeHeld, putBack)
    BY <1>0, <1>1, <1>2, ZenonT(60) DEF DueAlone, RowsTrue, CallsFit, Holds, Minting
  <1> QED
    BY <1>0, <1>2, <1>4, <1>5, <1>6, <1>7, AlterSafe

(* A project of an `up` provisions its node once for the run.              *)
LEMMA ProvisionsSafe ==
  ASSUME AuthInv, NEW c \in Asker, NEW n \in Nick, Provisions(c, n)
  PROVE  AuthInv'
  <1> DEFINE r == authCmd[c]
  <1>0. r.at = "up" /\ r.due[n] > 0 /\ FileSame /\ NodesSame
    BY DEF Provisions, AuthAt
  <1>1. /\ CmdTyped(r, token) /\ CallsFit(r) /\ KindsFit(c, r, appliers) /\ RowsTrue(r, nodeHeld, putBack)
        /\ DueAlone(c, r, appliers) /\ UpKnows(c, r, appliers)
    BY OfCommand DEF CmdOk
  <1>2. r.kind = "up"
    BY <1>0, <1>1 DEF KindsFit, CmdTyped, AuthKinds
  <1>3. CASE n \in r.known /\ Alter(c, [r EXCEPT !.due[n] = @ - 1])
    <2> DEFINE s == [r EXCEPT !.due[n] = @ - 1]
    <2>1. /\ DOMAIN s = AuthFields /\ s.at = "up" /\ s.left = r.left /\ s.call = r.call
          /\ s.kind = r.kind /\ s.node = r.node /\ s.minted = r.minted /\ s.said = r.said /\ Alter(c, s)
          /\ s.known = r.known /\ s.due = [r.due EXCEPT ![n] = @ - 1] /\ s.refused = r.refused /\ s.unready = r.unready
      BY <1>0, <1>3, OfCommand DEF AuthFields
    <2> HIDE DEF s
    <2>2. DOMAIN s.due = Nick /\ s.due[n] = r.due[n] - 1 /\ r.due[n] \in Nat /\ \A m \in Nick \ {n} : s.due[m] = r.due[m]
      BY <1>1, <2>1 DEF CmdTyped
    <2>3. CmdTyped(s, token)
      <3>1. \A m \in Nick : s.due[m] \in Nat
        BY <1>0, <1>1, <2>2 DEF CmdTyped
      <3> QED
        BY <1>1, <2>1, <2>2, <3>1 DEF CmdTyped, AuthStages
    <2>4. CallsFit(s) /\ KindsFit(c, s, appliers)
      BY <1>0, <1>1, <1>2, <1>3, <2>1, <2>2 DEF CallsFit, KindsFit
    <2>5. UpKnows(c, s, appliers)
      BY <1>0, <1>1, <1>2, <1>3, <2>1, <2>2 DEF UpKnows, Minting
    <2>6. DueAlone(c, s, appliers) /\ RowsTrue(s, nodeHeld, putBack)
      BY <1>0, <1>1, <2>1 DEF DueAlone, RowsTrue, Holds, Minting
    <2> QED
      BY <1>0, <2>1, <2>3, <2>4, <2>5, <2>6, AlterSafe
  <1>4. CASE /\ n \notin r.known /\ r.call[n].on = "idle"
             /\ Alter(c, [r EXCEPT !.call[n] = [NoCall EXCEPT !.on = "due", !.job = "project", !.nth = r.due[n]]])
    <2> DEFINE d == [NoCall EXCEPT !.on = "due", !.job = "project", !.nth = r.due[n]]
               s == [r EXCEPT !.call[n] = d]
    <2>1. CallTyped(d) /\ d.on = "due" /\ d.job = "project"
      BY <1>1 DEF CallTyped, NoCall, AuthJobs, CmdTyped
    <2>2. /\ DOMAIN s = AuthFields /\ s.at = "up" /\ s.left = r.left /\ s.call = [r.call EXCEPT ![n] = d]
          /\ s.kind = r.kind /\ s.node = r.node /\ s.minted = r.minted /\ s.said = r.said /\ Alter(c, s)
          /\ s.known = r.known /\ s.due = r.due /\ s.refused = r.refused /\ s.unready = r.unready
      BY <1>0, <1>4, OfCommand DEF AuthFields
    <2> HIDE DEF s, d
    <2>3. DOMAIN s.call = Nick /\ s.call[n] = d /\ \A m \in Nick \ {n} : s.call[m] = r.call[m]
      BY <1>1, <2>2 DEF CmdTyped
    <2>4. CmdTyped(s, token)
      <3>1. \A m \in Nick : CallTyped(s.call[m])
        BY <1>1, <2>1, <2>3 DEF CmdTyped
      <3> QED
        BY <1>1, <2>2, <2>3, <3>1 DEF CmdTyped, AuthStages
    <2>5. CallsFit(s) /\ KindsFit(c, s, appliers)
      BY <1>0, <1>1, <1>2, <1>4, <2>1, <2>2, <2>3 DEF CallsFit, KindsFit
    <2>6. NodeFree(c, n, appliers)
      BY <1>0, <1>1, <1>2, <1>4 DEF UpKnows
    <2>7. UpKnows(c, s, appliers)
      BY <1>0, <1>1, <1>2, <2>2, <2>3, <2>6 DEF UpKnows, Minting
    <2>8. DueAlone(c, s, appliers)
      BY <1>1, <1>2, <2>1, <2>2, <2>3, <2>6 DEF DueAlone, NodeFree
    <2>9. RowsTrue(s, nodeHeld, putBack)
      BY <1>0, <1>1, <2>1, <2>2, <2>3, ZenonT(60) DEF RowsTrue, Holds, Minting
    <2> QED
      BY <1>0, <2>2, <2>4, <2>5, <2>7, <2>8, <2>9, AlterSafe
  <1>5. CASE /\ r.call[n].on \in {"back", "lost", "unreached"}
             /\ Alter(c, [r EXCEPT !.call[n] = NoCall, !.due[n] = @ - 1,
                                   !.known = IF Recorded(r.call[n].on) THEN @ \cup {n} ELSE @])
    <2> DEFINE k == IF Recorded(r.call[n].on) THEN r.known \cup {n} ELSE r.known
               s == [r EXCEPT !.call[n] = NoCall, !.due[n] = @ - 1,
                              !.known = IF Recorded(r.call[n].on) THEN @ \cup {n} ELSE @]
    <2>1. CallTyped(NoCall) /\ NoCall.on = "idle"
      BY DEF CallTyped, NoCall, AuthJobs
    <2>2. /\ DOMAIN s = AuthFields /\ s.at = "up" /\ s.left = r.left /\ s.call = [r.call EXCEPT ![n] = NoCall]
          /\ s.kind = r.kind /\ s.node = r.node /\ s.minted = r.minted /\ s.said = r.said /\ Alter(c, s)
          /\ s.known = k /\ s.due = [r.due EXCEPT ![n] = @ - 1] /\ s.refused = r.refused /\ s.unready = r.unready
      BY <1>0, <1>5, OfCommand DEF AuthFields
    <2>3. /\ k = r.known \cup {n} \/ k = r.known
          /\ k = r.known \cup {n} \/ r.call[n].on = "unreached"
      BY <1>5 DEF Recorded
    <2> HIDE DEF s, k
    <2>4. /\ DOMAIN s.call = Nick /\ s.call[n] = NoCall /\ \A m \in Nick \ {n} : s.call[m] = r.call[m]
          /\ DOMAIN s.due = Nick /\ s.due[n] = r.due[n] - 1 /\ r.due[n] \in Nat /\ \A m \in Nick \ {n} : s.due[m] = r.due[m]
      BY <1>1, <2>2 DEF CmdTyped
    <2>5. CmdTyped(s, token)
      <3>1. \A m \in Nick : CallTyped(s.call[m]) /\ s.due[m] \in Nat
        BY <1>0, <1>1, <2>1, <2>4 DEF CmdTyped
      <3> QED
        BY <1>1, <2>2, <2>4, <3>1 DEF CmdTyped, AuthStages
    <2>6. CallsFit(s)
      BY <1>0, <1>1, <2>1, <2>2, <2>3, <2>4 DEF CallsFit
    <2>7. KindsFit(c, s, appliers)
      BY <1>0, <1>1, <1>2, <2>2 DEF KindsFit
    <2>8. UpKnows(c, s, appliers)
      <3> SUFFICES ASSUME NEW m \in Nick, s.due[m] > 0 PROVE NodeFree(c, m, appliers) \/ s.call[m].on \in {"sent", "lost"} \/ m \in k
        BY <2>2 DEF UpKnows, Minting
      <3>1. CASE m = n
        BY <3>1, <1>0, <1>1, <1>2, <2>3 DEF UpKnows
      <3>2. CASE m # n
        BY <3>2, <1>0, <1>1, <1>2, <2>3, <2>4 DEF UpKnows
      <3> QED
        BY <3>1, <3>2
    <2>9. DueAlone(c, s, appliers) /\ RowsTrue(s, nodeHeld, putBack)
      BY <1>0, <1>1, <2>1, <2>2, <2>4, ZenonT(60) DEF DueAlone, RowsTrue, Holds, Minting
    <2> QED
      BY <1>0, <2>2, <2>5, <2>6, <2>7, <2>8, <2>9, AlterSafe
  <1> QED
    BY <1>3, <1>4, <1>5, Zenon DEF Provisions

LEMMA UpEndsSafe ==
  ASSUME AuthInv, NEW c \in Asker, UpEnds(c)
  PROVE  AuthInv'
  <1>1. authCmd[c].at = "up" /\ (\A n \in Nick : authCmd[c].due[n] = 0) /\ FileSame /\ NodesSame /\ AuthGoes(c, "end")
    BY DEF UpEnds, AuthAt
  <1>2. \A n \in Nick : authCmd[c].call[n].on = "idle"
    BY <1>1, OfCommand DEF CmdOk, CallsFit
  <1> QED
    BY <1>1, <1>2, GoesSafe


(* What a command knows of its appliers holds of fewer of them.            *)
LEMMA OthersFree ==
  ASSUME NEW c, NEW r, NEW tok, NEW before, NEW after, NEW inFile, NEW worse,
         CmdOk(c, r, tok, before, inFile, worse), \A a \in after : a.by = c => a \in before
  PROVE  CmdOk(c, r, tok, after, inFile, worse)
  <1>1. KindsFit(c, r, after)
    BY DEF CmdOk, KindsFit
  <1>2. \A n : NodeFree(c, n, before) => NodeFree(c, n, after)
    BY DEF NodeFree
  <1>3. UpKnows(c, r, after)
    BY <1>2 DEF CmdOk, UpKnows
  <1>4. DueAlone(c, r, after)
    BY DEF CmdOk, DueAlone
  <1> QED
    BY <1>1, <1>3, <1>4 DEF CmdOk


(* A call that is given up: its applier runs on, and the call says so.     *)
LEMMA LostSafe ==
  ASSUME AuthInv, NEW c \in Asker, NEW n \in Nick, Lost(c, n)
  PROVE  AuthInv'
  <1> DEFINE r == authCmd[c]
             call == [r.call[n] EXCEPT !.on = "lost"]
             s == [r EXCEPT !.call[n].on = "lost"]
  <1>0. r.call[n].on = "sent" /\ FileSame /\ NodesSame /\ Alter(c, s)
    BY DEF Lost
  <1>1. /\ CmdTyped(r, token) /\ CallsFit(r) /\ KindsFit(c, r, appliers) /\ RowsTrue(r, nodeHeld, putBack)
        /\ DueAlone(c, r, appliers) /\ UpKnows(c, r, appliers)
    BY OfCommand DEF CmdOk
  <1>2. CallTyped(call) /\ call.on = "lost" /\ call.job = r.call[n].job /\ call.nth = r.call[n].nth
    BY <1>1 DEF CmdTyped, CallTyped
  <1>3. /\ DOMAIN s = AuthFields /\ s.at = r.at /\ s.left = r.left /\ s.call = [r.call EXCEPT ![n] = call]
        /\ s.kind = r.kind /\ s.node = r.node /\ s.minted = r.minted /\ s.said = r.said
        /\ s.known = r.known /\ s.due = r.due /\ s.refused = r.refused /\ s.unready = r.unready
    BY OfCommand DEF AuthFields
  <1> HIDE DEF s, call
  <1>4. DOMAIN s.call = Nick /\ s.call[n] = call /\ \A m \in Nick \ {n} : s.call[m] = r.call[m]
    BY <1>1, <1>3 DEF CmdTyped
  <1>5. CmdTyped(s, token)
    <2>1. \A m \in Nick : CallTyped(s.call[m])
      BY <1>1, <1>2, <1>4 DEF CmdTyped
    <2> QED
      BY <1>1, <1>3, <1>4, <2>1 DEF CmdTyped
  <1>6. CallsFit(s)
    <2>1. \A m \in Nick : /\ s.call[m].job = r.call[m].job /\ s.call[m].nth = r.call[m].nth
                          /\ s.call[m].on = "idle" <=> r.call[m].on = "idle"
      BY <1>0, <1>2, <1>4
    <2> QED
      BY <1>1, <1>3, <2>1 DEF CallsFit, CmdTyped
  <1>7. KindsFit(c, s, appliers)
    <2>1. s.call[r.node].on = "due" => r.call[r.node].on = "due"
      BY <1>1, <1>2, <1>4 DEF CmdTyped
    <2> QED
      BY <1>1, <1>3, <2>1 DEF KindsFit
  <1>8. UpKnows(c, s, appliers)
    <2>1. \A m \in Nick : r.call[m].on \in {"sent", "lost"} => s.call[m].on \in {"sent", "lost"}
      BY <1>2, <1>4
    <2>2. r.node \in Nick
      BY <1>1 DEF CmdTyped
    <2> QED
      BY <1>1, <1>3, <2>1, <2>2 DEF UpKnows
  <1>9. DueAlone(c, s, appliers)
    <2>1. \A m \in Nick : s.call[m].on = "due" => s.call[m] = r.call[m]
      BY <1>2, <1>4
    <2> QED
      BY <1>1, <1>3, <2>1 DEF DueAlone
  <1>10. RowsTrue(s, nodeHeld, putBack)
    <2>1. \A m \in Nick : s.call[m].on = "back" => s.call[m] = r.call[m]
      BY <1>2, <1>4
    <2> QED
      BY <1>1, <1>3, <2>1 DEF RowsTrue, Holds
  <1> QED
    BY <1>0, <1>3, <1>5, <1>6, <1>7, <1>8, <1>9, <1>10, AlterSafe

(* A command that is ended leaves its appliers and takes no reply.         *)
LEMMA CommandDiesSafe ==
  ASSUME AuthInv, NEW c \in Asker, CommandDies(c)
  PROVE  AuthInv'
  <1> DEFINE r == authCmd[c]
             calls == [n \in Nick |-> NoCall]
             due == [n \in Nick |-> 0]
             s == [r EXCEPT !.at = "end", !.left = {}, !.call = calls, !.due = due]
  <1>0. FileSame /\ NodesSame /\ Alter(c, s) /\ r.at # "start"
    BY DEF CommandDies
  <1>1. CmdTyped(r, token) /\ RowsTrue(r, nodeHeld, putBack)
    BY OfCommand DEF CmdOk
  <1>2. /\ DOMAIN s = AuthFields /\ s.at = "end" /\ s.left = {} /\ s.call = calls
        /\ s.kind = r.kind /\ s.node = r.node /\ s.minted = r.minted /\ s.said = r.said
        /\ s.known = r.known /\ s.due = due /\ s.refused = r.refused /\ s.unready = r.unready
    BY OfCommand DEF AuthFields
  <1>3. /\ DOMAIN calls = Nick /\ \A n \in Nick : calls[n] = NoCall
        /\ DOMAIN due = Nick /\ \A n \in Nick : due[n] = 0
        /\ CallTyped(NoCall) /\ NoCall.on = "idle"
    BY DEF NoCall, CallTyped, AuthJobs
  <1> HIDE DEF s, calls, due
  <1>4. CmdTyped(s, token)
    BY <1>1, <1>2, <1>3 DEF CmdTyped, AuthStages
  <1>5. CallsFit(s) /\ KindsFit(c, s, appliers) /\ UpKnows(c, s, appliers) /\ DueAlone(c, s, appliers)
    BY <1>2, <1>3 DEF CallsFit, KindsFit, UpKnows, DueAlone, Minting
  <1>6. RowsTrue(s, nodeHeld, putBack)
    BY <1>1, <1>2, <1>3 DEF RowsTrue, Holds, Minting
  <1> QED
    BY <1>0, <1>2, <1>4, <1>5, <1>6, AlterSafe

(* A payload carries the token the file holds when it is packed: this      *)
(* command's mint or a later one.                                          *)
LEMMA SendsCallSafe ==
  ASSUME AuthInv, NEW c \in Asker, NEW n \in Nick, SendsCall(c, n)
  PROVE  AuthInv'
  <1> DEFINE r == authCmd[c]
             a == [by |-> c, on |-> n, ver |-> Shared, job |-> r.call[n].job, nth |-> r.call[n].nth]
  <1>0. r.call[n].on = "due" /\ FileSame /\ nodeHeld' = nodeHeld /\ putBack' = putBack
    BY DEF SendsCall
  <1>1. /\ CmdTyped(r, token) /\ CallsFit(r) /\ KindsFit(c, r, appliers) /\ RowsTrue(r, nodeHeld, putBack)
        /\ DueAlone(c, r, appliers) /\ UpKnows(c, r, appliers)
    BY OfCommand DEF CmdOk
  <1>2. token' = token /\ token \in Nat
    BY <1>0, OfCommand DEF FileSame
  <1>3. PICK on \in {"sent", "unreached"} :
          /\ Alter(c, [r EXCEPT !.call[n].on = on])
          /\ on = "sent" => appliers' = appliers \cup {a}
          /\ on = "unreached" => appliers' = appliers
    BY DEF SendsCall
  <1> DEFINE call == [r.call[n] EXCEPT !.on = on]
             s == [r EXCEPT !.call[n].on = on]
  <1>4. CallTyped(call) /\ call.on = on /\ call.job = r.call[n].job /\ call.nth = r.call[n].nth
    BY <1>1 DEF CmdTyped, CallTyped
  <1>5. /\ DOMAIN s = AuthFields /\ s.at = r.at /\ s.left = r.left /\ s.call = [r.call EXCEPT ![n] = call]
        /\ s.kind = r.kind /\ s.node = r.node /\ s.minted = r.minted /\ s.said = r.said
        /\ s.known = r.known /\ s.due = r.due /\ s.refused = r.refused /\ s.unready = r.unready
    BY OfCommand DEF AuthFields
  <1>6. Alter(c, s)
    BY <1>3
  <1> HIDE DEF s, call
  <1>7. DOMAIN s.call = Nick /\ s.call[n] = call /\ \A m \in Nick \ {n} : s.call[m] = r.call[m]
    BY <1>1, <1>5 DEF CmdTyped
  <1>8. CmdTyped(s, token)
    <2>1. \A m \in Nick : CallTyped(s.call[m])
      BY <1>1, <1>4, <1>7 DEF CmdTyped
    <2> QED
      BY <1>1, <1>5, <1>7, <2>1 DEF CmdTyped
  <1>9. \A m \in Nick : /\ s.call[m].job = r.call[m].job /\ s.call[m].nth = r.call[m].nth
                        /\ s.call[m].on = "idle" <=> r.call[m].on = "idle"
    BY <1>0, <1>4, <1>7
  <1>10. CallsFit(s)
    BY <1>1, <1>5, <1>9 DEF CallsFit, CmdTyped
  <1>11. RowsTrue(s, nodeHeld, putBack)
    <2>1. \A m \in Nick : s.call[m].on = "back" => s.call[m] = r.call[m]
      BY <1>4, <1>7
    <2> QED
      BY <1>1, <1>5, <2>1 DEF RowsTrue, Holds
  <1>12. \A m \in Nick : s.call[m].on = "due" => s.call[m] = r.call[m] /\ m # n
    BY <1>3, <1>4, <1>7
  <1>13. CASE on = "unreached"
    <2>1. KindsFit(c, s, appliers)
      BY <1>1, <1>5, <1>12 DEF KindsFit, CmdTyped
    <2>2. UpKnows(c, s, appliers)
      <3>1. \A m \in Nick : r.call[m].on \in {"sent", "lost"} => s.call[m].on \in {"sent", "lost"}
        BY <1>0, <1>7
      <3>2. r.node \in Nick
        BY <1>1 DEF CmdTyped
      <3> QED
        BY <1>1, <1>5, <3>1, <3>2 DEF UpKnows
    <2>3. DueAlone(c, s, appliers)
      BY <1>1, <1>5, <1>12 DEF DueAlone
    <2>4. NodesSame
      BY <1>0, <1>3, <1>13 DEF NodesSame
    <2> QED
      BY <1>0, <1>5, <1>6, <1>8, <1>10, <1>11, <2>1, <2>2, <2>3, <2>4, AlterSafe
  <1>14. CASE on = "sent"
    <2>0. appliers' = appliers \cup {a}
      BY <1>3, <1>14
    <2>1. /\ a.by = c /\ a.on = n /\ a.job = r.call[n].job /\ a.nth = r.call[n].nth /\ a.ver = Shared
          /\ Shared \in {0, token} /\ a \in ApplierOf
      BY <1>1, <1>2 DEF Shared, Reads, ApplierOf, CmdTyped, CallTyped
    <2>2. a.job = "push" => a.ver = 0 \/ a.ver >= a.nth
      BY <1>0, <1>1, <1>2, <2>1 DEF CallsFit, CmdTyped
    <2> HIDE DEF a
    <2>3. WorldOk /\ OneApplier /\ \A d \in Asker : CmdOk(d, authCmd[d], token, appliers, nodeHeld, putBack)
      BY DEF AuthInv
    <2>4. DOMAIN authCmd' = Asker /\ authCmd'[c] = s /\ \A d \in Asker \ {c} : authCmd'[d] = authCmd[d]
      BY <1>6, <2>3 DEF WorldOk, Alter
    <2>5. WorldOk'
      BY <1>0, <1>2, <2>0, <2>1, <2>2, <2>3, <2>4 DEF WorldOk
    <2>6. OneApplier'
      <3> SUFFICES ASSUME NEW x \in appliers', NEW y \in appliers', x.by = y.by, x.on = y.on, x # y
                   PROVE  authCmd'[x.by].kind = "up" /\ "push" \in {x.job, y.job}
        BY DEF OneApplier
      <3>1. x.by \in Asker /\ authCmd'[x.by].kind = authCmd[x.by].kind
        BY <1>5, <2>0, <2>1, <2>3, <2>4 DEF WorldOk, ApplierOf
      <3>2. CASE x \in appliers /\ y \in appliers
        BY <3>1, <3>2, <2>3 DEF OneApplier
      <3>3. CASE x = a \/ y = a
        BY <1>0, <1>1, <2>0, <2>1, <3>1, <3>3 DEF DueAlone
      <3> QED
        BY <2>0, <3>2, <3>3
    <2>7. KindsFit(c, s, appliers')
      <3>1. /\ r.node \in Nick /\ r.at \in {"own", "push", "up"} /\ r.kind \in {"refresh", "look", "setup", "up", "none"}
            /\ (r.at = "own" => n = r.node) /\ (r.at = "push" => r.left = {})
        BY <1>0, <1>1 DEF CmdTyped, CallsFit, AuthKinds
      <3>2. r.at = "own" => s.call[r.node].on # "due"
        BY <1>12, <3>1
      <3>3. \A x \in appliers' : x \in appliers \/ (x.by = c /\ x.on = n)
        BY <2>0, <2>1
      <3> QED
        BY <1>1, <1>5, <3>1, <3>2, <3>3 DEF KindsFit
    <2>8. UpKnows(c, s, appliers')
      <3> SUFFICES ASSUME r.kind = "up" PROVE UpKnows(c, s, appliers')
        BY <1>5 DEF UpKnows
      <3>1. \A m \in Nick \ {n} : NodeFree(c, m, appliers) => NodeFree(c, m, appliers')
        BY <2>0, <2>1 DEF NodeFree
      <3>2. a.job = "push" => (NodeFree(c, n, appliers) => NodeFree(c, n, appliers'))
        BY <2>0, <2>1 DEF NodeFree
      <3>3. s.call[n].on = "sent" /\ \A m \in Nick \ {n} : s.call[m] = r.call[m]
        BY <1>4, <1>7, <1>14
      <3>4. r.node \in Nick /\ (r.at = "own" => n = r.node) /\ r.at \in {"own", "push", "up"} /\ (r.at = "push" => a.job = "push")
        BY <1>0, <1>1, <2>1 DEF CmdTyped, CallsFit
      <3> QED
        BY <1>1, <1>5, <3>1, <3>2, <3>3, <3>4 DEF UpKnows, Minting
    <2>9. DueAlone(c, s, appliers')
      BY <1>1, <1>5, <1>12, <2>0, <2>1 DEF DueAlone
    <2>10. CmdOk(c, s, token, appliers', nodeHeld, putBack)
      BY <1>8, <1>10, <1>11, <2>7, <2>8, <2>9 DEF CmdOk
    <2>11. ASSUME NEW d \in Asker, d # c PROVE CmdOk(d, authCmd[d], token, appliers', nodeHeld, putBack)
      <3>1. CmdOk(d, authCmd[d], token, appliers, nodeHeld, putBack)
        BY <2>3
      <3>2. \A x \in appliers' : x.by = d => x \in appliers
        BY <2>0, <2>1, <2>11
      <3> QED
        BY <3>1, <3>2, OthersFree
    <2> QED
      BY <1>0, <1>2, <2>4, <2>5, <2>6, <2>10, <2>11 DEF AuthInv
  <1> QED
    BY <1>13, <1>14

(* The node's token never gets older but by a provision that put it back.  *)
LEMMA AppliesSafe ==
  ASSUME AuthInv, NEW a \in appliers, Applies(a)
  PROVE  AuthInv'
  <1> DEFINE c == a.by
             n == a.on
             r == authCmd[c]
  <1>0. WorldOk /\ OneApplier /\ \A d \in Asker : CmdOk(d, authCmd[d], token, appliers, nodeHeld, putBack)
    BY DEF AuthInv
  <1>1. a \in ApplierOf /\ c \in Asker /\ n \in Nick /\ a.ver \in Nat /\ token' = token /\ appliers' = appliers \ {a}
    BY <1>0 DEF WorldOk, ApplierOf, Applies, FileSame
  <1>2. PICK got \in {"norow", IF a.ver = 0 THEN "warn" ELSE "did"} :
       /\ nodeHeld' = IF got = "did" THEN [nodeHeld EXCEPT ![n] = a.ver] ELSE nodeHeld
       /\ putBack' = IF got = "did" /\ a.ver < nodeHeld[n] THEN putBack \cup {n} ELSE putBack
       /\ Alter(c, IF AwaitsReply(authCmd[c].call[n], a)
                   THEN [authCmd[c] EXCEPT !.call[n].on = "back", !.call[n].got = got] ELSE authCmd[c])
    BY Zenon DEF Applies
  <1>3. /\ DOMAIN nodeHeld' = Nick /\ \A m \in Nick : nodeHeld'[m] \in Nat
        /\ \A m \in Nick : nodeHeld'[m] >= nodeHeld[m] \/ m \in putBack'
        /\ putBack \subseteq putBack' /\ (got = "did" => nodeHeld'[n] = a.ver /\ a.ver # 0)
    BY <1>0, <1>1, <1>2 DEF WorldOk
  <1>4. \A d \in Asker : CmdOk(d, authCmd[d], token, appliers', nodeHeld', putBack')
    <2> SUFFICES ASSUME NEW d \in Asker PROVE CmdOk(d, authCmd[d], token, appliers', nodeHeld', putBack')
      OBVIOUS
    <2>1. CmdOk(d, authCmd[d], token, appliers, nodeHeld, putBack)
      BY <1>0
    <2>2. CmdOk(d, authCmd[d], token, appliers', nodeHeld, putBack)
      BY <1>1, <2>1, OthersFree
    <2>3. authCmd[d].minted \in Nat /\ \A m \in Nick : nodeHeld[m] \in Nat
      BY <1>0, <2>1 DEF CmdOk, CmdTyped, WorldOk
    <2>4. \A m \in Nick : Holds(authCmd[d], m, nodeHeld, putBack) => Holds(authCmd[d], m, nodeHeld', putBack')
      <3> SUFFICES ASSUME NEW m \in Nick, nodeHeld[m] >= authCmd[d].minted \/ m \in putBack
                   PROVE  nodeHeld'[m] >= authCmd[d].minted \/ m \in putBack'
        BY DEF Holds
      <3> QED
        BY <1>3, <2>3
    <2>5. RowsTrue(authCmd[d], nodeHeld', putBack')
      BY <2>1, <2>4 DEF CmdOk, RowsTrue
    <2> QED
      BY <2>2, <2>5 DEF CmdOk
  <1>5. CASE ~AwaitsReply(r.call[n], a)
    <2>0. authCmd' = [authCmd EXCEPT ![c] = r]
      BY <1>2, <1>5 DEF Alter
    <2>1. DOMAIN authCmd' = Asker /\ \A d \in Asker : authCmd'[d] = authCmd[d]
      BY <1>0, <1>1, <2>0 DEF WorldOk
    <2>2. WorldOk' /\ OneApplier'
      BY <1>0, <1>1, <1>3, <2>1 DEF WorldOk, OneApplier, ApplierOf
    <2> QED
      BY <1>1, <1>4, <2>1, <2>2 DEF AuthInv
  <1>6. CASE AwaitsReply(r.call[n], a)
    <2> DEFINE call == [r.call[n] EXCEPT !.on = "back", !.got = got]
               s == [r EXCEPT !.call[n].on = "back", !.call[n].got = got]
    <2>0. r.call[n].on = "sent" /\ r.call[n].job = a.job /\ r.call[n].nth = a.nth
      BY <1>6 DEF AwaitsReply
    <2>1. /\ CmdTyped(r, token) /\ CallsFit(r) /\ KindsFit(c, r, appliers') /\ RowsTrue(r, nodeHeld', putBack')
          /\ DueAlone(c, r, appliers') /\ UpKnows(c, r, appliers') /\ DOMAIN r = AuthFields
      BY <1>1, <1>4 DEF CmdOk, CmdTyped
    <2>2. /\ CallTyped(call) /\ call.on = "back" /\ call.got = got /\ call.job = r.call[n].job /\ call.nth = r.call[n].nth
      BY <1>1, <2>1 DEF CmdTyped, CallTyped
    <2>3. /\ DOMAIN s = AuthFields /\ s.at = r.at /\ s.left = r.left /\ s.call = [r.call EXCEPT ![n] = call]
          /\ s.kind = r.kind /\ s.node = r.node /\ s.minted = r.minted /\ s.said = r.said
          /\ s.known = r.known /\ s.due = r.due /\ s.refused = r.refused /\ s.unready = r.unready
      BY <1>1, <2>1 DEF AuthFields, CmdTyped, CallTyped
    <2>4. Alter(c, s)
      BY <1>2, <1>6
    <2> HIDE DEF s, call
    <2>5. DOMAIN s.call = Nick /\ s.call[n] = call /\ \A m \in Nick \ {n} : s.call[m] = r.call[m]
      BY <1>1, <2>1, <2>3 DEF CmdTyped
    <2>6. \A m \in Nick : /\ s.call[m].job = r.call[m].job /\ s.call[m].nth = r.call[m].nth
                          /\ s.call[m].on = "idle" <=> r.call[m].on = "idle"
                          /\ s.call[m].on = "due" => s.call[m] = r.call[m]
      BY <2>0, <2>2, <2>5
    <2>7. CmdTyped(s, token)
      <3>1. \A m \in Nick : CallTyped(s.call[m])
        BY <2>1, <2>2, <2>5 DEF CmdTyped
      <3> QED
        BY <2>1, <2>3, <2>5, <3>1 DEF CmdTyped
    <2>8. CallsFit(s)
      <3>1. r.node \in Nick /\ \A m \in Nick : /\ s.call[m].on = "idle" <=> r.call[m].on = "idle"
                                             /\ s.call[m].job = r.call[m].job /\ s.call[m].nth = r.call[m].nth
        BY <2>1, <2>6 DEF CmdTyped
      <3> QED
        BY <2>1, <2>3, <3>1, ZenonT(60) DEF CallsFit
    <2>81. DueAlone(c, s, appliers')
      BY <2>1, <2>3, <2>6 DEF DueAlone
    <2>9. KindsFit(c, s, appliers')
      <3>1. r.kind = "setup" /\ r.at = "own" => r.node \in Nick /\ (s.call[r.node].on = "due" => r.call[r.node].on = "due")
        BY <2>1, <2>6 DEF CmdTyped
      <3> QED
        BY <2>1, <2>3, <3>1, ZenonT(60) DEF KindsFit
    <2>10. a.job # "push" => NodeFree(c, n, appliers')
      BY <1>0, <1>1 DEF OneApplier, NodeFree
    <2>11. UpKnows(c, s, appliers')
      <3>1. r.node \in Nick /\ (r.at = "own" => n = r.node) /\ r.at \in {"own", "push", "up"} /\ (r.at # "push" => a.job # "push")
        BY <2>0, <2>1, <1>1 DEF CmdTyped, CallsFit
      <3> QED
        BY <2>1, <2>3, <2>5, <2>10, <3>1, ZenonT(60) DEF UpKnows, Minting
    <2>12. got = "did" /\ a.job = "push" => Holds(r, n, nodeHeld', putBack')
      <3> SUFFICES ASSUME got = "did", a.job = "push" PROVE a.ver >= r.minted
        BY <1>3, <2>1 DEF Holds
      <3>1. r.at = "push" /\ a.nth = r.minted
        BY <1>1, <2>0, <2>1 DEF CallsFit
      <3> QED
        BY <1>0, <1>3, <3>1 DEF WorldOk
    <2>13. RowsTrue(s, nodeHeld', putBack')
      <3>1. \A m \in Nick : Holds(s, m, nodeHeld', putBack') <=> Holds(r, m, nodeHeld', putBack')
        BY <2>3 DEF Holds
      <3>2. \A m \in Nick : s.call[m].on = "back" /\ s.call[m].job = "push" /\ s.call[m].got = "did"
                            => Holds(r, m, nodeHeld', putBack')
        BY <2>0, <2>1, <2>2, <2>5, <2>12 DEF RowsTrue
      <3> QED
        BY <2>1, <2>3, <3>1, <3>2 DEF RowsTrue
    <2>14. CmdOk(c, s, token, appliers', nodeHeld', putBack')
      BY <2>7, <2>8, <2>81, <2>9, <2>11, <2>13 DEF CmdOk
    <2>15. DOMAIN authCmd' = Asker /\ authCmd'[c] = s /\ \A d \in Asker \ {c} : authCmd'[d] = authCmd[d]
      BY <1>0, <1>1, <2>4 DEF WorldOk, Alter
    <2>16. WorldOk'
      BY <1>0, <1>1, <1>3, <2>15 DEF WorldOk
    <2>17. OneApplier'
      BY <1>0, <1>1, <2>3, <2>15 DEF OneApplier, WorldOk, ApplierOf
    <2> QED
      BY <1>1, <1>4, <2>14, <2>15, <2>16, <2>17 DEF AuthInv
  <1> QED
    BY <1>5, <1>6


LEMMA AuthInitInv == SignInInit => AuthInv
  <1> SUFFICES ASSUME SignInInit PROVE AuthInv
    OBVIOUS
  <1>1. PICK w \in AuthSetups : SignInStart(w)
    BY DEF SignInInit
  <1>2. /\ w.kind \in [Asker -> AuthKinds] /\ w.node \in Nick /\ w.token \in Nat /\ w.held \in [Nick -> Nat]
    BY AuthAssumption DEF AuthKinds
  <1>3. /\ token = w.token /\ nodeHeld = w.held /\ appliers = {} /\ DOMAIN authCmd = Asker
    BY <1>1 DEF SignInStart
  <1>4. ASSUME NEW c \in Asker PROVE CmdOk(c, authCmd[c], token, appliers, nodeHeld, putBack)
    <2> DEFINE r == authCmd[c]
    <2>1. /\ DOMAIN r = AuthFields /\ r.kind = w.kind[c] /\ r.node = w.node
          /\ r.at = IF w.kind[c] = "none" THEN "end" ELSE "start"
      BY <1>1 DEF SignInStart, AuthFields
    <2>2. r.minted = 0 /\ r.left = {} /\ r.refused = {} /\ r.known = {} /\ r.said = NoRows
      BY <1>1 DEF SignInStart
    <2>3. /\ r.unready = [n \in Nick |-> "ready"] /\ r.call = [n \in Nick |-> NoCall] /\ r.due = [n \in Nick |-> 0]
      BY <1>1 DEF SignInStart
    <2> HIDE DEF r
    <2>4. /\ CallTyped(NoCall) /\ NoCall.on = "idle" /\ DOMAIN NoRows = Nick /\ \A n \in Nick : NoRows[n] = "no row"
      BY DEF NoCall, CallTyped, AuthJobs, NoRows
    <2>5. /\ DOMAIN r.unready = Nick /\ DOMAIN r.call = Nick /\ DOMAIN r.due = Nick
          /\ \A n \in Nick : r.call[n] = NoCall /\ r.due[n] = 0
      BY <2>3
    <2>6. r.kind \in AuthKinds /\ r.node \in Nick
      BY <1>2, <2>1
    <2>7. CmdTyped(r, token)
      <3>1. r.minted \in Nat /\ r.minted <= token
        BY <1>2, <1>3, <2>2
      <3>2. DOMAIN r.said = Nick
        BY <2>2, <2>4
      <3>3. \A n \in Nick : CallTyped(r.call[n]) /\ r.due[n] \in Nat
        <4>1. \A n \in Nick : r.due[n] \in Nat
          BY <2>5
        <4> QED
          BY <2>4, <2>5, <4>1, Zenon
      <3>4. r.at \in AuthStages /\ r.left \subseteq Nick /\ r.refused \subseteq Nick
        BY <2>1, <2>2 DEF AuthStages
      <3> QED
        BY <2>1, <2>5, <2>6, <3>1, <3>2, <3>3, <3>4 DEF CmdTyped
    <2>8. CallsFit(r) /\ DueAlone(c, r, appliers)
      BY <2>1, <2>4, <2>5 DEF CallsFit, DueAlone
    <2>9. KindsFit(c, r, appliers) /\ UpKnows(c, r, appliers)
      BY <1>3, <2>1 DEF KindsFit, UpKnows, NodeFree, Minting
    <2>10. RowsTrue(r, nodeHeld, putBack)
      BY <2>1, <2>2, <2>4, <2>5 DEF RowsTrue, Minting
    <2> QED
      BY <2>7, <2>8, <2>9, <2>10 DEF CmdOk, r
  <1>5. WorldOk /\ OneApplier
    BY <1>2, <1>3 DEF WorldOk, OneApplier
  <1> QED
    BY <1>4, <1>5 DEF AuthInv

LEMMA OutsideSafe ==
  ASSUME AuthInv, token' = token, UNCHANGED <<nodeHeld, putBack, appliers, authCmd>>
  PROVE  AuthInv'
  BY DEF AuthInv, WorldOk, OneApplier

LEMMA SignInStepSafe == AuthInv /\ [SignInNext]_authvars => AuthInv'
  <1> SUFFICES ASSUME AuthInv, [SignInNext]_authvars PROVE AuthInv'
    OBVIOUS
  <1>1. CASE Wears \/ Meddles \/ AuthRests \/ UNCHANGED authvars
    <2>1. token' = token /\ UNCHANGED <<nodeHeld, putBack, appliers, authCmd>>
      BY <1>1, Zenon DEF Wears, Meddles, AuthRests, NodesSame, authvars
    <2> QED
      BY <2>1, OutsideSafe
  <1>2. ASSUME NEW a \in appliers, Applies(a) PROVE AuthInv'
    BY <1>2, AppliesSafe
  <1>3. ASSUME NEW c \in Asker,
               \/ Refresh(c) \/ Look(c) \/ SetsUp(c) \/ RunsUp(c) \/ CommandDies(c)
               \/ Ensure(c) \/ Mint(c) \/ Temp(c) \/ Replace(c) \/ Hop(c) \/ LooksAtToken(c) \/ Row(c) \/ Own(c)
               \/ Pushes(c) \/ PushEnds(c) \/ Gate(c) \/ UpEnds(c)
        PROVE  AuthInv'
    BY <1>3, StartSafe, RunsUpSafe, CommandDiesSafe, MintSafe, ReplaceSafe, HopSafe, HealthSafe, RowSafe, OwnSafe,
       PushesSafe, PushEndsSafe, GateSafe, UpEndsSafe
  <1>4. ASSUME NEW c \in Asker, NEW n \in Nick,
               Rows(c, n) \/ Offers(c, n) \/ Provisions(c, n) \/ SendsCall(c, n) \/ Lost(c, n)
        PROVE  AuthInv'
    BY <1>4, RowsSafe, OffersSafe, ProvisionsSafe, SendsCallSafe, LostSafe
  <1> QED
    BY <1>1, <1>2, <1>3, <1>4, Zenon DEF SignInNext

(* Only a mint put in place changes the token, to a later one, and trusts  *)
(* the file again; only something outside makes it untrusted.              *)
LEMMA FileStep ==
  ASSUME AuthInv, [SignInNext]_authvars
  PROVE  [(token' # token => token' > token /\ ~bad') /\ (bad' # bad => ~bad' \/ authCmd' = authCmd)]_authvars
  <1>1. CASE Wears \/ Meddles \/ AuthRests \/ UNCHANGED authvars
    BY <1>1, Zenon DEF Wears, Meddles, AuthRests, NodesSame, authvars
  <1>2. ASSUME FileSame PROVE token' = token /\ bad' = bad
    BY <1>2 DEF FileSame
  <1>3. ASSUME NEW c \in Asker, Replace(c)
        PROVE  (token' # token => token' > token /\ ~bad') /\ (bad' # bad => ~bad')
    <2>1. token \in Nat
      BY DEF AuthInv, WorldOk
    <2> QED
      BY <1>3, <2>1 DEF Replace
  <1>4. ASSUME NEW a \in appliers, Applies(a) PROVE FileSame
    BY <1>4, Zenon DEF Applies
  <1>5. ASSUME NEW c \in Asker,
               \/ Refresh(c) \/ Look(c) \/ SetsUp(c) \/ RunsUp(c) \/ CommandDies(c)
               \/ Ensure(c) \/ Mint(c) \/ Temp(c) \/ Hop(c) \/ LooksAtToken(c) \/ Row(c) \/ Own(c)
               \/ Pushes(c) \/ PushEnds(c) \/ Gate(c) \/ UpEnds(c)
        PROVE  FileSame
    BY <1>5, Zenon DEF Refresh, Look, SetsUp, RunsUp, CommandDies, Ensure, Mint, Temp, Hop, LooksAtToken, Row, Own, Pushes,
       PushEnds, Gate, UpEnds
  <1>6. ASSUME NEW c \in Asker, NEW n \in Nick,
               Rows(c, n) \/ Offers(c, n) \/ Provisions(c, n) \/ SendsCall(c, n) \/ Lost(c, n)
        PROVE  FileSame
    BY <1>6, Zenon DEF Rows, Offers, Provisions, SendsCall, Lost
  <1>7. CASE FileSame
    BY <1>2, <1>7
  <1>8. CASE \E c \in Asker : Replace(c)
    BY <1>3, <1>8
  <1> QED
    BY <1>1, <1>4, <1>5, <1>6, <1>7, <1>8, Zenon DEF SignInNext

(* SignIn.SignInIsSafe, for any number of nodes and commands, of projects  *)
(* pinned to one node and of mints.                                        *)
THEOREM SignInIsSafeHolds == SignInSpec => SignInIsSafe
  <1>1. AuthInv => InPlaceIsTrue
    BY DEF AuthInv, CmdOk, RowsTrue, Holds, InPlaceIsTrue
  <1>2. AuthInv => OneApplier
    BY DEF AuthInv
  <1> QED
    BY <1>1, <1>2, AuthInitInv, SignInStepSafe, FileStep, PTL DEF SignInSpec, SignInIsSafe, RenewalLosesNothing

=============================================================================
