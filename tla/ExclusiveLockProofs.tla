------------------------ MODULE ExclusiveLockProofs ------------------------
(***************************************************************************)
(* What TLC checks of ExclusiveLock on three contenders, proved for every  *)
(* set of contenders and inodes, every number of attempts and both         *)
(* platforms: the lock excludes, it implements Mutex, and a taker gives up *)
(* only after that many holders left.                                      *)
(***************************************************************************)
EXTENDS ExclusiveLock, TLAPS

(* The kernel lock of an inode belongs to the process that has it open in  *)
(* a locking step, and to nobody else.                                     *)
OwnerIsLocking ==
  \A p \in Proc, i \in Inode :
    owner[i] = p <=> fd[p] = i /\ pc[p] \in Locking

(* A handle is open from "lock" until it is closed.                        *)
OpenSteps == \A p \in Proc : (fd[p] \in Inode) <=> pc[p] \in Locking \cup {"lock"}

(* The holder's file is the one the path names.                            *)
HeldIsNamed == \A p \in Proc : pc[p] = "held" => path = fd[p]

(* Windows: a file that is open stays named, for it cannot be deleted.     *)
OpenIsNamed ==
  IF Win32
    THEN /\ \A p \in Proc : fd[p] \in Inode => path = fd[p]
         /\ \A p \in Proc : pc[p] \notin {"check", "stale", "drop"}
         /\ DeletePending => \A p \in Proc : fd[p] = NoFile
    ELSE \A p \in Proc : pc[p] \notin {"erase", "erasing"}

(* An acquisition still running has an attempt left.                       *)
TriesBound ==
  \A p \in Proc : pc[p] \in {"open", "lock", "check", "stale"} => tries[p] < Attempts

IInv == TypeOK /\ OwnerIsLocking /\ OpenSteps /\ HeldIsNamed /\ OpenIsNamed
          /\ TriesBound

USE ProcAssumption, InodeAssumption, AttemptsAssumption, PlatformsAssumption

(* The empty lock satisfies the invariant. *)
LEMMA InitIInv == Init => IInv
  BY DEF Init, IInv, TypeOK, OwnerIsLocking, OpenSteps, HeldIsNamed, OpenIsNamed,
         TriesBound, Steps, Locking, DeletePending

(* Every step of the lock preserves the invariant. *)
LEMMA NextIInv == IInv /\ [Next]_vars => IInv'
<1> SUFFICES ASSUME IInv, [Next]_vars PROVE IInv'
  OBVIOUS
<1> USE DEF IInv, TypeOK, OwnerIsLocking, OpenSteps, HeldIsNamed, OpenIsNamed,
            TriesBound, Steps, Locking, DeletePending, IsOpen, Goto, CloseFile, Win32
<1>1. ASSUME NEW p \in Proc, Begin(p) PROVE IInv'
  BY <1>1 DEF Begin
<1>2. ASSUME NEW p \in Proc, Open(p) PROVE IInv'
  BY <1>2 DEF Open
<1>3. ASSUME NEW p \in Proc, OpenRefused(p) PROVE IInv'
  BY <1>3 DEF OpenRefused
<1>4. ASSUME NEW p \in Proc, Lock(p) PROVE IInv'
  BY <1>4 DEF Lock
<1>5. ASSUME NEW p \in Proc, LockRefused(p) PROVE IInv'
  BY <1>5 DEF LockRefused
<1>6. ASSUME NEW p \in Proc, Check(p) PROVE IInv'
  BY <1>6 DEF Check
<1>7. ASSUME NEW p \in Proc, Retry(p) PROVE IInv'
  BY <1>7 DEF Retry
<1>8. ASSUME NEW p \in Proc, Unlink(p) PROVE IInv'
  BY <1>8 DEF Unlink, Departure
<1>9. ASSUME NEW p \in Proc, LetGo(p) PROVE IInv'
  BY <1>9 DEF LetGo
<1>10. ASSUME NEW p \in Proc, CloseHeld(p) PROVE IInv'
  BY <1>10 DEF CloseHeld
<1>11. ASSUME NEW p \in Proc, Erase(p) PROVE IInv'
  BY <1>11 DEF Erase, CanErase
<1>12. ASSUME NEW p \in Proc, Erased(p) PROVE IInv'
  BY <1>12 DEF Erased
<1>13. ASSUME NEW p \in Proc, Die(p) PROVE IInv'
  BY <1>13 DEF Die
<1>14. CASE UNCHANGED vars
  BY <1>14 DEF vars
<1>15. QED
  BY <1>1, <1>2, <1>3, <1>4, <1>5, <1>6, <1>7, <1>8, <1>9, <1>10, <1>11,
     <1>12, <1>13, <1>14 DEF Next, Take, Leave

(* The strengthened invariant holds in every reachable state. *)
LEMMA InvariantIInv == Spec => []IInv
<1>1. QED
  BY InitIInv, NextIInv, PTL DEF Spec

(* Every reachable state has the shape TypeOK states (lockfile.py's pc,    *)
(* handles, kernel locks and retry count), with `tries` within             *)
(* _ACQUIRE_ATTEMPTS whatever that number is.                              *)
THEOREM TypeCorrect == Spec => []TypeOK
<1>1. IInv => TypeOK
  BY DEF IInv
<1>2. QED
  BY <1>1, InvariantIInv, PTL

LEMMA InvariantImplies == IInv => MutualExclusion /\ HolderFileIsNamed
<1>1. ASSUME IInv, NEW p \in Proc, pc[p] = "held"
      PROVE  path = fd[p] /\ path \in Inode /\ owner[path] = p
  BY <1>1 DEF IInv, TypeOK, OwnerIsLocking, OpenSteps, HeldIsNamed, Locking
<1>2. QED
  BY <1>1 DEF MutualExclusion, HolderFileIsNamed

(* No two processes are ever inside exclusive_lock's `with` block at once, *)
(* for any number of contenders, on POSIX and on Windows.                  *)
THEOREM Exclusion == Spec => []MutualExclusion
<1>1. QED
  BY InvariantImplies, InvariantIInv, PTL

(* The file the holder will delete is always its own: the path names the   *)
(* inode it has locked for as long as it is inside the `with` block.       *)
THEOREM HolderNamed == Spec => []HolderFileIsNamed
<1>1. QED
  BY InvariantImplies, InvariantIInv, PTL

-----------------------------------------------------------------------------
(***************************************************************************)
(* The lock implements Mutex.                                              *)
(***************************************************************************)

LEMMA HolderIs ==
  ASSUME MutualExclusion, NEW p \in Proc, pc[p] = "held"
  PROVE  Holder = p
BY DEF MutualExclusion, Holder

LEMMA HolderIsNobody ==
  ASSUME \A p \in Proc : pc[p] # "held"
  PROVE  Holder = NoProc
BY DEF Holder

(* A step of p that leaves every other process where it is changes the     *)
(* holder only by moving p into or out of the `with` block.                *)
LEMMA HolderStep ==
  ASSUME TypeOK, MutualExclusion, MutualExclusion', NEW p \in Proc,
         NEW s \in Steps, pc' = [pc EXCEPT ![p] = s]
  PROVE  [M!Next]_Holder
<1>1. CASE pc[p] # "held" /\ s = "held"
  <2>1. Holder' = p
    BY <1>1, HolderIs DEF TypeOK, MutualExclusion, Holder
  <2>2. \A q \in Proc : pc[q] # "held"
    BY <1>1 DEF TypeOK, MutualExclusion
  <2>3. Holder = NoProc
    BY <2>2, HolderIsNobody
  <2>4. QED
    BY <2>1, <2>3 DEF M!Next, M!Acquire
<1>2. CASE pc[p] = "held" /\ s # "held"
  <2>1. Holder = p
    BY <1>2, HolderIs
  <2>2. \A q \in Proc : pc'[q] # "held"
    BY <1>2 DEF TypeOK, MutualExclusion
  <2>3. Holder' = NoProc
    BY <2>2 DEF Holder
  <2>4. QED
    BY <2>1, <2>3 DEF M!Next, M!Release
<1>3. CASE pc[p] = "held" <=> s = "held"
  <2>1. \A q \in Proc : pc'[q] = "held" <=> pc[q] = "held"
    BY <1>3 DEF TypeOK
  <2>2. CASE \E q \in Proc : pc[q] = "held"
    <3>1. PICK q \in Proc : pc[q] = "held"
      BY <2>2
    <3>2. Holder = q
      BY <3>1, HolderIs
    <3>3. Holder' = q
      BY <3>1, <2>1 DEF MutualExclusion, Holder
    <3>4. QED
      BY <3>2, <3>3
  <2>3. CASE \A q \in Proc : pc[q] # "held"
    BY <2>1, <2>3 DEF Holder
  <2>4. QED
    BY <2>2, <2>3
<1>4. QED
  BY <1>1, <1>2, <1>3

(* exclusive_lock implements the abstract lock: whoever leaves the `with`  *)
(* block is the process that was inside, and nobody enters past it.        *)
THEOREM RefinesMutex == Spec => ImplementsMutex
<1>1. Init => M!Init
  BY HolderIsNobody DEF Init, M!Init
<1>2. IInv /\ IInv' /\ [Next]_vars => [M!Next]_Holder
  <2> SUFFICES ASSUME IInv, IInv', [Next]_vars PROVE [M!Next]_Holder
    OBVIOUS
  <2>1. TypeOK /\ MutualExclusion
    BY InvariantImplies DEF IInv
  <2>2. MutualExclusion'
    BY InvariantImplies, PTL
  <2>3. CASE \E p \in Proc, s \in Steps : Goto(p, s)
    BY <2>1, <2>2, <2>3, HolderStep DEF Goto
  <2>4. CASE UNCHANGED vars
    BY <2>4 DEF vars, Holder
  <2>5. ASSUME NEW p \in Proc, Begin(p) \/ Take(p) \/ Leave(p) \/ Die(p)
        PROVE  \E s \in Steps : Goto(p, s)
    BY <2>5 DEF Take, Leave, Begin, Open, OpenRefused, Lock, LockRefused, Check,
       Retry, Unlink, LetGo, CloseHeld, Erase, Erased, Die, Steps
  <2>6. QED
    BY <2>3, <2>4, <2>5 DEF Next
<1>3. QED
  BY <1>1, <1>2, InvariantIInv, PTL DEF Spec, ImplementsMutex, M!Spec

-----------------------------------------------------------------------------
(***************************************************************************)
(* A taker gives up honestly.  A stale file is one the path stopped naming *)
(* after this attempt opened it, so its holder left meanwhile: the count   *)
(* of departures is ahead of the retries, or about to be overtaken by none.*)
(***************************************************************************)

StaleMeansLeft ==
  ~Win32 => \A p \in Proc :
    \/ /\ pc[p] \in {"lock", "check"}
       /\ path # fd[p]
    \/ pc[p] = "stale"
    => tries[p] < left[p]

LEMMA NextHonest ==
  IInv /\ GivingUpIsHonest /\ StaleMeansLeft /\ [Next]_vars
    => GivingUpIsHonest' /\ StaleMeansLeft'
<1> SUFFICES ASSUME IInv, GivingUpIsHonest, StaleMeansLeft, [Next]_vars, ~Win32
             PROVE  GivingUpIsHonest' /\ StaleMeansLeft'
  <2>1. [Next]_vars => os' = os
    BY DEF Next, vars, Take, Leave, Begin, Open, OpenRefused, Lock, LockRefused, Check,
       Retry, Unlink, LetGo, CloseHeld, Erase, Erased, Die
  <2>2. QED
    BY <2>1 DEF GivingUpIsHonest, StaleMeansLeft, Win32
<1> USE DEF IInv, TypeOK, OpenSteps, OpenIsNamed, TriesBound, GivingUpIsHonest,
            StaleMeansLeft, Steps, Locking, IsOpen, Goto, CloseFile, Win32
<1>1. ASSUME NEW p \in Proc, Begin(p)
      PROVE  GivingUpIsHonest' /\ StaleMeansLeft'
  BY <1>1 DEF Begin
<1>2. ASSUME NEW p \in Proc, Open(p)
      PROVE  GivingUpIsHonest' /\ StaleMeansLeft'
  BY <1>2 DEF Open
<1>3. ASSUME NEW p \in Proc, OpenRefused(p) \/ Lock(p) \/ LockRefused(p)
      PROVE  GivingUpIsHonest' /\ StaleMeansLeft'
  BY <1>3 DEF OpenRefused, Lock, LockRefused
<1>4. ASSUME NEW p \in Proc, Check(p)
      PROVE  GivingUpIsHonest' /\ StaleMeansLeft'
  BY <1>4 DEF Check
<1>5. ASSUME NEW p \in Proc, Retry(p)
      PROVE  GivingUpIsHonest' /\ StaleMeansLeft'
  BY <1>5 DEF Retry
<1>6. ASSUME NEW p \in Proc, Unlink(p)
      PROVE  GivingUpIsHonest' /\ StaleMeansLeft'
  <2>1. CASE path' = NoFile /\ Departure
    BY <1>6, <2>1 DEF Unlink, Departure
  <2>2. CASE UNCHANGED <<path, left>>
    BY <1>6, <2>2 DEF Unlink
  <2>3. QED
    BY <1>6, <2>1, <2>2 DEF Unlink
<1>7. ASSUME NEW p \in Proc, LetGo(p) \/ CloseHeld(p) \/ Erase(p) \/ Erased(p)
      PROVE  GivingUpIsHonest' /\ StaleMeansLeft'
  BY <1>7 DEF LetGo, CloseHeld, Erase, Erased
<1>8. ASSUME NEW p \in Proc, Die(p)
      PROVE  GivingUpIsHonest' /\ StaleMeansLeft'
  BY <1>8 DEF Die
<1>9. CASE UNCHANGED vars
  BY <1>9 DEF vars
<1>10. QED
  BY <1>1, <1>2, <1>3, <1>4, <1>5, <1>6, <1>7, <1>8, <1>9 DEF Next, Take, Leave

(* "Each retry means a holder left mid-attempt" (lockfile.py), for every   *)
(* _ACQUIRE_ATTEMPTS and any number of contenders.                         *)
THEOREM HonestGivingUp == Spec => []GivingUpIsHonest
<1>1. Init => GivingUpIsHonest /\ StaleMeansLeft
  BY DEF Init, GivingUpIsHonest, StaleMeansLeft
<1>2. QED
  BY <1>1, NextHonest, InvariantIInv, PTL DEF Spec

(* The holder's file and an honest refusal together: what exclusive_lock   *)
(* tells a caller, with the lock and without.                              *)
THEOREM LockHonest == Spec => []LockIsHonest
  BY HolderNamed, HonestGivingUp, PTL DEF LockIsHonest
=============================================================================
