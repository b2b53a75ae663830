--------------------------- MODULE ExclusiveLock ---------------------------
(***************************************************************************)
(* magent's cross-process lock file (lockfile.py): `exclusive_lock`, which *)
(* takes ~/.magent/<name>.lock without waiting and deletes it on the way   *)
(* out.  The kernel lock lives on the INODE, the next taker opens the      *)
(* PATH, and deleting the file parts the two: every hazard of the file is  *)
(* there.  The code answers on each platform in its own way:               *)
(*                                                                         *)
(*   POSIX    the holder deletes the file before it lets the lock go, and  *)
(*            a taker that has locked an inode checks that the path still  *)
(*            names it, retrying up to `Attempts` times when it does not;  *)
(*   Windows  an open file cannot be deleted, so the holder closes first   *)
(*            and then deletes, and an open refused because the file is    *)
(*            being deleted counts as a held lock.                         *)
(***************************************************************************)
EXTENDS Naturals

CONSTANTS Proc,      \* the processes contending for one lock name
          NoProc,    \* "nobody"
          Inode,     \* files the path may come to name
          NoFile,    \* "no such file", and a handle that is closed
          Attempts,  \* _ACQUIRE_ATTEMPTS
          Platforms  \* the values sys.platform may have

ASSUME ProcAssumption == NoProc \notin Proc
ASSUME InodeAssumption == NoFile \notin Inode
ASSUME AttemptsAssumption == Attempts \in Nat \ {0}
ASSUME PlatformsAssumption == Platforms \subseteq {"posix", "win32"}

VARIABLES os,     \* the platform, which never changes
          pc,     \* where each process is in exclusive_lock
          fd,     \* the file each process has open
          owner,  \* the process that holds the kernel lock of each inode
          path,   \* the inode the lock path names
          tries,  \* attempts of _take_exclusive that ended on a stale file
          left    \* how many holders deleted the file since the call began
                  \* (a history variable, counted up to Attempts)

vars == <<os, pc, fd, owner, path, tries, left>>

Win32 == os = "win32"

Steps == {"idle", "open", "lock", "check", "stale",   \* taking
          "held", "drop",                             \* holding, letting go
          "erase", "erasing"}                         \* Windows: deleting

(* A handle that carries the kernel lock of the file it has open. *)
Locking == {"check", "stale", "held", "drop"}

TypeOK == /\ os \in Platforms
          /\ pc \in [Proc -> Steps]
          /\ fd \in [Proc -> Inode \cup {NoFile}]
          /\ owner \in [Inode -> Proc \cup {NoProc}]
          /\ path \in Inode \cup {NoFile}
          /\ tries \in [Proc -> 0..Attempts]
          /\ left \in [Proc -> 0..Attempts]

Init == /\ os \in Platforms
        /\ pc = [p \in Proc |-> "idle"]
        /\ fd = [p \in Proc |-> NoFile]
        /\ owner = [i \in Inode |-> NoProc]
        /\ path = NoFile
        /\ tries = [p \in Proc |-> 0]
        /\ left = [p \in Proc |-> 0]

IsOpen(i) == \E p \in Proc : fd[p] = i

Goto(p, step) == pc' = [pc EXCEPT ![p] = step]

(* Closing a handle drops the kernel lock it carries, if it carries one. *)
CloseFile(p) ==
  /\ fd' = [fd EXCEPT ![p] = NoFile]
  /\ owner' = [i \in Inode |-> IF owner[i] = p THEN NoProc ELSE owner[i]]

(***************************************************************************)
(* Taking the lock                                                         *)
(***************************************************************************)

Begin(p) ==
  /\ pc[p] = "idle"
  /\ Goto(p, "open")
  /\ tries' = [tries EXCEPT ![p] = 0]
  /\ left' = [left EXCEPT ![p] = 0]
  /\ UNCHANGED <<os, fd, owner, path>>

(* Windows refuses to open a file whose deletion is pending. *)
DeletePending == \E q \in Proc : pc[q] = "erasing"

Open(p) ==
  /\ pc[p] = "open"
  /\ ~DeletePending
  /\ \E i \in Inode :
       /\ IF path = NoFile THEN ~IsOpen(i) ELSE i = path
       /\ fd' = [fd EXCEPT ![p] = i]
       /\ path' = i
  /\ Goto(p, "lock")
  /\ UNCHANGED <<os, owner, tries, left>>

(* PermissionError from the open: LockHeld. *)
OpenRefused(p) ==
  /\ pc[p] = "open"
  /\ DeletePending
  /\ Goto(p, "idle")
  /\ UNCHANGED <<os, fd, owner, path, tries, left>>

(* Mutant: the handle is not at byte 0, so the two locks never meet. *)
Lock_OtherByte(p) ==
  /\ pc[p] = "lock"
  /\ owner' = [owner EXCEPT ![fd[p]] = p]
  /\ Goto(p, IF Win32 THEN "held" ELSE "check")
  /\ UNCHANGED <<os, fd, path, tries, left>>

Lock(p) ==
  /\ pc[p] = "lock"
  /\ owner[fd[p]] = NoProc
  /\ owner' = [owner EXCEPT ![fd[p]] = p]
  /\ Goto(p, IF Win32 THEN "held" ELSE "check")
  /\ UNCHANGED <<os, fd, path, tries, left>>

(* Mutant: a contender deletes the file it could not lock. *)
LockRefused_Deletes(p) ==
  /\ pc[p] = "lock"
  /\ owner[fd[p]] # NoProc
  /\ CloseFile(p)
  /\ path' = NoFile
  /\ Goto(p, "idle")
  /\ UNCHANGED <<os, tries, left>>

(* Mutant: a lock that is merely held is tried again like a stale file. *)
LockRefused_Retried(p) ==
  /\ pc[p] = "lock"
  /\ owner[fd[p]] # NoProc
  /\ CloseFile(p)
  /\ tries' = [tries EXCEPT ![p] = @ + 1]
  /\ Goto(p, IF tries[p] + 1 < Attempts THEN "open" ELSE "idle")
  /\ UNCHANGED <<os, path, left>>

LockRefused(p) ==
  /\ pc[p] = "lock"
  /\ owner[fd[p]] # NoProc
  /\ CloseFile(p)
  /\ Goto(p, "idle")
  /\ UNCHANGED <<os, path, tries, left>>

(* Mutant: the file is not compared with the path. *)
(* _still_named: does the path name the very file that was locked? *)
Check(p) ==
  /\ pc[p] = "check"
  /\ Goto(p, IF path = fd[p] THEN "held" ELSE "stale")
  /\ UNCHANGED <<os, fd, owner, path, tries, left>>

(* Mutant: one attempt too many. *)
Retry(p) ==
  /\ pc[p] = "stale"
  /\ CloseFile(p)
  /\ tries' = [tries EXCEPT ![p] = @ + 1]
  /\ Goto(p, IF tries[p] + 1 < Attempts THEN "open" ELSE "idle")
  /\ UNCHANGED <<os, path, left>>

(***************************************************************************)
(* Letting go                                                              *)
(***************************************************************************)

Departure ==
  left' = [p \in Proc |-> IF left[p] < Attempts THEN left[p] + 1 ELSE left[p]]

(* POSIX deletes first.  The deletion may fail, and the failure is         *)
(* swallowed: the file then stays for the next taker.                      *)
Unlink(p) ==
  /\ ~Win32
  /\ pc[p] = "held"
  /\ \/ path' = NoFile /\ Departure
     \/ UNCHANGED <<path, left>>
  /\ Goto(p, "drop")
  /\ UNCHANGED <<os, fd, owner, tries>>

LetGo(p) ==
  /\ pc[p] = "drop"
  /\ CloseFile(p)
  /\ Goto(p, "idle")
  /\ UNCHANGED <<os, path, tries, left>>

(* Windows closes first. *)
CloseHeld(p) ==
  /\ Win32
  /\ pc[p] = "held"
  /\ CloseFile(p)
  /\ Goto(p, "erase")
  /\ UNCHANGED <<os, path, tries, left>>

CanErase == path # NoFile /\ ~IsOpen(path) /\ ~DeletePending

Erase(p) ==
  /\ pc[p] = "erase"
  /\ Goto(p, IF CanErase THEN "erasing" ELSE "idle")
  /\ UNCHANGED <<os, fd, owner, path, tries, left>>

Erased(p) ==
  /\ pc[p] = "erasing"
  /\ path' = NoFile
  /\ Goto(p, "idle")
  /\ UNCHANGED <<os, fd, owner, tries, left>>

(* The process dies, or an exception leaves the acquisition: its handle is *)
(* closed where it stands, and the file is left behind.  A deletion the    *)
(* Windows kernel has begun is finished without it.                        *)
Die(p) ==
  /\ pc[p] # "idle"
  /\ CloseFile(p)
  /\ path' = IF pc[p] = "erasing" THEN NoFile ELSE path
  /\ Goto(p, "idle")
  /\ UNCHANGED <<os, tries, left>>

-----------------------------------------------------------------------------
Take(p) == Open(p) \/ OpenRefused(p) \/ Lock(p) \/ LockRefused(p)
             \/ Check(p) \/ Retry(p)

Leave(p) == Unlink(p) \/ LetGo(p) \/ CloseHeld(p) \/ Erase(p) \/ Erased(p)

Next == \E p \in Proc : Begin(p) \/ Take(p) \/ Leave(p) \/ Die(p)

Spec == Init /\ [][Next]_vars

-----------------------------------------------------------------------------
(* Two processes are never inside the `with` block together: the claim of  *)
(* the module docstring, over every interleaving of opens, locks, checks,  *)
(* deletions, closes and crashes.                                          *)
MutualExclusion ==
  \A p, q \in Proc : pc[p] = "held" /\ pc[q] = "held" => p = q

(* The holder's file is the one the path names, so whoever comes next      *)
(* meets the holder's lock, and the deletion on the way out removes the    *)
(* holder's own file and never a successor's.                              *)
HolderFileIsNamed ==
  \A p \in Proc : pc[p] = "held" => path = fd[p] /\ owner[path] = p

(* "Each retry means a holder left mid-attempt" (_ACQUIRE_ATTEMPTS): a     *)
(* taker that gives up because the lock kept changing hands really saw     *)
(* that many holders delete the file since its call began.                 *)
GivingUpIsHonest == ~Win32 => \A p \in Proc : tries[p] <= left[p]

(* The lock implements Mutex, with the process in "held" as its holder.    *)
Holder == IF \E p \in Proc : pc[p] = "held"
            THEN CHOOSE p \in Proc : pc[p] = "held" ELSE NoProc

M == INSTANCE Mutex WITH holder <- Holder

ImplementsMutex == M!Spec

(* Both: whoever has the lock has the file of that name, and whoever gives *)
(* up on it had reason to.                                                 *)
LockIsHonest == HolderFileIsNamed /\ GivingUpIsHonest
=============================================================================
