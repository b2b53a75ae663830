------------------------------- MODULE Mutex -------------------------------
(***************************************************************************)
(* What lockfile.exclusive_lock promises its callers: at most one process  *)
(* is inside the `with` block, a process enters only while nobody is, and  *)
(* only the process that is inside leaves (by returning, by raising or by  *)
(* dying).  Nothing is promised about who enters next.                     *)
(***************************************************************************)
CONSTANTS Proc,      \* the processes that use the lock
          NoProc     \* stands for "nobody"

VARIABLE holder      \* the process inside the `with` block

TypeOK == holder \in Proc \cup {NoProc}

Init == holder = NoProc

Acquire(p) == holder = NoProc /\ holder' = p

Release(p) == holder = p /\ holder' = NoProc

Next == \E p \in Proc : Acquire(p) \/ Release(p)

Spec == Init /\ [][Next]_holder
=============================================================================
