----------------------------- MODULE SharedLog -----------------------------
(***************************************************************************)
(* One log file that several magent processes write and rotate: each       *)
(* record takes a lock beside the log, opens the file, rotates it when it  *)
(* is full, writes and closes.  A process may be killed in between, wait   *)
(* for the lock in vain and write without it, or find a file held by       *)
(* something else.  And the threads of a process that first ask for the    *)
(* logger, which get one handler.                                          *)
(*                                                                         *)
(* A record is the number of its write; a file is the records in it, and   *)
(* one that is not there has none.                                         *)
(***************************************************************************)
EXTENDS Naturals, Sequences, Functions

CONSTANTS Writer,        \* the processes
          Thread,        \* the threads of one of them
          Full, Backup,  \* _MAX_BYTES in records, _BACKUP_COUNT
          MaxRecords, MaxFaults, Nobody

ASSUME LogAssumption == Full \in Nat \ {0} /\ Backup \in Nat \ {0} /\ Nobody \notin Writer

VARIABLES logFile,  \* logFile[0] is the log, logFile[i] its i-th backup
          logLock,  \* the process that holds it, or Nobody
          writer,   \* writer[w]: its emit
          records, rotatedOut,
          interlocked,  \* no record was written without the lock (history)
          refusals,     \* how often a rename of the log was refused (history)
          logger, thread, logFaults

logvars == <<logFile, logLock, writer, records, rotatedOut, interlocked, refusals, logger, thread, logFaults>>

NoEmit == [pc |-> "idle", i |-> 0, at |-> 0]

LogTypeOK ==
  /\ DOMAIN logFile = 0..Backup /\ logLock \in Writer \cup {Nobody} /\ records \in 0..MaxRecords /\ rotatedOut \subseteq 1..records
  /\ \A w \in Writer : writer[w].pc \in {"idle", "size", "shift", "base", "open", "write", "close", "killed"} /\ writer[w].i \in 0..Backup
  /\ \A t \in Thread : thread[t] \in {"out", "wants", "in", "attached", "has"}

-----------------------------------------------------------------------------
(* A record.                                                               *)

LogFault == logFaults < MaxFaults /\ logFaults' = logFaults + 1
EmitAt(w, pc) == writer[w].pc = pc /\ UNCHANGED <<logger, thread>>
To(w, pc) == writer' = [writer EXCEPT ![w].pc = pc]

\* The lock; or five seconds without it, and the record is written all the same.
Acquires_NoWait(w) == EmitAt(w, "idle") /\ records < MaxRecords /\ To(w, "size") /\ UNCHANGED <<logFile, logLock, records, rotatedOut, interlocked, refusals, logFaults>>
Acquires(w) ==
  /\ EmitAt(w, "idle") /\ records < MaxRecords /\ To(w, "size") /\ UNCHANGED <<logFile, records, rotatedOut, refusals>>
  /\ \/ logLock = Nobody /\ logLock' = w /\ UNCHANGED <<interlocked, logFaults>>
     \/ interlocked' = FALSE /\ LogFault /\ UNCHANGED logLock

\* The file is measured, never what this process remembers of it.
MindsSize(w) ==
  /\ EmitAt(w, "size") /\ UNCHANGED <<logFile, logLock, records, rotatedOut, interlocked, refusals, logFaults>>
  /\ writer' = [writer EXCEPT ![w].pc = IF Len(logFile[0]) >= Full THEN "shift" ELSE "open", ![w].i = IF Len(logFile[0]) >= Full THEN Backup - 1 ELSE 0]
\* The backups first, the last one over the one that goes.
Onto(i, j) == [logFile EXCEPT ![j] = logFile[i], ![i] = <<>>]
Shifts(w) == LET i == writer[w].i IN
  /\ EmitAt(w, "shift") /\ UNCHANGED <<logLock, records, interlocked, refusals, logFaults>>
  /\ IF i = 0 THEN To(w, "base") /\ UNCHANGED <<logFile, rotatedOut>>
     ELSE /\ writer' = [writer EXCEPT ![w].i = i - 1]
          /\ IF logFile[i] = <<>> THEN UNCHANGED <<logFile, rotatedOut>>
             ELSE logFile' = Onto(i, i + 1) /\ rotatedOut' = rotatedOut \cup Range(logFile[i + 1])
\* Then the log; a rename that is refused leaves it, and the record goes in.
Rotates(w) ==
  /\ EmitAt(w, "base") /\ To(w, "open") /\ UNCHANGED <<logLock, records, interlocked>>
  /\ \/ logFile' = Onto(0, 1) /\ rotatedOut' = rotatedOut \cup Range(logFile[1]) /\ UNCHANGED <<refusals, logFaults>>
     \/ UNCHANGED <<logFile, rotatedOut>> /\ refusals' = refusals + 1 /\ LogFault
\* No append is atomic on Windows: the end is looked for, then written at.
FindsEnd(w) ==
  /\ EmitAt(w, "open") /\ writer' = [writer EXCEPT ![w] = [pc |-> "write", i |-> 0, at |-> Len(logFile[0])]]
  /\ UNCHANGED <<logFile, logLock, records, rotatedOut, interlocked, refusals, logFaults>>
\* (Without the lock the log may have been rotated since: no further than its end.)
WritesAt(s, at, r) == LET n == IF at > Len(s) THEN Len(s) ELSE at
                      IN SubSeq(s, 1, n) \o <<r>> \o SubSeq(s, n + 2, Len(s))
Writes(w) ==
  /\ EmitAt(w, "write") /\ records < MaxRecords /\ records' = records + 1 /\ writer' = [writer EXCEPT ![w] = [NoEmit EXCEPT !.pc = "close"]]
  /\ logFile' = [logFile EXCEPT ![0] = WritesAt(@, writer[w].at, records')]
  /\ UNCHANGED <<logLock, rotatedOut, interlocked, refusals, logFaults>>
Released(w) == logLock' = IF logLock = w THEN Nobody ELSE logLock
ClosesLog(w) == EmitAt(w, "close") /\ writer' = [writer EXCEPT ![w] = NoEmit] /\ Released(w) /\ UNCHANGED <<logFile, records, rotatedOut, interlocked, refusals, logFaults>>
\* The system takes the lock from a process that is gone.
IsKilled(w) == /\ writer[w].pc \notin {"killed"} /\ LogFault /\ Released(w) /\ writer' = [writer EXCEPT ![w] = [NoEmit EXCEPT !.pc = "killed"]]
               /\ UNCHANGED <<logFile, records, rotatedOut, interlocked, refusals, logger, thread>>
Starts(w) == /\ writer[w].pc = "killed" /\ writer' = [writer EXCEPT ![w] = NoEmit]
             /\ UNCHANGED <<logFile, logLock, records, rotatedOut, interlocked, refusals, logger, thread, logFaults>>

-----------------------------------------------------------------------------
(* get_logger, first used by several threads at once.                      *)

ThreadAt(t, pc) == thread[t] = pc /\ UNCHANGED <<logFile, logLock, writer, records, rotatedOut, interlocked, refusals, logFaults>>
ThreadTo(t, pc) == thread' = [thread EXCEPT ![t] = pc]
\* Configured already, or the lock is waited for.
Asks(t) == ThreadAt(t, "out") /\ ThreadTo(t, IF logger.configured THEN "has" ELSE "wants") /\ UNCHANGED logger
\* Under the lock the question again; then the handler, and last that it is done.
AgainAsked_Once == FALSE
AgainAsked == logger.configured
EntersLock(t) ==
  /\ ThreadAt(t, "wants") /\ (\A u \in Thread : thread[u] \notin {"in", "attached"})
  /\ ThreadTo(t, IF AgainAsked THEN "has" ELSE "in") /\ UNCHANGED logger
Attaches(t) == ThreadAt(t, "in") /\ ThreadTo(t, "attached") /\ logger' = [logger EXCEPT !.handlers = @ + 1]
Marks(t) == ThreadAt(t, "attached") /\ ThreadTo(t, "has") /\ logger' = [logger EXCEPT !.configured = TRUE]

LogInit ==
  /\ logFile = [i \in 0..Backup |-> <<>>] /\ logLock = Nobody /\ writer = [w \in Writer |-> NoEmit] /\ records = 0 /\ rotatedOut = {} /\ interlocked = TRUE /\ refusals = 0
  /\ logger = [handlers |-> 0, configured |-> FALSE] /\ thread = [t \in Thread |-> "out"] /\ logFaults = 0

\* The log's last record is written and everyone is idle.
LogRests == records = MaxRecords /\ UNCHANGED logvars
LogNext ==
  \/ LogRests
  \/ \E w \in Writer : \/ Acquires(w) \/ MindsSize(w) \/ Shifts(w) \/ Rotates(w) \/ FindsEnd(w) \/ Writes(w) \/ ClosesLog(w) \/ IsKilled(w) \/ Starts(w)
  \/ records = 0 /\ \E t \in Thread : Asks(t) \/ EntersLock(t) \/ Attaches(t) \/ Marks(t)

LogSpec == LogInit /\ [][LogNext]_logvars

-----------------------------------------------------------------------------

(* "Two writers can never rotate the same file twice, and no two writes    *)
(* can resolve the same offset": read from the oldest backup to the log,   *)
(* every record is there once, in the order of the writes, but for the     *)
(* oldest ones, which went whole files at a time; a rotation that was cut  *)
(* short, or refused, changes none of it.  While the lock can be had.      *)
Older(i, a, j, b) == i > j \/ (i = j /\ a < b)
OnlyTheOldestGo == interlocked =>
  /\ \A i, j \in 0..Backup : \A a \in 1..Len(logFile[i]), b \in 1..Len(logFile[j]) : Older(i, a, j, b) => logFile[i][a] < logFile[j][b]
  /\ (UNION {Range(logFile[i]) : i \in 0..Backup}) \cup rotatedOut = 1..records
  /\ \A d \in rotatedOut, i \in 0..Backup : \A a \in 1..Len(logFile[i]) : d < logFile[i][a]

(* The log is full before it is rotated and no fuller after: other than    *)
(* where a rename was refused, it holds what it may.                       *)
LogStaysSmall == interlocked => Len(logFile[0]) <= Full + refusals

(* However many threads ask first, the logger has one handler, and none    *)
(* gets the logger before that.                                            *)
OneHandler == logger.handlers <= 1 /\ \A t \in Thread : thread[t] = "has" => logger.handlers = 1

(* All of it: the log keeps its records, in order, in bounds, and once.    *)
LogIsKept == OnlyTheOldestGo /\ LogStaysSmall /\ OneHandler

=============================================================================
