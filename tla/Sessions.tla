------------------------------ MODULE Sessions ------------------------------
(***************************************************************************)
(* The psmux sessions of a machine, and the commands that bring them up,   *)
(* revive them and stop them (psmux.launch_verified, bring_up,             *)
(* revive_sessions, stop_sessions, WindowsPlatform.launch_psmux_session).  *)
(*                                                                         *)
(* A session is a psmux server with one pane: a shell, and an agent in it  *)
(* once the shell read the command typed into it.  A bring-up asks which   *)
(* sessions are there, clears and creates those positively absent, wave by *)
(* wave, types each its command, types again where nothing came of it, and *)
(* checks; what it misses and was not refused it launches once more.  Any  *)
(* client may get no answer from a wedged server: it is killed at its      *)
(* deadline, and what it asked for may still happen.                       *)
(*                                                                         *)
(* A fan-out of clients is one step: one answer of each, at one moment.    *)
(***************************************************************************)
EXTENDS Naturals, FiniteSets

CONSTANTS Name,       \* sessions
          Caller,     \* the commands that may run at a time
          Batch,      \* _BRING_UP_BATCH
          Setups      \* what a behaviour is about: records of the
                      \*   names configured, the liberties taken and the
                      \*   number of faults

ASSUME BatchAssumption == Batch \in Nat \ {0}
ASSUME SetupsAssumption ==
  Setups \subseteq [fleet : SUBSET Name, faults : Nat,
                    liberty : SUBSET {"together", "slow", "late", "raise", "brief"}]

VARIABLES server,   \* "none", "up", or "stale": on the socket, without a session
          pane,     \* who reads the pane: its shell, or an agent
          keys,     \* commands typed into the pane that its shell has not read
          late,     \* killed clients of this server that may still have their way
          wedged,   \* the sessions whose sockets answer nothing
          mixed,    \* the sessions with a command typed into a running agent
          run,      \* what each caller does
          told,     \* the last word of any report on each session: "was..."
                    \*   when it goes by a look before the report's last one
          moved,    \* the sessions that changed by themselves since
          flapped,  \* whether a probe has missed a live session
          faults,   \* what may still go wrong
          sessionSetup

paneVars == <<server, pane, keys, late, mixed>>
world == <<paneVars, wedged, moved>>
sessionvars == <<world, run, told, flapped, faults>>
allsessionvars == <<sessionvars, sessionSetup>>

\* commands overlap
Together == "together" \in sessionSetup.liberty
\* a shell may take longer than the settle time to read what was typed
Slow == "slow" \in sessionSetup.liberty
\* a killed client may have its way after the command that ran it ended
Late == "late" \in sessionSetup.liberty
\* a bound: no command starts once one has reported
Brief == "brief" \in sessionSetup.liberty
\* spawning a psmux client may raise
Raise == "raise" \in sessionSetup.liberty

Fleet == sessionSetup.fleet

MaxSends == 3  \* _SEND_MAX_ATTEMPTS

Idle == [pc |-> "idle", want |-> {}, revive |-> {}, refused |-> {}, fresh |-> {}, todo |-> {},
         batch |-> {}, sends |-> 0, pass |-> 1, stuck |-> {}, missing |-> {}, met |-> {}]

Up(n) == server[n] = "up"
Answering(n) == Up(n) /\ n \notin wedged
\* idle_sessions: the pane rests at its shell and no agent is in it; what was
\* typed was read within the settle time
AtShell(n) == Answering(n) /\ pane[n] = "shell" /\ (Slow \/ keys[n] = 0)

SessionsTypeOK ==
  /\ sessionSetup \in Setups
  /\ server \in [Name -> {"none", "stale", "up"}]
  /\ pane \in [Name -> {"none", "shell", "agent"}]
  /\ \A n \in Name : Up(n) <=> pane[n] # "none"
  /\ keys \in [Name -> 0..2]
  /\ late \in [Name -> SUBSET {"new", "send"}]
  /\ \A n \in Name : ~Up(n) => keys[n] = 0 /\ "send" \notin late[n]
  /\ wedged \in SUBSET Name /\ mixed \in SUBSET Name /\ moved \in SUBSET Name
  /\ told \in [Name -> {"nothing", "up", "failed", "down", "wasUp", "wasDown"}]
  /\ flapped \in {"no", "yes"}
  /\ faults \in 0..sessionSetup.faults
  /\ \A c \in Caller : LET r == run[c] IN
       /\ r.pc \in {"idle", "dedupe", "clear", "create", "send", "verify", "resend", "check",
                    "status", "revive", "type", "before", "kill", "after", "rekill", "last"}
       /\ r.fresh \cup r.todo \cup r.batch \cup r.stuck \cup r.missing \subseteq r.want \cup r.revive
       /\ r.sends \in 0..MaxSends /\ r.pass \in {1, 2}
       /\ r.todo \cap r.fresh = {}

SessionsInit ==
  /\ sessionSetup \in Setups
  /\ server = [n \in Name |-> "none"]
  /\ pane = [n \in Name |-> "none"]
  /\ keys = [n \in Name |-> 0]
  /\ late = [n \in Name |-> {}]
  /\ wedged = {} /\ mixed = {} /\ moved = {}
  /\ run = [c \in Caller |-> Idle]
  /\ told = [n \in Name |-> "nothing"]
  /\ flapped = "no"
  /\ faults = sessionSetup.faults

-----------------------------------------------------------------------------
(***************************************************************************)
(* What clients do to servers                                              *)
(***************************************************************************)
Fault(k) == k <= faults /\ faults' = faults - k

\* kill-server, for every name of N
Kill(N) ==
  /\ server' = [n \in Name |-> IF n \in N THEN "none" ELSE server[n]]
  /\ pane' = [n \in Name |-> IF n \in N THEN "none" ELSE pane[n]]
  /\ keys' = [n \in Name |-> IF n \in N THEN 0 ELSE keys[n]]
  /\ late' = [n \in Name |-> IF n \in N THEN late[n] \ {"send"} ELSE late[n]]
  /\ mixed' = mixed \ N

\* new-session, for names without a server
Open(N) ==
  /\ server' = [n \in Name |-> IF n \in N THEN "up" ELSE server[n]]
  /\ pane' = [n \in Name |-> IF n \in N THEN "shell" ELSE pane[n]]

\* the agent command and Enter, into the panes of N
Type(N) ==
  /\ keys' = [n \in Name |-> IF n \in N /\ pane[n] = "shell" /\ keys[n] < 2 THEN keys[n] + 1 ELSE keys[n]]
  /\ mixed' = mixed \cup {n \in N : pane[n] = "agent"}

\* clients killed at their deadline
Outrun(N, what) == late' = [n \in Name |-> IF n \in N THEN late[n] \cup {what} ELSE late[n]]

Becomes(c, r) == run' = [run EXCEPT ![c] = r]

-----------------------------------------------------------------------------
(***************************************************************************)
(* A bring-up: launch_verified around launch_psmux_session                 *)
(***************************************************************************)
\* one command at a time unless "together", on what the last one left
MayStart(c) ==
  /\ run[c].pc = "idle"
  /\ Together \/ \A d \in Caller : run[d].pc = "idle"
  /\ Late \/ \A n \in Name : late[n] = {} /\ keys[n] = 0
  /\ Brief => \A n \in Name : told[n] = "nothing"

(* `--go', and the menu's "u": bring up the windows that are not open.     *)
Go(c, N) ==
  /\ MayStart(c)
  /\ Becomes(c, [Idle EXCEPT !.pc = "dedupe", !.want = N])
  /\ UNCHANGED <<world, told, flapped, faults>>

Scope(r) == IF r.pass = 1 THEN r.want ELSE r.stuck

\* the wave loop goes on, or the pass is over
NextWave(r) ==
  IF r.todo # {} THEN [r EXCEPT !.pc = "create", !.batch = {}]
  ELSE [r EXCEPT !.pc = "check", !.batch = {}, !.refused = @ \cup r.fresh, !.fresh = {}]

(* Mutant: a bare p.wait(). *)
Dedupe_Waits(c) ==
  /\ run[c].pc = "dedupe" /\ Scope(run[c]) \cap wedged = {}
  /\ LET r == run[c]
         s == [r EXCEPT !.todo = {n \in Scope(r) : ~Up(n)}, !.met = @ \cup {n \in Scope(r) : Up(n)}]
     IN Becomes(c, IF s.todo = {} THEN NextWave(s) ELSE [s EXCEPT !.pc = "clear"])
  /\ UNCHANGED <<world, told, flapped, faults>>

(* Mutant: silence is absence. *)
Dedupe_Folds(c) ==
  /\ run[c].pc = "dedupe"
  /\ LET r == run[c]
         live == {n \in Scope(r) : Answering(n)} IN
       Becomes(c, IF live = Scope(r) THEN NextWave([r EXCEPT !.met = @ \cup live])
                  ELSE [r EXCEPT !.pc = "clear", !.todo = Scope(r) \ live, !.met = @ \cup live])
  /\ UNCHANGED <<world, told, flapped, faults>>

(* probe_sessions.  A client that crashed has said nothing.                *)
Dedupe(c) ==
  /\ run[c].pc = "dedupe"
  /\ \E crashed \in SUBSET Scope(run[c]) :
       /\ Cardinality(crashed) <= 1 /\ Fault(Cardinality(crashed))
       /\ LET r == run[c]
              unknown == (Scope(r) \cap wedged) \cup crashed
              live == {n \in Scope(r) \ unknown : Up(n)}
              s == [r EXCEPT !.fresh = unknown, !.todo = Scope(r) \ (live \cup unknown), !.met = @ \cup live]
          IN Becomes(c, IF s.todo = {} THEN NextWave(s) ELSE [s EXCEPT !.pc = "clear"])
  /\ UNCHANGED <<world, told, flapped>>

(* Mutant: a session is created on top of a server that said nothing. *)
(* clear_stale_servers; kill-server exits 0 also when it did not take.     *)
Clear(c) ==
  /\ run[c].pc = "clear"
  /\ \E spared \in SUBSET (run[c].todo \ wedged) :
       /\ Cardinality(spared) <= 1 /\ Fault(Cardinality(spared))
       /\ LET r == run[c]
              silent == r.todo \cap wedged
              s == [r EXCEPT !.fresh = @ \cup silent, !.todo = @ \ silent]
          IN /\ Kill(s.todo \ spared)
             /\ Becomes(c, NextWave(s))
  /\ UNCHANGED <<wedged, moved, told, flapped>>

Waves(r) == {W \in SUBSET r.todo : Cardinality(W) = Batch} \cup {W \in {r.todo} : Cardinality(W) <= Batch}

(* new-session for a wave.  A socket in use, or a refusal of psmux's own,  *)
(* exits 1 and is left to the check; silence is a refusal of ours.         *)
Create(c) ==
  /\ run[c].pc = "create"
  /\ \E W \in Waves(run[c]), bad \in SUBSET Name :
       /\ bad \subseteq W \ wedged /\ Cardinality(bad) <= 1 /\ Fault(Cardinality(bad))
       /\ LET r == run[c]
              silent == W \cap wedged
              born == {n \in W \ (silent \cup bad) : server[n] = "none"}
              s == [r EXCEPT !.todo = @ \ W, !.fresh = @ \cup silent, !.batch = born]
          IN /\ Open(born) /\ Outrun({n \in silent : server[n] = "none"}, "new")
             /\ Becomes(c, IF born = {} THEN NextWave(s) ELSE [s EXCEPT !.pc = "send"])
  /\ UNCHANGED <<keys, mixed, wedged, moved, told, flapped>>

(* Mutant: a killed send is sent again like one that did not land. *)
Send_Again(c) ==
  /\ run[c].pc \in {"send", "resend"}
  /\ \E lost \in SUBSET (run[c].batch \ wedged) :
       /\ Cardinality(lost) <= 1 /\ Fault(Cardinality(lost))
       /\ LET r == run[c]
              silent == r.batch \cap wedged
          IN /\ Type({n \in r.batch \ (silent \cup lost) : Up(n)})
             /\ Outrun({n \in silent : Up(n)}, "send")
             /\ Becomes(c, [r EXCEPT !.met = @ \cup r.batch, !.sends = @ + 1, !.pc = "verify"])
  /\ UNCHANGED <<server, pane, wedged, moved, told, flapped>>

(* The command, into each pane of the wave; one may be lost on a shell     *)
(* that does not read yet.  A send that was killed is not sent again.      *)
Send(c) ==
  /\ run[c].pc \in {"send", "resend"}
  /\ \E lost \in SUBSET (run[c].batch \ wedged) :
       /\ Cardinality(lost) <= 1 /\ Fault(Cardinality(lost))
       /\ LET r == run[c]
              silent == r.batch \cap wedged
              s == [r EXCEPT !.met = @ \cup r.batch, !.batch = @ \ silent, !.sends = @ + 1]
          IN /\ Type({n \in r.batch \ (silent \cup lost) : Up(n)})
             /\ Outrun({n \in silent : Up(n)}, "send")
             /\ Becomes(c, IF s.batch = {} THEN NextWave([s EXCEPT !.sends = 0]) ELSE [s EXCEPT !.pc = "verify"])
  /\ UNCHANGED <<server, pane, wedged, moved, told, flapped>>

(* _verify_sends_landed: the panes still at their shell, again.            *)
Verify(c) ==
  /\ run[c].pc = "verify"
  /\ LET r == run[c]
         bare == {n \in r.batch : AtShell(n)}
     IN Becomes(c, IF bare = {} \/ r.sends = MaxSends THEN NextWave([r EXCEPT !.sends = 0])
                   ELSE [r EXCEPT !.pc = "resend", !.batch = bare])
  /\ UNCHANGED <<world, told, flapped, faults>>

(* What launch_verified returns, down having been found missing.  What the *)
(* first check found is not looked at again after the second pass.         *)
Reported(c, down) ==
  LET r == run[c]
      failed == down \cup r.refused IN
  /\ told' = [n \in Name |-> CASE n \notin r.want -> told[n]
                              [] n \in r.want \cap failed -> "failed"
                              [] n \in Scope(r) \ failed -> "up"
                              [] OTHER -> "wasUp"]
  /\ Becomes(c, IF r.revive = {} THEN Idle ELSE [Idle EXCEPT !.pc = "revive", !.revive = r.revive])

(* Spawning a client raised: what this pass had refused is lost with it,   *)
(* and the clients already spawned are not waited for.                     *)
Raised(c) ==
  /\ Raise /\ Fault(1)
  /\ run[c].pc \in {"create", "send"}
  /\ \E V \in (IF run[c].pc = "create" THEN Waves(run[c]) ELSE {run[c].batch}), W \in SUBSET Name :
       /\ W \subseteq V /\ W # V
       /\ LET r == run[c]
              s == [r EXCEPT !.fresh = {}, !.todo = {}, !.batch = {}, !.sends = 0, !.pc = "check"]
          IN /\ IF r.pc = "create" THEN Open({n \in W \ wedged : server[n] = "none"}) /\ UNCHANGED <<keys, mixed>>
                ELSE Type({n \in W \ wedged : Up(n)}) /\ UNCHANGED <<server, pane>>
             /\ IF r.pass = 1 THEN Becomes(c, s) /\ UNCHANGED told ELSE Reported(c, r.missing)
  /\ UNCHANGED <<late, wedged, moved, flapped>>

\* one has-session each; one probe in a behaviour misses a live session
Missed(N) == {n \in N : ~Answering(n)}
Flap(N) ==
  \/ N = {} /\ UNCHANGED flapped
  \/ Cardinality(N) = 1 /\ flapped = "no" /\ flapped' = "yes"

(* Mutant: what the check finds live came up. *)
Check_Forgives(c) ==
  /\ run[c].pc = "check"
  /\ LET r == run[c]
         gone == Missed(Scope(r)) IN
       /\ told' = [n \in Name |-> IF n \notin r.want THEN told[n] ELSE IF n \in gone THEN "failed" ELSE "up"]
       /\ moved' = moved \ Scope(r)
       /\ Becomes(c, IF r.revive = {} THEN Idle ELSE [Idle EXCEPT !.pc = "revive", !.revive = r.revive])
  /\ UNCHANGED <<paneVars, wedged, flapped, faults>>

(* _missing_sessions: once more for what is missing and not refused, and   *)
(* then the report.                                                        *)
Check(c) ==
  /\ run[c].pc = "check"
  /\ \E flap \in SUBSET Scope(run[c]) :
       /\ Flap(flap)
       /\ moved' = moved \ Scope(run[c])
       /\ LET r == run[c]
              gone == Missed(Scope(r)) \cup flap
              again == gone \ r.refused
          IN IF r.pass = 1 /\ again # {}
               THEN /\ Becomes(c, [r EXCEPT !.pc = "dedupe", !.pass = 2, !.stuck = again, !.missing = gone])
                    /\ UNCHANGED told
             ELSE Reported(c, IF r.pass = 1 THEN gone ELSE {n \in r.missing : n \in gone \/ n \notin r.stuck})
  /\ UNCHANGED <<paneVars, wedged, faults>>

-----------------------------------------------------------------------------
(***************************************************************************)
(* `magent up' and revive_sessions                                         *)
(***************************************************************************)
\* live_sessions waits for every answer, and asks again where it missed one
Enumerable(N) == N \cap wedged = {}

UpStarts(c) ==
  /\ MayStart(c)
  /\ Becomes(c, [Idle EXCEPT !.pc = "status"])
  /\ UNCHANGED <<world, told, flapped, faults>>

(* psmux_status: bring up the ones down, then revive those that were up.   *)
Status(c) ==
  /\ run[c].pc = "status" /\ Enumerable(Fleet)
  /\ LET live == {n \in Fleet : Up(n)} IN
       Becomes(c, [Idle EXCEPT !.pc = IF live = Fleet THEN "revive" ELSE "dedupe",
                               !.want = Fleet \ live, !.revive = live])
  /\ UNCHANGED <<world, told, flapped, faults>>

FindsBare(c) ==
  /\ run[c].pc = "revive" /\ Enumerable(run[c].revive)
  /\ LET bare == {n \in run[c].revive : AtShell(n)} IN
       Becomes(c, IF bare = {} THEN Idle ELSE [Idle EXCEPT !.pc = "type", !.revive = bare])
  /\ UNCHANGED <<world, told, flapped, faults>>

(* One pane after another.                                                 *)
TypeOne(c, n) ==
  /\ run[c].pc = "type" /\ n \in run[c].revive
  /\ IF n \in wedged THEN Outrun({m \in {n} : Up(m)}, "send") /\ UNCHANGED <<keys, mixed>>
     ELSE Type({m \in {n} : Up(m)}) /\ UNCHANGED late
  /\ Becomes(c, IF run[c].revive = {n} THEN Idle ELSE [run[c] EXCEPT !.revive = @ \ {n}])
  /\ UNCHANGED <<server, pane, wedged, moved, told, flapped, faults>>

-----------------------------------------------------------------------------
(***************************************************************************)
(* `magent down': stop_sessions                                            *)
(***************************************************************************)
GoDown(c, N) ==
  /\ MayStart(c)
  /\ Becomes(c, [Idle EXCEPT !.pc = "before", !.want = N])
  /\ UNCHANGED <<world, told, flapped, faults>>

Before(c) ==
  /\ run[c].pc = "before" /\ Enumerable(run[c].want)
  /\ Becomes(c, [run[c] EXCEPT !.pc = "kill", !.batch = {n \in run[c].want : Up(n)}])
  /\ UNCHANGED <<world, told, flapped, faults>>

\* every name, then the survivors; a kill may not take
Kills(c) ==
  /\ run[c].pc \in {"kill", "rekill"}
  /\ LET r == run[c]
         N == IF r.pc = "kill" THEN r.want ELSE r.missing
     IN \E spared \in SUBSET (N \ wedged) :
          /\ Cardinality(spared) <= 1 /\ Fault(Cardinality(spared))
          /\ Kill(N \ (wedged \cup spared))
          /\ Becomes(c, [r EXCEPT !.pc = IF r.pc = "kill" THEN "after" ELSE "last"])
  /\ UNCHANGED <<wedged, moved, told, flapped>>

Asked(r) == IF r.pc = "after" THEN r.want ELSE r.missing

DownReports(c, alive) ==
  /\ told' = [n \in Name |-> CASE n \notin run[c].want -> told[n]
                              [] n \in run[c].want \cap alive -> "up"
                              [] n \in Asked(run[c]) \ alive -> "down"
                              [] OTHER -> "wasDown"]
  /\ Becomes(c, Idle)

(* Mutant: a kill that exited 0 is a session stopped. *)
After_Believes(c) ==
  /\ run[c].pc = "after"
  /\ DownReports(c, {}) /\ moved' = moved \ run[c].want
  /\ UNCHANGED <<paneVars, wedged, flapped, faults>>

(* Prove it, kill what is left, and prove it again. *)
After(c) ==
  /\ run[c].pc \in {"after", "last"} /\ Enumerable(run[c].want)
  /\ LET r == run[c]
         alive == {n \in Asked(r) : Up(n)}
     IN /\ moved' = moved \ Asked(r)
        /\ IF r.pc = "after" /\ alive # {}
             THEN Becomes(c, [r EXCEPT !.pc = "rekill", !.missing = alive]) /\ UNCHANGED told
             ELSE DownReports(c, alive)
  /\ UNCHANGED <<paneVars, wedged, flapped, faults>>

-----------------------------------------------------------------------------
(***************************************************************************)
(* psmux, its shells and agents, and their user                            *)
(***************************************************************************)
Wedge(n) ==
  /\ n \notin wedged /\ Fault(1) /\ wedged' = wedged \cup {n}
  /\ UNCHANGED <<paneVars, moved, run, told, flapped>>

Unwedge(n) ==
  /\ n \in wedged /\ wedged' = wedged \ {n}
  /\ UNCHANGED <<paneVars, moved, run, told, flapped, faults>>

\* the shell runs what was typed; what was typed after that reaches the agent
ShellReads(n) ==
  /\ pane[n] = "shell" /\ keys[n] > 0
  /\ pane' = [pane EXCEPT ![n] = "agent"]
  /\ keys' = [keys EXCEPT ![n] = 0]
  /\ mixed' = IF keys[n] > 1 THEN mixed \cup {n} ELSE mixed
  /\ UNCHANGED <<server, late, wedged, moved, run, told, flapped, faults>>

AgentExits(n) ==
  /\ pane[n] = "agent" /\ Fault(1)
  /\ pane' = [pane EXCEPT ![n] = "shell"]
  /\ UNCHANGED <<server, keys, late, mixed, wedged, moved, run, told, flapped>>

\* a server ends, or loses its session and stays on the socket
ServerFails(n) ==
  /\ Up(n) /\ Fault(1)
  /\ \E s \in {"none", "stale"} : server' = [server EXCEPT ![n] = s]
  /\ pane' = [pane EXCEPT ![n] = "none"]
  /\ keys' = [keys EXCEPT ![n] = 0]
  /\ late' = [late EXCEPT ![n] = @ \ {"send"}]
  /\ mixed' = mixed \ {n}
  /\ moved' = moved \cup {n}
  /\ UNCHANGED <<wedged, run, told, flapped>>

LateNew(n) ==
  /\ "new" \in late[n]
  /\ late' = [late EXCEPT ![n] = @ \ {"new"}]
  /\ IF server[n] = "none" THEN Open({n}) ELSE UNCHANGED <<server, pane>>
  /\ moved' = moved \cup {n}
  /\ UNCHANGED <<keys, mixed, wedged, run, told, flapped, faults>>

LateSend(n) ==
  /\ "send" \in late[n] /\ Up(n)
  /\ late' = [late EXCEPT ![n] = @ \ {"send"}]
  /\ Type({n})
  /\ UNCHANGED <<server, pane, wedged, moved, run, told, flapped, faults>>

NeverHappens(n) ==
  /\ late[n] # {} /\ late' = [late EXCEPT ![n] = {}]
  /\ UNCHANGED <<server, pane, keys, mixed, wedged, moved, run, told, flapped, faults>>

\* with the bound, the user asks for nothing more
AsksNothing ==
  /\ Brief /\ \A c \in Caller : run[c].pc = "idle"
  /\ UNCHANGED sessionvars

-----------------------------------------------------------------------------
BringsUp(c) == Dedupe(c) \/ Clear(c) \/ Create(c) \/ Send(c) \/ Verify(c) \/ Check(c)
Revives(c) == Status(c) \/ FindsBare(c) \/ \E n \in Name : TypeOne(c, n)
Stops(c) == Before(c) \/ Kills(c) \/ After(c)

SessionsNext ==
  /\ UNCHANGED sessionSetup
  /\ \/ \E c \in Caller : BringsUp(c) \/ Raised(c) \/ Revives(c) \/ Stops(c) \/ UpStarts(c)
     \/ \E c \in Caller, N \in SUBSET Fleet \ {{}} : Go(c, N) \/ GoDown(c, N)
     \/ \E n \in Fleet : \/ Wedge(n) \/ Unwedge(n) \/ ShellReads(n) \/ AgentExits(n) \/ ServerFails(n)
                         \/ LateNew(n) \/ LateSend(n) \/ NeverHappens(n)
     \/ AsksNothing

SessionsSpec == SessionsInit /\ [][SessionsNext]_allsessionvars

(* Clients answer or are killed, and shells read.  Nothing makes a wedge   *)
(* end.                                                                    *)
SessionsFairness ==
  /\ \A c \in Caller : WF_sessionvars(BringsUp(c)) /\ WF_sessionvars(Revives(c)) /\ WF_sessionvars(Stops(c))
  /\ \A n \in Name : WF_sessionvars(ShellReads(n))

SessionsFairSpec == SessionsSpec /\ SessionsFairness

-----------------------------------------------------------------------------
(* A session that does not answer may be a frozen agent: no bring-up ends  *)
(* an agent, whatever wedges, crashes and late clients do, as long as it   *)
(* is the only command.                                                    *)
AgentsSpared ==
  [][~Together => \A c \in Caller, n \in Name :
       run[c].pc = "clear" /\ run'[c].pc # "clear" /\ pane[n] = "agent" => pane'[n] = "agent"]_sessionvars

(* No agent is ever sent its own command as a prompt: by the first send,   *)
(* a re-send, the second pass, a killed send that lands late, or a revive. *)
NeverTypedIntoAgent == sessionSetup.liberty \cap {"together", "slow", "late"} = {} => mixed = {}

(* "Brought up" is said only of a session that was there or was given its  *)
(* agent's command, so none is a bare shell under a success line.          *)
UpWasCommanded ==
  [][sessionSetup.liberty \cap {"together", "raise", "late"} = {} =>
       \A c \in Caller, n \in Name :
         run[c].pc = "check" /\ run'[c].pc \in {"idle", "revive"} /\ n \in run[c].want /\ told'[n] \in {"up", "wasUp"}
           => n \in run[c].met]_sessionvars

(* Once every command is over, the last word on a session is true of it:   *)
(* up when some report said up, gone when `down' did not name it among the *)
(* survivors - unless the session changed by itself since, or commands     *)
(* overlapped and the report went by a look before its last one.           *)
LastWordIsTrue ==
  (\A c \in Caller : run[c].pc = "idle") =>
    \A n \in Name \ moved :
      /\ told[n] = "up" \/ (told[n] = "wasUp" /\ ~Together) => Up(n)
      /\ told[n] = "down" \/ (told[n] = "wasDown" /\ ~Together) => ~Up(n)

(* A bring-up ends, though a wedge may last for ever.                      *)
BringUpEnds ==
  \A c \in Caller : (run[c].pc = "dedupe" /\ run[c].revive = {}) ~> (run[c].pc = "idle")

(* Both: an agent is neither ended by a bring-up nor typed into.           *)
AgentsLeftAlone == AgentsSpared /\ []NeverTypedIntoAgent

(* Both: what the commands say of a session, at once and in the end.       *)
ReportsAreTrue == UpWasCommanded /\ []LastWordIsTrue
=============================================================================
