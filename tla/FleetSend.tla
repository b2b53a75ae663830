----------------------------- MODULE FleetSend -----------------------------
(***************************************************************************)
(* `magent send` and `magent model`: keys typed into an agent's pane by    *)
(* somebody who sees it only in captures.  The agent may be in a turn, may *)
(* ask something, may not have acted yet on what it was sent; its user     *)
(* types too; psmux may not answer, and may have done what it was asked.   *)
(*                                                                         *)
(* A pane's input line is the sequence of texts that stand on it; an Enter *)
(* submits the whole line, and the agent takes lines in their order.       *)
(***************************************************************************)
EXTENDS Naturals, Sequences, Functions

CONSTANTS Receiver, MaxTries,
          FleetSetups   \* [kind, to, targets, body, short, known, effort, faults, user]

ASSUME FleetAssumption == Receiver # {}

VARIABLES pane,        \* pane[s]: [state, box, held, queue, model, effort]
          got,         \* got[s]: the prompt, and the user's draft, once submitted (history)
          cmd,         \* the command
          row,         \* row[s]: `model`'s row
          meddled,     \* the sessions whose model the user changed too (history)
          fleetFaults, fleetSetup

fleetvars == <<pane, got, cmd, row, meddled, fleetFaults, fleetSetup>>

NoCmd == [pc |-> "begin", s |-> CHOOSE s \in Receiver : TRUE, typing |-> <<>>, then |-> "none", ok |-> TRUE, said |-> 9,
          asked |-> FALSE, early |-> FALSE, dialog |-> FALSE]   \* (history: /compact was submitted; the body came before it was over; a dialog was met)
Quiet == [state |-> "idle", box |-> <<>>, held |-> FALSE, queue |-> <<>>, model |-> "old", effort |-> "old"]

FleetTypeOK ==
  /\ \A s \in Receiver : pane[s].state \in {"idle", "busy", "compacting", "dialog", "limit"} /\ row[s].tries \in 0..MaxTries
  /\ cmd.pc \in {"begin", "paste", "enter", "settle", "idle", "confirm", "sweep", "verify", "over"} /\ cmd.said \in {0, 2, 3, 4, 9}

FleetFault == fleetFaults < fleetSetup.faults /\ fleetFaults' = fleetFaults + 1

-----------------------------------------------------------------------------
(* The agent and its user.                                                 *)

AgentStep == UNCHANGED <<cmd, row, fleetFaults, fleetSetup>>
\* What the agent makes of a line: a switch is quick, all else is a turn.
Taken(p) == LET line == Head(p.queue) IN
  [p EXCEPT !.queue = Tail(@),
            !.model = IF line = <<"/model">> THEN "new" ELSE @,
            !.effort = IF line = <<"/effort">> THEN "new" ELSE @,
            !.state = IF Head(line) = "/compact" THEN "compacting" ELSE IF line \in {<<"/model">>, <<"/effort">>} THEN "idle" ELSE "busy"]
TakesNext(p) == IF p.queue = <<>> THEN p ELSE Taken(p)
AgentTakes(s) == pane[s].state = "idle" /\ pane[s].queue # <<>> /\ pane' = [pane EXCEPT ![s] = Taken(@)] /\ AgentStep /\ UNCHANGED <<got, meddled>>
Texts(p) == Range(p.box) \cap {"body", "draft"}
\* A line that an Enter left standing goes at the end of the turn.
TurnEnds(s) == LET p == pane[s] IN
  /\ p.state \in {"busy", "compacting", "limit"} /\ AgentStep /\ UNCHANGED meddled
  /\ got' = [got EXCEPT ![s] = IF p.held THEN @ \cup Texts(p) ELSE @]
  /\ pane' = [pane EXCEPT ![s] = TakesNext([p EXCEPT !.state = "idle", !.held = FALSE, !.box = IF p.held THEN <<>> ELSE @,
                                                      !.queue = IF p.held THEN Append(@, p.box) ELSE @])]
Stalls(s) == pane[s].state = "busy" /\ (\E st \in {"dialog", "limit"} : pane' = [pane EXCEPT ![s].state = st]) /\ AgentStep /\ UNCHANGED <<got, meddled>>
IsAnswered(s) == pane[s].state = "dialog" /\ pane' = [pane EXCEPT ![s].state = "busy"] /\ AgentStep /\ UNCHANGED <<got, meddled>>

\* Keys into a pane: a dialog has no input line, and takes an Enter for its answer.
Pasted(p, text) == IF p.state = "dialog" THEN p ELSE [p EXCEPT !.box = Append(@, text)]
Submitted(p) ==
  IF p.state = "dialog" THEN [p EXCEPT !.state = "busy"]
  ELSE IF p.box = <<>> THEN p
  ELSE IF p.state = "compacting" THEN [p EXCEPT !.held = TRUE]
  ELSE [p EXCEPT !.box = <<>>, !.queue = Append(@, p.box)]
Submits(s) == got' = [got EXCEPT ![s] = IF pane[s].state \in {"idle", "busy", "limit"} THEN @ \cup Texts(pane[s]) ELSE @]
Drafts(s) == "draft" \notin Range(pane[s].box) \cup got[s] /\ pane' = [pane EXCEPT ![s] = Pasted(@, "draft")] /\ AgentStep /\ UNCHANGED <<got, meddled>>
UserEnters(s) == "draft" \in Range(pane[s].box) /\ pane' = [pane EXCEPT ![s] = Submitted(@)] /\ Submits(s) /\ AgentStep /\ UNCHANGED meddled
Meddles(s) == s \notin meddled /\ meddled' = meddled \cup {s} /\ pane' = [pane EXCEPT ![s].model = "other", ![s].effort = "other"] /\ AgentStep /\ UNCHANGED got

-----------------------------------------------------------------------------
(* Reading and typing.                                                     *)

CmdAt(pc) == cmd.pc = pc /\ UNCHANGED <<meddled, fleetSetup>>
OnlyReads == UNCHANGED <<pane, got>>
ExitsWith(code) == cmd' = [cmd EXCEPT !.pc = "over", !.said = code] /\ UNCHANGED row
SeenAs(s) == IF pane[s].state = "compacting" THEN "busy" ELSE pane[s].state
CmdTypes(texts, then) == [cmd EXCEPT !.pc = "paste", !.typing = texts, !.then = then]
\* The paste or the Enter was given up: `send` fails, `model` looks what came of it.
NotTyped == IF fleetSetup.kind = "model" THEN cmd' = [cmd EXCEPT !.pc = "verify", !.ok = FALSE] /\ UNCHANGED row ELSE ExitsWith(3)
Pastes == LET s == cmd.s  text == Head(cmd.typing) IN
  /\ CmdAt("paste") /\ UNCHANGED got
  /\ \/ /\ pane' = [pane EXCEPT ![s] = Pasted(@, text)] /\ UNCHANGED <<row, fleetFaults>>
        /\ cmd' = [cmd EXCEPT !.pc = "enter", !.dialog = @ \/ pane[s].state = "dialog",
                              !.early = @ \/ (text = "body" /\ cmd.asked
                                              /\ (pane[s].state = "compacting" \/ \E i \in 1..Len(pane[s].queue) : "/compact" \in Range(pane[s].queue[i])))]
     \/ /\ FleetFault /\ NotTyped /\ \E landed \in BOOLEAN : pane' = IF landed THEN [pane EXCEPT ![s] = Pasted(@, text)] ELSE pane
\* An Enter that is swallowed by the paste before it does nothing.
Enters == LET s == cmd.s IN
  /\ CmdAt("enter")
  /\ \/ /\ pane' = [pane EXCEPT ![s] = Submitted(@)] /\ Submits(s) /\ UNCHANGED <<row, fleetFaults>>
        /\ cmd' = [cmd EXCEPT !.typing = Tail(@), !.pc = IF Len(cmd.typing) = 1 THEN cmd.then ELSE "paste",
                              !.asked = @ \/ cmd.then = "settle", !.dialog = @ \/ pane[s].state = "dialog"]
     \/ /\ FleetFault /\ OnlyReads /\ UNCHANGED row
        /\ cmd' = [cmd EXCEPT !.typing = Tail(@), !.pc = IF Len(cmd.typing) = 1 THEN cmd.then ELSE "paste"]
     \/ /\ FleetFault /\ NotTyped
        /\ \/ OnlyReads
           \/ pane' = [pane EXCEPT ![s] = Submitted(@)] /\ Submits(s)

-----------------------------------------------------------------------------
(* send.                                                                   *)

\* A session of a node is refused, one that nobody knows is not found.
SendBegins ==
  /\ CmdAt("begin") /\ OnlyReads /\ UNCHANGED <<row, fleetFaults>>
  /\ \/ fleetSetup.to # "local" /\ ExitsWith(2)
     \/ fleetSetup.to = "local" /\ fleetSetup.kind = "plain" /\ cmd' = CmdTypes(<<"body">>, "confirm")
     \/ fleetSetup.to = "local" /\ fleetSetup.kind = "wait" /\ cmd' = [cmd EXCEPT !.pc = "idle"]
     \/ fleetSetup.to = "local" /\ fleetSetup.kind = "compact" /\ cmd' = CmdTypes(<<"/compact">>, "settle")
     \/ fleetSetup.to = "local" /\ fleetSetup.kind = "model" /\ cmd' = [cmd EXCEPT !.pc = "sweep"]
\* COMMAND_SETTLE_S: by then an agent that was idle has begun on the command.
Reacted_AtOnce(s) == TRUE
Reacted(s) == pane[s].state = "idle" => pane[s].queue = <<>>
LetsSettle == CmdAt("settle") /\ Reacted(cmd.s) /\ cmd' = [cmd EXCEPT !.pc = "idle"] /\ OnlyReads /\ UNCHANGED <<row, fleetFaults>>
\* Polled until it is idle; or the time is up, and a last look says no (or does not come).
WaitsForIdle ==
  /\ CmdAt("idle") /\ OnlyReads
  /\ \/ SeenAs(cmd.s) = "idle" /\ UNCHANGED <<row, fleetFaults>> /\ (IF fleetSetup.body THEN cmd' = CmdTypes(<<"body">>, "confirm") ELSE cmd' = [cmd EXCEPT !.pc = "over", !.said = 0])
     \/ SeenAs(cmd.s) # "idle" /\ UNCHANGED fleetFaults /\ ExitsWith(4)
     \/ FleetFault /\ ExitsWith(4)
\* The head of the prompt on the line that has the caret; a short prompt proves nothing.
LooksUnsent_LastLine(s) == FALSE
LooksUnsent(s) == ~fleetSetup.short /\ "body" \in Range(pane[s].box)
\* A capture that was given up shows nothing, so it confirms nothing.
Unread_IsEmpty == 0
Unread == 4
Confirms ==
  /\ CmdAt("confirm") /\ OnlyReads
  /\ \/ UNCHANGED fleetFaults /\ ExitsWith(IF LooksUnsent(cmd.s) THEN 4 ELSE 0)
     \/ FleetFault /\ ExitsWith(Unread)

-----------------------------------------------------------------------------
(* model.                                                                  *)

Pending == {s \in Receiver : row[s].result \in {"pending", "retry"}}
\* Each one that still waits and reads idle, in any order; until the time is up.
Sweeps(s) ==
  /\ CmdAt("sweep") /\ s \in Pending /\ SeenAs(s) = "idle" /\ OnlyReads /\ UNCHANGED <<row, fleetFaults>>
  /\ cmd' = [CmdTypes(IF fleetSetup.effort THEN <<"/model", "/effort">> ELSE <<"/model">>, "verify") EXCEPT !.s = s, !.ok = TRUE]
\* The footer again; a model without a display name is taken by its effort.
Shows(p) == (fleetSetup.known => p.model = "new") /\ (fleetSetup.effort => p.effort = "new")
Verified_Sent(s) == cmd.ok
Verified(s) == cmd.ok /\ Shows(pane[s])
Tried(s) == IF row[s].tries + 1 >= MaxTries THEN "failed" ELSE "retry"
Verifies == LET s == cmd.s IN
  /\ CmdAt("verify") /\ OnlyReads /\ cmd' = [cmd EXCEPT !.pc = "sweep"]
  /\ \/ Verified(s) /\ row' = [row EXCEPT ![s].result = "ok"] /\ UNCHANGED fleetFaults
     \/ ~Verified(s) /\ row' = [row EXCEPT ![s].result = Tried(s), ![s].tries = @ + 1] /\ UNCHANGED fleetFaults
     \/ FleetFault /\ row' = [row EXCEPT ![s].result = Tried(s), ![s].tries = @ + 1]
EndsSweeps ==
  /\ CmdAt("sweep") /\ OnlyReads /\ UNCHANGED fleetFaults
  /\ row' = [s \in Receiver |-> IF s \in Pending THEN [row[s] EXCEPT !.result = "timeout"] ELSE row[s]]
  /\ cmd' = [cmd EXCEPT !.pc = "over", !.said = IF \A s \in fleetSetup.targets : row'[s].result = "ok" THEN 0 ELSE 4]

-----------------------------------------------------------------------------

FleetStart(x) ==
  /\ fleetSetup = x /\ fleetFaults = 0 /\ cmd = NoCmd /\ meddled = {}
  /\ pane = [s \in Receiver |-> Quiet] /\ got = [s \in Receiver |-> {}] /\ row = [s \in Receiver |-> [result |-> IF s \in x.targets THEN "pending" ELSE "none", tries |-> 0]]
FleetInit == \E x \in FleetSetups : FleetStart(x)

FleetOver == cmd.pc = "over" /\ UNCHANGED fleetvars
FleetNext ==
  \/ FleetOver \/ Pastes \/ Enters \/ SendBegins \/ LetsSettle \/ WaitsForIdle \/ Confirms \/ Verifies \/ EndsSweeps
  \/ \E s \in Receiver : Sweeps(s) \/ AgentTakes(s) \/ TurnEnds(s) \/ Stalls(s) \/ IsAnswered(s) \/ (s \in fleetSetup.user /\ (Drafts(s) \/ UserEnters(s) \/ Meddles(s)))

FleetSpec == FleetInit /\ [][FleetNext]_fleetvars

-----------------------------------------------------------------------------

(* A prompt that is said to be sent was submitted, whatever the keys and   *)
(* the captures did in between: other than a short one, and one that met a *)
(* dialog, which `send` does not look for.                                 *)
SentWasSubmitted == fleetSetup.kind # "model" /\ fleetSetup.body /\ cmd.said = 0 /\ ~fleetSetup.short /\ ~cmd.dialog =>
  "body" \in got[cmd.s]

(* After `--compact` the prompt is not typed into a session that still has *)
(* to compact, or compacts: an idle pane is believed only when the agent   *)
(* has had the time to react (wait_for_idle's settle).  Where the Enter of *)
(* /compact was swallowed, which `send` does not look for, there is none;  *)
(* where it answered a dialog, a later Enter of the user's submits it.     *)
CompactsFirst == cmd.early => cmd.dialog

(* A row that says ok is about a session that runs the model and the       *)
(* effort that were asked for, if the user changed neither.                *)
OkIsSwitched == \A s \in Receiver : row[s].result = "ok" /\ s \notin meddled => Shows(pane[s])

(* All three.                                                              *)
FleetIsHonest == SentWasSubmitted /\ CompactsFirst /\ OkIsSwitched

=============================================================================
