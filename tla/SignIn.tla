------------------------------- MODULE SignIn -------------------------------
(***************************************************************************)
(* The Claude subscription token node sessions sign in with: one file on   *)
(* this PC (node_auth), minted by `claude setup-token` with a person's     *)
(* approval, and shipped to a node by every provision of it.               *)
(*                                                                         *)
(* Commands run at once: `node auth refresh`, a renewal offered by `node   *)
(* ls` or `doctor` ("look"), `node setup`, and `up`, whose gate offers a   *)
(* mint or a whole setup before its projects provision their nodes.  A     *)
(* call that is given up leaves the applier it started running there.      *)
(***************************************************************************)
EXTENDS Naturals, FiniteSets

CONSTANTS Nick, Asker,   \* the pool's nodes; the commands
          UpProjects,    \* how many projects of an `up` are pinned to one node
          MaxMints,
          AuthSetups     \* the commands that run, the token at the start

ASSUME AuthAssumption ==
  /\ UpProjects \in Nat
  /\ \A s \in AuthSetups : /\ s.kind \in [Asker -> {"refresh", "look", "setup", "up", "none"}] /\ s.node \in Nick
                           /\ s.token \in Nat /\ s.held \in [Nick -> Nat]

VARIABLES token,     \* the PC's file: 0 none, 1 the one of last year, 2.. minted since
          bad,       \* it cannot be trusted: its mode, its owner, its bytes
          old,       \* how token 1 stands
          nodeHeld,  \* the token in each node's file
          putBack,   \* nodes where a slow provision laid an older token over a newer
          appliers,  \* node_apply runs: who started it, on which node, with which token, for what
          authCmd,   \* the commands
          authAbout  \* what happens in this behaviour besides

authvars == <<token, bad, old, nodeHeld, putBack, appliers, authCmd, authAbout>>

Said == {"no row", "in place", "not reached", "did not land"}
NoCall == [on |-> "idle", got |-> "nothing", job |-> "none", nth |-> 0]
NoRows == [n \in Nick |-> "no row"]

AuthTypeOK ==
  /\ token \in 0..MaxMints + 2 /\ bad \in BOOLEAN /\ nodeHeld \in [Nick -> 0..MaxMints + 2]
  /\ \A c \in Asker : /\ authCmd[c].said \in [Nick -> Said] /\ authCmd[c].due \in [Nick -> 0..UpProjects]
                      /\ authCmd[c].known \subseteq Nick

Alter(c, r) == authCmd' = [authCmd EXCEPT ![c] = r] /\ UNCHANGED authAbout
AuthGoes(c, at) == Alter(c, [authCmd[c] EXCEPT !.at = at])
AuthAt(c, at) == authCmd[c].at = at
FileSame == UNCHANGED <<token, bad, old>>
NodesSame == UNCHANGED <<nodeHeld, putBack, appliers>>

\* token_health, with the 14 days inside the 30 told apart
Stands == IF bad THEN "untrusted" ELSE IF token = 0 THEN "none" ELSE IF token = 1 THEN old ELSE "ok"
Renewable == Stands \in {"soon", "due", "expired", "untrusted"}
CanShip == Stands \in {"ok", "soon", "due"}
Reads == IF bad THEN 0 ELSE token
\* what _claude_to_share puts in the payload
Shared == IF CanShip THEN Reads ELSE 0

-----------------------------------------------------------------------------
(* Outside: a year passes, and something changes the file's mode.          *)

Wears == /\ "wears" \in authAbout
         /\ \/ old = "soon" /\ old' = "due"
            \/ old = "due" /\ old' = "expired"
         /\ UNCHANGED <<token, bad, authCmd, authAbout>> /\ NodesSame
Meddles == "meddled" \in authAbout /\ token # 0 /\ ~bad /\ bad' = TRUE /\ UNCHANGED <<token, old, authCmd, authAbout>> /\ NodesSame

-----------------------------------------------------------------------------
(* A mint: ensure_token, mint_token, write_token.                          *)

Ensures(c, force) == [authCmd[c] EXCEPT !.at = "ensure", !.force = force, !.minted = 0, !.said = NoRows]

\* A mint only with a person there; without one the stored token is kept, an expired one too.
Ensure(c) ==
  LET stored == Reads
      keep == stored # 0 /\ ~authCmd[c].force /\ Stands \notin {"due", "expired"} IN
  /\ AuthAt(c, "ensure") /\ FileSame /\ NodesSame
  /\ Alter(c, [authCmd[c] EXCEPT !.had = stored, !.at = IF keep \/ ~authCmd[c].person THEN "row" ELSE "mint"])

Mint(c) == /\ AuthAt(c, "mint") /\ FileSame /\ NodesSame
           /\ \/ token <= MaxMints /\ AuthGoes(c, "temp")     \* setup-token printed one
              \/ AuthGoes(c, "row")                          \* it did not, or ran past its 15 minutes

\* Into a private temp file, then over the old one; either may fail, and the old one stays.
Temp_InPlace(c) == AuthAt(c, "temp") /\ bad' = TRUE /\ UNCHANGED <<token, old>> /\ NodesSame /\ AuthGoes(c, "replace")
Temp(c) == AuthAt(c, "temp") /\ FileSame /\ NodesSame /\ (AuthGoes(c, "replace") \/ AuthGoes(c, "row"))
Replace(c) ==
  /\ AuthAt(c, "replace") /\ NodesSame /\ UNCHANGED old
  /\ \/ LET v == IF token = 0 THEN 2 ELSE token + 1 IN
          token' = v /\ bad' = FALSE /\ Alter(c, [authCmd[c] EXCEPT !.minted = v, !.at = "row"])
     \/ UNCHANGED <<token, bad>> /\ AuthGoes(c, "row")

-----------------------------------------------------------------------------
(* The commands.                                                           *)

Refresh(c) == /\ AuthAt(c, "start") /\ authCmd[c].kind = "refresh" /\ FileSame /\ NodesSame
              /\ IF authCmd[c].person THEN Alter(c, Ensures(c, TRUE)) ELSE AuthGoes(c, "end")
Look(c) == /\ AuthAt(c, "start") /\ authCmd[c].kind = "look" /\ FileSame /\ NodesSame
           /\ \E yes \in BOOLEAN : IF yes /\ Renewable /\ authCmd[c].person THEN Alter(c, Ensures(c, TRUE)) ELSE AuthGoes(c, "end")
SetsUp(c) == AuthAt(c, "start") /\ authCmd[c].kind = "setup" /\ FileSame /\ NodesSame /\ AuthGoes(c, "hop")

\* node_readiness, once: a node that gives no sample is not set up, or did not answer.
Readiness(n, silent) == IF n \in silent THEN "unanswered" ELSE IF nodeHeld[n] = 0 /\ ~CanShip THEN "no token" ELSE "ready"
RunsUp(c) == /\ AuthAt(c, "start") /\ authCmd[c].kind = "up" /\ FileSame /\ NodesSame
         /\ \E silent \in SUBSET Nick :
              Alter(c, [authCmd[c] EXCEPT !.at = "gate", !.unready = [n \in Nick |-> Readiness(n, silent)]])

\* The root hop, then the token: setup asks about one between 30 and 14 days from its end.
Failed(c) == [authCmd[c] EXCEPT !.at = IF @ \in {"hop", "own"} /\ authCmd[c].kind = "up" THEN "gate" ELSE "end",
                            !.refused = IF authCmd[c].kind = "up" THEN @ \cup {authCmd[c].node} ELSE @]
Hop(c) == AuthAt(c, "hop") /\ FileSame /\ NodesSame /\ (AuthGoes(c, "health") \/ Alter(c, Failed(c)))
Renews(c, yes) == yes /\ authCmd[c].person /\ Stands = "soon"
LooksAtToken(c) ==
  /\ AuthAt(c, "health") /\ FileSame /\ NodesSame
  /\ \E yes \in BOOLEAN : Alter(c, [Ensures(c, Renews(c, yes)) EXCEPT !.renews = Renewable])

\* What the token's row leads to: every node, this node, or back to the gate.
Row(c) ==
  LET r == authCmd[c] IN
  /\ AuthAt(c, "row") /\ FileSame /\ NodesSame
  /\ IF r.kind \in {"refresh", "look"}
     THEN Alter(c, IF r.minted = 0 THEN [r EXCEPT !.at = "end"] ELSE [r EXCEPT !.at = "push", !.left = Nick])
     ELSE IF r.kind = "up" /\ r.unready[r.node] = "no token"
     THEN IF r.minted # 0 \/ (r.had # 0 /\ Stands \notin {"due", "expired"})
          THEN Alter(c, [r EXCEPT !.at = "gate", !.unready[r.node] = "ready"])
          ELSE Alter(c, [r EXCEPT !.at = "gate", !.refused = @ \cup {r.node}])
     ELSE Alter(c, [r EXCEPT !.at = "own", !.call[r.node] = [NoCall EXCEPT !.on = "due", !.job = "setup"]])

\* Setup provisions its node; a renewal then goes to the others.
Others(c) == Nick \ {authCmd[c].node}
StepFailed(call) == call.on \in {"lost", "unreached"}
Own(c) ==
  LET r == authCmd[c]  call == r.call[r.node] IN
  /\ AuthAt(c, "own") /\ call.on \in {"back", "lost", "unreached"} /\ FileSame /\ NodesSame
  /\ \E ok \in {~StepFailed(call), FALSE} :     \* or a row of the apply or of the health check fails
       LET s == [r EXCEPT !.call[r.node] = NoCall, !.unready[r.node] = IF ok THEN "ready" ELSE @,
                          !.refused = IF ok THEN @ ELSE @ \cup {r.node}] IN
       Alter(c, IF r.minted # 0 /\ r.renews THEN [s EXCEPT !.at = "push", !.left = Others(c)]
                ELSE [s EXCEPT !.at = IF r.kind = "up" THEN "gate" ELSE "end"])

\* push_token: a provision per node, all at once, and a row each.
Pushed(c) == [NoCall EXCEPT !.on = "due", !.job = "push", !.nth = authCmd[c].minted]
Pushes(c) ==
  LET r == authCmd[c] IN
  /\ AuthAt(c, "push") /\ r.left # {} /\ FileSame /\ NodesSame
  /\ Alter(c, [r EXCEPT !.left = {}, !.call = [n \in Nick |-> IF n \in r.left THEN Pushed(c) ELSE r.call[n]]])
Landed_NoRow(got) == got # "warn"
Landed(got) == got = "did"
Rows(c, n) ==
  LET r == authCmd[c] IN
  /\ AuthAt(c, "push") /\ r.call[n].on \in {"back", "lost", "unreached"} /\ FileSame /\ NodesSame
  /\ Alter(c, [r EXCEPT !.call[n] = NoCall,
                        !.said[n] = IF r.call[n].on # "back" THEN "not reached"
                                    ELSE IF Landed(r.call[n].got) THEN "in place" ELSE "did not land"])
PushEnds(c) == /\ AuthAt(c, "push") /\ authCmd[c].left = {} /\ \A n \in Nick : authCmd[c].call[n].on = "idle"
               /\ FileSame /\ NodesSame /\ AuthGoes(c, IF authCmd[c].kind = "up" THEN "gate" ELSE "end")

\* ready_gate: one question for each pinned node that is not ready, then the projects that can run.
Unasked(c) == {n \in Nick : authCmd[c].unready[n] # "ready" /\ n \notin authCmd[c].refused}
Offers(c, n) ==
  LET r == authCmd[c] IN
  /\ AuthAt(c, "gate") /\ r.person /\ n \in Unasked(c) /\ FileSame /\ NodesSame
  /\ \/ r.unready[n] = "no token" /\ Alter(c, [Ensures(c, FALSE) EXCEPT !.node = n])
     \/ r.unready[n] = "unanswered" /\ Alter(c, [r EXCEPT !.at = "hop", !.minted = 0, !.node = n])
     \/ Alter(c, [r EXCEPT !.refused = @ \cup {n}])     \* the person says no
Gate(c) ==
  LET r == authCmd[c] IN
  /\ AuthAt(c, "gate") /\ (~r.person \/ Unasked(c) = {}) /\ FileSame /\ NodesSame
  /\ Alter(c, [r EXCEPT !.at = "up", !.due = [n \in Nick |-> IF r.unready[n] = "ready" THEN UpProjects ELSE 0]])

\* _provision_once, under the node's lock: the run never starts a second applier beside a lost one.
Recorded_Answers(on) == on = "back"
Recorded(on) == on \in {"back", "lost"}
Provisions(c, n) ==
  LET r == authCmd[c] IN
  /\ AuthAt(c, "up") /\ r.due[n] > 0 /\ FileSame /\ NodesSame
  /\ \/ n \in r.known /\ Alter(c, [r EXCEPT !.due[n] = @ - 1])
     \/ /\ n \notin r.known /\ r.call[n].on = "idle"
        /\ Alter(c, [r EXCEPT !.call[n] = [NoCall EXCEPT !.on = "due", !.job = "project", !.nth = r.due[n]]])
     \/ /\ r.call[n].on \in {"back", "lost", "unreached"}
        /\ Alter(c, [r EXCEPT !.call[n] = NoCall, !.due[n] = @ - 1, !.known = IF Recorded(r.call[n].on) THEN @ \cup {n} ELSE @])
UpEnds(c) == AuthAt(c, "up") /\ (\A n \in Nick : authCmd[c].due[n] = 0) /\ FileSame /\ NodesSame /\ AuthGoes(c, "end")

-----------------------------------------------------------------------------
(* A provision: the token is read, the payload sent, the applier runs.     *)

SendsCall(c, n) ==
  LET r == authCmd[c] IN
  /\ r.call[n].on = "due" /\ FileSame /\ UNCHANGED <<nodeHeld, putBack>>
  /\ \/ /\ appliers' = appliers \cup {[by |-> c, on |-> n, ver |-> Shared, job |-> r.call[n].job, nth |-> r.call[n].nth]}
        /\ Alter(c, [r EXCEPT !.call[n].on = "sent"])
     \/ Alter(c, [r EXCEPT !.call[n].on = "unreached"]) /\ UNCHANGED appliers

\* The node's claude_auth step; a payload that does not unpack gives no row of it.
AwaitsReply(call, a) == call.on = "sent" /\ call.job = a.job /\ call.nth = a.nth
Applies(a) ==
  LET c == a.by  n == a.on IN
  /\ a \in appliers /\ appliers' = appliers \ {a} /\ FileSame
  /\ \E got \in {"norow", IF a.ver = 0 THEN "warn" ELSE "did"} :
       /\ nodeHeld' = IF got = "did" THEN [nodeHeld EXCEPT ![n] = a.ver] ELSE nodeHeld
       /\ putBack' = IF got = "did" /\ a.ver < nodeHeld[n] THEN putBack \cup {n} ELSE putBack
       /\ Alter(c, IF AwaitsReply(authCmd[c].call[n], a)
                   THEN [authCmd[c] EXCEPT !.call[n].on = "back", !.call[n].got = got] ELSE authCmd[c])

\* Given up at its time limit or its reply's cap: the applier runs on.
Lost(c, n) == authCmd[c].call[n].on = "sent" /\ Alter(c, [authCmd[c] EXCEPT !.call[n].on = "lost"]) /\ FileSame /\ NodesSame

\* A command is ended anywhere; what it started on a node runs on.
CommandDies(c) == /\ "dies" \in authAbout /\ authCmd[c].at \notin {"start", "end"} /\ FileSame /\ NodesSame
           /\ Alter(c, [authCmd[c] EXCEPT !.at = "end", !.left = {}, !.call = [n \in Nick |-> NoCall], !.due = [n \in Nick |-> 0]])

-----------------------------------------------------------------------------
SignInStart(s) ==
  /\ token = s.token /\ bad = FALSE /\ old = s.old /\ nodeHeld = s.held /\ putBack = {} /\ appliers = {} /\ authAbout = s.about
  /\ authCmd = [c \in Asker |-> [kind |-> s.kind[c], person |-> c \in s.person, node |-> s.node,
              at |-> IF s.kind[c] = "none" THEN "end" ELSE "start", force |-> FALSE, had |-> 0, minted |-> 0,
              renews |-> FALSE, left |-> {}, refused |-> {}, unready |-> [n \in Nick |-> "ready"],
              call |-> [n \in Nick |-> NoCall], said |-> NoRows, known |-> {}, due |-> [n \in Nick |-> 0]]]
SignInInit == \E s \in AuthSetups : SignInStart(s)

AuthRests == (\A c \in Asker : AuthAt(c, "end")) /\ appliers = {} /\ UNCHANGED authvars

SignInNext ==
  \/ Wears \/ Meddles \/ AuthRests
  \/ \E a \in appliers : Applies(a)
  \/ \E c \in Asker : \/ Refresh(c) \/ Look(c) \/ SetsUp(c) \/ RunsUp(c) \/ CommandDies(c)
                      \/ Ensure(c) \/ Mint(c) \/ Temp(c) \/ Replace(c) \/ Hop(c) \/ LooksAtToken(c) \/ Row(c) \/ Own(c)
                      \/ Pushes(c) \/ PushEnds(c) \/ Gate(c) \/ UpEnds(c)
                      \/ \E n \in Nick : Rows(c, n) \/ Offers(c, n) \/ Provisions(c, n) \/ SendsCall(c, n) \/ Lost(c, n)

SignInSpec == SignInInit /\ [][SignInNext]_authvars

-----------------------------------------------------------------------------
(* A renewal that fails, or is cut short anywhere, loses nothing: the file *)
(* a person's approval paid for is only ever replaced by another one, whole *)
(* and trusted (node_auth.write_token, ensure_token).                      *)
RenewalLosesNothing == [][(token' # token => token' > token /\ ~bad') /\ (bad' # bad => ~bad' \/ authCmd' = authCmd)]_authvars

(* "new token in place" is the node's own word (node_cmd._push_one): the   *)
(* node then holds the token that command minted, or a later one, unless a *)
(* provision that had read the file before the mint landed after it.       *)
InPlaceIsTrue ==
  \A c \in Asker, n \in Nick : authCmd[c].said[n] = "in place" => nodeHeld[n] >= authCmd[c].minted \/ n \in putBack

(* A command never runs two appliers on one node: a call it gave up may    *)
(* still be at work there (launch._provision_once, push_token's skip). The *)
(* rest of an `up` knows nothing of the pushes its own gate gave up.       *)
OneApplier ==
  \A a, b \in appliers : a.by = b.by /\ a.on = b.on => a = b \/ (authCmd[a.by].kind = "up" /\ "push" \in {a.job, b.job})

(* All three: the token is there when a row says so, nothing runs twice on *)
(* a node, and a failed renewal costs nobody's approval.                   *)
SignInIsSafe == []InPlaceIsTrue /\ []OneApplier /\ RenewalLosesNothing
=============================================================================
