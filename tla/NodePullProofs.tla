--------------------------- MODULE NodePullProofs ---------------------------
(***************************************************************************)
(* For any sessions, files, pulls, commands, replies cut anywhere, writes  *)
(* and faults: while no node's clock is set back no file falls behind its  *)
(* watermark and a final pull that says it is done has the last turn home; *)
(* and whatever the clocks do, nothing older is put over something newer   *)
(* and `down` drops no placement it should have kept.                      *)
(*                                                                         *)
(* The argument: every step is, for the pulls, one of seven moves          *)
(* (StepIsMove); each move keeps what a pull may have seen (Sights), where *)
(* the marks lie (Marks), what a command was promised (Promises) and what  *)
(* it brought home (LastTurn), in this order.                              *)
(***************************************************************************)
EXTENDS NodePull, WellFoundedInduction, TLAPS

USE OwnerAssumption

(* A set of naturals has a least one.                                      *)
LEMMA LeastNat ==
  ASSUME NEW S, S \subseteq Nat, S # {}
  PROVE  \E t \in S : \A u \in S : t <= u
<1> DEFINE R == OpToRel(<, Nat)
<1>1. IsWellFoundedOn(R, Nat)
  BY NatLessThanWellFounded
<1>2. \A u, t \in Nat : u < t => <<u, t>> \in R
  BY DEF OpToRel
<1> HIDE DEF R
<1>3. PICK t \in S : \A u \in S : ~(<<u, t>> \in R)
  BY <1>1, WFMin
<1>4. ASSUME NEW u \in S PROVE t <= u
  <2>1. t \in Nat /\ u \in Nat /\ ~(u < t)
    BY <1>2, <1>3
  <2>2. QED
    BY <2>1
<1>5. QED
  BY <1>4

(* Where a pull resumes is at most the stamp of every file it left out.    *)
LEMMA ResumeIsLeast ==
  ASSUME NEW P \in PullType, NEW s \in Sids, P.cut \cap Of(s) # {}
  PROVE  /\ Resume(P, s) \in Nat
         /\ \A f \in P.cut \cap Of(s) : Resume(P, s) <= P.seen[f].at
<1> DEFINE left == {P.seen[f].at : f \in P.cut \cap Of(s)}
<1>1. left \subseteq Nat /\ left # {}
  BY DEF PullType, Of
<1>2. \E t \in left : \A u \in left : t <= u
  <2> HIDE DEF left
  <2>1. QED
    BY <1>1, LeastNat
<1>3. Resume(P, s) = CHOOSE t \in left : \A u \in left : t <= u
  BY DEF Resume
<1>4. Resume(P, s) \in left /\ \A u \in left : Resume(P, s) <= u
  <2> HIDE DEF left
  <2>1. QED
    BY <1>2, <1>3
<1>5. QED
  BY <1>1, <1>4

(* A mark lies before the node's clock as the pull began, before every     *)
(* file that was left out, and it stands still where a file failed.        *)
LEMMA MarkIsSafe ==
  ASSUME NEW P \in PullType, NEW s \in Sids
  PROVE  /\ NextMark(P, s) \in Nat
         /\ P.from[s] < P.now =>
              /\ NextMark(P, s) < P.now
              /\ \/ NextMark(P, s) <= P.from[s]
                 \/ /\ s \in P.full /\ s \notin P.bad
                    /\ \A f \in P.cut \cap Of(s) : NextMark(P, s) < P.seen[f].at
<1>1. P.from[s] \in Nat /\ P.now \in Nat /\ \A f \in Files : P.seen[f].at \in Nat
  BY DEF PullType
<1>2. CASE P.cut \cap Of(s) = {}
  BY <1>1, <1>2 DEF NextMark, NextSince, Overlap
<1>3. CASE P.cut \cap Of(s) # {}
  <2>1. Resume(P, s) \in Nat /\ \A f \in P.cut \cap Of(s) : Resume(P, s) <= P.seen[f].at
    BY <1>3, ResumeIsLeast
  <2>2. \A f \in P.cut \cap Of(s) : f \in Files
    BY DEF Of
  <2>3. QED
    BY <1>1, <1>3, <2>1, <2>2 DEF NextMark, NextSince, Overlap, AtLeast, AtMost
<1>4. QED
  BY <1>2, <1>3

(* The fields of a pull, and the pulls that a step makes of one.           *)
LEMMA PullFields ==
  ASSUME NEW P \in PullType
  PROVE  /\ P.ask \in SUBSET Sids /\ P.from \in [Sids -> Nat] /\ P.full \in SUBSET Sids
         /\ P.now \in Nat /\ P.todo \in SUBSET Files /\ P.seen \in [Files -> [at : Nat, ver : Nat]]
         /\ P.cut \in SUBSET Files /\ P.bad \in SUBSET Sids /\ P.ever \in SUBSET Sids
         /\ P.pc \in {"off", "wait", "scan", "store"}
  BY DEF PullType

(* None at all.                                                            *)
LEMMA OffIsPull == Off \in PullType /\ Off.pc = "off"
  BY DEF Off, PullType, Unseen

(* ... as it waits for the lock.                                           *)
LEMMA WaitIsPull ==
  ASSUME NEW P \in PullType, NEW ask \in SUBSET Sids
  PROVE  LET Q == [P EXCEPT !.pc = "wait", !.ask = ask] IN Q \in PullType /\ Q.pc = "wait" /\ Q.ask = ask
  BY DEF PullType

(* ... as it asks.                                                         *)
LEMMA AskedIsPull ==
  ASSUME NEW ask \in SUBSET Sids, NEW from \in [Sids -> Nat], NEW full \in SUBSET Sids,
         NEW ever \in SUBSET Sids, clock \in Nat, setup.files \subseteq Files
  PROVE  Asked(ask, from, full, ever) \in PullType /\ Asked(ask, from, full, ever).pc = "scan"
  BY DEF Asked, Off, PullType, Unseen

(* What it then asks.                                                      *)
LEMMA AskedFields ==
  ASSUME NEW ask, NEW from, NEW full, NEW ever
  PROVE  LET P == Asked(ask, from, full, ever) IN
         /\ P.pc = "scan" /\ P.ask = ask /\ P.from = from /\ P.full = full
         /\ P.now = clock /\ P.todo = {f \in setup.files : Owner[f] \in ask}
         /\ P.seen = Unseen /\ P.cut = {} /\ P.bad = {} /\ P.ever = ever
  BY DEF Asked, Off

(* ... as it looks at a file.                                              *)
Saw(P, f) == [P EXCEPT !.todo = @ \ {f}, !.seen[f] = node[f]]
LEMMA SawIsPull ==
  ASSUME NEW P \in PullType, NEW f \in Files, node[f] \in [at : Nat, ver : Nat]
  PROVE  LET Q == Saw(P, f) IN
         /\ Q \in PullType /\ Q.pc = P.pc /\ Q.ask = P.ask /\ Q.from = P.from /\ Q.full = P.full
         /\ Q.now = P.now /\ Q.todo = P.todo \ {f} /\ Q.seen = [P.seen EXCEPT ![f] = node[f]]
         /\ Q.cut = P.cut /\ Q.bad = P.bad /\ Q.ever = P.ever
  BY DEF Saw, PullType

-----------------------------------------------------------------------------
(* Types, with what the setups promise of the files.                       *)
TInv == TypeOK /\ setup.files \subseteq Files

(* A step that changes one pull, and the lock with it.                     *)
LEMMA PullSteps ==
  ASSUME TypeOK, NEW p \in Pullers, NEW P \in PullType, pull' = [pull EXCEPT ![p] = P],
         IF P.pc \in {"scan", "store"} THEN lock \in {p, NoOne} /\ lock' = p
                                      ELSE lock' = IF lock = p THEN NoOne ELSE lock
  PROVE  /\ pull' \in [Pullers -> PullType] /\ pull'[p] = P
         /\ \A q \in Pullers \ {p} : pull'[q] = pull[q]
         /\ \A q \in Pullers : lock' = q <=> pull'[q].pc \in {"scan", "store"}
  BY PullersAssumption DEF TypeOK

(* Every step keeps the types, one action after another.                   *)
LEMMA TypeStep == TInv /\ [Next]_allvars => TInv'
<1> SUFFICES ASSUME TypeOK, setup.files \subseteq Files, [Next]_allvars PROVE TInv'
  BY DEF TInv
<1>0. setup' = setup
  <2>1. CASE Next
    BY <2>1 DEF Next
  <2>2. CASE UNCHANGED allvars
    BY <2>2 DEF allvars
  <2>3. QED
    BY <2>1, <2>2
<1> SUFFICES TypeOK'
  BY <1>0 DEF TInv
<1>t. Tick \in Pullers /\ \A c \in Commands : c \in Pullers /\ c # Tick
  BY PullersAssumption DEF Pullers
<1>p. \A p \in Pullers : pull[p] \in PullType
  BY DEF TypeOK
<1>1. ASSUME NEW f \in Files, Write(f) \/ Remove(f) PROVE TypeOK'
  <2>1. node' \in [Files -> [at : Nat, ver : Nat]]
    <3>1. CASE Write(f)
      BY <3>1 DEF Write, TypeOK
    <3>2. CASE Remove(f)
      BY <3>2 DEF Remove, TypeOK
    <3>3. QED
      BY <1>1, <3>1, <3>2
  <2>2. UNCHANGED <<clock, running, pc_vars>>
    BY <1>1 DEF Write, Remove
  <2>3. QED
    BY <2>1, <2>2 DEF TypeOK, pc_vars
<1>2. CASE Passes \/ SetBack
  BY <1>2 DEF Passes, SetBack, TypeOK, pc_vars
<1>3. ASSUME NEW p \in Pullers, Begin(p) PROVE TypeOK'
  <2> DEFINE P == Asked(pull[p].ask, since, known, {})
  <2>1. P \in PullType /\ P.pc = "scan"
    <3>1. /\ pull[p].ask \in SUBSET Sids /\ {} \in SUBSET Sids /\ since \in [Sids -> Nat]
          /\ known \in SUBSET Sids /\ clock \in Nat
      BY <1>p, PullFields DEF TypeOK
    <3>2. QED
      BY <3>1, AskedIsPull
  <2>2. pull' = [pull EXCEPT ![p] = P]
    BY <1>3 DEF Begin
  <2> HIDE DEF P
  <2>3. \A c \in Commands : pull'[c].pc = "off" <=> pull[c].pc = "off"
    BY <1>3, <1>t, <2>1, <2>2 DEF Begin, TypeOK
  <2>4. QED
    BY <1>3, <2>1, <2>2, <2>3, PullSteps DEF Begin, TypeOK
<1>4. ASSUME NEW p \in Pullers, Look(p) PROVE TypeOK'
  <2> DEFINE f == NextFile(pull[p].todo)
             P == Saw(pull[p], f)
  <2>1. f \in Files /\ pull[p] \in PullType /\ node[f] \in [at : Nat, ver : Nat]
    BY <1>4, <1>p, PullFields DEF Look, NextFile, TypeOK
  <2>2. P \in PullType /\ P.pc = pull[p].pc
    BY <2>1, SawIsPull
  <2>3. pull' = [pull EXCEPT ![p] = P]
    BY <1>4 DEF Look, Saw
  <2> HIDE DEF P
  <2>a. pull' \in [Pullers -> PullType] /\ pull'[p] = P /\ (\A q \in Pullers \ {p} : pull'[q] = pull[q])
        /\ \A q \in Pullers : lock' = q <=> pull'[q].pc \in {"scan", "store"}
    BY <1>4, <2>2, <2>3, PullSteps, ZenonT(60) DEF Look, TypeOK
  <2>b. \A c \in Commands : pull'[c].pc = "off" <=> pull[c].pc = "off"
    BY <1>4, <2>2, <2>3, <1>t, <2>a DEF Look, TypeOK
  <2>4. QED
    BY <1>4, <2>a, <2>b DEF Look, TypeOK
<1>s. ASSUME NEW p \in Pullers, NEW S, S \subseteq Offered(pull[p])
      PROVE  Store(pull[p], S) \in [Files -> Nat] /\ Pruned(pull[p]) \in [Files -> Nat]
  <2>1. pull[p].seen \in [Files -> [at : Nat, ver : Nat]]
    BY <1>p, PullFields
  <2>2. QED
    BY <2>1 DEF Store, Pruned, TypeOK
<1>5. ASSUME NEW p \in Pullers, Land(p) PROVE TypeOK'
  <2>1. PICK S \in SUBSET Offered(pull[p]) :
          /\ pull[p].pc = "scan" /\ mirror' = Store(pull[p], S)
          /\ pull' = [pull EXCEPT ![p].pc = "store", ![p].cut = Offered(pull[p]) \ S]
          /\ UNCHANGED <<node, clock, running, placed, since, known, lock, cmd>>
    BY <1>5 DEF Land
  <2> DEFINE P == [pull[p] EXCEPT !.pc = "store", !.cut = Offered(pull[p]) \ S]
  <2>2. P \in PullType /\ P.pc = "store"
    BY <1>p DEF PullType, Offered
  <2>3. pull' = [pull EXCEPT ![p] = P]
    BY <2>1
  <2> HIDE DEF P
  <2>4. QED
    BY <1>s, <1>t, <2>1, <2>2, <2>3, PullSteps DEF TypeOK
<1>6. ASSUME NEW p \in Pullers, LandsBadly(p) PROVE TypeOK'
  <2>1. PICK S \in SUBSET Offered(pull[p]), s \in pull[p].ask :
          /\ pull[p].pc = "scan"
          /\ \E K \in SUBSET (S \cap Of(s)) : mirror' = Store(pull[p], (S \ Of(s)) \cup K)
          /\ pull' = [pull EXCEPT ![p].pc = "store", ![p].cut = Offered(pull[p]) \ S, ![p].bad = {s},
                                  ![p].ever = @ \cup {s}]
          /\ UNCHANGED <<node, clock, running, placed, since, known, lock, cmd>>
    BY <1>6 DEF LandsBadly
  <2> DEFINE P == [pull[p] EXCEPT !.pc = "store", !.cut = Offered(pull[p]) \ S, !.bad = {s},
                                  !.ever = @ \cup {s}]
  <2>2. P \in PullType /\ P.pc = "store"
    BY <1>p, ZenonT(60) DEF PullType, Offered
  <2>3. pull' = [pull EXCEPT ![p] = P]
    BY <2>1
  <2>4. mirror' \in [Files -> Nat]
    <3>1. PICK K \in SUBSET (S \cap Of(s)) : mirror' = Store(pull[p], (S \ Of(s)) \cup K)
      BY <2>1
    <3>2. (S \ Of(s)) \cup K \subseteq Offered(pull[p])
      OBVIOUS
    <3>3. QED
      BY <1>s, <3>1, <3>2
  <2> HIDE DEF P
  <2>a. pull' \in [Pullers -> PullType] /\ pull'[p] = P /\ (\A q \in Pullers \ {p} : pull'[q] = pull[q])
        /\ \A q \in Pullers : lock' = q <=> pull'[q].pc \in {"scan", "store"}
    BY <2>1, <2>2, <2>3, PullSteps DEF TypeOK
  <2>b. \A c \in Commands : pull'[c].pc = "off" <=> pull[c].pc = "off"
    BY <2>1, <2>2, <2>3, <1>t, <2>a DEF TypeOK
  <2>5. QED
    BY <2>1, <2>4, <2>a, <2>b DEF TypeOK
<1>m. \A p \in Pullers, s \in Sids : NextMark(pull[p], s) \in Nat
  BY <1>p, MarkIsSafe
<1>7. CASE ReadMap
  <2> DEFINE P == [pull[Tick] EXCEPT !.pc = "wait", !.ask = placed]
  <2>1. P \in PullType /\ P.pc = "wait"
    BY <1>t, <1>p, WaitIsPull, ZenonT(60) DEF TypeOK
  <2>2. pull' = [pull EXCEPT ![Tick] = P]
    BY <1>7 DEF ReadMap
  <2> HIDE DEF P
  <2>3. QED
    BY <1>7, <1>t, <2>1, <2>2, PullSteps, PullersAssumption, SMTT(30) DEF ReadMap, TypeOK
<1>8. CASE Locked \/ TickFails
  BY <1>8, <1>t, OffIsPull, PullSteps, PullersAssumption DEF Locked, TickFails, TypeOK
<1>9. CASE TickKeeps
  <2>1. mirror' \in [Files -> Nat] /\ since' \in [Sids -> Nat] /\ known' \subseteq Sids
    BY <1>9, <1>s, <1>m, <1>t, <1>p, PullFields DEF TickKeeps
  <2>2. QED
    BY <1>9, <1>t, <2>1, OffIsPull, PullSteps, PullersAssumption DEF TickKeeps, TypeOK
<1>c. \A c \in Commands : cmd[c] \in CmdType
  BY DEF TypeOK
<1>10. ASSUME NEW c \in Commands, Call(c) PROVE TypeOK'
  <2>1. PICK s \in placed, kind \in {"down", "recall"} :
          /\ cmd[c].pc = "idle"
          /\ cmd' = [cmd EXCEPT ![c] = [pc |-> "pull", kind |-> kind, sids |-> {s},
                 owed |-> [f \in Files |-> IF Owner[f] = s THEN node[f].ver ELSE 0], got |-> "not"]]
          /\ pull' = [pull EXCEPT ![c].pc = "wait", ![c].ask = {s}]
          /\ UNCHANGED <<node, clock, running, placed, mirror, since, known, lock>>
    BY <1>10 DEF Call
  <2> DEFINE P == [pull[c] EXCEPT !.pc = "wait", !.ask = {s}]
             C == [pc |-> "pull", kind |-> kind, sids |-> {s},
                   owed |-> [f \in Files |-> IF Owner[f] = s THEN node[f].ver ELSE 0], got |-> "not"]
  <2>2. C \in CmdType /\ C.pc = "pull"
    BY DEF CmdType, TypeOK
  <2>3. {s} \in SUBSET Sids
    BY DEF TypeOK
  <2>4. P \in PullType /\ P.pc = "wait"
    BY <2>3, <1>t, <1>p, WaitIsPull
  <2>5. pull' = [pull EXCEPT ![c] = P] /\ cmd' = [cmd EXCEPT ![c] = C]
    BY <2>1
  <2> HIDE DEF P, C
  <2>6. lock # c
    BY <2>1, <1>t DEF TypeOK
  <2>7. /\ pull' \in [Pullers -> PullType] /\ pull'[c] = P /\ \A q \in Pullers \ {c} : pull'[q] = pull[q]
        /\ \A q \in Pullers : lock' = q <=> pull'[q].pc \in {"scan", "store"}
    BY <2>1, <2>4, <2>5, <2>6, <1>t, PullSteps
  <2>8. \A d \in Commands : cmd'[d].pc = "pull" <=> pull'[d].pc # "off"
    BY <2>2, <2>4, <2>5, <2>7, <1>t DEF TypeOK
  <2>9. cmd' \in [Commands -> CmdType]
    BY <2>2, <2>5 DEF TypeOK
  <2>10. UNCHANGED <<node, clock, running, placed, mirror, since, known>>
    BY <2>1
  <2>11. QED
    BY <2>7, <2>8, <2>9, <2>10 DEF TypeOK
<1>e. ASSUME NEW c \in Commands, NEW pc \in {"idle", "stop", "clear"}, NEW got \in {"home", "gone", "not"}
      PROVE  /\ [cmd[c] EXCEPT !.pc = pc, !.got = got] \in CmdType
             /\ [cmd[c] EXCEPT !.pc = pc, !.got = got].pc = pc
             /\ [cmd[c] EXCEPT !.pc = pc] \in CmdType /\ [cmd[c] EXCEPT !.pc = pc].pc = pc
  BY <1>c DEF CmdType
<1>i. Idle \in CmdType /\ Idle.pc = "idle"
  BY DEF CmdType, Idle
(* A command's pull is over, and the command goes on. *)
<1>o. ASSUME NEW c \in Commands, NEW C \in CmdType, C.pc # "pull", cmd' = [cmd EXCEPT ![c] = C],
             pull' = [pull EXCEPT ![c] = Off], lock' = IF lock = c THEN NoOne ELSE lock,
             mirror' \in [Files -> Nat], since' \in [Sids -> Nat], known' \in SUBSET Sids,
             UNCHANGED <<node, clock, running, placed>>
      PROVE  TypeOK'
  BY <1>o, <1>t, OffIsPull, PullSteps, ZenonT(60) DEF TypeOK
<1>k. ASSUME NEW c \in Commands, Marked(pull[c])
      PROVE  since' \in [Sids -> Nat] /\ known' \in SUBSET Sids
  <2>1. c \in Pullers /\ pull[c].ask \in SUBSET Sids
    BY <1>t, <1>p, PullFields
  <2>2. QED
    BY <1>k, <1>m, <2>1 DEF Marked, TypeOK
<1>11. ASSUME NEW c \in Commands, HeldTooLong(c) PROVE TypeOK'
  <2>1. lock # c
    BY <1>11, <1>t DEF HeldTooLong, TypeOK
  <2>2. QED
    BY <1>11, <1>e, <1>o, <2>1 DEF HeldTooLong, TypeOK
<1>12. ASSUME NEW c \in Commands, NoAnswer(c) PROVE TypeOK'
  <2>1. lock = c
    BY <1>12, <1>t DEF NoAnswer, TypeOK
  <2>2. PICK got \in {"gone", "not"} : Ends(c, got)
    BY <1>12 DEF NoAnswer
  <2> DEFINE C == [cmd[c] EXCEPT !.pc = "stop", !.got = got]
  <2>3. C \in CmdType /\ C.pc # "pull" /\ cmd' = [cmd EXCEPT ![c] = C]
    BY <2>2, <1>e, ZenonT(60) DEF Ends
  <2> HIDE DEF C
  <2>4. UNCHANGED <<node, clock, running, placed, mirror, since, known>>
    BY <1>12 DEF NoAnswer
  <2>5. mirror' \in [Files -> Nat] /\ since' \in [Sids -> Nat] /\ known' \in SUBSET Sids
    BY <2>4 DEF TypeOK
  <2>6. QED
    BY <1>o, <2>1, <2>2, <2>3, <2>4, <2>5 DEF Ends
<1>13. ASSUME NEW c \in Commands, Unfinished(c) \/ Finished(c) PROVE TypeOK'
  <2>1. /\ Marked(pull[c]) /\ mirror' = Pruned(pull[c]) /\ pull[c].pc = "store"
        /\ UNCHANGED <<node, clock, running, placed>>
        /\ \E got \in {"home", "not"} : Ends(c, got)
    BY <1>13 DEF Unfinished, Finished
  <2>2. lock = c
    BY <2>1, <1>t DEF TypeOK
  <2>3. since' \in [Sids -> Nat] /\ known' \in SUBSET Sids /\ mirror' \in [Files -> Nat]
    BY <2>1, <1>k, <1>s, <1>t
  <2>4. PICK got \in {"home", "not"} : Ends(c, got)
    BY <2>1
  <2> DEFINE C == [cmd[c] EXCEPT !.pc = "stop", !.got = got]
  <2>5. C \in CmdType /\ C.pc # "pull" /\ cmd' = [cmd EXCEPT ![c] = C]
    BY <2>4, <1>e, ZenonT(60) DEF Ends
  <2> HIDE DEF C
  <2>6. QED
    BY <1>o, <2>1, <2>2, <2>3, <2>4, <2>5 DEF Ends
<1>14. ASSUME NEW c \in Commands, Dies(c) PROVE TypeOK'
  BY <1>14, <1>i, <1>o DEF Dies, Done, TypeOK
(* A further request. *)
<1>r. ASSUME NEW c \in Commands, NEW P \in PullType, P.pc = "scan", pull[c].pc = "store",
             pull' = [pull EXCEPT ![c] = P],
             mirror' \in [Files -> Nat], since' \in [Sids -> Nat], known' \in SUBSET Sids,
             UNCHANGED <<node, clock, running, placed, lock, cmd>>
      PROVE  TypeOK'
  <2>1. lock = c /\ c \in Pullers
    BY <1>r, <1>t DEF TypeOK
  <2>2. QED
    BY <1>r, <1>t, <2>1, PullSteps DEF TypeOK
<1>15. ASSUME NEW c \in Commands, AskAgain(c) PROVE TypeOK'
  <2> DEFINE P == Asked(pull[c].ask, [s \in Sids |-> NextMark(pull[c], s)], pull[c].ask, pull[c].ever)
  <2>1. /\ pull[c].ask \in SUBSET Sids /\ pull[c].ever \in SUBSET Sids /\ clock \in Nat
        /\ [s \in Sids |-> NextMark(pull[c], s)] \in [Sids -> Nat]
    BY <1>m, <1>t, <1>p, PullFields DEF TypeOK
  <2>2. P \in PullType /\ P.pc = "scan"
    BY <2>1, AskedIsPull
  <2>3. pull' = [pull EXCEPT ![c] = P]
    BY <1>15 DEF AskAgain
  <2> HIDE DEF P
  <2>4. QED
    BY <1>15, <1>r, <1>s, <1>t, <2>2, <2>3 DEF AskAgain, TypeOK
<1>16. ASSUME NEW c \in Commands, Continue(c) PROVE TypeOK'
  <2> DEFINE P == Asked(pull[c].ask, since', known', pull[c].ever)
  <2>1. /\ pull[c].ask \in SUBSET Sids /\ pull[c].ever \in SUBSET Sids /\ clock \in Nat
        /\ since' \in [Sids -> Nat] /\ known' \in SUBSET Sids
    BY <1>16, <1>k, <1>t, <1>p, PullFields DEF TypeOK, Continue
  <2>2. P \in PullType /\ P.pc = "scan"
    BY <2>1, AskedIsPull
  <2>3. pull' = [pull EXCEPT ![c] = P]
    BY <1>16 DEF Continue
  <2> HIDE DEF P
  <2>4. QED
    BY <1>16, <1>r, <1>s, <1>t, <2>1, <2>2, <2>3 DEF Continue, TypeOK
<1>17. ASSUME NEW c \in Commands,
              Kill(c) \/ KillUnknown(c) \/ RecallStops(c) \/ RecallGoesOn(c) \/ Clear(c) \/ Stays(c)
       PROVE  TypeOK'
  <2>1. PICK C \in CmdType : C.pc # "pull" /\ cmd' = [cmd EXCEPT ![c] = C]
    BY <1>17, <1>e, <1>i DEF Kill, KillUnknown, RecallStops, RecallGoesOn, Clear, Stays, Done
  <2>2. cmd[c].pc # "pull" /\ running' \subseteq Sids /\ placed' \subseteq Sids
        /\ UNCHANGED <<node, clock, mirror, since, known, lock, pull>>
    BY <1>17 DEF Kill, KillUnknown, RecallStops, RecallGoesOn, Clear, Stays, TypeOK
  <2>3. QED
    BY <2>1, <2>2 DEF TypeOK
<1>18. CASE UNCHANGED vars
  BY <1>18 DEF vars, TypeOK
<1>19. QED
  BY <1>t, <1>1, <1>2, <1>3, <1>4, <1>5, <1>6, <1>7, <1>8, <1>9, <1>10, <1>11, <1>12, <1>13, <1>14,
     <1>15, <1>16, <1>17, <1>18 DEF Next, allvars, World, Daemon, Command, Breaks-----------------------------------------------------------------------------
(* What a step does to the pull under way, of which there is at most one.  *)
Holds(p) == pull[p].pc \in {"scan", "store"}
Still == UNCHANGED <<node, clock, setup>>

NodeMoves == /\ UNCHANGED <<mirror, since, pull, cmd, setup>>
             /\ \/ \E f \in Files : Write(f) \/ Remove(f)
                \/ Passes \/ SetBack

(* None begins, and none goes on. *)
Rests == /\ Still /\ UNCHANGED <<mirror, since>>
         /\ \A q \in Pullers : Holds(q)' => pull'[q] = pull[q]

Only(p) == \A q \in Pullers : Holds(q)' => q = p

Fresh(P) == /\ P.pc = "scan" /\ P.now = clock /\ P.seen = Unseen
            /\ P.todo = {f \in setup.files : Owner[f] \in P.ask}

Begins(p) == /\ Still /\ UNCHANGED <<mirror, since>> /\ Only(p)
             /\ Fresh(pull'[p]) /\ pull'[p].ask = pull[p].ask /\ pull'[p].from = since

Looks(p, f) == /\ Still /\ UNCHANGED <<mirror, since>> /\ Only(p)
               /\ pull[p].pc = "scan" /\ f \in pull[p].todo /\ pull'[p] = Saw(pull[p], f)

Lands(p, S, K, bad) ==
  /\ Still /\ UNCHANGED since /\ Only(p)
  /\ pull[p].pc = "scan" /\ pull[p].todo = {}
  /\ S \subseteq Offered(pull[p]) /\ K \subseteq S /\ \A f \in S \ K : Owner[f] \in bad
  /\ mirror' = Store(pull[p], K)
  /\ LET P == pull[p]  Q == pull'[p] IN
     /\ Q.pc = "store" /\ Q.ask = P.ask /\ Q.from = P.from /\ Q.full = P.full /\ Q.now = P.now
     /\ Q.todo = P.todo /\ Q.seen = P.seen /\ Q.cut = Offered(P) \ S /\ Q.bad = bad /\ bad \subseteq Q.ever

(* A pull that stored is over, and maybe the next request under way. *)
Turns(p) ==
  /\ Still /\ Only(p) /\ pull[p].pc = "store" /\ mirror' = Pruned(pull[p])
  /\ \A s \in Sids : since'[s] \in {since[s], 0} \/ (s \in pull[p].ask /\ since'[s] = NextMark(pull[p], s))
  /\ Holds(p)' => /\ Fresh(pull'[p]) /\ pull'[p].ask = pull[p].ask
                  /\ \A s \in pull[p].ask : pull'[p].from[s] = NextMark(pull[p], s)

Moves == \/ NodeMoves \/ Rests
         \/ \E p \in Pullers : Begins(p) \/ Turns(p)
         \/ \E p \in Pullers, f \in Files : Looks(p, f)
         \/ \E p \in Pullers, S, K \in SUBSET Files, bad \in SUBSET Sids : Lands(p, S, K, bad)

(* Only one holds the node's lock.                                         *)
LEMMA Alone == TypeOK => \A p, q \in Pullers : Holds(p) /\ Holds(q) => p = q
  BY DEF TypeOK, Holds

(* A file fails at most once in a pull, as it is stored. *)
Clean == \A p \in Pullers : pull[p].pc # "store" => pull[p].bad = {}

(* Only storing marks a session bad.                                       *)
LEMMA CleanStep == TInv /\ Clean /\ [Next]_allvars => Clean'
<1> SUFFICES ASSUME TypeOK, Clean, [Next]_allvars PROVE Clean'
  BY DEF TInv
<1>t. \A c \in Commands : c \in Pullers
  BY DEF Pullers
<1>p. \A p \in Pullers : pull[p] \in PullType
  BY DEF TypeOK
<1>d. pull \in [Pullers -> PullType]
  BY DEF TypeOK
<1>o. \A p : pull' = [pull EXCEPT ![p] = Off] => Clean'
  BY <1>d DEF Clean, Off
<1>a. \A p, a, f, g, e : pull' = [pull EXCEPT ![p] = Asked(a, f, g, e)] => Clean'
  BY <1>d, AskedFields DEF Clean
<1>1. CASE UNCHANGED pull
  BY <1>1 DEF Clean
<1>2. ASSUME NEW p \in Pullers, Begin(p) \/ Land(p) \/ LandsBadly(p) PROVE Clean'
  <2>1. CASE Begin(p)
    BY <2>1, <1>a DEF Begin
  <2>2. CASE Land(p) \/ LandsBadly(p)
    <3>1. pull'[p].pc = "store" /\ \A q \in Pullers \ {p} : pull'[q] = pull[q]
      <4>1. CASE Land(p)
        <5>1. PICK S : pull' = [pull EXCEPT ![p].pc = "store", ![p].cut = S]
          BY <4>1 DEF Land
        <5>2. QED
          BY <5>1, <1>d DEF PullType
      <4>2. CASE LandsBadly(p)
        <5>1. PICK S, s : pull' = [pull EXCEPT ![p].pc = "store", ![p].cut = S, ![p].bad = {s},
                                               ![p].ever = @ \cup {s}]
          BY <4>2 DEF LandsBadly
        <5>2. QED
          BY <5>1, <1>d DEF PullType
      <4>3. QED
        BY <2>2, <4>1, <4>2
    <3>2. QED
      BY <3>1 DEF Clean
  <2>3. QED
    BY <1>2, <2>1, <2>2
<1>3. ASSUME NEW p \in Pullers, Look(p) PROVE Clean'
  <2>1. pull[p].bad = {} /\ pull'[p].bad = pull[p].bad /\ \A q \in Pullers \ {p} : pull'[q] = pull[q]
    BY <1>3, <1>d DEF Look, Clean, PullType
  <2>2. QED
    BY <2>1 DEF Clean
<1>4. CASE ReadMap \/ \E c \in Commands : Call(c)
  <2>1. PICK p \in Pullers : \E a : /\ pull' = [pull EXCEPT ![p].pc = "wait", ![p].ask = a]
                                   /\ pull[p].pc # "store"
    BY <1>4, <1>t DEF ReadMap, Call, TypeOK, Pullers
  <2>2. pull'[p].bad = {} /\ \A q \in Pullers \ {p} : pull'[q] = pull[q]
    BY <2>1, <1>d DEF Clean, PullType
  <2>3. QED
    BY <2>2 DEF Clean
<1>5. CASE Locked \/ TickFails \/ TickKeeps
  BY <1>5, <1>o DEF Locked, TickFails, TickKeeps
<1>6. ASSUME NEW c \in Commands, AskAgain(c) \/ Continue(c) PROVE Clean'
  BY <1>6, <1>a DEF AskAgain, Continue
<1>7. ASSUME NEW c \in Commands, HeldTooLong(c) \/ NoAnswer(c) \/ Unfinished(c) \/ Finished(c) \/ Dies(c)
      PROVE  Clean'
  BY <1>7, <1>o DEF HeldTooLong, NoAnswer, Unfinished, Finished, Dies, Ends
<1>8. ASSUME NEW c \in Commands,
             Kill(c) \/ KillUnknown(c) \/ RecallStops(c) \/ RecallGoesOn(c) \/ Clear(c) \/ Stays(c)
      PROVE  UNCHANGED pull
  BY <1>8 DEF Kill, KillUnknown, RecallStops, RecallGoesOn, Clear, Stays
<1>9. ASSUME NEW f \in Files, Write(f) \/ Remove(f) PROVE UNCHANGED pull
  BY <1>9 DEF Write, Remove, pc_vars
<1>10. CASE Passes \/ SetBack \/ UNCHANGED vars
  BY <1>1, <1>10 DEF Passes, SetBack, pc_vars, vars
<1>11. Tick \in Pullers
  BY DEF Pullers
<1>12. QED
  BY <1>t, <1>1, <1>2, <1>3, <1>4, <1>5, <1>6, <1>7, <1>8, <1>9, <1>10, <1>11
     DEF Next, allvars, World, Daemon, Command, Breaks

(* Every step is one of the moves.                                         *)
LEMMA StepIsMove == TInv /\ Clean /\ [Next]_allvars => Moves
<1> SUFFICES ASSUME TypeOK, setup.files \subseteq Files, Clean, [Next]_allvars PROVE Moves
  BY DEF TInv
<1>0. setup' = setup
  BY DEF Next, allvars
<1>t. Tick \in Pullers /\ \A c \in Commands : c \in Pullers /\ c # Tick
  BY PullersAssumption DEF Pullers
<1>p. \A p \in Pullers : pull[p] \in PullType
  BY DEF TypeOK
<1>u. \A p \in Pullers : Holds(p) => \A q \in Pullers \ {p} : ~Holds(q)
  BY Alone
<1>1. ASSUME NEW f \in Files, Write(f) \/ Remove(f) PROVE Moves
  <2>1. NodeMoves
    BY <1>0, <1>1 DEF Write, Remove, pc_vars, NodeMoves
  <2>2. QED
    BY <2>1 DEF Moves
<1>2. CASE Passes \/ SetBack
  <2>1. NodeMoves
    BY <1>0, <1>2 DEF Passes, SetBack, pc_vars, NodeMoves
  <2>2. QED
    BY <2>1 DEF Moves
(* Another puller holds nothing while p does. *)
<1>o. ASSUME NEW p \in Pullers, NEW P, pull' = [pull EXCEPT ![p] = P], Holds(p) \/ lock = NoOne
      PROVE  Only(p) /\ pull'[p] = P
  <2>1. \A q \in Pullers \ {p} : ~Holds(q) /\ pull'[q] = pull[q]
    BY <1>o, <1>u, PullersAssumption DEF TypeOK, Holds
  <2>2. QED
    BY <1>o, <2>1 DEF Only, Holds, TypeOK
<1>3. ASSUME NEW p \in Pullers, Begin(p) PROVE Moves
  <2> DEFINE P == Asked(pull[p].ask, since, known, {})
  <2>1. pull' = [pull EXCEPT ![p] = P]
    BY <1>3 DEF Begin
  <2>2. /\ P.pc = "scan" /\ P.now = clock /\ P.seen = Unseen /\ P.ask = pull[p].ask
        /\ P.todo = {f \in setup.files : Owner[f] \in P.ask} /\ P.from = since
    BY AskedFields
  <2> HIDE DEF P
  <2>3. Only(p) /\ pull'[p] = P
    BY <1>3, <1>o, <2>1 DEF Begin
  <2>4. Begins(p)
    BY <1>0, <1>3, <2>2, <2>3 DEF Begin, Begins, Still, Fresh
  <2>5. QED
    BY <2>4 DEF Moves
<1>4. ASSUME NEW p \in Pullers, Look(p) PROVE Moves
  <2> DEFINE f == NextFile(pull[p].todo)
  <2>1. f \in pull[p].todo /\ f \in Files
    BY <1>4, <1>p, PullFields DEF Look, NextFile
  <2>2. pull' = [pull EXCEPT ![p] = Saw(pull[p], f)]
    BY <1>4 DEF Look, Saw
  <2> HIDE DEF f
  <2>3. Only(p) /\ pull'[p] = Saw(pull[p], f)
    BY <1>4, <1>o, <2>2 DEF Look, Holds
  <2>4. Looks(p, f)
    BY <1>0, <1>4, <2>1, <2>3 DEF Look, Looks, Still
  <2>5. QED
    BY <2>1, <2>4 DEF Moves
<1>5. ASSUME NEW p \in Pullers, Land(p) PROVE Moves
  <2>1. PICK S \in SUBSET Offered(pull[p]) :
          /\ pull[p].pc = "scan" /\ pull[p].todo = {} /\ mirror' = Store(pull[p], S)
          /\ pull' = [pull EXCEPT ![p].pc = "store", ![p].cut = Offered(pull[p]) \ S]
          /\ UNCHANGED <<node, clock, running, placed, since, known, lock, cmd>>
    BY <1>5 DEF Land
  <2> DEFINE P == pull[p]
             Q == [P EXCEPT !.pc = "store", !.cut = Offered(P) \ S]
  <2>2. /\ Q.pc = "store" /\ Q.ask = P.ask /\ Q.from = P.from /\ Q.full = P.full /\ Q.now = P.now
        /\ Q.todo = P.todo /\ Q.seen = P.seen /\ Q.cut = Offered(P) \ S /\ Q.bad = {}
    BY <1>p, <2>1 DEF PullType, Clean
  <2>3. pull' = [pull EXCEPT ![p] = Q]
    BY <2>1
  <2>7. Only(p) /\ pull'[p] = Q
    BY <1>o, <2>1, <2>3 DEF Holds
  <2> HIDE DEF Q
  <2>4. Lands(p, S, S, {})
    BY <1>0, <2>1, <2>2, <2>7 DEF Lands, Still
  <2>5. S \in SUBSET Files
    BY DEF Offered
  <2>6. QED
    BY <2>4, <2>5 DEF Moves
<1>6. ASSUME NEW p \in Pullers, LandsBadly(p) PROVE Moves
  <2>0. PICK S \in SUBSET Offered(pull[p]), s \in pull[p].ask :
          /\ pull[p].pc = "scan" /\ pull[p].todo = {}
          /\ \E K1 \in SUBSET (S \cap Of(s)) : mirror' = Store(pull[p], (S \ Of(s)) \cup K1)
          /\ pull' = [pull EXCEPT ![p].pc = "store", ![p].cut = Offered(pull[p]) \ S, ![p].bad = {s},
                                  ![p].ever = @ \cup {s}]
          /\ UNCHANGED <<node, clock, running, placed, since, known, lock, cmd>>
    BY <1>6 DEF LandsBadly
  <2>b. PICK K0 \in SUBSET (S \cap Of(s)) : mirror' = Store(pull[p], (S \ Of(s)) \cup K0)
    BY <2>0
  <2>1. /\ K0 \subseteq S \cap Of(s)
        /\ pull[p].pc = "scan" /\ pull[p].todo = {} /\ mirror' = Store(pull[p], (S \ Of(s)) \cup K0)
        /\ pull' = [pull EXCEPT ![p].pc = "store", ![p].cut = Offered(pull[p]) \ S, ![p].bad = {s},
                                ![p].ever = @ \cup {s}]
        /\ UNCHANGED <<node, clock, running, placed, since, known, lock, cmd>>
    BY <2>0, <2>b
  <2> DEFINE P == pull[p]
             Q == [P EXCEPT !.pc = "store", !.cut = Offered(P) \ S, !.bad = {s}, !.ever = @ \cup {s}]
             K == (S \ Of(s)) \cup K0
  <2>2. /\ Q.pc = "store" /\ Q.ask = P.ask /\ Q.from = P.from /\ Q.full = P.full /\ Q.now = P.now
        /\ Q.todo = P.todo /\ Q.seen = P.seen /\ Q.cut = Offered(P) \ S /\ Q.bad = {s}
        /\ Q.ever = P.ever \cup {s}
    BY <1>p DEF PullType
  <2>3. pull' = [pull EXCEPT ![p] = Q]
    BY <2>1
  <2> HIDE DEF Q
  <2>4. Only(p) /\ pull'[p] = Q
    BY <1>o, <2>1, <2>3 DEF Holds
  <2>5. /\ S \in SUBSET Files /\ K \in SUBSET Files /\ K \subseteq S /\ {s} \in SUBSET Sids
        /\ \A f \in S \ K : Owner[f] \in {s}
    <3>1. S \subseteq Files
      BY DEF Offered
    <3>2. pull[p].ask \in SUBSET Sids
      BY <1>p, PullFields
    <3>3. K \subseteq S /\ \A f \in S \ K : f \in Of(s)
      BY <2>1
    <3>4. QED
      BY <3>1, <3>2, <3>3 DEF Of
  <2>6. Lands(p, S, K, {s})
    BY <1>0, <2>1, <2>2, <2>4, <2>5 DEF Lands, Still
  <2>7. QED
    BY <2>5, <2>6 DEF Moves
(* A pull that is not under way, or no more. *)
<1>w. ASSUME NEW p \in Pullers, NEW P, P.pc \in {"off", "wait"}, pull' = [pull EXCEPT ![p] = P],
             UNCHANGED <<node, clock, mirror, since>>
      PROVE  Moves
  <2>1. Rests
    BY <1>0, <1>w DEF Rests, Still, Holds, TypeOK
  <2>2. QED
    BY <2>1 DEF Moves
<1>f. Off.pc = "off"
  BY DEF Off
<1>7. CASE ReadMap \/ Locked \/ TickFails
  <2>1. CASE ReadMap
    <3> DEFINE P == [pull[Tick] EXCEPT !.pc = "wait", !.ask = placed]
    <3>1. P.pc = "wait"
      BY <1>p, <1>t, WaitIsPull, ZenonT(60) DEF TypeOK
    <3>2. pull' = [pull EXCEPT ![Tick] = P] /\ UNCHANGED <<node, clock, mirror, since>>
      BY <2>1 DEF ReadMap
    <3> HIDE DEF P
    <3>3. Rests
      BY <1>0, <1>t, <3>1, <3>2 DEF Rests, Still, Holds, TypeOK
    <3>4. QED
      BY <3>3 DEF Moves
  <2>2. CASE Locked \/ TickFails
    BY <2>2, <1>w, <1>t, <1>f DEF Locked, TickFails
  <2>3. QED
    BY <1>7, <2>1, <2>2
<1>8. ASSUME NEW c \in Commands, Call(c) PROVE Moves
  <2>1. PICK s \in placed : pull' = [pull EXCEPT ![c].pc = "wait", ![c].ask = {s}]
                           /\ UNCHANGED <<node, clock, mirror, since>>
    BY <1>8 DEF Call
  <2> DEFINE P == [pull[c] EXCEPT !.pc = "wait", !.ask = {s}]
  <2>2. {s} \in SUBSET Sids
    BY DEF TypeOK
  <2>3. P.pc = "wait"
    BY <1>p, <1>t, <2>2, WaitIsPull
  <2>4. pull' = [pull EXCEPT ![c] = P]
    BY <2>1
  <2> HIDE DEF P
  <2>5. Rests
    BY <1>0, <1>t, <2>1, <2>3, <2>4 DEF Rests, Still, Holds, TypeOK
  <2>6. QED
    BY <2>5 DEF Moves
<1>9. ASSUME NEW c \in Commands, HeldTooLong(c) \/ NoAnswer(c) \/ Dies(c) PROVE Moves
  BY <1>9, <1>w, <1>t, <1>f DEF HeldTooLong, NoAnswer, Dies, Ends
<1>10. ASSUME NEW c \in Commands,
              Kill(c) \/ KillUnknown(c) \/ RecallStops(c) \/ RecallGoesOn(c) \/ Clear(c) \/ Stays(c)
       PROVE  Moves
  <2>1. Rests
    BY <1>0, <1>10 DEF Kill, KillUnknown, RecallStops, RecallGoesOn, Clear, Stays, Rests, Still
  <2>2. QED
    BY <2>1 DEF Moves
<1>11. CASE UNCHANGED vars
  <2>1. Rests
    BY <1>0, <1>11 DEF vars, Rests, Still
  <2>2. QED
    BY <2>1 DEF Moves
<1>12. CASE TickKeeps
  <2>1. Only(Tick) /\ pull'[Tick] = Off
    BY <1>12, <1>o, <1>t DEF TickKeeps, Holds
  <2>2. ~Holds(Tick)'
    BY <2>1, <1>f DEF Holds
  <2>3. \A s \in Sids : since'[s] = IF s \in pull[Tick].ask THEN NextMark(pull[Tick], s) ELSE 0
    BY <1>12 DEF TickKeeps
  <2>4. Turns(Tick)
    BY <1>0, <1>12, <2>1, <2>2, <2>3 DEF TickKeeps, Turns, Still
  <2>5. QED
    BY <1>t, <2>4 DEF Moves
(* What Marked writes. *)
<1>m. ASSUME NEW c \in Commands, Marked(pull[c])
      PROVE  \A s \in Sids :
               since'[s] = since[s] \/ (s \in pull[c].ask /\ since'[s] = NextMark(pull[c], s))
  BY <1>m DEF Marked
<1>13. ASSUME NEW c \in Commands, Unfinished(c) \/ Finished(c) PROVE Moves
  <2>1. /\ pull[c].pc = "store" /\ mirror' = Pruned(pull[c]) /\ Marked(pull[c])
        /\ pull' = [pull EXCEPT ![c] = Off] /\ UNCHANGED <<node, clock>>
    BY <1>13 DEF Unfinished, Finished, Ends
  <2>2. Only(c) /\ pull'[c] = Off
    BY <2>1, <1>o, <1>t DEF Holds
  <2>3. ~Holds(c)'
    BY <2>2, <1>f DEF Holds
  <2>4. Turns(c)
    BY <1>0, <1>m, <2>1, <2>2, <2>3 DEF Turns, Still
  <2>5. QED
    BY <1>t, <2>4 DEF Moves
(* What a further request asks. *)
<1>r. ASSUME NEW c \in Commands, NEW from, NEW full,
             pull' = [pull EXCEPT ![c] = Asked(pull[c].ask, from, full, pull[c].ever)],
             pull[c].pc = "store", UNCHANGED clock
      PROVE  /\ Only(c) /\ Fresh(pull'[c]) /\ pull'[c].ask = pull[c].ask /\ pull'[c].from = from
  <2> DEFINE P == Asked(pull[c].ask, from, full, pull[c].ever)
  <2>1. /\ P.pc = "scan" /\ P.now = clock /\ P.seen = Unseen /\ P.ask = pull[c].ask
        /\ P.todo = {f \in setup.files : Owner[f] \in P.ask} /\ P.from = from
    BY AskedFields
  <2>2. pull' = [pull EXCEPT ![c] = P]
    BY <1>r
  <2> HIDE DEF P
  <2>3. Only(c) /\ pull'[c] = P
    BY <1>r, <1>o, <1>t, <2>2 DEF Holds
  <2>4. QED
    BY <2>1, <2>3 DEF Fresh
<1>14. ASSUME NEW c \in Commands, AskAgain(c) PROVE Moves
  <2>1. /\ Only(c) /\ Fresh(pull'[c]) /\ pull'[c].ask = pull[c].ask
        /\ pull'[c].from = [s \in Sids |-> NextMark(pull[c], s)]
    BY <1>14, <1>r DEF AskAgain
  <2>2. pull[c].ask \in SUBSET Sids
    BY <1>p, <1>t, PullFields
  <2>3. Turns(c)
    BY <1>0, <1>14, <2>1, <2>2 DEF AskAgain, Turns, Still, Fresh
  <2>4. QED
    BY <1>t, <2>3 DEF Moves
<1>15. ASSUME NEW c \in Commands, Continue(c) PROVE Moves
  <2>1. /\ Only(c) /\ Fresh(pull'[c]) /\ pull'[c].ask = pull[c].ask /\ pull'[c].from = since'
    BY <1>15, <1>r DEF Continue
  <2>2. pull[c].ask \in SUBSET Sids
    BY <1>p, <1>t, PullFields
  <2>3. /\ Marked(pull[c]) /\ pull[c].pc = "store" /\ mirror' = Pruned(pull[c])
        /\ UNCHANGED <<node, clock>>
    BY <1>15 DEF Continue
  <2>4. \A s \in pull[c].ask : since'[s] = NextMark(pull[c], s)
    BY <2>2, <2>3 DEF Marked
  <2>5. Turns(c)
    BY <1>0, <1>m, <2>1, <2>3, <2>4 DEF Turns, Still
  <2>6. QED
    BY <1>t, <2>5 DEF Moves
<1>16. QED
  BY <1>t, <1>1, <1>2, <1>3, <1>4, <1>5, <1>6, <1>7, <1>8, <1>9, <1>10, <1>11, <1>12, <1>13, <1>14, <1>15
     DEF Next, allvars, World, Daemon, Command, Breaks-----------------------------------------------------------------------------
(* What a pull has seen of a file is no newer than the file, and what it   *)
(* can ship no older than what is home.                                    *)
Looked(P) == {f \in setup.files : Owner[f] \in P.ask} \ P.todo

Stamp(f, x) == /\ f \notin setup.files => x.at = 0 /\ x.ver = 0
               /\ f \notin Records /\ x.at = 0 => x.ver = 0

Sight(P) ==
  /\ P.todo \subseteq {f \in setup.files : Owner[f] \in P.ask}
  /\ P.pc = "store" => P.todo = {} /\ P.bad \subseteq P.ever
  /\ \A f \in Files : /\ Stamp(f, P.seen[f]) /\ P.seen[f].ver <= node[f].ver
                      /\ f \notin Looked(P) => P.seen[f].at = 0 /\ P.seen[f].ver = 0
                      /\ P.pc = "scan" /\ P.seen[f].at # 0 => mirror[f] <= P.seen[f].ver

Sights == /\ clock >= 1
          /\ \A f \in Files : Stamp(f, node[f]) /\ mirror[f] <= node[f].ver
          /\ \A p \in Pullers : Holds(p) => Sight(pull[p])

SInv == TInv /\ Clean /\ Sights

(* Every move keeps the sights.                                            *)
LEMMA SightStep == SInv /\ TInv' /\ [Next]_allvars => Sights'
<1> SUFFICES ASSUME TInv, TInv', Clean, Sights, Moves PROVE Sights'
  BY StepIsMove DEF SInv
<1>t. /\ node \in [Files -> [at : Nat, ver : Nat]] /\ clock \in Nat /\ mirror \in [Files -> Nat]
      /\ node' \in [Files -> [at : Nat, ver : Nat]] /\ clock' \in Nat /\ mirror' \in [Files -> Nat]
      /\ setup.files \subseteq Files
  BY DEF TInv, TypeOK
<1>p. \A p \in Pullers : pull[p] \in PullType /\ pull'[p] \in PullType
  BY DEF TInv, TypeOK
<1>s. \A p \in Pullers : /\ pull[p].seen \in [Files -> [at : Nat, ver : Nat]]
                         /\ pull[p].from \in [Sids -> Nat]
  BY <1>p, PullFields
<1>1. CASE NodeMoves
  <2>1. \A f \in Files : Stamp(f, node[f])' /\ node[f].ver <= node'[f].ver
    BY <1>1, <1>t DEF NodeMoves, Write, Remove, Passes, SetBack, Sights, Stamp
  <2>2. clock' >= 1
    BY <1>1, <1>t DEF NodeMoves, Write, Remove, Passes, SetBack, Sights
  <2>3. QED
    BY <1>1, <1>t, <1>s, <2>1, <2>2 DEF NodeMoves, Sights, Holds, Sight, Looked, Stamp
<1>2. CASE Rests
  BY <1>2 DEF Rests, Still, Sights, Holds, Sight, Looked, Stamp
<1>3. ASSUME NEW p \in Pullers, Begins(p) PROVE Sights'
  BY <1>3, <1>t DEF Begins, Fresh, Still, Only, Sights, Holds, Sight, Looked, Stamp, Unseen
<1>4. ASSUME NEW p \in Pullers, NEW f \in Files, Looks(p, f) PROVE Sights'
  <2>1. pull[p] \in PullType /\ node[f] \in [at : Nat, ver : Nat] /\ pull'[p] = Saw(pull[p], f)
        /\ pull[p].pc = "scan"
    BY <1>4, <1>p, <1>t DEF Looks
  <2>2. /\ pull'[p].pc = "scan" /\ pull'[p].ask = pull[p].ask /\ pull'[p].todo = pull[p].todo \ {f}
        /\ pull'[p].seen = [pull[p].seen EXCEPT ![f] = node[f]]
    BY <2>1, SawIsPull
  <2>3. Sight(pull[p])
    BY <1>4 DEF Looks, Sights, Holds
  <2>4. ASSUME NEW g \in Files, g # f
        PROVE  /\ Stamp(g, pull'[p].seen[g]) /\ pull'[p].seen[g].ver <= node[g].ver
               /\ g \notin Looked(pull[p])' => pull'[p].seen[g].at = 0 /\ pull'[p].seen[g].ver = 0
               /\ pull'[p].seen[g].at # 0 => mirror[g] <= pull'[p].seen[g].ver
    <3>1. pull'[p].seen[g] = pull[p].seen[g]
      BY <1>s, <2>2, <2>4
    <3>2. g \notin Looked(pull[p])' => g \notin Looked(pull[p])
      BY <1>4, <2>2, <2>4 DEF Looked, Looks, Still
    <3>3. QED
      BY <2>1, <2>3, <3>1, <3>2 DEF Sight
  <2>5. /\ Stamp(f, pull'[p].seen[f]) /\ pull'[p].seen[f].ver <= node[f].ver
        /\ f \notin Looked(pull[p])' => pull'[p].seen[f].at = 0 /\ pull'[p].seen[f].ver = 0
        /\ mirror[f] <= pull'[p].seen[f].ver
    <3>1. pull'[p].seen[f] = node[f]
      BY <1>s, <2>2
    <3>2. f \in Looked(pull[p])'
      BY <1>4, <2>1, <2>2, <2>3 DEF Looked, Looks, Still, Sight
    <3>3. QED
      BY <1>t, <3>1, <3>2 DEF Sights, Stamp
  <2>6. pull'[p].todo \subseteq {g \in setup.files : Owner[g] \in pull'[p].ask}
    BY <2>2, <2>3 DEF Sight
  <2>7. UNCHANGED <<node, mirror, setup, clock>> /\ pull'[p].pc # "store"
    BY <1>4, <2>2 DEF Looks, Still
  <2>8. Sight(pull[p])'
    BY <2>4, <2>5, <2>6, <2>7 DEF Sight, Stamp
  <2>9. QED
    BY <1>4, <2>7, <2>8 DEF Looks, Only, Sights, Stamp
<1>5. ASSUME NEW p \in Pullers, NEW S, NEW K, NEW bad, Lands(p, S, K, bad) PROVE Sights'
  <2>1. Sight(pull[p])
    BY <1>5 DEF Lands, Sights, Holds
  <2>2. \A f \in Files : mirror'[f] <= node[f].ver
    BY <1>5, <1>s, <1>t, <2>1 DEF Lands, Store, Sights, Sight
  <2>3. Sight(pull[p])'
    BY <1>5, <1>s, <1>t, <2>1 DEF Lands, Still, Sight, Looked, Stamp
  <2>4. QED
    BY <1>5, <2>2, <2>3 DEF Lands, Still, Only, Sights, Stamp
<1>6. ASSUME NEW p \in Pullers, Turns(p) PROVE Sights'
  <2>1. \A f \in Files : mirror'[f] <= node[f].ver
    BY <1>6, <1>s, <1>t DEF Turns, Pruned, Sights
  <2>2. Holds(p)' => Sight(pull[p])'
    BY <1>6, <1>t DEF Turns, Fresh, Still, Sight, Looked, Stamp, Unseen
  <2>3. QED
    BY <1>6, <2>1, <2>2 DEF Turns, Still, Only, Sights, Stamp
<1>7. QED
  BY <1>1, <1>2, <1>3, <1>4, <1>5, <1>6 DEF Moves-----------------------------------------------------------------------------
(* While no clock is set back, a watermark lies before the node's clock    *)
(* and before every file that is not home: also the marks a pull asks      *)
(* from, and those it will leave.                                          *)

(* The files a reply has brought whole, of the sessions it brought whole.  *)
Taken(P) == {f \in Files : /\ Owner[f] \in P.ask \ P.bad /\ f \notin P.cut
                           /\ f \in Records \/ Owner[f] \in P.full}

Reach(P) ==
  /\ P.now <= clock /\ \A s \in P.ask : since[s] < P.now /\ P.from[s] < P.now
  /\ \A f \in Looked(P) : node[f] = P.seen[f] \/ node[f].at >= P.now \/ node[f].at = 0
  /\ \A f \in Files : Owner[f] \in P.ask /\ Owed(f) => node[f].at > P.from[Owner[f]]
  /\ \A f \in Looked(P) : P.pc = "scan" /\ P.seen[f].at # 0 /\ mirror[f] # P.seen[f].ver =>
       P.seen[f].at > P.from[Owner[f]]
  /\ \A f \in Taken(P) : P.pc = "store" =>
       /\ Owed(f) => node[f].at >= P.now
       /\ f \notin Records => mirror[f] >= P.seen[f].ver

Marks == /\ \A s \in Sids : since[s] < clock
         /\ \A f \in Files : /\ node[f].at <= clock
                             /\ Owed(f) => node[f].at > since[Owner[f]]
         /\ \A p \in Pullers : Holds(p) => Reach(pull[p])

(* Every move keeps the marks, while no clock is set back.                 *)
LEMMA MarksStep == SInv /\ SInv' /\ ~StepsBack /\ Marks /\ [Next]_allvars => Marks'
<1> SUFFICES ASSUME SInv, SInv', ~StepsBack, Marks, Moves PROVE Marks'
  BY StepIsMove DEF SInv
<1>t. /\ node \in [Files -> [at : Nat, ver : Nat]] /\ clock \in Nat /\ mirror \in [Files -> Nat]
      /\ node' \in [Files -> [at : Nat, ver : Nat]] /\ clock' \in Nat /\ mirror' \in [Files -> Nat]
      /\ since \in [Sids -> Nat] /\ since' \in [Sids -> Nat] /\ setup.files \subseteq Files /\ clock >= 1
  BY DEF SInv, TInv, TypeOK, Sights
<1>p. \A p \in Pullers : pull[p] \in PullType /\ pull'[p] \in PullType
  BY DEF SInv, TInv, TypeOK
<1>s. \A p \in Pullers : /\ pull[p].seen \in [Files -> [at : Nat, ver : Nat]] /\ pull[p].now \in Nat
                         /\ pull[p].from \in [Sids -> Nat] /\ pull[p].ask \in SUBSET Sids
                         /\ pull'[p].now \in Nat /\ pull'[p].from \in [Sids -> Nat]
                         /\ pull'[p].ask \in SUBSET Sids
  BY <1>p, PullFields
<1>h. \A p \in Pullers : Holds(p) => Sight(pull[p]) /\ Reach(pull[p])
  BY DEF SInv, Sights, Marks
<1>n. \A f \in Files : Stamp(f, node[f]) /\ Owner[f] \in Sids
  BY DEF SInv, Sights
<1>1. CASE NodeMoves
  <2>1. clock <= clock' /\ UNCHANGED <<mirror, since, pull, setup>>
    BY <1>1, <1>t DEF NodeMoves, Write, Remove, Passes, SetBack
  <2>2. \A f \in Files : node'[f] = node[f] \/ node'[f].at = clock \/ node'[f].at = 0
    BY <1>1, <1>t DEF NodeMoves, Write, Remove, Passes, SetBack
  <2>3. \A f \in Files : Owed(f)' => \/ node'[f].at = clock
                                     \/ node'[f] = node[f] /\ Owed(f)
    BY <2>1, <2>2 DEF Owed
  <2>4. ASSUME NEW p \in Pullers, Holds(p)' PROVE Reach(pull[p])'
    <3>1. Reach(pull[p])
      BY <1>h, <2>1, <2>4 DEF Holds
    <3>2. QED
      BY <1>t, <1>s, <2>1, <2>2, <2>3, <3>1 DEF Reach, Looked, Taken
  <2>5. QED
    BY <1>t, <1>n, <2>1, <2>2, <2>3, <2>4 DEF Marks
<1>2. CASE Rests
  <2>1. \A p \in Pullers : Holds(p)' => Holds(p) /\ Reach(pull[p])'
    BY <1>2, <1>h DEF Rests, Still, Holds, Reach, Looked, Taken, Owed
  <2>2. QED
    BY <1>2, <2>1 DEF Rests, Still, Marks, Owed
<1>3. ASSUME NEW p \in Pullers, Begins(p) PROVE Marks'
  <2>1. Looked(pull'[p]) = {} /\ setup' = setup
    BY <1>3 DEF Begins, Fresh, Still, Looked
  <2>2. Reach(pull[p])'
    BY <1>3, <1>t, <1>s, <2>1 DEF Begins, Fresh, Still, Reach, Looked, Owed, Marks
  <2>3. QED
    BY <1>3, <2>2 DEF Begins, Still, Only, Marks, Owed
<1>4. ASSUME NEW p \in Pullers, NEW f \in Files, Looks(p, f) PROVE Marks'
  <2>1. pull[p] \in PullType /\ node[f] \in [at : Nat, ver : Nat] /\ pull'[p] = Saw(pull[p], f)
        /\ pull[p].pc = "scan" /\ Holds(p)
    BY <1>4, <1>p, <1>t DEF Looks, Holds
  <2>2. /\ pull'[p].pc = "scan" /\ pull'[p].ask = pull[p].ask /\ pull'[p].todo = pull[p].todo \ {f}
        /\ pull'[p].seen = [pull[p].seen EXCEPT ![f] = node[f]]
        /\ pull'[p].from = pull[p].from /\ pull'[p].now = pull[p].now
    BY <2>1, SawIsPull
  <2>3. UNCHANGED <<node, clock, mirror, since, setup>> /\ Only(p)
    BY <1>4 DEF Looks, Still
  <2>4. Reach(pull[p]) /\ Sight(pull[p])
    BY <1>h, <2>1
  <2>5. ASSUME NEW g \in Looked(pull[p])'
        PROVE  \/ g = f /\ pull'[p].seen[g] = node[g] /\ Owner[g] \in pull[p].ask
               \/ g \in Looked(pull[p]) /\ pull'[p].seen[g] = pull[p].seen[g]
    <3>1. g \in Files /\ Owner[g] \in pull[p].ask /\ g \in setup.files /\ (g # f => g \notin pull[p].todo)
      BY <1>t, <2>2, <2>3 DEF Looked
    <3>2. pull'[p].seen[g] = IF g = f THEN node[g] ELSE pull[p].seen[g]
      BY <1>s, <2>2, <3>1
    <3>3. QED
      BY <3>1, <3>2 DEF Looked
  <2>6. \A g \in Looked(pull[p])' : g \in Files
    BY <1>t, <2>3 DEF Looked
  <2>7. Owed(f) /\ Owner[f] \in pull[p].ask => node[f].at > pull[p].from[Owner[f]]
    BY <2>4 DEF Reach
  <2>8. \A g \in Looked(pull[p])' : pull'[p].seen[g].at # 0 /\ mirror[g] # pull'[p].seen[g].ver =>
          pull'[p].seen[g].at > pull[p].from[Owner[g]]
    <3> SUFFICES ASSUME NEW g \in Looked(pull[p])', pull'[p].seen[g].at # 0, mirror[g] # pull'[p].seen[g].ver
                 PROVE  pull'[p].seen[g].at > pull[p].from[Owner[g]]
      OBVIOUS
    <3>1. CASE g = f /\ pull'[p].seen[g] = node[g] /\ Owner[g] \in pull[p].ask
      BY <2>7, <3>1 DEF Owed
    <3>2. CASE g \in Looked(pull[p]) /\ pull'[p].seen[g] = pull[p].seen[g]
      BY <2>1, <2>4, <3>2 DEF Reach
    <3>3. QED
      BY <2>5, <3>1, <3>2
  <2>9. \A g \in Looked(pull[p])' :
          node[g] = pull'[p].seen[g] \/ node[g].at >= pull[p].now \/ node[g].at = 0
    BY <2>4, <2>5 DEF Reach
  <2>10. Reach(pull[p])'
    BY <2>2, <2>3, <2>4, <2>8, <2>9 DEF Reach, Owed
  <2>11. QED
    BY <2>3, <2>10 DEF Only, Marks, Owed
<1>5. ASSUME NEW p \in Pullers, NEW S, NEW K, NEW bad, Lands(p, S, K, bad) PROVE Marks'
  <2> DEFINE P == pull[p]
             Q == pull'[p]
  <2>1. /\ Q.pc = "store" /\ Q.ask = P.ask /\ Q.from = P.from /\ Q.full = P.full /\ Q.now = P.now
        /\ Q.todo = P.todo /\ Q.seen = P.seen /\ Q.cut = Offered(P) \ S /\ Q.bad = bad /\ P.todo = {}
        /\ P.pc = "scan" /\ K \subseteq S /\ S \subseteq Offered(P) /\ \A f \in S \ K : Owner[f] \in bad
        /\ mirror' = Store(P, K) /\ UNCHANGED <<node, clock, since, setup>> /\ Only(p)
    BY <1>5 DEF Lands, Still
  <2>2. Reach(P) /\ Sight(P)
    BY <1>h, <2>1 DEF Holds
  <2>3. P.seen \in [Files -> [at : Nat, ver : Nat]] /\ P.now \in Nat /\ P.from \in [Sids -> Nat]
        /\ P.ask \in SUBSET Sids
    BY <1>s
  <2> HIDE DEF P, Q
  (* A file its reader saw as it is: home now, or as it was. *)
  <2>4. ASSUME NEW f \in Files
        PROVE  /\ Owed(f)' /\ ~Owed(f) => Owner[f] \in P.ask /\ node[f].at >= P.now
               /\ Owed(f)' => node[f].at # 0
    <3>1. CASE mirror'[f] = mirror[f]
      BY <2>1, <3>1 DEF Owed
    <3>2. CASE mirror'[f] # mirror[f]
      <4>1. f \in K /\ node[f].at # 0 /\ mirror'[f] = P.seen[f].ver
        BY <2>1, <3>2 DEF Store
      <4>2. Owner[f] \in P.ask /\ P.seen[f].at > P.from[Owner[f]]
        BY <2>1, <4>1 DEF Offered
      <4>3. f \in Looked(P)
        BY <2>2, <2>3, <4>2 DEF Sight
      <4>4. node[f] = P.seen[f] \/ node[f].at >= P.now
        BY <2>2, <4>1, <4>3 DEF Reach
      <4>5. QED
        BY <2>1, <4>1, <4>2, <4>4 DEF Owed
    <3>3. QED
      BY <3>1, <3>2
  <2>5. \A f \in Files : Owed(f)' => /\ node[f].at > since[Owner[f]]
                                     /\ Owner[f] \in P.ask => node[f].at > P.from[Owner[f]]
    BY <1>n, <1>t, <2>2, <2>3, <2>4 DEF Marks, Reach
  <2>6. ASSUME NEW f \in Files, Owner[f] \in P.ask \ bad, f \notin Offered(P) \ S,
               f \in Records \/ Owner[f] \in P.full
        PROVE  /\ Owed(f)' => node[f].at >= P.now
               /\ f \notin Records => mirror'[f] >= P.seen[f].ver
    <3>1. f \in Offered(P) => f \in K
      BY <2>1, <2>6
    <3>2. f \in Offered(P) <=> P.seen[f].at > P.from[Owner[f]]
      BY <2>6 DEF Offered
    <3>3. f \in Looked(P) <=> f \in setup.files
      BY <2>1, <2>6 DEF Looked
    <3>4. f \notin setup.files => node[f].at = 0 /\ node[f].ver = 0 /\ P.seen[f].ver = 0
      BY <1>n, <2>2, <3>3 DEF Stamp, Sight
    <3>5. CASE f \notin setup.files
      BY <1>t, <2>1, <3>4, <3>5 DEF Owed
    <3>6. CASE f \in setup.files /\ f \in K
      <4>1. mirror'[f] = IF node[f].at # 0 THEN P.seen[f].ver ELSE mirror[f]
        BY <2>1, <3>6 DEF Store
      <4>2. node[f] = P.seen[f] \/ node[f].at >= P.now \/ node[f].at = 0
        BY <2>2, <3>3, <3>6 DEF Reach
      <4>3. P.seen[f].ver <= node[f].ver
        BY <2>2 DEF Sight
      <4>4. f \notin Records /\ node[f].at = 0 => node[f].ver = 0
        BY <1>n DEF Stamp
      <4>5. QED
        BY <1>t, <2>1, <2>3, <4>1, <4>2, <4>3, <4>4 DEF Owed
    <3>7. CASE f \in setup.files /\ f \notin K
      <4>1. mirror'[f] = mirror[f] /\ P.seen[f].at <= P.from[Owner[f]]
        BY <2>1, <2>3, <3>1, <3>2, <3>7 DEF Store
      <4>2. Owed(f)' => node[f].at > P.from[Owner[f]]
        BY <2>5, <2>6
      <4>3. node[f] = P.seen[f] \/ node[f].at >= P.now \/ node[f].at = 0
        BY <2>2, <3>3, <3>7 DEF Reach
      <4>4. P.seen[f].at # 0 => mirror[f] = P.seen[f].ver
        BY <2>1, <2>2, <2>3, <3>3, <3>7, <4>1 DEF Reach
      <4>5. f \notin Records /\ P.seen[f].at = 0 => P.seen[f].ver = 0
        BY <2>2 DEF Sight, Stamp
      <4>6. QED
        BY <1>t, <2>1, <2>3, <4>1, <4>2, <4>3, <4>4, <4>5 DEF Owed
    <3>8. QED
      BY <3>5, <3>6, <3>7
  <2>7. Reach(pull[p])'
    <3>1. \A f \in Taken(Q) : /\ f \in Files /\ Owner[f] \in P.ask \ bad /\ f \notin Offered(P) \ S
                              /\ f \in Records \/ Owner[f] \in P.full
      BY <2>1 DEF Taken
    <3>2. \A f \in Taken(Q) : /\ Owed(f)' => node[f].at >= P.now
                              /\ f \notin Records => mirror'[f] >= P.seen[f].ver
      BY <2>6, <3>1
    <3>3. Looked(pull[p])' = Looked(P)
      BY <2>1 DEF Looked, Q
    <3>4. QED
      BY <2>1, <2>2, <2>5, <3>2, <3>3 DEF Reach, Q, Taken
  <2>8. QED
    BY <2>1, <2>5, <2>7 DEF Only, Marks
<1>6. ASSUME NEW p \in Pullers, Turns(p) PROVE Marks'
  <2> DEFINE P == pull[p]
             m(s) == NextMark(P, s)
  <2>1. /\ Only(p) /\ P.pc = "store" /\ mirror' = Pruned(P) /\ UNCHANGED <<node, clock, setup>>
        /\ \A s \in Sids : since'[s] \in {since[s], 0} \/ (s \in P.ask /\ since'[s] = m(s))
        /\ Holds(p)' => /\ Fresh(pull'[p]) /\ pull'[p].ask = P.ask
                        /\ \A s \in P.ask : pull'[p].from[s] = m(s)
    BY <1>6 DEF Turns, Still
  <2>2. Reach(P) /\ Sight(P)
    BY <1>h, <2>1 DEF Holds
  <2>3. P \in PullType /\ P.seen \in [Files -> [at : Nat, ver : Nat]] /\ P.now \in Nat
        /\ P.from \in [Sids -> Nat] /\ P.ask \in SUBSET Sids
    BY <1>p, <1>s
  <2> HIDE DEF P
  <2>4. \A s \in P.ask :
          /\ m(s) \in Nat /\ m(s) < P.now
          /\ \/ m(s) <= P.from[s]
             \/ s \in P.full /\ s \notin P.bad /\ \A f \in P.cut \cap Of(s) : m(s) < P.seen[f].at
    BY <2>2, <2>3, MarkIsSafe DEF Reach
  <2> HIDE DEF m
  <2>5. ASSUME NEW f \in Files, Owed(f)', ~Owed(f)
        PROVE  Owner[f] \in P.ask /\ node[f].at >= P.now
    <3>1. f \in Records /\ Owner[f] \in P.ask \ P.bad /\ P.seen[f].at = 0
      BY <2>1, <2>5 DEF Owed, Pruned
    <3>2. node[f].at # 0
      BY <2>1, <2>5 DEF Owed
    <3>3. f \in Looked(P)
      BY <1>n, <2>1, <2>2, <3>1, <3>2 DEF Looked, Sight, Stamp
    <3>4. QED
      BY <2>2, <3>1, <3>2, <3>3 DEF Reach
  <2>6. ASSUME NEW f \in Files, Owner[f] \in P.ask, Owed(f)'
        PROVE  node[f].at > m(Owner[f])
    <3>1. CASE ~Owed(f)
      BY <1>t, <2>3, <2>4, <2>5, <2>6, <3>1
    <3>2. CASE Owed(f) /\ m(Owner[f]) <= P.from[Owner[f]]
      BY <1>t, <1>n, <2>2, <2>3, <2>4, <2>6, <3>2 DEF Reach
    <3>3. CASE /\ Owed(f) /\ Owner[f] \in P.full /\ Owner[f] \notin P.bad
               /\ \A g \in P.cut \cap Of(Owner[f]) : m(Owner[f]) < P.seen[g].at
      <4>1. CASE f \in P.cut
        <5>1. m(Owner[f]) < P.seen[f].at
          BY <3>3, <4>1 DEF Of
        <5>2. node[f].at # 0
          BY <3>3 DEF Owed
        <5>3. f \in Looked(P)
          BY <1>n, <2>1, <2>2, <2>6, <5>2 DEF Looked, Sight, Stamp
        <5>4. node[f] = P.seen[f] \/ node[f].at >= P.now
          BY <2>2, <5>2, <5>3 DEF Reach
        <5>5. QED
          BY <1>t, <2>3, <2>4, <2>6, <5>1, <5>4
      <4>2. CASE f \notin P.cut
        <5>1. f \in Taken(P)
          BY <2>6, <3>3, <4>2 DEF Taken
        <5>2. node[f].at >= P.now
          BY <2>1, <2>2, <3>3, <5>1 DEF Reach
        <5>3. QED
          BY <1>t, <2>3, <2>4, <2>6, <5>2
      <4>3. QED
        BY <4>1, <4>2
    <3>4. QED
      BY <2>4, <2>6, <3>1, <3>2, <3>3
  <2>7. \A f \in Files : Owed(f)' => node[f].at > since[Owner[f]]
    <3>1. \A f \in Files : Owed(f)' /\ ~Owed(f) => node[f].at > since[Owner[f]]
      BY <1>t, <1>n, <2>2, <2>3, <2>5 DEF Reach
    <3>2. QED
      BY <3>1 DEF Marks
  <2>8. \A f \in Files : Owed(f)' => node[f].at > since'[Owner[f]]
    <3> SUFFICES ASSUME NEW f \in Files, Owed(f)' PROVE node[f].at > since'[Owner[f]]
      OBVIOUS
    <3>1. node[f].at # 0
      BY <2>1 DEF Owed
    <3>2. QED
      BY <1>t, <1>n, <2>1, <2>6, <2>7, <3>1
  <2>9. \A s \in Sids : since'[s] < clock
    BY <1>t, <2>1, <2>2, <2>3, <2>4 DEF Marks, Reach
  <2>10. ASSUME Holds(p)' PROVE Reach(pull[p])'
    <3>1. /\ pull'[p].pc = "scan" /\ pull'[p].now = clock /\ pull'[p].ask = P.ask
          /\ \A s \in P.ask : pull'[p].from[s] = m(s)
          /\ pull'[p].todo = {f \in setup.files : Owner[f] \in P.ask}
      BY <2>1, <2>10 DEF Fresh
    <3>2. Looked(pull[p])' = {}
      BY <2>1, <3>1 DEF Looked
    <3>3. \A s \in P.ask : since'[s] < clock /\ m(s) < clock
      BY <1>t, <2>2, <2>3, <2>4, <2>9 DEF Reach
    <3>4. QED
      BY <2>1, <2>6, <3>1, <3>2, <3>3, <1>t DEF Reach
  <2>11. QED
    BY <2>1, <2>8, <2>9, <2>10 DEF Only, Marks
<1>7. QED
  BY <1>1, <1>2, <1>3, <1>4, <1>5, <1>6 DEF Moves-----------------------------------------------------------------------------
(* What a command set out to bring home it looks for, and it drops only    *)
(* the placement of a session that it brought home and ended.              *)
Promise(c) ==
  /\ \A f \in Files : cmd[c].owed[f] <= node[f].ver
  /\ cmd[c].pc = "pull" => pull[c].ask = cmd[c].sids /\ cmd[c].got = "not"
  /\ Holds(c) => \A f \in Looked(pull[c]) : cmd[c].owed[f] <= pull[c].seen[f].ver
  /\ cmd[c].pc = "clear" /\ cmd[c].kind = "down" =>
       cmd[c].got = "home" /\ cmd[c].sids \cap running = {}
Promises == \A c \in Commands : Promise(c)

Grows == /\ \A f \in Files : node[f].ver <= node'[f].ver
         /\ running' \subseteq running /\ UNCHANGED setup

(* A step that leaves a command alone keeps its promise.                   *)
LEMMA Frame ==
  ASSUME TInv, TInv', Grows, NEW d \in Commands, Promise(d), cmd'[d] = cmd[d],
         \/ pull'[d] = pull[d]
         \/ /\ pull'[d].ask = pull[d].ask
            /\ \A f \in Looked(pull'[d]) : cmd[d].owed[f] <= pull'[d].seen[f].ver
  PROVE  Promise(d)'
<1>1. /\ node \in [Files -> [at : Nat, ver : Nat]] /\ node' \in [Files -> [at : Nat, ver : Nat]]
      /\ cmd[d] \in CmdType
  BY DEF TInv, TypeOK
<1>2. cmd[d].owed \in [Files -> Nat]
  BY <1>1 DEF CmdType
<1>3. \A f \in Files : cmd[d].owed[f] <= node'[f].ver
  BY <1>1, <1>2 DEF Grows, Promise
<1>4. Looked(pull[d])' = Looked(pull'[d])
  BY DEF Looked, Grows
<1>5. cmd[d].pc = "clear" /\ cmd[d].kind = "down" => cmd[d].got = "home" /\ cmd[d].sids \cap running' = {}
  BY DEF Promise, Grows
<1>6. QED
  BY <1>3, <1>4, <1>5 DEF Promise, Holds

(* Files are only written on, and no session comes back.                   *)
LEMMA StepGrows == TInv /\ [Next]_allvars => Grows
<1> SUFFICES ASSUME TypeOK, [Next]_allvars PROVE Grows
  BY DEF TInv
<1>0. setup' = setup
  BY DEF Next, allvars
<1>1. ASSUME NEW f \in Files, Write(f) \/ Remove(f) PROVE Grows
  BY <1>0, <1>1 DEF Write, Remove, Grows, TypeOK
<1>2. CASE UNCHANGED <<node, running>>
  BY <1>0, <1>2 DEF Grows, TypeOK
<1>3. ASSUME NEW c \in Commands, Kill(c) \/ KillUnknown(c) PROVE Grows
  BY <1>0, <1>3 DEF Kill, KillUnknown, Grows, TypeOK
<1>4. ASSUME NEW p \in Pullers, Begin(p) \/ Look(p) \/ Land(p) \/ LandsBadly(p) PROVE UNCHANGED <<node, running>>
  BY <1>4 DEF Begin, Look, Land, LandsBadly
<1>5. CASE Passes \/ SetBack \/ TickFails \/ ReadMap \/ Locked \/ TickKeeps \/ UNCHANGED vars
  BY <1>2, <1>5 DEF Passes, SetBack, TickFails, ReadMap, Locked, TickKeeps, vars
<1>6. ASSUME NEW c \in Commands, HeldTooLong(c) \/ AskAgain(c) \/ Continue(c) \/ Unfinished(c) \/ Finished(c)
                                  \/ RecallStops(c) \/ RecallGoesOn(c) \/ Clear(c)
      PROVE  UNCHANGED <<node, running>>
  BY <1>6 DEF HeldTooLong, AskAgain, Continue, Unfinished, Finished, RecallStops, RecallGoesOn, Clear
<1>7. ASSUME NEW c \in Commands, NoAnswer(c) \/ Stays(c) \/ Dies(c) \/ Call(c)
      PROVE  UNCHANGED <<node, running>>
  BY <1>7 DEF NoAnswer, Stays, Dies, Call
<1>8. Tick \in Pullers /\ \A c \in Commands : c \in Pullers
  BY DEF Pullers
<1>9. QED
  BY <1>1, <1>2, <1>3, <1>4, <1>5, <1>6, <1>7, <1>8 DEF Next, allvars, World, Daemon, Command, Breaks

(* Every step keeps the promises, one action after another.                *)
LEMMA PromiseStep == SInv /\ TInv' /\ Promises /\ [Next]_allvars => Promises'
<1> SUFFICES ASSUME SInv, TInv', Promises, [Next]_allvars PROVE Promises'
  OBVIOUS
<1>g. TInv /\ TypeOK /\ Grows /\ pull \in [Pullers -> PullType] /\ cmd \in [Commands -> CmdType]
  BY StepGrows DEF SInv, TInv, TypeOK
<1>t. Tick \in Pullers /\ \A c \in Commands : c \in Pullers /\ c # Tick
  BY PullersAssumption DEF Pullers
<1>f. Off.pc = "off"
  BY DEF Off
(* Commands that a step leaves alone. *)
<1>o. ASSUME NEW d \in Commands, cmd'[d] = cmd[d], pull'[d] = pull[d] PROVE Promise(d)'
  BY <1>g, <1>o, Frame DEF Promises
<1>1. CASE UNCHANGED <<cmd, pull>>
  BY <1>o, <1>1 DEF Promises
<1>2. CASE UNCHANGED cmd /\ \E P : pull' = [pull EXCEPT ![Tick] = P]
  BY <1>g, <1>t, <1>o, <1>2 DEF Promises
(* A new request. *)
<1>a. ASSUME NEW p \in Pullers, NEW from, NEW full, NEW ever, UNCHANGED cmd,
             pull' = [pull EXCEPT ![p] = Asked(pull[p].ask, from, full, ever)], UNCHANGED clock
      PROVE  Promises'
  <2> DEFINE P == Asked(pull[p].ask, from, full, ever)
  <2>1. P.ask = pull[p].ask /\ P.todo = {f \in setup.files : Owner[f] \in P.ask}
    BY AskedFields
  <2>2. Looked(P) = {}
    BY <2>1 DEF Looked
  <2>3. pull' = [pull EXCEPT ![p] = P]
    BY <1>a
  <2> HIDE DEF P
  <2>4. ASSUME NEW d \in Commands PROVE Promise(d)'
    <3>1. CASE d = p
      <4>1. pull'[d] = P
        BY <1>g, <2>3, <3>1
      <4>2. Promise(d) /\ cmd'[d] = cmd[d]
        BY <1>a DEF Promises
      <4>3. QED
        BY <1>g, <2>1, <2>2, <3>1, <4>1, <4>2, Frame
    <3>2. CASE d # p
      BY <1>a, <1>g, <1>o, <1>t, <2>3, <3>2
    <3>3. QED
      BY <3>1, <3>2
  <2>5. QED
    BY <2>4 DEF Promises
<1>3. ASSUME NEW p \in Pullers, Begin(p) PROVE Promises'
  BY <1>3, <1>a DEF Begin
<1>4. ASSUME NEW c \in Commands, AskAgain(c) \/ Continue(c) PROVE Promises'
  BY <1>4, <1>a, <1>t DEF AskAgain, Continue
<1>5. ASSUME NEW p \in Pullers, Look(p) PROVE Promises'
  <2> DEFINE f == NextFile(pull[p].todo)
             P == Saw(pull[p], f)
  <2>1. pull[p] \in PullType /\ node \in [Files -> [at : Nat, ver : Nat]]
    BY <1>g DEF TypeOK
  <2>2. f \in Files /\ node[f] \in [at : Nat, ver : Nat]
    BY <1>5, <2>1, PullFields DEF Look, NextFile
  <2>3. P.ask = pull[p].ask /\ P.todo = pull[p].todo \ {f} /\ P.seen = [pull[p].seen EXCEPT ![f] = node[f]]
    BY <2>1, <2>2, SawIsPull
  <2>4. pull' = [pull EXCEPT ![p] = P] /\ UNCHANGED cmd /\ Holds(p)
    BY <1>5 DEF Look, Saw, Holds
  <2>5. pull[p].seen \in [Files -> [at : Nat, ver : Nat]]
    BY <2>1, PullFields
  <2> HIDE DEF P, f
  <2>6. ASSUME NEW d \in Commands PROVE Promise(d)'
    <3>1. CASE d = p
      <4>1. pull'[d] = P /\ Promise(d) /\ cmd'[d] = cmd[d]
        BY <1>g, <2>4, <3>1 DEF Promises
      <4>2. ASSUME NEW g \in Looked(P) PROVE cmd[d].owed[g] <= P.seen[g].ver
        <5>1. g \in Files /\ (g = f \/ g \in Looked(pull[p]))
          BY <1>g, <2>3 DEF Looked, SInv, TInv
        <5>2. P.seen[g] = IF g = f THEN node[g] ELSE pull[p].seen[g]
          BY <2>3, <2>5, <5>1
        <5>3. QED
          BY <2>4, <3>1, <4>1, <5>1, <5>2 DEF Promise
      <4>3. QED
        BY <1>g, <2>3, <3>1, <4>1, <4>2, Frame
    <3>2. CASE d # p
      BY <1>g, <1>o, <1>t, <2>4, <3>2
    <3>3. QED
      BY <3>1, <3>2
  <2>7. QED
    BY <2>6 DEF Promises
<1>6. ASSUME NEW p \in Pullers, Land(p) \/ LandsBadly(p) PROVE Promises'
  <2>1. PICK P : /\ pull' = [pull EXCEPT ![p] = P] /\ P.ask = pull[p].ask /\ P.todo = pull[p].todo
                 /\ P.seen = pull[p].seen
    <3>1. CASE Land(p)
      <4>1. PICK S : pull' = [pull EXCEPT ![p].pc = "store", ![p].cut = S]
        BY <3>1 DEF Land
      <4> DEFINE P == [pull[p] EXCEPT !.pc = "store", !.cut = S]
      <4>2. P.ask = pull[p].ask /\ P.todo = pull[p].todo /\ P.seen = pull[p].seen
        BY <1>g DEF PullType
      <4>3. pull' = [pull EXCEPT ![p] = P]
        BY <4>1
      <4> HIDE DEF P
      <4>4. QED
        BY <4>2, <4>3
    <3>2. CASE LandsBadly(p)
      <4>1. PICK S, s : pull' = [pull EXCEPT ![p].pc = "store", ![p].cut = S, ![p].bad = {s},
                                             ![p].ever = @ \cup {s}]
        BY <3>2 DEF LandsBadly
      <4> DEFINE P == [pull[p] EXCEPT !.pc = "store", !.cut = S, !.bad = {s}, !.ever = @ \cup {s}]
      <4>2. P.ask = pull[p].ask /\ P.todo = pull[p].todo /\ P.seen = pull[p].seen
        BY <1>g DEF PullType
      <4>3. pull' = [pull EXCEPT ![p] = P]
        BY <4>1
      <4> HIDE DEF P
      <4>4. QED
        BY <4>2, <4>3
    <3>3. QED
      BY <1>6, <3>1, <3>2
  <2>2. UNCHANGED cmd /\ Holds(p) /\ Looked(P) = Looked(pull[p])
    BY <1>6, <2>1 DEF Land, LandsBadly, Holds, Looked
  <2>3. ASSUME NEW d \in Commands PROVE Promise(d)'
    <3>1. CASE d = p
      <4>1. pull'[d] = P /\ Promise(d) /\ cmd'[d] = cmd[d]
        BY <1>g, <2>1, <2>2, <3>1 DEF Promises
      <4>2. \A f \in Looked(P) : cmd[d].owed[f] <= P.seen[f].ver
        BY <2>1, <2>2, <3>1, <4>1 DEF Promise
      <4>3. QED
        BY <1>g, <2>1, <3>1, <4>1, <4>2, Frame
    <3>2. CASE d # p
      BY <1>g, <1>o, <1>t, <2>1, <2>2, <3>2
    <3>3. QED
      BY <3>1, <3>2
  <2>4. QED
    BY <2>3 DEF Promises
<1>7. CASE ReadMap \/ Locked \/ TickFails \/ TickKeeps
  <2>1. UNCHANGED cmd
    BY <1>7 DEF ReadMap, Locked, TickFails, TickKeeps
  <2>2. \A d \in Commands : pull'[d] = pull[d]
    BY <1>7, <1>g, <1>t DEF ReadMap, Locked, TickFails, TickKeeps
  <2>3. QED
    BY <1>o, <2>1, <2>2 DEF Promises
(* Steps of a command's own. *)
<1>c. ASSUME NEW c \in Commands, NEW C, cmd' = [cmd EXCEPT ![c] = C], Promise(c)',
             UNCHANGED pull \/ \E P : pull' = [pull EXCEPT ![c] = P]
      PROVE  Promises'
  <2>1. \A d \in Commands \ {c} : cmd'[d] = cmd[d] /\ pull'[d] = pull[d]
    BY <1>c, <1>g, <1>t
  <2>2. QED
    BY <1>c, <1>o, <2>1 DEF Promises
<1>n. node \in [Files -> [at : Nat, ver : Nat]] /\ node' \in [Files -> [at : Nat, ver : Nat]]
  BY DEF SInv, TInv, TypeOK
<1>8. ASSUME NEW c \in Commands, Call(c) PROVE Promises'
  <2>1. PICK s \in placed, kind \in {"down", "recall"} :
          /\ cmd' = [cmd EXCEPT ![c] = [pc |-> "pull", kind |-> kind, sids |-> {s},
                 owed |-> [f \in Files |-> IF Owner[f] = s THEN node[f].ver ELSE 0], got |-> "not"]]
          /\ pull' = [pull EXCEPT ![c].pc = "wait", ![c].ask = {s}] /\ UNCHANGED node
    BY <1>8 DEF Call
  <2> DEFINE P == [pull[c] EXCEPT !.pc = "wait", !.ask = {s}]
             C == [pc |-> "pull", kind |-> kind, sids |-> {s},
                   owed |-> [f \in Files |-> IF Owner[f] = s THEN node[f].ver ELSE 0], got |-> "not"]
  <2>2. {s} \in SUBSET Sids /\ pull[c] \in PullType
    BY <1>g, <1>t DEF TypeOK
  <2>3. P.pc = "wait" /\ P.ask = {s}
    BY <2>2, WaitIsPull
  <2>4. C.pc = "pull" /\ C.sids = {s} /\ C.got = "not" /\ \A f \in Files : C.owed[f] <= node[f].ver
    BY <1>n
  <2>5. pull' = [pull EXCEPT ![c] = P] /\ cmd' = [cmd EXCEPT ![c] = C] /\ UNCHANGED node
    BY <2>1
  <2> HIDE DEF P, C
  <2>6. pull'[c] = P /\ cmd'[c] = C
    BY <1>g, <1>t, <2>5
  <2>7. Promise(c)'
    BY <2>3, <2>4, <2>5, <2>6 DEF Promise, Holds
  <2>8. QED
    BY <1>c, <2>5, <2>7
<1>d. \A c \in Commands : cmd[c] \in CmdType /\ cmd[c].owed \in [Files -> Nat]
                          /\ \A f \in Files : cmd[c].owed[f] <= node'[f].ver
  <2>1. \A c \in Commands : cmd[c] \in CmdType /\ cmd[c].owed \in [Files -> Nat]
    BY <1>g DEF CmdType
  <2>2. QED
    BY <1>g, <1>n, <2>1 DEF Promises, Promise, Grows
<1>e. \A c \in Commands : \A got :
        LET C == [cmd[c] EXCEPT !.pc = "stop", !.got = got]
            D == [cmd[c] EXCEPT !.pc = "stop"]  E == [cmd[c] EXCEPT !.pc = "clear"] IN
        /\ C.pc = "stop" /\ C.owed = cmd[c].owed /\ C.sids = cmd[c].sids /\ C.got = got
        /\ D.pc = "stop" /\ D.owed = cmd[c].owed
        /\ E.pc = "clear" /\ E.owed = cmd[c].owed /\ E.kind = cmd[c].kind /\ E.got = cmd[c].got
        /\ E.sids = cmd[c].sids
  BY <1>d DEF CmdType
(* The final pull is over. *)
<1>9. ASSUME NEW c \in Commands, HeldTooLong(c) \/ NoAnswer(c) \/ Unfinished(c) \/ Finished(c)
      PROVE  Promises'
  <2>1. PICK C : /\ cmd' = [cmd EXCEPT ![c] = C] /\ C.pc = "stop" /\ C.owed = cmd[c].owed
    <3>1. CASE HeldTooLong(c)
      <4> DEFINE D == [cmd[c] EXCEPT !.pc = "stop"]
      <4>1. D.pc = "stop" /\ D.owed = cmd[c].owed
        BY <1>e
      <4>2. cmd' = [cmd EXCEPT ![c] = D]
        BY <3>1 DEF HeldTooLong
      <4> HIDE DEF D
      <4>3. QED
        BY <4>1, <4>2
    <3>2. CASE NoAnswer(c) \/ Unfinished(c) \/ Finished(c)
      <4>1. PICK got : Ends(c, got)
        BY <3>2 DEF NoAnswer, Unfinished, Finished
      <4> DEFINE D == [cmd[c] EXCEPT !.pc = "stop", !.got = got]
      <4>2. D.pc = "stop" /\ D.owed = cmd[c].owed
        BY <1>e
      <4>3. cmd' = [cmd EXCEPT ![c] = D]
        BY <4>1 DEF Ends
      <4> HIDE DEF D
      <4>4. QED
        BY <4>2, <4>3
    <3>3. QED
      BY <1>9, <3>1, <3>2
  <2>2. pull' = [pull EXCEPT ![c] = Off]
    BY <1>9 DEF HeldTooLong, NoAnswer, Unfinished, Finished, Ends
  <2>3. pull'[c] = Off /\ cmd'[c] = C
    BY <1>g, <1>t, <2>1, <2>2
  <2>4. Promise(c)'
    BY <1>d, <1>f, <2>1, <2>3 DEF Promise, Holds
  <2>5. QED
    BY <1>c, <2>1, <2>2, <2>4
(* The command is over. *)
<1>i. ASSUME NEW c \in Commands, Done(c), UNCHANGED pull \/ pull' = [pull EXCEPT ![c] = Off]
      PROVE  Promises'
  <2>1. cmd'[c] = Idle
    BY <1>i, <1>g DEF Done
  <2>2. Idle.pc = "idle" /\ \A f \in Files : Idle.owed[f] = 0
    BY DEF Idle
  <2>3. pull'[c].pc = "off"
    BY <2>1, <2>2, <1>t DEF TInv, TypeOK
  <2>4. Promise(c)'
    BY <1>n, <2>1, <2>2, <2>3 DEF Promise, Holds
  <2>5. QED
    BY <1>c, <1>i, <2>4 DEF Done
<1>10. ASSUME NEW c \in Commands, RecallStops(c) \/ Clear(c) \/ Stays(c) \/ Dies(c) PROVE Promises'
  BY <1>10, <1>i DEF RecallStops, Clear, Stays, Dies
(* The command goes on to the map. *)
<1>l. ASSUME NEW c \in Commands, cmd[c].pc = "stop", cmd' = [cmd EXCEPT ![c].pc = "clear"], UNCHANGED pull,
             cmd[c].kind = "down" => cmd[c].got = "home" /\ running' = running \ cmd[c].sids
      PROVE  Promises'
  <2> DEFINE C == [cmd[c] EXCEPT !.pc = "clear"]
  <2>1. C.pc = "clear" /\ C.owed = cmd[c].owed /\ C.kind = cmd[c].kind /\ C.got = cmd[c].got
        /\ C.sids = cmd[c].sids
    BY <1>e
  <2>2. cmd' = [cmd EXCEPT ![c] = C]
    BY <1>l
  <2> HIDE DEF C
  <2>3. cmd'[c] = C /\ pull'[c].pc = "off"
    BY <1>g, <1>l, <1>t, <2>2 DEF TypeOK
  <2>4. Promise(c)'
    BY <1>d, <1>l, <2>1, <2>3 DEF Promise, Holds
  <2>5. QED
    BY <1>c, <1>l, <2>2, <2>4
<1>11. ASSUME NEW c \in Commands, Kill(c) \/ KillUnknown(c) \/ RecallGoesOn(c) PROVE Promises'
  BY <1>11, <1>i, <1>l DEF Kill, KillUnknown, RecallGoesOn
<1>12. ASSUME NEW f \in Files, Write(f) \/ Remove(f) PROVE UNCHANGED <<cmd, pull>>
  BY <1>12 DEF Write, Remove, pc_vars
<1>13. CASE Passes \/ SetBack \/ UNCHANGED vars
  BY <1>1, <1>13 DEF Passes, SetBack, pc_vars, vars
<1>14. QED
  BY <1>t, <1>1, <1>3, <1>4, <1>5, <1>6, <1>7, <1>8, <1>9, <1>10, <1>11, <1>12, <1>13
     DEF Next, allvars, World, Daemon, Command, Breaks
-----------------------------------------------------------------------------
(* A transcript at home only gets longer.                                  *)
LEMMA MirrorGrows ==
  SInv /\ TInv' /\ [Next]_allvars =>
    \A f \in Files : mirror'[f] >= mirror[f] \/ (f \in Records /\ mirror'[f] = 0)
<1> SUFFICES ASSUME SInv, TInv', Moves, NEW f \in Files
             PROVE  mirror'[f] >= mirror[f] \/ (f \in Records /\ mirror'[f] = 0)
  BY StepIsMove DEF SInv
<1>t. mirror[f] \in Nat /\ mirror'[f] \in Nat
  BY DEF SInv, TInv, TypeOK
<1>1. CASE UNCHANGED mirror
  BY <1>t, <1>1
<1>2. ASSUME NEW p \in Pullers, NEW S, NEW K, NEW bad, Lands(p, S, K, bad)
      PROVE  mirror'[f] >= mirror[f]
  <2>1. CASE f \in K /\ node[f].at # 0
    <3>1. f \in Offered(pull[p]) /\ mirror'[f] = pull[p].seen[f].ver
      BY <1>2, <2>1 DEF Lands, Store
    <3>2. pull[p].seen[f].at # 0
      <4>1. pull[p].seen[f].at \in Nat /\ pull[p].from \in [Sids -> Nat] /\ Owner[f] \in Sids
        BY PullFields DEF SInv, TInv, TypeOK
      <4>2. QED
        BY <3>1, <4>1 DEF Offered
    <3>3. QED
      BY <1>2, <1>t, <3>1, <3>2 DEF Lands, SInv, Sights, Sight, Holds
  <2>2. CASE ~(f \in K /\ node[f].at # 0)
    BY <1>2, <1>t, <2>2 DEF Lands, Store
  <2>3. QED
    BY <2>1, <2>2
<1>3. ASSUME NEW p \in Pullers, Turns(p)
      PROVE  mirror'[f] = mirror[f] \/ (f \in Records /\ mirror'[f] = 0)
  BY <1>3 DEF Turns, Pruned
<1>4. QED
  BY <1>t, <1>1, <1>2, <1>3 DEF Moves, NodeMoves, Rests, Begins, Looks-----------------------------------------------------------------------------
(* What the final pull says it brought home is home, and stays.            *)
Home(c) == cmd[c].got = "home" =>
             \A s \in cmd[c].sids : \A f \in Of(s) \ Records : mirror[f] >= cmd[c].owed[f]

Full == SInv /\ Promises /\ (~StepsBack => Marks /\ LastTurn)

(* Every step keeps what came home, and a final pull that ends well adds   *)
(* to it only what is there.                                               *)
LEMMA HomeStep == Full /\ SInv' /\ Promises' /\ ~StepsBack /\ [Next]_allvars => LastTurn'
<1> SUFFICES ASSUME Full, SInv', Promises', ~StepsBack, [Next]_allvars, NEW c \in Commands PROVE Home(c)'
  BY DEF LastTurn, Home
<1>g. SInv /\ TInv /\ TypeOK /\ pull \in [Pullers -> PullType] /\ cmd \in [Commands -> CmdType]
      /\ mirror \in [Files -> Nat] /\ mirror' \in [Files -> Nat] /\ Home(c) /\ Promise(c) /\ c \in Pullers
  BY DEF Full, SInv, TInv, TypeOK, LastTurn, Home, Promises, Pullers
<1>c. cmd[c] \in CmdType /\ cmd[c].owed \in [Files -> Nat]
  BY <1>g DEF CmdType
<1>m. \A f \in Files \ Records : mirror'[f] >= mirror[f]
  <2>1. TInv'
    BY DEF SInv
  <2>2. QED
    BY <1>g, <2>1, MirrorGrows
<1>k. ASSUME cmd'[c].got = cmd[c].got, cmd'[c].sids = cmd[c].sids, cmd'[c].owed = cmd[c].owed
      PROVE  Home(c)'
  <2> SUFFICES ASSUME cmd[c].got = "home", NEW s \in cmd[c].sids, NEW f \in Of(s) \ Records
               PROVE  mirror'[f] >= cmd[c].owed[f]
    BY <1>k DEF Home, Of
  <2>1. f \in Files /\ mirror[f] >= cmd[c].owed[f]
    BY <1>g DEF Home, Of
  <2>2. QED
    BY <1>c, <1>g, <1>m, <2>1
<1>1. CASE UNCHANGED cmd
  BY <1>k, <1>1
<1>n. ASSUME cmd'[c].got # "home" PROVE Home(c)'
  BY <1>n DEF Home
<1>2. ASSUME NEW d \in Commands, NEW C, cmd' = [cmd EXCEPT ![d] = C], d # c PROVE Home(c)'
  BY <1>g, <1>k, <1>2
<1>3. ASSUME Done(c) PROVE Home(c)'
  <2>1. cmd'[c] = Idle /\ Idle.got = "not"
    BY <1>3, <1>g DEF Done, Idle
  <2>2. QED
    BY <1>n, <2>1
<1>e. \A pc, got :
        LET C == [cmd[c] EXCEPT !.pc = pc, !.got = got]  D == [cmd[c] EXCEPT !.pc = pc] IN
        /\ C.got = got /\ C.sids = cmd[c].sids /\ C.owed = cmd[c].owed
        /\ D.got = cmd[c].got /\ D.sids = cmd[c].sids /\ D.owed = cmd[c].owed
  BY <1>c DEF CmdType
<1>4. ASSUME NEW pc, cmd' = [cmd EXCEPT ![c].pc = pc] PROVE Home(c)'
  <2> DEFINE D == [cmd[c] EXCEPT !.pc = pc]
  <2>1. D.got = cmd[c].got /\ D.sids = cmd[c].sids /\ D.owed = cmd[c].owed
    BY <1>e
  <2>2. cmd' = [cmd EXCEPT ![c] = D]
    BY <1>4
  <2> HIDE DEF D
  <2>3. QED
    BY <1>g, <1>k, <2>1, <2>2
<1>5. ASSUME NEW got, Ends(c, got)
      PROVE  cmd'[c].got = got /\ cmd'[c].sids = cmd[c].sids /\ cmd'[c].owed = cmd[c].owed
  <2> DEFINE C == [cmd[c] EXCEPT !.pc = "stop", !.got = got]
  <2>1. C.got = got /\ C.sids = cmd[c].sids /\ C.owed = cmd[c].owed
    BY <1>e
  <2>2. cmd' = [cmd EXCEPT ![c] = C]
    BY <1>5 DEF Ends
  <2> HIDE DEF C
  <2>3. QED
    BY <1>g, <2>1, <2>2
<1>6. ASSUME Call(c) PROVE Home(c)'
  <2>1. cmd'[c].got = "not"
    BY <1>6, <1>g DEF Call
  <2>2. QED
    BY <1>n, <2>1
<1>7. ASSUME NoAnswer(c) \/ Unfinished(c) PROVE Home(c)'
  <2>1. PICK got \in {"gone", "not"} : Ends(c, got)
    BY <1>7 DEF NoAnswer, Unfinished
  <2>2. QED
    BY <1>5, <1>n, <2>1
<1>8. ASSUME Finished(c) PROVE Home(c)'
  <2> DEFINE P == pull[c]
  <2>1. /\ P.pc = "store" /\ P.ask \subseteq P.full /\ P.cut = {} /\ P.ever = {} /\ mirror' = Pruned(P)
        /\ Ends(c, "home")
    BY <1>8 DEF Finished, Learns
  <2>2. Holds(c) /\ cmd[c].pc = "pull"
    BY <1>g, <2>1 DEF Holds, TypeOK
  <2>3. Sight(P) /\ Reach(P) /\ P.ask = cmd[c].sids
    BY <1>g, <2>2 DEF Full, SInv, Sights, Marks, Promise
  <2>4. P.bad = {} /\ P.todo = {}
    BY <2>1, <2>3 DEF Sight
  <2>5. P.ask \in SUBSET Sids /\ P.seen \in [Files -> [at : Nat, ver : Nat]]
    BY <1>g, PullFields
  <2>6. ASSUME NEW s \in cmd[c].sids, NEW f \in Of(s) \ Records
        PROVE  mirror'[f] >= cmd[c].owed[f]
    <3>1. f \in Files /\ Owner[f] = s /\ s \in P.ask
      BY <2>3 DEF Of
    <3>2. mirror'[f] = mirror[f]
      BY <2>1, <3>1 DEF Pruned
    <3>3. f \in Taken(P)
      BY <2>1, <2>4, <3>1 DEF Taken
    <3>4. mirror[f] >= P.seen[f].ver
      BY <2>1, <2>3, <3>3 DEF Reach
    <3>5. cmd[c].owed[f] <= P.seen[f].ver
      <4>1. CASE f \in setup.files
        BY <1>g, <2>2, <2>4, <3>1, <4>1 DEF Looked, Promise
      <4>2. CASE f \notin setup.files
        <5>1. node[f].ver = 0 /\ P.seen[f].ver \in Nat /\ cmd[c].owed[f] <= node[f].ver
          BY <1>g, <2>5, <3>1, <4>2 DEF SInv, Sights, Stamp, Promise
        <5>2. QED
          BY <1>c, <3>1, <5>1
      <4>3. QED
        BY <4>1, <4>2
    <3>6. QED
      BY <1>c, <1>g, <2>5, <3>1, <3>2, <3>4, <3>5
  <2>7. QED
    BY <1>5, <2>1, <2>6 DEF Home
<1>9. ASSUME NEW d \in Commands,
             HeldTooLong(d) \/ NoAnswer(d) \/ Unfinished(d) \/ Finished(d) \/ Call(d)
      PROVE  Home(c)'
  <2>1. d # c => \E C : cmd' = [cmd EXCEPT ![d] = C]
    <3>1. CASE HeldTooLong(d)
      BY <3>1 DEF HeldTooLong
    <3>2. CASE NoAnswer(d) \/ Unfinished(d) \/ Finished(d)
      BY <3>2 DEF NoAnswer, Unfinished, Finished, Ends
    <3>3. CASE Call(d)
      BY <3>3 DEF Call
    <3>4. QED
      BY <1>9, <3>1, <3>2, <3>3
  <2>2. d = c => Home(c)'
    BY <1>4, <1>6, <1>7, <1>8, <1>9 DEF HeldTooLong
  <2>3. QED
    BY <1>2, <2>1, <2>2
<1>10. ASSUME NEW d \in Commands,
              Kill(d) \/ KillUnknown(d) \/ RecallStops(d) \/ RecallGoesOn(d) \/ Clear(d) \/ Stays(d) \/ Dies(d)
       PROVE  Home(c)'
  <2>1. Done(d) \/ cmd' = [cmd EXCEPT ![d].pc = "clear"]
    BY <1>10 DEF Kill, KillUnknown, RecallStops, RecallGoesOn, Clear, Stays, Dies
  <2>2. d # c => \E C : cmd' = [cmd EXCEPT ![d] = C]
    BY <2>1 DEF Done
  <2>3. QED
    BY <1>2, <1>3, <1>4, <2>1, <2>2
<1>11. ASSUME NEW d \in Commands, AskAgain(d) \/ Continue(d) PROVE UNCHANGED cmd
  BY <1>11 DEF AskAgain, Continue
<1>12. ASSUME NEW p \in Pullers, Begin(p) \/ Look(p) \/ Land(p) \/ LandsBadly(p) PROVE UNCHANGED cmd
  BY <1>12 DEF Begin, Look, Land, LandsBadly
<1>13. CASE ReadMap \/ Locked \/ TickFails \/ TickKeeps \/ Passes \/ SetBack \/ UNCHANGED vars
  BY <1>1, <1>13 DEF ReadMap, Locked, TickFails, TickKeeps, Passes, SetBack, pc_vars, vars
<1>14. ASSUME NEW f \in Files, Write(f) \/ Remove(f) PROVE UNCHANGED cmd
  BY <1>14 DEF Write, Remove, pc_vars
<1>15. Tick \in Pullers /\ \A d \in Commands : d \in Pullers
  BY DEF Pullers
<1>16. QED
  BY <1>1, <1>9, <1>10, <1>11, <1>12, <1>13, <1>14, <1>15
     DEF Next, allvars, World, Daemon, Command, Breaks
-----------------------------------------------------------------------------
(* The inductive invariant: at the start, kept by every step, always.      *)
LEMMA InitFull == Init => Full
<1> SUFFICES ASSUME Init PROVE Full
  OBVIOUS
<1>1. setup.files \subseteq Files
  BY SetupsAssumption DEF Init
<1>2. Off \in PullType /\ Off.pc = "off" /\ Off.bad = {}
  BY OffIsPull DEF Off
<1>3. Idle \in CmdType /\ Idle.pc = "idle" /\ Idle.got = "not" /\ \A f \in Files : Idle.owed[f] = 0
  BY DEF Idle, CmdType
<1>4. Unseen \in [Files -> [at : Nat, ver : Nat]] /\ \A f \in Files : Unseen[f].at = 0 /\ Unseen[f].ver = 0
  BY DEF Unseen
<1>5. Tick \in Pullers /\ NoOne \notin Pullers /\ \A c \in Commands : c \in Pullers
  BY PullersAssumption DEF Pullers
<1>6. TInv
  BY <1>1, <1>2, <1>3, <1>4, <1>5 DEF Init, TInv, TypeOK
<1>7. Clean /\ Sights
  BY <1>1, <1>2, <1>4 DEF Init, Clean, Sights, Holds, Stamp
<1>8. Promises
  BY <1>2, <1>3, <1>4, <1>5 DEF Init, Promises, Promise, Holds
<1>9. Marks /\ LastTurn
  BY <1>2, <1>3, <1>4 DEF Init, Marks, LastTurn, Owed, Holds
<1>10. QED
  BY <1>6, <1>7, <1>8, <1>9 DEF Full, SInv

(* Each layer from those before it.                                        *)
LEMMA FullStep == Full /\ [Next]_allvars => Full'
<1> SUFFICES ASSUME Full, [Next]_allvars PROVE Full'
  OBVIOUS
<1>1. SInv' /\ TInv'
  BY TypeStep, CleanStep, SightStep DEF Full, SInv
<1>2. Promises'
  BY <1>1, PromiseStep DEF Full
<1>3. StepsBack' <=> StepsBack
  BY DEF Next, allvars, StepsBack
<1>4. ~StepsBack => Marks' /\ LastTurn'
  BY <1>1, <1>2, MarksStep, HomeStep DEF Full
<1>5. QED
  BY <1>1, <1>2, <1>3, <1>4 DEF Full

(* It is an invariant.                                                     *)
LEMMA AlwaysFull == Spec => []Full
  BY InitFull, FullStep, PTL DEF Spec

(* Types, for any sessions, files, commands, writes and faults; and        *)
(* whoever pulls holds the node's lock.                                    *)
THEOREM Types == Spec => []TypeOK
<1>1. Full => TypeOK
  BY DEF Full, SInv, TInv
<1>2. QED
  BY <1>1, AlwaysFull, PTL

(* While no clock is set back, whatever is not home is newer than the      *)
(* watermark pull.json keeps: next_since never skips a file, whatever was  *)
(* cut short, failed, was interrupted or written under the reader's eyes.  *)
THEOREM NothingIsSkipped == Spec => []NothingSlipsBehind
<1>1. Full => NothingSlipsBehind
  BY DEF Full, Marks, NothingSlipsBehind
<1>2. QED
  BY <1>1, AlwaysFull, PTL

(* A final pull that says it is done brought home every transcript as it   *)
(* was when the command began: `down` and `recall` lose no turn.           *)
THEOREM LastTurnComesHome == Spec => []LastTurnIsHome
<1>1. Full => LastTurnIsHome
  BY DEF Full, LastTurnIsHome
<1>2. QED
  BY <1>1, AlwaysFull, PTL

(* Whatever the clocks do, a pull never puts an older file over a newer    *)
(* one.                                                                    *)
THEOREM MirrorNeverOlder == Spec => NeverOlder
<1>1. Full /\ Full' /\ [Next]_allvars =>
        [\A f \in Files : mirror'[f] >= mirror[f] \/ (f \in Records /\ mirror'[f] = 0)]_vars
  BY MirrorGrows DEF Full, SInv
<1>2. QED
  BY <1>1, AlwaysFull, PTL DEF Spec, NeverOlder

(* Whatever the clocks do, `down` drops no placement of a session that it  *)
(* did not bring home and end.                                             *)
THEOREM PlacementKept == Spec => KeptUntilHome
<1>1. Full /\ [Next]_allvars =>
        [\A s \in placed \ placed' : \E c \in Commands :
            /\ s \in cmd[c].sids
            /\ cmd[c].kind = "down" => cmd[c].got = "home" /\ s \notin running]_vars
  <2> SUFFICES ASSUME Full, Next, NEW s \in placed \ placed'
               PROVE  \E c \in Commands : /\ s \in cmd[c].sids
                                          /\ cmd[c].kind = "down" => cmd[c].got = "home" /\ s \notin running
    BY DEF allvars
  <2>1. ASSUME NEW c \in Commands, Clear(c)
        PROVE  /\ s \in cmd[c].sids
               /\ cmd[c].kind = "down" => cmd[c].got = "home" /\ s \notin running
    BY <2>1 DEF Clear, Full, Promises, Promise
  <2>2. (\E c \in Commands : Clear(c)) \/ UNCHANGED placed
    <3>1. ASSUME NEW p \in Pullers, Begin(p) \/ Look(p) \/ Land(p) \/ LandsBadly(p) PROVE UNCHANGED placed
      BY <3>1 DEF Begin, Look, Land, LandsBadly
    <3>2. CASE ReadMap \/ Locked \/ TickFails \/ TickKeeps \/ Passes \/ SetBack
      BY <3>2 DEF ReadMap, Locked, TickFails, TickKeeps, Passes, SetBack, pc_vars
    <3>3. ASSUME NEW f \in Files, Write(f) \/ Remove(f) PROVE UNCHANGED placed
      BY <3>3 DEF Write, Remove, pc_vars
    <3>4. ASSUME NEW c \in Commands, HeldTooLong(c) \/ AskAgain(c) \/ Continue(c) \/ Unfinished(c) \/ Finished(c)
          PROVE  UNCHANGED placed
      BY <3>4 DEF HeldTooLong, AskAgain, Continue, Unfinished, Finished
    <3>5. ASSUME NEW c \in Commands, NoAnswer(c) \/ Stays(c) \/ Dies(c) \/ Call(c) PROVE UNCHANGED placed
      BY <3>5 DEF NoAnswer, Stays, Dies, Call
    <3>6. ASSUME NEW c \in Commands, Kill(c) \/ KillUnknown(c) \/ RecallStops(c) \/ RecallGoesOn(c)
          PROVE  UNCHANGED placed
      BY <3>6 DEF Kill, KillUnknown, RecallStops, RecallGoesOn
    <3>7. Tick \in Pullers /\ \A c \in Commands : c \in Pullers
      BY DEF Pullers
    <3>8. QED
      BY <3>1, <3>2, <3>3, <3>4, <3>5, <3>6, <3>7 DEF Next, World, Daemon, Command, Breaks
  <2>3. QED
    BY <2>1, <2>2
<1>2. QED
  BY <1>1, AlwaysFull, PTL DEF Spec, KeptUntilHome

(* Both, as the runs check them: whatever the clocks do, what is home is   *)
(* kept, and so is the way to what is not.                                 *)
THEOREM HomeKept == Spec => HomeIsKept
  BY MirrorNeverOlder, PlacementKept DEF HomeIsKept
=============================================================================
