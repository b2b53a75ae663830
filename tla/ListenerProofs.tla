--------------------------- MODULE ListenerProofs ---------------------------
(***************************************************************************)
(* For any number of pids, supervising serves and humans.  While starts do *)
(* not overlap and what is ended ends, there is one listener, and a        *)
(* supervisor starts its successor at the target it had.  With no such     *)
(* assumption, a supervisor ends none as wedged but one that hangs.  And   *)
(* for any presses, phones, files and bounds: what a press pastes is       *)
(* there, and what it is told of it is so and is told in order.            *)
(***************************************************************************)
EXTENDS Listener, Paste, FiniteSetTheorems, TLAPS

-----------------------------------------------------------------------------
(***************************************************************************)
(* A press, the requests and their pastes, and the bar                     *)
(***************************************************************************)

PressKinds == {"none", "native", "paths", "image", "files", "code"}
Verdicts == {"none", "no-image", "opened", "no-code", "no-folder", "mangled", "failed", "clipboard-unreadable", "folder-refused",
             "file-missing", "path-unpasteable", "file-unreadable", "too-large", "ok", "not-delivered", "upload-rejected",
             "inject-pending", "inject-failed", "serve-unreachable"}
PressState == [at : {"idle", "read", "post", "type", "done"}, kind : PressKinds, verdict : Verdicts, waited : Nat]
ReqState == [at : {"none", "body", "reserve", "write", "inject", "done"}, names : Seq(Name),
             reply : {"none", "refused", "pasted", "pending", "unpasted"}]
InjectState == [at : {"none", "going", "landed", "over"}, life : Nat, ok : BOOLEAN]
Upload == [of : Req \cup {"nobody"}, whole : BOOLEAN]
Flash == [of : Req \cup {"nobody"}, phase : Nat, age : Nat]

CoreTypes ==
  /\ plan \in PasteSetups
  /\ press \in [Press -> PressState] /\ req \in [Req -> ReqState] /\ inject \in [Req -> InjectState]
  /\ disk \in [Name -> Upload] /\ pasted \in [Req -> Nat]

BarTypes ==
  /\ queue \in Seq(Flash) /\ pump \in [busy : BOOLEAN, msg : Flash, waited : Nat] /\ shows \subseteq Flash
  /\ said \in [Press -> Nat]

-----------------------------------------------------------------------------
(* What a request has on disk, at each place in it.                        *)
Holds(r) == req[r].at \in {"reserve", "write", "inject"} \/ inject[r].at # "none"

RequestFits(r) ==
  /\ req[r].at # "done" => req[r].reply = "none"
  /\ req[r].at \in {"none", "body"} => req[r].names = <<>>
  /\ req[r].at \in {"none", "body", "reserve", "write"} => inject[r].at = "none"
  /\ req[r].at = "reserve" => Len(req[r].names) < Len(plan.files[r])
  /\ req[r].at = "write" \/ inject[r].at # "none" => Len(req[r].names) = Len(plan.files[r])
  /\ inject[r].at # "none" => \A n \in Mine(r) : disk[n].whole
  /\ Holds(r) => /\ \A n \in Mine(r) : disk[n].of = r
                 /\ \A i, j \in DOMAIN req[r].names : i # j => req[r].names[i] # req[r].names[j]

(* A thread that pastes, and what is said of it.                           *)
PasteFits(r) ==
  /\ inject[r].at \in {"none", "going", "landed"} => ~inject[r].ok
  /\ inject[r].at = "none" => inject[r].life = 0
  /\ inject[r].at = "landed" => pasted[r] = 1
  /\ inject[r].at = "over" => /\ pasted[r] <= 1 /\ (inject[r].ok => pasted[r] = 1)
                              /\ inject[r].life < InjectLife /\ ~inject[r].ok => pasted[r] = 0
  /\ req[r].at = "inject" => inject[r].at # "none" /\ inject[r].life <= Grace
  /\ inject[r].at # "none" => req[r].at \in {"inject", "done"}
  /\ req[r].at = "done" =>
       /\ req[r].reply \in {"none", "refused"} => inject[r].at = "none"
       /\ req[r].reply = "pasted" => inject[r].at = "over" /\ pasted[r] = 1
       /\ req[r].reply = "unpasted" => inject[r].at = "none" \/ (inject[r].at = "over" /\ pasted[r] = 0)

(* Only a local press types by itself.                                     *)
TypesItself(r) == r \in Press /\ press[r].kind \in {"native", "paths"}
OnlyPasted(r) ==
  /\ ~TypesItself(r) /\ inject[r].at \in {"none", "going"} => pasted[r] = 0
  /\ TypesItself(r) => req[r].at = "none" /\ pasted[r] <= 1

PressFits(p) ==
  /\ press[p].at \in {"idle", "read"} => req[p].at = "none" /\ pasted[p] = 0
  /\ press[p].at = "idle" => press[p].kind = "none"
  /\ press[p].at = "read" => press[p].kind # "none"
  /\ press[p].at = "type" => TypesItself(p) /\ pasted[p] = 0
  /\ press[p].at = "post" => press[p].kind \in {"image", "files"} /\ req[p].at # "none"
  /\ press[p].at = "post" /\ req[p].at = "done" => req[p].reply # "none"
  /\ press[p].at = "done" =>
       /\ press[p].verdict = "ok" => pasted[p] = 1
       /\ press[p].verdict \notin {"ok", "inject-pending", "serve-unreachable", "not-delivered"} => pasted[p] = 0
       /\ press[p].verdict \notin {"inject-pending", "serve-unreachable"} => req[p].at \in {"none", "done"} /\ ~Pasting(p)

-----------------------------------------------------------------------------
(* How far a press is in what it tells.                                    *)
LevelOf(at) == CASE at = "idle" -> 0 [] at = "read" -> Capturing [] at \in {"post", "type"} -> Uploading [] at = "done" -> LastPhase
Level(p) == LevelOf(press[p].at)

QueueFits ==
  /\ \A i \in DOMAIN queue : queue[i].of \in Press /\ queue[i].age = 0 /\ queue[i].phase <= Level(queue[i].of)
                             /\ said[queue[i].of] <= queue[i].phase
  /\ \A i, j \in DOMAIN queue : i < j /\ queue[i].of = queue[j].of => queue[i].phase <= queue[j].phase

ShowsFit ==
  /\ pump.busy => pump.msg.of \in Press
  /\ \A m \in shows : /\ m.age <= PsmuxBound
                      /\ m.of \in Press => /\ pump.busy /\ m.of = pump.msg.of /\ m.phase = pump.msg.phase /\ m.age = pump.waited
                                           /\ m.phase <= Level(m.of) /\ said[m.of] <= m.phase
                                           /\ \A i \in DOMAIN queue : queue[i].of = m.of => m.phase <= queue[i].phase

BarFits == QueueFits /\ ShowsFit /\ \A p \in Press : said[p] <= Level(p)

CoreInv ==
  /\ CoreTypes /\ \A r \in Req : RequestFits(r) /\ PasteFits(r) /\ OnlyPasted(r)
  /\ \A p \in Press : PressFits(p)

PasteInv == CoreInv /\ BarTypes /\ BarFits

-----------------------------------------------------------------------------
(* One request moves, and the press it may be of.                          *)
Kept(s) ==
  /\ req'[s] = req[s] /\ inject'[s] = inject[s] /\ pasted'[s] = pasted[s] /\ (s \in Press => press'[s] = press[s])
  /\ Holds(s) => \A n \in Mine(s) : disk'[n] = disk[n]

LEMMA SetupFits ==
  ASSUME CoreTypes
  PROVE  /\ plan.presses \subseteq Press /\ plan.phones \subseteq Phone /\ plan.kinds \subseteq PressKinds
         /\ plan.files \in [Req -> Seq(Base) \ {<<>>}]
BY PasteAssumption DEF CoreTypes, PressKinds, Req

LEMMA KeptFits ==
  ASSUME CoreInv, UNCHANGED plan, NEW s \in Req, Kept(s)
  PROVE  RequestFits(s)' /\ PasteFits(s)' /\ OnlyPasted(s)' /\ (s \in Press => PressFits(s)')
<1>1. RequestFits(s) /\ PasteFits(s) /\ OnlyPasted(s) /\ (s \in Press => PressFits(s))
  BY DEF CoreInv
<1>2. Mine(s)' = Mine(s) /\ Holds(s)' = Holds(s) /\ TypesItself(s)' = TypesItself(s) /\ Pasting(s)' = Pasting(s)
  BY DEF Kept, Mine, Holds, TypesItself, Pasting
<1>3. RequestFits(s)'
  <2>1. inject[s].at # "none" => Holds(s)
    BY DEF Holds
  <2> QED
    BY <1>1, <1>2, <2>1 DEF RequestFits, Kept
<1>4. PasteFits(s)' /\ OnlyPasted(s)'
  BY <1>1, <1>2 DEF PasteFits, OnlyPasted, Kept
<1>5. s \in Press => PressFits(s)'
  BY <1>1, <1>2 DEF PressFits, Kept
<1> QED
  BY <1>3, <1>4, <1>5

LEMMA OneMoves ==
  ASSUME CoreInv, UNCHANGED plan, CoreTypes', NEW r \in Req, \A s \in Req \ {r} : Kept(s),
         RequestFits(r)', PasteFits(r)', OnlyPasted(r)', r \in Press => PressFits(r)'
  PROVE  CoreInv'
<1>1. \A s \in Req : RequestFits(s)' /\ PasteFits(s)' /\ OnlyPasted(s)' /\ (s \in Press => PressFits(s)')
  BY KeptFits
<1>2. Press \subseteq Req
  BY DEF Req
<1> QED
  BY <1>1, <1>2 DEF CoreInv

-----------------------------------------------------------------------------
(* The press's own steps.                                                  *)
LEMMA ReportIs ==
  ASSUME CoreTypes, NEW p \in Press, NEW v \in Verdicts, Report(p, v)
  PROVE  /\ press' \in [Press -> PressState]
         /\ press'[p].at = "done" /\ press'[p].verdict = v /\ press'[p].kind = press[p].kind
         /\ \A s \in Press \ {p} : press'[s] = press[s]
BY DEF CoreTypes, Report, PressState

LEMMA ChordKeeps ==
  ASSUME CoreInv, UNCHANGED plan, NEW p \in Press, Chord(p)
  PROVE  CoreInv'
<1>1. CoreTypes /\ p \in Req /\ RequestFits(p) /\ PasteFits(p) /\ OnlyPasted(p) /\ PressFits(p)
  BY DEF CoreInv, Req
<1>2. press[p].at = "idle" /\ UNCHANGED <<req, inject, disk, pasted>>
  BY DEF Chord
<1>3. /\ press' \in [Press -> PressState] /\ \A s \in Press \ {p} : press'[s] = press[s]
      /\ \/ press'[p].at = "done" /\ press'[p].verdict = "no-image"
         \/ press'[p].at = "read" /\ press'[p].kind # "none"
  <2>1. PICK kind \in plan.kinds : IF kind = "none" THEN Report(p, "no-image")
                                   ELSE press' = [press EXCEPT ![p].at = "read", ![p].kind = kind]
    BY DEF Chord
  <2>2. CASE kind = "none"
    BY <1>1, <2>1, <2>2, ReportIs DEF Verdicts
  <2>3. CASE kind # "none"
    <3>1. press' = [press EXCEPT ![p].at = "read", ![p].kind = kind] /\ kind \in PressKinds
      BY <1>1, <2>1, <2>3, SetupFits
    <3> QED
      BY <1>1, <2>3, <3>1 DEF CoreTypes, PressState
  <2> QED
    BY <2>2, <2>3
<1>4. CoreTypes'
  BY <1>1, <1>2, <1>3 DEF CoreTypes
<1>5. \A s \in Req \ {p} : Kept(s)
  BY <1>2, <1>3 DEF Kept
<1>6. req[p].at = "none" /\ pasted[p] = 0 /\ inject[p].at = "none"
  BY <1>1, <1>2 DEF PressFits, RequestFits
<1>7. RequestFits(p)' /\ PasteFits(p)' /\ OnlyPasted(p)'
  BY <1>1, <1>2, <1>6 DEF RequestFits, PasteFits, OnlyPasted, Mine, Holds
<1>8. PressFits(p)'
  BY <1>2, <1>3, <1>6 DEF PressFits, Pasting
<1> QED
  BY <1>1, <1>4, <1>5, <1>7, <1>8, OneMoves

LEMMA OpensCodeKeeps ==
  ASSUME CoreInv, UNCHANGED plan, NEW p \in Press, OpensCode(p)
  PROVE  CoreInv'
<1>1. CoreTypes /\ p \in Req /\ RequestFits(p) /\ PasteFits(p) /\ OnlyPasted(p) /\ PressFits(p)
  BY DEF CoreInv, Req
<1>2. press[p].at = "read" /\ press[p].kind = "code" /\ UNCHANGED <<req, inject, disk, pasted>>
  BY DEF OpensCode
<1>3. PICK v \in {"opened", "no-code", "no-folder", "mangled", "failed"} : Report(p, v)
  BY DEF OpensCode
<1>4. /\ press' \in [Press -> PressState] /\ press'[p].at = "done" /\ press'[p].verdict = v /\ press'[p].kind = press[p].kind
      /\ \A s \in Press \ {p} : press'[s] = press[s]
  BY <1>1, <1>3, ReportIs DEF Verdicts
<1>5. CoreTypes'
  BY <1>1, <1>2, <1>4 DEF CoreTypes
<1>6. \A s \in Req \ {p} : Kept(s)
  BY <1>2, <1>4 DEF Kept
<1>7. req[p].at = "none" /\ pasted[p] = 0 /\ inject[p].at = "none"
  BY <1>1, <1>2 DEF PressFits, RequestFits
<1>8. RequestFits(p)' /\ PasteFits(p)' /\ OnlyPasted(p)' /\ PressFits(p)'
  BY <1>1, <1>2, <1>4, <1>7 DEF RequestFits, PasteFits, OnlyPasted, PressFits, Mine, Holds, Pasting, TypesItself
<1> QED
  BY <1>1, <1>5, <1>6, <1>8, OneMoves

LEMMA ReadsClipKeeps ==
  ASSUME CoreInv, UNCHANGED plan, NEW p \in Press, ReadsClip(p)
  PROVE  CoreInv'
<1>1. CoreTypes /\ p \in Req /\ RequestFits(p) /\ PasteFits(p) /\ OnlyPasted(p) /\ PressFits(p)
  BY DEF CoreInv, Req
<1>2. press[p].at = "read" /\ UNCHANGED <<inject, disk, pasted>>
  BY DEF ReadsClip
<1>3. req[p].at = "none" /\ pasted[p] = 0 /\ inject[p].at = "none"
  BY <1>1, <1>2 DEF PressFits, RequestFits
<1>4. /\ press' \in [Press -> PressState] /\ \A s \in Press \ {p} : press'[s] = press[s]
      /\ press'[p].kind = press[p].kind
      /\ \/ req' = req /\ press'[p].at = "done" /\ press'[p].verdict \in Verdicts \ {"ok", "inject-pending", "serve-unreachable", "not-delivered"}
         \/ req' = req /\ press'[p].at = "type" /\ press[p].kind \in {"native", "paths"}
         \/ req' = [req EXCEPT ![p].at = "body"] /\ press'[p].at = "post" /\ press[p].kind \in {"image", "files"}
  <2>1. ASSUME NEW v \in Refusals(press[p].kind), Report(p, v), UNCHANGED req
        PROVE  /\ press' \in [Press -> PressState] /\ \A s \in Press \ {p} : press'[s] = press[s]
               /\ press'[p].kind = press[p].kind
               /\ press'[p].at = "done" /\ press'[p].verdict \in Verdicts \ {"ok", "inject-pending", "serve-unreachable", "not-delivered"}
    <3>1. press[p].kind \in {"image", "paths", "files", "native", "code"}
      <4>1. press[p].kind \in PressKinds /\ press[p].kind # "none"
        BY <1>1, <1>2 DEF PressFits, CoreTypes, PressState
      <4> QED
        BY <4>1 DEF PressKinds
    <3>2. v \in Verdicts \ {"ok", "inject-pending", "serve-unreachable", "not-delivered"}
      BY <2>1, <3>1 DEF Refusals, Verdicts
    <3> QED
      BY <1>1, <2>1, <3>2, ReportIs
  <2>2. ASSUME press' = [press EXCEPT ![p].at = "type"]
        PROVE  /\ press' \in [Press -> PressState] /\ \A s \in Press \ {p} : press'[s] = press[s]
               /\ press'[p].kind = press[p].kind /\ press'[p].at = "type"
    BY <1>1, <2>2 DEF CoreTypes, PressState
  <2>3. ASSUME press' = [press EXCEPT ![p].at = "post"]
        PROVE  /\ press' \in [Press -> PressState] /\ \A s \in Press \ {p} : press'[s] = press[s]
               /\ press'[p].kind = press[p].kind /\ press'[p].at = "post"
    BY <1>1, <2>3 DEF CoreTypes, PressState
  <2> QED
    BY <2>1, <2>2, <2>3 DEF ReadsClip, Posts
<1>5. /\ req' \in [Req -> ReqState] /\ \A s \in Req \ {p} : req'[s] = req[s]
      /\ req'[p].names = req[p].names /\ req'[p].reply = req[p].reply
      /\ press'[p].at = "post" => req'[p].at = "body"
      /\ press'[p].at # "post" => req'[p].at = "none"
  <2>1. req \in [Req -> ReqState]
    BY <1>1 DEF CoreTypes
  <2>2. CASE req' = req /\ press'[p].at \in {"done", "type"}
    BY <1>3, <2>1, <2>2
  <2>3. CASE req' = [req EXCEPT ![p].at = "body"] /\ press'[p].at = "post"
    BY <1>1, <2>1, <2>3 DEF ReqState
  <2> QED
    BY <1>4, <2>2, <2>3
<1>6. CoreTypes'
  BY <1>1, <1>2, <1>4, <1>5 DEF CoreTypes
<1>7. \A s \in Req \ {p} : Kept(s)
  BY <1>2, <1>4, <1>5 DEF Kept
<1>8. RequestFits(p)'
  BY <1>1, <1>2, <1>3, <1>4, <1>5 DEF RequestFits, Mine, Holds
<1>9. PasteFits(p)' /\ OnlyPasted(p)'
  BY <1>1, <1>2, <1>3, <1>4, <1>5 DEF PasteFits, OnlyPasted, TypesItself
<1>10. PressFits(p)'
  BY <1>1, <1>2, <1>3, <1>4, <1>5 DEF PressFits, Pasting, TypesItself
<1> QED
  BY <1>1, <1>6, <1>7, <1>8, <1>9, <1>10, OneMoves

LEMMA TypesKeeps ==
  ASSUME CoreInv, UNCHANGED plan, NEW p \in Press, Types(p)
  PROVE  CoreInv'
<1>1. CoreTypes /\ p \in Req /\ RequestFits(p) /\ PasteFits(p) /\ OnlyPasted(p) /\ PressFits(p)
  BY DEF CoreInv, Req
<1>2. press[p].at = "type" /\ UNCHANGED <<req, inject, disk>>
  BY DEF Types
<1>3. TypesItself(p) /\ pasted[p] = 0 /\ req[p].at = "none" /\ inject[p].at = "none"
  BY <1>1, <1>2 DEF PressFits, OnlyPasted, RequestFits
<1>4. /\ press' \in [Press -> PressState] /\ \A s \in Press \ {p} : press'[s] = press[s]
      /\ press'[p].kind = press[p].kind /\ press'[p].at = "done" /\ press'[p].verdict \in {"ok", "not-delivered"}
      /\ press'[p].verdict = "ok" => pasted' = [pasted EXCEPT ![p] = @ + 1]
      /\ pasted' \in {pasted, [pasted EXCEPT ![p] = @ + 1]}
  <2>1. {"ok", "not-delivered"} \subseteq Verdicts /\ "ok" # "not-delivered"
    BY DEF Verdicts
  <2>2. PICK v \in {"ok", "not-delivered"} : Report(p, v) /\ pasted' \in {pasted, [pasted EXCEPT ![p] = @ + 1]}
                                             /\ (v = "ok" => pasted' = [pasted EXCEPT ![p] = @ + 1])
    BY DEF Types
  <2> QED
    BY <1>1, <2>1, <2>2, ReportIs
<1>5. /\ pasted' \in [Req -> Nat] /\ \A s \in Req \ {p} : pasted'[s] = pasted[s]
      /\ pasted'[p] \in {0, 1} /\ (press'[p].verdict = "ok" => pasted'[p] = 1)
  <2>1. pasted \in [Req -> Nat]
    BY <1>1 DEF CoreTypes
  <2>2. CASE pasted' = pasted
    <3>1. press'[p].verdict # "ok"
      <4>1. SUFFICES ASSUME press'[p].verdict = "ok" PROVE FALSE
        OBVIOUS
      <4>2. pasted' = [pasted EXCEPT ![p] = @ + 1]
        BY <1>4, <4>1
      <4> QED
        BY <1>1, <1>3, <2>1, <2>2, <4>2
    <3> QED
      BY <1>1, <1>3, <2>1, <2>2, <3>1
  <2>3. CASE pasted' = [pasted EXCEPT ![p] = @ + 1]
    BY <1>1, <1>3, <2>1, <2>3
  <2> QED
    BY <1>4, <2>2, <2>3
<1>6. CoreTypes'
  BY <1>1, <1>2, <1>4, <1>5 DEF CoreTypes
<1>7. \A s \in Req \ {p} : Kept(s)
  BY <1>2, <1>4, <1>5 DEF Kept
<1>8. RequestFits(p)'
  BY <1>1, <1>2, <1>3 DEF RequestFits, Mine, Holds
<1>9. PasteFits(p)' /\ OnlyPasted(p)'
  BY <1>1, <1>2, <1>3, <1>4, <1>5 DEF PasteFits, OnlyPasted, TypesItself
<1>10. PressFits(p)'
  BY <1>2, <1>3, <1>4, <1>5 DEF PressFits, Pasting
<1> QED
  BY <1>1, <1>6, <1>7, <1>8, <1>9, <1>10, OneMoves

LEMMA AnsweredKeeps ==
  ASSUME CoreInv, UNCHANGED plan, NEW p \in Press, Answered(p)
  PROVE  CoreInv'
<1>1. CoreTypes /\ p \in Req /\ RequestFits(p) /\ PasteFits(p) /\ OnlyPasted(p) /\ PressFits(p)
  BY DEF CoreInv, Req
<1>2. press[p].at = "post" /\ req[p].at = "done" /\ Report(p, OutcomeOf(req[p].reply)) /\ UNCHANGED <<req, inject, disk, pasted>>
  BY DEF Answered
<1>3. req[p].reply \in {"refused", "pasted", "pending", "unpasted"} /\ press[p].kind \in {"image", "files"}
  BY <1>1, <1>2 DEF PressFits, CoreTypes, ReqState
<1>4. /\ OutcomeOf(req[p].reply) \in Verdicts
      /\ OutcomeOf(req[p].reply) = "ok" <=> req[p].reply = "pasted"
      /\ OutcomeOf(req[p].reply) = "inject-pending" <=> req[p].reply = "pending"
      /\ OutcomeOf(req[p].reply) \notin {"serve-unreachable", "not-delivered"}
  BY <1>3 DEF OutcomeOf, Verdicts
<1>5. /\ press' \in [Press -> PressState] /\ \A s \in Press \ {p} : press'[s] = press[s]
      /\ press'[p].kind = press[p].kind /\ press'[p].at = "done" /\ press'[p].verdict = OutcomeOf(req[p].reply)
  BY <1>1, <1>2, <1>4, ReportIs
<1>6. CoreTypes'
  BY <1>1, <1>2, <1>5 DEF CoreTypes
<1>7. \A s \in Req \ {p} : Kept(s)
  BY <1>2, <1>5 DEF Kept
<1>8. RequestFits(p)'
  BY <1>1, <1>2 DEF RequestFits, Mine, Holds
<1>9. PasteFits(p)' /\ OnlyPasted(p)'
  BY <1>1, <1>2, <1>5 DEF PasteFits, OnlyPasted, TypesItself
<1>10. ~TypesItself(p)
  BY <1>3 DEF TypesItself
<1>11. PressFits(p)'
  BY <1>1, <1>2, <1>3, <1>4, <1>5, <1>10 DEF PressFits, PasteFits, OnlyPasted, Pasting
<1> QED
  BY <1>1, <1>6, <1>7, <1>8, <1>9, <1>11, OneMoves

LEMMA GivesUpKeeps ==
  ASSUME CoreInv, UNCHANGED plan, NEW p \in Press, GivesUp(p)
  PROVE  CoreInv'
<1>1. CoreTypes /\ p \in Req /\ RequestFits(p) /\ PasteFits(p) /\ OnlyPasted(p) /\ PressFits(p)
  BY DEF CoreInv, Req
<1>2. /\ press[p].at = "post" /\ req[p].at # "done" /\ Report(p, "serve-unreachable") /\ UNCHANGED <<inject, disk, pasted>>
      /\ req' = IF req[p].at = "body" THEN [req EXCEPT ![p].at = "done"] ELSE req
  BY DEF GivesUp
<1>3. "serve-unreachable" \in Verdicts
  BY DEF Verdicts
<1>4. /\ press' \in [Press -> PressState] /\ \A s \in Press \ {p} : press'[s] = press[s]
      /\ press'[p].kind = press[p].kind /\ press'[p].at = "done" /\ press'[p].verdict = "serve-unreachable"
  BY <1>1, <1>2, <1>3, ReportIs
<1>5. /\ req' \in [Req -> ReqState] /\ \A s \in Req \ {p} : req'[s] = req[s]
      /\ req'[p].names = req[p].names /\ req'[p].reply = req[p].reply
      /\ \/ req[p].at = "body" /\ req'[p].at = "done"
         \/ req[p].at # "body" /\ req'[p] = req[p]
  <2>1. req \in [Req -> ReqState]
    BY <1>1 DEF CoreTypes
  <2>2. CASE req[p].at = "body"
    <3>1. req' = [req EXCEPT ![p].at = "done"]
      BY <1>2, <2>2
    <3> QED
      BY <1>1, <2>1, <2>2, <3>1 DEF ReqState
  <2>3. CASE req[p].at # "body"
    BY <1>2, <2>1, <2>3
  <2> QED
    BY <2>2, <2>3
<1>6. CoreTypes'
  BY <1>1, <1>2, <1>4, <1>5 DEF CoreTypes
<1>7. \A s \in Req \ {p} : Kept(s)
  BY <1>2, <1>4, <1>5 DEF Kept
<1>8. TypesItself(p)' = TypesItself(p) /\ Mine(p)' = Mine(p) /\ ~TypesItself(p)
  BY <1>1, <1>2, <1>4, <1>5 DEF TypesItself, Mine, PressFits
<1>9. CASE req[p].at = "body"
  <2>1. inject[p].at = "none" /\ req[p].reply = "none" /\ req[p].names = <<>> /\ pasted[p] = 0
    BY <1>1, <1>8, <1>9 DEF RequestFits, OnlyPasted
  <2>2. RequestFits(p)'
    BY <1>2, <1>5, <1>9, <2>1 DEF RequestFits, Holds
  <2>3. PasteFits(p)' /\ OnlyPasted(p)' /\ PressFits(p)'
    BY <1>1, <1>2, <1>4, <1>5, <1>8, <1>9, <2>1 DEF PasteFits, OnlyPasted, PressFits, Pasting
  <2> QED
    BY <1>1, <1>6, <1>7, <2>2, <2>3, OneMoves
<1>10. CASE req[p].at # "body"
  <2>1. RequestFits(p)'
    BY <1>1, <1>2, <1>5, <1>8, <1>10 DEF RequestFits, Holds
  <2>2. PasteFits(p)' /\ OnlyPasted(p)' /\ PressFits(p)'
    BY <1>1, <1>2, <1>4, <1>5, <1>8, <1>10 DEF PasteFits, OnlyPasted, PressFits, Pasting
  <2> QED
    BY <1>1, <1>6, <1>7, <2>1, <2>2, OneMoves
<1> QED
  BY <1>9, <1>10

-----------------------------------------------------------------------------
(* The serve's steps: the press is left alone.                             *)
LEMMA Apart ==
  ASSUME CoreInv, NEW r \in Req, NEW s \in Req, r # s, Holds(r), Holds(s), NEW n \in Mine(r)
  PROVE  n \notin Mine(s)
BY DEF CoreInv, RequestFits

LEMMA Held ==
  ASSUME CoreInv, NEW s \in Req, Holds(s), NEW n \in Mine(s)
  PROVE  n \in Name /\ disk[n].of = s
<1>1. req[s].names \in Seq(Name)
  BY DEF CoreInv, CoreTypes, ReqState
<1> QED
  BY <1>1 DEF CoreInv, RequestFits, Mine, ToSet

LEMMA MovesTo ==
  ASSUME CoreTypes, NEW r \in Req, NEW at \in {"none", "body", "reserve", "write", "inject", "done"},
         NEW reply \in {"none", "refused", "pasted", "pending", "unpasted"},
         \/ req' = [req EXCEPT ![r].at = at, ![r].reply = reply]
         \/ req' = [req EXCEPT ![r].at = at] /\ reply = req[r].reply
  PROVE  /\ req' \in [Req -> ReqState] /\ \A s \in Req \ {r} : req'[s] = req[s]
         /\ req'[r].at = at /\ req'[r].reply = reply /\ req'[r].names = req[r].names
<1>1. req \in [Req -> ReqState] /\ req[r] \in ReqState
  BY DEF CoreTypes
<1>2. CASE req' = [req EXCEPT ![r].at = at, ![r].reply = reply]
  BY <1>1, <1>2 DEF ReqState
<1>3. CASE req' = [req EXCEPT ![r].at = at] /\ reply = req[r].reply
  BY <1>1, <1>3 DEF ReqState
<1> QED
  BY <1>2, <1>3

LEMMA FinishIs ==
  ASSUME CoreTypes, NEW r \in Req, NEW reply \in {"refused", "pasted", "pending", "unpasted"}, Finishes(r, reply)
  PROVE  /\ req' \in [Req -> ReqState] /\ \A s \in Req \ {r} : req'[s] = req[s]
         /\ req'[r].at = "done" /\ req'[r].reply = reply /\ req'[r].names = req[r].names
BY MovesTo DEF Finishes

LEMMA PhonePostsKeeps ==
  ASSUME CoreInv, UNCHANGED plan, NEW r \in Req, r \notin Press, PhonePosts(r)
  PROVE  CoreInv'
<1>1. CoreTypes /\ RequestFits(r) /\ PasteFits(r) /\ OnlyPasted(r)
  BY DEF CoreInv
<1>2. req[r].at = "none" /\ req' = [req EXCEPT ![r].at = "body"] /\ UNCHANGED <<press, inject, disk, pasted>>
  BY DEF PhonePosts
<1>3. /\ req' \in [Req -> ReqState] /\ \A s \in Req \ {r} : req'[s] = req[s]
      /\ req'[r].at = "body" /\ req'[r].reply = "none" /\ req'[r].names = req[r].names
  BY <1>1, <1>2, MovesTo DEF RequestFits
<1>4. CoreTypes'
  BY <1>1, <1>2, <1>3 DEF CoreTypes
<1>5. \A s \in Req \ {r} : Kept(s)
  BY <1>2, <1>3 DEF Kept
<1>6. RequestFits(r)' /\ PasteFits(r)' /\ OnlyPasted(r)'
  BY <1>1, <1>2, <1>3 DEF RequestFits, PasteFits, OnlyPasted, TypesItself, Mine, Holds
<1> QED
  BY <1>4, <1>5, <1>6, OneMoves

LEMMA BodyKeeps ==
  ASSUME CoreInv, UNCHANGED plan, NEW r \in Req, Body(r)
  PROVE  CoreInv'
<1>1. CoreTypes /\ RequestFits(r) /\ PasteFits(r) /\ OnlyPasted(r) /\ (r \in Press => PressFits(r))
  BY DEF CoreInv
<1>2. req[r].at = "body" /\ UNCHANGED <<press, inject, disk, pasted>>
  BY DEF Body
<1>3. /\ req' \in [Req -> ReqState] /\ req'[r].names = req[r].names /\ \A s \in Req \ {r} : req'[s] = req[s]
      /\ \/ req'[r].at = "done" /\ req'[r].reply = "refused"
         \/ req'[r].at = "reserve" /\ req'[r].reply = "none"
  <2>1. CASE Finishes(r, "refused")
    BY <1>1, <2>1, FinishIs
  <2>2. CASE req' = [req EXCEPT ![r].at = "done", ![r].reply = "refused"]
    BY <1>1, <2>2, MovesTo
  <2>3. CASE req' = [req EXCEPT ![r].at = "reserve"]
    BY <1>1, <1>2, <2>3, MovesTo DEF RequestFits
  <2> QED
    BY <2>1, <2>2, <2>3 DEF Body
<1>4. CoreTypes'
  BY <1>1, <1>2, <1>3 DEF CoreTypes
<1>5. \A s \in Req \ {r} : Kept(s)
  BY <1>2, <1>3 DEF Kept
<1>6. req[r].names = <<>> /\ inject[r].at = "none" /\ ~TypesItself(r)
  BY <1>1, <1>2 DEF RequestFits, OnlyPasted
<1>7. RequestFits(r)'
  <2>1. plan \in PasteSetups /\ plan' = plan /\ Len(plan.files[r]) > 0
    <3>1. plan.files[r] \in Seq(Base) \ {<<>>}
      BY <1>1, SetupFits
    <3> QED
      BY <1>1, <3>1 DEF CoreTypes
  <2>2. req'[r].names = <<>> /\ Len(<<>>) = 0 /\ DOMAIN <<>> = {}
    <3>1. <<>> \in Seq(Name) /\ Len(<<>>) = 0
      OBVIOUS
    <3>2. DOMAIN <<>> = 1..0 /\ 1..0 = {}
      BY <3>1
    <3> QED
      BY <1>3, <1>6, <3>1, <3>2
  <2>3. Mine(r)' = {}
    BY <2>2 DEF Mine, ToSet
  <2> QED
    BY <1>2, <1>3, <1>6, <2>1, <2>2, <2>3 DEF RequestFits, Holds
<1>8. PasteFits(r)' /\ OnlyPasted(r)' /\ (r \in Press => PressFits(r)')
  BY <1>1, <1>2, <1>3, <1>6 DEF PasteFits, OnlyPasted, TypesItself, PressFits, Pasting
<1> QED
  BY <1>4, <1>5, <1>7, <1>8, OneMoves

LEMMA ReserveKeeps ==
  ASSUME CoreInv, UNCHANGED plan, NEW r \in Req, Reserve(r)
  PROVE  CoreInv'
<1>1. CoreTypes /\ RequestFits(r) /\ PasteFits(r) /\ OnlyPasted(r) /\ (r \in Press => PressFits(r))
  BY DEF CoreInv
<1>2. req[r].at = "reserve" /\ UNCHANGED <<press, inject, pasted>> /\ Holds(r)
  BY DEF Reserve, Holds
<1> DEFINE Old == req[r].names
<1>3. /\ Old \in Seq(Name) /\ Len(Old) < Len(plan.files[r]) /\ inject[r].at = "none" /\ req[r].reply = "none" /\ ~TypesItself(r)
      /\ plan.files[r] \in Seq(Base) /\ Len(plan.files[r]) \in Nat /\ Len(Old) \in Nat
  BY <1>1, <1>2, SetupFits DEF CoreTypes, ReqState, RequestFits, OnlyPasted
<1>4. PICK n \in Name : /\ disk[n] = NoUpload /\ disk' = [disk EXCEPT ![n] = [of |-> r, whole |-> FALSE]]
                        /\ req' = [req EXCEPT ![r].names = Append(@, n),
                                              ![r].at = IF Len(Old) + 1 < Len(plan.files[r]) THEN @ ELSE "write"]
  <2>1. plan.files[r][Len(Old) + 1] \in Base
    BY <1>3
  <2>2. PICK k \in 1..NMax :
         /\ disk[<<plan.files[r][Len(Old) + 1], k>>] = NoUpload
         /\ disk' = [disk EXCEPT ![<<plan.files[r][Len(Old) + 1], k>>] = [of |-> r, whole |-> FALSE]]
         /\ req' = [req EXCEPT ![r].names = Append(@, <<plan.files[r][Len(Old) + 1], k>>),
                               ![r].at = IF Len(Old) + 1 < Len(plan.files[r]) THEN @ ELSE "write"]
    BY DEF Reserve, Free
  <2>3. <<plan.files[r][Len(Old) + 1], k>> \in Name
    BY <2>1 DEF Name
  <2> QED
    BY <2>2, <2>3
<1>5. /\ req' \in [Req -> ReqState] /\ \A s \in Req \ {r} : req'[s] = req[s]
      /\ req'[r].names = Append(Old, n) /\ req'[r].reply = "none"
      /\ req'[r].at = IF Len(Old) + 1 < Len(plan.files[r]) THEN "reserve" ELSE "write"
  <2>1. Append(Old, n) \in Seq(Name)
    BY <1>3, <1>4
  <2>2. req \in [Req -> ReqState]
    BY <1>1 DEF CoreTypes
  <2> QED
    BY <1>2, <1>3, <1>4, <2>1, <2>2 DEF ReqState
<1>6. /\ disk' \in [Name -> Upload] /\ disk'[n] = [of |-> r, whole |-> FALSE]
      /\ \A m \in Name \ {n} : disk'[m] = disk[m]
  BY <1>1, <1>4 DEF CoreTypes, Upload
<1>7. CoreTypes'
  BY <1>1, <1>2, <1>5, <1>6 DEF CoreTypes
<1>8. disk[n].of \notin Req
  BY <1>4, PasteAssumption DEF NoUpload, Req
<1>9. \A s \in Req \ {r} : Kept(s)
  <2>1. \A s \in Req : Holds(s) => \A m \in Mine(s) : m \in Name /\ m # n
    BY <1>8, Held
  <2> QED
    BY <1>2, <1>5, <1>6, <2>1 DEF Kept
<1>10. /\ Mine(r)' = Mine(r) \cup {n} /\ n \notin Mine(r)
       /\ \A m \in Mine(r) : m \in Name /\ disk[m].of = r
  <2>1. ToSet(Append(Old, n)) = ToSet(Old) \cup {n}
    <3>1. /\ Len(Append(Old, n)) = Len(Old) + 1 /\ Append(Old, n)[Len(Old) + 1] = n
          /\ \A i \in 1..Len(Old) : Append(Old, n)[i] = Old[i]
      BY <1>3, <1>4
    <3>2. DOMAIN Append(Old, n) = 1..Len(Old) + 1 /\ DOMAIN Old = 1..Len(Old)
      BY <1>3, <1>4, <3>1
    <3>3. 1..Len(Old) + 1 = (1..Len(Old)) \cup {Len(Old) + 1}
      <4>1. \A k \in Nat : 1..k + 1 = (1..k) \cup {k + 1}
        OBVIOUS
      <4> QED
        BY <1>3, <4>1
    <3> HIDE DEF Old
    <3> QED
      BY <3>1, <3>2, <3>3 DEF ToSet
  <2>2. \A m \in Mine(r) : m \in Name /\ disk[m].of = r
    BY <1>2, Held
  <2> QED
    BY <1>5, <1>8, <2>1, <2>2 DEF Mine
<1>11. RequestFits(r)'
  <2>1. /\ Len(Append(Old, n)) = Len(Old) + 1 /\ DOMAIN Append(Old, n) = 1..Len(Old) + 1 /\ Append(Old, n)[Len(Old) + 1] = n
        /\ \A i \in 1..Len(Old) : Append(Old, n)[i] = Old[i]
    BY <1>3, <1>4
  <2>2. \A i, j \in 1..Len(Old) + 1 : i # j => Append(Old, n)[i] # Append(Old, n)[j]
    <3>1. \A i, j \in 1..Len(Old) : i # j => Old[i] # Old[j]
      BY <1>1, <1>2, <1>3 DEF RequestFits
    <3>2. \A i \in 1..Len(Old) : Old[i] # n
      BY <1>3, <1>10 DEF Mine, ToSet
    <3>3. ASSUME NEW i \in 1..Len(Old) + 1, NEW j \in 1..Len(Old) + 1, i # j
          PROVE  Append(Old, n)[i] # Append(Old, n)[j]
      <4> DEFINE A == Append(Old, n)
      <4>1. \A k \in 1..Len(Old) + 1 : k \in 1..Len(Old) \/ k = Len(Old) + 1
        BY <1>3
      <4>2. /\ A[Len(Old) + 1] = n /\ \A k \in 1..Len(Old) : A[k] = Old[k]
        BY <2>1
      <4> SUFFICES A[i] # A[j]
        OBVIOUS
      <4> HIDE DEF A, Old
      <4>3. CASE i \in 1..Len(Old) /\ j \in 1..Len(Old)
        BY <3>1, <3>3, <4>2, <4>3
      <4>4. CASE i = Len(Old) + 1 /\ j \in 1..Len(Old)
        BY <3>2, <4>2, <4>4
      <4>5. CASE j = Len(Old) + 1 /\ i \in 1..Len(Old)
        BY <3>2, <4>2, <4>5
      <4> QED
        BY <3>3, <4>1, <4>3, <4>4, <4>5
    <3> QED
      BY <3>3
  <2>3. \A m \in Mine(r)' : disk'[m].of = r
    BY <1>6, <1>10
  <2>4. UNCHANGED plan.files[r]
    OBVIOUS
  <2> QED
    BY <1>2, <1>3, <1>5, <2>1, <2>2, <2>3, <2>4 DEF RequestFits, Holds
<1>12. PasteFits(r)' /\ OnlyPasted(r)' /\ (r \in Press => PressFits(r)')
  BY <1>1, <1>2, <1>3, <1>5 DEF PasteFits, OnlyPasted, TypesItself, PressFits, Pasting
<1> QED
  BY <1>7, <1>9, <1>11, <1>12, OneMoves

LEMMA WriteKeeps ==
  ASSUME CoreInv, UNCHANGED plan, NEW r \in Req, Write(r)
  PROVE  CoreInv'
<1>1. CoreTypes /\ RequestFits(r) /\ PasteFits(r) /\ OnlyPasted(r) /\ (r \in Press => PressFits(r))
  BY DEF CoreInv
<1>2. req[r].at = "write" /\ UNCHANGED <<press, req, inject, pasted>> /\ Holds(r) /\ inject[r].at = "none"
  BY <1>1 DEF Write, Holds, RequestFits
<1>3. PICK n \in Mine(r) : disk' = [disk EXCEPT ![n].whole = TRUE]
  BY DEF Write, Unwritten
<1>4. \A m \in Mine(r) : m \in Name /\ disk[m].of = r
  BY <1>2, Held
<1>5. /\ disk' \in [Name -> Upload] /\ \A m \in Name \ {n} : disk'[m] = disk[m]
      /\ disk'[n].of = r
  BY <1>1, <1>3, <1>4 DEF CoreTypes, Upload
<1>6. CoreTypes'
  BY <1>1, <1>2, <1>5 DEF CoreTypes
<1>7. \A s \in Req \ {r} : Kept(s)
  <2>1. ASSUME NEW s \in Req \ {r}, Holds(s), NEW m \in Mine(s)
        PROVE  m \in Name /\ m # n
    <3>1. n \notin Mine(s)
      BY <1>2, <2>1, Apart
    <3> QED
      BY <2>1, <3>1, Held
  <2> QED
    BY <1>2, <1>5, <2>1 DEF Kept
<1>8. Mine(r)' = Mine(r) /\ \A m \in Mine(r) : disk'[m].of = r
  BY <1>2, <1>4, <1>5 DEF Mine
<1>9. RequestFits(r)'
  BY <1>1, <1>2, <1>8 DEF RequestFits, Holds
<1>10. PasteFits(r)' /\ OnlyPasted(r)' /\ (r \in Press => PressFits(r)')
  BY <1>1, <1>2 DEF PasteFits, OnlyPasted, TypesItself, PressFits, Pasting
<1> QED
  BY <1>6, <1>7, <1>9, <1>10, OneMoves

LEMMA FailsKeeps ==
  ASSUME CoreInv, UNCHANGED plan, NEW r \in Req, Fails(r)
  PROVE  CoreInv'
<1>1. CoreTypes /\ RequestFits(r) /\ PasteFits(r) /\ OnlyPasted(r) /\ (r \in Press => PressFits(r))
  BY DEF CoreInv
<1>2. /\ req[r].at \in {"reserve", "write"} /\ UNCHANGED <<press, inject, pasted>> /\ Finishes(r, "refused")
      /\ disk' = [n \in Name |-> IF n \in Mine(r) THEN NoUpload ELSE disk[n]]
  BY DEF Fails
<1>3. Holds(r) /\ inject[r].at = "none"
  BY <1>1, <1>2 DEF RequestFits, Holds
<1>4. /\ req' \in [Req -> ReqState] /\ \A s \in Req \ {r} : req'[s] = req[s]
      /\ req'[r].at = "done" /\ req'[r].reply = "refused" /\ req'[r].names = req[r].names
  BY <1>1, <1>2, FinishIs
<1>5. /\ disk' \in [Name -> Upload]
      /\ \A m \in Name : m \notin Mine(r) => disk'[m] = disk[m]
  <2>1. NoUpload \in Upload
    BY DEF NoUpload, Upload
  <2>2. disk \in [Name -> Upload]
    BY <1>1 DEF CoreTypes
  <2> QED
    BY <1>2, <2>1, <2>2
<1>6. CoreTypes'
  BY <1>1, <1>2, <1>4, <1>5 DEF CoreTypes
<1>7. \A s \in Req \ {r} : Kept(s)
  <2>1. ASSUME NEW s \in Req \ {r}, Holds(s), NEW m \in Mine(s)
        PROVE  m \in Name /\ m \notin Mine(r)
    BY <1>3, <2>1, Held, Apart
  <2> QED
    BY <1>2, <1>4, <1>5, <2>1 DEF Kept
<1>8. RequestFits(r)'
  BY <1>1, <1>2, <1>3, <1>4 DEF RequestFits, Holds
<1>9. PasteFits(r)' /\ OnlyPasted(r)' /\ (r \in Press => PressFits(r)')
  BY <1>1, <1>2, <1>3, <1>4 DEF PasteFits, OnlyPasted, TypesItself, PressFits, Pasting
<1> QED
  BY <1>6, <1>7, <1>8, <1>9, OneMoves

LEMMA InjectsKeeps ==
  ASSUME CoreInv, UNCHANGED plan, NEW r \in Req, Injects(r)
  PROVE  CoreInv'
<1>1. CoreTypes /\ RequestFits(r) /\ PasteFits(r) /\ OnlyPasted(r) /\ (r \in Press => PressFits(r))
  BY DEF CoreInv
<1>2. req[r].at = "write" /\ Unwritten(r) = {} /\ UNCHANGED <<press, disk, pasted>>
  BY DEF Injects
<1>3. /\ inject[r].at = "none" /\ req[r].reply = "none" /\ Len(req[r].names) = Len(plan.files[r])
      /\ pasted[r] = 0 /\ ~TypesItself(r) /\ Holds(r)
  BY <1>1, <1>2 DEF RequestFits, OnlyPasted, Holds
<1>4. CASE Finishes(r, "unpasted") /\ UNCHANGED inject
  <2>1. /\ req' \in [Req -> ReqState] /\ \A s \in Req \ {r} : req'[s] = req[s]
        /\ req'[r].at = "done" /\ req'[r].reply = "unpasted" /\ req'[r].names = req[r].names
    BY <1>1, <1>4, FinishIs
  <2>2. CoreTypes'
    BY <1>1, <1>2, <1>4, <2>1 DEF CoreTypes
  <2>3. \A s \in Req \ {r} : Kept(s)
    BY <1>2, <1>4, <2>1 DEF Kept
  <2>4. RequestFits(r)'
    BY <1>2, <1>3, <1>4, <2>1 DEF RequestFits, Holds
  <2>5. PasteFits(r)' /\ OnlyPasted(r)' /\ (r \in Press => PressFits(r)')
    BY <1>1, <1>2, <1>3, <1>4, <2>1 DEF PasteFits, OnlyPasted, TypesItself, PressFits, Pasting
  <2> QED
    BY <2>2, <2>3, <2>4, <2>5, OneMoves
<1>5. CASE req' = [req EXCEPT ![r].at = "inject"] /\ inject' = [inject EXCEPT ![r].at = "going"]
  <2>1. /\ req' \in [Req -> ReqState] /\ \A s \in Req \ {r} : req'[s] = req[s]
        /\ req'[r].at = "inject" /\ req'[r].reply = "none" /\ req'[r].names = req[r].names
    BY <1>1, <1>3, <1>5, MovesTo
  <2>2. /\ inject' \in [Req -> InjectState] /\ \A s \in Req \ {r} : inject'[s] = inject[s]
        /\ inject'[r].at = "going" /\ inject'[r].ok = inject[r].ok /\ inject'[r].life = inject[r].life
    BY <1>1, <1>5 DEF CoreTypes, InjectState
  <2>3. CoreTypes'
    BY <1>1, <1>2, <2>1, <2>2 DEF CoreTypes
  <2>4. \A s \in Req \ {r} : Kept(s)
    BY <1>2, <2>1, <2>2 DEF Kept
  <2>5. Mine(r)' = Mine(r) /\ \A n \in Mine(r) : disk[n].whole
    BY <1>2, <2>1 DEF Mine, Unwritten
  <2>6. RequestFits(r)'
    <3>1. UNCHANGED plan.files[r]
      OBVIOUS
    <3> QED
      BY <1>1, <1>2, <1>3, <2>1, <2>2, <2>5, <3>1 DEF RequestFits, Holds
  <2>7. inject'[r].life <= Grace /\ ~inject'[r].ok
    BY <1>1, <1>3, <2>2, PasteAssumption DEF PasteFits
  <2>8. PasteFits(r)' /\ OnlyPasted(r)' /\ (r \in Press => PressFits(r)')
    BY <1>1, <1>2, <1>3, <2>1, <2>2, <2>7 DEF PasteFits, OnlyPasted, TypesItself, PressFits, Pasting
  <2> QED
    BY <2>3, <2>4, <2>6, <2>8, OneMoves
<1> QED
  BY <1>4, <1>5 DEF Injects

LEMMA LandsKeeps ==
  ASSUME CoreInv, UNCHANGED plan, NEW r \in Req, Lands(r)
  PROVE  CoreInv'
<1>1. CoreTypes /\ RequestFits(r) /\ PasteFits(r) /\ OnlyPasted(r) /\ (r \in Press => PressFits(r))
  BY DEF CoreInv
<1>2. /\ inject[r].at = "going" /\ inject' = [inject EXCEPT ![r].at = "landed"]
      /\ pasted' = [pasted EXCEPT ![r] = @ + 1] /\ UNCHANGED <<press, req, disk>>
  BY DEF Lands
<1>3. req[r].at \in {"inject", "done"} /\ ~TypesItself(r) /\ pasted[r] = 0 /\ ~inject[r].ok
  BY <1>1, <1>2 DEF PasteFits, OnlyPasted
<1>4. /\ inject' \in [Req -> InjectState] /\ \A s \in Req \ {r} : inject'[s] = inject[s]
      /\ inject'[r].at = "landed" /\ inject'[r].ok = inject[r].ok /\ inject'[r].life = inject[r].life
  BY <1>1, <1>2 DEF CoreTypes, InjectState
<1>5. pasted' \in [Req -> Nat] /\ pasted'[r] = 1 /\ \A s \in Req \ {r} : pasted'[s] = pasted[s]
  BY <1>1, <1>2, <1>3 DEF CoreTypes
<1>6. CoreTypes'
  BY <1>1, <1>2, <1>4, <1>5 DEF CoreTypes
<1>7. \A s \in Req \ {r} : Kept(s)
  BY <1>2, <1>4, <1>5 DEF Kept
<1>8. Mine(r)' = Mine(r) /\ Holds(r)' /\ Holds(r) /\ TypesItself(r)' = TypesItself(r)
  BY <1>2, <1>4 DEF Mine, Holds, TypesItself
<1>9. RequestFits(r)'
  BY <1>1, <1>2, <1>3, <1>4, <1>8 DEF RequestFits
<1>10. PasteFits(r)' /\ OnlyPasted(r)'
  BY <1>1, <1>2, <1>3, <1>4, <1>5, <1>8 DEF PasteFits, OnlyPasted
<1>11. r \in Press => PressFits(r)'
  BY <1>1, <1>2, <1>3, <1>4, <1>5, <1>8 DEF PressFits, Pasting
<1> QED
  BY <1>6, <1>7, <1>9, <1>10, <1>11, OneMoves

LEMMA InjectEndsKeeps ==
  ASSUME CoreInv, UNCHANGED plan, NEW r \in Req, InjectEnds(r)
  PROVE  CoreInv'
<1>1. CoreTypes /\ RequestFits(r) /\ PasteFits(r) /\ OnlyPasted(r) /\ (r \in Press => PressFits(r))
  BY DEF CoreInv
<1>2. UNCHANGED <<press, req, disk, pasted>>
  BY DEF InjectEnds
<1>3. /\ inject' \in [Req -> InjectState] /\ \A s \in Req \ {r} : inject'[s] = inject[s]
      /\ inject'[r].at = "over" /\ inject'[r].life = inject[r].life
      /\ \/ inject[r].at = "landed" /\ (inject'[r].ok \/ inject[r].life = InjectLife)
         \/ inject[r].at = "going" /\ inject'[r].ok = inject[r].ok
  <2>1. inject \in [Req -> InjectState]
    BY <1>1 DEF CoreTypes
  <2>2. CASE inject[r].at = "going" /\ inject' = [inject EXCEPT ![r].at = "over"]
    BY <2>1, <2>2 DEF InjectState
  <2>3. CASE inject[r].at = "landed"
    <3>1. PICK ok \in IF inject[r].life = InjectLife THEN BOOLEAN ELSE {TRUE} :
            inject' = [inject EXCEPT ![r].at = "over", ![r].ok = ok]
      BY <2>3 DEF InjectEnds
    <3>2. ok \in BOOLEAN /\ (ok \/ inject[r].life = InjectLife)
      OBVIOUS
    <3> QED
      BY <2>1, <2>3, <3>1, <3>2 DEF InjectState
  <2> QED
    BY <2>2, <2>3 DEF InjectEnds
<1>4. CoreTypes'
  BY <1>1, <1>2, <1>3 DEF CoreTypes
<1>5. \A s \in Req \ {r} : Kept(s)
  BY <1>2, <1>3 DEF Kept
<1>6. Mine(r)' = Mine(r) /\ Holds(r)' = Holds(r) /\ TypesItself(r)' = TypesItself(r)
  BY <1>2, <1>3 DEF Mine, Holds, TypesItself
<1>7. RequestFits(r)'
  BY <1>1, <1>2, <1>3, <1>6 DEF RequestFits
<1>8. InjectLife \in Nat /\ Grace \in Nat /\ Grace < InjectLife /\ inject[r].life \in Nat
  BY <1>1, PasteAssumption DEF CoreTypes, InjectState
<1>9. PasteFits(r)'
  <2>1. CASE inject[r].at = "landed"
    BY <1>1, <1>2, <1>3, <1>8, <2>1 DEF PasteFits
  <2>2. CASE inject[r].at = "going"
    BY <1>1, <1>2, <1>3, <2>2 DEF PasteFits, OnlyPasted
  <2> QED
    BY <1>3, <2>1, <2>2
<1>10. OnlyPasted(r)'
  BY <1>1, <1>2, <1>3, <1>6 DEF OnlyPasted
<1>11. r \in Press => PressFits(r)'
  BY <1>1, <1>2, <1>3, <1>6 DEF PressFits, Pasting
<1> QED
  BY <1>4, <1>5, <1>7, <1>9, <1>10, <1>11, OneMoves

LEMMA RepliesKeeps ==
  ASSUME CoreInv, UNCHANGED plan, NEW r \in Req, Replies(r)
  PROVE  CoreInv'
<1>1. CoreTypes /\ RequestFits(r) /\ PasteFits(r) /\ OnlyPasted(r) /\ (r \in Press => PressFits(r))
  BY DEF CoreInv
<1>2. req[r].at = "inject" /\ Finishes(r, Said(r)) /\ UNCHANGED <<press, inject, disk, pasted>>
  BY DEF Replies
<1>3. /\ Said(r) \in {"pasted", "pending", "unpasted"}
      /\ Said(r) = "pasted" => inject[r].at = "over" /\ inject[r].ok
      /\ Said(r) = "unpasted" => inject[r].at = "over" /\ ~inject[r].ok
  BY DEF Said
<1>4. /\ req' \in [Req -> ReqState] /\ \A s \in Req \ {r} : req'[s] = req[s]
      /\ req'[r].at = "done" /\ req'[r].reply = Said(r) /\ req'[r].names = req[r].names
  BY <1>1, <1>2, <1>3, FinishIs
<1>5. CoreTypes'
  BY <1>1, <1>2, <1>4 DEF CoreTypes
<1>6. \A s \in Req \ {r} : Kept(s)
  BY <1>2, <1>4 DEF Kept
<1>7. inject[r].at # "none" /\ Mine(r)' = Mine(r) /\ Holds(r)' /\ Holds(r) /\ TypesItself(r)' = TypesItself(r)
  BY <1>1, <1>2, <1>4 DEF PasteFits, Mine, Holds, TypesItself
<1>8. RequestFits(r)'
  BY <1>1, <1>2, <1>4, <1>7 DEF RequestFits
<1>9. inject[r].life <= Grace /\ inject[r].life < InjectLife
  <2>1. Grace \in Nat /\ InjectLife \in Nat /\ inject[r].life \in Nat
    BY <1>1, PasteAssumption DEF CoreTypes, InjectState
  <2> QED
    BY <1>1, <1>2, <2>1, PasteAssumption DEF PasteFits
<1>10. PasteFits(r)' /\ OnlyPasted(r)'
  BY <1>1, <1>2, <1>3, <1>4, <1>7, <1>9 DEF PasteFits, OnlyPasted
<1>11. r \in Press => PressFits(r)'
  BY <1>1, <1>2, <1>3, <1>4, <1>7 DEF PressFits, Pasting
<1> QED
  BY <1>5, <1>6, <1>8, <1>10, <1>11, OneMoves

(* Time passes: the waits and the lives grow, and nothing else.            *)
LEMMA PasteTickKeeps ==
  ASSUME CoreInv, UNCHANGED plan, PasteTick
  PROVE  CoreInv'
<1>1. CoreTypes
  BY DEF CoreInv
<1>2. UNCHANGED <<req, disk, pasted>>
  BY DEF PasteTick
<1>3. /\ press' \in [Press -> PressState]
      /\ \A p \in Press : press'[p].at = press[p].at /\ press'[p].kind = press[p].kind /\ press'[p].verdict = press[p].verdict
  <2>1. press \in [Press -> PressState] /\ press' = [p \in Press |-> IF Waiting(p) THEN [press[p] EXCEPT !.waited = @ + 1] ELSE press[p]]
    BY <1>1 DEF CoreTypes, PasteTick
  <2>2. ASSUME NEW p \in Press
        PROVE  /\ press'[p] \in PressState /\ press'[p].at = press[p].at
               /\ press'[p].kind = press[p].kind /\ press'[p].verdict = press[p].verdict
    BY <2>1 DEF PressState
  <2> QED
    BY <2>1, <2>2
<1>4. /\ inject' \in [Req -> InjectState]
      /\ \A r \in Req : /\ inject'[r].at = inject[r].at /\ inject'[r].ok = inject[r].ok
                        /\ ~Pasting(r) => inject'[r].life = inject[r].life
                        /\ Pasting(r) => inject'[r].life = inject[r].life + 1
  <2>1. inject \in [Req -> InjectState] /\ inject' = [r \in Req |-> IF Pasting(r) THEN [inject[r] EXCEPT !.life = @ + 1] ELSE inject[r]]
    BY <1>1 DEF CoreTypes, PasteTick
  <2>2. ASSUME NEW r \in Req
        PROVE  /\ inject'[r] \in InjectState /\ inject'[r].at = inject[r].at /\ inject'[r].ok = inject[r].ok
               /\ ~Pasting(r) => inject'[r].life = inject[r].life
               /\ Pasting(r) => inject'[r].life = inject[r].life + 1
    BY <2>1 DEF InjectState
  <2> QED
    BY <2>1, <2>2
<1>5. CoreTypes'
  BY <1>1, <1>2, <1>3, <1>4 DEF CoreTypes
<1>6. ASSUME NEW r \in Req
      PROVE  RequestFits(r)' /\ PasteFits(r)' /\ OnlyPasted(r)'
  <2>1. RequestFits(r) /\ PasteFits(r) /\ OnlyPasted(r)
    BY DEF CoreInv
  <2>2. Mine(r)' = Mine(r) /\ Holds(r)' = Holds(r) /\ TypesItself(r)' = TypesItself(r)
    BY <1>2, <1>3, <1>4 DEF Mine, Holds, TypesItself
  <2>3. RequestFits(r)'
    BY <1>2, <1>4, <2>1, <2>2 DEF RequestFits
  <2>4. OnlyPasted(r)'
    BY <1>2, <1>4, <2>1, <2>2 DEF OnlyPasted
  <2>5. req[r].at = "inject" => inject[r].life < Grace
    BY DEF PasteTick
  <2>6. inject[r].life \in Nat /\ Grace \in Nat
    BY <1>1, PasteAssumption DEF CoreTypes, InjectState
  <2>7. PasteFits(r)'
    BY <1>2, <1>4, <2>1, <2>5, <2>6 DEF PasteFits, Pasting
  <2> QED
    BY <2>3, <2>4, <2>7
<1>7. ASSUME NEW p \in Press
      PROVE  PressFits(p)'
  <2>1. p \in Req /\ PressFits(p)
    BY DEF CoreInv, Req
  <2>2. TypesItself(p)' = TypesItself(p) /\ Pasting(p)' = Pasting(p)
    BY <1>3, <1>4, <2>1 DEF TypesItself, Pasting
  <2> QED
    BY <1>2, <1>3, <2>1, <2>2 DEF PressFits
<1> QED
  BY <1>5, <1>6, <1>7 DEF CoreInv

-----------------------------------------------------------------------------
(* The bar.                                                                *)
LEMMA LevelIsNat ==
  ASSUME NEW at \in {"idle", "read", "post", "type", "done"}
  PROVE  LevelOf(at) \in 0..3
BY DEF LevelOf, Capturing, Uploading, LastPhase

LEMMA QueuedIs ==
  ASSUME BarTypes, NEW p \in Press, NEW phase \in Nat
  PROVE  \/ Queued(p, phase) = queue
         \/ /\ Queued(p, phase) \in Seq(Flash) /\ Len(Queued(p, phase)) = Len(queue) + 1
            /\ \A i \in 1..Len(queue) : Queued(p, phase)[i] = queue[i]
            /\ Queued(p, phase)[Len(queue) + 1] = [of |-> p, phase |-> phase, age |-> 0]
<1>1. queue \in Seq(Flash) /\ [of |-> p, phase |-> phase, age |-> 0] \in Flash
  BY DEF BarTypes, Flash, Req
<1> DEFINE m == [of |-> p, phase |-> phase, age |-> 0]
<1>2. Queued(p, phase) = queue \/ Queued(p, phase) = Append(queue, m)
  BY DEF Queued
<1>3. /\ Append(queue, m) \in Seq(Flash) /\ Len(Append(queue, m)) = Len(queue) + 1
      /\ \A i \in 1..Len(queue) : Append(queue, m)[i] = queue[i]
      /\ Append(queue, m)[Len(queue) + 1] = m
  <2> HIDE DEF m
  <2>1. m \in Flash
    BY <1>1 DEF m
  <2> QED
    BY <1>1, <2>1
<1> QED
  BY <1>2, <1>3

(* A press moves on and tells it: what is queued last is the furthest.     *)
LEMMA PressTells ==
  ASSUME CoreTypes, BarTypes, BarFits, NEW p \in Press, CoreTypes',
         \A s \in Press \ {p} : press'[s] = press[s],
         Level(p) <= LevelOf(press'[p].at), queue' = Queued(p, LevelOf(press'[p].at)), UNCHANGED <<pump, shows, said, plan>>
  PROVE  BarTypes' /\ BarFits'
<1> DEFINE n == Len(queue)
<1>1. queue \in Seq(Flash) /\ n \in Nat /\ DOMAIN queue = 1..n
  BY DEF BarTypes
<1>2. \A s \in Press : Level(s) \in Nat /\ LevelOf(press'[s].at) \in Nat /\ said[s] \in Nat
  <2>1. ASSUME NEW s \in Press
        PROVE  /\ press[s].at \in {"idle", "read", "post", "type", "done"} /\ press'[s].at \in {"idle", "read", "post", "type", "done"}
               /\ said[s] \in Nat
    BY DEF CoreTypes, PressState, BarTypes
  <2>2. \A k \in 0..3 : k \in Nat
    OBVIOUS
  <2> QED
    BY <2>1, <2>2, LevelIsNat DEF Level
<1>3. \A s \in Press : Level(s) <= LevelOf(press'[s].at)
  <2>1. \A s \in Press \ {p} : LevelOf(press'[s].at) = Level(s)
    BY DEF Level
  <2> QED
    BY <1>2, <2>1
<1>4. \/ queue' = queue
      \/ /\ queue' \in Seq(Flash) /\ Len(queue') = n + 1
         /\ \A i \in 1..n : queue'[i] = queue[i]
         /\ queue'[n + 1] = [of |-> p, phase |-> LevelOf(press'[p].at), age |-> 0]
  <2>1. LevelOf(press'[p].at) \in Nat
    BY <1>2
  <2> QED
    BY <2>1, QueuedIs
<1>5. \A i \in 1..n : /\ queue[i] \in Flash /\ queue[i].of \in Press /\ queue[i].age = 0 /\ queue[i].phase \in Nat
                      /\ queue[i].phase <= Level(queue[i].of) /\ said[queue[i].of] <= queue[i].phase
  <2>1. \A i \in 1..n : queue[i] \in Flash
    BY <1>1
  <2> QED
    BY <1>1, <2>1 DEF BarFits, QueueFits, Flash
<1>6. CASE queue' = queue
  <2>1. \A i \in 1..n : queue[i].phase <= LevelOf(press'[queue[i].of].at)
    BY <1>2, <1>3, <1>5
  <2>2. QueueFits'
    BY <1>1, <1>5, <1>6, <2>1 DEF BarFits, QueueFits, Level
  <2>3. ShowsFit'
    <3>1. \A m \in shows : m.of \in Press => m.phase <= LevelOf(press'[m.of].at)
      BY <1>2, <1>3 DEF BarFits, ShowsFit, BarTypes, Flash
    <3> QED
      BY <1>6, <3>1 DEF BarFits, ShowsFit, Level
  <2>4. \A s \in Press : said[s] <= LevelOf(press'[s].at)
    BY <1>2, <1>3 DEF BarFits
  <2> QED
    BY <1>6, <2>2, <2>3, <2>4 DEF BarFits, BarTypes, Level
<1>7. CASE /\ queue' \in Seq(Flash) /\ Len(queue') = n + 1
           /\ \A i \in 1..n : queue'[i] = queue[i]
           /\ queue'[n + 1] = [of |-> p, phase |-> LevelOf(press'[p].at), age |-> 0]
  <2>1. DOMAIN queue' = 1..n + 1 /\ queue'[n + 1].of = p /\ queue'[n + 1].phase = LevelOf(press'[p].at) /\ queue'[n + 1].age = 0
    BY <1>7
  <2>2. \A i \in 1..n + 1 : i = n + 1 \/ i \in 1..n
    BY <1>1
  <2>3. said[p] <= LevelOf(press'[p].at)
    BY <1>2, <1>3 DEF BarFits
  <2>4. QueueFits'
    <3>1. \A i \in 1..n + 1 : queue'[i].of \in Press /\ queue'[i].age = 0 /\ queue'[i].phase <= LevelOf(press'[queue'[i].of].at)
                              /\ said[queue'[i].of] <= queue'[i].phase
      <4>1. \A i \in 1..n : queue[i].phase <= LevelOf(press'[queue[i].of].at)
        BY <1>2, <1>3, <1>5
      <4>2. ASSUME NEW i \in 1..n
            PROVE  queue'[i].of \in Press /\ queue'[i].age = 0 /\ queue'[i].phase <= LevelOf(press'[queue'[i].of].at)
                   /\ said[queue'[i].of] <= queue'[i].phase
        BY <1>5, <1>7, <4>1
      <4>3. LevelOf(press'[p].at) <= LevelOf(press'[p].at)
        BY <1>2
      <4> QED
        BY <2>1, <2>2, <2>3, <4>2, <4>3
    <3>2. ASSUME NEW i \in 1..n + 1, NEW j \in 1..n + 1, i < j, queue'[i].of = queue'[j].of
          PROVE  queue'[i].phase <= queue'[j].phase
      <4>1. i \in 1..n
        BY <1>1, <3>2
      <4>2. CASE j \in 1..n
        BY <1>1, <1>7, <3>2, <4>1, <4>2 DEF BarFits, QueueFits, Level
      <4>3. CASE j = n + 1
        <5>1. queue[i].of = p /\ queue[i].phase <= Level(p) /\ queue[i].phase \in Nat
          BY <1>5, <1>7, <2>1, <3>2, <4>1, <4>3
        <5> QED
          BY <1>2, <1>3, <1>7, <2>1, <4>1, <4>3, <5>1
      <4> QED
        BY <2>2, <4>2, <4>3
    <3> QED
      BY <2>1, <3>1, <3>2 DEF QueueFits, Level
  <2>5. ShowsFit'
    <3>1. ASSUME NEW m \in shows, m.of \in Press
          PROVE  m.phase <= LevelOf(press'[m.of].at) /\ \A i \in 1..n + 1 : queue'[i].of = m.of => m.phase <= queue'[i].phase
      <4>1. m.phase \in Nat /\ m.phase <= Level(m.of)
        BY <3>1 DEF BarFits, ShowsFit, BarTypes, Flash
      <4>2. m.phase <= LevelOf(press'[m.of].at)
        BY <1>2, <1>3, <3>1, <4>1
      <4>3. \A i \in 1..n : queue[i].of = m.of => m.phase <= queue[i].phase
        BY <1>1, <3>1 DEF BarFits, ShowsFit, Level
      <4> QED
        BY <1>7, <2>1, <2>2, <4>2, <4>3
    <3> QED
      BY <2>1, <3>1 DEF BarFits, ShowsFit, Level
  <2>6. \A s \in Press : said[s] <= LevelOf(press'[s].at)
    BY <1>2, <1>3 DEF BarFits
  <2> QED
    BY <1>7, <2>4, <2>5, <2>6 DEF BarFits, BarTypes, Level
<1> QED
  BY <1>4, <1>6, <1>7

LEMMA ReportTells ==
  ASSUME CoreTypes, CoreTypes', BarTypes, BarFits, NEW p \in Press, NEW v, Report(p, v), UNCHANGED <<pump, shows, said, plan>>
  PROVE  BarTypes' /\ BarFits'
<1>1. press \in [Press -> PressState] /\ press[p] \in PressState
  BY DEF CoreTypes
<1>2. press'[p].at = "done" /\ (\A s \in Press \ {p} : press'[s] = press[s]) /\ queue' = Queued(p, LastPhase)
  BY <1>1 DEF Report, PressState
<1>3. LevelOf("done") = LastPhase /\ Level(p) <= LastPhase
  <2>1. Level(p) \in 0..3
    BY <1>1, LevelIsNat DEF Level, PressState
  <2> QED
    BY <2>1 DEF LevelOf, LastPhase
<1> QED
  BY <1>2, <1>3, PressTells

LEMMA MovesTell ==
  ASSUME CoreTypes, CoreTypes', BarTypes, BarFits, NEW p \in Press, NEW at \in {"read", "post", "type"}, NEW kind \in PressKinds,
         \/ press' = [press EXCEPT ![p].at = at, ![p].kind = kind]
         \/ press' = [press EXCEPT ![p].at = at],
         at # "read" => press[p].at = "read", at = "read" => press[p].at = "idle",
         queue' = Queued(p, LevelOf(at)), UNCHANGED <<pump, shows, said, plan>>
  PROVE  BarTypes' /\ BarFits'
<1>1. press \in [Press -> PressState] /\ press[p] \in PressState
  BY DEF CoreTypes
<1>2. press'[p].at = at /\ (\A s \in Press \ {p} : press'[s] = press[s])
  BY <1>1 DEF PressState
<1>3. Level(p) <= LevelOf(at)
  BY DEF Level, LevelOf, Capturing, Uploading
<1> QED
  BY <1>2, <1>3, PressTells

LEMMA PressesTell ==
  ASSUME CoreInv, CoreInv', BarTypes, BarFits, UNCHANGED plan, NEW p \in Press,
         Chord(p) \/ OpensCode(p) \/ ReadsClip(p) \/ Types(p) \/ Answered(p) \/ GivesUp(p)
  PROVE  BarTypes' /\ BarFits'
<1>1. CoreTypes /\ CoreTypes'
  BY DEF CoreInv
<1>2. LevelOf("read") = Capturing /\ LevelOf("post") = Uploading /\ LevelOf("type") = Uploading
  BY DEF LevelOf
<1>3. CASE Chord(p)
  <2>1. PICK kind \in plan.kinds :
          IF kind = "none" THEN Report(p, "no-image")
          ELSE press' = [press EXCEPT ![p].at = "read", ![p].kind = kind] /\ queue' = Queued(p, Capturing)
    BY <1>3 DEF Chord
  <2>2. press[p].at = "idle" /\ UNCHANGED <<pump, shows, said, plan>> /\ kind \in PressKinds
    BY <1>1, <1>3, SetupFits DEF Chord
  <2>3. CASE kind = "none"
    BY <1>1, <2>1, <2>2, <2>3, ReportTells
  <2>4. CASE kind # "none"
    BY <1>1, <1>2, <2>1, <2>2, <2>4, MovesTell
  <2> QED
    BY <2>3, <2>4
<1>4. CASE OpensCode(p)
  BY <1>1, <1>4, ReportTells DEF OpensCode
<1>5. CASE ReadsClip(p)
  <2>1. press[p].at = "read" /\ UNCHANGED <<pump, shows, said, plan>>
    BY <1>5 DEF ReadsClip
  <2>2. press[p].kind \in PressKinds
    BY <1>1 DEF CoreTypes, PressState
  <2>3. CASE \E v \in Refusals(press[p].kind) : Report(p, v)
    BY <1>1, <2>1, <2>3, ReportTells
  <2>4. CASE press' = [press EXCEPT ![p].at = "type"] /\ queue' = Queued(p, Uploading)
    BY <1>1, <1>2, <2>1, <2>2, <2>4, MovesTell
  <2>5. CASE Posts(p)
    BY <1>1, <1>2, <2>1, <2>2, <2>5, MovesTell DEF Posts
  <2> QED
    BY <1>5, <2>3, <2>4, <2>5 DEF ReadsClip
<1>6. CASE Types(p)
  BY <1>1, <1>6, ReportTells DEF Types
<1>7. CASE Answered(p)
  BY <1>1, <1>7, ReportTells DEF Answered
<1>8. CASE GivesUp(p)
  BY <1>1, <1>8, ReportTells DEF GivesUp
<1> QED
  BY <1>3, <1>4, <1>5, <1>6, <1>7, <1>8

(* The serve's own words are of no press.                                  *)
LEMMA ServeTells ==
  ASSUME BarTypes, BarFits, NEW r \in Req,
         UNCHANGED <<press, queue, pump, said>>,
         shows' = shows \/ (r \notin Press /\ shows' = shows \cup {[of |-> r, phase |-> 0, age |-> 0]})
  PROVE  BarTypes' /\ BarFits'
<1>1. [of |-> r, phase |-> 0, age |-> 0] \in Flash /\ 0 <= PsmuxBound
  BY PasteAssumption DEF Flash
<1>2. CASE shows' = shows
  BY <1>2 DEF BarTypes, BarFits, QueueFits, ShowsFit, Level
<1>3. CASE r \notin Press /\ shows' = shows \cup {[of |-> r, phase |-> 0, age |-> 0]}
  <2>1. BarTypes' /\ QueueFits' /\ \A s \in Press : said[s] <= Level(s)'
    BY <1>1, <1>3 DEF BarTypes, BarFits, QueueFits, Level
  <2>2. ShowsFit'
    BY <1>1, <1>3 DEF BarFits, ShowsFit, Level
  <2> QED
    BY <2>1, <2>2 DEF BarFits
<1> QED
  BY <1>2, <1>3

LEMMA RequestsTell ==
  ASSUME BarTypes, BarFits, NEW r \in Req,
         Body(r) \/ Reserve(r) \/ Write(r) \/ Fails(r) \/ Injects(r) \/ Lands(r) \/ InjectEnds(r) \/ Replies(r) \/ PhonePosts(r)
  PROVE  BarTypes' /\ BarFits'
<1>1. UNCHANGED <<press, queue, pump, said>>
  BY DEF Body, Reserve, Write, Fails, Injects, Lands, InjectEnds, Replies, PhonePosts
<1>2. ASSUME NEW reply, Finishes(r, reply)
      PROVE  shows' = shows \/ (r \notin Press /\ shows' = shows \cup {[of |-> r, phase |-> 0, age |-> 0]})
  BY <1>2 DEF Finishes, Narrates
<1>3. shows' = shows \/ (r \notin Press /\ shows' = shows \cup {[of |-> r, phase |-> 0, age |-> 0]})
  BY <1>2 DEF Body, Reserve, Write, Fails, Injects, Lands, InjectEnds, Replies, PhonePosts
<1> QED
  BY <1>1, <1>3, ServeTells

LEMMA SendsTell ==
  ASSUME CoreTypes, BarTypes, BarFits, Sends
  PROVE  BarTypes' /\ BarFits'
<1> DEFINE h == Head(queue)
<1>1. ~pump.busy /\ queue # <<>> /\ queue' = Tail(queue) /\ UNCHANGED <<press, said>>
  BY DEF Sends
<1>2. /\ queue \in Seq(Flash) /\ DOMAIN queue = 1..Len(queue) /\ h = queue[1] /\ 1 \in DOMAIN queue /\ h \in Flash
      /\ queue' \in Seq(Flash) /\ DOMAIN queue' = 1..Len(queue) - 1
      /\ \A i \in 1..Len(queue) - 1 : queue'[i] = queue[i + 1] /\ i + 1 \in DOMAIN queue /\ 1 < i + 1
  BY <1>1 DEF BarTypes
<1>3. \A i \in DOMAIN queue' : \E j \in DOMAIN queue : queue'[i] = queue[j]
  BY <1>2
<1>4. QueueFits'
  <2>1. \A i \in DOMAIN queue' : queue'[i].of \in Press /\ queue'[i].age = 0 /\ queue'[i].phase <= Level(queue'[i].of)
                                 /\ said[queue'[i].of] <= queue'[i].phase
    BY <1>3 DEF BarFits, QueueFits
  <2>2. ASSUME NEW i \in DOMAIN queue', NEW j \in DOMAIN queue', i < j, queue'[i].of = queue'[j].of
        PROVE  queue'[i].phase <= queue'[j].phase
    <3>1. i + 1 \in DOMAIN queue /\ j + 1 \in DOMAIN queue /\ i + 1 < j + 1 /\ queue'[i] = queue[i + 1] /\ queue'[j] = queue[j + 1]
      BY <1>2, <2>2
    <3> QED
      BY <2>2, <3>1 DEF BarFits, QueueFits
  <2> QED
    BY <1>1, <2>1, <2>2 DEF QueueFits, Level
<1>5. \A m \in shows : m.of \notin Press /\ m.age <= PsmuxBound
  BY <1>1 DEF BarFits, ShowsFit
<1>6. CASE pump' = [busy |-> TRUE, msg |-> h, waited |-> 0] /\ shows' = shows \cup {h}
  <2>1. BarTypes'
    BY <1>1, <1>2, <1>6 DEF BarTypes
  <2>2. /\ h.of \in Press /\ h.age = 0 /\ h.phase <= Level(h.of) /\ said[h.of] <= h.phase
        /\ \A i \in DOMAIN queue' : queue'[i].of = h.of => h.phase <= queue'[i].phase
    <3>1. h.of \in Press /\ h.age = 0 /\ h.phase <= Level(h.of) /\ said[h.of] <= h.phase
      BY <1>2 DEF BarFits, QueueFits
    <3>2. ASSUME NEW i \in DOMAIN queue', queue'[i].of = h.of
          PROVE  h.phase <= queue'[i].phase
      <4>1. i + 1 \in DOMAIN queue /\ 1 < i + 1 /\ queue'[i] = queue[i + 1]
        BY <1>2
      <4> QED
        BY <1>2, <3>2, <4>1 DEF BarFits, QueueFits
    <3> QED
      BY <3>1, <3>2
  <2>3. 0 <= PsmuxBound
    BY PasteAssumption
  <2>4. pump'.busy /\ pump'.msg = h /\ pump'.waited = 0
    BY <1>6
  <2>5. ShowsFit'
    <3> HIDE DEF h
    <3>1. \A m \in shows' : m = h \/ m \in shows
      BY <1>6
    <3> QED
      BY <1>1, <1>5, <2>2, <2>3, <2>4, <3>1 DEF ShowsFit, Level
  <2> QED
    BY <1>1, <1>4, <2>1, <2>5 DEF BarFits, Level
<1>7. CASE UNCHANGED <<pump, shows>>
  <2>1. BarTypes'
    BY <1>1, <1>2, <1>7 DEF BarTypes
  <2>2. ShowsFit'
    BY <1>1, <1>5, <1>7 DEF ShowsFit
  <2> QED
    BY <1>1, <1>4, <2>1, <2>2 DEF BarFits, Level
<1> QED
  BY <1>6, <1>7 DEF Sends

LEMMA AbandonsTells ==
  ASSUME CoreTypes, BarTypes, BarFits, Abandons
  PROVE  BarTypes' /\ BarFits'
<1>1. /\ pump.busy /\ pump.waited >= FlashWait /\ pump' = [pump EXCEPT !.busy = FALSE, !.waited = 0]
      /\ UNCHANGED <<press, queue, shows, said>>
  BY DEF Abandons, Impatient
<1>2. PsmuxBound \in Nat /\ FlashWait \in Nat /\ PsmuxBound < FlashWait /\ pump.waited \in Nat
  BY PasteAssumption DEF BarTypes
<1>3. \A m \in shows : m.age \in Nat /\ m.age <= PsmuxBound /\ m.of \notin Press
  BY <1>1, <1>2 DEF BarFits, ShowsFit, BarTypes, Flash
<1>4. BarTypes' /\ ~pump'.busy
  BY <1>1 DEF BarTypes
<1>5. QueueFits' /\ \A p \in Press : said[p] <= Level(p)'
  BY <1>1 DEF BarFits, QueueFits, Level
<1>6. ShowsFit'
  BY <1>1, <1>3, <1>4 DEF ShowsFit
<1> QED
  BY <1>1, <1>4, <1>5, <1>6 DEF BarFits

(* Two messages a press has out are one and the same.                      *)
LEMMA OneIsOut ==
  ASSUME BarTypes, BarFits, NEW m \in shows, NEW k \in shows, m.of \in Press, k.of \in Press
  PROVE  m = k
<1>1. m.of = k.of /\ m.phase = k.phase /\ m.age = k.age
  BY DEF BarFits, ShowsFit
<1>2. m \in Flash /\ k \in Flash
  BY DEF BarTypes
<1> QED
  BY <1>1, <1>2 DEF Flash

LEMMA DisplaysTells ==
  ASSUME CoreTypes, BarTypes, BarFits, NEW m \in shows, Displays(m)
  PROVE  BarTypes' /\ BarFits' /\ \A p \in Press : said'[p] >= said[p]
<1>1. /\ shows' = shows \ {m} /\ UNCHANGED <<press, queue>>
      /\ pump' = IF pump.busy /\ pump.msg.of = m.of /\ pump.msg.phase = m.phase
                 THEN [pump EXCEPT !.busy = FALSE, !.waited = 0] ELSE pump
      /\ \/ m.of \in Press /\ said' = [said EXCEPT ![m.of] = m.phase]
         \/ said' = said
  BY DEF Displays
<1>2. m \in Flash /\ m.phase \in Nat /\ said \in [Press -> Nat]
  BY DEF BarTypes, Flash
<1>3. said' \in [Press -> Nat] /\ \A p \in Press : said'[p] = said[p] \/ (p = m.of /\ said'[p] = m.phase)
  BY <1>1, <1>2
<1>4. m.of \in Press => /\ said[m.of] <= m.phase /\ m.phase <= Level(m.of) /\ pump.busy /\ pump.msg.of = m.of /\ pump.msg.phase = m.phase
                        /\ \A i \in DOMAIN queue : queue[i].of = m.of => m.phase <= queue[i].phase
  BY DEF BarFits, ShowsFit
<1>5. BarTypes'
  <2>1. pump' \in [busy : BOOLEAN, msg : Flash, waited : Nat]
    BY <1>1 DEF BarTypes
  <2> QED
    BY <1>1, <1>3, <2>1 DEF BarTypes
<1>6. QueueFits'
  <2>1. \A i \in DOMAIN queue : said'[queue[i].of] <= queue[i].phase
    BY <1>3, <1>4 DEF BarFits, QueueFits
  <2> QED
    BY <1>1, <2>1 DEF BarFits, QueueFits, Level
<1>7. \A p \in Press : said'[p] <= Level(p)'
  BY <1>1, <1>3, <1>4 DEF BarFits, Level
<1>8. ShowsFit'
  <2>1. CASE m.of \in Press
    <3>1. \A k \in shows' : k.of \notin Press /\ k.age <= PsmuxBound
      <4>1. \A k \in shows : k.of \in Press => k = m
        BY <2>1, OneIsOut
      <4> QED
        BY <1>1, <4>1 DEF BarFits, ShowsFit
    <3>2. ~pump'.busy
      BY <1>1, <1>4, <2>1 DEF BarTypes
    <3> QED
      BY <3>1, <3>2 DEF ShowsFit
  <2>2. CASE m.of \notin Press
    <3>1. pump' = pump /\ said' = said
      BY <1>1, <2>2 DEF BarFits, ShowsFit
    <3> QED
      BY <1>1, <3>1 DEF BarFits, ShowsFit, Level
  <2> QED
    BY <2>1, <2>2
<1>9. \A p \in Press : said'[p] >= said[p]
  BY <1>2, <1>3, <1>4
<1> QED
  BY <1>5, <1>6, <1>7, <1>8, <1>9 DEF BarFits

LEMMA HangsOnTells ==
  ASSUME BarTypes, BarFits, NEW m \in shows, HangsOn(m)
  PROVE  BarTypes' /\ BarFits'
<1>1. shows' \subseteq shows /\ UNCHANGED <<press, queue, pump, said>>
  BY DEF HangsOn
<1>2. QueueFits' /\ \A p \in Press : said[p] <= Level(p)'
  BY <1>1 DEF BarFits, QueueFits, Level
<1>3. ShowsFit'
  BY <1>1 DEF BarFits, ShowsFit, Level
<1> QED
  BY <1>1, <1>2, <1>3 DEF BarTypes, BarFits

LEMMA PasteTickTells ==
  ASSUME CoreTypes, BarTypes, BarFits, PasteTick
  PROVE  BarTypes' /\ BarFits'
<1>1. /\ shows' = {[m EXCEPT !.age = @ + 1] : m \in shows} /\ pump' = (IF pump.busy THEN [pump EXCEPT !.waited = @ + 1] ELSE pump)
      /\ UNCHANGED <<queue, said>>
  BY DEF PasteTick
<1>2. \A p \in Press : press'[p].at = press[p].at
  <2>1. press \in [Press -> PressState] /\ press' = [p \in Press |-> IF Waiting(p) THEN [press[p] EXCEPT !.waited = @ + 1] ELSE press[p]]
    BY DEF CoreTypes, PasteTick
  <2>2. ASSUME NEW p \in Press
        PROVE  press'[p].at = press[p].at
    BY <2>1 DEF PressState
  <2> QED
    BY <2>2
<1>3. pump' \in [busy : BOOLEAN, msg : Flash, waited : Nat] /\ pump'.busy = pump.busy /\ pump'.msg = pump.msg
      /\ (pump.busy => pump'.waited = pump.waited + 1)
  BY <1>1 DEF BarTypes
<1>4. \A k \in shows' : \E m \in shows : k \in Flash /\ k.of = m.of /\ k.phase = m.phase /\ k.age = m.age + 1 /\ m.age \in Nat /\ m.age < PsmuxBound
  <2>1. ASSUME NEW m \in shows
        PROVE  LET k == [m EXCEPT !.age = @ + 1]
               IN  k \in Flash /\ k.of = m.of /\ k.phase = m.phase /\ k.age = m.age + 1 /\ m.age \in Nat /\ m.age < PsmuxBound
    <3>1. m \in Flash /\ m.age < PsmuxBound
      BY DEF BarTypes, PasteTick
    <3> QED
      BY <3>1 DEF Flash
  <2>2. ASSUME NEW k \in shows'
        PROVE  \E m \in shows : k \in Flash /\ k.of = m.of /\ k.phase = m.phase /\ k.age = m.age + 1 /\ m.age \in Nat /\ m.age < PsmuxBound
    <3>1. PICK m \in shows : k = [m EXCEPT !.age = @ + 1]
      BY <1>1
    <3> QED
      BY <2>1, <3>1
  <2> QED
    BY <2>2
<1>5. BarTypes'
  BY <1>1, <1>3, <1>4 DEF BarTypes
<1>6. QueueFits' /\ \A p \in Press : said[p] <= Level(p)'
  BY <1>1, <1>2 DEF BarFits, QueueFits, Level
<1>7. ShowsFit'
  <2>1. ASSUME NEW k \in shows'
        PROVE  /\ k.age <= PsmuxBound
               /\ k.of \in Press => /\ pump'.busy /\ k.of = pump'.msg.of /\ k.phase = pump'.msg.phase /\ k.age = pump'.waited
                                    /\ k.phase <= LevelOf(press'[k.of].at) /\ said[k.of] <= k.phase
                                    /\ \A i \in DOMAIN queue : queue[i].of = k.of => k.phase <= queue[i].phase
    <3>1. PICK m \in shows : k.of = m.of /\ k.phase = m.phase /\ k.age = m.age + 1 /\ m.age \in Nat /\ m.age < PsmuxBound
      BY <1>4
    <3>2. PsmuxBound \in Nat
      BY PasteAssumption
    <3> QED
      BY <1>2, <1>3, <3>1, <3>2 DEF BarFits, ShowsFit, Level
  <2>2. pump'.busy => pump'.msg.of \in Press
    BY <1>3 DEF BarFits, ShowsFit
  <2> QED
    BY <1>1, <2>1, <2>2 DEF ShowsFit, Level
<1> QED
  BY <1>1, <1>5, <1>6, <1>7 DEF BarFits

-----------------------------------------------------------------------------
(* The specification.                                                      *)
LEMMA PasteStarts ==
  ASSUME PasteInit
  PROVE  PasteInv
<1>1. plan \in PasteSetups
  BY DEF PasteInit
<1>2. /\ press = [p \in Press |-> [at |-> "idle", kind |-> "none", verdict |-> "none", waited |-> 0]]
      /\ req = [r \in Req |-> [at |-> "none", names |-> <<>>, reply |-> "none"]]
      /\ inject = [r \in Req |-> [at |-> "none", life |-> 0, ok |-> FALSE]]
      /\ disk = [n \in Name |-> NoUpload] /\ pasted = [r \in Req |-> 0]
  BY DEF PasteInit, PasteStart
<1>3. CoreTypes
  <2>1. [at |-> "idle", kind |-> "none", verdict |-> "none", waited |-> 0] \in PressState
    BY DEF PressState, PressKinds, Verdicts
  <2>2. [at |-> "none", names |-> <<>>, reply |-> "none"] \in ReqState
    BY DEF ReqState
  <2>3. [at |-> "none", life |-> 0, ok |-> FALSE] \in InjectState
    BY DEF InjectState
  <2>4. NoUpload \in Upload
    BY DEF NoUpload, Upload
  <2> QED
    BY <1>1, <1>2, <2>1, <2>2, <2>3, <2>4 DEF CoreTypes
<1>4. ASSUME NEW r \in Req
      PROVE  RequestFits(r) /\ PasteFits(r) /\ OnlyPasted(r)
  <2>1. /\ req[r].at = "none" /\ req[r].names = <<>> /\ req[r].reply = "none" /\ inject[r].at = "none"
        /\ inject[r].life = 0 /\ ~inject[r].ok /\ pasted[r] = 0
    BY <1>2
  <2>2. RequestFits(r)
    BY <2>1 DEF RequestFits, Holds
  <2> QED
    BY <2>1, <2>2 DEF PasteFits, OnlyPasted
<1>5. ASSUME NEW p \in Press
      PROVE  PressFits(p)
  <2>1. press[p].at = "idle" /\ press[p].kind = "none" /\ req[p].at = "none" /\ pasted[p] = 0
    BY <1>2 DEF Req
  <2> QED
    BY <2>1 DEF PressFits
<1>6. queue = <<>> /\ pump = [busy |-> FALSE, msg |-> NoMsg, waited |-> 0] /\ shows = {} /\ said = [p \in Press |-> 0]
  BY DEF PasteInit, PasteStart
<1>7. BarTypes
  <2>1. NoMsg \in Flash
    BY DEF NoMsg, Flash
  <2> QED
    BY <1>6, <2>1 DEF BarTypes
<1>8. BarFits
  <2>1. QueueFits
    <3>1. DOMAIN queue = {}
      <4>1. queue \in Seq(Flash) /\ Len(queue) = 0
        BY <1>6
      <4> QED
        BY <4>1
    <3> QED
      BY <3>1 DEF QueueFits
  <2>2. ShowsFit
    BY <1>6 DEF ShowsFit
  <2>3. \A p \in Press : said[p] <= Level(p)
    BY <1>2, <1>6 DEF Level, LevelOf
  <2> QED
    BY <2>1, <2>2, <2>3 DEF BarFits
<1> QED
  BY <1>3, <1>4, <1>5, <1>7, <1>8 DEF PasteInv, CoreInv

LEMMA PasteInvKept ==
  ASSUME PasteInv, UNCHANGED pastevars
  PROVE  PasteInv'
<1>1. CoreTypes' /\ BarTypes'
  BY DEF PasteInv, CoreInv, pastevars, CoreTypes, BarTypes
<1>2. \A r \in Req : RequestFits(r)' /\ PasteFits(r)' /\ OnlyPasted(r)'
  BY DEF PasteInv, CoreInv, pastevars, RequestFits, PasteFits, OnlyPasted, TypesItself, Holds, Mine
<1>3. \A p \in Press : PressFits(p)'
  BY DEF PasteInv, CoreInv, pastevars, PressFits, TypesItself, Pasting
<1>4. BarFits'
  BY DEF PasteInv, pastevars, BarFits, QueueFits, ShowsFit, Level
<1> QED
  BY <1>1, <1>2, <1>3, <1>4 DEF PasteInv, CoreInv

LEMMA CoreLeftAlone ==
  ASSUME CoreInv, UNCHANGED <<press, req, inject, disk, pasted, plan>>
  PROVE  CoreInv'
<1>1. CoreTypes'
  BY DEF CoreInv, CoreTypes
<1>2. \A r \in Req : RequestFits(r)' /\ PasteFits(r)' /\ OnlyPasted(r)'
  BY DEF CoreInv, RequestFits, PasteFits, OnlyPasted, TypesItself, Holds, Mine
<1>3. \A p \in Press : PressFits(p)'
  BY DEF CoreInv, PressFits, TypesItself, Pasting
<1> QED
  BY <1>1, <1>2, <1>3 DEF CoreInv

LEMMA PasteSteps ==
  ASSUME PasteInv, PasteNext
  PROVE  PasteInv' /\ \A p \in Press : said'[p] >= said[p]
<1>1. CoreInv /\ CoreTypes /\ BarTypes /\ BarFits /\ UNCHANGED plan
  BY DEF PasteInv, CoreInv, PasteNext
<1>2. said \in [Press -> Nat] /\ (said' = said => \A p \in Press : said'[p] >= said[p])
  <2>1. said \in [Press -> Nat]
    BY <1>1 DEF BarTypes
  <2>2. \A p \in Press : said[p] >= said[p]
    BY <2>1
  <2> QED
    BY <2>1, <2>2
<1>3. ASSUME NEW p \in plan.presses,
             Chord(p) \/ OpensCode(p) \/ ReadsClip(p) \/ Types(p) \/ Answered(p) \/ GivesUp(p)
      PROVE  PasteInv' /\ said' = said
  <2>1. p \in Press
    BY <1>1, SetupFits
  <2>2. CoreInv'
    BY <1>1, <1>3, <2>1, ChordKeeps, OpensCodeKeeps, ReadsClipKeeps, TypesKeeps, AnsweredKeeps, GivesUpKeeps
  <2>3. BarTypes' /\ BarFits'
    BY <1>1, <1>3, <2>1, <2>2, PressesTell
  <2>4. said' = said
    BY <1>3 DEF Chord, OpensCode, ReadsClip, Types, Answered, GivesUp
  <2> QED
    BY <2>2, <2>3, <2>4 DEF PasteInv
<1>4. ASSUME NEW r \in plan.phones, PhonePosts(r)
      PROVE  PasteInv' /\ said' = said
  <2>1. r \in Req /\ r \notin Press
    BY <1>1, SetupFits, PasteAssumption DEF Req
  <2>2. CoreInv' /\ BarTypes' /\ BarFits'
    BY <1>1, <1>4, <2>1, PhonePostsKeeps, RequestsTell
  <2> QED
    BY <1>4, <2>2 DEF PasteInv, PhonePosts
<1>5. ASSUME NEW r \in Req,
             Body(r) \/ Reserve(r) \/ Write(r) \/ Fails(r) \/ Injects(r) \/ Lands(r) \/ InjectEnds(r) \/ Replies(r)
      PROVE  PasteInv' /\ said' = said
  <2>1. CoreInv'
    BY <1>1, <1>5, BodyKeeps, ReserveKeeps, WriteKeeps, FailsKeeps, InjectsKeeps, LandsKeeps, InjectEndsKeeps, RepliesKeeps
  <2>2. BarTypes' /\ BarFits'
    BY <1>1, <1>5, RequestsTell
  <2>3. said' = said
    BY <1>5 DEF Body, Reserve, Write, Fails, Injects, Lands, InjectEnds, Replies
  <2> QED
    BY <2>1, <2>2, <2>3 DEF PasteInv
<1>6. CASE Sends
  BY <1>1, <1>2, <1>6, SendsTell, CoreLeftAlone DEF PasteInv, Sends
<1>7. CASE Abandons
  BY <1>1, <1>2, <1>7, AbandonsTells, CoreLeftAlone DEF PasteInv, Abandons
<1>8. ASSUME NEW m \in shows, Displays(m)
      PROVE  PasteInv' /\ \A p \in Press : said'[p] >= said[p]
  <2>1. CoreInv'
    BY <1>1, <1>8, CoreLeftAlone DEF Displays
  <2> QED
    BY <1>1, <1>8, <2>1, DisplaysTells DEF PasteInv
<1>9. ASSUME NEW m \in shows, HangsOn(m)
      PROVE  PasteInv' /\ said' = said
  BY <1>1, <1>9, HangsOnTells, CoreLeftAlone DEF PasteInv, HangsOn
<1>10. CASE PasteTick
  BY <1>1, <1>2, <1>10, PasteTickKeeps, PasteTickTells DEF PasteInv, PasteTick
<1>11. CASE Rests
  BY <1>2, <1>11, PasteInvKept DEF Rests, pastevars
<1> QED
  BY <1>2, <1>3, <1>4, <1>5, <1>6, <1>7, <1>8, <1>9, <1>10, <1>11 DEF PasteNext

LEMMA PasteMeans ==
  ASSUME PasteInv
  PROVE  PastedFilesAreThere /\ VerdictIsTrue
<1>1. CoreInv /\ CoreTypes
  BY DEF PasteInv, CoreInv
<1>2. ASSUME NEW r \in Req, pasted[r] > 0, r \in Press => press[r].kind \in {"image", "files"}
      PROVE  /\ Len(req[r].names) = Len(plan.files[r])
             /\ \A i, j \in DOMAIN req[r].names : i # j => req[r].names[i] # req[r].names[j]
             /\ \A n \in Mine(r) : disk[n] = [of |-> r, whole |-> TRUE]
  <2>1. RequestFits(r) /\ PasteFits(r) /\ OnlyPasted(r)
    BY <1>1 DEF CoreInv
  <2>2. inject[r].at # "none" /\ Holds(r)
    BY <1>2, <2>1 DEF OnlyPasted, TypesItself, Holds
  <2>3. \A n \in Mine(r) : n \in Name /\ disk[n].of = r
    BY <1>1, <2>2, Held
  <2>4. \A n \in Mine(r) : disk[n] \in Upload /\ disk[n].whole
    BY <1>1, <2>1, <2>2, <2>3 DEF RequestFits, CoreTypes
  <2>5. \A n \in Mine(r) : disk[n] = [of |-> r, whole |-> TRUE]
    BY <2>3, <2>4 DEF Upload
  <2> QED
    BY <2>1, <2>2, <2>5 DEF RequestFits
<1>3. ASSUME NEW p \in Press
      PROVE  /\ pasted[p] <= 1
             /\ press[p].at = "done" /\ press[p].verdict = "ok" => pasted[p] = 1
             /\ press[p].at = "done" /\ press[p].verdict \notin {"ok", "inject-pending", "serve-unreachable", "not-delivered"} =>
                  pasted[p] = 0 /\ ~Pasting(p)
  <2>1. p \in Req /\ PasteFits(p) /\ OnlyPasted(p) /\ PressFits(p)
    BY <1>1 DEF CoreInv, Req
  <2>2. pasted[p] \in Nat /\ inject[p].at \in {"none", "going", "landed", "over"}
    BY <1>1, <2>1 DEF CoreTypes, InjectState
  <2>3. pasted[p] <= 1
    BY <2>1, <2>2 DEF PasteFits, OnlyPasted
  <2> QED
    BY <2>1, <2>3 DEF PressFits
<1> QED
  BY <1>2, <1>3 DEF PastedFilesAreThere, VerdictIsTrue

(* What is pasted is there, what is said of it is so, and it is said in    *)
(* order, whatever the presses, phones, files and bounds.                  *)
THEOREM PasteIsHonestHolds == PasteSpec => PasteIsHonest
<1>1. PasteInit => PasteInv
  BY PasteStarts
<1>2. PasteInv /\ [PasteNext]_pastevars => PasteInv'
  BY PasteSteps, PasteInvKept
<1>3. PasteInv => PastedFilesAreThere /\ VerdictIsTrue
  BY PasteMeans
<1>4. PasteInv /\ [PasteNext]_pastevars => [\A p \in Press : said'[p] >= said[p]]_pastevars
  BY PasteSteps
<1> QED
  BY <1>1, <1>2, <1>3, <1>4, PTL DEF PasteSpec, PasteIsHonest, PhasesInOrder

-----------------------------------------------------------------------------
(* The listener's own life.                                                *)
USE NobodyAssumption, ActorAssumption, LibertiesAssumption, BoundAssumption

-----------------------------------------------------------------------------
(***************************************************************************)
(* A healthy listener is spared                                            *)
(***************************************************************************)
(* What the proof needs of the types, and no more.                         *)
WatchTypes ==
  /\ st \in [Proc -> Living \cup {"free"}]
  /\ pidFile \in Proc \cup {Nobody}
  /\ pc \in [Actor -> {"rest", "retire", "check", "start", "stop", "spawn", "wait"}]
  /\ seen \in [Actor -> Proc \cup {Nobody}]
  /\ suspect \in [Serve -> Proc \cup {Nobody}]
  /\ hb \in {"none", "fresh", "silent"}

(* A suspicion is of the pulse there is: a newer one has emptied it.       *)
SuspicionIsOfThisPulse == hb = "fresh" => \A s \in Serve : suspect[s] = Nobody

(* A pid that a file or a call still holds is nobody's new pid.            *)
StartingIsUnheard ==
  \A p \in Proc : st[p] = "starting" => pidFile # p /\ \A a \in Actor : seen[a] # p

(* Whom a supervisor is about to end on its second look does hang, or has  *)
(* ended by itself.                                                        *)
CondemnedHangs ==
  \A s \in Serve : pc[s] = "retire" =>
    /\ seen[s] \in Proc
    /\ suspect[s] = seen[s] /\ hb = "silent" => st[seen[s]] \in {"hung", "free"}

SparingInv == WatchTypes /\ SuspicionIsOfThisPulse /\ StartingIsUnheard /\ CondemnedHangs

LEMMA InitSparing == Init => SparingInv
  BY DEF Init, SparingInv, WatchTypes, SuspicionIsOfThisPulse, StartingIsUnheard,
         CondemnedHangs, Living, Hooked, Actor

LEMMA NextSparing == SparingInv /\ [Next]_allvars => SparingInv'
<1> SUFFICES ASSUME SparingInv, [Next]_allvars PROVE SparingInv'
  OBVIOUS
<1> USE DEF SparingInv, WatchTypes, SuspicionIsOfThisPulse, StartingIsUnheard,
            CondemnedHangs, Living, Hooked, Actor, procs, files, watch, calls,
            Goto, TidyPidFile, ListenerPid, ForgetListener, Ends, Orphans, CallOver
<1>1. ASSUME NEW s \in Serve, TickReads(s) PROVE SparingInv'
  BY <1>1 DEF TickReads, Pulsed
<1>2. ASSUME NEW s \in Serve, TickSpares(s) PROVE SparingInv'
  BY <1>2 DEF TickSpares, Wedged, Confirmed
<1>3. ASSUME NEW s \in Serve, TickRetires(s) PROVE SparingInv'
  BY <1>3 DEF TickRetires, Wedged
<1>4. ASSUME NEW s \in Serve, CoolingEnds(s) \/ SkewCoolingEnds(s) PROVE SparingInv'
  BY <1>4 DEF CoolingEnds, SkewCoolingEnds
<1>5. ASSUME NEW a \in Actor, StartKeeps(a) \/ StartReplaces(a) \/ StartFindsNone(a)
      PROVE  SparingInv'
  <2>1. CASE StartKeeps(a)
    BY <2>1 DEF StartKeeps
  <2>2. CASE StartReplaces(a)
    BY <2>2 DEF StartReplaces, AllowSkewRestart
  <2>3. CASE StartFindsNone(a)
    BY <2>3 DEF StartFindsNone
  <2>4. QED
    BY <1>5, <2>1, <2>2, <2>3
<1>6. ASSUME NEW a \in Actor, StartStops(a) PROVE SparingInv'
  BY <1>6 DEF StartStops
<1>7. ASSUME NEW a \in Actor, StartSpawns(a) PROVE SparingInv'
  BY <1>7 DEF StartSpawns, Unused
<1>8. ASSUME NEW a \in Actor, SpawnFails(a) \/ StartAwaits(a) PROVE SparingInv'
  BY <1>8 DEF SpawnFails, StartAwaits
<1>9. ASSUME NEW h \in Human, NEW aim \in Aim, HumanStarts(h, aim) PROVE SparingInv'
  BY <1>9 DEF HumanStarts
<1>10. ASSUME NEW p \in Proc, Registers(p) PROVE SparingInv'
  BY <1>10 DEF Registers
<1>11. ASSUME NEW p \in Proc, HookFails(p) \/ Crash(p) PROVE SparingInv'
  BY <1>11 DEF HookFails, Crash
<1>12. ASSUME NEW p \in Proc, Describes(p) \/ Pulse(p) \/ Hang(p) PROVE SparingInv'
  BY <1>12 DEF Describes, Pulse, Hang
<1>13. ASSUME Silence \/ Sleep \/ Upgrade PROVE SparingInv'
  BY <1>13 DEF Silence, Sleep, Upgrade
<1>14. CASE UNCHANGED allvars
  BY <1>14 DEF allvars, vars
<1>15. QED
  BY <1>1, <1>2, <1>3, <1>4, <1>5, <1>6, <1>7, <1>8, <1>9, <1>10, <1>11, <1>12,
     <1>13, <1>14 DEF Next, Tick, StartStep, Runs

(* A supervisor ends no healthy listener as wedged (retire_wedged_listener *)
(* of launch.py): not one that is starting under its predecessor's         *)
(* heartbeat, nor one whose machine slept, nor one of two.                 *)
THEOREM HealthyIsSparedHolds == Spec => HealthyIsSpared
<1>1. SparingInv /\ [Next]_allvars
        => [\A s \in Serve : pc[s] = "retire" =>
              \A p \in Proc : st[p] \in Living \ {"hung"} => st'[p] # "free" \/ pc'[s] = "retire"]_vars
  <2> SUFFICES ASSUME SparingInv, Next, NEW s \in Serve, pc[s] = "retire", pc'[s] # "retire",
                      NEW p \in Proc, st[p] \in Living \ {"hung"}
               PROVE  st'[p] # "free"
    BY DEF allvars
  <2> USE DEF SparingInv, WatchTypes, CondemnedHangs, Living, Hooked, Actor, procs,
              files, watch, calls, Goto, Ends
  <2>1. CASE TickSpares(s)
    BY <2>1 DEF TickSpares
  <2>2. CASE TickRetires(s)
    BY <2>2 DEF TickRetires, Wedged, Confirmed
  <2>3. QED
    <3>1. \A q \in Serve : Tick(q) => q = s
      BY DEF Tick, TickReads, TickSpares, TickRetires
    <3>2. \A a \in Actor : ~StartStep(a)
      BY ZenonT(60) DEF StartStep, StartKeeps, StartReplaces, StartFindsNone, StartStops, StartSpawns,
             SpawnFails, StartAwaits, CallOver
    <3>3. \A h \in Human, aim \in Aim : ~HumanStarts(h, aim)
      BY DEF HumanStarts
    <3>4. ~TickReads(s)
      BY DEF TickReads
    <3>5. \A q \in Proc : ~(Runs(q) \/ HookFails(q) \/ Crash(q) \/ Hang(q))
      BY DEF Runs, Registers, Describes, Pulse, HookFails, Crash, Hang
    <3>6. ~(Silence \/ Sleep \/ Upgrade)
      BY DEF Silence, Sleep, Upgrade
    <3>7. \A q \in Serve : ~(CoolingEnds(q) \/ SkewCoolingEnds(q))
      BY DEF CoolingEnds, SkewCoolingEnds
    <3>8. QED
      BY <2>1, <2>2, <3>1, <3>2, <3>3, <3>4, <3>5, <3>6, <3>7 DEF Next, Tick
<1>2. QED
  BY <1>1, InitSparing, NextSparing, PTL DEF Spec, HealthyIsSpared

-----------------------------------------------------------------------------
(***************************************************************************)
(* One listener, as it was wired                                           *)
(***************************************************************************)
WiringTypes ==
  /\ liberty \in Liberties
  /\ st \in [Proc -> Living \cup {"free"}]
  /\ wire \in [Proc -> Wire]
  /\ pidFile \in Proc \cup {Nobody}
  /\ manifest \in Wire \cup {Nobody}
  /\ installed \in Version
  /\ pc \in [Actor -> {"rest", "retire", "check", "start", "stop", "spawn", "wait"}]
  /\ want \in [Actor -> Aim]
  /\ seen \in [Actor -> Proc \cup {Nobody}]
  /\ child \in [Actor -> Proc \cup {Nobody}]
  /\ \A s \in Serve : pc[s] = "retire" => seen[s] \in Proc
  /\ ended \in [Actor -> Aim \cup {"none"}]

(* One call at a time, which has ended nothing before it began.            *)
OneCall ==
  /\ \A a, b \in Actor : pc[a] # "rest" /\ pc[b] # "rest" => a = b
  /\ \A a \in Actor : pc[a] = "rest" => ended[a] = "none"

(* A process that has not recorded itself is the child somebody waits for, *)
(* and it is alone.                                                        *)
StartIsAwaited ==
  \A p \in Proc : st[p] = "starting" =>
    /\ \E a \in Actor : pc[a] = "wait" /\ child[a] = p
    /\ \A q \in Proc : st[q] \notin Hooked

(* A listener is the recorded one, and once it has described itself the    *)
(* manifest is its own.                                                    *)
ListenerIsRecorded ==
  \A p \in Proc :
    /\ st[p] \in Hooked => pidFile = p
    /\ st[p] \in {"running", "hung"} => manifest = wire[p]

(* Nothing lives when a call comes to spawn.                               *)
SpawnsAlone == \A a \in Actor : pc[a] = "spawn" => \A p \in Proc : st[p] = "free"

(* Whatever lives during a supervisor's call, and whatever it ended, is at *)
(* the target it will start a listener at.                                 *)
TargetIsKept ==
  \A s \in Serve :
    /\ pc[s] \in {"retire", "check", "start", "stop"} =>
         \A p \in Proc : st[p] \in Living => wire[p].aim = want[s]
    /\ ended[s] # "none" => ended[s] = want[s]

WiredInv == Orderly /\ WiringTypes /\ OneCall /\ StartingIsUnheard /\ StartIsAwaited
              /\ ListenerIsRecorded /\ SpawnsAlone /\ TargetIsKept

LEMMA InitWired == Init /\ Orderly => WiredInv
  BY DEF Init, WiredInv, WiringTypes, OneCall, StartingIsUnheard, StartIsAwaited,
         ListenerIsRecorded, SpawnsAlone, TargetIsKept, Living, Hooked, Actor, Wire, Aim,
         Version, Fresh

LEMMA NextWired == WiredInv /\ [Next]_allvars => WiredInv'
<1> SUFFICES ASSUME WiredInv, [Next]_allvars PROVE WiredInv'
  OBVIOUS
<1>0. UNCHANGED liberty
  BY DEF Next, allvars
<1> USE <1>0 DEF Orderly, Polite, Killable, MayCall, WiredInv, WiringTypes, OneCall,
            StartingIsUnheard, StartIsAwaited, ListenerIsRecorded, SpawnsAlone,
            TargetIsKept, Living, Hooked, Actor, Wire, Aim, Version, Fresh, procs, files,
            watch, calls, Goto, TidyPidFile, ListenerPid, ForgetListener, Ends, Orphans,
            CallOver
<1>1. ASSUME NEW s \in Serve, TickReads(s) PROVE WiredInv'
  <2>1. Orderly'
    BY <1>1 DEF TickReads, SupervisedTarget
  <2>2. WiringTypes'
    BY <1>1 DEF TickReads, SupervisedTarget
  <2>3. OneCall'
    BY <1>1 DEF TickReads, SupervisedTarget
  <2>4. StartingIsUnheard'
    BY <1>1 DEF TickReads, SupervisedTarget
  <2>5. StartIsAwaited'
    BY <1>1 DEF TickReads, SupervisedTarget
  <2>6. ListenerIsRecorded'
    BY <1>1 DEF TickReads, SupervisedTarget
  <2>7. SpawnsAlone'
    BY <1>1 DEF TickReads, SupervisedTarget
  <2>8. TargetIsKept'
    <3>1. \A a \in Actor : pc[a] = "rest"
      BY <1>1 DEF TickReads
    <3>2. \A p \in Proc : st[p] \in Living =>
            pidFile = p /\ manifest = wire[p] /\ ListenerPid = p
      BY <1>1, <3>1 DEF TickReads
    <3>3. \A p \in Proc : st[p] \in Living => wire[p].aim = want'[s]
      BY <1>1, <3>2, NoManifestAssumption DEF TickReads, SupervisedTarget
    <3>4. QED
      BY <1>1, <3>1, <3>3 DEF TickReads
  <2>9. QED
    BY <2>1, <2>2, <2>3, <2>4, <2>5, <2>6, <2>7, <2>8 DEF WiredInv
<1>2. ASSUME NEW s \in Serve, TickSpares(s) PROVE WiredInv'
  BY <1>2 DEF TickSpares
<1>3. ASSUME NEW s \in Serve, TickRetires(s) PROVE WiredInv'
  <2>1. Orderly'
    BY <1>3 DEF TickRetires, Wedged
  <2>2. WiringTypes'
    BY <1>3, SMTT(30) DEF TickRetires, Wedged
  <2>3. OneCall'
    BY <1>3 DEF TickRetires, Wedged
  <2>4. StartingIsUnheard'
    BY <1>3 DEF TickRetires, Wedged
  <2>5. StartIsAwaited'
    BY <1>3 DEF TickRetires, Wedged
  <2>6. ListenerIsRecorded'
    BY <1>3 DEF TickRetires, Wedged
  <2>7. SpawnsAlone'
    BY <1>3 DEF TickRetires, Wedged
  <2>8. TargetIsKept'
    <3>1. ended' = [ended EXCEPT ![s] = wire[seen[s]].aim] /\ wire[seen[s]].aim = want[s]
      BY <1>3 DEF TickRetires, Wedged
    <3>2. \A t \in Serve : t # s => pc[t] = "rest"
      BY <1>3 DEF TickRetires
    <3>3. QED
      BY <1>3, <3>1, <3>2 DEF TickRetires
  <2>9. QED
    BY <2>1, <2>2, <2>3, <2>4, <2>5, <2>6, <2>7, <2>8 DEF WiredInv
<1>4. ASSUME NEW s \in Serve, CoolingEnds(s) \/ SkewCoolingEnds(s) PROVE WiredInv'
  BY <1>4 DEF CoolingEnds, SkewCoolingEnds
<1>5. ASSUME NEW a \in Actor, StartKeeps(a) PROVE WiredInv'
  BY <1>5, ZenonT(60) DEF StartKeeps
<1>6. ASSUME NEW a \in Actor, StartReplaces(a) PROVE WiredInv'
  <2>1. Orderly'
    BY <1>6 DEF StartReplaces
  <2>2. WiringTypes'
    BY <1>6 DEF StartReplaces
  <2>3. OneCall'
    BY <1>6 DEF StartReplaces
  <2>4. StartingIsUnheard'
    BY <1>6 DEF StartReplaces
  <2>5. StartIsAwaited'
    BY <1>6 DEF StartReplaces
  <2>6. ListenerIsRecorded'
    BY <1>6 DEF StartReplaces
  <2>7. SpawnsAlone'
    BY <1>6 DEF StartReplaces
  <2>8. TargetIsKept'
    <3>1. \A t \in Serve : pc'[t] # "rest" => t = a /\ pc[t] \in {"start", "check"}
      BY <1>6, ZenonT(60) DEF StartReplaces
    <3>2. UNCHANGED <<st, wire, want, ended>>
      BY <1>6 DEF StartReplaces
    <3>3. QED
      BY <3>1, <3>2
  <2>9. QED
    BY <2>1, <2>2, <2>3, <2>4, <2>5, <2>6, <2>7, <2>8 DEF WiredInv
<1>7. ASSUME NEW a \in Actor, StartFindsNone(a) PROVE WiredInv'
  BY <1>7 DEF StartFindsNone
<1>8. ASSUME NEW a \in Actor, StartStops(a) PROVE WiredInv'
  <2>1. Orderly'
    BY <1>8 DEF StartStops
  <2>2. WiringTypes'
    BY <1>8 DEF StartStops
  <2>3. OneCall'
    BY <1>8 DEF StartStops
  <2>4. StartingIsUnheard'
    BY <1>8 DEF StartStops
  <2>5. StartIsAwaited'
    BY <1>8 DEF StartStops
  <2>6. ListenerIsRecorded'
    BY <1>8 DEF StartStops
  <2>7. SpawnsAlone'
    BY <1>8 DEF StartStops
  <2>8. TargetIsKept'
    BY <1>8 DEF StartStops
  <2>9. QED
    BY <2>1, <2>2, <2>3, <2>4, <2>5, <2>6, <2>7, <2>8 DEF WiredInv
<1>9. ASSUME NEW a \in Actor, StartSpawns(a) PROVE WiredInv'
  BY <1>9 DEF StartSpawns, Unused
<1>10. ASSUME NEW a \in Actor, SpawnFails(a) PROVE WiredInv'
  BY <1>10 DEF SpawnFails
<1>11. ASSUME NEW a \in Actor, StartAwaits(a) PROVE WiredInv'
  BY <1>11 DEF StartAwaits
<1>12. ASSUME NEW h \in Human, NEW aim \in Aim, HumanStarts(h, aim) PROVE WiredInv'
  BY <1>12 DEF HumanStarts
<1>13. ASSUME NEW p \in Proc, Registers(p) PROVE WiredInv'
  BY <1>13 DEF Registers
<1>14. ASSUME NEW p \in Proc, HookFails(p) \/ Crash(p) PROVE WiredInv'
  <2>1. Orderly'
    BY <1>14 DEF HookFails, Crash
  <2>2. WiringTypes'
    BY <1>14, SMTT(30) DEF HookFails, Crash
  <2>3. OneCall'
    BY <1>14 DEF HookFails, Crash
  <2>4. StartingIsUnheard'
    BY <1>14 DEF HookFails, Crash
  <2>5. StartIsAwaited'
    BY <1>14 DEF HookFails, Crash
  <2>6. ListenerIsRecorded'
    BY <1>14 DEF HookFails, Crash
  <2>7. SpawnsAlone'
    BY <1>14 DEF HookFails, Crash
  <2>8. TargetIsKept'
    BY <1>14 DEF HookFails, Crash
  <2>9. QED
    BY <2>1, <2>2, <2>3, <2>4, <2>5, <2>6, <2>7, <2>8 DEF WiredInv
<1>15. ASSUME NEW p \in Proc, Describes(p) PROVE WiredInv'
  BY <1>15 DEF Describes
<1>16. ASSUME NEW p \in Proc, Pulse(p) \/ Hang(p) PROVE WiredInv'
  BY <1>16 DEF Pulse, Hang
<1>17. ASSUME Silence \/ Sleep \/ Upgrade PROVE WiredInv'
  BY <1>17 DEF Silence, Sleep, Upgrade
<1>18. CASE UNCHANGED allvars
  BY <1>18 DEF allvars, vars
<1> HIDE DEF WiredInv, Aim, Actor
<1>19. ASSUME NEW s \in Serve, Tick(s) PROVE WiredInv'
  BY <1>1, <1>2, <1>3, <1>19 DEF Tick
<1>20. ASSUME NEW a \in Actor, StartStep(a) PROVE WiredInv'
  BY <1>5, <1>6, <1>7, <1>8, <1>9, <1>10, <1>11, <1>20, Zenon DEF StartStep
<1>21. ASSUME NEW p \in Proc, Runs(p) PROVE WiredInv'
  BY <1>13, <1>15, <1>16, <1>21, Zenon DEF Runs
<1>22. QED
  BY <1>4, <1>12, <1>14, <1>16, <1>17, <1>18, <1>19, <1>20, <1>21, Zenon DEF Next

(* The recorded listener is the only one.                                  *)
LEMMA OneAtMost == WiredInv => Cardinality({p \in Proc : st[p] \in Hooked}) <= 1
<1> SUFFICES ASSUME WiredInv PROVE Cardinality({p \in Proc : st[p] \in Hooked}) <= 1
  OBVIOUS
<1> DEFINE H == {p \in Proc : st[p] \in Hooked}
<1>1. CASE H = {}
  BY <1>1, FS_EmptySet
<1>2. CASE H # {}
  <2>1. H = {pidFile}
    BY <1>2 DEF WiredInv, ListenerIsRecorded
  <2>2. Cardinality(H) = 1
    BY <2>1, FS_Singleton, Zenon
  <2>3. QED
    BY <2>2
<1>3. QED
  BY <1>1, <1>2

(* Never two listeners where starts do not overlap and a listener can be   *)
(* ended, and a supervisor that replaces one keeps its target: an attach's *)
(* remote aim survives wedges, upgrades and crashes.                       *)
THEOREM OneListenerAsWiredHolds == Spec => []OneListenerAsWired
<1>1. WiredInv => OneListenerAsWired
  <2> SUFFICES ASSUME WiredInv PROVE OneListenerAsWired
    OBVIOUS
  <2>1. OneListener
    BY OneAtMost DEF OneListener
  <2>2. NeverReaimed
    BY DEF WiredInv, NeverReaimed, TargetIsKept
  <2>3. QED
    BY <2>1, <2>2 DEF OneListenerAsWired
<1>2. ~Orderly /\ [Next]_allvars => ~Orderly'
  BY DEF Orderly, Next, allvars
<1>3. ~Orderly => OneListenerAsWired
  BY DEF OneListenerAsWired, OneListener, NeverReaimed
<1>4. QED
  BY <1>1, <1>2, <1>3, InitWired, NextWired, PTL DEF Spec
=============================================================================
