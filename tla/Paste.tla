------------------------------- MODULE Paste -------------------------------
(***************************************************************************)
(* One Alt+V press from the chord to the bar: the listener's thread for it *)
(* (altv.handle_press, handle_file_press), the request it posts and those  *)
(* phones post (upload_server._handle_post), the thread that pastes        *)
(* (_inject_paste), and the queue of flashes that tells the user (altv's   *)
(* pump, /api/flash, psmux.flash_message).  Presses and uploads overlap,   *)
(* psmux is slow or refuses, clients give up and files cannot be written.  *)
(* Time passes only in Tick, which no wait lets run past its bound.        *)
(***************************************************************************)
EXTENDS Naturals, Sequences, SequencesExt

CONSTANTS Press, Phone, Base,  \* presses, phone uploads, the names files are saved under
          NMax,        \* how far a clash bumps a name
          QueueMax,    \* FLASH_QUEUE_MAX
          Grace, InjectLife, HttpWait,   \* INJECT_GRACE_S, INJECT_TIMEOUT_S, UPLOAD_HTTP_TIMEOUT_S
          PsmuxBound, FlashWait,         \* psmux.FLASH_TIMEOUT_S, FLASH_HTTP_TIMEOUT_S
          PasteSetups  \* each request's files, and the kinds of press in a behaviour

ASSUME PasteAssumption ==
  /\ Press \cap Phone = {} /\ "nobody" \notin Press \cup Phone
  /\ {NMax, QueueMax, Grace, InjectLife, HttpWait, PsmuxBound, FlashWait} \subseteq Nat
  /\ Grace < InjectLife      \* 3 s and 60 s
  /\ PsmuxBound < FlashWait  \* 20 s and 25 s
  /\ \A s \in PasteSetups :
       /\ s.presses \subseteq Press /\ s.phones \subseteq Phone /\ s.bar \in BOOLEAN
       /\ s.kinds \subseteq {"none", "native", "paths", "image", "files", "code"}
       /\ s.files \in [Press \cup Phone -> Seq(Base) \ {<<>>}]

VARIABLES press,   \* each press's thread
          req,     \* each request's handler in the serve
          inject,  \* each request's pasting thread
          disk,    \* ~/.magent/uploads: whose a file is, and whether it is written
          pasted,  \* how often each request's line was typed into the pane
          queue, pump,  \* the flashes not yet sent, the one on its way
          shows,   \* the display-message commands that run
          said,    \* the latest phase of each press the bar has shown
          plan     \* the behaviour's setup

pastevars == <<press, req, inject, disk, pasted, queue, pump, shows, said, plan>>

Req == Press \cup Phone
Name == Base \X (1..NMax)
NoUpload == [of |-> "nobody", whole |-> FALSE]
NoMsg == [of |-> "nobody", phase |-> 0, age |-> 0]
Capturing == 1
Uploading == 2
LastPhase == 3

PasteTypeOK ==
  /\ \A p \in Press : press[p].at \in {"idle", "read", "post", "type", "done"} /\ press[p].waited \in 0..HttpWait
  /\ \A r \in Req : /\ req[r].at \in {"none", "body", "reserve", "write", "inject", "done"} /\ Len(req[r].names) <= Len(plan.files[r])
                    /\ inject[r].at \in {"none", "going", "landed", "over"} /\ pasted[r] \in Nat
  /\ \A n \in Name : disk[n].of \in Req \cup {"nobody"}
  /\ Len(queue) <= QueueMax /\ pump.waited \in 0..FlashWait

-----------------------------------------------------------------------------
(* The listener: one thread per press, one pump.                           *)

\* flash_async: a full queue drops the newest.  (`plan.bar`: whether the behaviour is about the bar.)
Queued(p, phase) == IF Len(queue) = QueueMax \/ ~plan.bar THEN queue ELSE Append(queue, [of |-> p, phase |-> phase, age |-> 0])
Report(p, verdict) == press' = [press EXCEPT ![p].at = "done", ![p].verdict = verdict] /\ queue' = Queued(p, LastPhase)

\* _hook_decide: the chord in a magent window; with nothing to send it goes through.
Chord(p) ==
  /\ press[p].at = "idle"
  /\ \E kind \in plan.kinds :
       IF kind = "none" THEN Report(p, "no-image")
       ELSE press' = [press EXCEPT ![p].at = "read", ![p].kind = kind] /\ queue' = Queued(p, Capturing)
  /\ UNCHANGED <<req, inject, disk, pasted, pump, shows, said>>

\* _do_open_code: F2 tells on the same bar, and pastes nothing.
OpensCode(p) ==
  /\ press[p].at = "read" /\ press[p].kind = "code"
  /\ \E v \in {"opened", "no-code", "no-folder", "mangled", "failed"} : Report(p, v)
  /\ UNCHANGED <<req, inject, disk, pasted, pump, shows, said>>

Refusals(kind) ==
  CASE kind = "image" -> {"clipboard-unreadable"}
    [] kind = "paths" -> {"clipboard-unreadable", "folder-refused", "file-missing", "path-unpasteable"}
    [] kind = "files" -> {"clipboard-unreadable", "folder-refused", "file-missing", "file-unreadable", "too-large"}
    [] kind \in {"native", "code"} -> {}

\* One request, whatever the number of files.
Posts(p) ==
  /\ press' = [press EXCEPT ![p].at = "post"] /\ queue' = Queued(p, Uploading)
  /\ req' = [req EXCEPT ![p].at = "body"]

\* A press refused before anything moves; or on to the pane of this machine, or to the serve.
ReadsClip(p) ==
  /\ press[p].at = "read"
  /\ \/ \E v \in Refusals(press[p].kind) : Report(p, v) /\ UNCHANGED req
     \/ /\ press[p].kind \in {"native", "paths"}
        /\ press' = [press EXCEPT ![p].at = "type"] /\ queue' = Queued(p, Uploading) /\ UNCHANGED req
     \/ press[p].kind \in {"image", "files"} /\ Posts(p)
  /\ UNCHANGED <<inject, disk, pasted, pump, shows, said>>

\* native_paste, paste_paths: one bounded send, which may land and still be given up.
Types(p) ==
  /\ press[p].at = "type"
  /\ \/ Report(p, "ok") /\ pasted' = [pasted EXCEPT ![p] = @ + 1]
     \/ Report(p, "not-delivered") /\ pasted' \in {pasted, [pasted EXCEPT ![p] = @ + 1]}
  /\ UNCHANGED <<req, inject, disk, pump, shows, said>>

\* _send_upload: what a reply says; the listener gives up on a serve that stops moving.
OutcomeOf(reply) ==
  CASE reply = "refused" -> "upload-rejected"
    [] reply = "pasted" -> "ok"
    [] reply = "pending" -> "inject-pending"
    [] reply = "unpasted" -> "inject-failed"
Answered(p) ==
  /\ press[p].at = "post" /\ req[p].at = "done" /\ Report(p, OutcomeOf(req[p].reply))
  /\ UNCHANGED <<req, inject, disk, pasted, pump, shows, said>>
GivesUp(p) ==
  /\ press[p].at = "post" /\ req[p].at # "done" /\ (press[p].waited = HttpWait \/ req[p].at = "body")
  /\ Report(p, "serve-unreachable")
  /\ req' = (IF req[p].at = "body" THEN [req EXCEPT ![p].at = "done"] ELSE req)   \* a short body saves nothing
  /\ UNCHANGED <<inject, disk, pasted, pump, shows, said>>

\* _pump_loop: one flash at a time, the next when the serve answered or the wait is over.
Sends ==
  /\ ~pump.busy /\ queue # <<>> /\ queue' = Tail(queue)
  /\ \/ pump' = [busy |-> TRUE, msg |-> Head(queue), waited |-> 0] /\ shows' = shows \cup {Head(queue)}
     \/ UNCHANGED <<pump, shows>>   \* no serve to send it to
  /\ UNCHANGED <<press, req, inject, disk, pasted, said>>
Impatient_Early == pump.waited >= PsmuxBound
Impatient == pump.waited >= FlashWait
Abandons ==
  /\ pump.busy /\ Impatient /\ pump' = [pump EXCEPT !.busy = FALSE, !.waited = 0]
  /\ UNCHANGED <<press, req, inject, disk, pasted, queue, shows, said>>

\* psmux.flash_message: shown, or killed at its bound; either way the serve answers.
Displays(m) ==
  /\ shows' = shows \ {m}
  /\ pump' = (IF pump.busy /\ pump.msg.of = m.of /\ pump.msg.phase = m.phase THEN [pump EXCEPT !.busy = FALSE, !.waited = 0] ELSE pump)
  /\ \/ said' = (IF m.of \in Press THEN [said EXCEPT ![m.of] = m.phase] ELSE said)
     \/ m.age = PsmuxBound /\ UNCHANGED said
  /\ UNCHANGED <<press, req, inject, disk, pasted, queue>>

\* A serve's thread that hangs before psmux has a press's message: nothing is shown, and no answer comes.
HangsOn(m) ==
  /\ m.of \in Press /\ shows' = shows \ {m}
  /\ UNCHANGED <<press, req, inject, disk, pasted, queue, pump, said>>

-----------------------------------------------------------------------------
(* The serve: one thread per request, one more per paste.                  *)

PhonePosts(r) ==
  /\ req[r].at = "none" /\ req' = [req EXCEPT ![r].at = "body"]
  /\ UNCHANGED <<press, inject, disk, pasted, queue, pump, shows, said>>

\* The serve's own word on a request: a press that is flagged narrates itself.
Narrates(r) == r \notin Press
Finishes(r, reply) ==
  /\ req' = [req EXCEPT ![r].at = "done", ![r].reply = reply]
  /\ shows' = (IF Narrates(r) /\ plan.bar THEN shows \cup {[of |-> r, phase |-> 0, age |-> 0]} ELSE shows)

\* A bad or short body, too much of it, an unknown project: nothing is saved.
Body(r) ==
  /\ req[r].at = "body"
  /\ \/ Finishes(r, "refused")
     \/ req' = [req EXCEPT ![r].at = "done", ![r].reply = "refused"] /\ UNCHANGED shows   \* of no known project
     \/ req' = [req EXCEPT ![r].at = "reserve"] /\ UNCHANGED shows
  /\ UNCHANGED <<press, inject, disk, pasted, queue, pump, said>>

\* _dest_for: the first name an exclusive create wins.
Free_Written(n) == ~disk[n].whole
Free(n) == disk[n] = NoUpload
Reserve(r) ==
  LET b == plan.files[r][Len(req[r].names) + 1] IN
  /\ req[r].at = "reserve"
  /\ \E k \in 1..NMax :
       /\ Free(<<b, k>>) /\ \A j \in 1..k - 1 : ~Free(<<b, j>>)
       /\ disk' = [disk EXCEPT ![<<b, k>>] = [of |-> r, whole |-> FALSE]]
       /\ req' = [req EXCEPT ![r].names = Append(@, <<b, k>>), ![r].at = IF Len(req[r].names) + 1 < Len(plan.files[r]) THEN @ ELSE "write"]
  /\ UNCHANGED <<press, inject, pasted, queue, pump, shows, said>>

Mine(r) == ToSet(req[r].names)
Unwritten(r) == {n \in Mine(r) : ~disk[n].whole}
Write(r) ==
  /\ req[r].at = "write" /\ Unwritten(r) # {}
  /\ \E n \in Unwritten(r) : disk' = [disk EXCEPT ![n].whole = TRUE]
  /\ UNCHANGED <<press, req, inject, pasted, queue, pump, shows, said>>

\* _discard: a request that fails on the way takes its files back.
Fails(r) ==
  /\ req[r].at \in {"reserve", "write"} /\ (Unwritten(r) # {} \/ req[r].at = "reserve")
  /\ disk' = [n \in Name |-> IF n \in Mine(r) THEN NoUpload ELSE disk[n]]
  /\ Finishes(r, "refused")
  /\ UNCHANGED <<press, inject, pasted, queue, pump, said>>

Injects(r) ==
  /\ req[r].at = "write" /\ Unwritten(r) = {}
  /\ \/ Finishes(r, "unpasted") /\ UNCHANGED inject   \* the phone did not ask, or there is no psmux
     \/ /\ req' = [req EXCEPT ![r].at = "inject"] /\ inject' = [inject EXCEPT ![r].at = "going"]
        /\ UNCHANGED shows
  /\ UNCHANGED <<press, disk, pasted, queue, pump, said>>

\* The pasting thread: one attempt, which lands or not and ends by its bound.
Lands(r) ==
  /\ inject[r].at = "going" /\ inject' = [inject EXCEPT ![r].at = "landed"]
  /\ pasted' = [pasted EXCEPT ![r] = @ + 1]
  /\ UNCHANGED <<press, req, disk, queue, pump, shows, said>>
InjectEnds(r) ==
  /\ \/ inject[r].at = "landed" /\ \E ok \in IF inject[r].life = InjectLife THEN BOOLEAN ELSE {TRUE} :
                                     inject' = [inject EXCEPT ![r].at = "over", ![r].ok = ok]
     \/ inject[r].at = "going" /\ inject' = [inject EXCEPT ![r].at = "over"]
  /\ UNCHANGED <<press, req, disk, pasted, queue, pump, shows, said>>

\* _inject_paste: the verdict if there is one within the grace, else that it is still trying.
Said_NotPasted(r) == IF inject[r].at = "over" /\ inject[r].ok THEN "pasted" ELSE "unpasted"
Said(r) == IF inject[r].at # "over" THEN "pending" ELSE IF inject[r].ok THEN "pasted" ELSE "unpasted"
Replies(r) ==
  /\ req[r].at = "inject" /\ (inject[r].at = "over" \/ inject[r].life >= Grace)
  /\ Finishes(r, Said(r))
  /\ UNCHANGED <<press, inject, disk, pasted, queue, pump, said>>

Waiting(p) == press[p].at = "post"
Pasting(r) == inject[r].at \in {"going", "landed"}
PasteTick ==
  /\ \A p \in Press : Waiting(p) => press[p].waited < HttpWait
  /\ \A r \in Req : /\ Pasting(r) => inject[r].life < InjectLife
                    /\ req[r].at = "inject" => inject[r].life < Grace
  /\ pump.busy => pump.waited < FlashWait
  /\ \A m \in shows : m.age < PsmuxBound
  /\ press' = [p \in Press |-> IF Waiting(p) THEN [press[p] EXCEPT !.waited = @ + 1] ELSE press[p]]
  /\ inject' = [r \in Req |-> IF Pasting(r) THEN [inject[r] EXCEPT !.life = @ + 1] ELSE inject[r]]
  /\ pump' = (IF pump.busy THEN [pump EXCEPT !.waited = @ + 1] ELSE pump)
  /\ shows' = {[m EXCEPT !.age = @ + 1] : m \in shows}
  /\ <<press', inject', pump', shows'>> # <<press, inject, pump, shows>>
  /\ UNCHANGED <<req, disk, pasted, queue, said>>

Rests ==
  /\ \A p \in plan.presses : press[p].at = "done"
  /\ \A r \in plan.phones \cup plan.presses : req[r].at \in {"none", "done"} /\ ~Pasting(r)
  /\ queue = <<>> /\ ~pump.busy /\ shows = {} /\ UNCHANGED pastevars

PasteStart ==
  /\ press = [p \in Press |-> [at |-> "idle", kind |-> "none", verdict |-> "none", waited |-> 0]]
  /\ req = [r \in Req |-> [at |-> "none", names |-> <<>>, reply |-> "none"]]
  /\ inject = [r \in Req |-> [at |-> "none", life |-> 0, ok |-> FALSE]]
  /\ disk = [n \in Name |-> NoUpload] /\ pasted = [r \in Req |-> 0]
  /\ queue = <<>> /\ pump = [busy |-> FALSE, msg |-> NoMsg, waited |-> 0] /\ shows = {} /\ said = [p \in Press |-> 0]
PasteInit == plan \in PasteSetups /\ PasteStart

PasteNext ==
  /\ UNCHANGED plan
  /\ \/ \E p \in plan.presses : Chord(p) \/ OpensCode(p) \/ ReadsClip(p) \/ Types(p) \/ Answered(p) \/ GivesUp(p)
     \/ \E r \in plan.phones : PhonePosts(r)
     \/ \E r \in Req : Body(r) \/ Reserve(r) \/ Write(r) \/ Fails(r) \/ Injects(r) \/ Lands(r) \/ InjectEnds(r) \/ Replies(r)
     \/ Sends \/ Abandons \/ (\E m \in shows : Displays(m) \/ HangsOn(m)) \/ PasteTick \/ Rests

PasteSpec == PasteInit /\ [][PasteNext]_pastevars

-----------------------------------------------------------------------------
(* A line that was typed names files that are this request's own, written  *)
(* in full and still there, whatever other requests chose the same names   *)
(* in the same second or failed on the way (_dest_for, _discard).          *)
PastedFilesAreThere ==
  \A r \in Req : pasted[r] > 0 /\ (r \in Press => press[r].kind \in {"image", "files"}) =>
    /\ Len(req[r].names) = Len(plan.files[r])
    /\ \A i, j \in DOMAIN req[r].names : i # j => req[r].names[i] # req[r].names[j]
    /\ \A n \in Mine(r) : disk[n] = [of |-> r, whole |-> TRUE]

(* The verdict of a press is true for good: "ok" was typed once, a refusal *)
(* or "would not paste" is never followed by the line turning up, and no   *)
(* press types twice (_inject_paste, _send_upload).  A serve that stopped  *)
(* answering and a local send given up may have pasted.                    *)
VerdictIsTrue ==
  \A p \in Press :
    /\ pasted[p] <= 1
    /\ press[p].at = "done" /\ press[p].verdict = "ok" => pasted[p] = 1
    /\ press[p].at = "done" /\ press[p].verdict \notin {"ok", "inject-pending", "serve-unreachable", "not-delivered"} =>
         pasted[p] = 0 /\ ~Pasting(p)

(* The bar tells a press in order: no phase shows after a later one, and   *)
(* the serve has no word of its own on a press that narrates itself        *)
(* (_pump_loop, flash_message, _handle_post).                              *)
PhasesInOrder == [][\A p \in Press : said'[p] >= said[p]]_pastevars

(* All three: what is pasted is there, what is said of it is so, and is    *)
(* said in order.                                                          *)
PasteIsHonest == []PastedFilesAreThere /\ []VerdictIsTrue /\ PhasesInOrder
=============================================================================
