------------------------------ MODULE NodeCall ------------------------------
(***************************************************************************)
(* One bounded call of remote_mux._spawn: the child and its three pipes,   *)
(* the thread that feeds stdin, the two that drain stdout and stderr, and  *)
(* the caller that waits for them, kills at the time bound or at the cap,  *)
(* and says why.  The child reads and writes in any order, stops mid-line, *)
(* leaves a grandchild that holds its pipes, floods, or goes silent.       *)
(***************************************************************************)
EXTENDS Naturals, Sequences, FiniteSets

CONSTANTS Cap,       \* max_stdout_bytes
          Pipe,      \* what a pipe holds before its writer blocks
          Input,     \* how much stdin there is
          MaxOut, MaxErr,  \* what a child writes at most
          CallSetups \* whether the time bound may run out, and whether the child may leave a grandchild

VARIABLES child,  \* what it is about to do, what it has written; its grandchild
          stdin,  \* fed so far, in the pipe, and whether the feeder is done
          opipe, epipe,  \* what is in a pipe
          out, err,      \* the drains
          call,   \* the caller
          kind    \* the behaviour's setup

callvars == <<child, stdin, opipe, epipe, out, err, call, kind>>

\* One piece of stderr: does it end its line, and was stdout closed when it was written?
Word == [ends : BOOLEAN, late : BOOLEAN]

CallTypeOK ==
  /\ child.at \in {"runs", "gone"} /\ child.does \in {"thinks", "reads", "prints", "says", "breaks"}
  /\ Len(opipe) <= Pipe /\ epipe \in Seq(Word) /\ Len(epipe) <= Pipe
  /\ out.held <= Cap /\ err.held \in Seq([word : Word, before : BOOLEAN])
  /\ call.at \in {"waits", "reap", "done"}
  /\ call.result \in {"none", "returned", "timed_out", "over_cap"} /\ stdin.fed <= Input

-----------------------------------------------------------------------------
(* The child.                                                              *)

Alive == child.at = "runs"
Writers == Alive \/ child.heir

\* A program that found stdout closed complains and ends.
Thinks ==
  /\ Alive /\ child.does = "thinks"
  /\ \E d \in {"reads", "prints", "says"} : child' = [child EXCEPT !.does = d]
  /\ child.outs < MaxOut \/ child'.does # "prints"
  /\ Len(child.said) < MaxErr \/ child'.does # "says"
  /\ UNCHANGED <<stdin, opipe, epipe, out, err, call>>
ReadsIn ==
  /\ Alive /\ child.does = "reads" /\ (stdin.held > 0 \/ stdin.closed)
  /\ stdin' = [stdin EXCEPT !.held = IF @ = 0 THEN 0 ELSE @ - 1]
  /\ child' = [child EXCEPT !.does = "thinks"]
  /\ UNCHANGED <<opipe, epipe, out, err, call>>
Prints ==
  /\ Alive /\ child.does = "prints"
  /\ \/ ~out.ended /\ Len(opipe) < Pipe
        /\ opipe' = Append(opipe, "bytes") /\ child' = [child EXCEPT !.does = "thinks", !.outs = @ + 1]
     \/ out.ended /\ child' = [child EXCEPT !.does = "breaks"] /\ UNCHANGED opipe
  /\ UNCHANGED <<stdin, epipe, out, err, call>>
Says ==
  /\ Alive /\ child.does \in {"says", "breaks"} /\ Len(epipe) < Pipe
  /\ \E w \in Word : /\ w.late = (child.does = "breaks")
                     /\ epipe' = Append(epipe, w)
                     /\ child' = [child EXCEPT !.said = Append(@, w),
                                    !.at = IF child.does = "breaks" THEN "gone" ELSE @, !.does = "thinks"]
  /\ UNCHANGED <<stdin, opipe, out, err, call>>
Exits ==
  /\ Alive /\ child.does \in {"thinks", "breaks"}
  /\ \E heir \in IF kind.heirs THEN BOOLEAN ELSE {FALSE} : child' = [child EXCEPT !.at = "gone", !.heir = heir]
  /\ UNCHANGED <<stdin, opipe, epipe, out, err, call>>

\* What the child left behind may write once more, and ends or never does.
HeirActs ==
  /\ child.heir
  /\ \/ child' = [child EXCEPT !.heir = FALSE] /\ UNCHANGED <<opipe, epipe>>
     \/ /\ ~out.ended /\ Len(opipe) < Pipe /\ child.outs < MaxOut
        /\ opipe' = Append(opipe, "bytes") /\ child' = [child EXCEPT !.outs = @ + 1] /\ UNCHANGED epipe
     \/ /\ Len(epipe) < Pipe /\ Len(child.said) < MaxErr
        /\ \E w \in Word : w.late = out.ended /\ epipe' = Append(epipe, w) /\ child' = [child EXCEPT !.said = Append(@, w)]
        /\ UNCHANGED opipe
  /\ UNCHANGED <<stdin, out, err, call>>

-----------------------------------------------------------------------------
(* The threads of the call.                                                *)

\* _feed: on its own thread; a child that is gone ends it.
Feeds ==
  /\ ~stdin.closed
  /\ \/ Writers /\ stdin.held < Pipe /\ stdin.fed < Input /\ stdin' = [stdin EXCEPT !.fed = @ + 1, !.held = @ + 1]
     \/ (stdin.fed = Input \/ ~Writers) /\ stdin' = [stdin EXCEPT !.closed = TRUE]
  /\ UNCHANGED <<child, opipe, epipe, out, err, call>>

\* The feeder is a thread of its own: the drains start without waiting for it.
Started_Fed == stdin.closed
Started == TRUE

\* _Drain, head mode: the first byte past the cap drops all it held; only then the pipe is closed.
DrainsOut ==
  /\ Started /\ ~out.ended
  /\ \/ opipe # <<>> /\ ~out.over /\ opipe' = Tail(opipe)
        /\ out' = (IF out.held + 1 > Cap THEN [out EXCEPT !.over = TRUE, !.held = 0] ELSE [out EXCEPT !.held = @ + 1])
     \/ (out.over \/ (opipe = <<>> /\ ~Writers)) /\ out' = [out EXCEPT !.ended = TRUE] /\ UNCHANGED opipe
  /\ UNCHANGED <<child, stdin, epipe, err, call>>

\* _Drain, tail mode: each read is stamped, against the cap's own stamp.
DrainsErr ==
  /\ Started /\ ~err.ended
  /\ \/ epipe # <<>> /\ epipe' = Tail(epipe)
        /\ err' = [err EXCEPT !.held = Append(@, [word |-> Head(epipe), before |-> ~out.over])]
     \/ epipe = <<>> /\ ~Writers /\ err' = [err EXCEPT !.ended = TRUE, !.first = ~out.over] /\ UNCHANGED epipe
  /\ UNCHANGED <<child, stdin, opipe, out, call>>

\* _finish: stdout's end, then stderr's, then the exit.
Finished_AtExit == out.ended /\ ~Alive
Finished == out.ended /\ err.ended /\ ~Alive
Returns ==
  /\ call.at = "waits" /\ Finished /\ ~out.over
  /\ call' = [at |-> "done", result |-> "returned", data |-> out.held, words |-> Len(err.held)]
  /\ UNCHANGED <<child, stdin, opipe, epipe, out, err>>

Killed == [child EXCEPT !.at = "gone"]
TimesOut ==
  /\ kind.bound /\ call.at = "waits" /\ ~Finished /\ ~(out.over /\ out.ended)
  /\ call' = [call EXCEPT !.at = "done", !.result = "timed_out"] /\ child' = Killed
  /\ UNCHANGED <<stdin, opipe, epipe, out, err>>

\* Over the cap: kill, give stderr its bound to end, and say what it said before the cap.
KillsAtCap ==
  /\ call.at = "waits" /\ out.ended /\ out.over /\ child' = Killed /\ call' = [call EXCEPT !.at = "reap"]
  /\ UNCHANGED <<stdin, opipe, epipe, out, err>>
Before_Read == Len(err.held)
Before == Cardinality({i \in DOMAIN err.held : err.held[i].before})
Whole(n) == CHOOSE k \in 0..n : (k = 0 \/ err.held[k].word.ends) /\ \A j \in k + 1..n : ~err.held[j].word.ends
Reasons ==
  /\ call.at = "reap" /\ (err.ended \/ child.heir)
  /\ call' = [call EXCEPT !.at = "done", !.result = "over_cap",
                !.words = IF err.ended /\ err.first THEN Before ELSE Whole(Before)]
  /\ UNCHANGED <<child, stdin, opipe, epipe, out, err>>
Idles == UNCHANGED callvars

CallStart ==
  /\ child = [at |-> "runs", does |-> "thinks", outs |-> 0, said |-> <<>>, heir |-> FALSE]
  /\ stdin = [fed |-> 0, held |-> 0, closed |-> FALSE] /\ opipe = <<>> /\ epipe = <<>>
  /\ out = [held |-> 0, over |-> FALSE, ended |-> FALSE] /\ err = [held |-> <<>>, ended |-> FALSE, first |-> FALSE]
  /\ call = [at |-> "waits", result |-> "none", data |-> 0, words |-> 0]
CallRests ==
  /\ kind = [bound |-> FALSE, heirs |-> FALSE]
  /\ child = [at |-> "gone", does |-> "thinks", outs |-> 0, said |-> <<>>, heir |-> FALSE]
  /\ stdin = [fed |-> 0, held |-> 0, closed |-> TRUE] /\ opipe = <<>> /\ epipe = <<>>
  /\ out = [held |-> 0, over |-> FALSE, ended |-> TRUE] /\ err = [held |-> <<>>, ended |-> TRUE, first |-> FALSE]
  /\ call = [at |-> "done", result |-> "none", data |-> 0, words |-> 0]
CallInit == kind \in CallSetups /\ CallStart

CallNext ==
  /\ UNCHANGED kind
  /\ \/ Thinks \/ ReadsIn \/ Prints \/ Says \/ Exits \/ HeirActs \/ Feeds \/ DrainsOut \/ DrainsErr
     \/ Returns \/ TimesOut \/ KillsAtCap \/ Reasons \/ Idles

CallSpec == CallInit /\ [][CallNext]_callvars

\* The threads run; a child that is not held at a pipe goes on, and does not read or think for ever.
CallFairness ==
  /\ WF_callvars(UNCHANGED kind /\ (Thinks \/ ReadsIn \/ Prints \/ Says)) /\ SF_callvars(UNCHANGED kind /\ Exits)
  /\ WF_callvars(UNCHANGED kind /\ Feeds) /\ WF_callvars(UNCHANGED kind /\ DrainsOut) /\ WF_callvars(UNCHANGED kind /\ DrainsErr)
  /\ WF_callvars(UNCHANGED kind /\ (Returns \/ KillsAtCap \/ Reasons))

-----------------------------------------------------------------------------
(* What a call returns is all the child and its heirs wrote, never a part  *)
(* that happened to have arrived (_finish).                                *)
ReturnsAll ==
  call.result = "returned" => call.data = child.outs /\ call.words = Len(child.said)

(* The reason of a call over its cap is what the child said before: never  *)
(* its complaint about the pipe the cap closed, and never half a line it   *)
(* went on with (_Drain.split, _spawn).                                    *)
ReasonIsACause ==
  call.result = "over_cap" =>
    /\ \A i \in 1..call.words : ~child.said[i].late
    /\ call.words = 0 \/ child.said[call.words].ends \/ call.words = Len(child.said)

(* A call of a child that goes on and ends is over, whatever the order it  *)
(* reads, prints and says in: no pipe it fills holds it and the caller     *)
(* against each other (_feed, _Drain).                                     *)
CallEnds == ~kind.bound /\ ~kind.heirs ~> call.at = "done"

(* Both: a call returns all its child wrote, or why it did not.            *)
RepliesAreWhole == ReturnsAll /\ ReasonIsACause
=============================================================================
