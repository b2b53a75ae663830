---------------------------- MODULE MCNodePull ----------------------------
(* Two transcripts and a record of one session, or two sessions with one   *)
(* transcript each.                                                        *)
EXTENDS NodePull

MCOwner == [f \in Files |-> IF f = "u" THEN "b" ELSE "a"]
Setup(F, l, room, w, k, n) == [files |-> F, liberty |-> l, room |-> room, writes |-> w, faults |-> k, calls |-> n]
MCSetups == {Setup({"s", "t"}, {"ties"}, 1, 2, 0, 1), Setup({"s", "r"}, {}, 0, 2, 1, 1),
             Setup({"s"}, {"recall"}, 0, 2, 1, 1), Setup({"s", "u"}, {}, 1, 2, 1, 0),
             Setup({"s"}, {"stepback"}, 0, 1, 1, 1)}
MCBack == {Setup({"s"}, {"stepback"}, 0, 2, 1, 1)}
===========================================================================
