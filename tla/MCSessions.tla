---------------------------- MODULE MCSessions ----------------------------
(* Two sessions in waves of one; or two commands at a time, at one or at   *)
(* two sessions.                                                           *)
EXTENDS Sessions

Setup(F, l, k) == [fleet |-> F, liberty |-> l, faults |-> k]
MCSetups == {Setup({"a", "b"}, {}, 2), Setup({"a", "b"}, {"raise"}, 1), Setup({"a"}, {"slow", "late"}, 2),
             Setup({"a"}, {"together"}, 1), Setup({"a", "b"}, {"together", "brief"}, 0)}
===========================================================================
