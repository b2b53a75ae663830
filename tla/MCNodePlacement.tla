-------------------------- MODULE MCNodePlacement --------------------------
(* Two nodes, two projects and two or three commands.                      *)
EXTENDS NodePlacement

Run(k, S, n) == [kind |-> k, over |-> S, to |-> n]
Up(p) == Run("up", {p}, "n")
Down(S) == Run("down", S, "n")
Local(p) == Run("local", {p}, "n")
To(p, n) == Run("to", {p}, n)
Setup(r, pin, at, gone, dirty, l, k) ==
  [run |-> r, pin |-> [p |-> pin, q |-> "m"], at |-> [p |-> at, q |-> "m"], gone |-> gone,
   dirty |-> dirty, liberty |-> l, faults |-> k]
Absent == Run("up", {}, "n")
Runs(c, d, e) == [c |-> c, d |-> d, e |-> e]

MCSetups ==
  {Setup(Runs(Up("p"), Down({"p", "q"}), Absent), "auto", "n", {}, {}, {"torn", "tick"}, 2),
   Setup(Runs(Up("p"), Up("p"), Down({"p"})), "auto", None, {}, {}, {}, 2),
   Setup(Runs(Up("p"), Up("p"), Absent), "auto", "n", {"p"}, {}, {"overlap", "torn"}, 2),
   Setup(Runs(To("p", "m"), Down({"p"}), Absent), "auto", "n", {}, {}, {"torn"}, 2),
   Setup(Runs(To("p", "m"), Up("p"), Up("q")), "auto", "n", {}, {}, {}, 2),
   Setup(Runs(Local("p"), Down({"p", "q"}), Absent), "m", "n", {}, {}, {"torn"}, 2),
   Setup(Runs(Local("p"), Up("p"), Absent), "n", "n", {}, {"p"}, {"torn"}, 2),
   Setup(Runs(Down({"p"}), Down({"p"}), Up("p")), "auto", "n", {}, {}, {}, 1),
   Setup(Runs(Down({"p", "q"}), Up("p"), Absent), "n", "n", {"p"}, {}, {"torn"}, 3)}
MCRerun == {Setup(Runs(Up("p"), Up("p"), Absent), "auto", None, {}, {}, {}, 1)}
=============================================================================
