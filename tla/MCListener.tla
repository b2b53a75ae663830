----------------------------- MODULE MCListener -----------------------------
(* Listener with two pids, two supervising serves (one for the race) and a *)
(* human who starts a listener.  No symmetry: the run checks liveness.     *)
EXTENDS Listener
=============================================================================
