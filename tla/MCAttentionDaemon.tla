------------------------- MODULE MCAttentionDaemon -------------------------
(* AttentionDaemon with two pids, two launches at a time and one serve     *)
(* that supervises.  No symmetry: the runs check liveness.                 *)
EXTENDS AttentionDaemon
=============================================================================
