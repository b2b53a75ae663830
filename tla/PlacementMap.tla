----------------------------- MODULE PlacementMap -----------------------------
(***************************************************************************)
(* What nodes.update_node_map promises of the node map: `up`, `down` and   *)
(* recall running at once change one project's entry at a time, and keep   *)
(* the others'.                                                            *)
(***************************************************************************)
CONSTANTS Projects, Nodes, Commands, None
VARIABLE map

(* Where a project runs, and the command that placed it there: its time    *)
(* stamp tells two placements of a project apart.                          *)
Entries == [nick : Nodes, by : Commands \cup {None}]

Init == map \in [Projects -> Entries \cup {None}]
Set(p, e) == map' = [map EXCEPT ![p] = e]
Next == \E p \in Projects, e \in Entries \cup {None} : Set(p, e)
Spec == Init /\ [][Next]_map
===============================================================================
