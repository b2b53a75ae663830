------------------------------ MODULE PushSet ------------------------------
(***************************************************************************)
(* The files a bring-up ships beside the clone: listed by git or named by  *)
(* the project, vetted one by one (nodes._push), later read one by one     *)
(* into the payload (remote_mux._files), with Claude's memory behind them, *)
(* while editors, links and the user move things in between.               *)
(* A name is a leaf in a folder; a folder may be a link to another one.    *)
(***************************************************************************)
EXTENDS Naturals, Sequences, SequencesExt, FiniteSetsExt

CONSTANTS Folder, Leaf, Nowhere,  \* folders, leaf names, what is no entry
          FileCap, PayloadCap,
          MaxMoves,               \* changes of the disk while a push is under way
          PushSetups

VARIABLES land,   \* where each folder really is
          disk,   \* what lies at each real place
          vetted, warned,  \* what a push found to ship, and what it said it would not
          member, \* the payload so far
          step,   \* where the push is
          moves, world

pushvars == <<land, disk, vetted, warned, member, step, moves, world>>

Place == Folder \X Leaf
DiskItem(kind, size, to, id) == [kind |-> kind, size |-> size, to |-> to, id |-> id]
Empty == DiskItem("none", 0, Nowhere, 0)

PushTypeOK ==
  /\ \A f \in Folder : land[f] \in Folder
  /\ \A p \in Place : disk[p].kind \in {"none", "file", "folder", "link", "locked"}
  /\ Range(vetted) \subseteq Place /\ warned \subseteq Place
  /\ step.at \in {"listing", "extras", "root", "names", "payload", "opens", "reads", "refused", "shipped"}

-----------------------------------------------------------------------------
(* The disk. A resolved path is the place where links end, or none.        *)

Real(p) == <<land[p[1]], p[2]>>
Resolve(p) ==
  LET q == Real(p) IN
    IF disk[q].kind # "link" THEN q
    ELSE IF disk[Real(disk[q].to)].kind = "link" THEN Nowhere ELSE Real(disk[q].to)
Inside(q) == q[1] \in world.inside
Forbidden(q) == q[1] = world.store
Regular(q) == disk[q].kind = "file"

\* An editor saves, a file grows, goes, comes, a link or a folder's link is set anew.
Moves ==
  /\ step.at \notin {"refused", "shipped"} /\ moves < MaxMoves /\ moves' = moves + 1
  /\ \/ /\ \E p \in world.moving : \E e \in {DiskItem("file", 1, Nowhere, moves + 2), DiskItem("file", FileCap + 1, Nowhere, moves + 2), Empty}
                                          \cup {DiskItem("link", 0, t, 0) : t \in world.targets} :
             e.to # p /\ e # disk[p] /\ disk' = [disk EXCEPT ![p] = e]
        /\ UNCHANGED land
     \/ \E f \in world.links, g \in Folder : g # land[f] /\ land[g] = g /\ land' = [land EXCEPT ![f] = g] /\ UNCHANGED disk
  /\ UNCHANGED <<vetted, warned, member, step>>

-----------------------------------------------------------------------------
(* nodes._push.                                                            *)

Says(p) == warned' = warned \cup {p} /\ UNCHANGED vetted
Keeps(p) == vetted' = Append(vetted, p) /\ UNCHANGED warned
Drops == UNCHANGED <<vetted, warned>>

\* A path git listed: gone, no file or a credential's is passed over; outside or unreadable is said.
VetsHit ==
  /\ step.at = "listing" /\ step.left # <<>>
  /\ LET p == Head(step.left) q == Resolve(p) IN
       CASE q = Nowhere \/ Forbidden(q) -> Drops
         [] q # Nowhere /\ ~Forbidden(q) /\ disk[q].kind = "locked" -> Says(p)
         [] q # Nowhere /\ ~Forbidden(q) /\ disk[q].kind \in {"none", "folder"} -> Drops
         [] q # Nowhere /\ ~Forbidden(q) /\ Regular(q) -> IF Inside(q) THEN Keeps(p) ELSE Says(p)
  /\ step' = [step EXCEPT !.left = Tail(@)]
  /\ UNCHANGED <<land, disk, member>>
ListedAll == step.at = "listing" /\ step.left = <<>> /\ step' = [step EXCEPT !.at = "extras", !.left = world.extras]
             /\ UNCHANGED <<land, disk, vetted, warned, member>>

\* A path the project names: each that will not ship is said.
VetsExtra ==
  /\ step.at = "extras" /\ step.left # <<>>
  /\ LET p == Head(step.left) q == Resolve(p) IN
       IF q = Nowhere \/ ~Inside(q) \/ Forbidden(q) \/ ~Regular(q) THEN Says(p) ELSE Keeps(p)
  /\ step' = [step EXCEPT !.left = Tail(@)]
  /\ UNCHANGED <<land, disk, member>>

\* _one_per_file: one entry per name in a real folder; the one inside the project as configured is kept.
OnePerFile_ByTarget(s) == SelectSeq(s, LAMBDA p : \A q \in Range(s) : Resolve(q) = Resolve(p) => q = p \/ q[1] # land[q[1]])
OnePerFile(s) ==
  LET FileOf(p) == Real(p)
      First(p) == CHOOSE i \in DOMAIN s : FileOf(s[i]) = FileOf(p) /\ \A j \in 1..i - 1 : FileOf(s[j]) # FileOf(p)
  IN SetToSeq({s[First(p)] : p \in Range(s)})
Collapses ==
  /\ step.at = "extras" /\ step.left = <<>>
  /\ vetted' = OnePerFile(vetted) /\ step' = [step EXCEPT !.at = "names", !.left = OnePerFile(vetted)]
  /\ UNCHANGED <<land, disk, warned, member>>

-----------------------------------------------------------------------------
(* remote_mux._files.                                                      *)

\* _push_name: resolved once more, and refused outside; the real place is what is read.
Contained_AsVetted(q) == q # Nowhere
Contained(q) == q # Nowhere /\ Inside(q)
Names ==
  /\ step.at = "names" /\ step.left # <<>>
  /\ LET p == Head(step.left) q == Resolve(p) IN
       step' = (IF Contained(q) THEN [step EXCEPT !.left = Tail(@), !.real = Append(@, <<p, q>>)] ELSE [step EXCEPT !.at = "refused"])
  /\ UNCHANGED <<land, disk, vetted, warned, member>>
NamedAll ==
  /\ step.at = "names" /\ step.left = <<>>
  /\ step' = [step EXCEPT !.at = "payload", !.left = step.real \o [i \in DOMAIN world.memory |-> <<Nowhere, world.memory[i]>>]]
  /\ UNCHANGED <<land, disk, vetted, warned, member>>

\* A push file that cannot be read refuses the bring-up; memory that cannot is left out.
IsMemory == step.left[1][1] = Nowhere
Total == FoldSeq(LAMBDA m, n : m.size + n, 0, member)
Cap == IF IsMemory THEN Min({FileCap, PayloadCap - Total}) ELSE FileCap
Unfit == step' = (IF IsMemory THEN [step EXCEPT !.at = "payload", !.left = Tail(@)] ELSE [step EXCEPT !.at = "refused"])

\* _read_regular: the lstat, the open and its fstat, the read.
Sizes ==
  /\ step.at = "payload" /\ step.left # <<>>
  /\ LET e == disk[step.left[1][2]] IN
       IF e.kind # "file" \/ e.size > Cap THEN Unfit ELSE step' = [step EXCEPT !.at = "opens", !.id = e.id]
  /\ UNCHANGED <<land, disk, vetted, warned, member>>
Opens ==
  /\ step.at = "opens"
  /\ LET e == disk[step.left[1][2]] IN
       IF e.kind # "file" \/ e.id # step.id THEN Unfit ELSE step' = [step EXCEPT !.at = "reads"]
  /\ UNCHANGED <<land, disk, vetted, warned, member>>
\* What was opened is read, whatever the name names by now; it may have grown meanwhile.
ReadsIt ==
  /\ step.at = "reads"
  /\ \E size \in {1, FileCap + 1} :
       /\ size = 1 \/ moves < MaxMoves
       /\ \/ size > Cap /\ Unfit /\ UNCHANGED member
          \/ /\ size <= Cap /\ (IsMemory \/ Total + size <= PayloadCap)
             /\ member' = Append(member, [name |-> step.left[1][1], place |-> step.left[1][2], size |-> size])
             /\ step' = [step EXCEPT !.at = "payload", !.left = Tail(@)]
          \/ size <= Cap /\ ~IsMemory /\ Total + size > PayloadCap /\ step' = [step EXCEPT !.at = "refused"] /\ UNCHANGED member
  /\ UNCHANGED <<land, disk, vetted, warned>>
Delivers ==
  /\ step.at = "payload" /\ step.left = <<>> /\ step' = [step EXCEPT !.at = "shipped"]
  /\ UNCHANGED <<land, disk, vetted, warned, member>>
Stays == step.at \in {"refused", "shipped"} /\ UNCHANGED pushvars

-----------------------------------------------------------------------------

PushRests ==
  /\ land = [f \in Folder |-> f] /\ disk = [p \in Place |-> Empty] /\ vetted = <<>> /\ warned = {} /\ member = <<>> /\ moves = 0
  /\ step = [at |-> "shipped", left |-> <<>>, real |-> <<>>, id |-> 0]
PushInit ==
  /\ world \in PushSetups
  /\ land = world.land /\ disk \in world.disks /\ vetted = <<>> /\ warned = {} /\ member = <<>> /\ moves = 0
  /\ step = [at |-> "listing", left |-> world.hits, real |-> <<>>, id |-> 0]
PushNext ==
  /\ UNCHANGED world
  /\ \/ Moves
     \/ UNCHANGED moves /\ (VetsHit \/ ListedAll \/ VetsExtra \/ Collapses \/ Names \/ NamedAll \/ Sizes \/ Opens \/ ReadsIt \/ Delivers)
     \/ Stays
PushSpec == PushInit /\ [][PushNext]_pushvars

-----------------------------------------------------------------------------
(* Whatever moves between the listing, the vetting and the read: what is   *)
(* shipped lies in the project, and in no credential store, under caps,    *)
(* each name once (push_set, _push_name, _read_regular).                   *)
OnlyVettedShips ==
  /\ \A i \in DOMAIN member : member[i].name # Nowhere => Inside(member[i].place) /\ ~Forbidden(member[i].place)
  /\ \A i, j \in DOMAIN member : i # j /\ member[i].name = member[j].name => member[i].name = Nowhere
  /\ Total <= PayloadCap

(* A file the project names ships, under its name or one that was the same *)
(* file, or the user is told why not: nothing it asked for goes missing in *)
(* silence (_classify_extras, _one_per_file).                              *)
NoneGoesMissing ==
  step.at = "shipped" => \A i \in DOMAIN world.extras :
     LET p == world.extras[i] IN
       p \in warned \/ \E j \in DOMAIN member : member[j].name = p \/ (member[j].name # Nowhere /\ member[j].name[2] = p[2] /\ p[1] \in world.links)

(* Both: what the project names ships where it may, or its user is told.   *)
PushSetIsHonest == OnlyVettedShips /\ NoneGoesMissing
=============================================================================
