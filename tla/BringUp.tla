------------------------------ MODULE BringUp ------------------------------
(***************************************************************************)
(* From a repo on this PC to a session on a node: git_state's reads, one   *)
(* git command after another while the user works on, refusal_for, and     *)
(* bring_up.sh with update_repo, the shipped files, the memory it seeds    *)
(* and the session it starts -- or a session found running, attached to.   *)
(* A history is the set of commits it holds.                               *)
(***************************************************************************)
EXTENDS Naturals, Sequences

CONSTANTS Bringer,      \* bring-ups, of this PC or another
          Mine, Theirs, \* the commits made here, and made on the node
          MaxUps,       \* bring-ups a Bringer makes
          BringUpSetups \* runs, allow, elsewhere, there, seeds

VARIABLES here,    \* this PC's clone
          origin,  \* its branch at origin
          repo,    \* the node's clone
          memory, session, \* Claude's memory there; whether the agent runs
          bringUp,      \* the bring-ups
          case     \* the behaviour's setup

upvars == <<here, origin, repo, memory, session, bringUp, case>>

Commits == Mine \cup Theirs
NoEdit == {}

\* Two PCs that seed memory at once are left out: seed_memory's look and its copy are not one step.
ASSUME BringUpAssumption == \A s \in BringUpSetups : ~(s.elsewhere /\ s.seeds)

BringUpTypeOK ==
  /\ here.head \in SUBSET Commits /\ here.tracking \in SUBSET origin /\ here.edit \in SUBSET Mine
  /\ repo.on \in {"branch", "other", "detached", "absent"}
  /\ {repo.head, repo.tip, repo.other, repo.remote, repo.edit} \subseteq SUBSET Commits
  /\ memory \in {"none", "half", "seed", "theirs"} /\ session \in {"none", "agent"}

Made == here.head \cup here.edit \cup origin \cup repo.head \cup repo.tip \cup repo.other \cup repo.remote \cup repo.edit

-----------------------------------------------------------------------------
(* The user at this PC, and who works on the node: the agent, or the user  *)
(* in a shell of his own.                                                  *)

HereWorks ==
  /\ \/ here.edit = NoEdit /\ \E c \in Mine \ Made : here' = [here EXCEPT !.edit = {c}] /\ UNCHANGED origin
     \/ here.edit # NoEdit /\ here' = [here EXCEPT !.head = @ \cup here.edit, !.edit = NoEdit] /\ UNCHANGED origin
     \/ origin \subseteq here.head /\ ~(here.head \subseteq origin) /\ ~here.detached
        /\ origin' = here.head /\ here' = [here EXCEPT !.tracking = here.head]
     \/ here.tracking # origin /\ here' = [here EXCEPT !.tracking = origin] /\ UNCHANGED origin
     \/ here' = [here EXCEPT !.detached = ~@] /\ UNCHANGED origin
  /\ UNCHANGED <<repo, memory, session, bringUp>>

InScript(r) == bringUp[r].at \in {"status", "fetch", "orphan", "refs", "switch", "merge", "ship", "seed", "copy", "start"}

\* No commit is made on a detached HEAD between update_repo's look and its checkout.
Passing == \E r \in Bringer : bringUp[r].at \in {"refs", "switch"}
ThereWorks ==
  /\ repo.on # "absent"
  /\ \/ repo.edit = NoEdit /\ \E c \in Theirs \ Made : repo' = [repo EXCEPT !.edit = {c}] /\ UNCHANGED <<origin, memory>>
     \/ /\ repo.edit # NoEdit /\ (repo.on = "detached" => ~Passing)
        /\ repo' = [repo EXCEPT !.head = @ \cup repo.edit, !.edit = NoEdit,
                      !.tip = IF repo.on = "branch" THEN @ \cup repo.edit ELSE @,
                      !.other = IF repo.on = "other" THEN repo.head \cup repo.edit ELSE @]
        /\ UNCHANGED <<origin, memory>>
     \/ repo.on = "branch" /\ repo' = [repo EXCEPT !.on = "detached"] /\ UNCHANGED <<origin, memory>>
     \/ repo.on = "branch" /\ repo.other = {} /\ repo' = [repo EXCEPT !.on = "other", !.other = repo.head] /\ UNCHANGED <<origin, memory>>
     \/ /\ origin \subseteq repo.tip /\ ~(repo.tip \subseteq origin)
        /\ origin' = repo.tip /\ repo' = [repo EXCEPT !.remote = repo.tip] /\ UNCHANGED memory
     \/ session = "agent" /\ memory' = "theirs" /\ UNCHANGED <<origin, repo>>
  /\ UNCHANGED <<here, session, bringUp>>

AgentEnds == session = "agent" /\ session' = "none" /\ UNCHANGED <<here, origin, repo, memory, bringUp>>

-----------------------------------------------------------------------------
(* git_state, refusal_for and the choice to attach (bring_up_node_project). *)

GoesTo(r, at) == bringUp' = [bringUp EXCEPT ![r].at = at]
Ends(r, result) == bringUp' = [bringUp EXCEPT ![r].at = "over", ![r].result = result]

Begins(r) ==
  /\ r \in case.runs /\ bringUp[r].at = "over" /\ bringUp[r].ups < MaxUps
  /\ \A s \in Bringer \ {r} : bringUp[s].at # "over" => case.elsewhere
  /\ bringUp' = [bringUp EXCEPT ![r] = [at |-> IF case.elsewhere THEN "look" ELSE "branch", ups |-> @.ups + 1, result |-> "none",
                              reads |-> {}, saw |-> {}]]
  /\ UNCHANGED <<here, origin, repo, memory, session>>

\* The reads, in git_state's order; the last one ends the look.
LookOrder_AheadFirst == <<"branch", "ahead", "dirty">>
LookOrder == <<"branch", "dirty", "ahead">>
Finds(r) ==
  CASE bringUp[r].at = "branch" -> IF here.detached THEN {"detached"} ELSE {}
    [] bringUp[r].at = "dirty"  -> IF here.edit # NoEdit THEN {"dirty"} ELSE {}
    [] bringUp[r].at = "ahead"  -> IF here.head \subseteq here.tracking THEN {} ELSE {"unpushed"}
ReadsRepo(r) ==
  /\ \E i \in DOMAIN LookOrder :
       /\ bringUp[r].at = LookOrder[i]
       /\ bringUp' = [bringUp EXCEPT ![r].at = IF i < Len(LookOrder) THEN LookOrder[i + 1] ELSE "judge", ![r].reads = @ \cup Finds(r),
                   ![r].saw = here.head]
  /\ UNCHANGED <<here, origin, repo, memory, session>>

\* refusal_for: --allow-dirty accepts a dirty or an unpushed tree, never a detached one.
Refusals(r) == bringUp[r].reads \cap (IF case.allow THEN {"detached"} ELSE {"detached", "dirty", "unpushed"})
JudgesRepo(r) ==
  /\ bringUp[r].at = "judge"
  /\ \/ Refusals(r) = {} /\ GoesTo(r, "look")
     \/ Refusals(r) # {} /\ Ends(r, IF session = "agent" THEN "attached" ELSE "refused")
  /\ UNCHANGED <<here, origin, repo, memory, session>>

-----------------------------------------------------------------------------
(* bring_up.sh.                                                            *)

Attaches(r) ==
  /\ bringUp[r].at = "look"
  /\ IF session = "agent" THEN Ends(r, "attached")
     ELSE GoesTo(r, IF repo.on = "absent" THEN "clone" ELSE IF case.allow THEN "fetch" ELSE "status")
  /\ UNCHANGED <<here, origin, repo, memory, session>>

Clones(r) ==
  /\ bringUp[r].at = "clone"
  /\ IF repo.on = "absent"
     THEN repo' = [on |-> "branch", head |-> origin, tip |-> origin, other |-> {}, remote |-> origin, edit |-> NoEdit] /\ GoesTo(r, "ship")
     ELSE Ends(r, "failed") /\ UNCHANGED repo
  /\ UNCHANGED <<here, origin, memory, session>>

Checks(r) ==
  /\ bringUp[r].at = "status"
  /\ IF repo.edit # NoEdit THEN Ends(r, "dirty_there") ELSE GoesTo(r, "fetch")
  /\ UNCHANGED <<here, origin, repo, memory, session>>
Fetches(r) ==
  /\ bringUp[r].at = "fetch" /\ repo' = [repo EXCEPT !.remote = origin] /\ GoesTo(r, "orphan")
  /\ UNCHANGED <<here, origin, memory, session>>

\* A detached HEAD no branch holds is refused, whatever --allow-dirty says.
Orphaned_Dirty == repo.edit # NoEdit
Orphaned ==
  repo.on = "detached" /\ ~\E ref \in {repo.tip, repo.other, repo.remote} : repo.head \subseteq ref
RefusesOrphan(r) ==
  /\ bringUp[r].at = "orphan"
  /\ IF Orphaned THEN Ends(r, "orphan") ELSE GoesTo(r, "refs")
  /\ UNCHANGED <<here, origin, repo, memory, session>>
\* merge-base, before the checkout.
RefusesDiverged(r) ==
  /\ bringUp[r].at = "refs"
  /\ IF repo.tip \subseteq repo.remote THEN GoesTo(r, "switch") ELSE Ends(r, "diverged")
  /\ UNCHANGED <<here, origin, repo, memory, session>>
\* git itself refuses to lose an edit, and the merge to be anything but a fast-forward.
Switches(r) ==
  /\ bringUp[r].at = "switch" /\ repo' = [repo EXCEPT !.on = "branch", !.head = repo.tip] /\ GoesTo(r, "merge")
  /\ UNCHANGED <<here, origin, memory, session>>
Merges(r) ==
  /\ bringUp[r].at = "merge"
  /\ IF repo.on = "branch" /\ repo.tip \subseteq repo.remote
     THEN repo' = [repo EXCEPT !.tip = repo.remote, !.head = repo.remote] /\ GoesTo(r, "ship")
     ELSE Ends(r, "diverged") /\ UNCHANGED repo
  /\ UNCHANGED <<here, origin, memory, session>>
Ships(r) == bringUp[r].at = "ship" /\ GoesTo(r, "seed") /\ UNCHANGED <<here, origin, repo, memory, session>>

\* seed_memory: what is there in any form is the node's own.
MemoryThere == memory # "none"
Seeds(r) ==
  /\ bringUp[r].at = "seed"
  /\ IF MemoryThere \/ ~case.seeds THEN GoesTo(r, "start") /\ UNCHANGED memory ELSE GoesTo(r, "copy") /\ memory' = "half"
  /\ UNCHANGED <<here, origin, repo, session>>
CopiesMemory(r) ==
  /\ bringUp[r].at = "copy" /\ memory' = "seed" /\ GoesTo(r, "start")
  /\ UNCHANGED <<here, origin, repo, session>>

\* tmux refuses a second session of one name; an agent may exit as soon as it started.
StartsSession(r) ==
  /\ bringUp[r].at = "start"
  /\ \/ session = "none" /\ session' = "agent" /\ Ends(r, "started")
     \/ Ends(r, "failed") /\ UNCHANGED session
  /\ UNCHANGED <<here, origin, repo, memory>>
\* A git command, a write or the connection fails: the script ends where it is.
BringUpDies(r) == InScript(r) /\ Ends(r, "failed") /\ UNCHANGED <<here, origin, repo, memory, session>>

-----------------------------------------------------------------------------

BringUpStart ==
  /\ here = [head |-> {}, edit |-> NoEdit, tracking |-> {}, detached |-> FALSE] /\ origin = {}
  /\ repo = [on |-> IF case.there THEN "branch" ELSE "absent", head |-> {}, tip |-> {}, other |-> {}, remote |-> {}, edit |-> NoEdit]
  /\ memory = "none" /\ session = "none"
  /\ bringUp = [r \in Bringer |-> [at |-> "over", ups |-> 0, result |-> "none", reads |-> {}, saw |-> {}]]
BringUpInit == case \in BringUpSetups /\ BringUpStart

BringUpStep(r) ==
  \/ Begins(r) \/ ReadsRepo(r) \/ JudgesRepo(r) \/ Attaches(r) \/ Clones(r) \/ Checks(r) \/ Fetches(r) \/ RefusesOrphan(r)
  \/ RefusesDiverged(r) \/ Switches(r) \/ Merges(r) \/ Ships(r) \/ Seeds(r) \/ CopiesMemory(r) \/ StartsSession(r) \/ BringUpDies(r)
UsersWork == HereWorks \/ ThereWorks
BringUpNext == UNCHANGED case /\ (UsersWork \/ AgentEnds \/ \E r \in Bringer : BringUpStep(r))
BringUpSpec == BringUpInit /\ [][BringUpNext]_upvars

-----------------------------------------------------------------------------
(* A session that was started without --allow-dirty works on a tree that   *)
(* holds all the PC had committed at its last look, though the user edits, *)
(* commits, pushes and fetches between the reads (git_state, refusal_for,  *)
(* update_repo).                                                           *)
HasTheWork ==
  [][\A r \in Bringer : bringUp[r].at = "start" /\ session = "none" /\ session' = "agent" /\ bringUp'[r].at = "over" /\ ~case.allow
       => bringUp[r].saw \subseteq repo.head]_upvars

(* No bring-up, whole or cut short, loses what was made on the node: each  *)
(* commit stays in a branch or under HEAD, and memory the node's agent     *)
(* wrote stays its own ("losing commits is never allowed", seed_memory).   *)
Held == repo.head \cup repo.tip \cup repo.other \cup repo.remote \cup repo.edit
NothingLost ==
  [][repo.on # "absent" => Held \subseteq Held' /\ (memory = "theirs" => memory' = "theirs")]_upvars

(* Both: a session starts on all the PC had, beside all the node had.      *)
BringUpKeepsWork == HasTheWork /\ NothingLost
=============================================================================
