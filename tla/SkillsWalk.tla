---------------------------- MODULE SkillsWalk ----------------------------
(***************************************************************************)
(* `nodes._skills`: the walk of ~/.claude/skills that a provision makes.   *)
(* Links are followed; a folder above the skills folder, a folder of keys  *)
(* and the rest of ~/.claude are not.  Meanwhile the user moves links,     *)
(* files grow and are replaced, folders close.                             *)
(*                                                                         *)
(* A folder holds entries [name, is, to]: `is` "dir" or "file", `to` the   *)
(* folder or the file a name leads to; names are numbers, in their order.  *)
(***************************************************************************)
EXTENDS Naturals, FiniteSets, Sequences, SequencesExt

CONSTANTS SkillFolder, Blob,  \* real folders; real files
          Root,               \* the skills folder
          AboveRoot,          \* folders above it, by any spelling
          FencedOff,          \* folders of keys, and ~/.claude outside the skills folder
          EntryMax, BlobMax, TotalMax,  \* SKILLS_MAX_ENTRIES, SKILL_FILE_MAX_BYTES, SKILLS_MAX_TOTAL_BYTES
          MaxShifts, SkillSetups

VARIABLES tree,      \* what each folder holds, or Closed
          blobs,     \* each file: [size, regular, cred, lies: the folder it really is in]
          walk,      \* [todo: names to enter, seen, entries, total, left: files to read, stopped]
          reading,   \* the file in hand: [blob, step, name, was]
          shipped, told, shifts, about

skillvars == <<tree, blobs, walk, reading, shipped, told, shifts, about>>

Closed == {[name |-> 0, is |-> "closed", to |-> Root]}
Idle == [name |-> 0, blob |-> CHOOSE b \in Blob : TRUE, step |-> "idle"]
Named(d, n) == {e \in tree[d] : e.name = n /\ e.is # "closed"}
Sorted(entries) == SetToSortSeq(entries, LAMBDA a, b : a.name < b.name)
Upto(s, n) == SubSeq(s, 1, IF n < Len(s) THEN n ELSE Len(s))

SkillsTypeOK ==
  /\ walk.seen \subseteq SkillFolder /\ walk.total \in 0..TotalMax /\ shifts \in 0..MaxShifts
  /\ reading.step \in {"idle", "judged", "stated", "opened"} /\ \A s \in shipped : s.blob \in Blob

-----------------------------------------------------------------------------
(* The user, meanwhile.                                                    *)

Shift == shifts < MaxShifts /\ ~walk.stopped /\ shifts' = shifts + 1 /\ UNCHANGED <<walk, reading, shipped, told, about>>
Relinks(d, n) ==
  /\ Shift /\ UNCHANGED blobs
  /\ \E e \in Named(d, n), p \in SkillFolder :
       e.is = "dir" /\ p # e.to /\ tree' = [tree EXCEPT ![d] = (@ \ {e}) \cup {[e EXCEPT !.to = p]}]
Closes(d) == Shift /\ UNCHANGED blobs /\ tree[d] # Closed /\ tree' = [tree EXCEPT ![d] = Closed]
Grows(b) == Shift /\ UNCHANGED tree /\ blobs[b].size <= BlobMax /\ blobs' = [blobs EXCEPT ![b].size = @ + 1]
BecomesPipe(b) == Shift /\ UNCHANGED tree /\ blobs[b].regular /\ blobs' = [blobs EXCEPT ![b].regular = FALSE]

-----------------------------------------------------------------------------
(* The walk.                                                               *)

World == UNCHANGED <<tree, blobs, shifts, about>>
Tell(what) == told' = told \cup {what}

\* A folder met twice is walked once; a closed one is told; the entries count towards the cap, folders first.
Follows(d) == d \notin AboveRoot \cup FencedOff
Listed(d) ==
  LET dirs == Sorted({e \in tree[d] : e.is = "dir"})  fs == Sorted({e \in tree[d] : e.is = "file"})
      room == EntryMax - walk.entries IN
    [dirs |-> Upto(dirs, room), files |-> Upto(fs, IF room > Len(dirs) THEN room - Len(dirs) ELSE 0), count |-> Len(dirs) + Len(fs)]
Enters ==
  LET at == Head(walk.todo)
      now == IF at.name = 0 THEN {Root} ELSE {e.to : e \in Named(at.in, at.name)} IN
  /\ ~walk.stopped /\ reading.step = "idle" /\ walk.left = <<>> /\ walk.todo # <<>> /\ walk.entries <= EntryMax
  /\ World /\ UNCHANGED <<reading, shipped>>
  /\ IF \A d \in now : tree[d] = Closed
     THEN walk' = [walk EXCEPT !.todo = Tail(@)] /\ Tell(<<"closed", at.name>>)
     ELSE \E d \in now :
       IF d \in walk.seen THEN walk' = [walk EXCEPT !.todo = Tail(@)] /\ UNCHANGED told
       ELSE LET all == Listed(d)  kept == SelectSeq(all.dirs, LAMBDA e : Follows(e.to)) IN
         /\ walk' = [walk EXCEPT !.seen = @ \cup {d}, !.entries = @ + all.count, !.left = all.files,
                                 !.todo = [i \in 1..Len(kept) |-> [in |-> d, name |-> kept[i].name]] \o Tail(@)]
         /\ told' = told \cup {<<"link", all.dirs[i].name>> : i \in {j \in 1..Len(all.dirs) : ~Follows(all.dirs[j].to)}}
                         \cup (IF walk.entries + all.count > EntryMax THEN {<<"cap", 0>>} ELSE {})

\* The folder's files are done: the walk goes on, or ends at its cap.
Stops == /\ ~walk.stopped /\ reading.step = "idle" /\ walk.left = <<>> /\ (walk.todo = <<>> \/ walk.entries > EntryMax)
         /\ walk' = [walk EXCEPT !.stopped = TRUE] /\ World /\ UNCHANGED <<reading, shipped, told>>

\* _skill_file: where it resolves is judged first, of every single file.
BehindFence(b) == blobs[b].lies \in FencedOff
Judges ==
  LET e == Head(walk.left) IN
  /\ ~walk.stopped /\ reading.step = "idle" /\ walk.left # <<>> /\ World /\ UNCHANGED shipped
  /\ walk' = [walk EXCEPT !.left = Tail(@)]
  /\ IF BehindFence(e.to) THEN Tell(<<"fenced", e.name>>) /\ UNCHANGED reading
     ELSE reading' = [name |-> e.name, blob |-> e.to, step |-> "judged"] /\ UNCHANGED told

\* _read_skill: stat, open, fstat, a bounded read, each refusing what the one before could not see.
Room == TotalMax - walk.total
Fits(size) == size <= BlobMax /\ size <= Room
Refuses_Quietly(why) == reading' = Idle /\ UNCHANGED told /\ World /\ UNCHANGED <<walk, shipped>>
Refuses(why) == reading' = Idle /\ Tell(<<why, reading.name>>) /\ World /\ UNCHANGED <<walk, shipped>>
Stats ==
  LET b == blobs[reading.blob] IN
  /\ reading.step = "judged"
  /\ IF b.regular /\ Fits(b.size) THEN reading' = [reading EXCEPT !.step = "stated"] /\ World /\ UNCHANGED <<walk, shipped, told>>
     ELSE Refuses("size")
Opens ==
  /\ reading.step = "stated"
  /\ IF blobs[reading.blob].regular THEN reading' = [reading EXCEPT !.step = "opened"] /\ World /\ UNCHANGED <<walk, shipped, told>>
     ELSE Refuses("pipe")
StillFits_AsStated(size) == TRUE
StillFits(size) == Fits(size)
Takes ==
  LET b == blobs[reading.blob] IN
  /\ reading.step = "opened"
  /\ IF ~StillFits(b.size) THEN Refuses("grown")
     ELSE IF b.cred THEN Refuses("credential")
     ELSE /\ shipped' = shipped \cup {[blob |-> reading.blob, name |-> reading.name, size |-> b.size]}
          /\ walk' = [walk EXCEPT !.total = @ + b.size] /\ reading' = Idle /\ World /\ UNCHANGED told

-----------------------------------------------------------------------------
SkillsStart(s) == /\ tree = s.tree /\ blobs = s.blobs /\ reading = Idle /\ shipped = {} /\ told = {} /\ shifts = 0 /\ about = s.about
                  /\ walk = [todo |-> <<[in |-> Root, name |-> 0]>>, seen |-> {}, entries |-> 0, total |-> 0, left |-> <<>>,
                             stopped |-> s.about = "none"]
SkillsInit == \E s \in SkillSetups : SkillsStart(s)

SkillsNext ==
  \/ Enters \/ Stops \/ Judges \/ Stats \/ Opens \/ Takes
  \/ \E d \in SkillFolder : Closes(d) \/ \E n \in 1..EntryMax : Relinks(d, n)
  \/ \E b \in Blob : Grows(b) \/ BecomesPipe(b)
  \/ walk.stopped /\ UNCHANGED skillvars

SkillsSpec == SkillsInit /\ [][SkillsNext]_skillvars

-----------------------------------------------------------------------------
(* Wherever a link is moved to during the walk, no file of a fenced folder *)
(* ships, and what ships fits its caps, however files grow between the     *)
(* looks (nodes._skill_file, _read_skill).                                 *)
FencesHold ==
  /\ \A s \in shipped : blobs[s.blob].lies \notin FencedOff /\ s.size <= BlobMax
  /\ FoldSet(LAMBDA s, n : n + s.size, 0, shipped) <= TotalMax

(* No silent omission: when the walk ends, every file of a folder that it  *)
(* entered and that is still open is shipped or told of; only past the cap *)
(* on entries, which is told too, may one be unread (nodes._skills).       *)
EveryFileIsToldOf ==
  walk.stopped /\ about # "none" =>
    \A d \in walk.seen, e \in UNION {tree[p] : p \in walk.seen} : e \in tree[d] /\ e.is = "file" =>
      \/ \E s \in shipped : s.name = e.name
      \/ \E t \in told : t[1] # "closed" /\ t \in {<<t[1], e.name>>, <<"cap", 0>>}

(* Both: fences and caps hold, and nothing stays behind unsaid.            *)
SkillsAreHonest == FencesHold /\ EveryFileIsToldOf
=============================================================================
