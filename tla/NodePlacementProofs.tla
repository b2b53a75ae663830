------------------------- MODULE NodePlacementProofs -------------------------
(***************************************************************************)
(* For any projects, nodes, commands and setups: the types, who holds the  *)
(* locks, and that the node map changes one entry at a time whatever the   *)
(* commands do at once.                                                    *)
(*                                                                         *)
(* The argument: every step gives at most one command a new record that is *)
(* Fit, and changes the locks as its counter says (TypeStep).  Between its *)
(* read and its write a command has the map as it is, for nobody else      *)
(* writes while it holds the lock (CopyStep); so what it writes is the map *)
(* with its own entry changed.                                             *)
(*                                                                         *)
(* Then that sessions are where the map or the user was told they are: a   *)
(* session that neither knows of is in the hands of the command that has   *)
(* started it and still owes it an entry (Owed).  An entry is its writer's *)
(* own (Unseen), and of two commands about one project one is a `down`     *)
(* (Apart); what each stage of a command knows of its project (Placing,    *)
(* Stopping) follows it to its end.                                        *)
(*                                                                         *)
(* Then what a PC applies to a node (NodeApply): a run goes by one record, *)
(* and each step keeps the node and that record together (ApplyIInv).  And *)
(* a project brought up (BringUp): what a look saw is held, in turn, by    *)
(* origin, by what was fetched and by HEAD; and HEAD is in a branch        *)
(* whenever update_repo is about to move it (BringUpIInv).                 *)
(***************************************************************************)
EXTENDS NodePlacement, NodeApply, BringUp, TLAPS

USE NamesAssumption

Pcs == {"ready", "dial", "bring", "lock", "read", "write", "next", "pull", "pulling", "kill", "install", "done"}
Maps == [Projects -> Store!Entries \cup {None}]
Outs == {"none", "ok", "attached", "failed", "died"}

(* A command that is about a project knows it, and its node.               *)
Fit(K) == /\ K \in CmdType
          /\ K.pc \notin {"ready", "next", "done"} => K.p \in Projects /\ K.node \in Nodes

(* The fields of a command.                                                *)
LEMMA CmdFields ==
  ASSUME NEW K \in CmdType
  PROVE  /\ K.pc \in Pcs /\ K.todo \in SUBSET Projects /\ K.p \in Projects \cup {None}
         /\ K.node \in Nodes \cup {None} /\ K.held \in Store!Entries \cup {None} /\ K.seen \in Maps
         /\ K.unread \in BOOLEAN /\ K.pulled \in BOOLEAN /\ K.lost \in SUBSET Nodes /\ K.stuck \in BOOLEAN
         /\ K.still \in SUBSET Projects /\ K.copy \in Maps /\ K.put \in Store!Entries \cup {None}
         /\ K.out \in Outs
  BY DEF CmdType, Pcs, Maps, Outs

(* ... and the commands a step makes of one: one that goes on,             *)
LEMMA GoesOn ==
  ASSUME NEW K \in CmdType, NEW pc \in Pcs
  PROVE  LET J == [K EXCEPT !.pc = pc] IN
         J \in CmdType /\ J.pc = pc /\ J.p = K.p /\ J.node = K.node /\ J.copy = K.copy /\ J.put = K.put
  BY DEF CmdType, Pcs

(* one with another entry to write, one with another copy of the map,      *)
LEMMA Puts ==
  ASSUME NEW K \in CmdType, NEW put \in Store!Entries \cup {None}
  PROVE  LET J == [K EXCEPT !.put = put] IN
         J \in CmdType /\ J.pc = K.pc /\ J.p = K.p /\ J.node = K.node
  BY DEF CmdType

LEMMA Copies ==
  ASSUME NEW K \in CmdType, NEW copy \in Maps
  PROVE  LET J == [K EXCEPT !.copy = copy] IN
         J \in CmdType /\ J.pc = K.pc /\ J.p = K.p /\ J.node = K.node
  BY DEF CmdType, Maps

(* one that has ended.                                                     *)
LEMMA EndedIsCmd ==
  ASSUME NEW K \in CmdType, NEW out \in Outs
  PROVE  Ended(K, out) \in CmdType /\ Ended(K, out).pc = "done"
<1>1. Ready \in CmdType
  BY DEF Ready, CmdType, Blank
<1>2. /\ K.p \in Projects \cup {None} /\ K.node \in Nodes \cup {None} /\ K.held \in Store!Entries \cup {None}
      /\ K.put \in Store!Entries \cup {None} /\ K.still \in SUBSET Projects
  BY CmdFields
<1>3. QED
  BY <1>1, <1>2, ZenonT(60) DEF Ended, CmdType, Outs

LEMMA BlankIsMap == Blank \in Maps
  BY DEF Blank, Maps

-----------------------------------------------------------------------------
(* Types, and that every command is fit.                                   *)
TInv == TypeOK /\ \A c \in Commands : Fit(cmd[c])

(* How a step of c that makes J of it may change the map's lock ...        *)
LockMoves(c, J) ==
  \/ J.pc \in {"read", "write"} /\ mapLock \in {c, None} /\ mapLock' = c
  \/ J.pc \notin {"read", "write"} /\ mapLock' = IF mapLock = c THEN None ELSE mapLock
(* ... and the nodes'.                                                     *)
Inside == {"bring", "pulling"}
BusyMoves(c, J) ==
  \/ J.pc \in Inside /\ \E n \in Nodes : busy[n] = None /\ busy' = [busy EXCEPT ![n] = c]
  \/ J.pc \notin Inside /\ busy' = Freed(c)
  \/ J.pc \notin Inside /\ cmd[c].pc \notin Inside /\ busy' = busy

(* The setups: what the commands and the projects are.                     *)
LEMMA SetupTypes ==
  ASSUME setup \in Setups
  PROVE  /\ \A c \in Commands : Scope(c) \in SUBSET Projects /\ setup.run[c].to \in Nodes
         /\ \A p \in Projects : setup.pin[p] \in Nodes \cup {AnyNode} /\ setup.at[p] \in Nodes \cup {None}
         /\ setup.faults \in Nat
<1>1. setup \in [run : [Commands -> Programs], pin : [Projects -> Nodes \cup {AnyNode}],
                 at : [Projects -> Nodes \cup {None}], gone : SUBSET Projects, dirty : SUBSET Projects,
                 liberty : SUBSET {"torn", "tick", "overlap"}, faults : Nat]
  BY SetupsAssumption
<1>2. /\ setup.run \in [Commands -> Programs] /\ setup.pin \in [Projects -> Nodes \cup {AnyNode}]
      /\ setup.at \in [Projects -> Nodes \cup {None}] /\ setup.faults \in Nat
  BY <1>1
<1>3. \A c \in Commands : setup.run[c] \in Programs
  BY <1>2
<1>4. QED
  BY <1>2, <1>3 DEF Programs, Scope

(* An entry of a map.                                                      *)
LEMMA EntryOf ==
  ASSUME NEW M \in Maps, NEW p \in Projects, M[p] # None
  PROVE  M[p] \in Store!Entries /\ M[p].nick \in Nodes
<1>1. M[p] \in Store!Entries
  BY DEF Maps
<1>2. QED
  BY <1>1 DEF Store!Entries

(* A step that gives one command a fit record, and moves the locks as that *)
(* record says, keeps the types.                                           *)
LEMMA Moves ==
  ASSUME TInv, NEW c \in Commands, NEW J, Fit(J), cmd' = [cmd EXCEPT ![c] = J], setup' = setup,
         map' \in Maps, torn' \in BOOLEAN, on' \in [Nodes -> SUBSET Projects],
         late' \in SUBSET (Projects \X Nodes), said' \in SUBSET (Projects \X Nodes \X Whys),
         crossed' \in SUBSET Commands, faults' \in Nat, LockMoves(c, J), BusyMoves(c, J)
  PROVE  TInv'
<1>1. cmd \in [Commands -> CmdType] /\ J \in CmdType /\ c # None /\ c # Sync
  BY DEF TInv, TypeOK, Fit
<1>2. cmd' \in [Commands -> CmdType] /\ cmd'[c] = J /\ \A d \in Commands \ {c} : cmd'[d] = cmd[d]
  BY <1>1
<1>3. \A d \in Commands : Fit(cmd'[d])
  BY <1>2 DEF TInv
<1>4. mapLock' \in Commands \cup {None} /\ \A d \in Commands : (mapLock' = d) <=> cmd'[d].pc \in {"read", "write"}
  <2>1. mapLock \in Commands \cup {None} /\ \A d \in Commands : (mapLock = d) <=> cmd[d].pc \in {"read", "write"}
    BY DEF TInv, TypeOK
  <2>2. QED
    BY <1>1, <1>2, <2>1 DEF LockMoves
<1>5. /\ busy' \in [Nodes -> Commands \cup {Sync, None}]
      /\ \A d \in Commands : (\E n \in Nodes : busy'[n] = d) <=> cmd'[d].pc \in Inside
  <2>1. /\ busy \in [Nodes -> Commands \cup {Sync, None}]
        /\ \A d \in Commands : (\E n \in Nodes : busy[n] = d) <=> cmd[d].pc \in Inside
    BY DEF TInv, TypeOK, Inside
  <2>2. CASE J.pc \in Inside /\ \E n \in Nodes : busy[n] = None /\ busy' = [busy EXCEPT ![n] = c]
    <3>1. PICK n \in Nodes : busy[n] = None /\ busy' = [busy EXCEPT ![n] = c]
      BY <2>2
    <3>2. \A d \in Commands \ {c}, m \in Nodes : busy'[m] = d <=> busy[m] = d
      BY <1>1, <2>1, <3>1
    <3>3. busy'[n] = c
      BY <2>1, <3>1
    <3>4. busy' \in [Nodes -> Commands \cup {Sync, None}]
      BY <2>1, <3>1
    <3>5. QED
      BY <1>2, <2>1, <2>2, <3>2, <3>3, <3>4
  <2>3. CASE J.pc \notin Inside /\ busy' = Freed(c)
    BY <1>1, <1>2, <2>1, <2>3 DEF Freed
  <2>4. CASE J.pc \notin Inside /\ cmd[c].pc \notin Inside /\ busy' = busy
    BY <1>1, <1>2, <2>1, <2>4
  <2>5. QED
    BY <2>2, <2>3, <2>4 DEF BusyMoves
<1>6. setup' \in Setups
  BY DEF TInv, TypeOK
<1>7. QED
  BY <1>2, <1>3, <1>4, <1>5, <1>6 DEF TInv, TypeOK, Maps, Inside

-----------------------------------------------------------------------------
(* What the types say of one command.                                      *)
LEMMA CmdOf ==
  ASSUME TInv, NEW c \in Commands
  PROVE  /\ Fit(cmd[c]) /\ cmd[c] \in CmdType /\ cmd[c].pc \in Pcs
         /\ (mapLock = c) <=> cmd[c].pc \in {"read", "write"}
         /\ map \in Maps /\ busy \in [Nodes -> Commands \cup {Sync, None}]
<1>1. Fit(cmd[c]) /\ cmd[c] \in CmdType
  BY DEF TInv, Fit
<1>2. QED
  BY <1>1, CmdFields DEF TInv, TypeOK, Maps

(* A step that only fits a command, without the locks ...                  *)
LEMMA Plain ==
  ASSUME TInv, NEW c \in Commands, NEW J, Fit(J), cmd' = [cmd EXCEPT ![c] = J], setup' = setup,
         UNCHANGED <<map, torn, mapLock, busy, on, late>>, said' \in SUBSET (Projects \X Nodes \X Whys),
         crossed' \in SUBSET Commands, faults' \in Nat,
         cmd[c].pc \notin Inside \cup {"read", "write"}, J.pc \notin Inside \cup {"read", "write"}
  PROVE  TInv'
<1>1. map' \in Maps /\ torn' \in BOOLEAN /\ on' \in [Nodes -> SUBSET Projects] /\ late' \in SUBSET (Projects \X Nodes)
  BY DEF TInv, TypeOK, Maps
<1>2. LockMoves(c, J)
  BY CmdOf DEF LockMoves
<1>3. BusyMoves(c, J)
  BY DEF BusyMoves
<1>4. QED
  BY <1>1, <1>2, <1>3, Moves

(* ... as a command starts ...                                             *)
LEMMA StartStep ==
  ASSUME TInv, NEW c \in Commands, setup' = setup, Start(c)
  PROVE  TInv'
<1>1. cmd[c] \in CmdType /\ map \in Maps /\ Fit(cmd[c])
  BY CmdOf
<1>2. /\ cmd[c].pc = "ready" /\ UNCHANGED <<map, torn, mapLock, busy, on, late>>
      /\ said' \in SUBSET (Projects \X Nodes \X Whys) /\ crossed' \in SUBSET Commands /\ faults' \in Nat
  BY DEF Start, Place, PlaceRefused, DownReads, RecallReads, RecallRefused, Starts, Rivals, TInv, TypeOK
<1>3. \A p \in Scope(c) : p \in Projects
  BY SetupTypes DEF TInv, TypeOK
<1>4. CASE Place(c)
  <2>1. PICK p \in Scope(c) : \E n \in NodesFor(p) : cmd' = [cmd EXCEPT ![c].pc = "dial", ![c].p = p, ![c].node = n]
    BY <1>4 DEF Place
  <2>2. PICK n \in NodesFor(p) : cmd' = [cmd EXCEPT ![c].pc = "dial", ![c].p = p, ![c].node = n]
    BY <2>1
  <2>3. p \in Projects /\ n \in Nodes
    <3>1. setup.pin[p] \in Nodes \cup {AnyNode}
      BY <1>3, SetupTypes DEF TInv, TypeOK
    <3>2. map[p] # None => map[p].nick \in Nodes
      BY <1>1, <1>3, EntryOf
    <3>3. QED
      BY <1>3, <3>1, <3>2 DEF NodesFor
  <2> DEFINE J == [cmd[c] EXCEPT !.pc = "dial", !.p = p, !.node = n]
  <2>4. Fit(J) /\ J.pc = "dial"
    BY <1>1, <2>3 DEF Fit, CmdType
  <2>5. cmd' = [cmd EXCEPT ![c] = J]
    BY <2>2
  <2> HIDE DEF J
  <2>6. QED
    BY <1>2, <2>4, <2>5, Plain DEF Inside
<1>5. CASE DownReads(c)
  <2> DEFINE J == [cmd[c] EXCEPT !.pc = "next", !.todo = Scope(c), !.seen = Known.seen, !.unread = Known.unread]
  <2>1. Known.seen \in Maps /\ Known.unread \in BOOLEAN
    BY <1>1, BlankIsMap DEF Known, TInv, TypeOK
  <2>2. Fit(J) /\ J.pc = "next"
    BY <1>1, <1>3, <2>1 DEF Fit, CmdType, Maps
  <2>3. cmd' = [cmd EXCEPT ![c] = J]
    BY <1>5 DEF DownReads
  <2> HIDE DEF J
  <2>4. QED
    BY <1>2, <2>2, <2>3, Plain DEF Inside
<1>6. CASE RecallReads(c)
  <2>1. PICK p \in Scope(c) : /\ map[p] # None
          /\ cmd' = [cmd EXCEPT ![c] = [@ EXCEPT !.pc = "pull", !.p = p, !.held = map[p], !.node = map[p].nick]]
    BY <1>6 DEF RecallReads, Recallable
  <2> DEFINE J == [cmd[c] EXCEPT !.pc = "pull", !.p = p, !.held = map[p], !.node = map[p].nick]
  <2>2. p \in Projects /\ map[p] \in Store!Entries /\ map[p].nick \in Nodes
    BY <1>1, <1>3, <2>1, EntryOf
  <2>3. Fit(J) /\ J.pc = "pull"
    BY <1>1, <2>2 DEF Fit, CmdType
  <2>4. cmd' = [cmd EXCEPT ![c] = J]
    BY <2>1
  <2> HIDE DEF J
  <2>5. QED
    BY <1>2, <2>3, <2>4, Plain DEF Inside
<1>7. CASE PlaceRefused(c) \/ RecallRefused(c)
  <2>1. PICK p \in Scope(c) : cmd' = [cmd EXCEPT ![c] = Ended([@ EXCEPT !.p = p], "failed")]
    BY <1>7 DEF PlaceRefused, RecallRefused
  <2> DEFINE K == [cmd[c] EXCEPT !.p = p]
             J == Ended(K, "failed")
  <2>2. K \in CmdType
    BY <1>1, <1>3 DEF CmdType
  <2>3. cmd' = [cmd EXCEPT ![c] = J]
    BY <2>1
  <2> HIDE DEF K
  <2>4. Fit(J) /\ J.pc = "done"
    BY <2>2, EndedIsCmd DEF Fit, Outs
  <2> HIDE DEF J
  <2>5. QED
    BY <1>2, <2>3, <2>4, Plain DEF Inside
<1>8. QED
  BY <1>4, <1>5, <1>6, <1>7 DEF Start

-----------------------------------------------------------------------------
(* The records that the steps make, outside of both locks.                 *)
Outside == Pcs \ (Inside \cup {"read", "write"})

LEMMA EndedFit ==
  ASSUME NEW K \in CmdType, NEW out \in Outs
  PROVE  Fit(Ended(K, out)) /\ Ended(K, out).pc \in Outside
  BY EndedIsCmd DEF Fit, Outside, Inside, Pcs

LEMMA GoesOnFit ==
  ASSUME NEW K, Fit(K), K.pc \notin {"ready", "next", "done"}, NEW pc \in Pcs
  PROVE  LET J == [K EXCEPT !.pc = pc] IN Fit(J) /\ J.pc = pc
  BY GoesOn DEF Fit

LEMMA GoesOnWith ==
  ASSUME NEW K, Fit(K), K.pc \notin {"ready", "next", "done"}, NEW pc \in Pcs, NEW put \in Store!Entries \cup {None}
  PROVE  LET J == [K EXCEPT !.pc = pc, !.put = put] IN Fit(J) /\ J.pc = pc
<1> DEFINE I == [K EXCEPT !.pc = pc]
           J == [I EXCEPT !.put = put]
<1>1. I \in CmdType /\ I.pc = pc /\ I.p \in Projects /\ I.node \in Nodes
  BY GoesOn DEF Fit
<1> HIDE DEF I
<1>2. J \in CmdType /\ J.pc = pc /\ J.p \in Projects /\ J.node \in Nodes
  BY <1>1, Puts
<1> HIDE DEF J
<1>3. Fit(J) /\ J.pc = pc
  BY <1>2 DEF Fit
<1>4. QED
  BY <1>3 DEF I, J

LEMMA CopyFit ==
  ASSUME NEW K, Fit(K), K.pc \notin {"ready", "next", "done"}, NEW pc \in Pcs, NEW copy \in Maps
  PROVE  LET J == [K EXCEPT !.pc = pc, !.copy = copy] IN Fit(J) /\ J.pc = pc
<1> DEFINE I == [K EXCEPT !.pc = pc]
           J == [I EXCEPT !.copy = copy]
<1>1. I \in CmdType /\ I.pc = pc /\ I.p \in Projects /\ I.node \in Nodes
  BY GoesOn DEF Fit
<1> HIDE DEF I
<1>2. J \in CmdType /\ J.pc = pc /\ J.p \in Projects /\ J.node \in Nodes
  BY <1>1, Copies
<1> HIDE DEF J
<1>3. Fit(J) /\ J.pc = pc
  BY <1>2 DEF Fit
<1>4. QED
  BY <1>3 DEF I, J

(* ... by update_node_map,                                                 *)
LEMMA UpdatedFit ==
  ASSUME TInv, NEW c \in Commands, cmd[c].pc \in {"lock", "read", "write"}
  PROVE  /\ Fit(Updated(c, cmd[c])) /\ Updated(c, cmd[c]).pc \in Outside
         /\ Fit(NotUpdated(c, cmd[c])) /\ NotUpdated(c, cmd[c]).pc \in Outside
<1> DEFINE K == cmd[c]
<1>1. K \in CmdType /\ K.p \in Projects /\ K.node \in Nodes
  BY CmdOf DEF Fit
<1>2. setup.run[c].to \in Nodes
  BY SetupTypes DEF TInv, TypeOK
<1>3. /\ Fit(Ended(K, "ok")) /\ Ended(K, "ok").pc \in Outside
      /\ Fit(Ended(K, "failed")) /\ Ended(K, "failed").pc \in Outside
  BY <1>1, EndedFit DEF Outs
<1> DEFINE A == [K EXCEPT !.pc = "next", !.copy = Blank]
           B == [K EXCEPT !.pc = "dial", !.node = setup.run[c].to, !.copy = Blank]
           D == [K EXCEPT !.pc = "next", !.copy = Blank, !.stuck = TRUE]
<1> HIDE DEF K
<1>4. Fit(A) /\ A.pc = "next"
  BY <1>1, BlankIsMap DEF Fit, CmdType, Maps
<1>5. Fit(B) /\ B.pc = "dial"
  BY <1>1, <1>2, BlankIsMap DEF Fit, CmdType, Maps
<1>6. Fit(D) /\ D.pc = "next"
  BY <1>1, BlankIsMap DEF Fit, CmdType, Maps
<1>7. /\ Updated(c, K) \in {A, B, Ended(K, "ok")}
      /\ NotUpdated(c, K) \in {D, Ended(K, "failed"), Ended(K, "ok")}
  BY DEF Updated, NotUpdated
<1> HIDE DEF A, B, D
<1>8. QED
  BY <1>3, <1>4, <1>5, <1>6, <1>7 DEF Outside, Pcs, Inside, K

(* ... and what the user is told.                                          *)
LEMMA SaidType ==
  ASSUME TInv, NEW c \in Commands, cmd[c].pc \notin {"ready", "next", "done"}
  PROVE  /\ said \in SUBSET (Projects \X Nodes \X Whys)
         /\ Unsure(cmd[c].p, cmd[c].node) \in SUBSET (Projects \X Nodes \X Whys)
         /\ (said' = Unsure(cmd[c].p, cmd[c].node) \/ said' = said \/ Warns(cmd[c])) =>
              said' \in SUBSET (Projects \X Nodes \X Whys)
<1>1. cmd[c].p \in Projects /\ cmd[c].node \in Nodes
  BY CmdOf DEF Fit
<1>2. said \in SUBSET (Projects \X Nodes \X Whys)
  BY DEF TInv, TypeOK
<1>3. QED
  BY <1>1, <1>2 DEF Unsure, Warns, Whys

(* What a step keeps of the rest.                                          *)
LEMMA RestTypes ==
  ASSUME TInv
  PROVE  /\ map \in Maps /\ torn \in BOOLEAN /\ on \in [Nodes -> SUBSET Projects]
         /\ late \in SUBSET (Projects \X Nodes) /\ said \in SUBSET (Projects \X Nodes \X Whys)
         /\ crossed \in SUBSET Commands /\ faults \in Nat
         /\ Fault => faults' \in Nat
  BY DEF TInv, TypeOK, Maps, Fault

(* A command leaves a node's lock.                                         *)
LEMMA Leaves ==
  ASSUME TInv, NEW c \in Commands, cmd[c].pc \in Inside, NEW J, Fit(J), J.pc \in Outside,
         cmd' = [cmd EXCEPT ![c] = J], setup' = setup, busy' = Freed(c),
         UNCHANGED <<map, torn, mapLock, crossed>>, on' \in [Nodes -> SUBSET Projects],
         late' \in SUBSET (Projects \X Nodes), said' \in SUBSET (Projects \X Nodes \X Whys), faults' \in Nat
  PROVE  TInv'
<1>1. LockMoves(c, J)
  BY CmdOf DEF LockMoves, Outside, Inside
<1>2. BusyMoves(c, J)
  BY DEF BusyMoves, Outside
<1>3. QED
  BY <1>1, <1>2, RestTypes, Moves

(* A command leaves the map's lock.                                        *)
LEMMA Releases ==
  ASSUME TInv, NEW c \in Commands, cmd[c].pc \in {"read", "write"}, NEW J, Fit(J), J.pc \in Outside,
         cmd' = [cmd EXCEPT ![c] = J], setup' = setup, mapLock' = None, map' \in Maps, torn' \in BOOLEAN,
         UNCHANGED <<busy, on, late, crossed>>, said' \in SUBSET (Projects \X Nodes \X Whys), faults' \in Nat
  PROVE  TInv'
<1>1. LockMoves(c, J)
  BY CmdOf DEF LockMoves, Outside, Inside
<1>2. BusyMoves(c, J)
  BY DEF BusyMoves, Outside, Inside
<1>3. QED
  BY <1>1, <1>2, RestTypes, Moves

-----------------------------------------------------------------------------
(* A bring-up's steps.                                                     *)
LEMMA BringStep ==
  ASSUME TInv, NEW c \in Commands, setup' = setup,
         \/ DirtyAttached(c) \/ DirtyRefused(c) \/ DirtyUnknown(c) \/ NodeBusy(c) \/ Dial(c)
         \/ BringUp(c) \/ BringUpFails(c) \/ BringUpLost(c)
  PROVE  TInv'
<1> DEFINE K == cmd[c]
<1>1. /\ K \in CmdType /\ Fit(K) /\ map \in Maps
      /\ K.pc \in {"dial", "bring"} => K.p \in Projects /\ K.node \in Nodes
  BY CmdOf DEF Fit
<1>2. CASE DirtyAttached(c) \/ DirtyRefused(c) \/ DirtyUnknown(c) \/ NodeBusy(c)
  <2>1. K.pc = "dial" /\ UNCHANGED <<map, torn, mapLock, busy, on, late, said, crossed>> /\ faults' \in Nat
    BY <1>2, RestTypes DEF DirtyAttached, DirtyRefused, DirtyUnknown, NodeBusy, Attachable
  <2>2. PICK out \in Outs : cmd' = [cmd EXCEPT ![c] = Ended(K, out)]
    BY <1>2 DEF DirtyAttached, DirtyRefused, DirtyUnknown, NodeBusy, Outs
  <2>3. Fit(Ended(K, out)) /\ Ended(K, out).pc \in Outside
    BY <1>1, EndedFit
  <2>4. QED
    BY <2>1, <2>2, <2>3, Plain, RestTypes DEF Outside, Inside
<1>3. CASE Dial(c)
  <2> DEFINE J == [K EXCEPT !.pc = "bring"]
  <2>1. K.pc = "dial" /\ busy[K.node] = None /\ busy' = [busy EXCEPT ![K.node] = c] /\ cmd' = [cmd EXCEPT ![c] = J]
        /\ UNCHANGED <<map, torn, mapLock, on, late, said, crossed, faults>>
    BY <1>3 DEF Dial
  <2>2. Fit(J) /\ J.pc = "bring"
    BY <1>1, <2>1, GoesOnFit DEF Pcs
  <2> HIDE DEF J
  <2>3. LockMoves(c, J)
    BY <2>1, <2>2, CmdOf DEF LockMoves
  <2>4. BusyMoves(c, J)
    BY <1>1, <2>1, <2>2 DEF BusyMoves, Inside
  <2>5. QED
    BY <2>1, <2>2, <2>3, <2>4, RestTypes, Moves
<1>4. CASE BringUp(c)
  <2> DEFINE put == [nick |-> K.node, by |-> c]
             J == [K EXCEPT !.pc = "lock", !.put = put]
  <2>1. /\ K.pc = "bring" /\ on' = [on EXCEPT ![K.node] = @ \cup {K.p}] /\ busy' = Freed(c)
        /\ cmd' = [cmd EXCEPT ![c] = J] /\ UNCHANGED <<map, torn, mapLock, late, said, crossed, faults>>
    BY <1>4 DEF BringUp
  <2>2. put \in Store!Entries
    BY <1>1, <2>1 DEF Store!Entries
  <2> HIDE DEF put
  <2>3. Fit(J) /\ J.pc = "lock"
    <3>1. /\ Fit(K) /\ K.pc \notin {"ready", "next", "done"} /\ "lock" \in Pcs
          /\ put \in Store!Entries \cup {None}
      BY <1>1, <2>1, <2>2 DEF Pcs
    <3> HIDE DEF K
    <3>2. QED
      BY <3>1, GoesOnWith, Zenon
  <2> HIDE DEF J
  <2>4. on' \in [Nodes -> SUBSET Projects]
    BY <1>1, <2>1, RestTypes
  <2>5. QED
    BY <2>1, <2>3, <2>4, RestTypes, Leaves DEF Inside, Outside, Pcs
<1>5. CASE BringUpFails(c) \/ BringUpLost(c)
  <2> DEFINE J == Ended(K, "failed")
  <2>1. K.pc = "bring" /\ busy' = Freed(c) /\ cmd' = [cmd EXCEPT ![c] = J]
        /\ UNCHANGED <<map, torn, mapLock, on, crossed>> /\ faults' \in Nat
    BY <1>5, RestTypes DEF BringUpFails, BringUpLost
  <2>2. said' = said \/ said' = Unsure(K.p, K.node)
    BY <1>5 DEF BringUpFails, BringUpLost
  <2>3. late' = late \/ late' = late \cup {<<K.p, K.node>>}
    BY <1>5 DEF BringUpFails, BringUpLost
  <2>4. Fit(J) /\ J.pc \in Outside
    BY <1>1, EndedFit DEF Outs
  <2> HIDE DEF J
  <2>5. said' \in SUBSET (Projects \X Nodes \X Whys)
    BY <2>1, <2>2, SaidType
  <2>6. late' \in SUBSET (Projects \X Nodes)
    BY <1>1, <2>1, <2>3, RestTypes
  <2>7. QED
    BY <2>1, <2>4, <2>5, <2>6, RestTypes, Leaves DEF Inside
<1>6. QED
  BY <1>2, <1>3, <1>4, <1>5

(* update_node_map's.                                                      *)
LEMMA UpdateStep ==
  ASSUME TInv, NEW c \in Commands, setup' = setup,
         \/ Lock(c) \/ LockHeld(c) \/ Read(c) \/ ReadOther(c) \/ ReadTorn(c) \/ Write(c) \/ WriteFails(c)
  PROVE  TInv'
<1> DEFINE K == cmd[c]
<1>1. /\ K \in CmdType /\ Fit(K) /\ map \in Maps
      /\ K.pc \in {"lock", "read", "write"} => K.p \in Projects /\ K.node \in Nodes
  BY CmdOf DEF Fit
<1>2. CASE Lock(c)
  <2> DEFINE J == [K EXCEPT !.pc = "read"]
  <2>1. K.pc = "lock" /\ mapLock = None /\ mapLock' = c /\ cmd' = [cmd EXCEPT ![c] = J]
        /\ UNCHANGED <<map, torn, busy, on, late, said, crossed, faults>>
    BY <1>2 DEF Lock
  <2>2. Fit(J) /\ J.pc = "read"
    BY <1>1, <2>1, GoesOnFit DEF Pcs
  <2> HIDE DEF J
  <2>3. LockMoves(c, J) /\ BusyMoves(c, J)
    BY <2>1, <2>2 DEF LockMoves, BusyMoves, Inside
  <2>4. QED
    BY <2>1, <2>2, <2>3, RestTypes, Moves
<1>3. CASE LockHeld(c)
  <2> DEFINE J == NotUpdated(c, K)
  <2>1. K.pc = "lock" /\ cmd' = [cmd EXCEPT ![c] = J] /\ Warns(K)
        /\ UNCHANGED <<map, torn, mapLock, busy, on, late, crossed, faults>>
    BY <1>3 DEF LockHeld, Fails
  <2>2. Fit(J) /\ J.pc \in Outside
    BY <2>1, UpdatedFit
  <2> HIDE DEF J
  <2>3. said' \in SUBSET (Projects \X Nodes \X Whys)
    BY <2>1, SaidType
  <2>4. QED
    BY <2>1, <2>2, <2>3, RestTypes, Plain DEF Outside, Inside
<1>4. CASE Read(c)
  <2> DEFINE J == [K EXCEPT !.pc = "write", !.copy = map]
  <2>1. K.pc = "read" /\ cmd' = [cmd EXCEPT ![c] = J]
        /\ UNCHANGED <<map, torn, mapLock, busy, on, late, said, crossed, faults>>
    BY <1>4 DEF Read
  <2>2. Fit(J) /\ J.pc = "write"
    <3>1. Fit(K) /\ K.pc \notin {"ready", "next", "done"} /\ "write" \in Pcs /\ map \in Maps
      BY <1>1, <2>1 DEF Pcs
    <3> HIDE DEF K
    <3>2. QED
      BY <3>1, CopyFit, Zenon
  <2> HIDE DEF J
  <2>3. LockMoves(c, J) /\ BusyMoves(c, J)
    BY <2>1, <2>2, CmdOf DEF LockMoves, BusyMoves, Inside
  <2>4. QED
    BY <2>1, <2>2, <2>3, RestTypes, Moves
<1>5. CASE ReadOther(c) \/ ReadTorn(c) \/ WriteFails(c)
  <2>1. PICK J \in {Updated(c, K), NotUpdated(c, K)} : cmd' = [cmd EXCEPT ![c] = J]
    BY <1>5 DEF ReadOther, ReadTorn, WriteFails, Fails
  <2>2. K.pc \in {"read", "write"} /\ mapLock' = None /\ UNCHANGED <<map, torn, busy, on, late, crossed>>
        /\ faults' \in Nat
    BY <1>5, RestTypes DEF ReadOther, ReadTorn, WriteFails, Fails
  <2>3. said' = said \/ Warns(K)
    BY <1>5 DEF ReadOther, ReadTorn, WriteFails, Fails
  <2>4. Fit(J) /\ J.pc \in Outside
    BY <2>1, <2>2, UpdatedFit
  <2>5. said' \in SUBSET (Projects \X Nodes \X Whys)
    BY <2>2, <2>3, SaidType
  <2>6. QED
    BY <2>1, <2>2, <2>4, <2>5, RestTypes, Releases
<1>6. CASE Write(c)
  <2> DEFINE J == Updated(c, K)
  <2>1. /\ K.pc = "write" /\ map' = [K.copy EXCEPT ![K.p] = K.put] /\ torn' = FALSE /\ mapLock' = None
        /\ cmd' = [cmd EXCEPT ![c] = J] /\ UNCHANGED <<busy, on, late, said, crossed, faults>>
    BY <1>6 DEF Write
  <2>2. Fit(J) /\ J.pc \in Outside
    BY <2>1, UpdatedFit
  <2> HIDE DEF J
  <2>3. K.copy \in Maps /\ K.put \in Store!Entries \cup {None}
    BY <1>1, CmdFields
  <2>4. map' \in Maps
    BY <2>1, <2>3 DEF Maps
  <2>5. QED
    BY <2>1, <2>2, <2>4, RestTypes, Releases
<1>7. QED
  BY <1>2, <1>3, <1>4, <1>5, <1>6

(* The steps of `down` and recall.                                         *)
LEMMA StopStep ==
  ASSUME TInv, NEW c \in Commands, setup' = setup,
         \/ Skips(c) \/ Takes(c) \/ DownEnds(c) \/ PullStarts(c) \/ PullCannot(c) \/ Pulled(c) \/ PullFails(c)
         \/ PullNoAnswer(c) \/ Kill(c) \/ KillUnknown(c) \/ Install(c) \/ InstallFails(c)
  PROVE  TInv'
<1> DEFINE K == cmd[c]
<1>1. /\ K \in CmdType /\ Fit(K) /\ map \in Maps
      /\ K.pc \in {"pull", "pulling", "kill", "install"} => K.p \in Projects /\ K.node \in Nodes
  BY CmdOf DEF Fit
<1>2. CASE Skips(c)
  <2>1. PICK p \in K.todo : cmd' = [cmd EXCEPT ![c].todo = @ \ {p},
                               ![c].still = IF Where(K, p) = AnyNode /\ ~K.unread THEN @ ELSE @ \cup {p}]
    BY <1>2 DEF Skips
  <2> DEFINE still == IF Where(K, p) = AnyNode /\ ~K.unread THEN K.still ELSE K.still \cup {p}
             J == [K EXCEPT !.todo = @ \ {p}, !.still = still]
  <2>2. cmd' = [cmd EXCEPT ![c] = J]
    BY <2>1
  <2>3. K.pc = "next" /\ UNCHANGED <<map, torn, mapLock, busy, on, late, said, crossed, faults>>
    BY <1>2 DEF Skips
  <2>4. K.todo \in SUBSET Projects /\ still \in SUBSET Projects
    BY <1>1, CmdFields
  <2> HIDE DEF still
  <2>5. Fit(J) /\ J.pc = "next"
    BY <1>1, <2>3, <2>4 DEF Fit, CmdType
  <2> HIDE DEF J
  <2>6. QED
    BY <2>2, <2>3, <2>5, RestTypes, Plain DEF Inside
<1>3. CASE Takes(c)
  <2>1. PICK p \in K.todo : /\ Where(K, p) \notin K.lost \cup {AnyNode}
          /\ cmd' = [cmd EXCEPT ![c] = [K EXCEPT !.todo = @ \ {p}, !.p = p, !.node = Where(K, p), !.held = K.seen[p],
                                         !.pulled = FALSE, !.pc = IF K.seen[p] = None THEN "kill" ELSE "pull"]]
    BY <1>3 DEF Takes
  <2> DEFINE pc == IF K.seen[p] = None THEN "kill" ELSE "pull"
             node == Where(K, p)
             held == K.seen[p]
             J == [K EXCEPT !.todo = @ \ {p}, !.p = p, !.node = node, !.held = held, !.pulled = FALSE, !.pc = pc]
  <2>2. cmd' = [cmd EXCEPT ![c] = J]
    BY <2>1
  <2>3. K.pc = "next" /\ UNCHANGED <<map, torn, mapLock, busy, on, late, said, crossed, faults>>
    BY <1>3 DEF Takes
  <2>4. p \in Projects /\ K.todo \in SUBSET Projects /\ K.seen \in Maps
    BY <1>1, CmdFields
  <2>5. held \in Store!Entries \cup {None}
    BY <2>4 DEF Maps
  <2>6. node \in Nodes
    <3>1. setup.pin[p] \in Nodes \cup {AnyNode}
      BY <2>4, SetupTypes DEF TInv, TypeOK
    <3>2. K.seen[p] # None => K.seen[p].nick \in Nodes
      BY <2>4, EntryOf
    <3>3. QED
      BY <2>1, <3>1, <3>2 DEF Where
  <2>7. pc \in {"kill", "pull"}
    OBVIOUS
  <2> HIDE DEF node, held, pc
  <2>8. Fit(J) /\ J.pc = pc
    BY <1>1, <2>4, <2>5, <2>6, <2>7 DEF Fit, CmdType
  <2> HIDE DEF J
  <2>9. QED
    BY <2>2, <2>3, <2>7, <2>8, RestTypes, Plain DEF Inside
<1>4. CASE DownEnds(c) \/ InstallFails(c)
  <2>1. PICK out \in Outs : cmd' = [cmd EXCEPT ![c] = Ended(K, out)]
    BY <1>4 DEF DownEnds, InstallFails, Outs
  <2>2. K.pc \in {"next", "install"} /\ UNCHANGED <<map, torn, mapLock, busy, on, late, said, crossed>> /\ faults' \in Nat
    BY <1>4, RestTypes DEF DownEnds, InstallFails
  <2>3. Fit(Ended(K, out)) /\ Ended(K, out).pc \in Outside
    BY <1>1, EndedFit
  <2>4. QED
    BY <2>1, <2>2, <2>3, RestTypes, Plain DEF Outside, Inside
<1>5. CASE PullStarts(c)
  <2> DEFINE J == [K EXCEPT !.pc = "pulling"]
  <2>1. /\ K.pc = "pull" /\ Pullable(K.p) /\ busy' = [busy EXCEPT ![map[K.p].nick] = c]
        /\ cmd' = [cmd EXCEPT ![c] = J] /\ UNCHANGED <<map, torn, mapLock, on, late, said, crossed, faults>>
    BY <1>5 DEF PullStarts
  <2>2. Fit(J) /\ J.pc = "pulling"
    BY <1>1, <2>1, GoesOnFit DEF Pcs
  <2> HIDE DEF J
  <2>3. map[K.p].nick \in Nodes /\ busy[map[K.p].nick] = None
    BY <1>1, <2>1, EntryOf DEF Pullable
  <2>4. LockMoves(c, J)
    BY <2>1, <2>2, CmdOf DEF LockMoves
  <2>5. BusyMoves(c, J)
    BY <2>1, <2>2, <2>3 DEF BusyMoves, Inside
  <2>6. QED
    BY <2>1, <2>2, <2>4, <2>5, RestTypes, Moves
<1>6. CASE PullCannot(c) \/ PullFails(c)
  <2> DEFINE J == IF Kind(c) = "down" THEN [K EXCEPT !.pc = "kill"] ELSE Ended(K, "failed")
  <2>1. K.pc \in {"pull", "pulling"} /\ cmd' = [cmd EXCEPT ![c] = J]
        /\ UNCHANGED <<map, torn, mapLock, on, late, said, crossed>> /\ faults' \in Nat
    BY <1>6, RestTypes DEF PullCannot, PullFails, NotPulled
  <2>2. Fit(J) /\ J.pc \in Outside
    <3>1. Fit([K EXCEPT !.pc = "kill"]) /\ [K EXCEPT !.pc = "kill"].pc \in Outside
      BY <1>1, <2>1, GoesOnFit, ZenonT(60) DEF Pcs, Outside, Inside
    <3>2. Fit(Ended(K, "failed")) /\ Ended(K, "failed").pc \in Outside
      BY <1>1, EndedFit DEF Outs
    <3>3. QED
      BY <3>1, <3>2
  <2> HIDE DEF J
  <2>3. CASE PullCannot(c)
    <3>1. K.pc = "pull" /\ busy' = busy
      BY <2>3 DEF PullCannot
    <3>2. QED
      BY <2>1, <2>2, <3>1, RestTypes, Plain DEF Outside, Inside
  <2>4. CASE PullFails(c)
    <3>1. K.pc = "pulling" /\ busy' = Freed(c)
      BY <2>4 DEF PullFails
    <3>2. QED
      BY <2>1, <2>2, <3>1, RestTypes, Leaves DEF Inside
  <2>5. QED
    BY <1>6, <2>3, <2>4
<1>7. CASE Pulled(c)
  <2> DEFINE J == [K EXCEPT !.pc = "kill", !.pulled = TRUE]
  <2>1. K.pc = "pulling" /\ busy' = Freed(c) /\ cmd' = [cmd EXCEPT ![c] = J]
        /\ UNCHANGED <<map, torn, mapLock, on, late, said, crossed, faults>>
    BY <1>7 DEF Pulled
  <2>2. Fit(J) /\ J.pc = "kill"
    BY <1>1, <2>1 DEF Fit, CmdType
  <2> HIDE DEF J
  <2>3. QED
    BY <2>1, <2>2, RestTypes, Leaves DEF Inside, Outside, Pcs
<1>8. CASE PullNoAnswer(c)
  <2> DEFINE J == [K EXCEPT !.pc = "install"]
  <2>1. K.pc = "pulling" /\ busy' = Freed(c) /\ said' = Unsure(K.p, K.node) /\ cmd' = [cmd EXCEPT ![c] = J]
        /\ UNCHANGED <<map, torn, mapLock, on, late, crossed>> /\ faults' \in Nat
    BY <1>8, RestTypes DEF PullNoAnswer
  <2>2. Fit(J) /\ J.pc = "install"
    BY <1>1, <2>1, GoesOnFit DEF Pcs
  <2> HIDE DEF J
  <2>3. said' \in SUBSET (Projects \X Nodes \X Whys)
    BY <2>1, SaidType
  <2>4. QED
    BY <2>1, <2>2, <2>3, RestTypes, Leaves DEF Inside, Outside, Pcs
<1>9. CASE Kill(c) \/ KillUnknown(c)
  <2>1. /\ K.pc = "kill" /\ UNCHANGED <<map, torn, mapLock, busy, late, crossed>> /\ faults' \in Nat
        /\ on' \in {on, [on EXCEPT ![K.node] = @ \ {K.p}]} /\ said' \in {said, Unsure(K.p, K.node)}
    BY <1>9, RestTypes DEF Kill, KillUnknown
  <2> DEFINE A == [K EXCEPT !.pc = "install"]
             B(pc, still) == [K EXCEPT !.pc = pc, !.put = None, !.still = still]
             D == [K EXCEPT !.pc = "next", !.still = @ \cup {K.p}, !.lost = @ \cup {K.node}]
  <2>2. Fit(A) /\ A.pc = "install"
    BY <1>1, <2>1, GoesOnFit DEF Pcs
  <2>3. \A pc \in {"lock", "next"}, still \in SUBSET Projects : Fit(B(pc, still)) /\ B(pc, still).pc = pc
    BY <1>1, <2>1 DEF Fit, CmdType
  <2>4. Fit(D) /\ D.pc = "next"
    BY <1>1, <2>1 DEF Fit, CmdType
  <2>5. \E J : cmd' = [cmd EXCEPT ![c] = J] /\ Fit(J) /\ J.pc \in Outside
    <3>1. CASE Kill(c)
      <4> DEFINE there == K.p \in on[K.node]
                 pc == IF K.pulled /\ ~K.stuck THEN "lock" ELSE "next"
                 still == IF ~there /\ K.unread THEN K.still \cup {K.p} ELSE K.still
      <4>1. cmd' = [cmd EXCEPT ![c] = Killed(c, K, there)]
        BY <3>1 DEF Kill
      <4>2. Killed(c, K, there) = A \/ Killed(c, K, there) = B(pc, still)
        BY DEF Killed
      <4>3. pc \in {"lock", "next"} /\ still \in SUBSET Projects
        BY <1>1, <2>1, CmdFields
      <4> HIDE DEF A, B, there, pc, still
      <4>4. Fit(Killed(c, K, there)) /\ Killed(c, K, there).pc \in Outside
        BY <2>2, <2>3, <4>2, <4>3 DEF Outside, Inside, Pcs
      <4>5. QED
        BY <4>1, <4>4
    <3>2. CASE KillUnknown(c)
      <4>1. cmd' = [cmd EXCEPT ![c] = D] \/ cmd' = [cmd EXCEPT ![c] = A]
        BY <3>2 DEF KillUnknown
      <4> HIDE DEF A, D
      <4>2. QED
        BY <2>2, <2>4, <4>1 DEF Outside, Inside, Pcs
    <3>3. QED
      BY <1>9, <3>1, <3>2
  <2>6. PICK J : cmd' = [cmd EXCEPT ![c] = J] /\ Fit(J) /\ J.pc \in Outside
    BY <2>5
  <2>7. on' \in [Nodes -> SUBSET Projects]
    BY <2>1, RestTypes
  <2>8. said' \in SUBSET (Projects \X Nodes \X Whys)
    BY <2>1, SaidType
  <2>9. LockMoves(c, J) /\ BusyMoves(c, J)
    BY <2>1, <2>6, CmdOf DEF LockMoves, BusyMoves, Outside, Inside
  <2>10. QED
    BY <2>1, <2>6, <2>7, <2>8, <2>9, RestTypes, Moves
<1>10. CASE Install(c)
  <2> DEFINE J == [K EXCEPT !.pc = "lock", !.put = None]
  <2>1. K.pc = "install" /\ cmd' = [cmd EXCEPT ![c] = J]
        /\ UNCHANGED <<map, torn, mapLock, busy, on, late, said, crossed, faults>>
    BY <1>10 DEF Install
  <2>2. Fit(J) /\ J.pc = "lock"
    <3>1. Fit(K) /\ K.pc \notin {"ready", "next", "done"} /\ "lock" \in Pcs
      BY <1>1, <2>1 DEF Pcs
    <3> HIDE DEF K
    <3>2. QED
      BY <3>1, GoesOnWith, Zenon
  <2> HIDE DEF J
  <2>3. QED
    BY <2>1, <2>2, RestTypes, Plain DEF Inside
<1>11. QED
  BY <1>2, <1>3, <1>4, <1>5, <1>6, <1>7, <1>8, <1>9, <1>10

(* A command is interrupted.                                               *)
LEMMA DiesStep ==
  ASSUME TInv, NEW c \in Commands, setup' = setup, Dies(c)
  PROVE  TInv'
<1> DEFINE K == cmd[c]
           J == Ended(K, "died")
<1>1. /\ K \in CmdType /\ K.pc \notin {"ready", "done"} /\ cmd' = [cmd EXCEPT ![c] = J]
      /\ busy' = Freed(c) /\ mapLock' = (IF mapLock = c THEN None ELSE mapLock)
      /\ UNCHANGED <<map, torn, on, crossed>> /\ faults' \in Nat
      /\ late' = IF K.pc = "bring" THEN late \cup {<<K.p, K.node>>} ELSE late
      /\ said' = IF Started(K) THEN Unsure(K.p, K.node) ELSE said
  BY CmdOf, RestTypes DEF Dies, Active
<1>2. Fit(J) /\ J.pc \in Outside
  BY <1>1, EndedFit DEF Outs
<1>3. K.pc \notin {"ready", "next", "done"} => K.p \in Projects /\ K.node \in Nodes
  BY CmdOf DEF Fit
<1>4. late' \in SUBSET (Projects \X Nodes)
  BY <1>1, <1>3, RestTypes
<1>5. said' \in SUBSET (Projects \X Nodes \X Whys)
  BY <1>1, SaidType, RestTypes DEF Started
<1> HIDE DEF J
<1>6. LockMoves(c, J) /\ BusyMoves(c, J)
  BY <1>1, <1>2 DEF LockMoves, BusyMoves, Outside
<1>7. QED
  BY <1>1, <1>2, <1>4, <1>5, <1>6, RestTypes, Moves

(* The world's steps.                                                      *)
LEMMA WorldStep ==
  ASSUME TInv, setup' = setup, World
  PROVE  TInv'
<1>1. CASE StartsLate
  <2>1. PICK l \in late : /\ on' = [on EXCEPT ![l[2]] = @ \cup {l[1]}] /\ late' = late \ {l}
                         /\ UNCHANGED <<map, torn, mapLock, busy, said, cmd, crossed, faults>>
    BY <1>1 DEF StartsLate
  <2>2. l[1] \in Projects /\ l[2] \in Nodes
    BY RestTypes
  <2>3. on' \in [Nodes -> SUBSET Projects] /\ late' \in SUBSET (Projects \X Nodes)
    BY <2>1, <2>2, RestTypes
  <2>4. QED
    BY <2>1, <2>3 DEF TInv, TypeOK
<1>2. CASE Tear
  <2>1. torn' \in BOOLEAN /\ faults' \in Nat /\ UNCHANGED <<map, mapLock, busy, on, late, said, cmd, crossed>>
    BY <1>2, RestTypes DEF Tear
  <2>2. QED
    BY <2>1 DEF TInv, TypeOK
<1>3. ASSUME NEW n \in Nodes, TickStarts(n) \/ TickEnds(n) PROVE TInv'
  <2>1. UNCHANGED <<map, torn, mapLock, on, late, said, cmd, crossed, faults>>
    BY <1>3 DEF TickStarts, TickEnds
  <2>2. busy' \in [Nodes -> Commands \cup {Sync, None}]
    BY <1>3 DEF TickStarts, TickEnds, TInv, TypeOK
  <2>3. \A d \in Commands, m \in Nodes : busy'[m] = d <=> busy[m] = d
    BY <1>3 DEF TickStarts, TickEnds, TInv, TypeOK
  <2>4. \A d \in Commands : (\E m \in Nodes : busy'[m] = d) <=> cmd[d].pc \in {"bring", "pulling"}
    BY <2>3 DEF TInv, TypeOK
  <2>5. QED
    BY <2>1, <2>2, <2>4 DEF TInv, TypeOK
<1>4. QED
  BY <1>1, <1>2, <1>3 DEF World

LEMMA TypeStep == TInv /\ [Next]_allvars => TInv'
<1> SUFFICES ASSUME TInv, [Next]_allvars PROVE TInv'
  OBVIOUS
<1>1. CASE Next
  <2>1. setup' = setup
    BY <1>1 DEF Next
  <2>2. ASSUME NEW c \in Commands, Start(c) PROVE TInv'
    BY <2>1, <2>2, StartStep
  <2>3. ASSUME NEW c \in Commands, Step(c) PROVE TInv'
    BY <2>1, <2>3, BringStep, UpdateStep, StopStep DEF Step
  <2>4. ASSUME NEW c \in Commands, Breaks(c) PROVE TInv'
    BY <2>1, <2>4, BringStep, UpdateStep, StopStep, DiesStep DEF Breaks
  <2>5. QED
    BY <1>1, <2>1, <2>2, <2>3, <2>4, WorldStep DEF Next
<1>2. CASE UNCHANGED allvars
  BY <1>2 DEF allvars, vars, TInv, TypeOK
<1>3. QED
  BY <1>1, <1>2

-----------------------------------------------------------------------------
(* What a command in update_node_map read is still what the map is.        *)
Copied == \A c \in Commands : cmd[c].pc = "write" => cmd[c].copy = map

(* A step of c other than into and out of update_node_map: the map stays,  *)
(* and so do the other commands, and c has not got the lock.               *)
Aside(c) == /\ map' = map /\ mapLock' # c
            /\ \A d \in Commands \ {c} : cmd'[d] = cmd[d]

LEMMA StartsAside ==
  ASSUME TInv, NEW c \in Commands, Start(c)
  PROVE  Aside(c)
<1>1. cmd \in [Commands -> CmdType] /\ ((mapLock = c) <=> cmd[c].pc \in {"read", "write"})
  BY DEF TInv, TypeOK
<1>2. CASE Place(c) \/ PlaceRefused(c)
  BY <1>1, <1>2 DEF Place, PlaceRefused, Starts, Aside
<1>3. CASE DownReads(c) \/ RecallReads(c) \/ RecallRefused(c)
  BY <1>1, <1>3 DEF DownReads, RecallReads, RecallRefused, Starts, Aside
<1>4. QED
  BY <1>2, <1>3 DEF Start

LEMMA GoesAside ==
  ASSUME TInv, NEW c \in Commands, Step(c) \/ Breaks(c), ~Lock(c), ~Read(c), ~Write(c)
  PROVE  Aside(c)
<1>1. cmd \in [Commands -> CmdType] /\ ((mapLock = c) <=> cmd[c].pc \in {"read", "write"}) /\ c # None
  BY DEF TInv, TypeOK
<1>2. CASE DirtyAttached(c) \/ DirtyRefused(c) \/ DirtyUnknown(c) \/ Dial(c) \/ NodeBusy(c)
  BY <1>1, <1>2 DEF DirtyAttached, DirtyRefused, DirtyUnknown, Attachable, Dial, NodeBusy, Aside
<1>3. CASE BringUp(c) \/ BringUpFails(c) \/ BringUpLost(c)
  BY <1>1, <1>3 DEF BringUp, BringUpFails, BringUpLost, Aside
<1>4. CASE LockHeld(c) \/ ReadOther(c) \/ ReadTorn(c) \/ WriteFails(c)
  BY <1>1, <1>4 DEF LockHeld, ReadOther, ReadTorn, WriteFails, Fails, Aside
<1>5. CASE Skips(c) \/ Takes(c) \/ DownEnds(c)
  BY <1>1, <1>5 DEF Skips, Takes, DownEnds, Aside
<1>6. CASE PullStarts(c) \/ PullCannot(c) \/ Pulled(c) \/ PullFails(c) \/ PullNoAnswer(c)
  BY <1>1, <1>6 DEF PullStarts, PullCannot, Pulled, PullFails, PullNoAnswer, NotPulled, Aside
<1>7. CASE Kill(c) \/ KillUnknown(c)
  BY <1>1, <1>7 DEF Kill, KillUnknown, Aside
<1>8. CASE Install(c) \/ InstallFails(c)
  BY <1>1, <1>8 DEF Install, InstallFails, Aside
<1>9. CASE Dies(c)
  BY <1>1, <1>9 DEF Dies, Aside
<1>10. QED
  BY <1>2, <1>3, <1>4, <1>5, <1>6, <1>7, <1>8, <1>9 DEF Step, Breaks

LEMMA CopyStep == TInv /\ TInv' /\ Copied /\ [Next]_allvars => Copied'
<1> SUFFICES ASSUME TInv, TInv', Copied, [Next]_allvars,
                    NEW d \in Commands, cmd'[d].pc = "write"
             PROVE  cmd'[d].copy = map'
  BY DEF Copied
<1>1. cmd \in [Commands -> CmdType] /\ ((mapLock = d) <=> cmd[d].pc \in {"read", "write"})
  BY DEF TInv, TypeOK
<1>2. mapLock' = d
  BY DEF TInv, TypeOK
<1>3. CASE cmd'[d] = cmd[d] /\ map' = map
  BY <1>3 DEF Copied
<1>4. ASSUME NEW c \in Commands, Aside(c) PROVE cmd'[d].copy = map'
  BY <1>2, <1>3, <1>4 DEF Aside
<1>5. ASSUME NEW c \in Commands, Lock(c) \/ Read(c) \/ Write(c) PROVE cmd'[d].copy = map'
  <2>1. cmd[c] \in CmdType
    BY <1>1
  <2>2. CASE Lock(c)
    <3>1. mapLock' = c /\ cmd'[c].pc = "read"
      BY <1>1, <2>1, <2>2 DEF Lock, CmdType
    <3>2. QED
      BY <1>2, <3>1
  <2>3. CASE Write(c)
    BY <1>2, <2>3 DEF Write, TInv, TypeOK
  <2>4. CASE Read(c)
    <3> DEFINE J == [cmd[c] EXCEPT !.pc = "write", !.copy = map]
    <3>1. cmd' = [cmd EXCEPT ![c] = J] /\ map' = map
      BY <2>4 DEF Read
    <3>2. map \in Maps
      BY CmdOf
    <3>3. J.copy = map
      BY <2>1 DEF CmdType
    <3> HIDE DEF J
    <3>4. QED
      BY <1>1, <1>3, <3>1, <3>3
  <2>5. QED
    BY <1>5, <2>2, <2>3, <2>4
<1>6. CASE World \/ UNCHANGED allvars
  <2>1. cmd' = cmd /\ map' = map
    BY <1>6 DEF World, StartsLate, Tear, TickStarts, TickEnds, allvars, vars
  <2>2. QED
    BY <1>3, <2>1
<1>7. QED
  BY <1>4, <1>5, <1>6, StartsAside, GoesAside DEF Next

-----------------------------------------------------------------------------
LEMMA InitTypes == Init => TInv /\ Copied
<1> SUFFICES ASSUME Init PROVE TInv /\ Copied
  OBVIOUS
<1>1. Ready \in CmdType /\ Ready.pc = "ready"
  BY DEF Ready, CmdType, Blank
<1>2. cmd = [c \in Commands |-> Ready]
  BY DEF Init
<1>3. \A c \in Commands : cmd[c] \in CmdType /\ cmd[c].pc = "ready" /\ Fit(cmd[c])
  BY <1>1, <1>2 DEF Fit
<1>4. setup \in Setups /\ \A p \in Projects : setup.at[p] \in Nodes \cup {None}
  BY SetupTypes DEF Init
<1>5. map \in Maps
  BY <1>4 DEF Init, Maps, Store!Entries
<1>6. on \in [Nodes -> SUBSET Projects]
  BY DEF Init
<1>7. \A c \in Commands : mapLock # c /\ \A n \in Nodes : busy[n] # c
  BY DEF Init
<1>8. /\ torn \in BOOLEAN /\ mapLock \in Commands \cup {None} /\ busy \in [Nodes -> Commands \cup {Sync, None}]
      /\ late \subseteq Projects \X Nodes /\ said \subseteq Projects \X Nodes \X Whys
      /\ cmd \in [Commands -> CmdType] /\ crossed \subseteq Commands /\ faults \in Nat
  BY <1>1 DEF Init
<1>9. TypeOK
  BY <1>3, <1>4, <1>5, <1>6, <1>7, <1>8 DEF TypeOK, Maps
<1>10. QED
  BY <1>3, <1>9 DEF TInv, Copied

(* The types, and who holds which lock: the map's is held by the command   *)
(* inside update_node_map, a node's by the one that brings up or pulls     *)
(* there, each by one command and by no command that has ended.            *)
THEOREM Types == Spec => []TypeOK
<1>1. TInv => TypeOK
  BY DEF TInv
<1>2. QED
  BY <1>1, InitTypes, TypeStep, PTL DEF Spec

(* Whatever `up`, `down` and recall do at once, update_node_map changes    *)
(* one entry of the node map at a time, and loses none of the others': the *)
(* file, its lock and the failures of both implement PlacementMap.         *)
THEOREM MapIsAtomic == Spec => OneEntryAtATime
<1>1. Init => Store!Init
  <2> SUFFICES ASSUME Init PROVE map \in Maps
    BY DEF Store!Init, Maps
  <2>1. QED
    BY InitTypes DEF TInv, TypeOK, Maps
<1>2. TInv /\ Copied /\ [Next]_allvars => [Store!Next]_map
  <2> SUFFICES ASSUME TInv, Copied, [Next]_allvars PROVE [Store!Next]_map
    OBVIOUS
  <2>1. ASSUME NEW c \in Commands, Aside(c) \/ Lock(c) \/ Read(c) PROVE map' = map
    BY <2>1 DEF Aside, Lock, Read
  <2>2. ASSUME NEW c \in Commands, Write(c) PROVE Store!Next
    <3>1. cmd[c] \in CmdType /\ cmd[c].pc = "write" /\ map' = [cmd[c].copy EXCEPT ![cmd[c].p] = cmd[c].put]
      BY <2>2, CmdOf DEF Write
    <3>2. cmd[c].p \in Projects /\ cmd[c].put \in Store!Entries \cup {None} /\ cmd[c].copy = map
      BY <3>1, CmdOf, CmdFields DEF Fit, Copied
    <3>3. Store!Set(cmd[c].p, cmd[c].put)
      BY <3>1, <3>2 DEF Store!Set
    <3>4. QED
      BY <3>2, <3>3 DEF Store!Next
  <2>3. CASE World \/ UNCHANGED allvars
    BY <2>3 DEF World, StartsLate, Tear, TickStarts, TickEnds, allvars, vars
  <2>4. QED
    BY <2>1, <2>2, <2>3, StartsAside, GoesAside DEF Next
<1>3. QED
  BY <1>1, <1>2, InitTypes, TypeStep, CopyStep, PTL DEF Spec, Store!Spec, OneEntryAtATime

-----------------------------------------------------------------------------
\* The setups the theorem is about: commands that start a session of one project do not overlap, and `up` takes none that is
\* placed elsewhere than where it is pinned.
PinFits(p) == setup.at[p] = None \/ setup.pin[p] \in {AnyNode, setup.at[p]}
InOrder ==
  /\ "overlap" \notin setup.liberty
  /\ \A c \in Commands : Kind(c) = "up" => \A p \in Scope(c) : PinFits(p)

\* A session that is in nothing but the hands of the command that started it.
Owed(p, n) == \E c \in Commands :
  /\ Kind(c) # "down" /\ cmd[c].pc \in {"lock", "read", "write"} /\ cmd[c].put # None
  /\ cmd[c].p = p /\ cmd[c].node = n
Accounts == \A p \in Projects, n \in Nodes : p \in on[n] => At(p, n) \/ Doubted(p, n) \/ Owed(p, n)
LateIsTold == \A p \in Projects, n \in Nodes : <<p, n>> \in late => Doubted(p, n)
PinsHold == \A p \in Projects :
  /\ PinFits(p) /\ setup.pin[p] # AnyNode => map[p] = None \/ map[p].nick = setup.pin[p]
  /\ ~PinFits(p) => \A n \in Nodes : (p \in on[n] => n = setup.at[p]) /\ <<p, n>> \notin late
\* An entry is its writer's own: nobody has seen one of a command that is still to write it.
Unseen == \A c \in Commands : cmd[c].pc # "done" =>
  /\ \A p \in Projects : map[p] # None => map[p].by # c
  /\ \A d \in Commands : /\ cmd[d].held # None => cmd[d].held.by # c
                         /\ \A p \in Projects : cmd[d].seen[p] # None => cmd[d].seen[p].by # c
Apart == \A c, d \in Commands : c # d /\ Active(c) /\ Active(d) /\ Scope(c) \cap Scope(d) # {} =>
  c \in crossed /\ (Kind(c) = "down" \/ Kind(d) = "down")

Fresh == \A c \in Commands : cmd[c].pc = "ready" => cmd[c] = Ready

\* A command that brings a project up, or moves it.
Placing(c) == LET K == cmd[c] IN Kind(c) # "down" /\ Active(c) =>
  /\ K.p \in Scope(c) /\ K.pc # "next"
  /\ \A n \in Nodes \ {K.node} : K.p \in on[n] => Doubted(K.p, n)
  /\ K.put = None /\ K.pc \in {"install", "lock", "read", "write"} => (K.p \in on[K.node] => Doubted(K.p, K.node))
  /\ K.put # None => K.put = [nick |-> K.node, by |-> c] /\ K.pc \in {"lock", "read", "write"}
  /\ Kind(c) = "up" => K.pc \in {"dial", "bring"} \/ K.put # None
  /\ Kind(c) = "local" => K.put = None /\ K.pc \notin {"dial", "bring"}
  /\ Kind(c) = "to" => setup.pin[K.p] = AnyNode
  /\ K.pc \in {"dial", "bring"} \/ K.put # None => PinFits(K.p) /\ setup.pin[K.p] \in {AnyNode, K.node}
  /\ c \notin crossed => (K.put # None => K.p \in on[K.node]) /\ (Kind(c) = "local" => map[K.p] = K.held)

\* What `down` has still to look at.
Pending(K, p) == p \in K.todo \/ (p = K.p /\ K.pc \in {"pull", "pulling", "kill"})
Stopping(c) == LET K == cmd[c] IN Kind(c) = "down" /\ Active(c) =>
  /\ K.pc \in {"next", "pull", "pulling", "kill", "lock", "read", "write"} /\ K.todo \subseteq Scope(c)
  /\ K.pc # "next" => K.p \in Scope(c) \ K.todo
  /\ K.pc \in {"pull", "pulling", "lock", "read", "write"} \/ (K.pc = "kill" /\ K.pulled) => K.held # None /\ K.node = K.held.nick
  /\ K.pc \in {"lock", "read", "write"} =>
       K.put = None /\ (K.p \in on[K.node] /\ map[K.p] = K.held => Doubted(K.p, K.node) \/ Owed(K.p, K.node))
  /\ K.pc = "write" => map[K.p] = K.held
  /\ c \notin crossed => \A p \in Scope(c) :
       /\ Pending(K, p) => K.seen[p] = (IF K.unread THEN None ELSE map[p])
       /\ Pending(K, p) /\ p \notin K.todo => K.node = Where(K, p)
       /\ ~Pending(K, p) => \A n \in Nodes : p \in on[n] => p \in K.still \/ Doubted(p, n)

PlacementIInv ==
  /\ TInv /\ Copied /\ InOrder
  /\ Accounts /\ LateIsTold /\ PinsHold /\ Unseen /\ Apart /\ Fresh
  /\ \A c \in Commands : Placing(c) /\ Stopping(c)

\* What the user has been told by the end of a step.
Told(p, n) == \E why \in Whys : <<p, n, why>> \in said'

\* What a step of c that writes no entry keeps of the rest: see OneGoes.
OwesOn(c) == Kind(c) # "down" /\ cmd[c].pc \in {"lock", "read", "write"} /\ cmd[c].put # None =>
  \/ Told(cmd[c].p, cmd[c].node)
  \/ /\ cmd'[c].pc \in {"lock", "read", "write"} /\ cmd'[c].put # None
     /\ cmd'[c].p = cmd[c].p /\ cmd'[c].node = cmd[c].node
SeesNoMore(c) == \A e : e # None =>
  /\ cmd'[c].held = e => e = cmd[c].held \/ \E p \in Projects : e \in {map[p], cmd[c].seen[p]}
  /\ \A p \in Projects : cmd'[c].seen[p] = e => e \in {map[p], cmd[c].seen[p]}
OnlyStarts(c) == \A p \in Projects, n \in Nodes : p \in on'[n] =>
  p \in on[n] \/ (p \in Scope(c) /\ Active(c) /\ Kind(c) # "down" /\ PinFits(p) /\ Owed(p, n)')
OnlyStops(c) == \A p \in Projects, n \in Nodes : p \in on[n] => p \in on'[n] \/ (p \in Scope(c) /\ Active(c))
OnlyAdds ==
  /\ crossed \subseteq crossed' /\ said \subseteq said'
  /\ \A p \in Projects, n \in Nodes : <<p, n>> \in late' => <<p, n>> \in late \/ (Told(p, n) /\ PinFits(p))

\* The setup stays, and what is read of it.
LEMMA SetupStays ==
  ASSUME setup' = setup
  PROVE  /\ \A c \in Commands : Kind(c)' = Kind(c) /\ Scope(c)' = Scope(c)
         /\ \A p \in Projects : PinFits(p)' = PinFits(p)
         /\ InOrder' = InOrder
BY DEF Kind, Scope, PinFits, InOrder

\* What the user was told stays.
LEMMA DoubtsStay ==
  ASSUME said \subseteq said'
  PROVE  \A p, n : (Doubted(p, n) => Told(p, n)) /\ (Doubted(p, n)' <=> Told(p, n))
BY DEF Doubted, Told

\* The types of what the invariant is about.
LEMMA PlacementTypes ==
  ASSUME TInv
  PROVE  /\ \A c \in Commands : /\ cmd[c] \in CmdType /\ cmd[c].todo \subseteq Projects /\ Scope(c) \subseteq Projects
                                /\ Active(c) /\ cmd[c].pc # "next" => cmd[c].p \in Projects /\ cmd[c].node \in Nodes
         /\ map \in Maps /\ None \notin Nodes /\ AnyNode \notin Nodes
<1>1. \A c \in Commands : Fit(cmd[c]) /\ cmd[c] \in CmdType  BY DEF TInv, Fit
<1>2. \A c \in Commands : cmd[c].todo \subseteq Projects  BY <1>1, CmdFields
<1>3. \A c \in Commands : Scope(c) \subseteq Projects  BY SetupTypes DEF TInv, TypeOK
<1> QED BY <1>1, <1>2, <1>3, NamesAssumption DEF Fit, Active, TInv, TypeOK, Maps

\* The commands that stand by while c makes a step that writes no entry.
LEMMA OthersPlacing ==
  ASSUME PlacementIInv, NEW c \in Commands, NEW d \in Commands \ {c}, setup' = setup, map' = map,
         cmd'[d] = cmd[d], OnlyAdds, OnlyStarts(c), OnlyStops(c)
  PROVE  Placing(d)'
<1>1. Placing(d) /\ Apart /\ TInv  BY DEF PlacementIInv
<1>2. SUFFICES ASSUME Kind(d) # "down", Active(d)  PROVE Placing(d)'
  BY SetupStays DEF Placing, Active
<1> DEFINE K == cmd[d]
<1>3. K.p \in Projects /\ K.node \in Nodes /\ K.p \in Scope(d) /\ K.pc # "next"
  BY <1>1, <1>2, PlacementTypes DEF Placing
<1>4. K.p \in Scope(c) /\ Active(c) => d \in crossed /\ Kind(c) = "down"
  BY <1>1, <1>2, <1>3 DEF Apart
<1>5. \A n \in Nodes : K.p \in on'[n] => K.p \in on[n]
  BY <1>3, <1>4 DEF OnlyStarts
<1>6. \A n \in Nodes : Doubted(K.p, n) => Told(K.p, n)
  BY DoubtsStay DEF OnlyAdds
<1>7. d \notin crossed' => d \notin crossed /\ (K.put # None /\ K.p \in on[K.node] => K.p \in on'[K.node])
  BY <1>3, <1>4 DEF OnlyAdds, OnlyStops
<1>8. Kind(d)' = Kind(d) /\ Scope(d)' = Scope(d) /\ \A p \in Projects : PinFits(p)' = PinFits(p)
  BY SetupStays
<1>9. \A n \in Nodes \ {K.node} : K.p \in on'[n] => Told(K.p, n)
  BY <1>1, <1>2, <1>5, <1>6 DEF Placing
<1>10. K.put = None /\ K.pc \in {"install", "lock", "read", "write"} => (K.p \in on'[K.node] => Told(K.p, K.node))
  BY <1>1, <1>2, <1>3, <1>5, <1>6 DEF Placing
<1>11. K.pc \in {"dial", "bring"} \/ K.put # None => PinFits(K.p) /\ setup'.pin[K.p] \in {AnyNode, K.node}
  BY <1>1, <1>2, <1>8 DEF Placing
<1>12. d \notin crossed' => (K.put # None => K.p \in on'[K.node]) /\ (Kind(d) = "local" => map'[K.p] = K.held)
  BY <1>1, <1>2, <1>7 DEF Placing
<1>13. /\ K.put # None => K.put = [nick |-> K.node, by |-> d] /\ K.pc \in {"lock", "read", "write"}
       /\ Kind(d) = "up" => K.pc \in {"dial", "bring"} \/ K.put # None
       /\ Kind(d) = "local" => K.put = None /\ K.pc \notin {"dial", "bring"}
       /\ Kind(d) = "to" => setup.pin[K.p] = AnyNode
  BY <1>1, <1>2 DEF Placing
<1>14. cmd'[d] = cmd[d] /\ (Active(d)' <=> Active(d))  BY DEF Active
<1>15. \A p, n : Doubted(p, n)' <=> Told(p, n)  BY DoubtsStay DEF OnlyAdds
<1> QED BY <1>3, <1>8, <1>9, <1>10, <1>11, <1>12, <1>13, <1>14, <1>15 DEF Placing

\* What the others owe they still owe.
LEMMA OwedStays ==
  ASSUME NEW c \in Commands, setup' = setup, \A d \in Commands \ {c} : cmd'[d] = cmd[d], OwesOn(c)
  PROVE  \A p, n : Owed(p, n) => Owed(p, n)' \/ Told(p, n)
<1>1. SUFFICES ASSUME NEW p, NEW n, NEW d \in Commands, Kind(d) # "down", cmd[d].pc \in {"lock", "read", "write"},
                      cmd[d].put # None, cmd[d].p = p, cmd[d].node = n
               PROVE  Owed(p, n)' \/ Told(p, n)
  BY DEF Owed
<1>2. Kind(d)' = Kind(d)  BY SetupStays
<1>3. CASE d # c  BY <1>1, <1>2, <1>3 DEF Owed
<1>4. CASE d = c  BY <1>1, <1>2, <1>4 DEF Owed, OwesOn
<1> QED BY <1>3, <1>4

\* ... as it keeps what is so of a bring-up or a move, so of a `down`.
LEMMA OthersStopping ==
  ASSUME PlacementIInv, NEW c \in Commands, NEW d \in Commands \ {c}, setup' = setup, map' = map,
         \A e \in Commands \ {c} : cmd'[e] = cmd[e], OwesOn(c), OnlyAdds, OnlyStarts(c)
  PROVE  Stopping(d)'
<1>1. Stopping(d) /\ Apart /\ TInv  BY DEF PlacementIInv
<1>2. SUFFICES ASSUME Kind(d) = "down", Active(d)  PROVE Stopping(d)'
  BY SetupStays DEF Stopping, Active
<1> DEFINE K == cmd[d]
<1>3. /\ K.pc # "next" => K.p \in Projects /\ K.node \in Nodes /\ K.p \in Scope(d) \ K.todo
      /\ Scope(d) \subseteq Projects /\ K.todo \subseteq Scope(d)
      /\ K.pc \in {"next", "pull", "pulling", "kill", "lock", "read", "write"}
  BY <1>1, <1>2, PlacementTypes DEF Stopping
<1>4. \A p \in Scope(c) \cap Scope(d) : Active(c) => d \in crossed
  BY <1>1, <1>2 DEF Apart
<1>5. \A p, n : (Doubted(p, n) => Told(p, n)) /\ (Doubted(p, n)' <=> Told(p, n))
  BY DoubtsStay DEF OnlyAdds
<1>6. \A p, n : Owed(p, n) => Owed(p, n)' \/ Told(p, n)
  BY OwedStays
<1>7. Kind(d)' = Kind(d) /\ Scope(d)' = Scope(d) /\ cmd'[d] = cmd[d] /\ (Active(d)' <=> Active(d))
  BY SetupStays DEF Active
<1>8. K.pc \in {"lock", "read", "write"} =>
        K.put = None /\ (\A p \in Projects, n \in Nodes : p = K.p /\ n = K.node /\ p \in on'[n] /\ map'[p] = K.held => Told(p, n) \/ Owed(p, n)')
  BY <1>1, <1>2, <1>3, <1>5, <1>6 DEF Stopping, OnlyStarts
<1>9. ASSUME d \notin crossed', NEW p \in Scope(d)
      PROVE  /\ Pending(K, p) => K.seen[p] = (IF K.unread THEN None ELSE map'[p])
             /\ Pending(K, p) /\ p \notin K.todo => K.node = Where(K, p)
             /\ ~Pending(K, p) => \A n \in Nodes : p \in on'[n] => p \in K.still \/ Told(p, n)
  <2>1. d \notin crossed /\ p \in Projects  BY <1>3, <1>9 DEF OnlyAdds
  <2>2. \A n \in Nodes : p \in on'[n] => p \in on[n]  BY <1>4, <1>9, <2>1 DEF OnlyStarts
  <2> QED BY <1>1, <1>2, <1>5, <1>9, <2>1, <2>2 DEF Stopping
<1>10. /\ K.pc \in {"pull", "pulling", "lock", "read", "write"} \/ (K.pc = "kill" /\ K.pulled) => K.held # None /\ K.node = K.held.nick
       /\ K.pc = "write" => map'[K.p] = K.held
  BY <1>1, <1>2 DEF Stopping
<1>11. \A p : (Pending(cmd[d], p)' <=> Pending(K, p)) /\ Where(cmd[d], p)' = Where(K, p)
  BY <1>7 DEF Pending, Where
<1>12. K.pc \in {"lock", "read", "write"} =>
         (cmd'[d].p \in on'[cmd'[d].node] /\ map'[cmd'[d].p] = cmd'[d].held => Doubted(cmd[d].p, cmd[d].node)' \/ Owed(cmd[d].p, cmd[d].node)')
  <2>1. \A p \in Projects, n \in Nodes : p = cmd'[d].p /\ n = cmd'[d].node /\ Told(p, n) => Doubted(cmd[d].p, cmd[d].node)'
    BY <1>5 DEF Doubted, Told
  <2>2. \A p \in Projects, n \in Nodes : p = cmd'[d].p /\ n = cmd'[d].node /\ Owed(p, n)' => Owed(cmd[d].p, cmd[d].node)'
    BY DEF Owed
  <2> QED BY <1>3, <1>7, <1>8, <2>1, <2>2
<1> QED BY <1>3, <1>5, <1>7, <1>8, <1>9, <1>10, <1>11, <1>12 DEF Stopping

\* What c must be after its step, as the record J.
PlacesAs(c, J) == Kind(c) # "down" /\ J.pc \notin {"ready", "done"} =>
  /\ J.p \in Scope(c) /\ J.pc # "next"
  /\ \A n \in Nodes \ {J.node} : J.p \in on'[n] => Told(J.p, n)
  /\ J.put = None /\ J.pc \in {"install", "lock", "read", "write"} => (J.p \in on'[J.node] => Told(J.p, J.node))
  /\ J.put # None => J.put = [nick |-> J.node, by |-> c] /\ J.pc \in {"lock", "read", "write"}
  /\ Kind(c) = "up" => J.pc \in {"dial", "bring"} \/ J.put # None
  /\ Kind(c) = "local" => J.put = None /\ J.pc \notin {"dial", "bring"}
  /\ Kind(c) = "to" => setup.pin[J.p] = AnyNode
  /\ J.pc \in {"dial", "bring"} \/ J.put # None => PinFits(J.p) /\ setup.pin[J.p] \in {AnyNode, J.node}
  /\ c \notin crossed' => (J.put # None => J.p \in on'[J.node]) /\ (Kind(c) = "local" => map'[J.p] = J.held)

StopsAs(c, J) == Kind(c) = "down" /\ J.pc \notin {"ready", "done"} =>
  /\ J.pc \in {"next", "pull", "pulling", "kill", "lock", "read", "write"} /\ J.todo \subseteq Scope(c)
  /\ J.pc # "next" => J.p \in Scope(c) \ J.todo
  /\ J.pc \in {"pull", "pulling", "lock", "read", "write"} \/ (J.pc = "kill" /\ J.pulled) => J.held # None /\ J.node = J.held.nick
  /\ J.pc \in {"lock", "read", "write"} => J.put = None /\ (J.p \in on'[J.node] /\ map'[J.p] = J.held => Told(J.p, J.node) \/ Owed(J.p, J.node))
  /\ J.pc = "write" => map'[J.p] = J.held
  /\ c \notin crossed' => \A p \in Scope(c) :
       /\ Pending(J, p) => J.seen[p] = (IF J.unread THEN None ELSE map'[p])
       /\ Pending(J, p) /\ p \notin J.todo => J.node = Where(J, p)
       /\ ~Pending(J, p) => \A n \in Nodes : p \in on'[n] => p \in J.still \/ Told(p, n)

\* What c is after its step, as it is seen from the next state: a bring-up or a move,
LEMMA PlacesSo ==
  ASSUME TInv, NEW c \in Commands, setup' = setup, said \subseteq said', PlacesAs(c, cmd'[c])
  PROVE  Placing(c)'
<1>1. Kind(c)' = Kind(c) /\ Scope(c)' = Scope(c) /\ Scope(c) \subseteq Projects /\ \A p \in Projects : PinFits(p)' = PinFits(p)
  BY SetupStays, PlacementTypes
<1>2. \A p, n : Doubted(p, n)' <=> Told(p, n)  BY DoubtsStay
<1>3. Active(c)' <=> cmd'[c].pc \notin {"ready", "done"}  BY DEF Active
<1> QED BY <1>1, <1>2, <1>3 DEF PlacesAs, Placing

\* ... or a `down`.
LEMMA StopsSo ==
  ASSUME TInv, TInv', NEW c \in Commands, setup' = setup, said \subseteq said', \A d \in Commands \ {c} : cmd'[d] = cmd[d], OwesOn(c),
         StopsAs(c, cmd'[c])
  PROVE  Stopping(c)'
<1> DEFINE J == cmd'[c]
<1>1. Kind(c)' = Kind(c) /\ Scope(c)' = Scope(c) /\ Scope(c) \subseteq Projects
  BY SetupStays, PlacementTypes
<1>2. \A p, n : Doubted(p, n)' <=> Told(p, n)  BY DoubtsStay
<1>3. Active(c)' <=> J.pc \notin {"ready", "done"}  BY DEF Active
<1>4. \A p, n : Owed(p, n) => Owed(p, n)' \/ Told(p, n)  BY OwedStays
<1>5. SUFFICES ASSUME Kind(c) = "down", J.pc \notin {"ready", "done"}  PROVE Stopping(c)'
  BY <1>1, <1>3 DEF Stopping
<1>6. ASSUME J.pc \in {"lock", "read", "write"}, J.p \in on'[J.node], map'[J.p] = J.held
      PROVE  Doubted(cmd[c].p, cmd[c].node)' \/ Owed(cmd[c].p, cmd[c].node)'
  <2>1. Told(J.p, J.node) \/ Owed(J.p, J.node)  BY <1>5, <1>6 DEF StopsAs
  <2>2. ASSUME NEW p, NEW n, p = J.p, n = J.node, Told(p, n) \/ Owed(p, n)
        PROVE  Doubted(cmd[c].p, cmd[c].node)' \/ Owed(cmd[c].p, cmd[c].node)'
    <3>1. Told(p, n) \/ Owed(p, n)'  BY <1>4, <2>2
    <3> QED BY <2>2, <3>1 DEF Told, Doubted, Owed
  <2> QED BY <2>1, <2>2
<1>7. \A p : (Pending(cmd[c], p)' <=> Pending(J, p)) /\ Where(cmd[c], p)' = Where(J, p)
  <2>1. \A p : Where(cmd[c], p)' = (IF J.seen[p] # None THEN J.seen[p].nick ELSE setup'.pin[p])  BY DEF Where
  <2> QED BY <2>1 DEF Pending, Where
<1>8. /\ J.pc \in {"next", "pull", "pulling", "kill", "lock", "read", "write"} /\ J.todo \subseteq Scope(c)
      /\ J.pc # "next" => J.p \in Scope(c) \ J.todo
      /\ J.pc \in {"pull", "pulling", "lock", "read", "write"} \/ (J.pc = "kill" /\ J.pulled) => J.held # None /\ J.node = J.held.nick
      /\ J.pc \in {"lock", "read", "write"} => J.put = None
      /\ J.pc = "write" => map'[J.p] = J.held
  BY <1>5 DEF StopsAs
<1>9. c \notin crossed' => \A p \in Scope(c) :
       /\ Pending(J, p) => J.seen[p] = (IF J.unread THEN None ELSE map'[p])
       /\ Pending(J, p) /\ p \notin J.todo => J.node = Where(J, p)
       /\ ~Pending(J, p) => \A n \in Nodes : p \in on'[n] => p \in J.still \/ Told(p, n)
  BY <1>5 DEF StopsAs
<1> QED BY <1>1, <1>2, <1>6, <1>7, <1>8, <1>9 DEF Stopping

\* A step of c that writes no entry.
LEMMA OneGoes ==
  ASSUME PlacementIInv, TInv', Copied', NEW c \in Commands, setup' = setup, map' = map, cmd[c].pc # "done",
         \A d \in Commands \ {c} : cmd'[d] = cmd[d],
         Apart', OnlyAdds, OnlyStarts(c), OnlyStops(c), OwesOn(c), SeesNoMore(c),
         cmd'[c].pc # "ready", PlacesAs(c, cmd'[c]), StopsAs(c, cmd'[c])
  PROVE  PlacementIInv'
<1>1. TInv /\ InOrder /\ Accounts /\ LateIsTold /\ PinsHold /\ Unseen  BY DEF PlacementIInv
<1>2. said \subseteq said'  BY DEF OnlyAdds
<1>3. \A d \in Commands : Placing(d)' /\ Stopping(d)'
  BY <1>1, <1>2, OthersPlacing, OthersStopping, PlacesSo, StopsSo
<1>4. \A p, n : (Doubted(p, n) => Told(p, n)) /\ (Doubted(p, n)' <=> Told(p, n))  BY <1>2, DoubtsStay
<1>5. \A p, n : Owed(p, n) => Owed(p, n)' \/ Told(p, n)  BY OwedStays
<1>6. Accounts'
  <2>1. \A p \in Projects, n \in Nodes : p \in on'[n] => At(p, n)' \/ Told(p, n) \/ Owed(p, n)'
    BY <1>1, <1>4, <1>5 DEF Accounts, OnlyStarts, At
  <2> QED BY <1>4, <2>1 DEF Accounts
<1>7. LateIsTold'
  <2>1. \A p \in Projects, n \in Nodes : <<p, n>> \in late' => Told(p, n)  BY <1>1, <1>4 DEF LateIsTold, OnlyAdds
  <2> QED BY <1>4, <2>1 DEF LateIsTold
<1>8. PinsHold'
  <2>1. \A p \in Projects : ~PinFits(p) => \A n \in Nodes : (p \in on'[n] => n = setup.at[p]) /\ <<p, n>> \notin late'
    BY <1>1 DEF PinsHold, OnlyStarts, OnlyAdds
  <2> QED BY <1>1, <2>1, SetupStays DEF PinsHold
<1>9. Unseen'
  <2>1. SUFFICES ASSUME NEW b \in Commands, cmd'[b].pc # "done"
                 PROVE  /\ \A p \in Projects : map'[p] # None => map'[p].by # b
                        /\ \A d \in Commands : /\ cmd'[d].held # None => cmd'[d].held.by # b
                                               /\ \A p \in Projects : cmd'[d].seen[p] # None => cmd'[d].seen[p].by # b
    BY DEF Unseen
  <2>2. cmd[b].pc # "done"  BY <2>1
  <2>3. \A p \in Projects : /\ map[p] # None => map[p].by # b
                            /\ \A d \in Commands : cmd[d].seen[p] # None => cmd[d].seen[p].by # b
    BY <1>1, <2>2 DEF Unseen
  <2>4. \A d \in Commands : cmd[d].held # None => cmd[d].held.by # b  BY <1>1, <2>2 DEF Unseen
  <2>5. cmd'[c].held # None => cmd'[c].held.by # b  BY <2>3, <2>4 DEF SeesNoMore
  <2>6. \A p \in Projects : cmd'[c].seen[p] # None => cmd'[c].seen[p].by # b  BY <2>3 DEF SeesNoMore
  <2> QED BY <2>3, <2>4, <2>5, <2>6
<1>10. InOrder'  BY <1>1, SetupStays
<1>11. Fresh'  BY DEF PlacementIInv, Fresh
<1> QED BY <1>3, <1>6, <1>7, <1>8, <1>9, <1>10, <1>11 DEF PlacementIInv

\* No pair of commands comes to overlap but by a start.
LEMMA ApartStays ==
  ASSUME Apart, NEW c \in Commands, setup' = setup, crossed \subseteq crossed', \A d \in Commands \ {c} : cmd'[d] = cmd[d],
         Active(c) \/ cmd'[c].pc = "done"
  PROVE  Apart'
<1>1. \A d \in Commands : Kind(d)' = Kind(d) /\ Scope(d)' = Scope(d)  BY SetupStays
<1>2. \A d \in Commands : Active(d)' => Active(d)  BY DEF Active
<1> QED BY <1>1, <1>2 DEF Apart

\* The record of a command that has ended.
LEMMA EndedFields ==
  ASSUME NEW K, NEW out
  PROVE  LET J == Ended(K, out) IN
         /\ J.pc = "done" /\ J.p = K.p /\ J.node = K.node /\ J.held = K.held /\ J.put = K.put /\ J.still = K.still /\ J.out = out
         /\ \A p \in Projects : J.seen[p] = None
BY DEF Ended, Ready, Blank

\* A command ends: what it has started is in the map, or the user is told.
LEMMA OneEnds ==
  ASSUME PlacementIInv, TInv', Copied', NEW c \in Commands, setup' = setup, UNCHANGED <<map, on>>, cmd[c].pc # "done",
         NEW J, cmd' = [cmd EXCEPT ![c] = J], J.pc = "done", J.held = cmd[c].held, \A p \in Projects : J.seen[p] = None,
         OnlyAdds, OwesOn(c)
  PROVE  PlacementIInv'
<1>1. cmd'[c] = J /\ \A d \in Commands \ {c} : cmd'[d] = cmd[d]
  BY DEF PlacementIInv, TInv, TypeOK
<1>2. Apart'  BY <1>1, ApartStays DEF PlacementIInv, OnlyAdds
<1>3. OnlyStarts(c) /\ OnlyStops(c)  BY DEF OnlyStarts, OnlyStops
<1>4. SeesNoMore(c)  BY <1>1 DEF SeesNoMore
<1>5. PlacesAs(c, cmd'[c]) /\ StopsAs(c, cmd'[c]) /\ cmd'[c].pc # "ready"  BY <1>1 DEF PlacesAs, StopsAs
<1> QED BY <1>1, <1>2, <1>3, <1>4, <1>5, OneGoes

\* A command goes on, and nothing else changes that the invariant is about.
LEMMA OneGoesOn ==
  ASSUME PlacementIInv, TInv', Copied', NEW c \in Commands, setup' = setup, UNCHANGED <<map, on, late, crossed>>, said \subseteq said',
         Active(c), NEW J, cmd' = [cmd EXCEPT ![c] = J], OwesOn(c),
         J.held = cmd[c].held \/ (\E p \in Projects : J.held = cmd[c].seen[p]), J.seen = cmd[c].seen, J.pc # "ready",
         PlacesAs(c, J), StopsAs(c, J)
  PROVE  PlacementIInv'
<1>1. cmd'[c] = J /\ \A d \in Commands \ {c} : cmd'[d] = cmd[d]
  BY DEF PlacementIInv, TInv, TypeOK
<1>2. Apart'  BY <1>1, ApartStays DEF PlacementIInv
<1>3. OnlyAdds  BY DEF OnlyAdds
<1>4. OnlyStarts(c) /\ OnlyStops(c)  BY DEF OnlyStarts, OnlyStops
<1>5. SeesNoMore(c)  BY <1>1 DEF SeesNoMore
<1>6. cmd[c].pc # "done"  BY DEF Active
<1>7. PlacesAs(c, cmd'[c]) /\ StopsAs(c, cmd'[c]) /\ cmd'[c].pc # "ready"  BY <1>1
<1> QED BY <1>1, <1>2, <1>3, <1>4, <1>5, <1>6, <1>7, OneGoes

\* The two ways to tell the user.
LEMMA UnsureTells ==
  ASSUME NEW p, NEW n, said' = Unsure(p, n)
  PROVE  said \subseteq said' /\ Told(p, n)
BY DEF Unsure, Told, Whys
LEMMA WarnsTells ==
  ASSUME NEW K, Warns(K)
  PROVE  said \subseteq said' /\ (K.put # None => Told(K.p, K.node))
BY DEF Warns, Told, Whys

\* The ends of commands that come from nothing: `dial` and `bring`, `next`, `install`, a failed pull, a crash.
LEMMA EndsKeep ==
  ASSUME PlacementIInv, TInv', Copied', NEW c \in Commands, setup' = setup,
         \/ DirtyAttached(c) \/ DirtyRefused(c) \/ DirtyUnknown(c) \/ NodeBusy(c) \/ BringUpFails(c) \/ BringUpLost(c)
         \/ DownEnds(c) \/ InstallFails(c) \/ Dies(c)
  PROVE  PlacementIInv'
<1> DEFINE K == cmd[c]
<1>1. TInv /\ Placing(c)  BY DEF PlacementIInv
<1>2. PICK out : cmd' = [cmd EXCEPT ![c] = Ended(K, out)]
  BY DEF DirtyAttached, DirtyRefused, DirtyUnknown, NodeBusy, BringUpFails, BringUpLost, DownEnds, InstallFails, Dies
<1>3. UNCHANGED <<map, on, crossed>> /\ K.pc # "done" /\ Active(c)
  BY DEF DirtyAttached, DirtyRefused, DirtyUnknown, Attachable, NodeBusy, BringUpFails, BringUpLost, DownEnds, InstallFails, Dies, Active
<1>4. Ended(K, out).pc = "done" /\ Ended(K, out).held = K.held /\ \A p \in Projects : Ended(K, out).seen[p] = None
  BY EndedFields
<1>5. /\ said' = said \/ said' = Unsure(K.p, K.node)
      /\ late' = late \/ (late' = late \cup {<<K.p, K.node>>} /\ K.pc = "bring" /\ said' = Unsure(K.p, K.node))
      /\ K.pc \in {"lock", "read", "write"} /\ K.put # None => said' = Unsure(K.p, K.node)
  BY DEF DirtyAttached, DirtyRefused, DirtyUnknown, Attachable, NodeBusy, BringUpFails, BringUpLost, DownEnds, InstallFails, Dies, Started
<1>6. said' = Unsure(K.p, K.node) => said \subseteq said' /\ Told(K.p, K.node)  BY UnsureTells
<1>7. K.pc = "bring" => PinFits(K.p)
  <2>1. K.pc = "bring" => Kind(c) # "down"
    BY DEF PlacementIInv, Stopping, Active
  <2> QED BY <1>1, <2>1 DEF Placing, Active
<1>8. OnlyAdds  BY <1>3, <1>5, <1>6, <1>7 DEF OnlyAdds
<1>9. OwesOn(c)  BY <1>5, <1>6 DEF OwesOn
<1> HIDE DEF K
<1> QED BY <1>2, <1>3, <1>4, <1>8, <1>9, OneEnds DEF K

\* A command that goes on with what it knows.
Keeps(J, K) ==
  /\ J.p = K.p /\ J.node = K.node /\ J.held = K.held /\ J.seen = K.seen /\ J.todo = K.todo
  /\ J.unread = K.unread /\ J.still = K.still /\ J.put = K.put
\* A command at another place, with all it knows.
LEMMA PcMoves ==
  ASSUME NEW K \in CmdType, NEW pc, NEW J, J = [K EXCEPT !.pc = pc]
  PROVE  Keeps(J, K) /\ J.pc = pc /\ J.pulled = K.pulled
BY DEF Keeps, CmdType
Bringing == {"dial", "bring"}
Updating == {"lock", "read", "write"}
Leaving == {"pull", "pulling", "kill"}
\* A bring-up or a move that goes on at the same stage.
LEMMA PlacesOn ==
  ASSUME PlacementIInv, NEW c \in Commands, UNCHANGED <<on, map, crossed>>, said \subseteq said', Active(c), NEW J, Keeps(J, cmd[c]),
         \/ \E class \in {Bringing, Updating, Leaving} : cmd[c].pc \in class /\ J.pc \in class
         \/ cmd[c].pc \in Leaving /\ J.pc = "install" /\ Told(J.p, J.node)
         \/ cmd[c].pc = "install" /\ J.pc = "lock"
         \/ Kind(c) = "down"
  PROVE  PlacesAs(c, J)
<1>1. SUFFICES ASSUME Kind(c) # "down"  PROVE PlacesAs(c, J)
  BY DEF PlacesAs
<1>2. Placing(c) /\ (\A p, n : Doubted(p, n) => Told(p, n))
  BY DoubtsStay DEF PlacementIInv
<1> DEFINE K == cmd[c]
<1>3. /\ J.pc # "next" /\ (K.pc \in Bringing <=> J.pc \in Bringing) /\ (K.pc \in Updating => J.pc \in Updating)
      /\ J.pc \in Updating \cup {"install"} => K.pc \in Updating \cup {"install"} \/ Told(J.p, J.node)
  BY <1>1 DEF Bringing, Updating, Leaving
<1>4. /\ J.p = K.p /\ J.node = K.node /\ J.held = K.held /\ J.put = K.put
  BY DEF Keeps
<1>5. /\ K.p \in Scope(c)
      /\ \A n \in Nodes \ {K.node} : K.p \in on[n] => Doubted(K.p, n)
      /\ K.put = None /\ K.pc \in Updating \cup {"install"} => (K.p \in on[K.node] => Doubted(K.p, K.node))
      /\ K.put # None => K.put = [nick |-> K.node, by |-> c] /\ K.pc \in Updating
      /\ Kind(c) = "up" => K.pc \in Bringing \/ K.put # None
      /\ Kind(c) = "local" => K.put = None /\ K.pc \notin Bringing
      /\ Kind(c) = "to" => setup.pin[K.p] = AnyNode
      /\ K.pc \in Bringing \/ K.put # None => PinFits(K.p) /\ setup.pin[K.p] \in {AnyNode, K.node}
      /\ c \notin crossed => (K.put # None => K.p \in on[K.node]) /\ (Kind(c) = "local" => map[K.p] = K.held)
  BY <1>1, <1>2 DEF Placing, Bringing, Updating
<1> HIDE DEF K
<1> QED BY <1>2, <1>3, <1>4, <1>5 DEF PlacesAs, Bringing, Updating

\* A `down` that goes on.
LEMMA StopsOn ==
  ASSUME PlacementIInv, NEW c \in Commands, UNCHANGED <<on, map, crossed>>, said \subseteq said', Active(c), NEW J, Keeps(J, cmd[c]),
         Kind(c) = "down" =>
           \/ cmd[c].pc \in Updating /\ J.pc \in Updating /\ (J.pc = "write" => map[J.p] = J.held)
           \/ cmd[c].pc \in Updating /\ J.pc = "next"
           \/ cmd[c].pc \in {"pull", "pulling"} /\ J.pc \in {"pulling", "kill"}
  PROVE  StopsAs(c, J)
<1>1. SUFFICES ASSUME Kind(c) = "down"  PROVE StopsAs(c, J)
  BY DEF StopsAs
<1>2. Stopping(c) /\ (\A p, n : Doubted(p, n) => Told(p, n))
  BY DoubtsStay DEF PlacementIInv
<1> DEFINE K == cmd[c]
<1>3. /\ K.pc \in {"next", "pull", "pulling", "kill", "lock", "read", "write"} /\ K.todo \subseteq Scope(c)
      /\ K.pc # "next" => K.p \in Scope(c) \ K.todo
      /\ K.pc \in {"pull", "pulling", "lock", "read", "write"} \/ (K.pc = "kill" /\ K.pulled) => K.held # None /\ K.node = K.held.nick
      /\ K.pc \in Updating => K.put = None /\ (K.p \in on[K.node] /\ map[K.p] = K.held => Told(K.p, K.node) \/ Owed(K.p, K.node))
      /\ c \notin crossed => \A p \in Scope(c) :
         /\ Pending(K, p) => K.seen[p] = (IF K.unread THEN None ELSE map[p])
         /\ Pending(K, p) /\ p \notin K.todo => K.node = Where(K, p)
         /\ ~Pending(K, p) => \A n \in Nodes : p \in on[n] => p \in K.still \/ Told(p, n)
  BY <1>1, <1>2 DEF Stopping, Updating
<1>4. /\ J.p = K.p /\ J.node = K.node /\ J.held = K.held /\ J.put = K.put /\ J.seen = K.seen /\ J.todo = K.todo
      /\ J.unread = K.unread /\ J.still = K.still
  BY DEF Keeps
<1>5. \A p : Where(J, p) = Where(K, p)  BY <1>4 DEF Where
<1>6. \A p : Pending(J, p) <=> Pending(K, p)  BY <1>1, <1>4 DEF Pending, Updating
<1>7. /\ J.pc = "write" => map[J.p] = J.held
      /\ J.pc \in {"next", "pulling", "kill", "lock", "read", "write"}
      /\ J.pc \in Updating => K.pc \in Updating
      /\ J.pc \in {"pulling", "kill"} => K.pc \in {"pull", "pulling"}
  BY <1>1 DEF Updating
<1> HIDE DEF K
<1>8. J.pc \in Updating => J.put = None /\ (J.p \in on[J.node] /\ map[J.p] = J.held => Told(J.p, J.node) \/ Owed(J.p, J.node))
  BY <1>3, <1>4, <1>7
<1>9. J.pc \in {"pull", "pulling", "lock", "read", "write"} \/ (J.pc = "kill" /\ J.pulled) => J.held # None /\ J.node = J.held.nick
  BY <1>3, <1>4, <1>7 DEF Updating
<1>10. J.pc # "next" => J.p \in Scope(c) \ J.todo  BY <1>3, <1>4, <1>7 DEF Updating
<1>11. c \notin crossed => \A p \in Scope(c) :
         /\ Pending(J, p) => J.seen[p] = (IF J.unread THEN None ELSE map[p])
         /\ Pending(J, p) /\ p \notin J.todo => J.node = Where(J, p)
         /\ ~Pending(J, p) => \A n \in Nodes : p \in on[n] => p \in J.still \/ Told(p, n)
  BY <1>3, <1>4, <1>5, <1>6
<1>12. J.todo \subseteq Scope(c)  BY <1>3, <1>4
<1> QED BY <1>7, <1>8, <1>9, <1>10, <1>11, <1>12 DEF StopsAs, Updating

\* A command goes on with what it knows.
LEMMA OneKeeps ==
  ASSUME PlacementIInv, TInv', Copied', NEW c \in Commands, setup' = setup, UNCHANGED <<map, on, late, crossed>>, said \subseteq said',
         NEW J, cmd' = [cmd EXCEPT ![c] = J], Keeps(J, cmd[c]), Active(c),
         \/ \E class \in {Bringing, Updating, Leaving} : cmd[c].pc \in class /\ J.pc \in class
         \/ cmd[c].pc \in Leaving /\ J.pc = "install" /\ Told(J.p, J.node)
         \/ cmd[c].pc = "install" /\ J.pc = "lock"
         \/ Kind(c) = "down",
         Kind(c) = "down" =>
           \/ cmd[c].pc \in Updating /\ J.pc \in Updating /\ (J.pc = "write" => map[J.p] = J.held)
           \/ cmd[c].pc \in Updating /\ J.pc = "next"
           \/ cmd[c].pc \in {"pull", "pulling"} /\ J.pc \in {"pulling", "kill"}
  PROVE  PlacementIInv'
<1>1. PlacesAs(c, J)  BY PlacesOn
<1>2. StopsAs(c, J)  BY StopsOn
<1>3. cmd'[c] = J  BY DEF PlacementIInv, TInv, TypeOK
<1>4. OwesOn(c)
  <2>1. SUFFICES ASSUME Kind(c) # "down", cmd[c].pc \in Updating  PROVE J.pc \in Updating
    BY <1>3 DEF OwesOn, Keeps, Updating
  <2> QED BY <2>1 DEF Bringing, Updating, Leaving
<1>5. J.held = cmd[c].held /\ J.seen = cmd[c].seen /\ J.pc # "ready"  BY DEF Keeps, Bringing, Updating, Leaving
<1> QED BY <1>1, <1>2, <1>4, <1>5, OneGoesOn

\* `dial`, the lock, the read, the final pull, the installation.
LEMMA GoesKeep ==
  ASSUME PlacementIInv, TInv', Copied', NEW c \in Commands, setup' = setup,
         \/ Dial(c) \/ Lock(c) \/ Read(c) \/ ReadOther(c) \/ PullStarts(c) \/ Pulled(c) \/ PullNoAnswer(c) \/ Install(c)
  PROVE  PlacementIInv'
<1> DEFINE K == cmd[c]
<1>1. TInv /\ Placing(c) /\ Stopping(c)  BY DEF PlacementIInv
<1>2. K \in CmdType  BY <1>1, PlacementTypes
<1>3. K.pc \notin {"ready", "done"} => Active(c)  BY DEF Active
<1>4. K.pc \in Bringing \cup {"install"} => Kind(c) # "down"
  BY <1>1, <1>3 DEF Stopping, Bringing
<1>5. CASE Dial(c)
  <2>1. cmd' = [cmd EXCEPT ![c] = [K EXCEPT !.pc = "bring"]] /\ K.pc = "dial" /\ UNCHANGED <<map, on, late, said, crossed>>
    BY <1>5 DEF Dial
  <2>2. PICK J : J = [K EXCEPT !.pc = "bring"]  OBVIOUS
  <2>3. K.pc \in Bringing /\ J.pc \in Bringing /\ Keeps(J, K)  BY <1>2, <2>1, <2>2, PcMoves DEF Bringing
  <2> QED BY <1>3, <1>4, <2>1, <2>2, <2>3, OneKeeps
<1>6. CASE Lock(c)
  <2>1. cmd' = [cmd EXCEPT ![c] = [K EXCEPT !.pc = "read"]] /\ K.pc = "lock" /\ UNCHANGED <<map, on, late, said, crossed>>
    BY <1>6 DEF Lock
  <2>2. PICK J : J = [K EXCEPT !.pc = "read"]  OBVIOUS
  <2>3. K.pc \in Updating /\ J.pc \in Updating /\ Keeps(J, K) /\ J.pc = "read"  BY <1>2, <2>1, <2>2, PcMoves DEF Updating
  <2> QED BY <1>3, <2>1, <2>2, <2>3, OneKeeps
<1>7. CASE Read(c)
  <2>1. cmd' = [cmd EXCEPT ![c] = [K EXCEPT !.pc = "write", !.copy = map]] /\ K.pc = "read" /\ UNCHANGED <<map, on, late, said, crossed>>
    BY <1>7 DEF Read
  <2>2. PICK J : J = [K EXCEPT !.pc = "write", !.copy = map]  OBVIOUS
  <2>3. K.pc \in Updating /\ J.pc \in Updating /\ Keeps(J, K) /\ J.pc = "write"  BY <1>2, <2>1, <2>2 DEF Updating, Keeps, CmdType
  <2>4. Kind(c) = "down" => map[J.p] = J.held  BY <1>7, <2>3 DEF Read, Expected, Keeps
  <2> QED BY <1>3, <2>1, <2>2, <2>3, <2>4, OneKeeps
<1>8. CASE ReadOther(c)
  <2>1. /\ cmd' = [cmd EXCEPT ![c] = [K EXCEPT !.pc = "next", !.copy = Blank]] /\ K.pc = "read" /\ Kind(c) = "down"
        /\ UNCHANGED <<map, on, late, said, crossed>>
    BY <1>8 DEF ReadOther, Expected, Updated
  <2>2. PICK J : J = [K EXCEPT !.pc = "next", !.copy = Blank]  OBVIOUS
  <2>3. K.pc \in Updating /\ Keeps(J, K) /\ J.pc = "next"  BY <1>2, <2>1, <2>2 DEF Updating, Keeps, CmdType
  <2> QED BY <1>3, <2>1, <2>2, <2>3, OneKeeps
<1>9. CASE PullStarts(c)
  <2>1. cmd' = [cmd EXCEPT ![c] = [K EXCEPT !.pc = "pulling"]] /\ K.pc = "pull" /\ UNCHANGED <<map, on, late, said, crossed>>
    BY <1>9 DEF PullStarts
  <2>2. PICK J : J = [K EXCEPT !.pc = "pulling"]  OBVIOUS
  <2>3. K.pc \in Leaving /\ J.pc \in Leaving /\ Keeps(J, K) /\ J.pc = "pulling"  BY <1>2, <2>1, <2>2, PcMoves DEF Leaving
  <2> QED BY <1>3, <2>1, <2>2, <2>3, OneKeeps
<1>10. CASE Pulled(c)
  <2>1. cmd' = [cmd EXCEPT ![c] = [K EXCEPT !.pc = "kill", !.pulled = TRUE]] /\ K.pc = "pulling" /\ UNCHANGED <<map, on, late, said, crossed>>
    BY <1>10 DEF Pulled
  <2>2. PICK J : J = [K EXCEPT !.pc = "kill", !.pulled = TRUE]  OBVIOUS
  <2>3. K.pc \in Leaving /\ J.pc \in Leaving /\ Keeps(J, K) /\ J.pc = "kill"  BY <1>2, <2>1, <2>2 DEF Leaving, Keeps, CmdType
  <2> QED BY <1>3, <2>1, <2>2, <2>3, OneKeeps
<1>11. CASE PullNoAnswer(c)
  <2>1. /\ cmd' = [cmd EXCEPT ![c] = [K EXCEPT !.pc = "install"]] /\ K.pc = "pulling" /\ Kind(c) # "down" /\ UNCHANGED <<map, on, late, crossed>>
        /\ said' = Unsure(K.p, K.node)
    BY <1>11 DEF PullNoAnswer
  <2>2. PICK J : J = [K EXCEPT !.pc = "install"]  OBVIOUS
  <2>3. K.pc \in Leaving /\ J.pc = "install" /\ Keeps(J, K)  BY <1>2, <2>1, <2>2, PcMoves DEF Leaving
  <2>4. said \subseteq said' /\ Told(J.p, J.node)  BY <2>1, <2>3, UnsureTells DEF Keeps
  <2> QED BY <1>3, <2>1, <2>2, <2>3, <2>4, OneKeeps
<1>12. CASE Install(c)
  <2>1. /\ cmd' = [cmd EXCEPT ![c] = [[K EXCEPT !.pc = "lock"] EXCEPT !.put = None]] /\ K.pc = "install" /\ UNCHANGED <<map, on, late, said, crossed>>
    BY <1>12 DEF Install
  <2>2. PICK J : J = [[K EXCEPT !.pc = "lock"] EXCEPT !.put = None]  OBVIOUS
  <2>3. K.put = None  BY <1>1, <1>3, <1>4, <2>1 DEF Placing
  <2>4. Keeps(J, K) /\ J.pc = "lock"  BY <1>2, <2>2, <2>3 DEF Keeps, CmdType
  <2> QED BY <1>3, <1>4, <2>1, <2>2, <2>4, OneKeeps
<1> QED BY <1>5, <1>6, <1>7, <1>8, <1>9, <1>10, <1>11, <1>12

\* The map is not changed: `down` goes on, the others end.
LEMMA FailsKeep ==
  ASSUME PlacementIInv, TInv', Copied', NEW c \in Commands, setup' = setup, LockHeld(c) \/ ReadTorn(c) \/ WriteFails(c)
  PROVE  PlacementIInv'
<1> DEFINE K == cmd[c]
<1>1. TInv /\ Placing(c) /\ Stopping(c)  BY DEF PlacementIInv
<1>2. K \in CmdType  BY <1>1, PlacementTypes
<1>3. Fails(c) /\ K.pc \in Updating  BY DEF LockHeld, ReadTorn, WriteFails, Updating
<1>4. Active(c) /\ K.pc # "done"  BY <1>3 DEF Active, Updating
<1>5. UNCHANGED <<map, on, late, crossed>> /\ cmd' = [cmd EXCEPT ![c] = NotUpdated(c, K)]  BY <1>3 DEF Fails
<1>6. said \subseteq said' /\ (K.put # None => Told(K.p, K.node))
  <2>1. Warns(K)  BY <1>3 DEF Fails
  <2> HIDE DEF K
  <2> QED BY <2>1, WarnsTells
<1>7. CASE Kind(c) = "down"
  <2>1. PICK J : J = [K EXCEPT !.pc = "next", !.copy = Blank, !.stuck = TRUE]  OBVIOUS
  <2>2. Keeps(J, K) /\ J.pc = "next"  BY <1>2, <2>1 DEF Keeps, CmdType
  <2>3. cmd' = [cmd EXCEPT ![c] = J]  BY <1>5, <1>7, <2>1 DEF NotUpdated
  <2> QED BY <1>3, <1>4, <1>5, <1>6, <1>7, <2>2, <2>3, OneKeeps
<1>8. CASE Kind(c) # "down"
  <2>1. PICK out : NotUpdated(c, K) = Ended(K, out)  BY <1>8 DEF NotUpdated
  <2>2. PICK J : J = Ended(K, out)  OBVIOUS
  <2>3. J.pc = "done" /\ J.held = K.held /\ \A p \in Projects : J.seen[p] = None  BY <2>2, EndedFields
  <2>4. OnlyAdds /\ OwesOn(c)  BY <1>5, <1>6 DEF OnlyAdds, OwesOn
  <2> QED BY <1>4, <1>5, <2>1, <2>2, <2>3, <2>4, OneEnds
<1> QED BY <1>7, <1>8

\* The final pull is not made: `down` kills all the same, a recall ends.
LEMMA UnpulledKeep ==
  ASSUME PlacementIInv, TInv', Copied', NEW c \in Commands, setup' = setup, PullCannot(c) \/ PullFails(c)
  PROVE  PlacementIInv'
<1> DEFINE K == cmd[c]
<1>1. TInv /\ Placing(c)  BY DEF PlacementIInv
<1>2. K \in CmdType  BY <1>1, PlacementTypes
<1>3. UNCHANGED <<map, on, late, said, crossed>> /\ cmd' = NotPulled(c) /\ K.pc \in {"pull", "pulling"}
  BY DEF PullCannot, PullFails
<1>4. Active(c) /\ K.pc # "done"  BY <1>3 DEF Active
<1>5. CASE Kind(c) = "down"
  <2>1. PICK J : J = [K EXCEPT !.pc = "kill"]  OBVIOUS
  <2>2. Keeps(J, K) /\ J.pc = "kill"  BY <1>2, <2>1, PcMoves
  <2>3. cmd' = [cmd EXCEPT ![c] = J]  BY <1>3, <1>5, <2>1 DEF NotPulled
  <2> QED BY <1>3, <1>4, <1>5, <2>2, <2>3, OneKeeps
<1>6. CASE Kind(c) # "down"
  <2>1. PICK J : J = Ended(K, "failed")  OBVIOUS
  <2>2. J.pc = "done" /\ J.held = K.held /\ \A p \in Projects : J.seen[p] = None  BY <2>1, EndedFields
  <2>3. cmd' = [cmd EXCEPT ![c] = J]  BY <1>3, <1>6, <2>1 DEF NotPulled
  <2>4. OnlyAdds /\ OwesOn(c)  BY <1>3 DEF OnlyAdds, OwesOn
  <2> QED BY <1>3, <1>4, <2>2, <2>3, <2>4, OneEnds
<1> QED BY <1>5, <1>6

\* What runs of the projects of a command that runs alone is in the map, doubted, or its own.
LEMMA Alone ==
  ASSUME PlacementIInv, NEW c \in Commands, Active(c), c \notin crossed, NEW p \in Scope(c), NEW n \in Nodes, p \in on[n]
  PROVE  At(p, n) \/ Doubted(p, n)
         \/ (Kind(c) # "down" /\ cmd[c].pc \in {"lock", "read", "write"} /\ cmd[c].put # None /\ cmd[c].p = p /\ cmd[c].node = n)
<1>1. p \in Projects  BY PlacementTypes DEF PlacementIInv
<1>2. SUFFICES ASSUME Owed(p, n)
               PROVE  Kind(c) # "down" /\ cmd[c].pc \in {"lock", "read", "write"} /\ cmd[c].put # None /\ cmd[c].p = p /\ cmd[c].node = n
  BY <1>1 DEF PlacementIInv, Accounts
<1>3. PICK d \in Commands : /\ Kind(d) # "down" /\ cmd[d].pc \in {"lock", "read", "write"} /\ cmd[d].put # None
                            /\ cmd[d].p = p /\ cmd[d].node = n
  BY <1>2 DEF Owed
<1>4. Active(d) /\ p \in Scope(d)  BY <1>3 DEF PlacementIInv, Placing, Active
<1>5. d = c  BY <1>4 DEF PlacementIInv, Apart
<1> QED BY <1>3, <1>5

\* `down` skips a project: it is on no node anybody would know of, or is called a survivor.
LEMMA SkipsKeeps ==
  ASSUME PlacementIInv, TInv', Copied', NEW c \in Commands, setup' = setup, Skips(c)
  PROVE  PlacementIInv'
<1> DEFINE K == cmd[c]
<1>1. TInv /\ Placing(c) /\ Stopping(c)  BY DEF PlacementIInv
<1>2. K \in CmdType  BY <1>1, PlacementTypes
<1>3. PICK p \in K.todo : /\ K.pc = "next" /\ Where(K, p) \in K.lost \cup {AnyNode}
                          /\ cmd' = [cmd EXCEPT ![c].todo = @ \ {p},
                                                ![c].still = IF Where(K, p) = AnyNode /\ ~K.unread THEN @ ELSE @ \cup {p}]
  BY DEF Skips
<1> DEFINE still == IF Where(K, p) = AnyNode /\ ~K.unread THEN K.still ELSE K.still \cup {p}
<1>4. UNCHANGED <<map, on, late, said, crossed>>  BY DEF Skips
<1>5. Active(c) /\ Kind(c) = "down"  BY <1>1, <1>3 DEF Active, Placing
<1>6. PICK J : J = [[K EXCEPT !.todo = K.todo \ {p}] EXCEPT !.still = still]  OBVIOUS
<1>7. cmd' = [cmd EXCEPT ![c] = J]  BY <1>3, <1>6
<1>8. J.pc = "next" /\ J.todo = K.todo \ {p} /\ J.still = still /\ J.seen = K.seen /\ J.held = K.held /\ J.unread = K.unread
  BY <1>2, <1>3, <1>6 DEF CmdType
<1>9. /\ K.todo \subseteq Scope(c) /\ Scope(c) \subseteq Projects
      /\ c \notin crossed => \A q \in Scope(c) :
           /\ q \in K.todo => K.seen[q] = (IF K.unread THEN None ELSE map[q])
           /\ q \notin K.todo => \A n \in Nodes : q \in on[n] => q \in K.still \/ Doubted(q, n)
  BY <1>1, <1>3, <1>5, PlacementTypes DEF Stopping, Pending
<1>10. ASSUME c \notin crossed, NEW n \in Nodes, p \in on[n], p \notin still  PROVE Doubted(p, n)
  <2>1. Where(K, p) = AnyNode /\ ~K.unread  BY <1>10
  <2>2. p \in Scope(c) /\ p \in Projects /\ K.seen[p] = map[p]  BY <1>3, <1>9, <1>10, <2>1
  <2>3. map[p] = None
    <3>1. map[p] # None => map[p].nick \in Nodes  BY <1>1, <2>2, EntryOf DEF TInv, TypeOK, Maps
    <3> QED BY <1>1, <2>1, <2>2, <3>1, PlacementTypes DEF Where
  <2> QED BY <1>5, <1>10, <2>2, <2>3, Alone DEF At
<1>11. \A q, n : Doubted(q, n) => Told(q, n)  BY <1>4, DoubtsStay
<1>12. K.still \subseteq still  OBVIOUS
<1> HIDE DEF K, still
<1>13. \A q : (Pending(J, q) <=> q \in J.todo)  BY <1>8 DEF Pending
<1>14. c \notin crossed => \A q \in Scope(c) :
         /\ Pending(J, q) => J.seen[q] = (IF J.unread THEN None ELSE map[q])
         /\ ~Pending(J, q) => \A n \in Nodes : q \in on[n] => q \in J.still \/ Told(q, n)
  BY <1>8, <1>9, <1>10, <1>11, <1>12, <1>13
<1>15. StopsAs(c, J)  BY <1>4, <1>8, <1>9, <1>13, <1>14 DEF StopsAs
<1>16. PlacesAs(c, J)  BY <1>5 DEF PlacesAs
<1>17. OwesOn(c)  BY <1>5 DEF OwesOn
<1> QED BY <1>4, <1>5, <1>7, <1>8, <1>15, <1>16, <1>17, OneGoesOn DEF K

\* `down` takes its next project.
LEMMA TakesKeeps ==
  ASSUME PlacementIInv, TInv', Copied', NEW c \in Commands, setup' = setup, Takes(c)
  PROVE  PlacementIInv'
<1> DEFINE K == cmd[c]
<1>1. TInv /\ Placing(c) /\ Stopping(c)  BY DEF PlacementIInv
<1>2. K \in CmdType  BY <1>1, PlacementTypes
<1>3. PICK p \in K.todo :
        /\ K.pc = "next"
        /\ cmd' = [cmd EXCEPT ![c] = [K EXCEPT !.todo = @ \ {p}, !.p = p, !.node = Where(K, p), !.held = K.seen[p],
                                               !.pulled = FALSE, !.pc = IF K.seen[p] = None THEN "kill" ELSE "pull"]]
  BY DEF Takes
<1>4. UNCHANGED <<map, on, late, said, crossed>>  BY DEF Takes
<1>5. Active(c) /\ Kind(c) = "down"  BY <1>1, <1>3 DEF Active, Placing
<1>6. PICK J : J = [K EXCEPT !.todo = @ \ {p}, !.p = p, !.node = Where(K, p), !.held = K.seen[p],
                             !.pulled = FALSE, !.pc = IF K.seen[p] = None THEN "kill" ELSE "pull"]
  OBVIOUS
<1>7. cmd' = [cmd EXCEPT ![c] = J]  BY <1>3, <1>6
<1>8. /\ J.pc = (IF K.seen[p] = None THEN "kill" ELSE "pull") /\ J.todo = K.todo \ {p} /\ J.p = p /\ J.node = Where(K, p)
      /\ J.held = K.seen[p] /\ J.pulled = FALSE /\ J.seen = K.seen /\ J.still = K.still /\ J.unread = K.unread
  BY <1>2, <1>6 DEF CmdType
<1>9. /\ K.todo \subseteq Scope(c) /\ Scope(c) \subseteq Projects
      /\ c \notin crossed => \A q \in Scope(c) :
           /\ q \in K.todo => K.seen[q] = (IF K.unread THEN None ELSE map[q])
           /\ q \notin K.todo => \A n \in Nodes : q \in on[n] => q \in K.still \/ Doubted(q, n)
  BY <1>1, <1>3, <1>5, PlacementTypes DEF Stopping, Pending
<1>10. \A q, n : Doubted(q, n) => Told(q, n)  BY <1>4, DoubtsStay
<1> HIDE DEF K
<1>11. \A q : Pending(J, q) <=> q \in K.todo  BY <1>8 DEF Pending
<1>12. Where(J, p) = Where(K, p) /\ (K.seen[p] # None => J.node = J.held.nick)  BY <1>8 DEF Where
<1>13. c \notin crossed => \A q \in Scope(c) :
         /\ Pending(J, q) => J.seen[q] = (IF J.unread THEN None ELSE map[q])
         /\ Pending(J, q) /\ q \notin J.todo => J.node = Where(J, q)
         /\ ~Pending(J, q) => \A n \in Nodes : q \in on[n] => q \in J.still \/ Told(q, n)
  BY <1>8, <1>9, <1>10, <1>11, <1>12
<1>14. J.pc \in {"pull", "kill"} /\ (J.pc = "pull" => K.seen[p] # None)  BY <1>8
<1>15. StopsAs(c, J)  BY <1>3, <1>4, <1>8, <1>9, <1>12, <1>13, <1>14 DEF StopsAs
<1>16. PlacesAs(c, J)  BY <1>5 DEF PlacesAs
<1>17. OwesOn(c)  BY <1>5 DEF OwesOn
<1>18. p \in Projects  BY <1>3, <1>9
<1> QED BY <1>4, <1>5, <1>7, <1>8, <1>15, <1>16, <1>17, <1>18, OneGoesOn DEF K

\* bring_up.sh has started the session: its command owes it an entry.
LEMMA BringUpKeeps ==
  ASSUME PlacementIInv, TInv', Copied', NEW c \in Commands, setup' = setup, BringUp(c)
  PROVE  PlacementIInv'
<1> DEFINE K == cmd[c]
           put == [nick |-> K.node, by |-> c]
<1>1. TInv /\ Placing(c) /\ Stopping(c) /\ Apart  BY DEF PlacementIInv
<1>2. K \in CmdType /\ K.pc = "bring" /\ UNCHANGED <<map, late, said, crossed>> /\ on' = [on EXCEPT ![K.node] = @ \cup {K.p}]
  BY <1>1, PlacementTypes DEF BringUp
<1>3. Active(c) /\ K.pc # "done" /\ Kind(c) # "down"  BY <1>1, <1>2 DEF Active, Stopping
<1>4. /\ K.p \in Scope(c) /\ PinFits(K.p) /\ setup.pin[K.p] \in {AnyNode, K.node} /\ Kind(c) # "local"
      /\ \A n \in Nodes \ {K.node} : K.p \in on[n] => Doubted(K.p, n)
      /\ Kind(c) = "to" => setup.pin[K.p] = AnyNode
  BY <1>1, <1>2, <1>3 DEF Placing
<1>5. K.p \in Projects /\ K.node \in Nodes  BY <1>1, <1>2, <1>3, PlacementTypes
<1>6. put \in Store!Entries /\ put # None  BY <1>5, NamesAssumption DEF Store!Entries
<1>7. PICK J : J = [[K EXCEPT !.pc = "lock"] EXCEPT !.put = put]  OBVIOUS
<1>8. J.pc = "lock" /\ J.put = put /\ J.p = K.p /\ J.node = K.node /\ J.held = K.held /\ J.seen = K.seen
  BY <1>2, <1>7 DEF CmdType
<1>9. cmd' = [cmd EXCEPT ![c] = J]  BY <1>7 DEF BringUp
<1>10. cmd'[c] = J /\ \A d \in Commands \ {c} : cmd'[d] = cmd[d]  BY <1>1, <1>9 DEF TInv, TypeOK
<1>11. /\ \A n \in Nodes : on[n] \subseteq on'[n] /\ (n # K.node => on'[n] = on[n])
       /\ on'[K.node] = on[K.node] \cup {K.p}
  BY <1>1, <1>2, <1>5 DEF TInv, TypeOK
<1>12. OnlyStarts(c)
  <2>1. SUFFICES ASSUME NEW p \in Projects, NEW n \in Nodes, p \in on'[n], p \notin on[n]
                 PROVE  p \in Scope(c) /\ Active(c) /\ Kind(c) # "down" /\ PinFits(p) /\ Owed(p, n)'
    BY DEF OnlyStarts
  <2>2. p = K.p /\ n = K.node  BY <1>11, <2>1
  <2>3. Kind(c)' # "down"  BY <1>3, SetupStays
  <2>4. Owed(p, n)'  BY <1>6, <1>8, <1>10, <2>2, <2>3 DEF Owed
  <2> QED BY <1>3, <1>4, <2>2, <2>4
<1>13. OnlyStops(c)  BY <1>11 DEF OnlyStops
<1>14. OnlyAdds  BY <1>2 DEF OnlyAdds
<1>15. OwesOn(c)  BY <1>2 DEF OwesOn
<1>16. SeesNoMore(c)  BY <1>8, <1>10 DEF SeesNoMore
<1>17. Apart'  BY <1>1, <1>2, <1>3, <1>10, ApartStays
<1>18. \A p, n : Doubted(p, n) => Told(p, n)  BY <1>2, DoubtsStay
<1> HIDE DEF K
<1>19. PlacesAs(c, J)  BY <1>4, <1>5, <1>6, <1>8, <1>11, <1>18 DEF PlacesAs
<1>20. StopsAs(c, J) /\ J.pc # "ready"  BY <1>3, <1>8 DEF StopsAs
<1> QED BY <1>2, <1>3, <1>10, <1>12, <1>13, <1>14, <1>15, <1>16, <1>17, <1>19, <1>20, OneGoes DEF K

\* `down` has killed the project where it looked for it: it runs nowhere else.
LEMMA KilledWhereItIs ==
  ASSUME PlacementIInv, NEW c \in Commands, Active(c), Kind(c) = "down", cmd[c].pc = "kill", c \notin crossed,
         NEW n \in Nodes, n # cmd[c].node, cmd[c].p \in on[n],
         cmd[c].unread => cmd[c].p \in on[cmd[c].node]
  PROVE  Doubted(cmd[c].p, n)
<1> DEFINE K == cmd[c]
<1>1. TInv /\ Stopping(c) /\ PinsHold  BY DEF PlacementIInv
<1>2. K.p \in Scope(c) \ K.todo /\ K.p \in Projects /\ K.node \in Nodes /\ AnyNode \notin Nodes
  BY <1>1, PlacementTypes DEF Stopping
<1>3. K.seen[K.p] = (IF K.unread THEN None ELSE map[K.p]) /\ K.node = Where(K, K.p)
  BY <1>1, <1>2 DEF Stopping, Pending
<1>4. At(K.p, n) \/ Doubted(K.p, n)  BY <1>2, Alone
<1>5. ASSUME At(K.p, n)  PROVE FALSE
  <2>1. CASE ~K.unread  BY <1>3, <1>5, <2>1 DEF At, Where
  <2>2. CASE K.unread
    <3>1. setup.pin[K.p] = K.node /\ K.p \in on[K.node]  BY <1>3, <2>2 DEF Where
    <3>2. setup.pin[K.p] # AnyNode  BY <1>2, <3>1
    <3>3. CASE PinFits(K.p)  BY <1>1, <1>2, <1>5, <3>1, <3>2, <3>3 DEF PinsHold, At
    <3>4. CASE ~PinFits(K.p)  BY <1>1, <1>2, <3>1, <3>4 DEF PinsHold
    <3> QED BY <3>3, <3>4
  <2> QED BY <2>1, <2>2
<1> QED BY <1>4, <1>5

\* A session is killed, or may have been.
LEMMA StopKeeps ==
  ASSUME PlacementIInv, TInv', Copied', NEW c \in Commands, setup' = setup, cmd[c].pc = "kill",
         on' \in {on, [on EXCEPT ![cmd[c].node] = @ \ {cmd[c].p}]}, UNCHANGED <<map, late, crossed>>, said \subseteq said',
         NEW J, cmd' = [cmd EXCEPT ![c] = J], J.p = cmd[c].p, J.node = cmd[c].node, J.held = cmd[c].held, J.seen = cmd[c].seen,
         J.todo = cmd[c].todo, J.unread = cmd[c].unread, cmd[c].still \subseteq J.still,
         Told(J.p, J.node) \/ on' = [on EXCEPT ![cmd[c].node] = @ \ {cmd[c].p}],
         Kind(c) = "down" => /\ J.pc = "next" \/ (J.pc = "lock" /\ cmd[c].pulled /\ J.put = None)
                             /\ cmd[c].p \in J.still \/ (cmd[c].unread => cmd[c].p \in on[cmd[c].node]),
         Kind(c) # "down" => J.pc = "install" /\ J.put = cmd[c].put
  PROVE  PlacementIInv'
<1> DEFINE K == cmd[c]
<1>1. TInv /\ Placing(c) /\ Stopping(c) /\ Apart  BY DEF PlacementIInv
<1>2. Active(c) /\ K.pc # "done"  BY DEF Active
<1>3. K.p \in Projects /\ K.node \in Nodes /\ K.p \in Scope(c) /\ Scope(c) \subseteq Projects
  BY <1>1, <1>2, PlacementTypes DEF Placing, Stopping
<1>4. cmd'[c] = J /\ \A d \in Commands \ {c} : cmd'[d] = cmd[d]  BY <1>1 DEF TInv, TypeOK
<1>5. /\ \A n \in Nodes : on'[n] \subseteq on[n] /\ \A p \in on[n] : p \in on'[n] \/ p = K.p
      /\ K.p \in on'[K.node] => Told(K.p, K.node)
  BY <1>1, <1>3 DEF TInv, TypeOK
<1>6. OnlyStarts(c) /\ OnlyStops(c)  BY <1>2, <1>3, <1>5 DEF OnlyStarts, OnlyStops
<1>7. OnlyAdds /\ OwesOn(c)  BY DEF OnlyAdds, OwesOn
<1>8. SeesNoMore(c)  BY <1>4 DEF SeesNoMore
<1>9. Apart'  BY <1>1, <1>2, <1>4, ApartStays
<1>10. \A p, n : Doubted(p, n) => Told(p, n)  BY DoubtsStay
<1>11. PlacesAs(c, J)
  <2>1. SUFFICES ASSUME Kind(c) # "down"  PROVE PlacesAs(c, J)  BY DEF PlacesAs
  <2>2. /\ \A n \in Nodes \ {K.node} : K.p \in on[n] => Doubted(K.p, n)
        /\ K.put = None /\ Kind(c) # "up" /\ (Kind(c) = "to" => setup.pin[K.p] = AnyNode)
        /\ c \notin crossed => (Kind(c) = "local" => map[K.p] = K.held)
    BY <1>1, <1>2, <2>1 DEF Placing
  <2> HIDE DEF K
  <2> QED BY <1>3, <1>5, <1>10, <2>1, <2>2 DEF PlacesAs, K
<1>12. StopsAs(c, J)
  <2>1. SUFFICES ASSUME Kind(c) = "down"  PROVE StopsAs(c, J)  BY DEF StopsAs
  <2>2. K.todo \subseteq Scope(c) /\ K.p \notin K.todo /\ (K.pulled => K.held # None /\ K.node = K.held.nick)
    BY <1>1, <1>2, <2>1 DEF Stopping
  <2>3. ASSUME c \notin crossed, NEW q \in Scope(c)
        PROVE  /\ Pending(J, q) => J.seen[q] = (IF J.unread THEN None ELSE map'[q])
               /\ Pending(J, q) /\ q \notin J.todo => J.node = Where(J, q)
               /\ ~Pending(J, q) => \A n \in Nodes : q \in on'[n] => q \in J.still \/ Told(q, n)
    <3>1. Pending(J, q) <=> q \in K.todo  BY <2>1 DEF Pending
    <3>2. /\ Pending(K, q) => K.seen[q] = (IF K.unread THEN None ELSE map[q])
          /\ ~Pending(K, q) => \A n \in Nodes : q \in on[n] => q \in K.still \/ Doubted(q, n)
      BY <1>1, <1>2, <2>1, <2>3 DEF Stopping
    <3>3. q \in K.todo => Pending(K, q)  BY DEF Pending
    <3>4. q \notin K.todo /\ q # K.p => ~Pending(K, q)  BY DEF Pending
    <3>5. ASSUME q = K.p, NEW n \in Nodes, q \in on'[n], q \notin J.still  PROVE Told(q, n)
      <4>1. CASE n = K.node  BY <1>5, <3>5, <4>1
      <4>2. CASE n # K.node
        <5>1. Doubted(K.p, n)  BY <1>2, <1>5, <2>1, <2>3, <3>5, <4>2, KilledWhereItIs
        <5> QED BY <1>10, <3>5, <5>1
      <4> QED BY <4>1, <4>2
    <3>6. q \notin K.todo => \A n \in Nodes : q \in on'[n] => q \in J.still \/ Told(q, n)
      BY <1>5, <1>10, <3>2, <3>4, <3>5
    <3> QED BY <3>1, <3>2, <3>3, <3>6
  <2>4. J.pc = "next" \/ (J.pc = "lock" /\ K.pulled /\ J.put = None)  BY <2>1
  <2> HIDE DEF K
  <2> QED BY <1>3, <1>5, <2>2, <2>3, <2>4 DEF StopsAs, K
<1>13. J.pc # "ready"  OBVIOUS
<1> QED BY <1>2, <1>4, <1>6, <1>7, <1>8, <1>9, <1>11, <1>12, <1>13, OneGoes

\* The kill is answered, or is not.
LEMMA KillKeeps ==
  ASSUME PlacementIInv, TInv', Copied', NEW c \in Commands, setup' = setup, Kill(c)
  PROVE  PlacementIInv'
<1> DEFINE K == cmd[c]
           J == Killed(c, K, K.p \in on[K.node])
<1>1. K \in CmdType  BY PlacementTypes DEF PlacementIInv
<1>2. /\ K.pc = "kill" /\ on' = [on EXCEPT ![K.node] = @ \ {K.p}] /\ UNCHANGED <<map, late, said, crossed>>
      /\ cmd' = [cmd EXCEPT ![c] = J]
  BY DEF Kill
<1>3. /\ J.p = K.p /\ J.node = K.node /\ J.held = K.held /\ J.seen = K.seen /\ J.todo = K.todo /\ J.unread = K.unread
      /\ K.still \subseteq J.still
      /\ Kind(c) = "down" => /\ J.pc = "next" \/ (J.pc = "lock" /\ K.pulled /\ J.put = None)
                             /\ K.p \in J.still \/ (K.unread => K.p \in on[K.node])
      /\ Kind(c) # "down" => J.pc = "install" /\ J.put = K.put
  BY <1>1 DEF Killed, CmdType
<1>4. PICK H : H = J  OBVIOUS
<1> HIDE DEF J
<1> QED BY <1>2, <1>3, <1>4, StopKeeps

LEMMA KillUnknownKeeps ==
  ASSUME PlacementIInv, TInv', Copied', NEW c \in Commands, setup' = setup, KillUnknown(c)
  PROVE  PlacementIInv'
<1> DEFINE K == cmd[c]
           J == IF Kind(c) = "down" THEN [K EXCEPT !.pc = "next", !.still = @ \cup {K.p}, !.lost = @ \cup {K.node}]
                ELSE [K EXCEPT !.pc = "install"]
<1>1. K \in CmdType  BY PlacementTypes DEF PlacementIInv
<1>2. /\ K.pc = "kill" /\ on' \in {on, [on EXCEPT ![K.node] = @ \ {K.p}]} /\ UNCHANGED <<map, late, crossed>>
      /\ said' = Unsure(K.p, K.node) /\ cmd' = [cmd EXCEPT ![c] = J]
  BY DEF KillUnknown
<1>3. /\ J.p = K.p /\ J.node = K.node /\ J.held = K.held /\ J.seen = K.seen /\ J.todo = K.todo /\ J.unread = K.unread
      /\ K.still \subseteq J.still
      /\ Kind(c) = "down" => J.pc = "next" /\ K.p \in J.still
      /\ Kind(c) # "down" => J.pc = "install" /\ J.put = K.put
  BY <1>1 DEF CmdType
<1>4. said \subseteq said' /\ Told(J.p, J.node)  BY <1>2, <1>3, UnsureTells
<1> HIDE DEF J
<1> QED BY <1>2, <1>3, <1>4, StopKeeps

\* A start makes its rivals, and itself, commands that ran beside another.
LEMMA ApartStarts ==
  ASSUME Apart, InOrder, NEW c \in Commands, setup' = setup, Starts(c), \A d \in Commands \ {c} : cmd'[d] = cmd[d]
  PROVE  Apart'
<1>1. \A d \in Commands : Kind(d)' = Kind(d) /\ Scope(d)' = Scope(d)  BY SetupStays
<1>2. \A d \in Commands \ {c} : Active(d)' <=> Active(d)  BY DEF Active
<1>3. SUFFICES ASSUME NEW b \in Commands, NEW d \in Commands, b # d, Active(b)', Active(d)', Scope(b) \cap Scope(d) # {}
               PROVE  b \in crossed' /\ (Kind(b) = "down" \/ Kind(d) = "down")
  BY <1>1 DEF Apart
<1>4. crossed \subseteq crossed' /\ (Rivals(c) # {} => crossed' = crossed \cup Rivals(c) \cup {c})
  BY DEF Starts
<1>5. CASE b # c /\ d # c  BY <1>2, <1>3, <1>4, <1>5 DEF Apart
<1>6. CASE b = c \/ d = c
  <2>1. PICK e \in {b, d} \ {c} : e \in Rivals(c)  BY <1>2, <1>3, <1>6 DEF Rivals
  <2>2. b \in {c, e} /\ c \in crossed' /\ e \in crossed'  BY <1>3, <1>4, <1>6, <2>1
  <2>3. Kind(c) = "down" \/ Kind(e) = "down"  BY <2>1 DEF Starts, InOrder
  <2> QED BY <1>3, <1>6, <2>1, <2>2, <2>3 DEF Rivals
<1> QED BY <1>5, <1>6

\* Nobody owes a session to a project that is to be placed, or recalled.
LEMMA NobodyOwes ==
  ASSUME PlacementIInv, NEW c \in Commands, Starts(c), Kind(c) # "down", NEW p \in Scope(c), NEW n \in Nodes, p \in on[n]
  PROVE  At(p, n) \/ Doubted(p, n)
<1>1. p \in Projects  BY PlacementTypes DEF PlacementIInv
<1>2. SUFFICES ASSUME Owed(p, n)  PROVE FALSE
  BY <1>1 DEF PlacementIInv, Accounts
<1>3. PICK d \in Commands : Kind(d) # "down" /\ cmd[d].pc \in {"lock", "read", "write"} /\ cmd[d].p = p
  BY <1>2 DEF Owed
<1>4. Active(d) /\ p \in Scope(d)
  <2>1. Active(d) /\ Placing(d)  BY <1>3 DEF PlacementIInv, Active
  <2> QED BY <1>3, <2>1 DEF Placing
<1>5. d # c  BY <1>3 DEF Starts
<1>6. d \in Rivals(c)  BY <1>4, <1>5 DEF Rivals
<1> QED BY <1>3, <1>6 DEF Starts, PlacementIInv, InOrder

\* A command starts.
LEMMA OneStarts ==
  ASSUME PlacementIInv, TInv', Copied', NEW c \in Commands, setup' = setup, Starts(c),
         NEW J, cmd' = [cmd EXCEPT ![c] = J], J.pc # "ready",
         J.held = cmd[c].held \/ (\E p \in Projects : J.held = map[p]),
         J.seen = cmd[c].seen \/ (\A p \in Projects : J.seen[p] \in {None, map[p]}),
         PlacesAs(c, J), StopsAs(c, J)
  PROVE  PlacementIInv'
<1>1. cmd'[c] = J /\ \A d \in Commands \ {c} : cmd'[d] = cmd[d]
  BY DEF PlacementIInv, TInv, TypeOK
<1>2. Apart'  BY <1>1, ApartStarts DEF PlacementIInv
<1>3. UNCHANGED <<map, on, late, said>> /\ crossed \subseteq crossed' /\ cmd[c].pc = "ready"  BY DEF Starts
<1>4. OnlyAdds  BY <1>3 DEF OnlyAdds
<1>5. OnlyStarts(c) /\ OnlyStops(c)  BY <1>3 DEF OnlyStarts, OnlyStops
<1>6. SeesNoMore(c)  BY <1>1 DEF SeesNoMore
<1>7. OwesOn(c) /\ cmd[c].pc # "done"  BY <1>3 DEF OwesOn
<1>8. PlacesAs(c, cmd'[c]) /\ StopsAs(c, cmd'[c]) /\ cmd'[c].pc # "ready"  BY <1>1
<1> QED BY <1>1, <1>2, <1>3, <1>4, <1>5, <1>6, <1>7, <1>8, OneGoes

\* `up` goes where the project is, or where nothing of it runs.
LEMMA PlaceKeeps ==
  ASSUME PlacementIInv, TInv', Copied', NEW c \in Commands, setup' = setup, Place(c)
  PROVE  PlacementIInv'
<1> DEFINE K == cmd[c]
<1>1. TInv /\ PinsHold /\ Fresh /\ InOrder  BY DEF PlacementIInv
<1>2. PICK p \in Scope(c) : \E n \in NodesFor(p) :
        /\ Kind(c) = "up" /\ Starts(c)
        /\ cmd' = [cmd EXCEPT ![c].pc = "dial", ![c].p = p, ![c].node = n]
  BY DEF Place
<1>20. PICK n \in NodesFor(p) :
        /\ Kind(c) = "up" /\ Starts(c)
        /\ cmd' = [cmd EXCEPT ![c].pc = "dial", ![c].p = p, ![c].node = n]
  BY <1>2
<1>3. K = Ready /\ p \in Projects /\ UNCHANGED <<map, on, said>> /\ PinFits(p)
  BY <1>1, <1>20, PlacementTypes DEF Starts, Fresh, InOrder
<1>4. PICK J : J = [[[Ready EXCEPT !.pc = "dial"] EXCEPT !.p = p] EXCEPT !.node = n]  OBVIOUS
<1>5. J.pc = "dial" /\ J.p = p /\ J.node = n /\ J.put = None /\ J.held = Ready.held /\ J.seen = Ready.seen
  BY <1>4 DEF Ready
<1>6. cmd' = [cmd EXCEPT ![c] = J]
  <2>1. cmd' = [cmd EXCEPT ![c] = [[[K EXCEPT !.pc = "dial"] EXCEPT !.p = p] EXCEPT !.node = n]]  BY <1>20
  <2> QED BY <1>3, <1>4, <2>1
<1>7. ASSUME NEW m \in Nodes \ {n}, p \in on[m]  PROVE Told(p, m)
  <2>1. At(p, m) \/ Doubted(p, m)  BY <1>20, <1>7, NobodyOwes
  <2>2. ~At(p, m)  BY <1>1, <1>20, <1>3, <1>7 DEF At, NodesFor, PinsHold
  <2> QED BY <1>3, <2>1, <2>2, DoubtsStay
<1>8. setup.pin[p] \in {AnyNode, n}  BY <1>20 DEF NodesFor
<1>9. PlacesAs(c, J)  BY <1>20, <1>3, <1>5, <1>7, <1>8 DEF PlacesAs
<1>10. StopsAs(c, J)  BY <1>20 DEF StopsAs
<1> QED BY <1>20, <1>3, <1>5, <1>6, <1>9, <1>10, OneStarts

\* A recall goes where the project is.
LEMMA RecallReadsKeeps ==
  ASSUME PlacementIInv, TInv', Copied', NEW c \in Commands, setup' = setup, RecallReads(c)
  PROVE  PlacementIInv'
<1> DEFINE K == cmd[c]
<1>1. TInv /\ Fresh  BY DEF PlacementIInv
<1>2. PICK p \in Scope(c) :
        /\ Kind(c) \in {"local", "to"} /\ Starts(c) /\ Recallable(c, p)
        /\ cmd' = [cmd EXCEPT ![c] = [K EXCEPT !.pc = "pull", !.p = p, !.held = map[p], !.node = map[p].nick]]
  BY DEF RecallReads
<1>3. K = Ready /\ p \in Projects /\ UNCHANGED <<map, on, said>>
  BY <1>1, <1>2, PlacementTypes DEF Starts, Fresh
<1>4. PICK J : J = [Ready EXCEPT !.pc = "pull", !.p = p, !.held = map[p], !.node = map[p].nick]  OBVIOUS
<1>5. J.pc = "pull" /\ J.p = p /\ J.node = map[p].nick /\ J.put = None /\ J.held = map[p] /\ J.seen = Ready.seen
  BY <1>4 DEF Ready
<1>6. cmd' = [cmd EXCEPT ![c] = J]  BY <1>2, <1>3, <1>4
<1>7. ASSUME NEW m \in Nodes \ {map[p].nick}, p \in on[m]  PROVE Told(p, m)
  <2>1. At(p, m) \/ Doubted(p, m)  BY <1>2, <1>7, NobodyOwes
  <2> QED BY <1>3, <1>7, <2>1, DoubtsStay DEF At
<1>8. Kind(c) = "to" => setup.pin[p] = AnyNode  BY <1>2 DEF Recallable
<1>9. PlacesAs(c, J)  BY <1>2, <1>3, <1>5, <1>7, <1>8 DEF PlacesAs
<1>10. StopsAs(c, J)  BY <1>2 DEF StopsAs
<1> QED BY <1>2, <1>3, <1>5, <1>6, <1>9, <1>10, OneStarts

\* `down` reads the map, or finds it unreadable.
LEMMA DownReadsKeeps ==
  ASSUME PlacementIInv, TInv', Copied', NEW c \in Commands, setup' = setup, DownReads(c)
  PROVE  PlacementIInv'
<1> DEFINE K == cmd[c]
<1>1. TInv  BY DEF PlacementIInv
<1>2. /\ Kind(c) = "down" /\ Starts(c)
      /\ cmd' = [cmd EXCEPT ![c] = [K EXCEPT !.pc = "next", !.todo = Scope(c), !.seen = Known.seen, !.unread = Known.unread]]
  BY DEF DownReads
<1>3. K \in CmdType /\ Scope(c) \subseteq Projects /\ map' = map  BY <1>1, <1>2, PlacementTypes DEF Starts
<1>4. PICK J : J = [K EXCEPT !.pc = "next", !.todo = Scope(c), !.seen = Known.seen, !.unread = Known.unread]  OBVIOUS
<1>5. J.pc = "next" /\ J.todo = Scope(c) /\ J.seen = Known.seen /\ J.unread = Known.unread /\ J.held = K.held
  BY <1>3, <1>4 DEF CmdType
<1>6. cmd' = [cmd EXCEPT ![c] = J]  BY <1>2, <1>4
<1>7. \A p \in Projects : Known.seen[p] = IF Known.unread THEN None ELSE map[p]
  BY DEF Known, Blank
<1>8. \A p \in Scope(c) : J.seen[p] = IF J.unread THEN None ELSE map'[p]
  BY <1>3, <1>5, <1>7
<1>9. \A p : Pending(J, p) <=> p \in Scope(c)  BY <1>5 DEF Pending
<1>10. StopsAs(c, J)  BY <1>5, <1>8, <1>9 DEF StopsAs
<1>11. PlacesAs(c, J)  BY <1>2 DEF PlacesAs
<1>12. \A p \in Projects : J.seen[p] \in {None, map[p]}  BY <1>5, <1>7
<1> QED BY <1>2, <1>5, <1>6, <1>10, <1>11, <1>12, OneStarts

\* A command is refused before it has done anything.
LEMMA RefusedKeeps ==
  ASSUME PlacementIInv, TInv', Copied', NEW c \in Commands, setup' = setup, PlaceRefused(c) \/ RecallRefused(c)
  PROVE  PlacementIInv'
<1> DEFINE K == cmd[c]
<1>1. K \in CmdType  BY PlacementTypes DEF PlacementIInv
<1>2. PICK p \in Scope(c) : Starts(c) /\ cmd' = [cmd EXCEPT ![c] = Ended([K EXCEPT !.p = p], "failed")]
  BY DEF PlaceRefused, RecallRefused
<1>3. PICK J : J = Ended([K EXCEPT !.p = p], "failed")  OBVIOUS
<1>4. J.pc = "done" /\ J.held = K.held /\ \A q \in Projects : J.seen[q] = None
  <2>1. PICK H : H = [K EXCEPT !.p = p]  OBVIOUS
  <2>2. J = Ended(H, "failed") /\ H.held = K.held  BY <1>1, <1>3, <2>1 DEF CmdType
  <2> QED BY <2>2, EndedFields
<1>5. UNCHANGED <<map, on, late, said>> /\ crossed \subseteq crossed' /\ K.pc = "ready"  BY <1>2 DEF Starts
<1>6. OnlyAdds /\ OwesOn(c)  BY <1>5 DEF OnlyAdds, OwesOn
<1>7. cmd' = [cmd EXCEPT ![c] = J] /\ K.pc # "done"  BY <1>2, <1>3, <1>5
<1> HIDE DEF K
<1> QED BY <1>4, <1>5, <1>6, <1>7, OneEnds DEF K

\* What a command that is about to write has to say of its entry.
LEMMA WriterKnows ==
  ASSUME PlacementIInv, NEW c \in Commands, Write(c)
  PROVE  LET K == cmd[c] IN
         /\ K.pc = "write" /\ K \in CmdType /\ Active(c) /\ UNCHANGED <<on, late, said, crossed>>
         /\ K.p \in Projects /\ K.node \in Nodes /\ K.p \in Scope(c) /\ map' = [map EXCEPT ![K.p] = K.put]
         /\ K.put # None => K.put = [nick |-> K.node, by |-> c] /\ Kind(c) # "down"
         /\ \A n \in Nodes : K.p \in on[n] =>
              \/ Doubted(K.p, n)
              \/ K.put # None /\ n = K.node
              \/ Kind(c) = "down" /\ (map[K.p] # None /\ map[K.p].nick = n => Owed(K.p, n))
<1> DEFINE K == cmd[c]
<1>1. TInv /\ Copied /\ Placing(c) /\ Stopping(c)  BY DEF PlacementIInv
<1>2. K.pc = "write" /\ K \in CmdType /\ UNCHANGED <<on, late, said, crossed>> /\ map' = [K.copy EXCEPT ![K.p] = K.put]
  BY <1>1, PlacementTypes DEF Write
<1>3. Active(c)  BY <1>2 DEF Active
<1>4. K.copy = map  BY <1>1, <1>2 DEF Copied
<1>5. K.p \in Projects /\ K.node \in Nodes /\ K.p \in Scope(c)
  BY <1>1, <1>2, <1>3, PlacementTypes DEF Placing, Stopping
<1>6. CASE Kind(c) # "down"
  <2>1. /\ \A n \in Nodes \ {K.node} : K.p \in on[n] => Doubted(K.p, n)
        /\ K.put = None => (K.p \in on[K.node] => Doubted(K.p, K.node))
        /\ K.put # None => K.put = [nick |-> K.node, by |-> c]
    BY <1>1, <1>2, <1>3, <1>6 DEF Placing
  <2> QED BY <1>2, <1>3, <1>4, <1>5, <1>6, <2>1
<1>7. CASE Kind(c) = "down"
  <2>1. /\ K.put = None /\ map[K.p] = K.held /\ K.held # None /\ K.node = K.held.nick
        /\ K.p \in on[K.node] => Doubted(K.p, K.node) \/ Owed(K.p, K.node)
    BY <1>1, <1>2, <1>3, <1>7 DEF Stopping
  <2> QED BY <1>2, <1>3, <1>4, <1>5, <1>7, <2>1
<1> QED BY <1>6, <1>7

\* After a write each session is accounted for,
LEMMA WriteAccounts ==
  ASSUME PlacementIInv, NEW c \in Commands, Write(c), setup' = setup, \A d \in Commands \ {c} : cmd'[d] = cmd[d]
  PROVE  Accounts' /\ LateIsTold' /\ PinsHold'
<1> DEFINE K == cmd[c]
<1>1. TInv /\ Accounts /\ LateIsTold /\ PinsHold /\ Placing(c)  BY DEF PlacementIInv
<1>2. /\ K.pc = "write" /\ Active(c) /\ UNCHANGED <<on, late, said, crossed>>
      /\ K.p \in Projects /\ K.node \in Nodes /\ map' = [map EXCEPT ![K.p] = K.put]
      /\ K.put # None => K.put = [nick |-> K.node, by |-> c] /\ Kind(c) # "down"
      /\ \A n \in Nodes : K.p \in on[n] =>
           \/ Doubted(K.p, n)
           \/ K.put # None /\ n = K.node
           \/ Kind(c) = "down" /\ (map[K.p] # None /\ map[K.p].nick = n => Owed(K.p, n))
  BY WriterKnows
<1>3. map'[K.p] = K.put /\ \A q \in Projects \ {K.p} : map'[q] = map[q]
  BY <1>1, <1>2 DEF TInv, TypeOK
<1>4. \A q, n : Doubted(q, n)' <=> Doubted(q, n)  BY <1>2 DEF Doubted
<1>5. \A q, n : Owed(q, n) /\ (q # K.p \/ Kind(c) = "down") => Owed(q, n)'
  <2>1. SUFFICES ASSUME NEW q, NEW n, q # K.p \/ Kind(c) = "down",
                        NEW d \in Commands, Kind(d) # "down", cmd[d].pc \in {"lock", "read", "write"},
                        cmd[d].put # None, cmd[d].p = q, cmd[d].node = n
                 PROVE  Owed(q, n)'
    BY DEF Owed
  <2>2. cmd'[d] = cmd[d] /\ Kind(d)' = Kind(d)  BY <2>1, SetupStays
  <2> QED BY <2>1, <2>2 DEF Owed
<1>6. ASSUME NEW q \in Projects, NEW n \in Nodes, q \in on[n]
      PROVE  At(q, n)' \/ Doubted(q, n) \/ Owed(q, n)'
  <2>1. At(q, n) \/ Doubted(q, n) \/ Owed(q, n)  BY <1>1, <1>6 DEF Accounts
  <2>2. CASE q # K.p  BY <1>3, <1>5, <2>1, <2>2 DEF At
  <2>3. CASE q = K.p
    <3>1. CASE K.put # None /\ n = K.node  BY <1>2, <1>3, <2>3, <3>1 DEF At
    <3>2. CASE Kind(c) = "down" /\ (map[K.p] # None /\ map[K.p].nick = n => Owed(K.p, n))
      BY <1>5, <2>1, <2>3, <3>2 DEF At
    <3> QED BY <1>2, <1>6, <2>3, <3>1, <3>2
  <2> QED BY <2>2, <2>3
<1>7. Accounts'  BY <1>2, <1>4, <1>6 DEF Accounts
<1>8. LateIsTold'  BY <1>1, <1>2, <1>4 DEF LateIsTold
<1>9. K.put # None => K.put.nick = K.node /\ setup.pin[K.p] \in {AnyNode, K.node}
  BY <1>1, <1>2 DEF Placing
<1>10. PinsHold'
  <2>1. SUFFICES ASSUME NEW q \in Projects
                 PROVE  /\ PinFits(q) /\ setup.pin[q] # AnyNode => map'[q] = None \/ map'[q].nick = setup.pin[q]
                        /\ ~PinFits(q) => \A n \in Nodes : (q \in on[n] => n = setup.at[q]) /\ <<q, n>> \notin late
    BY <1>2, SetupStays DEF PinsHold
  <2> HIDE DEF K
  <2> QED BY <1>1, <1>3, <1>9 DEF PinsHold
<1> QED BY <1>7, <1>8, <1>10

\* ... the other commands stand where they stood,
LEMMA WriteOthers ==
  ASSUME PlacementIInv, NEW c \in Commands, Write(c), setup' = setup, \A d \in Commands \ {c} : cmd'[d] = cmd[d],
         NEW d \in Commands \ {c}
  PROVE  Placing(d)' /\ Stopping(d)'
<1> DEFINE K == cmd[c]
           L == cmd[d]
<1>1. TInv /\ Apart /\ Unseen /\ Placing(d) /\ Stopping(d)  BY DEF PlacementIInv
<1>2. /\ K.pc = "write" /\ Active(c) /\ UNCHANGED <<on, late, said, crossed>>
      /\ K.p \in Projects /\ K.p \in Scope(c) /\ map' = [map EXCEPT ![K.p] = K.put]
      /\ K.put # None => K.put = [nick |-> K.node, by |-> c]
  BY WriterKnows
<1>3. map'[K.p] = K.put /\ \A q \in Projects \ {K.p} : map'[q] = map[q]
  BY <1>1, <1>2 DEF TInv, TypeOK
<1>4. Active(d) /\ K.p \in Scope(d) => d \in crossed  BY <1>1, <1>2 DEF Apart
<1>5. cmd'[d] = cmd[d] /\ Kind(d)' = Kind(d) /\ Scope(d)' = Scope(d) /\ (Active(d)' <=> Active(d)) /\ Scope(d) \subseteq Projects
  BY <1>1, SetupStays, PlacementTypes DEF Active
<1>6. \A q, n : Doubted(q, n)' <=> Doubted(q, n)  BY <1>2 DEF Doubted
<1>7. Placing(d)'
  <2>1. SUFFICES ASSUME Kind(d) # "down", Active(d)  PROVE Placing(d)'  BY <1>5 DEF Placing
  <2>2. L.p \in Scope(d)  BY <1>1, <2>1 DEF Placing
  <2>3. d \notin crossed' => map'[L.p] = map[L.p]  BY <1>2, <1>3, <1>4, <1>5, <2>1, <2>2
  <2>4. \A q \in Projects : PinFits(q)' = PinFits(q)  BY SetupStays
  <2> QED BY <1>1, <1>2, <1>5, <1>6, <2>1, <2>2, <2>3, <2>4 DEF Placing
<1>8. Stopping(d)'
  <2>1. SUFFICES ASSUME Kind(d) = "down", Active(d)  PROVE Stopping(d)'  BY <1>5 DEF Stopping
  <2>2. L.pc # "write"
    <3>1. L.pc = "write" => mapLock = c /\ mapLock = d  BY <1>1, <1>2 DEF TInv, TypeOK
    <3> QED BY <3>1
  <2>3. /\ L.pc \in {"next", "pull", "pulling", "kill", "lock", "read", "write"} /\ L.todo \subseteq Scope(d)
        /\ L.pc # "next" => L.p \in Scope(d) \ L.todo
        /\ L.pc \in {"pull", "pulling", "lock", "read", "write"} \/ (L.pc = "kill" /\ L.pulled) => L.held # None /\ L.node = L.held.nick
        /\ L.pc \in {"lock", "read", "write"} =>
             L.put = None /\ (L.p \in on[L.node] /\ map[L.p] = L.held => Doubted(L.p, L.node) \/ Owed(L.p, L.node))
        /\ d \notin crossed => \A p \in Scope(d) :
           /\ Pending(L, p) => L.seen[p] = (IF L.unread THEN None ELSE map[p])
           /\ Pending(L, p) /\ p \notin L.todo => L.node = Where(L, p)
           /\ ~Pending(L, p) => \A n \in Nodes : p \in on[n] => p \in L.still \/ Doubted(p, n)
    BY <1>1, <2>1 DEF Stopping
  <2>4. ASSUME L.pc \in {"lock", "read", "write"}, L.p \in on[L.node], map'[L.p] = L.held
        PROVE  Doubted(cmd[d].p, cmd[d].node)' \/ Owed(cmd[d].p, cmd[d].node)'
    <3>1. L.held # None /\ L.held.by # c /\ L.p \in Projects  BY <1>1, <1>2, <1>5, <2>3, <2>4 DEF Unseen
    <3>2. L.p # K.p  BY <1>2, <1>3, <2>4, <3>1
    <3>3. Doubted(L.p, L.node) \/ Owed(L.p, L.node)  BY <1>3, <2>3, <2>4, <3>1, <3>2
    <3>4. CASE Doubted(L.p, L.node)
      <4>1. said' = said /\ cmd'[d] = cmd[d]  BY <1>2, <1>5
      <4> QED BY <3>4, <4>1 DEF Doubted
    <3>5. CASE Owed(L.p, L.node)
      <4>1. PICK e \in Commands : /\ Kind(e) # "down" /\ cmd[e].pc \in {"lock", "read", "write"} /\ cmd[e].put # None
                                  /\ cmd[e].p = L.p /\ cmd[e].node = L.node
        BY <3>5 DEF Owed
      <4>2. cmd'[e] = cmd[e] /\ Kind(e)' = Kind(e)  BY <3>2, <4>1, SetupStays
      <4> QED BY <1>5, <4>1, <4>2 DEF Owed
    <3> QED BY <3>3, <3>4, <3>5
  <2>5. d \notin crossed => \A p \in Scope(d) : map'[p] = map[p]  BY <1>3, <1>4, <1>5, <2>1
  <2>6. \A p : (Pending(cmd[d], p)' <=> Pending(L, p)) /\ Where(cmd[d], p)' = Where(L, p)
    BY <1>5 DEF Pending, Where
  <2>7. d \notin crossed' => \A p \in Scope(d) :
           /\ Pending(L, p) => L.seen[p] = (IF L.unread THEN None ELSE map'[p])
           /\ Pending(L, p) /\ p \notin L.todo => L.node = Where(L, p)
           /\ ~Pending(L, p) => \A n \in Nodes : p \in on'[n] => p \in L.still \/ Doubted(p, n)
    BY <1>2, <2>3, <2>5
  <2> HIDE DEF L, K
  <2>8. cmd'[d] = L /\ on' = on  BY <1>2, <1>5 DEF L
  <2> QED BY <1>5, <1>6, <2>1, <2>2, <2>3, <2>4, <2>6, <2>7, <2>8 DEF Stopping, L
<1> QED BY <1>7, <1>8

\* ... and so does all else.
LEMMA WriteKeeps ==
  ASSUME PlacementIInv, TInv', Copied', NEW c \in Commands, setup' = setup, Write(c)
  PROVE  PlacementIInv'
<1> DEFINE K == cmd[c]
<1>1. TInv /\ Apart /\ Unseen /\ Placing(c) /\ Stopping(c) /\ Fresh  BY DEF PlacementIInv
<1>2. /\ K.pc = "write" /\ K \in CmdType /\ Active(c) /\ UNCHANGED <<on, late, said, crossed>>
      /\ K.p \in Projects /\ K.node \in Nodes /\ K.p \in Scope(c) /\ map' = [map EXCEPT ![K.p] = K.put]
      /\ K.put # None => K.put = [nick |-> K.node, by |-> c] /\ Kind(c) # "down"
  BY WriterKnows
<1>3. map'[K.p] = K.put /\ \A q \in Projects \ {K.p} : map'[q] = map[q]
  BY <1>1, <1>2 DEF TInv, TypeOK
<1>4. PICK J : J = Updated(c, K)  OBVIOUS
<1>5. cmd' = [cmd EXCEPT ![c] = J]  BY <1>4 DEF Write
<1>6. cmd'[c] = J /\ \A d \in Commands \ {c} : cmd'[d] = cmd[d]  BY <1>1, <1>5 DEF TInv, TypeOK
<1>7. /\ J.held = K.held /\ (J.seen = K.seen \/ \A q \in Projects : J.seen[q] = None) /\ J.pc # "ready"
      /\ Kind(c) = "down" => /\ J.pc = "next" /\ J.todo = K.todo /\ J.seen = K.seen /\ J.unread = K.unread /\ J.still = K.still
      /\ Kind(c) # "down" /\ J.pc # "done" =>
           Kind(c) = "to" /\ K.put = None /\ J.pc = "dial" /\ J.p = K.p /\ J.put = None /\ J.node = setup.run[c].to
  <2>1. CASE Kind(c) = "down"  BY <1>2, <1>4, <2>1 DEF Updated, CmdType
  <2>2. CASE Kind(c) = "to" /\ K.put = None  BY <1>2, <1>4, <2>2 DEF Updated, CmdType
  <2>3. CASE Kind(c) # "down" /\ ~(Kind(c) = "to" /\ K.put = None)
    <3>1. J = Ended(K, "ok")  BY <1>4, <2>3 DEF Updated
    <3> HIDE DEF K
    <3> QED BY <2>3, <3>1, EndedFields
  <2> QED BY <2>1, <2>2, <2>3
<1>8. Accounts' /\ LateIsTold' /\ PinsHold'  BY <1>6, WriteAccounts
<1>9. \A d \in Commands \ {c} : Placing(d)' /\ Stopping(d)'  BY <1>6, WriteOthers
<1>10. \A p, n : Doubted(p, n) => Told(p, n)  BY <1>2, DoubtsStay
<1>11. PlacesAs(c, J)
  <2>1. SUFFICES ASSUME Kind(c) = "to", K.put = None, J.pc = "dial", J.p = K.p, J.put = None, J.node = setup.run[c].to
                 PROVE  PlacesAs(c, J)
    BY <1>7 DEF PlacesAs
  <2>2. setup.pin[K.p] = AnyNode /\ \A n \in Nodes : K.p \in on[n] => Doubted(K.p, n)
    BY <1>1, <1>2, <2>1 DEF Placing
  <2> HIDE DEF K
  <2> QED BY <1>2, <1>10, <2>1, <2>2 DEF PlacesAs, PinFits
<1>12. StopsAs(c, J)
  <2>1. SUFFICES ASSUME Kind(c) = "down"  PROVE StopsAs(c, J)  BY DEF StopsAs
  <2>2. /\ K.todo \subseteq Scope(c) /\ K.p \notin K.todo
        /\ c \notin crossed => \A p \in Scope(c) :
           /\ Pending(K, p) => K.seen[p] = (IF K.unread THEN None ELSE map[p])
           /\ ~Pending(K, p) => \A n \in Nodes : p \in on[n] => p \in K.still \/ Doubted(p, n)
    BY <1>1, <1>2, <2>1 DEF Stopping
  <2>3. \A p : (Pending(J, p) <=> p \in K.todo) /\ (Pending(K, p) <=> p \in K.todo)
    BY <1>2, <1>7, <2>1 DEF Pending
  <2>4. Scope(c) \subseteq Projects  BY <1>1, PlacementTypes
  <2>5. c \notin crossed' => \A p \in Scope(c) :
           /\ Pending(J, p) => J.seen[p] = (IF J.unread THEN None ELSE map'[p])
           /\ ~Pending(J, p) => \A n \in Nodes : p \in on'[n] => p \in J.still \/ Told(p, n)
    BY <1>2, <1>3, <1>7, <1>10, <2>1, <2>2, <2>3, <2>4
  <2> QED BY <1>7, <2>1, <2>2, <2>3, <2>5 DEF StopsAs
<1>13. Placing(c)'  BY <1>1, <1>2, <1>6, <1>11, PlacesSo
<1>14. Stopping(c)'
  <2>1. CASE Kind(c) = "down"
    <3>1. OwesOn(c)  BY <2>1 DEF OwesOn
    <3> QED BY <1>1, <1>2, <1>6, <1>12, <3>1, StopsSo
  <2>2. CASE Kind(c) # "down"
    <3>1. Kind(c)' # "down"  BY <2>2, SetupStays
    <3> QED BY <3>1 DEF Stopping
  <2> QED BY <2>1, <2>2
<1>15. Unseen'
  <2>1. SUFFICES ASSUME NEW b \in Commands, cmd'[b].pc # "done"
                 PROVE  /\ \A p \in Projects : map'[p] # None => map'[p].by # b
                        /\ \A d \in Commands : /\ cmd'[d].held # None => cmd'[d].held.by # b
                                               /\ \A p \in Projects : cmd'[d].seen[p] # None => cmd'[d].seen[p].by # b
    BY DEF Unseen
  <2>2. cmd[b].pc # "done"  BY <1>2, <1>6, <2>1
  <2>3. /\ \A p \in Projects : map[p] # None => map[p].by # b
        /\ \A d \in Commands : /\ cmd[d].held # None => cmd[d].held.by # b
                               /\ \A p \in Projects : cmd[d].seen[p] # None => cmd[d].seen[p].by # b
    BY <1>1, <2>2 DEF Unseen
  <2>4. K.put # None => b # c  BY <1>2, <1>6, <1>7, <2>1
  <2>5. \A p \in Projects : map'[p] # None => map'[p].by # b
    <3>1. K.put # None => K.put.by = c  BY <1>2
    <3> HIDE DEF K
    <3> QED BY <1>3, <2>3, <2>4, <3>1
  <2> QED BY <1>6, <1>7, <2>3, <2>5
<1>16. Apart'  BY <1>1, <1>2, <1>6, ApartStays
<1>17. InOrder' /\ Fresh'
  <2>1. InOrder'  BY SetupStays DEF PlacementIInv
  <2> QED BY <1>1, <1>6, <1>7, <2>1 DEF Fresh
<1> QED BY <1>8, <1>9, <1>13, <1>14, <1>15, <1>16, <1>17 DEF PlacementIInv

\* The world's steps: a late session is one the user was told of.
LEMMA NobodyGoes ==
  ASSUME PlacementIInv, TInv', Copied', UNCHANGED <<setup, map, said, cmd, crossed>>, late' \subseteq late,
         \A p \in Projects, n \in Nodes : (p \in on[n] => p \in on'[n]) /\ (p \in on'[n] => p \in on[n] \/ <<p, n>> \in late)
  PROVE  PlacementIInv'
<1>1. /\ TInv /\ InOrder /\ Accounts /\ LateIsTold /\ PinsHold /\ Unseen /\ Apart /\ Fresh
      /\ \A c \in Commands : Placing(c) /\ Stopping(c)
  BY DEF PlacementIInv
<1>2. \A c : Kind(c)' = Kind(c) /\ Scope(c)' = Scope(c) /\ (Active(c)' <=> Active(c))
  BY DEF Kind, Scope, Active
<1>3. \A p, n : (Doubted(p, n)' <=> Doubted(p, n)) /\ (At(p, n)' <=> At(p, n)) /\ (Owed(p, n) => Owed(p, n)')
  BY <1>2 DEF Doubted, At, Owed
<1>4. \A p \in Projects : PinFits(p)' <=> PinFits(p)  BY DEF PinFits
<1>5. \A p \in Projects, n \in Nodes : p \in on'[n] => p \in on[n] \/ Doubted(p, n)
  BY <1>1 DEF LateIsTold
<1>6. Accounts'  BY <1>1, <1>3, <1>5 DEF Accounts
<1>7. LateIsTold'  BY <1>1, <1>3 DEF LateIsTold
<1>8. PinsHold'  BY <1>1, <1>4 DEF PinsHold
<1>9. Unseen' /\ Fresh'  BY <1>1 DEF Unseen, Fresh
<1>10. Apart'  BY <1>1, <1>2 DEF Apart
<1>11. InOrder'  BY <1>1, SetupStays
<1>12. ASSUME NEW c \in Commands, Active(c)
       PROVE  /\ Scope(c) \subseteq Projects
              /\ cmd[c].pc # "next" => cmd[c].p \in Projects /\ cmd[c].node \in Nodes
  BY <1>1, <1>12, PlacementTypes
<1>13. ASSUME NEW c \in Commands  PROVE Placing(c)'
  <2>1. SUFFICES ASSUME Kind(c) # "down", Active(c)  PROVE Placing(c)'  BY <1>2 DEF Placing
  <2> DEFINE K == cmd[c]
  <2>2. /\ K.p \in Scope(c) /\ K.pc # "next"
        /\ \A n \in Nodes \ {K.node} : K.p \in on[n] => Doubted(K.p, n)
        /\ K.put = None /\ K.pc \in {"install", "lock", "read", "write"} => (K.p \in on[K.node] => Doubted(K.p, K.node))
        /\ K.put # None => K.put = [nick |-> K.node, by |-> c] /\ K.pc \in {"lock", "read", "write"}
        /\ Kind(c) = "up" => K.pc \in {"dial", "bring"} \/ K.put # None
        /\ Kind(c) = "local" => K.put = None /\ K.pc \notin {"dial", "bring"}
        /\ Kind(c) = "to" => setup.pin[K.p] = AnyNode
        /\ K.pc \in {"dial", "bring"} \/ K.put # None => PinFits(K.p) /\ setup.pin[K.p] \in {AnyNode, K.node}
        /\ c \notin crossed => (K.put # None => K.p \in on[K.node]) /\ (Kind(c) = "local" => map[K.p] = K.held)
    BY <1>1, <2>1 DEF Placing
  <2>3. K.p \in Projects /\ K.node \in Nodes  BY <1>12, <2>1, <2>2
  <2>4. \A n \in Nodes \ {K.node} : K.p \in on'[n] => Doubted(K.p, n)  BY <1>5, <2>2, <2>3
  <2>5. K.put = None /\ K.pc \in {"install", "lock", "read", "write"} => (K.p \in on'[K.node] => Doubted(K.p, K.node))
    BY <1>5, <2>2, <2>3
  <2>6. K.p \in on[K.node] => K.p \in on'[K.node]  BY <2>3
  <2>7. cmd'[c] = K /\ setup' = setup /\ map' = map /\ crossed' = crossed  OBVIOUS
  <2> HIDE DEF K
  <2> QED BY <1>2, <1>3, <1>4, <2>2, <2>3, <2>4, <2>5, <2>6, <2>7 DEF Placing, K
<1>14. ASSUME NEW c \in Commands  PROVE Stopping(c)'
  <2>1. SUFFICES ASSUME Kind(c) = "down", Active(c)  PROVE Stopping(c)'  BY <1>2 DEF Stopping
  <2> DEFINE K == cmd[c]
  <2>2. /\ K.pc \in {"next", "pull", "pulling", "kill", "lock", "read", "write"} /\ K.todo \subseteq Scope(c)
        /\ K.pc # "next" => K.p \in Scope(c) \ K.todo
        /\ K.pc \in {"pull", "pulling", "lock", "read", "write"} \/ (K.pc = "kill" /\ K.pulled) => K.held # None /\ K.node = K.held.nick
        /\ K.pc \in {"lock", "read", "write"} =>
             K.put = None /\ (K.p \in on[K.node] /\ map[K.p] = K.held => Doubted(K.p, K.node) \/ Owed(K.p, K.node))
        /\ K.pc = "write" => map[K.p] = K.held
        /\ c \notin crossed => \A p \in Scope(c) :
           /\ Pending(K, p) => K.seen[p] = (IF K.unread THEN None ELSE map[p])
           /\ Pending(K, p) /\ p \notin K.todo => K.node = Where(K, p)
           /\ ~Pending(K, p) => \A n \in Nodes : p \in on[n] => p \in K.still \/ Doubted(p, n)
    BY <1>1, <2>1 DEF Stopping
  <2>3. K.pc # "next" => K.p \in Projects /\ K.node \in Nodes  BY <1>12, <2>1
  <2>4. K.pc \in {"lock", "read", "write"} =>
          K.put = None /\ (K.p \in on'[K.node] /\ map[K.p] = K.held => Doubted(K.p, K.node) \/ Owed(K.p, K.node))
    BY <1>5, <2>2, <2>3
  <2>5. c \notin crossed => \A p \in Scope(c) :
           /\ Pending(K, p) => K.seen[p] = (IF K.unread THEN None ELSE map[p])
           /\ Pending(K, p) /\ p \notin K.todo => K.node = Where(K, p)
           /\ ~Pending(K, p) => \A n \in Nodes : p \in on'[n] => p \in K.still \/ Doubted(p, n)
    BY <1>5, <1>12, <2>1, <2>2
  <2>6. \A p : (Pending(cmd[c], p)' <=> Pending(K, p)) /\ Where(cmd[c], p)' = Where(K, p)  BY DEF Pending, Where
  <2>7. Owed(cmd[c].p, cmd[c].node) => Owed(cmd[c].p, cmd[c].node)'
    <3>1. SUFFICES ASSUME NEW d \in Commands, Kind(d) # "down", cmd[d].pc \in {"lock", "read", "write"},
                          cmd[d].put # None, cmd[d].p = cmd[c].p, cmd[d].node = cmd[c].node
                   PROVE  Owed(cmd[c].p, cmd[c].node)'
      BY DEF Owed
    <3> QED BY <1>2, <3>1 DEF Owed
  <2>8. Doubted(cmd[c].p, cmd[c].node) => Doubted(cmd[c].p, cmd[c].node)'  BY DEF Doubted
  <2>9. cmd'[c] = K /\ setup' = setup /\ map' = map /\ crossed' = crossed  OBVIOUS
  <2> HIDE DEF K
  <2> QED BY <1>2, <1>3, <2>2, <2>4, <2>5, <2>6, <2>7, <2>8, <2>9 DEF Stopping, K
<1> QED BY <1>6, <1>7, <1>8, <1>9, <1>10, <1>11, <1>13, <1>14 DEF PlacementIInv

\* The world starts a session late, tears the map, or has the daemon pull.
LEMMA WorldKeeps ==
  ASSUME PlacementIInv, TInv', Copied', setup' = setup, World
  PROVE  PlacementIInv'
<1>1. CASE StartsLate
  <2>1. PICK l \in late : on' = [on EXCEPT ![l[2]] = @ \cup {l[1]}] /\ late' = late \ {l} /\ UNCHANGED <<map, said, cmd, crossed>>
    BY <1>1 DEF StartsLate
  <2>2. l \in Projects \X Nodes /\ l = <<l[1], l[2]>>  BY <2>1 DEF PlacementIInv, TInv, TypeOK
  <2>3. \A p \in Projects, n \in Nodes : (p \in on[n] => p \in on'[n]) /\ (p \in on'[n] => p \in on[n] \/ <<p, n>> \in late)
    BY <2>1, <2>2 DEF PlacementIInv, TInv, TypeOK
  <2> QED BY <2>1, <2>3, NobodyGoes
<1>2. CASE Tear \/ \E n \in Nodes : TickStarts(n) \/ TickEnds(n)
  <2>1. UNCHANGED <<map, on, late, said, cmd, crossed>>  BY <1>2 DEF Tear, TickStarts, TickEnds
  <2> QED BY <2>1, NobodyGoes
<1> QED BY <1>1, <1>2 DEF World

\* What earlier commands left is in the map.
LEMMA PlacementInit == Init /\ InOrder => PlacementIInv
<1> SUFFICES ASSUME Init, InOrder  PROVE PlacementIInv
  OBVIOUS
<1>1. TInv /\ Copied  BY InitTypes
<1>2. /\ map = [p \in Projects |-> IF setup.at[p] = None THEN None ELSE [nick |-> setup.at[p], by |-> None]]
      /\ on = [n \in Nodes |-> {p \in Projects \ setup.gone : setup.at[p] = n}]
      /\ late = {} /\ cmd = [c \in Commands |-> Ready]
  BY DEF Init
<1>3. \A c \in Commands : cmd[c] = Ready /\ ~Active(c) /\ cmd[c].held = None /\ (\A p \in Projects : cmd[c].seen[p] = None)
  BY <1>2 DEF Active, Ready, Blank
<1>4. \A p \in Projects, n \in Nodes : p \in on[n] => setup.at[p] = n /\ n # None  BY <1>2, NamesAssumption
<1>5. Accounts
  <2>1. \A n \in Nodes : [nick |-> n, by |-> None] # None  BY NamesAssumption DEF Store!Entries
  <2> QED BY <1>2, <1>4, <2>1 DEF Accounts, At
<1>6. LateIsTold  BY <1>2 DEF LateIsTold
<1>7. PinsHold  BY <1>2, <1>4 DEF PinsHold, PinFits
<1>8. Unseen /\ Apart /\ Fresh
  <2>1. \A c \in Commands : c # None  BY NamesAssumption
  <2> QED BY <1>2, <1>3, <2>1 DEF Unseen, Apart, Fresh
<1>9. \A c \in Commands : Placing(c) /\ Stopping(c)  BY <1>3 DEF Placing, Stopping
<1> QED BY <1>1, <1>5, <1>6, <1>7, <1>8, <1>9 DEF PlacementIInv

\* Every step keeps it all.
LEMMA PlacementStep == PlacementIInv /\ [Next]_allvars => PlacementIInv'
<1> SUFFICES ASSUME PlacementIInv, [Next]_allvars  PROVE PlacementIInv'
  OBVIOUS
<1>1. TInv' /\ Copied'  BY TypeStep, CopyStep DEF PlacementIInv
<1>2. CASE UNCHANGED allvars
  <2>1. UNCHANGED <<setup, map, on, late, said, cmd, crossed>>  BY <1>2 DEF allvars, vars
  <2> QED BY <1>1, <2>1, NobodyGoes
<1>3. CASE Next
  <2>1. setup' = setup  BY <1>3 DEF Next
  <2>2. ASSUME NEW c \in Commands, Start(c)  PROVE PlacementIInv'
    BY <1>1, <2>1, <2>2, PlaceKeeps, RefusedKeeps, DownReadsKeeps, RecallReadsKeeps DEF Start
  <2>3. ASSUME NEW c \in Commands, Step(c)  PROVE PlacementIInv'
    BY <1>1, <2>1, <2>3, EndsKeep, GoesKeep, FailsKeep, UnpulledKeep, SkipsKeeps, TakesKeeps, BringUpKeeps, KillKeeps, WriteKeeps
       DEF Step
  <2>4. ASSUME NEW c \in Commands, Breaks(c)  PROVE PlacementIInv'
    BY <1>1, <2>1, <2>4, EndsKeep, GoesKeep, FailsKeep, UnpulledKeep, KillUnknownKeeps DEF Breaks
  <2> QED BY <1>1, <1>3, <2>1, <2>2, <2>3, <2>4, WorldKeeps DEF Next
<1> QED BY <1>2, <1>3

\* What is owed is owed by a command at work.
LEMMA AllAccounted == PlacementIInv => Accounted
<1> SUFFICES ASSUME PlacementIInv, NEW p \in Projects, NEW n \in Nodes, p \in on[n],
                    \A c \in Commands : p \in Scope(c) => ~Active(c), Owed(p, n)
             PROVE  FALSE
  BY DEF PlacementIInv, Accounts, Accounted
<1>1. PICK d \in Commands : Kind(d) # "down" /\ cmd[d].pc \in {"lock", "read", "write"} /\ cmd[d].p = p
  BY DEF Owed
<1> QED BY <1>1 DEF PlacementIInv, Placing, Active

\* Two sessions of a project: one is not where its mover is, or the map has but one.
LEMMA AtOneHome == PlacementIInv => OneHome
<1> SUFFICES ASSUME PlacementIInv, NEW p \in Projects, NEW n \in Nodes, NEW m \in Nodes, n # m, p \in on[n] \cap on[m]
             PROVE  Doubted(p, n) \/ Doubted(p, m)
  BY DEF OneHome
<1>1. ASSUME Owed(p, n) \/ Owed(p, m)  PROVE Doubted(p, n) \/ Doubted(p, m)
  <2>1. PICK d \in Commands : Kind(d) # "down" /\ cmd[d].pc \in {"lock", "read", "write"} /\ cmd[d].p = p /\ cmd[d].node \in {n, m}
    BY <1>1 DEF Owed
  <2> QED BY <2>1 DEF PlacementIInv, Placing, Active
<1> QED BY <1>1 DEF PlacementIInv, Accounts, At

\* What the end of c says, by the end of the step.
Claims(c, J) ==
  /\ J.out = "attached" => J.p \in on'[J.node]
  /\ J.out = "ok" /\ Kind(c) \in {"up", "to"} =>
       /\ J.p \in on'[J.node] /\ (map'[J.p] = J.put \/ Told(J.p, J.node))
       /\ \A n \in Nodes \ {J.node} : J.p \in on'[n] => Told(J.p, n)
  /\ J.out = "ok" /\ Kind(c) = "local" => map'[J.p] = None /\ \A n \in Nodes : J.p \in on'[n] => Told(J.p, n)
  /\ J.out = "ok" /\ Kind(c) = "down" => \A p \in Scope(c), n \in Nodes : p \in on'[n] => p \in J.still \/ Told(p, n)
  /\ J.out = "failed" /\ Kind(c) = "local" => (J.held # None => map'[J.p] = J.held)

\* ... as the property says it.
LEMMA ClaimsSo ==
  ASSUME NEW c \in Commands, setup' = setup, said \subseteq said', Claims(c, cmd'[c])
  PROVE  Claim(c)'
<1>1. Kind(c)' = Kind(c) /\ Scope(c)' = Scope(c)  BY SetupStays
<1>2. \A p, n : Doubted(p, n)' <=> Told(p, n)  BY DoubtsStay
<1> QED BY <1>1, <1>2 DEF Claims, Claim

\* The ends that say nothing, but that a recall which failed to bring a project home left it placed.
LEMMA EndsPlainly ==
  ASSUME PlacementIInv, NEW c \in Commands, Active(c), c \notin crossed, map' = map, NEW out \in {"failed", "died"}
  PROVE  Claims(c, Ended(cmd[c], out))
<1> DEFINE K == cmd[c]
<1>1. Kind(c) = "local" => map[K.p] = K.held  BY DEF PlacementIInv, Placing
<1>2. PICK J : J = Ended(K, out)  OBVIOUS
<1> HIDE DEF K
<1>3. J.out = out /\ J.p = K.p /\ J.held = K.held  BY <1>2, EndedFields
<1> QED BY <1>1, <1>2, <1>3 DEF Claims, K

\* A command ends on a change made,
LEMMA WriteIsHonest ==
  ASSUME PlacementIInv, NEW c \in Commands, c \notin crossed, Write(c), cmd'[c].pc \in {"ready", "done"}
  PROVE  Claims(c, cmd'[c])
<1> DEFINE K == cmd[c]
<1>1. TInv /\ Placing(c)  BY DEF PlacementIInv
<1>2. /\ K.pc = "write" /\ K \in CmdType /\ Active(c) /\ UNCHANGED <<on, late, said, crossed>>
      /\ K.p \in Projects /\ K.node \in Nodes /\ K.p \in Scope(c) /\ map' = [map EXCEPT ![K.p] = K.put]
      /\ K.put # None => K.put = [nick |-> K.node, by |-> c] /\ Kind(c) # "down"
      /\ \A n \in Nodes : K.p \in on[n] =>
           \/ Doubted(K.p, n)
           \/ K.put # None /\ n = K.node
           \/ Kind(c) = "down" /\ (map[K.p] # None /\ map[K.p].nick = n => Owed(K.p, n))
  BY WriterKnows
<1>3. map'[K.p] = K.put  BY <1>1, <1>2 DEF TInv, TypeOK
<1>4. cmd'[c] = Updated(c, K)  BY <1>1 DEF Write, TInv, TypeOK
<1>5. Kind(c) # "down" /\ (Kind(c) = "to" => K.put # None) /\ cmd'[c] = Ended(K, "ok")
  <2>1. CASE Kind(c) = "down"  BY <1>2, <1>4, <2>1 DEF Updated, CmdType
  <2>2. CASE Kind(c) = "to" /\ K.put = None  BY <1>2, <1>4, <2>2 DEF Updated, CmdType
  <2> QED BY <1>4, <2>1, <2>2 DEF Updated
<1>6. PICK J : J = cmd'[c]  OBVIOUS
<1>7. J.out = "ok" /\ J.p = K.p /\ J.node = K.node /\ J.put = K.put
  <2> HIDE DEF K
  <2> QED BY <1>5, <1>6, EndedFields
<1>8. /\ Kind(c) = "up" => K.put # None
      /\ Kind(c) = "local" => K.put = None
      /\ K.put # None => K.p \in on[K.node]
  BY <1>1, <1>2, <1>5 DEF Placing
<1>9. \A p, n : Doubted(p, n) => Told(p, n)  BY <1>2, DoubtsStay
<1> HIDE DEF K
<1> QED BY <1>2, <1>3, <1>5, <1>6, <1>7, <1>8, <1>9 DEF Claims

\* ... on one that could not be made,
LEMMA FailsIsHonest ==
  ASSUME PlacementIInv, NEW c \in Commands, c \notin crossed, LockHeld(c) \/ ReadTorn(c) \/ WriteFails(c), cmd'[c].pc \in {"ready", "done"}
  PROVE  said \subseteq said' /\ Claims(c, cmd'[c])
<1> DEFINE K == cmd[c]
<1>1. TInv /\ Placing(c)  BY DEF PlacementIInv
<1>2. Fails(c) /\ K.pc \in Updating  BY DEF LockHeld, ReadTorn, WriteFails, Updating
<1>3. Active(c) /\ K \in CmdType  BY <1>1, <1>2, PlacementTypes DEF Active, Updating
<1>4. UNCHANGED <<map, on>> /\ cmd'[c] = NotUpdated(c, K)  BY <1>1, <1>2 DEF Fails, TInv, TypeOK
<1>5. said \subseteq said' /\ (K.put # None => Told(K.p, K.node))
  <2>1. Warns(K)  BY <1>2 DEF Fails
  <2> HIDE DEF K
  <2> QED BY <2>1, WarnsTells
<1>6. Kind(c) # "down" /\ cmd'[c] = Ended(K, IF K.put = None THEN "failed" ELSE "ok")
  <2>1. CASE Kind(c) = "down"  BY <1>3, <1>4, <2>1 DEF NotUpdated, CmdType
  <2> QED BY <1>4, <2>1 DEF NotUpdated
<1>7. CASE K.put = None
  <2>1. cmd'[c] = Ended(cmd[c], "failed")  BY <1>6, <1>7
  <2> QED BY <1>3, <1>4, <1>5, <2>1, EndsPlainly
<1>8. CASE K.put # None
  <2>1. PICK J : J = cmd'[c]  OBVIOUS
  <2>2. J.out = "ok" /\ J.p = K.p /\ J.node = K.node
    <3> HIDE DEF K
    <3> QED BY <1>6, <1>8, <2>1, EndedFields
  <2>3. Kind(c) # "local" /\ K.p \in on[K.node] /\ \A n \in Nodes \ {K.node} : K.p \in on[n] => Doubted(K.p, n)
    BY <1>1, <1>3, <1>6, <1>8 DEF Placing
  <2>4. \A p, n : Doubted(p, n) => Told(p, n)  BY <1>5, DoubtsStay
  <2> HIDE DEF K
  <2> QED BY <1>4, <1>5, <1>6, <1>8, <2>1, <2>2, <2>3, <2>4 DEF Claims
<1> QED BY <1>7, <1>8

\* ... with nothing left to stop,
LEMMA DownIsHonest ==
  ASSUME PlacementIInv, NEW c \in Commands, c \notin crossed, DownEnds(c)
  PROVE  Claims(c, cmd'[c])
<1> DEFINE K == cmd[c]
<1>1. TInv /\ Placing(c) /\ Stopping(c)  BY DEF PlacementIInv
<1>2. K.pc = "next" /\ K.todo = {} /\ UNCHANGED <<map, on, said>> /\ cmd'[c] = Ended(K, "ok")
  BY <1>1 DEF DownEnds, TInv, TypeOK
<1>3. Active(c) /\ Kind(c) = "down"  BY <1>1, <1>2 DEF Active, Placing
<1>4. \A p \in Scope(c) : ~Pending(K, p)  BY <1>2 DEF Pending
<1>5. \A p \in Scope(c), n \in Nodes : p \in on[n] => p \in K.still \/ Doubted(p, n)
  BY <1>1, <1>3, <1>4 DEF Stopping
<1>6. PICK J : J = cmd'[c]  OBVIOUS
<1>7. J.out = "ok" /\ J.still = K.still
  <2> HIDE DEF K
  <2> QED BY <1>2, <1>6, EndedFields
<1>8. \A p, n : Doubted(p, n) => Told(p, n)  BY <1>2, DoubtsStay
<1> HIDE DEF K
<1> QED BY <1>2, <1>3, <1>5, <1>6, <1>7, <1>8 DEF Claims

\* ... attached to what runs,
LEMMA AttachedIsHonest ==
  ASSUME PlacementIInv, NEW c \in Commands, DirtyAttached(c)
  PROVE  Claims(c, cmd'[c])
<1> DEFINE K == cmd[c]
<1>1. K.p \in on[K.node] /\ on' = on /\ cmd'[c] = Ended(K, "attached")
  BY DEF DirtyAttached, Attachable, PlacementIInv, TInv, TypeOK
<1>2. PICK J : J = cmd'[c]  OBVIOUS
<1> HIDE DEF K
<1>3. J.out = "attached" /\ J.p = K.p /\ J.node = K.node  BY <1>1, <1>2, EndedFields
<1> QED BY <1>1, <1>2, <1>3 DEF Claims

\* ... or with nothing claimed.
LEMMA PlainEnds ==
  ASSUME PlacementIInv, NEW c \in Commands, c \notin crossed, Active(c), cmd'[c].pc \in {"ready", "done"},
         \/ DirtyRefused(c) \/ DirtyUnknown(c) \/ NodeBusy(c) \/ BringUpFails(c) \/ BringUpLost(c) \/ InstallFails(c) \/ Dies(c)
         \/ PullCannot(c) \/ PullFails(c)
  PROVE  said \subseteq said' /\ Claims(c, cmd'[c])
<1> DEFINE K == cmd[c]
<1>1. TInv  BY DEF PlacementIInv
<1>2. cmd \in [Commands -> CmdType] /\ K \in CmdType  BY <1>1 DEF TInv, TypeOK
<1>3. map' = map /\ said \subseteq said'
  BY DEF DirtyRefused, DirtyUnknown, NodeBusy, BringUpFails, BringUpLost, InstallFails, Dies, PullCannot, PullFails, Unsure
<1>4. CASE DirtyRefused(c) \/ DirtyUnknown(c) \/ NodeBusy(c) \/ BringUpFails(c) \/ BringUpLost(c) \/ InstallFails(c) \/ Dies(c)
  <2>1. PICK out \in {"failed", "died"} : cmd'[c] = Ended(cmd[c], out)
    BY <1>2, <1>4 DEF DirtyRefused, DirtyUnknown, NodeBusy, BringUpFails, BringUpLost, InstallFails, Dies
  <2> QED BY <1>3, <2>1, EndsPlainly
<1>5. CASE PullCannot(c) \/ PullFails(c)
  <2>1. cmd'[c] = IF Kind(c) = "down" THEN [cmd[c] EXCEPT !.pc = "kill"] ELSE Ended(cmd[c], "failed")
    BY <1>2, <1>5 DEF PullCannot, PullFails, NotPulled
  <2>2. cmd'[c] = Ended(cmd[c], "failed")  BY <1>2, <2>1 DEF CmdType
  <2> QED BY <1>3, <2>2, EndsPlainly
<1> QED BY <1>4, <1>5

\* The steps after which a command goes on.
LEMMA GoOn ==
  ASSUME TInv, NEW c \in Commands,
         \/ Dial(c) \/ BringUp(c) \/ Lock(c) \/ Read(c) \/ ReadOther(c) \/ Skips(c) \/ Takes(c) \/ PullStarts(c) \/ Pulled(c)
         \/ PullNoAnswer(c) \/ Kill(c) \/ KillUnknown(c) \/ Install(c)
  PROVE  cmd'[c].pc \notin {"ready", "done"}
<1> DEFINE K == cmd[c]
<1>1. cmd \in [Commands -> CmdType] /\ K \in CmdType  BY DEF TInv, TypeOK
<1>2. CASE Dial(c) \/ BringUp(c) \/ Lock(c)  BY <1>1, <1>2 DEF Dial, BringUp, Lock, CmdType
<1>3. CASE Read(c)
  <2>1. cmd'[c] = [K EXCEPT !.pc = "write", !.copy = map]  BY <1>1, <1>3 DEF Read
  <2> QED BY <1>1, <2>1 DEF CmdType
<1>4. CASE ReadOther(c)
  <2>1. cmd'[c] = [K EXCEPT !.pc = "next", !.copy = Blank]  BY <1>1, <1>4 DEF ReadOther, Expected, Updated
  <2> QED BY <1>1, <2>1 DEF CmdType
<1>5. CASE Skips(c)
  <2>1. PICK todo, still : K.pc = "next" /\ cmd' = [cmd EXCEPT ![c].todo = todo, ![c].still = still]
    BY <1>5 DEF Skips
  <2> QED BY <1>1, <2>1 DEF CmdType
<1>6. CASE Takes(c)
  <2>1. PICK p \in K.todo :
          cmd' = [cmd EXCEPT ![c] = [K EXCEPT !.todo = @ \ {p}, !.p = p, !.node = Where(K, p), !.held = K.seen[p],
                                              !.pulled = FALSE, !.pc = IF K.seen[p] = None THEN "kill" ELSE "pull"]]
    BY <1>6 DEF Takes
  <2> QED BY <1>1, <2>1 DEF CmdType
<1>7. CASE PullStarts(c) \/ Pulled(c) \/ PullNoAnswer(c)  BY <1>1, <1>7 DEF PullStarts, Pulled, PullNoAnswer, CmdType
<1>8. CASE Kill(c)  BY <1>1, <1>8 DEF Kill, Killed, CmdType
<1>9. CASE KillUnknown(c)
  <2>1. cmd'[c] = IF Kind(c) = "down" THEN [K EXCEPT !.pc = "next", !.still = @ \cup {K.p}, !.lost = @ \cup {K.node}]
                  ELSE [K EXCEPT !.pc = "install"]
    BY <1>1, <1>9 DEF KillUnknown
  <2> QED BY <1>1, <2>1 DEF CmdType
<1>10. CASE Install(c)
  <2>1. cmd' = [cmd EXCEPT ![c].pc = "lock", ![c].put = None]  BY <1>10 DEF Install
  <2> QED BY <1>1, <2>1 DEF CmdType
<1> QED BY <1>2, <1>3, <1>4, <1>5, <1>6, <1>7, <1>8, <1>9, <1>10

\* So every end is on a true word.
LEMMA EndsAreHonest ==
  PlacementIInv /\ TInv' /\ [Next]_allvars => [\A c \in Commands : Active(c) /\ ~Active(c)' /\ c \notin crossed => Claim(c)']_vars
<1> SUFFICES ASSUME PlacementIInv, TInv', Next, NEW c \in Commands, Active(c), ~Active(c)', c \notin crossed
             PROVE  Claim(c)'
  BY DEF allvars
<1>1. TInv /\ setup' = setup /\ Fresh /\ cmd[c].pc \notin {"ready", "done"} /\ cmd'[c].pc \in {"ready", "done"}
  BY DEF PlacementIInv, Next, Active
<1>2. cmd'[c] # cmd[c]  BY <1>1
<1>3. ASSUME NEW d \in Commands, Start(d) \/ Step(d) \/ Breaks(d)  PROVE d = c
  <2>1. Aside(d) \/ Lock(d) \/ Read(d) \/ Write(d)  BY <1>1, <1>3, StartsAside, GoesAside
  <2>2. \A e \in Commands \ {d} : cmd'[e] = cmd[e]  BY <1>1, <2>1 DEF Aside, Lock, Read, Write, TInv, TypeOK
  <2> QED BY <1>2, <2>2
<1>4. ~World  BY <1>2 DEF World, StartsLate, Tear, TickStarts, TickEnds
<1>5. Step(c) \/ Breaks(c)
  <2>1. ~Start(c)  BY <1>1 DEF Start, Place, PlaceRefused, DownReads, RecallReads, RecallRefused, Starts
  <2> QED BY <1>3, <1>4, <2>1 DEF Next
<1>7. SUFFICES said \subseteq said' /\ Claims(c, cmd'[c])  BY <1>1, ClaimsSo
<1>8. CASE Write(c)
  BY <1>1, <1>8, WriteIsHonest DEF Write
<1>9. CASE LockHeld(c) \/ ReadTorn(c) \/ WriteFails(c)
  BY <1>1, <1>9, FailsIsHonest
<1>10. CASE DownEnds(c)
  BY <1>10, DownIsHonest DEF DownEnds
<1>11. CASE DirtyAttached(c)
  BY <1>11, AttachedIsHonest DEF DirtyAttached
<1> QED BY <1>1, <1>5, <1>7, <1>8, <1>9, <1>10, <1>11, PlainEnds, GoOn DEF Step, Breaks

\* Sessions are where the map or the user was told they are (Accounted), a project has one home (OneHome), and commands
\* end on a true word (Honest): whatever nodes, locks, the map and the network do, and however `down` falls among the
\* others, if commands that start one project do not overlap and none is brought up away from its pin.
THEOREM PlacementsAreToldHolds == Spec /\ InOrder => PlacementsAreTold
<1>1. Init /\ InOrder => PlacementIInv  BY PlacementInit
<1>2. PlacementIInv /\ [Next]_allvars => PlacementIInv'  BY PlacementStep
<1>3. PlacementIInv => Accounted /\ OneHome /\ TInv  BY AllAccounted, AtOneHome DEF PlacementIInv
<1>4. PlacementIInv /\ TInv' /\ [Next]_allvars =>
        [\A c \in Commands : Active(c) /\ ~Active(c)' /\ c \notin crossed => Claim(c)']_vars
  BY EndsAreHonest
<1> QED BY <1>1, <1>2, <1>3, <1>4, PTL DEF Spec, PlacementsAreTold, Honest

-----------------------------------------------------------------------------
(* What a PC applies to a node (NodeApply).                                *)

HIDE NamesAssumption

\* What the run goes by: the store, or what it holds of it.
GoesBy == IF applying.at = "off" THEN provisioned ELSE applying.mem
StoreFits(m) == DOMAIN m = {"dig", "merged", "shipped", "sha"} /\ DOMAIN m.dig = PlainStep /\ m.sha \in [Entry -> Nat]
PayloadFits(p) == DOMAIN p = {"ver", "keys", "tok", "ships", "reads"} /\ p.tok \in [Entry -> Nat]
ApplyFits ==
  /\ about.steps \subseteq PlainStep \cup {"settings", "mcp_oauth"}
  /\ DOMAIN applying = {"at", "pay", "mem", "force", "doing", "tries", "saw"} /\ applying.at \in DOMAIN Rank
  /\ PayloadFits(payload) /\ PayloadFits(applying.pay) /\ StoreFits(provisioned) /\ StoreFits(applying.mem)
  /\ DOMAIN laid = PlainStep /\ DOMAIN strays = {"keys", "steps"} /\ delivered \in [Entry -> SUBSET Nat]

KeysOnRecord ==
  /\ settingsKeys \ userKeys \subseteq strays.keys \cup GoesBy.shipped
  /\ applying.at = "settings" /\ applying.doing = "replace" =>
       applying.saw.keys \ applying.saw.own \subseteq strays.keys \cup applying.mem.shipped
LaidAsRecorded == \A s \in PlainStep \ strays.steps : GoesBy.dig[s] # 0 => laid[s] \in {GoesBy.dig[s], 0}
TokensInOrder ==
  \A e \in Entry :
    /\ applying.mem.sha[e] <= applying.pay.tok[e] /\ applying.pay.tok[e] <= payload.tok[e] /\ provisioned.sha[e] <= payload.tok[e]
    /\ \A v \in delivered[e] : v <= provisioned.sha[e] /\ v <= GoesBy.sha[e]
ApplyIInv == ApplyFits /\ KeysOnRecord /\ LaidAsRecorded /\ TokensInOrder

(* A step is followed by a later one, or by the save.                      *)
LEMMA OnlySaveIsLast ==
  ASSUME ApplyFits, NEW at \in DOMAIN Rank, at # "save"
  PROVE  After(at) \in DOMAIN Rank /\ After(at) # "off"
<1> DEFINE S == about.steps \cup {"save"}
           First(s) == Rank[s] > Rank[at] /\ \A t \in about.steps : Rank[t] > Rank[at] => Rank[t] >= Rank[s]
<1>1. \E s \in S : First(s)
  <2>1. about.steps \subseteq {"gh", "claude_auth", "state_hook", "settings", "mcp_oauth", "plugins", "skills"}
    BY DEF ApplyFits, PlainStep
  <2>2. CASE \E s \in about.steps : Rank[s] > Rank[at]
    <3>1. CASE "gh" \in about.steps /\ Rank["gh"] > Rank[at]  BY <2>1, <3>1 DEF Rank
    <3>2. CASE "claude_auth" \in about.steps /\ Rank["claude_auth"] > Rank[at] /\ ~("gh" \in about.steps /\ Rank["gh"] > Rank[at])
      BY <2>1, <3>2 DEF Rank
    <3> QED BY <2>1, <2>2, <3>1, <3>2 DEF Rank
  <2>3. CASE ~\E s \in about.steps : Rank[s] > Rank[at]
    BY <2>3 DEF Rank
  <2> QED BY <2>2, <2>3
<1>2. After(at) \in S /\ First(After(at))
  BY <1>1 DEF After
<1> QED BY <1>2 DEF ApplyFits, PlainStep, Rank

(* A step that is done hands over to the next with the store as it is by   *)
(* then.                                                                   *)
LEMMA OnwardStep ==
  ASSUME ApplyFits, applying.at \notin {"off", "save"}, NEW m, StoreFits(m), Onward(m)
  PROVE  /\ DOMAIN applying' = {"at", "pay", "mem", "force", "doing", "tries", "saw"}
         /\ applying'.at \in DOMAIN Rank /\ applying'.at # "off" /\ applying'.mem = m /\ applying'.pay = applying.pay
         /\ applying'.doing = "read"
<1>1. After(applying.at) \in DOMAIN Rank /\ After(applying.at) # "off"
  BY OnlySaveIsLast DEF ApplyFits
<1> QED BY <1>1 DEF Onward, ApplyFits

(* What the five plain steps do: nothing, lay the PC's content and remember *)
(* it, or stop part way and forget.                                        *)
PlainStepOf(s, m) ==
  /\ applying.at = s /\ Onward(m)
  /\ \/ m = applying.mem /\ UNCHANGED laid
     \/ m = [applying.mem EXCEPT !.dig[s] = applying.pay.ver[s]] /\ laid' = [laid EXCEPT ![s] = applying.pay.ver[s]]
     \/ m = [applying.mem EXCEPT !.dig[s] = 0] /\ laid' \in {laid, [laid EXCEPT ![s] = 0]}

LEMMA StepsArePlain ==
  ASSUME Steps
  PROVE  \E s \in PlainStep : \E m : PlainStepOf(s, m)
<1>1. ASSUME NEW s \in PlainStep, applying.at = s, Lays(s)  PROVE \E m : PlainStepOf(s, m)
  BY <1>1 DEF Lays, Remember, PlainStepOf
<1>2. ASSUME NEW s \in PlainStep, applying.at = s, LaysFile(s)  PROVE \E m : PlainStepOf(s, m)
  BY <1>1, <1>2 DEF LaysFile, PlainStepOf
<1>3. CASE StepGh
  <2>1. applying.at = "gh" /\ "gh" \in PlainStep  BY <1>3 DEF StepGh, Wants
  <2>2. CASE "gh" \notin nodeTools
    BY <1>3, <2>1, <2>2 DEF StepGh, Remember, PlainStepOf
  <2>3. CASE "gh" \in nodeTools
    BY <1>1, <1>2, <1>3, <2>1, <2>3 DEF StepGh
  <2> QED BY <2>2, <2>3
<1>4. CASE StepClaudeAuth  BY <1>2, <1>4 DEF StepClaudeAuth, Wants
<1>5. CASE StepStateHook  BY <1>2, <1>5 DEF StepStateHook, Wants
<1>6. CASE StepPlugins
  <2>1. applying.at = "plugins" /\ "plugins" \in PlainStep  BY <1>6 DEF StepPlugins, Wants
  <2>2. Onward(applying.mem) /\ UNCHANGED laid => PlainStepOf("plugins", applying.mem)
    BY <2>1 DEF PlainStepOf
  <2> QED BY <1>1, <1>6, <2>1, <2>2 DEF StepPlugins
<1>7. CASE StepSkills  BY <1>2, <1>7 DEF StepSkills, Wants
<1> QED BY <1>3, <1>4, <1>5, <1>6, <1>7 DEF Steps

LEMMA PlainStepKeeps ==
  ASSUME ApplyIInv, Steps, UNCHANGED about
  PROVE  ApplyIInv'
<1>a. PICK s \in PlainStep : \E m : PlainStepOf(s, m)  BY StepsArePlain
<1>1. PICK m : PlainStepOf(s, m)  BY <1>a
<1>2. UNCHANGED <<payload, settingsKeys, userKeys, provisioned, strays, delivered>> /\ applying.at \notin {"off", "save"}
  BY <1>1 DEF Steps, applyHistory, PlainStepOf, PlainStep
<1>3. /\ StoreFits(m) /\ m.sha = applying.mem.sha /\ m.shipped = applying.mem.shipped
      /\ \A t \in PlainStep \ {s} : m.dig[t] = applying.mem.dig[t]
  <2>1. StoreFits(applying.mem)  BY DEF ApplyIInv, ApplyFits
  <2>2. ASSUME NEW d, m = [applying.mem EXCEPT !.dig[s] = d]
        PROVE  /\ StoreFits(m) /\ m.sha = applying.mem.sha /\ m.shipped = applying.mem.shipped
               /\ m.dig = [applying.mem.dig EXCEPT ![s] = d]
    BY <2>1, <2>2 DEF StoreFits
  <2>3. \/ m = applying.mem
        \/ m = [applying.mem EXCEPT !.dig[s] = applying.pay.ver[s]] \/ m = [applying.mem EXCEPT !.dig[s] = 0]
    BY <1>1 DEF PlainStepOf
  <2> QED BY <2>1, <2>2, <2>3 DEF StoreFits
<1>4. DOMAIN laid' = PlainStep /\ \A t \in PlainStep \ {s} : laid'[t] = laid[t]
  BY <1>1 DEF PlainStepOf, ApplyIInv, ApplyFits
<1>5. ApplyFits /\ Onward(m)  BY <1>1 DEF PlainStepOf, ApplyIInv
<1> HIDE <1>5
<1>6. /\ DOMAIN applying' = {"at", "pay", "mem", "force", "doing", "tries", "saw"}
      /\ applying'.at \in DOMAIN Rank /\ applying'.at # "off" /\ applying'.mem = m /\ applying'.pay = applying.pay
      /\ applying'.doing = "read"
  BY <1>2, <1>3, <1>5, OnwardStep
<1>7. ApplyFits'
  BY <1>2, <1>3, <1>4, <1>6 DEF ApplyIInv, ApplyFits, StoreFits, PayloadFits
<1>8. KeysOnRecord'
  BY <1>2, <1>3, <1>6 DEF ApplyIInv, KeysOnRecord, GoesBy
<1>9. LaidAsRecorded'
  <2>1. m.dig[s] # 0 => laid'[s] = m.dig[s] \/ (m.dig[s] = applying.mem.dig[s] /\ laid'[s] = laid[s])
    BY <1>1, <1>3 DEF PlainStepOf, ApplyIInv, ApplyFits, StoreFits
  <2> QED BY <2>1, <1>2, <1>3, <1>4, <1>6 DEF ApplyIInv, LaidAsRecorded, GoesBy
<1>10. TokensInOrder'
  BY <1>2, <1>3, <1>6 DEF ApplyIInv, TokensInOrder, GoesBy
<1> QED BY <1>7, <1>8, <1>9, <1>10 DEF ApplyIInv

LEMMA SettingsKeeps ==
  ASSUME ApplyIInv, StepSettings, UNCHANGED about
  PROVE  ApplyIInv'
<1>1. /\ UNCHANGED <<payload, laid, provisioned, strays, delivered>> /\ applying.at = "settings" /\ ApplyFits
  BY DEF StepSettings, applyHistory, ApplyIInv
<1>2. CASE applying.doing = "read" /\ applying' = [applying EXCEPT !.doing = "replace", !.saw = [keys |-> settingsKeys, own |-> userKeys]]
           /\ UNCHANGED <<settingsKeys, userKeys>>
  <2>1. /\ DOMAIN applying' = {"at", "pay", "mem", "force", "doing", "tries", "saw"} /\ applying'.at = "settings"
        /\ applying'.mem = applying.mem /\ applying'.pay = applying.pay /\ applying'.saw.keys = settingsKeys /\ applying'.saw.own = userKeys
    BY <1>1, <1>2 DEF ApplyFits
  <2>2. ApplyFits' BY <1>1, <2>1 DEF ApplyFits, StoreFits, PayloadFits
  <2>3. KeysOnRecord' BY <1>1, <1>2, <2>1 DEF ApplyIInv, KeysOnRecord, GoesBy
  <2>4. LaidAsRecorded' BY <1>1, <2>1 DEF ApplyIInv, LaidAsRecorded, GoesBy
  <2>5. TokensInOrder' BY <1>1, <2>1 DEF ApplyIInv, TokensInOrder, GoesBy
  <2> QED BY <2>2, <2>3, <2>4, <2>5 DEF ApplyIInv
<1>3. ASSUME NEW m, StoreFits(m), m.dig = applying.mem.dig, m.sha = applying.mem.sha, Onward(m),
             settingsKeys' \ userKeys' \subseteq strays.keys \cup m.shipped
      PROVE  ApplyIInv'
  <2>1. /\ DOMAIN applying' = {"at", "pay", "mem", "force", "doing", "tries", "saw"}
        /\ applying'.at \in DOMAIN Rank /\ applying'.at # "off" /\ applying'.mem = m /\ applying'.pay = applying.pay
        /\ applying'.doing = "read"
    BY <1>1, <1>3, OnwardStep
  <2>2. ApplyFits' BY <1>1, <1>3, <2>1 DEF ApplyFits, StoreFits, PayloadFits
  <2>3. KeysOnRecord' BY <1>1, <1>3, <2>1 DEF KeysOnRecord, GoesBy
  <2>4. LaidAsRecorded' BY <1>1, <1>3, <2>1 DEF ApplyIInv, LaidAsRecorded, GoesBy
  <2>5. TokensInOrder' BY <1>1, <1>3, <2>1 DEF ApplyIInv, TokensInOrder, GoesBy
  <2> QED BY <2>2, <2>3, <2>4, <2>5 DEF ApplyIInv
<1>4. settingsKeys \ userKeys \subseteq strays.keys \cup applying.mem.shipped /\ StoreFits(applying.mem)
  BY <1>1 DEF ApplyIInv, KeysOnRecord, GoesBy, ApplyFits
<1>5. CASE Onward(applying.mem) /\ UNCHANGED <<settingsKeys, userKeys>>
  BY <1>3, <1>4, <1>5
<1>6. ASSUME NEW m, Onward([applying.mem EXCEPT !.merged = m]), UNCHANGED <<settingsKeys, userKeys>>
      PROVE  ApplyIInv'
  <2> DEFINE M == [applying.mem EXCEPT !.merged = m]
  <2>1. StoreFits(M) /\ M.dig = applying.mem.dig /\ M.sha = applying.mem.sha /\ M.shipped = applying.mem.shipped
    BY <1>4 DEF StoreFits
  <2> QED BY <1>3, <1>4, <1>6, <2>1
<1>7. CASE /\ applying.doing = "replace" /\ settingsKeys' = Merged(applying.saw.keys)
           /\ userKeys' = applying.saw.own \ (applying.mem.shipped \cup applying.pay.keys)
           /\ Onward([applying.mem EXCEPT !.merged = IF Wired THEN {applying.pay.keys} ELSE {}, !.shipped = Record])
  <2> DEFINE M == [applying.mem EXCEPT !.merged = IF Wired THEN {applying.pay.keys} ELSE {}, !.shipped = Record]
  <2>1. StoreFits(M) /\ M.dig = applying.mem.dig /\ M.sha = applying.mem.sha /\ M.shipped = applying.pay.keys
    BY <1>4 DEF StoreFits, Record
  <2>2. applying.saw.keys \ applying.saw.own \subseteq strays.keys \cup applying.mem.shipped
    BY <1>1, <1>7 DEF ApplyIInv, KeysOnRecord
  <2>3. settingsKeys' \ userKeys' \subseteq strays.keys \cup applying.pay.keys
    BY <1>7, <2>2 DEF Merged
  <2> QED BY <1>3, <1>7, <2>1, <2>3
<1> QED BY <1>2, <1>5, <1>6, <1>7 DEF StepSettings

LEMMA ShasFits ==
  ASSUME StoreFits(applying.mem), PayloadFits(applying.pay),
         \A e \in Entry : applying.mem.sha[e] <= applying.pay.tok[e]
  PROVE  /\ StoreFits(Shas) /\ Shas.dig = applying.mem.dig /\ Shas.shipped = applying.mem.shipped
         /\ \A e \in Entry : applying.mem.sha[e] <= Shas.sha[e] /\ Shas.sha[e] <= applying.pay.tok[e]
BY DEF StoreFits, PayloadFits, Shas

LEMMA OauthKeeps ==
  ASSUME ApplyIInv, StepOauth, UNCHANGED about
  PROVE  ApplyIInv'
<1>1. /\ UNCHANGED <<payload, laid, settingsKeys, userKeys, provisioned, strays, delivered>>
      /\ applying.at = "mcp_oauth" /\ ApplyFits
  BY DEF StepOauth, applyHistory, ApplyIInv
<1>2. StoreFits(applying.mem) /\ PayloadFits(applying.pay) /\ GoesBy = applying.mem
  BY <1>1 DEF ApplyFits, GoesBy
<1>3. ASSUME NEW m, StoreFits(m), m.dig = applying.mem.dig, m.shipped = applying.mem.shipped,
             \A e \in Entry : applying.mem.sha[e] <= m.sha[e] /\ m.sha[e] <= applying.pay.tok[e],
             DOMAIN applying' = {"at", "pay", "mem", "force", "doing", "tries", "saw"}, applying'.at \in DOMAIN Rank, applying'.at # "off",
             applying'.mem = m, applying'.pay = applying.pay, applying'.doing = "read" \/ applying'.at = "mcp_oauth"
      PROVE  ApplyIInv'
  <2>1. ApplyFits' BY <1>1, <1>3 DEF ApplyFits, StoreFits, PayloadFits
  <2>2. KeysOnRecord' BY <1>1, <1>2, <1>3 DEF ApplyIInv, KeysOnRecord, GoesBy
  <2>3. LaidAsRecorded' BY <1>1, <1>2, <1>3 DEF ApplyIInv, LaidAsRecorded, GoesBy
  <2>4. TokensInOrder'
    <3> SUFFICES ASSUME NEW e \in Entry
                 PROVE  /\ m.sha[e] <= applying.pay.tok[e] /\ applying.pay.tok[e] <= payload.tok[e] /\ provisioned.sha[e] <= payload.tok[e]
                        /\ \A v \in delivered[e] : v <= provisioned.sha[e] /\ v <= m.sha[e]
      BY <1>1, <1>3 DEF TokensInOrder, GoesBy
    <3>1. /\ applying.mem.sha[e] <= m.sha[e] /\ m.sha[e] <= applying.pay.tok[e]
          /\ applying.mem.sha[e] \in Nat /\ m.sha[e] \in Nat /\ delivered[e] \subseteq Nat
      BY <1>1, <1>2, <1>3 DEF ApplyFits, StoreFits
    <3> QED BY <3>1, <1>2 DEF ApplyIInv, TokensInOrder
  <2> QED BY <2>1, <2>2, <2>3, <2>4 DEF ApplyIInv
<1>4. ASSUME NEW m, StoreFits(m), m.dig = applying.mem.dig, m.shipped = applying.mem.shipped,
             \A e \in Entry : applying.mem.sha[e] <= m.sha[e] /\ m.sha[e] <= applying.pay.tok[e], Onward(m)
      PROVE  ApplyIInv'
  BY <1>1, <1>3, <1>4, OnwardStep
<1>5. /\ \A e \in Entry : applying.mem.sha[e] \in Nat /\ applying.mem.sha[e] <= applying.pay.tok[e]
      /\ \A e \in Entry : applying.mem.sha[e] <= applying.mem.sha[e]
  BY <1>2 DEF ApplyIInv, TokensInOrder, StoreFits
<1>6. CASE Onward(applying.mem)
  BY <1>2, <1>4, <1>5, <1>6
<1>7. CASE Onward(Shas)
  BY <1>2, <1>4, <1>5, <1>7, ShasFits
<1>8. CASE \/ applying' = [applying EXCEPT !.doing = "check", !.saw = creds]
           \/ applying' = [applying EXCEPT !.doing = "replace"]
           \/ applying' = [applying EXCEPT !.doing = "read", !.tries = @ + 1]
  <2>1. /\ DOMAIN applying' = {"at", "pay", "mem", "force", "doing", "tries", "saw"} /\ applying'.at = "mcp_oauth"
        /\ applying'.mem = applying.mem /\ applying'.pay = applying.pay
    BY <1>1, <1>8 DEF ApplyFits
  <2> QED BY <2>1, <1>2, <1>3, <1>5 DEF Rank
<1> QED BY <1>6, <1>7, <1>8 DEF StepOauth, LooksAnew

(* What a damaged store reads as.                                          *)
LEMMA ForgottenFits ==
  /\ StoreFits(Forgotten) /\ Forgotten.dig = [s \in PlainStep |-> 0] /\ Forgotten.shipped = {}
  /\ Forgotten.sha = [e \in Entry |-> 0]
BY DEF Forgotten, StoreFits

LEMMA RunBegins ==
  ASSUME ApplyIInv, BeginRun, UNCHANGED about
  PROVE  ApplyIInv'
<1>1. PICK m \in LoadStore, force \in BOOLEAN :
        applying' = [applying EXCEPT !.at = After("off"), !.pay = payload, !.mem = m, !.force = force, !.doing = "read", !.tries = 0]
  BY DEF BeginRun
<1>2. /\ applying.at = "off" /\ UNCHANGED <<payload, laid, settingsKeys, userKeys, provisioned>> /\ ApplyFits
      /\ strays' = (IF applying'.mem # provisioned THEN [strays EXCEPT !.keys = @ \cup (settingsKeys \ userKeys)] ELSE strays)
      /\ delivered' = (IF applying'.mem # provisioned THEN [e \in Entry |-> {}] ELSE delivered)
  BY DEF BeginRun, nodeScope, ApplyIInv
<1>3. After("off") \in DOMAIN Rank /\ After("off") # "off"
  BY <1>2, OnlySaveIsLast DEF Rank
<1>4. /\ DOMAIN applying' = {"at", "pay", "mem", "force", "doing", "tries", "saw"}
      /\ applying'.at \in DOMAIN Rank /\ applying'.at # "off" /\ applying'.mem = m /\ applying'.pay = payload /\ applying'.doing = "read"
  BY <1>1, <1>2, <1>3 DEF ApplyFits
<1>5. m = provisioned \/ m = Forgotten
  BY DEF LoadStore
<1>6. CASE m = provisioned
  <2>1. UNCHANGED <<strays, delivered>>  BY <1>2, <1>4, <1>6
  <2>2. ApplyFits' BY <1>2, <1>4, <1>6, <2>1 DEF ApplyFits, StoreFits, PayloadFits
  <2>3. KeysOnRecord' BY <1>2, <1>4, <1>6, <2>1 DEF ApplyIInv, KeysOnRecord, GoesBy
  <2>4. LaidAsRecorded' BY <1>2, <1>4, <1>6, <2>1 DEF ApplyIInv, LaidAsRecorded, GoesBy
  <2>5. TokensInOrder' BY <1>2, <1>4, <1>6, <2>1 DEF ApplyIInv, TokensInOrder, GoesBy, ApplyFits, StoreFits, PayloadFits
  <2> QED BY <2>2, <2>3, <2>4, <2>5 DEF ApplyIInv
<1>7. CASE m = Forgotten /\ m # provisioned
  <2>1. /\ DOMAIN strays' = {"keys", "steps"} /\ strays'.keys = strays.keys \cup (settingsKeys \ userKeys) /\ strays'.steps = strays.steps
        /\ delivered' = [e \in Entry |-> {}]
    BY <1>2, <1>4, <1>7 DEF ApplyFits
  <2>2. ApplyFits' BY <1>2, <1>4, <1>7, <2>1, ForgottenFits DEF ApplyFits, StoreFits, PayloadFits
  <2>3. KeysOnRecord' BY <1>2, <1>4, <1>7, <2>1 DEF KeysOnRecord, GoesBy
  <2>4. LaidAsRecorded' BY <1>4, <1>7, ForgottenFits DEF LaidAsRecorded, GoesBy
  <2>5. TokensInOrder' BY <1>2, <1>4, <1>7, <2>1, ForgottenFits DEF ApplyIInv, TokensInOrder, GoesBy, ApplyFits, StoreFits, PayloadFits
  <2> QED BY <2>2, <2>3, <2>4, <2>5 DEF ApplyIInv
<1> QED BY <1>5, <1>6, <1>7

\* A run that is over, whichever way.
LEMMA RunIsOff ==
  ASSUME NEW p, PayloadFits(p), applying' = [Off EXCEPT !.pay = p]
  PROVE  /\ DOMAIN applying' = {"at", "pay", "mem", "force", "doing", "tries", "saw"} /\ applying'.at = "off"
         /\ applying'.pay = p /\ applying'.mem = Forgotten
BY DEF Off

LEMMA RunSaves ==
  ASSUME ApplyIInv, Save, UNCHANGED about
  PROVE  ApplyIInv'
<1>1. /\ UNCHANGED <<payload, laid, settingsKeys, userKeys, strays>> /\ ApplyFits /\ applying.at = "save"
      /\ provisioned' = applying.mem /\ GoesBy = applying.mem
      /\ delivered' = [e \in Entry |-> delivered[e] \cup (IF applying.mem.sha[e] = applying.pay.tok[e] /\ e \in ShippedEntries THEN {applying.pay.tok[e]} ELSE {})]
  BY DEF Save, nodeScope, ApplyIInv, GoesBy
<1>2. /\ DOMAIN applying' = {"at", "pay", "mem", "force", "doing", "tries", "saw"} /\ applying'.at = "off"
      /\ applying'.pay = payload /\ applying'.mem = Forgotten
  BY <1>1, RunIsOff DEF Save, ApplyFits
<1>3. \A e \in Entry : applying.pay.tok[e] \in Nat /\ applying.mem.sha[e] \in Nat /\ delivered[e] \in SUBSET Nat /\ payload.tok[e] \in Nat
  BY <1>1 DEF ApplyFits, StoreFits, PayloadFits
<1>4. ApplyFits'
  <2>1. delivered' \in [Entry -> SUBSET Nat]  BY <1>1, <1>3
  <2> QED BY <1>1, <1>2, <2>1, ForgottenFits DEF ApplyFits, StoreFits, PayloadFits, Rank
<1>5. KeysOnRecord' BY <1>1, <1>2 DEF ApplyIInv, KeysOnRecord, GoesBy
<1>6. LaidAsRecorded' BY <1>1, <1>2 DEF ApplyIInv, LaidAsRecorded, GoesBy
<1>7. TokensInOrder'
  <2> SUFFICES ASSUME NEW e \in Entry
               PROVE  /\ 0 <= payload.tok[e] /\ payload.tok[e] <= payload.tok[e] /\ applying.mem.sha[e] <= payload.tok[e]
                      /\ \A v \in delivered'[e] : v <= applying.mem.sha[e]
    BY <1>1, <1>2, ForgottenFits DEF TokensInOrder, GoesBy
  <2>1. /\ \A v \in delivered[e] : v <= applying.mem.sha[e]
        /\ applying.mem.sha[e] <= applying.pay.tok[e] /\ applying.pay.tok[e] <= payload.tok[e]
    BY <1>1 DEF ApplyIInv, TokensInOrder
  <2>2. \A v \in delivered'[e] : v \in delivered[e] \/ v = applying.mem.sha[e]
    BY <1>1
  <2> QED BY <2>1, <2>2, <1>3
<1> QED BY <1>4, <1>5, <1>6, <1>7 DEF ApplyIInv

LEMMA RunEndsUnsaved ==
  ASSUME ApplyIInv, RunDies, UNCHANGED about
  PROVE  ApplyIInv'
<1>1. /\ UNCHANGED <<payload, laid, settingsKeys, userKeys, provisioned, delivered>> /\ ApplyFits /\ applying.at # "off"
      /\ DOMAIN strays' = {"keys", "steps"} /\ strays'.keys = strays.keys \cup ((settingsKeys \ userKeys) \ provisioned.shipped)
      /\ strays'.steps = strays.steps \cup {s \in PlainStep : laid[s] # provisioned.dig[s]}
  BY DEF RunDies, nodeScope, ApplyIInv
<1>2. /\ DOMAIN applying' = {"at", "pay", "mem", "force", "doing", "tries", "saw"} /\ applying'.at = "off"
      /\ applying'.pay = payload /\ applying'.mem = Forgotten
  BY <1>1, RunIsOff DEF RunDies, ApplyFits
<1>3. ApplyFits' BY <1>1, <1>2, ForgottenFits DEF ApplyFits, StoreFits, PayloadFits, Rank
<1>4. KeysOnRecord' BY <1>1, <1>2 DEF KeysOnRecord, GoesBy
<1>5. LaidAsRecorded' BY <1>1, <1>2 DEF LaidAsRecorded, GoesBy
<1>6. TokensInOrder'
  BY <1>1, <1>2, ForgottenFits DEF ApplyIInv, TokensInOrder, GoesBy, ApplyFits, PayloadFits
<1> QED BY <1>3, <1>4, <1>5, <1>6 DEF ApplyIInv

(* The PC and the node change while the run stands still.                  *)
LEMMA OthersKeep ==
  ASSUME ApplyIInv, UNCHANGED about,
         \/ PcChanges \/ NodeUser \/ HookGoes \/ \E e \in about.entries : Refreshes(e) \/ Loses(e)
         \/ \E p \in {"gh", "claude"} : ToolComes(p)
  PROVE  ApplyIInv'
<1>1. UNCHANGED <<provisioned, applying, strays, delivered>> /\ ApplyFits
  BY DEF PcChanges, NodeUser, HookGoes, Refreshes, Loses, ToolComes, applyHistory, ApplyIInv
<1>2. CASE UNCHANGED <<payload, settingsKeys, userKeys, laid>>
  BY <1>1, <1>2 DEF ApplyIInv, ApplyFits, KeysOnRecord, LaidAsRecorded, TokensInOrder, GoesBy
<1>3. CASE PcChanges
  <2>1. UNCHANGED <<laid, settingsKeys, userKeys>>  BY <1>3 DEF PcChanges, nodeScope
  <2>2. PayloadFits(payload') /\ \A e \in Entry : payload.tok[e] <= payload'.tok[e]
    <3>1. PayloadFits(payload) BY <1>1 DEF ApplyFits
    <3>2. \/ \E s : payload' = [payload EXCEPT !.ver[s] = IF @ = 1 THEN 2 ELSE 1]
          \/ \E ks : payload' = [payload EXCEPT !.keys = ks]
          \/ \E e : payload' = [payload EXCEPT !.tok[e] = @ + 1]
          \/ \E es : payload' = [payload EXCEPT !.ships = es]
          \/ payload' = [payload EXCEPT !.reads = ~@]
      BY <1>3 DEF PcChanges
    <3>3. CASE \/ \E s : payload' = [payload EXCEPT !.ver[s] = IF @ = 1 THEN 2 ELSE 1]
               \/ \E ks : payload' = [payload EXCEPT !.keys = ks]
               \/ \E es : payload' = [payload EXCEPT !.ships = es]
               \/ payload' = [payload EXCEPT !.reads = ~@]
      BY <3>1, <3>3 DEF PayloadFits
    <3>4. CASE \E e : payload' = [payload EXCEPT !.tok[e] = @ + 1]
      <4>1. PICK e : payload' = [payload EXCEPT !.tok[e] = @ + 1]  BY <3>4
      <4>2. payload'.tok = [payload.tok EXCEPT ![e] = @ + 1] /\ DOMAIN payload' = DOMAIN payload
        BY <3>1, <4>1 DEF PayloadFits
      <4>3. payload.tok \in [Entry -> Nat] /\ DOMAIN payload = {"ver", "keys", "tok", "ships", "reads"}  BY <3>1 DEF PayloadFits
      <4>4. payload'.tok \in [Entry -> Nat] /\ \A f \in Entry : payload.tok[f] <= payload'.tok[f]
        <5>1. CASE e \in Entry  BY <4>2, <4>3, <5>1
        <5>2. CASE e \notin Entry
          <6>1. payload'.tok = payload.tok  BY <4>2, <4>3, <5>2
          <6> QED BY <4>3, <6>1
        <5> QED BY <5>1, <5>2
      <4> QED BY <4>2, <4>3, <4>4 DEF PayloadFits
    <3> QED BY <3>2, <3>3, <3>4
  <2>3. ApplyFits' BY <1>1, <2>1, <2>2 DEF ApplyFits, StoreFits, PayloadFits
  <2>4. KeysOnRecord' /\ LaidAsRecorded' BY <1>1, <2>1 DEF ApplyIInv, KeysOnRecord, LaidAsRecorded, GoesBy
  <2>5. TokensInOrder'
    BY <1>1, <2>2 DEF ApplyIInv, TokensInOrder, GoesBy, ApplyFits, StoreFits, PayloadFits
  <2> QED BY <2>3, <2>4, <2>5 DEF ApplyIInv
<1>4. CASE NodeUser
  <2>1. UNCHANGED <<payload, laid>> /\ settingsKeys' \ userKeys' \subseteq settingsKeys \ userKeys
    BY <1>4 DEF NodeUser
  <2>2. ApplyFits' /\ LaidAsRecorded' /\ TokensInOrder'
    BY <1>1, <2>1 DEF ApplyIInv, ApplyFits, LaidAsRecorded, TokensInOrder, GoesBy
  <2>3. KeysOnRecord' BY <1>1, <2>1 DEF ApplyIInv, KeysOnRecord, GoesBy
  <2> QED BY <2>2, <2>3 DEF ApplyIInv
<1>5. CASE HookGoes
  <2>1. UNCHANGED <<payload, settingsKeys, userKeys>> /\ laid' = [laid EXCEPT !["state_hook"] = 0]
    BY <1>5 DEF HookGoes
  <2>2. ApplyFits' /\ KeysOnRecord' /\ TokensInOrder'
    BY <1>1, <2>1 DEF ApplyIInv, ApplyFits, KeysOnRecord, TokensInOrder, GoesBy
  <2>3. LaidAsRecorded' BY <1>1, <2>1 DEF ApplyIInv, ApplyFits, LaidAsRecorded, GoesBy
  <2> QED BY <2>2, <2>3 DEF ApplyIInv
<1> QED BY <1>2, <1>3, <1>4, <1>5 DEF Refreshes, Loses, ToolComes

LEMMA ApplyStep ==
  ASSUME ApplyIInv, [ApplyNext]_applyvars
  PROVE  ApplyIInv'
<1>1. CASE UNCHANGED applyvars
  BY <1>1 DEF applyvars, nodeScope, applyHistory, ApplyIInv, ApplyFits, KeysOnRecord, LaidAsRecorded, TokensInOrder, GoesBy
<1>2. CASE ApplyNext
  BY <1>2, PlainStepKeeps, SettingsKeeps, OauthKeeps, RunBegins, RunSaves, RunEndsUnsaved, OthersKeep DEF ApplyNext
<1> QED BY <1>1, <1>2

LEMMA ApplyBegins ==
  ASSUME ApplyInit
  PROVE  ApplyIInv
<1>1. /\ payload = [ver |-> [s \in PlainStep |-> 1], keys |-> {}, tok |-> [e \in Entry |-> 1], ships |-> {}, reads |-> TRUE]
      /\ laid = [s \in PlainStep |-> 0] /\ settingsKeys = {} /\ userKeys = {} /\ provisioned = Forgotten /\ applying = Off
      /\ strays = [keys |-> {}, steps |-> {}] /\ delivered = [e \in Entry |-> {}] /\ about \in ApplySetups
  BY DEF ApplyInit, ApplyStart
<1>2. applying.at = "off" /\ applying.pay = payload /\ applying.mem = Forgotten
      /\ DOMAIN applying = {"at", "pay", "mem", "force", "doing", "tries", "saw"}
  BY <1>1 DEF Off
<1>3. PayloadFits(payload) /\ payload.tok = [e \in Entry |-> 1]
  BY <1>1 DEF PayloadFits
<1>4. ApplyFits
  BY <1>1, <1>2, <1>3, ForgottenFits, ApplyAssumption DEF ApplyFits, Rank
<1>5. KeysOnRecord /\ LaidAsRecorded
  BY <1>1, <1>2, ForgottenFits DEF KeysOnRecord, LaidAsRecorded, GoesBy
<1>6. TokensInOrder
  BY <1>1, <1>2, <1>3, ForgottenFits DEF TokensInOrder, GoesBy
<1> QED BY <1>4, <1>5, <1>6 DEF ApplyIInv

(* What the replace of the OAuth entries writes: the due ones, whose token *)
(* is newer than any that reached the node.                                *)
LEMMA ReplaceIsNewer ==
  ASSUME ApplyIInv, ApplyNext, NEW e \in Entry,
         applying.at = "mcp_oauth", creds[e].by = "node", creds'[e].by = "pc", creds[e] = applying.saw[e]
  PROVE  creds'[e].v \notin delivered[e]
<1>1. StepOauth
  <2>1. \A f \in about.entries : Refreshes(f) => creds'[e] = creds[e] \/ creds'[e].by = "node"
    BY DEF Refreshes
  <2>2. \A f \in about.entries : Loses(f) => creds'[e] = creds[e] \/ creds'[e] = NoEntry
    BY DEF Loses
  <2> QED BY <2>1, <2>2 DEF ApplyNext, PcChanges, NodeUser, ToolComes, HookGoes, BeginRun, Steps, StepSettings, Save, RunDies,
             nodeScope, NoEntry
<1>2. creds' = [f \in Entry |-> IF f \in Due(applying.saw) THEN [by |-> "pc", v |-> applying.pay.tok[f]] ELSE applying.saw[f]]
  BY <1>1 DEF StepOauth
<1>3. e \in Due(applying.saw) /\ creds'[e].v = applying.pay.tok[e]
  BY <1>2
<1>4. applying.mem.sha[e] # applying.pay.tok[e]
  BY <1>3 DEF Due, NoEntry
<1>5. /\ applying.mem.sha[e] <= applying.pay.tok[e] /\ \A v \in delivered[e] : v <= applying.mem.sha[e]
      /\ applying.mem.sha[e] \in Nat /\ applying.pay.tok[e] \in Nat
  BY DEF ApplyIInv, TokensInOrder, GoesBy, ApplyFits, StoreFits, PayloadFits
<1> QED BY <1>3, <1>4, <1>5

(* For any keys, entries, changes and setups: what a run of node_apply     *)
(* laid and shipped is on record, what it skips as unchanged is what the   *)
(* node holds, and no older copy of the PC undoes a token the node's       *)
(* claude refreshed.                                                       *)
THEOREM ConfigurationIsSafe == ApplySpec => ConfigurationHolds
<1>1. ASSUME ApplyIInv PROVE ShippedIsOnRecord
  BY <1>1 DEF ApplyIInv, KeysOnRecord, GoesBy, ShippedIsOnRecord
<1>2. ASSUME ApplyIInv PROVE RememberedIsLaid
  BY <1>2 DEF ApplyIInv, LaidAsRecorded, GoesBy, RememberedIsLaid
<1>3. ASSUME ApplyIInv, [ApplyNext]_applyvars
      PROVE  [\A e \in Entry : applying.at = "mcp_oauth" /\ creds[e].by = "node" /\ creds'[e].by = "pc" /\ creds[e] = applying.saw[e] =>
                creds'[e].v \notin delivered[e]]_applyvars
  BY <1>3, ReplaceIsNewer
<1> QED BY <1>1, <1>2, <1>3, ApplyBegins, ApplyStep, PTL DEF ApplySpec, ConfigurationHolds, RefreshesSurvive

-----------------------------------------------------------------------------
(* A project brought up on a node (BringUp).                               *)

BringUpFits ==
  /\ DOMAIN here = {"head", "edit", "tracking", "detached"} /\ DOMAIN repo = {"on", "head", "tip", "other", "remote", "edit"}
  /\ repo.on \in {"branch", "other", "detached", "absent"}
  /\ DOMAIN bringUp = Bringer /\ \A r \in Bringer : DOMAIN bringUp[r] = {"at", "ups", "result", "reads", "saw"}
  /\ session \in {"none", "agent"} /\ ~(case.elsewhere /\ case.seeds)

RefsHold ==
  /\ here.tracking \subseteq origin /\ repo.remote \subseteq origin
  /\ repo.on = "branch" => repo.head = repo.tip
  /\ repo.on = "other" => repo.head = repo.other
  /\ repo.on = "absent" => repo.head = {}
  /\ Passing => repo.head \subseteq repo.tip \cup repo.other \cup repo.remote

OneBringUp == ~case.elsewhere => \A r, s \in Bringer : bringUp[r].at # "over" /\ bringUp[s].at # "over" => r = s

SawIsHeld(r) ==
  /\ case.elsewhere => bringUp[r].saw = {} /\ bringUp[r].at \notin {"branch", "dirty", "ahead", "judge"}
  /\ ~case.elsewhere /\ ~case.allow =>
       /\ bringUp[r].at = "judge" /\ "unpushed" \notin bringUp[r].reads => bringUp[r].saw \subseteq origin
       /\ bringUp[r].at \in {"look", "clone", "status", "fetch"} => bringUp[r].saw \subseteq origin
       /\ bringUp[r].at \in {"orphan", "refs", "switch", "merge"} => bringUp[r].saw \subseteq repo.remote
       /\ bringUp[r].at \in {"ship", "seed", "copy", "start"} => bringUp[r].saw \subseteq repo.head
Undisturbed(r) ==
  /\ ~case.elsewhere /\ (InScript(r) \/ bringUp[r].at = "clone") => session = "none"
  /\ bringUp[r].at = "copy" => case.seeds /\ memory # "theirs"
BringUpIInv == BringUpFits /\ RefsHold /\ OneBringUp /\ \A r \in Bringer : SawIsHeld(r) /\ Undisturbed(r)

\* Bring-up r goes from wherever it is to `at`.
Moved(r, at) ==
  /\ DOMAIN bringUp' = Bringer /\ \A s \in Bringer : DOMAIN bringUp'[s] = {"at", "ups", "result", "reads", "saw"}
  /\ bringUp'[r].at = at /\ bringUp'[r].saw = bringUp[r].saw /\ bringUp'[r].reads = bringUp[r].reads
  /\ \A s \in Bringer \ {r} : bringUp'[s] = bringUp[s]

LEMMA MovesTo ==
  ASSUME BringUpFits, NEW r \in Bringer, NEW at, GoesTo(r, at)
  PROVE  Moved(r, at)
BY DEF BringUpFits, GoesTo, Moved

LEMMA MovesOver ==
  ASSUME BringUpFits, NEW r \in Bringer, NEW result, Ends(r, result)
  PROVE  Moved(r, "over")
BY DEF BringUpFits, Ends, Moved

(* While one bring-up moves, what is said of the others stands, whatever   *)
(* happens to the repo, the memory and the session: on one PC they are     *)
(* over, and those of two PCs neither read nor seed.                       *)
LEMMA OthersStand ==
  ASSUME BringUpIInv, NEW r \in Bringer, NEW at, Moved(r, at), bringUp[r].at # "over", UNCHANGED case
  PROVE  /\ OneBringUp'
         /\ \A s \in Bringer \ {r} : SawIsHeld(s)' /\ Undisturbed(s)'
         /\ Passing' => Passing \/ at \in {"refs", "switch"}
<1>1. OneBringUp'
  BY DEF BringUpIInv, OneBringUp, Moved
<1>2. ASSUME NEW s \in Bringer \ {r}  PROVE SawIsHeld(s)' /\ Undisturbed(s)'
  <2>1. bringUp'[s] = bringUp[s]  BY DEF Moved
  <2>2. CASE case.elsewhere
    <3>1. bringUp[s].at # "copy"  BY <2>2 DEF BringUpIInv, BringUpFits, Undisturbed
    <3> QED BY <2>1, <2>2, <3>1 DEF BringUpIInv, SawIsHeld, Undisturbed
  <2>3. CASE ~case.elsewhere
    <3>1. bringUp[s].at = "over"  BY <2>3 DEF BringUpIInv, OneBringUp
    <3> QED BY <2>1, <2>3, <3>1 DEF SawIsHeld, Undisturbed, InScript
  <2> QED BY <2>2, <2>3
<1>3. Passing' => Passing \/ at \in {"refs", "switch"}
  BY DEF Passing, Moved
<1> QED BY <1>1, <1>2, <1>3

\* A step that leaves the repo, the memory and this PC alone.
LEMMA StepAside ==
  ASSUME BringUpIInv, NEW r \in Bringer, NEW at, Moved(r, at), bringUp[r].at # "over", UNCHANGED <<case, here, origin, repo, memory>>,
         session' \in {"none", "agent"}, at \in {"refs", "switch"} => repo.head \subseteq repo.tip \cup repo.other \cup repo.remote,
         SawIsHeld(r)', Undisturbed(r)'
  PROVE  BringUpIInv'
<1>1. BringUpFits'  BY DEF BringUpIInv, BringUpFits, Moved
<1>2. RefsHold'  BY OthersStand DEF BringUpIInv, RefsHold
<1> QED BY <1>1, <1>2, OthersStand DEF BringUpIInv

LEMMA StepOver ==
  ASSUME BringUpIInv, NEW r \in Bringer, Moved(r, "over"), bringUp[r].at # "over", UNCHANGED <<case, here, origin, repo, memory>>,
         session' \in {"none", "agent"}
  PROVE  BringUpIInv'
<1>1. SawIsHeld(r)'
  BY DEF BringUpIInv, SawIsHeld, Moved
<1>2. Undisturbed(r)'
  BY DEF Undisturbed, InScript, Moved
<1> QED BY <1>1, <1>2, StepAside

LEMMA LookKeeps ==
  ASSUME BringUpIInv, NEW r \in Bringer, ReadsRepo(r) \/ JudgesRepo(r) \/ Attaches(r), UNCHANGED case
  PROVE  BringUpIInv'
<1>1. /\ UNCHANGED <<here, origin, repo, memory, session>> /\ session' \in {"none", "agent"}
      /\ BringUpFits /\ SawIsHeld(r) /\ Undisturbed(r)
  BY DEF ReadsRepo, JudgesRepo, Attaches, BringUpIInv, BringUpFits
<1>2. CASE ReadsRepo(r)
  <2>1. /\ DOMAIN bringUp' = Bringer /\ \A s \in Bringer : DOMAIN bringUp'[s] = {"at", "ups", "result", "reads", "saw"}
        /\ bringUp'[r].saw = here.head /\ bringUp'[r].reads = bringUp[r].reads \cup Finds(r)
        /\ \A s \in Bringer \ {r} : bringUp'[s] = bringUp[s]
        /\ \/ bringUp[r].at = "branch" /\ bringUp'[r].at = "dirty"
           \/ bringUp[r].at = "dirty" /\ bringUp'[r].at = "ahead"
           \/ bringUp[r].at = "ahead" /\ bringUp'[r].at = "judge"
    <3>1. PICK i \in DOMAIN LookOrder :
            /\ bringUp[r].at = LookOrder[i]
            /\ bringUp' = [bringUp EXCEPT ![r].at = IF i < Len(LookOrder) THEN LookOrder[i + 1] ELSE "judge",
                             ![r].reads = @ \cup Finds(r), ![r].saw = here.head]
      BY <1>2 DEF ReadsRepo
    <3>2. i \in 1..3 /\ LookOrder[1] = "branch" /\ LookOrder[2] = "dirty" /\ LookOrder[3] = "ahead" /\ Len(LookOrder) = 3
      BY DEF LookOrder
    <3> QED BY <1>1, <3>1, <3>2 DEF BringUpFits
  <2>2. ~case.elsewhere  BY <1>1, <2>1 DEF SawIsHeld
  <2>3. \A s \in Bringer \ {r} : bringUp[s].at = "over"  BY <2>1, <2>2 DEF BringUpIInv, OneBringUp
  <2>4. BringUpFits'  BY <1>1, <2>1 DEF BringUpFits
  <2>5. RefsHold'
    <3>1. ~Passing'  BY <2>1, <2>3 DEF Passing
    <3> QED BY <1>1, <3>1 DEF BringUpIInv, RefsHold
  <2>6. OneBringUp'  BY <2>1, <2>3 DEF OneBringUp
  <2>7. SawIsHeld(r)'
    <3>1. bringUp'[r].at = "judge" /\ "unpushed" \notin bringUp'[r].reads => here.head \subseteq here.tracking
      BY <2>1 DEF Finds
    <3> QED BY <1>1, <2>1, <2>2, <3>1 DEF SawIsHeld, BringUpIInv, RefsHold
  <2>8. Undisturbed(r)'  BY <2>1 DEF Undisturbed, InScript
  <2>9. \A s \in Bringer \ {r} : SawIsHeld(s)' /\ Undisturbed(s)'
    BY <2>1, <2>2, <2>3 DEF SawIsHeld, Undisturbed, InScript
  <2> QED BY <2>4, <2>5, <2>6, <2>7, <2>8, <2>9 DEF BringUpIInv
<1>3. CASE JudgesRepo(r)
  <2>1. CASE Refusals(r) = {} /\ GoesTo(r, "look")
    <3>1. Moved(r, "look") /\ bringUp[r].at = "judge"  BY <1>1, <1>3, <2>1, MovesTo DEF JudgesRepo
    <3>2. ~case.allow => "unpushed" \notin bringUp[r].reads  BY <2>1 DEF Refusals
    <3>3. SawIsHeld(r)'  BY <1>1, <3>1, <3>2 DEF SawIsHeld, Moved
    <3>4. Undisturbed(r)'  BY <3>1 DEF Undisturbed, InScript, Moved
    <3> QED BY <1>1, <3>1, <3>3, <3>4, StepAside
  <2>2. CASE \E result : Ends(r, result)
    BY <1>1, <1>3, <2>2, MovesOver, StepOver DEF JudgesRepo
  <2> QED BY <1>3, <2>1, <2>2 DEF JudgesRepo
<1>4. CASE Attaches(r)
  <2>1. CASE session = "agent"
    BY <1>1, <1>4, <2>1, MovesOver, StepOver DEF Attaches
  <2>2. CASE session # "agent"
    <3>1. PICK at \in {"clone", "fetch", "status"} : GoesTo(r, at)
      BY <1>4, <2>2 DEF Attaches
    <3>2. Moved(r, at) /\ bringUp[r].at = "look"  BY <1>1, <1>4, <3>1, MovesTo DEF Attaches
    <3>3. SawIsHeld(r)'  BY <1>1, <3>2 DEF SawIsHeld, Moved
    <3>4. Undisturbed(r)'  BY <1>1, <2>2, <3>2 DEF Undisturbed, Moved, BringUpFits
    <3> QED BY <1>1, <3>2, <3>3, <3>4, StepAside
  <2> QED BY <2>1, <2>2
<1> QED BY <1>2, <1>3, <1>4

\* A step of the script that may change the repo, the memory or the session.
LEMMA StepHere ==
  ASSUME BringUpIInv, NEW r \in Bringer, NEW at, Moved(r, at), bringUp[r].at # "over", UNCHANGED <<case, here>>,
         session' \in {"none", "agent"}, DOMAIN repo' = {"on", "head", "tip", "other", "remote", "edit"},
         repo'.on \in {"branch", "other", "detached", "absent"}, RefsHold', SawIsHeld(r)', Undisturbed(r)'
  PROVE  BringUpIInv'
<1>1. BringUpFits'  BY DEF BringUpIInv, BringUpFits, Moved
<1> QED BY <1>1, OthersStand DEF BringUpIInv

LEMMA CloneKeeps ==
  ASSUME BringUpIInv, NEW r \in Bringer, Clones(r), UNCHANGED case
  PROVE  BringUpIInv'
<1>1. /\ UNCHANGED <<here, origin, memory, session>> /\ session' \in {"none", "agent"} /\ bringUp[r].at = "clone"
      /\ BringUpFits /\ SawIsHeld(r) /\ Undisturbed(r) /\ RefsHold
  BY DEF Clones, BringUpIInv, BringUpFits
<1>2. CASE repo.on = "absent"
  <2>1. /\ repo' = [on |-> "branch", head |-> origin, tip |-> origin, other |-> {}, remote |-> origin, edit |-> NoEdit]
        /\ GoesTo(r, "ship")
    BY <1>2 DEF Clones
  <2>2. Moved(r, "ship")  BY <1>1, <2>1, MovesTo
  <2>3. RefsHold'  BY <1>1, <2>1 DEF RefsHold
  <2>4. SawIsHeld(r)'  BY <1>1, <2>1, <2>2 DEF SawIsHeld, Moved
  <2>5. Undisturbed(r)'  BY <1>1, <2>2 DEF Undisturbed, Moved
  <2> QED BY <1>1, <2>1, <2>2, <2>3, <2>4, <2>5, StepHere
<1>3. CASE repo.on # "absent"
  BY <1>1, <1>3, MovesOver, StepOver DEF Clones
<1> QED BY <1>2, <1>3

\* Of update_repo: the looks, which may end the bring-up.
LEMMA ChecksKeep ==
  ASSUME BringUpIInv, NEW r \in Bringer, Checks(r) \/ RefusesOrphan(r) \/ RefusesDiverged(r) \/ Ships(r) \/ BringUpDies(r),
         UNCHANGED case
  PROVE  BringUpIInv'
<1>1. /\ UNCHANGED <<here, origin, repo, memory, session>> /\ session' \in {"none", "agent"} /\ bringUp[r].at # "over"
      /\ BringUpFits /\ SawIsHeld(r) /\ Undisturbed(r) /\ RefsHold
  BY DEF Checks, RefusesOrphan, RefusesDiverged, Ships, BringUpDies, InScript, BringUpIInv, BringUpFits
<1>2. CASE \E result : Ends(r, result)
  BY <1>1, <1>2, MovesOver, StepOver
<1>3. CASE Checks(r) /\ GoesTo(r, "fetch")
  <2>1. Moved(r, "fetch") /\ bringUp[r].at = "status"  BY <1>1, <1>3, MovesTo DEF Checks
  <2>2. SawIsHeld(r)' /\ Undisturbed(r)'  BY <1>1, <2>1 DEF SawIsHeld, Undisturbed, InScript, Moved
  <2> QED BY <1>1, <2>1, <2>2, StepAside
<1>4. CASE RefusesOrphan(r) /\ ~Orphaned /\ GoesTo(r, "refs")
  <2>1. Moved(r, "refs") /\ bringUp[r].at = "orphan"  BY <1>1, <1>4, MovesTo DEF RefusesOrphan
  <2>2. SawIsHeld(r)' /\ Undisturbed(r)'  BY <1>1, <2>1 DEF SawIsHeld, Undisturbed, InScript, Moved
  <2>3. repo.on \in {"branch", "other", "detached", "absent"}  BY <1>1 DEF BringUpFits
  <2>4. repo.head \subseteq repo.tip \cup repo.other \cup repo.remote
    BY <1>1, <1>4, <2>3 DEF Orphaned, RefsHold
  <2> QED BY <1>1, <2>1, <2>2, <2>4, StepAside
<1>5. CASE RefusesDiverged(r) /\ GoesTo(r, "switch")
  <2>1. Moved(r, "switch") /\ bringUp[r].at = "refs"  BY <1>1, <1>5, MovesTo DEF RefusesDiverged
  <2>2. SawIsHeld(r)' /\ Undisturbed(r)'  BY <1>1, <2>1 DEF SawIsHeld, Undisturbed, InScript, Moved
  <2>3. repo.head \subseteq repo.tip \cup repo.other \cup repo.remote
    BY <1>1, <2>1 DEF RefsHold, Passing
  <2> QED BY <1>1, <2>1, <2>2, <2>3, StepAside
<1>6. CASE Ships(r)
  <2>1. Moved(r, "seed") /\ bringUp[r].at = "ship"  BY <1>1, <1>6, MovesTo DEF Ships
  <2>2. SawIsHeld(r)' /\ Undisturbed(r)'  BY <1>1, <2>1 DEF SawIsHeld, Undisturbed, InScript, Moved
  <2> QED BY <1>1, <2>1, <2>2, StepAside
<1> QED BY <1>2, <1>3, <1>4, <1>5, <1>6 DEF Checks, RefusesOrphan, RefusesDiverged, BringUpDies

LEMMA RepoStepsKeep ==
  ASSUME BringUpIInv, NEW r \in Bringer, Fetches(r) \/ Switches(r) \/ Merges(r), UNCHANGED case
  PROVE  BringUpIInv'
<1>1. /\ UNCHANGED <<here, origin, memory, session>> /\ session' \in {"none", "agent"} /\ bringUp[r].at \in {"fetch", "switch", "merge"}
      /\ BringUpFits /\ SawIsHeld(r) /\ Undisturbed(r) /\ RefsHold
  BY DEF Fetches, Switches, Merges, BringUpIInv, BringUpFits
<1>2. DOMAIN repo = {"on", "head", "tip", "other", "remote", "edit"} /\ repo.on \in {"branch", "other", "detached", "absent"}
  BY <1>1 DEF BringUpFits
<1>3. CASE Fetches(r)
  <2>1. Moved(r, "orphan") /\ bringUp[r].at = "fetch" /\ repo' = [repo EXCEPT !.remote = origin]
    BY <1>1, <1>3, MovesTo DEF Fetches
  <2>2. /\ DOMAIN repo' = DOMAIN repo /\ repo'.remote = origin /\ repo'.on = repo.on /\ repo'.head = repo.head
        /\ repo'.tip = repo.tip /\ repo'.other = repo.other
    BY <1>2, <2>1
  <2>3. Passing' => Passing  BY <1>1, <2>1, OthersStand
  <2>4. RefsHold'  BY <1>1, <2>2, <2>3 DEF RefsHold
  <2>5. SawIsHeld(r)' /\ Undisturbed(r)'  BY <1>1, <2>1, <2>2 DEF SawIsHeld, Undisturbed, InScript, Moved
  <2> QED BY <1>1, <1>2, <2>1, <2>2, <2>4, <2>5, StepHere
<1>4. CASE Switches(r)
  <2>1. Moved(r, "merge") /\ bringUp[r].at = "switch" /\ repo' = [repo EXCEPT !.on = "branch", !.head = repo.tip]
    BY <1>1, <1>4, MovesTo DEF Switches
  <2>2. /\ DOMAIN repo' = DOMAIN repo /\ repo'.remote = repo.remote /\ repo'.on = "branch" /\ repo'.head = repo.tip
        /\ repo'.tip = repo.tip /\ repo'.other = repo.other
    BY <1>2, <2>1
  <2>3. RefsHold'  BY <1>1, <2>2 DEF RefsHold
  <2>4. SawIsHeld(r)' /\ Undisturbed(r)'  BY <1>1, <2>1, <2>2 DEF SawIsHeld, Undisturbed, InScript, Moved
  <2> QED BY <1>1, <1>2, <2>1, <2>2, <2>3, <2>4, StepHere
<1>5. CASE Merges(r) /\ repo.on = "branch" /\ repo.tip \subseteq repo.remote
  <2>1. Moved(r, "ship") /\ bringUp[r].at = "merge" /\ repo' = [repo EXCEPT !.tip = repo.remote, !.head = repo.remote]
    BY <1>1, <1>5, MovesTo DEF Merges
  <2>2. /\ DOMAIN repo' = DOMAIN repo /\ repo'.remote = repo.remote /\ repo'.on = "branch" /\ repo'.head = repo.remote
        /\ repo'.tip = repo.remote /\ repo'.other = repo.other
    BY <1>2, <1>5, <2>1
  <2>3. RefsHold'  BY <1>1, <2>2 DEF RefsHold
  <2>4. SawIsHeld(r)' /\ Undisturbed(r)'  BY <1>1, <2>1, <2>2 DEF SawIsHeld, Undisturbed, InScript, Moved
  <2> QED BY <1>1, <1>2, <2>1, <2>2, <2>3, <2>4, StepHere
<1>6. CASE Merges(r) /\ ~(repo.on = "branch" /\ repo.tip \subseteq repo.remote)
  BY <1>1, <1>6, MovesOver, StepOver DEF Merges
<1> QED BY <1>3, <1>4, <1>5, <1>6

LEMMA SeedAndStartKeep ==
  ASSUME BringUpIInv, NEW r \in Bringer, Seeds(r) \/ CopiesMemory(r) \/ StartsSession(r), UNCHANGED case
  PROVE  BringUpIInv'
<1>1. /\ UNCHANGED <<here, origin, repo>> /\ bringUp[r].at \in {"seed", "copy", "start"}
      /\ BringUpFits /\ SawIsHeld(r) /\ Undisturbed(r) /\ RefsHold
  BY DEF Seeds, CopiesMemory, StartsSession, BringUpIInv
<1>2. DOMAIN repo' = {"on", "head", "tip", "other", "remote", "edit"} /\ repo'.on \in {"branch", "other", "detached", "absent"}
  BY <1>1 DEF BringUpFits
<1>3. ASSUME NEW at, Moved(r, at), at \notin {"refs", "switch"}  PROVE RefsHold'
  <2>1. Passing' => Passing  BY <1>1, <1>3, OthersStand
  <2> QED BY <1>1, <2>1 DEF RefsHold
<1>4. CASE Seeds(r) \/ CopiesMemory(r)
  <2>1. UNCHANGED session /\ session' \in {"none", "agent"}  BY <1>1, <1>4 DEF Seeds, CopiesMemory, BringUpFits
  <2>2. CASE GoesTo(r, "start")
    <3>1. Moved(r, "start")  BY <1>1, <2>2, MovesTo
    <3>2. SawIsHeld(r)'  BY <1>1, <3>1 DEF SawIsHeld, Moved
    <3>3. Undisturbed(r)'  BY <1>1, <2>1, <3>1 DEF Undisturbed, InScript, Moved
    <3> QED BY <1>1, <1>2, <1>3, <2>1, <3>1, <3>2, <3>3, StepHere
  <2>3. CASE GoesTo(r, "copy") /\ case.seeds /\ memory' = "half"
    <3>1. Moved(r, "copy")  BY <1>1, <2>3, MovesTo
    <3>2. SawIsHeld(r)'  BY <1>1, <3>1 DEF SawIsHeld, Moved
    <3>3. Undisturbed(r)'  BY <1>1, <2>1, <2>3, <3>1 DEF Undisturbed, InScript, Moved
    <3> QED BY <1>1, <1>2, <1>3, <2>1, <3>1, <3>2, <3>3, StepHere
  <2> QED BY <1>4, <2>2, <2>3 DEF Seeds, CopiesMemory
<1>5. CASE StartsSession(r)
  <2>1. PICK result : Ends(r, result)  BY <1>5 DEF StartsSession
  <2>2. UNCHANGED memory /\ session' \in {"none", "agent"}  BY <1>1, <1>5 DEF StartsSession, BringUpFits
  <2>3. Moved(r, "over")  BY <1>1, <2>1, MovesOver
  <2> QED BY <1>1, <2>2, <2>3, StepOver
<1> QED BY <1>4, <1>5

LEMMA BeginKeeps ==
  ASSUME BringUpIInv, NEW r \in Bringer, Begins(r), UNCHANGED case
  PROVE  BringUpIInv'
<1>1. /\ UNCHANGED <<here, origin, repo, memory, session>> /\ BringUpFits /\ bringUp[r].at = "over"
      /\ \A s \in Bringer \ {r} : bringUp[s].at # "over" => case.elsewhere
  BY DEF Begins, BringUpIInv
<1>2. /\ DOMAIN bringUp' = Bringer /\ \A s \in Bringer : DOMAIN bringUp'[s] = {"at", "ups", "result", "reads", "saw"}
      /\ bringUp'[r].at = (IF case.elsewhere THEN "look" ELSE "branch") /\ bringUp'[r].saw = {}
      /\ \A s \in Bringer \ {r} : bringUp'[s] = bringUp[s]
  BY <1>1 DEF Begins, BringUpFits
<1>3. BringUpFits'  BY <1>1, <1>2 DEF BringUpFits
<1>4. RefsHold'
  <2>1. Passing' => Passing  BY <1>2 DEF Passing
  <2> QED BY <1>1, <2>1 DEF BringUpIInv, RefsHold
<1>5. OneBringUp'  BY <1>1, <1>2 DEF OneBringUp
<1>6. SawIsHeld(r)' /\ Undisturbed(r)'  BY <1>1, <1>2 DEF SawIsHeld, Undisturbed, InScript
<1>7. \A s \in Bringer \ {r} : SawIsHeld(s)' /\ Undisturbed(s)'
  BY <1>1, <1>2 DEF BringUpIInv, SawIsHeld, Undisturbed, InScript
<1> QED BY <1>3, <1>4, <1>5, <1>6, <1>7 DEF BringUpIInv

(* What the users and the agent do only adds: to the branches, to HEAD, to *)
(* origin.                                                                 *)
LEMMA UsersAdd ==
  ASSUME BringUpIInv, UNCHANGED <<case, bringUp>>, BringUpFits', RefsHold',
         origin \subseteq origin', repo.remote \subseteq repo'.remote, repo.head \subseteq repo'.head,
         session' \in {session, "none"}, memory' = memory \/ session = "agent"
  PROVE  BringUpIInv'
<1>1. OneBringUp'  BY DEF BringUpIInv, OneBringUp
<1>2. ASSUME NEW r \in Bringer  PROVE SawIsHeld(r)' /\ Undisturbed(r)'
  <2>1. SawIsHeld(r) /\ Undisturbed(r) /\ BringUpFits  BY DEF BringUpIInv
  <2>2. SawIsHeld(r)'  BY <2>1 DEF SawIsHeld
  <2>3. Undisturbed(r)'  BY <2>1 DEF Undisturbed, InScript, BringUpFits
  <2> QED BY <2>2, <2>3
<1> QED BY <1>1, <1>2 DEF BringUpIInv

LEMMA UsersKeep ==
  ASSUME BringUpIInv, UsersWork \/ AgentEnds, UNCHANGED case
  PROVE  BringUpIInv'
<1>1. BringUpFits /\ RefsHold  BY DEF BringUpIInv
<1>2. CASE HereWorks
  <2>1. UNCHANGED <<repo, memory, session, bringUp>>  BY <1>2 DEF HereWorks
  <2>2. DOMAIN here' = DOMAIN here /\ origin \subseteq origin' /\ here'.tracking \subseteq origin'
    BY <1>1, <1>2 DEF HereWorks, BringUpFits, RefsHold
  <2>3. BringUpFits' /\ RefsHold'  BY <1>1, <2>1, <2>2 DEF BringUpFits, RefsHold, Passing
  <2> QED BY <2>1, <2>2, <2>3, UsersAdd
<1>3. CASE AgentEnds
  <2>1. UNCHANGED <<here, origin, repo, memory, bringUp>> /\ session' = "none"  BY <1>3 DEF AgentEnds
  <2>2. BringUpFits' /\ RefsHold'  BY <1>1, <2>1 DEF BringUpFits, RefsHold, Passing
  <2> QED BY <2>1, <2>2, UsersAdd
<1>4. CASE ThereWorks
  <2>1. UNCHANGED <<here, session, bringUp>> /\ (memory' = memory \/ session = "agent") /\ (Passing' <=> Passing)
    BY <1>4 DEF ThereWorks, Passing
  <2>2. /\ DOMAIN repo' = {"on", "head", "tip", "other", "remote", "edit"}
        /\ repo'.on \in {"branch", "other", "detached", "absent"}
        /\ origin \subseteq origin' /\ repo.remote \subseteq repo'.remote /\ repo.head \subseteq repo'.head
        /\ RefsHold'
    <3>1. DOMAIN repo = {"on", "head", "tip", "other", "remote", "edit"} /\ repo.on \in {"branch", "other", "detached", "absent"}
      BY <1>1 DEF BringUpFits
    <3>2. CASE \E c : repo' = [repo EXCEPT !.edit = {c}] /\ UNCHANGED origin
      BY <1>1, <2>1, <3>1, <3>2 DEF RefsHold
    <3>3. CASE /\ repo.on = "detached" => ~Passing
               /\ repo' = [repo EXCEPT !.head = @ \cup repo.edit, !.edit = NoEdit,
                             !.tip = IF repo.on = "branch" THEN @ \cup repo.edit ELSE @,
                             !.other = IF repo.on = "other" THEN repo.head \cup repo.edit ELSE @]
               /\ UNCHANGED origin /\ repo.on # "absent"
      <4>1. /\ repo'.on = repo.on /\ repo'.head = repo.head \cup repo.edit /\ repo'.remote = repo.remote
            /\ repo'.tip = (IF repo.on = "branch" THEN repo.tip \cup repo.edit ELSE repo.tip)
            /\ repo'.other = (IF repo.on = "other" THEN repo.head \cup repo.edit ELSE repo.other)
            /\ DOMAIN repo' = {"on", "head", "tip", "other", "remote", "edit"}
        BY <3>1, <3>3
      <4> QED BY <1>1, <2>1, <3>1, <3>3, <4>1 DEF RefsHold
    <3>4. CASE repo.on = "branch" /\ repo' = [repo EXCEPT !.on = "detached"] /\ UNCHANGED origin
      BY <1>1, <2>1, <3>1, <3>4 DEF RefsHold
    <3>5. CASE repo.on = "branch" /\ repo.other = {} /\ repo' = [repo EXCEPT !.on = "other", !.other = repo.head] /\ UNCHANGED origin
      BY <1>1, <2>1, <3>1, <3>5 DEF RefsHold
    <3>6. CASE origin \subseteq repo.tip /\ origin' = repo.tip /\ repo' = [repo EXCEPT !.remote = repo.tip]
      BY <1>1, <2>1, <3>1, <3>6 DEF RefsHold
    <3>7. CASE UNCHANGED <<origin, repo>>
      BY <1>1, <2>1, <3>1, <3>7 DEF RefsHold
    <3> QED BY <1>4, <3>2, <3>3, <3>4, <3>5, <3>6, <3>7 DEF ThereWorks
  <2>3. BringUpFits'  BY <1>1, <2>1, <2>2 DEF BringUpFits
  <2> QED BY <2>1, <2>2, <2>3, UsersAdd
<1> QED BY <1>2, <1>3, <1>4 DEF UsersWork

LEMMA BringUpStepKeeps ==
  ASSUME BringUpIInv, [BringUpNext]_upvars
  PROVE  BringUpIInv'
<1>1. CASE UNCHANGED upvars
  BY <1>1 DEF upvars, BringUpIInv, BringUpFits, RefsHold, OneBringUp, SawIsHeld, Undisturbed, InScript, Passing
<1>2. CASE BringUpNext
  BY <1>2, UsersKeep, BeginKeeps, LookKeeps, CloneKeeps, ChecksKeep, RepoStepsKeep, SeedAndStartKeep DEF BringUpNext, BringUpStep
<1> QED BY <1>1, <1>2

LEMMA BringUpInitially ==
  ASSUME BringUpInit
  PROVE  BringUpIInv
<1>1. case \in BringUpSetups /\ BringUpStart  BY DEF BringUpInit
<1>2. BringUpFits  BY <1>1, BringUpAssumption DEF BringUpStart, BringUpFits
<1>3. RefsHold  BY <1>1 DEF BringUpStart, RefsHold, Passing
<1>4. OneBringUp /\ \A r \in Bringer : SawIsHeld(r) /\ Undisturbed(r)
  BY <1>1 DEF BringUpStart, OneBringUp, SawIsHeld, Undisturbed, InScript
<1> QED BY <1>2, <1>3, <1>4 DEF BringUpIInv

(* Who takes something out of the node's clone: nobody.                    *)
LEMMA RepoKeepsWork ==
  ASSUME BringUpIInv, BringUpNext, repo.on # "absent"
  PROVE  Held \subseteq Held'
<1>1. DOMAIN repo = {"on", "head", "tip", "other", "remote", "edit"} /\ RefsHold
  BY DEF BringUpIInv, BringUpFits
<1>2. CASE UNCHANGED repo  BY <1>2 DEF Held
<1>3. CASE ThereWorks
  <2>1. CASE \E c : repo.edit = NoEdit /\ repo' = [repo EXCEPT !.edit = {c}]
    BY <1>1, <2>1 DEF Held, NoEdit
  <2>2. CASE repo' = [repo EXCEPT !.head = @ \cup repo.edit, !.edit = NoEdit,
                        !.tip = IF repo.on = "branch" THEN @ \cup repo.edit ELSE @,
                        !.other = IF repo.on = "other" THEN repo.head \cup repo.edit ELSE @]
    <3>1. /\ repo'.head = repo.head \cup repo.edit /\ repo'.remote = repo.remote
          /\ repo'.tip = (IF repo.on = "branch" THEN repo.tip \cup repo.edit ELSE repo.tip)
          /\ repo'.other = (IF repo.on = "other" THEN repo.head \cup repo.edit ELSE repo.other)
      BY <1>1, <2>2
    <3> QED BY <1>1, <3>1 DEF Held, RefsHold
  <2>3. CASE repo' = [repo EXCEPT !.on = "detached"]
    BY <1>1, <2>3 DEF Held
  <2>4. CASE repo.other = {} /\ repo' = [repo EXCEPT !.on = "other", !.other = repo.head]
    BY <1>1, <2>4 DEF Held
  <2>5. CASE origin \subseteq repo.tip /\ repo' = [repo EXCEPT !.remote = repo.tip]
    BY <1>1, <2>5 DEF Held, RefsHold
  <2> QED BY <1>2, <1>3, <2>1, <2>2, <2>3, <2>4, <2>5 DEF ThereWorks
<1>4. ASSUME NEW r \in Bringer, Fetches(r)  PROVE Held \subseteq Held'
  BY <1>1, <1>4 DEF Fetches, Held, RefsHold
<1>5. ASSUME NEW r \in Bringer, Switches(r)  PROVE Held \subseteq Held'
  <2>1. repo.head \subseteq repo.tip \cup repo.other \cup repo.remote  BY <1>1, <1>5 DEF RefsHold, Passing, Switches
  <2>2. repo' = [repo EXCEPT !.on = "branch", !.head = repo.tip]  BY <1>5 DEF Switches
  <2> QED BY <1>1, <2>1, <2>2 DEF Held
<1>6. ASSUME NEW r \in Bringer, Merges(r)  PROVE Held \subseteq Held'
  <2>1. CASE repo.on = "branch" /\ repo.tip \subseteq repo.remote /\ repo' = [repo EXCEPT !.tip = repo.remote, !.head = repo.remote]
    BY <1>1, <2>1 DEF Held, RefsHold
  <2> QED BY <1>2, <1>6, <2>1 DEF Merges
<1>7. ASSUME NEW r \in Bringer, Clones(r)  PROVE Held \subseteq Held'
  BY <1>2, <1>7 DEF Clones
<1>8. ASSUME NEW r \in Bringer, BringUpStep(r)  PROVE Held \subseteq Held'
  BY <1>2, <1>4, <1>5, <1>6, <1>7, <1>8 DEF BringUpStep, Begins, ReadsRepo, JudgesRepo, Attaches, Checks, RefusesOrphan, RefusesDiverged,
     Ships, Seeds, CopiesMemory, StartsSession, BringUpDies
<1> QED BY <1>2, <1>3, <1>8 DEF BringUpNext, UsersWork, HereWorks, AgentEnds

LEMMA MemoryKept ==
  ASSUME BringUpIInv, BringUpNext, memory = "theirs"
  PROVE  memory' = "theirs"
<1>1. ASSUME NEW r \in Bringer, Seeds(r)  PROVE memory' = "theirs"
  BY <1>1 DEF Seeds, MemoryThere
<1>2. ASSUME NEW r \in Bringer, CopiesMemory(r)  PROVE FALSE
  BY <1>2 DEF CopiesMemory, BringUpIInv, Undisturbed
<1>3. ASSUME NEW r \in Bringer, BringUpStep(r)  PROVE memory' = "theirs"
  BY <1>1, <1>2, <1>3 DEF BringUpStep, Begins, ReadsRepo, JudgesRepo, Attaches, Clones, Checks, Fetches, RefusesOrphan, RefusesDiverged,
     Switches, Merges, Ships, StartsSession, BringUpDies
<1> QED BY <1>3 DEF BringUpNext, UsersWork, HereWorks, ThereWorks, AgentEnds

(* For any bring-ups, commits and setups in which two PCs do not seed at   *)
(* once: a session that was started without --allow-dirty works on all the *)
(* PC had committed at its last look, and no step of a bring-up, whole or  *)
(* cut short, loses a commit or a memory made on the node.                 *)
THEOREM BringUpIsSafe == BringUpSpec => BringUpKeepsWork
<1>1. ASSUME BringUpIInv, [BringUpNext]_upvars
      PROVE  [\A r \in Bringer : bringUp[r].at = "start" /\ session = "none" /\ session' = "agent" /\ bringUp'[r].at = "over" /\ ~case.allow
                => bringUp[r].saw \subseteq repo.head]_upvars
  BY <1>1 DEF BringUpIInv, SawIsHeld
<1>2. ASSUME BringUpIInv, [BringUpNext]_upvars
      PROVE  [repo.on # "absent" => Held \subseteq Held' /\ (memory = "theirs" => memory' = "theirs")]_upvars
  BY <1>2, RepoKeepsWork, MemoryKept
<1> QED BY <1>1, <1>2, BringUpInitially, BringUpStepKeeps, PTL DEF BringUpSpec, BringUpKeepsWork, HasTheWork, NothingLost
=============================================================================
