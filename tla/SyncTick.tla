------------------------------ MODULE SyncTick ------------------------------
(***************************************************************************)
(* The node sync's ticks (node_sync.NodeSyncer): one pull per node of the  *)
(* pool on the worker threads, collected by this tick or a later one, what *)
(* is logged about it, and the config the ticks run on (ConfigWatch).      *)
(*                                                                         *)
(* A tick's thread and its workers share `_inflight`, whose futures the    *)
(* tick asks for `done()`, and `_errors`, where a worker leaves its bug    *)
(* before its future is done.                                              *)
(***************************************************************************)
EXTENDS Naturals, FiniteSets, Sequences

CONSTANTS Node,        \* the nodes that the config names at some time
          TickPools,   \* the pools that edits leave
          Outcomes,    \* what a pull may come to: ok, unreachable, failed, locked, internal (a bug: FAILED too)
          Workers,     \* the cap on a pool's threads
          TickSetups,  \* pool, edits: how many, broken: they may not load, most: pulls of each node
          StaleAge     \* ticks after which a pull that runs on is no longer only slow

ASSUME TickAssumption == "internal error" \notin Outcomes

VARIABLES syncer,    \* [pc, config: its pool, gen: its executor, size: that one's threads, results]
          pulls,     \* the pulls of each node: [at, age, gen, out]
          inflight,  \* _inflight: which of a node's pulls, or 0
          errors,    \* _errors: which pull's bug waits for _note, or 0
          last,      \* _last
          noted,     \* what _note made of finished pulls: [nick, pull, state, error]
          config,    \* the file: [pool, stamp, good]
          watch,     \* ConfigWatch: [at, stamp, pool]
          most       \* the setup

tickvars == <<syncer, pulls, inflight, errors, last, noted, config, watch, most>>

Now(n) == pulls[n][inflight[n]]
Flying == {n \in Node : inflight[n] # 0}
Over == {n \in Flying : Now(n).at = "done"}
Live(p) == p.at \in {"queued", "running", "raised"}

TickTypeOK ==
  /\ \A n \in Node : Len(pulls[n]) <= most.most[n] /\ inflight[n] \in 0..Len(pulls[n]) /\ errors[n] \in 0..Len(pulls[n])
  /\ syncer.pc \in {"rest", "map", "dial", "wait", "note", "closed"} /\ syncer.config \subseteq Node
  /\ watch.at \in {"idle", "stamped", "loaded"}

-----------------------------------------------------------------------------
(* The config.                                                             *)

WatchRest == UNCHANGED <<most, pulls, inflight, errors, last, noted>>
EditsConfig(set, good) == /\ config.stamp < most.edits /\ (good \/ most.broken) /\ config' = [pool |-> set, stamp |-> config.stamp + 1, good |-> good]
                    /\ UNCHANGED <<syncer, watch>> /\ WatchRest
\* The stamp is read before the file: an edit in between is loaded again.
Stamps == /\ syncer.pc = "rest" /\ watch.at = "idle" /\ watch.stamp # config.stamp
          /\ watch' = [watch EXCEPT !.at = "stamped", !.stamp = config.stamp] /\ UNCHANGED <<syncer, config>> /\ WatchRest
\* A file that does not load leaves the last good one in force.
LoadsConfig == /\ watch.at = "stamped" /\ UNCHANGED <<syncer, config>> /\ WatchRest
         /\ watch' = [watch EXCEPT !.at = "loaded", !.pool = IF config.good THEN config.pool ELSE @]
Reconfigures_ThenStamps ==
  /\ watch.at = "loaded" /\ watch' = [watch EXCEPT !.at = "idle", !.stamp = config.stamp]
  /\ syncer' = [syncer EXCEPT !.config = watch.pool] /\ UNCHANGED config /\ WatchRest
Reconfigures == /\ watch.at = "loaded" /\ watch' = [watch EXCEPT !.at = "idle"]
                /\ syncer' = [syncer EXCEPT !.config = watch.pool] /\ UNCHANGED config /\ WatchRest

-----------------------------------------------------------------------------
(* _note: what it is told is [nick, out, pull: the finished one, or 0].    *)

Takes_Any(s) == errors[s.nick] # 0
\* Only a finished pull's FAILED takes the error.
Takes(s) == s.out = "internal" /\ errors[s.nick] # 0
State(s) == IF Takes(s) THEN "internal error" ELSE s.out
NotesWhat(told) ==      \* a locked tick is no state
  LET said == {s \in told : s.out # "locked"}
      About(n) == {s \in said : s.nick = n}
  IN /\ last' = [n \in Node |-> IF About(n) = {} THEN last[n] ELSE State(CHOOSE s \in About(n) : TRUE)]
     /\ errors' = [n \in Node |-> IF \E s \in About(n) : Takes(s) THEN 0 ELSE errors[n]]
     /\ noted' = noted \cup {[nick |-> s.nick, pull |-> s.pull, state |-> State(s), error |-> IF Takes(s) THEN errors[s.nick] ELSE 0] :
                              s \in {t \in said : t.pull # 0}}
Told(n) == [nick |-> n, out |-> Now(n).out, pull |-> inflight[n]]

-----------------------------------------------------------------------------
(* A tick.                                                                 *)

TickRest == UNCHANGED <<most, config, watch>>
Begins == /\ syncer.pc = "rest" /\ watch.at = "idle" /\ syncer' = [syncer EXCEPT !.pc = "map"]
          /\ TickRest /\ UNCHANGED <<pulls, inflight, errors, last, noted>>
\* A map that cannot be read: nothing is dialled, nothing collected.
MapUnreadable == /\ syncer.pc = "map" /\ syncer' = [syncer EXCEPT !.pc = "rest"]
                 /\ TickRest /\ UNCHANGED <<pulls, inflight, errors, last, noted>>
\* A node that left the pool: a pull of it that is over is dropped, its state forgotten.
Forgets ==
  LET gone == Over \ syncer.config IN
  /\ syncer.pc = "map" /\ syncer' = [syncer EXCEPT !.pc = IF syncer.config = {} THEN "rest" ELSE "dial"]
  /\ pulls' = [n \in Node |-> IF n \in gone THEN [pulls[n] EXCEPT ![inflight[n]].at = "dropped"] ELSE pulls[n]]
  /\ inflight' = [n \in Node |-> IF n \in gone THEN 0 ELSE inflight[n]]
  /\ errors' = [n \in Node |-> IF n \in gone THEN 0 ELSE errors[n]]
  /\ last' = [n \in Node |-> IF n \in syncer.config THEN last[n] ELSE "none"]
  /\ TickRest /\ UNCHANGED noted
\* _pool: another size makes another executor, and the old one's pulls run on.
Size == IF Cardinality(syncer.config) < Workers THEN Cardinality(syncer.config) ELSE Workers
Executor == IF Size = syncer.size THEN syncer.gen ELSE syncer.gen + 1
\* A node whose pull runs on is not dialled again; what ended since the last tick is noted first.
Dials ==
  LET due == syncer.config \ (Flying \ Over) IN
  /\ syncer.pc = "dial" /\ \A n \in due : Len(pulls[n]) < most.most[n]
  /\ NotesWhat({Told(n) : n \in due \cap Flying})
  /\ pulls' = [n \in Node |-> IF n \in due THEN Append(pulls[n], [at |-> "queued", age |-> 0, gen |-> Executor, out |-> "none"]) ELSE pulls[n]]
  /\ inflight' = [n \in Node |-> IF n \in due THEN Len(pulls[n]) + 1 ELSE inflight[n]]
  /\ syncer' = [syncer EXCEPT !.pc = "wait", !.gen = Executor, !.size = Size] /\ TickRest
\* The wait ends when all are done, or in the middle of it: what runs on reads unreachable, which is news only once it is stale.
Collects ==
  LET over == Over \cap syncer.config
      stale == {n \in syncer.config \ over : Now(n).age > StaleAge}
  IN /\ syncer.pc = "wait" /\ TickRest /\ UNCHANGED <<pulls, errors, last, noted>>
     /\ inflight' = [n \in Node |-> IF n \in over THEN 0 ELSE inflight[n]]
     /\ syncer' = [syncer EXCEPT !.pc = "note",
          !.results = {Told(n) : n \in over} \cup {[nick |-> n, out |-> "unreachable", pull |-> 0] : n \in stale}]
NotesAll == /\ syncer.pc = "note" /\ NotesWhat(syncer.results) /\ syncer' = [syncer EXCEPT !.pc = "rest", !.results = {}]
            /\ pulls' = [n \in Node |-> [k \in DOMAIN pulls[n] |->
                           IF Live(pulls[n][k]) /\ pulls[n][k].age <= StaleAge THEN [pulls[n][k] EXCEPT !.age = @ + 1] ELSE pulls[n][k]]]
            /\ TickRest /\ UNCHANGED inflight
\* close: what its pool holds queued is cancelled, what runs ends on its own.
Closes == /\ syncer.pc = "rest" /\ watch.at = "idle" /\ syncer' = [syncer EXCEPT !.pc = "closed"]
          /\ pulls' = [n \in Node |-> [k \in DOMAIN pulls[n] |->
                         IF pulls[n][k].at = "queued" /\ pulls[n][k].gen = syncer.gen THEN [pulls[n][k] EXCEPT !.at = "cancelled"] ELSE pulls[n][k]]]
          /\ inflight' = [n \in Node |-> 0] /\ TickRest /\ UNCHANGED <<errors, last, noted>>

-----------------------------------------------------------------------------
(* A worker (_sync_node): its bug is left in _errors before its future is done. *)

WorkerRest == UNCHANGED <<most, syncer, inflight, last, noted, config, watch>>
Threads(g) == Cardinality({x \in UNION {{n} \X DOMAIN pulls[n] : n \in Node} :
                             pulls[x[1]][x[2]].gen = g /\ pulls[x[1]][x[2]].at \in {"running", "raised"}})
StartsPull(n, k) == /\ pulls[n][k].at = "queued" /\ Threads(pulls[n][k].gen) < Workers
               /\ pulls' = [pulls EXCEPT ![n][k].at = "running"] /\ errors' = [errors EXCEPT ![n] = 0] /\ WorkerRest
Raises(n, k) == /\ pulls[n][k].at = "running" /\ pulls' = [pulls EXCEPT ![n][k].at = "raised"]
                /\ errors' = [errors EXCEPT ![n] = k] /\ WorkerRest
Ends(n, k, o) == /\ pulls[n][k].at = (IF o = "internal" THEN "raised" ELSE "running")
                 /\ pulls' = [pulls EXCEPT ![n][k].at = "done", ![n][k].out = o] /\ UNCHANGED errors /\ WorkerRest

-----------------------------------------------------------------------------
TickStart(s) ==
  /\ most = s
  /\ syncer = [pc |-> "rest", config |-> s.pool, gen |-> 0, size |-> 0, results |-> {}]
  /\ pulls = [n \in Node |-> <<>>] /\ inflight = [n \in Node |-> 0] /\ errors = [n \in Node |-> 0]
  /\ last = [n \in Node |-> "none"] /\ noted = {}
  /\ config = [pool |-> s.pool, stamp |-> 0, good |-> TRUE] /\ watch = [at |-> "idle", stamp |-> 0, pool |-> s.pool]
TickInit == \E s \in TickSetups : TickStart(s)

TickNext ==
  \/ \E set \in TickPools, good \in BOOLEAN : EditsConfig(set, good)
  \/ Stamps \/ LoadsConfig \/ Reconfigures
  \/ Begins \/ MapUnreadable \/ Forgets \/ Dials \/ Collects \/ NotesAll \/ Closes
  \/ \E n \in Node : \E k \in DOMAIN pulls[n] : StartsPull(n, k) \/ Raises(n, k) \/ \E o \in Outcomes : Ends(n, k, o)
  \/ UNCHANGED tickvars
TickSpec == TickInit /\ [][TickNext]_tickvars

-----------------------------------------------------------------------------
(* Each pull is accounted for (tick, _note): a node is never dialled while *)
(* a pull of it runs, across ticks, pools of another size and configs that *)
(* drop and name it again; a pull that ended is noted, unless it was       *)
(* dropped with its node; and a worker's bug is noted by the tick that     *)
(* collects that very pull, with its own error, and by no other.           *)
PullsAreAccounted ==
  /\ \A n \in Node : Cardinality({k \in DOMAIN pulls[n] : Live(pulls[n][k])}) <= 1
  /\ syncer.pc \in {"rest", "map"} => \A n \in Node : \A k \in DOMAIN pulls[n] :
       pulls[n][k].at = "done" /\ pulls[n][k].out # "locked" /\ k # inflight[n] => \E r \in noted : r.nick = n /\ r.pull = k
  /\ \A r \in noted : (pulls[r.nick][r.pull].out = "internal") = (r.state = "internal error") /\ r.error \in {0, r.pull}

(* Once the watch has seen the file's last stamp, what it loaded is what   *)
(* the file says (ConfigWatch: "an edit landing in between is still        *)
(* reloaded").                                                             *)
EditsTakeEffect == watch.at = "idle" /\ watch.stamp = config.stamp /\ config.good => watch.pool = config.pool

(* Both: the tick knows its pulls, and its config.                         *)
TicksAreAccounted == PullsAreAccounted /\ EditsTakeEffect
=============================================================================
