---------------------------- MODULE LoadHistory ----------------------------
(***************************************************************************)
(* How a project without a node of its own gets one: the load samples the  *)
(* node sync daemon appends to each node's load.jsonl and trims, and the   *)
(* placement that reads them, asks a thinly sampled node once, and takes   *)
(* the lowest score.  The PC's clock is stepped, the daemon dies, files    *)
(* cannot be read or written, nodes change.                                *)
(*                                                                         *)
(* A row is [ok, at, real, reading]: whether it parses, its stamp on this  *)
(* PC's clock, when it really was.  A reading is [load, sized,       *)
(* mem, mine, tok]: load per core and free memory in hundredths, and       *)
(* whether the memory's size is known, the sessions there, and whether     *)
(* there is a Claude token: "yes", "no" or "mute", not said.  A number     *)
(* may be below 0.  What placed a project before is a node, Nil, or "left" *)
(* for one that left the configuration.                                    *)
(***************************************************************************)
EXTENDS Integers, FiniteSets, Sequences, TLC, FiniteSetsExt, SequencesExt

CONSTANTS Node, Nil,
          Order,         \* settings.nodes: each node's place in it
          Batch,         \* the projects of a placement pass, in their order
          Readings,
          Interval, History, Slack,  \* sample_interval_s, history_h, _append_sample's slack
          Ahead,                     \* how far the clock may run ahead
          Window, Least,             \* PLACEMENT_WINDOW_S, MIN_WINDOW_SAMPLES
          LoadSetups     \* [until, shifts, steps, faults, reads, places, steady, live, held, first]: what a behaviour may do

VARIABLES clock, real,   \* this PC's clock, and the time that really passed
          truth,         \* what each node would say
          file,          \* its load.jsonl
          kept,          \* _last_sample: the stamp of the last sample taken, or Nil
          word,          \* when each node's last row was really written (history)
          pass,          \* a placement: [pc, rows, ask, live, put: each project's decision]
          shifts, steps, faults, loadSetup

loadvars == <<clock, real, truth, file, kept, word, pass, shifts, steps, faults, loadSetup>>

Sampled == {n \in Node : loadSetup.reads[n]}
NoPass == [pc |-> "idle", rows |-> [n \in Node |-> <<>>], live |-> {}, ask |-> {}, at |-> 0, real |-> 0, word |-> [n \in Node |-> 0], put |-> <<>>]

LoadTypeOK ==
  /\ clock \in Nat /\ real \in Nat /\ truth \in [Node -> Readings] /\ kept \in [Node -> Nat \cup {Nil}]
  /\ \A n \in Node, i \in Nat : i \in DOMAIN file[n] => file[n][i].reading \in Readings
  /\ pass.pc \in {"idle", "asking", "asked", "done"} /\ pass.live \subseteq Node

-----------------------------------------------------------------------------
(* Time, the nodes, the clock.                                             *)

Still == UNCHANGED <<file, kept, word, pass, loadSetup>>
Fault == faults < loadSetup.faults /\ faults' = faults + 1
\* A clock stepped back does not wait until it was there before.
Due(n) == kept[n] # Nil => clock \notin kept[n]..(kept[n] + Interval - 1)
\* Where the setup says so the daemon misses no sample.
Ages == (loadSetup.steady => \A n \in Sampled : ~Due(n)) /\ real < loadSetup.until /\ real' = real + 1 /\ clock' = clock + 1 /\ Still /\ UNCHANGED <<truth, shifts, steps, faults>>
\* The clock ran ahead, and is stepped back.
ClockSteps ==
  /\ steps < loadSetup.steps /\ steps' = steps + 1 /\ clock' = (IF steps = 0 THEN clock + Ahead ELSE clock - Ahead)
  /\ Still /\ UNCHANGED <<real, truth, shifts, faults>>
Changes(n) == \E t \in Readings \ {truth[n]} :
  shifts < loadSetup.shifts /\ shifts' = shifts + 1 /\ truth' = [truth EXCEPT ![n] = t] /\ Still /\ UNCHANGED <<clock, real, steps, faults>>

-----------------------------------------------------------------------------
(* The daemon's samples.                                                   *)

DaemonRow == UNCHANGED <<clock, real, truth, pass, shifts, steps, loadSetup>>
NewRow(n, at) == [ok |-> TRUE, at |-> at, real |-> real, reading |-> truth[n]]
Torn(n) == [ok |-> FALSE, at |-> 0, real |-> real, reading |-> truth[n]]

\* The first row tells: it does not parse, is too old, or comes from the future.
NeedsTrim_Old(s, at) == s # <<>> /\ Head(s).ok /\ Head(s).at < at - History - Slack
NeedsTrim(s, at) == s # <<>> /\ (~Head(s).ok \/ Head(s).at < at - History - Slack \/ Head(s).at > at)
Trimmed(s, at) == SelectSeq(s, LAMBDA r : r.ok /\ at - History <= r.at /\ r.at <= at)
AfterSample(n) == Append(IF NeedsTrim(file[n], clock) THEN Trimmed(file[n], clock) ELSE file[n], NewRow(n, clock))

Samples(n) ==
  /\ n \in Sampled /\ Due(n) /\ kept' = [kept EXCEPT ![n] = clock] /\ DaemonRow
  /\ \/ file' = [file EXCEPT ![n] = AfterSample(n)] /\ word' = [word EXCEPT ![n] = real] /\ UNCHANGED faults
     \/ Fault /\ UNCHANGED <<file, word>>  \* a row that cannot be kept waits for the next sample
\* The daemon dies in the middle of an append; a new one starts a line of its own.
DiesAppending(n) ==
  /\ n \in Sampled /\ Due(n) /\ ~NeedsTrim(file[n], clock) /\ Fault /\ file' = [file EXCEPT ![n] = Append(@, Torn(n))]
  /\ kept' = [m \in Node |-> Nil] /\ DaemonRow /\ UNCHANGED word

-----------------------------------------------------------------------------
(* The score, in 1/1600.                                                   *)

Loads(rows) == SortSeq([i \in DOMAIN rows |-> Max({0, rows[i].reading.load})], <)
FourP75(rows) == LET s == Loads(rows)  pos == 3 * (Len(s) - 1)  low == pos \div 4  high == Min({low + 1, Len(s) - 1}) IN
  (4 - (pos % 4)) * s[low + 1] + (pos % 4) * s[high + 1]
Spike(rows) == Max({0, 8 * Loads(rows)[Len(rows)] - 3 * FourP75(rows)})
\* The newest row; of two, the worse one.
Worse(a, b) == \/ a.at > b.at
               \/ a.at = b.at /\ a.reading.mem < b.reading.mem
               \/ a.at = b.at /\ a.reading.mem = b.reading.mem /\ a.reading.mine >= b.reading.mine
Latest(rows) == rows[CHOOSE i \in DOMAIN rows : \A j \in DOMAIN rows : Worse(rows[i], rows[j])]
Score(rows, extra) == LET r == Latest(rows).reading IN
  4 * FourP75(rows) + Spike(rows) + (IF r.sized THEN 8 * Max({0, 15 - Max({0, r.mem})}) ELSE 0) + 80 * (Max({0, r.mine}) + extra)

NoToken(rows) == Latest(rows).reading.tok = "no"
BelowFloor(rows) == LET r == Latest(rows).reading IN r.sized /\ r.mem < 10
\* Nodes that are passed over while there are others: no token, then too little memory.
Others(some, passed) == IF some \ passed = {} THEN some ELSE some \ passed
Candidates(rows) == LET scored == {n \in Node : rows[n] # <<>>}
                        ready == Others(scored, {n \in scored : NoToken(rows[n])}) IN
  Others(ready, {n \in ready : BelowFloor(rows[n])})
Beats(n, m, rows, extra) == LET a == Score(rows[n], extra[n])  b == Score(rows[m], extra[m]) IN a < b \/ (a = b /\ Order[n] <= Order[m])
Best(rows, extra) == CHOOSE n \in Candidates(rows) : \A m \in Candidates(rows) : Beats(n, m, rows, extra)

-----------------------------------------------------------------------------
(* A placement.                                                            *)

Placer == UNCHANGED <<clock, real, truth, file, kept, word, shifts, steps, loadSetup>>
InWindow_All(rows) == SelectSeq(rows, LAMBDA r : r.ok)
InWindow(rows) == SelectSeq(rows, LAMBDA r : r.ok /\ r.at >= clock - Window)
Sparse(rows) == {n \in Node : Len(rows[n]) < Least}

Kept(p) == loadSetup.held[p] \in Node
Keeping == [p \in Range(Batch) |-> [to |-> loadSetup.held[p], why |-> "kept"]]
Unknown == [p \in Range(Batch) |-> [to |-> Nil, why |-> "unknown"]]
\* A node map that does not read places nothing: a project may be running somewhere.
MapUnread == /\ pass.pc = "idle" /\ loadSetup.places /\ Fault /\ Placer
             /\ pass' = [NoPass EXCEPT !.pc = "done", !.put = Unknown]
\* Where every project is placed already nothing is read.
KeepsAll == /\ pass.pc = "idle" /\ loadSetup.places /\ (\A p \in Range(Batch) : Kept(p)) /\ Placer /\ UNCHANGED faults
            /\ pass' = [NoPass EXCEPT !.pc = "done", !.put = Keeping]
\* Every node's window; a history that does not read is an empty one.  A dry run asks no node.
Looks ==
  /\ pass.pc = "idle" /\ loadSetup.places /\ (\E p \in Range(Batch) : ~Kept(p)) /\ Placer
  /\ \E gone \in SUBSET Node :
       LET rows == [n \in Node |-> IF n \in gone THEN <<>> ELSE InWindow(file[n])] IN
       /\ IF gone = {} THEN UNCHANGED faults ELSE Fault
       /\ pass' = [NoPass EXCEPT !.pc = IF loadSetup.live THEN "asking" ELSE "asked", !.rows = rows,
                              !.ask = IF loadSetup.live THEN Sparse(rows) ELSE {}, !.at = clock, !.real = real, !.word = word]
\* The thin nodes are asked at once, and an answer is all there is of a node; one that does not answer is not scored.
Asks ==
  /\ pass.pc = "asking" /\ Placer
  /\ \E mute \in SUBSET pass.ask :
       /\ IF mute = {} THEN UNCHANGED faults ELSE Fault
       /\ pass' = [pass EXCEPT !.pc = "asked", !.ask = {}, !.live = pass.ask \ mute,
            !.rows = [n \in Node |-> IF n \in mute THEN <<>> ELSE IF n \in pass.ask THEN <<NewRow(n, pass.at)>> ELSE @[n]]]

\* A placement that still names a node stays; then load decides, each project of the pass counting for the next.
Extra(put, n) == Cardinality({q \in DOMAIN put : put[q].to = n /\ put[q].why # "kept"})
Decision(put, p) ==
  IF Kept(p) THEN Keeping[p]
  ELSE IF Candidates(pass.rows) = {} THEN [to |-> Nil, why |-> "no-data"]
  ELSE [to |-> Best(pass.rows, [n \in Node |-> Extra(put, n)]), why |-> IF loadSetup.held[p] = Nil THEN "placed" ELSE "re-placed"]
Places == /\ pass.pc = "asked" /\ Placer /\ UNCHANGED faults
          /\ pass' = [pass EXCEPT !.pc = "done", !.put = FoldLeft(LAMBDA put, p : put @@ (p :> Decision(put, p)), <<>>, Batch)]

LoadStart(s) ==
  /\ loadSetup = s /\ clock = History /\ real = 0 /\ shifts = 0 /\ steps = 0 /\ faults = 0 /\ pass = NoPass
  /\ file = [n \in Node |-> <<>>] /\ kept = [n \in Node |-> Nil] /\ word = [n \in Node |-> 0] /\ truth = [n \in Node |-> s.first]
LoadInit == \E s \in LoadSetups : LoadStart(s)

\* The behaviours end with a placement.
PassOver == pass.pc = "done" /\ UNCHANGED loadvars
LoadNext ==
  \/ PassOver
  \/ /\ pass.pc # "done"
     /\ \/ Ages \/ ClockSteps \/ MapUnread \/ KeepsAll \/ Looks \/ Asks \/ Places
        \/ \E n \in Node : Changes(n) \/ Samples(n) \/ DiesAppending(n)

LoadSpec == LoadInit /\ [][LoadNext]_loadvars

-----------------------------------------------------------------------------

(* "The file never holds more than the window plus that slack", a torn     *)
(* row or a clock that ran ahead notwithstanding: a fault may leave a row  *)
(* more, and a clock that was stepped back another window's rows, which    *)
(* are not there for as long as it had run ahead.                          *)
WindowAndSlack == (History + Slack) \div Interval + 1
FilesStaySmall == \A n \in Node : Len(file[n]) <= WindowAndSlack * (1 + steps \div 2) + 1 + faults

(* With a clock that is not stepped, a project is placed on what its node  *)
(* said last, and lately: no more than the window ago, and, but for a dry  *)
(* run, by enough samples or asked just now; and it meets no login that    *)
(* another node would have spared it, as far as the nodes have said.       *)
PlacedOnTheLastWord == steps = 0 => \A p \in DOMAIN pass.put :
  LET d == pass.put[p]  rows == pass.rows[d.to] IN d.why \in {"placed", "re-placed"} =>
    /\ d.to \in pass.live \/ Latest(rows).real = pass.word[d.to]
    /\ loadSetup.live => d.to \in pass.live \/ Len(rows) >= Least
    /\ \A i \in DOMAIN rows : rows[i].real >= pass.real - Window
    /\ NoToken(rows) => \A n \in Node : pass.rows[n] # <<>> => NoToken(pass.rows[n])

(* Both: what placements go by stays small, and is the nodes' last word.   *)
PlacementsAreCurrent == FilesStaySmall /\ PlacedOnTheLastWord
=============================================================================
