--------------------------- MODULE MCRecovery ---------------------------
(* Three parts that share no state and come to rest under fairness, each on *)
(* a small instance: the serves and the daemon that keep each other alive,   *)
(* the parking of idle agents, and one bounded call to a node. `part` is the *)
(* one a behaviour is about. *)
EXTENDS Supervision, Parking, Sequences

CONSTANTS pane1, pane2, Cap, Pipe, Input, MaxOut, MaxErr

VARIABLES part,
          callee, stdin, opipe, epipe, out, err, call, kind

supervisionVars == <<st, addrs, holder, pidFile, daemon, hb, recent, child,
  window, cooling, listener, down, liberty, crashes>>
parkingVars == <<agent, talk, turn, draft, quiet, record, hook, starts,
  reaper, todo, failed, seen, revive, purge, setup>>
callVars == <<callee, stdin, opipe, epipe, out, err, call, kind>>
allVars == <<part, supervisionVars, parkingVars, callVars>>

EachSignal == {"status", "record", "transcript", "pane"}
ParkingSetup(open, lies, stubborn, users, together) ==
  [open |-> open, lies |-> lies, stubborn |-> stubborn, users |-> users, together |-> together]
ParkingCases ==
  {ParkingSetup(Pane, {}, s, FALSE, FALSE) : s \in {{}, {pane1}}}
  \cup {ParkingSetup({pane1}, EachSignal \ {s}, {}, TRUE, FALSE) : s \in EachSignal}
  \cup {ParkingSetup({pane1}, {}, {}, TRUE, TRUE)}
NoParking == ParkingSetup({}, {}, {}, FALSE, FALSE)

CallSetups == {[bound |-> FALSE, heirs |-> FALSE]}


Call == INSTANCE NodeCall WITH child <- callee

Parts == {"supervision", "parking", "call"}

PartsInit ==
  /\ part \in Parts
  /\ IF part = "supervision" THEN Init ELSE Init /\ liberty = {}
  /\ IF part = "parking" THEN ParkingInit ELSE (setup = NoParking /\ ParkingStart)
  /\ IF part = "call" THEN Call!CallInit ELSE Call!CallRests

PartsNext ==
  /\ UNCHANGED part
  /\ \/ part = "supervision" /\ Next /\ UNCHANGED <<parkingVars, callVars>>
     \/ part = "parking" /\ ParkingNext /\ UNCHANGED <<supervisionVars, callVars>>
     \/ part = "call" /\ Call!CallNext /\ UNCHANGED <<supervisionVars, parkingVars>>

PartsSpec == PartsInit /\ [][PartsNext]_allVars /\ Fairness /\ ParkingFairness /\ Call!CallFairness

(* NodeCall.CallEnds: a call of a child that ends is over. *)
CallEnds == Call!CallEnds
=============================================================================
