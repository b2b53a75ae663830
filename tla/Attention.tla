----------------------------- MODULE Attention -----------------------------
(***************************************************************************)
(* The attention daemon's tick: it polls the state records, this machine's *)
(* and each node's mirror, and turns what changed into title badges and    *)
(* pages (attention.AttentionEngine, BadgeRenderer, FlashRenderer,         *)
(* ToastRenderer, NtfyRenderer, run_attention_loop).                       *)
(*                                                                         *)
(* A tick is three steps, as the world moves between them: the poll, the   *)
(* badges, the pages. Windows are known by handles, which Windows reuses,  *)
(* and a program may rewrite its window's title at any time.               *)
(***************************************************************************)
EXTENDS Naturals, FiniteSets

CONSTANTS Local, Remote,   \* sessions here, and those whose records a node's mirror holds
          Handle,
          PushStates,      \* push_states(notifyOnDone)
          Absent,
          MaxWrites,       \* bounds the records written
          AttentionSetups  \* which windows and sessions a behaviour has

VARIABLES store,    \* the record of each session
          listing,  \* whether the node map lists: "fails", or whether it names the node
          mirror,   \* whether the node's mirror reads
          writes,
          up,       \* the daemon: "off", or the next step of its tick
          shown,    \* this tick's view of each session: its record
          news,     \* the sessions in transition
          lastState,     \* _last_state
          fired,    \* _last_fired: the stamp of each push
          heldRecords,     \* _last_node_records
          paged,    \* the last record each session was paged for
          win,      \* the windows
          known,    \* BadgeRenderer._known and _badged: the handles
          badged,
          orphaned, \* a killed daemon may have left badges
          scene     \* the behaviour's windows, sessions, and whether the node's files fail

recordsWorld == <<store, listing, mirror, writes>>
attentionEngine == <<shown, news, lastState, fired, heldRecords, paged>>
badgeRenderer == <<known, badged>>
actvars == <<recordsWorld, up, attentionEngine, win, badgeRenderer, orphaned>>
attnvars == <<actvars, scene>>

Session == Local \cup Remote
States == {"needs-input", "done", "working", "idle"}
Glyphs == {"needs-input", "done"}  \* titles.STATE_BADGES

\* Every session here goes by one display name: the windows' boundary is the name.
Title == {"ours", "other"}
ClosedWindow == [owner |-> "freed", title |-> "other", badge |-> "none"]

\* No push is for a session that rests or is gone (PUSH_STATES); each behaviour is about sessions and handles there are.
ASSUME AttentionAssumption ==
  /\ PushStates \subseteq Glyphs
  /\ \A s \in AttentionSetups : s.sessions \subseteq Session /\ s.handles \subseteq Handle

AttentionTypeOK ==
  /\ scene \in AttentionSetups
  /\ store \in [Session -> [state : States, id : 1..MaxWrites, old : BOOLEAN] \cup {Absent}]
  /\ listing \in {"fails", "named", "dropped"} /\ mirror \in BOOLEAN /\ writes \in 0..MaxWrites
  /\ up \in {"off", "poll", "badge", "page"}
  /\ news \subseteq Session /\ lastState \in [Session -> States \cup {"none"}]
  /\ fired \in [Session \X PushStates -> {"no", "recent", "over"}]
  /\ paged \in [Session -> 0..MaxWrites]
  /\ win \in [Handle -> [owner : {"closed", "freed", "ours", "stranger"}, title : Title, badge : Glyphs \cup {"none"}]]
  /\ known \subseteq Handle /\ badged \subseteq Handle /\ orphaned \in BOOLEAN

NoViews == [s \in Session |-> Absent]
NeverFired == [k \in Session \X PushStates |-> "no"]

\* A daemon that starts knows nothing.
Fresh ==
  /\ shown = NoViews /\ news = {} /\ lastState = [s \in Session |-> "none"] /\ fired = NeverFired
  /\ heldRecords = NoViews /\ paged = [s \in Session |-> 0] /\ known = {} /\ badged = {}

AttentionStart ==
  /\ store = NoViews /\ listing = "named" /\ mirror = TRUE /\ writes = 0
  /\ up = "off" /\ Fresh /\ win = [h \in Handle |-> ClosedWindow] /\ orphaned = FALSE

-----------------------------------------------------------------------------
(* The world.                                                              *)

HookWrites(s) ==
  /\ writes < MaxWrites /\ writes' = writes + 1
  /\ s \in Local \/ listing = "named"
  /\ \E state \in States \ {"idle"} : store' = [store EXCEPT ![s] = [state |-> state, id |-> writes + 1, old |-> FALSE]]
  /\ UNCHANGED <<listing, mirror, up, attentionEngine, win, badgeRenderer, orphaned>>

RecordGoes(s) == /\ store[s] # Absent /\ store' = [store EXCEPT ![s] = Absent]
              /\ UNCHANGED <<listing, mirror, writes, up, attentionEngine, win, badgeRenderer, orphaned>>

\* A record passes its staleness window, a push its debounce.
Ages(s) ==
  /\ \/ /\ store[s] # Absent /\ ~store[s].old /\ store' = [store EXCEPT ![s].old = TRUE]
        /\ UNCHANGED fired
     \/ \E k \in PushStates : /\ fired[<<s, k>>] = "recent" /\ fired' = [fired EXCEPT ![<<s, k>>] = "over"]
                              /\ UNCHANGED store
  /\ UNCHANGED <<listing, mirror, writes, up, shown, news, lastState, heldRecords, paged, win, badgeRenderer, orphaned>>

\* The node's mirror, and the node map, stop reading and read again; a recall drops the node.
Flaps ==
  /\ \/ mirror' = ~mirror /\ UNCHANGED <<listing, store>>
     \/ listing # "dropped" /\ listing' = (IF listing = "named" THEN "fails" ELSE "named") /\ UNCHANGED <<mirror, store>>
     \/ /\ listing' = (IF listing = "dropped" THEN "named" ELSE "dropped")
        /\ store' = [s \in Session |-> IF s \in Remote THEN Absent ELSE store[s]] /\ UNCHANGED mirror
  /\ UNCHANGED <<writes, up, attentionEngine, win, badgeRenderer, orphaned>>

\* Windows: ours and strangers' open and close, ours have their title rewritten.
Becomes(h, w) == /\ win' = [win EXCEPT ![h] = w] /\ UNCHANGED <<recordsWorld, up, attentionEngine, badgeRenderer, orphaned>>
WindowOpens(h) == /\ win[h].owner = "freed"
            /\ \/ Becomes(h, [owner |-> "ours", title |-> "ours", badge |-> "none"])
               \/ Becomes(h, [owner |-> "stranger", title |-> "other", badge |-> "none"])
WindowCloses(h) == win[h].owner \in {"ours", "stranger"} /\ Becomes(h, [ClosedWindow EXCEPT !.owner = IF up = "off" THEN "freed" ELSE "closed"])
Rewrites(h) == win[h].owner = "ours" /\ Becomes(h, [win[h] EXCEPT !.title = "other", !.badge = "none"])

-----------------------------------------------------------------------------
(* The daemon.                                                             *)

DaemonStarts == /\ up = "off" /\ up' = "poll"
          /\ UNCHANGED <<recordsWorld, attentionEngine, win, badgeRenderer, orphaned>>

\* _view: the effective state.
View(r) == IF r = Absent THEN "none" ELSE IF r.old /\ r.state # "done" THEN "idle" ELSE r.state

\* _read_node_stores: what the node's mirror says, or the last that it said.
Read_Forgets == CASE listing = "named" /\ mirror -> [s \in Session |-> IF s \in Remote THEN store[s] ELSE Absent]
        [] OTHER -> NoViews
Read == CASE listing = "fails" -> heldRecords
        [] listing = "named" /\ ~mirror -> heldRecords
        [] listing = "named" /\ mirror -> [s \in Session |-> IF s \in Remote THEN store[s] ELSE Absent]
        [] listing = "dropped" -> NoViews

\* poll and transitions
PollTick ==
  /\ up = "poll" /\ up' = "badge"
  /\ heldRecords' = Read
  /\ shown' = [s \in Session |-> IF s \in Local THEN store[s] ELSE heldRecords'[s]]
  /\ LET view == [s \in Session |-> View(shown'[s])] IN
       /\ news' = {s \in Session : view[s] \notin {"none", lastState[s]}}
       /\ lastState' = view
       /\ fired' = [k \in Session \X PushStates |-> IF view[k[1]] = "none" THEN "no" ELSE fired[k]]
  /\ UNCHANGED <<recordsWorld, paged, win, badgeRenderer, orphaned>>

\* The most urgent state of the sessions that go by the name.
Desired == LET live == {lastState[s] : s \in Session} IN
  CASE "needs-input" \in live -> "needs-input"
    [] "needs-input" \notin live /\ "done" \in live -> "done"
    [] OTHER -> "none"
SomeLive == \E s \in Session : lastState[s] # "none"

OpenWindow(h) == win[h].owner \in {"ours", "stranger"}
\* _forget_closed
Remembered_All(handles) == handles
Remembered(handles) == {h \in handles : OpenWindow(h)}

\* The handles render takes for ours: by their title, or by memory while a session lives.
OurWindows == {h \in Handle : OpenWindow(h) /\ (win[h].title = "ours" \/ (h \in Remembered(known) /\ SomeLive))}

\* Those that get a title: all while a session lives, else the ones to restore.
Retitled_Frozen == IF SomeLive THEN OurWindows ELSE {}
Retitled == IF SomeLive THEN OurWindows ELSE OurWindows \cap Remembered(badged)

\* BadgeRenderer.render
Badge ==
  /\ up = "badge" /\ up' = "page"
  /\ known' = Remembered(known) \cup {h \in Handle : OpenWindow(h) /\ win[h].title = "ours"}
  /\ win' = [h \in Handle |-> IF h \in Retitled THEN [win[h] EXCEPT !.title = "ours", !.badge = Desired]
                              ELSE IF win[h].owner = "closed" THEN ClosedWindow ELSE win[h]]
  /\ badged' = IF Desired # "none" THEN Remembered(badged) \cup Retitled ELSE Remembered(badged) \ Retitled
  /\ UNCHANGED <<recordsWorld, attentionEngine, orphaned>>

\* should_fire: stamped before the push is sent, whether or not it gets out.
ShouldFire == {s \in news : lastState[s] \in PushStates /\ fired[<<s, lastState[s]>>] # "recent"}

\* FlashRenderer, ToastRenderer and NtfyRenderer; then the loop sleeps.
Page ==
  /\ up = "page" /\ up' = "poll"
  /\ fired' = [k \in Session \X PushStates |-> IF k[1] \in ShouldFire /\ k[2] = lastState[k[1]] THEN "recent" ELSE fired[k]]
  /\ paged' = [s \in Session |-> IF s \in ShouldFire THEN shown[s].id ELSE paged[s]]
  /\ news' = {} /\ shown' = NoViews
  /\ UNCHANGED <<recordsWorld, lastState, heldRecords, win, badgeRenderer, orphaned>>

\* clear_badges on the way out, or a kill that runs none of it.
Stops ==
  /\ up # "off" /\ up' = "off"
  /\ \/ /\ win' = [h \in Handle |-> IF h \in badged /\ OpenWindow(h) THEN [win[h] EXCEPT !.title = "ours", !.badge = "none"]
                                    ELSE IF win[h].owner = "closed" THEN ClosedWindow ELSE win[h]]
        /\ UNCHANGED orphaned
     \/ /\ win' = [h \in Handle |-> IF win[h].owner = "closed" THEN ClosedWindow ELSE win[h]]
        /\ orphaned' = TRUE
  /\ shown' = NoViews /\ news' = {} /\ lastState' = [s \in Session |-> "none"] /\ fired' = NeverFired
  /\ heldRecords' = NoViews /\ paged' = [s \in Session |-> 0] /\ known' = {} /\ badged' = {}
  /\ UNCHANGED recordsWorld

AttentionInit == scene \in AttentionSetups /\ AttentionStart

AttentionNext ==
  /\ UNCHANGED scene
  /\ \/ \E s \in scene.sessions : HookWrites(s) \/ RecordGoes(s) \/ Ages(s)
     \/ scene.flaps /\ Flaps
     \/ \E h \in scene.handles : WindowOpens(h) \/ WindowCloses(h) \/ Rewrites(h)
     \/ DaemonStarts \/ PollTick \/ Badge \/ Page \/ Stops

AttentionSpec == AttentionInit /\ [][AttentionNext]_attnvars

-----------------------------------------------------------------------------
(* One record pages once: a mirror or a node map that fails and reads      *)
(* again, for however long, makes nothing look new                         *)
(* (AttentionEngine._read_node_stores, should_fire).                       *)
PagesOnlyNews == [][up = "page" /\ up' = "poll" => \A s \in ShouldFire : shown[s].id # paged[s]]_attnvars

(* After the badges are drawn every window of ours shows the most urgent   *)
(* state of its sessions, or nothing when they are gone; after a clean     *)
(* stop none shows anything (BadgeRenderer.render, clear_badges). What a   *)
(* killed daemon left behind stays.                                        *)
BadgesTellTheTruth ==
  [][/\ up = "badge" /\ up' = "page" => \A h \in Handle :
          win[h].owner = "ours" /\ win[h].title = "ours" /\ ~orphaned =>
            /\ win'[h].badge = "needs-input" <=> \E s \in Session : lastState[s] = "needs-input"
            /\ win'[h].badge = "done" <=> (\E s \in Session : lastState[s] = "done") /\ win'[h].badge # "needs-input"
     /\ up # "off" /\ up' = "off" /\ ~orphaned' => \A h \in Handle : win'[h].badge = "none"]_attnvars

(* A window of somebody else's is never retitled, although Windows gives   *)
(* it the handle of one of ours that closed: a closed handle is forgotten  *)
(* at the next tick (BadgeRenderer._forget_closed). A handle reused within *)
(* one tick is the limit the code accepts.                                 *)
StrangersKeepTheirTitles == \A h \in Handle : win[h].owner = "stranger" => win[h].title = "other"

(* All three: our windows tell the truth, only ours tell anything, and     *)
(* nobody is paged for what is no news.                                    *)
AttentionIsHonest == []StrangersKeepTheirTitles /\ BadgesTellTheTruth /\ PagesOnlyNews
=============================================================================
