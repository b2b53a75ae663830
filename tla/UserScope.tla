----------------------------- MODULE UserScope -----------------------------
(***************************************************************************)
(* What a provision ships of this PC's Claude Code user scope              *)
(* (nodes.user_scope, then remote_mux.provision): four JSON files read one *)
(* after the other while claude and the user write them, each entry kept,  *)
(* left out with a note, or its whole step marked unread; then the node's  *)
(* program probe and the entries that cannot be encoded.  The skills walk  *)
(* is SkillsWalk.                                                          *)
(*                                                                         *)
(* An entry is a record: `at` which list it stands in, `name` (a server's, *)
(* a marketplace's), `kind` what the rules tell apart, `url`, `cred` that  *)
(* it holds a Claude credential, `odd` that its text has no UTF-8 form.    *)
(***************************************************************************)
EXTENDS Naturals, FiniteSets

CONSTANTS MaxEdits, ScopeSetups

VARIABLES files,    \* the PC's files: [reads: "yes", "no", "absent", has: entries]
          later,    \* what an edit may leave in each
          edits,
          next,     \* what provision does next
          got,      \* the files as they were read
          scope,    \* the items, by the node_apply step they feed
          unread,   \* the steps a file of which did not read
          noted     \* entries left out with a note

scopevars == <<files, later, edits, next, got, scope, unread, noted>>

File == {"settings", "claude", "creds", "markets"}
Feeds == [settings |-> {"settings", "plugins"}, claude |-> {"mcp", "mcp_oauth"}, creds |-> {"mcp_oauth"}, markets |-> {"plugins"}]
StepOf == [setting |-> "settings", extra |-> "settings", plugin |-> "settings", server |-> "mcp", oauth |-> "mcp_oauth", market |-> "plugins"]
Absent == [reads |-> "absent", has |-> {}]
Empty == [settings |-> {}, mcp |-> {}, mcp_oauth |-> {}, plugins |-> {}, marketplaces |-> {}]
Of(f, lists) == {t \in got'[f].has : t.at \in lists}

ScopeTypeOK ==
  /\ \A f \in File : files[f].reads \in {"yes", "no", "absent"}
  /\ unread \subseteq DOMAIN Empty /\ edits \in 0..MaxEdits
  /\ next \in {"settings", "claude", "creds", "markets", "probe", "encode", "build", "sent", "failed"}

\* Claude or the user rewrites a file; or it is locked, torn, not JSON for a while.
Edits(f) ==
  /\ edits < MaxEdits /\ next \notin {"sent", "failed"} /\ edits' = edits + 1
  /\ \E c \in {later[f], [files[f] EXCEPT !.reads = "no"]} : c # files[f] /\ files' = [files EXCEPT ![f] = c]
  /\ UNCHANGED <<later, next, got, scope, unread, noted>>

-----------------------------------------------------------------------------
(* The reads.                                                              *)

\* An absent file is empty; one that does not read marks every step it feeds.
Reads_AsEmpty(f, after) ==
  /\ next = f /\ next' = after /\ UNCHANGED <<files, later, edits>>
  /\ got' = [got EXCEPT ![f] = IF files[f].reads = "yes" THEN files[f] ELSE [files[f] EXCEPT !.has = {}]]
  /\ unread' = IF files[f].reads = "no" /\ f = "settings" THEN unread \cup Feeds[f] ELSE unread
Reads(f, after) ==
  /\ next = f /\ next' = after /\ UNCHANGED <<files, later, edits>>
  /\ got' = [got EXCEPT ![f] = IF files[f].reads = "yes" THEN files[f] ELSE [files[f] EXCEPT !.has = {}]]
  /\ unread' = IF files[f].reads = "no" THEN unread \cup Feeds[f] ELSE unread

\* _shippable_settings; enabledPlugins is one setting, and goes whole with a credential in one id.
PlugsShip(ids) == \A t \in ids : ~t.cred
SettingShips(t, ids) == /\ t.kind \notin {"never", "loopback", "hook of this PC"} /\ ~t.cred
                        /\ t.at = "plugin" => PlugsShip(ids)
ReadsSettings ==
  LET all == Of("settings", {"setting", "plugin", "extra"})  ids == Of("settings", {"plugin"})
      keep == {t \in all : SettingShips(t, ids)}  plugs == {t \in ids : ~t.cred} IN
  /\ Reads("settings", "claude")
  /\ scope' = [scope EXCEPT !.settings = keep, !.plugins = plugs]
  /\ noted' = noted \cup {t \in all \ keep : t.kind # "hook of this PC"}

\* mcp_skip_reason: the transport first, then a credential anywhere in it
Transport(t) == t.kind \in {"remote", "program"}
McpShips(t) == Transport(t) /\ ~t.cred
ReadsServers ==
  LET all == Of("claude", {"server"})  keep == {t \in all : McpShips(t)} IN
  /\ Reads("claude", "creds")
  /\ scope' = [scope EXCEPT !.mcp = keep] /\ noted' = noted \cup (all \ keep)

\* Entries of servers that ship, issued for the url that ships.
Joined(e, servers) == ~e.cred /\ \E s \in servers : s.name = e.name /\ (e.url = 0 \/ e.url = s.url)
ReadsCreds ==
  LET all == Of("creds", {"oauth"})  keep == {e \in all : Joined(e, scope.mcp)} IN
  /\ Reads("creds", "markets")
  /\ IF "mcp_oauth" \in unread' THEN UNCHANGED <<scope, noted>>
     ELSE scope' = [scope EXCEPT !.mcp_oauth = keep] /\ noted' = noted \cup (all \ keep)

\* Each market of an enabled plugin: claude's own list first, then the settings' extras.
SourceOf(name) ==
  LET known == {t \in Of("markets", {"market"}) : t.name = name /\ t.kind # "local"}
      extra == {t \in Of("settings", {"extra"}) : t.name = name /\ t.kind # "local"} IN
    IF known # {} THEN known ELSE extra
Refused(t) == t.cred \/ t.kind = "with a password"
ReadsMarkets ==
  LET all == UNION {SourceOf(p.name) : p \in scope.plugins}  keep == {t \in all : ~Refused(t)} IN
  /\ Reads("markets", "probe")
  /\ IF "plugins" \in unread' THEN UNCHANGED <<scope, noted>>
     ELSE scope' = [scope EXCEPT !.marketplaces = keep] /\ noted' = noted \cup (all \ keep)

-----------------------------------------------------------------------------
(* The node's programs, and what cannot be encoded.                        *)

Programs == {t \in scope.mcp : t.kind = "program"}

\* without_missing_programs: a server dropped takes its OAuth entries with it.
Without_Servers(dropped) == [scope EXCEPT !.mcp = @ \ dropped]
Without(dropped) == [scope EXCEPT !.mcp = @ \ dropped, !.mcp_oauth = {e \in @ : \A s \in dropped : s.name # e.name}]
Probes ==
  /\ next = "probe" /\ UNCHANGED <<files, later, edits, got, unread>>
  /\ \/ \E found \in SUBSET Programs :      \* a probe that fails finds none
          /\ scope' = Without(Programs \ found) /\ next' = "encode"
          /\ noted' = noted \cup (Programs \ found) \cup (scope.mcp_oauth \ scope'.mcp_oauth)
     \/ Programs # {} /\ next' = "failed" /\ UNCHANGED <<scope, noted>>      \* the node is not reached

\* without_unsendable_items: per step, never per entry
Odd(step) == \E t \in scope[step] \cup (IF step = "plugins" THEN scope.marketplaces ELSE {}) : t.odd
Unsent == {step \in {"settings", "mcp", "mcp_oauth", "plugins"} : Odd(step)}
Encodes ==
  /\ next = "encode" /\ next' = "build" /\ UNCHANGED <<files, later, edits, got, noted>>
  /\ unread' = unread \cup Unsent
  /\ scope' = [item \in DOMAIN scope |-> IF item \in Unsent \/ (item = "marketplaces" /\ "plugins" \in Unsent) THEN {} ELSE scope[item]]

\* build_payload: one archive; settings that are unread are no member of it.
Builds == next = "build" /\ next' = "sent" /\ UNCHANGED <<files, later, edits, got, scope, unread, noted>>

-----------------------------------------------------------------------------
ScopeStart(s) == /\ files = s.files /\ later = s.later /\ edits = 0 /\ next = s.next
                 /\ got = [f \in File |-> Absent] /\ scope = Empty /\ unread = {} /\ noted = {}
ScopeInit == \E s \in ScopeSetups : ScopeStart(s)

ScopeNext == \/ \E f \in File : Edits(f)
             \/ ReadsSettings \/ ReadsServers \/ ReadsCreds \/ ReadsMarkets \/ Probes \/ Encodes \/ Builds
             \/ next \in {"sent", "failed"} /\ UNCHANGED scopevars

ScopeSpec == ScopeInit /\ [][ScopeNext]_scopevars

-----------------------------------------------------------------------------
Shipped == UNION {scope[item] : item \in DOMAIN scope}

(* Whatever was edited between the reads, nothing that must stay ships     *)
(* (nodes._shippable_settings, mcp_skip_reason, _source_refusal), and an   *)
(* OAuth entry goes only with the server, and the url, it was issued for   *)
(* (nodes._mcp_oauth, without_missing_programs).                           *)
OnlyFitShips ==
  next = "sent" =>
    /\ \A t \in Shipped : ~t.cred /\ t.kind \notin {"never", "loopback", "hook of this PC", "path on this PC", "with a password"}
    /\ "mcp" \notin unread => \A e \in scope.mcp_oauth : \E s \in scope.mcp : s.name = e.name /\ (e.url = 0 \/ e.url = s.url)

(* Unknown is never empty: the node takes back what a payload no longer    *)
(* holds, so an entry missing from one was absent when its file was read,  *)
(* or left out with a note, or its whole step is marked unread and says    *)
(* nothing (nodes._Unread, user_scope, without_unsendable_items).          *)
UnknownIsNotEmpty ==
  next = "sent" =>
    /\ \A s \in unread \ {"plugins"} : scope[s] = {}
    /\ \A f \in File : got[f].reads = "no" => Feeds[f] \subseteq unread
    /\ \A f \in File : \A t \in got[f].has :
         t \in Shipped \cup noted \/ StepOf[t.at] \in unread \/ t.kind = "hook of this PC" \/ t.at = "market"

(* Both: what ships is fit to, and what is missing is really gone.         *)
ScopeIsHonest == OnlyFitShips /\ UnknownIsNotEmpty
=============================================================================
