----------------------------- MODULE NodeApply -----------------------------
(***************************************************************************)
(* `node_apply.run`: what a PC's payload does to a node's Claude Code user *)
(* scope, step by step, with the store of what earlier runs finished and   *)
(* shipped (~/.magent/provision.json).                                     *)
(*                                                                         *)
(* Meanwhile the node's own claude writes the same files: it refreshes     *)
(* tokens, its user adds keys.  The PC changes what it ships, fails to     *)
(* read some of it, and drops things.  A run may die anywhere; its store   *)
(* is saved at its end.                                                    *)
(***************************************************************************)
EXTENDS Naturals, FiniteSets

CONSTANTS Key,       \* env keys, permission rules and directories of settings.json
          Entry,     \* MCP OAuth entries
          MergeTries,  \* how often a merge starts over
          MaxChanges,
          ApplySetups  \* which steps run in a behaviour, and what may go wrong in it

VARIABLES payload,       \* what the PC has: a version of each step's content, keys, entries; what it cannot read
          laid,     \* the version of each plain step's content on the node
          nodeTools,    \* the programs the node has: "gh", "claude"
          settingsKeys,     \* the node's settings.json: its keys
          userKeys,      \* those its user added, that no PC has shipped since
          creds,    \* the node's OAuth entries
          provisioned,    \* provision.json
          applying,      \* a run: the payload, what it holds of the store, where it is
          strays,   \* keys and steps whose run died before it saved
          delivered,\* the entries that a run which saved has shipped or found
          changesMade,
          about     \* the behaviour's setup

nodeScope == <<laid, nodeTools, settingsKeys, userKeys, creds>>
applyHistory == <<strays, delivered>>
applyvars == <<payload, nodeScope, provisioned, applying, applyHistory, changesMade, about>>

PlainStep == {"gh", "claude_auth", "state_hook", "plugins", "skills"}
Version == 0..MaxChanges + 1
NoEntry == [by |-> "nobody", v |-> 0]
Forgotten == [dig |-> [s \in PlainStep |-> 0], merged |-> {}, shipped |-> {}, sha |-> [e \in Entry |-> 0]]

\* STEPS, in their order; git keeps no digest and reads git's own config every time
Rank == [off |-> 0, gh |-> 1, claude_auth |-> 2, state_hook |-> 3, settings |-> 4, mcp_oauth |-> 5, plugins |-> 6,
         skills |-> 7, save |-> 8]
After(at) == CHOOSE s \in about.steps \cup {"save"} :
               Rank[s] > Rank[at] /\ \A t \in about.steps : Rank[t] > Rank[at] => Rank[t] >= Rank[s]

\* Each behaviour is about steps of the run.
ASSUME ApplyAssumption == \A s \in ApplySetups : s.steps \subseteq PlainStep \cup {"settings", "mcp_oauth"}

ApplyTypeOK ==
  /\ settingsKeys \subseteq Key /\ userKeys \subseteq Key /\ changesMade \in 0..MaxChanges
  /\ laid \in [PlainStep -> Version] /\ nodeTools \subseteq {"gh", "claude"}
  /\ creds \in [Entry -> [by : {"nobody", "pc", "node"}, v : Version]]
  /\ provisioned.dig \in [PlainStep -> Version] /\ provisioned.merged \subseteq SUBSET Key /\ provisioned.shipped \subseteq Key /\ provisioned.sha \in [Entry -> Version]
  /\ applying.at \in DOMAIN Rank /\ applying.doing \in {"read", "check", "replace"} /\ applying.tries \in 0..MergeTries - 1

MayChange == about.changes > changesMade /\ changesMade' = changesMade + 1

-----------------------------------------------------------------------------
(* The PC and the node, between and during runs.                           *)

\* An entry the PC stops shipping keeps its version, for when it comes back.
PcChanges ==
  /\ MayChange
  /\ \/ \E s \in PlainStep \cap about.steps : payload' = [payload EXCEPT !.ver[s] = IF @ = 1 THEN 2 ELSE 1]
     \/ "settings" \in about.steps /\ \E ks \in SUBSET Key \ {payload.keys} : payload' = [payload EXCEPT !.keys = ks]
     \/ \E e \in about.entries : \/ payload' = [payload EXCEPT !.tok[e] = @ + 1]
                                 \/ e \in payload.ships /\ payload' = [payload EXCEPT !.ships = @ \ {e}]
                                 \/ e \notin payload.ships /\ payload' = [payload EXCEPT !.ships = @ \cup {e}]
     \/ about.unread /\ payload' = [payload EXCEPT !.reads = ~@]
  /\ UNCHANGED <<nodeScope, provisioned, applying, applyHistory>>

NodeUser ==
  /\ \/ \E k \in Key \ settingsKeys : settingsKeys' = settingsKeys \cup {k} /\ userKeys' = userKeys \cup {k}
     \/ \E k \in settingsKeys : settingsKeys' = settingsKeys \ {k} /\ userKeys' = userKeys \ {k}
  /\ "settings" \in about.steps /\ MayChange /\ UNCHANGED <<payload, laid, nodeTools, creds, provisioned, applying, applyHistory>>

\* The node's claude refreshes a token it holds, or loses it.
Refreshes(e) ==
  /\ creds[e] # NoEntry /\ creds[e].by # "node"
  /\ creds' = [creds EXCEPT ![e].by = "node"]
  /\ UNCHANGED <<payload, laid, nodeTools, settingsKeys, userKeys, provisioned, applying, applyHistory, changesMade>>
Loses(e) ==
  /\ creds[e] # NoEntry /\ MayChange /\ creds' = [creds EXCEPT ![e] = NoEntry]
  /\ UNCHANGED <<payload, laid, nodeTools, settingsKeys, userKeys, provisioned, applying, applyHistory>>
ToolComes(p) ==
  /\ about.steps \cap {"gh", "plugins"} # {}
  /\ nodeTools' = (IF p \in nodeTools THEN nodeTools \ {p} ELSE nodeTools \cup {p}) /\ MayChange
  /\ UNCHANGED <<payload, laid, settingsKeys, userKeys, creds, provisioned, applying, applyHistory>>
HookGoes ==
  /\ "state_hook" \in about.steps /\ laid["state_hook"] # 0 /\ MayChange
  /\ laid' = [laid EXCEPT !["state_hook"] = 0]
  /\ UNCHANGED <<payload, nodeTools, settingsKeys, userKeys, creds, provisioned, applying, applyHistory>>

-----------------------------------------------------------------------------
(* A run.                                                                  *)

\* _load of the store: one that is damaged reads as nothing.
LoadStore == {provisioned} \cup (IF about.damage THEN {Forgotten} ELSE {})
BeginRun ==
  /\ applying.at = "off"
  /\ \E mem \in LoadStore, force \in BOOLEAN : applying' = [applying EXCEPT !.at = After("off"), !.pay = payload, !.mem = mem, !.force = force, !.doing = "read", !.tries = 0]
  /\ strays' = (IF applying'.mem # provisioned THEN [strays EXCEPT !.keys = @ \cup (settingsKeys \ userKeys)] ELSE strays)
  /\ delivered' = (IF applying'.mem # provisioned THEN [e \in Entry |-> {}] ELSE delivered)
  /\ UNCHANGED <<payload, nodeScope, provisioned, changesMade>>

Onward(mem) == applying' = [applying EXCEPT !.at = After(applying.at), !.mem = mem, !.doing = "read", !.tries = 0, !.saw = <<>>]

\* _remember: only a clean run of the step is remembered, any other forgotten.
Remember_Always(s, clean) == [applying.mem EXCEPT !.dig[s] = applying.pay.ver[s]]
Remember(s, clean) == [applying.mem EXCEPT !.dig[s] = IF clean THEN applying.pay.ver[s] ELSE 0]
Unchanged(s) == ~applying.force /\ applying.mem.dig[s] = applying.pay.ver[s]
Wants(s) == applying.at = s /\ s \in PlainStep

\* What a step that would be skipped finds on the node: plugins does not look.
InPlace(s) == s = "plugins" \/ IF s = "claude_auth" THEN laid[s] = applying.pay.ver[s] ELSE laid[s] # 0

\* What lays a step's content may be refused or stop half way.
Lays(s) ==
  \/ laid' = [laid EXCEPT ![s] = applying.pay.ver[s]] /\ Onward(Remember(s, TRUE))
  \/ laid' \in {laid, [laid EXCEPT ![s] = 0]} /\ Onward(Remember(s, FALSE))
LaysFile(s) == IF Unchanged(s) /\ InPlace(s) THEN Onward(applying.mem) /\ UNCHANGED laid ELSE Lays(s)

StepGh ==
  /\ Wants("gh")
  /\ IF "gh" \notin nodeTools THEN Onward(Remember("gh", FALSE)) /\ UNCHANGED laid
     ELSE LaysFile("gh") \/ Lays("gh")   \* GitHub may not say who is logged in
StepClaudeAuth == Wants("claude_auth") /\ LaysFile("claude_auth")
StepStateHook == Wants("state_hook") /\ LaysFile("state_hook")
StepPlugins ==
  /\ Wants("plugins")
  /\ \/ Onward(applying.mem) /\ UNCHANGED laid   \* also when claude does not list what it has
     \/ applying.pay.reads /\ ~Unchanged("plugins") /\ "claude" \in nodeTools /\ Lays("plugins")
StepSkills == Wants("skills") /\ LaysFile("skills")
Steps == /\ StepGh \/ StepClaudeAuth \/ StepStateHook \/ StepPlugins \/ StepSkills
         /\ UNCHANGED <<payload, nodeTools, settingsKeys, userKeys, creds, provisioned, applyHistory, changesMade>>

\* _merged: the PC's over the node's, less what this store says was shipped before.
Merged(have) == (have \ applying.mem.shipped) \cup applying.pay.keys
\* _record
Record_Forgets == IF applying.pay.keys = {} THEN applying.mem.shipped ELSE applying.mem.shipped \cap applying.pay.keys
Record == applying.pay.keys

\* _step_settings reads, then writes what it made of it: no look in between.
Wired == laid["state_hook"] # 0
StepSettings ==
  /\ applying.at = "settings"
  /\ \/ /\ applying.doing = "read" /\ (~applying.pay.reads \/ (~applying.force /\ applying.mem.merged = {applying.pay.keys} /\ Wired))
        /\ Onward(applying.mem) /\ UNCHANGED <<settingsKeys, userKeys>>
     \/ /\ applying.doing = "read" /\ applying.pay.reads   \* an empty or torn file is left as it is, a step that raised is forgotten
        /\ \E m \in {applying.mem.merged, {}} : Onward([applying.mem EXCEPT !.merged = m])
        /\ UNCHANGED <<settingsKeys, userKeys>>
     \/ /\ applying.doing = "read" /\ applying.pay.reads
        /\ applying' = [applying EXCEPT !.doing = "replace", !.saw = [keys |-> settingsKeys, own |-> userKeys]] /\ UNCHANGED <<settingsKeys, userKeys>>
     \/ /\ applying.doing = "replace"
        /\ settingsKeys' = Merged(applying.saw.keys)
        /\ userKeys' = applying.saw.own \ (applying.mem.shipped \cup applying.pay.keys)
        /\ Onward([applying.mem EXCEPT !.merged = IF Wired THEN {applying.pay.keys} ELSE {}, !.shipped = Record])
  /\ UNCHANGED <<payload, laid, nodeTools, creds, provisioned, applyHistory, changesMade>>

\* _step_mcp_oauth: an entry is due that the PC changed since, or the node no longer holds.
ShippedEntries == applying.pay.ships
Due_All(have) == {e \in ShippedEntries : have[e] # [by |-> "pc", v |-> applying.pay.tok[e]]}
Due(have) == {e \in Due_All(have) : applying.mem.sha[e] # applying.pay.tok[e] \/ have[e] = NoEntry}
Shas == [applying.mem EXCEPT !.sha = [e \in Entry |-> IF e \in ShippedEntries THEN applying.pay.tok[e] ELSE applying.mem.sha[e]]]

\* _merge_into: look again right before the replace, and start over if the file changed.
LooksAnew ==
  \/ creds = applying.saw /\ applying' = [applying EXCEPT !.doing = "replace"]
  \/ /\ creds # applying.saw
     /\ IF applying.tries + 1 < MergeTries THEN applying' = [applying EXCEPT !.doing = "read", !.tries = @ + 1] ELSE Onward(applying.mem)

StepOauth ==
  /\ applying.at = "mcp_oauth"
  /\ \/ /\ applying.doing = "read" /\ UNCHANGED creds
        /\ \/ Onward(applying.mem)   \* unread there or here, nothing to ship, or the step raised
           \/ applying.pay.reads /\ ShippedEntries # {} /\ Due(creds) = {} /\ Onward(Shas)
           \/ applying.pay.reads /\ Due(creds) # {} /\ applying' = [applying EXCEPT !.doing = "check", !.saw = creds]
     \/ applying.doing = "check" /\ LooksAnew /\ UNCHANGED creds
     \/ /\ applying.doing = "replace"
        /\ creds' = [e \in Entry |-> IF e \in Due(applying.saw) THEN [by |-> "pc", v |-> applying.pay.tok[e]] ELSE applying.saw[e]]
        /\ Onward(Shas)
  /\ UNCHANGED <<payload, laid, nodeTools, settingsKeys, userKeys, provisioned, applyHistory, changesMade>>

Off == [at |-> "off", pay |-> payload, mem |-> Forgotten, force |-> FALSE, doing |-> "read", tries |-> 0, saw |-> <<>>]

\* The store is saved once, at the end, what the run does not know of it carried through.
Save ==
  /\ applying.at = "save" /\ provisioned' = applying.mem /\ applying' = [Off EXCEPT !.pay = payload]
  /\ delivered' = [e \in Entry |-> delivered[e] \cup (IF applying.mem.sha[e] = applying.pay.tok[e] /\ e \in ShippedEntries THEN {applying.pay.tok[e]} ELSE {})]
  /\ UNCHANGED <<payload, nodeScope, strays, changesMade>>

\* The run dies, or its store cannot be written.
RunDies ==
  /\ applying.at # "off" /\ MayChange
  /\ applying' = [Off EXCEPT !.pay = payload]
  /\ strays' = [keys |-> strays.keys \cup ((settingsKeys \ userKeys) \ provisioned.shipped), steps |-> strays.steps \cup {s \in PlainStep : laid[s] # provisioned.dig[s]}]
  /\ UNCHANGED <<payload, nodeScope, provisioned, delivered>>

ApplyStart ==
  /\ payload = [ver |-> [s \in PlainStep |-> 1], keys |-> {}, tok |-> [e \in Entry |-> 1], ships |-> {}, reads |-> TRUE]
  /\ laid = [s \in PlainStep |-> 0] /\ nodeTools = {"gh", "claude"} /\ settingsKeys = {} /\ userKeys = {}
  /\ creds = [e \in Entry |-> NoEntry] /\ provisioned = Forgotten /\ applying = Off
  /\ strays = [keys |-> {}, steps |-> {}] /\ delivered = [e \in Entry |-> {}] /\ changesMade = 0
ApplyInit == about \in ApplySetups /\ ApplyStart

ApplyNext ==
  /\ UNCHANGED about
  /\ \/ PcChanges \/ NodeUser \/ (\E e \in about.entries : Refreshes(e) \/ Loses(e)) \/ (\E p \in {"gh", "claude"} : ToolComes(p)) \/ HookGoes
     \/ BeginRun \/ Steps \/ StepSettings \/ StepOauth \/ Save \/ RunDies

ApplySpec == ApplyInit /\ [][ApplyNext]_applyvars

-----------------------------------------------------------------------------
(* Every key on the node that its user did not add is on record, so the    *)
(* run after the PC stops shipping it takes it back; only a run that died  *)
(* before it saved, or a lost store, leaves strays (_merged, _record, run).*)
ShippedIsOnRecord ==
  settingsKeys \ userKeys \subseteq strays.keys \cup provisioned.shipped \cup (IF applying.at = "off" THEN {} ELSE applying.mem.shipped)

(* A step is skipped as unchanged only when the node does not hold other   *)
(* content, unless a run that laid something else died before it saved  *)
(* (_remember, _unchanged).                                                *)
RememberedIsLaid ==
  applying.at = "off" => \A s \in PlainStep \ strays.steps : provisioned.dig[s] # 0 => laid[s] \in {provisioned.dig[s], 0}

(* A token the node's claude refreshed is not undone by the PC's older     *)
(* copy: not by a forced run, after a failed step, or after the entry left *)
(* the PC and came back; a refresh that lands mid-run survives if it lands *)
(* before the last look (_step_mcp_oauth, _merge_into).                    *)
RefreshesSurvive ==
  [][\A e \in Entry : applying.at = "mcp_oauth" /\ creds[e].by = "node" /\ creds'[e].by = "pc" /\ creds[e] = applying.saw[e] =>
       creds'[e].v \notin delivered[e]]_applyvars

(* All three: what a run laid, it can take back; what it skips is there;   *)
(* and what the node made of it is the node's.                             *)
ConfigurationHolds == []ShippedIsOnRecord /\ []RememberedIsLaid /\ RefreshesSurvive
=============================================================================
