---------------------------- MODULE ManagedRepo ----------------------------
(***************************************************************************)
(* The repository an installer run works on: what the detector reads from   *)
(* it, what the planner makes of that, and what each writer leaves behind.  *)
(* Operators only; Installer and ApplyFlow hold the state.                  *)
(*                                                                          *)
(* A file is abstracted to what a run can tell apart: the managed region of *)
(* CLAUDE.md is its content, .claude/settings.json the number of managed    *)
(* hook entries in it, .mcp.json the servers it names, and so on. The       *)
(* repository vendors no plugin directory of its own.                       *)
(***************************************************************************)
EXTENDS Naturals, Sequences, FiniteSets, SequencesExt

CONSTANTS Body,       \* the body the applier falls back to for a region
          Content,    \* what the managed region of CLAUDE.md can hold
          NoContent,  \* no region, or a content the request does not state
          MaxHooks    \* bound: managed hook entries in .claude/settings.json

ASSUME RepoAssumption ==
  /\ Body \in Content
  /\ NoContent \notin Content
  /\ MaxHooks \in Nat \ {0}

\* Both precedence tables of the planner put the targets in this order.
TargetOrder ==
  <<"agent-config-guardrails", "dev-genie:guardrails", "eslint-managed-layer",
    "claude-settings-hooks", "audit-baseline", "katana:claude-code",
    "daimyo:claude-code">>

Target == Range(TargetOrder)

RegionTarget == {"agent-config-guardrails", "dev-genie:guardrails"}
PlatformTarget == {"katana:claude-code", "daimyo:claude-code"}

PathOf(t) ==
  CASE t \in RegionTarget            -> "CLAUDE.md"
    [] t = "eslint-managed-layer"    -> "eslint.config.guardrails.mjs"
    [] t = "claude-settings-hooks"   -> ".claude/settings.json"
    [] t = "audit-baseline"          -> ".audit/audit.config.json"
    [] t \in PlatformTarget          -> ".mcp.json"

Path == {PathOf(t) : t \in Target}

\* What lies between the guardrails markers of CLAUDE.md, if they are there.
RegionState == Content \cup {NoContent}

\* The katana markers of CLAUDE.md: a doubled pair is refused by every edit.
DocMarkers == {"none", "block", "doubled"}

\* The user's ESLint config: only a flat one can be layered upon.
EntryKind == {"none", "flat", "legacy"}

\* The paths that the lock sections of CLAUDE.md name.
LockStatements == SUBSET Path

Repo ==
  [region   : RegionState,
   doc      : DocMarkers,
   entry    : EntryKind,
   layered  : BOOLEAN,                            \* eslint.config.guardrails.mjs
   settings : {"absent", "object", "malformed"},
   hooks    : 0..MaxHooks,                        \* managed entries in it
   audit    : BOOLEAN,                            \* .audit/
   plugin   : BOOLEAN,                            \* .claude/plugins/katana/
   mcp      : {"absent", "object", "malformed"},
   servers  : SUBSET {"katana", "daimyo"},        \* named by .mcp.json
   locks    : LockStatements]

----------------------------------------------------------------------------
(* Detection and planning *)

\* Any one sign of a plugin makes it present; last: is there a last-run record?
PluginPresent(r, last, p) ==
  CASE p = "guardrails" -> r.hooks > 0 \/ r.region # NoContent \/ r.layered
    [] p = "dev-genie"  -> r.region # NoContent \/ last
    [] p = "audit"      -> r.audit
    [] p = "katana"     -> r.plugin \/ r.doc # "none" \/ "katana" \in r.servers
    [] p = "daimyo"     -> "daimyo" \in r.servers

PluginOf(t) ==
  CASE t = "agent-config-guardrails" -> "guardrails"
    [] t = "dev-genie:guardrails"    -> "dev-genie"
    [] t = "audit-baseline"          -> "audit"
    [] t = "katana:claude-code"      -> "katana"
    [] t = "daimyo:claude-code"      -> "daimyo"
    [] OTHER                         -> "none"

\* A target asked for as a plugin is there when the plugin shows any sign; one
\* asked for as a configuration only when its own file does.
TargetPresent(r, last, t, source) ==
  IF source = "plugin" THEN PluginPresent(r, last, PluginOf(t)) ELSE
  CASE t \in RegionTarget            -> r.region # NoContent
    [] t = "eslint-managed-layer"    -> r.layered
    [] t = "claude-settings-hooks"   -> r.hooks > 0
    [] t = "audit-baseline"          -> r.audit
    [] OTHER                         -> PluginPresent(r, last, PluginOf(t))

\* What a caller may ask of a target: the source, the status a comparison
\* stated for it, and the contents it wants and remembers.
Wish ==
  [source   : {"plugin", "config"},
   status   : {"unstated", "present", "weaker", "conflicting", "missing"},
   desired  : Content \cup {NoContent},
   baseline : Content \cup {NoContent}]

Satisfied == [action |-> "skip", reason |-> "already_satisfied"]
Update(why) == [action |-> "update", reason |-> why]
Missing == [action |-> "create", reason |-> "missing"]

DecisionForStatus(s) ==
  CASE s = "present"     -> Satisfied
    [] s = "weaker"      -> Update("stale")
    [] s = "conflicting" -> Update("conflicting")
    [] s = "missing"     -> Missing

\* The region there is holds something else than a content that is stated.
Differs(r, t, content) ==
  /\ t \in RegionTarget /\ r.region # NoContent
  /\ content # NoContent /\ r.region # content

DecisionFromState(r, last, t, w) ==
  IF ~TargetPresent(r, last, t, w.source) THEN Missing
  ELSE IF Differs(r, t, w.baseline) THEN Update("conflicting")
  ELSE IF Differs(r, t, w.desired) THEN Update("stale")
  ELSE Satisfied

\* isTargetLocked
Locked(r, t) == PathOf(t) \in r.locks

BaseDecision(r, last, t, w) ==
  IF w.status = "unstated" THEN DecisionFromState(r, last, t, w)
  ELSE DecisionForStatus(w.status)

DecisionForTarget(r, last, t, w) ==
  IF BaseDecision(r, last, t, w).action # "skip" /\ Locked(r, t)
  THEN [BaseDecision(r, last, t, w) EXCEPT !.reason = "locked"]
  ELSE BaseDecision(r, last, t, w)

\* planInstall: one mutation per target asked for, in the fixed order. The
\* mutation carries neither the desired nor the baseline content of the wish,
\* nor the rules and components a writer could use.
Mutation ==
  [target : Target,
   action : {"skip", "update", "create"},
   reason : {"already_satisfied", "stale", "conflicting", "missing", "locked"}]

MutationOf(r, last, t, w) ==
  LET d == DecisionForTarget(r, last, t, w)
  IN  [target |-> t, action |-> d.action, reason |-> d.reason]

\* compareMutations: the targets asked for, by precedence.
Ordered(asked) ==
  LET at(i) == IF TargetOrder[i] \in asked THEN <<TargetOrder[i]>> ELSE <<>>
  IN  at(1) \o at(2) \o at(3) \o at(4) \o at(5) \o at(6) \o at(7)

PlanInstall(r, last, wishes) ==
  LET ordered == Ordered(DOMAIN wishes)
  IN  [i \in DOMAIN ordered |-> MutationOf(r, last, ordered[i], wishes[ordered[i]])]

----------------------------------------------------------------------------
(* The writers: the repository each one leaves *)

WriteAgentBlock(r) == [r EXCEPT !.region = Body]

WriteLayered(r) == [r EXCEPT !.layered = TRUE]

\* Mutation: the entry is added without looking for one.
PushHook(r) ==
  [r EXCEPT !.settings = "object", !.hooks = IF @ = MaxHooks THEN @ ELSE @ + 1]

\* mergeEditLintHook: replaces the managed entry there is, or adds one.
MergeHook(r) ==
  [r EXCEPT !.settings = "object", !.hooks = IF @ = 0 THEN 1 ELSE @]

\* install of the claude-code platform: the plugin files, the server, the block.
WritePlugin(r) == [r EXCEPT !.plugin = TRUE]

\* mergeMcpServers: a malformed file is left alone, with a warning.
RegisterServer(r) ==
  IF r.mcp = "malformed" THEN r
  ELSE [r EXCEPT !.mcp = "object", !.servers = @ \cup {"katana"}]

InjectBlock(r) == [r EXCEPT !.doc = "block"]

\* uninstall of the platform: each piece is taken out if it is there.
Uninstall(r) ==
  LET left == r.servers \ {"katana"}
      bare == r.mcp = "object" /\ left = {}
  IN  [r EXCEPT !.plugin = FALSE,
                !.servers = left,
                !.mcp = IF bare THEN "absent" ELSE @,
                !.doc = IF @ = "doubled" THEN "block" ELSE "none"]
=============================================================================
