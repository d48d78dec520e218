---------------------------- MODULE MCInstaller ----------------------------
(***************************************************************************)
(* Three requests: the plugins, the configurations without a status, and    *)
(* configurations that state a status or remember a baseline.               *)
(***************************************************************************)
EXTENDS Installer

CONSTANTS body, old, mine, none, norequest

MCContent == {body, old, mine}

plain(source) == [source |-> source, status |-> "unstated",
                  desired |-> none, baseline |-> none]

Plugins == [t \in RegionTarget \cup PlatformTarget \cup {"audit-baseline"} |->
              plain("plugin")]

Configs == [t \in {"agent-config-guardrails", "eslint-managed-layer",
                   "claude-settings-hooks", "katana:claude-code"} |->
              plain("config")]

Compared ==
  [t \in {"agent-config-guardrails", "eslint-managed-layer",
          "claude-settings-hooks", "daimyo:claude-code"} |->
     IF t \in RegionTarget
     THEN [plain("config") EXCEPT !.baseline = old, !.desired = body]
     ELSE IF t = "daimyo:claude-code" THEN plain("plugin")
     ELSE [plain("config") EXCEPT !.status = "weaker"]]

\* An empty repository; one with every file the writers need; one with a
\* malformed .mcp.json; and repositories that lock a file from the start.
Fresh == [region |-> none, doc |-> "none", entry |-> "none", layered |-> FALSE,
          settings |-> "absent", hooks |-> 0, audit |-> FALSE, plugin |-> FALSE,
          mcp |-> "absent", servers |-> {}, locks |-> {}]

Adopted == [Fresh EXCEPT !.entry = "flat", !.settings = "object", !.audit = TRUE]

MCRepos ==
  {Fresh, Adopted,
   [Adopted EXCEPT !.mcp = "malformed", !.entry = "legacy"],
   [Adopted EXCEPT !.region = old, !.doc = "block"]}
  \cup {[Adopted EXCEPT !.locks = {p}] : p \in Path \ {".audit/audit.config.json"}}

MCRequest == {Plugins, Configs, Compared}

\* An upgrade: the region holds the body of an earlier version.
UpgradeRepos == {[Adopted EXCEPT !.region = old]}
UpgradeRequest == {Compared}
=============================================================================
