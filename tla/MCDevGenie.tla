----------------------------- MODULE MCDevGenie -----------------------------
(***************************************************************************)
(* The two ways in which dev-genie writes into a repository, side by side:   *)
(* the installer engine and the command that applies what an audit found.    *)
(* A behaviour is one of one side, the other rests.                          *)
(*                                                                          *)
(* Installer: requests for the plugins, for configurations without a status, *)
(* and for configurations that state one or remember a baseline.             *)
(* Apply: repositories that differ in what can go wrong with a write; a       *)
(* critical rule and an optional one, an option and a script.                 *)
(***************************************************************************)
EXTENDS MCInstaller, DevGenie

VARIABLE side

RuleName == {"no-any", "prefer-template"}
OptionName == {"strict"}
ScriptName == {"lint"}
MCCritical == {"no-any", "strict"}
MCOptional == {"prefer-template"}
ApplyOrder == <<"no-any", "prefer-template", "strict", "lint", "pre-commit", "build", "ci">>

Bare ==
  [entry |-> "flat", rules |-> [f \in RuleName |-> "missing"], saved |-> <<>>,
   layer |-> {}, tsconfig |-> "parses",
   options |-> [f \in OptionName |-> "present"], pkg |-> "object",
   scripts |-> [f \in ScriptName |-> "none"], build |-> "user", hook |-> "none",
   staged |-> "user", husky |-> FALSE, ci |-> {"checks"}, locks |-> {}]

MCApplyRepos ==
  {Bare,
   [Bare EXCEPT !.locks = {"eslint.config.mjs", "package.json"},
                !.rules = [@ EXCEPT !["no-any"] = "present"],
                !.options = [f \in OptionName |-> "weaker"], !.hook = "user"],
   [Bare EXCEPT !.entry = "legacy", !.tsconfig = "broken", !.build = "chains",
                !.ci = {"other"}],
   [Bare EXCEPT !.pkg = "malformed", !.entry = "ts", !.husky = TRUE, !.ci = {}],
   [Bare EXCEPT !.pkg = "absent", !.build = "none", !.staged = "none",
                !.options = [f \in OptionName |-> "weaker"]],
   [Bare EXCEPT !.rules = [f \in RuleName |-> "present"], !.hook = "user",
                !.scripts = [f \in ScriptName |-> "user"], !.build = "chains"]}

\* One of the repositories of a side stands for its rest.
MCInit ==
  /\ side \in {"installer", "apply"}
  /\ Init /\ Apply!Init
  /\ side # "installer" => repo = Fresh
  /\ side # "apply" => appliedRepo = Bare

MCNext ==
  \/ side = "installer" /\ Next /\ UNCHANGED <<side, applyVars>>
  \/ side = "apply" /\ Apply!Next /\ UNCHANGED <<side, vars>>

MCSpec == MCInit /\ [][MCNext]_<<side, vars, applyVars>>
=============================================================================
