---------------------------- MODULE MCDecisions ----------------------------
(***************************************************************************)
(* Four families of requests: tools against rule lists, a command against   *)
(* rules that look at its arguments and at what its node owns, a child's    *)
(* question with every classification, and surfaces whose patterns may      *)
(* overlap or whose kind cannot be told.                                    *)
(***************************************************************************)
EXTENDS Decisions

Plain ==
  [surface |-> "routing", tool |-> <<>>, domain |-> "unstated", family |-> "none",
   scope |-> "unstated", altitude |-> "task", owned |-> {}, seen |-> {}, reported |-> {},
   arguments |-> <<>>,
   risk |-> 99, riskLevel |-> "unstated", baseline |-> TRUE, options |-> FALSE,
   impact |-> "unstated", siblings |-> {}, matched |-> {}]

MCCharacter == {"a", "b"}

Tools == UNION {[1..n -> MCCharacter] : n \in 1..3}

PermissionRequests ==
  {[Plain EXCEPT !.surface = "permission", !.tool = t, !.altitude = l] :
     t \in Tools, l \in {"task", "story"}}

\* What a worker asks has no context at all.
InputRequests ==
  {[Plain EXCEPT !.surface = "input", !.altitude = "none", !.options = o] :
     o \in BOOLEAN}

File(id) == [kind |-> "file", id |-> id]
Bare(id) == [kind |-> "bare", id |-> id]

\* One tool; its command, and what its node owns.
CommandRequests ==
  {[Plain EXCEPT !.surface = "permission", !.tool = <<"a">>, !.arguments = [command |-> c],
                 !.owned = o] :
     c \in Tools, o \in {{}, {File(<< <<"a">>, <<"b">> >>)}, {Bare(<< <<"a">> >>)}}}
  \cup {[Plain EXCEPT !.surface = "permission", !.tool = <<"a">>,
                       !.owned = {File(<< <<"b">> >>), Bare(<< <<"a">> >>)}]}
Other == {[id |-> "sib", owns |-> {}, dependsOn |-> {File(<< <<"b">> >>)}]}

ClassifiedRequests ==
  {[Plain EXCEPT !.domain = d, !.scope = s, !.risk = k] :
     d \in {"unstated", "product"}, s \in {"unstated", "local", "major"},
     k \in {2, 8, 99}}
  \cup {[Plain EXCEPT !.family = "product", !.impact = "large", !.riskLevel = "high"],
        [Plain EXCEPT !.altitude = "epic"],
        [Plain EXCEPT !.altitude = "story", !.options = TRUE]}
  \cup {[Plain EXCEPT !.seen = {[kind |-> k, id |-> << <<"a">>, <<>> >>]}] :
          k \in {"governance", "config", "schema", "file", "bare"}}
  \cup {[Plain EXCEPT !.owned = {[kind |-> k, id |-> << <<"a">> >>]}] :
          k \in {"governance", "file"}}

Ids ==
  {<<a>> : a \in {<<"a">>, <<"a", "b">>, <<"b", "a">>}}
  \cup {<<a, b>> : a \in {<<>>, <<"a">>, <<"a", "b">>}, b \in {<<>>, <<"b">>, <<"a">>}}
  \cup {<< <<"a">>, <<"b">>, <<>> >>, << <<>>, <<"a">>, <<"b">> >>}

OverlapRequests ==
  {[Plain EXCEPT !.risk = 3, !.seen = {File(a)},
                 !.siblings = {[id |-> "sib", owns |-> {File(b)}, dependsOn |-> {}]}] :
     a \in Ids, b \in Ids}
  \cup {[Plain EXCEPT !.risk = 3, !.seen = {Bare(<< <<"b">> >>)} \cup more,
                       !.owned = own, !.siblings = Other] :
          more \in {{}, {File(<< <<"a">> >>)}}, own \in {{}, {File(<< <<"b">>, <<>> >>)}}}
  \cup {[Plain EXCEPT !.risk = 3, !.reported = {File(a)}, !.siblings = Other] :
          a \in Ids}
  \cup {[Plain EXCEPT !.risk = 3, !.siblings = Other],
        [Plain EXCEPT !.seen = {File(<< <<"a">> >>)}, !.siblings = Other,
                      !.matched = {"sib"}],
        [Plain EXCEPT !.seen = {File(<< <<"a">> >>)}, !.siblings = Other,
                      !.matched = {"gone"}],
        [Plain EXCEPT !.seen = {File(<< <<"a">> >>)},
                      !.siblings = {[id |-> "sib", owns |-> {}, dependsOn |-> {}]}]}

Rule(effect, pattern, altitude) ==
  [effect |-> effect, pattern |-> pattern, altitude |-> altitude,
   contains |-> <<>>, scope |-> {}]

MCRules ==
  {<<>>,
   <<Rule("deny", << <<"a">>, <<"a">> >>, "any"), Rule("allow", << <<"a">>, <<>> >>, "any")>>,
   <<Rule("allow", << <<>>, <<"b">>, <<>> >>, "task"), Rule("deny", << <<>>, <<"a">> >>, "any")>>}

\* What a command may not contain, and where a node may run it.
CommandRules ==
  {<<[Rule("deny", << <<"a">> >>, "any") EXCEPT !.contains = [command |-> <<"b", "a">>]],
     [Rule("allow", << <<"a">>, <<>> >>, "task")
        EXCEPT !.scope = {[kind |-> "file", text |-> <<"a">>]}],
     Rule("deny", << <<>>, <<>> >>, "any")>>,
   <<[Rule("allow", << <<"a">> >>, "any")
        EXCEPT !.contains = [command |-> <<"a">>, cwd |-> <<>>]],
     [Rule("allow", << <<"a">> >>, "any") EXCEPT !.contains = [command |-> <<"b", "b">>],
                                                 !.scope = {[kind |-> "bare", text |-> <<"a">>]}]>>}

Profile(level) == [d \in Domain |-> level]

Settings(levels, lists, baselines, engines, models, requests) ==
  {[profile |-> Profile(l), rules |-> rs, baseline |-> b, engine |-> e,
    model |-> m, request |-> q] :
     l \in levels, rs \in lists, b \in baselines, e \in engines, m \in models,
     q \in requests}

MCSetting ==
  Settings(Level, MCRules, {TRUE}, BOOLEAN, {FALSE}, PermissionRequests)
  \cup Settings(Level, CommandRules, {TRUE}, {TRUE}, {FALSE}, CommandRequests)
  \cup Settings(Level, {<<>>}, {TRUE}, BOOLEAN, BOOLEAN, InputRequests)
  \cup Settings(Level, {<<>>}, BOOLEAN, BOOLEAN, {TRUE}, ClassifiedRequests)
  \cup Settings(Level, {<<>>}, {TRUE}, {TRUE}, {FALSE}, OverlapRequests)

MCDenyTools == {<<"b", "a">>}
MCAllowTools == {<<"a", "b">>, <<"b", "a">>}

MCTexts == UNION {[1..n -> MCCharacter] : n \in 0..3}
=============================================================================
